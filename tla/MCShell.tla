------------------------------ MODULE MCShell ------------------------------
(***************************************************************************)
(* The shell on a partition of four inodes, with one local descriptor and *)
(* two file_table slots left, so that mkfile runs out of descriptors       *)
(* before it runs out of slots, and slots before inodes.                   *)
(***************************************************************************)
EXTENDS Shell

MCInodes == 0 .. 3

\* "a", "/a", "..", "a/b", "/a/../b", "//b/"
MCArgs == { <<"a">>, <<"/", "a">>, <<".", ".">>, <<"a", "/", "b">>,
            <<"/", "a", "/", ".", ".", "/", "b">>, <<"/", "/", "b", "/">> }

Entry(type, parent, name) == [type |-> type, parent |-> parent, name |-> name, linked |-> TRUE]
RootDir == [type |-> "dir", parent |-> 0, name |-> <<>>, linked |-> FALSE]

\* A fresh partition, and one that kept a regular file /a from an earlier run.
MCInitTrees ==
  { [i \in MCInodes |-> IF i = 0 THEN RootDir ELSE Free],
    [i \in MCInodes |-> CASE i = 0 -> RootDir
                          [] i = 1 -> Entry("file", 0, <<"a">>)
                          [] OTHER -> Free] }
====
