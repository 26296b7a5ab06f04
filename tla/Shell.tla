------------------------------- MODULE Shell -------------------------------
(***************************************************************************)
(* The shell's file commands (shell/in_cmd.c) and the system calls they    *)
(* make on the namespace of the mounted partition (fs/fs.c): pwd, cd, ls,  *)
(* mkdir, rmdir, mkfile and rm, with the path handling of both sides:      *)
(* make_clear_abs_path and wash_path in the shell, path_parse,             *)
(* search_file and sys_getcwd in the kernel.                               *)
(*                                                                         *)
(* The shell is one process and each command is one system call or two    *)
(* (getcwd, then the call on the washed path); with interrupts off in      *)
(* every call, and no other process touching the namespace, a command is   *)
(* one step.  The namespace is the inode table seen through directory      *)
(* entries: an inode's type, the directory its entry is in (a directory's  *)
(* "..") and the entry's name.  Directory blocks, sizes and the inode      *)
(* cache are left to Directory and FileTable; blocks never run out here.   *)
(* Paths are sequences of characters, since the properties are about how   *)
(* they are converted.                                                     *)
(***************************************************************************)
EXTENDS Integers, Sequences, SequencesExt, FiniteSets

CONSTANTS
  Inodes,     \* inode numbers of the partition, 0 the root's
  Args,       \* path arguments typed at the prompt: nonempty sequences of characters
  MaxFds,     \* the shell's free local descriptors, MAX_FILES_OPEN_PER_PROC - 3
  MaxSlots,   \* the free file_table slots, MAX_FILE_OPEN - 3
  InitTrees   \* inode tables the partition can hold when the shell starts

Root == 0
ASSUME Root \in Inodes /\ MaxFds \in Nat /\ MaxSlots \in Nat

Slash  == <<"/">>
Dot    == <<".">>
DotDot == <<".", ".">>
NoArg  == <<>>          \* argc == 1: no path after the command
NoPath == <<>>          \* nothing printed or passed on

Types == {"none", "dir", "file"}
Free  == [type |-> "none", parent |-> Root, name |-> <<>>, linked |-> FALSE]
Cmds  == {"none", "pwd", "cd", "ls", "mkdir", "rmdir", "mkfile", "rm"}

VARIABLES
  inode,    \* inode[i]: type, the directory holding its entry, name, entry present
  cwd,      \* the shell's task_struct.cwd_inode_no
  held,     \* inodes the file_table slots hold (fd_inode)
  fds,      \* the shell's fd_table entries in use
  halted,   \* the kernel stopped on a failed ASSERT, or the shell on its assert
  last      \* history: the last command, its argument, the path it used, its cwd

vars == <<inode, cwd, held, fds, halted, last>>

Linked == {i \in Inodes \ {Root} : inode[i].linked}
Entries(d) == {i \in Linked : inode[i].parent = d}
FreeInodes == {i \in Inodes : inode[i].type = "none"}
-----------------------------------------------------------------------------
(***************************************************************************)
(* Path handling, on sequences of characters.                              *)
(***************************************************************************)
IsSlash(c) == c = "/"

\* path_parse: past a leading '/' and every '/' after it, copy the name up
\* to the next '/'; the rest starts at that '/', or is NULL at the end.
path_parse(s) ==
  LET t == IF s # <<>> /\ IsSlash(s[1])
             THEN LET k == SelectInSeq(Tail(s), LAMBDA c : ~IsSlash(c))
                  IN IF k = 0 THEN <<>> ELSE SubSeq(Tail(s), k, Len(s) - 1)
             ELSE s
      n == SelectInSeq(t, IsSlash)
  IN IF n = 0 THEN [name |-> t, more |-> FALSE, rest |-> <<>>]
     ELSE [name |-> SubSeq(t, 1, n - 1), more |-> TRUE, rest |-> SubSeq(t, n, Len(t))]

\* The names the loop "parse; while (name[0]) { ...; if (sub) parse }"
\* visits, shared by path_depth_cnt, wash_path and search_file.
RECURSIVE ParseNames(_)
ParseNames(s) ==
  LET r == path_parse(s) IN
  IF r.name = <<>> THEN <<>>
  ELSE <<r.name>> \o (IF r.more THEN ParseNames(r.rest) ELSE <<>>)

\* One turn of wash_path's loop: ".." cuts at the last '/', keeping "/"
\* when that is the first character; "." is skipped; a name is appended
\* after a '/' unless the path is "/".
WashStep(new, name) ==
  CASE name = DotDot ->
         LET sl == SelectLastInSeq(new, IsSlash) IN
         IF sl # 1 THEN SubSeq(new, 1, sl - 1) ELSE Slash
    [] name = Dot -> new
    [] OTHER -> (IF new # Slash THEN new \o Slash ELSE new) \o name

wash_path(old) ==
  IF ParseNames(old) = <<>> THEN Slash ELSE FoldLeft(WashStep, Slash, ParseNames(old))
JoinPath(names) == FoldLeft(LAMBDA acc, n : acc \o Slash \o n, <<>>, names)

\* make_clear_abs_path's concatenation: a relative argument goes after
\* getcwd's path and a '/' (none after "/").
AbsPath(g, arg) == IF IsSlash(arg[1]) THEN arg ELSE (IF g = Slash THEN g ELSE g \o Slash) \o arg

\* The shell builds finitely many paths: getcwd's has at most one name per
\* inode but the root, each a name an argument carries.  wash_path and the
\* parse of its results are tabulated over them once; the kernel calls
\* parse only washed paths.
ArgNames == UNION {ToSet(ParseNames(a)) : a \in Args} \ {Dot, DotDot}
CwdPaths == {Slash} \cup {JoinPath(ns) : ns \in BoundedSeq(ArgNames, Cardinality(Inodes) - 1) \ {<<>>}}
Washed == [p \in {AbsPath(g, a) : g \in CwdPaths, a \in Args} |-> wash_path(p)]
Parsed == [p \in Range(Washed) |-> ParseNames(p)]

PathNames(s) == Parsed[s]

path_depth_cnt(s) == Len(PathNames(s))
-----------------------------------------------------------------------------
(***************************************************************************)
(* Lookups in the kernel.                                                  *)
(***************************************************************************)
\* search_dir_entry: "." and ".." are entries of every directory.
search_dir_entry(d, name) ==
  CASE name = Dot -> d
    [] name = DotDot -> inode[d].parent
    [] \E i \in Entries(d) : inode[i].name = name ->
         CHOOSE i \in Entries(d) : inode[i].name = name
    [] OTHER -> -1

\* search_file's loop from parent_dir = dir, with pino its parent_inode_no,
\* depth the names appended to searched_path and name the last of them.  A
\* regular file ends the search whatever names follow it.
RECURSIVE Visit(_, _, _, _)
Search(names, dir, pino, depth, name) ==
  IF names = <<>>
  THEN [ino |-> dir, type |-> "dir", parent |-> pino, depth |-> depth, name |-> name]
  ELSE Visit(names, dir, depth, search_dir_entry(dir, Head(names)))

\* One turn of the loop, e the entry found for the next name: a miss or a
\* regular file stops the search; a directory becomes parent_dir.
Visit(names, dir, depth, e) ==
  IF e = -1 \/ inode[e].type = "file"
  THEN [ino |-> e, type |-> IF e = -1 THEN "unknown" ELSE "file", parent |-> dir,
        depth |-> depth + 1, name |-> Head(names)]
  ELSE Search(Tail(names), e, dir, depth + 1, Head(names))

RootPaths == {Slash, <<"/", ".">>, <<"/", ".", ".">>}

search_file(p) ==
  IF p \in RootPaths
  THEN [ino |-> Root, type |-> "dir", parent |-> Root, depth |-> 0, name |-> <<>>]
  ELSE Search(PathNames(p), Root, Root, 0, <<>>)

\* sys_getcwd's walk from the cwd to the root, the child's name first.
\* get_parent_dir_inode_no asserts that the child's first block is a data
\* block: a freed inode (inode_delete zeroed it) or an empty file has none.
\* get_child_dir_name fails when the parent holds no entry for the child.
RECURSIVE UpWalk(_)
UpWalk(c) ==
  CASE c = Root -> [st |-> "ok", names |-> <<>>]
    [] inode[c].type # "dir" -> [st |-> "panic", names |-> <<>>]
    [] ~inode[c].linked -> [st |-> "null", names |-> <<>>]
    [] OTHER -> LET up == UpWalk(inode[c].parent)
                IN [up EXCEPT !.names = <<inode[c].name>> \o @]

\* A getcwd that leaves out the strrchr loop: the names stay child first.
UnreversedPath(w) ==
  IF w.st # "ok" THEN [st |-> w.st, path |-> NoPath]
  ELSE [st |-> "ok", path |-> JoinPath(w.names)]

\* The end of sys_getcwd, w the walk: NULL when it failed, otherwise the
\* names put back in order by the strrchr loop.
ReversedPath(w) ==
  IF w.st # "ok" THEN [st |-> w.st, path |-> NoPath]
  ELSE [st |-> "ok", path |-> JoinPath(Reverse(w.names))]

\* sys_getcwd: "/" for the root; otherwise the walk up, reversed.
sys_getcwd ==
  IF cwd = Root THEN [st |-> "ok", path |-> Slash] ELSE ReversedPath(UpWalk(cwd))

\* make_clear_abs_path: the absolute path, washed; g is getcwd's answer
\* for a relative one.  With getcwd NULL the path stays relative and
\* wash_path's assert stops the shell.
ClearPath(g, arg) ==
  IF g.st # "ok" THEN g ELSE [st |-> "ok", path |-> Washed[AbsPath(g.path, arg)]]

make_clear_abs_path(arg) ==
  IF IsSlash(arg[1]) THEN [st |-> "ok", path |-> Washed[arg]] ELSE ClearPath(sys_getcwd, arg)
-----------------------------------------------------------------------------
(***************************************************************************)
(* The system calls, as the changes they make to the namespace.  Each    *)
(* starts with search_file: s is what it returned and recorded for p.     *)
(***************************************************************************)
\* A failed ASSERT in a call: the kernel stops in panic_spin.
AssertFails == halted' = TRUE /\ UNCHANGED <<inode, cwd, held, fds>>

\* sys_chdir: the cwd becomes the directory the path names.
sys_chdir(p, s) ==
  /\ cwd' = IF s.ino # -1 /\ s.type = "dir" THEN s.ino ELSE cwd
  /\ UNCHANGED <<inode, held, fds, halted>>

\* A mkdir without the path_depth_cnt comparison: a missing intermediate
\* directory is taken for the parent's last name.
sys_mkdir_nodepth(p, s) ==
  /\ inode' = IF s.ino = -1 /\ FreeInodes # {}
               THEN [inode EXCEPT ![Min(FreeInodes)] =
                       [type |-> "dir", parent |-> s.parent, name |-> s.name, linked |-> TRUE]]
               ELSE inode
  /\ UNCHANGED <<cwd, held, fds, halted>>

\* sys_mkdir: refused when search_file finds the path or stops before its
\* last name; the new directory takes the lowest free inode (bitmap_scan)
\* and its entry, named after the last name searched, goes into the
\* directory the search stopped in, which is also its "..".
sys_mkdir(p, s) ==
  /\ inode' = IF s.ino = -1 /\ path_depth_cnt(p) = s.depth /\ FreeInodes # {}
               THEN [inode EXCEPT ![Min(FreeInodes)] =
                       [type |-> "dir", parent |-> s.parent, name |-> s.name, linked |-> TRUE]]
               ELSE inode
  /\ UNCHANGED <<cwd, held, fds, halted>>

\* sys_rmdir: asserts the path is not the root's; an empty directory
\* (dir_is_empty) loses its entry (dir_remove) and its inode (inode_release).
sys_rmdir(p, s) ==
  IF s.ino = Root THEN AssertFails
  ELSE /\ inode' = IF s.ino # -1 /\ s.type = "dir" /\ Entries(s.ino) = {}
                   THEN [inode EXCEPT ![s.ino] = Free]
                   ELSE inode
       /\ UNCHANGED <<cwd, held, fds, halted>>

\* A file_create whose pcb_fd_install takes a descriptor past the last one.
file_create_nofdlimit(parent, name) ==
  LET i == Min(FreeInodes)
      made == FreeInodes # {} /\ Cardinality(held) < MaxSlots
  IN /\ inode' = IF made
                 THEN [inode EXCEPT ![i] = [type |-> "file", parent |-> parent,
                                            name |-> name, linked |-> TRUE]]
                 ELSE inode
     /\ held' = IF made THEN held \cup {i} ELSE held
     /\ fds' = IF made THEN fds + 1 ELSE fds
     /\ UNCHANGED <<cwd, halted>>

\* file_create: an inode (inode_bitmap_alloc) and a file_table slot
\* (get_free_slot_in_global, the inode rolled back when there is none) are
\* taken, the entry is written and the inode pushed on the open list, and
\* only then pcb_fd_install looks for a local descriptor: when the shell
\* has none left the call returns -1 with the file created and the slot held.
file_create(parent, name) ==
  LET i == Min(FreeInodes)
      made == FreeInodes # {} /\ Cardinality(held) < MaxSlots
  IN /\ inode' = IF made
                 THEN [inode EXCEPT ![i] = [type |-> "file", parent |-> parent,
                                            name |-> name, linked |-> TRUE]]
                 ELSE inode
     /\ held' = IF made THEN held \cup {i} ELSE held
     /\ fds' = IF made /\ fds < MaxFds THEN fds + 1 ELSE fds
     /\ UNCHANGED <<cwd, halted>>

\* The name file_create gives the entry: strrchr(path_name, '/') + 1.
AfterLastSlash(p) == SubSeq(p, SelectLastInSeq(p, IsSlash) + 1, Len(p))

\* sys_open(p, O_CREAT): refused for a path ending in '/', a directory, a
\* missing intermediate directory or an existing file; otherwise
\* file_create in the directory the search stopped in.
sys_open_creat(p, s) ==
  IF /\ p[Len(p)] # "/"
     /\ s.type # "dir"
     /\ path_depth_cnt(p) = s.depth
     /\ s.ino = -1
  THEN file_create(s.parent, AfterLastSlash(p))
  ELSE UNCHANGED <<inode, cwd, held, fds, halted>>

\* sys_unlink: asserts the path is not the root's; refused for a missing
\* file, a directory, or a file some file_table slot holds; then
\* delete_dir_entry removes the entry, and the inode stays allocated.
sys_unlink(p, s) ==
  IF s.ino = Root THEN AssertFails
  ELSE /\ inode' = IF s.ino # -1 /\ s.type = "file" /\ s.ino \notin held
                   THEN [inode EXCEPT ![s.ino].linked = FALSE]
                   ELSE inode
       /\ UNCHANGED <<cwd, held, fds, halted>>
-----------------------------------------------------------------------------
(***************************************************************************)
(* The commands.  Each runs only while the kernel does, records in last   *)
(* what it used, and stops with the kernel when getcwd fails an ASSERT.   *)
(***************************************************************************)
\* getcwd's ASSERT stops the kernel before the command does anything.
Halt == halted' = TRUE /\ UNCHANGED <<inode, cwd, held, fds, last>>

\* With getcwd's NULL, make_clear_abs_path leaves a relative argument as it
\* is, and wash_path's assert(old_abs_path[0] == '/') ends the shell, the
\* only task that issues commands: nothing runs after it either.  Here
\* getcwd never returns NULL: rmdir frees a directory's inode, so getcwd
\* from a removed cwd fails its ASSERT first, and only files are unlinked.
WashPathAssert == halted' = TRUE /\ UNCHANGED <<inode, cwd, held, fds, last>>

\* How a command stops when its path r could not be made.
PathFails(r) == IF r.st = "panic" THEN Halt ELSE WashPathAssert

Record(cmd, arg, path) == last' = [cmd |-> cmd, arg |-> arg, path |-> path, from |-> cwd]

\* in_pwd prints getcwd's path, or an error when it returns NULL.
Pwd(g) ==
  IF g.st = "panic" THEN Halt
  ELSE /\ Record("pwd", NoArg, g.path)
       /\ UNCHANGED <<inode, cwd, held, fds, halted>>

in_pwd == ~halted /\ Pwd(sys_getcwd)

\* in_cd: no argument means "/"; otherwise the washed absolute path r.
ChangeDir(arg, r) ==
  IF r.st # "ok" THEN PathFails(r)
  ELSE /\ sys_chdir(r.path, search_file(r.path))
       /\ Record("cd", arg, r.path)

in_cd(arg) ==
  ~halted /\ ChangeDir(arg, IF arg = NoArg THEN [st |-> "ok", path |-> Slash] ELSE make_clear_abs_path(arg))

\* in_ls: stat, opendir, readdir and closedir read the namespace only.
List(arg, r) ==
  IF r.st = "panic" \/ (r.st = "null" /\ arg # NoArg) THEN PathFails(r)
  ELSE /\ Record("ls", arg, r.path)
       /\ UNCHANGED <<inode, cwd, held, fds, halted>>

in_ls(arg) == ~halted /\ List(arg, IF arg = NoArg THEN sys_getcwd ELSE make_clear_abs_path(arg))

\* The system call each of the four commands makes, through the user-side
\* wrappers mkdir, rmdir, open(O_CREAT) and unlink.
Syscall(cmd, p, s) ==
  CASE cmd = "mkdir"  -> sys_mkdir(p, s)
    [] cmd = "rmdir"  -> sys_rmdir(p, s)
    [] cmd = "mkfile" -> sys_open_creat(p, s)
    [] cmd = "rm"     -> sys_unlink(p, s)

\* in_mkdir, in_rmdir, in_mkfile and in_rm make their call on the washed
\* path r unless it is "/".  in_mkfile never closes the descriptor it gets.
PathCommand(cmd, arg, r) ==
  IF r.st # "ok" THEN PathFails(r)
  ELSE /\ IF r.path # Slash THEN Syscall(cmd, r.path, search_file(r.path))
          ELSE UNCHANGED <<inode, cwd, held, fds, halted>>
       /\ Record(cmd, arg, r.path)

in_mkdir(arg)  == ~halted /\ PathCommand("mkdir", arg, make_clear_abs_path(arg))
in_rmdir(arg)  == ~halted /\ PathCommand("rmdir", arg, make_clear_abs_path(arg))
in_mkfile(arg) == ~halted /\ PathCommand("mkfile", arg, make_clear_abs_path(arg))
in_rm(arg)     == ~halted /\ PathCommand("rm", arg, make_clear_abs_path(arg))
-----------------------------------------------------------------------------
Init ==
  /\ inode \in InitTrees
  /\ cwd = Root
  /\ held = {}
  /\ fds = 0
  /\ halted = FALSE
  /\ last = [cmd |-> "none", arg |-> NoArg, path |-> NoPath, from |-> Root]

\* my_shell's loop: one command line after another until the kernel stops.
Next ==
  \/ in_pwd
  \/ \E a \in Args \cup {NoArg} : in_cd(a) \/ in_ls(a)
  \/ \E a \in Args : in_mkdir(a) \/ in_rmdir(a) \/ in_mkfile(a) \/ in_rm(a)

Spec == Init /\ [][Next]_vars
-----------------------------------------------------------------------------
TypeOK ==
  /\ inode \in [Inodes -> [type : Types, parent : Inodes, name : Seq(STRING), linked : BOOLEAN]]
  /\ inode[Root].type = "dir"
  /\ cwd \in Inodes
  /\ held \subseteq Inodes /\ Cardinality(held) <= MaxSlots
  /\ fds \in 0 .. MaxFds
  /\ halted \in BOOLEAN
  /\ last \in [cmd : Cmds, arg : Seq(STRING), path : Seq(STRING), from : Inodes]

(***************************************************************************)
(* The resolution spec section 6 gives the shell: a path is split at '/', *)
(* consecutive slashes collapsing; a relative one goes after the cwd; "." *)
(* is dropped and ".." removes the name before it, none at the root.  The *)
(* cwd's names are read off the namespace, from the root down.            *)
(***************************************************************************)
RECURSIVE SplitPath(_)
SplitPath(s) ==
  LET k == SelectInSeq(s, IsSlash) IN
  CASE s = <<>> -> <<>>
    [] k = 0 -> <<s>>
    [] k = 1 -> SplitPath(Tail(s))
    [] OTHER -> <<SubSeq(s, 1, k - 1)>> \o SplitPath(SubSeq(s, k + 1, Len(s)))

Literal(names) ==
  FoldLeft(LAMBDA acc, n : CASE n = DotDot -> IF acc = <<>> THEN acc ELSE Front(acc)
                             [] n = Dot -> acc
                             [] OTHER -> Append(acc, n),
           <<>>, names)

RECURSIVE TreeNames(_)
TreeNames(d) == IF d = Root THEN <<>> ELSE Append(TreeNames(inode[d].parent), inode[d].name)

AsPath(names) == IF names = <<>> THEN Slash ELSE JoinPath(names)

SpecPath(arg) ==
  AsPath(Literal((IF IsSlash(arg[1]) THEN <<>> ELSE TreeNames(cwd)) \o SplitPath(arg)))

(***************************************************************************)
(* Every path the shell prints or hands to the kernel is the one the spec *)
(* resolves the typed argument to, against the cwd the command ran in: pwd *)
(* and a bare ls print the cwd's path, a bare cd uses "/", and a path       *)
(* argument is the washed absolute path.  It ties sys_getcwd's walk up the *)
(* ".." entries and its reversal, make_clear_abs_path's concatenation and  *)
(* wash_path's cutting at '/' to the namespace.                            *)
(***************************************************************************)
ShellResolvesPaths ==
  [][~halted' /\ last'.path # NoPath =>
       last'.path = CASE last'.arg # NoArg -> SpecPath(last'.arg)
                      [] last'.cmd = "cd" -> Slash
                      [] OTHER -> AsPath(TreeNames(cwd))]_vars

(***************************************************************************)
(* The spec's lookup (section 4, path resolution): from the root, each     *)
(* name in turn; a missing name gives -1 and a regular file is returned    *)
(* whatever names follow it.                                               *)
(***************************************************************************)
ChildNamed(d, n) ==
  IF \E i \in Entries(d) : inode[i].name = n
  THEN CHOOSE i \in Entries(d) : inode[i].name = n ELSE -1

RECURSIVE Resolve(_, _)
Resolve(d, names) ==
  IF names = <<>> THEN d
  ELSE LET e == ChildNamed(d, Head(names)) IN
       IF e = -1 \/ inode[e].type = "file" THEN e ELSE Resolve(e, Tail(names))

IsDir(i) == i # -1 /\ inode[i].type = "dir"

\* The namespace, without inode numbers: parent, name and type of each entry.
Namespace == {<<inode[i].parent, inode[i].name, inode[i].type>> : i \in Linked}

EntryOf(i) == <<inode[i].parent, inode[i].name, inode[i].type>>

\* What a command on the path of the given names does by the spec, t the
\* inode the lookup finds and up the one the names before the last lead to.
Adds(names, up, type, room) ==
  Namespace' = IF IsDir(up) /\ ChildNamed(up, Last(names)) = -1 /\ room
               THEN Namespace \cup {<<up, Last(names), type>>}
               ELSE Namespace

Removes(t, removable) ==
  Namespace' = IF removable THEN Namespace \ {EntryOf(t)} ELSE Namespace

FollowsLookup(names, t, up) ==
  /\ cwd' = IF last'.cmd = "cd" /\ IsDir(t) THEN t ELSE cwd
  /\ CASE last'.cmd = "mkdir" -> Adds(names, up, "dir", FreeInodes # {})
       [] last'.cmd = "mkfile" ->
            Adds(names, up, "file", FreeInodes # {} /\ Cardinality(held) < MaxSlots)
       [] last'.cmd = "rmdir" -> Removes(t, IsDir(t) /\ t # Root /\ Entries(t) = {})
       [] last'.cmd = "rm" -> Removes(t, t # -1 /\ inode[t].type = "file" /\ t \notin held)
       [] OTHER -> Namespace' = Namespace

FollowsPath(names) ==
  FollowsLookup(names, Resolve(Root, names),
                IF names = <<>> THEN -1 ELSE Resolve(Root, Front(names)))

(***************************************************************************)
(* Each command changes the namespace and the cwd as the spec's lookup of  *)
(* its path says: cd enters the directory the path names and otherwise    *)
(* stays; mkdir and mkfile add an entry of the last name to the directory *)
(* the names before it lead to, when that name is free there and an inode *)
(* (and for mkfile a file_table slot) is free; rmdir removes the empty     *)
(* directory the path names, never the root; rm removes the file the path *)
(* names unless a file_table slot holds it; pwd and ls change nothing.     *)
(* It holds search_file's tracking of parent_dir, the depth comparisons   *)
(* of sys_mkdir and sys_open and the checks of sys_rmdir and sys_unlink to *)
(* the lookup the spec describes.                                          *)
(***************************************************************************)
CommandsFollowResolution == [][~halted' => FollowsPath(SplitPath(last'.path))]_vars
====
