--------------------------------- MODULE Tree ---------------------------------
(***************************************************************************)
(* The parent of a stress test (main() of src/src/brannagh/brannagh.c and  *)
(* src/src/clodagh/clodagh.c), its children, and the directories of the    *)
(* file system under test that the children work in side by side: their    *)
(* paths, the operations that fill and empty directories, and              *)
(* special/move.c, which moves a directory to "tmp" and back.              *)
(*                                                                         *)
(* A system call on paths is atomic.  rename() of a directory onto another *)
(* one replaces it if it is empty, and fails if it is not; no other reason *)
(* for it to fail is modelled.  An operation that fails changes nothing    *)
(* and is not shown.  Directories go by the name they had at the start.    *)
(*                                                                         *)
(* Faulty... definitions are plausible bugs that no specification uses.    *)
(***************************************************************************)
EXTENDS Integers

(* The table of paths, without BSTG_BASEDIR: each name in each directory.  *)
DigitDirs  == {"111", "222", "333", "444", "555", "666", "777", "888", "999"}
LetterDirs == {"aaa", "bbb", "ccc", "ddd", "eee", "fff"}
FileNames  == {"a", "adir", "afifo", "ahole", "b", "c", "ra81.dsk.Z",
               "symlinkempty", "true", "true.sh", "true.sh.truncate",
               "true.truncate", "true2"}

bstg_pathstore == (DigitDirs \cup LetterDirs) \X FileNames

CONSTANTS
  Dirs, Names,     (* the part of the table that is drawn from              *)
  NChildren        (* children to fork: 37 in brannagh, 128 in clodagh      *)

ASSUME TreeAssumption ==
  /\ Dirs \X Names \subseteq bstg_pathstore
  /\ {"tmp", "none"} \cap Dirs = {}
  /\ NChildren \in Nat

Tmp      == "tmp"
NoDir    == "none"
Slots    == Dirs \cup {Tmp}
Children == 0 .. (NChildren - 1)

VARIABLES
  at,          (* the directory that has each name in the base directory    *)
  files,       (* the entries of each directory                             *)
  proc,        (* the state of each child                                   *)
  src,         (* the name that a child's move is about                     *)
  x,           (* the parent's loop counter                                 *)
  parent       (* what the parent does                                      *)

vars == <<at, files, proc, src, x, parent>>

(* dsk/Makefile makes every directory and puts files in 111 only.          *)
Init ==
  /\ at = [s \in Slots |-> IF s = Tmp THEN NoDir ELSE s]
  /\ files = [d \in Dirs |-> IF d = "111" THEN Names ELSE {}]
  /\ proc = [c \in Children |-> "none"]
  /\ src \in [Children -> Dirs]
  /\ x = 0
  /\ parent = "fork"

-----------------------------------------------------------------------------
(* fork(); when it fails there is one child less.                          *)
Fork ==
  /\ parent = "fork"
  /\ x < NChildren
  /\ \/ proc' = [proc EXCEPT ![x] = "run"]
     \/ UNCHANGED proc
  /\ x' = x + 1
  /\ UNCHANGED <<at, files, src, parent>>

Forked ==
  /\ parent = "fork"
  /\ x = NChildren
  /\ parent' = "wait"
  /\ UNCHANGED <<at, files, proc, src, x>>

FaultyWait ==
  /\ parent = "wait"
  /\ \/ \E c \in Children :
          /\ proc[c] = "zombie"
          /\ proc' = [proc EXCEPT ![c] = "reaped"]
     \/ /\ \A c \in Children : proc[c] \in {"none", "reaped"}
        /\ UNCHANGED proc
  /\ parent' = "done"
  /\ UNCHANGED <<at, files, src, x>>

(* while (wait(&status) > 0): wait() fails when there is no child left.    *)
Wait ==
  /\ parent = "wait"
  /\ \/ \E c \in Children :
          /\ proc[c] = "zombie"
          /\ proc' = [proc EXCEPT ![c] = "reaped"]
          /\ UNCHANGED parent
     \/ /\ \A c \in Children : proc[c] \in {"none", "reaped"}
        /\ parent' = "done"
        /\ UNCHANGED proc
  /\ UNCHANGED <<at, files, src, x>>

-----------------------------------------------------------------------------
(* bstg_pathstore_get(): any path of the table.                            *)
Draws == Dirs \X Names

Exists(path) == at[path[1]] # NoDir /\ path[2] \in files[at[path[1]]]

(* open() with O_CREAT, mkdir(), mkfifo(), symlink().                      *)
Create(c) ==
  /\ proc[c] = "run"
  /\ \E path \in Draws :
       /\ at[path[1]] # NoDir
       /\ files' = [files EXCEPT ![at[path[1]]] = @ \cup {path[2]}]
  /\ UNCHANGED <<at, proc, src, x, parent>>

(* unlink(), remove(), rmdir().                                            *)
Remove(c) ==
  /\ proc[c] = "run"
  /\ \E path \in Draws :
       /\ Exists(path)
       /\ files' = [files EXCEPT ![at[path[1]]] = @ \ {path[2]}]
  /\ UNCHANGED <<at, proc, src, x, parent>>

Link(c) ==
  /\ proc[c] = "run"
  /\ \E old, new \in Draws :
       /\ Exists(old)
       /\ at[new[1]] # NoDir
       /\ files' = [files EXCEPT ![at[new[1]]] = @ \cup {new[2]}]
  /\ UNCHANGED <<at, proc, src, x, parent>>

Rename(c) ==
  /\ proc[c] = "run"
  /\ \E old, new \in Draws :
       /\ Exists(old)
       /\ at[new[1]] # NoDir
       /\ files' = [d \in Dirs |->
            (files[d] \ (IF d = at[old[1]] THEN {old[2]} ELSE {}))
              \cup (IF d = at[new[1]] THEN {new[2]} ELSE {})]
  /\ UNCHANGED <<at, proc, src, x, parent>>

-----------------------------------------------------------------------------
(* rename() of a whole directory.                                          *)
Renames(from, to) ==
  /\ at[from] # NoDir
  /\ at[to] # NoDir => files[at[to]] = {}

Renamed(from, to) == [at EXCEPT ![to] = at[from], ![from] = NoDir]

FaultyMoveAway(c) ==
  /\ proc[c] = "run"
  /\ \E path \in Draws :
       /\ at' = IF Renames(path[1], Tmp) THEN Renamed(path[1], Tmp) ELSE at
       /\ src' = [src EXCEPT ![c] = path[1]]
  /\ proc' = [proc EXCEPT ![c] = "moved"]
  /\ UNCHANGED <<files, x, parent>>

(* The first rename() of special/move.c, when it succeeds.                 *)
MoveAway(c) ==
  /\ proc[c] = "run"
  /\ \E path \in Draws :
       /\ Renames(path[1], Tmp)
       /\ at' = Renamed(path[1], Tmp)
       /\ src' = [src EXCEPT ![c] = path[1]]
  /\ proc' = [proc EXCEPT ![c] = "moved"]
  /\ UNCHANGED <<files, x, parent>>

FaultyMoveBack(c) ==
  /\ proc[c] = "moved"
  /\ at' = IF Renames(src[c], Tmp) THEN Renamed(src[c], Tmp) ELSE at
  /\ proc' = [proc EXCEPT ![c] = "run"]
  /\ UNCHANGED <<files, src, x, parent>>

FaultyMoveBackRetries(c) ==
  /\ proc[c] = "moved"
  /\ IF Renames(src[c], Tmp)
     THEN at' = Renamed(src[c], Tmp) /\ proc' = [proc EXCEPT ![c] = "run"]
     ELSE UNCHANGED <<at, proc>>
  /\ UNCHANGED <<files, src, x, parent>>

(* The second one.  Other children have had their turns in between: what   *)
(* is at "tmp" now, if anything is, may be another directory.              *)
MoveBack(c) ==
  /\ proc[c] = "moved"
  /\ at' = IF Renames(Tmp, src[c]) THEN Renamed(Tmp, src[c]) ELSE at
  /\ proc' = [proc EXCEPT ![c] = "run"]
  /\ UNCHANGED <<files, src, x, parent>>

(* A child of clodagh comes to the end of its archives; a child of either  *)
(* program may die in another operation (SIGPIPE, a failed null check).    *)
End(c) ==
  /\ proc[c] = "run"
  /\ proc' = [proc EXCEPT ![c] = "zombie"]
  /\ UNCHANGED <<at, files, src, x, parent>>

Ended == parent = "done" /\ UNCHANGED vars

-----------------------------------------------------------------------------
Child(c) ==
  \/ Create(c)
  \/ Remove(c)
  \/ Link(c)
  \/ Rename(c)
  \/ MoveAway(c)
  \/ MoveBack(c)
  \/ End(c)

Next ==
  \/ Fork
  \/ Forked
  \/ Wait
  \/ \E c \in Children : Child(c)
  \/ Ended

Spec == Init /\ [][Next]_vars

(* The kernel lets a child that is between its two renames go on.          *)
FairSpec == Spec /\ \A c \in Children : WF_vars(MoveBack(c))

-----------------------------------------------------------------------------
TypeOK ==
  /\ at \in [Slots -> Dirs \cup {NoDir}]
  /\ files \in [Dirs -> SUBSET Names]
  /\ proc \in [Children -> {"none", "run", "moved", "zombie", "reaped"}]
  /\ src \in [Children -> Dirs]
  /\ x \in 0 .. NChildren
  /\ parent \in {"fork", "wait", "done"}

(* However many children move directories through the one name "tmp", and  *)
(* whichever directory a child's second rename() finds there, the name it  *)
(* gives it is free: the way back never replaces a directory.              *)
WayBackFree ==
  \A c \in Children : proc[c] = "moved" => at[src[c]] = NoDir

(* The directories that no longer have a name.                             *)
Lost == {d \in Dirs : \A s \in Slots : at[s] # d}

(* A directory gets lost only while it is empty, and only when two moves   *)
(* overlap: some other child is between its two renames before and after   *)
(* the step.  A lone child always puts back what it has taken.             *)
LostOnlyByRace ==
  [][/\ \A d \in Lost' \ Lost : files[d] = {}
     /\ Lost' # Lost =>
          \E c \in Children : proc[c] = "moved" /\ proc'[c] = "moved"]_vars

(* Nothing stays at "tmp", where no operation looks for it, for ever.      *)
TmpComesFree == []<>(at[Tmp] = NoDir)

(* The parent outlives its children, those that move a directory included: *)
(* when it returns, and the scripts unmount the file system, no child is   *)
(* left, not even as a zombie, and nothing has been left at "tmp".         *)
ParentLast ==
  parent = "done" =>
    /\ \A c \in Children : proc[c] \in {"none", "reaped"}
    /\ at[Tmp] = NoDir

=============================================================================
