------------------------------- MODULE Brannagh -------------------------------
(***************************************************************************)
(* One child of the stress test src/src/brannagh/brannagh.c: it runs the   *)
(* operations of the pool for ever, next to the other children, with whom  *)
(* it shares the files.  The descriptors are those of FdPool, the mapped   *)
(* files those of Fault.                                                   *)
(*                                                                         *)
(* Here it matters what a descriptor refers to: a write to a pipe that no  *)
(* descriptor can be read from raises SIGPIPE, which nobody catches.  One  *)
(* pipe is watched at a time, any that is made when none is watched; all   *)
(* the other descriptors count as files.                                   *)
(*                                                                         *)
(* Faulty... definitions are plausible bugs that no specification uses.    *)
(***************************************************************************)
EXTENDS FdPool, Fault

VARIABLES
  ends,        (* the descriptors of the watched pipe                       *)
  ended        (* what has ended the child                                  *)

vars == <<ps, open, ret, ends, ended, faultVars>>

NoEnds == [reader |-> {}, writer |-> {}]

(* main() has set the store up before it forks its children.               *)
Init ==
  /\ ps = InitStore([magic |-> FALSE, max |-> 0, count |-> 0, fds |-> {}])
  /\ open = StdFds
  /\ ret = 0
  /\ ends = NoEnds
  /\ ended = "no"
  /\ FaultInit

-----------------------------------------------------------------------------
(* The child is between two operations.                                    *)
Idle == ended = "no" /\ step = "none" /\ ~killed

(* The ends without descriptors that now refer to something else.          *)
Without(e, fds) == [end \in {"reader", "writer"} |-> e[end] \ fds]

(* bstg_fdstore_set() may make newd refer to what fd refers to.            *)
Dupped(s, t, fd, e) ==
  LET newd == GetRaw(s).fd
  IN  IF Replaces(s, t, fd)
      THEN [end \in {"reader", "writer"} |->
              IF fd \in e[end] THEN e[end] \cup {newd} ELSE e[end] \ {newd}]
      ELSE e

(* bstg_fdstore_get2(): what it opens, or replaces by what it opens, is a  *)
(* file.                                                                   *)
AfterGet(s, t, opens, e) ==
  IF GetRaw(s).fd > 0 THEN e ELSE Without(e, {GetFd(s, t, opens).ret})

RunOpen ==
  /\ Idle
  /\ Open
  /\ ends' = Without(ends, {ret'})
  /\ UNCHANGED <<ended, faultVars>>

(* A new pipe may be watched when no other is.                             *)
RunPipe ==
  /\ Idle
  /\ Pipe
  /\ LET rd    == LowestFree(open)
         wr    == LowestFree(open \cup {rd})
         first == SetFd(ps, open \cup {rd, wr}, rd)
     IN  \E e \in {ends} \cup (IF ends = NoEnds
                               THEN {[reader |-> {rd}, writer |-> {wr}]}
                               ELSE {}) :
           ends' = Dupped(first.ps, first.open, wr,
                          Dupped(ps, open \cup {rd, wr}, rd, e))
  /\ UNCHANGED <<ended, faultVars>>

(* The operations that get one descriptor and do not write to it.          *)
RunUse ==
  /\ Idle
  /\ \E opens \in Opens :
       /\ Return(GetFd(ps, open, opens))
       /\ ends' = AfterGet(ps, open, opens, ends)
  /\ UNCHANGED <<ended, faultVars>>

(* write/write.c and write/writev.c.                                       *)
RunWrite ==
  /\ Idle
  /\ \E opens \in Opens :
       /\ Return(GetFd(ps, open, opens))
       /\ ends' = AfterGet(ps, open, opens, ends)
  /\ ended' = IF ret' \in ends'.writer /\ ends'.reader = {}
              THEN "SIGPIPE" ELSE "no"
  /\ UNCHANGED faultVars

(* mmap/*.c: a descriptor of a file, that the store has and that is open,  *)
(* may be mapped.                                                          *)
RunMapFile ==
  /\ Idle
  /\ \E opens \in Opens :
       /\ Return(GetFd(ps, open, opens))
       /\ ends' = AfterGet(ps, open, opens, ends)
  /\ Enter(ret' \in open' \ (ends'.reader \cup ends'.writer))
  /\ UNCHANGED ended

RunSendfile ==
  /\ Idle
  /\ \E o1, o2 \in Opens :
       LET from == GetFd(ps, open, o1)
       IN  /\ Return(GetFd(from.ps, from.open, o2))
           /\ ends' = AfterGet(from.ps, from.open, o2,
                               AfterGet(ps, open, o1, ends))
  /\ UNCHANGED <<ended, faultVars>>

(* Only a file can be a directory.                                         *)
RunFdopendir ==
  /\ Idle
  /\ \E opens \in Opens, isdir \in BOOLEAN :
       LET got == GetFd(ps, open, opens)
       IN  /\ ends' = AfterGet(ps, open, opens, ends)
           /\ isdir => got.ret \notin ends'.reader \cup ends'.writer
           /\ Return([got EXCEPT !.open = IF isdir THEN @ \ {got.ret} ELSE @])
  /\ UNCHANGED <<ended, faultVars>>

RunChdir ==
  /\ Idle
  /\ ChdirGivesUp
  /\ UNCHANGED <<ends, ended, faultVars>>

RunFchdir ==
  /\ Idle
  /\ 0 \in open /\ Free(open) # {}
  /\ LET cwdfd == LowestFree(open)
     IN  \E opens \in Opens :
           LET got == GetFd(ps, open \cup {cwdfd}, opens)
           IN  /\ Return([got EXCEPT !.open = @ \ {cwdfd}])
               /\ ends' = Without(AfterGet(ps, open \cup {cwdfd}, opens, ends),
                                  {cwdfd})
  /\ UNCHANGED <<ended, faultVars>>

RunCloseall ==
  /\ Idle
  /\ Closeall
  /\ ends' = Without(ends, ps.fds)
  /\ UNCHANGED <<ended, faultVars>>

(* The rest of a mapping operation, and the other children.                *)
CopyMapped ==
  /\ ended = "no"
  /\ Copy \/ Jump \/ Leave
  /\ ended' = IF killed' THEN "fault" ELSE "no"
  /\ UNCHANGED <<ps, open, ret, ends>>

OthersResize ==
  /\ ended = "no"
  /\ Resize
  /\ UNCHANGED <<ps, open, ret, ends, ended>>

Ended == ended # "no" /\ UNCHANGED vars

Next ==
  \/ RunOpen
  \/ RunPipe
  \/ RunUse
  \/ RunWrite
  \/ RunMapFile
  \/ RunSendfile
  \/ RunFdopendir
  \/ RunChdir
  \/ RunFchdir
  \/ RunCloseall
  \/ CopyMapped
  \/ OthersResize
  \/ Ended

Spec == Init /\ [][Next]_vars

-----------------------------------------------------------------------------
TypeOK ==
  /\ PoolTypeOK
  /\ FaultTypeOK
  /\ ends \in [{"reader", "writer"} -> SUBSET open]
  /\ ended \in {"no", "SIGPIPE", "fault"}

(* As long as the store has not begun to replace descriptors, a pipe that  *)
(* can be written to through the store can be read from: closeall closes   *)
(* both ends, and nothing else closes one of them.  A child can therefore  *)
(* die of SIGPIPE only between a replacement and the next closeall.        *)
PipesWhole ==
  ps.max <= ReplaceMax /\ ends.writer \cap ps.fds # {} => ends.reader # {}

=============================================================================
