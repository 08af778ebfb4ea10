-------------------------------- MODULE Spawn --------------------------------
(***************************************************************************)
(* The operations that start other processes: special/exec, ldpreload and  *)
(* ldlibrarypath ("exec"), dlopen ("dlopen"), gcore ("gcore") and          *)
(* posix_spawn ("spawn"), with bstg_waitpid(), one after the other.        *)
(*                                                                         *)
(* The processes are the child that executes or loads the file ("worker"), *)
(* the sleeping process that gcore dumps ("target") and the program that   *)
(* posix_spawn's child starts ("program").  The files they execute are     *)
(* anything the test has produced: they may run for ever or die any time.  *)
(* Faulty... definitions are plausible bugs that no specification uses.    *)
(***************************************************************************)
EXTENDS Integers

CONSTANT Ticks        (* the timeout of bstg_waitpid(); 30 or 60 in the code *)

ASSUME SpawnAssumption == Ticks \in Nat

VARIABLES
  kind,        (* the operation                                             *)
  pc,          (* the next step of the process that runs the operation      *)
  count,       (* bstg_waitpid()'s count; all above Ticks are the same      *)
  mid,         (* the next step of posix_spawn's child                      *)
  st,          (* the state of each process                                 *)
  sig          (* the processes that have been sent SIGKILL                 *)

spawnVars == <<kind, pc, count, mid, st, sig>>

Kinds     == {"exec", "dlopen", "gcore", "spawn"}
Processes == {"worker", "target", "program"}

First(k) == IF k = "gcore" THEN "target" ELSE "fork"

SpawnInit ==
  /\ kind \in Kinds
  /\ pc = First(kind)
  /\ count = 0
  /\ mid = "spawn"
  /\ st = [p \in Processes |-> "none"]
  /\ sig = {}

Set(p, s) == st' = [st EXCEPT ![p] = s]

(* Where the operation goes on when it has no worker any more.             *)
FaultyAfterWorker == "done"

AfterWorker == IF kind = "gcore" THEN "kill" ELSE "done"

-----------------------------------------------------------------------------
(* gcore.c forks its target first; fork() may fail.                        *)
ForkTarget ==
  /\ pc = "target"
  /\ \/ Set("target", "live") /\ pc' = "fork"
     \/ UNCHANGED st /\ pc' = "done"
  /\ UNCHANGED <<kind, count, mid, sig>>

FaultyForkKills ==
  /\ pc = "fork"
  /\ \/ /\ Set("worker", "live")
        /\ pc' = IF kind = "spawn" THEN "block"
                 ELSE IF kind = "gcore" THEN "kill" ELSE "timeout"
     \/ /\ UNCHANGED st
        /\ pc' = AfterWorker
  /\ UNCHANGED <<kind, count, mid, sig>>

FaultyForkUnchecked ==
  /\ pc = "fork"
  /\ Set("worker", "live") \/ UNCHANGED st
  /\ pc' = IF kind = "spawn" THEN "block" ELSE "timeout"
  /\ UNCHANGED <<kind, count, mid, sig>>

(* fork() of the worker; when it fails there is nothing to wait for.       *)
ForkWorker ==
  /\ pc = "fork"
  /\ \/ /\ Set("worker", "live")
        /\ pc' = IF kind = "spawn" THEN "block" ELSE "timeout"
     \/ /\ UNCHANGED st
        /\ pc' = AfterWorker
  /\ UNCHANGED <<kind, count, mid, sig>>

(* bstg_waitpid(), up to waitpid(): kill() when the time is up.            *)
FaultyTimeout ==
  /\ pc = "timeout"
  /\ pc' = "poll"
  /\ UNCHANGED <<kind, count, mid, st, sig>>

Timeout ==
  /\ pc = "timeout"
  /\ sig' = IF count > Ticks THEN sig \cup {"worker"} ELSE sig
  /\ pc' = "poll"
  /\ UNCHANGED <<kind, count, mid, st>>

(* waitpid(WNOHANG), and usleep() when there is nothing to reap yet.       *)
Poll ==
  /\ pc = "poll"
  /\ IF st["worker"] = "zombie"
     THEN /\ Set("worker", "reaped")
          /\ pc' = AfterWorker
          /\ UNCHANGED count
     ELSE /\ pc' = "timeout"
          /\ count' = IF count > Ticks THEN count ELSE count + 1
          /\ UNCHANGED st
  /\ UNCHANGED <<kind, mid, sig>>

(* posix_spawn.c's waitpid() has no timeout.                               *)
Block ==
  /\ pc = "block"
  /\ st["worker"] = "zombie"
  /\ Set("worker", "reaped")
  /\ pc' = "done"
  /\ UNCHANGED <<kind, count, mid, sig>>

(* gcore.c kills its target and waits for it.                              *)
KillTarget ==
  /\ pc = "kill"
  /\ sig' = sig \cup {"target"}
  /\ pc' = "reap"
  /\ UNCHANGED <<kind, count, mid, st>>

ReapTarget ==
  /\ pc = "reap"
  /\ st["target"] = "zombie"
  /\ Set("target", "reaped")
  /\ pc' = "done"
  /\ UNCHANGED <<kind, count, mid, sig>>

(* The driver's next operation of these kinds, with new processes.         *)
NextOperation ==
  /\ pc = "done"
  /\ kind' \in Kinds
  /\ pc' = First(kind')
  /\ count' = 0
  /\ mid' = "spawn"
  /\ st' = [p \in Processes |-> "none"]
  /\ sig' = {}

-----------------------------------------------------------------------------
(* The child of posix_spawn.c: posix_spawn(), which may fail, then wait()  *)
(* until there is no child left, then _exit().                             *)
SpawnProgram ==
  /\ kind = "spawn" /\ st["worker"] = "live" /\ mid = "spawn"
  /\ mid' = "wait"
  /\ Set("program", "live") \/ UNCHANGED st
  /\ UNCHANGED <<kind, pc, count, sig>>

FaultyWorkerSpins ==
  /\ kind = "spawn" /\ st["worker"] = "live" /\ mid = "wait"
  /\ st["program"] = "zombie" /\ Set("program", "reaped")
  /\ UNCHANGED <<kind, pc, count, mid, sig>>

WorkerWaits ==
  /\ kind = "spawn" /\ st["worker"] = "live" /\ mid = "wait"
  /\ \/ st["program"] = "zombie" /\ Set("program", "reaped")
     \/ st["program"] \in {"none", "reaped"} /\ Set("worker", "zombie")
  /\ UNCHANGED <<kind, pc, count, mid, sig>>

(* Any other process ends when it likes, and by SIGKILL.                   *)
Exit(p) ==
  /\ st[p] = "live"
  /\ ~(kind = "spawn" /\ p = "worker")
  /\ Set(p, "zombie")
  /\ UNCHANGED <<kind, pc, count, mid, sig>>

Killed(p) ==
  /\ st[p] = "live"
  /\ p \in sig
  /\ Set(p, "zombie")
  /\ UNCHANGED <<kind, pc, count, mid, sig>>

Operation ==
  \/ ForkTarget
  \/ ForkWorker
  \/ Timeout
  \/ Poll
  \/ Block
  \/ KillTarget
  \/ ReapTarget

SpawnNext ==
  \/ Operation
  \/ NextOperation
  \/ SpawnProgram
  \/ WorkerWaits
  \/ \E p \in Processes : Exit(p) \/ Killed(p)

SpawnSpec == SpawnInit /\ [][SpawnNext]_spawnVars

(* The operation and posix_spawn's child get their turns, and a process    *)
(* that was sent SIGKILL dies.  Nothing makes an executed file end.        *)
FairSpawnSpec ==
  /\ SpawnSpec
  /\ WF_spawnVars(Operation)
  /\ WF_spawnVars(SpawnProgram \/ WorkerWaits)
  /\ \A p \in Processes : WF_spawnVars(Killed(p))

-----------------------------------------------------------------------------
Ended(p) == st[p] \in {"none", "reaped"}

SpawnTypeOK ==
  /\ kind \in Kinds
  /\ pc \in {"target", "fork", "timeout", "poll", "block", "kill",
             "reap", "done"}
  /\ count \in 0 .. (Ticks + 1)
  /\ mid \in {"spawn", "wait"}
  /\ st \in [Processes -> {"none", "live", "zombie", "reaped"}]
  /\ sig \subseteq Processes

(* An operation leaves no process behind: neither running nor a zombie,    *)
(* however its forks fail and its processes die.                           *)
NothingLeftBehind == pc = "done" => \A p \in Processes : Ended(p)

(* The calls of kill(): bstg_waitpid() repeats its own at every turn after *)
(* the timeout.                                                            *)
Kills(p) ==
  \/ p = "worker" /\ Timeout /\ count > Ticks
  \/ p = "target" /\ KillTarget

(* A signal, the first or a repeated one, is only sent to a process that   *)
(* has been forked and not reaped, whose pid therefore cannot be -1 or     *)
(* belong to anybody else by now.                                          *)
NoStrayKill ==
  [][\A p \in Processes : Kills(p) => st[p] \in {"live", "zombie"}]_spawnVars

(* gcore's target is not killed under the hands of gcore.                  *)
TargetOutlivesGcore == "target" \in sig => st["worker"] # "live"

(* Whatever the executed file does, an operation that uses bstg_waitpid()  *)
(* comes to its end.                                                       *)
TimedOperationsReturn ==
  \A k \in Kinds \ {"spawn"} : kind = k ~> (kind = k /\ pc = "done")

(* posix_spawn has no timeout, but it does end when its program does.      *)
SpawnReturns ==
  (kind = "spawn" /\ st["program"] \in {"zombie", "reaped"})
    ~> (kind = "spawn" /\ pc = "done")

=============================================================================
