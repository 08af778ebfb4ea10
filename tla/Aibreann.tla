------------------------------ MODULE Aibreann ------------------------------
(***************************************************************************)
(* The smoke test src/src/aibreann/aibreann.c with the life cycle of the   *)
(* bstg_funcs_t of src/src/lib/funcs.c: one operation of the pool is run   *)
(* on every path of the path store, and the descriptors that are tracked   *)
(* are closed after each path.                                             *)
(*                                                                         *)
(* What an operation does to the descriptors is the action of FdPool.      *)
(* Faulty... definitions are plausible bugs that no specification uses.    *)
(***************************************************************************)
EXTENDS FdPool

CONSTANT
  NPATHS       (* the number of paths in the path store                     *)

(* The program starts with so few descriptors that the first one it opens  *)
(* is within the limit of the store.                                       *)
ASSUME AibreannAssumption ==
  /\ NPATHS \in Nat
  /\ LowestFree(StdFds \cup {0}) <= ReplaceMax

VARIABLES
  areas,       (* bfs.pattern and bfs.buffer, those that are mapped         *)
  op,          (* the operation that -f names                               *)
  pc,          (* the next step of main()                                   *)
  path,        (* bstg_pathstore_count                                      *)
  failed       (* the step that made main() give up                         *)

vars  == <<ps, open, ret, areas, op, pc, path, failed>>

Areas == {"pattern", "buffer"}

(* The operations, by what they do to the store; "plain" ones leave it     *)
(* alone and "bad" stands for a number that no operation has.              *)
Ops == {"open", "pipe", "use", "sendfile", "fdopendir", "chdir", "fchdir",
        "closeall", "plain", "bad"}

Init ==
  /\ PoolInit
  /\ areas = {}
  /\ op \in Ops
  /\ pc = "arguments"
  /\ path = 0
  /\ failed = "no"

-----------------------------------------------------------------------------
Arguments ==
  /\ pc = "arguments"
  /\ pc' = IF op = "bad" THEN "exit" ELSE "init"
  /\ failed' = IF op = "bad" THEN "usage" ELSE "no"
  /\ UNCHANGED <<poolVars, areas, op, path>>

FaultyFuncsInitKeeps ==
  /\ pc = "init"
  /\ ps' = InitStore(ps)
  /\ \E mapped \in SUBSET Areas :
       /\ areas' = mapped
       /\ pc' = IF mapped = Areas THEN "path" ELSE "exit"
       /\ failed' = IF mapped = Areas THEN "no" ELSE "init"
  /\ UNCHANGED <<open, ret, op, path>>

(* bstg_funcs_init(): either mmap() may fail; both are tried all the same, *)
(* and then what was set up is destroyed before the error is returned.     *)
FuncsInit ==
  /\ pc = "init"
  /\ \E mapped \in SUBSET Areas :
       \/ /\ mapped = Areas
          /\ ps' = InitStore(ps)
          /\ areas' = mapped
          /\ pc' = "path"
          /\ UNCHANGED <<open, failed>>
       \/ /\ mapped # Areas
          /\ LET d == DestroyStore(InitStore(ps), open)
             IN  ps' = d.ps /\ open' = d.open
          /\ areas' = {}
          /\ pc' = "exit"
          /\ failed' = "init"
  /\ UNCHANGED <<ret, op, path>>

(* The operation.  Those that reach the store abort on a dead one; any     *)
(* system call may fail, pipe() and open(".") included.                    *)
Effect ==
  \/ op = "open" /\ Open
  \/ op = "pipe" /\ Pipe
  \/ op = "use" /\ Use
  \/ op = "sendfile" /\ Sendfile
  \/ op = "fdopendir" /\ Fdopendir
  \/ op \in {"chdir", "fchdir"} /\ ChdirGivesUp
  \/ op = "fchdir" /\ Fchdir
  \/ op \in {"pipe", "chdir", "fchdir", "plain"} /\ UNCHANGED poolVars

Operate ==
  /\ pc = "path"
  /\ path < NPATHS
  /\ op # "closeall"
  /\ IF ps.magic \/ op \in {"chdir", "plain"}
     THEN Effect /\ pc' = "closeall" /\ UNCHANGED failed
     ELSE UNCHANGED poolVars /\ pc' = "exit" /\ failed' = "abort"
  /\ UNCHANGED <<areas, op, path>>

(* close/closeall.c is not called: the loop does its work anyway.          *)
Skip ==
  /\ pc = "path"
  /\ path < NPATHS
  /\ op = "closeall"
  /\ pc' = "closeall"
  /\ UNCHANGED <<poolVars, areas, op, path, failed>>

CloseTracked ==
  /\ pc = "closeall"
  /\ Closeall
  /\ pc' = IF ret' = 0 THEN "path" ELSE "exit"
  /\ path' = IF ret' = 0 THEN path + 1 ELSE path
  /\ failed' = IF ret' = 0 THEN "no" ELSE "closeall"
  /\ UNCHANGED <<areas, op>>

(* bstg_funcs_destroy().                                                   *)
FuncsDestroy ==
  /\ pc = "path"
  /\ path = NPATHS
  /\ areas' = {}
  /\ FdstoreDestroy
  /\ failed' = IF ret' = 0 THEN "no" ELSE "destroy"
  /\ pc' = "exit"
  /\ UNCHANGED <<op, path>>

Ended == pc = "exit" /\ UNCHANGED vars

Next ==
  \/ Arguments
  \/ FuncsInit
  \/ Operate
  \/ Skip
  \/ CloseTracked
  \/ FuncsDestroy
  \/ Ended

Spec == Init /\ [][Next]_vars

-----------------------------------------------------------------------------
TypeOK ==
  /\ PoolTypeOK
  /\ areas \subseteq Areas
  /\ op \in Ops
  /\ pc \in {"arguments", "init", "path", "closeall", "exit"}
  /\ path \in 0 .. NPATHS
  /\ failed \in {"no", "usage", "init", "abort", "closeall", "destroy"}

(* Every path is tried from the same descriptor table, the one the program *)
(* started with, whatever the operation did on the paths before it.  Only  *)
(* descriptor 0 may have been taken by open("."), which cannot give it     *)
(* back.                                                                   *)
EveryPathAlike ==
  pc = "path" => ps.fds = {} /\ open \ {0} = StdFds \ {0}

(* A set-up that fails half way is undone: nothing stays mapped, the store *)
(* is dead and no operation is run.                                        *)
HalfSetupUndone ==
  failed = "init" => areas = {} /\ ~ps.magic /\ open = StdFds /\ path = 0

=============================================================================
