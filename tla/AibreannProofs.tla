---------------------------- MODULE AibreannProofs ----------------------------
(***************************************************************************)
(* Proofs about the smoke test, for any number of paths, any descriptor    *)
(* table and any limit of the store that its first descriptor is within.   *)
(***************************************************************************)
EXTENDS Aibreann, FdPoolProofs

(* The program's state at each step of main().  Between an operation and   *)
(* the closeall after it, what is open besides the program's own           *)
(* descriptors and 0 is tracked; that is what closeall restores the table  *)
(* from.                                                                   *)
Untouched == ~ps.magic /\ open = StdFds /\ path = 0

PathInv ==
  /\ StoreInv
  /\ StdFds \subseteq open \ ps.fds
  /\ pc \in {"arguments", "init"} => Untouched /\ failed # "init"
  /\ pc = "path" => /\ ps.magic
                    /\ ps.fds = {}
                    /\ open \subseteq StdFds \cup {0}
  /\ pc = "closeall" => ps.magic /\ open \ ps.fds \subseteq StdFds \cup {0}
  /\ failed = "init" => pc = "exit" /\ areas = {} /\ Untouched

-----------------------------------------------------------------------------
(* The lowest descriptor that is free in a table of the program's own      *)
(* descriptors, and of 0 or not, is within the limit.                      *)
LEMMA FirstInLimit ==
  ASSUME NEW t, StdFds \subseteq t, t \subseteq StdFds \cup {0}
  PROVE  LowestFree(t) <= ReplaceMax /\ LowestFree(t \cup {0}) <= ReplaceMax
<1>. DEFINE first == LowestFree(StdFds \cup {0})
<1>1. Free(StdFds \cup {0}) # {}
  BY PoolAssumption DEF Free
<1>2. first \in Free(StdFds \cup {0})
  BY <1>1, LowestFreeIsFree DEF Free
<1>3. t \cup {0} = StdFds \cup {0}
  OBVIOUS
<1>4. first \in Free(t)
  BY <1>2 DEF Free
<1>5. LowestFree(t) \in Fd /\ LowestFree(t) <= first
  BY <1>4, LowestFreeIsFree
<1>6. first \in Int /\ LowestFree(t) \in Int /\ first <= ReplaceMax
  BY <1>2, <1>5, StoreAssumption, AibreannAssumption DEF Free, Fd
<1>7. LowestFree(t) <= ReplaceMax
  <2>. HIDE DEF first
  <2>. QED  BY <1>5, <1>6, StoreAssumption
<1>. QED  BY <1>3, <1>6, <1>7

(* A store that tracks at most one descriptor, and that one is within the  *)
(* limit, does not replace.                                                *)
LEMMA FewInLimit ==
  ASSUME NEW s, StoreOK(s), NEW fd, fd <= ReplaceMax, s.fds \subseteq {fd}
  PROVE  s.max <= ReplaceMax
<1>1. s.max = fd \/ s.max = -1
  BY DEF StoreOK
<1>2. -1 <= ReplaceMax
  BY StoreAssumption
<1>. QED  BY <1>1, <1>2

-----------------------------------------------------------------------------
(* The operation.  From an empty store even the two calls of pipe() and of *)
(* sendfile() leave everything tracked that they have opened.              *)
LEMMA EffectTracked ==
  ASSUME StoreOK(ps), open \in SUBSET Fd, ps.fds = {},
         StdFds \subseteq open, open \subseteq StdFds \cup {0}, Effect
  PROVE  open' \ ps'.fds \subseteq StdFds \cup {0}
<1>1. /\ LowestFree(open) <= ReplaceMax
      /\ LowestFree(open \cup {0}) <= ReplaceMax
  BY FirstInLimit
<1>2. ps.max <= ReplaceMax
  BY <1>1, FewInLimit
<1>3. CASE Open
  <2>1. CASE Return(SetFd(ps, open, -1))
    <3>1. Tidy(ps, open, {-1}, SetFd(ps, open, -1))
      BY <1>2, SetTidy
    <3>. QED  BY <2>1, <3>1 DEF Return, Tidy
  <2>2. ASSUME Free(open) # {},
               Return(SetFd(ps, open \cup {LowestFree(open)}, LowestFree(open)))
        PROVE  open' \ ps'.fds \subseteq StdFds \cup {0}
    <3>. DEFINE fd == LowestFree(open)
    <3>1. open \cup {fd} \in SUBSET Fd
      BY <2>2, LowestFreeIsFree
    <3>2. Tidy(ps, open \cup {fd}, {fd}, SetFd(ps, open \cup {fd}, fd))
      BY <1>2, <3>1, SetTidy
    <3>. QED  BY <2>2, <3>2 DEF Return, Tidy
  <2>. QED  BY <1>3, <2>1, <2>2 DEF Open
<1>4. CASE Pipe
  <2>. DEFINE rd    == LowestFree(open)
              wr    == LowestFree(open \cup {rd})
              both  == open \cup {rd, wr}
              first == SetFd(ps, both, rd)
              r     == SetFd(first.ps, first.open, wr)
  <2>1. Return(r) /\ rd <= ReplaceMax
    BY <1>1, <1>4 DEF Pipe
  <2>2. rd \in Fd /\ wr \in Fd
    BY <1>4, TwoFree DEF Pipe
  <2>. HIDE DEF rd, wr
  <2>3. both \in SUBSET Fd /\ rd \in both \cup {-1} /\ wr \in both
    BY <2>2
  <2>4. both \subseteq StdFds \cup {0} \cup {rd, wr}
    OBVIOUS
  <2>. HIDE DEF both
  <2>5. /\ Grows(ps, both, {rd}, first)
        /\ first.ps.fds \subseteq ps.fds \cup {rd}
    BY <2>3, SetOK
  <2>6. Tidy(ps, both, {rd}, first)
    BY <1>2, <2>3, SetTidy
  <2>. HIDE DEF first
  <2>7. /\ StoreOK(first.ps) /\ first.open \in SUBSET Fd
        /\ wr \in first.open \cup {-1} /\ first.ps.fds \subseteq {rd}
    BY <2>3, <2>5 DEF Grows
  <2>8. first.ps.max <= ReplaceMax
    BY <2>1, <2>7, FewInLimit
  <2>9. Tidy(first.ps, first.open, {wr}, r)
    BY <2>7, <2>8, SetTidy
  <2>. HIDE DEF r
  <2>. QED  BY <2>1, <2>4, <2>6, <2>9 DEF Return, Tidy
<1>5. CASE Use
  <2>1. PICK opens \in Opens : Return(GetFd(ps, open, opens))
    BY <1>5 DEF Use
  <2>2. Tidy(ps, open, {}, GetFd(ps, open, opens))
    BY <1>2, GetTidy
  <2>. QED  BY <2>1, <2>2 DEF Return, Tidy
<1>6. CASE Sendfile
  <2>1. PICK o1 \in Opens, o2 \in Opens :
          LET from == GetFd(ps, open, o1)
          IN  Return(GetFd(from.ps, from.open, o2))
    BY <1>6 DEF Sendfile
  <2>. DEFINE from == GetFd(ps, open, o1)
              got  == GetFd(from.ps, from.open, o2)
  <2>2. Return(got)
    BY <2>1
  <2>3. /\ Tidy(ps, open, {}, from)
        /\ from.ps.fds \subseteq ps.fds \cup {LowestFree(open \cup {0})}
    BY <1>2, GetTidy
  <2>4. Grows(ps, open, {}, from)
    BY GetOK
  <2>. HIDE DEF from
  <2>5. StoreOK(from.ps) /\ from.open \in SUBSET Fd
    BY <2>4 DEF Grows
  <2>6. from.ps.max <= ReplaceMax
    BY <1>1, <2>3, <2>5, FewInLimit
  <2>7. Tidy(from.ps, from.open, {}, got)
    BY <2>5, <2>6, GetTidy
  <2>. HIDE DEF got
  <2>. QED  BY <2>2, <2>3, <2>7 DEF Return, Tidy
<1>7. CASE Fdopendir
  <2>1. PICK opens \in Opens, isdir \in BOOLEAN :
          LET got == GetFd(ps, open, opens)
          IN  Return([got EXCEPT !.open = IF isdir THEN @ \ {got.ret} ELSE @])
    BY <1>7 DEF Fdopendir
  <2>. DEFINE got == GetFd(ps, open, opens)
  <2>2. Tidy(ps, open, {}, got)
    BY <1>2, GetTidy
  <2>3. got = [ps |-> got.ps, open |-> got.open, ret |-> got.ret]
    BY DEF GetFd, SetFd
  <2>4. Return([got EXCEPT !.open = IF isdir THEN @ \ {got.ret} ELSE @])
    BY <2>1
  <2>. HIDE DEF got
  <2>5. ps' = got.ps /\ open' \subseteq got.open
    BY <2>3, <2>4 DEF Return
  <2>. QED  BY <2>2, <2>5 DEF Tidy
<1>8. CASE ChdirGivesUp \/ UNCHANGED poolVars
  BY <1>8 DEF ChdirGivesUp, poolVars
<1>9. CASE Fchdir
  <2>. DEFINE cwdfd == LowestFree(open)
  <2>1. PICK opens \in Opens :
          LET got == GetFd(ps, open \cup {cwdfd}, opens)
          IN  Return([got EXCEPT !.open = @ \ {cwdfd}])
    BY <1>9 DEF Fchdir
  <2>. DEFINE got == GetFd(ps, open \cup {cwdfd}, opens)
  <2>2. open \cup {cwdfd} \in SUBSET Fd
    BY <1>9, LowestFreeIsFree DEF Fchdir
  <2>. HIDE DEF cwdfd
  <2>3. Tidy(ps, open \cup {cwdfd}, {}, got)
    BY <1>2, <2>2, GetTidy
  <2>4. got = [ps |-> got.ps, open |-> got.open, ret |-> got.ret]
    BY DEF GetFd, SetFd
  <2>5. Return([got EXCEPT !.open = @ \ {cwdfd}])
    BY <2>1
  <2>. HIDE DEF got
  <2>6. ps' = got.ps /\ open' = got.open \ {cwdfd}
    BY <2>4, <2>5 DEF Return
  <2>. QED  BY <2>3, <2>6 DEF Tidy
<1>. QED
  BY <1>3, <1>4, <1>5, <1>6, <1>7, <1>8, <1>9 DEF Effect

-----------------------------------------------------------------------------
LEMMA InitPath == Init => PathInv
<1>. SUFFICES ASSUME Init PROVE PathInv
  OBVIOUS
<1>1. PoolInv /\ ~ps.magic /\ ps.fds = {} /\ open = StdFds
  BY InitPoolInv DEF Init, PoolInit
<1>. QED  BY <1>1 DEF Init, PathInv, PoolInv, Untouched

LEMMA StepPath ==
  ASSUME PathInv, [Next]_vars
  PROVE  PathInv'
<1>1. StoreInv /\ StdFds \subseteq open \ ps.fds
  BY DEF PathInv
<1>2. ASSUME StepOK PROVE StoreInv' /\ StdFds \subseteq open' \ ps'.fds
  BY <1>1, <1>2 DEF StepOK, Careful
<1>3. ASSUME UNCHANGED poolVars
      PROVE  StoreInv' /\ StdFds \subseteq open' \ ps'.fds
  BY <1>1, <1>3
     DEF poolVars, StoreInv, PoolTypeOK, MaxIsLargest, DeadIsEmpty
<1>4. CASE Arguments
  BY <1>3, <1>4 DEF Arguments, PathInv, Untouched, poolVars
<1>5. CASE FuncsInit
  <2>1. ps \in StoreType /\ open \in SUBSET Fd /\ Untouched
    BY <1>1, <1>5 DEF FuncsInit, PathInv, StoreInv, PoolTypeOK
  <2>2. /\ StoreOK(InitStore(ps))
        /\ InitStore(ps).fds = {}
    BY <2>1, InitStoreOK
  <2>3. PICK mapped \in SUBSET Areas :
          \/ /\ ps' = InitStore(ps)
             /\ pc' = "path"
             /\ UNCHANGED <<open, failed>>
          \/ /\ ps' = DestroyStore(InitStore(ps), open).ps
             /\ open' = DestroyStore(InitStore(ps), open).open
             /\ areas' = {}
             /\ pc' = "exit"
    BY <1>5 DEF FuncsInit
  <2>4. UNCHANGED <<ret, path>> /\ ret \in Fd \cup {-1, 0, EINVAL}
    BY <1>1, <1>5 DEF FuncsInit, StoreInv, PoolTypeOK
  <2>5. CASE ps' = InitStore(ps) /\ pc' = "path" /\ UNCHANGED <<open, failed>>
    <3>1. StoreInv'
      BY <2>1, <2>2, <2>4, <2>5, LiveStep
    <3>. QED
      BY <1>5, <2>1, <2>2, <2>5, <3>1 DEF FuncsInit, PathInv, Untouched, StoreOK
  <2>6. CASE /\ ps' = DestroyStore(InitStore(ps), open).ps
             /\ open' = DestroyStore(InitStore(ps), open).open
             /\ areas' = {}
             /\ pc' = "exit"
    <3>1. /\ ps' \in StoreType /\ ~ps'.magic /\ ps'.fds = {}
          /\ open' = open \ InitStore(ps).fds
      BY <2>1, <2>2, <2>6, DestroyOK
    <3>2. open' = StdFds /\ path' = 0
      BY <2>1, <2>2, <2>4, <3>1 DEF Untouched
    <3>3. StoreInv'
      BY <2>1, <2>4, <3>1, <3>2
         DEF Untouched, StoreInv, PoolTypeOK, MaxIsLargest, DeadIsEmpty
    <3>. QED  BY <2>6, <3>1, <3>2, <3>3 DEF PathInv, Untouched
  <2>. QED  BY <2>3, <2>5, <2>6
<1>6. CASE Operate
  <2>1. /\ ps.magic /\ ps.fds = {} /\ open \subseteq StdFds \cup {0}
        /\ failed # "init"
    BY <1>6 DEF Operate, PathInv
  <2>2. Effect /\ pc' = "closeall" /\ UNCHANGED failed
    BY <1>6, <2>1 DEF Operate
  <2>3. StepOK /\ ps'.magic
    <3>1. CASE UNCHANGED poolVars
      <4>1. ret' \in Fd \cup {-1, 0, EINVAL}
        BY <1>1, <3>1 DEF StoreInv, PoolTypeOK, poolVars
      <4>. QED  BY <1>1, <2>1, <3>1, <4>1, IdleStep DEF poolVars
    <3>2. CASE Open \/ Pipe \/ Use \/ Sendfile \/ Fdopendir \/ ChdirGivesUp \/ Fchdir
      BY <1>1, <3>2, OpenStep, PipeStep, UseStep, SendfileStep, FdopendirStep,
         ChdirGivesUpStep, FchdirStep
    <3>. QED  BY <2>2, <3>1, <3>2 DEF Effect
  <2>4. open' \ ps'.fds \subseteq StdFds \cup {0}
    BY <1>1, <2>1, <2>2, LiveStore, EffectTracked
  <2>. QED
    BY <1>2, <2>1, <2>2, <2>3, <2>4 DEF PathInv
<1>7. CASE Skip
  BY <1>3, <1>7 DEF Skip, PathInv, poolVars
<1>8. CASE CloseTracked
  <2>1. ps.magic /\ open \ ps.fds \subseteq StdFds \cup {0} /\ failed # "init"
    BY <1>8 DEF CloseTracked, PathInv
  <2>2. StoreOK(ps) /\ open \in SUBSET Fd
    BY <1>1, <2>1, LiveStore
  <2>3. /\ ps'.magic /\ ps'.fds = {} /\ open' = open \ ps.fds /\ ret' = 0
    BY <1>8, <2>1, <2>2, CloseAllOK DEF CloseTracked, Closeall, Return, StoreOK
  <2>4. StepOK
    BY <1>1, <1>8, CloseallStep DEF CloseTracked
  <2>. QED
    BY <1>2, <1>8, <2>1, <2>3, <2>4 DEF CloseTracked, PathInv
<1>9. CASE FuncsDestroy
  <2>1. StepOK
    BY <1>1, <1>9, DestroyStep DEF FuncsDestroy
  <2>. QED  BY <1>2, <1>9, <2>1 DEF FuncsDestroy, PathInv
<1>10. CASE UNCHANGED vars
  BY <1>3, <1>10 DEF vars, poolVars, PathInv, Untouched
<1>. QED
  BY <1>4, <1>5, <1>6, <1>7, <1>8, <1>9, <1>10 DEF Next, Ended

THEOREM PathInvariance == Spec => []PathInv
<1>1. PathInv /\ [Next]_vars => PathInv'
  BY StepPath
<1>. QED  BY InitPath, <1>1, PTL DEF Spec

(* Every path is tried with the descriptors of the program's start,        *)
(* whichever operation -f names and whatever it did on the paths before.   *)
THEOREM PathsAlike == Spec => []EveryPathAlike
<1>1. PathInv => EveryPathAlike
  BY DEF PathInv, EveryPathAlike
<1>. QED  BY PathInvariance, <1>1, PTL

(* When bstg_funcs_init() fails nothing stays mapped or open and no path   *)
(* is tried.                                                               *)
THEOREM SetupUndone == Spec => []HalfSetupUndone
<1>1. PathInv => HalfSetupUndone
  BY DEF PathInv, Untouched, HalfSetupUndone
<1>. QED  BY PathInvariance, <1>1, PTL

-----------------------------------------------------------------------------
(* main() gives up only over its arguments or its set-up: no operation     *)
(* finds a dead store, and neither closeall nor destroy fails.             *)
NeverGivesUp == failed \in {"no", "usage", "init"}

StepTypes ==
  /\ areas \subseteq Areas
  /\ op \in Ops
  /\ pc \in {"arguments", "init", "path", "closeall", "exit"}
  /\ path \in 0 .. NPATHS
  /\ pc = "closeall" => path < NPATHS
  /\ NeverGivesUp

(* Every variable keeps its type, at most NPATHS paths are operated on,    *)
(* and main() gives up only before the first of them.                      *)
THEOREM AibreannTypes == Spec => [](TypeOK /\ NeverGivesUp)
<1>1. Init => StepTypes
  BY AibreannAssumption DEF Init, StepTypes, NeverGivesUp
<1>2. ASSUME PathInv, StepTypes, [Next]_vars PROVE StepTypes'
  <2>. USE <1>2 DEF StepTypes, NeverGivesUp
  <2>1. CASE Arguments
    BY <2>1 DEF Arguments
  <2>2. CASE FuncsInit
    BY <2>2 DEF FuncsInit
  <2>3. CASE Operate
    <3>1. ps.magic
      BY <2>3 DEF Operate, PathInv
    <3>. QED  BY <2>3, <3>1 DEF Operate
  <2>4. CASE Skip
    BY <2>4 DEF Skip
  <2>5. CASE CloseTracked
    <3>1. ps.magic /\ StoreOK(ps) /\ open \in SUBSET Fd
      BY <2>5, LiveStore DEF CloseTracked, PathInv
    <3>2. ret' = 0
      BY <2>5, <3>1, CloseAllOK DEF CloseTracked, Closeall, Return, StoreOK
    <3>3. path + 1 \in 0 .. NPATHS
      BY <2>5, AibreannAssumption DEF CloseTracked
    <3>. QED  BY <2>5, <3>2, <3>3 DEF CloseTracked
  <2>6. CASE FuncsDestroy
    <3>1. ps.magic /\ StoreOK(ps) /\ open \in SUBSET Fd
      BY <2>6, LiveStore DEF FuncsDestroy, PathInv
    <3>2. ret' = 0
      BY <2>6, <3>1, DestroyOK DEF FuncsDestroy, FdstoreDestroy, Return, StoreOK
    <3>. QED  BY <2>6, <3>2 DEF FuncsDestroy
  <2>7. CASE UNCHANGED vars
    BY <2>7 DEF vars
  <2>. QED
    BY <2>1, <2>2, <2>3, <2>4, <2>5, <2>6, <2>7 DEF Next, Ended
<1>3. PathInv /\ StepTypes => TypeOK /\ NeverGivesUp
  BY DEF PathInv, StoreInv, StepTypes, TypeOK, NeverGivesUp
<1>. QED  BY <1>1, <1>2, <1>3, PathInvariance, PTL DEF Spec

-----------------------------------------------------------------------------
(* The program as a whole treats its store as FdPool's operations do, the  *)
(* set-up that fails and is undone included: it leaves no trace.           *)
THEOREM AibreannImplementsPool == Spec => KeepsPromise
<1>. DEFINE Step == [Promise!Next]_<<ps.magic, ps.fds, open>>
<1>1. Init => Promise!Init
  BY DEF Init, PoolInit, Promise!Init
<1>2. PathInv /\ PathInv' /\ [Next]_vars => Step
  <2>. SUFFICES ASSUME PathInv, PathInv', [Next]_vars PROVE Step
    OBVIOUS
  <2>1. StoreInv /\ StoreInv'
    BY DEF PathInv
  <2>2. ASSUME StepOK PROVE Step
    BY <2>1, <2>2, CarefulKeeps DEF StepOK
  <2>3. ASSUME UNCHANGED poolVars PROVE Step
    BY <2>3 DEF poolVars
  <2>4. CASE FuncsInit
    <3>1. ps \in StoreType /\ Untouched /\ ps.fds = {}
      BY <2>1, <2>4 DEF FuncsInit, PathInv, StoreInv, PoolTypeOK, DeadIsEmpty, Untouched
    <3>2. CASE pc' = "path"
      <4>1. ps' = InitStore(ps) /\ open' = open
        BY <2>4, <3>2 DEF FuncsInit
      <4>2. ps'.magic /\ ps'.fds = {}
        BY <3>1, <4>1, InitStoreOK DEF StoreOK
      <4>3. Promise!SetUp
        BY <3>1, <4>1, <4>2, <2>1
           DEF Promise!SetUp, Untouched, StoreInv, PoolTypeOK, StoreType
      <4>. QED  BY <4>3 DEF Promise!Next
    <3>3. CASE pc' # "path"
      <4>1. failed' = "init"
        BY <2>4, <3>3 DEF FuncsInit
      <4>2. ~ps'.magic /\ open' = StdFds /\ ps'.fds = {}
        BY <2>1, <4>1 DEF PathInv, Untouched, StoreInv, DeadIsEmpty
      <4>. QED
        BY <2>1, <3>1, <4>2 DEF Untouched, StoreInv, PoolTypeOK, StoreType
    <3>. QED  BY <3>2, <3>3
  <2>5. CASE Operate
    <3>1. Effect
      BY <2>5 DEF Operate, PathInv
    <3>2. CASE Open \/ Pipe \/ Use \/ Sendfile \/ Fdopendir \/ ChdirGivesUp \/ Fchdir
      BY <2>1, <2>2, <3>2, OpenStep, PipeStep, UseStep, SendfileStep,
         FdopendirStep, ChdirGivesUpStep, FchdirStep
    <3>. QED  BY <2>3, <3>1, <3>2 DEF Effect
  <2>6. CASE CloseTracked
    BY <2>1, <2>2, <2>6, CloseallStep DEF CloseTracked
  <2>7. CASE FuncsDestroy
    BY <2>1, <2>2, <2>7, DestroyStep DEF FuncsDestroy
  <2>8. CASE Arguments \/ Skip \/ UNCHANGED vars
    BY <2>3, <2>8 DEF Arguments, Skip, vars, poolVars
  <2>. QED
    BY <2>4, <2>5, <2>6, <2>7, <2>8 DEF Next, Ended
<1>. QED
  BY <1>1, <1>2, PathInvariance, PTL
     DEF Spec, KeepsPromise, Promise!Spec, Promise!vars

=============================================================================
