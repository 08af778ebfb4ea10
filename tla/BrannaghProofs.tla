---------------------------- MODULE BrannaghProofs ----------------------------
(***************************************************************************)
(* Proofs about a child of the stress test: what its mapped files and its  *)
(* pipes can do to it, for every length of the buffer, every size of the   *)
(* file, any descriptor table and any limit of the store.                  *)
(***************************************************************************)
EXTENDS Brannagh, FdPoolProofs

-----------------------------------------------------------------------------
(* The mapping operations, Fault.                                          *)

(* Between two operations the signals are as they were at the start; while *)
(* one runs the handler is in place, bstg_jmpbuf holds a mask that lets    *)
(* the next fault through, and what is mapped has the length that will be  *)
(* unmapped, whatever the file's size is by then.                          *)
SignalInv ==
  /\ ~blocked /\ ~saved /\ ~killed
  /\ step = "copy" => handler = "jump"

AreaInv ==
  /\ rest = 0
  /\ step # "none" => area \in {Failed, MapLength(way, stsize)}

FaultInv == FaultTypeOK /\ SignalInv /\ AreaInv

LEMMA InitFault == FaultInit => FaultInv
<1> SUFFICES ASSUME FaultInit PROVE FaultInv
  OBVIOUS
<1>1. 0 \in 0 .. MaxSize + 1 /\ 0 \in -1 .. MaxSize + BufLen
  BY FaultAssumption
<1>2. size \in 0 .. MaxSize /\ stsize = 0 /\ area = 0 /\ rest = 0
  BY DEF FaultInit
<1>3. /\ step = "none" /\ way = "in" /\ handler = "default"
      /\ ~blocked /\ ~saved /\ ~killed
  BY Zenon DEF FaultInit
<1>4. /\ blocked \in BOOLEAN /\ saved \in BOOLEAN /\ killed \in BOOLEAN
  BY Zenon DEF FaultInit
<1>5. FaultTypeOK
  BY <1>1, <1>2, <1>3, <1>4 DEF FaultTypeOK
<1> QED
  BY <1>2, <1>3, <1>5, Zenon DEF FaultInv, SignalInv, AreaInv

LEMMA FaultEnter ==
  ASSUME FaultInv, NEW good \in BOOLEAN, Enter(good)
  PROVE  FaultInv'
<1> USE FaultAssumption DEF FaultInv, FaultTypeOK
<1>1. stsize' \in 0 .. MaxSize + 1
  BY DEF Enter
<1>2. area' \in -1 .. MaxSize + BufLen
  BY DEF Enter, MapLength, Failed
<1>3. FaultTypeOK'
  BY <1>1, <1>2 DEF Enter
<1>4. SignalInv'
  BY DEF Enter, SignalInv
<1>5. AreaInv'
  BY DEF Enter, AreaInv
<1> QED
  BY <1>3, <1>4, <1>5

LEMMA FaultOthers ==
  ASSUME FaultInv, Resize \/ Jump \/ Copy \/ Leave
  PROVE  FaultInv'
<1> USE FaultAssumption DEF FaultInv, FaultTypeOK, SignalInv, AreaInv
<1>1. CASE Resize
  BY <1>1 DEF Resize, MapLength
<1>2. CASE Jump
  BY <1>2 DEF Jump, MapLength
<1>3. CASE Copy
  BY <1>3 DEF Copy, MapLength
<1>4. CASE Leave
  <2>1. rest' = 0
    BY <1>4 DEF Leave, UnmapLength, MapLength
  <2> QED
    BY <1>4, <2>1 DEF Leave
<1> QED
  BY <1>1, <1>2, <1>3, <1>4

THEOREM FaultInvariance == FaultSpec => []FaultInv
<1>1. FaultInv /\ UNCHANGED faultVars => FaultInv'
  BY DEF faultVars, FaultInv, FaultTypeOK, SignalInv, AreaInv, MapLength
<1>2. FaultInv /\ [FaultNext]_faultVars => FaultInv'
  BY <1>1, FaultEnter, FaultOthers DEF FaultNext
<1> QED
  BY <1>2, InitFault, PTL DEF FaultSpec

-----------------------------------------------------------------------------
(* bstg_signalj() gets every fault of the mapping operations, the first    *)
(* and any later one, so that no child is killed by another that truncates *)
(* the file it has mapped.                                                 *)
THEOREM NoFaultKills == FaultSpec => []FaultsSurvived
<1>1. FaultInv => FaultsSurvived
  BY DEF FaultInv, SignalInv, FaultsSurvived
<1> QED
  BY <1>1, FaultInvariance, PTL

(* memcpy() in funcs/src/mmap touches nothing outside the buffer and the   *)
(* area, for every size of the file.                                       *)
THEOREM CopiesInside == FaultSpec => []CopyInBounds
<1>1. FaultInv => CopyInBounds
  BY FaultAssumption
     DEF FaultInv, FaultTypeOK, AreaInv, CopyInBounds, CopyLength, Least, MapLength
<1> QED
  BY <1>1, FaultInvariance, PTL

(* Every munmap() undoes its mmap(), also when the file has shrunk or      *)
(* grown since fstat() and when the copy has been left by siglongjmp().    *)
THEOREM UnmapsAll == FaultSpec => []MapsBalanced
<1>1. FaultInv => MapsBalanced
  BY DEF FaultInv, AreaInv, MapsBalanced
<1> QED
  BY <1>1, FaultInvariance, PTL

-----------------------------------------------------------------------------
(* The child.  Its operations do to the mapped files what those of Fault   *)
(* do, or nothing.                                                         *)
THEOREM ChildMapsFiles == Spec => FaultSpec
<1>1. Init => FaultInit
  BY DEF Init
<1>2. [Next]_vars => [FaultNext]_faultVars
  <2>1. RunMapFile => \E good \in BOOLEAN : Enter(good)
    <3>. DEFINE good == ret' \in open' \ (ends'.reader \cup ends'.writer)
    <3>1. RunMapFile => Enter(good)
      BY DEF RunMapFile
    <3>2. good \in BOOLEAN
      OBVIOUS
    <3>. HIDE DEF good
    <3>. QED  BY <3>1, <3>2
  <2>2. CopyMapped => Copy \/ Jump \/ Leave
    BY DEF CopyMapped
  <2>3. OthersResize => Resize
    BY DEF OthersResize
  <2>4. RunOpen \/ RunPipe \/ RunUse \/ RunWrite \/ RunSendfile \/ RunFdopendir
        \/ RunChdir \/ RunFchdir \/ RunCloseall \/ Ended \/ UNCHANGED vars
        => UNCHANGED faultVars
    BY DEF RunOpen, RunPipe, RunUse, RunWrite, RunSendfile, RunFdopendir,
           RunChdir, RunFchdir, RunCloseall, Ended, vars
  <2>. QED  BY <2>1, <2>2, <2>3, <2>4, Zenon DEF Next, FaultNext
<1>. QED  BY <1>1, <1>2, PTL DEF Spec, FaultSpec

(* The three theorems above are about every child, whatever it does to its *)
(* descriptors in between.                                                 *)
THEOREM ChildSurvivesFaults == Spec => []FaultsSurvived
  BY ChildMapsFiles, NoFaultKills, PTL

THEOREM ChildCopiesInside == Spec => []CopyInBounds
  BY ChildMapsFiles, CopiesInside, PTL

THEOREM ChildUnmapsAll == Spec => []MapsBalanced
  BY ChildMapsFiles, UnmapsAll, PTL

-----------------------------------------------------------------------------
(* The pipes.  Watched ends are open; and the property itself is           *)
(* inductive, because a set that is within the limit after a call was so   *)
(* before, so that the call has replaced nothing.                          *)
Sides == {"reader", "writer"}

EndsOK(s, t, e) ==
  /\ e \in [Sides -> SUBSET t]
  /\ s.max <= ReplaceMax /\ e.writer \cap s.fds # {} => e.reader # {}

LEMMA NoReplacing ==
  ASSUME NEW s, StoreOK(s), s.max <= ReplaceMax, NEW t, NEW fd
  PROVE  ~Replaces(s, t, fd) /\ SetFd(s, t, fd).ret = fd
<1>1. s.max \in Int
  BY StoreAssumption DEF StoreOK, StoreType, Fd
<1>2. ~Replaces(s, t, fd)
  BY <1>1, StoreAssumption DEF Replaces
<1>. QED  BY <1>2 DEF SetFd

(* Bounds of one call and of the one before.                               *)
LEMMA WithinBefore ==
  ASSUME NEW s, StoreOK(s), NEW t, NEW fresh, NEW r, Grows(s, t, fresh, r),
         r.ps.max <= ReplaceMax
  PROVE  s.max <= ReplaceMax
<1>1. s.max \in Int /\ r.ps.max \in Int /\ s.max <= r.ps.max
  BY StoreAssumption DEF Grows, StoreOK, StoreType, Fd
<1>. QED  BY <1>1, StoreAssumption

(* A call that opens only what is fresh, and lets go of no watched end     *)
(* unless it replaces.                                                     *)
LEMMA EndsGrow ==
  ASSUME NEW s, StoreOK(s), NEW t, NEW fresh, fresh \cap t = {},
         NEW u, t \subseteq u, NEW r, Grows(s, u, fresh, r),
         NEW e, EndsOK(s, t, e), NEW e2 \in [Sides -> SUBSET r.open],
         s.max <= ReplaceMax => e2 = e
  PROVE  EndsOK(r.ps, r.open, e2)
<1>1. ASSUME r.ps.max <= ReplaceMax, e2.writer \cap r.ps.fds # {}
      PROVE  e2.reader # {}
  <2>1. s.max <= ReplaceMax /\ e2 = e
    BY <1>1, WithinBefore
  <2>2. e.writer \subseteq t
    BY DEF EndsOK, Sides
  <2>3. e.writer \cap r.ps.fds \subseteq e.writer \cap s.fds
    BY <2>2 DEF Grows
  <2>. QED  BY <1>1, <2>1, <2>3 DEF EndsOK
<1>. QED  BY <1>1 DEF EndsOK

LEMMA WithoutOK ==
  ASSUME NEW t, NEW e \in [Sides -> SUBSET t], NEW fds
  PROVE  /\ Without(e, fds) \in [Sides -> SUBSET (t \ fds)]
         /\ fds \cap t = {} => Without(e, fds) = e
         /\ \A side \in Sides : Without(e, fds)[side] = e[side] \ fds
  BY DEF Without, Sides

(* bstg_fdstore_get2().                                                    *)
LEMMA GetEnds ==
  ASSUME NEW s, StoreOK(s), NEW t \in SUBSET Fd, NEW opens \in Opens,
         NEW e, EndsOK(s, t, e)
  PROVE  LET r  == GetFd(s, t, opens)
             e2 == AfterGet(s, t, opens, e)
         IN  /\ EndsOK(r.ps, r.open, e2)
             /\ \A side \in Sides : e2[side] \subseteq e[side]
<1>. DEFINE r  == GetFd(s, t, opens)
            e2 == AfterGet(s, t, opens, e)
<1>1. Grows(s, t, {}, r)
  BY GetOK
<1>2. e \in [Sides -> SUBSET t] /\ t \subseteq r.open
  BY <1>1 DEF EndsOK, Grows
<1>3. s.max <= ReplaceMax /\ ~(GetRaw(s).fd > 0) => r.ret \notin t
  <2>. SUFFICES ASSUME s.max <= ReplaceMax, ~(GetRaw(s).fd > 0)
                PROVE  r.ret \notin t
    OBVIOUS
  <2>. DEFINE raw   == GetRaw(s)
              zero  == opens > 0 /\ 0 \notin t
              tried == IF zero THEN t \cup {0} ELSE t
              fd    == LowestFree(tried)
  <2>1. StoreOK(raw.ps) /\ raw.ps.max <= ReplaceMax
    BY GetRawOK
  <2>2. CASE Free(tried) # {} /\ opens > (IF zero THEN 1 ELSE 0)
    <3>1. r = SetFd(raw.ps, tried \cup {fd}, fd)
      BY <2>2 DEF GetFd
    <3>2. fd \notin tried
      BY <2>2, LowestFreeIsFree
    <3>3. r.ret = fd
      BY <2>1, <3>1, NoReplacing
    <3>. QED  BY <3>2, <3>3
  <2>3. CASE ~(Free(tried) # {} /\ opens > (IF zero THEN 1 ELSE 0))
    <3>1. r.ret = -1
      BY <2>3 DEF GetFd
    <3>. QED  BY <3>1, StoreAssumption DEF Fd
  <2>. QED  BY <2>2, <2>3
<1>4. /\ e2 \in [Sides -> SUBSET r.open]
      /\ \A side \in Sides : e2[side] \subseteq e[side]
      /\ s.max <= ReplaceMax => e2 = e
  <2>1. CASE GetRaw(s).fd > 0
    BY <1>2, <2>1 DEF AfterGet
  <2>2. CASE ~(GetRaw(s).fd > 0)
    <3>1. e2 = Without(e, {r.ret})
      BY <2>2 DEF AfterGet
    <3>. HIDE DEF r, e2
    <3>2. /\ e2 \in [Sides -> SUBSET (t \ {r.ret})]
          /\ {r.ret} \cap t = {} => e2 = e
          /\ \A side \in Sides : e2[side] = e[side] \ {r.ret}
      BY <1>2, <3>1, WithoutOK
    <3>3. e2 \in [Sides -> SUBSET r.open]
      BY <1>2, <3>2
    <3>. QED  BY <1>3, <2>2, <3>2, <3>3
  <2>. QED  BY <2>1, <2>2
<1>. HIDE DEF r, e2
<1>5. EndsOK(r.ps, r.open, e2)
  <2>1. {} \cap t = {} /\ t \subseteq t
    OBVIOUS
  <2>. QED  BY <1>1, <1>4, <2>1, EndsGrow
<1>. QED  BY <1>4, <1>5 DEF r, e2

(* bstg_fdstore_set().                                                     *)
LEMMA DuppedOK ==
  ASSUME NEW s, StoreOK(s), NEW t, NEW fd, NEW e \in [Sides -> SUBSET t]
  PROVE  /\ Dupped(s, t, fd, e) \in [Sides -> SUBSET SetFd(s, t, fd).open]
         /\ s.max <= ReplaceMax => Dupped(s, t, fd, e) = e
<1>1. CASE Replaces(s, t, fd)
  <2>1. SetFd(s, t, fd).open = t \cup {GetRaw(s).fd}
    BY <1>1 DEF SetFd
  <2>. DEFINE newd == GetRaw(s).fd
  <2>2. Dupped(s, t, fd, e) =
          [side \in Sides |-> IF fd \in e[side] THEN e[side] \cup {newd}
                                                ELSE e[side] \ {newd}]
    BY <1>1 DEF Dupped, Sides
  <2>. HIDE DEF newd
  <2>3. Dupped(s, t, fd, e) \in [Sides -> SUBSET (t \cup {newd})]
    BY <2>2
  <2>. QED  BY <1>1, <2>1, <2>3, NoReplacing DEF newd
<1>2. CASE ~Replaces(s, t, fd)
  <2>1. SetFd(s, t, fd).open = t /\ Dupped(s, t, fd, e) = e
    BY <1>2 DEF SetFd, Dupped
  <2>. QED  BY <2>1
<1>. QED  BY <1>1, <1>2

-----------------------------------------------------------------------------
PipesInv == StoreInv /\ ps.magic /\ EndsOK(ps, open, ends)

LEMMA InitPipes == Init => PipesInv
<1>. SUFFICES ASSUME Init PROVE PipesInv
  OBVIOUS
<1>. DEFINE zero == [magic |-> FALSE, max |-> 0, count |-> 0, fds |-> {}]
<1>1. zero \in StoreType
  <2>1. 0 \in Fd \cup {-1} /\ 0 \in 0 .. (CountMod - 1) /\ {} \in SUBSET Fd
    BY StoreAssumption DEF Fd
  <2>. QED  BY <2>1 DEF StoreType
<1>2. ps = InitStore(zero) /\ open = StdFds /\ ret = 0 /\ ends = NoEnds
  BY DEF Init
<1>. HIDE DEF zero
<1>3. StoreOK(ps) /\ ps.fds = {}
  BY <1>1, <1>2, InitStoreOK
<1>4. StoreInv
  BY <1>2, <1>3, PoolAssumption
     DEF StoreInv, PoolTypeOK, MaxIsLargest, DeadIsEmpty, StoreOK
<1>5. ends \in [Sides -> SUBSET open]
  BY <1>2 DEF NoEnds, Sides
<1>. QED  BY <1>3, <1>4, <1>5 DEF PipesInv, EndsOK, StoreOK

LEMMA OpenPipes ==
  ASSUME PipesInv, RunOpen
  PROVE  EndsOK(ps', open', ends')
<1>1. StoreOK(ps) /\ open \in SUBSET Fd /\ EndsOK(ps, open, ends)
  BY LiveStore DEF PipesInv
<1>2. ends' = Without(ends, {ret'}) /\ Open
  BY DEF RunOpen
<1>3. ASSUME NEW fd \in (Fd \ open) \cup {-1}, NEW t \in SUBSET Fd,
             open \subseteq t, fd \in t \cup {-1}, Return(SetFd(ps, t, fd))
      PROVE  EndsOK(ps', open', ends')
  <2>. DEFINE r == SetFd(ps, t, fd)
  <2>1. Grows(ps, t, {fd}, r) /\ (ps.max <= ReplaceMax => r.ret = fd)
    <3>1. Grows(ps, t, {fd}, r)
      BY <1>1, <1>3, SetOK
    <3>2. ps.max <= ReplaceMax => r.ret = fd
      BY <1>1, NoReplacing
    <3>. QED  BY <3>1, <3>2
  <2>2. ps' = r.ps /\ open' = r.open /\ ret' = r.ret
    BY <1>3 DEF Return
  <2>. HIDE DEF r
  <2>3. -1 \notin open /\ {fd} \cap open = {}
    BY <1>1, StoreAssumption DEF Fd
  <2>4. /\ ends' \in [Sides -> SUBSET (open \ {ret'})]
        /\ {ret'} \cap open = {} => ends' = ends
    BY <1>1, <1>2, WithoutOK DEF EndsOK
  <2>5. ends' \in [Sides -> SUBSET r.open]
    BY <1>3, <2>1, <2>4 DEF Grows
  <2>6. ps.max <= ReplaceMax => ends' = ends
    BY <2>1, <2>2, <2>3, <2>4
  <2>. QED  BY <1>1, <1>3, <2>1, <2>2, <2>3, <2>5, <2>6, EndsGrow
<1>4. CASE Return(SetFd(ps, open, -1))
  BY <1>1, <1>3, <1>4
<1>5. ASSUME Free(open) # {},
             Return(SetFd(ps, open \cup {LowestFree(open)}, LowestFree(open)))
      PROVE  EndsOK(ps', open', ends')
  <2>. DEFINE fd == LowestFree(open)
  <2>1. fd \in Fd \ open
    BY <1>5, LowestFreeIsFree
  <2>2. Return(SetFd(ps, open \cup {fd}, fd))
    BY <1>5
  <2>. HIDE DEF fd
  <2>. QED  BY <1>1, <1>3, <2>1, <2>2
<1>. QED  BY <1>2, <1>4, <1>5 DEF Open

LEMMA PipePipes ==
  ASSUME PipesInv, RunPipe
  PROVE  EndsOK(ps', open', ends')
<1>. DEFINE rd    == LowestFree(open)
            wr    == LowestFree(open \cup {rd})
            both  == open \cup {rd, wr}
            first == SetFd(ps, both, rd)
            r     == SetFd(first.ps, first.open, wr)
<1>1. StoreOK(ps) /\ open \in SUBSET Fd /\ EndsOK(ps, open, ends)
  BY LiveStore DEF PipesInv
<1>2. Return(r) /\ Cardinality(Free(open)) >= 2
  BY DEF RunPipe, Pipe
<1>3. PICK e \in {ends} \cup (IF ends = NoEnds
                              THEN {[reader |-> {rd}, writer |-> {wr}]}
                              ELSE {}) :
        ends' = Dupped(first.ps, first.open, wr, Dupped(ps, both, rd, e))
  BY DEF RunPipe
<1>4. rd \in Fd \ open /\ wr \in Fd \ open
  BY <1>1, <1>2, TwoFree
<1>. HIDE DEF rd, wr
<1>5. both \in SUBSET Fd /\ rd \in both \cup {-1} /\ wr \in both
  BY <1>1, <1>4
<1>6. e \in [Sides -> SUBSET both]
  <2>1. CASE e = ends
    BY <1>1, <2>1 DEF EndsOK
  <2>2. CASE e = [reader |-> {rd}, writer |-> {wr}]
    BY <2>2 DEF Sides
  <2>. QED  BY <1>3, <2>1, <2>2
<1>7. {rd, wr} \cap open = {} /\ open \subseteq both /\ both = open \cup {rd, wr}
  BY <1>4
<1>. HIDE DEF both
<1>8. Grows(ps, both, {rd}, first)
  BY <1>1, <1>5, SetOK
<1>9. /\ Dupped(ps, both, rd, e) \in [Sides -> SUBSET first.open]
      /\ ps.max <= ReplaceMax => Dupped(ps, both, rd, e) = e
  BY <1>1, <1>6, DuppedOK
<1>. HIDE DEF first
<1>10. StoreOK(first.ps) /\ first.open \in SUBSET Fd /\ wr \in first.open \cup {-1}
  BY <1>5, <1>8 DEF Grows
<1>11. Grows(first.ps, first.open, {wr}, r)
  BY <1>10, SetOK
<1>12. /\ ends' \in [Sides -> SUBSET r.open]
       /\ first.ps.max <= ReplaceMax => ends' = Dupped(ps, both, rd, e)
  BY <1>3, <1>9, <1>10, DuppedOK
<1>. HIDE DEF r
<1>13. Grows(ps, both, {rd} \cup {wr}, r)
  BY <1>1, <1>8, <1>11, GrowsTwice
<1>14. ps' = r.ps /\ open' = r.open
  BY <1>2 DEF Return
<1>15. r.ps.max <= ReplaceMax => ends' = e
  <2>. SUFFICES ASSUME r.ps.max <= ReplaceMax PROVE ends' = e
    OBVIOUS
  <2>1. first.ps.max <= ReplaceMax
    BY <1>10, <1>11, WithinBefore
  <2>2. ps.max <= ReplaceMax
    BY <1>1, <1>8, <2>1, WithinBefore
  <2>. QED  BY <1>9, <1>12, <2>1, <2>2
<1>16. ASSUME r.ps.max <= ReplaceMax, ends'.writer \cap r.ps.fds # {}
       PROVE  ends'.reader # {}
  <2>1. ends' = e /\ ps.max <= ReplaceMax
    BY <1>1, <1>13, <1>15, <1>16, WithinBefore
  <2>2. CASE e = ends
    <3>1. ends.writer \subseteq open
      BY <1>1 DEF EndsOK, Sides
    <3>2. ends.writer \cap r.ps.fds \subseteq ends.writer \cap ps.fds
      BY <1>7, <1>13, <3>1 DEF Grows
    <3>. QED  BY <1>1, <1>16, <2>1, <2>2, <3>2 DEF EndsOK
  <2>3. CASE e = [reader |-> {rd}, writer |-> {wr}]
    BY <2>1, <2>3
  <2>. QED  BY <1>3, <2>2, <2>3
<1>. QED  BY <1>12, <1>14, <1>16 DEF EndsOK

(* The operations that get one descriptor.                                 *)
LEMMA GetPipes ==
  ASSUME PipesInv, NEW opens \in Opens, Return(GetFd(ps, open, opens)),
         ends' = AfterGet(ps, open, opens, ends)
  PROVE  EndsOK(ps', open', ends')
<1>1. StoreOK(ps) /\ open \in SUBSET Fd /\ EndsOK(ps, open, ends)
  BY LiveStore DEF PipesInv
<1>. QED  BY <1>1, GetEnds DEF Return

LEMMA SendfilePipes ==
  ASSUME PipesInv, RunSendfile
  PROVE  EndsOK(ps', open', ends')
<1>1. StoreOK(ps) /\ open \in SUBSET Fd /\ EndsOK(ps, open, ends)
  BY LiveStore DEF PipesInv
<1>2. PICK o1 \in Opens, o2 \in Opens :
        LET from == GetFd(ps, open, o1)
        IN  /\ Return(GetFd(from.ps, from.open, o2))
            /\ ends' = AfterGet(from.ps, from.open, o2,
                                AfterGet(ps, open, o1, ends))
  BY DEF RunSendfile
<1>. DEFINE from == GetFd(ps, open, o1)
            e    == AfterGet(ps, open, o1, ends)
<1>3. /\ Return(GetFd(from.ps, from.open, o2))
      /\ ends' = AfterGet(from.ps, from.open, o2, e)
  BY <1>2
<1>4. Grows(ps, open, {}, from) /\ EndsOK(from.ps, from.open, e)
  BY <1>1, GetOK, GetEnds
<1>. HIDE DEF from, e
<1>5. StoreOK(from.ps) /\ from.open \in SUBSET Fd
  BY <1>4 DEF Grows
<1>. QED  BY <1>3, <1>4, <1>5, GetEnds DEF Return

(* closedir() closes no end of a watched pipe.                             *)
LEMMA FdopendirPipes ==
  ASSUME PipesInv, RunFdopendir
  PROVE  EndsOK(ps', open', ends')
<1>1. StoreOK(ps) /\ open \in SUBSET Fd /\ EndsOK(ps, open, ends)
  BY LiveStore DEF PipesInv
<1>2. PICK opens \in Opens, isdir \in BOOLEAN :
        LET got == GetFd(ps, open, opens)
        IN  /\ ends' = AfterGet(ps, open, opens, ends)
            /\ isdir => got.ret \notin ends'.reader \cup ends'.writer
            /\ Return([got EXCEPT !.open = IF isdir THEN @ \ {got.ret} ELSE @])
  BY DEF RunFdopendir
<1>. DEFINE got == GetFd(ps, open, opens)
            r   == [got EXCEPT !.open = IF isdir THEN @ \ {got.ret} ELSE @]
<1>3. /\ isdir => got.ret \notin ends'.reader \cup ends'.writer
      /\ Return(r)
  BY <1>2
<1>4. EndsOK(got.ps, got.open, ends')
  BY <1>1, <1>2, GetEnds
<1>5. got = [ps |-> got.ps, open |-> got.open, ret |-> got.ret]
  BY DEF GetFd, SetFd
<1>. HIDE DEF got
<1>6. /\ ps' = got.ps
      /\ open' = IF isdir THEN got.open \ {got.ret} ELSE got.open
  BY <1>3, <1>5 DEF Return
<1>7. ends' \in [Sides -> SUBSET open']
  BY <1>3, <1>4, <1>6 DEF EndsOK, Sides
<1>. QED  BY <1>4, <1>6, <1>7 DEF EndsOK

(* The descriptor of "." is fresh, hence no end of a pipe.                 *)
LEMMA FchdirPipes ==
  ASSUME PipesInv, RunFchdir
  PROVE  EndsOK(ps', open', ends')
<1>1. StoreOK(ps) /\ open \in SUBSET Fd /\ EndsOK(ps, open, ends)
  BY LiveStore DEF PipesInv
<1>. DEFINE cwdfd == LowestFree(open)
<1>2. PICK opens \in Opens :
        LET got == GetFd(ps, open \cup {cwdfd}, opens)
        IN  /\ Return([got EXCEPT !.open = @ \ {cwdfd}])
            /\ ends' = Without(AfterGet(ps, open \cup {cwdfd}, opens, ends),
                               {cwdfd})
  BY DEF RunFchdir
<1>3. cwdfd \in Fd \ open
  BY LowestFreeIsFree DEF RunFchdir
<1>. HIDE DEF cwdfd
<1>. DEFINE got == GetFd(ps, open \cup {cwdfd}, opens)
            e   == AfterGet(ps, open \cup {cwdfd}, opens, ends)
<1>4. Return([got EXCEPT !.open = @ \ {cwdfd}]) /\ ends' = Without(e, {cwdfd})
  BY <1>2
<1>5. open \cup {cwdfd} \in SUBSET Fd /\ EndsOK(ps, open \cup {cwdfd}, ends)
  BY <1>1, <1>3 DEF EndsOK
<1>6. /\ EndsOK(got.ps, got.open, e)
      /\ \A side \in Sides : e[side] \subseteq ends[side]
  BY <1>1, <1>5, GetEnds
<1>7. got = [ps |-> got.ps, open |-> got.open, ret |-> got.ret]
  BY DEF GetFd, SetFd
<1>. HIDE DEF got, e
<1>8. ps' = got.ps /\ open' = got.open \ {cwdfd}
  BY <1>4, <1>7 DEF Return
<1>9. /\ ends' \in [Sides -> SUBSET open']
      /\ \A side \in Sides : ends'[side] = e[side] \ {cwdfd}
  <2>1. e \in [Sides -> SUBSET got.open]
    BY <1>6 DEF EndsOK
  <2>. QED  BY <1>4, <1>8, <2>1, WithoutOK
<1>10. \A side \in Sides : ends'[side] = e[side]
  BY <1>1, <1>3, <1>6, <1>9 DEF EndsOK
<1>11. ends'.writer = e.writer /\ ends'.reader = e.reader
  BY <1>10 DEF Sides
<1>. QED  BY <1>6, <1>8, <1>9, <1>11 DEF EndsOK

LEMMA CloseallPipes ==
  ASSUME PipesInv, RunCloseall
  PROVE  EndsOK(ps', open', ends') /\ ps'.magic
<1>1. StoreOK(ps) /\ open \in SUBSET Fd /\ EndsOK(ps, open, ends)
  BY LiveStore DEF PipesInv
<1>2. ps'.magic /\ ps'.fds = {} /\ open' = open \ ps.fds
  BY <1>1, CloseAllOK DEF PipesInv, RunCloseall, Closeall, Return, StoreOK
<1>3. ends' \in [Sides -> SUBSET open']
  BY <1>1, <1>2, WithoutOK DEF RunCloseall, EndsOK
<1>. QED  BY <1>2, <1>3 DEF EndsOK

LEMMA StepPipes ==
  ASSUME PipesInv, [Next]_vars
  PROVE  PipesInv'
<1>1. StoreInv /\ ps.magic
  BY DEF PipesInv
<1>2. ASSUME Use PROVE StepOK /\ ps'.magic
  BY <1>1, <1>2, UseStep
<1>3. CASE RunOpen
  BY <1>1, <1>3, OpenStep, OpenPipes DEF PipesInv, RunOpen, StepOK
<1>4. CASE RunPipe
  BY <1>1, <1>4, PipeStep, PipePipes DEF PipesInv, RunPipe, StepOK
<1>5. CASE RunUse \/ RunWrite \/ RunMapFile
  <2>1. PICK opens \in Opens :
          /\ Return(GetFd(ps, open, opens))
          /\ ends' = AfterGet(ps, open, opens, ends)
    BY <1>5 DEF RunUse, RunWrite, RunMapFile
  <2>2. EndsOK(ps', open', ends')
    BY <2>1, GetPipes
  <2>3. Use
    BY <1>1, <2>1 DEF Use
  <2>. QED  BY <1>2, <2>2, <2>3 DEF PipesInv, StepOK
<1>6. CASE RunSendfile
  <2>1. Sendfile
    BY <1>1, <1>6 DEF RunSendfile, Sendfile
  <2>. QED
    BY <1>1, <1>6, <2>1, SendfileStep, SendfilePipes DEF PipesInv, StepOK
<1>7. CASE RunFdopendir
  <2>1. Fdopendir
    BY <1>1, <1>7 DEF RunFdopendir, Fdopendir
  <2>. QED
    BY <1>1, <1>7, <2>1, FdopendirStep, FdopendirPipes DEF PipesInv, StepOK
<1>8. CASE RunChdir
  <2>1. StepOK /\ ps'.magic
    BY <1>1, <1>8, ChdirGivesUpStep DEF RunChdir
  <2>2. ps' = ps /\ open \subseteq open' /\ ends' = ends
    BY <1>8 DEF RunChdir, ChdirGivesUp
  <2>. QED  BY <2>1, <2>2 DEF PipesInv, EndsOK, StepOK
<1>9. CASE RunFchdir
  <2>1. Fchdir
    BY <1>1, <1>9 DEF RunFchdir, Fchdir
  <2>. QED
    BY <1>1, <1>9, <2>1, FchdirStep, FchdirPipes DEF PipesInv, StepOK
<1>10. CASE RunCloseall
  BY <1>1, <1>10, CloseallStep, CloseallPipes DEF PipesInv, RunCloseall, StepOK
<1>11. CASE CopyMapped \/ OthersResize \/ UNCHANGED vars
  <2>1. UNCHANGED <<ps, open, ret, ends>>
    BY <1>11 DEF CopyMapped, OthersResize, vars
  <2>2. StoreInv'
    BY <1>1, <2>1 DEF StoreInv, PoolTypeOK, MaxIsLargest, DeadIsEmpty
  <2>. QED  BY <2>1, <2>2 DEF PipesInv
<1>. QED
  BY <1>3, <1>4, <1>5, <1>6, <1>7, <1>8, <1>9, <1>10, <1>11 DEF Next, Ended

LEMMA PipesInvariance == Spec => []PipesInv
<1>1. PipesInv /\ [Next]_vars => PipesInv'
  BY StepPipes
<1>. QED  BY InitPipes, <1>1, PTL DEF Spec

(* Within the limit no child writes to a pipe that nobody can read: both   *)
(* ends come into the store together and leave it together, and no other   *)
(* operation lets go of one of them.                                       *)
THEOREM PipesStayWhole == Spec => []PipesWhole
<1>1. PipesInv => PipesWhole
  BY DEF PipesInv, EndsOK, PipesWhole
<1>. QED  BY <1>1, PipesInvariance, PTL

-----------------------------------------------------------------------------
(* What ends a child is a write to a pipe, after a replacement that has    *)
(* not been closed since: no fault does, and no pipe within the limit.     *)
EndsByReplacing == ended' # ended => ended' = "SIGPIPE" /\ ps'.max > ReplaceMax

(* A child of the stress driver is ended by nothing but SIGPIPE, and by    *)
(* that only after insert() took a number beyond the limit.                *)
THEOREM ChildEndsByReplacing == Spec => [][EndsByReplacing]_vars
<1>1. ASSUME PipesInv, PipesInv', FaultInv', Next PROVE EndsByReplacing
  <2>1. CASE RunWrite
    <3>1. PICK opens \in Opens : Return(GetFd(ps, open, opens))
      BY <2>1 DEF RunWrite
    <3>2. ps.magic /\ StoreOK(ps) /\ open \in SUBSET Fd
      BY <1>1, LiveStore DEF PipesInv
    <3>3. ret' \in ps'.fds \cup {-1}
      BY <3>1, <3>2, GetOK DEF Return
    <3>4. EndsOK(ps', open', ends') /\ open' \subseteq Fd /\ ps' \in StoreType
      BY <1>1 DEF PipesInv, StoreInv, PoolTypeOK
    <3>5. ended = "no"
      BY <2>1 DEF RunWrite, Idle
    <3>6. ASSUME ret' \in ends'.writer, ends'.reader = {}
          PROVE  ps'.max > ReplaceMax
      <4>1. ends'.writer \subseteq open'
        BY <3>4 DEF EndsOK, Sides
      <4>2. ret' \in ps'.fds
        BY <3>3, <3>4, <3>6, <4>1, StoreAssumption DEF Fd
      <4>3. ~(ps'.max <= ReplaceMax)
        BY <3>4, <3>6, <4>2 DEF EndsOK
      <4>4. ps'.max \in Int
        BY <3>4, StoreAssumption DEF StoreType, Fd
      <4>. QED  BY <4>3, <4>4, StoreAssumption
    <3>. QED  BY <2>1, <3>5, <3>6 DEF RunWrite, EndsByReplacing
  <2>2. CASE CopyMapped
    <3>1. ~killed'
      BY <1>1 DEF FaultInv, SignalInv
    <3>2. ended = "no" /\ ended' = IF killed' THEN "fault" ELSE "no"
      BY <2>2 DEF CopyMapped
    <3>. QED  BY <3>1, <3>2, Zenon DEF EndsByReplacing
  <2>3. ASSUME ~RunWrite, ~CopyMapped PROVE ended' = ended
    BY <1>1, <2>3
       DEF Next, RunOpen, RunPipe, RunUse, RunMapFile, RunSendfile, RunFdopendir,
           RunChdir, RunFchdir, RunCloseall, OthersResize, Ended, vars
  <2>. QED  BY <2>1, <2>2, <2>3 DEF EndsByReplacing
<1>2. PipesInv /\ PipesInv' /\ FaultInv' /\ [Next]_vars => [EndsByReplacing]_vars
  BY <1>1
<1>. QED
  BY <1>2, PipesInvariance, ChildMapsFiles, FaultInvariance, PTL DEF Spec

EndTypes == ended \in {"no", "SIGPIPE", "fault"}

(* Every variable keeps its type; the watched ends are open.               *)
THEOREM BrannaghTypes == Spec => []TypeOK
<1>1. Init => EndTypes
  BY DEF Init, EndTypes
<1>2. EndTypes /\ [Next]_vars => EndTypes'
  BY DEF EndTypes, Next, RunOpen, RunPipe, RunUse, RunWrite, RunMapFile, RunSendfile,
         RunFdopendir, RunChdir, RunFchdir, RunCloseall, CopyMapped, OthersResize,
         Ended, vars
<1>3. EndTypes /\ PipesInv /\ FaultInv => TypeOK
  BY DEF EndTypes, PipesInv, StoreInv, EndsOK, Sides, FaultInv, TypeOK
<1>. QED
  BY <1>1, <1>2, <1>3, PipesInvariance, ChildMapsFiles, FaultInvariance, PTL DEF Spec

-----------------------------------------------------------------------------
(* The child as a process of the pool.  What the pipes and the mapped      *)
(* files add to its operations does not change what they do to the store.  *)
LEMMA ChildInitPool == Init => PoolInv
<1>. SUFFICES ASSUME Init PROVE PoolInv
  OBVIOUS
<1>1. StoreInv
  BY InitPipes DEF PipesInv
<1>2. ps.fds = {} /\ open = StdFds
  BY DEF Init, InitStore, Reset
<1>. QED
  BY <1>1, <1>2, PoolAssumption DEF PoolInv, ForeignSafe, NeverStarved, Free

LEMMA ChildStepPool ==
  ASSUME ps.magic, [Next]_vars
  PROVE  [PoolNext]_poolVars
<1>1. CASE RunOpen \/ RunPipe \/ RunChdir \/ RunCloseall
  BY <1>1 DEF RunOpen, RunPipe, RunChdir, RunCloseall, PoolNext
<1>2. CASE RunUse \/ RunWrite \/ RunMapFile
  <2>1. Use
    BY <1>2 DEF RunUse, RunWrite, RunMapFile, Use
  <2>. QED  BY <2>1 DEF PoolNext
<1>3. CASE RunSendfile
  <2>1. Sendfile
    BY <1>3 DEF RunSendfile, Sendfile
  <2>. QED  BY <2>1 DEF PoolNext
<1>4. CASE RunFdopendir
  <2>1. Fdopendir
    BY <1>4 DEF RunFdopendir, Fdopendir
  <2>. QED  BY <2>1 DEF PoolNext
<1>5. CASE RunFchdir
  <2>1. Fchdir
    BY <1>5 DEF RunFchdir, Fchdir
  <2>. QED  BY <2>1 DEF PoolNext
<1>6. CASE CopyMapped \/ OthersResize \/ UNCHANGED vars
  BY <1>6 DEF CopyMapped, OthersResize, vars, poolVars
<1>. QED
  BY <1>1, <1>2, <1>3, <1>4, <1>5, <1>6 DEF Next, Ended

LEMMA ChildInPool == Spec => InPool
<1>1. PipesInv /\ [Next]_vars => [PoolNext]_poolVars
  BY ChildStepPool DEF PipesInv
<1>2. PoolInv /\ [PoolNext]_poolVars => PoolInv'
  BY StepPoolInv
<1>. QED
  BY <1>1, <1>2, ChildInitPool, PipesInvariance, PTL DEF Spec, InPool

(* However long a child runs, the descriptors it started with stay open,   *)
(* its leaks never starve it, what it executes after bstg_preexec() sees   *)
(* no tracked descriptor, and its lookups reach every tracked descriptor   *)
(* in turn.                                                                *)
THEOREM ChildPoolSafe ==
  Spec => [](ForeignSafe /\ NeverStarved /\ PreexecSeesOnlyLeaks /\ RoundRobin)
<1>1. PoolInv => ForeignSafe /\ NeverStarved
  BY DEF PoolInv
<1>. QED
  BY <1>1, ChildInPool, PreexecClearedInPool, TakesTurnsInPool, PTL DEF InPool

(* A child gets what is tracked, leaks only when it replaces, takes no     *)
(* more into the set than the limit allows, and has a closed descriptor    *)
(* there only through fdopendir().                                         *)
THEOREM ChildPoolSteps ==
  Spec => /\ GetReturnsTracked
          /\ NoNewStale
          /\ LeakOnlyWhenReplacing
          /\ ReplaceBounds
  BY ChildInPool, GetTrackedInPool, OnlyFdopendirStalesInPool,
     LeaksByReplacingInPool, LimitHoldsInPool, PTL

=============================================================================
