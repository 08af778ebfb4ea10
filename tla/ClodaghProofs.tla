---------------------------- MODULE ClodaghProofs ----------------------------
(***************************************************************************)
(* What the buffer of a child of the archive player can hold, and that its *)
(* operations leave libarchive's descriptor alone, for any number of       *)
(* archives and any descriptor table.                                      *)
(***************************************************************************)
EXTENDS Clodagh, FdPoolProofs

(* The types of what was read last.                                        *)
BufferInv ==
  /\ kind \in Kinds
  /\ buf \in Buffers({"this", "earlier"})

EntryInv == BufferInv /\ StaleOnlyIfIncomplete

LEMMA FilledOK ==
  ASSUME NEW b \in Buffers({"this", "earlier"}), NEW k \in Kinds
  PROVE  /\ Filled(Aged(b), {"earlier"}, "this", k)
              \in Buffers({"this", "earlier"})
         /\ Taken(k) /\ MayParse(Filled(Aged(b), {"earlier"}, "this", k)) =>
              \/ Filled(Aged(b), {"earlier"}, "this", k).from = {"this"}
              \/ k \in {"cut", "empty"}
<1>. DEFINE a == Aged(b)
            f == Filled(a, {"earlier"}, "this", k)
<1>1. /\ a = [b EXCEPT !.from = IF b.from = {} THEN {} ELSE {"earlier"}]
      /\ a \in Buffers({"this", "earlier"})
  BY DEF Aged, Buffers
<1>. HIDE DEF a
<1>2. CASE k = "list"
  <2>1. PICK e \in BOOLEAN :
          f = [ends |-> e, from |-> {"this"}, holds |-> "list"]
    BY <1>2 DEF Filled
  <2>2. f \in Buffers({"this", "earlier"}) /\ f.from = {"this"}
    BY <2>1 DEF Buffers
  <2>. QED  BY <2>2 DEF a
<1>3. CASE k = "other"
  <2>1. f = [a EXCEPT !.from = {"this"}, !.holds = "none"]
    BY <1>3 DEF Filled
  <2>2. f = [ends |-> a.ends, from |-> {"this"}, holds |-> "none"]
    BY <1>1, <2>1 DEF Buffers
  <2>3. a.ends \in BOOLEAN
    BY <1>1 DEF Buffers
  <2>4. f \in Buffers({"this", "earlier"}) /\ f.holds = "none"
    BY <2>2, <2>3 DEF Buffers
  <2>. QED  BY <2>4 DEF MayParse, a
<1>4. CASE k = "empty"
  <2>1. f = a
    BY <1>4 DEF Filled
  <2>. QED  BY <1>1, <1>4, <2>1 DEF a
<1>5. CASE k \in {"cut", "short"}
  <2>1. f = [a EXCEPT !.from = {"earlier"} \cup {"this"},
                      !.holds = IF a.ends THEN "mixture" ELSE "none"]
    BY <1>5 DEF Filled
  <2>2. PICK h \in {"mixture", "none"} :
          f = [ends |-> a.ends, from |-> {"earlier", "this"}, holds |-> h]
    BY <1>1, <2>1 DEF Buffers
  <2>3. a.ends \in BOOLEAN
    BY <1>1 DEF Buffers
  <2>4. f \in Buffers({"this", "earlier"})
    BY <2>2, <2>3 DEF Buffers
  <2>. QED  BY <1>5, <2>4 DEF Taken, a
<1>. QED  BY <1>2, <1>3, <1>4, <1>5 DEF Kinds

LEMMA InitEntry == Init => EntryInv
  BY DEF Init, EntryInv, BufferInv, StaleOnlyIfIncomplete, Kinds, Buffers, NewBuffer

LEMMA StepEntry ==
  ASSUME EntryInv, [Next]_vars
  PROVE  EntryInv'
<1>1. CASE ReadEntry
  <2>1. kind' \in Kinds /\ buf \in Buffers({"this", "earlier"})
    BY <1>1 DEF ReadEntry, EntryInv, BufferInv
  <2>2. buf' = Filled(Aged(buf), {"earlier"}, "this", kind')
    BY <1>1 DEF ReadEntry
  <2>3. /\ buf' \in Buffers({"this", "earlier"})
        /\ Taken(kind') /\ MayParse(buf') =>
             buf'.from = {"this"} \/ kind' \in {"cut", "empty"}
    BY <2>1, <2>2, FilledOK
  <2>4. pc' = "run" => Taken(kind') /\ MayParse(buf')
    BY <1>1 DEF ReadEntry
  <2>. QED
    BY <2>1, <2>3, <2>4 DEF EntryInv, BufferInv, StaleOnlyIfIncomplete
<1>2. CASE UNCHANGED entry /\ (pc' = "run" => pc = "run")
  BY <1>2 DEF EntryInv, BufferInv, StaleOnlyIfIncomplete, entry
<1>3. ASSUME [Next]_vars, ~ReadEntry
      PROVE  UNCHANGED entry /\ (pc' = "run" => pc = "run")
  BY <1>3 DEF Next, vars, entry, OpenArchive, BadEntry, Operate, ListEnds,
              CloseArchive, FuncsDestroy, Ended
<1>. QED  BY <1>1, <1>2, <1>3

LEMMA EntryInvariance == Spec => []EntryInv
<1>1. EntryInv /\ [Next]_vars => EntryInv'
  BY StepEntry
<1>. QED  BY InitEntry, <1>1, PTL DEF Spec

(* Operations of an earlier entry run again only through an entry that is  *)
(* cut or empty.                                                           *)
THEOREM StaleOnlyFromIncomplete == Spec => []StaleOnlyIfIncomplete
<1>1. EntryInv => StaleOnlyIfIncomplete
  BY DEF EntryInv
<1>. QED  BY <1>1, EntryInvariance, PTL

-----------------------------------------------------------------------------
(* The descriptor that the first archive gets.                             *)
First == LowestFree(StdFds)

(* Every archive gets it again: a child closes it before it opens the next *)
(* archive, nothing below it is ever free, and no operation runs while it  *)
(* is.  Only when standard input is read, after the last archive, may the  *)
(* store take it.  That is why no stale entry of the set ever has the      *)
(* number of an archive that is open.                                      *)
KeptInv ==
  /\ StoreInv
  /\ ForeignSafe
  /\ arg \in Nat
  /\ archive \in {-1, First}
  /\ archive # -1 => First \in open \ ps.fds
  /\ pc = "arguments" => archive = -1
  /\ pc = "arguments" /\ Given(arg + 1) => First \notin open \cup ps.fds
  /\ pc \in {"read", "run"} /\ archive = -1 => ~Given(arg + 1)

LEMMA FirstIsFree ==
  /\ First \in Fd \ StdFds
  /\ First # -1
  /\ \A fd \in Fd \ StdFds : First <= fd
<1>1. Free(StdFds) # {}
  BY PoolAssumption
<1>2. First \in Fd /\ First \notin StdFds /\ \A fd \in Free(StdFds) : First <= fd
  BY <1>1, LowestFreeIsFree DEF First
<1>. QED  BY <1>2, StoreAssumption DEF Free, Fd

(* The lowest free descriptor is the same in every table that has those of *)
(* the start and not First.                                                *)
LEMMA FirstAgain ==
  ASSUME NEW t, StdFds \subseteq t, First \notin t
  PROVE  LowestFree(t) = First
<1>1. First \in Free(t)
  BY FirstIsFree DEF Free
<1>2. LowestFree(t) \in Fd \ StdFds /\ LowestFree(t) <= First
  BY <1>1, LowestFreeIsFree
<1>3. First <= LowestFree(t)
  BY <1>2, FirstIsFree
<1>4. First \in Int /\ LowestFree(t) \in Int
  BY <1>2, FirstIsFree, StoreAssumption DEF Fd
<1>. QED  BY <1>2, <1>3, <1>4

LEMMA InitKept == Init => KeptInv
<1>. SUFFICES ASSUME Init PROVE KeptInv
  OBVIOUS
<1>1. ps = [magic |-> TRUE, max |-> -1, count |-> 0, fds |-> {}]
  BY DEF Init, InitStore, Reset
<1>2. StoreInv
  <2>1. -1 \in Fd \cup {-1} /\ 0 \in 0 .. (CountMod - 1) /\ {} \in SUBSET Fd
    BY StoreAssumption
  <2>2. ps \in StoreType
    BY <1>1, <2>1 DEF StoreType
  <2>3. open \subseteq Fd /\ ret = 0
    BY PoolAssumption DEF Init
  <2>. QED
    BY <1>1, <2>2, <2>3 DEF StoreInv, PoolTypeOK, MaxIsLargest, DeadIsEmpty
<1>3. ForeignSafe
  BY <1>1 DEF Init, ForeignSafe
<1>4. First \notin open \cup ps.fds
  BY <1>1, FirstIsFree DEF Init
<1>. QED  BY <1>2, <1>3, <1>4 DEF Init, KeptInv

(* An operation of the pool, or the destroy at the end.                    *)
LEMMA PoolKeeps ==
  ASSUME KeptInv, StepOK
  PROVE  /\ StoreInv'
         /\ ForeignSafe'
         /\ archive # -1 => First \in open' \ ps'.fds
  BY DEF KeptInv, StepOK, Careful, ForeignSafe

LEMMA StepKept ==
  ASSUME KeptInv, [Next]_vars
  PROVE  KeptInv'
<1>. USE DEF KeptInv
<1>1. CASE OpenArchive
  <2>1. arg + 1 \in Nat /\ StoreInv /\ ForeignSafe
    OBVIOUS
  <2>2. CASE UNCHANGED <<open, archive>>
    <3>1. StoreInv' /\ ForeignSafe'
      BY <1>1, <2>1, <2>2
         DEF OpenArchive, StoreInv, PoolTypeOK, MaxIsLargest, DeadIsEmpty,
             ForeignSafe
    <3>2. archive = -1 /\ pc = "arguments"
      BY <1>1 DEF OpenArchive
    <3>3. pc' = "exit" \/ (pc' = "read" /\ ~Given(arg'))
      <4>1. -1 \notin Fd
        BY StoreAssumption DEF Fd
      <4>. QED  BY <1>1, <2>2, <3>2, <4>1, LowestFreeIsFree DEF OpenArchive
    <3>4. ~Given(arg') => ~Given(arg' + 1)
      BY <1>1, ClodaghAssumption DEF OpenArchive, Given
    <3>. QED  BY <1>1, <2>1, <2>2, <3>1, <3>2, <3>3, <3>4 DEF OpenArchive
  <2>3. CASE /\ Given(arg + 1)
             /\ archive' = LowestFree(open)
             /\ open' = open \cup {LowestFree(open)}
             /\ pc' = "read"
    <3>1. LowestFree(open) = First /\ First \notin open \cup ps.fds
      BY <1>1, <2>3, FirstAgain DEF OpenArchive, ForeignSafe
    <3>2. StoreInv' /\ ForeignSafe'
      BY <1>1, <2>1, <2>3, <3>1, FirstIsFree
         DEF OpenArchive, StoreInv, PoolTypeOK, MaxIsLargest, DeadIsEmpty,
             ForeignSafe
    <3>. QED  BY <1>1, <2>1, <2>3, <3>1, <3>2, FirstIsFree DEF OpenArchive
  <2>. QED  BY <1>1, <2>2, <2>3 DEF OpenArchive
<1>2. CASE Operate
  <2>1. StepOK
    BY <1>2, CloseallStep, OpenStep, PipeStep, UseStep, SendfileStep,
       FdopendirStep, ChdirGivesUpStep, FchdirStep DEF Operate
  <2>. QED  BY <1>2, <2>1, PoolKeeps DEF Operate
<1>3. CASE CloseArchive
  <2>1. StoreInv' /\ ForeignSafe'
    <3>1. archive \notin StdFds
      BY FirstIsFree, PoolAssumption, StoreAssumption DEF Fd
    <3>2. ps' = ps /\ ret' = ret /\ open' = open \ {archive}
      BY <1>3 DEF CloseArchive
    <3>3. StoreInv'
      BY <3>2 DEF StoreInv, PoolTypeOK, MaxIsLargest, DeadIsEmpty
    <3>4. ForeignSafe'
      BY <3>1, <3>2 DEF ForeignSafe
    <3>. QED  BY <3>3, <3>4
  <2>2. Given(arg + 1) => First \notin open' \cup ps'.fds
    BY <1>3 DEF CloseArchive
  <2>. QED  BY <1>3, <2>1, <2>2 DEF CloseArchive
<1>4. CASE FuncsDestroy
  <2>1. StepOK
    BY <1>4, DestroyStep DEF FuncsDestroy
  <2>. QED  BY <1>4, <2>1, PoolKeeps DEF FuncsDestroy
<1>5. CASE ReadEntry \/ BadEntry \/ ListEnds \/ UNCHANGED vars
  <2>1. UNCHANGED <<ps, open, ret, arg, archive>>
    BY <1>5 DEF ReadEntry, BadEntry, ListEnds, vars, poolVars
  <2>2. StoreInv' /\ ForeignSafe'
    BY <2>1 DEF StoreInv, PoolTypeOK, MaxIsLargest, DeadIsEmpty, ForeignSafe
  <2>3. \/ pc' = pc \/ pc' = "exit"
        \/ pc \in {"read", "run"} /\ pc' \in {"read", "run"}
    BY <1>5 DEF ReadEntry, BadEntry, ListEnds, vars
  <2>. QED  BY <2>1, <2>2, <2>3 DEF Given
<1>. QED
  BY <1>1, <1>2, <1>3, <1>4, <1>5 DEF Next, Ended

LEMMA KeptInvariance == Spec => []KeptInv
<1>1. KeptInv /\ [Next]_vars => KeptInv'
  BY StepKept
<1>. QED  BY InitKept, <1>1, PTL DEF Spec

(* No operation closes the archive that is read, or takes its descriptor   *)
(* into the store, although fdopendir() leaves stale entries in the set    *)
(* and the next archive is opened without a closeall.                      *)
THEOREM ArchiveStaysOpen == Spec => []ArchiveKept
<1>1. KeptInv => ArchiveKept
  BY DEF KeptInv, ArchiveKept
<1>. QED  BY <1>1, KeptInvariance, PTL

-----------------------------------------------------------------------------
ArgumentTypes ==
  /\ pc \in {"arguments", "read", "run", "exit"}
  /\ arg \in 0 .. (NArchives + 1)

(* Every variable keeps its type; the arguments are read up to the NULL    *)
(* that ends them and not beyond.                                          *)
THEOREM ClodaghTypes == Spec => []TypeOK
<1>1. Init => ArgumentTypes
  BY ClodaghAssumption DEF Init, ArgumentTypes
<1>2. ASSUME ArgumentTypes, [Next]_vars PROVE ArgumentTypes'
  <2>. USE <1>2 DEF ArgumentTypes
  <2>1. CASE OpenArchive
    <3>1. arg + 1 \in 0 .. (NArchives + 1)
      BY <2>1, ClodaghAssumption DEF OpenArchive, Given
    <3>. QED  BY <2>1, <3>1 DEF OpenArchive
  <2>2. CASE ReadEntry
    BY <2>2 DEF ReadEntry
  <2>3. CASE BadEntry \/ Operate \/ ListEnds \/ CloseArchive \/ FuncsDestroy \/ UNCHANGED vars
    BY <2>3 DEF BadEntry, Operate, ListEnds, CloseArchive, FuncsDestroy, vars
  <2>. QED  BY <2>1, <2>2, <2>3 DEF Next, Ended
<1>3. ArgumentTypes /\ KeptInv /\ EntryInv => TypeOK
  BY FirstIsFree DEF ArgumentTypes, KeptInv, StoreInv, EntryInv, BufferInv, TypeOK
<1>. QED  BY <1>1, <1>2, <1>3, KeptInvariance, EntryInvariance, PTL DEF Spec

-----------------------------------------------------------------------------
(* The child's store is live until the child destroys it and exits.        *)
LiveInv == pc # "exit" => ps.magic

LEMMA StepLive ==
  ASSUME KeptInv, LiveInv, [Next]_vars
  PROVE  LiveInv'
<1>1. StoreInv
  BY DEF KeptInv
<1>2. CASE Operate
  <2>1. ps.magic /\ StoreOK(ps) /\ open \in SUBSET Fd
    BY <1>1, <1>2, LiveStore DEF Operate, LiveInv
  <2>2. CASE Closeall
    BY <2>1, <2>2, CloseAllOK DEF Closeall, Return, LiveInv, StoreOK
  <2>3. CASE Open \/ Pipe \/ Use \/ Sendfile \/ Fdopendir \/ ChdirGivesUp \/ Fchdir
    <3>1. ps'.magic
      BY <1>1, <2>3, OpenStep, PipeStep, UseStep, SendfileStep, FdopendirStep,
         ChdirGivesUpStep, FchdirStep
    <3>. QED  BY <3>1 DEF LiveInv
  <2>. QED  BY <1>2, <2>2, <2>3 DEF Operate
<1>3. CASE OpenArchive \/ CloseArchive
  BY <1>3 DEF OpenArchive, CloseArchive, LiveInv
<1>4. CASE ReadEntry \/ BadEntry \/ ListEnds
  BY <1>4 DEF ReadEntry, BadEntry, ListEnds, poolVars, LiveInv
<1>5. CASE FuncsDestroy \/ UNCHANGED vars
  BY <1>5 DEF FuncsDestroy, vars, LiveInv
<1>. QED  BY <1>2, <1>3, <1>4, <1>5 DEF Next, Ended

LEMMA LiveInvariance == Spec => []LiveInv
<1>1. Init => LiveInv
  BY DEF Init, InitStore, Reset, LiveInv
<1>2. KeptInv /\ LiveInv /\ [Next]_vars => LiveInv'
  BY StepLive
<1>. QED  BY <1>1, <1>2, KeptInvariance, PTL DEF Spec

(* To the store libarchive's descriptor is one that was open before: the   *)
(* promise of DescriptorPool is kept by every step but the one in which    *)
(* libarchive itself closes it.                                            *)
ArchiveAside == [Promise!Next \/ CloseArchive]_<<ps.magic, ps.fds, open>>

(* Reading archives breaks no promise of the store: a child closes either  *)
(* all that is tracked and nothing else, or the archive it has just read.  *)
THEOREM ClodaghKeepsPromise ==
  Spec => [][Promise!Next \/ CloseArchive]_<<ps.magic, ps.fds, open>>
<1>1. KeptInv /\ KeptInv' /\ LiveInv /\ [Next]_vars => ArchiveAside
  <2>. SUFFICES ASSUME KeptInv, KeptInv', LiveInv, [Next]_vars
                PROVE  ArchiveAside
    OBVIOUS
  <2>1. StoreInv /\ StoreInv'
    BY DEF KeptInv
  <2>2. ASSUME StepOK PROVE ArchiveAside
    BY <2>1, <2>2, CarefulKeeps DEF StepOK, ArchiveAside
  <2>3. CASE OpenArchive
    <3>1. ps' = ps /\ open \subseteq open' /\ ps.magic
      BY <2>3 DEF OpenArchive, LiveInv
    <3>2. Promise!Operate
      BY <3>1 DEF Promise!Operate
    <3>. QED  BY <3>2 DEF Promise!Next, ArchiveAside
  <2>4. CASE Operate
    <3>1. StepOK
      BY <2>1, <2>4, CloseallStep, OpenStep, PipeStep, UseStep, SendfileStep,
         FdopendirStep, ChdirGivesUpStep, FchdirStep DEF Operate
    <3>. QED  BY <2>2, <3>1
  <2>5. CASE FuncsDestroy
    BY <2>1, <2>2, <2>5, DestroyStep DEF FuncsDestroy
  <2>6. CASE CloseArchive
    BY <2>6 DEF ArchiveAside
  <2>7. CASE ReadEntry \/ BadEntry \/ ListEnds \/ UNCHANGED vars
    BY <2>7 DEF ReadEntry, BadEntry, ListEnds, vars, poolVars, ArchiveAside
  <2>. QED
    BY <2>3, <2>4, <2>5, <2>6, <2>7 DEF Next, Ended
<1>. QED
  BY <1>1, KeptInvariance, LiveInvariance, PTL DEF Spec, ArchiveAside

=============================================================================
