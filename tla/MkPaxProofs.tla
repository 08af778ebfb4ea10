----------------------------- MODULE MkPaxProofs -----------------------------
(***************************************************************************)
(* Proofs about mkpax, for a pool of any size, any text of the -S option,  *)
(* any number of shards and archives of any length.                        *)
(***************************************************************************)
EXTENDS MkPax, FiniteSetTheorems, SequenceTheorems, WellFoundedInduction, TLAPS

(* The struct and the archives that main() works with.                     *)
Cells   == [0 .. NFUNCS -> Int]
Flists  == [pindex : Cells, number : 0 .. (NFUNCS + 1),
            lower : 0 .. (NFUNCS + 1), upper : 0 .. (NFUNCS + 1)]
Archive == [lower : Nat, upper : Nat, ended : BOOLEAN,
            ops : SUBSET (0 .. (NFUNCS - 1))]

CreateTypes ==
  /\ pc \in {"init", "import", "shuffle", "shard", "open", "header"} \cup Final
  /\ optJ \in Nat
  /\ optS \in Seq(Int) \cup {NoList}
  /\ fl \in Flists
  /\ curr \in Nat \ {0}
  /\ count \in 0 .. (NFUNCS + 1)
  /\ len \in 0 .. NFUNCS
  /\ base \in 0 .. NFUNCS
  /\ archives \in Seq(Archive)

(* What main() relies on at each of its steps: nothing has been written    *)
(* before the sharding, import has the whole array before it and the list  *)
(* that leaves it is inside.                                               *)
ListInv ==
  /\ CreateTypes
  /\ pc \in {"init", "import", "shuffle", "open", "header"} =>
       archives = <<>> /\ base = 0
  /\ pc \in {"open", "header"} => fl.number = 0
  /\ pc = "init" => curr = 1 /\ count = 0
  /\ pc = "import" => /\ optS # NoList
                      /\ curr <= Len(optS) + 1
                      /\ fl.number = NFUNCS
                      /\ count <= NFUNCS
                      /\ fl.pindex[NFUNCS] = Unset
  /\ pc \in {"shuffle", "shard"} => /\ fl.number <= NFUNCS
                                    /\ fl.pindex[NFUNCS] = Unset
  /\ pc = "shuffle" => len <= fl.number
  /\ OverrunStops

-----------------------------------------------------------------------------
Less == {p \in Nat \X Nat : p[1] < p[2]}

LEMMA LessWellFounded == IsWellFoundedOn(Less, Nat)
  BY NatLessThanWellFounded, Zenon DEF OpToRel, Less

(* Every set of naturals that is not empty has a least element.            *)
LEMMA MinOfNat ==
  ASSUME NEW S \in SUBSET Nat, S # {}
  PROVE  Min(S) \in S /\ \A y \in S : Min(S) <= y
<1>1. PICK x \in S : \A y \in S : ~(<<y, x>> \in Less)
  BY WFMin, LessWellFounded, Zenon
<1>2. \A y \in S : ~(y < x)
  BY <1>1 DEF Less
<1>3. \A y \in S : x <= y
  BY <1>2
<1>. QED  BY <1>3 DEF Min

(* The scanners stop at the first token they do not skip, or at the end.   *)
LEMMA SkipStops ==
  ASSUME NEW text \in Seq(Int), NEW i \in 1 .. (Len(text) + 1), NEW skip
  PROVE  /\ SkipFrom(text, i, skip) \in i .. (Len(text) + 1)
         /\ SkipFrom(text, i, skip) <= Len(text) =>
              text[SkipFrom(text, i, skip)] \notin skip
         /\ \A j \in i .. (SkipFrom(text, i, skip) - 1) : text[j] \in skip
<1>. DEFINE stops == {j \in i .. (Len(text) + 1) : j > Len(text) \/ text[j] \notin skip}
            s     == Min(stops)
<1>1. Len(text) \in Nat
  OBVIOUS
<1>2. stops \in SUBSET Nat /\ Len(text) + 1 \in stops
  BY <1>1
<1>3. s \in stops /\ \A j \in stops : s <= j
  BY <1>2, MinOfNat
<1>4. SkipFrom(text, i, skip) = s
  BY DEF SkipFrom
<1>5. \A j \in i .. (s - 1) : j \notin stops
  <2>. HIDE DEF s
  <2>1. s \in Int
    BY <1>3
  <2>. QED  BY <1>1, <1>3, <2>1
<1>6. \A j \in i .. (s - 1) : j \in i .. (Len(text) + 1)
  <2>. HIDE DEF s
  <2>1. s \in i .. (Len(text) + 1)
    BY <1>3
  <2>. QED  BY <1>1, <2>1
<1>7. \A j \in i .. (s - 1) : text[j] \in skip
  BY <1>5, <1>6
<1>. QED  BY <1>3, <1>4, <1>7

(* Where the parser looks for its next number.                             *)
LEMMA NumberPlace ==
  ASSUME NEW text \in Seq(Int), NEW i \in 1 .. (Len(text) + 1)
  PROVE  /\ TokenAt(text, i) \in i .. (Len(text) + 1)
         /\ NumberAt(text, i) \in TokenAt(text, i) .. (Len(text) + 1)
         /\ Parses(text, i) => /\ NumberAt(text, i) \in 1 .. Len(text)
                               /\ text[NumberAt(text, i)] \in Nat
                               /\ AfterNumber(text, i) \in 1 .. (Len(text) + 1)
<1>. DEFINE at == TokenAt(text, i)
            n  == NumberAt(text, i)
<1>1. at \in i .. (Len(text) + 1)
  BY SkipStops DEF TokenAt
<1>2. at \in 1 .. (Len(text) + 1)
  BY <1>1
<1>3. n \in at .. (Len(text) + 1)
  BY <1>2, SkipStops DEF NumberAt
<1>4. ASSUME Parses(text, i)
      PROVE  n \in 1 .. Len(text) /\ text[n] \in Nat
  <2>1. n <= Len(text) /\ text[n] >= 0
    BY <1>4 DEF Parses, IsNumber
  <2>. HIDE DEF n, at
  <2>2. n \in 1 .. Len(text)
    BY <1>2, <1>3, <2>1
  <2>. QED  BY <2>1, <2>2
<1>5. ASSUME Parses(text, i)
      PROVE  AfterNumber(text, i) \in 1 .. (Len(text) + 1)
  <2>1. AfterNumber(text, i) = IF at = n THEN at + 1 ELSE at
    BY DEF AfterNumber
  <2>. HIDE DEF n, at
  <2>. QED  BY <1>2, <1>3, <1>4, <1>5, <2>1
<1>. QED  BY <1>1, <1>3, <1>4, <1>5

-----------------------------------------------------------------------------
(* What the operators on the struct do to it.                              *)
LEMMA StoreOK ==
  ASSUME NEW l \in Flists, NEW n \in 0 .. NFUNCS, NEW number \in Int
  PROVE  /\ Store(l, n, number) \in Flists
         /\ Store(l, n, number).number = l.number
         /\ Store(l, n, number).pindex = [l.pindex EXCEPT ![n] = number]
BY DEF Store, Flists, Cells

LEMMA EndOK ==
  ASSUME NEW l \in Flists, NEW n \in 0 .. (NFUNCS + 1)
  PROVE  /\ EndImport(l, n) \in Flists
         /\ EndImport(l, n).number = n
         /\ EndImport(l, n).pindex = l.pindex
<1>1. EndImport(l, n) = [[[l EXCEPT !.lower = 0] EXCEPT !.upper = n] EXCEPT !.number = n]
  BY DEF EndImport
<1>. DEFINE p == l.pindex
<1>2. EndImport(l, n) = [pindex |-> p, number |-> n, lower |-> 0, upper |-> n]
  BY <1>1 DEF Flists
<1>. HIDE DEF p
<1>3. p \in Cells /\ 0 \in 0 .. (NFUNCS + 1)
  BY FlistAssumption DEF Flists, p
<1>4. EndImport(l, n) \in Flists
  BY <1>2, <1>3 DEF Flists
<1>. QED  BY <1>2, <1>4 DEF p

LEMMA SwapOK ==
  ASSUME NEW l \in Flists, NEW m \in 1 .. NFUNCS, NEW x \in Picks(m)
  PROVE  /\ Swap(l, m - 1, x) \in Flists
         /\ Swap(l, m - 1, x).number = l.number
         /\ Swap(l, m - 1, x).pindex[NFUNCS] = l.pindex[NFUNCS]
<1>1. m - 1 \in 0 .. NFUNCS /\ x \in 0 .. NFUNCS /\ x # NFUNCS /\ m - 1 # NFUNCS
  BY FlistAssumption DEF Picks
<1>2. Swap(l, m - 1, x) = [l EXCEPT !.pindex = [[l.pindex EXCEPT ![m - 1] = l.pindex[x]]
                                                 EXCEPT ![x] = l.pindex[m - 1]]]
  BY DEF Swap, Flists
<1>3. [[l.pindex EXCEPT ![m - 1] = l.pindex[x]] EXCEPT ![x] = l.pindex[m - 1]] \in Cells
  BY <1>1 DEF Flists, Cells
<1>4. [[l.pindex EXCEPT ![m - 1] = l.pindex[x]] EXCEPT ![x] = l.pindex[m - 1]][NFUNCS]
        = l.pindex[NFUNCS]
  BY <1>1, FlistAssumption DEF Flists, Cells
<1>. HIDE DEF Cells
<1>. QED  BY <1>2, <1>3, <1>4 DEF Flists

LEMMA SetRangeOK ==
  ASSUME NEW l \in Flists, NEW lower \in Nat, NEW upper \in Int
  PROVE  /\ SetRange(l, lower, upper) \in Flists
         /\ SetRange(l, lower, upper).number = l.number
         /\ SetRange(l, lower, upper).pindex = l.pindex
         /\ SetOK(l, lower, upper) => /\ SetRange(l, lower, upper).lower = lower
                                      /\ SetRange(l, lower, upper).upper = upper
                                      /\ upper \in 1 .. l.number
<1>1. CASE SetOK(l, lower, upper)
  <2>1. lower \in 0 .. (NFUNCS + 1) /\ upper \in 0 .. (NFUNCS + 1) /\ upper \in 1 .. l.number
    BY <1>1, FlistAssumption DEF SetOK, Flists
  <2>2. SetRange(l, lower, upper) = [l EXCEPT !.lower = lower, !.upper = upper]
    BY <1>1 DEF SetRange
  <2>. QED  BY <2>1, <2>2 DEF Flists
<1>2. CASE ~SetOK(l, lower, upper)
  BY <1>2 DEF SetRange
<1>. QED  BY <1>1, <1>2

-----------------------------------------------------------------------------
LEMMA ListInit == Init => ListInv
<1>. SUFFICES ASSUME Init PROVE ListInv
  OBVIOUS
<1>1. fl.pindex = [x \in 0 .. NFUNCS |-> Unset] /\ fl.number = 0
  BY DEF Init
<1>2. fl \in Flists
  BY FlistAssumption DEF Init, Flists, Cells, Unset
<1>3. optJ \in Nat /\ optS \in Seq(Int) \cup {NoList}
  <2>1. \/ optJ \in Jobs /\ optS \in Lists \cup {NoList}
        \/ optJ = 1 /\ optS = NoList
    BY Zenon DEF Init
  <2>2. Jobs \subseteq Nat /\ Lists \subseteq Seq(Int)
    BY MkPaxAssumption
  <2>3. CASE optJ \in Jobs /\ optS \in Lists \cup {NoList}
    BY <2>2, <2>3
  <2>. QED  BY <2>1, <2>3
<1>4. CreateTypes
  BY <1>2, <1>3, FlistAssumption DEF Init, CreateTypes, Final
<1>5. pc \in {"init", "open"} /\ archives = <<>> /\ base = 0 /\ curr = 1 /\ count = 0
  BY DEF Init
<1>6. OverrunStops
  BY <1>1, FlistAssumption DEF OverrunStops
<1>. QED  BY <1>1, <1>4, <1>5, <1>6 DEF ListInv

(* How many cells the shard at base gets.                                  *)
LEMMA ShardSizeType ==
  ASSUME NEW number \in Nat, NEW from \in Nat, optJ \in Nat, optJ # 0
  PROVE  number \div optJ \in Nat /\ ShardSize(number, from) \in Int
<1>1. number \div optJ \in Nat
  OBVIOUS
<1>. DEFINE even == number \div optJ
<1>2. ShardSize(number, from) = IF from + even + even > number THEN number - from ELSE even
  BY DEF ShardSize
<1>. HIDE DEF even
<1>3. even \in Nat
  BY <1>1 DEF even
<1>. QED  BY <1>1, <1>2, <1>3

LEMMA ListStep ==
  ASSUME ListInv, [Next]_vars
  PROVE  ListInv'
<1>. USE FlistAssumption
<1>1. CASE InitFlist
  <2>1. CASE fl' = InitList /\ pc' = (IF optS = NoList THEN "shuffle" ELSE "import")
             /\ len' = NFUNCS
    <3>1. InitList \in Flists /\ InitList.number = NFUNCS
          /\ InitList.pindex[NFUNCS] = Unset
      BY DEF InitList, Flists, Cells, Unset
    <3>2. CreateTypes'
      BY <1>1, <2>1, <3>1 DEF InitFlist, ListInv, CreateTypes
    <3>3. curr = 1 /\ count = 0 /\ archives = <<>> /\ base = 0
          /\ optS \in Seq(Int) \cup {NoList}
      BY <1>1 DEF InitFlist, ListInv, CreateTypes
    <3>4. curr <= Len(optS) + 1 \/ optS = NoList
      BY <3>3
    <3>5. OverrunStops'
      BY <2>1, <3>1 DEF OverrunStops
    <3>. QED
      BY <1>1, <2>1, <3>1, <3>2, <3>3, <3>4, <3>5 DEF InitFlist, ListInv
  <2>2. CASE Stop("aborted") /\ UNCHANGED <<fl, len>>
    BY <1>1, <2>2 DEF InitFlist, ListInv, CreateTypes, OverrunStops, Stop, Final
  <2>. QED  BY <1>1, <2>1, <2>2 DEF InitFlist
<1>2. CASE ImportNumber
  <2>1. /\ optS \in Seq(Int) /\ curr \in 1 .. (Len(optS) + 1)
        /\ count \in 0 .. NFUNCS /\ archives = <<>> /\ base = 0
        /\ fl \in Flists /\ fl.number = NFUNCS /\ Parses(optS, curr)
    BY <1>2 DEF ImportNumber, ListInv, CreateTypes
  <2>. DEFINE number == optS[NumberAt(optS, curr)]
              stored == Store(fl, count, number)
  <2>2. number \in Int /\ AfterNumber(optS, curr) \in 1 .. (Len(optS) + 1)
    BY <2>1, NumberPlace
  <2>. HIDE DEF number
  <2>3. /\ stored \in Flists
        /\ stored.number = NFUNCS
        /\ stored.pindex = [fl.pindex EXCEPT ![count] = number]
    BY <2>1, <2>2, StoreOK
  <2>4. CASE TooMany(fl, count + 1) /\ fl' = EndImport(stored, count + 1) /\ pc' = "aborted"
    <3>1. fl' \in Flists
      <4>. HIDE DEF stored
      <4>. QED  BY <2>1, <2>3, <2>4, EndOK
    <3>2. /\ pc' = "aborted" /\ archives' = <<>> /\ count' = count + 1
          /\ curr' = AfterNumber(optS, curr)
          /\ UNCHANGED <<optJ, optS, len, base>>
      BY <1>2, <2>1, <2>4 DEF ImportNumber
    <3>3. CreateTypes'
      BY <2>1, <2>2, <3>1, <3>2 DEF ListInv, CreateTypes, Final
    <3>. QED  BY <3>2, <3>3 DEF ListInv, OverrunStops
  <2>5. CASE ~TooMany(fl, count + 1) /\ fl' = stored /\ UNCHANGED pc
    <3>1. count < NFUNCS
      BY <2>1, <2>5 DEF TooMany
    <3>2. fl'.pindex[NFUNCS] = Unset
      <4>1. fl.pindex \in [0 .. NFUNCS -> Int] /\ fl.pindex[NFUNCS] = Unset
        BY <1>2, <2>1 DEF ImportNumber, ListInv, Flists, Cells
      <4>2. fl'.pindex = [fl.pindex EXCEPT ![count] = number]
        BY <2>3, <2>5
      <4>. QED  BY <2>1, <3>1, <4>1, <4>2
    <3>3. /\ pc' = "import" /\ archives' = <<>> /\ count' = count + 1
          /\ curr' = AfterNumber(optS, curr)
          /\ UNCHANGED <<optJ, optS, len, base>>
      BY <1>2, <2>1, <2>5 DEF ImportNumber
    <3>4. optS # NoList
      BY <1>2 DEF ImportNumber, ListInv
    <3>5. fl' \in Flists /\ fl'.number = NFUNCS
      BY <2>3, <2>5
    <3>6. CreateTypes'
      BY <2>1, <2>2, <3>3, <3>5 DEF ListInv, CreateTypes, Final
    <3>. QED  BY <2>1, <2>2, <3>1, <3>2, <3>3, <3>4, <3>5, <3>6 DEF ListInv, OverrunStops
  <2>6. \/ TooMany(fl, count + 1) /\ fl' = EndImport(stored, count + 1) /\ pc' = "aborted"
        \/ ~TooMany(fl, count + 1) /\ fl' = stored /\ UNCHANGED pc
    BY <1>2 DEF ImportNumber, Stop, number
  <2>. QED  BY <2>4, <2>5, <2>6
<1>3. CASE ImportEnd
  <2>1. /\ fl \in Flists /\ count \in 0 .. NFUNCS /\ archives = <<>> /\ base = 0
        /\ fl.pindex[NFUNCS] = Unset
    BY <1>3 DEF ImportEnd, ListInv, CreateTypes
  <2>2. fl' \in Flists /\ fl'.number = count /\ fl'.pindex = fl.pindex
    BY <1>3, <2>1, EndOK DEF ImportEnd
  <2>3. pc' \in {"aborted", "shuffle"} /\ len' = count
        /\ UNCHANGED <<optJ, optS, curr, count, base, archives>>
    BY <1>3 DEF ImportEnd, Stop
  <2>4. CreateTypes'
    BY <2>1, <2>2, <2>3 DEF ListInv, CreateTypes, Final
  <2>. QED  BY <2>1, <2>2, <2>3, <2>4 DEF ListInv, OverrunStops
<1>4. CASE ShuffleStep
  <2>1. /\ pc = "shuffle" /\ fl \in Flists /\ len \in 1 .. NFUNCS /\ len - 1 \in 0 .. NFUNCS
        /\ len <= fl.number /\ fl.number \in 0 .. NFUNCS /\ fl.pindex[NFUNCS] = Unset
    BY <1>4 DEF ShuffleStep, ListInv, CreateTypes, Flists
  <2>2. PICK x \in Picks(len) : fl' = Swap(fl, len - 1, x)
    BY <1>4 DEF ShuffleStep
  <2>3. fl' \in Flists /\ fl'.number = fl.number /\ fl'.pindex[NFUNCS] = Unset
    BY <2>1, <2>2, SwapOK
  <2>4. len' = len - 1 /\ UNCHANGED <<pc, optJ, optS, curr, count, base, archives>>
    BY <1>4 DEF ShuffleStep
  <2>5. len' <= fl'.number
    BY <2>1, <2>3, <2>4
  <2>6. CreateTypes'
    BY <2>1, <2>3, <2>4 DEF ListInv, CreateTypes
  <2>. QED  BY <2>1, <2>3, <2>4, <2>5, <2>6 DEF ListInv, OverrunStops
<1>5. CASE ShuffleEnd
  BY <1>5 DEF ShuffleEnd, ListInv, CreateTypes, OverrunStops
<1>6. CASE Shard
  <2>. DEFINE upper == base + ShardSize(fl.number, base)
  <2>1. /\ fl \in Flists /\ fl.number \in 0 .. NFUNCS /\ fl.number \in Nat /\ base \in Nat
        /\ fl.pindex[NFUNCS] = Unset /\ archives \in Seq(Archive)
        /\ optJ \in Nat /\ optJ # 0
    BY <1>6 DEF Shard, ListInv, CreateTypes, Flists
  <2>2. ShardSize(fl.number, base) \in Int
    BY <2>1, ShardSizeType
  <2>3. upper \in Int
    BY <2>1, <2>2
  <2>4. /\ fl' = SetRange(fl, base, upper)
        /\ IF SetOK(fl, base, upper) THEN WriteArchive(fl')
                                     ELSE Stop("refused") /\ UNCHANGED <<archives, base>>
        /\ UNCHANGED <<optJ, optS, curr, count, len>>
    BY <1>6 DEF Shard
  <2>. HIDE DEF upper
  <2>5. /\ fl' \in Flists /\ fl'.number = fl.number /\ fl'.pindex[NFUNCS] = Unset
        /\ SetOK(fl, base, upper) => fl'.lower = base /\ fl'.upper = upper
                                     /\ upper \in 1 .. fl.number
    <3>0. fl \in Flists /\ base \in Nat /\ upper \in Int
      BY <2>1, <2>3
    <3>1. SetRange(fl, base, upper) \in Flists
      BY <3>0, SetRangeOK
    <3>2. SetRange(fl, base, upper).number = fl.number
      BY <3>0, SetRangeOK
    <3>3. SetRange(fl, base, upper).pindex = fl.pindex
      BY <3>0, SetRangeOK
    <3>4. ASSUME SetOK(fl, base, upper)
          PROVE  /\ SetRange(fl, base, upper).lower = base
                 /\ SetRange(fl, base, upper).upper = upper
                 /\ upper \in 1 .. fl.number
      BY <3>0, <3>4, SetRangeOK
    <3>. QED  BY <2>1, <2>4, <3>1, <3>2, <3>3, <3>4
  <2>6. CASE SetOK(fl, base, upper) /\ WriteArchive(fl')
    <3>1. PICK drawn \in SUBSET (0 .. (NFUNCS - 1)), ended \in BOOLEAN :
            /\ archives' = Append(archives, [lower |-> fl'.lower, upper |-> fl'.upper,
                                             ended |-> ended, ops |-> drawn])
            /\ \/ base' = fl'.upper /\ pc' = pc
               \/ base' = base /\ pc' \in {"errx", "aborted"}
      BY <2>6 DEF WriteArchive, Stop
    <3>2. base' \in 0 .. NFUNCS /\ fl'.lower \in Nat /\ fl'.upper \in Nat
      BY <1>6, <2>1, <2>5, <2>6, <3>1 DEF ListInv, CreateTypes
    <3>3. archives' \in Seq(Archive)
      BY <2>1, <3>1, <3>2 DEF Archive
    <3>4. pc' \in {"shard", "errx", "aborted"}
      BY <1>6, <3>1 DEF Shard
    <3>5. CreateTypes'
      BY <2>4, <2>5, <3>2, <3>3, <3>4 DEF ListInv, CreateTypes, Final
    <3>. QED  BY <2>1, <2>5, <3>4, <3>5 DEF ListInv, OverrunStops
  <2>7. CASE pc' = "refused" /\ UNCHANGED <<archives, base>>
    <3>1. CreateTypes'
      BY <2>4, <2>5, <2>7 DEF ListInv, CreateTypes, Final
    <3>. QED  BY <2>5, <2>7, <3>1 DEF ListInv, OverrunStops
  <2>. QED  BY <2>4, <2>6, <2>7 DEF Stop
<1>7. CASE ShardByZero
  BY <1>7 DEF ShardByZero, Stop, ListInv, CreateTypes, OverrunStops, Final
<1>8. CASE ShardEnd
  BY <1>8 DEF ShardEnd, Stop, ListInv, CreateTypes, OverrunStops, Final
<1>9. CASE OpenArchive
  BY <1>9 DEF OpenArchive, create, Stop, ListInv, CreateTypes, OverrunStops, Final
<1>10. CASE ReadEntry
  <2>1. pc = "header" /\ pc' \in {"header", "errx"} /\ UNCHANGED create
    BY <1>10 DEF ReadEntry, Stop
  <2>. QED  BY <2>1 DEF create, ListInv, CreateTypes, OverrunStops, Final
<1>11. CASE CloseArchive
  BY <1>11 DEF CloseArchive, create, Stop, ListInv, CreateTypes, OverrunStops, Final
<1>12. CASE UNCHANGED vars
  BY <1>12 DEF vars, create, ListInv, CreateTypes, OverrunStops
<1>. QED
  BY <1>1, <1>2, <1>3, <1>4, <1>5, <1>6, <1>7, <1>8, <1>9, <1>10, <1>11, <1>12
     DEF Next, Ended

(* main() does at each step what the next one relies on.                   *)
THEOREM ListInvariance == Spec => []ListInv
<1>. QED  BY ListInit, ListStep, PTL DEF Spec

(* A list that is too long is never used: at most the one cell behind the  *)
(* array is written, and then mkpax has stopped.                           *)
THEOREM OverrunNeverUsed == Spec => []OverrunStops
<1>1. ListInv => OverrunStops
  BY DEF ListInv
<1>. QED  BY <1>1, ListInvariance, PTL

-----------------------------------------------------------------------------
(* The places of the elements of a finite set of numbers.                  *)
LEMMA PlaceBelow ==
  ASSUME NEW n \in Nat, NEW S \in SUBSET (1 .. n), NEW i \in Nat
  PROVE  /\ Cardinality(S) \in Nat
         /\ Cardinality({j \in S : j < i}) \in 0 .. Cardinality(S)
         /\ i \in S => Place(S, i) = Cardinality({j \in S : j < i}) + 1
         /\ \A j \in S : j < i => Place(S, j) \in 1 .. Cardinality({k \in S : k < i})
<1>. DEFINE B == {j \in S : j < i}
<1>0. \A j \in S : j \in Nat
  OBVIOUS
<1>1. IsFiniteSet(S) /\ Cardinality(S) \in Nat
  <2>1. IsFiniteSet(1 .. n)
    BY FS_Interval
  <2>. QED  BY <2>1, FS_Subset, FS_CardinalityType
<1>2. IsFiniteSet(B) /\ Cardinality(B) \in 0 .. Cardinality(S)
  <2>1. B \in SUBSET S
    OBVIOUS
  <2>. HIDE DEF B
  <2>2. IsFiniteSet(B) /\ Cardinality(B) <= Cardinality(S) /\ Cardinality(B) \in Nat
    BY <1>1, <2>1, FS_Subset, FS_CardinalityType
  <2>. QED  BY <1>1, <2>2
<1>3. ASSUME i \in S PROVE Place(S, i) = Cardinality(B) + 1
  <2>1. {j \in S : j <= i} = B \cup {i} /\ i \notin B
    <3>1. \A j \in S : j <= i <=> j < i \/ j = i
      BY <1>0
    <3>2. ~(i < i)
      OBVIOUS
    <3>. QED  BY <1>3, <3>1, <3>2
  <2>. HIDE DEF B
  <2>. QED  BY <1>2, <2>1, FS_AddElement DEF Place
<1>4. ASSUME NEW j \in S, j < i PROVE Place(S, j) \in 1 .. Cardinality(B)
  <2>. DEFINE P == {k \in S : k <= j}
  <2>1. P \in SUBSET B /\ P # {}
    <3>1. j \in P
      BY <1>0
    <3>2. \A k \in P : k \in B
      BY <1>0, <1>4
    <3>. QED  BY <3>1, <3>2
  <2>2. Place(S, j) = Cardinality(P)
    BY DEF Place
  <2>. HIDE DEF B, P
  <2>3. IsFiniteSet(P) /\ Cardinality(P) <= Cardinality(B) /\ Cardinality(P) \in Nat
    BY <1>2, <2>1, FS_Subset, FS_CardinalityType
  <2>4. Cardinality(P) # 0
    BY <2>1, <2>3, FS_EmptySet
  <2>. QED  BY <1>2, <2>2, <2>3, <2>4
<1>. QED  BY <1>1, <1>2, <1>3, <1>4

(* The next element from i on is the next in place.                        *)
LEMMA PlaceNext ==
  ASSUME NEW n \in Nat, NEW S \in SUBSET (1 .. n), NEW i \in Nat, NEW at \in S,
         i <= at, \A j \in i .. (at - 1) : j \notin S
  PROVE  Place(S, at) = Cardinality({j \in S : j < i}) + 1
         /\ Cardinality({j \in S : j < at + 1}) = Cardinality({j \in S : j < i}) + 1
<1>1. at \in Nat /\ \A j \in S : j \in Nat
  OBVIOUS
<1>2. {j \in S : j < at} = {j \in S : j < i}
  <2>1. \A j \in S : j < at => j < i
    BY <1>1
  <2>2. \A j \in S : j < i => j < at
    BY <1>1
  <2>. QED  BY <2>1, <2>2
<1>3. {j \in S : j < at + 1} = {j \in S : j <= at}
  <2>1. \A j \in S : j < at + 1 <=> j <= at
    BY <1>1
  <2>. QED  BY <2>1
<1>4. Place(S, at) = Cardinality({j \in S : j < at}) + 1
  BY <1>1, PlaceBelow
<1>. QED  BY <1>2, <1>3, <1>4 DEF Place

-----------------------------------------------------------------------------
(* strspn() goes to the first token that is no separator; a number there   *)
(* is the next number.                                                     *)
LEMMA TokenPlace ==
  ASSUME NEW text \in Seq(Int), NEW i \in 1 .. (Len(text) + 1)
  PROVE  /\ \A j \in i .. (TokenAt(text, i) - 1) : text[j] \in Separators
         /\ TokenAt(text, i) <= Len(text) => text[TokenAt(text, i)] \notin Separators
         /\ TokenAt(text, i) <= Len(text) /\ IsNumber(text[TokenAt(text, i)]) =>
              NumberAt(text, i) = TokenAt(text, i) /\ Parses(text, i)
<1>. DEFINE at == TokenAt(text, i)
<1>1. /\ \A j \in i .. (at - 1) : text[j] \in Separators
      /\ at <= Len(text) => text[at] \notin Separators
  BY SkipStops DEF TokenAt
<1>2. at \in 1 .. (Len(text) + 1) /\ NumberAt(text, i) \in at .. (Len(text) + 1)
  <2>1. at \in i .. (Len(text) + 1) /\ NumberAt(text, i) \in at .. (Len(text) + 1)
    BY NumberPlace
  <2>. HIDE DEF at
  <2>. QED  BY <2>1
<1>3. \A j \in at .. (NumberAt(text, i) - 1) : text[j] \in {Blank, Newline}
  BY <1>2, SkipStops DEF NumberAt
<1>4. ASSUME at <= Len(text), IsNumber(text[at])
      PROVE  NumberAt(text, i) = at
  <2>1. text[at] \notin {Blank, Newline}
    BY <1>4 DEF IsNumber, Blank, Newline
  <2>. HIDE DEF at
  <2>2. NumberAt(text, i) \in Int /\ at \in Int /\ at <= NumberAt(text, i)
    BY <1>2
  <2>3. at < NumberAt(text, i) => at \in at .. (NumberAt(text, i) - 1)
    BY <2>2
  <2>. QED  BY <1>3, <2>1, <2>2, <2>3
<1>5. ASSUME at <= Len(text), IsNumber(text[at])
      PROVE  Parses(text, i)
  BY <1>4, <1>5 DEF Parses
<1>. QED  BY <1>1, <1>4, <1>5

(* White space that only strtoul() skips: the parser goes to it, and from  *)
(* there to the same number again.                                         *)
Stuck(text, i) == Parses(text, i) /\ TokenAt(text, i) # NumberAt(text, i)

LEMMA StuckStays ==
  ASSUME NEW text \in Seq(Int), NEW i \in 1 .. (Len(text) + 1), Stuck(text, i)
  PROVE  Stuck(text, AfterNumber(text, i))
<1>. DEFINE at == TokenAt(text, i)
<1>1. AfterNumber(text, i) = at
  BY DEF AfterNumber, Stuck
<1>2. at \in 1 .. Len(text)
  <2>1. at \in i .. (Len(text) + 1) /\ NumberAt(text, i) \in at .. (Len(text) + 1)
        /\ NumberAt(text, i) \in 1 .. Len(text)
    BY NumberPlace DEF Stuck
  <2>. HIDE DEF at
  <2>. QED  BY <2>1
<1>3. text[at] \notin Separators
  BY <1>2, TokenPlace
<1>4. TokenAt(text, at) = at
  <2>1. at \in 1 .. (Len(text) + 1)
    BY <1>2
  <2>. HIDE DEF at
  <2>2. TokenAt(text, at) \in at .. (Len(text) + 1)
    BY <2>1, NumberPlace
  <2>3. \A j \in at .. (TokenAt(text, at) - 1) : text[j] \in Separators
    BY <2>1, TokenPlace
  <2>4. at < TokenAt(text, at) => at \in at .. (TokenAt(text, at) - 1)
    BY <2>1, <2>2
  <2>. QED  BY <1>3, <2>1, <2>2, <2>3, <2>4
<1>5. NumberAt(text, at) = NumberAt(text, i)
  BY <1>4 DEF NumberAt
<1>. QED  BY <1>1, <1>4, <1>5 DEF Stuck, Parses

-----------------------------------------------------------------------------
(* The numbers up to curr have been stored in order, or import is stuck    *)
(* and will give up when the array is full.                                *)
Before(i) == {j \in Given : j < i}

Stored ==
  /\ count = Cardinality(Before(curr))
  /\ \A i \in Before(curr) : fl.pindex[Place(Given, i) - 1] = optS[i]

ImportInv ==
  /\ pc = "import" => Stuck(optS, curr) \/ Stored
  /\ ImportFaithful

LEMMA GivenFinite ==
  ASSUME optS \in Seq(Int)
  PROVE  Len(optS) \in Nat /\ Given \in SUBSET (1 .. Len(optS))
BY DEF Given

(* A number that is stored next to those before it.                        *)
LEMMA StoreNext ==
  ASSUME ListInv, ImportNumber, Stored, ~Stuck(optS, curr), ~TooMany(fl, count + 1)
  PROVE  Stored'
<1>. DEFINE at == TokenAt(optS, curr)
<1>1. /\ optS \in Seq(Int) /\ curr \in 1 .. (Len(optS) + 1) /\ curr \in Nat
      /\ count \in 0 .. NFUNCS /\ fl \in Flists /\ Parses(optS, curr)
  BY DEF ImportNumber, ListInv, CreateTypes
<1>2. /\ NumberAt(optS, curr) = at /\ at \in 1 .. Len(optS) /\ curr <= at
      /\ AfterNumber(optS, curr) = at + 1 /\ optS[at] \in Nat
      /\ \A j \in curr .. (at - 1) : optS[j] \in Separators
  <2>1. NumberAt(optS, curr) = at
    BY <1>1 DEF Stuck
  <2>2. at \in curr .. (Len(optS) + 1) /\ at \in 1 .. Len(optS) /\ optS[at] \in Nat
    BY <1>1, <2>1, NumberPlace
  <2>3. \A j \in curr .. (at - 1) : optS[j] \in Separators
    BY <1>1, TokenPlace
  <2>4. AfterNumber(optS, curr) = at + 1
    BY <2>1 DEF AfterNumber
  <2>. HIDE DEF at
  <2>. QED  BY <1>1, <2>1, <2>2, <2>3, <2>4
<1>3. /\ fl'.pindex = [fl.pindex EXCEPT ![count] = optS[at]]
      /\ fl.pindex \in [0 .. NFUNCS -> Int]
      /\ count' = count + 1 /\ curr' = at + 1 /\ optS' = optS
  <2>1. fl' = Store(fl, count, optS[at]) /\ optS[at] \in Int
    BY <1>2 DEF ImportNumber
  <2>2. fl'.pindex = [fl.pindex EXCEPT ![count] = optS[at]]
    <3>. HIDE DEF at
    <3>. QED  BY <1>1, <2>1, StoreOK
  <2>. QED  BY <1>1, <1>2, <2>2 DEF ImportNumber, Flists, Cells
<1>. HIDE DEF at
<1>4. at \in Given /\ \A j \in curr .. (at - 1) : j \notin Given
  BY <1>2 DEF Given, IsNumber, Separators, Blank, Punct
<1>5. /\ Place(Given, at) = count + 1
      /\ Cardinality({j \in Given : j < at + 1}) = count + 1
  BY <1>1, <1>2, <1>4, GivenFinite, PlaceNext DEF Stored, Before
<1>6. count' = Cardinality(Before(curr)')
  BY <1>3, <1>5 DEF Before, Given
<1>7. ASSUME NEW i \in Before(curr)'
      PROVE  fl'.pindex[Place(Given, i)' - 1] = optS'[i]
  <2>1. Place(Given, i)' = Place(Given, i) /\ i \in Given /\ i < at + 1 /\ i \in Nat
    BY <1>3 DEF Before, Given, Place
  <2>2. CASE i < curr
    <3>1. i \in Before(curr)
      BY <2>1, <2>2 DEF Before
    <3>2. Place(Given, i) \in 1 .. count
      BY <1>1, <3>1, GivenFinite, PlaceBelow DEF Stored, Before
    <3>3. Place(Given, i) - 1 \in 0 .. NFUNCS /\ Place(Given, i) - 1 # count
      BY <1>1, <3>2, FlistAssumption
    <3>. QED  BY <1>1, <1>3, <2>1, <3>1, <3>3 DEF Stored
  <2>3. CASE i >= curr
    <3>1. i = at
      BY <1>1, <1>2, <1>4, <2>1, <2>3
    <3>2. Place(Given, i) - 1 = count
      BY <1>1, <1>5, <3>1
    <3>. QED  BY <1>1, <1>3, <2>1, <3>1, <3>2
  <2>. QED  BY <1>1, <2>1, <2>2, <2>3
<1>. QED  BY <1>6, <1>7 DEF Stored

(* What has been stored when import reaches the end of the text.           *)
LEMMA StoredAtEnd ==
  ASSUME ListInv, ImportEnd, Stored
  PROVE  /\ count <= Cardinality(Given)
         /\ \A i \in Given : Place(Given, i) <= count =>
              /\ Place(Given, i) \in 1 .. count
              /\ fl.pindex[Place(Given, i) - 1] = optS[i]
         /\ Plain => count = Cardinality(Given)
<1>1. /\ optS \in Seq(Int) /\ curr \in 1 .. (Len(optS) + 1) /\ curr \in Nat
      /\ Len(optS) \in Nat /\ Given \in SUBSET (1 .. Len(optS))
      /\ curr > Len(optS) \/ ~Parses(optS, curr)
  BY GivenFinite DEF ImportEnd, ListInv, CreateTypes
<1>2. /\ count = Cardinality({j \in Given : j < curr})
      /\ Cardinality(Given) \in Nat /\ count \in 0 .. Cardinality(Given)
  BY <1>1, PlaceBelow DEF Stored, Before
<1>3. ASSUME NEW i \in Given, Place(Given, i) <= count
      PROVE  /\ Place(Given, i) \in 1 .. count
             /\ fl.pindex[Place(Given, i) - 1] = optS[i]
  <2>1. i \in Nat
    BY <1>1
  <2>2. CASE i < curr
    <3>1. i \in Before(curr)
      BY <2>2 DEF Before
    <3>2. Place(Given, i) \in 1 .. count
      BY <1>1, <1>2, <2>2, PlaceBelow
    <3>. QED  BY <3>1, <3>2 DEF Stored
  <2>3. CASE curr <= i
    <3>. DEFINE B == {j \in Given : j < i}
                C == {j \in Given : j < curr}
    <3>1. Place(Given, i) = Cardinality(B) + 1 /\ Cardinality(B) \in Nat
      BY <1>1, <2>1, PlaceBelow
    <3>2. C \in SUBSET B
      <4>1. \A j \in Given : j \in Nat
        BY <1>1
      <4>2. \A j \in Given : j < curr => j < i
        BY <1>1, <2>1, <2>3, <4>1
      <4>. QED  BY <4>2
    <3>3. IsFiniteSet(B)
      <4>1. IsFiniteSet(1 .. Len(optS))
        BY <1>1, FS_Interval
      <4>2. B \in SUBSET (1 .. Len(optS))
        BY <1>1
      <4>. HIDE DEF B
      <4>. QED  BY <4>1, <4>2, FS_Subset
    <3>. HIDE DEF B
    <3>4. Cardinality(C) <= Cardinality(B)
      <4>. HIDE DEF C
      <4>. QED  BY <3>2, <3>3, FS_Subset
    <3>. QED  BY <1>2, <1>3, <3>1, <3>4
  <2>. QED  BY <1>1, <2>1, <2>2, <2>3
<1>4. ASSUME Plain PROVE count = Cardinality(Given)
  <2>. DEFINE at == TokenAt(optS, curr)
  <2>1. /\ at \in curr .. (Len(optS) + 1)
        /\ \A j \in curr .. (at - 1) : optS[j] \in Separators
        /\ at <= Len(optS) => optS[at] \notin Separators
        /\ at <= Len(optS) /\ IsNumber(optS[at]) => Parses(optS, curr)
    BY <1>1, NumberPlace, TokenPlace
  <2>2. at > Len(optS)
    <3>1. at <= Len(optS) => at \in 1 .. Len(optS)
      <4>. HIDE DEF at
      <4>. QED  BY <1>1, <2>1
    <3>2. at <= Len(optS) => IsNumber(optS[at])
      BY <1>4, <2>1, <3>1 DEF Plain, Separators
    <3>3. at <= Len(optS) => curr <= Len(optS)
      <4>. HIDE DEF at
      <4>. QED  BY <1>1, <2>1
    <3>. HIDE DEF at
    <3>. QED  BY <1>1, <2>1, <3>2, <3>3
  <2>. HIDE DEF at
  <2>3. \A j \in curr .. Len(optS) : j \notin Given
    <3>1. \A j \in curr .. Len(optS) : optS[j] \in Separators
      BY <1>1, <2>1, <2>2
    <3>. QED  BY <3>1 DEF Given, IsNumber, Separators, Blank, Punct
  <2>4. Given = {j \in Given : j < curr}
    <3>1. \A j \in Given : j < curr
      BY <1>1, <2>3
    <3>. QED  BY <3>1
  <2>. QED  BY <1>2, <2>4
<1>. QED  BY <1>2, <1>3, <1>4

LEMMA ImportStep ==
  ASSUME ListInv, ListInv', ImportInv, [Next]_vars
  PROVE  ImportInv'
<1>1. CASE InitFlist
  <2>1. CASE fl' = InitList /\ pc' = (IF optS = NoList THEN "shuffle" ELSE "import")
    <3>1. optS' = optS /\ curr = 1 /\ count = 0 /\ UNCHANGED <<curr, count>>
      BY <1>1 DEF InitFlist, ListInv
    <3>2. CASE optS = NoList
      <4>1. Listed' = WholePool
        BY <2>1, FlistAssumption DEF InitList, Listed, WholePool
      <4>. QED  BY <2>1, <3>1, <3>2, <4>1 DEF ImportInv, ImportFaithful
    <3>3. CASE optS # NoList
      <4>1. optS \in Seq(Int)
        BY <3>3 DEF ListInv, CreateTypes
      <4>2. Before(1) = {}
        BY <4>1, GivenFinite DEF Before
      <4>3. Before(curr)' = {} /\ count' = 0
        BY <3>1, <4>2 DEF Before, Given
      <4>4. Stored'
        BY <4>3, FS_EmptySet DEF Stored
      <4>. QED  BY <2>1, <3>3, <4>4 DEF ImportInv, ImportFaithful, Built
    <3>. QED  BY <3>2, <3>3
  <2>2. CASE pc' = "aborted"
    BY <2>2 DEF ImportInv, ImportFaithful, Built
  <2>. QED  BY <1>1, <2>1, <2>2 DEF InitFlist, Stop
<1>2. CASE ImportNumber
  <2>1. /\ optS \in Seq(Int) /\ curr \in 1 .. (Len(optS) + 1)
        /\ Stuck(optS, curr) \/ Stored
        /\ curr' = AfterNumber(optS, curr) /\ optS' = optS
        /\ pc' \in {"import", "aborted"}
        /\ TooMany(fl, count + 1) => pc' = "aborted"
    BY <1>2 DEF ImportNumber, ListInv, CreateTypes, ImportInv, Stop
  <2>2. CASE pc' = "aborted"
    BY <2>2 DEF ImportInv, ImportFaithful, Built
  <2>3. CASE pc' = "import" /\ Stuck(optS, curr)
    <3>1. Stuck(optS, curr')
      BY <2>1, <2>3, StuckStays
    <3>2. Stuck(optS, curr)'
      BY <2>1, <3>1
    <3>. QED  BY <2>3, <3>2 DEF ImportInv, ImportFaithful, Built
  <2>4. CASE pc' = "import" /\ ~Stuck(optS, curr)
    <3>1. Stored'
      BY <1>2, <2>1, <2>4, StoreNext
    <3>. QED  BY <2>4, <3>1 DEF ImportInv, ImportFaithful, Built
  <2>. QED  BY <2>1, <2>2, <2>3, <2>4
<1>3. CASE ImportEnd
  <2>1. CASE pc' = "aborted"
    BY <2>1 DEF ImportInv, ImportFaithful, Built
  <2>2. CASE pc' = "shuffle"
    <3>1. /\ optS \in Seq(Int) /\ optS # NoList /\ curr \in 1 .. (Len(optS) + 1)
          /\ Stuck(optS, curr) \/ Stored
          /\ curr > Len(optS) \/ ~Parses(optS, curr)
          /\ optS' = optS /\ fl' = EndImport(fl, count)
          /\ fl \in Flists /\ count \in 0 .. (NFUNCS + 1)
      BY <1>3 DEF ImportEnd, ListInv, CreateTypes, ImportInv
    <3>2. ~Stuck(optS, curr)
      <4>1. NumberAt(optS, curr) >= curr
        <5>. DEFINE at == TokenAt(optS, curr)
                    n  == NumberAt(optS, curr)
        <5>1. at \in curr .. (Len(optS) + 1) /\ n \in at .. (Len(optS) + 1)
          BY <3>1, NumberPlace
        <5>. HIDE DEF at, n
        <5>2. n >= curr
          BY <3>1, <5>1
        <5>. QED  BY <5>2 DEF n
      <4>2. Stuck(optS, curr) => NumberAt(optS, curr) \in 1 .. Len(optS)
        BY <3>1, NumberPlace DEF Stuck
      <4>. QED  BY <3>1, <4>1, <4>2 DEF Stuck
    <3>3. /\ count <= Cardinality(Given)
          /\ \A i \in Given : Place(Given, i) <= count =>
               /\ Place(Given, i) \in 1 .. count
               /\ fl.pindex[Place(Given, i) - 1] = optS[i]
          /\ Plain => count = Cardinality(Given)
      BY <1>3, <3>1, <3>2, StoredAtEnd
    <3>4. fl'.number = count /\ fl'.pindex = fl.pindex
      BY <3>1, EndOK
    <3>5. ASSUME NEW i \in Given, Place(Given, i) <= count
          PROVE  Listed'[Place(Given, i)] = optS[i]
      <4>. DEFINE k == Place(Given, i)
      <4>1. k \in 1 .. count /\ fl.pindex[k - 1] = optS[i]
        BY <3>3, <3>5
      <4>. HIDE DEF k
      <4>2. Listed' = [j \in 1 .. count |-> fl.pindex[j - 1]]
        BY <3>4 DEF Listed
      <4>3. Listed'[k] = optS[i]
        BY <4>1, <4>2
      <4>. QED  BY <4>3 DEF k
    <3>6. Given' = Given /\ Plain' = Plain
      BY <3>1 DEF Given, Plain
    <3>7. \A i : Place(Given, i)' = Place(Given, i)
      BY <3>6 DEF Place
    <3>. QED  BY <2>2, <3>1, <3>3, <3>4, <3>5, <3>6, <3>7 DEF ImportInv, ImportFaithful
  <2>. QED  BY <1>3, <2>1, <2>2 DEF ImportEnd, Stop
<1>4. CASE ShuffleStep
  <2>1. /\ len \in Nat /\ len <= fl.number /\ fl.number \in Nat
        /\ pc' = "shuffle" /\ len' = len - 1
    BY <1>4, FlistAssumption DEF ShuffleStep, ListInv, CreateTypes, Flists
  <2>2. fl'.number = fl.number
    <3>1. len \in 1 .. NFUNCS /\ fl \in Flists
      BY <1>4 DEF ShuffleStep, ListInv, CreateTypes
    <3>. QED  BY <1>4, <3>1, SwapOK DEF ShuffleStep
  <2>3. ~Built'
    BY <2>1, <2>2 DEF Built
  <2>. QED  BY <2>1, <2>3 DEF ImportInv, ImportFaithful
<1>5. CASE pc' \notin {"import", "shuffle"}
  BY <1>5 DEF ImportInv, ImportFaithful, Built
<1>6. CASE UNCHANGED vars
  <2>1. UNCHANGED <<pc, optS, curr, count, fl, len>>
    BY <1>6 DEF vars, create
  <2>2. Given' = Given /\ Plain' = Plain /\ Listed' = Listed /\ WholePool' = WholePool
        /\ Built' = Built /\ Stuck(optS, curr)' = Stuck(optS, curr) /\ Stored' = Stored
    BY <2>1 DEF Given, Plain, Listed, WholePool, Built, Stuck, Stored, Before, Place
  <2>3. \A i : Place(Given, i)' = Place(Given, i)
    BY <2>2 DEF Place
  <2>. QED  BY <2>1, <2>2, <2>3 DEF ImportInv, ImportFaithful
<1>7. CASE ShuffleEnd
  BY <1>5, <1>7 DEF ShuffleEnd
<1>8. CASE Shard
  BY <1>5, <1>8 DEF Shard, WriteArchive, Stop
<1>9. CASE ShardByZero \/ ShardEnd
  BY <1>5, <1>9 DEF ShardByZero, ShardEnd, Stop
<1>10. CASE OpenArchive \/ CloseArchive
  BY <1>5, <1>10 DEF OpenArchive, CloseArchive, Stop
<1>11. CASE ReadEntry
  BY <1>5, <1>11 DEF ReadEntry, Stop
<1>. QED
  BY <1>1, <1>2, <1>3, <1>4, <1>6, <1>7, <1>8, <1>9, <1>10, <1>11 DEF Next, Ended

(* A list that import accepts is what the text says, in its order and      *)
(* without repeating or inventing a number; it is complete when the text   *)
(* separates its numbers the way the parser expects.                       *)
THEOREM ImportedAsAsked == Spec => []ImportFaithful
<1>1. Init => ImportInv
  BY DEF Init, ImportInv, ImportFaithful, Built
<1>2. ListInv /\ ListInv' /\ ImportInv /\ [Next]_vars => ImportInv'
  BY ImportStep
<1>3. ImportInv => ImportFaithful
  BY DEF ImportInv
<1>. QED  BY <1>1, <1>2, <1>3, ListInvariance, PTL DEF Spec

-----------------------------------------------------------------------------
(* The archives begun so far: their shards follow each other, each has its *)
(* share, and what was drawn for it comes from its cells.  As long as none *)
(* is cut short base is where the last one ends.                           *)
Even          == fl.number \div optJ
Share(a)      == a.upper - a.lower
CellsOf(l, a) == {l.pindex[x] : x \in a.lower .. (a.upper - 1)}
Top           == IF archives = <<>> THEN 0 ELSE archives[Len(archives)].upper

ShardInv ==
  /\ \A i \in 1 .. Len(archives) :
       /\ archives[i].lower = IF i = 1 THEN 0 ELSE archives[i - 1].upper
       /\ archives[i].lower < archives[i].upper
       /\ archives[i].upper <= Top
       /\ Even <= Share(archives[i]) /\ Share(archives[i]) < 2 * Even
       /\ archives[i].ops \subseteq CellsOf(fl, archives[i])
       /\ \A j \in 1 .. (i - 1) : archives[j].upper <= archives[i].lower
       /\ ~archives[i].ended => i = Len(archives) /\ pc \in {"errx", "aborted"}
  /\ archives # <<>> =>
       /\ optJ # 0
       /\ Even # 0
       /\ base = IF archives[Len(archives)].ended THEN Top
                 ELSE archives[Len(archives)].lower
  /\ archives = <<>> => base = 0
  /\ Top <= fl.number
  /\ pc = "shard" /\ optJ # 0 => base = fl.number \/ base + Even <= fl.number
  /\ pc = "done" => base = fl.number
  /\ pc \in {"refused", "divide"} => archives = <<>>

LEMMA NoneCutYet ==
  ASSUME ListInv, ShardInv, pc = "shard"
  PROVE  base = Top /\ \A i \in 1 .. Len(archives) : archives[i].ended
<1>1. \A i \in 1 .. Len(archives) : archives[i].ended
  BY DEF ShardInv
<1>2. archives # <<>> => Len(archives) \in 1 .. Len(archives)
  BY DEF ListInv, CreateTypes
<1>. QED  BY <1>1, <1>2 DEF ShardInv, Top

(* The next shard: within the list, and if it is empty then so is an even  *)
(* share.                                                                  *)
LEMMA NextShard ==
  ASSUME NEW number \in Nat, NEW j \in Nat \ {0}, NEW from \in Nat, from < number,
         optJ = j, from + (number \div j) <= number
  PROVE  LET even == number \div j
             size == ShardSize(number, from)
         IN  /\ size \in Nat /\ even \in Nat
             /\ from + size <= number
             /\ even <= size
             /\ even # 0 => size < 2 * even
             /\ size = 0 <=> even = 0
             /\ from + size = number \/ from + size + even <= number
<1>. DEFINE even == number \div j
            size == ShardSize(number, from)
<1>1. even \in Nat
  OBVIOUS
<1>2. size = IF from + even + even > number THEN number - from ELSE even
  BY DEF ShardSize
<1>3. from + even <= number
  OBVIOUS
<1>. HIDE DEF even, size
<1>4. /\ size \in Nat
      /\ from + size <= number
      /\ even <= size
      /\ even # 0 => size < 2 * even
      /\ size = 0 <=> even = 0
      /\ from + size = number \/ from + size + even <= number
  <2>1. CASE from + even + even > number
    BY <1>1, <1>2, <1>3, <2>1
  <2>2. CASE ~(from + even + even > number)
    BY <1>1, <1>2, <1>3, <2>2
  <2>. QED  BY <2>1, <2>2
<1>. QED  BY <1>1, <1>4 DEF even, size

LEMMA EvenFits ==
  ASSUME NEW n \in Nat, NEW j \in Nat \ {0}
  PROVE  n \div j \in Nat /\ n \div j <= n
OBVIOUS

(* One archive more.                                                       *)
LEMMA ArchiveAdded ==
  ASSUME ListInv, ListInv', ShardInv, Shard,
         NEW drawn, drawn \subseteq Gettable(fl'), NEW ended \in BOOLEAN,
         SetOK(fl, base, base + ShardSize(fl.number, base)),
         archives' = Append(archives, [lower |-> fl'.lower, upper |-> fl'.upper,
                                       ended |-> ended, ops |-> drawn]),
         \/ ended /\ base' = fl'.upper /\ pc' = pc
         \/ ~ended /\ base' = base /\ pc' \in {"errx", "aborted"}
  PROVE  ShardInv'
<1>. DEFINE n     == Len(archives)
            size  == ShardSize(fl.number, base)
            upper == base + size
            a     == [lower |-> fl'.lower, upper |-> fl'.upper,
                      ended |-> ended, ops |-> drawn]
<1>1. /\ fl \in Flists /\ fl.number \in Nat /\ base \in Nat /\ base < fl.number
      /\ archives \in Seq(Archive) /\ optJ \in Nat \ {0} /\ pc = "shard"
      /\ fl' = SetRange(fl, base, upper) /\ optJ' = optJ
  BY DEF Shard, ListInv, CreateTypes, Flists
<1>2. base + Even <= fl.number
  BY <1>1 DEF ShardInv
<1>3. /\ size \in Nat /\ Even \in Nat /\ upper <= fl.number
      /\ Even <= size /\ (Even # 0 => size < 2 * Even) /\ (size = 0 <=> Even = 0)
      /\ upper = fl.number \/ upper + Even <= fl.number
  BY <1>1, <1>2, NextShard DEF Even
<1>4. upper \in Int
  BY <1>1, <1>3
<1>5. /\ fl'.number = fl.number /\ fl'.pindex = fl.pindex
      /\ fl'.lower = base /\ fl'.upper = upper
  <2>. HIDE DEF upper
  <2>1. SetOK(fl, base, upper)
    BY DEF upper
  <2>2. fl \in Flists /\ base \in Nat /\ upper \in Int
    BY <1>1, <1>4
  <2>3. SetRange(fl, base, upper).number = fl.number
    BY <2>2, SetRangeOK
  <2>4. SetRange(fl, base, upper).pindex = fl.pindex
    BY <2>2, SetRangeOK
  <2>5. /\ SetRange(fl, base, upper).lower = base
        /\ SetRange(fl, base, upper).upper = upper
    BY <2>1, <2>2, SetRangeOK
  <2>. QED  BY <1>1, <2>3, <2>4, <2>5
<1>6. base < upper /\ upper = base + size
  BY <1>5 DEF SetOK
<1>. HIDE DEF size, upper
<1>7. /\ Even' = Even
      /\ \A b : CellsOf(fl', b) = CellsOf(fl, b)
  BY <1>1, <1>5 DEF Even, CellsOf
<1>8. /\ a.lower = base /\ a.upper = upper /\ a.ops = drawn /\ a.ended = ended
      /\ drawn \subseteq CellsOf(fl, a)
  BY <1>5 DEF Gettable, CellsOf
<1>9. Even # 0 /\ Even <= Share(a) /\ Share(a) < 2 * Even
  <2>1. Share(a) = size
    BY <1>1, <1>3, <1>6, <1>8 DEF Share
  <2>. QED  BY <1>1, <1>3, <1>6, <2>1
<1>. HIDE DEF a
<1>10. /\ n \in Nat /\ archives' = Append(archives, a) /\ Len(archives') = n + 1
       /\ archives'[n + 1] = a /\ \A i \in 1 .. n : archives'[i] = archives[i]
  BY <1>1 DEF a
<1>. HIDE DEF n
<1>20. /\ archives' # <<>> /\ Top' = upper /\ base = Top
       /\ \A i \in 1 .. n : archives[i].ended
       /\ n # 0 => Top = archives[n].upper
       /\ n = 0 => Top = 0
  <2>1. archives' # <<>> /\ archives'[Len(archives')].upper = upper
    BY <1>1, <1>8, <1>10
  <2>2. n # 0 <=> archives # <<>>
    BY <1>1 DEF n
  <2>. QED  BY <1>1, <2>1, <2>2, NoneCutYet DEF Top, n
<1>11. \A i \in 1 .. n : archives[i].lower \in Nat /\ archives[i].upper \in Nat
  <2>1. \A i \in 1 .. n : archives[i] \in Archive
    BY <1>1 DEF n
  <2>. QED  BY <2>1 DEF Archive
<1>12. ASSUME NEW i \in 1 .. Len(archives')
       PROVE  /\ archives'[i].lower = IF i = 1 THEN 0 ELSE archives'[i - 1].upper
              /\ archives'[i].lower < archives'[i].upper
              /\ archives'[i].upper <= Top'
              /\ Even' <= Share(archives'[i]) /\ Share(archives'[i]) < 2 * Even'
              /\ archives'[i].ops \subseteq CellsOf(fl', archives'[i])
              /\ \A j \in 1 .. (i - 1) : archives'[j].upper <= archives'[i].lower
              /\ ~archives'[i].ended =>
                   i = Len(archives') /\ pc' \in {"errx", "aborted"}
  <2>1. CASE i \in 1 .. n
    <3>1. /\ archives[i].lower = IF i = 1 THEN 0 ELSE archives[i - 1].upper
          /\ archives[i].lower < archives[i].upper
          /\ archives[i].upper <= Top
          /\ Even <= Share(archives[i]) /\ Share(archives[i]) < 2 * Even
          /\ archives[i].ops \subseteq CellsOf(fl, archives[i])
          /\ \A j \in 1 .. (i - 1) : archives[j].upper <= archives[i].lower
          /\ archives[i].ended
      BY <1>20, <2>1 DEF ShardInv, n
    <3>2. archives'[i] = archives[i] /\ \A j \in 1 .. (i - 1) : archives'[j] = archives[j]
      BY <1>10, <2>1
    <3>3. i # 1 => i - 1 \in 1 .. (i - 1)
      BY <2>1, <1>10
    <3>4. archives[i].upper <= Top'
      BY <1>1, <1>4, <1>6, <1>11, <1>20, <2>1, <3>1
    <3>5. Share(archives'[i]) = Share(archives[i])
          /\ CellsOf(fl', archives'[i]) = CellsOf(fl, archives[i])
      BY <1>7, <3>2
    <3>6. archives'[i].lower = IF i = 1 THEN 0 ELSE archives'[i - 1].upper
      BY <3>1, <3>2, <3>3
    <3>. QED  BY <1>7, <3>1, <3>2, <3>4, <3>5, <3>6
  <2>2. CASE i = n + 1
    <3>1. archives'[i] = a /\ Top' = upper /\ i = Len(archives')
      BY <1>10, <1>20, <2>2
    <3>2. base = IF i = 1 THEN 0 ELSE archives'[i - 1].upper
      <4>1. CASE n = 0
        BY <1>20, <2>2, <4>1
      <4>2. CASE n # 0
        <5>1. n \in 1 .. n /\ i - 1 = n /\ i # 1
          BY <1>10, <2>2, <4>2
        <5>. QED  BY <1>10, <1>20, <4>2, <5>1
      <4>. QED  BY <4>1, <4>2
    <3>3. \A j \in 1 .. n : archives'[j].upper <= base
      BY <1>10, <1>20 DEF ShardInv, n
    <3>4. 1 .. (i - 1) = 1 .. n
      BY <1>10, <2>2
    <3>5. upper <= Top' /\ Even' <= Share(a) /\ Share(a) < 2 * Even'
          /\ CellsOf(fl', archives'[i]) = CellsOf(fl, a)
      BY <1>4, <1>7, <1>9, <3>1
    <3>6. ~a.ended => pc' \in {"errx", "aborted"}
      BY <1>8
    <3>. QED  BY <1>6, <1>8, <3>1, <3>2, <3>3, <3>4, <3>5, <3>6
  <2>. QED  BY <1>10, <2>1, <2>2
<1>13. /\ optJ' # 0 /\ Even' # 0
       /\ base' = IF archives'[Len(archives')].ended THEN Top'
                  ELSE archives'[Len(archives')].lower
  BY <1>1, <1>5, <1>7, <1>8, <1>9, <1>10, <1>20
<1>14. /\ Top' <= fl'.number
       /\ pc' = "shard" => base' = fl'.number \/ base' + Even' <= fl'.number
       /\ pc' \in {"shard", "errx", "aborted"}
  BY <1>1, <1>3, <1>5, <1>7, <1>20 DEF upper
<1>. QED  BY <1>12, <1>13, <1>14, <1>20 DEF ShardInv

LEMMA ShardStep ==
  ASSUME ListInv, ListInv', ShardInv, [Next]_vars
  PROVE  ShardInv'
<1>1. CASE archives = <<>> /\ archives' = <<>> /\ base' = 0 /\ pc' \notin {"shard", "done"}
  <2>1. fl'.number \in Nat
    BY FlistAssumption DEF ListInv, CreateTypes, Flists
  <2>2. Top' = 0
    BY <1>1 DEF Top
  <2>. QED  BY <1>1, <2>1, <2>2 DEF ShardInv
<1>2. CASE InitFlist \/ ImportNumber \/ ImportEnd \/ ShuffleStep \/ OpenArchive
  BY <1>1, <1>2 DEF InitFlist, ImportNumber, ImportEnd, ShuffleStep, OpenArchive,
                    create, Stop, ListInv
<1>3. CASE ShuffleEnd
  <2>1. /\ fl.number \in Nat /\ optJ \in Nat /\ archives' = <<>> /\ base' = 0
        /\ pc' = "shard" /\ fl' = fl /\ optJ' = optJ
    BY <1>3, FlistAssumption DEF ShuffleEnd, ListInv, CreateTypes, Flists
  <2>2. optJ # 0 => Even \in Nat /\ Even <= fl.number
    BY <2>1, EvenFits DEF Even
  <2>3. /\ Top' <= fl'.number
        /\ optJ' # 0 => base' + Even' <= fl'.number
    BY <2>1, <2>2 DEF Even, Top
  <2>. QED  BY <2>1, <2>3 DEF ShardInv
<1>4. CASE Shard
  <2>. DEFINE upper == base + ShardSize(fl.number, base)
  <2>1. /\ fl \in Flists /\ fl.number \in Nat /\ base \in Nat /\ base < fl.number
        /\ archives \in Seq(Archive) /\ optJ \in Nat \ {0} /\ pc = "shard"
        /\ fl' = SetRange(fl, base, upper) /\ optJ' = optJ
        /\ base + Even <= fl.number
    BY <1>4 DEF Shard, ListInv, CreateTypes, Flists, ShardInv
  <2>2. /\ ShardSize(fl.number, base) \in Nat
        /\ upper <= fl.number
        /\ ShardSize(fl.number, base) = 0 <=> Even = 0
    BY <2>1, NextShard DEF Even
  <2>3. fl'.number = fl.number /\ fl'.pindex = fl.pindex
    <3>1. fl \in Flists /\ base \in Nat /\ upper \in Int
      BY <2>1, <2>2
    <3>. HIDE DEF upper
    <3>2. SetRange(fl, base, upper).number = fl.number
      BY <3>1, SetRangeOK
    <3>3. SetRange(fl, base, upper).pindex = fl.pindex
      BY <3>1, SetRangeOK
    <3>. QED  BY <2>1, <3>2, <3>3
  <2>4. Even' = Even /\ \A b : CellsOf(fl', b) = CellsOf(fl, b)
    BY <2>1, <2>3 DEF Even, CellsOf
  <2>5. CASE SetOK(fl, base, upper) /\ WriteArchive(fl')
    <3>1. PICK drawn \in SUBSET Gettable(fl'), ended \in BOOLEAN :
            /\ archives' = Append(archives, [lower |-> fl'.lower, upper |-> fl'.upper,
                                             ended |-> ended, ops |-> drawn])
            /\ \/ ended /\ base' = fl'.upper /\ pc' = pc
               \/ ~ended /\ base' = base /\ pc' \in {"errx", "aborted"}
      BY <2>5 DEF WriteArchive, Stop
    <3>. QED  BY <1>4, <2>5, <3>1, ArchiveAdded
  <2>6. CASE ~SetOK(fl, base, upper) /\ pc' = "refused" /\ UNCHANGED <<archives, base>>
    <3>1. Even = 0
      BY <2>1, <2>2, <2>6 DEF SetOK
    <3>2. archives = <<>>
      BY <3>1 DEF ShardInv
    <3>3. Top' <= fl'.number
      BY <2>1, <2>3, <2>6, <3>2 DEF Top
    <3>. QED  BY <2>6, <3>2, <3>3 DEF ShardInv
  <2>7. IF SetOK(fl, base, upper)
        THEN WriteArchive(fl')
        ELSE pc' = "refused" /\ UNCHANGED <<archives, base>>
    BY <1>4 DEF Shard, Stop
  <2>. HIDE DEF upper
  <2>. QED  BY <2>5, <2>6, <2>7
<1>5. CASE ShardByZero
  BY <1>5 DEF ShardByZero, Stop, ShardInv, Even, CellsOf, Top
<1>6. CASE ShardEnd
  <2>1. /\ base = fl.number /\ pc = "shard" /\ pc' = "done"
        /\ UNCHANGED <<fl, base, archives, optJ>>
    <3>1. /\ pc = "shard" /\ pc' = "done" /\ base >= fl.number
          /\ UNCHANGED <<fl, base, archives, optJ>>
      BY <1>6 DEF ShardEnd, Stop
    <3>2. base = Top /\ Top <= fl.number /\ base \in Int /\ fl.number \in Int
      BY <3>1, NoneCutYet, FlistAssumption DEF ShardInv, ListInv, CreateTypes, Flists
    <3>. QED  BY <3>1, <3>2
  <2>2. \A i \in 1 .. Len(archives) : archives[i].ended
    BY <2>1, NoneCutYet
  <2>. QED  BY <2>1, <2>2 DEF ShardInv, Even, CellsOf, Top
<1>7. CASE ReadEntry
  <2>1. pc' \in {"header", "errx"} /\ archives = <<>> /\ archives' = <<>> /\ base' = 0
    BY <1>7 DEF ReadEntry, Stop, ListInv, create
  <2>. QED  BY <1>1, <2>1
<1>8. CASE CloseArchive
  <2>1. pc' = "done" /\ archives' = <<>> /\ base' = 0 /\ fl'.number = 0
    BY <1>8 DEF CloseArchive, Stop, ListInv, create
  <2>. QED  BY <2>1 DEF ShardInv, Top
<1>9. CASE UNCHANGED vars
  BY <1>9 DEF vars, create, ShardInv, Even, CellsOf, Top
<1>. QED
  BY <1>2, <1>3, <1>4, <1>5, <1>6, <1>7, <1>8, <1>9 DEF Next, Ended

LEMMA ShardInvariance == Spec => []ShardInv
<1>1. Init => ShardInv
  BY DEF Init, ShardInv, Top
<1>2. ListInv /\ ListInv' /\ ShardInv /\ [Next]_vars => ShardInv'
  BY ShardStep
<1>. QED  BY <1>1, <1>2, ListInvariance, PTL DEF Spec

(* The shards are consecutive and not empty and cover the list when mkpax  *)
(* is done; when it gives up inside an archive, that one is the last, and  *)
(* the only one that is cut short; and none is begun when mkpax ends over  *)
(* the number of shards.                                                   *)
THEOREM ShardsCover == Spec => []ShardsPartition
<1>1. ListInv /\ ShardInv => ShardsPartition
  <2>1. archives # <<>> => Last(archives) = archives[Len(archives)]
                           /\ Top = archives[Len(archives)].upper
    BY DEF Last, Top
  <2>. QED  BY <2>1 DEF ShardInv, ShardsPartition
<1>. QED  BY <1>1, ListInvariance, ShardInvariance, PTL

(* A shard has an even share of the list or more, and less than two.       *)
THEOREM SharesFair == Spec => []ShardsBalanced
<1>1. ShardInv => ShardsBalanced
  BY DEF ShardInv, ShardsBalanced, Even, Share
<1>. QED  BY <1>1, ShardInvariance, PTL

(* The archives of a list without repetitions have no operation in common. *)
THEOREM EachInOneArchive == Spec => []OneArchive
<1>1. ListInv /\ ShardInv => OneArchive
  <2>. SUFFICES ASSUME ListInv, ShardInv, IsInjective(Listed),
                       NEW i \in 1 .. Len(archives), NEW j \in 1 .. Len(archives), i # j,
                       NEW op \in archives[i].ops, op \in archives[j].ops
                PROVE  FALSE
    BY Zenon DEF OneArchive
  <2>. DEFINE a == archives[i]
              b == archives[j]
  <2>1. fl.number \in 0 .. (NFUNCS + 1) /\ archives \in Seq(Archive)
    BY DEF ListInv, CreateTypes, Flists
  <2>2. /\ a.lower \in Nat /\ a.upper \in Nat /\ b.lower \in Nat /\ b.upper \in Nat
    <3>1. a \in Archive /\ b \in Archive
      BY <2>1
    <3>. QED  BY <3>1 DEF Archive
  <2>3. /\ a.upper <= Top /\ b.upper <= Top
        /\ a.ops \subseteq CellsOf(fl, a) /\ b.ops \subseteq CellsOf(fl, b)
    BY DEF ShardInv
  <2>4. a.upper <= b.lower \/ b.upper <= a.lower
    <3>1. i < j \/ j < i
      OBVIOUS
    <3>2. CASE i < j
      <4>1. i \in 1 .. (j - 1)
        BY <3>2
      <4>. QED  BY <4>1 DEF ShardInv
    <3>3. CASE j < i
      <4>1. j \in 1 .. (i - 1)
        BY <3>3
      <4>. QED  BY <4>1 DEF ShardInv
    <3>. QED  BY <3>1, <3>2, <3>3
  <2>5. Top <= fl.number /\ Top \in Nat /\ fl.number \in Nat
    <3>1. Top \in Nat
      <4>1. CASE archives = <<>>
        BY <4>1 DEF Top
      <4>2. CASE archives # <<>>
        <5>1. archives[Len(archives)] \in Archive
          BY <2>1, <4>2
        <5>. QED  BY <4>2, <5>1 DEF Top, Archive
      <4>. QED  BY <4>1, <4>2
    <3>. QED  BY <3>1, FlistAssumption DEF ShardInv, ListInv, CreateTypes, Flists
  <2>. HIDE DEF a, b
  <2>6. PICK x \in a.lower .. (a.upper - 1) : op = fl.pindex[x]
    BY <2>3 DEF CellsOf, a
  <2>7. PICK y \in b.lower .. (b.upper - 1) : op = fl.pindex[y]
    BY <2>3 DEF CellsOf, b
  <2>8. /\ x \in 0 .. (fl.number - 1) /\ y \in 0 .. (fl.number - 1) /\ x # y
    <3>0. \A l, u \in Nat : \A z \in l .. (u - 1) : z \in Nat /\ l <= z /\ z < u
      OBVIOUS
    <3>1. x \in Nat /\ y \in Nat /\ a.lower <= x /\ x < a.upper /\ b.lower <= y /\ y < b.upper
      BY <2>2, <3>0
    <3>2. x < fl.number /\ y < fl.number
      BY <2>2, <2>3, <2>5, <3>1
    <3>3. x # y
      BY <2>2, <2>4, <3>1
    <3>. QED  BY <2>5, <3>1, <3>2, <3>3
  <2>9. /\ x + 1 \in 1 .. fl.number /\ y + 1 \in 1 .. fl.number
        /\ (x + 1) - 1 = x /\ (y + 1) - 1 = y
    BY <2>1, <2>8
  <2>10. Listed[x + 1] = Listed[y + 1]
    BY <2>6, <2>7, <2>9 DEF Listed
  <2>11. x + 1 = y + 1
    BY <2>9, <2>10 DEF IsInjective, Listed
  <2>. QED  BY <2>8, <2>11
<1>. QED  BY <1>1, ListInvariance, ShardInvariance, PTL

-----------------------------------------------------------------------------
(* mkpax -r has printed the whole lists among the entries it has read.     *)
Whole == {i \in 1 .. next : entries[i] = "list"}

ReadTypes ==
  /\ entries \in Seq(Kinds)
  /\ next \in 0 .. Len(entries)
  /\ buf \in Buffers(1 .. next)
  /\ printed \in Seq(SUBSET (1 .. next))

ReadInv == ReadTypes /\ ReadsBack

LEMMA FilledOK ==
  ASSUME NEW n \in Nat, NEW b \in Buffers(1 .. n), NEW kind \in Kinds
  PROVE  /\ Filled(b, 1 .. n, n + 1, kind) \in Buffers(1 .. (n + 1))
         /\ kind = "list" => Filled(b, 1 .. n, n + 1, kind).from = {n + 1}
<1>. DEFINE f == Filled(b, 1 .. n, n + 1, kind)
<1>0. 1 .. n \subseteq 1 .. (n + 1) /\ n + 1 \in 1 .. (n + 1)
  OBVIOUS
<1>1. b \in Buffers(1 .. (n + 1))
  BY <1>0 DEF Buffers
<1>2. CASE kind = "list"
  <2>1. f = [ends |-> TRUE, from |-> {n + 1}, holds |-> "list"]
    BY <1>2 DEF Filled
  <2>. HIDE DEF f
  <2>2. f \in Buffers(1 .. (n + 1)) /\ f.from = {n + 1}
    BY <1>0, <2>1 DEF Buffers
  <2>. QED  BY <2>2 DEF f
<1>3. CASE kind = "other"
  <2>1. f = [[b EXCEPT !.from = {n + 1}] EXCEPT !.holds = "none"]
    BY <1>3 DEF Filled
  <2>2. f = [ends |-> b.ends, from |-> {n + 1}, holds |-> "none"]
    BY <2>1 DEF Buffers
  <2>3. b.ends \in BOOLEAN
    BY DEF Buffers
  <2>. HIDE DEF f
  <2>4. f \in Buffers(1 .. (n + 1))
    BY <1>0, <2>2, <2>3 DEF Buffers
  <2>. QED  BY <1>3, <2>4 DEF f
<1>4. CASE kind = "empty"
  BY <1>1, <1>4 DEF Filled
<1>5. CASE kind \in {"cut", "short"}
  <2>1. PICK h \in {"mixture", "none"} :
          f = [[b EXCEPT !.from = (1 .. n) \cup {n + 1}] EXCEPT !.holds = h]
    BY <1>5 DEF Filled
  <2>2. (1 .. n) \cup {n + 1} \in SUBSET (1 .. (n + 1))
    BY <1>0
  <2>3. f = [ends |-> b.ends, from |-> (1 .. n) \cup {n + 1}, holds |-> h]
    BY <2>1 DEF Buffers
  <2>4. b.ends \in BOOLEAN
    BY DEF Buffers
  <2>. HIDE DEF f
  <2>5. f \in Buffers(1 .. (n + 1))
    BY <2>2, <2>3, <2>4 DEF Buffers
  <2>. QED  BY <1>5, <2>5 DEF f
<1>. QED  BY <1>2, <1>3, <1>4, <1>5 DEF Kinds

LEMMA ReadTypesStep ==
  ASSUME ReadTypes, [Next]_vars
  PROVE  ReadTypes'
<1>1. CASE ReadEntry
  <2>1. /\ next \in Nat /\ Len(entries) \in Nat /\ next < Len(entries)
        /\ next' = next + 1 /\ entries' = entries
        /\ buf' = Filled(buf, 1 .. next, next + 1, entries[next + 1])
    BY <1>1 DEF ReadEntry, ReadTypes
  <2>2. entries[next + 1] \in Kinds
    <3>1. next + 1 \in 1 .. Len(entries)
      BY <2>1
    <3>. QED  BY <3>1 DEF ReadTypes
  <2>3. buf' \in Buffers(1 .. (next + 1))
    BY <2>1, <2>2, FilledOK DEF ReadTypes
  <2>4. printed \in Seq(SUBSET (1 .. (next + 1)))
    <3>1. SUBSET (1 .. next) \subseteq SUBSET (1 .. (next + 1))
      BY <2>1
    <3>. QED  BY <3>1, SeqMonotonic DEF ReadTypes
  <2>5. buf'.from \in SUBSET (1 .. (next + 1))
    BY <2>3 DEF Buffers
  <2>6. printed' = printed \/ printed' = Append(printed, buf'.from)
    BY <1>1 DEF ReadEntry
  <2>7. printed' \in Seq(SUBSET (1 .. (next + 1)))
    BY <2>4, <2>5, <2>6
  <2>8. next' \in 0 .. Len(entries')
    BY <2>1
  <2>. QED  BY <2>1, <2>3, <2>7, <2>8 DEF ReadTypes
<1>2. CASE UNCHANGED read
  BY <1>2 DEF read, ReadTypes
<1>. QED
  BY <1>1, <1>2 DEF Next, InitFlist, ImportNumber, ImportEnd, ShuffleStep, ShuffleEnd,
                    Shard, ShardByZero, ShardEnd, OpenArchive, CloseArchive, Ended, vars

LEMMA ReadsBackStep ==
  ASSUME ReadTypes, ReadsBack, [Next]_vars
  PROVE  ReadsBack'
<1>1. CASE ReadEntry
  <2>. SUFFICES ASSUME \A i \in 1 .. Len(entries)' : entries'[i] \in {"list", "short"},
                       pc' # "errx"
                PROVE  /\ Len(printed)' = Cardinality(Whole)'
                       /\ \A i \in Whole' : printed'[Place(Whole, i)'] = {i}
    BY DEF ReadsBack, Whole
  <2>1. /\ next \in Nat /\ Len(entries) \in Nat /\ next < Len(entries)
        /\ next' = next + 1 /\ entries' = entries /\ pc = "header"
        /\ buf' = Filled(buf, 1 .. next, next + 1, entries[next + 1])
    BY <1>1 DEF ReadEntry, ReadTypes
  <2>2. /\ Len(printed) = Cardinality(Whole)
        /\ \A i \in Whole : printed[Place(Whole, i)] = {i}
    BY <2>1 DEF ReadsBack, Whole
  <2>3. next + 1 \in 1 .. Len(entries) /\ entries[next + 1] \in {"list", "short"}
    BY <2>1
  <2>4. Whole \in SUBSET (1 .. next) /\ next + 1 \notin Whole
        /\ \A i \in Whole : i \in Nat /\ i < next + 1
    BY <2>1 DEF Whole
  <2>5. CASE entries[next + 1] = "short"
    <3>1. Whole' = Whole
      <4>1. \A i \in 1 .. (next + 1) : i \in 1 .. next \/ i = next + 1
        BY <2>1
      <4>2. 1 .. next \subseteq 1 .. (next + 1)
        BY <2>1
      <4>. QED  BY <2>1, <2>5, <4>1, <4>2 DEF Whole
    <3>2. printed' = printed
      BY <1>1, <2>1, <2>5 DEF ReadEntry, Taken, Stop
    <3>. QED  BY <2>2, <3>1, <3>2 DEF Place
  <2>6. CASE entries[next + 1] = "list"
    <3>1. Whole' = Whole \cup {next + 1}
      <4>1. \A i \in 1 .. (next + 1) : i \in 1 .. next \/ i = next + 1
        BY <2>1
      <4>2. 1 .. next \subseteq 1 .. (next + 1) /\ next + 1 \in 1 .. (next + 1)
        BY <2>1
      <4>. QED  BY <2>1, <2>6, <4>1, <4>2 DEF Whole
    <3>2. printed' = Append(printed, buf'.from)
      BY <1>1, <2>1, <2>6 DEF ReadEntry, Taken, Stop
    <3>3. buf'.from = {next + 1}
      BY <2>1, <2>6, FilledOK DEF ReadTypes, Kinds
    <3>4. /\ IsFiniteSet(Whole) /\ Cardinality(Whole) \in Nat
          /\ Cardinality(Whole') = Cardinality(Whole) + 1
      <4>1. IsFiniteSet(1 .. next)
        BY <2>1, FS_Interval
      <4>2. IsFiniteSet(Whole) /\ Cardinality(Whole) \in Nat
        BY <2>4, <4>1, FS_Subset, FS_CardinalityType
      <4>. QED  BY <2>4, <3>1, <4>2, FS_AddElement
    <3>5. /\ Len(printed') = Len(printed) + 1
          /\ printed'[Len(printed) + 1] = {next + 1}
          /\ \A k \in 1 .. Len(printed) : printed'[k] = printed[k]
      BY <3>2, <3>3 DEF ReadTypes
    <3>6. ASSUME NEW i \in Whole'
          PROVE  printed'[Place(Whole', i)] = {i}
      <4>1. CASE i \in Whole
        <5>1. {k \in Whole' : k <= i} = {k \in Whole : k <= i}
          BY <2>1, <2>4, <3>1, <4>1
        <5>2. Place(Whole', i) = Place(Whole, i)
          BY <5>1 DEF Place
        <5>3. Place(Whole, i) \in 1 .. Cardinality(Whole)
          <6>1. {k \in Whole : k < next + 1} = Whole
            BY <2>4
          <6>2. \A m \in Nat : \A j \in Whole : j < m =>
                  Place(Whole, j) \in 1 .. Cardinality({k \in Whole : k < m})
            BY <2>1, <2>4, PlaceBelow
          <6>3. next + 1 \in Nat
            BY <2>1
          <6>. QED  BY <2>4, <4>1, <6>1, <6>2, <6>3
        <5>. QED  BY <2>2, <3>5, <4>1, <5>2, <5>3
      <4>2. CASE i = next + 1
        <5>1. {k \in Whole' : k <= i} = Whole'
          <6>1. \A k \in Whole' : k <= i
            BY <2>1, <2>4, <3>1, <4>2
          <6>. QED  BY <6>1
        <5>2. Place(Whole', i) = Len(printed) + 1
          BY <2>2, <3>4, <5>1 DEF Place
        <5>. QED  BY <3>5, <4>2, <5>2
      <4>. QED  BY <3>1, <4>1, <4>2
    <3>. QED  BY <2>2, <3>4, <3>5, <3>6 DEF Place
  <2>. QED  BY <2>3, <2>5, <2>6
<1>2. CASE UNCHANGED read /\ (pc = "errx" => pc' = "errx")
  BY <1>2 DEF read, ReadsBack, Place
<1>3. CASE UNCHANGED read /\ pc # "errx"
  BY <1>3 DEF read, ReadsBack, Place
<1>. QED
  BY <1>1, <1>2, <1>3 DEF Next, InitFlist, ImportNumber, ImportEnd, ShuffleStep,
     ShuffleEnd, Shard, ShardByZero, ShardEnd, OpenArchive, CloseArchive, Ended, vars

LEMMA ReadInit == Init => ReadInv
<1>. SUFFICES ASSUME Init PROVE ReadInv
  OBVIOUS
<1>1. next = 0 /\ buf = NewBuffer /\ printed = <<>>
  BY DEF Init
<1>2. entries \in Seq(Kinds)
  <2>1. Seq(Kinds) = UNION {[1 .. n -> Kinds] : n \in Nat}
    OBVIOUS
  <2>2. CASE entries = <<>>
    BY <2>2
  <2>3. CASE entries \in UNION {[1 .. n -> Kinds] : n \in 0 .. MaxEntries}
    <3>1. PICK n \in 0 .. MaxEntries : entries \in [1 .. n -> Kinds]
      BY <2>3
    <3>2. n \in Nat
      BY MkPaxAssumption
    <3>. HIDE DEF Kinds
    <3>. QED  BY <2>1, <3>1, <3>2
  <2>. QED  BY <2>2, <2>3 DEF Init
<1>3. ReadTypes
  BY <1>1, <1>2 DEF ReadTypes, Buffers, NewBuffer
<1>4. {i \in 1 .. next : entries[i] = "list"} = {}
  BY <1>1
<1>5. ReadsBack
  BY <1>1, <1>4, FS_EmptySet DEF ReadsBack
<1>. QED  BY <1>3, <1>5 DEF ReadInv

LEMMA ReadInvariance == Spec => []ReadInv
<1>1. ReadInv /\ [Next]_vars => ReadInv'
  BY ReadTypesStep, ReadsBackStep DEF ReadInv
<1>. QED  BY <1>1, ReadInit, PTL DEF Spec

(* Every whole list comes back once, in order and as it is.                *)
THEOREM ListsComeBack == Spec => []ReadsBack
<1>1. ReadInv => ReadsBack
  BY DEF ReadInv
<1>. QED  BY <1>1, ReadInvariance, PTL

-----------------------------------------------------------------------------
Options == optJ \in Jobs \cup {1} /\ optS \in Lists \cup {NoList}

LEMMA OptionsKept == Spec => []Options
<1>1. Init => Options
  BY Zenon DEF Init, Options
<1>2. Options /\ [Next]_vars => Options'
  BY DEF Options, Next, InitFlist, ImportNumber, ImportEnd, ShuffleStep, ShuffleEnd,
         Shard, ShardByZero, ShardEnd, OpenArchive, ReadEntry, CloseArchive, Ended,
         vars, create
<1>. QED  BY <1>1, <1>2, PTL DEF Spec

(* Every variable keeps its type; in particular every operation in an      *)
(* archive is one of the pool.                                             *)
THEOREM TypeCorrect == Spec => []TypeOK
<1>1. ListInv /\ ReadInv /\ Options => TypeOK
  <2>. SUFFICES ASSUME ListInv, ReadInv, Options PROVE TypeOK
    OBVIOUS
  <2>1. /\ fl.pindex \in [0 .. NFUNCS -> Int]
        /\ {fl.number, fl.lower, fl.upper} \subseteq 0 .. (NFUNCS + 1)
    BY DEF ListInv, CreateTypes, Flists, Cells
  <2>2. \A i \in 1 .. Len(archives) : archives[i].ops \subseteq 0 .. (NFUNCS - 1)
    <3>1. \A i \in 1 .. Len(archives) : archives[i] \in Archive
      BY DEF ListInv, CreateTypes
    <3>. QED  BY <3>1 DEF Archive
  <2>. QED  BY <2>1, <2>2 DEF TypeOK, ListInv, CreateTypes, ReadInv, ReadTypes, Options
<1>. QED  BY <1>1, ListInvariance, ReadInvariance, OptionsKept, PTL

-----------------------------------------------------------------------------
(* Shuffled is a recursive function: its values exist, so that CHOOSE      *)
(* finds them.                                                             *)
SwapsOf(S, k) ==
  UNION {{Swap(l, fl.number - k, x) : x \in Picks(fl.number - k + 1)} : l \in S}

IsShuffled(g, n) ==
  g = [k \in 0 .. n |-> IF k = 0 THEN {fl} ELSE SwapsOf(g[k - 1], k)]

LEMMA ShuffledExist == \A n \in Nat : \E g : IsShuffled(g, n)
<1>. DEFINE Bad == {n \in Nat : ~\E g : IsShuffled(g, n)}
<1>1. SUFFICES ASSUME Bad # {} PROVE FALSE
  OBVIOUS
<1>. DEFINE least == Min(Bad)
<1>2. least \in Bad /\ \A n \in Bad : least <= n
  <2>. HIDE DEF Bad
  <2>1. Bad \in SUBSET Nat
    BY DEF Bad
  <2>. QED  BY <1>1, <2>1, MinOfNat
<1>. HIDE DEF least
<1>3. least # 0
  <2>. DEFINE g == [k \in 0 .. 0 |-> {fl}]
  <2>1. IsShuffled(g, 0)
    BY DEF IsShuffled
  <2>. QED  BY <1>2, <2>1
<1>4. least \in Nat /\ least - 1 \in Nat /\ least - 1 \notin Bad
  BY <1>2, <1>3
<1>5. PICK g : IsShuffled(g, least - 1)
  BY <1>4
<1>. DEFINE h == [k \in 0 .. least |->
                    IF k = 0 THEN {fl} ELSE SwapsOf(g[k - 1], k)]
<1>6. \A k \in 0 .. (least - 1) : h[k] = g[k]
  <2>1. ASSUME NEW k \in 0 .. (least - 1)
        PROVE  g[k] = IF k = 0 THEN {fl} ELSE SwapsOf(g[k - 1], k)
    BY <1>5, Zenon DEF IsShuffled
  <2>2. 0 .. (least - 1) \subseteq 0 .. least
    BY <1>4
  <2>. QED  BY <2>1, <2>2
<1>7. \A k \in 0 .. least : h[k] = IF k = 0 THEN {fl} ELSE SwapsOf(h[k - 1], k)
  <2>1. ASSUME NEW k \in 0 .. least, k # 0 PROVE g[k - 1] = h[k - 1]
    <3>1. k - 1 \in 0 .. (least - 1)
      BY <1>4, <2>1
    <3>. QED  BY <1>6, <3>1
  <2>. QED  BY <2>1
<1>8. IsShuffled(h, least)
  <2>1. h = [k \in 0 .. least |-> h[k]]
    OBVIOUS
  <2>. HIDE DEF h
  <2>. QED  BY <1>7, <2>1 DEF IsShuffled
<1>. QED  BY <1>2, <1>8

LEMMA ShuffledUnfold ==
  /\ Shuffled[0] = {fl}
  /\ \A k \in 1 .. NFUNCS : Shuffled[k] = SwapsOf(Shuffled[k - 1], k)
<1>1. NFUNCS \in Nat
  BY FlistAssumption
<1>2. \E g : IsShuffled(g, NFUNCS)
  BY <1>1, ShuffledExist
<1>3. Shuffled = CHOOSE g : IsShuffled(g, NFUNCS)
  BY Zenon DEF Shuffled, IsShuffled, SwapsOf
<1>4. IsShuffled(Shuffled, NFUNCS)
  BY <1>2, <1>3, Zenon
<1>. HIDE DEF Shuffled
<1>5. Shuffled = [k \in 0 .. NFUNCS |->
                    IF k = 0 THEN {fl} ELSE SwapsOf(Shuffled[k - 1], k)]
  BY <1>4, Zenon DEF IsShuffled
<1>6. ASSUME NEW k \in 0 .. NFUNCS
      PROVE  Shuffled[k] = IF k = 0 THEN {fl} ELSE SwapsOf(Shuffled[k - 1], k)
  BY <1>5, Zenon
<1>7. 0 \in 0 .. NFUNCS /\ \A k \in 1 .. NFUNCS : k \in 0 .. NFUNCS /\ k # 0
  BY <1>1
<1>. QED  BY <1>6, <1>7, Zenon

-----------------------------------------------------------------------------
(* The orders of the list, and the struct that holds the list in order p.  *)
Used     == 0 .. (fl.number - 1)
Orders   == Bijection(Used, Used)
Order(p) == [x \in 0 .. NFUNCS |->
               IF x < fl.number THEN fl.pindex[p[x]] ELSE fl.pindex[x]]
With(p)  == [fl EXCEPT !.pindex = Order(p)]
Swapped(p, i, x) == [p EXCEPT ![i] = p[x], ![x] = p[i]]

LEMMA OrderParts ==
  \A p : p \in Orders <=> /\ p \in [Used -> Used]
                          /\ \A x \in Used, y \in Used : p[x] = p[y] => x = y
                          /\ \A y \in Used : \E x \in Used : p[x] = y
BY Zenon DEF Orders, Bijection, Injection, Surjection, IsInjective

LEMMA SwapInOrder ==
  ASSUME fl \in Flists, fl.number <= NFUNCS,
         NEW p \in Orders, NEW i \in Used, NEW x \in Used
  PROVE  /\ Swapped(p, i, x) \in Orders
         /\ Swap(With(p), i, x) = With(Swapped(p, i, x))
         /\ Swapped(p, i, x)[i] = p[x]
         /\ \A y \in Used : y # i /\ y # x => Swapped(p, i, x)[y] = p[y]
<1>. DEFINE q == Swapped(p, i, x)
<1>1. fl.number \in Nat /\ NFUNCS \in Nat
  BY FlistAssumption DEF Flists
<1>2. /\ p \in [Used -> Used]
      /\ \A u \in Used, y \in Used : p[u] = p[y] => u = y
      /\ \A y \in Used : \E u \in Used : p[u] = y
  BY OrderParts
<1>3. q \in [Used -> Used]
  BY <1>2 DEF Swapped
<1>4. \A y \in Used : q[y] = IF y = x THEN p[i] ELSE IF y = i THEN p[x] ELSE p[y]
  BY <1>2 DEF Swapped
<1>. HIDE DEF q
<1>5. q \in Orders
  <2>1. \A u \in Used, y \in Used : q[u] = q[y] => u = y
    BY <1>2, <1>4
  <2>2. ASSUME NEW y \in Used PROVE \E u \in Used : q[u] = y
    <3>1. PICK u \in Used : p[u] = y
      BY <1>2
    <3>. QED  BY <1>4, <3>1
  <2>. QED  BY <1>3, <2>1, <2>2, OrderParts
<1>6. Used \subseteq 0 .. NFUNCS /\ \A y \in Used : y < fl.number
  BY <1>1 DEF Used
<1>7. \A y \in 0 .. NFUNCS : y < fl.number <=> y \in Used
  BY <1>1 DEF Used
<1>8. Order(q) = [[Order(p) EXCEPT ![i] = Order(p)[x]] EXCEPT ![x] = Order(p)[i]]
  BY <1>4, <1>6, <1>7 DEF Order
<1>9. Swap(With(p), i, x) = With(q)
  <2>. DEFINE o == Order(p)
  <2>1. With(p) = [fl EXCEPT !.pindex = o]
    BY DEF With
  <2>. HIDE DEF o
  <2>2. With(p).pindex = o
    BY <2>1 DEF Flists
  <2>3. Swap(With(p), i, x)
          = [With(p) EXCEPT !.pindex = [[o EXCEPT ![i] = o[x]] EXCEPT ![x] = o[i]]]
    BY <2>1, <2>2 DEF Swap, Flists
  <2>. DEFINE z == Order(q)
  <2>4. [[o EXCEPT ![i] = o[x]] EXCEPT ![x] = o[i]] = z
    BY <1>8 DEF o
  <2>5. With(q) = [fl EXCEPT !.pindex = z]
    BY DEF With
  <2>. HIDE DEF z
  <2>. QED  BY <2>1, <2>3, <2>4, <2>5 DEF Flists
<1>10. q[i] = p[x] /\ \A y \in Used : y # i /\ y # x => q[y] = p[y]
  BY <1>4
<1>. QED  BY <1>5, <1>9, <1>10 DEF q

LEMMA AsItIs ==
  ASSUME fl \in Flists, fl.number <= NFUNCS
  PROVE  \E p \in Orders : With(p) = fl
<1>. DEFINE p == [x \in Used |-> x]
<1>1. p \in Orders
  BY OrderParts
<1>2. Order(p) = fl.pindex
  BY FlistAssumption DEF Order, Flists, Cells, Used
<1>. HIDE DEF p
<1>3. With(p) = fl
  BY <1>2 DEF With, Flists
<1>. QED  BY <1>1, <1>3

(* What the shuffle leaves is an order of the list.                        *)
LEMMA OnlyOrders ==
  ASSUME fl \in Flists, fl.number <= NFUNCS
  PROVE  \A k \in 0 .. (fl.number - 1) :
           \A l \in Shuffled[k] : \E p \in Orders : l = With(p)
<1>. DEFINE Good(k) == \A l \in Shuffled[k] : \E p \in Orders : l = With(p)
            Bad     == {k \in 0 .. (fl.number - 1) : ~Good(k)}
            least   == Min(Bad)
<1>1. fl.number \in Nat /\ NFUNCS \in Nat
  BY FlistAssumption DEF Flists
<1>2. SUFFICES ASSUME Bad # {} PROVE FALSE
  OBVIOUS
<1>3. Bad \in SUBSET Nat
  BY <1>1
<1>4. least \in Bad /\ \A k \in Bad : least <= k
  <2>. HIDE DEF Bad
  <2>. QED  BY <1>2, <1>3, MinOfNat
<1>. HIDE DEF least
<1>5. least # 0
  BY <1>4, AsItIs, ShuffledUnfold
<1>6. /\ least \in 1 .. NFUNCS /\ least < fl.number
      /\ least - 1 \in 0 .. (fl.number - 1) /\ least - 1 \notin Bad
  BY <1>1, <1>4, <1>5
<1>7. Good(least - 1)
  BY <1>6
<1>8. ASSUME NEW l \in Shuffled[least] PROVE \E p \in Orders : l = With(p)
  <2>1. l \in SwapsOf(Shuffled[least - 1], least)
    BY <1>6, ShuffledUnfold
  <2>2. PICK m \in Shuffled[least - 1], x \in Picks(fl.number - least + 1) :
          l = Swap(m, fl.number - least, x)
    BY <2>1 DEF SwapsOf
  <2>3. PICK p \in Orders : m = With(p)
    BY <1>7
  <2>4. fl.number - least \in Used /\ x \in Used
    BY <1>1, <1>6 DEF Used, Picks
  <2>. QED  BY <2>2, <2>3, <2>4, SwapInOrder
<1>. QED  BY <1>4, <1>8

(* The shuffle can put in place, from the last cell on, what order t has   *)
(* there.                                                                  *)
Placed(k, t) ==
  \E p \in Orders : /\ With(p) \in Shuffled[k]
                    /\ \A y \in (fl.number - k) .. (fl.number - 1) : p[y] = t[y]

LEMMA PlacedOnce ==
  ASSUME fl \in Flists, fl.number <= NFUNCS, NEW t \in Orders,
         NEW k \in 0 .. (fl.number - 2), Placed(k, t)
  PROVE  Placed(k + 1, t)
<1>. DEFINE i == fl.number - (k + 1)
<1>1. /\ fl.number \in Nat /\ NFUNCS \in Nat /\ k \in Nat /\ i \in Used
      /\ k + 1 \in 1 .. NFUNCS /\ (k + 1) - 1 = k
      /\ \A y \in Used : y > i => y \in (fl.number - k) .. (fl.number - 1)
      /\ \A y \in i .. (fl.number - 1) : y \in Used /\ (y = i \/ y > i)
      /\ Picks(i + 1) = 0 .. i
  BY FlistAssumption DEF Flists, Used, Picks
<1>2. PICK p \in Orders :
        /\ With(p) \in Shuffled[k]
        /\ \A y \in (fl.number - k) .. (fl.number - 1) : p[y] = t[y]
  BY DEF Placed
<1>3. PICK x \in Used : p[x] = t[i]
  BY <1>1, OrderParts
<1>4. ~(x > i)
  <2>1. SUFFICES ASSUME x > i PROVE FALSE
    OBVIOUS
  <2>2. t[x] = t[i]
    BY <1>1, <1>2, <1>3, <2>1
  <2>3. x = i
    BY <1>1, <2>2, OrderParts
  <2>. QED  BY <1>1, <2>1, <2>3 DEF Used
<1>. DEFINE q == Swapped(p, i, x)
<1>5. /\ q \in Orders
      /\ Swap(With(p), i, x) = With(q)
      /\ q[i] = p[x]
      /\ \A y \in Used : y # i /\ y # x => q[y] = p[y]
  BY <1>1, SwapInOrder
<1>. HIDE DEF q
<1>6. With(q) \in Shuffled[k + 1]
  <2>1. Shuffled[k + 1] = SwapsOf(Shuffled[k], k + 1)
    BY <1>1, ShuffledUnfold
  <2>2. x \in Picks(i + 1)
    BY <1>1, <1>4 DEF Used
  <2>. QED  BY <1>2, <1>5, <2>1, <2>2 DEF SwapsOf
<1>7. ASSUME NEW y \in i .. (fl.number - 1) PROVE q[y] = t[y]
  <2>1. CASE y = i
    BY <1>3, <1>5, <2>1
  <2>2. CASE y > i
    <3>1. y \in Used /\ y # i /\ y # x
      BY <1>1, <1>4, <2>2 DEF Used
    <3>. QED  BY <1>1, <1>2, <1>5, <2>2, <3>1
  <2>. QED  BY <1>1, <2>1, <2>2
<1>. QED  BY <1>5, <1>6, <1>7 DEF Placed

LEMMA EveryOrder ==
  ASSUME fl \in Flists, fl.number <= NFUNCS, fl.number > 1, NEW t \in Orders
  PROVE  With(t) \in Shuffled[fl.number - 1]
<1>. DEFINE Bad   == {k \in 0 .. (fl.number - 1) : ~Placed(k, t)}
            least == Min(Bad)
<1>1. fl.number \in Nat /\ NFUNCS \in Nat
  BY FlistAssumption DEF Flists
<1>2. Bad = {}
  <2>1. SUFFICES ASSUME Bad # {} PROVE FALSE
    OBVIOUS
  <2>2. Bad \in SUBSET Nat
    BY <1>1
  <2>3. least \in Bad /\ \A k \in Bad : least <= k
    <3>. HIDE DEF Bad
    <3>. QED  BY <2>1, <2>2, MinOfNat
  <2>. HIDE DEF least
  <2>4. Placed(0, t)
    <3>1. (fl.number - 0) .. (fl.number - 1) = {}
      BY <1>1
    <3>. QED  BY <3>1, AsItIs, ShuffledUnfold DEF Placed
  <2>5. /\ least - 1 \in 0 .. (fl.number - 2) /\ (least - 1) + 1 = least
        /\ least - 1 \in 0 .. (fl.number - 1) /\ ~(least <= least - 1)
    BY <1>1, <2>3, <2>4
  <2>6. Placed(least - 1, t)
    BY <2>3, <2>5
  <2>7. Placed((least - 1) + 1, t)
    BY <2>5, <2>6, PlacedOnce
  <2>. QED  BY <2>3, <2>5, <2>7
<1>3. Placed(fl.number - 1, t)
  <2>1. fl.number - 1 \in 0 .. (fl.number - 1)
    BY <1>1
  <2>. QED  BY <1>2, <2>1
<1>4. PICK p \in Orders :
        /\ With(p) \in Shuffled[fl.number - 1]
        /\ \A y \in (fl.number - (fl.number - 1)) .. (fl.number - 1) : p[y] = t[y]
  BY <1>3 DEF Placed
<1>5. \A y \in Used : y # 0 => p[y] = t[y]
  <2>1. \A y \in Used : y # 0 => y \in (fl.number - (fl.number - 1)) .. (fl.number - 1)
    BY <1>1 DEF Used
  <2>. QED  BY <1>4, <2>1
<1>6. 0 \in Used
  BY <1>1 DEF Used
<1>7. PICK x \in Used : p[x] = t[0]
  BY <1>6, OrderParts
<1>8. p[0] = t[0]
  <2>1. x # 0 => t[x] = t[0]
    BY <1>5, <1>7
  <2>2. x = 0
    BY <1>6, <2>1, OrderParts
  <2>. QED  BY <1>7, <2>2
<1>9. p = t
  <2>1. p \in [Used -> Used] /\ t \in [Used -> Used]
    BY OrderParts
  <2>. QED  BY <1>5, <1>8, <2>1
<1>. QED  BY <1>4, <1>9

(* bstg_flist_shuffle() leaves the list in some order of its own, and in   *)
(* every one with some draws, for a list of any length.                    *)
THEOREM EveryOrderPossible == Spec => []AllOrders
<1>1. ASSUME fl \in Flists, fl.number <= NFUNCS, fl.number > 1
      PROVE  {l.pindex : l \in Shuffled[fl.number - 1]} = {Order(p) : p \in Orders}
  <2>1. \A p \in Orders : With(p).pindex = Order(p)
    BY <1>1 DEF With, Flists
  <2>2. fl.number - 1 \in 0 .. (fl.number - 1)
    BY <1>1 DEF Flists
  <2>3. \A l \in Shuffled[fl.number - 1] : \E p \in Orders : l = With(p)
    BY <1>1, <2>2, OnlyOrders
  <2>4. \A p \in Orders : With(p) \in Shuffled[fl.number - 1]
    BY <1>1, EveryOrder
  <2>5. ASSUME NEW l \in Shuffled[fl.number - 1]
        PROVE  \E p \in Orders : l.pindex = Order(p)
    BY <2>1, <2>3
  <2>6. ASSUME NEW p \in Orders
        PROVE  \E l \in Shuffled[fl.number - 1] : Order(p) = l.pindex
    BY <2>1, <2>4
  <2>. QED  BY <2>5, <2>6
<1>2. ListInv => AllOrders
  <2>. SUFFICES ASSUME ListInv, Built, fl.number > 1 PROVE AllOrders
    BY DEF AllOrders
  <2>1. fl \in Flists /\ fl.number <= NFUNCS
    BY DEF ListInv, CreateTypes, Built
  <2>. QED  BY <1>1, <2>1 DEF AllOrders, Orders, Order, Used
<1>. QED  BY <1>2, ListInvariance, PTL

-----------------------------------------------------------------------------
(* A bound of the steps that main() has left: import stores a number in    *)
(* each of its own, whether or not it gets on in the text, and stops when  *)
(* the array is full; the shuffle settles a cell, the sharding leaves      *)
(* cells behind it, and -r takes an entry.                                 *)
StepsLeft ==
  CASE pc = "init"    -> 3 * NFUNCS + 7
    [] pc = "import"  -> 3 * NFUNCS + 6 - count
    [] pc = "shuffle" -> NFUNCS + 4 + len
    [] pc = "shard"   -> NFUNCS + 1 - base
    [] pc = "open"    -> Len(entries) + 2
    [] pc = "header"  -> Len(entries) - next + 1
    [] OTHER          -> 0

(* Its parts, one for each value of pc.                                    *)
Counted ==
  /\ pc = "init"    => StepsLeft = 3 * NFUNCS + 7
  /\ pc = "import"  => StepsLeft = 3 * NFUNCS + 6 - count
  /\ pc = "shuffle" => StepsLeft = NFUNCS + 4 + len
  /\ pc = "shard"   => StepsLeft = NFUNCS + 1 - base
  /\ pc = "open"    => StepsLeft = Len(entries) + 2
  /\ pc = "header"  => StepsLeft = Len(entries) - next + 1
  /\ pc \in Final   => StepsLeft = 0

LEMMA StepsCounted == Counted /\ Counted'
<1>1. Counted
  BY DEF Counted, StepsLeft, Final
<1>2. Counted'
  BY DEF Counted, StepsLeft, Final
<1>. QED  BY <1>1, <1>2

LEMMA Counters ==
  ASSUME CreateTypes, ReadTypes
  PROVE  /\ NFUNCS \in Nat \ {0} /\ len \in 0 .. NFUNCS /\ base \in 0 .. NFUNCS
         /\ count \in 0 .. (NFUNCS + 1)
         /\ Len(entries) \in Nat /\ next \in 0 .. Len(entries)
BY FlistAssumption DEF CreateTypes, ReadTypes

(* mkpax ends: no list, no text of -S, however much of it the parser       *)
(* cannot get past, no number of shards and no archive keeps it going for  *)
(* more steps than StepsLeft says at the beginning.                        *)
THEOREM NoStepForNothing ==
  Spec => /\ [](StepsLeft \in Nat)
          /\ [][StepsLeft' < StepsLeft]_vars
<1>1. ListInv /\ ReadInv => StepsLeft \in Nat
  <2>. SUFFICES ASSUME ListInv, ReadInv PROVE StepsLeft \in Nat
    OBVIOUS
  <2>1. /\ NFUNCS \in Nat \ {0} /\ len \in 0 .. NFUNCS /\ base \in 0 .. NFUNCS
        /\ count \in 0 .. (NFUNCS + 1)
        /\ Len(entries) \in Nat /\ next \in 0 .. Len(entries)
    BY Counters DEF ListInv, ReadInv
  <2>2. pc \in {"init", "import", "shuffle", "shard", "open", "header"} \cup Final
    BY DEF ListInv, CreateTypes
  <2>. HIDE DEF StepsLeft
  <2>. QED  BY <2>1, <2>2, StepsCounted DEF Counted
<1>2. ASSUME ListInv, ListInv', ReadInv, ReadInv', Next, vars' # vars
      PROVE  StepsLeft' < StepsLeft
  <2>1. /\ NFUNCS \in Nat \ {0} /\ len \in 0 .. NFUNCS /\ base \in 0 .. NFUNCS
        /\ count \in 0 .. (NFUNCS + 1)
        /\ Len(entries) \in Nat /\ next \in 0 .. Len(entries)
    BY <1>2, Counters DEF ListInv, ReadInv
  <2>2. len' \in 0 .. NFUNCS /\ base' \in 0 .. NFUNCS /\ count' \in 0 .. (NFUNCS + 1)
    BY <1>2 DEF ListInv, CreateTypes
  <2>3. Counted /\ Counted'
    BY StepsCounted
  <2>. HIDE DEF StepsLeft
  <2>4. CASE InitFlist
    <3>1. /\ pc = "init"
          /\ pc' = "aborted" \/ (pc' \in {"shuffle", "import"} /\ count' = count)
      BY <2>4 DEF InitFlist, Stop
    <3>2. pc' = "aborted" => pc' \in Final
      BY DEF Final
    <3>. QED  BY <2>1, <2>2, <2>3, <3>1, <3>2 DEF Counted
  <2>5. CASE ImportNumber
    <3>1. /\ pc = "import" /\ count <= NFUNCS /\ count' = count + 1
          /\ pc' = "aborted" \/ pc' = pc
      BY <1>2, <2>5 DEF ImportNumber, Stop, ListInv
    <3>2. pc' = "aborted" => pc' \in Final
      BY DEF Final
    <3>. QED  BY <2>1, <2>2, <2>3, <3>1, <3>2 DEF Counted
  <2>6. CASE ImportEnd
    <3>1. /\ pc = "import" /\ count <= NFUNCS /\ len' = count
          /\ pc' = "aborted" \/ pc' = "shuffle"
      BY <1>2, <2>6 DEF ImportEnd, Stop, ListInv
    <3>2. pc' = "aborted" => pc' \in Final
      BY DEF Final
    <3>. QED  BY <2>1, <2>2, <2>3, <3>1, <3>2 DEF Counted
  <2>7. CASE ShuffleStep
    <3>1. pc = "shuffle" /\ pc' = "shuffle" /\ len' = len - 1
      BY <2>7 DEF ShuffleStep
    <3>2. StepsLeft = NFUNCS + 4 + len /\ StepsLeft' = NFUNCS + 4 + len'
      BY <2>3, <3>1 DEF Counted
    <3>. QED  BY <2>1, <3>1, <3>2
  <2>8. CASE ShuffleEnd
    <3>1. pc = "shuffle" /\ pc' = "shard"
      BY <2>8 DEF ShuffleEnd
    <3>2. StepsLeft = NFUNCS + 4 + len /\ StepsLeft' = NFUNCS + 1 - base'
      BY <2>3, <3>1 DEF Counted
    <3>3. base' \in Nat /\ len \in Nat /\ NFUNCS \in Nat
      BY <2>1, <2>2
    <3>4. \A b, l \in Nat : NFUNCS + 1 - b < NFUNCS + 4 + l
      BY <3>3
    <3>. QED  BY <3>2, <3>3, <3>4, Zenon
  <2>9. CASE Shard
    <3>1. pc = "shard" /\ (pc' \in {"aborted", "errx", "refused"} \/ (pc' = pc /\ base' > base))
      <4>. DEFINE upper == base + ShardSize(fl.number, base)
      <4>1. /\ pc = "shard" /\ optJ # 0
            /\ fl' = SetRange(fl, base, upper)
            /\ IF SetOK(fl, base, upper)
               THEN WriteArchive(fl') ELSE Stop("refused")
        BY <2>9 DEF Shard
      <4>2. CASE ~SetOK(fl, base, upper)
        BY <4>1, <4>2 DEF Stop
      <4>3. CASE SetOK(fl, base, upper)
        <5>1. \/ base' = fl'.upper /\ pc' = pc
              \/ pc' \in {"aborted", "errx"}
          BY <4>1, <4>3 DEF WriteArchive, Stop
        <5>2. upper \in Int /\ base < upper
          <6>1. fl.number \in Nat /\ base \in Nat /\ optJ \in Nat
            BY <1>2, <2>1 DEF ListInv, CreateTypes, Flists
          <6>2. ShardSize(fl.number, base) \in Int
            BY <4>1, <6>1, ShardSizeType
          <6>. QED  BY <4>3, <6>1, <6>2 DEF SetOK
        <5>. HIDE DEF upper
        <5>3. fl'.upper = upper
          <6>1. fl \in Flists /\ base \in Nat /\ upper \in Int
            BY <1>2, <2>1, <5>2 DEF ListInv, CreateTypes
          <6>2. SetOK(fl, base, upper) /\ fl' = SetRange(fl, base, upper)
            BY <4>1, <4>3 DEF upper
          <6>. QED  BY <6>1, <6>2, SetRangeOK
        <5>. QED  BY <4>1, <5>1, <5>2, <5>3, <2>1
      <4>. QED  BY <4>2, <4>3
    <3>2. pc' \in {"aborted", "errx", "refused"} => pc' \in Final
      BY DEF Final
    <3>. QED  BY <2>1, <2>2, <2>3, <3>1, <3>2 DEF Counted
  <2>10. CASE ShardByZero \/ ShardEnd
    <3>1. pc = "shard" /\ pc' \in Final
      BY <2>10 DEF ShardByZero, ShardEnd, Stop, Final
    <3>. QED  BY <2>1, <2>2, <2>3, <3>1 DEF Counted
  <2>11. CASE OpenArchive
    <3>1. /\ pc = "open"
          /\ pc' = "errx" \/ (pc' = "header" /\ entries' = entries /\ next' = next)
      BY <2>11 DEF OpenArchive, Stop, read
    <3>2. pc' = "errx" => pc' \in Final
      BY DEF Final
    <3>. QED  BY <2>1, <2>3, <3>1, <3>2 DEF Counted
  <2>12. CASE ReadEntry
    <3>1. /\ pc = "header" /\ next < Len(entries)
          /\ pc' = "errx" \/ (pc' = pc /\ entries' = entries /\ next' = next + 1)
      BY <2>12 DEF ReadEntry, Stop
    <3>2. pc' = "errx" => pc' \in Final
      BY DEF Final
    <3>. QED  BY <2>1, <2>3, <3>1, <3>2 DEF Counted
  <2>13. CASE CloseArchive
    <3>1. pc = "header" /\ pc' \in Final
      BY <2>13 DEF CloseArchive, Stop, Final
    <3>. QED  BY <2>1, <2>3, <3>1 DEF Counted
  <2>14. ~Ended
    BY <1>2 DEF Ended
  <2>. QED
    BY <1>2, <2>4, <2>5, <2>6, <2>7, <2>8, <2>9, <2>10, <2>11, <2>12, <2>13, <2>14 DEF Next
<1>3. ListInv /\ ListInv' /\ ReadInv /\ ReadInv' /\ [Next]_vars
      => [StepsLeft' < StepsLeft]_vars
  BY <1>2
<1>. QED  BY <1>1, <1>3, ListInvariance, ReadInvariance, PTL DEF Spec

=============================================================================
