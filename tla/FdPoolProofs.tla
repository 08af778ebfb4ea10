----------------------------- MODULE FdPoolProofs -----------------------------
(***************************************************************************)
(* Proofs about FdPool for every size of the descriptor table, every limit *)
(* and every width of the counter.  The lemmas say what each library       *)
(* function of FdStore guarantees to its caller; the theorems use nothing  *)
(* but those guarantees.                                                   *)
(***************************************************************************)
EXTENDS FdPool, FiniteSetTheorems, WellFoundedInduction, TLAPS

(* What holds of a live store between two library calls.                   *)
StoreOK(s) ==
  /\ s \in StoreType
  /\ s.magic
  /\ 0 \notin s.fds
  /\ s.max \in s.fds \cup {-1}
  /\ \A fd \in s.fds : fd <= s.max

Usable(s, t) == \E fd \in Fd \ {0} : fd \notin t \/ fd \in s.fds

(* Nothing but descriptor 0 is left untracked that was not so before.      *)
Tidy(s, t, fresh, r) ==
  r.open \ r.ps.fds \subseteq ((t \ s.fds) \ fresh) \cup {0}

(* The guarantee of a call that adds to the set, fresh being descriptors   *)
(* the caller has just opened: what was tracked or open stays so, what was *)
(* open and untracked is not taken over, no entry gets stale, and nothing  *)
(* leaks unless the limit is passed.                                       *)
Grows(s, t, fresh, r) ==
  /\ StoreOK(r.ps)
  /\ t \subseteq r.open
  /\ r.open \subseteq Fd
  /\ s.fds \subseteq r.ps.fds
  /\ r.ps.fds \cap t \subseteq s.fds \cup fresh
  /\ r.ps.fds \ r.open \subseteq s.fds \ t
  /\ s.max <= r.ps.max
  /\ r.ps.max <= ReplaceMax => Tidy(s, t, fresh, r)

(* Two such calls in a row are one.                                        *)
LEMMA GrowsTwice ==
  ASSUME NEW s, StoreOK(s), NEW t, NEW f1, NEW r1, Grows(s, t, f1, r1),
         NEW f2, NEW r2, Grows(r1.ps, r1.open, f2, r2)
  PROVE  Grows(s, t, f1 \cup f2, r2)
<1>1. s.max <= r2.ps.max /\ (r2.ps.max <= ReplaceMax => r1.ps.max <= ReplaceMax)
  <2>1. s.max \in Int /\ r1.ps.max \in Int /\ r2.ps.max \in Int
    BY StoreAssumption DEF Grows, StoreOK, StoreType, Fd
  <2>2. s.max <= r1.ps.max /\ r1.ps.max <= r2.ps.max
    BY DEF Grows
  <2>. QED  BY <2>1, <2>2, StoreAssumption
<1>2. r2.ps.max <= ReplaceMax => Tidy(s, t, f1 \cup f2, r2)
  BY <1>1 DEF Grows, Tidy
<1>. QED  BY <1>1, <1>2 DEF Grows

-----------------------------------------------------------------------------
Less == {p \in Nat \X Nat : p[1] < p[2]}

LEMMA LessWellFounded == IsWellFoundedOn(Less, Nat)
  BY NatLessThanWellFounded, Zenon DEF OpToRel, Less

(* Every set of naturals that is not empty has a least element.            *)
LEMMA MinOfNat ==
  ASSUME NEW S \in SUBSET Nat, S # {}
  PROVE  Min(S) \in S /\ \A y \in S : Min(S) <= y
<1>1. PICK x \in S : \A y \in S : ~(<<y, x>> \in Less)
  BY WFMin, LessWellFounded, Zenon
<1>2. \A y \in S : ~(y < x)
  BY <1>1 DEF Less
<1>3. \A y \in S : x <= y
  BY <1>2
<1>. QED  BY <1>3 DEF Min

(* open() hands out a descriptor that was free, and no smaller one was.    *)
LEMMA LowestFreeIsFree ==
  ASSUME NEW t, Free(t) # {}
  PROVE  /\ LowestFree(t) \in Fd
         /\ LowestFree(t) \notin t
         /\ \A fd \in Free(t) : LowestFree(t) <= fd
<1>1. Free(t) \in SUBSET Nat
  BY StoreAssumption DEF Free, Fd
<1>. QED  BY <1>1, MinOfNat DEF LowestFree, Free

(* A lookup moves the cursor and nothing else, and finds a tracked         *)
(* descriptor or -1.                                                       *)
LEMMA AdvanceOK ==
  ASSUME NEW s, StoreOK(s), NEW n \in Nat
  PROVE  StoreOK(Advance(s, n)) /\ Advance(s, n).fds = s.fds
                                /\ Advance(s, n).max = s.max
<1>1. (s.count + n) % CountMod \in 0 .. (CountMod - 1)
  <2>1. s.count + n \in Nat
    BY StoreAssumption DEF StoreOK, StoreType
  <2>. QED  BY <2>1, StoreAssumption
<1>2. DOMAIN s = {"magic", "max", "count", "fds"}
  BY DEF StoreOK, StoreType
<1>3. /\ Advance(s, n) \in StoreType
      /\ Advance(s, n).magic = s.magic
      /\ Advance(s, n).max = s.max
      /\ Advance(s, n).fds = s.fds
  <2>. DEFINE c == (s.count + n) % CountMod
  <2>1. Advance(s, n) = [s EXCEPT !.count = c]
    BY DEF Advance
  <2>2. c \in 0 .. (CountMod - 1)
    BY <1>1
  <2>. HIDE DEF c
  <2>. QED  BY <2>1, <2>2 DEF StoreOK, StoreType
<1>. QED  BY <1>3 DEF StoreOK

LEMMA GetRawOK ==
  ASSUME NEW s, StoreOK(s)
  PROVE  /\ StoreOK(GetRaw(s).ps)
         /\ GetRaw(s).ps.fds = s.fds
         /\ GetRaw(s).ps.max = s.max
         /\ GetRaw(s).fd \in s.fds \cup {-1}
<1>1. s.max \in Fd \cup {-1} /\ s.max + 1 \in Nat
  BY StoreAssumption DEF StoreOK, StoreType, Fd
<1>2. CASE Hits(s) = {}
  BY <1>1, <1>2, AdvanceOK DEF GetRaw
<1>3. CASE Hits(s) # {}
  <2>1. Hits(s) \in SUBSET Nat
    BY <1>1, StoreAssumption DEF Hits, Fd
  <2>2. Min(Hits(s)) \in Hits(s)
    BY <2>1, <1>3, MinOfNat
  <2>3. Slot(s, Min(Hits(s))) \in s.fds
    BY <2>2 DEF Hits
  <2>4. Min(Hits(s)) + 1 \in Nat
    BY <2>1, <2>2
  <2>. QED  BY <1>3, <2>3, <2>4, AdvanceOK DEF GetRaw
<1>. QED  BY <1>2, <1>3

LEMMA TrackOK ==
  ASSUME NEW s, StoreOK(s), NEW fd \in Fd \cup {-1}
  PROVE  /\ StoreOK(Track(s, fd))
         /\ Track(s, fd).fds = IF fd > 0 THEN s.fds \cup {fd} ELSE s.fds
         /\ s.max <= Track(s, fd).max
<1>1. s.max \in Fd \cup {-1} /\ Fd \subseteq Int /\ s.fds \subseteq Fd
  BY StoreAssumption DEF StoreOK, StoreType, Fd
<1>2. CASE fd > 0
  <2>. DEFINE m == IF fd > s.max THEN fd ELSE s.max
              f == s.fds \cup {fd}
  <2>1. Track(s, fd) = [s EXCEPT !.max = m, !.fds = f]
    BY <1>2 DEF Track
  <2>2. /\ m \in f
        /\ m \in Fd
        /\ s.max <= m
        /\ \A d \in f : d <= m
        /\ f \subseteq Fd
        /\ 0 \notin f
    <3>1. fd \in Fd /\ fd \in Int /\ s.max \in Int /\ fd # 0
      <4>1. fd # -1
        BY <1>2
      <4>2. fd \in Fd
        BY <4>1
      <4>3. fd \in Int /\ s.max \in Int
        BY <1>1, <4>2, StoreAssumption DEF Fd
      <4>. QED  BY <1>2, <4>2, <4>3
    <3>2. f \subseteq Fd /\ 0 \notin f
      BY <1>1, <3>1 DEF StoreOK
    <3>3. m \in f
      BY <1>2, <3>1 DEF StoreOK
    <3>4. s.max <= m /\ fd <= m /\ m \in Int
      BY <3>1
    <3>5. \A d \in f : d <= m
      <4>1. \A d \in s.fds : d <= s.max /\ d \in Int
        BY <1>1 DEF StoreOK
      <4>. HIDE DEF m
      <4>. QED  BY <4>1, <3>1, <3>4
    <3>. QED  BY <3>2, <3>3, <3>4, <3>5
  <2>. HIDE DEF m, f
  <2>3. /\ Track(s, fd) \in StoreType
        /\ Track(s, fd).magic = s.magic
        /\ Track(s, fd).max = m
        /\ Track(s, fd).fds = f
    BY <2>1, <2>2 DEF StoreOK, StoreType
  <2>. QED  BY <1>2, <2>2, <2>3 DEF StoreOK, f
<1>3. CASE ~(fd > 0)
  <2>1. s.max <= s.max
    BY <1>1, StoreAssumption DEF Fd
  <2>. QED  BY <1>3, <2>1 DEF Track
<1>. QED  BY <1>2, <1>3

(* bstg_fdstore_set(): the answer to a descriptor above 0 is tracked, and  *)
(* a failed open() is passed through.                                      *)
LEMMA SetOK ==
  ASSUME NEW s, StoreOK(s), NEW t \in SUBSET Fd, NEW fd \in t \cup {-1}
  PROVE  LET r == SetFd(s, t, fd)
         IN  /\ Grows(s, t, {fd}, r)
             /\ fd > 0 => r.ret \in r.ps.fds
             /\ r.ret \in Fd \cup {-1}
             /\ r.open \subseteq t \cup s.fds
             /\ r.ps.fds \subseteq s.fds \cup {fd}
<1>. DEFINE looked == IF s.max > ReplaceMax THEN GetRaw(s).ps ELSE s
            newd   == GetRaw(s).fd
<1>1. StoreOK(looked) /\ looked.fds = s.fds /\ looked.max = s.max
  BY GetRawOK
<1>2. /\ newd \in s.fds \cup {-1} /\ s.fds \subseteq Fd
      /\ Fd \subseteq Nat /\ s.max \in Int
  BY GetRawOK, StoreAssumption DEF StoreOK, StoreType, Fd
<1>3. CASE Replaces(s, t, fd)
  <2>1. SetFd(s, t, fd) = [ps |-> looked, open |-> t \cup {newd}, ret |-> newd]
    BY <1>3 DEF SetFd
  <2>2. newd \in s.fds /\ fd \in t /\ fd # -1
    BY <1>2, <1>3, StoreAssumption DEF Replaces, Fd
  <2>. HIDE DEF looked, newd
  <2>3. /\ SetFd(s, t, fd).ps = looked
        /\ SetFd(s, t, fd).open = t \cup {newd}
        /\ SetFd(s, t, fd).ret = newd
    BY <2>1
  <2>4. t \cup {newd} \subseteq Fd /\ newd \in Fd
    BY <1>2, <2>2
  <2>5. s.max > ReplaceMax /\ s.max <= s.max
    BY <1>2, <1>3, StoreAssumption DEF Replaces
  <2>6. Grows(s, t, {fd}, SetFd(s, t, fd))
    BY <1>1, <1>2, <2>3, <2>4, <2>5, StoreAssumption DEF Grows
  <2>. QED  BY <1>1, <2>2, <2>3, <2>4, <2>6
<1>4. CASE ~Replaces(s, t, fd)
  <2>1. SetFd(s, t, fd) = [ps |-> Track(looked, fd), open |-> t, ret |-> fd]
    BY <1>4 DEF SetFd
  <2>2. /\ StoreOK(Track(looked, fd))
        /\ Track(looked, fd).fds = IF fd > 0 THEN s.fds \cup {fd} ELSE s.fds
        /\ s.max <= Track(looked, fd).max
    BY <1>1, TrackOK
  <2>. HIDE DEF looked, newd
  <2>3. Tidy(s, t, {fd}, SetFd(s, t, fd))
    <3>1. t \ Track(looked, fd).fds \subseteq ((t \ s.fds) \ {fd}) \cup {0}
      BY <1>2, <2>2
    <3>. QED  BY <2>1, <3>1 DEF Tidy
  <2>4. Track(looked, fd).fds \ t \subseteq s.fds \ t
    <3>1. fd > 0 => fd \in t
      BY <1>2
    <3>. QED  BY <2>2, <3>1
  <2>5. Grows(s, t, {fd}, SetFd(s, t, fd))
    BY <1>1, <1>2, <2>1, <2>2, <2>3, <2>4 DEF Grows
  <2>. QED  BY <1>1, <1>2, <2>1, <2>2, <2>5
<1>. QED  BY <1>3, <1>4

(* Nothing leaks as long as the limit has not been passed before the call. *)
LEMMA SetTidy ==
  ASSUME NEW s, StoreOK(s), s.max <= ReplaceMax,
         NEW t \in SUBSET Fd, NEW fd \in t \cup {-1}
  PROVE  Tidy(s, t, {fd}, SetFd(s, t, fd))
<1>1. s.max \in Int /\ Fd \subseteq Nat
  BY StoreAssumption DEF StoreOK, StoreType, Fd
<1>2. ~(s.max > ReplaceMax)
  BY <1>1, StoreAssumption
<1>3. SetFd(s, t, fd) = [ps |-> Track(s, fd), open |-> t, ret |-> fd]
  BY <1>2 DEF SetFd, Replaces
<1>4. Track(s, fd).fds = IF fd > 0 THEN s.fds \cup {fd} ELSE s.fds
  BY TrackOK
<1>5. t \ Track(s, fd).fds \subseteq ((t \ s.fds) \ {fd}) \cup {0}
  BY <1>1, <1>4
<1>. QED  BY <1>3, <1>5 DEF Tidy

(* bstg_fdstore_get2(): the answer is tracked or -1, and a -1 leaves the   *)
(* set as it was and opens nothing but descriptor 0.                       *)
LEMMA GetOK ==
  ASSUME NEW s, StoreOK(s), NEW t \in SUBSET Fd, NEW opens \in Opens
  PROVE  LET r == GetFd(s, t, opens)
         IN  /\ Grows(s, t, {}, r)
             /\ r.ret \in r.ps.fds \cup {-1}
             /\ r.ret = -1 => r.ps.fds = s.fds /\ r.open \subseteq t \cup {0}
<1>. DEFINE raw    == GetRaw(s)
            zero   == opens > 0 /\ 0 \notin t
            tried  == IF zero THEN t \cup {0} ELSE t
            opened == Free(tried) # {} /\ opens > (IF zero THEN 1 ELSE 0)
            fd     == LowestFree(tried)
            got    == GetFd(s, t, opens)
<1>1. /\ StoreOK(raw.ps)
      /\ raw.ps.fds = s.fds
      /\ raw.ps.max = s.max
      /\ raw.fd \in s.fds \cup {-1}
  BY GetRawOK
<1>2. 0 \in Fd /\ Fd \subseteq Nat /\ s.max <= s.max
  BY StoreAssumption DEF Fd, StoreOK, StoreType
<1>3. tried \in SUBSET Fd /\ t \subseteq tried /\ tried \subseteq t \cup {0}
  BY <1>2
<1>4. CASE raw.fd > 0
  <2>1. got = [ps |-> raw.ps, open |-> t, ret |-> raw.fd]
    BY <1>4 DEF GetFd
  <2>2. raw.fd \in s.fds /\ raw.fd # -1
    BY <1>1, <1>4
  <2>. HIDE DEF got, raw
  <2>3. Tidy(s, t, {}, got)
    BY <1>1, <2>1 DEF Tidy
  <2>4. Grows(s, t, {}, got)
    BY <1>1, <1>2, <2>1, <2>3 DEF Grows, StoreOK, StoreType
  <2>. QED  BY <1>1, <2>1, <2>2, <2>3, <2>4 DEF got
<1>5. CASE ~(raw.fd > 0) /\ opened
  <2>1. got = SetFd(raw.ps, tried \cup {fd}, fd)
    BY <1>5 DEF GetFd
  <2>2. fd \in Fd /\ fd \notin tried
    BY <1>5, LowestFreeIsFree
  <2>3. fd > 0
    <3>1. 0 \in tried
      BY <1>5 DEF Opens
    <3>2. fd \in Nat /\ fd # 0
      BY <3>1, <2>2, <1>2
    <3>. HIDE DEF fd
    <3>. QED  BY <3>2
  <2>4. tried \cup {fd} \in SUBSET Fd
    BY <1>3, <2>2
  <2>. HIDE DEF tried, fd, raw, got
  <2>5. /\ Grows(raw.ps, tried \cup {fd}, {fd}, got)
        /\ got.ret \in got.ps.fds
        /\ got.ps.fds \subseteq raw.ps.fds \cup {fd}
    BY <1>1, <2>1, <2>3, <2>4, SetOK
  <2>6. got.ret # -1
    BY <2>5, <1>2 DEF Grows, StoreOK, StoreType
  <2>7. Tidy(raw.ps, tried \cup {fd}, {fd}, got) => Tidy(s, t, {}, got)
    BY <1>1, <1>3 DEF Tidy
  <2>8. Grows(s, t, {}, got)
    BY <1>1, <1>3, <2>2, <2>5, <2>7 DEF Grows, StoreOK, StoreType
  <2>. QED  BY <2>5, <2>6, <2>8 DEF got
<1>6. CASE ~(raw.fd > 0) /\ ~opened
  <2>1. got = [ps |-> raw.ps, open |-> tried, ret |-> -1]
    BY <1>6 DEF GetFd
  <2>. HIDE DEF tried, raw
  <2>2. got.ps = raw.ps /\ got.open = tried /\ got.ret = -1
    BY <2>1
  <2>3. Tidy(s, t, {}, got)
    BY <1>1, <1>3, <2>2 DEF Tidy
  <2>4. Grows(s, t, {}, got)
    BY <1>1, <1>2, <1>3, <2>2, <2>3 DEF Grows
  <2>5. got.ret \in got.ps.fds \cup {-1} /\ got.ps.fds = s.fds
    BY <1>1, <2>2
  <2>6. got.open \subseteq t \cup {0}
    BY <1>3, <2>2
  <2>. QED  BY <2>3, <2>4, <2>5, <2>6 DEF got
<1>. QED  BY <1>4, <1>5, <1>6

(* What it adds to the set is the lowest free descriptor above 0.          *)
LEMMA GetTidy ==
  ASSUME NEW s, StoreOK(s), s.max <= ReplaceMax,
         NEW t \in SUBSET Fd, NEW opens \in Opens
  PROVE  LET r == GetFd(s, t, opens)
         IN  /\ Tidy(s, t, {}, r)
             /\ r.ps.fds \subseteq s.fds \cup {LowestFree(t \cup {0})}
<1>. DEFINE raw    == GetRaw(s)
            zero   == opens > 0 /\ 0 \notin t
            tried  == IF zero THEN t \cup {0} ELSE t
            opened == Free(tried) # {} /\ opens > (IF zero THEN 1 ELSE 0)
            fd     == LowestFree(tried)
            got    == GetFd(s, t, opens)
<1>1. StoreOK(raw.ps) /\ raw.ps.fds = s.fds /\ raw.ps.max = s.max
  BY GetRawOK
<1>2. CASE ~(raw.fd > 0) /\ opened
  <2>1. got = SetFd(raw.ps, tried \cup {fd}, fd) /\ tried = t \cup {0}
    BY <1>2 DEF GetFd, Opens
  <2>2. fd \in Fd /\ fd \notin tried
    BY <1>2, LowestFreeIsFree
  <2>3. tried \cup {fd} \in SUBSET Fd
    <3>1. 0 \in Fd
      BY StoreAssumption DEF Fd
    <3>. HIDE DEF fd, tried
    <3>. QED  BY <2>1, <2>2, <3>1
  <2>4. fd = LowestFree(t \cup {0})
    BY <2>1
  <2>. HIDE DEF tried, fd, raw, got
  <2>5. /\ Tidy(raw.ps, tried \cup {fd}, {fd}, got)
        /\ got.ps.fds \subseteq raw.ps.fds \cup {fd}
    BY <1>1, <2>1, <2>3, SetTidy, SetOK
  <2>6. Tidy(s, t, {}, got)
    BY <1>1, <2>1, <2>5 DEF Tidy
  <2>. QED  BY <1>1, <2>4, <2>5, <2>6 DEF got
<1>3. CASE raw.fd > 0 \/ ~opened
  <2>1. got.ps = raw.ps /\ got.open \subseteq t \cup {0}
    BY <1>3 DEF GetFd
  <2>. HIDE DEF tried, fd, raw, got
  <2>2. Tidy(s, t, {}, got) /\ got.ps.fds = s.fds
    BY <1>1, <2>1 DEF Tidy
  <2>. QED  BY <2>2 DEF got
<1>. QED  BY <1>2, <1>3

(* A tracked descriptor is usable, and bstg_fdstore_get2() never uses up   *)
(* the last usable one.                                                    *)
LEMMA TrackedUsable ==
  ASSUME NEW s, StoreOK(s), NEW t, NEW fd \in s.fds
  PROVE  Usable(s, t)
  BY DEF Usable, StoreOK, StoreType

LEMMA SetUsable ==
  ASSUME NEW s, StoreOK(s), NEW t \in SUBSET Fd, NEW fd \in t \cup {-1},
         Usable(s, t) \/ fd > 0
  PROVE  Usable(SetFd(s, t, fd).ps, SetFd(s, t, fd).open)
<1>. DEFINE r == SetFd(s, t, fd)
<1>1. /\ Grows(s, t, {fd}, r)
      /\ fd > 0 => r.ret \in r.ps.fds
      /\ r.open \subseteq t \cup s.fds
  BY SetOK
<1>. HIDE DEF r
<1>2. ASSUME fd > 0 PROVE Usable(r.ps, r.open)
  BY <1>1, <1>2, TrackedUsable DEF Grows
<1>3. ASSUME Usable(s, t) PROVE Usable(r.ps, r.open)
  BY <1>1, <1>3 DEF Usable, Grows
<1>4. Usable(r.ps, r.open)
  BY <1>2, <1>3
<1>. QED  BY <1>4 DEF r

LEMMA GetUsable ==
  ASSUME NEW s, StoreOK(s), NEW t \in SUBSET Fd, NEW opens \in Opens,
         Usable(s, t)
  PROVE  Usable(GetFd(s, t, opens).ps, GetFd(s, t, opens).open)
<1>. DEFINE got == GetFd(s, t, opens)
<1>1. /\ Grows(s, t, {}, got)
      /\ got.ret \in got.ps.fds \cup {-1}
      /\ got.ret = -1 => got.ps.fds = s.fds /\ got.open \subseteq t \cup {0}
  BY GetOK
<1>. HIDE DEF got
<1>2. ASSUME got.ret \in got.ps.fds PROVE Usable(got.ps, got.open)
  BY <1>1, <1>2, TrackedUsable DEF Grows
<1>3. ASSUME got.ret = -1 PROVE Usable(got.ps, got.open)
  BY <1>1, <1>3 DEF Usable
<1>4. Usable(got.ps, got.open)
  BY <1>1, <1>2, <1>3
<1>. QED  BY <1>4 DEF got

-----------------------------------------------------------------------------
(* closeall and destroy.                                                   *)
LEMMA CloseAllOK ==
  ASSUME NEW s \in StoreType, NEW t \in SUBSET Fd, s.magic => StoreOK(s)
  PROVE  LET r == CloseAll(s, t)
         IN  /\ r.ps \in StoreType
             /\ r.ps.magic = s.magic
             /\ r.ps.magic => StoreOK(r.ps)
             /\ s.magic => /\ r.open = t \ s.fds
                           /\ r.ps.fds = {}
                           /\ r.ret = 0
             /\ ~s.magic => r = [ps |-> s, open |-> t, ret |-> EINVAL]
<1>1. CASE ~s.magic
  BY <1>1 DEF CloseAll
<1>2. CASE s.magic
  <2>1. CloseAll(s, t) = [ps |-> Reset(s), open |-> t \ ToClose(s), ret |-> 0]
    BY <1>2 DEF CloseAll
  <2>2. ToClose(s) = s.fds
    BY <1>2, StoreAssumption DEF ToClose, StoreOK, StoreType, Fd
  <2>3. /\ Reset(s) \in StoreType
        /\ Reset(s).magic
        /\ Reset(s).max = -1
        /\ Reset(s).fds = {}
    <3>1. -1 \in Fd \cup {-1} /\ 0 \in 0 .. (CountMod - 1) /\ {} \in SUBSET Fd
      BY StoreAssumption
    <3>. QED  BY <1>2, <3>1 DEF Reset, StoreType
  <2>4. StoreOK(Reset(s))
    BY <2>3 DEF StoreOK
  <2>5. /\ CloseAll(s, t).ps = Reset(s)
        /\ CloseAll(s, t).open = t \ s.fds
        /\ CloseAll(s, t).ret = 0
    BY <2>1, <2>2
  <2>. QED  BY <1>2, <2>3, <2>4, <2>5
<1>. QED  BY <1>1, <1>2

LEMMA DestroyOK ==
  ASSUME NEW s, StoreOK(s), NEW t \in SUBSET Fd
  PROVE  LET r == DestroyStore(s, t)
         IN  /\ r.ps \in StoreType
             /\ ~r.ps.magic
             /\ r.ps.fds = {}
             /\ r.open = t \ s.fds
             /\ r.ret = 0
<1>. DEFINE c == CloseAll(s, t)
            r == DestroyStore(s, t)
<1>1. c.ps \in StoreType /\ c.open = t \ s.fds /\ c.ps.fds = {} /\ c.ret = 0
  BY CloseAllOK DEF StoreOK
<1>2. r = [c EXCEPT !.ps.magic = FALSE]
  BY <1>1 DEF DestroyStore
<1>3. c = [ps |-> c.ps, open |-> c.open, ret |-> c.ret]
  BY DEF CloseAll
<1>. HIDE DEF c, r
<1>4. /\ r.ps = [c.ps EXCEPT !.magic = FALSE]
      /\ r.open = c.open
      /\ r.ret = c.ret
  BY <1>2, <1>3
<1>5. r.ps \in StoreType /\ ~r.ps.magic /\ r.ps.fds = {}
  BY <1>1, <1>4 DEF StoreType
<1>. QED  BY <1>1, <1>4, <1>5 DEF r

LEMMA InitStoreOK ==
  ASSUME NEW s \in StoreType
  PROVE  /\ StoreOK(InitStore(s))
         /\ InitStore(s).max = -1
         /\ InitStore(s).fds = {}
<1>. DEFINE u == [s EXCEPT !.magic = TRUE]
<1>1. InitStore(s) = Reset(u)
  BY DEF InitStore
<1>2. u \in StoreType /\ u.magic
  BY DEF StoreType
<1>. HIDE DEF u
<1>3. /\ Reset(u) \in StoreType
      /\ Reset(u).magic
      /\ Reset(u).max = -1
      /\ Reset(u).fds = {}
  <2>1. -1 \in Fd \cup {-1} /\ 0 \in 0 .. (CountMod - 1) /\ {} \in SUBSET Fd
    BY StoreAssumption
  <2>. QED  BY <1>2, <2>1 DEF Reset, StoreType
<1>. QED  BY <1>1, <1>3 DEF StoreOK

-----------------------------------------------------------------------------
(* What the library's functions need of the store and the table they are   *)
(* called with, and keep: s.max bounds the set, so that closing spares     *)
(* what is untracked, and a dead store is empty, so that a new             *)
(* bstg_fdstore_init() loses nothing.                                      *)
StoreInv == PoolTypeOK /\ MaxIsLargest /\ DeadIsEmpty

LEMMA LiveStore ==
  ASSUME StoreInv, ps.magic
  PROVE  StoreOK(ps) /\ open \in SUBSET Fd
  BY DEF StoreInv, PoolTypeOK, MaxIsLargest, StoreOK

(* A step that the promise allows, by what it does to the store: a live    *)
(* one grows around what is open and untracked or is emptied by closing    *)
(* all of it, a dead one may come to life.                                 *)
Careful ==
  \/ /\ ps.magic /\ ps'.magic
     /\ ps.fds \subseteq ps'.fds
     /\ open \ ps.fds \subseteq open' \ ps'.fds
  \/ /\ ps.magic
     /\ ps'.fds = {}
     /\ open' = open \ ps.fds
  \/ /\ ~ps.magic
     /\ ps'.fds = ps.fds
     /\ open' = open

(* What every operation guarantees to the program that runs it.            *)
StepOK ==
  /\ StoreInv'
  /\ Careful
  /\ NeverStarved => NeverStarved'
  /\ Stale' \subseteq Stale \/ Fdopendir
  /\ ps'.max <= ReplaceMax =>
       open' \ ps'.fds \subseteq (open \ ps.fds) \cup {0}

LEMMA UsableIsNeverStarved ==
  /\ NeverStarved <=> Usable(ps, open)
  /\ NeverStarved' <=> Usable(ps', open')
  BY DEF NeverStarved, Usable

(* What a step has to establish, in terms of the guarantees above.         *)
LEMMA LiveStep ==
  ASSUME StoreOK(ps'), open' \subseteq Fd, ret' \in Fd \cup {-1, 0, EINVAL}
  PROVE  StoreInv'
  BY DEF StoreInv, PoolTypeOK, MaxIsLargest, DeadIsEmpty, StoreOK

-----------------------------------------------------------------------------
(* One lemma per action.                                                   *)

(* A step that opens only fresh descriptors and leaves the last call's     *)
(* result.                                                                 *)
LEMMA GrowingStep ==
  ASSUME ps.magic, NEW fresh, fresh \cap open = {},
         NEW r, Grows(ps, open \cup fresh, fresh, r), Return(r),
         r.ret \in Fd \cup {-1, 0, EINVAL},
         Usable(ps, open) => Usable(r.ps, r.open)
  PROVE  StepOK /\ ps'.magic
<1>1. Careful
  BY DEF Grows, StoreOK, Return, Careful
<1>2. StoreInv'
  BY LiveStep DEF Grows, Return
<1>3. NeverStarved => NeverStarved'
  BY UsableIsNeverStarved DEF Return
<1>4. Stale' \subseteq Stale
  BY DEF Stale, Grows, Return
<1>5. ps'.max <= ReplaceMax =>
        open' \ ps'.fds \subseteq (open \ ps.fds) \cup {0}
  BY DEF Grows, Tidy, Return
<1>6. ps'.magic
  BY DEF Grows, StoreOK, Return
<1>. QED  BY <1>1, <1>2, <1>3, <1>4, <1>5, <1>6 DEF StepOK

LEMMA InitStep ==
  ASSUME StoreInv, FdstoreInit
  PROVE  StepOK
<1>1. /\ ps' = InitStore(ps)
      /\ open' = open
      /\ ret' = 0
      /\ ~ps.magic
  BY DEF FdstoreInit, Return
<1>2. ps \in StoreType /\ ps.fds = {} /\ open \subseteq Fd
  BY <1>1 DEF StoreInv, PoolTypeOK, DeadIsEmpty
<1>3. StoreOK(ps') /\ ps'.fds = {}
  BY <1>1, <1>2, InitStoreOK
<1>5. StoreInv'
  BY <1>1, <1>2, <1>3, LiveStep
<1>6. ps'.fds = ps.fds
  BY <1>2, <1>3
<1>7. Careful /\ (NeverStarved => NeverStarved') /\ Stale' \subseteq Stale
  BY <1>1, <1>6 DEF NeverStarved, Careful, Stale
<1>. QED  BY <1>1, <1>5, <1>6, <1>7 DEF StepOK

(* Closing everything frees what was tracked.                              *)
LEMMA ClosedStep ==
  ASSUME StoreInv, ps.magic, ps' \in StoreType, ps'.magic => StoreOK(ps'),
         open' = open \ ps.fds, ps'.fds = {}, ret' = 0
  PROVE  StepOK
<1>1. StoreInv'
  BY DEF StoreInv, PoolTypeOK, MaxIsLargest, DeadIsEmpty, StoreOK
<1>2. Careful /\ (NeverStarved => NeverStarved') /\ Stale' \subseteq Stale
  BY DEF NeverStarved, Careful, Stale
<1>. QED  BY <1>1, <1>2 DEF StepOK

LEMMA IdleStep ==
  ASSUME StoreInv, ps' = ps, open' = open, ret' \in Fd \cup {-1, 0, EINVAL}
  PROVE  StepOK
<1>1. StoreInv'
  BY DEF StoreInv, PoolTypeOK, MaxIsLargest, DeadIsEmpty
<1>2. Careful /\ (NeverStarved => NeverStarved') /\ Stale' \subseteq Stale
  BY DEF NeverStarved, Careful, Stale
<1>. QED  BY <1>1, <1>2 DEF StepOK

LEMMA CloseallStep ==
  ASSUME StoreInv, Closeall
  PROVE  StepOK
<1>. DEFINE r == CloseAll(ps, open)
<1>1. ps \in StoreType /\ open \in SUBSET Fd
  BY DEF StoreInv, PoolTypeOK
<1>2. /\ r.ps \in StoreType
      /\ r.ps.magic => StoreOK(r.ps)
      /\ ps.magic => r.open = open \ ps.fds /\ r.ps.fds = {} /\ r.ret = 0
      /\ ~ps.magic => r = [ps |-> ps, open |-> open, ret |-> EINVAL]
  BY <1>1, LiveStore, CloseAllOK
<1>3. ps' = r.ps /\ open' = r.open /\ ret' = r.ret
  BY DEF Closeall, Return
<1>. HIDE DEF r
<1>4. CASE ps.magic
  BY <1>2, <1>3, <1>4, ClosedStep
<1>5. CASE ~ps.magic
  BY <1>2, <1>3, <1>5, IdleStep
<1>. QED  BY <1>4, <1>5

LEMMA DestroyStep ==
  ASSUME StoreInv, FdstoreDestroy
  PROVE  StepOK
<1>. DEFINE r == DestroyStore(ps, open)
<1>1. ps' = r.ps /\ open' = r.open /\ ret' = r.ret
  BY DEF FdstoreDestroy, Return
<1>2. CASE ps.magic
  <2>1. StoreOK(ps) /\ open \in SUBSET Fd
    BY <1>2, LiveStore
  <2>. QED  BY <1>1, <1>2, <2>1, DestroyOK, ClosedStep
<1>3. CASE ~ps.magic
  <2>1. r = [ps |-> ps, open |-> open, ret |-> EINVAL]
    BY <1>3 DEF DestroyStore, CloseAll, EINVAL
  <2>. HIDE DEF r
  <2>. QED  BY <1>1, <2>1, IdleStep
<1>. QED  BY <1>2, <1>3

(* A fresh descriptor is above 0 unless 0 itself was free; in both cases   *)
(* handing it to bstg_fdstore_set() leaves something usable.               *)
LEMMA SetFreshUsable ==
  ASSUME NEW s, StoreOK(s), NEW t \in SUBSET Fd, Usable(s, t), NEW fd \in Fd
  PROVE  LET r == SetFd(s, t \cup {fd}, fd)
         IN  Usable(r.ps, r.open)
<1>1. Fd \subseteq Nat
  BY StoreAssumption DEF Fd
<1>2. t \cup {fd} \in SUBSET Fd
  OBVIOUS
<1>3. Usable(s, t \cup {fd}) \/ fd > 0
  <2>1. CASE fd = 0
    BY <2>1 DEF Usable
  <2>2. CASE fd # 0
    BY <1>1, <2>2
  <2>. QED  BY <2>1, <2>2
<1>. QED  BY <1>2, <1>3, SetUsable

LEMMA OpenStep ==
  ASSUME StoreInv, Open
  PROVE  StepOK /\ ps'.magic
<1>1. ps.magic /\ StoreOK(ps) /\ open \in SUBSET Fd
  BY LiveStore DEF Open
<1>2. CASE Return(SetFd(ps, open, -1))
  <2>. DEFINE r == SetFd(ps, open, -1)
  <2>1. -1 \in open \cup {-1}
    OBVIOUS
  <2>2. Grows(ps, open, {-1}, r) /\ r.ret \in Fd \cup {-1}
    BY <1>1, <2>1, SetOK
  <2>3. Usable(ps, open) => Usable(r.ps, r.open)
    BY <1>1, <2>1, SetUsable
  <2>4. -1 \notin Fd
    BY StoreAssumption DEF Fd
  <2>. HIDE DEF r
  <2>5. Grows(ps, open \cup {}, {}, r)
    BY <1>1, <2>2, <2>4 DEF Grows, Tidy
  <2>6. Return(r)
    BY <1>2 DEF r
  <2>. QED  BY <1>1, <2>2, <2>3, <2>5, <2>6, GrowingStep
<1>3. ASSUME Free(open) # {},
             Return(SetFd(ps, open \cup {LowestFree(open)}, LowestFree(open)))
      PROVE  StepOK /\ ps'.magic
  <2>. DEFINE fd == LowestFree(open)
              r  == SetFd(ps, open \cup {fd}, fd)
  <2>1. fd \in Fd /\ fd \notin open
    BY <1>3, LowestFreeIsFree
  <2>2. Return(r)
    BY <1>3
  <2>. HIDE DEF fd
  <2>3. open \cup {fd} \in SUBSET Fd /\ fd \in (open \cup {fd}) \cup {-1}
    BY <1>1, <2>1
  <2>4. Grows(ps, open \cup {fd}, {fd}, r) /\ r.ret \in Fd \cup {-1}
    BY <1>1, <2>3, SetOK
  <2>5. Usable(ps, open) => Usable(r.ps, r.open)
    BY <1>1, <2>1, SetFreshUsable
  <2>. HIDE DEF r
  <2>. QED  BY <1>1, <2>1, <2>2, <2>4, <2>5, GrowingStep
<1>. QED  BY <1>2, <1>3 DEF Open

(* The two ends of a pipe are new, and the second is above 0.              *)
LEMMA TwoFree ==
  ASSUME NEW t \in SUBSET Fd, Cardinality(Free(t)) >= 2
  PROVE  LET rd == LowestFree(t)
             wr == LowestFree(t \cup {rd})
         IN  rd \in Fd \ t /\ wr \in Fd \ t /\ wr # rd /\ wr > 0
<1>. DEFINE rd == LowestFree(t)
            wr == LowestFree(t \cup {rd})
<1>1. rd \in Free(t) /\ \A fd \in Free(t) : rd <= fd
  <2>1. Free(t) # {}
    BY FS_EmptySet
  <2>. QED  BY <2>1, LowestFreeIsFree DEF Free
<1>. HIDE DEF rd
<1>2. wr \in Free(t) /\ wr # rd
  <2>1. Free(t) # {rd}
    BY FS_Singleton
  <2>2. Free(t \cup {rd}) # {}
    BY <1>1, <2>1 DEF Free
  <2>. QED  BY <2>2, LowestFreeIsFree DEF Free
<1>. HIDE DEF wr
<1>3. wr > 0
  <2>1. rd \in Nat /\ wr \in Nat /\ rd <= wr
    BY <1>1, <1>2, StoreAssumption DEF Free, Fd
  <2>. QED  BY <1>2, <2>1
<1>. QED  BY <1>1, <1>2, <1>3 DEF Free, rd, wr

LEMMA PipeStep ==
  ASSUME StoreInv, Pipe
  PROVE  StepOK /\ ps'.magic
<1>. DEFINE rd    == LowestFree(open)
            wr    == LowestFree(open \cup {rd})
            both  == open \cup {rd, wr}
            first == SetFd(ps, both, rd)
            r     == SetFd(first.ps, first.open, wr)
<1>1. ps.magic /\ StoreOK(ps) /\ open \in SUBSET Fd
  BY LiveStore DEF Pipe
<1>2. Cardinality(Free(open)) >= 2 /\ Return(r)
  BY DEF Pipe
<1>3. rd \in Fd \ open /\ wr \in Fd \ open /\ wr > 0
  BY <1>1, <1>2, TwoFree
<1>. HIDE DEF rd, wr
<1>4. Grows(ps, both, {rd}, first)
  <2>1. both \in SUBSET Fd /\ rd \in both \cup {-1}
    BY <1>1, <1>3
  <2>. HIDE DEF both
  <2>. QED  BY <1>1, <2>1, SetOK
<1>. HIDE DEF first
<1>5. /\ StoreOK(first.ps)
      /\ first.open \in SUBSET Fd
      /\ wr \in first.open
  BY <1>4 DEF Grows
<1>6. /\ Grows(first.ps, first.open, {wr}, r)
      /\ r.ret \in Fd \cup {-1}
      /\ Usable(r.ps, r.open)
  BY <1>3, <1>5, SetOK, SetUsable
<1>. HIDE DEF r
<1>7. Grows(ps, both, {rd} \cup {wr}, r)
  BY <1>1, <1>4, <1>6, GrowsTwice
<1>8. Grows(ps, open \cup {rd, wr}, {rd, wr}, r)
  <2>1. {rd} \cup {wr} = {rd, wr}
    OBVIOUS
  <2>. QED  BY <1>7, <2>1
<1>. QED  BY <1>1, <1>2, <1>3, <1>6, <1>8, GrowingStep

LEMMA UseStep ==
  ASSUME StoreInv, Use
  PROVE  StepOK /\ ps'.magic
<1>1. ps.magic /\ StoreOK(ps) /\ open \in SUBSET Fd
  BY LiveStore DEF Use
<1>2. PICK opens \in Opens : Return(GetFd(ps, open, opens))
  BY DEF Use
<1>. DEFINE got == GetFd(ps, open, opens)
<1>3. /\ Grows(ps, open, {}, got)
      /\ got.ret \in got.ps.fds \cup {-1}
      /\ Usable(ps, open) => Usable(got.ps, got.open)
  BY <1>1, GetOK, GetUsable
<1>4. Return(got)
  BY <1>2
<1>. HIDE DEF got
<1>5. got.ret \in Fd \cup {-1} /\ Grows(ps, open \cup {}, {}, got)
  <2>1. open \cup {} = open
    OBVIOUS
  <2>. QED  BY <1>3, <2>1 DEF Grows, StoreOK, StoreType
<1>. QED  BY <1>1, <1>3, <1>4, <1>5, GrowingStep

LEMMA SendfileStep ==
  ASSUME StoreInv, Sendfile
  PROVE  StepOK /\ ps'.magic
<1>1. ps.magic /\ StoreOK(ps) /\ open \in SUBSET Fd
  BY LiveStore DEF Sendfile
<1>2. PICK o1 \in Opens, o2 \in Opens :
        LET from == GetFd(ps, open, o1)
        IN  Return(GetFd(from.ps, from.open, o2))
  BY DEF Sendfile
<1>. DEFINE from == GetFd(ps, open, o1)
            got  == GetFd(from.ps, from.open, o2)
<1>3. Grows(ps, open, {}, from) /\ (Usable(ps, open) => Usable(from.ps, from.open))
  BY <1>1, GetOK, GetUsable
<1>4. Return(got)
  BY <1>2
<1>. HIDE DEF from
<1>5. StoreOK(from.ps) /\ from.open \in SUBSET Fd
  BY <1>3 DEF Grows
<1>6. /\ Grows(from.ps, from.open, {}, got)
      /\ got.ret \in got.ps.fds \cup {-1}
      /\ Usable(from.ps, from.open) => Usable(got.ps, got.open)
  BY <1>5, GetOK, GetUsable
<1>. HIDE DEF got
<1>7. Grows(ps, open, {} \cup {}, got)
  BY <1>1, <1>3, <1>6, GrowsTwice
<1>8. got.ret \in Fd \cup {-1} /\ Grows(ps, open \cup {}, {}, got)
  <2>1. open \cup {} = open /\ {} \cup {} = {}
    OBVIOUS
  <2>. QED  BY <1>6, <1>7, <2>1 DEF Grows, StoreOK, StoreType
<1>. QED  BY <1>1, <1>3, <1>4, <1>6, <1>8, GrowingStep

(* closedir() closes the descriptor that the store handed out, which is    *)
(* tracked; afterwards it is free, hence usable.                           *)
LEMMA FdopendirStep ==
  ASSUME StoreInv, Fdopendir
  PROVE  StepOK /\ ps'.magic
<1>1. ps.magic /\ StoreOK(ps) /\ open \in SUBSET Fd
  BY LiveStore DEF Fdopendir
<1>2. PICK opens \in Opens, isdir \in BOOLEAN :
        LET got == GetFd(ps, open, opens)
        IN  Return([got EXCEPT !.open = IF isdir THEN @ \ {got.ret} ELSE @])
  BY DEF Fdopendir
<1>. DEFINE got == GetFd(ps, open, opens)
            r   == [got EXCEPT !.open = IF isdir THEN @ \ {got.ret} ELSE @]
<1>3. /\ Grows(ps, open, {}, got)
      /\ got.ret \in got.ps.fds \cup {-1}
      /\ Usable(ps, open) => Usable(got.ps, got.open)
  BY <1>1, GetOK, GetUsable
<1>4. Return(r)
  BY <1>2
<1>5. got = [ps |-> got.ps, open |-> got.open, ret |-> got.ret]
  BY DEF GetFd, SetFd
<1>. HIDE DEF got
<1>6. /\ r.ps = got.ps
      /\ r.open = IF isdir THEN got.open \ {got.ret} ELSE got.open
      /\ r.ret = got.ret
  BY <1>5
<1>7. ps' = got.ps /\ open' = r.open /\ ret' = got.ret
  BY <1>4, <1>6 DEF Return
<1>. HIDE DEF r
<1>8. Careful
  <2>1. -1 \notin Fd
    BY StoreAssumption DEF Fd
  <2>2. \A x \in open \ ps.fds : x # got.ret /\ x \in got.open /\ x \notin got.ps.fds
    BY <1>1, <1>3, <2>1 DEF Grows
  <2>3. \A x \in open \ ps.fds : x \in open' \ ps'.fds
    BY <1>6, <1>7, <2>2
  <2>4. ps.fds \subseteq ps'.fds
    BY <1>3, <1>7 DEF Grows
  <2>5. ps.magic /\ ps'.magic
    BY <1>1, <1>3, <1>7 DEF Grows, StoreOK
  <2>. QED  BY <2>3, <2>4, <2>5 DEF Careful
<1>9. NeverStarved => NeverStarved'
  BY <1>3, <1>6, <1>7, UsableIsNeverStarved DEF Usable
<1>10. StoreInv'
  BY <1>3, <1>6, <1>7, LiveStep DEF Grows, StoreOK, StoreType
<1>11. ps'.max <= ReplaceMax =>
         open' \ ps'.fds \subseteq (open \ ps.fds) \cup {0}
  BY <1>3, <1>6, <1>7 DEF Grows, Tidy
<1>12. ps'.magic
  BY <1>3, <1>7 DEF Grows, StoreOK
<1>. QED  BY <1>8, <1>9, <1>10, <1>11, <1>12 DEF StepOK

LEMMA ChdirGivesUpStep ==
  ASSUME StoreInv, ChdirGivesUp
  PROVE  StepOK /\ ps'.magic
<1>1. 0 \in Fd
  BY StoreAssumption DEF Fd
<1>2. ps.magic /\ StoreOK(ps) /\ open \in SUBSET Fd
  BY LiveStore DEF ChdirGivesUp
<1>3. ps' = ps /\ open' = open \cup {0} /\ ret' = ret
  BY DEF ChdirGivesUp
<1>4. StoreInv'
  BY <1>1, <1>2, <1>3, LiveStep DEF StoreInv, PoolTypeOK
<1>5. Careful /\ Stale' \subseteq Stale /\ (NeverStarved => NeverStarved')
  BY <1>2, <1>3 DEF Careful, Stale, StoreOK, NeverStarved
<1>. QED  BY <1>2, <1>3, <1>4, <1>5 DEF StepOK

(* The descriptor of "." is closed again at the end, hence usable, and it  *)
(* was never handed to the store.                                          *)
LEMMA FchdirStep ==
  ASSUME StoreInv, Fchdir
  PROVE  StepOK /\ ps'.magic
<1>1. ps.magic /\ StoreOK(ps) /\ open \in SUBSET Fd
  BY LiveStore DEF Fchdir
<1>. DEFINE cwdfd == LowestFree(open)
<1>2. cwdfd \in Fd /\ cwdfd \notin open /\ cwdfd # 0
  BY LowestFreeIsFree DEF Fchdir
<1>3. PICK opens \in Opens :
        LET got == GetFd(ps, open \cup {cwdfd}, opens)
        IN  Return([got EXCEPT !.open = @ \ {cwdfd}])
  BY DEF Fchdir
<1>. HIDE DEF cwdfd
<1>. DEFINE got == GetFd(ps, open \cup {cwdfd}, opens)
            r   == [got EXCEPT !.open = @ \ {cwdfd}]
<1>4. open \cup {cwdfd} \in SUBSET Fd
  BY <1>1, <1>2
<1>5. /\ Grows(ps, open \cup {cwdfd}, {}, got)
      /\ got.ret \in got.ps.fds \cup {-1}
  BY <1>1, <1>4, GetOK
<1>6. Return(r)
  BY <1>3
<1>7. got = [ps |-> got.ps, open |-> got.open, ret |-> got.ret]
  BY DEF GetFd, SetFd
<1>. HIDE DEF got
<1>8. /\ r.ps = got.ps
      /\ r.open = got.open \ {cwdfd}
      /\ r.ret = got.ret
  BY <1>7
<1>9. ps' = got.ps /\ open' = got.open \ {cwdfd} /\ ret' = got.ret
  BY <1>6, <1>8 DEF Return
<1>. HIDE DEF r
<1>10. Careful
  BY <1>1, <1>2, <1>5, <1>9 DEF Careful, Grows, StoreOK
<1>11. NeverStarved => NeverStarved'
  BY <1>2, <1>5, <1>9 DEF NeverStarved, Grows
<1>12. StoreInv'
  BY <1>5, <1>9, LiveStep DEF Grows, StoreOK, StoreType
<1>13. Stale' \subseteq Stale
  BY <1>2, <1>5, <1>9 DEF Stale, Grows
<1>14. ps'.max <= ReplaceMax =>
         open' \ ps'.fds \subseteq (open \ ps.fds) \cup {0}
  BY <1>5, <1>9 DEF Grows, Tidy
<1>15. ps'.magic
  BY <1>5, <1>9 DEF Grows, StoreOK
<1>. QED  BY <1>10, <1>11, <1>12, <1>13, <1>14, <1>15 DEF StepOK

-----------------------------------------------------------------------------
LEMMA PoolStep ==
  ASSUME StoreInv, [PoolNext]_poolVars
  PROVE  StepOK
<1>1. CASE UNCHANGED poolVars
  <2>1. ret' \in Fd \cup {-1, 0, EINVAL}
    BY <1>1 DEF StoreInv, PoolTypeOK, poolVars
  <2>. QED  BY <1>1, <2>1, IdleStep DEF poolVars
<1>2. CASE PoolNext
  BY <1>2, InitStep, DestroyStep, CloseallStep, OpenStep, PipeStep, UseStep,
     SendfileStep, FdopendirStep, ChdirGivesUpStep, FchdirStep DEF PoolNext
<1>. QED  BY <1>1, <1>2

(* With no other descriptors in the process than those of FdPool the       *)
(* program's own ones are safe, and there is always a usable one: the      *)
(* inductive invariant of FdPool itself.                                   *)
PoolInv == StoreInv /\ ForeignSafe /\ NeverStarved

LEMMA InitPoolInv == PoolInit => PoolInv
<1>. SUFFICES ASSUME PoolInit PROVE PoolInv
  OBVIOUS
<1>1. PoolTypeOK
  BY StoreAssumption, PoolAssumption DEF PoolInit, PoolTypeOK, StoreType, Fd
<1>2. MaxIsLargest
  BY DEF PoolInit, MaxIsLargest
<1>3. ForeignSafe
  BY DEF PoolInit, ForeignSafe
<1>4. NeverStarved
  BY PoolAssumption DEF PoolInit, NeverStarved, Free
<1>5. DeadIsEmpty
  BY DEF PoolInit, DeadIsEmpty
<1>. QED  BY <1>1, <1>2, <1>3, <1>4, <1>5 DEF PoolInv, StoreInv

LEMMA StepPoolInv ==
  ASSUME PoolInv, [PoolNext]_poolVars
  PROVE  PoolInv' /\ StepOK
<1>1. StepOK
  BY PoolStep DEF PoolInv
<1>2. ForeignSafe'
  BY <1>1 DEF PoolInv, ForeignSafe, StepOK, Careful
<1>. QED  BY <1>1, <1>2 DEF PoolInv, StepOK

THEOREM PoolInvariance == PoolSpec => []PoolInv
<1>1. PoolInv /\ [PoolNext]_poolVars => PoolInv'
  BY StepPoolInv
<1>. QED  BY InitPoolInv, <1>1, PTL DEF PoolSpec

(* A process that does nothing to its store but run operations, whatever   *)
(* else it does and from whichever state it starts.                        *)
InPool == []PoolInv /\ [][PoolNext]_poolVars

LEMMA PoolIsInPool == PoolSpec => InPool
  BY PoolInvariance, PTL DEF PoolSpec, InPool

(* Every variable keeps its type, the wrapping counter included.           *)
THEOREM TypeCorrect == PoolSpec => []PoolTypeOK
<1>1. PoolInv => PoolTypeOK
  BY DEF PoolInv, StoreInv
<1>. QED  BY PoolInvariance, <1>1, PTL

(* s.max bounds the set, so that closeall's loop reaches every tracked     *)
(* descriptor, however many operations, replacements and closes by         *)
(* fdopendir() came before.                                                *)
THEOREM MaxBoundsSet == PoolSpec => []MaxIsLargest
<1>1. PoolInv => MaxIsLargest
  BY DEF PoolInv, StoreInv
<1>. QED  BY PoolInvariance, <1>1, PTL

(* A store that is not live tracks nothing.                                *)
THEOREM DeadStoreEmpty == PoolSpec => []DeadIsEmpty
<1>1. PoolInv => DeadIsEmpty
  BY DEF PoolInv, StoreInv
<1>. QED  BY PoolInvariance, <1>1, PTL

(* The program's own descriptors are never closed, and never become        *)
(* targets of the store's dup2().                                          *)
THEOREM ProgramDescriptorsSafe == PoolSpec => []ForeignSafe
<1>1. PoolInv => ForeignSafe
  BY DEF PoolInv
<1>. QED  BY PoolInvariance, <1>1, PTL

(* However many descriptors leak, an operation can still be given one.     *)
THEOREM SomethingUsable == PoolSpec => []NeverStarved
<1>1. PoolInv => NeverStarved
  BY DEF PoolInv
<1>. QED  BY PoolInvariance, <1>1, PTL

(* A careful step is one of the promise, or a stutter.                     *)
LEMMA CarefulKeeps ==
  ASSUME StoreInv, StoreInv', Careful
  PROVE  [Promise!Next]_<<ps.magic, ps.fds, open>>
<1>1. ps.magic \in BOOLEAN /\ ps'.magic \in BOOLEAN
  BY DEF StoreInv, PoolTypeOK, StoreType
<1>. QED
  BY <1>1 DEF Careful, Promise!Next, Promise!SetUp, Promise!Operate, Promise!Clear

(* The store of fdstore.c, with its limit, its cursors and its             *)
(* replacement, implements the plain pool of descriptors of                *)
(* DescriptorPool.                                                         *)
THEOREM ImplementsPool == PoolSpec => KeepsPromise
<1>. DEFINE Step == [Promise!Next]_<<ps.magic, ps.fds, open>>
<1>1. PoolInit => Promise!Init
  BY DEF PoolInit, Promise!Init
<1>2. PoolInv /\ [PoolNext]_poolVars => Step
  BY StepPoolInv, CarefulKeeps DEF StepOK, PoolInv
<1>. QED
  BY <1>1, <1>2, PoolInvariance, PTL
     DEF PoolSpec, KeepsPromise, Promise!Spec, Promise!vars

LEMMA GetTrackedInPool == InPool => GetReturnsTracked
<1>1. PoolInv /\ [PoolNext]_poolVars
      => [Use \/ Sendfile => ret' \in ps'.fds \cup {-1}]_poolVars
  <2>. SUFFICES ASSUME PoolInv, Use \/ Sendfile
                PROVE  ret' \in ps'.fds \cup {-1}
    OBVIOUS
  <2>1. StoreOK(ps) /\ open \in SUBSET Fd
    BY LiveStore DEF PoolInv, Use, Sendfile
  <2>2. CASE Use
    <3>1. PICK opens \in Opens : Return(GetFd(ps, open, opens))
      BY <2>2 DEF Use
    <3>. QED  BY <2>1, <3>1, GetOK DEF Return
  <2>3. CASE Sendfile
    <3>1. PICK o1 \in Opens, o2 \in Opens :
            LET from == GetFd(ps, open, o1)
            IN  Return(GetFd(from.ps, from.open, o2))
      BY <2>3 DEF Sendfile
    <3>. DEFINE from == GetFd(ps, open, o1)
    <3>2. StoreOK(from.ps) /\ from.open \in SUBSET Fd
      BY <2>1, GetOK DEF Grows
    <3>. QED  BY <3>1, <3>2, GetOK DEF Return
  <2>. QED  BY <2>2, <2>3
<1>. QED  BY <1>1, PTL DEF InPool, GetReturnsTracked

(* An operation that asks for a descriptor gets a tracked one or -1.       *)
THEOREM GetTracked == PoolSpec => GetReturnsTracked
  BY GetTrackedInPool, PoolIsInPool, PTL

LEMMA PreexecClearedInPool == InPool => []PreexecSeesOnlyLeaks
<1>1. ASSUME PoolInv, ps.magic
      PROVE  PreexecTable(ps, open) = (Leaked \cup StdFds) \ {0, 1, 2}
  <2>1. StoreOK(ps) /\ open \in SUBSET Fd
    BY <1>1, LiveStore DEF PoolInv
  <2>2. CloseAll(ps, open).open = open \ ps.fds
    BY <1>1, <2>1, CloseAllOK DEF StoreOK
  <2>3. StdFds \subseteq open /\ StdFds \cap ps.fds = {}
    BY <1>1 DEF PoolInv, ForeignSafe
  <2>. QED  BY <2>2, <2>3 DEF PreexecTable, Leaked
<1>2. PoolInv => PreexecSeesOnlyLeaks
  BY <1>1 DEF PreexecSeesOnlyLeaks
<1>. QED  BY <1>2, PTL DEF InPool

(* A program that is executed after bstg_preexec() sees no tracked         *)
(* descriptor, and all that leaked.                                        *)
THEOREM PreexecCleared == PoolSpec => []PreexecSeesOnlyLeaks
  BY PreexecClearedInPool, PoolIsInPool, PTL

LEMMA OnlyFdopendirStalesInPool == InPool => NoNewStale
<1>1. PoolInv /\ [PoolNext]_poolVars
      => [Stale' \subseteq Stale \/ Fdopendir]_poolVars
  BY StepPoolInv DEF StepOK
<1>. QED  BY <1>1, PTL DEF InPool, NoNewStale

(* Of all operations only fdopendir() leaves a closed descriptor in the    *)
(* set, "." of fchdir() included, which is open while the store looks for  *)
(* a free descriptor.                                                      *)
THEOREM OnlyFdopendirStales == PoolSpec => NoNewStale
  BY OnlyFdopendirStalesInPool, PoolIsInPool, PTL

LEMMA LeaksByReplacingInPool == InPool => LeakOnlyWhenReplacing
<1>1. ASSUME PoolInv, [PoolNext]_poolVars
      PROVE  Leaked' \subseteq Leaked \/ ps'.max > ReplaceMax
  <2>1. PoolInv' /\ StepOK
    BY <1>1, StepPoolInv
  <2>2. ps'.max \in Int
    BY <2>1, StoreAssumption DEF PoolInv, StoreInv, PoolTypeOK, StoreType, Fd
  <2>3. CASE ps'.max <= ReplaceMax
    BY <2>1, <2>3 DEF StepOK, Leaked
  <2>. QED  BY <2>2, <2>3, StoreAssumption
<1>2. PoolInv /\ [PoolNext]_poolVars
      => [Leaked' \subseteq Leaked \/ ps'.max > ReplaceMax]_poolVars
  BY <1>1
<1>. QED  BY <1>2, PTL DEF InPool, LeakOnlyWhenReplacing

(* As long as s.max stays within the limit nothing leaks.                  *)
THEOREM LeaksByReplacing == PoolSpec => LeakOnlyWhenReplacing
  BY LeaksByReplacingInPool, PoolIsInPool, PTL

-----------------------------------------------------------------------------
(* The limit.  A scan of s.max + 1 slots in a row that does not meet the   *)
(* wrap of the counter passes the slot s.max, which is tracked.            *)
LEMMA RemainderOf ==
  ASSUME NEW n \in Nat \ {0}, NEW q \in Nat, NEW m \in 0 .. (n - 1)
  PROVE  (q * n + m) % n = m
  OBVIOUS

LEMMA HitsWithoutWrap ==
  ASSUME NEW s, StoreOK(s), s.max # -1, s.count + s.max + 1 <= CountMod
  PROVE  Hits(s) # {}
<1>. DEFINE n == s.max + 1
            q == s.count \div n
            i == s.max - (s.count % n)
<1>1. s.max \in Nat /\ s.count \in Nat /\ s.max \in s.fds
  BY StoreAssumption DEF StoreOK, StoreType, Fd
<1>2. n \in Nat \ {0} /\ q \in Nat /\ s.count % n \in 0 .. s.max
  BY <1>1
<1>3. s.count = q * n + (s.count % n)
  BY <1>1, <1>2
<1>4. i \in 0 .. s.max
  BY <1>1, <1>2
<1>5. s.count + i = q * n + s.max
  BY <1>1, <1>2, <1>3
<1>6. (s.count + i) % CountMod = s.count + i
  <2>1. s.count + i \in 0 .. (CountMod - 1)
    BY <1>1, <1>4, StoreAssumption
  <2>. QED  BY <2>1, StoreAssumption
<1>7. Slot(s, i) = s.max
  <2>1. s.max \in 0 .. (n - 1)
    BY <1>1
  <2>2. (q * n + s.max) % n = s.max
    <3>. HIDE DEF n, q
    <3>. QED  BY <1>2, <2>1, RemainderOf
  <2>. QED  BY <1>5, <1>6, <2>2 DEF Slot
<1>. QED  BY <1>1, <1>4, <1>7 DEF Hits

(* While the store replaces, k steps away from the wrap.                   *)
Frozen(s, k) == s.max > ReplaceMax /\ s.count + k <= CountMod

(* A scan in this state finds a descriptor, and takes s.max + 1 steps at   *)
(* most.                                                                   *)
LEMMA FrozenGetRaw ==
  ASSUME NEW s, StoreOK(s), NEW k \in Nat, Frozen(s, k), s.max + 1 <= k
  PROVE  /\ GetRaw(s).fd > 0
         /\ Frozen(GetRaw(s).ps, k - (s.max + 1))
<1>1. s.max \in Nat /\ s.count \in Nat /\ s.fds \subseteq Nat /\ 0 \notin s.fds
  BY StoreAssumption DEF StoreOK, StoreType, Fd, Frozen
<1>2. Hits(s) # {}
  BY <1>1, HitsWithoutWrap, StoreAssumption DEF Frozen
<1>3. Min(Hits(s)) \in 0 .. s.max /\ Slot(s, Min(Hits(s))) \in s.fds
  <2>1. Hits(s) \in SUBSET Nat
    BY <1>1 DEF Hits
  <2>2. Min(Hits(s)) \in Hits(s)
    BY <1>2, <2>1, MinOfNat
  <2>. QED  BY <2>2 DEF Hits
<1>. DEFINE m == Min(Hits(s)) + 1
<1>4. GetRaw(s) = [ps |-> Advance(s, m), fd |-> Slot(s, Min(Hits(s)))]
  BY <1>2 DEF GetRaw
<1>5. GetRaw(s).fd > 0
  BY <1>1, <1>3, <1>4
<1>6. m \in 1 .. s.max + 1
  BY <1>1, <1>3
<1>. HIDE DEF m
<1>7. Advance(s, m).max = s.max /\ Advance(s, m).count = (s.count + m) % CountMod
  BY DEF Advance, StoreOK, StoreType
<1>8. (s.count + m) % CountMod <= s.count + m
  BY <1>1, <1>6, StoreAssumption
<1>9. s.count + m <= s.count + s.max + 1 /\ (s.count + m) % CountMod \in Nat
  BY <1>1, <1>6, StoreAssumption
<1>10. ((s.count + m) % CountMod) + (k - (s.max + 1)) <= CountMod
  BY <1>1, <1>6, <1>8, <1>9, StoreAssumption DEF Frozen
<1>. QED  BY <1>4, <1>5, <1>7, <1>10 DEF Frozen

(* What bstg_fdstore_set() and bstg_fdstore_get2() leave of it.            *)
StaysFrozen(s, k, r) ==
  /\ r.ps.fds = s.fds
  /\ r.ps.max = s.max
  /\ Frozen(r.ps, k - (s.max + 1))

LEMMA FrozenSet ==
  ASSUME NEW s, StoreOK(s), NEW k \in Nat, Frozen(s, k), s.max + 1 <= k,
         NEW t \in SUBSET Fd, NEW fd \in t \cup {-1}
  PROVE  StaysFrozen(s, k, SetFd(s, t, fd))
<1>1. /\ GetRaw(s).fd > 0
      /\ Frozen(GetRaw(s).ps, k - (s.max + 1))
      /\ GetRaw(s).ps.fds = s.fds
      /\ GetRaw(s).ps.max = s.max
  BY FrozenGetRaw, GetRawOK
<1>2. SetFd(s, t, fd).ps = GetRaw(s).ps
  <2>1. CASE fd \in t
    BY <1>1, <2>1 DEF SetFd, Replaces, Frozen
  <2>2. CASE fd = -1
    BY <1>1, <2>2 DEF SetFd, Track, Frozen
  <2>. QED  BY <2>1, <2>2
<1>. QED  BY <1>1, <1>2 DEF StaysFrozen

LEMMA FrozenGet ==
  ASSUME NEW s, StoreOK(s), NEW k \in Nat, Frozen(s, k), s.max + 1 <= k,
         NEW t \in SUBSET Fd, NEW opens \in Opens
  PROVE  StaysFrozen(s, k, GetFd(s, t, opens))
<1>1. /\ GetRaw(s).fd > 0
      /\ Frozen(GetRaw(s).ps, k - (s.max + 1))
      /\ GetRaw(s).ps.fds = s.fds
      /\ GetRaw(s).ps.max = s.max
  BY FrozenGetRaw, GetRawOK
<1>2. GetFd(s, t, opens) = [ps |-> GetRaw(s).ps, open |-> t, ret |-> GetRaw(s).fd]
  BY <1>1 DEF GetFd
<1>. QED  BY <1>1, <1>2 DEF StaysFrozen

(* Two calls, at 2 * (s.max + 1) steps from the wrap.                      *)
LEMMA FrozenOnce ==
  ASSUME NEW s, StoreOK(s), Frozen(s, 2 * (s.max + 1))
  PROVE  /\ s.max + 1 \in Nat
         /\ 2 * (s.max + 1) \in Nat
         /\ s.max + 1 <= 2 * (s.max + 1)
         /\ \A r : StaysFrozen(s, 2 * (s.max + 1), r) =>
              r.ps.max + 1 = s.max + 1 /\ Frozen(r.ps, r.ps.max + 1)
<1>1. s.max + 1 \in Nat
  BY StoreAssumption DEF StoreOK, StoreType, Fd
<1>2. /\ 2 * (s.max + 1) \in Nat
      /\ s.max + 1 <= 2 * (s.max + 1)
      /\ 2 * (s.max + 1) - (s.max + 1) = s.max + 1
  BY <1>1
<1>3. ASSUME NEW r, StaysFrozen(s, 2 * (s.max + 1), r)
      PROVE  r.ps.max + 1 = s.max + 1 /\ Frozen(r.ps, r.ps.max + 1)
  BY <1>2, <1>3 DEF StaysFrozen
<1>. QED  BY <1>1, <1>2, <1>3

LEMMA FrozenStep ==
  ASSUME PoolInv, PoolNext, Frozen(ps, 2 * (ps.max + 1))
  PROVE  ps'.fds \in {ps.fds, {}}
<1>. DEFINE k == 2 * (ps.max + 1)
<1>0. Frozen(ps, k)
  OBVIOUS
<1>1. StoreInv
  BY DEF PoolInv
<1>2. ASSUME ~ps.magic PROVE ps'.fds \in {ps.fds, {}}
  BY <1>2, StepPoolInv DEF StepOK, Careful
<1>3. ASSUME ps.magic PROVE StoreOK(ps) /\ open \in SUBSET Fd
  BY <1>1, <1>3, LiveStore
<1>4. ASSUME ps.magic
      PROVE  /\ k \in Nat /\ ps.max + 1 <= k
             /\ \A r : StaysFrozen(ps, k, r) =>
                  /\ r.ps.fds = ps.fds
                  /\ r.ps.max + 1 \in Nat
                  /\ Frozen(r.ps, r.ps.max + 1)
  BY <1>3, <1>4, FrozenOnce DEF StaysFrozen
<1>. HIDE DEF k
<1>5. CASE FdstoreInit \/ ChdirGivesUp
  BY <1>2, <1>5 DEF FdstoreInit, ChdirGivesUp
<1>6. CASE Closeall \/ FdstoreDestroy
  <2>1. ASSUME ps.magic
        PROVE  /\ CloseAll(ps, open).ps.fds = {}
               /\ DestroyStore(ps, open).ps.fds = {}
    BY <1>3, <2>1, CloseAllOK, DestroyOK DEF StoreOK
  <2>. QED
    BY <1>2, <1>6, <2>1 DEF Closeall, FdstoreDestroy, Return
<1>7. CASE Open
  <2>1. ps.magic
    BY <1>7 DEF Open
  <2>2. CASE Return(SetFd(ps, open, -1))
    BY <1>0, <1>3, <1>4, <2>1, <2>2, FrozenSet DEF Return
  <2>3. ASSUME Free(open) # {},
               Return(SetFd(ps, open \cup {LowestFree(open)}, LowestFree(open)))
        PROVE  ps'.fds = ps.fds
    <3>1. open \cup {LowestFree(open)} \in SUBSET Fd
      BY <1>3, <2>1, <2>3, LowestFreeIsFree
    <3>. QED  BY <1>0, <1>3, <1>4, <2>1, <2>3, <3>1, FrozenSet DEF Return
  <2>. QED  BY <1>7, <2>2, <2>3 DEF Open
<1>8. CASE Pipe
  <2>1. ps.magic /\ Cardinality(Free(open)) >= 2
    BY <1>8 DEF Pipe
  <2>. DEFINE rd    == LowestFree(open)
              wr    == LowestFree(open \cup {rd})
              both  == open \cup {rd, wr}
              first == SetFd(ps, both, rd)
              r     == SetFd(first.ps, first.open, wr)
  <2>2. Return(r)
    BY <1>8 DEF Pipe
  <2>3. both \in SUBSET Fd
    BY <1>3, <2>1, TwoFree
  <2>. HIDE DEF rd, wr
  <2>4. rd \in both \cup {-1} /\ wr \in both
    OBVIOUS
  <2>. HIDE DEF both
  <2>5. StaysFrozen(ps, k, first)
    BY <1>0, <1>3, <1>4, <2>1, <2>3, <2>4, FrozenSet
  <2>6. Grows(ps, both, {rd}, first)
    BY <1>3, <2>1, <2>3, <2>4, SetOK
  <2>. HIDE DEF first
  <2>7. StoreOK(first.ps) /\ first.open \in SUBSET Fd /\ wr \in first.open
    BY <2>4, <2>6 DEF Grows
  <2>8. StaysFrozen(first.ps, first.ps.max + 1, r)
    BY <1>4, <2>1, <2>5, <2>7, FrozenSet DEF StoreOK, StoreType
  <2>. QED  BY <1>4, <2>1, <2>2, <2>5, <2>8 DEF StaysFrozen, Return
<1>9. CASE Use \/ Fdopendir \/ Fchdir
  <2>1. ps.magic
    BY <1>9 DEF Use, Fdopendir, Fchdir
  <2>2. PICK t \in SUBSET Fd, opens \in Opens : ps' = GetFd(ps, t, opens).ps
    <3>1. CASE Use
      BY <1>3, <2>1, <3>1 DEF Use, Return
    <3>2. CASE Fdopendir
      BY <1>3, <2>1, <3>2 DEF Fdopendir, Return
    <3>3. CASE Fchdir
      <4>1. open \cup {LowestFree(open)} \in SUBSET Fd
        BY <1>3, <2>1, <3>3, LowestFreeIsFree DEF Fchdir
      <4>. QED  BY <3>3, <4>1 DEF Fchdir, Return
    <3>. QED  BY <1>9, <3>1, <3>2, <3>3
  <2>. QED  BY <1>0, <1>3, <1>4, <2>1, <2>2, FrozenGet
<1>10. CASE Sendfile
  <2>1. ps.magic
    BY <1>10 DEF Sendfile
  <2>2. PICK o1 \in Opens, o2 \in Opens :
          LET from == GetFd(ps, open, o1)
          IN  Return(GetFd(from.ps, from.open, o2))
    BY <1>10 DEF Sendfile
  <2>. DEFINE from == GetFd(ps, open, o1)
              got  == GetFd(from.ps, from.open, o2)
  <2>3. /\ StaysFrozen(ps, k, from)
        /\ StoreOK(from.ps) /\ from.open \in SUBSET Fd
    BY <1>0, <1>3, <1>4, <2>1, FrozenGet, GetOK DEF Grows
  <2>4. Return(got)
    BY <2>2
  <2>. HIDE DEF from
  <2>5. StaysFrozen(from.ps, from.ps.max + 1, got)
    BY <1>4, <2>1, <2>3, FrozenGet DEF StoreOK, StoreType
  <2>. QED  BY <1>4, <2>1, <2>3, <2>4, <2>5 DEF StaysFrozen, Return
<1>. QED
  BY <1>5, <1>6, <1>7, <1>8, <1>9, <1>10 DEF PoolNext

-----------------------------------------------------------------------------
(* What lies below a descriptor that a call takes into the set.            *)
Below(s, t, other, r) ==
  \A fd \in r.ps.fds \ s.fds : (1 .. (fd - 1)) \ {other} \subseteq t

LEMMA LowestFillsUp ==
  ASSUME NEW t, Free(t) # {}
  PROVE  1 .. (LowestFree(t) - 1) \subseteq t
<1>1. /\ LowestFree(t) \in Fd
      /\ \A fd \in Free(t) : LowestFree(t) <= fd
  BY LowestFreeIsFree
<1>2. ASSUME NEW x \in 1 .. (LowestFree(t) - 1) PROVE x \in t
  <2>1. x \in Fd /\ ~(LowestFree(t) <= x)
    BY <1>1, StoreAssumption DEF Fd
  <2>. QED  BY <1>1, <2>1 DEF Free
<1>. QED  BY <1>2

(* bstg_fdstore_get2() takes what open() gave it, the lowest.  What it     *)
(* leaves open was open or tracked or is that one.                         *)
LEMMA GetBelow ==
  ASSUME NEW s, StoreOK(s), NEW t \in SUBSET Fd, NEW opens \in Opens
  PROVE  LET r == GetFd(s, t, opens)
         IN  /\ Below(s, t, 0, r)
             /\ \E other \in Fd : r.open \subseteq t \cup s.fds \cup {0, other}
<1>. DEFINE raw    == GetRaw(s)
            zero   == opens > 0 /\ 0 \notin t
            tried  == IF zero THEN t \cup {0} ELSE t
            opened == Free(tried) # {} /\ opens > (IF zero THEN 1 ELSE 0)
            fd     == LowestFree(tried)
            got    == GetFd(s, t, opens)
<1>1. StoreOK(raw.ps) /\ raw.ps.fds = s.fds
  BY GetRawOK
<1>2. 0 \in Fd /\ tried \in SUBSET Fd /\ tried \subseteq t \cup {0}
  BY StoreAssumption DEF Fd
<1>3. CASE ~(raw.fd > 0) /\ opened
  <2>1. got = SetFd(raw.ps, tried \cup {fd}, fd)
    BY <1>3 DEF GetFd
  <2>2. fd \in Fd /\ 1 .. (fd - 1) \subseteq tried
    BY <1>3, LowestFreeIsFree, LowestFillsUp
  <2>3. tried \cup {fd} \in SUBSET Fd /\ fd \in (tried \cup {fd}) \cup {-1}
    BY <1>2, <2>2
  <2>. HIDE DEF tried, fd, raw, got
  <2>4. /\ got.ps.fds \subseteq raw.ps.fds \cup {fd}
        /\ got.open \subseteq (tried \cup {fd}) \cup raw.ps.fds
    BY <1>1, <2>1, <2>3, SetOK
  <2>5. (1 .. (fd - 1)) \ {0} \subseteq t
    BY <1>2, <2>2
  <2>6. Below(s, t, 0, got)
    <3>1. got.ps.fds \ s.fds \subseteq {fd}
      BY <1>1, <2>4
    <3>. QED  BY <2>5, <3>1 DEF Below
  <2>7. got.open \subseteq t \cup s.fds \cup {0, fd}
    BY <1>1, <1>2, <2>4
  <2>. QED  BY <2>2, <2>6, <2>7 DEF got
<1>4. CASE raw.fd > 0 \/ ~opened
  <2>1. got.ps = raw.ps /\ got.open \subseteq tried
    BY <1>4 DEF GetFd
  <2>. HIDE DEF tried, fd, raw, got
  <2>2. Below(s, t, 0, got) /\ got.open \subseteq t \cup s.fds \cup {0, 0}
    BY <1>1, <1>2, <2>1 DEF Below
  <2>. QED  BY <1>2, <2>2 DEF got
<1>. QED  BY <1>3, <1>4

(* Below for a whole step.                                                 *)
StepBelow(other) ==
  \A fd \in ps'.fds \ ps.fds :
    (1 .. (fd - 1)) \ {other} \subseteq open \cup ps.fds \cup {0}

LEMMA StepsBelow ==
  ASSUME PoolInv, PoolNext
  PROVE  \E other \in Fd : StepBelow(other)
<1>1. 0 \in Fd
  BY StoreAssumption DEF Fd
<1>2. ASSUME ps.magic PROVE StoreOK(ps) /\ open \in SUBSET Fd
  BY <1>2, LiveStore DEF PoolInv
<1>3. ASSUME ps'.fds \subseteq ps.fds PROVE StepBelow(0)
  BY <1>3 DEF StepBelow
<1>4. CASE FdstoreInit \/ ChdirGivesUp \/ Closeall \/ FdstoreDestroy
  <2>1. CASE ps.magic
    <3>1. /\ CloseAll(ps, open).ps.fds = {}
          /\ DestroyStore(ps, open).ps.fds = {}
      BY <1>2, <2>1, CloseAllOK, DestroyOK DEF StoreOK
    <3>2. ps'.fds \subseteq ps.fds
      BY <1>4, <2>1, <3>1
         DEF Closeall, FdstoreDestroy, FdstoreInit, ChdirGivesUp, Return
    <3>. QED  BY <1>1, <1>3, <3>2
  <2>2. CASE ~ps.magic
    <3>1. ps'.fds \subseteq ps.fds
      BY <2>2, StepPoolInv DEF StepOK, Careful
    <3>. QED  BY <1>1, <1>3, <3>1
  <2>. QED  BY <2>1, <2>2
<1>5. CASE Open
  <2>1. ps.magic /\ StoreOK(ps) /\ open \in SUBSET Fd
    BY <1>2, <1>5 DEF Open
  <2>2. CASE Return(SetFd(ps, open, -1))
    <3>. DEFINE r == SetFd(ps, open, -1)
    <3>1. Grows(ps, open, {-1}, r) /\ r.ps.fds \subseteq ps.fds \cup {-1}
      <4>1. -1 \in open \cup {-1}
        OBVIOUS
      <4>. QED  BY <2>1, <4>1, SetOK
    <3>. HIDE DEF r
    <3>2. ps'.fds \subseteq ps.fds \cup {-1} /\ StoreOK(ps')
      <4>1. ps' = r.ps
        BY <2>2 DEF Return, r
      <4>. QED  BY <3>1, <4>1 DEF Grows
    <3>3. ps'.fds \subseteq ps.fds
      <4>1. -1 \notin Fd
        BY StoreAssumption DEF Fd
      <4>. QED  BY <3>2, <4>1 DEF StoreOK, StoreType
    <3>. QED  BY <1>1, <1>3, <3>3
  <2>3. ASSUME Free(open) # {},
               Return(SetFd(ps, open \cup {LowestFree(open)}, LowestFree(open)))
        PROVE  StepBelow(0)
    <3>. DEFINE fd == LowestFree(open)
    <3>1. fd \in Fd /\ 1 .. (fd - 1) \subseteq open
      BY <2>3, LowestFreeIsFree, LowestFillsUp
    <3>2. Return(SetFd(ps, open \cup {fd}, fd))
      BY <2>3
    <3>. HIDE DEF fd
    <3>3. open \cup {fd} \in SUBSET Fd /\ fd \in (open \cup {fd}) \cup {-1}
      BY <2>1, <3>1
    <3>4. ps'.fds \subseteq ps.fds \cup {fd}
      BY <2>1, <3>2, <3>3, SetOK DEF Return
    <3>. QED  BY <3>1, <3>4 DEF StepBelow
  <2>. QED  BY <1>1, <1>5, <2>2, <2>3 DEF Open
<1>6. CASE Pipe
  <2>. DEFINE rd    == LowestFree(open)
              wr    == LowestFree(open \cup {rd})
              both  == open \cup {rd, wr}
              first == SetFd(ps, both, rd)
              r     == SetFd(first.ps, first.open, wr)
  <2>1. ps.magic /\ StoreOK(ps) /\ open \in SUBSET Fd
    BY <1>2, <1>6 DEF Pipe
  <2>2. Cardinality(Free(open)) >= 2 /\ Return(r)
    BY <1>6 DEF Pipe
  <2>3. rd \in Fd \ open /\ wr \in Fd \ open /\ wr # rd
    BY <2>1, <2>2, TwoFree
  <2>4. 1 .. (rd - 1) \subseteq open
    <3>1. rd \in Free(open)
      BY <2>3 DEF Free
    <3>. QED  BY <3>1, LowestFillsUp
  <2>5. 1 .. (wr - 1) \subseteq open \cup {rd}
    <3>1. wr \in Free(open \cup {rd})
      BY <2>3 DEF Free
    <3>. QED  BY <3>1, LowestFillsUp
  <2>. HIDE DEF rd, wr
  <2>6. both \in SUBSET Fd /\ rd \in both \cup {-1} /\ wr \in both
    BY <2>1, <2>3
  <2>. HIDE DEF both
  <2>7. Grows(ps, both, {rd}, first) /\ first.ps.fds \subseteq ps.fds \cup {rd}
    BY <2>1, <2>6, SetOK
  <2>. HIDE DEF first
  <2>8. StoreOK(first.ps) /\ first.open \in SUBSET Fd /\ wr \in first.open \cup {-1}
    BY <2>6, <2>7 DEF Grows
  <2>9. r.ps.fds \subseteq first.ps.fds \cup {wr}
    BY <2>8, SetOK
  <2>. HIDE DEF r
  <2>10. ps'.fds \ ps.fds \subseteq {rd, wr}
    BY <2>2, <2>7, <2>9 DEF Return
  <2>11. StepBelow(rd)
    BY <2>4, <2>5, <2>10 DEF StepBelow
  <2>. QED  BY <2>3, <2>11
<1>7. CASE Use \/ Fdopendir
  <2>1. ps.magic /\ StoreOK(ps) /\ open \in SUBSET Fd
    BY <1>2, <1>7 DEF Use, Fdopendir
  <2>2. PICK opens \in Opens : ps' = GetFd(ps, open, opens).ps
    BY <1>7 DEF Use, Fdopendir, Return
  <2>3. Below(ps, open, 0, GetFd(ps, open, opens))
    BY <2>1, GetBelow
  <2>4. StepBelow(0)
    BY <2>2, <2>3 DEF Below, StepBelow
  <2>. QED  BY <1>1, <2>4
<1>8. CASE Fchdir
  <2>. DEFINE cwdfd == LowestFree(open)
  <2>1. ps.magic /\ StoreOK(ps) /\ open \in SUBSET Fd
    BY <1>2, <1>8 DEF Fchdir
  <2>2. cwdfd \in Fd
    BY <1>8, LowestFreeIsFree DEF Fchdir
  <2>3. PICK opens \in Opens : ps' = GetFd(ps, open \cup {cwdfd}, opens).ps
    BY <1>8 DEF Fchdir, Return
  <2>. HIDE DEF cwdfd
  <2>4. open \cup {cwdfd} \in SUBSET Fd
    BY <2>1, <2>2
  <2>5. Below(ps, open \cup {cwdfd}, 0, GetFd(ps, open \cup {cwdfd}, opens))
    BY <2>1, <2>4, GetBelow
  <2>6. StepBelow(cwdfd)
    BY <2>3, <2>5 DEF Below, StepBelow
  <2>. QED  BY <2>2, <2>6
<1>9. CASE Sendfile
  <2>1. ps.magic /\ StoreOK(ps) /\ open \in SUBSET Fd
    BY <1>2, <1>9 DEF Sendfile
  <2>2. PICK o1 \in Opens, o2 \in Opens :
          LET from == GetFd(ps, open, o1)
          IN  Return(GetFd(from.ps, from.open, o2))
    BY <1>9 DEF Sendfile
  <2>. DEFINE from == GetFd(ps, open, o1)
              got  == GetFd(from.ps, from.open, o2)
  <2>3. /\ Below(ps, open, 0, from)
        /\ StoreOK(from.ps) /\ from.open \in SUBSET Fd
    BY <2>1, GetBelow, GetOK DEF Grows
  <2>4. PICK other \in Fd : from.open \subseteq open \cup ps.fds \cup {0, other}
    BY <2>1, GetBelow
  <2>5. Return(got)
    BY <2>2
  <2>. HIDE DEF from
  <2>6. Below(from.ps, from.open, 0, got)
    BY <2>3, GetBelow
  <2>. HIDE DEF got
  <2>7. ASSUME NEW fd \in got.ps.fds \ ps.fds
        PROVE  (1 .. (fd - 1)) \ {other} \subseteq open \cup ps.fds \cup {0}
    <3>1. CASE fd \in from.ps.fds
      BY <2>3, <2>7, <3>1 DEF Below
    <3>2. CASE fd \notin from.ps.fds
      BY <2>4, <2>6, <2>7, <3>2 DEF Below
    <3>. QED  BY <3>1, <3>2
  <2>8. StepBelow(other)
    BY <2>5, <2>7 DEF StepBelow, Return
  <2>. QED  BY <2>8
<1>. QED  BY <1>4, <1>5, <1>6, <1>7, <1>8, <1>9 DEF PoolNext

(* Beyond the limit, that is leaks and the program's own.                  *)
LEMMA BelowIsLeaked ==
  ASSUME PoolInv, ps.max <= ReplaceMax, NEW other \in Fd, StepBelow(other),
         NEW fd \in ps'.fds \ ps.fds
  PROVE  ((ReplaceMax + 1) .. (fd - 1)) \ {other} \subseteq Leaked \cup StdFds
<1>. SUFFICES ASSUME NEW x \in (ReplaceMax + 1) .. (fd - 1), x # other
              PROVE  x \in Leaked \cup StdFds
  OBVIOUS
<1>1. x \in Int /\ ReplaceMax + 1 <= x /\ x <= fd - 1 /\ x >= 1
  BY StoreAssumption
<1>2. x \in 1 .. (fd - 1)
  BY <1>1
<1>3. x \in open \cup ps.fds \cup {0}
  BY <1>2 DEF StepBelow
<1>4. x \notin ps.fds
  <2>1. /\ ps.max \in Fd \cup {-1}
        /\ ps.magic => \A y \in ps.fds : y <= ps.max
        /\ ~ps.magic => ps.fds = {}
    BY DEF PoolInv, StoreInv, PoolTypeOK, StoreType, MaxIsLargest, DeadIsEmpty
  <2>2. ~(x <= ps.max)
    BY <1>1, <2>1, StoreAssumption DEF Fd
  <2>. QED  BY <2>1, <2>2
<1>. QED  BY <1>1, <1>3, <1>4 DEF Leaked

LEMMA LimitHoldsInPool == InPool => ReplaceBounds
<1>1. ASSUME PoolInv, PoolNext
      PROVE  /\ ps.max > ReplaceMax /\ ps.count + 2 * (ps.max + 1) <= CountMod =>
                  ps'.fds \in {ps.fds, {}}
             /\ ps.max <= ReplaceMax =>
                  \E other \in Fd : \A fd \in ps'.fds \ ps.fds :
                    ((ReplaceMax + 1) .. (fd - 1)) \ {other} \subseteq
                      Leaked \cup StdFds
  <2>1. ASSUME ps.max > ReplaceMax, ps.count + 2 * (ps.max + 1) <= CountMod
        PROVE  ps'.fds \in {ps.fds, {}}
    BY <1>1, <2>1, FrozenStep DEF Frozen
  <2>2. PICK other \in Fd : StepBelow(other)
    BY <1>1, StepsBelow
  <2>3. ASSUME ps.max <= ReplaceMax, NEW fd \in ps'.fds \ ps.fds
        PROVE  ((ReplaceMax + 1) .. (fd - 1)) \ {other} \subseteq Leaked \cup StdFds
    BY <1>1, <2>2, <2>3, BelowIsLeaked
  <2>. QED  BY <2>1, <2>3
<1>2. PoolInv /\ [PoolNext]_poolVars =>
        [/\ ps.max > ReplaceMax /\ ps.count + 2 * (ps.max + 1) <= CountMod =>
              ps'.fds \in {ps.fds, {}}
         /\ ps.max <= ReplaceMax =>
              \E other \in Fd : \A fd \in ps'.fds \ ps.fds :
                ((ReplaceMax + 1) .. (fd - 1)) \ {other} \subseteq
                  Leaked \cup StdFds]_poolVars
  BY <1>1
<1>. QED  BY <1>2, PTL DEF InPool, ReplaceBounds

(* Above the limit, and before the counter wraps, the set of tracked       *)
(* descriptors changes only by being closed; up to the limit it takes in   *)
(* no descriptor beyond it but where leaks have filled what is between,    *)
(* all but one.                                                            *)
THEOREM LimitHolds == PoolSpec => ReplaceBounds
  BY LimitHoldsInPool, PoolIsInPool, PTL

-----------------------------------------------------------------------------
(* Lookups is a recursive function: its values exist, so that CHOOSE finds *)
(* them.                                                                   *)
IsLookups(g, n) ==
  g = [k \in 0 .. n |-> IF k = 0 THEN ps ELSE GetRaw(g[k - 1]).ps]

LEMMA LookupsExist == \A n \in Nat : \E g : IsLookups(g, n)
<1>. DEFINE Bad == {n \in Nat : ~\E g : IsLookups(g, n)}
<1>1. SUFFICES ASSUME Bad # {} PROVE FALSE
  OBVIOUS
<1>. DEFINE least == Min(Bad)
<1>2. least \in Bad /\ \A n \in Bad : least <= n
  <2>. HIDE DEF Bad
  <2>1. Bad \in SUBSET Nat
    BY DEF Bad
  <2>. QED  BY <1>1, <2>1, MinOfNat
<1>. HIDE DEF least
<1>3. least # 0
  <2>. DEFINE g == [k \in 0 .. 0 |-> ps]
  <2>1. IsLookups(g, 0)
    BY DEF IsLookups
  <2>. QED  BY <1>2, <2>1
<1>4. least \in Nat /\ least - 1 \in Nat /\ least - 1 \notin Bad
  BY <1>2, <1>3
<1>5. PICK g : IsLookups(g, least - 1)
  BY <1>4
<1>. DEFINE h == [k \in 0 .. least |-> IF k = 0 THEN ps ELSE GetRaw(g[k - 1]).ps]
<1>6. \A k \in 0 .. (least - 1) : h[k] = g[k]
  <2>1. ASSUME NEW k \in 0 .. (least - 1)
        PROVE  g[k] = IF k = 0 THEN ps ELSE GetRaw(g[k - 1]).ps
    BY <1>5, Zenon DEF IsLookups
  <2>2. 0 .. (least - 1) \subseteq 0 .. least
    BY <1>4
  <2>. QED  BY <2>1, <2>2
<1>7. \A k \in 0 .. least : h[k] = IF k = 0 THEN ps ELSE GetRaw(h[k - 1]).ps
  <2>1. ASSUME NEW k \in 0 .. least, k # 0 PROVE g[k - 1] = h[k - 1]
    <3>1. k - 1 \in 0 .. (least - 1)
      BY <1>4, <2>1
    <3>. QED  BY <1>6, <3>1
  <2>. QED  BY <2>1
<1>8. IsLookups(h, least)
  <2>1. h = [k \in 0 .. least |-> h[k]]
    OBVIOUS
  <2>. HIDE DEF h
  <2>. QED  BY <1>7, <2>1 DEF IsLookups
<1>. QED  BY <1>2, <1>8

LEMMA LookupsUnfold ==
  /\ Lookups[0] = ps
  /\ \A k \in 1 .. OpenMax : Lookups[k] = GetRaw(Lookups[k - 1]).ps
<1>1. OpenMax \in Nat
  BY StoreAssumption
<1>2. \E g : IsLookups(g, OpenMax)
  BY <1>1, LookupsExist
<1>3. Lookups = CHOOSE g : IsLookups(g, OpenMax)
  BY Zenon DEF Lookups, IsLookups
<1>4. IsLookups(Lookups, OpenMax)
  BY <1>2, <1>3, Zenon
<1>. HIDE DEF Lookups
<1>5. Lookups = [k \in 0 .. OpenMax |->
                   IF k = 0 THEN ps ELSE GetRaw(Lookups[k - 1]).ps]
  BY <1>4, Zenon DEF IsLookups
<1>. QED  BY <1>1, <1>5

-----------------------------------------------------------------------------
(* Any n numbers in a row have each remainder by n once.                   *)
LEMMA EachRemainder ==
  ASSUME NEW n \in Nat \ {0}, NEW from \in Nat, NEW f \in 0 .. (n - 1)
  PROVE  \E p \in from .. (from + n - 1) : p % n = f
<1>. DEFINE q == from \div n
            r == from % n
<1>1. q \in Nat /\ r \in 0 .. (n - 1) /\ from = q * n + r
  OBVIOUS
<1>2. CASE r <= f
  <2>1. q * n + f \in from .. (from + n - 1) /\ (q * n + f) % n = f
    BY <1>1, <1>2, RemainderOf
  <2>. QED  BY <2>1
<1>3. CASE f < r
  <2>1. (q + 1) * n = q * n + n
    BY <1>1
  <2>2. (q + 1) * n + f \in from .. (from + n - 1)
    BY <1>1, <1>3, <2>1
  <2>3. q + 1 \in Nat
    BY <1>1
  <2>4. ((q + 1) * n + f) % n = f
    BY <2>3, RemainderOf, Zenon
  <2>. QED  BY <2>2, <2>4
<1>. QED  BY <1>1, <1>2, <1>3

LEMMA RemaindersDiffer ==
  ASSUME NEW n \in Nat \ {0}, NEW p \in Nat, NEW q \in Nat,
         p < q, q < p + n
  PROVE  p % n # q % n
<1>1. SUFFICES ASSUME p % n = q % n PROVE FALSE
  OBVIOUS
<1>. DEFINE x == p \div n
            y == q \div n
            r == p % n
<1>2. x \in Nat /\ y \in Nat /\ r \in 0 .. (n - 1)
      /\ p = x * n + r /\ q = y * n + r
  BY <1>1
<1>. HIDE DEF x, y, r
<1>3. x * n < y * n /\ y * n < x * n + n
  BY <1>2
<1>4. (y - x) * n = y * n - x * n
  BY <1>2
<1>5. (y - x) * n > 0 /\ (y - x) * n < n
  <2>1. x * n \in Nat /\ y * n \in Nat
    BY <1>2
  <2>. QED  BY <1>3, <1>4, <2>1
<1>. DEFINE d == y - x
<1>6. d \in Int /\ d * n > 0 /\ d * n < n
  BY <1>2, <1>5
<1>. HIDE DEF d
<1>7. d >= 1
  BY <1>6
<1>8. d * n >= n
  BY <1>6, <1>7
<1>. QED  BY <1>6, <1>8

-----------------------------------------------------------------------------
(* What lookups have returned while the cursor moved from ps.count to a.   *)
Upto(a) == [ps EXCEPT !.count = a]
Seen(a) == {p % (ps.max + 1) : p \in ps.count .. (a - 1)} \cap ps.fds

(* A turn of the cursor sees all of the set.                               *)
LEMMA TurnSeesAll ==
  ASSUME StoreOK(ps), ps.fds # {}
  PROVE  /\ ps.max \in Nat /\ ps.count \in Nat /\ ps.fds \subseteq 0 .. ps.max
         /\ \A f \in ps.fds : \E p \in ps.count .. (ps.count + ps.max) :
              p % (ps.max + 1) = f
         /\ Seen(ps.count + ps.max + 1) = ps.fds
<1>1. ps.max \in Nat /\ ps.count \in Nat /\ ps.fds \subseteq 0 .. ps.max
  BY StoreAssumption DEF StoreOK, StoreType, Fd
<1>2. ASSUME NEW f \in ps.fds
      PROVE  \E p \in ps.count .. (ps.count + ps.max) : p % (ps.max + 1) = f
  <2>. DEFINE n == ps.max + 1
  <2>1. n \in Nat \ {0} /\ f \in 0 .. (n - 1)
    BY <1>1
  <2>2. ps.count + n - 1 = ps.count + ps.max
    BY <1>1
  <2>. HIDE DEF n
  <2>3. \E p \in ps.count .. (ps.count + n - 1) : p % n = f
    BY <1>1, <2>1, EachRemainder
  <2>. QED  BY <2>2, <2>3 DEF n
<1>3. (ps.count + ps.max + 1) - 1 = ps.count + ps.max
  BY <1>1
<1>. QED  BY <1>1, <1>2, <1>3 DEF Seen

(* One lookup: the next descriptor of the turn, that no earlier one has    *)
(* returned.                                                               *)
LEMMA NextOfTurn ==
  ASSUME StoreOK(ps), ps.fds # {}, ps.count + ps.max < CountMod,
         NEW a \in ps.count .. (ps.count + ps.max), Seen(a) # ps.fds
  PROVE  \E q \in a .. (ps.count + ps.max) :
           LET fd == q % (ps.max + 1)
           IN  /\ GetRaw(Upto(a)) = [ps |-> Upto((q + 1) % CountMod), fd |-> fd]
               /\ fd \in ps.fds \ Seen(a)
               /\ Seen(q + 1) = Seen(a) \cup {fd}
<1>. DEFINE s == Upto(a)
            n == ps.max + 1
            last == ps.count + ps.max
<1>1. /\ ps.max \in Nat /\ ps.count \in Nat /\ last \in Nat /\ last < CountMod
      /\ n \in Nat \ {0} /\ a \in Nat /\ a <= last /\ ps.count <= a
      /\ CountMod \in Nat \ {0}
  BY TurnSeesAll, StoreAssumption
<1>2. s.max = ps.max /\ s.count = a /\ s.fds = ps.fds
  BY DEF Upto, StoreOK, StoreType
<1>. HIDE DEF s, n
<1>3. \A i \in Nat : a + i <= last => /\ (a + i) % CountMod = a + i
                                     /\ Slot(s, i) = (a + i) % n
  <2>1. ASSUME NEW i \in Nat, a + i <= last PROVE (a + i) % CountMod = a + i
    BY <1>1, <2>1
  <2>. QED  BY <1>2, <2>1 DEF Slot, n
<1>4. PICK f \in ps.fds : f \notin Seen(a)
  BY DEF Seen
<1>5. PICK p \in ps.count .. last : p % n = f
  BY TurnSeesAll DEF n
<1>6. p >= a
  <2>1. p \in ps.count .. (a - 1) => f \in Seen(a)
    BY <1>5 DEF Seen, n
  <2>. QED  BY <1>1, <1>4, <2>1
<1>7. p - a \in Hits(s)
  <2>1. p - a \in 0 .. s.max /\ p - a \in Nat /\ a + (p - a) = p /\ p <= last
    BY <1>1, <1>2, <1>6
  <2>2. Slot(s, p - a) = f
    BY <1>3, <1>5, <2>1
  <2>. QED  BY <1>2, <2>1, <2>2 DEF Hits
<1>. DEFINE i == Min(Hits(s))
            q == a + i
            fd == q % n
<1>8. i \in Hits(s) /\ \A j \in Hits(s) : i <= j
  <2>1. Hits(s) \in SUBSET Nat /\ Hits(s) # {}
    BY <1>1, <1>2, <1>7 DEF Hits
  <2>. QED  BY <2>1, MinOfNat
<1>9. /\ i \in 0 .. s.max /\ Slot(s, i) \in s.fds /\ i <= p - a
      /\ \A j \in 0 .. s.max : j < i => Slot(s, j) \notin s.fds
  <2>1. i \in 0 .. s.max /\ Slot(s, i) \in s.fds /\ i <= p - a
    BY <1>7, <1>8 DEF Hits
  <2>2. ASSUME NEW j \in 0 .. s.max, j < i PROVE Slot(s, j) \notin s.fds
    BY <1>8, <2>1, <2>2, <1>2, <1>1 DEF Hits
  <2>. QED  BY <2>1, <2>2
<1>10. GetRaw(s) = [ps |-> Advance(s, i + 1), fd |-> Slot(s, i)]
  BY <1>7 DEF GetRaw
<1>. HIDE DEF i
<1>11. i \in Nat /\ q \in a .. last /\ q \in Nat
  BY <1>1, <1>2, <1>9
<1>12. Slot(s, i) = fd /\ fd \in ps.fds
  BY <1>2, <1>3, <1>9, <1>11
<1>13. Advance(s, i + 1) = Upto((q + 1) % CountMod)
  <2>1. a + (i + 1) = q + 1
    BY <1>1, <1>11
  <2>. HIDE DEF q
  <2>2. Advance(s, i + 1) = [s EXCEPT !.count = (q + 1) % CountMod]
    BY <1>2, <2>1 DEF Advance
  <2>. QED  BY <2>2 DEF s, Upto, StoreOK, StoreType
<1>14. fd \notin Seen(a)
  <2>1. ASSUME NEW x \in ps.count .. (a - 1) PROVE x % n # fd
    <3>1. x \in Nat /\ x < q /\ q < x + n
      BY <1>1, <1>11, <2>1 DEF n
    <3>. HIDE DEF q
    <3>. QED  BY <1>1, <1>11, <3>1, RemaindersDiffer
  <2>. QED  BY <2>1 DEF Seen, n
<1>15. Seen(q + 1) = Seen(a) \cup {fd}
  <2>1. (q + 1) - 1 = q
    BY <1>11
  <2>2. ASSUME NEW x \in ps.count .. q, x % n \in ps.fds
        PROVE  x \in ps.count .. (a - 1) \/ x % n = fd
    <3>1. CASE x = q
      BY <3>1
    <3>2. CASE x >= a /\ x # q
      <4>1. x - a \in 0 .. s.max /\ x - a < i /\ x - a \in Nat /\ a + (x - a) = x
            /\ x <= last
        BY <1>1, <1>2, <1>9, <1>11, <3>2
      <4>2. Slot(s, x - a) = x % n
        BY <1>3, <4>1
      <4>. QED  BY <1>2, <1>9, <2>2, <4>1, <4>2
    <3>. QED  BY <1>1, <1>11, <3>1, <3>2
  <2>3. ps.count .. (a - 1) \subseteq ps.count .. q /\ q \in ps.count .. q
    BY <1>1, <1>11
  <2>. HIDE DEF q
  <2>. QED  BY <1>12, <2>1, <2>2, <2>3 DEF Seen, n
<1>16. /\ q \in a .. last
       /\ GetRaw(Upto(a)) = [ps |-> Upto((q + 1) % CountMod), fd |-> fd]
  BY <1>10, <1>11, <1>12, <1>13 DEF s
<1>. HIDE DEF q
<1>. QED  BY <1>12, <1>14, <1>15, <1>16 DEF n

-----------------------------------------------------------------------------
(* After k lookups the cursor has seen k descriptors.                      *)
Turned(k) ==
  \E a \in ps.count .. (ps.count + ps.max) :
    /\ Lookups[k] = Upto(a)
    /\ Cardinality(Seen(a)) = k
    /\ {GetRaw(Lookups[j]).fd : j \in 0 .. (k - 1)} = Seen(a)

LEMMA TurnedOnce ==
  ASSUME StoreOK(ps), ps.fds # {}, ps.count + ps.max < CountMod,
         NEW k \in 0 .. (Cardinality(ps.fds) - 1), Turned(k)
  PROVE  /\ k + 1 < Cardinality(ps.fds) => Turned(k + 1)
         /\ k + 1 = Cardinality(ps.fds) =>
              {GetRaw(Lookups[j]).fd : j \in 0 .. k} = ps.fds
<1>1. /\ IsFiniteSet(ps.fds) /\ Cardinality(ps.fds) \in Nat
      /\ Cardinality(ps.fds) <= OpenMax - 1
      /\ OpenMax \in Nat /\ k \in Nat
  <2>1. ps.fds \subseteq 1 .. (OpenMax - 1) /\ OpenMax - 1 \in Nat
    BY StoreAssumption DEF StoreOK, StoreType, Fd
  <2>2. /\ IsFiniteSet(1 .. (OpenMax - 1))
        /\ Cardinality(1 .. (OpenMax - 1)) = OpenMax - 1
    BY <2>1, FS_Interval
  <2>. QED  BY <2>1, <2>2, FS_Subset, FS_CardinalityType, StoreAssumption
<1>2. PICK a \in ps.count .. (ps.count + ps.max) :
        /\ Lookups[k] = Upto(a)
        /\ Cardinality(Seen(a)) = k
        /\ {GetRaw(Lookups[j]).fd : j \in 0 .. (k - 1)} = Seen(a)
  BY DEF Turned
<1>3. Seen(a) # ps.fds
  BY <1>1, <1>2
<1>4. PICK q \in a .. (ps.count + ps.max) :
        /\ GetRaw(Upto(a)) = [ps |-> Upto((q + 1) % CountMod),
                              fd |-> q % (ps.max + 1)]
        /\ q % (ps.max + 1) \in ps.fds \ Seen(a)
        /\ Seen(q + 1) = Seen(a) \cup {q % (ps.max + 1)}
  BY <1>3, NextOfTurn
<1>. DEFINE fd == q % (ps.max + 1)
<1>5. IsFiniteSet(Seen(q + 1)) /\ Cardinality(Seen(q + 1)) = k + 1
      /\ Seen(q + 1) \subseteq ps.fds
  <2>1. Seen(a) \subseteq ps.fds /\ Seen(q + 1) \subseteq ps.fds
    BY DEF Seen
  <2>2. IsFiniteSet(Seen(a)) /\ IsFiniteSet(Seen(q + 1))
    BY <1>1, <2>1, FS_Subset
  <2>. HIDE DEF fd
  <2>3. Seen(q + 1) = Seen(a) \cup {fd} /\ fd \notin Seen(a)
    BY <1>4 DEF fd
  <2>4. Cardinality(Seen(a) \cup {fd}) = Cardinality(Seen(a)) + 1
    BY <2>2, <2>3, FS_AddElement
  <2>. QED  BY <1>2, <2>1, <2>2, <2>3, <2>4
<1>6. {GetRaw(Lookups[j]).fd : j \in 0 .. k} = Seen(q + 1)
  <2>1. 0 .. k = (0 .. (k - 1)) \cup {k}
    BY <1>1
  <2>2. GetRaw(Lookups[k]).fd = fd
    BY <1>2, <1>4
  <2>. HIDE DEF fd
  <2>3. {GetRaw(Lookups[j]).fd : j \in 0 .. k}
          = {GetRaw(Lookups[j]).fd : j \in 0 .. (k - 1)} \cup {GetRaw(Lookups[k]).fd}
    BY <2>1
  <2>. QED  BY <1>2, <1>4, <2>2, <2>3 DEF fd
<1>7. ASSUME k + 1 = Cardinality(ps.fds) PROVE Seen(q + 1) = ps.fds
  BY <1>1, <1>5, <1>7, FS_Subset
<1>8. ASSUME k + 1 < Cardinality(ps.fds) PROVE Turned(k + 1)
  <2>1. q + 1 \in ps.count .. (ps.count + ps.max)
    <3>1. Seen(q + 1) # ps.fds
      BY <1>1, <1>5, <1>8
    <3>2. q # ps.count + ps.max
      BY <3>1, TurnSeesAll
    <3>. QED  BY <3>2, TurnSeesAll
  <2>2. (q + 1) % CountMod = q + 1
    BY <2>1, TurnSeesAll, StoreAssumption
  <2>3. Lookups[k + 1] = Upto(q + 1)
    <3>1. k + 1 \in 1 .. OpenMax /\ (k + 1) - 1 = k
      BY <1>1
    <3>2. Lookups[k + 1] = GetRaw(Lookups[(k + 1) - 1]).ps
      BY <3>1, LookupsUnfold
    <3>. QED  BY <1>2, <1>4, <2>2, <3>1, <3>2
  <2>4. (k + 1) - 1 = k
    BY <1>1
  <2>. QED  BY <1>5, <1>6, <2>1, <2>3, <2>4 DEF Turned
<1>. QED  BY <1>6, <1>7, <1>8

LEMMA TurnStarts ==
  ASSUME StoreOK(ps), ps.fds # {}
  PROVE  Turned(0)
<1>1. ps.count \in ps.count .. (ps.count + ps.max)
  BY TurnSeesAll
<1>2. Seen(ps.count) = {}
  BY TurnSeesAll DEF Seen
<1>3. Lookups[0] = Upto(ps.count)
  BY LookupsUnfold DEF Upto, StoreOK, StoreType
<1>4. {GetRaw(Lookups[j]).fd : j \in 0 .. (0 - 1)} = {}
  OBVIOUS
<1>. QED  BY <1>1, <1>2, <1>3, <1>4, FS_EmptySet DEF Turned

LEMMA TakesTurnsInPool == InPool => []RoundRobin
<1>1. ASSUME StoreOK(ps), ps.count + ps.max < CountMod
      PROVE  {GetRaw(Lookups[k]).fd : k \in 0 .. (Cardinality(ps.fds) - 1)} = ps.fds
  <2>1. CASE ps.fds = {}
    <3>1. 0 .. (Cardinality({}) - 1) = {}
      BY FS_EmptySet
    <3>. QED  BY <2>1, <3>1
  <2>2. CASE ps.fds # {}
    <3>1. IsFiniteSet(ps.fds) /\ Cardinality(ps.fds) \in Nat \ {0}
      <4>1. ps.fds \subseteq 0 .. ps.max /\ ps.max \in Nat
        BY <1>1, <2>2, TurnSeesAll
      <4>2. IsFiniteSet(0 .. ps.max)
        BY <4>1, FS_Interval
      <4>. QED  BY <2>2, <4>1, <4>2, FS_Subset, FS_CardinalityType, FS_EmptySet
    <3>. DEFINE Bad == {k \in 0 .. (Cardinality(ps.fds) - 1) : ~Turned(k)}
                least == Min(Bad)
    <3>2. Bad = {}
      <4>1. SUFFICES ASSUME Bad # {} PROVE FALSE
        OBVIOUS
      <4>2. Bad \in SUBSET Nat
        BY <3>1
      <4>. HIDE DEF Bad
      <4>3. least \in Bad /\ \A k \in Bad : least <= k
        BY <4>1, <4>2, MinOfNat
      <4>. HIDE DEF least
      <4>4. least # 0
        BY <1>1, <2>2, <4>3, TurnStarts DEF Bad
      <4>5. least \in Nat /\ least - 1 \in 0 .. (Cardinality(ps.fds) - 1)
            /\ (least - 1) + 1 = least /\ least < Cardinality(ps.fds)
        BY <3>1, <4>3, <4>4 DEF Bad
      <4>6. Turned(least - 1)
        BY <4>3, <4>5 DEF Bad
      <4>7. Turned((least - 1) + 1)
        BY <1>1, <2>2, <4>5, <4>6, TurnedOnce
      <4>. QED  BY <4>3, <4>5, <4>7 DEF Bad
    <3>3. Cardinality(ps.fds) - 1 \in 0 .. (Cardinality(ps.fds) - 1)
          /\ (Cardinality(ps.fds) - 1) + 1 = Cardinality(ps.fds)
      BY <3>1
    <3>4. Turned(Cardinality(ps.fds) - 1)
      BY <3>2, <3>3
    <3>. QED  BY <1>1, <2>2, <3>3, <3>4, TurnedOnce
  <2>. QED  BY <2>1, <2>2
<1>2. PoolInv => RoundRobin
  <2>. SUFFICES ASSUME PoolInv, ps.magic, ps.count + ps.max < CountMod
                PROVE  {GetRaw(Lookups[k]).fd : k \in 0 .. (Cardinality(ps.fds) - 1)} = ps.fds
    BY DEF RoundRobin
  <2>1. StoreOK(ps)
    BY LiveStore DEF PoolInv
  <2>. QED  BY <1>1, <2>1
<1>. QED  BY <1>2, PTL DEF InPool

(* As many lookups as there are tracked descriptors find each of them      *)
(* once, for every set and every position of the cursor from which it does *)
(* not wrap.                                                               *)
THEOREM TakesTurns == PoolSpec => []RoundRobin
  BY TakesTurnsInPool, PoolIsInPool, PTL

=============================================================================
