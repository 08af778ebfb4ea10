------------------------------- MODULE FdStore -------------------------------
(***************************************************************************)
(* The descriptor store of src/src/lib/fdstore.c, as operators.            *)
(*                                                                         *)
(* A store s is the struct bstg_fdstore_t: s.magic says whether the magic  *)
(* word is the valid one, s.max and s.count are the two cursors and s.fds  *)
(* the fd_set.  A descriptor table t is the kernel's side: the set of the  *)
(* descriptors the process has open.  Each library function is an operator *)
(* that takes s and t and yields a record of the store and the table it    *)
(* leaves and of the value it returns.                                     *)
(*                                                                         *)
(* A definition named Faulty... is the definition after it with a bug of a *)
(* kind this code invites; no specification uses it.  It is the yardstick  *)
(* for the property that has to notice that bug.                           *)
(***************************************************************************)
EXTENDS Integers, FiniteSets, FiniteSetsExt

CONSTANTS
  OpenMax,     (* descriptors a process may have open: 0 .. OpenMax-1        *)
  ReplaceMax,  (* above this s.max the store replaces; 10 in the code        *)
  CountMod     (* values of the unsigned s.count; 2^32 in the code           *)

ASSUME StoreAssumption ==
  /\ OpenMax \in Nat \ {0}
  /\ ReplaceMax \in Nat
  /\ CountMod \in Nat \ {0}

Fd     == 0 .. (OpenMax - 1)
EINVAL == 22

StoreType ==
  [magic : BOOLEAN, max : Fd \cup {-1}, count : 0 .. (CountMod - 1),
   fds : SUBSET Fd]

-----------------------------------------------------------------------------
(* The kernel: open() and pipe() hand out the lowest descriptor that is    *)
(* free, and fail with EMFILE when none is.                                *)

Free(t)       == Fd \ t
LowestFree(t) == Min(Free(t))

-----------------------------------------------------------------------------
(* bstg_fdstore_reset() and bstg_fdstore_init().                           *)
Reset(s)     == [s EXCEPT !.max = -1, !.count = 0, !.fds = {}]
InitStore(s) == Reset([s EXCEPT !.magic = TRUE])

(* The loop of bstg_fdstore_closeall(): every descriptor up to s.max that  *)
(* is in the set is passed to close().                                     *)
FaultyToCloseBound(s) == {curr \in 0 .. (s.max - 1) : curr \in s.fds}
ToClose(s) == {curr \in 0 .. s.max : curr \in s.fds}

CloseAll(s, t) ==
  IF s.magic
  THEN [ps |-> Reset(s), open |-> t \ ToClose(s), ret |-> 0]
  ELSE [ps |-> s, open |-> t, ret |-> EINVAL]

(* bstg_fdstore_destroy(): a failing closeall is passed on, otherwise the  *)
(* magic word is complemented.                                             *)
DestroyStore(s, t) ==
  LET c == CloseAll(s, t)
  IN  IF c.ret # 0 THEN c ELSE [c EXCEPT !.ps.magic = FALSE]

(* What bstg_preexec() leaves open in the child of special/exec,           *)
(* ldpreload, ldlibrarypath or gcore that is about to exec.  posix_spawn.c *)
(* does not call it: what it starts inherits the whole table.              *)
FaultyPreexecTable(s, t) == t \ {0, 1, 2}
PreexecTable(s, t) == CloseAll(s, t).open \ {0, 1, 2}

-----------------------------------------------------------------------------
(* bstg_fdstore_getraw(): s.max + 1 attempts, each at the slot the cursor  *)
(* points to; the cursor is an unsigned that wraps at CountMod.            *)
Slot(s, i) == ((s.count + i) % CountMod) % (s.max + 1)
Hits(s)    == {i \in 0 .. s.max : Slot(s, i) \in s.fds}

FaultyAdvance(s, n) == [s EXCEPT !.count = s.count + n]
FaultyAdvanceStay(s, n) == s
Advance(s, n) == [s EXCEPT !.count = (s.count + n) % CountMod]

GetRaw(s) ==
  IF Hits(s) = {}
  THEN [ps |-> Advance(s, s.max + 1), fd |-> -1]
  ELSE [ps |-> Advance(s, Min(Hits(s)) + 1), fd |-> Slot(s, Min(Hits(s)))]

(* FD_SET() with the update of s.max; only descriptors above 0 are kept.   *)
FaultyTrackMax(s, fd) ==
  IF fd > 0 THEN [s EXCEPT !.max = fd, !.fds = s.fds \cup {fd}] ELSE s

Track(s, fd) ==
  IF fd > 0
  THEN [s EXCEPT !.max = IF fd > s.max THEN fd ELSE s.max,
                 !.fds = s.fds \cup {fd}]
  ELSE s

(* bstg_fdstore_set(): once s.max is above the limit a tracked descriptor  *)
(* is looked up and made a duplicate of fd; dup2() fails exactly when fd   *)
(* is not open.  In every other case fd itself is tracked.                 *)
FaultyReplaces(s, t, fd) == FALSE

FaultyReplacesEarly(s, t, fd) ==
  /\ s.max >= ReplaceMax
  /\ GetRaw(s).fd > 0
  /\ fd \in t

Replaces(s, t, fd) ==
  /\ s.max > ReplaceMax
  /\ GetRaw(s).fd > 0
  /\ fd \in t

FaultySetFd(s, t, fd) ==
  LET looked == IF s.max > ReplaceMax THEN GetRaw(s).ps ELSE s
  IN  IF Replaces(s, t, fd)
      THEN [ps |-> looked, open |-> t \cup {GetRaw(s).fd}, ret |-> fd]
      ELSE [ps |-> Track(looked, fd), open |-> t, ret |-> fd]

SetFd(s, t, fd) ==
  LET looked == IF s.max > ReplaceMax THEN GetRaw(s).ps ELSE s
      newd   == GetRaw(s).fd
  IN  IF Replaces(s, t, fd)
      THEN [ps |-> looked, open |-> t \cup {newd}, ret |-> newd]
      ELSE [ps |-> Track(looked, fd), open |-> t, ret |-> fd]

(* bstg_fdstore_get2(): a tracked descriptor if the scan finds one, else   *)
(* four open() calls, one per access mode, until one returns more than 0.  *)
(* opens is how many of them the file system lets succeed: the first       *)
(* success may be descriptor 0, which the > 0 test leaves open and passes  *)
(* over, so that a second success is needed.                               *)
Opens == 0 .. 2

GetFd(s, t, opens) ==
  LET raw    == GetRaw(s)
      zero   == opens > 0 /\ 0 \notin t
      tried  == IF zero THEN t \cup {0} ELSE t
      opened == Free(tried) # {} /\ opens > (IF zero THEN 1 ELSE 0)
      fd     == LowestFree(tried)
  IN  IF raw.fd > 0
      THEN [ps |-> raw.ps, open |-> t, ret |-> raw.fd]
      ELSE IF opened
           THEN SetFd(raw.ps, tried \cup {fd}, fd)
           ELSE [ps |-> raw.ps, open |-> tried, ret |-> -1]

=============================================================================
