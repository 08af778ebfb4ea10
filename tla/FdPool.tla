-------------------------------- MODULE FdPool --------------------------------
(***************************************************************************)
(* One process that runs the operations of the pool (src/src/funcs) on its *)
(* descriptor store.  An operation is one action: it runs to its end in    *)
(* the process before the next one starts, and what it does to the store   *)
(* and to the process's descriptor table is all that is kept of it.        *)
(***************************************************************************)
EXTENDS FdStore

CONSTANT
  StdFds       (* descriptors open when the program starts                  *)

ASSUME PoolAssumption ==
  /\ StdFds \subseteq Fd
  /\ Free(StdFds) \ {0} # {}

VARIABLES
  ps,          (* the process's bstg_fdstore_t                              *)
  open,        (* the process's descriptor table                            *)
  ret          (* what the last library call returned                       *)

poolVars == <<ps, open, ret>>

(* The driver's bstg_funcs_t is static, hence zero, before it is set up.   *)
PoolInit ==
  /\ ps = [magic |-> FALSE, max |-> 0, count |-> 0, fds |-> {}]
  /\ open = StdFds
  /\ ret = 0

(* Make r the result of this step.                                         *)
Return(r) ==
  /\ ps' = r.ps
  /\ open' = r.open
  /\ ret' = r.ret

-----------------------------------------------------------------------------
(* Set-up and tear-down.  Drivers set the store up once before the first   *)
(* operation; a destroy without a live store is refused with EINVAL.       *)
FdstoreInit ==
  /\ ~ps.magic
  /\ Return([ps |-> InitStore(ps), open |-> open, ret |-> 0])

FdstoreDestroy == Return(DestroyStore(ps, open))

(* close/closeall.c, and the call drivers make between two operations.     *)
Closeall == Return(CloseAll(ps, open))

-----------------------------------------------------------------------------
(* The operations.  They run only while the store is live: getraw and set  *)
(* assert the magic word.                                                  *)

(* open/{append,appendtrunc,osync,rdwr,trunc}.c: the result of open() goes *)
(* to set, the -1 of a failed open() included.                             *)
Open ==
  /\ ps.magic
  /\ \/ Return(SetFd(ps, open, -1))
     \/ /\ Free(open) # {}
        /\ LET fd == LowestFree(open)
           IN  Return(SetFd(ps, open \cup {fd}, fd))

FaultyPipe ==
  /\ ps.magic
  /\ Cardinality(Free(open)) >= 2
  /\ LET rd == LowestFree(open)
         wr == LowestFree(open \cup {rd})
     IN  Return(SetFd(ps, open \cup {rd, wr}, rd))

(* pipe/pipe.c: both ends exist before the first of them goes to set.      *)
Pipe ==
  /\ ps.magic
  /\ Cardinality(Free(open)) >= 2
  /\ LET rd    == LowestFree(open)
         wr    == LowestFree(open \cup {rd})
         first == SetFd(ps, open \cup {rd, wr}, rd)
     IN  Return(SetFd(first.ps, first.open, wr))

(* The many operations that get one descriptor and use it: read, write,    *)
(* lseek, truncate, fchmod, fchown, fsync, mmap, special/copyexe, ...      *)
Use ==
  /\ ps.magic
  /\ \E opens \in Opens : Return(GetFd(ps, open, opens))

(* sendfile/sendfile.c gets two descriptors.                               *)
Sendfile ==
  /\ ps.magic
  /\ \E o1, o2 \in Opens :
       LET from == GetFd(ps, open, o1)
       IN  Return(GetFd(from.ps, from.open, o2))

(* opendir/fdopendir.c: on a directory fdopendir() takes the descriptor    *)
(* over and closedir() closes it; the store is not told.                   *)
Fdopendir ==
  /\ ps.magic
  /\ \E opens \in Opens, isdir \in BOOLEAN :
       LET got == GetFd(ps, open, opens)
       IN  Return([got EXCEPT !.open = IF isdir THEN @ \ {got.ret} ELSE @])

(* chdir/chdir.c and chdir/fchdir.c hold a descriptor of "." meanwhile.    *)
(* When "." is opened as descriptor 0 the > 0 test gives up and leaves it  *)
(* open; when open() fails nothing happens at all.                         *)
ChdirGivesUp ==
  /\ ps.magic
  /\ 0 \notin open
  /\ open' = open \cup {0}
  /\ UNCHANGED <<ps, ret>>

FaultyFchdirKeeps ==
  /\ ps.magic
  /\ 0 \in open
  /\ Free(open) # {}
  /\ \E opens \in Opens :
       Return(GetFd(ps, open \cup {LowestFree(open)}, opens))

FaultyFchdirSwapped ==
  /\ ps.magic
  /\ 0 \in open
  /\ Free(open) # {}
  /\ \E opens \in Opens :
       LET got == GetFd(ps, open \cup {LowestFree(open)}, opens)
       IN  Return([got EXCEPT !.open = @ \ {got.ret}])

Fchdir ==
  /\ ps.magic
  /\ 0 \in open
  /\ Free(open) # {}
  /\ \E opens \in Opens :
       LET cwdfd == LowestFree(open)
           got   == GetFd(ps, open \cup {cwdfd}, opens)
       IN  Return([got EXCEPT !.open = @ \ {cwdfd}])

-----------------------------------------------------------------------------
PoolNext ==
  \/ FdstoreInit
  \/ FdstoreDestroy
  \/ Closeall
  \/ Open
  \/ Pipe
  \/ Use
  \/ Sendfile
  \/ Fdopendir
  \/ ChdirGivesUp
  \/ Fchdir

PoolSpec == PoolInit /\ [][PoolNext]_poolVars

-----------------------------------------------------------------------------
(* Tracked descriptors that are no longer open, and open ones that nobody  *)
(* can close any more: neither the program's own nor tracked.              *)
Stale  == ps.fds \ open
Leaked == open \ (StdFds \cup ps.fds \cup {0})

(* Types.  The counter in particular keeps its width.                      *)
PoolTypeOK ==
  /\ ps \in StoreType
  /\ open \subseteq Fd
  /\ ret \in Fd \cup {-1, 0, EINVAL}

(* In a live store s.max is the largest tracked descriptor, -1 when there  *)
(* is none (fembot.h: "max: largest fd in set"), and descriptor 0 is never *)
(* tracked.  closeall's loop and getraw's modulus both rely on it.         *)
MaxIsLargest ==
  ps.magic => /\ 0 \notin ps.fds
              /\ ps.max \in ps.fds \cup {-1}
              /\ \A fd \in ps.fds : fd <= ps.max

(* A store that is not set up, or was destroyed, tracks nothing: destroy   *)
(* does not drop descriptors without closing them.                         *)
DeadIsEmpty == ~ps.magic => ps.fds = {}

(* The descriptors the program started with stay open and never come under *)
(* the store's control, however the store reuses numbers with dup2().      *)
ForeignSafe == StdFds \subseteq open /\ StdFds \cap ps.fds = {}

(* The leaks of replacement never use up the table for good: at any time   *)
(* some descriptor above 0 is free or is tracked and open, so that the     *)
(* operations have something left to work on.                              *)
NeverStarved ==
  \E fd \in Fd \ {0} : fd \notin open \/ fd \in ps.fds

(* A program that exec, ldpreload, ldlibrarypath or gcore executes         *)
(* inherits, of the descriptors above 2, what leaked or was the program's  *)
(* own, and nothing that is tracked.                                       *)
PreexecSeesOnlyLeaks ==
  ps.magic => PreexecTable(ps, open) = (Leaked \cup StdFds) \ {0, 1, 2}

(* Every operation that asks the store for a descriptor gets a tracked one *)
(* or -1, also when the lookup opened a new one or replaced an old one.    *)
GetReturnsTracked ==
  [][Use \/ Sendfile => ret' \in ps'.fds \cup {-1}]_poolVars

(* A tracked descriptor that is not open can only come from fdopendir():   *)
(* every other operation leaves the store at least as accurate as it was.  *)
NoNewStale == [][Stale' \subseteq Stale \/ Fdopendir]_poolVars

(* A descriptor leaks only in a step that ends with s.max above the limit, *)
(* that is where bstg_fdstore_set() replaces.                              *)
LeakOnlyWhenReplacing ==
  [][Leaked' \subseteq Leaked \/ ps'.max > ReplaceMax]_poolVars

(* Once s.max is above the limit the set of tracked descriptors is frozen  *)
(* until the next closeall ("replace an fd if there are too many open      *)
(* already"), but for a scan that meets the wrap of the cursor and misses  *)
(* every tracked descriptor; a step scans at most twice.  Up to the limit  *)
(* a step may track a descriptor as large as the kernel hands it out, but  *)
(* what lies between it and the limit has leaked or is the program's own,  *)
(* all but one: the first of the two of pipe() and sendfile(), or "." of   *)
(* fchdir().  So, but for the wrap, only a process that has leaked nearly  *)
(* as many descriptors as an fd_set has room for can come to FD_SET() one  *)
(* that is too large.                                                      *)
ReplaceBounds ==
  [][/\ ps.max > ReplaceMax /\ ps.count + 2 * (ps.max + 1) <= CountMod =>
          ps'.fds \in {ps.fds, {}}
     /\ ps.max <= ReplaceMax =>
          \E other \in Fd : \A fd \in ps'.fds \ ps.fds :
            ((ReplaceMax + 1) .. (fd - 1)) \ {other} \subseteq
              Leaked \cup StdFds]_poolVars

(* The store after k lookups.                                              *)
Lookups ==
  LET after[k \in 0 .. OpenMax] ==
        IF k = 0 THEN ps ELSE GetRaw(after[k - 1]).ps
  IN  after

(* Round robin ("Start where we left off and then loop around"): as many   *)
(* lookups in a row as there are tracked descriptors return each of them   *)
(* exactly once, unless the cursor wraps meanwhile.                        *)
RoundRobin ==
  LET calls == 0 .. (Cardinality(ps.fds) - 1)
  IN  ps.magic /\ ps.count + ps.max < CountMod =>
        {GetRaw(Lookups[k]).fd : k \in calls} = ps.fds

-----------------------------------------------------------------------------
(* The promise of DescriptorPool: whatever limits, wraps and replacements  *)
(* do, the set of tracked descriptors is emptied only by closing all of    *)
(* it and nothing else, and no operation closes, or takes under the        *)
(* store's control, a descriptor that was open and untracked before it.    *)
Promise == INSTANCE DescriptorPool
             WITH Own <- StdFds, live <- ps.magic, tracked <- ps.fds

KeepsPromise == Promise!Spec

-----------------------------------------------------------------------------
(* What a comment of the repository says and the code does not do.         *)

(* fembot.h on the store: "fds open()ed during the test run".              *)
AllOpenedTracked == open \ (StdFds \cup {0}) \subseteq ps.fds

=============================================================================
