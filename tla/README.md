# Verification of file-system-stress-testing

TLA+ models of the monkey-test framework: its descriptor store, the operations
of its pool, the programs that run them (the smoke test Aibreann, the stress
test Brannagh, the archive player Clodagh), the archive maker mkpax and the
shell scripts around them.  TLC checks the models on small instances; TLAPS
proves the types, every invariant and every action property that the passing
runs check, and that the store implements its abstract promise, for every value
of the constants.  Four liveness properties stay with TLC.  Source paths below
are relative to the repository's `src/`.

## 1. The system

| component | state | operations | how it meets the others |
|---|---|---|---|
| descriptor store, `lib/fdstore.c` | magic word, largest tracked descriptor `max`, cursor `count` (an unsigned that wraps), the `fd_set` | init, destroy, closeall, getraw, set, get/get2, preexec | shares the process's descriptor table with everything else in the process; the kernel hands out the lowest free number |
| operation pool, `funcs/src`, `funcs/special` | none of its own | about a hundred snippets, wrapped into functions by `mkfuncs.sh` and put in a table by `mktable.sh` | each gets descriptors from the store, adds new ones, or works on paths; some fork, some map files |
| child processes of operations, `lib/bstg_waitpid.c`, `special/{exec,ldpreload,ldlibrarypath,gcore,posix_spawn}.c`, `dlopen.c` | the processes, a poll counter | fork, execute, poll with a timeout, kill, reap | run files that the test itself has written |
| mapped files, `funcs/src/mmap`, `lib/bstg_signalj.c`, `lib/bstg_signalx.c` | the mapping, the signal handlers and mask, the jump buffer | map, copy, unmap; jump out of a fault | other children truncate the file meanwhile |
| file sizes, `funcs/src/{truncate,lseek,write}`, `special/{mkhashbang,mkhashbang2,copyexe}.c` | the size of a file, what `fstat()` said | truncate, seek and write, by a number, relative to the size, or from nothing | children work on the same files; an operation of two calls can be interrupted between them |
| directories, `funcs/src/{mkdir,unlink,remove,link,rename,...}`, `special/move.c` | the entries of the file system under test | make, remove, link, rename; move a directory to `tmp` and back | all children use the one name `tmp` |
| path table, `clodagh/pathstore.h`, the makefiles | a constant table | draw a path | names what every operation on paths works on |
| globals, `lib/funcs.c` | the store, a pattern area and a buffer area | init, destroy | set up once, before any fork |
| operation list, `lib/flist.c` | array of operation numbers and a range | init, set, get, shuffle, import from text | used by mkpax only |
| mkpax, `clodagh/mkpax.c` | the list and the shard being written; with `-r` a buffer for entries | build, shuffle, cut, write archives; print archives | writes what Clodagh reads |
| Aibreann, `aibreann/aibreann.c` | the globals, an operation, a path counter | one operation on every path, closeall after each | |
| Brannagh, `brannagh/brannagh.c` | 37 children, each with a copy of the globals; a parent that waits | every operation, for ever | children share the files |
| Clodagh, `clodagh/clodagh.c` | 128 children, each with a copy of the globals, libarchive's descriptor and a buffer for entries; a parent that waits | the operations that archives list | libarchive's descriptor is in the table that the store works on |
| disk harness, `aibreann/check.sh`, `brannagh/check.sh`, `dsk/`, `shlib/bsd.lib` | vnode devices, mounts, image files, `md.txt` | unpack, configure, newfs, mount, run, umount, fsck, release | runs the programs on a fresh image; the kernel may panic under them |

What is hard here:

* the kernel reuses descriptor numbers, `fdopendir()` closes descriptors that
  the store goes on handing out, and above a limit the store replaces
  descriptors with `dup2()`: the store and the table drift apart;
* the cursor wraps at 2^32 while it is read modulo a changing `max + 1`;
* children of one test change the files another is using, so that a checked
  size is stale when it is used and a copy faults;
* the sizes that `fstat()` returns are stale, or were never returned, when a
  second call uses them; a directory that one child has moved away may be moved
  back by another, under another name;
* the buffer for archive entries is never terminated nor cleared, so that the
  parser reads on into what earlier entries have left there;
* forks and system calls fail half way through an operation, and the executed
  files may run for ever;
* scripts stop at the first command that fails, and the machine may panic
  between any two.

What makes each component correct:

* store: `max` bounds the set; closeall closes all of the set and nothing
  else; no operation touches a descriptor that is open and not tracked;
  operations never run out of descriptors to work on;
* processes: an operation leaves no process behind, kills only processes of its
  own that are not reaped, and ends if it has a timeout;
* mapped files: faults do not kill the child, copies stay in bounds, and what
  is mapped is unmapped;
* file sizes: a relative truncation goes the way of its name, and an emptied file
  has nothing behind what is written next, or another child has come in between;
  a size that was never read has no effect;
* directories: no move replaces a directory with contents, only overlapping moves
  lose even an empty one, and `tmp` comes free again;
* archive entries: an entry that is a whole list is executed, and printed, as it
  is, whatever has been read before it;
* mkpax: the list is what the user asked for, every order of it is possible,
  and the shards are an even partition of it, or an initial part of one when it
  gives up;
* parents: they return when no child is left, and not before;
* programs: each path of the smoke test starts from the same table, a set-up
  that fails is undone, an archive stays open while it is read;
* harness: a success gives the device back, a failure leaves one at most, and
  checks start from a fresh image.

The hazards, each at the line where it bites and with the properties that would
notice it, are the `hazards` of `PROJECT.json`.

## 2. The modules

| module | code | extends |
|---|---|---|
| `FdStore` | the functions of `lib/fdstore.c` as operators on a store and a descriptor table | |
| `FdPool` | a process that runs operations on one store; one action per kind of operation | `FdStore` |
| `DescriptorPool` | the store's promise, abstractly: a set of tracked descriptors | |
| `Fault` | the mapping operations and the handler that jumps | |
| `Entries` | the buffer for archive entries, as mkpax and Clodagh use it | |
| `Aibreann` | the smoke test and the life of `bstg_funcs_t` | `FdPool` |
| `Brannagh` | a child of the stress test: descriptors, a pipe, mappings, other children | `FdPool`, `Fault` |
| `Clodagh` | a child of the archive player | `FdPool`, `Entries` |
| `Spawn` | the operations that start processes, and `bstg_waitpid()` | |
| `Files` | the operations that set the size of a file, in several children | |
| `Tree` | the parent of a stress test, its children, and the directories they move | |
| `Flist`, `MkPax`, `MCMkPax` | the operation list; `mkpax -c` and `-r`; their inputs | `Entries` |
| `Harness` | the scripts, over devices, mounts and images | |

The proofs are in modules of their own, which extend the modules they are about:

| module | about | extends also |
|---|---|---|
| `FdPoolProofs` | the library's functions, the pool's operations, the refinement of `DescriptorPool` | |
| `AibreannProofs`, `BrannaghProofs`, `ClodaghProofs` | the three programs; `BrannaghProofs` has the theorems on `Fault` | `FdPoolProofs` |
| `OperationProofs` | `Files` and `Spawn` | |
| `TreeProofs`, `MkPaxProofs`, `HarnessProofs` | the module of that name | |

Names that modules would share when one extends another carry the component's:
`PoolSpec`, `FaultSpec`, `SpawnSpec`, `FilesSpec` and `PoolTypeOK` are the
specifications and types of the modules that are built on.

How state and actions correspond to the code:

**FdStore, FdPool.**  `ps` is `bstg_fdstore_t`, `open` the process's descriptor
table, `ret` what the last call returned.  Every library function is an
operator that yields the new store, the new table and the returned value;
`SetFd` is `bstg_fdstore_set()` with its lookup, its `dup2()` and its `FD_SET()`.
An operation of the pool is one action, since it runs to its end in its process
and nothing else touches that process's store or table; what it does to files
is left out here.  The many operations that get one descriptor and use it are
the one action `Use`.  `Opens` says how many of the four `open()` calls in
`bstg_fdstore_get2()` the file system lets succeed: the first success may be
descriptor 0, which the `> 0` tests pass over and leave open.  `PreexecTable` is
what `bstg_preexec()` leaves to the files that `exec`, `ldpreload`, `ldlibrarypath`
and `gcore` execute; `posix_spawn.c` does not call it, and its program inherits the
whole table.

**DescriptorPool.**  Three actions: the store is set up, an operation works
(whatever is open and untracked stays so), and the whole set is closed.
`KeepsPromise` in `FdPool` is its specification with `live`, `tracked` and
`open` read off `ps.magic`, `ps.fds` and `open`.

**Spawn.**  `pc` is the step of the process that runs the operation ("kill" and
"reap" are those of gcore's target), `st` the
state of the child it waits for, of gcore's sleeping target and of the program
that `posix_spawn()`'s child starts; `count` is `bstg_waitpid()`'s count, where
all values above the timeout are the same, since the code only tests for that.

**Fault.**  Sizes are in pages.  `Enter` is everything up to the call of
`memcpy()`: nothing in it can fault.  `Copy` and `Jump` are the two ways the copy
ends, `Leave` puts the handlers back and unmaps; `Resize` is any other child.

**Brannagh.**  What a descriptor refers to matters for a pipe: `ends` has the
descriptors of one watched pipe.  `RunOpen`, `RunPipe`, `RunFdopendir` and the
other `Run...` are the actions of `FdPool` of that name with what they do to the
pipe; `RunMapFile` gets a descriptor and enters `Fault`, and other children act
(`OthersResize`) while the copy is under way.

**Aibreann, Clodagh.**  The operations are the actions of `FdPool` between the
programs' own steps; `CloseTracked` is the smoke test's `fdstore_closeall()`
after each path.  `archive` is the descriptor libarchive opened.  `kind` is
what the last entry was and `buf` what proplib can find in the buffer.

**Entries.**  `strlcat(buf, "", 1)` writes nothing behind an entry that is not
empty, although the comments at `clodagh/clodagh.c:126` and
`clodagh/mkpax.c:140` say that it terminates it.  A buffer is therefore
described by whether the end of a list is anywhere in it, and by which entries
the bytes up to there come from.  An entry is a whole list, a whole text that is
none, a list that is cut off, empty, or not delivered to the last byte; the
fourth is what a directory in an archive is.

**Tree.**  `at` says which directory has which name, `files` what it holds;
directories keep the identity of their first name.  `proc` is the state of each
child, "moved" between the two calls of `special/move.c`, whose variable `src` is.
`x` and `parent` are the parent's loop and its `wait()`.  A call that fails
changes nothing and is not shown, except where the program goes on differently.

**Files.**  One file, several children.  `pend` is the second call of the
operation that a child is in, with what the first one returned and, as history,
what the size was at that time.  There is one definition for each operation, with
its name; the ones with 1k and 16k in their names have the number of the other in
the code, which the definitions reproduce.  `sign` is the direction in the name, and
`to` what the calls compute, so that the one can be held against the other.  A
descriptor may be one that appends, which `mkhashbang2`'s write then does.
`fstat()` of a bad descriptor leaves its buffer as it was, and nobody has set it:
`Garbage` stands for what is there.  The offset of a descriptor is anything, since
any child may have moved it: the twelve `lseek` operations are one definition.

**MkPax.** Text of `-S` is a sequence of numbers, blanks, punctuation, newlines and
junk: exactly what the scanners of `bstg_flist_import()` tell apart.  Random draws
are choices.  `-r` has its own variables (`read`): the entries of the archive, the
buffer, and for each list that it prints the entries it came from.  The array has
one cell more than the code's, to see the write behind its end.  An archive is what
was drawn for it and whether `write_archive()` came to its end: the assertions and
checks in there end mkpax inside an archive, with earlier ones of the set written.

**Harness.**  Scripts run one after the other; each command may fail; `Panic`
may happen while the program runs.  `sudo` says whether `${SUDO}` is a command,
because a shell function cannot be run by it.  An image is `pristine` when it has been
unpacked, `used` by a program or newfs, and `broken` when the decompressor failed after
the redirection had emptied it, or when it was unpacked under a device that uses it.

A definition named `Faulty...` is the definition after it with a bug of a kind
the code invites.  No specification uses it: put in the place of the real
definition it makes the property listed with it in `PROJECT.json` fail, which
shows that the property can notice such a bug.

## 3. The runs

| run | shows |
|---|---|
| `pool` | every sequence of operations on one store started with standard input closed: types and width of the counter, `MaxIsLargest`, the promise of `DescriptorPool`, that descriptors leak only by replacement and never all of them (`NeverStarved`), what a program inherits that is executed after `bstg_preexec()`, that lookups go round robin, that the set is frozen above the limit and only leaks let it reach far beyond |
| `mkpax` | `mkpax -c` with every list of up to three tokens and some long ones, every shuffle, 0 to 6 shards: import, orders, partition, balance, what is left when mkpax gives up, termination; and `mkpax -r` with every archive of up to three entries: whole lists are printed as they are |
| `spawn` | no process left behind, no stray signal, first or repeated, gcore's target kept, and the ends of the operations |
| `smoke_test` | each path meets the same table; a failed set-up is undone |
| `archives` | libarchive's descriptor stays open and untracked among the store's; operations of an earlier entry run again only through an entry that is no whole list |
| `harness` | devices, mounts and images over all sequences of the three scripts: what a success and a failure leave, and that only a device that a failed script has left spoils the next test's image |
| `stress` | a stress-test child: faults survived, copies in bounds, mappings balanced, and pipes whole until the store replaces |
| `tree` | three children that fill, empty and move directories through one name: the way back is always free, losses only by overlapping moves, `tmp` comes free, the parent outlives all |
| `files` | two children with every operation that sets the size of a file: relative truncations go the way of their names and emptied files have nothing behind their contents, unless raced |

`PoolTypeOK` is checked in `pool`, where it says that the counter keeps its
width.  The types of the other modules are not checked by runs of their own but
proved.

Three runs show the code doing something other than what the repository says of it:

| run | disagreement |
|---|---|
| `pool_leak` | after a replacement the new descriptor is neither closed nor tracked, so "fds open()ed during the test run" (`lib/fembot.h`) are not all known to the store: one leaks with each `open()` above the limit |
| `archives_given` | after its last archive a child opens the NULL that ends `argv`, which libarchive takes for standard input, and runs what comes from there |
| `mkpax_remainder` | "put any remainders in the last shard" holds only for remainders smaller than a share: five operations in three shards are five archives |

### Bounds

* `OpenMax` 6 or 7, `ReplaceMax` 3 (10 in the code): above the limit there are
  descriptors left to replace, to leak and to run out of; 16 and the real 10 in
  `Aibreann`, where the limit itself matters.
* `CountMod` 17 in `pool`: no `max + 1` other than 1 divides it, so that the
  cursor wraps unevenly as 2^32 does for most values of `max`; 8 where the wrap
  is of no interest, though it still occurs.
* `StdFds` is `{1, 2}` where descriptor 0 can be handed out, which is the case
  that the `> 0` tests treat apart, and `{0, 1, 2}` otherwise.
* `NFUNCS` 5 in mkpax, texts of three tokens: a number between two separators of
  different kinds, plus lists that fill the array, overfill it by one, repeat a
  number or hold one out of range; more shards than operations, and none.
* `Ticks` 2: polls before, at and after the timeout.
* `NPATHS` 10; two archives and then standard input.
* `MaxEntries` 3: an entry, one that leaves something in the buffer behind it,
  and a third over both.  A child of Clodagh reads any number of entries, since its
  buffer only tells this entry from earlier ones.
* `Dirs` 3, `NChildren` 3, one name: two children whose moves overlap and a third
  that takes what they leave, with a directory that has a file in it and two that
  have none.
* `Files`: two children, since each race is one other child's call between two of
  one's own; `MaxSize` 3 with `K1` below `K16` and `M1`, so that relative sizes are
  negative, zero, within and beyond the limit; `Path` shorter than `Script`.
* `Units` 3, `NFUNCS` 3 in the harness: a device that is left behind, the
  script's own and a free one; a first, a middle and a last operation.
* `BufLen` 2 pages, `MaxSize` 3: a file may be empty, shorter than the buffer, as
  long, and longer.  One pipe is watched at a time: a write concerns one pipe.

### Fairness

Safety properties are checked without any.  mkpax is a sequential program and
gets weak fairness of its next step (`Finishes`).  In `Spawn` the operation and
the child of `posix_spawn` get weak fairness each, as runnable processes do under
the kernel's scheduler, and a process that was sent SIGKILL dies.  Nothing makes
an executed file end: `TimedOperationsReturn` must hold for files that never do,
and `SpawnReturns` says no more than that the operation without a timeout ends
when its program has.  In `Tree` each child gets weak fairness of `MoveBack`: the
kernel schedules runnable children, and nothing in the second half of `move.c` can
kill one.

`CHECK_DEADLOCK` is on everywhere; programs that have ended stutter in `Ended`.

## 4. The proofs

### Assumptions

The constants are restricted by named assumptions, which TLC evaluates in the runs
and which say no more than the code does:

* `StoreAssumption`, `PoolAssumption`: a table of at least one descriptor, a
  natural limit, a counter width above 0; the program's own descriptors are within
  the table and leave one free that is not 0.
* `AibreannAssumption`: the first descriptor that an operation gets is within the
  limit (`LowestFree(StdFds \cup {0}) <= ReplaceMax`).  A program started with
  the descriptors 0 to 10 open does not satisfy it: then the second descriptor of a
  pipe replaces the first, and the next path starts with one more in its table.
* `ClodaghAssumption`, `TreeAssumption`: any number of archives, of children, and
  any part of the table of paths, whose directories are not called `tmp`.
* `FaultAssumption`: a buffer that is not empty.
* `SpawnAssumption`: a natural timeout.
* `FilesAssumption`: natural sizes, ordered as those of the code are.
* `FlistAssumption`, `MkPaxAssumption`: a pool of one operation or more; any set
  of lists and of natural numbers of shards.
* `HarnessAssumption`: finitely many devices, none included.

### The store and its pool (`FdPoolProofs`)

The inductive invariant is `PoolInv`: `PoolTypeOK`, `MaxIsLargest`, `DeadIsEmpty`
(together `StoreInv`), `ForeignSafe` and `NeverStarved`.  They need each other:
that `closeall` leaves the program's own descriptors open needs that none is
tracked, that a new descriptor is not one of them needs that they are open, that
it closes all of the set needs that `max` bounds the set, and `NeverStarved`
across a `dup2()` needs that what is replaced is tracked.

The proof goes operator by operator.  `GetRawOK`, `TrackOK`, `SetOK`, `GetOK` and
`CloseAllOK` say what each library function guarantees for any store that is well
formed; from them one lemma for each action derives `StepOK`, which is what an
operation guarantees to any program that runs it.  The proofs of the three
programs rest on `StepOK` and on these lemmas.  The results below
are proved of any behaviour of which `PoolInv` holds throughout and whose steps are
operations or leave the pool alone (`InPool`), so that a program that shows both of
itself has them too.

* `ImplementsPool`: a step that is `Careful`, which `StepOK` includes, is one of
  the promise (`CarefulKeeps`): a step of an operation maps to `Operate`, one of
  closeall or destroy to `Clear` or a stutter, and set-up to `SetUp`.
* `GetTracked`, `PreexecCleared`, `OnlyFdopendirStales` and `LeaksByReplacing` follow
  from `PoolInv` and `StepOK`.
* `LimitHolds`: above the limit the set is frozen.  `HitsWithoutWrap` and
  `FrozenGetRaw` say that a cursor that does not wrap finds a tracked descriptor in
  a round of `max + 1` values, which is where "unless the counter wraps" comes from.
  Up to the limit, the kernel hands out the lowest free number (`LowestFillsUp`), so
  that whatever lies between the limit and a new number is in use and not tracked:
  it has leaked, but for the one other descriptor an operation holds (`BelowIsLeaked`).
* `TakesTurns`: `RoundRobin` is about a recursive function, `Lookups`.  Its
  unfolding is proved by the least counterexample (`LookupsExist`: every initial
  part of it exists, because the smallest one that does not would extend the one
  before).  `max + 1` values of the cursor in a row have different remainders
  (`RemaindersDiffer`) and all of them (`EachRemainder`), so that a turn sees every
  tracked descriptor once (`TurnedOnce`).

### The programs

**`AibreannProofs`.**  `PathInv` has the state at each step of `main()`.  Between
an operation and the closeall after it, all that is open besides the program's own
descriptors and 0 is tracked, which is what closeall restores the table from.  An
operation starts with an empty set and makes at most two descriptors, so that it
replaces only if the first one is above the limit: hence the assumption.
`AibreannTypes` adds that nothing fails after the set-up (`NeverGivesUp`): no
operation meets the assertion on the magic word, and the `errx()` for a failed
closeall and a failed destroy are never reached.  `AibreannImplementsPool` is the
refinement of `DescriptorPool` by the whole program; the set-up that fails is a
stutter, since it leaves neither a live store nor a descriptor.

**`BrannaghProofs`.**  `SignalInv`: between operations nothing is blocked, while
one runs the handler is in place, and the jump buffer holds a mask that lets the
next fault through.  `AreaInv`: what is mapped has the length that will be
unmapped, computed from values that do not change when the file does.  These give
`NoFaultKills`, `CopiesInside` and `UnmapsAll` for `Fault` by itself, and since
each step of a child is one of `Fault` or a stutter (`ChildMapsFiles`), for the
child.  `PipesInv` says of the watched pipe that its ends are open and that, while
`max` is within the limit, a write end in the set has a read end: a set that is
within the limit after a call was so before it, so the call has not replaced
anything.  `ChildEndsByReplacing` puts the two together: nothing ends a child but
SIGPIPE, and that only above the limit.  Each step of a child is an operation of
`FdPool` or leaves the pool alone (`ChildInPool`), so that all that is proved of
operations holds of the child (`ChildPoolSafe`, `ChildPoolSteps`).

**`ClodaghProofs`.**  `Filled` and `MayParse`, case by case on the kind of an
entry, keep `EntryInv` for archives of any length.  `ArchiveKept` is not
inductive: `fdopendir()` leaves closed numbers in the set, and if libarchive got
one of them, the store would work on the archive.  It never does, since every
archive gets the same number (`KeptInv`: the lowest one, `First`, which nothing
takes while no archive is open and operations do not run then).
`ClodaghKeepsPromise` is the step part of the refinement of `DescriptorPool`: to the
store the archive is one more descriptor that was open before, and only libarchive
closes it.  A child starts with a live store, hence the step part only;
`NeverStarved` is not claimed here, for libarchive may hold the last descriptor.

### The operations (`OperationProofs`, `TreeProofs`)

**Spawn.**  `SpawnInv` adds to the types where each process is alive, as a
function of `pc` (`TargetInv`, `WorkerInv`, `ProgramInv`), and what a signal
implies (`StepInv`).  `AllReaped`, `TargetKept` and `KillsOwn` follow.
`KillsInTime` is the part of `TimedOperationsReturn` that needs no fairness:
`TurnsLeft` gets smaller in each step of an operation other than a poll for a
worker that was sent SIGKILL and is alive.

**Files.** Every operation has one of five forms (`Forms`): one call, a question, an
emptying, or one of the two second calls.  `FillInv` says that a child about to fill
a file writes from its beginning and has left no more than it is going to write:
this uses that a path is shorter than the script made of it.  `SignInv` says that
the length a child is about to truncate to is on the side of the size it saw that
the operation's name says, for a descriptor that can be written; `Garbage` only ever
meets one that cannot.  `AlwaysNamed` and `AlwaysNothingBehind` follow, since only a
second call ends an operation that has one (`SecondIs`).

**Tree.**  `WayBackFree` is not inductive: a child's second `rename()` may take the
directory of another.  It needs that two children between their renames have
different names to go back to (`SrcsDiffer`), which holds because the first rename
takes the name away and `WayBackFree` keeps it free.  `TmpHeld`, that something at
`tmp` means a child between its renames, gives `ParentLast`, and with it
`LostOnlyByRace`: a `MoveAway` can only replace what is at `tmp`.  `MoveBackClears`
is the part of `TmpComesFree` that needs no fairness.

### mkpax (`MkPaxProofs`)

`ListInv` is what `main()` relies on from each of its steps to the next: the array
has one cell behind it that is unset until the program stops, and the parser is
within the text.  On it rest three more invariants:

* `ImportInv`: the numbers up to the parser's place have been stored in their
  order, or the parser is at a place that it cannot get past (`Stuck`), where it
  stores until the array is full and gives up.  `ImportFaithful` follows.
* `ShardInv`: the archives follow each other up to `Top`, all but the last have come
  to their end, each has at least an even share and less than two, and what was drawn
  for it comes from its own cells.
  `ShardsPartition`, `ShardsBalanced` and `OneArchive` follow; the last needs that
  the list has no repetitions.
* `ReadInv`, for `-r`: the lists printed so far are the whole ones in their order.

`EveryOrderPossible` is about the recursive function `Shuffled`, unfolded like
`Lookups`.  The shuffle only swaps within the list (`OnlyOrders`), and to reach a
given order it draws, from the last cell to the first, the place where the wanted
number is (`EveryOrder`).  `NoStepForNothing` gives a bound, `StepsLeft`, that is
natural and gets smaller in every step: mkpax cannot run for ever.

### The harness (`HarnessProofs`)

`DeviceInv` has what a script has configured at each of its steps: nothing of its
own before `config`, one device after it (`OneDevice`), which is the topmost mount
while the program runs.  `FreshInv`: from the unpacking to the test program the
image is pristine, or one of the devices that the script has found is configured for
it; and while no script has failed since the last boot it has found none.
`GivesBack`, `LeavesOneAtMost` and `FreshImage` follow, for any
number of devices and operations.

### Only model-checked

`Finishes`, `TimedOperationsReturn`, `SpawnReturns` and `TmpComesFree`: they are
liveness properties under weak fairness, and the provers have no rule for ENABLED.
What can be proved of three of them without fairness is `NoStepForNothing`,
`KillsInTime` and `MoveBackClears`.  That a step is possible wherever these need
one is checked by TLC, which looks for deadlocks in every run.

## 5. Not modelled

* The contents of files, and operations that only read a file or change its
  owner, mode, flags or times: the program keeps no state about them and takes no
  decision on them.
* A `rename()` of a directory that fails for a reason other than a target that is
  not empty.
* The counter that picks a stress-test operation, an int that overflows after
  2^31 operations of one child; `Brannagh` takes any operation at any time.
* `lib/pathstore.c`, which the library's Makefile leaves out; the programs have
  path tables of their own, of which `Tree` has the archive player's.
* Formatting of the disks by size, build files, the text that the generators
  write, the test library.
* Threads do not occur; signals other than SIGBUS, SIGSEGV, SIGPIPE and
  SIGKILL are not used by the code.

## 6. Plan

The invariants and the action properties that the runs check are proved.  Left
to do:

1. The part of `SpawnReturns` without fairness: once the program has ended,
   `posix_spawn`'s child has at most two steps, and the operation one.
2. The lemmas on remainders and on the least counterexample, which
   `FdPoolProofs` and `MkPaxProofs` each have, in one place.
