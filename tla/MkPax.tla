-------------------------------- MODULE MkPax --------------------------------
(***************************************************************************)
(* mkpax -c (src/src/clodagh/mkpax.c): build the list of operations, from  *)
(* the whole pool or from the -S option, shuffle it, cut it into shards    *)
(* and write an archive of random operations for each shard; and mkpax -r: *)
(* print the operations of an archive.  Faulty... definitions are as in    *)
(* Flist.                                                                  *)
(***************************************************************************)
EXTENDS Flist, Entries, SequencesExt

CONSTANTS
  Jobs,        (* values of the -J option, 1 when it is not given           *)
  Lists,       (* texts of the -S option                                    *)
  NoList,      (* the -S option is not given                                *)
  MaxEntries   (* the most entries in an archive that is read               *)

ASSUME MkPaxAssumption ==
  /\ Jobs \subseteq Nat
  /\ Lists \subseteq Seq(Int)
  /\ NoList \notin Seq(Int)
  /\ MaxEntries \in Nat

VARIABLES
  pc,          (* the step of main() that comes next, or how main() ended   *)
  optJ, optS,  (* the options                                               *)
  fl,          (* the bstg_flist_t                                          *)
  curr, count, (* import: position in optS, numbers stored so far           *)
  len,         (* shuffle: cells not yet settled                            *)
  base,        (* sharding: first cell of the next shard                    *)
  archives,    (* the archives begun: the shard, the operations drawn, and  *)
               (* whether write_archive() came to its end                   *)
  entries,     (* -r: what each entry of the archive is                     *)
  next,        (* -r: entries read                                          *)
  buf,         (* -r: the buffer                                            *)
  printed      (* -r: for each list printed, the entries it came from       *)

create == <<optJ, optS, fl, curr, count, len, base, archives>>
read   == <<entries, next, buf, printed>>
vars   == <<pc, create, read>>

Final == {"done", "errx", "aborted", "divide", "refused"}

(* -c with its options, or -r.                                             *)
Init ==
  /\ \/ /\ pc = "init"
        /\ optJ \in Jobs
        /\ optS \in Lists \cup {NoList}
        /\ entries = <<>>
     \/ /\ pc = "open"
        /\ optJ = 1
        /\ optS = NoList
        /\ entries \in UNION {[1 .. n -> Kinds] : n \in 0 .. MaxEntries}
  /\ fl = [pindex |-> [x \in 0 .. NFUNCS |-> Unset],
           number |-> 0, lower |-> 0, upper |-> 0]
  /\ curr = 1
  /\ count = 0
  /\ len = 0
  /\ base = 0
  /\ archives = <<>>
  /\ next = 0
  /\ buf = NewBuffer
  /\ printed = <<>>

(* An assert() that fails aborts, errx() exits.                            *)
Stop(how) == pc' = how

-----------------------------------------------------------------------------
(* bstg_flist_init(); when calloc() fails assert(rc == 0) aborts.          *)
InitFlist ==
  /\ pc = "init"
  /\ \/ /\ fl' = InitList
        /\ pc' = IF optS = NoList THEN "shuffle" ELSE "import"
        /\ len' = NFUNCS
     \/ /\ Stop("aborted")
        /\ UNCHANGED <<fl, len>>
  /\ UNCHANGED <<optJ, optS, curr, count, base, archives, read>>

(* bstg_flist_import(), one iteration of its loop.  The number is stored   *)
(* before it is known to fit.                                              *)
ImportNumber ==
  /\ pc = "import"
  /\ curr <= Len(optS)
  /\ Parses(optS, curr)
  /\ LET stored == Store(fl, count, optS[NumberAt(optS, curr)])
     IN  IF TooMany(fl, count + 1)
         THEN /\ fl' = EndImport(stored, count + 1)
              /\ Stop("aborted")
         ELSE /\ fl' = stored
              /\ UNCHANGED pc
  /\ count' = count + 1
  /\ curr' = AfterNumber(optS, curr)
  /\ UNCHANGED <<optJ, optS, len, base, archives, read>>

(* The end of the text, or text that is no number: the latter is an error  *)
(* only before the first number.                                           *)
ImportEnd ==
  /\ pc = "import"
  /\ curr > Len(optS) \/ ~Parses(optS, curr)
  /\ fl' = EndImport(fl, count)
  /\ IF curr <= Len(optS) /\ count = 0 THEN Stop("aborted")
                                       ELSE pc' = "shuffle"
  /\ len' = count
  /\ UNCHANGED <<optJ, optS, curr, count, base, archives, read>>

(* bstg_flist_shuffle().                                                   *)
FaultyShuffleStep ==
  /\ pc = "shuffle"
  /\ len > 1
  /\ \E swapindex \in Picks(len) : fl' = Swap(fl, len - 1, swapindex)
  /\ UNCHANGED <<pc, optJ, optS, curr, count, len, base, archives, read>>

ShuffleStep ==
  /\ pc = "shuffle"
  /\ len > 1
  /\ \E swapindex \in Picks(len) : fl' = Swap(fl, len - 1, swapindex)
  /\ len' = len - 1
  /\ UNCHANGED <<pc, optJ, optS, curr, count, base, archives, read>>

ShuffleEnd ==
  /\ pc = "shuffle"
  /\ len <= 1
  /\ pc' = "shard"
  /\ UNCHANGED <<optJ, optS, fl, curr, count, len, base, archives, read>>

-----------------------------------------------------------------------------
(* The size of the shard at base.                                          *)
FaultyShardSizeLate(number, from) ==
  LET even == number \div optJ
  IN  IF from + even > number THEN number - from ELSE even

ShardSize(number, from) ==
  LET even == number \div optJ
  IN  IF from + even + even > number THEN number - from ELSE even

(* write_archive(): each of the many draws is checked with assert(), and   *)
(* what is made of them with BSTGNULLCHECK() and errx(), from before the   *)
(* first draw on.  Either ends mkpax inside the archive, after those of    *)
(* the shards before.                                                      *)
WriteArchive(list) ==
  \E drawn \in SUBSET Gettable(list), ended \in BOOLEAN :
    LET valid == drawn \cap (0 .. (NFUNCS - 1))
    IN  /\ archives' = Append(archives, [lower |-> list.lower,
                                         upper |-> list.upper,
                                         ended |-> ended,
                                         ops   |-> valid])
        /\ \/ /\ ended
              /\ drawn = valid /\ drawn # {}
              /\ base' = list.upper
              /\ UNCHANGED pc
           \/ /\ ~ended
              /\ Stop(IF drawn = valid THEN "errx" ELSE "aborted")
              /\ UNCHANGED base

(* One iteration of the sharding loop; errx() when the shard is refused.   *)
Shard ==
  /\ pc = "shard"
  /\ base < fl.number
  /\ optJ # 0
  /\ LET upper == base + ShardSize(fl.number, base)
     IN  /\ fl' = SetRange(fl, base, upper)
         /\ IF SetOK(fl, base, upper)
            THEN WriteArchive(fl')
            ELSE /\ Stop("refused")
                 /\ UNCHANGED <<archives, base>>
  /\ UNCHANGED <<optJ, optS, curr, count, len, read>>

(* flist.number/optJ with optJ = 0.                                        *)
ShardByZero ==
  /\ pc = "shard"
  /\ base < fl.number
  /\ optJ = 0
  /\ Stop("divide")
  /\ UNCHANGED <<optJ, optS, fl, curr, count, len, base, archives, read>>

FaultyShardEnd ==
  /\ pc = "shard"
  /\ base + 1 >= fl.number
  /\ Stop("done")
  /\ UNCHANGED <<optJ, optS, fl, curr, count, len, base, archives, read>>

ShardEnd ==
  /\ pc = "shard"
  /\ base >= fl.number
  /\ Stop("done")
  /\ UNCHANGED <<optJ, optS, fl, curr, count, len, base, archives, read>>

(* read_archive().                                                         *)
OpenArchive ==
  /\ pc = "open"
  /\ \/ pc' = "header"
     \/ Stop("errx")
  /\ UNCHANGED <<create, read>>

(* An entry that is passed over, one that is printed, one that             *)
(* BSTGNULLCHECK() gives up on.                                            *)
ReadEntry ==
  /\ pc = "header"
  /\ next < Len(entries)
  /\ next' = next + 1
  /\ buf' = Filled(buf, 1 .. next, next', entries[next'])
  /\ \/ /\ ~Taken(entries[next'])
        /\ UNCHANGED <<pc, printed>>
     \/ /\ Taken(entries[next'])
        /\ MayParse(buf')
        /\ printed' = Append(printed, buf'.from)
        /\ UNCHANGED pc
     \/ /\ Stop("errx")
        /\ UNCHANGED printed
  /\ UNCHANGED <<create, entries>>

(* The end of the archive, or a header that is not ARCHIVE_OK.             *)
CloseArchive ==
  /\ pc = "header"
  /\ Stop("done")
  /\ UNCHANGED <<create, read>>

(* main() has ended.                                                       *)
Ended == pc \in Final /\ UNCHANGED vars

Next ==
  \/ InitFlist
  \/ ImportNumber
  \/ ImportEnd
  \/ ShuffleStep
  \/ ShuffleEnd
  \/ Shard
  \/ ShardByZero
  \/ ShardEnd
  \/ OpenArchive
  \/ ReadEntry
  \/ CloseArchive
  \/ Ended

Spec == Init /\ [][Next]_vars

(* A sequential program that is not stopped from outside takes its next    *)
(* step eventually.                                                        *)
FairSpec == Spec /\ WF_vars(Next)

-----------------------------------------------------------------------------
(* Where the numbers of the option are, and which of the elements of a set *)
(* of numbers, counted from the smallest, i is.                            *)
Given       == {i \in 1 .. Len(optS) : IsNumber(optS[i])}
Place(S, i) == Cardinality({j \in S : j <= i})

(* The list as it is, and the whole pool in order.                         *)
Listed    == [i \in 1 .. fl.number |-> fl.pindex[i - 1]]
WholePool == [i \in 1 .. NFUNCS |-> i - 1]

(* The state right after the list was built.                               *)
Built == pc = "shuffle" /\ len = fl.number

(* The text separates numbers the way the comment in the parser describes. *)
Plain == \A i \in 1 .. Len(optS) : IsNumber(optS[i]) \/ optS[i] \in {Blank, Punct}

TypeOK ==
  /\ pc \in {"init", "import", "shuffle", "shard", "open", "header"} \cup Final
  /\ optJ \in Jobs \cup {1} /\ optS \in Lists \cup {NoList}
  /\ fl.pindex \in [0 .. NFUNCS -> Int]
  /\ {fl.number, fl.lower, fl.upper} \subseteq 0 .. (NFUNCS + 1)
  /\ curr \in Nat
  /\ count \in 0 .. (NFUNCS + 1)
  /\ len \in 0 .. NFUNCS
  /\ base \in 0 .. NFUNCS
  /\ \A i \in 1 .. Len(archives) : archives[i].ops \subseteq 0 .. (NFUNCS - 1)
  /\ next \in 0 .. Len(entries)
  /\ buf \in Buffers(1 .. next)
  /\ printed \in Seq(SUBSET (1 .. next))

(* import stores a number before it checks that it fits.  At most the one  *)
(* cell behind the array is ever written, and mkpax then stops before it   *)
(* makes any use of the list.                                              *)
OverrunStops ==
  fl.pindex[NFUNCS] # Unset => pc = "aborted" /\ archives = <<>>

(* A list that import accepts is a prefix of the numbers of the option:    *)
(* none is invented, repeated or out of order, whatever the text.  When    *)
(* the text is plain the list is complete.                                 *)
ImportFaithful ==
  Built => IF optS = NoList
           THEN Listed = WholePool
           ELSE /\ fl.number <= Cardinality(Given)
                /\ \A i \in Given : Place(Given, i) <= fl.number =>
                                      Listed[Place(Given, i)] = optS[i]
                /\ Plain => fl.number = Cardinality(Given)

(* The lists that k more iterations of the shuffle can produce.            *)
Shuffled ==
  LET after[k \in 0 .. NFUNCS] ==
        IF k = 0 THEN {fl}
        ELSE UNION {{Swap(l, fl.number - k, x) : x \in Picks(fl.number - k + 1)} :
                    l \in after[k - 1]}
  IN  after

(* Every order of the list can come out of the shuffle.                    *)
AllOrders ==
  Built /\ fl.number > 1 =>
    {l.pindex : l \in Shuffled[fl.number - 1]} =
      {[x \in 0 .. NFUNCS |->
          IF x < fl.number THEN fl.pindex[p[x]] ELSE fl.pindex[x]] :
        p \in Bijection(0 .. (fl.number - 1), 0 .. (fl.number - 1))}

(* The shards of the archives follow each other from the beginning of the  *)
(* list, and none is empty.  Wherever mkpax ends, what it leaves is an     *)
(* initial part of the set, and at most the last archive is cut short, the *)
(* one that it gave up in; the whole set when it is done.  When it ends    *)
(* over the number of shards, refused by bstg_flist_set() or by a division *)
(* by zero, it has not begun any archive.                                  *)
ShardsPartition ==
  /\ \A i \in 1 .. Len(archives) :
       /\ archives[i].lower = IF i = 1 THEN 0 ELSE archives[i - 1].upper
       /\ archives[i].lower < archives[i].upper
       /\ ~archives[i].ended => i = Len(archives) /\ pc \in {"errx", "aborted"}
  /\ archives # <<>> =>
       base = IF Last(archives).ended THEN Last(archives).upper
                                      ELSE Last(archives).lower
  /\ pc = "done" => base = fl.number
  /\ pc \in {"refused", "divide"} => archives = <<>>

(* Every shard holds an even share of the list or more, and less than two. *)
ShardsBalanced ==
  \A i \in 1 .. Len(archives) :
    LET size == archives[i].upper - archives[i].lower
    IN  fl.number \div optJ <= size /\ size < 2 * (fl.number \div optJ)

(* "each operation will only appear in one archive" (docs): the archives   *)
(* of a list without repetitions have no operation in common, although     *)
(* each is drawn at random.                                                *)
OneArchive ==
  IsInjective(Listed) =>
    \A i, j \in 1 .. Len(archives) :
      i # j => archives[i].ops \cap archives[j].ops = {}

(* mkpax -r prints every whole list that it can read once, in the order of *)
(* the archive and as it is, whatever the entries it passes over leave in  *)
(* the buffer.                                                             *)
ReadsBack ==
  (\A i \in 1 .. Len(entries) : entries[i] \in {"list", "short"}) /\ pc # "errx" =>
    LET whole == {i \in 1 .. next : entries[i] = "list"}
    IN  /\ Len(printed) = Cardinality(whole)
        /\ \A i \in whole : printed[Place(whole, i)] = {i}

(* main() ends: also when import does not get past a white space, and      *)
(* when a shard is refused.                                                *)
Finishes == <>(pc \in Final)

-----------------------------------------------------------------------------
(* What comments and documents say and the code does not do.               *)

(* "put any remainders in the last shard": -J shards makes that many       *)
(* archives of a list that has enough operations.                          *)
RemaindersInLast ==
  pc = "done" /\ optJ <= fl.number => Len(archives) = optJ

=============================================================================
