-------------------------------- MODULE Flist --------------------------------
(***************************************************************************)
(* The operation list of src/src/lib/flist.c, as operators on the struct   *)
(* bstg_flist_t: pindex holds number operation ids, of which lower ..      *)
(* upper - 1 are in use.  pindex has one cell more here than calloc() gave *)
(* it: cell NFUNCS is the memory right behind the array.                   *)
(*                                                                         *)
(* Faulty... definitions are bugs of a kind this code invites, kept next   *)
(* to the definition they replace; no specification uses them.             *)
(***************************************************************************)
EXTENDS Integers, Sequences, FiniteSetsExt

CONSTANT NFUNCS       (* number of operations in the pool, 102 in the code *)

ASSUME FlistAssumption == NFUNCS \in Nat \ {0}

Unset == -1           (* memory nobody has written                          *)

(* bstg_flist_init() with number = NFUNCS.                                 *)
InitList ==
  [pindex |-> [x \in 0 .. NFUNCS |-> IF x < NFUNCS THEN x ELSE Unset],
   number |-> NFUNCS, lower |-> 0, upper |-> NFUNCS]

(* bstg_flist_set(): refused unless lower < upper <= number.               *)
SetOK(fl, lower, upper) == lower < upper /\ upper <= fl.number

SetRange(fl, lower, upper) ==
  IF SetOK(fl, lower, upper)
  THEN [fl EXCEPT !.lower = lower, !.upper = upper]
  ELSE fl

(* What bstg_flist_get() can return: index % (upper - lower) reaches every *)
(* cell from lower to upper - 1.                                           *)
FaultyGettable(fl) == {fl.pindex[x] : x \in fl.lower .. fl.upper}

Gettable(fl) == {fl.pindex[x] : x \in fl.lower .. (fl.upper - 1)}

(* One iteration of bstg_flist_shuffle()'s loop: swapindex is              *)
(* arc4random() % len--, so that the cell it is swapped with may be itself. *)
FaultyPicks(len) == 0 .. (len - 2)

Picks(len) == 0 .. (len - 1)

Swap(fl, len, swapindex) ==
  [fl EXCEPT !.pindex[len] = fl.pindex[swapindex],
             !.pindex[swapindex] = fl.pindex[len]]

-----------------------------------------------------------------------------
(* bstg_flist_import() reads a string.  A string is a sequence of tokens:  *)
(* a number is its value; every other token is a piece of text that the    *)
(* parser's two scanners treat alike.                                      *)
Blank   == -1         (* a space: skipped by strspn() and by strtoul()     *)
Punct   == -2         (* "," or ":": skipped by strspn() only              *)
Newline == -3         (* other white space: skipped by strtoul() only      *)
Junk    == -4         (* anything else: stops both                         *)

IsNumber(token) == token >= 0

(* The first place from i on that holds none of the tokens in skip.        *)
SkipFrom(text, i, skip) ==
  Min({j \in i .. (Len(text) + 1) : j > Len(text) \/ text[j] \notin skip})

(* strspn(curr, " ,:").                                                    *)
FaultySeparators == {Blank}

Separators == {Blank, Punct}

TokenAt(text, curr) == SkipFrom(text, curr, Separators)

(* Where strtoul() looks for a number, and whether it finds one there.     *)
NumberAt(text, curr) == SkipFrom(text, TokenAt(text, curr), {Blank, Newline})
Parses(text, curr)   == /\ NumberAt(text, curr) <= Len(text)
                        /\ IsNumber(text[NumberAt(text, curr)])

(* Where the next iteration starts: strspn() of the digits at curr, which  *)
(* are none when strtoul() has skipped white space to reach its number.    *)
AfterNumber(text, curr) ==
  LET at == TokenAt(text, curr)
  IN  IF at = NumberAt(text, curr) THEN at + 1 ELSE at

(* The check after the number has been stored.                             *)
FaultyTooMany(fl, count) == FALSE
TooMany(fl, count) == count > fl.number

Store(fl, count, number) == [fl EXCEPT !.pindex[count] = number]

(* What is assigned when the loop has ended.                               *)
EndImport(fl, count) ==
  [fl EXCEPT !.lower = 0, !.upper = count, !.number = count]

=============================================================================
