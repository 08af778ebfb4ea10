------------------------------- MODULE MCMkPax -------------------------------
(* Inputs for the runs of MkPax.                                           *)
EXTENDS MkPax

CONSTANT TextLength   (* longest text of the -S option                      *)

(* Two ids of the pool and one that is not in it.                          *)
Tokens == {0, 1, NFUNCS, Blank, Punct, Newline, Junk}

(* Two numbers in a row would be one number.                               *)
MCShort ==
  {text \in UNION {[1 .. n -> Tokens] : n \in 0 .. TextLength} :
     \A i \in 2 .. Len(text) : ~(IsNumber(text[i - 1]) /\ IsNumber(text[i]))}

(* The numbers of list with separators between them, and the lists that    *)
(* fill the array, overfill it by one, repeat a number or hold a bad one.  *)
Separated(list) ==
  [i \in 1 .. (2 * Len(list) - 1) |->
     IF i % 2 = 1 THEN list[(i + 1) \div 2] ELSE Punct]

MCLong ==
  {Separated(list) : list \in
     {<<4, 2, 0, 1, 3>>, <<0, 1, 2, 3, 4, 0>>, <<3, 3, 1>>, <<0, 1, 2, NFUNCS>>}}

MCLists == MCShort \cup MCLong

(* A few lists for the run about remainders.                               *)
MCShardLists ==
  {<<>>, <<0, Blank, 2>>, <<1, Punct, NFUNCS>>, <<3, Punct, 3, Punct, 1>>}

=============================================================================
