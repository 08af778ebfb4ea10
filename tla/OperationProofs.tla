--------------------------- MODULE OperationProofs ---------------------------
(***************************************************************************)
(* Proofs about operations of the pool.  Files: what they do to a file,    *)
(* for any sizes, any constants in place of the code's and any number of   *)
(* children.  Spawn: the safety of the operations that start processes,    *)
(* for every timeout.                                                      *)
(***************************************************************************)
EXTENDS Files, Spawn, TLAPS

Sizes == 0 .. MaxSize

(* An operation that is about to fill the file it has emptied writes from  *)
(* its beginning, and has left no more than it is going to write.          *)
FillInv ==
  \A c \in Children : pend[c].call = "fill" =>
    /\ pend[c].to = 0
    /\ pend[c].fd = "read-write" => pend[c].saw <= pend[c].len

(* On a descriptor of the file, an operation is about to truncate it to    *)
(* the size that it had before plus or minus something, as its sign says.  *)
SignInv ==
  \A c \in Children :
    pend[c].call = "ftruncate" /\ Writable(pend[c].fd) =>
      /\ pend[c].sign \in {"minus", "zero"} => pend[c].to <= pend[c].saw
      /\ pend[c].sign \in {"plus", "zero"}  => pend[c].to >= pend[c].saw

FilesInv ==
  FilesTypeOK /\ pend = [c \in Children |-> pend[c]] /\ FillInv /\ SignInv

Calls == [call : {"ftruncate", "pwritev", "fill"},
          sign : {"minus", "zero", "plus", "none"},
          fd : Fds, saw : 0 .. MaxSize,
          to : (-1 - M1) .. (MaxSize + M1),
          len : {0, Script, TrueExe, Pattern}]

-----------------------------------------------------------------------------
LEMMA FileConstants ==
  /\ MaxSize \in Nat /\ K1 \in Nat /\ K16 \in Nat /\ M1 \in Nat /\ Int4 \in Nat
  /\ Path \in Nat /\ Script \in Nat /\ TrueExe \in Nat /\ Pattern \in Nat
  /\ 1 <= M1 /\ K1 <= M1 /\ K16 <= M1 /\ 0 <= Path /\ Path <= Script
BY FilesAssumption

LEMMA TruncatedOK ==
  ASSUME size \in Sizes, NEW fd, NEW n \in Int
  PROVE  /\ Truncated(fd, n) \in Sizes
         /\ Truncated(fd, n) # size => Writable(fd) /\ Truncated(fd, n) = n
BY DEF Truncated, Sizes

LEMMA WrittenOK ==
  ASSUME size \in Sizes, NEW fd, NEW at \in Int, NEW w \in Nat
  PROVE  /\ Written(fd, at, w) \in Sizes
         /\ Fits(fd, at, w) => Start(fd, at) + w \in Sizes
         /\ fd # "append" => Written(fd, at, w) \in {size, at + w}
BY FileConstants DEF Written, Fits, Start, Sizes

-----------------------------------------------------------------------------
(* An operation of one call leaves the calls that are to come alone.       *)
OneCall(c) == Idle(c) /\ pend' = pend /\ size' \in Sizes

LEMMA TruncateOK ==
  ASSUME FilesTypeOK, NEW c \in Children, NEW n \in Int, Truncate(c, n)
  PROVE  OneCall(c)
<1>1. size \in Sizes
  BY DEF FilesTypeOK, Sizes
<1>. QED  BY <1>1, TruncatedOK DEF Truncate, OneCall

LEMMA WriteAtOK ==
  ASSUME FilesTypeOK, NEW c \in Children, NEW at \in Int, NEW len \in Nat,
         WriteAt(c, at, len)
  PROVE  OneCall(c)
<1>1. size \in Sizes
  BY DEF FilesTypeOK, Sizes
<1>2. PICK fd \in Fds, w \in 0 .. len : size' = Written(fd, at, w)
  BY DEF WriteAt
<1>3. size' \in Sizes
  BY <1>1, <1>2, WrittenOK
<1>. QED  BY <1>3 DEF WriteAt, OneCall

-----------------------------------------------------------------------------
(* The number of an operation has its sign.                                *)
Signed(sign, n) ==
  /\ sign \in {"minus", "zero", "plus"} /\ n \in (-M1) .. M1
  /\ sign \in {"minus", "zero"} => n <= 0
  /\ sign \in {"plus", "zero"} => n >= 0

(* The five forms an operation's step may have.                            *)
Asks(c) == \E call \in {"ftruncate", "pwritev"}, sign \in {"minus", "zero", "plus"},
              n \in (-M1) .. M1, len \in {0, Pattern} :
                Signed(sign, n) /\ Fstat(c, call, sign, n, len)

Empties(c) == \E n \in {0, Path}, len \in {Script, TrueExe} :
                 n <= len /\ CutAndFill(c, n, len)

LEMMA Forms ==
  ASSUME FilesTypeOK, NEW c \in Children, Child(c)
  PROVE  OneCall(c) \/ Asks(c) \/ Empties(c) \/ Ftruncate(c) \/ Pwrite(c)
<1>1. ASSUME open_appendtrunc(c)
      PROVE  OneCall(c)
  BY <1>1, FileConstants DEF open_appendtrunc, OneCall, Sizes
<1>2. ASSUME \/ truncate_zero(c) \/ truncate_one(c)
             \/ truncate_1k(c) \/ truncate_16k(c) \/ truncate_1m(c)
             \/ truncate_pathzero(c) \/ truncate_pathone(c)
             \/ truncate_path1k(c) \/ truncate_path16k(c)
             \/ truncate_path1m(c)
      PROVE  OneCall(c)
  <2>1. PICK n \in {0, 1, K1, K16, M1} : Truncate(c, n)
    BY <1>2 DEF truncate_zero, truncate_one, truncate_1k, truncate_16k,
         truncate_1m, truncate_pathzero, truncate_pathone, truncate_path1k,
         truncate_path16k, truncate_path1m
  <2>. QED  BY <2>1, FileConstants, TruncateOK
<1>3. ASSUME \/ truncate_minusone(c) \/ truncate_minus1k(c)
             \/ truncate_minus16k(c) \/ truncate_minus1m(c)
             \/ truncate_pluszero(c) \/ truncate_plusone(c)
             \/ truncate_plus1k(c) \/ truncate_plus16k(c)
             \/ truncate_plus1m(c)
      PROVE  Asks(c)
  <2>1. \/ \E n \in {-1, -K16, -K1, -M1} : Fstat(c, "ftruncate", "minus", n, 0)
        \/ Fstat(c, "ftruncate", "zero", 0, 0)
        \/ \E n \in {1, K16, K1, M1} : Fstat(c, "ftruncate", "plus", n, 0)
    BY <1>3 DEF truncate_minusone, truncate_minus1k, truncate_minus16k,
         truncate_minus1m, truncate_pluszero, truncate_plusone,
         truncate_plus1k, truncate_plus16k, truncate_plus1m
  <2>2. /\ \A n \in {-1, -K16, -K1, -M1} : Signed("minus", n) /\ n \in (-M1) .. M1
        /\ Signed("zero", 0) /\ 0 \in (-M1) .. M1
        /\ \A n \in {1, K16, K1, M1} : Signed("plus", n) /\ n \in (-M1) .. M1
    BY FileConstants DEF Signed
  <2>. QED  BY <2>1, <2>2 DEF Asks
<1>4. ASSUME lseek(c) PROVE OneCall(c)
  <2>1. PICK at \in 0 .. MaxSize : WriteAt(c, at, Int4)
    BY <1>4 DEF lseek
  <2>. QED  BY <2>1, FileConstants, WriteAtOK
<1>5. ASSUME write_write(c) \/ write_writev(c)
      PROVE  OneCall(c)
  <2>1. PICK at \in 0 .. MaxSize : WriteAt(c, at, Pattern)
    BY <1>5 DEF write_write, write_writev
  <2>. QED  BY <2>1, FileConstants, WriteAtOK
<1>6. ASSUME write_mkscript(c) PROVE OneCall(c)
  BY <1>6, FileConstants, WriteAtOK DEF write_mkscript
<1>7. ASSUME \/ write_minusone(c) \/ write_minus1k(c) \/ write_minus16k(c)
             \/ write_minus1m(c) \/ write_pluszero(c) \/ write_plus1k(c)
             \/ write_plus16k(c) \/ write_plus1m(c)
      PROVE  Asks(c)
  <2>1. \/ \E n \in {-1, -K16, -K1, -M1} : Fstat(c, "pwritev", "minus", n, Pattern)
        \/ Fstat(c, "pwritev", "zero", 0, Pattern)
        \/ \E n \in {K16, K1, M1} : Fstat(c, "pwritev", "plus", n, Pattern)
    BY <1>7 DEF write_minusone, write_minus1k, write_minus16k,
         write_minus1m, write_pluszero, write_plus1k, write_plus16k,
         write_plus1m
  <2>2. /\ \A n \in {-1, -K16, -K1, -M1} : Signed("minus", n) /\ n \in (-M1) .. M1
        /\ Signed("zero", 0) /\ 0 \in (-M1) .. M1
        /\ \A n \in {K16, K1, M1} : Signed("plus", n) /\ n \in (-M1) .. M1
    BY FileConstants DEF Signed
  <2>. QED  BY <2>1, <2>2 DEF Asks
<1>8. ASSUME mkhashbang(c) \/ mkhashbang2(c) \/ copyexe(c)
      PROVE  Empties(c)
  <2>1. CASE mkhashbang(c)
    <3>1. CutAndFill(c, 0, Script)
      BY <2>1 DEF mkhashbang
    <3>. QED  BY <3>1, FileConstants DEF Empties
  <2>2. CASE mkhashbang2(c)
    <3>1. CutAndFill(c, Path, Script)
      BY <2>2 DEF mkhashbang2
    <3>. QED  BY <3>1, FileConstants DEF Empties
  <2>3. CASE copyexe(c)
    <3>1. CutAndFill(c, 0, TrueExe)
      BY <2>3 DEF copyexe
    <3>. QED  BY <3>1, FileConstants DEF Empties
  <2>. QED  BY <1>8, <2>1, <2>2, <2>3
<1>. QED  BY <1>1, <1>2, <1>3, <1>4, <1>5, <1>6, <1>7, <1>8 DEF Child

-----------------------------------------------------------------------------
LEMMA TypeParts ==
  ASSUME FilesInv
  PROVE  /\ size \in Sizes
         /\ pend = [c \in Children |-> pend[c]]
         /\ \A c \in Children : Idle(c) \/ pend[c] \in Calls
         /\ FillInv /\ SignInv
BY DEF FilesInv, FilesTypeOK, Sizes, Calls

(* The invariant of the states that follow, from what has become of the    *)
(* call that one child is in.                                              *)
LEMMA OneMoves ==
  ASSUME FilesInv, NEW c \in Children, NEW r,
         size' \in Sizes, pend' = [pend EXCEPT ![c] = r],
         r = NoCall \/ r \in Calls,
         r.call = "fill" => /\ r.to = 0
                            /\ r.fd = "read-write" => r.saw <= r.len,
         r.call = "ftruncate" /\ Writable(r.fd) =>
           /\ r.sign \in {"minus", "zero"} => r.to <= r.saw
           /\ r.sign \in {"plus", "zero"}  => r.to >= r.saw
  PROVE  FilesInv'
<1>1. /\ pend = [d \in Children |-> pend[d]] /\ FillInv /\ SignInv
      /\ \A d \in Children : Idle(d) \/ pend[d] \in Calls
  BY TypeParts
<1>2. /\ pend' = [d \in Children |-> pend'[d]]
      /\ \A d \in Children : pend'[d] = IF d = c THEN r ELSE pend[d]
  BY <1>1
<1>3. \A d \in Children : pend'[d] = NoCall \/ pend'[d] \in Calls
  BY <1>1, <1>2 DEF Idle
<1>4. FilesTypeOK'
  BY <1>3 DEF FilesTypeOK, Sizes, Calls, Idle
<1>5. FillInv'
  BY <1>1, <1>2 DEF FillInv
<1>6. SignInv'
  BY <1>1, <1>2 DEF SignInv
<1>. QED  BY <1>2, <1>4, <1>5, <1>6 DEF FilesInv

LEMMA InitInv == FilesInit => FilesInv
<1>. SUFFICES ASSUME FilesInit PROVE FilesInv
  OBVIOUS
<1>1. /\ size \in 0 .. MaxSize /\ pend = [c \in Children |-> NoCall]
  BY DEF FilesInit
<1>2. \A c \in Children : pend[c] = NoCall /\ pend[c].call = "none"
  BY <1>1 DEF NoCall
<1>3. pend = [c \in Children |-> pend[c]]
  BY <1>1
<1>4. FilesTypeOK
  BY <1>1, <1>2 DEF FilesTypeOK, Idle
<1>. QED  BY <1>2, <1>3, <1>4 DEF FilesInv, FillInv, SignInv

LEMMA AsksInv ==
  ASSUME FilesInv, NEW c \in Children, Asks(c)
  PROVE  FilesInv'
<1>1. size \in Sizes
  BY TypeParts
<1>2. PICK call \in {"ftruncate", "pwritev"}, sign \in {"minus", "zero", "plus"},
           n \in (-M1) .. M1, len \in {0, Pattern} :
             Signed(sign, n) /\ Fstat(c, call, sign, n, len)
  BY DEF Asks
<1>3. PICK fd \in Fds, stat \in Garbage \cup Sizes :
        /\ pend' = [pend EXCEPT ![c] = [call |-> call, sign |-> sign, fd |-> fd,
                                        saw |-> size, to |-> stat + n, len |-> len]]
        /\ fd # "none" => stat = size
  BY <1>1, <1>2 DEF Fstat
<1>4. stat \in -1 .. MaxSize
  BY FileConstants DEF Garbage, Sizes
<1>5. stat + n \in (-1 - M1) .. (MaxSize + M1)
  BY <1>4, FileConstants
<1>. DEFINE r == [call |-> call, sign |-> sign, fd |-> fd, saw |-> size,
                  to |-> stat + n, len |-> len]
<1>6. r \in Calls
  BY <1>1, <1>5 DEF Calls, Sizes
<1>7. r.call # "fill"
  OBVIOUS
<1>8. size' = size /\ pend' = [pend EXCEPT ![c] = r]
  BY <1>2, <1>3 DEF Fstat
<1>9. Writable(r.fd) => /\ r.sign \in {"minus", "zero"} => r.to <= r.saw
                        /\ r.sign \in {"plus", "zero"}  => r.to >= r.saw
  <2>. SUFFICES ASSUME fd \in {"read-write", "append"}
                PROVE  /\ sign \in {"minus", "zero"} => size + n <= size
                       /\ sign \in {"plus", "zero"}  => size + n >= size
    BY <1>3 DEF Writable
  <2>1. size \in Int /\ n \in Int
    BY <1>1, FileConstants DEF Sizes
  <2>. QED  BY <1>2, <2>1 DEF Signed
<1>. HIDE DEF r
<1>. QED  BY <1>1, <1>6, <1>7, <1>8, <1>9, OneMoves

LEMMA EmptiesInv ==
  ASSUME FilesInv, NEW c \in Children, Empties(c)
  PROVE  FilesInv'
<1>1. size \in Sizes
  BY TypeParts
<1>2. PICK n \in {0, Path}, len \in {Script, TrueExe} :
        n <= len /\ CutAndFill(c, n, len)
  BY DEF Empties
<1>. DEFINE r(fd) == [call |-> "fill", sign |-> "none", fd |-> fd,
                      saw |-> size', to |-> 0, len |-> len]
<1>3. PICK fd \in Fds :
        size' = Truncated(fd, n) /\ pend' = [pend EXCEPT ![c] = r(fd)]
  BY <1>2 DEF CutAndFill
<1>4. n \in Nat /\ len \in Nat
  BY FileConstants
<1>5. size' \in Sizes
  BY <1>1, <1>3, <1>4, TruncatedOK
<1>6. fd = "read-write" => size' <= len
  BY <1>1, <1>2, <1>3, <1>4, FileConstants DEF Truncated, Writable, Sizes
<1>7. 0 \in (-1 - M1) .. (MaxSize + M1)
  BY FileConstants
<1>8. r(fd) \in Calls
  BY <1>5, <1>7 DEF Calls, Sizes
<1>9. r(fd).to = 0 /\ (r(fd).fd = "read-write" => r(fd).saw <= r(fd).len)
  BY <1>6
<1>10. r(fd).call # "ftruncate"
  OBVIOUS
<1>. HIDE DEF r
<1>. QED  BY <1>1, <1>3, <1>5, <1>8, <1>9, <1>10, OneMoves

LEMMA SecondInv ==
  ASSUME FilesInv, NEW c \in Children, Ftruncate(c) \/ Pwrite(c)
  PROVE  FilesInv'
<1>1. /\ size \in Sizes
      /\ Idle(c) \/ pend[c] \in Calls
  BY TypeParts
<1>2. NoCall.call = "none"
  BY DEF NoCall
<1>3. pend[c] \in Calls
  BY <1>1, <1>2 DEF Idle, Ftruncate, Pwrite
<1>4. pend[c].to \in Int /\ pend[c].len \in Nat
  BY <1>3, FileConstants DEF Calls
<1>5. size' \in Sizes
  <2>1. CASE Ftruncate(c)
    BY <1>1, <1>4, <2>1, TruncatedOK DEF Ftruncate
  <2>2. CASE Pwrite(c)
    <3>1. PICK w \in 0 .. pend[c].len :
            size' = Written(pend[c].fd, pend[c].to, w)
      BY <2>2 DEF Pwrite
    <3>2. w \in Nat
      BY <1>4
    <3>. QED  BY <1>1, <1>4, <3>1, <3>2, WrittenOK
  <2>. QED  BY <2>1, <2>2
<1>6. pend' = [pend EXCEPT ![c] = NoCall]
  BY DEF Ftruncate, Pwrite
<1>. QED  BY <1>1, <1>2, <1>5, <1>6, OneMoves

LEMMA NextInv == FilesInv /\ [FilesNext]_filesVars => FilesInv'
<1>. SUFFICES ASSUME FilesInv, [FilesNext]_filesVars PROVE FilesInv'
  OBVIOUS
<1>1. ASSUME NEW c \in Children, Child(c) PROVE FilesInv'
  <2>1. FilesTypeOK
    BY DEF FilesInv
  <2>2. ASSUME OneCall(c) PROVE FilesInv'
    <3>1. FillInv /\ SignInv /\ pend = [d \in Children |-> pend[d]]
      BY TypeParts
    <3>. QED  BY <2>1, <2>2, <3>1
              DEF OneCall, FilesInv, FilesTypeOK, FillInv, SignInv, Sizes, Idle
  <2>. QED  BY <1>1, <2>1, <2>2, Forms, AsksInv, EmptiesInv, SecondInv
<1>2. ASSUME UNCHANGED filesVars PROVE FilesInv'
  BY <1>2 DEF filesVars, FilesInv, FilesTypeOK, FillInv, SignInv, Idle
<1>. QED  BY <1>1, <1>2 DEF FilesNext

-----------------------------------------------------------------------------
(* Sizes and the calls to come are always of their types.         *)
THEOREM FilesTypes == FilesSpec => []FilesTypeOK
<1>1. FilesInv => FilesTypeOK
  BY DEF FilesInv
<1>. QED  BY InitInv, NextInv, <1>1, PTL DEF FilesSpec

(* Only the second call of an operation of its own makes a child idle.     *)
LEMMA SecondIs ==
  ASSUME FilesInv, [FilesNext]_filesVars, NEW c \in Children, Second(c)
  PROVE  Ftruncate(c) \/ Pwrite(c)
<1>1. ~Idle(c) /\ pend'[c] = NoCall /\ pend'[c] # pend[c]
  BY DEF Second, Idle
<1>2. PICK d \in Children : Child(d)
  BY <1>1 DEF FilesNext, filesVars
<1>3. FilesTypeOK /\ pend = [e \in Children |-> pend[e]]
  BY DEF FilesInv
<1>4. OneCall(d) \/ Asks(d) \/ Empties(d) \/ Ftruncate(d) \/ Pwrite(d)
  BY <1>2, <1>3, Forms
<1>5. ~OneCall(d)
  BY <1>1 DEF OneCall
<1>6. ASSUME Asks(d) \/ Empties(d) PROVE FALSE
  <2>1. PICK r : Idle(d) /\ pend' = [pend EXCEPT ![d] = r]
    BY <1>6 DEF Asks, Empties, Fstat, CutAndFill
  <2>. QED  BY <1>1, <1>3, <2>1
<1>7. ASSUME Ftruncate(d) \/ Pwrite(d) PROVE d = c
  <2>1. pend' = [pend EXCEPT ![d] = NoCall]
    BY <1>7 DEF Ftruncate, Pwrite
  <2>. QED  BY <1>1, <1>3, <2>1
<1>. QED  BY <1>4, <1>5, <1>6, <1>7

(* A relative truncation goes the way that its name says, unless it has    *)
(* been raced, for every size and every number the operations add: what    *)
(* fstat() leaves when it fails never becomes a size, because then the     *)
(* second call fails too.                                                  *)
THEOREM AlwaysNamed == FilesSpec => NamedUnlessRaced
<1>. DEFINE Named(c) ==
       /\ pend[c].sign \in {"minus", "zero"} /\ size' > size =>
            size < pend[c].saw
       /\ pend[c].sign \in {"plus", "zero"} /\ size' < size =>
            size > pend[c].saw
<1>1. ASSUME FilesInv, [FilesNext]_filesVars, NEW c \in Children, Second(c),
             pend[c].call = "ftruncate"
      PROVE  Named(c)
  <2>1. Ftruncate(c)
    BY <1>1, SecondIs DEF Pwrite
  <2>2. size \in Sizes /\ pend[c] \in Calls /\ SignInv
    BY <1>1, TypeParts DEF Second
  <2>3. size \in Int /\ pend[c].to \in Int /\ pend[c].saw \in Int
    BY <2>2, FileConstants DEF Calls, Sizes
  <2>4. CASE size' = size
    BY <2>3, <2>4
  <2>5. CASE size' # size
    <3>1. Writable(pend[c].fd) /\ size' = pend[c].to
      BY <2>1, <2>2, <2>3, <2>5, TruncatedOK DEF Ftruncate
    <3>2. /\ pend[c].sign \in {"minus", "zero"} => pend[c].to <= pend[c].saw
          /\ pend[c].sign \in {"plus", "zero"}  => pend[c].to >= pend[c].saw
      BY <1>1, <2>2, <3>1 DEF SignInv
    <3>. QED  BY <2>3, <3>1, <3>2
  <2>. QED  BY <2>4, <2>5
<1>2. FilesInv /\ [FilesNext]_filesVars =>
        [\A c \in Children :
           Second(c) /\ pend[c].call = "ftruncate" => Named(c)]_filesVars
  BY <1>1
<1>. QED  BY <1>2, InitInv, NextInv, PTL DEF FilesSpec, NamedUnlessRaced

(* A file that has been emptied and filled has nothing behind its new      *)
(* contents, unless it has been raced or the descriptor appends.           *)
THEOREM AlwaysNothingBehind == FilesSpec => NothingBehind
<1>1. ASSUME FilesInv, [FilesNext]_filesVars, NEW c \in Children, Second(c),
             pend[c].call = "fill"
      PROVE  \/ size' <= pend[c].len
             \/ size # pend[c].saw
             \/ pend[c].fd # "read-write"
  <2>1. Pwrite(c)
    BY <1>1, SecondIs DEF Ftruncate
  <2>2. size \in Sizes /\ pend[c] \in Calls /\ FillInv
    BY <1>1, TypeParts DEF Second
  <2>3. PICK w \in 0 .. pend[c].len :
          size' = Written(pend[c].fd, pend[c].to, w)
    BY <2>1 DEF Pwrite
  <2>4. pend[c].len \in Nat
    BY <2>2, FileConstants DEF Calls
  <2>5. /\ pend[c].to = 0 /\ w \in Nat
        /\ pend[c].fd = "read-write" => pend[c].saw <= pend[c].len
    BY <1>1, <2>2, <2>4 DEF FillInv
  <2>6. pend[c].fd # "append" => size' \in {size, 0 + w}
    BY <2>2, <2>3, <2>5, WrittenOK
  <2>. QED  BY <2>4, <2>5, <2>6
<1>2. FilesInv /\ [FilesNext]_filesVars =>
        [\A c \in Children : Second(c) /\ pend[c].call = "fill" =>
           \/ size' <= pend[c].len
           \/ size # pend[c].saw
           \/ pend[c].fd # "read-write"]_filesVars
  BY <1>1
<1>. QED  BY <1>2, InitInv, NextInv, PTL DEF FilesSpec, NothingBehind

-----------------------------------------------------------------------------
(* Spawn.                                                                  *)
Running(p) == st[p] \in {"live", "zombie"}

(* gcore has its target from its fork() to its wait(), the others have     *)
(* none.                                                                   *)
TargetInv ==
  /\ kind # "gcore" => st["target"] = "none"
  /\ kind = "gcore" /\ pc = "target" => st["target"] = "none"
  /\ kind = "gcore" /\ pc \notin {"target", "done"} => Running("target")
  /\ pc = "done" => Ended("target")

(* There is a worker exactly while the operation waits for it.             *)
WorkerInv ==
  /\ pc \in {"target", "fork"} => st["worker"] = "none"
  /\ pc \in {"timeout", "poll", "block"} => Running("worker")
  /\ pc \in {"kill", "reap", "done"} => Ended("worker")

(* posix_spawn's child outlives the program that it has started.           *)
ProgramInv ==
  /\ kind # "spawn" => st["program"] = "none"
  /\ mid = "spawn" => st["program"] = "none"
  /\ st["worker"] # "live" => Ended("program")
  /\ kind = "spawn" => mid = "wait" \/ st["worker"] \in {"none", "live"}

(* What is waited for, and when signals are sent.                          *)
StepInv ==
  /\ pc \in {"target", "kill", "reap"} => kind = "gcore"
  /\ pc \in {"timeout", "poll"} => kind # "spawn"
  /\ pc = "block" => kind = "spawn"
  /\ "target" \in sig => pc \in {"reap", "done"}
  /\ "program" \notin sig
  /\ "worker" \in sig => kind # "spawn"

SpawnInv == SpawnTypeOK /\ TargetInv /\ WorkerInv /\ ProgramInv /\ StepInv

-----------------------------------------------------------------------------
USE SpawnAssumption DEF Processes, Kinds

LEMMA SpawnInitial == SpawnInit => SpawnInv
BY DEF SpawnInit, First, SpawnInv, SpawnTypeOK, TargetInv, WorkerInv, ProgramInv, StepInv,
       Ended, Running

(* A step of the operation itself.                                         *)
LEMMA OperationStep ==
  ASSUME SpawnInv, Operation
  PROVE  SpawnInv'
<1> USE DEF SpawnInv, SpawnTypeOK, TargetInv, WorkerInv, ProgramInv, StepInv, Ended,
            Running, Set
<1>1. CASE ForkTarget
  BY <1>1 DEF ForkTarget
<1>2. CASE ForkWorker
  BY <1>2 DEF ForkWorker, AfterWorker
<1>3. CASE Timeout
  BY <1>3 DEF Timeout
<1>4. CASE Poll
  <2>1. CASE st["worker"] = "zombie"
    BY <1>4, <2>1 DEF Poll, AfterWorker
  <2>2. CASE st["worker"] # "zombie"
    <3>1. st' = st /\ pc' = "timeout" /\ UNCHANGED <<kind, mid, sig>>
      BY <1>4, <2>2 DEF Poll
    <3>2. count' \in 0 .. (Ticks + 1)
      BY <1>4, <2>2 DEF Poll
    <3> QED
      BY <1>4, <2>2, <3>1, <3>2 DEF Poll
  <2> QED
    BY <2>1, <2>2
<1>5. CASE Block
  BY <1>5 DEF Block
<1>6. CASE KillTarget
  BY <1>6 DEF KillTarget
<1>7. CASE ReapTarget
  BY <1>7 DEF ReapTarget
<1> QED
  BY <1>1, <1>2, <1>3, <1>4, <1>5, <1>6, <1>7 DEF Operation

(* A step of one of the processes, or the start of the next operation.     *)
LEMMA ProcessStep ==
  ASSUME SpawnInv, NextOperation \/ SpawnProgram \/ WorkerWaits
                 \/ \E p \in Processes : Exit(p) \/ Killed(p)
  PROVE  SpawnInv'
<1> USE DEF SpawnInv, SpawnTypeOK, TargetInv, WorkerInv, ProgramInv, StepInv, Ended,
            Running, Set
<1>1. CASE NextOperation
  BY <1>1 DEF NextOperation, First
<1>2. CASE SpawnProgram
  BY <1>2 DEF SpawnProgram
<1>3. CASE WorkerWaits
  BY <1>3 DEF WorkerWaits
<1>4. ASSUME NEW p \in Processes, Exit(p)
      PROVE  SpawnInv'
  <2>1. CASE p = "worker"
    BY <1>4, <2>1 DEF Exit
  <2>2. CASE p = "target"
    BY <1>4, <2>2 DEF Exit
  <2>3. CASE p = "program"
    BY <1>4, <2>3 DEF Exit
  <2> QED
    BY <2>1, <2>2, <2>3
<1>5. ASSUME NEW p \in Processes, Killed(p)
      PROVE  SpawnInv'
  <2>1. CASE p = "worker"
    BY <1>5, <2>1 DEF Killed
  <2>2. CASE p = "target"
    BY <1>5, <2>2 DEF Killed
  <2>3. CASE p = "program"
    BY <1>5, <2>3 DEF Killed
  <2> QED
    BY <2>1, <2>2, <2>3
<1> QED
  BY <1>1, <1>2, <1>3, <1>4, <1>5

LEMMA SpawnStutter == SpawnInv /\ UNCHANGED spawnVars => SpawnInv'
BY DEF spawnVars, SpawnInv, SpawnTypeOK, TargetInv, WorkerInv, ProgramInv, StepInv, Ended,
       Running

THEOREM SpawnInvariance == SpawnSpec => []SpawnInv
<1>1. SpawnInv /\ [SpawnNext]_spawnVars => SpawnInv'
  BY OperationStep, ProcessStep, SpawnStutter DEF SpawnNext
<1> QED
  BY <1>1, SpawnInitial, PTL DEF SpawnSpec

-----------------------------------------------------------------------------
(* bstg_waitpid(), gcore and posix_spawn: the types of the state.          *)
THEOREM SpawnTypes == SpawnSpec => []SpawnTypeOK
<1>1. SpawnInv => SpawnTypeOK
  BY DEF SpawnInv
<1> QED
  BY <1>1, SpawnInvariance, PTL

(* When an operation has ended, each process it started has been reaped,   *)
(* for every timeout and every way its forks fail: gcore's early returns,  *)
(* and posix_spawn's child that waits for its program, leave none behind.  *)
THEOREM AllReaped == SpawnSpec => []NothingLeftBehind
<1>1. ASSUME SpawnInv, pc = "done", NEW p \in Processes
      PROVE  Ended(p)
  <2>1. Ended("target")
    BY <1>1 DEF SpawnInv, TargetInv
  <2>2. Ended("worker")
    BY <1>1 DEF SpawnInv, WorkerInv
  <2>3. Ended("program")
    BY <1>1, <2>2 DEF SpawnInv, ProgramInv, Ended
  <2> QED
    BY <2>1, <2>2, <2>3
<1>2. SpawnInv => NothingLeftBehind
  BY <1>1 DEF NothingLeftBehind
<1> QED
  BY <1>2, SpawnInvariance, PTL

(* gcore.c kills its target only after gcore itself has been reaped.       *)
THEOREM TargetKept == SpawnSpec => []TargetOutlivesGcore
<1>1. SpawnInv => TargetOutlivesGcore
  BY DEF SpawnInv, StepInv, WorkerInv, Ended, TargetOutlivesGcore
<1> QED
  BY <1>1, SpawnInvariance, PTL

(* Every kill() in bstg_waitpid(), the repeated ones too, and in gcore.c   *)
(* reaches only a process that exists and has not been reaped.             *)
THEOREM KillsOwn == SpawnSpec => NoStrayKill
<1>1. ASSUME SpawnInv, NEW p \in Processes, Kills(p)
      PROVE  st[p] \in {"live", "zombie"}
  <2>1. CASE p = "worker" /\ Timeout
    BY <1>1, <2>1 DEF Timeout, SpawnInv, WorkerInv, Running
  <2>2. CASE p = "target" /\ KillTarget
    BY <1>1, <2>2 DEF KillTarget, SpawnInv, TargetInv, StepInv, Running
  <2>. QED  BY <1>1, <2>1, <2>2 DEF Kills
<1>2. SpawnInv =>
        [\A p \in Processes : Kills(p) => st[p] \in {"live", "zombie"}]_spawnVars
  BY <1>1
<1>. QED  BY <1>2, SpawnInvariance, PTL DEF SpawnSpec, NoStrayKill

-----------------------------------------------------------------------------
(* The steps that an operation takes until bstg_waitpid() sends SIGKILL,   *)
(* and those that come after it, at most.                                  *)
TurnsLeft ==
  LET polls == 2 * (Ticks + 1 - count)
  IN  CASE pc = "target"      -> 2 * Ticks + 8
        [] pc = "fork"        -> 2 * Ticks + 7
        [] pc = "timeout"     -> polls + 4
        [] pc = "poll"        -> polls + 3
        [] pc = "kill" -> 2
        [] pc = "reap" -> 1
        [] pc = "block"       -> 1
        [] pc = "done"        -> 0

(* The operation polls a worker that has been sent SIGKILL and is not dead *)
(* yet.                                                                    *)
AwaitsKilled == pc = "poll" /\ "worker" \in sig /\ st["worker"] = "live"

(* When the time is up, and when the target is waited for, the signal is   *)
(* on its way.                                                             *)
KillInv ==
  /\ pc = "poll" /\ count > Ticks => "worker" \in sig
  /\ pc = "reap" => "target" \in sig

TurnsCounted ==
  /\ pc = "target"      => TurnsLeft = 2 * Ticks + 8
  /\ pc = "fork"        => TurnsLeft = 2 * Ticks + 7
  /\ pc = "timeout"     => TurnsLeft = 2 * (Ticks + 1 - count) + 4
  /\ pc = "poll"        => TurnsLeft = 2 * (Ticks + 1 - count) + 3
  /\ pc = "kill" => TurnsLeft = 2
  /\ pc \in {"reap", "block"} => TurnsLeft = 1
  /\ pc = "done"        => TurnsLeft = 0

LEMMA TurnsAre == TurnsCounted /\ TurnsCounted'
<1>1. TurnsCounted
  BY DEF TurnsCounted, TurnsLeft
<1>2. TurnsCounted'
  BY DEF TurnsCounted, TurnsLeft
<1>. QED  BY <1>1, <1>2

(* The other processes leave the operation where it is.                    *)
LEMMA OthersStep ==
  ASSUME [SpawnNext]_spawnVars
  PROVE  Operation \/ NextOperation \/ UNCHANGED <<pc, count, sig>>
BY DEF SpawnNext, SpawnProgram, WorkerWaits, Exit, Killed, spawnVars

LEMMA StepKill ==
  ASSUME SpawnInv, KillInv, [SpawnNext]_spawnVars
  PROVE  KillInv'
<1>1. CASE Operation
  BY <1>1 DEF SpawnInv, SpawnTypeOK, KillInv, Operation, ForkTarget, ForkWorker,
              Timeout, Poll, Block, KillTarget, ReapTarget, AfterWorker
<1>2. CASE NextOperation
  BY <1>2 DEF KillInv, NextOperation, First
<1>3. CASE UNCHANGED <<pc, count, sig>>
  BY <1>3 DEF KillInv
<1>. QED  BY <1>1, <1>2, <1>3, OthersStep

(* For every timeout, an operation takes no more than TurnsLeft steps more *)
(* and is at its end, those apart in which bstg_waitpid() waits for        *)
(* SIGKILL to take effect; and waitpid() in gcore.c waits for a target     *)
(* that was sent SIGKILL.  Nothing else holds it up.                       *)
THEOREM KillsInTime ==
  SpawnSpec =>
    /\ [](TurnsLeft \in Nat /\ KillInv)
    /\ [][Operation => TurnsLeft' < TurnsLeft \/ AwaitsKilled]_spawnVars
    /\ [][Operation \/ NextOperation \/ TurnsLeft' = TurnsLeft]_spawnVars
<1>1. SpawnInit => KillInv
  BY DEF SpawnInit, KillInv, First
<1>2. SpawnInv => TurnsLeft \in Nat
  <2>. SUFFICES ASSUME SpawnInv PROVE TurnsLeft \in Nat
    OBVIOUS
  <2>1. /\ count \in 0 .. (Ticks + 1) /\ Ticks \in Nat
        /\ pc \in {"target", "fork", "timeout", "poll", "block", "kill",
                   "reap", "done"}
    BY DEF SpawnInv, SpawnTypeOK
  <2>2. TurnsCounted
    BY TurnsAre
  <2>. HIDE DEF TurnsLeft
  <2>3. pc \in {"timeout", "poll"} => TurnsLeft \in Nat
    BY <2>1, <2>2 DEF TurnsCounted
  <2>4. pc \in {"target", "fork"} => TurnsLeft \in Nat
    BY <2>1, <2>2 DEF TurnsCounted
  <2>5. pc \in {"kill", "reap", "block", "done"} => TurnsLeft \in Nat
    BY <2>1, <2>2 DEF TurnsCounted
  <2>. QED  BY <2>1, <2>3, <2>4, <2>5
<1>3. ASSUME SpawnInv, SpawnInv', KillInv, Operation
      PROVE  TurnsLeft' < TurnsLeft \/ AwaitsKilled
  <2>1. count \in 0 .. (Ticks + 1) /\ count' \in 0 .. (Ticks + 1) /\ Ticks \in Nat
    BY <1>3 DEF SpawnInv, SpawnTypeOK
  <2>. HIDE DEF TurnsLeft
  <2>2. CASE Poll
    <3>1. CASE st["worker"] = "zombie"
      BY <2>1, <2>2, <3>1, TurnsAre DEF Poll, TurnsCounted, AfterWorker
    <3>2. CASE st["worker"] # "zombie" /\ count > Ticks
      BY <1>3, <2>2, <3>2 DEF Poll, AwaitsKilled, KillInv, SpawnInv, WorkerInv, Running
    <3>3. CASE st["worker"] # "zombie" /\ count <= Ticks
      <4>1. /\ TurnsLeft = 2 * (Ticks + 1 - count) + 3
            /\ TurnsLeft' = 2 * (Ticks + 1 - count') + 4
            /\ count' = count + 1
        <5>1. pc = "poll" /\ pc' = "timeout" /\ count' = count + 1
          BY <2>1, <2>2, <3>3 DEF Poll
        <5>. QED  BY <5>1, TurnsAre DEF TurnsCounted
      <4>2. TurnsLeft' = 2 * (Ticks + 1 - (count + 1)) + 4
        BY <4>1
      <4>. QED  BY <2>1, <4>1, <4>2
    <3>. QED  BY <2>1, <3>1, <3>2, <3>3
  <2>3. CASE ForkTarget \/ ForkWorker
    BY <2>1, <2>3, TurnsAre DEF ForkTarget, ForkWorker, TurnsCounted, AfterWorker
  <2>4. CASE Timeout
    BY <2>1, <2>4, TurnsAre DEF Timeout, TurnsCounted
  <2>5. CASE Block \/ KillTarget \/ ReapTarget
    BY <2>1, <2>5, TurnsAre DEF Block, KillTarget, ReapTarget, TurnsCounted
  <2>. QED  BY <1>3, <2>2, <2>3, <2>4, <2>5 DEF Operation
<1>4. [SpawnNext]_spawnVars => Operation \/ NextOperation \/ TurnsLeft' = TurnsLeft
  <2>1. UNCHANGED <<pc, count>> => TurnsLeft' = TurnsLeft
    BY DEF TurnsLeft
  <2>. QED  BY <2>1, OthersStep
<1>5. SpawnInv /\ SpawnInv' /\ KillInv /\ [SpawnNext]_spawnVars =>
        /\ [Operation => TurnsLeft' < TurnsLeft \/ AwaitsKilled]_spawnVars
        /\ [Operation \/ NextOperation \/ TurnsLeft' = TurnsLeft]_spawnVars
  BY <1>3, <1>4
<1>6. SpawnInv /\ KillInv /\ [SpawnNext]_spawnVars => KillInv'
  BY StepKill
<1>. QED  BY <1>1, <1>2, <1>5, <1>6, SpawnInvariance, PTL DEF SpawnSpec

=============================================================================
