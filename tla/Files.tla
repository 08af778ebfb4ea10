------------------------------- MODULE Files --------------------------------
(***************************************************************************)
(* The operations that set the size of a file, as two children run them on *)
(* the same file (src/src/funcs/src/truncate, lseek, write and open, and   *)
(* src/src/funcs/special): the ones that ask for the size first and use it *)
(* in a second system call, and the ones that empty a file to fill it.     *)
(* Each definition at the end has the name of an operation.                *)
(*                                                                         *)
(* A system call is atomic.  The contents of the file are left out, and so *)
(* is the offset of a descriptor: lseek() and earlier writes may have set  *)
(* it to anything.  A descriptor that does not refer to the file cannot    *)
(* change it; it may refer to another file or be no descriptor at all.     *)
(* Faulty... definitions are plausible bugs that no specification uses.    *)
(***************************************************************************)
EXTENDS Integers

CONSTANTS
  Children,
  MaxSize,           (* no offset or size is larger                         *)
  K1, K16, M1,       (* 1024, 16384 and 1048576                             *)
  Int4, Path,        (* the lengths of an int and of a path,                *)
  Script, TrueExe,   (* of "#!", a path and "\nexit 1\n", of /true,         *)
  Pattern            (* and of the pattern that the operations write        *)

ASSUME FilesAssumption ==
  /\ {MaxSize, K1, K16, M1, Int4, Path, Script, TrueExe, Pattern} \subseteq Nat
  /\ K1 <= M1 /\ K16 <= M1 /\ 1 <= M1
  /\ Path < Script

VARIABLES
  size,        (* the size of the file                                      *)
  pend         (* the second call of the operation each child is in         *)

filesVars == <<size, pend>>

NoCall  == [call |-> "none"]
Idle(c) == pend[c] = NoCall

Fds == {"none", "read-only", "read-write", "append"}
Writable(fd) == fd \in {"read-write", "append"}

FilesInit ==
  /\ size \in 0 .. MaxSize
  /\ pend = [c \in Children |-> NoCall]

-----------------------------------------------------------------------------
(* The size after ftruncate(); a negative length is EINVAL.                *)
Truncated(fd, n) == IF Writable(fd) /\ n \in 0 .. MaxSize THEN n ELSE size

(* Where a write at an offset goes, and the size after one of w bytes; it  *)
(* may be shorter than asked for, and a negative offset is EINVAL.         *)
Start(fd, at) == IF fd = "append" THEN size ELSE at
Fits(fd, at, w) ==
  Writable(fd) /\ at >= 0 /\ w > 0 /\ Start(fd, at) + w <= MaxSize
Written(fd, at, w) ==
  IF Fits(fd, at, w) /\ Start(fd, at) + w > size THEN Start(fd, at) + w
                                                 ELSE size

Truncate(c, n) ==
  /\ Idle(c)
  /\ \E fd \in Fds : size' = Truncated(fd, n)
  /\ UNCHANGED pend

WriteAt(c, at, len) ==
  /\ Idle(c)
  /\ \E fd \in Fds, w \in 0 .. len : size' = Written(fd, at, w)
  /\ UNCHANGED pend

-----------------------------------------------------------------------------
(* fstat() into an sbuf that nobody has set: when the call fails st_size   *)
(* is what was there, Garbage.  The second call is still to come, with the *)
(* sign and the number of the operation.  saw is history: what the size of *)
(* the file was at the first call, which only the properties look at.      *)
Garbage == {-1, MaxSize}

Fstat(c, call, sign, n, len) ==
  /\ Idle(c)
  /\ \E fd \in Fds : \E st \in IF fd = "none" THEN Garbage ELSE {size} :
       pend' = [pend EXCEPT ![c] = [call |-> call, sign |-> sign, fd |-> fd,
                                    saw |-> size, to |-> st + n, len |-> len]]
  /\ UNCHANGED size

FaultyCutAndFill(c, n, len) ==
  /\ Idle(c)
  /\ \E fd \in Fds :
       pend' = [pend EXCEPT ![c] = [call |-> "fill", sign |-> "none",
                                    fd |-> fd, saw |-> size, to |-> 0,
                                    len |-> len]]
  /\ UNCHANGED size

(* ftruncate() in front of a write of everything.                          *)
CutAndFill(c, n, len) ==
  /\ Idle(c)
  /\ \E fd \in Fds :
       /\ size' = Truncated(fd, n)
       /\ pend' = [pend EXCEPT ![c] =
                     [call |-> "fill", sign |-> "none", fd |-> fd,
                      saw |-> size', to |-> 0, len |-> len]]

(* The second call, on the descriptor of the first.                        *)
Ftruncate(c) ==
  /\ pend[c].call = "ftruncate"
  /\ size' = Truncated(pend[c].fd, pend[c].to)
  /\ pend' = [pend EXCEPT ![c] = NoCall]

Pwrite(c) ==
  /\ pend[c].call \in {"pwritev", "fill"}
  /\ \E w \in 0 .. pend[c].len :
       size' = Written(pend[c].fd, pend[c].to, w)
  /\ pend' = [pend EXCEPT ![c] = NoCall]

-----------------------------------------------------------------------------
(* The names have the sign of the operation; the numbers are those of the  *)
(* calls: 1k and 16k have each other's.                                    *)
open_appendtrunc(c)  == Idle(c) /\ size' = 0 /\ UNCHANGED pend

truncate_zero(c)     == Truncate(c, 0)
truncate_one(c)      == Truncate(c, 1)
truncate_1k(c)       == Truncate(c, K16)
truncate_16k(c)      == Truncate(c, K1)
truncate_1m(c)       == Truncate(c, M1)
truncate_pathzero(c) == Truncate(c, 0)
truncate_pathone(c)  == Truncate(c, 1)
truncate_path1k(c)   == Truncate(c, K16)
truncate_path16k(c)  == Truncate(c, K1)
truncate_path1m(c)   == Truncate(c, M1)

FaultyMinusone(c)    == Fstat(c, "ftruncate", "minus", 1, 0)
truncate_minusone(c) == Fstat(c, "ftruncate", "minus", -1, 0)
truncate_minus1k(c)  == Fstat(c, "ftruncate", "minus", -K16, 0)
truncate_minus16k(c) == Fstat(c, "ftruncate", "minus", -K1, 0)
truncate_minus1m(c)  == Fstat(c, "ftruncate", "minus", -M1, 0)
truncate_pluszero(c) == Fstat(c, "ftruncate", "zero", 0, 0)
truncate_plusone(c)  == Fstat(c, "ftruncate", "plus", 1, 0)
truncate_plus1k(c)   == Fstat(c, "ftruncate", "plus", K16, 0)
truncate_plus16k(c)  == Fstat(c, "ftruncate", "plus", K1, 0)
truncate_plus1m(c)   == Fstat(c, "ftruncate", "plus", M1, 0)

(* lseek() to somewhere and write() of an int: twelve operations.          *)
lseek(c)          == \E at \in 0 .. MaxSize : WriteAt(c, at, Int4)
write_write(c)    == \E at \in 0 .. MaxSize : WriteAt(c, at, Pattern)
write_writev(c)   == \E at \in 0 .. MaxSize : WriteAt(c, at, Pattern)
write_mkscript(c) == WriteAt(c, 0, Script)
write_minusone(c) == Fstat(c, "pwritev", "minus", -1, Pattern)
write_minus1k(c)  == Fstat(c, "pwritev", "minus", -K16, Pattern)
write_minus16k(c) == Fstat(c, "pwritev", "minus", -K1, Pattern)
write_minus1m(c)  == Fstat(c, "pwritev", "minus", -M1, Pattern)
write_pluszero(c) == Fstat(c, "pwritev", "zero", 0, Pattern)
write_plus1k(c)   == Fstat(c, "pwritev", "plus", K16, Pattern)
write_plus16k(c)  == Fstat(c, "pwritev", "plus", K1, Pattern)
write_plus1m(c)   == Fstat(c, "pwritev", "plus", M1, Pattern)

mkhashbang(c)  == CutAndFill(c, 0, Script)
mkhashbang2(c) == CutAndFill(c, Path, Script)
copyexe(c)     == CutAndFill(c, 0, TrueExe)

Child(c) ==
  \/ open_appendtrunc(c)
  \/ truncate_zero(c) \/ truncate_one(c)
  \/ truncate_1k(c) \/ truncate_16k(c) \/ truncate_1m(c)
  \/ truncate_pathzero(c) \/ truncate_pathone(c)
  \/ truncate_path1k(c) \/ truncate_path16k(c) \/ truncate_path1m(c)
  \/ truncate_minusone(c) \/ truncate_minus1k(c)
  \/ truncate_minus16k(c) \/ truncate_minus1m(c)
  \/ truncate_pluszero(c) \/ truncate_plusone(c) \/ truncate_plus1k(c)
  \/ truncate_plus16k(c) \/ truncate_plus1m(c)
  \/ lseek(c)
  \/ write_write(c) \/ write_writev(c) \/ write_mkscript(c)
  \/ write_minusone(c) \/ write_minus1k(c)
  \/ write_minus16k(c) \/ write_minus1m(c) \/ write_pluszero(c)
  \/ write_plus1k(c) \/ write_plus16k(c) \/ write_plus1m(c)
  \/ mkhashbang(c) \/ mkhashbang2(c) \/ copyexe(c)
  \/ Ftruncate(c)
  \/ Pwrite(c)

FilesNext == \E c \in Children : Child(c)

FilesSpec == FilesInit /\ [][FilesNext]_filesVars

-----------------------------------------------------------------------------
FilesTypeOK ==
  /\ size \in 0 .. MaxSize
  /\ \A c \in Children :
       Idle(c) \/ pend[c] \in [call : {"ftruncate", "pwritev", "fill"},
                               sign : {"minus", "zero", "plus", "none"},
                               fd : Fds, saw : 0 .. MaxSize,
                               to : (-1 - M1) .. (MaxSize + M1),
                               len : {0, Script, TrueExe, Pattern}]

(* The second call of an operation.                                        *)
Second(c) == ~Idle(c) /\ Idle(c)'

(* A relative truncation does what its name says, also when fstat() fails  *)
(* and leaves a length that nobody has set: minus never makes the file     *)
(* longer, plus never shorter, and zero neither, but for a child that has  *)
(* made the file shorter, or longer, since the operation asked for it.     *)
NamedUnlessRaced ==
  [][\A c \in Children : Second(c) /\ pend[c].call = "ftruncate" =>
       /\ pend[c].sign \in {"minus", "zero"} /\ size' > size =>
            size < pend[c].saw
       /\ pend[c].sign \in {"plus", "zero"} /\ size' < size =>
            size > pend[c].saw]_filesVars

(* A file that a child empties to make it a script or a copy of /true has  *)
(* nothing behind the new contents, unless another child has changed the   *)
(* size in between, or the descriptor appends what it writes.              *)
NothingBehind ==
  [][\A c \in Children : Second(c) /\ pend[c].call = "fill" =>
       \/ size' <= pend[c].len
       \/ size # pend[c].saw
       \/ pend[c].fd # "read-write"]_filesVars

=============================================================================
