-------------------------------- MODULE Fault --------------------------------
(***************************************************************************)
(* The operations of src/src/funcs/src/mmap in one process: ar.c and cp.c  *)
(* copy a mapped file "out" to the buffer, file.c and statd.c copy the     *)
(* pattern "in" to the mapped file.  Other processes change the size of    *)
(* the file meanwhile, so that the copy may fault; bstg_signalj.c jumps    *)
(* out of it.  Sizes are in pages.                                         *)
(*                                                                         *)
(* Faulty... definitions are plausible bugs that no specification uses.    *)
(***************************************************************************)
EXTENDS Integers

CONSTANTS
  BufLen,      (* length of pattern and buffer, 1048576 bytes in the code   *)
  MaxSize      (* size that the file may grow to                            *)

ASSUME FaultAssumption == BufLen \in Nat \ {0} /\ MaxSize \in Nat

VARIABLES
  size,        (* the size of the file                                      *)
  step,        (* the next step of the operation, "none" between two        *)
  way,         (* the way it copies                                         *)
  stsize,      (* sbuf.st_size                                              *)
  area,        (* pages mapped at area, 0 after munmap()                    *)
  handler,     (* what SIGBUS and SIGSEGV do                                *)
  blocked,     (* they are blocked                                          *)
  saved,       (* ... and were when sigsetjmp() filled bstg_jmpbuf          *)
  rest,        (* pages mapped by earlier operations and not unmapped       *)
  killed       (* a fault has ended the process                             *)

faultVars ==
  <<size, step, way, stsize, area, handler, blocked, saved, rest, killed>>

Failed == -1   (* MAP_FAILED                                                *)

FaultInit ==
  /\ size \in 0 .. MaxSize
  /\ step = "none"
  /\ way = "in"
  /\ stsize = 0
  /\ area = 0
  /\ handler = "default"
  /\ blocked = FALSE
  /\ saved = FALSE
  /\ rest = 0
  /\ killed = FALSE

-----------------------------------------------------------------------------
(* Other operations, most of them in other children, truncate and write.   *)
Resize ==
  /\ size' \in 0 .. MaxSize
  /\ UNCHANGED <<step, way, stsize, area, handler, blocked, saved, rest, killed>>

(* The macro min().                                                        *)
Least(a, b) == IF a < b THEN a ELSE b

(* The lengths that are mapped, copied and unmapped.                       *)
MapLength(w, length) == IF w = "out" THEN length ELSE BufLen

FaultyCopyLength == stsize

CopyLength == Least(stsize, BufLen)

FaultyUnmapLength == stsize

UnmapLength == IF way = "out" THEN stsize ELSE BufLen

(* From fstat(), whose failure leaves the 512 bytes of a first page, to    *)
(* the call of memcpy().  The descriptor is good when it is that of a file;*)
(* mmap() may fail on it all the same, and does for a length of 0.         *)
(* sigsetjmp() saves the mask.                                             *)
Enter(good) ==
  /\ step = "none"
  /\ ~killed
  /\ way' \in {"in", "out"}
  /\ stsize' = IF good THEN size ELSE 1
  /\ \/ area' = Failed
     \/ good /\ area' = MapLength(way', stsize') /\ area' > 0
  /\ saved' = blocked
  /\ handler' = "jump"
  /\ step' = "copy"
  /\ UNCHANGED <<size, blocked, rest, killed>>

(* Touching pages that are not mapped, or that the file has no more.       *)
Faults ==
  CopyLength > (IF area = Failed THEN 0 ELSE Least(area, size))

FaultyJump ==
  /\ step = "copy"
  /\ Faults
  /\ IF handler = "jump" /\ ~blocked
     THEN blocked' = TRUE /\ step' = "leave" /\ UNCHANGED killed
     ELSE killed' = TRUE /\ step' = "none" /\ UNCHANGED blocked
  /\ UNCHANGED <<size, way, stsize, area, handler, saved, rest>>

(* memcpy() faults.  The signal is blocked while bstg_signalj() runs, and  *)
(* siglongjmp() puts the saved mask back; a blocked fault kills.           *)
Jump ==
  /\ step = "copy"
  /\ Faults
  /\ IF handler = "jump" /\ ~blocked
     THEN blocked' = saved /\ step' = "leave" /\ UNCHANGED killed
     ELSE killed' = TRUE /\ step' = "none" /\ UNCHANGED blocked
  /\ UNCHANGED <<size, way, stsize, area, handler, saved, rest>>

Copy ==
  /\ step = "copy"
  /\ ~Faults
  /\ step' = "leave"
  /\ UNCHANGED <<size, way, stsize, area, handler, blocked, saved, rest, killed>>

(* The signals' defaults, then munmap(), which does nothing at MAP_FAILED. *)
(* The local variables are gone after that.                                *)
Leave ==
  /\ step = "leave"
  /\ handler' = "default"
  /\ rest' = IF area = Failed THEN rest ELSE rest + area - UnmapLength
  /\ step' = "none"
  /\ way' = "in" /\ stsize' = 0 /\ area' = 0
  /\ UNCHANGED <<size, blocked, saved, killed>>

FaultNext == Resize \/ (\E good \in BOOLEAN : Enter(good)) \/ Jump \/ Copy \/ Leave

FaultSpec == FaultInit /\ [][FaultNext]_faultVars

-----------------------------------------------------------------------------
FaultTypeOK ==
  /\ size \in 0 .. MaxSize
  /\ step \in {"none", "copy", "leave"}
  /\ way \in {"in", "out"}
  /\ stsize \in 0 .. MaxSize + 1
  /\ area \in -1 .. MaxSize + BufLen
  /\ handler \in {"default", "jump"}
  /\ blocked \in BOOLEAN /\ saved \in BOOLEAN
  /\ rest \in Int
  /\ killed \in BOOLEAN

(* However other processes resize the file, and however often memcpy() has *)
(* faulted before, a fault does not kill the child.                        *)
FaultsSurvived == ~killed

(* memcpy() stays inside the buffer, and inside what mmap() has mapped,    *)
(* although the file may have any size.                                    *)
CopyInBounds ==
  step = "copy" => /\ CopyLength <= BufLen
                   /\ area # Failed => CopyLength <= area

(* An operation unmaps exactly what it has mapped, whatever the size of    *)
(* the file is by then: nothing stays mapped and nothing else is unmapped. *)
MapsBalanced == rest = 0

=============================================================================
