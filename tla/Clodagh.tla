------------------------------- MODULE Clodagh -------------------------------
(***************************************************************************)
(* One child of src/src/clodagh/clodagh.c: it reads the archives of its    *)
(* command line one after the other and runs the operations they list.     *)
(* libarchive's descriptor lives in the same table as those of the store,  *)
(* which knows nothing of it.                                              *)
(*                                                                         *)
(* What an operation does to the descriptors is the action of FdPool.      *)
(* Faulty... definitions are plausible bugs that no specification uses.    *)
(***************************************************************************)
EXTENDS FdPool, Entries

CONSTANT
  NArchives    (* the number of archives on the command line                *)

ASSUME ClodaghAssumption == NArchives \in Nat

VARIABLES
  pc,          (* the next step of the child                                *)
  arg,         (* argv, counted from the argument before the first archive  *)
  archive,     (* libarchive's descriptor, -1 when it has none of its own   *)
  kind,        (* the entry that was read last, and                         *)
  buf          (* the buffer, of "this" entry and of "earlier" ones         *)

entry == <<kind, buf>>
vars  == <<ps, open, ret, pc, arg, archive, kind, buf>>

(* The child inherits a store that main() has set up.                      *)
Init ==
  /\ ps = InitStore([magic |-> FALSE, max |-> 0, count |-> 0, fds |-> {}])
  /\ open = StdFds
  /\ ret = 0
  /\ pc = "arguments"
  /\ arg = 0
  /\ archive = -1
  /\ kind = "empty"
  /\ buf = NewBuffer

-----------------------------------------------------------------------------
(* while ( *argv++ ) has moved on to the next argument when the body opens *)
(* it: past the last archive that is the NULL that ends argv, and NULL is  *)
(* libarchive's name for standard input.                                   *)
Given(n) == n <= NArchives

OpenArchive ==
  /\ pc = "arguments"
  /\ Given(arg)
  /\ arg' = arg + 1
  /\ \/ /\ Given(arg + 1)
        /\ Free(open) # {}
        /\ archive' = LowestFree(open)
        /\ open' = open \cup {LowestFree(open)}
        /\ pc' = "read"
     \/ /\ ~Given(arg + 1)
        /\ 0 \in open
        /\ pc' = "read"
        /\ UNCHANGED <<open, archive>>
     \/ /\ pc' = "exit"
        /\ UNCHANGED <<open, archive>>
  /\ UNCHANGED <<ps, ret, entry>>

(* The entry of the last turn is an earlier one now.                       *)
Aged(b) == [b EXCEPT !.from = IF @ = {} THEN {} ELSE {"earlier"}]

(* The next entry, when it is delivered in full and proplib finds a list,  *)
(* and when it is not and is passed over.                                  *)
ReadEntry ==
  /\ pc = "read"
  /\ kind' \in Kinds
  /\ buf' = Filled(Aged(buf), {"earlier"}, "this", kind')
  /\ \/ Taken(kind') /\ MayParse(buf') /\ pc' = "run"
     \/ ~Taken(kind') /\ UNCHANGED pc
  /\ UNCHANGED <<poolVars, arg, archive>>

(* BSTGNULLCHECK() of what is no list, or when there is no memory left.    *)
BadEntry ==
  /\ pc = "read"
  /\ pc' = "exit"
  /\ UNCHANGED <<poolVars, arg, archive, entry>>

(* An operation of the list.                                               *)
Operate ==
  /\ pc = "run"
  /\ \/ Closeall
     \/ Open
     \/ Pipe
     \/ Use
     \/ Sendfile
     \/ Fdopendir
     \/ ChdirGivesUp
     \/ Fchdir
  /\ UNCHANGED <<pc, arg, archive, entry>>

ListEnds ==
  /\ pc = "run"
  /\ pc' = "read"
  /\ UNCHANGED <<poolVars, arg, archive, entry>>

FaultyCloseForgets ==
  /\ pc = "read"
  /\ archive' = -1
  /\ pc' = "arguments"
  /\ UNCHANGED <<poolVars, arg, entry>>

(* archive_read_close() closes the descriptor that libarchive opened, but  *)
(* leaves standard input open.                                             *)
CloseArchive ==
  /\ pc = "read"
  /\ open' = open \ {archive}
  /\ archive' = -1
  /\ pc' = "arguments"
  /\ UNCHANGED <<ps, ret, arg, entry>>

FuncsDestroy ==
  /\ pc = "arguments"
  /\ ~Given(arg)
  /\ FdstoreDestroy
  /\ pc' = "exit"
  /\ UNCHANGED <<arg, archive, entry>>

Ended == pc = "exit" /\ UNCHANGED vars

Next ==
  \/ OpenArchive
  \/ ReadEntry
  \/ BadEntry
  \/ Operate
  \/ ListEnds
  \/ CloseArchive
  \/ FuncsDestroy
  \/ Ended

Spec == Init /\ [][Next]_vars

-----------------------------------------------------------------------------
TypeOK ==
  /\ PoolTypeOK
  /\ pc \in {"arguments", "read", "run", "exit"}
  /\ arg \in 0 .. (NArchives + 1)
  /\ archive \in Fd \cup {-1}
  /\ kind \in Kinds
  /\ buf \in Buffers({"this", "earlier"})

(* libarchive's descriptor is open and never tracked while an archive is   *)
(* read.  A stale entry of the set (one that fdopendir() closed) might     *)
(* have had its number; the next closeall would then close the archive.    *)
ArchiveKept ==
  archive # -1 => archive \in open /\ archive \notin ps.fds

(* Operations of an earlier entry run again only through an entry that is  *)
(* no whole list itself: what a skipped or a cut entry leaves in the       *)
(* buffer never gets into a whole one.                                     *)
StaleOnlyIfIncomplete ==
  pc = "run" => buf.from = {"this"} \/ kind \in {"cut", "empty"}

-----------------------------------------------------------------------------
(* What a document of the repository says and the code does not do.        *)

(* clodagh/README.md: "it will only execute the operations in the order    *)
(* found in the archive", that is of the archives it was given.            *)
OnlyGivenArchives == pc = "run" => archive # -1

=============================================================================
