------------------------------- MODULE Entries -------------------------------
(***************************************************************************)
(* One entry of an archive, as the loops of clodagh.c and of mkpax -r read *)
(* it into a buffer that all entries share, and hand it to proplib.        *)
(*                                                                         *)
(* "zero terminate the file from the archive" says a comment, but          *)
(* strlcat(buf, "", 1) writes nothing: behind an entry the buffer still    *)
(* holds bytes of earlier ones, and proplib reads on until it has found    *)
(* the end of a list.                                                      *)
(*                                                                         *)
(* Faulty... definitions are plausible bugs that no specification uses.    *)
(***************************************************************************)

(* What an entry is: a whole list, a whole text of another kind, a list    *)
(* without its end, nothing (a directory), or a list that                  *)
(* archive_read_data() does not deliver to the last byte.                  *)
Kinds == {"list", "other", "cut", "empty", "short"}

(* The buffer: whether the end of a list is somewhere in it, and for the   *)
(* part that proplib reads, the entries that its bytes may be from and     *)
(* whether they are a list, are none, or are a mixture that may be one.    *)
Buffers(ids) ==
  [ends : BOOLEAN, from : SUBSET ids, holds : {"list", "none", "mixture"}]

NewBuffer == [ends |-> FALSE, from |-> {}, holds |-> "none"]

(* archive_read_data() of an entry; older are the entries in front of it.  *)
Filled(buf, older, id, kind) ==
  CASE kind = "list"  -> [ends |-> TRUE, from |-> {id}, holds |-> "list"]
    [] kind = "other" -> [buf EXCEPT !.from = {id}, !.holds = "none"]
    [] kind = "empty" -> buf
    [] kind \in {"cut", "short"} ->
         [buf EXCEPT !.from = older \cup {id},
                     !.holds = IF buf.ends THEN "mixture" ELSE "none"]

(* archive_read_data() == size: all of the entry has been delivered.       *)
FaultyTaken(kind) == TRUE

Taken(kind) == kind # "short"

(* prop_array_internalize(buf) may return a list.                          *)
MayParse(buf) == buf.holds # "none"

=============================================================================
