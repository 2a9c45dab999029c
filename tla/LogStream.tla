------------------------------ MODULE LogStream ------------------------------
(***************************************************************************)
(* A log file as cbuf_istream (src/ulog/include/cbuf_stream.h) reads it.   *)
(* A file is a sequence of items.  Besides packets it can hold what a      *)
(* crash leaves there: a stretch of zeros where packets were ("junk"), and *)
(* as its last item a packet cut after its preamble ("cut") or inside the  *)
(* first word of it ("stub").  A reading position is the number of the     *)
(* next item, and one more than their number at the end; past the end the  *)
(* mapped page reads as zeros.                                             *)
(***************************************************************************)
EXTENDS Naturals, Sequences, FiniteSetsExt

CONSTANTS
  Types,   \* type hashes; each stands for one name and one description
  Times    \* timestamps of packets

ASSUME TimesAssumption == Times \subseteq Nat \ {0}

Item == [kind : {"metadata", "data", "cut", "junk", "stub"}, type : Types, time : Times]

\* The members of cbuf_istream that change: ptr, and the types in dictionary.
Stream == [at : Nat \ {0}, dictionary : SUBSET Types]

Start == [at |-> 1, dictionary |-> {}]

empty(file, s) == s.at > Len(file)

IsKind(file, i, kinds) == i \in 1 .. Len(file) /\ file[i].kind \in kinds

\* The first item from i on of one of these kinds, or the end.
FirstFrom(file, i, kinds) == Min({j \in i .. Len(file) + 1 : j > Len(file) \/ IsKind(file, j, kinds)})

Passed(file, s, j) == {i \in s.at .. j - 1 : IsKind(file, i, {"metadata"})}

\* s moved to item j, through each metadata packet before it.
MoveTo(file, s, j) ==
  [at |-> j, dictionary |-> s.dictionary \cup {file[i].type : i \in Passed(file, s, j)}]

consume_internal(file, s) ==
  IF IsKind(file, s.at, {"metadata"}) THEN MoveTo(file, s, s.at + 1) ELSE s

\* What each get_next_* and check_next_preamble do first: consume_internal as
\* long as it consumes.
consume_all(file, s) ==
  MoveTo(file, s, FirstFrom(file, s.at, {"data", "cut", "junk", "stub"}))

\* check_next_preamble() and get_next_size() # 0, of a stream that is past metadata.
HasPreamble(file, s) == IsKind(file, s.at, {"data", "cut"})

RecoverMutant(file, s) ==
  IF HasPreamble(file, s) THEN s ELSE MoveTo(file, s, Len(file) + 1)   \* gives the file up

\* skip_corrupted, again for each stretch of junk met after a metadata packet.
Recover(file, s) == MoveTo(file, s, FirstFrom(file, s.at, {"data", "cut"}))

\* A packet larger than what remains is skipped to the end of the file.
skip_message(s) == [s EXCEPT !.at = @ + 1]
=============================================================================
