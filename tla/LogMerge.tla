------------------------------ MODULE LogMerge ------------------------------
(***************************************************************************)
(* Merging the files of a log into one: cbuf_ostream::merge of             *)
(* src/ulog/src/cbuf_stream.cpp.  A log is read by LogReader either as it  *)
(* is or after its files were merged, with a filter of names and a range   *)
(* of times.  merge reads raw packets: metadata packets take part in the   *)
(* choice of the earliest one, with the time they were written at.         *)
(***************************************************************************)
EXTENDS LogReader

CONSTANTS
  Inputs,     \* logs to merge
  Ranges      \* arguments of merge: what passes the filter, early and late time

\* write() of a packet that is cut would read past the end of its file.
ASSUME InputsAssumption ==
  /\ Inputs \subseteq Seq(Seq(Item))
  /\ \A input \in Inputs : \A f \in DOMAIN input : \A i \in DOMAIN input[f] : input[f][i].kind # "cut"
ASSUME RangesAssumption ==
  Ranges \subseteq [passes : SUBSET Types, earlytime : {-1} \cup Times, latetime : Times]

VARIABLES
  merging,    \* "no", "yes", "done", or "thrown": out_of_range leaves merge
  inputs, range,
  ptrs,       \* of each input, the next packet
  dictionary, \* of the cbuf_ostream
  written     \* the packets written, <<input, item>>

mergeVars == <<merging, inputs, range, ptrs, dictionary, written>>
mergeReaderVars == <<readerVars, mergeVars>>

MergeTypeOK ==
  /\ ReaderTypeOK
  /\ merging \in {"no", "yes", "done", "thrown"}
  /\ ptrs \in [DOMAIN inputs -> Nat \ {0}] /\ \A f \in DOMAIN inputs : ptrs[f] <= Len(inputs[f]) + 1
  /\ dictionary \subseteq Types
  /\ written \in Seq((DOMAIN inputs) \X Nat)

MergeStart ==
  /\ \/ merging = "no" /\ log \in Logs /\ inputs = << >>
        /\ range = CHOOSE r \in Ranges : TRUE
     \/ merging = "yes" /\ log = << >> /\ inputs \in Inputs /\ range \in Ranges
  /\ ptrs = [f \in DOMAIN inputs |-> 1] /\ dictionary = {} /\ written = << >>

MergeInit == options \in Options /\ ReaderStart /\ MergeStart
-----------------------------------------------------------------------------
Pending == {f \in DOMAIN inputs : ptrs[f] <= Len(inputs[f])}

Next_(f) == inputs[f][ptrs[f]]

IsPacket(f) == Next_(f).kind \in {"metadata", "data"}

\* __get_next_timestamp; junk reads as zeros.
HeadTime(f) == IF IsPacket(f) THEN Next_(f).time ELSE 0

\* The strict comparison keeps the first input of those at the same time.
IsEarliest(f) ==
  \A g \in Pending : HeadTime(f) < HeadTime(g) \/ (HeadTime(f) = HeadTime(g) /\ f <= g)

InRangeMutant(p) ==        \* of metadata too
  p.type \in range.passes /\ p.time >= range.earlytime /\ p.time <= range.latetime

InRangeMutant2(p) ==       \* the late time itself is not in the range
  /\ p.type \in range.passes
  /\ p.kind = "data" => p.time >= range.earlytime /\ p.time < range.latetime

\* The filters of merge_packet; that of time is not for metadata.
InRange(p) ==
  /\ p.type \in range.passes
  /\ p.kind = "data" => p.time >= range.earlytime /\ p.time <= range.latetime

MergePacket(f) ==
  /\ merging = "yes" /\ f \in Pending /\ IsEarliest(f) /\ IsPacket(f)
  /\ Next_(f).kind = "metadata" \/ Next_(f).type \in dictionary
  /\ dictionary' = dictionary \cup {Next_(f).type}
  /\ written' = IF InRange(Next_(f)) THEN Append(written, <<f, ptrs[f]>>) ELSE written
  /\ ptrs' = [ptrs EXCEPT ![f] = @ + 1]
  /\ UNCHANGED <<readerVars, merging, inputs, range>>

\* dictionary.at(hash) of a type no input has described yet, or of junk.
MergeThrows(f) ==
  /\ merging = "yes" /\ f \in Pending /\ IsEarliest(f)
  /\ ~IsPacket(f) \/ (Next_(f).kind = "data" /\ Next_(f).type \notin dictionary)
  /\ merging' = "thrown"
  /\ UNCHANGED <<readerVars, inputs, range, ptrs, dictionary, written>>

\* What was written is the one file of a log of its own; an empty one is not read.
MergeReturns ==
  /\ merging = "yes" /\ Pending = {} /\ merging' = "done"
  /\ log' = IF written = << >> THEN << >>
            ELSE << [k \in 1 .. Len(written) |-> inputs[written[k][1]][written[k][2]]] >>
  /\ UNCHANGED <<options, is_opened, input_streams, finish_reading, num_corruptions, handlerVars,
                 processed, ended, corruptionsBefore, asked, restarts>>
  /\ UNCHANGED <<inputs, range, ptrs, dictionary, written>>

MergeReaderNext ==
  \/ \E f \in DOMAIN inputs : MergePacket(f) \/ MergeThrows(f)
  \/ MergeReturns
  \/ merging \in {"no", "done"} /\ log # << >> /\ ReaderNext /\ UNCHANGED mergeVars

MergeReaderSpec == MergeInit /\ [][MergeReaderNext]_mergeReaderVars
-----------------------------------------------------------------------------
(* What must hold.                                                         *)

InputMessages ==
  UNION {{f} \X {i \in 1 .. Len(inputs[f]) : inputs[f][i].kind = "data"} : f \in DOMAIN inputs}

InputMessage(a) == inputs[a[1]][a[2]]

\* A finished merge holds each message of the filter and range exactly once, and
\* none other, with those of one input in their order.
MergeKeepsAll ==
  merging = "done" =>
    /\ \A a \in InputMessages :
         Cardinality({k \in 1 .. Len(written) : written[k] = a})
           = IF /\ InputMessage(a).type \in range.passes
                /\ InputMessage(a).time \in range.earlytime .. range.latetime THEN 1 ELSE 0
    /\ \A j, k \in 1 .. Len(written) :
         j < k /\ written[j][1] = written[k][1] => written[j][2] < written[k][2]

\* The merged file describes each message's type before it, in whatever range
\* of times and although inputs may lean on one another's descriptions.
MergedSelfDescribing ==
  \A k \in 1 .. Len(written) : InputMessage(written[k]).kind = "data" =>
    \E j \in 1 .. k - 1 : LET m == InputMessage(written[j]) IN
      m.kind = "metadata" /\ m.type = InputMessage(written[k]).type

\* The messages of inputs that are in time order are merged in time order.
MergedInOrder ==
  (\A a, b \in InputMessages :
     a[1] = b[1] /\ a[2] < b[2] => InputMessage(a).time <= InputMessage(b).time) =>
  \A j, k \in 1 .. Len(written) :
    j < k /\ {InputMessage(written[j]).kind, InputMessage(written[k]).kind} = {"data"} =>
      InputMessage(written[j]).time <= InputMessage(written[k]).time
=============================================================================
