------------------------------ MODULE LogReader ------------------------------
(***************************************************************************)
(* The reader of a log: CBufReaderBase and CBufReader of src/ulog, with    *)
(* one CBufHandler.  A log is a directory of files; the reader takes the   *)
(* earliest message among the heads of all of them.  The program that      *)
(* reads calls openUlog, processMessage, getNextTimestamp,                 *)
(* getMessageCounts and close in any order its documentation allows; each  *)
(* call is one action, for the reader runs in one thread.                  *)
(***************************************************************************)
EXTENDS LogStream, Integers

CONSTANTS
  Logs,       \* logs on disk: each a sequence of files, in directory order
  HandlerType,\* the type the handler was compiled with (CBufMsg::TYPE_HASH)
  Versions,   \* the types of the handler's name (CBufMsg::TYPE_STRING)
  Options,    \* the options read with
  MaxRestarts,\* bound: calls of openUlog and getMessageCounts
  MaxHalts    \* bound: calls answered by halting at a corrupted file

\* It is the end of its file that cuts a packet.
ASSUME LogsAssumption ==
  /\ Logs \subseteq Seq(Seq(Item))
  /\ \A files \in Logs : \A f \in DOMAIN files : \A i \in 1 .. Len(files[f]) - 1 :
       files[f][i].kind \notin {"cut", "stub"}
ASSUME HandlerAssumption == HandlerType \in Versions /\ Versions \subseteq Types
ASSUME OptionsAssumption ==
  Options \subseteq [try_recovery : BOOLEAN, startTime : {-1} \cup Times, endTime : {-1} \cup Times,
                     process_always : BOOLEAN, allow_conversion : BOOLEAN]

ASSUME BoundsAssumption == MaxRestarts \in Nat /\ MaxHalts \in Nat

NotAsked == 0          \* no timestamp since the last message
NoParser == {}         \* the handler has parsed no other version's description

VARIABLES
  log, options,        \* what is read, and how
  is_opened, input_streams, finish_reading, num_corruptions,
  parser,              \* the handler's: {the type whose description it parsed}
  \* History, since the log was last opened or put back to its start:
  processed,           \* the messages processMessage went past, <<file, item>>
  handled,             \* those the handler was called with, and the type whose
                       \* description they were decoded by
  ended,               \* computeNextSi found nothing left to read
  corruptionsBefore,   \* num_corruptions then
  \* and:
  asked,               \* what getNextTimestamp returned since the last message
  restarts

logVars == <<log, options>>
handlerVars == <<parser, handled>>
readerVars == <<logVars, is_opened, input_streams, finish_reading, num_corruptions, handlerVars,
                processed, ended, corruptionsBefore, asked, restarts>>

Streams == DOMAIN input_streams
Message(a) == log[a[1]][a[2]]

ReaderTypeOK ==
  /\ log \in Seq(Seq(Item)) /\ options \in Options
  /\ is_opened \in BOOLEAN /\ finish_reading \in BOOLEAN /\ ended \in BOOLEAN
  /\ input_streams \in Seq(Stream)
  /\ \A f \in Streams : input_streams[f].at \in 1 .. Len(log[f]) + 1
  /\ num_corruptions \in Nat /\ corruptionsBefore \in 0 .. num_corruptions
  /\ parser \in {NoParser} \cup {{v} : v \in Versions \ {HandlerType}}
  /\ processed \in Seq(Nat \X Nat) /\ handled \in Seq([message : Nat \X Nat, by : Versions])
  /\ \A k \in 1 .. Len(processed) : Message(processed[k]).kind = "data"
  /\ asked \in {NotAsked, -1} \cup Times /\ restarts \in 0 .. MaxRestarts

ReaderStart ==
  /\ is_opened = FALSE /\ input_streams = << >>
  /\ finish_reading = FALSE /\ num_corruptions = 0
  /\ parser = NoParser
  /\ processed = << >> /\ handled = << >> /\ ended = FALSE /\ corruptionsBefore = 0
  /\ asked = NotAsked /\ restarts = 0

ReaderInit == log \in Logs /\ options \in Options /\ ReaderStart
-----------------------------------------------------------------------------
(* Open, close, count: what puts the reader at the start of the log.       *)

Restart ==
  /\ restarts < MaxRestarts /\ restarts' = restarts + 1
  /\ processed' = << >> /\ handled' = << >> /\ ended' = FALSE
  /\ corruptionsBefore' = num_corruptions /\ asked' = NotAsked

openUlog ==
  /\ ~is_opened /\ is_opened' = TRUE
  /\ input_streams' = [f \in DOMAIN log |-> Start]
  /\ Restart
  /\ UNCHANGED <<logVars, finish_reading, num_corruptions, parser>>

\* finish_reading stays as it is, here and in getMessageCounts.
close ==
  /\ is_opened /\ is_opened' = FALSE
  /\ input_streams' = << >>
  /\ processed' = << >> /\ handled' = << >> /\ ended' = FALSE
  /\ corruptionsBefore' = num_corruptions /\ asked' = NotAsked
  /\ UNCHANGED <<logVars, finish_reading, num_corruptions, parser, restarts>>

getMessageCountsMutant ==      \* the streams are left where they are
  /\ is_opened /\ Restart
  /\ UNCHANGED <<logVars, is_opened, input_streams, finish_reading, num_corruptions, parser>>

\* Every file is read to its end on the way, and keeps the types it describes.
getMessageCounts ==
  /\ is_opened
  /\ input_streams' = [f \in Streams |->
       [MoveTo(log[f], [Start EXCEPT !.dictionary = input_streams[f].dictionary], Len(log[f]) + 1)
          EXCEPT !.at = 1]]
  /\ Restart
  /\ UNCHANGED <<logVars, is_opened, finish_reading, num_corruptions, parser>>
-----------------------------------------------------------------------------
(* computeNextSi.                                                          *)

is_valid_early(t) == options.startTime > 0 => t >= options.startTime
is_valid_late(t) == options.endTime > 0 => t <= options.endTime

\* empty_no_internal consumes one metadata packet before it looks for the end,
\* check_next_preamble all that follow: at the end of the file it reads zeros.
IsCorrupted(f) ==
  LET one == consume_internal(log[f], input_streams[f]) IN
    ~empty(log[f], one) /\ ~HasPreamble(log[f], consume_all(log[f], one))

SkipCutMutant(f, s) == s      \* the last packet is read though it is not complete

\* "We have one last packet that is not complete": skipped.
SkipCut(f, s) == IF IsKind(log[f], s.at, {"cut"}) THEN skip_message(s) ELSE s

Scan(f) == SkipCut(f, Recover(log[f], input_streams[f]))

\* The corrupted stretches of f between two positions.
Junk(f, from, to) == {f} \X {i \in from .. to - 1 : IsKind(log[f], i, {"junk", "stub"})}

SkippedMutant(f) == Junk(f, 1, Scan(f).at)      \* again at each look

Skipped(f) == Junk(f, input_streams[f].at, Scan(f).at)

\* How often skip_corrupted is called, once for each stretch.
NumSkipped == Cardinality(UNION {Skipped(f) : f \in Streams})

\* Without try_recovery the first file found corrupted halts the reading.
Halting == {f \in Streams : ~options.try_recovery /\ IsCorrupted(f)}

Scanned ==
  [f \in Streams |->
     IF \A h \in Halting : f < h THEN Scan(f)
     ELSE IF f = Min(Halting) THEN consume_all(log[f], input_streams[f])
     ELSE input_streams[f]]

Left == {f \in Streams : ~empty(log[f], Scanned[f])}

TimeOf(f) == log[f][Scanned[f].at].time      \* packet_time

EarlierMutant(f, g) == f <= g                 \* the first file that has one

Earlier(f, g) == TimeOf(f) < TimeOf(g) \/ (TimeOf(f) = TimeOf(g) /\ f <= g)

next_si == CHOOSE f \in Left : \A g \in Left : Earlier(f, g)

\* computeNextSi returns true, next_si is its choice.
Found ==
  /\ ~finish_reading /\ Halting = {} /\ Left # {}
  /\ is_valid_late(TimeOf(next_si))

FoundNone ==
  \/ /\ finish_reading
     /\ UNCHANGED <<input_streams, finish_reading, num_corruptions, ended>>
  \/ /\ ~finish_reading /\ Halting # {}
     /\ num_corruptions < MaxHalts
     /\ input_streams' = Scanned /\ num_corruptions' = num_corruptions + 1
     /\ UNCHANGED <<finish_reading, ended>>
  \/ /\ ~finish_reading /\ Halting = {} /\ ~Found
     /\ input_streams' = Scanned
     /\ num_corruptions' = num_corruptions + NumSkipped
     /\ finish_reading' = TRUE /\ ended' = TRUE
-----------------------------------------------------------------------------
(* processMessage, and the handler's.                                      *)

Decoded(a, type) == handled' = Append(handled, [message |-> a, by |-> type])

\* The handler is looked up by the name the file's metadata gives the type.
IsWanted(a, known) ==
  /\ Message(a).type \in Versions \cap known
  /\ options.process_always \/ is_valid_early(Message(a).time)

\* Another version of the type is converted by the description of the first
\* such version the handler ever met: conversion of any other may fail.
Convert(a) ==
  /\ Message(a).type # HandlerType /\ options.allow_conversion
  /\ parser' = IF parser = NoParser THEN {Message(a).type} ELSE parser
  /\ \/ \E type \in parser' : Decoded(a, type)
     \/ parser' # {Message(a).type} /\ UNCHANGED handled

HandleMutant(a) == Convert(a) \/ (Message(a).type = HandlerType /\ UNCHANGED handlerVars)

Handle(a) ==
  \/ Message(a).type = HandlerType /\ Decoded(a, HandlerType) /\ UNCHANGED parser
  \/ Convert(a)
  \/ Message(a).type # HandlerType /\ ~options.allow_conversion /\ UNCHANGED handlerVars

ProcessFound ==
  LET a == <<next_si, Scanned[next_si].at>> IN
    /\ processed' = Append(processed, a)
    /\ \/ IsWanted(a, Scanned[next_si].dictionary) /\ Handle(a)
       \/ ~IsWanted(a, Scanned[next_si].dictionary) /\ UNCHANGED handlerVars
    /\ input_streams' = [Scanned EXCEPT ![next_si] = skip_message(@)]

processMessage ==
  /\ is_opened /\ asked' = NotAsked
  /\ \/ /\ Found /\ ProcessFound
        /\ num_corruptions' = num_corruptions + NumSkipped
        /\ UNCHANGED <<finish_reading, ended>>
     \/ FoundNone /\ UNCHANGED <<processed, handlerVars>>
  /\ UNCHANGED <<logVars, is_opened, corruptionsBefore, restarts>>

getNextTimestampMutant ==      \* of the first file that has one
  /\ is_opened /\ Found
  /\ asked' = TimeOf(Min(Left)) /\ input_streams' = Scanned
  /\ num_corruptions' = num_corruptions + NumSkipped
  /\ UNCHANGED <<logVars, is_opened, handlerVars, processed, corruptionsBefore, restarts,
                 finish_reading, ended>>

getNextTimestamp ==
  /\ is_opened
  /\ \/ /\ Found /\ asked' = TimeOf(next_si)
        /\ input_streams' = Scanned
        /\ num_corruptions' = num_corruptions + NumSkipped
        /\ UNCHANGED <<finish_reading, ended>>
     \/ FoundNone /\ asked' = -1
  /\ UNCHANGED <<logVars, is_opened, handlerVars, processed, corruptionsBefore, restarts>>
-----------------------------------------------------------------------------
ReaderNext == openUlog \/ close \/ getMessageCounts \/ processMessage \/ getNextTimestamp

ReaderSpec == ReaderInit /\ [][ReaderNext]_readerVars
-----------------------------------------------------------------------------
(* What must hold.                                                         *)

Messages == UNION {{f} \X {i \in 1 .. Len(log[f]) : log[f][i].kind = "data"} : f \in DOMAIN log}

\* Each file holds its messages in time order.
FilesOrdered ==
  \A a, b \in Messages : a[1] = b[1] /\ a[2] < b[2] => Message(a).time <= Message(b).time

\* The messages of several files come out in time order, through corrupted
\* stretches, cut files, peeks and restarts.
InTimeOrder ==
  FilesOrdered => \A j, k \in 1 .. Len(processed) :
    j < k => Message(processed[j]).time <= Message(processed[k]).time

\* No message is processed twice; once computeNextSi has found nothing left,
\* every complete message up to endTime has been, whatever was corrupted
\* between them.
NothingHidden ==
  /\ \A j, k \in 1 .. Len(processed) : processed[j] = processed[k] => j = k
  /\ ended /\ FilesOrdered => \A a \in Messages :
       is_valid_late(Message(a).time) => \E k \in 1 .. Len(processed) : processed[k] = a

\* num_corruptions counts each corrupted stretch the reader has passed exactly
\* once, however often it looked at the file's head.
CorruptionsCounted ==
  options.try_recovery => num_corruptions =
    corruptionsBefore + Cardinality(UNION {Junk(f, 1, input_streams[f].at) : f \in Streams})

\* Its file describes it before a.
IsDescribed(a) ==
  \E i \in 1 .. a[2] - 1 : log[a[1]][i].kind = "metadata" /\ log[a[1]][i].type = Message(a).type

\* The handler gets exactly once, in order, and decoded by its own description,
\* each message of its name the reader goes past that is not too early or of a
\* version it may not convert.
Handed ==
  LET k == [j \in 1 .. Len(handled) |-> handled[j].message] IN
    /\ \A j \in 1 .. Len(handled) : handled[j].by = Message(handled[j].message).type
    /\ \A i, j \in DOMAIN k : \E m, n \in 1 .. Len(processed) :
         processed[m] = k[i] /\ processed[n] = k[j] /\ (i < j => m < n)
    /\ \A a \in {processed[j] : j \in 1 .. Len(processed)} :
         /\ IsDescribed(a) /\ IsWanted(a, Types)
         /\ Message(a).type # HandlerType => options.allow_conversion
         => Cardinality({j \in DOMAIN k : k[j] = a}) = 1
    /\ \A j \in DOMAIN k : is_valid_early(Message(k[j]).time) \/ options.process_always

\* getNextTimestamp tells the time of the message the next processMessage goes
\* past; it says there is none only if there is (halting at a corruption apart).
PeekIsNext ==
  [][processMessage /\ asked # NotAsked =>
       IF asked = -1 THEN options.try_recovery => processed' = processed
       ELSE \E a \in Messages : processed' = Append(processed, a) /\ Message(a).time = asked]_readerVars

\* What a program sees of the reader: the messages of each file and their times,
\* what processMessage has gone past, and whether the end was found.
Merged == INSTANCE OrderedMerge WITH
  files <- [f \in DOMAIN log |->
              [i \in {i \in 1 .. Len(log[f]) : log[f][i].kind = "data"} |-> log[f][i].time]],
  until <- options.endTime,
  given <- processed,
  over <- ended

\* The reader implements the merge of its files by time, whatever is corrupted,
\* cut or described between their messages, and whatever was peeked at, counted
\* or closed in between.
ReadsMerged == Merged!Spec

\* A log in which nothing is corrupted is not reported as corrupted.
NoFalseAlarm ==
  (\A f \in DOMAIN log : \A i \in 1 .. Len(log[f]) : log[f][i].kind \in {"metadata", "data"})
    => num_corruptions = 0
=============================================================================
