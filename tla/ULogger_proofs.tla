---------------------------- MODULE ULogger_proofs ----------------------------
(***************************************************************************)
(* The logger uses its ring buffer as RingBuffer says, so all that is      *)
(* proved of the buffer holds of the logger's; and the files it writes     *)
(* describe themselves and number the topics consistently, for all sets of *)
(* threads, types, topics and directories, however the log is split, moved *)
(* and ended.                                                              *)
(***************************************************************************)
EXTENDS ULogger, RingBuffer_proofs

USE TypeOfAssumption, TopicOfAssumption, DirsAssumption, SplitAssumption
-----------------------------------------------------------------------------
(* The buffer under the logger.                                            *)

\* A step of a producer is one of the buffer's.
LEMMA SerializeIsBuffer ==
  ASSUME NEW p \in Producers, SerializeCall(p) \/ SerializeStep(p) \/ SerializeReturn(p)
  PROVE  Next
BY DEF SerializeCall, SerializeStep, SerializeReturn, Next

\* A step of the logger thread is one of the buffer's consumer, or none of its.
LEMMA LoggerIsBuffer ==
  ASSUME LoggerStep
  PROVE  Next \/ UNCHANGED vars
<1>1. CASE LogUnread
  BY <1>1 DEF LogUnread, Next
<1>2. CASE PacketDropped \/ PacketWrite
  BY <1>2 DEF PacketDropped, PacketWrite, Next
<1>3. CASE LogDequeue
  BY <1>3 DEF LogDequeue, Next
<1>4. CASE LogNotify
  BY <1>4 DEF LogNotify, Next
<1>5. CASE LogTop \/ LogPollAgain \/ LogOpen \/ LogPadding \/ LogDrained \/ LogClose
  BY <1>5 DEF LogTop, LogPollAgain, LogOpen, LogPadding, LogDrained, LogClose
<1>6. CASE PacketOpen \/ PacketKnownType \/ PacketMetadata \/ MetadataCallback
  BY <1>6 DEF PacketOpen, PacketKnownType, PacketMetadata, MetadataCallback
<1>7. CASE WriteAborts \/ PacketCallback \/ SplitClose \/ SplitOpen
  BY <1>7 DEF WriteAborts, PacketCallback, SplitClose, SplitOpen
<1> QED BY <1>1, <1>2, <1>3, <1>4, <1>5, <1>6, <1>7 DEF LoggerStep

\* The application thread never touches the buffer.
AppStep ==
  (\E d \in Dirs : SetLogPath(d)) \/ SetFileWriteCallback \/ ResetFileCallbacks \/ EndLogging \/ Join

LEMMA AppKeepsBuffer == AppStep => UNCHANGED vars
BY DEF AppStep, SetLogPath, SetFileWriteCallback, ResetFileCallbacks, EndLogging, Join

LEMMA BufferStep == [LogNext]_logVars => [Next]_vars
<1>1. CASE \E p \in Producers : SerializeCall(p) \/ SerializeStep(p) \/ SerializeReturn(p)
  BY <1>1, SerializeIsBuffer
<1>2. CASE LoggerStep
  BY <1>2, LoggerIsBuffer
<1>3. CASE AppStep
  BY <1>3, AppKeepsBuffer
<1>4. CASE UNCHANGED logVars
  BY <1>4 DEF logVars
<1> QED BY <1>1, <1>2, <1>3, <1>4 DEF LogNext, AppStep

\* The logger drives its ring buffer as RingBuffer's producers and consumer do:
\* serialize, serialize_bytes and the logger thread keep to its protocol.
THEOREM Implements == LogSpec => Spec
<1>1. LogInit => Init
  BY DEF LogInit
<1> QED BY <1>1, BufferStep, PTL DEF LogSpec, Spec

\* So the logger's buffer is a queue of calls: each leaves it at most once,
\* unaltered, in the order of the allocations.
THEOREM LoggerQueue == LogSpec => QueueSpec
BY Implements, Refinement, PTL

\* And a call that waits for room in it is woken, as long as no message has ended
\* at the buffer's last byte.
THEOREM LogWaitersWoken ==
  ASSUME \A n \in MsgSizes : n < Size
  PROVE  LogSpec /\ [][NoEmptyPadding]_logVars => []NoLostWakeup
<1>1. [NoEmptyPadding]_logVars => [NoEmptyPadding]_vars
  BY DEF logVars
<1>2. Spec /\ [][NoEmptyPadding]_vars => []NoLostWakeup
  BY WaitersWoken
<1> QED BY <1>1, <1>2, Implements, PTL
-----------------------------------------------------------------------------
(* What the buffer holds.                                                  *)

\* alloc_inner gives a message its own call; only padding has none.
LEMMA CalledInv ==
  ASSUME IInv, Called, [Next]_vars
  PROVE  Called'
<1>1. ASSUME NEW p \in Producers, AllocReserve(p) PROVE Called'
  <2>1. <<p, calls[p]>> \in Calls
    <3>1. calls[p] > 0 /\ calls[p] \in 0 .. MaxCalls
      BY <1>1 DEF IInv, TypeOK, Clients, AllocReserve
    <3> QED BY <3>1 DEF Calls
  <2>2. PICK k : k = allocationId
    OBVIOUS
  <2>3. allocations' = Insert(allocations, k,
          [size |-> want[p], begin |-> m_write, type |-> "Empty", call |-> <<p, calls[p]>>])
    BY <1>1, <2>2 DEF AllocReserve
  <2>4. /\ Live' = Live \cup {k} /\ allocations'[k].call = <<p, calls[p]>>
        /\ \A i \in Live : i # k => allocations'[i] = allocations[i]
    BY <2>3 DEF Insert, Live
  <2> QED BY <2>1, <2>4 DEF Called
<1>2. ASSUME NEW p \in Producers, AllocDummy(p) PROVE Called'
  BY <1>2 DEF Called, Live, AllocDummy, Insert
<1>3. ASSUME NEW p \in Producers, Populate(p) PROVE Called'
  <2>1. PICK h : h = handle[p]
    OBVIOUS
  <2>2. h \in Live /\ allocations[h].type = "Empty"
    BY <1>3, <2>1 DEF Populate, IInv, HandleOwned
  <2>3. allocations' = [allocations EXCEPT ![h].type = "Populated"]
    BY <1>3, <2>1 DEF Populate, Mark
  <2>4. \A i \in Live : allocations[i] \in Allocation
    BY DEF IInv, TypeOK, Live
  <2>5. /\ Live' = Live
        /\ \A i \in Live : /\ allocations'[i].call = allocations[i].call
                           /\ i # h => allocations'[i].type = allocations[i].type
    BY <2>3, <2>4 DEF Live, Allocation
  <2> QED BY <2>2, <2>5 DEF Called
<1>4. CASE Dequeue \/ Consume
  <2>1. PICK h : h = lastUnfreedId
    OBVIOUS
  <2>2. Live' \subseteq Live /\ \A i \in Live' : allocations'[i] = allocations[i]
    BY <1>4, <2>1, FreeFacts DEF Dequeue, Consume
  <2> QED BY <2>2 DEF Called
<1>5. ASSUME UNCHANGED allocations PROVE Called'
  BY <1>5 DEF Called, Live
<1>6. CASE \E p \in Producers : \/ \E n \in MsgSizes : StartAlloc(p, n)
                                \/ AllocWait(p) \/ SpuriousWake(p) \/ Fill(p) \/ Abandon(p)
  BY <1>5, <1>6 DEF StartAlloc, AllocWait, SpuriousWake, Fill, Abandon, bufVars
<1>7. CASE FullWait \/ SpuriousFullWake \/ LastUnread \/ ReadOut \/ NotifyFree \/ UNCHANGED vars
  BY <1>5, <1>7 DEF FullWait, SpuriousFullWake, LastUnread, ReadOut, NotifyFree, vars, bufVars
<1> QED BY <1>1, <1>2, <1>3, <1>4, <1>6, <1>7 DEF Next

\* Producers leave alone what the consumer holds.
LEMMA HeadKept ==
  ASSUME IInv, cpc \in {"holding", "read"}, NEW p \in Producers,
         SerializeCall(p) \/ SerializeStep(p) \/ SerializeReturn(p)
  PROVE  /\ cpc' = cpc
         /\ Head_'.call = Head_.call
         /\ Head_.type = "Populated" => Head_'.type = "Populated"
<1>1. PICK h : h = lastUnfreedId
  OBVIOUS
<1>2. h \in Live /\ h < allocationId /\ Head_ = allocations[h] /\ Head_ \in Allocation
  BY <1>1 DEF IInv, TypeOK, Clients, HeadReady, Live, Head_
<1>3. CASE AllocReserve(p) \/ AllocDummy(p)
  <2>1. PICK k, a : k = allocationId /\ allocations' = Insert(allocations, k, a)
    BY <1>3 DEF AllocReserve, AllocDummy
  <2>2. k # h
    BY <1>1, <1>2, <2>1 DEF IInv, TypeOK
  <2>3. allocations'[h] = allocations[h]
    BY <1>2, <2>1, <2>2 DEF Insert, Live
  <2>4. lastUnfreedId' = h /\ cpc' = cpc
    BY <1>1, <1>3 DEF AllocReserve, AllocDummy, consVars
  <2> QED BY <1>2, <2>3, <2>4 DEF Head_
<1>4. CASE Populate(p)
  <2>1. PICK k : k = handle[p]
    OBVIOUS
  <2>2. k \in Live /\ allocations' = [allocations EXCEPT ![k].type = "Populated"]
    BY <1>4, <2>1 DEF Populate, Mark, IInv, Clients
  <2>3. allocations'[h].call = allocations[h].call
    BY <1>2, <2>2 DEF Live, Allocation
  <2>4. allocations[h].type = "Populated" => allocations'[h].type = "Populated"
    BY <1>2, <2>2 DEF Live, Allocation
  <2>5. lastUnfreedId' = h /\ cpc' = cpc
    BY <1>1, <1>4 DEF Populate
  <2> QED BY <1>2, <2>3, <2>4, <2>5 DEF Head_
<1>5. CASE UNCHANGED <<allocations, lastUnfreedId, cpc>>
  BY <1>5 DEF Head_
<1>6. CASE \/ \E n \in MsgSizes : StartAlloc(p, n)
           \/ AllocWait(p) \/ SpuriousWake(p) \/ Fill(p) \/ Abandon(p)
  BY <1>5, <1>6 DEF StartAlloc, AllocWait, SpuriousWake, Fill, Abandon, bufVars, consVars
<1> QED BY <1>3, <1>4, <1>6 DEF SerializeCall, SerializeStep, SerializeReturn
-----------------------------------------------------------------------------
(* The files.                                                              *)

\* What LogTypeOK says of the files themselves.
FilesOK == files \in Seq(Seq(Record)) /\ stream \in {0, Len(files)}

\* One more record in the open file; the others, and the earlier records, stay.
LEMMA PutFacts ==
  ASSUME FilesOK, NEW r \in Record, Put(r), stream' = stream
  PROVE  /\ FilesOK' /\ Len(files') = Len(files) /\ stream \in 1 .. Len(files)
         /\ \A f \in 1 .. Len(files) : f # stream => files'[f] = files[f]
         /\ Len(files'[stream]) = Len(files[stream]) + 1
         /\ \A i \in 1 .. Len(files[stream]) : files'[stream][i] = files[stream][i]
         /\ files'[stream][Len(files[stream]) + 1] = r
         /\ Len(files[stream]) \in Nat
<1>1. PICK s : s = stream
  OBVIOUS
<1>2. /\ s = Len(files) /\ s \in 1 .. Len(files) /\ Len(files) \in Nat
      /\ files[s] \in Seq(Record)
      /\ files' = [files EXCEPT ![s] = Append(files[s], r)]
  BY <1>1 DEF FilesOK, Put
<1>3. Append(files[s], r) \in Seq(Record)
  BY <1>2
<1>4. files' \in Seq(Seq(Record)) /\ Len(files') = Len(files)
  BY <1>2, <1>3 DEF FilesOK
<1>5. files'[s] = Append(files[s], r)
  BY <1>2 DEF FilesOK
<1>6. \A f \in 1 .. Len(files) : f # s => files'[f] = files[f]
  BY <1>2 DEF FilesOK
<1>7. /\ Len(files'[s]) = Len(files[s]) + 1
      /\ \A i \in 1 .. Len(files[s]) : files'[s][i] = files[s][i]
      /\ files'[s][Len(files[s]) + 1] = r
      /\ Len(files[s]) \in Nat
  BY <1>2, <1>5
<1> QED BY <1>1, <1>2, <1>4, <1>6, <1>7 DEF FilesOK

\* A new file is empty, and the others stay.
LEMMA OpenFacts ==
  ASSUME FilesOK, OpenFile
  PROVE  /\ FilesOK' /\ Len(files') = Len(files) + 1 /\ Len(files) \in Nat
         /\ \A f \in 1 .. Len(files) : files'[f] = files[f]
         /\ files'[Len(files) + 1] = << >>
         /\ stream' = Len(files) + 1
<1>1. files' = Append(files, << >>) /\ << >> \in Seq(Record) /\ stream' = Len(files) + 1
  BY DEF OpenFile
<1> QED BY <1>1 DEF FilesOK

\* Closing a file keeps its records.
LEMMA SameFiles ==
  ASSUME FilesOK, UNCHANGED files, stream' \in {0, stream}
  PROVE  FilesOK'
BY DEF FilesOK

\* The message at the head, once it is known not to be padding.
LEMMA HeadCall ==
  ASSUME IInv, Called, cpc \in {"holding", "read"}
  PROVE  /\ Head_.size \in Nat
         /\ Head_.type = "Populated" => Head_.call \in Calls /\ TypeOf[Head_.call] \in Types
         /\ Head_.type = "Populated" => TopicOf[Head_.call] \in Topics \cup {NoTopic}
         /\ Head_.type = "Populated" => ReadBack(Head_) = Head_.call
<1>1. HeadReady /\ lastUnfreedId \in Live
  BY DEF IInv, TypeOK, Clients, HeadReady, Live
<1>2. Head_ \in Allocation
  BY <1>1 DEF IInv, TypeOK, Head_, Live
<1>3. Head_.size \in Nat
  BY <1>2 DEF Allocation
<1>4. Head_.type = "Populated" => Head_.call \in Calls
  BY <1>1 DEF Called, Head_
<1> QED BY <1>1, <1>3, <1>4, ReadsCall
-----------------------------------------------------------------------------
(* Types.                                                                  *)

\* A number that four bits hold is held by them.
LEMMA SpanFacts ==
  ASSUME NEW n \in Nat, n < VariantSpan
  PROVE  \A i \in 1 .. n : i % VariantSpan = i
BY VariantAssumption

\* The variant of a topic, and the topics after it was added.
LEMMA VariantFacts ==
  ASSUME variant_dictionary \in [Types -> Seq(Topics)], NEW t \in Types,
         NEW topic \in Topics \cup {NoTopic}, AddTopic(t, topic)
  PROVE  /\ variant_dictionary' \in [Types -> Seq(Topics)]
         /\ \A u \in Types : u # t => variant_dictionary'[u] = variant_dictionary[u]
         /\ Len(variant_dictionary'[t]) >= Len(variant_dictionary[t])
         /\ Len(variant_dictionary[t]) \in Nat /\ Len(variant_dictionary'[t]) \in Nat
         /\ \A i \in 1 .. Len(variant_dictionary[t]) :
              variant_dictionary'[t][i] = variant_dictionary[t][i]
         /\ topic # NoTopic =>
              /\ Variant(t, topic) \in 1 .. Len(variant_dictionary'[t])
              /\ variant_dictionary'[t][Variant(t, topic)] = topic
         /\ \/ variant_dictionary'[t] = variant_dictionary[t]
            \/ /\ ~Known(t, topic)
               /\ variant_dictionary'[t] = Append(variant_dictionary[t], topic)
<1> DEFINE s == variant_dictionary[t]
<1>1. s \in Seq(Topics) /\ Len(s) \in Nat
  OBVIOUS
<1>2. CASE topic = NoTopic
  BY <1>1, <1>2 DEF AddTopic
<1>3. CASE topic # NoTopic /\ Known(t, topic)
  <2>1. variant_dictionary' = variant_dictionary
    BY <1>3 DEF AddTopic
  <2>2. \E i \in 1 .. Len(s) : s[i] = topic
    BY <1>3 DEF Known
  <2>3. Variant(t, topic) \in 1 .. Len(s) /\ s[Variant(t, topic)] = topic
    BY <1>3, <2>2 DEF Variant, PositionIn
  <2> QED BY <1>1, <2>1, <2>3
<1>4. CASE topic # NoTopic /\ ~Known(t, topic)
  <2>1. variant_dictionary' = [variant_dictionary EXCEPT ![t] = Append(s, topic)]
    BY <1>4 DEF AddTopic
  <2>2. topic \in Topics /\ Append(s, topic) \in Seq(Topics)
    BY <1>1, <1>4
  <2>3. variant_dictionary'[t] = Append(s, topic)
    BY <2>1
  <2>4. Variant(t, topic) = Len(s) + 1
    BY <1>4 DEF Variant
  <2>5. variant_dictionary' \in [Types -> Seq(Topics)]
    BY <2>1, <2>2
  <2>6. \A u \in Types : u # t => variant_dictionary'[u] = variant_dictionary[u]
    BY <2>1
  <2>7. /\ Len(variant_dictionary'[t]) = Len(s) + 1
        /\ \A i \in 1 .. Len(s) : variant_dictionary'[t][i] = s[i]
        /\ variant_dictionary'[t][Len(s) + 1] = topic
    BY <1>1, <2>2, <2>3
  <2> QED BY <1>1, <1>4, <2>3, <2>4, <2>5, <2>6, <2>7
<1> QED BY <1>2, <1>3, <1>4

ThreadOK ==
  /\ quit_thread \in BOOLEAN /\ app \in {"running", "joining", "deleted"}
  /\ tpc \in {"top", "poll", "open", "packet", "check", "metacb", "write", "cb", "split",
              "reopen", "dequeue", "notify", "close", "done", "gone", "abort"}
  /\ draining \in BOOLEAN

RestOK ==
  /\ outputdir \in Dirs /\ pathChanges \in 0 .. MaxPathChanges
  /\ dictionary \subseteq Types
  /\ variant_dictionary \in [Types -> Seq(Topics)]
  /\ current_file_size \in Nat
  /\ file_write_callback_ \in BOOLEAN /\ cosCallback \in BOOLEAN
  /\ spc \in {"none", "set", "setcos", "told", "reset"}
  /\ told \in Nat \X Nat /\ heard \subseteq Nat \X Nat
  /\ accepted \subseteq Calls /\ promised \subseteq accepted

LEMMA TypeParts == LogTypeOK <=> TypeOK /\ ThreadOK /\ FilesOK /\ RestOK
BY DEF LogTypeOK, ThreadOK, FilesOK, RestOK

\* Where the threads may be.
LEMMA ThreadInv ==
  ASSUME ThreadOK, [LogNext]_logVars
  PROVE  ThreadOK'
<1>1. CASE \E p \in Producers : SerializeCall(p) \/ SerializeStep(p) \/ SerializeReturn(p)
  <2>1. UNCHANGED threadVars
    BY <1>1 DEF SerializeCall, SerializeStep, SerializeReturn, loggerVars
  <2> QED BY <2>1 DEF ThreadOK, threadVars
<1>2. CASE LogTop \/ LogPollAgain \/ LogUnread \/ LogOpen \/ LogPadding
  BY <1>2 DEF ThreadOK, LogTop, LogPollAgain, LogUnread, LogOpen, LogPadding, Goto, LoopTop
<1>3. CASE PacketOpen \/ PacketDropped \/ PacketKnownType \/ PacketMetadata \/ MetadataCallback
  BY <1>3 DEF ThreadOK, PacketOpen, PacketDropped, PacketKnownType, PacketMetadata,
              MetadataCallback, Goto
<1>4. CASE PacketWrite \/ WriteAborts \/ PacketCallback \/ SplitClose \/ SplitOpen
  BY <1>4 DEF ThreadOK, PacketWrite, WriteAborts, PacketCallback, SplitClose, SplitOpen, Goto
<1>5. CASE LogDequeue \/ LogNotify \/ LogDrained \/ LogClose
  BY <1>5 DEF ThreadOK, LogDequeue, LogNotify, LogDrained, LogClose, Goto, LoopTop
<1>6. CASE AppStep
  BY <1>6 DEF ThreadOK, AppStep, SetLogPath, SetFileWriteCallback, ResetFileCallbacks,
              EndLogging, Join, threadVars
<1>7. CASE UNCHANGED logVars
  BY <1>7 DEF ThreadOK, logVars, loggerVars, threadVars
<1> QED BY <1>1, <1>2, <1>3, <1>4, <1>5, <1>6, <1>7 DEF LogNext, LoggerStep, AppStep

\* The place of the last record is a pair of numbers.
LEMMA LastWrittenType == FilesOK => LastWritten \in Nat \X Nat
<1> SUFFICES ASSUME FilesOK PROVE LastWritten \in Nat \X Nat
  OBVIOUS
<1>1. Len(files) \in Nat
  BY DEF FilesOK
<1>2. CASE files = << >>
  BY <1>1, <1>2 DEF LastWritten
<1>3. CASE files # << >>
  <2>1. files[Len(files)] \in Seq(Record)
    BY <1>3 DEF FilesOK
  <2>2. Len(files[Len(files)]) \in Nat
    BY <2>1
  <2> QED BY <1>1, <1>3, <2>2 DEF LastWritten
<1> QED BY <1>2, <1>3

\* The record that describes a type.
MetadataOf(t) == [kind |-> "metadata", type |-> t, call |-> NoCall, size |-> 0, variant |-> 0]

\* The record of the message at the head.
DataOf(t, topic) ==
  [kind |-> "data", type |-> t, call |-> ReadBack(Head_), size |-> Head_.size,
   variant |-> IF topic = NoTopic THEN 0 ELSE setVariant(Variant(t, topic))]

\* What serialize_metadata and processPacket write are records.
LEMMA MetadataRecord ==
  ASSUME IInv, Called, HeadHeld, PacketMetadata
  PROVE  /\ MetadataOf(TypeOf[Head_.call]) \in Record
         /\ Put(MetadataOf(TypeOf[Head_.call]))
         /\ TypeOf[Head_.call] \in Types
<1>1. TypeOf[Head_.call] \in Types
  BY HeadCall DEF PacketMetadata, HeadHeld, Goto
<1> QED BY <1>1 DEF MetadataOf, Record, PacketMetadata

LEMMA DataRecord ==
  ASSUME IInv, Called, HeadHeld, LogTypeOK, PacketWrite,
         NEW t, t = TypeOf[Head_.call], NEW topic, topic = TopicOf[Head_.call]
  PROVE  /\ DataOf(t, topic) \in Record /\ Put(DataOf(t, topic)) /\ AddTopic(t, topic)
         /\ t \in Types /\ topic \in Topics \cup {NoTopic} /\ Head_.call \in Calls
         /\ ReadBack(Head_) = Head_.call
<1>1. cpc \in {"holding", "read"} /\ Head_.type = "Populated"
  BY DEF PacketWrite, HeadHeld, Goto
<1>2. /\ t \in Types /\ topic \in Topics \cup {NoTopic} /\ Head_.call \in Calls
      /\ Head_.size \in Nat /\ ReadBack(Head_) = Head_.call
  BY <1>1, HeadCall
<1>3. AddTopic(t, topic) /\ Put(DataOf(t, topic))
  BY DEF PacketWrite, DataOf
<1>4. variant_dictionary \in [Types -> Seq(Topics)]
  BY DEF LogTypeOK
<1>5. topic # NoTopic => setVariant(Variant(t, topic)) \in Nat
  BY <1>2, <1>3, <1>4, VariantFacts, VariantAssumption DEF setVariant
<1> QED BY <1>2, <1>3, <1>5 DEF DataOf, Record

\* A step opens a file, adds a record, or leaves every record where it is.
LEMMA FileCases ==
  ASSUME [LogNext]_logVars
  PROVE  \/ UNCHANGED <<files, variant_dictionary>> /\ stream' \in {0, stream}
         \/ OpenFile \/ PacketMetadata \/ PacketWrite
<1>1. CASE \E p \in Producers : SerializeCall(p) \/ SerializeStep(p) \/ SerializeReturn(p)
  BY <1>1 DEF SerializeCall, SerializeStep, SerializeReturn, loggerVars, fileVars
<1>2. CASE LogTop \/ LogPollAgain \/ LogUnread \/ LogOpen \/ LogPadding
  BY <1>2 DEF LogTop, LogPollAgain, LogUnread, LogOpen, LogPadding, OpenFails, fileVars
<1>3. CASE PacketOpen \/ PacketDropped \/ PacketKnownType \/ MetadataCallback
  BY <1>3 DEF PacketOpen, PacketDropped, PacketKnownType, MetadataCallback, OpenFails, fileVars
<1>4. CASE WriteAborts \/ PacketCallback \/ SplitClose \/ SplitOpen
  BY <1>4 DEF WriteAborts, PacketCallback, SplitClose, SplitOpen, CloseFile, OpenFails, fileVars
<1>5. CASE LogDequeue \/ LogNotify \/ LogDrained \/ LogClose
  BY <1>5 DEF LogDequeue, LogNotify, LogDrained, LogClose, CloseFile, fileVars
<1>6. CASE AppStep
  BY <1>6 DEF AppStep, SetLogPath, SetFileWriteCallback, ResetFileCallbacks, EndLogging, Join,
              CloseFile, fileVars
<1>7. CASE UNCHANGED logVars
  BY <1>7 DEF logVars, loggerVars, fileVars
<1> QED BY <1>1, <1>2, <1>3, <1>4, <1>5, <1>6, <1>7 DEF LogNext, LoggerStep, AppStep

LEMMA FilesInv ==
  ASSUME IInv, Called, HeadHeld, LogTypeOK, [LogNext]_logVars
  PROVE  FilesOK'
<1>1. FilesOK
  BY TypeParts
<1>2. CASE UNCHANGED <<files, variant_dictionary>> /\ stream' \in {0, stream}
  BY <1>1, <1>2, SameFiles
<1>3. CASE OpenFile
  BY <1>1, <1>3, OpenFacts
<1>4. CASE PacketMetadata
  <2>1. stream' = stream
    BY <1>4 DEF PacketMetadata
  <2> QED BY <1>1, <1>4, <2>1, MetadataRecord, PutFacts
<1>5. CASE PacketWrite
  <2>1. stream' = stream
    BY <1>5 DEF PacketWrite
  <2>2. PICK t, topic : t = TypeOf[Head_.call] /\ topic = TopicOf[Head_.call]
    OBVIOUS
  <2> QED BY <1>1, <1>5, <2>1, <2>2, DataRecord, PutFacts
<1> QED BY <1>2, <1>3, <1>4, <1>5, FileCases

\* The callbacks are called with places, the counters are numbers, and a type is
\* one of those that are logged.
LEMMA RestInv ==
  ASSUME IInv, Called, HeadHeld, LogTypeOK, [LogNext]_logVars
  PROVE  RestOK'
<1> USE DEF RestOK
<1>1. RestOK /\ LastWritten \in Nat \X Nat
  BY TypeParts, LastWrittenType
<1>2. CASE UNCHANGED <<pathVars, fileVars, callbackVars, acceptVars>>
  BY <1>1, <1>2 DEF pathVars, fileVars, callbackVars, acceptVars
<1>3. ASSUME NEW p \in Producers, SerializeReturn(p) PROVE RestOK'
  <2>1. <<p, calls[p]>> \in Calls
    <3>1. calls[p] > 0 /\ calls[p] \in 0 .. MaxCalls
      BY <1>3 DEF IInv, TypeOK, Clients, SerializeReturn, Populate
    <3> QED BY <3>1 DEF Calls
  <2>2. accepted' \subseteq Calls /\ promised' \subseteq accepted'
    BY <1>1, <1>3, <2>1 DEF SerializeReturn
  <2> QED BY <1>1, <1>3, <2>2 DEF SerializeReturn, pathVars, fileVars, callbackVars
<1>4. ASSUME OpenFile, UNCHANGED <<pathVars, acceptVars>> PROVE RestOK'
  BY <1>1, <1>4 DEF OpenFile, pathVars, acceptVars
<1>5. ASSUME OpenFails \/ CloseFile, UNCHANGED <<pathVars, acceptVars>> PROVE RestOK'
  BY <1>1, <1>5 DEF OpenFails, CloseFile, pathVars, acceptVars, callbackVars
<1>6. CASE LogOpen \/ PacketOpen \/ PacketDropped \/ SplitClose \/ SplitOpen \/ LogClose
  BY <1>2, <1>4, <1>5, <1>6
     DEF LogOpen, PacketOpen, PacketDropped, SplitClose, SplitOpen, LogClose,
         pathVars, fileVars, callbackVars, acceptVars
<1>7. CASE PacketMetadata
  BY <1>1, <1>7 DEF PacketMetadata, pathVars, callbackVars, acceptVars
<1>8. CASE MetadataCallback
  <2>1. TypeOf[Head_.call] \in Types
    BY <1>8, HeadCall DEF MetadataCallback, HeadHeld, Goto
  <2>2. heard' \subseteq Nat \X Nat /\ dictionary' \subseteq Types
    BY <1>1, <1>8, <2>1 DEF MetadataCallback
  <2> QED BY <1>1, <1>8, <2>2 DEF MetadataCallback, pathVars, acceptVars
<1>9. CASE PacketWrite
  <2>1. PICK t, topic : t = TypeOf[Head_.call] /\ topic = TopicOf[Head_.call]
    OBVIOUS
  <2>2. variant_dictionary' \in [Types -> Seq(Topics)]
    BY <1>1, <1>9, <2>1, DataRecord, VariantFacts
  <2> QED BY <1>1, <1>9, <2>2 DEF PacketWrite, pathVars, callbackVars, acceptVars
<1>10. CASE PacketCallback
  <2>1. Head_.size \in Nat
    BY <1>10, HeadCall DEF PacketCallback, HeadHeld
  <2>2. heard' \subseteq Nat \X Nat /\ current_file_size' \in Nat
    BY <1>1, <1>10, <2>1 DEF PacketCallback
  <2> QED BY <1>1, <1>10, <2>2 DEF PacketCallback, pathVars, acceptVars
<1>11. ASSUME NEW d \in Dirs, SetLogPath(d) PROVE RestOK'
  <2>1. pathChanges' \in 0 .. MaxPathChanges
    BY <1>1, <1>11 DEF SetLogPath
  <2> QED BY <1>1, <1>11, <2>1 DEF SetLogPath, CloseFile, fileVars, callbackVars, acceptVars
<1>12. CASE SetFileWriteCallback
  BY <1>1, <1>12 DEF SetFileWriteCallback, Subscribe, pathVars, fileVars, acceptVars
<1>13. CASE ResetFileCallbacks
  BY <1>1, <1>13 DEF ResetFileCallbacks, pathVars, fileVars, acceptVars
<1>14. CASE EndLogging
  BY <1>1, <1>14 DEF EndLogging, pathVars, fileVars, callbackVars
<1>15. CASE \/ \E p \in Producers : SerializeCall(p) \/ SerializeStep(p)
            \/ LogTop \/ LogPollAgain \/ LogUnread \/ LogPadding \/ PacketKnownType \/ WriteAborts
            \/ LogDequeue \/ LogNotify \/ LogDrained \/ Join \/ UNCHANGED logVars
  BY <1>2, <1>15 DEF SerializeCall, SerializeStep, loggerVars, LogTop, LogPollAgain, LogUnread,
     LogPadding, PacketKnownType, WriteAborts, LogDequeue, LogNotify, LogDrained, Join, logVars
<1> QED BY <1>3, <1>6, <1>7, <1>8, <1>9, <1>10, <1>11, <1>12, <1>13, <1>14, <1>15
       DEF LogNext, LoggerStep

LEMMA LogTypeInv ==
  ASSUME IInv, Called, HeadHeld, LogTypeOK, [LogNext]_logVars, TypeOK'
  PROVE  LogTypeOK'
<1>1. ThreadOK' /\ FilesOK' /\ RestOK'
  BY TypeParts, ThreadInv, FilesInv, RestInv
<1> QED BY <1>1 DEF LogTypeOK, ThreadOK, FilesOK, RestOK
-----------------------------------------------------------------------------
(* The message the logger thread handles.                                  *)

LEMMA HeadHeldInv ==
  ASSUME IInv, HeadHeld, [LogNext]_logVars
  PROVE  HeadHeld'
<1>1. ASSUME NEW p \in Producers, SerializeCall(p) \/ SerializeStep(p) \/ SerializeReturn(p)
      PROVE  HeadHeld'
  <2>1. tpc' = tpc
    BY <1>1 DEF SerializeCall, SerializeStep, SerializeReturn, loggerVars, threadVars
  <2> QED BY <1>1, <2>1, HeadKept DEF HeadHeld
<1>2. ASSUME UNCHANGED <<vars, tpc>> PROVE HeadHeld'
  BY <1>2 DEF HeadHeld, vars, bufVars, consVars, Head_
<1>3. CASE AppStep \/ UNCHANGED logVars
  BY <1>2, <1>3 DEF AppStep, SetLogPath, SetFileWriteCallback, ResetFileCallbacks, EndLogging,
     Join, logVars, loggerVars, threadVars
<1>4. CASE \/ LogTop \/ LogPollAgain \/ LogPadding \/ PacketDropped \/ PacketCallback
           \/ SplitClose \/ SplitOpen \/ LogDequeue \/ LogNotify \/ LogDrained \/ LogClose
           \/ WriteAborts
  BY <1>4 DEF HeadHeld, LogTop, LogPollAgain, LogPadding, PacketDropped, PacketCallback, SplitClose,
     SplitOpen, LogDequeue, LogNotify, LogDrained, LogClose, WriteAborts, Goto, LoopTop
<1>5. CASE LogUnread
  BY <1>5 DEF HeadHeld, LogUnread, LastUnread, Goto
<1>6. CASE LogOpen
  BY <1>6 DEF HeadHeld, LogOpen, Goto, vars, consVars
<1>7. CASE PacketOpen
  BY <1>7 DEF HeadHeld, PacketOpen, Goto, vars, bufVars, consVars, Head_
<1>8. CASE PacketKnownType \/ PacketMetadata \/ MetadataCallback
  BY <1>8 DEF HeadHeld, PacketKnownType, PacketMetadata, MetadataCallback, Goto,
     vars, bufVars, consVars, Head_
<1>9. CASE PacketWrite
  BY <1>9 DEF HeadHeld, PacketWrite, ReadOut, Goto
<1> QED BY <1>1, <1>3, <1>4, <1>5, <1>6, <1>7, <1>8, <1>9 DEF LogNext, LoggerStep, AppStep
-----------------------------------------------------------------------------
(* The dictionary and the open file.                                       *)

\* A description stays where it was written.
LEMMA DescribedKept ==
  ASSUME FilesOK, NEW r \in Record, Put(r), stream' = stream, NEW t, Described(stream, t)
  PROVE  Described(stream, t)'
<1>1. PICK s : s = stream
  OBVIOUS
<1>2. PICK i \in 1 .. Len(files[s]) : files[s][i].kind = "metadata" /\ files[s][i].type = t
  BY <1>1 DEF Described
<1>3. /\ Len(files'[s]) = Len(files[s]) + 1 /\ Len(files[s]) \in Nat
      /\ files'[s][i] = files[s][i]
  BY <1>1, PutFacts
<1>4. i \in 1 .. Len(files'[s])
  BY <1>3
<1> QED BY <1>1, <1>2, <1>3, <1>4 DEF Described

LEMMA DictionaryInv ==
  ASSUME IInv, Called, HeadHeld, LogTypeOK, DictionaryFits, [LogNext]_logVars
  PROVE  DictionaryFits'
<1>0. FilesOK
  BY TypeParts
<1>1. ASSUME NEW p \in Producers, SerializeCall(p) \/ SerializeStep(p) \/ SerializeReturn(p)
      PROVE  DictionaryFits'
  <2>1. UNCHANGED <<tpc, stream, dictionary, files>>
    BY <1>1 DEF SerializeCall, SerializeStep, SerializeReturn, loggerVars, threadVars, fileVars
  <2>2. tpc \in {"metacb", "write"} => Head_'.call = Head_.call
    BY <1>1, HeadKept DEF HeadHeld
  <2> QED BY <2>1, <2>2 DEF DictionaryFits, Described
<1>2. ASSUME UNCHANGED <<vars, stream, dictionary, files>>,
             tpc' = tpc \/ tpc' \notin {"metacb", "write", "reopen", "abort"},
             tpc = tpc' \/ tpc \notin {"write", "abort"}
      PROVE  DictionaryFits'
  BY <1>2 DEF DictionaryFits, Described, vars, bufVars, Head_
<1>3. CASE \/ SetFileWriteCallback \/ ResetFileCallbacks \/ EndLogging \/ Join
           \/ UNCHANGED logVars \/ LogTop \/ LogPollAgain \/ LogPadding \/ LogDrained
  BY <1>2, <1>3 DEF SetFileWriteCallback, ResetFileCallbacks, EndLogging, Join, logVars, loggerVars,
     threadVars, fileVars, LogTop, LogPollAgain, LogPadding, LogDrained, Goto, LoopTop
<1>4. ASSUME OpenFile, stream = 0 \/ tpc = "reopen", tpc \notin {"write", "abort"},
             tpc' \notin {"metacb", "write", "reopen"}
      PROVE  DictionaryFits'
  <2>1. dictionary' = {} /\ stream' # 0
    BY <1>0, <1>4, OpenFacts DEF DictionaryFits, OpenFile
  <2> QED BY <1>4, <2>1 DEF DictionaryFits
<1>5. ASSUME stream' = 0, dictionary' = {} PROVE DictionaryFits'
  BY <1>5 DEF DictionaryFits
<1>6. ASSUME OpenFails, stream = 0 \/ tpc = "reopen", tpc \notin {"write", "abort"}
      PROVE  DictionaryFits'
  BY <1>5, <1>6 DEF DictionaryFits, OpenFails
<1>7. CASE LogOpen \/ PacketOpen
  BY <1>2, <1>4, <1>6, <1>7 DEF LogOpen, PacketOpen, fileVars, Goto
<1>8. CASE SplitOpen
  BY <1>4, <1>6, <1>8 DEF SplitOpen, Goto
<1>9. CASE SplitClose \/ LogClose
  BY <1>5, <1>9 DEF SplitClose, LogClose, CloseFile
<1>10. ASSUME NEW d \in Dirs, SetLogPath(d) PROVE DictionaryFits'
  <2>1. CASE stream # 0
    BY <1>5, <1>10, <2>1 DEF SetLogPath, CloseFile
  <2>2. CASE stream = 0
    BY <1>2, <1>10, <2>2 DEF SetLogPath, fileVars, threadVars
  <2> QED BY <2>1, <2>2
<1>11. CASE PacketDropped
  BY <1>11 DEF PacketDropped, OpenFails, ReadOut, Goto, fileVars, DictionaryFits, Described
<1>12. CASE LogUnread \/ LogDequeue \/ LogNotify \/ PacketCallback
  BY <1>12 DEF LogUnread, LogDequeue, LogNotify, PacketCallback, Goto, LoopTop, fileVars,
     DictionaryFits, Described
<1>13. CASE PacketKnownType
  BY <1>13 DEF PacketKnownType, Goto, fileVars, vars, bufVars, Head_, DictionaryFits, Described
<1>14. CASE WriteAborts
  BY <1>14 DEF WriteAborts, Goto, fileVars, DictionaryFits
<1>15. CASE PacketMetadata
  <2>1. PICK t, s : t = TypeOf[Head_.call] /\ s = stream
    OBVIOUS
  <2>2. /\ MetadataOf(t) \in Record /\ Put(MetadataOf(t)) /\ stream' = stream /\ stream # 0
        /\ dictionary' = dictionary /\ Head_' = Head_ /\ tpc' = "metacb"
    BY <1>15, <2>1, MetadataRecord DEF PacketMetadata, Put, Goto, vars, bufVars, Head_
  <2>3. \A u \in dictionary : Described(stream, u)'
    BY <1>0, <2>2, DescribedKept DEF DictionaryFits
  <2>4. /\ Len(files'[s]) = Len(files[s]) + 1 /\ Len(files[s]) \in Nat
        /\ files'[s][Len(files[s]) + 1] = MetadataOf(t)
    BY <1>0, <2>1, <2>2, PutFacts
  <2>5. Len(files[s]) + 1 \in 1 .. Len(files'[s])
    BY <2>4
  <2>6. \E i \in 1 .. Len(files'[s]) : files'[s][i].kind = "metadata" /\ files'[s][i].type = t
    BY <2>4, <2>5 DEF MetadataOf
  <2>7. Described(stream, TypeOf[Head_.call])'
    BY <2>1, <2>2, <2>6 DEF Described
  <2> QED BY <2>2, <2>3, <2>7 DEF DictionaryFits
<1>16. CASE MetadataCallback
  <2>1. /\ UNCHANGED <<stream, files>> /\ Head_' = Head_ /\ tpc = "metacb" /\ tpc' = "write"
        /\ dictionary' = dictionary \cup {TypeOf[Head_.call]}
    BY <1>16 DEF MetadataCallback, Goto, vars, bufVars, Head_
  <2> QED BY <2>1 DEF DictionaryFits, Described
<1>17. CASE PacketWrite
  <2>1. PICK t, topic : t = TypeOf[Head_.call] /\ topic = TopicOf[Head_.call]
    OBVIOUS
  <2>2. /\ DataOf(t, topic) \in Record /\ Put(DataOf(t, topic)) /\ stream' = stream /\ stream # 0
        /\ dictionary' = dictionary /\ tpc' = "cb"
    BY <1>17, <2>1, DataRecord DEF PacketWrite, Put, Goto
  <2>3. \A u \in dictionary : Described(stream, u)'
    BY <1>0, <2>2, DescribedKept DEF DictionaryFits
  <2> QED BY <2>2, <2>3 DEF DictionaryFits
<1> QED BY <1>1, <1>3, <1>7, <1>8, <1>9, <1>10, <1>11, <1>12, <1>13, <1>14, <1>15, <1>16, <1>17
       DEF LogNext, LoggerStep
-----------------------------------------------------------------------------
(* The records: each data record is described in its file, and numbered.   *)

LEMMA DataInv ==
  ASSUME IInv, Called, HeadHeld, LogTypeOK, DictionaryFits, DataDescribed, [LogNext]_logVars
  PROVE  DataDescribed'
<1>0. FilesOK
  BY TypeParts
<1>1. CASE UNCHANGED files
  BY <1>1 DEF DataDescribed
<1>2. CASE OpenFile
  <2>1. PICK n : n = Len(files)
    OBVIOUS
  <2>2. /\ Len(files') = n + 1 /\ n \in Nat /\ Len(files'[n + 1]) = 0
        /\ \A f \in 1 .. n : files'[f] = files[f]
    BY <1>0, <1>2, <2>1, OpenFacts
  <2>3. \A f \in 1 .. n + 1 : f \in 1 .. n \/ f = n + 1
    BY <2>2
  <2>4. ASSUME NEW f \in 1 .. Len(files'), NEW i \in 1 .. Len(files'[f]) PROVE f \in 1 .. n
    BY <2>2, <2>3
  <2>5. ASSUME NEW f \in 1 .. Len(files'), NEW i \in 1 .. Len(files'[f]), files'[f][i].kind = "data"
        PROVE  \E j \in 1 .. i - 1 : /\ files'[f][j].kind = "metadata"
                                     /\ files'[f][j].type = files'[f][i].type
    <3>1. f \in 1 .. Len(files) /\ files'[f] = files[f]
      BY <2>1, <2>2, <2>4
    <3>2. i \in 1 .. Len(files[f]) /\ files[f][i].kind = "data"
      BY <2>5, <3>1
    <3>3. PICK j \in 1 .. i - 1 : files[f][j].kind = "metadata" /\ files[f][j].type = files[f][i].type
      BY <3>1, <3>2 DEF DataDescribed
    <3> QED BY <3>1, <3>3
  <2> QED BY <2>5 DEF DataDescribed
<1>3. ASSUME NEW r \in Record, Put(r), stream' = stream,
             r.kind = "data" => Described(stream, r.type)
      PROVE  DataDescribed'
  <2>1. PICK s, n : s = stream /\ n = Len(files[s])
    OBVIOUS
  <2>2. /\ Len(files') = Len(files) /\ n \in Nat
        /\ \A f \in 1 .. Len(files) : f # s => files'[f] = files[f]
        /\ Len(files'[s]) = n + 1 /\ files'[s][n + 1] = r
        /\ \A i \in 1 .. n : files'[s][i] = files[s][i]
        /\ s \in 1 .. Len(files)
    BY <1>0, <1>3, <2>1, PutFacts
  <2> SUFFICES ASSUME NEW f \in 1 .. Len(files'), NEW i \in 1 .. Len(files'[f]),
                      files'[f][i].kind = "data"
               PROVE  \E j \in 1 .. i - 1 : /\ files'[f][j].kind = "metadata"
                                            /\ files'[f][j].type = files'[f][i].type
    BY DEF DataDescribed
  <2>3. CASE f # s
    <3>1. files'[f] = files[f] /\ f \in 1 .. Len(files)
      BY <2>2, <2>3
    <3>2. i \in 1 .. Len(files[f]) /\ files[f][i].kind = "data"
      BY <3>1
    <3>3. PICK j \in 1 .. i - 1 : files[f][j].kind = "metadata" /\ files[f][j].type = files[f][i].type
      BY <3>1, <3>2 DEF DataDescribed
    <3> QED BY <3>1, <3>3
  <2>4. CASE f = s /\ i \in 1 .. n
    <3>1. files[s][i].kind = "data" /\ files'[s][i] = files[s][i]
      BY <2>2, <2>4
    <3>2. PICK j \in 1 .. i - 1 : files[s][j].kind = "metadata" /\ files[s][j].type = files[s][i].type
      BY <2>1, <2>2, <2>4, <3>1 DEF DataDescribed
    <3>3. j \in 1 .. n
      BY <2>2, <2>4
    <3> QED BY <2>2, <2>4, <3>1, <3>2, <3>3
  <2>5. CASE f = s /\ i = n + 1
    <3>1. r.kind = "data" /\ files'[s][i] = r
      BY <2>2, <2>5
    <3>2. PICK j \in 1 .. n : files[s][j].kind = "metadata" /\ files[s][j].type = r.type
      BY <1>3, <2>1, <3>1 DEF Described
    <3>3. j \in 1 .. i - 1
      BY <2>2, <2>5
    <3> QED BY <2>2, <2>5, <3>1, <3>2, <3>3
  <2>6. f # s \/ i \in 1 .. n \/ i = n + 1
    BY <2>2
  <2> QED BY <2>3, <2>4, <2>5, <2>6
<1>4. CASE PacketMetadata
  <2>1. PICK t : t = TypeOf[Head_.call]
    OBVIOUS
  <2>2. MetadataOf(t) \in Record /\ Put(MetadataOf(t)) /\ stream' = stream
    BY <1>4, <2>1, MetadataRecord DEF PacketMetadata
  <2>3. MetadataOf(t).kind # "data"
    BY DEF MetadataOf
  <2> QED BY <1>3, <2>2, <2>3
<1>5. CASE PacketWrite
  <2>1. PICK t, topic : t = TypeOf[Head_.call] /\ topic = TopicOf[Head_.call]
    OBVIOUS
  <2>2. DataOf(t, topic) \in Record /\ Put(DataOf(t, topic)) /\ stream' = stream /\ stream # 0
    BY <1>5, <2>1, DataRecord DEF PacketWrite, Put
  <2>3. t \in dictionary /\ DataOf(t, topic).type = t
    BY <1>5, <2>1, <2>2 DEF PacketWrite, DictionaryFits, DataOf, Goto
  <2>4. Described(stream, t)
    BY <2>2, <2>3 DEF DictionaryFits
  <2> QED BY <1>3, <2>2, <2>3, <2>4
<1> QED BY <1>1, <1>2, <1>4, <1>5, FileCases

\* A number that was right stays right when topics are added.
LEMMA NumberedKept ==
  ASSUME variant_dictionary \in [Types -> Seq(Topics)], NEW t \in Types,
         NEW topic \in Topics \cup {NoTopic}, AddTopic(t, topic),
         NEW r \in Record, Numbered(r)
  PROVE  Numbered(r)'
<1>1. PICK u : u = r.type
  OBVIOUS
<1>2. u \in Types
  BY <1>1 DEF Record
<1>3. /\ Len(variant_dictionary'[u]) >= Len(variant_dictionary[u])
      /\ Len(variant_dictionary[u]) \in Nat /\ Len(variant_dictionary'[u]) \in Nat
      /\ \A i \in 1 .. Len(variant_dictionary[u]) : variant_dictionary'[u][i] = variant_dictionary[u][i]
  <2>1. CASE u = t
    BY <2>1, VariantFacts
  <2>2. CASE u # t
    <3>1. variant_dictionary'[u] = variant_dictionary[u] /\ variant_dictionary[u] \in Seq(Topics)
      BY <1>2, <2>2, VariantFacts
    <3> QED BY <3>1
  <2> QED BY <2>1, <2>2
<1>4. ASSUME NEW i \in 1 .. Len(variant_dictionary[u]) PROVE i \in 1 .. Len(variant_dictionary'[u])
  BY <1>3
<1> QED BY <1>1, <1>3, <1>4 DEF Numbered

\* Topics stay different: one is added only when it is not known.
LEMMA TopicsApart ==
  ASSUME variant_dictionary \in [Types -> Seq(Topics)], NEW t \in Types,
         NEW topic \in Topics \cup {NoTopic}, AddTopic(t, topic), TopicsNumbered
  PROVE  \A u \in Types : \A i, j \in 1 .. Len(variant_dictionary'[u]) :
           variant_dictionary'[u][i] = variant_dictionary'[u][j] => i = j
<1> SUFFICES ASSUME NEW u \in Types, NEW i \in 1 .. Len(variant_dictionary'[u]),
                    NEW j \in 1 .. Len(variant_dictionary'[u]),
                    variant_dictionary'[u][i] = variant_dictionary'[u][j]
             PROVE  i = j
  OBVIOUS
<1>1. CASE variant_dictionary'[u] = variant_dictionary[u]
  BY <1>1 DEF TopicsNumbered
<1>2. CASE variant_dictionary'[u] # variant_dictionary[u]
  <2>1. PICK s, n : s = variant_dictionary[u] /\ n = Len(s)
    OBVIOUS
  <2>2. u = t /\ ~Known(t, topic) /\ variant_dictionary'[u] = Append(s, topic)
    BY <1>2, <2>1, VariantFacts
  <2>3. s \in Seq(Topics) /\ n \in Nat
    BY <2>1
  <2>4. /\ Len(Append(s, topic)) = n + 1 /\ Append(s, topic)[n + 1] = topic
        /\ \A k \in 1 .. n : Append(s, topic)[k] = s[k] /\ s[k] # topic
    BY <2>1, <2>2, <2>3 DEF Known
  <2>5. /\ i \in 1 .. n \/ i = n + 1
        /\ j \in 1 .. n \/ j = n + 1
    BY <2>2, <2>3, <2>4
  <2>6. \A k, l \in 1 .. n : s[k] = s[l] => k = l
    BY <2>1 DEF TopicsNumbered
  <2> QED BY <2>2, <2>4, <2>5, <2>6
<1> QED BY <1>1, <1>2

LEMMA NumberedInv ==
  ASSUME IInv, Called, HeadHeld, LogTypeOK, TopicsNumbered, [LogNext]_logVars
  PROVE  TopicsNumbered'
<1>0. /\ FilesOK /\ variant_dictionary \in [Types -> Seq(Topics)]
      /\ \A f \in 1 .. Len(files) : files[f] \in Seq(Record)
  BY TypeParts DEF RestOK, FilesOK
<1>1. CASE UNCHANGED <<files, variant_dictionary>>
  <2>1. files' = files /\ variant_dictionary' = variant_dictionary
    BY <1>1
  <2>2. \A q : Numbered(q) => Numbered(q)'
    BY <2>1 DEF Numbered
  <2>3. ASSUME NEW f \in 1 .. Len(files'), NEW i \in 1 .. Len(files'[f]), files'[f][i].kind = "data",
               NEW q, q = files'[f][i]
        PROVE  Numbered(q)'
    <3>1. Numbered(q)
      BY <2>1, <2>3 DEF TopicsNumbered
    <3> QED BY <2>2, <3>1
  <2>4. \A u \in Types : \A i, j \in 1 .. Len(variant_dictionary'[u]) :
          variant_dictionary'[u][i] = variant_dictionary'[u][j] => i = j
    BY <2>1 DEF TopicsNumbered
  <2>10. ASSUME NEW f \in 1 .. Len(files'), NEW i \in 1 .. Len(files'[f]), files'[f][i].kind = "data"
         PROVE  Numbered(files[f][i])'
    <3>1. PICK q : q = files'[f][i]
      OBVIOUS
    <3>2. Numbered(q)'
      BY <2>3, <2>10, <3>1
    <3> QED BY <3>1, <3>2 DEF Numbered
  <2> QED BY <2>4, <2>10 DEF TopicsNumbered
<1>2. CASE OpenFile
  <2>1. PICK n : n = Len(files)
    OBVIOUS
  <2>2. /\ Len(files') = n + 1 /\ n \in Nat /\ Len(files'[n + 1]) = 0
        /\ \A f \in 1 .. n : files'[f] = files[f]
    BY <1>0, <1>2, <2>1, OpenFacts
  <2>3. \A f \in 1 .. n + 1 : f \in 1 .. n \/ f = n + 1
    BY <2>2
  <2>4. variant_dictionary' = variant_dictionary
    BY <1>2 DEF OpenFile
  <2>5. ASSUME NEW f \in 1 .. Len(files'), NEW i \in 1 .. Len(files'[f])
        PROVE  f \in 1 .. Len(files) /\ files'[f] = files[f]
    BY <2>1, <2>2, <2>3
  <2>6. ASSUME NEW f \in 1 .. Len(files'), NEW i \in 1 .. Len(files'[f]), files'[f][i].kind = "data",
               NEW q, q = files'[f][i]
        PROVE  Numbered(q)
    BY <2>5, <2>6 DEF TopicsNumbered
  <2>7. \A q : Numbered(q) => Numbered(q)'
    BY <2>4 DEF Numbered
  <2>8. \A u \in Types : \A i, j \in 1 .. Len(variant_dictionary'[u]) :
          variant_dictionary'[u][i] = variant_dictionary'[u][j] => i = j
    BY <2>4 DEF TopicsNumbered
  <2>9. ASSUME NEW f \in 1 .. Len(files'), NEW i \in 1 .. Len(files'[f]), files'[f][i].kind = "data",
               NEW q, q = files'[f][i]
        PROVE  Numbered(q)'
    BY <2>6, <2>7, <2>9
  <2>10. ASSUME NEW f \in 1 .. Len(files'), NEW i \in 1 .. Len(files'[f]), files'[f][i].kind = "data"
         PROVE  Numbered(files[f][i])'
    <3>1. PICK q : q = files'[f][i]
      OBVIOUS
    <3>2. Numbered(q)'
      BY <2>9, <2>10, <3>1
    <3> QED BY <3>1, <3>2 DEF Numbered
  <2> QED BY <2>8, <2>10 DEF TopicsNumbered
<1>3. ASSUME NEW r \in Record, Put(r), stream' = stream,
             r.kind = "data" => Numbered(r)',
             \A q \in Record : Numbered(q) => Numbered(q)',
             \A u \in Types : \A i, j \in 1 .. Len(variant_dictionary'[u]) :
               variant_dictionary'[u][i] = variant_dictionary'[u][j] => i = j
      PROVE  TopicsNumbered'
  <2>1. PICK s, n : s = stream /\ n = Len(files[s])
    OBVIOUS
  <2>2. /\ Len(files') = Len(files) /\ n \in Nat
        /\ \A f \in 1 .. Len(files) : f # s => files'[f] = files[f]
        /\ Len(files'[s]) = n + 1 /\ files'[s][n + 1] = r
        /\ \A i \in 1 .. n : files'[s][i] = files[s][i]
        /\ s \in 1 .. Len(files)
    BY <1>0, <1>3, <2>1, PutFacts
  <2>3. ASSUME NEW f \in 1 .. Len(files'), NEW i \in 1 .. Len(files'[f]), files'[f][i].kind = "data",
               NEW q, q = files'[f][i]
        PROVE  Numbered(q)'
    <3>1. CASE f = s /\ i = n + 1
      <4>1. q = r
        BY <2>2, <2>3, <3>1
      <4> QED BY <1>3, <2>3, <4>1
    <3>2. CASE f # s \/ i \in 1 .. n
      <4>1. f \in 1 .. Len(files) /\ i \in 1 .. Len(files[f]) /\ q = files[f][i]
        BY <2>1, <2>2, <2>3, <3>2
      <4>2. q \in Record /\ Numbered(q)
        BY <1>0, <2>3, <4>1 DEF TopicsNumbered
      <4> QED BY <1>3, <4>2
    <3> QED BY <2>2, <3>1, <3>2
  <2>10. ASSUME NEW f \in 1 .. Len(files'), NEW i \in 1 .. Len(files'[f]), files'[f][i].kind = "data"
         PROVE  Numbered(files[f][i])'
    <3>1. PICK q : q = files'[f][i]
      OBVIOUS
    <3>2. Numbered(q)'
      BY <2>3, <2>10, <3>1
    <3> QED BY <3>1, <3>2 DEF Numbered
  <2> QED BY <1>3, <2>10 DEF TopicsNumbered
<1>4. CASE PacketMetadata
  <2>1. PICK t : t = TypeOf[Head_.call]
    OBVIOUS
  <2>2. /\ MetadataOf(t) \in Record /\ Put(MetadataOf(t)) /\ stream' = stream
        /\ variant_dictionary' = variant_dictionary
    BY <1>4, <2>1, MetadataRecord DEF PacketMetadata
  <2>3. MetadataOf(t).kind # "data"
    BY DEF MetadataOf
  <2>4. \A q \in Record : Numbered(q) => Numbered(q)'
    BY <2>2 DEF Numbered
  <2> QED BY <1>3, <2>2, <2>3, <2>4 DEF TopicsNumbered
<1>5. CASE PacketWrite
  <2>1. PICK t, topic, c : t = TypeOf[Head_.call] /\ topic = TopicOf[Head_.call] /\ c = Head_.call
    OBVIOUS
  <2>2. /\ DataOf(t, topic) \in Record /\ Put(DataOf(t, topic)) /\ stream' = stream
        /\ AddTopic(t, topic) /\ t \in Types /\ topic \in Topics \cup {NoTopic}
        /\ c \in Calls /\ ReadBack(Head_) = c
    BY <1>5, <2>1, DataRecord DEF PacketWrite
  <2>3. PICK r : r = DataOf(t, topic)
    OBVIOUS
  <2>4. /\ r.call = c /\ r.type = t /\ t = TypeOf[c] /\ topic = TopicOf[c]
        /\ r.variant = IF topic = NoTopic THEN 0 ELSE setVariant(Variant(t, topic))
    BY <2>1, <2>2, <2>3 DEF DataOf
  <2>5. topic # NoTopic => /\ Variant(t, topic) \in 1 .. Len(variant_dictionary'[t])
                           /\ variant_dictionary'[t][Variant(t, topic)] = topic
    BY <1>0, <2>2, VariantFacts
  <2>6. PICK vd : vd = variant_dictionary'
    OBVIOUS
  <2>7. Numbered(r)'
    BY <2>2, <2>4, <2>5 DEF Numbered
  <2>8. \A q \in Record : Numbered(q) => Numbered(q)'
    BY <1>0, <2>2, NumberedKept
  <2>9. \A u \in Types : \A i, j \in 1 .. Len(variant_dictionary'[u]) :
          variant_dictionary'[u][i] = variant_dictionary'[u][j] => i = j
    BY <1>0, <2>2, TopicsApart
  <2> QED BY <1>3, <2>2, <2>3, <2>7, <2>8, <2>9
<1> QED BY <1>1, <1>2, <1>4, <1>5, FileCases
-----------------------------------------------------------------------------
(* The theorems.                                                           *)

\* Nothing is logged at first.
LEMMA LogInitInv == LogInit => LogIInv
<1> SUFFICES ASSUME LogInit PROVE LogIInv
  OBVIOUS
<1>1. IInv
  BY InitInv DEF LogInit
<1>2. FilesOK
  BY DEF LogInit, FilesOK
<1>3. ThreadOK
  BY DEF LogInit, ThreadOK
<1>4. RestOK
  <2>1. << >> \in Seq(Topics) /\ << 0, 0 >> \in Nat \X Nat
    OBVIOUS
  <2>2. variant_dictionary \in [Types -> Seq(Topics)]
    BY <2>1 DEF LogInit
  <2>3. /\ outputdir \in Dirs /\ pathChanges \in 0 .. MaxPathChanges
        /\ dictionary \subseteq Types /\ current_file_size \in Nat
    BY DEF LogInit
  <2>4. /\ file_write_callback_ \in BOOLEAN /\ cosCallback \in BOOLEAN
        /\ spc \in {"none", "set", "setcos", "told", "reset"}
        /\ told \in Nat \X Nat /\ heard \subseteq Nat \X Nat
        /\ accepted \subseteq Calls /\ promised \subseteq accepted
    BY <2>1 DEF LogInit
  <2> QED BY <2>2, <2>3, <2>4 DEF RestOK
<1>5. LogTypeOK
  BY <1>1, <1>2, <1>3, <1>4, TypeParts DEF IInv
<1>6. Called
  BY DEF LogInit, Init, Called, Live
<1>7. HeadHeld /\ DictionaryFits
  BY DEF LogInit, HeadHeld, DictionaryFits
<1>8. Len(files) = 0 /\ 1 .. 0 = {} /\ \A t \in Types : Len(variant_dictionary[t]) = 0
  BY DEF LogInit
<1>9. DataDescribed
  BY <1>8 DEF DataDescribed
<1>10. TopicsNumbered
  BY <1>8 DEF TopicsNumbered
<1> QED BY <1>1, <1>5, <1>6, <1>7, <1>9, <1>10 DEF LogIInv

\* Every step keeps the invariant.
LEMMA LogStepInv == LogIInv /\ [LogNext]_logVars => LogIInv'
<1> SUFFICES ASSUME LogIInv, [LogNext]_logVars PROVE LogIInv'
  OBVIOUS
<1>1. /\ IInv /\ LogTypeOK /\ Called /\ HeadHeld
      /\ DictionaryFits /\ DataDescribed /\ TopicsNumbered
  BY DEF LogIInv
<1>2. [Next]_vars
  BY BufferStep
<1>3. IInv' /\ TypeOK'
  BY <1>1, <1>2, StepInv DEF IInv
<1>4. LogTypeOK'
  BY <1>1, <1>3, LogTypeInv
<1>5. Called'
  BY <1>1, <1>2, CalledInv
<1>6. HeadHeld'
  BY <1>1, HeadHeldInv
<1>7. DictionaryFits'
  BY <1>1, DictionaryInv
<1>8. DataDescribed'
  BY <1>1, DataInv
<1>9. TopicsNumbered'
  BY <1>1, NumberedInv
<1> QED BY <1>3, <1>4, <1>5, <1>6, <1>7, <1>8, <1>9 DEF LogIInv

\* LogIInv is inductive: it holds of every state of the logger.
THEOREM LogInductive == LogSpec => []LogIInv
BY LogInitInv, LogStepInv, PTL DEF LogSpec

\* A place is a file and a position in it.
LEMMA PlaceParts ==
  ASSUME NEW a \in DataPlaces
  PROVE  /\ a[1] \in 1 .. Len(files) /\ a[2] \in 1 .. Len(files[a[1]])
         /\ At(a) = files[a[1]][a[2]] /\ At(a).kind = "data"
<1>1. PICK f \in 1 .. Len(files) : a \in {f} \X (1 .. Len(files[f]))
  BY DEF DataPlaces, Places
<1>2. a[1] = f /\ a[2] \in 1 .. Len(files[f])
  BY <1>1
<1> QED BY <1>2 DEF DataPlaces, At

\* Every file describes the messages in it: the dictionary the logger thread tests
\* is that of the file it writes to, though another thread may close that file
\* between the test, the description and the write.
THEOREM FilesSelfDescribing == LogSpec => []SelfDescribing
<1>1. LogIInv => SelfDescribing
  <2> SUFFICES ASSUME LogIInv, NEW a \in DataPlaces
               PROVE  \E i \in 1 .. a[2] - 1 : LET m == files[a[1]][i] IN
                        m.kind = "metadata" /\ m.type = At(a).type
    BY DEF SelfDescribing
  <2>1. PICK f, i : f = a[1] /\ i = a[2]
    OBVIOUS
  <2>2. /\ f \in 1 .. Len(files) /\ i \in 1 .. Len(files[f])
        /\ At(a) = files[f][i] /\ files[f][i].kind = "data"
    BY <2>1, PlaceParts
  <2>3. DataDescribed
    BY DEF LogIInv
  <2>4. PICK j \in 1 .. i - 1 : files[f][j].kind = "metadata" /\ files[f][j].type = files[f][i].type
    BY <2>2, <2>3 DEF DataDescribed
  <2>5. files[f][j].type = At(a).type
    BY <2>2, <2>4
  <2> QED BY <2>1, <2>4, <2>5
<1> QED BY <1>1, LogInductive, PTL

\* Messages of a type carry the same variant when they have the same topic, and
\* different ones when they have not and topics are few enough: variant_dictionary
\* outlives the files and never numbers a topic twice.
THEOREM VariantsConsistent == LogSpec => []VariantsAgree
<1>1. LogIInv => VariantsAgree
  <2> SUFFICES ASSUME LogIInv, NEW a \in DataPlaces, NEW b \in DataPlaces, At(a).type = At(b).type
               PROVE  /\ TopicOf[At(a).call] = TopicOf[At(b).call] => At(a).variant = At(b).variant
                      /\ At(a).variant = At(b).variant =>
                           \/ TopicOf[At(a).call] = TopicOf[At(b).call]
                           \/ Len(variant_dictionary[At(a).type]) >= VariantSpan
    BY DEF VariantsAgree
  <2>1. PICK q, r : q = At(a) /\ r = At(b)
    OBVIOUS
  <2>2. Numbered(q) /\ Numbered(r) /\ q.type = r.type
    BY <2>1, PlaceParts, SMTT(30) DEF LogIInv, TopicsNumbered
  <2>3. PICK t, v, c, d : t = q.type /\ v = variant_dictionary[t] /\ c = q.call /\ d = r.call
    OBVIOUS
  <2>4. v \in Seq(Topics) /\ \A i, j \in 1 .. Len(v) : v[i] = v[j] => i = j
    <3>1. t \in Types
      BY <2>2, <2>3, TypeOfAssumption DEF Numbered
    <3> QED BY <2>3, <3>1 DEF LogIInv, TopicsNumbered, LogTypeOK
  <2>5. /\ TopicOf[c] = NoTopic => q.variant = 0
        /\ TopicOf[c] # NoTopic =>
             \E i \in 1 .. Len(v) : v[i] = TopicOf[c] /\ q.variant = setVariant(i)
    BY <2>2, <2>3 DEF Numbered
  <2>6. /\ TopicOf[d] = NoTopic => r.variant = 0
        /\ TopicOf[d] # NoTopic =>
             \E i \in 1 .. Len(v) : v[i] = TopicOf[d] /\ r.variant = setVariant(i)
    <3>1. r.type = t
      BY <2>2, <2>3
    <3> QED BY <2>2, <2>3, <3>1 DEF Numbered
  <2>7. TopicOf[c] = TopicOf[d] => q.variant = r.variant
    BY <2>4, <2>5, <2>6
  <2>8. Len(v) < VariantSpan => \A i \in 1 .. Len(v) : setVariant(i) = i /\ i # 0
    BY <2>4, SpanFacts DEF setVariant
  <2>9. Len(v) < VariantSpan /\ q.variant = r.variant => TopicOf[c] = TopicOf[d]
    BY <2>4, <2>5, <2>6, <2>8
  <2> QED BY <2>1, <2>3, <2>4, <2>7, <2>9, VariantAssumption
<1> QED BY <1>1, LogInductive, PTL

\* The logger's fields stay in their types.
THEOREM LogTypeCorrect == LogSpec => []LogTypeOK
BY LogInductive, PTL DEF LogIInv
=============================================================================
