------------------------ MODULE ULogger_history_proofs ------------------------
(***************************************************************************)
(* What becomes of each call that is logged: it is in the buffer or in the *)
(* files, once, in order, whatever else the logger does meanwhile; a       *)
(* subscriber is told of every record after the place it was given; and    *)
(* no file grows past the limit.  For all sets of threads, calls, types,   *)
(* topics and directories.                                                 *)
(***************************************************************************)
EXTENDS ULogger_proofs, NatSets
-----------------------------------------------------------------------------
(* Places of records.                                                      *)

LEMMA PlaceFacts ==
  ASSUME FilesOK
  PROVE  /\ \A a : a \in Places <=> \E f \in 1 .. Len(files) : \E i \in 1 .. Len(files[f]) : a = <<f, i>>
         /\ \A f \in 1 .. Len(files) : \A i \in 1 .. Len(files[f]) :
              /\ <<f, i>> \in Places /\ At(<<f, i>>) = files[f][i]
              /\ <<f, i>> \in DataPlaces <=> files[f][i].kind = "data"
         /\ \A a \in Places : a \in Nat \X Nat /\ At(a) \in Record
<1>1. \A a : a \in Places <=> \E f \in 1 .. Len(files) : \E i \in 1 .. Len(files[f]) : a = <<f, i>>
  BY DEF Places
<1>2. \A f \in 1 .. Len(files) : \A i \in 1 .. Len(files[f]) :
        /\ <<f, i>> \in Places /\ At(<<f, i>>) = files[f][i]
        /\ <<f, i>> \in DataPlaces <=> files[f][i].kind = "data"
  BY <1>1 DEF At, DataPlaces
<1>3. ASSUME NEW a \in Places PROVE a \in Nat \X Nat /\ At(a) \in Record
  <2>1. PICK f \in 1 .. Len(files) : \E i \in 1 .. Len(files[f]) : a = <<f, i>>
    BY <1>1
  <2>0. PICK i \in 1 .. Len(files[f]) : a = <<f, i>>
    BY <2>1
  <2>2. f \in Nat /\ files[f] \in Seq(Record)
    BY DEF FilesOK
  <2>3. i \in Nat /\ files[f][i] \in Record
    BY <2>2
  <2> QED BY <2>0, <2>2, <2>3 DEF At
<1> QED BY <1>1, <1>2, <1>3

\* One more record is in the place LastWritten names, after all others.
LEMMA PutPlaces ==
  ASSUME FilesOK, NEW r \in Record, Put(r), stream' = stream
  PROVE  /\ LastWritten' = <<stream, Len(files[stream]) + 1>>
         /\ Places' = Places \cup {LastWritten'} /\ LastWritten' \notin Places
         /\ \A a \in Places : At(a)' = At(a) /\ Before(a, LastWritten')
         /\ files'[stream][Len(files[stream]) + 1] = r
         /\ DataPlaces' = IF r.kind = "data" THEN DataPlaces \cup {LastWritten'} ELSE DataPlaces
<1>1. PICK s, n : s = stream /\ n = Len(files[s])
  OBVIOUS
<1>2. /\ FilesOK' /\ Len(files') = Len(files) /\ s \in 1 .. Len(files) /\ n \in Nat
      /\ \A f \in 1 .. Len(files) : f # s => files'[f] = files[f]
      /\ Len(files'[s]) = n + 1 /\ files'[s][n + 1] = r
      /\ \A i \in 1 .. n : files'[s][i] = files[s][i]
  BY <1>1, PutFacts
<1>3. s = Len(files) /\ Len(files) \in Nat
  BY <1>1, <1>2 DEF FilesOK
<1>4. LastWritten' = <<s, n + 1>>
  <2>1. files' # << >>
    BY <1>2, <1>3
  <2> QED BY <1>2, <1>3, <2>1 DEF LastWritten
<1>5. \A a : a \in Places <=> \E f \in 1 .. Len(files) : \E i \in 1 .. Len(files[f]) : a = <<f, i>>
  BY PlaceFacts
<1>6. \A a : a \in Places' <=> \E f \in 1 .. Len(files') : \E i \in 1 .. Len(files'[f]) : a = <<f, i>>
  BY <1>2 DEF Places
<1>7. Places' = Places \cup {<<s, n + 1>>} /\ <<s, n + 1>> \notin Places
  <2>1. ASSUME NEW f \in 1 .. Len(files), NEW i
        PROVE  i \in 1 .. Len(files'[f]) <=> i \in 1 .. Len(files[f]) \/ (f = s /\ i = n + 1)
    BY <1>1, <1>2
  <2>2. n + 1 \notin 1 .. n /\ n + 1 \in 1 .. n + 1
    BY <1>2
  <2>3. ASSUME NEW f \in 1 .. Len(files), NEW i
        PROVE  <<f, i>> \in Places' <=> <<f, i>> \in Places \/ <<f, i>> = <<s, n + 1>>
    BY <1>2, <1>5, <1>6, <2>1, <2>3
  <2>4. <<s, n + 1>> \in Places' /\ <<s, n + 1>> \notin Places
    BY <1>1, <1>2, <1>5, <1>6, <2>2
  <2>5. ASSUME NEW a PROVE a \in Places' <=> a \in Places \/ a = <<s, n + 1>>
    <3>1. CASE \E f \in 1 .. Len(files) : \E i : a = <<f, i>>
      BY <2>3, <3>1
    <3>2. CASE ~\E f \in 1 .. Len(files) : \E i : a = <<f, i>>
      BY <1>2, <1>5, <1>6, <3>2
    <3> QED BY <3>1, <3>2
  <2> QED BY <2>4, <2>5
<1>8. ASSUME NEW a \in Places PROVE At(a)' = At(a) /\ Before(a, <<s, n + 1>>)
  <2>0. PICK f \in 1 .. Len(files) : \E i \in 1 .. Len(files[f]) : a = <<f, i>>
    BY <1>5
  <2>1. PICK i \in 1 .. Len(files[f]) : a = <<f, i>>
    BY <2>0
  <2>2. files'[f][i] = files[f][i]
    BY <1>1, <1>2, <2>1
  <2>3. f < s \/ (f = s /\ i < n + 1)
    BY <1>1, <1>2, <1>3
  <2> QED BY <2>1, <2>2, <2>3 DEF At, Before
<1>9. At(<<s, n + 1>>)' = r
  BY <1>2 DEF At
<1>10. DataPlaces' = IF r.kind = "data" THEN DataPlaces \cup {<<s, n + 1>>} ELSE DataPlaces
  <2>1. DataPlaces' = {a \in Places' : At(a)'.kind = "data"}
    BY DEF DataPlaces
  <2> QED BY <1>7, <1>8, <1>9, <2>1 DEF DataPlaces
<1> QED BY <1>1, <1>2, <1>4, <1>7, <1>8, <1>10

\* Opening a file adds no record.
LEMMA SamePlaces ==
  ASSUME FilesOK, OpenFile \/ UNCHANGED files
  PROVE  /\ Places' = Places /\ DataPlaces' = DataPlaces
         /\ \A a \in Places : At(a)' = At(a)
<1>1. CASE UNCHANGED files
  BY <1>1 DEF Places, DataPlaces, At
<1>2. CASE OpenFile
  <2>1. PICK n : n = Len(files)
    OBVIOUS
  <2>2. /\ FilesOK' /\ Len(files') = n + 1 /\ n \in Nat /\ Len(files'[n + 1]) = 0
        /\ \A f \in 1 .. n : files'[f] = files[f]
    BY <1>2, <2>1, OpenFacts
  <2>3. \A a : a \in Places <=> \E f \in 1 .. n : \E i \in 1 .. Len(files[f]) : a = <<f, i>>
    BY <2>1, PlaceFacts
  <2>4. \A a : a \in Places' <=> \E f \in 1 .. n + 1 : \E i \in 1 .. Len(files'[f]) : a = <<f, i>>
    BY <2>2 DEF Places
  <2>5. \A f \in 1 .. n + 1 : \A i \in 1 .. Len(files'[f]) : f \in 1 .. n
    BY <2>2
  <2>6. Places' = Places
    <3>1. ASSUME NEW a PROVE a \in Places' <=> a \in Places
      BY <2>2, <2>3, <2>4, <2>5
    <3> QED BY <3>1
  <2>7. ASSUME NEW a \in Places PROVE At(a)' = At(a)
    <3>0. PICK f \in 1 .. n : \E i \in 1 .. Len(files[f]) : a = <<f, i>>
      BY <2>3
    <3>1. PICK i \in 1 .. Len(files[f]) : a = <<f, i>>
      BY <3>0
    <3> QED BY <2>2, <3>1 DEF At
  <2>8. DataPlaces' = {a \in Places' : At(a)'.kind = "data"}
    BY DEF DataPlaces
  <2> QED BY <2>6, <2>7, <2>8 DEF DataPlaces
<1> QED BY <1>1, <1>2
-----------------------------------------------------------------------------
(* Sizes of files.                                                         *)

Sizes(file) == [i \in 1 .. Len(file) |-> file[i].size]

\* BytesUpTo is what its definition says.
LEMMA BytesFacts ==
  ASSUME NEW file \in Seq(Record)
  PROVE  IsSum(BytesUpTo(file), Sizes(file), Len(file))
<1>1. ASSUME NEW i \in 1 .. Len(file) PROVE Sizes(file)[i] \in Nat
  <2>1. file[i] \in Record
    OBVIOUS
  <2> QED BY <2>1 DEF Sizes, Record
<1>2. Len(file) \in Nat
  OBVIOUS
<1>3. PICK g : IsSum(g, Sizes(file), Len(file))
  BY <1>1, <1>2, SumExists
<1> DEFINE Sum(h) == [n \in 0 .. Len(file) |-> IF n = 0 THEN 0 ELSE h[n - 1] + file[n].size]
<1>4. g = Sum(g)
  BY <1>3 DEF IsSum, Sizes
<1>5. BytesUpTo(file) = CHOOSE h : h = Sum(h)
  BY DEF BytesUpTo
<1>6. BytesUpTo(file) = Sum(BytesUpTo(file))
  BY <1>4, <1>5
<1> QED BY <1>6
-----------------------------------------------------------------------------
(* What becomes of the allocations.                                        *)

\* Allocations leave the buffer, or lose nothing but their Empty mark.
HeldShrinks ==
  /\ Held' \subseteq Held
  /\ \A i \in Held' : /\ allocations'[i].call = allocations[i].call
                      /\ allocations[i].type = "Populated" => allocations'[i].type = "Populated"
  /\ \A p \in Producers : Reserved(p)' = Reserved(p)

\* A reservation is the youngest, and its producer's next.
LEMMA ReserveHeld ==
  ASSUME IInv, NEW p \in Producers, AllocReserve(p), NEW k, k = allocationId
  PROVE  /\ Held' = Held \cup {k}
         /\ \A i \in Held : i \in Nat /\ i < k /\ k \in Nat /\ allocations'[i] = allocations[i]
         /\ allocations'[k].call = <<p, calls[p]>>
         /\ calls[p] \in Nat /\ Reserved(p)' = calls[p] /\ Reserved(p) = calls[p] - 1
         /\ \A q \in Producers : q # p => Reserved(q)' = Reserved(q)
<1>1. /\ allocations' = Insert(allocations, k,
           [size |-> want[p], begin |-> m_write, type |-> "Empty", call |-> <<p, calls[p]>>])
      /\ cpc' = cpc /\ lastUnfreedId' = lastUnfreedId
  BY DEF AllocReserve, consVars
<1>2. k \in Nat /\ (cpc = "read" => k # lastUnfreedId) /\ \A i \in Live : i \in Nat /\ i < k
  BY DEF IInv, TypeOK, Live, Clients, HeadReady
<1>3. k \notin Live
  BY <1>2
<1>4. /\ Live' = Live \cup {k}
      /\ \A i \in Live : allocations'[i] = allocations[i]
      /\ allocations'[k].type = "Empty" /\ allocations'[k].call = <<p, calls[p]>>
  BY <1>1, <1>3 DEF Insert, Live
<1>5. Held' = Held \cup {k} /\ Held \subseteq Live
  BY <1>1, <1>2, <1>3, <1>4 DEF Held
<1>6. /\ calls[p] \in Nat /\ Reserved(p)' = calls[p] /\ Reserved(p) = calls[p] - 1
      /\ \A q \in Producers : q # p => Reserved(q)' = Reserved(q)
  BY DEF AllocReserve, Reserved, IInv, TypeOK
<1> QED BY <1>2, <1>4, <1>5, <1>6

LEMMA SameHeld ==
  ASSUME UNCHANGED <<allocations, lastUnfreedId>>, cpc' = "read" <=> cpc = "read",
         \A p \in Producers : Reserved(p)' = Reserved(p)
  PROVE  HeldShrinks
BY DEF HeldShrinks, Held, Live

\* What a producer does to them.
LEMMA ProducerHeld ==
  ASSUME IInv, NEW p \in Producers, SerializeCall(p) \/ SerializeStep(p) \/ SerializeReturn(p)
  PROVE  AllocReserve(p) \/ (HeldShrinks /\ Held' = Held)
<1> USE DEF IInv, TypeOK
<1>1. ASSUME NEW n \in MsgSizes, StartAlloc(p, n) PROVE HeldShrinks /\ Held' = Held
  <2>1. \A q \in Producers : Reserved(q)' = Reserved(q)
    BY <1>1 DEF StartAlloc, Reserved
  <2> QED BY <1>1, <2>1, SameHeld DEF StartAlloc, bufVars, consVars, Held, Live
<1>2. CASE AllocWait(p) \/ SpuriousWake(p) \/ Fill(p) \/ Abandon(p)
  <2>1. \A q \in Producers : Reserved(q)' = Reserved(q)
    BY <1>2 DEF AllocWait, SpuriousWake, WakeProducer, freeWaiters, Fill, Abandon, Reserved
  <2> QED BY <1>2, <2>1, SameHeld DEF AllocWait, SpuriousWake, Fill, Abandon, bufVars, consVars,
             Held, Live
<1>3. CASE AllocDummy(p)
  <2>1. PICK k : k = allocationId
    OBVIOUS
  <2>2. k \notin Live
    BY <2>1 DEF Live
  <2>3. /\ allocations' = Insert(allocations, k,
             [size |-> Size - m_write, begin |-> m_write, type |-> "Dummy", call |-> Blank])
        /\ UNCHANGED <<cpc, lastUnfreedId, pc, calls>>
    BY <1>3, <2>1 DEF AllocDummy, consVars, prodVars
  <2>4. /\ Live' = Live \cup {k} /\ allocations'[k].type = "Dummy"
        /\ \A i \in Live : allocations'[i] = allocations[i]
    BY <2>2, <2>3 DEF Insert, Live
  <2>5. Held' = Held /\ Held \subseteq Live
    BY <2>2, <2>3, <2>4 DEF Held
  <2>6. \A q \in Producers : Reserved(q)' = Reserved(q)
    BY <2>3 DEF Reserved
  <2> QED BY <2>4, <2>5, <2>6 DEF HeldShrinks
<1>4. CASE Populate(p)
  <2>1. PICK h : h = handle[p]
    OBVIOUS
  <2>2. /\ h \in Live /\ allocations' = [allocations EXCEPT ![h].type = "Populated"]
        /\ allocations[h].type # "Dummy"
        /\ lastUnfreedId' = lastUnfreedId /\ (cpc' = "read" <=> cpc = "read")
    BY <1>4, <2>1 DEF Populate, Mark, HandleOwned
  <2>3. \A i \in Live : allocations[i] \in Allocation
    BY DEF Live
  <2>4. /\ Live' = Live
        /\ \A i \in Live : /\ allocations'[i].call = allocations[i].call
                           /\ i # h => allocations'[i].type = allocations[i].type
        /\ allocations'[h].type = "Populated"
    BY <2>2, <2>3 DEF Live, Allocation
  <2>5. Held' = Held /\ Held \subseteq Live
    BY <2>2, <2>4 DEF Held
  <2>6. \A q \in Producers : Reserved(q)' = Reserved(q)
    BY <1>4 DEF Populate, Reserved
  <2> QED BY <2>4, <2>5, <2>6 DEF HeldShrinks
<1> QED BY <1>1, <1>2, <1>3, <1>4 DEF SerializeCall, SerializeStep, SerializeReturn

\* What the logger thread does: the oldest goes when it is read.
LEMMA ReadHeld ==
  ASSUME IInv, ReadOut
  PROVE  /\ HeldShrinks /\ Held' = Held \ {lastUnfreedId} /\ lastUnfreedId \in Held
         /\ Head_ = allocations[lastUnfreedId] /\ Head_.type = "Populated"
         /\ \A i \in Held' : i \in Nat /\ lastUnfreedId \in Nat /\ lastUnfreedId < i
<1>1. PICK h : h = lastUnfreedId
  OBVIOUS
<1>2. /\ UNCHANGED <<allocations, lastUnfreedId, pc, calls>> /\ cpc = "holding" /\ cpc' = "read"
      /\ Head_ = allocations[h] /\ Head_.type = "Populated"
  BY <1>1 DEF ReadOut, bufVars, prodVars, Head_
<1>3. h \in Live /\ h \in Nat /\ \A i \in Live : i \in Nat /\ h <= i
  BY <1>1, <1>2 DEF IInv, TypeOK, Clients, HeadReady, Live
<1>4. h \in Held /\ Held' = Held \ {h} /\ Held \subseteq Live
  BY <1>1, <1>2, <1>3 DEF Held, Live
<1>5. \A p \in Producers : Reserved(p)' = Reserved(p)
  BY <1>2 DEF Reserved
<1>6. \A i \in Held' : h < i
  BY <1>3, <1>4
<1> QED BY <1>1, <1>2, <1>3, <1>4, <1>5, <1>6 DEF HeldShrinks

\* What was read is freed.
LEMMA DequeueHeld ==
  ASSUME IInv, LogDequeue
  PROVE  HeldShrinks /\ Held' = Held
<1>1. PICK h : h = lastUnfreedId
  OBVIOUS
<1>2. HeadReady /\ FreeHead /\ (cpc = "read" \/ Head_.type = "Dummy")
  BY DEF LogDequeue, Dequeue
<1>3. /\ h \in Live /\ Live' = Live \ {h} /\ Head_ = allocations[h]
      /\ \A i \in Live' : allocations'[i] = allocations[i]
      /\ cpc' = "notify" /\ UNCHANGED <<pc, calls>>
  BY <1>1, <1>2, FreeFacts DEF FreeHead, prodVars
<1>4. Held' = Held /\ Held' \subseteq Live'
  BY <1>1, <1>2, <1>3 DEF Held
<1>5. \A p \in Producers : Reserved(p)' = Reserved(p)
  BY <1>3 DEF Reserved
<1> QED BY <1>3, <1>4, <1>5 DEF HeldShrinks

LEMMA LoggerHeld ==
  ASSUME IInv, LoggerStep \/ AppStep \/ UNCHANGED logVars
  PROVE  HeldShrinks /\ (Held' = Held \/ PacketDropped \/ PacketWrite)
<1>1. CASE UNCHANGED vars
  <2>1. \A p \in Producers : Reserved(p)' = Reserved(p)
    BY <1>1 DEF vars, prodVars, Reserved
  <2>2. Held' = Held
    BY <1>1 DEF vars, bufVars, consVars, Held, Live
  <2> QED BY <1>1, <2>1, <2>2, SameHeld DEF vars, bufVars, consVars
<1>2. CASE LogUnread
  <2>1. \A p \in Producers : Reserved(p)' = Reserved(p)
    BY <1>2 DEF LogUnread, LastUnread, prodVars, Reserved
  <2>2. Held' = Held
    BY <1>2 DEF LogUnread, LastUnread, bufVars, Held, Live
  <2> QED BY <1>2, <2>1, <2>2, SameHeld DEF LogUnread, LastUnread, bufVars
<1>3. CASE LogNotify
  <2>1. \A p \in Producers : Reserved(p)' = Reserved(p)
    BY <1>3 DEF LogNotify, NotifyFree, WakeProducer, freeWaiters, prodVars, Reserved, IInv, TypeOK
  <2>2. Held' = Held
    BY <1>3 DEF LogNotify, NotifyFree, bufVars, Held, Live
  <2> QED BY <1>3, <2>1, <2>2, SameHeld DEF LogNotify, NotifyFree, bufVars
<1>4. CASE PacketDropped \/ PacketWrite
  BY <1>4, ReadHeld DEF PacketDropped, PacketWrite
<1>5. CASE LogDequeue
  BY <1>5, DequeueHeld
<1>6. CASE AppStep \/ UNCHANGED logVars
  BY <1>1, <1>6, AppKeepsBuffer DEF logVars
<1>7. CASE LogTop \/ LogPollAgain \/ LogOpen \/ LogPadding \/ LogDrained \/ LogClose
  BY <1>1, <1>7 DEF LogTop, LogPollAgain, LogOpen, LogPadding, LogDrained, LogClose
<1>8. CASE PacketOpen \/ PacketKnownType \/ PacketMetadata \/ MetadataCallback
  BY <1>1, <1>8 DEF PacketOpen, PacketKnownType, PacketMetadata, MetadataCallback
<1>9. CASE WriteAborts \/ PacketCallback \/ SplitClose \/ SplitOpen
  BY <1>1, <1>9 DEF WriteAborts, PacketCallback, SplitClose, SplitOpen
<1> QED BY <1>2, <1>3, <1>4, <1>5, <1>6, <1>7, <1>8, <1>9 DEF LoggerStep
-----------------------------------------------------------------------------
(* What becomes of the records.                                            *)

DataSame == DataPlaces' = DataPlaces /\ \A a \in DataPlaces : At(a)' = At(a)

\* Only a write adds a message.
LEMMA DataCases ==
  ASSUME IInv, Called, HeadHeld, LogTypeOK, [LogNext]_logVars
  PROVE  DataSame \/ PacketWrite
<1>1. FilesOK /\ DataPlaces \subseteq Places
  BY TypeParts DEF DataPlaces
<1>2. CASE PacketMetadata
  <2>1. PICK r : r = MetadataOf(TypeOf[Head_.call])
    OBVIOUS
  <2>2. r \in Record /\ Put(r) /\ stream' = stream /\ r.kind # "data"
    BY <1>2, <2>1, MetadataRecord DEF PacketMetadata, MetadataOf
  <2> QED BY <1>1, <2>2, PutPlaces DEF DataSame
<1>3. CASE OpenFile \/ UNCHANGED files
  BY <1>1, <1>3, SamePlaces DEF DataSame
<1> QED BY <1>2, <1>3, FileCases

\* It is the message the logger thread holds, after all the others.
LEMMA DataWritten ==
  ASSUME IInv, Called, HeadHeld, LogTypeOK, PacketWrite, NEW w, w = LastWritten'
  PROVE  /\ DataPlaces' = DataPlaces \cup {w} /\ w \notin Places
         /\ \A a \in DataPlaces : At(a)' = At(a) /\ Before(a, w) /\ ~Before(w, a)
         /\ At(w)'.call = Head_.call /\ Head_.call \in Calls
         /\ ~Before(w, w)
<1>1. PICK t, topic : t = TypeOf[Head_.call] /\ topic = TopicOf[Head_.call]
  OBVIOUS
<1>2. PICK r : r = DataOf(t, topic)
  OBVIOUS
<1>3. /\ r \in Record /\ Put(r) /\ stream' = stream /\ r.kind = "data"
      /\ r.call = Head_.call /\ Head_.call \in Calls
  BY <1>1, <1>2, DataRecord DEF PacketWrite, DataOf
<1>4. FilesOK
  BY TypeParts
<1>5. /\ w = <<stream, Len(files[stream]) + 1>>
      /\ DataPlaces' = DataPlaces \cup {w} /\ w \notin Places
      /\ \A a \in Places : At(a)' = At(a) /\ Before(a, w)
      /\ files'[stream][Len(files[stream]) + 1] = r
  BY <1>3, <1>4, PutPlaces
<1>6. At(w)' = r
  BY <1>5 DEF At
<1>7. w \in Nat \X Nat
  BY <1>3, <1>4, <1>5, PutFacts
<1>8. \A a \in Places : a \in Nat \X Nat
  BY <1>4, PlaceFacts
<1>9. ~Before(w, w) /\ \A a \in Places : ~Before(w, a)
  BY <1>5, <1>7, <1>8 DEF Before
<1> QED BY <1>3, <1>5, <1>6, <1>9 DEF DataPlaces

\* The calls keep their order: a reservation comes after all of its producer's
\* calls, and what is written is the oldest in the buffer.
LEMMA CallsOrderedInv ==
  ASSUME IInv, Called, HeadHeld, LogTypeOK, CallsOrdered, [LogNext]_logVars
  PROVE  CallsOrdered'
<1>1. \A i \in Held : i \in Nat /\ allocations[i].call \in Producers \X Nat
  BY DEF Held, Called, Calls, Live, IInv, TypeOK
<1>2. \A a \in DataPlaces : At(a).call \in Producers \X Nat
  BY DEF CallsOrdered, InOrder, Calls
<1>3. CASE DataSame /\ HeldShrinks
  <2>1. \A i \in Held' : allocations'[i].call = allocations[i].call /\ i \in Held
    BY <1>3 DEF HeldShrinks
  <2>2. \A q \in Producers : Reserved(q)' = Reserved(q)
    BY <1>3 DEF HeldShrinks
  <2>3. DataPlaces' = DataPlaces /\ \A a \in DataPlaces : At(a)' = At(a)
    BY <1>3 DEF DataSame
  <2>4. \A i, j \in Held' : i < j => CalledBefore(allocations[i].call, allocations[j].call)'
    BY <2>1 DEF CallsOrdered, CalledBefore
  <2>5. \A a \in DataPlaces' : \A i \in Held' : CalledBefore(At(a).call, allocations[i].call)'
    BY <2>1, <2>3 DEF CallsOrdered, CalledBefore
  <2>6. \A i \in Held' : allocations'[i].call[2] <= Reserved(allocations[i].call[1])'
    <3> SUFFICES ASSUME NEW i \in Held' PROVE allocations'[i].call[2] <= Reserved(allocations[i].call[1])'
      OBVIOUS
    <3>1. PICK q : q = allocations[i].call[1]
      OBVIOUS
    <3>2. allocations'[i].call[1] = q /\ q \in Producers /\ allocations[i].call[2] <= Reserved(q)
      BY <1>1, <2>1, <3>1 DEF CallsOrdered
    <3>3. Reserved(q)' = Reserved(q)
      BY <2>2, <3>2
    <3> QED BY <2>1, <3>2, <3>3 DEF Reserved
  <2>7. \A a \in DataPlaces' : At(a)'.call[2] <= Reserved(At(a).call[1])'
    <3> SUFFICES ASSUME NEW a \in DataPlaces' PROVE At(a)'.call[2] <= Reserved(At(a).call[1])'
      OBVIOUS
    <3>1. PICK q : q = At(a).call[1]
      OBVIOUS
    <3>2. At(a)'.call[1] = q /\ q \in Producers /\ At(a).call[2] <= Reserved(q)
      BY <1>2, <2>3, <3>1 DEF CallsOrdered
    <3>3. Reserved(q)' = Reserved(q)
      BY <2>2, <3>2
    <3> QED BY <2>3, <3>2, <3>3 DEF Reserved
  <2>8. InOrder'
    BY <2>3 DEF CallsOrdered, InOrder, Before
  <2> QED BY <2>4, <2>5, <2>6, <2>7, <2>8 DEF CallsOrdered
<1>4. ASSUME NEW p \in Producers, AllocReserve(p), DataSame PROVE CallsOrdered'
  <2>1. PICK k : k = allocationId
    OBVIOUS
  <2>2. PICK n : n = calls[p]
    OBVIOUS
  <2>3. /\ Held' = Held \cup {k}
        /\ \A i \in Held : i < k /\ k \in Nat /\ allocations'[i] = allocations[i]
        /\ allocations'[k].call = <<p, n>>
        /\ n \in Nat /\ Reserved(p)' = n /\ Reserved(p) = n - 1
        /\ \A q \in Producers : q # p => Reserved(q)' = Reserved(q)
    BY <1>4, <2>1, <2>2, ReserveHeld
  <2>4. DataPlaces' = DataPlaces /\ \A a \in DataPlaces : At(a)' = At(a)
    BY <1>4 DEF DataSame
  <2>6. \A i \in Held : allocations[i].call[1] = p => allocations[i].call[2] < n
    BY <1>1, <2>3 DEF CallsOrdered
  <2>7. \A a \in DataPlaces : At(a).call[1] = p => At(a).call[2] < n
    BY <1>2, <2>3 DEF CallsOrdered
  <2>8. k \in Nat
    BY <2>1 DEF IInv, TypeOK
  <2>9. ASSUME NEW i \in Held', NEW j \in Held', i < j
        PROVE  CalledBefore(allocations[i].call, allocations[j].call)'
    <3>1. i \in Held
      BY <1>1, <2>3, <2>8, <2>9
    <3>2. CASE j = k
      BY <2>3, <2>6, <3>1, <3>2 DEF CalledBefore
    <3>3. CASE j \in Held
      BY <2>3, <2>9, <3>1, <3>3 DEF CalledBefore, CallsOrdered
    <3> QED BY <2>3, <3>2, <3>3
  <2>10. ASSUME NEW a \in DataPlaces', NEW i \in Held'
         PROVE  CalledBefore(At(a).call, allocations[i].call)'
    <3>1. CASE i = k
      BY <2>3, <2>4, <2>7, <3>1 DEF CalledBefore
    <3>2. CASE i \in Held
      BY <2>3, <2>4, <3>2 DEF CalledBefore, CallsOrdered
    <3> QED BY <2>3, <3>1, <3>2
  <2>11. \A c \in Producers \X Nat : c[2] <= Reserved(c[1]) => c[2] <= Reserved(c[1])'
    <3> SUFFICES ASSUME NEW q \in Producers, NEW m \in Nat, m <= Reserved(q) PROVE m <= Reserved(q)'
      OBVIOUS
    <3> QED BY <2>3
  <2>12. ASSUME NEW i \in Held'
         PROVE  allocations'[i].call[2] <= Reserved(allocations[i].call[1])'
    <3>1. CASE i = k
      <4>1. allocations'[i].call[1] = p /\ allocations'[i].call[2] = n
        BY <2>3, <3>1
      <4> QED BY <2>3, <4>1 DEF Reserved
    <3>2. CASE i \in Held
      <4>1. PICK c : c = allocations[i].call
        OBVIOUS
      <4>2. c \in Producers \X Nat /\ c[2] <= Reserved(c[1]) /\ allocations'[i].call = c
        BY <1>1, <2>3, <3>2, <4>1 DEF CallsOrdered
      <4> QED BY <2>11, <4>2 DEF Reserved
    <3> QED BY <2>3, <3>1, <3>2
  <2>13. ASSUME NEW a \in DataPlaces'
         PROVE  At(a)'.call[2] <= Reserved(At(a).call[1])'
    <3>1. PICK c : c = At(a).call
      OBVIOUS
    <3>2. c \in Producers \X Nat /\ c[2] <= Reserved(c[1]) /\ At(a)'.call = c
      BY <1>2, <2>4, <3>1 DEF CallsOrdered
    <3> QED BY <2>11, <3>2 DEF Reserved
  <2>14. InOrder'
    BY <2>4 DEF CallsOrdered, InOrder, Before
  <2> QED BY <2>9, <2>10, <2>12, <2>13, <2>14 DEF CallsOrdered
<1>5. CASE PacketWrite
  <2>1. PICK w, c, h : w = LastWritten' /\ c = Head_.call /\ h = lastUnfreedId
    OBVIOUS
  <2>2. /\ DataPlaces' = DataPlaces \cup {w}
        /\ \A a \in DataPlaces : At(a)' = At(a) /\ ~Before(w, a)
        /\ At(w)'.call = c /\ c \in Calls /\ ~Before(w, w)
    BY <1>5, <2>1, DataWritten
  <2>3. /\ HeldShrinks /\ h \in Held /\ c = allocations[h].call
        /\ \A i \in Held' : h < i
    BY <1>5, <2>1, ReadHeld DEF PacketWrite
  <2>4. \A i \in Held' : allocations'[i].call = allocations[i].call /\ i \in Held
    BY <2>3 DEF HeldShrinks
  <2>5. \A q \in Producers : Reserved(q)' = Reserved(q)
    BY <2>3 DEF HeldShrinks
  <2>6. \A a \in DataPlaces : CalledBefore(At(a).call, c)
    BY <2>3 DEF CallsOrdered
  <2>7. \A i \in Held' : CalledBefore(c, allocations[i].call)
    BY <2>3, <2>4 DEF CallsOrdered
  <2>8. \A i, j \in Held' : i < j => CalledBefore(allocations[i].call, allocations[j].call)'
    BY <2>4 DEF CallsOrdered, CalledBefore
  <2>9. ASSUME NEW a \in DataPlaces', NEW i \in Held'
        PROVE  CalledBefore(At(a).call, allocations[i].call)'
    <3>1. CASE a = w
      BY <2>2, <2>4, <2>7, <3>1 DEF CalledBefore
    <3>2. CASE a \in DataPlaces
      BY <2>2, <2>4, <3>2 DEF CalledBefore, CallsOrdered
    <3> QED BY <2>2, <3>1, <3>2
  <2>10. \A d \in Producers \X Nat : d[2] <= Reserved(d[1]) => d[2] <= Reserved(d[1])'
    BY <2>5
  <2>11. ASSUME NEW i \in Held'
         PROVE  allocations'[i].call[2] <= Reserved(allocations[i].call[1])'
    <3>1. PICK d : d = allocations[i].call
      OBVIOUS
    <3>2. d \in Producers \X Nat /\ d[2] <= Reserved(d[1]) /\ allocations'[i].call = d
      BY <1>1, <2>4, <3>1 DEF CallsOrdered
    <3> QED BY <2>10, <3>2 DEF Reserved
  <2>12. ASSUME NEW a \in DataPlaces'
         PROVE  At(a)'.call[2] <= Reserved(At(a).call[1])'
    <3>1. PICK d : d = At(a)'.call
      OBVIOUS
    <3>2. d \in Producers \X Nat /\ d[2] <= Reserved(d[1])
      <4>1. CASE a = w
        BY <1>1, <2>2, <2>3, <3>1, <4>1 DEF CallsOrdered
      <4>2. CASE a \in DataPlaces
        BY <1>2, <2>2, <3>1, <4>2 DEF CallsOrdered
      <4> QED BY <2>2, <4>1, <4>2
    <3> QED BY <2>10, <3>1, <3>2 DEF Reserved
  <2>13. InOrder'
    <3>1. \A a \in DataPlaces' : At(a)'.call \in Calls
      BY <2>2 DEF CallsOrdered, InOrder
    <3>2. ASSUME NEW a \in DataPlaces', NEW b \in DataPlaces',
                 Before(a, b), At(a)'.call[1] = At(b)'.call[1]
          PROVE  At(a)'.call[2] < At(b)'.call[2]
      <4>1. a # w
        BY <2>2, <3>2
      <4>2. CASE b = w
        BY <2>2, <2>6, <3>2, <4>1, <4>2 DEF CalledBefore
      <4>3. CASE b # w
        BY <2>2, <3>2, <4>1, <4>3 DEF CallsOrdered, InOrder
      <4> QED BY <4>2, <4>3
    <3> QED BY <3>1, <3>2 DEF InOrder, Before
  <2> QED BY <2>8, <2>9, <2>11, <2>12, <2>13 DEF CallsOrdered
<1>6. ASSUME NEW p \in Producers, SerializeCall(p) \/ SerializeStep(p) \/ SerializeReturn(p)
      PROVE  CallsOrdered'
  <2>1. UNCHANGED files
    BY <1>6 DEF SerializeCall, SerializeStep, SerializeReturn, loggerVars, fileVars
  <2>2. DataSame
    BY <2>1 DEF DataSame, DataPlaces, Places, At
  <2> QED BY <1>3, <1>4, <1>6, <2>2, ProducerHeld
<1>7. CASE LoggerStep \/ AppStep \/ UNCHANGED logVars
  BY <1>3, <1>5, <1>7, DataCases, LoggerHeld
<1> QED BY <1>6, <1>7 DEF LogNext, AppStep
-----------------------------------------------------------------------------
(* No promise is forgotten.                                                *)

\* What is written stays written.
LEMMA WrittenStays ==
  ASSUME IInv, Called, HeadHeld, LogTypeOK, [LogNext]_logVars, NEW c, IsWritten(c)
  PROVE  IsWritten(c)'
<1>1. PICK a \in DataPlaces : At(a).call = c
  BY DEF IsWritten
<1>2. a \in DataPlaces' /\ At(a)' = At(a)
  BY DataCases, DataWritten DEF DataSame
<1> QED BY <1>1, <1>2 DEF IsWritten

\* What is in the buffer stays there, until the logger thread writes it or drops it.
LEMMA QueuedStays ==
  ASSUME IInv, Called, HeadHeld, LogTypeOK, [LogNext]_logVars, NEW c, Queued(c),
         BadDirs = {}, c \notin Rejected
  PROVE  (IsWritten(c) \/ Queued(c))'
<1>1. PICK i \in Held : allocations[i].type = "Populated" /\ allocations[i].call = c
  BY DEF Queued
<1>2. CASE HeldShrinks /\ i \in Held'
  BY <1>1, <1>2 DEF HeldShrinks, Queued
<1>3. CASE PacketDropped
  <2>1. Head_.call \in Rejected
    BY <1>3 DEF PacketDropped, OpenFails
  <2>2. i # lastUnfreedId
    BY <1>1, <2>1 DEF Head_
  <2> QED BY <1>1, <1>2, <1>3, <2>2, ReadHeld DEF PacketDropped
<1>4. CASE PacketWrite
  <2>1. CASE i # lastUnfreedId
    BY <1>1, <1>2, <1>4, <2>1, ReadHeld DEF PacketWrite
  <2>2. CASE i = lastUnfreedId
    <3>1. PICK w : w = LastWritten'
      OBVIOUS
    <3>2. w \in DataPlaces' /\ At(w)'.call = Head_.call
      BY <1>4, <3>1, DataWritten
    <3>3. Head_.call = c
      BY <1>1, <2>2 DEF Head_
    <3> QED BY <3>2, <3>3 DEF IsWritten
  <2> QED BY <2>1, <2>2
<1>5. ASSUME NEW p \in Producers, SerializeCall(p) \/ SerializeStep(p) \/ SerializeReturn(p)
      PROVE  Queued(c)'
  <2>1. CASE HeldShrinks /\ Held' = Held
    BY <1>1, <2>1 DEF HeldShrinks, Queued
  <2>2. CASE AllocReserve(p)
    BY <1>1, <2>2, ReserveHeld DEF Queued
  <2> QED BY <1>5, <2>1, <2>2, ProducerHeld
<1>6. CASE LoggerStep \/ AppStep \/ UNCHANGED logVars
  BY <1>1, <1>2, <1>3, <1>4, <1>6, LoggerHeld
<1> QED BY <1>5, <1>6 DEF LogNext, AppStep

\* When nothing is allocated nothing is held: only the byte of an empty padding
\* is ever leaked, and it is counted, not forgotten.
LEMMA NothingHeld ==
  ASSUME IInv, m_sizeAllocated = 0
  PROVE  Held = {}
<1> SUFFICES ASSUME NEW i \in Held PROVE FALSE
  OBVIOUS
<1>1. /\ i \in Live /\ ~IsDummy(i) /\ allocations[i] \in Allocation
      /\ allocations[i].size > 0 /\ End(i) <= Size
  BY DEF Held, IsDummy, IInv, Layout, InBuffer, TypeOK, Live
<1>2. m_write \in Nat /\ Size \in Nat /\ allocations[i].begin \in Nat /\ allocations[i].size \in Nat
  BY <1>1, SizeAssumption DEF Allocation, IInv, TypeOK
<1>3. lastUnfreedId < allocationId /\ lastUnfreedId \in Live
  BY <1>1 DEF IInv, TypeOK, Live
<1>4. Oldest = Head_.begin /\ Oldest \in 0 .. Size
  BY <1>3 DEF Oldest, Head_, IInv, TypeOK, Live, Allocation
<1>5. CASE \A d \in Live : ~IsDummy(d)
  <2>1. m_write <= Oldest /\ Oldest <= allocations[i].begin /\ End(i) <= m_write
    BY <1>1, <1>2, <1>4, <1>5 DEF IInv, Layout, Straight
  <2> QED BY <1>1, <1>2, <1>4, <2>1 DEF End
<1>6. ASSUME NEW d \in Live, IsDummy(d) PROVE FALSE
  <2>1. /\ Size + m_write <= Oldest
        /\ i <= d => Oldest <= allocations[i].begin
        /\ i > d => End(i) <= m_write
    BY <1>1, <1>2, <1>4, <1>6 DEF IInv, Layout, Wrapped
  <2>2. i \in Nat /\ d \in Nat
    BY <1>1, <1>6 DEF IInv, TypeOK, Live
  <2> QED BY <1>1, <1>2, <1>4, <2>1, <2>2 DEF End
<1> QED BY <1>5, <1>6

\* populate makes the call's own allocation readable.
LEMMA ReturnQueues ==
  ASSUME IInv, NEW p \in Producers, Populate(p)
  PROVE  Queued(<<p, calls[p]>>)'
<1>1. PICK h : h = handle[p]
  OBVIOUS
<1>2. /\ h \in Live /\ allocations[h].type = "Empty" /\ allocations[h].call = <<p, calls[p]>>
      /\ allocations' = [allocations EXCEPT ![h].type = "Populated"]
      /\ lastUnfreedId' = lastUnfreedId /\ (cpc' = "read" => cpc = "read") /\ calls' = calls
  BY <1>1 DEF IInv, HandleOwned, Populate, Mark
<1>3. cpc = "read" => h # lastUnfreedId
  BY <1>2 DEF IInv, Clients, Head_
<1>4. allocations[h] \in Allocation
  BY <1>2 DEF IInv, TypeOK, Live
<1>5. /\ h \in Live' /\ allocations'[h].type = "Populated"
      /\ allocations'[h].call = allocations[h].call
  BY <1>2, <1>4 DEF Live, Allocation
<1>6. h \in Held'
  BY <1>2, <1>3, <1>5 DEF Held
<1> QED BY <1>2, <1>5, <1>6 DEF Queued

\* Where the logger thread and the application are in the end of the logging.
LEMMA EndCases ==
  ASSUME LogTypeOK, [LogNext]_logVars
  PROVE  /\ \/ quit_thread' = quit_thread /\ promised' = promised
            \/ EndLogging
         /\ accepted' = accepted \/ \E p \in Producers : SerializeReturn(p)
         /\ draining' => draining \/ quit_thread
         /\ tpc' \in {"close", "done"} => tpc \in {"close", "done"} \/ LogDrained
         /\ app' = "running" => app = "running" /\ quit_thread' = quit_thread
<1>1. CASE \E p \in Producers : SerializeCall(p) \/ SerializeStep(p) \/ SerializeReturn(p)
  BY <1>1 DEF SerializeCall, SerializeStep, SerializeReturn, loggerVars, threadVars, acceptVars
<1>2. CASE LogTop \/ LogPollAgain \/ LogUnread \/ LogOpen \/ LogPadding
  BY <1>2 DEF LogTop, LogPollAgain, LogUnread, LogOpen, LogPadding, Goto, LoopTop, acceptVars
<1>3. CASE PacketOpen \/ PacketDropped \/ PacketKnownType \/ PacketMetadata \/ MetadataCallback
  BY <1>3 DEF PacketOpen, PacketDropped, PacketKnownType, PacketMetadata, MetadataCallback,
              Goto, acceptVars
<1>4. CASE PacketWrite \/ WriteAborts \/ PacketCallback \/ SplitClose \/ SplitOpen
  BY <1>4 DEF PacketWrite, WriteAborts, PacketCallback, SplitClose, SplitOpen, Goto, acceptVars
<1>5. CASE LogDequeue \/ LogNotify \/ LogDrained \/ LogClose
  BY <1>5 DEF LogDequeue, LogNotify, LogDrained, LogClose, Goto, LoopTop, acceptVars
<1>6. CASE AppStep
  BY <1>6 DEF AppStep, SetLogPath, SetFileWriteCallback, ResetFileCallbacks, EndLogging, Join,
              threadVars, acceptVars
<1>7. CASE UNCHANGED logVars
  BY <1>7 DEF logVars, loggerVars, threadVars, acceptVars
<1> QED BY <1>1, <1>2, <1>3, <1>4, <1>5, <1>6, <1>7 DEF LogNext, LoggerStep, AppStep

LEMMA NothingLostInv ==
  ASSUME IInv, Called, HeadHeld, LogTypeOK, NothingLost, [LogNext]_logVars
  PROVE  NothingLost'
<1>1. ASSUME BadDirs = {}, NEW c \in accepted' \ Rejected PROVE (IsWritten(c) \/ Queued(c))'
  <2>1. CASE c \in accepted
    BY <1>1, <2>1, WrittenStays, QueuedStays DEF NothingLost
  <2>2. ASSUME NEW p \in Producers, SerializeReturn(p), c \notin accepted PROVE Queued(c)'
    <3>1. c = <<p, calls[p]>>
      BY <1>1, <2>2 DEF SerializeReturn
    <3>2. Queued(<<p, calls[p]>>)' /\ calls' = calls
      BY <2>2, ReturnQueues DEF SerializeReturn, Populate
    <3> QED BY <3>1, <3>2 DEF Queued
  <2> QED BY <1>1, <2>1, <2>2, EndCases
<1>2. quit_thread => quit_thread'
  BY EndCases DEF EndLogging
<1>3. draining' \/ tpc' \in {"close", "done"} => quit_thread'
  BY <1>2, EndCases DEF NothingLost, LogDrained
<1>4. app' = "running" => ~quit_thread'
  BY EndCases DEF NothingLost
<1>5. ASSUME BadDirs = {}, tpc' \in {"close", "done"}, NEW c \in promised' \ Rejected
      PROVE  IsWritten(c)'
  <2>1. CASE tpc \in {"close", "done"}
    <3>1. promised' = promised
      BY <2>1, EndCases DEF NothingLost, EndLogging
    <3> QED BY <1>5, <2>1, <3>1, WrittenStays DEF NothingLost
  <2>2. CASE LogDrained
    <3>1. c \in accepted \ Rejected
      BY <1>5, <2>2 DEF LogDrained, acceptVars, LogTypeOK
    <3>2. ~Queued(c)
      BY <2>2, NothingHeld DEF LogDrained, Queued
    <3> QED BY <1>5, <3>1, <3>2, WrittenStays DEF NothingLost
  <2> QED BY <1>5, <2>1, <2>2, EndCases
<1> QED BY <1>1, <1>3, <1>4, <1>5 DEF NothingLost
-----------------------------------------------------------------------------
(* The subscriber.                                                         *)

\* No record is after the last one.
LEMMA LastIsLast ==
  ASSUME FilesOK
  PROVE  \A a \in Places : ~Before(LastWritten, a)
<1> SUFFICES ASSUME NEW a \in Places PROVE ~Before(LastWritten, a)
  OBVIOUS
<1>1. PICK n : n = Len(files)
  OBVIOUS
<1>2. PICK f \in 1 .. n : \E i \in 1 .. Len(files[f]) : a = <<f, i>>
  BY <1>1, PlaceFacts
<1>3. PICK i \in 1 .. Len(files[f]) : a = <<f, i>>
  BY <1>2
<1>4. n \in Nat /\ files # << >> /\ files[n] \in Seq(Record) /\ files[f] \in Seq(Record)
  BY <1>1, <1>2 DEF FilesOK
<1>5. LastWritten = <<n, Len(files[n])>>
  BY <1>1, <1>4 DEF LastWritten
<1>6. i \in Nat /\ Len(files[n]) \in Nat /\ i <= Len(files[f])
  BY <1>4
<1>7. ~(n < f) /\ (n = f => ~(Len(files[n]) < i))
  BY <1>2, <1>3, <1>4, <1>6
<1>8. LastWritten[1] = n /\ LastWritten[2] = Len(files[n]) /\ a[1] = f /\ a[2] = i
  BY <1>3, <1>5
<1> QED BY <1>7, <1>8 DEF Before

\* A step that adds no record, of a logger thread that owes no callback.
LEMMA GapKept ==
  ASSUME NoGap, UNCHANGED <<spc, told>>, heard \subseteq heard',
         Places' = Places,
         \/ tpc \notin {"metacb", "cb"}
         \/ tpc' \in {"metacb", "cb"} /\ LastWritten' = LastWritten
         \/ spc = "told" => LastWritten \in heard'
  PROVE  NoGap'
BY DEF NoGap, Before

\* A step that adds one.
LEMMA GapGrows ==
  ASSUME NoGap, UNCHANGED <<spc, told, heard>>, Places' = Places \cup {LastWritten'},
         tpc \notin {"metacb", "cb"}, tpc' \in {"metacb", "cb"}
  PROVE  NoGap'
BY DEF NoGap, Before

LEMMA SubscribedInv ==
  ASSUME IInv, Called, HeadHeld, LogTypeOK, Subscribed, [LogNext]_logVars
  PROVE  Subscribed'
<1>0. FilesOK /\ NoGap /\ file_write_callback_ \in BOOLEAN /\ cosCallback \in BOOLEAN
  BY TypeParts DEF Subscribed, RestOK
<1> DEFINE Flags == /\ spc \in {"set", "setcos", "told"} => file_write_callback_
                    /\ spc \in {"setcos", "told"} => cosCallback
<1>1. Flags
  BY DEF Subscribed
<1>2. ASSUME UNCHANGED <<files, callbackVars, tpc>> PROVE Subscribed'
  <2>1. Places' = Places /\ LastWritten' = LastWritten
    BY <1>2 DEF Places, LastWritten
  <2> QED BY <1>0, <1>1, <1>2, <2>1, GapKept DEF callbackVars, Subscribed
<1>3. ASSUME UNCHANGED <<files, callbackVars>>, tpc \notin {"metacb", "cb"} PROVE Subscribed'
  <2>1. Places' = Places
    BY <1>3 DEF Places
  <2> QED BY <1>0, <1>1, <1>3, <2>1, GapKept DEF callbackVars, Subscribed
<1>4. ASSUME OpenFile, tpc \notin {"metacb", "cb"} PROVE Subscribed'
  <2>1. Places' = Places
    BY <1>0, <1>4, SamePlaces
  <2>2. UNCHANGED <<spc, told, heard, file_write_callback_>> /\ (cosCallback => cosCallback')
    BY <1>0, <1>4 DEF OpenFile
  <2> QED BY <1>0, <1>1, <1>4, <2>1, <2>2, GapKept DEF Subscribed
<1>5. ASSUME NEW p \in Producers, SerializeCall(p) \/ SerializeStep(p) \/ SerializeReturn(p)
      PROVE  Subscribed'
  BY <1>2, <1>5 DEF SerializeCall, SerializeStep, SerializeReturn, loggerVars, threadVars, fileVars
<1>6. CASE \/ EndLogging \/ Join \/ UNCHANGED logVars \/ \E d \in Dirs : SetLogPath(d)
  BY <1>2, <1>6 DEF EndLogging, Join, logVars, loggerVars, SetLogPath, CloseFile, threadVars, fileVars
<1>7. CASE SetFileWriteCallback
  <2>1. UNCHANGED <<files, heard, tpc>> /\ Places' = Places
    BY <1>7 DEF SetFileWriteCallback, fileVars, threadVars, Places
  <2>2. CASE spc' # "told"
    BY <1>1, <1>7, <2>2 DEF SetFileWriteCallback, Subscribe, Subscribed, NoGap
  <2>3. CASE spc' = "told"
    <3>1. told' = LastWritten /\ file_write_callback_' /\ cosCallback'
      BY <1>1, <1>7, <2>3 DEF SetFileWriteCallback, Subscribe
    <3>2. \A a \in Places' : ~Before(told', a)
      BY <1>0, <2>1, <3>1, LastIsLast
    <3>3. NoGap'
      BY <3>2 DEF NoGap, Before
    <3> QED BY <3>1, <3>3 DEF Subscribed
  <2> QED BY <2>2, <2>3
<1>8. CASE ResetFileCallbacks
  BY <1>8 DEF ResetFileCallbacks, Subscribed, NoGap
<1>9. CASE LogTop \/ LogPollAgain \/ LogUnread \/ LogPadding \/ PacketKnownType
  BY <1>3, <1>9 DEF LogTop, LogPollAgain, LogUnread, LogPadding, PacketKnownType, Goto, fileVars
<1>10. CASE WriteAborts \/ LogDequeue \/ LogNotify \/ LogDrained \/ SplitClose \/ LogClose
  BY <1>3, <1>10 DEF WriteAborts, LogDequeue, LogNotify, LogDrained, SplitClose, LogClose, CloseFile,
     Goto, fileVars
<1>11. CASE LogOpen \/ PacketOpen \/ PacketDropped \/ SplitOpen
  BY <1>3, <1>4, <1>11 DEF LogOpen, PacketOpen, PacketDropped, SplitOpen, OpenFails, Goto, fileVars
<1>12. CASE PacketMetadata
  <2>1. PICK r : r = MetadataOf(TypeOf[Head_.call])
    OBVIOUS
  <2>2. r \in Record /\ Put(r) /\ stream' = stream
    BY <1>12, <2>1, MetadataRecord DEF PacketMetadata
  <2>3. Places' = Places \cup {LastWritten'}
    BY <1>0, <2>2, PutPlaces
  <2>4. UNCHANGED callbackVars /\ tpc = "check" /\ tpc' = "metacb"
    BY <1>12 DEF PacketMetadata, Goto
  <2> QED BY <1>0, <1>1, <2>3, <2>4, GapGrows DEF callbackVars, Subscribed
<1>13. CASE PacketWrite
  <2>1. PICK t, topic : t = TypeOf[Head_.call] /\ topic = TopicOf[Head_.call]
    OBVIOUS
  <2>2. PICK r : r = DataOf(t, topic)
    OBVIOUS
  <2>3. r \in Record /\ Put(r) /\ stream' = stream
    BY <1>13, <2>1, <2>2, DataRecord DEF PacketWrite
  <2>4. Places' = Places \cup {LastWritten'}
    BY <1>0, <2>3, PutPlaces
  <2>5. UNCHANGED callbackVars /\ tpc = "write" /\ tpc' = "cb"
    BY <1>13 DEF PacketWrite, Goto
  <2> QED BY <1>0, <1>1, <2>4, <2>5, GapGrows DEF callbackVars, Subscribed
<1>14. CASE MetadataCallback \/ PacketCallback
  <2>1. UNCHANGED <<files, spc, told, file_write_callback_, cosCallback>> /\ heard \subseteq heard'
    BY <1>14 DEF MetadataCallback, PacketCallback
  <2>2. Places' = Places
    BY <2>1 DEF Places
  <2>3. spc = "told" => LastWritten \in heard'
    BY <1>1, <1>14 DEF MetadataCallback, PacketCallback
  <2> QED BY <1>0, <1>1, <2>1, <2>2, <2>3, GapKept DEF Subscribed
<1> QED BY <1>5, <1>6, <1>7, <1>8, <1>9, <1>10, <1>11, <1>12, <1>13, <1>14 DEF LogNext, LoggerStep
-----------------------------------------------------------------------------
(* The splits.                                                             *)

\* One more record adds its size.
LEMMA AppendBytes ==
  ASSUME NEW file \in Seq(Record), NEW r \in Record, NEW n, n = Len(file)
  PROVE  /\ \A i \in 0 .. n : /\ BytesUpTo(file)[i] \in Nat
                              /\ BytesUpTo(Append(file, r))[i] = BytesUpTo(file)[i]
         /\ BytesUpTo(Append(file, r))[n + 1] = BytesUpTo(file)[n] + r.size
<1>1. PICK longer : longer = Append(file, r)
  OBVIOUS
<1>2. /\ longer \in Seq(Record) /\ Len(longer) = n + 1 /\ n \in Nat
      /\ longer[n + 1] = r /\ \A i \in 1 .. n : longer[i] = file[i]
  BY <1>1
<1>3. IsSum(BytesUpTo(file), Sizes(file), n) /\ IsSum(BytesUpTo(longer), Sizes(longer), n + 1)
  BY <1>2, BytesFacts
<1>4. \A i \in 1 .. n : Sizes(file)[i] = Sizes(longer)[i]
  BY <1>2 DEF Sizes
<1>5. n <= n + 1 /\ n + 1 \in Nat
  BY <1>2
<1>6. \A i \in 0 .. n : BytesUpTo(file)[i] = BytesUpTo(longer)[i]
  BY <1>2, <1>3, <1>4, <1>5, SumsAgree
<1>7. BytesUpTo(longer)[n + 1] = BytesUpTo(longer)[n] + Sizes(longer)[n + 1]
  <2>1. n + 1 \in 1 .. n + 1 /\ (n + 1) - 1 = n
    BY <1>2
  <2> QED BY <1>3, <2>1 DEF IsSum
<1>8. Sizes(longer)[n + 1] = r.size
  BY <1>2 DEF Sizes
<1>9. \A i \in 0 .. n : BytesUpTo(file)[i] \in Nat
  BY <1>3 DEF IsSum
<1>10. n \in 0 .. n
  BY <1>2
<1> QED BY <1>1, <1>6, <1>7, <1>8, <1>9, <1>10

LEMMA NoBytes == BytesUpTo(<< >>)[0] = 0
<1>1. << >> \in Seq(Record) /\ Len(<< >>) = 0
  OBVIOUS
<1>2. IsSum(BytesUpTo(<< >>), Sizes(<< >>), 0)
  BY <1>1, BytesFacts
<1> QED BY <1>2 DEF IsSum

\* Producers leave the size of what the consumer holds alone.
LEMMA HeadSizeKept ==
  ASSUME IInv, cpc \in {"holding", "read"}, NEW p \in Producers,
         SerializeCall(p) \/ SerializeStep(p) \/ SerializeReturn(p)
  PROVE  Head_'.size = Head_.size
<1>1. PICK h : h = lastUnfreedId
  OBVIOUS
<1>2. h \in Live /\ h < allocationId /\ Head_ = allocations[h] /\ Head_ \in Allocation
  BY <1>1 DEF IInv, TypeOK, Clients, HeadReady, Live, Head_
<1>3. CASE AllocReserve(p) \/ AllocDummy(p)
  <2>1. PICK k, a : k = allocationId /\ allocations' = Insert(allocations, k, a)
    BY <1>3 DEF AllocReserve, AllocDummy
  <2>2. k # h
    BY <1>1, <1>2, <2>1 DEF IInv, TypeOK
  <2>3. allocations'[h] = allocations[h] /\ lastUnfreedId' = h
    BY <1>1, <1>2, <1>3, <2>1, <2>2 DEF Insert, Live, AllocReserve, AllocDummy
  <2> QED BY <1>2, <2>3 DEF Head_
<1>4. CASE Populate(p)
  <2>1. PICK k : k = handle[p]
    OBVIOUS
  <2>2. k \in Live /\ allocations' = [allocations EXCEPT ![k].type = "Populated"] /\ lastUnfreedId' = h
    BY <1>1, <1>4, <2>1 DEF Populate, Mark, IInv, Clients
  <2>3. allocations'[h].size = allocations[h].size
    BY <1>2, <2>2 DEF Live, Allocation
  <2> QED BY <1>2, <2>2, <2>3 DEF Head_
<1>5. CASE UNCHANGED <<allocations, lastUnfreedId>>
  BY <1>5 DEF Head_
<1>6. CASE \/ \E n \in MsgSizes : StartAlloc(p, n)
           \/ AllocWait(p) \/ SpuriousWake(p) \/ Fill(p) \/ Abandon(p)
  BY <1>5, <1>6 DEF StartAlloc, AllocWait, SpuriousWake, Fill, Abandon, bufVars
<1> QED BY <1>3, <1>4, <1>6 DEF SerializeCall, SerializeStep, SerializeReturn

\* One more record in the open file.
LEMMA PutCounted ==
  ASSUME FilesOK, current_file_size \in Nat, SizeCounted, NEW r \in Record, Put(r),
         UNCHANGED <<stream, current_file_size>>, tpc \notin {"cb", "split"}, tpc' # "split",
         r.size = (IF tpc' = "cb" THEN Head_'.size ELSE 0)
  PROVE  SizeCounted'
<1>1. PICK s : s = stream
  OBVIOUS
<1>2. PICK n : n = Len(files[s])
  OBVIOUS
<1>3. /\ FilesOK' /\ Len(files') = Len(files) /\ s \in 1 .. Len(files)
      /\ \A f \in 1 .. Len(files) : f # s => files'[f] = files[f]
      /\ n \in Nat /\ s # 0
  BY <1>1, <1>2, PutFacts DEF Put
<1>4. files[s] \in Seq(Record) /\ files'[s] = Append(files[s], r)
  <2>1. files' = [files EXCEPT ![s] = Append(files[s], r)]
    BY <1>1 DEF Put
  <2>2. files \in Seq(Seq(Record)) /\ s \in DOMAIN files /\ files[s] \in Seq(Record)
    BY <1>3 DEF FilesOK
  <2>3. files'[s] = Append(files[s], r)
    BY <2>1, <2>2
  <2> QED BY <2>2, <2>3
<1>5. /\ \A i \in 0 .. n : /\ BytesUpTo(files[s])[i] \in Nat
                           /\ BytesUpTo(files'[s])[i] = BytesUpTo(files[s])[i]
      /\ BytesUpTo(files'[s])[n + 1] = BytesUpTo(files[s])[n] + r.size
  BY <1>2, <1>4, AppendBytes
<1>6. Len(files'[s]) = n + 1
  BY <1>2, <1>4
<1>7. BytesUpTo(files[s])[n] = current_file_size /\ current_file_size <= SplitSize
  BY <1>1, <1>2, <1>3 DEF SizeCounted
<1>8. BytesUpTo(files'[s])[n + 1] = current_file_size + r.size
  BY <1>5, <1>7
<1>9. ASSUME NEW f \in 1 .. Len(files'), NEW last \in 1 .. Len(files'[f]),
             files'[f][last].kind = "data"
      PROVE  BytesUpTo(files'[f])[last - 1] <= SplitSize
  <2>1. CASE f # s
    BY <1>3, <1>9, <2>1 DEF SizeCounted, SplitInTime
  <2>2. CASE f = s /\ last = n + 1
    <3>1. last - 1 = n /\ n \in 0 .. n
      BY <1>3, <2>2
    <3> QED BY <1>5, <1>7, <2>2, <3>1
  <2>3. CASE f = s /\ last \in 1 .. n
    <3>1. files'[s][last] = files[s][last] /\ last - 1 \in 0 .. n
      BY <1>2, <1>3, <1>4, <2>3
    <3>2. BytesUpTo(files[s])[last - 1] <= SplitSize
      BY <1>2, <1>3, <1>9, <2>3, <3>1 DEF SizeCounted, SplitInTime
    <3> QED BY <1>5, <2>3, <3>1, <3>2
  <2> QED BY <1>3, <1>6, <1>9, <2>1, <2>2, <2>3
<1>10. stream' # 0 =>
         BytesUpTo(files'[stream'])[Len(files'[stream'])]
           = current_file_size' + (IF tpc' = "cb" THEN Head_'.size ELSE 0)
  BY <1>1, <1>6, <1>8
<1>11. stream' # 0 /\ tpc' \notin {"cb", "split"} => current_file_size' <= SplitSize
  BY <1>7
<1> QED BY <1>9, <1>10, <1>11 DEF SizeCounted, SplitInTime

\* A new file is empty, and the others keep their sizes.
LEMMA OpenCounted ==
  ASSUME FilesOK, SizeCounted, OpenFile, tpc' # "cb"
  PROVE  SizeCounted'
<1>1. PICK n : n = Len(files)
  OBVIOUS
<1>2. /\ Len(files') = n + 1 /\ n \in Nat /\ files'[n + 1] = << >> /\ stream' = n + 1
      /\ \A f \in 1 .. n : files'[f] = files[f]
  BY <1>1, OpenFacts
<1>3. current_file_size' = 0
  BY DEF OpenFile
<1>4. ASSUME NEW f \in 1 .. Len(files'), NEW last \in 1 .. Len(files'[f]),
             files'[f][last].kind = "data"
      PROVE  BytesUpTo(files'[f])[last - 1] <= SplitSize
  <2>1. f # n + 1
    BY <1>2, <1>4
  <2>2. f \in 1 .. n /\ files'[f] = files[f]
    BY <1>2, <2>1
  <2> QED BY <1>1, <1>4, <2>2 DEF SizeCounted, SplitInTime
<1>5. BytesUpTo(files'[stream'])[Len(files'[stream'])] = 0
  BY <1>2, NoBytes
<1> QED BY <1>3, <1>4, <1>5, SplitAssumption DEF SizeCounted, SplitInTime

LEMMA SizeCountedInv ==
  ASSUME IInv, Called, HeadHeld, LogTypeOK, DictionaryFits, SizeCounted, [LogNext]_logVars
  PROVE  SizeCounted'
<1>0. FilesOK /\ current_file_size \in Nat
  BY TypeParts DEF RestOK
<1>1. ASSUME NEW p \in Producers, SerializeCall(p) \/ SerializeStep(p) \/ SerializeReturn(p)
      PROVE  SizeCounted'
  <2>1. UNCHANGED <<tpc, stream, files, current_file_size>>
    BY <1>1 DEF SerializeCall, SerializeStep, SerializeReturn, loggerVars, threadVars, fileVars
  <2>2. tpc = "cb" => Head_'.size = Head_.size
    BY <1>1, HeadSizeKept DEF HeadHeld
  <2> QED BY <2>1, <2>2 DEF SizeCounted, SplitInTime
<1>2. ASSUME UNCHANGED <<files, stream, current_file_size>>,
             \/ UNCHANGED <<tpc, Head_>>
             \/ {tpc, tpc'} \cap {"cb", "split"} = {}
      PROVE  SizeCounted'
  <2>1. CASE UNCHANGED <<tpc, Head_>>
    BY <1>2, <2>1 DEF SizeCounted, SplitInTime
  <2>2. CASE tpc \notin {"cb", "split"} /\ tpc' \notin {"cb", "split"}
    BY <1>2, <2>2 DEF SizeCounted, SplitInTime
  <2> QED BY <1>2, <2>1, <2>2
<1>3. ASSUME UNCHANGED files, stream' = 0 PROVE SizeCounted'
  BY <1>3 DEF SizeCounted, SplitInTime
<1>4. CASE \/ SetFileWriteCallback \/ ResetFileCallbacks \/ EndLogging \/ Join \/ UNCHANGED logVars
  BY <1>2, <1>4 DEF SetFileWriteCallback, ResetFileCallbacks, EndLogging, Join, logVars, loggerVars,
     threadVars, fileVars, vars, bufVars, Head_
<1>5. ASSUME NEW d \in Dirs, SetLogPath(d) PROVE SizeCounted'
  <2>1. CASE CloseFile
    BY <1>3, <2>1 DEF CloseFile
  <2>2. CASE UNCHANGED fileVars
    BY <1>2, <1>5, <2>2 DEF SetLogPath, threadVars, fileVars, vars, bufVars, Head_
  <2> QED BY <1>5, <2>1, <2>2 DEF SetLogPath
<1>6. CASE \/ LogTop \/ LogPollAgain \/ LogUnread \/ LogPadding \/ PacketKnownType
           \/ WriteAborts \/ LogDequeue \/ LogNotify \/ LogDrained
  <2>1. UNCHANGED <<files, stream, current_file_size>> /\ {tpc, tpc'} \cap {"cb", "split"} = {}
    BY <1>6 DEF LogTop, LogPollAgain, LogUnread, LogPadding, PacketKnownType, WriteAborts,
       LogDequeue, LogNotify, LogDrained, Goto, LoopTop, fileVars
  <2> QED BY <1>2, <2>1
<1>7. CASE SplitClose \/ LogClose
  BY <1>3, <1>7 DEF SplitClose, LogClose, CloseFile
<1>8. CASE LogOpen \/ PacketOpen \/ PacketDropped \/ SplitOpen
  <2>1. tpc' # "cb" /\ {tpc, tpc'} \cap {"cb", "split"} = {}
    BY <1>8 DEF LogOpen, PacketOpen, PacketDropped, SplitOpen, Goto
  <2>2. OpenFile \/ OpenFails \/ UNCHANGED fileVars
    BY <1>8 DEF LogOpen, PacketOpen, PacketDropped, SplitOpen
  <2> QED BY <1>0, <1>2, <1>3, <2>1, <2>2, OpenCounted DEF OpenFails, fileVars
<1>9. CASE PacketMetadata
  <2>1. PICK r : r = MetadataOf(TypeOf[Head_.call])
    OBVIOUS
  <2>2. r \in Record /\ Put(r) /\ r.size = 0
    BY <1>9, <2>1, MetadataRecord DEF MetadataOf
  <2>3. UNCHANGED <<stream, current_file_size>> /\ tpc = "check" /\ tpc' = "metacb"
    BY <1>9 DEF PacketMetadata, Goto
  <2> QED BY <1>0, <2>2, <2>3, PutCounted
<1>10. CASE MetadataCallback
  <2>1. UNCHANGED <<files, stream, current_file_size>> /\ {tpc, tpc'} \cap {"cb", "split"} = {}
    BY <1>10 DEF MetadataCallback, Goto
  <2> QED BY <1>2, <2>1
<1>11. CASE PacketWrite
  <2>1. PICK t, topic : t = TypeOf[Head_.call] /\ topic = TopicOf[Head_.call]
    OBVIOUS
  <2>2. PICK r : r = DataOf(t, topic)
    OBVIOUS
  <2>3. r \in Record /\ Put(r) /\ r.size = Head_.size
    BY <1>11, <2>1, <2>2, DataRecord DEF DataOf
  <2>4. UNCHANGED <<stream, current_file_size>> /\ tpc = "write" /\ tpc' = "cb"
    BY <1>11 DEF PacketWrite, Goto
  <2>5. Head_' = Head_
    BY <1>11 DEF PacketWrite, ReadOut, bufVars, Head_
  <2> QED BY <1>0, <2>3, <2>4, <2>5, PutCounted
<1>12. CASE PacketCallback
  <2>1. /\ UNCHANGED <<files, stream>> /\ tpc = "cb"
        /\ current_file_size' = current_file_size + Head_.size
        /\ tpc' = IF current_file_size' > SplitSize THEN "split" ELSE "dequeue"
    BY <1>12 DEF PacketCallback, Goto
  <2>2. Head_.size \in Nat
    BY <1>12, <2>1, HeadCall DEF HeadHeld
  <2>3. tpc' = "dequeue" => current_file_size' <= SplitSize
    BY <1>0, <2>1, <2>2, SplitAssumption
  <2>4. stream' # 0 =>
          BytesUpTo(files'[stream'])[Len(files'[stream'])] = current_file_size' + 0
    BY <1>0, <2>1, <2>2 DEF SizeCounted
  <2>5. current_file_size' + 0 = current_file_size'
    BY <1>0, <2>1, <2>2
  <2>6. SplitInTime'
    BY <2>1 DEF SizeCounted, SplitInTime
  <2> QED BY <2>1, <2>3, <2>4, <2>6 DEF SizeCounted
<1> QED BY <1>1, <1>4, <1>5, <1>6, <1>7, <1>8, <1>9, <1>10, <1>11, <1>12 DEF LogNext, LoggerStep
-----------------------------------------------------------------------------
(* The theorems.                                                           *)

LEMMA HistoryInit == LogInit => HistoryIInv
<1> SUFFICES ASSUME LogInit PROVE HistoryIInv
  OBVIOUS
<1>1. LogIInv
  BY LogInitInv
<1>2. files = << >> /\ 1 .. Len(files) = {} /\ Live = {}
  BY DEF LogInit, Init, Live
<1>3. Places = {} /\ DataPlaces = {} /\ Held = {}
  BY <1>2 DEF Places, DataPlaces, Held
<1>4. CallsOrdered
  BY <1>3 DEF CallsOrdered, InOrder
<1>5. NothingLost
  BY DEF LogInit, NothingLost
<1>6. Subscribed
  BY DEF LogInit, Subscribed, NoGap
<1>7. SizeCounted
  BY <1>2 DEF LogInit, SizeCounted, SplitInTime
<1> QED BY <1>1, <1>4, <1>5, <1>6, <1>7 DEF HistoryIInv

LEMMA HistoryStep == HistoryIInv /\ [LogNext]_logVars => HistoryIInv'
<1> SUFFICES ASSUME HistoryIInv, [LogNext]_logVars PROVE HistoryIInv'
  OBVIOUS
<1>1. LogIInv /\ IInv /\ Called /\ HeadHeld /\ LogTypeOK /\ DictionaryFits
  BY DEF HistoryIInv, LogIInv
<1>2. LogIInv'
  BY <1>1, LogStepInv
<1>3. CallsOrdered'
  BY <1>1, CallsOrderedInv DEF HistoryIInv
<1>4. NothingLost'
  BY <1>1, NothingLostInv DEF HistoryIInv
<1>5. Subscribed'
  BY <1>1, SubscribedInv DEF HistoryIInv
<1>6. SizeCounted'
  BY <1>1, SizeCountedInv DEF HistoryIInv
<1> QED BY <1>2, <1>3, <1>4, <1>5, <1>6 DEF HistoryIInv

\* HistoryIInv is inductive: it holds of every state of the logger.
THEOREM HistoryInductive == LogSpec => []HistoryIInv
BY HistoryInit, HistoryStep, PTL DEF LogSpec

\* The files hold whole messages, and of each producer in the order it called
\* serialize, across the threads' interleaving, the splits and the moves of the log.
THEOREM FilesInOrder == LogSpec => []InOrder
<1>1. HistoryIInv => InOrder
  BY DEF HistoryIInv, CallsOrdered
<1> QED BY <1>1, HistoryInductive, PTL

\* endLogging loses nothing: every call that had returned true before it is in the
\* log when the logger thread has ended, unless processPacket rejects the message
\* or some directory cannot be written.
THEOREM EndLosesNothing == LogSpec => []PromisesKept
<1>1. HistoryIInv => PromisesKept
  BY DEF HistoryIInv, NothingLost, PromisesKept
<1> QED BY <1>1, HistoryInductive, PTL

\* A subscriber that has the log up to the place setFileWriteCallback returned is
\* called with every later record, though the logger thread runs meanwhile.
THEOREM NothingBetween == LogSpec => []NoGap
<1>1. HistoryIInv => NoGap
  BY DEF HistoryIInv, Subscribed
<1> QED BY <1>1, HistoryInductive, PTL

\* No file takes a message once the messages in it exceed SPLIT_FILE_SIZE.
THEOREM FilesSplit == LogSpec => []SplitInTime
<1>1. HistoryIInv => SplitInTime
  BY DEF HistoryIInv, SizeCounted
<1> QED BY <1>1, HistoryInductive, PTL
=============================================================================
