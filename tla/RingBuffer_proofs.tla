-------------------------- MODULE RingBuffer_proofs --------------------------
(***************************************************************************)
(* The ring buffer is correct for every size of the buffer, every set of   *)
(* producers, every message size and any number of calls: type             *)
(* correctness, and the invariants of RingBuffer, from the inductive       *)
(* invariant IInv.                                                         *)
(***************************************************************************)
EXTENDS RingBuffer, TLAPS

USE SizeAssumption, MsgSizesAssumption, MaxCallsAssumption,
    ConsumerBlocksAssumption, UnreliableAssumption

\* Nothing is allocated at first.
LEMMA InitInv == Init => IInv
<1> SUFFICES ASSUME Init PROVE IInv
  OBVIOUS
<1>1. Live = {} /\ 0 .. 0 - 1 = {}
  BY DEF Init, Live
<1>2. TypeOK
  <2>1. allocations \in [lastUnfreedId .. allocationId - 1 -> Allocation]
    BY <1>1 DEF Init, Live
  <2> QED BY <2>1 DEF Init, TypeOK, Pos
<1>3. Layout
  BY <1>1, <1>2 DEF Init, TypeOK, Layout, InBuffer, Chained, OneDummy, Straight, Wrapped, LapOrder, Oldest
<1>4. HandleOwned /\ Intact /\ Clients
  BY <1>1 DEF Init, HandleOwned, Intact, Clients
<1> QED BY <1>2, <1>3, <1>4 DEF IInv
-----------------------------------------------------------------------------
(* Steps that only move a thread.                                          *)

\* What the invariant says of the buffer reads nothing but the buffer.
LEMMA BufferKept ==
  ASSUME IInv, UNCHANGED bufVars
  PROVE  Layout' /\ Intact' /\ Live' = Live
BY DEF IInv, bufVars, Layout, InBuffer, Chained, OneDummy, Straight, Wrapped, LapOrder,
       Intact, Live, IsDummy, End, NextBegin, Oldest, Head_, BytesOf

LEMMA StartAllocInv ==
  ASSUME IInv, NEW p \in Producers, NEW n \in MsgSizes, StartAlloc(p, n)
  PROVE  IInv'
<1>1. Layout' /\ Intact' /\ Live' = Live
  BY BufferKept DEF StartAlloc
<1>2. TypeOK'
  <2>1. n \in Nat /\ calls[p] + 1 \in 0 .. MaxCalls
    BY MsgSizesAssumption, MaxCallsAssumption DEF IInv, TypeOK, StartAlloc
  <2>2. /\ pc' \in [Producers -> {"idle", "alloc", "wait", "fill", "filled"}]
        /\ want' \in [Producers -> Nat]
        /\ calls' \in [Producers -> 0 .. MaxCalls]
    BY <2>1 DEF IInv, TypeOK, StartAlloc
  <2> QED BY <2>2 DEF IInv, TypeOK, StartAlloc, bufVars, consVars
<1>3. \A q \in Producers : pc'[q] \in {"fill", "filled"} =>
        pc[q] \in {"fill", "filled"} /\ pc'[q] = pc[q] /\ calls'[q] = calls[q]
  BY DEF IInv, TypeOK, StartAlloc
<1>4. HandleOwned'
  BY <1>1, <1>3 DEF IInv, HandleOwned, StartAlloc, bufVars
<1>5. Clients'
  BY <1>1, <1>3, SMTT(30) DEF IInv, TypeOK, Clients, StartAlloc, bufVars, consVars, HeadReady, Head_, BytesOf
<1> QED BY <1>1, <1>2, <1>4, <1>5 DEF IInv

\* AllocWait, a wake-up, Abandon, and the consumer's own moves: pc or cpc changes
\* and nobody gains an allocation or loses what cpc relies on.
LEMMA MoveInv ==
  ASSUME IInv, UNCHANGED <<bufVars, want, handle, calls>>,
         pc' \in [Producers -> {"idle", "alloc", "wait", "fill", "filled"}],
         \A q \in Producers : pc'[q] # pc[q] =>
           pc'[q] = "idle" \/ (pc'[q] \in {"alloc", "wait"} /\ pc[q] # "idle"),
         cpc' \in {"idle", "fullwait", "holding", "read", "notify"},
         cpc' \in {"holding", "read"} => HeadReady,
         cpc' = "read" => Head_.type = "Populated",
         delivered' \in Seq(Calls \cup {Blank})
  PROVE  IInv'
<1>1. Layout' /\ Intact' /\ Live' = Live
  BY BufferKept
<1>2. TypeOK'
  BY DEF IInv, TypeOK, bufVars
<1>3. HandleOwned'
  BY <1>1 DEF IInv, HandleOwned, bufVars
<1>4. Clients'
  BY <1>1 DEF IInv, TypeOK, Clients, bufVars, HeadReady, Head_, BytesOf
<1> QED BY <1>1, <1>2, <1>3, <1>4 DEF IInv

\* What the consumer reads is some message or Blank.
LEMMA ReadBackType ==
  ASSUME IInv, HeadReady, Head_.type = "Populated"
  PROVE  ReadBack(Head_) \in Calls \cup {Blank}
<1>1. lastUnfreedId \in Live
  BY DEF IInv, TypeOK, HeadReady, Live
<1>2. Head_ \in Allocation /\ Head_.size > 0 /\ Head_.begin + Head_.size <= Size
  BY <1>1 DEF IInv, TypeOK, Layout, InBuffer, IsDummy, End, Head_, Live, Allocation
<1>3. Head_.begin \in Pos
  BY <1>2 DEF Allocation, Pos
<1> QED BY <1>3 DEF ReadBack, IInv, TypeOK

LEMMA QuietInv ==
  ASSUME IInv,
         \/ \E p \in Producers : AllocWait(p) \/ SpuriousWake(p) \/ Abandon(p)
         \/ FullWait \/ SpuriousFullWake \/ LastUnread \/ ReadOut \/ NotifyFree
  PROVE  IInv'
<1> USE DEF IInv, TypeOK, consVars, prodVars
<1>1. ASSUME NEW p \in Producers, AllocWait(p) \/ SpuriousWake(p) \/ Abandon(p) PROVE IInv'
  <2>1. Clients BY DEF IInv
  <2> QED BY <1>1, <2>1, MoveInv DEF AllocWait, SpuriousWake, WakeProducer, Abandon, Clients, freeWaiters
<1>2. CASE FullWait \/ SpuriousFullWake \/ LastUnread
  BY <1>2, MoveInv DEF FullWait, SpuriousFullWake, LastUnread
<1>3. CASE ReadOut
  <2>1. HeadReady /\ Head_.type = "Populated"
    BY <1>3 DEF ReadOut, Clients
  <2>2. delivered' \in Seq(Calls \cup {Blank})
    BY <1>3, <2>1, ReadBackType DEF ReadOut
  <2> QED BY <1>3, <2>1, <2>2, MoveInv DEF ReadOut
<1>4. CASE NotifyFree
  BY <1>4, MoveInv DEF NotifyFree, WakeProducer, freeWaiters
<1> QED BY <1>1, <1>2, <1>3, <1>4
-----------------------------------------------------------------------------
(* A new allocation.                                                       *)

\* alloc_inner appends one allocation at m_write, message or padding.
Append1(a) ==
  /\ allocations' = Insert(allocations, allocationId, a)
  /\ allocationId' = allocationId + 1
  /\ UNCHANGED <<lastUnfreedId, m_buf>>

LEMMA AppendFacts ==
  ASSUME IInv, NEW a \in Allocation, Append1(a), NEW k, k = allocationId
  PROVE  /\ Live = lastUnfreedId .. k - 1
         /\ Live' = Live \cup {k}
         /\ k \notin Live
         /\ \A i \in Live : allocations'[i] = allocations[i]
         /\ allocations'[k] = a
         /\ allocations' \in [lastUnfreedId' .. allocationId' - 1 -> Allocation]
         /\ \A i \in Live : i < k
         /\ Live # {} <=> lastUnfreedId < k
         /\ lastUnfreedId < k => lastUnfreedId \in Live
<1>1. Live = lastUnfreedId .. k - 1 /\ k \in Nat /\ lastUnfreedId \in Nat
  BY DEF IInv, TypeOK, Live
<1>2. /\ Live' = Live \cup {k}
      /\ \A i \in Live \cup {k} :
           allocations'[i] = IF i = k THEN a ELSE allocations[i]
      /\ allocations' = [i \in Live \cup {k} |-> allocations'[i]]
  BY DEF Live, Append1, Insert
<1>3. k \notin Live
  BY <1>1
<1>4. Live \cup {k} = lastUnfreedId' .. allocationId' - 1
  BY <1>1 DEF Append1, IInv, TypeOK
<1>5. \A i \in Live : allocations[i] \in Allocation
  BY DEF IInv, TypeOK, Live
<1>6. allocations' \in [Live \cup {k} -> Allocation]
  BY <1>2, <1>5
<1>7. allocations' \in [lastUnfreedId' .. allocationId' - 1 -> Allocation]
  BY <1>4, <1>6
<1>8. lastUnfreedId <= k
  BY DEF IInv, TypeOK
<1>9. Live # {} <=> lastUnfreedId < k
  <2>1. lastUnfreedId < k => lastUnfreedId \in Live
    BY <1>1
  <2>2. \A i \in Live : lastUnfreedId <= i /\ i < k /\ i \in Int
    BY <1>1
  <2>3. ASSUME Live # {} PROVE lastUnfreedId < k
    <3>1. PICK i \in Live : TRUE
      BY <2>3
    <3> QED BY <1>1, <1>8, <2>2, <3>1
  <2> QED BY <2>1, <2>3
<1>10. \A i \in Live : i < k /\ i # k
  BY <1>1
<1>11. lastUnfreedId < k => lastUnfreedId \in Live
  BY <1>1
<1>12. \A i \in Live : allocations'[i] = allocations[i]
  BY <1>2, <1>10
<1>13. allocations'[k] = a
  BY <1>2
<1> QED BY <1>1, <1>2, <1>3, <1>7, <1>9, <1>10, <1>11, <1>12, <1>13

\* The room test leaves a gap between m_write and the oldest allocation, so a
\* message goes in without wrapping.
LEMMA RoomAhead ==
  ASSUME IInv, NEW n \in Nat, HasRoom(n), NEW d \in Live, IsDummy(d)
  PROVE  m_write + n < Oldest /\ Oldest <= Size
<1>1. Size + m_write <= m_sizeAllocated + Oldest
  BY DEF IInv, Layout, Wrapped
<1>2. lastUnfreedId < allocationId /\ lastUnfreedId \in Live
  BY DEF IInv, TypeOK, Live
<1>3. Oldest \in Nat /\ Oldest <= Size
  BY <1>2 DEF Oldest, Head_, Live, IInv, TypeOK, Allocation
<1> QED BY <1>1, <1>3 DEF HasRoom, IInv, TypeOK

\* What alloc_inner reserves is an allocation.
LEMMA ReserveAllocation ==
  ASSUME IInv, NEW p \in Producers, AllocReserve(p)
  PROVE  [size |-> want[p], begin |-> m_write, type |-> "Empty", call |-> <<p, calls[p]>>]
           \in Allocation
<1>1. want[p] \in Nat /\ want[p] > 0 /\ m_write + want[p] <= Size
  BY DEF IInv, TypeOK, Clients, AllocReserve, FitsAtEnd
<1>2. calls[p] > 0 /\ calls[p] \in 0 .. MaxCalls
  BY DEF IInv, TypeOK, Clients, AllocReserve
<1>3. <<p, calls[p]>> \in Calls
  BY <1>2 DEF Calls
<1>4. m_write \in 0 .. Size /\ want[p] \in 0 .. Size
  BY <1>1 DEF IInv, TypeOK
<1> QED BY <1>3, <1>4 DEF Allocation, AllocationType

LEMMA ReserveLayout ==
  ASSUME IInv, NEW p \in Producers, AllocReserve(p)
  PROVE  Layout'
<1>0. PICK k : k = allocationId
  OBVIOUS
<1> DEFINE n == want[p]
           a == [size |-> n, begin |-> m_write, type |-> "Empty", call |-> <<p, calls[p]>>]
<1>1. n \in Nat /\ n > 0 /\ m_write + n <= Size
  BY DEF IInv, TypeOK, Clients, AllocReserve, FitsAtEnd
<1>2. a \in Allocation
  BY ReserveAllocation
<1>3. Append1(a) /\ m_write' = m_write + n /\ m_sizeAllocated' = m_sizeAllocated + n
  BY DEF AllocReserve, Append1
<1> HIDE DEF n
<1>4. /\ allocations'[k].begin = m_write
      /\ allocations'[k].size = n
      /\ allocations'[k].type = "Empty"
  BY <1>0, <1>2, <1>3, AppendFacts
<1> HIDE DEF a
<1>B. /\ Live = lastUnfreedId .. k - 1
      /\ k \in Nat /\ lastUnfreedId \in Nat /\ lastUnfreedId <= k
  BY <1>0 DEF IInv, TypeOK, Live
<1>A. /\ Live' = Live \cup {k} /\ k \notin Live
      /\ \A i \in Live : i < k /\ i \in Nat
      /\ lastUnfreedId' = lastUnfreedId /\ allocationId' = k + 1
  <2>1. Live' = Live \cup {k}
    BY <1>0, <1>2, <1>3, AppendFacts
  <2>2. k \notin Live /\ \A i \in Live : i < k /\ i \in Nat
    BY <1>B
  <2> QED BY <2>1, <2>2, <1>0, <1>3 DEF Append1
<1>C. \A i \in Live : allocations'[i] = allocations[i]
  BY <1>0, <1>2, <1>3, AppendFacts
<1>D. \A i \in Live : allocations[i] \in Allocation
  BY DEF IInv, TypeOK, Live
<1>4a. \A i \in Live : /\ IsDummy(i)' = IsDummy(i) /\ End(i)' = End(i)
                       /\ NextBegin(i)' = NextBegin(i)
  BY <1>C DEF IsDummy, End, NextBegin
<1>4b. \A i \in Live : End(i) \in Nat /\ allocations[i].begin \in Nat
  BY <1>D, SMTT(30) DEF End, IInv, TypeOK, Allocation
<1>5. ~IsDummy(k)' /\ End(k)' = m_write + n /\ NextBegin(k)' = m_write + n
  BY <1>4 DEF IsDummy, End, NextBegin
<1>6. Oldest' = Oldest /\ Oldest \in Nat
  <2>1. CASE lastUnfreedId < k
    <3>1. lastUnfreedId \in Live
      BY <2>1, <1>B
    <3>2. Head_' = Head_ /\ Head_ = allocations[lastUnfreedId]
      BY <3>1, <1>A, <1>C DEF Head_
    <3>3. Oldest = Head_.begin /\ Oldest' = Head_'.begin
      BY <2>1, <1>0, <1>A, <1>B DEF Oldest
    <3> QED BY <3>1, <3>2, <3>3, <1>4b
  <2>2. CASE lastUnfreedId = k
    <3>1. Oldest = m_write
      BY <2>2, <1>0, <1>B DEF Oldest
    <3>2. Oldest' = m_write
      BY <2>2, <1>4, <1>A, <1>B DEF Oldest, Head_
    <3> QED BY <3>1, <3>2 DEF IInv, TypeOK
  <2> QED BY <2>1, <2>2, <1>B
<1>7. InBuffer'
  <2>1. ASSUME NEW i \in Live
        PROVE  /\ End(i)' <= Size
               /\ IsDummy(i)' => End(i)' = Size
               /\ ~IsDummy(i)' => allocations'[i].size > 0
    <3>1. /\ End(i) <= Size
          /\ IsDummy(i) => End(i) = Size
          /\ ~IsDummy(i) => allocations[i].size > 0
      BY DEF InBuffer, IInv, Layout
    <3> QED BY <3>1, <1>C, <1>4a
  <2>2. End(k)' <= Size /\ ~IsDummy(k)' /\ allocations'[k].size > 0
    BY <1>1, <1>4, <1>5
  <2> QED BY <2>1, <2>2, <1>A DEF InBuffer
<1>8. Chained'
  <2>1. ASSUME NEW i \in Live', i + 1 < allocationId'
        PROVE  allocations'[i + 1].begin = NextBegin(i)'
    <3>1. i \in Live /\ i \in Nat /\ i + 1 <= k
      BY <2>1, <1>A, <1>B
    <3>2. CASE i + 1 < k
      <4>1. i + 1 \in Live
        BY <3>1, <3>2, <1>B
      <4>2. allocations[i + 1].begin = NextBegin(i)
        BY <3>1, <3>2, <1>0 DEF Chained, IInv, Layout
      <4> QED BY <4>1, <4>2, <3>1, <1>C, <1>4a
    <3>3. CASE i + 1 = k
      <4>1. m_write = NextBegin(i)
        BY <3>1, <3>3, <1>0 DEF Chained, IInv, Layout
      <4> QED BY <4>1, <3>1, <3>3, <1>4, <1>4a
    <3> QED BY <3>1, <3>2, <3>3, <1>B
  <2>2. ASSUME NEW i \in Live', i + 1 = allocationId' PROVE m_write' = NextBegin(i)'
    <3>1. i = k
      BY <2>2, <1>A, <1>B
    <3> QED BY <3>1, <1>3, <1>5
  <2> QED BY <2>1, <2>2 DEF Chained
<1>9. OneDummy'
  BY <1>4a, <1>5, <1>A DEF OneDummy, IInv, Layout
<1>10. Straight'
  <2> SUFFICES ASSUME \A i \in Live' : ~IsDummy(i)'
               PROVE  /\ Oldest' <= m_write'
                      /\ m_write' <= m_sizeAllocated' + Oldest'
                      /\ \A i \in Live' : Oldest' <= allocations'[i].begin /\ End(i)' <= m_write'
    BY DEF Straight
  <2>1. \A i \in Live : ~IsDummy(i)
    BY <1>4a, <1>A
  <2>2. PICK w \in Nat, s \in Nat, o \in Nat : w = m_write /\ s = m_sizeAllocated /\ o = Oldest
    BY <1>6 DEF IInv, TypeOK
  <2>3. /\ o <= w /\ w <= s + o
        /\ \A i \in Live : o <= allocations[i].begin /\ End(i) <= w
    BY <2>1, <2>2 DEF IInv, Layout, Straight
  <2>4. Oldest' = o /\ m_write' = w + n /\ m_sizeAllocated' = s + n
    BY <2>2, <1>3, <1>6
  <2>5. o <= w + n /\ w + n <= (s + n) + o
    BY <2>3, <1>1
  <2>6. ASSUME NEW i \in Live PROVE o <= allocations'[i].begin /\ End(i)' <= w + n
    <3>1. o <= allocations[i].begin /\ End(i) <= w /\ End(i) \in Nat
      BY <2>3, <1>4b
    <3>2. End(i) <= w + n
      BY <3>1, <1>1
    <3> QED BY <3>1, <3>2, <1>C, <1>4a
  <2>7. o <= allocations'[k].begin /\ End(k)' <= w + n
    BY <2>2, <2>3, <1>1, <1>4, <1>5
  <2> QED BY <2>4, <2>5, <2>6, <2>7, <1>A
<1>11. Wrapped'
  <2> SUFFICES ASSUME NEW d \in Live', IsDummy(d)'
               PROVE  /\ m_write' <= Oldest'
                      /\ Size + m_write' <= m_sizeAllocated' + Oldest'
                      /\ \A i \in Live' : /\ i <= d => Oldest' <= allocations'[i].begin
                                          /\ i > d => End(i)' <= m_write'
    BY DEF Wrapped
  <2>1. d \in Live /\ IsDummy(d) /\ d < k
    BY <1>4a, <1>5, <1>A
  <2>2. PICK w \in Nat, s \in Nat, o \in Nat : w = m_write /\ s = m_sizeAllocated /\ o = Oldest
    BY <1>6 DEF IInv, TypeOK
  <2>3. w + n < o
    BY <1>1, <2>1, <2>2, RoomAhead DEF AllocReserve, n
  <2>4. /\ Size + w <= s + o
        /\ \A i \in Live : /\ i <= d => o <= allocations[i].begin
                           /\ i > d => End(i) <= w
    BY <2>1, <2>2 DEF IInv, Layout, Wrapped
  <2>5. Oldest' = o /\ m_write' = w + n /\ m_sizeAllocated' = s + n
    BY <2>2, <1>3, <1>6
  <2>6. w + n <= o /\ Size + (w + n) <= (s + n) + o
    BY <2>3, <2>4, <1>1, SizeAssumption
  <2>7. ASSUME NEW i \in Live
        PROVE  (i <= d => o <= allocations'[i].begin) /\ (i > d => End(i)' <= w + n)
    <3>1. End(i) \in Nat /\ (End(i) <= w => End(i) <= w + n)
      BY <1>1, <1>4b
    <3> QED BY <2>4, <3>1, <1>C, <1>4a
  <2>8. ~(k <= d) /\ End(k)' <= w + n
    <3>1. d \in Nat /\ k \in Nat
      BY <2>1, <1>A, <1>B
    <3> QED BY <2>1, <2>2, <3>1, <1>1, <1>5
  <2> QED BY <2>5, <2>6, <2>7, <2>8, <1>A
<1>12. LapOrder'
  <2>1. ASSUME NEW i \in Live, \A d \in Live' : IsDummy(d)' => d < i \/ k <= d
        PROVE  End(i) <= m_write
    <3>1. ASSUME NEW d \in Live, IsDummy(d) PROVE d < i
      <4>1. d \in Live' /\ IsDummy(d)' /\ d \in Nat /\ d < k
        BY <3>1, <1>4a, <1>A
      <4> QED BY <4>1, <2>1, <1>B
    <3>2. CASE \E d \in Live : IsDummy(d)
      BY <3>1, <3>2, <1>A DEF IInv, Layout, Wrapped
    <3>3. CASE \A d \in Live : ~IsDummy(d)
      BY <3>3 DEF IInv, Layout, Straight
    <3> QED BY <3>2, <3>3
  <2>2. ASSUME NEW i \in Live, NEW j \in Live, i < j,
               \A d \in Live' : IsDummy(d)' => d < i \/ j <= d
        PROVE  End(i)' <= allocations'[j].begin
    <3>1. \A d \in Live : IsDummy(d) => d < i \/ j <= d
      BY <2>2, <1>4a, <1>A
    <3>2. End(i) <= allocations[j].begin
      BY <2>2, <3>1 DEF LapOrder, IInv, Layout
    <3> QED BY <3>2, <1>C, <1>4a
  <2>3. ASSUME NEW i \in Live, \A d \in Live' : IsDummy(d)' => d < i \/ k <= d
        PROVE  End(i)' <= allocations'[k].begin
    BY <2>1, <2>3, <1>4, <1>4a
  <2>4. \A i \in Live' : ~(k < i)
    BY <1>A, <1>B
  <2> QED BY <2>2, <2>3, <2>4, <1>A DEF LapOrder
<1> QED BY <1>7, <1>8, <1>9, <1>10, <1>11, <1>12 DEF Layout

LEMMA DummyLayout ==
  ASSUME IInv, NEW p \in Producers, AllocDummy(p)
  PROVE  Layout' /\ \A d \in Live : ~IsDummy(d)
<1>0. PICK k : k = allocationId
  OBVIOUS
<1> DEFINE n == Size - m_write
           a == [size |-> n, begin |-> m_write, type |-> "Dummy", call |-> Blank]
<1>1. n \in 0 .. Size /\ m_write + n = Size
  BY DEF IInv, TypeOK
<1>2. a \in Allocation
  BY <1>1 DEF Allocation, IInv, TypeOK, AllocationType
<1>3. /\ Append1(a) /\ m_write' = 0
      /\ m_sizeAllocated' >= m_sizeAllocated + n
      /\ m_sizeAllocated' \in Nat
  BY <1>1 DEF AllocDummy, Counted, Append1, bufVars, IInv, TypeOK
<1> HIDE DEF n
<1>4. /\ allocations'[k].begin = m_write
      /\ allocations'[k].size = n
      /\ allocations'[k].type = "Dummy"
  BY <1>0, <1>2, <1>3, AppendFacts
<1> HIDE DEF a
<1>B. /\ Live = lastUnfreedId .. k - 1
      /\ k \in Nat /\ lastUnfreedId \in Nat /\ lastUnfreedId <= k
  BY <1>0 DEF IInv, TypeOK, Live
<1>A. /\ Live' = Live \cup {k} /\ k \notin Live
      /\ \A i \in Live : i < k /\ i \in Nat
      /\ lastUnfreedId' = lastUnfreedId /\ allocationId' = k + 1
  <2>1. Live' = Live \cup {k}
    BY <1>0, <1>2, <1>3, AppendFacts
  <2>2. k \notin Live /\ \A i \in Live : i < k /\ i \in Nat
    BY <1>B
  <2> QED BY <2>1, <2>2, <1>0, <1>3 DEF Append1
<1>C. \A i \in Live : allocations'[i] = allocations[i]
  BY <1>0, <1>2, <1>3, AppendFacts
<1>D. \A i \in Live : allocations[i] \in Allocation
  BY DEF IInv, TypeOK, Live
<1>4a. \A i \in Live : /\ IsDummy(i)' = IsDummy(i) /\ End(i)' = End(i)
                       /\ NextBegin(i)' = NextBegin(i)
  BY <1>C DEF IsDummy, End, NextBegin
<1>4b. \A i \in Live : End(i) \in Nat /\ allocations[i].begin \in Nat
  BY <1>D, SMTT(30) DEF End, IInv, TypeOK, Allocation
<1>5. IsDummy(k)' /\ End(k)' = Size /\ NextBegin(k)' = 0
  BY <1>1, <1>4 DEF IsDummy, End, NextBegin
<1>6. Oldest' = Oldest /\ Oldest \in Nat
  <2>1. CASE lastUnfreedId < k
    <3>1. lastUnfreedId \in Live
      BY <2>1, <1>B
    <3>2. Head_' = Head_ /\ Head_ = allocations[lastUnfreedId]
      BY <3>1, <1>A, <1>C DEF Head_
    <3>3. Oldest = Head_.begin /\ Oldest' = Head_'.begin
      BY <2>1, <1>0, <1>A, <1>B DEF Oldest
    <3> QED BY <3>1, <3>2, <3>3, <1>4b
  <2>2. CASE lastUnfreedId = k
    <3>1. Oldest = m_write
      BY <2>2, <1>0, <1>B DEF Oldest
    <3>2. Oldest' = m_write
      BY <2>2, <1>4, <1>A, <1>B DEF Oldest, Head_
    <3> QED BY <3>1, <3>2 DEF IInv, TypeOK
  <2> QED BY <2>1, <2>2, <1>B
<1>7. \A d \in Live : ~IsDummy(d)
  <2> SUFFICES ASSUME NEW d \in Live, IsDummy(d) PROVE FALSE
    OBVIOUS
  <2>1. want[p] \in Nat /\ m_write \in Nat /\ HasRoom(want[p]) /\ ~(m_write + want[p] <= Size)
    BY DEF AllocDummy, FitsAtEnd, IInv, TypeOK
  <2>2. m_write + want[p] < Oldest /\ Oldest <= Size
    BY <2>1, RoomAhead
  <2> QED BY <2>1, <2>2, <1>6
<1>8. Oldest <= m_write /\ \A i \in Live : Oldest <= allocations[i].begin /\ End(i) <= m_write
  BY <1>7 DEF IInv, Layout, Straight
<1>9. InBuffer'
  <2>1. ASSUME NEW i \in Live
        PROVE  /\ End(i)' <= Size /\ ~IsDummy(i)'
               /\ allocations'[i].size > 0
    BY <1>C, <1>4a, <1>7 DEF InBuffer, IInv, Layout
  <2> QED BY <2>1, <1>1, <1>4, <1>5, <1>A DEF InBuffer, IInv, TypeOK
<1>10. Chained'
  <2>1. ASSUME NEW i \in Live', i + 1 < allocationId'
        PROVE  allocations'[i + 1].begin = NextBegin(i)'
    <3>1. i \in Live /\ i \in Nat /\ i + 1 <= k
      BY <2>1, <1>A, <1>B
    <3>2. CASE i + 1 < k
      <4>1. i + 1 \in Live
        BY <3>1, <3>2, <1>B
      <4>2. allocations[i + 1].begin = NextBegin(i)
        BY <3>1, <3>2, <1>0 DEF Chained, IInv, Layout
      <4> QED BY <4>1, <4>2, <3>1, <1>C, <1>4a
    <3>3. CASE i + 1 = k
      <4>1. m_write = NextBegin(i)
        BY <3>1, <3>3, <1>0 DEF Chained, IInv, Layout
      <4> QED BY <4>1, <3>1, <3>3, <1>4, <1>4a
    <3> QED BY <3>1, <3>2, <3>3, <1>B
  <2>2. ASSUME NEW i \in Live', i + 1 = allocationId' PROVE m_write' = NextBegin(i)'
    <3>1. i = k
      BY <2>2, <1>A, <1>B
    <3> QED BY <3>1, <1>3, <1>5
  <2> QED BY <2>1, <2>2 DEF Chained
<1>11. OneDummy'
  BY <1>4a, <1>7, <1>A DEF OneDummy
<1>12. Straight'
  BY <1>5, <1>A DEF Straight
<1>13. Wrapped'
  <2>1. m_write <= m_sizeAllocated + Oldest
    BY <1>7 DEF IInv, Layout, Straight
  <2>2. \A i \in Live' : i <= k /\ Oldest' <= allocations'[i].begin
    <3>1. \A i \in Live : i <= k /\ Oldest' <= allocations'[i].begin
      BY <1>6, <1>8, <1>A, <1>B, <1>C
    <3>2. k <= k /\ Oldest' <= allocations'[k].begin
      BY <1>4, <1>6, <1>8, <1>B
    <3> QED BY <3>1, <3>2, <1>A
  <2>3. \A i \in Live' : IsDummy(i)' => i = k
    BY <1>4a, <1>7, <1>A
  <2>4. m_write' <= Oldest' /\ Size + m_write' <= m_sizeAllocated' + Oldest'
    <3>1. m_sizeAllocated \in Nat /\ m_write \in Nat /\ Size \in Nat
      BY DEF IInv, TypeOK
    <3>2. m_write' = 0 /\ m_sizeAllocated' \in Nat /\ m_sizeAllocated' >= m_sizeAllocated + n
      BY <1>3
    <3>3. n \in Nat /\ m_write + n = Size
      BY <1>1
    <3>4. Oldest' = Oldest /\ Oldest \in Nat
      BY <1>6
    <3>5. m_write <= m_sizeAllocated + Oldest
      BY <2>1
    <3>6. m_write' <= Oldest'
      BY <3>2, <3>4
    <3>7. PICK y \in Nat : y = m_sizeAllocated'
      BY <3>2
    <3>8. y >= m_sizeAllocated + n
      BY <3>2, <3>7
    <3>9. Size <= y + Oldest
      BY <3>1, <3>3, <3>4, <3>5, <3>8
    <3>10. Size + 0 <= y + Oldest
      BY <3>1, <3>9
    <3> QED BY <3>2, <3>4, <3>6, <3>7, <3>10, Zenon
  <2>5. \A i \in Live' : i \in Int
    BY <1>A, <1>B
  <2> QED BY <2>2, <2>3, <2>4, <2>5 DEF Wrapped
<1>14. LapOrder'
  <2>1. \A i, j \in Live : i < j => End(i) <= allocations[j].begin
    BY <1>7 DEF IInv, Layout, LapOrder
  <2>2. ASSUME NEW i \in Live, NEW j \in Live, i < j
        PROVE  End(i)' <= allocations'[j].begin
    BY <2>1, <2>2, <1>C, <1>4a
  <2>3. ASSUME NEW i \in Live PROVE End(i)' <= allocations'[k].begin
    BY <1>4, <1>4a, <1>8
  <2>4. \A i \in Live' : ~(k < i)
    BY <1>A, <1>B
  <2> QED BY <2>2, <2>3, <2>4, <1>A DEF LapOrder
<1> QED BY <1>7, <1>9, <1>10, <1>11, <1>12, <1>13, <1>14 DEF Layout

\* Everything else about a new allocation: it is nobody else's handle, and it is
\* not Populated.
LEMMA AllocInv ==
  ASSUME IInv, NEW p \in Producers, AllocReserve(p) \/ AllocDummy(p)
  PROVE  IInv'
<1>1. Layout'
  BY ReserveLayout, DummyLayout
<1>2. PICK a \in Allocation : Append1(a) /\ a.type # "Populated"
  <2>1. calls[p] \in 1 .. MaxCalls
    <3>1. calls[p] > 0 /\ calls[p] \in 0 .. MaxCalls
      BY DEF IInv, TypeOK, Clients, AllocReserve, AllocDummy
    <3> QED BY <3>1
  <2>2. <<p, calls[p]>> \in Calls
    BY <2>1 DEF Calls
  <2>3. m_write \in 0 .. Size /\ Size - m_write \in 0 .. Size
    BY DEF IInv, TypeOK
  <2>4. CASE AllocReserve(p)
    <3>1. want[p] \in 0 .. Size
      BY <2>4 DEF AllocReserve, FitsAtEnd, IInv, TypeOK
    <3>2. [size |-> want[p], begin |-> m_write, type |-> "Empty", call |-> <<p, calls[p]>>] \in Allocation
      BY <2>2, <2>3, <3>1 DEF Allocation, AllocationType
    <3> QED BY <2>4, <3>2 DEF AllocReserve, Append1
  <2>5. CASE AllocDummy(p)
    <3>1. [size |-> Size - m_write, begin |-> m_write, type |-> "Dummy", call |-> Blank] \in Allocation
      BY <2>3 DEF Allocation, AllocationType
    <3> QED BY <2>5, <3>1 DEF AllocDummy, Append1, bufVars
  <2> QED BY <2>4, <2>5
<1>3. PICK k : k = allocationId
  OBVIOUS
<1>4. /\ Live' = Live \cup {k} /\ k \notin Live
      /\ \A i \in Live : allocations'[i] = allocations[i]
      /\ allocations'[k] = a
      /\ allocations' \in [lastUnfreedId' .. allocationId' - 1 -> Allocation]
      /\ lastUnfreedId < k => lastUnfreedId \in Live
      /\ Live # {} <=> lastUnfreedId < k
  BY <1>2, <1>3, AppendFacts
<1>5. m_write' \in 0 .. Size /\ m_sizeAllocated' \in 1 .. Size - 1
  <2>1. PICK w \in 0 .. Size, s \in 0 .. Size - 1, n \in Nat :
          w = m_write /\ s = m_sizeAllocated /\ n = want[p] /\ n > 0
    BY DEF IInv, TypeOK, Clients, AllocReserve, AllocDummy
  <2>2. s + n < Size
    BY <2>1 DEF AllocReserve, AllocDummy, HasRoom
  <2>3. CASE AllocReserve(p)
    <3>1. m_write' = w + n /\ m_sizeAllocated' = s + n /\ w + n <= Size
      BY <2>1, <2>3 DEF AllocReserve, FitsAtEnd
    <3> QED BY <2>1, <2>2, <3>1, SizeAssumption
  <2>4. CASE AllocDummy(p)
    <3>1. m_write' = 0 /\ m_sizeAllocated' = s + Counted(Size - w) /\ ~(w + n <= Size)
      BY <2>1, <2>4 DEF AllocDummy, FitsAtEnd
    <3>2. Size - w \in 0 .. n
      BY <2>1, <3>1, SizeAssumption
    <3>3. Counted(Size - w) \in 1 .. n
      BY <2>1, <3>2 DEF Counted
    <3>4. s + Counted(Size - w) \in 1 .. Size - 1
      BY <2>1, <2>2, <3>3, SizeAssumption
    <3> QED BY <3>1, <3>4, SizeAssumption
  <2> QED BY <2>3, <2>4
<1>6. TypeOK'
  <2>1. /\ m_buf' \in [Pos -> Calls \cup {Blank}]
        /\ allocationId' \in Nat /\ lastUnfreedId' \in Nat /\ lastUnfreedId' <= allocationId'
    BY <1>2 DEF IInv, TypeOK, Append1
  <2>2. /\ pc' \in [Producers -> {"idle", "alloc", "wait", "fill", "filled"}]
        /\ want' \in [Producers -> Nat] /\ handle' \in [Producers -> Nat]
        /\ calls' \in [Producers -> 0 .. MaxCalls]
    BY ZenonT(60) DEF IInv, TypeOK, AllocReserve, AllocDummy, prodVars
  <2>3. /\ cpc' \in {"idle", "fullwait", "holding", "read", "notify"}
        /\ delivered' \in Seq(Calls \cup {Blank})
    BY DEF IInv, TypeOK, AllocReserve, AllocDummy, consVars
  <2>4. m_sizeAllocated' \in 0 .. Size - 1
    BY <1>5
  <2> QED BY <2>1, <2>2, <2>3, <2>4, <1>4, <1>5 DEF TypeOK
<1>7. Intact'
  BY <1>2, <1>4 DEF IInv, Intact, Append1, BytesOf
<1>8. HandleOwned'
  <2>1. ASSUME NEW q \in Producers, pc'[q] \in {"fill", "filled"}, q # p \/ AllocDummy(p)
        PROVE  /\ handle'[q] \in Live /\ handle'[q] = handle[q]
               /\ calls'[q] = calls[q] /\ pc[q] = pc'[q]
    BY <2>1 DEF IInv, TypeOK, HandleOwned, AllocReserve, AllocDummy, prodVars
  <2>2. ASSUME NEW q \in Producers, pc'[q] \in {"fill", "filled"}, q # p \/ AllocDummy(p)
        PROVE  /\ handle'[q] \in Live' /\ allocations'[handle'[q]].type = "Empty"
               /\ allocations'[handle'[q]].call = <<q, calls'[q]>>
    BY <2>1, <2>2, <1>4 DEF IInv, HandleOwned
  <2>3. CASE AllocReserve(p)
    <3>1. handle'[p] = k /\ calls' = calls
      BY <2>3, <1>3 DEF AllocReserve, IInv, TypeOK
    <3>2. allocations'[k].type = "Empty" /\ allocations'[k].call = <<p, calls[p]>>
      BY <2>3, <1>3 DEF AllocReserve, Insert
    <3> QED BY <2>2, <3>1, <3>2, <1>4 DEF HandleOwned
  <2> QED BY <2>2, <2>3 DEF HandleOwned
<1>9. Clients'
  <2>1. \A q \in Producers : pc'[q] # "idle" => want'[q] > 0 /\ calls'[q] > 0
    BY DEF IInv, TypeOK, Clients, AllocReserve, AllocDummy, prodVars
  <2>2. \A q \in Producers : pc'[q] = "filled" =>
          /\ pc[q] = "filled" /\ handle'[q] = handle[q] /\ handle[q] \in Live /\ calls'[q] = calls[q]
    BY DEF IInv, TypeOK, Clients, AllocReserve, AllocDummy, prodVars
  <2>3. ASSUME NEW q \in Producers, pc'[q] = "filled"
        PROVE  \A b \in BytesOf(allocations'[handle'[q]]) : m_buf'[b] = <<q, calls'[q]>>
    <3>1. m_buf' = m_buf
      BY <1>2 DEF Append1
    <3>2. \A b \in BytesOf(allocations[handle[q]]) : m_buf[b] = <<q, calls[q]>>
      BY <2>2, <2>3 DEF IInv, Clients
    <3>3. allocations'[handle'[q]] = allocations[handle[q]]
      BY <2>2, <2>3, <1>4
    <3>4. calls'[q] = calls[q]
      BY <2>2, <2>3
    <3> QED BY <3>1, <3>2, <3>3, <3>4
  <2>4. cpc \in {"holding", "read"} =>
          HeadReady' /\ Head_' = Head_
    <3>1. m_sizeAllocated' > 0
      BY <1>5
    <3>2. HeadReady => lastUnfreedId \in Live /\ lastUnfreedId' = lastUnfreedId
      BY <1>2, <1>3, <1>4 DEF HeadReady, Live, Append1
    <3> QED BY <3>1, <3>2, <1>4 DEF IInv, Clients, HeadReady, Head_, Live
  <2>5. cpc' = cpc
    BY DEF AllocReserve, AllocDummy, consVars
  <2> QED BY <2>1, <2>3, <2>4, <2>5, <1>8 DEF Clients, HandleOwned, IInv
<1> QED BY <1>1, <1>6, <1>7, <1>8, <1>9 DEF IInv

LEMMA FillInv ==
  ASSUME IInv, NoOverlap, NEW p \in Producers, Fill(p)
  PROVE  IInv'
<1> DEFINE h == handle[p]
<1>1. /\ h \in Live /\ allocations[h].type = "Empty"
      /\ pc' = [pc EXCEPT ![p] = "filled"] /\ pc[p] = "fill"
      /\ \A b \in Pos : m_buf'[b] = IF b \in BytesOf(allocations[h]) THEN <<p, calls[p]>> ELSE m_buf[b]
  BY DEF IInv, HandleOwned, Fill
<1>2. <<p, calls[p]>> \in Calls
  <2>1. calls[p] > 0 /\ calls[p] \in 0 .. MaxCalls
    BY <1>1 DEF IInv, TypeOK, Clients
  <2> QED BY <2>1 DEF Calls
<1>3. TypeOK'
  BY <1>1, <1>2 DEF IInv, TypeOK, Fill, consVars
<1>4. Layout' /\ Live' = Live
  BY DEF IInv, Fill, Layout, InBuffer, Chained, OneDummy, Straight, Wrapped, LapOrder,
         Live, IsDummy, End, NextBegin, Oldest, Head_
<1>5. \A i \in Live : i # h => \A b \in BytesOf(allocations[i]) : m_buf'[b] = m_buf[b]
  <2> SUFFICES ASSUME NEW i \in Live, i # h, NEW b \in BytesOf(allocations[i])
               PROVE  m_buf'[b] = m_buf[b]
    OBVIOUS
  <2>1. b \notin BytesOf(allocations[h])
    BY <1>1 DEF NoOverlap
  <2>2. allocations[i] \in Allocation /\ End(i) <= Size
    BY DEF IInv, TypeOK, Layout, InBuffer, Live
  <2>3. b \in Pos
    BY <2>2 DEF BytesOf, Pos, End, Allocation
  <2> QED BY <2>1, <2>3, <1>1
<1>6. HandleOwned'
  BY <1>1, <1>4 DEF IInv, TypeOK, HandleOwned, Fill
<1>7. Intact'
  BY <1>1, <1>4, <1>5 DEF IInv, Intact, Fill
<1>8. \A b \in BytesOf(allocations[h]) : m_buf'[b] = <<p, calls[p]>>
  <2>1. allocations[h] \in Allocation /\ End(h) <= Size
    BY <1>1 DEF IInv, TypeOK, Layout, InBuffer, Live
  <2>2. BytesOf(allocations[h]) \subseteq Pos
    BY <2>1 DEF BytesOf, Pos, End, Allocation
  <2> QED BY <2>2, <1>1
<1>9. Clients'
  <2>1. ASSUME NEW q \in Producers, pc'[q] = "filled", q # p
        PROVE  \A b \in BytesOf(allocations[handle[q]]) : m_buf'[b] = <<q, calls[q]>>
    <3>1. pc[q] = "filled" /\ handle[q] \in Live
      BY <2>1, <1>1 DEF IInv, TypeOK, HandleOwned
    <3>2. handle[q] # h
      BY <3>1, <2>1, <1>1 DEF IInv, HandleOwned
    <3> QED BY <3>1, <3>2, <1>5 DEF IInv, Clients
  <2>2. \A q \in Producers : pc'[q] = "filled" =>
          \A b \in BytesOf(allocations'[handle'[q]]) : m_buf'[b] = <<q, calls'[q]>>
    BY <2>1, <1>8 DEF Fill
  <2>3. \A q \in Producers : pc'[q] # "idle" => want'[q] > 0 /\ calls'[q] > 0
    BY <1>1 DEF IInv, TypeOK, Clients, Fill
  <2>4. cpc' = cpc /\ Head_' = Head_ /\ HeadReady' = HeadReady
    BY DEF Fill, consVars, Head_, HeadReady
  <2> QED BY <2>2, <2>3, <2>4, <1>6 DEF IInv, Clients, HandleOwned
<1> QED BY <1>3, <1>4, <1>6, <1>7, <1>9 DEF IInv

LEMMA PopulateInv ==
  ASSUME IInv, NEW p \in Producers, Populate(p)
  PROVE  IInv'
<1>1. PICK h : h = handle[p]
  OBVIOUS
<1>2. /\ h \in Live /\ allocations[h].type = "Empty" /\ allocations[h].call = <<p, calls[p]>>
      /\ pc[p] = "filled" /\ pc' = [pc EXCEPT ![p] = "idle"]
      /\ \A b \in BytesOf(allocations[h]) : m_buf[b] = <<p, calls[p]>>
  BY <1>1 DEF IInv, HandleOwned, Clients, Populate
<1>3. \A i \in Live : allocations[i] \in Allocation
  BY DEF IInv, TypeOK, Live
<1>4. /\ Live' = Live
      /\ \A i \in Live : /\ allocations'[i] \in Allocation
                         /\ allocations'[i].begin = allocations[i].begin
                         /\ allocations'[i].size = allocations[i].size
                         /\ allocations'[i].call = allocations[i].call
                         /\ i # h => allocations'[i].type = allocations[i].type
                         /\ IsDummy(i)' = IsDummy(i)
      /\ allocations'[h].type = "Populated"
      /\ allocations' \in [lastUnfreedId .. allocationId - 1 -> Allocation]
  <2>1. allocations' = [allocations EXCEPT ![h].type = "Populated"]
    BY <1>1 DEF Populate, Mark
  <2>2. allocations \in [Live -> Allocation] /\ Live = lastUnfreedId .. allocationId - 1
    BY DEF IInv, TypeOK, Live
  <2>3. [allocations[h] EXCEPT !.type = "Populated"] \in Allocation
    BY <1>2, <1>3 DEF Allocation, AllocationType
  <2> QED BY <2>1, <2>2, <2>3, <1>2, <1>3 DEF Allocation, IsDummy, Live
<1>5. TypeOK'
  BY <1>4, <1>2 DEF IInv, TypeOK, Populate
<1>6. /\ \A i \in Live : End(i)' = End(i) /\ NextBegin(i)' = NextBegin(i)
      /\ Oldest' = Oldest
      /\ UNCHANGED <<m_buf, m_write, m_sizeAllocated, allocationId, lastUnfreedId>>
  BY <1>4 DEF End, NextBegin, Oldest, Head_, Populate, IInv, TypeOK, Live
<1>7. Layout'
  <2>1. InBuffer' /\ OneDummy' /\ Straight' /\ Wrapped' /\ LapOrder'
    BY <1>4, <1>6 DEF IInv, Layout, InBuffer, OneDummy, Straight, Wrapped, LapOrder
  <2>2. \A j \in Live : j + 1 < allocationId => j + 1 \in Live
    BY DEF IInv, TypeOK, Live
  <2>3. Chained'
    BY <1>4, <1>6, <2>2 DEF IInv, Layout, Chained
  <2> QED BY <2>1, <2>3 DEF Layout
<1>8. HandleOwned'
  <2> SUFFICES ASSUME NEW q \in Producers, pc'[q] \in {"fill", "filled"}
               PROVE  /\ handle'[q] \in Live'
                      /\ allocations'[handle'[q]].type = "Empty"
                      /\ allocations'[handle'[q]].call = <<q, calls'[q]>>
    BY DEF HandleOwned
  <2>1. q # p /\ pc[q] \in {"fill", "filled"}
    BY <1>2 DEF IInv, TypeOK
  <2>2. handle[q] \in Live /\ handle[q] # h
        /\ allocations[handle[q]].type = "Empty" /\ allocations[handle[q]].call = <<q, calls[q]>>
    BY <1>2, <2>1 DEF IInv, HandleOwned
  <2> QED BY <2>2, <1>4 DEF Populate
<1>9. Intact'
  BY <1>2, <1>4, <1>6 DEF IInv, Intact, BytesOf
<1>10. Clients'
  <2>1. \A q \in Producers : pc'[q] = "filled" => pc[q] = "filled" /\ q # p /\ handle[q] \in Live
    BY <1>2 DEF IInv, TypeOK, Clients
  <2>2. \A q \in Producers : pc'[q] = "filled" =>
          \A b \in BytesOf(allocations'[handle'[q]]) : m_buf'[b] = <<q, calls'[q]>>
    BY <2>1, <1>4 DEF IInv, Clients, Populate, BytesOf
  <2>3. \A q \in Producers : pc'[q] # "idle" => want'[q] > 0 /\ calls'[q] > 0
    BY <1>2 DEF IInv, TypeOK, Clients, Populate
  <2>4. cpc' \in {"holding", "read"} => cpc' = cpc
    BY DEF IInv, TypeOK, Populate
  <2>5. HeadReady => HeadReady' /\ (Head_.type = "Populated" => Head_'.type = "Populated")
    <3>1. HeadReady => lastUnfreedId \in Live
      BY DEF HeadReady, IInv, TypeOK, Live
    <3>2. HeadReady => lastUnfreedId # h
      BY <1>2 DEF HeadReady, Head_
    <3> QED BY <1>4, <1>6, <3>1, <3>2 DEF HeadReady, Head_, Live
  <2> QED BY <2>2, <2>3, <2>4, <2>5, <1>8 DEF IInv, Clients, HandleOwned
<1> QED BY <1>5, <1>7, <1>8, <1>9, <1>10 DEF IInv
-----------------------------------------------------------------------------
(* Freeing the oldest allocation.                                          *)

LEMMA FreeFacts ==
  ASSUME IInv, HeadReady, FreeHead, NEW h, h = lastUnfreedId
  PROVE  /\ h \in Live /\ h \in Nat /\ Head_ = allocations[h]
         /\ Live = h .. allocationId - 1 /\ Live' = Live \ {h}
         /\ \A i \in Live' : i > h /\ allocations'[i] = allocations[i]
         /\ \A i \in Live : allocations[i] \in Allocation
         /\ allocations' \in [lastUnfreedId' .. allocationId' - 1 -> Allocation]
         /\ lastUnfreedId' = h + 1 /\ allocationId' = allocationId /\ h < allocationId
<1>1. /\ Live = h .. allocationId - 1 /\ h \in Nat /\ allocationId \in Nat
      /\ \A i \in Live : allocations[i] \in Allocation
  BY DEF IInv, TypeOK, Live
<1>2. Live # {}
  BY DEF HeadReady, Live
<1>3. h \in Live /\ h < allocationId
  <2>1. PICK i \in Live : TRUE
    BY <1>2
  <2> QED BY <2>1, <1>1
<1>4. /\ Live' = Live \ {h}
      /\ allocations' = [i \in Live \ {h} |-> allocations[i]]
      /\ lastUnfreedId' = h + 1 /\ allocationId' = allocationId
  BY DEF FreeHead, Restrict, Live
<1>5. Live \ {h} = h + 1 .. allocationId - 1
  BY <1>1
<1>6. allocations' \in [h + 1 .. allocationId - 1 -> Allocation]
  BY <1>1, <1>4, <1>5
<1> QED BY <1>1, <1>3, <1>4, <1>5, <1>6 DEF Head_

LEMMA FreeLayout ==
  ASSUME IInv, HeadReady, FreeHead
  PROVE  Layout' /\ m_sizeAllocated' \in 0 .. Size - 1
<1>1. PICK h : h = lastUnfreedId
  OBVIOUS
<1>2. PICK b \in Nat, z \in Nat : b = allocations[h].begin /\ z = allocations[h].size
  BY <1>1, FreeFacts DEF Allocation
<1>A. /\ h \in Live /\ h \in Nat /\ Head_ = allocations[h] /\ h < allocationId
      /\ Live = h .. allocationId - 1 /\ Live' = Live \ {h}
      /\ \A i \in Live' : i > h /\ allocations'[i] = allocations[i]
      /\ \A i \in Live : allocations[i] \in Allocation
      /\ lastUnfreedId' = h + 1 /\ allocationId' = allocationId /\ m_write' = m_write
  BY <1>1, FreeFacts DEF FreeHead
<1> USE <1>A
<1>3. Oldest = b /\ End(h) = b + z
  BY <1>1, <1>2 DEF Oldest, End
<1>4. m_write \in Nat /\ m_sizeAllocated \in Nat /\ m_write <= Size /\ allocationId \in Nat
  BY DEF IInv, TypeOK
<1>5. z <= m_sizeAllocated
  <2>1. CASE \A i \in Live : ~IsDummy(i)
    BY <2>1, <1>3, <1>4 DEF IInv, Layout, Straight
  <2>2. ASSUME NEW d \in Live, IsDummy(d) PROVE z <= m_sizeAllocated
    <3>1. Size + m_write <= m_sizeAllocated + b
      BY <2>2, <1>3 DEF IInv, Layout, Wrapped
    <3>2. b + z <= Size
      BY <1>3 DEF IInv, Layout, InBuffer
    <3> QED BY <3>1, <3>2, <1>4
  <2> QED BY <2>1, <2>2
<1>6. PICK s \in Nat : s = m_sizeAllocated' /\ s + z = m_sizeAllocated
  <2>1. m_sizeAllocated' = m_sizeAllocated - z
    BY <1>2 DEF FreeHead
  <2>2. m_sizeAllocated - z \in Nat /\ (m_sizeAllocated - z) + z = m_sizeAllocated
    BY <1>4, <1>5
  <2> QED BY <2>1, <2>2
<1>7. \A i \in Live' : /\ i \in Live /\ i \in Nat /\ IsDummy(i)' = IsDummy(i) /\ End(i)' = End(i)
                       /\ NextBegin(i)' = NextBegin(i) /\ End(i) \in Nat
                       /\ allocations[i].begin \in Nat
  BY DEF IsDummy, End, NextBegin, Allocation
<1>8. Oldest' = NextBegin(h)
  <2>1. CASE h + 1 < allocationId
    <3>1. h + 1 \in Live /\ h + 1 # h
      BY <2>1, <1>4
    <3>2. Oldest' = allocations[h + 1].begin
      BY <2>1, <3>1 DEF Oldest, Head_
    <3> QED BY <2>1, <3>2 DEF IInv, Layout, Chained
  <2>2. CASE h + 1 = allocationId
    BY <2>2 DEF Oldest, IInv, Layout, Chained
  <2> QED BY <2>1, <2>2, <1>4
<1>9. InBuffer' /\ OneDummy'
  BY <1>7 DEF IInv, Layout, InBuffer, OneDummy
<1>10. Chained'
  <2>1. \A i \in Live' : i + 1 < allocationId => i + 1 \in Live'
    BY <1>4
  <2> QED BY <1>7, <2>1 DEF IInv, Layout, Chained
<1>11. Straight'
  <2> SUFFICES ASSUME \A i \in Live' : ~IsDummy(i)'
               PROVE  /\ Oldest' <= m_write
                      /\ m_write <= s + Oldest'
                      /\ \A i \in Live' : Oldest' <= allocations'[i].begin /\ End(i)' <= m_write
    BY <1>6 DEF Straight
  <2>1. CASE IsDummy(h)
    <3>1. Oldest' = 0
      BY <2>1, <1>8 DEF NextBegin
    <3>2. b + z = Size /\ Size + m_write <= m_sizeAllocated + b
      BY <2>1, <1>3 DEF IInv, Layout, Wrapped, InBuffer
    <3>3. m_write <= s
      BY <3>2, <1>4, <1>6, SMTT(30)
    <3>4. \A i \in Live' : End(i) <= m_write
      BY <2>1, <1>7 DEF IInv, Layout, Wrapped
    <3> QED BY <3>1, <3>3, <3>4, <1>4, <1>7
  <2>2. CASE ~IsDummy(h)
    <3>1. Oldest' = b + z
      BY <2>2, <1>3, <1>8 DEF NextBegin
    <3>2. \A i \in Live : ~IsDummy(i)
      BY <2>2, <1>7
    <3>3. m_write <= m_sizeAllocated + b /\ \A i \in Live : End(i) <= m_write
      BY <3>2, <1>3 DEF IInv, Layout, Straight
    <3>4. \A i \in Live' : b + z <= allocations[i].begin
      BY <3>2, <1>3, <1>7 DEF IInv, Layout, LapOrder
    <3>5. m_write <= s + (b + z)
      BY <3>3, <1>4, <1>6
    <3> QED BY <3>1, <3>3, <3>4, <3>5, <1>3, <1>7
  <2> QED BY <2>1, <2>2
<1>12. Wrapped'
  <2> SUFFICES ASSUME NEW d \in Live', IsDummy(d)'
               PROVE  /\ m_write <= Oldest'
                      /\ Size + m_write <= s + Oldest'
                      /\ \A i \in Live' : /\ i <= d => Oldest' <= allocations'[i].begin
                                          /\ i > d => End(i)' <= m_write
    BY <1>6 DEF Wrapped
  <2>1. d \in Live /\ IsDummy(d) /\ d # h
    BY <1>7
  <2>2. ~IsDummy(h)
    BY <2>1 DEF IInv, Layout, OneDummy
  <2>3. Oldest' = b + z
    BY <2>2, <1>3, <1>8 DEF NextBegin
  <2>4. /\ m_write <= b /\ Size + m_write <= m_sizeAllocated + b
        /\ \A i \in Live : i > d => End(i) <= m_write
    BY <2>1, <1>3 DEF IInv, Layout, Wrapped
  <2>5. \A i \in Live' : i <= d => b + z <= allocations[i].begin
    <3> SUFFICES ASSUME NEW i \in Live', i <= d PROVE b + z <= allocations[i].begin
      OBVIOUS
    <3>1. \A e \in Live : IsDummy(e) => e = d
      BY <2>1 DEF IInv, Layout, OneDummy
    <3>2. h < i /\ i \in Live /\ \A e \in Live : IsDummy(e) => e < h \/ i <= e
      BY <3>1, <1>7
    <3> QED BY <3>2, <1>3 DEF IInv, Layout, LapOrder
  <2>6. m_write <= b + z /\ Size + m_write <= s + (b + z)
    BY <2>4, <1>4, <1>6, SMTT(30)
  <2> QED BY <2>3, <2>4, <2>5, <2>6, <1>7
<1>13. LapOrder'
  <2> SUFFICES ASSUME NEW i \in Live', NEW j \in Live', i < j,
                      \A d \in Live' : IsDummy(d)' => d < i \/ j <= d
               PROVE  End(i)' <= allocations'[j].begin
    BY DEF LapOrder
  <2>1. \A d \in Live : IsDummy(d) => d < i \/ j <= d
    BY <1>7
  <2> QED BY <2>1, <1>7 DEF IInv, Layout, LapOrder
<1>14. m_sizeAllocated' \in 0 .. Size - 1
  <2>1. PICK t \in 0 .. Size - 1 : t = m_sizeAllocated
    BY DEF IInv, TypeOK
  <2>2. s \in 0 .. Size - 1
    BY <2>1, <1>2, <1>6
  <2> QED BY <2>2, <1>6
<1> QED BY <1>14, <1>9, <1>10, <1>11, <1>12, <1>13 DEF Layout

LEMMA FreeInv ==
  ASSUME IInv, HeadReady, FreeHead, delivered' \in Seq(Calls \cup {Blank})
  PROVE  IInv'
<1>1. PICK h : h = lastUnfreedId
  OBVIOUS
<1>2. /\ h \in Live /\ h \in Nat /\ Head_ = allocations[h] /\ Live' = Live \ {h}
      /\ \A i \in Live' : i \in Live /\ allocations'[i] = allocations[i]
      /\ allocations' \in [lastUnfreedId' .. allocationId' - 1 -> Allocation]
      /\ lastUnfreedId' = h + 1 /\ allocationId' = allocationId /\ h < allocationId
      /\ UNCHANGED <<m_buf, m_write, pc, want, handle, calls>> /\ cpc' = "notify"
  BY <1>1, FreeFacts DEF FreeHead, prodVars
<1>3. Layout' /\ m_sizeAllocated' \in 0 .. Size - 1
  BY FreeLayout
<1>4. TypeOK'
  BY <1>2, <1>3 DEF IInv, TypeOK
<1>5. allocations[h].type # "Empty"
  BY <1>2 DEF HeadReady
<1>6. HandleOwned'
  BY <1>2, <1>5 DEF IInv, HandleOwned
<1>7. Intact'
  BY <1>2 DEF IInv, Intact
<1>8. Clients'
  <2>1. \A q \in Producers : pc[q] \in {"fill", "filled"} => handle[q] \in Live'
    BY <1>2, <1>5 DEF IInv, HandleOwned
  <2> QED BY <1>2, <2>1 DEF IInv, Clients
<1> QED BY <1>3, <1>4, <1>6, <1>7, <1>8 DEF IInv
-----------------------------------------------------------------------------
(* The invariant, and what it implies.                                     *)

\* The layout keeps allocations apart: two of the same lap are in order, and
\* those after a Dummy end before the oldest one begins.
LEMMA Apart == IInv => NoOverlap
<1> SUFFICES ASSUME IInv PROVE NoOverlap
  OBVIOUS
<1>1. /\ \A i \in Live : allocations[i] \in Allocation /\ i \in Int
      /\ m_write \in Nat
  BY DEF IInv, TypeOK, Live
<1>2. ASSUME NEW i \in Live, NEW j \in Live, i < j
      PROVE  BytesOf(allocations[i]) \cap BytesOf(allocations[j]) = {}
  <2>1. CASE \A d \in Live : IsDummy(d) => d < i \/ j <= d
    <3>1. End(i) <= allocations[j].begin
      BY <1>2, <2>1 DEF IInv, Layout, LapOrder
    <3> QED BY <3>1, <1>1 DEF BytesOf, End, Allocation
  <2>2. ASSUME NEW d \in Live, IsDummy(d), ~(d < i), ~(j <= d)
        PROVE  BytesOf(allocations[i]) \cap BytesOf(allocations[j]) = {}
    <3>1. i <= d /\ j > d
      BY <2>2, <1>1
    <3>2. m_write <= Oldest /\ Oldest <= allocations[i].begin /\ End(j) <= m_write
      BY <2>2, <3>1 DEF IInv, Layout, Wrapped
    <3>3. Oldest \in Int
      <4>1. lastUnfreedId < allocationId /\ lastUnfreedId \in Live
        BY DEF IInv, TypeOK, Live
      <4> QED BY <4>1, <1>1 DEF Oldest, Head_, Allocation
    <3>4. End(j) <= allocations[i].begin
      BY <3>2, <3>3, <1>1 DEF End, Allocation
    <3> QED BY <3>4, <1>1 DEF BytesOf, End, Allocation
  <2> QED BY <2>1, <2>2
<1> SUFFICES ASSUME NEW i \in Live, NEW j \in Live, i # j
             PROVE  BytesOf(allocations[i]) \cap BytesOf(allocations[j]) = {}
  BY DEF NoOverlap
<1>3. i < j \/ j < i
  BY <1>1
<1> QED BY <1>2, <1>3

LEMMA DequeueInv ==
  ASSUME IInv, Dequeue \/ Consume
  PROVE  IInv'
<1>1. HeadReady /\ FreeHead
  BY DEF Dequeue, Consume
<1>2. delivered \in Seq(Calls \cup {Blank})
  BY DEF IInv, TypeOK
<1>3. Head_.type = "Populated" => ReadBack(Head_) \in Calls \cup {Blank}
  BY <1>1, ReadBackType
<1>4. \/ delivered' = delivered
      \/ Head_.type = "Populated" /\ delivered' = Append(delivered, ReadBack(Head_))
  BY DEF Dequeue, Consume
<1>5. delivered' \in Seq(Calls \cup {Blank})
  BY <1>2, <1>3, <1>4
<1> QED BY <1>1, <1>5, FreeInv

LEMMA StutterInv == IInv /\ UNCHANGED vars => IInv'
BY MoveInv DEF vars, prodVars, consVars, IInv, TypeOK, Clients

\* Every step preserves the inductive invariant.
LEMMA StepInv == IInv /\ [Next]_vars => IInv'
<1> SUFFICES ASSUME IInv, [Next]_vars PROVE IInv'
  OBVIOUS
<1>1. ASSUME NEW p \in Producers, NEW n \in MsgSizes, StartAlloc(p, n) PROVE IInv'
  BY <1>1, StartAllocInv
<1>2. ASSUME NEW p \in Producers, AllocReserve(p) \/ AllocDummy(p) PROVE IInv'
  BY <1>2, AllocInv
<1>3. ASSUME NEW p \in Producers, Fill(p) PROVE IInv'
  BY <1>3, FillInv, Apart
<1>4. ASSUME NEW p \in Producers, Populate(p) PROVE IInv'
  BY <1>4, PopulateInv
<1>5. ASSUME NEW p \in Producers, AllocWait(p) \/ SpuriousWake(p) \/ Abandon(p) PROVE IInv'
  BY <1>5, QuietInv
<1>6. CASE FullWait \/ SpuriousFullWake \/ LastUnread \/ ReadOut \/ NotifyFree
  BY <1>6, QuietInv
<1>7. CASE Dequeue \/ Consume
  BY <1>7, DequeueInv
<1>8. CASE UNCHANGED vars
  BY <1>8, StutterInv
<1> QED BY <1>1, <1>2, <1>3, <1>4, <1>5, <1>6, <1>7, <1>8 DEF Next

\* Every reachable state satisfies the inductive invariant: the allocations lie
\* in order around the buffer, each owned by the thread that thinks it owns it.
THEOREM Inductive == Spec => []IInv
<1>1. Init => IInv
  BY InitInv
<1>2. IInv /\ [Next]_vars => IInv'
  BY StepInv
<1> QED BY <1>1, <1>2, PTL DEF Spec

\* The state stays within the types of ringbuffer.h's fields: positions in the
\* buffer, ids in order, allocations for exactly the ids not yet dequeued.
THEOREM TypeCorrect == Spec => []TypeOK
<1>1. IInv => TypeOK
  BY DEF IInv
<1> QED BY <1>1, Inductive, PTL

\* alloc_inner never lends a byte of m_buf twice, whatever the sizes asked for,
\* the number of threads, and how often the buffer wraps.
THEOREM Disjoint == Spec => []NoOverlap
BY Inductive, Apart, PTL

\* What populate has published stays as it was written until it is dequeued.
THEOREM Unaltered == Spec => []Intact
<1>1. IInv => Intact
  BY DEF IInv
<1> QED BY <1>1, Inductive, PTL

\* Between alloc and populate a caller's handle is a live, Empty allocation of
\* its own: populate's assertion never fails.
THEOREM Owned == Spec => []HandleOwned
<1>1. IInv => HandleOwned
  BY DEF IInv
<1> QED BY <1>1, Inductive, PTL
-----------------------------------------------------------------------------
(* No wakeup is lost, as long as no byte is: padding of size 0 is counted as *)
(* one byte allocated, which no dequeue gives back.                          *)

NoEmptyPadding == \A p \in Producers : AllocDummy(p) => m_write # Size

\* m_sizeAllocated counts the bytes between the oldest allocation and m_write.
Exact ==
  /\ (\A i \in Live : ~IsDummy(i)) => m_write = m_sizeAllocated + Oldest
  /\ \A d \in Live : IsDummy(d) => Size + m_write = m_sizeAllocated + Oldest

\* A call asks for less than the buffer holds.
WantsFit == \A p \in Producers : pc[p] # "idle" => want[p] < Size

WakeIInv == IInv /\ Exact /\ WantsFit /\ NoLostWakeup

\* With nothing allocated there is nothing to wait for.
LEMMA EmptyExact ==
  ASSUME IInv, Exact, Live = {}
  PROVE  m_sizeAllocated = 0
<1>1. ~(lastUnfreedId < allocationId)
  <2>1. Live = lastUnfreedId .. allocationId - 1 /\ lastUnfreedId \in Nat /\ allocationId \in Nat
    BY DEF IInv, TypeOK, Live
  <2>2. lastUnfreedId < allocationId => lastUnfreedId \in Live
    BY <2>1
  <2> QED BY <2>2
<1>2. Oldest = m_write /\ m_write = m_sizeAllocated + Oldest
  BY <1>1 DEF Oldest, Exact
<1> QED BY <1>2 DEF IInv, TypeOK

\* What a new allocation changes: neither the oldest nor the others.
LEMMA AppendOldest ==
  ASSUME IInv, NEW a \in Allocation, Append1(a), a.begin = m_write,
         NEW k, k = allocationId
  PROVE  /\ Oldest' = Oldest /\ Live' = Live \cup {k} /\ k \notin Live
         /\ Oldest \in Nat
         /\ \A i \in Live : IsDummy(i)' = IsDummy(i)
         /\ IsDummy(k)' <=> a.type = "Dummy"
<1>1. /\ Live = lastUnfreedId .. k - 1 /\ k \in Nat /\ lastUnfreedId \in Nat /\ lastUnfreedId <= k
      /\ \A i \in Live : allocations[i] \in Allocation
  BY DEF IInv, TypeOK, Live
<1>2. /\ Live' = Live \cup {k} /\ k \notin Live
      /\ \A i \in Live : allocations'[i] = allocations[i]
      /\ allocations'[k].begin = m_write /\ allocations'[k].type = a.type
      /\ lastUnfreedId' = lastUnfreedId /\ allocationId' = k + 1
  BY <1>1, AppendFacts DEF Append1
<1>3. CASE lastUnfreedId < k
  <2>1. lastUnfreedId \in Live
    BY <1>1, <1>3
  <2>2. Oldest = Head_.begin /\ Oldest' = Head_'.begin /\ Head_' = Head_ /\ Head_ \in Allocation
    BY <1>1, <1>2, <1>3, <2>1 DEF Oldest, Head_
  <2> QED BY <1>2, <2>2 DEF IsDummy, Allocation
<1>4. CASE lastUnfreedId = k
  <2>1. Oldest = m_write /\ Oldest' = m_write
    BY <1>1, <1>2, <1>4 DEF Oldest, Head_
  <2> QED BY <1>2, <2>1 DEF IsDummy, IInv, TypeOK
<1> QED BY <1>1, <1>3, <1>4

LEMMA ExactInv ==
  ASSUME IInv, Exact, [Next]_vars, [NoEmptyPadding]_vars
  PROVE  Exact'
<1>0. m_write \in Nat /\ m_sizeAllocated \in Nat /\ Size \in Nat
  BY SizeAssumption DEF IInv, TypeOK
<1>1. ASSUME NEW p \in Producers, AllocReserve(p) PROVE Exact'
  <2>1. PICK k, n, a : /\ k = allocationId /\ n = want[p]
                       /\ a = [size |-> n, begin |-> m_write, type |-> "Empty",
                               call |-> <<p, calls[p]>>]
    OBVIOUS
  <2>2. a \in Allocation /\ Append1(a) /\ a.begin = m_write /\ a.type = "Empty"
    BY <1>1, <2>1, ReserveAllocation DEF AllocReserve, Append1
  <2>3. m_write' = m_write + n /\ m_sizeAllocated' = m_sizeAllocated + n /\ n \in Nat
    BY <1>1, <2>1 DEF AllocReserve, IInv, TypeOK
  <2>4. /\ Oldest' = Oldest /\ Live' = Live \cup {k} /\ Oldest \in Nat
        /\ \A i \in Live : IsDummy(i)' = IsDummy(i)
        /\ ~IsDummy(k)'
    BY <2>1, <2>2, AppendOldest
  <2> QED BY <1>0, <2>3, <2>4 DEF Exact
<1>2. ASSUME NEW p \in Producers, AllocDummy(p) PROVE Exact'
  <2>1. PICK k, n, a : /\ k = allocationId /\ n = Size - m_write
                       /\ a = [size |-> n, begin |-> m_write, type |-> "Dummy", call |-> Blank]
    OBVIOUS
  <2>2. n \in 0 .. Size /\ n # 0
    <3>1. ~UNCHANGED vars
      BY <1>2, <1>0 DEF AllocDummy, vars, bufVars, IInv, TypeOK
    <3>2. m_write # Size
      BY <1>2, <3>1 DEF NoEmptyPadding
    <3> QED BY <2>1, <3>2 DEF IInv, TypeOK
  <2>3. a \in Allocation /\ Append1(a) /\ a.begin = m_write /\ a.type = "Dummy"
    <3>1. a \in Allocation
      BY <2>1, <2>2 DEF Allocation, AllocationType, IInv, TypeOK
    <3> QED BY <1>2, <2>1, <3>1 DEF AllocDummy, Append1, bufVars
  <2>4. m_write' = 0 /\ m_sizeAllocated' = m_sizeAllocated + n
    BY <1>2, <2>1, <2>2 DEF AllocDummy, Counted
  <2>5. /\ Oldest' = Oldest /\ Live' = Live \cup {k} /\ Oldest \in Nat /\ IsDummy(k)'
    BY <2>1, <2>3, AppendOldest
  <2>6. m_write = m_sizeAllocated + Oldest
    BY <1>2, DummyLayout DEF Exact
  <2> QED BY <1>0, <2>1, <2>4, <2>5, <2>6 DEF Exact
<1>3. CASE Dequeue \/ Consume
  <2>1. PICK h : h = lastUnfreedId
    OBVIOUS
  <2>2. HeadReady /\ FreeHead
    BY <1>3 DEF Dequeue, Consume
  <2>3. /\ h \in Live /\ h \in Nat /\ Head_ = allocations[h]
        /\ Live = h .. allocationId - 1 /\ Live' = Live \ {h}
        /\ \A i \in Live' : allocations'[i] = allocations[i]
        /\ lastUnfreedId' = h + 1 /\ allocationId' = allocationId /\ h < allocationId
        /\ Head_ \in Allocation /\ m_write' = m_write
        /\ m_sizeAllocated' = m_sizeAllocated - Head_.size
    BY <2>1, <2>2, FreeFacts DEF FreeHead
  <2>4. Oldest = Head_.begin /\ End(h) = Head_.begin + Head_.size
        /\ Head_.begin \in Nat /\ Head_.size \in Nat
    BY <2>1, <2>3 DEF Oldest, End, Allocation
  <2>5. allocationId \in Nat
    BY DEF IInv, TypeOK
  <2>6. Oldest' = NextBegin(h)
    <3>1. CASE h + 1 < allocationId
      <4>1. h + 1 \in Live /\ h + 1 # h
        BY <2>3, <2>5, <3>1
      <4>2. Oldest' = allocations[h + 1].begin
        BY <2>3, <3>1, <4>1 DEF Oldest, Head_
      <4> QED BY <2>3, <3>1, <4>2 DEF IInv, Layout, Chained
    <3>2. CASE h + 1 = allocationId
      BY <2>3, <3>2 DEF Oldest, IInv, Layout, Chained
    <3> QED BY <2>3, <2>5, <3>1, <3>2
  <2>7. \A i \in Live' : i \in Live /\ i # h /\ IsDummy(i)' = IsDummy(i)
    BY <2>3 DEF IsDummy
  <2>8. CASE IsDummy(h)
    <3>1. \A i \in Live' : ~IsDummy(i)'
      BY <2>3, <2>7, <2>8 DEF IInv, Layout, OneDummy
    <3>2. End(h) = Size /\ Size + m_write = m_sizeAllocated + Oldest
      BY <2>3, <2>8 DEF Exact, IInv, Layout, InBuffer
    <3>3. m_write' = m_sizeAllocated' + Oldest'
      BY <1>0, <2>3, <2>4, <2>6, <2>8, <3>2, SMTT(30) DEF NextBegin
    <3> QED BY <3>1, <3>3 DEF Exact
  <2>9. CASE ~IsDummy(h)
    <3>1. m_sizeAllocated' + Oldest' = m_sizeAllocated + Oldest
      BY <1>0, <2>3, <2>4, <2>6, <2>9 DEF NextBegin
    <3>2. (\A i \in Live' : ~IsDummy(i)') => \A i \in Live : ~IsDummy(i)
      BY <2>3, <2>7, <2>9
    <3> QED BY <2>3, <2>7, <3>1, <3>2 DEF Exact
  <2> QED BY <2>8, <2>9
<1>4. ASSUME NEW p \in Producers, Populate(p) PROVE Exact'
  <2>1. PICK h : h = handle[p]
    OBVIOUS
  <2>2. /\ h \in Live /\ allocations[h].type = "Empty"
        /\ allocations' = [allocations EXCEPT ![h].type = "Populated"]
        /\ UNCHANGED <<lastUnfreedId, allocationId, m_write, m_sizeAllocated>>
    BY <1>4, <2>1 DEF IInv, HandleOwned, Populate, Mark
  <2>3. \A i \in Live : allocations[i] \in Allocation
    BY DEF IInv, TypeOK, Live
  <2>4. /\ Live' = Live
        /\ \A i \in Live : /\ allocations'[i].begin = allocations[i].begin
                           /\ i # h => allocations'[i].type = allocations[i].type
        /\ allocations'[h].type = "Populated"
    BY <2>2, <2>3 DEF Live, Allocation
  <2>5. \A i \in Live : IsDummy(i)' = IsDummy(i)
    BY <2>2, <2>4 DEF IsDummy
  <2>6. lastUnfreedId < allocationId => lastUnfreedId \in Live
    BY DEF IInv, TypeOK, Live
  <2>7. Oldest' = Oldest
    BY <2>2, <2>4, <2>6 DEF Oldest, Head_
  <2> QED BY <2>2, <2>4, <2>5, <2>7 DEF Exact
<1>5. ASSUME UNCHANGED <<m_write, m_sizeAllocated, allocations, allocationId, lastUnfreedId>>
      PROVE  Exact'
  BY <1>5 DEF Exact, Live, IsDummy, Oldest, Head_
<1>6. CASE \E p \in Producers : \/ \E n \in MsgSizes : StartAlloc(p, n)
                                \/ AllocWait(p) \/ SpuriousWake(p) \/ Fill(p) \/ Abandon(p)
  BY <1>5, <1>6 DEF StartAlloc, AllocWait, SpuriousWake, Fill, Abandon, bufVars
<1>7. CASE FullWait \/ SpuriousFullWake \/ LastUnread \/ ReadOut \/ NotifyFree \/ UNCHANGED vars
  BY <1>5, <1>7 DEF FullWait, SpuriousFullWake, LastUnread, ReadOut, NotifyFree, vars, bufVars
<1> QED BY <1>1, <1>2, <1>3, <1>4, <1>6, <1>7 DEF Next

LEMMA WantsInv ==
  ASSUME IInv, WantsFit, [Next]_vars, \A n \in MsgSizes : n < Size
  PROVE  WantsFit'
<1> USE DEF IInv, TypeOK
<1>1. ASSUME NEW p \in Producers, NEW n \in MsgSizes, StartAlloc(p, n) PROVE WantsFit'
  BY <1>1 DEF WantsFit, StartAlloc
<1>5. CASE \E p \in Producers : AllocReserve(p) \/ AllocDummy(p) \/ AllocWait(p) \/ SpuriousWake(p)
  BY <1>5 DEF WantsFit, AllocReserve, AllocDummy, AllocWait, SpuriousWake, WakeProducer,
     freeWaiters, prodVars
<1>2. CASE \E p \in Producers : Fill(p) \/ Populate(p) \/ Abandon(p)
  BY <1>2 DEF WantsFit, Fill, Populate, Abandon
<1>3. CASE FullWait \/ SpuriousFullWake \/ LastUnread \/ ReadOut \/ UNCHANGED vars
  BY <1>3 DEF WantsFit, FullWait, SpuriousFullWake, LastUnread, ReadOut, vars, prodVars
<1>4. CASE Dequeue \/ Consume \/ NotifyFree
  BY <1>4 DEF WantsFit, Dequeue, Consume, FreeHead, NotifyFree, WakeProducer, freeWaiters, prodVars
<1> QED BY <1>1, <1>2, <1>3, <1>4, <1>5 DEF Next

LEMMA WakeInv ==
  ASSUME IInv, Exact, WantsFit, NoLostWakeup, [Next]_vars
  PROVE  NoLostWakeup'
<1> USE DEF IInv, TypeOK
<1>1. ASSUME NEW p \in Producers, AllocWait(p) PROVE NoLostWakeup'
  <2>1. m_sizeAllocated # 0
    BY <1>1, SizeAssumption DEF AllocWait, HasRoom, WantsFit
  <2>2. Live # {}
    BY <2>1, EmptyExact
  <2> QED BY <1>1, <2>2 DEF NoLostWakeup, AllocWait, bufVars, Live
<1>2. ASSUME NEW p \in Producers, AllocReserve(p) \/ AllocDummy(p) PROVE NoLostWakeup'
  <2>1. allocationId \in Live'
    BY <1>2 DEF AllocReserve, AllocDummy, Insert, Live
  <2> QED BY <2>1 DEF NoLostWakeup
<1>3. ASSUME NEW p \in Producers, pc'[p] = "alloc" PROVE NoLostWakeup'
  BY <1>3 DEF NoLostWakeup
<1>4. ASSUME NEW p \in Producers, \/ \E n \in MsgSizes : StartAlloc(p, n)
                                  \/ SpuriousWake(p)
      PROVE  NoLostWakeup'
  <2>1. pc'[p] = "alloc"
    BY <1>4 DEF StartAlloc, SpuriousWake, WakeProducer
  <2> QED BY <1>3, <2>1
<1>5. ASSUME NEW p \in Producers, Fill(p) \/ Populate(p) \/ Abandon(p) PROVE NoLostWakeup'
  <2>1. /\ Live' = Live /\ (cpc = "notify" => cpc' = "notify")
        /\ \A q \in Producers : pc'[q] = "wait" <=> pc[q] = "wait"
        /\ \A q \in Producers : pc'[q] = "alloc" <=> pc[q] = "alloc"
    BY <1>5 DEF Fill, Populate, Mark, Abandon, bufVars, consVars, Live
  <2> QED BY <2>1 DEF NoLostWakeup, freeWaiters
<1>6. CASE Dequeue \/ Consume
  BY <1>6 DEF Dequeue, Consume, FreeHead, NoLostWakeup
<1>7. CASE NotifyFree
  <2>1. ASSUME NEW p \in freeWaiters, WakeProducer(p) PROVE NoLostWakeup'
    <3>1. p \in Producers /\ pc'[p] = "alloc"
      BY <2>1 DEF freeWaiters, WakeProducer
    <3> QED BY <1>3, <3>1
  <2>2. CASE freeWaiters = {} /\ UNCHANGED prodVars
    BY <2>2 DEF NoLostWakeup, freeWaiters, prodVars
  <2> QED BY <1>7, <2>1, <2>2 DEF NotifyFree
<1>8. CASE FullWait \/ SpuriousFullWake \/ LastUnread \/ ReadOut \/ UNCHANGED vars
  <2>1. Live' = Live /\ pc' = pc /\ (cpc = "notify" => cpc' = "notify")
    BY <1>8 DEF FullWait, SpuriousFullWake, LastUnread, ReadOut, vars, bufVars, prodVars, consVars,
       Live
  <2> QED BY <2>1 DEF NoLostWakeup, freeWaiters
<1> QED BY <1>1, <1>2, <1>4, <1>5, <1>6, <1>7, <1>8 DEF Next

\* A call that waits for room is woken: by a dequeue or a notify_one still to come,
\* or behind another call that tests for room.  This is where the byte counted for
\* an empty padding matters: without that byte leaked, an empty buffer has room for
\* every message smaller than it.
THEOREM WaitersWoken ==
  ASSUME \A n \in MsgSizes : n < Size
  PROVE  Spec /\ [][NoEmptyPadding]_vars => []NoLostWakeup
<1>1. Init => WakeIInv
  <2> SUFFICES ASSUME Init PROVE WakeIInv
    OBVIOUS
  <2>1. IInv
    BY InitInv
  <2>2. Live = {} /\ Oldest = m_write /\ m_write = 0 /\ m_sizeAllocated = 0
    BY DEF Init, Live, Oldest
  <2>3. Exact
    BY <2>2 DEF Exact
  <2> QED BY <2>1, <2>3 DEF WakeIInv, Init, WantsFit, NoLostWakeup, freeWaiters
<1>2. WakeIInv /\ [Next]_vars /\ [NoEmptyPadding]_vars => WakeIInv'
  BY StepInv, ExactInv, WantsInv, WakeInv DEF WakeIInv
<1>3. WakeIInv => NoLostWakeup
  BY DEF WakeIInv
<1> QED BY <1>1, <1>2, <1>3, PTL DEF Spec
-----------------------------------------------------------------------------
(* The ring buffer implements LogQueue: seen through Queue's refinement    *)
(* mapping, every step is one step of the queue or none.                   *)

\* Nothing is held at first.
LEMMA QueueInit == Init => Queue!Init
BY DEF Init, Queue!Init, Held, Live

\* Steps the queue does not see: nothing it is made of changes.
LEMMA Unseen ==
  ASSUME UNCHANGED <<calls, allocationId, delivered>>,
         {p \in Producers : pc'[p] \in {"alloc", "wait"}}
           = {p \in Producers : pc[p] \in {"alloc", "wait"}},
         Held' = Held,
         \A i \in Held : /\ allocations'[i].call = allocations[i].call
                         /\ allocations'[i].type = allocations[i].type
  PROVE  UNCHANGED Queue!vars
BY DEF Queue!vars

\* alloc is called.
LEMMA EnterStep ==
  ASSUME IInv, NEW p \in Producers, NEW n \in MsgSizes, StartAlloc(p, n)
  PROVE  Queue!Enter(p)
<1>1. Held' = Held /\ allocations' = allocations
  BY DEF StartAlloc, bufVars, consVars, Held, Live
<1> QED BY <1>1 DEF Queue!Enter, StartAlloc, bufVars, consVars, IInv, TypeOK

\* alloc_inner reserves, or pads.
LEMMA ReserveStep ==
  ASSUME IInv, NEW p \in Producers, AllocReserve(p)
  PROVE  Queue!Reserve(p)
<1>1. PICK k : k = allocationId
  OBVIOUS
<1>2. /\ allocations' = Insert(allocations, k,
           [size |-> want[p], begin |-> m_write, type |-> "Empty", call |-> <<p, calls[p]>>])
      /\ cpc' = cpc /\ lastUnfreedId' = lastUnfreedId
  BY <1>1 DEF AllocReserve, consVars
<1>3. k \notin Live /\ (cpc = "read" => k # lastUnfreedId)
  BY <1>1 DEF IInv, TypeOK, Live, Clients, HeadReady
<1>4. /\ Live' = Live \cup {k}
      /\ \A i \in Live : allocations'[i] = allocations[i]
      /\ allocations'[k].type = "Empty" /\ allocations'[k].call = <<p, calls[p]>>
  BY <1>2, <1>3 DEF Insert, Live
<1>5. Held' = Held \cup {k} /\ Held \subseteq Live /\ k \notin Held
  BY <1>2, <1>3, <1>4 DEF Held
<1>6. [i \in Held' |-> allocations'[i].call]
        = Queue!Insert([i \in Held |-> allocations[i].call], k, <<p, calls[p]>>)
  BY <1>3, <1>4, <1>5 DEF Queue!Insert
<1>7. {i \in Held' : allocations'[i].type = "Populated"}
        = {i \in Held : allocations[i].type = "Populated"}
  BY <1>4, <1>5
<1>8. {q \in Producers : pc'[q] \in {"alloc", "wait"}}
        = {q \in Producers : pc[q] \in {"alloc", "wait"}} \ {p}
  BY DEF AllocReserve, IInv, TypeOK
<1> QED BY <1>1, <1>6, <1>7, <1>8 DEF Queue!Reserve, AllocReserve, consVars

LEMMA SkipStep ==
  ASSUME IInv, NEW p \in Producers, AllocDummy(p)
  PROVE  Queue!Skip
<1>1. PICK k : k = allocationId
  OBVIOUS
<1>2. /\ allocations' = Insert(allocations, k,
           [size |-> Size - m_write, begin |-> m_write, type |-> "Dummy", call |-> Blank])
      /\ cpc' = cpc /\ lastUnfreedId' = lastUnfreedId
  BY <1>1 DEF AllocDummy, consVars
<1>3. k \notin Live
  BY <1>1 DEF IInv, TypeOK, Live
<1>4. /\ Live' = Live \cup {k}
      /\ \A i \in Live : allocations'[i] = allocations[i]
      /\ allocations'[k].type = "Dummy"
  BY <1>2, <1>3 DEF Insert, Live
<1>5. Held' = Held /\ Held \subseteq Live
  BY <1>2, <1>3, <1>4 DEF Held
<1> QED BY <1>4, <1>5 DEF Queue!Skip, AllocDummy, prodVars, consVars

\* populate makes the caller's own allocation readable.
LEMMA CommitStep ==
  ASSUME IInv, NEW p \in Producers, Populate(p)
  PROVE  Queue!Next
<1>1. PICK h : h = handle[p]
  OBVIOUS
<1>2. /\ h \in Live /\ allocations[h].type = "Empty"
      /\ pc[p] = "filled" /\ pc' = [pc EXCEPT ![p] = "idle"]
      /\ allocations' = [allocations EXCEPT ![h].type = "Populated"]
      /\ lastUnfreedId' = lastUnfreedId
  BY <1>1 DEF IInv, HandleOwned, Populate, Mark
<1>3. cpc = "read" => h # lastUnfreedId
  BY <1>2 DEF IInv, Clients, Head_
<1>4. cpc' = "read" <=> cpc = "read"
  BY DEF Populate
<1>5. h \in Held
  BY <1>2, <1>3 DEF Held
<1>6. \A i \in Live : allocations[i] \in Allocation
  BY DEF IInv, TypeOK, Live
<1>7. /\ Live' = Live
      /\ \A i \in Live : /\ allocations'[i].call = allocations[i].call
                         /\ i # h => allocations'[i].type = allocations[i].type
      /\ allocations'[h].type = "Populated"
  BY <1>2, <1>6 DEF Live, Allocation
<1>8. Held' = Held /\ Held \subseteq Live
  BY <1>2, <1>4, <1>7 DEF Held
<1>9. {i \in Held' : allocations'[i].type = "Populated"}
        = {i \in Held : allocations[i].type = "Populated"} \cup {h}
  BY <1>5, <1>7, <1>8
<1>10. [i \in Held' |-> allocations'[i].call] = [i \in Held |-> allocations[i].call]
  BY <1>7, <1>8
<1>11. {q \in Producers : pc'[q] \in {"alloc", "wait"}}
        = {q \in Producers : pc[q] \in {"alloc", "wait"}}
  BY <1>2 DEF IInv, TypeOK
<1>12. h \notin {i \in Held : allocations[i].type = "Populated"}
  BY <1>2
<1>13. DOMAIN [i \in Held |-> allocations[i].call] = Held
  OBVIOUS
<1>14. Queue!Commit(h)
  BY <1>5, <1>9, <1>10, <1>11, <1>12, <1>13 DEF Queue!Commit, Populate
<1> QED BY <1>5, <1>13, <1>14 DEF Queue!Next
-----------------------------------------------------------------------------
(* The consumer.                                                           *)

\* What is read of a populated allocation is its call's message.
LEMMA ReadsCall ==
  ASSUME IInv, HeadReady, Head_.type = "Populated"
  PROVE  ReadBack(Head_) = Head_.call
<1>1. lastUnfreedId \in Live
  BY DEF IInv, TypeOK, HeadReady, Live
<1>2. Head_ \in Allocation /\ Head_.size > 0
  BY <1>1 DEF IInv, TypeOK, Layout, InBuffer, IsDummy, Head_, Live
<1>3. \A b \in BytesOf(Head_) : m_buf[b] = Head_.call
  BY <1>1 DEF IInv, Intact, Head_
<1>4. Head_.begin \in BytesOf(Head_)
  BY <1>2 DEF BytesOf, Allocation
<1> QED BY <1>3, <1>4 DEF ReadBack

\* The head leaves what is held, and the consumer has its message.
LEMMA DeliverStep ==
  ASSUME IInv, HeadReady, Head_.type = "Populated", cpc # "read",
         Held' = Held \ {lastUnfreedId},
         \A i \in Held' : allocations'[i] = allocations[i],
         delivered' = Append(delivered, ReadBack(Head_)),
         UNCHANGED <<allocationId, pc, calls>>
  PROVE  Queue!Next
<1>1. PICK h : h = lastUnfreedId
  OBVIOUS
<1>2. h \in Live /\ \A i \in Live : h <= i
  BY <1>1 DEF IInv, TypeOK, HeadReady, Live
<1>3. h \in Held /\ Held \subseteq Live /\ allocations[h].type = "Populated"
  BY <1>1, <1>2 DEF Held, Head_
<1>4. ReadBack(Head_) = allocations[h].call
  BY <1>1, ReadsCall DEF Head_
<1>5. [i \in Held' |-> allocations'[i].call]
        = Queue!Restrict([i \in Held |-> allocations[i].call], Held \ {h})
  BY <1>1 DEF Queue!Restrict
<1>6. {i \in Held' : allocations'[i].type = "Populated"}
        = {i \in Held : allocations[i].type = "Populated"} \ {h}
  BY <1>1
<1>7. Queue!IsOldest(h) /\ h \in {i \in Held : allocations[i].type = "Populated"}
  BY <1>2, <1>3 DEF Queue!IsOldest
<1>8. delivered' = Append(delivered, [i \in Held |-> allocations[i].call][h])
  BY <1>3, <1>4
<1>9. DOMAIN [i \in Held |-> allocations[i].call] = Held
  OBVIOUS
<1>10. [i \in Held' |-> allocations'[i].call]
         = Queue!Restrict([i \in Held |-> allocations[i].call],
                    DOMAIN [i \in Held |-> allocations[i].call] \ {h})
  BY <1>5, <1>9
<1>11. {p \in Producers : pc'[p] \in {"alloc", "wait"}}
         = {p \in Producers : pc[p] \in {"alloc", "wait"}}
  OBVIOUS
<1>12. Queue!Deliver(h)
  BY <1>6, <1>7, <1>8, <1>10, <1>11 DEF Queue!Deliver
<1> QED BY <1>3, <1>9, <1>12 DEF Queue!Next

LEMMA ReadStep ==
  ASSUME IInv, ReadOut
  PROVE  Queue!Next
<1>1. HeadReady /\ Head_.type = "Populated" /\ cpc = "holding"
  BY DEF ReadOut, IInv, Clients
<1>2. Held' = Held \ {lastUnfreedId}
  BY <1>1 DEF ReadOut, bufVars, Held, Live
<1> QED BY <1>1, <1>2, DeliverStep DEF ReadOut, bufVars, prodVars

\* dequeue frees what was already read, or padding; consume delivers too.
LEMMA FreeStep ==
  ASSUME IInv, Dequeue \/ Consume
  PROVE  [Queue!Next]_(Queue!vars)
<1>1. HeadReady /\ FreeHead
  BY DEF Dequeue, Consume
<1>2. PICK h : h = lastUnfreedId
  OBVIOUS
<1>3. /\ h \in Live /\ Live' = Live \ {h} /\ Head_ = allocations[h]
      /\ \A i \in Live' : allocations'[i] = allocations[i]
      /\ cpc' = "notify" /\ UNCHANGED <<allocationId, pc, calls>>
  BY <1>1, <1>2, FreeFacts DEF FreeHead, prodVars
<1>4. Held' = Held \ {h} /\ Held' \subseteq Live'
  BY <1>2, <1>3 DEF Held
<1>5. CASE Consume /\ Head_.type = "Populated"
  BY <1>1, <1>2, <1>3, <1>4, <1>5, DeliverStep DEF Consume
<1>6. CASE Dequeue \/ Head_.type = "Dummy"
  <2>1. h \notin Held /\ delivered' = delivered
    BY <1>2, <1>3, <1>6 DEF Held, Dequeue, Consume
  <2>2. Held' = Held
    BY <1>4, <2>1
  <2> QED BY <1>3, <1>4, <2>1, <2>2, Unseen
<1>7. Head_ \in Allocation /\ Head_.type # "Empty"
  BY <1>1, <1>3 DEF IInv, TypeOK, Live, HeadReady
<1> QED BY <1>5, <1>6, <1>7 DEF Allocation, AllocationType
-----------------------------------------------------------------------------
\* The moves of a thread that the queue does not see.
LEMMA QuietStep ==
  ASSUME IInv,
         \/ \E p \in Producers : AllocWait(p) \/ SpuriousWake(p) \/ Abandon(p) \/ Fill(p)
         \/ FullWait \/ SpuriousFullWake \/ LastUnread \/ NotifyFree \/ UNCHANGED vars
  PROVE  UNCHANGED Queue!vars
<1>1. /\ UNCHANGED <<calls, allocations, allocationId, lastUnfreedId, delivered>>
      /\ cpc' = "read" <=> cpc = "read"
  BY DEF AllocWait, SpuriousWake, WakeProducer, Abandon, Fill, FullWait, SpuriousFullWake,
         LastUnread, NotifyFree, vars, bufVars, prodVars, consVars
<1>2. Held' = Held
  BY <1>1 DEF Held, Live
<1>3. \A q \in Producers : pc'[q] \in {"alloc", "wait"} <=> pc[q] \in {"alloc", "wait"}
  BY DEF AllocWait, SpuriousWake, WakeProducer, Abandon, Fill, FullWait, SpuriousFullWake,
         LastUnread, NotifyFree, vars, prodVars, freeWaiters, IInv, TypeOK
<1> QED BY <1>1, <1>2, <1>3, Unseen

\* Every step is one of the queue's, or none.
LEMMA QueueStep == IInv /\ [Next]_vars => [Queue!Next]_(Queue!vars)
<1> SUFFICES ASSUME IInv, [Next]_vars PROVE [Queue!Next]_(Queue!vars)
  OBVIOUS
<1>1. ASSUME NEW p \in Producers, NEW n \in MsgSizes, StartAlloc(p, n) PROVE Queue!Next
  BY <1>1, EnterStep DEF Queue!Next
<1>2. ASSUME NEW p \in Producers, AllocReserve(p) PROVE Queue!Next
  BY <1>2, ReserveStep DEF Queue!Next
<1>3. ASSUME NEW p \in Producers, AllocDummy(p) PROVE Queue!Next
  BY <1>3, SkipStep DEF Queue!Next
<1>4. ASSUME NEW p \in Producers, Populate(p) PROVE Queue!Next
  BY <1>4, CommitStep
<1>5. CASE ReadOut
  BY <1>5, ReadStep
<1>6. CASE Dequeue \/ Consume
  BY <1>6, FreeStep
<1>7. ASSUME NEW p \in Producers, AllocWait(p) \/ SpuriousWake(p) \/ Abandon(p) \/ Fill(p)
      PROVE  UNCHANGED Queue!vars
  BY <1>7, QuietStep
<1>8. CASE FullWait \/ SpuriousFullWake \/ LastUnread \/ NotifyFree \/ UNCHANGED vars
  BY <1>8, QuietStep
<1> QED BY <1>1, <1>2, <1>3, <1>4, <1>5, <1>6, <1>7, <1>8 DEF Next

\* RingBuffer implements LogQueue: whatever the interleaving of the producers and
\* the consumer, each call's message is delivered at most once, unaltered and in
\* the order of the allocations, and padding is never delivered.
THEOREM Refinement == Spec => QueueSpec
<1>1. Init => Queue!Init
  BY QueueInit
<1>2. IInv /\ [Next]_vars => [Queue!Next]_(Queue!vars)
  BY QueueStep
<1> QED BY <1>1, <1>2, Inductive, PTL DEF Spec, QueueSpec, Queue!Spec
=============================================================================
