----------------------------- MODULE RingBuffer -----------------------------
(***************************************************************************)
(* The byte ring buffer between the threads that log and the logger        *)
(* thread: RingBuffer<Size> of src/ulog/include/ringbuffer.h.              *)
(*                                                                         *)
(* A critical section under `lk` is one action.  What happens outside it   *)
(* (writing the message's bytes, reading them back, notify_one) is an      *)
(* action of its own, so every interleaving of the two locks is explored.  *)
(* A message is the call that logs it, <<p, k>>: the k-th call of producer *)
(* p.  A byte of m_buf is the message it belongs to.                       *)
(***************************************************************************)
EXTENDS Integers, Sequences, Functions

CONSTANTS
  Producers,   \* threads that call alloc, write the bytes and call populate
  Unreliable,  \* those whose call may return without calling populate
  Size,        \* bytes of m_buf (the template parameter)
  MsgSizes,    \* sizes that are asked for
  MaxCalls,    \* bound: calls made by one producer
  ConsumerBlocks \* whether the consumer calls with nothing allocated, and so
                 \* sleeps in fullcv.wait; ULogger polls size() first

ASSUME SizeAssumption == Size \in Nat \ {0}
\* serialize() always asks for the preamble's bytes at least.
ASSUME MsgSizesAssumption == MsgSizes \subseteq Nat \ {0}
ASSUME MaxCallsAssumption == MaxCalls \in Nat
ASSUME ConsumerBlocksAssumption == ConsumerBlocks \in BOOLEAN
ASSUME UnreliableAssumption == Unreliable \subseteq Producers

VARIABLES
  m_buf, m_write, m_sizeAllocated,
  allocations,             \* id -> Allocation, for the ids not yet dequeued
  allocationId, lastUnfreedId,
  pc, want, handle, calls, \* of each producer: where it is, its alloc's size,
                           \* the id it got, how many calls it has made
  cpc,                     \* where the consumer is
  delivered                \* history: what the consumer read, in order

bufVars == <<m_buf, m_write, m_sizeAllocated, allocations, allocationId, lastUnfreedId>>
prodVars == <<pc, want, handle, calls>>
consVars == <<cpc, delivered>>
vars == <<bufVars, prodVars, consVars>>

Pos == 0 .. Size - 1
Calls == Producers \X (1 .. MaxCalls)
Blank == << >>              \* a byte of no message, and a read that mixes several
AllocationType == {"Empty", "Dummy", "Populated"}
Allocation == [size : 0 .. Size, begin : 0 .. Size, type : AllocationType, call : Calls \cup {Blank}]

BytesOf(a) == a.begin .. (a.begin + a.size - 1)

\* f with k mapped to v, whether or not k was in its domain.
Insert(f, k, v) == [x \in DOMAIN f \cup {k} |-> IF x = k THEN v ELSE f[x]]

TypeOK ==
  /\ m_buf \in [Pos -> Calls \cup {Blank}]
  /\ m_write \in 0 .. Size
  /\ m_sizeAllocated \in 0 .. Size - 1
  /\ allocationId \in Nat /\ lastUnfreedId \in Nat /\ lastUnfreedId <= allocationId
  /\ allocations \in [lastUnfreedId .. allocationId - 1 -> Allocation]
  /\ pc \in [Producers -> {"idle", "alloc", "wait", "fill", "filled"}]
  /\ want \in [Producers -> Nat]
  /\ handle \in [Producers -> Nat]
  /\ calls \in [Producers -> 0 .. MaxCalls]
  /\ cpc \in {"idle", "fullwait", "holding", "read", "notify"}
  /\ delivered \in Seq(Calls \cup {Blank})

Init ==
  /\ m_buf = [b \in Pos |-> Blank]
  /\ m_write = 0 /\ m_sizeAllocated = 0
  /\ allocations = << >> /\ allocationId = 0 /\ lastUnfreedId = 0
  /\ pc = [p \in Producers |-> "idle"]
  /\ want = [p \in Producers |-> 0]
  /\ handle = [p \in Producers |-> 0]
  /\ calls = [p \in Producers |-> 0]
  /\ cpc = "idle" /\ delivered = << >>
-----------------------------------------------------------------------------
(* alloc(size, ...): the loop around alloc_inner.                          *)

StartAlloc(p, n) ==
  /\ pc[p] = "idle" /\ calls[p] < MaxCalls
  /\ pc' = [pc EXCEPT ![p] = "alloc"]
  /\ want' = [want EXCEPT ![p] = n]
  /\ calls' = [calls EXCEPT ![p] = @ + 1]
  /\ UNCHANGED <<bufVars, consVars, handle>>

HasRoomMutant(n) == Size > m_sizeAllocated       \* the request is not counted

\* The predicate of freecv.wait: strictly more room than is asked for.
HasRoom(n) == Size > m_sizeAllocated + n

FitsAtEndMutant(n) == m_write + n <= Size + 1    \* off by one

\* The new allocation goes where m_write is, or padding ends the buffer there.
FitsAtEnd(n) == m_write + n <= Size

AllocReserve(p) ==
  /\ pc[p] = "alloc" /\ HasRoom(want[p]) /\ FitsAtEnd(want[p])
  /\ allocations' = Insert(allocations, allocationId,
       [size |-> want[p], begin |-> m_write, type |-> "Empty", call |-> <<p, calls[p]>>])
  /\ allocationId' = allocationId + 1
  /\ m_sizeAllocated' = m_sizeAllocated + want[p]
  /\ m_write' = m_write + want[p]
  /\ handle' = [handle EXCEPT ![p] = allocationId]
  /\ pc' = [pc EXCEPT ![p] = "fill"]
  /\ UNCHANGED <<m_buf, lastUnfreedId, want, calls, consVars>>

CountedMutant(pad) == 0                          \* padding is not allocated space

\* When nothing is left to pad the Dummy has size 0, yet one byte is counted as
\* allocated ("hack for teardown").
Counted(pad) == IF pad = 0 THEN 1 ELSE pad

AllocDummy(p) ==
  /\ pc[p] = "alloc" /\ HasRoom(want[p]) /\ ~FitsAtEnd(want[p])
  /\ LET pad == Size - m_write IN
       /\ allocations' = Insert(allocations, allocationId,
            [size |-> pad, begin |-> m_write, type |-> "Dummy", call |-> Blank])
       /\ m_sizeAllocated' = m_sizeAllocated + Counted(pad)
  /\ allocationId' = allocationId + 1
  /\ m_write' = 0
  /\ UNCHANGED <<m_buf, lastUnfreedId, prodVars, consVars>>

AllocWait(p) ==
  /\ pc[p] = "alloc" /\ ~HasRoom(want[p])
  /\ pc' = [pc EXCEPT ![p] = "wait"]
  /\ UNCHANGED <<bufVars, consVars, want, handle, calls>>

\* The producers asleep in freecv.wait.
freeWaiters == {p \in Producers : pc[p] = "wait"}

WakeProducer(p) == pc' = [pc EXCEPT ![p] = "alloc"]

SpuriousWake(p) ==
  /\ p \in freeWaiters
  /\ WakeProducer(p)
  /\ UNCHANGED <<bufVars, consVars, want, handle, calls>>

(* The caller writes its bytes through handleToAddress, then populate.     *)

Fill(p) ==
  /\ pc[p] = "fill"
  /\ LET a == allocations[handle[p]] IN
       m_buf' = [b \in Pos |-> IF b \in BytesOf(a) THEN <<p, calls[p]>> ELSE m_buf[b]]
  /\ pc' = [pc EXCEPT ![p] = "filled"]
  /\ UNCHANGED <<m_write, m_sizeAllocated, allocations, allocationId, lastUnfreedId,
                 want, handle, calls, consVars>>

MarkMutant(id) == [allocations EXCEPT ![lastUnfreedId].type = "Populated"]  \* the oldest

Mark(id) == [allocations EXCEPT ![id].type = "Populated"]

Populate(p) ==
  /\ pc[p] = "filled"
  /\ allocations' = Mark(handle[p])
  /\ pc' = [pc EXCEPT ![p] = "idle"]
  /\ cpc' = IF cpc = "fullwait" THEN "idle" ELSE cpc    \* fullcv.notify_one
  /\ UNCHANGED <<m_buf, m_write, m_sizeAllocated, allocationId, lastUnfreedId,
                 want, handle, calls, delivered>>

\* The caller returns with an error and the allocation stays Empty.
Abandon(p) ==
  /\ p \in Unreliable /\ pc[p] \in {"fill", "filled"}
  /\ pc' = [pc EXCEPT ![p] = "idle"]
  /\ UNCHANGED <<bufVars, consVars, want, handle, calls>>
-----------------------------------------------------------------------------
(* The consumer: lastUnread, read the bytes, dequeue; or all in consume.   *)

Head_ == allocations[lastUnfreedId]

HeadReadyMutant == m_sizeAllocated > 0 /\ DOMAIN allocations # {}   \* so is Empty

HeadReadyMutant2 == m_sizeAllocated > 0 /\ DOMAIN allocations # {} /\ Head_.type = "Populated"  \* Dummy is not

\* Past fullcv.wait and the tests of lastUnread, dequeue and consume.
HeadReady ==
  /\ m_sizeAllocated > 0
  /\ DOMAIN allocations # {}
  /\ Head_.type # "Empty"

ReadBack(a) ==
  IF \A b \in BytesOf(a) : m_buf[b] = m_buf[a.begin] THEN m_buf[a.begin] ELSE Blank

FullWait ==
  /\ ConsumerBlocks
  /\ cpc = "idle" /\ m_sizeAllocated = 0
  /\ cpc' = "fullwait"
  /\ UNCHANGED <<bufVars, prodVars, delivered>>

SpuriousFullWake ==
  /\ cpc = "fullwait"
  /\ cpc' = "idle"
  /\ UNCHANGED <<bufVars, prodVars, delivered>>

LastUnread ==
  /\ cpc = "idle" /\ HeadReady
  /\ cpc' = "holding"
  /\ UNCHANGED <<bufVars, prodVars, delivered>>

ReadOut ==
  /\ cpc = "holding" /\ Head_.type = "Populated"
  /\ delivered' = Append(delivered, ReadBack(Head_))
  /\ cpc' = "read"
  /\ UNCHANGED <<bufVars, prodVars>>

\* What dequeue and consume do to the buffer once past their tests.
FreeHead ==
  /\ allocations' = Restrict(allocations, DOMAIN allocations \ {lastUnfreedId})
  /\ lastUnfreedId' = lastUnfreedId + 1
  /\ m_sizeAllocated' = m_sizeAllocated - Head_.size
  /\ cpc' = "notify"
  /\ UNCHANGED <<m_buf, m_write, allocationId, prodVars>>

Dequeue ==
  /\ cpc = "read" \/ (cpc = "holding" /\ Head_.type = "Dummy")
  /\ HeadReady
  /\ FreeHead
  /\ UNCHANGED delivered

Consume ==
  /\ cpc = "idle" /\ HeadReady
  /\ FreeHead
  /\ delivered' = IF Head_.type = "Populated"
                  THEN Append(delivered, ReadBack(Head_)) ELSE delivered

\* dequeue forgets to notify.
NotifyFreeMutant ==
  /\ cpc = "notify"
  /\ cpc' = "idle"
  /\ UNCHANGED <<bufVars, prodVars, delivered>>

\* freecv.notify_one, after lk is released.
NotifyFree ==
  /\ cpc = "notify"
  /\ cpc' = "idle"
  /\ \/ \E p \in freeWaiters : WakeProducer(p) /\ UNCHANGED <<want, handle, calls>>
     \/ freeWaiters = {} /\ UNCHANGED prodVars
  /\ UNCHANGED <<bufVars, delivered>>
-----------------------------------------------------------------------------
ProducerStep(p) ==
  AllocReserve(p) \/ AllocDummy(p) \/ AllocWait(p) \/ Fill(p) \/ Populate(p)

ConsumerStep == LastUnread \/ ReadOut \/ Dequeue \/ Consume \/ NotifyFree

Next ==
  \/ \E p \in Producers :
       \/ \E n \in MsgSizes : StartAlloc(p, n)
       \/ AllocReserve(p) \/ AllocDummy(p) \/ AllocWait(p) \/ SpuriousWake(p)
       \/ Fill(p) \/ Populate(p) \/ Abandon(p)
  \/ FullWait \/ SpuriousFullWake
  \/ LastUnread \/ ReadOut \/ Dequeue \/ Consume \/ NotifyFree

Spec == Init /\ [][Next]_vars
-----------------------------------------------------------------------------
(* What must hold.                                                         *)

Live == DOMAIN allocations

\* No byte of m_buf is lent to two calls at once: alloc_inner's room test and
\* its padding keep every two allocations that are not yet dequeued apart.
NoOverlap ==
  \A i, j \in Live : i # j => BytesOf(allocations[i]) \cap BytesOf(allocations[j]) = {}

\* From populate until dequeue the bytes of an allocation are those its caller
\* wrote, whatever the other producers do meanwhile: the logger thread reads
\* them outside both locks.
Intact ==
  \A i \in Live : allocations[i].type = "Populated" =>
    \A b \in BytesOf(allocations[i]) : m_buf[b] = allocations[i].call

\* A producer between alloc and populate still owns a live, Empty allocation of
\* its own call: the assertion of populate, and the reason operator[] there
\* never makes up an entry for an id the consumer has erased.
HandleOwned ==
  \A p \in Producers : pc[p] \in {"fill", "filled"} =>
    /\ handle[p] \in Live
    /\ allocations[handle[p]].type = "Empty"
    /\ allocations[handle[p]].call = <<p, calls[p]>>

\* A producer sleeps in freecv.wait only while something will still wake it: an
\* allocation to dequeue, a notify_one on its way, or another producer about
\* to test for room.  (notify_one wakes one waiter, not the one that fits.)
NoLostWakeup ==
  freeWaiters # {} =>
    Live # {} \/ cpc = "notify" \/ \E p \in Producers : pc[p] = "alloc"

\* The allocations a caller's message is in, as long as it was not yet read.
Held == {i \in Live : /\ allocations[i].type # "Dummy"
                      /\ ~(cpc = "read" /\ i = lastUnfreedId)}

Queue == INSTANCE LogQueue WITH
  waiting <- {p \in Producers : pc[p] \in {"alloc", "wait"}},
  next <- allocationId,
  reserved <- [i \in Held |-> allocations[i].call],
  committed <- {i \in Held : allocations[i].type = "Populated"}

\* The buffer is a queue of calls: each is delivered at most once, unaltered,
\* in the order the allocations were made; padding is never seen.
QueueSpec == Queue!Spec
-----------------------------------------------------------------------------
(* Why it holds: the inductive invariant.  The allocations that are not     *)
(* yet dequeued lie one after the other from the oldest to m_write, and     *)
(* wrap at most once, at a Dummy; m_sizeAllocated counts at least the bytes *)
(* between (it may count more: the padding of no byte is never given back). *)

IsDummy(i) == allocations[i].type = "Dummy"

End(i) == allocations[i].begin + allocations[i].size

\* Where the allocation after i begins.
NextBegin(i) == IF IsDummy(i) THEN 0 ELSE End(i)

\* Where the oldest allocation begins, or the next one will.
Oldest == IF lastUnfreedId < allocationId THEN Head_.begin ELSE m_write

Chained ==
  /\ \A i \in Live : i + 1 < allocationId => allocations[i + 1].begin = NextBegin(i)
  /\ \A i \in Live : i + 1 = allocationId => m_write = NextBegin(i)

InBuffer ==
  \A i \in Live :
    /\ End(i) <= Size
    /\ IsDummy(i) => End(i) = Size
    /\ ~IsDummy(i) => allocations[i].size > 0

OneDummy == \A i, j \in Live : IsDummy(i) /\ IsDummy(j) => i = j

\* No wrap between the oldest allocation and m_write.
Straight ==
  (\A i \in Live : ~IsDummy(i)) =>
    /\ Oldest <= m_write
    /\ m_write <= m_sizeAllocated + Oldest
    /\ \A i \in Live : Oldest <= allocations[i].begin /\ End(i) <= m_write

Wrapped ==
  \A d \in Live : IsDummy(d) =>
    /\ m_write <= Oldest
    /\ Size + m_write <= m_sizeAllocated + Oldest
    /\ \A i \in Live :
         /\ i <= d => Oldest <= allocations[i].begin
         /\ i > d => End(i) <= m_write

\* Two allocations of the same lap are in order.
LapOrder ==
  \A i, j \in Live :
    i < j /\ (\A d \in Live : IsDummy(d) => d < i \/ j <= d)
      => End(i) <= allocations[j].begin

Layout == InBuffer /\ Chained /\ OneDummy /\ Straight /\ Wrapped /\ LapOrder

Clients ==
  /\ \A p \in Producers : pc[p] # "idle" => want[p] > 0 /\ calls[p] > 0
  /\ \A p \in Producers : pc[p] \in {"fill", "filled"} => handle[p] \in Live
  /\ \A p \in Producers : pc[p] = "filled" =>
       \A b \in BytesOf(allocations[handle[p]]) : m_buf[b] = <<p, calls[p]>>
  /\ cpc \in {"holding", "read"} => HeadReady
  /\ cpc = "read" => Head_.type = "Populated"

\* The inductive invariant of the proofs: where every allocation lies, and what
\* each thread may rely on between two critical sections.
IInv == TypeOK /\ Layout /\ HandleOwned /\ Intact /\ Clients
=============================================================================
