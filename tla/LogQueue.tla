------------------------------ MODULE LogQueue ------------------------------
(***************************************************************************)
(* What the ring buffer of src/ulog promises to the threads that log: a    *)
(* queue of calls.  A call takes a ticket (reserve), is made readable      *)
(* (commit), and is delivered once, unaltered, in ticket order.  A ticket  *)
(* may be spent on nothing at all, which is what the padding at the end of *)
(* the buffer looks like from outside.  No bytes, positions or capacity    *)
(* appear here: RingBuffer.tla has them, and implements this module.       *)
(***************************************************************************)
EXTENDS Naturals, Sequences, Functions

CONSTANTS
  Producers,  \* the threads that call serialize()
  MaxCalls    \* bound: calls made by one producer

VARIABLES
  calls,      \* calls[p]: how many calls p has made
  waiting,    \* producers that have called and hold no ticket yet
  next,       \* the next ticket
  reserved,   \* ticket -> the call that holds it
  committed,  \* the tickets whose message is complete
  delivered   \* the messages handed to the consumer, in order

vars == <<calls, waiting, next, reserved, committed, delivered>>

\* f with k mapped to v, whether or not k was in its domain.
Insert(f, k, v) == [x \in DOMAIN f \cup {k} |-> IF x = k THEN v ELSE f[x]]

IsOldest(t) == t \in DOMAIN reserved /\ \A u \in DOMAIN reserved : t <= u

Init ==
  /\ calls = [p \in Producers |-> 0]
  /\ waiting = {}
  /\ next = 0
  /\ reserved = << >>
  /\ committed = {}
  /\ delivered = << >>

Enter(p) ==
  /\ p \notin waiting /\ calls[p] < MaxCalls
  /\ calls' = [calls EXCEPT ![p] = @ + 1]
  /\ waiting' = waiting \cup {p}
  /\ UNCHANGED <<next, reserved, committed, delivered>>

\* A call takes one ticket, once.
Reserve(p) ==
  /\ p \in waiting
  /\ waiting' = waiting \ {p}
  /\ reserved' = Insert(reserved, next, <<p, calls[p]>>)
  /\ next' = next + 1
  /\ UNCHANGED <<calls, committed, delivered>>

Skip ==
  /\ next' = next + 1
  /\ UNCHANGED <<calls, waiting, reserved, committed, delivered>>

Commit(t) ==
  /\ t \in DOMAIN reserved \ committed
  /\ committed' = committed \cup {t}
  /\ UNCHANGED <<calls, waiting, next, reserved, delivered>>

Deliver(t) ==
  /\ IsOldest(t) /\ t \in committed
  /\ delivered' = Append(delivered, reserved[t])
  /\ reserved' = Restrict(reserved, DOMAIN reserved \ {t})
  /\ committed' = committed \ {t}
  /\ UNCHANGED <<calls, waiting, next>>

Next ==
  \/ \E p \in Producers : Enter(p) \/ Reserve(p)
  \/ Skip
  \/ \E t \in DOMAIN reserved : Commit(t) \/ Deliver(t)

Spec == Init /\ [][Next]_vars
=============================================================================
