---------------------------- MODULE Window_proofs ----------------------------
(***************************************************************************)
(* What the reader of windows promises, for every log, every size of the   *)
(* window and every order of the windows; and that what LogReader_proofs   *)
(* says of a reader holds of whatever reads a log here.  initialize walks  *)
(* through the log once; every window is a part of that walk, because      *)
(* where a step goes depends on the positions alone.  What is noted as     *)
(* loaded is an interval of states in their lexicographic order, in which  *)
(* the walk rises.                                                         *)
(***************************************************************************)
EXTENDS LogReader_proofs, Window

-----------------------------------------------------------------------------
(* Steps of a walk through a log.                                          *)

\* A position in each file.
IsPlace(p) == p \in [DOMAIN log -> Nat \ {0}] /\ \A f \in DOMAIN log : IsPosition(log[f], p[f])

\* A scan of f from i comes to j.
ComesTo(f, i, j) ==
  /\ i <= j /\ IsPosition(log[f], j) /\ \A l \in i .. j - 1 : ~IsData(f, l)
  /\ j > Len(log[f]) \/ IsData(f, j)

\* From p the walk goes past message a to q.
Goes(p, a, q) ==
  /\ a \in (DOMAIN log) \X Nat /\ IsData(a[1], a[2]) /\ is_valid_late(Message(a).time)
  /\ ComesTo(a[1], p[a[1]], a[2]) /\ q[a[1]] = a[2] + 1
  /\ \A f \in DOMAIN log \ {a[1]} :
       /\ ComesTo(f, p[f], q[f])
       /\ IsData(f, q[f]) => \/ Message(a).time < log[f][q[f]].time
                             \/ Message(a).time = log[f][q[f]].time /\ a[1] <= f

\* From p it goes nowhere but to the end of what is to be read, q.
Stops(p, q) ==
  \A f \in DOMAIN log :
    /\ ComesTo(f, p[f], q[f])
    /\ IsData(f, q[f]) => ~is_valid_late(log[f][q[f]].time)

Double(p) == [f \in DOMAIN log |-> 2 * p[f]]
-----------------------------------------------------------------------------
(* The inductive invariant: types and counts; the walk of initialize; the  *)
(* windows.                                                                *)

WindowTypes ==
  /\ phase \in {"none", "opened", "getters", "handlers", "ready", "jumped", "loading"}
  /\ log \in WindowLogs /\ options \in Options /\ options.try_recovery
  /\ merging = "no" /\ inputs = << >> /\ ptrs = << >> /\ dictionary = {} /\ written = << >>
  /\ is_opened = (phase # "none") /\ finish_reading \in BOOLEAN
  /\ processed = << >> /\ handled = << >> /\ ended = FALSE /\ asked = NotAsked /\ parser = NoParser
  /\ restarts \in 0 .. MaxRestarts
  /\ Streams = (IF phase = "none" THEN {} ELSE DOMAIN log) /\ Positions(input_streams)
  /\ num_corruptions \in Nat /\ corruptionsBefore \in 0 .. num_corruptions
  /\ CorruptionsCounted

Initialized == phase \notin {"none", "opened"}

\* The walk has come to an end: where, what its files describe up to there, and
\* how many corrupted stretches lie before it.
AtEnd == phase \notin {"none", "opened", "getters"}
End == [f \in DOMAIN log |-> stateMap[max_offset + 1][f] \div 2]

Walk ==
  /\ path \in Seq((DOMAIN log) \X Nat) /\ places \in Seq([DOMAIN log -> Nat \ {0}])
  /\ Len(places) = Len(path) + 1
  /\ \A k \in 1 .. Len(path) + 1 : IsPlace(places[k])
  /\ \A f \in DOMAIN log : places[1][f] = 1
  /\ \A k \in 1 .. Len(path) : Goes(places[k], path[k], places[k + 1])
  /\ max_offset \in Nat /\ lastState = Double(places[Len(path) + 1])

IsFrameAt(k) == path[k][1] \in box /\ Message(path[k]).type = FrameType
TimeAt(k) == Message(path[k]).time

\* o is the offset of a frame and its state is the one before the first such frame.
IsNoted(o) ==
  /\ o \in 0 .. max_offset
  /\ \E k \in 1 .. Len(path) :
       /\ IsFrameAt(k) /\ TimeAt(k) = o /\ stateMap[o] = Double(places[k])
       /\ Regular => \A j \in 1 .. k - 1 : IsFrameAt(j) => TimeAt(j) # o

FramesNoted ==
  /\ \A o \in DOMAIN stateMap : IsNoted(o) \/ (AtEnd /\ o = max_offset + 1)
  /\ Regular => \A k \in 1 .. Len(path) : IsFrameAt(k) =>
       TimeAt(k) \in DOMAIN stateMap /\ TimeAt(k) <= max_offset

Gone == phase = "getters" => At(input_streams) = places[Len(path) + 1] /\ TypesKnown(input_streams)

Ended ==
  AtEnd =>
    /\ max_offset + 1 \in DOMAIN stateMap /\ stateMap[max_offset + 1] = Double(End)
    /\ IsPlace(End) /\ Stops(places[Len(path) + 1], End)
    /\ \A f \in DOMAIN log : \A i \in 1 .. End[f] - 1 :
         log[f][i].kind = "metadata" => log[f][i].type \in input_streams[f].dictionary
    /\ Cardinality(JunkOf(Starts, End)) <= num_corruptions

\* Before initialize nothing is noted, and the streams are at the start.
NotBegun ==
  ~Initialized => WindowStart /\ \A f \in Streams : input_streams[f].at = 1

WalkInv == WindowTypes /\ NotBegun /\ (Initialized => Walk /\ FramesNoted /\ Gone /\ Ended)

-----------------------------------------------------------------------------
(* Windows.                                                                *)

Vec == [DOMAIN log -> Int]

Lo == PathFrom(starting_offset)
Hi == PathFrom(ending_offset + 1)
S(k) == Double(places[k])
High == OneLess(lower_bound(ending_offset + 1))

IsWindow ==
  \E seq \in 0 .. max_offset :
    /\ starting_offset = IF seq >= WindowSize THEN seq - WindowSize ELSE 0
    /\ ending_offset = IF seq + WindowSize <= max_offset THEN seq + WindowSize ELSE max_offset

\* The handlers have been called with the k-th message if it is for them.
IsDone(k) ==
  path[k][1] \in box /\ (options.process_always \/ is_valid_early(TimeAt(k))) => path[k] \in loaded

IsBetween(k) == ~Less(S(k), lowest) /\ ~Less(highest, S(k))

Tame == Regular /\ FrameInEach

ReadyInv ==
  phase = "ready" /\ Tame =>
    \/ loads = 0 /\ lowest = << >>
    \/ /\ loads > 0 /\ IsWindow /\ lowest \in Vec /\ highest \in Vec
       /\ \A k \in Lo .. Hi - 1 : IsDone(k)
       /\ \A k \in Lo .. Len(path) : IsBetween(k) => IsDone(k)
       /\ \A k \in 1 .. Lo - 1 : ~Less(S(k), lowest) => Less(High, S(k))

JumpedInv ==
  phase = "jumped" /\ Tame =>
    /\ loads > 0 /\ IsWindow /\ At(input_streams) = places[Lo] /\ ~finish_reading
    /\ \/ lowest = << >>
       \/ /\ lowest \in Vec /\ highest \in Vec
          /\ \A k \in Lo .. Hi - 1 : IsBetween(k) /\ ~Less(High, S(k)) => IsDone(k)

LoadingAt(c) ==
  /\ At(input_streams) = places[c]
  /\ \A k \in Lo .. c - 1 : IsDone(k)
  /\ \A k \in Lo .. Hi - 1 : IsBetween(k) => IsDone(k)
  /\ \A k \in 1 .. Lo - 1 : ~Less(S(k), lowest) => Less(High, S(k))
  /\ \A k \in 1 .. Len(path) : ~Less(highest, S(k)) => k < Hi
  /\ next_lowest = S(Lo + 1)
  /\ \E m \in Lo + 1 .. Len(path) + 1 : next_highest = S(m) /\ (m <= c - 1 \/ m = Lo + 1)
  /\ current_offset \in Nat
  /\ IF current_offset > ending_offset THEN c = Hi + 1 ELSE c <= Hi

LoadingInv ==
  phase = "loading" /\ Tame =>
    /\ loads > 0 /\ IsWindow /\ ~finish_reading /\ lowest \in Vec /\ highest \in Vec
    /\ \E c \in Lo + 1 .. Len(path) + 1 : LoadingAt(c)

\* Before the first window nothing is loaded.
NotLoaded ==
  /\ loads \in Nat
  /\ phase \in {"none", "opened", "getters", "handlers"} => loads = 0 /\ lowest = << >>

WindowInv == WalkInv /\ NotLoaded /\ ReadyInv /\ JumpedInv /\ LoadingInv
-----------------------------------------------------------------------------
(* What has been handled and not left lies in the interval, in one file.   *)

Single == Len(log) = 1 /\ Regular

IsKept(k) == path[k] \in loaded /\ Message(path[k]).type # FrameType

IsWithin(k, low, high) == low[1] <= S(k)[1] /\ S(k)[1] <= high[1]

KeptInv ==
  /\ phase \in {"none", "opened", "getters", "handlers"} => loaded = {} /\ twice = {} /\ lowest = << >>
  /\ Single =>
       /\ \A a \in twice : Message(a).type = FrameType
       /\ lowest = << >> \/ (lowest \in Vec /\ highest \in Vec)
       /\ phase \in {"ready", "jumped"} => \A k \in 1 .. Len(path) : IsKept(k) =>
            lowest # << >> /\ IsWithin(k, lowest, highest)
       /\ phase = "jumped" =>
            /\ IsWindow /\ At(input_streams) = IF Lo <= Len(path) THEN places[Lo] ELSE End
            /\ \A k \in 1 .. Len(path) : IsKept(k) => k \in Lo .. Hi - 1
       /\ phase = "loading" =>
            /\ lowest # << >> /\ next_lowest \in Vec /\ next_highest \in Vec
            /\ \E c \in 1 .. Len(path) + 1 :
                 /\ At(input_streams) = places[c]
                 /\ \A k \in 1 .. Len(path) : IsKept(k) =>
                      \/ IsWithin(k, lowest, highest)
                      \/ k < c /\ IsWithin(k, next_lowest, next_highest)
-----------------------------------------------------------------------------
(* The lexicographic order.                                                *)

LEMMA FilesAre ==
  ASSUME IsLog(log)
  PROVE  \E n \in Nat : DOMAIN log = 1 .. n
BY DEF IsLog

LEMMA LessIrreflexive ==
  ASSUME NEW s \in Vec, IsLog(log)
  PROVE  ~Less(s, s)
<1>1. \A i \in DOMAIN log : s[i] \in Int /\ ~(s[i] < s[i])
  BY DEF Vec
<1> QED BY <1>1 DEF Less, Vec

LEMMA LessTransitive ==
  ASSUME IsLog(log), NEW s \in Vec, NEW t \in Vec, NEW u \in Vec, Less(s, t), Less(t, u)
  PROVE  Less(s, u)
<1>1. PICK n \in Nat : DOMAIN log = 1 .. n
  BY FilesAre
<1>2. /\ DOMAIN s = 1 .. n /\ DOMAIN t = 1 .. n
      /\ \A i \in 1 .. n : s[i] \in Int /\ t[i] \in Int /\ u[i] \in Int
  BY <1>1 DEF Vec
<1>3. PICK i \in 1 .. n : s[i] < t[i] /\ \A j \in 1 .. i - 1 : s[j] = t[j]
  BY <1>2 DEF Less
<1>4. PICK k \in 1 .. n : t[k] < u[k] /\ \A j \in 1 .. k - 1 : t[j] = u[j]
  BY <1>2 DEF Less
<1>5. CASE i <= k
  <2>1. s[i] < u[i]
    <3>1. i = k \/ i \in 1 .. k - 1
      BY <1>5
    <3> QED BY <1>2, <1>3, <1>4, <3>1
  <2>2. \A j \in 1 .. i - 1 : s[j] = u[j]
    <3>1. \A j \in 1 .. i - 1 : j \in 1 .. k - 1
      BY <1>5
    <3> QED BY <1>3, <1>4, <3>1
  <2> QED BY <1>2, <2>1, <2>2 DEF Less
<1>6. CASE k < i
  <2>1. s[k] < u[k]
    <3>1. k \in 1 .. i - 1
      BY <1>6
    <3> QED BY <1>2, <1>3, <1>4, <3>1
  <2>2. \A j \in 1 .. k - 1 : s[j] = u[j]
    <3>1. \A j \in 1 .. k - 1 : j \in 1 .. i - 1
      BY <1>6
    <3> QED BY <1>3, <1>4, <3>1
  <2> QED BY <1>2, <2>1, <2>2 DEF Less
<1> QED BY <1>5, <1>6

LEMMA LessTotal ==
  ASSUME IsLog(log), NEW s \in Vec, NEW t \in Vec, s # t
  PROVE  Less(s, t) \/ Less(t, s)
<1>1. PICK n \in Nat : DOMAIN log = 1 .. n
  BY FilesAre
<1>2. /\ DOMAIN s = 1 .. n /\ DOMAIN t = 1 .. n
      /\ \A i \in 1 .. n : s[i] \in Int /\ t[i] \in Int
  BY <1>1 DEF Vec
<1> DEFINE D == {i \in 1 .. n : s[i] # t[i]}
<1>3. D \in SUBSET Nat /\ D # {}
  <2>1. \E i \in 1 .. n : s[i] # t[i]
    BY <1>1 DEF Vec
  <2> QED BY <2>1
<1> HIDE DEF D
<1>4. PICK m \in D : \A i \in D : m <= i
  BY <1>3, Smallest
<1> USE DEF D
<1>5. m \in 1 .. n /\ s[m] # t[m] /\ \A j \in 1 .. m - 1 : s[j] = t[j]
  <2>1. ASSUME NEW j \in 1 .. m - 1 PROVE s[j] = t[j]
    <3>1. j \in 1 .. n /\ ~(m <= j)
      BY <1>4
    <3> QED BY <1>4, <3>1
  <2> QED BY <1>4, <2>1
<1>6. s[m] < t[m] \/ t[m] < s[m]
  BY <1>2, <1>5
<1>7. \A j \in 1 .. m - 1 : t[j] = s[j]
  BY <1>5
<1> QED BY <1>2, <1>5, <1>6, <1>7 DEF Less

\* What a proof about intervals needs, at once.
Order ==
  /\ \A s \in Vec : ~Less(s, s)
  /\ \A s, t, u \in Vec : Less(s, t) /\ Less(t, u) => Less(s, u)
  /\ \A s, t \in Vec : s = t \/ Less(s, t) \/ Less(t, s)

LEMMA IsOrder == ASSUME IsLog(log) PROVE Order
BY LessIrreflexive, LessTransitive, LessTotal DEF Order

\* Smaller position by position is smaller.
LEMMA BelowIsLess ==
  ASSUME IsLog(log), NEW s \in Vec, NEW t \in Vec, \A f \in DOMAIN log : s[f] <= t[f]
  PROVE  ~Less(t, s) /\ (s # t => Less(s, t))
<1>1. \A i \in DOMAIN log : s[i] \in Int /\ t[i] \in Int
  BY DEF Vec
<1>2. DOMAIN t = DOMAIN log
  BY DEF Vec
<1>3. ~Less(t, s)
  <2>1. \A i \in DOMAIN log : ~(t[i] < s[i])
    BY <1>1
  <2> QED BY <1>2, <2>1 DEF Less
<1> QED BY <1>3, LessTotal

LEMMA MinMaxAre ==
  ASSUME IsLog(log), NEW s \in Vec, NEW t \in Vec
  PROVE  /\ MinState(s, t) \in {s, t} /\ ~Less(s, MinState(s, t)) /\ ~Less(t, MinState(s, t))
         /\ MaxState(s, t) \in {s, t} /\ ~Less(MaxState(s, t), s) /\ ~Less(MaxState(s, t), t)
<1>1. Order
  BY IsOrder
<1> QED BY <1>1 DEF Order, MinState, MaxState
-----------------------------------------------------------------------------
(* Where a step goes depends on the positions alone.                       *)

LEMMA ComesToOnce ==
  ASSUME IsLog(log), NEW f \in DOMAIN log, NEW i \in Nat, NEW j, NEW k,
         ComesTo(f, i, j), ComesTo(f, i, k)
  PROVE  j = k
<1>1. log[f] \in Seq(Item)
  BY DEF IsLog
<1>2. /\ Len(log[f]) \in Nat /\ j \in Nat /\ k \in Nat /\ i <= j /\ i <= k
      /\ j <= Len(log[f]) + 1 /\ k <= Len(log[f]) + 1
  BY <1>1 DEF ComesTo, IsPosition
<1>3. ~(j < k)
  <2>1. SUFFICES ASSUME j < k PROVE FALSE
    OBVIOUS
  <2>2. j \in i .. k - 1 /\ ~(j > Len(log[f]))
    BY <1>2, <2>1
  <2> QED BY <2>2 DEF ComesTo
<1>4. ~(k < j)
  <2>1. SUFFICES ASSUME k < j PROVE FALSE
    OBVIOUS
  <2>2. k \in i .. j - 1 /\ ~(k > Len(log[f]))
    BY <1>2, <2>1
  <2> QED BY <2>2 DEF ComesTo
<1> QED BY <1>2, <1>3, <1>4

LEMMA DataTime ==
  ASSUME IsLog(log), NEW f \in DOMAIN log, NEW i, IsData(f, i)
  PROVE  log[f][i] \in Item /\ log[f][i].time \in Nat /\ log[f][i].time \in Times
<1>1. log[f] \in Seq(Item)
  BY DEF IsLog
<1>2. log[f][i] \in Item
  BY <1>1 DEF IsData
<1> QED BY <1>2, TimeIsInt

LEMMA GoesOnce ==
  ASSUME IsLog(log), NEW p, NEW q, NEW r, IsPlace(p), IsPlace(q), IsPlace(r), NEW a, NEW b,
         Goes(p, a, q), Goes(p, b, r)
  PROVE  a = b /\ q = r
<1>1. PICK g \in DOMAIN log, i \in Nat : a = <<g, i>>
  BY DEF Goes
<1>2. PICK h \in DOMAIN log, j \in Nat : b = <<h, j>>
  BY DEF Goes
<1>3. /\ IsData(g, i) /\ ComesTo(g, p[g], i) /\ q[g] = i + 1 /\ Message(a) = log[g][i]
      /\ IsData(h, j) /\ ComesTo(h, p[h], j) /\ r[h] = j + 1 /\ Message(b) = log[h][j]
  BY <1>1, <1>2 DEF Goes, Message
<1>4. \A f \in DOMAIN log : p[f] \in Nat
  BY DEF IsPlace
<1>5. Message(a).time \in Nat /\ Message(b).time \in Nat
  BY <1>3, DataTime
<1>6. g = h
  <2>1. SUFFICES ASSUME g # h PROVE FALSE
    OBVIOUS
  <2>2. ComesTo(h, p[h], q[h]) /\ ComesTo(g, p[g], r[g])
    BY <1>1, <1>2, <2>1 DEF Goes
  <2>3. q[h] = j /\ r[g] = i
    BY <1>3, <1>4, <2>2, ComesToOnce
  <2>4. Message(a).time < Message(b).time \/ (Message(a).time = Message(b).time /\ g <= h)
    BY <1>1, <1>3, <2>1, <2>3 DEF Goes
  <2>5. Message(b).time < Message(a).time \/ (Message(b).time = Message(a).time /\ h <= g)
    BY <1>2, <1>3, <2>1, <2>3 DEF Goes
  <2>6. g \in Nat /\ h \in Nat
    BY FilesAre
  <2> QED BY <1>5, <2>1, <2>4, <2>5, <2>6
<1>7. i = j
  BY <1>3, <1>4, <1>6, ComesToOnce
<1>8. ASSUME NEW f \in DOMAIN log PROVE q[f] = r[f]
  <2>1. CASE f = g
    BY <1>3, <1>6, <1>7, <2>1
  <2>2. CASE f # g
    <3>1. ComesTo(f, p[f], q[f]) /\ ComesTo(f, p[f], r[f])
      BY <1>1, <1>2, <1>6, <2>2 DEF Goes
    <3> QED BY <1>4, <3>1, ComesToOnce
  <2> QED BY <2>1, <2>2
<1> QED BY <1>1, <1>2, <1>6, <1>7, <1>8 DEF IsPlace

LEMMA StopsOnce ==
  ASSUME IsLog(log), NEW p, NEW q, NEW r, IsPlace(p), IsPlace(q), IsPlace(r), Stops(p, q), Stops(p, r)
  PROVE  q = r
<1>1. ASSUME NEW f \in DOMAIN log PROVE q[f] = r[f]
  <2>1. ComesTo(f, p[f], q[f]) /\ ComesTo(f, p[f], r[f]) /\ p[f] \in Nat
    BY DEF Stops, IsPlace
  <2> QED BY <2>1, ComesToOnce
<1> QED BY <1>1 DEF IsPlace

LEMMA GoesOrStops ==
  ASSUME IsLog(log), NEW p, NEW q, NEW r, IsPlace(p), NEW a, Goes(p, a, q), Stops(p, r)
  PROVE  FALSE
<1>1. PICK g \in DOMAIN log, i \in Nat : a = <<g, i>>
  BY DEF Goes
<1>2. /\ IsData(g, i) /\ ComesTo(g, p[g], i) /\ is_valid_late(log[g][i].time)
      /\ ComesTo(g, p[g], r[g]) /\ p[g] \in Nat
  BY <1>1 DEF Goes, Stops, Message, IsPlace
<1>3. r[g] = i
  BY <1>2, ComesToOnce
<1> QED BY <1>2, <1>3 DEF Stops

\* What has stopped stays.
LEMMA StopsStays ==
  ASSUME IsLog(log), NEW p, NEW q, IsPlace(q), Stops(p, q)
  PROVE  Stops(q, q)
<1>1. ASSUME NEW f \in DOMAIN log PROVE ComesTo(f, q[f], q[f])
  <2>1. ComesTo(f, p[f], q[f]) /\ q[f] \in Nat
    BY DEF Stops, IsPlace
  <2> QED BY <2>1 DEF ComesTo
<1> QED BY <1>1 DEF Stops

LEMMA GoesUp ==
  ASSUME IsLog(log), NEW p, NEW q, IsPlace(p), IsPlace(q), NEW a, Goes(p, a, q)
  PROVE  /\ a[1] \in DOMAIN log /\ p[a[1]] < q[a[1]] /\ p[a[1]] <= a[2] /\ q[a[1]] = a[2] + 1
         /\ \A f \in DOMAIN log : p[f] <= q[f]
<1>1. PICK g \in DOMAIN log, i \in Nat : a = <<g, i>>
  BY DEF Goes
<1>2. p[g] <= i /\ q[g] = i + 1
  BY <1>1 DEF Goes, ComesTo
<1>3. \A f \in DOMAIN log : p[f] \in Nat /\ q[f] \in Nat
  BY DEF IsPlace
<1>4. ASSUME NEW f \in DOMAIN log PROVE p[f] <= q[f]
  <2>1. CASE f = g
    BY <1>2, <1>3, <2>1
  <2>2. CASE f # g
    BY <1>1, <2>2 DEF Goes, ComesTo
  <2> QED BY <2>1, <2>2
<1> QED BY <1>1, <1>2, <1>3, <1>4
-----------------------------------------------------------------------------
(* The steps of the window reader are steps of a walk.                     *)

LEMMA WindowBasics ==
  ASSUME WindowTypes
  PROVE  /\ IsLog(log) /\ Positions(input_streams) /\ Streams \subseteq DOMAIN log /\ Halting = {}
         /\ num_corruptions \in Nat /\ corruptionsBefore \in Nat
         /\ \A f \in DOMAIN log : log[f] \in Seq(Item) /\ Len(log[f]) \in Nat /\ Len(log[f]) # 0
         /\ phase # "none" => Streams = DOMAIN log /\ DOMAIN input_streams = DOMAIN log
<1>1. IsLog(log)
  BY WindowLogsAssumption DEF WindowTypes, IsLog
<1>2. \A f \in DOMAIN log : log[f] \in Seq(Item) /\ log[f] # << >>
  BY <1>1, WindowLogsAssumption DEF WindowTypes, IsLog
<1>3. Halting = {}
  BY DEF WindowTypes, Halting
<1>4. \A f \in DOMAIN log : Len(log[f]) \in Nat /\ Len(log[f]) # 0
  BY <1>2
<1> QED BY <1>1, <1>2, <1>3, <1>4 DEF WindowTypes, Streams

LEMMA PlaceIs ==
  ASSUME IsLog(log), Streams = DOMAIN log, NEW t, Positions(t)
  PROVE  /\ IsPlace(At(t)) /\ At(t) = PositionOf(t)
         /\ \A f \in DOMAIN log : At(t)[f] = t[f].at /\ t[f] \in Stream
<1>1. DOMAIN t = DOMAIN log /\ \A f \in DOMAIN log : t[f] \in Stream /\ IsPosition(log[f], t[f].at)
  BY DEF Positions
<1>2. \A f \in DOMAIN log : At(t)[f] = t[f].at /\ t[f].at \in Nat \ {0}
  BY <1>1 DEF At, IsPosition
<1> QED BY <1>1, <1>2 DEF IsPlace, At, PositionOf

\* A scan of every file.
LEMMA ScanIs ==
  ASSUME WindowTypes, phase # "none"
  PROVE  /\ Positions(Scanned) /\ DOMAIN Scanned = DOMAIN log /\ IsPlace(At(Scanned))
         /\ \A f \in DOMAIN log :
              /\ Reaches(f, Scanned[f]) /\ ComesTo(f, At(input_streams)[f], At(Scanned)[f])
              /\ At(Scanned)[f] = Scanned[f].at /\ At(input_streams)[f] = input_streams[f].at
         /\ NumSkipped \in Nat
         /\ num_corruptions + NumSkipped
              = corruptionsBefore + Cardinality(JunkOf(Starts, At(Scanned)))
<1>1. /\ IsLog(log) /\ Positions(input_streams) /\ Streams = DOMAIN log /\ Halting = {}
      /\ num_corruptions \in Nat /\ corruptionsBefore \in Nat
  BY WindowBasics
<1>2. /\ Positions(Scanned) /\ DOMAIN Scanned = DOMAIN log
      /\ \A f \in DOMAIN log : Reaches(f, Scanned[f]) /\ Settled(f, Scanned[f])
  BY <1>1, ScannedReaches DEF Positions
<1>3. /\ IsPlace(At(Scanned)) /\ At(Scanned) = PositionOf(Scanned)
      /\ At(input_streams) = PositionOf(input_streams)
      /\ \A f \in DOMAIN log :
           At(Scanned)[f] = Scanned[f].at /\ At(input_streams)[f] = input_streams[f].at
  BY <1>1, <1>2, PlaceIs
<1>4. \A f \in DOMAIN log : ComesTo(f, At(input_streams)[f], At(Scanned)[f])
  BY <1>2, <1>3 DEF Reaches, Settled, ComesTo
<1>5. /\ NumSkipped \in Nat
      /\ Cardinality(JunkOf(Starts, At(Scanned)))
           = Cardinality(JunkOf(Starts, At(input_streams))) + NumSkipped
  BY <1>1, <1>3, ScanCounts
<1>6. num_corruptions = corruptionsBefore + Cardinality(JunkOf(Starts, At(input_streams)))
  <2>1. \A f \in Streams : Starts[f] = 1 /\ At(input_streams)[f] = input_streams[f].at
    BY <1>1, <1>3 DEF Starts
  <2>2. JunkOf(Starts, At(input_streams)) = UNION {Junk(f, 1, input_streams[f].at) : f \in Streams}
    BY <2>1 DEF JunkOf
  <2> QED BY <2>2 DEF WindowTypes, CorruptionsCounted
<1>7. Cardinality(JunkOf(Starts, At(input_streams))) \in Nat
  BY <1>1, JunkIsFinite
<1> QED BY <1>1, <1>2, <1>3, <1>4, <1>5, <1>6, <1>7

LEMMA FoundEarliest ==
  ASSUME WindowTypes, phase # "none", Found
  PROVE  /\ next_si \in DOMAIN log /\ IsData(next_si, Scanned[next_si].at)
         /\ Chosen \in (DOMAIN log) \X Nat /\ Message(Chosen) = log[next_si][Scanned[next_si].at]
         /\ is_valid_late(Message(Chosen).time)
         /\ \A f \in DOMAIN log : IsData(f, Scanned[f].at) =>
              \/ Message(Chosen).time < log[f][Scanned[f].at].time
              \/ Message(Chosen).time = log[f][Scanned[f].at].time /\ next_si <= f
<1>1. IsLog(log) /\ Positions(input_streams) /\ Streams = DOMAIN log /\ Halting = {}
  BY WindowBasics
<1>2. Left # {} /\ is_valid_late(TimeOf(next_si))
  BY DEF Found
<1>3. /\ next_si \in Left /\ \A f \in Left : IsData(f, Scanned[f].at)
      /\ \A f \in Left : Earlier(next_si, f)
  BY <1>1, <1>2, NextIsEarliest
<1>4. PICK g : g = next_si
  OBVIOUS
<1>5. g \in DOMAIN log /\ IsData(g, Scanned[g].at)
  BY <1>1, <1>3, <1>4 DEF Left
<1>6. Scanned[g].at \in Nat
  <2>1. \A f \in DOMAIN log : Scanned[f] \in Stream
    BY ScanIs DEF Reaches
  <2> QED BY <1>5, <2>1 DEF Stream
<1>7. Message(Chosen) = log[g][Scanned[g].at] /\ TimeOf(g) = Message(Chosen).time
  BY <1>4 DEF Message, Chosen, TimeOf
<1>8. ASSUME NEW f \in DOMAIN log, IsData(f, Scanned[f].at)
      PROVE  \/ Message(Chosen).time < log[f][Scanned[f].at].time
             \/ Message(Chosen).time = log[f][Scanned[f].at].time /\ g <= f
  <2>1. f \in Left
    <3>1. Len(log[f]) \in Nat
      BY WindowBasics
    <3> QED BY <1>1, <1>8, <3>1 DEF Left, empty, IsData
  <2>2. Earlier(g, f)
    BY <1>3, <1>4, <2>1
  <2> QED BY <1>7, <2>2 DEF Earlier, TimeOf
<1>9. Chosen \in (DOMAIN log) \X Nat
  BY <1>4, <1>5, <1>6 DEF Chosen
<1> QED BY <1>2, <1>4, <1>5, <1>7, <1>8, <1>9

\* A message is gone past.
LEMMA StepIs ==
  ASSUME WindowTypes, phase # "none", Found, GoPast, log' = log
  PROVE  /\ Goes(At(input_streams), Chosen, At(input_streams'))
         /\ IsPlace(At(input_streams)) /\ IsPlace(At(input_streams'))
         /\ Positions(input_streams)' /\ Streams' = Streams
         /\ num_corruptions' \in Nat /\ num_corruptions <= num_corruptions'
         /\ num_corruptions'
              = corruptionsBefore + Cardinality(UNION {Junk(f, 1, input_streams'[f].at) : f \in Streams})
         /\ \A f \in DOMAIN log : input_streams'[f].dictionary = Scanned[f].dictionary
<1> DEFINE g == next_si
           i == Scanned[next_si].at
           t == [Scanned EXCEPT ![g] = skip_message(@)]
<1>1. /\ IsLog(log) /\ Positions(input_streams) /\ Streams = DOMAIN log
      /\ num_corruptions \in Nat /\ corruptionsBefore \in Nat
      /\ \A f \in DOMAIN log : Len(log[f]) \in Nat
  BY WindowBasics
<1>2. /\ Positions(Scanned) /\ DOMAIN Scanned = DOMAIN log /\ NumSkipped \in Nat
      /\ \A f \in DOMAIN log :
           /\ ComesTo(f, At(input_streams)[f], At(Scanned)[f]) /\ At(Scanned)[f] = Scanned[f].at
           /\ Scanned[f] \in Stream
      /\ num_corruptions + NumSkipped
           = corruptionsBefore + Cardinality(JunkOf(Starts, At(Scanned)))
  BY ScanIs DEF Reaches
<1>3. /\ g \in DOMAIN log /\ IsData(g, i) /\ Chosen \in (DOMAIN log) \X Nat
      /\ is_valid_late(Message(Chosen).time)
      /\ \A f \in DOMAIN log : IsData(f, Scanned[f].at) =>
              \/ Message(Chosen).time < log[f][Scanned[f].at].time
              \/ Message(Chosen).time = log[f][Scanned[f].at].time /\ g <= f
  BY FoundEarliest
<1>4. Chosen = <<g, i>> /\ i \in Nat \ {0}
  BY <1>2, <1>3 DEF Chosen, Stream
<1>5. input_streams' = t /\ num_corruptions' = num_corruptions + NumSkipped
  BY DEF GoPast
<1> HIDE DEF g, i
<1>6. /\ DOMAIN t = DOMAIN log
      /\ \A f \in DOMAIN log : f # g => t[f] = Scanned[f]
      /\ t[g] \in Stream /\ t[g].at = i + 1 /\ t[g].dictionary = Scanned[g].dictionary
  <2>1. t[g] = skip_message(Scanned[g]) /\ Scanned[g].at = i
    BY <1>2, <1>3 DEF g, i
  <2> QED BY <1>2, <1>3, <2>1, SkipIs
<1>7. \A f \in DOMAIN log : t[f] \in Stream /\ IsPosition(log[f], t[f].at)
  <2>1. ASSUME NEW f \in DOMAIN log PROVE t[f] \in Stream /\ IsPosition(log[f], t[f].at)
    <3>1. CASE f = g
      <4>1. i \in 1 .. Len(log[g]) /\ Len(log[g]) \in Nat
        BY <1>1, <1>3 DEF IsData
      <4> QED BY <1>6, <3>1, <4>1 DEF IsPosition
    <3>2. CASE f # g
      BY <1>1, <1>2, <1>6, <3>2 DEF Positions
    <3> QED BY <3>1, <3>2
  <2> QED BY <2>1
<1>8. t \in Seq(Stream)
  <2>1. PICK n \in Nat : DOMAIN log = 1 .. n
    BY <1>1, FilesAre
  <2>2. t = [f \in 1 .. n |-> t[f]]
    BY <1>2, <2>1
  <2> HIDE DEF t
  <2> QED BY <1>7, <2>1, <2>2
<1> HIDE DEF t
<1>9. Positions(t)
  BY <1>1, <1>6, <1>7, <1>8 DEF Positions
<1>10. /\ IsPlace(At(t)) /\ IsPlace(At(input_streams))
       /\ \A f \in DOMAIN log : At(t)[f] = t[f].at
  BY <1>1, <1>9, PlaceIs
<1>11. Goes(At(input_streams), Chosen, At(t))
  <2>1. Chosen[1] = g /\ Chosen[2] = i
    BY <1>4
  <2>2. At(Scanned)[g] = i
    BY <1>2, <1>3 DEF g, i
  <2>3. \A f \in DOMAIN log : f # g => At(t)[f] = At(Scanned)[f] /\ At(t)[f] = Scanned[f].at
    BY <1>2, <1>6, <1>10
  <2>4. At(t)[g] = i + 1
    BY <1>3, <1>6, <1>10
  <2> QED BY <1>2, <1>3, <2>1, <2>2, <2>3, <2>4 DEF Goes
<1>12. Positions(input_streams)' /\ Streams' = Streams
  BY <1>1, <1>5, <1>6, <1>9 DEF Positions, Streams
<1>13. UNION {Junk(f, 1, t[f].at) : f \in Streams} = JunkOf(Starts, At(Scanned))
  <2>1. ASSUME NEW f \in Streams PROVE Junk(f, 1, t[f].at) = Junk(f, Starts[f], At(Scanned)[f])
    <3>1. Starts[f] = 1 /\ At(Scanned)[f] = Scanned[f].at
      BY <1>1, <1>2 DEF Starts
    <3>2. CASE f = g
      <4>1. At(Scanned)[f] = i /\ t[f].at = i + 1
        BY <1>6, <3>1, <3>2 DEF g, i
      <4>2. ~IsKind(log[f], i, {"junk", "stub"})
        BY <1>3, <3>2 DEF IsData, IsKind
      <4>3. \A j : j \in 1 .. (i + 1) - 1 <=> j \in 1 .. i - 1 \/ j = i
        BY <1>4
      <4> QED BY <3>1, <4>1, <4>2, <4>3 DEF Junk
    <3>3. CASE f # g
      BY <1>1, <1>6, <3>1, <3>3
    <3> QED BY <3>2, <3>3
  <2> QED BY <2>1 DEF JunkOf
<1>14. num_corruptions' \in Nat /\ num_corruptions <= num_corruptions'
  BY <1>1, <1>2, <1>5
<1>15. \A f \in DOMAIN log : t[f].dictionary = Scanned[f].dictionary
  BY <1>6
<1> QED BY <1>2, <1>5, <1>10, <1>11, <1>12, <1>13, <1>14, <1>15

\* There is nothing to go past.
LEMMA StopIs ==
  ASSUME WindowTypes, phase # "none", Ends
  PROVE  Stops(At(input_streams), At(Scanned))
<1>1. /\ IsLog(log) /\ Positions(input_streams) /\ Streams = DOMAIN log /\ Halting = {}
      /\ options \in Options /\ \A f \in DOMAIN log : Len(log[f]) \in Nat
  BY WindowBasics DEF WindowTypes
<1>2. \A f \in DOMAIN log :
        ComesTo(f, At(input_streams)[f], At(Scanned)[f]) /\ At(Scanned)[f] = Scanned[f].at
  BY ScanIs
<1>3. ASSUME NEW f \in DOMAIN log, IsData(f, Scanned[f].at)
      PROVE  ~is_valid_late(log[f][Scanned[f].at].time)
  <2>1. f \in Left
    BY <1>1, <1>3 DEF Left, empty, IsData
  <2>2. PICK n \in Left : n = next_si /\ TimeOf(n) <= TimeOf(f) /\ IsData(n, Scanned[n].at)
    BY <1>1, <2>1, NextIsEarliest
  <2>3. ~is_valid_late(TimeOf(n))
    BY <1>1, <2>1, <2>2 DEF Ends, Found
  <2>4. TimeOf(n) \in Nat /\ TimeOf(f) \in Nat
    BY <1>1, <1>3, <2>2, DataTime DEF TimeOf, Left
  <2>5. options.endTime \in Int
    <3>1. options.endTime \in {-1} \cup Times
      BY <1>1, OptionsAssumption
    <3>2. \A t \in {-1} \cup Times : t \in Int
      BY TimesAssumption
    <3> QED BY <3>1, <3>2
  <2> QED BY <2>2, <2>3, <2>4, <2>5 DEF is_valid_late, TimeOf
<1> QED BY <1>2, <1>3 DEF Stops

\* Whoever has read what describes a message knows its type.
LEMMA KnownIs ==
  ASSUME WindowTypes, phase # "none", Found, Regular,
         \A f \in DOMAIN log : \A i \in 1 .. Scanned[f].at - 1 :
           log[f][i].kind = "metadata" => log[f][i].type \in Scanned[f].dictionary
  PROVE  IsKnown(Chosen) <=> Chosen[1] \in box
<1> DEFINE g == next_si
           i == Scanned[next_si].at
<1>1. g \in DOMAIN log /\ IsData(g, i)
  BY FoundEarliest
<1>2. Chosen = <<g, i>> /\ Message(Chosen) = log[g][i]
  BY DEF Chosen, Message
<1>3. Chosen \in Messages
  BY <1>1, <1>2 DEF Messages, IsData
<1>4. IsDescribed(Chosen)
  BY <1>3 DEF Regular
<1>5. PICK j \in 1 .. i - 1 : log[g][j].kind = "metadata" /\ log[g][j].type = Message(Chosen).type
  BY <1>2, <1>4 DEF IsDescribed
<1>6. Message(Chosen).type \in Scanned[g].dictionary
  BY <1>1, <1>5
<1> QED BY <1>2, <1>6 DEF IsKnown

\* What streams know goes with them.
LEMMA StepKnows ==
  ASSUME WindowTypes, phase # "none", TypesKnown(input_streams)
  PROVE  /\ TypesKnown(Scanned)
         /\ Found /\ GoPast /\ log' = log => TypesKnown(input_streams)'
<1>1. /\ IsLog(log) /\ Positions(input_streams) /\ Streams = DOMAIN log /\ Halting = {}
      /\ Positions(Scanned) /\ \A f \in Streams : Reaches(f, Scanned[f])
      /\ \A f \in DOMAIN log : At(Scanned)[f] = Scanned[f].at
  BY WindowBasics, ScanIs
<1>2. TypesKnown(Scanned)
  BY <1>1, ScanKeeps
<1>3. ASSUME Found, GoPast, log' = log PROVE TypesKnown(input_streams)'
  <2>1. /\ Streams' = Streams
        /\ \A f \in DOMAIN log : input_streams'[f].dictionary = Scanned[f].dictionary
    BY <1>3, StepIs
  <2>2. next_si \in DOMAIN log /\ IsData(next_si, Scanned[next_si].at)
    BY <1>3, FoundEarliest
  <2>3. \A f \in DOMAIN log : Scanned[f] \in Stream /\ Scanned[f].at \in Nat
    BY <1>1 DEF Reaches, Stream
  <2>4. \A f \in DOMAIN log : input_streams'[f].at =
          IF f = next_si THEN Scanned[f].at + 1 ELSE Scanned[f].at
    <3>1. DOMAIN Scanned = DOMAIN log
      BY ScanIs
    <3>2. skip_message(Scanned[next_si]).at = Scanned[next_si].at + 1
      BY <2>2, <2>3, SkipIs
    <3> QED BY <1>3, <2>2, <3>1, <3>2 DEF GoPast
  <2>5. ASSUME NEW f \in Streams, NEW i \in 1 .. input_streams'[f].at - 1,
               log[f][i].kind = "metadata"
        PROVE  log[f][i].type \in input_streams'[f].dictionary
    <3>1. i \in 1 .. Scanned[f].at - 1
      <4>1. CASE f = next_si
        <5>1. i # Scanned[f].at
          BY <2>2, <2>5, <4>1 DEF IsData
        <5>2. i \in 1 .. Scanned[f].at
          BY <1>1, <2>3, <2>4, <2>5, <4>1
        <5> QED BY <1>1, <2>3, <5>1, <5>2
      <4>2. CASE f # next_si
        BY <1>1, <2>4, <2>5, <4>2
      <4> QED BY <4>1, <4>2
    <3> QED BY <1>1, <1>2, <2>1, <2>5, <3>1 DEF TypesKnown
  <2> QED BY <1>3, <2>1, <2>5 DEF TypesKnown
<1> QED BY <1>2, <1>3
-----------------------------------------------------------------------------
(* Types and counts are kept.                                              *)

JunkBefore(streams) == Cardinality(UNION {Junk(f, 1, streams[f].at) : f \in Streams})

LEMMA TypesFrom ==
  ASSUME WindowTypes, phase # "none", Unread, Positions(input_streams)', Streams' = Streams,
         num_corruptions' \in Nat, corruptionsBefore' \in 0 .. num_corruptions',
         num_corruptions' = corruptionsBefore' + JunkBefore(input_streams'),
         finish_reading' \in BOOLEAN,
         phase' \in {"opened", "getters", "handlers", "ready", "jumped", "loading"}
  PROVE  WindowTypes'
<1>1. /\ log' = log /\ options' = options /\ is_opened' = is_opened /\ parser' = parser
      /\ handled' = handled /\ processed' = processed /\ ended' = ended /\ asked' = asked
      /\ restarts' = restarts /\ merging' = merging /\ inputs' = inputs /\ ptrs' = ptrs
      /\ dictionary' = dictionary /\ written' = written
  BY DEF Unread, logVars, handlerVars, mergeVars
<1>2. CorruptionsCounted'
  <2>1. \A f \in Streams : Junk(f, 1, input_streams[f].at)' = Junk(f, 1, input_streams'[f].at)
    BY <1>1 DEF Junk, IsKind
  <2>2. (UNION {Junk(f, 1, input_streams[f].at) : f \in Streams})'
          = UNION {Junk(f, 1, input_streams'[f].at) : f \in Streams}
    BY <2>1
  <2> QED BY <2>2 DEF CorruptionsCounted, JunkBefore
<1>3. is_opened = TRUE /\ Streams = DOMAIN log
  BY DEF WindowTypes
<1>4. NotAsked' = NotAsked /\ NoParser' = NoParser
  BY DEF NotAsked, NoParser
<1> QED BY <1>1, <1>2, <1>3, <1>4 DEF WindowTypes

LEMMA TypesStep ==
  ASSUME WindowTypes, phase # "none", Unread, Found, GoPast,
         phase' \in {"opened", "getters", "handlers", "ready", "jumped", "loading"}
  PROVE  WindowTypes'
<1>1. log' = log
  BY DEF Unread, logVars
<1>2. /\ Positions(input_streams)' /\ Streams' = Streams
      /\ num_corruptions' \in Nat /\ num_corruptions <= num_corruptions'
      /\ num_corruptions' = corruptionsBefore + JunkBefore(input_streams')
  BY <1>1, StepIs DEF JunkBefore
<1>3. corruptionsBefore' = corruptionsBefore /\ finish_reading' = finish_reading
  BY DEF GoPast
<1>4. corruptionsBefore' \in 0 .. num_corruptions' /\ finish_reading' \in BOOLEAN
  BY <1>2, <1>3 DEF WindowTypes
<1> QED BY <1>2, <1>3, <1>4, TypesFrom

LEMMA JunkBeforeIs ==
  ASSUME IsLog(log), Streams = DOMAIN log, NEW t, Positions(t)
  PROVE  JunkBefore(t) = Cardinality(JunkOf(Starts, At(t)))
<1>1. \A f \in Streams : Starts[f] = 1 /\ At(t)[f] = t[f].at
  BY PlaceIs DEF Starts
<1> QED BY <1>1 DEF JunkBefore, JunkOf

LEMMA TypesFinish ==
  ASSUME WindowTypes, phase # "none", Unread, Finish,
         phase' \in {"opened", "getters", "handlers", "ready", "jumped", "loading"}
  PROVE  WindowTypes' /\ num_corruptions <= num_corruptions'
<1>1. /\ IsLog(log) /\ Streams = DOMAIN log /\ num_corruptions \in Nat /\ corruptionsBefore \in Nat
  BY WindowBasics
<1>2. /\ Positions(Scanned) /\ DOMAIN Scanned = DOMAIN log /\ NumSkipped \in Nat
      /\ num_corruptions + NumSkipped = corruptionsBefore + Cardinality(JunkOf(Starts, At(Scanned)))
  BY ScanIs
<1>3. /\ input_streams' = Scanned /\ num_corruptions' = num_corruptions + NumSkipped
      /\ corruptionsBefore' = corruptionsBefore /\ finish_reading' = TRUE /\ log' = log
  BY DEF Finish, Ends, Unread, logVars
<1>4. JunkBefore(Scanned) = Cardinality(JunkOf(Starts, At(Scanned)))
  BY <1>1, <1>2, JunkBeforeIs
<1>5. Positions(input_streams)' /\ Streams' = Streams
  BY <1>1, <1>2, <1>3 DEF Positions, Streams
<1>6. corruptionsBefore' \in 0 .. num_corruptions' /\ num_corruptions' \in Nat
  BY <1>1, <1>2, <1>3 DEF WindowTypes
<1>7. WindowTypes'
  BY <1>2, <1>3, <1>4, <1>5, <1>6, TypesFrom
<1> QED BY <1>1, <1>2, <1>3, <1>7

LEMMA TypesStay ==
  ASSUME WindowTypes, phase # "none", Unread, finish_reading' \in BOOLEAN,
         UNCHANGED <<input_streams, num_corruptions, corruptionsBefore>>,
         phase' \in {"opened", "getters", "handlers", "ready", "jumped", "loading"}
  PROVE  WindowTypes'
<1>1. /\ input_streams' = input_streams /\ num_corruptions' = num_corruptions
      /\ corruptionsBefore' = corruptionsBefore /\ log' = log
  BY DEF Unread, logVars
<1>2. /\ num_corruptions \in Nat /\ corruptionsBefore \in 0 .. num_corruptions
      /\ num_corruptions = corruptionsBefore + JunkBefore(input_streams) /\ Positions(input_streams)
  BY DEF WindowTypes, CorruptionsCounted, JunkBefore
<1>3. JunkBefore(input_streams') = JunkBefore(input_streams)
  BY <1>1
<1>4. Positions(input_streams)' /\ Streams' = Streams
  BY <1>1, <1>2 DEF Positions, Streams
<1> QED BY <1>1, <1>2, <1>3, <1>4, TypesFrom

\* Streams that were put somewhere else: as many stretches have been counted
\* before as lie before them.
LEMMA TypesMoved ==
  ASSUME WindowTypes, phase # "none", Unread, Moved, Positions(input_streams)',
         DOMAIN input_streams' = DOMAIN log, num_corruptions' \in Nat,
         JunkBefore(input_streams') <= num_corruptions', finish_reading' \in BOOLEAN,
         phase' \in {"opened", "getters", "handlers", "ready", "jumped", "loading"}
  PROVE  WindowTypes'
<1>1. IsLog(log) /\ Streams = DOMAIN log /\ Streams' = Streams /\ log' = log
      /\ Positions(input_streams) /\ Streams \subseteq DOMAIN log
  BY WindowBasics DEF Streams, Unread, logVars
<1>2. Positions(input_streams')
  BY <1>1 DEF Positions
<1>3. JunkBefore(input_streams') \in Nat
  BY <1>1, <1>2, JunkBeforeIs, JunkIsFinite
<1>4. corruptionsBefore' = num_corruptions' - JunkBefore(input_streams')
  BY DEF Moved, JunkBefore
<1>5. corruptionsBefore' \in 0 .. num_corruptions'
      /\ num_corruptions' = corruptionsBefore' + JunkBefore(input_streams')
  BY <1>3, <1>4
<1> QED BY <1>1, <1>5, TypesFrom
-----------------------------------------------------------------------------
(* The walk rises, in positions and in time.                               *)

LEMMA WalkStep ==
  ASSUME IsLog(log), Walk, NEW k \in 1 .. Len(path)
  PROVE  /\ IsPlace(places[k]) /\ IsPlace(places[k + 1]) /\ Goes(places[k], path[k], places[k + 1])
         /\ \A f \in DOMAIN log : places[k][f] <= places[k + 1][f]
         /\ \E f \in DOMAIN log : places[k][f] < places[k + 1][f]
<1>1. IsPlace(places[k]) /\ IsPlace(places[k + 1]) /\ Goes(places[k], path[k], places[k + 1])
  <2>1. Len(path) \in Nat
    BY DEF Walk
  <2>2. k \in 1 .. Len(path) + 1 /\ k + 1 \in 1 .. Len(path) + 1
    BY <2>1
  <2> QED BY <2>2 DEF Walk
<1> QED BY <1>1, GoesUp

LEMMA WalkRises ==
  ASSUME IsLog(log), Walk, NEW j \in 1 .. Len(path) + 1, NEW k \in 1 .. Len(path) + 1, j <= k
  PROVE  /\ \A f \in DOMAIN log : places[j][f] <= places[k][f]
         /\ j < k => \E f \in DOMAIN log : places[j][f] < places[k][f]
<1> DEFINE n == Len(path)
           R == {m \in Nat : \A i \in 1 .. n + 1 : i + m <= n + 1 =>
                   \A f \in DOMAIN log : places[i][f] <= places[i + m][f]}
<1>1. n \in Nat /\ \A i \in 1 .. n + 1 : \A f \in DOMAIN log : places[i][f] \in Nat
  BY DEF Walk, IsPlace
<1>2. 0 \in R
  BY <1>1
<1>3. ASSUME NEW m \in Nat, m \in R PROVE m + 1 \in R
  <2>1. SUFFICES ASSUME NEW i \in 1 .. n + 1, i + (m + 1) <= n + 1, NEW f \in DOMAIN log
                 PROVE  places[i][f] <= places[i + (m + 1)][f]
    OBVIOUS
  <2>2. i + m \in 1 .. n /\ i + m <= n + 1 /\ i + m \in 1 .. n + 1
    BY <1>1, <2>1
  <2>3. places[i][f] <= places[i + m][f]
    BY <1>3, <2>1, <2>2
  <2>4. (i + m) + 1 = i + (m + 1) /\ i + (m + 1) \in 1 .. n + 1
    BY <1>1, <2>1
  <2>5. places[i + m][f] <= places[(i + m) + 1][f]
    BY <2>1, <2>2, WalkStep
  <2>6. /\ places[i][f] \in Nat /\ places[i + m][f] \in Nat /\ places[i + (m + 1)][f] \in Nat
    BY <1>1, <2>1, <2>2, <2>4
  <2> HIDE DEF n, R
  <2> QED BY <2>3, <2>4, <2>5, <2>6
<1> HIDE DEF R
<1>4. \A m \in Nat : m \in R
  BY <1>2, <1>3, SetInduction
<1>5. ASSUME NEW h \in 1 .. n + 1, NEW l \in 1 .. n + 1, h <= l
      PROVE  \A f \in DOMAIN log : places[h][f] <= places[l][f]
  <2>1. l - h \in Nat /\ h + (l - h) = l
    BY <1>1, <1>5
  <2>2. l - h \in R
    BY <1>4, <2>1
  <2> QED BY <1>5, <2>1, <2>2 DEF R
<1>6. ASSUME j < k PROVE \E f \in DOMAIN log : places[j][f] < places[k][f]
  <2>1. j \in 1 .. n /\ j + 1 \in 1 .. n + 1 /\ j + 1 <= k
    BY <1>1, <1>6
  <2>2. PICK f \in DOMAIN log : places[j][f] < places[j + 1][f]
    BY <2>1, WalkStep
  <2>3. places[j + 1][f] <= places[k][f]
    BY <1>5, <2>1
  <2>4. places[j][f] \in Nat /\ places[j + 1][f] \in Nat /\ places[k][f] \in Nat
    BY <1>1, <2>1
  <2> QED BY <2>2, <2>3, <2>4
<1> QED BY <1>5, <1>6

LEMMA PathIs ==
  ASSUME IsLog(log), Walk, NEW k \in 1 .. Len(path)
  PROVE  /\ path[k] \in (DOMAIN log) \X Nat /\ IsData(path[k][1], path[k][2]) /\ path[k] \in Messages
         /\ Message(path[k]) \in Item /\ TimeAt(k) \in Nat
<1>1. Goes(places[k], path[k], places[k + 1])
  BY WalkStep
<1>2. PICK g \in DOMAIN log, i \in Nat : path[k] = <<g, i>>
  BY <1>1 DEF Goes
<1>3. IsData(g, i) /\ Message(path[k]) = log[g][i]
  BY <1>1, <1>2 DEF Goes, Message
<1>4. path[k] \in Messages
  BY <1>2, <1>3 DEF Messages, IsData
<1>5. Message(path[k]) \in Item /\ Message(path[k]).time \in Nat
  BY <1>3, DataTime
<1> QED BY <1>2, <1>3, <1>4, <1>5 DEF TimeAt

LEMMA WalkInOrder ==
  ASSUME IsLog(log), Walk, FilesOrdered, NEW j \in 1 .. Len(path), NEW k \in 1 .. Len(path), j <= k
  PROVE  TimeAt(j) <= TimeAt(k)
<1> DEFINE n == Len(path)
<1>1. n \in Nat /\ \A i \in 1 .. n : TimeAt(i) \in Nat
  <2>1. \A i \in 1 .. Len(path) : TimeAt(i) \in Nat
    BY PathIs
  <2>2. Len(path) \in Nat
    BY DEF Walk
  <2> QED BY <2>1, <2>2
<1>2. ASSUME NEW i \in 1 .. n, i + 1 <= n PROVE TimeAt(i) <= TimeAt(i + 1)
  <2>1. i + 1 \in 1 .. n
    BY <1>1, <1>2
  <2>2. /\ Goes(places[i], path[i], places[i + 1]) /\ IsPlace(places[i + 1])
        /\ Goes(places[i + 1], path[i + 1], places[(i + 1) + 1])
    BY <2>1, WalkStep
  <2>3. PICK g \in DOMAIN log, l \in Nat : path[i] = <<g, l>>
    BY <2>2 DEF Goes
  <2>4. PICK h \in DOMAIN log, m \in Nat : path[i + 1] = <<h, m>>
    BY <2>2 DEF Goes
  <2>5. /\ IsData(g, l) /\ IsData(h, m) /\ TimeAt(i) = log[g][l].time /\ TimeAt(i + 1) = log[h][m].time
        /\ places[i + 1][g] = l + 1 /\ ComesTo(h, places[i + 1][h], m)
    BY <2>2, <2>3, <2>4 DEF Goes, TimeAt, Message
  <2>6. CASE g = h
    <3>1. l <= m
      BY <2>5, <2>6 DEF ComesTo
    <3> QED BY <2>5, <2>6, <3>1, OrderedIn
  <2>7. CASE g # h
    <3>1. ComesTo(h, places[i][h], places[i + 1][h])
      BY <2>2, <2>3, <2>7 DEF Goes
    <3>2. places[i + 1][h] \in Nat
      BY <2>2 DEF IsPlace
    <3>3. ComesTo(h, places[i + 1][h], places[i + 1][h])
      BY <3>1, <3>2 DEF ComesTo
    <3>4. places[i + 1][h] = m
      BY <2>5, <3>2, <3>3, ComesToOnce
    <3>5. TimeAt(i) < TimeAt(i + 1) \/ TimeAt(i) = TimeAt(i + 1)
      <4>1. \/ Message(path[i]).time < log[h][places[i + 1][h]].time
            \/ Message(path[i]).time = log[h][places[i + 1][h]].time /\ g <= h
        BY <2>2, <2>3, <2>5, <2>7, <3>4 DEF Goes
      <4> QED BY <2>5, <3>4, <4>1 DEF TimeAt
    <3> QED BY <1>1, <2>1, <3>5
  <2> QED BY <2>6, <2>7
<1> DEFINE R == {m \in Nat : \A i \in 1 .. n : i + m <= n => TimeAt(i) <= TimeAt(i + m)}
<1>3. 0 \in R
  BY <1>1
<1>4. ASSUME NEW m \in Nat, m \in R PROVE m + 1 \in R
  <2>1. SUFFICES ASSUME NEW i \in 1 .. n, i + (m + 1) <= n PROVE TimeAt(i) <= TimeAt(i + (m + 1))
    OBVIOUS
  <2>2. i + m \in 1 .. n /\ i + m <= n /\ (i + m) + 1 <= n /\ (i + m) + 1 = i + (m + 1)
        /\ i + (m + 1) \in 1 .. n
    BY <1>1, <2>1
  <2>3. TimeAt(i) <= TimeAt(i + m) /\ TimeAt(i + m) <= TimeAt((i + m) + 1)
    BY <1>2, <1>4, <2>1, <2>2
  <2>4. TimeAt(i) \in Nat /\ TimeAt(i + m) \in Nat /\ TimeAt(i + (m + 1)) \in Nat
    BY <1>1, <2>1, <2>2
  <2> HIDE DEF n, R
  <2> QED BY <2>2, <2>3, <2>4
<1> HIDE DEF R
<1>5. \A m \in Nat : m \in R
  BY <1>3, <1>4, SetInduction
<1>6. k - j \in Nat /\ j + (k - j) = k
  BY <1>1
<1>7. k - j \in R
  BY <1>5, <1>6
<1> QED BY <1>6, <1>7 DEF R
-----------------------------------------------------------------------------
(* initialize.                                                             *)

LEMMA OpenKeeps ==
  ASSUME WalkInv, open_window
  PROVE  WalkInv'
<1>1. /\ WindowTypes /\ phase = "none" /\ phase' = "opened" /\ openUlog /\ WindowStart
  BY DEF WalkInv, NotBegun, Initialized, open_window
<1>2. Fresh
  <2>1. Streams = {} /\ is_opened = FALSE /\ DOMAIN input_streams = {}
    BY <1>1 DEF WindowTypes, Streams
  <2>2. corruptionsBefore = num_corruptions
    <3>1. UNION {Junk(f, 1, input_streams[f].at) : f \in Streams} = {}
      BY <2>1
    <3>2. Cardinality(UNION {Junk(f, 1, input_streams[f].at) : f \in Streams}) = 0
      BY <3>1, FS_EmptySet
    <3> QED BY <1>1, <3>2 DEF WindowTypes, CorruptionsCounted
  <2>3. IsLog(log) /\ input_streams \in Seq(Stream)
    BY <1>1, WindowBasics DEF WindowTypes, Positions
  <2> QED BY <1>1, <2>1, <2>2, <2>3 DEF Fresh, WindowTypes
<1>3. ReaderIInv
  BY <1>2, FreshIs
<1>4. Fresh' /\ ReaderIInv'
  <2>1. Fresh'
    BY <1>1, <1>3, RestartIsFresh
  <2>2. Fresh' => ReaderIInv'
    BY FreshIs, PTL
  <2> QED BY <2>1, <2>2
<1>5. /\ log' = log /\ options' = options /\ is_opened' = TRUE /\ parser' = parser
      /\ UNCHANGED mergeVars /\ WindowStart'
  BY <1>1 DEF openUlog, logVars, open_window, WindowStart, placeVars, loadedVars, boundVars, walkVars
<1>6. Streams' = DOMAIN log' /\ \A f \in Streams' : input_streams'[f].at = 1
  BY <1>4, <1>5 DEF Fresh, Streams
<1>7. Positions(input_streams)'
  <2>1. \A f \in Streams' : IsPosition(log'[f], input_streams'[f].at)
    <3>1. \A f \in DOMAIN log : Len(log[f]) \in Nat
      BY <1>1, WindowBasics
    <3> QED BY <1>5, <1>6, <3>1 DEF IsPosition
  <2> QED BY <1>4, <2>1 DEF Positions, Fresh, Streams
<1>8. CorruptionsCounted' /\ finish_reading' \in BOOLEAN /\ num_corruptions' \in Nat
      /\ corruptionsBefore' = num_corruptions' /\ restarts' \in 0 .. MaxRestarts
      /\ processed' = << >> /\ handled' = << >> /\ ended' = FALSE /\ asked' = NotAsked'
  BY <1>4 DEF Fresh, ReaderIInv
<1>9. WindowTypes'
  <2>1. corruptionsBefore' \in 0 .. num_corruptions'
    BY <1>8
  <2>2. NoParser' = NoParser
    BY DEF NoParser
  <2> QED BY <1>1, <1>5, <1>6, <1>7, <1>8, <2>1, <2>2 DEF WindowTypes, mergeVars
<1>10. NotBegun' /\ ~Initialized'
  BY <1>1, <1>5, <1>6 DEF NotBegun, Initialized
<1> QED BY <1>9, <1>10 DEF WalkInv

LEMMA InitializeKeeps ==
  ASSUME WalkInv, initialize
  PROVE  WalkInv'
<1>1. /\ WindowTypes /\ phase = "opened" /\ phase' = "getters" /\ WindowStart
      /\ \A f \in Streams : input_streams[f].at = 1
  BY DEF WalkInv, NotBegun, Initialized, initialize
<1>2. /\ UNCHANGED readerVars /\ UNCHANGED mergeVars /\ max_offset' = 0 /\ lastState' = getState
      /\ places' = <<At(input_streams)>> /\ path' = << >> /\ stateMap' = << >>
  BY <1>1 DEF initialize, WindowStart
<1>3. IsLog(log) /\ Streams = DOMAIN log /\ Positions(input_streams) /\ DOMAIN input_streams = DOMAIN log
  BY <1>1, WindowBasics
<1>4. WindowTypes'
  <2>1. Unread /\ UNCHANGED <<input_streams, num_corruptions, corruptionsBefore, finish_reading>>
    BY <1>2 DEF Unread, readerVars, logVars, handlerVars, mergeVars
  <2>2. finish_reading' \in BOOLEAN
    BY <1>1, <2>1 DEF WindowTypes
  <2> QED BY <1>1, <2>1, <2>2, TypesStay
<1>5. log' = log /\ input_streams' = input_streams
  BY <1>2 DEF readerVars, logVars
<1>6. /\ IsPlace(At(input_streams)) /\ \A f \in DOMAIN log : At(input_streams)[f] = 1
  BY <1>1, <1>3, PlaceIs
<1>7. Walk'
  <2>1. Len(path') = 0 /\ Len(places') = 1 /\ places'[1] = At(input_streams)
    BY <1>2
  <2>2. \A k \in 1 .. Len(path') + 1 : IsPlace(places[k])'
    <3>1. \A k \in 1 .. Len(path') + 1 : places'[k] = At(input_streams)
      BY <2>1
    <3> QED BY <1>5, <1>6, <3>1 DEF IsPlace
  <2>3. \A k \in 1 .. Len(path') : Goes(places[k], path[k], places[k + 1])'
    BY <2>1
  <2>4. lastState' = Double(places[Len(path) + 1])'
    <3>1. places'[Len(path') + 1] = At(input_streams)
      BY <2>1
    <3>2. getState = [f \in DOMAIN log |-> 2 * At(input_streams)[f]]
      BY <1>3 DEF getState, StateOf, At
    <3> QED BY <1>2, <1>5, <3>1, <3>2 DEF Double
  <2>5. path' \in Seq((DOMAIN log') \X Nat)
    BY <1>2
  <2>6. places' \in Seq([DOMAIN log' -> Nat \ {0}])
    BY <1>2, <1>5, <1>6 DEF IsPlace
  <2>7. \A f \in DOMAIN log' : places'[1][f] = 1
    BY <1>5, <1>6, <2>1
  <2>8. max_offset' \in Nat /\ Len(places') = Len(path') + 1
    BY <1>2, <2>1
  <2> QED BY <2>2, <2>3, <2>4, <2>5, <2>6, <2>7, <2>8 DEF Walk
<1>8. FramesNoted'
  BY <1>2 DEF FramesNoted
<1>9. Gone'
  <2>1. places'[Len(path') + 1] = At(input_streams')
    BY <1>2, <1>5
  <2>2. TypesKnown(input_streams)'
    BY <1>1, <1>5 DEF TypesKnown, Streams
  <2> QED BY <2>1, <2>2 DEF Gone
<1>10. Ended' /\ NotBegun'
  BY <1>1 DEF Ended, AtEnd, NotBegun, Initialized
<1> QED BY <1>4, <1>7, <1>8, <1>9, <1>10 DEF WalkInv

LEMMA GettersKeep ==
  ASSUME WalkInv, processGetters
  PROVE  WalkInv'
<1>0. PICK n : n = Len(path)
  OBVIOUS
<1> DEFINE offset == Message(Chosen).time
           isNew == IsFrame(Chosen) /\ offset \notin DOMAIN stateMap
<1>1. /\ WindowTypes /\ phase = "getters" /\ phase' = "getters" /\ Found /\ GoPast /\ Unread
      /\ Walk /\ FramesNoted /\ At(input_streams) = places[n + 1] /\ TypesKnown(input_streams)
      /\ box' = box /\ path' = Append(path, Chosen) /\ places' = Append(places, At(input_streams'))
      /\ lastState' = StateOf(input_streams')
      /\ stateMap' = (IF isNew THEN Insert(stateMap, offset, lastState) ELSE stateMap)
      /\ max_offset' = (IF isNew /\ offset > max_offset THEN offset ELSE max_offset)
  BY <1>0 DEF WalkInv, Initialized, Gone, processGetters
<1>2. log' = log /\ IsLog(log) /\ DOMAIN input_streams = DOMAIN log
  BY <1>1, WindowBasics DEF Unread, logVars
<1>3. WindowTypes'
  BY <1>1, TypesStep
<1>4. /\ Goes(places[n + 1], Chosen, At(input_streams')) /\ IsPlace(At(input_streams'))
      /\ DOMAIN input_streams' = DOMAIN log
      /\ Chosen \in (DOMAIN log) \X Nat /\ offset \in Nat
  <2>1. Chosen \in (DOMAIN log) \X Nat /\ IsData(next_si, Scanned[next_si].at) /\ next_si \in DOMAIN log
        /\ Message(Chosen) = log[next_si][Scanned[next_si].at]
    BY <1>1, FoundEarliest
  <2>2. offset \in Nat
    BY <1>2, <2>1, DataTime
  <2>3. Streams' = Streams
    BY <1>1, <1>2, StepIs
  <2> QED BY <1>1, <1>2, <2>1, <2>2, <2>3, StepIs DEF Streams
<1>5. /\ n \in Nat /\ Len(path') = n + 1 /\ Len(places') = (n + 1) + 1
      /\ path \in Seq((DOMAIN log) \X Nat) /\ places \in Seq([DOMAIN log -> Nat \ {0}])
      /\ Len(places) = n + 1 /\ max_offset \in Nat
  BY <1>0, <1>1, <1>4 DEF Walk
<1> HIDE DEF offset, isNew
<1>6. /\ \A k \in 1 .. n : path'[k] = path[k]
      /\ \A k \in 1 .. n + 1 : places'[k] = places[k]
      /\ path'[n + 1] = Chosen /\ places'[(n + 1) + 1] = At(input_streams')
  <2>1. Len(path) = n
    BY <1>0
  <2> QED BY <1>1, <1>5, <2>1
<1>7. Walk'
  <2>1. path' \in Seq((DOMAIN log') \X Nat)
    BY <1>1, <1>2, <1>4, <1>5
  <2>2. places' \in Seq([DOMAIN log' -> Nat \ {0}])
    <3>1. At(input_streams') \in [DOMAIN log -> Nat \ {0}]
      BY <1>4 DEF IsPlace
    <3> QED BY <1>1, <1>2, <1>5, <3>1
  <2>3. \A k \in 1 .. n + 1 : IsPlace(places[k])
    BY <1>0, <1>1 DEF Walk
  <2>4. ASSUME NEW k \in 1 .. Len(path') + 1 PROVE IsPlace(places'[k])
    <3>1. k \in 1 .. n + 1 \/ k = (n + 1) + 1
      BY <1>5
    <3> QED BY <1>4, <1>6, <2>3, <3>1
  <2>5. \A k \in 1 .. n : Goes(places[k], path[k], places[k + 1])
    BY <1>0, <1>1 DEF Walk
  <2>6. ASSUME NEW k \in 1 .. Len(path') PROVE Goes(places'[k], path'[k], places'[k + 1])
    <3>1. CASE k \in 1 .. n
      <4>1. k \in 1 .. n + 1 /\ k + 1 \in 1 .. n + 1
        BY <1>5, <3>1
      <4> QED BY <1>6, <2>5, <3>1, <4>1
    <3>2. CASE k = n + 1
      <4>1. n + 1 \in 1 .. n + 1
        BY <1>5
      <4> QED BY <1>4, <1>6, <3>2, <4>1
    <3> QED BY <1>5, <3>1, <3>2
  <2>7. \A k \in 1 .. Len(path') + 1 : IsPlace(places[k])'
    BY <1>2, <2>4 DEF IsPlace
  <2>8. \A k \in 1 .. Len(path') : Goes(places[k], path[k], places[k + 1])'
    <3>1. options' = options
      BY <1>1 DEF Unread, logVars
    <3> QED BY <1>2, <2>6, <3>1 DEF Goes, ComesTo, IsData, IsPosition, IsKind, Message, is_valid_late
  <2>9. \A f \in DOMAIN log' : places'[1][f] = 1
    <3>1. 1 \in 1 .. n + 1
      BY <1>5
    <3> QED BY <1>1, <1>2, <1>6, <3>1 DEF Walk
  <2>10. lastState' = Double(places[Len(path) + 1])'
    <3>1. places'[Len(path') + 1] = At(input_streams')
      BY <1>5, <1>6
    <3>2. StateOf(input_streams') = [f \in DOMAIN log |-> 2 * At(input_streams')[f]]
      BY <1>4 DEF StateOf, At
    <3> QED BY <1>1, <1>2, <3>1, <3>2 DEF Double
  <2>11. max_offset' \in Nat /\ Len(places') = Len(path') + 1
    BY <1>1, <1>4, <1>5
  <2> QED BY <2>1, <2>2, <2>7, <2>8, <2>9, <2>10, <2>11 DEF Walk
<1>8. /\ Regular' = Regular
      /\ \A k \in 1 .. n : IsFrameAt(k)' = IsFrameAt(k) /\ TimeAt(k)' = TimeAt(k)
      /\ TimeAt(n + 1)' = offset
      /\ IsFrameAt(n + 1)' = (Chosen[1] \in box /\ Message(Chosen).type = FrameType)
  <2>1. Regular' = Regular
    BY <1>2 DEF Regular, FilesOrdered, Messages, IsDescribed, Message
  <2> QED BY <1>1, <1>2, <1>6, <2>1 DEF IsFrameAt, TimeAt, Message, offset
<1>9. /\ max_offset <= max_offset' /\ (isNew => offset <= max_offset')
      /\ \A o \in DOMAIN stateMap : o \in DOMAIN stateMap' /\ stateMap'[o] = stateMap[o]
      /\ \A o \in DOMAIN stateMap' :
           o \in DOMAIN stateMap \/ (isNew /\ o = offset /\ stateMap'[o] = lastState)
      /\ isNew => offset \in DOMAIN stateMap'
  <2>1. max_offset <= max_offset' /\ (isNew => offset <= max_offset')
    BY <1>1, <1>4, <1>5
  <2>2. CASE isNew
    <3>1. stateMap' = Insert(stateMap, offset, lastState) /\ offset \notin DOMAIN stateMap
      BY <1>1, <2>2 DEF isNew
    <3>2. /\ DOMAIN stateMap' = DOMAIN stateMap \cup {offset} /\ stateMap'[offset] = lastState
          /\ \A x \in DOMAIN stateMap \ {offset} : stateMap'[x] = stateMap[x]
      BY <3>1 DEF Insert
    <3> QED BY <2>1, <2>2, <3>1, <3>2
  <2>3. CASE ~isNew
    BY <1>1, <2>1, <2>3
  <2> QED BY <2>2, <2>3
<1>10. ASSUME NEW o \in DOMAIN stateMap' PROVE IsNoted(o)'
  <2>1. CASE o \in DOMAIN stateMap
    <3>1. IsNoted(o)
      BY <1>1, <2>1 DEF FramesNoted, AtEnd
    <3>2. PICK k \in 1 .. n : /\ IsFrameAt(k) /\ TimeAt(k) = o /\ stateMap[o] = Double(places[k])
                              /\ Regular => \A j \in 1 .. k - 1 : IsFrameAt(j) => TimeAt(j) # o
      BY <1>0, <3>1 DEF IsNoted
    <3>3. o \in 0 .. max_offset'
      <4>1. o \in 0 .. max_offset
        BY <3>1 DEF IsNoted
      <4>2. max_offset' \in Nat
        BY <1>7 DEF Walk
      <4> QED BY <1>5, <1>9, <4>1, <4>2
    <3>4. k \in 1 .. Len(path') /\ k \in 1 .. n + 1 /\ \A j \in 1 .. k - 1 : j \in 1 .. n
      BY <1>5, <3>2
    <3>5. stateMap'[o] = Double(places[k])'
      BY <1>2, <1>6, <1>9, <2>1, <3>2, <3>4 DEF Double
    <3>6. IsFrameAt(k)' /\ TimeAt(k)' = o
          /\ (Regular' => \A j \in 1 .. k - 1 : IsFrameAt(j)' => TimeAt(j)' # o)
      BY <1>8, <3>2, <3>4
    <3> QED BY <3>3, <3>4, <3>5, <3>6 DEF IsNoted
  <2>2. CASE o \notin DOMAIN stateMap
    <3>1. isNew /\ o = offset /\ stateMap'[o] = lastState
      BY <1>9, <2>2
    <3>2. IsFrameAt(n + 1)' /\ TimeAt(n + 1)' = o
      BY <1>8, <3>1 DEF isNew, IsFrame, IsKnown
    <3>3. stateMap'[o] = Double(places[n + 1])'
      <4>1. lastState = Double(places[n + 1]) /\ n + 1 \in 1 .. n + 1
        BY <1>0, <1>1, <1>5 DEF Walk
      <4> QED BY <1>2, <1>6, <3>1, <4>1 DEF Double
    <3>4. Regular' => \A j \in 1 .. (n + 1) - 1 : IsFrameAt(j)' => TimeAt(j)' # o
      <4>1. \A j \in 1 .. (n + 1) - 1 : j \in 1 .. n
        BY <1>5
      <4>2. Regular => \A j \in 1 .. n : IsFrameAt(j) => TimeAt(j) \in DOMAIN stateMap
        BY <1>0, <1>1 DEF FramesNoted
      <4> QED BY <1>8, <2>2, <4>1, <4>2
    <3>5. o \in 0 .. max_offset' /\ n + 1 \in 1 .. Len(path')
      <4>1. max_offset' \in Nat
        BY <1>7 DEF Walk
      <4> QED BY <1>4, <1>5, <1>9, <3>1, <4>1
    <3> QED BY <3>2, <3>3, <3>4, <3>5 DEF IsNoted
  <2> QED BY <2>1, <2>2
<1>11. ASSUME Regular, NEW k \in 1 .. Len(path'), IsFrameAt(k)'
       PROVE  TimeAt(k)' \in DOMAIN stateMap' /\ TimeAt(k)' <= max_offset'
  <2>1. max_offset' \in Nat
    BY <1>7 DEF Walk
  <2>2. \A o \in DOMAIN stateMap : o \in 0 .. max_offset
    BY <1>1 DEF FramesNoted, IsNoted, AtEnd
  <2>3. CASE k \in 1 .. n
    <3>1. TimeAt(k) \in DOMAIN stateMap
      BY <1>0, <1>1, <1>8, <1>11, <2>3 DEF FramesNoted
    <3>2. TimeAt(k) \in 0 .. max_offset
      BY <2>2, <3>1
    <3> QED BY <1>5, <1>8, <1>9, <2>1, <2>3, <3>1, <3>2
  <2>4. CASE k = n + 1
    <3>1. TypesKnown(Scanned)
      BY <1>1, StepKnows
    <3>2. Streams = DOMAIN log
      BY <1>2 DEF Streams
    <3>3. IsKnown(Chosen) <=> Chosen[1] \in box
      BY <1>1, <1>11, <3>1, <3>2, KnownIs DEF TypesKnown
    <3>4. IsFrame(Chosen)
      BY <1>8, <1>11, <2>4, <3>3 DEF IsFrame
    <3>5. CASE isNew
      BY <1>8, <1>9, <2>4, <3>5
    <3>6. CASE ~isNew
      <4>1. offset \in DOMAIN stateMap
        BY <3>4, <3>6 DEF isNew
      <4>2. offset \in 0 .. max_offset
        BY <2>2, <4>1
      <4> QED BY <1>5, <1>8, <1>9, <2>1, <2>4, <4>1, <4>2
    <3> QED BY <3>5, <3>6
  <2> QED BY <1>5, <2>3, <2>4
<1>12. FramesNoted'
  BY <1>8, <1>10, <1>11 DEF FramesNoted
<1>13. Gone'
  <2>1. At(input_streams)' = places'[Len(path') + 1]
    BY <1>5, <1>6
  <2>2. TypesKnown(input_streams)'
    BY <1>1, <1>2, StepKnows
  <2> QED BY <2>1, <2>2 DEF Gone
<1>14. Ended' /\ NotBegun'
  BY <1>1 DEF Ended, AtEnd, NotBegun, Initialized
<1> QED BY <1>3, <1>7, <1>12, <1>13, <1>14 DEF WalkInv

\* Streams put back to their start.
LEMMA RewindIs ==
  ASSUME WindowTypes, phase # "none", input_streams' = AtStart, log' = log
  PROVE  /\ Positions(input_streams)' /\ DOMAIN input_streams' = DOMAIN log /\ Streams' = Streams
         /\ \A f \in DOMAIN log :
              input_streams'[f].at = 1 /\ input_streams'[f].dictionary = Scanned[f].dictionary
         /\ JunkBefore(input_streams') = 0
<1>1. /\ IsLog(log) /\ Streams = DOMAIN log /\ DOMAIN input_streams = DOMAIN log
      /\ \A f \in DOMAIN log : Len(log[f]) \in Nat /\ Scanned[f] \in Stream
  BY WindowBasics, ScanIs DEF Reaches
<1>2. ASSUME NEW f \in DOMAIN log
      PROVE  /\ AtStart[f] \in Stream /\ AtStart[f].at = 1
             /\ AtStart[f].dictionary = Scanned[f].dictionary
  <2>1. /\ Scanned[f] = [at |-> Scanned[f].at, dictionary |-> Scanned[f].dictionary]
        /\ Scanned[f].dictionary \in SUBSET Types
    BY <1>1 DEF Stream
  <2>2. AtStart[f] = [at |-> 1, dictionary |-> Scanned[f].dictionary]
    BY <1>1, <2>1 DEF AtStart
  <2> QED BY <2>1, <2>2 DEF Stream
<1>3. DOMAIN AtStart = DOMAIN log
  BY <1>1 DEF AtStart
<1>4. AtStart \in Seq(Stream)
  <2>1. PICK n \in Nat : DOMAIN log = 1 .. n
    BY <1>1, FilesAre
  <2>2. AtStart = [f \in 1 .. n |-> AtStart[f]]
    BY <1>1, <2>1 DEF AtStart
  <2> QED BY <1>2, <2>1, <2>2
<1>5. Positions(input_streams)' /\ Streams' = Streams
  BY <1>1, <1>2, <1>3, <1>4 DEF Positions, Streams, IsPosition
<1>6. JunkBefore(input_streams') = 0
  <2>1. \A f \in Streams : Junk(f, 1, input_streams'[f].at) = {}
    BY <1>1, <1>2 DEF Junk
  <2>2. UNION {Junk(f, 1, input_streams'[f].at) : f \in Streams} = {}
    BY <2>1
  <2> QED BY <2>2, FS_EmptySet DEF JunkBefore
<1> QED BY <1>2, <1>3, <1>5, <1>6

\* When the walk is over it is not changed.
LEMMA WalkStays ==
  ASSUME WalkInv, AtEnd, AtEnd', WindowTypes', UNCHANGED <<logVars, box, placeVars, walkVars>>,
         Streams' = Streams, num_corruptions <= num_corruptions',
         \A f \in DOMAIN log : input_streams[f].dictionary \subseteq input_streams'[f].dictionary
  PROVE  WalkInv'
<1>1. /\ WindowTypes /\ Walk /\ FramesNoted /\ Ended
      /\ phase # "getters" /\ phase' # "getters" /\ Initialized /\ Initialized'
  BY DEF WalkInv, AtEnd, Initialized
<1>2. /\ log' = log /\ options' = options /\ box' = box /\ stateMap' = stateMap
      /\ max_offset' = max_offset /\ lastState' = lastState /\ path' = path /\ places' = places
  BY DEF logVars, placeVars, walkVars
<1>3. Walk'
  BY <1>1, <1>2 DEF Walk, IsPlace, Goes, ComesTo, IsData, IsPosition, IsKind, Message, is_valid_late, Double
<1>4. FramesNoted'
  <2>1. Regular' = Regular /\ \A k : IsFrameAt(k)' = IsFrameAt(k) /\ TimeAt(k)' = TimeAt(k)
    BY <1>2 DEF Regular, FilesOrdered, Messages, IsDescribed, IsFrameAt, TimeAt, Message
  <2>2. \A o : IsNoted(o)' = IsNoted(o)
    BY <1>2, <2>1 DEF IsNoted, Double
  <2> QED BY <1>1, <1>2, <2>1, <2>2 DEF FramesNoted
<1>5. Ended'
  <2>1. End' = End /\ IsPlace(End)' = IsPlace(End) /\ Double(End)' = Double(End)
    BY <1>2 DEF End, IsPlace, Double, IsPosition
  <2>2. Stops(places[Len(path) + 1], End)'
    BY <1>1, <1>2, <2>1 DEF Ended, Stops, ComesTo, IsData, IsPosition, is_valid_late
  <2>3. ASSUME NEW f \in DOMAIN log, NEW i \in 1 .. End[f] - 1, log[f][i].kind = "metadata"
        PROVE  log[f][i].type \in input_streams'[f].dictionary
    BY <1>1, <2>3 DEF Ended
  <2>4. Cardinality(JunkOf(Starts, End))' <= num_corruptions'
    <3>1. JunkOf(Starts, End)' = JunkOf(Starts, End)
      BY <1>2, <2>1 DEF JunkOf, Junk, IsKind, Starts
    <3>2. Cardinality(JunkOf(Starts, End)) \in Nat /\ num_corruptions \in Nat /\ num_corruptions' \in Nat
      BY <1>1, WindowBasics, JunkIsFinite DEF WindowTypes
    <3>3. Cardinality(JunkOf(Starts, End)) <= num_corruptions
      BY <1>1 DEF Ended
    <3> QED BY <3>1, <3>2, <3>3
  <2> QED BY <1>1, <1>2, <2>1, <2>2, <2>3, <2>4 DEF Ended
<1> QED BY <1>1, <1>3, <1>4, <1>5 DEF WalkInv, Gone, NotBegun

LEMMA EndGettersKeep ==
  ASSUME WalkInv, endGetters
  PROVE  WalkInv'
<1>1. /\ WindowTypes /\ phase = "getters" /\ phase' = "handlers" /\ Ends /\ Moved /\ Unread
      /\ Walk /\ FramesNoted /\ At(input_streams) = places[Len(path) + 1] /\ TypesKnown(input_streams)
      /\ box' = box /\ path' = path /\ places' = places /\ lastState' = lastState
      /\ max_offset' = max_offset /\ input_streams' = AtStart /\ finish_reading' = FALSE
      /\ stateMap' = Insert(stateMap, max_offset + 1, StateOf(Scanned))
      /\ num_corruptions' = num_corruptions + NumSkipped
  BY DEF WalkInv, Initialized, Gone, endGetters, Ends, walkVars
<1>2. /\ log' = log /\ options' = options /\ IsLog(log) /\ Streams = DOMAIN log
      /\ num_corruptions \in Nat /\ corruptionsBefore \in Nat
  BY <1>1, WindowBasics DEF Unread, logVars
<1>3. /\ Positions(input_streams)' /\ DOMAIN input_streams' = DOMAIN log /\ Streams' = Streams
      /\ \A f \in DOMAIN log : input_streams'[f].dictionary = Scanned[f].dictionary
      /\ JunkBefore(input_streams') = 0
  BY <1>1, <1>2, RewindIs
<1>4. /\ DOMAIN Scanned = DOMAIN log /\ IsPlace(At(Scanned)) /\ NumSkipped \in Nat
      /\ \A f \in DOMAIN log : At(Scanned)[f] = Scanned[f].at
      /\ num_corruptions + NumSkipped
           = corruptionsBefore + Cardinality(JunkOf(Starts, At(Scanned)))
  BY <1>1, ScanIs
<1>5. WindowTypes'
  <2>1. num_corruptions' \in Nat /\ JunkBefore(input_streams') <= num_corruptions'
    BY <1>1, <1>2, <1>3, <1>4
  <2>2. finish_reading' \in BOOLEAN /\ phase # "none"
    BY <1>1
  <2> QED BY <1>1, <1>3, <2>1, <2>2, TypesMoved
<1>6. Walk'
  BY <1>1, <1>2 DEF Walk, IsPlace, Goes, ComesTo, IsData, IsPosition, IsKind, Message, is_valid_late, Double
<1>7. /\ max_offset \in Nat /\ max_offset + 1 \in DOMAIN stateMap'
      /\ stateMap'[max_offset + 1] = Double(At(Scanned))
      /\ \A o \in DOMAIN stateMap : o \in 0 .. max_offset /\ o \in DOMAIN stateMap' /\ stateMap'[o] = stateMap[o]
      /\ \A o \in DOMAIN stateMap' : o \in DOMAIN stateMap \/ o = max_offset + 1
  <2>1. max_offset \in Nat
    BY <1>1 DEF Walk
  <2>2. StateOf(Scanned) = Double(At(Scanned))
    BY <1>4 DEF StateOf, At, Double
  <2>3. \A o \in DOMAIN stateMap : o \in 0 .. max_offset
    BY <1>1 DEF FramesNoted, AtEnd, IsNoted
  <2>4. max_offset + 1 \notin DOMAIN stateMap
    BY <2>1, <2>3
  <2>5. /\ DOMAIN stateMap' = DOMAIN stateMap \cup {max_offset + 1}
        /\ stateMap'[max_offset + 1] = StateOf(Scanned)
        /\ \A o \in DOMAIN stateMap : stateMap'[o] = stateMap[o]
    BY <1>1, <2>4 DEF Insert
  <2> QED BY <2>1, <2>2, <2>3, <2>5
<1>8. Regular' = Regular /\ \A k : IsFrameAt(k)' = IsFrameAt(k) /\ TimeAt(k)' = TimeAt(k)
  BY <1>1, <1>2 DEF Regular, FilesOrdered, Messages, IsDescribed, IsFrameAt, TimeAt, Message
<1>9. FramesNoted'
  <2>1. ASSUME NEW o \in DOMAIN stateMap' PROVE IsNoted(o)' \/ (AtEnd' /\ o = max_offset' + 1)
    <3>1. CASE o \in DOMAIN stateMap
      <4>1. IsNoted(o)
        BY <1>1, <3>1 DEF FramesNoted, AtEnd
      <4>2. PICK k \in 1 .. Len(path) :
              /\ IsFrameAt(k) /\ TimeAt(k) = o /\ stateMap[o] = Double(places[k])
              /\ Regular => \A j \in 1 .. k - 1 : IsFrameAt(j) => TimeAt(j) # o
        BY <4>1 DEF IsNoted
      <4>3. stateMap'[o] = Double(places[k])'
        BY <1>1, <1>2, <1>7, <3>1, <4>2 DEF Double
      <4> QED BY <1>1, <1>7, <1>8, <3>1, <4>2, <4>3 DEF IsNoted
    <3>2. CASE o = max_offset + 1
      BY <1>1, <3>2 DEF AtEnd
    <3> QED BY <1>7, <3>1, <3>2
  <2>2. ASSUME Regular, NEW k \in 1 .. Len(path), IsFrameAt(k)
        PROVE  TimeAt(k) \in DOMAIN stateMap' /\ TimeAt(k) <= max_offset'
    BY <1>1, <1>7, <2>2 DEF FramesNoted
  <2> QED BY <1>1, <1>8, <2>1, <2>2 DEF FramesNoted
<1>10. Ended'
  <2>1. End' = At(Scanned)
    <3>1. \A f \in DOMAIN log : At(Scanned)[f] \in Nat /\ stateMap'[max_offset + 1][f] = 2 * At(Scanned)[f]
      BY <1>4, <1>7 DEF IsPlace, Double
    <3>2. \A f \in DOMAIN log : stateMap'[max_offset + 1][f] \div 2 = At(Scanned)[f]
      BY <3>1
    <3> QED BY <1>1, <1>2, <1>4, <3>2 DEF End, IsPlace
  <2>2. IsPlace(End)'
    BY <1>2, <1>4, <2>1 DEF IsPlace, IsPosition
  <2>3. Stops(places[Len(path) + 1], End)'
    <3>1. Stops(places[Len(path) + 1], At(Scanned))
      BY <1>1, StopIs
    <3> QED BY <1>1, <1>2, <2>1, <3>1 DEF Stops, ComesTo, IsData, IsPosition, is_valid_late
  <2>4. ASSUME NEW f \in DOMAIN log, NEW i \in 1 .. End'[f] - 1, log[f][i].kind = "metadata"
        PROVE  log[f][i].type \in input_streams'[f].dictionary
    <3>1. TypesKnown(Scanned)
      BY <1>1, StepKnows
    <3> QED BY <1>2, <1>3, <1>4, <2>1, <2>4, <3>1 DEF TypesKnown
  <2>5. Cardinality(JunkOf(Starts, End))' <= num_corruptions'
    <3>1. JunkOf(Starts, End)' = JunkOf(Starts, At(Scanned))
      BY <1>2, <1>3, <2>1 DEF JunkOf, Junk, IsKind, Starts
    <3>2. Cardinality(JunkOf(Starts, At(Scanned))) \in Nat
      BY <1>1, WindowBasics, JunkIsFinite
    <3> QED BY <1>1, <1>2, <1>4, <3>1, <3>2
  <2>6. (max_offset + 1)' \in DOMAIN stateMap' /\ stateMap[max_offset + 1]' = Double(End)'
    BY <1>1, <1>2, <1>7, <2>1 DEF Double
  <2> QED BY <1>2, <2>2, <2>3, <2>4, <2>5, <2>6 DEF Ended
<1>11. Gone' /\ NotBegun'
  BY <1>1 DEF Gone, NotBegun, Initialized
<1> QED BY <1>5, <1>6, <1>9, <1>10, <1>11 DEF WalkInv

-----------------------------------------------------------------------------
(* What comes after: none of it changes what initialize has noted.         *)

LEMMA PastKeeps ==
  ASSUME WalkInv, AtEnd, Found, GoPast, Unread, UNCHANGED <<box, placeVars, walkVars>>,
         phase' \in {"handlers", "ready", "jumped", "loading"}
  PROVE  WalkInv'
<1>1. WindowTypes /\ phase # "none" /\ AtEnd' /\ log' = log /\ UNCHANGED logVars
  BY DEF WalkInv, AtEnd, Unread, logVars
<1>2. WindowTypes'
  BY <1>1, TypesStep
<1>3. /\ Streams' = Streams /\ num_corruptions <= num_corruptions'
      /\ \A f \in DOMAIN log : input_streams'[f].dictionary = Scanned[f].dictionary
  BY <1>1, StepIs
<1>4. \A f \in DOMAIN log : input_streams[f].dictionary \subseteq Scanned[f].dictionary
  BY <1>1, ScanIs DEF Reaches
<1>5. \A f \in DOMAIN log : input_streams[f].dictionary \subseteq input_streams'[f].dictionary
  BY <1>3, <1>4
<1> QED BY <1>1, <1>2, <1>3, <1>5, WalkStays

LEMMA FinishKeeps ==
  ASSUME WalkInv, AtEnd, Finish, Unread, UNCHANGED <<box, placeVars, walkVars>>,
         phase' \in {"handlers", "ready", "jumped", "loading"}
  PROVE  WalkInv'
<1>1. /\ WindowTypes /\ phase # "none" /\ AtEnd' /\ UNCHANGED logVars /\ input_streams' = Scanned
  BY DEF WalkInv, AtEnd, Unread, logVars, Finish
<1>2. WindowTypes' /\ num_corruptions <= num_corruptions'
  BY <1>1, TypesFinish
<1>3. /\ Streams = DOMAIN log /\ DOMAIN Scanned = DOMAIN log
      /\ \A f \in DOMAIN log : input_streams[f].dictionary \subseteq Scanned[f].dictionary
  BY <1>1, WindowBasics, ScanIs DEF Reaches
<1>4. Streams' = Streams
  BY <1>1, <1>3 DEF Streams
<1>5. \A f \in DOMAIN log : input_streams[f].dictionary \subseteq input_streams'[f].dictionary
  BY <1>1, <1>3
<1> QED BY <1>1, <1>2, <1>4, <1>5, WalkStays

LEMMA EndHandlersKeep ==
  ASSUME WalkInv, endHandlers
  PROVE  WalkInv'
<1>1. /\ WindowTypes /\ phase = "handlers" /\ phase' = "ready" /\ Ends /\ Moved /\ Unread
      /\ input_streams' = AtStart /\ finish_reading' = TRUE /\ UNCHANGED <<box, placeVars, walkVars>>
      /\ num_corruptions' = num_corruptions + NumSkipped
  BY DEF WalkInv, endHandlers, Ends
<1>2. log' = log /\ UNCHANGED logVars /\ num_corruptions \in Nat /\ NumSkipped \in Nat /\ AtEnd /\ AtEnd'
  BY <1>1, WindowBasics, ScanIs DEF Unread, logVars, AtEnd
<1>3. /\ Positions(input_streams)' /\ DOMAIN input_streams' = DOMAIN log /\ Streams' = Streams
      /\ \A f \in DOMAIN log : input_streams'[f].dictionary = Scanned[f].dictionary
      /\ JunkBefore(input_streams') = 0
  BY <1>1, <1>2, RewindIs
<1>4. WindowTypes' /\ num_corruptions <= num_corruptions'
  <2>1. /\ num_corruptions' \in Nat /\ JunkBefore(input_streams') <= num_corruptions'
        /\ num_corruptions <= num_corruptions'
    BY <1>1, <1>2, <1>3
  <2>2. finish_reading' \in BOOLEAN /\ phase # "none"
    BY <1>1
  <2> QED BY <1>1, <1>3, <2>1, <2>2, TypesMoved
<1>5. \A f \in DOMAIN log : input_streams[f].dictionary \subseteq Scanned[f].dictionary
  BY <1>1, ScanIs DEF Reaches
<1>6. \A f \in DOMAIN log : input_streams[f].dictionary \subseteq input_streams'[f].dictionary
  BY <1>3, <1>5
<1> QED BY <1>1, <1>2, <1>3, <1>4, <1>6, WalkStays

\* The state of an offset is that of its frame, or of the end; it is not past the end.
LEMMA BoundIs ==
  ASSUME WalkInv, AtEnd, NEW o \in Nat, o <= max_offset + 1
  PROVE  \E p, k : /\ IsPlace(p) /\ lower_bound(o) = Double(p) /\ \A f \in DOMAIN log : p[f] <= End[f]
                   /\ k \in DOMAIN stateMap /\ o <= k /\ lower_bound(o) = stateMap[k]
                   /\ k \in Nat /\ \A x \in DOMAIN stateMap : x >= o => k <= x
<1> DEFINE K == {x \in DOMAIN stateMap : x >= o}
<1>1. WindowTypes /\ Walk /\ FramesNoted /\ Ended /\ max_offset \in Nat
  BY DEF WalkInv, AtEnd, Initialized, Walk
<1>2. IsLog(log) /\ Len(path) \in Nat
  BY <1>1, WindowBasics DEF Walk
<1>3. \A x \in DOMAIN stateMap : x \in Nat
  BY <1>1 DEF FramesNoted, IsNoted
<1>4. K \in SUBSET Nat /\ K # {}
  <2>1. max_offset + 1 \in K
    BY <1>1 DEF Ended
  <2> QED BY <1>3, <2>1
<1> HIDE DEF K
<1>5. PICK m \in K : \A x \in K : m <= x
  BY <1>4, Smallest
<1>6. PICK k \in K : k = Min(K) /\ \A x \in K : k <= x
  BY <1>5 DEF Min
<1> USE DEF K
<1>7. /\ k \in DOMAIN stateMap /\ k \in Nat /\ o <= k /\ lower_bound(o) = stateMap[k]
      /\ \A x \in DOMAIN stateMap : x >= o => k <= x
  BY <1>3, <1>6 DEF lower_bound
<1>8. /\ IsPlace(End) /\ stateMap[max_offset + 1] = Double(End) /\ Stops(places[Len(path) + 1], End)
      /\ \A f \in DOMAIN log : End[f] \in Nat
  BY <1>1 DEF Ended, IsPlace
<1>9. CASE k = max_offset + 1
  <2>1. \A f \in DOMAIN log : End[f] <= End[f]
    BY <1>8
  <2> QED BY <1>7, <1>8, <1>9, <2>1
<1>10. CASE k # max_offset + 1
  <2>1. PICK j \in 1 .. Len(path) : stateMap[k] = Double(places[j])
    BY <1>1, <1>7, <1>10 DEF FramesNoted, IsNoted
  <2>2. j \in 1 .. Len(path) + 1 /\ Len(path) + 1 \in 1 .. Len(path) + 1 /\ j <= Len(path) + 1
    BY <1>2, <2>1
  <2>3. IsPlace(places[j]) /\ IsPlace(places[Len(path) + 1])
    BY <1>1, <2>2 DEF Walk
  <2>4. \A f \in DOMAIN log : places[j][f] <= places[Len(path) + 1][f]
    BY <1>1, <1>2, <2>2, WalkRises
  <2>5. \A f \in DOMAIN log : places[Len(path) + 1][f] <= End[f]
    BY <1>8 DEF Stops, ComesTo
  <2>6. \A f \in DOMAIN log : places[j][f] <= End[f]
    BY <1>8, <2>3, <2>4, <2>5 DEF IsPlace
  <2> QED BY <1>7, <2>1, <2>3, <2>6
<1> QED BY <1>9, <1>10

LEMMA JumpKeeps ==
  ASSUME WalkInv, NEW o \in 0 .. max_offset, jumpToOffset(o)
  PROVE  /\ WalkInv'
         /\ starting_offset' \in Nat /\ starting_offset' <= max_offset
         /\ \E p : IsPlace(p) /\ lower_bound(starting_offset') = Double(p) /\ At(input_streams') = p
<1>1. /\ WindowTypes /\ phase = "ready" /\ phase' = "jumped" /\ Moved /\ Unread /\ AtEnd /\ AtEnd'
      /\ Walk /\ Ended /\ max_offset \in Nat
      /\ starting_offset' = (IF o >= WindowSize THEN o - WindowSize ELSE 0)
      /\ input_streams' = [f \in Streams |->
           [input_streams[f] EXCEPT !.at = lower_bound(starting_offset')[f] \div 2]]
      /\ UNCHANGED <<box, placeVars, walkVars>> /\ num_corruptions' = num_corruptions
      /\ finish_reading' = FALSE
  BY DEF WalkInv, AtEnd, Initialized, jumpToOffset, Walk
<1>2. /\ log' = log /\ UNCHANGED logVars /\ IsLog(log) /\ Streams = DOMAIN log
      /\ Positions(input_streams) /\ num_corruptions \in Nat /\ Streams \subseteq DOMAIN log
      /\ Positions(input_streams)
  BY <1>1, WindowBasics DEF Unread, logVars
<1>3. starting_offset' \in Nat /\ starting_offset' <= max_offset
  BY <1>1, WindowSizeAssumption
<1>4. PICK p : /\ IsPlace(p) /\ lower_bound(starting_offset') = Double(p)
               /\ \A f \in DOMAIN log : p[f] <= End[f]
  <2>1. starting_offset' <= max_offset + 1
    BY <1>1, <1>3
  <2> QED BY <1>1, <1>3, <2>1, BoundIs
<1>5. ASSUME NEW f \in DOMAIN log
      PROVE  /\ input_streams'[f] \in Stream /\ input_streams'[f].at = p[f]
             /\ input_streams'[f].dictionary = input_streams[f].dictionary
  <2>1. p[f] \in Nat \ {0} /\ lower_bound(starting_offset')[f] = 2 * p[f]
    BY <1>4 DEF IsPlace, Double
  <2>2. lower_bound(starting_offset')[f] \div 2 = p[f]
    BY <2>1
  <2>3. input_streams[f] \in Stream
    BY <1>2 DEF Positions
  <2>4. input_streams[f] = [at |-> input_streams[f].at, dictionary |-> input_streams[f].dictionary]
        /\ input_streams[f].dictionary \in SUBSET Types
    BY <2>3 DEF Stream
  <2>5. input_streams'[f] = [at |-> p[f], dictionary |-> input_streams[f].dictionary]
    BY <1>1, <1>2, <2>2, <2>4
  <2> QED BY <2>1, <2>4, <2>5 DEF Stream
<1>6. DOMAIN input_streams' = DOMAIN log /\ Streams' = Streams
  BY <1>1, <1>2 DEF Streams
<1>7. input_streams' \in Seq(Stream)
  <2>1. PICK n \in Nat : DOMAIN log = 1 .. n
    BY <1>2, FilesAre
  <2>2. input_streams' = [f \in 1 .. n |-> input_streams'[f]]
    BY <1>1, <1>2, <2>1
  <2> QED BY <1>5, <2>1, <2>2
<1>8. Positions(input_streams)'
  BY <1>2, <1>4, <1>5, <1>6, <1>7 DEF Positions, IsPlace
<1>9. At(input_streams') = p
  BY <1>4, <1>5, <1>6 DEF At, IsPlace
<1>10. JunkBefore(input_streams') <= num_corruptions'
  <2>1. \A f \in Streams : Starts[f] = 1
    BY DEF Starts
  <2>2. JunkBefore(input_streams') = Cardinality(JunkOf(Starts, p))
    <3>1. \A f \in Streams : Junk(f, 1, input_streams'[f].at) = Junk(f, Starts[f], p[f])
      BY <1>2, <1>5, <2>1
    <3> QED BY <3>1 DEF JunkBefore, JunkOf
  <2>3. JunkOf(Starts, p) \subseteq JunkOf(Starts, End)
    <3>1. \A f \in Streams : \A i : i \in Starts[f] .. p[f] - 1 => i \in Starts[f] .. End[f] - 1
      <4>1. \A f \in DOMAIN log : p[f] \in Nat /\ End[f] \in Nat /\ p[f] <= End[f]
        BY <1>1, <1>4 DEF Ended, IsPlace
      <4> QED BY <1>2, <2>1, <4>1
    <3>2. ASSUME NEW x, x \in JunkOf(Starts, p) PROVE x \in JunkOf(Starts, End)
      BY <3>1, <3>2, JunkOfIs
    <3> QED BY <3>2
  <2>4. IsFiniteSet(JunkOf(Starts, End)) /\ Cardinality(JunkOf(Starts, End)) \in Nat
    BY <1>2, JunkIsFinite
  <2>5. Cardinality(JunkOf(Starts, p)) <= Cardinality(JunkOf(Starts, End))
        /\ Cardinality(JunkOf(Starts, p)) \in Nat
    BY <1>2, <2>3, <2>4, FS_Subset, JunkIsFinite
  <2>6. Cardinality(JunkOf(Starts, End)) <= num_corruptions
    BY <1>1 DEF Ended
  <2> QED BY <1>1, <1>2, <2>2, <2>4, <2>5, <2>6
<1>11. WindowTypes'
  <2>1. num_corruptions' \in Nat /\ finish_reading' \in BOOLEAN /\ phase # "none"
    BY <1>1, <1>2
  <2> QED BY <1>1, <1>6, <1>8, <1>10, <2>1, TypesMoved
<1>12. /\ num_corruptions <= num_corruptions'
       /\ \A f \in DOMAIN log : input_streams[f].dictionary \subseteq input_streams'[f].dictionary
  BY <1>1, <1>2, <1>5
<1>13. WalkInv'
  BY <1>1, <1>2, <1>6, <1>11, <1>12, WalkStays
<1> QED BY <1>3, <1>4, <1>9, <1>13

AllVars == <<mergeReaderVars, windowVars>>

LEMMA StutterKeeps ==
  ASSUME WalkInv, UNCHANGED AllVars
  PROVE  WalkInv'
<1>1. /\ log' = log /\ options' = options /\ box' = box /\ phase' = phase /\ path' = path
      /\ places' = places /\ input_streams' = input_streams /\ stateMap' = stateMap
      /\ max_offset' = max_offset /\ lastState' = lastState /\ num_corruptions' = num_corruptions
      /\ corruptionsBefore' = corruptionsBefore /\ finish_reading' = finish_reading
      /\ UNCHANGED <<mergeVars, is_opened, handlerVars, processed, ended, asked, restarts>>
      /\ UNCHANGED <<loadedVars, boundVars, loaded, twice, loads>>
  BY DEF AllVars, mergeReaderVars, readerVars, logVars, windowVars, placeVars, walkVars
<1>2. WindowTypes'
  <2>1. CorruptionsCounted' = CorruptionsCounted
    BY <1>1 DEF CorruptionsCounted, Junk, IsKind, Streams
  <2>2. Positions(input_streams)' = Positions(input_streams) /\ Streams' = Streams
    BY <1>1 DEF Positions, Streams, IsPosition
  <2>3. NotAsked' = NotAsked /\ NoParser' = NoParser
    BY DEF NotAsked, NoParser
  <2>4. WindowTypes
    BY DEF WalkInv
  <2> QED BY <1>1, <2>1, <2>2, <2>3, <2>4 DEF WindowTypes, mergeVars, handlerVars
<1>3. CASE AtEnd
  <2>1. AtEnd' /\ UNCHANGED <<logVars, box, placeVars, walkVars>> /\ Streams' = Streams
        /\ \A f \in DOMAIN log : input_streams[f].dictionary \subseteq input_streams'[f].dictionary
    BY <1>1, <1>3 DEF AtEnd, logVars, placeVars, walkVars, Streams
  <2>2. num_corruptions <= num_corruptions'
    BY <1>1 DEF WalkInv, WindowTypes
  <2> QED BY <1>2, <1>3, <2>1, <2>2, WalkStays
<1>4. CASE phase = "getters"
  <2>1. Walk /\ FramesNoted /\ Gone
    BY <1>4 DEF WalkInv, Initialized
  <2>2. Walk'
    BY <1>1, <2>1 DEF Walk, IsPlace, Goes, ComesTo, IsData, IsPosition, IsKind, Message, is_valid_late,
                      Double
  <2>3. FramesNoted'
    <3>1. Regular' = Regular /\ \A k : IsFrameAt(k)' = IsFrameAt(k) /\ TimeAt(k)' = TimeAt(k)
      BY <1>1 DEF Regular, FilesOrdered, Messages, IsDescribed, IsFrameAt, TimeAt, Message
    <3>2. \A o : IsNoted(o)' = IsNoted(o)
      BY <1>1, <3>1 DEF IsNoted, Double
    <3> QED BY <1>1, <1>4, <2>1, <3>1, <3>2 DEF FramesNoted, AtEnd
  <2>4. Gone'
    BY <1>1, <2>1 DEF Gone, At, TypesKnown, Streams
  <2> QED BY <1>1, <1>2, <1>4, <2>2, <2>3, <2>4 DEF WalkInv, NotBegun, Ended, AtEnd, Initialized
<1>5. CASE ~Initialized
  <2>1. NotBegun'
    BY <1>1, <1>5 DEF WalkInv, NotBegun, Initialized, WindowStart, loadedVars, boundVars, Streams
  <2> QED BY <1>1, <1>2, <1>5, <2>1 DEF WalkInv, Initialized
<1> QED BY <1>3, <1>4, <1>5 DEF AtEnd, Initialized

\* Whoever reads by windows keeps the invariant of the walk.
LEMMA WalkKeeps ==
  ASSUME WalkInv, [WindowNext]_AllVars
  PROVE  WalkInv'
<1>1. CASE UNCHANGED AllVars
  BY <1>1, StutterKeeps
<1>2. CASE open_window
  BY <1>2, OpenKeeps
<1>3. CASE initialize
  BY <1>3, InitializeKeeps
<1>4. CASE processGetters
  BY <1>4, GettersKeep
<1>5. CASE endGetters
  BY <1>5, EndGettersKeep
<1>6. CASE runHandlers
  BY <1>6, PastKeeps DEF runHandlers, AtEnd, windowVars
<1>7. CASE endHandlers
  BY <1>7, EndHandlersKeep
<1>8. CASE \E o \in 0 .. max_offset : jumpToOffset(o)
  BY <1>8, JumpKeeps
<1>9. CASE firstMessage
  BY <1>9, PastKeeps DEF firstMessage, AtEnd
<1>10. CASE noMessage
  BY <1>10, FinishKeeps DEF noMessage, AtEnd
<1>11. CASE loadMessage
  BY <1>11, PastKeeps DEF loadMessage, AtEnd
<1>12. CASE endLoad
  <2>1. /\ AtEnd /\ AtEnd' /\ phase = "loading" /\ phase' = "ready" /\ Unread
        /\ UNCHANGED <<box, placeVars, walkVars>>
    BY <1>12 DEF endLoad, AtEnd
  <2>2. CASE Finish
    BY <2>1, <2>2, FinishKeeps
  <2>3. CASE UNCHANGED <<input_streams, finish_reading, num_corruptions, corruptionsBefore>>
    <3>1. WindowTypes /\ finish_reading' \in BOOLEAN
      BY <2>3 DEF WalkInv, WindowTypes
    <3>2. WindowTypes'
      BY <2>1, <2>3, <3>1, TypesStay
    <3>3. /\ UNCHANGED <<logVars, box, placeVars, walkVars>> /\ Streams' = Streams
          /\ num_corruptions <= num_corruptions'
          /\ \A f \in DOMAIN log : input_streams[f].dictionary \subseteq input_streams'[f].dictionary
      BY <2>1, <2>3, <3>1 DEF WindowTypes, Streams, Unread
    <3> QED BY <2>1, <3>2, <3>3, WalkStays
  <2> QED BY <1>12, <2>2, <2>3 DEF endLoad
<1> QED BY <1>1, <1>2, <1>3, <1>4, <1>5, <1>6, <1>7, <1>8, <1>9, <1>10, <1>11, <1>12 DEF WindowNext

LEMMA StartIsWalk ==
  ASSUME WindowInit, phase # "merge"
  PROVE  WalkInv
<1>1. /\ phase = "none" /\ log \in WindowLogs /\ options.try_recovery /\ options \in Options
      /\ merging = "no" /\ inputs = << >> /\ ptrs = << >> /\ dictionary = {} /\ written = << >>
      /\ ReaderStart /\ WindowStart
  BY DEF WindowInit
<1>2. Streams = {} /\ input_streams = << >>
  BY <1>1 DEF ReaderStart, Streams
<1>3. CorruptionsCounted
  <2>1. UNION {Junk(f, 1, input_streams[f].at) : f \in Streams} = {}
    BY <1>2
  <2>2. Cardinality(UNION {Junk(f, 1, input_streams[f].at) : f \in Streams}) = 0
    BY <2>1, FS_EmptySet
  <2> QED BY <1>1, <2>2 DEF CorruptionsCounted, ReaderStart
<1>4. Positions(input_streams)
  BY <1>2 DEF Positions
<1>5. WindowTypes
  <2>1. /\ is_opened = (phase # "none") /\ finish_reading \in BOOLEAN
        /\ processed = << >> /\ handled = << >> /\ ended = FALSE /\ asked = NotAsked
        /\ parser = NoParser /\ num_corruptions = 0 /\ corruptionsBefore = 0
    BY <1>1 DEF ReaderStart
  <2>2. restarts \in 0 .. MaxRestarts
    BY <1>1, BoundsAssumption DEF ReaderStart
  <2> QED BY <1>1, <1>2, <1>3, <1>4, <2>1, <2>2 DEF WindowTypes
<1> QED BY <1>1, <1>2, <1>5 DEF WalkInv, NotBegun, Initialized

\* A log that is not read by windows is merged or read as LogReader and LogMerge say.
THEOREM WindowsApart == LogSpec /\ phase = "merge" => MergeReaderSpec
<1>1. WindowInit /\ phase = "merge" => MergeInit
  BY DEF WindowInit, MergeInit
<1>2. /\ phase = "merge"
      /\ [(phase = "merge" /\ MergeReaderNext /\ UNCHANGED windowVars) \/ WindowNext]_AllVars
      => (phase = "merge")' /\ [MergeReaderNext]_mergeReaderVars
  BY DEF AllVars, windowVars, WindowNext, open_window, initialize, processGetters, endGetters,
         runHandlers, endHandlers, jumpToOffset, firstMessage, noMessage, loadMessage, endLoad
<1> QED BY <1>1, <1>2, PTL DEF LogSpec, MergeReaderSpec, AllVars

\* The path of a log that is read by windows is the one walk through it, and what
\* initialize noted is where the frames begin in it.
THEOREM WalkInductive == LogSpec /\ phase # "merge" => []WalkInv
<1>1. WindowInit /\ phase # "merge" => WalkInv
  BY StartIsWalk
<1>2. WalkInv => phase # "merge"
  BY DEF WalkInv, WindowTypes
<1>3. /\ WalkInv
      /\ [(phase = "merge" /\ MergeReaderNext /\ UNCHANGED windowVars) \/ WindowNext]_AllVars
      => WalkInv'
  BY <1>2, WalkKeeps
<1> QED BY <1>1, <1>3, PTL DEF LogSpec, AllVars

-----------------------------------------------------------------------------
(* What the readers promise holds in whatever way a log is used.           *)

LEMMA WalkTypes == WalkInv => MergeTypeOK
<1>1. SUFFICES ASSUME WalkInv PROVE MergeTypeOK
  OBVIOUS
<1>2. /\ WindowTypes /\ IsLog(log) /\ Positions(input_streams) /\ Streams \subseteq DOMAIN log
      /\ \A f \in DOMAIN log : Len(log[f]) \in Nat
  BY <1>1, WindowBasics DEF WalkInv
<1>3. \A f \in Streams : input_streams[f].at \in 1 .. Len(log[f]) + 1
  BY <1>2 DEF Positions, IsPosition
<1>4. /\ processed \in Seq(Nat \X Nat) /\ handled \in Seq([message : Nat \X Nat, by : Versions])
      /\ \A k \in 1 .. Len(processed) : Message(processed[k]).kind = "data"
  BY <1>2 DEF WindowTypes
<1>5. log \in Seq(Seq(Item)) /\ input_streams \in Seq(Stream)
  BY <1>2 DEF IsLog, Positions
<1>6. ReaderTypeOK
  BY <1>2, <1>3, <1>4, <1>5 DEF WindowTypes, ReaderTypeOK
<1>7. /\ ptrs \in [DOMAIN inputs -> Nat \ {0}] /\ \A f \in DOMAIN inputs : ptrs[f] <= Len(inputs[f]) + 1
      /\ dictionary \subseteq Types /\ written \in Seq((DOMAIN inputs) \X Nat)
  BY <1>2 DEF WindowTypes
<1> QED BY <1>2, <1>6, <1>7 DEF WindowTypes, MergeTypeOK

LEMMA WalkPromises ==
  WalkInv => /\ InTimeOrder /\ NothingHidden /\ CorruptionsCounted /\ Handed
             /\ MergeKeepsAll /\ MergedSelfDescribing /\ asked = NotAsked
<1>1. SUFFICES ASSUME WalkInv
               PROVE  /\ InTimeOrder /\ NothingHidden /\ CorruptionsCounted /\ Handed
                      /\ MergeKeepsAll /\ MergedSelfDescribing /\ asked = NotAsked
  OBVIOUS
<1>2. /\ processed = << >> /\ handled = << >> /\ ended = FALSE /\ merging = "no" /\ written = << >>
      /\ CorruptionsCounted /\ asked = NotAsked
  BY <1>1 DEF WalkInv, WindowTypes
<1>3. Len(processed) = 0 /\ Len(handled) = 0 /\ Len(written) = 0
  BY <1>2
<1>4. Handed
  <2> DEFINE k == [j \in 1 .. Len(handled) |-> handled[j].message]
  <2>1. DOMAIN k = {}
    BY <1>3
  <2>2. {processed[j] : j \in 1 .. Len(processed)} = {}
    BY <1>3
  <2> HIDE DEF k
  <2> QED BY <1>3, <2>1, <2>2 DEF Handed, k
<1>5. InTimeOrder /\ NothingHidden
  BY <1>2, <1>3 DEF InTimeOrder, NothingHidden
<1> QED BY <1>2, <1>3, <1>4, <1>5 DEF MergeKeepsAll, MergedSelfDescribing

LEMMA EitherWay == LogSpec => MergeReaderSpec \/ []WalkInv
<1>1. phase = "merge" \/ phase # "merge"
  OBVIOUS
<1> QED BY <1>1, WindowsApart, WalkInductive, PTL

\* The types of a reader and of merge, in whatever way the log is used.
THEOREM LogTypes == LogSpec => []MergeTypeOK
BY EitherWay, ReaderTypes, WalkTypes, PTL

\* The messages of several files are processed in time order.
THEOREM LogInOrder == LogSpec => []InTimeOrder
BY EitherWay, TimeOrder, WalkPromises, PTL

\* None is processed twice, and at the end none is missing.
THEOREM LogNothingHidden == LogSpec => []NothingHidden
BY EitherWay, NothingMissed, WalkPromises, PTL

\* Each corrupted stretch is counted once: by a reader of windows too, which
\* goes through the log twice and then jumps about in it.
THEOREM LogStretchesCounted == LogSpec => []CorruptionsCounted
BY EitherWay, StretchesCounted, WalkPromises, PTL

\* The handler gets each of its messages once, if there is one other version.
THEOREM LogHanded == ASSUME OneOther PROVE LogSpec => []Handed
BY EitherWay, HandedOnce, WalkPromises, PTL

\* A finished merge holds what it was asked for and describes it.
THEOREM LogMerged == LogSpec => [](MergeKeepsAll /\ MergedSelfDescribing)
BY EitherWay, MergeKeeps, MergedDescribed, WalkPromises, PTL

\* getNextTimestamp tells the time of the message processMessage goes past next.
THEOREM LogPeek == LogSpec => PeekIsNext
<1>1. asked = NotAsked =>
        [processMessage /\ asked # NotAsked =>
           IF asked = -1 THEN options.try_recovery => processed' = processed
           ELSE \E a \in Messages : processed' = Append(processed, a) /\ Message(a).time = asked]_readerVars
  OBVIOUS
<1> QED BY <1>1, EitherWay, PeekTold, WalkPromises, PTL DEF PeekIsNext

\* What a reader goes past is the merge of the files of its log; a reader of
\* windows, which calls the handlers itself, processes nothing.
THEOREM LogMerges == LogSpec => ReadsMerged
<1> DEFINE Next == \/ phase = "merge" /\ MergeReaderNext /\ UNCHANGED windowVars
                   \/ WindowNext
<1>1. LogSpec /\ phase = "merge" => ReadsMerged
  BY WindowsApart, ReadingMerges, PTL
<1>2. WindowInit => Merged!Init
  BY DEF WindowInit, ReaderStart, Merged!Init
<1>3. phase # "merge" /\ [Next]_AllVars => (phase # "merge")' /\ UNCHANGED <<log, options>>
  BY DEF AllVars, mergeReaderVars, readerVars, logVars, windowVars, WindowNext, Unread, open_window,
         openUlog, initialize, processGetters, endGetters, runHandlers, endHandlers, jumpToOffset,
         firstMessage, noMessage, loadMessage, endLoad
<1>4. WalkInv => processed = << >> /\ ended = FALSE
  BY DEF WalkInv, WindowTypes
<1>5. UNCHANGED <<log, options, processed, ended>> => [Merged!Next]_Merged!vars
  BY DEF Merged!vars
<1>6. WalkInv /\ WalkInv' /\ phase # "merge" /\ [Next]_AllVars => [Merged!Next]_Merged!vars
  <2>1. WalkInv' => processed' = << >> /\ ended' = FALSE
    BY DEF WalkInv, WindowTypes
  <2> HIDE DEF Next
  <2> QED BY <1>3, <1>4, <1>5, <2>1
<1>7. LogSpec /\ phase # "merge" => ReadsMerged
  <2>1. phase # "merge" /\ [Next]_AllVars => (phase # "merge")'
    BY <1>3
  <2> QED BY <1>2, <1>6, <2>1, WalkInductive, PTL DEF LogSpec, AllVars, ReadsMerged, Merged!Spec
<1> QED BY <1>1, <1>7

-----------------------------------------------------------------------------
(* Where a window lies in the walk.                                        *)

LEMMA WalkedIs ==
  ASSUME WalkInv, AtEnd
  PROVE  /\ WindowTypes /\ Walk /\ FramesNoted /\ Ended /\ IsLog(log) /\ Streams = DOMAIN log
         /\ Len(path) \in Nat /\ DOMAIN path = 1 .. Len(path) /\ max_offset \in Nat
         /\ \A k \in 1 .. Len(path) : TimeAt(k) \in Nat
<1>1. WindowTypes /\ Walk /\ FramesNoted /\ Ended /\ phase # "none"
  BY DEF WalkInv, AtEnd, Initialized
<1>2. IsLog(log) /\ Streams = DOMAIN log
  BY <1>1, WindowBasics
<1>3. Len(path) \in Nat /\ DOMAIN path = 1 .. Len(path) /\ max_offset \in Nat
  BY <1>1 DEF Walk
<1>4. \A k \in 1 .. Len(path) : TimeAt(k) \in Nat
  BY <1>1, <1>2, PathIs
<1> QED BY <1>1, <1>2, <1>3, <1>4

LEMMA PathFromIs ==
  ASSUME WalkInv, AtEnd, NEW o \in Int
  PROVE  /\ PathFrom(o) \in 1 .. Len(path) + 1
         /\ PathFrom(o) <= Len(path) => IsFrameAt(PathFrom(o)) /\ TimeAt(PathFrom(o)) >= o
         /\ \A k \in 1 .. Len(path) : IsFrameAt(k) /\ TimeAt(k) >= o => PathFrom(o) <= k
<1>1. Len(path) \in Nat /\ DOMAIN path = 1 .. Len(path) /\ \A k \in 1 .. Len(path) : TimeAt(k) \in Nat
  BY WalkedIs
<1>2. \A k : k \in FramesFrom(o) <=> k \in 1 .. Len(path) /\ IsFrameAt(k) /\ TimeAt(k) >= o
  BY <1>1 DEF FramesFrom, IsFrameAt, TimeAt
<1>3. CASE FramesFrom(o) = {}
  <2>1. PathFrom(o) = Len(path) + 1
    BY <1>3 DEF PathFrom
  <2> QED BY <1>1, <1>2, <1>3, <2>1
<1>4. CASE FramesFrom(o) # {}
  <2>1. FramesFrom(o) \in SUBSET Nat
    BY <1>1, <1>2
  <2>2. PICK m \in FramesFrom(o) : \A k \in FramesFrom(o) : m <= k
    BY <1>4, <2>1, Smallest
  <2>3. PICK k \in FramesFrom(o) : k = PathFrom(o) /\ \A x \in FramesFrom(o) : k <= x
    BY <1>4, <2>2 DEF PathFrom, Min
  <2> QED BY <1>1, <1>2, <2>3
<1> QED BY <1>3, <1>4

LEMMA PathFromRises ==
  ASSUME WalkInv, AtEnd, NEW o \in Int, NEW u \in Int, o <= u
  PROVE  PathFrom(o) <= PathFrom(u)
<1>1. Len(path) \in Nat /\ \A k \in 1 .. Len(path) : TimeAt(k) \in Nat
  BY WalkedIs
<1>2. PathFrom(o) \in 1 .. Len(path) + 1 /\ PathFrom(u) \in 1 .. Len(path) + 1
  BY PathFromIs
<1>3. CASE PathFrom(u) <= Len(path)
  <2>1. PICK k \in 1 .. Len(path) : k = PathFrom(u)
    BY <1>2, <1>3
  <2>2. IsFrameAt(k) /\ TimeAt(k) >= u
    BY <1>3, <2>1, PathFromIs
  <2>3. TimeAt(k) >= o
    BY <1>1, <2>2
  <2> QED BY <2>1, <2>2, <2>3, PathFromIs
<1>4. CASE PathFrom(u) = Len(path) + 1
  BY <1>1, <1>2, <1>4
<1> QED BY <1>1, <1>2, <1>3, <1>4

\* The state of an offset is where the window that begins with it begins.
LEMMA BoundPath ==
  ASSUME WalkInv, AtEnd, Regular, NEW o \in Nat, o <= max_offset + 1
  PROVE  /\ PathFrom(o) <= Len(path) => lower_bound(o) = S(PathFrom(o))
         /\ PathFrom(o) = Len(path) + 1 => lower_bound(o) = Double(End)
<1>1. /\ Walk /\ FramesNoted /\ Ended /\ IsLog(log) /\ Len(path) \in Nat /\ max_offset \in Nat
      /\ \A k \in 1 .. Len(path) : TimeAt(k) \in Nat
  BY WalkedIs
<1>2. PICK k \in DOMAIN stateMap :
        /\ o <= k /\ lower_bound(o) = stateMap[k] /\ k \in Nat
        /\ \A x \in DOMAIN stateMap : x >= o => k <= x
  BY BoundIs
<1>3. PathFrom(o) \in 1 .. Len(path) + 1
  BY PathFromIs
<1>4. ASSUME PathFrom(o) = Len(path) + 1 PROVE lower_bound(o) = Double(End)
  <2>1. ~IsNoted(k)
    <3>1. SUFFICES ASSUME IsNoted(k) PROVE FALSE
      OBVIOUS
    <3>2. PICK j \in 1 .. Len(path) : IsFrameAt(j) /\ TimeAt(j) = k
      BY <3>1 DEF IsNoted
    <3>3. PathFrom(o) <= j
      BY <1>1, <1>2, <3>2, PathFromIs
    <3> QED BY <1>1, <1>4, <3>2, <3>3
  <2>2. k = max_offset + 1
    BY <1>1, <1>2, <2>1 DEF FramesNoted
  <2> QED BY <1>1, <1>2, <2>2 DEF Ended
<1>5. ASSUME PathFrom(o) <= Len(path) PROVE lower_bound(o) = S(PathFrom(o))
  <2>1. PICK m \in 1 .. Len(path) : m = PathFrom(o)
    BY <1>1, <1>3, <1>5
  <2>2. IsFrameAt(m) /\ TimeAt(m) >= o
    BY <1>5, <2>1, PathFromIs
  <2>3. TimeAt(m) \in DOMAIN stateMap /\ TimeAt(m) <= max_offset
    BY <1>1, <2>2 DEF FramesNoted
  <2>4. k <= TimeAt(m) /\ k # max_offset + 1
    BY <1>1, <1>2, <2>2, <2>3
  <2>5. IsNoted(k)
    BY <1>1, <1>2, <2>4 DEF FramesNoted
  <2>6. PICK j \in 1 .. Len(path) : /\ IsFrameAt(j) /\ TimeAt(j) = k /\ stateMap[k] = Double(places[j])
                                    /\ \A i \in 1 .. j - 1 : IsFrameAt(i) => TimeAt(i) # k
    BY <2>5 DEF IsNoted
  <2>7. m <= j
    BY <1>1, <1>2, <2>1, <2>6, PathFromIs
  <2>8. TimeAt(m) <= TimeAt(j)
    BY <1>1, <2>7, WalkInOrder DEF Regular
  <2>9. TimeAt(m) = k
    BY <1>1, <1>2, <2>4, <2>6, <2>8
  <2>10. m = j
    <3>1. ~(m \in 1 .. j - 1)
      BY <2>2, <2>6, <2>9
    <3> QED BY <2>7, <3>1
  <2> QED BY <1>2, <2>1, <2>6, <2>10 DEF S
<1> QED BY <1>4, <1>5

\* The states of the walk, in their order.
LEMMA StatesRise ==
  ASSUME WalkInv, AtEnd
  PROVE  /\ \A k \in 1 .. Len(path) + 1 : S(k) \in Vec
         /\ \A j, k \in 1 .. Len(path) + 1 : j < k => Less(S(j), S(k))
         /\ \A j, k \in 1 .. Len(path) + 1 : ~Less(S(k), S(j)) <=> j <= k
<1>1. Walk /\ IsLog(log) /\ Len(path) \in Nat
  BY WalkedIs
<1>2. ASSUME NEW k \in 1 .. Len(path) + 1
      PROVE  S(k) \in Vec /\ \A f \in DOMAIN log : S(k)[f] = 2 * places[k][f] /\ places[k][f] \in Nat
  <2>1. \A f \in DOMAIN log : places[k][f] \in Nat
    BY <1>1 DEF Walk, IsPlace
  <2> QED BY <2>1 DEF S, Double, Vec
<1>3. ASSUME NEW j \in 1 .. Len(path) + 1, NEW k \in 1 .. Len(path) + 1, j < k
      PROVE  Less(S(j), S(k))
  <2>1. /\ \A f \in DOMAIN log : places[j][f] <= places[k][f]
        /\ \E f \in DOMAIN log : places[j][f] < places[k][f]
    BY <1>1, <1>3, WalkRises
  <2>2. \A f \in DOMAIN log : S(j)[f] <= S(k)[f]
    BY <1>2, <2>1
  <2>3. PICK f \in DOMAIN log : places[j][f] < places[k][f]
    BY <2>1
  <2>4. S(j)[f] # S(k)[f]
    BY <1>2, <2>3
  <2> QED BY <1>1, <1>2, <2>2, <2>4, BelowIsLess
<1>4. ASSUME NEW j \in 1 .. Len(path) + 1, NEW k \in 1 .. Len(path) + 1
      PROVE  ~Less(S(k), S(j)) <=> j <= k
  <2>1. CASE j < k
    <3>1. Less(S(j), S(k)) /\ S(j) \in Vec /\ S(k) \in Vec
      BY <1>2, <1>3, <2>1
    <3>2. Order
      BY <1>1, IsOrder
    <3> QED BY <2>1, <3>1, <3>2 DEF Order
  <2>2. CASE j = k
    BY <1>1, <1>2, <2>2, LessIrreflexive
  <2>3. CASE k < j
    BY <1>3, <2>3
  <2> QED BY <1>1, <2>1, <2>2, <2>3
<1> QED BY <1>2, <1>3, <1>4

LEMMA BoundPlace ==
  ASSUME WalkInv, AtEnd, Regular, NEW o \in Nat, o <= max_offset + 1
  PROVE  \E q : /\ IsPlace(q) /\ lower_bound(o) = Double(q)
                /\ \A f \in DOMAIN log : places[PathFrom(o)][f] <= q[f] /\ q[f] <= End[f]
                /\ PathFrom(o) <= Len(path) => q = places[PathFrom(o)]
                /\ PathFrom(o) = Len(path) + 1 => q = End
<1>1. /\ Walk /\ Ended /\ IsLog(log) /\ Len(path) \in Nat /\ PathFrom(o) \in 1 .. Len(path) + 1
  BY WalkedIs, PathFromIs
<1>2. PICK m \in 1 .. Len(path) + 1 : m = PathFrom(o)
  BY <1>1
<1>3. /\ IsPlace(places[m]) /\ IsPlace(places[Len(path) + 1]) /\ IsPlace(End)
      /\ \A f \in DOMAIN log : places[m][f] <= places[Len(path) + 1][f]
  <2>1. Len(path) + 1 \in 1 .. Len(path) + 1 /\ m <= Len(path) + 1
    BY <1>1
  <2> QED BY <1>1, <2>1, WalkRises DEF Walk, Ended
<1>4. \A f \in DOMAIN log : places[Len(path) + 1][f] <= End[f]
  BY <1>1 DEF Ended, Stops, ComesTo
<1>5. \A f \in DOMAIN log : /\ places[m][f] \in Nat /\ End[f] \in Nat /\ places[Len(path) + 1][f] \in Nat
                            /\ places[m][f] <= End[f]
  <2>1. \A f \in DOMAIN log : places[m][f] \in Nat /\ End[f] \in Nat /\ places[Len(path) + 1][f] \in Nat
    BY <1>3 DEF IsPlace
  <2> QED BY <1>3, <1>4, <2>1
<1>6. CASE m <= Len(path)
  <2>1. lower_bound(o) = Double(places[m])
    BY <1>2, <1>6, BoundPath DEF S
  <2> QED BY <1>1, <1>2, <1>3, <1>5, <1>6, <2>1
<1>7. CASE m = Len(path) + 1
  <2>1. lower_bound(o) = Double(End)
    BY <1>2, <1>7, BoundPath
  <2> QED BY <1>1, <1>2, <1>3, <1>5, <1>7, <2>1
<1> QED BY <1>1, <1>6, <1>7

\* After the first message no file is at its start: one byte before is no wrap.
LEMMA PastStart ==
  ASSUME WalkInv, AtEnd, Regular, NEW p, IsPlace(p), NEW k \in 2 .. Len(path) + 1,
         \A f \in DOMAIN log : places[k][f] <= p[f]
  PROVE  1 \in DOMAIN log /\ \A f \in DOMAIN log : p[f] >= 2
<1>1. /\ WindowTypes /\ Walk /\ IsLog(log) /\ Len(path) \in Nat
      /\ \A f \in DOMAIN log : Len(log[f]) \in Nat /\ Len(log[f]) # 0
  BY WalkedIs, WindowBasics
<1>2. 1 \in 1 .. Len(path) /\ 2 \in 1 .. Len(path) + 1 /\ k \in 1 .. Len(path) + 1
  BY <1>1
<1>3. Goes(places[1], path[1], places[2]) /\ IsPlace(places[1]) /\ IsPlace(places[2])
  <2>1. 1 + 1 = 2
    OBVIOUS
  <2> QED BY <1>1, <1>2, <2>1, WalkStep
<1>4. PICK g \in DOMAIN log, i \in Nat : path[1] = <<g, i>>
  BY <1>3 DEF Goes
<1>5. 1 \in DOMAIN log
  BY <1>1, <1>4, FilesAre
<1>6. ASSUME NEW f \in DOMAIN log PROVE places[2][f] >= 2
  <2>1. places[1][f] = 1 /\ places[2][f] \in Nat \ {0} /\ Len(log[f]) \in Nat /\ Len(log[f]) # 0
    BY <1>1, <1>3 DEF Walk, IsPlace
  <2>2. CASE f = g
    <3>1. i \in 1 .. Len(log[g]) /\ places[2][g] = i + 1
      BY <1>3, <1>4 DEF Goes, IsData
    <3> QED BY <1>1, <2>2, <3>1
  <2>3. CASE f # g
    <3>1. ComesTo(f, places[1][f], places[2][f])
      BY <1>3, <1>4, <2>3 DEF Goes
    <3>2. places[2][f] > Len(log[f]) \/ IsData(f, places[2][f])
      BY <3>1 DEF ComesTo
    <3>3. CASE places[2][f] > Len(log[f])
      BY <2>1, <3>3
    <3>4. CASE IsData(f, places[2][f])
      <4>1. <<f, places[2][f]>> \in Messages
        BY <3>4 DEF Messages, IsData
      <4>2. IsDescribed(<<f, places[2][f]>>)
        BY <4>1 DEF Regular
      <4>3. \E j : j \in 1 .. places[2][f] - 1
        BY <4>2 DEF IsDescribed
      <4> QED BY <2>1, <4>3
    <3> QED BY <3>2, <3>3, <3>4
  <2> QED BY <2>2, <2>3
<1>7. ASSUME NEW f \in DOMAIN log PROVE p[f] >= 2
  <2>1. places[2][f] <= places[k][f]
    BY <1>1, <1>2, WalkRises
  <2>2. places[k][f] \in Nat /\ places[2][f] \in Nat /\ p[f] \in Nat
    BY <1>1, <1>2, <1>3 DEF IsPlace, Walk
  <2> QED BY <1>6, <2>1, <2>2
<1> QED BY <1>5, <1>7

\* The last byte before the state of an offset.
LEMMA ByteBefore ==
  ASSUME WalkInv, AtEnd, Regular, NEW o \in Nat, o <= max_offset + 1, PathFrom(o) >= 2
  PROVE  /\ 1 \in DOMAIN log /\ lower_bound(o) \in Vec /\ OneLess(lower_bound(o)) \in Vec
         /\ OneLess(lower_bound(o))[1] = lower_bound(o)[1] - 1
         /\ \A f \in DOMAIN log \ {1} : OneLess(lower_bound(o))[f] = lower_bound(o)[f]
         /\ \A k \in 1 .. Len(path) + 1 : S(k) # OneLess(lower_bound(o))
         /\ \A k \in PathFrom(o) .. Len(path) : Less(OneLess(lower_bound(o)), S(k))
<1>1. /\ Walk /\ IsLog(log) /\ Len(path) \in Nat /\ PathFrom(o) \in 1 .. Len(path) + 1
  BY WalkedIs, PathFromIs
<1>2. PICK q : /\ IsPlace(q) /\ lower_bound(o) = Double(q)
               /\ \A f \in DOMAIN log : places[PathFrom(o)][f] <= q[f]
               /\ PathFrom(o) <= Len(path) => q = places[PathFrom(o)]
  BY BoundPlace
<1> DEFINE b == lower_bound(o)
           h == OneLess(b)
<1>3. PICK m \in 2 .. Len(path) + 1 : m = PathFrom(o)
  BY <1>1
<1>4. 1 \in DOMAIN log /\ \A f \in DOMAIN log : q[f] >= 2 /\ q[f] \in Nat
  <2>1. 1 \in DOMAIN log /\ \A f \in DOMAIN log : q[f] >= 2
    BY <1>2, <1>3, PastStart
  <2> QED BY <1>2, <2>1 DEF IsPlace
<1>5. b \in Vec /\ DOMAIN b = DOMAIN log /\ \A f \in DOMAIN log : b[f] = 2 * q[f] /\ b[f] \in Int
  BY <1>2, <1>4 DEF Double, Vec
<1> HIDE DEF b
<1>6. b[1] # 2
  BY <1>4, <1>5
<1>7. h = [b EXCEPT ![1] = b[1] - 1]
  BY <1>6 DEF OneLess
<1>8. /\ DOMAIN h = DOMAIN log /\ h[1] = b[1] - 1
      /\ \A f \in DOMAIN log \ {1} : h[f] = b[f]
  BY <1>4, <1>5, <1>7
<1>9. h \in Vec
  <2>1. \A f \in DOMAIN log : h[f] \in Int
    BY <1>4, <1>5, <1>8
  <2>2. h = [f \in DOMAIN log |-> h[f]]
    BY <1>5, <1>7
  <2> HIDE DEF h
  <2> QED BY <2>1, <2>2 DEF Vec
<1> HIDE DEF h
<1>10. ASSUME NEW k \in 1 .. Len(path) + 1
       PROVE  S(k) # h /\ S(k)[1] = 2 * places[k][1] /\ places[k][1] \in Nat
  <2>1. S(k)[1] = 2 * places[k][1] /\ places[k][1] \in Nat
    BY <1>1, <1>4 DEF S, Double, Walk, IsPlace
  <2>2. h[1] = 2 * q[1] - 1 /\ q[1] \in Nat
    BY <1>4, <1>5, <1>8
  <2>3. S(k)[1] # h[1]
    BY <2>1, <2>2
  <2> QED BY <2>1, <2>3
<1>11. ASSUME NEW k \in m .. Len(path) PROVE Less(h, S(k))
  <2>1. k \in 1 .. Len(path) + 1 /\ m \in 1 .. Len(path) + 1 /\ m <= k /\ m <= Len(path)
    BY <1>1, <1>3
  <2>2. q = places[m] /\ places[m][1] <= places[k][1]
    BY <1>1, <1>2, <1>3, <1>4, <2>1, WalkRises
  <2>3. h[1] < S(k)[1]
    <3>1. S(k)[1] = 2 * places[k][1] /\ places[k][1] \in Nat
      BY <1>10, <2>1
    <3>2. h[1] = 2 * q[1] - 1 /\ q[1] \in Nat /\ q[1] <= places[k][1]
      BY <1>4, <1>5, <1>8, <2>2
    <3> QED BY <3>1, <3>2
  <2>4. 1 \in DOMAIN h /\ \A j \in 1 .. 1 - 1 : h[j] = S(k)[j]
    BY <1>4, <1>8
  <2> QED BY <2>3, <2>4 DEF Less
<1> USE DEF b, h
<1> QED BY <1>3, <1>4, <1>5, <1>8, <1>9, <1>10, <1>11

LEMMA BytesRise ==
  ASSUME WalkInv, AtEnd, Regular, NEW o \in Nat, NEW u \in Nat, o <= u, u <= max_offset + 1,
         PathFrom(o) >= 2
  PROVE  ~Less(OneLess(lower_bound(u)), OneLess(lower_bound(o)))
<1>1. /\ Walk /\ IsLog(log) /\ Len(path) \in Nat /\ max_offset \in Nat
      /\ PathFrom(o) \in 1 .. Len(path) + 1 /\ PathFrom(u) \in 1 .. Len(path) + 1
  BY WalkedIs, PathFromIs
<1>2. o <= max_offset + 1 /\ PathFrom(o) <= PathFrom(u) /\ PathFrom(u) >= 2
  BY <1>1, PathFromRises
<1>3. PICK p : /\ IsPlace(p) /\ lower_bound(o) = Double(p)
               /\ \A f \in DOMAIN log : p[f] <= End[f]
               /\ PathFrom(o) <= Len(path) => p = places[PathFrom(o)]
  BY <1>2, BoundPlace
<1>4. PICK q : /\ IsPlace(q) /\ lower_bound(u) = Double(q)
               /\ PathFrom(u) <= Len(path) => q = places[PathFrom(u)]
               /\ PathFrom(u) = Len(path) + 1 => q = End
  BY BoundPlace
<1>5. \A f \in DOMAIN log : p[f] <= q[f]
  <2>1. CASE PathFrom(u) <= Len(path)
    BY <1>1, <1>2, <1>3, <1>4, <2>1, WalkRises
  <2>2. CASE PathFrom(u) = Len(path) + 1
    BY <1>3, <1>4, <2>2
  <2> QED BY <1>1, <2>1, <2>2
<1>6. /\ 1 \in DOMAIN log /\ OneLess(lower_bound(o)) \in Vec
      /\ OneLess(lower_bound(o))[1] = lower_bound(o)[1] - 1
      /\ \A f \in DOMAIN log \ {1} : OneLess(lower_bound(o))[f] = lower_bound(o)[f]
  BY <1>2, ByteBefore
<1>7. /\ OneLess(lower_bound(u)) \in Vec
      /\ OneLess(lower_bound(u))[1] = lower_bound(u)[1] - 1
      /\ \A f \in DOMAIN log \ {1} : OneLess(lower_bound(u))[f] = lower_bound(u)[f]
  BY <1>2, ByteBefore
<1>8. \A f \in DOMAIN log : /\ p[f] \in Nat /\ q[f] \in Nat
                            /\ lower_bound(o)[f] = 2 * p[f] /\ lower_bound(u)[f] = 2 * q[f]
  BY <1>3, <1>4 DEF IsPlace, Double
<1>9. ASSUME NEW f \in DOMAIN log
      PROVE  OneLess(lower_bound(o))[f] <= OneLess(lower_bound(u))[f]
  <2>1. CASE f = 1
    BY <1>5, <1>6, <1>7, <1>8, <2>1
  <2>2. CASE f # 1
    BY <1>5, <1>6, <1>7, <1>8, <2>2
  <2> QED BY <2>1, <2>2
<1> QED BY <1>1, <1>6, <1>7, <1>9, BelowIsLess

\* A window is not empty: it begins with a frame, and has that of its offset.
WindowIs ==
  /\ starting_offset \in Nat /\ ending_offset \in Nat
  /\ starting_offset <= max_offset /\ ending_offset <= max_offset
  /\ Lo \in 1 .. Len(path) /\ Hi \in 1 .. Len(path) + 1 /\ Lo + 1 <= Hi
  /\ lower_bound(starting_offset) = S(Lo) /\ IsFrameAt(Lo) /\ TimeAt(Lo) <= ending_offset
  /\ Hi <= Len(path) => IsFrameAt(Hi) /\ TimeAt(Hi) > ending_offset
  /\ \A k \in 1 .. Len(path) : IsFrameAt(k) /\ TimeAt(k) > ending_offset => Hi <= k
  /\ High \in Vec /\ \A k \in 1 .. Len(path) + 1 : S(k) # High
  /\ \A k \in Hi .. Len(path) : Less(High, S(k))

LEMMA WindowIsSo == WalkInv /\ AtEnd /\ Tame /\ IsWindow => WindowIs
<1> SUFFICES ASSUME WalkInv, AtEnd, Tame, IsWindow PROVE WindowIs
  OBVIOUS
<1>1. /\ Walk /\ FramesNoted /\ IsLog(log) /\ Len(path) \in Nat /\ max_offset \in Nat
      /\ DOMAIN path = 1 .. Len(path)
      /\ \A k \in 1 .. Len(path) : TimeAt(k) \in Nat
      /\ Regular /\ FrameInEach /\ WindowSize \in Nat
  BY WalkedIs, WindowSizeAssumption DEF Tame
<1>2. PICK seq \in 0 .. max_offset :
    /\ starting_offset = IF seq >= WindowSize THEN seq - WindowSize ELSE 0
    /\ ending_offset = IF seq + WindowSize <= max_offset THEN seq + WindowSize ELSE max_offset
  BY DEF IsWindow
<1>3. /\ starting_offset \in Nat /\ ending_offset \in Nat
      /\ starting_offset <= max_offset /\ ending_offset <= max_offset
  BY <1>1, <1>2
<1>4. PICK k \in 1 .. Len(path) : IsFrameAt(k) /\ TimeAt(k) >= seq - WindowSize /\ TimeAt(k) <= seq + WindowSize
  BY <1>1 DEF FrameInEach, FramesFrom, IsFrameAt, TimeAt
<1>5. TimeAt(k) <= max_offset
  BY <1>1, <1>4 DEF FramesNoted
<1>6. TimeAt(k) >= starting_offset /\ TimeAt(k) <= ending_offset
  BY <1>1, <1>2, <1>4, <1>5
<1>7. /\ Lo \in 1 .. Len(path) + 1 /\ Hi \in 1 .. Len(path) + 1
      /\ Lo <= Len(path) => IsFrameAt(Lo) /\ TimeAt(Lo) >= starting_offset
      /\ Hi <= Len(path) => IsFrameAt(Hi) /\ TimeAt(Hi) >= ending_offset + 1
      /\ \A j \in 1 .. Len(path) : IsFrameAt(j) /\ TimeAt(j) >= starting_offset => Lo <= j
      /\ \A j \in 1 .. Len(path) : IsFrameAt(j) /\ TimeAt(j) >= ending_offset + 1 => Hi <= j
  <2>1. starting_offset \in Int /\ ending_offset + 1 \in Int
    BY <1>3
  <2>2. /\ Lo \in 1 .. Len(path) + 1
        /\ Lo <= Len(path) => IsFrameAt(Lo) /\ TimeAt(Lo) >= starting_offset
        /\ \A j \in 1 .. Len(path) : IsFrameAt(j) /\ TimeAt(j) >= starting_offset => Lo <= j
    BY <2>1, PathFromIs DEF Lo
  <2>3. /\ Hi \in 1 .. Len(path) + 1
        /\ Hi <= Len(path) => IsFrameAt(Hi) /\ TimeAt(Hi) >= ending_offset + 1
        /\ \A j \in 1 .. Len(path) : IsFrameAt(j) /\ TimeAt(j) >= ending_offset + 1 => Hi <= j
    BY <2>1, PathFromIs DEF Hi
  <2> QED BY <2>2, <2>3
<1>8. Lo <= k /\ Lo \in 1 .. Len(path)
  BY <1>1, <1>4, <1>6, <1>7
<1>9. TimeAt(Lo) <= TimeAt(k)
  BY <1>1, <1>8, WalkInOrder DEF Regular
<1>10. TimeAt(Lo) <= ending_offset
  <2>1. TimeAt(Lo) \in Nat /\ TimeAt(k) \in Nat
    BY <1>1, <1>8
  <2> QED BY <1>3, <1>6, <1>9, <2>1
<1>11. k < Hi
  <2>1. SUFFICES ASSUME Hi <= k PROVE FALSE
    BY <1>1, <1>7
  <2>2. Hi \in 1 .. Len(path)
    BY <1>1, <1>7, <2>1
  <2>3. TimeAt(Hi) <= TimeAt(k)
    BY <1>1, <2>1, <2>2, WalkInOrder DEF Regular
  <2>4. TimeAt(Hi) \in Nat /\ TimeAt(k) \in Nat /\ TimeAt(Hi) >= ending_offset + 1
    BY <1>1, <1>7, <2>2
  <2> QED BY <1>3, <1>6, <2>3, <2>4
<1>12. Lo + 1 <= Hi /\ Hi >= 2
  BY <1>1, <1>7, <1>8, <1>11
<1>13. lower_bound(starting_offset) = S(Lo)
  <2>1. starting_offset <= max_offset + 1 /\ PathFrom(starting_offset) <= Len(path)
    BY <1>1, <1>3, <1>8 DEF Lo
  <2> QED BY <1>1, <1>3, <2>1, BoundPath DEF Lo
<1>14. /\ High \in Vec /\ \A j \in 1 .. Len(path) + 1 : S(j) # High
       /\ \A j \in Hi .. Len(path) : Less(High, S(j))
  <2>1. ending_offset + 1 \in Nat /\ ending_offset + 1 <= max_offset + 1
        /\ PathFrom(ending_offset + 1) >= 2
    BY <1>1, <1>3, <1>12 DEF Hi
  <2> QED BY <1>1, <2>1, ByteBefore DEF High, Hi
<1>15. /\ Hi <= Len(path) => IsFrameAt(Hi) /\ TimeAt(Hi) > ending_offset
       /\ \A j \in 1 .. Len(path) : IsFrameAt(j) /\ TimeAt(j) > ending_offset => Hi <= j
  <2>1. ASSUME Hi <= Len(path) PROVE IsFrameAt(Hi) /\ TimeAt(Hi) > ending_offset
    <3>1. Hi \in 1 .. Len(path)
      BY <1>1, <1>7, <2>1
    <3>2. IsFrameAt(Hi) /\ TimeAt(Hi) >= ending_offset + 1 /\ TimeAt(Hi) \in Nat
      BY <1>1, <1>7, <3>1
    <3> QED BY <1>3, <3>2
  <2>2. ASSUME NEW j \in 1 .. Len(path), IsFrameAt(j), TimeAt(j) > ending_offset PROVE Hi <= j
    <3>1. TimeAt(j) \in Nat
      BY <1>1
    <3>2. TimeAt(j) >= ending_offset + 1
      BY <1>3, <2>2, <3>1
    <3> QED BY <1>7, <2>2, <3>2
  <2> QED BY <2>1, <2>2
<1> HIDE DEF WindowIs
<1> QED BY <1>3, <1>7, <1>8, <1>10, <1>12, <1>13, <1>14, <1>15 DEF WindowIs
-----------------------------------------------------------------------------
(* A reader on the walk stays on it.                                       *)

\* It goes past the message the walk goes past there.
LEMMA CursorMoves ==
  ASSUME WalkInv, AtEnd, NEW c \in 1 .. Len(path) + 1, At(input_streams) = places[c],
         Found, GoPast, log' = log
  PROVE  /\ c \in 1 .. Len(path) /\ c + 1 \in 1 .. Len(path) + 1 /\ Chosen = path[c]
         /\ At(input_streams') = places[c + 1] /\ StateOf(input_streams) = S(c)
         /\ StateOf(input_streams') = S(c + 1)
         /\ Regular => (IsFrame(Chosen) <=> IsFrameAt(c))
         /\ Regular => (HasHandler(Chosen) <=>
              path[c][1] \in box /\ (options.process_always \/ is_valid_early(TimeAt(c))))
<1>1. /\ WindowTypes /\ Walk /\ Ended /\ IsLog(log) /\ Len(path) \in Nat /\ phase # "none"
      /\ Streams = DOMAIN log
  BY WalkedIs DEF AtEnd
<1>2. /\ Goes(At(input_streams), Chosen, At(input_streams'))
      /\ IsPlace(At(input_streams)) /\ IsPlace(At(input_streams'))
      /\ Streams' = Streams
  BY <1>1, StepIs
<1>3. c # Len(path) + 1
  <2>1. SUFFICES ASSUME c = Len(path) + 1 PROVE FALSE
    OBVIOUS
  <2>2. Stops(At(input_streams), End)
    BY <1>1, <2>1 DEF Ended
  <2> QED BY <1>1, <1>2, <2>2, GoesOrStops
<1>4. c \in 1 .. Len(path) /\ c + 1 \in 1 .. Len(path) + 1
  BY <1>1, <1>3
<1>5. /\ Goes(places[c], path[c], places[c + 1]) /\ IsPlace(places[c]) /\ IsPlace(places[c + 1])
  BY <1>1, <1>4, WalkStep
<1>6. Chosen = path[c] /\ At(input_streams') = places[c + 1]
  BY <1>1, <1>2, <1>5, GoesOnce
<1>7. StateOf(input_streams) = S(c) /\ StateOf(input_streams') = S(c + 1)
  <2>1. DOMAIN input_streams = DOMAIN log /\ DOMAIN input_streams' = DOMAIN log
    BY <1>1, <1>2 DEF Streams
  <2>2. /\ StateOf(input_streams) = [f \in DOMAIN log |-> 2 * At(input_streams)[f]]
        /\ StateOf(input_streams') = [f \in DOMAIN log |-> 2 * At(input_streams')[f]]
    BY <2>1 DEF StateOf, At
  <2> QED BY <1>6, <2>2 DEF S, Double
<1>8. ASSUME Regular PROVE IsKnown(Chosen) <=> Chosen[1] \in box
  <2>1. ASSUME NEW f \in DOMAIN log, NEW i \in 1 .. Scanned[f].at - 1, log[f][i].kind = "metadata"
        PROVE  log[f][i].type \in Scanned[f].dictionary
    <3>1. /\ Reaches(f, Scanned[f]) /\ At(Scanned)[f] = Scanned[f].at /\ IsPlace(At(Scanned))
          /\ ComesTo(f, At(input_streams)[f], At(Scanned)[f])
      BY <1>1, ScanIs
    <3>2. (log[f][i].type \in input_streams[f].dictionary /\ i \in 1 .. End[f] - 1) \/ ~(i < End[f])
      <4>1. End[f] \in Nat
        BY <1>1 DEF Ended, IsPlace
      <4>2. Scanned[f].at \in Nat
        BY <3>1 DEF IsPlace
      <4>3. i < End[f] => i \in 1 .. End[f] - 1
        BY <4>1, <4>2
      <4> QED BY <1>1, <2>1, <4>3 DEF Ended
    <3>3. CASE i < End[f]
      BY <3>1, <3>2, <3>3 DEF Reaches
    <3>4. CASE ~(i < End[f])
      <4>1. At(input_streams)[f] \in Nat /\ Scanned[f].at \in Nat /\ End[f] \in Nat
        BY <1>1, <1>2, <3>1 DEF IsPlace, Ended
      <4>2. At(input_streams)[f] <= places[Len(path) + 1][f] /\ places[Len(path) + 1][f] <= End[f]
            /\ places[Len(path) + 1][f] \in Nat
        <5>1. Len(path) + 1 \in 1 .. Len(path) + 1 /\ c <= Len(path) + 1
          BY <1>1
        <5>2. places[c][f] <= places[Len(path) + 1][f]
          BY <1>1, <5>1, WalkRises
        <5>3. places[Len(path) + 1][f] <= End[f]
          BY <1>1 DEF Ended, Stops, ComesTo
        <5> QED BY <1>1, <5>1, <5>2, <5>3 DEF Walk, IsPlace
      <4>3. At(input_streams)[f] <= i
        BY <3>4, <4>1, <4>2
      <4>4. At(input_streams)[f] = input_streams[f].at
        BY <1>1, ScanIs
      <4>5. i \in input_streams[f].at .. Scanned[f].at - 1
        BY <4>1, <4>3, <4>4
      <4> QED BY <2>1, <3>1, <4>5 DEF Reaches
    <3> QED BY <3>3, <3>4
  <2> QED BY <1>1, <1>8, <2>1, KnownIs
<1>9. Regular => (IsFrame(Chosen) <=> IsFrameAt(c))
  BY <1>6, <1>8 DEF IsFrame, IsFrameAt
<1>10. Regular => (HasHandler(Chosen) <=>
              path[c][1] \in box /\ (options.process_always \/ is_valid_early(TimeAt(c))))
  BY <1>6, <1>8 DEF HasHandler, TimeAt
<1> QED BY <1>4, <1>6, <1>7, <1>9, <1>10

\* It comes to an end where the walk did.
LEMMA CursorEnds ==
  ASSUME WalkInv, AtEnd, NEW c \in 1 .. Len(path) + 1, At(input_streams) = places[c], Ends
  PROVE  c = Len(path) + 1 /\ StateOf(input_streams) = S(c)
<1>1. /\ WindowTypes /\ Walk /\ Ended /\ IsLog(log) /\ Len(path) \in Nat /\ phase # "none"
      /\ DOMAIN input_streams = DOMAIN log
  BY WalkedIs DEF AtEnd, Streams
<1>2. Stops(At(input_streams), At(Scanned))
  BY <1>1, StopIs
<1>3. c = Len(path) + 1
  <2>1. SUFFICES ASSUME c \in 1 .. Len(path) PROVE FALSE
    BY <1>1
  <2>2. Goes(places[c], path[c], places[c + 1]) /\ IsPlace(places[c])
    BY <1>1, <2>1, WalkStep
  <2> QED BY <1>1, <1>2, <2>2, GoesOrStops
<1>4. StateOf(input_streams) = [f \in DOMAIN log |-> 2 * At(input_streams)[f]]
  BY <1>1 DEF StateOf, At
<1> QED BY <1>3, <1>4 DEF S, Double

-----------------------------------------------------------------------------
(* Every window is complete.                                               *)

\* What initialize has noted, and where a window lies in it, stay.
LEMMA PlanStays ==
  ASSUME UNCHANGED <<logVars, box, placeVars, walkVars>>
  PROVE  /\ log' = log /\ options' = options /\ path' = path /\ places' = places /\ max_offset' = max_offset
         /\ box' = box /\ Regular' = Regular /\ Tame' = Tame
         /\ \A k : S(k)' = S(k) /\ TimeAt(k)' = TimeAt(k) /\ IsFrameAt(k)' = IsFrameAt(k)
         /\ \A o : PathFrom(o)' = PathFrom(o) /\ lower_bound(o)' = lower_bound(o)
         /\ Vec' = Vec
         /\ UNCHANGED <<starting_offset, ending_offset>> =>
              Lo' = Lo /\ Hi' = Hi /\ High' = High /\ IsWindow' = IsWindow
<1>1. /\ log' = log /\ options' = options /\ box' = box /\ path' = path /\ places' = places
      /\ stateMap' = stateMap /\ max_offset' = max_offset
  BY DEF logVars, placeVars, walkVars
<1>2. /\ Regular' = Regular
      /\ \A k : S(k)' = S(k) /\ TimeAt(k)' = TimeAt(k) /\ IsFrameAt(k)' = IsFrameAt(k)
  BY <1>1 DEF Regular, FilesOrdered, Messages, IsDescribed, Message, S, Double, TimeAt, IsFrameAt
<1>3. \A o : FramesFrom(o)' = FramesFrom(o)
  BY <1>1 DEF FramesFrom, Message
<1>4. \A o : PathFrom(o)' = PathFrom(o) /\ lower_bound(o)' = lower_bound(o)
  BY <1>1, <1>3 DEF PathFrom, lower_bound
<1>5. Tame' = Tame
  BY <1>1, <1>2, <1>3 DEF Tame, FrameInEach, Message
<1>6. ASSUME UNCHANGED <<starting_offset, ending_offset>>
      PROVE  Lo' = Lo /\ Hi' = Hi /\ High' = High /\ IsWindow' = IsWindow
  BY <1>1, <1>4, <1>6 DEF Lo, Hi, High, IsWindow, OneLess
<1>7. Vec' = Vec
  BY <1>1 DEF Vec
<1> QED BY <1>1, <1>2, <1>4, <1>5, <1>6, <1>7

LEMMA DoubleOnce ==
  ASSUME NEW p, NEW q, IsPlace(p), IsPlace(q), Double(p) = Double(q)
  PROVE  p = q
<1>1. ASSUME NEW f \in DOMAIN log PROVE p[f] = q[f]
  <2>1. Double(p)[f] = 2 * p[f] /\ Double(q)[f] = 2 * q[f] /\ p[f] \in Nat /\ q[f] \in Nat
    BY DEF Double, IsPlace
  <2> QED BY <2>1
<1> QED BY <1>1 DEF IsPlace

\* A jump: what the window keeps and is noted as loaded has been handled.  Where
\* it begins before the window that was loaded last, it also ends before its end.
LEMMA JumpLands ==
  ASSUME WindowInv, NEW o \in 0 .. max_offset, jumpToOffset(o)
  PROVE  JumpedInv'
<1>1. /\ WalkInv /\ ReadyInv /\ phase = "ready" /\ phase' = "jumped" /\ loads' = loads + 1
      /\ loaded' = loaded \cap InWindow(starting_offset', ending_offset')
      /\ lowest' = lowest /\ highest' = highest /\ finish_reading' = FALSE
      /\ UNCHANGED <<logVars, box, placeVars, walkVars>> /\ AtEnd /\ AtEnd'
      /\ starting_offset' = (IF o >= WindowSize THEN o - WindowSize ELSE 0)
      /\ ending_offset' = (IF o + WindowSize <= max_offset THEN o + WindowSize ELSE max_offset)
  BY DEF WindowInv, jumpToOffset, loadedVars, Unread, AtEnd
<1>2. SUFFICES ASSUME Tame' PROVE JumpedInv'
  BY DEF JumpedInv
<1>3. /\ path' = path /\ places' = places /\ max_offset' = max_offset /\ box' = box /\ Tame /\ Vec' = Vec
      /\ log' = log /\ options' = options
      /\ \A k : S(k)' = S(k) /\ TimeAt(k)' = TimeAt(k) /\ IsFrameAt(k)' = IsFrameAt(k)
      /\ \A u : PathFrom(u)' = PathFrom(u) /\ lower_bound(u)' = lower_bound(u)
  BY <1>1, <1>2, PlanStays
<1>4. /\ IsLog(log) /\ Len(path) \in Nat /\ max_offset \in Nat /\ Regular /\ Walk /\ Order
  BY <1>1, <1>3, WalkedIs, IsOrder DEF Tame
<1>5. IsWindow'
  <2>1. o \in 0 .. max_offset'
    BY <1>3
  <2> QED BY <1>1, <1>3, <2>1 DEF IsWindow
<1>6. WalkInv' /\ \E p : IsPlace(p) /\ lower_bound(starting_offset') = Double(p) /\ At(input_streams') = p
  BY <1>1, JumpKeeps
<1>7. WindowIs'
  <2>1. WalkInv' /\ AtEnd' /\ Tame' /\ IsWindow' => WindowIs'
    BY WindowIsSo, PTL
  <2> QED BY <1>1, <1>2, <1>5, <1>6, <2>1
<1>8. PICK lo \in 1 .. Len(path), hi \in 1 .. Len(path) + 1 :
        /\ lo = PathFrom(starting_offset') /\ hi = PathFrom(ending_offset' + 1) /\ lo + 1 <= hi
        /\ lo = Lo' /\ hi = Hi' /\ lower_bound(starting_offset') = S(lo)
  <2>1. Lo' = PathFrom(starting_offset') /\ Hi' = PathFrom(ending_offset' + 1)
    BY <1>3 DEF Lo, Hi
  <2>2. /\ Lo' \in 1 .. Len(path) /\ Hi' \in 1 .. Len(path) + 1 /\ Lo' + 1 <= Hi'
        /\ lower_bound(starting_offset)' = S(Lo)'
    BY <1>3, <1>7 DEF WindowIs
  <2>3. lower_bound(starting_offset') = S(Lo')
    BY <1>1, <1>3, <2>2 DEF lower_bound, S, Double, placeVars
  <2> QED BY <2>1, <2>2, <2>3
<1>9. At(input_streams)' = places'[Lo']
  <2>1. PICK p : IsPlace(p) /\ lower_bound(starting_offset') = Double(p) /\ At(input_streams') = p
    BY <1>6
  <2>2. IsPlace(places[lo])
    <3>1. lo \in 1 .. Len(path) + 1
      BY <1>4, <1>8
    <3> QED BY <1>4, <3>1 DEF Walk
  <2>3. p = places[lo]
    BY <1>8, <2>1, <2>2, DoubleOnce DEF S
  <2> QED BY <1>3, <1>8, <2>1, <2>3
<1>10. High' = OneLess(lower_bound(ending_offset' + 1)) /\ High' \in Vec
  <2>1. lower_bound(ending_offset + 1)' = lower_bound(ending_offset' + 1)
    BY <1>1 DEF lower_bound, placeVars
  <2> QED BY <1>3, <1>7, <2>1 DEF High, WindowIs, OneLess
<1>11. ASSUME lowest # << >>,
              NEW k \in lo .. hi - 1, IsBetween(k)', ~Less(High, S(k))'
       PROVE  IsDone(k)'
  <2>1. /\ loads > 0 /\ IsWindow /\ lowest \in Vec /\ highest \in Vec
        /\ \A j \in Lo .. Len(path) : IsBetween(j) => IsDone(j)
        /\ \A j \in 1 .. Lo - 1 : ~Less(S(j), lowest) => Less(High, S(j))
    BY <1>1, <1>3, <1>11 DEF ReadyInv
  <2>2. WindowIs
    BY <1>1, <1>3, <2>1, WindowIsSo
  <2>3. k \in 1 .. Len(path) /\ k \in 1 .. Len(path) + 1 /\ lo <= k
    BY <1>4, <1>8
  <2>4. IsBetween(k)
    BY <1>1, <1>3, <1>11 DEF IsBetween, Less
  <2>5. ~Less(High', S(k))
    BY <1>3, <1>11 DEF Less
  <2>6. IsDone(k)
    <3>1. CASE Lo <= k
      <4>1. k \in Lo .. Len(path)
        BY <1>4, <2>2, <2>3, <3>1 DEF WindowIs
      <4> QED BY <2>1, <2>4, <4>1
    <3>2. CASE k < Lo
      <4>1. k \in 1 .. Lo - 1 /\ Lo \in Nat
        BY <1>4, <2>2, <2>3, <3>2 DEF WindowIs
      <4>2. Less(High, S(k))
        BY <2>1, <2>4, <4>1 DEF IsBetween
      <4>3. /\ starting_offset \in Nat /\ ending_offset \in Nat /\ starting_offset' \in Nat
            /\ ending_offset' \in Nat /\ ending_offset <= max_offset /\ ending_offset' <= max_offset
        BY <1>3, <1>7, <2>2 DEF WindowIs
      <4>4. starting_offset' < starting_offset
        <5>1. SUFFICES ASSUME starting_offset <= starting_offset' PROVE FALSE
          BY <4>3
        <5>2. PathFrom(starting_offset) <= PathFrom(starting_offset')
          BY <1>1, <4>3, <5>1, PathFromRises
        <5> QED BY <1>8, <2>3, <3>2, <4>1, <5>2 DEF Lo
      <4>5. ending_offset' <= ending_offset
        <5>1. PICK seq \in 0 .. max_offset :
                /\ starting_offset = IF seq >= WindowSize THEN seq - WindowSize ELSE 0
                /\ ending_offset = IF seq + WindowSize <= max_offset THEN seq + WindowSize ELSE max_offset
          BY <2>1 DEF IsWindow
        <5>2. o \in Nat /\ seq \in Nat /\ WindowSize \in Nat
          BY <1>4, WindowSizeAssumption
        <5>3. o < seq
          BY <1>1, <4>3, <4>4, <5>1, <5>2
        <5> QED BY <1>1, <1>4, <5>1, <5>2, <5>3
      <4>6. ~Less(High, High')
        <5>1. PICK e \in Nat, u \in Nat : e = ending_offset' /\ u = ending_offset
          BY <4>3
        <5>2. e <= u /\ u <= max_offset
          BY <4>3, <4>5, <5>1
        <5>3. e + 1 \in Nat /\ u + 1 \in Nat /\ e + 1 <= u + 1 /\ u + 1 <= max_offset + 1
          BY <1>4, <5>2
        <5>4. PathFrom(e + 1) = hi /\ hi >= 2
          BY <1>8, <5>1
        <5>5. ~Less(OneLess(lower_bound(u + 1)), OneLess(lower_bound(e + 1)))
          BY <1>1, <1>4, <5>3, <5>4, BytesRise
        <5> QED BY <1>10, <5>1, <5>5 DEF High
      <4>7. High \in Vec /\ High' \in Vec /\ S(k) \in Vec
        BY <1>1, <1>10, <2>2, <2>3, StatesRise DEF WindowIs
      <4> HIDE DEF High
      <4> QED BY <1>4, <2>5, <4>2, <4>6, <4>7 DEF Order
    <3> QED BY <2>2, <2>3, <3>1, <3>2 DEF WindowIs
  <2>7. path[k] \in InWindow(starting_offset', ending_offset')
    BY <1>8 DEF InWindow
  <2> QED BY <1>1, <1>3, <2>6, <2>7 DEF IsDone, is_valid_early
<1>12. loads' > 0
  <2>1. loads \in Nat
    BY DEF WindowInv, NotLoaded
  <2> QED BY <1>1, <2>1
<1>13. lowest # << >> => lowest \in Vec /\ highest \in Vec
  BY <1>1, <1>3 DEF ReadyInv
<1> QED BY <1>1, <1>3, <1>5, <1>8, <1>9, <1>11, <1>12, <1>13 DEF JumpedInv

\* loadMessage and firstMessage take nothing away from what is handled.
LEMMA StaysDone ==
  ASSUME WalkInv, AtEnd, UNCHANGED <<logVars, box, placeVars, walkVars>>, loaded \subseteq loaded'
  PROVE  \A k \in 1 .. Len(path) : IsDone(k) => IsDone(k)'
<1>1. /\ path' = path /\ box' = box /\ options' = options
      /\ \A k : TimeAt(k)' = TimeAt(k)
  BY PlanStays
<1> QED BY <1>1 DEF IsDone, is_valid_early

\* What keepLoadedStates leaves as loaded: in the window it was loaded, or is the
\* frame the window begins with; outside of it there is nothing of the walk.
LEMMA KeepsLoaded ==
  ASSUME WalkInv, AtEnd, Tame, IsWindow, keepLoadedStates(starting_offset, ending_offset),
         lowest = << >> \/ (lowest \in Vec /\ highest \in Vec)
  PROVE  /\ lowest' \in Vec /\ highest' \in Vec
         /\ \A k \in Lo .. Hi - 1 :
              ~Less(S(k), lowest') /\ ~Less(highest', S(k)) =>
                k = Lo \/ (lowest # << >> /\ IsBetween(k) /\ ~Less(High, S(k)))
         /\ \A k \in 1 .. Lo - 1 : ~Less(S(k), lowest') => Less(High, S(k))
         /\ \A k \in 1 .. Len(path) : ~Less(highest', S(k)) => k < Hi
<1>1. WindowIs /\ IsLog(log) /\ Order /\ Len(path) \in Nat
  BY WindowIsSo, WalkedIs, IsOrder
<1>2. PICK lo \in 1 .. Len(path), hi \in 1 .. Len(path) + 1 : lo = Lo /\ hi = Hi /\ lo + 1 <= hi
  BY <1>1 DEF WindowIs
<1>3. /\ lower_bound(starting_offset) = S(lo) /\ High \in Vec /\ S(lo) \in Vec
      /\ \A k \in 1 .. Len(path) : S(k) # High /\ S(k) \in Vec
      /\ \A k \in hi .. Len(path) : Less(High, S(k))
      /\ \A k \in 1 .. Len(path) : (~Less(S(lo), S(k)) => k <= lo) /\ (~Less(S(k), S(lo)) => lo <= k)
  BY <1>1, <1>2, StatesRise DEF WindowIs
<1> DEFINE low == S(lo)
           high == High
           from == IF lowest = << >> THEN high ELSE lowest
           to == IF lowest = << >> THEN low ELSE highest
           apart == Less(to, low) \/ Less(high, from)
<1>4. /\ lowest' = IF apart THEN high ELSE MaxState(from, low)
      /\ highest' = IF apart THEN low ELSE MinState(to, high)
  BY <1>3 DEF keepLoadedStates, High
<1>5. from \in Vec /\ to \in Vec /\ low \in Vec /\ high \in Vec
  BY <1>3
<1> HIDE DEF low, high, from, to
<1>6. CASE apart
  <2>1. lowest' = high /\ highest' = low
    BY <1>4, <1>6
  <2>2. ASSUME NEW k \in 1 .. Len(path), ~Less(highest', S(k)) PROVE k <= lo
    BY <1>3, <2>1, <2>2 DEF low
  <2>3. ASSUME NEW k \in 1 .. Len(path), ~Less(S(k), lowest') PROVE Less(High, S(k))
    BY <1>1, <1>3, <2>1, <2>3 DEF high, Order
  <2> QED BY <1>1, <1>2, <1>5, <2>1, <2>2, <2>3
<1>7. CASE ~apart
  <2>1. lowest' = MaxState(from, low) /\ highest' = MinState(to, high)
    BY <1>4, <1>7
  <2>2. /\ lowest' \in Vec /\ ~Less(lowest', from) /\ ~Less(lowest', low)
        /\ highest' \in Vec /\ ~Less(to, highest') /\ ~Less(high, highest')
    BY <1>1, <1>5, <2>1, MinMaxAre
  <2>3. ASSUME NEW k \in 1 .. Len(path), ~Less(S(k), lowest')
        PROVE  lo <= k /\ ~Less(S(k), from)
    <3>1. ~Less(S(k), low) /\ ~Less(S(k), from)
      BY <1>1, <1>3, <1>5, <2>2, <2>3 DEF Order
    <3> QED BY <1>3, <3>1 DEF low
  <2>4. ASSUME NEW k \in 1 .. Len(path), ~Less(highest', S(k))
        PROVE  k < hi /\ ~Less(to, S(k)) /\ ~Less(High, S(k))
    <3>1. ~Less(to, S(k)) /\ ~Less(high, S(k))
      BY <1>1, <1>3, <1>5, <2>2, <2>4 DEF Order
    <3>2. ~(k \in hi .. Len(path))
      BY <1>3, <3>1 DEF high
    <3> QED BY <1>1, <1>2, <3>1, <3>2 DEF high
  <2>5. ASSUME NEW k \in lo .. hi - 1, ~Less(S(k), lowest'), ~Less(highest', S(k))
        PROVE  k = lo \/ (lowest # << >> /\ IsBetween(k) /\ ~Less(High, S(k)))
    <3>1. k \in 1 .. Len(path) /\ lo <= k
      BY <1>1, <1>2
    <3>2. CASE lowest = << >>
      <4>1. ~Less(S(lo), S(k))
        BY <2>4, <2>5, <3>1, <3>2 DEF to, low
      <4>2. k <= lo
        BY <1>3, <3>1, <4>1
      <4> QED BY <1>2, <3>1, <4>2
    <3>3. CASE lowest # << >>
      BY <2>3, <2>4, <2>5, <3>1, <3>3 DEF from, to, IsBetween
    <3> QED BY <3>2, <3>3
  <2>6. ASSUME NEW k \in 1 .. lo - 1 PROVE Less(S(k), lowest')
    <3>1. k \in 1 .. Len(path) /\ ~(lo <= k)
      BY <1>1, <1>2
    <3> QED BY <2>3, <3>1
  <2> QED BY <1>2, <2>2, <2>4, <2>5, <2>6
<1> QED BY <1>6, <1>7

\* The first message of a window is the frame it begins with.
LEMMA FirstLoads ==
  ASSUME WindowInv, firstMessage
  PROVE  LoadingInv' /\ ReadyInv'
<1>1. /\ WalkInv /\ JumpedInv /\ phase = "jumped" /\ Found /\ GoPast /\ Load(Chosen) /\ loads' = loads
      /\ UNCHANGED <<logVars, box, placeVars, walkVars>> /\ AtEnd /\ log' = log
      /\ starting_offset' = starting_offset /\ ending_offset' = ending_offset
      /\ IF IsFrame(Chosen)
         THEN /\ phase' = "loading" /\ current_offset' = Message(Chosen).time
              /\ keepLoadedStates(starting_offset, ending_offset)
              /\ next_lowest' = StateOf(input_streams') /\ next_highest' = StateOf(input_streams')
         ELSE phase' = "ready" /\ UNCHANGED <<current_offset, loadedVars>>
  BY DEF WindowInv, firstMessage, Unread, AtEnd, logVars
<1>2. SUFFICES ASSUME Tame' PROVE LoadingInv' /\ ReadyInv'
  BY DEF LoadingInv, ReadyInv
<1>3. /\ path' = path /\ places' = places /\ Tame /\ Vec' = Vec
      /\ \A k : S(k)' = S(k)
      /\ Lo' = Lo /\ Hi' = Hi /\ High' = High /\ IsWindow' = IsWindow
  BY <1>1, <1>2, PlanStays
<1>4. /\ loads > 0 /\ IsWindow /\ At(input_streams) = places[Lo] /\ ~finish_reading
      /\ \/ lowest = << >>
         \/ /\ lowest \in Vec /\ highest \in Vec
            /\ \A k \in Lo .. Hi - 1 : IsBetween(k) /\ ~Less(High, S(k)) => IsDone(k)
  BY <1>1, <1>3 DEF JumpedInv
<1>5. WindowIs /\ Len(path) \in Nat /\ Regular
  BY <1>1, <1>3, <1>4, WindowIsSo, WalkedIs DEF Tame
<1>6. PICK lo \in 1 .. Len(path), hi \in 1 .. Len(path) + 1, n \in Nat :
        lo = Lo /\ hi = Hi /\ lo + 1 <= hi /\ n = Len(path)
  BY <1>5 DEF WindowIs
<1>7. lo \in 1 .. Len(path) + 1 /\ lo + 1 \in 1 .. Len(path) + 1 /\ lo + 1 \in lo + 1 .. n + 1
  BY <1>5, <1>6
<1>8. /\ Chosen = path[lo] /\ At(input_streams') = places[lo + 1]
      /\ StateOf(input_streams') = S(lo + 1) /\ IsFrame(Chosen)
      /\ HasHandler(Chosen) <=>
           path[lo][1] \in box /\ (options.process_always \/ is_valid_early(TimeAt(lo)))
  <2>1. IsFrameAt(lo)
    BY <1>5, <1>6 DEF WindowIs
  <2>2. At(input_streams) = places[lo]
    BY <1>4, <1>6
  <2> QED BY <1>1, <1>5, <1>7, <2>1, <2>2, CursorMoves
<1>9. /\ phase' = "loading" /\ current_offset' = TimeAt(lo) /\ current_offset' <= ending_offset'
      /\ keepLoadedStates(starting_offset, ending_offset)
      /\ next_lowest' = S(lo + 1) /\ next_highest' = S(lo + 1) /\ finish_reading' = finish_reading
  BY <1>1, <1>5, <1>6, <1>8 DEF TimeAt, WindowIs, GoPast
<1>10. loaded \subseteq loaded' /\ IsDone(lo)'
  <2>1. loaded \subseteq loaded' /\ (HasHandler(Chosen) => path[lo] \in loaded')
    BY <1>1, <1>8 DEF Load
  <2>2. path'[lo] = path[lo] /\ box' = box /\ options' = options /\ TimeAt(lo)' = TimeAt(lo)
    BY <1>1, <1>3, PlanStays
  <2> QED BY <1>8, <2>1, <2>2 DEF IsDone, is_valid_early
<1>11. \A k \in 1 .. n : IsDone(k) => IsDone(k)'
  BY <1>1, <1>6, <1>10, StaysDone
<1>12. /\ lowest' \in Vec /\ highest' \in Vec
       /\ \A k \in lo .. hi - 1 :
            ~Less(S(k), lowest') /\ ~Less(highest', S(k)) =>
              k = lo \/ (lowest # << >> /\ IsBetween(k) /\ ~Less(High, S(k)))
       /\ \A k \in 1 .. lo - 1 : ~Less(S(k), lowest') => Less(High, S(k))
       /\ \A k \in 1 .. n : ~Less(highest', S(k)) => k < hi
  BY <1>1, <1>3, <1>4, <1>6, <1>9, KeepsLoaded
<1>13. LoadingAt(lo + 1)'
  <2>1. At(input_streams)' = places'[lo + 1]
    BY <1>3, <1>8
  <2>2. ASSUME NEW k \in Lo' .. (lo + 1) - 1 PROVE IsDone(k)'
    <3>1. k = lo
      BY <1>3, <1>6
    <3> QED BY <1>10, <3>1
  <2>3. ASSUME NEW k \in Lo' .. Hi' - 1, IsBetween(k)' PROVE IsDone(k)'
    <3>1. k \in lo .. hi - 1
      BY <1>3, <1>6
    <3>2. k \in 1 .. n
      BY <1>6, <3>1
    <3>3. ~Less(S(k), lowest') /\ ~Less(highest', S(k))
      BY <1>3, <2>3 DEF IsBetween, Less
    <3>4. CASE k = lo
      BY <1>10, <3>4
    <3>5. CASE lowest # << >> /\ IsBetween(k) /\ ~Less(High, S(k))
      <4>1. IsDone(k)
        BY <1>4, <1>6, <3>1, <3>5
      <4> QED BY <1>11, <3>2, <4>1
    <3> QED BY <1>12, <3>1, <3>3, <3>4, <3>5
  <2>4. \A k \in 1 .. Lo' - 1 : ~Less(S(k), lowest)' => Less(High, S(k))'
    BY <1>3, <1>6, <1>12 DEF Less
  <2>5. \A k \in 1 .. Len(path)' : ~Less(highest, S(k))' => k < Hi'
    BY <1>3, <1>6, <1>12 DEF Less
  <2>6. next_lowest' = S(Lo + 1)' /\ next_highest' = S(lo + 1)' /\ lo + 1 \in Lo' + 1 .. Len(path)' + 1
    BY <1>3, <1>6, <1>7, <1>9
  <2>7. lo + 1 <= Hi' /\ current_offset' \in Nat /\ ~(current_offset' > ending_offset')
    <3>1. PICK e \in Nat, t \in Nat : e = ending_offset' /\ t = current_offset' /\ t <= e
      <4>1. TimeAt(lo) \in Nat /\ ending_offset \in Nat
        BY <1>1, <1>5, WalkedIs DEF WindowIs
      <4> QED BY <1>1, <1>9, <4>1
    <3> QED BY <1>3, <1>6, <3>1
  <2>8. Lo' + 1 = lo + 1
    BY <1>3, <1>6
  <2> QED BY <2>1, <2>2, <2>3, <2>4, <2>5, <2>6, <2>7, <2>8 DEF LoadingAt
<1>14. LoadingInv'
  <2>1. lo + 1 \in Lo' + 1 .. Len(path)' + 1
    BY <1>3, <1>6, <1>7
  <2> QED BY <1>1, <1>3, <1>4, <1>9, <1>12, <1>13, <2>1 DEF LoadingInv
<1> QED BY <1>9, <1>14 DEF ReadyInv

LEMMA NoFirst ==
  ASSUME WindowInv, noMessage
  PROVE  ReadyInv'
<1>1. /\ WalkInv /\ JumpedInv /\ phase = "jumped" /\ Ends /\ AtEnd
      /\ UNCHANGED <<logVars, box, placeVars, walkVars>>
  BY DEF WindowInv, noMessage, Unread, AtEnd, Finish
<1>2. SUFFICES ASSUME Tame' PROVE FALSE
  BY DEF ReadyInv
<1>3. Tame
  BY <1>1, <1>2, PlanStays
<1>4. IsWindow /\ At(input_streams) = places[Lo]
  BY <1>1, <1>3 DEF JumpedInv
<1>5. WindowIs /\ Len(path) \in Nat
  BY <1>1, <1>3, <1>4, WindowIsSo, WalkedIs
<1>6. Lo \in 1 .. Len(path) /\ Lo \in 1 .. Len(path) + 1
  BY <1>5 DEF WindowIs
<1>7. Lo = Len(path) + 1
  BY <1>1, <1>4, <1>6, CursorEnds
<1> QED BY <1>5, <1>6, <1>7

\* What a position that counts as loaded, and the next ends, are on the walk.
LEMMA LoadedIs ==
  ASSUME WalkInv, AtEnd, NEW c \in 1 .. Len(path) + 1, lowest \in Vec, highest \in Vec,
         isStateLoaded(S(c))
  PROVE  IsBetween(c)
<1>1. IsLog(log) /\ S(c) \in Vec /\ DOMAIN S(c) = DOMAIN log
  <2>1. S(c) \in Vec
    BY StatesRise
  <2> QED BY <2>1, WalkedIs DEF Vec
<1>2. \A f \in DOMAIN log : lowest[f] <= S(c)[f] /\ S(c)[f] <= highest[f]
  BY <1>1 DEF isStateLoaded
<1>3. ~Less(S(c), lowest)
  BY <1>1, <1>2, BelowIsLess
<1>4. ~Less(highest, S(c))
  BY <1>1, <1>2, BelowIsLess
<1> QED BY <1>3, <1>4 DEF IsBetween

LEMMA NextEnds ==
  ASSUME WalkInv, AtEnd, NEW c \in 1 .. Len(path) + 1, NEW l \in 1 .. Len(path) + 1,
         NEW m \in 1 .. Len(path) + 1, l <= c
  PROVE  MinState(S(l), S(c)) = S(l) /\ MaxState(S(m), S(c)) \in {S(m), S(c)}
<1>1. ~Less(S(c), S(l))
  BY StatesRise
<1> QED BY <1>1 DEF MinState, MaxState

\* The next message of a window.  It is taken as loaded only if it is handled.
LEMMA LoadGoesOn ==
  ASSUME WindowInv, loadMessage
  PROVE  LoadingInv'
<1>1. /\ WalkInv /\ LoadingInv /\ phase = "loading" /\ phase' = "loading" /\ Found /\ GoPast
      /\ loads' = loads /\ UNCHANGED <<logVars, box, placeVars, walkVars>> /\ AtEnd /\ log' = log
      /\ starting_offset' = starting_offset /\ ending_offset' = ending_offset
      /\ lowest' = lowest /\ highest' = highest /\ finish_reading' = finish_reading
      /\ current_offset <= ending_offset
      /\ current_offset' = IF IsFrame(Chosen) THEN Message(Chosen).time ELSE current_offset
      /\ IF isStateLoaded(StateOf(input_streams))
         THEN UNCHANGED <<loaded, twice, next_lowest, next_highest>>
         ELSE /\ Load(Chosen)
              /\ next_lowest' = MinState(next_lowest, StateOf(input_streams))
              /\ next_highest' = MaxState(next_highest, StateOf(input_streams))
  BY DEF WindowInv, loadMessage, Unread, AtEnd, logVars, GoPast, getState
<1>2. SUFFICES ASSUME Tame' PROVE LoadingInv'
  BY DEF LoadingInv
<1>3. /\ path' = path /\ places' = places /\ Tame /\ Vec' = Vec
      /\ \A k : S(k)' = S(k)
      /\ Lo' = Lo /\ Hi' = Hi /\ High' = High /\ IsWindow' = IsWindow
  BY <1>1, <1>2, PlanStays
<1>4. /\ loads > 0 /\ IsWindow /\ ~finish_reading /\ lowest \in Vec /\ highest \in Vec
      /\ \E c \in Lo + 1 .. Len(path) + 1 : LoadingAt(c)
  BY <1>1, <1>3 DEF LoadingInv
<1>5. /\ WindowIs /\ Len(path) \in Nat /\ Regular
      /\ \A k \in 1 .. Len(path) : TimeAt(k) \in Nat
  BY <1>1, <1>3, <1>4, WindowIsSo, WalkedIs DEF Tame
<1>6. PICK lo \in 1 .. Len(path), hi \in 1 .. Len(path) + 1, n \in Nat :
        lo = Lo /\ hi = Hi /\ lo + 1 <= hi /\ n = Len(path)
  BY <1>5 DEF WindowIs
<1>7. PICK c \in lo + 1 .. n + 1 : LoadingAt(c)
  BY <1>4, <1>6
<1>8. PICK m \in lo + 1 .. n + 1 : next_highest = S(m) /\ (m <= c - 1 \/ m = lo + 1)
  BY <1>6, <1>7 DEF LoadingAt
<1>9. /\ c \in 1 .. n + 1 /\ m \in 1 .. n + 1 /\ lo + 1 \in 1 .. n + 1 /\ lo + 1 <= c
      /\ lo \in 1 .. n /\ lo + 1 \in lo + 1 .. n + 1
  BY <1>6, <1>7, <1>8
<1>10. /\ At(input_streams) = places[c] /\ next_lowest = S(lo + 1)
       /\ \A k \in lo .. c - 1 : IsDone(k)
       /\ \A k \in lo .. hi - 1 : IsBetween(k) => IsDone(k)
       /\ \A k \in 1 .. lo - 1 : ~Less(S(k), lowest) => Less(High, S(k))
       /\ \A k \in 1 .. n : ~Less(highest, S(k)) => k < hi
       /\ current_offset \in Nat /\ ending_offset \in Nat
  BY <1>5, <1>6, <1>7 DEF LoadingAt, WindowIs
<1>11. c <= hi
  <2>1. ~(current_offset > ending_offset)
    BY <1>1, <1>10
  <2> QED BY <1>6, <1>7, <2>1 DEF LoadingAt
<1>12. /\ c \in 1 .. n /\ c + 1 \in lo + 1 .. n + 1 /\ Chosen = path[c]
       /\ At(input_streams') = places[c + 1] /\ StateOf(input_streams) = S(c)
       /\ IsFrame(Chosen) <=> IsFrameAt(c)
       /\ HasHandler(Chosen) <=>
            path[c][1] \in box /\ (options.process_always \/ is_valid_early(TimeAt(c)))
  <2>1. c \in 1 .. Len(path) + 1
    BY <1>6, <1>9
  <2>2. /\ c \in 1 .. Len(path) /\ Chosen = path[c]
        /\ At(input_streams') = places[c + 1] /\ StateOf(input_streams) = S(c)
        /\ IsFrame(Chosen) <=> IsFrameAt(c)
        /\ HasHandler(Chosen) <=>
             path[c][1] \in box /\ (options.process_always \/ is_valid_early(TimeAt(c)))
    BY <1>1, <1>5, <1>10, <2>1, CursorMoves
  <2> QED BY <1>6, <1>7, <2>2
<1>13. loaded \subseteq loaded' /\ IsDone(c)'
  <2>1. path'[c] = path[c] /\ box' = box /\ options' = options /\ TimeAt(c)' = TimeAt(c)
    BY <1>1, <1>3, PlanStays
  <2>2. CASE isStateLoaded(S(c))
    <3>1. IsBetween(c)
      BY <1>1, <1>4, <1>6, <1>9, <2>2, LoadedIs
    <3>2. c < hi
      BY <1>10, <1>12, <3>1 DEF IsBetween
    <3>3. c \in lo .. hi - 1
      BY <1>6, <1>7, <3>2
    <3>4. IsDone(c) /\ loaded' = loaded
      BY <1>1, <1>10, <1>12, <2>2, <3>1, <3>3
    <3> QED BY <2>1, <3>4 DEF IsDone, is_valid_early
  <2>3. CASE ~isStateLoaded(S(c))
    <3>1. loaded \subseteq loaded' /\ (HasHandler(Chosen) => path[c] \in loaded')
      BY <1>1, <1>12, <2>3 DEF Load
    <3> QED BY <1>12, <2>1, <3>1 DEF IsDone, is_valid_early
  <2> QED BY <2>2, <2>3
<1>14. \A k \in 1 .. n : IsDone(k) => IsDone(k)'
  BY <1>1, <1>6, <1>13, StaysDone
<1>15. next_lowest' = S(lo + 1) /\ next_highest' \in {S(m), S(c)}
  <2>1. MinState(S(lo + 1), S(c)) = S(lo + 1) /\ MaxState(S(m), S(c)) \in {S(m), S(c)}
    BY <1>1, <1>6, <1>9, NextEnds
  <2> QED BY <1>1, <1>8, <1>10, <1>12, <2>1
<1>16. /\ current_offset' \in Nat /\ ending_offset' \in Nat
       /\ IF current_offset' > ending_offset' THEN c + 1 = hi + 1 ELSE c + 1 <= hi
  <2>1. /\ hi <= n => IsFrameAt(hi) /\ TimeAt(hi) > ending_offset
        /\ IsFrameAt(c) /\ TimeAt(c) > ending_offset => hi <= c
        /\ TimeAt(c) \in Nat
    BY <1>5, <1>6, <1>12 DEF WindowIs
  <2>2. /\ ending_offset' = ending_offset
        /\ current_offset' = IF IsFrameAt(c) THEN TimeAt(c) ELSE current_offset
    BY <1>1, <1>12 DEF TimeAt
  <2>3. PICK e \in Nat, o \in Nat, t \in Nat, u \in Nat :
          /\ e = ending_offset /\ o = current_offset /\ t = TimeAt(c) /\ u = current_offset'
          /\ o <= e /\ u = IF IsFrameAt(c) THEN t ELSE o
    BY <1>1, <1>10, <2>1, <2>2
  <2>4. CASE u > e
    <3>1. IsFrameAt(c) /\ TimeAt(c) > ending_offset
      BY <2>3, <2>4
    <3>2. c = hi
      BY <1>6, <1>9, <1>11, <2>1, <3>1
    <3> QED BY <2>2, <2>3, <2>4, <3>2
  <2>5. CASE ~(u > e)
    <3>1. ~(IsFrameAt(c) /\ t > e)
      BY <2>3, <2>5
    <3>2. c # hi
      BY <1>12, <2>1, <2>3, <3>1
    <3>3. c + 1 <= hi
      BY <1>6, <1>9, <1>11, <3>2
    <3> QED BY <2>2, <2>3, <2>5, <3>3
  <2> QED BY <2>4, <2>5
<1>17. LoadingAt(c + 1)'
  <2>1. At(input_streams)' = places'[c + 1]
    BY <1>3, <1>12
  <2>2. ASSUME NEW k \in Lo' .. (c + 1) - 1 PROVE IsDone(k)'
    <3>1. k = c \/ k \in lo .. c - 1
      BY <1>3, <1>6, <1>7
    <3>2. CASE k \in lo .. c - 1
      <4>1. k \in 1 .. n
        BY <1>6, <1>7, <3>2
      <4> QED BY <1>10, <1>14, <3>2, <4>1
    <3> QED BY <1>13, <3>1, <3>2
  <2>3. ASSUME NEW k \in Lo' .. Hi' - 1, IsBetween(k)' PROVE IsDone(k)'
    <3>1. k \in lo .. hi - 1
      BY <1>3, <1>6
    <3>2. k \in 1 .. n
      BY <1>6, <3>1
    <3>3. IsBetween(k)
      BY <1>1, <1>3, <2>3 DEF IsBetween, Less
    <3> QED BY <1>10, <1>14, <3>1, <3>2, <3>3
  <2>4. \A k \in 1 .. Lo' - 1 : ~Less(S(k), lowest)' => Less(High, S(k))'
    BY <1>1, <1>3, <1>6, <1>10 DEF Less
  <2>5. \A k \in 1 .. Len(path)' : ~Less(highest, S(k))' => k < Hi'
    BY <1>1, <1>3, <1>6, <1>10 DEF Less
  <2>6. next_lowest' = S(Lo + 1)'
    BY <1>3, <1>6, <1>15
  <2>7. \E x \in Lo' + 1 .. Len(path)' + 1 : next_highest' = S(x)' /\ (x <= (c + 1) - 1 \/ x = Lo' + 1)
    <3>1. c <= (c + 1) - 1 /\ (m <= (c + 1) - 1 \/ m = lo + 1)
      BY <1>6, <1>7, <1>8
    <3>2. PICK x \in lo + 1 .. n + 1 : next_highest' = S(x) /\ (x <= (c + 1) - 1 \/ x = lo + 1)
      BY <1>7, <1>8, <1>15, <3>1
    <3> QED BY <1>3, <1>6, <3>2
  <2>8. current_offset' \in Nat /\ IF current_offset' > ending_offset' THEN c + 1 = Hi' + 1 ELSE c + 1 <= Hi'
    BY <1>3, <1>6, <1>16
  <2> QED BY <2>1, <2>2, <2>3, <2>4, <2>5, <2>6, <2>7, <2>8 DEF LoadingAt
<1> QED
  <2>1. c + 1 \in Lo' + 1 .. Len(path)' + 1
    BY <1>3, <1>6, <1>12
  <2> QED BY <1>1, <1>3, <1>4, <1>17, <2>1 DEF LoadingInv

\* The end of a load: before the last message that counts as loaded now, and
\* from where the window begins, nothing is left out.
LEMMA LoadEnds ==
  ASSUME WindowInv, endLoad
  PROVE  ReadyInv'
<1>1. /\ WalkInv /\ LoadingInv /\ phase = "loading"
      /\ loads' = loads /\ UNCHANGED <<logVars, box, placeVars, walkVars>> /\ AtEnd
      /\ starting_offset' = starting_offset /\ ending_offset' = ending_offset /\ loaded' = loaded
      /\ lowest' = MinState(lowest, next_lowest') /\ highest' = MaxState(highest, next_highest')
      /\ \/ /\ current_offset > ending_offset
            /\ UNCHANGED <<next_lowest, next_highest>>
         \/ /\ current_offset <= ending_offset /\ Ends
            /\ \/ UNCHANGED <<next_lowest, next_highest>>
               \/ /\ next_lowest' = MinState(next_lowest, StateOf(input_streams))
                  /\ next_highest' = MaxState(next_highest, StateOf(input_streams))
  BY DEF WindowInv, endLoad, Unread, AtEnd, logVars, Finish, getState, boundVars
<1>2. SUFFICES ASSUME Tame' PROVE ReadyInv'
  BY DEF ReadyInv
<1>3. /\ path' = path /\ places' = places /\ Tame /\ Vec' = Vec
      /\ \A k : S(k)' = S(k)
      /\ Lo' = Lo /\ Hi' = Hi /\ High' = High /\ IsWindow' = IsWindow
  BY <1>1, <1>2, PlanStays
<1>4. /\ loads > 0 /\ IsWindow /\ lowest \in Vec /\ highest \in Vec
      /\ \E c \in Lo + 1 .. Len(path) + 1 : LoadingAt(c)
  BY <1>1, <1>3 DEF LoadingInv
<1>5. WindowIs /\ Len(path) \in Nat /\ Regular /\ IsLog(log) /\ Order
  BY <1>1, <1>3, <1>4, WindowIsSo, WalkedIs, IsOrder DEF Tame
<1>6. PICK lo \in 1 .. Len(path), hi \in 1 .. Len(path) + 1, n \in Nat :
        lo = Lo /\ hi = Hi /\ lo + 1 <= hi /\ n = Len(path)
  BY <1>5 DEF WindowIs
<1>7. PICK c \in lo + 1 .. n + 1 : LoadingAt(c)
  BY <1>4, <1>6
<1>8. PICK m \in lo + 1 .. n + 1 : next_highest = S(m) /\ (m <= c - 1 \/ m = lo + 1)
  BY <1>6, <1>7 DEF LoadingAt
<1>9. /\ c \in 1 .. n + 1 /\ m \in 1 .. n + 1 /\ lo + 1 \in 1 .. n + 1 /\ lo + 1 <= c
      /\ lo \in 1 .. n
  BY <1>6, <1>7, <1>8
<1>10. /\ At(input_streams) = places[c] /\ next_lowest = S(lo + 1)
       /\ \A k \in lo .. c - 1 : IsDone(k)
       /\ \A k \in 1 .. lo - 1 : ~Less(S(k), lowest) => Less(High, S(k))
       /\ \A k \in 1 .. n : ~Less(highest, S(k)) => k < hi
       /\ \A k \in lo .. hi - 1 : IsBetween(k) => IsDone(k)
       /\ current_offset \in Nat /\ ending_offset \in Nat
       /\ IF current_offset > ending_offset THEN c = hi + 1 ELSE c <= hi
  BY <1>5, <1>6, <1>7 DEF LoadingAt, WindowIs
\* Up to where everything from the beginning of the window is handled.
<1>11. \E x \in lo + 1 .. n + 1 :
         /\ next_lowest' = S(lo + 1) /\ next_highest' = S(x)
         /\ \A k \in lo .. n : k < hi \/ k <= x => IsDone(k)
  <2>1. CASE current_offset > ending_offset
    <3>1. c = hi + 1 /\ m <= hi
      BY <1>6, <1>8, <1>10, <2>1
    <3>2. \A k \in lo .. n : k < hi \/ k <= m => k \in lo .. c - 1
      BY <1>6, <1>9, <3>1
    <3>3. ~(current_offset <= ending_offset)
      BY <1>10, <2>1
    <3> QED BY <1>1, <1>8, <1>10, <3>2, <3>3
  <2>2. CASE ~(current_offset > ending_offset) /\ Ends
    <3>1. c \in 1 .. Len(path) + 1 /\ Ends
      BY <1>6, <1>9, <2>2
    <3>2. c = Len(path) + 1 /\ StateOf(input_streams) = S(c)
      BY <1>1, <1>10, <3>1, CursorEnds
    <3>3. \A k \in lo .. n : IsDone(k)
      BY <1>6, <1>10, <3>2
    <3>4. MinState(S(lo + 1), S(c)) = S(lo + 1) /\ MaxState(S(m), S(c)) \in {S(m), S(c)}
      BY <1>1, <1>6, <1>9, NextEnds
    <3>5. next_lowest' = S(lo + 1) /\ next_highest' \in {S(m), S(c)}
      BY <1>1, <1>8, <1>10, <3>2, <3>4
    <3> QED BY <1>7, <1>8, <3>3, <3>5
  <2> QED BY <1>1, <2>1, <2>2
<1>12. PICK x \in lo + 1 .. n + 1 :
         /\ next_lowest' = S(lo + 1) /\ next_highest' = S(x)
         /\ \A k \in lo .. n : k < hi \/ k <= x => IsDone(k)
  BY <1>11
<1>13. /\ S(x) \in Vec /\ S(lo + 1) \in Vec /\ x \in 1 .. n + 1
       /\ \A k \in 1 .. n : (~Less(S(x), S(k)) <=> k <= x) /\ (~Less(S(k), S(lo + 1)) <=> lo + 1 <= k)
  <2>1. x \in 1 .. Len(path) + 1 /\ lo + 1 \in 1 .. Len(path) + 1
        /\ \A k \in 1 .. n : k \in 1 .. Len(path) + 1
    BY <1>6, <1>9
  <2> QED BY <1>1, <1>6, <2>1, StatesRise
<1>14. lowest' \in {lowest, S(lo + 1)} /\ highest' \in {highest, S(x)} /\ lowest' \in Vec /\ highest' \in Vec
  BY <1>1, <1>4, <1>12, <1>13 DEF MinState, MaxState
<1>15. \A k \in 1 .. n : IsDone(k) => IsDone(k)'
  BY <1>1, <1>6, StaysDone
<1>16. ASSUME NEW k \in Lo' .. Hi' - 1 PROVE IsDone(k)'
  <2>1. k \in lo .. n /\ k \in 1 .. n /\ k < hi
    BY <1>3, <1>6
  <2> QED BY <1>12, <1>15, <2>1
<1>17. ASSUME NEW k \in Lo' .. Len(path)', IsBetween(k)' PROVE IsDone(k)'
  <2>1. k \in lo .. n /\ k \in 1 .. n
    BY <1>3, <1>6
  <2>2. ~Less(highest', S(k))
    BY <1>3, <1>17 DEF IsBetween, Less
  <2>3. k < hi \/ k <= x
    BY <1>10, <1>13, <1>14, <2>1, <2>2
  <2> QED BY <1>12, <1>15, <2>1, <2>3
<1>18. ASSUME NEW k \in 1 .. Lo' - 1, ~Less(S(k), lowest)' PROVE Less(High, S(k))'
  <2>1. k \in 1 .. lo - 1 /\ k \in 1 .. n /\ ~(lo + 1 <= k)
    BY <1>3, <1>6
  <2>2. ~Less(S(k), lowest')
    BY <1>3, <1>18 DEF Less
  <2>3. Less(High, S(k))
    BY <1>10, <1>13, <1>14, <2>1, <2>2
  <2> QED BY <1>3, <2>3 DEF Less
<1> QED BY <1>1, <1>3, <1>4, <1>14, <1>16, <1>17, <1>18 DEF ReadyInv

\* A step that touches no window keeps what is said of windows.
LEMMA PlainKeeps ==
  ASSUME WindowInv, UNCHANGED AllVars
  PROVE  NotLoaded' /\ ReadyInv' /\ JumpedInv' /\ LoadingInv'
<1>1. /\ UNCHANGED <<logVars, box, placeVars, walkVars>> /\ UNCHANGED <<starting_offset, ending_offset>>
      /\ lowest' = lowest /\ highest' = highest /\ loads' = loads /\ loaded' = loaded /\ phase' = phase
      /\ input_streams' = input_streams /\ finish_reading' = finish_reading
      /\ next_lowest' = next_lowest /\ next_highest' = next_highest /\ current_offset' = current_offset
  BY DEF AllVars, mergeReaderVars, readerVars, windowVars, loadedVars, boundVars
<1>2. /\ path' = path /\ places' = places /\ Tame' = Tame /\ Vec' = Vec /\ box' = box /\ options' = options
      /\ \A k : S(k)' = S(k) /\ TimeAt(k)' = TimeAt(k)
      /\ Lo' = Lo /\ Hi' = Hi /\ High' = High /\ IsWindow' = IsWindow
  BY <1>1, PlanStays
<1>3. /\ \A k : IsDone(k)' = IsDone(k)
      /\ \A k : IsBetween(k)' = IsBetween(k)
      /\ \A k : Less(S(k), lowest)' = Less(S(k), lowest) /\ Less(High, S(k))' = Less(High, S(k))
      /\ \A k : Less(highest, S(k))' = Less(highest, S(k))
      /\ At(input_streams)' = At(input_streams)
  BY <1>1, <1>2 DEF IsDone, is_valid_early, IsBetween, Less, At
<1>4. S(Lo + 1)' = S(Lo + 1)
  BY <1>2 DEF S, Double
<1>5. \A c : LoadingAt(c)' = LoadingAt(c)
  BY <1>1, <1>2, <1>3, <1>4 DEF LoadingAt
<1>6. NotLoaded'
  BY <1>1 DEF WindowInv, NotLoaded
<1>7. ReadyInv'
  BY <1>1, <1>2, <1>3 DEF WindowInv, ReadyInv
<1>8. JumpedInv'
  BY <1>1, <1>2, <1>3 DEF WindowInv, JumpedInv
<1>9. LoadingInv'
  BY <1>1, <1>2, <1>5 DEF WindowInv, LoadingInv
<1> QED BY <1>6, <1>7, <1>8, <1>9

LEMMA WindowKeeps ==
  ASSUME WindowInv, [WindowNext]_AllVars
  PROVE  WindowInv'
<1>1. WalkInv'
  BY WalkKeeps DEF WindowInv
<1>2. loads \in Nat /\ (phase \in {"none", "opened", "getters", "handlers"} => loads = 0 /\ lowest = << >>)
  BY DEF WindowInv, NotLoaded
<1>3. CASE UNCHANGED AllVars
  BY <1>1, <1>3, PlainKeeps DEF WindowInv
<1>4. CASE open_window \/ initialize \/ processGetters \/ endGetters \/ runHandlers
  <2>1. /\ phase \in {"none", "opened", "getters", "handlers"}
        /\ phase' \in {"none", "opened", "getters", "handlers"}
        /\ loads' = loads /\ lowest' = lowest
    BY <1>4 DEF open_window, initialize, processGetters, endGetters, runHandlers, windowVars, loadedVars
  <2> QED BY <1>1, <1>2, <2>1 DEF WindowInv, NotLoaded, ReadyInv, JumpedInv, LoadingInv
<1>5. CASE endHandlers
  <2>1. phase = "handlers" /\ phase' = "ready" /\ loads' = loads /\ lowest' = lowest
    BY <1>5 DEF endHandlers, loadedVars
  <2> QED BY <1>1, <1>2, <2>1 DEF WindowInv, NotLoaded, ReadyInv, JumpedInv, LoadingInv
<1>6. CASE \E o \in 0 .. max_offset : jumpToOffset(o)
  <2>1. phase' = "jumped" /\ loads' \in Nat
    BY <1>2, <1>6 DEF jumpToOffset
  <2>2. JumpedInv'
    BY <1>6, JumpLands
  <2> QED BY <1>1, <2>1, <2>2 DEF WindowInv, NotLoaded, ReadyInv, LoadingInv
<1>7. CASE firstMessage
  <2>1. phase' \in {"loading", "ready"} /\ loads' = loads
    BY <1>7 DEF firstMessage
  <2> QED BY <1>1, <1>2, <1>7, <2>1, FirstLoads DEF WindowInv, NotLoaded, JumpedInv
<1>8. CASE noMessage
  <2>1. phase' = "ready" /\ loads' = loads
    BY <1>8 DEF noMessage
  <2> QED BY <1>1, <1>2, <1>8, <2>1, NoFirst DEF WindowInv, NotLoaded, JumpedInv, LoadingInv
<1>9. CASE loadMessage
  <2>1. phase' = "loading" /\ loads' = loads
    BY <1>9 DEF loadMessage
  <2> QED BY <1>1, <1>2, <1>9, <2>1, LoadGoesOn DEF WindowInv, NotLoaded, JumpedInv, ReadyInv
<1>10. CASE endLoad
  <2>1. phase' = "ready" /\ loads' = loads
    BY <1>10 DEF endLoad
  <2> QED BY <1>1, <1>2, <1>10, <2>1, LoadEnds DEF WindowInv, NotLoaded, JumpedInv, LoadingInv
<1> QED BY <1>3, <1>4, <1>5, <1>6, <1>7, <1>8, <1>9, <1>10 DEF WindowNext

\* Whatever windows are loaded in whatever order, what is noted as loaded in the
\* window has been handled, and nothing past it is taken for loaded.
THEOREM WindowInductive == LogSpec /\ phase # "merge" => []WindowInv
<1>1. WindowInit /\ phase # "merge" => WindowInv
  <2>1. SUFFICES ASSUME WindowInit, phase # "merge" PROVE WindowInv
    OBVIOUS
  <2>2. WalkInv
    BY <2>1, StartIsWalk
  <2>3. phase = "none" /\ loads = 0 /\ lowest = << >>
    BY <2>1 DEF WindowInit, WindowStart
  <2> QED BY <2>2, <2>3 DEF WindowInv, NotLoaded, ReadyInv, JumpedInv, LoadingInv
<1>2. WindowInv => phase # "merge"
  BY DEF WindowInv, WalkInv, WindowTypes
<1>3. /\ WindowInv
      /\ [(phase = "merge" /\ MergeReaderNext /\ UNCHANGED windowVars) \/ WindowNext]_AllVars
      => WindowInv'
  BY <1>2, WindowKeeps
<1> QED BY <1>1, <1>3, PTL DEF LogSpec, AllVars

\* loadWindow has called the handlers with every message of the window.
THEOREM WindowsComplete == LogSpec => []WindowComplete
<1>1. WindowInv => WindowComplete
  <2>1. SUFFICES ASSUME WindowInv, phase = "ready", loads > 0, Regular, FrameInEach,
                        NEW a \in InWindow(starting_offset, ending_offset), a[1] \in box,
                        options.process_always \/ is_valid_early(Message(a).time)
                 PROVE  a \in loaded
    BY DEF WindowComplete
  <2>2. \A k \in Lo .. Hi - 1 : IsDone(k)
    BY <2>1 DEF WindowInv, ReadyInv, Tame
  <2>3. PICK k \in Lo .. Hi - 1 : a = path[k]
    BY <2>1 DEF InWindow, Lo, Hi
  <2> QED BY <2>1, <2>2, <2>3 DEF IsDone, TimeAt
<1>2. phase = "merge" => WindowComplete
  BY DEF WindowComplete
<1>3. /\ phase = "merge"
      /\ [(phase = "merge" /\ MergeReaderNext /\ UNCHANGED windowVars) \/ WindowNext]_AllVars
      => (phase = "merge")'
  BY DEF AllVars, windowVars, WindowNext, open_window, initialize, processGetters, endGetters,
         runHandlers, endHandlers, jumpToOffset, firstMessage, noMessage, loadMessage, endLoad
<1>4. phase = "merge" \/ phase # "merge"
  OBVIOUS
<1> QED BY <1>1, <1>2, <1>3, <1>4, WindowInductive, PTL DEF LogSpec, AllVars

-----------------------------------------------------------------------------
(* Of a log of one file nothing is loaded twice but the frame a window     *)
(* begins with: there the order of states is that of positions.            *)

LEMMA OneFile ==
  ASSUME IsLog(log), Len(log) = 1
  PROVE  /\ DOMAIN log = {1}
         /\ \A s \in Vec : s[1] \in Int /\ DOMAIN s = {1}
         /\ \A s, t \in Vec : Less(s, t) <=> s[1] < t[1]
<1>1. DOMAIN log = {1}
  <2>1. DOMAIN log = 1 .. 1
    BY DEF IsLog
  <2> QED BY <2>1
<1>2. ASSUME NEW s \in Vec PROVE s[1] \in Int /\ DOMAIN s = {1}
  BY <1>1 DEF Vec
<1>3. ASSUME NEW s \in Vec, NEW t \in Vec PROVE Less(s, t) <=> s[1] < t[1]
  <2>1. 1 .. 1 - 1 = {}
    OBVIOUS
  <2>2. DOMAIN s = {1}
    BY <1>2
  <2> QED BY <2>1, <2>2 DEF Less
<1> QED BY <1>1, <1>2, <1>3

\* A message is gone past once.
LEMMA PathOnce ==
  ASSUME WalkInv, AtEnd, NEW j \in 1 .. Len(path), NEW k \in 1 .. Len(path), path[j] = path[k]
  PROVE  j = k
<1>1. Walk /\ IsLog(log) /\ Len(path) \in Nat
  BY WalkedIs
<1>2. ASSUME NEW g \in 1 .. Len(path), NEW h \in 1 .. Len(path), g < h PROVE path[g] # path[h]
  <2>1. /\ Goes(places[g], path[g], places[g + 1]) /\ IsPlace(places[g + 1])
        /\ Goes(places[h], path[h], places[h + 1]) /\ IsPlace(places[h])
    BY <1>1, WalkStep
  <2>2. PICK f \in DOMAIN log, i \in Nat : path[g] = <<f, i>>
    BY <2>1 DEF Goes
  <2>3. places[g + 1][f] = i + 1
    BY <2>1, <2>2 DEF Goes
  <2>4. g + 1 \in 1 .. Len(path) + 1 /\ h \in 1 .. Len(path) + 1 /\ g + 1 <= h
    BY <1>1, <1>2
  <2>5. places[g + 1][f] <= places[h][f] /\ places[h][f] \in Nat
    BY <1>1, <2>1, <2>4, WalkRises DEF IsPlace
  <2>6. path[h] = <<f, i>> => places[h][f] <= i
    BY <2>1 DEF Goes, ComesTo
  <2> QED BY <2>2, <2>3, <2>5, <2>6
<1> QED BY <1>1, <1>2

\* keepLoadedStates leaves out nothing of the window that was loaded.
LEMMA KeepsWithin ==
  ASSUME WalkInv, AtEnd, Single, IsWindow, keepLoadedStates(starting_offset, ending_offset),
         lowest = << >> \/ (lowest \in Vec /\ highest \in Vec), Lo <= Len(path)
  PROVE  /\ lowest' \in Vec /\ highest' \in Vec
         /\ \A k \in 1 .. Len(path) :
              k \in Lo .. Hi - 1 /\ lowest # << >> /\ IsWithin(k, lowest, highest)
                => IsWithin(k, lowest', highest')
<1>1. /\ Walk /\ IsLog(log) /\ Len(path) \in Nat /\ max_offset \in Nat /\ Regular /\ Len(log) = 1
      /\ WindowSize \in Nat
  BY WalkedIs, WindowSizeAssumption DEF Single
<1>2. /\ starting_offset \in Nat /\ starting_offset <= max_offset + 1
      /\ ending_offset + 1 \in Nat /\ ending_offset + 1 <= max_offset + 1
  BY <1>1 DEF IsWindow
<1>3. /\ DOMAIN log = {1} /\ \A s \in Vec : s[1] \in Int /\ DOMAIN s = {1}
      /\ \A s, t \in Vec : Less(s, t) <=> s[1] < t[1]
  BY <1>1, OneFile
<1>4. Lo \in 1 .. Len(path) /\ Hi \in 1 .. Len(path) + 1
  BY <1>1, <1>2, PathFromIs DEF Lo, Hi
<1>5. lower_bound(starting_offset) = S(Lo) /\ S(Lo) \in Vec
  <2>1. Lo \in 1 .. Len(path) + 1
    BY <1>1, <1>4
  <2> QED BY <1>1, <1>2, <2>1, BoundPath, StatesRise DEF Lo
<1>6. PICK q : /\ IsPlace(q) /\ lower_bound(ending_offset + 1) = Double(q)
               /\ \A f \in DOMAIN log : places[Hi][f] <= q[f]
  BY <1>1, <1>2, BoundPlace DEF Hi
<1>7. /\ High = [Double(q) EXCEPT ![1] = IF 2 * q[1] = 2 THEN Wrapped ELSE 2 * q[1] - 1]
      /\ High \in Vec /\ q[1] \in Nat
  <2>1. q[1] \in Nat /\ Double(q) = [f \in DOMAIN log |-> 2 * q[f]]
    BY <1>3, <1>6 DEF IsPlace, Double
  <2>2. Double(q)[1] = 2 * q[1]
    BY <1>3, <2>1
  <2>3. High = [Double(q) EXCEPT ![1] = IF 2 * q[1] = 2 THEN Wrapped ELSE 2 * q[1] - 1]
    BY <1>6, <2>2 DEF High, OneLess
  <2>4. \A f \in DOMAIN log : High[f] \in Int
    BY <1>3, <2>1, <2>3 DEF Wrapped
  <2> QED BY <2>1, <2>3, <2>4 DEF Vec
<1>8. ASSUME NEW k \in 1 .. Len(path), k \in Lo .. Hi - 1
      PROVE  S(k) \in Vec /\ S(Lo)[1] <= S(k)[1] /\ S(k)[1] <= High[1]
  <2>1. k \in 1 .. Len(path) + 1 /\ Lo \in 1 .. Len(path) + 1 /\ Lo <= k /\ k < Hi /\ k <= Hi
    BY <1>1, <1>4, <1>8
  <2>2. places[Lo][1] <= places[k][1] /\ places[k][1] < places[Hi][1]
    BY <1>1, <1>3, <1>4, <2>1, WalkRises
  <2>3. /\ places[Lo][1] \in Nat /\ places[k][1] \in Nat \ {0} /\ places[Hi][1] \in Nat
        /\ S(Lo)[1] = 2 * places[Lo][1] /\ S(k)[1] = 2 * places[k][1]
    BY <1>1, <1>3, <1>4, <2>1 DEF Walk, IsPlace, S, Double
  <2>4. q[1] >= places[k][1] + 1 /\ q[1] >= 2
    BY <1>3, <1>6, <1>7, <2>2, <2>3
  <2>5. High[1] = 2 * q[1] - 1
    BY <1>3, <1>7, <2>4 DEF Double
  <2>6. S(k) \in Vec
    BY <2>1, StatesRise
  <2>7. S(Lo)[1] <= S(k)[1]
    BY <2>2, <2>3
  <2>8. S(k)[1] <= High[1]
    BY <1>7, <2>3, <2>4, <2>5
  <2> QED BY <2>6, <2>7, <2>8
<1> DEFINE low == S(Lo)
           high == High
           from == IF lowest = << >> THEN high ELSE lowest
           to == IF lowest = << >> THEN low ELSE highest
           apart == Less(to, low) \/ Less(high, from)
<1>9. /\ lowest' = IF apart THEN high ELSE MaxState(from, low)
      /\ highest' = IF apart THEN low ELSE MinState(to, high)
  BY <1>5 DEF keepLoadedStates, High
<1>10. from \in Vec /\ to \in Vec /\ low \in Vec /\ high \in Vec
  BY <1>5, <1>7
<1>11. lowest' \in Vec /\ highest' \in Vec
  <2> HIDE DEF low, high, from, to
  <2> QED BY <1>9, <1>10 DEF MaxState, MinState
<1>12. ASSUME NEW k \in 1 .. Len(path), k \in Lo .. Hi - 1, lowest # << >>, IsWithin(k, lowest, highest)
       PROVE  IsWithin(k, lowest', highest')
  <2>1. from = lowest /\ to = highest
    BY <1>12
  <2> HIDE DEF low, high, from, to
  <2>2. /\ low[1] <= S(k)[1] /\ S(k)[1] <= high[1] /\ from[1] <= S(k)[1] /\ S(k)[1] <= to[1]
        /\ S(k)[1] \in Int /\ low[1] \in Int /\ high[1] \in Int /\ from[1] \in Int /\ to[1] \in Int
    BY <1>3, <1>8, <1>10, <1>12, <2>1 DEF IsWithin, low, high
  <2>3. ~apart
    BY <1>3, <1>10, <2>2
  <2>4. lowest' \in {from, low} /\ highest' \in {to, high}
    BY <1>9, <2>3 DEF MaxState, MinState
  <2> QED BY <2>2, <2>4 DEF IsWithin
<1> QED BY <1>11, <1>12

LEMMA SingleStays ==
  ASSUME UNCHANGED <<logVars, box, placeVars, walkVars>>
  PROVE  /\ Single' = Single /\ End' = End /\ Vec' = Vec /\ Len(path)' = Len(path)
         /\ \A a : Message(a)' = Message(a)
         /\ \A k : S(k)' = S(k)
         /\ \A k : IsKept(k)' <=> path[k] \in loaded' /\ Message(path[k]).type # FrameType
<1>1. /\ log' = log /\ path' = path /\ stateMap' = stateMap /\ max_offset' = max_offset
      /\ Regular' = Regular /\ Vec' = Vec /\ \A k : S(k)' = S(k)
  BY PlanStays DEF placeVars
<1>2. Single' = Single /\ End' = End /\ \A a : Message(a)' = Message(a)
  BY <1>1 DEF Single, End, Message
<1>3. \A k : IsKept(k)' <=> path[k] \in loaded' /\ Message(path[k]).type # FrameType
  BY <1>1, <1>2 DEF IsKept
<1> QED BY <1>1, <1>2, <1>3

LEMMA OneMinMax ==
  ASSUME IsLog(log), Len(log) = 1, NEW s \in Vec, NEW t \in Vec
  PROVE  /\ MinState(s, t) \in Vec /\ MinState(s, t)[1] <= s[1] /\ MinState(s, t)[1] <= t[1]
         /\ MaxState(s, t) \in Vec /\ s[1] <= MaxState(s, t)[1] /\ t[1] <= MaxState(s, t)[1]
         /\ s[1] \in Int /\ t[1] \in Int /\ MinState(s, t)[1] \in Int /\ MaxState(s, t)[1] \in Int
         /\ s # << >>
<1>1. s[1] \in Int /\ t[1] \in Int /\ (Less(s, t) <=> s[1] < t[1]) /\ (Less(t, s) <=> t[1] < s[1])
  BY OneFile
<1>2. DOMAIN s = {1}
  BY OneFile
<1>3. DOMAIN << >> = {}
  OBVIOUS
<1> QED BY <1>1, <1>2, <1>3 DEF MinState, MaxState

LEMMA JumpKept ==
  ASSUME WalkInv, KeptInv, NEW o \in 0 .. max_offset, jumpToOffset(o)
  PROVE  KeptInv'
<1>1. /\ phase = "ready" /\ phase' = "jumped" /\ twice' = twice
      /\ loaded' = loaded \cap InWindow(starting_offset', ending_offset')
      /\ lowest' = lowest /\ highest' = highest
      /\ UNCHANGED <<logVars, box, placeVars, walkVars>> /\ AtEnd /\ AtEnd'
      /\ starting_offset' = (IF o >= WindowSize THEN o - WindowSize ELSE 0)
      /\ ending_offset' = (IF o + WindowSize <= max_offset THEN o + WindowSize ELSE max_offset)
  BY DEF jumpToOffset, loadedVars, Unread, AtEnd
<1>2. SUFFICES ASSUME Single' PROVE KeptInv'
  BY <1>1 DEF KeptInv
<1>3. /\ path' = path /\ places' = places /\ max_offset' = max_offset
      /\ Single /\ End' = End /\ Vec' = Vec /\ Len(path)' = Len(path)
      /\ \A a : Message(a)' = Message(a)
      /\ \A k : S(k)' = S(k)
      /\ \A k : IsKept(k)' <=> path[k] \in loaded' /\ Message(path[k]).type # FrameType
      /\ \A u : PathFrom(u)' = PathFrom(u)
  BY <1>1, <1>2, PlanStays, SingleStays
<1>4. /\ IsLog(log) /\ Len(path) \in Nat /\ max_offset \in Nat /\ Regular /\ Walk /\ Ended
      /\ WindowSize \in Nat
  BY <1>1, <1>3, WalkedIs, WindowSizeAssumption DEF Single
<1>5. IsWindow'
  <2>1. o \in 0 .. max_offset'
    BY <1>3
  <2> QED BY <1>1, <1>3, <2>1 DEF IsWindow
<1>6. /\ starting_offset' \in Nat /\ starting_offset' <= max_offset + 1 /\ ending_offset' + 1 \in Int
      /\ \E p : IsPlace(p) /\ lower_bound(starting_offset') = Double(p) /\ At(input_streams') = p
  BY <1>1, <1>4, JumpKeeps
<1>7. Lo' = PathFrom(starting_offset') /\ Hi' = PathFrom(ending_offset' + 1)
  BY <1>3 DEF Lo, Hi
<1>8. PICK lo \in 1 .. Len(path) + 1, hi \in 1 .. Len(path) + 1 :
        lo = PathFrom(starting_offset') /\ hi = PathFrom(ending_offset' + 1)
  <2>1. PathFrom(ending_offset' + 1) \in 1 .. Len(path) + 1
    BY <1>1, <1>6, PathFromIs
  <2>2. starting_offset' \in Int
    BY <1>6
  <2>3. PathFrom(starting_offset') \in 1 .. Len(path) + 1
    BY <1>1, <2>2, PathFromIs
  <2> QED BY <2>1, <2>3
<1>9. At(input_streams') = IF lo <= Len(path) THEN places[lo] ELSE End
  <2>1. PICK p : IsPlace(p) /\ lower_bound(starting_offset') = Double(p) /\ At(input_streams') = p
    BY <1>6
  <2>2. CASE lo <= Len(path)
    <3>1. IsPlace(places[lo]) /\ Double(p) = Double(places[lo])
      BY <1>1, <1>4, <1>6, <1>8, <2>1, <2>2, BoundPath DEF S, Walk
    <3> QED BY <2>1, <2>2, <3>1, DoubleOnce
  <2>3. CASE ~(lo <= Len(path))
    <3>1. lo = Len(path) + 1
      BY <1>4, <1>8, <2>3
    <3>2. IsPlace(End) /\ Double(p) = Double(End)
      BY <1>1, <1>4, <1>6, <1>8, <2>1, <3>1, BoundPath DEF Ended
    <3> QED BY <2>1, <2>3, <3>2, DoubleOnce
  <2> QED BY <2>2, <2>3
<1>10. ASSUME NEW k \in 1 .. Len(path), IsKept(k)'
       PROVE  k \in lo .. hi - 1 /\ lowest # << >> /\ IsWithin(k, lowest, highest)
  <2>1. path[k] \in loaded /\ path[k] \in InWindow(starting_offset', ending_offset')
        /\ Message(path[k]).type # FrameType
    BY <1>1, <1>3, <1>10
  <2>2. PICK j \in lo .. hi - 1 : path[k] = path[j]
    BY <1>8, <2>1 DEF InWindow
  <2>3. j \in 1 .. Len(path)
    BY <1>4, <1>8
  <2>4. j = k
    BY <1>1, <2>2, <2>3, PathOnce
  <2>5. IsKept(k)
    BY <2>1 DEF IsKept
  <2> QED BY <1>1, <1>3, <2>2, <2>4, <2>5 DEF KeptInv
<1>11. \A k \in 1 .. Len(path)' : IsKept(k)' =>
         k \in Lo' .. Hi' - 1 /\ lowest' # << >> /\ IsWithin(k, lowest, highest)'
  BY <1>1, <1>3, <1>7, <1>8, <1>10 DEF IsWithin
<1>12. At(input_streams)' = IF Lo' <= Len(path)' THEN places'[Lo'] ELSE End'
  BY <1>3, <1>7, <1>8, <1>9
<1>13. /\ \A a \in twice' : Message(a)'.type = FrameType
       /\ lowest' = << >> \/ (lowest' \in Vec' /\ highest' \in Vec')
  BY <1>1, <1>3 DEF KeptInv
<1> QED BY <1>1, <1>5, <1>11, <1>12, <1>13 DEF KeptInv

LEMMA FirstKept ==
  ASSUME WalkInv, KeptInv, firstMessage
  PROVE  KeptInv'
<1>1. /\ phase = "jumped" /\ Found /\ GoPast /\ Load(Chosen)
      /\ UNCHANGED <<logVars, box, placeVars, walkVars>> /\ AtEnd /\ log' = log
      /\ IF IsFrame(Chosen)
         THEN /\ phase' = "loading" /\ keepLoadedStates(starting_offset, ending_offset)
              /\ next_lowest' = StateOf(input_streams') /\ next_highest' = StateOf(input_streams')
         ELSE phase' = "ready" /\ UNCHANGED <<current_offset, loadedVars>>
  BY DEF firstMessage, Unread, AtEnd, logVars
<1>2. SUFFICES ASSUME Single' PROVE KeptInv'
  BY <1>1 DEF KeptInv
<1>3. /\ path' = path /\ places' = places
      /\ Single /\ End' = End /\ Vec' = Vec /\ Len(path)' = Len(path)
      /\ \A a : Message(a)' = Message(a)
      /\ \A k : S(k)' = S(k)
      /\ \A k : IsKept(k)' <=> path[k] \in loaded' /\ Message(path[k]).type # FrameType
  BY <1>1, <1>2, PlanStays, SingleStays
<1>4. /\ WindowTypes /\ IsLog(log) /\ Len(path) \in Nat /\ Regular /\ Walk /\ Ended /\ Len(log) = 1
      /\ phase # "none"
  BY <1>1, <1>3, WalkedIs DEF Single
<1>5. /\ IsWindow /\ At(input_streams) = (IF Lo <= Len(path) THEN places[Lo] ELSE End)
      /\ \A k \in 1 .. Len(path) : IsKept(k) =>
           k \in Lo .. Hi - 1 /\ lowest # << >> /\ IsWithin(k, lowest, highest)
      /\ lowest = << >> \/ (lowest \in Vec /\ highest \in Vec)
      /\ \A a \in twice : Message(a).type = FrameType
  BY <1>1, <1>3 DEF KeptInv
<1>6. starting_offset \in Int
  <2>1. max_offset \in Nat /\ WindowSize \in Nat
    BY <1>1, WalkedIs, WindowSizeAssumption
  <2> QED BY <1>5, <2>1 DEF IsWindow
<1>7. Lo <= Len(path)
  <2>1. SUFFICES ASSUME ~(Lo <= Len(path)) PROVE FALSE
    OBVIOUS
  <2>2. Stops(End, End) /\ IsPlace(End) /\ At(input_streams) = End
    BY <1>1, <1>4, <1>5, <2>1, StopsStays DEF Ended
  <2>3. Goes(At(input_streams), Chosen, At(input_streams'))
    BY <1>1, <1>4, StepIs
  <2> QED BY <1>4, <2>2, <2>3, GoesOrStops
<1>8. PICK lo \in 1 .. Len(path) : lo = Lo /\ IsFrameAt(lo) /\ lo \in 1 .. Len(path) + 1
  <2>1. Lo \in 1 .. Len(path) + 1 /\ IsFrameAt(Lo)
    BY <1>1, <1>6, <1>7, PathFromIs DEF Lo
  <2> QED BY <1>4, <1>7, <2>1
<1>9. /\ lo + 1 \in 1 .. Len(path) + 1 /\ Chosen = path[lo]
      /\ At(input_streams') = places[lo + 1] /\ StateOf(input_streams') = S(lo + 1)
      /\ IsFrame(Chosen) /\ Message(Chosen).type = FrameType
  <2>1. At(input_streams) = places[lo]
    BY <1>5, <1>7, <1>8
  <2> QED BY <1>1, <1>4, <1>8, <2>1, CursorMoves DEF IsFrameAt
<1>10. /\ lowest' \in Vec /\ highest' \in Vec
       /\ \A k \in 1 .. Len(path) :
            k \in Lo .. Hi - 1 /\ lowest # << >> /\ IsWithin(k, lowest, highest)
              => IsWithin(k, lowest', highest')
  BY <1>1, <1>3, <1>5, <1>7, <1>9, KeepsWithin
<1>11. /\ phase' = "loading" /\ next_lowest' = S(lo + 1) /\ next_highest' = S(lo + 1)
       /\ S(lo + 1) \in Vec /\ lowest' # << >>
  BY <1>1, <1>4, <1>9, <1>10, StatesRise, OneMinMax
<1>12. ASSUME NEW k \in 1 .. Len(path)', IsKept(k)' PROVE IsWithin(k, lowest, highest)'
  <2>1. k \in 1 .. Len(path) /\ path[k] \in loaded /\ Message(path[k]).type # FrameType
    BY <1>1, <1>3, <1>9, <1>12 DEF Load
  <2>2. IsWithin(k, lowest', highest')
    BY <1>5, <1>10, <2>1 DEF IsKept
  <2> QED BY <1>3, <2>2 DEF IsWithin
<1>13. \A a \in twice' : Message(a)'.type = FrameType
  BY <1>1, <1>3, <1>5, <1>9 DEF Load
<1>14. lo + 1 \in 1 .. Len(path)' + 1 /\ At(input_streams)' = places'[lo + 1]
  BY <1>3, <1>9
<1> QED BY <1>3, <1>10, <1>11, <1>12, <1>13, <1>14 DEF KeptInv

LEMMA LoadKept ==
  ASSUME WalkInv, KeptInv, loadMessage
  PROVE  KeptInv'
<1>1. /\ phase = "loading" /\ phase' = "loading" /\ Found /\ GoPast
      /\ UNCHANGED <<logVars, box, placeVars, walkVars>> /\ AtEnd /\ log' = log
      /\ lowest' = lowest /\ highest' = highest
      /\ IF isStateLoaded(StateOf(input_streams))
         THEN UNCHANGED <<loaded, twice, next_lowest, next_highest>>
         ELSE /\ Load(Chosen)
              /\ next_lowest' = MinState(next_lowest, StateOf(input_streams))
              /\ next_highest' = MaxState(next_highest, StateOf(input_streams))
  BY DEF loadMessage, Unread, AtEnd, logVars, getState
<1>2. SUFFICES ASSUME Single' PROVE KeptInv'
  BY <1>1 DEF KeptInv
<1>3. /\ path' = path /\ places' = places
      /\ Single /\ Vec' = Vec /\ Len(path)' = Len(path)
      /\ \A a : Message(a)' = Message(a)
      /\ \A k : S(k)' = S(k)
      /\ \A k : IsKept(k)' <=> path[k] \in loaded' /\ Message(path[k]).type # FrameType
  BY <1>1, <1>2, PlanStays, SingleStays
<1>4. /\ IsLog(log) /\ Len(path) \in Nat /\ Len(log) = 1
  BY <1>1, <1>3, WalkedIs DEF Single
<1>5. /\ lowest # << >> /\ lowest \in Vec /\ highest \in Vec
      /\ next_lowest \in Vec /\ next_highest \in Vec
      /\ \A a \in twice : Message(a).type = FrameType
  BY <1>1, <1>3 DEF KeptInv
<1>6. PICK c \in 1 .. Len(path) + 1 :
        /\ At(input_streams) = places[c]
        /\ \A k \in 1 .. Len(path) : IsKept(k) =>
             \/ IsWithin(k, lowest, highest)
             \/ k < c /\ IsWithin(k, next_lowest, next_highest)
  BY <1>1, <1>3 DEF KeptInv
<1>7. /\ c \in 1 .. Len(path) /\ c + 1 \in 1 .. Len(path) + 1 /\ Chosen = path[c]
      /\ At(input_streams') = places[c + 1] /\ StateOf(input_streams) = S(c) /\ S(c) \in Vec
  BY <1>1, <1>6, CursorMoves, StatesRise
<1>8. isStateLoaded(S(c)) <=> IsWithin(c, lowest, highest)
  <2>1. DOMAIN S(c) = {1}
    BY <1>4, <1>7, OneFile
  <2> QED BY <2>1 DEF isStateLoaded, IsWithin
<1>9. /\ next_lowest' \in Vec /\ next_highest' \in Vec
      /\ \A k \in 1 .. Len(path) : IsWithin(k, next_lowest, next_highest)
                                     => IsWithin(k, next_lowest', next_highest')
      /\ ~isStateLoaded(S(c)) => IsWithin(c, next_lowest', next_highest')
  <2>1. CASE isStateLoaded(S(c))
    BY <1>1, <1>5, <1>7, <2>1
  <2>2. CASE ~isStateLoaded(S(c))
    <3>1. next_lowest' = MinState(next_lowest, S(c)) /\ next_highest' = MaxState(next_highest, S(c))
      BY <1>1, <1>7, <2>2
    <3>2. /\ next_lowest' \in Vec /\ next_lowest'[1] <= next_lowest[1] /\ next_lowest'[1] <= S(c)[1]
          /\ next_lowest'[1] \in Int /\ next_lowest[1] \in Int
      BY <1>4, <1>5, <1>7, <3>1, OneMinMax
    <3>3. /\ next_highest' \in Vec /\ next_highest[1] <= next_highest'[1] /\ S(c)[1] <= next_highest'[1]
          /\ next_highest'[1] \in Int /\ next_highest[1] \in Int
      BY <1>4, <1>5, <1>7, <3>1, OneMinMax
    <3>4. \A k \in 1 .. Len(path) : S(k)[1] \in Int
      BY <1>4, OneFile, StatesRise, <1>1
    <3> QED BY <3>2, <3>3, <3>4 DEF IsWithin
  <2> QED BY <2>1, <2>2
<1>10. ASSUME NEW k \in 1 .. Len(path), IsKept(k)'
       PROVE  \/ IsWithin(k, lowest, highest)
              \/ k < c + 1 /\ IsWithin(k, next_lowest', next_highest')
  <2>1. IsKept(k) \/ (k = c /\ ~isStateLoaded(S(c)))
    <3>1. path[k] \in loaded \/ (path[k] = path[c] /\ ~isStateLoaded(S(c)))
      BY <1>1, <1>3, <1>7, <1>10 DEF Load
    <3>2. path[k] = path[c] => k = c
      BY <1>1, <1>7, PathOnce
    <3> QED BY <1>3, <1>10, <3>1, <3>2 DEF IsKept
  <2>2. k < c => k < c + 1
    BY <1>4, <1>7
  <2>3. c < c + 1
    BY <1>7
  <2> QED BY <1>6, <1>9, <2>1, <2>2, <2>3
<1>11. \A a \in twice' : Message(a)'.type = FrameType
  <2>1. twice' = twice \/ (twice' = twice \cup {path[c]} /\ path[c] \in loaded /\ ~isStateLoaded(S(c)))
    BY <1>1, <1>7 DEF Load
  <2>2. path[c] \in loaded /\ Message(path[c]).type # FrameType => isStateLoaded(S(c))
    <3>1. ~(c < c)
      BY <1>7
    <3> QED BY <1>6, <1>7, <1>8, <3>1 DEF IsKept
  <2> QED BY <1>3, <1>5, <2>1, <2>2
<1>12. /\ c + 1 \in 1 .. Len(path)' + 1 /\ At(input_streams)' = places'[c + 1]
       /\ \A k \in 1 .. Len(path)' : IsKept(k)' =>
             \/ IsWithin(k, lowest, highest)'
             \/ k < c + 1 /\ IsWithin(k, next_lowest, next_highest)'
  BY <1>1, <1>3, <1>7, <1>10 DEF IsWithin
<1> QED BY <1>1, <1>3, <1>5, <1>9, <1>11, <1>12 DEF KeptInv

LEMMA EndKept ==
  ASSUME WalkInv, KeptInv, endLoad
  PROVE  KeptInv'
<1>1. /\ phase = "loading" /\ phase' = "ready"
      /\ UNCHANGED <<logVars, box, placeVars, walkVars>> /\ AtEnd /\ loaded' = loaded /\ twice' = twice
      /\ lowest' = MinState(lowest, next_lowest') /\ highest' = MaxState(highest, next_highest')
      /\ \/ UNCHANGED <<next_lowest, next_highest>>
         \/ /\ Ends
            /\ next_lowest' = MinState(next_lowest, StateOf(input_streams))
            /\ next_highest' = MaxState(next_highest, StateOf(input_streams))
  BY DEF endLoad, Unread, AtEnd, logVars, Finish, getState
<1>2. SUFFICES ASSUME Single' PROVE KeptInv'
  BY <1>1 DEF KeptInv
<1>3. /\ Single /\ Vec' = Vec /\ Len(path)' = Len(path)
      /\ \A a : Message(a)' = Message(a)
      /\ \A k : S(k)' = S(k)
      /\ \A k : IsKept(k)' <=> path[k] \in loaded' /\ Message(path[k]).type # FrameType
  BY <1>1, <1>2, PlanStays, SingleStays
<1>4. /\ IsLog(log) /\ Len(path) \in Nat /\ Len(log) = 1
  BY <1>1, <1>3, WalkedIs DEF Single
<1>5. /\ lowest \in Vec /\ highest \in Vec /\ next_lowest \in Vec /\ next_highest \in Vec
      /\ \A a \in twice : Message(a).type = FrameType
  BY <1>1, <1>3 DEF KeptInv
<1>6. PICK c \in 1 .. Len(path) + 1 :
        /\ At(input_streams) = places[c]
        /\ \A k \in 1 .. Len(path) : IsKept(k) =>
             IsWithin(k, lowest, highest) \/ IsWithin(k, next_lowest, next_highest)
  BY <1>1, <1>3 DEF KeptInv
<1>7. /\ next_lowest' \in Vec /\ next_lowest'[1] <= next_lowest[1]
      /\ next_highest' \in Vec /\ next_highest[1] <= next_highest'[1]
      /\ next_lowest[1] \in Int /\ next_highest[1] \in Int
  <2>1. next_lowest[1] \in Int /\ next_highest[1] \in Int
    BY <1>4, <1>5, OneFile
  <2>2. CASE UNCHANGED <<next_lowest, next_highest>>
    BY <1>5, <2>1, <2>2
  <2>3. CASE /\ Ends
             /\ next_lowest' = MinState(next_lowest, StateOf(input_streams))
             /\ next_highest' = MaxState(next_highest, StateOf(input_streams))
    <3>1. StateOf(input_streams) = S(c) /\ S(c) \in Vec
      BY <1>1, <1>6, <2>3, CursorEnds, StatesRise
    <3> QED BY <1>4, <1>5, <2>1, <2>3, <3>1, OneMinMax
  <2> QED BY <1>1, <2>2, <2>3
<1>8. /\ lowest' \in Vec /\ lowest'[1] <= lowest[1] /\ lowest'[1] <= next_lowest'[1]
      /\ lowest'[1] \in Int /\ lowest[1] \in Int /\ next_lowest'[1] \in Int /\ lowest' # << >>
  BY <1>1, <1>4, <1>5, <1>7, OneMinMax
<1>9. /\ highest' \in Vec /\ highest[1] <= highest'[1] /\ next_highest'[1] <= highest'[1]
      /\ highest'[1] \in Int /\ highest[1] \in Int /\ next_highest'[1] \in Int
  BY <1>1, <1>4, <1>5, <1>7, OneMinMax
<1>10. ASSUME NEW k \in 1 .. Len(path), IsKept(k) PROVE IsWithin(k, lowest', highest')
  <2>1. S(k)[1] \in Int
    BY <1>1, <1>4, OneFile, StatesRise
  <2>2. CASE IsWithin(k, lowest, highest)
    BY <1>8, <1>9, <2>1, <2>2 DEF IsWithin
  <2>3. CASE IsWithin(k, next_lowest, next_highest)
    BY <1>7, <1>8, <1>9, <2>1, <2>3 DEF IsWithin
  <2> QED BY <1>6, <1>10, <2>2, <2>3
<1>11. \A k \in 1 .. Len(path)' : IsKept(k)' => IsWithin(k, lowest, highest)'
  BY <1>1, <1>3, <1>10 DEF IsWithin, IsKept
<1> QED BY <1>1, <1>3, <1>5, <1>8, <1>9, <1>11 DEF KeptInv

\* What calls no handler and leaves alone what counts as loaded.
LEMMA IdleKept ==
  ASSUME WalkInv, KeptInv, UNCHANGED <<logVars, box, placeVars, walkVars>>, AtEnd,
         phase' = "ready" \/ (phase' = phase /\ UNCHANGED <<boundVars, input_streams>>),
         phase \in {"handlers", "ready", "jumped"} \/ phase' = phase,
         UNCHANGED <<loadedVars, loaded, twice>>
  PROVE  KeptInv'
<1>1. /\ lowest' = lowest /\ highest' = highest /\ next_lowest' = next_lowest
      /\ next_highest' = next_highest /\ loaded' = loaded /\ twice' = twice
      /\ path' = path /\ places' = places
  BY DEF loadedVars, walkVars
<1>2. phase' \in {"none", "opened", "getters", "handlers"} => phase' = phase
  OBVIOUS
<1>3. SUFFICES ASSUME Single' PROVE KeptInv'
  BY <1>1, <1>2 DEF KeptInv
<1>4. /\ Single /\ End' = End /\ Vec' = Vec /\ Len(path)' = Len(path)
      /\ \A a : Message(a)' = Message(a)
      /\ \A k : S(k)' = S(k)
      /\ \A k : IsKept(k)' <=> path[k] \in loaded' /\ Message(path[k]).type # FrameType
  BY <1>3, SingleStays
<1>5. \A k : IsKept(k)' <=> IsKept(k)
  BY <1>1, <1>4 DEF IsKept
<1>6. \A k : /\ IsWithin(k, lowest, highest)' <=> IsWithin(k, lowest, highest)
             /\ IsWithin(k, next_lowest, next_highest)' <=> IsWithin(k, next_lowest, next_highest)
  BY <1>1, <1>4 DEF IsWithin
<1>7. /\ \A a \in twice' : Message(a)'.type = FrameType
      /\ lowest' = << >> \/ (lowest' \in Vec' /\ highest' \in Vec')
  BY <1>1, <1>4 DEF KeptInv
<1>8. CASE phase \in {"handlers", "ready", "jumped"} /\ phase' = "ready"
  <2>1. \A k \in 1 .. Len(path) : IsKept(k) => lowest # << >> /\ IsWithin(k, lowest, highest)
    <3>1. CASE phase = "handlers"
      BY <3>1 DEF KeptInv, IsKept
    <3>2. CASE phase \in {"ready", "jumped"}
      BY <1>4, <3>2 DEF KeptInv
    <3> QED BY <1>8, <3>1, <3>2
  <2> QED BY <1>1, <1>4, <1>5, <1>6, <1>7, <1>8, <2>1 DEF KeptInv
<1>9. CASE phase' = phase /\ UNCHANGED <<boundVars, input_streams>>
  <2>1. Lo' = Lo /\ Hi' = Hi /\ IsWindow' = IsWindow /\ At(input_streams)' = At(input_streams)
    BY <1>9, PlanStays DEF boundVars, At
  <2>2. /\ phase' \in {"none", "opened", "getters", "handlers"} =>
             loaded' = {} /\ twice' = {} /\ lowest' = << >>
        /\ phase' \in {"ready", "jumped"} => \A k \in 1 .. Len(path)' : IsKept(k)' =>
             lowest' # << >> /\ IsWithin(k, lowest, highest)'
    BY <1>1, <1>4, <1>5, <1>6, <1>9 DEF KeptInv
  <2>3. phase' = "jumped" =>
          /\ IsWindow' /\ At(input_streams)' = IF Lo' <= Len(path)' THEN places'[Lo'] ELSE End'
          /\ \A k \in 1 .. Len(path)' : IsKept(k)' => k \in Lo' .. Hi' - 1
    BY <1>1, <1>4, <1>5, <1>9, <2>1 DEF KeptInv
  <2>4. phase' = "loading" =>
          /\ lowest' # << >> /\ next_lowest' \in Vec' /\ next_highest' \in Vec'
          /\ \E c \in 1 .. Len(path)' + 1 :
               /\ At(input_streams)' = places'[c]
               /\ \A k \in 1 .. Len(path)' : IsKept(k)' =>
                    \/ IsWithin(k, lowest, highest)'
                    \/ k < c /\ IsWithin(k, next_lowest, next_highest)'
    BY <1>1, <1>4, <1>5, <1>6, <1>9, <2>1 DEF KeptInv
  <2> QED BY <1>7, <2>2, <2>3, <2>4 DEF KeptInv
<1> QED BY <1>8, <1>9

LEMMA KeptKeeps ==
  ASSUME WalkInv, KeptInv, [WindowNext]_AllVars
  PROVE  KeptInv'
<1>1. CASE UNCHANGED AllVars
  <2>1. /\ UNCHANGED <<logVars, box, placeVars, walkVars>>
        /\ phase' = phase /\ UNCHANGED <<boundVars, input_streams>> /\ UNCHANGED <<loadedVars, loaded, twice>>
    BY <1>1 DEF AllVars, mergeReaderVars, readerVars, windowVars
  <2>2. CASE AtEnd
    BY <2>1, <2>2, IdleKept
  <2>3. CASE ~AtEnd
    <3>1. phase \in {"none", "opened", "getters"}
      BY <2>3 DEF AtEnd, WalkInv, WindowTypes
    <3>2. loaded' = {} /\ twice' = {} /\ lowest' = << >> /\ phase' \in {"none", "opened", "getters"}
      BY <2>1, <3>1 DEF KeptInv, loadedVars
    <3> QED BY <3>2 DEF KeptInv, IsKept
  <2> QED BY <2>2, <2>3
<1>2. CASE open_window \/ initialize \/ processGetters \/ endGetters \/ runHandlers
  <2>1. /\ phase \in {"none", "opened", "getters", "handlers"}
        /\ phase' \in {"none", "opened", "getters", "handlers"}
        /\ lowest' = lowest /\ loaded' = loaded /\ twice' = twice
    BY <1>2 DEF open_window, initialize, processGetters, endGetters, runHandlers, windowVars, loadedVars
  <2>2. loaded' = {} /\ twice' = {} /\ lowest' = << >>
    BY <2>1 DEF KeptInv
  <2> QED BY <2>1, <2>2 DEF KeptInv, IsKept
<1>3. CASE endHandlers
  <2>1. /\ UNCHANGED <<logVars, box, placeVars, walkVars>> /\ AtEnd
        /\ phase = "handlers" /\ phase' = "ready" /\ UNCHANGED <<loadedVars, loaded, twice>>
    BY <1>3 DEF endHandlers, Unread, AtEnd
  <2> QED BY <2>1, IdleKept
<1>4. CASE \E o \in 0 .. max_offset : jumpToOffset(o)
  BY <1>4, JumpKept
<1>5. CASE firstMessage
  BY <1>5, FirstKept
<1>6. CASE noMessage
  <2>1. /\ UNCHANGED <<logVars, box, placeVars, walkVars>> /\ AtEnd
        /\ phase = "jumped" /\ phase' = "ready" /\ UNCHANGED <<loadedVars, loaded, twice>>
    BY <1>6 DEF noMessage, Unread, AtEnd
  <2> QED BY <2>1, IdleKept
<1>7. CASE loadMessage
  BY <1>7, LoadKept
<1>8. CASE endLoad
  BY <1>8, EndKept
<1> QED BY <1>1, <1>2, <1>3, <1>4, <1>5, <1>6, <1>7, <1>8 DEF WindowNext

\* In a log of one file what handlers were called with is between what counts as
\* loaded, and only the frame a window begins with is gone past without a look.
THEOREM KeptInductive == LogSpec /\ phase # "merge" => [](WalkInv /\ KeptInv)
<1>1. WindowInit /\ phase # "merge" => WalkInv /\ KeptInv
  <2>1. SUFFICES ASSUME WindowInit, phase # "merge" PROVE WalkInv /\ KeptInv
    OBVIOUS
  <2>2. WalkInv
    BY <2>1, StartIsWalk
  <2>3. phase = "none" /\ loaded = {} /\ twice = {} /\ lowest = << >>
    BY <2>1 DEF WindowInit, WindowStart
  <2> QED BY <2>2, <2>3 DEF KeptInv
<1>2. WalkInv => phase # "merge"
  BY DEF WalkInv, WindowTypes
<1>3. /\ WalkInv /\ KeptInv
      /\ [(phase = "merge" /\ MergeReaderNext /\ UNCHANGED windowVars) \/ WindowNext]_AllVars
      => (WalkInv /\ KeptInv)'
  BY <1>2, WalkKeeps, KeptKeeps
<1> QED BY <1>1, <1>3, PTL DEF LogSpec, AllVars

\* What an earlier window has loaded is not loaded again while it stays in the
\* window.
THEOREM WindowsNoDouble == LogSpec => []NoDouble
<1>1. WalkInv /\ KeptInv => NoDouble
  BY DEF KeptInv, NoDouble, Single
<1>2. phase = "merge" /\ twice = {} => NoDouble
  BY DEF NoDouble
<1>3. WindowInit /\ phase = "merge" => twice = {}
  BY DEF WindowInit, WindowStart
<1>4. /\ phase = "merge" /\ twice = {}
      /\ [(phase = "merge" /\ MergeReaderNext /\ UNCHANGED windowVars) \/ WindowNext]_AllVars
      => (phase = "merge")' /\ (twice = {})'
  BY DEF AllVars, windowVars, WindowNext, open_window, initialize, processGetters, endGetters,
         runHandlers, endHandlers, jumpToOffset, firstMessage, noMessage, loadMessage, endLoad
<1>5. phase = "merge" \/ phase # "merge"
  OBVIOUS
<1> QED BY <1>1, <1>2, <1>3, <1>4, <1>5, KeptInductive, PTL DEF LogSpec, AllVars
=============================================================================
