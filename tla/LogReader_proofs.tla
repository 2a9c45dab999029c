--------------------------- MODULE LogReader_proofs ---------------------------
(***************************************************************************)
(* What merging and reading logs promise, for every log, whether it is     *)
(* read as it is or after its files were merged.                           *)
(*                                                                         *)
(* A merged file describes itself: the dictionary of the cbuf_ostream      *)
(* tells which descriptions have gone by, and a description is filtered by *)
(* the name of the type it describes, never by its time, so a type that is *)
(* known and passes the filter has been written.                           *)
(*                                                                         *)
(* Reading has one invariant, which relates the position of each file to   *)
(* what was processed: all messages before the position have been          *)
(* processed, once, and none after it is earlier than any of them.  A scan *)
(* moves a position over corrupted stretches and descriptions, never over  *)
(* a message.                                                              *)
(***************************************************************************)
EXTENDS LogMerge, NatSets

-----------------------------------------------------------------------------
(* Merging.                                                                *)

MetadataOf(t, k) ==
  InputMessage(written[k]).kind = "metadata" /\ InputMessage(written[k]).type = t

MessageOf(t, k) ==
  InputMessage(written[k]).kind = "data" /\ InputMessage(written[k]).type = t

\* A known type that passes the filter is described in what is written.
Known == \A t \in dictionary \cap range.passes : \E k \in 1 .. Len(written) : MetadataOf(t, k)

\* What is written describes each message before it.
EachDescribed ==
  \A k \in 1 .. Len(written) : \A t : MessageOf(t, k) =>
    \E j \in 1 .. k - 1 : MetadataOf(t, j)

\* The inductive invariant.
MergeIInv ==
  /\ ptrs \in [DOMAIN inputs -> Nat]
  /\ written \in Seq((DOMAIN inputs) \X Nat)
  /\ Known
  /\ EachDescribed

\* What MergePacket does to the invariant: it appends at most one packet, whose
\* type is known.
LEMMA PacketPreserves ==
  ASSUME MergeIInv, NEW f \in DOMAIN inputs, MergePacket(f)
  PROVE  MergeIInv'
<1> DEFINE p == Next_(f)
           w == <<f, ptrs[f]>>
<1>1. /\ inputs' = inputs /\ range' = range /\ dictionary' = dictionary \cup {p.type}
      /\ ptrs' \in [DOMAIN inputs -> Nat] /\ w \in (DOMAIN inputs) \X Nat
      /\ InputMessage(w) = p
  BY DEF MergeIInv, MergePacket, InputMessage, Next_
<1>2. CASE ~InRange(p)
  <2>1. written' = written
    BY <1>2 DEF MergePacket
  <2>2. Known'
    <3>1. SUFFICES ASSUME NEW t \in dictionary' \cap range'.passes
                   PROVE  \E k \in 1 .. Len(written') : MetadataOf(t, k)'
      BY DEF Known
    <3>2. t \in dictionary
      <4>1. p.kind = "metadata" \/ p.type \in dictionary
        BY DEF MergePacket
      <4>2. p.kind = "metadata" => p.type \notin range.passes
        BY <1>2 DEF InRange
      <4> QED BY <1>1, <3>1, <4>1, <4>2
    <3> QED BY <1>1, <2>1, <3>2 DEF MergeIInv, Known, MetadataOf, InputMessage
  <2>3. EachDescribed'
    <3>1. /\ \A t, k : MessageOf(t, k)' <=> MessageOf(t, k)
          /\ \A t, k : MetadataOf(t, k)' <=> MetadataOf(t, k)
      BY <1>1, <2>1 DEF MessageOf, MetadataOf, InputMessage
    <3> QED BY <2>1, <3>1 DEF MergeIInv, EachDescribed
  <2> QED BY <1>1, <2>1, <2>2, <2>3 DEF MergeIInv
<1>3. CASE InRange(p)
  <2>1. /\ written' = Append(written, w) /\ written \in Seq((DOMAIN inputs) \X Nat)
    BY <1>3 DEF MergePacket, MergeIInv
  <2>n. PICK n \in Nat : n = Len(written)
    BY <2>1
  <2>2. /\ written' \in Seq((DOMAIN inputs) \X Nat) /\ Len(written') = n + 1
        /\ written'[n + 1] = w
        /\ \A k \in 1 .. n : written'[k] = written[k]
    BY <1>1, <2>1, <2>n
  <2>3. \A k \in 1 .. n : InputMessage(written[k])' = InputMessage(written[k])
    BY <1>1, <2>2 DEF InputMessage
  <2>4. InputMessage(written[n + 1])' = p
    BY <1>1, <2>2 DEF InputMessage
  <2>5. ASSUME NEW t \in dictionary \cap range.passes
        PROVE  \E k \in 1 .. n : MetadataOf(t, k) /\ MetadataOf(t, k)'
    BY <2>3, <2>5, <2>n DEF MergeIInv, Known, MetadataOf
  <2>6. Known'
    <3>1. SUFFICES ASSUME NEW t \in dictionary' \cap range'.passes
                   PROVE  \E k \in 1 .. n + 1 : MetadataOf(t, k)'
      BY <2>2 DEF Known
    <3>2. CASE t \in dictionary
      BY <1>1, <2>2, <2>5, <3>1, <3>2
    <3>3. CASE t \notin dictionary
      <4>1. t = p.type /\ p.kind = "metadata"
        BY <1>1, <3>1, <3>3 DEF MergePacket
      <4>2. MetadataOf(t, n + 1)'
        BY <2>4, <4>1 DEF MetadataOf
      <4> QED BY <2>2, <4>2
    <3> QED BY <3>2, <3>3
  <2>7. EachDescribed'
    <3>1. SUFFICES ASSUME NEW k \in 1 .. n + 1, NEW t, MessageOf(t, k)'
                   PROVE  \E j \in 1 .. k - 1 : MetadataOf(t, j)'
      BY <2>2 DEF EachDescribed
    <3>2. CASE k \in 1 .. n
      <4>1. MessageOf(t, k)
        BY <2>3, <3>1, <3>2 DEF MessageOf
      <4>2. PICK j \in 1 .. k - 1 : MetadataOf(t, j)
        BY <2>n, <3>2, <4>1 DEF MergeIInv, EachDescribed
      <4>3. j \in 1 .. n
        BY <2>2, <3>2, <4>2
      <4>4. MetadataOf(t, j)'
        BY <2>3, <4>2, <4>3 DEF MetadataOf
      <4> QED BY <4>2, <4>4
    <3>3. CASE k = n + 1
      <4>1. t \in dictionary \cap range.passes
        BY <1>3, <2>4, <3>1, <3>3 DEF MergePacket, InRange, MessageOf
      <4>2. PICK j \in 1 .. n : MetadataOf(t, j)'
        BY <2>5, <4>1
      <4>3. j \in 1 .. k - 1
        BY <2>2, <3>3
      <4> QED BY <4>2, <4>3
    <3> QED BY <2>2, <3>1, <3>2, <3>3
  <2> QED BY <1>1, <2>2, <2>6, <2>7 DEF MergeIInv
<1> QED BY <1>2, <1>3

\* The inductive invariant holds of every merge, with the reading that follows:
\* merge_packet alone writes, and adds to the dictionary what it saw go by.
THEOREM MergeInductive == MergeReaderSpec => []MergeIInv
<1>1. MergeInit => MergeIInv
  BY DEF MergeInit, MergeStart, MergeIInv, Known, EachDescribed
<1>2. MergeIInv /\ [MergeReaderNext]_mergeReaderVars => MergeIInv'
  <2>1. SUFFICES ASSUME MergeIInv, [MergeReaderNext]_mergeReaderVars
                 PROVE  MergeIInv'
    OBVIOUS
  <2>2. CASE \E f \in DOMAIN inputs : MergePacket(f)
    BY <2>1, <2>2, PacketPreserves
  <2>3. CASE UNCHANGED <<inputs, range, ptrs, dictionary, written>>
    BY <2>1, <2>3, SMTT(30) DEF MergeIInv, Known, EachDescribed, MetadataOf, MessageOf, InputMessage
  <2> QED
    BY <2>1, <2>2, <2>3 DEF MergeReaderNext, MergeThrows, MergeReturns, mergeVars, mergeReaderVars
<1> QED BY <1>1, <1>2, PTL DEF MergeReaderSpec

\* The merged file describes each message's type before it: merge_packet's two
\* filters never separate a message from its description.
THEOREM MergedDescribed == MergeReaderSpec => []MergedSelfDescribing
<1>1. MergeIInv => MergedSelfDescribing
  <2>1. SUFFICES ASSUME MergeIInv, NEW k \in 1 .. Len(written),
                        InputMessage(written[k]).kind = "data"
                 PROVE  \E j \in 1 .. k - 1 : MetadataOf(InputMessage(written[k]).type, j)
    BY DEF MergedSelfDescribing, MetadataOf
  <2>2. MessageOf(InputMessage(written[k]).type, k)
    BY <2>1 DEF MessageOf
  <2> QED BY <2>1, <2>2 DEF MergeIInv, EachDescribed
<1> QED BY <1>1, MergeInductive, PTL
-----------------------------------------------------------------------------
(* A finished merge keeps what it should, once and in order.               *)

MergeTypes ==
  /\ merging \in {"no", "yes", "done", "thrown"}
  /\ inputs \in Seq(Seq(Item))
  /\ merging = "no" \/ range \in Ranges
  /\ ptrs \in [DOMAIN inputs -> Nat \ {0}]
  /\ \A f \in DOMAIN inputs : ptrs[f] <= Len(inputs[f]) + 1
  /\ dictionary \subseteq Types
  /\ written \in Seq((DOMAIN inputs) \X Nat)

\* Each packet written is one the merge went past and its filters let pass.
WrittenPassed ==
  \A k \in 1 .. Len(written) : LET w == written[k] IN
    w[2] \in 1 .. ptrs[w[1]] - 1 /\ InRange(InputMessage(w))

PacketsWritten ==
  \A k \in 1 .. Len(written) : InputMessage(written[k]).kind \in {"metadata", "data"}

\* Those of one input are written in its order.
WrittenInOrder ==
  \A j, k \in 1 .. Len(written) :
    j < k /\ written[j][1] = written[k][1] => written[j][2] < written[k][2]

\* Each message the merge went past is written if the filters let it pass.
PassedWritten ==
  \A f \in DOMAIN inputs : \A i \in 1 .. ptrs[f] - 1 :
    InRange(inputs[f][i]) /\ inputs[f][i].kind = "data" =>
      \E k \in 1 .. Len(written) : written[k] = <<f, i>>

AllPassed == merging = "done" => \A f \in DOMAIN inputs : ptrs[f] = Len(inputs[f]) + 1

\* The inductive invariant.
KeepsIInv ==
  MergeTypes /\ WrittenPassed /\ PacketsWritten /\ WrittenInOrder /\ PassedWritten /\ AllPassed

LEMMA PacketTypes ==
  ASSUME KeepsIInv, NEW f \in DOMAIN inputs, MergePacket(f)
  PROVE  MergeTypes'
<1>1. /\ inputs \in Seq(Seq(Item)) /\ ptrs \in [DOMAIN inputs -> Nat \ {0}]
      /\ written \in Seq((DOMAIN inputs) \X Nat) /\ dictionary \subseteq Types
  BY DEF KeepsIInv, MergeTypes
<1>2. /\ inputs' = inputs /\ range' = range /\ merging' = merging
      /\ dictionary' = dictionary \cup {Next_(f).type}
      /\ written' = IF InRange(Next_(f)) THEN Append(written, <<f, ptrs[f]>>) ELSE written
      /\ ptrs' = [ptrs EXCEPT ![f] = ptrs[f] + 1] /\ ptrs[f] <= Len(inputs[f])
  BY DEF MergePacket, Pending
<1>3. inputs[f] \in Seq(Item) /\ ptrs[f] \in Nat \ {0}
  BY <1>1
<1>4. Next_(f) \in Item
  <2>1. ptrs[f] \in 1 .. Len(inputs[f])
    BY <1>2, <1>3
  <2> QED BY <1>3, <2>1 DEF Next_
<1>5. dictionary' \subseteq Types
  BY <1>1, <1>2, <1>4 DEF Item
<1>6. written' \in Seq((DOMAIN inputs) \X Nat)
  BY <1>1, <1>2, <1>3
<1>7. ptrs' \in [DOMAIN inputs -> Nat \ {0}]
  BY <1>1, <1>2, <1>3
<1>8. \A g \in DOMAIN inputs : ptrs'[g] <= Len(inputs[g]) + 1
  <2>1. ASSUME NEW g \in DOMAIN inputs PROVE ptrs'[g] <= Len(inputs[g]) + 1
    <3>1. inputs[g] \in Seq(Item) /\ ptrs[g] \in Nat /\ ptrs[g] <= Len(inputs[g]) + 1
      BY <1>1 DEF KeepsIInv, MergeTypes
    <3>2. Len(inputs[g]) \in Nat
      BY <3>1
    <3>3. CASE g = f
      BY <1>1, <1>2, <3>1, <3>2, <3>3
    <3>4. CASE g # f
      BY <1>1, <1>2, <3>1, <3>4
    <3> QED BY <3>3, <3>4
  <2> QED BY <2>1
<1> QED BY <1>1, <1>2, <1>5, <1>6, <1>7, <1>8 DEF KeepsIInv, MergeTypes

\* merge_packet writes at most the packet it goes past, after all it wrote.
LEMMA PacketKeeps ==
  ASSUME KeepsIInv, NEW f \in DOMAIN inputs, MergePacket(f)
  PROVE  KeepsIInv'
<1> DEFINE w == <<f, ptrs[f]>>
<1>1. /\ inputs \in Seq(Seq(Item)) /\ ptrs \in [DOMAIN inputs -> Nat \ {0}]
      /\ written \in Seq((DOMAIN inputs) \X Nat)
  BY DEF KeepsIInv, MergeTypes
<1>2. /\ inputs' = inputs /\ range' = range /\ merging' = merging /\ merging = "yes"
      /\ written' = IF InRange(Next_(f)) THEN Append(written, w) ELSE written
      /\ ptrs' = [ptrs EXCEPT ![f] = ptrs[f] + 1]
  BY DEF MergePacket
<1>n. PICK n \in Nat : n = Len(written)
  BY <1>1
<1>p. /\ ptrs[f] \in Nat \ {0} /\ ptrs'[f] = ptrs[f] + 1
      /\ \A g \in DOMAIN inputs : ptrs[g] \in Nat /\ (g # f => ptrs'[g] = ptrs[g])
      /\ \A g \in DOMAIN inputs : ptrs'[g] \in Nat /\ ptrs[g] <= ptrs'[g]
  BY <1>1, <1>2
<1>3. Next_(f) = InputMessage(w) /\ InputMessage(w) = inputs[f][ptrs[f]]
  BY DEF Next_, InputMessage
<1>4. /\ \A p : InRange(p)' <=> InRange(p)
      /\ \A a : InputMessage(a)' = inputs[a[1]][a[2]] /\ InputMessage(a) = inputs[a[1]][a[2]]
  BY <1>2 DEF InRange, InputMessage
<1>5. \A k \in 1 .. n : /\ written[k][1] \in DOMAIN inputs /\ written[k][2] \in Nat
                       /\ written[k][2] \in 1 .. ptrs[written[k][1]] - 1
                       /\ InRange(InputMessage(written[k]))
  <2> SUFFICES ASSUME NEW k \in 1 .. n
               PROVE  /\ written[k][1] \in DOMAIN inputs /\ written[k][2] \in Nat
                      /\ written[k][2] \in 1 .. ptrs[written[k][1]] - 1
                      /\ InRange(InputMessage(written[k]))
    OBVIOUS
  <2>1. written[k] \in (DOMAIN inputs) \X Nat
    BY <1>1, <1>n
  <2> QED BY <1>n, <2>1 DEF KeepsIInv, WrittenPassed
<1>6. PICK m \in Nat : /\ m = Len(written') /\ n <= m /\ m <= n + 1
                       /\ \A k \in 1 .. n : written'[k] = written[k]
                       /\ m = n + 1 => written'[m] = w /\ InRange(InputMessage(w))
                       /\ m = n => ~InRange(InputMessage(w))
  <2>1. CASE InRange(InputMessage(w))
    <3>1. w \in (DOMAIN inputs) \X Nat
      BY <1>p
    <3>2. written' = Append(written, w)
      BY <1>2, <1>3, <2>1
    <3> QED BY <1>1, <1>n, <2>1, <3>1, <3>2
  <2>2. CASE ~InRange(InputMessage(w))
    BY <1>2, <1>3, <1>n, <2>2
  <2> QED BY <2>1, <2>2
<1> HIDE DEF w
<1>w. w[1] = f /\ w[2] = ptrs[f]
  BY DEF w
<1>7. WrittenPassed'
  <2>1. SUFFICES ASSUME NEW k \in 1 .. m
                 PROVE  /\ written'[k][2] \in 1 .. ptrs'[written'[k][1]] - 1
                        /\ InRange(InputMessage(written'[k]))
    BY <1>4, <1>6 DEF WrittenPassed
  <2>2. CASE k \in 1 .. n
    <3>1. PICK g \in DOMAIN inputs : g = written[k][1]
      BY <1>5, <2>2
    <3>2. PICK i \in Nat : i = written[k][2]
      BY <1>5, <2>2
    <3>3. i \in 1 .. ptrs[g] - 1 /\ InRange(InputMessage(written[k]))
      BY <1>5, <2>2, <3>1, <3>2
    <3>4. i \in 1 .. ptrs'[g] - 1
      BY <1>p, <3>1, <3>3
    <3> QED BY <1>6, <2>2, <3>1, <3>2, <3>3, <3>4
  <2>3. CASE k = n + 1
    <3>1. m = n + 1 /\ written'[k] = w /\ InRange(InputMessage(w))
      BY <1>6, <2>1, <2>3
    <3>2. ptrs[f] \in 1 .. ptrs'[f] - 1
      BY <1>p
    <3> QED BY <1>w, <3>1, <3>2
  <2> QED BY <1>6, <2>1, <2>2, <2>3
<1>8. WrittenInOrder'
  <2>1. SUFFICES ASSUME NEW j \in 1 .. m, NEW k \in 1 .. m, j < k,
                        written'[j][1] = written'[k][1]
                 PROVE  written'[j][2] < written'[k][2]
    BY <1>6 DEF WrittenInOrder
  <2>2. j \in 1 .. n
    BY <1>6, <2>1
  <2>3. CASE k \in 1 .. n
    BY <1>6, <1>n, <2>1, <2>2, <2>3 DEF KeepsIInv, WrittenInOrder
  <2>4. CASE k = n + 1
    <3>1. written'[k] = w /\ written'[j] = written[j]
      BY <1>6, <2>1, <2>2, <2>4
    <3>2. written[j][1] = f /\ written[j][2] \in 1 .. ptrs[f] - 1
      BY <1>5, <1>w, <2>1, <2>2, <3>1
    <3>3. written[j][2] < ptrs[f]
      BY <1>p, <3>2
    <3> QED BY <1>w, <3>1, <3>3
  <2> QED BY <1>6, <2>1, <2>3, <2>4
<1>9. PassedWritten'
  <2>1. SUFFICES ASSUME NEW g \in DOMAIN inputs, NEW i \in 1 .. ptrs'[g] - 1,
                        InRange(inputs[g][i]), inputs[g][i].kind = "data"
                 PROVE  \E k \in 1 .. m : written'[k] = <<g, i>>
    BY <1>2, <1>4, <1>6 DEF PassedWritten
  <2>2. CASE i \in 1 .. ptrs[g] - 1
    <3>1. PICK k \in 1 .. n : written[k] = <<g, i>>
      BY <1>n, <2>1, <2>2 DEF KeepsIInv, PassedWritten
    <3> QED BY <1>6, <3>1
  <2>3. CASE i \notin 1 .. ptrs[g] - 1
    <3>1. g = f /\ i = ptrs[f]
      BY <1>p, <2>1, <2>3
    <3>2. m = n + 1
      BY <1>3, <1>6, <2>1, <3>1
    <3> QED BY <1>6, <3>1, <3>2 DEF w
  <2> QED BY <2>2, <2>3
<1>10. AllPassed'
  BY <1>2 DEF AllPassed
<1>11. PacketsWritten'
  <2>1. InputMessage(w).kind \in {"metadata", "data"}
    BY <1>3 DEF MergePacket, IsPacket
  <2>2. SUFFICES ASSUME NEW k \in 1 .. m
                 PROVE  InputMessage(written'[k]).kind \in {"metadata", "data"}
    BY <1>4, <1>6 DEF PacketsWritten
  <2>3. CASE k \in 1 .. n
    BY <1>6, <1>n, <2>3 DEF KeepsIInv, PacketsWritten
  <2>4. CASE k = n + 1
    BY <1>6, <2>1, <2>2, <2>4
  <2> QED BY <1>6, <2>2, <2>3, <2>4
<1> QED BY <1>7, <1>8, <1>9, <1>10, <1>11, PacketTypes DEF KeepsIInv

\* The inductive invariant holds of every merge, with the reading that follows.
THEOREM KeepsInductive == MergeReaderSpec => []KeepsIInv
<1>1. MergeInit => KeepsIInv
  <2>1. SUFFICES ASSUME MergeInit PROVE KeepsIInv
    OBVIOUS
  <2>2. inputs \in Seq(Seq(Item)) /\ (merging = "no" \/ range \in Ranges)
    BY <2>1, InputsAssumption DEF MergeInit, MergeStart
  <2>3. ASSUME NEW f \in DOMAIN inputs PROVE 1 <= Len(inputs[f]) + 1
    <3>1. inputs[f] \in Seq(Item)
      BY <2>2
    <3>2. Len(inputs[f]) \in Nat
      BY <3>1
    <3> QED BY <3>2
  <2>4. /\ merging \in {"no", "yes"} /\ ptrs = [f \in DOMAIN inputs |-> 1]
        /\ dictionary = {} /\ written = << >>
    BY <2>1 DEF MergeInit, MergeStart
  <2>5. MergeTypes
    BY <2>2, <2>3, <2>4 DEF MergeTypes
  <2> QED
    BY <2>4, <2>5
    DEF KeepsIInv, WrittenPassed, PacketsWritten, WrittenInOrder, PassedWritten, AllPassed
<1>2. KeepsIInv /\ [MergeReaderNext]_mergeReaderVars => KeepsIInv'
  <2>1. SUFFICES ASSUME KeepsIInv, [MergeReaderNext]_mergeReaderVars
                 PROVE  KeepsIInv'
    OBVIOUS
  <2>2. CASE \E f \in DOMAIN inputs : MergePacket(f)
    BY <2>1, <2>2, PacketKeeps
  <2>3. ASSUME UNCHANGED <<inputs, range, ptrs, dictionary, written>>,
               merging' = merging \/ (merging = "yes" /\ merging' \in {"done", "thrown"}),
               merging = "yes" /\ merging' = "done" => Pending = {}
        PROVE  KeepsIInv'
    <3>1. WrittenPassed' /\ PacketsWritten' /\ WrittenInOrder' /\ PassedWritten'
      BY <2>1, <2>3 DEF KeepsIInv, WrittenPassed, PacketsWritten, WrittenInOrder, PassedWritten,
                        InputMessage, InRange
    <3>2. MergeTypes'
      BY <2>1, <2>3 DEF KeepsIInv, MergeTypes
    <3>3. ASSUME NEW f \in DOMAIN inputs, merging' = "done"
          PROVE  ptrs[f] = Len(inputs[f]) + 1
      <4>1. inputs[f] \in Seq(Item) /\ ptrs[f] \in Nat /\ ptrs[f] <= Len(inputs[f]) + 1
        BY <2>1 DEF KeepsIInv, MergeTypes
      <4>2. CASE merging = "done"
        BY <2>1, <4>2 DEF KeepsIInv, AllPassed
      <4>3. CASE Pending = {}
        BY <4>1, <4>3 DEF Pending
      <4> QED BY <2>3, <3>3, <4>2, <4>3
    <3>4. AllPassed'
      BY <2>3, <3>3 DEF AllPassed
    <3> QED BY <3>1, <3>2, <3>4 DEF KeepsIInv
  <2>4. CASE \E f \in DOMAIN inputs : MergeThrows(f)
    BY <2>3, <2>4 DEF MergeThrows
  <2>5. CASE MergeReturns
    BY <2>3, <2>5 DEF MergeReturns
  <2>6. CASE UNCHANGED mergeVars
    BY <2>3, <2>6 DEF mergeVars
  <2> QED
    BY <2>1, <2>2, <2>4, <2>5, <2>6 DEF MergeReaderNext, mergeReaderVars
<1> QED BY <1>1, <1>2, PTL DEF MergeReaderSpec

\* A merge that returns has written each message of the filter and range exactly
\* once, no other, and those of one input in their order.
THEOREM MergeKeeps == MergeReaderSpec => []MergeKeepsAll
<1>1. KeepsIInv => MergeKeepsAll
  <2>1. SUFFICES ASSUME KeepsIInv, merging = "done" PROVE MergeKeepsAll
    BY DEF MergeKeepsAll
  <2>2. ASSUME NEW a \in InputMessages
        PROVE  Cardinality({k \in 1 .. Len(written) : written[k] = a})
                 = IF /\ InputMessage(a).type \in range.passes
                      /\ InputMessage(a).time \in range.earlytime .. range.latetime THEN 1 ELSE 0
    <3> DEFINE K == {k \in 1 .. Len(written) : written[k] = a}
    <3>1. PICK f \in DOMAIN inputs :
            a \in {f} \X {i \in 1 .. Len(inputs[f]) : inputs[f][i].kind = "data"}
      BY <2>2 DEF InputMessages
    <3>2. PICK i \in 1 .. Len(inputs[f]) : a = <<f, i>> /\ inputs[f][i].kind = "data"
      BY <3>1
    <3>3. /\ inputs[f] \in Seq(Item) /\ ptrs[f] = Len(inputs[f]) + 1
          /\ range \in Ranges /\ written \in Seq((DOMAIN inputs) \X Nat)
      BY <2>1 DEF KeepsIInv, MergeTypes, AllPassed
    <3>4. /\ inputs[f][i] \in Item /\ InputMessage(a) = inputs[f][i]
          /\ Len(inputs[f]) \in Nat /\ Len(written) \in Nat
      BY <3>2, <3>3 DEF InputMessage
    <3>5. /\ inputs[f][i].time \in Int
          /\ range.earlytime \in Int /\ range.latetime \in Int
      <4>1. inputs[f][i].time \in Times
        BY <3>4 DEF Item
      <4>2. range.earlytime \in {-1} \cup Times /\ range.latetime \in Times
        BY <3>3, RangesAssumption
      <4>3. \A t \in Times : t \in Int
        BY TimesAssumption
      <4>4. -1 \in Int
        OBVIOUS
      <4> QED BY <4>1, <4>2, <4>3, <4>4
    <3>6. InRange(InputMessage(a)) <=>
            /\ InputMessage(a).type \in range.passes
            /\ InputMessage(a).time \in range.earlytime .. range.latetime
      BY <3>2, <3>4, <3>5 DEF InRange
    <3>7. CASE InRange(InputMessage(a))
      <4>1. PICK k \in 1 .. Len(written) : written[k] = a
        <5>1. i \in 1 .. ptrs[f] - 1
          BY <3>3, <3>4
        <5> QED BY <2>1, <3>2, <3>4, <3>7, <5>1 DEF KeepsIInv, PassedWritten
      <4>2. ASSUME NEW j \in 1 .. Len(written), NEW l \in 1 .. Len(written), j < l,
                   written[j] = a, written[l] = a
            PROVE  FALSE
        BY <2>1, <3>2, <4>2 DEF KeepsIInv, WrittenInOrder
      <4>3. ASSUME NEW j \in K PROVE j = k
        BY <3>4, <4>1, <4>2, <4>3
      <4>4. K = {k}
        BY <4>1, <4>3
      <4> QED BY <3>6, <3>7, <4>4, FS_Singleton
    <3>8. CASE ~InRange(InputMessage(a))
      <4>1. K = {}
        BY <2>1, <3>8 DEF KeepsIInv, WrittenPassed
      <4> QED BY <3>6, <3>8, <4>1, FS_EmptySet
    <3> QED BY <3>7, <3>8
  <2> QED BY <2>1, <2>2 DEF MergeKeepsAll, KeepsIInv, WrittenInOrder
<1> QED BY <1>1, KeepsInductive, PTL
-----------------------------------------------------------------------------
(* The items of a file, and what a scan goes past.                         *)

\* A position of a file is one of an item of it, or its end.
IsPosition(file, i) == i \in Nat \ {0} /\ i <= Len(file) + 1

LEMMA FirstFromIs ==
  ASSUME NEW file \in Seq(Item), NEW i, IsPosition(file, i), NEW kinds
  PROVE  /\ IsPosition(file, FirstFrom(file, i, kinds)) /\ i <= FirstFrom(file, i, kinds)
         /\ FirstFrom(file, i, kinds) <= Len(file) =>
              file[FirstFrom(file, i, kinds)].kind \in kinds
         /\ \A j \in i .. FirstFrom(file, i, kinds) - 1 : file[j].kind \notin kinds
<1> DEFINE S == {j \in i .. Len(file) + 1 : j > Len(file) \/ IsKind(file, j, kinds)}
           m == FirstFrom(file, i, kinds)
<1>1. i \in Nat \ {0} /\ Len(file) \in Nat /\ i <= Len(file) + 1
  BY DEF IsPosition
<1>2. S \in SUBSET Nat /\ Len(file) + 1 \in S
  BY <1>1
<1>3. m = CHOOSE x \in S : \A y \in S : x <= y
  BY DEF FirstFrom, Min
<1>4. /\ \A j : j \in S <=> /\ j \in i .. Len(file) + 1
                            /\ j > Len(file) \/ (j \in 1 .. Len(file) /\ file[j].kind \in kinds)
  BY DEF IsKind
<1> HIDE DEF S, m
<1>5. m \in S /\ \A y \in S : m <= y
  <2>1. \E x \in S : \A y \in S : x <= y
    BY <1>2, Smallest
  <2> QED BY <1>3, <2>1
<1>6. m \in i .. Len(file) + 1
  BY <1>4, <1>5
<1>7. m <= Len(file) => file[m].kind \in kinds
  BY <1>1, <1>4, <1>5, <1>6
<1>8. ASSUME NEW j \in i .. m - 1 PROVE file[j].kind \notin kinds
  <2>1. j \notin S
    BY <1>1, <1>5, <1>6
  <2> QED BY <1>1, <1>4, <1>6, <2>1
<1> QED BY <1>1, <1>6, <1>7, <1>8 DEF IsPosition, m

\* The dictionary of a stream that moves grows by the descriptions it passes.
LEMMA MoveToIs ==
  ASSUME NEW file \in Seq(Item), NEW s \in Stream, NEW j, IsPosition(file, s.at), IsPosition(file, j)
  PROVE  /\ MoveTo(file, s, j) \in Stream /\ MoveTo(file, s, j).at = j
         /\ s.dictionary \subseteq MoveTo(file, s, j).dictionary
         /\ \A i \in s.at .. j - 1 :
              file[i].kind = "metadata" => file[i].type \in MoveTo(file, s, j).dictionary
<1> DEFINE P == {i \in s.at .. j - 1 : IsKind(file, i, {"metadata"})}
<1>1. /\ s.at \in Nat \ {0} /\ j \in Nat \ {0} /\ Len(file) \in Nat
      /\ s.at <= Len(file) + 1 /\ j <= Len(file) + 1 /\ s.dictionary \subseteq Types
  BY DEF IsPosition, Stream
<1>2. \A i \in s.at .. j - 1 : i \in 1 .. Len(file)
  BY <1>1
<1>3. \A i \in 1 .. Len(file) : file[i] \in Item /\ file[i].type \in Types
  <2>1. \A i \in 1 .. Len(file) : file[i] \in Item
    BY <1>1
  <2> QED BY <2>1 DEF Item
<1>4. MoveTo(file, s, j) = [at |-> j, dictionary |-> s.dictionary \cup {file[i].type : i \in P}]
  BY DEF MoveTo, Passed
<1>5. {file[i].type : i \in P} \subseteq Types
  BY <1>2, <1>3
<1>6. \A i \in s.at .. j - 1 : file[i].kind = "metadata" => i \in P
  BY <1>2 DEF IsKind
<1> HIDE DEF P
<1>7. MoveTo(file, s, j) \in Stream
  BY <1>1, <1>4, <1>5 DEF Stream
<1> QED BY <1>4, <1>6, <1>7

\* A stream that is at its end or at one of the kinds looked for stays there.
LEMMA MoveToStays ==
  ASSUME NEW file \in Seq(Item), NEW s \in Stream, NEW kinds, IsPosition(file, s.at),
         s.at > Len(file) \/ file[s.at].kind \in kinds
  PROVE  MoveTo(file, s, FirstFrom(file, s.at, kinds)) = s
<1> DEFINE m == FirstFrom(file, s.at, kinds)
<1>1. s.at \in Nat /\ s.at <= Len(file) + 1 /\ Len(file) \in Nat
  BY DEF IsPosition
<1>2. /\ m \in Nat /\ m <= Len(file) + 1 /\ s.at <= m
      /\ \A j \in s.at .. m - 1 : file[j].kind \notin kinds
  BY FirstFromIs DEF IsPosition
<1> HIDE DEF m
<1>3. m = s.at
  BY <1>1, <1>2
<1>4. {file[i].type : i \in {i \in s.at .. s.at - 1 : IsKind(file, i, {"metadata"})}} = {}
  BY <1>1
<1>5. s = [at |-> s.at, dictionary |-> s.dictionary]
  BY DEF Stream
<1> QED BY <1>3, <1>4, <1>5 DEF MoveTo, Passed, m
-----------------------------------------------------------------------------
(* The inductive invariant.  Its parts that are about positions take them  *)
(* as a parameter: they hold of the positions before a scan and after it.  *)

IsLog(files) ==
  /\ files \in Seq(Seq(Item))
  /\ \A f \in DOMAIN files : \A i \in 1 .. Len(files[f]) - 1 : files[f][i].kind \notin {"cut", "stub"}

IsData(f, i) == i \in 1 .. Len(log[f]) /\ log[f][i].kind = "data"

Positions(streams) ==
  /\ streams \in Seq(Stream) /\ DOMAIN streams = Streams
  /\ \A f \in Streams : IsPosition(log[f], streams[f].at)

\* A closed reader remembers nothing of what it read.
OpenOrNot ==
  /\ DOMAIN input_streams = IF is_opened THEN DOMAIN log ELSE {}
  /\ ~is_opened => processed = << >> /\ handled = << >> /\ ~ended /\ asked = NotAsked

\* What was processed is what lies before the positions, once each.
ProcessedBefore(streams) ==
  /\ \A k \in 1 .. Len(processed) : \E f \in Streams : \E i \in 1 .. streams[f].at - 1 :
       processed[k] = <<f, i>> /\ IsData(f, i)
  /\ \A f \in Streams : \A i \in 1 .. streams[f].at - 1 :
       IsData(f, i) => \E k \in 1 .. Len(processed) : processed[k] = <<f, i>>
  /\ \A j, k \in 1 .. Len(processed) : j < k => processed[j] # processed[k]

\* Nothing that lies ahead is earlier than what was processed.
NoneEarlier(streams) ==
  FilesOrdered => \A k \in 1 .. Len(processed) : \A f \in Streams : \A i \in Nat :
    IsData(f, i) /\ streams[f].at <= i => Message(processed[k]).time <= log[f][i].time

\* A stream knows the types it went past.
TypesKnown(streams) ==
  \A f \in Streams : \A i \in 1 .. streams[f].at - 1 :
    log[f][i].kind = "metadata" => log[f][i].type \in streams[f].dictionary

\* What lies ahead of a reader that has come to the end is too late.
EndIsLate(streams) ==
  ended => /\ finish_reading
           /\ FilesOrdered => \A f \in Streams : \A i \in Nat :
                IsData(f, i) /\ streams[f].at <= i => ~is_valid_late(log[f][i].time)

\* The handler knows one version beside its own.
OneOther == \A v, w \in Versions \ {HandlerType} : v = w

HandledInOrder ==
  \A i, j \in 1 .. Len(handled) : \E m, n \in 1 .. Len(processed) :
    processed[m] = handled[i].message /\ processed[n] = handled[j].message /\ (i < j => m < n)

ToHandle(a) ==
  IsDescribed(a) /\ IsWanted(a, Types) /\ (Message(a).type # HandlerType => options.allow_conversion)

HandledWanted ==
  /\ \A j \in 1 .. Len(handled) : LET a == handled[j].message IN
       options.process_always \/ is_valid_early(Message(a).time)
  /\ OneOther => \A j \in 1 .. Len(handled) : handled[j].by = Message(handled[j].message).type
  /\ OneOther => \A k \in 1 .. Len(processed) : ToHandle(processed[k]) =>
       \E j \in 1 .. Len(handled) : handled[j].message = processed[k]

\* At the end of its file or at a message of it.
Settled(f, s) == s.at > Len(log[f]) \/ IsData(f, s.at)

\* What is remembered of a timestamp still holds.
Peeked ==
  /\ asked = -1 /\ options.try_recovery => finish_reading
  /\ asked \notin {NotAsked, -1} =>
       /\ ~finish_reading /\ is_valid_late(asked)
       /\ \A f \in Streams : Settled(f, input_streams[f])
       /\ \E f \in Streams : IsData(f, input_streams[f].at) /\ log[f][input_streams[f].at].time = asked
       /\ \A f \in Streams : IsData(f, input_streams[f].at) =>
            asked <= log[f][input_streams[f].at].time

ReaderIInv ==
  /\ IsLog(log) /\ ReaderTypeOK /\ OpenOrNot
  /\ ProcessedBefore(input_streams) /\ NoneEarlier(input_streams) /\ InTimeOrder
  /\ TypesKnown(input_streams) /\ EndIsLate(input_streams)
  /\ CorruptionsCounted /\ HandledInOrder /\ HandledWanted /\ Peeked
-----------------------------------------------------------------------------
(* Scans.                                                                  *)

LEMMA TimeIsInt == \A p \in Item : p.time \in Times /\ p.time \in Nat /\ p.time # 0 /\ p.type \in Types
<1> SUFFICES ASSUME NEW p \in Item
             PROVE  p.time \in Times /\ p.time \in Nat /\ p.time # 0 /\ p.type \in Types
  OBVIOUS
<1>1. p.time \in Times /\ p.type \in Types
  BY DEF Item
<1> QED BY <1>1, TimesAssumption

\* s is f's stream after it went past no message.
Reaches(f, s) ==
  /\ s \in Stream /\ IsPosition(log[f], s.at) /\ input_streams[f].at <= s.at
  /\ \A i \in input_streams[f].at .. s.at - 1 : ~IsData(f, i)
  /\ input_streams[f].dictionary \subseteq s.dictionary
  /\ \A i \in input_streams[f].at .. s.at - 1 :
       log[f][i].kind = "metadata" => log[f][i].type \in s.dictionary

LEMMA ItemIs ==
  ASSUME IsLog(log), Positions(input_streams), NEW f \in Streams, f \in DOMAIN log
  PROVE  /\ log[f] \in Seq(Item) /\ Len(log[f]) \in Nat
         /\ input_streams[f] \in Stream /\ IsPosition(log[f], input_streams[f].at)
         /\ input_streams[f].at \in Nat \ {0} /\ input_streams[f].at <= Len(log[f]) + 1
         /\ \A i \in 1 .. Len(log[f]) : log[f][i] \in Item
<1>1. log[f] \in Seq(Item) /\ IsPosition(log[f], input_streams[f].at)
  BY DEF IsLog, Positions
<1>2. input_streams[f] \in Stream
  BY DEF Positions
<1> QED BY <1>1, <1>2 DEF IsPosition

\* A move to the first item of some kinds, data among them, goes past no message.
LEMMA MoveReaches ==
  ASSUME IsLog(log), Positions(input_streams), NEW f \in Streams, f \in DOMAIN log,
         NEW kinds, "data" \in kinds
  PROVE  Reaches(f, MoveTo(log[f], input_streams[f], FirstFrom(log[f], input_streams[f].at, kinds)))
<1> DEFINE m == FirstFrom(log[f], input_streams[f].at, kinds)
<1>1. /\ IsPosition(log[f], m) /\ input_streams[f].at <= m
      /\ \A i \in input_streams[f].at .. m - 1 : log[f][i].kind \notin kinds
  BY ItemIs, FirstFromIs
<1> HIDE DEF m
<1>2. /\ MoveTo(log[f], input_streams[f], m) \in Stream
      /\ MoveTo(log[f], input_streams[f], m).at = m
      /\ input_streams[f].dictionary \subseteq MoveTo(log[f], input_streams[f], m).dictionary
      /\ \A i \in input_streams[f].at .. m - 1 : log[f][i].kind = "metadata" =>
           log[f][i].type \in MoveTo(log[f], input_streams[f], m).dictionary
  BY <1>1, ItemIs, MoveToIs
<1> QED BY <1>1, <1>2 DEF Reaches, IsData, m

LEMMA ScanReaches ==
  ASSUME IsLog(log), Positions(input_streams), NEW f \in Streams, f \in DOMAIN log
  PROVE  Reaches(f, Scan(f)) /\ Settled(f, Scan(f))
<1> DEFINE file == log[f]
           m == FirstFrom(file, input_streams[f].at, {"data", "cut"})
           r == Recover(file, input_streams[f])
<1>1. Reaches(f, r)
  BY MoveReaches DEF Recover
<1>2. IsPosition(file, m) /\ (m <= Len(file) => file[m].kind \in {"data", "cut"})
  BY ItemIs, FirstFromIs
<1>3. r.at = m /\ r = MoveTo(file, input_streams[f], m)
  BY <1>2, ItemIs, MoveToIs DEF Recover
<1>4. file \in Seq(Item) /\ Len(file) \in Nat /\ m \in Nat \ {0} /\ input_streams[f].at \in Nat \ {0}
  BY <1>2, ItemIs DEF IsPosition
<1> HIDE DEF m, r
<1>5. CASE IsKind(file, m, {"cut"})
  <2>1. m \in 1 .. Len(file) /\ file[m].kind = "cut"
    BY <1>5 DEF IsKind
  <2>2. m = Len(file)
    BY <1>4, <2>1 DEF IsLog
  <2>3. r \in Stream /\ r = [at |-> r.at, dictionary |-> r.dictionary]
    BY <1>1 DEF Reaches, Stream
  <2>4. /\ Scan(f) = [r EXCEPT !.at = r.at + 1] /\ Scan(f) \in Stream
        /\ Scan(f).at = m + 1 /\ Scan(f).dictionary = r.dictionary
    BY <1>3, <1>4, <1>5, <2>3 DEF Scan, SkipCut, skip_message, r, Stream
  <2>5. \A i \in input_streams[f].at .. m :
          i = m \/ i \in input_streams[f].at .. m - 1
    BY <1>4
  <2>6. Reaches(f, Scan(f))
    <3>1. IsPosition(file, m + 1) /\ input_streams[f].at <= m + 1
      BY <1>1, <1>3, <1>4, <2>2 DEF IsPosition, Reaches
    <3>2. \A i \in input_streams[f].at .. m :
            ~IsData(f, i) /\ (file[i].kind = "metadata" => file[i].type \in r.dictionary)
      BY <1>1, <1>3, <2>1, <2>5 DEF Reaches, IsData
    <3>3. (m + 1) - 1 = m
      BY <1>4
    <3> QED BY <1>1, <2>4, <3>1, <3>2, <3>3 DEF Reaches
  <2> QED BY <1>4, <2>2, <2>4, <2>6 DEF Settled
<1>6. CASE ~IsKind(file, m, {"cut"})
  <2>1. Scan(f) = r
    BY <1>3, <1>6 DEF Scan, SkipCut, r
  <2>2. Settled(f, r)
    BY <1>2, <1>3, <1>4, <1>6 DEF Settled, IsData, IsKind, IsPosition
  <2> QED BY <1>1, <2>1, <2>2
<1> QED BY <1>5, <1>6

\* A stream that is settled is not moved by a scan, and not found corrupted.
LEMMA SettledStays ==
  ASSUME IsLog(log), Positions(input_streams), NEW f \in Streams, f \in DOMAIN log,
         Settled(f, input_streams[f])
  PROVE  Scan(f) = input_streams[f] /\ ~IsCorrupted(f)
<1> DEFINE s == input_streams[f]
<1>1. /\ s \in Stream /\ IsPosition(log[f], s.at) /\ log[f] \in Seq(Item)
      /\ s.at \in Nat \ {0} /\ Len(log[f]) \in Nat
  BY ItemIs
<1>2. s.at > Len(log[f]) \/ log[f][s.at].kind = "data"
  BY DEF Settled, IsData
<1>3. ~IsKind(log[f], s.at, {"metadata"}) /\ ~IsKind(log[f], s.at, {"cut"})
  BY <1>1, <1>2 DEF IsKind
<1>4. Recover(log[f], s) = s /\ consume_all(log[f], s) = s
  BY <1>1, <1>2, MoveToStays DEF Recover, consume_all
<1>5. consume_internal(log[f], s) = s
  BY <1>3 DEF consume_internal
<1>6. s.at > Len(log[f]) \/ IsKind(log[f], s.at, {"data", "cut"})
  BY <1>1 DEF Settled, IsData, IsKind
<1> HIDE DEF s
<1>7. Scan(f) = s
  BY <1>3, <1>4 DEF Scan, SkipCut, s
<1>8. ~IsCorrupted(f)
  BY <1>4, <1>5, <1>6 DEF IsCorrupted, empty, HasPreamble, s
<1> QED BY <1>7, <1>8 DEF s

\* What computeNextSi does to the streams, halted or not.
LEMMA ScannedReaches ==
  ASSUME IsLog(log), Positions(input_streams), Streams \subseteq DOMAIN log
  PROVE  /\ Positions(Scanned) /\ \A f \in Streams : Reaches(f, Scanned[f])
         /\ Halting = {} => \A f \in Streams : Scanned[f] = Scan(f) /\ Settled(f, Scanned[f])
<1>1. ASSUME NEW f \in Streams PROVE Reaches(f, Scanned[f])
  <2>1. Reaches(f, Scan(f))
    BY ScanReaches
  <2>2. Reaches(f, consume_all(log[f], input_streams[f]))
    BY MoveReaches DEF consume_all
  <2>3. Reaches(f, input_streams[f])
    BY ItemIs DEF Reaches
  <2> QED BY <2>1, <2>2, <2>3 DEF Scanned
<1>2. Positions(Scanned)
  <2>1. DOMAIN Scanned = Streams /\ \A f \in Streams : Scanned[f] \in Stream
    BY <1>1 DEF Scanned, Reaches
  <2>2. PICK n \in Nat : Streams = 1 .. n
    BY DEF Positions, Streams
  <2>3. Scanned = [f \in 1 .. n |-> Scanned[f]]
    BY <2>2 DEF Scanned
  <2>4. Scanned \in Seq(Stream)
    BY <2>1, <2>2, <2>3
  <2> QED BY <1>1, <2>1, <2>4 DEF Positions, Reaches
<1>3. ASSUME Halting = {}, NEW f \in Streams PROVE Scanned[f] = Scan(f) /\ Settled(f, Scanned[f])
  <2>1. Scanned[f] = Scan(f)
    BY <1>3 DEF Scanned
  <2> QED BY <2>1, ScanReaches
<1> QED BY <1>1, <1>2, <1>3

\* computeNextSi's choice is the earliest of the streams that are left.
LEMMA NextIsEarliest ==
  ASSUME IsLog(log), Positions(input_streams), Streams \subseteq DOMAIN log, Halting = {}, Left # {}
  PROVE  /\ next_si \in Left /\ \A f \in Left : IsData(f, Scanned[f].at)
         /\ \A f \in Left : TimeOf(next_si) <= TimeOf(f) /\ Earlier(next_si, f)
<1>1. \A f \in Left : IsData(f, Scanned[f].at) /\ TimeOf(f) \in Nat /\ f \in Streams
  <2>1. ASSUME NEW f \in Left
        PROVE  IsData(f, Scanned[f].at) /\ TimeOf(f) \in Nat /\ f \in Streams
    <3>1. f \in Streams /\ Settled(f, Scanned[f]) /\ ~(Scanned[f].at > Len(log[f]))
      BY ScannedReaches DEF Left, empty
    <3>2. IsData(f, Scanned[f].at)
      BY <3>1 DEF Settled
    <3>3. log[f][Scanned[f].at] \in Item
      BY <3>1, <3>2, ItemIs DEF IsData
    <3> QED BY <3>1, <3>2, <3>3, TimeIsInt DEF TimeOf
  <2> QED BY <2>1
<1>2. PICK t \in {TimeOf(f) : f \in Left} : \A u \in {TimeOf(f) : f \in Left} : t <= u
  <2> DEFINE T == {TimeOf(f) : f \in Left}
  <2>1. T \in SUBSET Nat /\ T # {}
    BY <1>1
  <2> HIDE DEF T
  <2>2. \E t \in T : \A u \in T : t <= u
    BY <2>1, Smallest
  <2> QED BY <2>2 DEF T
<1>3. PICK f \in {g \in Left : TimeOf(g) = t} : \A g \in {g \in Left : TimeOf(g) = t} : f <= g
  <2> DEFINE G == {g \in Left : TimeOf(g) = t}
  <2>1. \A g \in Streams : g \in Nat
    BY DEF Positions
  <2>2. G \in SUBSET Nat /\ G # {}
    BY <1>1, <1>2, <2>1
  <2> HIDE DEF G
  <2>3. \E f \in G : \A g \in G : f <= g
    BY <2>2, Smallest
  <2> QED BY <2>3 DEF G
<1>4. f \in Left /\ \A g \in Left : Earlier(f, g)
  <2>1. ASSUME NEW g \in Left PROVE Earlier(f, g)
    <3>1. TimeOf(g) \in Nat /\ t \in Nat /\ t <= TimeOf(g) /\ TimeOf(f) = t
      BY <1>1, <1>2, <1>3
    <3> QED BY <1>3, <3>1 DEF Earlier
  <2> QED BY <1>3, <2>1
<1>5. next_si \in Left /\ \A g \in Left : Earlier(next_si, g)
  BY <1>4 DEF next_si
<1>6. ASSUME NEW g \in Left PROVE TimeOf(next_si) <= TimeOf(g)
  BY <1>1, <1>5 DEF Earlier
<1> QED BY <1>1, <1>5, <1>6

\* What is said of the positions holds of those a scan reaches.
LEMMA ScanKeeps ==
  ASSUME IsLog(log), Positions(input_streams), NEW t, Positions(t),
         \A f \in Streams : Reaches(f, t[f])
  PROVE  /\ ProcessedBefore(input_streams) => ProcessedBefore(t)
         /\ NoneEarlier(input_streams) => NoneEarlier(t)
         /\ TypesKnown(input_streams) => TypesKnown(t)
         /\ EndIsLate(input_streams) => EndIsLate(t)
<1>1. \A f \in Streams : /\ input_streams[f].at \in Nat \ {0} /\ t[f].at \in Nat \ {0}
                         /\ input_streams[f].at <= t[f].at
  BY DEF Positions, IsPosition, Reaches
<1>2. ASSUME NEW f \in Streams, NEW i \in 1 .. t[f].at - 1
      PROVE  i \in 1 .. input_streams[f].at - 1 \/ i \in input_streams[f].at .. t[f].at - 1
  BY <1>1
<1>3. ASSUME ProcessedBefore(input_streams) PROVE ProcessedBefore(t)
  <2>1. ASSUME NEW k \in 1 .. Len(processed)
        PROVE  \E f \in Streams : \E i \in 1 .. t[f].at - 1 :
                 processed[k] = <<f, i>> /\ IsData(f, i)
    <3>1. PICK f \in Streams : \E i \in 1 .. input_streams[f].at - 1 :
                 processed[k] = <<f, i>> /\ IsData(f, i)
      BY <1>3 DEF ProcessedBefore
    <3>2. PICK i \in 1 .. input_streams[f].at - 1 : processed[k] = <<f, i>> /\ IsData(f, i)
      BY <3>1
    <3>3. i \in 1 .. t[f].at - 1
      BY <1>1, <3>2
    <3> QED BY <3>2, <3>3
  <2>2. ASSUME NEW f \in Streams, NEW i \in 1 .. t[f].at - 1, IsData(f, i)
        PROVE  \E k \in 1 .. Len(processed) : processed[k] = <<f, i>>
    <3>1. i \in 1 .. input_streams[f].at - 1
      BY <1>2, <2>2 DEF Reaches
    <3> QED BY <1>3, <2>2, <3>1 DEF ProcessedBefore
  <2> QED BY <1>3, <2>1, <2>2 DEF ProcessedBefore
<1>4. \A f \in Streams : \A i \in Nat : t[f].at <= i => input_streams[f].at <= i
  BY <1>1
<1>5. NoneEarlier(input_streams) => NoneEarlier(t)
  BY <1>4 DEF NoneEarlier
<1>6. EndIsLate(input_streams) => EndIsLate(t)
  BY <1>4 DEF EndIsLate
<1>7. TypesKnown(input_streams) => TypesKnown(t)
  BY <1>2 DEF TypesKnown, Reaches
<1> QED BY <1>3, <1>5, <1>6, <1>7
-----------------------------------------------------------------------------
(* Corrupted stretches.                                                    *)

JunkOf(from, to) == UNION {Junk(f, from[f], to[f]) : f \in Streams}

LEMMA JunkOfIs ==
  ASSUME NEW from, NEW to
  PROVE  \A p : p \in JunkOf(from, to) <=>
           \E f \in Streams : \E i \in from[f] .. to[f] - 1 :
             p = <<f, i>> /\ IsKind(log[f], i, {"junk", "stub"})
BY DEF JunkOf, Junk

LEMMA JunkIsFinite ==
  ASSUME IsLog(log), Positions(input_streams), Streams \subseteq DOMAIN log, NEW from, NEW to
  PROVE  IsFiniteSet(JunkOf(from, to)) /\ Cardinality(JunkOf(from, to)) \in Nat
<1> DEFINE items == [f \in Streams |-> {f} \X (1 .. Len(log[f]))]
<1>1. PICK n \in Nat : Streams = 1 .. n
  BY DEF Positions, Streams
<1>2. ASSUME NEW f \in Streams PROVE IsFiniteSet({f} \X (1 .. Len(log[f])))
  <2>1. PICK m \in Nat : m = Len(log[f])
    BY ItemIs
  <2> DEFINE v == [i \in 1 .. m |-> {<<f, i>>}]
  <2>2. \A i \in 1 .. m : IsFiniteSet(v[i])
    BY FS_Singleton
  <2>3. ASSUME NEW p
        PROVE  p \in UNION {v[i] : i \in 1 .. m} <=> p \in {f} \X (1 .. m)
    OBVIOUS
  <2>4. UNION {v[i] : i \in 1 .. m} = {f} \X (1 .. m)
    BY <2>3
  <2> HIDE DEF v
  <2>5. IsFiniteSet(UNION {v[i] : i \in 1 .. m})
    BY <2>2, FiniteUnion
  <2> QED BY <2>1, <2>4, <2>5
<1>3. IsFiniteSet(UNION {items[f] : f \in 1 .. n})
  <2>1. \A f \in 1 .. n : IsFiniteSet(items[f])
    BY <1>1, <1>2
  <2> HIDE DEF items
  <2> QED BY <2>1, FiniteUnion
<1>4. JunkOf(from, to) \subseteq UNION {items[f] : f \in 1 .. n}
  <2>1. ASSUME NEW p \in JunkOf(from, to) PROVE \E f \in 1 .. n : p \in items[f]
    BY <1>1, <2>1, JunkOfIs DEF IsKind
  <2> QED BY <2>1
<1> HIDE DEF items
<1> QED BY <1>3, <1>4, FS_Subset, FS_CardinalityType

Starts == [f \in Streams |-> 1]
PositionOf(streams) == [f \in Streams |-> streams[f].at]

\* A scan counts the stretches it skips, and those only.
LEMMA ScanCounts ==
  ASSUME IsLog(log), Positions(input_streams), Streams \subseteq DOMAIN log, Halting = {}
  PROVE  /\ NumSkipped \in Nat
         /\ Cardinality(JunkOf(Starts, PositionOf(Scanned)))
              = Cardinality(JunkOf(Starts, PositionOf(input_streams))) + NumSkipped
<1> DEFINE at == PositionOf(input_streams)
           to == PositionOf(Scanned)
<1>1. \A f \in Streams : /\ Scanned[f] = Scan(f) /\ at[f] \in Nat \ {0} /\ to[f] \in Nat \ {0}
                         /\ at[f] <= to[f] /\ Starts[f] = 1
                         /\ at[f] = input_streams[f].at /\ to[f] = Scan(f).at
  BY ScannedReaches DEF Positions, IsPosition, Reaches, PositionOf, Starts
<1>2. NumSkipped = Cardinality(JunkOf(at, to))
  <2>1. \A f \in Streams : Skipped(f) = Junk(f, at[f], to[f])
    BY <1>1 DEF Skipped
  <2>2. UNION {Skipped(f) : f \in Streams} = JunkOf(at, to)
    BY <2>1 DEF JunkOf
  <2> QED BY <2>2 DEF NumSkipped
<1> HIDE DEF at, to
<1>3. JunkOf(Starts, to) = JunkOf(Starts, at) \cup JunkOf(at, to)
  <2>1. ASSUME NEW p
        PROVE  p \in JunkOf(Starts, to) <=> p \in JunkOf(Starts, at) \/ p \in JunkOf(at, to)
    <3>1. \A f \in Streams : \A i :
            i \in 1 .. to[f] - 1 <=> i \in 1 .. at[f] - 1 \/ i \in at[f] .. to[f] - 1
      BY <1>1
    <3> QED BY <1>1, <3>1, JunkOfIs
  <2> QED BY <2>1
<1>4. JunkOf(Starts, at) \cap JunkOf(at, to) = {}
  <2>1. ASSUME NEW p, p \in JunkOf(Starts, at), p \in JunkOf(at, to) PROVE FALSE
    <3>1. PICK f \in Streams : \E i \in 1 .. at[f] - 1 : p = <<f, i>>
      BY <1>1, <2>1, JunkOfIs
    <3>2. PICK g \in Streams : \E i \in at[g] .. to[g] - 1 : p = <<g, i>>
      BY <2>1, JunkOfIs
    <3> QED BY <1>1, <3>1, <3>2
  <2> QED BY <2>1
<1>5. /\ IsFiniteSet(JunkOf(Starts, at)) /\ Cardinality(JunkOf(Starts, at)) \in Nat
      /\ IsFiniteSet(JunkOf(at, to)) /\ Cardinality(JunkOf(at, to)) \in Nat
  BY JunkIsFinite
<1>6. Cardinality(JunkOf(Starts, to)) = Cardinality(JunkOf(Starts, at)) + Cardinality(JunkOf(at, to))
  BY <1>3, <1>4, <1>5, FS_Union, FS_EmptySet
<1> QED BY <1>2, <1>5, <1>6 DEF at, to
-----------------------------------------------------------------------------
(* A call that goes past no message.                                       *)

LEMMA Basics ==
  ASSUME ReaderIInv
  PROVE  /\ IsLog(log) /\ Positions(input_streams) /\ Streams \subseteq DOMAIN log
         /\ num_corruptions \in Nat /\ corruptionsBefore \in Nat /\ options \in Options
         /\ options.try_recovery \in BOOLEAN /\ options.process_always \in BOOLEAN
         /\ options.endTime \in Int /\ options.startTime \in Int
<1>1. ReaderTypeOK /\ IsLog(log)
  BY DEF ReaderIInv
<1>2. Streams \subseteq DOMAIN log
  BY DEF ReaderIInv, OpenOrNot, Streams
<1>3. \A f \in Streams : IsPosition(log[f], input_streams[f].at)
  <2>1. ASSUME NEW f \in Streams PROVE IsPosition(log[f], input_streams[f].at)
    <3>1. log[f] \in Seq(Item) /\ input_streams[f].at \in 1 .. Len(log[f]) + 1
      BY <1>1, <1>2 DEF ReaderTypeOK, IsLog
    <3> QED BY <3>1 DEF IsPosition
  <2> QED BY <2>1
<1>4. Positions(input_streams)
  BY <1>1, <1>3 DEF Positions, ReaderTypeOK, Streams
<1>5. /\ options \in Options /\ options.startTime \in {-1} \cup Times
      /\ options.endTime \in {-1} \cup Times
      /\ options.try_recovery \in BOOLEAN /\ options.process_always \in BOOLEAN
  BY <1>1, OptionsAssumption DEF ReaderTypeOK
<1>6. \A t \in {-1} \cup Times : t \in Int
  BY TimesAssumption
<1>7. num_corruptions \in Nat /\ corruptionsBefore \in Nat
  BY <1>1 DEF ReaderTypeOK
<1> QED BY <1>1, <1>2, <1>4, <1>5, <1>6, <1>7

LEMMA OrderedIn ==
  ASSUME IsLog(log), FilesOrdered, NEW f \in DOMAIN log, NEW i, NEW j, IsData(f, i), IsData(f, j), i <= j
  PROVE  log[f][i].time <= log[f][j].time
<1>1. log[f] \in Seq(Item) /\ i \in 1 .. Len(log[f]) /\ j \in 1 .. Len(log[f])
  BY DEF IsLog, IsData
<1>2. log[f][i] \in Item
  BY <1>1
<1>3. <<f, i>> \in Messages /\ <<f, j>> \in Messages
  BY DEF Messages, IsData
<1>4. CASE i < j
  BY <1>3, <1>4 DEF FilesOrdered, Message
<1>5. CASE i = j
  BY <1>2, <1>5, TimeIsInt
<1> QED BY <1>1, <1>4, <1>5

\* computeNextSi's choice is not later than any message ahead.
LEMMA AheadIsLater ==
  ASSUME ReaderIInv, Halting = {}, FilesOrdered, NEW f \in Streams, NEW i \in Nat,
         IsData(f, i), Scanned[f].at <= i
  PROVE  /\ Left # {} /\ TimeOf(next_si) <= log[f][i].time
         /\ TimeOf(next_si) \in Nat /\ log[f][i].time \in Nat
<1>1. /\ IsLog(log) /\ Positions(input_streams) /\ Streams \subseteq DOMAIN log
      /\ f \in DOMAIN log /\ log[f] \in Seq(Item) /\ i \in 1 .. Len(log[f])
  BY Basics, ItemIs DEF IsData
<1>2. Settled(f, Scanned[f]) /\ Scanned[f].at \in Nat \ {0}
  BY <1>1, ScannedReaches DEF Positions, IsPosition
<1>3. f \in Left
  BY <1>1, <1>2 DEF Left, empty
<1>4. IsData(f, Scanned[f].at) /\ TimeOf(next_si) <= TimeOf(f) /\ next_si \in Left
  BY <1>1, <1>3, NextIsEarliest
<1>5. TimeOf(f) <= log[f][i].time
  BY <1>1, <1>4, OrderedIn DEF TimeOf
<1>6. TimeOf(f) \in Nat /\ log[f][i].time \in Nat
  <2>1. log[f][i] \in Item /\ log[f][Scanned[f].at] \in Item
    BY <1>1, <1>4 DEF IsData
  <2> QED BY <2>1, TimeIsInt DEF TimeOf
<1>7. TimeOf(next_si) \in Nat
  <2>1. next_si \in Streams /\ IsData(next_si, Scanned[next_si].at)
    BY <1>1, <1>3, NextIsEarliest DEF Left
  <2>2. log[next_si][Scanned[next_si].at] \in Item
    BY <1>1, <2>1, ItemIs DEF IsData
  <2> QED BY <2>2, TimeIsInt DEF TimeOf
<1> QED BY <1>3, <1>4, <1>5, <1>6, <1>7

LEMMA CountedIs ==
  ASSUME ReaderIInv, NEW t, log' = log, input_streams' = t, DOMAIN t = Streams
  PROVE  CorruptionsCounted' <=>
           (options'.try_recovery =>
              num_corruptions' = corruptionsBefore' + Cardinality(JunkOf(Starts, PositionOf(t))))
<1>1. \A f \in Streams : Junk(f, 1, input_streams[f].at)' = Junk(f, Starts[f], PositionOf(t)[f])
  BY DEF Junk, IsKind, Starts, PositionOf
<1>2. Streams' = Streams
  BY DEF Streams
<1>3. (UNION {Junk(f, 1, input_streams[f].at) : f \in Streams})' = JunkOf(Starts, PositionOf(t))
  BY <1>1, <1>2 DEF JunkOf
<1> QED BY <1>3 DEF CorruptionsCounted

LEMMA CountedNow ==
  ASSUME ReaderIInv, options.try_recovery
  PROVE  num_corruptions =
           corruptionsBefore + Cardinality(JunkOf(Starts, PositionOf(input_streams)))
<1>1. \A f \in Streams : Junk(f, 1, input_streams[f].at) =
                           Junk(f, Starts[f], PositionOf(input_streams)[f])
  BY DEF Starts, PositionOf
<1>2. UNION {Junk(f, 1, input_streams[f].at) : f \in Streams} =
        JunkOf(Starts, PositionOf(input_streams))
  BY <1>1 DEF JunkOf
<1> QED BY <1>2 DEF ReaderIInv, CorruptionsCounted

\* What is kept by computeNextSi alone.
LEMMA LookKeeps ==
  ASSUME ReaderIInv, is_opened, input_streams' = Scanned,
         UNCHANGED <<log, options, is_opened, processed, handled, parser, corruptionsBefore, restarts>>,
         num_corruptions' \in Nat, num_corruptions <= num_corruptions',
         options.try_recovery => num_corruptions' = num_corruptions + NumSkipped,
         finish_reading' \in BOOLEAN, ended' \in BOOLEAN, asked' \in {NotAsked, -1} \cup Times
  PROVE  /\ IsLog(log)' /\ ReaderTypeOK' /\ OpenOrNot'
         /\ ProcessedBefore(input_streams)' /\ NoneEarlier(input_streams)' /\ InTimeOrder'
         /\ TypesKnown(input_streams)' /\ CorruptionsCounted' /\ HandledInOrder' /\ HandledWanted'
<1>1. /\ IsLog(log) /\ Positions(input_streams) /\ Streams \subseteq DOMAIN log
      /\ num_corruptions \in Nat /\ corruptionsBefore \in Nat
  BY Basics
<1>2. Positions(Scanned) /\ \A f \in Streams : Reaches(f, Scanned[f])
  BY <1>1, ScannedReaches
<1>3. Streams' = Streams /\ DOMAIN Scanned = Streams
  BY <1>2 DEF Streams, Positions
<1>4. IsLog(log)' /\ OpenOrNot'
  BY <1>1, <1>3 DEF ReaderIInv, OpenOrNot, Streams, IsLog
<1>5. ReaderTypeOK'
  <2>1. \A f \in Streams : Scanned[f].at \in 1 .. Len(log[f]) + 1
    <3>1. ASSUME NEW f \in Streams PROVE Scanned[f].at \in 1 .. Len(log[f]) + 1
      <4>1. Len(log[f]) \in Nat /\ IsPosition(log[f], Scanned[f].at)
        BY <1>1, <1>2, ItemIs DEF Positions
      <4> QED BY <4>1 DEF IsPosition
    <3> QED BY <3>1
  <2>2. corruptionsBefore \in 0 .. num_corruptions'
    BY <1>1 DEF ReaderIInv, ReaderTypeOK
  <2>3. Scanned \in Seq(Stream)
    BY <1>2 DEF Positions
  <2> HIDE DEF Scanned
  <2> QED BY <1>3, <2>1, <2>2, <2>3 DEF ReaderIInv, ReaderTypeOK, Message
<1>6. /\ ProcessedBefore(input_streams)' /\ NoneEarlier(input_streams)'
      /\ TypesKnown(input_streams)'
  <2>1. ProcessedBefore(Scanned) /\ NoneEarlier(Scanned) /\ TypesKnown(Scanned)
    BY <1>1, <1>2, ScanKeeps DEF ReaderIInv
  <2>2. ProcessedBefore(input_streams)'
    BY <1>3, <2>1 DEF ProcessedBefore, IsData
  <2>3. NoneEarlier(input_streams)'
    BY <1>3, <2>1 DEF NoneEarlier, FilesOrdered, Messages, Message, IsData
  <2>4. TypesKnown(input_streams)'
    BY <1>3, <2>1 DEF TypesKnown
  <2> QED BY <2>2, <2>3, <2>4
<1>7. InTimeOrder' /\ HandledInOrder'
  BY DEF ReaderIInv, InTimeOrder, FilesOrdered, Messages, Message, HandledInOrder
<1>8. HandledWanted'
  BY DEF ReaderIInv, HandledWanted, ToHandle, IsDescribed, IsWanted, Message, is_valid_early
<1>9. CorruptionsCounted'
  <2>1. SUFFICES ASSUME options.try_recovery
                 PROVE  num_corruptions' =
                          corruptionsBefore + Cardinality(JunkOf(Starts, PositionOf(Scanned)))
    BY <1>3, CountedIs
  <2>2. Halting = {}
    BY <2>1 DEF Halting
  <2>3. /\ NumSkipped \in Nat
        /\ Cardinality(JunkOf(Starts, PositionOf(Scanned)))
              = Cardinality(JunkOf(Starts, PositionOf(input_streams))) + NumSkipped
    BY <1>1, <2>2, ScanCounts
  <2>4. num_corruptions =
          corruptionsBefore + Cardinality(JunkOf(Starts, PositionOf(input_streams)))
    BY <2>1, CountedNow
  <2>5. Cardinality(JunkOf(Starts, PositionOf(input_streams))) \in Nat
    BY <1>1, JunkIsFinite
  <2> QED BY <1>1, <2>1, <2>3, <2>4, <2>5
<1> QED BY <1>4, <1>5, <1>6, <1>7, <1>8, <1>9

\* What is kept by what changes nothing but asked.
LEMMA StayKeeps ==
  ASSUME ReaderIInv, Peeked', asked' \in {NotAsked, -1} \cup Times, ~is_opened => asked' = NotAsked,
         UNCHANGED <<log, options, is_opened, input_streams, finish_reading, num_corruptions, parser,
                     processed, handled, ended, corruptionsBefore, restarts>>
  PROVE  ReaderIInv'
<1>1. IsLog(log)' /\ OpenOrNot'
  BY DEF ReaderIInv, IsLog, OpenOrNot
<1>2. ReaderTypeOK'
  BY DEF ReaderIInv, ReaderTypeOK, Streams, Message
<1>3. ProcessedBefore(input_streams)'
  BY ZenonT(60) DEF ReaderIInv, ProcessedBefore, Streams, IsData
<1>4. NoneEarlier(input_streams)'
  BY DEF ReaderIInv, NoneEarlier, FilesOrdered, Messages, Message, Streams, IsData
<1>5. InTimeOrder'
  BY DEF ReaderIInv, InTimeOrder, FilesOrdered, Messages, Message
<1>6. TypesKnown(input_streams)'
  BY DEF ReaderIInv, TypesKnown, Streams
<1>7. EndIsLate(input_streams)'
  BY DEF ReaderIInv, EndIsLate, FilesOrdered, Messages, Message, Streams, IsData, is_valid_late
<1>8. CorruptionsCounted'
  <2>1. DOMAIN input_streams = Streams
    BY DEF Streams
  <2> QED BY <2>1, CountedIs, CountedNow
<1>9. HandledInOrder'
  BY DEF ReaderIInv, HandledInOrder
<1>10. HandledWanted'
  BY DEF ReaderIInv, HandledWanted, ToHandle, IsDescribed, IsWanted, Message, is_valid_early
<1> QED BY <1>1, <1>2, <1>3, <1>4, <1>5, <1>6, <1>7, <1>8, <1>9, <1>10 DEF ReaderIInv

\* computeNextSi returns false: to processMessage, which does nothing then, or to
\* getNextTimestamp.
LEMMA NoneKeeps ==
  ASSUME ReaderIInv, is_opened, FoundNone, asked' \in {NotAsked, -1},
         UNCHANGED <<log, options, is_opened, processed, handled, parser, corruptionsBefore, restarts>>
  PROVE  ReaderIInv'
<1>1. /\ IsLog(log) /\ Positions(input_streams) /\ Streams \subseteq DOMAIN log
      /\ num_corruptions \in Nat /\ finish_reading \in BOOLEAN /\ ended \in BOOLEAN
  BY Basics DEF ReaderIInv, ReaderTypeOK
<1>2. Positions(Scanned) /\ \A f \in Streams : Reaches(f, Scanned[f])
  BY <1>1, ScannedReaches
<1>3. EndIsLate(Scanned)
  BY <1>1, <1>2, ScanKeeps DEF ReaderIInv
<1>4. CASE finish_reading /\ UNCHANGED <<input_streams, finish_reading, num_corruptions, ended>>
  <2>1. Peeked'
    BY <1>4 DEF Peeked, NotAsked
  <2> QED BY <1>4, <2>1, StayKeeps DEF NotAsked
<1>5. CASE /\ ~finish_reading /\ Halting # {} /\ input_streams' = Scanned
           /\ num_corruptions' = num_corruptions + 1 /\ UNCHANGED <<finish_reading, ended>>
  <2>1. ~options.try_recovery
    BY <1>5 DEF Halting
  <2>2. Peeked'
    BY <2>1 DEF Peeked, NotAsked
  <2>3. EndIsLate(input_streams)'
    <3>1. Streams' = Streams
      BY <1>2, <1>5 DEF Streams, Positions
    <3> QED BY <1>3, <1>5, <3>1 DEF EndIsLate, FilesOrdered, Messages, Message, IsData, is_valid_late
  <2>4. num_corruptions' \in Nat /\ num_corruptions <= num_corruptions'
    BY <1>1, <1>5
  <2> QED BY <1>1, <1>5, <2>1, <2>2, <2>3, <2>4, LookKeeps DEF ReaderIInv
<1>6. CASE /\ ~finish_reading /\ Halting = {} /\ ~Found /\ input_streams' = Scanned
           /\ num_corruptions' = num_corruptions + NumSkipped
           /\ finish_reading' = TRUE /\ ended' = TRUE
  <2>1. Peeked'
    BY <1>6 DEF Peeked, NotAsked
  <2>2. EndIsLate(input_streams)'
    <3>1. Streams' = Streams
      BY <1>2, <1>6 DEF Streams, Positions
    <3>2. SUFFICES ASSUME FilesOrdered, NEW f \in Streams, NEW i \in Nat, IsData(f, i),
                          Scanned[f].at <= i
                   PROVE  ~is_valid_late(log[f][i].time)
      BY <1>6, <3>1 DEF EndIsLate, FilesOrdered, Messages, Message, IsData, is_valid_late
    <3>3. /\ Left # {} /\ TimeOf(next_si) <= log[f][i].time
          /\ TimeOf(next_si) \in Nat /\ log[f][i].time \in Nat
      BY <1>6, <3>2, AheadIsLater
    <3>4. ~is_valid_late(TimeOf(next_si))
      BY <1>6, <3>3 DEF Found
    <3>5. options.endTime \in Int
      BY Basics
    <3> QED BY <3>3, <3>4, <3>5 DEF is_valid_late
  <2>3. NumSkipped \in Nat
    BY <1>1, <1>6, ScanCounts
  <2>4. num_corruptions' \in Nat /\ num_corruptions <= num_corruptions'
    BY <1>1, <1>6, <2>3
  <2> QED BY <1>6, <2>1, <2>2, <2>4, LookKeeps DEF ReaderIInv
<1> QED BY <1>4, <1>5, <1>6 DEF FoundNone
-----------------------------------------------------------------------------
(* A call that finds a message.                                            *)

\* The message that is found.
LEMMA FoundIs ==
  ASSUME ReaderIInv, Found
  PROVE  /\ next_si \in Streams /\ IsData(next_si, Scanned[next_si].at)
         /\ Scanned[next_si].at \in Nat \ {0}
         /\ TimeOf(next_si) \in Times /\ TimeOf(next_si) \in Nat \ {0}
         /\ \A f \in Streams : Settled(f, Scanned[f])
         /\ \A f \in Streams : IsData(f, Scanned[f].at) => TimeOf(next_si) <= TimeOf(f)
<1>1. IsLog(log) /\ Positions(input_streams) /\ Streams \subseteq DOMAIN log
  BY Basics
<1>2. Halting = {} /\ Left # {}
  BY DEF Found
<1>3. /\ next_si \in Left /\ \A f \in Left : IsData(f, Scanned[f].at)
      /\ \A f \in Left : TimeOf(next_si) <= TimeOf(f)
  BY <1>1, <1>2, NextIsEarliest
<1>4. next_si \in Streams /\ IsData(next_si, Scanned[next_si].at)
  BY <1>3 DEF Left
<1>5. log[next_si][Scanned[next_si].at] \in Item
  BY <1>1, <1>4, ItemIs DEF IsData
<1>6. /\ Positions(Scanned) /\ \A f \in Streams : Settled(f, Scanned[f])
  BY <1>1, <1>2, ScannedReaches
<1>7. ASSUME NEW f \in Streams, IsData(f, Scanned[f].at) PROVE f \in Left
  <2>1. Len(log[f]) \in Nat /\ Scanned[f].at \in 1 .. Len(log[f])
    BY <1>1, <1>7, ItemIs DEF IsData
  <2> QED BY <2>1 DEF Left, empty
<1> QED BY <1>3, <1>4, <1>5, <1>6, <1>7, TimeIsInt DEF TimeOf, Positions, IsPosition

LEMMA PeekKeeps ==
  ASSUME ReaderIInv, is_opened, Found, asked' = TimeOf(next_si), input_streams' = Scanned,
         num_corruptions' = num_corruptions + NumSkipped,
         UNCHANGED <<log, options, is_opened, processed, handled, parser, corruptionsBefore, restarts,
                     finish_reading, ended>>
  PROVE  ReaderIInv'
<1>1. /\ IsLog(log) /\ Positions(input_streams) /\ Streams \subseteq DOMAIN log
      /\ num_corruptions \in Nat /\ Halting = {}
  BY Basics DEF Found
<1>2. Positions(Scanned) /\ \A f \in Streams : Reaches(f, Scanned[f])
  BY <1>1, ScannedReaches
<1>3. Streams' = Streams
  BY <1>2 DEF Streams, Positions
<1>4. NumSkipped \in Nat
  BY <1>1, ScanCounts
<1>5. num_corruptions' \in Nat /\ num_corruptions <= num_corruptions'
  BY <1>1, <1>4
<1>6. asked' \in Times /\ asked' \in Nat \ {0} /\ finish_reading' \in BOOLEAN /\ ended' \in BOOLEAN
  BY FoundIs DEF ReaderIInv, ReaderTypeOK
<1>7. EndIsLate(input_streams)'
  <2>1. EndIsLate(Scanned)
    BY <1>1, <1>2, ScanKeeps DEF ReaderIInv
  <2> QED BY <1>3, <2>1 DEF EndIsLate, FilesOrdered, Messages, Message, IsData, is_valid_late
<1>8. Peeked'
  <2>1. ~finish_reading' /\ is_valid_late(asked)'
    BY DEF Found, is_valid_late
  <2>2. \A f \in Streams' : Settled(f, input_streams[f])'
    BY <1>3, FoundIs DEF Settled, IsData
  <2>3. /\ next_si \in Streams /\ IsData(next_si, Scanned[next_si].at)
        /\ log[next_si][Scanned[next_si].at].time = asked'
    BY FoundIs DEF TimeOf
  <2>4. PICK nx \in Streams : IsData(nx, Scanned[nx].at) /\ log[nx][Scanned[nx].at].time = asked'
    BY <2>3
  <2>5. \E f \in Streams' : IsData(f, input_streams[f].at)' /\
                            log'[f][input_streams'[f].at].time = asked'
    BY <1>3, <2>4 DEF IsData
  <2>6. \A f \in Streams : IsData(f, Scanned[f].at) => asked' <= log[f][Scanned[f].at].time
    BY FoundIs DEF TimeOf
  <2>7. \A f \in Streams' : IsData(f, input_streams[f].at)' =>
          asked' <= log'[f][input_streams'[f].at].time
    BY <1>3, <2>6 DEF IsData
  <2>8. asked' # -1
    BY <1>6
  <2> QED BY <2>1, <2>2, <2>5, <2>7, <2>8 DEF Peeked
<1> QED BY <1>1, <1>5, <1>6, <1>7, <1>8, LookKeeps DEF ReaderIInv

\* What Handle does to the handler, for the message a that is new among those
\* processed.
LEMMA HandleKeeps ==
  ASSUME ReaderIInv, NEW f \in Streams, NEW i \in Nat, IsData(f, i), NEW known,
         IsDescribed(<<f, i>>) => log[f][i].type \in known,
         processed' = Append(processed, <<f, i>>),
         \/ IsWanted(<<f, i>>, known) /\ Handle(<<f, i>>)
         \/ ~IsWanted(<<f, i>>, known) /\ UNCHANGED handlerVars,
         UNCHANGED <<log, options>>
  PROVE  /\ HandledInOrder' /\ HandledWanted'
         /\ parser' \in {NoParser} \cup {{v} : v \in Versions \ {HandlerType}}
         /\ handled' \in Seq([message : Nat \X Nat, by : Versions])
<1> DEFINE a == <<f, i>>
           H == [message : Nat \X Nat, by : Versions]
<1>1. /\ processed \in Seq(Nat \X Nat) /\ handled \in Seq(H)
      /\ parser \in {NoParser} \cup {{v} : v \in Versions \ {HandlerType}}
  BY DEF ReaderIInv, ReaderTypeOK
<1>2. f \in Nat /\ a \in Nat \X Nat
  <2>1. Streams \subseteq Nat
    BY Basics DEF Positions
  <2> QED BY <2>1
<1>3. Message(a) = log[f][i]
  BY DEF Message
<1>p. PICK p \in Nat : /\ p = Len(processed) /\ Len(processed') = p + 1 /\ processed'[p + 1] = a
                       /\ \A k \in 1 .. p : processed'[k] = processed[k]
  <2>1. processed' = Append(processed, a)
    OBVIOUS
  <2> DEFINE P == Nat \X Nat
  <2>2. processed \in Seq(P) /\ a \in P
    BY <1>1, <1>2
  <2> HIDE DEF P, a
  <2> QED BY <2>1, <2>2
<1>h. PICK n \in Nat : n = Len(handled)
  BY <1>1
\* Either nothing reaches the handler, or a does.
<1>4. /\ parser' \in {NoParser} \cup {{v} : v \in Versions \ {HandlerType}}
      /\ \/ /\ handled' = handled
            /\ OneOther => ~ToHandle(a)
         \/ /\ options.process_always \/ is_valid_early(Message(a).time)
            /\ \E type \in Versions : /\ handled' = Append(handled, [message |-> a, by |-> type])
                                      /\ OneOther => type = Message(a).type
  <2>1. CASE ~IsWanted(a, known) /\ UNCHANGED handlerVars
    <3>1. ~ToHandle(a)
      BY <1>3, <2>1 DEF ToHandle, IsWanted
    <3> QED BY <1>1, <2>1, <3>1 DEF handlerVars
  <2>2. CASE IsWanted(a, known) /\ Handle(a)
    <3>1. Message(a).type \in Versions /\ (options.process_always \/ is_valid_early(Message(a).time))
      BY <2>2 DEF IsWanted
    <3>2. CASE Message(a).type = HandlerType /\ Decoded(a, HandlerType) /\ UNCHANGED parser
      BY <1>1, <3>1, <3>2 DEF Decoded
    <3>3. CASE Message(a).type # HandlerType /\ ~options.allow_conversion /\ UNCHANGED handlerVars
      BY <1>1, <3>3 DEF ToHandle, handlerVars
    <3>4. CASE Convert(a)
      <4>1. PICK v \in Versions \ {HandlerType} : parser' = {v}
        BY <1>1, <3>1, <3>4 DEF Convert, NoParser
      <4>2. OneOther => v = Message(a).type
        BY <3>1, <3>4, <4>1 DEF OneOther, Convert
      <4>3. CASE \E type \in parser' : Decoded(a, type)
        <5>1. Decoded(a, v)
          BY <4>1, <4>3
        <5> QED BY <3>1, <4>1, <4>2, <5>1 DEF Decoded
      <4>4. CASE parser' # {Message(a).type} /\ UNCHANGED handled
        BY <4>1, <4>2, <4>4
      <4> QED BY <3>4, <4>3, <4>4 DEF Convert
    <3> QED BY <2>2, <3>2, <3>3, <3>4 DEF Handle
  <2> QED BY <2>1, <2>2
<1>5. /\ \A b : Message(b)' = Message(b) /\ (ToHandle(b)' <=> ToHandle(b))
      /\ \A t : is_valid_early(t)' <=> is_valid_early(t)
      /\ options' = options
  BY DEF Message, ToHandle, IsDescribed, IsWanted, is_valid_early
<1> HIDE DEF a
<1>6. CASE handled' = handled /\ (OneOther => ~ToHandle(a))
  <2>1. HandledInOrder'
    <3>1. SUFFICES ASSUME NEW j \in 1 .. n, NEW k \in 1 .. n
                   PROVE  \E q \in 1 .. p + 1 : \E r \in 1 .. p + 1 :
                            /\ processed'[q] = handled[j].message
                            /\ processed'[r] = handled[k].message /\ (j < k => q < r)
      BY <1>6, <1>h, <1>p, ZenonT(60) DEF HandledInOrder
    <3>2. PICK q \in 1 .. p : \E r \in 1 .. p :
                            /\ processed[q] = handled[j].message
                            /\ processed[r] = handled[k].message /\ (j < k => q < r)
      BY <1>h, <1>p, <3>1 DEF ReaderIInv, HandledInOrder
    <3>3. PICK r \in 1 .. p : /\ processed[q] = handled[j].message
                              /\ processed[r] = handled[k].message /\ (j < k => q < r)
      BY <3>2
    <3>4. /\ q \in 1 .. p + 1 /\ r \in 1 .. p + 1
          /\ processed'[q] = processed[q] /\ processed'[r] = processed[r]
      BY <1>p, <3>3
    <3> QED BY <3>3, <3>4
  <2>2. OneOther => \A k \in 1 .. p + 1 : ToHandle(processed'[k]) =>
          \E j \in 1 .. n : handled[j].message = processed'[k]
    <3>1. SUFFICES ASSUME OneOther, NEW k \in 1 .. p + 1, ToHandle(processed'[k])
                   PROVE  \E j \in 1 .. n : handled[j].message = processed'[k]
      OBVIOUS
    <3>2. k # p + 1
      BY <1>6, <1>p, <3>1
    <3>3. k \in 1 .. p
      BY <3>2
    <3> QED BY <1>h, <1>p, <3>1, <3>3 DEF ReaderIInv, HandledWanted
  <2>3. HandledWanted'
    BY <1>5, <1>6, <1>h, <1>p, <2>2 DEF ReaderIInv, HandledWanted
  <2> QED BY <1>1, <1>4, <1>6, <2>1, <2>3
<1>7. ASSUME NEW type \in Versions, handled' = Append(handled, [message |-> a, by |-> type]),
             OneOther => type = Message(a).type,
             options.process_always \/ is_valid_early(Message(a).time)
      PROVE  HandledInOrder' /\ HandledWanted' /\ handled' \in Seq(H)
  <2>1. [message |-> a, by |-> type] \in H
    BY <1>2 DEF a
  <2> HIDE DEF H
  <2>2. /\ handled' \in Seq(H) /\ Len(handled') = n + 1
        /\ handled'[n + 1] = [message |-> a, by |-> type]
        /\ \A j \in 1 .. n : handled'[j] = handled[j]
    BY <1>1, <1>7, <1>h, <2>1
  <2>3. HandledInOrder'
    <3>0. Len(processed') = p + 1 /\ Len(handled') = n + 1
      BY <1>p, <2>2
    <3> SUFFICES ASSUME NEW j \in 1 .. Len(handled'), NEW k \in 1 .. Len(handled')
                 PROVE  \E q, r \in 1 .. Len(processed') :
                          /\ processed'[q] = handled'[j].message
                          /\ processed'[r] = handled'[k].message /\ (j < k => q < r)
      BY DEF HandledInOrder
    <3>1. SUFFICES \E q \in 1 .. p + 1 : \E r \in 1 .. p + 1 :
                          /\ processed'[q] = handled'[j].message
                          /\ processed'[r] = handled'[k].message /\ (j < k => q < r)
      BY <3>0
    <3>2. ASSUME NEW l \in 1 .. n
          PROVE  \E q \in 1 .. p : processed'[q] = handled'[l].message
      <4>1. \E q \in 1 .. p : processed[q] = handled[l].message
        BY <1>h, <1>p DEF ReaderIInv, HandledInOrder
      <4> QED BY <1>p, <2>2, <4>1
    <3>3. handled'[n + 1].message = a /\ processed'[p + 1] = a /\ p + 1 \in 1 .. p + 1
      BY <1>p, <2>2
    <3>4. CASE j = n + 1 /\ k = n + 1
      <4>1. /\ processed'[p + 1] = handled'[j].message
            /\ processed'[p + 1] = handled'[k].message
        BY <3>3, <3>4
      <4>2. ~(j < k)
        BY <3>4
      <4> QED BY <3>3, <4>1, <4>2
    <3>5. CASE j = n + 1 /\ k \in 1 .. n
      <4>1. PICK r \in 1 .. p : processed'[r] = handled'[k].message
        BY <3>2, <3>5
      <4>2. r \in 1 .. p + 1 /\ ~(j < k)
        BY <3>5, <4>1
      <4> QED BY <3>3, <3>5, <4>1, <4>2
    <3>6. CASE j \in 1 .. n /\ k = n + 1
      <4>1. PICK q \in 1 .. p : processed'[q] = handled'[j].message
        BY <3>2, <3>6
      <4>2. q \in 1 .. p + 1 /\ q < p + 1
        BY <4>1
      <4> QED BY <3>3, <3>6, <4>1, <4>2
    <3>7. CASE j \in 1 .. n /\ k \in 1 .. n
      <4>1. PICK q \in 1 .. p : \E r \in 1 .. p :
                            /\ processed[q] = handled[j].message
                            /\ processed[r] = handled[k].message /\ (j < k => q < r)
        BY <1>h, <1>p, <3>7 DEF ReaderIInv, HandledInOrder
      <4>2. PICK r \in 1 .. p : /\ processed[q] = handled[j].message
                                /\ processed[r] = handled[k].message /\ (j < k => q < r)
        BY <4>1
      <4>3. /\ q \in 1 .. p + 1 /\ r \in 1 .. p + 1
            /\ processed'[q] = processed[q] /\ processed'[r] = processed[r]
            /\ handled'[j] = handled[j] /\ handled'[k] = handled[k]
        BY <1>p, <2>2, <3>7, <4>2
      <4> QED BY <4>2, <4>3
    <3>8. (j = n + 1 \/ j \in 1 .. n) /\ (k = n + 1 \/ k \in 1 .. n)
      BY <3>0
    <3> QED BY <3>4, <3>5, <3>6, <3>7, <3>8
  <2>4. OneOther => \A k \in 1 .. p + 1 : ToHandle(processed'[k]) =>
          \E j \in 1 .. n + 1 : handled'[j].message = processed'[k]
    <3>1. SUFFICES ASSUME OneOther, NEW k \in 1 .. p + 1, ToHandle(processed'[k])
                   PROVE  \E j \in 1 .. n + 1 : handled'[j].message = processed'[k]
      OBVIOUS
    <3>2. CASE k = p + 1
      BY <1>p, <2>2, <3>2
    <3>3. CASE k \in 1 .. p
      <4>1. PICK j \in 1 .. n : handled[j].message = processed[k]
        <5>1. processed'[k] = processed[k]
          BY <1>p, <3>3
        <5> QED BY <1>h, <1>p, <3>1, <3>3, <5>1 DEF ReaderIInv, HandledWanted
      <4>2. j \in 1 .. n + 1 /\ handled'[j].message = processed'[k]
        BY <1>p, <2>2, <3>3, <4>1
      <4> QED BY <4>2
    <3>4. k = p + 1 \/ k \in 1 .. p
      BY <3>1
    <3> QED BY <3>2, <3>3, <3>4
  <2>5. \A j \in 1 .. n + 1 :
          options.process_always \/ is_valid_early(Message(handled'[j].message).time)
    <3>1. SUFFICES ASSUME NEW j \in 1 .. n + 1
            PROVE  options.process_always \/ is_valid_early(Message(handled'[j].message).time)
      OBVIOUS
    <3>2. CASE j = n + 1
      BY <1>7, <2>2, <3>2
    <3>3. CASE j \in 1 .. n
      BY <1>h, <2>2, <3>3 DEF ReaderIInv, HandledWanted
    <3> QED BY <3>1, <3>2, <3>3
  <2>6. OneOther => \A j \in 1 .. n + 1 : handled'[j].by = Message(handled'[j].message).type
    <3>1. SUFFICES ASSUME OneOther, NEW j \in 1 .. n + 1
            PROVE  handled'[j].by = Message(handled'[j].message).type
      OBVIOUS
    <3>2. CASE j = n + 1
      BY <1>7, <2>2, <3>1, <3>2
    <3>3. CASE j \in 1 .. n
      BY <1>h, <2>2, <3>1, <3>3 DEF ReaderIInv, HandledWanted
    <3> QED BY <3>1, <3>2, <3>3
  <2>7. HandledWanted'
    BY <1>5, <1>p, <2>2, <2>4, <2>5, <2>6 DEF HandledWanted
  <2> QED BY <2>2, <2>3, <2>7
<1> QED BY <1>4, <1>6, <1>7

LEMMA SkipIs ==
  ASSUME NEW s \in Stream
  PROVE  /\ skip_message(s) \in Stream /\ skip_message(s).at = s.at + 1
         /\ skip_message(s).dictionary = s.dictionary
<1>1. /\ s = [at |-> s.at, dictionary |-> s.dictionary]
      /\ s.at \in Nat \ {0} /\ s.dictionary \in SUBSET Types
  BY DEF Stream
<1>2. skip_message(s) = [at |-> s.at + 1, dictionary |-> s.dictionary]
  BY <1>1 DEF skip_message
<1> QED BY <1>1, <1>2 DEF Stream

\* processMessage goes past the earliest of the messages ahead.
LEMMA ProcessKeeps ==
  ASSUME ReaderIInv, is_opened, Found, ProcessFound, asked' = NotAsked,
         num_corruptions' = num_corruptions + NumSkipped,
         UNCHANGED <<log, options, is_opened, corruptionsBefore, restarts, finish_reading, ended>>
  PROVE  ReaderIInv'
<1>1. PICK f \in Streams : f = next_si
  BY FoundIs
<1>2. PICK i \in Nat \ {0} : i = Scanned[f].at
  BY <1>1, FoundIs
<1> DEFINE t == input_streams'
           a == <<f, i>>
<1>3. /\ IsLog(log) /\ Positions(input_streams) /\ Streams \subseteq DOMAIN log
      /\ num_corruptions \in Nat /\ corruptionsBefore \in Nat /\ Halting = {} /\ f \in DOMAIN log
  BY <1>1, Basics DEF Found
<1>4. Positions(Scanned) /\ \A g \in Streams : Reaches(g, Scanned[g])
  BY <1>3, ScannedReaches
<1>5. IsData(f, i) /\ log[f][i] \in Item /\ Len(log[f]) \in Nat /\ i <= Len(log[f])
  <2>1. IsData(f, i)
    BY <1>1, <1>2, FoundIs
  <2> QED BY <1>3, <2>1, ItemIs DEF IsData
<1>6. /\ processed' = Append(processed, a)
      /\ \/ IsWanted(a, Scanned[f].dictionary) /\ Handle(a)
         \/ ~IsWanted(a, Scanned[f].dictionary) /\ UNCHANGED handlerVars
      /\ input_streams' = [Scanned EXCEPT ![f] = skip_message(Scanned[f])]
  BY <1>1, <1>2 DEF ProcessFound
<1>7. /\ t \in Seq(Stream) /\ DOMAIN t = Streams
      /\ t[f].at = i + 1 /\ t[f].dictionary = Scanned[f].dictionary
      /\ \A g \in Streams : /\ g # f => t[g] = Scanned[g]
                            /\ t[g].at \in Nat \ {0} /\ Scanned[g].at \in Nat \ {0}
                            /\ Scanned[g].at <= t[g].at
  <2>1. Scanned[f] \in Stream /\ Scanned \in Seq(Stream) /\ DOMAIN Scanned = Streams
    BY <1>4 DEF Positions
  <2>2. /\ skip_message(Scanned[f]) \in Stream /\ skip_message(Scanned[f]).at = i + 1
        /\ skip_message(Scanned[f]).dictionary = Scanned[f].dictionary
    BY <1>2, <2>1, SkipIs
  <2>3. \A g \in Streams : Scanned[g].at \in Nat \ {0}
    BY <1>4 DEF Positions, IsPosition
  <2> HIDE DEF Scanned
  <2>4. t \in Seq(Stream) /\ DOMAIN t = Streams /\ t[f] = skip_message(Scanned[f])
        /\ \A g \in Streams : g # f => t[g] = Scanned[g]
    BY <1>6, <2>1, <2>2
  <2>5. \A g \in Streams : t[g].at \in Nat \ {0} /\ Scanned[g].at <= t[g].at
    BY <1>2, <2>2, <2>3, <2>4
  <2> QED BY <2>2, <2>3, <2>4, <2>5
<1>8. Streams' = Streams
  BY <1>7 DEF Streams
<1>9. /\ ProcessedBefore(Scanned) /\ NoneEarlier(Scanned) /\ TypesKnown(Scanned)
  BY <1>3, <1>4, ScanKeeps DEF ReaderIInv
<1>10. ~ended
  BY DEF ReaderIInv, EndIsLate, Found
<1>11. /\ processed \in Seq(Nat \X Nat) /\ a \in Nat \X Nat /\ f \in Nat
  <2>1. f \in Nat
    BY <1>3 DEF Positions
  <2> QED BY <2>1 DEF ReaderIInv, ReaderTypeOK
<1>p. PICK p \in Nat : /\ p = Len(processed) /\ Len(processed') = p + 1 /\ processed'[p + 1] = a
                       /\ \A k \in 1 .. p : processed'[k] = processed[k]
                       /\ processed' \in Seq(Nat \X Nat)
  <2> DEFINE P == Nat \X Nat
  <2>1. processed \in Seq(P) /\ a \in P /\ processed' = Append(processed, a)
    BY <1>6, <1>11
  <2> HIDE DEF P, a
  <2>2. /\ Len(processed) \in Nat /\ Len(processed') = Len(processed) + 1
        /\ processed'[Len(processed) + 1] = a /\ processed' \in Seq(P)
        /\ \A k \in 1 .. Len(processed) : processed'[k] = processed[k]
    BY <2>1
  <2> QED BY <2>2 DEF P
<1>12. Message(a) = log[f][i] /\ \A b : Message(b)' = Message(b)
  BY DEF Message
<1>13. FilesOrdered' = FilesOrdered
  BY DEF FilesOrdered, Messages, Message
<1>14. \A g, j : IsData(g, j)' <=> IsData(g, j)
  BY DEF IsData
<1>15. ASSUME NEW g \in Streams, NEW j, j \in 1 .. t[g].at - 1
       PROVE  j \in 1 .. Scanned[g].at - 1 \/ (g = f /\ j = i)
  <2>1. CASE g = f
    BY <1>2, <1>7, <1>15, <2>1
  <2>2. CASE g # f
    BY <1>7, <1>15, <2>2
  <2> QED BY <2>1, <2>2
<1> HIDE DEF t
<1>16. ProcessedBefore(input_streams)'
  <2>1. ASSUME NEW k \in 1 .. p + 1
        PROVE  \E g \in Streams : \E j \in 1 .. t[g].at - 1 : processed'[k] = <<g, j>> /\ IsData(g, j)
    <3>1. CASE k = p + 1
      <4>1. i \in 1 .. t[f].at - 1
        BY <1>7
      <4> QED BY <1>5, <1>p, <3>1, <4>1
    <3>2. CASE k \in 1 .. p
      <4>1. PICK g \in Streams : \E j \in 1 .. Scanned[g].at - 1 :
                                   processed[k] = <<g, j>> /\ IsData(g, j)
        BY <1>9, <1>p, <3>2 DEF ProcessedBefore
      <4>2. PICK j \in 1 .. Scanned[g].at - 1 : processed[k] = <<g, j>> /\ IsData(g, j)
        BY <4>1
      <4>3. j \in 1 .. t[g].at - 1
        BY <1>7, <4>2
      <4>4. processed'[k] = processed[k]
        BY <1>p, <3>2
      <4> QED BY <4>2, <4>3, <4>4
    <3> QED BY <2>1, <3>1, <3>2
  <2>2. ASSUME NEW g \in Streams, NEW j \in 1 .. t[g].at - 1, IsData(g, j)
        PROVE  \E k \in 1 .. p + 1 : processed'[k] = <<g, j>>
    <3>1. CASE g = f /\ j = i
      BY <1>p, <3>1
    <3>2. CASE j \in 1 .. Scanned[g].at - 1
      <4>1. PICK k \in 1 .. p : processed[k] = <<g, j>>
        BY <1>9, <1>p, <2>2, <3>2 DEF ProcessedBefore
      <4>2. k \in 1 .. p + 1
        OBVIOUS
      <4>3. processed'[k] = processed[k]
        BY <1>p
      <4> QED BY <4>1, <4>2, <4>3
    <3> QED BY <1>15, <3>1, <3>2
  <2>3. ASSUME NEW j \in 1 .. p + 1, NEW k \in 1 .. p + 1, j < k
        PROVE  processed'[j] # processed'[k]
    <3>1. j \in 1 .. p
      BY <2>3
    <3>2. CASE k = p + 1
      <4>1. PICK g \in Streams : \E l \in 1 .. Scanned[g].at - 1 : processed[j] = <<g, l>>
        BY <1>9, <1>p, <3>1 DEF ProcessedBefore
      <4>2. PICK l \in 1 .. Scanned[g].at - 1 : processed[j] = <<g, l>>
        BY <4>1
      <4>3. <<g, l>> # <<f, i>>
        BY <1>2, <4>2
      <4> QED BY <1>p, <3>1, <3>2, <4>2, <4>3
    <3>3. CASE k \in 1 .. p
      BY <1>9, <1>p, <2>3, <3>1, <3>3 DEF ProcessedBefore
    <3> QED BY <2>3, <3>2, <3>3
  <2>4. Len(processed') = p + 1
    BY <1>p
  <2> QED BY <1>8, <1>14, <2>1, <2>2, <2>3, <2>4 DEF ProcessedBefore, t
<1>17. NoneEarlier(input_streams)'
  <2>1. SUFFICES ASSUME FilesOrdered, NEW k \in 1 .. p + 1, NEW g \in Streams, NEW j \in Nat,
                        IsData(g, j), t[g].at <= j
                 PROVE  Message(processed'[k]).time <= log[g][j].time
    BY <1>8, <1>12, <1>13, <1>14, <1>p DEF NoneEarlier, t
  <2>2. Scanned[g].at <= j
    BY <1>7, <2>1
  <2>3. CASE k = p + 1
    <3>1. TimeOf(next_si) <= log[g][j].time
      BY <1>3, <2>1, <2>2, AheadIsLater
    <3> QED BY <1>1, <1>2, <1>12, <1>p, <2>3, <3>1 DEF TimeOf
  <2>4. CASE k \in 1 .. p
    BY <1>9, <1>p, <2>1, <2>2, <2>4 DEF NoneEarlier
  <2> QED BY <2>1, <2>3, <2>4
<1>18. InTimeOrder'
  <2>1. SUFFICES ASSUME FilesOrdered, NEW j \in 1 .. p + 1, NEW k \in 1 .. p + 1, j < k
                 PROVE  Message(processed'[j]).time <= Message(processed'[k]).time
    BY <1>12, <1>13, <1>p DEF InTimeOrder
  <2>2. j \in 1 .. p
    BY <2>1
  <2>3. CASE k = p + 1
    <3>1. Message(processed[j]).time <= log[f][i].time
      <4>1. i \in Nat /\ Scanned[f].at <= i
        BY <1>2
      <4> QED BY <1>5, <1>9, <1>p, <2>1, <2>2, <4>1 DEF NoneEarlier
    <3> QED BY <1>12, <1>p, <2>2, <2>3, <3>1
  <2>4. CASE k \in 1 .. p
    BY <1>p, <2>1, <2>2, <2>4 DEF ReaderIInv, InTimeOrder
  <2> QED BY <2>1, <2>3, <2>4
<1>19. TypesKnown(input_streams)'
  <2>1. ASSUME NEW g \in Streams, NEW j \in 1 .. t[g].at - 1, log[g][j].kind = "metadata"
        PROVE  log[g][j].type \in t[g].dictionary
    <3>1. ~(g = f /\ j = i)
      BY <1>5, <2>1 DEF IsData
    <3>2. j \in 1 .. Scanned[g].at - 1
      BY <1>15, <3>1
    <3>3. log[g][j].type \in Scanned[g].dictionary
      BY <1>9, <2>1, <3>2 DEF TypesKnown
    <3> QED BY <1>7, <3>3
  <2> QED BY <1>8, <2>1 DEF TypesKnown, t
<1>20. HandledInOrder' /\ HandledWanted'
       /\ parser' \in {NoParser} \cup {{v} : v \in Versions \ {HandlerType}}
       /\ handled' \in Seq([message : Nat \X Nat, by : Versions])
  <2>1. ASSUME IsDescribed(a) PROVE log[f][i].type \in Scanned[f].dictionary
    <3>1. PICK j \in 1 .. i - 1 : log[f][j].kind = "metadata" /\ log[f][j].type = log[f][i].type
      BY <2>1 DEF IsDescribed, Message
    <3> QED BY <1>2, <1>9, <3>1 DEF TypesKnown
  <2> QED BY <1>5, <1>6, <2>1, HandleKeeps
<1>21. CorruptionsCounted'
  <2>1. JunkOf(Starts, PositionOf(t)) = JunkOf(Starts, PositionOf(Scanned))
    <3>1. ASSUME NEW g \in Streams, NEW j, IsKind(log[g], j, {"junk", "stub"})
          PROVE  j \in 1 .. t[g].at - 1 <=> j \in 1 .. Scanned[g].at - 1
      <4>1. ~(g = f /\ j = i)
        BY <1>5, <3>1 DEF IsData, IsKind
      <4>2. j \in 1 .. t[g].at - 1 => j \in 1 .. Scanned[g].at - 1
        BY <1>15, <4>1
      <4>3. j \in 1 .. Scanned[g].at - 1 => j \in 1 .. t[g].at - 1
        BY <1>7
      <4> QED BY <4>2, <4>3
    <3>2. \A g \in Streams : /\ Starts[g] = 1 /\ PositionOf(t)[g] = t[g].at
                             /\ PositionOf(Scanned)[g] = Scanned[g].at
      BY DEF Starts, PositionOf
    <3>3. ASSUME NEW q
          PROVE  q \in JunkOf(Starts, PositionOf(t)) <=> q \in JunkOf(Starts, PositionOf(Scanned))
      BY <3>1, <3>2, JunkOfIs
    <3> QED BY <3>3
  <2>2. SUFFICES ASSUME options.try_recovery
                 PROVE  num_corruptions' =
                          corruptionsBefore + Cardinality(JunkOf(Starts, PositionOf(Scanned)))
    BY <1>7, <2>1, CountedIs DEF t
  <2>3. /\ NumSkipped \in Nat
        /\ Cardinality(JunkOf(Starts, PositionOf(Scanned)))
              = Cardinality(JunkOf(Starts, PositionOf(input_streams))) + NumSkipped
    BY <1>3, ScanCounts
  <2>4. num_corruptions =
          corruptionsBefore + Cardinality(JunkOf(Starts, PositionOf(input_streams)))
    BY <2>2, CountedNow
  <2>5. Cardinality(JunkOf(Starts, PositionOf(input_streams))) \in Nat
    BY <1>3, JunkIsFinite
  <2> QED BY <1>3, <2>3, <2>4, <2>5
<1>22. IsLog(log)' /\ OpenOrNot' /\ EndIsLate(input_streams)' /\ Peeked'
  <2>1. OpenOrNot'
    BY <1>7 DEF ReaderIInv, OpenOrNot, Streams, t
  <2>2. Peeked'
    BY DEF Peeked, NotAsked
  <2> QED BY <1>3, <1>10, <2>1, <2>2 DEF IsLog, EndIsLate
<1>23. ReaderTypeOK'
  <2>1. \A g \in Streams : t[g].at \in 1 .. Len(log[g]) + 1
    <3>1. ASSUME NEW g \in Streams PROVE t[g].at \in 1 .. Len(log[g]) + 1
      <4>1. Len(log[g]) \in Nat /\ Scanned[g].at <= Len(log[g]) + 1
        BY <1>3, <1>4, ItemIs DEF Positions, IsPosition
      <4>2. CASE g = f
        BY <1>5, <1>7, <4>2
      <4>3. CASE g # f
        BY <1>7, <4>1, <4>3
      <4> QED BY <4>2, <4>3
    <3> QED BY <3>1
  <2>2. NumSkipped \in Nat
    BY <1>3, ScanCounts
  <2>3. num_corruptions' \in Nat /\ corruptionsBefore \in 0 .. num_corruptions'
    <3>1. corruptionsBefore <= num_corruptions
      BY DEF ReaderIInv, ReaderTypeOK
    <3> QED BY <1>3, <2>2, <3>1
  <2>4. \A k \in 1 .. Len(processed') : Message(processed'[k]).kind = "data"
    <3>1. SUFFICES ASSUME NEW k \in 1 .. p + 1 PROVE Message(processed'[k]).kind = "data"
      BY <1>p
    <3>2. CASE k = p + 1
      BY <1>5, <1>12, <1>p, <3>2 DEF IsData
    <3>3. CASE k \in 1 .. p
      BY <1>p, <3>3 DEF ReaderIInv, ReaderTypeOK
    <3> QED BY <3>1, <3>2, <3>3
  <2>5. asked' \in {NotAsked, -1} \cup Times
    OBVIOUS
  <2>6. \A g \in Streams' : input_streams'[g].at \in 1 .. Len(log'[g]) + 1
    BY <1>8, <2>1 DEF t
  <2>7. input_streams' \in Seq(Stream)
    BY <1>7 DEF t
  <2>8. \A k \in 1 .. Len(processed') : (Message(processed[k]).kind = "data")'
    BY <1>12, <2>4
  <2>9. /\ log' \in Seq(Seq(Item)) /\ options' \in Options /\ is_opened' \in BOOLEAN
        /\ finish_reading' \in BOOLEAN /\ ended' \in BOOLEAN /\ restarts' \in 0 .. MaxRestarts
    BY DEF ReaderIInv, ReaderTypeOK
  <2> QED BY <1>20, <1>p, <2>3, <2>5, <2>6, <2>7, <2>8, <2>9 DEF ReaderTypeOK
<1> QED BY <1>16, <1>17, <1>18, <1>19, <1>20, <1>21, <1>22, <1>23 DEF ReaderIInv
-----------------------------------------------------------------------------
(* Open, close, count, and the start.                                      *)

\* A reader that has everything ahead of it.
Fresh ==
  /\ IsLog(log) /\ options \in Options /\ is_opened \in BOOLEAN /\ finish_reading \in BOOLEAN
  /\ input_streams \in Seq(Stream) /\ DOMAIN input_streams = IF is_opened THEN DOMAIN log ELSE {}
  /\ \A f \in Streams : input_streams[f].at = 1
  /\ num_corruptions \in Nat /\ corruptionsBefore = num_corruptions
  /\ parser \in {NoParser} \cup {{v} : v \in Versions \ {HandlerType}}
  /\ processed = << >> /\ handled = << >> /\ ended = FALSE /\ asked = NotAsked
  /\ restarts \in 0 .. MaxRestarts

LEMMA FreshIs == Fresh => ReaderIInv
<1> SUFFICES ASSUME Fresh PROVE ReaderIInv
  OBVIOUS
<1> USE DEF Fresh
<1>1. \A f \in Streams : f \in DOMAIN log /\ Len(log[f]) \in Nat
  <2>1. ASSUME NEW f \in Streams PROVE f \in DOMAIN log /\ Len(log[f]) \in Nat
    <3>1. f \in DOMAIN log
      BY DEF Streams
    <3>2. log[f] \in Seq(Item)
      BY <3>1 DEF IsLog
    <3> QED BY <3>1, <3>2
  <2> QED BY <2>1
<1>2. ReaderTypeOK
  <2>1. \A f \in Streams : input_streams[f].at \in 1 .. Len(log[f]) + 1
    BY <1>1
  <2>2. processed \in Seq(Nat \X Nat) /\ handled \in Seq([message : Nat \X Nat, by : Versions])
    OBVIOUS
  <2>3. corruptionsBefore \in 0 .. num_corruptions
    OBVIOUS
  <2>4. \A k \in 1 .. Len(processed) : Message(processed[k]).kind = "data"
    OBVIOUS
  <2>5. ended \in BOOLEAN /\ asked \in {NotAsked, -1} \cup Times /\ log \in Seq(Seq(Item))
    BY DEF IsLog
  <2> QED BY <2>1, <2>2, <2>3, <2>4, <2>5 DEF ReaderTypeOK
<1>3. Len(processed) = 0 /\ Len(handled) = 0
  OBVIOUS
<1>4. OpenOrNot
  BY DEF OpenOrNot
<1>5. ProcessedBefore(input_streams) /\ NoneEarlier(input_streams) /\ TypesKnown(input_streams)
  BY <1>3 DEF ProcessedBefore, NoneEarlier, TypesKnown
<1>6. InTimeOrder /\ EndIsLate(input_streams) /\ HandledInOrder /\ HandledWanted /\ Peeked
  BY <1>3 DEF InTimeOrder, EndIsLate, HandledInOrder, HandledWanted, Peeked, NotAsked
<1>7. CorruptionsCounted
  <2>1. \A f \in Streams : Junk(f, 1, input_streams[f].at) = {}
    BY DEF Junk
  <2>2. UNION {Junk(f, 1, input_streams[f].at) : f \in Streams} = {}
    BY <2>1
  <2>3. Cardinality(UNION {Junk(f, 1, input_streams[f].at) : f \in Streams}) = 0
    BY <2>2, FS_EmptySet
  <2> QED BY <2>3 DEF CorruptionsCounted
<1> QED BY <1>2, <1>4, <1>5, <1>6, <1>7 DEF ReaderIInv

LEMMA StartIsFresh ==
  IsLog(log) /\ options \in Options /\ ReaderStart => ReaderIInv
<1> SUFFICES ASSUME IsLog(log), options \in Options, ReaderStart PROVE ReaderIInv
  OBVIOUS
<1>1. input_streams \in Seq(Stream) /\ DOMAIN input_streams = {} /\ Streams = {}
  BY DEF ReaderStart, Streams
<1>2. restarts \in 0 .. MaxRestarts
  BY BoundsAssumption DEF ReaderStart
<1> QED BY <1>1, <1>2, FreshIs DEF ReaderStart, Fresh

\* A log is read from its start after each of these.
LEMMA RestartIsFresh ==
  ReaderIInv /\ (openUlog \/ close \/ getMessageCounts) => Fresh'
<1> SUFFICES ASSUME ReaderIInv, openUlog \/ close \/ getMessageCounts PROVE Fresh'
  OBVIOUS
<1>1. /\ IsLog(log) /\ Positions(input_streams) /\ Streams \subseteq DOMAIN log
      /\ num_corruptions \in Nat /\ options \in Options /\ finish_reading \in BOOLEAN
      /\ parser \in {NoParser} \cup {{v} : v \in Versions \ {HandlerType}}
      /\ restarts \in 0 .. MaxRestarts
  BY Basics DEF ReaderIInv, ReaderTypeOK
<1>2. /\ log' = log /\ options' = options /\ finish_reading' = finish_reading
      /\ num_corruptions' = num_corruptions /\ parser' = parser
      /\ processed' = << >> /\ handled' = << >> /\ ended' = FALSE /\ asked' = NotAsked
      /\ corruptionsBefore' = num_corruptions
  BY DEF openUlog, close, getMessageCounts, Restart, logVars
<1>3. restarts' \in 0 .. MaxRestarts
  BY <1>1, BoundsAssumption DEF openUlog, close, getMessageCounts, Restart
<1>4. PICK n \in Nat : DOMAIN log = 1 .. n
  BY <1>1 DEF IsLog
<1>5. /\ is_opened' \in BOOLEAN /\ input_streams' \in Seq(Stream)
      /\ DOMAIN input_streams' = IF is_opened' THEN DOMAIN log ELSE {}
      /\ \A f \in DOMAIN input_streams' : input_streams'[f].at = 1
  <2>1. CASE openUlog
    <3>1. Start \in Stream /\ Start.at = 1
      BY DEF Start, Stream
    <3>2. is_opened' = TRUE /\ input_streams' = [f \in 1 .. n |-> Start]
      BY <1>4, <2>1 DEF openUlog
    <3> HIDE DEF Start
    <3> QED BY <1>4, <3>1, <3>2
  <2>2. CASE close
    <3>1. is_opened' = FALSE /\ input_streams' = << >>
      BY <2>2 DEF close
    <3>2. << >> \in Seq(Stream) /\ DOMAIN << >> = {}
      OBVIOUS
    <3> QED BY <3>1, <3>2
  <2>3. CASE getMessageCounts
    <3> DEFINE whole(f) == MoveTo(log[f], [Start EXCEPT !.dictionary = input_streams[f].dictionary],
                                  Len(log[f]) + 1)
    <3>1. is_opened /\ is_opened' = TRUE /\ DOMAIN input_streams = 1 .. n /\ Streams = 1 .. n
      BY <1>4, <2>3 DEF getMessageCounts, ReaderIInv, OpenOrNot, Streams
    <3>2. input_streams' = [f \in 1 .. n |-> [whole(f) EXCEPT !.at = 1]]
      BY <2>3, <3>1 DEF getMessageCounts
    <3>3. ASSUME NEW f \in 1 .. n
          PROVE  [whole(f) EXCEPT !.at = 1] \in Stream /\ [whole(f) EXCEPT !.at = 1].at = 1
      <4> DEFINE s == [Start EXCEPT !.dictionary = input_streams[f].dictionary]
      <4>1. /\ log[f] \in Seq(Item) /\ Len(log[f]) \in Nat
            /\ input_streams[f].dictionary \in SUBSET Types
        BY <1>1, <3>1, ItemIs DEF Stream
      <4>2. s \in Stream /\ s.at = 1
        BY <4>1 DEF Start, Stream
      <4>3. IsPosition(log[f], s.at) /\ IsPosition(log[f], Len(log[f]) + 1)
        BY <4>1, <4>2 DEF IsPosition
      <4> HIDE DEF s
      <4>4. MoveTo(log[f], s, Len(log[f]) + 1) \in Stream
        BY <4>1, <4>2, <4>3, MoveToIs
      <4>5. whole(f) \in Stream
        BY <4>4 DEF s
      <4> HIDE DEF whole
      <4> QED BY <4>5 DEF Stream
    <3> HIDE DEF whole
    <3>4. input_streams' \in Seq(Stream) /\ DOMAIN input_streams' = 1 .. n
      BY <3>2, <3>3
    <3>5. \A f \in 1 .. n : input_streams'[f].at = 1
      BY <3>2, <3>3
    <3> QED BY <1>4, <3>1, <3>4, <3>5
  <2> QED BY <2>1, <2>2, <2>3
<1> QED BY <1>1, <1>2, <1>3, <1>5 DEF Fresh, IsLog, Streams

LEMMA ReaderKeeps ==
  ReaderIInv /\ ReaderNext => ReaderIInv'
<1>1. ReaderIInv /\ (openUlog \/ close \/ getMessageCounts) => ReaderIInv'
  BY RestartIsFresh, FreshIs, PTL
<1>2. ASSUME ReaderIInv, processMessage PROVE ReaderIInv'
  <2>1. CASE FoundNone /\ UNCHANGED <<processed, handlerVars>>
    BY <1>2, <2>1, NoneKeeps DEF processMessage, logVars, handlerVars
  <2>2. CASE Found /\ ProcessFound /\ num_corruptions' = num_corruptions + NumSkipped
             /\ UNCHANGED <<finish_reading, ended>>
    BY <1>2, <2>2, ProcessKeeps DEF processMessage, logVars
  <2> QED BY <1>2, <2>1, <2>2 DEF processMessage
<1>3. ASSUME ReaderIInv, getNextTimestamp PROVE ReaderIInv'
  <2>1. CASE FoundNone /\ asked' = -1
    BY <1>3, <2>1, NoneKeeps DEF getNextTimestamp, logVars, handlerVars
  <2>2. CASE Found /\ asked' = TimeOf(next_si) /\ input_streams' = Scanned
             /\ num_corruptions' = num_corruptions + NumSkipped /\ UNCHANGED <<finish_reading, ended>>
    BY <1>3, <2>2, PeekKeeps DEF getNextTimestamp, logVars, handlerVars
  <2> QED BY <1>3, <2>1, <2>2 DEF getNextTimestamp
<1> QED BY <1>1, <1>2, <1>3 DEF ReaderNext
-----------------------------------------------------------------------------
(* The reader of a log, merged or not.                                     *)

\* A reader has not begun while files are merged.
NotYetRead == merging \in {"yes", "thrown"} => ReaderStart

\* The file that merge returns is a log.
LEMMA MergedIsLog ==
  ASSUME KeepsIInv, MergeReturns
  PROVE  IsLog(log)'
<1>1. CASE written = << >>
  <2>1. log' = << >>
    BY <1>1 DEF MergeReturns
  <2> QED BY <2>1 DEF IsLog
<1>2. CASE written # << >>
  <2> DEFINE file == [k \in 1 .. Len(written) |-> inputs[written[k][1]][written[k][2]]]
  <2>1. log' = <<file>>
    BY <1>2 DEF MergeReturns
  <2>2. Len(written) \in Nat /\ written \in Seq((DOMAIN inputs) \X Nat)
    BY DEF KeepsIInv, MergeTypes
  <2>3. ASSUME NEW k \in 1 .. Len(written)
        PROVE  file[k] \in Item /\ file[k].kind \in {"metadata", "data"}
    <3>1. written[k] \in (DOMAIN inputs) \X Nat
      BY <2>2
    <3>2. PICK f \in DOMAIN inputs : f = written[k][1]
      BY <3>1
    <3>3. PICK i \in Nat : i = written[k][2]
      BY <3>1
    <3>4. inputs[f] \in Seq(Item) /\ ptrs[f] \in Nat \ {0} /\ ptrs[f] <= Len(inputs[f]) + 1
      BY DEF KeepsIInv, MergeTypes
    <3>5. i \in 1 .. ptrs[f] - 1
      BY <3>2, <3>3 DEF KeepsIInv, WrittenPassed
    <3>6. i \in 1 .. Len(inputs[f])
      BY <3>4, <3>5
    <3>7. file[k] = inputs[f][i] /\ InputMessage(written[k]) = inputs[f][i]
      BY <3>2, <3>3 DEF InputMessage
    <3>8. inputs[f][i].kind \in {"metadata", "data"}
      BY <3>7 DEF KeepsIInv, PacketsWritten
    <3> QED BY <3>4, <3>6, <3>7, <3>8
  <2>4. file \in Seq(Item) /\ Len(file) = Len(written)
    BY <2>2, <2>3
  <2> HIDE DEF file
  <2>5. <<file>> \in Seq(Seq(Item))
    BY <2>4
  <2>6. \A f \in DOMAIN <<file>> : <<file>>[f] = file
    OBVIOUS
  <2>7. \A i \in 1 .. Len(file) - 1 : file[i].kind \notin {"cut", "stub"}
    <3>1. \A i \in 1 .. Len(file) - 1 : i \in 1 .. Len(written)
      BY <2>2, <2>4
    <3>2. \A i \in 1 .. Len(written) : file[i].kind \notin {"cut", "stub"}
      BY <2>3
    <3> QED BY <3>1, <3>2
  <2> QED BY <2>1, <2>5, <2>6, <2>7 DEF IsLog
<1> QED BY <1>1, <1>2

\* The inductive invariant holds of every reading, of a log as it is on disk or
\* of what merge made of it.
THEOREM ReaderInductive == MergeReaderSpec => []ReaderIInv
<1>1. MergeInit => ReaderIInv /\ NotYetRead
  <2>1. SUFFICES ASSUME MergeInit PROVE ReaderIInv /\ NotYetRead
    OBVIOUS
  <2>2. options \in Options /\ ReaderStart /\ (log \in Logs \/ log = << >>)
    BY <2>1 DEF MergeInit, MergeStart
  <2>3. IsLog(log)
    <3>1. CASE log \in Logs
      BY <3>1, LogsAssumption DEF IsLog
    <3>2. CASE log = << >>
      BY <3>2 DEF IsLog
    <3> QED BY <2>2, <3>1, <3>2
  <2> QED BY <2>2, <2>3, StartIsFresh DEF NotYetRead
<1>2. ASSUME ReaderIInv, UNCHANGED readerVars PROVE ReaderIInv'
  <2>1. Peeked'
    BY <1>2 DEF ReaderIInv, Peeked, Settled, IsData, Streams, is_valid_late, readerVars, logVars
  <2>2. asked \in {NotAsked, -1} \cup Times /\ (~is_opened => asked = NotAsked)
    BY <1>2 DEF ReaderIInv, ReaderTypeOK, OpenOrNot
  <2> QED BY <1>2, <2>1, <2>2, StayKeeps DEF readerVars, logVars, handlerVars
<1>3. ASSUME ReaderIInv, NotYetRead, KeepsIInv, MergeReturns PROVE ReaderIInv' /\ NotYetRead'
  <2>1. ReaderStart' /\ options' \in Options
    BY <1>3 DEF MergeReturns, NotYetRead, ReaderStart, handlerVars, ReaderIInv, ReaderTypeOK
  <2>2. IsLog(log)'
    BY <1>3, MergedIsLog
  <2>3. (IsLog(log) /\ options \in Options /\ ReaderStart)' => ReaderIInv'
    BY StartIsFresh, PTL
  <2>4. NotYetRead'
    BY <2>1 DEF NotYetRead
  <2> QED BY <2>1, <2>2, <2>3, <2>4
<1>4. ASSUME NotYetRead, MergeReaderNext, ~MergeReturns PROVE NotYetRead'
  <2>1. CASE \E f \in DOMAIN inputs : MergePacket(f) \/ MergeThrows(f)
    <3>1. merging = "yes" /\ UNCHANGED readerVars
      BY <2>1 DEF MergePacket, MergeThrows
    <3> QED BY <1>4, <3>1 DEF NotYetRead, ReaderStart, readerVars, handlerVars
  <2>2. CASE merging \in {"no", "done"} /\ UNCHANGED mergeVars
    BY <2>2 DEF NotYetRead, mergeVars
  <2> QED BY <1>4, <2>1, <2>2 DEF MergeReaderNext
<1>5. ReaderIInv /\ NotYetRead /\ KeepsIInv /\ [MergeReaderNext]_mergeReaderVars
        => ReaderIInv' /\ NotYetRead'
  <2>1. SUFFICES ASSUME ReaderIInv, NotYetRead, KeepsIInv, [MergeReaderNext]_mergeReaderVars
                 PROVE  ReaderIInv' /\ NotYetRead'
    OBVIOUS
  <2>2. CASE UNCHANGED mergeReaderVars
    <3>1. NotYetRead'
      BY <2>1, <2>2 DEF NotYetRead, ReaderStart, mergeReaderVars, mergeVars, readerVars, handlerVars
    <3> QED BY <1>2, <2>1, <2>2, <3>1 DEF mergeReaderVars
  <2>3. CASE \E f \in DOMAIN inputs : MergePacket(f) \/ MergeThrows(f)
    <3>1. UNCHANGED readerVars /\ merging = "yes" /\ ~MergeReturns
      BY <2>3 DEF MergePacket, MergeThrows, MergeReturns, Pending
    <3> QED BY <1>2, <1>4, <2>1, <2>3, <3>1 DEF MergeReaderNext
  <2>4. CASE MergeReturns
    BY <1>3, <2>1, <2>4
  <2>5. CASE merging \in {"no", "done"} /\ ReaderNext /\ UNCHANGED mergeVars
    <3>1. ReaderIInv'
      BY <2>1, <2>5, ReaderKeeps
    <3>2. NotYetRead'
      BY <2>5 DEF NotYetRead, mergeVars
    <3> QED BY <3>1, <3>2
  <2> QED BY <2>1, <2>2, <2>3, <2>4, <2>5 DEF MergeReaderNext
<1> QED BY <1>1, <1>5, KeepsInductive, PTL DEF MergeReaderSpec
-----------------------------------------------------------------------------
(* What follows.                                                           *)

\* The variables of reader and merge stay in their types: no call leaves a
\* position outside its file, or a count or a choice undefined.
THEOREM ReaderTypes == MergeReaderSpec => []MergeTypeOK
<1>1. ReaderIInv /\ KeepsIInv => MergeTypeOK
  BY DEF ReaderIInv, KeepsIInv, MergeTypes, MergeTypeOK
<1> QED BY <1>1, ReaderInductive, KeepsInductive, PTL

\* The messages of several files come out in time order, through corrupted
\* stretches, cut files, peeks and restarts: computeNextSi has looked at the
\* head of every file before it chooses.
THEOREM TimeOrder == MergeReaderSpec => []InTimeOrder
<1>1. ReaderIInv => InTimeOrder
  BY DEF ReaderIInv
<1> QED BY <1>1, ReaderInductive, PTL

\* Corrupted stretches are counted once each, however often a file is looked at.
THEOREM StretchesCounted == MergeReaderSpec => []CorruptionsCounted
<1>1. ReaderIInv => CorruptionsCounted
  BY DEF ReaderIInv
<1> QED BY <1>1, ReaderInductive, PTL

\* processMessage goes past no message twice and, once it has said that nothing
\* is left, past every message that is not too late.
THEOREM NothingMissed == MergeReaderSpec => []NothingHidden
<1>1. ReaderIInv => NothingHidden
  <2>1. SUFFICES ASSUME ReaderIInv PROVE NothingHidden
    OBVIOUS
  <2>2. ASSUME NEW j \in 1 .. Len(processed), NEW k \in 1 .. Len(processed),
               processed[j] = processed[k]
        PROVE  j = k
    <3>1. Len(processed) \in Nat
      BY <2>1 DEF ReaderIInv, ReaderTypeOK
    <3>2. ~(j < k) /\ ~(k < j)
      BY <2>1, <2>2 DEF ReaderIInv, ProcessedBefore
    <3> QED BY <3>1, <3>2
  <2>3. ASSUME ended, FilesOrdered, NEW a \in Messages, is_valid_late(Message(a).time)
        PROVE  \E k \in 1 .. Len(processed) : processed[k] = a
    <3>1. PICK f \in DOMAIN log : a \in {f} \X {i \in 1 .. Len(log[f]) : log[f][i].kind = "data"}
      BY <2>3 DEF Messages
    <3>2. PICK i \in 1 .. Len(log[f]) : a = <<f, i>> /\ log[f][i].kind = "data"
      BY <3>1
    <3>3. f \in Streams
      BY <2>1, <2>3 DEF ReaderIInv, OpenOrNot, Streams
    <3>4. input_streams[f].at \in Nat /\ Len(log[f]) \in Nat
      BY <2>1, <3>3, Basics, ItemIs
    <3>5. IsData(f, i) /\ i \in Nat
      BY <3>2, <3>4 DEF IsData
    <3>6. ~(input_streams[f].at <= i)
      BY <2>1, <2>3, <3>2, <3>3, <3>5 DEF ReaderIInv, EndIsLate, Message
    <3>7. i \in 1 .. input_streams[f].at - 1
      BY <3>2, <3>4, <3>6
    <3> QED BY <2>1, <3>2, <3>3, <3>5, <3>7 DEF ReaderIInv, ProcessedBefore
  <2> QED BY <2>2, <2>3 DEF NothingHidden
<1> QED BY <1>1, ReaderInductive, PTL

\* The handler gets each of its messages once, in order, decoded by its own
\* description, as long as there is one version beside its own: a handler
\* keeps the parser of the first other version it meets.
THEOREM HandedOnce ==
  ASSUME OneOther
  PROVE  MergeReaderSpec => []Handed
<1>1. ReaderIInv => Handed
  <2>1. SUFFICES ASSUME ReaderIInv PROVE Handed
    OBVIOUS
  <2>2. Len(handled) \in Nat /\ Len(processed) \in Nat
    BY <2>1 DEF ReaderIInv, ReaderTypeOK
  <2> DEFINE k == [j \in 1 .. Len(handled) |-> handled[j].message]
  <2>3. ASSUME NEW a \in {processed[j] : j \in 1 .. Len(processed)}, ToHandle(a)
        PROVE  Cardinality({j \in DOMAIN k : k[j] = a}) = 1
    <3>1. PICK j \in 1 .. Len(handled) : handled[j].message = a
      BY <2>1, <2>3 DEF ReaderIInv, HandledWanted
    <3>2. ASSUME NEW i \in 1 .. Len(handled), NEW l \in 1 .. Len(handled), i < l,
                 handled[i].message = a, handled[l].message = a
          PROVE  FALSE
      <4>1. PICK m \in 1 .. Len(processed) : \E n \in 1 .. Len(processed) :
              processed[m] = a /\ processed[n] = a /\ m < n
        BY <2>1, <3>2, ZenonT(60) DEF ReaderIInv, HandledInOrder
      <4>2. PICK n \in 1 .. Len(processed) : processed[m] = a /\ processed[n] = a /\ m < n
        BY <4>1
      <4> QED BY <2>1, <4>2 DEF ReaderIInv, ProcessedBefore
    <3>3. ASSUME NEW i \in 1 .. Len(handled), handled[i].message = a PROVE i = j
      BY <2>2, <3>1, <3>2, <3>3
    <3>4. {i \in DOMAIN k : k[i] = a} = {j}
      BY <3>1, <3>3
    <3> QED BY <3>4, FS_Singleton
  <2>4. \A i, j \in DOMAIN k : \E m, n \in 1 .. Len(processed) :
          processed[m] = k[i] /\ processed[n] = k[j] /\ (i < j => m < n)
    BY <2>1 DEF ReaderIInv, HandledInOrder
  <2>5. \A j \in DOMAIN k : is_valid_early(Message(k[j]).time) \/ options.process_always
    BY <2>1 DEF ReaderIInv, HandledWanted
  <2>6. \A j \in 1 .. Len(handled) : handled[j].by = Message(handled[j].message).type
    BY <2>1 DEF ReaderIInv, HandledWanted
  <2>7. \A a \in {processed[j] : j \in 1 .. Len(processed)} :
          /\ IsDescribed(a) /\ IsWanted(a, Types)
          /\ Message(a).type # HandlerType => options.allow_conversion
          => Cardinality({j \in DOMAIN k : k[j] = a}) = 1
    BY <2>3 DEF ToHandle
  <2> HIDE DEF k
  <2> QED BY <2>4, <2>5, <2>6, <2>7 DEF Handed, k
<1> QED BY <1>1, ReaderInductive, PTL

\* getNextTimestamp tells the time of the message the next processMessage goes
\* past, though both scan every file: what a scan has settled stays.
THEOREM PeekTold == MergeReaderSpec => PeekIsNext
<1> DEFINE Told == processMessage /\ asked # NotAsked =>
       IF asked = -1 THEN options.try_recovery => processed' = processed
       ELSE \E a \in Messages : processed' = Append(processed, a) /\ Message(a).time = asked
<1>1. ReaderIInv => Told
  <2>1. SUFFICES ASSUME ReaderIInv, processMessage, asked # NotAsked
                 PROVE  IF asked = -1 THEN options.try_recovery => processed' = processed
                        ELSE \E a \in Messages :
                               processed' = Append(processed, a) /\ Message(a).time = asked
    OBVIOUS
  <2>2. Peeked /\ IsLog(log) /\ Positions(input_streams) /\ Streams \subseteq DOMAIN log
    BY <2>1, Basics DEF ReaderIInv
  <2>3. CASE asked = -1
    <3>1. options.try_recovery => finish_reading
      BY <2>2, <2>3 DEF Peeked
    <3> QED BY <2>1, <2>3, <3>1 DEF processMessage, Found
  <2>4. CASE asked # -1
    <3>1. /\ ~finish_reading /\ is_valid_late(asked)
          /\ \A f \in Streams : Settled(f, input_streams[f])
          /\ \A f \in Streams : IsData(f, input_streams[f].at) =>
               asked <= log[f][input_streams[f].at].time
      BY <2>1, <2>2, <2>4 DEF Peeked
    <3>2. PICK f \in Streams :
            IsData(f, input_streams[f].at) /\ log[f][input_streams[f].at].time = asked
      BY <2>1, <2>2, <2>4 DEF Peeked
    <3>3. \A g \in Streams : Scan(g) = input_streams[g] /\ ~IsCorrupted(g)
      BY <2>2, <3>1, SettledStays
    <3>4. Halting = {}
      BY <3>3 DEF Halting
    <3>5. \A g \in Streams : Scanned[g] = input_streams[g]
      BY <2>2, <3>3, <3>4, ScannedReaches
    <3>6. f \in Left
      <4>1. Len(log[f]) \in Nat /\ input_streams[f].at \in 1 .. Len(log[f])
        BY <2>2, <3>2, ItemIs DEF IsData
      <4> QED BY <3>5, <4>1 DEF Left, empty
    <3>7. PICK n \in Left : n = next_si
      BY <2>2, <3>4, <3>6, NextIsEarliest
    <3>8. n \in Streams /\ IsData(n, Scanned[n].at) /\ TimeOf(n) <= TimeOf(f)
      BY <2>2, <3>4, <3>6, <3>7, NextIsEarliest DEF Left
    <3>9. TimeOf(f) = asked /\ asked <= TimeOf(n)
      BY <3>1, <3>2, <3>5, <3>8 DEF TimeOf
    <3>10. TimeOf(n) \in Nat /\ TimeOf(f) \in Nat
      <4>1. log[n][Scanned[n].at] \in Item /\ log[f][Scanned[f].at] \in Item
        BY <2>2, <3>2, <3>5, <3>8, ItemIs DEF IsData
      <4> QED BY <4>1, TimeIsInt DEF TimeOf
    <3>11. TimeOf(n) = asked
      BY <3>8, <3>9, <3>10
    <3>12. Found
      BY <3>1, <3>4, <3>6, <3>7, <3>11 DEF Found
    <3>13. ProcessFound
      BY <2>1, <3>1, <3>4, <3>12 DEF processMessage, FoundNone
    <3>14. processed' = Append(processed, <<n, Scanned[n].at>>)
      BY <3>7, <3>13 DEF ProcessFound
    <3>15. <<n, Scanned[n].at>> \in Messages
      BY <2>2, <3>8 DEF Messages, IsData
    <3>16. Message(<<n, Scanned[n].at>>).time = asked
      BY <3>11 DEF Message, TimeOf
    <3> QED BY <2>4, <3>14, <3>15, <3>16
  <2> QED BY <2>3, <2>4
<1> QED BY <1>1, ReaderInductive, PTL DEF PeekIsNext
-----------------------------------------------------------------------------
(* What is read is the ordered merge of the files.                         *)

\* What is left of a file are the messages from its position on.
LEMMA LeftIs ==
  ASSUME IsLog(log), NEW t, Positions(t), ProcessedBefore(t), Streams = DOMAIN log,
         NEW f \in DOMAIN log, NEW i
  PROVE  i \in Merged!Left(f) <=> IsData(f, i) /\ t[f].at <= i
<1>1. t[f].at \in Nat \ {0} /\ log[f] \in Seq(Item) /\ Len(log[f]) \in Nat
  BY DEF Positions, IsPosition, IsLog
<1>2. i \in Merged!Left(f) <=>
        IsData(f, i) /\ \A k \in 1 .. Len(processed) : processed[k] # <<f, i>>
  BY DEF Merged!Left, IsData
<1>3. ASSUME IsData(f, i)
      PROVE  t[f].at <= i <=> \A k \in 1 .. Len(processed) : processed[k] # <<f, i>>
  <2>1. i \in 1 .. Len(log[f])
    BY <1>3 DEF IsData
  <2>2. CASE t[f].at <= i
    <3>1. SUFFICES ASSUME NEW k \in 1 .. Len(processed), processed[k] = <<f, i>> PROVE FALSE
      BY <2>2
    <3>2. PICK g \in Streams : \E j \in 1 .. t[g].at - 1 : processed[k] = <<g, j>>
      BY <3>1 DEF ProcessedBefore
    <3>3. i \in 1 .. t[f].at - 1
      BY <3>1, <3>2
    <3> QED BY <1>1, <2>1, <2>2, <3>3
  <2>3. CASE ~(t[f].at <= i)
    <3>1. i \in 1 .. t[f].at - 1
      BY <1>1, <2>1, <2>3
    <3> QED BY <1>3, <2>3, <3>1 DEF ProcessedBefore
  <2> QED BY <2>2, <2>3
<1> QED BY <1>2, <1>3

\* Of settled files the first that is left is at the position.
LEMMA HeadIs ==
  ASSUME IsLog(log), NEW t, Positions(t), ProcessedBefore(t), Streams = DOMAIN log,
         NEW f \in DOMAIN log, Settled(f, t[f]), NEW i
  PROVE  Merged!IsHead(f, i) <=> i = t[f].at /\ IsData(f, i)
<1>1. t[f].at \in Nat \ {0} /\ Len(log[f]) \in Nat
  <2>1. log[f] \in Seq(Item)
    BY DEF IsLog
  <2> QED BY <2>1 DEF Positions, IsPosition
<1>2. \A j : j \in Merged!Left(f) <=> IsData(f, j) /\ t[f].at <= j
  BY LeftIs
<1>3. \A j : IsData(f, j) => j \in 1 .. Len(log[f])
  BY DEF IsData
<1>4. ASSUME i \in Merged!Left(f), \A j \in Merged!Left(f) : i <= j
      PROVE  i = t[f].at /\ IsData(f, i)
  <2>1. IsData(f, i) /\ t[f].at <= i /\ i \in 1 .. Len(log[f])
    BY <1>2, <1>3, <1>4
  <2>2. IsData(f, t[f].at)
    BY <1>1, <2>1 DEF Settled
  <2>3. i <= t[f].at
    BY <1>1, <1>2, <1>4, <2>2
  <2> QED BY <1>1, <2>1, <2>3
<1>5. ASSUME i = t[f].at, IsData(f, i)
      PROVE  i \in Merged!Left(f) /\ \A j \in Merged!Left(f) : i <= j
  BY <1>1, <1>2, <1>5
<1> QED BY <1>4, <1>5 DEF Merged!IsHead

\* The choice of computeNextSi is the next of the merge.
LEMMA NextIs ==
  ASSUME ReaderIInv, is_opened, Halting = {}, NEW f \in DOMAIN log, NEW i
  PROVE  Merged!IsNext(f, i) <=> Left # {} /\ f = next_si /\ i = Scanned[f].at
<1>1. /\ IsLog(log) /\ Positions(input_streams) /\ Streams \subseteq DOMAIN log
  BY Basics
<1>2. Streams = DOMAIN log
  BY DEF ReaderIInv, OpenOrNot, Streams
<1>3. /\ Positions(Scanned) /\ \A g \in DOMAIN log : Settled(g, Scanned[g])
      /\ \A g \in Streams : Reaches(g, Scanned[g])
  BY <1>1, <1>2, ScannedReaches
<1>4. ProcessedBefore(Scanned)
  BY <1>1, <1>3, ScanKeeps DEF ReaderIInv
<1>5. \A g \in DOMAIN log : \A j : Merged!IsHead(g, j) <=> j = Scanned[g].at /\ IsData(g, j)
  BY <1>1, <1>2, <1>3, <1>4, HeadIs
<1>6. \A g \in DOMAIN log : g \in Left <=> IsData(g, Scanned[g].at)
  <2>1. SUFFICES ASSUME NEW g \in DOMAIN log PROVE g \in Left <=> IsData(g, Scanned[g].at)
    OBVIOUS
  <2>2. Scanned[g].at \in Nat \ {0} /\ Len(log[g]) \in Nat
    <3>1. log[g] \in Seq(Item)
      BY <1>1 DEF IsLog
    <3> QED BY <1>2, <1>3, <3>1 DEF Positions, IsPosition
  <2>3. g \in Left <=> ~(Scanned[g].at > Len(log[g]))
    BY <1>2 DEF Left, empty
  <2>4. IsData(g, Scanned[g].at) => ~(Scanned[g].at > Len(log[g]))
    BY <2>2 DEF IsData
  <2> QED BY <1>3, <2>3, <2>4 DEF Settled
<1> DEFINE time(g) == log[g][Scanned[g].at].time
<1>7. \A g \in DOMAIN log : IsData(g, Scanned[g].at) => time(g) \in Nat
  <2>1. \A g \in DOMAIN log : IsData(g, Scanned[g].at) => log[g][Scanned[g].at] \in Item
    BY <1>1, <1>2, ItemIs DEF IsData
  <2> QED BY <2>1, TimeIsInt
<1>8. \A g \in DOMAIN log : \A j : j \in Merged!Left(g) => IsData(g, j)
  BY <1>1, <1>2, <1>3, <1>4, LeftIs
<1>9. Merged!IsNext(f, i) <=>
        /\ i = Scanned[f].at /\ IsData(f, i)
        /\ \A g \in DOMAIN log : IsData(g, Scanned[g].at) =>
             time(f) < time(g) \/ (time(f) = time(g) /\ f <= g)
  <2> DEFINE of(g) == [j \in {j \in 1 .. Len(log[g]) : log[g][j].kind = "data"} |-> log[g][j].time]
             all == [g \in DOMAIN log |-> of(g)]
  <2>1. \A g \in DOMAIN log : \A j : IsData(g, j) => all[g][j] = log[g][j].time
    BY DEF IsData
  <2>2. Merged!IsNext(f, i) <=>
          /\ Merged!IsHead(f, i)
          /\ \A g \in DOMAIN log : \A j \in Merged!Left(g) : Merged!IsHead(g, j) =>
               all[f][i] < all[g][j] \/ (all[f][i] = all[g][j] /\ f <= g)
    BY DEF Merged!IsNext
  <2>3. \A g \in DOMAIN log : \A j : Merged!IsHead(g, j) => j \in Merged!Left(g)
    BY DEF Merged!IsHead
  <2> HIDE DEF of, all
  <2> QED BY <1>5, <2>1, <2>2, <2>3
<1>10. DOMAIN log \subseteq Nat
  <2>1. log \in Seq(Seq(Item))
    BY <1>1 DEF IsLog
  <2> QED BY <2>1
<1>11. ASSUME Left # {}
       PROVE  /\ next_si \in DOMAIN log /\ next_si \in Left
              /\ \A g \in Left : time(next_si) < time(g) \/ (time(next_si) = time(g) /\ next_si <= g)
  BY <1>1, <1>2, <1>11, NextIsEarliest DEF Earlier, TimeOf, Left
<1> HIDE DEF time, Left, next_si
<1>12. ASSUME Merged!IsNext(f, i) PROVE Left # {} /\ f = next_si /\ i = Scanned[f].at
  <2>1. f \in Left /\ i = Scanned[f].at
    BY <1>6, <1>9, <1>12
  <2>2. PICK n \in DOMAIN log : n = next_si
    BY <1>11, <2>1
  <2>3. n \in Left /\ (time(n) < time(f) \/ (time(n) = time(f) /\ n <= f))
    BY <1>11, <2>1, <2>2
  <2>4. time(f) < time(n) \/ (time(f) = time(n) /\ f <= n)
    BY <1>6, <1>9, <1>12, <2>3
  <2>5. time(n) \in Nat /\ time(f) \in Nat /\ n \in Nat /\ f \in Nat
    BY <1>6, <1>7, <1>10, <2>1, <2>3
  <2>6. n = f
    BY <2>3, <2>4, <2>5
  <2> QED BY <2>1, <2>2, <2>6
<1>13. ASSUME Left # {}, f = next_si, i = Scanned[f].at PROVE Merged!IsNext(f, i)
  BY <1>6, <1>9, <1>11, <1>13
<1> QED BY <1>12, <1>13

\* A message that is found and gone past is given.
LEMMA FoundGives ==
  ASSUME ReaderIInv, is_opened, Found, ProcessFound, UNCHANGED <<log, options, ended>>
  PROVE  Merged!Next
<1>1. next_si \in DOMAIN log
  BY Basics, FoundIs
<1>2. PICK f \in DOMAIN log : f = next_si
  BY <1>1
<1>3. PICK i \in Nat : i = Scanned[f].at
  BY <1>2, FoundIs
<1>4. IsData(f, i)
  BY <1>2, <1>3, FoundIs
<1>5. Merged!IsNext(f, i)
  BY <1>2, <1>3, NextIs DEF Found
<1>6. i \in Merged!Left(f)
  BY <1>5 DEF Merged!IsNext, Merged!IsHead
<1>7. processed' = Append(processed, <<f, i>>)
  BY <1>2, <1>3 DEF ProcessFound
<1>8. ~ended
  BY DEF ReaderIInv, EndIsLate, Found
<1> DEFINE of(g) == [j \in {j \in 1 .. Len(log[g]) : log[g][j].kind = "data"} |-> log[g][j].time]
           all == [g \in DOMAIN log |-> of(g)]
<1>9. all[f][i] = log[f][i].time
  BY <1>4 DEF IsData
<1>10. f \in DOMAIN all
  OBVIOUS
<1>11. ~(options.endTime > 0 /\ all[f][i] > options.endTime)
  <2>1. is_valid_late(log[f][i].time)
    BY <1>2, <1>3 DEF Found, TimeOf
  <2>2. log[f][i].time \in Nat /\ options.endTime \in Int
    BY <1>2, <1>3, FoundIs, Basics DEF TimeOf
  <2> HIDE DEF all
  <2> QED BY <1>9, <2>1, <2>2 DEF is_valid_late
<1>12. Merged!Give(f, i)
  BY <1>5, <1>7, <1>8, <1>11 DEF Merged!Give, Merged!Late
<1> QED BY <1>6, <1>12 DEF Merged!Next

\* Where computeNextSi finds nothing, there is nothing, or it is too late.
LEMMA NothingFoundEnds ==
  ASSUME ReaderIInv, is_opened, ~finish_reading, Halting = {}, ~Found, ended' = TRUE,
         UNCHANGED <<log, options, processed>>
  PROVE  Merged!Next
<1> DEFINE of(g) == [j \in {j \in 1 .. Len(log[g]) : log[g][j].kind = "data"} |-> log[g][j].time]
           all == [g \in DOMAIN log |-> of(g)]
<1>1. ASSUME NEW f \in DOMAIN log, NEW i \in Merged!Left(f), Merged!IsNext(f, i)
      PROVE  options.endTime > 0 /\ all[f][i] > options.endTime
  <2>1. Left # {} /\ f = next_si /\ i = Scanned[f].at
    BY <1>1, NextIs
  <2>2. ~is_valid_late(TimeOf(f))
    BY <2>1 DEF Found
  <2>3. IsLog(log) /\ Positions(input_streams) /\ Streams \subseteq DOMAIN log /\ options.endTime \in Int
    BY Basics
  <2>4. f \in Left /\ IsData(f, i)
    BY <2>1, <2>3, NextIsEarliest
  <2>5. all[f][i] = log[f][i].time /\ TimeOf(f) = log[f][i].time
    BY <2>1, <2>4 DEF IsData, TimeOf
  <2>6. log[f][i].time \in Nat
    <3>1. log[f][i] \in Item
      BY <2>3, <2>4, ItemIs DEF IsData, Left
    <3> QED BY <3>1, TimeIsInt
  <2> HIDE DEF all
  <2> QED BY <2>2, <2>3, <2>5, <2>6 DEF is_valid_late
<1>2. DOMAIN all = DOMAIN log
  OBVIOUS
<1>3. Merged!End
  BY <1>1, <1>2 DEF Merged!End, Merged!Late
<1> QED BY <1>3 DEF Merged!Next

LEMMA ReaderMerges ==
  ASSUME ReaderIInv, ReaderNext
  PROVE  [Merged!Next]_Merged!vars
<1>1. CASE openUlog \/ close \/ getMessageCounts
  <2>1. UNCHANGED <<log, options>> /\ processed' = << >> /\ ended' = FALSE
    BY <1>1 DEF openUlog, close, getMessageCounts, Restart, logVars
  <2>2. Merged!Rewind
    BY <2>1 DEF Merged!Rewind
  <2> QED BY <2>2 DEF Merged!Next
<1>2. ASSUME is_opened, FoundNone, UNCHANGED <<log, options, processed>>
      PROVE  [Merged!Next]_Merged!vars
  <2>1. CASE UNCHANGED ended
    BY <1>2, <2>1 DEF Merged!vars
  <2>2. CASE ~finish_reading /\ Halting = {} /\ ~Found /\ ended' = TRUE
    BY <1>2, <2>2, NothingFoundEnds
  <2> QED BY <1>2, <2>1, <2>2 DEF FoundNone
<1>3. CASE processMessage
  <2>1. CASE FoundNone /\ UNCHANGED processed
    BY <1>2, <1>3, <2>1 DEF processMessage, logVars
  <2>2. CASE Found /\ ProcessFound /\ UNCHANGED ended
    BY <1>3, <2>2, FoundGives DEF processMessage, logVars
  <2> QED BY <1>3, <2>1, <2>2 DEF processMessage
<1>4. CASE getNextTimestamp
  <2>1. CASE FoundNone
    BY <1>2, <1>4, <2>1 DEF getNextTimestamp, logVars
  <2>2. CASE UNCHANGED ended
    BY <1>4, <2>2 DEF getNextTimestamp, logVars, Merged!vars
  <2> QED BY <1>4, <2>1, <2>2 DEF getNextTimestamp
<1> QED BY <1>1, <1>3, <1>4 DEF ReaderNext

\* The log that is still to be merged is empty.
Unwritten == merging = "yes" => ReaderStart /\ log = << >>

\* The reader implements the merge of the files of its log, for every log, read
\* as it is or after its files were merged into one.
THEOREM ReadingMerges == MergeReaderSpec => ReadsMerged
<1>1. MergeInit => Merged!Init /\ Unwritten
  BY DEF MergeInit, MergeStart, ReaderStart, Merged!Init, Unwritten
<1>2. Unwritten /\ [MergeReaderNext]_mergeReaderVars => Unwritten'
  <2>1. SUFFICES ASSUME Unwritten, [MergeReaderNext]_mergeReaderVars, merging' = "yes"
                 PROVE  (ReaderStart /\ log = << >>)'
    BY DEF Unwritten
  <2>2. merging = "yes" /\ UNCHANGED readerVars
    BY <2>1 DEF MergeReaderNext, MergePacket, MergeThrows, MergeReturns, mergeReaderVars, mergeVars
  <2> QED BY <2>1, <2>2 DEF Unwritten, ReaderStart, readerVars, logVars, handlerVars
<1>3. ASSUME ReaderIInv, Unwritten, [MergeReaderNext]_mergeReaderVars
      PROVE  [Merged!Next]_Merged!vars
  <2>1. CASE UNCHANGED readerVars
    BY <2>1 DEF readerVars, logVars, Merged!vars
  <2>2. CASE MergeReturns
    <3>1. /\ ReaderStart /\ log = << >> /\ UNCHANGED <<options, processed, ended>>
      BY <1>3, <2>2 DEF MergeReturns, Unwritten
    <3>2. [f \in DOMAIN log |->
            [i \in {i \in 1 .. Len(log[f]) : log[f][i].kind = "data"} |-> log[f][i].time]] = << >>
      BY <3>1
    <3>3. Merged!Write
      BY <3>1, <3>2 DEF Merged!Write, ReaderStart
    <3> QED BY <3>3 DEF Merged!Next
  <2>3. CASE ReaderNext
    BY <1>3, <2>3, ReaderMerges
  <2> QED BY <1>3, <2>1, <2>2, <2>3
       DEF MergeReaderNext, MergePacket, MergeThrows, mergeReaderVars
<1> QED BY <1>1, <1>2, <1>3, ReaderInductive, PTL DEF MergeReaderSpec, ReadsMerged, Merged!Spec
=============================================================================
