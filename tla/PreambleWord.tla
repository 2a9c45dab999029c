----------------------------- MODULE PreambleWord -----------------------------
(***************************************************************************)
(* size_ of cbuf_preamble: one word of 32 bits for the size of a message   *)
(* and its variant.  A word is its three fields: the top bit, which says   *)
(* whether there is a variant; the four bits that then are the variant,    *)
(* and otherwise the upper bits of the size; and 27 bits of the size.      *)
(***************************************************************************)
EXTENDS Integers, TLAPS

SizeSpan == 134217728      \* 2 ^ 27
Words == [top : {0, 1}, four : 0 .. 15, low : 0 .. SizeSpan - 1]
Zero == [top |-> 0, four |-> 0, low |-> 0]

VARIABLES
  size_,
  asked     \* what it was last set to: [size, variant]

wordVars == <<size_, asked>>
-----------------------------------------------------------------------------
hasVariant(w) == w.top = 1

size(w) == IF hasVariant(w) THEN [Zero EXCEPT !.low = w.low] ELSE w

variant(w) == IF hasVariant(w) THEN w.four ELSE 0

\* Less than 2 ^ 27 - 1, and than 2 ^ 31 - 1.
IsShort(w) == w.top = 0 /\ w.four = 0 /\ w.low < SizeSpan - 1
IsLong(w) == w.top = 0 /\ ~(w.four = 15 /\ w.low = SizeSpan - 1)
-----------------------------------------------------------------------------
\* Encoders set the size, of messages with and without a variant.
setSize(sz) ==
  /\ IF hasVariant(size_) THEN IsShort(sz) ELSE IsLong(sz)      \* asserted
  /\ size_' = IF hasVariant(size_) THEN [size_ EXCEPT !.low = sz.low] ELSE [sz EXCEPT !.top = 0]
  /\ asked' = [asked EXCEPT !.size = sz]

\* The logger sets the variant of what has been encoded, a program that of what
\* it will encode.  v is a uint8_t.
setVariant(v) ==
  /\ v # 0 /\ ~hasVariant(size_) => IsShort(size_)              \* asserted
  /\ size_' = IF v # 0 THEN [top |-> 1, four |-> v % 16, low |-> size_.low] ELSE size(size_)
  /\ asked' = [asked EXCEPT !.variant = v]

WordInit == size_ = Zero /\ asked = [size |-> Zero, variant |-> 0]

WordNext == (\E sz \in Words : setSize(sz)) \/ (\E v \in 0 .. 255 : setVariant(v))

WordSpec == WordInit /\ [][WordNext]_wordVars
-----------------------------------------------------------------------------
\* In whatever order they are set, and however often, the size is the one last
\* set and the variant the one last set, of which four bits are kept.
BothKept == size(size_) = asked.size /\ variant(size_) = asked.variant % 16

WordOK ==
  /\ size_ \in Words /\ asked \in [size : Words, variant : 0 .. 255]
  /\ hasVariant(size_) <=> asked.variant # 0
  /\ BothKept

\* Setting the size leaves the variant alone.
LEMMA SizeStep ==
  ASSUME WordOK, NEW sz \in Words, setSize(sz)
  PROVE  WordOK'
<1>1. asked' = [asked EXCEPT !.size = sz] /\ asked \in [size : Words, variant : 0 .. 255]
  BY DEF setSize, WordOK
<1>2. asked'.size = sz /\ asked'.variant = asked.variant /\ asked' \in [size : Words, variant : 0 .. 255]
  BY <1>1
<1>3. size_' \in Words /\ hasVariant(size_)' = hasVariant(size_) /\ variant(size_)' = variant(size_)
  BY DEF setSize, WordOK, Words, hasVariant, variant, IsShort, IsLong
<1>4. size(size_)' = sz
  BY DEF setSize, WordOK, Words, hasVariant, size, IsShort, IsLong, Zero
<1> QED BY <1>2, <1>3, <1>4 DEF WordOK, BothKept

\* Setting the variant leaves the size alone.
LEMMA VariantStep ==
  ASSUME WordOK, NEW v \in 0 .. 255, setVariant(v)
  PROVE  WordOK'
<1>1. asked' = [asked EXCEPT !.variant = v] /\ asked \in [size : Words, variant : 0 .. 255]
  BY DEF setVariant, WordOK
<1>2. asked'.size = asked.size /\ asked'.variant = v /\ asked' \in [size : Words, variant : 0 .. 255]
  BY <1>1
<1>3. v % 16 \in 0 .. 15 /\ 0 % 16 = 0
  OBVIOUS
<1>4. size_' \in Words /\ (hasVariant(size_)' <=> v # 0) /\ variant(size_)' = v % 16
  BY <1>3 DEF setVariant, WordOK, Words, hasVariant, variant, size, IsShort, Zero
<1>5. size(size_)' = size(size_)
  BY DEF setVariant, WordOK, Words, hasVariant, size, IsShort, Zero
<1> QED BY <1>2, <1>4, <1>5 DEF WordOK, BothKept

\* What setSize and setVariant of a preamble promise each other.
THEOREM SizeAndVariantKept == WordSpec => []BothKept
<1>1. WordInit => WordOK
  <2>1. SizeSpan > 0 /\ SizeSpan \in Nat /\ 0 % 16 = 0
    BY SMT DEF SizeSpan
  <2>2. Zero \in Words /\ ~hasVariant(Zero) /\ size(Zero) = Zero /\ variant(Zero) = 0
    BY <2>1 DEF size, variant, hasVariant, Words, Zero
  <2>3. 0 \in 0 .. 255
    OBVIOUS
  <2> QED BY <2>1, <2>2, <2>3 DEF WordInit, WordOK, BothKept
<1>2. WordOK /\ [WordNext]_wordVars => WordOK'
  <2> SUFFICES ASSUME WordOK, [WordNext]_wordVars PROVE WordOK'
    OBVIOUS
  <2>1. CASE UNCHANGED wordVars
    BY <2>1 DEF wordVars, WordOK, BothKept
  <2>2. CASE WordNext
    BY <2>2, SizeStep, VariantStep DEF WordNext
  <2> QED BY <2>1, <2>2
<1>3. WordOK => BothKept
  BY DEF WordOK
<1> QED BY <1>1, <1>2, <1>3, PTL DEF WordSpec
=============================================================================
