--------------------------------- MODULE Codec ---------------------------------
(***************************************************************************)
(* The code CPrinter generates for a struct: its default values, Init,     *)
(* encode_net_size, encode_net, decode_net, encode and decode.             *)
(* Bytes are cells [w, v]: w bytes that were written as one value v.  Who  *)
(* reads another width than was written there has lost its place: what it  *)
(* gets is torn.  A string is its length: there is one string of each.     *)
(* An object is [pre, f]: its preamble and the values of its elements; a   *)
(* compact array is [num, data], data of its full size.                    *)
(***************************************************************************)
EXTENDS Metadata

Preamble == 24      \* bytes: magic, size, hash, time

Cell(w, v) == [w |-> w, v |-> v]
Bytes(cells) == FoldLeft(LAMBDA n, c : n + c.w, 0, cells)

\* The first namespace searched first; a struct before an enum.
struct_type(top, st, e) == IsCustom(e) /\ find_struct(top, st, e) # {}
enum_type(top, st, e) == IsCustom(e) /\ ~struct_type(top, st, e)
InnerOf(top, st, e) == CHOOSE inner \in find_struct(top, st, e) : TRUE

\* All objects of it are copied with memcpy, element by element or in arrays.
IsFlat(top, st) == simple(top, st) /\ ~has_compact(top, st)

IsCounted(e) == e.array \in {"dynamic", "compact"}
Range1(n) == [i \in 1 .. n |-> i]
Count(e, v) == IF e.array = "compact" THEN v.num ELSE IF e.array = "none" THEN 1 ELSE Len(v)
Items(e, v) == IF e.array = "compact" THEN SubSeq(v.data, 1, v.num)
               ELSE IF e.array = "none" THEN <<v>> ELSE v
-----------------------------------------------------------------------------
(* computeSizes: where the elements lie in a packed struct.                *)

RECURSIVE csize(_, _)
typesize(top, st, e) ==
  IF e.type = "string" THEN 32
  ELSE IF ~IsCustom(e) THEN Width[e.type]
  ELSE IF find_enum(top, st, e) # {} THEN 4 ELSE csize(top, InnerOf(top, st, e))

elem_csize(top, st, e) ==
  IF e.array = "dynamic" THEN 24
  ELSE IF e.array = "none" THEN typesize(top, st, e)
  ELSE e.size * typesize(top, st, e) + IF e.array = "compact" THEN 4 ELSE 0

csize(top, st) ==
  FoldLeft(LAMBDA n, e : n + elem_csize(top, st, e), IF st.naked THEN 0 ELSE Preamble, st.elements)
-----------------------------------------------------------------------------
(* Objects.                                                                *)

NoPreamble == [size |-> 0, hash |-> << >>]

\* Size 0 until it is encoded, if it has no fixed one.
NewPreamble(top, st) ==
  IF st.naked THEN NoPreamble
  ELSE [size |-> IF simple(top, st) THEN csize(top, st) ELSE 0, hash |-> hash_value(top, st)]

RECURSIVE InitObject(_, _)
InitItem(top, st, e) ==
  IF struct_type(top, st, e) THEN InitObject(top, InnerOf(top, st, e))
  ELSE IF e.array = "none" /\ e.init.kind = "integer" THEN e.init.values[1]
  ELSE 0

\* printInit: only single elements get the values they are declared with.
InitElement(top, st, e) ==
  LET item == InitItem(top, st, e) IN
    CASE e.array = "none" -> item
      [] e.array = "static" -> [i \in 1 .. e.size |-> item]
      [] e.array = "compact" -> [num |-> 0, data |-> [i \in 1 .. e.size |-> item]]
      [] e.array = "dynamic" -> << >>

InitObject(top, st) ==
  [pre |-> NewPreamble(top, st),
   f |-> [i \in DOMAIN st.elements |-> InitElement(top, st, st.elements[i])]]
-----------------------------------------------------------------------------
(* print_net: encode_net_size and encode_net.                              *)

RECURSIVE encode_net_size(_, _, _)

Sum(seq) == FoldLeft(LAMBDA a, b : a + b, 0, seq)

ElementSize(top, st, e, v) ==
  LET items == Items(e, v)
      Each(Size(_)) == Sum([i \in DOMAIN items |-> Size(items[i])])
  IN (IF IsCounted(e) THEN 4 ELSE 0) +
     CASE struct_type(top, st, e) ->
            LET inner == InnerOf(top, st, e) IN
              IF e.array # "none" /\ IsFlat(top, inner)
              THEN IF items = << >> THEN 0 ELSE Len(items) * encode_net_size(top, inner, items[1])
              ELSE Each(LAMBDA x : encode_net_size(top, inner, x))
       [] enum_type(top, st, e) -> 4 * Len(items)
       [] e.type = "string" -> Each(LAMBDA x : x + 4)
       [] OTHER -> Width[e.type] * Len(items)

encode_net_sizeMutant(top, st, m) ==      \* naked structs have a preamble, too
  Preamble + Sum([i \in DOMAIN st.elements |-> ElementSize(top, st, st.elements[i], m.f[i])])

encode_net_size(top, st, m) ==
  (IF st.naked THEN 0 ELSE Preamble)
  + Sum([i \in DOMAIN st.elements |-> ElementSize(top, st, st.elements[i], m.f[i])])

StringCells(n) == <<Cell(4, n)>> \o IF n = 0 THEN << >> ELSE <<Cell(n, n)>>

\* The memory of an object, as memcpy takes it.
RECURSIVE Image(_, _, _)
Image(top, st, m) ==
  (IF st.naked THEN << >> ELSE <<Cell(Preamble, m.pre)>>)
  \o FlattenSeq([i \in DOMAIN st.elements |->
       LET e == st.elements[i]
           all == IF e.array = "compact" THEN m.f[i].data ELSE Items(e, m.f[i])
           Inside(x) == IF struct_type(top, st, e) THEN Image(top, InnerOf(top, st, e), x)
                        ELSE <<Cell(typesize(top, st, e), x)>>
       IN (IF e.array = "compact" THEN <<Cell(4, m.f[i].num)>> ELSE << >>)
          \o FlattenSeq([j \in DOMAIN all |-> Inside(all[j])])])

RECURSIVE encode_net(_, _, _)

ElementCells(top, st, e, v) ==
  LET One(x) ==
        CASE struct_type(top, st, e) ->
               LET inner == InnerOf(top, st, e) IN
                 IF e.array # "none" /\ IsFlat(top, inner) THEN Image(top, inner, x)
                 ELSE encode_net(top, inner, x)
          [] enum_type(top, st, e) -> <<Cell(4, x)>>
          [] e.type = "string" -> StringCells(x)
          [] OTHER -> <<Cell(Width[e.type], x)>>
      items == Items(e, v)
  IN (IF IsCounted(e) THEN <<Cell(4, Count(e, v))>> ELSE << >>)
     \o FlattenSeq([i \in DOMAIN items |-> One(items[i])])

encode_netMutant(top, st, m) ==      \* the size is not noted in the preamble
  (IF st.naked THEN << >> ELSE <<Cell(Preamble, m.pre)>>)
  \o FlattenSeq([i \in DOMAIN st.elements |-> ElementCells(top, st, st.elements[i], m.f[i])])

encode_net(top, st, m) ==
  (IF st.naked THEN << >> ELSE <<Cell(Preamble, [m.pre EXCEPT !.size = encode_net_size(top, st, m)])>>)
  \o FlattenSeq([i \in DOMAIN st.elements |-> ElementCells(top, st, st.elements[i], m.f[i])])

\* encode: a simple struct is copied as it lies in memory.
encode(top, st, m) == IF simple(top, st) THEN Image(top, st, m) ELSE encode_net(top, st, m)

\* encode_net notes the size in the preamble, which is mutable, of every struct
\* it goes through.
RECURSIVE Encoded(_, _, _)
Encoded(top, st, m) ==
  [pre |-> IF st.naked THEN m.pre ELSE [m.pre EXCEPT !.size = encode_net_size(top, st, m)],
   f |-> [i \in DOMAIN st.elements |->
     LET e == st.elements[i]
         inner == InnerOf(top, st, e)
         v == m.f[i]
     IN IF ~struct_type(top, st, e) \/ (e.array # "none" /\ IsFlat(top, inner)) THEN v
        ELSE IF e.array = "none" THEN Encoded(top, inner, v)
        ELSE IF e.array = "compact"
        THEN [v EXCEPT !.data = [j \in DOMAIN @ |-> IF j <= v.num THEN Encoded(top, inner, @[j]) ELSE @[j]]]
        ELSE [j \in DOMAIN v |-> Encoded(top, inner, v[j])]]]
-----------------------------------------------------------------------------
(* Reading: rest is what is left, got what was read last; ok is FALSE once *)
(* the code has refused, torn once it has lost its place or an assertion   *)
(* has ended it, in a program that was built with assertions (asserts).    *)

Reading(cells) == [ok |-> TRUE, torn |-> FALSE, asserts |-> TRUE, rest |-> cells, got |-> 0]
Goes(r) == r.ok /\ ~r.torn
Refuse(r) == [r EXCEPT !.ok = FALSE]
Torn(r) == [r EXCEPT !.torn = TRUE]
Asserting(r, holds) == IF r.asserts /\ ~holds THEN Torn(r) ELSE r

Read(r, w) ==
  IF ~Goes(r) THEN r
  ELSE IF r.rest = << >> \/ Head(r.rest).w # w THEN Torn(r)
  ELSE [r EXCEPT !.rest = Tail(@), !.got = Head(r.rest).v]

RECURSIVE Skip(_, _)
Skip(r, n) ==
  IF ~Goes(r) \/ n = 0 THEN r
  ELSE IF r.rest = << >> \/ Head(r.rest).w > n THEN Torn(r)
  ELSE Skip([r EXCEPT !.rest = Tail(@)], n - Head(r.rest).w)

ReadString(r) ==
  LET size == Read(r, 4) IN
    IF ~Goes(size) \/ size.got = 0 THEN size ELSE Read(size, size.got)

\* n times Item, what they got one after the other.
Repeat(r, n, Item(_)) ==
  IF ~Goes(r) THEN r
  ELSE FoldLeft(LAMBDA acc, i : IF ~Goes(acc) THEN acc
                                ELSE [Item(acc) EXCEPT !.got = Append(acc.got, @)],
                [r EXCEPT !.got = << >>], Range1(n))

\* The elements of st one after the other, what they got as an object.
ReadElements(r, st, Element(_, _)) ==
  FoldLeft(LAMBDA acc, e : IF ~Goes(acc) THEN acc
                           ELSE [Element(acc, e) EXCEPT !.got = Append(acc.got, @)],
           [r EXCEPT !.got = << >>], st.elements)

\* all as an object, pre its preamble.
AsObject(pre, all) == IF Goes(all) THEN [all EXCEPT !.got = [pre |-> pre, f |-> @]] ELSE all

ReadPreamble(st, r) == IF st.naked THEN [r EXCEPT !.got = NoPreamble] ELSE Read(r, Preamble)

\* What the array e holds, when these items have been read into it.
Hold(top, st, e, items) ==
  CASE e.array = "none" -> items[1]
    [] e.array = "compact" ->
         [num |-> Len(items),
          data |-> [i \in 1 .. e.size |-> IF i <= Len(items) THEN items[i] ELSE InitItem(top, st, e)]]
    [] OTHER -> items

RECURSIVE ReadImage(_, _, _)
ReadImageElement(top, st, r, e) ==
  LET start == IF e.array = "compact" THEN Read(r, 4) ELSE r
      Inside(x) == IF struct_type(top, st, e) THEN ReadImage(top, InnerOf(top, st, e), x)
                   ELSE Read(x, typesize(top, st, e))
      all == Repeat(start, IF e.array = "none" THEN 1 ELSE e.size, Inside)
  IN IF ~Goes(all) THEN all
     ELSE IF e.array = "none" THEN [all EXCEPT !.got = @[1]]
     ELSE IF e.array = "compact" THEN [all EXCEPT !.got = [num |-> start.got, data |-> @]]
     ELSE all

ReadImage(top, st, r) ==
  LET pre == ReadPreamble(st, r) IN
    AsObject(pre.got, ReadElements(pre, st, LAMBDA x, e : ReadImageElement(top, st, x, e)))

\* decode: of a simple struct, with a look at the hash only.
decode_simple(top, st, r, buf_size) ==
  IF buf_size < csize(top, st) THEN Refuse(r)
  ELSE LET all == ReadImage(top, st, r) IN
    IF Goes(all) /\ ~st.naked /\ all.got.pre.hash # hash_value(top, st) THEN Refuse(all) ELSE all

RECURSIVE decode_net(_, _, _, _)

\* After an inner struct, all, the size in its preamble is gone past, after a naked
\* one the size it would be encoded with, whatever was read.
PastInner(top, inner, r, all) ==
  IF ~Goes(all) THEN all
  ELSE [Skip(r, IF inner.naked THEN encode_net_size(top, inner, all.got) ELSE all.got.pre.size)
          EXCEPT !.got = all.got]

DecodeItem(top, st, r, e, buf_size) ==
  IF struct_type(top, st, e)
  THEN LET inner == InnerOf(top, st, e) IN
         IF e.array \in {"static", "compact"} /\ IsFlat(top, inner) THEN ReadImage(top, inner, r)
         ELSE PastInner(top, inner, r, decode_net(top, inner, r, buf_size))
  ELSE IF e.type = "string" THEN ReadString(r)
  ELSE Read(r, typesize(top, st, e))

Holding(top, st, e, all) == IF Goes(all) THEN [all EXCEPT !.got = Hold(top, st, e, @)] ELSE all

\* n items.  Compact arrays of structs are filled without a look at their size.
DecodeItems(top, st, n, e, buf_size) ==
  CASE ~Goes(n) -> n
    [] Goes(n) /\ e.array = "compact" /\ n.got > e.size ->
         IF struct_type(top, st, e) THEN Torn(n) ELSE Refuse(n)
    [] OTHER -> Holding(top, st, e,
                  Repeat(n, n.got, LAMBDA x : DecodeItem(top, st, x, e, buf_size)))

DecodeElement(top, st, r, e, buf_size) ==
  DecodeItems(top, st, IF IsCounted(e) THEN Read(r, 4)
                       ELSE [r EXCEPT !.got = IF e.array = "none" THEN 1 ELSE e.size], e, buf_size)

DecodeAfter(top, st, pre, buf_size) ==
  IF Goes(pre) /\ ~st.naked /\ (pre.got.size > buf_size \/ pre.got.hash # hash_value(top, st))
  THEN Refuse(pre)
  ELSE AsObject(pre.got, ReadElements(pre, st, LAMBDA x, e : DecodeElement(top, st, x, e, buf_size)))

decode_net(top, st, r, buf_size) == DecodeAfter(top, st, ReadPreamble(st, r), buf_size)
=============================================================================
