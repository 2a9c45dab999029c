-------------------------------- MODULE MCCbuf --------------------------------
(* Schemas with which TLC checks FrontEnd, Codec and DynamicParser.         *)
EXTENDS DynamicParser, Expressions

\* Declarations.
Import(f) == [decl |-> "import", name |-> f]
Space(name, within) == [decl |-> "namespace", name |-> name, within |-> within]
Struct(name, elements) == [decl |-> "struct", name |-> name, naked |-> FALSE, elements |-> elements]
Naked(name, elements) == [decl |-> "struct", name |-> name, naked |-> TRUE, elements |-> elements]
Enum(name, items) == [decl |-> "enum", name |-> name, items |-> items]
Item(name, expr) == [name |-> name, expr |-> expr]
Const == [decl |-> "const", name |-> "K"]

\* Elements.
Elem(type, name, parts) ==
  [name |-> name, type |-> type, custom_name |-> NoName, namespace_name |-> NoName, parts |-> parts]
Of(custom, name, parts) == [Elem("custom", name, parts) EXCEPT !.custom_name = custom]
From(space, custom, name, parts) == [Of(custom, name, parts) EXCEPT !.namespace_name = space]
Array(n) == <<[part |-> "array", sizes |-> <<n>>]>>
Dynamic == <<[part |-> "array", sizes |-> << >>]>>
Compact(n) == Array(n) \o <<[part |-> "compact"]>>
Ints(kind, exprs) == <<[part |-> "init", init |-> [kind |-> kind, values |-> exprs]]>>

\* Expressions.
N(n) == Number(n)
Minus == Sign("-")
Open == Sign("(")
Shut == Sign(")")
O(op) == Sign(op)

One(decls) == [main |-> "a", files |-> [f \in {"a"} |-> decls]]

E == Enum("E", <<Item("X", << >>), Item("Y", <<N(2), O("*"), N(3), O("+"), N(4)>>), Item("Z", << >>),
       Item("W", <<Minus, Open, N(7), O("/"), N(2), Shut, O("-"), N(1), O("-"), N(1)>>)>>)

Basic == One(<<Space("A", <<E, Naked("P", <<Elem("uint8_t", "x", << >>), Elem("uint16_t", "y", << >>)>>),
   Struct("M", <<Elem("uint32_t", "n", << >>), Of("P", "p", << >>), Of("E", "e", << >>), Elem("string", "s", << >>)>>)>>)>>)

Diamond == [main |-> "a", files |-> [
  a |-> <<Import("b"), Import("c"), Space("A", <<Struct("M", <<From("B", "S", "s", << >>), From("C", "T", "t", << >>)>>)>>)>>,
  b |-> <<Import("d"), Space("B", <<Struct("S", <<From("D", "P", "p", << >>)>>)>>), Space("D", <<Struct("Q", <<Of("P", "p", << >>)>>)>>)>>,
  c |-> <<Import("d"), Space("C", <<Struct("T", <<From("D", "P", "p", Array(2)), Of("G", "g", Dynamic)>>)>>)>>,
  d |-> <<Space("D", <<Struct("P", <<Elem("uint8_t", "x", << >>)>>)>>), Struct("G", <<Elem("uint8_t", "x", Compact(2))>>)>>]]

Round == [main |-> "a", files |-> [
  a |-> <<Import("b"), Struct("M", <<Of("S", "s", << >>)>>)>>,
  b |-> <<Import("a"), Struct("S", <<Elem("uint8_t", "x", << >>)>>)>>]]

\* Numbers of all kinds, in all kinds of arrays.
Numbers == One(<<Space("A", <<E,
   Struct("M", <<Elem("uint16_t", "a", Dynamic), Elem("uint8_t", "b", Compact(2)), Of("E", "c", Array(2)),
                 Of("E", "d", Compact(2)), Elem("int8_t", "e", Array(2))>>)>>)>>)

Texts == One(<<Space("A", <<
   Struct("M", <<Elem("string", "a", Dynamic), Elem("short_string", "b", Dynamic), Elem("string", "c", << >>),
                 Elem("short_string", "d", << >>), Elem("string", "e", Array(2)), Elem("bool", "f", << >>)>>)>>)>>)

\* Bools, enums and short strings in the arrays the two before do not have them in.
Flags == One(<<Space("A", <<E,
   Struct("M", <<Elem("bool", "a", Array(2)), Of("E", "b", Dynamic), Elem("bool", "c", Compact(2)),
                 Elem("short_string", "d", Array(2)), Elem("short_string", "e", Compact(2))>>)>>)>>)

\* Structs within structs: naked and not, of fixed size and not.
Nested == One(<<Space("A", <<
   Naked("P", <<Elem("uint8_t", "x", << >>), Elem("uint16_t", "y", << >>)>>),
   Struct("Q", <<Elem("uint8_t", "x", Compact(2)), Of("P", "p", << >>)>>),
   Struct("R", <<Elem("uint8_t", "x", Ints("integer", <<<<N(5)>>>>))>>)>>),
  Space("B", <<Struct("M", <<From("A", "P", "p", Array(2)), From("A", "Q", "q", Compact(2)), From("A", "R", "r", Dynamic),
                             From("A", "R", "s", Array(2))>>)>>)>>)

Rows == One(<<Struct("P", <<Elem("uint8_t", "x", << >>), Elem("uint16_t", "y", << >>)>>),
   Struct("M", <<Of("P", "p", Compact(2)), Elem("uint16_t", "a", Compact(2)), Of("P", "q", Array(2)), Elem("string", "s", << >>)>>)>>)

\* What is refused, or not found again in the metadata.
Lost == One(<<Space("A", <<Struct("M", <<Of("N", "n", << >>)>>)>>)>>)
Unsized == One(<<Space("A", <<Struct("M", <<Elem("string", "s", << >>), Of("N", "n", << >>)>>)>>)>>)
Late == One(<<Space("A", <<Struct("M", <<Elem("uint8_t", "x", Compact(2)), Elem("string", "s", << >>), Of("N", "n", << >>)>>)>>)>>)
Inits == One(<<Space("A", <<Struct("M", <<Elem("uint8_t", "x", Array(2) \o Ints("array", <<<<N(1)>>, <<N(2)>>>>)),
                                           Elem("uint8_t", "y", Ints("integer", <<<<N(7)>>>>))>>)>>)>>)
Marked == One(<<Space("A", <<Struct("M", <<Elem("uint8_t", "x", Compact(2) \o Ints("array", <<<<N(1)>>, <<N(2)>>>>))>>)>>)>>)
Inside == One(<<Space("A", <<Space("B", << >>)>>)>>)
Itself == One(<<Space("A", <<Struct("M", <<Of("M", "m", Dynamic)>>)>>)>>)

AllPrograms == {Basic, Diamond, Round, Numbers, Texts, Flags, Nested, Rows, Lost, Unsized, Late, Inits, Marked, Inside, Itself}
-----------------------------------------------------------------------------
(* Objects: of each type a few, in which the items differ from each other  *)
(* and the lengths are none, some or all, in all combinations of two       *)
(* neighbours.                                                             *)

RECURSIVE Filled(_, _, _, _, _)
Filled(top, st, a, b, seed) ==
  LET Length(i) == (a + b * i) % 3
      ValueOf(e, i, j) ==
        CASE struct_type(top, st, e) -> Filled(top, InnerOf(top, st, e), a, b, seed + 3 * i + j)
          [] e.type = "bool" -> (i + j + seed) % 2
          [] e.type \in {"string", "short_string"} -> <<0, 3, 15>>[((a + b * i + j) % 3) + 1] + IF e.type = "string" THEN j ELSE 0
          [] OTHER -> 10 * i + 3 * j + seed + IF typesize(top, st, e) = 1 THEN 0 ELSE 256
      Some(e, i, n) == [j \in 1 .. n |-> ValueOf(e, i, j)]
  IN [InitObject(top, st) EXCEPT !.f =
       [i \in DOMAIN st.elements |->
         LET e == st.elements[i] IN
           CASE e.array = "none" -> ValueOf(e, i, 0)
             [] e.array = "static" -> Some(e, i, e.size)
             [] e.array = "compact" -> [num |-> Smaller(Length(i), e.size), data |-> Some(e, i, e.size)]
             [] e.array = "dynamic" -> Some(e, i, Length(i))]]

Fillings(top, st) == {Filled(top, st, a, b, 0) : a \in 0 .. 2, b \in 0 .. 1}
-----------------------------------------------------------------------------
(* Versions: one element of one struct is changed.                         *)

Retyped(e) ==
  IF IsCustom(e) THEN {[e EXCEPT !.type = "uint8_t", !.custom_name = NoName, !.namespace_name = NoName]}
  ELSE {[e EXCEPT !.type = t] : t \in {"uint8_t", "int8_t", "bool", "uint32_t"}}
       \cup IF e.array = "compact" THEN {} ELSE {[e EXCEPT !.type = t] : t \in {"string", "short_string"}}

Resized(e) ==
  {[e EXCEPT !.array = a, !.size = n, !.init = NoInit] : a \in {"static"} \cup IF e.type = "string" THEN {} ELSE {"compact"}, n \in 1 .. 3}
  \cup {[e EXCEPT !.array = a, !.size = 0, !.init = NoInit] : a \in {"dynamic", "none"}}

New == [parseElementDeclaration(Elem("uint16_t", "new", << >>)) EXCEPT !.size = 0]

Edited(st) ==
  {[st EXCEPT !.elements = s] :
     s \in {RemoveAt(st.elements, i) : i \in DOMAIN st.elements}
           \cup {InsertAt(st.elements, i, New) : i \in DOMAIN st.elements}
           \cup UNION {{[st.elements EXCEPT ![i] = e] : e \in Retyped(st.elements[i]) \cup Resized(st.elements[i])}
                       : i \in DOMAIN st.elements}
           \cup {Reverse(st.elements)}}
  \cup {[st EXCEPT !.naked = ~@]}

Edits(top) ==
  {top} \cup UNION {UNION {{[top EXCEPT !.spaces[i].structs[j] = st] : st \in Edited(top.spaces[i].structs[j])}
                           : j \in DOMAIN top.spaces[i].structs} : i \in DOMAIN top.spaces}
=============================================================================
