------------------------------- MODULE Metadata -------------------------------
(***************************************************************************)
(* What goes with the messages of a struct so that others can read them:   *)
(* the hash of its definition (compute_hash of CBufParser.cpp), and the    *)
(* definition as text, written by AstPrinter and read by ParseMetadata.    *)
(***************************************************************************)
EXTENDS FrontEnd

\* The text that is hashed, in place of its hash: no two texts collide here.
\* Whether arrays are compact and structs naked is not in it.
RECURSIVE hash_value(_, _)

hash_valueMutant(top, st) ==      \* without the sizes of arrays
  <<st.space, st.name,
    [i \in DOMAIN st.elements |->
       LET e == st.elements[i] IN
       [name |-> e.name,
        of |-> IF ~IsCustom(e) THEN <<e.type>>
               ELSE IF find_enum(top, st, e) # {} THEN <<e.custom_name>>
               ELSE hash_value(top, CHOOSE inner \in find_struct(top, st, e) : TRUE)]]>>

hash_value(top, st) ==
  <<st.space, st.name,
    [i \in DOMAIN st.elements |->
       LET e == st.elements[i] IN
       [name |-> e.name,
        suffix |-> IF e.array = "none" THEN -1 ELSE e.size,
        of |-> IF ~IsCustom(e) THEN <<e.type>>
               ELSE IF find_enum(top, st, e) # {} THEN <<e.custom_name>>
               ELSE hash_value(top, CHOOSE inner \in find_struct(top, st, e) : TRUE)]]>>
-----------------------------------------------------------------------------
(* AstPrinter: what is printed is what the parser reads (FrontEnd).        *)

\* As an expression.
PrintAstValue(n) == IF n >= 0 THEN <<Number(n)>> ELSE <<Sign("-"), Number(-n)>>

\* Of an identifier, a string, a float or a bool only its kind is kept.
PrintInit(init) ==
  IF init.kind = "array" THEN [init EXCEPT !.values = [i \in DOMAIN @ |-> PrintAstValue(@[i])]]
  ELSE IF init.kind = "integer" THEN [init EXCEPT !.values = <<PrintAstValue(@[1])>>]
  ELSE init

print_elem(e) ==
  [name |-> e.name, type |-> e.type, custom_name |-> e.custom_name,
   namespace_name |-> e.namespace_name,
   parts |-> (IF e.array = "none" THEN << >> ELSE <<[part |-> "array", sizes |-> IF e.size = 0 THEN << >> ELSE <<e.size>>]>>)
     \o (IF e.init.kind = "none" THEN << >> ELSE <<[part |-> "init", init |-> PrintInit(e.init)]>>)
     \o (IF e.array = "compact" THEN <<[part |-> "compact"]>> ELSE << >>)]

print_enum(en) ==
  [decl |-> "enum", name |-> en.name,
   items |-> [i \in DOMAIN en.items |->
     [name |-> en.items[i].name,
      expr |-> IF en.items[i].assigned THEN PrintAstValue(en.items[i].value) ELSE << >>]]]

print_structMutant(st) ==      \* @naked is not printed
  [decl |-> "struct", name |-> st.name, naked |-> FALSE,
   elements |-> [i \in DOMAIN st.elements |-> print_elem(st.elements[i])]]

print_struct(st) ==
  [decl |-> "struct", name |-> st.name, naked |-> st.naked,
   elements |-> [i \in DOMAIN st.elements |-> print_elem(st.elements[i])]]

print_space(sp) ==
  LET within == [i \in DOMAIN sp.enums |-> print_enum(sp.enums[i])]
                \o [i \in DOMAIN sp.structs |-> print_struct(sp.structs[i])] IN
    IF sp.name = GlobalSpace THEN within
    ELSE <<[decl |-> "namespace", name |-> sp.name, within |-> within]>>

\* The names of the namespaces its elements' types are found in, structs first.
Mentioned(top, st, e) ==
  SetToSeq({inner.space : inner \in IF IsCustom(e) THEN find_struct(top, st, e) ELSE {}})
  \o SetToSeq({en.space : en \in IF IsCustom(e) THEN find_enum(top, st, e) ELSE {}})

\* print_namespace: each namespace an element's type is in is printed once,
\* before everything printed so far.
RECURSIVE print_namespace(_, _, _)
print_namespace(top, name, printed) ==
  LET sp == CHOOSE s \in find_namespace(top, name) : TRUE
      mentions == FlattenSeq([i \in DOMAIN sp.structs |->
        FlattenSeq([j \in DOMAIN sp.structs[i].elements |->
          Mentioned(top, sp.structs[i], sp.structs[i].elements[j])])])
      Prepend(acc, other) ==
        IF other \in acc.printed THEN acc
        ELSE LET new == print_namespace(top, other, acc.printed) IN
               [text |-> new.text \o acc.text, printed |-> new.printed]
  IN FoldLeft(Prepend, [text |-> print_space(sp), printed |-> printed \cup {name}], mentions)

\* The metadata of st's messages: cbuf_string.
cbuf_string(top, st) == print_namespace(top, st.space, {}).text
-----------------------------------------------------------------------------
(* CBufParser::ParseMetadata: the struct of that name, as text describes   *)
(* it.  None when it does not parse, or a type in it is not found.         *)

\* decompose_and_find: without a namespace, it is a global one.
decompose_and_find(top, space, name) == FindIn(top, "structs", name, space)

ParseMetadata(text) ==
  LET g == FoldLeft(Declare, [ok |-> TRUE, top |-> EmptyGlobal], text) IN
    [g EXCEPT !.ok = @ /\ ~\E st \in Structs(g.top) : \E e \in Elements(st) : Missing(g.top, st, e)]
-----------------------------------------------------------------------------
(* What must hold.                                                         *)

\* What AstPrinter prints and the parser refuses or does not find again: an
\* initialized compact array (the tag is printed after the value), and a global
\* type named as one of another namespace.
Unprintable(st, e) ==
  \/ e.array = "compact" /\ e.init.kind # "none"
  \/ IsCustom(e) /\ \E found \in find_symbol(top_ast, st, e) : found.space # SpaceOf(st, e) /\ e.namespace_name # NoName

Described(st) ==
  LET text == ParseMetadata(cbuf_string(top_ast, st)) IN
    text.ok /\ \E s \in decompose_and_find(text.top, st.space, st.name) :
      s = st /\ hash_value(text.top, s) = hash_value(top_ast, st)

\* The metadata of a type describes it: parsed, it gives the same elements and
\* the hash the code was generated with, whatever namespaces and files the types
\* of its elements are from.
MetadataFaithful ==
  status = "generated" /\ Undeclared = {} /\ (\A st \in Structs(top_ast) : \A e \in Elements(st) : ~Unprintable(st, e))
    => \A st \in Structs(top_ast) : Described(st)
=============================================================================
