---------------------------------- MODULE Ast ----------------------------------
(***************************************************************************)
(* What the compiler knows of a schema (src/src/ast.h), how names in it    *)
(* are looked up (SymbolTable), and what is computed of each struct before *)
(* code is generated (the compute_* of CBufParser.cpp).                    *)
(***************************************************************************)
EXTENDS Integers, SequencesExt, FiniteSetsExt

GlobalSpace == "__global_namespace"
NoName == ""                \* a null custom_name or namespace_name

\* Bytes of the basic types, on the wire and in memory; an enum has four.
Width == [uint8_t |-> 1, uint16_t |-> 2, uint32_t |-> 4, uint64_t |-> 8, int8_t |-> 1,
          int16_t |-> 2, int32_t |-> 4, int64_t |-> 8, float |-> 4, double |-> 8,
          bool |-> 1, short_string |-> 16]

\* An element is [name, type, custom_name, namespace_name, array, size, init]:
\* array is one of these, init the values it is initialized with.
Arrays == {"none", "static", "compact", "dynamic"}

IsCustom(e) == e.type = "custom"

\* ast_global; its first space is the global one.  The enums declared outside of
\* namespaces are kept apart.
EmptySpace(name) == [name |-> name, structs |-> << >>, enums |-> << >>]
EmptyGlobal == [spaces |-> <<EmptySpace(GlobalSpace)>>, imported_files |-> << >>, enums |-> << >>]

Structs(top) == UNION {ToSet(top.spaces[i].structs) : i \in DOMAIN top.spaces}
Elements(st) == ToSet(st.elements)
-----------------------------------------------------------------------------
(* SymbolTable: what is found is a set of one or none.                     *)

Named(seq, name) ==
  LET found == {i \in DOMAIN seq : seq[i].name = name} IN
    IF found = {} THEN {} ELSE {seq[Min(found)]}

find_namespace(top, name) == Named(top.spaces, name)

\* First in the namespace asked for, if there is one of that name, and then
\* among the global ones.
FindIn(top, kind, name, nspace) ==
  UNION {LET here == Named(sp[kind], name) IN
           IF here # {} THEN here ELSE Named(top.spaces[1][kind], name)
         : sp \in find_namespace(top, nspace)}

SpaceOf(st, e) == IF e.namespace_name # NoName THEN e.namespace_name ELSE st.space

find_struct(top, st, e) == FindIn(top, "structs", e.custom_name, SpaceOf(st, e))
find_enum(top, st, e) == FindIn(top, "enums", e.custom_name, SpaceOf(st, e))
find_symbol(top, st, e) == find_struct(top, st, e) \cup find_enum(top, st, e)

Missing(top, st, e) == IsCustom(e) /\ find_symbol(top, st, e) = {}

\* The structs st's element e is of, and those all its elements are of.
OfType(top, st, e) == IF IsCustom(e) THEN find_struct(top, st, e) ELSE {}
Inner(top, st) == UNION {OfType(top, st, e) : e \in Elements(st)}

\* The structs of sts and those within them.
Within(top, sts) ==
  LET met[n \in 0 .. Cardinality(Structs(top))] ==
        IF n = 0 THEN sts ELSE LET known == met[n - 1] IN known \cup UNION {Inner(top, st) : st \in known}
  IN met[Cardinality(Structs(top))]

\* st has an element whose type has an element ... of type st.
Cyclic(top, st) == st \in Within(top, Inner(top, st))
-----------------------------------------------------------------------------
(* compute_simple and compute_compact, of structs in no cycle.             *)

\* e, and all elements of the structs it consists of.
ElementsOf(top, st, e) == {e} \cup UNION {Elements(inner) : inner \in Within(top, OfType(top, st, e))}

simple_elem(top, st, e) == \A x \in ElementsOf(top, st, e) : x.type # "string" /\ x.array # "dynamic"
compact_elem(top, st, e) == \E x \in ElementsOf(top, st, e) : x.array = "compact"

\* Its size is always the same.
simple(top, st) == \A e \in Elements(st) : simple_elem(top, st, e)

has_compact(top, st) == \E e \in Elements(st) : compact_elem(top, st, e)

\* Each goes through the elements until it knows, and reports a type that is not
\* declared only if it meets it before.
MissedBy(top, st, decisive) ==
  \E i \in DOMAIN st.elements :
    Missing(top, st, st.elements[i]) /\ \A j \in DOMAIN st.elements : j < i => st.elements[j] \notin decisive

simple_error(top, st) == MissedBy(top, st, {e \in Elements(st) : ~simple_elem(top, st, e)})

compact_errorMutant(top, st) == FALSE      \* whether there was an error is not asked

compact_error(top, st) == MissedBy(top, st, {e \in Elements(st) : compact_elem(top, st, e)})
-----------------------------------------------------------------------------
(* Tokens of expressions.                                                  *)

Number(n) == [t |-> "number", v |-> n]
Sign(op) == [t |-> op, v |-> 0]
=============================================================================
