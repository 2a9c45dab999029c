---------------------------- MODULE FrontEnd_proofs ----------------------------
(***************************************************************************)
(* Theorems about the compiler up to the point where it generates code:    *)
(* what comes of files that import one another, and of names nobody        *)
(* declared.  First what each declaration adds to the schema, then the     *)
(* stack of files being parsed, then the steps.                            *)
(***************************************************************************)
EXTENDS FrontEnd, NatSets

-----------------------------------------------------------------------------
(* Lists.                                                                  *)

LEMMA ListIs ==
  ASSUME NEW s, IsList(s)
  PROVE  /\ Len(s) \in Nat /\ DOMAIN s = 1 .. Len(s)
         /\ \A x : x \in ToSet(s) <=> \E i \in 1 .. Len(s) : s[i] = x
BY DEF IsList, ToSet

\* What may be in a list does not matter.
LEMMA SeqIsList ==
  ASSUME NEW S, NEW s \in Seq(S)
  PROVE  IsList(s)
<1>1. Len(s) \in Nat /\ DOMAIN s = 1 .. Len(s) /\ s = [i \in 1 .. Len(s) |-> s[i]]
  OBVIOUS
<1>2. \A i \in 1 .. Len(s) : s[i] \in ToSet(s)
  BY <1>1 DEF ToSet
<1> QED BY <1>1, <1>2 DEF IsList

LEMMA AppendIsList ==
  ASSUME NEW s, NEW x, IsList(s)
  PROVE  /\ IsList(Append(s, x)) /\ Len(Append(s, x)) = Len(s) + 1
         /\ \A i \in 1 .. Len(s) : Append(s, x)[i] = s[i]
         /\ Append(s, x)[Len(s) + 1] = x
<1> DEFINE S == ToSet(s) \cup {x}
<1>1. s \in Seq(S)
  <2>1. s \in Seq(ToSet(s))
    BY DEF IsList
  <2>2. ToSet(s) \subseteq S
    OBVIOUS
  <2> HIDE DEF S
  <2> QED BY <2>1, <2>2
<1>2. x \in S
  OBVIOUS
<1> HIDE DEF S
<1>3. Append(s, x) \in Seq(S) /\ Len(Append(s, x)) = Len(s) + 1
  BY <1>1, <1>2
<1>4. \A i \in 1 .. Len(s) : Append(s, x)[i] = s[i]
  BY <1>1, <1>2
<1>5. Append(s, x)[Len(s) + 1] = x
  BY <1>1, <1>2
<1> QED BY <1>3, <1>4, <1>5, SeqIsList

LEMMA AppendToSet ==
  ASSUME NEW s, NEW x, IsList(s)
  PROVE  IsList(Append(s, x)) /\ ToSet(Append(s, x)) = ToSet(s) \cup {x}
<1> DEFINE t == Append(s, x)
<1>1. Len(s) \in Nat /\ \A y : y \in ToSet(s) <=> \E i \in 1 .. Len(s) : s[i] = y
  BY ListIs
<1>2. IsList(t) /\ Len(t) = Len(s) + 1 /\ t[Len(s) + 1] = x /\ \A i \in 1 .. Len(s) : t[i] = s[i]
  BY AppendIsList
<1> HIDE DEF t
<1>3. \A y : y \in ToSet(t) <=> \E i \in 1 .. Len(t) : t[i] = y
  BY <1>2, ListIs
<1>4. \A i : i \in 1 .. Len(t) <=> i \in 1 .. Len(s) \/ i = Len(s) + 1
  BY <1>1, <1>2
<1>5. \A y : y \in ToSet(t) <=> y \in ToSet(s) \/ y = x
  BY <1>1, <1>2, <1>3, <1>4
<1> QED BY <1>2, <1>5 DEF t

LEMMA ExceptIsList ==
  ASSUME NEW s, NEW i \in 1 .. Len(s), NEW x, IsList(s)
  PROVE  IsList([s EXCEPT ![i] = x]) /\ Len([s EXCEPT ![i] = x]) = Len(s)
<1> DEFINE S == ToSet(s) \cup {x}
<1>1. s \in Seq(S)
  <2>1. s \in Seq(ToSet(s))
    BY DEF IsList
  <2>2. ToSet(s) \subseteq S
    OBVIOUS
  <2> HIDE DEF S
  <2> QED BY <2>1, <2>2
<1>2. x \in S
  OBVIOUS
<1> HIDE DEF S
<1>3. [s EXCEPT ![i] = x] \in Seq(S) /\ Len([s EXCEPT ![i] = x]) = Len(s)
  BY <1>1, <1>2
<1> QED BY <1>3, SeqIsList

-----------------------------------------------------------------------------
(* Declarations of a namespace.                                            *)

\* A namespace, and all structs in it know that they are.
SpaceOK(sp) ==
  /\ sp = [name |-> sp.name, structs |-> sp.structs, enums |-> sp.enums]
  /\ IsList(sp.structs)
  /\ \A i \in 1 .. Len(sp.structs) : sp.structs[i].space = sp.name

NamesIn(sp) == {sp.structs[i].name : i \in 1 .. Len(sp.structs)}

\* No two structs have one name.
NamesDiffer(sp) ==
  \A i, j \in 1 .. Len(sp.structs) : sp.structs[i].name = sp.structs[j].name => i = j

\* The names of the structs among the first n declarations.
Declared(within, n) == {within[i].name : i \in {i \in 1 .. n : within[i].decl = "struct"}}

DeclaredApart(within) ==
  \A k, l \in 1 .. Len(within) :
    within[k].decl = "struct" /\ within[l].decl = "struct" /\ within[k].name = within[l].name => k = l

\* sp has become new: structs of these names were added.
Grown(sp, new, names) ==
  /\ SpaceOK(new) /\ new.name = sp.name
  /\ NamesIn(new) = NamesIn(sp) \cup names
  /\ NamesDiffer(sp) /\ NamesIn(sp) \cap names = {} => NamesDiffer(new)

\* A struct more at the end of a namespace.
LEMMA StructAdded ==
  ASSUME NEW sp, SpaceOK(sp), NEW d
  PROVE  Grown(sp, [sp EXCEPT !.structs = Append(@, parseStruct(d, sp.name).node)], {d.name})
<1> DEFINE node == parseStruct(d, sp.name).node
           new == [sp EXCEPT !.structs = Append(@, node)]
<1>1. node.name = d.name /\ node.space = sp.name
  BY DEF parseStruct, StructOf
<1> HIDE DEF node
<1>2. new = [name |-> sp.name, structs |-> Append(sp.structs, node), enums |-> sp.enums]
  BY DEF SpaceOK
<1>3. new.name = sp.name /\ new.structs = Append(sp.structs, node) /\ new.enums = sp.enums
  BY <1>2
<1> HIDE DEF new
<1>4. IsList(sp.structs) /\ Len(sp.structs) \in Nat
  BY ListIs DEF SpaceOK
<1>5. /\ IsList(new.structs) /\ Len(new.structs) = Len(sp.structs) + 1
      /\ \A i \in 1 .. Len(sp.structs) : new.structs[i] = sp.structs[i]
      /\ new.structs[Len(sp.structs) + 1] = node
  BY <1>3, <1>4, AppendIsList
<1>6. SpaceOK(new)
  <2>1. new = [name |-> new.name, structs |-> new.structs, enums |-> new.enums]
    BY <1>2, <1>3
  <2>2. ASSUME NEW i \in 1 .. Len(new.structs) PROVE new.structs[i].space = new.name
    <3>1. CASE i = Len(sp.structs) + 1
      BY <3>1, <1>1, <1>3, <1>5
    <3>2. CASE i \in 1 .. Len(sp.structs)
      BY <3>2, <1>3, <1>5 DEF SpaceOK
    <3> QED BY <1>4, <1>5, <3>1, <3>2
  <2> QED BY <2>1, <2>2, <1>5 DEF SpaceOK
<1>7. NamesIn(new) = NamesIn(sp) \cup {d.name}
  <2>1. \A i : i \in 1 .. Len(new.structs) <=> i \in 1 .. Len(sp.structs) \/ i = Len(sp.structs) + 1
    BY <1>4, <1>5
  <2>2. \A i \in 1 .. Len(sp.structs) : new.structs[i].name = sp.structs[i].name
    BY <1>5
  <2>3. new.structs[Len(sp.structs) + 1].name = d.name
    BY <1>1, <1>5
  <2> QED BY <2>1, <2>2, <2>3 DEF NamesIn
<1>8. ASSUME NamesDiffer(sp), d.name \notin NamesIn(sp) PROVE NamesDiffer(new)
  <2>1. SUFFICES ASSUME NEW i \in 1 .. Len(new.structs), NEW j \in 1 .. Len(new.structs),
                        new.structs[i].name = new.structs[j].name
                 PROVE  i = j
    BY DEF NamesDiffer
  <2>2. \A k \in 1 .. Len(sp.structs) : new.structs[k].name = sp.structs[k].name /\ sp.structs[k].name # d.name
    BY <1>5, <1>8 DEF NamesIn
  <2>3. new.structs[Len(sp.structs) + 1].name = d.name
    BY <1>1, <1>5
  <2>4. CASE i \in 1 .. Len(sp.structs) /\ j \in 1 .. Len(sp.structs)
    <3>1. sp.structs[i].name = sp.structs[j].name
      BY <2>1, <2>2, <2>4
    <3> QED BY <3>1, <2>4, <1>8 DEF NamesDiffer
  <2>5. CASE i \notin 1 .. Len(sp.structs) \/ j \notin 1 .. Len(sp.structs)
    <3>1. \A k \in 1 .. Len(new.structs) : k \in 1 .. Len(sp.structs) \/ k = Len(sp.structs) + 1
      BY <1>4, <1>5
    <3> QED BY <2>1, <2>2, <2>3, <2>5, <3>1
  <2> QED BY <2>4, <2>5
<1>9. Grown(sp, new, {d.name})
  BY <1>3, <1>6, <1>7, <1>8 DEF Grown
<1> QED BY <1>9 DEF new, node

\* One declaration inside a namespace.
LEMMA WithinAdded ==
  ASSUME NEW acc, NEW sp, SpaceOK(sp), acc = [ok |-> TRUE, sp |-> sp], NEW d, AddWithin(acc, d).ok
  PROVE  /\ AddWithin(acc, d) = [ok |-> TRUE, sp |-> AddWithin(acc, d).sp]
         /\ Grown(sp, AddWithin(acc, d).sp, IF d.decl = "struct" THEN {d.name} ELSE {})
<1>1. acc.ok /\ acc.sp = sp
  OBVIOUS
<1>2. CASE d.decl = "struct"
  <2>1. AddWithin(acc, d) = AddTo(sp, "structs", parseStruct(d, sp.name))
    BY <1>1, <1>2 DEF AddWithin
  <2>2. AddWithin(acc, d).sp = [sp EXCEPT !.structs = Append(@, parseStruct(d, sp.name).node)]
    BY <2>1 DEF AddTo
  <2>3. parseStruct(d, sp.name).ok \in BOOLEAN
    BY DEF parseStruct, StructOf
  <2>4. AddWithin(acc, d) = [ok |-> TRUE, sp |-> AddWithin(acc, d).sp]
    BY <2>1, <2>3 DEF AddTo
  <2>5. Grown(sp, AddWithin(acc, d).sp, {d.name})
    BY <2>2, StructAdded
  <2> QED BY <1>2, <2>4, <2>5
<1>3. CASE d.decl = "enum"
  <2>1. AddWithin(acc, d) = AddTo(sp, "enums", parseEnum(d, sp.name))
    BY <1>1, <1>3 DEF AddWithin
  <2>2. AddWithin(acc, d).sp = [sp EXCEPT !.enums = Append(@, parseEnum(d, sp.name).node)]
    BY <2>1 DEF AddTo
  <2>3. parseEnum(d, sp.name).ok \in BOOLEAN
    BY DEF parseEnum
  <2>4. AddWithin(acc, d) = [ok |-> TRUE, sp |-> AddWithin(acc, d).sp]
    BY <2>1, <2>3 DEF AddTo
  <2>5. AddWithin(acc, d).sp = [name |-> sp.name, structs |-> sp.structs, enums |-> AddWithin(acc, d).sp.enums]
    BY <2>2 DEF SpaceOK
  <2>6. AddWithin(acc, d).sp.name = sp.name /\ AddWithin(acc, d).sp.structs = sp.structs
    BY <2>5
  <2> DEFINE new == AddWithin(acc, d).sp
  <2> HIDE DEF new
  <2>7. new.name = sp.name /\ new.structs = sp.structs /\ new = [name |-> new.name, structs |-> new.structs, enums |-> new.enums]
    BY <2>5, <2>6 DEF new
  <2>8. SpaceOK(new) /\ NamesIn(new) = NamesIn(sp) /\ (NamesDiffer(sp) => NamesDiffer(new))
    BY <2>7 DEF SpaceOK, NamesIn, NamesDiffer
  <2>9. Grown(sp, new, {})
    BY <2>7, <2>8 DEF Grown
  <2> QED BY <1>3, <2>4, <2>9 DEF new
<1>4. CASE d.decl = "const"
  <2>1. AddWithin(acc, d) = acc
    BY <1>1, <1>4 DEF AddWithin
  <2>2. Grown(sp, sp, {})
    BY DEF Grown
  <2>3. AddWithin(acc, d).sp = sp
    BY <2>1, <1>1
  <2> QED BY <1>4, <2>1, <2>2, <2>3
<1>5. CASE d.decl \notin {"struct", "enum", "const"}
  <2>1. AddWithin(acc, d) = [acc EXCEPT !.ok = FALSE]
    BY <1>1, <1>5 DEF AddWithin
  <2>2. AddWithin(acc, d).ok = FALSE
    BY <2>1
  <2> QED BY <2>2
<1>6. d.decl = "struct" \/ d.decl = "enum" \/ d.decl = "const" \/ d.decl \notin {"struct", "enum", "const"}
  OBVIOUS
<1> QED BY <1>2, <1>3, <1>4, <1>5, <1>6

\* g[k] is the namespace after the first k declarations in it.
IsAfter(g, sp, within, n) ==
  g = [k \in 0 .. n |-> IF k = 0 THEN [ok |-> TRUE, sp |-> sp] ELSE AddWithin(g[k - 1], within[k])]

LEMMA AfterExists ==
  ASSUME NEW sp, NEW within, NEW n \in Nat
  PROVE  \E g : IsAfter(g, sp, within, n)
<1> DEFINE S == {k \in Nat : \E g : IsAfter(g, sp, within, k)}
<1>1. 0 \in S
  <2> DEFINE g == [k \in 0 .. 0 |-> [ok |-> TRUE, sp |-> sp]]
  <2>1. IsAfter(g, sp, within, 0)
    BY DEF IsAfter
  <2> QED BY <2>1
<1>2. ASSUME NEW k \in Nat, k \in S PROVE k + 1 \in S
  <2>1. PICK g : IsAfter(g, sp, within, k)
    BY <1>2
  <2> DEFINE h == [l \in 0 .. k + 1 |-> IF l = k + 1 THEN AddWithin(g[k], within[k + 1]) ELSE g[l]]
             w == [l \in 0 .. k + 1 |-> IF l = 0 THEN [ok |-> TRUE, sp |-> sp] ELSE AddWithin(h[l - 1], within[l])]
  <2>2. ASSUME NEW l \in 0 .. k + 1 PROVE h[l] = w[l]
    <3>1. CASE l = k + 1
      <4>1. l # 0 /\ l - 1 = k /\ k \in 0 .. k + 1 /\ k # k + 1
        BY <3>1
      <4>2. h[l - 1] = g[k]
        BY <4>1
      <4>3. h[l] = AddWithin(g[k], within[l])
        BY <3>1
      <4>4. w[l] = AddWithin(h[l - 1], within[l])
        BY <4>1
      <4> QED BY <4>2, <4>3, <4>4
    <3>2. CASE l \in 1 .. k
      <4>1. l - 1 \in 0 .. k /\ l - 1 # k + 1 /\ l # k + 1 /\ l # 0 /\ l \in 0 .. k /\ l - 1 \in 0 .. k + 1
        BY <3>2
      <4>2. h[l - 1] = g[l - 1] /\ h[l] = g[l]
        BY <4>1
      <4>3. w[l] = AddWithin(h[l - 1], within[l])
        BY <4>1
      <4>4. g[l] = AddWithin(g[l - 1], within[l])
        BY <2>1, <4>1 DEF IsAfter
      <4> QED BY <4>2, <4>3, <4>4
    <3>3. CASE l = 0
      <4>1. h[0] = g[0] /\ w[0] = [ok |-> TRUE, sp |-> sp]
        OBVIOUS
      <4>2. g[0] = [ok |-> TRUE, sp |-> sp]
        BY <2>1 DEF IsAfter
      <4> QED BY <3>3, <4>1, <4>2
    <3> QED BY <3>1, <3>2, <3>3
  <2>3. h = w
    <3>1. h = [l \in 0 .. k + 1 |-> h[l]] /\ w = [l \in 0 .. k + 1 |-> w[l]]
      OBVIOUS
    <3> HIDE DEF h, w
    <3> QED BY <2>2, <3>1
  <2>4. IsAfter(h, sp, within, k + 1)
    BY <2>3 DEF IsAfter
  <2> QED BY <2>4
<1> HIDE DEF S
<1>3. n \in S
  BY <1>1, <1>2, SetInduction
<1> QED BY <1>3 DEF S

\* All declarations in a namespace.
LEMMA AllAdded ==
  ASSUME NEW sp, SpaceOK(sp), NEW within, IsList(within), AddAll(sp, within).ok
  PROVE  /\ AddAll(sp, within) = [ok |-> TRUE, sp |-> AddAll(sp, within).sp]
         /\ SpaceOK(AddAll(sp, within).sp) /\ AddAll(sp, within).sp.name = sp.name
         /\ NamesIn(AddAll(sp, within).sp) = NamesIn(sp) \cup Declared(within, Len(within))
         /\ NamesDiffer(sp) /\ DeclaredApart(within) /\ NamesIn(sp) \cap Declared(within, Len(within)) = {}
              => NamesDiffer(AddAll(sp, within).sp)
<1> DEFINE L == Len(within)
           g == CHOOSE g : IsAfter(g, sp, within, L)
<1>1. L \in Nat
  BY ListIs
<1>2. AddAll(sp, within) = g[L]
  BY DEF AddAll, IsAfter
<1>3. IsAfter(g, sp, within, L)
  BY <1>1, AfterExists
<1> HIDE DEF g
<1>4. g[0] = [ok |-> TRUE, sp |-> sp]
  BY <1>1, <1>3 DEF IsAfter
<1>5. ASSUME NEW k \in 1 .. L PROVE g[k] = AddWithin(g[k - 1], within[k])
  <2>1. k \in 0 .. L /\ k # 0
    BY <1>1
  <2> HIDE DEF L
  <2> QED BY <2>1, <1>3 DEF IsAfter
<1> HIDE DEF L
\* What has been refused stays refused.
<1> DEFINE R(k) == g[k].ok =>
             /\ g[k] = [ok |-> TRUE, sp |-> g[k].sp]
             /\ SpaceOK(g[k].sp) /\ g[k].sp.name = sp.name
             /\ NamesIn(g[k].sp) = NamesIn(sp) \cup Declared(within, k)
             /\ NamesDiffer(sp) /\ DeclaredApart(within) /\ NamesIn(sp) \cap Declared(within, k) = {}
                  => NamesDiffer(g[k].sp)
           S == {k \in Nat : k <= L => R(k)}
<1>6. 0 \in S
  <2>1. g[0].sp = sp
    BY <1>4
  <2>2. Declared(within, 0) = {}
    BY DEF Declared
  <2> QED BY <1>4, <2>1, <2>2
<1>7. ASSUME NEW k \in Nat, k \in S PROVE k + 1 \in S
  <2> SUFFICES ASSUME k + 1 <= L, g[k + 1].ok PROVE R(k + 1)
    OBVIOUS
  <2> DEFINE d == within[k + 1]
             new == IF d.decl = "struct" THEN {d.name} ELSE {}
  <2>1. g[k + 1] = AddWithin(g[k], d)
    BY <1>1, <1>5
  <2>2. g[k].ok
    <3>1. ~g[k].ok => AddWithin(g[k], d) = g[k]
      BY DEF AddWithin
    <3> QED BY <2>1, <3>1
  <2>3. R(k)
    BY <1>1, <1>7
  <2>4. /\ g[k] = [ok |-> TRUE, sp |-> g[k].sp] /\ SpaceOK(g[k].sp) /\ g[k].sp.name = sp.name
        /\ NamesIn(g[k].sp) = NamesIn(sp) \cup Declared(within, k)
    BY <2>2, <2>3
  <2>5. g[k + 1] = [ok |-> TRUE, sp |-> g[k + 1].sp] /\ Grown(g[k].sp, g[k + 1].sp, new)
    <3>1. AddWithin(g[k], d).ok
      BY <2>1
    <3> HIDE DEF d
    <3>2. /\ AddWithin(g[k], d) = [ok |-> TRUE, sp |-> AddWithin(g[k], d).sp]
          /\ Grown(g[k].sp, AddWithin(g[k], d).sp, new)
      BY <2>4, <3>1, WithinAdded
    <3> QED BY <2>1, <3>2
  <2>6. Declared(within, k + 1) = Declared(within, k) \cup new
    <3>1. \A i : i \in 1 .. k + 1 <=> i \in 1 .. k \/ i = k + 1
      OBVIOUS
    <3> QED BY <3>1 DEF Declared
  <2>7. NamesIn(g[k + 1].sp) = NamesIn(sp) \cup Declared(within, k + 1)
    BY <2>4, <2>5, <2>6 DEF Grown
  <2>8. ASSUME NamesDiffer(sp), DeclaredApart(within), NamesIn(sp) \cap Declared(within, k + 1) = {}
        PROVE  NamesDiffer(g[k + 1].sp)
    <3>1. NamesDiffer(g[k].sp)
      BY <2>2, <2>3, <2>6, <2>8
    <3>2. Declared(within, k) \cap new = {}
      <4>1. SUFFICES ASSUME d.decl = "struct", NEW i \in 1 .. k, within[i].decl = "struct", within[i].name = d.name
                     PROVE  FALSE
        BY DEF Declared
      <4>2. i \in 1 .. L /\ k + 1 \in 1 .. L /\ i # k + 1
        BY <1>1
      <4> QED BY <4>1, <4>2, <2>8 DEF DeclaredApart, L
    <3>3. NamesIn(g[k].sp) \cap new = {}
      BY <2>4, <2>6, <2>8, <3>2
    <3> QED BY <2>5, <3>1, <3>3 DEF Grown
  <2>9. SpaceOK(g[k + 1].sp) /\ g[k + 1].sp.name = sp.name
    BY <2>4, <2>5 DEF Grown
  <2> QED BY <2>5, <2>7, <2>8, <2>9
<1> HIDE DEF S
<1>8. L \in S
  BY <1>1, <1>6, <1>7, SetInduction
<1>9. R(L)
  BY <1>1, <1>8 DEF S
<1> QED BY <1>2, <1>9 DEF L

-----------------------------------------------------------------------------
(* Declarations of a schema.                                               *)

TopOK(top) ==
  /\ top = [spaces |-> top.spaces, imported_files |-> top.imported_files, enums |-> top.enums]
  /\ IsList(top.spaces)
  /\ 1 \in 1 .. Len(top.spaces) /\ top.spaces[1].name = GlobalSpace
  /\ \A i \in 1 .. Len(top.spaces) : SpaceOK(top.spaces[i])
  /\ \A i, j \in 2 .. Len(top.spaces) : top.spaces[i].name = top.spaces[j].name => i = j

\* The structs there are, with their namespaces.
StructNames(top) == {<<st.space, st.name>> : st \in Structs(top)}

\* In no namespace have two structs one name.
AllDiffer(top) == \A i \in 1 .. Len(top.spaces) : NamesDiffer(top.spaces[i])

LEMMA StructNamesAre ==
  ASSUME NEW top, TopOK(top)
  PROVE  \A x : x \in StructNames(top) <=>
           \E i \in 1 .. Len(top.spaces) : \E n \in NamesIn(top.spaces[i]) : x = <<top.spaces[i].name, n>>
<1>1. \A i : i \in DOMAIN top.spaces <=> i \in 1 .. Len(top.spaces)
  BY ListIs DEF TopOK
<1>2. ASSUME NEW st, st \in Structs(top)
      PROVE  \E i \in 1 .. Len(top.spaces) : \E n \in NamesIn(top.spaces[i]) : <<st.space, st.name>> = <<top.spaces[i].name, n>>
  <2>1. PICK i \in 1 .. Len(top.spaces) : st \in ToSet(top.spaces[i].structs)
    BY <1>1, <1>2 DEF Structs
  <2>2. SpaceOK(top.spaces[i])
    BY DEF TopOK
  <2>3. PICK j \in 1 .. Len(top.spaces[i].structs) : top.spaces[i].structs[j] = st
    BY <2>1, <2>2, ListIs DEF SpaceOK
  <2>4. st.space = top.spaces[i].name /\ st.name \in NamesIn(top.spaces[i])
    BY <2>2, <2>3 DEF SpaceOK, NamesIn
  <2> QED BY <2>4
<1>3. ASSUME NEW i \in 1 .. Len(top.spaces), NEW n \in NamesIn(top.spaces[i])
      PROVE  \E st \in Structs(top) : <<st.space, st.name>> = <<top.spaces[i].name, n>>
  <2>1. PICK j \in 1 .. Len(top.spaces[i].structs) : top.spaces[i].structs[j].name = n
    BY <1>3 DEF NamesIn
  <2>2. SpaceOK(top.spaces[i])
    BY DEF TopOK
  <2>3. top.spaces[i].structs[j] \in ToSet(top.spaces[i].structs)
    BY <2>1, <2>2, ListIs DEF SpaceOK
  <2>4. top.spaces[i].structs[j] \in Structs(top)
    BY <1>1, <2>3 DEF Structs
  <2>5. top.spaces[i].structs[j].space = top.spaces[i].name
    BY <2>1, <2>2 DEF SpaceOK
  <2> QED BY <2>1, <2>4, <2>5
<1>4. \A x : x \in StructNames(top) <=> \E st \in Structs(top) : x = <<st.space, st.name>>
  BY DEF StructNames
<1>5. ASSUME NEW x, x \in StructNames(top)
      PROVE  \E i \in 1 .. Len(top.spaces) : \E n \in NamesIn(top.spaces[i]) : x = <<top.spaces[i].name, n>>
  <2>1. PICK st \in Structs(top) : x = <<st.space, st.name>>
    BY <1>4, <1>5
  <2> QED BY <1>2, <2>1
<1>6. ASSUME NEW x, NEW i \in 1 .. Len(top.spaces), NEW n \in NamesIn(top.spaces[i]), x = <<top.spaces[i].name, n>>
      PROVE  x \in StructNames(top)
  BY <1>3, <1>4, <1>6
<1> QED BY <1>5, <1>6

\* top has become new: namespace i was added, or opened again, and got structs of these names.
SpaceGrown(top, new, i, names) ==
  /\ new = [spaces |-> new.spaces, imported_files |-> top.imported_files, enums |-> new.enums]
  /\ IsList(new.spaces) /\ i \in 1 .. Len(new.spaces)
  /\ \A j : j \in 1 .. Len(new.spaces) <=> j \in 1 .. Len(top.spaces) \/ j = i
  /\ \A j \in 1 .. Len(top.spaces) : j # i => new.spaces[j] = top.spaces[j]
  /\ SpaceOK(new.spaces[i])
  /\ i \in 1 .. Len(top.spaces) =>
       new.spaces[i].name = top.spaces[i].name /\ NamesIn(new.spaces[i]) = NamesIn(top.spaces[i]) \cup names
  /\ i \notin 1 .. Len(top.spaces) =>
       (\A j \in 2 .. Len(top.spaces) : top.spaces[j].name # new.spaces[i].name) /\ NamesIn(new.spaces[i]) = names

LEMMA TopGrown ==
  ASSUME NEW top, TopOK(top), NEW new, NEW i, NEW names, SpaceGrown(top, new, i, names)
  PROVE  /\ TopOK(new) /\ new.imported_files = top.imported_files
         /\ StructNames(new) = StructNames(top) \cup {<<new.spaces[i].name, n>> : n \in names}
         /\ AllDiffer(top) /\ NamesDiffer(new.spaces[i]) => AllDiffer(new)
<1>1. new.imported_files = top.imported_files
  BY DEF SpaceGrown
<1>2. \A j \in 1 .. Len(new.spaces) : j # i => j \in 1 .. Len(top.spaces) /\ new.spaces[j] = top.spaces[j]
  BY DEF SpaceGrown
<1>3. \A j \in 1 .. Len(top.spaces) : j \in 1 .. Len(new.spaces) /\ new.spaces[j].name = top.spaces[j].name
  BY DEF SpaceGrown
<1>4. TopOK(new)
  <2>1. new = [spaces |-> new.spaces, imported_files |-> new.imported_files, enums |-> new.enums]
    BY <1>1 DEF SpaceGrown
  <2>2. 1 \in 1 .. Len(new.spaces) /\ new.spaces[1].name = GlobalSpace
    BY <1>3 DEF TopOK
  <2>3. \A j \in 1 .. Len(new.spaces) : SpaceOK(new.spaces[j])
    BY <1>2 DEF TopOK, SpaceGrown
  <2>4. ASSUME NEW j \in 2 .. Len(new.spaces), NEW k \in 2 .. Len(new.spaces), new.spaces[j].name = new.spaces[k].name
        PROVE  j = k
    <3>1. Len(new.spaces) \in Nat /\ Len(top.spaces) \in Nat
      BY ListIs DEF TopOK, SpaceGrown
    <3>2. j \in 1 .. Len(new.spaces) /\ k \in 1 .. Len(new.spaces)
      BY <3>1
    <3>3. CASE j \in 1 .. Len(top.spaces) /\ k \in 1 .. Len(top.spaces)
      <4>1. top.spaces[j].name = top.spaces[k].name
        BY <2>4, <1>3, <3>3
      <4>2. j \in 2 .. Len(top.spaces) /\ k \in 2 .. Len(top.spaces)
        BY <3>1, <3>3
      <4> QED BY <4>1, <4>2 DEF TopOK
    <3>4. CASE i \notin 1 .. Len(top.spaces)
      <4>1. ASSUME NEW l \in 2 .. Len(new.spaces), l # i PROVE new.spaces[l].name # new.spaces[i].name
        <5>1. l \in 1 .. Len(new.spaces)
          BY <3>1
        <5>2. l \in 1 .. Len(top.spaces) /\ new.spaces[l] = top.spaces[l]
          BY <1>2, <4>1, <5>1
        <5>3. l \in 2 .. Len(top.spaces)
          BY <3>1, <5>2
        <5> QED BY <3>4, <5>2, <5>3 DEF SpaceGrown
      <4>2. CASE j = i \/ k = i
        BY <2>4, <4>1, <4>2
      <4>3. CASE j # i /\ k # i
        BY <1>2, <3>2, <3>3, <4>3
      <4> QED BY <4>2, <4>3
    <3> QED BY <1>2, <3>2, <3>3, <3>4
  <2> QED BY <2>1, <2>2, <2>3, <2>4 DEF TopOK, SpaceGrown
<1>5. ASSUME NEW x
      PROVE  x \in StructNames(new) <=> x \in StructNames(top) \/ \E n \in names : x = <<new.spaces[i].name, n>>
  <2>1. x \in StructNames(new) <=>
          \E j \in 1 .. Len(new.spaces) : \E n \in NamesIn(new.spaces[j]) : x = <<new.spaces[j].name, n>>
    BY <1>4, StructNamesAre
  <2>2. x \in StructNames(top) <=>
          \E j \in 1 .. Len(top.spaces) : \E n \in NamesIn(top.spaces[j]) : x = <<top.spaces[j].name, n>>
    BY StructNamesAre
  <2>3. ASSUME NEW j \in 1 .. Len(new.spaces), NEW n \in NamesIn(new.spaces[j]), x = <<new.spaces[j].name, n>>
        PROVE  x \in StructNames(top) \/ \E m \in names : x = <<new.spaces[i].name, m>>
    <3>1. CASE j # i
      BY <1>2, <2>2, <2>3, <3>1
    <3>2. CASE j = i /\ i \in 1 .. Len(top.spaces)
      <4>1. n \in NamesIn(top.spaces[i]) \/ n \in names
        BY <2>3, <3>2 DEF SpaceGrown
      <4>2. x = <<top.spaces[i].name, n>> /\ x = <<new.spaces[i].name, n>>
        BY <1>3, <2>3, <3>2
      <4> QED BY <2>2, <3>2, <4>1, <4>2
    <3>3. CASE j = i /\ i \notin 1 .. Len(top.spaces)
      <4>1. n \in names
        BY <2>3, <3>3 DEF SpaceGrown
      <4> QED BY <2>3, <3>3, <4>1
    <3> QED BY <3>1, <3>2, <3>3
  <2>4. ASSUME NEW j \in 1 .. Len(top.spaces), NEW n \in NamesIn(top.spaces[j]), x = <<top.spaces[j].name, n>>
        PROVE  x \in StructNames(new)
    <3>1. n \in NamesIn(new.spaces[j])
      BY <2>4 DEF SpaceGrown
    <3>2. x = <<new.spaces[j].name, n>> /\ j \in 1 .. Len(new.spaces)
      BY <1>3, <2>4
    <3> QED BY <2>1, <3>1, <3>2
  <2>5. ASSUME NEW n \in names, x = <<new.spaces[i].name, n>> PROVE x \in StructNames(new)
    <3>1. n \in NamesIn(new.spaces[i]) /\ i \in 1 .. Len(new.spaces)
      BY DEF SpaceGrown
    <3> QED BY <2>1, <2>5, <3>1
  <2> QED BY <2>1, <2>2, <2>3, <2>4, <2>5
<1>6. StructNames(new) = StructNames(top) \cup {<<new.spaces[i].name, n>> : n \in names}
  BY <1>5
<1>7. AllDiffer(top) /\ NamesDiffer(new.spaces[i]) => AllDiffer(new)
  BY <1>2 DEF AllDiffer
<1> QED BY <1>1, <1>4, <1>6, <1>7

\* The structs that namespace d declares are those of AllAdded.
LEMMA DeclaredByNamespace ==
  ASSUME NEW d, d.decl = "namespace", IsList(d.within)
  PROVE  DeclaredBy(d) = {<<d.name, n>> : n \in Declared(d.within, Len(d.within))}
<1>1. \A x : x \in ToSet(d.within) <=> \E i \in 1 .. Len(d.within) : d.within[i] = x
  BY ListIs
<1>2. DeclaredBy(d) = {<<d.name, st.name>> : st \in {st \in ToSet(d.within) : st.decl = "struct"}}
  BY DEF DeclaredBy
<1>3. \A n : n \in Declared(d.within, Len(d.within)) <=>
        \E i \in 1 .. Len(d.within) : d.within[i].decl = "struct" /\ n = d.within[i].name
  BY DEF Declared
<1>4. \A x : x \in DeclaredBy(d) <=> \E st \in ToSet(d.within) : st.decl = "struct" /\ x = <<d.name, st.name>>
  BY <1>2
<1>5. \A x : x \in DeclaredBy(d) <=> \E n \in Declared(d.within, Len(d.within)) : x = <<d.name, n>>
  BY <1>1, <1>3, <1>4
<1> QED BY <1>5

\* A namespace that is opened and what is declared in it.
LEMMA NamespaceDeclares ==
  ASSUME NEW top, TopOK(top), NEW d, IsList(d.within), parseNamespace([ok |-> TRUE, top |-> top], d).ok
  PROVE  LET new == parseNamespace([ok |-> TRUE, top |-> top], d).top IN
         \E i : /\ SpaceGrown(top, new, i, Declared(d.within, Len(d.within)))
                /\ new.spaces[i].name = d.name
                /\ AllDiffer(top) /\ DeclaredApart(d.within)
                   /\ StructNames(top) \cap {<<d.name, n>> : n \in Declared(d.within, Len(d.within))} = {}
                     => NamesDiffer(new.spaces[i])
<1> DEFINE old == find_existing_namespace(top, d.name)
           sp == AddAll(old, d.within).sp
           new == parseNamespace([ok |-> TRUE, top |-> top], d).top
           names == Declared(d.within, Len(d.within))
<1>1. AddAll(old, d.within).ok /\ new = Put(top, sp)
  BY DEF parseNamespace
<1>2. IsList(top.spaces) /\ Len(top.spaces) \in Nat /\ Len(top.spaces) >= 1
  BY ListIs DEF TopOK
<1>3. CASE SpacesOf(top, d.name) = {}
  <2> DEFINE i == Len(top.spaces) + 1
  <2>1. old = [name |-> d.name, structs |-> << >>, enums |-> << >>]
    BY <1>3 DEF find_existing_namespace, EmptySpace
  <2>2. SpaceOK(old) /\ old.name = d.name /\ NamesIn(old) = {} /\ NamesDiffer(old)
    <3>1. old.name = d.name /\ old.structs = << >> /\ old = [name |-> old.name, structs |-> old.structs, enums |-> old.enums]
      BY <2>1
    <3>2. IsList(<< >>) /\ Len(<< >>) = 0 /\ 1 .. 0 = {}
      BY DEF IsList
    <3> HIDE DEF old
    <3> QED BY <3>1, <3>2 DEF SpaceOK, NamesIn, NamesDiffer
  <2> HIDE DEF old
  <2>3. /\ SpaceOK(sp) /\ sp.name = d.name /\ NamesIn(sp) = names
        /\ DeclaredApart(d.within) => NamesDiffer(sp)
    <3>1. /\ SpaceOK(sp) /\ sp.name = old.name /\ NamesIn(sp) = NamesIn(old) \cup names
          /\ NamesDiffer(old) /\ DeclaredApart(d.within) /\ NamesIn(old) \cap names = {} => NamesDiffer(sp)
      BY <1>1, <2>2, AllAdded
    <3> HIDE DEF sp, names
    <3> QED BY <2>2, <3>1
  <2> HIDE DEF sp
  <2>4. new = [top EXCEPT !.spaces = Append(@, sp)]
    BY <1>1, <1>3, <2>3 DEF Put
  <2>5. new = [spaces |-> Append(top.spaces, sp), imported_files |-> top.imported_files, enums |-> top.enums]
    BY <2>4 DEF TopOK
  <2> HIDE DEF new
  <2>6. new.spaces = Append(top.spaces, sp) /\ new.enums = top.enums
    BY <2>5
  <2>7. /\ IsList(new.spaces) /\ Len(new.spaces) = i /\ new.spaces[i] = sp
        /\ \A j \in 1 .. Len(top.spaces) : new.spaces[j] = top.spaces[j]
    BY <1>2, <2>6, AppendIsList
  <2>8. \A j \in 2 .. Len(top.spaces) : top.spaces[j].name # d.name
    BY <1>3 DEF SpacesOf
  <2>9. /\ \A j : j \in 1 .. Len(new.spaces) <=> j \in 1 .. Len(top.spaces) \/ j = i
        /\ i \in 1 .. Len(new.spaces) /\ i \notin 1 .. Len(top.spaces)
    BY <1>2, <2>7
  <2>10. SpaceGrown(top, new, i, names)
    BY <2>3, <2>5, <2>6, <2>7, <2>8, <2>9 DEF SpaceGrown
  <2> QED BY <2>3, <2>7, <2>10 DEF new, names
<1>4. CASE SpacesOf(top, d.name) # {}
  <2> DEFINE i == CHOOSE i \in SpacesOf(top, d.name) : TRUE
  <2>1. i \in SpacesOf(top, d.name)
    BY <1>4
  <2>2. old = top.spaces[i]
    BY <1>4 DEF find_existing_namespace
  <2>3. i \in 2 .. Len(top.spaces) /\ i \in 1 .. Len(top.spaces) /\ top.spaces[i].name = d.name
    BY <1>2, <2>1 DEF SpacesOf
  <2>4. SpaceOK(old) /\ old.name = d.name
    BY <2>2, <2>3 DEF TopOK
  <2>5. /\ SpaceOK(sp) /\ sp.name = d.name /\ NamesIn(sp) = NamesIn(old) \cup names
        /\ NamesDiffer(old) /\ DeclaredApart(d.within) /\ NamesIn(old) \cap names = {} => NamesDiffer(sp)
    BY <1>1, <2>4, AllAdded
  <2> HIDE DEF sp, old
  <2>6. new = [top EXCEPT !.spaces[i] = sp]
    BY <1>1, <1>4, <2>5 DEF Put
  <2> HIDE DEF i
  <2>7. new = [spaces |-> [top.spaces EXCEPT ![i] = sp], imported_files |-> top.imported_files, enums |-> top.enums]
    BY <2>6 DEF TopOK
  <2> HIDE DEF new
  <2>8. new.spaces = [top.spaces EXCEPT ![i] = sp] /\ new.enums = top.enums
    BY <2>7
  <2>9. IsList(new.spaces) /\ Len(new.spaces) = Len(top.spaces)
    <3>1. IsList([top.spaces EXCEPT ![i] = sp]) /\ Len([top.spaces EXCEPT ![i] = sp]) = Len(top.spaces)
      BY <1>2, <2>3, ExceptIsList
    <3> QED BY <2>8, <3>1
  <2>10. new.spaces[i] = sp /\ \A j \in 1 .. Len(top.spaces) : j # i => new.spaces[j] = top.spaces[j]
    BY <1>2, <2>3, <2>8, ListIs
  <2>11. SpaceGrown(top, new, i, names)
    BY <2>2, <2>3, <2>5, <2>7, <2>8, <2>9, <2>10 DEF SpaceGrown
  <2>12. ASSUME AllDiffer(top), DeclaredApart(d.within), StructNames(top) \cap {<<d.name, n>> : n \in names} = {}
         PROVE  NamesDiffer(sp)
    <3>1. NamesDiffer(old)
      BY <2>2, <2>3, <2>12 DEF AllDiffer
    <3>2. ASSUME NEW n \in NamesIn(old), n \in names PROVE FALSE
      <4>1. <<d.name, n>> \in StructNames(top)
        BY <2>2, <2>3, <3>2, StructNamesAre
      <4>2. <<d.name, n>> \in {<<d.name, m>> : m \in names}
        BY <3>2
      <4> QED BY <2>12, <4>1, <4>2
    <3> QED BY <2>5, <2>12, <3>1, <3>2
  <2> QED BY <2>5, <2>10, <2>11, <2>12 DEF new, names
<1> QED BY <1>3, <1>4

\* Whatever is declared: its structs are added to those there are.
LEMMA DeclareGrows ==
  ASSUME NEW top, TopOK(top), NEW d, d.decl = "namespace" => IsList(d.within),
         Declare([ok |-> TRUE, top |-> top], d).ok
  PROVE  LET new == Declare([ok |-> TRUE, top |-> top], d).top IN
         /\ TopOK(new) /\ new.imported_files = top.imported_files
         /\ StructNames(new) = StructNames(top) \cup DeclaredBy(d)
         /\ AllDiffer(top) /\ (d.decl = "namespace" => DeclaredApart(d.within))
            /\ StructNames(top) \cap DeclaredBy(d) = {} => AllDiffer(new)
<1> DEFINE g == [ok |-> TRUE, top |-> top]
           new == Declare(g, d).top
           Goal == /\ TopOK(new) /\ new.imported_files = top.imported_files
                   /\ StructNames(new) = StructNames(top) \cup DeclaredBy(d)
                   /\ AllDiffer(top) /\ (d.decl = "namespace" => DeclaredApart(d.within))
                      /\ StructNames(top) \cap DeclaredBy(d) = {} => AllDiffer(new)
<1>1. g.ok /\ g.top = top
  OBVIOUS
<1>2. CASE d.decl = "namespace"
  <2>1. Declare(g, d) = parseNamespace(g, d)
    BY <1>1, <1>2 DEF Declare
  <2>2. PICK i : /\ SpaceGrown(top, new, i, Declared(d.within, Len(d.within)))
                 /\ new.spaces[i].name = d.name
                 /\ AllDiffer(top) /\ DeclaredApart(d.within)
                    /\ StructNames(top) \cap {<<d.name, n>> : n \in Declared(d.within, Len(d.within))} = {}
                      => NamesDiffer(new.spaces[i])
    BY <1>2, <2>1, NamespaceDeclares
  <2>3. DeclaredBy(d) = {<<d.name, n>> : n \in Declared(d.within, Len(d.within))}
    BY <1>2, DeclaredByNamespace
  <2> HIDE DEF new
  <2>4. Goal
    BY <1>2, <2>2, <2>3, TopGrown
  <2> QED BY <2>4 DEF new
<1>3. CASE d.decl = "struct"
  <2> DEFINE sp == [top.spaces[1] EXCEPT !.structs = Append(@, parseStruct(d, GlobalSpace).node)]
  <2>1. new = [top EXCEPT !.spaces[1] = sp]
    BY <1>1, <1>3 DEF Declare, AddTo
  <2>2. 1 \in 1 .. Len(top.spaces) /\ SpaceOK(top.spaces[1]) /\ top.spaces[1].name = GlobalSpace /\ IsList(top.spaces)
    BY DEF TopOK
  <2>3. Grown(top.spaces[1], sp, {d.name})
    BY <2>2, StructAdded
  <2> HIDE DEF sp
  <2>4. new = [spaces |-> [top.spaces EXCEPT ![1] = sp], imported_files |-> top.imported_files, enums |-> top.enums]
    BY <2>1 DEF TopOK
  <2> HIDE DEF new
  <2>5. new.spaces = [top.spaces EXCEPT ![1] = sp] /\ new.enums = top.enums
    BY <2>4
  <2>6. IsList(new.spaces) /\ Len(new.spaces) = Len(top.spaces)
    <3>1. IsList([top.spaces EXCEPT ![1] = sp]) /\ Len([top.spaces EXCEPT ![1] = sp]) = Len(top.spaces)
      BY <2>2, ExceptIsList
    <3> QED BY <2>5, <3>1
  <2>7. new.spaces[1] = sp /\ \A j \in 1 .. Len(top.spaces) : j # 1 => new.spaces[j] = top.spaces[j]
    BY <2>2, <2>5, ListIs
  <2>8. SpaceGrown(top, new, 1, {d.name})
    BY <2>2, <2>3, <2>4, <2>5, <2>6, <2>7 DEF SpaceGrown, Grown
  <2>9. DeclaredBy(d) = {<<GlobalSpace, d.name>>}
    BY <1>3 DEF DeclaredBy
  <2>10. {<<new.spaces[1].name, n>> : n \in {d.name}} = DeclaredBy(d)
    BY <2>2, <2>3, <2>7, <2>9 DEF Grown
  <2>11. ASSUME AllDiffer(top), StructNames(top) \cap DeclaredBy(d) = {} PROVE NamesDiffer(new.spaces[1])
    <3>1. NamesDiffer(top.spaces[1])
      BY <2>2, <2>11 DEF AllDiffer
    <3>2. d.name \notin NamesIn(top.spaces[1])
      <4>1. d.name \in NamesIn(top.spaces[1]) => <<GlobalSpace, d.name>> \in StructNames(top)
        BY <2>2, StructNamesAre
      <4> QED BY <2>9, <2>11, <4>1
    <3> QED BY <2>3, <2>7, <3>1, <3>2 DEF Grown
  <2>12. Goal
    BY <1>3, <2>8, <2>10, <2>11, TopGrown
  <2> QED BY <2>12 DEF new
<1>4. CASE d.decl = "enum"
  <2>1. new = [top EXCEPT !.enums = Append(@, parseEnum(d, GlobalSpace).node)]
    BY <1>1, <1>4 DEF Declare
  <2>2. new = [spaces |-> top.spaces, imported_files |-> top.imported_files, enums |-> new.enums]
    BY <2>1 DEF TopOK
  <2> HIDE DEF new
  <2>3. new.spaces = top.spaces /\ new.imported_files = top.imported_files
    BY <2>2
  <2>4. TopOK(new)
    BY <2>2, <2>3 DEF TopOK
  <2>5. StructNames(new) = StructNames(top) /\ (AllDiffer(top) => AllDiffer(new))
    BY <2>3 DEF StructNames, Structs, AllDiffer
  <2>6. DeclaredBy(d) = {}
    BY <1>4 DEF DeclaredBy
  <2>7. Goal
    BY <2>3, <2>4, <2>5, <2>6
  <2> QED BY <2>7 DEF new
<1>5. CASE d.decl = "const"
  <2>1. new = top
    BY <1>1, <1>5 DEF Declare
  <2>2. DeclaredBy(d) = {}
    BY <1>5 DEF DeclaredBy
  <2>3. Goal
    BY <2>1, <2>2
  <2> QED BY <2>3
<1>6. CASE d.decl \notin {"namespace", "struct", "enum", "const"}
  <2>1. Declare(g, d) = Fail(g)
    BY <1>1, <1>6 DEF Declare
  <2>2. Declare(g, d).ok = FALSE
    BY <2>1 DEF Fail
  <2> QED BY <2>2
<1> QED BY <1>2, <1>3, <1>4, <1>5, <1>6

-----------------------------------------------------------------------------
(* The files that are parsed and those that have been.                     *)

Imported == ToSet(top_ast.imported_files)
OpenFiles == {open[k].file : k \in 1 .. Len(open)}

\* What the first n declarations declare.
Begun(decls, n) == UNION {DeclaredBy(decls[i]) : i \in 1 .. n}

\* Parsing is inside of files, from main on.
StackOK ==
  /\ program \in Programs
  /\ open \in Seq([file : DOMAIN program.files, at : Nat \ {0}]) /\ Len(open) >= 1
  /\ open[1].file = program.main
  /\ \A k \in 1 .. Len(open) : open[k].at <= Len(program.files[open[k].file]) + 1

\* A file is open because the one before it just came to its import; what else was
\* met of imports has been imported, with all that it imports.
ImportsOK ==
  /\ IsList(top_ast.imported_files) /\ Imported \subseteq DOMAIN program.files
  /\ Imported \cap OpenFiles = {}
  /\ \A k \in 1 .. Len(open) - 1 :
       /\ open[k].at > 1
       /\ program.files[open[k].file][open[k].at - 1].decl = "import"
       /\ program.files[open[k].file][open[k].at - 1].name = open[k + 1].file
  /\ \A k \in 1 .. Len(open) : \A i \in 1 .. open[k].at - 1 :
       program.files[open[k].file][i].decl = "import" /\ (k = Len(open) \/ i # open[k].at - 1) =>
         program.files[open[k].file][i].name \in Imported
  /\ \A f \in Imported : Imports(f) \subseteq Imported
  /\ Imported \cup OpenFiles \subseteq AllFiles

\* No file is open twice.
OpenOnce == \A k, l \in 1 .. Len(open) : open[k].file = open[l].file => k = l

\* The structs are those of the imported files and of what was parsed of the open ones.
StructsOK ==
  /\ TopOK(top_ast)
  /\ StructNames(top_ast) = (UNION {DeclaredIn(f) : f \in Imported})
                            \cup (UNION {Begun(program.files[open[k].file], open[k].at - 1) : k \in 1 .. Len(open)})
  /\ DeclaredOnce /\ OpenOnce => AllDiffer(top_ast)

\* What has been generated was parsed to its end, and no error was seen.
GeneratedOK ==
  /\ AtEnd /\ Len(open) = 1
  /\ \A st \in Structs(top_ast) : ~simple_error(top_ast, st) /\ ~compact_error(top_ast, st)

FrontIInv ==
  /\ status \in {"parsing", "generated"} => StackOK /\ ImportsOK /\ StructsOK
  /\ status = "generated" => GeneratedOK

LEMMA MainReached ==
  ASSUME program \in Programs
  PROVE  program.main \in AllFiles
BY ProgramsAssumption DEF AllFiles

LEMMA ImportReached ==
  ASSUME NEW f \in AllFiles, NEW g \in DOMAIN program.files, g \in Imports(f)
  PROVE  g \in AllFiles
<1>1. ASSUME NEW files \in SUBSET DOMAIN program.files, program.main \in files,
             \A h \in files : Imports(h) \cap DOMAIN program.files \subseteq files
      PROVE  g \in files
  <2>1. f \in files
    BY <1>1 DEF AllFiles
  <2> QED BY <1>1, <2>1
<1> QED BY <1>1 DEF AllFiles

LEMMA ReachedOnly ==
  ASSUME NEW S \in SUBSET DOMAIN program.files, program.main \in S,
         \A g \in S : Imports(g) \subseteq S
  PROVE  AllFiles \subseteq S
BY DEF AllFiles

\* What the rest of a step leaves as it is.
LEMMA SameProgram ==
  ASSUME program' = program
  PROVE  /\ AllFiles' = AllFiles /\ (DeclaredOnce' <=> DeclaredOnce)
         /\ \A f : Imports(f)' = Imports(f) /\ DeclaredIn(f)' = DeclaredIn(f)
<1>1. \A f : Imports(f)' = Imports(f)
  BY DEF Imports
<1>2. AllFiles' = AllFiles
  BY DEF AllFiles, Imports
<1>3. DeclaredOnce' <=> DeclaredOnce
  BY DEF DeclaredOnce
<1>4. \A f : DeclaredIn(f)' = DeclaredIn(f)
  BY DEF DeclaredIn
<1> QED BY <1>1, <1>2, <1>3, <1>4

LEMMA HereIs ==
  ASSUME StackOK
  PROVE  /\ Len(open) \in Nat /\ Len(open) \in 1 .. Len(open) /\ Here = open[Len(open)]
         /\ Here.file \in DOMAIN program.files /\ Here.at \in Nat \ {0}
         /\ IsList(program.files[Here.file]) /\ Len(program.files[Here.file]) \in Nat
         /\ AtEnd <=> Here.at = Len(program.files[Here.file]) + 1
         /\ ~AtEnd => /\ Here.at \in 1 .. Len(program.files[Here.file])
                      /\ Current = program.files[Here.file][Here.at]
                      /\ Current.decl = "namespace" => IsList(Current.within)
<1>1. /\ Len(open) \in Nat /\ Len(open) \in 1 .. Len(open) /\ Here = open[Len(open)]
      /\ Here \in [file : DOMAIN program.files, at : Nat \ {0}]
  <2> DEFINE R == [file : DOMAIN program.files, at : Nat \ {0}]
  <2>1. open \in Seq(R) /\ Len(open) >= 1
    BY DEF StackOK
  <2> HIDE DEF R
  <2>2. Len(open) \in Nat /\ Len(open) \in 1 .. Len(open) /\ open[Len(open)] \in R
    BY <2>1
  <2> QED BY <2>2 DEF Here, Last, R
<1>2. /\ IsList(program.files[Here.file])
      /\ \A d \in ToSet(program.files[Here.file]) : d.decl = "namespace" => IsList(d.within)
  BY <1>1, ProgramsAssumption DEF StackOK
<1>3. Len(program.files[Here.file]) \in Nat
  BY <1>2, ListIs
<1>4. Here.at <= Len(program.files[Here.file]) + 1
  BY <1>1 DEF StackOK
<1>5. AtEnd <=> Here.at = Len(program.files[Here.file]) + 1
  BY <1>1, <1>3, <1>4 DEF AtEnd
<1>6. ~AtEnd => Here.at \in 1 .. Len(program.files[Here.file])
  BY <1>1, <1>3, <1>4, <1>5
<1>7. ~AtEnd => Current \in ToSet(program.files[Here.file]) /\ Current = program.files[Here.file][Here.at]
  BY <1>2, <1>6, ListIs DEF Current
<1> QED BY <1>1, <1>2, <1>3, <1>5, <1>6, <1>7

\* One declaration further in the innermost file.
LEMMA PastIs ==
  ASSUME StackOK, ~AtEnd
  PROVE  /\ Past \in Seq([file : DOMAIN program.files, at : Nat \ {0}]) /\ Len(Past) = Len(open)
         /\ \A k \in 1 .. Len(open) : k # Len(open) => Past[k] = open[k]
         /\ Past[Len(open)] = [file |-> Here.file, at |-> Here.at + 1]
         /\ \A k \in 1 .. Len(open) : Past[k].file = open[k].file
         /\ \A k \in 1 .. Len(open) : Past[k].at <= Len(program.files[Past[k].file]) + 1
<1> DEFINE R == [file : DOMAIN program.files, at : Nat \ {0}]
           x == [file |-> Here.file, at |-> Here.at + 1]
<1>1. Len(open) \in Nat /\ Len(open) \in 1 .. Len(open) /\ Here = open[Len(open)] /\ open \in Seq(R)
  BY HereIs DEF StackOK
<1>2. open[Len(open)] \in R /\ x \in R
  <2>1. Here.file \in DOMAIN program.files /\ Here.at + 1 \in Nat \ {0}
    BY HereIs
  <2>2. x \in R
    BY <2>1
  <2> HIDE DEF R, x
  <2> QED BY <1>1, <2>2
<1>3. [open[Len(open)] EXCEPT !.at = @ + 1] = x
  BY <1>1, <1>2
<1>4. Past = [open EXCEPT ![Len(open)] = x]
  BY <1>3 DEF Past
<1> HIDE DEF R
<1>5. Past \in Seq(R) /\ Len(Past) = Len(open)
  BY <1>1, <1>2, <1>4
<1>6. \A k \in 1 .. Len(open) : k # Len(open) => Past[k] = open[k]
  BY <1>1, <1>4
<1>7. Past[Len(open)] = x
  BY <1>1, <1>4
<1>8. x.file = Here.file /\ x.at = Here.at + 1
  OBVIOUS
<1> HIDE DEF x
<1>9. \A k \in 1 .. Len(open) : Past[k].file = open[k].file
  BY <1>1, <1>6, <1>7, <1>8
<1>10. x.at <= Len(program.files[x.file]) + 1
  BY <1>8, HereIs
<1>11. ASSUME NEW k \in 1 .. Len(open) PROVE Past[k].at <= Len(program.files[Past[k].file]) + 1
  <2>1. CASE k = Len(open)
    BY <2>1, <1>7, <1>10
  <2>2. CASE k # Len(open)
    BY <2>2, <1>6 DEF StackOK
  <2> QED BY <2>1, <2>2
<1> QED BY <1>5, <1>6, <1>7, <1>9, <1>11 DEF R, x

LEMMA Advanced ==
  ASSUME StackOK, ImportsOK, ~AtEnd, open' = Past, program' = program,
         top_ast'.imported_files = top_ast.imported_files,
         Current.decl = "import" => Current.name \in Imported
  PROVE  StackOK' /\ ImportsOK'
<1> DEFINE L == Len(open)
<1>1. /\ L \in Nat /\ L \in 1 .. L /\ L >= 1 /\ Here = open[L]
      /\ Here.at \in Nat \ {0} /\ Current = program.files[Here.file][Here.at]
  BY HereIs
<1>2. /\ Len(open') = L
      /\ \A k \in 1 .. L : k # L => open'[k] = open[k]
      /\ \A k \in 1 .. L : open'[k].file = open[k].file
      /\ open'[L].at = Here.at + 1
  BY PastIs
<1>3. Imported' = Imported /\ OpenFiles' = OpenFiles
  <2>1. Imported' = Imported
    BY DEF Imported
  <2>2. OpenFiles' = {open'[k].file : k \in 1 .. L}
    BY <1>2 DEF OpenFiles
  <2> QED BY <1>2, <2>1, <2>2 DEF OpenFiles
<1>4. StackOK'
  <2>1. /\ open' \in Seq([file : DOMAIN program.files, at : Nat \ {0}])
        /\ \A k \in 1 .. L : open'[k].at <= Len(program.files[open'[k].file]) + 1
    BY PastIs
  <2>2. open'[1].file = program.main
    BY <1>1, <1>2 DEF StackOK
  <2>3. program' \in Programs
    BY DEF StackOK
  <2> HIDE DEF L
  <2> QED BY <1>1, <1>2, <2>1, <2>2, <2>3 DEF StackOK
<1>5. ASSUME NEW k \in 1 .. L - 1
      PROVE  /\ open'[k].at > 1
             /\ program.files[open'[k].file][open'[k].at - 1].decl = "import"
             /\ program.files[open'[k].file][open'[k].at - 1].name = open'[k + 1].file
  <2>1. k \in 1 .. L /\ k # L /\ k + 1 \in 1 .. L
    BY <1>1
  <2>2. open'[k] = open[k] /\ open'[k + 1].file = open[k + 1].file
    BY <1>2, <2>1
  <2>3. program.files[open'[k].file][open'[k].at - 1] = program.files[open[k].file][open[k].at - 1]
    BY <2>2
  <2>4. /\ open[k].at > 1
        /\ program.files[open[k].file][open[k].at - 1].decl = "import"
        /\ program.files[open[k].file][open[k].at - 1].name = open[k + 1].file
    BY DEF ImportsOK
  <2> QED BY <2>2, <2>3, <2>4
<1>6. ASSUME NEW k \in 1 .. L, NEW i \in 1 .. open'[k].at - 1,
             program.files[open'[k].file][i].decl = "import" /\ (k = L \/ i # open'[k].at - 1)
      PROVE  program.files[open'[k].file][i].name \in Imported
  <2>1. program.files[open'[k].file][i] = program.files[open[k].file][i]
    BY <1>2
  <2>2. CASE k # L
    <3>1. open'[k] = open[k]
      BY <1>2, <2>2
    <3> QED BY <1>6, <2>1, <2>2, <3>1 DEF ImportsOK
  <2>3. CASE k = L /\ i # Here.at
    <3>1. i \in 1 .. open[L].at - 1
      BY <1>1, <1>2, <2>3
    <3> QED BY <1>6, <2>1, <2>3, <3>1 DEF ImportsOK
  <2>4. CASE k = L /\ i = Here.at
    BY <1>1, <1>6, <2>1, <2>4
  <2> QED BY <2>2, <2>3, <2>4
<1>7. \A f : Imports(f)' = Imports(f)
  BY SameProgram
<1>8. AllFiles' = AllFiles
  BY SameProgram
<1>9. ImportsOK'
  <2>1. IsList(top_ast'.imported_files) /\ Imported' \subseteq DOMAIN program'.files /\ Imported' \cap OpenFiles' = {}
    BY <1>3 DEF ImportsOK
  <2>2. /\ \A f \in Imported' : Imports(f)' \subseteq Imported'
        /\ Imported' \cup OpenFiles' \subseteq AllFiles'
    BY <1>3, <1>7, <1>8 DEF ImportsOK
  <2>3. \A k \in 1 .. Len(open') - 1 :
         /\ open'[k].at > 1
         /\ program.files[open'[k].file][open'[k].at - 1].decl = "import"
         /\ program.files[open'[k].file][open'[k].at - 1].name = open'[k + 1].file
    BY <1>2, <1>5
  <2>4. \A k \in 1 .. Len(open') : \A i \in 1 .. open'[k].at - 1 :
         program.files[open'[k].file][i].decl = "import" /\ (k = Len(open') \/ i # open'[k].at - 1) =>
           program.files[open'[k].file][i].name \in Imported'
    BY <1>2, <1>3, <1>6
  <2> QED BY <2>1, <2>2, <2>3, <2>4 DEF ImportsOK
<1> QED BY <1>4, <1>9

LEMMA BegunNext ==
  ASSUME NEW decls, NEW n \in Nat \ {0}
  PROVE  Begun(decls, n) = Begun(decls, n - 1) \cup DeclaredBy(decls[n])
<1>1. \A i : i \in 1 .. n <=> i \in 1 .. n - 1 \/ i = n
  OBVIOUS
<1> QED BY <1>1 DEF Begun

LEMMA AdvancedStructs ==
  ASSUME StackOK, StructsOK, ~AtEnd, open' = Past, program' = program,
         top_ast'.imported_files = top_ast.imported_files, TopOK(top_ast'),
         StructNames(top_ast') = StructNames(top_ast) \cup DeclaredBy(Current),
         DeclaredOnce /\ OpenOnce => AllDiffer(top_ast')
  PROVE  StructsOK'
<1> DEFINE L == Len(open)
           Some == UNION {Begun(program.files[open[k].file], open[k].at - 1) : k \in 1 .. L}
           More == UNION {Begun(program.files[open'[k].file], open'[k].at - 1) : k \in 1 .. L}
<1>1. /\ L \in Nat /\ L \in 1 .. L /\ Here = open[L]
      /\ Here.at \in Nat \ {0} /\ Current = program.files[Here.file][Here.at]
  BY HereIs
<1>2. /\ Len(open') = L
      /\ \A k \in 1 .. L : k # L => open'[k] = open[k]
      /\ \A k \in 1 .. L : open'[k].file = open[k].file
      /\ open'[L].at = Here.at + 1
  BY PastIs
<1>3. ASSUME NEW k \in 1 .. L
      PROVE  Begun(program.files[open'[k].file], open'[k].at - 1) =
               Begun(program.files[open[k].file], open[k].at - 1) \cup (IF k = L THEN DeclaredBy(Current) ELSE {})
  <2>1. CASE k # L
    BY <1>2, <2>1
  <2>2. CASE k = L
    <3>1. open'[k].file = Here.file /\ open'[k].at - 1 = Here.at
      BY <1>1, <1>2, <2>2
    <3>2. Begun(program.files[Here.file], Here.at) = Begun(program.files[Here.file], Here.at - 1) \cup DeclaredBy(Current)
      BY <1>1, BegunNext
    <3> QED BY <1>1, <2>2, <3>1, <3>2
  <2> QED BY <2>1, <2>2
<1>4. More = Some \cup DeclaredBy(Current)
  BY <1>1, <1>3
<1>5. Imported' = Imported /\ \A f : DeclaredIn(f)' = DeclaredIn(f)
  BY SameProgram DEF Imported
<1>6. StructNames(top_ast') = (UNION {DeclaredIn(f)' : f \in Imported'}) \cup More
  BY <1>4, <1>5 DEF StructsOK
<1>7. OpenOnce' <=> OpenOnce
  BY <1>2 DEF OpenOnce
<1>8. DeclaredOnce' <=> DeclaredOnce
  BY SameProgram
<1>9. More = UNION {Begun(program'.files[open'[k].file], open'[k].at - 1) : k \in 1 .. Len(open')}
  BY <1>2
<1> HIDE DEF L, More
<1> QED BY <1>6, <1>7, <1>8, <1>9 DEF StructsOK

LEMMA ImportsNothing ==
  ASSUME NEW d, d.decl = "import"
  PROVE  DeclaredBy(d) = {}
BY DEF DeclaredBy

\* The stack with a file more that is about to be parsed.
LEMMA NewIs ==
  ASSUME StackOK, ~AtEnd, NEW f \in DOMAIN program.files
  PROVE  LET more == Append(Past, [file |-> f, at |-> 1]) IN
         /\ more \in Seq([file : DOMAIN program.files, at : Nat \ {0}]) /\ Len(more) = Len(open) + 1
         /\ \A k \in 1 .. Len(open) : more[k] = Past[k]
         /\ more[Len(open) + 1].file = f /\ more[Len(open) + 1].at = 1
<1> DEFINE R == [file : DOMAIN program.files, at : Nat \ {0}]
           new == [file |-> f, at |-> 1]
<1>1. Past \in Seq(R) /\ Len(Past) = Len(open) /\ Len(open) \in Nat
  BY HereIs, PastIs
<1>2. new \in R /\ new.file = f /\ new.at = 1
  OBVIOUS
<1> HIDE DEF R, new
<1>3. /\ Append(Past, new) \in Seq(R) /\ Len(Append(Past, new)) = Len(open) + 1
      /\ \A k \in 1 .. Len(open) : Append(Past, new)[k] = Past[k]
      /\ Append(Past, new)[Len(open) + 1] = new
  BY <1>1, <1>2
<1> QED BY <1>2, <1>3 DEF R, new

\* A file is opened.
LEMMA Opened ==
  ASSUME StackOK, ImportsOK, StructsOK, ~AtEnd, Current.decl = "import",
         Current.name \in DOMAIN program.files, Current.name \notin Imported,
         program' = program, top_ast' = top_ast,
         open' \in Seq([file : DOMAIN program.files, at : Nat \ {0}]), Len(open') = Len(open) + 1,
         \A k \in 1 .. Len(open) : open'[k] = Past[k],
         open'[Len(open) + 1].file = Current.name, open'[Len(open) + 1].at = 1
  PROVE  StackOK' /\ ImportsOK' /\ StructsOK'
<1> DEFINE L == Len(open)
<1>1. /\ L \in Nat /\ L \in 1 .. L /\ L >= 1 /\ Here = open[L]
      /\ Here.at \in Nat \ {0} /\ Current = program.files[Here.file][Here.at]
      /\ Here.at \in 1 .. Len(program.files[Here.file])
      /\ Here.file \in DOMAIN program.files /\ IsList(program.files[Here.file])
  BY HereIs
<1>2. /\ \A k \in 1 .. L : k # L => Past[k] = open[k]
      /\ \A k \in 1 .. L : Past[k].file = open[k].file
      /\ Past[L].at = Here.at + 1
      /\ \A k \in 1 .. L : Past[k].at <= Len(program.files[Past[k].file]) + 1
  BY PastIs
<1>3. open'[L + 1].file = Current.name /\ open'[L + 1].at = 1
  OBVIOUS
<1>4. Len(open') = L + 1 /\ \A k \in 1 .. L : open'[k] = Past[k]
  OBVIOUS
<1> HIDE DEF L
<1>5. \A k : k \in 1 .. L + 1 <=> k \in 1 .. L \/ k = L + 1
  BY <1>1
<1>6. /\ \A k \in 1 .. L : k # L => open'[k] = open[k]
      /\ \A k \in 1 .. L : open'[k].file = open[k].file
      /\ open'[L].at = Here.at + 1 /\ open'[L].file = Here.file
  BY <1>1, <1>2, <1>4
<1>7. StackOK'
  <2>1. open'[1].file = program.main
    BY <1>1, <1>6 DEF StackOK
  <2>2. ASSUME NEW k \in 1 .. L + 1 PROVE open'[k].at <= Len(program.files[open'[k].file]) + 1
    <3>1. CASE k \in 1 .. L
      BY <1>2, <1>4, <3>1
    <3>2. CASE k = L + 1
      <4>1. IsList(program.files[Current.name])
        BY ProgramsAssumption DEF StackOK
      <4>2. Len(program.files[Current.name]) \in Nat
        BY <4>1, ListIs
      <4> QED BY <1>3, <1>4, <3>2, <4>2
    <3> QED BY <1>5, <3>1, <3>2
  <2>3. program' \in Programs /\ program' = program /\ Len(open') >= 1
    BY <1>1, <1>4 DEF StackOK
  <2> QED BY <1>4, <2>1, <2>2, <2>3 DEF StackOK
<1>8. Imported' = Imported /\ OpenFiles' = OpenFiles \cup {Current.name}
  <2>1. Imported' = Imported
    BY DEF Imported
  <2>2. OpenFiles' = {open'[k].file : k \in 1 .. L + 1} /\ OpenFiles = {open[k].file : k \in 1 .. L}
    BY <1>4 DEF OpenFiles, L
  <2>3. {open'[k].file : k \in 1 .. L + 1} = {open'[k].file : k \in 1 .. L} \cup {open'[L + 1].file}
    BY <1>5
  <2>4. {open'[k].file : k \in 1 .. L} = {open[k].file : k \in 1 .. L}
    BY <1>6
  <2> QED BY <1>3, <2>1, <2>2, <2>3, <2>4
<1>9. ImportsOK'
  <2>1. IsList(top_ast'.imported_files) /\ Imported' \subseteq DOMAIN program'.files /\ Imported' \cap OpenFiles' = {}
    BY <1>8 DEF ImportsOK
  <2>2. ASSUME NEW k \in 1 .. L
        PROVE  /\ open'[k].at > 1
               /\ program.files[open'[k].file][open'[k].at - 1].decl = "import"
               /\ program.files[open'[k].file][open'[k].at - 1].name = open'[k + 1].file
    <3>1. CASE k # L
      <4>1. k \in 1 .. L - 1 /\ k + 1 \in 1 .. L
        BY <1>1, <3>1
      <4>2. open'[k] = open[k] /\ open'[k + 1].file = open[k + 1].file
        BY <1>6, <3>1, <4>1
      <4> QED BY <4>1, <4>2 DEF ImportsOK, L
    <3>2. CASE k = L
      <4>1. open'[k].at = Here.at + 1 /\ open'[k].at - 1 = Here.at /\ Here.at + 1 > 1
        BY <1>1, <1>6, <3>2
      <4> QED BY <1>1, <1>3, <1>4, <1>6, <3>2, <4>1
    <3> QED BY <3>1, <3>2
  <2>3. ASSUME NEW k \in 1 .. L + 1, NEW i \in 1 .. open'[k].at - 1,
               program.files[open'[k].file][i].decl = "import" /\ (k = L + 1 \/ i # open'[k].at - 1)
        PROVE  program.files[open'[k].file][i].name \in Imported
    <3>1. CASE k \in 1 .. L /\ k # L
      <4>1. open'[k] = open[k] /\ k # L + 1
        BY <1>1, <1>6, <3>1
      <4> QED BY <2>3, <3>1, <4>1 DEF ImportsOK, L
    <3>2. CASE k = L
      <4>1. i \in 1 .. open[L].at - 1
        BY <1>1, <1>6, <2>3, <3>2
      <4>2. open'[k].file = open[L].file
        BY <1>1, <1>6, <3>2
      <4> QED BY <1>1, <2>3, <3>2, <4>1, <4>2 DEF ImportsOK, L
    <3>3. CASE k = L + 1
      BY <1>3, <1>4, <3>3
    <3> QED BY <1>5, <3>1, <3>2, <3>3
  <2>4. /\ \A f \in Imported' : Imports(f)' \subseteq Imported'
        /\ Imported' \cup OpenFiles' \subseteq AllFiles'
    <3>1. AllFiles' = AllFiles /\ \A f : Imports(f)' = Imports(f)
      BY SameProgram
    <3>2. Here.file \in AllFiles
      BY <1>1 DEF ImportsOK, OpenFiles, L
    <3>3. Current \in ToSet(program.files[Here.file])
      BY <1>1, ListIs
    <3>4. Current.name \in Imports(Here.file)
      BY <3>3 DEF Imports
    <3>5. Current.name \in AllFiles
      BY <3>2, <3>4, ImportReached
    <3> QED BY <1>8, <3>1, <3>5 DEF ImportsOK
  <2>5. \A k \in 1 .. Len(open') - 1 :
          /\ open'[k].at > 1
          /\ program'.files[open'[k].file][open'[k].at - 1].decl = "import"
          /\ program'.files[open'[k].file][open'[k].at - 1].name = open'[k + 1].file
    <3>1. Len(open') - 1 = L
      BY <1>1, <1>4
    <3> QED BY <2>2, <3>1
  <2>6. \A k \in 1 .. Len(open') : \A i \in 1 .. open'[k].at - 1 :
          program'.files[open'[k].file][i].decl = "import" /\ (k = Len(open') \/ i # open'[k].at - 1) =>
            program'.files[open'[k].file][i].name \in Imported'
    BY <1>4, <1>8, <2>3
  <2> QED BY <2>1, <2>4, <2>5, <2>6 DEF ImportsOK
<1>10. StructsOK'
  <2> DEFINE B(k) == Begun(program.files[open[k].file], open[k].at - 1)
             C(k) == Begun(program.files[open'[k].file], open'[k].at - 1)
  <2>1. \A k \in 1 .. L : C(k) = B(k)
    <3>1. Begun(program.files[Here.file], Here.at) = Begun(program.files[Here.file], Here.at - 1) \cup DeclaredBy(Current)
      BY <1>1, BegunNext
    <3>2. DeclaredBy(Current) = {}
      BY ImportsNothing
    <3>3. open'[L].at - 1 = Here.at
      BY <1>1, <1>6
    <3>4. C(L) = B(L)
      BY <1>1, <1>6, <3>1, <3>2, <3>3
    <3> QED BY <1>6, <3>4
  <2>2. C(L + 1) = {}
    <3>1. open'[L + 1].at - 1 = 0
      BY <1>3, <1>4
    <3> QED BY <3>1 DEF Begun
  <2> HIDE DEF B, C
  <2>3. UNION {C(k) : k \in 1 .. L + 1} = UNION {B(k) : k \in 1 .. L}
    BY <1>5, <2>1, <2>2
  <2>4. (UNION {DeclaredIn(f)' : f \in Imported'}) = UNION {DeclaredIn(f) : f \in Imported}
    BY <1>8, SameProgram
  <2>5. StructNames(top_ast') = (UNION {DeclaredIn(f)' : f \in Imported'}) \cup (UNION {C(k) : k \in 1 .. L + 1})
    BY <2>3, <2>4 DEF StructsOK, B, L
  <2>6. OpenOnce' => OpenOnce
    BY <1>4, <1>5, <1>6 DEF OpenOnce, L
  <2>7. DeclaredOnce' <=> DeclaredOnce
    BY SameProgram
  <2> QED BY <1>4, <2>5, <2>6, <2>7 DEF StructsOK, C
<1> QED BY <1>7, <1>9, <1>10

\* A file at its end: all it imports has been imported.
LEMMA AllImported ==
  ASSUME StackOK, ImportsOK, AtEnd
  PROVE  Imports(Here.file) \subseteq Imported
<1> DEFINE L == Len(open)
           decls == program.files[Here.file]
<1>1. L \in 1 .. L /\ open[L] = Here /\ IsList(decls) /\ Here.at - 1 = Len(decls)
  <2>1. Here.at = Len(decls) + 1 /\ Len(decls) \in Nat
    BY HereIs
  <2> QED BY <2>1, HereIs
<1>2. SUFFICES ASSUME NEW d \in ToSet(decls), d.decl = "import" PROVE d.name \in Imported
  BY DEF Imports
<1>3. PICK i \in 1 .. Len(decls) : decls[i] = d
  BY <1>1, ListIs
<1>4. i \in 1 .. open[L].at - 1 /\ program.files[open[L].file][i] = d
  BY <1>1, <1>3
<1> HIDE DEF L
<1> QED BY <1>1, <1>2, <1>4 DEF ImportsOK, L

\* The innermost file is closed and counts as imported.
LEMMA Closed ==
  ASSUME StackOK, ImportsOK, StructsOK, AtEnd, Len(open) > 1, program' = program,
         open' \in Seq([file : DOMAIN program.files, at : Nat \ {0}]), Len(open') = Len(open) - 1,
         \A k \in 1 .. Len(open) - 1 : open'[k] = open[k],
         TopOK(top_ast'), top_ast'.imported_files = Append(top_ast.imported_files, Here.file),
         StructNames(top_ast') = StructNames(top_ast), AllDiffer(top_ast) => AllDiffer(top_ast')
  PROVE  StackOK' /\ ImportsOK' /\ StructsOK'
<1> DEFINE L == Len(open)
           f == Here.file
           decls == program.files[f]
<1>1. /\ L \in Nat /\ L \in 1 .. L /\ L > 1 /\ L - 1 \in 1 .. L - 1 /\ Here = open[L]
      /\ f \in DOMAIN program.files /\ IsList(decls) /\ Len(decls) \in Nat
      /\ open[L].file = f /\ open[L].at - 1 = Len(decls)
  <2>1. Here.at = Len(decls) + 1
    BY HereIs
  <2> QED BY <2>1, HereIs
<1>2. Len(open') = L - 1 /\ \A k \in 1 .. L - 1 : open'[k] = open[k]
  OBVIOUS
<1> HIDE DEF L, f, decls
<1>3. \A k : k \in 1 .. L <=> k \in 1 .. L - 1 \/ k = L
  BY <1>1
<1>4. Imported' = Imported \cup {f} /\ IsList(top_ast'.imported_files)
  <2>1. IsList(top_ast.imported_files)
    BY DEF ImportsOK
  <2> QED BY <2>1, AppendToSet DEF Imported, f
<1>5. Imports(f) \subseteq Imported
  BY AllImported DEF f
\* So it is not open a second time: what was opened for its import is still open.
<1>6. ASSUME NEW k \in 1 .. L - 1 PROVE open[k].file # f
  <2>1. SUFFICES ASSUME open[k].file = f PROVE FALSE
    OBVIOUS
  <2>2. k \in 1 .. L /\ k + 1 \in 1 .. L
    BY <1>1
  <2>3. /\ open[k].at > 1 /\ program.files[open[k].file][open[k].at - 1].decl = "import"
        /\ program.files[open[k].file][open[k].at - 1].name = open[k + 1].file
    BY DEF ImportsOK, L
  <2>4. open[k].at - 1 \in 1 .. Len(decls)
    <3>1. open[k] \in [file : DOMAIN program.files, at : Nat \ {0}] /\ open[k].at <= Len(decls) + 1
      <4> DEFINE R == [file : DOMAIN program.files, at : Nat \ {0}]
      <4>1. open \in Seq(R)
        BY DEF StackOK
      <4> HIDE DEF R
      <4>2. open[k] \in R
        BY <2>2, <4>1 DEF L
      <4>3. open[k].at <= Len(decls) + 1
        BY <2>1, <2>2 DEF StackOK, L, decls
      <4> QED BY <4>2, <4>3 DEF R
    <3>2. open[k].at \in Nat
      BY <3>1
    <3>3. \A n \in Nat : \A m \in Nat : n > 1 /\ n <= m + 1 => n - 1 \in 1 .. m
      OBVIOUS
    <3> QED BY <1>1, <2>3, <3>1, <3>2, <3>3
  <2>5. decls[open[k].at - 1] \in ToSet(decls)
    BY <1>1, <2>4, ListIs
  <2>6. open[k + 1].file \in Imports(f)
    BY <2>1, <2>3, <2>5 DEF Imports, decls
  <2>7. open[k + 1].file \in OpenFiles
    BY <2>2 DEF OpenFiles, L
  <2> QED BY <1>5, <2>6, <2>7 DEF ImportsOK
<1>7. StackOK'
  <2>1. open'[1].file = program.main
    BY <1>1, <1>2 DEF StackOK
  <2>2. ASSUME NEW k \in 1 .. L - 1 PROVE open'[k].at <= Len(program.files[open'[k].file]) + 1
    <3>1. k \in 1 .. L /\ open'[k] = open[k]
      BY <1>2, <1>3
    <3> QED BY <3>1 DEF StackOK, L
  <2>3. program' \in Programs /\ Len(open') >= 1
    BY <1>1, <1>2 DEF StackOK
  <2> QED BY <1>2, <2>1, <2>2, <2>3 DEF StackOK
<1>8. OpenFiles' \cup {f} = OpenFiles
  <2>1. OpenFiles' = {open'[k].file : k \in 1 .. L - 1} /\ OpenFiles = {open[k].file : k \in 1 .. L}
    BY <1>2 DEF OpenFiles, L
  <2>2. {open'[k].file : k \in 1 .. L - 1} = {open[k].file : k \in 1 .. L - 1}
    BY <1>2
  <2>3. {open[k].file : k \in 1 .. L} = {open[k].file : k \in 1 .. L - 1} \cup {open[L].file}
    BY <1>3
  <2> QED BY <1>1, <2>1, <2>2, <2>3
<1>9. f \notin OpenFiles'
  <2>1. OpenFiles' = {open'[k].file : k \in 1 .. L - 1}
    BY <1>2 DEF OpenFiles
  <2> QED BY <1>2, <1>6, <2>1
<1>10. ImportsOK'
  <2>1. Imported' \subseteq DOMAIN program'.files /\ Imported' \cap OpenFiles' = {}
    BY <1>1, <1>4, <1>8, <1>9 DEF ImportsOK
  <2>2. \A k \in 1 .. Len(open') - 1 :
          /\ open'[k].at > 1
          /\ program'.files[open'[k].file][open'[k].at - 1].decl = "import"
          /\ program'.files[open'[k].file][open'[k].at - 1].name = open'[k + 1].file
    <3>1. SUFFICES ASSUME NEW k \in 1 .. L - 2
                   PROVE  /\ open'[k].at > 1
                          /\ program.files[open'[k].file][open'[k].at - 1].decl = "import"
                          /\ program.files[open'[k].file][open'[k].at - 1].name = open'[k + 1].file
      <4>1. Len(open') - 1 = L - 2
        BY <1>1, <1>2
      <4> QED BY <4>1
    <3>2. k \in 1 .. L - 1 /\ k + 1 \in 1 .. L - 1
      BY <1>1
    <3>3. open'[k] = open[k] /\ open'[k + 1] = open[k + 1]
      BY <1>2, <3>2
    <3> QED BY <3>2, <3>3 DEF ImportsOK, L
  \* The import that brought the file is done.
  <2>3. ASSUME NEW k \in 1 .. L - 1, NEW i \in 1 .. open'[k].at - 1, program.files[open'[k].file][i].decl = "import",
               k = L - 1 \/ i # open'[k].at - 1
        PROVE  program.files[open'[k].file][i].name \in Imported'
    <3>1. open'[k] = open[k] /\ k \in 1 .. L
      BY <1>2, <1>3
    <3>2. CASE i # open[k].at - 1
      BY <1>4, <2>3, <3>1, <3>2 DEF ImportsOK, L
    <3>3. CASE i = open[k].at - 1
      <4>1. k + 1 = L
        BY <1>1, <2>3, <3>1, <3>3
      <4>2. program.files[open[k].file][open[k].at - 1].name = open[k + 1].file
        BY DEF ImportsOK, L
      <4> QED BY <1>1, <1>4, <3>1, <3>3, <4>1, <4>2
    <3> QED BY <3>2, <3>3
  <2>4. \A k \in 1 .. Len(open') : \A i \in 1 .. open'[k].at - 1 :
          program'.files[open'[k].file][i].decl = "import" /\ (k = Len(open') \/ i # open'[k].at - 1) =>
            program'.files[open'[k].file][i].name \in Imported'
    BY <1>2, <2>3
  <2>5. /\ \A g \in Imported' : Imports(g)' \subseteq Imported'
        /\ Imported' \cup OpenFiles' \subseteq AllFiles'
    <3>1. AllFiles' = AllFiles /\ \A g : Imports(g)' = Imports(g)
      BY SameProgram
    <3>2. \A g \in Imported : Imports(g) \subseteq Imported
      BY DEF ImportsOK
    <3> QED BY <1>4, <1>5, <1>8, <3>1, <3>2 DEF ImportsOK
  <2> QED BY <1>4, <2>1, <2>2, <2>4, <2>5 DEF ImportsOK
<1>11. StructsOK'
  <2> DEFINE B(k) == Begun(program.files[open[k].file], open[k].at - 1)
             C(k) == Begun(program.files[open'[k].file], open'[k].at - 1)
  <2>1. \A k \in 1 .. L - 1 : C(k) = B(k)
    BY <1>2
  <2>2. B(L) = DeclaredIn(f)
    <3>1. \A d : d \in ToSet(decls) <=> \E i \in 1 .. Len(decls) : decls[i] = d
      BY <1>1, ListIs
    <3>2. {DeclaredBy(decls[i]) : i \in 1 .. Len(decls)} = {DeclaredBy(d) : d \in ToSet(decls)}
      BY <3>1
    <3>3. Begun(decls, Len(decls)) = UNION {DeclaredBy(d) : d \in ToSet(decls)}
      BY <3>2 DEF Begun
    <3> QED BY <1>1, <3>3 DEF DeclaredIn, decls
  <2> HIDE DEF B, C
  <2>3. UNION {B(k) : k \in 1 .. L} = (UNION {C(k) : k \in 1 .. L - 1}) \cup DeclaredIn(f)
    BY <1>3, <2>1, <2>2
  <2>4. UNION {DeclaredIn(g)' : g \in Imported'} = (UNION {DeclaredIn(g) : g \in Imported}) \cup DeclaredIn(f)
    <3>1. \A g : DeclaredIn(g)' = DeclaredIn(g)
      BY SameProgram
    <3>2. UNION {DeclaredIn(g) : g \in Imported \cup {f}} = (UNION {DeclaredIn(g) : g \in Imported}) \cup DeclaredIn(f)
      OBVIOUS
    <3> QED BY <1>4, <3>1, <3>2
  <2>5. StructNames(top_ast) = (UNION {DeclaredIn(g) : g \in Imported}) \cup (UNION {B(k) : k \in 1 .. L})
    BY DEF StructsOK, B, L
  <2>6. StructNames(top_ast') = (UNION {DeclaredIn(g)' : g \in Imported'}) \cup (UNION {C(k) : k \in 1 .. L - 1})
    BY <2>3, <2>4, <2>5
  <2>7. OpenOnce' => OpenOnce
    <3>1. ASSUME OpenOnce', NEW k \in 1 .. L, NEW l \in 1 .. L, open[k].file = open[l].file PROVE k = l
      <4>1. CASE k \in 1 .. L - 1 /\ l \in 1 .. L - 1
        <5>1. open'[k].file = open'[l].file
          BY <1>2, <3>1, <4>1
        <5> QED BY <1>2, <3>1, <4>1, <5>1 DEF OpenOnce
      <4>2. CASE k = L \/ l = L
        BY <1>1, <1>3, <1>6, <3>1, <4>2
      <4> QED BY <1>3, <4>1, <4>2
    <3> QED BY <3>1 DEF OpenOnce, L
  <2>8. DeclaredOnce' <=> DeclaredOnce
    BY SameProgram
  <2> QED BY <1>2, <2>6, <2>7, <2>8 DEF StructsOK, C
<1> QED BY <1>7, <1>10, <1>11

\* What is declared next was not declared before.
LEMMA NewDeclaration ==
  ASSUME StackOK, ImportsOK, StructsOK, ~AtEnd, DeclaredOnce, OpenOnce
  PROVE  /\ StructNames(top_ast) \cap DeclaredBy(Current) = {}
         /\ Current.decl = "namespace" => DeclaredApart(Current.within)
<1> DEFINE L == Len(open)
           f == Here.file
           n == Here.at
<1>1. /\ L \in Nat /\ L \in 1 .. L /\ open[L].file = f /\ open[L].at = n
      /\ f \in DOMAIN program.files /\ n \in Nat \ {0} /\ n \in 1 .. Len(program.files[f])
      /\ Current = program.files[f][n]
      /\ Current.decl = "namespace" => IsList(Current.within)
  BY HereIs
<1> HIDE DEF L, f, n
<1>2. ASSUME NEW g, g \in DOMAIN program.files
      PROVE  IsList(program.files[g]) /\ Len(program.files[g]) \in Nat
             /\ DOMAIN program.files[g] = 1 .. Len(program.files[g])
  <2>1. IsList(program.files[g])
    BY <1>2, ProgramsAssumption DEF StackOK
  <2> QED BY <2>1, ListIs
<1>3. ASSUME NEW g \in DOMAIN program.files, NEW i \in 1 .. Len(program.files[g]),
             NEW x, x \in DeclaredBy(program.files[g][i]), x \in DeclaredBy(Current)
      PROVE  g = f /\ i = n
  <2>1. i \in DOMAIN program.files[g] /\ n \in DOMAIN program.files[f]
    BY <1>1, <1>2
  <2>2. DeclaredBy(program.files[g][i]) \cap DeclaredBy(program.files[f][n]) # {}
    BY <1>1, <1>3
  <2>3. \A h \in DOMAIN program.files : \A j \in DOMAIN program.files[h] :
          DeclaredBy(program.files[g][i]) \cap DeclaredBy(program.files[h][j]) # {} => g = h /\ i = j
    BY <2>1 DEF DeclaredOnce
  <2> QED BY <1>1, <2>1, <2>2, <2>3
<1>4. ASSUME NEW x, x \in StructNames(top_ast), x \in DeclaredBy(Current) PROVE FALSE
  <2>1. CASE \E g \in Imported : x \in DeclaredIn(g)
    <3>1. PICK g \in Imported : x \in DeclaredIn(g)
      BY <2>1
    <3>2. g \in DOMAIN program.files
      BY DEF ImportsOK
    <3>3. PICK d \in ToSet(program.files[g]) : x \in DeclaredBy(d)
      BY <3>1 DEF DeclaredIn
    <3>4. PICK i \in 1 .. Len(program.files[g]) : program.files[g][i] = d
      BY <1>2, <3>2, ListIs
    <3>5. g = f
      BY <1>3, <1>4, <3>2, <3>3, <3>4
    <3>6. f \in OpenFiles
      BY <1>1 DEF OpenFiles, L
    <3> QED BY <3>5, <3>6 DEF ImportsOK
  <2>2. CASE \E k \in 1 .. L : x \in Begun(program.files[open[k].file], open[k].at - 1)
    <3>1. PICK k \in 1 .. L : x \in Begun(program.files[open[k].file], open[k].at - 1)
      BY <2>2
    <3>2. PICK i \in 1 .. open[k].at - 1 : x \in DeclaredBy(program.files[open[k].file][i])
      BY <3>1 DEF Begun
    <3>3. open[k].file \in DOMAIN program.files /\ open[k].at \in Nat
      <4> DEFINE R == [file : DOMAIN program.files, at : Nat \ {0}]
      <4>1. open \in Seq(R)
        BY DEF StackOK
      <4> HIDE DEF R
      <4>2. open[k] \in R
        BY <4>1 DEF L
      <4> QED BY <4>2 DEF R
    <3>4. open[k].at <= Len(program.files[open[k].file]) + 1
      BY DEF StackOK, L
    <3>5. i \in 1 .. Len(program.files[open[k].file])
      BY <1>2, <3>3, <3>4
    <3>6. open[k].file = f /\ i = n
      BY <1>3, <1>4, <3>2, <3>3, <3>5
    <3>7. k = L
      BY <1>1, <3>6 DEF OpenOnce, L
    <3> QED BY <1>1, <3>6, <3>7
  <2> QED BY <1>4, <2>1, <2>2 DEF StructsOK, L
<1>5. ASSUME Current.decl = "namespace" PROVE DeclaredApart(Current.within)
  <2>1. f \in DOMAIN program.files /\ n \in DOMAIN program.files[f]
    BY <1>1, <1>2
  <2>2. DOMAIN Current.within = 1 .. Len(Current.within)
    BY <1>1, <1>5, ListIs
  <2>3. \A k, l \in DOMAIN Current.within :
          Current.within[k].decl = "struct" /\ Current.within[l].decl = "struct"
            /\ Current.within[k].name = Current.within[l].name => k = l
    BY <1>1, <1>5, <2>1 DEF DeclaredOnce
  <2> QED BY <2>2, <2>3 DEF DeclaredApart
<1> QED BY <1>4, <1>5

-----------------------------------------------------------------------------
(* The steps of the compiler.                                              *)

LEMMA FrontStarts ==
  ASSUME FrontInit
  PROVE  FrontIInv
<1>1. /\ program \in Programs /\ open = <<[file |-> program.main, at |-> 1]>>
      /\ top_ast = EmptyGlobal /\ status = "parsing"
  BY DEF FrontInit
<1>2. program.main \in DOMAIN program.files /\ IsList(program.files[program.main])
  BY <1>1, ProgramsAssumption
<1>3. Len(program.files[program.main]) \in Nat
  BY <1>2, ListIs
<1> DEFINE first == [file |-> program.main, at |-> 1]
<1>4. first.file = program.main /\ first.at = 1 /\ first \in [file : DOMAIN program.files, at : Nat \ {0}]
  BY <1>2
<1> HIDE DEF first
<1>5. open \in Seq([file : DOMAIN program.files, at : Nat \ {0}]) /\ Len(open) = 1 /\ open[1] = first
  <2> DEFINE R == [file : DOMAIN program.files, at : Nat \ {0}]
  <2>1. open = <<first>> /\ first \in R
    BY <1>1, <1>4 DEF first
  <2> HIDE DEF R
  <2>2. open \in Seq(R) /\ Len(open) = 1 /\ open[1] = first
    BY <2>1
  <2> QED BY <2>2 DEF R
<1>6. \A k : k \in 1 .. Len(open) <=> k = 1
  BY <1>5
<1>7. StackOK
  BY <1>1, <1>3, <1>4, <1>5, <1>6 DEF StackOK
<1>8. top_ast.imported_files = << >> /\ top_ast.spaces = <<EmptySpace(GlobalSpace)>> /\ top_ast.enums = << >>
  BY <1>1 DEF EmptyGlobal
<1>9. IsList(<< >>) /\ ToSet(<< >>) = {} /\ Len(<< >>) = 0
  BY DEF IsList, ToSet
<1>10. Imported = {}
  BY <1>8, <1>9 DEF Imported
<1>11. OpenFiles = {program.main}
  BY <1>4, <1>5, <1>6 DEF OpenFiles
<1>12. ImportsOK
  <2>1. \A k : k \notin 1 .. Len(open) - 1
    BY <1>5
  <2>2. \A k \in 1 .. Len(open) : \A i : i \notin 1 .. open[k].at - 1
    BY <1>4, <1>5, <1>6
  <2>3. program.main \in AllFiles
    BY <1>1, MainReached
  <2> QED BY <1>8, <1>9, <1>10, <1>11, <2>1, <2>2, <2>3 DEF ImportsOK
<1>13. StructsOK
  <2> DEFINE sp == EmptySpace(GlobalSpace)
  <2>1. sp.name = GlobalSpace /\ sp.structs = << >> /\ sp = [name |-> sp.name, structs |-> sp.structs, enums |-> sp.enums]
    BY DEF EmptySpace
  <2> HIDE DEF sp
  <2>2. SpaceOK(sp) /\ NamesIn(sp) = {} /\ NamesDiffer(sp)
    BY <1>9, <2>1 DEF SpaceOK, NamesIn, NamesDiffer
  <2>3. IsList(<<sp>>) /\ Len(<<sp>>) = 1 /\ <<sp>>[1] = sp
    <3>1. <<sp>> \in Seq({sp})
      OBVIOUS
    <3>2. IsList(<<sp>>)
      BY <3>1, SeqIsList
    <3> QED BY <3>2
  <2>4. top_ast.spaces = <<sp>>
    BY <1>8 DEF sp
  <2>5. \A i : i \in 1 .. Len(top_ast.spaces) <=> i = 1
    BY <2>3, <2>4
  <2>6. \A i : i \notin 2 .. Len(top_ast.spaces)
    BY <2>3, <2>4
  <2>7. top_ast = [spaces |-> top_ast.spaces, imported_files |-> top_ast.imported_files, enums |-> top_ast.enums]
    BY <1>1 DEF EmptyGlobal
  <2>8. TopOK(top_ast)
    BY <2>1, <2>2, <2>3, <2>4, <2>5, <2>6, <2>7 DEF TopOK
  <2>9. StructNames(top_ast) = {}
    BY <2>2, <2>3, <2>4, <2>5, <2>8, StructNamesAre
  <2>10. AllDiffer(top_ast)
    BY <2>2, <2>3, <2>4, <2>5 DEF AllDiffer
  <2>11. \A k \in 1 .. Len(open) : Begun(program.files[open[k].file], open[k].at - 1) = {}
    <3>1. open[1].at - 1 = 0
      BY <1>4, <1>5
    <3>2. Begun(program.files[open[1].file], 0) = {}
      BY DEF Begun
    <3> QED BY <1>6, <3>1, <3>2
  <2> QED BY <1>10, <2>8, <2>9, <2>10, <2>11 DEF StructsOK
<1> QED BY <1>1, <1>7, <1>12, <1>13 DEF FrontIInv

LEMMA ImportKeeps ==
  ASSUME FrontIInv, parseImport
  PROVE  FrontIInv'
<1>1. /\ StackOK /\ ImportsOK /\ StructsOK /\ ~AtEnd /\ Current.decl = "import"
      /\ program' = program /\ top_ast' = top_ast
  BY DEF FrontIInv, parseImport
<1>2. Contains(top_ast.imported_files, Current.name) <=> Current.name \in Imported
  BY <1>1, ListIs DEF ImportsOK, Imported, Contains
<1>3. CASE Current.name \in Imported
  <2>1. open' = Past /\ status' = status
    BY <1>2, <1>3 DEF parseImport
  <2>2. StackOK' /\ ImportsOK'
    BY <1>1, <1>3, <2>1, Advanced
  <2>3. StructsOK'
    <3>1. DeclaredBy(Current) = {}
      BY <1>1, ImportsNothing
    <3>2. StructNames(top_ast') = StructNames(top_ast) \cup DeclaredBy(Current)
      BY <1>1, <3>1
    <3>3. TopOK(top_ast') /\ (DeclaredOnce /\ OpenOnce => AllDiffer(top_ast'))
      BY <1>1 DEF StructsOK
    <3> QED BY <1>1, <2>1, <3>2, <3>3, AdvancedStructs
  <2>4. status' # "generated"
    BY <2>1 DEF parseImport
  <2> QED BY <2>2, <2>3, <2>4 DEF FrontIInv
<1>4. CASE Current.name \notin Imported /\ open' = Append(Past, [file |-> Current.name, at |-> 1])
  <2>1. Current.name \in DOMAIN program.files /\ status' = status
    <3>1. status' = "overflow" \/ status' = "failed" => open' = open
      BY <1>2, <1>4 DEF parseImport
    <3>2. Len(open') = Len(open) + 1 /\ Len(open) \in Nat
      <4>1. Past \in Seq([file : DOMAIN program.files, at : Nat \ {0}]) /\ Len(Past) = Len(open)
        BY <1>1, PastIs
      <4>2. \A S : \A s \in Seq(S) : \A x : Len(Append(s, x)) = Len(s) + 1
        OBVIOUS
      <4> QED BY <1>1, <1>4, <4>1, <4>2, HereIs
    <3>3. open' # open
      BY <3>2
    <3> QED BY <1>2, <1>4, <3>1, <3>3 DEF parseImport
  <2>2. /\ open' \in Seq([file : DOMAIN program.files, at : Nat \ {0}]) /\ Len(open') = Len(open) + 1
        /\ \A k \in 1 .. Len(open) : open'[k] = Past[k]
        /\ open'[Len(open) + 1].file = Current.name /\ open'[Len(open) + 1].at = 1
    BY <1>1, <1>4, <2>1, NewIs
  <2>3. StackOK' /\ ImportsOK' /\ StructsOK'
    BY <1>1, <1>4, <2>1, <2>2, Opened
  <2>4. status' # "generated"
    BY <2>1 DEF parseImport
  <2> QED BY <2>3, <2>4 DEF FrontIInv
<1>5. CASE status' = "overflow" \/ status' = "failed"
  BY <1>5 DEF FrontIInv
<1> QED BY <1>2, <1>3, <1>4, <1>5 DEF parseImport

LEMMA EndImportKeeps ==
  ASSUME FrontIInv, endImport
  PROVE  FrontIInv'
<1>1. /\ StackOK /\ ImportsOK /\ StructsOK /\ AtEnd /\ Len(open) > 1 /\ program' = program
      /\ status' = status /\ status = "parsing"
      /\ open' = Front(open)
      /\ top_ast' = [top_ast EXCEPT !.imported_files = Append(@, Here.file)]
  BY DEF FrontIInv, endImport
<1>2. /\ open' \in Seq([file : DOMAIN program.files, at : Nat \ {0}]) /\ Len(open') = Len(open) - 1
      /\ \A k \in 1 .. Len(open) - 1 : open'[k] = open[k]
  <2> DEFINE R == [file : DOMAIN program.files, at : Nat \ {0}]
             front == SubSeq(open, 1, Len(open) - 1)
  <2>1. open \in Seq(R) /\ Len(open) \in Nat /\ Len(open) > 1
    BY <1>1, HereIs DEF StackOK
  <2> HIDE DEF R
  <2>2. front \in Seq(R) /\ Len(front) = Len(open) - 1 /\ \A k \in 1 .. Len(open) - 1 : front[k] = open[k]
    BY <2>1
  <2> QED BY <1>1, <2>2 DEF R, Front
<1>3. /\ top_ast' = [spaces |-> top_ast.spaces, imported_files |-> Append(top_ast.imported_files, Here.file),
                     enums |-> top_ast.enums]
  BY <1>1 DEF StructsOK, TopOK
<1>4. /\ top_ast'.spaces = top_ast.spaces
      /\ top_ast'.imported_files = Append(top_ast.imported_files, Here.file)
      /\ top_ast' = [spaces |-> top_ast'.spaces, imported_files |-> top_ast'.imported_files, enums |-> top_ast'.enums]
  BY <1>3
<1>5. TopOK(top_ast') /\ StructNames(top_ast') = StructNames(top_ast) /\ (AllDiffer(top_ast) => AllDiffer(top_ast'))
  BY <1>1, <1>4 DEF StructsOK, TopOK, StructNames, Structs, AllDiffer
<1>6. StackOK' /\ ImportsOK' /\ StructsOK'
  BY <1>1, <1>2, <1>4, <1>5, Closed
<1> QED BY <1>1, <1>6 DEF FrontIInv

LEMMA DeclarationKeeps ==
  ASSUME FrontIInv, ParseInternal
  PROVE  FrontIInv'
<1> DEFINE g == Declare([ok |-> TRUE, top |-> top_ast], Current)
<1>1. /\ StackOK /\ ImportsOK /\ StructsOK /\ ~AtEnd /\ Current.decl # "import" /\ program' = program
      /\ status = "parsing" /\ top_ast' = g.top
  BY DEF FrontIInv, ParseInternal
<1>2. CASE ~g.ok
  <2>1. status' = "failed"
    BY <1>2 DEF ParseInternal
  <2> QED BY <2>1 DEF FrontIInv
<1>3. CASE g.ok
  <2>1. open' = Past /\ status' = status
    BY <1>3 DEF ParseInternal
  <2>2. TopOK(top_ast) /\ (Current.decl = "namespace" => IsList(Current.within))
    BY <1>1, HereIs DEF StructsOK
  <2>3. /\ TopOK(g.top) /\ g.top.imported_files = top_ast.imported_files
        /\ StructNames(g.top) = StructNames(top_ast) \cup DeclaredBy(Current)
        /\ AllDiffer(top_ast) /\ (Current.decl = "namespace" => DeclaredApart(Current.within))
           /\ StructNames(top_ast) \cap DeclaredBy(Current) = {} => AllDiffer(g.top)
    BY <1>3, <2>2, DeclareGrows
  <2> HIDE DEF g
  <2>4. StackOK' /\ ImportsOK'
    BY <1>1, <2>1, <2>3, Advanced
  <2>5. DeclaredOnce /\ OpenOnce => AllDiffer(top_ast')
    BY <1>1, <2>3, NewDeclaration DEF StructsOK
  <2>6. StructsOK'
    BY <1>1, <2>1, <2>3, <2>5, AdvancedStructs
  <2> QED BY <1>1, <2>1, <2>4, <2>6 DEF FrontIInv
<1> QED BY <1>2, <1>3

\* Nothing is generated of a schema in which an error was seen.
LEMMA MainKeeps ==
  ASSUME FrontIInv, main
  PROVE  FrontIInv'
<1>1. /\ StackOK /\ ImportsOK /\ StructsOK /\ AtEnd /\ Len(open) = 1
      /\ program' = program /\ open' = open /\ top_ast' = top_ast
  BY DEF FrontIInv, main
<1>2. StackOK' /\ ImportsOK' /\ StructsOK'
  <2>1. AllFiles' = AllFiles /\ (DeclaredOnce' <=> DeclaredOnce)
        /\ \A f : Imports(f)' = Imports(f) /\ DeclaredIn(f)' = DeclaredIn(f)
    BY <1>1, SameProgram
  <2>2. StackOK'
    BY <1>1 DEF StackOK
  <2>3. Imported' = Imported /\ OpenFiles' = OpenFiles /\ (OpenOnce' <=> OpenOnce)
    BY <1>1 DEF Imported, OpenFiles, OpenOnce
  <2>4. ImportsOK'
    BY <1>1, <2>1, <2>3 DEF ImportsOK
  <2>5. StructsOK'
    BY <1>1, <2>1, <2>3 DEF StructsOK
  <2> QED BY <2>2, <2>4, <2>5
<1>3. ASSUME status' = "generated" PROVE GeneratedOK'
  <2>1. ~ \E st \in Structs(top_ast) : simple_error(top_ast, st) \/ compact_error(top_ast, st)
    BY <1>3 DEF main
  <2>2. AtEnd'
    BY <1>1 DEF AtEnd, Here
  <2> QED BY <1>1, <2>1, <2>2 DEF GeneratedOK
<1> QED BY <1>2, <1>3 DEF FrontIInv

LEMMA FrontStutters ==
  ASSUME FrontIInv, UNCHANGED frontVars
  PROVE  FrontIInv'
<1>1. program' = program /\ open' = open /\ top_ast' = top_ast /\ status' = status
  BY DEF frontVars
<1>2. AllFiles' = AllFiles /\ (DeclaredOnce' <=> DeclaredOnce)
      /\ \A f : Imports(f)' = Imports(f) /\ DeclaredIn(f)' = DeclaredIn(f)
  BY <1>1, SameProgram
<1>3. StackOK' <=> StackOK
  BY <1>1 DEF StackOK
<1>4. Imported' = Imported /\ OpenFiles' = OpenFiles /\ (OpenOnce' <=> OpenOnce)
  BY <1>1 DEF Imported, OpenFiles, OpenOnce
<1>5. ImportsOK' <=> ImportsOK
  BY <1>1, <1>2, <1>4 DEF ImportsOK
<1>6. StructsOK' <=> StructsOK
  BY <1>1, <1>2, <1>4 DEF StructsOK
<1>7. GeneratedOK' <=> GeneratedOK
  BY <1>1 DEF GeneratedOK, AtEnd, Here
<1> QED BY <1>1, <1>3, <1>5, <1>6, <1>7 DEF FrontIInv

LEMMA FrontKeeps ==
  ASSUME FrontIInv, [FrontNext]_frontVars
  PROVE  FrontIInv'
<1>1. CASE parseImport
  BY <1>1, ImportKeeps
<1>2. CASE endImport
  BY <1>2, EndImportKeeps
<1>3. CASE ParseInternal
  BY <1>3, DeclarationKeeps
<1>4. CASE main
  BY <1>4, MainKeeps
<1>5. CASE UNCHANGED frontVars
  BY <1>5, FrontStutters
<1> QED BY <1>1, <1>2, <1>3, <1>4, <1>5 DEF FrontNext

\* The compiler never loses its place: while it parses and once it has generated, the
\* files it is inside of (the parsers on the stack of parseImport) lead from main to the
\* innermost by imports, every other import it met has been imported with all that it
\* imports, and the structs it holds are those of what it has parsed.
THEOREM FrontInductive == FrontSpec => []FrontIInv
<1>1. FrontInit => FrontIInv
  BY FrontStarts
<1>2. FrontIInv /\ [FrontNext]_frontVars => FrontIInv'
  BY FrontKeeps
<1> QED BY <1>1, <1>2, PTL DEF FrontSpec

\* Once all is parsed, the imported files and main are the files of the schema.
LEMMA AllParsed ==
  ASSUME StackOK, ImportsOK, AtEnd, Len(open) = 1
  PROVE  AllFiles = Imported \cup {program.main}
<1> DEFINE f == program.main
           S == Imported \cup {f}
<1>1. Here.file = f /\ f \in DOMAIN program.files
  BY HereIs DEF StackOK
<1>2. Imports(f) \subseteq Imported
  BY <1>1, AllImported
<1>3. S \in SUBSET DOMAIN program.files /\ f \in S /\ \A g \in S : Imports(g) \subseteq S
  BY <1>1, <1>2 DEF ImportsOK
<1> HIDE DEF S
<1>4. AllFiles \subseteq S
  BY <1>3, ReachedOnly
<1>5. S \subseteq AllFiles
  BY MainReached DEF StackOK, ImportsOK, S
<1> QED BY <1>4, <1>5 DEF S

LEMMA ImportedOnceHolds ==
  ASSUME FrontIInv
  PROVE  ImportedOnce
<1> SUFFICES ASSUME status = "generated", DeclaredOnce
             PROVE  /\ StructNames(top_ast) = UNION {DeclaredIn(f) : f \in AllFiles}
                    /\ \A sp \in ToSet(top_ast.spaces) : \A i, j \in DOMAIN sp.structs :
                         sp.structs[i].name = sp.structs[j].name => i = j
                    /\ \A i, j \in 2 .. Len(top_ast.spaces) : top_ast.spaces[i].name = top_ast.spaces[j].name => i = j
  BY DEF ImportedOnce, StructNames
<1> DEFINE main_file == program.main
<1>1. StackOK /\ ImportsOK /\ StructsOK /\ AtEnd /\ Len(open) = 1 /\ TopOK(top_ast)
  BY DEF FrontIInv, GeneratedOK, StructsOK
<1>2. \A k : k \in 1 .. Len(open) <=> k = 1
  BY <1>1
<1>3. AllDiffer(top_ast)
  BY <1>1, <1>2 DEF StructsOK, OpenOnce
<1>4. Begun(program.files[open[1].file], open[1].at - 1) = DeclaredIn(main_file)
  <2> DEFINE decls == program.files[main_file]
  <2>1. open[1].file = main_file /\ open[1].at - 1 = Len(decls) /\ IsList(decls)
    <3>1. Here.file = main_file /\ Here = open[1]
      BY <1>1, HereIs DEF StackOK
    <3>2. /\ Len(program.files[Here.file]) \in Nat /\ Here.at = Len(program.files[Here.file]) + 1
          /\ IsList(program.files[Here.file])
      BY <1>1, HereIs
    <3> QED BY <3>1, <3>2
  <2> HIDE DEF decls
  <2>2. {DeclaredBy(decls[i]) : i \in 1 .. Len(decls)} = {DeclaredBy(d) : d \in ToSet(decls)}
    BY <2>1, ListIs
  <2>3. Begun(decls, Len(decls)) = UNION {DeclaredBy(d) : d \in ToSet(decls)}
    BY <2>2 DEF Begun
  <2> QED BY <2>1, <2>3 DEF DeclaredIn, decls
<1>5. StructNames(top_ast) = (UNION {DeclaredIn(f) : f \in Imported}) \cup DeclaredIn(main_file)
  <2>1. UNION {Begun(program.files[open[k].file], open[k].at - 1) : k \in 1 .. Len(open)} = DeclaredIn(main_file)
    BY <1>2, <1>4
  <2> QED BY <1>1, <2>1 DEF StructsOK
<1>6. StructNames(top_ast) = UNION {DeclaredIn(f) : f \in AllFiles}
  <2>1. AllFiles = Imported \cup {main_file}
    BY <1>1, AllParsed
  <2> HIDE DEF main_file
  <2>2. UNION {DeclaredIn(f) : f \in Imported \cup {main_file}} = (UNION {DeclaredIn(f) : f \in Imported}) \cup DeclaredIn(main_file)
    OBVIOUS
  <2> QED BY <1>5, <2>1, <2>2
<1>7. ASSUME NEW sp \in ToSet(top_ast.spaces), NEW i \in DOMAIN sp.structs, NEW j \in DOMAIN sp.structs,
             sp.structs[i].name = sp.structs[j].name
      PROVE  i = j
  <2>1. PICK k \in 1 .. Len(top_ast.spaces) : top_ast.spaces[k] = sp
    BY <1>1, ListIs DEF TopOK
  <2>2. SpaceOK(sp) /\ NamesDiffer(sp)
    BY <1>1, <1>3, <2>1 DEF TopOK, AllDiffer
  <2>3. DOMAIN sp.structs = 1 .. Len(sp.structs)
    BY <2>2, ListIs DEF SpaceOK
  <2> QED BY <1>7, <2>2, <2>3 DEF NamesDiffer
<1> QED BY <1>1, <1>6, <1>7 DEF TopOK

\* However many ways lead to a file, through imports of imports, each struct it declares
\* is in its namespace once, and so is what any file declares, and nothing else is there:
\* parseImport looks a file up in imported_files, where it is put only when it has been
\* parsed to its end.
THEOREM FilesImportedOnce == FrontSpec => []ImportedOnce
<1>1. FrontIInv => ImportedOnce
  BY ImportedOnceHolds
<1> QED BY <1>1, FrontInductive, PTL

LEMMA NamesResolvedHolds ==
  ASSUME FrontIInv
  PROVE  NamesResolved
<1> SUFFICES ASSUME status = "generated", NEW st \in Undeclared
             PROVE  ~simple(top_ast, st) /\ has_compact(top_ast, st)
  BY DEF NamesResolved
<1>1. st \in Structs(top_ast) /\ \E e \in Elements(st) : Missing(top_ast, st, e)
  BY DEF Undeclared
<1>2. \A i \in DOMAIN st.elements : st.elements[i] \in Elements(st)
  BY DEF Elements, ToSet
<1>3. PICK i \in DOMAIN st.elements : Missing(top_ast, st, st.elements[i])
  BY <1>1 DEF Elements, ToSet
<1>4. ~simple_error(top_ast, st) /\ ~compact_error(top_ast, st)
  BY <1>1 DEF FrontIInv, GeneratedOK
<1>5. \E j \in DOMAIN st.elements : ~simple_elem(top_ast, st, st.elements[j])
  BY <1>3, <1>4 DEF simple_error, MissedBy
<1>6. \E j \in DOMAIN st.elements : compact_elem(top_ast, st, st.elements[j])
  BY <1>3, <1>4 DEF compact_error, MissedBy
<1> QED BY <1>2, <1>5, <1>6 DEF simple, has_compact

\* Code is generated of a struct with a type that nobody declares only if its size is not
\* fixed and it has a compact array: compute_simple and compute_compact stop at the first
\* element that tells them their answer, and only what each looked at before can be missed
\* by neither.
THEOREM NamesAreResolved == FrontSpec => []NamesResolved
<1>1. FrontIInv => NamesResolved
  BY NamesResolvedHolds
<1> QED BY <1>1, FrontInductive, PTL

\* The imported files are each listed once, after all they import.
ListedInOrder ==
  \A i \in 1 .. Len(top_ast.imported_files) :
    /\ \A j \in 1 .. Len(top_ast.imported_files) :
         top_ast.imported_files[i] = top_ast.imported_files[j] => i = j
    /\ \A g \in Imports(top_ast.imported_files[i]) : \E j \in 1 .. i - 1 : top_ast.imported_files[j] = g

\* What is generated comes of files that import one another in no circle: those that were
\* imported can be listed so that each comes after all it imports, and none imports main.
\* An import that leads back to a file that is open is not refused by parseImport, so a
\* circle never gets here.
ImportsFirst ==
  status = "generated" => ListedInOrder /\ Imported = AllFiles \ {program.main}

OrderIInv == FrontIInv /\ (status \in {"parsing", "generated"} => ListedInOrder)

LEMMA SameOrder ==
  ASSUME program' = program, top_ast'.imported_files = top_ast.imported_files, ListedInOrder
  PROVE  ListedInOrder'
<1> DEFINE s == top_ast.imported_files
           t == top_ast'.imported_files
<1>1. \A f : Imports(f)' = Imports(f)
  BY SameProgram
<1>2. \A i \in 1 .. Len(s) : /\ \A j \in 1 .. Len(s) : s[i] = s[j] => i = j
                             /\ \A g \in Imports(s[i]) : \E j \in 1 .. i - 1 : s[j] = g
  BY DEF ListedInOrder
<1>3. Len(t) = Len(s) /\ \A i : t[i] = s[i]
  OBVIOUS
<1> HIDE DEF s, t
<1>4. ASSUME NEW i \in 1 .. Len(t)
      PROVE  /\ \A j \in 1 .. Len(t) : t[i] = t[j] => i = j
             /\ \A g \in Imports(t[i]) : \E j \in 1 .. i - 1 : t[j] = g
  <2>1. i \in 1 .. Len(s) /\ t[i] = s[i]
    BY <1>3
  <2>2. \A j \in 1 .. Len(t) : t[i] = t[j] => i = j
    BY <1>2, <1>3, <2>1
  <2>3. \A g \in Imports(s[i]) : \E j \in 1 .. i - 1 : s[j] = g
    BY <1>2, <2>1
  <2>4. \A g \in Imports(t[i]) : \E j \in 1 .. i - 1 : t[j] = g
    BY <1>3, <2>1, <2>3
  <2> QED BY <2>2, <2>4
<1> QED BY <1>1, <1>4 DEF ListedInOrder, t

\* A file is put at the end of the list when its imports are in it.
LEMMA EndImportOrders ==
  ASSUME FrontIInv, endImport, ListedInOrder
  PROVE  ListedInOrder'
<1> DEFINE s == top_ast.imported_files
           t == top_ast'.imported_files
           f == Here.file
<1>1. StackOK /\ ImportsOK /\ AtEnd /\ program' = program /\ top_ast' = [top_ast EXCEPT !.imported_files = Append(@, f)]
  BY DEF FrontIInv, endImport
<1>2. t = Append(s, f)
  <2>1. top_ast = [spaces |-> top_ast.spaces, imported_files |-> s, enums |-> top_ast.enums]
    BY DEF FrontIInv, StructsOK, TopOK, endImport
  <2> HIDE DEF s, f
  <2>2. top_ast' = [spaces |-> top_ast.spaces, imported_files |-> Append(s, f), enums |-> top_ast.enums]
    BY <1>1, <2>1 DEF s
  <2> QED BY <2>2
<1>3. Imports(f) \subseteq Imported /\ f \notin Imported
  <2>1. f \in OpenFiles
    BY <1>1, HereIs DEF OpenFiles
  <2> QED BY <1>1, <2>1, AllImported DEF ImportsOK
<1>4. IsList(s) /\ Imported = {s[i] : i \in 1 .. Len(s)} /\ Len(s) \in Nat
  <2>1. IsList(s)
    BY <1>1 DEF ImportsOK
  <2> QED BY <2>1, ListIs DEF Imported
<1>5. \A i \in 1 .. Len(s) : /\ \A j \in 1 .. Len(s) : s[i] = s[j] => i = j
                             /\ \A g \in Imports(s[i]) : \E j \in 1 .. i - 1 : s[j] = g
  BY DEF ListedInOrder
<1>6. \A g : Imports(g)' = Imports(g)
  BY <1>1, SameProgram
<1> HIDE DEF s, t, f
<1>7. Len(t) = Len(s) + 1 /\ t[Len(s) + 1] = f /\ \A i \in 1 .. Len(s) : t[i] = s[i]
  BY <1>2, <1>4, AppendIsList
<1>8. \A i : i \in 1 .. Len(t) <=> i \in 1 .. Len(s) \/ i = Len(s) + 1
  BY <1>4, <1>7
<1>9. ASSUME NEW i \in 1 .. Len(t), NEW j \in 1 .. Len(t), t[i] = t[j] PROVE i = j
  <2>1. \A k \in 1 .. Len(s) : t[k] = s[k] /\ s[k] # f
    BY <1>3, <1>4, <1>7
  <2>2. CASE i \in 1 .. Len(s) /\ j \in 1 .. Len(s)
    BY <1>5, <1>9, <2>1, <2>2
  <2>3. CASE i = Len(s) + 1 \/ j = Len(s) + 1
    BY <1>7, <1>8, <1>9, <2>1, <2>3
  <2> QED BY <1>8, <2>2, <2>3
<1>10. ASSUME NEW i \in 1 .. Len(t) PROVE \A g \in Imports(t[i]) : \E j \in 1 .. i - 1 : t[j] = g
  <2>1. \A j \in 1 .. i - 1 : j \in 1 .. Len(s) /\ t[j] = s[j]
    BY <1>4, <1>7
  <2>2. CASE i \in 1 .. Len(s)
    BY <1>5, <1>7, <2>1, <2>2
  <2>3. CASE i = Len(s) + 1
    <3>1. i - 1 = Len(s)
      BY <1>4, <2>3
    <3> QED BY <1>3, <1>4, <1>7, <2>1, <2>3, <3>1
  <2> QED BY <1>8, <2>2, <2>3
<1> QED BY <1>6, <1>9, <1>10 DEF ListedInOrder, t

LEMMA OrderKeeps ==
  ASSUME OrderIInv, [FrontNext]_frontVars
  PROVE  OrderIInv'
<1> SUFFICES ASSUME status' \in {"parsing", "generated"} PROVE FrontIInv' /\ ListedInOrder'
  <2>1. FrontIInv'
    BY FrontKeeps DEF OrderIInv
  <2> QED BY <2>1 DEF OrderIInv
<1>1. FrontIInv /\ FrontIInv'
  BY FrontKeeps DEF OrderIInv
<1>2. CASE parseImport
  <2>1. status = "parsing" /\ program' = program /\ top_ast' = top_ast
    BY <1>2 DEF parseImport
  <2> QED BY <1>1, <2>1, SameOrder DEF OrderIInv
<1>3. CASE endImport
  <2>1. status = "parsing"
    BY <1>3 DEF endImport
  <2> QED BY <1>1, <1>3, <2>1, EndImportOrders DEF OrderIInv
<1>4. CASE ParseInternal
  <2> DEFINE g == Declare([ok |-> TRUE, top |-> top_ast], Current)
  <2>1. status = "parsing" /\ ~AtEnd /\ program' = program /\ top_ast' = g.top /\ (~g.ok => status' = "failed")
    BY <1>4 DEF ParseInternal
  <2>2. g.ok
    BY <2>1
  <2>3. StackOK /\ TopOK(top_ast) /\ (Current.decl = "namespace" => IsList(Current.within))
    BY <1>1, <2>1, HereIs DEF FrontIInv, StructsOK
  <2>4. g.top.imported_files = top_ast.imported_files
    BY <2>2, <2>3, DeclareGrows
  <2> HIDE DEF g
  <2> QED BY <1>1, <2>1, <2>4, SameOrder DEF OrderIInv
<1>5. CASE main
  <2>1. status = "parsing" /\ program' = program /\ top_ast' = top_ast
    BY <1>5 DEF main
  <2> QED BY <1>1, <2>1, SameOrder DEF OrderIInv
<1>6. CASE UNCHANGED frontVars
  <2>1. status' = status /\ program' = program /\ top_ast' = top_ast
    BY <1>6 DEF frontVars
  <2> QED BY <1>1, <2>1, SameOrder DEF OrderIInv
<1> QED BY <1>2, <1>3, <1>4, <1>5, <1>6 DEF FrontNext

\* No circle of imports is generated code of, whatever the files and however deep the
\* stack of parsers may be.
THEOREM NoCircleOfImports == FrontSpec => []ImportsFirst
<1>1. FrontInit => OrderIInv
  <2> SUFFICES ASSUME FrontInit PROVE FrontIInv /\ ListedInOrder
    BY DEF OrderIInv
  <2>1. top_ast.imported_files = << >>
    BY DEF FrontInit, EmptyGlobal
  <2>2. \A i : i \notin 1 .. Len(top_ast.imported_files)
    BY <2>1
  <2> QED BY <2>2, FrontStarts DEF ListedInOrder
<1>2. OrderIInv /\ [FrontNext]_frontVars => OrderIInv'
  BY OrderKeeps
<1>3. OrderIInv => ImportsFirst
  <2> SUFFICES ASSUME OrderIInv, status = "generated" PROVE Imported = AllFiles \ {program.main}
    BY DEF ImportsFirst, OrderIInv
  <2>1. StackOK /\ ImportsOK /\ AtEnd /\ Len(open) = 1
    BY DEF OrderIInv, FrontIInv, GeneratedOK
  <2>2. AllFiles = Imported \cup {program.main}
    BY <2>1, AllParsed
  <2>3. program.main \in OpenFiles
    BY <2>1 DEF OpenFiles, StackOK
  <2> QED BY <2>1, <2>2, <2>3 DEF ImportsOK
<1> QED BY <1>1, <1>2, <1>3, PTL DEF FrontSpec
=============================================================================
