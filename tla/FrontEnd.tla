------------------------------- MODULE FrontEnd -------------------------------
(***************************************************************************)
(* The compiler up to the point where it generates code: Parser.cpp, with  *)
(* the files it imports, and the checks of main in cbuf.cpp.  The tokens   *)
(* of a file are kept as its declarations; an expression is kept as its    *)
(* tokens, of which Expressions says what they mean.                       *)
(***************************************************************************)
EXTENDS Ast

CONSTANTS
  Programs,   \* schemas: [main, files], files from names to declarations
  MaxDepth,   \* bound: files open at once
  IsExpression(_), Value(_)   \* of tokens: whether they are a constant expression, its value

\* A file is a list of declarations, a namespace one of what is in it.
IsList(s) == s \in Seq(ToSet(s))

ASSUME ProgramsAssumption ==
  \A p \in Programs :
    /\ p.main \in DOMAIN p.files
    /\ \A f \in DOMAIN p.files :
         IsList(p.files[f]) /\ \A d \in ToSet(p.files[f]) : d.decl = "namespace" => IsList(d.within)

VARIABLES
  program,    \* what is compiled
  open,       \* the files being parsed, the innermost last: [file, at]
  top_ast,
  status      \* "parsing", "failed", "overflow", "generated"

frontVars == <<program, open, top_ast, status>>
-----------------------------------------------------------------------------
(* Declarations.                                                           *)

ParsedInit(init) ==
  CASE init.kind = "integer" -> [init EXCEPT !.values = <<Value(@[1])>>]
    [] init.kind = "array" -> [init EXCEPT !.values = [i \in DOMAIN @ |-> Value(@[i])]]
    [] OTHER -> init

ArraySize(part) == FoldLeft(LAMBDA a, b : a * b, IF part.sizes = << >> THEN 0 ELSE 1, part.sizes)

\* Loosely: an integer may be promoted, a bool be 0 or 1, and a name be given to
\* a custom type.  Arrays are of integers here.
checkTypes(type, init) ==
  CASE init.kind \in {"integer", "array"} ->
         \/ type \notin {"string", "short_string", "custom", "bool"}
         \/ type = "bool" /\ init.kind = "integer" /\ Value(init.values[1]) \in {0, 1}
    [] init.kind = "identifier" -> type = "custom"
    [] init.kind = "string" -> type \in {"string", "short_string"}
    [] init.kind = "bool" -> type = "bool"

\* e after the i-th part of its declaration.
AddPart(e, parts, i) ==
  LET part == parts[i] IN
  CASE ~e.ok -> e
    [] part.part = "array" ->
         IF e.array # "none" THEN [e EXCEPT !.ok = FALSE]
         ELSE [e EXCEPT !.size = ArraySize(part), !.array = IF ArraySize(part) = 0 THEN "dynamic" ELSE "static"]
    [] part.part = "compact" ->
         IF i > 1 /\ parts[i - 1].part = "array" /\ e.array = "static" /\ e.type # "string" THEN [e EXCEPT !.array = "compact"]
         ELSE [e EXCEPT !.ok = FALSE]
    [] part.part = "init" ->
         IF /\ \A k \in DOMAIN part.init.values :
                 part.init.kind \in {"integer", "array"} => IsExpression(part.init.values[k])
            /\ checkTypes(e.type, part.init)
            /\ (e.array # "none") = (part.init.kind = "array")
            /\ e.array \in {"static", "compact"} => Len(part.init.values) = e.size
         THEN [e EXCEPT !.init = ParsedInit(part.init)]
         ELSE [e EXCEPT !.ok = FALSE]

NoInit == [kind |-> "none", values |-> << >>]

\* [ok |-> FALSE, ...] when the declaration is refused.
parseElementDeclaration(d) ==
  FoldLeftDomain(LAMBDA e, i : AddPart(e, d.parts, i),
    [ok |-> TRUE, name |-> d.name, type |-> d.type, custom_name |-> d.custom_name,
     namespace_name |-> d.namespace_name, array |-> "none", size |-> 0, init |-> NoInit],
    d.parts)

StructOf(d, space, elements) ==
  [ok |-> \A i \in DOMAIN elements : elements[i].ok,
   node |-> [name |-> d.name, space |-> space, naked |-> d.naked, elements |-> elements]]

parseStruct(d, space) ==
  StructOf(d, space, [i \in DOMAIN d.elements |-> parseElementDeclaration(d.elements[i])])

\* An item without a value has the one before it plus one, the first has 0.
AddItem(items, item) ==
  Append(items,
    [name |-> item.name, assigned |-> item.expr # << >>,
     value |-> IF item.expr # << >> THEN Value(item.expr)
               ELSE IF items = << >> THEN 0 ELSE Last(items).value + 1])

parseEnum(d, space) ==
  LET ok == /\ \A i \in DOMAIN d.items : d.items[i].expr # << >> => IsExpression(d.items[i].expr)
            /\ \A i, j \in DOMAIN d.items : d.items[i].name = d.items[j].name => i = j
  IN [ok |-> ok, node |-> [name |-> d.name, space |-> space,
                           items |-> IF ok THEN FoldLeft(AddItem, << >>, d.items) ELSE << >>]]
-----------------------------------------------------------------------------
(* What a file declares, added to g: [ok, top].                            *)

Fail(g) == [g EXCEPT !.ok = FALSE]

\* Where the namespaces of that name are, of those that were declared: one or none.
SpacesOf(top, name) == {i \in 2 .. Len(top.spaces) : top.spaces[i].name = name}

\* The namespace of that name, opened again or new.
find_existing_namespace(top, name) ==
  IF SpacesOf(top, name) = {} THEN EmptySpace(name) ELSE top.spaces[CHOOSE i \in SpacesOf(top, name) : TRUE]

Put(top, sp) ==
  IF SpacesOf(top, sp.name) = {} THEN [top EXCEPT !.spaces = Append(@, sp)]
  ELSE [top EXCEPT !.spaces[CHOOSE i \in SpacesOf(top, sp.name) : TRUE] = sp]

\* What has been parsed, added to namespace sp.
AddTo(sp, kind, parsed) == [ok |-> parsed.ok, sp |-> [sp EXCEPT ![kind] = Append(@, parsed.node)]]

\* A declaration inside namespace sp of acc: [ok, sp].  Namespaces do not nest.
AddWithin(acc, d) ==
  IF ~acc.ok THEN acc ELSE
  CASE d.decl = "struct" -> AddTo(acc.sp, "structs", parseStruct(d, acc.sp.name))
    [] d.decl = "enum" -> AddTo(acc.sp, "enums", parseEnum(d, acc.sp.name))
    [] d.decl = "const" -> acc
    [] OTHER -> [acc EXCEPT !.ok = FALSE]

\* The namespace with what is declared in it.
AddAll(sp, within) ==
  LET after[n \in 0 .. Len(within)] ==
        IF n = 0 THEN [ok |-> TRUE, sp |-> sp] ELSE AddWithin(after[n - 1], within[n])
  IN after[Len(within)]

parseNamespace(g, d) ==
  LET all == AddAll(find_existing_namespace(g.top, d.name), d.within) IN
    [ok |-> all.ok, top |-> Put(g.top, all.sp)]

\* The enums of the global namespace do not go into it.
Declare(g, d) ==
  IF ~g.ok THEN g ELSE
  CASE d.decl = "namespace" -> parseNamespace(g, d)
    [] d.decl = "struct" -> LET global == AddTo(g.top.spaces[1], "structs", parseStruct(d, GlobalSpace)) IN
         [ok |-> global.ok, top |-> [g.top EXCEPT !.spaces[1] = global.sp]]
    [] d.decl = "enum" -> LET en == parseEnum(d, GlobalSpace) IN
         [ok |-> en.ok, top |-> [g.top EXCEPT !.enums = Append(@, en.node)]]
    [] d.decl = "const" -> g
    [] OTHER -> Fail(g)
-----------------------------------------------------------------------------
(* Parsing the files.                                                      *)

Here == Last(open)
AtEnd == Here.at > Len(program.files[Here.file])
Current == program.files[Here.file][Here.at]
Past == [open EXCEPT ![Len(open)].at = @ + 1]

parseImportMutant ==      \* whether it has been imported is not asked
  /\ status = "parsing" /\ ~AtEnd /\ Current.decl = "import"
  /\ open' = Append(Past, [file |-> Current.name, at |-> 1]) /\ UNCHANGED <<program, top_ast, status>>

\* A file that has been imported is not imported again; it counts as imported
\* once it has been parsed.  The stack of parsers is as deep as files are nested.
parseImport ==
  /\ status = "parsing" /\ ~AtEnd /\ Current.decl = "import"
  /\ \/ /\ Contains(top_ast.imported_files, Current.name)
        /\ open' = Past /\ UNCHANGED status
     \/ /\ ~Contains(top_ast.imported_files, Current.name)
        /\ Current.name \in DOMAIN program.files /\ Len(open) < MaxDepth
        /\ open' = Append(Past, [file |-> Current.name, at |-> 1]) /\ UNCHANGED status
     \/ /\ ~Contains(top_ast.imported_files, Current.name)
        /\ Current.name \in DOMAIN program.files /\ Len(open) = MaxDepth
        /\ status' = "overflow" /\ UNCHANGED open
     \/ /\ ~Contains(top_ast.imported_files, Current.name)
        /\ Current.name \notin DOMAIN program.files
        /\ status' = "failed" /\ UNCHANGED open
  /\ UNCHANGED <<program, top_ast>>

endImport ==
  /\ status = "parsing" /\ AtEnd /\ Len(open) > 1
  /\ open' = Front(open)
  /\ top_ast' = [top_ast EXCEPT !.imported_files = Append(@, Here.file)]
  /\ UNCHANGED <<program, status>>

ParseInternal ==
  /\ status = "parsing" /\ ~AtEnd /\ Current.decl # "import"
  /\ \E g \in {Declare([ok |-> TRUE, top |-> top_ast], Current)} :
       /\ top_ast' = g.top
       /\ IF g.ok THEN open' = Past /\ UNCHANGED status ELSE status' = "failed" /\ UNCHANGED open
  /\ UNCHANGED program

\* The rest of main.  Errors of compute_hash are not looked at; the compute_* do
\* not return from a struct that contains itself.
main ==
  /\ status = "parsing" /\ AtEnd /\ Len(open) = 1
  /\ status' = IF \E st \in Structs(top_ast) : Cyclic(top_ast, st) THEN "overflow"
               ELSE IF \E st \in Structs(top_ast) : simple_error(top_ast, st) \/ compact_error(top_ast, st)
               THEN "failed" ELSE "generated"
  /\ UNCHANGED <<program, open, top_ast>>

FrontInit ==
  /\ program \in Programs
  /\ open = <<[file |-> program.main, at |-> 1]>>
  /\ top_ast = EmptyGlobal /\ status = "parsing"

FrontNext == parseImport \/ endImport \/ ParseInternal \/ main

FrontSpec == FrontInit /\ [][FrontNext]_frontVars
-----------------------------------------------------------------------------
(* What must hold.                                                         *)

\* The files a file imports.
Imports(f) == {d.name : d \in {d \in ToSet(program.files[f]) : d.decl = "import"}}

\* main, what it imports, what that imports, ...: those in every set that has main
\* and what its members import.
AllFiles ==
  {f \in DOMAIN program.files : \A files \in SUBSET DOMAIN program.files :
     program.main \in files /\ (\A g \in files : Imports(g) \cap DOMAIN program.files \subseteq files) => f \in files}

\* The structs a declaration declares, with their namespaces.
DeclaredBy(d) ==
  IF d.decl = "struct" THEN {<<GlobalSpace, d.name>>}
  ELSE IF d.decl = "namespace" THEN {<<d.name, st.name>> : st \in {st \in ToSet(d.within) : st.decl = "struct"}}
  ELSE {}

DeclaredIn(f) == UNION {DeclaredBy(d) : d \in ToSet(program.files[f])}

\* No struct is declared at two places.
DeclaredOnce ==
  \A f \in DOMAIN program.files : \A i \in DOMAIN program.files[f] :
    /\ \A g \in DOMAIN program.files : \A j \in DOMAIN program.files[g] :
         DeclaredBy(program.files[f][i]) \cap DeclaredBy(program.files[g][j]) # {} => f = g /\ i = j
    /\ program.files[f][i].decl = "namespace" =>
         LET within == program.files[f][i].within IN
         \A k, l \in DOMAIN within :
           within[k].decl = "struct" /\ within[l].decl = "struct" /\ within[k].name = within[l].name => k = l

\* However many ways lead to a file, each struct of it is in its namespace once,
\* and each namespace is there once, though several files add to it.
ImportedOnce ==
  status = "generated" /\ DeclaredOnce =>
    /\ {<<st.space, st.name>> : st \in Structs(top_ast)} = UNION {DeclaredIn(f) : f \in AllFiles}
    /\ \A sp \in ToSet(top_ast.spaces) : \A i, j \in DOMAIN sp.structs :
         sp.structs[i].name = sp.structs[j].name => i = j
    /\ \A i, j \in 2 .. Len(top_ast.spaces) : top_ast.spaces[i].name = top_ast.spaces[j].name => i = j

\* The structs with an element whose type is not declared anywhere.
Undeclared == {st \in Structs(top_ast) : \E e \in Elements(st) : Missing(top_ast, st, e)}

\* A schema that names a type that is not declared is refused; only of a struct
\* that has compact arrays and whose size is not fixed it may not be noticed.
NamesResolved ==
  status = "generated" =>
    \A st \in Undeclared : ~simple(top_ast, st) /\ has_compact(top_ast, st)
=============================================================================
