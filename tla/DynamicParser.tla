----------------------------- MODULE DynamicParser -----------------------------
(***************************************************************************)
(* Messages on their way: a program fills an object, serializes it, and it *)
(* is read again, by the generated code of the same or of another version  *)
(* of its type, or by what only has its metadata: CBufParser prints it,    *)
(* turns it into text or json and converts it between versions, and        *)
(* CBufParserPy makes a Python object of it.                               *)
(* What a reader got of a struct is the sequence of what it got of its     *)
(* elements, and of an element the sequence of its items.                  *)
(***************************************************************************)
EXTENDS Codec

CONSTANTS
  Objects(_, _),   \* objects of a struct of a schema, as programs fill them
  Versions(_)      \* the schemas the reader of a message may be compiled with

VARIABLES
  stage,      \* "compiling", "filled", "sent", "read"
  sent,       \* the message: [st, m]
  wire,       \* its bytes
  parser,     \* CBufParser, after ParseMetadata of its metadata
  result      \* what became of it: [op, top, r]

msgVars == <<stage, sent, wire, parser, result>>
-----------------------------------------------------------------------------
(* One element.                                                            *)

SkipPreamble(st, r) == IF st.naked THEN r ELSE Skip(r, Preamble)

processArraySizeMutant(r, e) ==      \* compact arrays are taken for static ones
  IF e.array = "none" THEN [r EXCEPT !.got = 1]
  ELSE IF e.array = "dynamic" THEN Read(r, 4) ELSE [r EXCEPT !.got = e.size]

processArraySize(r, e) ==
  IF e.array = "none" THEN [r EXCEPT !.got = 1]
  ELSE IF e.array = "static" THEN [r EXCEPT !.got = e.size]
  ELSE LET n == Read(r, 4) IN
    IF Goes(n) /\ e.array = "compact" /\ n.got > e.size THEN Refuse(n) ELSE n

\* A number, an enum or a string.
ReadItem(r, e) ==
  IF e.type = "string" THEN ReadString(r) ELSE Read(r, IF IsCustom(e) THEN 4 ELSE Width[e.type])

\* The items of e, with the array size before them.  Each reader of the code has
\* functions of its own for it.
ReadItems(r, e) == LET n == processArraySize(r, e) IN Repeat(n, n.got, LAMBDA x : ReadItem(x, e))

\* Of an array, process_element_jstr and process_element_json assert that it is
\* not one of enums.
ReadBasic(r, e) ==
  LET n == Asserting(processArraySize(r, e), e.array = "none" \/ ~IsCustom(e)) IN
    Repeat(n, n.got, LAMBDA x : ReadItem(x, e))

process_element_jstr(r, e) == ReadBasic(r, e)
process_element_json(r, e) == ReadBasic(r, e)
process_element(r, e) == ReadItems(r, e)
process_element_py(r, e) == ReadItems(r, e)

\* Where a result is not looked at, the refusal has no effect.
Unheeded(r) == IF r.ok THEN r ELSE [r EXCEPT !.ok = TRUE, !.got = << >>]
-----------------------------------------------------------------------------
(* FillJstr, FillHjson and Print.                                          *)

RECURSIVE FillJstrInternal(_, _, _), FillHjsonInternal(_, _, _), PrintInternal(_, _, _)

FillJstrInternal(top, st, r) ==
  ReadElements(SkipPreamble(st, r), st, LAMBDA x, e :
    IF struct_type(top, st, e)
    THEN LET n == processArraySize(x, e) IN
           Repeat(n, n.got, LAMBDA y : FillJstrInternal(top, InnerOf(top, st, e), y))
    ELSE process_element_jstr(x, e))

FillHjsonInternal(top, st, r) ==
  ReadElements(SkipPreamble(st, r), st, LAMBDA x, e :
    IF struct_type(top, st, e)
    THEN LET n == processArraySize(x, e) IN
           Repeat(n, n.got, LAMBDA y : FillHjsonInternal(top, InnerOf(top, st, e), y))
    ELSE IF enum_type(top, st, e) THEN Unheeded(process_element_json(x, e))
    ELSE process_element_json(x, e))

\* The size of an array of enums is read before process_element_enum reads it.
PrintInternal(top, st, r) ==
  ReadElements(SkipPreamble(st, r), st, LAMBDA x, e :
    IF ~IsCustom(e) THEN process_element(x, e)
    ELSE LET n == processArraySize(x, e) IN
      IF ~Goes(n) THEN n
      ELSE IF struct_type(top, st, e)
      THEN Repeat(n, n.got, LAMBDA y : PrintInternal(top, InnerOf(top, st, e), y))
      ELSE Unheeded(process_element(n, e)))
-----------------------------------------------------------------------------
(* PrintCSV: what is got is how many commas are printed.                   *)

Smaller(a, b) == IF a < b THEN a ELSE b
IsSized(d) == d.array \in {"static", "compact"}
Between(n) == IF n = 0 THEN 0 ELSE n - 1      \* the commas between n of them

Commas(r, n) == IF Goes(r) THEN [r EXCEPT !.got = Sum(@) + n] ELSE r

\* As many items as are declared, none of a dynamic array.
process_numbers_csv(r, e) ==
  LET n == IF IsCounted(e) THEN Read(r, 4) ELSE [r EXCEPT !.got = e.size]
      items == Repeat(n, IF e.array = "none" THEN 1 ELSE Smaller(e.size, n.got), LAMBDA x : ReadItem(x, e))
  IN IF Goes(items) THEN [items EXCEPT !.got = IF e.array = "none" THEN 0 ELSE Between(e.size)] ELSE items

\* One string, where assertions do not end the program.
process_strings_csv(r, e) ==
  LET item == ReadItem(Asserting(r, e.array = "none"), e) IN
    IF Goes(item) THEN [item EXCEPT !.got = 0] ELSE item

process_element_csv(r, e) ==
  IF e.type \in {"string", "short_string"} THEN process_strings_csv(r, e) ELSE process_numbers_csv(r, e)

RECURSIVE PrintCSVInternal(_, _, _), PrintCSVInternalEmpty(_, _, _)


\* In place of the structs a compact array does not have.  A struct in them is
\* printed as if it were there.
PrintCSVInternalEmpty(top, st, r) ==
  LET all == ReadElements(r, st, LAMBDA x, e :
        CASE IsCustom(e) /\ e.array = "dynamic" -> [Asserting(x, FALSE) EXCEPT !.got = 0]
          [] struct_type(top, st, e) /\ IsSized(e) ->
               Commas(Repeat(x, e.size, LAMBDA y : PrintCSVInternalEmpty(top, InnerOf(top, st, e), y)), Between(e.size))
          [] struct_type(top, st, e) /\ e.array = "none" -> PrintCSVInternal(top, InnerOf(top, st, e), x)
          [] enum_type(top, st, e) /\ IsSized(e) -> [x EXCEPT !.got = Between(e.size)]
          [] OTHER -> [x EXCEPT !.got = 0])
  IN Commas(all, Between(Len(st.elements)))

PrintCSVInternal(top, st, r) ==
  LET Structs_(x, e) ==
        LET inner == InnerOf(top, st, e)
            n == processArraySize(x, e)
            there == Commas(Repeat(n, n.got, LAMBDA y : PrintCSVInternal(top, inner, y)), Between(n.got))
            lacking == IF e.array = "compact" THEN e.size - n.got ELSE 0
            empty == Commas(Repeat(there, lacking, LAMBDA y : PrintCSVInternalEmpty(top, inner, y)), lacking)
        IN IF Goes(empty) THEN [empty EXCEPT !.got = @ + there.got] ELSE empty
      Enums(x, e) ==
        LET n == processArraySize(x, e) IN
          Commas(Repeat(n, n.got, LAMBDA y : process_element_csv(y, e)),
                 IF e.array # "compact" THEN Between(n.got)
                 ELSE IF n.got = 0 THEN e.size ELSE Between(e.size))
      all == ReadElements(SkipPreamble(st, r), st, LAMBDA x, e :
        CASE struct_type(top, st, e) -> Structs_(x, e)
          [] enum_type(top, st, e) /\ e.array # "none" -> Enums(x, e)
          [] OTHER -> process_element_csv(x, e))
  IN Commas(all, Between(Len(st.elements)))
-----------------------------------------------------------------------------
(* SkipElement and SkipStruct.                                             *)

RECURSIVE SkipStructInternal(_, _, _)

SkipElementInternalMutant(top, st, r, e) ==      \* arrays are skipped as one item
  IF IsCustom(e) /\ find_enum(top, st, e) = {}
  THEN SkipStructInternal(top, InnerOf(top, st, e), r) ELSE ReadItem(r, e)

SkipElementInternal(top, st, r, e) ==
  LET n == processArraySize(r, e) IN
    IF IsCustom(e) /\ find_enum(top, st, e) = {}
    THEN Repeat(n, n.got, LAMBDA x : SkipStructInternal(top, InnerOf(top, st, e), x))
    ELSE Repeat(n, n.got, LAMBDA x : ReadItem(x, e))

SkipStructInternal(top, st, r) ==
  ReadElements(SkipPreamble(st, r), st, LAMBDA x, e : SkipElementInternal(top, st, x, e))
-----------------------------------------------------------------------------
(* FastConversion: src as [top, st] describes the bytes, dst the object    *)
(* that is written; elements are paired by their names.                    *)

\* A cast of C, for numbers below 2 ^ 31.
Cast(type, v) ==
  CASE type = "bool" -> IF v = 0 THEN 0 ELSE 1
    [] type \in {"uint8_t", "uint16_t"} -> v % 2 ^ (8 * Width[type])
    [] type \in {"int8_t", "int16_t"} ->
         LET half == 2 ^ (8 * Width[type] - 1) IN ((v + half) % (2 * half)) - half
    [] OTHER -> v

IsNumber(e) == ~IsCustom(e) /\ e.type \notin {"string", "short_string"}
IsEnum(top, st, e) == IsCustom(e) /\ find_enum(top, st, e) # {}

\* strncpy of 16 bytes of the wire: what follows a string there is copied with it
\* up to a zero byte.
Overrun == -1
strncpy(r, n) ==
  IF n >= 16 THEN 16
  ELSE IF r.rest # << >> /\ Head(r.rest).w # Preamble /\ Head(r.rest).v % 256 = 0 THEN n ELSE Overrun

\* process_element_conversion, convert_element_string and
\* convert_element_short_string: one item read, as it is stored in an element d.
process_element_conversion(r, e, dst, d) ==
  LET x == ReadItem(r, e) IN
    IF ~Goes(x) THEN x
    ELSE IF IsNumber(d) THEN [x EXCEPT !.got = Cast(d.type, @)]
    ELSE IF IsEnum(dst.top, dst.st, d) THEN x ELSE Refuse(x)

convert_element_string(r, e, d) ==
  LET x == ReadItem(r, e) IN
    IF ~Goes(x) \/ d.type = "string" THEN x
    ELSE IF d.type # "short_string" THEN Refuse(x)
    ELSE [x EXCEPT !.got = IF d.array = "dynamic" THEN Smaller(15, @) ELSE strncpy(x, @)]

convert_element_short_string(r, e, d) ==
  LET x == ReadItem(r, e) IN
    IF ~Goes(x) \/ d.type = "short_string" THEN x
    ELSE IF d.type = "string" THEN [x EXCEPT !.got = 16] ELSE Refuse(x)

\* The memory of a dynamic array of structs is all zeroes.
RECURSIVE ZeroObject(_, _)
ZeroObject(top, st) ==
  [pre |-> NoPreamble,
   f |-> [i \in DOMAIN st.elements |->
     LET e == st.elements[i]
         zero == IF struct_type(top, st, e) THEN ZeroObject(top, InnerOf(top, st, e)) ELSE 0
     IN CASE e.array = "none" -> zero
          [] e.array = "static" -> [j \in 1 .. e.size |-> zero]
          [] e.array = "compact" -> [num |-> 0, data |-> [j \in 1 .. e.size |-> zero]]
          [] e.array = "dynamic" -> << >>]]

Overlay(old, items) == [i \in DOMAIN old |-> IF i <= Len(items) THEN items[i] ELSE old[i]]

\* d's value once items have been stored, the source having n of them.
Store(d, old, n, items) ==
  CASE d.array = "none" -> items[1]
    [] d.array = "static" -> Overlay(old, items)
    [] d.array = "compact" -> [num |-> n, data |-> Overlay(old.data, items)]
    [] d.array = "dynamic" -> items

\* How many of n items d takes; of short strings its fixed arrays take none.
Room(e, d, n) ==
  IF ~IsSized(d) THEN n
  ELSE IF e.type = "short_string" THEN 0 ELSE Smaller(n, d.size)

IsStruct(t, e) == IsCustom(e) /\ ~IsEnum(t.top, t.st, e)
InnerType(t, e) == [top |-> t.top, st |-> InnerOf(t.top, t.st, e)]

RECURSIVE FastConversionInternal(_, _, _, _)

\* The item of old that is written after the ones that have been.
OldItem(top, st, d, old, written) ==
  CASE d.array = "none" -> old
    [] d.array = "static" -> old[Len(written) + 1]
    [] d.array = "compact" -> old.data[Len(written) + 1]
    [] d.array = "dynamic" -> ZeroObject(top, InnerOf(top, st, d))

ConvertItem(src, e, r, dst, d, old) ==
  CASE IsStruct(src, e) ->
         FastConversionInternal(InnerType(src, e), r, InnerType(dst, d),
                                OldItem(dst.top, dst.st, d, old, r.got))
    [] e.type = "string" -> convert_element_string(r, e, d)
    [] e.type = "short_string" -> convert_element_short_string(r, e, d)
    [] OTHER -> process_element_conversion(r, e, dst, d)

\* After the stored items the rest of them.
SkipItems(src, e, n, stored) ==
  [Repeat(stored, n, LAMBDA x : IF IsStruct(src, e) THEN SkipStructInternal(src.top, InnerOf(src.top, src.st, e), x)
                                ELSE ReadItem(x, e))
     EXCEPT !.got = stored.got]

Stored(d, old, n, items) == IF Goes(items) THEN [items EXCEPT !.got = Store(d, old, n, @)] ELSE items

ConvertItems(src, e, n, dst, d, old) ==
  IF ~Goes(n) THEN n
  ELSE Stored(d, old, n.got,
         SkipItems(src, e, n.got - Room(e, d, n.got),
           Repeat(n, Room(e, d, n.got), LAMBDA x : ConvertItem(src, e, x, dst, d, old))))

ConvertElement(src, e, r, dst, d, old) ==
  IF \/ (e.array = "none") # (d.array = "none")
     \/ IsStruct(src, e) /\ ~struct_type(dst.top, dst.st, d)
  THEN Refuse(r)
  ELSE ConvertItems(src, e, processArraySize(r, e), dst, d, old)

InElement(m, i, r) == IF Goes(r) THEN [r EXCEPT !.got = [m EXCEPT !.f[i] = r.got]] ELSE r

\* acc.got is the object.
FastConversionInternal(src, r, dst, old) ==
  LET pre == IF src.st.naked THEN r ELSE Read(r, Preamble)
      Convert(acc, e) ==
        LET i == SelectInSeq(dst.st.elements, LAMBDA d : d.name = e.name) IN
          IF ~Goes(acc) THEN acc
          ELSE IF i = 0 THEN [SkipElementInternal(src.top, src.st, acc, e) EXCEPT !.got = acc.got]
          ELSE InElement(acc.got, i, ConvertElement(src, e, acc, dst, dst.st.elements[i], acc.got.f[i]))
  IN FoldLeft(Convert,
       [pre EXCEPT !.got = IF ~Goes(pre) \/ src.st.naked \/ dst.st.naked THEN old ELSE [old EXCEPT !.pre = pre.got]],
       src.st.elements)
-----------------------------------------------------------------------------
(* loadFromJson, as CPrinter generates it, from what FillHjson got; and    *)
(* FillPyObject.                                                           *)

\* FillHjson writes numbers for bools, and get_value_bool, which array items are
\* loaded with, takes none: they stay as they are.
get_value(e, json, old) == IF e.type = "bool" /\ e.array # "none" THEN old ELSE json

RECURSIVE loadFromJson(_, _, _, _)

loadFromJsonMutant(top, st, json, m) ==      \* the sizes of arrays stay as they are
  [m EXCEPT !.f = [i \in DOMAIN st.elements |->
    IF st.elements[i].array = "none" /\ ~struct_type(top, st, st.elements[i]) THEN json[i][1] ELSE @[i]]]

loadFromJson(top, st, json, m) ==
  LET Load(e, items, old) ==
        LET inner == InnerOf(top, st, e)
            Into(x, o) == IF struct_type(top, st, e) THEN loadFromJson(top, inner, x, o) ELSE get_value(e, x, o)
        IN CASE e.array = "none" -> Into(items[1], old)
             [] e.array = "static" -> [j \in DOMAIN old |-> Into(items[j], old[j])]
             [] e.array = "compact" ->
                  [num |-> Len(items),
                   data |-> [j \in DOMAIN old.data |-> IF j <= Len(items) THEN Into(items[j], old.data[j]) ELSE old.data[j]]]
             [] e.array = "dynamic" ->
                  [j \in DOMAIN items |-> Into(items[j], IF j <= Len(old) THEN old[j] ELSE InitItem(top, st, e))]
  IN [m EXCEPT !.f = [i \in DOMAIN st.elements |-> Load(st.elements[i], json[i], @[i])]]

RECURSIVE FillPyObjectInternal(_, _, _)
FillPyObjectInternal(top, st, r) ==
  LET pre == IF st.naked THEN r ELSE Read(r, Preamble) IN
    IF Goes(pre) /\ ~st.naked /\ pre.got.hash # hash_value(top, st) THEN Refuse(pre)
    ELSE ReadElements(pre, st, LAMBDA x, e :
      CASE IsEnum(top, st, e) /\ e.array # "none" -> Unheeded(process_element_py(x, e))
        [] struct_type(top, st, e) ->
             LET n == processArraySize(x, e) IN
               Repeat(n, n.got, LAMBDA y : FillPyObjectInternal(top, InnerOf(top, st, e), y))
        [] OTHER -> IF IsCustom(e) THEN Unheeded(process_element_py(x, e)) ELSE process_element_py(x, e))
-----------------------------------------------------------------------------
(* The life of a message.                                                  *)

Version(top, st) == CHOOSE s \in decompose_and_find(top, st.space, st.name) : TRUE

\* encode_net takes the address of an array's first item, which a vector of bools
\* does not have.
Compiles(top) == \A st \in Structs(top) : \A e \in Elements(st) : e.array = "dynamic" => e.type # "bool"

\* A program sends messages of structs that have a preamble.  Code that names
\* a type that is not declared does not compile.
fill ==
  /\ status = "generated" /\ stage = "compiling" /\ Undeclared = {} /\ Compiles(top_ast)
  /\ \E st \in Structs(top_ast) : \E m \in Objects(top_ast, st) :
       ~st.naked /\ sent' = [st |-> st, m |-> m]
  /\ stage' = "filled" /\ UNCHANGED <<wire, parser, result, frontVars>>

\* What streams and loggers do: encode_net for what has compact arrays, and
\* encode for the rest.  The metadata goes with the message.
serialize ==
  /\ stage = "filled"
  /\ LET net == has_compact(top_ast, sent.st) \/ ~simple(top_ast, sent.st) IN
       /\ wire' = IF net THEN encode_net(top_ast, sent.st, sent.m) ELSE encode(top_ast, sent.st, sent.m)
       /\ sent' = IF net THEN [sent EXCEPT !.m = Encoded(top_ast, sent.st, @)] ELSE sent
  /\ parser' = ParseMetadata(cbuf_string(top_ast, sent.st))
  /\ stage' = "sent" /\ UNCHANGED <<result, frontVars>>

Gives(op, top, r) ==
  /\ stage' = "read" /\ result' = [op |-> op, top |-> top, r |-> r]
  /\ UNCHANGED <<sent, wire, parser, frontVars>>

deserialize(top, st) ==
  IF has_compact(top, st) \/ ~simple(top, st) THEN decode_net(top, st, Reading(wire), Bytes(wire))
  ELSE decode_simple(top, st, Reading(wire), Bytes(wire))

\* CBufHandler: what has the hash of its own type is decoded, what only has its
\* name is converted, into an object that has been initialized.
processMessage ==
  /\ stage = "sent"
  /\ \E top \in Versions(top_ast) :
     \E st \in {Version(top, sent.st)} :
       /\ ~st.naked /\ Compiles(top)       \* or a handler of it does not compile
       /\ \/ /\ hash_value(top, st) = wire[1].v.hash
             /\ Gives("deserialize", top, deserialize(top, st))
          \/ /\ hash_value(top, st) # wire[1].v.hash
             /\ \E current \in {ParseMetadata(cbuf_string(top, st))} :
                  IF ~parser.ok \/ ~current.ok THEN Gives("no parser", top, Refuse(Reading(wire)))
                  ELSE Gives("FastConversion", top,
                         FastConversionInternal(
                           [top |-> parser.top, st |-> Version(parser.top, sent.st)], Reading(wire),
                           [top |-> current.top, st |-> Version(current.top, st)], InitObject(top, st)))

\* With only the metadata.  Whether a program has assertions is decided when it is built.
Parsed == stage = "sent" /\ parser.ok
ParsedType == Version(parser.top, sent.st)

Builds == {[Reading(wire) EXCEPT !.asserts = asserts] : asserts \in BOOLEAN}

FillJstr == Parsed /\ \E r \in Builds : Gives("FillJstr", parser.top, FillJstrInternal(parser.top, ParsedType, r))
FillHjson == Parsed /\ \E r \in Builds : Gives("FillHjson", parser.top, FillHjsonInternal(parser.top, ParsedType, r))
PrintMessage == Parsed /\ Gives("Print", parser.top, PrintInternal(parser.top, ParsedType, Reading(wire)))
PrintCSV == Parsed /\ \E r \in Builds : Gives("PrintCSV", parser.top, PrintCSVInternal(parser.top, ParsedType, r))
FillPyObject == Parsed /\ Gives("FillPyObject", parser.top, FillPyObjectInternal(parser.top, ParsedType, Reading(wire)))

\* A program loads the json into an object of its own.
loadJson ==
  /\ stage = "read" /\ result.op = "FillHjson" /\ Goes(result.r)
  /\ \E m \in Objects(top_ast, sent.st) \cup {InitObject(top_ast, sent.st)} :
       Gives("loadFromJson", top_ast, [result.r EXCEPT !.got = loadFromJson(top_ast, sent.st, @, m)])

CbufInit ==
  /\ FrontInit
  /\ stage = "compiling" /\ sent = << >> /\ wire = << >> /\ parser = << >> /\ result = << >>

CbufNext ==
  \/ FrontNext /\ UNCHANGED msgVars
  \/ fill \/ serialize \/ processMessage
  \/ FillJstr \/ FillHjson \/ PrintMessage \/ PrintCSV \/ FillPyObject \/ loadJson

CbufSpec == CbufInit /\ [][CbufNext]_<<frontVars, msgVars>>
-----------------------------------------------------------------------------
(* What must hold.                                                         *)

\* The values of an object, as readers get them.
RECURSIVE Shown(_, _, _)
Shown(top, st, m) ==
  [i \in DOMAIN st.elements |->
    LET e == st.elements[i]
        items == Items(e, m.f[i])
    IN [j \in DOMAIN items |->
         IF struct_type(top, st, e) THEN Shown(top, InnerOf(top, st, e), items[j]) ELSE items[j]]]

Values == Shown(top_ast, sent.st, sent.m)
Got(op) == stage = "read" /\ result.op = op
Whole == Goes(result.r) /\ result.r.rest = << >>      \* read to its last byte
Types == Within(top_ast, {sent.st})

\* encode_net writes as many bytes as encode_net_size says and the preamble
\* holds; and a struct that can be copied has the size and the bytes it has when
\* it is encoded element by element.
SizeAgrees ==
  stage = "sent" =>
    LET net == encode_net(top_ast, sent.st, sent.m) IN
      /\ Bytes(net) = encode_net_size(top_ast, sent.st, sent.m)
      /\ wire[1].v.size = Bytes(wire)
      /\ IsFlat(top_ast, sent.st) => wire = net /\ csize(top_ast, sent.st) = Bytes(wire)

\* What a program sends, code of the same version gets, whole.
RoundTrip ==
  Got("deserialize") /\ result.top = top_ast =>
    Whole /\ Shown(top_ast, sent.st, result.r.got) = Values /\ result.r.got.pre.size = Bytes(wire)

Tags(top, st) ==
  {<<s.space, s.name, s.naked, [i \in DOMAIN s.elements |-> s.elements[i].array = "compact"]>>
   : s \in Within(top, {st})}

\* The hash tells versions of a type apart: a message that is decoded as it is has
\* been laid out as the reader expects it, unless the versions differ in what is
\* compact or naked, which is not in the hash.
HashTellsApart ==
  Got("deserialize") =>
    LET st == Version(result.top, sent.st) IN
      \/ Whole /\ Shown(result.top, st, result.r.got) = Values
      \/ Tags(result.top, st) # Tags(top_ast, sent.st)

\* Arrays of enums whose size PrintInternal reads twice.
TwiceCounted == \E st \in Types : \E e \in Elements(st) : enum_type(top_ast, st, e) /\ IsCounted(e)

\* What FillJstr and FillHjson have an assertion against, and reach it.
EnumArrays == \E st \in Types : \E e \in Elements(st) : enum_type(top_ast, st, e) /\ e.array # "none"

\* Whoever reads a message with its metadata only gets all of its values and
\* ends at its end.  Json of arrays of enums is only got without assertions:
\* with them the program ends, or has not come to such an array.
SameValues ==
  (\/ Got("FillJstr") \/ Got("FillHjson") \/ Got("FillPyObject")
   \/ (Got("Print") /\ ~TwiceCounted))
  => \/ Whole /\ result.r.got = Values
     \/ /\ result.op \in {"FillJstr", "FillHjson"} /\ EnumArrays
        /\ result.r.asserts /\ result.r.torn

\* What the conversion of e's items into d has to give, item by item.
Kind(top, st, e) ==
  IF IsNumber(e) \/ IsEnum(top, st, e) THEN "number" ELSE IF IsCustom(e) THEN "struct" ELSE "string"

Taken(e, d, v) == SubSeq(Items(e, v), 1, IF IsSized(d) THEN Smaller(Count(e, v), d.size) ELSE Count(e, v))

Pairs(src, dst) == {p \in (DOMAIN src.st.elements) \X (DOMAIN dst.st.elements) :
  src.st.elements[p[1]].name = dst.st.elements[p[2]].name}

RECURSIVE Refused(_, _, _), Converted(_, _, _, _), Quirk(_, _, _)

\* An array and no array, a struct and no struct, numbers and strings.
Refused(src, m, dst) == \E p \in Pairs(src, dst) :
  LET e == src.st.elements[p[1]]
      d == dst.st.elements[p[2]]
      kind == Kind(src.top, src.st, e)
      taken == Taken(e, d, m.f[p[1]])
  IN \/ (e.array = "none") # (d.array = "none")
     \/ kind # Kind(dst.top, dst.st, d) /\ (kind = "struct" \/ taken # << >>)
     \/ /\ kind = "struct" /\ Kind(dst.top, dst.st, d) = "struct"
        /\ \E i \in DOMAIN taken : Refused(InnerType(src, e), taken[i], InnerType(dst, d))

\* The object m becomes: elements of both have m's values, the others keep theirs.
Converted(src, m, dst, old) ==
  [old EXCEPT !.f = [k \in DOMAIN dst.st.elements |->
    LET i == SelectInSeq(src.st.elements, LAMBDA e : e.name = dst.st.elements[k].name)
        e == src.st.elements[i]
        d == dst.st.elements[k]
        taken == Taken(e, d, m.f[i])
        Become(j) == IF Kind(src.top, src.st, e) = "struct"
                     THEN Converted(InnerType(src, e), taken[j], InnerType(dst, d), OldItem(dst.top, dst.st, d, @[k], Range1(j - 1)))
                     ELSE IF IsNumber(d) THEN Cast(d.type, taken[j]) ELSE taken[j]
    IN IF i = 0 THEN @[k] ELSE Store(d, @[k], Len(taken), [j \in DOMAIN taken |-> Become(j)])]]

\* What does not become what it should: more items than a compact array has room
\* for, short strings in fixed arrays or as strings, strings as short ones.
Quirk(src, m, dst) == \E p \in Pairs(src, dst) :
  LET e == src.st.elements[p[1]]
      d == dst.st.elements[p[2]]
  IN \/ d.array = "compact" /\ Count(e, m.f[p[1]]) > d.size
     \/ e.type = "short_string" /\ (d.type # "short_string" \/ IsSized(d))
     \/ e.type = "string" /\ d.type = "short_string"
     \/ /\ Kind(src.top, src.st, e) = "struct" /\ Kind(dst.top, dst.st, d) = "struct"
        /\ \E i \in DOMAIN Taken(e, d, m.f[p[1]]) :
             Quirk(InnerType(src, e), Taken(e, d, m.f[p[1]])[i], InnerType(dst, d))

\* A message of another version of a type is refused, or converted: elements are
\* found by their names, whatever their order, cast, cut to the room there is, and
\* skipped where the new version has none; what only the new version has stays
\* as it was initialized.
Converts ==
  Got("FastConversion") =>
    LET src == [top |-> top_ast, st |-> sent.st]
        dst == [top |-> result.top, st |-> Version(result.top, sent.st)]
    IN \/ Quirk(src, sent.m, dst)
       \/ /\ Refused(src, sent.m, dst) /\ ~result.r.ok
       \/ /\ ~Refused(src, sent.m, dst) /\ Whole
          /\ Shown(dst.top, dst.st, result.r.got)
             = Shown(dst.top, dst.st, Converted(src, sent.m, dst, InitObject(dst.top, dst.st)))

\* A compact array that gets a longer one has the items it has room for.
RECURSIVE Fits(_, _, _)
Fits(top, st, m) == \A i \in DOMAIN st.elements :
  LET e == st.elements[i] IN
    /\ e.array = "compact" => m.f[i].num <= e.size
    /\ struct_type(top, st, e) => \A x \in ToSet(Items(e, m.f[i])) : Fits(top, InnerOf(top, st, e), x)

ConvertedFits ==
  Got("FastConversion") /\ Goes(result.r) => Fits(result.top, Version(result.top, sent.st), result.r.got)

\* shown without what is in arrays of bools, but with how many there are.
RECURSIVE ButFlags(_, _, _)
ButFlags(top, st, shown) ==
  [i \in DOMAIN st.elements |->
    LET e == st.elements[i] IN
      [j \in DOMAIN shown[i] |->
         IF struct_type(top, st, e) THEN ButFlags(top, InnerOf(top, st, e), shown[i][j])
         ELSE get_value(e, shown[i][j], 0)]]

\* Json of a message, loaded into any object of its type, whatever was in it, gives
\* it its values, except that arrays of bools only get their sizes.
JsonRoundTrip ==
  Got("loadFromJson") =>
    ButFlags(top_ast, sent.st, Shown(top_ast, sent.st, result.r.got)) = ButFlags(top_ast, sent.st, Values)

\* PrintCSVHeader: its commas; -1 where it reports an error.
RECURSIVE PrintCSVHeaderInternal(_, _)
PrintCSVHeaderInternal(top, st) ==
  LET columns == [i \in DOMAIN st.elements |->
        LET e == st.elements[i]
            each == IF ~IsCustom(e) THEN 0
                    ELSE IF struct_type(top, st, e) THEN PrintCSVHeaderInternal(top, InnerOf(top, st, e)) ELSE -1
        IN CASE e.array = "dynamic" \/ each = -1 -> -1
             [] e.array = "none" -> each
             [] OTHER -> e.size * each + Between(e.size)]
  IN IF \E i \in DOMAIN columns : columns[i] = -1 THEN -1 ELSE Sum(columns) + Between(Len(columns))

\* A compact array of structs of which some lack: none of them has arrays or
\* structs inside, and one at least is there.
RECURSIVE Fillable(_, _, _)
Fillable(top, st, shown) == \A i \in DOMAIN st.elements :
  LET e == st.elements[i]
      inner == InnerOf(top, st, e)
  IN struct_type(top, st, e) =>
       /\ e.array = "compact" /\ Len(shown[i]) < e.size =>
            shown[i] # << >> /\ \A d \in Elements(inner) : d.array = "none" /\ ~struct_type(top, inner, d)
       /\ \A j \in DOMAIN shown[i] : Fillable(top, inner, shown[i][j])

=============================================================================
