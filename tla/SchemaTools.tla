---------------------------- MODULE SchemaTools ----------------------------
(* The IDL tools of helix-gen over token sequences: the proto and Thrift     *)
(* parsers, the linter, the compatibility checker, the Thrift-to-proto       *)
(* transpiler and the routes that the OpenAPI and Go generators derive from  *)
(* one AST.  Lexing is left out: a file is the sequence of its tokens, and   *)
(* white space and comments are no tokens.  A team edits a schema and        *)
(* releases it when helix-gen diff exits with 0.                             *)
EXTENDS Integers, Sequences, FiniteSets, SequencesExt

CONSTANTS
    Drafts,      \* the schemas the team may write, as ASTs with one method to a route
    Pascal,      \* the names that match pascalCaseRegex
    Snake,       \* the names that match snakeCaseRegex
    Suffixed,    \* the names that end in "Service"
    Underscored  \* the package names with dots, and what they are with underscores

VARIABLES
    ext,         \* the extension of the schema file
    file,        \* its lines, sequences of tokens
    meant,       \* the AST its author means, or Null
    first,       \* the AST the oldest clients were generated from
    released,    \* the AST released last
    out,         \* the operations and routes in the code just generated, or Null
    exit         \* the exit status of the helix-gen command just run

vars == <<ext, file, meant, first, released, out, exit>>

Null == [null |-> TRUE]

Tok(kind, val) == <<kind, val>>
Kind(t) == t[1]
Val(t) == t[2]
Id(v) == Tok("ident", v)
Num(n) == Tok("int", n)
Str(s) == Tok("string", s)
P(c) == Tok("punct", c)

\* The token at p.tok; the lexer answers EOF for ever once the file is read.
EOF == Tok("eof", "")
At(ts, i) == IF i \in DOMAIN ts THEN ts[i] ELSE EOF
Cur(ts) == At(ts, 1)
Drop(ts, n) == SubSeq(ts, n + 1, Len(ts))
Next1(ts) == Drop(ts, 1)

\* A run of the parser's "expected ..." tests: the file goes on with tokens of
\* these kinds; "_" stands for any value.
AnyOf(kind) == Tok(kind, "_")
Starts(ts, pattern) ==
    /\ Len(ts) >= Len(pattern)
    /\ \A i \in DOMAIN pattern :
           /\ Kind(ts[i]) = Kind(pattern[i])
           /\ Val(pattern[i]) # "_" => ts[i] = pattern[i]

Err == [ok |-> FALSE]
Ok(node, rest) == [ok |-> TRUE, node |-> node, rest |-> rest]
\* "if err != nil": go on with what was parsed and the tokens after it, or fail.
Bind(result, Then(_, _)) == IF result.ok THEN Then(result.node, result.rest) ELSE Err
EmptyAST == [ns |-> "", structs |-> <<>>, enums |-> <<>>, services |-> <<>>]

Name(n) == [con |-> "name", args |-> <<n>>]
ListOf(n) == [con |-> "list", args |-> <<n>>]
MapOf(k, v) == [con |-> "map", args |-> <<k, v>>]

\* The kind of a type name, of either IDL; any other name is a struct's.
NameKind(n) ==
    CASE n \in {"int32", "i32"} -> "T_INT32"
      [] n \in {"int64", "i64"} -> "T_INT64"
      [] n = "string" -> "T_STRING"
      [] n \in {"bytes", "binary"} -> "T_BINARY"
      [] n = "bool" -> "T_BOOL"
      [] n = "double" -> "T_DOUBLE"
      [] OTHER -> "T_STRUCT"
Scalar(n) == [kind |-> NameKind(n), name |-> IF NameKind(n) = "T_STRUCT" THEN n ELSE ""]
ParseTypeNode(t) ==
    CASE t.con = "list" -> [kind |-> "T_LIST", value |-> Scalar(t.args[1])]
      [] t.con = "map" -> [kind |-> "T_MAP", key |-> Scalar(t.args[1]), value |-> Scalar(t.args[2])]
      [] OTHER -> Scalar(t.args[1])

----------------------------------------------------------------------------
(* proto_parser.go *)

RECURSIVE SkipBlock(_)
SkipBlock(ts) == IF Cur(ts) \in {EOF, P("}")} THEN Next1(ts) ELSE SkipBlock(Next1(ts))

\* A oneof is skipped with its fields; the message is marked for the fallback.
SkipOneof(ts) ==
    LET named == IF Kind(Cur(ts)) = "ident" THEN Next1(ts) ELSE ts
    IN  IF Cur(named) = P("{") THEN SkipBlock(Next1(named)) ELSE named

\* optional, repeated and map before a field's name: the type expression, the
\* optional flag and the tokens after them.
ProtoType(ts) ==
    LET optional == Cur(ts) = Id("optional")
        repeated == Cur(ts) = Id("repeated")
        at == IF optional \/ repeated THEN Next1(ts) ELSE ts
        map == ~repeated /\ Kind(Cur(at)) # "int" /\ Val(Cur(at)) = "map"
        read == CASE ~map \/ At(at, 2) # P("<") -> 1
                  [] At(at, 4) # P(",") -> 3
                  [] At(at, 6) # P(">") -> 5
                  [] OTHER -> 6
    IN  Ok([optional |-> optional, fallback |-> map,
            type |-> CASE repeated -> ListOf(Val(Cur(at)))
                       [] read = 6 -> MapOf(Val(at[3]), Val(at[5]))
                       [] OTHER -> Name(Val(Cur(at)))], Drop(at, read))

WithField(str, name, id, type, optional) ==
    [str EXCEPT !.fields = Append(@, [name |-> name, id |-> id, type |-> ParseTypeNode(type),
                                      optional |-> optional])]

RECURSIVE ProtoFields(_, _)
ProtoFields(ts, str) ==
    CASE Cur(ts) = EOF -> Err
      [] Cur(ts) = P("}") -> Ok(str, Next1(ts))
      [] Cur(ts) = Id("oneof") ->
            ProtoFields(SkipOneof(Next1(ts)), [str EXCEPT !.fallback = TRUE])
      [] Kind(Cur(ts)) = "ident" /\ Cur(ts) # Id("oneof") ->
            Bind(ProtoType(ts), LAMBDA t, rest :
                IF Starts(rest, <<AnyOf("ident"), P("="), AnyOf("int"), P(";")>>)
                THEN ProtoFields(Drop(rest, 4), WithField([str EXCEPT !.fallback = @ \/ t.fallback],
                        Val(rest[1]), Val(rest[3]), t.type, t.optional))
                ELSE Err)
      [] OTHER -> ProtoFields(Next1(ts), str)
ProtoMessage(ts) ==
    IF Starts(ts, <<Id("message"), AnyOf("ident"), P("{")>>)
    THEN ProtoFields(Drop(ts, 3), [name |-> Val(ts[2]), fields |-> <<>>, fallback |-> FALSE])
    ELSE Err

RECURSIVE ProtoValues(_, _)
ProtoValues(ts, en) ==
    CASE Cur(ts) = EOF -> Err
      [] Cur(ts) = P("}") -> Ok(en, Next1(ts))
      [] Kind(Cur(ts)) = "ident" ->
            IF Starts(ts, <<AnyOf("ident"), P("="), AnyOf("int"), P(";")>>)
            THEN ProtoValues(Drop(ts, 4), [en EXCEPT !.values = (Val(ts[1]) :> Val(ts[3])) @@ @])
            ELSE Err
      [] OTHER -> ProtoValues(Next1(ts), en)
ProtoEnum(ts) ==
    IF Starts(ts, <<Id("enum"), AnyOf("ident"), P("{")>>)
    THEN ProtoValues(Drop(ts, 3), [name |-> Val(ts[2]), values |-> <<>>])
    ELSE Err

\* The rules of a google.api.http option: the last verb with a path wins.
Upper(v) == [get |-> "GET", post |-> "POST", body |-> "BODY"][v]
RECURSIVE HttpRules(_, _)
HttpRules(ts, m) ==
    CASE Cur(ts) = EOF -> Ok(m, ts)
      [] Cur(ts) = P("}") -> Ok(m, Next1(ts))
      [] Starts(ts, <<AnyOf("ident"), P(":"), AnyOf("string")>>) ->
            HttpRules(Drop(ts, 3), [m EXCEPT !.verb = Upper(Val(ts[1])), !.path = Val(ts[3])])
      [] OTHER -> HttpRules(Next1(ts), m)

\* The option block of a method; options other than google.api.http are skipped.
RECURSIVE MethodOptions(_, _)
MethodOptions(ts, m) ==
    LET http == <<Id("option"), P("("), Id("google.api.http"), P(")"), P("="), P("{")>>
    IN  CASE Cur(ts) = EOF -> Err
          [] Cur(ts) = P("}") -> Ok(m, Next1(ts))
          [] Starts(ts, http) ->
                Bind(HttpRules(Drop(ts, 6), m), LAMBDA ruled, rest : MethodOptions(rest, ruled))
          [] OTHER -> MethodOptions(Next1(ts), m)

\* ( [stream] type )
TypeArg(ts) ==
    LET stream == Starts(ts, <<P("("), Id("stream")>>)
        at == IF stream THEN Drop(ts, 2) ELSE Next1(ts)
    IN  IF Cur(ts) = P("(") /\ Starts(at, <<AnyOf("ident"), P(")")>>)
        THEN Ok([type |-> Val(at[1]), stream |-> stream], Drop(at, 2))
        ELSE Err

ProtoMethod(ts) ==
    IF ~Starts(ts, <<Id("rpc"), AnyOf("ident")>>) THEN Err
    ELSE Bind(TypeArg(Drop(ts, 2)), LAMBDA arg, afterArg :
         IF Cur(afterArg) # Id("returns") THEN Err
         ELSE Bind(TypeArg(Next1(afterArg)), LAMBDA res, rest :
              LET m == [name |-> Val(ts[2]), input |-> arg.type, output |-> res.type,
                        client |-> arg.stream, server |-> res.stream, verb |-> "", path |-> ""]
              IN  CASE Cur(rest) = P(";") -> Ok(m, Next1(rest))
                    [] Cur(rest) = P("{") -> MethodOptions(Next1(rest), m)
                    [] OTHER -> Ok(m, rest)))

RECURSIVE ProtoMethods(_, _)
ProtoMethods(ts, srv) ==
    CASE Cur(ts) = EOF -> Err
      [] Cur(ts) = P("}") -> Ok(srv, Next1(ts))
      [] Cur(ts) = Id("rpc") -> Bind(ProtoMethod(ts), LAMBDA m, rest :
            ProtoMethods(rest, [srv EXCEPT !.methods = Append(@, m)]))
      [] OTHER -> ProtoMethods(Next1(ts), srv)
ProtoService(ts) ==
    IF Starts(ts, <<Id("service"), AnyOf("ident"), P("{")>>)
    THEN ProtoMethods(Drop(ts, 3), [name |-> Val(ts[2]), methods |-> <<>>])
    ELSE Err

ProtoSyntax(ts) ==
    IF Starts(ts, <<Id("syntax"), P("="), AnyOf("string"), P(";")>>) THEN Ok("", Drop(ts, 4)) ELSE Err
ProtoPackage(ts) ==
    IF Starts(ts, <<Id("package"), AnyOf("ident"), P(";")>>) THEN Ok(Val(ts[2]), Drop(ts, 3)) ELSE Err

RECURSIVE ParseProto(_, _)
ParseProto(ts, tree) ==
    CASE ts = <<>> -> Ok(tree, ts)
      [] Cur(ts) = Id("syntax") -> Bind(ProtoSyntax(ts), LAMBDA node, rest : ParseProto(rest, tree))
      [] Cur(ts) = Id("package") -> Bind(ProtoPackage(ts), LAMBDA node, rest :
            ParseProto(rest, [tree EXCEPT !.ns = node]))
      [] Cur(ts) = Id("message") -> Bind(ProtoMessage(ts), LAMBDA node, rest :
            ParseProto(rest, [tree EXCEPT !.structs = Append(@, node)]))
      [] Cur(ts) = Id("enum") -> Bind(ProtoEnum(ts), LAMBDA node, rest :
            ParseProto(rest, [tree EXCEPT !.enums = Append(@, node)]))
      [] Cur(ts) = Id("service") -> Bind(ProtoService(ts), LAMBDA node, rest :
            ParseProto(rest, [tree EXCEPT !.services = Append(@, node)]))
      [] OTHER -> ParseProto(Next1(ts), tree)

----------------------------------------------------------------------------
(* thrift_parser.go *)

Separator == {P(";"), P(",")}
SkipSeparator(ts) == IF Cur(ts) \in Separator THEN Next1(ts) ELSE ts

\* Mutant: the parameter of a list is read and lost.
ThriftTypeBare(ts) ==
    IF Kind(Cur(ts)) # "ident" THEN Err
    ELSE Ok(Name(Val(Cur(ts))), IF At(ts, 2) = P("<") THEN Drop(ts, 4) ELSE Next1(ts))

\* A type, with the parameters of list and map; those of a map are read and lost.
ThriftType(ts) ==
    LET list == Starts(ts, <<Id("list"), P("<")>>)
        map == Starts(ts, <<Id("map"), P("<")>>)
        value == IF At(ts, 4) = P(",") THEN 5 ELSE 4
    IN  CASE Kind(Cur(ts)) # "ident" -> Err
          [] list -> IF Starts(Drop(ts, 2), <<AnyOf("ident"), P(">")>>)
                     THEN Ok(ListOf(Val(ts[3])), Drop(ts, 4)) ELSE Err
          [] map -> Ok(Name("map"), Drop(ts, IF At(ts, value + 1) = P(">") THEN value + 1 ELSE value))
          [] OTHER -> Ok(Name(Val(Cur(ts))), Next1(ts))

RECURSIVE ThriftFields(_, _)
ThriftFields(ts, str) ==
    CASE Cur(ts) = EOF -> Err
      [] Cur(ts) = P("}") -> Ok(str, Next1(ts))
      [] Kind(Cur(ts)) = "int" ->
            IF At(ts, 2) # P(":") THEN Err
            ELSE Bind(ThriftType(Drop(ts, IF At(ts, 3) \in {Id("optional"), Id("required")} THEN 3 ELSE 2)),
                      LAMBDA type, rest :
                          IF Kind(Cur(rest)) # "ident" THEN Err
                          ELSE ThriftFields(SkipSeparator(Next1(rest)),
                                  WithField(str, Val(Cur(rest)), Val(Cur(ts)), type, At(ts, 3) = Id("optional"))))
      [] OTHER -> ThriftFields(Next1(ts), str)
ThriftStruct(ts) ==
    IF Starts(Next1(ts), <<AnyOf("ident"), P("{")>>)
    THEN ThriftFields(Drop(ts, 3), [name |-> Val(ts[2]), fields |-> <<>>,
                                    fallback |-> Val(ts[1]) \in {"union", "exception"}])
    ELSE Err

\* A key without a value takes the value after its predecessor's.
RECURSIVE ThriftValues(_, _, _)
ThriftValues(ts, en, current) ==
    LET given == At(ts, 2) = P("=")
        value == IF given THEN Val(ts[3]) ELSE current
    IN  CASE Cur(ts) = EOF -> Err
          [] Cur(ts) = P("}") -> Ok(en, Next1(ts))
          [] Kind(Cur(ts)) = "ident" ->
                IF given /\ Kind(At(ts, 3)) # "int" THEN Err
                ELSE ThriftValues(SkipSeparator(Drop(ts, IF given THEN 3 ELSE 1)),
                        [en EXCEPT !.values = (Val(ts[1]) :> value) @@ @], value + 1)
          [] OTHER -> ThriftValues(Next1(ts), en, current)
ThriftEnum(ts) ==
    IF Starts(ts, <<Id("enum"), AnyOf("ident"), P("{")>>)
    THEN ThriftValues(Drop(ts, 3), [name |-> Val(ts[2]), values |-> <<>>], 0)
    ELSE Err

\* Output Name ( [id [:]] Input [name] )
ThriftMethod(ts) ==
    LET at == CASE Kind(At(ts, 4)) # "int" -> Drop(ts, 3)
                [] At(ts, 5) = P(":") -> Drop(ts, 5)
                [] OTHER -> Drop(ts, 4)
        after == IF Kind(At(at, 2)) = "ident" THEN Drop(at, 2) ELSE Next1(at)
    IN  IF /\ Starts(ts, <<AnyOf("ident"), AnyOf("ident"), P("(")>>)
           /\ Kind(Cur(at)) = "ident" /\ Cur(after) = P(")")
        THEN Ok([name |-> Val(ts[2]), input |-> Val(at[1]), output |-> Val(ts[1]), client |-> FALSE,
                 server |-> FALSE, verb |-> "", path |-> ""], SkipSeparator(Next1(after)))
        ELSE Err

RECURSIVE ThriftMethods(_, _)
ThriftMethods(ts, srv) ==
    CASE Cur(ts) = EOF -> Err
      [] Cur(ts) = P("}") -> Ok(srv, Next1(ts))
      [] Kind(Cur(ts)) = "ident" -> Bind(ThriftMethod(ts), LAMBDA m, rest :
            ThriftMethods(rest, [srv EXCEPT !.methods = Append(@, m)]))
      [] OTHER -> ThriftMethods(Next1(ts), srv)
ThriftService(ts) ==
    IF Starts(ts, <<Id("service"), AnyOf("ident"), P("{")>>)
    THEN ThriftMethods(Drop(ts, 3), [name |-> Val(ts[2]), methods |-> <<>>])
    ELSE Err

ThriftNamespace(ts) ==
    IF Starts(ts, <<Id("namespace"), AnyOf("ident"), AnyOf("ident")>>) THEN Ok(Val(ts[3]), Drop(ts, 3))
    ELSE Err

\* The first namespace of the file is kept.
RECURSIVE ParseThrift(_, _)
ParseThrift(ts, tree) ==
    CASE ts = <<>> -> Ok(tree, ts)
      [] Cur(ts) = Id("namespace") -> Bind(ThriftNamespace(ts), LAMBDA node, rest :
            ParseThrift(rest, [tree EXCEPT !.ns = IF @ = "" THEN node ELSE @]))
      [] Cur(ts) \in {Id("struct"), Id("union"), Id("exception")} ->
            Bind(ThriftStruct(ts), LAMBDA node, rest :
                ParseThrift(rest, [tree EXCEPT !.structs = Append(@, node)]))
      [] Cur(ts) = Id("enum") -> Bind(ThriftEnum(ts), LAMBDA node, rest :
            ParseThrift(rest, [tree EXCEPT !.enums = Append(@, node)]))
      [] Cur(ts) = Id("service") -> Bind(ThriftService(ts), LAMBDA node, rest :
            ParseThrift(rest, [tree EXCEPT !.services = Append(@, node)]))
      [] OTHER -> ParseThrift(Next1(ts), tree)

\* parseIDL, and generate up to its parse: the extension chooses the parser.
ParseIDL(e, ts) == IF e = ".proto" THEN ParseProto(ts, EmptyAST) ELSE ParseThrift(ts, EmptyAST)

----------------------------------------------------------------------------
(* compat/checker.go, linter.go, compat/thrift_transpiler.go *)

\* The checker indexes by name; of two nodes with one name the later stays.
ByName(nodes) ==
    [n \in {nodes[i].name : i \in DOMAIN nodes} |->
        nodes[Max({i \in DOMAIN nodes : nodes[i].name = n})]]

\* Mutant: an optional field may become required.
FieldBreaksLate(old, new) ==
    LET of == ByName(old.fields)  nf == ByName(new.fields)
    IN  \/ \E n \in DOMAIN of : n \notin DOMAIN nf \/ of[n].id # nf[n].id \/ of[n].type # nf[n].type
        \/ \E n \in DOMAIN nf \ DOMAIN of : ~nf[n].optional
FieldBreaks(old, new) ==
    LET of == ByName(old.fields)  nf == ByName(new.fields)
    IN  \/ \E n \in DOMAIN of :
            \/ n \notin DOMAIN nf
            \/ of[n].id # nf[n].id
            \/ of[n].type # nf[n].type
            \/ of[n].optional /\ ~nf[n].optional
        \/ \E n \in DOMAIN nf \ DOMAIN of : ~nf[n].optional
EnumBreaks(old, new) ==
    \E k \in DOMAIN old.values : k \notin DOMAIN new.values \/ old.values[k] # new.values[k]
MethodBreaks(old, new) ==
    LET om == ByName(old.methods)  nm == ByName(new.methods)
    IN  \E n \in DOMAIN om :
            \/ n \notin DOMAIN nm
            \/ om[n].input # nm[n].input \/ om[n].output # nm[n].output
            \/ om[n].client # nm[n].client \/ om[n].server # nm[n].server

\* DiffASTs, up to the wording of its report.
Breaks(olds, news, Differs(_, _)) ==
    LET o == ByName(olds)  n == ByName(news)
    IN  \E x \in DOMAIN o : x \notin DOMAIN n \/ Differs(o[x], n[x])
HasBreaking(old, new) ==
    \/ Breaks(old.structs, new.structs, FieldBreaks)
    \/ Breaks(old.enums, new.enums, EnumBreaks)
    \/ Breaks(old.services, new.services, MethodBreaks)

LintClean(tree) ==
    /\ \A e \in Range(tree.enums) : e.name \in Pascal /\ DOMAIN e.values \subseteq Pascal \cup Snake
    /\ \A m \in Range(tree.structs) :
           /\ m.name \in Pascal
           /\ \A f \in Range(m.fields) : f.name \in Snake /\ f.id > 0
    /\ \A v \in Range(tree.services) :
           /\ v.name \in Pascal \cap Suffixed
           /\ \A m \in Range(v.methods) : m.name \in Pascal

MapThriftTypeToProto(t) ==
    CASE t \in {"i16", "i32"} -> "int32"
      [] t = "i64" -> "int64"
      [] t = "binary" -> "bytes"
      [] t \in {"double", "bool"} -> t
      [] OTHER -> "string"

\* One line of the Thrift file, given whether the lines before it left a
\* struct open: what is written, and whether a struct is open after it.
TranspileLine(line, inStruct) ==
    CASE ~inStruct /\ Starts(line, <<Id("struct"), AnyOf("ident"), P("{")>>) ->
            [out |-> <<Id("message"), line[2], P("{")>>, open |-> TRUE]
      [] inStruct /\ Cur(line) = P("}") -> [out |-> <<P("}")>>, open |-> FALSE]
      [] inStruct /\ Starts(line, <<AnyOf("int"), P(":"), AnyOf("ident"), AnyOf("ident")>>) ->
            [out |-> <<Id(MapThriftTypeToProto(Val(line[3]))), line[4], P("="), line[1], P(";")>>,
             open |-> TRUE]
      [] OTHER -> [out |-> <<>>, open |-> inStruct]
RECURSIVE TranspileLines(_, _)
TranspileLines(lines, inStruct) ==
    IF lines = <<>> THEN <<>>
    ELSE LET l == TranspileLine(Head(lines), inStruct)
         IN  l.out \o TranspileLines(Tail(lines), l.open)
TranspileThriftToProto(lines) ==
    <<Id("syntax"), P("="), Str("proto3"), P(";"), Id("package"), Id("helix.migrated"), P(";")>>
        \o TranspileLines(lines, FALSE)

----------------------------------------------------------------------------
(* The routes in generated code, named by path and verb. *)

MethodsOf(tree) == FlattenSeq([i \in DOMAIN tree.services |->
    [j \in DOMAIN tree.services[i].methods |->
        [service |-> tree.services[i].name, m |-> tree.services[i].methods[j]]]])

\* GenerateOpenAPI: of two methods with one path and verb the later is documented.
OpenAPI(tree) ==
    ByName([i \in DOMAIN MethodsOf(tree) |->
        LET s == MethodsOf(tree)[i].service  m == MethodsOf(tree)[i].m
        IN  [name |-> <<IF m.path # "" THEN <<m.path>> ELSE <<"v1", s, m.name>>,
                        IF m.verb # "" THEN m.verb ELSE "POST">>,
             method |-> m.name, sse |-> m.server]])

\* Register of the Go generator: the method paths, under the package with dots
\* and with underscores, and the REST routes; a REST route is matched first.
Underscore(package) == IF package \in DOMAIN Underscored THEN Underscored[package] ELSE package
Register(tree) ==
    LET package == IF tree.ns = "" THEN "helix_example" ELSE tree.ns
        Paths(prefix) == [i \in DOMAIN MethodsOf(tree) |->
            LET p == MethodsOf(tree)[i]
            IN  [name |-> <<<<prefix, p.service, p.m.name>>, "POST">>, method |-> p.m.name]]
        rest == SelectSeq(MethodsOf(tree), LAMBDA p : p.m.verb # "" /\ p.m.path # "")
    IN  ByName(Paths(package) \o Paths(Underscore(package))
            \o [i \in DOMAIN rest |-> [name |-> <<<<rest[i].m.path>>, rest[i].m.verb>>,
                                       method |-> rest[i].m.name]])

----------------------------------------------------------------------------
(* The text of a schema, one declaration to a line. *)

ProtoNames == [T_INT32 |-> "int32", T_INT64 |-> "int64", T_STRING |-> "string",
               T_BINARY |-> "bytes", T_BOOL |-> "bool", T_DOUBLE |-> "double"]
ThriftNames == [T_INT32 |-> "i32", T_INT64 |-> "i64", T_STRING |-> "string",
                T_BINARY |-> "binary", T_BOOL |-> "bool", T_DOUBLE |-> "double"]
TypeName(names, t) == Id(IF t.kind = "T_STRUCT" THEN t.name ELSE names[t.kind])
Lines(S, Text(_)) == FlattenSeq([i \in DOMAIN S |-> Text(S[i])])

ProtoText(tree) ==
    LET Type(t) == CASE t.kind = "T_LIST" -> <<Id("repeated"), TypeName(ProtoNames, t.value)>>
                     [] t.kind = "T_MAP" -> <<Id("map"), P("<"), TypeName(ProtoNames, t.key), P(","),
                                             TypeName(ProtoNames, t.value), P(">")>>
                     [] OTHER -> <<TypeName(ProtoNames, t)>>
        Field(f) == <<(IF f.optional THEN <<Id("optional")>> ELSE <<>>) \o Type(f.type)
                        \o <<Id(f.name), P("="), Num(f.id), P(";")>>>>
        Oneof(m) == IF m.fallback /\ \A f \in Range(m.fields) : f.type.kind # "T_MAP"
                    THEN <<<<Id("oneof"), Id("kind"), P("{"), Id("bool"), Id("on"), P("="), Num(9), P(";"), P("}")>>>>
                    ELSE <<>>
        Message(m) == <<<<Id("message"), Id(m.name), P("{")>>>> \o Oneof(m) \o Lines(m.fields, Field)
                         \o <<<<P("}")>>>>
        Value(e, k) == <<<<Id(k), P("="), Num(e.values[k]), P(";")>>>>
        Enum(e) == <<<<Id("enum"), Id(e.name), P("{")>>>>
                      \o Lines(SetToSeq(DOMAIN e.values), LAMBDA k : Value(e, k)) \o <<<<P("}")>>>>
        Arg(stream, t) == <<P("(")>> \o (IF stream THEN <<Id("stream")>> ELSE <<>>) \o <<Id(t), P(")")>>
        Http(m) == <<P("{"), Id("option"), P("("), Id("google.api.http"), P(")"), P("="), P("{"),
                     Id(IF m.verb = "GET" THEN "get" ELSE "post"), P(":"), Str(m.path), P("}"), P(";"), P("}")>>
        Method(m) == <<<<Id("rpc"), Id(m.name)>> \o Arg(m.client, m.input) \o <<Id("returns")>>
                          \o Arg(m.server, m.output) \o (IF m.path = "" THEN <<P(";")>> ELSE Http(m))>>
        Service(v) == <<<<Id("service"), Id(v.name), P("{")>>>> \o Lines(v.methods, Method) \o <<<<P("}")>>>>
    IN  <<<<Id("syntax"), P("="), Str("proto3"), P(";")>>>>
            \o (IF tree.ns = "" THEN <<>> ELSE <<<<Id("package"), Id(tree.ns), P(";")>>>>)
            \o Lines(tree.structs, Message) \o Lines(tree.enums, Enum) \o Lines(tree.services, Service)

\* A Thrift enum leaves out the values its keys get by counting.
ThriftText(tree) ==
    LET Type(t) == IF t.kind = "T_LIST" THEN <<Id("list"), P("<"), TypeName(ThriftNames, t.value), P(">")>>
                   ELSE <<TypeName(ThriftNames, t)>>
        Field(f) == <<<<Num(f.id), P(":")>> \o (IF f.optional THEN <<Id("optional")>> ELSE <<>>)
                        \o Type(f.type) \o <<Id(f.name), P(",")>>>>
        Struct(m) == <<<<Id(IF m.fallback THEN "union" ELSE "struct"), Id(m.name), P("{")>>>> \o Lines(m.fields, Field) \o <<<<P("}")>>>>
        Keys(e) == SetToSortSeq(DOMAIN e.values, LAMBDA j, k : e.values[j] < e.values[k])
        Counted(e, i) == e.values[Keys(e)[i]] = IF i = 1 THEN 0 ELSE e.values[Keys(e)[i - 1]] + 1
        Value(e, i) == IF Counted(e, i) THEN <<Id(Keys(e)[i]), P(",")>>
                       ELSE <<Id(Keys(e)[i]), P("="), Num(e.values[Keys(e)[i]]), P(",")>>
        Enum(e) == <<<<Id("enum"), Id(e.name), P("{")>>>> \o [i \in DOMAIN Keys(e) |-> Value(e, i)]
                      \o <<<<P("}")>>>>
        Method(m) == <<<<Id(m.output), Id(m.name), P("("), Num(1), P(":"), Id(m.input), Id("req"), P(")")>>>>
        Service(v) == <<<<Id("service"), Id(v.name), P("{")>>>> \o Lines(v.methods, Method) \o <<<<P("}")>>>>
    IN  (IF tree.ns = "" THEN <<>> ELSE <<<<Id("namespace"), Id("go"), Id(tree.ns)>>>>)
            \o Lines(tree.structs, Struct) \o Lines(tree.enums, Enum) \o Lines(tree.services, Service)

\* Thrift has no streaming, no REST option, and ThriftType loses a map's parameters.
InThrift(tree) ==
    /\ \A m \in Range(tree.structs) : \A f \in Range(m.fields) : f.type.kind # "T_MAP"
    /\ \A v \in Range(tree.services) : \A m \in Range(v.methods) : ~m.client /\ ~m.server /\ m.path = ""
Text(e, tree) == IF e = ".proto" THEN ProtoText(tree) ELSE ThriftText(tree)

----------------------------------------------------------------------------
(* The helix-gen commands on the schema file. *)

Tokens(lines) == FlattenSeq(lines)
Parsed == ParseIDL(ext, Tokens(file))

Init ==
    /\ ext \in {".proto", ".thrift"}
    /\ \E t \in Drafts :
           /\ ext = ".thrift" => InThrift(t)
           /\ file = Text(ext, t) /\ meant = t /\ first = t /\ released = t
    /\ out = Null /\ exit = 0

\* The author saves another schema.
Edit(t) ==
    /\ ext = ".thrift" => InThrift(t)
    /\ file' = Text(ext, t) /\ meant' = t /\ out' = Null /\ exit' = 0
    /\ UNCHANGED <<ext, first, released>>

\* The author leaves out a token.  Bound: only in the schema released first.
Mistype(l, i) ==
    /\ meant = first /\ released = first
    /\ file' = [file EXCEPT ![l] = RemoveAt(@, i)] /\ meant' = Null /\ out' = Null /\ exit' = 0
    /\ UNCHANGED <<ext, first, released>>

\* helix-gen diff against the released schema; the CI gate releases on status 0.
RunDiff ==
    /\ \E p \in {Parsed} :
          /\ exit' = IF ~p.ok THEN 1 ELSE IF HasBreaking(released, p.node) THEN 2 ELSE 0
          /\ released' = IF exit' = 0 THEN p.node ELSE released
    /\ out' = Null /\ UNCHANGED <<ext, file, meant, first>>

RunLint ==
    /\ \E p \in {Parsed} : exit' = IF p.ok /\ LintClean(p.node) THEN 0 ELSE 1
    /\ out' = Null /\ UNCHANGED <<ext, file, meant, first, released>>

\* helix-gen generate for OpenAPI and for Go: style violations only warn.
RunGenerate ==
    /\ \E p \in {Parsed} :
          /\ exit' = IF p.ok THEN 0 ELSE 1
          /\ out' = IF p.ok
                    THEN [ns |-> p.node.ns, doc |-> OpenAPI(p.node), routes |-> Register(p.node)]
                    ELSE Null
    /\ UNCHANGED <<ext, file, meant, first, released>>

\* helix-gen transpile-schema, and the move to the proto file.  It keeps what a
\* line "id: type name" of a struct says, when the type is a basic one.
Plain(tree) ==
    \A m \in Range(tree.structs) : ~m.fallback /\ \A f \in Range(m.fields) :
        ~f.optional /\ f.type.kind \in DOMAIN ThriftNames
RunTranspileSchema ==
    /\ ext = ".thrift"
    /\ ext' = ".proto" /\ file' = <<TranspileThriftToProto(file)>> /\ exit' = 0
    /\ meant' = IF meant # Null /\ Plain(meant)
                THEN [EmptyAST EXCEPT !.ns = "helix.migrated", !.structs = meant.structs] ELSE Null
    /\ out' = Null /\ UNCHANGED <<first, released>>

Next ==
    \/ \E t \in Drafts : Edit(t)
    \/ \E l \in DOMAIN file : \E i \in DOMAIN file[l] : Mistype(l, i)
    \/ RunDiff \/ RunLint \/ RunGenerate \/ RunTranspileSchema

Spec == Init /\ [][Next]_vars

----------------------------------------------------------------------------
(* Properties *)

\* An author's schema is what helix-gen reads: both parsers recover the AST
\* that the file states, and a struct of plain fields survives the
\* transpilation from Thrift.  Every operation that GenerateOpenAPI documents
\* is served by the method it names, if it has a REST option or the package is
\* v1 (the path documented without an option is that of package v1).
SchemasFaithful ==
    /\ meant # Null => Parsed = Ok(meant, <<>>)
    /\ out # Null => \A op \in DOMAIN out.doc :
          Len(op[1]) = 1 \/ out.ns = "v1" =>
              op \in DOMAIN out.routes /\ out.routes[op].method = out.doc[op].method

\* However many releases helix-gen diff let pass, one at a time, the newest
\* schema still serves the oldest clients: it reads under the same ID and type
\* every field they send, requires only fields they always send, and keeps
\* their enum values and method signatures.
Serves(new, old) ==
    /\ \A m \in Range(old.structs) : \E n \in Range(new.structs) :
           /\ n.name = m.name
           /\ \A f \in Range(m.fields) : \E g \in Range(n.fields) : g.id = f.id /\ g.type = f.type
           /\ \A g \in Range(n.fields) : ~g.optional =>
                 \E f \in Range(m.fields) : f.id = g.id /\ f.type = g.type /\ ~f.optional
    /\ \A e \in Range(old.enums) : \E d \in Range(new.enums) :
           d.name = e.name /\ \A k \in DOMAIN e.values : k \in DOMAIN d.values /\ d.values[k] = e.values[k]
    /\ \A v \in Range(old.services) : \E w \in Range(new.services) :
           /\ w.name = v.name
           /\ \A m \in Range(v.methods) : \E n \in Range(w.methods) :
                 [n EXCEPT !.verb = m.verb, !.path = m.path] = m
UpgradesCompatible == Serves(released, first)
=============================================================================
