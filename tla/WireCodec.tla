----------------------------- MODULE WireCodec -----------------------------
(***************************************************************************)
(* The codecs the compiler emits for one message type, as the generated    *)
(* code runs them (compiler/codegen/*_generator.go): the Protobuf encoders *)
(* and decoders, the lazy getters, the Thrift Compact readers and writers, *)
(* the Protobuf-to-Thrift transpilers and the FlatBuffers codecs of Go,    *)
(* Rust, Python, Node, Java and C++, for structs with no complex field.    *)
(*                                                                         *)
(* A message hops between runtimes: its holder encodes it, the bytes may   *)
(* be transpiled, another runtime decodes them (perhaps knowing only the   *)
(* first k fields: an older version of the contract) and sends it on, or   *)
(* reads it through a lazy view, which has no encoder.                     *)
(* Buffers are sequences of real bytes, with the real varint groups, tags, *)
(* compact headers and FlatBuffers offsets; only the two word sizes are    *)
(* reduced: LongBits stands for 64 and IntBits for 32.                     *)
(*                                                                         *)
(* Every value is a sequence of integers (an integer or a bool is <<v>>, a *)
(* string or a byte slice its bytes), so that all values are comparable.   *)
(* The loops the six generators share are written once; what differs from  *)
(* one language to the next is in the record of that language.             *)
(***************************************************************************)
EXTENDS Integers, Sequences, SequencesExt, Bitwise

CONSTANTS IntBits,      \* width of an int32
          LongBits,     \* width of an int64 and of a varint
          Schemas,      \* the message types: sequences of [id, kind]
          Samples,      \* Samples[kind]: the values a field of that kind takes
          MaxHops       \* how many times a message is decoded and sent on

VARIABLES sch,    \* the message type
          orig,   \* the message first sent
          at,     \* the runtime that holds the message, "view" for a lazy view
          obj,    \* its fields as decoded or read there, or Err
          wire,   \* the bytes in flight, or None
          known,  \* how many fields every hop so far knew
          exact,  \* every codec so far was used in its domain
          via,    \* the transpiler a message with no field twice went through
          hops

vars == <<sch, orig, at, obj, wire, known, exact, via, hops>>

Err  == <<>>                 \* a decoder returned an error or threw
None == [fmt |-> "none", b |-> <<>>, n |-> 0, dup |-> FALSE]
Null == <<-1, -1>>             \* Java's null String
NotFound == <<-2, -2>>         \* a lazy getter returned an error or threw

-----------------------------------------------------------------------------
\* Words and varints.

Word(v) == v % 2^LongBits

Signed(w, bits) ==
    LET u == w % 2^bits IN IF u >= 2^(bits - 1) THEN u - 2^bits ELSE u

RECURSIVE Varint(_)
Varint(v) == IF v < 128 THEN <<v>> ELSE <<128 + (v % 128)>> \o Varint(v \div 128)

\* The varint at position i of b; groups beyond the word are shifted out.
RECURSIVE VarintAt(_, _)
VarintAt(b, i) ==
    IF i > Len(b) THEN [ok |-> FALSE, v |-> 0, next |-> i]
    ELSE IF b[i] < 128 THEN [ok |-> TRUE, v |-> b[i], next |-> i + 1]
    ELSE [VarintAt(b, i + 1) EXCEPT
            !.v = (b[i] - 128) + 128 * (@ % 2^(LongBits - 7))]

RECURSIVE SizeOfVarint(_)
SizeOfVarint(v) == IF v < 128 THEN 1 ELSE 1 + SizeOfVarint(v \div 128)

Kinds       == {"int32", "int64", "string", "bool", "binary", "double"}
Scalars     == {"int32", "int64", "string"}     \* what every codec supports
Delimited   == {"string", "binary"}
WireType(k) == IF k \in Delimited THEN 2 ELSE IF k = "double" THEN 1 ELSE 0
Zero(k)     == IF k \in Delimited THEN <<>> ELSE <<0>>

\* A fixed-width little-endian number: the model's words fill four bytes at most.
LittleEndian(v, size) ==
    [j \in 1..size |-> IF j > 4 THEN 0 ELSE (v \div 256^(j - 1)) % 256]

LittleEndianAt(b, p, size) ==
    IF size = 2 THEN b[p] + 256 * b[p + 1]
    ELSE b[p] + 256 * b[p + 1] + 65536 * b[p + 2] + 16777216 * b[p + 3]

Payload(k, v) ==
    CASE k \in Delimited -> Varint(Len(v)) \o v
      [] k = "double" -> LittleEndian(Word(v[1]), 8)
      [] OTHER -> Varint(Word(v[1]))

-----------------------------------------------------------------------------
\* Protobuf encoders.  Zero values are left out.

\* Go writes every tag as ONE byte, and only the kinds in Scalars.
GoMarshalTo(s, m) ==
    FlattenSeq([n \in 1..Len(s) |->
        IF s[n].kind \in Scalars /\ m[n] # Zero(s[n].kind)
        THEN <<8 * s[n].id + WireType(s[n].kind)>> \o Payload(s[n].kind, m[n])
        ELSE <<>>])

GoProtoSizeNoLength(s, m) ==
    FoldLeft(LAMBDA a, n : a + IF s[n].kind = "string" /\ m[n] # <<>> THEN 1 + Len(m[n])
                               ELSE 0, 0, [n \in 1..Len(s) |-> n])

GoProtoSize(s, m) ==
    LET Size(n) == IF s[n].kind \notin Scalars \/ m[n] = Zero(s[n].kind) THEN 0
                   ELSE IF s[n].kind = "string"
                        THEN 1 + SizeOfVarint(Len(m[n])) + Len(m[n])
                        ELSE 1 + SizeOfVarint(Word(m[n][1]))
    IN FoldLeft(LAMBDA a, n : a + Size(n), 0, [n \in 1..Len(s) |-> n])

\* The buffer has ProtoSize bytes: MarshalTo fills it from the left, and
\* panics when it is too short.
GoMarshal(s, m) ==
    LET b == GoMarshalTo(s, m)
        size == GoProtoSize(s, m)
    IN IF Len(b) > size THEN Err
       ELSE [i \in 1..size |-> IF i <= Len(b) THEN b[i] ELSE 0]

JavaWriteTo(s, m) ==
    FlattenSeq([n \in 1..Len(s) |->
        IF s[n].kind \in Scalars /\ m[n] \notin {Zero(s[n].kind), Null}
        THEN Varint(8 * s[n].id + WireType(s[n].kind)) \o Payload(s[n].kind, m[n])
        ELSE <<>>])

\* A peer built with a standard Protobuf library; it may send field 1 twice,
\* an earlier value first, and receivers are to keep the last one.
StdMarshal(s, m, dup) ==
    LET Field(n, v) == Varint(8 * s[n].id + WireType(s[n].kind)) \o Payload(s[n].kind, v)
        Old == IF s[1].kind \in Delimited THEN <<9>> ELSE <<1>>
    IN (IF dup THEN Field(1, Old) ELSE <<>>) \o
       FlattenSeq([n \in 1..Len(s) |->
           IF dup \/ m[n] # Zero(s[n].kind) THEN Field(n, m[n]) ELSE <<>>])

-----------------------------------------------------------------------------
\* Protobuf decoders.

FieldNum(T, s, n) == IF T.positional THEN n ELSE s[n].id
FieldAt(T, s, num) ==     \* the field with that number, 0 for an unknown one
    SelectInSeq([n \in 1..Len(s) |-> FieldNum(T, s, n)], LAMBDA x : x = num)

\* Where the value at p ends, 0 for an error.  What a loop does with a wire
\* type other than 0 and 2 is its own: "error"; "fixed" steps over the four or
\* eight bytes of 5 and 1; "ignore" consumes nothing; "varint" one varint.
SkipValue(other, b, p, wt) ==
    LET r == VarintAt(b, p)
    IN CASE wt = 0 -> IF r.ok THEN r.next ELSE 0
         [] wt = 2 -> IF r.ok THEN r.next + r.v ELSE 0
         [] OTHER  -> CASE other = "error"  -> 0
                        [] other = "fixed"  -> IF wt = 1 THEN p + 8
                                               ELSE IF wt = 5 THEN p + 4 ELSE p
                        [] other = "ignore" -> p
                        [] other = "varint" -> IF r.ok THEN r.next ELSE 0

\* T.bounded: a length that runs past the buffer is an error, not a short slice.
ValueAt(T, k, b, p) ==    \* [ok, v, next]
    LET r == VarintAt(b, p)
        bits == IF k = "int32" THEN IntBits ELSE LongBits
    IN IF k \in Delimited
       THEN [ok   |-> r.ok /\ (T.bounded => r.next + r.v - 1 <= Len(b)),
             v    |-> SubSeq(b, r.next, Min({r.next + r.v - 1, Len(b)})),
             next |-> r.next + r.v]
       ELSE IF k = "double"
       THEN [ok   |-> p + 7 <= Len(b), next |-> p + 8,
             v    |-> <<Signed(LittleEndianAt(b, p, 8), LongBits)>>]
       ELSE [ok   |-> r.ok, next |-> r.next,
             v    |-> IF k = "bool" THEN <<IF r.v = 0 THEN 0 ELSE 1>>
                      ELSE <<IF T.signed THEN Signed(r.v, bits) ELSE r.v>>]

\* The decoding loop.  T.positional: fields are numbered by declaration order;
\* T.tagged: a field is matched by its whole tag, others are skipped;
\* T.checked: a wrong wire type is an error; T.kinds: the kinds with a case
\* that reads a value (another kind's case consumes nothing).
RECURSIVE DecodeFrom(_, _, _, _, _)
DecodeFrom(T, s, b, i, m) ==
    LET tag == VarintAt(b, i)
        n   == FieldAt(T, s, tag.v \div 8)
        k   == s[n].kind
        wt  == tag.v % 8
        mine == n # 0 /\ (T.tagged => wt = IF k = "string" THEN 2 ELSE 0)
        val == ValueAt(T, k, b, tag.next)
        end == SkipValue(T.other, b, tag.next, wt)
    IN IF i > Len(b) THEN m
       ELSE IF ~tag.ok THEN Err
       ELSE IF mine /\ k \notin T.kinds THEN DecodeFrom(T, s, b, tag.next, m)
       ELSE IF mine THEN IF (T.checked /\ wt # WireType(k)) \/ ~val.ok THEN Err
                         ELSE DecodeFrom(T, s, b, val.next, [m EXCEPT ![n] = val.v])
       ELSE IF end = 0 THEN Err
       ELSE DecodeFrom(T, s, b, end, m)

Default(l, k) == IF l = "java" /\ k = "string" THEN Null ELSE Zero(k)
Fresh(l, s) == [n \in 1..Len(s) |-> Default(l, s[n].kind)]

GoUnmarshal ==
    [positional |-> FALSE, tagged |-> FALSE, checked |-> TRUE, signed |-> TRUE,
     bounded |-> TRUE, other |-> "error", kinds |-> Scalars]

RustViewParse ==
    [positional |-> FALSE, tagged |-> FALSE, checked |-> FALSE, signed |-> TRUE,
     bounded |-> TRUE, other |-> "error", kinds |-> Scalars \cup {"binary"}]

PythonFromProto ==
    [positional |-> TRUE, tagged |-> FALSE, checked |-> FALSE, signed |-> FALSE,
     bounded |-> FALSE, other |-> "fixed", kinds |-> Kinds]

JavaParseFrom ==
    [positional |-> FALSE, tagged |-> TRUE, checked |-> TRUE, signed |-> TRUE,
     bounded |-> TRUE, other |-> "fixed", kinds |-> Scalars]

Decoder(l) ==
    CASE l = "go" -> GoUnmarshal [] l = "rust" -> RustViewParse
      [] l = "python" -> PythonFromProto [] l = "java" -> JavaParseFrom

-----------------------------------------------------------------------------
\* Lazy getters: scan for the first field with that number, decode it alone.

RECURSIVE FastScanField(_, _, _)
FastScanField(b, i, num) ==    \* [ok, b]: the bytes of the value
    LET tag == VarintAt(b, i)
        wt  == tag.v % 8
        end == SkipValue("error", b, tag.next, wt)
        from == IF wt = 2 THEN VarintAt(b, tag.next).next ELSE tag.next
    IN IF i > Len(b) \/ ~tag.ok \/ end = 0 THEN [ok |-> FALSE, b |-> <<>>]
       ELSE IF tag.v \div 8 # num THEN FastScanField(b, end, num)
       ELSE [ok |-> end - 1 <= Len(b), b |-> SubSeq(b, from, end - 1)]

LazyGet(T, s, b, n) ==
    LET f == FastScanField(b, 1, FieldNum(T, s, n))
        k == s[n].kind
        r == ValueAt([signed |-> T.signed, bounded |-> TRUE], k, f.b, 1)
    IN IF ~f.ok \/ k \notin T.kinds THEN NotFound
       ELSE IF k \in Delimited THEN f.b
       ELSE IF r.ok THEN r.v ELSE NotFound

GoLazy     == [positional |-> FALSE, signed |-> TRUE,  kinds |-> Scalars]
RustLazy   == [positional |-> FALSE, signed |-> TRUE,  kinds |-> Scalars]
PythonLazy == [positional |-> TRUE,  signed |-> FALSE,
               kinds |-> Scalars \cup {"bool", "binary"}]
NodeLazy   == [positional |-> FALSE, signed |-> FALSE,
               kinds |-> Scalars \cup {"bool", "binary"}]
JavaLazy   == [positional |-> FALSE, signed |-> TRUE,  kinds |-> Scalars]
CppLazy    == [positional |-> FALSE, signed |-> TRUE,  kinds |-> Scalars]

LazyGetters(l) ==
    CASE l = "go" -> GoLazy [] l = "rust" -> RustLazy [] l = "python" -> PythonLazy
      [] l = "node" -> NodeLazy [] l = "java" -> JavaLazy [] l = "cpp" -> CppLazy

-----------------------------------------------------------------------------
\* Thrift Compact: the Apache library's reader and writer (external), and the
\* generated struct code on top of them.

\* The compact type of each kind, as each generator's type table has it.
GoThriftType == [k \in Kinds |-> CASE k = "int32" -> 5 [] k = "int64" -> 6
    [] k \in Delimited -> 8 [] k = "bool" -> 1 [] OTHER -> 0]
RustThriftType == [k \in Kinds |-> CASE k = "int32" -> 5 [] k = "int64" -> 6
    [] k \in Delimited -> 8 [] k = "bool" -> 1 [] OTHER -> 0]
JavaThriftType == [k \in Kinds |-> CASE k = "int32" -> 5 [] k = "int64" -> 6
    [] OTHER -> 8]
ZigZag(v)   == IF v >= 0 THEN 2 * v ELSE -2 * v - 1
UnZigZag(w) == IF w % 2 = 0 THEN w \div 2 ELSE -(w \div 2) - 1

CompactHeader(last, id, type) ==
    IF id - last \in 1..15 THEN <<16 * (id - last) + type>>
    ELSE <<type>> \o Varint(ZigZag(id))

CompactSkip(b, p, type) ==    \* where a value of that type ends, 0: bad type
    CASE type \in {1, 2} -> p
      [] type \in {5, 6} -> SkipValue("error", b, p, 0)
      [] type = 8 -> SkipValue("error", b, p, 2)
      [] type = 7 -> p + 8
      [] OTHER -> 0

CompactValue(k, b, p) ==      \* [ok, v, next]
    LET r == ValueAt([signed |-> FALSE, bounded |-> TRUE], k, b, p)
        bits == IF k = "int32" THEN IntBits ELSE LongBits
    IN IF k \in Delimited THEN r
       ELSE [r EXCEPT !.v = <<UnZigZag(r.v[1] % 2^bits)>>]

\* Every field is written, in declaration order; Java writes the header of a
\* null string and no value.
RECURSIVE WriteFrom(_, _, _, _, _)
WriteFrom(types, s, m, n, last) ==
    IF n > Len(s) THEN <<0>>
    ELSE LET k == s[n].kind
         IN CompactHeader(last, s[n].id, types[k])
            \o (IF k \notin Scalars \/ m[n] = Null THEN <<>>
                ELSE IF k = "string" THEN Varint(Len(m[n])) \o m[n]
                ELSE Varint(ZigZag(m[n][1])))
            \o WriteFrom(types, s, m, n + 1, s[n].id)

GoWrite(s, m)   == WriteFrom(GoThriftType, s, m, 1, 0)
RustWrite(s, m) == WriteFrom(RustThriftType, s, m, 1, 0)
JavaWrite(s, m) == WriteFrom(JavaThriftType, s, m, 1, 0)

\* The read loop.  checked: a field of another type than declared is skipped.
RECURSIVE ReadFrom(_, _, _, _, _, _, _)
ReadFrom(types, checked, s, b, i, last, m) ==
    LET type == b[i] % 16
        long == VarintAt(b, i + 1)
        id   == IF b[i] < 16 THEN UnZigZag(long.v) ELSE last + b[i] \div 16
        p    == IF b[i] < 16 THEN long.next ELSE i + 1
        n    == FieldAt([positional |-> FALSE], s, id)
        k    == s[n].kind
        val  == CompactValue(k, b, p)
        end  == CompactSkip(b, p, type)
        mine == n # 0 /\ (checked => type = types[k])
    IN IF i > Len(b) THEN Err
       ELSE IF type = 0 THEN m
       ELSE IF b[i] < 16 /\ ~long.ok THEN Err
       ELSE IF mine /\ k \notin Scalars THEN ReadFrom(types, checked, s, b, p, id, m)
       ELSE IF mine THEN IF ~val.ok THEN Err
                         ELSE ReadFrom(types, checked, s, b, val.next, id,
                                       [m EXCEPT ![n] = val.v])
       ELSE IF end = 0 THEN Err
       ELSE ReadFrom(types, checked, s, b, end, id, m)

\* The emitted Go Read closes one brace too many after its switch; GoRead is the
\* loop without it.
GoRead(s, b)   == ReadFrom(GoThriftType, TRUE, s, b, 1, 0, Fresh("go", s))
RustRead(s, b) == ReadFrom(RustThriftType, FALSE, s, b, 1, 0, Fresh("rust", s))
JavaRead(s, b) == ReadFrom(JavaThriftType, TRUE, s, b, 1, 0, Fresh("java", s))

-----------------------------------------------------------------------------
\* Protobuf-to-Thrift-Compact transpilers.

Ones(bits) == 2^bits - 1
Sar(w, k, bits) ==            \* arithmetic shift right of a bits-wide word
    IF w < 2^(bits - 1) THEN w \div 2^k ELSE Ones(bits) - ((Ones(bits) - w) \div 2^k)

\* The zigzag expression of each generator, on the unsigned word it read.
ZigZagOf(style, w) ==
    CASE style = "sar64"  -> Word(2 * w) ^^ Sar(w, LongBits - 1, LongBits)
      [] style = "sar32"  -> Word(2 * w) ^^ Sar(w, IntBits - 1, LongBits)
      [] style = "shr64"  -> Word(2 * w) ^^ (w \div 2^(LongBits - 1))
      [] style = "shr32"  -> Word(2 * w) ^^ (w \div 2^(IntBits - 1))
      [] style = "bigint" -> (2 * w) ^^ (w \div 2^(LongBits - 1))
      [] style = "i32"    -> LET x == w % 2^IntBits
                             IN Word(Signed((2 * x) ^^ Sar(x, IntBits - 1, IntBits), IntBits))
      [] style = "double" -> 2 * w

\* All of them write the long form as a type byte and a two-byte number.
TranspiledHeader(last, id, type) ==
    IF id - last \in 1..15 THEN <<16 * (id - last) + type>>
    ELSE <<type, id \div 256, id % 256>>

\* The loop of the five single-pass transpilers.  T.tracks: the kinds after
\* which the last field number is updated; T.zz32 = "throws": mixing BigInt and
\* number raises; T.skips: a known field of another kind is skipped rather than
\* left unconsumed.
RECURSIVE TranspileFrom(_, _, _, _, _, _)
TranspileFrom(T, s, b, i, last, out) ==
    LET tag == VarintAt(b, i)
        n   == FieldAt([positional |-> FALSE], s, tag.v \div 8)
        k   == s[n].kind
        raw == ValueAt([signed |-> FALSE, bounded |-> TRUE], k, b, tag.next)
        end == SkipValue(T.other, b, tag.next, tag.v % 8)
        style == IF k = "int32" THEN T.zz32 ELSE T.zz64
        head == TranspiledHeader(last, s[n].id, GoThriftType[k])
        body == IF k = "string" THEN Varint(Len(raw.v)) \o raw.v
                ELSE Varint(ZigZagOf(style, raw.v[1]))
    IN IF i > Len(b) THEN Append(out, 0)
       ELSE IF ~tag.ok THEN Err
       ELSE IF n # 0 /\ k \in Scalars
            THEN IF ~raw.ok \/ style = "throws" THEN Err
                 ELSE TranspileFrom(T, s, b, raw.next,
                          IF k \in T.tracks THEN s[n].id ELSE last, out \o head \o body)
       ELSE IF n # 0 /\ ~T.skips THEN TranspileFrom(T, s, b, tag.next, last, out)
       ELSE IF end = 0 THEN Err
       ELSE TranspileFrom(T, s, b, end, last, out)

\* Go does not update lastFieldID after a string.
GoTranspile ==
    [zz32 |-> "sar64", zz64 |-> "sar64", tracks |-> {"int32", "int64"},
     skips |-> FALSE, other |-> "varint"]
\* Mutant: Rust does not update the last number after a string either.
RustTranspileUntracked ==
    [zz32 |-> "i32", zz64 |-> "shr64", tracks |-> {"int32", "int64"},
     skips |-> FALSE, other |-> "ignore"]

RustTranspile ==
    [zz32 |-> "i32", zz64 |-> "shr64", tracks |-> Scalars,
     skips |-> FALSE, other |-> "ignore"]
NodeTranspile ==
    [zz32 |-> "throws", zz64 |-> "bigint", tracks |-> Scalars,
     skips |-> TRUE, other |-> "ignore"]
JavaTranspile ==
    [zz32 |-> "sar32", zz64 |-> "sar64", tracks |-> Scalars,
     skips |-> FALSE, other |-> "ignore"]
CppTranspile ==
    [zz32 |-> "shr32", zz64 |-> "shr64", tracks |-> Scalars,
     skips |-> FALSE, other |-> "ignore"]

\* Python decodes first (fields numbered by position), then writes them in
\* declaration order: integers and bools always, strings only when present.
PythonTranspile(s, b) ==
    LET m == DecodeFrom(PythonFromProto, s, b, 1, [n \in 1..Len(s) |->
                 IF s[n].kind \in Delimited THEN Null ELSE Zero(s[n].kind)])
        Emit(acc, n) ==
            LET k == s[n].kind
                type == CASE k = "bool" -> IF m[n] = <<0>> THEN 2 ELSE 1
                          [] k = "double" -> 7
                          [] OTHER -> GoThriftType[k]
            IN IF m[n] = Null THEN acc
               ELSE [last |-> n,
                     out |-> acc.out \o TranspiledHeader(acc.last, n, type)
                         \o (CASE k = "bool" -> <<>>
                               [] k \in Delimited \cup {"double"} -> Payload(k, m[n])
                               [] OTHER -> Varint(ZigZagOf("double", m[n][1])))]
    IN IF m = Err THEN Err
       ELSE Append(FoldLeft(Emit, [last |-> 0, out |-> <<>>],
                            [n \in 1..Len(s) |-> n]).out, 0)

Transpiled(l, s, b) ==
    IF l = "python" THEN PythonTranspile(s, b)
    ELSE TranspileFrom(CASE l = "go" -> GoTranspile [] l = "rust" -> RustTranspile
                         [] l = "node" -> NodeTranspile [] l = "java" -> JavaTranspile
                         [] l = "cpp" -> CppTranspile, s, b, 1, 0, <<>>)

-----------------------------------------------------------------------------
\* FlatBuffers.  Buffer: root offset (4 bytes), table, strings, vtable.

SlotSize(k) == IF k \in {"int64", "double"} THEN 8 ELSE 4

\* Field n's offset in the table, aligned to its size; offs[Len(s) + 1] is where
\* the table ends.
FlatOffsets(s) ==
    LET Place(acc, n) ==
            LET size == SlotSize(s[n].kind)
                off == ((acc.end + size - 1) \div size) * size
            IN [offs |-> Append(acc.offs, off), end |-> off + size]
    IN FoldLeft(Place, [offs |-> <<>>, end |-> 4], [n \in 1..Len(s) |-> n])

FlatMarshal(counted, s, m) ==
    LET lay == FlatOffsets(s)
        Dyn(n, kinds) == IF s[n].kind \in kinds /\ m[n] # <<>> THEN 4 + Len(m[n]) ELSE 0
        DynBefore(n, kinds) ==
            FoldLeft(LAMBDA a, j : a + Dyn(j, kinds), 0, [j \in 1..(n - 1) |-> j])
        dynamic == DynBefore(Len(s) + 1, counted)
        vtableStart == 4 + lay.end + dynamic
        strStart(n) == 4 + lay.end + DynBefore(n, {"string"})
        Zeros(k) == [j \in 1..k |-> 0]
        Slot(n) ==
            CASE s[n].kind = "int32" -> LittleEndian(m[n][1] % 2^IntBits, 4)
              [] s[n].kind = "int64" -> LittleEndian(Word(m[n][1]), 8)
              [] s[n].kind = "bool"  -> LittleEndian(m[n][1], 4)
              [] s[n].kind = "string" /\ m[n] # <<>> ->
                     LittleEndian(strStart(n) - (4 + lay.offs[n]), 4)
              [] OTHER -> Zeros(SlotSize(s[n].kind))
        prevEnd(n) == IF n = 1 THEN 4 ELSE lay.offs[n - 1] + SlotSize(s[n - 1].kind)
        table == FlattenSeq([n \in 1..Len(s) |-> Zeros(lay.offs[n] - prevEnd(n)) \o Slot(n)])
        strings == FlattenSeq([n \in 1..Len(s) |->
                       IF Dyn(n, {"string"}) = 0 THEN <<>>
                       ELSE LittleEndian(Len(m[n]), 4) \o m[n]])
        vtable == LittleEndian(4 + 2 * Len(s), 2) \o LittleEndian(lay.end, 2)
                  \o FlattenSeq([n \in 1..Len(s) |-> LittleEndian(lay.offs[n], 2)])
    IN LittleEndian(4, 4) \o LittleEndian(vtableStart - 4, 4) \o table \o strings
       \o Zeros(dynamic - Len(strings)) \o vtable

\* Only strings are written; Go also counts byte slices in the size, Python
\* counts them too and fails on a non-empty one (bytes has no encode).
GoMarshalFlatBuffers(s, m)   == FlatMarshal(Delimited, s, m)
NodeMarshalFlatBuffers(s, m) == FlatMarshal({"string"}, s, m)
PythonMarshalFlatBuffers(s, m) ==
    IF \E n \in 1..Len(s) : s[n].kind = "binary" /\ m[n] # <<>> THEN Err
    ELSE FlatMarshal(Delimited, s, m)

\* Positions below are the code's zero-based offsets; the byte at offset o is
\* b[o + 1].
FlatUnmarshal(s, b, m) ==
    LET root   == LittleEndianAt(b, 1, 4)
        vtable == root + LittleEndianAt(b, root + 1, 4)
        vsize  == LittleEndianAt(b, vtable + 1, 2)
        Field(n) ==
            LET k    == s[n].kind
                voff == 4 + 2 * (n - 1)
                foff == LittleEndianAt(b, vtable + voff + 1, 2)
                pos  == root + foff
                str  == pos + LittleEndianAt(b, pos + 1, 4)
                len  == LittleEndianAt(b, str + 1, 4)
            IN IF voff + 2 > vsize THEN m[n]
               ELSE IF foff = 0 THEN m[n]
               ELSE CASE k = "int32" /\ pos + 4 <= Len(b) ->
                             <<Signed(LittleEndianAt(b, pos + 1, 4), IntBits)>>
                      [] k = "int64" /\ pos + 8 <= Len(b) ->
                             <<Signed(LittleEndianAt(b, pos + 1, 8), LongBits)>>
                      [] k = "bool" /\ pos < Len(b) ->
                             <<IF b[pos + 1] = 0 THEN 0 ELSE 1>>
                      [] k = "string" /\ pos + 4 <= Len(b) ->
                             IF str + 4 > Len(b) THEN m[n]
                             ELSE IF str + 4 + len > Len(b) THEN m[n]
                             ELSE SubSeq(b, str + 5, str + 4 + len)
                      [] OTHER -> m[n]
    IN IF Len(b) < 8 THEN Err
       ELSE IF root + 4 > Len(b) THEN Err
       ELSE IF vtable + 4 > Len(b) THEN Err
       ELSE [n \in 1..Len(s) |-> Field(n)]

GoUnmarshalFlatBuffers(s, b, x)   == FlatUnmarshal(s, b, x)
NodeUnmarshalFlatBuffers(s, b)    == FlatUnmarshal(s, b, Fresh("node", s))
PythonUnmarshalFlatBuffers(s, b)  == FlatUnmarshal(s, b, Fresh("python", s))

-----------------------------------------------------------------------------
\* The domains: on which messages a codec is meant to be exact.  Outside them
\* the model still runs the code, but the message is no longer followed.

KindsIn(s, K) == \A n \in 1..Len(s) : s[n].kind \in K
ByPosition(s) == \A n \in 1..Len(s) : s[n].id = n
NonNegative(m) == \A n \in 1..Len(m) : m[n] # <<>> => m[n][1] >= 0
Ascending(s) == \A i, j \in 1..Len(s) : i < j => s[i].id < s[j].id
Prefix(s, k) == SubSeq(s, 1, k)

MarshalDomain(l, s, m) ==
    CASE l = "go" -> KindsIn(s, Scalars) /\ \A n \in 1..Len(s) : s[n].id < 16
      [] l = "java" -> KindsIn(s, Scalars)
      [] OTHER -> TRUE

ParseDomain(l, s, k, m) ==
    CASE l = "go" ->
             KindsIn(Prefix(s, k), Scalars) /\ KindsIn(s, Kinds \ {"double"})
      [] l = "rust" ->
             KindsIn(Prefix(s, k), Scalars \cup {"binary"}) /\ KindsIn(s, Kinds \ {"double"})
      [] l = "java" -> KindsIn(Prefix(s, k), Scalars)
      [] l = "python" -> ByPosition(s)

LazyDomain(l, s, k, m) ==
    /\ KindsIn(Prefix(s, k), LazyGetters(l).kinds) /\ KindsIn(s, Kinds \ {"double"})
    /\ l = "python" => ByPosition(s)

Unsigned(l, m) == l \in {"node", "python"} => NonNegative(m)

ThriftDomain(s, m) == KindsIn(s, Scalars) /\ \A n \in 1..Len(s) : m[n] # Null

\* The long header form is not the compact protocol's, so numbers may not go
\* back or jump by more than 15.
TranspileDomain(l, s, m) ==
    /\ KindsIn(s, Scalars)
    /\ Ascending(s) /\ \A n \in 1..Len(s) : s[n].id < 16
    /\ CASE l = "go" -> \A i, j \in 1..Len(s) :
                            (i < j /\ s[i].kind = "string" /\ m[i] # <<>>)
                                => m[j] = Zero(s[j].kind)
         [] l = "rust" -> \A n \in 1..Len(s) : s[n].kind = "int64" => m[n][1] >= 0
         [] l = "node" -> NonNegative(m) /\ \A n \in 1..Len(s) :
                              s[n].kind = "int32" => m[n] = <<0>>
         [] l = "java" -> TRUE
         [] l = "cpp" -> NonNegative(m)
         [] l = "python" -> ByPosition(s) /\ NonNegative(m)

-----------------------------------------------------------------------------
Init ==
    /\ sch \in Schemas
    /\ orig \in {m \in UNION {[1..Len(s) -> UNION {Samples[k] : k \in Kinds}] : s \in {sch}} :
                    \A n \in 1..Len(sch) : m[n] \in Samples[sch[n].kind]}
    /\ at \in {"go", "java", "node", "std"}
    /\ obj = orig /\ wire = None
    /\ known = Len(sch) /\ exact = TRUE /\ via = "" /\ hops = 0

Holds(l) == at = l /\ wire = None /\ obj # Err /\ exact /\ hops < MaxHops
ObjSchema == Prefix(sch, Len(obj))

Send(fmt, bytes, dup, inDomain) ==
    /\ wire' = [fmt |-> fmt, b |-> bytes, n |-> Len(obj), dup |-> dup]
    /\ exact' = inDomain
    /\ via' = ""
    /\ UNCHANGED <<sch, orig, at, obj, known, hops>>

MarshalProto(l, dup) ==
    /\ Holds(l)
    /\ Send("proto", CASE l = "go" -> GoMarshal(ObjSchema, obj)
                       [] l = "java" -> JavaWriteTo(ObjSchema, obj)
                       [] l = "std" -> StdMarshal(ObjSchema, obj, dup),
            dup, MarshalDomain(l, ObjSchema, obj))

MarshalFlatBuffers(l) ==
    /\ Holds(l)
    /\ Send("flat", CASE l = "go" -> GoMarshalFlatBuffers(ObjSchema, obj)
                      [] l = "node" -> NodeMarshalFlatBuffers(ObjSchema, obj)
                      [] l = "python" -> PythonMarshalFlatBuffers(ObjSchema, obj),
            FALSE, KindsIn(ObjSchema, Scalars \cup {"bool"}))

WriteThrift(l) ==
    /\ Holds(l)
    /\ Send("thrift", CASE l = "go" -> GoWrite(ObjSchema, obj)
                        [] l = "rust" -> RustWrite(ObjSchema, obj)
                        [] l = "java" -> JavaWrite(ObjSchema, obj),
            FALSE, ThriftDomain(ObjSchema, obj))

Transpile(l) ==
    /\ wire.fmt = "proto" /\ exact
    /\ wire' = [wire EXCEPT !.fmt = "thrift", !.b = Transpiled(l, Prefix(sch, wire.n), wire.b)]
    /\ exact' = (~wire.dup /\ TranspileDomain(l, Prefix(sch, wire.n), obj))
    /\ via' = IF wire.dup THEN "" ELSE l
    /\ UNCHANGED <<sch, orig, at, obj, known, hops>>

\* The receiver's contract has k fields, more or fewer than the sender's.
Receive(l, k, fmt, m, inDomain) ==
    /\ wire.fmt = fmt
    /\ at' = l /\ obj' = m /\ wire' = None
    /\ known' = IF k < known THEN k ELSE known
    /\ exact' = (exact /\ inDomain)
    /\ hops' = hops + 1
    /\ UNCHANGED <<sch, orig, via>>

WireSchema == Prefix(sch, wire.n)

ParseProto(l, k) ==
    /\ wire.fmt = "proto"
    /\ Receive(l, k, "proto", DecodeFrom(Decoder(l), Prefix(sch, k), wire.b, 1,
                                         Fresh(l, Prefix(sch, k))),
               ParseDomain(l, WireSchema, IF k < wire.n THEN k ELSE wire.n, obj)
               /\ Unsigned(l, obj))

ReadLazily(l, k) ==
    /\ wire.fmt = "proto"
    /\ LET s == Prefix(sch, k)
       IN Receive("view", k, "proto",
                  [n \in 1..k |-> LazyGet(LazyGetters(l), s, wire.b, n)],
                  /\ LazyDomain(l, WireSchema, IF k < wire.n THEN k ELSE wire.n, obj)
                  /\ Unsigned(l, obj) /\ ~wire.dup)

ReadFlatBuffers(l, k) ==
    /\ wire.fmt = "flat"
    /\ LET s == Prefix(sch, k)
       IN Receive(l, k, "flat",
                  CASE l = "go" -> GoUnmarshalFlatBuffers(s, wire.b, Fresh("go", s))
                    [] l = "node" -> NodeUnmarshalFlatBuffers(s, wire.b)
                    [] l = "python" -> PythonUnmarshalFlatBuffers(s, wire.b), TRUE)

ReadThrift(l, k) ==
    /\ wire.fmt = "thrift"
    /\ LET s == Prefix(sch, k)
       IN Receive(l, k, "thrift",
                  CASE l = "go" -> GoRead(s, wire.b) [] l = "rust" -> RustRead(s, wire.b)
                    [] l = "java" -> JavaRead(s, wire.b), TRUE)

Next ==
    \/ \E l \in {"go", "java"} : MarshalProto(l, FALSE)
    \/ \E dup \in BOOLEAN : MarshalProto("std", dup)
    \/ \E l \in {"go", "node", "python"} : MarshalFlatBuffers(l)
    \/ \E l \in {"go", "rust", "java"} : WriteThrift(l)
    \/ \E l \in {"go", "rust", "python", "node", "java", "cpp"} : Transpile(l)
    \/ \E k \in 1..Len(sch) :
          \/ \E l \in {"go", "rust", "python", "java"} : ParseProto(l, k)
          \/ \E l \in {"go", "rust", "python", "node", "java", "cpp"} : ReadLazily(l, k)
          \/ \E l \in {"go", "node", "python"} : ReadFlatBuffers(l, k)
          \/ \E l \in {"go", "rust", "java"} : ReadThrift(l, k)

Spec == Init /\ [][Next]_vars

-----------------------------------------------------------------------------
\* What the receiver should see: the fields every hop knew, zero for the others.
Expected(n) == IF n <= known THEN orig[n] ELSE Zero(sch[n].kind)
Seen(n) == IF obj[n] = Null THEN <<>> ELSE obj[n]

\* What the getters of a lazy view answer: no encoder writes a zero value, and a
\* getter fails on a field that is not there.
ExpectedLazily(n) == IF Expected(n) = Zero(sch[n].kind) THEN NotFound ELSE Expected(n)

\* However a message travels between the runtimes, through whichever formats,
\* transpilers and older or newer versions of its contract, every field that all
\* of them know arrives unchanged and every other field has its zero value, as
\* long as each generated codec on the way is used in its domain.  A lazy view
\* gives the same fields, and an error for exactly those that are zero.
HopsPreserve ==
    (exact /\ wire = None) =>
        /\ obj # Err
        /\ \A n \in 1..Len(obj) :
              IF at = "view" THEN obj[n] = ExpectedLazily(n) ELSE Seen(n) = Expected(n)

\* Go's ProtoSize is exactly the number of bytes MarshalTo writes, for every
\* message and not only for the supported field numbers: Marshal neither panics
\* nor pads.
SizeExact ==
    obj # Err /\ at # "view" => GoProtoSize(ObjSchema, obj) = Len(GoMarshalTo(ObjSchema, obj))

\* For a message whose fields are numbered 1, 2, 3..., with no negative number,
\* the bytes the Go transpiler writes decode to the message that was marshalled
\* (production_features_test.go decodes them and compares every field).
GoTranspileDecodes ==
    (via = "go" /\ wire = None /\ hops = 1 /\ Len(obj) = Len(sch)
        /\ KindsIn(sch, Scalars) /\ ByPosition(sch) /\ NonNegative(orig))
    => obj # Err /\ \A n \in 1..Len(obj) : Seen(n) = orig[n]

=============================================================================
