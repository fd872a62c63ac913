---------------------------- MODULE MCComponents ----------------------------
(***************************************************************************)
(* Model-checking instances of the components that stand alone: the pool   *)
(* and the transports (Connections), target selection, the generated       *)
(* codecs and TypeScript client, the IDL tools and the control loops.  A   *)
(* behaviour is one of the component chosen in its initial state, whose    *)
(* variables are those of Connections or v1 to v9.                         *)
(***************************************************************************)
EXTENDS Connections, Integers, TLC

CONSTANTS t1, t2, c1, c2, k1, k2

VARIABLES v1, v2, v3, v4, v5, v6, v7, v8, v9

slots == <<v1, v2, v3, v4, v5, v6, v7, v8, v9>>
carriers == <<poolVars, shmVars, quicVars>>
allVars == <<connectionVars, slots>>

\* A hash function without collisions, and one with.
MCHashes ==
    {[vnode |-> (t1 :> <<4, 1>>) @@ (t2 :> <<2, 7>>), key |-> (k1 :> 3) @@ (k2 :> 7)],
     [vnode |-> (t1 :> <<4, 1>>) @@ (t2 :> <<4, 7>>), key |-> (k1 :> 3) @@ (k2 :> 8)]}

T == INSTANCE TargetSelection WITH
        Clients <- {c1, c2}, Nodes <- {t1, t2}, Keys <- {k1, k2}, Lists <- {<<t1, t2>>},
        Entries <- {[service |-> "", address |-> ""], [service |-> t1, address |-> t2]},
        HashFunctions <- MCHashes, Space <- 9, MaxRing <- 4, Turns <- 2,
        hash <- v1, registry <- v2, ring <- v3, hashMap <- v4, registered <- v5, counter <- v6,
        pc <- v7, targets <- v8, answer <- v9

F(id, kind) == [id |-> id, kind |-> kind]
MCSchemas ==
    {<<F(1, "int64"), F(2, "string"), F(3, "string")>>,
     <<F(1, "int32"), F(2, "int64"), F(3, "string")>>,
     <<F(2, "string"), F(5, "int32"), F(15, "int64")>>,
     <<F(3, "string"), F(1, "int64")>>,
     <<F(1, "bool"), F(2, "int64"), F(3, "string")>>,
     <<F(1, "string"), F(2, "binary"), F(3, "double")>>}
MCSamples ==
    [int32 |-> {<<0>>, <<150>>, <<-1>>}, int64 |-> {<<0>>, <<20000>>, <<-3>>},
     string |-> {<<>>, <<104, 105>>}, bool |-> {<<0>>, <<1>>}, binary |-> {<<>>, <<0, 200>>},
     double |-> {<<0>>, <<7>>}]

W == INSTANCE WireCodec WITH
        IntBits <- 14, LongBits <- 28, Schemas <- MCSchemas, Samples <- MCSamples, MaxHops <- 2,
        sch <- v1, orig <- v2, at <- v3, obj <- v4, wire <- v5, known <- v6, exact <- v7, via <- v8, hops <- v9

N == INSTANCE NodeClient WITH
        Bodies <- {<<"a", "b">>, <<"c">>, <<>>}, MaxCalls <- 2,
        kind <- v1, idle <- v2, calls <- v3, data <- v4, loading <- v5, error <- v6

\* Schemas: one field of either type, required or optional, alone and beside a
\* second; lists, maps and oneofs; counted enums; streams and REST options.
Basic(kind) == [kind |-> kind, name |-> ""]
Field(n, id, t, o) == [name |-> n, id |-> id, type |-> t, optional |-> o]
Method(n, server, verb, path) ==
    [name |-> n, input |-> "Order", output |-> "Order", client |-> n = "Put", server |-> server,
     verb |-> verb, path |-> path]
Tree(ns, fields, fallback, values, methods) ==
    [ns |-> ns, structs |-> <<[name |-> "Order", fields |-> fields, fallback |-> fallback]>>,
     enums |-> <<[name |-> "State", values |-> values]>>,
     services |-> <<[name |-> "OrderService", methods |-> methods]>>]
Unary == Method("Get", FALSE, "", "")
List == [kind |-> "T_LIST", value |-> Basic("T_STRING")]
Map == [kind |-> "T_MAP", key |-> Basic("T_STRING"), value |-> [kind |-> "T_STRUCT", name |-> "Order"]]
MCDrafts ==
    {Tree("v1", <<Field("id", 1, Basic(t), o)>> \o g, FALSE, "OPEN" :> 0, <<Unary>>) :
        t \in {"T_INT32", "T_STRING"}, o \in BOOLEAN,
        g \in {<<>>} \cup {<<Field("note", 2, Basic("T_STRING"), q)>> : q \in BOOLEAN}}
    \cup {Tree("shop.v1", <<Field("id", 2, Basic("T_INT32"), FALSE), Field("tags", 3, List, FALSE)>>, FALSE,
               v, <<Unary, Method("Watch", s, "GET", "/watch")>>) :
            v \in {"OPEN" :> 0, ("OPEN" :> 0) @@ ("closed" :> 3)}, s \in BOOLEAN}
    \cup {Tree("", <<Field("by", 4, Map, FALSE)>>, TRUE, ("OPEN" :> 1) @@ ("closed" :> 2),
               <<Method("Put", FALSE, "POST", "/put")>>)}
    \cup {Tree("v1", fs, fs[1].type = List, ("OPEN" :> 0) @@ ("closed" :> 1) @@ ("lost" :> 5), <<Unary>>) :
            fs \in {<<Field("any", 7, List, FALSE)>>,
                    <<Field("raw", 1, Basic("T_BINARY"), FALSE), Field("big", 2, Basic("T_INT64"), FALSE)>>}}

G == INSTANCE SchemaTools WITH
        Drafts <- MCDrafts, Pascal <- {"Order", "State", "OrderService", "Get", "Watch"},
        Snake <- {"id", "note", "tags", "closed"}, Suffixed <- {"OrderService"},
        Underscored <- ("shop.v1" :> "shop_v1") @@ ("helix.migrated" :> "helix_migrated"),
        ext <- v1, file <- v2, meant <- v3, first <- v4, released <- v5, out <- v6, exit <- v7

R == INSTANCE Reloads WITH
        MaxTime <- 6,
        kind <- v1, now <- v2, text <- v3, ver <- v4, mtime <- v5, pc <- v6, last <- v7, applied <- v8, late <- v9

K == INSTANCE SchemaController WITH
        Capacity <- 2, MaxEvents <- 4, MaxStarts <- 3,
        queue <- v1, published <- v2, handled <- v3, running <- v4, parent <- v5, loops <- v6, out <- v7,
        raced <- v8

Ask(i, r, v, e) == [image |-> i, replicas |-> r, vault |-> v, ebpf |-> e]
O == INSTANCE HelixOperator WITH
        Specs <- {Ask(t1, <<>>, FALSE, FALSE), Ask(t1, <<0>>, TRUE, TRUE),
                  Ask(t2, <<2>>, FALSE, TRUE), Ask(t2, <<2>>, TRUE, FALSE)},
        MaxChanges <- 4,
        cr <- v1, dep <- v2, asked <- v3, pc <- v4, want <- v5, changes <- v6, given <- v7

-----------------------------------------------------------------------------
Off1 == v1 = Off /\ v2 = Off /\ v3 = Off /\ v4 = Off /\ v5 = Off /\ v6 = Off
Off7 == v7 = Off /\ v8 = Off /\ v9 = Off
off7 == <<v7, v8, v9>>

Alone ==
    \/ which = "targets" /\ T!Init
    \/ which = "wire" /\ W!Init
    \/ which = "node" /\ N!Init /\ Off7
    \/ which = "schema" /\ G!Init /\ v8 = Off /\ v9 = Off
    \/ which = "reload" /\ R!Init
    \/ which = "controller" /\ K!Init /\ v9 = Off
    \/ which = "operator" /\ O!Init /\ v8 = Off /\ v9 = Off

MCInit ==
    \/ ConnectionsInit /\ Off1 /\ Off7
    \/ Alone /\ PoolOff /\ ShmOff /\ QuicOff

ConnectionStep == ConnectionsNext /\ UNCHANGED slots
TargetsStep == which = "targets" /\ T!Next /\ UNCHANGED <<which, carriers>>
WireStep == which = "wire" /\ W!Next /\ UNCHANGED <<which, carriers>>
NodeStep == which = "node" /\ N!Next /\ UNCHANGED <<which, off7, carriers>>
SchemaStep == which = "schema" /\ G!Next /\ UNCHANGED <<which, v8, v9, carriers>>
ReloadStep == which = "reload" /\ R!Next /\ UNCHANGED <<which, carriers>>
ControllerStep == which = "controller" /\ K!Next /\ UNCHANGED <<which, v9, carriers>>
OperatorStep == which = "operator" /\ O!Next /\ UNCHANGED <<which, v8, v9, carriers>>

MCNext ==
    \/ ConnectionStep \/ TargetsStep \/ WireStep
    \/ NodeStep \/ SchemaStep \/ ReloadStep \/ ControllerStep \/ OperatorStep

\* The fairness of the components that have one.
MCFairness ==
    /\ ConnectionsFairness
    /\ WF_slots(which = "reload" /\ R!Loop) /\ WF_slots(which = "reload" /\ R!FinishSave)
    /\ WF_<<v1, v2, v3, v4, v5, v6, v7, v8>>(which = "controller" /\ K!Work)
    /\ WF_<<v1, v2, v3, v4, v5, v6, v7>>(which = "operator" /\ O!Reconcile)
    /\ WF_<<v1, v2, v3, v4, v5, v6, v7>>(which = "operator" /\ O!Collect)

MCSpec == MCInit /\ [][MCNext]_allVars /\ MCFairness

-----------------------------------------------------------------------------
(* The properties of the other components, each about its own behaviours.  *)

\* TargetSelection!KeyAffinity: the target nearest to the key.
KeyAffinity == [][which = "targets" => T!AnswersTarget]_allVars

\* WireCodec!HopsPreserve and SizeExact: a message survives the runtimes it
\* passes through, and Go's Size is the length that MarshalTo writes.
WireFaithful == which = "wire" => W!HopsPreserve /\ W!SizeExact

\* NodeClient!HookShowsLatest: a hook shows the call of its latest request.
HookShowsLatest == which = "node" => N!HookShowsLatest

\* SchemaTools!SchemasFaithful: schemas are read, moved and documented as written.
SchemasFaithful == which = "schema" => G!SchemasFaithful

\* SchemaTools!UpgradesCompatible: releases that passed helix-gen diff one by
\* one serve the oldest clients.
UpgradesCompatible == which = "schema" => G!UpgradesCompatible

\* Reloads!Caught, SchemaController!Handled and HelixOperator!Settled: a reload
\* loop ends with the version saved last, the controller has processed every
\* event once, and the operator has a Deployment of the present HelixService
\* with the eBPF mount it asks for.  SchemaController!OutputNewest on the way: an
\* older output is in place only after compilations that overlapped, and until
\* one writes alone.
LoopsCatchUp ==
    /\ <>[](which = "reload" => R!Caught)
    /\ <>[](which = "controller" => K!Handled)
    /\ [](which = "controller" => K!OutputNewest)
    /\ <>[](which = "operator" => O!Settled)
=============================================================================
