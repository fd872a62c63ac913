--------------------------- MODULE GatewayProofs ----------------------------
(***************************************************************************)
(* Proofs about the request pipeline (Gateway), for any requests,    *)
(* methods, routes and deployments: a handler runs inside its whole chain, *)
(* the adaptive limiter's count is exact and bounded, everything a request *)
(* took is given back, one limiter counts a tenant's requests, and the     *)
(* answer tells the client how its call ended.                             *)
(***************************************************************************)
EXTENDS Gateway, FiniteSetTheorems, TLAPS

Unary == {"json", "grpc", "web"}
Streams == {"sse", "stream", "ws"}
Kinds == Unary \cup Streams \cup {"debug", "unknown", None}

Places == {"idle", "tenant", "create", "bucket", "jwt", "route", "bind", "enter", "loadLimit", "swap",
           "handler", "leave", "updateLimit", "streamed", "encode", "write", "done", "panicked"}

\* Inside the chain of interceptors, on the way to the handler and back.
Inward == {"enter", "loadLimit", "swap", "handler"}
Inside == Inward \cup {"leave"}

-----------------------------------------------------------------------------
(* The invariant *)

\* The maps from requests are maps from all requests; their values matter only
\* where a later conjunct says so.
Maps ==
    /\ DOMAIN req = Reqs /\ DOMAIN saw = Reqs /\ DOMAIN w = Reqs
    /\ DOMAIN uses = Reqs /\ DOMAIN content = Reqs

Typed ==
    /\ Maps
    /\ pc \in [Reqs -> Places]
    /\ kind \in [Reqs -> Kinds]
    /\ depth \in [Reqs -> Nat]
    /\ code \in [Reqs -> Nat]
    /\ loaded \in [Reqs -> Int]
    /\ buffer \in [Reqs -> Reqs \cup {None}]
    /\ slots \in SUBSET Reqs /\ spans \in SUBSET Reqs /\ pool \in SUBSET Reqs
    /\ active \in Int /\ leaked \in Nat /\ limit \in 0..MaxLimit
    /\ chain \in Seq(Interceptors) /\ OneAdaptive(chain)

\* How deep in its chain a request is at each place of the pipeline, and which
\* places the branches of ServeHTTP lead to.
Placed(r) ==
    /\ pc[r] \in {"bind", "enter", "loadLimit", "swap", "leave", "updateLimit"} => kind[r] \in Unary
    /\ pc[r] \in {"enter", "loadLimit", "swap", "leave", "updateLimit"} => depth[r] <= Len(chain)
    /\ pc[r] = "handler" => \/ kind[r] \in Unary /\ depth[r] = Len(chain)
                            \/ kind[r] \in Streams /\ depth[r] = 0
    /\ pc[r] \in {"loadLimit", "swap"} => depth[r] < Len(chain) /\ chain[depth[r] + 1] = "adaptive"
    /\ pc[r] = "updateLimit" => depth[r] > 0 /\ chain[depth[r]] = "adaptive"
    /\ pc[r] \notin Inside \cup {"updateLimit", "panicked"} => depth[r] = 0
    /\ pc[r] = "streamed" => kind[r] \in Streams
    /\ pc[r] \in {"encode", "write"} => kind[r] \in Unary \cup {"sse"}

\* A request holds a slot while it is inside the adaptive limiter, at most one
\* span while it is inside the telemetry, a buffer while it writes.
Holding(r) ==
    /\ r \in slots <=> pc[r] \in Inside /\ \E i \in 1..depth[r] : chain[i] = "adaptive"
    /\ r \in spans => /\ pc[r] \in Inside \cup {"updateLimit"}
                      /\ \E i \in 1..depth[r] : chain[i] = "telemetry"
    /\ buffer[r] # None <=> pc[r] = "write"
    /\ pc[r] = "swap" => loaded[r] < MaxLimit

\* The authentication interceptors a request is inside of let it pass.
Passed(r) ==
    pc[r] \in Inward => \A i \in 1..depth[r] :
        /\ chain[i] = "jwt" => JWTVerdict(req[r]) = CodeOK
        /\ chain[i] = "apikey" => APIKeyVerdict(req[r]) = CodeOK

\* The count of the adaptive limiter.
Counted ==
    /\ active = Cardinality(slots) + leaked
    /\ active <= MaxLimit

\* The limiter a request asked is the one the map holds for its tenant.
OneLimiter(r) ==
    /\ pc[r] \in {"idle", "tenant", "create"} => uses[r] = None
    /\ uses[r] # None => req[r].tenant \in DOMAIN limiters /\ uses[r] = limiters[req[r].tenant]

ChainInv ==
    /\ Typed
    /\ Counted
    /\ \A r \in Reqs : Placed(r) /\ Holding(r) /\ Passed(r) /\ OneLimiter(r)

Own(r) == Placed(r) /\ Holding(r) /\ Passed(r) /\ OneLimiter(r)

-----------------------------------------------------------------------------
(* Steps *)

\* A step of the goroutine that serves r changes nothing of another request, and
\* the map of the tenants' limiters only grows.
Alone(r) ==
    /\ \A q \in Reqs \ {r} :
          /\ pc'[q] = pc[q] /\ req'[q] = req[q] /\ kind'[q] = kind[q] /\ depth'[q] = depth[q]
          /\ loaded'[q] = loaded[q] /\ uses'[q] = uses[q] /\ buffer'[q] = buffer[q]
          /\ q \in slots' <=> q \in slots
          /\ q \in spans' <=> q \in spans
    /\ chain' = chain
    /\ \A t \in DOMAIN limiters : t \in DOMAIN limiters' /\ limiters'[t] = limiters[t]

\* What is to be shown of a step of r.
Keeps(r) == Typed' /\ Counted' /\ Alone(r) /\ Own(r)'

\* The other requests keep their invariants.
LEMMA KeepsAll ==
    ASSUME ChainInv, NEW r \in Reqs, Keeps(r)
    PROVE  ChainInv'
<1> SUFFICES ASSUME NEW q \in Reqs, q # r PROVE Own(q)'
  BY Zenon DEF ChainInv, Keeps, Own
<1>1. Placed(q)'
  BY DEF ChainInv, Keeps, Alone, Placed
<1>2. Holding(q)'
  BY DEF ChainInv, Keeps, Alone, Holding
<1>3. Passed(q)'
  BY DEF ChainInv, Keeps, Alone, Passed, JWTVerdict, BearerToken, APIKeyVerdict
<1>4. OneLimiter(q)'
  BY DEF ChainInv, Keeps, Alone, OneLimiter
<1>5. QED
  BY Zenon, <1>1, <1>2, <1>3, <1>4 DEF Own

\* Where a request of kind k that is inside of no interceptor may go.
Leads(k, l) ==
    /\ l \in Places \ {"idle", "loadLimit", "swap", "leave", "updateLimit"}
    /\ l \in {"bind", "enter"} => k \in Unary
    /\ l \in {"handler", "streamed"} => k \in Streams
    /\ l \in {"encode", "write"} => k \in Unary \cup {"sse"}

\* A step outside of the chain: no interceptor is entered or left.
LEMMA OuterStep ==
    ASSUME ChainInv, NEW r \in Reqs, depth[r] = 0,
           NEW l, Leads(kind'[r], l), pc' = [pc EXCEPT ![r] = l],
           UNCHANGED <<chain, depth, loaded, active, limit, slots, leaked, spans>>,
           Maps', kind' \in [Reqs -> Kinds], code' \in [Reqs -> Nat],
           buffer' \in [Reqs -> Reqs \cup {None}], pool' \in SUBSET Reqs,
           \A q \in Reqs \ {r} : /\ req'[q] = req[q] /\ kind'[q] = kind[q]
                                 /\ uses'[q] = uses[q] /\ buffer'[q] = buffer[q],
           \A t \in DOMAIN limiters : t \in DOMAIN limiters' /\ limiters'[t] = limiters[t],
           buffer'[r] # None <=> l = "write",
           OneLimiter(r)'
    PROVE  Keeps(r)
<1>1. l \in Places /\ r \notin slots /\ r \notin spans
  BY DEF ChainInv, Holding, Typed, Leads
<1>2. Typed' /\ Counted'
  BY Zenon, <1>1 DEF ChainInv, Typed, Counted, Maps
<1>3. Alone(r)
  BY Zenon DEF Alone, ChainInv, Typed
<1>4. pc'[r] = l /\ depth'[r] = 0
  BY Zenon DEF ChainInv, Typed
<1>5. Placed(r)'
  <2>1. Len(chain) \in Nat
    BY DEF ChainInv, Typed
  <2>2. QED
    BY <1>4, <2>1 DEF Placed, Leads, Places, Inside, Inward
<1>6. Holding(r)'
  BY <1>1, <1>4 DEF Holding, Leads
<1>7. Passed(r)'
  BY <1>4 DEF Passed
<1>8. QED
  BY Zenon, <1>2, <1>3, <1>5, <1>6, <1>7 DEF Keeps, Own

\* One that only answers, decodes, sets the code or moves on.
LEMMA PlainStep ==
    ASSUME ChainInv, NEW r \in Reqs, depth[r] = 0, pc[r] # "write",
           NEW l, Leads(kind[r], l), l \notin {"tenant", "create", "write"},
           pc' = [pc EXCEPT ![r] = l],
           UNCHANGED <<chain, req, kind, depth, loaded, active, limit, slots, leaked, spans,
                       limiters, uses, pool, buffer, content>>,
           DOMAIN saw' = Reqs, DOMAIN w' = Reqs, code' \in [Reqs -> Nat]
    PROVE  Keeps(r)
<1>1. pc'[r] = l /\ buffer[r] = None
  BY Zenon DEF ChainInv, Typed, Holding
<1>2. OneLimiter(r)'
  BY Zenon, <1>1 DEF ChainInv, OneLimiter, Leads
<1>3. /\ Maps' /\ kind' \in [Reqs -> Kinds]
      /\ buffer' \in [Reqs -> Reqs \cup {None}] /\ pool' \in SUBSET Reqs
  BY Zenon DEF ChainInv, Typed, Maps
<1>4. QED
  BY Zenon, <1>1, <1>2, <1>3, OuterStep

\* ServeHTTP has these branches.
LEMMA KindType == \A q : Kind(q) \in Kinds \ {None}
BY Zenon DEF Kind, Kinds, Unary, Streams, None

\* The middlewares.
LEMMA MiddlewareStep ==
    ASSUME ChainInv, NEW r \in Reqs,
           Arrive(r) \/ TenantLookup(r) \/ TenantCreate(r) \/ TenantBucket(r) \/ JWTMiddleware(r)
    PROVE  Keeps(r)
<1> USE DEF Goto, limVars, tenantVars, bufVars
<1>1. /\ depth[r] = 0 /\ pc[r] # "write" /\ buffer[r] = None
      /\ Typed /\ Maps /\ OneLimiter(r)
  BY Zenon DEF ChainInv, Typed, Placed, Holding, Inside, Inward, Arrive, TenantLookup, TenantCreate,
         TenantBucket, JWTMiddleware
<1>2. CASE Arrive(r)
  <2>1. \E l : Leads(kind'[r], l) /\ pc' = [pc EXCEPT ![r] = l] /\ l # "write"
    <3>1. \A l \in {"tenant", "jwt", "route"} : Leads(kind'[r], l)
      BY Zenon DEF Leads, Places
    <3>2. \E l \in {"tenant", "jwt", "route"} : pc' = [pc EXCEPT ![r] = l]
      BY Zenon, <1>2 DEF Arrive
    <3>3. QED
      BY Zenon, <3>1, <3>2
  <2>2. kind' \in [Reqs -> Kinds] /\ \A q \in Reqs \ {r} : kind'[q] = kind[q] /\ req'[q] = req[q]
    BY <1>1, <1>2, KindType DEF Arrive, Typed, Maps
  <2>3. OneLimiter(r)'
    BY Zenon, <1>1, <1>2 DEF Arrive, OneLimiter, Typed
  <2>4. QED
    BY Zenon, <1>1, <1>2, <2>1, <2>2, <2>3, OuterStep DEF Arrive, Typed, Maps
<1>3. CASE TenantLookup(r)
  <2>1. PICK l \in {"route", "done", "create", "bucket"} :
               /\ pc' = [pc EXCEPT ![r] = l]
               /\ \/ uses' = uses
                  \/ /\ l = "bucket" /\ req[r].tenant \in DOMAIN limiters
                     /\ uses' = [uses EXCEPT ![r] = limiters[req[r].tenant]]
    BY Zenon, <1>3 DEF TenantLookup, HTTPError, End
  <2>5. Leads(kind'[r], l)
    BY Zenon DEF Leads, Places
  <2>2. DOMAIN w' = Reqs
    BY ZenonT(60), <1>1, <1>3 DEF TenantLookup, HTTPError, End, Answer, Maps
  <2>3. OneLimiter(r)'
    BY Zenon, <1>1, <1>3, <2>1 DEF TenantLookup, OneLimiter, Typed, Maps
  <2>4. QED
    BY Zenon, <1>1, <1>3, <2>1, <2>2, <2>3, <2>5, OuterStep DEF TenantLookup, Typed, Maps
<1>4. CASE TenantCreate(r)
  <2> DEFINE t == req[r].tenant
  <2>1. /\ DOMAIN limiters' = DOMAIN limiters \cup {t}
        /\ \A u \in DOMAIN limiters : limiters'[u] = limiters[u]
    BY Zenon, <1>4 DEF TenantCreate, Over
  <2>2. OneLimiter(r)'
    BY Zenon, <1>1, <1>4, <2>1 DEF TenantCreate, OneLimiter, Typed, Maps
  <2>3. Leads(kind'[r], "bucket")
    BY Zenon DEF Leads, Places
  <2>4. QED
    BY Zenon, <1>1, <1>4, <2>1, <2>2, <2>3, OuterStep DEF TenantCreate, Typed, Maps
<1>5. CASE TenantBucket(r) \/ JWTMiddleware(r)
  <2>1. \E l \in {"route", "done"} : pc' = [pc EXCEPT ![r] = l]
    BY Zenon, <1>5 DEF TenantBucket, JWTMiddleware, HTTPError, End
  <2>2. \A l \in {"route", "done"} : Leads(kind[r], l)
    BY Zenon DEF Leads, Places
  <2>3. DOMAIN w' = Reqs
    BY ZenonT(60), <1>1, <1>5 DEF TenantBucket, JWTMiddleware, HTTPError, End, Answer, Maps
  <2>4. QED
    BY Zenon, <1>1, <1>5, <2>1, <2>2, <2>3, PlainStep DEF TenantBucket, JWTMiddleware, Typed, Maps
<1>6. QED
  BY Zenon, <1>2, <1>3, <1>4, <1>5

\* ServeHTTP up to the decoding of the request.
LEMMA RoutingStep ==
    ASSUME ChainInv, NEW r \in Reqs,
           \/ ServeDebug(r) \/ NotFound(r) \/ Upgrade(r) \/ StartStream(r)
           \/ DecodeJSON(r) \/ DecodeFrame(r) \/ Bind(r)
    PROVE  Keeps(r)
<1> USE DEF Goto, Unchanged, limVars, tenantVars, bufVars
<1>1. Typed /\ Maps /\ pc[r] \in {"route", "bind"} /\ depth[r] = 0 /\ pc[r] # "write"
  <2>1. pc[r] \in {"route", "bind"}
    BY Zenon DEF ServeDebug, NotFound, Upgrade, StartStream, DecodeJSON, DecodeFrame, Bind
  <2>2. QED
    BY Zenon, <2>1 DEF ChainInv, Typed, Placed, Inside, Inward
<1>2. \E l \in {"done", "handler", "bind", "enter", "encode"} :
         Leads(kind[r], l) /\ pc' = [pc EXCEPT ![r] = l]
  <2> USE DEF HTTPError, GRPCError, End
  <2>1. /\ Leads(kind[r], "done")
        /\ kind[r] \in Streams => Leads(kind[r], "handler")
        /\ kind[r] \in Unary => \A l \in {"bind", "enter", "encode"} : Leads(kind[r], l)
    BY Zenon DEF Leads, Places, Unary
  <2>2. CASE ServeDebug(r) \/ NotFound(r)
    BY Zenon, <2>1, <2>2 DEF ServeDebug, NotFound
  <2>3. CASE Upgrade(r)
    BY Zenon, <2>1, <2>3 DEF Upgrade, Streams
  <2>4. CASE StartStream(r)
    BY Zenon, <2>1, <2>4 DEF StartStream, Streams
  <2>5. CASE DecodeJSON(r)
    BY Zenon, <2>1, <2>5 DEF DecodeJSON, Unary
  <2>6. CASE DecodeFrame(r)
    BY Zenon, <2>1, <2>6 DEF DecodeFrame, Unary
  <2>7. CASE Bind(r)
    <3>1. kind[r] \in Unary
      BY Zenon, <2>7 DEF Bind, ChainInv, Placed
    <3>2. QED
      BY Zenon, <2>1, <2>7, <3>1 DEF Bind
  <2>8. QED
    BY Zenon, <2>2, <2>3, <2>4, <2>5, <2>6, <2>7
<1>3. /\ UNCHANGED <<chain, req, kind, depth, loaded, active, limit, slots, leaked, spans,
                     limiters, uses, pool, buffer, content>>
      /\ DOMAIN saw' = Reqs /\ DOMAIN w' = Reqs /\ code' \in [Reqs -> Nat]
  <2> USE <1>1 DEF HTTPError, GRPCError, End, Answer, Maps, Typed
  <2>1. CASE ServeDebug(r) \/ NotFound(r) \/ Upgrade(r)
    <3>1. CASE ServeDebug(r)
      BY ZenonT(30), <3>1 DEF ServeDebug
    <3>2. CASE NotFound(r)
      BY ZenonT(30), <3>2 DEF NotFound
    <3>3. CASE Upgrade(r)
      BY ZenonT(30), <3>3 DEF Upgrade
    <3>4. QED
      BY Zenon, <2>1, <3>1, <3>2, <3>3
  <2>2. CASE StartStream(r) \/ Bind(r)
    BY ZenonT(60), <2>2 DEF StartStream, Bind
  <2>3. CASE DecodeJSON(r)
    BY Zenon, <2>3 DEF DecodeJSON
  <2>4. CASE DecodeFrame(r)
    BY <2>4 DEF DecodeFrame, CodeInvalidArgument
  <2>5. QED
    BY Zenon, <2>1, <2>2, <2>3, <2>4
<1>4. QED
  BY <1>1, <1>2, <1>3, PlainStep, Zenon

\* The streams' Recv, Send and end.
LEMMA StreamStep ==
    ASSUME ChainInv, NEW r \in Reqs,
           \/ SSERecv(r) \/ FrameRecv(r) \/ WebSocketRecv(r)
           \/ SSESend(r) \/ FrameSend(r) \/ WebSocketSend(r)
           \/ EndSSE(r) \/ EndFrames(r) \/ EndWebSocket(r)
    PROVE  Keeps(r)
<1> USE DEF Goto, Streaming, Streamed, Receives, Sends, limVars, tenantVars, bufVars
<1>1. /\ Typed /\ Maps
      /\ pc[r] \in {"handler", "streamed"} /\ kind[r] \in Streams
      /\ depth[r] = 0 /\ pc[r] # "write"
  <2>1. pc[r] \in {"handler", "streamed"} /\ kind[r] \in {"sse", "stream", "ws"}
    BY Zenon DEF SSERecv, FrameRecv, WebSocketRecv, SSESend, FrameSend, WebSocketSend,
           EndSSE, EndFrames, EndWebSocket
  <2>2. QED
    BY Zenon, <2>1 DEF ChainInv, Typed, Placed, Inside, Inward, Unary, Streams
<1>2. \E l \in {"handler", "encode", "done"} : Leads(kind[r], l) /\ pc' = [pc EXCEPT ![r] = l]
  <2>1. /\ Leads(kind[r], "done") /\ Leads(kind[r], "handler")
        /\ kind[r] = "sse" => Leads(kind[r], "encode")
    BY Zenon, <1>1 DEF Leads, Places
  <2>2. CASE SSERecv(r) \/ FrameRecv(r) \/ WebSocketRecv(r) \/ FrameSend(r) \/ WebSocketSend(r)
    <3>1. pc' = pc /\ pc[r] = "handler"
      BY Zenon, <2>2 DEF SSERecv, FrameRecv, WebSocketRecv, FrameSend, WebSocketSend
    <3>2. pc' = [pc EXCEPT ![r] = "handler"]
      BY Zenon, <1>1, <3>1 DEF Typed
    <3>3. QED
      BY Zenon, <2>1, <3>2
  <2>3. CASE SSESend(r)
    BY Zenon, <2>1, <2>3 DEF SSESend
  <2>4. CASE EndSSE(r) \/ EndFrames(r) \/ EndWebSocket(r)
    BY Zenon, <2>1, <2>4 DEF EndSSE, EndFrames, EndWebSocket, End
  <2>5. QED
    BY Zenon, <2>2, <2>3, <2>4
<1>3. /\ UNCHANGED <<chain, req, kind, depth, loaded, active, limit, slots, leaked, spans,
                     limiters, uses, pool, buffer, content>>
      /\ DOMAIN saw' = Reqs /\ DOMAIN w' = Reqs /\ code' \in [Reqs -> Nat]
  <2> USE <1>1 DEF End, Answer, Maps, Typed
  <2>1. CASE SSERecv(r) \/ FrameRecv(r) \/ WebSocketRecv(r)
    BY Zenon, <2>1 DEF SSERecv, FrameRecv, WebSocketRecv
  <2>2. CASE SSESend(r) \/ FrameSend(r) \/ WebSocketSend(r)
    BY Zenon, <2>2 DEF SSESend, FrameSend, WebSocketSend
  <2>3. CASE EndSSE(r) \/ EndFrames(r) \/ EndWebSocket(r)
    BY Zenon, <2>3 DEF EndSSE, EndFrames, EndWebSocket
  <2>4. QED
    BY Zenon, <2>1, <2>2, <2>3
<1>4. QED
  BY <1>1, <1>2, <1>3, PlainStep, Zenon

\* The answer of a unary call; the buffer is held while it is written.
LEMMA AnswerStep ==
    ASSUME ChainInv, NEW r \in Reqs, Reply(r) \/ Encode(r) \/ WriteOut(r)
    PROVE  Keeps(r)
<1> USE DEF Goto, Answering, limVars, tenantVars, bufVars
<1>1. /\ Typed /\ Maps /\ OneLimiter(r)
      /\ pc[r] \in {"leave", "encode", "write"} /\ depth[r] = 0
      /\ kind[r] \in Unary \cup {"sse"} /\ (pc[r] = "leave" => kind[r] \in Unary)
  <2>1. pc[r] \in {"leave", "encode", "write"} /\ (pc[r] = "leave" => depth[r] = 0)
    BY Zenon DEF Reply, Encode, WriteOut
  <2>2. QED
    BY Zenon, <2>1 DEF ChainInv, Typed, Placed, Inside, Inward
<1>2. /\ Leads(kind[r], "done") /\ Leads(kind[r], "encode") /\ Leads(kind[r], "write")
      /\ kind[r] = "sse" => Leads(kind[r], "handler")
  BY Zenon, <1>1 DEF Leads, Places, Streams
<1>3. CASE Reply(r)
  <2>1. \E l \in {"done", "encode"} : pc' = [pc EXCEPT ![r] = l]
    BY Zenon, <1>3 DEF Reply, Fail, HTTPError, GRPCError, End
  <2>2. /\ DOMAIN saw' = Reqs /\ DOMAIN w' = Reqs /\ code' \in [Reqs -> Nat]
        /\ pc[r] # "write"
    <3>1. DOMAIN saw' = Reqs /\ DOMAIN w' = Reqs /\ pc[r] # "write"
      BY Zenon, <1>1, <1>3 DEF Reply, Fail, HTTPError, GRPCError, End, Answer, Maps
    <3>2. code' = code \/ code' = [code EXCEPT ![r] = IF @ = CodeOK THEN CodeInternal ELSE @]
      BY Zenon, <1>3 DEF Reply, Fail
    <3>3. QED
      BY <1>1, <3>1, <3>2 DEF Typed, CodeInternal
  <2>3. UNCHANGED <<chain, req, kind, depth, loaded, active, limit, slots, leaked, spans,
                    limiters, uses, pool, buffer, content>>
    BY Zenon, <1>3 DEF Reply
  <2>4. QED
    BY <1>1, <1>2, <2>1, <2>2, <2>3, PlainStep, Zenon
<1>4. CASE Encode(r)
  <2>1. PICK b \in pool : /\ buffer' = [buffer EXCEPT ![r] = b]
                          /\ DOMAIN content' = Reqs
                          /\ pool' = pool \ {b}
    BY Zenon, <1>1, <1>4 DEF Encode, Maps
  <2>2. /\ buffer' \in [Reqs -> Reqs \cup {None}] /\ pool' \in SUBSET Reqs
        /\ \A q \in Reqs \ {r} : buffer'[q] = buffer[q]
        /\ buffer'[r] # None
    BY Zenon, <1>1, <2>1, PipelineAssumption DEF Typed
  <2>3. /\ pc' = [pc EXCEPT ![r] = "write"]
        /\ UNCHANGED <<chain, req, kind, depth, saw, loaded, active, limit, slots, leaked, spans,
                       limiters, uses, code, w>>
    BY Zenon, <1>4 DEF Encode
  <2>4. OneLimiter(r)'
    BY Zenon, <1>1, <2>3 DEF OneLimiter, Typed
  <2>5. Maps' /\ kind' \in [Reqs -> Kinds] /\ code' \in [Reqs -> Nat]
    BY Zenon, <1>1, <2>1, <2>3 DEF Maps, Typed
  <2>6. QED
    BY Zenon, <1>1, <1>2, <2>2, <2>3, <2>4, <2>5, OuterStep
<1>5. CASE WriteOut(r)
  <2>1. /\ buffer' = [buffer EXCEPT ![r] = None] /\ pool' = pool \cup {buffer[r]}
        /\ DOMAIN content' = Reqs /\ DOMAIN w' = Reqs
    BY Zenon, <1>1, <1>5 DEF WriteOut, Maps, End, Answer
  <2>2. /\ buffer' \in [Reqs -> Reqs \cup {None}] /\ pool' \in SUBSET Reqs
        /\ \A q \in Reqs \ {r} : buffer'[q] = buffer[q]
        /\ buffer'[r] = None
    <3>1. buffer[r] \in Reqs
      BY SMTT(30), <1>1, <1>5 DEF ChainInv, Holding, Typed, WriteOut
    <3>2. QED
      BY Zenon, <1>1, <2>1, <3>1 DEF Typed
  <2>3. \E l \in {"handler", "done"} : Leads(kind[r], l) /\ pc' = [pc EXCEPT ![r] = l]
    BY Zenon, <1>2, <1>5 DEF WriteOut, End
  <2>4. UNCHANGED <<chain, req, kind, depth, saw, loaded, active, limit, slots, leaked, spans,
                    limiters, uses, code>>
    BY Zenon, <1>5 DEF WriteOut
  <2>5. OneLimiter(r)'
    BY Zenon, <1>1, <2>3, <2>4 DEF OneLimiter, Typed
  <2>6. Maps' /\ kind' \in [Reqs -> Kinds] /\ code' \in [Reqs -> Nat]
    BY Zenon, <1>1, <2>1, <2>4 DEF Maps, Typed
  <2>7. QED
    BY Zenon, <1>1, <2>2, <2>3, <2>4, <2>5, <2>6, OuterStep
<1>6. QED
  BY Zenon, <1>3, <1>4, <1>5

-----------------------------------------------------------------------------
(* The chain of interceptors *)

\* A step of r inside of its chain, to place l at depth d.
LEMMA InnerStep ==
    ASSUME ChainInv, NEW r \in Reqs, Chained(r),
           NEW l \in Places \ {"idle", "tenant", "create", "write"}, NEW d \in Nat,
           pc[r] # "write", pc' = [pc EXCEPT ![r] = l], depth' = [depth EXCEPT ![r] = d],
           code' \in [Reqs -> Nat], loaded' \in [Reqs -> Int],
           slots' \in SUBSET Reqs, spans' \in SUBSET Reqs, leaked' \in Nat, limit' \in 0..MaxLimit,
           active' \in Int, Counted',
           \A q \in Reqs \ {r} : /\ loaded'[q] = loaded[q]
                                 /\ (q \in slots' <=> q \in slots)
                                 /\ (q \in spans' <=> q \in spans),
           Placed(r)', Passed(r)',
           r \in slots' <=> l \in Inside /\ \E i \in 1..d : chain[i] = "adaptive",
           r \in spans' => l \in Inside \cup {"updateLimit"} /\ \E i \in 1..d : chain[i] = "telemetry",
           l = "swap" => loaded'[r] < MaxLimit
    PROVE  Keeps(r)
<1>1. UNCHANGED <<chain, req, kind, saw, w, limiters, uses, pool, buffer, content>>
  BY Zenon DEF Chained, tenantVars, bufVars
<1>2. Typed /\ Maps /\ OneLimiter(r) /\ buffer[r] = None
  BY Zenon DEF ChainInv, Typed, Holding
<1>3. Typed'
  BY Zenon, <1>1, <1>2 DEF Typed, Maps
<1>4. pc'[r] = l /\ depth'[r] = d
  BY Zenon, <1>2 DEF Typed
<1>5. Alone(r)
  BY Zenon, <1>1, <1>2 DEF Alone, Typed
<1>6. Holding(r)'
  BY Zenon, <1>1, <1>2, <1>4 DEF Holding
<1>7. OneLimiter(r)'
  BY Zenon, <1>1, <1>2, <1>4 DEF OneLimiter
<1>8. QED
  BY Zenon, <1>3, <1>5, <1>6, <1>7 DEF Keeps, Own

\* Into an interceptor that lets the call pass, and takes a slot if it is the
\* adaptive limiter.
LEMMA DownStep ==
    ASSUME ChainInv, NEW r \in Reqs, Chained(r), Down(r), pc[r] \in {"enter", "swap"},
           depth[r] < Len(chain), NEW i, i = chain[depth[r] + 1],
           i = "jwt" => JWTVerdict(req[r]) = CodeOK,
           i = "apikey" => APIKeyVerdict(req[r]) = CodeOK,
           slots' = IF i = "adaptive" THEN slots \cup {r} ELSE slots,
           spans' \in {spans, spans \cup {r}}, spans' # spans => i = "telemetry",
           UNCHANGED <<loaded, limit, leaked>>, active' \in Int, Counted'
    PROVE  Keeps(r)
<1> DEFINE d == depth[r] + 1
<1>1. /\ Typed /\ Placed(r) /\ Holding(r) /\ Passed(r)
      /\ d \in Nat /\ d \in 1..Len(chain) /\ Len(chain) \in Nat /\ 1..d = 1..depth[r] \cup {d}
  <2>1. Typed /\ Placed(r) /\ Holding(r) /\ Passed(r)
    BY Zenon DEF ChainInv
  <2>2. depth[r] \in Nat /\ Len(chain) \in Nat
    BY <2>1 DEF Typed
  <2>3. QED
    BY <2>1, <2>2
<1>2. /\ pc' = [pc EXCEPT ![r] = "enter"] /\ depth' = [depth EXCEPT ![r] = d] /\ code' = code
      /\ pc'[r] = "enter" /\ depth'[r] = d
  BY Zenon, <1>1 DEF Down, Goto, Typed
<1>3. chain' = chain /\ kind' = kind /\ req' = req
  BY Zenon DEF Chained
<1> HIDE DEF d
<1>4. Placed(r)'
  <2>1. kind[r] \in Unary
    BY Zenon, <1>1 DEF Placed
  <2>2. QED
    BY SMTT(30), <1>1, <1>2, <1>3, <2>1 DEF Placed, Inside, Inward
<1>5. Passed(r)'
  <2>1. pc[r] \in Inward /\ chain[d] = i
    BY Zenon DEF Inward, d
  <2>2. \A k \in 1..d : /\ chain[k] = "jwt" => JWTVerdict(req[r]) = CodeOK
                        /\ chain[k] = "apikey" => APIKeyVerdict(req[r]) = CodeOK
    BY Zenon, <1>1, <2>1 DEF Passed
  <2>3. QED
    BY Zenon, <1>2, <1>3, <2>2 DEF Passed, JWTVerdict, BearerToken, APIKeyVerdict
<1>6. chain[d] = i /\ pc[r] \in Inside /\ "enter" \in Inside
  BY Zenon DEF Inside, Inward, d
<1>7. r \in slots' <=> "enter" \in Inside /\ \E k \in 1..d : chain[k] = "adaptive"
  BY Zenon, <1>1, <1>6 DEF Holding
<1>8. r \in spans' => /\ "enter" \in Inside \cup {"updateLimit"}
                      /\ \E k \in 1..d : chain[k] = "telemetry"
  <2>1. r \in spans => \E k \in 1..depth[r] : chain[k] = "telemetry"
    BY Zenon, <1>1 DEF Holding
  <2>2. r \in spans' => r \in spans \/ i = "telemetry"
    OBVIOUS
  <2>3. QED
    BY Zenon, <1>1, <1>6, <2>1, <2>2
<1>9. /\ slots' \in SUBSET Reqs /\ spans' \in SUBSET Reqs /\ leaked' \in Nat /\ limit' \in 0..MaxLimit
      /\ code' \in [Reqs -> Nat] /\ loaded' \in [Reqs -> Int]
      /\ "enter" \in Places \ {"idle", "tenant", "create", "write"}
      /\ \A q \in Reqs \ {r} : /\ loaded'[q] = loaded[q]
                               /\ (q \in slots' <=> q \in slots)
                               /\ (q \in spans' <=> q \in spans)
  BY Zenon, <1>1, <1>2 DEF Typed, Places
<1>10. QED
  BY Zenon, <1>1, <1>2, <1>4, <1>5, <1>7, <1>8, <1>9, InnerStep

\* A step at the same depth of the chain that takes and gives back nothing.
LEMMA LevelStep ==
    ASSUME ChainInv, NEW r \in Reqs, Chained(r), pc[r] \in Inside,
           NEW l \in Inside, pc' = [pc EXCEPT ![r] = l],
           code' \in [Reqs -> Nat], loaded' \in [Reqs -> Int],
           \A q \in Reqs \ {r} : loaded'[q] = loaded[q],
           UNCHANGED <<depth, spans, active, limit, slots, leaked>>,
           Placed(r)', l \in Inward => pc[r] \in Inward,
           l = "swap" => loaded'[r] < MaxLimit
    PROVE  Keeps(r)
<1> DEFINE d == depth[r]
<1>1. Typed /\ Holding(r) /\ Passed(r) /\ d \in Nat
  BY Zenon DEF ChainInv, Typed
<1>2. /\ depth' = [depth EXCEPT ![r] = d] /\ pc[r] # "write"
      /\ l \in Places \ {"idle", "tenant", "create", "write"}
  BY Zenon, <1>1 DEF Typed, Inside, Inward, Places
<1>3. Passed(r)'
  <2>1. chain' = chain /\ req' = req /\ pc'[r] = l
    BY Zenon, <1>1 DEF Chained, Typed
  <2>2. QED
    BY Zenon, <1>1, <2>1 DEF Passed, JWTVerdict, BearerToken, APIKeyVerdict
<1>4. /\ r \in slots' <=> l \in Inside /\ \E i \in 1..d : chain[i] = "adaptive"
      /\ r \in spans' => l \in Inside \cup {"updateLimit"} /\ \E i \in 1..d : chain[i] = "telemetry"
  BY Zenon, <1>1 DEF Holding
<1>5. /\ slots' \in SUBSET Reqs /\ spans' \in SUBSET Reqs /\ leaked' \in Nat /\ limit' \in 0..MaxLimit
      /\ active' \in Int /\ Counted'
  BY Zenon, <1>1 DEF ChainInv, Typed, Counted
<1> HIDE DEF d
<1>6. QED
  BY Zenon, <1>1, <1>2, <1>3, <1>4, <1>5, InnerStep

\* The verdicts of the authentication interceptors are codes.
LEMMA Verdicts == \A h : JWTVerdict(h) \in Nat /\ APIKeyVerdict(h) \in Nat
<1>1. \A h : JWTVerdict(h) \in Nat
  BY Zenon DEF JWTVerdict, CodeUnauthenticated, CodePermissionDenied, CodeOK
<1>2. \A h : APIKeyVerdict(h) \in Nat
  BY Zenon DEF APIKeyVerdict, CodeUnauthenticated, CodeOK
<1>3. QED
  BY Zenon, <1>1, <1>2

\* An interceptor that refuses.
LEMMA RefuseStep ==
    ASSUME ChainInv, NEW r \in Reqs, Chained(r), pc[r] \in {"enter", "loadLimit"},
           NEW c \in Nat, Refuse(r, c), UNCHANGED <<spans, limVars>>
    PROVE  Keeps(r)
<1> USE DEF limVars
<1>1. Typed /\ Placed(r)
  BY Zenon DEF ChainInv
<1>2. pc' = [pc EXCEPT ![r] = "leave"] /\ pc'[r] = "leave" /\ depth' = depth /\ code' \in [Reqs -> Nat]
  BY Zenon, <1>1 DEF Refuse, Goto, Typed
<1>3. chain' = chain /\ kind' = kind
  BY Zenon DEF Chained
<1>4. Placed(r)'
  BY Zenon, <1>1, <1>2, <1>3 DEF Placed, Inside, Inward
<1>5. "leave" \in Inside /\ "leave" \notin Inward /\ pc[r] \in Inside /\ loaded' \in [Reqs -> Int]
  BY Zenon, <1>1 DEF Inside, Inward, Typed
<1>6. QED
  BY Zenon, <1>2, <1>4, <1>5, LevelStep

\* What comes next at a place inside the chain.
LEMMA NextInterceptor ==
    ASSUME ChainInv, NEW r \in Reqs, pc[r] = "enter"
    PROVE  /\ kind[r] \in Unary /\ depth[r] <= Len(chain) /\ depth[r] \in Nat /\ Len(chain) \in Nat
           /\ Interceptor(r) = "handler" => depth[r] = Len(chain)
           /\ Interceptor(r) # "handler" => depth[r] < Len(chain) /\ chain[depth[r] + 1] = Interceptor(r)
<1>1. /\ kind[r] \in Unary /\ depth[r] <= Len(chain) /\ depth[r] \in Nat /\ Len(chain) \in Nat
      /\ chain \in Seq(Interceptors)
  BY DEF ChainInv, Typed, Placed
<1>2. depth[r] < Len(chain) => chain[depth[r] + 1] \in Interceptors
  BY <1>1
<1>3. QED
  BY <1>1, <1>2 DEF Interceptor, Interceptors

\* The way in, but for the adaptive limiter.
LEMMA EnterStep ==
    ASSUME ChainInv, NEW r \in Reqs,
           CallHandler(r) \/ EnterObserver(r) \/ EnterTelemetry(r) \/ EnterAuth(r) \/ EnterRedisLimit(r)
    PROVE  Keeps(r)
<1> USE DEF limVars
<1>1. Chained(r) /\ pc[r] = "enter" /\ pc[r] \in Inside /\ pc[r] \in Inward /\ Typed
  BY Zenon DEF CallHandler, EnterObserver, EnterTelemetry, EnterAuth, EnterRedisLimit, Inside, Inward, ChainInv
<1>2. UNCHANGED limVars
  BY Zenon DEF CallHandler, EnterObserver, EnterTelemetry, EnterAuth, EnterRedisLimit
<1>3. active' \in Int /\ Counted'
  BY Zenon, <1>2 DEF ChainInv, Typed, Counted
<1>4. CASE CallHandler(r)
  <2>1. pc' = [pc EXCEPT ![r] = "handler"] /\ UNCHANGED <<depth, code, spans>> /\ pc'[r] = "handler"
    BY Zenon, <1>1, <1>4 DEF CallHandler, Goto, Typed
  <2>2. chain' = chain /\ kind' = kind
    BY Zenon, <1>1 DEF Chained
  <2>3. Placed(r)'
    BY Zenon, <1>1, <1>4, <2>1, <2>2, NextInterceptor DEF Placed, Inside, Inward, CallHandler
  <2>4. "handler" \in Inside /\ code' \in [Reqs -> Nat] /\ loaded' \in [Reqs -> Int]
    BY Zenon, <1>1, <1>2, <2>1 DEF Inside, Inward, Typed
  <2>5. QED
    BY Zenon, <1>1, <1>2, <2>1, <2>3, <2>4, LevelStep
<1>5. ASSUME Down(r), NEW i, i = Interceptor(r), i \notin {"handler", "adaptive"},
             i = "jwt" => JWTVerdict(req[r]) = CodeOK,
             i = "apikey" => APIKeyVerdict(req[r]) = CodeOK,
             spans' \in {spans, spans \cup {r}}, spans' # spans => i = "telemetry"
      PROVE  Keeps(r)
  BY Zenon, <1>1, <1>2, <1>3, <1>5, NextInterceptor, DownStep
<1>6. CASE EnterObserver(r) \/ EnterTelemetry(r)
  <2>1. Down(r) /\ Interceptor(r) \in {"metrics", "logging", "telemetry"}
    BY Zenon, <1>6 DEF EnterObserver, EnterTelemetry
  <2>2. spans' \in {spans, spans \cup {r}} /\ (spans' # spans => Interceptor(r) = "telemetry")
    BY Zenon, <1>6 DEF EnterObserver, EnterTelemetry
  <2>3. QED
    BY Zenon, <1>5, <2>1, <2>2
<1>7. CASE EnterAuth(r)
  <2> DEFINE c == IF Interceptor(r) = "jwt" THEN JWTVerdict(req[r]) ELSE APIKeyVerdict(req[r])
  <2>1. IF c = CodeOK THEN Down(r) ELSE Refuse(r, c)
    BY Zenon, <1>7 DEF EnterAuth
  <2>2. c \in Nat /\ Interceptor(r) \in {"jwt", "apikey"} /\ spans' = spans
    BY Zenon, <1>7, Verdicts DEF EnterAuth
  <2>3. CASE c = CodeOK
    BY Zenon, <1>5, <2>1, <2>2, <2>3
  <2> HIDE DEF c
  <2>4. CASE c # CodeOK
    BY Zenon, <1>1, <1>2, <2>1, <2>2, <2>4, RefuseStep
  <2>5. QED
    BY Zenon, <2>3, <2>4
<1>8. CASE EnterRedisLimit(r)
  <2>1. spans' = spans /\ Interceptor(r) = "redis" /\ CodeUnavailable \in Nat
    BY Zenon, <1>8 DEF EnterRedisLimit, CodeUnavailable
  <2>2. CASE Down(r)
    BY Zenon, <1>5, <2>1, <2>2
  <2>3. CASE Refuse(r, CodeUnavailable)
    BY Zenon, <1>1, <1>2, <2>1, <2>3, RefuseStep
  <2>4. QED
    BY Zenon, <1>8, <2>2, <2>3 DEF EnterRedisLimit
<1>9. QED
  BY Zenon, <1>4, <1>6, <1>7, <1>8

\* Acquire: the swap adds one only if the count is the one that was found below
\* the limit, which never exceeds maxLimit.
LEMMA AcquireStep ==
    ASSUME ChainInv, NEW r \in Reqs, LoadActive(r) \/ LoadLimit(r) \/ Swap(r)
    PROVE  Keeps(r)
<1> USE DEF limVars
<1>1. /\ Chained(r) /\ pc[r] \in {"enter", "loadLimit", "swap"} /\ Typed /\ Placed(r) /\ Holding(r)
      /\ pc[r] \in Inside /\ pc[r] \in Inward /\ chain' = chain /\ kind' = kind
      /\ {"enter", "loadLimit", "swap"} \subseteq Inside
  BY Zenon DEF LoadActive, LoadLimit, Swap, Inside, Inward, ChainInv, Chained
<1>2. /\ depth[r] < Len(chain) /\ chain[depth[r] + 1] = "adaptive"
      /\ depth[r] \in Nat /\ Len(chain) \in Nat /\ kind[r] \in Unary
  <2>1. CASE LoadActive(r)
    BY Zenon, <2>1, NextInterceptor DEF LoadActive
  <2>2. CASE LoadLimit(r) \/ Swap(r)
    BY <1>1, <2>2 DEF LoadLimit, Swap, Placed, Typed
  <2>3. QED
    BY Zenon, <2>1, <2>2
<1>3. ASSUME NEW l \in {"enter", "loadLimit", "swap"}, pc' = [pc EXCEPT ![r] = l],
             UNCHANGED <<depth, code, spans, active, limit, slots, leaked>>,
             loaded' \in [Reqs -> Int], \A q \in Reqs \ {r} : loaded'[q] = loaded[q],
             l = "swap" => loaded'[r] < MaxLimit
      PROVE  Keeps(r)
  <2>1. pc'[r] = l /\ code' \in [Reqs -> Nat]
    BY Zenon, <1>1, <1>3 DEF Typed
  <2>2. Placed(r)'
    BY Zenon, <1>1, <1>2, <1>3, <2>1 DEF Placed, Inside, Inward
  <2>3. QED
    BY Zenon, <1>1, <1>3, <2>1, <2>2, LevelStep
<1>4. CASE LoadActive(r)
  <2>1. loaded' \in [Reqs -> Int] /\ \A q \in Reqs \ {r} : loaded'[q] = loaded[q]
    BY Zenon, <1>1, <1>4 DEF LoadActive, Typed
  <2>2. QED
    BY Zenon, <1>3, <1>4, <2>1 DEF LoadActive, Goto
<1>5. CASE LoadLimit(r)
  <2>1. loaded \in [Reqs -> Int] /\ limit \in 0..MaxLimit /\ loaded' = loaded /\ MaxLimit \in Nat
    BY Zenon, <1>1, <1>5, PipelineAssumption DEF LoadLimit, Typed
  <2>2. CASE loaded[r] >= limit
    <3>1. Refuse(r, CodeResourceExhausted) /\ CodeResourceExhausted \in Nat
      BY Zenon, <1>5, <2>2 DEF LoadLimit, CodeResourceExhausted
    <3>2. UNCHANGED <<spans, limVars>>
      BY Zenon, <1>5 DEF LoadLimit
    <3>3. QED
      BY Zenon, <1>1, <1>5, <3>1, <3>2, RefuseStep DEF LoadLimit
  <2>3. CASE ~(loaded[r] >= limit)
    <3>1. loaded[r] < MaxLimit
      BY <2>1, <2>3
    <3>2. QED
      BY Zenon, <1>3, <1>5, <2>1, <2>3, <3>1 DEF LoadLimit, Goto
  <2>4. QED
    BY Zenon, <2>2, <2>3
<1>6. CASE Swap(r)
  <2>1. CASE active = loaded[r]
    <3>1. /\ active' = active + 1 /\ slots' = slots \cup {r} /\ Down(r)
          /\ UNCHANGED <<spans, limit, loaded, leaked>> /\ pc[r] = "swap"
      BY Zenon, <1>6, <2>1 DEF Swap
    <3>2. r \notin slots
      <4>1. \A i \in 1..depth[r] : chain[i] # "adaptive"
        BY <1>1, <1>2 DEF Typed, OneAdaptive
      <4>2. QED
        BY Zenon, <1>1, <4>1 DEF Holding
    <3>3. Cardinality(slots') = Cardinality(slots) + 1
      <4>1. IsFiniteSet(slots)
        BY Zenon, <1>1, PipelineAssumption, FS_Subset DEF Typed
      <4>2. QED
        BY Zenon, <3>1, <3>2, <4>1, FS_AddElement
    <3>4. active' \in Int /\ Counted'
      <4>1. IsFiniteSet(slots)
        BY Zenon, <1>1, PipelineAssumption, FS_Subset DEF Typed
      <4>2. Cardinality(slots) \in Nat /\ active \in Int /\ leaked \in Nat /\ MaxLimit \in Nat
        BY Zenon, <1>1, <4>1, PipelineAssumption, FS_CardinalityType DEF Typed
      <4>3. active = Cardinality(slots) + leaked /\ active < MaxLimit
        BY Zenon, <1>1, <2>1, <3>1 DEF ChainInv, Counted, Holding
      <4>4. QED
        BY <3>1, <3>3, <4>2, <4>3 DEF Counted
    <3>5. QED
      BY Zenon, <1>1, <1>2, <3>1, <3>4, DownStep
  <2>2. CASE active # loaded[r]
    <3>1. pc' = [pc EXCEPT ![r] = "enter"]
      BY Zenon, <1>6, <2>2 DEF Swap, Goto
    <3>2. /\ UNCHANGED <<depth, code, spans, active, limit, slots, leaked>>
          /\ loaded' \in [Reqs -> Int] /\ loaded' = loaded
      BY Zenon, <1>1, <1>6, <2>2 DEF Swap, Typed
    <3>3. QED
      BY Zenon, <1>3, <3>1, <3>2
  <2>3. QED
    BY Zenon, <2>1, <2>2
<1>7. QED
  BY Zenon, <1>4, <1>5, <1>6

\* The handler ends, or panics: then its slot is leaked.
LEMMA HandlerStep ==
    ASSUME ChainInv, NEW r \in Reqs, Handler(r) \/ Panic(r)
    PROVE  Keeps(r)
<1> USE DEF limVars
<1>1. /\ Chained(r) /\ pc[r] = "handler" /\ Typed /\ Placed(r) /\ Holding(r) /\ depth' = depth
      /\ chain' = chain /\ kind' = kind /\ depth[r] \in Nat /\ Len(chain) \in Nat
  BY DEF Handler, Panic, ChainInv, Typed, Chained
<1>2. depth' = [depth EXCEPT ![r] = depth[r]] /\ depth'[r] = depth[r]
  BY Zenon, <1>1 DEF Typed
<1>3. CASE Handler(r)
  <2>1. PICK l \in {"streamed", "leave"} :
           /\ pc' = [pc EXCEPT ![r] = l]
           /\ l = "streamed" <=> kind[r] \in Streams
    BY Zenon, <1>3 DEF Handler, Goto, Streams
  <2>2. code' \in [Reqs -> Nat] /\ UNCHANGED <<spans, limVars>>
    BY <1>1, <1>3 DEF Handler, Typed, CodeOK, CodeNotFound
  <2>3. pc'[r] = l
    BY Zenon, <1>1, <2>1 DEF Typed
  <2>4. depth[r] <= Len(chain) /\ (l = "leave" => kind[r] \in Unary)
        /\ (l = "streamed" => depth[r] = 0 /\ kind[r] \in Streams)
    BY <1>1, <2>1 DEF Placed, Unary, Streams
  <2>5. Placed(r)'
    BY Zenon, <1>1, <2>2, <2>3, <2>4 DEF Placed, Inside, Inward
  <2>6. Passed(r)'
    BY Zenon, <2>3 DEF Passed, Inward
  <2>7. /\ r \in slots' <=> l \in Inside /\ \E i \in 1..depth[r] : chain[i] = "adaptive"
        /\ r \in spans' => /\ l \in Inside \cup {"updateLimit"}
                           /\ \E i \in 1..depth[r] : chain[i] = "telemetry"
    <3>1. pc[r] \in Inside /\ "leave" \in Inside /\ "streamed" \notin Inside
      BY Zenon, <1>1 DEF Inside, Inward
    <3>2. QED
      BY <1>1, <2>2, <2>4, <3>1 DEF Holding
  <2>8. /\ slots' \in SUBSET Reqs /\ spans' \in SUBSET Reqs /\ leaked' \in Nat /\ limit' \in 0..MaxLimit
        /\ active' \in Int /\ Counted' /\ loaded' \in [Reqs -> Int]
    BY Zenon, <1>1, <2>2 DEF ChainInv, Typed, Counted
  <2>9. l \in Places \ {"idle", "tenant", "create", "write"}
    BY Zenon DEF Places
  <2>10. QED
    BY Zenon, <1>1, <1>2, <2>1, <2>2, <2>5, <2>6, <2>7, <2>8, <2>9, InnerStep
<1>4. CASE Panic(r)
  <2>1. /\ pc' = [pc EXCEPT ![r] = "panicked"] /\ spans' = spans \ {r} /\ slots' = slots \ {r}
        /\ leaked' = leaked + Cardinality(slots \cap {r})
        /\ UNCHANGED <<depth, code, active, limit, loaded>>
    BY Zenon, <1>4 DEF Panic, Goto
  <2>2. /\ Cardinality(slots) = Cardinality(slots') + Cardinality(slots \cap {r})
        /\ Cardinality(slots') \in Nat /\ Cardinality(slots \cap {r}) \in Nat
    <3>1. IsFiniteSet(slots) /\ IsFiniteSet(slots')
      BY Zenon, <1>1, <2>1, PipelineAssumption, FS_Subset DEF Typed
    <3>2. Cardinality(slots) \in Nat /\ Cardinality(slots') \in Nat
      BY Zenon, <3>1, FS_CardinalityType
    <3>3. CASE r \in slots
      <4>1. slots \cap {r} = {r} /\ Cardinality({r}) = 1
        BY Zenon, <3>3, FS_Singleton
      <4>2. Cardinality(slots') = Cardinality(slots) - 1
        BY Zenon, <2>1, <3>1, <3>3, FS_RemoveElement
      <4>3. QED
        BY <3>2, <4>1, <4>2
    <3>4. CASE r \notin slots
      <4>1. slots \cap {r} = {} /\ Cardinality({}) = 0 /\ slots' = slots
        BY Zenon, <2>1, <3>4, FS_EmptySet
      <4>2. QED
        BY <3>2, <4>1
    <3>5. QED
      BY Zenon, <3>3, <3>4
  <2>3. /\ Counted' /\ active' \in Int /\ leaked' \in Nat /\ slots' \in SUBSET Reqs /\ spans' \in SUBSET Reqs
        /\ code' \in [Reqs -> Nat] /\ loaded' \in [Reqs -> Int] /\ limit' \in 0..MaxLimit
    <3>1. Counted /\ Cardinality(slots) \in Nat /\ leaked \in Nat
      BY <1>1, <2>2 DEF ChainInv, Typed
    <3>2. Counted'
      BY <2>1, <2>2, <3>1 DEF Counted
    <3>3. QED
      BY <1>1, <2>1, <2>2, <3>2 DEF Typed
  <2>4. pc'[r] = "panicked"
    BY Zenon, <1>1, <2>1 DEF Typed
  <2>5. Placed(r)' /\ Passed(r)'
    BY Zenon, <2>4 DEF Placed, Passed, Inside, Inward
  <2>6. "panicked" \in Places \ {"idle", "tenant", "create", "write"} /\ "panicked" \notin Inside
    BY Zenon DEF Places, Inside, Inward
  <2>7. QED
    BY Zenon, <1>1, <1>2, <2>1, <2>3, <2>5, <2>6, InnerStep
<1>5. QED
  BY Zenon, <1>3, <1>4

\* Out of the interceptor at the innermost level, which holds nothing any more.
LEMMA UpStep ==
    ASSUME ChainInv, NEW r \in Reqs, Chained(r), Up(r), pc[r] \in {"leave", "updateLimit"},
           depth[r] > 0, NEW i, i = chain[depth[r]],
           pc[r] = "leave" <=> i # "adaptive",
           UNCHANGED <<loaded, active, slots, leaked>>, limit' \in 0..MaxLimit,
           spans' = IF i = "telemetry" THEN spans \ {r} ELSE spans
    PROVE  Keeps(r)
<1> DEFINE d == depth[r] - 1
<1>1. /\ Typed /\ Placed(r) /\ Holding(r) /\ depth[r] \in Nat /\ Len(chain) \in Nat
      /\ chain' = chain /\ kind' = kind
  <2>1. Typed /\ Placed(r) /\ Holding(r)
    BY Zenon DEF ChainInv
  <2>2. depth[r] \in Nat /\ Len(chain) \in Nat
    BY <2>1 DEF Typed
  <2>3. QED
    BY Zenon, <2>1, <2>2 DEF Chained
<1>2. depth[r] <= Len(chain) /\ kind[r] \in Unary
  BY Zenon, <1>1 DEF Placed
<1>3. d \in Nat /\ d <= Len(chain) /\ 1..depth[r] = 1..d \cup {depth[r]}
  BY <1>1, <1>2
<1>4. /\ pc' = [pc EXCEPT ![r] = "leave"] /\ depth' = [depth EXCEPT ![r] = d] /\ code' = code
      /\ pc'[r] = "leave" /\ depth'[r] = d
  BY Zenon, <1>1, <1>3 DEF Up, Goto, Typed
<1>5. r \in slots <=> \E k \in 1..d : chain[k] = "adaptive"
  <2>1. pc[r] = "leave" => pc[r] \in Inside
    BY Zenon DEF Inside
  <2>2. CASE pc[r] = "leave"
    BY Zenon, <1>1, <1>3, <2>1, <2>2 DEF Holding
  <2>3. CASE pc[r] = "updateLimit"
    <3>1. r \notin slots /\ i = "adaptive"
      BY Zenon, <1>1, <2>3 DEF Holding, Inside, Inward
    <3>2. ASSUME NEW k \in 1..d PROVE chain[k] # "adaptive"
      <4>1. k \in 1..Len(chain) /\ depth[r] \in 1..Len(chain) /\ k # depth[r]
        BY <1>1, <1>2
      <4>2. OneAdaptive(chain) /\ DOMAIN chain = 1..Len(chain)
        BY <1>1 DEF Typed
      <4>3. QED
        BY Zenon, <3>1, <4>1, <4>2 DEF OneAdaptive
    <3>3. QED
      BY Zenon, <3>1, <3>2
  <2>4. QED
    BY Zenon, <2>2, <2>3
<1>6. r \in spans' => \E k \in 1..d : chain[k] = "telemetry"
  BY Zenon, <1>1, <1>3 DEF Holding
<1> HIDE DEF d
<1>7. Placed(r)' /\ Passed(r)'
  BY Zenon, <1>1, <1>2, <1>3, <1>4 DEF Placed, Passed, Inside, Inward
<1>8. /\ code' \in [Reqs -> Nat] /\ loaded' \in [Reqs -> Int] /\ leaked' \in Nat /\ active' \in Int
      /\ slots' \in SUBSET Reqs /\ spans' \in SUBSET Reqs
      /\ "leave" \in Places \ {"idle", "tenant", "create", "write"} /\ "leave" \in Inside
  BY Zenon, <1>1, <1>4 DEF Typed, Places, Inside
<1>9. Counted'
  BY Zenon DEF ChainInv, Counted
<1>10. QED
  BY Zenon, <1>3, <1>4, <1>5, <1>6, <1>7, <1>8, <1>9, InnerStep

\* The way out.  Release gives the slot back before it moves the limit, which
\* stays within its bounds.
LEMMA LeaveStep ==
    ASSUME ChainInv, NEW r \in Reqs,
           LeaveMetrics(r) \/ LeaveTelemetry(r) \/ LeaveOther(r) \/ Release(r) \/ UpdateLimit(r)
    PROVE  Keeps(r)
<1> USE DEF limVars
<1>1. /\ Typed /\ Placed(r) /\ Holding(r) /\ Chained(r) /\ depth[r] \in Nat /\ Len(chain) \in Nat
      /\ MaxLimit \in Nat /\ MinLimit \in Nat /\ limit \in 0..MaxLimit
  BY PipelineAssumption DEF ChainInv, Typed, LeaveMetrics, LeaveTelemetry, LeaveOther, Release, UpdateLimit
<1>2. CASE LeaveMetrics(r) \/ LeaveTelemetry(r) \/ LeaveOther(r)
  <2>1. /\ pc[r] = "leave" /\ depth[r] > 0 /\ Up(r) /\ UNCHANGED limVars
        /\ chain[depth[r]] # "adaptive"
        /\ spans' = IF chain[depth[r]] = "telemetry" THEN spans \ {r} ELSE spans
    BY Zenon, <1>2 DEF LeaveMetrics, LeaveTelemetry, LeaveOther, Leaving
  <2>2. QED
    BY Zenon, <1>1, <2>1, UpStep
<1>3. CASE UpdateLimit(r)
  <2>1. pc[r] = "updateLimit" /\ Up(r) /\ UNCHANGED <<spans, loaded, active, slots, leaked>>
    BY Zenon, <1>3 DEF UpdateLimit
  <2>2. depth[r] > 0 /\ chain[depth[r]] = "adaptive"
    BY Zenon, <1>1, <2>1 DEF Placed
  <2>3. limit' \in 0..MaxLimit
    BY <1>1, <1>3 DEF UpdateLimit
  <2>4. QED
    BY Zenon, <1>1, <2>1, <2>2, <2>3, UpStep
<1>4. CASE Release(r)
  <2>1. /\ pc[r] = "leave" /\ depth[r] > 0 /\ chain[depth[r]] = "adaptive"
        /\ active' = active - 1 /\ slots' = slots \ {r} /\ pc' = [pc EXCEPT ![r] = "updateLimit"]
        /\ UNCHANGED <<depth, code, spans, limit, loaded, leaked>>
    BY Zenon, <1>4 DEF Release, Leaving, Goto
  <2>2. depth[r] \in 1..depth[r] /\ r \in slots /\ kind[r] \in Unary /\ depth[r] <= Len(chain)
    BY <1>1, <2>1 DEF Holding, Inside, Placed
  <2>3. Counted' /\ active' \in Int
    <3>1. IsFiniteSet(slots)
      BY Zenon, <1>1, PipelineAssumption, FS_Subset DEF Typed
    <3>2. Cardinality(slots') = Cardinality(slots) - 1 /\ Cardinality(slots) \in Nat
      BY Zenon, <2>1, <2>2, <3>1, FS_RemoveElement, FS_CardinalityType
    <3>3. /\ active = Cardinality(slots) + leaked /\ active <= MaxLimit
          /\ active \in Int /\ leaked \in Nat /\ MaxLimit \in Nat
      BY Zenon, <1>1 DEF ChainInv, Typed, Counted
    <3>4. active' = Cardinality(slots') + leaked' /\ active' <= MaxLimit /\ active' \in Int
      BY <2>1, <3>2, <3>3
    <3>5. QED
      BY Zenon, <3>4 DEF Counted
  <2>4. /\ pc'[r] = "updateLimit" /\ chain' = chain /\ kind' = kind
        /\ depth' = [depth EXCEPT ![r] = depth[r]]
    BY Zenon, <1>1, <2>1 DEF Typed, Chained
  <2>5. Placed(r)' /\ Passed(r)'
    BY Zenon, <1>1, <2>1, <2>2, <2>4 DEF Placed, Passed, Inside, Inward
  <2>6. /\ r \notin slots'
        /\ r \in spans' => \E k \in 1..depth[r] : chain[k] = "telemetry"
    BY Zenon, <1>1, <2>1 DEF Holding
  <2>7. /\ code' \in [Reqs -> Nat] /\ loaded' \in [Reqs -> Int] /\ leaked' \in Nat
        /\ slots' \in SUBSET Reqs /\ spans' \in SUBSET Reqs /\ limit' \in 0..MaxLimit
        /\ "updateLimit" \in Places \ {"idle", "tenant", "create", "write"} /\ "updateLimit" \notin Inside
    BY Zenon, <1>1, <2>1 DEF Typed, Places, Inside, Inward
  <2>8. QED
    BY Zenon, <1>1, <2>1, <2>3, <2>4, <2>5, <2>6, <2>7, InnerStep
<1>5. QED
  BY Zenon, <1>2, <1>3, <1>4

-----------------------------------------------------------------------------
LEMMA ChainInvInit == Init => ChainInv
<1> SUFFICES ASSUME Init PROVE ChainInv
  OBVIOUS
<1>1. Typed
  <2>1. /\ Maps /\ pc \in [Reqs -> Places] /\ kind \in [Reqs -> Kinds]
        /\ buffer \in [Reqs -> Reqs \cup {None}]
    BY Zenon DEF Init, Maps, Places, Kinds, Buffers
  <2>2. /\ depth \in [Reqs -> Nat] /\ code \in [Reqs -> Nat] /\ loaded \in [Reqs -> Int]
        /\ slots \in SUBSET Reqs /\ spans \in SUBSET Reqs /\ pool \in SUBSET Reqs
        /\ active \in Int /\ leaked \in Nat
    BY DEF Init, Buffers
  <2>3. chain \in Seq(Interceptors) /\ OneAdaptive(chain) /\ limit \in 0..MaxLimit
    BY Zenon, PipelineAssumption DEF Init
  <2>4. QED
    BY Zenon, <2>1, <2>2, <2>3 DEF Typed
<1>2. Counted
  BY PipelineAssumption, FS_EmptySet DEF Init, Counted
<1>3. ASSUME NEW r \in Reqs PROVE Placed(r) /\ Holding(r) /\ Passed(r) /\ OneLimiter(r)
  BY Zenon, <1>3 DEF Init, Placed, Holding, Passed, OneLimiter, Inside, Inward
<1>4. QED
  BY Zenon, <1>1, <1>2, <1>3 DEF ChainInv

LEMMA ChainInvStep == ChainInv /\ [Next]_vars => ChainInv'
<1> SUFFICES ASSUME ChainInv, [Next]_vars PROVE ChainInv'
  OBVIOUS
<1>1. ASSUME NEW r \in Reqs, Arrive(r) \/ Step(r) PROVE ChainInv'
  <2>1. Keeps(r)
    BY Zenon, <1>1, MiddlewareStep, RoutingStep, StreamStep, AnswerStep, EnterStep, AcquireStep, HandlerStep,
       LeaveStep DEF Step
  <2>2. QED
    BY Zenon, <2>1, KeepsAll
<1>2. CASE UNCHANGED vars
  <2>1. Typed' /\ Counted'
    BY Zenon, <1>2 DEF ChainInv, Typed, Counted, Maps, vars, limVars, bufVars, tenantVars
  <2>2. \A r \in Reqs : Own(r)'
    BY <1>2 DEF ChainInv, Own, Placed, Holding, Passed, OneLimiter, JWTVerdict, BearerToken, APIKeyVerdict,
                vars, limVars, bufVars, tenantVars
  <2>3. QED
    BY Zenon, <2>1, <2>2 DEF ChainInv, Own
<1>3. QED
  BY Zenon, <1>1, <1>2 DEF Next

LEMMA ChainInvariant == Spec => []ChainInv
BY ChainInvInit, ChainInvStep, PTL DEF Spec

\* The count of the adaptive limiter is exact and bounded by maxLimit, and a
\* request that has ended, by whatever path, holds no slot, span or buffer.
THEOREM SlotsAccounted == Spec => []SlotAccounting
<1>1. ChainInv => SlotAccounting
  <2> SUFFICES ASSUME ChainInv PROVE SlotAccounting
    OBVIOUS
  <2>1. IsFiniteSet(slots) /\ leaked \in Nat /\ active \in Int
    BY Zenon, PipelineAssumption, FS_Subset DEF ChainInv, Typed
  <2>2. Cardinality(slots) \in Nat /\ MaxLimit \in Nat
    BY Zenon, <2>1, FS_CardinalityType, PipelineAssumption
  <2>3. active = Cardinality(slots) + leaked /\ active \in 0..MaxLimit
    BY <2>1, <2>2 DEF ChainInv, Counted
  <2>4. \A r \in Reqs : Ended(r) => r \notin spans /\ r \notin slots /\ buffer[r] = None
    BY Zenon DEF ChainInv, Holding, Ended, Inside, Inward
  <2>5. QED
    BY Zenon, <2>3, <2>4 DEF SlotAccounting
<1>2. QED
  BY <1>1, ChainInvariant, PTL

\* A unary handler runs inside its whole chain, authentication passed and slot
\* held, in whatever order the application added the interceptors.
THEOREM HandlersInsideChain == Spec => []HandlerInsideChain
<1>1. ChainInv => HandlerInsideChain
  <2> SUFFICES ASSUME ChainInv, NEW r \in Reqs, pc[r] = "handler", kind[r] \in {"json", "grpc", "web"},
                      NEW i \in DOMAIN chain
               PROVE  /\ chain[i] = "jwt" => JWTVerdict(req[r]) = CodeOK
                      /\ chain[i] = "apikey" => APIKeyVerdict(req[r]) = CodeOK
                      /\ chain[i] = "adaptive" => r \in slots
    BY Zenon DEF HandlerInsideChain
  <2>1. depth[r] = Len(chain)
    BY Zenon DEF ChainInv, Placed, Unary, Streams
  <2>2. i \in 1..depth[r]
    <3>1. chain \in Seq(Interceptors)
      BY Zenon DEF ChainInv, Typed
    <3>2. QED
      BY <2>1, <3>1
  <2>3. pc[r] \in Inward /\ pc[r] \in Inside
    BY Zenon DEF Inside, Inward
  <2>4. QED
    BY Zenon, <2>3, <2>2 DEF ChainInv, Passed, Holding
<1>2. QED
  BY <1>1, ChainInvariant, PTL

\* All requests of a tenant are counted by one limiter.
THEOREM TenantsShareLimiter == Spec => []OneLimiterPerTenant
<1>1. ChainInv => OneLimiterPerTenant
  BY Zenon DEF ChainInv, OneLimiter, OneLimiterPerTenant
<1>2. QED
  BY <1>1, ChainInvariant, PTL

-----------------------------------------------------------------------------
(* The answers.  The invariant says how far the answer of a request is at   *)
(* each place of the pipeline, and what its pooled buffer holds.            *)

Before == {"idle", "tenant", "create", "bucket", "jwt", "route"}

\* A ResponseWriter, and one that nothing was done to.
Writer(x) == \E S : x \in [pending : Int, sent : Int, http : Nat, body : Seq(S)]
Untouched == [pending |-> -1, sent |-> -1, http |-> 0, body |-> <<>>]

\* What was decoded: nothing before the dec closure, then what the client sent;
\* who is refused or fails has a code.
Decoded(r) ==
    /\ pc[r] # "idle" => req[r] \in Requests[r] /\ kind[r] = Kind(req[r])
    /\ pc[r] = "bind" => Binds(req[r])
    /\ pc[r] \in Before \cup {"bind"} => saw[r] = None
    /\ pc[r] \in Before \cup {"bind"} \cup Inward => code[r] = CodeOK
    /\ saw[r] # "error"
    /\ kind[r] \in Unary /\ pc[r] \in Inside \cup {"updateLimit"} => saw[r] # None
    /\ kind[r] \in Unary /\ saw[r] # None => saw[r] \in Expected(req[r])
    /\ pc[r] \in {"encode", "write"} =>
          \/ code[r] = CodeOK /\ (kind[r] = "sse" \/ saw[r] # None)
          \/ code[r] # CodeOK /\ kind[r] = "web"

\* What was written: a unary call is answered as a whole when it ends, a stream
\* as it goes, and an event that tells of an error is its last but one.
Written(r) ==
    /\ Writer(w[r])
    /\ \A i \in DOMAIN w[r].body : w[r].body[i].owner = r
    /\ pc[r] \in Before \/ (kind[r] \in Unary /\ ~Ended(r)) => w[r] = Untouched
    /\ kind[r] = "sse" /\ pc[r] \in {"handler", "encode", "write", "streamed"} =>
          w[r].http = 200 /\ \A i \in DOMAIN w[r].body : w[r].body[i].msg # "error"

\* Between Encode and WriteOut the buffer holds the answer of its request.
Buffered(r) ==
    pc[r] = "write" =>
        /\ buffer[r] \notin pool
        /\ content[buffer[r]] = IF code[r] = CodeOK THEN Frame(r) ELSE Trailers(r)

\* The answer x of a request with no method, which called no handler.
Unserved(x) == x.http = 200 => x.sent = CodeUnimplemented /\ x.body = <<>>

\* What ClientLearnsOutcome says of one request.
Learned(r) ==
    /\ Served(r) /\ kind[r] \in {"json", "grpc", "web"} =>
          /\ ClientSeesSuccess(r) <=> (saw[r] # None /\ code[r] = CodeOK)
          /\ ClientSeesSuccess(r) => LastPart(r).msg \in Expected(req[r])
    /\ Served(r) /\ kind[r] = "sse" /\ w[r].http = 200 =>
          /\ w[r].body # <<>> /\ LastPart(r).msg = "DONE"
          /\ (code[r] # CodeOK) <=> \E i \in DOMAIN w[r].body : w[r].body[i].msg = "error"
    /\ Served(r) /\ kind[r] = "unknown" => saw[r] = None /\ Unserved(w[r])

\* No two requests hold the same buffer.
OwnBuffers ==
    \A r, q \in Reqs : r # q /\ pc[r] = "write" /\ pc[q] = "write" => buffer[r] # buffer[q]

Told(r) == Decoded(r) /\ Written(r) /\ Buffered(r) /\ Learned(r)

AnswerInv == OwnBuffers /\ \A r \in Reqs : Told(r)

\* What the operations of a ResponseWriter do.
LEMMA SetStatusDoes ==
    ASSUME NEW x, Writer(x), NEW s \in Int
    PROVE  LET y == SetStatus(x, s) IN
           Writer(y) /\ y.pending = s /\ y.sent = x.sent /\ y.http = x.http /\ y.body = x.body
BY Zenon DEF Writer, SetStatus

LEMMA WriteHeaderDoes ==
    ASSUME NEW x, Writer(x), NEW h \in Nat
    PROVE  LET y == WriteHeader(x, h) IN
           /\ Writer(y) /\ y.body = x.body
           /\ x.http # 0 => y = x
           /\ x.http = 0 => y.http = h /\ y.sent = x.pending
BY Zenon DEF Writer, WriteHeader

LEMMA AppendDoes ==
    ASSUME NEW S, NEW s \in Seq(S), NEW e
    PROVE  /\ Append(s, e) \in Seq(S \cup {e})
           /\ Len(s) \in Nat /\ Len(Append(s, e)) = Len(s) + 1
           /\ Append(s, e)[Len(s) + 1] = e
           /\ \A i \in 1..Len(s) : Append(s, e)[i] = s[i]
<1>1. s \in Seq(S \cup {e})
  OBVIOUS
<1>2. QED
  BY <1>1

LEMMA WriteDoes ==
    ASSUME NEW x, Writer(x), NEW b
    PROVE  LET y == Write(x, b)
               n == Len(x.body) + 1
           IN  /\ Writer(y) /\ y.http = IF x.http = 0 THEN 200 ELSE x.http
               /\ y.sent = IF x.http = 0 THEN x.pending ELSE x.sent
               /\ y.body # <<>> /\ y.body[Len(y.body)] = b
               /\ DOMAIN x.body = 1..(n - 1) /\ DOMAIN y.body = 1..n /\ n \in Nat /\ y.body[n] = b
               /\ \A i \in DOMAIN x.body : y.body[i] = x.body[i]
<1> DEFINE h == WriteHeader(x, 200)
           y == Write(x, b)
<1>1. /\ Writer(h) /\ h.body = x.body
      /\ h.http = IF x.http = 0 THEN 200 ELSE x.http
      /\ h.sent = IF x.http = 0 THEN x.pending ELSE x.sent
  <2>1. /\ Writer(h) /\ h.body = x.body /\ (x.http # 0 => h = x)
        /\ (x.http = 0 => h.http = 200 /\ h.sent = x.pending)
    BY WriteHeaderDoes
  <2> HIDE DEF h
  <2>2. QED
    BY Zenon, <2>1
<1>2. y = [h EXCEPT !.body = Append(h.body, b)]
  BY Zenon DEF Write
<1> HIDE DEF h
<1>3. PICK S : h \in [pending : Int, sent : Int, http : Nat, body : Seq(S)]
  BY Zenon, <1>1 DEF Writer
<1> DEFINE t == Append(x.body, b)
<1>4. /\ t \in Seq(S \cup {b}) /\ Len(x.body) \in Nat /\ Len(t) = Len(x.body) + 1
      /\ t[Len(x.body) + 1] = b /\ \A i \in 1..Len(x.body) : t[i] = x.body[i]
      /\ DOMAIN x.body = 1..Len(x.body)
  BY <1>1, <1>3, AppendDoes
<1> HIDE DEF t
<1>5. y = [h EXCEPT !.body = t]
  BY Zenon, <1>1, <1>2 DEF t
<1> HIDE DEF y
<1>6. /\ y \in [pending : Int, sent : Int, http : Nat, body : Seq(S \cup {b})]
      /\ y.body = t /\ y.http = h.http /\ y.sent = h.sent
  BY Zenon, <1>3, <1>4, <1>5
<1>7. Writer(y)
  BY Zenon, <1>6 DEF Writer
<1>8. t # <<>> /\ DOMAIN t = 1..Len(t)
  BY <1>4
<1>9. QED
  BY <1>1, <1>4, <1>6, <1>7, <1>8 DEF y

-----------------------------------------------------------------------------
(* Decoding *)

\* A unary call is in JSON exactly when the JSON branch serves it.
LEMMA Branches ==
    ASSUME NEW r \in Reqs, NEW q \in Requests[r]
    PROVE  /\ Kind(q) = "json" => IsJSON(q)
           /\ Kind(q) \in {"grpc", "web"} => ~IsJSON(q)
<1>1. Kind(q) = "json" => IsJSON(q)
  BY Zenon DEF Kind
<1>2. Kind(q) = "web" => ~IsJSON(q)
  <2>1. Kind(q) = "web" => IsGrpcWeb(q)
    BY Zenon DEF Kind
  <2>2. QED
    BY Zenon, <2>1 DEF IsGrpcWeb, IsJSON, None
<1>3. Kind(q) = "grpc" => ~IsJSON(q)
  <2>1. Known(q) => Method(q).streaming \in BOOLEAN
    BY Zenon, MessageAssumption DEF Known, Method
  <2>2. q.upgrade \in BOOLEAN
    BY Zenon, MessageAssumption
  <2>3. QED
    BY Zenon, <2>1, <2>2 DEF Kind
<1>4. QED
  BY Zenon, <1>1, <1>2, <1>3

\* What the dec closures make of a request is what its handler should see.
LEMMA ExpectedJSON ==
    ASSUME NEW r \in Reqs, NEW q \in Requests[r], Kind(q) = "json"
    PROVE  Expected(q) = IF Binds(q) THEN {Bound(q.msg, PathParams(q))} ELSE {q.msg}
BY Zenon, Branches DEF Expected

LEMMA ExpectedFrame ==
    ASSUME NEW r \in Reqs, NEW q \in Requests[r], Kind(q) \in {"grpc", "web"},
           NEW m \in DecodedFrame(q), m # "error"
    PROVE  m \in Expected(q) /\ m # None
<1>1. ~Binds(q) /\ ~IsJSON(q)
  BY Zenon, Branches DEF Binds
<1>2. q.msg # None
  BY Zenon, MessageAssumption
<1>3. \/ m \in {"garbage", q.msg} /\ q.flag = 1 /\ q.encoding # "gzip"
      \/ m = q.msg /\ ~(q.flag = 1 /\ q.encoding # "gzip")
  BY Zenon DEF DecodedFrame
<1>4. m \in Expected(q)
  BY Zenon, <1>1, <1>3 DEF Expected
<1>5. QED
  BY Zenon, <1>2, <1>3, <1>4 DEF None

-----------------------------------------------------------------------------
(* Steps, and the answers *)

\* A step of r changes nothing of another request's call, answer or buffer.
Apart(r) ==
    \A q \in Reqs \ {r} :
        /\ pc'[q] = pc[q] /\ req'[q] = req[q] /\ kind'[q] = kind[q]
        /\ code'[q] = code[q] /\ saw'[q] = saw[q] /\ w'[q] = w[q] /\ buffer'[q] = buffer[q]
        /\ pc[q] = "write" => buffer[q] \notin pool' /\ content'[buffer[q]] = content[buffer[q]]

LEMMA ApartKeeps ==
    ASSUME AnswerInv, NEW r \in Reqs, Apart(r), OwnBuffers', Told(r)'
    PROVE  AnswerInv'
<1> SUFFICES ASSUME NEW q \in Reqs, q # r PROVE Told(q)'
  BY Zenon DEF AnswerInv
<1>1. Told(q)
  BY Zenon DEF AnswerInv
<1>2. Decoded(q)'
  BY Zenon, <1>1 DEF Told, Decoded, Apart
<1>3. Written(q)'
  BY SMTT(30), <1>1 DEF Told, Written, Apart, Ended, Writer
<1>4. Buffered(q)'
  <2>1. Buffered(q)
    BY Zenon, <1>1 DEF Told
  <2>2. QED
    BY ZenonT(60), <2>1 DEF Buffered, Apart, Frame, Trailers
<1>5. Learned(q)'
  <2>1. pc'[q] = pc[q] /\ req'[q] = req[q] /\ kind'[q] = kind[q] /\ code'[q] = code[q] /\ saw'[q] = saw[q]
    BY Zenon DEF Apart
  <2>2. w'[q] = w[q]
    BY Zenon DEF Apart
  <2>3. LastPart(q)' = LastPart(q)
    BY Zenon, <2>2 DEF LastPart
  <2>4. ClientSeesSuccess(q)' <=> ClientSeesSuccess(q)
    BY ZenonT(60), <2>1, <2>2, <2>3 DEF ClientSeesSuccess
  <2>5. Served(q)' <=> Served(q)
    BY Zenon, <2>1 DEF Served
  <2>6. Learned(q)
    BY Zenon, <1>1 DEF Told
  <2>7. (Served(q) /\ kind[q] \in {"json", "grpc", "web"} =>
            /\ ClientSeesSuccess(q) <=> (saw[q] # None /\ code[q] = CodeOK)
            /\ ClientSeesSuccess(q) => LastPart(q).msg \in Expected(req[q]))'
    BY Zenon, <2>1, <2>3, <2>4, <2>5, <2>6 DEF Learned
  <2>8. (Served(q) /\ kind[q] = "sse" /\ w[q].http = 200 =>
            /\ w[q].body # <<>> /\ LastPart(q).msg = "DONE"
            /\ (code[q] # CodeOK) <=> \E i \in DOMAIN w[q].body : w[q].body[i].msg = "error")'
    <3>1. Served(q) /\ kind[q] = "sse" /\ w[q].http = 200 =>
            /\ w[q].body # <<>> /\ LastPart(q).msg = "DONE"
            /\ (code[q] # CodeOK) <=> \E i \in DOMAIN w[q].body : w[q].body[i].msg = "error"
      BY Zenon, <2>6 DEF Learned
    <3>2. QED
      BY SMTT(30), <2>1, <2>2, <2>3, <2>5, <3>1
  <2>9. (Served(q) /\ kind[q] = "unknown" => saw[q] = None /\ Unserved(w[q]))'
    BY ZenonT(60), <2>1, <2>2, <2>5, <2>6 DEF Learned, Unserved
  <2>10. QED
    BY Zenon, <2>7, <2>8, <2>9 DEF Learned
<1>6. QED
  BY Zenon, <1>2, <1>3, <1>4, <1>5 DEF Told

\* A step that leaves the buffers alone.
LEMMA ToldStep ==
    ASSUME ChainInv, AnswerInv, NEW r \in Reqs, NEW l, l # "write",
           pc' = [pc EXCEPT ![r] = l], UNCHANGED bufVars,
           \A q \in Reqs \ {r} : /\ req'[q] = req[q] /\ kind'[q] = kind[q]
                                 /\ code'[q] = code[q] /\ saw'[q] = saw[q] /\ w'[q] = w[q],
           Decoded(r)', Written(r)', Learned(r)'
    PROVE  AnswerInv'
<1>1. pc'[r] = l /\ \A q \in Reqs \ {r} : pc'[q] = pc[q]
  BY Zenon DEF ChainInv, Typed
<1>2. Apart(r)
  BY Zenon, <1>1 DEF Apart, AnswerInv, Told, Buffered, bufVars
<1>3. OwnBuffers'
  <2>1. OwnBuffers
    BY Zenon DEF AnswerInv
  <2>2. SUFFICES ASSUME NEW p \in Reqs, NEW q \in Reqs, p # q, pc'[p] = "write", pc'[q] = "write"
                 PROVE  buffer'[p] # buffer'[q]
    BY Zenon DEF OwnBuffers
  <2>3. p # r /\ q # r
    BY Zenon, <1>1, <2>2
  <2>4. pc[p] = "write" /\ pc[q] = "write" /\ buffer' = buffer
    BY Zenon, <1>1, <2>2, <2>3 DEF bufVars
  <2>5. QED
    BY Zenon, <2>1, <2>2, <2>4 DEF OwnBuffers
<1>4. Buffered(r)'
  BY Zenon, <1>1 DEF Buffered
<1>5. QED
  BY Zenon, <1>2, <1>3, <1>4, ApartKeeps DEF Told

\* One that writes nothing, and ends no request.
LEMMA UnansweredStep ==
    ASSUME ChainInv, AnswerInv, NEW r \in Reqs, NEW l, l \notin {"write", "done"},
           pc' = [pc EXCEPT ![r] = l], UNCHANGED <<w, bufVars>>,
           \A q \in Reqs \ {r} : /\ req'[q] = req[q] /\ kind'[q] = kind[q]
                                 /\ code'[q] = code[q] /\ saw'[q] = saw[q],
           l \in Before \/ (kind'[r] \in Unary /\ l # "panicked") => w[r] = Untouched,
           kind'[r] = "sse" /\ l \in {"handler", "encode", "streamed"} =>
               kind[r] = "sse" /\ pc[r] \in {"handler", "encode", "streamed"},
           Decoded(r)'
    PROVE  AnswerInv'
<1>1. pc'[r] = l /\ Told(r)
  BY Zenon DEF ChainInv, Typed, AnswerInv
<1>2. Written(r)'
  <2>1. Writer(w[r])' /\ (\A i \in DOMAIN w[r].body : w[r].body[i].owner = r)'
    BY Zenon, <1>1 DEF Told, Written, Writer
  <2>2. (pc[r] \in Before \/ (kind[r] \in Unary /\ ~Ended(r)) => w[r] = Untouched)'
    BY Zenon, <1>1 DEF Ended, Untouched
  <2>3. (kind[r] = "sse" /\ pc[r] \in {"handler", "encode", "write", "streamed"} =>
             w[r].http = 200 /\ \A i \in DOMAIN w[r].body : w[r].body[i].msg # "error")'
    BY Zenon, <1>1 DEF Told, Written
  <2>4. QED
    BY Zenon, <2>1, <2>2, <2>3 DEF Written
<1>3. Learned(r)'
  BY Zenon, <1>1 DEF Learned, Served
<1>4. QED
  BY Zenon, <1>2, <1>3, ToldStep

\* What the client of a unary call of kind k makes of the answer x.
Success(k, x) ==
    /\ x.http = 200
    /\ k = "grpc" => x.sent = CodeOK
    /\ k = "web" => x.body # <<>> /\ x.body[Len(x.body)].status = CodeOK

\* What the client sees is what the ResponseWriter holds.
LEMMA SeenAnswer ==
    ASSUME NEW r, NEW x, w'[r] = x, kind'[r] = kind[r]
    PROVE  /\ LastPart(r)' = x.body[Len(x.body)]
           /\ ClientSeesSuccess(r)' <=> Success(kind[r], x)
BY DEF ClientSeesSuccess, Success, LastPart

EventsTold(r) ==
    Served(r) /\ kind[r] = "sse" /\ w[r].http = 200 =>
        /\ w[r].body # <<>> /\ LastPart(r).msg = "DONE"
        /\ (code[r] # CodeOK) <=> \E i \in DOMAIN w[r].body : w[r].body[i].msg = "error"

EventsIn(x, k, c) ==
    k = "sse" /\ x.http = 200 =>
        /\ x.body # <<>> /\ x.body[Len(x.body)].msg = "DONE"
        /\ c # CodeOK <=> \E i \in DOMAIN x.body : x.body[i].msg = "error"

LEMMA SeenEvents ==
    ASSUME NEW r, NEW x, w'[r] = x, kind'[r] = kind[r], EventsIn(x, kind[r], code'[r])
    PROVE  EventsTold(r)'
<1>1. LastPart(r)' = x.body[Len(x.body)]
  BY Zenon, SeenAnswer
<1>2. QED
  BY <1>1 DEF EventsTold, EventsIn

\* A request that ends, with the answer x.
LEMMA FinalAnswer ==
    ASSUME ChainInv, AnswerInv, NEW r \in Reqs, pc[r] # "idle", pc' = [pc EXCEPT ![r] = "done"],
           NEW x, w' = [w EXCEPT ![r] = x], Writer(x),
           \A i \in DOMAIN x.body : x.body[i].owner = r,
           UNCHANGED <<req, kind, saw>>,
           kind[r] \in Unary =>
               /\ Success(kind[r], x) <=> saw[r] # None /\ code'[r] = CodeOK
               /\ Success(kind[r], x) => x.body[Len(x.body)].msg \in Expected(req[r]),
           kind[r] = "sse" /\ x.http = 200 =>
               /\ x.body # <<>> /\ x.body[Len(x.body)].msg = "DONE"
               /\ code'[r] # CodeOK <=> \E i \in DOMAIN x.body : x.body[i].msg = "error",
           kind[r] = "unknown" => saw[r] = None /\ Unserved(x)
    PROVE  Decoded(r)' /\ Written(r)' /\ Learned(r)'
<1>1. pc'[r] = "done" /\ w'[r] = x /\ Decoded(r)
  BY Zenon DEF ChainInv, Typed, Maps, AnswerInv, Told
<1>2. Decoded(r)'
  BY Zenon, <1>1 DEF Decoded, Before, Inward, Inside
<1>3. Written(r)'
  BY Zenon, <1>1 DEF Written, Ended, Before, Writer
<1>4. (ClientSeesSuccess(r)' <=> Success(kind[r], x)) /\ LastPart(r)' = x.body[Len(x.body)]
  BY Zenon, <1>1, SeenAnswer
<1>5. Learned(r)'
  <2>1. LastPart(r)' = x.body[Len(x.body)]
    BY Zenon, <1>4
  <2>2. kind'[r] = kind[r] /\ saw'[r] = saw[r] /\ req'[r] = req[r]
    BY Zenon
  <2>3. (Served(r) /\ kind[r] \in {"json", "grpc", "web"} =>
            /\ ClientSeesSuccess(r) <=> (saw[r] # None /\ code[r] = CodeOK)
            /\ ClientSeesSuccess(r) => LastPart(r).msg \in Expected(req[r]))'
    BY Zenon, <1>4, <2>1, <2>2 DEF Unary
  <2>4. EventsTold(r)'
    <3>1. EventsIn(x, kind[r], code'[r])
      BY Zenon DEF EventsIn
    <3>2. QED
      BY Zenon, <1>1, <2>2, <3>1, SeenEvents
  <2>5. (Served(r) /\ kind[r] = "unknown" => saw[r] = None /\ Unserved(w[r]))'
    BY ZenonT(60), <1>1, <2>2 DEF Unserved
  <2>6. QED
    BY Zenon, <2>3, <2>4, <2>5 DEF Learned, EventsTold
<1>6. QED
  BY Zenon, <1>2, <1>3, <1>5

\* y is x after b was written to it.
Appended(x, b, y) ==
    /\ Writer(y) /\ y.http = (IF x.http = 0 THEN 200 ELSE x.http)
    /\ x.http = 200 => y.http = 200
    /\ y.sent = (IF x.http = 0 THEN x.pending ELSE x.sent)
    /\ y.body # <<>> /\ y.body[Len(y.body)] = b
    /\ \A i \in DOMAIN y.body : i \in DOMAIN x.body \/ y.body[i] = b
    /\ \A i \in DOMAIN x.body : i \in DOMAIN y.body /\ y.body[i] = x.body[i]
    /\ \E i \in DOMAIN y.body : y.body[i] = b

\* What a Write to the response writer leaves there.
LEMMA WriteAppends ==
    ASSUME NEW x, Writer(x), NEW b
    PROVE  Appended(x, b, Write(x, b))
<1> DEFINE y == Write(x, b)
           n == Len(x.body) + 1
<1>1. /\ Writer(y) /\ y.http = (IF x.http = 0 THEN 200 ELSE x.http)
      /\ y.sent = (IF x.http = 0 THEN x.pending ELSE x.sent)
      /\ y.body # <<>> /\ y.body[Len(y.body)] = b
      /\ DOMAIN x.body = 1..(n - 1) /\ DOMAIN y.body = 1..n /\ n \in Nat /\ y.body[n] = b
      /\ \A i \in DOMAIN x.body : y.body[i] = x.body[i]
  BY WriteDoes
<1>2. n \in Nat \ {0}
  <2>1. PICK S : x.body \in Seq(S)
    BY Zenon DEF Writer
  <2>2. QED
    BY <2>1
<1> HIDE DEF y, n
<1>3. n - 1 \in Int /\ (\A i \in 1..n : i \in 1..(n - 1) \/ i = n) /\ (\A i \in 1..(n - 1) : i \in 1..n)
  BY <1>1
<1>4. n \in 1..n
  BY <1>2
<1>5. x.http = 200 => y.http = 200
  BY <1>1
<1>6. /\ \A i \in DOMAIN y.body : i \in DOMAIN x.body \/ y.body[i] = b
      /\ \A i \in DOMAIN x.body : i \in DOMAIN y.body /\ y.body[i] = x.body[i]
      /\ \E i \in DOMAIN y.body : y.body[i] = b
  BY Zenon, <1>1, <1>3, <1>4
<1>7. Appended(x, b, y)
  BY Zenon, <1>1, <1>5, <1>6 DEF Appended
<1>8. QED
  BY Zenon, <1>7 DEF y

\* All of an answer is r's; m is in it.
Owned(x, r) == \A i \in DOMAIN x.body : x.body[i].owner = r
Says(x, m) == \E i \in DOMAIN x.body : x.body[i].msg = m

\* A Write adds its message to the answer and nothing else.
LEMMA AppendedBody ==
    ASSUME NEW x, NEW b, NEW y, Appended(x, b, y)
    PROVE  /\ \A r : Owned(x, r) /\ b.owner = r => Owned(y, r)
           /\ \A m : Says(y, m) <=> Says(x, m) \/ b.msg = m
<1>1. /\ \A i \in DOMAIN y.body : i \in DOMAIN x.body \/ y.body[i] = b
      /\ \A i \in DOMAIN x.body : i \in DOMAIN y.body /\ y.body[i] = x.body[i]
      /\ \E i \in DOMAIN y.body : y.body[i] = b
  BY Zenon DEF Appended
<1>2. ASSUME NEW r, Owned(x, r), b.owner = r PROVE Owned(y, r)
  <2>1. SUFFICES ASSUME NEW i \in DOMAIN y.body PROVE y.body[i].owner = r
    BY Zenon DEF Owned
  <2>2. CASE i \in DOMAIN x.body
    <3>1. y.body[i] = x.body[i] /\ x.body[i].owner = r
      BY Zenon, <1>1, <1>2, <2>2 DEF Owned
    <3>2. QED
      BY Zenon, <3>1
  <2>3. CASE y.body[i] = b
    BY Zenon, <1>2, <2>3
  <2>4. QED
    BY Zenon, <1>1, <2>2, <2>3
<1>3. ASSUME NEW m, Says(y, m) PROVE Says(x, m) \/ b.msg = m
  <2>1. PICK i \in DOMAIN y.body : y.body[i].msg = m
    BY Zenon, <1>3 DEF Says
  <2>2. CASE i \in DOMAIN x.body
    <3>1. y.body[i] = x.body[i]
      BY Zenon, <1>1, <2>2
    <3>2. x.body[i].msg = m
      BY Zenon, <2>1, <3>1
    <3>3. QED
      BY Zenon, <2>2, <3>2 DEF Says
  <2>3. CASE y.body[i] = b
    BY Zenon, <2>1, <2>3
  <2>4. QED
    BY Zenon, <1>1, <2>2, <2>3
<1>4. ASSUME NEW m, Says(x, m) PROVE Says(y, m)
  <2>1. PICK i \in DOMAIN x.body : x.body[i].msg = m
    BY Zenon, <1>4 DEF Says
  <2>2. i \in DOMAIN y.body /\ y.body[i] = x.body[i]
    BY Zenon, <1>1
  <2>3. y.body[i].msg = m
    BY Zenon, <2>1, <2>2
  <2>4. QED
    BY Zenon, <2>2, <2>3 DEF Says
<1>5. ASSUME NEW m, b.msg = m PROVE Says(y, m)
  <2>1. PICK i \in DOMAIN y.body : y.body[i] = b
    BY Zenon, <1>1
  <2>2. y.body[i].msg = m
    BY Zenon, <1>5, <2>1
  <2>3. QED
    BY Zenon, <2>1, <2>2 DEF Says
<1>6. QED
  BY Zenon, <1>2, <1>3, <1>4, <1>5

\* The header is not written twice.
LEMMA HeaderWritten ==
    ASSUME NEW x, Writer(x), x.http = 200
    PROVE  WriteHeader(x, 200) = x
<1>1. x.http # 0
  OBVIOUS
<1>2. QED
  BY Zenon, <1>1 DEF WriteHeader

LEMMA UntouchedWriter ==
    Writer(Untouched) /\ Untouched.http = 0 /\ Untouched.pending = -1 /\ Untouched.body = <<>>
<1>1. Untouched \in [pending : Int, sent : Int, http : Nat, body : Seq({})]
  BY DEF Untouched
<1>2. QED
  BY Zenon, <1>1 DEF Writer, Untouched

LEMMA FirstHeader ==
    ASSUME NEW x, Writer(x), x.http = 0, NEW h \in Nat
    PROVE  LET y == WriteHeader(x, h)
           IN  Writer(y) /\ y.http = h /\ y.sent = x.pending /\ y.body = x.body
BY Zenon, WriteHeaderDoes

LEMMA HeaderOnce ==
    ASSUME NEW x, Writer(x), x.http = 0, NEW h \in Nat \ {0}
    PROVE  LET y == WriteHeader(WriteHeader(x, h), 200)
           IN  Writer(y) /\ y.http = h /\ y.sent = x.pending /\ y.body = x.body
<1> DEFINE y == WriteHeader(x, h)
<1>1. Writer(y) /\ y.http = h /\ y.sent = x.pending /\ y.body = x.body
  BY Zenon, WriteHeaderDoes
<1> HIDE DEF y
<1>2. WriteHeader(y, 200) = y
  BY <1>1, WriteHeaderDoes
<1>3. QED
  BY Zenon, <1>1, <1>2 DEF y

\* The statuses and the codes an error is answered with.
ErrorStatus == Nat \ {0, 200}
ErrorCode == Nat \ {0}

LEMMA Errors == /\ 400 \in ErrorStatus /\ 500 \in ErrorStatus /\ \A h \in {401, 429} : h \in ErrorStatus
                /\ CodeUnimplemented \in ErrorCode /\ CodeInvalidArgument \in ErrorCode
                /\ CodeInternal \in ErrorCode
BY DEF ErrorStatus, ErrorCode, CodeUnimplemented, CodeInvalidArgument, CodeInternal

\* Nothing of r was written, and its step changes only its answer and its code: the
\* handler did not run, or it failed.
Refusing(r) ==
    /\ pc[r] # "idle" /\ w[r] = Untouched /\ UNCHANGED <<req, kind, saw, bufVars>>
    /\ \A q \in Reqs \ {r} : code'[q] = code[q]
    /\ saw[r] = None \/ code'[r] # CodeOK
    /\ kind[r] = "unknown" => saw[r] = None

\* http.Error before anything was written.
LEMMA HTTPErrorStep ==
    ASSUME ChainInv, AnswerInv, NEW r \in Reqs, Refusing(r), NEW h \in ErrorStatus, HTTPError(r, h)
    PROVE  AnswerInv'
<1> DEFINE x == WriteHeader(WriteHeader(w[r], h), 200)
<1>1. Writer(x) /\ x.http = h /\ x.body = <<>>
  BY HeaderOnce, UntouchedWriter DEF Refusing, ErrorStatus
<1>2. w' = [w EXCEPT ![r] = x] /\ pc' = [pc EXCEPT ![r] = "done"]
  BY Zenon DEF HTTPError, End, Answer, Goto
<1> HIDE DEF x
<1>3. \A q \in Reqs \ {r} : w'[q] = w[q]
  BY Zenon, <1>2 DEF ChainInv, Typed, Maps
<1>4. ~Success(kind[r], x) /\ DOMAIN x.body = {} /\ x.http # 200
  BY <1>1 DEF Success, ErrorStatus
<1>5. Decoded(r)' /\ Written(r)' /\ Learned(r)'
  <2>1. /\ pc[r] # "idle" /\ UNCHANGED <<req, kind, saw>> /\ (saw[r] = None \/ code'[r] # CodeOK)
        /\ kind[r] = "unknown" => saw[r] = None
    BY Zenon DEF Refusing
  <2>2. Unserved(x)
    BY Zenon, <1>4 DEF Unserved
  <2>3. QED
    BY Zenon, <1>1, <1>2, <1>4, <2>1, <2>2, FinalAnswer
<1>6. pc[r] # "idle" /\ UNCHANGED <<req, kind, saw, bufVars>> /\ \A q \in Reqs \ {r} : code'[q] = code[q]
  BY Zenon DEF Refusing
<1>7. QED
  BY ZenonT(60), <1>2, <1>3, <1>5, <1>6, ToldStep

\* A status in the headers, before anything was written.
LEMMA GRPCErrorStep ==
    ASSUME ChainInv, AnswerInv, NEW r \in Reqs, Refusing(r), NEW c \in ErrorCode, GRPCError(r, c),
           kind[r] \in {"grpc", "unknown"}, kind[r] = "unknown" => c = CodeUnimplemented
    PROVE  AnswerInv'
<1> DEFINE x == WriteHeader(WriteHeader(SetStatus(w[r], c), 200), 200)
<1>1. Writer(x) /\ x.http = 200 /\ x.sent = c /\ x.body = <<>>
  <2>1. Writer(SetStatus(w[r], c)) /\ SetStatus(w[r], c).pending = c
        /\ SetStatus(w[r], c).http = 0 /\ SetStatus(w[r], c).body = <<>>
    <3>1. c \in Int
      BY SMT DEF ErrorCode
    <3>2. Writer(w[r]) /\ w[r].http = 0 /\ w[r].body = <<>>
      BY Zenon, UntouchedWriter DEF Refusing
    <3>3. QED
      BY Zenon, <3>1, <3>2, SetStatusDoes
  <2>2. QED
    BY <2>1, HeaderOnce
<1>2. w' = [w EXCEPT ![r] = x] /\ pc' = [pc EXCEPT ![r] = "done"]
  BY Zenon DEF GRPCError, End, Answer, Goto
<1> HIDE DEF x
<1>3. \A q \in Reqs \ {r} : w'[q] = w[q]
  BY Zenon, <1>2 DEF ChainInv, Typed, Maps
<1>4. (kind[r] = "grpc" => ~Success(kind[r], x)) /\ DOMAIN x.body = {}
  BY <1>1 DEF Success, CodeOK, ErrorCode
<1>5. kind[r] \in Unary => kind[r] = "grpc"
  BY Zenon DEF Unary
<1>6. Decoded(r)' /\ Written(r)' /\ Learned(r)'
  <2>1. kind[r] = "unknown" => saw[r] = None /\ Unserved(x)
    BY Zenon, <1>1 DEF Refusing, Unserved
  <2>2. QED
    BY Zenon, <1>1, <1>2, <1>4, <1>5, <2>1, FinalAnswer DEF Refusing
<1>7. pc[r] # "idle" /\ UNCHANGED <<req, kind, saw, bufVars>> /\ \A q \in Reqs \ {r} : code'[q] = code[q]
  BY Zenon DEF Refusing
<1>8. QED
  BY ZenonT(60), <1>2, <1>3, <1>6, <1>7, ToldStep

\* A step from one middleware to the next, or to ServeHTTP.
LEMMA PassStep ==
    ASSUME ChainInv, AnswerInv, NEW r \in Reqs, pc[r] \in Before, NEW l \in Before \ {"idle"},
           pc' = [pc EXCEPT ![r] = l], UNCHANGED <<w, saw, code, bufVars>>,
           \A q \in Reqs \ {r} : req'[q] = req[q] /\ kind'[q] = kind[q],
           req'[r] \in Requests[r], kind'[r] = Kind(req'[r])
    PROVE  AnswerInv'
<1>1. pc'[r] = l /\ saw[r] = None /\ code[r] = CodeOK /\ saw[r] # "error" /\ w[r] = Untouched
  BY ZenonT(60) DEF ChainInv, Typed, AnswerInv, Told, Decoded, Written
<1>2. l \notin {"bind", "handler", "encode", "streamed", "write", "done", "updateLimit"} \cup Inside
  BY Zenon DEF Before, Inside, Inward
<1>3. Decoded(r)'
  BY Zenon, <1>1, <1>2 DEF Decoded
<1>4. QED
  BY Zenon, <1>1, <1>2, <1>3, UnansweredStep

LEMMA StatusOfCode == MapToHTTPStatus(CodeUnauthenticated) = 401
<1> DEFINE known == {e \in HTTPStatus : e[1] = CodeUnauthenticated}
<1>1. known = {<<CodeUnauthenticated, 401>>}
  BY DEF HTTPStatus, CodeOK, CodeInvalidArgument, CodeNotFound, CodeAlreadyExists, CodePermissionDenied,
         CodeResourceExhausted, CodeUnimplemented, CodeInternal, CodeUnavailable, CodeUnauthenticated
<1>2. (CHOOSE e \in known : TRUE) = <<CodeUnauthenticated, 401>>
  BY Zenon, <1>1
<1>3. QED
  BY <1>1, <1>2 DEF MapToHTTPStatus

LEMMA MiddlewareTold ==
    ASSUME ChainInv, AnswerInv, NEW r \in Reqs,
           Arrive(r) \/ TenantLookup(r) \/ TenantCreate(r) \/ TenantBucket(r) \/ JWTMiddleware(r)
    PROVE  AnswerInv'
<1> USE Zenon
<1>1. CASE Arrive(r)
  <2>1. PICK q \in Requests[r] : req' = [req EXCEPT ![r] = q] /\ kind' = [kind EXCEPT ![r] = Kind(q)]
    BY Zenon, <1>1 DEF Arrive
  <2>2. PICK l \in {"tenant", "jwt", "route"} : pc' = [pc EXCEPT ![r] = l]
    BY Zenon, <1>1 DEF Arrive, Goto
  <2>3. UNCHANGED <<w, saw, code>> /\ UNCHANGED bufVars /\ pc[r] = "idle"
    BY Zenon, <1>1 DEF Arrive
  <2>4. req'[r] = q /\ kind'[r] = Kind(q) /\ \A p \in Reqs \ {r} : req'[p] = req[p] /\ kind'[p] = kind[p]
    BY Zenon, <2>1 DEF ChainInv, Typed, Maps
  <2>5. QED
    BY Zenon, <2>2, <2>3, <2>4, PassStep DEF Before
<1> SUFFICES ASSUME ~Arrive(r) PROVE AnswerInv'
  BY Zenon, <1>1
<1>2. /\ pc[r] \in Before \ {"idle"} /\ UNCHANGED <<req, kind, code, saw>> /\ UNCHANGED bufVars
      /\ \/ \E l \in {"create", "bucket", "route"} : pc' = [pc EXCEPT ![r] = l] /\ UNCHANGED w
         \/ \E h \in {401, 429} : HTTPError(r, h)
  <2>1. CASE TenantLookup(r)
    BY ZenonT(60), <2>1 DEF TenantLookup, Before, Goto
  <2>2. CASE TenantCreate(r)
    BY Zenon, <2>2 DEF TenantCreate, Before, Goto
  <2>3. CASE TenantBucket(r)
    BY ZenonT(60), <2>3 DEF TenantBucket, Before, Goto
  <2>4. CASE JWTMiddleware(r)
    <3>1. JWTVerdict([auth |-> None, apiKey |-> None]) = CodeUnauthenticated
      <4>1. BearerToken([auth |-> None, apiKey |-> None]) = None
        BY SMT DEF BearerToken
      <4>2. QED
        BY Zenon, <4>1 DEF JWTVerdict, None
    <3>2. CodeUnauthenticated # CodeOK
      BY SMT DEF CodeUnauthenticated, CodeOK
    <3>3. QED
      BY ZenonT(60), <2>4, <3>1, <3>2, StatusOfCode DEF JWTMiddleware, Before
  <2>5. QED
    BY Zenon, <2>1, <2>2, <2>3, <2>4
<1>3. /\ req[r] \in Requests[r] /\ kind[r] = Kind(req[r])
      /\ w[r] = Untouched /\ saw[r] = None /\ pc[r] # "idle"
  <2>1. Decoded(r) /\ Written(r)
    BY Zenon DEF AnswerInv, Told
  <2>2. QED
    BY Zenon, <1>2, <2>1 DEF Decoded, Written
<1>4. CASE \E l \in {"create", "bucket", "route"} : pc' = [pc EXCEPT ![r] = l] /\ UNCHANGED w
  BY Zenon, <1>2, <1>3, <1>4, PassStep DEF Before
<1>5. CASE \E h \in {401, 429} : HTTPError(r, h)
  <2>1. PICK h \in {401, 429} : HTTPError(r, h)
    BY <1>5
  <2>2. h \in ErrorStatus
    BY ZenonT(60), <2>1, Errors
  <2>3. UNCHANGED <<req, kind, saw, bufVars>> /\ \A q \in Reqs \ {r} : code'[q] = code[q]
    BY ZenonT(60), <1>2
  <2>4. Refusing(r)
    BY Zenon, <1>3, <2>3 DEF Refusing
  <2>5. QED
    BY Zenon, <2>1, <2>2, <2>4, HTTPErrorStep
<1>6. QED
  BY Zenon, <1>2, <1>4, <1>5

\* A stream whose header alone is written.
LEMMA HeaderOnly ==
    ASSUME NEW r, Writer(w[r])', \A i : i \notin DOMAIN w'[r].body,
           kind'[r] \notin Unary /\ pc'[r] \notin Before, kind'[r] = "sse" => w'[r].http = 200
    PROVE  Written(r)'
<1>1. (\A i \in DOMAIN w[r].body : w[r].body[i].owner = r)'
  OBVIOUS
<1>2. (\A i \in DOMAIN w[r].body : w[r].body[i].msg # "error")'
  OBVIOUS
<1>3. QED
  BY Zenon, <1>1, <1>2 DEF Written

\* The steps of ServeHTTP that answer by themselves or start a stream.
LEMMA RouteTold ==
    ASSUME ChainInv, AnswerInv, NEW r \in Reqs,
           ServeDebug(r) \/ NotFound(r) \/ Upgrade(r) \/ StartStream(r)
    PROVE  AnswerInv'
<1>1. pc[r] = "route" /\ UNCHANGED <<req, kind, code, saw>> /\ UNCHANGED bufVars
  BY Zenon DEF ServeDebug, NotFound, Upgrade, StartStream, Unchanged
<1>2. /\ req[r] \in Requests[r] /\ kind[r] = Kind(req[r])
      /\ w[r] = Untouched /\ saw[r] = None /\ code[r] = CodeOK /\ pc[r] # "idle" /\ saw[r] # "error"
  BY Zenon, <1>1 DEF AnswerInv, Told, Decoded, Written, Before
<1>3. {101, 200, 500} \subseteq Nat \ {0}
  OBVIOUS
<1>4. CASE ServeDebug(r)
  <2> DEFINE b == [owner |-> r, msg |-> "debug", status |-> 0]
             y == Write(w[r], b)
             x == WriteHeader(y, 200)
  <2>1. Writer(y) /\ y.http = 200 /\ DOMAIN y.body = 1..1 /\ y.body[1] = b
    BY <1>2, WriteDoes, UntouchedWriter
  <2>2. w' = [w EXCEPT ![r] = x] /\ pc' = [pc EXCEPT ![r] = "done"] /\ kind[r] = "debug"
    BY Zenon, <1>4 DEF ServeDebug, End, Answer, Goto
  <2> HIDE DEF y
  <2>3. x = y
    BY <2>1, WriteHeaderDoes
  <2>4. \A i \in DOMAIN y.body : y.body[i].owner = r
    BY <2>1
  <2>5. \A q \in Reqs \ {r} : w'[q] = w[q]
    BY Zenon, <2>2 DEF ChainInv, Typed, Maps
  <2>6. kind[r] \notin Unary \cup {"sse", "unknown"}
    BY Zenon, <2>2 DEF Unary
  <2>7. Decoded(r)' /\ Written(r)' /\ Learned(r)'
    BY Zenon, <1>1, <1>2, <2>1, <2>2, <2>3, <2>4, <2>6, FinalAnswer
  <2>8. QED
    BY Zenon, <1>1, <2>2, <2>5, <2>7, ToldStep
<1>0. Refusing(r)
  BY Zenon, <1>1, <1>2 DEF Refusing
<1>5. CASE NotFound(r)
  BY Zenon, <1>0, <1>5, Errors, GRPCErrorStep DEF NotFound
<1>6. CASE HTTPError(r, 400)
  BY ZenonT(60), <1>0, <1>6, Errors, HTTPErrorStep
<1>7. CASE /\ ~HTTPError(r, 400)
           /\ Upgrade(r) \/ StartStream(r)
  <2>1. PICK st \in {101, 200, 500}, l \in {"handler", "done"} :
           /\ w' = [w EXCEPT ![r] = WriteHeader(w[r], st)] /\ pc' = [pc EXCEPT ![r] = l]
           /\ kind[r] \in Streams
           /\ kind[r] = "sse" => st = 200 /\ l = "handler"
    <3>1. CASE Upgrade(r)
      BY ZenonT(60), <1>7, <3>1 DEF Upgrade, Answer, Goto, Streams
    <3>2. CASE StartStream(r)
      <4>1. /\ w' = [w EXCEPT ![r] = WriteHeader(w[r], 200)] /\ pc' = [pc EXCEPT ![r] = "handler"]
            /\ kind[r] \in {"sse", "stream"}
        BY Zenon, <1>7, <3>2 DEF StartStream, Answer, Goto
      <4>2. QED
        BY ZenonT(60), <4>1 DEF Streams
    <3>3. QED
      BY Zenon, <1>7, <3>1, <3>2
  <2>2. st \in Nat /\ Writer(w[r]) /\ w[r].http = 0 /\ w[r].body = <<>>
    BY <1>2, UntouchedWriter
  <2> DEFINE x == WriteHeader(w[r], st)
  <2>3. Writer(x) /\ x.http = st /\ x.body = w[r].body
    BY <2>2, FirstHeader
  <2>4. x.body = <<>>
    BY Zenon, <2>2, <2>3
  <2> HIDE DEF x
  <2>5. w'[r] = x /\ pc'[r] = l /\ \A q \in Reqs \ {r} : w'[q] = w[q]
    <3>1. w' = [w EXCEPT ![r] = x]
      BY Zenon, <2>1 DEF x
    <3>2. DOMAIN w = Reqs /\ DOMAIN pc = Reqs
      BY Zenon DEF ChainInv, Typed, Maps
    <3>3. QED
      BY <2>1, <3>1, <3>2
  <2>6. kind[r] \notin Unary /\ l \notin Before \cup {"bind", "encode", "write", "idle"}
    BY Zenon, <2>1 DEF Streams, Unary, Before
  <2>7. Decoded(r)'
    BY Zenon, <1>1, <1>2, <2>5, <2>6 DEF Decoded
  <2>8. Written(r)'
    <3>1. Writer(w[r])'
      BY Zenon, <2>3, <2>5 DEF Writer
    <3>2. \A i : i \notin DOMAIN w'[r].body
      <4>1. w'[r].body = <<>>
        BY Zenon, <2>4, <2>5
      <4>2. QED
        BY <4>1
    <3>3. kind'[r] \notin Unary /\ pc'[r] \notin Before
      BY Zenon, <1>1, <2>5, <2>6
    <3>4. kind'[r] = "sse" => w'[r].http = 200
      BY Zenon, <1>1, <2>1, <2>3, <2>5
    <3>5. QED
      BY Zenon, <3>1, <3>2, <3>3, <3>4, HeaderOnly
  <2>9. Learned(r)'
    BY Zenon, <1>1, <2>1, <2>5, <2>6 DEF Learned, Served, Unary, Streams
  <2>10. QED
    BY ZenonT(60), <1>1, <2>1, <2>5, <2>6, <2>7, <2>8, <2>9, ToldStep
<1>8. QED
  BY Zenon, <1>4, <1>5, <1>6, <1>7

\* A request that was decoded enters its chain, with the message it should.
LEMMA EntersStep ==
    ASSUME ChainInv, AnswerInv, NEW r \in Reqs, pc[r] \in {"route", "bind"}, kind[r] \in Unary,
           NEW m \in Expected(req[r]), m \notin {None, "error"},
           saw' = [saw EXCEPT ![r] = m], pc' = [pc EXCEPT ![r] = "enter"],
           UNCHANGED <<req, kind, code, w, bufVars>>
    PROVE  AnswerInv'
<1>1. /\ pc'[r] = "enter" /\ saw'[r] = m
      /\ \A q \in Reqs \ {r} : saw'[q] = saw[q]
  BY Zenon DEF ChainInv, Typed, Maps
<1>2. Decoded(r) /\ Written(r)
  BY Zenon DEF AnswerInv, Told
<1>3. /\ req[r] \in Requests[r] /\ kind[r] = Kind(req[r]) /\ code[r] = CodeOK
  BY Zenon, <1>2 DEF Decoded, Before
<1>4. Decoded(r)'
  BY Zenon, <1>1, <1>3 DEF Decoded, Before
<1>5. w[r] = Untouched
  BY Zenon, <1>2 DEF Written, Ended
<1>6. QED
  BY Zenon, <1>1, <1>4, <1>5, UnansweredStep DEF Before

LEMMA DecodeTold ==
    ASSUME ChainInv, AnswerInv, NEW r \in Reqs, DecodeJSON(r) \/ DecodeFrame(r) \/ Bind(r)
    PROVE  AnswerInv'
<1>1. /\ pc[r] \in {"route", "bind"} /\ kind[r] \in Unary /\ UNCHANGED <<req, kind>>
      /\ UNCHANGED bufVars
  <2>1. pc[r] = "bind" => kind[r] \in Unary
    BY Zenon DEF ChainInv, Placed
  <2>2. QED
    BY Zenon, <2>1 DEF DecodeJSON, DecodeFrame, Bind, Unchanged, Unary
<1>2. Decoded(r) /\ Written(r)
  BY Zenon DEF AnswerInv, Told
<1>3. /\ req[r] \in Requests[r] /\ kind[r] = Kind(req[r]) /\ code[r] = CodeOK /\ saw[r] = None
      /\ pc[r] = "bind" => Binds(req[r])
  BY Zenon, <1>1, <1>2 DEF Decoded, Before
<1>4. w[r] = Untouched /\ pc[r] # "idle"
  BY Zenon, <1>1, <1>2 DEF Written, Ended
<1>5. {req[r].msg, Bound(req[r].msg, PathParams(req[r]))} \cap {None, "error"} = {}
  BY Zenon, <1>3, MessageAssumption
<1>6. CASE HTTPError(r, 400) /\ code' = code /\ saw' = saw
  <2>1. Refusing(r)
    BY Zenon, <1>1, <1>3, <1>4, <1>6 DEF Refusing, Unary
  <2>2. QED
    BY ZenonT(60), <1>6, <2>1, Errors, HTTPErrorStep
<1>7. CASE DecodeJSON(r) /\ ~(HTTPError(r, 400) /\ code' = code /\ saw' = saw)
  <2>1. kind[r] = "json" /\ code' = code /\ pc[r] = "route"
    BY Zenon, <1>7 DEF DecodeJSON
  <2>2. PICK m \in DecodedJSON(req[r]) :
           \/ m # "error" /\ Binds(req[r]) /\ pc' = [pc EXCEPT ![r] = "bind"] /\ UNCHANGED <<saw, w>>
           \/ /\ m # "error" /\ ~Binds(req[r])
              /\ saw' = [saw EXCEPT ![r] = m] /\ pc' = [pc EXCEPT ![r] = "enter"] /\ UNCHANGED w
    BY Zenon, <1>7 DEF DecodeJSON, Goto
  <2>3. m = req[r].msg
    BY Zenon, <2>2 DEF DecodedJSON
  <2>4. CASE Binds(req[r])
    <3>1. pc'[r] = "bind" /\ pc' = [pc EXCEPT ![r] = "bind"] /\ UNCHANGED <<saw, w>>
      BY Zenon, <2>2, <2>4 DEF ChainInv, Typed
    <3>2. Decoded(r)'
      BY Zenon, <1>1, <1>2, <1>3, <2>1, <2>4, <3>1 DEF Decoded, Inward, Inside
    <3>3. QED
      BY Zenon, <1>1, <1>4, <2>1, <3>1, <3>2, UnansweredStep DEF Before
  <2>5. CASE ~Binds(req[r])
    <3>1. m \in Expected(req[r]) /\ m \notin {None, "error"}
      BY Zenon, <1>3, <1>5, <2>1, <2>3, <2>5, ExpectedJSON
    <3>2. QED
      BY Zenon, <1>1, <2>1, <2>2, <2>5, <3>1, EntersStep
  <2>6. QED
    BY Zenon, <2>4, <2>5
<1>8. CASE DecodeFrame(r)
  <2>1. PICK m \in DecodedFrame(req[r]) :
           \/ m = "error" /\ kind[r] = "grpc" /\ GRPCError(r, CodeInvalidArgument) /\ UNCHANGED <<saw, code>>
           \/ /\ m = "error" /\ kind[r] = "web" /\ UNCHANGED <<saw, w>>
              /\ code' = [code EXCEPT ![r] = CodeInvalidArgument] /\ pc' = [pc EXCEPT ![r] = "encode"]
           \/ /\ m # "error" /\ UNCHANGED <<code, w>>
              /\ saw' = [saw EXCEPT ![r] = m] /\ pc' = [pc EXCEPT ![r] = "enter"]
    BY Zenon, <1>8 DEF DecodeFrame, Goto
  <2>2. kind[r] \in {"grpc", "web"} /\ pc[r] = "route"
    BY Zenon, <1>8 DEF DecodeFrame
  <2>3. CodeInvalidArgument \in Nat \ {0} /\ CodeInvalidArgument # CodeOK
    BY DEF CodeInvalidArgument, CodeOK
  <2>4. CASE m = "error" /\ kind[r] = "grpc"
    <3>1. GRPCError(r, CodeInvalidArgument) /\ UNCHANGED <<saw, code>>
      BY Zenon, <2>1, <2>4
    <3>2. Refusing(r)
      BY Zenon, <1>1, <1>3, <1>4, <3>1 DEF Refusing, Unary
    <3>3. QED
      BY Zenon, <2>4, <3>1, <3>2, Errors, GRPCErrorStep
  <2>5. CASE m = "error" /\ kind[r] = "web"
    <3>1. /\ UNCHANGED <<saw, w>> /\ pc' = [pc EXCEPT ![r] = "encode"] /\ pc'[r] = "encode"
          /\ code'[r] = CodeInvalidArgument /\ \A q \in Reqs \ {r} : code'[q] = code[q]
      BY Zenon, <2>1, <2>5 DEF ChainInv, Typed
    <3>2. Decoded(r)'
      BY Zenon, <1>1, <1>2, <1>3, <2>3, <2>5, <3>1 DEF Decoded, Before, Inward, Inside
    <3>3. QED
      BY Zenon, <1>1, <1>4, <2>5, <3>1, <3>2, UnansweredStep DEF Before
  <2>6. CASE m # "error"
    <3>1. m \in Expected(req[r]) /\ m # None
      BY Zenon, <1>3, <2>2, <2>6, ExpectedFrame
    <3>2. QED
      BY Zenon, <1>1, <2>1, <2>6, <3>1, EntersStep
  <2>7. QED
    BY Zenon, <2>2, <2>4, <2>5, <2>6
<1>9. CASE Bind(r) /\ ~(HTTPError(r, 400) /\ code' = code /\ saw' = saw)
  <2>1. /\ saw' = [saw EXCEPT ![r] = Bound(req[r].msg, PathParams(req[r]))]
        /\ pc' = [pc EXCEPT ![r] = "enter"] /\ UNCHANGED <<w, code>> /\ pc[r] = "bind"
    BY Zenon, <1>9 DEF Bind, Goto
  <2>2. Bound(req[r].msg, PathParams(req[r])) \in Expected(req[r])
    <3>1. Binds(req[r]) /\ Kind(req[r]) = "json"
      BY Zenon, <1>3, <2>1 DEF Binds
    <3>2. QED
      BY Zenon, <1>3, <3>1, ExpectedJSON
  <2>3. Bound(req[r].msg, PathParams(req[r])) \notin {None, "error"}
    BY Zenon, <1>5
  <2>4. QED
    BY Zenon, <1>1, <2>1, <2>2, <2>3, EntersStep
<1>10. QED
  BY Zenon, <1>6, <1>7, <1>8, <1>9

\* A step inside the chain, or out of the handler of a stream, answers nothing.
LEMMA ChainMove ==
    ASSUME ChainInv, AnswerInv, NEW r \in Reqs, pc[r] \in Inside \cup {"updateLimit"},
           NEW l \in Inside \cup {"updateLimit", "streamed", "panicked"}, pc' = [pc EXCEPT ![r] = l],
           \A q \in Reqs \ {r} : code'[q] = code[q],
           l \in Inward => code'[r] = CodeOK,
           l = "streamed" => kind[r] \in Streams,
           UNCHANGED <<req, kind, saw, w, bufVars>>
    PROVE  AnswerInv'
<1>1. Decoded(r) /\ Written(r) /\ pc'[r] = l
  BY Zenon DEF AnswerInv, Told, ChainInv, Typed
<1>2. /\ l \notin Before \cup {"idle", "bind", "encode", "write", "done"}
      /\ pc[r] \notin Before \cup {"idle", "bind", "encode", "write", "done", "streamed", "panicked"}
  BY Zenon DEF Inside, Inward, Before
<1>3. Decoded(r)'
  BY Zenon, <1>1, <1>2 DEF Decoded
<1>4. kind[r] \in Unary => w[r] = Untouched
  BY Zenon, <1>1, <1>2 DEF Written, Ended
<1>5. kind[r] = "sse" => pc[r] = "handler"
  BY Zenon DEF ChainInv, Placed, Inside, Inward, Unary
<1>6. QED
  BY Zenon, <1>2, <1>3, <1>4, <1>5, UnansweredStep

LEMMA ChainTold ==
    ASSUME ChainInv, AnswerInv, NEW r \in Reqs,
           \/ CallHandler(r) \/ EnterObserver(r) \/ EnterTelemetry(r) \/ EnterAuth(r) \/ EnterRedisLimit(r)
           \/ LoadActive(r) \/ LoadLimit(r) \/ Swap(r) \/ Handler(r) \/ Panic(r)
           \/ LeaveMetrics(r) \/ LeaveTelemetry(r) \/ LeaveOther(r) \/ Release(r) \/ UpdateLimit(r)
    PROVE  AnswerInv'
<1> DEFINE Others == \A q \in Reqs \ {r} : code'[q] = code[q]
<1>1. UNCHANGED <<req, kind, saw, w, bufVars>>
  BY Zenon DEF CallHandler, EnterObserver, EnterTelemetry, EnterAuth, EnterRedisLimit, LoadActive, LoadLimit, Swap,
         Handler, Panic, LeaveMetrics, LeaveTelemetry, LeaveOther, Release, UpdateLimit, Chained, bufVars
<1>2. code \in [Reqs -> Nat] /\ (pc[r] \in Inward => code[r] = CodeOK)
  BY Zenon DEF ChainInv, Typed, AnswerInv, Told, Decoded
<1>3. Down(r) => pc' = [pc EXCEPT ![r] = "enter"] /\ code' = code
  BY Zenon DEF Down, Goto
<1>4. \A c : Refuse(r, c) => pc' = [pc EXCEPT ![r] = "leave"] /\ Others
  BY Zenon, <1>2 DEF Refuse, Goto
<1>5. Up(r) => pc' = [pc EXCEPT ![r] = "leave"] /\ code' = code
  BY Zenon DEF Up, Goto
<1>6. CASE \/ CallHandler(r) \/ EnterObserver(r) \/ EnterTelemetry(r) \/ EnterAuth(r) \/ EnterRedisLimit(r)
           \/ LoadActive(r) \/ LoadLimit(r) \/ Swap(r)
  <2>1. pc[r] \in {"enter", "loadLimit", "swap"}
    BY Zenon, <1>6 DEF CallHandler, EnterObserver, EnterTelemetry, EnterAuth, EnterRedisLimit,
       LoadActive, LoadLimit, Swap
  <2>2. \/ \E l \in Inward : pc' = [pc EXCEPT ![r] = l] /\ code' = code
        \/ pc' = [pc EXCEPT ![r] = "leave"] /\ Others
    <3> HIDE DEF Others
    <3>1. CASE CallHandler(r) \/ EnterObserver(r) \/ EnterTelemetry(r)
      BY Zenon, <1>3, <3>1 DEF CallHandler, EnterObserver, EnterTelemetry, Goto, Inward
    <3>2. CASE EnterAuth(r) \/ EnterRedisLimit(r)
      BY Zenon, <1>3, <1>4, <3>2 DEF EnterAuth, EnterRedisLimit, Inward
    <3>3. CASE LoadActive(r) \/ LoadLimit(r)
      BY Zenon, <1>4, <3>3 DEF LoadActive, LoadLimit, Goto, Inward
    <3>4. CASE Swap(r)
      BY Zenon, <1>3, <3>4 DEF Swap, Goto, Inward
    <3>5. QED
      BY Zenon, <1>6, <3>1, <3>2, <3>3, <3>4
  <2>3. pc[r] \in Inside /\ code[r] = CodeOK
    BY Zenon, <1>2, <2>1 DEF Inside, Inward
  <2>4. CASE \E l \in Inward : pc' = [pc EXCEPT ![r] = l] /\ code' = code
    <3>1. PICK l \in Inward : pc' = [pc EXCEPT ![r] = l] /\ code' = code
      BY Zenon, <2>4
    <3>2. l \in Inside /\ l # "streamed"
      BY Zenon DEF Inside, Inward
    <3>3. QED
      BY Zenon, <1>1, <2>3, <3>1, <3>2, ChainMove
  <2>5. CASE pc' = [pc EXCEPT ![r] = "leave"] /\ Others
    BY Zenon, <1>1, <2>3, <2>5, ChainMove DEF Inside, Inward
  <2>6. QED
    BY Zenon, <2>2, <2>4, <2>5
<1>7. CASE Handler(r)
  <2>1. pc[r] = "handler" /\ Others
    BY Zenon, <1>2, <1>7 DEF Handler
  <2>2. PICK l \in {"streamed", "leave"} : pc' = [pc EXCEPT ![r] = l] /\ (l = "streamed" => kind[r] \in Streams)
    BY Zenon, <1>7 DEF Handler, Goto, Streams
  <2>3. QED
    BY Zenon, <1>1, <2>1, <2>2, ChainMove DEF Inside, Inward
<1>8. CASE Panic(r)
  <2>1. pc[r] = "handler" /\ pc' = [pc EXCEPT ![r] = "panicked"] /\ code' = code
    BY Zenon, <1>8 DEF Panic, Goto
  <2>2. QED
    BY Zenon, <1>1, <2>1, ChainMove DEF Inside, Inward
<1>9. CASE LeaveMetrics(r) \/ LeaveTelemetry(r) \/ LeaveOther(r) \/ Release(r) \/ UpdateLimit(r)
  <2>1. /\ pc[r] \in {"leave", "updateLimit"} /\ code' = code
        /\ \E l \in {"leave", "updateLimit"} : pc' = [pc EXCEPT ![r] = l]
    BY Zenon, <1>5, <1>9 DEF LeaveMetrics, LeaveTelemetry, LeaveOther, Release, UpdateLimit, Leaving, Goto
  <2>2. QED
    BY Zenon, <1>1, <2>1, ChainMove DEF Inside, Inward
<1>10. QED
  BY Zenon, <1>6, <1>7, <1>8, <1>9

\* What a stream handler receives and sends.
LEMMA StreamTold ==
    ASSUME ChainInv, AnswerInv, NEW r \in Reqs,
           \/ SSERecv(r) \/ FrameRecv(r) \/ WebSocketRecv(r)
           \/ SSESend(r) \/ FrameSend(r) \/ WebSocketSend(r)
    PROVE  AnswerInv'
<1>1. /\ pc[r] = "handler" /\ kind[r] \in Streams /\ UNCHANGED <<req, kind, code>> /\ UNCHANGED bufVars
  BY Zenon DEF SSERecv, FrameRecv, WebSocketRecv, SSESend, FrameSend, WebSocketSend, Streaming, Streams
<1>2. /\ Decoded(r) /\ Written(r) /\ kind[r] \notin Unary
      /\ pc \in [Reqs -> Places] /\ DOMAIN saw = Reqs /\ DOMAIN w = Reqs
  BY Zenon, <1>1 DEF AnswerInv, Told, Streams, Unary, ChainInv, Typed, Maps
<1>3. req[r] \in Requests[r] /\ kind[r] = Kind(req[r]) /\ code[r] = CodeOK
  BY Zenon, <1>1, <1>2 DEF Decoded, Inward
<1>4. CASE SSERecv(r) \/ FrameRecv(r) \/ WebSocketRecv(r)
  <2>1. req[r].msg # "error"
    BY Zenon, <1>3, MessageAssumption
  <2>2. PICK m : m # "error" /\ saw' = [saw EXCEPT ![r] = m] /\ UNCHANGED <<pc, w>>
    BY Zenon, <1>4, <2>1 DEF SSERecv, FrameRecv, WebSocketRecv, Receives
  <2>3. pc' = [pc EXCEPT ![r] = "handler"]
    BY Zenon, <1>1, <1>2, <2>2
  <2>4. saw'[r] # "error" /\ pc'[r] = "handler" /\ \A q \in Reqs \ {r} : saw'[q] = saw[q]
    BY Zenon, <1>1, <1>2, <2>2
  <2>5. Decoded(r)'
    BY Zenon, <1>1, <1>2, <1>3, <2>4 DEF Decoded, Before
  <2>6. QED
    BY Zenon, <1>1, <1>2, <2>2, <2>3, <2>4, <2>5, UnansweredStep DEF Before
<1>5. CASE SSESend(r)
  <2>1. kind[r] = "sse" /\ saw' = saw /\ w' = w /\ pc' = [pc EXCEPT ![r] = "encode"]
    BY Zenon, <1>5 DEF SSESend, Sends, Goto, Streaming
  <2>2. pc'[r] = "encode"
    BY Zenon, <1>2, <2>1
  <2>3. Decoded(r)'
    BY Zenon, <1>1, <1>2, <1>3, <2>1, <2>2 DEF Decoded, Before, Inward, Inside
  <2>4. QED
    BY Zenon, <1>1, <1>2, <2>1, <2>3, UnansweredStep DEF Before
<1>6. CASE FrameSend(r) \/ WebSocketSend(r)
  <2> DEFINE e == Event(r, saw[r], 0)
             x == Write(w[r], e)
  <2>1. kind[r] # "sse" /\ saw' = saw /\ w' = [w EXCEPT ![r] = x] /\ pc' = pc
    BY Zenon, <1>6 DEF FrameSend, WebSocketSend, Sends, Streaming, Answer
  <2>2. Writer(x) /\ Owned(x, r)
    <3>1. Writer(w[r]) /\ Owned(w[r], r) /\ e.owner = r
      BY Zenon, <1>2 DEF Written, Event, Owned
    <3> HIDE DEF e
    <3>2. Appended(w[r], e, x)
      BY Zenon, <3>1, WriteAppends
    <3> HIDE DEF x
    <3>3. Owned(x, r)
      BY Zenon, <3>1, <3>2, AppendedBody
    <3>4. QED
      BY Zenon, <3>2, <3>3 DEF Appended
  <2> HIDE DEF x, e
  <2>3. w'[r] = x /\ pc'[r] = "handler" /\ pc' = [pc EXCEPT ![r] = "handler"]
        /\ \A q \in Reqs \ {r} : w'[q] = w[q]
    BY Zenon, <1>1, <1>2, <2>1
  <2>4. Decoded(r)'
    BY Zenon, <1>1, <1>2, <1>3, <2>1, <2>3 DEF Decoded, Before
  <2>5. \A i \in DOMAIN x.body : x.body[i].owner = r
    BY Zenon, <2>2 DEF Owned
  <2>6. Written(r)'
    <3>1. Writer(w[r])'
      BY Zenon, <2>2, <2>3 DEF Writer
    <3>2. QED
      BY Zenon, <1>1, <1>2, <2>1, <2>3, <2>5, <3>1 DEF Written, Before
  <2>7. Learned(r)'
    BY Zenon, <2>3 DEF Learned, Served
  <2>8. QED
    BY Zenon, <1>1, <2>1, <2>3, <2>4, <2>6, <2>7, ToldStep
<1>7. QED
  BY Zenon, <1>4, <1>5, <1>6

\* The end of a stream.
LEMMA StreamEndTold ==
    ASSUME ChainInv, AnswerInv, NEW r \in Reqs, EndSSE(r) \/ EndFrames(r) \/ EndWebSocket(r)
    PROVE  AnswerInv'
<1>1. /\ pc[r] = "streamed" /\ UNCHANGED <<req, kind, code, saw>> /\ UNCHANGED bufVars
      /\ kind[r] \in Streams
  BY Zenon DEF EndSSE, EndFrames, EndWebSocket, Streamed, Streams
<1>2. Decoded(r) /\ Written(r) /\ kind[r] \notin Unary /\ DOMAIN pc = Reqs /\ DOMAIN w = Reqs
  BY Zenon, <1>1 DEF AnswerInv, Told, Streams, Unary, ChainInv, Typed, Maps
<1>3. Writer(w[r]) /\ Owned(w[r], r)
  BY Zenon, <1>2 DEF Written, Owned
<1> DEFINE Ends(x) ==
             /\ w' = [w EXCEPT ![r] = x] /\ pc' = [pc EXCEPT ![r] = "done"]
             /\ Writer(x) /\ Owned(x, r)
             /\ kind[r] = "sse" =>
                   /\ x.body # <<>> /\ x.body[Len(x.body)].msg = "DONE"
                   /\ code[r] # CodeOK <=> Says(x, "error")
<1>4. SUFFICES \E x : Ends(x)
  <2>1. PICK x : Ends(x)
    BY Zenon, <1>4
  <2>2. \A q \in Reqs \ {r} : w'[q] = w[q]
    BY Zenon, <1>2, <2>1
  <2>3. Decoded(r)' /\ Written(r)' /\ Learned(r)'
    BY Zenon, <1>1, <1>2, <2>1, FinalAnswer DEF Owned, Says, Streams
  <2>4. QED
    BY Zenon, <1>1, <2>1, <2>2, <2>3, ToldStep
<1>5. CASE EndFrames(r) \/ EndWebSocket(r)
  <2>1. PICK y : /\ w' = [w EXCEPT ![r] = WriteHeader(y, 200)] /\ pc' = [pc EXCEPT ![r] = "done"]
                 /\ y = w[r] \/ \E c \in {CodeOK, CodeInternal} : y = SetStatus(w[r], c)
                 /\ kind[r] # "sse"
    BY Zenon, <1>5 DEF EndFrames, EndWebSocket, End, Answer, Goto, Streamed
  <2>2. Writer(y) /\ y.body = w[r].body
    <3>1. \A c \in {CodeOK, CodeInternal} : c \in Int
      BY SMT DEF CodeOK, CodeInternal
    <3>2. CASE y = w[r]
      BY Zenon, <1>3, <3>2
    <3>3. CASE y # w[r]
      <4>1. PICK c \in {CodeOK, CodeInternal} : y = SetStatus(w[r], c)
        BY Zenon, <2>1, <3>3
      <4>2. Writer(SetStatus(w[r], c)) /\ SetStatus(w[r], c).body = w[r].body
        BY Zenon, <1>3, <3>1, SetStatusDoes
      <4>3. QED
        BY Zenon, <4>1, <4>2
    <3>4. QED
      BY Zenon, <3>2, <3>3
  <2> DEFINE x == WriteHeader(y, 200)
  <2>3. Writer(x) /\ x.body = y.body
    <3>1. 200 \in Nat
      OBVIOUS
    <3>2. Writer(y)
      BY Zenon, <2>2
    <3>3. QED
      BY ZenonT(60), <3>1, <3>2, WriteHeaderDoes
  <2>4. w' = [w EXCEPT ![r] = x]
    BY Zenon, <2>1
  <2> HIDE DEF x
  <2>5. Owned(x, r)
    BY Zenon, <1>3, <2>2, <2>3 DEF Owned
  <2>6. Ends(x)
    BY Zenon, <2>1, <2>3, <2>4, <2>5
  <2> HIDE DEF Ends
  <2>7. QED
    BY Zenon, <2>6
<1>6. CASE EndSSE(r)
  <2> DEFINE error == Event(r, "error", code[r])
             last == Event(r, "DONE", 0)
             y == IF code[r] = CodeOK THEN w[r] ELSE Write(w[r], error)
             z == Write(y, last)
  <2>1. /\ kind[r] = "sse" /\ pc' = [pc EXCEPT ![r] = "done"] /\ w' = [w EXCEPT ![r] = WriteHeader(z, 200)]
    BY Zenon, <1>6 DEF EndSSE, End, Answer, Goto, Streamed
  <2>2. w[r].http = 200 /\ ~Says(w[r], "error")
    BY Zenon, <1>1, <1>2, <2>1 DEF Written, Says
  <2>3. error.owner = r /\ error.msg = "error" /\ last.owner = r /\ last.msg = "DONE"
    BY Zenon DEF Event
  <2> HIDE DEF error, last
  <2>4. Writer(y) /\ y.http = 200 /\ Owned(y, r) /\ (code[r] # CodeOK <=> Says(y, "error"))
    <3>1. CASE code[r] = CodeOK
      BY Zenon, <1>3, <2>2, <3>1
    <3>2. CASE code[r] # CodeOK
      <4>1. y = Write(w[r], error)
        BY Zenon, <3>2
      <4> HIDE DEF y
      <4>2. Appended(w[r], error, y)
        BY Zenon, <1>3, <4>1, WriteAppends
      <4>3. Owned(y, r) /\ Says(y, "error")
        BY Zenon, <1>3, <2>3, <4>2, AppendedBody
      <4>4. Writer(y) /\ y.http = 200
        BY Zenon, <2>2, <4>2 DEF Appended
      <4>5. QED
        BY Zenon, <3>2, <4>3, <4>4
    <3>3. QED
      BY Zenon, <3>1, <3>2
  <2> HIDE DEF y
  <2>5. Appended(y, last, z)
    <3>1. Writer(y)
      BY Zenon, <2>4
    <3>2. QED
      BY Zenon, <3>1, WriteAppends
  <2> HIDE DEF z
  <2>6. Writer(z) /\ z.http = 200 /\ z.body # <<>> /\ z.body[Len(z.body)] = last
    BY Zenon, <2>4, <2>5 DEF Appended
  <2>7. WriteHeader(z, 200) = z
    <3>1. Writer(z) /\ z.http = 200
      BY Zenon, <2>6
    <3>2. QED
      BY Zenon, <3>1, HeaderWritten
  <2>8. Owned(z, r) /\ (code[r] # CodeOK <=> Says(z, "error"))
    <3>1. "DONE" # "error"
      OBVIOUS
    <3>2. /\ Owned(y, r) /\ last.owner = r => Owned(z, r)
          /\ Says(z, "error") <=> Says(y, "error") \/ last.msg = "error"
      BY Zenon, <2>5, AppendedBody
    <3>3. last.owner = r /\ last.msg # "error"
      BY Zenon, <2>3, <3>1
    <3>4. QED
      BY Zenon, <2>4, <3>2, <3>3
  <2>9. w' = [w EXCEPT ![r] = z] /\ z.body[Len(z.body)].msg = "DONE"
    BY Zenon, <2>1, <2>3, <2>6, <2>7
  <2>10. Ends(z)
    BY Zenon, <2>1, <2>6, <2>8, <2>9
  <2> HIDE DEF Ends
  <2>11. QED
    BY Zenon, <2>10
<1>7. QED
  BY Zenon, <1>5, <1>6

\* The return from the chain.
LEMMA ReplyTold ==
    ASSUME ChainInv, AnswerInv, NEW r \in Reqs, Reply(r)
    PROVE  AnswerInv'
<1>1. pc[r] = "leave" /\ UNCHANGED <<req, kind, saw>> /\ UNCHANGED bufVars
  BY Zenon DEF Reply, Answering
<1>2. Decoded(r) /\ Written(r) /\ kind[r] \in Unary /\ pc \in [Reqs -> Places] /\ code \in [Reqs -> Nat]
  BY Zenon, <1>1 DEF AnswerInv, Told, ChainInv, Placed, Typed
<1>3. w[r] = Untouched /\ saw[r] # None /\ pc[r] # "idle"
  BY Zenon, <1>1, <1>2 DEF Written, Decoded, Ended, Inside
<1>4. ASSUME pc' = [pc EXCEPT ![r] = "encode"], w' = w, \A q \in Reqs \ {r} : code'[q] = code[q],
             code'[r] = CodeOK \/ kind[r] = "web"
      PROVE  AnswerInv'
  <2>1. pc'[r] = "encode"
    BY Zenon, <1>2, <1>4
  <2>2. Decoded(r)'
    BY Zenon, <1>1, <1>2, <1>3, <1>4, <2>1 DEF Decoded, Before, Inward, Inside
  <2>3. kind'[r] # "sse"
    BY Zenon, <1>1, <1>2 DEF Unary
  <2>4. QED
    BY Zenon, <1>1, <1>3, <1>4, <2>2, <2>3, UnansweredStep
<1>5. CASE code[r] = CodeOK /\ pc' = [pc EXCEPT ![r] = "encode"] /\ w' = w /\ code' = code
  BY Zenon, <1>4, <1>5
<1>6. CASE Fail(r)
  <2>1. code'[r] # CodeOK /\ \A q \in Reqs \ {r} : code'[q] = code[q]
    BY <1>2, <1>6 DEF Fail, CodeOK, CodeInternal
  <2>2. 500 \in Nat \ {0, 200} /\ CodeInternal \in Nat \ {0}
    BY DEF CodeInternal
  <2>3. \/ HTTPError(r, 500)
        \/ kind[r] = "grpc" /\ GRPCError(r, CodeInternal)
        \/ kind[r] = "web" /\ pc' = [pc EXCEPT ![r] = "encode"] /\ w' = w
    BY Zenon, <1>6 DEF Fail, Goto
  <2>0. Refusing(r)
    BY Zenon, <1>1, <1>2, <1>3, <2>1 DEF Refusing, Unary
  <2>4. CASE HTTPError(r, 500)
    BY Zenon, <2>0, <2>4, Errors, HTTPErrorStep
  <2>5. CASE kind[r] = "grpc" /\ GRPCError(r, CodeInternal)
    BY Zenon, <2>0, <2>5, Errors, GRPCErrorStep
  <2>6. CASE kind[r] = "web" /\ pc' = [pc EXCEPT ![r] = "encode"] /\ w' = w
    BY Zenon, <1>4, <2>1, <2>6
  <2>7. QED
    BY Zenon, <2>3, <2>4, <2>5, <2>6
<1>7. QED
  BY Zenon, <1>5, <1>6 DEF Reply, Goto

\* The buffer taken from the pool is in nobody's hands, and stays its request's.
LEMMA EncodeTold ==
    ASSUME ChainInv, AnswerInv, NEW r \in Reqs, Encode(r)
    PROVE  AnswerInv'
<1>1. PICK b \in pool : /\ buffer' = [buffer EXCEPT ![r] = b]
                        /\ content' = [content EXCEPT ![b] = IF code[r] = CodeOK THEN Frame(r) ELSE Trailers(r)]
                        /\ pool' = pool \ {b}
  BY Zenon DEF Encode
<1>2. /\ pc[r] = "encode" /\ pc' = [pc EXCEPT ![r] = "write"] /\ UNCHANGED <<req, kind, saw, code, w>>
  BY Zenon DEF Encode, Goto, Answering
<1>3. /\ Decoded(r) /\ Written(r) /\ pc \in [Reqs -> Places] /\ DOMAIN buffer = Reqs
      /\ DOMAIN content = Reqs /\ pool \subseteq Reqs /\ b \in Reqs
  BY Zenon DEF AnswerInv, Told, ChainInv, Typed, Maps
<1>4. /\ pc'[r] = "write" /\ buffer'[r] = b /\ b \notin pool'
      /\ content'[b] = IF code[r] = CodeOK THEN Frame(r) ELSE Trailers(r)
      /\ \A q \in Reqs \ {r} : pc'[q] = pc[q] /\ buffer'[q] = buffer[q]
      /\ \A a \in Reqs \ {b} : content'[a] = content[a]
  BY Zenon, <1>1, <1>2, <1>3
<1>5. \A q \in Reqs : pc[q] = "write" => buffer[q] \in Reqs /\ buffer[q] \notin pool /\ buffer[q] # b
  <2>1. \A q \in Reqs : pc[q] = "write" => buffer[q] \notin pool /\ buffer[q] # None
    BY Zenon DEF AnswerInv, Told, Buffered, ChainInv, Holding
  <2>2. buffer \in [Reqs -> Reqs \cup {None}]
    BY Zenon DEF ChainInv, Typed
  <2>3. QED
    BY Zenon, <2>1, <2>2
<1>6. Apart(r)
  BY Zenon, <1>1, <1>2, <1>4, <1>5 DEF Apart
<1>7. OwnBuffers'
  <2>1. SUFFICES ASSUME NEW p \in Reqs, NEW q \in Reqs, p # q, pc'[p] = "write", pc'[q] = "write"
                 PROVE  buffer'[p] # buffer'[q]
    BY Zenon DEF OwnBuffers
  <2>2. CASE p = r
    BY Zenon, <1>4, <1>5, <2>1, <2>2
  <2>3. CASE q = r
    BY Zenon, <1>4, <1>5, <2>1, <2>3
  <2>4. CASE p # r /\ q # r
    <3>1. pc[p] = "write" /\ pc[q] = "write" /\ buffer'[p] = buffer[p] /\ buffer'[q] = buffer[q]
      BY Zenon, <1>4, <2>1, <2>4
    <3>2. QED
      BY Zenon, <2>1, <3>1 DEF AnswerInv, OwnBuffers
  <2>5. QED
    BY Zenon, <2>2, <2>3, <2>4
<1>8. Decoded(r)'
  BY Zenon, <1>2, <1>3, <1>4 DEF Decoded, Before, Inward, Inside
<1>9. Written(r)'
  BY Zenon, <1>2, <1>3, <1>4 DEF Written, Before, Ended, Writer
<1>10. Buffered(r)'
  BY Zenon, <1>2, <1>4 DEF Buffered, Frame, Trailers
<1>11. Learned(r)'
  BY Zenon, <1>4 DEF Learned, Served
<1>12. QED
  BY Zenon, <1>6, <1>7, <1>8, <1>9, <1>10, <1>11, ApartKeeps DEF Told

\* What the clients read in an encoded answer.
LEMMA EncodedAs ==
    ASSUME NEW r
    PROVE  /\ Frame(r).owner = r /\ Frame(r).msg = saw[r] /\ Frame(r).status = CodeOK
           /\ Trailers(r).owner = r /\ Trailers(r).status # CodeOK
<1>1. Frame(r).owner = r /\ Frame(r).msg = saw[r] /\ Frame(r).status = CodeOK
  BY Zenon DEF Frame
<1>2. CodeInternal # CodeOK /\ CodeInvalidArgument # CodeOK
  BY SMT DEF CodeOK, CodeInternal, CodeInvalidArgument
<1>3. QED
  BY Zenon, <1>1, <1>2 DEF Trailers

\* The buffer is written to its own client and put back.
LEMMA WriteOutTold ==
    ASSUME ChainInv, AnswerInv, NEW r \in Reqs, WriteOut(r)
    PROVE  AnswerInv'
<1> DEFINE c == content[buffer[r]]
           y == IF kind[r] = "grpc" THEN SetStatus(w[r], CodeOK) ELSE w[r]
           x == Write(y, c)
<1>1. /\ pc[r] = "write" /\ UNCHANGED <<req, kind, saw, code>>
      /\ pool' = pool \cup {buffer[r]} /\ buffer' = [buffer EXCEPT ![r] = None]
      /\ content' = [content EXCEPT ![buffer[r]] = Empty]
  BY Zenon DEF WriteOut, Answering
<1>2. \/ kind[r] = "sse" /\ w' = [w EXCEPT ![r] = x] /\ pc' = [pc EXCEPT ![r] = "handler"]
      \/ kind[r] # "sse" /\ w' = [w EXCEPT ![r] = WriteHeader(x, 200)] /\ pc' = [pc EXCEPT ![r] = "done"]
  BY Zenon DEF WriteOut, End, Answer, Goto
<1>3. /\ Decoded(r) /\ Written(r) /\ Buffered(r) /\ pc \in [Reqs -> Places] /\ DOMAIN w = Reqs
      /\ kind[r] \in Unary \cup {"sse"} /\ DOMAIN buffer = Reqs /\ DOMAIN content = Reqs
  BY Zenon, <1>1 DEF AnswerInv, Told, ChainInv, Typed, Maps, Placed
<1>4. /\ \A q \in Reqs \ {r} : pc'[q] = pc[q] /\ buffer'[q] = buffer[q] /\ w'[q] = w[q]
      /\ pc'[r] \in {"handler", "done"}
  BY Zenon, <1>1, <1>2, <1>3
<1>5. Apart(r)
  <2>1. \A q \in Reqs \ {r} : pc[q] = "write" => buffer[q] # buffer[r] /\ buffer[q] \notin pool
    BY Zenon, <1>1 DEF AnswerInv, OwnBuffers, Told, Buffered
  <2>2. \A a : a # buffer[r] => content'[a] = content[a]
    BY <1>1
  <2>3. QED
    BY Zenon, <1>1, <1>4, <2>1, <2>2 DEF Apart
<1>6. OwnBuffers'
  BY Zenon, <1>4 DEF AnswerInv, OwnBuffers
<1>7. /\ code[r] = CodeOK => c.msg = saw[r] /\ c.status = CodeOK
      /\ code[r] # CodeOK => c.status # CodeOK
      /\ c.owner = r
  <2>1. CASE code[r] = CodeOK
    <3>1. c = Frame(r)
      BY Zenon, <1>1, <1>3, <2>1 DEF Buffered
    <3>2. QED
      BY Zenon, <2>1, <3>1, EncodedAs
  <2>2. CASE code[r] # CodeOK
    <3>1. c = Trailers(r)
      BY Zenon, <1>1, <1>3, <2>2 DEF Buffered
    <3>2. QED
      BY Zenon, <2>2, <3>1, EncodedAs
  <2>3. QED
    BY Zenon, <2>1, <2>2
<1> HIDE DEF c
<1>8. /\ Writer(y) /\ y.body = w[r].body /\ y.http = w[r].http
      /\ kind[r] = "grpc" => y.pending = CodeOK
  <2>1. Writer(w[r])
    BY Zenon, <1>3 DEF Written
  <2>2. CodeOK \in Int
    BY SMT DEF CodeOK
  <2>3. QED
    BY Zenon, <2>1, <2>2, SetStatusDoes
<1> HIDE DEF y
<1>9. Appended(y, c, x)
  BY Zenon, <1>8, WriteAppends
<1> HIDE DEF x
<1>10. /\ Writer(x) /\ x.body # <<>> /\ x.body[Len(x.body)] = c
       /\ x.http = (IF y.http = 0 THEN 200 ELSE y.http)
       /\ x.sent = (IF y.http = 0 THEN y.pending ELSE y.sent)
       /\ \A i \in DOMAIN x.body : x.body[i].owner = r
  <2>1. Owned(y, r)
    BY Zenon, <1>3, <1>8 DEF Written, Owned
  <2>2. Owned(x, r)
    BY Zenon, <1>7, <1>9, <2>1, AppendedBody
  <2>3. QED
    BY Zenon, <1>9, <2>2 DEF Appended, Owned
<1>11. /\ saw[r] # "error"
       /\ code[r] # CodeOK => kind[r] = "web"
       /\ kind[r] \in Unary /\ code[r] = CodeOK => saw[r] # None /\ saw[r] \in Expected(req[r])
  BY Zenon, <1>1, <1>3 DEF Decoded, Unary
<1>12. CASE kind[r] = "sse"
  <2>1. pc'[r] = "handler" /\ w'[r] = x
    BY Zenon, <1>2, <1>3, <1>12
  <2>2. Decoded(r)'
    BY Zenon, <1>1, <1>3, <1>11, <1>12, <2>1 DEF Decoded, Before, Unary
  <2>3. w[r].http = 200 /\ \A i \in DOMAIN w[r].body : w[r].body[i].msg # "error"
    BY Zenon, <1>1, <1>3, <1>12 DEF Written
  <2>4. x.http = 200 /\ \A i \in DOMAIN x.body : x.body[i].msg # "error"
    <3>1. ~Says(y, "error") /\ y.http = 200
      BY Zenon, <1>8, <2>3 DEF Says
    <3>2. c.msg # "error"
      BY Zenon, <1>7, <1>11, <1>12
    <3>3. Says(x, "error") <=> Says(y, "error") \/ c.msg = "error"
      BY Zenon, <1>9, AppendedBody
    <3>4. ~Says(x, "error")
      BY Zenon, <3>1, <3>2, <3>3
    <3>5. QED
      BY Zenon, <1>9, <3>1, <3>4 DEF Appended, Says
  <2>5. Written(r)'
    <3>1. Writer(w[r])'
      BY Zenon, <1>10, <2>1 DEF Writer
    <3>2. QED
      BY Zenon, <1>1, <1>10, <1>12, <2>1, <2>4, <3>1 DEF Written, Before, Unary
  <2>6. Learned(r)' /\ Buffered(r)'
    BY Zenon, <2>1 DEF Learned, Served, Buffered
  <2>7. QED
    BY Zenon, <1>5, <1>6, <2>2, <2>5, <2>6, ApartKeeps DEF Told
<1>13. CASE kind[r] # "sse"
  <2>1. kind[r] \in Unary /\ w[r] = Untouched
    BY Zenon, <1>1, <1>3, <1>13 DEF Written, Ended
  <2>2. x.http = 200 /\ (kind[r] = "grpc" => x.sent = CodeOK)
    BY Zenon, <1>8, <1>10, <2>1, UntouchedWriter
  <2>3. WriteHeader(x, 200) = x
    BY Zenon, <1>10, <2>2, HeaderWritten
  <2>4. w' = [w EXCEPT ![r] = x] /\ pc' = [pc EXCEPT ![r] = "done"]
    BY Zenon, <1>2, <1>13, <2>3
  <2>5. Success(kind[r], x) <=> saw[r] # None /\ code[r] = CodeOK
    <3>1. CASE code[r] = CodeOK
      BY Zenon, <1>7, <1>10, <1>11, <2>1, <2>2, <3>1 DEF Success
    <3>2. CASE code[r] # CodeOK
      BY Zenon, <1>7, <1>10, <1>11, <3>2 DEF Success
    <3>3. QED
      BY Zenon, <3>1, <3>2
  <2>6. Success(kind[r], x) => x.body[Len(x.body)].msg \in Expected(req[r])
    BY Zenon, <1>7, <1>10, <1>11, <2>1, <2>5
  <2>7. Decoded(r)' /\ Written(r)' /\ Learned(r)'
    BY Zenon, <1>1, <1>10, <1>13, <2>1, <2>4, <2>5, <2>6, FinalAnswer DEF Unary
  <2>8. Buffered(r)'
    BY Zenon, <1>3, <2>4 DEF Buffered
  <2>9. QED
    BY Zenon, <1>5, <1>6, <2>7, <2>8, ApartKeeps DEF Told
<1>14. QED
  BY Zenon, <1>12, <1>13

LEMMA AnswerInvInit == Init => AnswerInv
<1> SUFFICES ASSUME Init PROVE AnswerInv
  OBVIOUS
<1>1. \A r \in Reqs : pc[r] = "idle" /\ kind[r] = None /\ code[r] = CodeOK /\ saw[r] = None /\ w[r] = Untouched
  BY Zenon DEF Init, CodeOK, Untouched
<1> SUFFICES ASSUME NEW r \in Reqs PROVE Told(r)
  BY Zenon, <1>1 DEF AnswerInv, OwnBuffers
<1>2. Decoded(r)
  BY Zenon, <1>1 DEF Decoded, None, Unary, Inside, Inward
<1>3. Written(r)
  BY <1>1, UntouchedWriter DEF Written, None, Before
<1>4. Buffered(r) /\ Learned(r)
  BY Zenon, <1>1 DEF Buffered, Learned, Served
<1>5. QED
  BY Zenon, <1>2, <1>3, <1>4 DEF Told

LEMMA AnswerInvStep == ChainInv /\ AnswerInv /\ [Next]_vars => AnswerInv'
<1> SUFFICES ASSUME ChainInv, AnswerInv, [Next]_vars PROVE AnswerInv'
  OBVIOUS
<1>1. CASE UNCHANGED vars
  <2>1. /\ UNCHANGED <<pc, req, kind, code, saw, w>> /\ UNCHANGED bufVars
    BY Zenon, <1>1 DEF vars
  <2>2. OwnBuffers'
    BY Zenon, <2>1 DEF AnswerInv, OwnBuffers, bufVars
  <2>3. ASSUME NEW r \in Reqs PROVE Told(r)'
    <3>1. Told(r)
      BY Zenon DEF AnswerInv
    <3>2. Decoded(r)'
      BY Zenon, <2>1, <3>1 DEF Told, Decoded
    <3>3. Written(r)'
      BY Zenon, <2>1, <3>1 DEF Told, Written, Writer, Ended
    <3>4. Buffered(r)'
      BY Zenon, <2>1, <3>1 DEF Told, Buffered, Frame, Trailers, bufVars
    <3>5. Learned(r)'
      BY Zenon, <2>1, <3>1 DEF Told, Learned, Served, ClientSeesSuccess, LastPart, Unserved
    <3>6. QED
      BY Zenon, <3>2, <3>3, <3>4, <3>5 DEF Told
  <2>4. QED
    BY Zenon, <2>2, <2>3 DEF AnswerInv
<1>2. CASE Next
  <2>1. PICK r \in Reqs : Arrive(r) \/ Step(r)
    BY Zenon, <1>2 DEF Next
  <2>2. QED
    BY Zenon, <2>1, MiddlewareTold, RouteTold, DecodeTold, ChainTold, StreamTold, StreamEndTold, ReplyTold,
       EncodeTold, WriteOutTold DEF Step
<1>3. QED
  BY Zenon, <1>1, <1>2

\* However requests interleave, a client of a unary call is told success exactly
\* when its handler ran on its own message and returned no error, a client of
\* an SSE stream is told of an error exactly when there was one, the client of a
\* path with no method is told so in grpc-status and by nothing else, and no
\* client reads bytes of another's answer (ServeHTTP, responseBufferPool).
THEOREM ClientsLearnOutcome == Spec => []ClientLearnsOutcome
<1>1. AnswerInv => ClientLearnsOutcome
  BY Zenon DEF AnswerInv, Told, Written, Learned, Unserved, ClientLearnsOutcome
<1>2. Spec => []AnswerInv
  BY AnswerInvInit, AnswerInvStep, ChainInvariant, PTL DEF Spec
<1>3. QED
  BY <1>1, <1>2, PTL

=============================================================================
