------------------------------- MODULE Gateway -------------------------------
(***************************************************************************)
(* The request pipeline of the Go runtime: GRPCHandler.ServeHTTP of        *)
(* runtimes/go/grpc_handler.go, the interceptors it chains (auth.go,       *)
(* metrics.go, telemetry.go, logging.go, the limiters of ratelimit.go) and *)
(* the HTTP middlewares an application puts before it (tenant_gateway.go,  *)
(* metrics.go, auth.go).  Every request is a goroutine of net/http; the    *)
(* goroutines share the adaptive limiter, the tenants' limiters and the    *)
(* pool of response buffers.                                               *)
(*                                                                         *)
(* A request is a record of what the pipeline reads of it; what a body     *)
(* holds is its sender's message, in a codec, compressed or not.           *)
(***************************************************************************)
EXTENDS Integers, Sequences, FiniteSets

CONSTANTS
    Reqs,                          \* the requests; one goroutine serves each
    Requests,                      \* the forms each may arrive in
    Methods,                       \* RegisterMethod: path -> MethodInfo
    Routes,                        \* RegisterRESTRoute, in order
    Deployments,                   \* middleware, interceptors (AddInterceptor, in order), initial limit
    MinLimit, MaxLimit,            \* of the adaptive limiter
    Alpha, Beta,                   \* its thresholds (3 and 6 in the code)
    MaxSends                       \* bound on the messages of one stream

None == "none"
Buffers == Reqs                    \* sync.Pool makes a buffer for each that needs one

Interceptors == {"jwt", "apikey", "redis", "adaptive", "telemetry", "metrics", "logging"}

\* An application adds the interceptor of its AdaptiveConcurrencyLimiter once.
OneAdaptive(ch) ==
    \A i, j \in DOMAIN ch : ch[i] = "adaptive" /\ ch[j] = "adaptive" => i = j

ASSUME PipelineAssumption ==
    /\ IsFiniteSet(Reqs) /\ None \notin Reqs
    /\ MinLimit \in Nat /\ MaxLimit \in Nat
    /\ \A d \in Deployments :
          d.chain \in Seq(Interceptors) /\ OneAdaptive(d.chain) /\ d.limit \in 0..MaxLimit

VARIABLES
    front, chain, \* the middleware and the interceptors in use
    pc, req, kind, \* where each request is, what it is, the branch that serves it
    depth,       \* how many interceptors it is inside of
    code,        \* the error its call returned, 0 for none
    saw,         \* the message its handler was given
    w,           \* its http.ResponseWriter
    sends,       \* messages its stream handler sent
    recorded,    \* the HTTP status the metrics recorded for it
    spans,       \* requests with an open span
    active, limit, loaded, slots, leaked,   \* the adaptive limiter
    limiters, uses,                         \* tenant -> limiter; the one each request asked
    pool, buffer, content                   \* response buffers

limVars == <<active, limit, loaded, slots, leaked>>
tenantVars == <<limiters, uses>>
bufVars == <<pool, buffer, content>>
vars == <<front, chain, pc, req, kind, depth, code, saw, w, sends, recorded, spans,
          limVars, tenantVars, bufVars>>

Empty == [owner |-> None]
Idle == [path |-> <<>>, ctype |-> None]

Init ==
    /\ \E d \in Deployments : front = d.front /\ chain = d.chain /\ limit = d.limit
    /\ pc = [r \in Reqs |-> "idle"]
    /\ req = [r \in Reqs |-> Idle]
    /\ kind = [r \in Reqs |-> None]
    /\ depth = [r \in Reqs |-> 0]
    /\ code = [r \in Reqs |-> 0]
    /\ saw = [r \in Reqs |-> None]
    /\ w = [r \in Reqs |-> [pending |-> -1, sent |-> -1, http |-> 0, body |-> <<>>]]
    /\ sends = [r \in Reqs |-> 0]
    /\ recorded = [r \in Reqs |-> 0]
    /\ spans = {}
    /\ active = 0 /\ leaked = 0 /\ slots = {}
    /\ loaded = [r \in Reqs |-> 0]
    /\ limiters = << >> /\ uses = [r \in Reqs |-> None]
    /\ pool = Buffers /\ buffer = [r \in Reqs |-> None] /\ content = [b \in Buffers |-> Empty]

Goto(r, label) == pc' = [pc EXCEPT ![r] = label]

\* The map f, with the entries of g for the keys it does not have.
Over(f, g) == [k \in DOMAIN f \cup DOMAIN g |-> IF k \in DOMAIN f THEN f[k] ELSE g[k]]

-----------------------------------------------------------------------------
(* http.ResponseWriter: headers set after the first write are not sent.    *)

SetStatus(x, s) == [x EXCEPT !.pending = s]

WriteHeader(x, h) ==
    IF x.http # 0 THEN x ELSE [x EXCEPT !.http = h, !.sent = x.pending]

Write(x, b) == [WriteHeader(x, 200) EXCEPT !.body = Append(@, b)]

Answer(r, x) == w' = [w EXCEPT ![r] = x]

\* errors.go
CodeOK == 0
CodeInvalidArgument == 3
CodePermissionDenied == 7
CodeResourceExhausted == 8
CodeUnimplemented == 12
CodeInternal == 13
CodeUnavailable == 14
CodeUnauthenticated == 16
CodeNotFound == 5
CodeAlreadyExists == 6

HTTPStatus ==
    { <<CodeOK, 200>>, <<CodeInvalidArgument, 400>>, <<CodeNotFound, 404>>,
      <<CodeAlreadyExists, 409>>, <<CodePermissionDenied, 403>>, <<CodeResourceExhausted, 429>>,
      <<CodeUnimplemented, 501>>, <<CodeInternal, 500>>, <<CodeUnavailable, 503>>,
      <<CodeUnauthenticated, 401>> }

MapToHTTPStatus(c) ==
    LET known == {e \in HTTPStatus : e[1] = c}
    IN  IF known = {} THEN 500 ELSE (CHOOSE e \in known : TRUE)[2]

-----------------------------------------------------------------------------
(* Routing *)

\* matchREST: the first route of the verb whose parts, of the same number,
\* equal the path's or are parameters.  A part of a pattern is a record
\* [s |-> string, param |-> BOOLEAN], a part of a path a string.
Matches(route, verb, path) ==
    /\ route.verb = verb
    /\ Len(route.parts) = Len(path)
    /\ \A i \in DOMAIN path : route.parts[i].param \/ route.parts[i].s = path[i]

MatchREST(verb, path) ==
    LET hits == {i \in DOMAIN Routes : Matches(Routes[i], verb, path)}
    IN  IF hits = {} THEN 0 ELSE CHOOSE i \in hits : \A j \in hits : i <= j

\* The parameters of the path, overridden by those of the query.
PathParams(q) ==
    LET route == Routes[MatchREST(q.verb, q.path)]
        named == {i \in DOMAIN q.path : route.parts[i].param}
        ofPath == [n \in {route.parts[i].s : i \in named} |->
                      q.path[CHOOSE i \in named : route.parts[i].s = n]]
    IN  IF MatchREST(q.verb, q.path) = 0 THEN << >> ELSE Over(q.query, ofPath)

MethodPath(q) ==
    LET i == MatchREST(q.verb, q.path)
    IN  IF i = 0 THEN q.path ELSE Routes[i].target

Known(q) == MethodPath(q) \in DOMAIN Methods
Method(q) == Methods[MethodPath(q)]

IsJSON(q) == q.ctype \in {None, "json"}
IsGrpcWeb(q) == q.ctype \in {"web", "webtext"}

\* The branch of ServeHTTP that serves a request.
Kind(q) ==
    CASE q.path[1] = "__helix"                           -> "debug"
      [] q.path[1] # "__helix" /\ ~Known(q)              -> "unknown"
      [] Method(q).streaming /\ q.upgrade                -> "ws"
      [] Method(q).streaming /\ ~q.upgrade               -> IF q.sse \/ IsJSON(q) THEN "sse" ELSE "stream"
      [] ~Method(q).streaming /\ IsJSON(q)               -> "json"
      [] ~Method(q).streaming /\ IsGrpcWeb(q)            -> "web"
      [] OTHER                                           -> "grpc"

-----------------------------------------------------------------------------
(* Leaving the pipeline.  HTTPMetricsMiddleware records in a defer what     *)
(* its statusResponseWriter saw, 200 when WriteHeader was never called.     *)

Record(r, x) ==
    recorded' = IF front = "metrics"
                THEN [recorded EXCEPT ![r] = IF x.http = 0 THEN 200 ELSE x.http]
                ELSE recorded

End(r, x) ==
    /\ Answer(r, WriteHeader(x, 200))
    /\ Record(r, x)
    /\ Goto(r, "done")

\* http.Error
HTTPError(r, h) == End(r, WriteHeader(w[r], h))

\* A status in the headers of the response.
GRPCError(r, c) == End(r, WriteHeader(SetStatus(w[r], c), 200))

-----------------------------------------------------------------------------
(* The middlewares *)

Arrive(r) ==
    /\ pc[r] = "idle"
    /\ \E q \in Requests[r] : req' = [req EXCEPT ![r] = q] /\ kind' = [kind EXCEPT ![r] = Kind(q)]
    /\ Goto(r, IF front \in {"tenant", "jwt"} THEN front ELSE "route")
    /\ UNCHANGED <<front, chain, depth, code, saw, w, sends, recorded, spans, limVars, tenantVars, bufVars>>

\* MultiTenantRateLimiter.HTTPMiddleware up to the read of the map.
TenantLookup(r) ==
    /\ pc[r] = "tenant"
    /\ LET t == req[r].tenant IN
       \/ t = "bad" /\ HTTPError(r, 401) /\ UNCHANGED uses
       \/ t = None /\ Goto(r, "route") /\ UNCHANGED <<w, recorded, uses>>
       \/ /\ t \notin {"bad", None}
          /\ IF t \in DOMAIN limiters
             THEN uses' = [uses EXCEPT ![r] = limiters[t]] /\ Goto(r, "bucket")
             ELSE Goto(r, "create") /\ UNCHANGED uses
          /\ UNCHANGED <<w, recorded>>
    /\ UNCHANGED <<front, chain, req, kind, depth, code, saw, sends, spans, limVars, limiters, bufVars>>

\* Mutant: the map is not read again under the write lock.
TenantCreateUnchecked(r) ==
    /\ pc[r] = "create"
    /\ limiters' = Over([t \in {req[r].tenant} |-> r], limiters)
    /\ uses' = [uses EXCEPT ![r] = r]
    /\ Goto(r, "bucket")
    /\ UNCHANGED <<front, chain, req, kind, depth, code, saw, w, sends, recorded, spans, limVars, bufVars>>

\* The critical section that makes the tenant's limiter; the first request
\* of a tenant fixes its rate.
TenantCreate(r) ==
    /\ pc[r] = "create"
    /\ limiters' = Over(limiters, [t \in {req[r].tenant} |-> r])
    /\ uses' = [uses EXCEPT ![r] = limiters'[req[r].tenant]]
    /\ Goto(r, "bucket")
    /\ UNCHANGED <<front, chain, req, kind, depth, code, saw, w, sends, recorded, spans, limVars, bufVars>>

\* The tenant's bucket (modelled in RateLimiter) allows the request or not.
TenantBucket(r) ==
    /\ pc[r] = "bucket"
    /\ \E allowed \in BOOLEAN :
          IF allowed THEN Goto(r, "route") /\ UNCHANGED <<w, recorded>> ELSE HTTPError(r, 429)
    /\ UNCHANGED <<front, chain, req, kind, depth, code, saw, sends, spans, limVars, tenantVars, bufVars>>

\* defaultBearerExtractor: the bearer token, or the X-API-Key header.
BearerToken(h) == IF h.auth = None THEN h.apiKey ELSE h.auth

\* The verdict of NewJWTAuthInterceptor on the headers of the metadata; a
\* header without the bearer scheme is "malformed", the parser's verdict on
\* a token is its name.
JWTVerdict(h) ==
    CASE BearerToken(h) \in {None, "malformed", "expired"} -> CodeUnauthenticated
      [] BearerToken(h) = "noclaim"                        -> CodePermissionDenied
      [] OTHER                                             -> CodeOK

\* NewAPIKeyInterceptor, which prefers the X-API-Key header.
APIKeyVerdict(h) ==
    LET key == IF h.apiKey # None THEN h.apiKey ELSE h.auth
    IN  IF key = "good" THEN CodeOK ELSE CodeUnauthenticated

\* NewJWTMiddleware hands the interceptor the request's own context, which
\* holds no metadata: only ServeHTTP puts the headers there.
JWTMiddleware(r) ==
    /\ pc[r] = "jwt"
    /\ LET c == JWTVerdict([auth |-> None, apiKey |-> None])
       IN  IF c = CodeOK THEN Goto(r, "route") /\ UNCHANGED <<w, recorded>>
                         ELSE HTTPError(r, MapToHTTPStatus(c))
    /\ UNCHANGED <<front, chain, req, kind, depth, code, saw, sends, spans, limVars, tenantVars, bufVars>>

-----------------------------------------------------------------------------
(* ServeHTTP up to the decoding of the request *)

Unchanged(r) == UNCHANGED <<front, chain, req, kind, spans, limVars, tenantVars>>

ServeDebug(r) ==
    /\ pc[r] = "route"
    /\ kind[r] = "debug"
    /\ End(r, Write(w[r], [owner |-> r, msg |-> "debug", status |-> 0]))
    /\ Unchanged(r) /\ UNCHANGED <<depth, code, saw, sends, bufVars>>

NotFound(r) ==
    /\ pc[r] = "route"
    /\ kind[r] = "unknown"
    /\ GRPCError(r, CodeUnimplemented)
    /\ Unchanged(r) /\ UNCHANGED <<depth, code, saw, sends, bufVars>>

\* UpgradeToWebSocket hijacks the connection, which the writer of
\* HTTPMetricsMiddleware does not offer: the upgrader then answers 500, and
\* the http.Error after it changes only what the middleware records.
Upgrade(r) ==
    /\ pc[r] = "route"
    /\ kind[r] = "ws"
    /\ \/ front # "metrics" /\ HTTPError(r, 400)
       \/ front # "metrics" /\ Answer(r, WriteHeader(w[r], 101)) /\ Goto(r, "handler") /\ UNCHANGED recorded
       \/ /\ front = "metrics"
          /\ Answer(r, WriteHeader(w[r], 500))
          /\ recorded' = [recorded EXCEPT ![r] = 400]
          /\ Goto(r, "done")
    /\ Unchanged(r) /\ UNCHANGED <<depth, code, saw, sends, bufVars>>

\* The SSE and gRPC streams: the response starts before the handler runs.
StartStream(r) ==
    /\ pc[r] = "route"
    /\ kind[r] \in {"sse", "stream"}
    /\ IF kind[r] = "sse" /\ ~req[r].good
       THEN HTTPError(r, 400)
       ELSE Answer(r, WriteHeader(w[r], 200)) /\ Goto(r, "handler") /\ UNCHANGED recorded
    /\ Unchanged(r) /\ UNCHANGED <<depth, code, saw, sends, bufVars>>

Binds(q) == Kind(q) = "json" /\ Method(q).binder /\ PathParams(q) # << >>

\* The dec closure of the JSON branch.
DecodedJSON(q) == IF q.good THEN {q.msg} ELSE {"error"}

\* The dec closure of the gRPC branch.  The payload of a frame with the
\* compressed flag is unmarshalled as it is when the request names no encoding,
\* or one the server does not know: an error or another message when it was
\* compressed, the message when it was not.
DecodedFrame(q) ==
    CASE ~q.good                              -> {"error"}
      [] q.ctype = "flat" /\ ~Method(q).flat  -> {"error"}
      [] q.flag = 1 /\ q.encoding # "gzip"    -> {"error", "garbage", q.msg}
      [] OTHER                                -> {q.msg}

DecodeJSON(r) ==
    /\ pc[r] = "route" /\ kind[r] = "json"
    /\ \E m \in DecodedJSON(req[r]) :
          \/ m = "error" /\ HTTPError(r, 400) /\ UNCHANGED saw
          \/ m # "error" /\ Binds(req[r]) /\ Goto(r, "bind") /\ UNCHANGED <<saw, w, recorded>>
          \/ /\ m # "error" /\ ~Binds(req[r])
             /\ saw' = [saw EXCEPT ![r] = m]
             /\ Goto(r, "enter") /\ UNCHANGED <<w, recorded>>
    /\ Unchanged(r) /\ UNCHANGED <<depth, code, sends, bufVars>>

DecodeFrame(r) ==
    /\ pc[r] = "route" /\ kind[r] \in {"grpc", "web"}
    /\ \E m \in DecodedFrame(req[r]) :
          \/ m = "error" /\ kind[r] = "grpc" /\ GRPCError(r, CodeInvalidArgument) /\ UNCHANGED <<saw, code>>
          \/ /\ m = "error" /\ kind[r] = "web"
             /\ code' = [code EXCEPT ![r] = CodeInvalidArgument]
             /\ Goto(r, "encode")
             /\ UNCHANGED <<saw, w, recorded>>
          \/ /\ m # "error"
             /\ saw' = [saw EXCEPT ![r] = m]
             /\ Goto(r, "enter") /\ UNCHANGED <<code, w, recorded>>
    /\ Unchanged(r) /\ UNCHANGED <<depth, sends, bufVars>>

Bound(m, params) == IF "id" \in DOMAIN params THEN params["id"] ELSE m

\* What a message says is not one of the words that stand for none or an error.
ASSUME MessageAssumption ==
    /\ \A p \in DOMAIN Methods : Methods[p].streaming \in BOOLEAN
    /\ \A r \in Reqs : \A q \in Requests[r] :
          /\ q.upgrade \in BOOLEAN
          /\ {q.msg, Bound(q.msg, PathParams(q))} \cap {None, "error"} = {}

\* The method's Binder puts the parameters into the request, or fails.
Bind(r) ==
    /\ pc[r] = "bind"
    /\ \/ HTTPError(r, 400) /\ UNCHANGED saw
       \/ /\ saw' = [saw EXCEPT ![r] = Bound(req[r].msg, PathParams(req[r]))]
          /\ Goto(r, "enter") /\ UNCHANGED <<w, recorded>>
    /\ Unchanged(r) /\ UNCHANGED <<depth, code, sends, bufVars>>

-----------------------------------------------------------------------------
(* The interceptors.  chained calls the first with a handler that calls    *)
(* the second, and so on to the method's Handler.                          *)

Chained(r) == UNCHANGED <<front, chain, req, kind, saw, w, sends, tenantVars, bufVars>>

Interceptor(r) == IF depth[r] < Len(chain) THEN chain[depth[r] + 1] ELSE "handler"

Down(r) == depth' = [depth EXCEPT ![r] = @ + 1] /\ Goto(r, "enter") /\ UNCHANGED code

\* The interceptor returns an error without calling its handler.
Refuse(r, c) == code' = [code EXCEPT ![r] = c] /\ Goto(r, "leave") /\ UNCHANGED depth

CallHandler(r) ==
    /\ pc[r] = "enter" /\ Interceptor(r) = "handler"
    /\ Goto(r, "handler")
    /\ Chained(r) /\ UNCHANGED <<depth, code, recorded, spans, limVars>>

\* MetricsInterceptor and LoggingInterceptor act only after their handler.
EnterObserver(r) ==
    /\ pc[r] = "enter" /\ Interceptor(r) \in {"metrics", "logging"}
    /\ Down(r)
    /\ Chained(r) /\ UNCHANGED <<recorded, spans, limVars>>

\* TelemetryInterceptor opens a span when the request is sampled.
EnterTelemetry(r) ==
    /\ pc[r] = "enter" /\ Interceptor(r) = "telemetry"
    /\ Down(r)
    /\ \E sampled \in BOOLEAN : spans' = IF sampled THEN spans \cup {r} ELSE spans
    /\ Chained(r) /\ UNCHANGED <<recorded, limVars>>

\* Mutant: a refusal is only logged.
EnterAuthLogsOnly(r) ==
    /\ pc[r] = "enter" /\ Interceptor(r) \in {"jwt", "apikey"}
    /\ Down(r)
    /\ Chained(r) /\ UNCHANGED <<recorded, spans, limVars>>

EnterAuth(r) ==
    /\ pc[r] = "enter" /\ Interceptor(r) \in {"jwt", "apikey"}
    /\ LET c == IF Interceptor(r) = "jwt" THEN JWTVerdict(req[r]) ELSE APIKeyVerdict(req[r])
       IN  IF c = CodeOK THEN Down(r) ELSE Refuse(r, c)
    /\ Chained(r) /\ UNCHANGED <<recorded, spans, limVars>>

\* RedisRateLimiter.Interceptor: a refusal of the script and a failure of
\* Redis are the same to it.  The script is modelled in RedisBucket.
EnterRedisLimit(r) ==
    /\ pc[r] = "enter" /\ Interceptor(r) = "redis"
    /\ \/ Down(r)
       \/ Refuse(r, CodeUnavailable)
    /\ Chained(r) /\ UNCHANGED <<recorded, spans, limVars>>

\* AdaptiveConcurrencyLimiter.Acquire: two loads and a compare-and-swap.
LoadActive(r) ==
    /\ pc[r] = "enter" /\ Interceptor(r) = "adaptive"
    /\ loaded' = [loaded EXCEPT ![r] = active]
    /\ Goto(r, "loadLimit")
    /\ Chained(r) /\ UNCHANGED <<depth, code, recorded, spans, active, limit, slots, leaked>>

LoadLimit(r) ==
    /\ pc[r] = "loadLimit"
    /\ IF loaded[r] >= limit THEN Refuse(r, CodeResourceExhausted)
                             ELSE Goto(r, "swap") /\ UNCHANGED <<depth, code>>
    /\ Chained(r) /\ UNCHANGED <<recorded, spans, limVars>>

\* Mutant: a swap that fails is tried again with the value loaded before.
SwapNoReload(r) ==
    /\ pc[r] = "swap"
    /\ active = loaded[r]
    /\ active' = active + 1 /\ slots' = slots \cup {r} /\ Down(r)
    /\ Chained(r) /\ UNCHANGED <<recorded, spans, limit, loaded, leaked>>

Swap(r) ==
    /\ pc[r] = "swap"
    /\ IF active = loaded[r]
       THEN active' = active + 1 /\ slots' = slots \cup {r} /\ Down(r)
       ELSE Goto(r, "enter") /\ UNCHANGED <<active, slots, depth, code>>
    /\ Chained(r) /\ UNCHANGED <<recorded, spans, limit, loaded, leaked>>

\* The method's Handler, or the StreamHandler when it ends.
Handler(r) ==
    /\ pc[r] = "handler"
    /\ \E c \in {CodeOK, CodeNotFound} : code' = [code EXCEPT ![r] = c]
    /\ Goto(r, IF kind[r] \in {"sse", "stream", "ws"} THEN "streamed" ELSE "leave")
    /\ Chained(r) /\ UNCHANGED <<depth, recorded, spans, limVars>>

\* A panic of the handler unwinds to net/http, which drops the connection.
\* Deferred calls run: the span ends, the middleware records; the Release of
\* the adaptive limiter is not deferred.
Panic(r) ==
    /\ pc[r] = "handler"
    /\ Goto(r, "panicked")
    /\ spans' = spans \ {r}
    /\ slots' = slots \ {r}
    /\ leaked' = leaked + Cardinality(slots \cap {r})
    /\ Record(r, w[r])
    /\ Chained(r) /\ UNCHANGED <<depth, code, active, limit, loaded>>

\* The return through the interceptors, the innermost first.
Leaving(r, i) == pc[r] = "leave" /\ depth[r] > 0 /\ chain[depth[r]] = i
Up(r) == depth' = [depth EXCEPT ![r] = @ - 1] /\ Goto(r, "leave") /\ UNCHANGED code

LeaveMetrics(r) ==
    /\ Leaving(r, "metrics")
    /\ recorded' = [recorded EXCEPT ![r] = MapToHTTPStatus(code[r])]
    /\ Up(r) /\ Chained(r) /\ UNCHANGED <<spans, limVars>>

LeaveTelemetry(r) ==
    /\ Leaving(r, "telemetry")
    /\ spans' = spans \ {r}
    /\ Up(r) /\ Chained(r) /\ UNCHANGED <<recorded, limVars>>

LeaveOther(r) ==
    /\ Leaving(r, "logging") \/ Leaving(r, "jwt") \/ Leaving(r, "apikey") \/ Leaving(r, "redis")
    /\ Up(r) /\ Chained(r) /\ UNCHANGED <<recorded, spans, limVars>>

\* Mutant: the slot is given back only when the call succeeded.
ReleaseOnSuccess(r) ==
    /\ Leaving(r, "adaptive")
    /\ active' = IF code[r] = CodeOK THEN active - 1 ELSE active
    /\ slots' = slots \ {r}
    /\ Goto(r, "updateLimit")
    /\ Chained(r) /\ UNCHANGED <<depth, code, recorded, spans, limit, loaded, leaked>>

\* Release: the count first, then the limit under its mutex.
Release(r) ==
    /\ Leaving(r, "adaptive")
    /\ active' = active - 1
    /\ slots' = slots \ {r}
    /\ Goto(r, "updateLimit")
    /\ Chained(r) /\ UNCHANGED <<depth, code, recorded, spans, limit, loaded, leaked>>

\* The estimated queue, limit * (1 - rttNoLoad / rttActual), lies between 0
\* and limit; queue is its integer part.
UpdateLimit(r) ==
    /\ pc[r] = "updateLimit"
    /\ \E queue \in 0..limit - 1 :
          \/ queue < Alpha /\ limit' = IF limit < MaxLimit THEN limit + 1 ELSE limit
          \/ queue >= Alpha /\ queue <= Beta /\ limit' = limit
          \/ queue >= Beta /\ limit' = IF limit > MinLimit THEN limit - 1 ELSE limit
    /\ Up(r) /\ Chained(r) /\ UNCHANGED <<recorded, spans, active, loaded, slots, leaked>>

-----------------------------------------------------------------------------
(* Streams: the StreamHandler receives and sends as it likes. *)

Streaming(r, k) ==
    /\ pc[r] = "handler" /\ kind[r] = k
    /\ UNCHANGED <<front, chain, req, kind, depth, code, recorded, spans, limVars, tenantVars, bufVars>>

\* The first message of the stream is what the model follows.
Receives(r, m) ==
    /\ saw[r] = None /\ req[r].good
    /\ saw' = [saw EXCEPT ![r] = m]
    /\ UNCHANGED <<pc, w, sends>>

Sends(r) == sends[r] < MaxSends /\ sends' = [sends EXCEPT ![r] = @ + 1] /\ UNCHANGED saw

Event(r, m, s) == [owner |-> r, msg |-> m, status |-> s]

SSERecv(r) == Streaming(r, "sse") /\ Receives(r, req[r].msg)

\* serverStream.Recv knows neither compression nor FlatBuffers (its codec is
\* never set): it reads such a payload as another message.
FrameRecv(r) ==
    Streaming(r, "stream")
    /\ Receives(r, IF req[r].flag = 1 \/ req[r].ctype = "flat" THEN "garbage" ELSE req[r].msg)

WebSocketRecv(r) == Streaming(r, "ws") /\ Receives(r, req[r].msg)

\* sseServerStream.Send encodes into a pooled buffer, as unary answers do.
SSESend(r) == Streaming(r, "sse") /\ Sends(r) /\ Goto(r, "encode") /\ UNCHANGED w

FrameSend(r) ==
    Streaming(r, "stream") /\ Sends(r) /\ Answer(r, Write(w[r], Event(r, saw[r], 0))) /\ UNCHANGED pc

WebSocketSend(r) ==
    Streaming(r, "ws") /\ Sends(r) /\ Answer(r, Write(w[r], Event(r, saw[r], 0))) /\ UNCHANGED pc

Streamed(r, k) ==
    /\ pc[r] = "streamed" /\ kind[r] = k
    /\ UNCHANGED <<front, chain, req, kind, depth, code, saw, sends, spans, limVars, tenantVars, bufVars>>

\* Mutant: [DONE] is sent only when the stream ended well, and no error.
EndSSEQuietly(r) ==
    /\ Streamed(r, "sse")
    /\ End(r, IF code[r] = CodeOK THEN Write(w[r], Event(r, "DONE", 0)) ELSE w[r])

EndSSE(r) ==
    /\ Streamed(r, "sse")
    /\ LET x == IF code[r] = CodeOK THEN w[r] ELSE Write(w[r], Event(r, "error", code[r]))
       IN  End(r, Write(x, Event(r, "DONE", 0)))

\* The status is set after the headers went out, and no trailer was declared.
EndFrames(r) ==
    /\ Streamed(r, "stream")
    /\ End(r, SetStatus(w[r], IF code[r] = CodeOK THEN CodeOK ELSE CodeInternal))

\* The error is printed, and the connection left open.
EndWebSocket(r) == Streamed(r, "ws") /\ End(r, w[r])

-----------------------------------------------------------------------------
(* The answer of a unary call *)

Answering(r) == UNCHANGED <<front, chain, req, kind, depth, saw, spans, limVars, tenantVars>>

\* An error of the call, a response that is no ProtoMarshaler, or one that
\* cannot be encoded: 500 for JSON and INTERNAL for gRPC, whatever the code.
Fail(r) ==
    /\ code' = [code EXCEPT ![r] = IF @ = CodeOK THEN CodeInternal ELSE @]
    /\ \/ kind[r] = "json" /\ HTTPError(r, 500)
       \/ kind[r] = "grpc" /\ GRPCError(r, CodeInternal)
       \/ kind[r] = "web" /\ Goto(r, "encode") /\ UNCHANGED <<w, recorded>>

Reply(r) ==
    /\ pc[r] = "leave" /\ depth[r] = 0
    /\ \/ /\ code[r] = CodeOK
          /\ kind[r] = "json" \/ Method(req[r]).proto
          /\ Goto(r, "encode") /\ UNCHANGED <<w, recorded, code>>
       \/ Fail(r)
    /\ Answering(r) /\ UNCHANGED <<sends, bufVars>>

\* The frame of a response in the codec of the branch, compressed if the
\* client named an encoding the server knows.
Frame(r) ==
    [owner |-> r, msg |-> saw[r], status |-> CodeOK,
     codec |-> IF kind[r] \in {"json", "sse"} THEN "json" ELSE "proto",
     gzip |-> kind[r] \in {"grpc", "web"} /\ req[r].encoding = "gzip"]

\* writeGrpcWebError: the trailers are the body.
Trailers(r) ==
    [owner |-> r, msg |-> "trailers",
     status |-> IF saw[r] = None THEN CodeInvalidArgument ELSE CodeInternal]

\* A buffer of the pool (New makes one when there is none) is reset, filled.
Encode(r) ==
    /\ pc[r] = "encode"
    /\ \E b \in pool :
          /\ buffer' = [buffer EXCEPT ![r] = b]
          /\ content' = [content EXCEPT ![b] = IF code[r] = CodeOK THEN Frame(r) ELSE Trailers(r)]
          /\ pool' = pool \ {b}
    /\ Goto(r, "write")
    /\ Answering(r) /\ UNCHANGED <<code, w, sends, recorded>>

\* The buffer is written to the client, then put back (by a defer); the
\* bytes left in it are never read, as the next Get resets it.
WriteOut(r) ==
    /\ pc[r] = "write"
    /\ LET x == Write(IF kind[r] = "grpc" THEN SetStatus(w[r], CodeOK) ELSE w[r], content[buffer[r]])
       IN  IF kind[r] = "sse"
           THEN Answer(r, x) /\ Goto(r, "handler") /\ UNCHANGED recorded
           ELSE End(r, x)
    /\ pool' = pool \cup {buffer[r]}
    /\ buffer' = [buffer EXCEPT ![r] = None]
    /\ content' = [content EXCEPT ![buffer[r]] = Empty]
    /\ Answering(r) /\ UNCHANGED <<code, sends>>

-----------------------------------------------------------------------------

Step(r) ==
    \/ TenantLookup(r) \/ TenantCreate(r) \/ TenantBucket(r) \/ JWTMiddleware(r)
    \/ ServeDebug(r) \/ NotFound(r) \/ Upgrade(r) \/ StartStream(r)
    \/ DecodeJSON(r) \/ DecodeFrame(r) \/ Bind(r)
    \/ CallHandler(r) \/ EnterObserver(r) \/ EnterTelemetry(r) \/ EnterAuth(r) \/ EnterRedisLimit(r)
    \/ LoadActive(r) \/ LoadLimit(r) \/ Swap(r) \/ Handler(r) \/ Panic(r)
    \/ LeaveMetrics(r) \/ LeaveTelemetry(r) \/ LeaveOther(r) \/ Release(r) \/ UpdateLimit(r)
    \/ SSERecv(r) \/ FrameRecv(r) \/ WebSocketRecv(r)
    \/ SSESend(r) \/ FrameSend(r) \/ WebSocketSend(r)
    \/ EndSSE(r) \/ EndFrames(r) \/ EndWebSocket(r)
    \/ Reply(r) \/ Encode(r) \/ WriteOut(r)

Next == \E r \in Reqs : Arrive(r) \/ Step(r)

\* The scheduler runs every goroutine that can; handlers return.
Fairness == \A r \in Reqs : WF_vars(Step(r))

Spec == Init /\ [][Next]_vars /\ Fairness

-----------------------------------------------------------------------------

Ended(r) == pc[r] \in {"done", "panicked"}
Served(r) == pc[r] = "done"

\* The last part of the body of its answer.
LastPart(r) == w[r].body[Len(w[r].body)]

\* What the protocol of the request tells its client.
ClientSeesSuccess(r) ==
    /\ w[r].http = 200
    /\ kind[r] = "grpc" => w[r].sent = CodeOK
    /\ kind[r] = "web" => w[r].body # <<>> /\ LastPart(r).status = CodeOK

\* The message its handler should see, given the request.
Expected(q) ==
    CASE Binds(q)                                        -> {Bound(q.msg, PathParams(q))}
      [] ~IsJSON(q) /\ q.flag = 1 /\ q.encoding # "gzip" -> {"garbage", q.msg}
      [] OTHER                                           -> {q.msg}

\* The client of a unary call is told success exactly when its request was
\* decoded and passed every interceptor, the handler returned no error and
\* the response could be encoded; a success carries the result of the
\* client's own message.  The client of an SSE stream gets an error event
\* exactly when the StreamHandler failed, and [DONE] after it.  For a path with
\* no method no handler runs, and whoever is not refused before is told
\* UNIMPLEMENTED in grpc-status alone: a JSON client, which reads no such header,
\* has a 200 without a body.  Bytes that went through a pooled buffer are those
\* of the client's own request (grpc_handler.go, ServeHTTP and
\* responseBufferPool).
ClientLearnsOutcome ==
    \A r \in Reqs :
        /\ Served(r) /\ kind[r] \in {"json", "grpc", "web"} =>
              /\ ClientSeesSuccess(r) <=> (saw[r] # None /\ code[r] = CodeOK)
              /\ ClientSeesSuccess(r) => LastPart(r).msg \in Expected(req[r])
        /\ Served(r) /\ kind[r] = "sse" /\ w[r].http = 200 =>
              /\ w[r].body # <<>> /\ LastPart(r).msg = "DONE"
              /\ (code[r] # CodeOK) <=> \E i \in DOMAIN w[r].body : w[r].body[i].msg = "error"
        /\ Served(r) /\ kind[r] = "unknown" =>
              /\ saw[r] = None
              /\ w[r].http = 200 => w[r].sent = CodeUnimplemented /\ w[r].body = <<>>
        /\ \A i \in DOMAIN w[r].body : w[r].body[i].owner = r

\* A unary handler runs only inside its whole chain: the verdicts of the
\* authentication interceptors were good and the adaptive limiter's slot is
\* held (grpc_handler.go, getChainHandler).
HandlerInsideChain ==
    \A r \in Reqs :
        pc[r] = "handler" /\ kind[r] \in {"json", "grpc", "web"} =>
            \A i \in DOMAIN chain :
                /\ chain[i] = "jwt" => JWTVerdict(req[r]) = CodeOK
                /\ chain[i] = "apikey" => APIKeyVerdict(req[r]) = CodeOK
                /\ chain[i] = "adaptive" => r \in slots

\* The adaptive limiter counts the calls that hold a slot and those whose
\* handler panicked, and never more than maxLimit, although limit moves
\* between its load and the swap (ratelimit.go, Acquire and Release).  A
\* request that has ended, by whatever path, has no slot, no open span and no
\* buffer of the pool.
SlotAccounting ==
    /\ active = Cardinality(slots) + leaked
    /\ active \in 0..MaxLimit
    /\ \A r \in Reqs : Ended(r) => r \notin spans /\ r \notin slots /\ buffer[r] = None

\* All requests of a tenant are counted by one limiter, however their first
\* requests interleave (tenant_gateway.go, HTTPMiddleware).
OneLimiterPerTenant ==
    \A r, q \in Reqs :
        uses[r] # None /\ uses[q] # None /\ req[r].tenant = req[q].tenant => uses[r] = uses[q]

\* Every request ends: the swap loop of Acquire included (ratelimit.go).  As a
\* request that has ended stays so, this is a state that lasts.
RequestsEnd == <>[](\A r \in Reqs : pc[r] = "idle" \/ Ended(r))

\* docs/features.md says the runtime maps the code of a returned HelixError
\* to its HTTP status.
ErrorsMapped ==
    \A r \in Reqs :
        Served(r) /\ kind[r] = "json" /\ saw[r] # None /\ code[r] # CodeOK =>
            w[r].http = MapToHTTPStatus(code[r])

=============================================================================
