---------------------------- MODULE MCAdmission -----------------------------
(***************************************************************************)
(* Model-checking instances of what a request passes in the Go runtime:    *)
(* the pipeline of ServeHTTP (Gateway) and the token buckets (Buckets).  A *)
(* behaviour is one of the pipeline or one of a bucket.                    *)
(***************************************************************************)
EXTENDS Gateway, Buckets, TLC

CONSTANTS r1, r2                   \* requests

MCReqs == {r1, r2}

MCSkew == [s \in Goroutines |-> 0]

Lit(s) == [s |-> s, param |-> FALSE]
Param(s) == [s |-> s, param |-> TRUE]

MCMethods ==
    (<<"svc", "Get">> :> [streaming |-> FALSE, binder |-> TRUE, proto |-> TRUE, flat |-> TRUE])
    @@ (<<"svc", "Old">> :> [streaming |-> FALSE, binder |-> FALSE, proto |-> FALSE, flat |-> FALSE])
    @@ (<<"svc", "Watch">> :> [streaming |-> TRUE, binder |-> FALSE, proto |-> TRUE, flat |-> TRUE])

\* The second route is shadowed by the first, whose parameter matches "me".
MCRoutes ==
    << [verb |-> "GET", parts |-> <<Lit("users"), Param("id")>>, target |-> <<"svc", "Get">>],
       [verb |-> "GET", parts |-> <<Lit("users"), Lit("me")>>, target |-> <<"svc", "Old">>],
       [verb |-> "GET", parts |-> <<Lit("events")>>, target |-> <<"svc", "Watch">>] >>

Limited == <<"telemetry", "jwt", "adaptive">>
Metered == <<"logging", "metrics", "apikey">>

MCDeployments ==
    {[front |-> "plain", chain |-> Limited, limit |-> 1],
     [front |-> "plain", chain |-> Limited, limit |-> 2],
     [front |-> "plain", chain |-> Metered, limit |-> 1],
     [front |-> "tenant", chain |-> <<"redis">>, limit |-> 1],
     [front |-> "metrics", chain |-> <<"redis">>, limit |-> 1],
     [front |-> "jwt", chain |-> Metered, limit |-> 1]}

Call(m) ==
    [verb |-> "POST", path |-> <<"svc", m>>, query |-> << >>, ctype |-> "grpc", sse |-> FALSE,
     upgrade |-> FALSE, encoding |-> None, flag |-> 0, good |-> TRUE, msg |-> "m",
     auth |-> "good", apiKey |-> None, tenant |-> None]

Get(p) == [Call("Get") EXCEPT !.verb = "GET", !.path = p, !.ctype = None]

Forms ==
    {Call("Get"), Call("Old"), Call("None"), Call("Watch"),
     [Call("None") EXCEPT !.ctype = "json"],
     [Call("Get") EXCEPT !.flag = 1],
     [Call("Get") EXCEPT !.path = <<"__helix", "debug">>],
     [Call("Get") EXCEPT !.tenant = "bad", !.auth = None],
     [Call("Get") EXCEPT !.tenant = "t", !.ctype = "json"],
     [Call("Get") EXCEPT !.ctype = "web", !.encoding = "gzip", !.flag = 1, !.auth = None, !.apiKey = "good"],
     [Call("Get") EXCEPT !.ctype = "webtext", !.good = FALSE, !.tenant = "t"],
     [Call("Get") EXCEPT !.encoding = "other", !.flag = 1, !.auth = "malformed", !.apiKey = "good"],
     [Call("Get") EXCEPT !.ctype = "flat", !.auth = "expired"],
     [Call("Old") EXCEPT !.ctype = "flat"],
     [Call("Old") EXCEPT !.ctype = "web", !.auth = "noclaim"],
     [Call("Old") EXCEPT !.ctype = "json"],
     [Call("Get") EXCEPT !.ctype = "json", !.good = FALSE],
     [Call("Watch") EXCEPT !.sse = TRUE],
     [Call("Watch") EXCEPT !.ctype = "json", !.good = FALSE],
     [Call("Watch") EXCEPT !.ctype = "flat"],
     [Call("Watch") EXCEPT !.upgrade = TRUE],
     Get(<<"users", "7">>), Get(<<"users", "me">>), Get(<<"events">>), Get(<<"users">>),
     [Get(<<"users", "7">>) EXCEPT !.query = "id" :> "8"]}

\* One request of every form, with another beside it of a common one.
MCRequests == (r1 :> Forms) @@ (r2 :> {[Call("Get") EXCEPT !.tenant = "t", !.ctype = "json"]})

-----------------------------------------------------------------------------
allVars == <<vars, bucketsVars>>

\* While a bucket moves, the pipeline of one deployment is at rest.
AtRest ==
    LET d == CHOOSE d \in Deployments : d.chain = <<"redis">> /\ d.front = "tenant"
    IN  Init /\ front = d.front /\ chain = d.chain /\ limit = d.limit

BucketsOff ==
    /\ at = Off /\ clock = Off /\ now = Off /\ cur = Off /\ granted = Off /\ credited = Off
    /\ HedgeOff /\ ClientOff /\ bucket = Off

MCInit ==
    \/ BucketsInit /\ AtRest
    \/ which = "gateway" /\ BucketsOff /\ Init

GatewayStep == which = "gateway" /\ Next /\ UNCHANGED bucketsVars

MCNext ==
    \/ GatewayStep
    \/ BucketsNext /\ UNCHANGED vars

MCSpec ==
    /\ MCInit /\ [][MCNext]_allVars
    /\ BucketsFairness
    /\ \A r \in Reqs : WF_vars(which = "gateway" /\ Step(r))
=============================================================================
