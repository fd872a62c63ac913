--------------------------- MODULE ServerLifecycle ---------------------------
(***************************************************************************)
(* The life of a Go server and its connections: Server.Start and Shutdown  *)
(* of runtimes/go/grpc_handler.go, the SniffingListener of sniffer.go that *)
(* routes a connection by its first bytes, the ChannelListener that hands  *)
(* HTTP connections to net/http, and HandleThriftConnection.               *)
(*                                                                         *)
(* A connection carries one request.  What net/http and h2c do is modelled *)
(* from how the code uses them: Server.Shutdown of net/http stops Serve,   *)
(* then waits for the connections it tracks; h2c takes a gRPC connection   *)
(* over (Hijack), after which net/http no longer tracks it.                *)
(***************************************************************************)
EXTENDS Naturals, FiniteSets

CONSTANTS
    GrpcConns, RestConns, ThriftConns,  \* connections, by the protocol their first bytes show
    Callers,                            \* goroutines that call Shutdown
    QueueSize,                          \* capacity of ChannelListener.Conns, 1024 in the code
    Processors                          \* number of registered Thrift processors

ASSUME QueueAssumption == QueueSize \in Nat \ {0} /\ Processors \in Nat

HttpConns == GrpcConns \cup RestConns
Conns == HttpConns \cup ThriftConns

VARIABLES
    startPc,         \* where Start is
    lnOpen,          \* the TCP or UDS listener accepts
    chClosed,        \* channelListener.Closed is closed
    servePc,         \* where the goroutine of httpServer.Serve is
    httpStopped,     \* httpServer.Shutdown was called
    inShutdown,
    conn,            \* where each connection is
    toAdd,           \* processors the Thrift handler of the sniffer has still to start on it
    handlers,        \* goroutines of HandleThriftConnection on it
    shutPc,          \* where each call of Shutdown is
    ctxDone,         \* the context of the call has ended
    err,             \* the call's err
    returned,        \* what the call returned
    sawListener,     \* history: Shutdown found snifferListener set
    late             \* history: connections still to be added when activeConns.Wait returned

startVars == <<startPc, lnOpen, servePc>>
connVars == <<conn, toAdd, handlers>>
histVars == <<sawListener, late>>
shutVars == <<inShutdown, httpStopped, chClosed, shutPc, ctxDone, err, returned, histVars>>
vars == <<startPc, lnOpen, chClosed, servePc, httpStopped, inShutdown, conn, toAdd, handlers,
          shutPc, ctxDone, err, returned, histVars>>

TypeOK ==
    /\ startPc \in {"new", "listening", "stored", "channel", "http", "accept", "wait",
                    "returned", "failed"}
    /\ lnOpen \in BOOLEAN /\ chClosed \in BOOLEAN /\ inShutdown \in BOOLEAN /\ httpStopped \in BOOLEAN
    /\ servePc \in {"none", "spawned", "serving", "ended"}
    /\ conn \in [Conns -> {"none", "sniffing", "routed", "queued", "http", "hijacked",
                           "thrift", "closed"}]
    /\ toAdd \in [Conns -> Nat] /\ handlers \in [Conns -> Nat]
    /\ shutPc \in [Callers -> {"idle", "closeSniffer", "closeChannel", "httpShutdown",
                               "httpWait", "wait", "done"}]
    /\ ctxDone \in [Callers -> BOOLEAN]
    /\ err \in [Callers -> {"nil", "ctx"}]
    /\ returned \in [Callers -> {"none", "already", "nil", "ctx"}]
    /\ sawListener \in BOOLEAN /\ late \subseteq Conns

\* NewServer.
Init ==
    /\ startPc = "new"
    /\ lnOpen = FALSE /\ chClosed = FALSE /\ inShutdown = FALSE /\ httpStopped = FALSE
    /\ servePc = "none"
    /\ conn = [c \in Conns |-> "none"]
    /\ toAdd = [c \in Conns |-> 0] /\ handlers = [c \in Conns |-> 0]
    /\ shutPc = [s \in Callers |-> "idle"]
    /\ ctxDone = [s \in Callers |-> FALSE]
    /\ err = [s \in Callers |-> "nil"]
    /\ returned = [s \in Callers |-> "none"]
    /\ sawListener = FALSE /\ late = {}

In(places) == {c \in Conns : conn[c] \in places}

\* Which fields Start has set; Shutdown tests them for nil.
HasSniffer == startPc \notin {"new", "listening", "failed"}
HasChannel == HasSniffer /\ startPc # "stored"
HasHttp == HasChannel /\ startPc # "channel"

-----------------------------------------------------------------------------
(* Start *)

\* net.Listen, and the chmod of a Unix socket.
Listen ==
    /\ startPc = "new"
    /\ \/ startPc' = "listening" /\ lnOpen' = TRUE
       \/ startPc' = "failed" /\ UNCHANGED lnOpen
    /\ UNCHANGED <<servePc, connVars, shutVars>>

\* Stores snifferListener, channelListener and httpServer, one after the other.
StoreField ==
    /\ \/ startPc = "listening" /\ startPc' = "stored"
       \/ startPc = "stored" /\ startPc' = "channel"
       \/ startPc = "channel" /\ startPc' = "http"
    /\ UNCHANGED <<lnOpen, servePc, connVars, shutVars>>

\* go Serve; then the accept loop of the sniffer runs in Start itself.
StartSniffer ==
    /\ startPc = "http"
    /\ startPc' = "accept"
    /\ servePc' = "spawned"
    /\ UNCHANGED <<lnOpen, connVars, shutVars>>

Accept(c) ==
    /\ startPc = "accept"
    /\ lnOpen
    /\ conn[c] = "none"
    /\ conn' = [conn EXCEPT ![c] = "sniffing"]
    /\ UNCHANGED <<startVars, toAdd, handlers, shutVars>>

\* Any error of Accept ends the loop: the listener was closed, or the error is one of
\* the system's, and the listener stays open with nobody to accept on it.
AcceptFails ==
    /\ startPc = "accept"
    /\ startPc' = "wait"
    /\ UNCHANGED <<lnOpen, servePc, connVars, shutVars>>

\* wg.Wait: every sniffAndRoute has returned.
StartReturns ==
    /\ startPc = "wait"
    /\ In({"sniffing", "routed"}) = {}
    /\ \A c \in Conns : toAdd[c] = 0
    /\ startPc' = "returned"
    /\ UNCHANGED <<lnOpen, servePc, connVars, shutVars>>

-----------------------------------------------------------------------------
(* sniffAndRoute *)

\* The first bytes show the protocol, after a TLS handshake if they ask for one.
Sniff(c) ==
    /\ conn[c] = "sniffing"
    /\ conn' = [conn EXCEPT ![c] = "routed"]
    /\ UNCHANGED <<startVars, toAdd, handlers, shutVars>>

\* No bytes before SniffTimeout, a failed TLS handshake, or an unknown protocol.
SniffFails(c) ==
    /\ conn[c] = "sniffing"
    /\ conn' = [conn EXCEPT ![c] = "closed"]
    /\ UNCHANGED <<startVars, toAdd, handlers, shutVars>>

\* The gRPC handler of the sniffer: the send blocks while the channel is full.
RouteHttp(c) ==
    /\ c \in HttpConns
    /\ conn[c] = "routed"
    /\ Cardinality(In({"queued"})) < QueueSize
    /\ conn' = [conn EXCEPT ![c] = "queued"]
    /\ UNCHANGED <<startVars, toAdd, handlers, shutVars>>

\* The Thrift handler of the sniffer: a look at inShutdown under the mutex ...
RouteThrift(c) ==
    /\ c \in ThriftConns
    /\ conn[c] = "routed"
    /\ IF inShutdown
       THEN conn' = [conn EXCEPT ![c] = "closed"] /\ UNCHANGED toAdd
       ELSE /\ conn' = [conn EXCEPT ![c] = "thrift"]
            /\ toAdd' = [toAdd EXCEPT ![c] = Processors]
    /\ UNCHANGED <<startVars, handlers, shutVars>>

\* ... and, after the unlock, activeConns.Add and a goroutine for one processor after
\* the other.
AddThrift(c) ==
    /\ toAdd[c] > 0
    /\ toAdd' = [toAdd EXCEPT ![c] = @ - 1]
    /\ handlers' = [handlers EXCEPT ![c] = @ + 1]
    /\ UNCHANGED <<startVars, conn, shutVars>>

\* Mutant: activeConns.Done is missing.
ThriftEnds_NoDone(c) ==
    /\ handlers[c] > 0
    /\ conn' = [conn EXCEPT ![c] = "closed"]
    /\ UNCHANGED <<toAdd, handlers, startVars, shutVars>>

\* A goroutine of HandleThriftConnection ends: it closes the connection.
ThriftEnds(c) ==
    /\ handlers[c] > 0
    /\ conn' = [conn EXCEPT ![c] = "closed"]
    /\ handlers' = [handlers EXCEPT ![c] = @ - 1]
    /\ UNCHANGED <<startVars, toAdd, shutVars>>

-----------------------------------------------------------------------------
(* net/http and h2c *)

\* Serve refuses to run, and closes its listener, after Shutdown.
ServeStarts ==
    /\ servePc = "spawned"
    /\ servePc' = IF httpStopped THEN "ended" ELSE "serving"
    /\ chClosed' = (chClosed \/ httpStopped)
    /\ UNCHANGED <<startPc, lnOpen, connVars, inShutdown, httpStopped, shutPc, ctxDone, err, returned,
                   histVars>>

\* ChannelListener.Accept: while it is closed, select may still choose a connection.
ServeAccepts(c) ==
    /\ servePc = "serving"
    /\ conn[c] = "queued"
    /\ conn' = [conn EXCEPT ![c] = "http"]
    /\ UNCHANGED <<startVars, toAdd, handlers, shutVars>>

ServeEnds ==
    /\ servePc = "serving"
    /\ chClosed
    /\ servePc' = "ended"
    /\ UNCHANGED <<startPc, lnOpen, connVars, shutVars>>

Hijack(c) ==
    /\ c \in GrpcConns
    /\ conn[c] = "http"
    /\ conn' = [conn EXCEPT ![c] = "hijacked"]
    /\ UNCHANGED <<startVars, toAdd, handlers, shutVars>>

HttpEnds(c) ==
    /\ conn[c] \in {"http", "hijacked"}
    /\ conn' = [conn EXCEPT ![c] = "closed"]
    /\ UNCHANGED <<startVars, toAdd, handlers, shutVars>>

-----------------------------------------------------------------------------
(* Shutdown *)

Goto(s, label) == shutPc' = [shutPc EXCEPT ![s] = label]

Finish(s, value) ==
    /\ Goto(s, "done")
    /\ returned' = [returned EXCEPT ![s] = value]

\* A call that finds inShutdown set returns nil at once ("already" here).
ShutdownCall(s) ==
    /\ shutPc[s] = "idle"
    /\ IF inShutdown THEN Finish(s, "already")
       ELSE Goto(s, "closeSniffer") /\ UNCHANGED returned
    /\ inShutdown' = TRUE
    /\ UNCHANGED <<startVars, connVars, httpStopped, chClosed, ctxDone, err, histVars>>

CloseSniffer(s) ==
    /\ shutPc[s] = "closeSniffer"
    /\ lnOpen' = (lnOpen /\ ~HasSniffer)
    /\ sawListener' = HasSniffer
    /\ Goto(s, "closeChannel")
    /\ UNCHANGED <<startPc, servePc, connVars, inShutdown, httpStopped, chClosed, ctxDone, err, returned, late>>

CloseChannel(s) ==
    /\ shutPc[s] = "closeChannel"
    /\ chClosed' = (chClosed \/ HasChannel)
    /\ Goto(s, "httpShutdown")
    /\ UNCHANGED <<startVars, connVars, inShutdown, httpStopped, ctxDone, err, returned, histVars>>

\* Mutant: httpServer.Shutdown runs in a goroutine of its own.
HttpShutdown_Async(s) ==
    /\ shutPc[s] = "httpShutdown"
    /\ httpStopped' = HasHttp
    /\ chClosed' = (chClosed \/ (HasHttp /\ servePc = "serving"))
    /\ Goto(s, "wait")
    /\ UNCHANGED <<startVars, connVars, inShutdown, ctxDone, err, returned, histVars>>

\* httpServer.Shutdown, when there is a server, closes the listener Serve works on.
HttpShutdown(s) ==
    /\ shutPc[s] = "httpShutdown"
    /\ httpStopped' = HasHttp
    /\ chClosed' = (chClosed \/ (HasHttp /\ servePc = "serving"))
    /\ Goto(s, IF HasHttp THEN "httpWait" ELSE "wait")
    /\ UNCHANGED <<startVars, connVars, inShutdown, ctxDone, err, returned, histVars>>

\* It returns when Serve has ended and no connection it tracks is active ...
HttpDrained(s) ==
    /\ shutPc[s] = "httpWait"
    /\ servePc # "serving"
    /\ In({"http"}) = {}
    /\ Goto(s, "wait")
    /\ UNCHANGED <<startVars, connVars, inShutdown, httpStopped, chClosed, ctxDone, err, returned, histVars>>

\* ... or when the context ends.
HttpCtx(s) ==
    /\ shutPc[s] = "httpWait"
    /\ ctxDone[s]
    /\ err' = [err EXCEPT ![s] = "ctx"]
    /\ Goto(s, "wait")
    /\ UNCHANGED <<startVars, connVars, inShutdown, httpStopped, chClosed, ctxDone, returned, histVars>>

\* activeConns.Wait returned.
WaitDone(s) ==
    /\ shutPc[s] = "wait"
    /\ \A c \in Conns : handlers[c] = 0
    /\ Finish(s, err[s])
    /\ late' = {c \in Conns : toAdd[c] > 0}
    /\ UNCHANGED <<startVars, connVars, inShutdown, httpStopped, chClosed, ctxDone, err, sawListener>>

\* Mutant: the context is looked at when the handlers are done.
WaitCtx_AfterHandlers(s) ==
    /\ shutPc[s] = "wait"
    /\ ctxDone[s]
    /\ \A c \in Conns : handlers[c] = 0
    /\ Finish(s, "ctx")
    /\ UNCHANGED <<startVars, connVars, inShutdown, httpStopped, chClosed, ctxDone, err, histVars>>

WaitCtx(s) ==
    /\ shutPc[s] = "wait"
    /\ ctxDone[s]
    /\ Finish(s, "ctx")
    /\ UNCHANGED <<startVars, connVars, inShutdown, httpStopped, chClosed, ctxDone, err, histVars>>

CtxEnds(s) ==
    /\ shutPc[s] \notin {"idle", "done"}
    /\ ~ctxDone[s]
    /\ ctxDone' = [ctxDone EXCEPT ![s] = TRUE]
    /\ UNCHANGED <<startVars, connVars, inShutdown, httpStopped, chClosed, shutPc, err, returned, histVars>>

-----------------------------------------------------------------------------
\* The steps of Start that nothing but itself holds up; an error of Accept is due only
\* when the listener is closed.
Starting ==
    \/ Listen
    \/ StoreField
    \/ StartSniffer
    \/ ~lnOpen /\ AcceptFails
    \/ StartReturns

Routing(c) == Sniff(c) \/ RouteHttp(c) \/ RouteThrift(c) \/ AddThrift(c)

Closing(s) ==
    \/ CloseSniffer(s)
    \/ CloseChannel(s)
    \/ HttpShutdown(s)
    \/ HttpDrained(s)
    \/ HttpCtx(s)
    \/ WaitDone(s)
    \/ WaitCtx(s)

Next ==
    \/ Starting
    \/ AcceptFails
    \/ ServeStarts
    \/ ServeEnds
    \/ \E c \in Conns :
          \/ Accept(c)
          \/ SniffFails(c)
          \/ Routing(c)
          \/ ServeAccepts(c)
          \/ Hijack(c)
          \/ ThriftEnds(c)
          \/ HttpEnds(c)
    \/ \E s \in Callers : ShutdownCall(s) \/ Closing(s) \/ CtxEnds(s)

Spec == Init /\ [][Next]_vars

\* Goroutines that can run do run; select chooses every ready case in the end.
SchedulerFairness ==
    /\ WF_vars(Starting)
    /\ WF_vars(ServeStarts)
    /\ WF_vars(ServeEnds)
    /\ \A c \in Conns : WF_vars(Routing(c)) /\ WF_vars(ServeAccepts(c))
    /\ \A s \in Callers : WF_vars(Closing(s))

\* Handlers may run for ever.
FairSpec == Spec /\ SchedulerFairness

\* Every request ends.
RequestsEnd == \A c \in Conns : WF_vars(HttpEnds(c)) /\ WF_vars(ThriftEnds(c))

-----------------------------------------------------------------------------
(* Properties *)

Graceful == \E s \in Callers : returned[s] = "nil"

\* When Shutdown reports success, and from then on:
\*   - if it found the listener, that is closed and no request that net/http tracks
\*     runs or will run, whichever of the other fields Start had not stored yet;
\*   - a Thrift request runs only on a connection that had passed the look at inShutdown
\*     and was still being added when activeConns.Wait returned.
\* A Shutdown that came before Start stored the listener also reports success, and
\* promises nothing about HTTP: Start goes on to serve.
ShutdownDrains ==
    Graceful =>
        /\ sawListener => ~lnOpen /\ In({"http"}) = {}
        /\ \A c \in Conns : handlers[c] + toAdd[c] > 0 => c \in late

\* Shutdown returns when its context ends, whatever the handlers do.
ShutdownEndsWithCtx == \A s \in Callers : ctxDone[s] ~> shutPc[s] = "done"

\* Shutdown returns without the context's help when every request ends, and it
\* ends the accept loop of a server that is running when it starts.
ShutdownCompletes ==
    /\ RequestsEnd => \A s \in Callers : shutPc[s] = "closeSniffer" ~> shutPc[s] = "done"
    /\ \A s \in Callers : shutPc[s] = "closeSniffer" /\ startPc = "accept" ~> startPc # "accept"

\* Shutdown lets gRPC requests drain before it reports success.
GrpcDrained == Graceful /\ httpStopped => In({"hijacked"}) = {}

=============================================================================
