------------------------ MODULE ServerLifecycleProofs -----------------------
(***************************************************************************)
(* Proof, for any sets of connections and callers, any number of           *)
(* processors and any capacity of the channel, of what a Shutdown that     *)
(* reports success has drained: ShutdownDrains.                            *)
(***************************************************************************)
EXTENDS ServerLifecycle, TLAPS

\* The caller that shuts the server down: the one that found inShutdown clear.
Working(s) == shutPc[s] # "idle" /\ returned[s] # "already"

\* No request that net/http tracks runs and none can start: net/http was stopped and
\* has drained, or the listener was closed before Start accepted from it.
HttpQuiet ==
    \/ httpStopped /\ servePc # "serving" /\ \A c \in Conns : conn[c] # "http"
    \/ ~lnOpen /\ startPc # "new" /\ \A c \in Conns : conn[c] = "none"

\* The call has passed httpServer.Shutdown without an error.
PassedHttp(s) == (shutPc[s] = "wait" /\ err[s] = "nil") \/ returned[s] = "nil"

\* A Thrift request runs, or is about to, only on a connection of late.
OnlyLate == \A c \in Conns : handlers[c] + toAdd[c] > 0 => c \in late

\* What one call of Shutdown knows at its place.
CallInv(s) ==
    /\ shutPc[s] # "done" => returned[s] = "none"
    /\ shutPc[s] # "idle" => inShutdown
    /\ shutPc[s] = "httpWait" => httpStopped
    /\ PassedHttp(s) /\ sawListener => HttpQuiet
    /\ returned[s] = "nil" => OnlyLate

\* Start accepts nothing before it runs the sniffer, and a listener that Shutdown found
\* is closed for good.
ListenerInv ==
    /\ startPc \notin {"accept", "wait", "returned"} => \A c \in Conns : conn[c] = "none"
    /\ \A c \in Conns : conn[c] = "none" => toAdd[c] = 0 /\ handlers[c] = 0
    /\ sawListener => ~lnOpen /\ HasSniffer

ShutdownInv ==
    /\ TypeOK
    /\ ListenerInv
    /\ \A s, t \in Callers : Working(s) /\ Working(t) => s = t
    /\ \A s \in Callers : CallInv(s)

\* NewServer.
LEMMA ShutdownInvInit == Init => ShutdownInv
<1> SUFFICES ASSUME Init PROVE ShutdownInv
  OBVIOUS
<1>1. TypeOK
  BY QueueAssumption DEF Init, TypeOK
<1>2. ListenerInv
  BY DEF Init, ListenerInv
<1>3. \A s \in Callers : CallInv(s) /\ ~Working(s)
  BY DEF Init, CallInv, PassedHttp, Working
<1>4. QED
  BY <1>1, <1>2, <1>3 DEF ShutdownInv

\* A step of Start: what it may do to the state of Start and of Serve.
LEMMA StartStep ==
    ASSUME Starting \/ AcceptFails
    PROVE  /\ UNCHANGED <<connVars, shutVars>>
           /\ \/ /\ startPc = "new" /\ servePc' = servePc
                 /\ \/ startPc' = "listening" /\ lnOpen' = TRUE
                    \/ startPc' = "failed" /\ lnOpen' = lnOpen
              \/ /\ lnOpen' = lnOpen /\ servePc' = servePc
                 /\ \/ startPc = "listening" /\ startPc' = "stored"
                    \/ startPc = "stored" /\ startPc' = "channel"
                    \/ startPc = "channel" /\ startPc' = "http"
                    \/ startPc = "accept" /\ startPc' = "wait"
                    \/ startPc = "wait" /\ startPc' = "returned"
              \/ startPc = "http" /\ startPc' = "accept" /\ servePc' = "spawned" /\ lnOpen' = lnOpen
<1>1. CASE Listen
  BY Zenon, <1>1 DEF Listen
<1>2. CASE StoreField
  BY Zenon, <1>2 DEF StoreField
<1>3. CASE StartSniffer
  BY Zenon, <1>3 DEF StartSniffer
<1>4. CASE AcceptFails
  BY Zenon, <1>4 DEF AcceptFails
<1>5. CASE StartReturns
  BY Zenon, <1>5 DEF StartReturns
<1>6. QED
  BY Zenon, <1>1, <1>2, <1>3, <1>4, <1>5 DEF Starting

\* A step on a connection: what it may do to that connection.
ConnStep(c) ==
    \/ Accept(c) \/ SniffFails(c) \/ Routing(c) \/ ServeAccepts(c)
    \/ Hijack(c) \/ ThriftEnds(c) \/ HttpEnds(c)

LEMMA ConnStepFrame ==
    ASSUME NEW c \in Conns, ConnStep(c)
    PROVE  /\ UNCHANGED <<startVars, shutVars>>
           /\ \/ UNCHANGED conn
              \/ \E v \in {"sniffing", "routed", "queued", "http", "hijacked", "thrift", "closed"} :
                    /\ conn' = [conn EXCEPT ![c] = v]
                    /\ conn[c] = "none" => (lnOpen /\ startPc = "accept") \/ handlers[c] > 0
                    /\ v = "http" => servePc = "serving"
<1>1. CASE Accept(c)
  BY Zenon, <1>1 DEF Accept
<1>2. CASE SniffFails(c) \/ Sniff(c) \/ RouteHttp(c)
  BY <1>2 DEF SniffFails, Sniff, RouteHttp
<1>3. CASE RouteThrift(c)
  BY <1>3 DEF RouteThrift
<1>4. CASE AddThrift(c)
  BY Zenon, <1>4 DEF AddThrift
<1>5. CASE ServeAccepts(c) \/ Hijack(c) \/ HttpEnds(c)
  BY <1>5 DEF ServeAccepts, Hijack, HttpEnds
<1>6. CASE ThriftEnds(c)
  BY Zenon, <1>6 DEF ThriftEnds
<1>7. QED
  BY Zenon, <1>1, <1>2, <1>3, <1>4, <1>5, <1>6 DEF ConnStep, Routing

\* What a step on a connection does to the Thrift goroutines on it.
LEMMA ThriftCounts ==
    ASSUME TypeOK, NEW c \in Conns, ConnStep(c)
    PROVE  /\ toAdd' \in [Conns -> Nat] /\ handlers' \in [Conns -> Nat]
           /\ \A d \in Conns : d # c => toAdd'[d] = toAdd[d] /\ handlers'[d] = handlers[d]
           /\ inShutdown /\ toAdd[c] = 0 /\ handlers[c] = 0 => toAdd'[c] = 0 /\ handlers'[c] = 0
           /\ conn'[c] = "none" => UNCHANGED <<toAdd, handlers>> \/ toAdd[c] > 0
<1> USE QueueAssumption DEF TypeOK
<1>1. CASE UNCHANGED <<toAdd, handlers>>
  BY <1>1
<1>2. CASE RouteThrift(c)
  BY <1>2 DEF RouteThrift
<1>3. CASE AddThrift(c)
  BY <1>3 DEF AddThrift
<1>4. CASE ThriftEnds(c)
  BY <1>4 DEF ThriftEnds
<1>5. ConnStep(c) /\ ~RouteThrift(c) /\ ~AddThrift(c) /\ ~ThriftEnds(c) => UNCHANGED <<toAdd, handlers>>
  BY Zenon DEF ConnStep, Routing, Accept, SniffFails, Sniff, RouteHttp, ServeAccepts, Hijack, HttpEnds
<1>6. QED
  BY Zenon, <1>1, <1>2, <1>3, <1>4, <1>5

\* A step keeps the types.
LEMMA ShutdownTypes == TypeOK /\ [Next]_vars => TypeOK'
<1> SUFFICES ASSUME TypeOK, [Next]_vars PROVE TypeOK'
  OBVIOUS
<1> USE QueueAssumption DEF TypeOK, connVars, startVars, shutVars, histVars
<1>1. CASE Starting \/ AcceptFails
  <2>1. /\ startPc' \in {"new", "listening", "stored", "channel", "http", "accept", "wait",
                         "returned", "failed"}
        /\ servePc' \in {"none", "spawned", "serving", "ended"}
    <3> HIDE QueueAssumption DEF connVars, startVars, shutVars, histVars
    <3>1. QED
      BY <1>1, StartStep
  <2>2. lnOpen' \in BOOLEAN /\ UNCHANGED <<connVars, shutVars>>
    BY Zenon, <1>1, StartStep
  <2>3. QED
    BY Zenon, <2>1, <2>2
<1>2. CASE ServeStarts \/ ServeEnds
  BY <1>2 DEF ServeStarts, ServeEnds
<1>3. ASSUME NEW c \in Conns, ConnStep(c) PROVE TypeOK'
  <2>1. conn' \in [Conns -> {"none", "sniffing", "routed", "queued", "http", "hijacked",
                             "thrift", "closed"}]
    BY <1>3, ConnStepFrame
  <2>2. toAdd' \in [Conns -> Nat] /\ handlers' \in [Conns -> Nat]
    BY <1>3, ThriftCounts
  <2>3. UNCHANGED <<startVars, shutVars>>
    BY <1>3, ConnStepFrame
  <2>4. QED
    BY Zenon, <2>1, <2>2, <2>3 DEF histVars
<1>5. ASSUME NEW s \in Callers, ShutdownCall(s) \/ CtxEnds(s) PROVE TypeOK'
  <2>1. CASE ShutdownCall(s) /\ inShutdown
    BY <2>1 DEF ShutdownCall, Goto, Finish, histVars
  <2>2. CASE ShutdownCall(s) /\ ~inShutdown
    BY <2>2 DEF ShutdownCall, Goto
  <2>3. CASE CtxEnds(s)
    BY <2>3 DEF CtxEnds
  <2>4. QED
    BY <1>5, <2>1, <2>2, <2>3
<1>6. ASSUME NEW s \in Callers, Closing(s) PROVE TypeOK'
  <2>1. CASE CloseSniffer(s)
    <3>1. lnOpen' \in BOOLEAN /\ sawListener' \in BOOLEAN
      BY <2>1 DEF CloseSniffer, HasSniffer
    <3>2. QED
      BY <2>1, <3>1 DEF CloseSniffer, Goto
  <2>2. CASE CloseChannel(s)
    BY <2>2 DEF CloseChannel, Goto
  <2>3. CASE HttpShutdown(s)
    <3>1. httpStopped' \in BOOLEAN
      BY <2>3 DEF HttpShutdown, HasHttp
    <3>2. QED
      BY <2>3, <3>1 DEF HttpShutdown, Goto
  <2>4. CASE HttpDrained(s) \/ HttpCtx(s)
    BY <2>4 DEF HttpDrained, HttpCtx, Goto
  <2>5. CASE WaitDone(s) \/ WaitCtx(s)
    <3>1. err[s] \in {"none", "already", "nil", "ctx"}
      OBVIOUS
    <3>2. QED
      BY <2>5, <3>1 DEF WaitDone, WaitCtx, Goto, Finish
  <2>6. QED
    BY <1>6, <2>1, <2>2, <2>3, <2>4, <2>5 DEF Closing
<1>7. CASE UNCHANGED vars
  BY <1>7 DEF vars
<1>8. QED
  BY Zenon, <1>1, <1>2, <1>3, <1>5, <1>6, <1>7 DEF Next, ConnStep

\* A step of anybody but Shutdown leaves Shutdown's own state alone.
ServerStep ==
    \/ Starting \/ AcceptFails \/ ServeStarts \/ ServeEnds
    \/ \E c \in Conns : ConnStep(c)

callVars == <<inShutdown, httpStopped, shutPc, err, returned, sawListener, late>>

LEMMA ServerStepFrame == ServerStep => UNCHANGED callVars
<1>1. Starting \/ AcceptFails => UNCHANGED shutVars
  BY Zenon, StartStep
<1>2. ServeStarts \/ ServeEnds => UNCHANGED callVars
  BY Zenon DEF ServeStarts, ServeEnds, shutVars, histVars, callVars
<1>3. \A c \in Conns : ConnStep(c) => UNCHANGED shutVars
  BY Zenon, ConnStepFrame
<1>4. UNCHANGED shutVars => UNCHANGED callVars
  BY Zenon DEF shutVars, histVars, callVars
<1>5. QED
  BY Zenon, <1>1, <1>2, <1>3, <1>4 DEF ServerStep

\* They cannot undo a drain: once net/http is stopped Serve takes no new connection, and
\* from a closed listener Start accepts none.
LEMMA QuietStays ==
    ASSUME TypeOK, ListenerInv, HttpQuiet, ServerStep
    PROVE  HttpQuiet'
<1>0. httpStopped' = httpStopped
  BY Zenon, ServerStepFrame DEF callVars
<1>1. CASE Starting \/ AcceptFails
  <2>1. conn' = conn
    BY Zenon, <1>1, StartStep DEF connVars
  <2>2. servePc' = "serving" => servePc = "serving"
    BY <1>1, StartStep
  <2>3. startPc # "new" => startPc' # "new" /\ lnOpen' = lnOpen
    BY <1>1, StartStep
  <2>4. QED
    BY Zenon, <1>0, <2>1, <2>2, <2>3 DEF HttpQuiet
<1>2. CASE ServeStarts \/ ServeEnds
  BY <1>0, <1>2 DEF ServeStarts, ServeEnds, HttpQuiet, connVars
<1>3. ASSUME NEW c \in Conns, ConnStep(c) PROVE HttpQuiet'
  <2>1. UNCHANGED <<startPc, lnOpen, servePc>>
    BY Zenon, <1>3, ConnStepFrame DEF startVars
  <2>2. CASE conn' = conn
    BY Zenon, <1>0, <2>1, <2>2 DEF HttpQuiet
  <2>3. CASE conn' # conn
    <3>1. PICK v \in {"sniffing", "routed", "queued", "http", "hijacked", "thrift", "closed"} :
             /\ conn' = [conn EXCEPT ![c] = v]
             /\ conn[c] = "none" => (lnOpen /\ startPc = "accept") \/ handlers[c] > 0
             /\ v = "http" => servePc = "serving"
      BY Zenon, <1>3, <2>3, ConnStepFrame
    <3>2. conn[c] = "none" => lnOpen
      BY <3>1 DEF ListenerInv
    <3>3. servePc # "serving" /\ httpStopped /\ \A d \in Conns : conn[d] # "http"
      BY Zenon, <3>2 DEF HttpQuiet
    <3>4. \A d \in Conns : conn'[d] # "http"
      BY <3>1, <3>3 DEF TypeOK
    <3>5. QED
      BY Zenon, <1>0, <2>1, <3>3, <3>4 DEF HttpQuiet
  <2>4. QED
    BY <2>2, <2>3
<1>4. QED
  BY Zenon, <1>1, <1>2, <1>3 DEF ServerStep

\* Once inShutdown is set they start no Thrift request on another connection.
LEMMA LateStays ==
    ASSUME TypeOK, OnlyLate, inShutdown, ServerStep
    PROVE  OnlyLate'
<1>0. late' = late
  BY Zenon, ServerStepFrame DEF callVars
<1>1. ASSUME UNCHANGED connVars PROVE OnlyLate'
  BY <1>0, <1>1 DEF OnlyLate, connVars
<1>2. CASE Starting \/ AcceptFails
  BY Zenon, <1>1, <1>2, StartStep
<1>3. CASE ServeStarts \/ ServeEnds
  BY Zenon, <1>1, <1>3 DEF ServeStarts, ServeEnds
<1>4. ASSUME NEW c \in Conns, ConnStep(c) PROVE OnlyLate'
  <2> SUFFICES ASSUME NEW d \in Conns, handlers'[d] + toAdd'[d] > 0 PROVE d \in late
    BY <1>0 DEF OnlyLate
  <2>1. CASE d # c
    BY <1>4, <2>1, ThriftCounts DEF OnlyLate
  <2>2. CASE d = c
    <3>1. ~(toAdd[c] = 0 /\ handlers[c] = 0)
      BY <1>4, <2>2, ThriftCounts
    <3>2. QED
      BY <2>2, <3>1 DEF OnlyLate, TypeOK
  <2>3. QED
    BY <2>1, <2>2
<1>5. QED
  BY Zenon, <1>2, <1>3, <1>4 DEF ServerStep

\* They keep what is known of the listener.
LEMMA ListenerStays ==
    ASSUME TypeOK, ListenerInv, ServerStep
    PROVE  ListenerInv'
<1>0. sawListener' = sawListener
  BY Zenon, ServerStepFrame DEF callVars
<1>1. CASE Starting \/ AcceptFails
  <2>1. UNCHANGED <<conn, toAdd, handlers>>
    BY Zenon, <1>1, StartStep DEF connVars
  <2>2. startPc \in {"accept", "wait", "returned"} => startPc' \in {"accept", "wait", "returned"}
    BY <1>1, StartStep
  <2>3. HasSniffer => HasSniffer' /\ lnOpen' = lnOpen
    BY <1>1, StartStep DEF HasSniffer, TypeOK
  <2>4. QED
    BY <1>0, <2>1, <2>2, <2>3 DEF ListenerInv
<1>2. CASE ServeStarts \/ ServeEnds
  BY <1>0, <1>2 DEF ServeStarts, ServeEnds, ListenerInv, HasSniffer, connVars
<1>3. ASSUME NEW c \in Conns, ConnStep(c) PROVE ListenerInv'
  <2>1. UNCHANGED <<startPc, lnOpen>>
    BY Zenon, <1>3, ConnStepFrame DEF startVars
  <2>2. startPc \notin {"accept", "wait", "returned"} => conn' = conn
    <3> SUFFICES ASSUME startPc \notin {"accept", "wait", "returned"}, conn' # conn PROVE FALSE
      OBVIOUS
    <3>1. conn[c] = "none" => (lnOpen /\ startPc = "accept") \/ handlers[c] > 0
      BY Zenon, <1>3, ConnStepFrame
    <3>2. conn[c] = "none" /\ ~(handlers[c] > 0)
      BY DEF ListenerInv
    <3>3. QED
      BY <3>1, <3>2
  <2>3. ASSUME NEW d \in Conns, conn'[d] = "none" PROVE toAdd'[d] = 0 /\ handlers'[d] = 0
    <3>1. conn[d] = "none"
      <4>1. CASE conn' = conn
        BY <2>3, <4>1
      <4>2. CASE conn' # conn
        BY <1>3, <2>3, <4>2, ConnStepFrame DEF TypeOK
      <4>3. QED
        BY <4>1, <4>2
    <3>2. toAdd[d] = 0 /\ handlers[d] = 0
      BY <3>1 DEF ListenerInv
    <3>3. CASE d # c
      BY Zenon, <1>3, <3>2, <3>3, ThriftCounts
    <3>4. CASE d = c
      <4>1. UNCHANGED <<toAdd, handlers>>
        BY <1>3, <2>3, <3>2, <3>4, ThriftCounts
      <4>2. QED
        BY <3>2, <4>1
    <3>5. QED
      BY <3>3, <3>4
  <2>4. HasSniffer' = HasSniffer
    BY Zenon, <2>1 DEF HasSniffer
  <2>5. QED
    BY Zenon, <1>0, <2>1, <2>2, <2>3, <2>4 DEF ListenerInv
<1>4. QED
  BY Zenon, <1>1, <1>2, <1>3 DEF ServerStep

\* A step of Shutdown touches no connection, and may only close the listener.
LEMMA ClosingFrame ==
    ASSUME NEW s \in Callers, Closing(s)
    PROVE  /\ UNCHANGED <<startPc, servePc, conn, toAdd, handlers, inShutdown>>
           /\ (lnOpen' = lnOpen /\ sawListener' = sawListener) \/ CloseSniffer(s)
           /\ httpStopped' = httpStopped \/ HttpShutdown(s)
           /\ late' = late \/ WaitDone(s)
           /\ shutPc[s] \in {"closeSniffer", "closeChannel", "httpShutdown", "httpWait", "wait"}
           /\ \E l \in {"closeChannel", "httpShutdown", "httpWait", "wait", "done"} :
                 /\ shutPc' = [shutPc EXCEPT ![s] = l]
                 /\ l # "done" => returned' = returned
           /\ returned' = returned \/ \E v : returned' = [returned EXCEPT ![s] = v]
           /\ err' = err \/ \E v : err' = [err EXCEPT ![s] = v]
<1> USE DEF connVars, startVars, histVars, Goto, Finish
<1>1. CASE CloseSniffer(s) \/ CloseChannel(s)
  BY Zenon, <1>1 DEF CloseSniffer, CloseChannel
<1>2. CASE HttpShutdown(s)
  BY Zenon, <1>2 DEF HttpShutdown
<1>3. CASE HttpDrained(s) \/ HttpCtx(s)
  BY Zenon, <1>3 DEF HttpDrained, HttpCtx
<1>4. CASE WaitDone(s) \/ WaitCtx(s)
  BY Zenon, <1>4 DEF WaitDone, WaitCtx
<1>5. QED
  BY Zenon, <1>1, <1>2, <1>3, <1>4 DEF Closing

\* A step of the call that shuts down keeps what the call knows.
LEMMA ClosingKeeps ==
    ASSUME TypeOK, ListenerInv, NEW s \in Callers, CallInv(s), Closing(s)
    PROVE  CallInv(s)' /\ ListenerInv'
<1>0. /\ UNCHANGED <<startPc, servePc, conn, toAdd, handlers, inShutdown>>
      /\ shutPc[s] \notin {"idle", "done"} /\ inShutdown /\ returned[s] = "none"
      /\ shutPc'[s] # "done" => returned'[s] = "none"
  <2>1. shutPc[s] \in {"closeSniffer", "closeChannel", "httpShutdown", "httpWait", "wait"}
    BY ClosingFrame
  <2>2. returned[s] = "none" /\ inShutdown
    BY <2>1 DEF CallInv
  <2>3. shutPc'[s] # "done" => returned' = returned
    BY ClosingFrame DEF TypeOK
  <2>4. QED
    BY <2>1, <2>2, <2>3, ClosingFrame
<1>1. HasSniffer' = HasSniffer
  BY Zenon, <1>0 DEF HasSniffer
<1>2. ListenerInv'
  <2>1. CASE CloseSniffer(s)
    <3>1. sawListener' => ~lnOpen' /\ HasSniffer
      BY <2>1 DEF CloseSniffer
    <3>2. QED
      BY Zenon, <1>0, <1>1, <3>1 DEF ListenerInv
  <2>2. CASE lnOpen' = lnOpen /\ sawListener' = sawListener
    BY Zenon, <1>0, <1>1, <2>2 DEF ListenerInv
  <2>3. QED
    BY Zenon, <2>1, <2>2, ClosingFrame
<1>3. shutPc'[s] = "httpWait" => httpStopped'
  <2>1. CASE HttpShutdown(s)
    BY <2>1 DEF HttpShutdown, Goto, TypeOK
  <2>2. CASE ~HttpShutdown(s)
    <3>1. shutPc'[s] # "httpWait"
      BY <2>2 DEF Closing, CloseSniffer, CloseChannel, HttpDrained, HttpCtx, WaitDone, WaitCtx,
                  Goto, Finish, TypeOK
    <3>2. QED
      BY <3>1
  <2>3. QED
    BY <2>1, <2>2
<1>4. PassedHttp(s)' /\ sawListener' => HttpQuiet'
  <2> SUFFICES ASSUME PassedHttp(s)', sawListener' PROVE HttpQuiet'
    OBVIOUS
  <2>1. CASE CloseSniffer(s) \/ CloseChannel(s)
    <3>1. shutPc'[s] \notin {"wait", "done"}
      BY <2>1 DEF CloseSniffer, CloseChannel, Goto, TypeOK
    <3>2. QED
      BY <1>0, <3>1 DEF PassedHttp
  <2>2. CASE HttpShutdown(s)
    <3>1. sawListener' = sawListener /\ lnOpen' = lnOpen
      BY Zenon, <2>2 DEF HttpShutdown, startVars, histVars
    <3>2. shutPc'[s] = "wait"
      BY <2>2, <1>0 DEF HttpShutdown, PassedHttp, Goto, TypeOK
    <3>3. ~HasHttp
      BY <2>2, <3>2 DEF HttpShutdown, Goto, TypeOK
    <3>4. HasSniffer /\ ~lnOpen
      BY <3>1 DEF ListenerInv
    <3>5. startPc \in {"stored", "channel"}
      BY <3>3, <3>4 DEF HasHttp, HasChannel, HasSniffer
    <3>6. startPc # "new" /\ \A c \in Conns : conn[c] = "none"
      BY <3>5 DEF ListenerInv
    <3>7. QED
      BY Zenon, <1>0, <3>1, <3>4, <3>6 DEF HttpQuiet
  <2>3. CASE HttpDrained(s)
    <3>1. httpStopped /\ httpStopped' = httpStopped
      BY Zenon, <2>3 DEF HttpDrained, CallInv
    <3>2. servePc # "serving" /\ \A c \in Conns : conn[c] # "http"
      BY <2>3 DEF HttpDrained, In
    <3>3. QED
      BY Zenon, <1>0, <3>1, <3>2 DEF HttpQuiet
  <2>4. CASE HttpCtx(s)
    <3>1. shutPc'[s] = "wait" /\ err'[s] = "ctx"
      BY <2>4 DEF HttpCtx, Goto, TypeOK
    <3>2. QED
      BY <1>0, <3>1 DEF PassedHttp
  <2>5. CASE WaitCtx(s)
    <3>1. shutPc'[s] = "done" /\ returned'[s] = "ctx"
      BY <2>5 DEF WaitCtx, Goto, Finish, TypeOK
    <3>2. QED
      BY <3>1 DEF PassedHttp
  <2>6. CASE WaitDone(s)
    <3>1. shutPc[s] = "wait" /\ shutPc'[s] = "done" /\ returned'[s] = err[s]
      BY <2>6 DEF WaitDone, Goto, Finish, TypeOK
    <3>2. PassedHttp(s)
      BY <3>1 DEF PassedHttp
    <3>3. UNCHANGED <<lnOpen, sawListener, httpStopped>>
      BY Zenon, <2>6 DEF WaitDone, startVars
    <3>4. HttpQuiet
      BY Zenon, <3>2, <3>3 DEF CallInv
    <3>5. QED
      BY Zenon, <1>0, <3>3, <3>4 DEF HttpQuiet
  <2>7. QED
    BY Zenon, <2>1, <2>2, <2>3, <2>4, <2>5, <2>6 DEF Closing
<1>5. returned'[s] = "nil" => OnlyLate'
  <2> SUFFICES ASSUME returned'[s] = "nil" PROVE OnlyLate'
    OBVIOUS
  <2>1. WaitDone(s)
    <3>1. ~WaitCtx(s)
      BY DEF WaitCtx, Finish, TypeOK
    <3>2. WaitDone(s) \/ returned' = returned
      BY Zenon, <3>1 DEF Closing, CloseSniffer, CloseChannel, HttpShutdown, HttpDrained, HttpCtx
    <3>3. QED
      BY <1>0, <3>2
  <2>2. /\ late' = {c \in Conns : toAdd[c] > 0}
        /\ \A c \in Conns : handlers[c] = 0
    BY Zenon, <2>1 DEF WaitDone
  <2>3. QED
    BY <1>0, <2>2 DEF OnlyLate, TypeOK
<1>6. QED
  BY Zenon, <1>0, <1>2, <1>3, <1>4, <1>5 DEF CallInv

LEMMA ShutdownInvStep == ShutdownInv /\ [Next]_vars => ShutdownInv'
<1> SUFFICES ASSUME ShutdownInv, [Next]_vars PROVE ShutdownInv'
  OBVIOUS
<1>1. TypeOK /\ TypeOK' /\ ListenerInv
  BY Zenon, ShutdownTypes DEF ShutdownInv
<1>2. \A s \in Callers : CallInv(s)
  BY Zenon DEF ShutdownInv
<1>3. \A s, t \in Callers : Working(s) /\ Working(t) => s = t
  BY Zenon DEF ShutdownInv
<1>4. CASE ServerStep
  <2>1. UNCHANGED callVars /\ ListenerInv'
    BY Zenon, <1>1, <1>4, ServerStepFrame, ListenerStays
  <2>2. HttpQuiet => HttpQuiet'
    BY Zenon, <1>1, <1>4, QuietStays
  <2>3. OnlyLate /\ inShutdown => OnlyLate'
    BY Zenon, <1>1, <1>4, LateStays
  <2>4. ASSUME NEW s \in Callers PROVE CallInv(s)'
    <3>1. CallInv(s)
      BY <1>2
    <3>2. returned[s] = "nil" => inShutdown
      BY <1>1, <3>1 DEF CallInv, TypeOK
    <3>3. QED
      BY Zenon, <2>1, <2>2, <2>3, <3>1, <3>2 DEF callVars, CallInv, PassedHttp
  <2>5. \A s \in Callers : Working(s)' = Working(s)
    BY Zenon, <2>1 DEF callVars, Working
  <2>6. QED
    BY Zenon, <1>1, <1>3, <2>1, <2>4, <2>5 DEF ShutdownInv
<1>5. ASSUME UNCHANGED <<callVars, startPc, lnOpen, servePc, conn, toAdd, handlers>>
      PROVE  ShutdownInv'
  BY Zenon, <1>1, <1>2, <1>3, <1>5 DEF callVars, ShutdownInv, CallInv, Working, PassedHttp, HttpQuiet,
                                       OnlyLate, ListenerInv, HasSniffer
<1>6. ASSUME NEW s \in Callers, CtxEnds(s) PROVE ShutdownInv'
  BY Zenon, <1>5, <1>6 DEF CtxEnds, callVars, startVars, connVars, histVars
<1>7. CASE UNCHANGED vars
  BY Zenon, <1>5, <1>7 DEF vars, callVars, histVars
<1>8. ASSUME NEW s \in Callers, ShutdownCall(s) PROVE ShutdownInv'
  <2>1. UNCHANGED <<startPc, lnOpen, servePc, conn, toAdd, handlers, httpStopped, err, sawListener, late>>
    BY Zenon, <1>8 DEF ShutdownCall, startVars, connVars, histVars
  <2>2. ListenerInv' /\ HttpQuiet' = HttpQuiet /\ OnlyLate' = OnlyLate
    BY Zenon, <1>1, <2>1 DEF ListenerInv, HasSniffer, HttpQuiet, OnlyLate
  <2>3. /\ shutPc[s] = "idle" /\ inShutdown'
        /\ \A t \in Callers : t # s => shutPc'[t] = shutPc[t] /\ returned'[t] = returned[t]
        /\ inShutdown => shutPc'[s] = "done" /\ returned'[s] = "already"
        /\ ~inShutdown => shutPc'[s] = "closeSniffer" /\ returned' = returned
    BY <1>1, <1>8 DEF TypeOK, ShutdownCall, Goto, Finish
  <2>4. ASSUME NEW t \in Callers PROVE CallInv(t)'
    <3>1. CallInv(t)
      BY <1>2
    <3>2. CASE t # s
      BY Zenon, <2>1, <2>2, <2>3, <3>1, <3>2 DEF CallInv, PassedHttp
    <3>3. CASE t = s
      BY <2>2, <2>3, <3>1, <3>3 DEF CallInv, PassedHttp
    <3>4. QED
      BY <3>2, <3>3
  <2>5. \A t, u \in Callers : Working(t)' /\ Working(u)' => t = u
    <3>1. CASE inShutdown
      <4>1. \A t \in Callers : Working(t)' => Working(t)
        BY <2>3, <3>1 DEF Working
      <4>2. QED
        BY Zenon, <1>3, <4>1
    <3>2. CASE ~inShutdown
      <4>1. \A t \in Callers : shutPc[t] = "idle"
        BY Zenon, <1>2, <3>2 DEF CallInv
      <4>2. \A t \in Callers : Working(t)' => t = s
        BY Zenon, <2>3, <4>1 DEF Working
      <4>3. QED
        BY Zenon, <4>2
    <3>3. QED
      BY <3>1, <3>2
  <2>6. QED
    BY Zenon, <1>1, <2>2, <2>4, <2>5 DEF ShutdownInv
<1>9. ASSUME NEW s \in Callers, Closing(s) PROVE ShutdownInv'
  <2>1. CallInv(s)' /\ ListenerInv'
    BY Zenon, <1>1, <1>2, <1>9, ClosingKeeps
  <2>2. shutPc[s] \notin {"idle", "done"} /\ Working(s)
    <3>1. shutPc[s] \notin {"idle", "done"}
      BY <1>9, ClosingFrame
    <3>2. QED
      BY <1>2, <3>1 DEF CallInv, Working
  <2>3. \A t \in Callers : t # s => /\ shutPc'[t] = shutPc[t] /\ returned'[t] = returned[t]
                                    /\ ~Working(t)
    BY <1>1, <1>3, <1>9, <2>2, ClosingFrame DEF TypeOK
  <2>4. ASSUME NEW t \in Callers PROVE CallInv(t)'
    <3>1. CASE t = s
      BY <2>1, <3>1
    <3>2. CASE t # s
      <4>1. shutPc'[t] \in {"idle", "done"} /\ returned'[t] # "nil"
        <5>1. shutPc[t] = "idle" \/ returned[t] = "already"
          BY <2>3, <3>2 DEF Working
        <5>2. QED
          BY <1>2, <2>3, <3>2, <5>1 DEF CallInv
      <4>2. CallInv(t) /\ shutPc'[t] = shutPc[t] /\ returned'[t] = returned[t] /\ inShutdown' = inShutdown
        BY Zenon, <1>2, <1>9, <2>3, <3>2, ClosingFrame
      <4>3. QED
        BY <4>1, <4>2 DEF CallInv, PassedHttp
    <3>3. QED
      BY <3>1, <3>2
  <2>5. \A t \in Callers : Working(t)' => t = s
    BY Zenon, <2>3 DEF Working
  <2>6. QED
    BY Zenon, <1>1, <2>1, <2>4, <2>5 DEF ShutdownInv
<1>10. QED
  BY Zenon, <1>4, <1>6, <1>7, <1>8, <1>9 DEF Next, ServerStep, ConnStep

\* When Shutdown (Server.Shutdown in grpc_handler.go) has returned nil: if it found the
\* listener, that is closed and net/http runs no request it tracks, even when Start had
\* not stored the HTTP server yet; and a Thrift request runs only on a connection that was
\* still being added when activeConns.Wait returned.  For any number of connections,
\* callers and processors and any capacity of the channel.
THEOREM ShutdownDrainsServer == Spec => []ShutdownDrains
<1>1. ShutdownInv => ShutdownDrains
  <2> SUFFICES ASSUME ShutdownInv, NEW s \in Callers, returned[s] = "nil"
               PROVE  /\ sawListener => ~lnOpen /\ In({"http"}) = {}
                      /\ \A c \in Conns : handlers[c] + toAdd[c] > 0 => c \in late
    BY Zenon DEF ShutdownDrains, Graceful
  <2>1. CallInv(s) /\ ListenerInv
    BY Zenon DEF ShutdownInv
  <2>2. OnlyLate /\ (sawListener => HttpQuiet /\ ~lnOpen)
    BY Zenon, <2>1 DEF CallInv, PassedHttp, ListenerInv
  <2>3. HttpQuiet => In({"http"}) = {}
    BY DEF HttpQuiet, In
  <2>4. QED
    BY Zenon, <2>2, <2>3 DEF OnlyLate
<1>2. QED
  BY <1>1, ShutdownInvInit, ShutdownInvStep, PTL DEF Spec
=============================================================================
