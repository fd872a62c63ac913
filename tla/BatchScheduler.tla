--------------------------- MODULE BatchScheduler ---------------------------
(***************************************************************************)
(* The dynamic batch scheduler of runtimes/go/batching.go: one goroutine   *)
(* (run) collects requests from a buffered channel until the batch is full *)
(* or the timer fires, calls the handler once for the batch and sends each *)
(* caller its answer; callers (Invoke) may be cancelled at any time.       *)
(*                                                                         *)
(* A request stands for one call of Invoke with its own response channel   *)
(* of capacity one.  It can be used for a new call when nothing refers to  *)
(* the old one any more.  Time is left out: a running timer may fire at    *)
(* any moment.                                                             *)
(***************************************************************************)
EXTENDS Naturals, Sequences, FiniteSets

CONSTANTS
    Requests,
    MaxBatchSize,    \* maxBatchSize
    QueueFactor      \* the channel holds maxBatchSize * QueueFactor requests (100 in the code)

ASSUME SizeAssumption ==
    /\ MaxBatchSize \in Nat \ {0}
    /\ QueueFactor \in Nat \ {0}

VARIABLES
    reqCh,           \* s.reqCh
    batch,           \* the batch run is collecting or serving
    timer,           \* run's timer: timerChan is nil when it is stopped
    pc,              \* where run is
    outcome,         \* what the handler returned for the batch
    sent,            \* answers of the batch already sent
    caller,          \* where each Invoke is
    ctxDone,         \* the caller's context has ended
    respCh,          \* content of the request's response channel
    result           \* what Invoke returned

runVars == <<reqCh, batch, timer, pc, outcome, sent>>
callerVars == <<caller, ctxDone, respCh, result>>
vars == <<reqCh, batch, timer, pc, outcome, sent, caller, ctxDone, respCh, result>>

Nothing == [kind |-> "nothing"]
Failed  == [kind |-> "failed"]
CtxErr  == [kind |-> "ctxErr"]
Answer(r) == [kind |-> "answer", to |-> r]

Responses == {Nothing, Failed, CtxErr} \cup {Answer(r) : r \in Requests}

Elements(seq) == {seq[i] : i \in 1..Len(seq)}

TypeOK ==
    /\ reqCh \in Seq(Requests) /\ Len(reqCh) <= MaxBatchSize * QueueFactor
    /\ batch \in Seq(Requests) /\ Len(batch) <= MaxBatchSize
    /\ timer \in {"stopped", "running", "fired"}
    /\ pc \in {"receive", "select", "handler", "fanOut"}
    /\ outcome \in {"ok", "error"}
    /\ sent \in 0..Len(batch)
    /\ caller \in [Requests -> {"idle", "sending", "waiting", "returned"}]
    /\ ctxDone \in [Requests -> BOOLEAN]
    /\ respCh \in [Requests -> Responses]
    /\ result \in [Requests -> Responses]

\* NewBatchScheduler.
Init ==
    /\ reqCh = <<>>
    /\ batch = <<>>
    /\ timer = "stopped"
    /\ pc = "receive"
    /\ outcome = "ok"
    /\ sent = 0
    /\ caller = [r \in Requests |-> "idle"]
    /\ ctxDone = [r \in Requests |-> FALSE]
    /\ respCh = [r \in Requests |-> Nothing]
    /\ result = [r \in Requests |-> Nothing]

-----------------------------------------------------------------------------
(* Invoke *)

Invoke(r) ==
    /\ caller[r] = "idle"
    /\ caller' = [caller EXCEPT ![r] = "sending"]
    /\ UNCHANGED <<runVars, ctxDone, respCh, result>>

\* Mutant: a request that finds the channel full is dropped.
Enqueue_DropWhenFull(r) ==
    /\ caller[r] = "sending"
    /\ reqCh' = IF Len(reqCh) < MaxBatchSize * QueueFactor THEN Append(reqCh, r) ELSE reqCh
    /\ caller' = [caller EXCEPT ![r] = "waiting"]
    /\ UNCHANGED <<batch, timer, pc, outcome, sent, ctxDone, respCh, result>>

\* The send blocks while the channel is full and does not look at the context.
Enqueue(r) ==
    /\ caller[r] = "sending"
    /\ Len(reqCh) < MaxBatchSize * QueueFactor
    /\ reqCh' = Append(reqCh, r)
    /\ caller' = [caller EXCEPT ![r] = "waiting"]
    /\ UNCHANGED <<batch, timer, pc, outcome, sent, ctxDone, respCh, result>>

\* The caller's deadline passes or its connection goes away.
CtxEnds(r) ==
    /\ caller[r] \in {"sending", "waiting"}
    /\ ~ctxDone[r]
    /\ ctxDone' = [ctxDone EXCEPT ![r] = TRUE]
    /\ UNCHANGED <<runVars, caller, respCh, result>>

Return(r, value) ==
    /\ caller[r] = "waiting"
    /\ caller' = [caller EXCEPT ![r] = "returned"]
    /\ result' = [result EXCEPT ![r] = value]

ReturnResponse(r) ==
    /\ respCh[r] # Nothing
    /\ Return(r, respCh[r])
    /\ respCh' = [respCh EXCEPT ![r] = Nothing]
    /\ UNCHANGED <<runVars, ctxDone>>

ReturnCtxErr(r) ==
    /\ ctxDone[r]
    /\ Return(r, CtxErr)
    /\ UNCHANGED <<runVars, ctxDone, respCh>>

\* Nothing refers to the returned call any more: r can stand for a new one.
Forget(r) ==
    /\ caller[r] = "returned"
    /\ r \notin Elements(reqCh) \cup Elements(batch)
    /\ caller' = [caller EXCEPT ![r] = "idle"]
    /\ ctxDone' = [ctxDone EXCEPT ![r] = FALSE]
    /\ respCh' = [respCh EXCEPT ![r] = Nothing]
    /\ result' = [result EXCEPT ![r] = Nothing]
    /\ UNCHANGED runVars

-----------------------------------------------------------------------------
(* run *)

\* Appends the head of the channel to the batch, and goes on to the handler
\* when that fills the batch.
Take ==
    /\ reqCh # <<>>
    /\ batch' = Append(batch, Head(reqCh))
    /\ reqCh' = Tail(reqCh)
    /\ pc' = IF Len(batch) + 1 >= MaxBatchSize THEN "handler" ELSE "select"
    /\ UNCHANGED <<outcome, sent, callerVars>>

\* Mutant: the timer of the previous batch is not restarted.
ReceiveFirst_NoTimer ==
    /\ pc = "receive"
    /\ Take
    /\ UNCHANGED timer

ReceiveFirst ==
    /\ pc = "receive"
    /\ Take
    /\ timer' = "running"

ReceiveMore ==
    /\ pc = "select"
    /\ Take
    /\ UNCHANGED timer

TimerFires ==
    /\ timer = "running"
    /\ timer' = "fired"
    /\ UNCHANGED <<reqCh, batch, pc, outcome, sent, callerVars>>

ReceiveTimer ==
    /\ pc = "select"
    /\ timer = "fired"
    /\ timer' = "stopped"
    /\ pc' = "handler"
    /\ UNCHANGED <<reqCh, batch, outcome, sent, callerVars>>

\* Mutant: a failed batch is dropped without telling its callers.
HandlerReturns_DropOnError ==
    /\ pc = "handler"
    /\ outcome' \in {"ok", "error"}
    /\ IF outcome' = "ok"
       THEN pc' = "fanOut" /\ UNCHANGED <<batch, timer>>
       ELSE pc' = "receive" /\ batch' = <<>> /\ timer' = "stopped"
    /\ UNCHANGED <<reqCh, sent, callerVars>>

\* The handler answers every request of the batch, or the whole batch fails:
\* with the handler's error, or because it returned the wrong number of answers.
HandlerReturns ==
    /\ pc = "handler"
    /\ outcome' \in {"ok", "error"}
    /\ pc' = "fanOut"
    /\ UNCHANGED <<reqCh, batch, timer, sent, callerVars>>

\* Mutant: the answers are sent in the reverse order.
FanOut_Reversed ==
    /\ pc = "fanOut"
    /\ sent < Len(batch)
    /\ LET r == batch[sent + 1] IN
       /\ respCh[r] = Nothing
       /\ respCh' = [respCh EXCEPT ![r] =
                       IF outcome = "ok" THEN Answer(batch[Len(batch) - sent]) ELSE Failed]
    /\ sent' = sent + 1
    /\ UNCHANGED <<reqCh, batch, timer, pc, outcome, caller, ctxDone, result>>

\* Sends the next answer.  A send to a channel that already holds one blocks.
FanOut ==
    /\ pc = "fanOut"
    /\ sent < Len(batch)
    /\ LET r == batch[sent + 1] IN
       /\ respCh[r] = Nothing
       /\ respCh' = [respCh EXCEPT ![r] =
                       IF outcome = "ok" THEN Answer(batch[sent + 1]) ELSE Failed]
    /\ sent' = sent + 1
    /\ UNCHANGED <<reqCh, batch, timer, pc, outcome, caller, ctxDone, result>>

\* Mutant: the served batch is kept.
FlushEnds_KeepsBatch ==
    /\ pc = "fanOut"
    /\ sent = Len(batch)
    /\ sent' = 0
    /\ timer' = "stopped"
    /\ pc' = "receive"
    /\ UNCHANGED <<reqCh, batch, outcome, callerVars>>

\* The end of flush: the batch is dropped and the timer stopped and drained.
FlushEnds ==
    /\ pc = "fanOut"
    /\ sent = Len(batch)
    /\ batch' = <<>>
    /\ sent' = 0
    /\ timer' = "stopped"
    /\ pc' = "receive"
    /\ UNCHANGED <<reqCh, outcome, callerVars>>

-----------------------------------------------------------------------------
Run == ReceiveFirst \/ ReceiveMore \/ ReceiveTimer \/ FanOut \/ FlushEnds

Caller(r) ==
    \/ Invoke(r)
    \/ Enqueue(r)
    \/ CtxEnds(r)
    \/ ReturnResponse(r)
    \/ ReturnCtxErr(r)
    \/ Forget(r)

Next ==
    \/ Run
    \/ TimerFires
    \/ HandlerReturns
    \/ \E r \in Requests : Caller(r)

Spec == Init /\ [][Next]_vars

\* The Go scheduler runs every goroutine that can run, timers fire, and
\* goroutines blocked on a full channel are served first come first served.
SchedulerFairness ==
    /\ WF_vars(Run)
    /\ WF_vars(TimerFires)
    /\ \A r \in Requests :
          /\ SF_vars(Enqueue(r))
          /\ WF_vars(ReturnResponse(r) \/ ReturnCtxErr(r))

\* Nothing is assumed of the handler: it may take for ever.
FairSpec == Spec /\ SchedulerFairness

\* Every execution of the handler ends.
HandlerEnds == WF_vars(HandlerReturns)

-----------------------------------------------------------------------------
(* Properties *)

\* Requests whose answer run has not sent yet.
Unsent == {batch[i] : i \in sent + 1..Len(batch)}

\* Nobody gets somebody else's answer: what flush puts on a response channel
\* and what Invoke returns is the request's own answer or an error.
OwnAnswer ==
    \A r \in Requests :
        /\ respCh[r] \in {Nothing, Failed, Answer(r)}
        /\ result[r] \in {Nothing, Failed, CtxErr, Answer(r)}

\* No call is lost: a caller that waits is in the channel, in the batch with
\* its answer still to be sent, or has an answer on its channel, whatever
\* cancellations and handler failures happened around it.
NoLostCall ==
    \A r \in Requests : caller[r] = "waiting" =>
        r \in Elements(reqCh) \cup Unsent \/ respCh[r] # Nothing

\* flush never blocks: the response channel of every request it has still to
\* answer is empty, even when the caller is gone.
SendsNeverBlock == \A r \in Unsent : respCh[r] = Nothing

\* No lost wake-up: while run waits for more requests it holds at least one,
\* fewer than MaxBatchSize, and a timer that will end the wait.
WaitEnds ==
    pc = "select" => Len(batch) \in 1..MaxBatchSize - 1 /\ timer # "stopped"

-----------------------------------------------------------------------------
(* The inductive invariant behind these properties, in parts *)

Distinct(seq) == \A i, j \in 1..Len(seq) : seq[i] = seq[j] => i = j

\* A call is in one place only.
OnePlace ==
    /\ Distinct(reqCh)
    /\ Distinct(batch)
    /\ Elements(reqCh) \cap Elements(batch) = {}

\* Only calls that are waiting or were cancelled are in the channel or the
\* batch, and the ones without an answer have nothing on their channels.
CallersTracked ==
    \A r \in Requests :
        /\ caller[r] \in {"idle", "sending"} =>
              r \notin Elements(reqCh) \cup Elements(batch) /\ respCh[r] = Nothing
        /\ result[r] = Nothing <=> caller[r] # "returned"
        /\ r \in Elements(reqCh) \cup Unsent => respCh[r] = Nothing /\ result[r] \in {Nothing, CtxErr}
        /\ respCh[r] # Nothing => result[r] \in {Nothing, CtxErr}

\* run is back at the receive exactly when it has no batch, and sends answers
\* only after the handler has returned.
RunTracked ==
    /\ pc = "receive" <=> batch = <<>>
    /\ sent # 0 => pc = "fanOut"

Response(r) == IF outcome = "ok" THEN Answer(r) ELSE Failed

\* What was sent is on the channel until the caller takes it.
SentTracked ==
    \A i \in 1..sent : Response(batch[i]) \in {respCh[batch[i]], result[batch[i]]}

\* Together with the properties above, what every step of callers and
\* scheduler preserves.
CallTracking ==
    /\ OnePlace
    /\ CallersTracked
    /\ RunTracked
    /\ SentTracked
    /\ OwnAnswer
    /\ NoLostCall
    /\ WaitEnds

\* How the batch of a call ended, read off the scheduler's state.
ExecOf(r) ==
    IF pc = "fanOut" /\ r \in Elements(batch) THEN outcome
    ELSE IF Failed \in {respCh[r], result[r]} THEN "error"
    ELSE IF Answer(r) \in {respCh[r], result[r]} THEN "ok" ELSE "no"

callMap == [r \in Requests |->
              IF caller[r] \in {"sending", "waiting"} THEN "called" ELSE caller[r]]

execMap == [r \in Requests |-> ExecOf(r)]

Contract == INSTANCE BatchContract WITH call <- callMap, exec <- execMap

\* The scheduler keeps its promise to the callers: no call is executed twice,
\* and a call returns what its own batch produced.
ImplementsContract == Contract!ContractSpec

\* Every call returns if the handler does, even when no context ever ends; and
\* once its request is queued, a caller whose context ends returns, whatever
\* the handler does.
EveryCallReturns ==
    /\ HandlerEnds => \A r \in Requests : caller[r] = "sending" ~> caller[r] = "returned"
    /\ \A r \in Requests :
          caller[r] = "waiting" /\ ctxDone[r] ~> caller[r] = "returned"

\* A call whose deadline has passed returns ("terminating long-running
\* requests early"), wherever it is.
DeadlineEndsCall ==
    \A r \in Requests : ctxDone[r] ~> caller[r] = "returned"
=============================================================================
