------------------------ MODULE BatchSchedulerProofs ------------------------
(***************************************************************************)
(* Proofs about the batch scheduler for any set of calls, any batch size   *)
(* and any channel capacity.                                               *)
(***************************************************************************)
EXTENDS BatchScheduler, FiniteSetTheorems, TLAPS

\* Appending a request adds it to the elements of the channel or batch and
\* keeps them distinct if it is new.
LEMMA AppendFacts ==
    ASSUME NEW s \in Seq(Requests), NEW r \in Requests
    PROVE  /\ Append(s, r) \in Seq(Requests)
           /\ Len(Append(s, r)) = Len(s) + 1
           /\ Elements(Append(s, r)) = Elements(s) \cup {r}
           /\ Distinct(s) /\ r \notin Elements(s) => Distinct(Append(s, r))
BY DEF Elements, Distinct

\* Receiving the head of the channel removes just that request.
LEMMA TailFacts ==
    ASSUME NEW s \in Seq(Requests), s # <<>>, Distinct(s)
    PROVE  /\ Head(s) \in Requests
           /\ Head(s) \in Elements(s)
           /\ Tail(s) \in Seq(Requests)
           /\ Len(Tail(s)) = Len(s) - 1
           /\ Elements(Tail(s)) = Elements(s) \ {Head(s)}
           /\ Distinct(Tail(s))
<1>1. /\ Head(s) = s[1] /\ Head(s) \in Requests
      /\ Tail(s) \in Seq(Requests)
      /\ Len(Tail(s)) = Len(s) - 1
      /\ Len(s) \in Nat \ {0}
      /\ \A i \in 1..Len(s) - 1 : Tail(s)[i] = s[i + 1]
  OBVIOUS
<1>2. Head(s) \in Elements(s)
  BY <1>1 DEF Elements
<1>3. Distinct(Tail(s))
  BY <1>1 DEF Distinct
<1>4. ASSUME NEW x PROVE x \in Elements(Tail(s)) <=> x \in Elements(s) \ {Head(s)}
  <2>1. ASSUME x \in Elements(Tail(s)) PROVE x \in Elements(s) \ {Head(s)}
    <3>1. PICK i \in 1..Len(s) - 1 : x = s[i + 1]
      BY <1>1, <2>1 DEF Elements
    <3>2. QED
      BY <1>1, <3>1 DEF Elements, Distinct
  <2>2. ASSUME x \in Elements(s) \ {Head(s)} PROVE x \in Elements(Tail(s))
    <3>1. PICK i \in 1..Len(s) : x = s[i]
      BY <2>2 DEF Elements
    <3>2. i - 1 \in 1..Len(s) - 1 /\ x = Tail(s)[i - 1]
      BY <1>1, <2>2, <3>1
    <3>3. QED
      BY <1>1, <3>2, Zenon DEF Elements
  <2>3. QED
    BY <2>1, <2>2
<1>5. QED
  BY <1>1, <1>2, <1>3, <1>4

\* The empty sequence has no elements.
LEMMA EmptyFacts == Elements(<<>>) = {} /\ Distinct(<<>>) /\ <<>> \in Seq(Requests) /\ Len(<<>>) = 0
BY DEF Elements, Distinct

\* The kinds of results are told apart.
LEMMA ResultFacts ==
    /\ Nothing # Failed /\ Nothing # CtxErr /\ Failed # CtxErr
    /\ \A r : Answer(r) # Nothing /\ Answer(r) # Failed /\ Answer(r) # CtxErr
    /\ \A q, r : Answer(q) = Answer(r) => q = r
<1>1. Nothing.kind = "nothing" /\ Failed.kind = "failed" /\ CtxErr.kind = "ctxErr"
  BY DEF Nothing, Failed, CtxErr
<1>2. \A r : Answer(r).kind = "answer" /\ Answer(r).to = r
  BY DEF Answer
<1>3. QED
  BY <1>1, <1>2

\* The requests whose answers are still to be sent, before the first answer
\* and after one more.
LEMMA UnsentFacts ==
    ASSUME TypeOK
    PROVE  /\ Unsent \subseteq Elements(batch)
           /\ sent = 0 => Unsent = Elements(batch)
           /\ sent = Len(batch) => Unsent = {}
BY DEF TypeOK, Unsent, Elements

\* Receiving a request keeps the types of channel and batch, because run
\* receives only while its batch is not full.
LEMMA TakeFacts ==
    ASSUME TypeOK, Take, Len(batch) < MaxBatchSize, Distinct(reqCh)
    PROVE  /\ reqCh' \in Seq(Requests) /\ Len(reqCh') <= MaxBatchSize * QueueFactor
           /\ batch' \in Seq(Requests) /\ Len(batch') = Len(batch) + 1
           /\ Head(reqCh) \in Elements(reqCh) /\ Head(reqCh) \in Requests
           /\ Elements(reqCh') = Elements(reqCh) \ {Head(reqCh)}
           /\ Elements(batch') = Elements(batch) \cup {Head(reqCh)}
           /\ Distinct(reqCh')
<1>1. reqCh \in Seq(Requests) /\ reqCh # <<>> /\ batch \in Seq(Requests)
  BY DEF TypeOK, Take
<1>2. reqCh' = Tail(reqCh) /\ batch' = Append(batch, Head(reqCh))
  BY DEF Take
<1>3. Len(reqCh) <= MaxBatchSize * QueueFactor /\ MaxBatchSize * QueueFactor \in Nat
  BY SizeAssumption DEF TypeOK
<1>4. Len(reqCh) \in Nat
  BY <1>1
<1>5. QED
  BY <1>1, <1>2, <1>3, <1>4, TailFacts, AppendFacts

\* Types are preserved by every step of run and of the callers.
LEMMA TypeStep == TypeOK /\ CallTracking /\ [Next]_vars => TypeOK'
<1> SUFFICES ASSUME TypeOK, CallTracking, [Next]_vars PROVE TypeOK'
  OBVIOUS
<1> USE SizeAssumption DEF TypeOK, runVars, callerVars
<1>1. MaxBatchSize * QueueFactor \in Nat
  OBVIOUS
<1>2. Nothing \in Responses /\ Failed \in Responses /\ CtxErr \in Responses
      /\ \A r \in Requests : Answer(r) \in Responses
  BY DEF Responses
<1>3. CASE ReceiveFirst \/ ReceiveMore
  <2>1. Take /\ Len(batch) < MaxBatchSize /\ Distinct(reqCh) /\ timer' \in {"stopped", "running", "fired"}
    BY <1>3, EmptyFacts
    DEF ReceiveFirst, ReceiveMore, CallTracking, RunTracked, WaitEnds, OnePlace
  <2>2. QED
    BY <2>1, TakeFacts DEF Take
<1>4. CASE ReceiveTimer
  BY <1>4 DEF ReceiveTimer
<1>5. CASE FanOut
  <2>1. respCh' \in [Requests -> Responses]
    BY <1>2, <1>5 DEF FanOut
  <2>2. QED
    BY <1>5, <2>1 DEF FanOut
<1>6. CASE FlushEnds
  BY <1>6, EmptyFacts DEF FlushEnds
<1>7. CASE TimerFires
  BY <1>7 DEF TimerFires
<1>8. CASE HandlerReturns
  BY <1>8 DEF HandlerReturns
<1>9. ASSUME NEW r \in Requests, Caller(r) PROVE TypeOK'
  <2>1. CASE Invoke(r)
    BY <2>1 DEF Invoke
  <2>2. CASE Enqueue(r)
    <3>1. reqCh' \in Seq(Requests) /\ Len(reqCh') <= MaxBatchSize * QueueFactor
      BY <1>1, <2>2, AppendFacts DEF Enqueue
    <3>2. QED
      BY <2>2, <3>1 DEF Enqueue
  <2>3. CASE CtxEnds(r)
    BY <2>3 DEF CtxEnds
  <2>4. CASE ReturnResponse(r)
    BY <1>2, <2>4 DEF ReturnResponse, Return
  <2>5. CASE ReturnCtxErr(r)
    BY <1>2, <2>5 DEF ReturnCtxErr, Return
  <2>6. CASE Forget(r)
    BY <1>2, <2>6 DEF Forget
  <2>7. QED
    BY <1>9, <2>1, <2>2, <2>3, <2>4, <2>5, <2>6 DEF Caller
<1>10. CASE UNCHANGED vars
  BY <1>10 DEF vars
<1>11. QED
  BY <1>3, <1>4, <1>5, <1>6, <1>7, <1>8, <1>9, <1>10 DEF Next, Run

-----------------------------------------------------------------------------
\* A step of run that sends no answer leaves what is known of the callers as
\* it was, as long as it moves no call out of sight.
LEMMA CallersUntouched ==
    ASSUME CallersTracked, OwnAnswer, NoLostCall, UNCHANGED callerVars,
           Elements(reqCh') \cup Elements(batch') \subseteq Elements(reqCh) \cup Elements(batch),
           Elements(reqCh') \cup Unsent' = Elements(reqCh) \cup Unsent
    PROVE  CallersTracked' /\ OwnAnswer' /\ NoLostCall'
BY Zenon DEF CallersTracked, OwnAnswer, NoLostCall, callerVars, Elements

\* Sending an answer, the only step of run that touches a caller's channel.
LEMMA FanOutStep ==
    ASSUME TypeOK, TypeOK', CallTracking, FanOut
    PROVE  CallTracking'
<1> DEFINE r == batch[sent + 1]
<1>1. /\ sent \in Nat /\ Len(batch) \in Nat /\ sent + 1 \in 1..Len(batch)
      /\ r \in Requests /\ r \in Unsent /\ r \in Elements(batch)
  BY DEF TypeOK, FanOut, Unsent, Elements
<1>2. /\ respCh' = [respCh EXCEPT ![r] = Response(r)]
      /\ respCh[r] = Nothing
      /\ UNCHANGED <<reqCh, batch, timer, pc, outcome, caller, ctxDone, result>>
      /\ sent' = sent + 1
      /\ pc = "fanOut"
  BY DEF FanOut, Response
<1>3. \A q \in Requests : respCh'[q] = IF q = r THEN Response(r) ELSE respCh[q]
  BY <1>1, <1>2 DEF TypeOK
<1>4. Unsent' = Unsent \ {r}
  <2>1. Unsent' = {batch[i] : i \in sent + 2..Len(batch)}
    BY <1>1, <1>2 DEF Unsent
  <2>2. \A i \in sent + 2..Len(batch) : batch[i] # r
    BY <1>1 DEF CallTracking, OnePlace, Distinct
  <2>3. ASSUME NEW x \in Unsent, x # r PROVE x \in Unsent'
    <3>1. PICK i \in sent + 1..Len(batch) : x = batch[i]
      BY DEF Unsent
    <3>2. i \in sent + 2..Len(batch)
      BY <1>1, <2>3, <3>1
    <3>3. QED
      BY <2>1, <3>1, <3>2
  <2>4. ASSUME NEW x \in Unsent' PROVE x \in Unsent /\ x # r
    <3>1. PICK i \in sent + 2..Len(batch) : x = batch[i]
      BY <2>1
    <3>2. i \in sent + 1..Len(batch)
      BY <1>1, <3>1
    <3>3. QED
      BY <2>2, <3>1, <3>2 DEF Unsent
  <2>5. QED
    BY <2>3, <2>4
<1>5. Response(r) \in {Failed, Answer(r)} /\ Response(r) # Nothing
  BY ResultFacts DEF Response
<1>6. OnePlace' /\ RunTracked' /\ WaitEnds'
  BY <1>2 DEF CallTracking, OnePlace, RunTracked, WaitEnds, Elements, Distinct
<1>7. CallersTracked'
  <2> SUFFICES ASSUME NEW q \in Requests
               PROVE  CallersTracked!(q)'
    BY DEF CallersTracked
  <2>1. CallersTracked!(q)
    BY DEF CallTracking, CallersTracked
  <2>2. Elements(reqCh)' = Elements(reqCh) /\ Elements(batch)' = Elements(batch)
    BY <1>2 DEF Elements
  <2>3. CASE q = r
    BY <1>1, <1>2, <1>3, <1>4, <2>1, <2>2, <2>3 DEF CallTracking, OnePlace
  <2>4. CASE q # r
    BY <1>2, <1>3, <1>4, <2>1, <2>2, <2>4
  <2>5. QED
    BY <2>3, <2>4
<1>8. OwnAnswer'
  BY <1>2, <1>3, <1>5 DEF CallTracking, OwnAnswer
<1>9. NoLostCall'
  <2>1. Elements(reqCh)' = Elements(reqCh)
    BY <1>2 DEF Elements
  <2>2. QED
    BY <1>2, <1>3, <1>4, <1>5, <2>1 DEF CallTracking, NoLostCall
<1>10. SentTracked'
  <2> SUFFICES ASSUME NEW i \in 1..sent'
               PROVE  Response(batch[i])' \in {respCh'[batch'[i]], result'[batch'[i]]}
    BY DEF SentTracked
  <2>1. Response(batch[i])' = Response(batch[i]) /\ batch'[i] = batch[i] /\ result' = result
    BY <1>2 DEF Response
  <2>2. batch[i] \in Requests /\ i \in 1..Len(batch)
    BY <1>1, <1>2 DEF TypeOK
  <2>3. CASE i = sent + 1
    BY <1>3, <2>1, <2>2, <2>3
  <2>4. CASE i # sent + 1
    <3>1. i \in 1..sent /\ batch[i] # r
      BY <1>1, <1>2, <2>2, <2>4 DEF CallTracking, OnePlace, Distinct
    <3>2. QED
      BY <1>3, <2>1, <2>2, <3>1 DEF CallTracking, SentTracked
  <2>5. QED
    BY <2>3, <2>4
<1>11. QED
  BY <1>6, <1>7, <1>8, <1>9, <1>10 DEF CallTracking

\* The other steps of run.
LEMMA RunStep ==
    ASSUME TypeOK, TypeOK', CallTracking,
           ReceiveFirst \/ ReceiveMore \/ ReceiveTimer \/ FlushEnds \/ TimerFires \/ HandlerReturns
    PROVE  CallTracking'
<1> USE DEF runVars
<1>1. CASE ReceiveFirst \/ ReceiveMore
  <2>1. /\ Take /\ Len(batch) < MaxBatchSize /\ Distinct(reqCh)
        /\ sent = 0 /\ sent' = 0 /\ timer' # "stopped"
        /\ Len(batch) \in Nat
    BY <1>1, EmptyFacts, SizeAssumption
    DEF ReceiveFirst, ReceiveMore, Take, CallTracking, RunTracked, WaitEnds, OnePlace, TypeOK
  <2>2. /\ Head(reqCh) \in Elements(reqCh) /\ Head(reqCh) \in Requests
        /\ Elements(reqCh') = Elements(reqCh) \ {Head(reqCh)}
        /\ Elements(batch') = Elements(batch) \cup {Head(reqCh)}
        /\ Distinct(reqCh') /\ Len(batch') = Len(batch) + 1
    BY <2>1, TakeFacts
  <2>3. Unsent = Elements(batch) /\ Unsent' = Elements(batch')
    <3>1. Unsent = Elements(batch)
      BY <2>1, UnsentFacts
    <3>2. Unsent' = Elements(batch')
      BY <2>1 DEF Unsent, Elements
    <3>3. QED
      BY <3>1, <3>2
  <2>4. Distinct(batch')
    BY <2>1, <2>2, AppendFacts DEF Take, CallTracking, OnePlace, TypeOK
  <2>5. OnePlace'
    BY <2>2, <2>4, Zenon DEF CallTracking, OnePlace, Elements, Distinct
  <2>6. CallersTracked' /\ OwnAnswer' /\ NoLostCall'
    BY <2>1, <2>2, <2>3, CallersUntouched DEF CallTracking, OnePlace, Take
  <2>7. batch' # <<>>
    BY <2>1, <2>2, EmptyFacts
  <2>8. RunTracked' /\ WaitEnds'
    BY <2>1, <2>2, <2>7, SizeAssumption DEF RunTracked, WaitEnds, Take
  <2>9. SentTracked'
    BY <2>1 DEF SentTracked
  <2>10. QED
    BY <2>5, <2>6, <2>8, <2>9 DEF CallTracking
<1>2. CASE ReceiveTimer \/ TimerFires \/ HandlerReturns
  <2>1. UNCHANGED <<reqCh, batch, sent, callerVars>>
    BY <1>2 DEF ReceiveTimer, TimerFires, HandlerReturns
  <2>2. Unsent' = Unsent /\ Elements(reqCh') = Elements(reqCh) /\ Elements(batch') = Elements(batch)
    BY <2>1 DEF Unsent
  <2>3. OnePlace'
    BY <2>1, <2>2 DEF CallTracking, OnePlace, Elements, Distinct
  <2>4. CallersTracked' /\ OwnAnswer' /\ NoLostCall'
    BY <2>1, <2>2, CallersUntouched DEF CallTracking
  <2>5. RunTracked' /\ WaitEnds'
    BY <1>2, <2>1 DEF ReceiveTimer, TimerFires, HandlerReturns, CallTracking, RunTracked, WaitEnds
  <2>6. SentTracked'
    <3>1. CASE pc = "fanOut"
      BY <1>2, <2>1, <3>1
      DEF ReceiveTimer, TimerFires, HandlerReturns, CallTracking, SentTracked, Response, callerVars
    <3>2. CASE pc # "fanOut"
      <4>1. sent' = 0
        BY <2>1, <3>2 DEF CallTracking, RunTracked
      <4>2. QED
        BY <4>1 DEF SentTracked
    <3>3. QED
      BY <3>1, <3>2
  <2>7. QED
    BY <2>3, <2>4, <2>5, <2>6 DEF CallTracking
<1>3. CASE FlushEnds
  <2>1. /\ batch' = <<>> /\ sent' = 0 /\ pc' = "receive" /\ sent = Len(batch)
        /\ UNCHANGED <<reqCh, callerVars>>
    BY <1>3 DEF FlushEnds
  <2>2. Unsent = {} /\ Unsent' = {} /\ Elements(batch') = {} /\ Elements(reqCh') = Elements(reqCh)
    <3>1. Unsent = {}
      BY <2>1, UnsentFacts
    <3>2. Unsent' = {}
      BY <2>1, EmptyFacts DEF Unsent
    <3>3. QED
      BY <2>1, <3>1, <3>2, EmptyFacts
  <2>3. OnePlace'
    BY <2>1, <2>2, EmptyFacts DEF CallTracking, OnePlace, Elements, Distinct
  <2>4. CallersTracked' /\ OwnAnswer' /\ NoLostCall'
    BY <2>1, <2>2, CallersUntouched DEF CallTracking
  <2>5. RunTracked' /\ WaitEnds' /\ SentTracked'
    BY <2>1 DEF RunTracked, WaitEnds, SentTracked
  <2>6. QED
    BY <2>3, <2>4, <2>5 DEF CallTracking
<1>4. QED
  BY <1>1, <1>2, <1>3

\* A step of one caller.  It changes what is known of that call only, and
\* only Enqueue touches what run sees.
LEMMA CallerStep ==
    ASSUME TypeOK, TypeOK', CallTracking, NEW r \in Requests, Caller(r)
    PROVE  CallTracking'
<1> USE DEF runVars
<1>1. /\ UNCHANGED <<batch, timer, pc, outcome, sent>>
      /\ Unsent' = Unsent /\ Elements(batch') = Elements(batch) /\ Distinct(batch') = Distinct(batch)
  <2>1. UNCHANGED <<batch, timer, pc, outcome, sent>>
    BY DEF Caller, Invoke, Enqueue, CtxEnds, ReturnResponse, ReturnCtxErr, Forget
  <2>2. QED
    BY <2>1 DEF Unsent
<1>2. RunTracked' /\ WaitEnds'
  BY <1>1 DEF CallTracking, RunTracked, WaitEnds
<1>3. \A i \in 1..sent : batch[i] \in Requests /\ batch[i] \in Elements(batch)
  BY DEF TypeOK, Elements
<1>4. CASE Enqueue(r)
  <2>1. /\ reqCh' = Append(reqCh, r) /\ caller[r] = "sending"
        /\ caller' = [caller EXCEPT ![r] = "waiting"]
        /\ UNCHANGED <<ctxDone, respCh, result>>
    BY <1>4 DEF Enqueue
  <2>2. /\ r \notin Elements(reqCh) /\ r \notin Elements(batch)
        /\ respCh[r] = Nothing /\ result[r] = Nothing
    BY <2>1 DEF CallTracking, CallersTracked
  <2>3. Elements(reqCh') = Elements(reqCh) \cup {r} /\ Distinct(reqCh')
    BY <2>1, <2>2, AppendFacts DEF CallTracking, OnePlace, TypeOK
  <2>4. OnePlace'
    <3>1. Elements(reqCh') \cap Elements(batch') = {}
      BY <1>1, <2>2, <2>3 DEF CallTracking, OnePlace
    <3>2. Distinct(batch')
      BY <1>1 DEF CallTracking, OnePlace
    <3>3. QED
      BY <2>3, <3>1, <3>2 DEF OnePlace
  <2>5. \A q \in Requests : caller'[q] = IF q = r THEN "waiting" ELSE caller[q]
    BY <2>1 DEF TypeOK
  <2>6. CallersTracked' /\ OwnAnswer' /\ NoLostCall'
    BY <1>1, <2>1, <2>2, <2>3, <2>5 DEF CallTracking, CallersTracked, OwnAnswer, NoLostCall, Elements
  <2>7. SentTracked'
    BY <1>1, <2>1 DEF CallTracking, SentTracked, Response
  <2>8. QED
    BY <1>2, <2>4, <2>6, <2>7 DEF CallTracking
<1>5. CASE ~Enqueue(r)
  <2>1. reqCh' = reqCh /\ Elements(reqCh') = Elements(reqCh)
    BY <1>5 DEF Caller, Invoke, CtxEnds, ReturnResponse, ReturnCtxErr, Forget
  <2>2. OnePlace'
    BY <1>1, <2>1 DEF CallTracking, OnePlace, Elements, Distinct
  <2>3. CASE Invoke(r)
    <3>1. /\ \A q \in Requests : caller'[q] = IF q = r THEN "sending" ELSE caller[q]
          /\ caller[r] = "idle" /\ UNCHANGED <<respCh, result>>
      BY <2>3 DEF Invoke, TypeOK
    <3>2. CallersTracked' /\ OwnAnswer' /\ NoLostCall' /\ SentTracked'
      BY <1>1, <2>1, <3>1
      DEF CallTracking, CallersTracked, OwnAnswer, NoLostCall, SentTracked, Elements, Response
    <3>3. QED
      BY <1>2, <2>2, <3>2 DEF CallTracking
  <2>4. CASE CtxEnds(r)
    <3>1. UNCHANGED <<caller, respCh, result>>
      BY <2>4 DEF CtxEnds
    <3>2. CallersTracked' /\ OwnAnswer' /\ NoLostCall' /\ SentTracked'
      BY <1>1, <2>1, <3>1
      DEF CallTracking, CallersTracked, OwnAnswer, NoLostCall, SentTracked, Elements, Response
    <3>3. QED
      BY <1>2, <2>2, <3>2 DEF CallTracking
  <2>5. CASE ReturnResponse(r)
    <3>1. /\ \A q \in Requests : caller'[q] = IF q = r THEN "returned" ELSE caller[q]
          /\ \A q \in Requests : result'[q] = IF q = r THEN respCh[r] ELSE result[q]
          /\ \A q \in Requests : respCh'[q] = IF q = r THEN Nothing ELSE respCh[q]
          /\ caller[r] = "waiting" /\ respCh[r] # Nothing
      BY <2>5 DEF ReturnResponse, Return, TypeOK
    <3>2. result[r] = Nothing /\ r \notin Elements(reqCh) \cup Unsent
      BY <3>1 DEF CallTracking, CallersTracked
    <3>3. CallersTracked' /\ OwnAnswer' /\ NoLostCall'
      BY <1>1, <2>1, <3>1, <3>2, ResultFacts
      DEF CallTracking, CallersTracked, OwnAnswer, NoLostCall, Elements
    <3>4. \A q \in Requests : Response(q) # Nothing /\ Response(q)' = Response(q)
      BY <1>1, ResultFacts DEF Response
    <3>5. SentTracked'
      BY <1>1, <1>3, <3>1, <3>2, <3>4 DEF CallTracking, SentTracked, Response
    <3>6. QED
      BY <1>2, <2>2, <3>3, <3>5 DEF CallTracking
  <2>6. CASE ReturnCtxErr(r)
    <3>1. /\ \A q \in Requests : caller'[q] = IF q = r THEN "returned" ELSE caller[q]
          /\ \A q \in Requests : result'[q] = IF q = r THEN CtxErr ELSE result[q]
          /\ caller[r] = "waiting" /\ UNCHANGED respCh
      BY <2>6 DEF ReturnCtxErr, Return, TypeOK
    <3>2. result[r] = Nothing
      BY <3>1 DEF CallTracking, CallersTracked
    <3>3. CallersTracked' /\ OwnAnswer' /\ NoLostCall'
      BY <1>1, <2>1, <3>1, <3>2, ResultFacts
      DEF CallTracking, CallersTracked, OwnAnswer, NoLostCall, Elements
    <3>4. \A q \in Requests : Response(q) # Nothing /\ Response(q)' = Response(q)
      BY <1>1, ResultFacts DEF Response
    <3>5. SentTracked'
      BY <1>1, <1>3, <3>1, <3>2, <3>4 DEF CallTracking, SentTracked, Response
    <3>6. QED
      BY <1>2, <2>2, <3>3, <3>5 DEF CallTracking
  <2>7. CASE Forget(r)
    <3>1. /\ \A q \in Requests : caller'[q] = IF q = r THEN "idle" ELSE caller[q]
          /\ \A q \in Requests : result'[q] = IF q = r THEN Nothing ELSE result[q]
          /\ \A q \in Requests : respCh'[q] = IF q = r THEN Nothing ELSE respCh[q]
          /\ r \notin Elements(reqCh) \cup Elements(batch)
      BY <2>7 DEF Forget, TypeOK
    <3>2. Unsent \subseteq Elements(batch)
      BY UnsentFacts, SMTT(30)
    <3>3. CallersTracked' /\ OwnAnswer' /\ NoLostCall'
      BY <1>1, <2>1, <3>1, <3>2, ResultFacts, Zenon
      DEF CallTracking, CallersTracked, OwnAnswer, NoLostCall, Elements
    <3>4. SentTracked'
      BY <1>1, <1>3, <3>1 DEF CallTracking, SentTracked, Response
    <3>5. QED
      BY <1>2, <2>2, <3>3, <3>4 DEF CallTracking
  <2>8. QED
    BY <1>5, <2>3, <2>4, <2>5, <2>6, <2>7 DEF Caller
<1>6. QED
  BY <1>4, <1>5

\* Types and call tracking together are an inductive invariant.
LEMMA TrackingStep == TypeOK /\ CallTracking /\ [Next]_vars => TypeOK' /\ CallTracking'
<1> SUFFICES ASSUME TypeOK, CallTracking, [Next]_vars PROVE TypeOK' /\ CallTracking'
  OBVIOUS
<1>1. TypeOK'
  BY TypeStep
<1>2. ASSUME UNCHANGED vars PROVE CallTracking'
  <2>1. UNCHANGED <<reqCh, batch, timer, pc, outcome, sent, caller, ctxDone, respCh, result>>
    BY <1>2 DEF vars
  <2>2. Unsent' = Unsent /\ Elements(reqCh') = Elements(reqCh) /\ Elements(batch') = Elements(batch)
    BY <2>1 DEF Unsent
  <2>3. OnePlace' /\ RunTracked' /\ WaitEnds' /\ SentTracked'
    BY <2>1 DEF CallTracking, OnePlace, RunTracked, WaitEnds, SentTracked, Response
  <2>4. CallersTracked' /\ OwnAnswer' /\ NoLostCall'
    BY <2>1, <2>2, CallersUntouched DEF CallTracking, callerVars
  <2>5. QED
    BY <2>3, <2>4 DEF CallTracking
<1>3. QED
  BY <1>1, <1>2, FanOutStep, RunStep, CallerStep DEF Next, Run

\* Types and call tracking hold in every reachable state of callers and run,
\* for any number of calls, batch size and channel capacity.
THEOREM TrackingHolds == Spec => [](TypeOK /\ CallTracking)
<1>1. Init => TypeOK /\ CallTracking
  <2> USE EmptyFacts DEF Init
  <2>1. Init => TypeOK
    BY SizeAssumption DEF TypeOK, Responses
  <2>2. Init => CallTracking
    BY ResultFacts
    DEF CallTracking, OnePlace, CallersTracked, RunTracked, SentTracked, OwnAnswer,
        NoLostCall, WaitEnds, Unsent
  <2>3. QED
    BY <2>1, <2>2
<1>2. QED
  BY <1>1, TrackingStep, PTL DEF Spec

\* Every caller of Invoke gets its own answer or an error.
THEOREM AnswersReachTheirCallers == Spec => []OwnAnswer
BY TrackingHolds, PTL DEF CallTracking

\* No waiting call of Invoke is dropped between channel, batch and answer.
THEOREM NoCallIsLost == Spec => []NoLostCall
BY TrackingHolds, PTL DEF CallTracking

\* The wait of run for a fuller batch always has a timer behind it.
THEOREM NoWakeUpIsLost == Spec => []WaitEnds
BY TrackingHolds, PTL DEF CallTracking

\* The sends of flush never block run.
THEOREM FlushNeverBlocks == Spec => []SendsNeverBlock
<1>1. TypeOK /\ CallTracking => SendsNeverBlock
  <2> SUFFICES ASSUME TypeOK, CallTracking, NEW r \in Unsent PROVE respCh[r] = Nothing
    BY DEF SendsNeverBlock
  <2>1. r \in Requests
    BY DEF Unsent, TypeOK
  <2>2. QED
    BY <2>1 DEF CallTracking, CallersTracked
<1>2. QED
  BY <1>1, TrackingHolds, PTL

-----------------------------------------------------------------------------
(* Refinement *)

\* The calls of a batch are no more than its length.
LEMMA BatchCardinality ==
    ASSUME NEW s \in Seq(Requests)
    PROVE  Cardinality(Elements(s)) <= Len(s)
<1>1. [i \in 1..Len(s) |-> s[i]] \in Surjection(1..Len(s), Elements(s))
  BY DEF Elements, Surjection
<1>2. ExistsSurjection(1..Len(s), Elements(s))
  BY <1>1 DEF ExistsSurjection
<1>3. QED
  BY <1>2, FS_SurjCardinalityBound

\* A call none of whose answers was sent has not been executed, unless run is
\* sending the answers of its batch; an executed call shows how it ended.
LEMMA ExecFacts ==
    ASSUME TypeOK, CallTracking, NEW r \in Requests
    PROVE  /\ pc = "handler" /\ r \in Elements(batch) => ExecOf(r) = "no" /\ caller[r] \in {"waiting", "returned"}
           /\ r \in Elements(batch) /\ r \notin Unsent => Response(r) \in {respCh[r], result[r]}
           /\ respCh[r] # Nothing => ExecOf(r) = IF respCh[r] = Failed THEN "error" ELSE "ok"
           /\ respCh[r] # Nothing => respCh[r] \in {Failed, Answer(r)}
<1>1. ASSUME pc = "handler", r \in Elements(batch)
      PROVE  ExecOf(r) = "no" /\ caller[r] \in {"waiting", "returned"}
  <2>1. r \in Unsent
    BY <1>1, UnsentFacts DEF CallTracking, RunTracked
  <2>2. respCh[r] = Nothing /\ result[r] \in {Nothing, CtxErr}
    BY <2>1 DEF CallTracking, CallersTracked
  <2>3. ExecOf(r) = "no"
    BY <1>1, <2>2, ResultFacts DEF ExecOf
  <2>4. caller[r] \in {"waiting", "returned"}
    BY <1>1 DEF CallTracking, CallersTracked, TypeOK
  <2>5. QED
    BY <2>3, <2>4
<1>2. ASSUME r \in Elements(batch), r \notin Unsent PROVE Response(r) \in {respCh[r], result[r]}
  <2>1. PICK i \in 1..Len(batch) : r = batch[i]
    BY <1>2 DEF Elements
  <2>2. i \in 1..sent
    BY <1>2, <2>1 DEF Unsent, TypeOK
  <2>3. QED
    BY <2>1, <2>2 DEF CallTracking, SentTracked
<1>3. ASSUME respCh[r] # Nothing
      PROVE  /\ respCh[r] \in {Failed, Answer(r)}
             /\ ExecOf(r) = IF respCh[r] = Failed THEN "error" ELSE "ok"
  <2>1. respCh[r] \in {Failed, Answer(r)} /\ result[r] \in {Nothing, CtxErr}
    BY <1>3 DEF CallTracking, OwnAnswer, CallersTracked
  <2>2. CASE pc = "fanOut" /\ r \in Elements(batch)
    <3>1. r \notin Unsent
      BY <1>3 DEF CallTracking, CallersTracked
    <3>2. respCh[r] = Response(r)
      BY <1>2, <2>1, <2>2, <3>1, ResultFacts DEF Response
    <3>3. QED
      BY <2>1, <2>2, <3>2, ResultFacts DEF Response, ExecOf, TypeOK
  <2>3. CASE ~(pc = "fanOut" /\ r \in Elements(batch))
    BY <2>1, <2>3, ResultFacts DEF ExecOf
  <2>4. QED
    BY <2>1, <2>2, <2>3
<1>4. QED
  BY <1>1, <1>2, <1>3

\* A step that leaves the callers' results and channels alone, and keeps a
\* batch that is being answered, changes no call's execution.
LEMMA ExecUnchanged ==
    ASSUME UNCHANGED <<respCh, result>>, pc # "fanOut", pc' # "fanOut"
    PROVE  UNCHANGED execMap
BY DEF execMap, ExecOf

\* Each step of callers and scheduler is a step of the contract or changes
\* nothing the contract speaks of.
LEMMA ContractStep ==
    ASSUME TypeOK, CallTracking, [Next]_vars, TypeOK', CallTracking'
    PROVE  [Contract!ContractNext]_(Contract!contractVars)
<1> DEFINE Stutter == UNCHANGED <<callMap, execMap, result>>
<1>1. Stutter => [Contract!ContractNext]_(Contract!contractVars)
  BY DEF Contract!contractVars
<1>2. CASE UNCHANGED vars
  BY <1>1, <1>2 DEF vars, callMap, execMap, ExecOf, Elements
<1>3. CASE ReceiveFirst \/ ReceiveMore \/ ReceiveTimer
  <2>1. UNCHANGED callerVars /\ pc # "fanOut" /\ pc' # "fanOut"
    BY <1>3 DEF ReceiveFirst, ReceiveMore, ReceiveTimer, Take
  <2>2. QED
    BY <1>1, <2>1, ExecUnchanged DEF callerVars, callMap
<1>4. CASE TimerFires
  BY <1>1, <1>4 DEF TimerFires, callerVars, callMap, execMap, ExecOf, Elements
<1>5. CASE FanOut
  <2>1. /\ UNCHANGED <<batch, pc, outcome, caller, result>> /\ pc = "fanOut"
        /\ batch[sent + 1] \in Elements(batch)
        /\ \A q \in Requests : q # batch[sent + 1] => respCh'[q] = respCh[q]
    BY <1>5 DEF FanOut, TypeOK, Elements
  <2>2. \A q \in Requests : ExecOf(q)' = ExecOf(q)
    BY <2>1 DEF ExecOf, Elements
  <2>3. QED
    BY <1>1, <2>1, <2>2 DEF callMap, execMap
<1>6. CASE FlushEnds
  <2>1. /\ UNCHANGED <<outcome, callerVars>> /\ pc = "fanOut" /\ pc' = "receive"
        /\ sent = Len(batch)
    BY <1>6 DEF FlushEnds
  <2>2. ASSUME NEW q \in Requests PROVE ExecOf(q)' = ExecOf(q)
    <3>1. CASE q \notin Elements(batch)
      BY <2>1, <3>1 DEF ExecOf, callerVars
    <3>2. CASE q \in Elements(batch)
      <4>1. Response(q) \in {respCh[q], result[q]}
        BY <2>1, <3>2, ExecFacts, UnsentFacts
      <4>2. /\ respCh[q] \in {Nothing, Failed, Answer(q)}
            /\ respCh[q] # Nothing => result[q] \in {Nothing, CtxErr}
        BY DEF CallTracking, OwnAnswer, CallersTracked
      <4>3. ExecOf(q)' = outcome
        BY <2>1, <4>1, <4>2, ResultFacts DEF ExecOf, Response, callerVars, TypeOK
      <4>4. QED
        BY <2>1, <3>2, <4>3 DEF ExecOf
    <3>3. QED
      BY <3>1, <3>2
  <2>3. QED
    BY <1>1, <2>1, <2>2 DEF callMap, execMap, callerVars
<1>7. CASE HandlerReturns
  <2>1. /\ UNCHANGED <<batch, callerVars>> /\ pc = "handler" /\ pc' = "fanOut"
        /\ outcome' \in {"ok", "error"}
    BY <1>7 DEF HandlerReturns
  <2>2. Elements(batch) \subseteq Requests /\ Elements(batch) # {}
    BY <2>1 DEF TypeOK, Elements, CallTracking, RunTracked
  <2>3. Cardinality(Elements(batch)) <= MaxBatchSize
    <3>1. Cardinality(Elements(batch)) \in Nat
      <4>1. [i \in 1..Len(batch) |-> batch[i]] \in Surjection(1..Len(batch), Elements(batch))
        BY DEF Elements, Surjection
      <4>2. IsFiniteSet(1..Len(batch))
        BY FS_Interval DEF TypeOK
      <4>3. IsFiniteSet(Elements(batch))
        BY <4>1, <4>2, FS_Surjection
      <4>4. QED
        BY <4>3, FS_CardinalityType
    <3>2. QED
      BY <3>1, BatchCardinality, SizeAssumption DEF TypeOK
  <2>4. \A q \in Elements(batch) : callMap[q] # "idle" /\ execMap[q] = "no"
    BY <2>1, <2>2, ExecFacts DEF callMap, execMap
  <2>5. execMap' = [q \in Requests |-> IF q \in Elements(batch) THEN outcome' ELSE execMap[q]]
    BY <2>1 DEF execMap, ExecOf, Elements, callerVars
  <2>6. UNCHANGED <<callMap, result>>
    BY <2>1 DEF callMap, callerVars
  <2>7. PICK o \in {"ok", "error"} : o = outcome'
    BY <2>1
  <2>8. Contract!Execute(Elements(batch), o)
    <3>1. Contract!Cardinality(Elements(batch)) = Cardinality(Elements(batch))
      BY DEF Contract!Cardinality, Cardinality
    <3>2. QED
      BY <2>2, <2>3, <2>4, <2>5, <2>6, <2>7, <3>1 DEF Contract!Execute
  <2>9. QED
    BY <2>2, <2>8 DEF Contract!ContractNext
<1>8. ASSUME NEW r \in Requests, Caller(r)
      PROVE  [Contract!ContractNext]_(Contract!contractVars)
  <2>1. CASE Invoke(r)
    <3>1. UNCHANGED <<pc, batch, outcome, respCh, result>>
      BY <2>1 DEF Invoke, runVars
    <3>2. UNCHANGED execMap
      BY <3>1 DEF execMap, ExecOf, Elements
    <3>3. callMap[r] = "idle" /\ callMap' = [callMap EXCEPT ![r] = "called"]
      BY <2>1, Zenon DEF Invoke, callMap, TypeOK
    <3>4. Contract!Call(r)
      BY <3>1, <3>2, <3>3 DEF Contract!Call
    <3>5. QED
      BY <3>4 DEF Contract!ContractNext
  <2>2. CASE Enqueue(r)
    <3>1. UNCHANGED <<pc, batch, outcome, respCh, result>>
      BY <2>2 DEF Enqueue
    <3>2. UNCHANGED execMap
      BY <3>1 DEF execMap, ExecOf, Elements
    <3>3. UNCHANGED callMap
      BY <2>2 DEF Enqueue, callMap, TypeOK
    <3>4. QED
      BY <1>1, <3>1, <3>2, <3>3
  <2>3. CASE CtxEnds(r)
    BY <1>1, <2>3 DEF CtxEnds, runVars, callMap, execMap, ExecOf, Elements
  <2>4. ASSUME NEW v, Return(r, v)
        PROVE  /\ callMap[r] = "called" /\ callMap' = [callMap EXCEPT ![r] = "returned"]
               /\ result' = [result EXCEPT ![r] = v]
               /\ result[r] = Nothing
    BY <2>4, Zenon DEF Return, callMap, TypeOK, CallTracking, CallersTracked
  <2>5. CASE ReturnResponse(r)
    <3>1. /\ UNCHANGED <<pc, batch, outcome>> /\ respCh[r] # Nothing /\ Return(r, respCh[r])
          /\ \A q \in Requests : respCh'[q] = IF q = r THEN Nothing ELSE respCh[q]
          /\ \A q \in Requests : result'[q] = IF q = r THEN respCh[r] ELSE result[q]
      BY <2>5 DEF ReturnResponse, Return, runVars, TypeOK
    <3>2. /\ respCh[r] \in {Failed, Answer(r)}
          /\ ExecOf(r) = IF respCh[r] = Failed THEN "error" ELSE "ok"
      BY <3>1, ExecFacts
    <3>3. \A q \in Requests : ExecOf(q)' = ExecOf(q)
      BY <2>4, <3>1 DEF ExecOf, Elements
    <3>4. UNCHANGED execMap
      BY <3>3 DEF execMap
    <3>5. Contract!Finish(r, respCh[r])
      BY <2>4, <3>1, <3>4 DEF Contract!Finish
    <3>6. Contract!Error = Failed /\ Contract!AnswerTo(r) = Answer(r)
      BY DEF Contract!Error, Contract!AnswerTo, Failed, Answer
    <3>7. Contract!Deliver(r)
      BY <3>2, <3>5, <3>6, ResultFacts DEF Contract!Deliver, execMap
    <3>8. QED
      BY <3>7 DEF Contract!ContractNext
  <2>6. CASE ReturnCtxErr(r)
    <3>1. /\ UNCHANGED <<pc, batch, outcome, respCh>> /\ Return(r, CtxErr)
          /\ \A q \in Requests : result'[q] = IF q = r THEN CtxErr ELSE result[q]
      BY <2>6 DEF ReturnCtxErr, Return, runVars, TypeOK
    <3>2. \A q \in Requests : ExecOf(q)' = ExecOf(q)
      BY <2>4, <3>1, ResultFacts DEF ExecOf, Elements
    <3>3. UNCHANGED execMap
      BY <3>2 DEF execMap
    <3>4. Contract!Cancel(r)
      BY <2>4, <3>1, <3>3 DEF Contract!Cancel, Contract!Finish, Contract!Cancelled, CtxErr
    <3>5. QED
      BY <3>4 DEF Contract!ContractNext
  <2>7. CASE Forget(r)
    <3>1. /\ UNCHANGED <<pc, batch, outcome>> /\ r \notin Elements(batch) /\ caller[r] = "returned"
          /\ \A q \in Requests : respCh'[q] = IF q = r THEN Nothing ELSE respCh[q]
          /\ result' = [result EXCEPT ![r] = Nothing]
          /\ \A q \in Requests : result'[q] = IF q = r THEN Nothing ELSE result[q]
          /\ caller' = [caller EXCEPT ![r] = "idle"]
      BY <2>7 DEF Forget, runVars, TypeOK
    <3>2. \A q \in Requests : ExecOf(q)' = IF q = r THEN "no" ELSE ExecOf(q)
      BY <3>1, ResultFacts DEF ExecOf, Elements
    <3>3. execMap' = [execMap EXCEPT ![r] = "no"]
      BY <3>2, Zenon DEF execMap
    <3>4. callMap[r] = "returned" /\ callMap' = [callMap EXCEPT ![r] = "idle"]
      BY <3>1, Zenon DEF callMap, TypeOK
    <3>5. Contract!Renew(r)
      BY <3>1, <3>3, <3>4 DEF Contract!Renew, Contract!NoResult, Nothing
    <3>6. QED
      BY <3>5 DEF Contract!ContractNext
  <2>8. QED
    BY <1>8, <2>1, <2>2, <2>3, <2>5, <2>6, <2>7 DEF Caller
<1>9. QED
  BY <1>2, <1>3, <1>4, <1>5, <1>6, <1>7, <1>8 DEF Next, Run

\* The scheduler with its channels, timer and goroutines implements what its
\* callers rely on: at most one execution per call, in a batch of at most
\* MaxBatchSize calls, and a result that comes from that execution.
THEOREM SchedulerKeepsContract == Spec => ImplementsContract
<1>1. Init => Contract!ContractInit
  <2> SUFFICES ASSUME Init PROVE Contract!ContractInit
    OBVIOUS
  <2>1. callMap = [r \in Requests |-> "idle"] /\ result = [r \in Requests |-> Nothing]
    BY DEF Init, callMap
  <2>2. execMap = [r \in Requests |-> "no"]
    BY ResultFacts DEF Init, execMap, ExecOf
  <2>3. QED
    BY <2>1, <2>2 DEF Contract!ContractInit, Contract!NoResult, Nothing
<1>2. QED
  BY <1>1, ContractStep, TrackingHolds, PTL DEF Spec, ImplementsContract, Contract!ContractSpec
=============================================================================
