----------------------------- MODULE RetryProofs -----------------------------
(***************************************************************************)
(* Proofs about retry.go, for any set of calls, hedged or not, any policy  *)
(* and any thresholds: what ExecuteWithRetry returns is decided by what    *)
(* its workers returned, a failure the backend did not cause comes from    *)
(* the loser of a won hedge, and the breaker follows its documented state  *)
(* machine when its calls do not overlap.                                  *)
(***************************************************************************)
EXTENDS Retries, SequenceTheorems, TLAPS

WorkLabels == {"none", "skipping", "operating", "sleeping", "done", "panicked"}
CallLabels == {"idle", "direct", "select", "refused", "first", "second", "returned"}

Typed ==
    /\ callPc \in [Calls -> CallLabels]
    /\ returned \in [Calls -> H!Results \cup {"none", "open"}]
    /\ resultCh \in [Calls -> Seq(H!Results)]
    /\ workPc \in [Calls -> [H!Kinds -> WorkLabels]]
    /\ result \in [Calls -> [H!Kinds -> H!Results \cup {"none"}]]

Tracked == Typed /\ \A c \in Calls : H!CallTracked(c)

\* What a send and a receive do to a channel of at most two results.
LEMMA SendAndReceive ==
    ASSUME NEW s \in Seq(H!Results), NEW r \in H!Results
    PROVE  /\ Append(s, r) \in Seq(H!Results)
           /\ s = <<>> => Len(Append(s, r)) = 1 /\ Append(s, r)[1] = r
           /\ Len(s) = 1 => /\ Len(Append(s, r)) = 2
                            /\ Append(s, r)[1] = s[1] /\ Append(s, r)[2] = r
           /\ s # <<>> => Head(s) = s[1] /\ s[1] \in H!Results /\ Tail(s) \in Seq(H!Results)
           /\ Len(s) = 1 => Tail(s) = <<>>
           /\ Len(s) = 2 => Len(Tail(s)) = 1 /\ Tail(s)[1] = s[2]
           /\ s = <<>> <=> Len(s) = 0
<1>1. Append(s, r) \in Seq(H!Results) /\ Len(Append(s, r)) = Len(s) + 1
  OBVIOUS
<1>2. s = <<>> <=> Len(s) = 0
  OBVIOUS
<1>3. s = <<>> => Len(Append(s, r)) = 1 /\ Append(s, r)[1] = r
  OBVIOUS
<1>4. Len(s) = 1 => Append(s, r)[1] = s[1] /\ Append(s, r)[2] = r
  BY <1>1, AppendProperties
<1>5. s # <<>> => Head(s) = s[1] /\ s[1] \in H!Results /\ Tail(s) \in Seq(H!Results)
  BY HeadTailProperties, ElementOfSeq, EmptySeq
<1>6. Len(s) = 1 => Tail(s) = <<>>
  <2>1. SUFFICES ASSUME Len(s) = 1 PROVE Tail(s) = <<>>
    OBVIOUS
  <2>2. Tail(s) \in Seq(H!Results) /\ Len(Tail(s)) = 0
    BY <2>1
  <2>3. QED
    BY Zenon, <2>2, EmptySeq
<1>7. Len(s) = 2 => Len(Tail(s)) = 1 /\ Tail(s)[1] = s[2]
  BY <1>2, HeadTailProperties
<1>8. QED
  BY <1>1, <1>2, <1>3, <1>4, <1>5, <1>6, <1>7

\* A call that a step leaves alone stays tracked.
LEMMA OthersTracked ==
    ASSUME NEW d \in Calls, H!CallTracked(d),
           callPc'[d] = callPc[d], returned'[d] = returned[d], resultCh'[d] = resultCh[d],
           workPc'[d] = workPc[d], result'[d] = result[d]
    PROVE  H!CallTracked(d)'
BY DEF H!CallTracked, H!Done, H!Other, H!Only, H!SentBy, H!SentFirstBy, H!Launched, H!Justified

\* A worker that ends sends its result, or returns it from the call.
LEMMA EndWorkerStep ==
    ASSUME Tracked, NEW c \in Calls, NEW k \in H!Kinds, NEW r \in H!Results,
           workPc[c][k] \in {"skipping", "operating", "sleeping"}, H!EndWorker(c, k, r)
    PROVE  Tracked'
<1>1. Typed /\ H!CallTracked(c)
  BY Zenon DEF Tracked
<1>2. Typed'
  <2>1. CASE c \in Hedged
    <3>1. Append(resultCh[c], r) \in Seq(H!Results)
      BY Zenon, <1>1, SendAndReceive DEF Typed
    <3>2. workPc' \in [Calls -> [H!Kinds -> WorkLabels]]
      BY Zenon, <1>1 DEF Typed, H!EndWorker, WorkLabels
    <3>3. result' \in [Calls -> [H!Kinds -> H!Results \cup {"none"}]]
      BY Zenon, <1>1 DEF Typed, H!EndWorker
    <3>4. callPc' = callPc /\ returned' = returned /\ resultCh' \in [Calls -> Seq(H!Results)]
      <4>1. resultCh' = [resultCh EXCEPT ![c] = Append(@, r)]
        BY Zenon, <2>1 DEF H!EndWorker
      <4>2. resultCh' \in [Calls -> Seq(H!Results)]
        BY Zenon, <1>1, <3>1, <4>1 DEF Typed
      <4>3. QED
        BY Zenon, <2>1, <4>2 DEF H!EndWorker
    <3>5. QED
      BY Zenon, <1>1, <3>2, <3>3, <3>4 DEF Typed
  <2>2. CASE c \notin Hedged
    <3>1. callPc' \in [Calls -> CallLabels] /\ returned' \in [Calls -> H!Results \cup {"none", "open"}]
      <4>1. /\ callPc' = [callPc EXCEPT ![c] = "returned"]
            /\ returned' = [returned EXCEPT ![c] = r]
        BY Zenon, <2>2 DEF H!EndWorker, H!ReturnCall
      <4>2. callPc' \in [Calls -> CallLabels]
        BY Zenon, <1>1, <4>1 DEF Typed, CallLabels
      <4>3. returned' \in [Calls -> H!Results \cup {"none", "open"}]
        BY Zenon, <1>1, <4>1 DEF Typed
      <4>4. QED
        BY Zenon, <4>2, <4>3
    <3>2. workPc' \in [Calls -> [H!Kinds -> WorkLabels]]
      BY Zenon, <1>1 DEF Typed, H!EndWorker, WorkLabels
    <3>3. result' \in [Calls -> [H!Kinds -> H!Results \cup {"none"}]]
      BY Zenon, <1>1 DEF Typed, H!EndWorker
    <3>4. resultCh' = resultCh
      BY Zenon, <2>2 DEF H!EndWorker
    <3>5. QED
      BY Zenon, <1>1, <3>1, <3>2, <3>3, <3>4 DEF Typed
  <2>3. QED
    BY Zenon, <2>1, <2>2
<1>3. ASSUME NEW d \in Calls, d # c PROVE H!CallTracked(d)'
  <2>1. H!CallTracked(d)
    BY Zenon DEF Tracked
  <2>2. /\ callPc'[d] = callPc[d] /\ returned'[d] = returned[d] /\ resultCh'[d] = resultCh[d]
        /\ workPc'[d] = workPc[d] /\ result'[d] = result[d]
    BY Zenon, <1>1, <1>3 DEF Typed, H!EndWorker, H!ReturnCall
  <2>3. QED
    BY Zenon, <2>1, <2>2, OthersTracked
<1>4. /\ workPc'[c][k] = "done" /\ workPc'[c][H!Other(k)] = workPc[c][H!Other(k)]
      /\ result'[c][k] = r /\ result'[c][H!Other(k)] = result[c][H!Other(k)]
  BY <1>1 DEF Typed, H!EndWorker, H!Other, H!Kinds
<1>5. /\ H!Other(k) \in H!Kinds /\ H!Other(k) # k /\ H!Other(H!Other(k)) = k
      /\ \A j \in H!Kinds : j = k \/ j = H!Other(k)
  BY Zenon DEF H!Other, H!Kinds
<1>6. ~H!Done(c, k) /\ result[c][k] = "none" /\ r # "none"
  BY Zenon, <1>1 DEF H!CallTracked, H!Done, H!Results
<1>7. \A j \in H!Kinds : H!Done(c, j)' <=> result'[c][j] # "none"
  BY <1>1, <1>4, <1>5, <1>6 DEF H!CallTracked, H!Done
<1>8. callPc[c] # "idle"
  BY Zenon, <1>1 DEF H!CallTracked
<1>9. returned[c] # "err"
  BY Zenon, <1>1, <1>6 DEF H!CallTracked, H!Justified, H!Launched
<1>10. H!CallTracked(c)'
  <2>1. CASE c \notin Hedged
    <3>1. k = "primary" /\ callPc[c] = "direct"
      BY Zenon, <1>1, <1>8, <2>1 DEF H!CallTracked, H!Kinds
    <3>2. callPc'[c] = "returned" /\ returned'[c] = r
      BY Zenon, <1>1, <2>1 DEF Typed, H!EndWorker, H!ReturnCall
    <3>3. workPc'[c]["hedge"] = "none" /\ workPc'[c]["primary"] = "done"
      BY Zenon, <1>1, <1>4, <2>1, <3>1 DEF H!CallTracked, H!Other
    <3>4. \E j \in H!Kinds : result'[c][j] = r
      BY Zenon, <1>4
    <3>5. r = "err" => /\ k \in H!Launched(c)'
                       /\ \A j \in H!Launched(c)' : result'[c][j] \in {"err", "ctx"}
      BY Zenon, <1>4, <1>5, <3>1, <3>3 DEF H!Launched, H!Other
    <3>6. H!Justified(c, returned[c])'
      BY Zenon, <3>2, <3>4, <3>5 DEF H!Justified
    <3>7. QED
      BY Zenon, <1>7, <2>1, <3>2, <3>3, <3>6 DEF H!CallTracked
  <2>2. CASE c \in Hedged
    <3> DEFINE s == resultCh[c]
    <3>1. callPc'[c] = callPc[c] /\ returned'[c] = returned[c] /\ resultCh'[c] = Append(s, r)
      BY Zenon, <1>1, <2>2 DEF Typed, H!EndWorker
    <3>2. s \in Seq(H!Results)
      BY Zenon, <1>1 DEF Typed
    <3>3. /\ s = <<>> => Len(resultCh'[c]) = 1 /\ resultCh'[c][1] = r
          /\ Len(s) = 1 => /\ Len(resultCh'[c]) = 2
                           /\ resultCh'[c][1] = s[1] /\ resultCh'[c][2] = r
      BY <3>1, <3>2, SendAndReceive
    <3>4. ASSUME callPc[c] \in {"select", "refused"}
          PROVE  workPc'[c]["hedge"] = "none" /\ H!SentBy(c, "primary")'
      <4>1. k = "primary" /\ s = <<>> /\ workPc[c]["hedge"] = "none"
        BY Zenon, <1>1, <1>6, <3>4 DEF H!CallTracked, H!SentBy, H!Kinds
      <4>2. QED
        BY Zenon, <1>4, <3>3, <4>1 DEF H!SentBy, H!Done, H!Only, H!Other
    <3>5. ASSUME callPc[c] = "first" PROVE \E j \in H!Kinds : H!SentFirstBy(c, j)'
      <4>1. PICK j \in H!Kinds : H!SentFirstBy(c, j)
        BY Zenon, <1>1, <3>5 DEF H!CallTracked
      <4>2. CASE ~H!Done(c, H!Other(k))
        <5>1. s = <<>>
          BY Zenon, <1>5, <1>6, <4>1, <4>2 DEF H!SentFirstBy
        <5>2. H!SentFirstBy(c, k)'
          BY Zenon, <1>4, <3>3, <4>2, <5>1 DEF H!SentFirstBy, H!Done, H!Only
        <5>3. QED
          BY Zenon, <5>2
      <4>3. CASE H!Done(c, H!Other(k))
        <5>1. j = H!Other(k) /\ H!Only(c, H!Other(k))
          BY Zenon, <1>5, <1>6, <4>1, <4>3 DEF H!SentFirstBy
        <5>2. H!SentFirstBy(c, H!Other(k))'
          BY Zenon, <1>4, <1>5, <3>3, <4>3, <5>1 DEF H!SentFirstBy, H!Done, H!Only
        <5>3. QED
          BY Zenon, <1>5, <5>2
      <4>4. QED
        BY Zenon, <4>2, <4>3
    <3>6. ASSUME callPc[c] = "second"
          PROVE  \E j \in H!Kinds : (H!Done(c, j) /\ result[c][j] \in {"err", "ctx"} /\ H!SentBy(c, H!Other(j)))'
      <4>1. PICK j \in H!Kinds : H!Done(c, j) /\ result[c][j] \in {"err", "ctx"} /\ H!SentBy(c, H!Other(j))
        BY Zenon, <1>1, <3>6 DEF H!CallTracked
      <4>2. j = H!Other(k) /\ s = <<>>
        BY Zenon, <1>5, <1>6, <4>1 DEF H!SentBy
      <4>3. (H!Done(c, j) /\ result[c][j] \in {"err", "ctx"} /\ H!SentBy(c, H!Other(j)))'
        BY Zenon, <1>4, <1>5, <3>3, <4>1, <4>2 DEF H!SentBy, H!Done, H!Only
      <4>4. QED
        BY Zenon, <4>3
    <3>7. H!Justified(c, returned[c])'
      <4>1. returned[c] \in H!NoError => \E j \in H!Kinds : result'[c][j] = returned[c]
        BY <1>1, <1>4, <1>5, <1>6 DEF H!CallTracked, H!Justified, H!NoError
      <4>2. returned'[c] # "err"
        BY Zenon, <1>9, <3>1
      <4>3. QED
        BY Zenon, <3>1, <4>1, <4>2 DEF H!Justified
    <3>8. callPc'[c] # "returned" => returned'[c] = "none"
      BY Zenon, <1>1, <1>9, <3>1 DEF H!CallTracked
    <3>9. c \in Hedged /\ callPc'[c] # "direct" /\ callPc'[c] # "idle"
      BY Zenon, <1>1, <1>8, <2>2, <3>1 DEF H!CallTracked
    <3>10. QED
      BY Zenon, <1>7, <3>1, <3>4, <3>5, <3>6, <3>7, <3>8, <3>9 DEF H!CallTracked
  <2>3. QED
    BY Zenon, <2>1, <2>2
<1>11. QED
  BY Zenon, <1>2, <1>3, <1>10 DEF Tracked

\* A worker that starts, sleeps or wakes up has sent nothing, and the call
\* it works for waits as before.
LEMMA WorkerMoves ==
    ASSUME Tracked, NEW c \in Calls, NEW k \in H!Kinds,
           NEW l \in {"operating", "sleeping", "panicked"},
           workPc[c][k] \in {"operating", "sleeping"},
           workPc' = [workPc EXCEPT ![c][k] = l],
           UNCHANGED <<result, resultCh, callPc, returned>>
    PROVE  Tracked'
<1>1. Typed /\ H!CallTracked(c)
  BY Zenon DEF Tracked
<1>2. Typed'
  BY Zenon, <1>1 DEF Typed, WorkLabels
<1>3. ASSUME NEW d \in Calls, d # c PROVE H!CallTracked(d)'
  <2>1. H!CallTracked(d)
    BY Zenon DEF Tracked
  <2>2. workPc'[d] = workPc[d]
    BY Zenon, <1>1, <1>3 DEF Typed
  <2>3. QED
    BY Zenon, <2>1, <2>2, OthersTracked
<1>4. /\ workPc'[c][k] = l /\ l # "none" /\ l # "done"
      /\ \A j \in H!Kinds \ {k} : workPc'[c][j] = workPc[c][j]
  BY Zenon, <1>1 DEF Typed, H!Kinds
<1>5. \A j \in H!Kinds : /\ H!Done(c, j)' <=> H!Done(c, j)
                         /\ workPc'[c][j] = "none" <=> workPc[c][j] = "none"
                         /\ workPc'[c][j] = "done" <=> workPc[c][j] = "done"
  BY Zenon, <1>4 DEF H!Done
<1>6. \A j \in H!Kinds : H!SentBy(c, j)' <=> H!SentBy(c, j)
  BY Zenon, <1>5 DEF H!SentBy, H!Only
<1>7. \A j \in H!Kinds : H!Other(j) \in H!Kinds
  BY Zenon DEF H!Other, H!Kinds
<1>8. \A j \in H!Kinds : H!SentFirstBy(c, j)' <=> H!SentFirstBy(c, j)
  BY Zenon, <1>5, <1>7 DEF H!SentFirstBy, H!Only
<1>9. H!Launched(c)' = H!Launched(c) /\ "primary" \in H!Kinds /\ "hedge" \in H!Kinds
  BY Zenon, <1>5 DEF H!Launched, H!Kinds
<1>10. callPc[c] # "idle"
  BY Zenon, <1>1 DEF H!CallTracked
<1>11. H!Justified(c, returned[c])'
  BY Zenon, <1>1, <1>9 DEF H!CallTracked, H!Justified
<1>12. H!CallTracked(c)'
  BY <1>1, <1>5, <1>6, <1>7, <1>8, <1>9, <1>10, <1>11 DEF H!CallTracked
<1>13. QED
  BY Zenon, <1>2, <1>3, <1>12 DEF Tracked

\* A worker starts with its first attempt, or skips its loop.
StartLabel(c) == IF policy[c].attempts >= 1 THEN "operating" ELSE "skipping"

LEMMA StartLabels ==
    ASSUME NEW c, NEW k, H!StartWorker(c, k)
    PROVE  /\ workPc' = [workPc EXCEPT ![c][k] = StartLabel(c)]
           /\ StartLabel(c) \in {"operating", "skipping"} /\ StartLabel(c) \in WorkLabels
           /\ StartLabel(c) # "none" /\ StartLabel(c) # "done"
BY Zenon DEF H!StartWorker, StartLabel, WorkLabels

\* A call that starts is refused by the breaker, or has one worker.
LEMMA ExecuteStep ==
    ASSUME Tracked, NEW c \in Calls, H!Execute(c)
    PROVE  Tracked'
<1>1. Typed /\ H!CallTracked(c) /\ callPc[c] = "idle"
  BY Zenon DEF Tracked, H!Execute
<1>2. /\ \A k \in H!Kinds : workPc[c][k] = "none" /\ result[c][k] = "none"
      /\ resultCh[c] = <<>> /\ returned[c] = "none"
  BY Zenon, <1>1 DEF H!CallTracked, H!Done
<1>3. resultCh' = resultCh /\ result' = result
  BY Zenon DEF H!Execute, H!StartWorker, H!workVars
<1>4. CASE H!ReturnCall(c, "open") /\ UNCHANGED H!workVars
  <2>1. Typed'
    BY Zenon, <1>1, <1>3, <1>4 DEF Typed, H!ReturnCall, H!workVars, CallLabels
  <2>2. ASSUME NEW d \in Calls, d # c PROVE H!CallTracked(d)'
    <3>1. H!CallTracked(d) /\ workPc' = workPc
      BY Zenon, <1>4 DEF Tracked, H!workVars
    <3>2. callPc'[d] = callPc[d] /\ returned'[d] = returned[d]
      BY Zenon, <1>1, <1>4, <2>2 DEF Typed, H!ReturnCall
    <3>3. QED
      BY Zenon, <1>3, <3>1, <3>2, OthersTracked
  <2>3. callPc'[c] = "returned" /\ returned'[c] = "open" /\ workPc' = workPc
    BY Zenon, <1>1, <1>4 DEF Typed, H!ReturnCall, H!workVars
  <2>4. H!CallTracked(c)'
    BY Zenon, <1>2, <1>3, <2>3 DEF H!CallTracked, H!Justified, H!NoError, H!Done, H!Kinds
  <2>5. QED
    BY Zenon, <2>1, <2>2, <2>4 DEF Tracked
<1>5. CASE /\ H!StartWorker(c, "primary")
           /\ callPc' = [callPc EXCEPT ![c] = IF c \in Hedged THEN "select" ELSE "direct"]
           /\ UNCHANGED returned
  <2>0. /\ workPc' = [workPc EXCEPT ![c]["primary"] = StartLabel(c)] /\ StartLabel(c) \in WorkLabels
        /\ StartLabel(c) # "none" /\ StartLabel(c) # "done"
    BY Zenon, <1>5, StartLabels
  <2>1. Typed'
    BY Zenon, <1>1, <1>3, <1>5, <2>0 DEF Typed, CallLabels
  <2>2. ASSUME NEW d \in Calls, d # c PROVE H!CallTracked(d)'
    <3>1. H!CallTracked(d)
      BY Zenon DEF Tracked
    <3>2. callPc'[d] = callPc[d] /\ workPc'[d] = workPc[d]
      BY Zenon, <1>1, <1>5, <2>2 DEF Typed, H!StartWorker
    <3>3. QED
      BY Zenon, <1>3, <1>5, <3>1, <3>2, OthersTracked
  <2>3. /\ callPc'[c] = IF c \in Hedged THEN "select" ELSE "direct"
        /\ workPc'[c]["primary"] = StartLabel(c) /\ workPc'[c]["hedge"] = "none"
    BY Zenon, <1>1, <1>2, <1>5, <2>0 DEF Typed, H!Kinds
  <2>4. \A k \in H!Kinds : ~H!Done(c, k)'
    BY Zenon, <2>0, <2>3 DEF H!Done, H!Kinds
  <2>5. H!Justified(c, returned[c])'
    BY Zenon, <1>2, <1>5 DEF H!Justified, H!NoError
  <2>6. H!CallTracked(c)'
    BY <1>2, <1>3, <1>5, <2>3, <2>4, <2>5 DEF H!CallTracked, H!SentBy, H!Kinds
  <2>7. QED
    BY Zenon, <2>1, <2>2, <2>6 DEF Tracked
<1>6. QED
  BY Zenon, <1>4, <1>5 DEF H!Execute

\* Once its delay has passed, a call that still waits for its first worker
\* has a second one, or none is granted.
LEMMA HedgeDelayStep ==
    ASSUME Tracked, NEW c \in Calls, H!HedgeDelayPasses(c)
    PROVE  Tracked'
<1>1. Typed /\ H!CallTracked(c) /\ callPc[c] = "select" /\ c \in Hedged
  BY Zenon DEF Tracked, H!HedgeDelayPasses, H!CallTracked
<1>2. workPc[c]["hedge"] = "none" /\ H!SentBy(c, "primary") /\ returned[c] = "none"
  BY Zenon, <1>1 DEF H!CallTracked
<1>3. resultCh' = resultCh /\ result' = result /\ returned' = returned
  BY Zenon DEF H!HedgeDelayPasses, H!StartWorker, H!workVars
<1>4. CASE callPc' = [callPc EXCEPT ![c] = "first"] /\ H!StartWorker(c, "hedge")
  <2>0. /\ workPc' = [workPc EXCEPT ![c]["hedge"] = StartLabel(c)] /\ StartLabel(c) \in WorkLabels
        /\ StartLabel(c) # "none" /\ StartLabel(c) # "done"
    BY Zenon, <1>4, StartLabels
  <2>1. Typed'
    BY Zenon, <1>1, <1>3, <1>4, <2>0 DEF Typed, CallLabels
  <2>2. ASSUME NEW d \in Calls, d # c PROVE H!CallTracked(d)'
    <3>1. H!CallTracked(d)
      BY Zenon DEF Tracked
    <3>2. callPc'[d] = callPc[d] /\ workPc'[d] = workPc[d]
      BY Zenon, <1>1, <1>4, <2>2 DEF Typed, H!StartWorker
    <3>3. QED
      BY Zenon, <1>3, <3>1, <3>2, OthersTracked
  <2>3. /\ callPc'[c] = "first" /\ workPc'[c]["hedge"] = StartLabel(c)
        /\ StartLabel(c) # "done" /\ workPc'[c]["primary"] = workPc[c]["primary"]
    BY Zenon, <1>1, <1>4, <2>0 DEF Typed, H!Kinds
  <2>4. H!SentFirstBy(c, "primary")'
    BY Zenon, <1>2, <1>3, <2>3 DEF H!SentFirstBy, H!SentBy, H!Done, H!Only, H!Other
  <2>5. \A k \in H!Kinds : H!Done(c, k)' <=> result'[c][k] # "none"
    BY Zenon, <1>1, <1>2, <1>3, <2>3 DEF H!CallTracked, H!Done, H!Kinds
  <2>6. H!CallTracked(c)'
    BY Zenon, <1>1, <1>2, <1>3, <2>3, <2>4, <2>5 DEF H!CallTracked, H!Justified, H!NoError, H!Kinds
  <2>7. QED
    BY Zenon, <2>1, <2>2, <2>6 DEF Tracked
<1>5. CASE callPc' = [callPc EXCEPT ![c] = "refused"] /\ UNCHANGED H!workVars
  <2>1. Typed' /\ workPc' = workPc
    BY Zenon, <1>1, <1>3, <1>5 DEF Typed, H!workVars, CallLabels
  <2>2. ASSUME NEW d \in Calls, d # c PROVE H!CallTracked(d)'
    <3>1. H!CallTracked(d)
      BY Zenon DEF Tracked
    <3>2. callPc'[d] = callPc[d]
      BY Zenon, <1>1, <1>5, <2>2 DEF Typed
    <3>3. QED
      BY Zenon, <1>3, <2>1, <3>1, <3>2, OthersTracked
  <2>3. callPc'[c] = "refused"
    BY Zenon, <1>1, <1>5 DEF Typed
  <2>4. H!CallTracked(c)'
    BY Zenon, <1>1, <1>2, <1>3, <2>1, <2>3 
    DEF H!CallTracked, H!Justified, H!NoError, H!SentBy, H!Done, H!Only, H!Launched
  <2>5. QED
    BY Zenon, <2>1, <2>2, <2>4 DEF Tracked
<1>6. QED
  BY Zenon, <1>4, <1>5 DEF H!HedgeDelayPasses

\* A hedged call may return what its workers' results justify.
LEMMA ReturnStep ==
    ASSUME Tracked, NEW c \in Hedged, c \in Calls, NEW v \in H!Results, H!ReturnCall(c, v),
           UNCHANGED H!workVars,
           resultCh' = resultCh \/ (resultCh[c] # <<>> /\ resultCh' = [resultCh EXCEPT ![c] = Tail(@)]),
           H!Justified(c, v)
    PROVE  Tracked'
<1>1. Typed /\ H!CallTracked(c) /\ workPc' = workPc /\ result' = result
  BY Zenon DEF Tracked, H!workVars
<1>2. resultCh' \in [Calls -> Seq(H!Results)] /\ \A d \in Calls \ {c} : resultCh'[d] = resultCh[d]
  <2>1. resultCh[c] # <<>> => Tail(resultCh[c]) \in Seq(H!Results)
    BY Zenon, <1>1, HeadTailProperties DEF Typed
  <2>2. resultCh \in [Calls -> Seq(H!Results)]
    BY Zenon, <1>1 DEF Typed
  <2>3. CASE resultCh' = resultCh
    BY Zenon, <2>2, <2>3
  <2>4. CASE resultCh[c] # <<>> /\ resultCh' = [resultCh EXCEPT ![c] = Tail(@)]
    <3>1. resultCh' = [d \in Calls |-> IF d = c THEN Tail(resultCh[c]) ELSE resultCh[d]]
      BY Zenon, <2>2, <2>4
    <3>2. QED
      BY Zenon, <2>1, <2>2, <2>4, <3>1
  <2>5. QED
    BY Zenon, <2>3, <2>4
<1>3. Typed'
  BY Zenon, <1>1, <1>2 DEF Typed, H!ReturnCall, CallLabels
<1>4. ASSUME NEW d \in Calls, d # c PROVE H!CallTracked(d)'
  <2>1. H!CallTracked(d)
    BY Zenon DEF Tracked
  <2>2. callPc'[d] = callPc[d] /\ returned'[d] = returned[d]
    BY Zenon, <1>1, <1>4 DEF Typed, H!ReturnCall
  <2>3. QED
    BY Zenon, <1>1, <1>2, <1>4, <2>1, <2>2, OthersTracked
<1>5. callPc'[c] = "returned" /\ returned'[c] = v
  BY Zenon, <1>1 DEF Typed, H!ReturnCall
<1>6. \A k \in H!Kinds : H!Done(c, k)' <=> result'[c][k] # "none"
  BY Zenon, <1>1 DEF H!CallTracked, H!Done
<1>7. H!Launched(c)' = H!Launched(c)
  BY Zenon, <1>1 DEF H!Launched
<1>8. H!Justified(c, returned[c])'
  BY Zenon, <1>1, <1>5, <1>7 DEF H!Justified
<1>9. H!CallTracked(c)'
  BY Zenon, <1>1, <1>5, <1>6, <1>7, <1>8 DEF H!CallTracked
<1>10. QED
  BY Zenon, <1>3, <1>4, <1>9 DEF Tracked

\* The first result of a pair is a success, which is returned, or leaves the
\* call waiting for the other worker.
LEMMA ReceiveFirstStep ==
    ASSUME Tracked, NEW c \in Calls, H!ReceiveFirst(c)
    PROVE  Tracked'
<1>1. Typed /\ H!CallTracked(c) /\ callPc[c] = "first" /\ c \in Hedged
  BY Zenon DEF Tracked, H!ReceiveFirst, H!CallTracked
<1> DEFINE s == resultCh[c]
<1>2. s \in Seq(H!Results) /\ s # <<>> /\ resultCh' = [resultCh EXCEPT ![c] = Tail(@)]
  BY Zenon, <1>1 DEF Typed, H!ReceiveFirst
<1>3. PICK k \in H!Kinds : H!SentFirstBy(c, k)
  BY Zenon, <1>1 DEF H!CallTracked
<1>4. Len(s) # 0 /\ Head(s) = s[1] /\ s[1] \in H!Results
  BY <1>2, EmptySeq
<1>5. H!Done(c, k) /\ Head(s) = result[c][k]
  BY Zenon, <1>2, <1>3, <1>4 DEF H!SentFirstBy, H!Only
<1>6. CASE Head(s) \in H!NoError
  <2>1. H!ReturnCall(c, Head(s)) /\ UNCHANGED H!workVars
    BY Zenon, <1>6 DEF H!ReceiveFirst
  <2>2. H!Justified(c, Head(s))
    BY Zenon, <1>5, <1>6 DEF H!Justified, H!NoError
  <2>3. QED
    BY Zenon, <1>1, <1>2, <1>4, <2>1, <2>2, ReturnStep
<1>7. CASE Head(s) \notin H!NoError
  <2>1. /\ callPc' = [callPc EXCEPT ![c] = "second"] /\ returned' = returned
        /\ workPc' = workPc /\ result' = result
    BY Zenon, <1>7 DEF H!ReceiveFirst, H!workVars
  <2>2. Tail(s) \in Seq(H!Results)
    BY Zenon, <1>2, HeadTailProperties
  <2>3. Typed'
    BY Zenon, <1>1, <1>2, <2>1, <2>2 DEF Typed, CallLabels
  <2>4. ASSUME NEW d \in Calls, d # c PROVE H!CallTracked(d)'
    <3>1. H!CallTracked(d)
      BY Zenon DEF Tracked
    <3>2. callPc'[d] = callPc[d] /\ resultCh'[d] = resultCh[d]
      BY Zenon, <1>1, <1>2, <2>1, <2>4 DEF Typed
    <3>3. QED
      BY Zenon, <2>1, <3>1, <3>2, OthersTracked
  <2>5. callPc'[c] = "second" /\ resultCh'[c] = Tail(s)
    BY Zenon, <1>1, <1>2, <2>1 DEF Typed
  <2>6. H!SentBy(c, H!Other(k))'
    <3>1. CASE ~H!Done(c, H!Other(k))
      <4>1. Len(s) = 1
        BY Zenon, <1>3, <1>5, <3>1 DEF H!SentFirstBy, H!Only
      <4>2. Tail(s) = <<>>
        BY Zenon, <1>2, <1>4, <4>1, SendAndReceive
      <4>3. QED
        BY Zenon, <2>1, <2>5, <3>1, <4>2 DEF H!SentBy, H!Done
    <3>2. CASE H!Done(c, H!Other(k))
      <4>1. Len(s) = 2 /\ s[2] = result[c][H!Other(k)]
        BY Zenon, <1>3, <1>5, <3>2 DEF H!SentFirstBy
      <4>2. Len(Tail(s)) = 1 /\ Tail(s)[1] = s[2]
        BY Zenon, <1>2, <1>4, <4>1, SendAndReceive
      <4>3. QED
        BY Zenon, <2>1, <2>5, <3>2, <4>1, <4>2 DEF H!SentBy, H!Done, H!Only
    <3>3. QED
      BY Zenon, <3>1, <3>2
  <2>7. H!Done(c, k)' /\ result'[c][k] \in {"err", "ctx"}
    BY Zenon, <1>4, <1>5, <1>7, <2>1 DEF H!Done, H!Results, H!NoError
  <2>8. returned'[c] = "none" /\ \A j \in H!Kinds : H!Done(c, j)' <=> result'[c][j] # "none"
    BY Zenon, <1>1, <2>1 DEF H!CallTracked, H!Done
  <2>9. H!CallTracked(c)'
    BY Zenon, <1>1, <2>5, <2>6, <2>7, <2>8 DEF H!CallTracked, H!Justified, H!NoError
  <2>10. QED
    BY Zenon, <2>3, <2>4, <2>9 DEF Tracked
<1>8. QED
  BY Zenon, <1>6, <1>7

\* A call that waits for its last result returns what that decides.
LEMMA ReceiveLastStep ==
    ASSUME Tracked, NEW c \in Calls, H!ReceiveOnly(c) \/ H!ReceiveSecond(c)
    PROVE  Tracked'
<1>1. Typed /\ H!CallTracked(c) /\ c \in Hedged
  BY Zenon DEF Tracked, H!ReceiveOnly, H!ReceiveSecond, H!CallTracked
<1> DEFINE s == resultCh[c]
<1>2. /\ s \in Seq(H!Results) /\ s # <<>> /\ resultCh' = [resultCh EXCEPT ![c] = Tail(@)]
      /\ UNCHANGED H!workVars
  BY Zenon, <1>1 DEF Typed, H!ReceiveOnly, H!ReceiveSecond
<1>3. Head(s) = s[1] /\ s[1] \in H!Results
  BY <1>2, EmptySeq
<1>4. CASE H!ReceiveOnly(c)
  <2>1. H!SentBy(c, "primary") /\ workPc[c]["hedge"] = "none"
    BY Zenon, <1>1, <1>4 DEF H!ReceiveOnly, H!CallTracked
  <2>2. Head(s) = result[c]["primary"]
    BY Zenon, <1>2, <1>3, <2>1 DEF H!SentBy, H!Only
  <2>3. \E k \in H!Kinds : result[c][k] = Head(s)
    BY Zenon, <2>2 DEF H!Kinds
  <2>4. H!Justified(c, Head(s))
    <3>1. H!Done(c, "primary")
      BY Zenon, <1>2, <2>1 DEF H!SentBy
    <3>2. "primary" \in H!Launched(c)
      BY Zenon, <3>1 DEF H!Launched, H!Done, H!Kinds
    <3>3. Head(s) = "err" => \A k \in H!Launched(c) : result[c][k] \in {"err", "ctx"}
      BY Zenon, <2>1, <2>2 DEF H!Launched, H!Kinds
    <3>4. QED
      BY Zenon, <2>3, <3>2, <3>3 DEF H!Justified
  <2>5. H!ReturnCall(c, Head(s))
    BY Zenon, <1>4 DEF H!ReceiveOnly
  <2>6. QED
    BY Zenon, <1>1, <1>2, <1>3, <2>4, <2>5, ReturnStep
<1>5. CASE H!ReceiveSecond(c)
  <2>1. PICK k \in H!Kinds : H!Done(c, k) /\ result[c][k] \in {"err", "ctx"} /\ H!SentBy(c, H!Other(k))
    BY Zenon, <1>1, <1>5 DEF H!ReceiveSecond, H!CallTracked
  <2>2. Head(s) = result[c][H!Other(k)] /\ H!Other(k) \in H!Kinds /\ \A j \in H!Kinds : j \in {k, H!Other(k)}
    BY Zenon, <1>2, <1>3, <2>1 DEF H!SentBy, H!Only, H!Other, H!Kinds
  <2> DEFINE v == IF Head(s) \in H!NoError THEN Head(s) ELSE "err"
  <2>3. v \in H!Results /\ H!ReturnCall(c, v)
    BY Zenon, <1>3, <1>5 DEF H!ReceiveSecond, H!Results
  <2>4. v \in H!NoError => \E j \in H!Kinds : result[c][j] = v
    BY Zenon, <2>2 DEF H!NoError
  <2>5. k \in H!Launched(c)
    BY Zenon, <2>1 DEF H!Launched, H!Done
  <2>6. v = "err" => \A j \in H!Launched(c) : result[c][j] \in {"err", "ctx"}
    BY Zenon, <1>3, <2>1, <2>2 DEF H!Launched, H!Results, H!NoError
  <2>7. H!Justified(c, v)
    BY Zenon, <2>4, <2>5, <2>6 DEF H!Justified
  <2> HIDE DEF v
  <2>8. QED
    BY Zenon, <1>1, <1>2, <2>3, <2>7, ReturnStep
<1>6. QED
  BY Zenon, <1>4, <1>5

\* Every step of every call keeps what the channels hold in step with what
\* the workers have returned.
LEMMA TrackedStep ==
    ASSUME Tracked, [H!Next]_(H!vars)
    PROVE  Tracked'
<1>1. CASE UNCHANGED H!vars
  <2>1. Typed'
    BY Zenon, <1>1 DEF Tracked, Typed, H!vars
  <2>2. ASSUME NEW d \in Calls PROVE H!CallTracked(d)'
    BY Zenon, <1>1, OthersTracked DEF Tracked, H!vars
  <2>3. QED
    BY Zenon, <2>1, <2>2 DEF Tracked
<1>2. ASSUME NEW c \in Calls, H!Execute(c) PROVE Tracked'
  BY Zenon, <1>2, ExecuteStep
<1>3. ASSUME NEW c \in Calls, H!CtxEnds(c) PROVE Tracked'
  <2>1. UNCHANGED <<callPc, returned, resultCh, workPc, result>>
    BY Zenon, <1>3 DEF H!CtxEnds, H!workVars
  <2>2. Typed'
    BY Zenon, <2>1 DEF Tracked, Typed
  <2>3. ASSUME NEW d \in Calls PROVE H!CallTracked(d)'
    BY Zenon, <2>1, OthersTracked DEF Tracked
  <2>4. QED
    BY Zenon, <2>2, <2>3 DEF Tracked
<1>4. ASSUME NEW c \in Calls, H!Waiting(c) PROVE Tracked'
  <2>1. ASSUME H!CallCtx(c) PROVE Tracked'
    <3>1. c \in Hedged
      BY Zenon, <2>1 DEF H!CallCtx, Tracked, H!CallTracked
    <3>2. "ctx" \in H!Results /\ H!ReturnCall(c, "ctx") /\ UNCHANGED H!workVars /\ resultCh' = resultCh
      BY Zenon, <2>1 DEF H!CallCtx, H!Results
    <3>3. H!Justified(c, "ctx")
      BY Zenon DEF H!Justified, H!NoError
    <3>4. QED
      BY Zenon, <3>1, <3>2, <3>3, ReturnStep
  <2>2. QED
    BY Zenon, <1>4, <2>1, ReceiveFirstStep, ReceiveLastStep, HedgeDelayStep DEF H!Waiting
<1>5. ASSUME NEW c \in Calls, NEW k \in H!Kinds, H!OperationReturns(c, k) PROVE Tracked'
  <2>1. workPc[c][k] = "operating"
    BY Zenon, <1>5 DEF H!OperationReturns, H!OperationSucceeds, H!OperationFails
  <2>2. ASSUME NEW r \in H!Results, H!EndWorker(c, k, r) PROVE Tracked'
    BY Zenon, <2>1, <2>2, EndWorkerStep
  <2>3. CASE H!OperationSucceeds(c, k)
    BY Zenon, <2>2, <2>3 DEF H!OperationSucceeds, H!Results
  <2>4. ASSUME NEW e \in {"err", "ctx"}, H!OperationFails(c, k, e) PROVE Tracked'
    <3>1. CASE H!EndWorker(c, k, e)
      BY Zenon, <2>2, <3>1 DEF H!Results
    <3>2. CASE /\ workPc' = [workPc EXCEPT ![c][k] = IF backoff[c][k] > 0 THEN "sleeping" ELSE "panicked"]
               /\ UNCHANGED <<result, resultCh, callPc, returned>>
      <4> DEFINE l == IF backoff[c][k] > 0 THEN "sleeping" ELSE "panicked"
      <4>1. l \in {"operating", "sleeping", "panicked"} /\ workPc' = [workPc EXCEPT ![c][k] = l]
        BY Zenon, <3>2
      <4> HIDE DEF l
      <4>2. QED
        BY Zenon, <2>1, <3>2, <4>1, WorkerMoves
    <3>3. QED
      BY Zenon, <2>4, <3>1, <3>2 DEF H!OperationFails
  <2>5. QED
    BY Zenon, <1>5, <2>3, <2>4 DEF H!OperationReturns
<1>6. ASSUME NEW c \in Calls, NEW k \in H!Kinds, H!Continuing(c, k) PROVE Tracked'
  <2>1. CASE H!WakeUp(c, k)
    BY Zenon, <2>1, WorkerMoves DEF H!WakeUp, H!callVars
  <2>2. CASE H!SleepCancelled(c, k)
    BY Zenon, <2>2, EndWorkerStep DEF H!SleepCancelled, H!Results
  <2>3. CASE H!SkipLoop(c, k)
    BY Zenon, <2>3, EndWorkerStep DEF H!SkipLoop, H!Results
  <2>4. QED
    BY Zenon, <1>6, <2>1, <2>2, <2>3 DEF H!Continuing
<1>7. QED
  BY Zenon, <1>1, <1>2, <1>3, <1>4, <1>5, <1>6 DEF H!Next


-----------------------------------------------------------------------------
(* What a call costs.  A call may return while a worker of it still runs:  *)
(* when its context has ended, or when its other worker has won.  Only     *)
(* then is an operation cancelled that nobody gave up.                     *)

Ended(c) == (IF H!Done(c, "primary") THEN 1 ELSE 0) + (IF H!Done(c, "hedge") THEN 1 ELSE 0)

Settled(c) ==
    /\ Len(resultCh[c]) <= Ended(c)
    /\ ctxDone[c] => faulty
    /\ callPc[c] \notin {"idle", "returned"} => workPc[c]["primary"] # "none"
    /\ callPc[c] \in {"first", "second"} => workPc[c]["hedge"] # "none"
    /\ callPc[c] = "returned" /\ (\E k \in H!Kinds : workPc[c][k] \notin {"none", "done"}) =>
          ctxDone[c] \/ (returned[c] \in H!NoError /\ H!Launched(c) = H!Kinds)

BreakerRecords ==
    [state : {"Closed", "Open", "HalfOpen"}, failures : 0..HedgeFailures, successes : 0..HedgeProbes]

\* What the policy of its call makes of one worker: an attempt only when one is
\* allowed, a sleep only when one is left, a zero result when none is allowed.
Allowed(c, k) ==
    /\ workPc[c][k] = "sleeping" => attempt[c][k] < policy[c].attempts
    /\ workPc[c][k] \in {"operating", "sleeping", "panicked"} => policy[c].attempts >= 1
    /\ workPc[c][k] = "skipping" => ~(policy[c].attempts >= 1)
    /\ result[c][k] = "zero" => ~(policy[c].attempts >= 1)
    /\ result[c][k] \in {"ok", "err", "ctx"} => policy[c].attempts >= 1

Counted ==
    /\ attempt \in [Calls -> [H!Kinds -> Nat]]
    /\ backoff \in [Calls -> [H!Kinds -> H!Durations]]

Policed ==
    /\ policy \in Policies
    /\ breaker \in BreakerRecords
    /\ ctxDone \in [Calls -> BOOLEAN] /\ faulty \in BOOLEAN
    /\ Counted
    /\ \A c \in Calls, k \in H!Kinds : Allowed(c, k)
    /\ H!BackoffInRange

HedgeInv == Tracked /\ Policed /\ (\A c \in Calls : Settled(c)) /\ H!OnlyLosersFail

\* One operation of the breaker keeps its counters within their thresholds.
LEMMA BreakerKeepsType ==
    ASSUME NEW b \in BreakerRecords
    PROVE  /\ H!AfterSuccess(b) \in BreakerRecords
           /\ H!AfterFailure(b) \in BreakerRecords
           /\ [b EXCEPT !.state = "HalfOpen", !.successes = 0] \in BreakerRecords
<1> DEFINE States == {"Closed", "Open", "HalfOpen"}
           F == 0..HedgeFailures
           S == 0..HedgeProbes
<1>1. ASSUME NEW q \in States, NEW f \in F, NEW n \in S
      PROVE  /\ [b EXCEPT !.state = q, !.successes = n] \in BreakerRecords
             /\ [b EXCEPT !.state = q, !.successes = n, !.failures = f] \in BreakerRecords
             /\ [b EXCEPT !.failures = f] \in BreakerRecords
             /\ [b EXCEPT !.successes = n] \in BreakerRecords
             /\ [b EXCEPT !.failures = f, !.state = q] \in BreakerRecords
  BY Zenon DEF BreakerRecords
<1>2. 0 \in F /\ 0 \in S /\ HedgeProbes \in S /\ b.successes \in S /\ b.state \in States /\ b.failures \in F
  BY PolicyAssumption DEF BreakerRecords
<1>3. b.successes + 1 < HedgeProbes => b.successes + 1 \in S
  BY <1>2, PolicyAssumption
<1>4. b.successes + 1 >= HedgeProbes \/ b.successes + 1 < HedgeProbes
  BY <1>2, PolicyAssumption
<1>5. H!UpTo(b.failures + 1, HedgeFailures) \in F
  BY <1>2, PolicyAssumption DEF H!UpTo
<1> HIDE DEF F, S
<1>6. H!AfterSuccess(b) \in BreakerRecords
  BY Zenon, <1>1, <1>2, <1>3, <1>4 DEF H!AfterSuccess
<1>7. H!AfterFailure(b) \in BreakerRecords
  BY Zenon, <1>1, <1>2, <1>5 DEF H!AfterFailure
<1>8. QED
  BY Zenon, <1>1, <1>2, <1>6, <1>7

\* A backoff that does not exceed what the policy names.
Bounded(p, b) == b > 0 /\ (b <= p.initial \/ b <= p.max)

\* Integer division, and how it compares with its operands.
LEMMA Quotient ==
    ASSUME NEW n \in Nat, NEW d \in Nat \ {0}
    PROVE  n \div d \in Nat /\ d * (n \div d) <= n /\ n < d * (n \div d) + d
OBVIOUS

LEMMA QuotientAtLeast ==
    ASSUME NEW b \in Nat, NEW m \in Nat, NEW d \in Nat \ {0}, m >= d, NEW q \in Int, b * m < d * q + d
    PROVE  q >= b
OBVIOUS

LEMMA QuotientBelow ==
    ASSUME NEW n \in Nat, NEW h \in Nat, NEW d \in Nat \ {0}, n < h * d, NEW q \in Int, d * q <= n
    PROVE  q < h
OBVIOUS

LEMMA ProductAtMost ==
    ASSUME NEW a \in Nat, NEW b \in Nat, NEW m \in Nat, a <= b
    PROVE  a * m \in Nat /\ a * m <= b * m
OBVIOUS

\* Under a steady policy the product is a duration, and not smaller.
LEMMA SteadyProduct ==
    ASSUME NEW p \in H!RetryPolicy, NEW b \in Int, H!Steady(p), Bounded(p, b)
    PROVE  /\ H!Truncated(b * p.num, p.den) \in H!Durations
           /\ H!Truncated(b * p.num, p.den) >= b
<1>1. /\ p.initial \in Int /\ p.max \in Int /\ p.num \in Int /\ p.den \in Nat \ {0}
      /\ DurationLimit \in Nat
  BY PolicyAssumption DEF H!RetryPolicy, H!Durations
<1> DEFINE top == IF p.initial > p.max THEN p.initial ELSE p.max
           m == p.num
           d == p.den
           h == DurationLimit
<1>2. p.initial > 0 /\ p.max > 0 /\ m >= d /\ top * m < h * d
  BY Zenon DEF H!Steady
<1>3. b > 0 /\ (b <= p.initial \/ b <= p.max)
  BY Zenon DEF Bounded
<1>4. b \in Nat /\ top \in Nat /\ m \in Nat /\ d \in Nat \ {0} /\ h \in Nat /\ b <= top
  BY <1>1, <1>2, <1>3
<1>5. H!Truncated(b * m, d) = IF b * m >= 0 THEN (b * m) \div d ELSE -((-(b * m)) \div d)
  BY Zenon DEF H!Truncated
<1>6. /\ top * m < h * d /\ m >= d
  BY Zenon, <1>2
<1> HIDE DEF top, m, d, h
<1> DEFINE n == b * m
           q == n \div d
<1>7. n \in Nat /\ n <= top * m
  BY <1>4, ProductAtMost
<1>8. q \in Nat /\ d * q <= n /\ n < d * q + d
  BY <1>4, <1>7, Quotient
<1>9. q >= b
  BY <1>4, <1>6, <1>8, QuotientAtLeast
<1>10. n < h * d
  <2>1. top * m \in Int /\ h * d \in Int
    BY <1>4
  <2>2. QED
    BY <1>6, <1>7, <2>1
<1>11. q < h
  BY <1>4, <1>7, <1>8, <1>10, QuotientBelow
<1>12. H!Truncated(b * m, d) = q
  BY <1>5, <1>7
<1>13. q \in -h..(h - 1)
  BY <1>4, <1>8, <1>11
<1>14. QED
  BY Zenon, <1>9, <1>12, <1>13 DEF m, d, h, H!Durations

\* A backoff stays a duration, and under a steady policy positive and bounded.
LEMMA BackoffGrows ==
    ASSUME NEW p \in H!RetryPolicy, NEW b \in H!Durations, NEW n \in H!NextBackoffs(p, b)
    PROVE  n \in H!Durations /\ (H!Steady(p) /\ Bounded(p, b) => Bounded(p, n))
<1> DEFINE x == H!Truncated(b * p.num, p.den)
<1>1. PICK y \in H!Converted(x) : n = H!UpTo(y, p.max)
  BY Zenon DEF H!NextBackoffs
<1>2. H!Converted(x) = IF x \in H!Durations THEN {x} ELSE {-DurationLimit, DurationLimit - 1}
  BY Zenon DEF H!Converted
<1>3. -DurationLimit \in H!Durations /\ DurationLimit - 1 \in H!Durations
  BY PolicyAssumption DEF H!Durations
<1> HIDE DEF x
<1>4. y \in H!Durations
  BY Zenon, <1>2, <1>3
<1>5. p.max \in H!Durations
  BY Zenon DEF H!RetryPolicy
<1>6. n \in H!Durations
  BY Zenon, <1>1, <1>4, <1>5 DEF H!UpTo
<1>7. ASSUME H!Steady(p), Bounded(p, b) PROVE Bounded(p, n)
  <2>1. b \in Int /\ p.max \in Int /\ p.max > 0 /\ b > 0
    BY <1>5, <1>7, PolicyAssumption DEF H!Steady, Bounded, H!Durations
  <2>2. x \in H!Durations /\ x >= b
    BY Zenon, <1>7, <2>1, SteadyProduct DEF x
  <2>3. y = x
    BY Zenon, <1>2, <2>2
  <2>4. x \in Int
    BY <2>2, PolicyAssumption DEF H!Durations
  <2>5. n = IF x < p.max THEN x ELSE p.max
    BY Zenon, <1>1, <2>3 DEF H!UpTo
  <2>6. n > 0 /\ n <= p.max
    BY <2>1, <2>2, <2>4, <2>5
  <2>7. QED
    BY Zenon, <2>6 DEF Bounded
<1>8. QED
  BY Zenon, <1>6, <1>7

\* The backoff of one worker.
InRange(c, k) ==
    H!Steady(policy[c]) /\ workPc[c][k] # "none" =>
        Bounded(policy[c], backoff[c][k]) /\ workPc[c][k] # "panicked"

LEMMA RangeOfEach == H!BackoffInRange <=> \A c \in Calls, k \in H!Kinds : InRange(c, k)
BY Zenon DEF H!BackoffInRange, InRange, Bounded, H!Launched

-----------------------------------------------------------------------------
(* The workers and the breaker *)

\* A step that leaves the workers alone keeps them policed.
LEMMA PolicedSame ==
    ASSUME Policed, breaker' \in BreakerRecords, ctxDone' \in [Calls -> BOOLEAN], faulty' \in BOOLEAN,
           policy' = policy, workPc' = workPc, attempt' = attempt, backoff' = backoff, result' = result
    PROVE  Policed'
<1>1. H!BackoffInRange'
  BY Zenon DEF Policed, H!BackoffInRange, H!Launched, H!Steady
<1>2. ASSUME NEW c \in Calls, NEW k \in H!Kinds PROVE Allowed(c, k)'
  <2>1. Allowed(c, k)
    BY Zenon DEF Policed
  <2>2. QED
    BY Zenon, <2>1 DEF Allowed
<1>3. Counted'
  BY Zenon DEF Policed, Counted
<1>4. QED
  BY Zenon, <1>1, <1>2, <1>3 DEF Policed

\* A step of one worker leaves the others alone.
OthersKeep(c, k) ==
    \A d \in Calls, j \in H!Kinds :
        d # c \/ j # k => /\ workPc'[d][j] = workPc[d][j] /\ attempt'[d][j] = attempt[d][j]
                          /\ backoff'[d][j] = backoff[d][j] /\ result'[d][j] = result[d][j]

\* It keeps all of them policed when it keeps that one.
LEMMA PolicedAt ==
    ASSUME Policed, NEW c \in Calls, NEW k \in H!Kinds,
           breaker' \in BreakerRecords, ctxDone' = ctxDone, faulty' \in BOOLEAN, policy' = policy,
           Counted', OthersKeep(c, k), Allowed(c, k)', InRange(c, k)'
    PROVE  Policed'
<1>1. ASSUME NEW d \in Calls, NEW j \in H!Kinds
      PROVE  InRange(d, j)' /\ Allowed(d, j)'
  <2>1. CASE d = c /\ j = k
    BY Zenon, <2>1
  <2>2. CASE d # c \/ j # k
    <3>1. InRange(d, j) /\ Allowed(d, j)
      BY Zenon, RangeOfEach DEF Policed
    <3>2. /\ workPc'[d][j] = workPc[d][j] /\ attempt'[d][j] = attempt[d][j]
          /\ backoff'[d][j] = backoff[d][j] /\ result'[d][j] = result[d][j]
      BY Zenon, <2>2 DEF OthersKeep
    <3>3. InRange(d, j)'
      BY Zenon, <3>1, <3>2 DEF InRange, Bounded, H!Steady
    <3>4. Allowed(d, j)'
      BY Zenon, <3>1, <3>2 DEF Allowed
    <3>5. QED
      BY Zenon, <3>3, <3>4
  <2>3. QED
    BY Zenon, <2>1, <2>2
<1>2. H!BackoffInRange'
  BY Zenon, <1>1 DEF H!BackoffInRange, InRange, Bounded, H!Launched
<1>3. QED
  BY Zenon, <1>1, <1>2 DEF Policed

\* A worker that starts or wakes up has a new attempt and a new backoff.
LEMMA PolicedWorker ==
    ASSUME Typed, Policed, NEW c \in Calls, NEW k \in H!Kinds, NEW l \in {"operating", "skipping"},
           NEW a \in Nat, NEW b \in H!Durations,
           breaker' \in BreakerRecords, ctxDone' = ctxDone, faulty' \in BOOLEAN, policy' = policy,
           workPc' = [workPc EXCEPT ![c][k] = l],
           attempt' = [attempt EXCEPT ![c][k] = a],
           backoff' = [backoff EXCEPT ![c][k] = b],
           result' = result,
           l = "operating" <=> policy[c].attempts >= 1,
           H!Steady(policy[c]) => Bounded(policy[c], b)
    PROVE  Policed'
<1>1. /\ workPc \in [Calls -> [H!Kinds -> WorkLabels]]
      /\ attempt \in [Calls -> [H!Kinds -> Nat]]
      /\ backoff \in [Calls -> [H!Kinds -> H!Durations]]
  BY Zenon DEF Typed, Policed, Counted
<1>2. Counted'
  <2>1. attempt' \in [Calls -> [H!Kinds -> Nat]]
    BY Zenon, <1>1
  <2>2. backoff' \in [Calls -> [H!Kinds -> H!Durations]]
    BY Zenon, <1>1
  <2>3. QED
    BY Zenon, <2>1, <2>2 DEF Counted, H!Durations
<1>3. workPc'[c][k] = l /\ backoff'[c][k] = b /\ l # "sleeping" /\ l # "panicked"
  BY Zenon, <1>1
<1>4. OthersKeep(c, k)
  BY Zenon, <1>1 DEF OthersKeep
<1>5. Allowed(c, k)'
  <2>1. Allowed(c, k)
    BY Zenon DEF Policed
  <2>2. QED
    BY Zenon, <1>3, <2>1 DEF Allowed
<1>6. InRange(c, k)'
  BY Zenon, <1>3 DEF InRange, Bounded, H!Steady
<1>7. QED
  BY Zenon, <1>2, <1>4, <1>5, <1>6, PolicedAt

\* A worker that ends or sleeps keeps its attempt and its backoff.
LEMMA PolicedEnd ==
    ASSUME Typed, Policed, NEW c \in Calls, NEW k \in H!Kinds, NEW l, NEW r,
           breaker' \in BreakerRecords, ctxDone' = ctxDone, faulty' \in BOOLEAN, policy' = policy,
           workPc' = [workPc EXCEPT ![c][k] = l], workPc[c][k] # "none",
           attempt' = attempt, backoff' = backoff,
           result' = result \/ result' = [result EXCEPT ![c][k] = r],
           Allowed(c, k)', l = "panicked" => ~(backoff[c][k] > 0)
    PROVE  Policed'
<1>1. /\ Counted' /\ workPc \in [Calls -> [H!Kinds -> WorkLabels]]
      /\ result \in [Calls -> [H!Kinds -> H!Results \cup {"none"}]]
  BY Zenon DEF Policed, Counted, Typed
<1>2. InRange(c, k) /\ workPc'[c][k] = l
  BY Zenon, <1>1, RangeOfEach DEF Policed
<1>3. H!Steady(policy[c]) => Bounded(policy[c], backoff[c][k])
  BY Zenon, <1>2 DEF InRange
<1>4. InRange(c, k)'
  BY Zenon, <1>2, <1>3 DEF InRange, Bounded, H!Steady
<1>5. OthersKeep(c, k)
  <2>1. SUFFICES ASSUME NEW d \in Calls, NEW j \in H!Kinds, d # c \/ j # k
                 PROVE  workPc'[d][j] = workPc[d][j] /\ result'[d][j] = result[d][j]
    BY Zenon DEF OthersKeep
  <2>2. workPc'[d][j] = workPc[d][j]
    BY Zenon, <1>1, <2>1
  <2>3. result'[d][j] = result[d][j]
    <3>1. CASE result' = result
      BY Zenon, <3>1
    <3>2. CASE result' = [result EXCEPT ![c][k] = r]
      BY Zenon, <1>1, <2>1, <3>2
    <3>3. QED
      BY Zenon, <3>1, <3>2
  <2>4. QED
    BY Zenon, <2>2, <2>3
<1>6. QED
  BY Zenon, <1>1, <1>4, <1>5, PolicedAt

\* Every step keeps the breaker, the attempts and the backoffs in their ranges.
LEMMA PolicedStep ==
    ASSUME Tracked, Policed, NEW c \in Calls, policy' = policy,
           H!Execute(c) \/ H!CtxEnds(c) \/ H!Waiting(c)
             \/ \E k \in H!Kinds : H!OperationReturns(c, k) \/ H!Continuing(c, k)
    PROVE  Policed'
<1>1. /\ Typed /\ breaker \in BreakerRecords /\ ctxDone \in [Calls -> BOOLEAN] /\ faulty \in BOOLEAN
      /\ Counted /\ policy[c] \in H!RetryPolicy /\ \A k \in H!Kinds : Allowed(c, k) /\ InRange(c, k)
  BY Zenon, PolicyAssumption, RangeOfEach DEF Tracked, Policed, H!RetryPolicy, H!Durations
<1>2. ASSUME NEW k \in H!Kinds, H!StartWorker(c, k), breaker' \in BreakerRecords,
             ctxDone' = ctxDone, faulty' = faulty
      PROVE  Policed'
  <2>1. /\ attempt' = [attempt EXCEPT ![c][k] = 1] /\ result' = result
        /\ backoff' = [backoff EXCEPT ![c][k] = policy[c].initial]
    BY Zenon, <1>2 DEF H!StartWorker
  <2>2. StartLabel(c) = "operating" <=> policy[c].attempts >= 1
    BY Zenon DEF StartLabel
  <2>3. policy[c].initial \in H!Durations /\ 1 \in Nat
    BY <1>1 DEF H!RetryPolicy
  <2>4. H!Steady(policy[c]) => Bounded(policy[c], policy[c].initial)
    BY <2>3, PolicyAssumption DEF H!Steady, Bounded, H!Durations
  <2>5. /\ workPc' = [workPc EXCEPT ![c][k] = StartLabel(c)] /\ StartLabel(c) \in {"operating", "skipping"}
    BY Zenon, <1>2, StartLabels
  <2>6. QED
    BY Zenon, <1>1, <1>2, <2>1, <2>2, <2>3, <2>4, <2>5, PolicedWorker
<1>3. CASE H!Execute(c)
  <2>1. ctxDone' = ctxDone /\ faulty' = faulty
    BY Zenon, <1>3 DEF H!Execute
  <2>2. CASE UNCHANGED <<breaker, H!workVars>>
    BY Zenon, <1>1, <2>1, <2>2, PolicedSame DEF H!workVars
  <2>3. CASE /\ breaker' = IF breaker.state = "Open"
                           THEN [breaker EXCEPT !.state = "HalfOpen", !.successes = 0]
                           ELSE breaker
             /\ H!StartWorker(c, "primary")
    <3>1. breaker' \in BreakerRecords /\ "primary" \in H!Kinds
      BY Zenon, <1>1, <2>3, BreakerKeepsType DEF H!Kinds
    <3>2. QED
      BY Zenon, <1>2, <2>1, <2>3, <3>1
  <2>4. QED
    BY Zenon, <1>3, <2>2, <2>3 DEF H!Execute
<1>4. CASE H!CtxEnds(c)
  <2>1. ctxDone' \in [Calls -> BOOLEAN] /\ faulty' \in BOOLEAN
    BY Zenon, <1>1, <1>4 DEF H!CtxEnds
  <2>2. QED
    BY Zenon, <1>1, <1>4, <2>1, PolicedSame DEF H!CtxEnds, H!workVars
<1>5. CASE H!Waiting(c)
  <2>1. breaker' = breaker /\ ctxDone' = ctxDone /\ faulty' = faulty
    BY Zenon, <1>5 DEF H!Waiting, H!ReceiveOnly, H!CallCtx, H!HedgeDelayPasses, H!ReceiveFirst, H!ReceiveSecond
  <2>2. CASE H!StartWorker(c, "hedge")
    BY Zenon, <1>1, <1>2, <2>1, <2>2 DEF H!Kinds
  <2>3. CASE UNCHANGED H!workVars
    BY Zenon, <1>1, <2>1, <2>3, PolicedSame DEF H!workVars
  <2>4. QED
    BY Zenon, <1>5, <2>2, <2>3
    DEF H!Waiting, H!ReceiveOnly, H!CallCtx, H!HedgeDelayPasses, H!ReceiveFirst, H!ReceiveSecond
<1>6. ASSUME NEW k \in H!Kinds, NEW r \in H!Results, workPc[c][k] \in {"skipping", "operating", "sleeping"},
             H!EndWorker(c, k, r), r = "zero" <=> workPc[c][k] = "skipping",
             breaker' \in BreakerRecords, ctxDone' = ctxDone, faulty' \in BOOLEAN,
             attempt' = attempt, backoff' = backoff
      PROVE  Policed'
  <2>1. workPc' = [workPc EXCEPT ![c][k] = "done"] /\ result' = [result EXCEPT ![c][k] = r]
    BY Zenon, <1>6 DEF H!EndWorker
  <2>2. workPc'[c][k] = "done" /\ result'[c][k] = r
    BY Zenon, <1>1, <2>1 DEF Typed
  <2>3. Allowed(c, k)'
    BY Zenon, <1>1, <1>6, <2>2 DEF Allowed
  <2>4. workPc[c][k] # "none" /\ "done" # "panicked"
    BY Zenon, <1>6
  <2>5. QED
    BY Zenon, <1>1, <1>6, <2>1, <2>3, <2>4, PolicedEnd
<1>7. ASSUME NEW k \in H!Kinds, H!OperationReturns(c, k) PROVE Policed'
  <2>1. /\ workPc[c][k] = "operating" /\ ctxDone' = ctxDone /\ faulty' \in BOOLEAN
        /\ attempt' = attempt /\ backoff' = backoff
        /\ breaker' \in {H!AfterSuccess(breaker), H!AfterFailure(breaker)}
    BY Zenon, <1>1, <1>7 DEF H!OperationReturns, H!OperationSucceeds, H!OperationFails
  <2>2. breaker' \in BreakerRecords
    BY Zenon, <1>1, <2>1, BreakerKeepsType
  <2>3. ASSUME NEW r \in {"ok", "err", "ctx"}, H!EndWorker(c, k, r) PROVE Policed'
    <3>1. r \in H!Results /\ r # "zero"
      BY Zenon DEF H!Results
    <3>2. QED
      BY Zenon, <1>6, <2>1, <2>2, <2>3, <3>1
  <2>4. CASE /\ attempt[c][k] < policy[c].attempts
             /\ workPc' = [workPc EXCEPT ![c][k] = IF backoff[c][k] > 0 THEN "sleeping" ELSE "panicked"]
             /\ result' = result
    <3> DEFINE l == IF backoff[c][k] > 0 THEN "sleeping" ELSE "panicked"
    <3>1. (l = "panicked" => ~(backoff[c][k] > 0)) /\ l \in {"sleeping", "panicked"}
      BY Zenon
    <3>2. workPc' = [workPc EXCEPT ![c][k] = l]
      BY Zenon, <2>4
    <3> HIDE DEF l
    <3>3. workPc'[c][k] = l
      BY Zenon, <1>1, <3>2 DEF Typed
    <3>4. l # "skipping"
      BY Zenon, <3>1
    <3>5. Allowed(c, k)'
      BY Zenon, <1>1, <2>1, <2>4, <3>3, <3>4 DEF Allowed
    <3>6. workPc[c][k] # "none"
      BY Zenon, <2>1
    <3>7. QED
      BY Zenon, <1>1, <2>1, <2>2, <2>4, <3>1, <3>2, <3>5, <3>6, PolicedEnd
  <2>5. QED
    BY Zenon, <1>7, <2>3, <2>4 DEF H!OperationReturns, H!OperationSucceeds, H!OperationFails
<1>8. ASSUME NEW k \in H!Kinds, H!WakeUp(c, k) PROVE Policed'
  <2>1. PICK n \in H!NextBackoffs(policy[c], backoff[c][k]) : backoff' = [backoff EXCEPT ![c][k] = n]
    BY Zenon, <1>8 DEF H!WakeUp
  <2>2. /\ workPc' = [workPc EXCEPT ![c][k] = "operating"] /\ result' = result
        /\ attempt' = [attempt EXCEPT ![c][k] = attempt[c][k] + 1]
        /\ breaker' = breaker /\ ctxDone' = ctxDone /\ faulty' = faulty /\ workPc[c][k] = "sleeping"
    BY Zenon, <1>1, <1>8 DEF H!WakeUp, H!callVars, Counted
  <2>3. attempt[c][k] \in Nat /\ backoff[c][k] \in H!Durations
    BY Zenon, <1>1 DEF Counted
  <2>4. attempt[c][k] + 1 \in Nat
    BY <2>3
  <2>5. n \in H!Durations /\ (H!Steady(policy[c]) => Bounded(policy[c], n))
    BY Zenon, <1>1, <2>2, <2>3, BackoffGrows DEF InRange
  <2>6. policy[c].attempts >= 1 /\ "operating" \in {"operating", "skipping"}
    BY Zenon, <1>1, <2>2 DEF Allowed
  <2>7. QED
    BY Zenon, <1>1, <2>1, <2>2, <2>4, <2>5, <2>6, PolicedWorker
<1>9. ASSUME NEW k \in H!Kinds, H!SleepCancelled(c, k) PROVE Policed'
  <2>1. /\ workPc[c][k] = "sleeping" /\ ctxDone' = ctxDone /\ faulty' = faulty /\ breaker' = breaker
        /\ attempt' = attempt /\ backoff' = backoff /\ H!EndWorker(c, k, "ctx") /\ "ctx" \in H!Results
    BY Zenon, <1>9 DEF H!SleepCancelled, H!Results
  <2>2. QED
    BY Zenon, <1>1, <1>6, <2>1
<1>10. ASSUME NEW k \in H!Kinds, H!SkipLoop(c, k) PROVE Policed'
  <2>1. /\ workPc[c][k] = "skipping" /\ ctxDone' = ctxDone /\ faulty' = faulty /\ breaker' = breaker
        /\ attempt' = attempt /\ backoff' = backoff /\ H!EndWorker(c, k, "zero") /\ "zero" \in H!Results
    BY Zenon, <1>10 DEF H!SkipLoop, H!Results
  <2>2. QED
    BY Zenon, <1>1, <1>6, <2>1
<1>11. QED
  BY Zenon, <1>3, <1>4, <1>5, <1>7, <1>8, <1>9, <1>10 DEF H!Continuing

-----------------------------------------------------------------------------
(* The calls *)

\* A step of one call leaves the others alone.
Alone(c) ==
    \A d \in Calls \ {c} :
        /\ callPc'[d] = callPc[d] /\ returned'[d] = returned[d] /\ ctxDone'[d] = ctxDone[d]
        /\ resultCh'[d] = resultCh[d] /\ workPc'[d] = workPc[d]

LEMMA StepIsAlone ==
    ASSUME Tracked, Policed, NEW c \in Calls,
           H!Execute(c) \/ H!CtxEnds(c) \/ H!Waiting(c)
             \/ \E k \in H!Kinds : H!OperationReturns(c, k) \/ H!Continuing(c, k)
    PROVE  Alone(c) /\ (faulty => faulty')
<1>1. Typed /\ ctxDone \in [Calls -> BOOLEAN]
  BY Zenon DEF Tracked, Policed
<1>2. ASSUME NEW k \in H!Kinds, NEW r, H!EndWorker(c, k, r), ctxDone' = ctxDone PROVE Alone(c)
  BY Zenon, <1>1, <1>2 DEF Alone, Typed, H!EndWorker, H!ReturnCall
<1>3. CASE H!Execute(c)
  BY Zenon, <1>1, <1>3 DEF Alone, Typed, H!Execute, H!StartWorker, H!ReturnCall, H!workVars
<1>4. CASE H!CtxEnds(c)
  BY Zenon, <1>1, <1>4 DEF Alone, Typed, H!CtxEnds, H!workVars
<1>5. CASE H!Waiting(c)
  <2>1. CASE H!ReceiveOnly(c)
    BY Zenon, <1>1, <2>1 DEF Alone, Typed, H!ReceiveOnly, H!ReturnCall, H!workVars
  <2>2. CASE H!CallCtx(c)
    BY Zenon, <1>1, <2>2 DEF Alone, Typed, H!CallCtx, H!ReturnCall, H!workVars
  <2>3. CASE H!HedgeDelayPasses(c)
    BY Zenon, <1>1, <2>3 DEF Alone, Typed, H!HedgeDelayPasses, H!StartWorker, H!workVars
  <2>4. CASE H!ReceiveFirst(c)
    BY Zenon, <1>1, <2>4 DEF Alone, Typed, H!ReceiveFirst, H!ReturnCall, H!workVars
  <2>5. CASE H!ReceiveSecond(c)
    BY Zenon, <1>1, <2>5 DEF Alone, Typed, H!ReceiveSecond, H!ReturnCall, H!workVars
  <2>6. QED
    BY Zenon, <1>5, <2>1, <2>2, <2>3, <2>4, <2>5 DEF H!Waiting
<1>6. ASSUME NEW k \in H!Kinds, H!OperationReturns(c, k) PROVE Alone(c) /\ (faulty => faulty')
  <2>1. ctxDone' = ctxDone /\ (faulty => faulty')
    <3>1. CASE H!OperationSucceeds(c, k)
      BY Zenon, <3>1 DEF H!OperationSucceeds
    <3>2. ASSUME NEW e \in {"err", "ctx"}, H!OperationFails(c, k, e)
          PROVE  ctxDone' = ctxDone /\ (faulty => faulty')
      <4>1. ctxDone' = ctxDone /\ faulty' = (faulty \/ e = "err")
        BY Zenon, <3>2 DEF H!OperationFails
      <4>2. QED
        BY Zenon, <4>1
    <3>3. QED
      BY Zenon, <1>6, <3>1, <3>2 DEF H!OperationReturns
  <2>2. CASE \E r : H!EndWorker(c, k, r)
    BY Zenon, <1>2, <2>1, <2>2
  <2>3. CASE /\ workPc' = [workPc EXCEPT ![c][k] = IF backoff[c][k] > 0 THEN "sleeping" ELSE "panicked"]
             /\ UNCHANGED <<result, resultCh, callPc, returned>>
    BY Zenon, <1>1, <2>1, <2>3 DEF Alone, Typed
  <2>4. QED
    BY Zenon, <1>6, <2>1, <2>2, <2>3 DEF H!OperationReturns, H!OperationSucceeds, H!OperationFails
<1>7. ASSUME NEW k \in H!Kinds, H!Continuing(c, k) PROVE Alone(c) /\ (faulty => faulty')
  <2>1. CASE H!WakeUp(c, k)
    BY Zenon, <1>1, <2>1 DEF Alone, Typed, H!WakeUp, H!callVars
  <2>2. CASE H!SleepCancelled(c, k)
    BY Zenon, <1>2, <2>2 DEF H!SleepCancelled
  <2>3. CASE H!SkipLoop(c, k)
    BY Zenon, <1>2, <2>3 DEF H!SkipLoop
  <2>4. QED
    BY Zenon, <1>7, <2>1, <2>2, <2>3 DEF H!Continuing
<1>8. QED
  BY Zenon, <1>3, <1>4, <1>5, <1>6, <1>7

LEMMA OthersSettled ==
    ASSUME NEW c \in Calls, NEW d \in Calls, d # c, Alone(c), faulty => faulty', Settled(d)
    PROVE  Settled(d)'
BY Zenon DEF Alone, Settled, Ended, H!Done, H!Launched

\* What a step does to its own call: the call is settled again, what it has
\* returned it does not take back, and a worker that was started stays so.
Advances(c) ==
    /\ Settled(c)'
    /\ returned[c] = "ok" => returned'[c] = "ok"
    /\ \A k \in H!Kinds : workPc[c][k] # "none" => workPc'[c][k] # "none"

\* A worker that ends has sent one result, or has returned from its call.
LEMMA EndAdvances ==
    ASSUME Tracked, NEW c \in Calls, Settled(c), NEW k \in H!Kinds, NEW r \in H!Results,
           workPc[c][k] \in {"skipping", "operating", "sleeping"}, H!EndWorker(c, k, r), ctxDone' = ctxDone,
           faulty => faulty'
    PROVE  Advances(c)
<1>1. Typed /\ H!CallTracked(c)
  BY Zenon DEF Tracked
<1>2. workPc'[c][k] = "done" /\ \A j \in H!Kinds \ {k} : workPc'[c][j] = workPc[c][j]
  BY Zenon, <1>1 DEF Typed, H!EndWorker
<1>3. workPc[c][k] # "none" /\ workPc[c][k] # "done"
  OBVIOUS
<1>4. "primary" \in H!Kinds /\ "hedge" \in H!Kinds /\ \A j \in H!Kinds : j = "primary" \/ j = "hedge"
  BY Zenon DEF H!Kinds
<1>5. H!Launched(c)' = H!Launched(c)
  <2>1. "done" # "none"
    OBVIOUS
  <2>2. QED
    BY Zenon, <1>2, <1>3, <2>1 DEF H!Launched
<1>6. Ended(c)' = Ended(c) + 1
  BY <1>2, <1>3, <1>4 DEF Ended, H!Done, H!Kinds
<1>7. \A j \in H!Kinds : workPc[c][j] # "none" => workPc'[c][j] # "none"
  BY Zenon, <1>2
<1>8. CASE c \in Hedged
  <2>1. callPc'[c] = callPc[c] /\ returned'[c] = returned[c] /\ resultCh'[c] = Append(resultCh[c], r)
    BY Zenon, <1>1, <1>8 DEF Typed, H!EndWorker
  <2>2. resultCh[c] \in Seq(H!Results) /\ Ended(c) \in Nat
    BY <1>1 DEF Typed, Ended
  <2>3. Len(resultCh'[c]) <= Ended(c)'
    <3>1. Len(resultCh'[c]) = Len(resultCh[c]) + 1 /\ Len(resultCh[c]) \in Nat
      BY <2>1, <2>2
    <3>2. Len(resultCh[c]) <= Ended(c)
      BY Zenon DEF Settled
    <3>3. QED
      BY <1>6, <2>2, <3>1, <3>2
  <2>4. \A j \in H!Kinds : workPc'[c][j] \notin {"none", "done"} => workPc[c][j] \notin {"none", "done"}
    BY Zenon, <1>2, <1>3
  <2>5. Settled(c)'
    BY Zenon, <1>2, <1>3, <1>4, <1>5, <1>7, <2>1, <2>3, <2>4 DEF Settled
  <2>6. QED
    BY Zenon, <1>7, <2>1, <2>5 DEF Advances
<1>9. CASE c \notin Hedged
  <2>1. k = "primary" /\ workPc[c]["hedge"] = "none" /\ callPc[c] # "returned" /\ returned[c] = "none"
    BY Zenon, <1>1, <1>9, <1>4 DEF H!CallTracked
  <2>2. callPc'[c] = "returned" /\ resultCh' = resultCh
    BY Zenon, <1>1, <1>9 DEF Typed, H!EndWorker, H!ReturnCall
  <2>3. workPc'[c]["primary"] = "done" /\ workPc'[c]["hedge"] = "none"
    BY Zenon, <1>2, <1>4, <2>1
  <2>4. \A j \in H!Kinds : workPc'[c][j] \in {"none", "done"}
    BY Zenon, <1>4, <2>3
  <2>5. Len(resultCh'[c]) <= Ended(c)'
    <3>1. Len(resultCh[c]) \in Nat /\ Ended(c) \in Nat /\ Len(resultCh[c]) <= Ended(c)
      BY <1>1 DEF Typed, Ended, Settled
    <3>2. QED
      BY <1>6, <2>2, <3>1
  <2>6. Settled(c)'
    BY Zenon, <2>2, <2>4, <2>5 DEF Settled
  <2>7. QED
    BY Zenon, <1>7, <2>1, <2>6 DEF Advances
<1>10. QED
  BY Zenon, <1>8, <1>9

\* A worker that sleeps, wakes up or panics has neither ended nor returned.
LEMMA MoveAdvances ==
    ASSUME Tracked, NEW c \in Calls, Settled(c), NEW k \in H!Kinds,
           NEW l \in {"operating", "sleeping", "panicked"}, workPc[c][k] \in {"operating", "sleeping"},
           workPc' = [workPc EXCEPT ![c][k] = l],
           UNCHANGED <<resultCh, callPc, returned, ctxDone>>, faulty => faulty'
    PROVE  Advances(c)
<1>1. Typed
  BY Zenon DEF Tracked
<1>2. workPc'[c][k] = l /\ \A j \in H!Kinds \ {k} : workPc'[c][j] = workPc[c][j]
  BY Zenon, <1>1 DEF Typed
<1>3. /\ workPc[c][k] # "none" /\ workPc[c][k] # "done" /\ l # "none" /\ l # "done"
  OBVIOUS
<1>4. \A j \in H!Kinds : /\ workPc'[c][j] = "none" <=> workPc[c][j] = "none"
                         /\ workPc'[c][j] = "done" <=> workPc[c][j] = "done"
  BY Zenon, <1>2, <1>3
<1>5. H!Launched(c)' = H!Launched(c)
  BY Zenon, <1>4 DEF H!Launched
<1>6. "primary" \in H!Kinds /\ "hedge" \in H!Kinds
  BY Zenon DEF H!Kinds
<1>7. Ended(c)' = Ended(c)
  BY Zenon, <1>4, <1>6 DEF Ended, H!Done
<1>8. Settled(c)'
  BY Zenon, <1>4, <1>5, <1>6, <1>7 DEF Settled
<1>9. QED
  BY Zenon, <1>4, <1>8 DEF Advances

\* A call that receives, gives up or hedges leaves the results of its workers.
LEMMA WaitAdvances ==
    ASSUME Tracked, NEW c \in Calls, Settled(c), H!Waiting(c)
    PROVE  Advances(c)
<1>1. /\ Typed /\ H!CallTracked(c) /\ resultCh[c] \in Seq(H!Results) /\ ctxDone' = ctxDone /\ faulty' = faulty
      /\ "primary" \in H!Kinds /\ "hedge" \in H!Kinds /\ \A j \in H!Kinds : j = "primary" \/ j = "hedge"
  BY Zenon
  DEF Tracked, Typed, H!Kinds, H!Waiting, H!ReceiveOnly, H!CallCtx, H!HedgeDelayPasses, H!ReceiveFirst, H!ReceiveSecond
<1>2. Len(resultCh[c]) \in Nat /\ Ended(c) \in Nat /\ Len(resultCh[c]) <= Ended(c)
  BY <1>1 DEF Ended, Settled
<1>3. ASSUME resultCh[c] # <<>>, resultCh' = [resultCh EXCEPT ![c] = Tail(@)], workPc' = workPc
      PROVE  Len(resultCh'[c]) <= Ended(c)'
  <2>1. resultCh'[c] = Tail(resultCh[c]) /\ Ended(c)' = Ended(c)
    BY Zenon, <1>1, <1>3 DEF Typed, Ended, H!Done
  <2>2. Len(Tail(resultCh[c])) = Len(resultCh[c]) - 1
    BY Zenon, <1>1, <1>3, HeadTailProperties
  <2>3. QED
    BY <1>2, <2>1, <2>2
<1>4. CASE H!ReceiveOnly(c)
  <2>1. /\ callPc'[c] = "returned" /\ workPc' = workPc /\ callPc[c] \in {"select", "refused"}
        /\ resultCh[c] # <<>> /\ resultCh' = [resultCh EXCEPT ![c] = Tail(@)]
    BY Zenon, <1>1, <1>4 DEF Typed, H!ReceiveOnly, H!ReturnCall, H!workVars
  <2>2. H!Done(c, "primary") /\ workPc[c]["hedge"] = "none" /\ returned[c] = "none"
    BY Zenon, <1>1, <2>1 DEF H!CallTracked, H!SentBy
  <2>3. \A j \in H!Kinds : workPc'[c][j] \in {"none", "done"}
    BY Zenon, <1>1, <2>1, <2>2 DEF H!Done
  <2>4. Settled(c)'
    BY Zenon, <1>1, <1>3, <2>1, <2>3 DEF Settled
  <2>5. QED
    BY Zenon, <2>1, <2>2, <2>4 DEF Advances
<1>5. CASE H!CallCtx(c)
  <2>1. callPc'[c] = "returned" /\ workPc' = workPc /\ resultCh' = resultCh /\ ctxDone[c] /\ callPc[c] # "returned"
    BY Zenon, <1>1, <1>5 DEF Typed, H!CallCtx, H!ReturnCall, H!workVars
  <2>2. returned[c] = "none" /\ Ended(c)' = Ended(c)
    BY Zenon, <1>1, <2>1 DEF H!CallTracked, Ended, H!Done
  <2>3. Settled(c)'
    BY Zenon, <1>1, <2>1, <2>2 DEF Settled
  <2>4. QED
    BY Zenon, <2>1, <2>2, <2>3 DEF Advances
<1>6. CASE H!HedgeDelayPasses(c)
  <2>1. callPc[c] = "select" /\ resultCh' = resultCh /\ returned' = returned
    BY Zenon, <1>6 DEF H!HedgeDelayPasses
  <2>2. workPc[c]["primary"] # "none" /\ workPc[c]["hedge"] = "none"
    BY Zenon, <1>1, <2>1 DEF Settled, H!CallTracked
  <2>3. CASE callPc' = [callPc EXCEPT ![c] = "first"] /\ H!StartWorker(c, "hedge")
    <3>0. /\ workPc' = [workPc EXCEPT ![c]["hedge"] = StartLabel(c)] /\ StartLabel(c) \in WorkLabels
          /\ StartLabel(c) # "none" /\ StartLabel(c) # "done"
      BY Zenon, <2>3, StartLabels
    <3>1. /\ callPc'[c] = "first" /\ workPc'[c]["hedge"] \notin {"none", "done"}
          /\ workPc'[c]["primary"] = workPc[c]["primary"]
      BY Zenon, <1>1, <2>3, <3>0 DEF Typed, H!Kinds
    <3>2. Ended(c)' = Ended(c)
      BY Zenon, <2>2, <3>1 DEF Ended, H!Done
    <3>3. Settled(c)'
      BY Zenon, <1>1, <1>2, <2>1, <2>2, <3>1, <3>2 DEF Settled
    <3>4. \A j \in H!Kinds : workPc[c][j] # "none" => workPc'[c][j] # "none"
      BY Zenon, <1>1, <2>2, <3>1
    <3>5. QED
      BY Zenon, <2>1, <3>3, <3>4 DEF Advances
  <2>4. CASE callPc' = [callPc EXCEPT ![c] = "refused"] /\ UNCHANGED H!workVars
    <3>1. callPc'[c] = "refused" /\ workPc' = workPc
      BY Zenon, <1>1, <2>4 DEF Typed, H!workVars
    <3>2. Ended(c)' = Ended(c)
      BY Zenon, <3>1 DEF Ended, H!Done
    <3>3. Settled(c)'
      BY Zenon, <1>1, <1>2, <2>1, <2>2, <3>1, <3>2 DEF Settled
    <3>4. QED
      BY Zenon, <2>1, <3>1, <3>3 DEF Advances
  <2>5. QED
    BY Zenon, <1>6, <2>3, <2>4 DEF H!HedgeDelayPasses
<1>7. CASE H!ReceiveFirst(c)
  <2>1. /\ workPc' = workPc /\ callPc[c] = "first"
        /\ resultCh[c] # <<>> /\ resultCh' = [resultCh EXCEPT ![c] = Tail(@)]
    BY Zenon, <1>7 DEF H!ReceiveFirst, H!workVars
  <2>2. workPc[c]["primary"] # "none" /\ workPc[c]["hedge"] # "none" /\ returned[c] = "none"
    BY Zenon, <1>1, <2>1 DEF Settled, H!CallTracked
  <2>3. H!Launched(c)' = H!Kinds
    BY Zenon, <1>1, <2>1, <2>2 DEF H!Launched
  <2>4. Len(resultCh'[c]) <= Ended(c)'
    BY Zenon, <1>3, <2>1
  <2>5. (callPc'[c] = "returned" /\ returned'[c] \in H!NoError) \/ callPc'[c] = "second"
    BY Zenon, <1>1, <1>7 DEF Typed, H!ReceiveFirst, H!ReturnCall
  <2>6. Settled(c)'
    BY Zenon, <1>1, <2>1, <2>2, <2>3, <2>4, <2>5 DEF Settled
  <2>7. QED
    BY Zenon, <2>1, <2>2, <2>6 DEF Advances
<1>8. CASE H!ReceiveSecond(c)
  <2>1. /\ callPc'[c] = "returned" /\ workPc' = workPc /\ callPc[c] = "second"
        /\ resultCh[c] # <<>> /\ resultCh' = [resultCh EXCEPT ![c] = Tail(@)]
    BY Zenon, <1>1, <1>8 DEF Typed, H!ReceiveSecond, H!ReturnCall, H!workVars
  <2>2. returned[c] = "none" /\ \E k \in H!Kinds : H!Done(c, k) /\ H!SentBy(c, H!Other(k))
    BY Zenon, <1>1, <2>1 DEF H!CallTracked
  <2>3. PICK k \in H!Kinds : H!Done(c, k) /\ H!SentBy(c, H!Other(k))
    BY Zenon, <2>2
  <2>4. H!Done(c, H!Other(k))
    BY Zenon, <2>1, <2>3 DEF H!SentBy
  <2>5. \A j \in H!Kinds : j = k \/ j = H!Other(k)
    BY Zenon, <1>1 DEF H!Other
  <2>6. \A j \in H!Kinds : workPc'[c][j] \in {"none", "done"}
    BY Zenon, <2>1, <2>3, <2>4, <2>5 DEF H!Done
  <2>7. Settled(c)'
    BY Zenon, <1>1, <1>3, <2>1, <2>6 DEF Settled
  <2>8. QED
    BY Zenon, <2>1, <2>2, <2>7 DEF Advances
<1>9. QED
  BY Zenon, <1>4, <1>5, <1>6, <1>7, <1>8 DEF H!Waiting

\* Every step settles its call again.
LEMMA CallAdvances ==
    ASSUME Tracked, NEW c \in Calls, Settled(c), ctxDone \in [Calls -> BOOLEAN],
           H!Execute(c) \/ H!CtxEnds(c) \/ H!Waiting(c)
             \/ \E k \in H!Kinds : H!OperationReturns(c, k) \/ H!Continuing(c, k),
           faulty => faulty'
    PROVE  Advances(c)
<1>1. Typed /\ H!CallTracked(c) /\ "primary" \in H!Kinds /\ "hedge" \in H!Kinds
  BY Zenon DEF Tracked, H!Kinds
<1>2. CASE H!Execute(c)
  <2>1. callPc[c] = "idle" /\ resultCh' = resultCh /\ ctxDone' = ctxDone /\ faulty' = faulty
    BY Zenon, <1>2 DEF H!Execute
  <2>2. /\ \A k \in H!Kinds : workPc[c][k] = "none"
        /\ resultCh[c] = <<>> /\ returned[c] = "none"
    BY Zenon, <1>1, <2>1 DEF H!CallTracked
  <2>3. Len(resultCh'[c]) <= Ended(c)'
    BY <2>1, <2>2 DEF Ended
  <2>4. CASE H!ReturnCall(c, "open") /\ UNCHANGED <<breaker, H!workVars>>
    <3>1. callPc'[c] = "returned" /\ workPc' = workPc
      BY Zenon, <1>1, <2>4 DEF Typed, H!ReturnCall, H!workVars
    <3>2. Settled(c)'
      BY Zenon, <2>1, <2>2, <2>3, <3>1 DEF Settled
    <3>3. QED
      BY Zenon, <2>2, <3>1, <3>2 DEF Advances
  <2>5. CASE /\ H!StartWorker(c, "primary")
             /\ callPc' = [callPc EXCEPT ![c] = IF c \in Hedged THEN "select" ELSE "direct"]
    <3>0. /\ workPc' = [workPc EXCEPT ![c]["primary"] = StartLabel(c)] /\ StartLabel(c) \in WorkLabels
          /\ StartLabel(c) # "none" /\ StartLabel(c) # "done"
      BY Zenon, <2>5, StartLabels
    <3>1. workPc'[c]["primary"] # "none" /\ callPc'[c] \in {"select", "direct"}
      BY Zenon, <1>1, <2>5, <3>0 DEF Typed
    <3>2. Settled(c)'
      BY Zenon, <2>1, <2>2, <2>3, <3>1 DEF Settled
    <3>3. QED
      BY Zenon, <2>2, <3>1, <3>2 DEF Advances
  <2>6. QED
    BY Zenon, <1>2, <2>4, <2>5 DEF H!Execute
<1>3. CASE H!CtxEnds(c)
  <2>1. /\ callPc[c] # "returned" /\ ctxDone'[c] = TRUE /\ faulty' = TRUE
        /\ UNCHANGED <<callPc, returned, resultCh, workPc>>
    BY Zenon, <1>3 DEF H!CtxEnds, H!workVars
  <2>2. Ended(c)' = Ended(c)
    BY Zenon, <2>1 DEF Ended, H!Done
  <2>3. Settled(c)'
    BY Zenon, <2>1, <2>2 DEF Settled
  <2>4. QED
    BY Zenon, <2>1, <2>3 DEF Advances
<1>4. CASE H!Waiting(c)
  BY Zenon, <1>4, WaitAdvances
<1>5. ASSUME NEW k \in H!Kinds, H!OperationReturns(c, k) PROVE Advances(c)
  <2>1. workPc[c][k] = "operating" /\ ctxDone' = ctxDone /\ workPc[c][k] \in {"operating", "sleeping"}
    BY Zenon, <1>5 DEF H!OperationReturns, H!OperationSucceeds, H!OperationFails
  <2>2. ASSUME NEW r \in H!Results, H!EndWorker(c, k, r) PROVE Advances(c)
    BY Zenon, <2>1, <2>2, EndAdvances
  <2>3. CASE /\ workPc' = [workPc EXCEPT ![c][k] = IF backoff[c][k] > 0 THEN "sleeping" ELSE "panicked"]
             /\ UNCHANGED <<result, resultCh, callPc, returned>>
    <3>1. PICK l \in {"operating", "sleeping", "panicked"} :
             l = IF backoff[c][k] > 0 THEN "sleeping" ELSE "panicked"
      BY Zenon
    <3>2. workPc' = [workPc EXCEPT ![c][k] = l] /\ UNCHANGED <<resultCh, callPc, returned, ctxDone>>
      BY Zenon, <2>1, <2>3, <3>1
    <3>3. QED
      BY Zenon, <2>1, <3>2, MoveAdvances
  <2>4. "ok" \in H!Results /\ \A e \in {"err", "ctx"} : e \in H!Results
    BY Zenon DEF H!Results
  <2>5. QED
    BY Zenon, <1>5, <2>2, <2>3, <2>4 DEF H!OperationReturns, H!OperationSucceeds, H!OperationFails
<1>6. ASSUME NEW k \in H!Kinds, H!WakeUp(c, k) PROVE Advances(c)
  <2>1. /\ workPc[c][k] \in {"operating", "sleeping"} /\ workPc' = [workPc EXCEPT ![c][k] = "operating"]
        /\ UNCHANGED <<resultCh, callPc, returned, ctxDone>> /\ "operating" \in {"operating", "sleeping", "panicked"}
    BY Zenon, <1>6 DEF H!WakeUp, H!callVars
  <2>2. QED
    BY Zenon, <2>1, MoveAdvances
<1>7. ASSUME NEW k \in H!Kinds, H!SleepCancelled(c, k) PROVE Advances(c)
  <2>1. /\ workPc[c][k] \in {"operating", "sleeping"} /\ ctxDone' = ctxDone /\ "ctx" \in H!Results
        /\ H!EndWorker(c, k, "ctx")
    BY Zenon, <1>7 DEF H!SleepCancelled, H!Results
  <2>2. QED
    BY Zenon, <2>1, EndAdvances
<1>8. ASSUME NEW k \in H!Kinds, H!SkipLoop(c, k) PROVE Advances(c)
  <2>1. /\ workPc[c][k] \in {"skipping", "operating", "sleeping"} /\ ctxDone' = ctxDone
        /\ "zero" \in H!Results /\ H!EndWorker(c, k, "zero")
    BY Zenon, <1>8 DEF H!SkipLoop, H!Results
  <2>2. QED
    BY Zenon, <2>1, EndAdvances
<1>9. QED
  BY Zenon, <1>2, <1>3, <1>4, <1>5, <1>6, <1>7, <1>8 DEF H!Continuing

\* The breaker counts a failure that neither the backend nor a caller caused
\* only for a worker that lost to the other worker of its call.
LEMMA LosersStep ==
    ASSUME HedgeInv, NEW c \in Calls,
           H!Execute(c) \/ H!CtxEnds(c) \/ H!Waiting(c)
             \/ \E k \in H!Kinds : H!OperationReturns(c, k) \/ H!Continuing(c, k),
           Alone(c), Advances(c), faulty => faulty'
    PROVE  H!OnlyLosersFail'
<1> SUFFICES ASSUME ~faulty', breaker'.failures > 0
             PROVE  \E d \in Calls : returned'[d] = "ok" /\ H!Launched(d)' = H!Kinds
  BY Zenon DEF H!OnlyLosersFail
<1>1. /\ ~faulty /\ Policed /\ H!OnlyLosersFail /\ Settled(c) /\ breaker \in BreakerRecords
      /\ H!CallTracked(c) /\ \A k \in H!Kinds : Allowed(c, k)
  BY Zenon DEF HedgeInv, Tracked, Policed
<1>2. ASSUME NEW d \in Calls, returned[d] = "ok", H!Launched(d) = H!Kinds
      PROVE  returned'[d] = "ok" /\ H!Launched(d)' = H!Kinds
  <2>1. CASE d = c
    BY Zenon, <1>2, <2>1 DEF Advances, H!Launched
  <2>2. CASE d # c
    BY Zenon, <1>2, <2>2 DEF Alone, H!Launched
  <2>3. QED
    BY Zenon, <2>1, <2>2
<1>3. ASSUME breaker.failures > 0
      PROVE  \E d \in Calls : returned'[d] = "ok" /\ H!Launched(d)' = H!Kinds
  BY Zenon, <1>1, <1>2, <1>3 DEF H!OnlyLosersFail
<1>4. breaker.failures \in Nat
  BY <1>1, PolicyAssumption DEF BreakerRecords
<1>5. ASSUME NEW k \in H!Kinds, NEW e \in {"err", "ctx"}, H!OperationFails(c, k, e)
      PROVE  \E d \in Calls : returned'[d] = "ok" /\ H!Launched(d)' = H!Kinds
  <2>1. /\ workPc[c][k] = "operating" /\ faulty' = (faulty \/ e = "err") /\ (e = "ctx" => H!Cancelled(c))
    BY Zenon, <1>5 DEF H!OperationFails
  <2>2. H!Cancelled(c)
    BY Zenon, <2>1
  <2>3. ~ctxDone[c]
    BY Zenon, <1>1 DEF Settled
  <2>4. callPc[c] = "returned"
    BY Zenon, <2>2, <2>3 DEF H!Cancelled
  <2>5. workPc[c][k] \notin {"none", "done"}
    BY Zenon, <2>1
  <2>6. returned[c] \in H!NoError /\ H!Launched(c) = H!Kinds
    BY Zenon, <1>1, <2>3, <2>4, <2>5 DEF Settled
  <2>7. policy[c].attempts >= 1
    BY Zenon, <1>1, <2>1 DEF Allowed
  <2>8. returned[c] # "zero"
    <3> SUFFICES ASSUME returned[c] = "zero" PROVE FALSE
      BY Zenon
    <3>1. PICK j \in H!Kinds : result[c][j] = "zero"
      BY Zenon, <1>1, <2>6 DEF H!CallTracked, H!Justified
    <3>2. QED
      BY Zenon, <1>1, <2>7, <3>1 DEF Allowed
  <2>9. QED
    BY Zenon, <1>2, <2>6, <2>8 DEF H!NoError
<1>6. ASSUME NEW k \in H!Kinds, H!OperationSucceeds(c, k) PROVE breaker.failures > 0
  <2>1. breaker' = H!AfterSuccess(breaker)
    BY Zenon, <1>6 DEF H!OperationSucceeds
  <2>2. breaker'.failures = 0 \/ breaker'.failures = breaker.failures
    BY Zenon, <1>1, <2>1 DEF H!AfterSuccess, BreakerRecords
  <2>3. QED
    BY <2>2, <1>4
<1>7. ASSUME breaker' = breaker PROVE breaker.failures > 0
  BY Zenon, <1>7
<1>8. CASE H!Execute(c)
  <2>1. breaker' = breaker \/ breaker' = [breaker EXCEPT !.state = "HalfOpen", !.successes = 0]
    BY Zenon, <1>8 DEF H!Execute
  <2>2. breaker'.failures = breaker.failures
    BY Zenon, <1>1, <2>1 DEF BreakerRecords
  <2>3. QED
    BY Zenon, <1>3, <2>2
<1>9. CASE H!CtxEnds(c)
  BY Zenon, <1>9, <1>3, <1>7 DEF H!CtxEnds
<1>10. CASE H!Waiting(c)
  BY Zenon, <1>10, <1>3, <1>7
  DEF H!Waiting, H!ReceiveOnly, H!CallCtx, H!HedgeDelayPasses, H!ReceiveFirst, H!ReceiveSecond
<1>11. ASSUME NEW k \in H!Kinds, H!Continuing(c, k)
       PROVE  \E d \in Calls : returned'[d] = "ok" /\ H!Launched(d)' = H!Kinds
  BY Zenon, <1>11, <1>3, <1>7 DEF H!Continuing, H!WakeUp, H!SleepCancelled, H!SkipLoop
<1>12. QED
  BY Zenon, <1>3, <1>5, <1>6, <1>8, <1>9, <1>10, <1>11 DEF H!OperationReturns

\* One step of any call keeps the invariant of all.
LEMMA HedgeInvStep ==
    ASSUME HedgeInv, [H!Next]_(H!vars)
    PROVE  HedgeInv'
<1>1. Tracked /\ Policed /\ H!OnlyLosersFail /\ \A c \in Calls : Settled(c)
  BY Zenon DEF HedgeInv
<1>2. Tracked'
  BY Zenon, <1>1, TrackedStep
<1>3. CASE UNCHANGED H!vars
  <2>1. UNCHANGED <<policy, breaker, ctxDone, callPc, returned, resultCh, workPc, attempt, backoff,
                    result, faulty>>
    BY Zenon, <1>3 DEF H!vars
  <2>2. Policed'
    BY Zenon, <1>1, <2>1, PolicedSame DEF Policed
  <2>3. \A c \in Calls : Settled(c)'
    BY Zenon, <1>1, <2>1 DEF Settled, Ended, H!Done, H!Launched
  <2>4. H!OnlyLosersFail'
    BY Zenon, <1>1, <2>1 DEF H!OnlyLosersFail, H!Launched
  <2>5. QED
    BY Zenon, <1>2, <2>2, <2>3, <2>4 DEF HedgeInv
<1>4. CASE H!Next
  <2>1. PICK c \in Calls :
           H!Execute(c) \/ H!CtxEnds(c) \/ H!Waiting(c)
             \/ \E k \in H!Kinds : H!OperationReturns(c, k) \/ H!Continuing(c, k)
    BY Zenon, <1>4 DEF H!Next
  <2>2. Policed'
    BY Zenon, <1>1, <1>4, <2>1, PolicedStep DEF H!Next
  <2>3. Alone(c) /\ (faulty => faulty')
    BY Zenon, <1>1, <2>1, StepIsAlone
  <2>4. ctxDone \in [Calls -> BOOLEAN]
    BY Zenon, <1>1 DEF Policed
  <2>5. Advances(c)
    BY Zenon, <1>1, <2>1, <2>3, <2>4, CallAdvances
  <2>6. \A d \in Calls : Settled(d)'
    BY Zenon, <1>1, <2>3, <2>5, OthersSettled DEF Advances
  <2>7. H!OnlyLosersFail'
    BY Zenon, <2>1, <2>3, <2>5, LosersStep
  <2>8. QED
    BY Zenon, <1>2, <2>2, <2>6, <2>7 DEF HedgeInv
<1>5. QED
  BY Zenon, <1>3, <1>4

LEMMA HedgeInvInit ==
    ASSUME H!Init
    PROVE  HedgeInv
<1>1. Typed
  BY Zenon, EmptySeq DEF H!Init, Typed, H!PerWorker, CallLabels, WorkLabels
<1>2. \A c \in Calls, k \in H!Kinds :
         workPc[c][k] = "none" /\ result[c][k] = "none" /\ attempt[c][k] = 0 /\ backoff[c][k] = 0
  BY Zenon DEF H!Init, H!PerWorker
<1>3. \A c \in Calls : /\ callPc[c] = "idle" /\ returned[c] = "none" /\ resultCh[c] = <<>> /\ ~ctxDone[c]
  BY Zenon DEF H!Init
<1>4. ASSUME NEW c \in Calls PROVE H!CallTracked(c)
  BY Zenon, <1>2, <1>3 DEF H!CallTracked, H!Justified, H!NoError, H!Done, H!Kinds
<1>5. breaker \in BreakerRecords /\ breaker.failures = 0
  BY PolicyAssumption DEF H!Init, BreakerRecords
<1>6. ASSUME NEW c \in Calls PROVE Settled(c)
  BY <1>2, <1>3 DEF Settled, Ended, H!Done, H!Kinds
<1>7. H!BackoffInRange
  BY Zenon, <1>2 DEF H!BackoffInRange, H!Launched
<1>8. Counted
  BY PolicyAssumption DEF H!Init, H!PerWorker, Counted, H!Durations
<1>9. ctxDone \in [Calls -> BOOLEAN] /\ faulty \in BOOLEAN /\ policy \in Policies
  BY Zenon DEF H!Init
<1>10. \A c \in Calls, k \in H!Kinds : Allowed(c, k)
  BY Zenon, <1>2 DEF Allowed
<1>11. Policed
  BY Zenon, <1>5, <1>7, <1>8, <1>9, <1>10 DEF Policed
<1>12. H!OnlyLosersFail
  BY <1>5 DEF H!OnlyLosersFail
<1>13. QED
  BY Zenon, <1>1, <1>4, <1>6, <1>11, <1>12 DEF HedgeInv, Tracked

\* The invariant says what the run checks of the hedged calls.
LEMMA HedgeInvMeans ==
    ASSUME HedgeInv
    PROVE  /\ H!TypeOK /\ H!NoSuccessWasted /\ H!OnlyLosersFail /\ H!BackoffInRange
           /\ \A c \in Calls : H!CallTracked(c)
<1>1. Typed /\ Policed /\ H!OnlyLosersFail /\ (\A c \in Calls : H!CallTracked(c)) /\ \A c \in Calls : Settled(c)
  BY Zenon DEF HedgeInv, Tracked
<1>2. ASSUME NEW c \in Calls PROVE resultCh[c] \in Seq(H!Results) /\ Len(resultCh[c]) <= 2
  <2>1. resultCh[c] \in Seq(H!Results) /\ Len(resultCh[c]) <= Ended(c)
    BY Zenon, <1>1 DEF Typed, Settled
  <2>2. Ended(c) \in 0..2
    BY DEF Ended
  <2>3. QED
    BY <2>1, <2>2
<1>3. H!TypeOK
  BY Zenon, <1>1, <1>2 DEF H!TypeOK, Typed, Policed, Counted, BreakerRecords, WorkLabels, CallLabels
<1>4. H!NoSuccessWasted
  <2> SUFFICES ASSUME NEW c \in Calls
               PROVE  /\ H!Justified(c, returned[c])
                      /\ returned[c] = "zero" => policy[c].attempts < 1
                      /\ returned[c] \in {"ok", "err"} => policy[c].attempts >= 1
    BY Zenon DEF H!NoSuccessWasted
  <2>1. H!Justified(c, returned[c]) /\ \A k \in H!Kinds : Allowed(c, k)
    BY Zenon, <1>1 DEF H!CallTracked, Policed
  <2>2. policy[c].attempts \in Int
    BY Zenon, <1>1, PolicyAssumption DEF Policed
  <2>3. returned[c] = "zero" => ~(policy[c].attempts >= 1)
    BY Zenon, <2>1 DEF H!Justified, H!NoError, Allowed
  <2>4. returned[c] = "ok" => policy[c].attempts >= 1
    BY Zenon, <2>1 DEF H!Justified, H!NoError, Allowed
  <2>5. returned[c] = "err" => policy[c].attempts >= 1
    <3> SUFFICES ASSUME returned[c] = "err" PROVE policy[c].attempts >= 1
      OBVIOUS
    <3>1. PICK k \in H!Launched(c) : result[c][k] \in {"err", "ctx"}
      BY Zenon, <2>1 DEF H!Justified
    <3>2. k \in H!Kinds
      BY Zenon DEF H!Launched
    <3>3. QED
      BY Zenon, <2>1, <3>1, <3>2 DEF Allowed
  <2>6. QED
    BY <2>1, <2>2, <2>3, <2>4, <2>5
<1>5. QED
  BY Zenon, <1>1, <1>3, <1>4 DEF Policed

\* HedgeOutcome: ExecuteWithRetry returns a success only when a worker succeeded,
\* an error of the backend only when every worker it started has failed, and
\* neither only when the policy allows no attempt; a failure that neither the
\* backend nor a caller caused is one of the loser of a won hedge; and a worker
\* panics on its backoff only if the policy is not steady, that is, lets it shrink,
\* reach zero or overflow.  For any calls, any policies and any thresholds.
THEOREM HedgesDecideRightly == RetriesSpec => []HedgeOutcome
<1>1. RetriesInit => (which = "hedge" => HedgeInv)
  BY Zenon, HedgeInvInit DEF RetriesInit
<1>2. (which = "hedge" => HedgeInv) /\ [RetriesNext]_retriesVars => (which = "hedge" => HedgeInv)'
  <2> SUFFICES ASSUME which = "hedge" => HedgeInv, [RetriesNext]_retriesVars, which' = "hedge"
               PROVE  HedgeInv'
    BY Zenon
  <2>1. which = "hedge" /\ [H!Next]_(H!vars)
    BY Zenon DEF RetriesNext, HedgeStep, BreakerStep, retriesVars, hedgeVars, H!vars
  <2>2. QED
    BY Zenon, <2>1, HedgeInvStep
<1>3. (which = "hedge" => HedgeInv) => HedgeOutcome
  BY Zenon, HedgeInvMeans DEF HedgeOutcome
<1>4. QED
  BY <1>1, <1>2, <1>3, PTL DEF RetriesSpec

-----------------------------------------------------------------------------
(* The breaker with one caller.  Between two of its calls the successes    *)
(* counted are those since the switch to HalfOpen, and an Open circuit has *)
(* been Open at least as long as its stamp says; while a call runs, its    *)
(* label says which of its operations have happened.                       *)

Label == at[Caller]
Stamp == stamp[Caller]

SerialTyped ==
    /\ state \in {"Closed", "Open", "HalfOpen"}
    /\ failures \in 0..MaxFailures /\ successes \in 0..HalfOpenProbes /\ probesPassed \in 0..HalfOpenProbes
    /\ lastOpenTime \in 0..OpenTimeout /\ openFor \in 0..OpenTimeout
    /\ at \in [{Caller} -> B!Labels] /\ stamp \in [{Caller} -> 0..OpenTimeout]

SerialLabels ==
    /\ Label \in {"loadOpenTime", "since", "casHalfOpen", "readNow", "storeOpenTime"} => state = "Open"
    /\ Label \in {"resetSuccesses", "addSuccess", "storeClosed"} => state = "HalfOpen"
    /\ Label = "resetSuccesses" => probesPassed = 0
    /\ Label = "storeClosed" => probesPassed >= HalfOpenProbes
    /\ Label = "resetFailures" => state = "Closed"
    /\ Label = "casFromHalfOpen" => state # "Closed"
    /\ Label \in {"casFromClosed", "casFromHalfOpen"} => failures >= MaxFailures
    /\ state # "Closed" => failures >= MaxFailures
    /\ state = "HalfOpen" /\ Label # "resetSuccesses" => successes = probesPassed

SerialTimes ==
    /\ state = "Open" /\ Label \notin {"readNow", "storeOpenTime"} => lastOpenTime <= openFor
    /\ Label \in {"since", "casHalfOpen", "storeOpenTime"} => Stamp <= openFor
    /\ Label = "casHalfOpen" => Stamp >= OpenTimeout

SerialInv == SerialTyped /\ SerialLabels /\ SerialTimes

\* Every step keeps the invariant and follows the documented state machine.
SerialStep == SerialInv' /\ B!DocumentedStep

LEMMA SerialKeeps ==
    ASSUME SerialInv, [B!Next]_(B!vars)
    PROVE  SerialStep
<1>1. B!Procs = {Caller} /\ Caller \in {Caller}
  BY Zenon DEF B!Procs
<1>2. /\ MaxFailures \in Nat \ {0} /\ OpenTimeout \in Nat \ {0} /\ HalfOpenProbes \in Nat \ {0}
  BY Zenon, BreakerAssumption
<1> USE DEF SerialStep, SerialInv, SerialTyped, SerialLabels, SerialTimes, Label, Stamp, B!DocumentedStep,
            B!StaysOpen, B!EnoughProbes, B!ClosesFromHalfOpen, B!cbVars, B!historyVars, B!Labels, B!Goto
<1>3. CASE B!AllowLoad(Caller)
  BY Zenon, <1>1, <1>2, <1>3 DEF B!AllowLoad
<1>4. CASE B!SuccessLoad(Caller)
  BY Zenon, <1>1, <1>2, <1>4 DEF B!SuccessLoad
<1>5. CASE B!FailureAdd(Caller)
  BY <1>1, <1>2, <1>5 DEF B!FailureAdd, B!UpTo
<1>6. CASE B!AllowLoadOpenTime(Caller)
  BY Zenon, <1>1, <1>2, <1>6 DEF B!AllowLoadOpenTime
<1>7. CASE B!AllowSince(Caller)
  BY Zenon, <1>1, <1>2, <1>7 DEF B!AllowSince
<1>8. CASE B!AllowCasHalfOpen(Caller)
  BY <1>1, <1>2, <1>8 DEF B!AllowCasHalfOpen
<1>9. CASE B!AllowResetSuccesses(Caller)
  BY Zenon, <1>1, <1>2, <1>9 DEF B!AllowResetSuccesses
<1>10. CASE B!SuccessAdd(Caller)
  BY <1>1, <1>2, <1>10 DEF B!SuccessAdd, B!UpTo
<1>11. CASE B!SuccessStoreClosed(Caller)
  BY Zenon, <1>1, <1>2, <1>11 DEF B!SuccessStoreClosed
<1>12. CASE B!ResetFailures(Caller)
  BY <1>1, <1>2, <1>12 DEF B!ResetFailures
<1>13. CASE B!FailureCasFromClosed(Caller)
  BY <1>1, <1>2, <1>13 DEF B!FailureCasFromClosed, B!CasOpen
<1>14. CASE B!FailureCasFromHalfOpen(Caller)
  BY <1>1, <1>2, <1>14 DEF B!FailureCasFromHalfOpen, B!CasOpen
<1>15. CASE B!ReadNow(Caller)
  BY <1>1, <1>2, <1>15 DEF B!ReadNow
<1>16. CASE B!StoreOpenTime(Caller)
  BY Zenon, <1>1, <1>2, <1>16 DEF B!StoreOpenTime
<1>17. CASE B!Tick
  BY <1>1, <1>2, <1>17 DEF B!Tick, B!Older, B!UpTo
<1>18. CASE UNCHANGED B!vars
  BY Zenon, <1>1, <1>2, <1>18 DEF B!vars
<1>19. QED
  BY Zenon, <1>1, <1>3, <1>4, <1>5, <1>6, <1>7, <1>8, <1>9, <1>10, <1>11, <1>12, <1>13, <1>14, <1>15, <1>16, <1>17, <1>18
  DEF B!Next, B!Request, B!Continue

LEMMA SerialBegins ==
    ASSUME B!Init
    PROVE  SerialInv
<1>1. B!Procs = {Caller} /\ Caller \in {Caller}
  BY Zenon DEF B!Procs
<1>2. QED
  BY <1>1, BreakerAssumption
  DEF B!Init, B!Labels, SerialInv, SerialTyped, SerialLabels, SerialTimes, Label, Stamp

LEMMA SerialInvMeans == SerialInv => B!ProbeFailureReopens
  BY Zenon DEF SerialInv, SerialLabels, B!ProbeFailureReopens

\* For calls that do not overlap the documented state machine is what the code
\* does: Allow leaves Open only after OpenTimeout, RecordSuccess closes the
\* circuit only from HalfOpen and after HalfOpenProbes successes, and one failed
\* probe reopens it.  It holds for every threshold and every OpenTimeout.
THEOREM SerialCallsFollowTheStateMachine == RetriesSpec => SerialTransitions
<1> DEFINE Inv == which = "breaker" => SerialInv
           Step == which = "breaker" => B!DocumentedStep /\ B!ProbeFailureReopens'
<1>1. RetriesInit => Inv
  BY Zenon, SerialBegins DEF RetriesInit
<1>2. ASSUME Inv, [RetriesNext]_retriesVars
      PROVE  Inv' /\ Step
  <2>1. CASE which = "breaker"
    <3>1. [B!Next]_(B!vars)
      BY Zenon, <1>2, <2>1 DEF RetriesNext, HedgeStep, BreakerStep, retriesVars, breakerVars, B!vars
    <3>2. SerialStep
      BY Zenon, <1>2, <2>1, <3>1, SerialKeeps
    <3>3. SerialInv' => B!ProbeFailureReopens'
      BY SerialInvMeans, PTL
    <3>4. QED
      BY Zenon, <3>2, <3>3 DEF SerialStep
  <2>2. CASE which # "breaker"
    <3>1. which' = which
      BY Zenon, <1>2 DEF RetriesNext, HedgeStep, BreakerStep, retriesVars
    <3>2. QED
      BY Zenon, <2>2, <3>1
  <2>3. QED
    BY Zenon, <2>1, <2>2
<1>3. Inv /\ [RetriesNext]_retriesVars => Inv'
  BY Zenon, <1>2
<1>4. Inv /\ [RetriesNext]_retriesVars => [Step]_retriesVars
  BY Zenon, <1>2
<1>5. QED
  BY <1>1, <1>3, <1>4, PTL DEF RetriesSpec, SerialTransitions

=============================================================================
