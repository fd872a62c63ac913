-------------------------- MODULE ConnectionProofs --------------------------
(***************************************************************************)
(* Proofs about what stands between a client and its server, for every     *)
(* value of the constants: the circuit breaker, the pool of connections    *)
(* and the two transports.                                                 *)
(***************************************************************************)
EXTENDS CircuitBreaker, Connections, SequenceTheorems, TLAPS

(***************************************************************************)
(* The circuit breaker keeps its types and never loses a trip, for any     *)
(* number of goroutines and any thresholds.  NoMissedTrip speaks of        *)
(* quiescent states only and is not inductive; TripPending is the          *)
(* strengthening that names the operation still to come.                   *)
(***************************************************************************)

\* Counting up to a limit stays within the limit.
LEMMA UpToType ==
    ASSUME NEW n \in Nat, NEW limit \in Nat
    PROVE  UpTo(n, limit) \in 0..limit
BY DEF UpTo

\* Every word of the breaker and every local of a goroutine keeps its type,
\* whatever the interleaving of the methods' atomic operations.
LEMMA TypeStep == TypeOK /\ [Next]_vars => TypeOK'
<1> SUFFICES ASSUME TypeOK, [Next]_vars PROVE TypeOK'
  OBVIOUS
<1> USE ConfigAssumption
    DEF TypeOK, CircuitState, Labels, Admissions, Ages, Procs, cbVars, historyVars, Goto
<1>1. CASE \E g \in Goroutines : Request(g)
  <2>1. PICK g \in Goroutines : Request(g)
    BY <1>1
  <2>2. CASE AllowLoad(g)
    BY <2>2 DEF AllowLoad
  <2>3. CASE SuccessLoad(g)
    BY <2>3 DEF SuccessLoad
  <2>4. CASE FailureAdd(g)
    <3>1. failures' \in 0..MaxFailures
      BY <2>4, UpToType DEF FailureAdd
    <3>2. QED
      BY <2>4, <3>1 DEF FailureAdd
  <2>5. QED
    BY <2>1, <2>2, <2>3, <2>4 DEF Request
<1>2. CASE \E g \in Operators : Operate(g)
  <2>1. PICK g \in Operators : Operate(g)
    BY <1>2
  <2>2. CASE ForceOpen(g)
    BY <2>2 DEF ForceOpen
  <2>3. CASE ForceClose(g)
    BY Zenon, <2>3 DEF ForceClose
  <2>4. QED
    BY <2>1, <2>2, <2>3 DEF Operate
<1>3. CASE \E g \in Procs : Continue(g)
  <2>1. PICK g \in Procs : Continue(g)
    BY <1>3
  <2>2. CASE AllowLoadOpenTime(g)
    BY <2>2 DEF AllowLoadOpenTime
  <2>3. CASE AllowSince(g)
    <3>1. admission' \in [Goroutines -> Admissions]
      BY <2>3 DEF AllowSince
    <3>2. pc' \in [Procs -> Labels]
      BY <2>3 DEF AllowSince
    <3>3. QED
      BY <2>3, <3>1, <3>2 DEF AllowSince
  <2>4. CASE AllowCasHalfOpen(g)
    <3>1. admission' \in [Goroutines -> Admissions]
      BY <2>4 DEF AllowCasHalfOpen
    <3>2. pc' \in [Procs -> Labels]
      BY <2>4 DEF AllowCasHalfOpen
    <3>3. QED
      BY <2>4, <3>1, <3>2 DEF AllowCasHalfOpen
  <2>5. CASE AllowResetSuccesses(g)
    <3>1. admission' \in [Goroutines -> Admissions]
      BY Zenon, <2>5 DEF AllowResetSuccesses
    <3>2. pc' \in [Procs -> Labels]
      BY <2>5 DEF AllowResetSuccesses
    <3>3. QED
      BY <2>5, <3>1, <3>2 DEF AllowResetSuccesses
  <2>6. CASE SuccessAdd(g)
    <3>1. successes' \in 0..HalfOpenProbes /\ probesPassed' \in 0..HalfOpenProbes
      BY <2>6, UpToType DEF SuccessAdd
    <3>2. QED
      BY <2>6, <3>1 DEF SuccessAdd
  <2>7. CASE SuccessStoreClosed(g)
    BY <2>7 DEF SuccessStoreClosed
  <2>8. CASE ResetFailures(g)
    BY <2>8 DEF ResetFailures
  <2>9. CASE FailureCasFromClosed(g)
    BY <2>9 DEF FailureCasFromClosed, CasOpen
  <2>10. CASE FailureCasFromHalfOpen(g)
    BY <2>10 DEF FailureCasFromHalfOpen, CasOpen
  <2>11. CASE ReadNow(g)
    BY <2>11 DEF ReadNow
  <2>12. CASE StoreOpenTime(g)
    BY <2>12 DEF StoreOpenTime
  <2>13. QED
    BY <2>1, <2>2, <2>3, <2>4, <2>5, <2>6, <2>7, <2>8, <2>9, <2>10, <2>11, <2>12
    DEF Continue
<1>4. CASE Tick
  <2>1. \A age \in Ages : Older(age) \in Ages
    BY UpToType DEF Older
  <2>2. QED
    BY <1>4, <2>1 DEF Tick
<1>5. CASE UNCHANGED vars
  BY <1>5 DEF vars
<1>6. QED
  BY <1>1, <1>2, <1>3, <1>4, <1>5 DEF Next

\* The breaker is always well typed.
THEOREM TypeCorrect == Spec => []TypeOK
<1>1. Init => TypeOK
  BY ConfigAssumption DEF Init, TypeOK, CircuitState, Labels, Admissions, Ages
<1>2. QED
  BY <1>1, TypeStep, PTL DEF Spec

-----------------------------------------------------------------------------
\* One atomic operation never leaves a Closed circuit at MaxFailures with
\* nobody about to trip it or to reset its counter: the increment of
\* RecordFailure is followed by its swap from Closed, and the store of Closed
\* (RecordSuccess, ForceClose) by the reset.
LEMMA TripPendingStep == TypeOK /\ TripPending /\ [Next]_vars => TripPending'
<1> SUFFICES ASSUME TypeOK, TripPending, [Next]_vars,
                    state' = "Closed", failures' >= MaxFailures
             PROVE  \E p \in Procs : pc'[p] \in {"casFromClosed", "resetFailures"}
  BY DEF TripPending
<1> USE ConfigAssumption
    DEF TypeOK, CircuitState, Labels, Ages, Procs, cbVars, historyVars, Goto
<1> DEFINE Pending(p) == pc[p] \in {"casFromClosed", "resetFailures"}
<1>1. ASSUME NEW g \in Procs, state = "Closed", failures >= MaxFailures,
             ~Pending(g), \A p \in Procs \ {g} : pc'[p] = pc[p]
      PROVE  \E p \in Procs : pc'[p] \in {"casFromClosed", "resetFailures"}
  BY <1>1 DEF TripPending
<1>2. CASE \E g \in Goroutines : Request(g)
  <2>1. PICK g \in Goroutines : Request(g)
    BY <1>2
  <2>2. CASE AllowLoad(g)
    BY <1>1, <2>2 DEF AllowLoad
  <2>3. CASE SuccessLoad(g)
    BY <1>1, <2>3 DEF SuccessLoad
  <2>4. CASE FailureAdd(g)
    BY <2>4 DEF FailureAdd
  <2>5. QED
    BY <2>1, <2>2, <2>3, <2>4 DEF Request
<1>3. CASE \E g \in Operators : Operate(g)
  BY <1>3 DEF Operate, ForceOpen, ForceClose
<1>4. CASE \E g \in Procs : Continue(g)
  <2>1. PICK g \in Procs : Continue(g)
    BY <1>4
  <2>2. CASE AllowLoadOpenTime(g)
    BY <1>1, <2>2 DEF AllowLoadOpenTime
  <2>3. CASE AllowSince(g)
    BY <1>1, <2>3 DEF AllowSince
  <2>4. CASE AllowCasHalfOpen(g)
    BY <1>1, <2>4 DEF AllowCasHalfOpen
  <2>5. CASE AllowResetSuccesses(g)
    BY <1>1, <2>5 DEF AllowResetSuccesses
  <2>6. CASE SuccessAdd(g)
    BY <1>1, <2>6 DEF SuccessAdd
  <2>7. CASE SuccessStoreClosed(g)
    BY <2>7 DEF SuccessStoreClosed
  <2>8. CASE ResetFailures(g)
    BY <2>8 DEF ResetFailures
  <2>9. CASE FailureCasFromClosed(g)
    BY <2>9 DEF FailureCasFromClosed, CasOpen
  <2>10. CASE FailureCasFromHalfOpen(g)
    BY <1>1, <2>10 DEF FailureCasFromHalfOpen, CasOpen
  <2>11. CASE ReadNow(g)
    BY <1>1, <2>11 DEF ReadNow
  <2>12. CASE StoreOpenTime(g)
    BY <1>1, <2>12 DEF StoreOpenTime
  <2>13. QED
    BY <2>1, <2>2, <2>3, <2>4, <2>5, <2>6, <2>7, <2>8, <2>9, <2>10, <2>11, <2>12
    DEF Continue
<1>5. CASE Tick
  BY <1>5 DEF Tick, TripPending
<1>6. CASE UNCHANGED vars
  BY <1>6 DEF vars, TripPending
<1>7. QED
  BY <1>2, <1>3, <1>4, <1>5, <1>6 DEF Next

\* In every reachable state a Closed circuit that shows MaxFailures failures
\* has its trip or its reset still to come.
THEOREM TripAlwaysPending == Spec => []TripPending
<1>1. Init => TripPending
  BY ConfigAssumption DEF Init, TripPending
<1>2. QED
  BY <1>1, TypeCorrect, TripPendingStep, PTL DEF Spec

\* No interleaving of RecordFailure, RecordSuccess, Allow, ForceOpen and
\* ForceClose loses a trip.
THEOREM TripsNeverMissed == Spec => []NoMissedTrip
<1>1. TripPending => NoMissedTrip
  BY DEF TripPending, NoMissedTrip, Quiescent
<1>2. QED
  BY <1>1, TripAlwaysPending, PTL

(***************************************************************************)
(* The pool.  Every open connection has exactly one owner, Close running   *)
(* beside Get and Put included.  OneOwner is about sets; the inductive     *)
(* Ownership is about the positions of the channel.                        *)
(***************************************************************************)

\* A connection is neither the nil of a closed channel nor nothing.
LEMMA ConnsAreReal ==
    /\ P!Nothing \notin P!Conns /\ P!NilConn \notin P!Conns
    /\ P!Conns \subseteq 0..P!NilConn /\ P!Nothing \in 0..P!NilConn /\ P!NilConn \in 0..P!NilConn
    /\ P!Nothing # P!NilConn
BY PoolAssumption DEF P!Nothing, P!NilConn, P!Conns

\* The positions of a channel after a receive are those of before but the first.
LEMMA TailPositions ==
    ASSUME conns \in Seq(P!Conns), conns # <<>>
    PROVE  /\ Head(conns) \in P!Conns /\ Head(conns) = conns[1] /\ 1 \in 1..Len(conns)
           /\ Tail(conns) \in Seq(P!Conns) /\ Len(Tail(conns)) = Len(conns) - 1
           /\ \A i \in 1..Len(Tail(conns)) : i + 1 \in 1..Len(conns) /\ Tail(conns)[i] = conns[i + 1]
           /\ \A i \in 1..Len(conns) : i # 1 =>
                 i - 1 \in 1..Len(Tail(conns)) /\ Tail(conns)[i - 1] = conns[i]
<1>1. Len(conns) \in Nat /\ Len(conns) # 0
  BY EmptySeq, LenProperties
<1>2. QED
  BY <1>1, HeadTailProperties

-----------------------------------------------------------------------------
\* Get: an idle connection changes hands, or nil is handed out.
LEMMA GetIdleStep ==
    ASSUME P!Ownership, NEW c \in Clients, P!GetIdle(c)
    PROVE  P!Ownership'
<1> USE DEF P!Ownership
<1>1. CASE conns # <<>>
  <2>1. /\ held' = [held EXCEPT ![c] = conns[1]] /\ conns' = Tail(conns) /\ held[c] = P!Nothing
        /\ UNCHANGED <<chanClosed, open, dialled, closer>>
    BY <1>1, TailPositions DEF P!GetIdle, P!Free
  <2>2. conns' \in Seq(P!Conns) /\ Len(conns') <= MaxIdle
    BY <1>1, <2>1, TailPositions, LenProperties, PoolAssumption
  <2>3. held' \in [Clients -> 0..P!NilConn]
    BY <1>1, <2>1, TailPositions, ConnsAreReal
  <2>4. \A i, j \in 1..Len(conns') : conns'[i] = conns'[j] => i = j
    BY <1>1, <2>1, TailPositions, LenProperties
  <2>5. \A i \in 1..Len(conns') : \A d \in Clients : conns'[i] # held'[d]
    BY <1>1, <2>1, TailPositions, LenProperties
  <2>6. \A d, e \in Clients : held'[d] = held'[e] /\ held'[d] \in P!Conns => d = e
    BY <1>1, <2>1, TailPositions, ConnsAreReal
  <2>7. \A i \in 1..Len(conns') : conns'[i] \in open'
    BY <1>1, <2>1, TailPositions
  <2>8. \A d \in Clients : held'[d] \in P!Conns => held'[d] \in open'
    BY <1>1, <2>1, TailPositions
  <2>9. ASSUME NEW x \in open'
        PROVE  /\ x \in 1..dialled'
               /\ (\E i \in 1..Len(conns') : conns'[i] = x) \/ (\E d \in Clients : held'[d] = x)
    <3>1. x \in 1..dialled /\ x # P!Nothing
      BY <2>1 DEF P!Nothing
    <3>2. CASE \E d \in Clients : held[d] = x
      BY <2>1, <3>1, <3>2
    <3>3. CASE \E i \in 1..Len(conns) : conns[i] = x
      <4>1. PICK i \in 1..Len(conns) : conns[i] = x
        BY <3>3
      <4>2. CASE i = 1
        BY <2>1, <3>1, <4>1, <4>2
      <4>3. CASE i # 1
        BY <1>1, <2>1, <3>1, <4>1, <4>3, TailPositions
      <4>4. QED
        BY <4>2, <4>3
    <3>4. QED
      BY <2>1, <3>2, <3>3
  <2>10. closer' # "returned"
    BY <1>1, <2>1
  <2>11. QED
    BY ZenonT(60), <2>1, <2>2, <2>3, <2>4, <2>5, <2>6, <2>7, <2>8, <2>9, <2>10
<1>2. CASE conns = <<>>
  <2>1. /\ held' = [held EXCEPT ![c] = P!NilConn] /\ held[c] = P!Nothing
        /\ UNCHANGED <<conns, chanClosed, open, dialled, closer>>
    BY <1>2 DEF P!GetIdle, P!Free
  <2>2. \A x \in open : x # P!Nothing
    BY DEF P!Nothing
  <2>3. Len(conns) = 0
    BY <1>2, EmptySeq
  <2>4. QED
    BY <2>1, <2>2, <2>3, ConnsAreReal
<1>3. QED
  BY Zenon, <1>1, <1>2

\* Get dials: the number of the new connection is nobody's yet.
LEMMA GetDialStep ==
    ASSUME P!Ownership, NEW c \in Clients, P!GetDial(c)
    PROVE  P!Ownership'
<1> USE DEF P!Ownership
<1> DEFINE new == dialled + 1
<1>1. /\ new \in P!Conns /\ new \notin open /\ held[c] = P!Nothing /\ new # P!Nothing
      /\ dialled' = new /\ open' = open \cup {new} /\ held' = [held EXCEPT ![c] = new]
      /\ conns = <<>> /\ UNCHANGED <<conns, chanClosed, closer>>
  BY PoolAssumption DEF P!GetDial, P!Free, P!Conns, P!Nothing
<1> HIDE DEF new
<1>2. Len(conns) = 0
  BY <1>1, EmptySeq
<1>3. dialled' \in 0..MaxDials /\ 1..dialled \subseteq 1..dialled' /\ new \in 1..dialled'
  BY <1>1, PoolAssumption DEF P!Conns, new
<1>4. held' \in [Clients -> 0..P!NilConn]
  BY <1>1, ConnsAreReal
<1>5. \A d, e \in Clients : held'[d] = held'[e] /\ held'[d] \in P!Conns => d = e
  BY <1>1
<1>6. \A d \in Clients : held'[d] \in P!Conns => held'[d] \in open'
  BY <1>1
<1>7. \A x \in open' : x \in 1..dialled' /\ \E d \in Clients : held'[d] = x
  <2>1. \A x \in open : x # P!Nothing
    BY DEF P!Nothing
  <2>2. QED
    BY <1>1, <1>2, <1>3, <2>1
<1>8. QED
  BY <1>1, <1>2, <1>3, <1>4, <1>5, <1>6, <1>7

\* Put: the connection waits in the channel, is closed, or stays with a client
\* whose send panicked.
LEMMA PutStep ==
    ASSUME P!Ownership, NEW c \in Clients, P!Put(c)
    PROVE  P!Ownership'
<1> USE DEF P!Ownership
<1>1. /\ held[c] # P!Nothing /\ c \notin panicked
      /\ held' = IF c \in panicked' THEN held ELSE [held EXCEPT ![c] = P!Nothing]
      /\ UNCHANGED <<chanClosed, dialled, closer>>
  BY DEF P!Put
<1>2. CASE held[c] = P!NilConn /\ UNCHANGED <<conns, open, panicked>>
  <2>1. P!NilConn \notin open
    BY PoolAssumption DEF P!NilConn
  <2>2. held' = [held EXCEPT ![c] = P!Nothing]
    BY <1>1, <1>2
  <2>3. \A i \in 1..Len(conns) : conns[i] \in P!Conns
    BY ElementOfSeq
  <2>4. \A i \in 1..Len(conns') : \A d \in Clients : conns'[i] # held'[d]
    BY <1>2, <2>2, <2>3, ConnsAreReal
  <2>5. \A d, e \in Clients : held'[d] = held'[e] /\ held'[d] \in P!Conns => d = e
    BY <2>2, ConnsAreReal
  <2>6. \A d \in Clients : held'[d] \in P!Conns => held'[d] \in open'
    BY <1>2, <2>2, ConnsAreReal
  <2>7. \A x \in open' : (\E i \in 1..Len(conns') : conns'[i] = x) \/ (\E d \in Clients : held'[d] = x)
    BY <1>2, <2>1, <2>2
  <2>8. held' \in [Clients -> 0..P!NilConn]
    BY <2>2, ConnsAreReal
  <2>9. UNCHANGED <<conns, open, dialled, chanClosed, closer>>
    BY Zenon, <1>1, <1>2
  <2>10. QED
    BY <2>4, <2>5, <2>6, <2>7, <2>8, <2>9
<1>3. CASE panicked' = panicked \cup {c} /\ UNCHANGED <<conns, open>>
  BY <1>1, <1>3
<1>4. CASE /\ held[c] \in P!Conns /\ ~chanClosed /\ Len(conns) < MaxIdle
           /\ conns' = Append(conns, held[c]) /\ UNCHANGED <<open, panicked>>
  <2>1. held' = [held EXCEPT ![c] = P!Nothing]
    BY <1>1, <1>4
  <2>2. /\ conns' \in Seq(P!Conns) /\ Len(conns') = Len(conns) + 1 /\ Len(conns) \in Nat
        /\ \A i \in 1..Len(conns) : conns'[i] = conns[i]
        /\ conns'[Len(conns) + 1] = held[c]
    BY SMTT(30), <1>4, AppendProperties, LenProperties
  <2>3. \A i \in 1..Len(conns') : i \in 1..Len(conns) \/ i = Len(conns) + 1
    BY <2>2
  <2>4. Len(conns') <= MaxIdle
    BY <1>4, <2>2, PoolAssumption
  <2>5. held' \in [Clients -> 0..P!NilConn]
    BY <2>1, ConnsAreReal
  <2>6. \A i, j \in 1..Len(conns') : conns'[i] = conns'[j] => i = j
    BY <2>2, <2>3
  <2>7. \A i \in 1..Len(conns') : \A d \in Clients : conns'[i] # held'[d]
    <3>1. \A i \in 1..Len(conns) : conns[i] \in P!Conns
      BY ElementOfSeq
    <3>2. QED
      BY <1>4, <2>1, <2>2, <2>3, <3>1, ConnsAreReal
  <2>8. \A d, e \in Clients : held'[d] = held'[e] /\ held'[d] \in P!Conns => d = e
    BY <2>1, ConnsAreReal
  <2>9. \A i \in 1..Len(conns') : conns'[i] \in open'
    BY <1>4, <2>2, <2>3
  <2>10. \A d \in Clients : held'[d] \in P!Conns => held'[d] \in open'
    BY <1>4, <2>1, ConnsAreReal
  <2>11. ASSUME NEW x \in open'
         PROVE  (\E i \in 1..Len(conns') : conns'[i] = x) \/ (\E d \in Clients : held'[d] = x)
    <3>1. CASE x = held[c]
      BY <2>2, <3>1
    <3>2. CASE x # held[c]
      BY <1>4, <2>1, <2>2, <3>2
    <3>3. QED
      BY <3>1, <3>2
  <2>12. closer' # "returned"
    BY <1>1, <1>4
  <2>13. QED
    BY ZenonT(60), <1>1, <1>4, <2>2, <2>4, <2>5, <2>6, <2>7, <2>8, <2>9, <2>10, <2>11, <2>12
<1>5. CASE /\ held[c] \in P!Conns /\ open' = open \ {held[c]} /\ UNCHANGED <<conns, panicked>>
  <2>1. held' = [held EXCEPT ![c] = P!Nothing]
    BY <1>1, <1>5
  <2>2. \A d \in Clients : held'[d] \in P!Conns => held'[d] \in open'
    BY <1>5, <2>1, ConnsAreReal
  <2>3. \A i \in 1..Len(conns) : conns[i] \in P!Conns
    BY ElementOfSeq
  <2>4. \A i \in 1..Len(conns') : \A d \in Clients : conns'[i] # held'[d]
    BY <1>5, <2>1, <2>3, ConnsAreReal
  <2>5. \A d, e \in Clients : held'[d] = held'[e] /\ held'[d] \in P!Conns => d = e
    BY <2>1, ConnsAreReal
  <2>6. held' \in [Clients -> 0..P!NilConn]
    BY <2>1, ConnsAreReal
  <2>7. \A x \in open' : (\E i \in 1..Len(conns') : conns'[i] = x) \/ (\E d \in Clients : held'[d] = x)
    BY <1>5, <2>1
  <2>8. \A i \in 1..Len(conns') : conns'[i] \in open'
    BY <1>5
  <2>9. /\ conns' \in Seq(P!Conns) /\ Len(conns') <= MaxIdle /\ dialled' \in 0..MaxDials
        /\ \A i, j \in 1..Len(conns') : conns'[i] = conns'[j] => i = j
        /\ chanClosed' \in BOOLEAN /\ closer' \in {"none", "draining", "returned"}
        /\ chanClosed' <=> closer' # "none"
        /\ closer' = "returned" => conns' = <<>>
    BY <1>1, <1>5
  <2>10. \A x \in open' : /\ x \in 1..dialled'
                          /\ (\E i \in 1..Len(conns') : conns'[i] = x) \/ (\E d \in Clients : held'[d] = x)
    BY Zenon, <1>1, <1>5, <2>7
  <2>11. QED
    BY Zenon, <2>2, <2>4, <2>5, <2>6, <2>8, <2>9, <2>10
<1>6. QED
  BY ZenonT(60), <1>2, <1>3, <1>4, <1>5 DEF P!Put

\* Close takes a connection from the channel and closes it.
LEMMA DrainStep ==
    ASSUME P!Ownership, P!Drain
    PROVE  P!Ownership'
<1> USE DEF P!Ownership
<1>1. CASE conns = <<>>
  BY SMTT(30), <1>1 DEF P!Drain
<1>2. CASE conns # <<>>
  <2>1. /\ conns' = Tail(conns) /\ open' = open \ {conns[1]}
        /\ UNCHANGED <<chanClosed, dialled, held, closer>> /\ closer # "returned"
    BY <1>2, TailPositions DEF P!Drain
  <2>2. conns' \in Seq(P!Conns) /\ Len(conns') <= MaxIdle
    BY <1>2, <2>1, TailPositions, LenProperties, PoolAssumption
  <2>3. \A i, j \in 1..Len(conns') : conns'[i] = conns'[j] => i = j
    BY <1>2, <2>1, TailPositions, LenProperties
  <2>4. \A i \in 1..Len(conns') : \A d \in Clients : conns'[i] # held'[d]
    BY <1>2, <2>1, TailPositions
  <2>5. \A i \in 1..Len(conns') : conns'[i] \in open'
    <3>1. \A i \in 1..Len(conns') : i + 1 \in 1..Len(conns) /\ i + 1 # 1 /\ conns'[i] = conns[i + 1]
      BY SMTT(30), <1>2, <2>1, TailPositions
    <3>2. QED
      BY SMTT(30), <1>2, <2>1, <3>1, TailPositions
  <2>6. \A d \in Clients : held'[d] \in P!Conns => held'[d] \in open'
    BY <1>2, <2>1, TailPositions
  <2>7. ASSUME NEW x \in open'
        PROVE  (\E i \in 1..Len(conns') : conns'[i] = x) \/ (\E d \in Clients : held'[d] = x)
    <3>1. CASE \E d \in Clients : held[d] = x
      BY <2>1, <3>1
    <3>2. CASE \E i \in 1..Len(conns) : conns[i] = x
      <4>1. PICK i \in 1..Len(conns) : conns[i] = x
        BY <3>2
      <4>2. i # 1
        BY <2>1, <4>1
      <4>3. QED
        BY ZenonT(60), <1>2, <2>1, <4>1, <4>2, TailPositions
    <3>3. QED
      BY <2>1, <3>1, <3>2
  <2>8. QED
    BY <2>1, <2>2, <2>3, <2>4, <2>5, <2>6, <2>7
<1>3. QED
  BY Zenon, <1>1, <1>2

\* Positions hold what the sets of OneOwner hold.
LEMMA OwnershipMeansOneOwner ==
    ASSUME P!Ownership
    PROVE  P!OneOwner
<1> USE DEF P!Ownership
<1>1. DOMAIN conns = 1..Len(conns) /\ Len(conns) \in Nat /\ conns \in [1..Len(conns) -> P!Conns]
  BY LenProperties
<1>2. P!Idle = {conns[i] : i \in 1..Len(conns)}
  BY <1>1 DEF P!Idle
<1>3. open = P!Idle \cup P!Held
  <2>1. \A x \in open : x \in P!Conns
    BY PoolAssumption DEF P!Conns
  <2>2. QED
    BY <1>2, <2>1 DEF P!Held
<1>4. P!Idle \cap P!Held = {}
  BY <1>2 DEF P!Held
<1>5. QED
  BY <1>1, <1>3, <1>4 DEF P!OneOwner

-----------------------------------------------------------------------------

LEMMA PoolBegins ==
    ASSUME P!Init
    PROVE  P!Ownership
<1>1. conns \in Seq(P!Conns) /\ Len(conns) = 0
  BY EmptySeq DEF P!Init
<1>2. held \in [Clients -> 0..P!NilConn] /\ \A c \in Clients : held[c] \notin P!Conns
  BY ConnsAreReal DEF P!Init
<1>3. Len(conns) <= MaxIdle /\ dialled \in 0..MaxDials
  BY <1>1, PoolAssumption DEF P!Init
<1>4. chanClosed \in BOOLEAN /\ (chanClosed <=> closer # "none") /\ closer = "none"
  BY Zenon DEF P!Init
<1>5. QED
  BY <1>1, <1>2, <1>3, <1>4 DEF P!Init, P!Ownership

LEMMA PoolKeeps ==
    ASSUME P!Ownership, [P!Next]_(P!vars)
    PROVE  P!Ownership'
<1>1. CASE \E c \in Clients : P!GetIdle(c) \/ P!GetDial(c) \/ P!Put(c) \/ P!CloseAgain(c)
  <2>1. PICK c \in Clients : P!GetIdle(c) \/ P!GetDial(c) \/ P!Put(c) \/ P!CloseAgain(c)
    BY Zenon, <1>1
  <2>2. CASE P!CloseAgain(c)
    <3>1. UNCHANGED <<conns, open, dialled, held, chanClosed, closer>>
      BY Zenon, <2>2 DEF P!CloseAgain
    <3>2. QED
      BY SMTT(30), <3>1 DEF P!Ownership
  <2>3. QED
    BY Zenon, <2>1, <2>2, GetIdleStep, GetDialStep, PutStep
<1>2. CASE P!Close
  BY SMTT(30), <1>2 DEF P!Close, P!Ownership
<1>3. CASE P!Drain
  BY Zenon, <1>3, DrainStep
<1>4. CASE UNCHANGED P!vars
  BY SMTT(30), <1>4 DEF P!vars, P!Ownership
<1>5. QED
  BY Zenon, <1>1, <1>2, <1>3, <1>4 DEF P!Next

\* However Get, Put and Close interleave, every open connection has exactly one
\* owner, no idle one is lost, and none is left when Close has returned
\* (client_pool.go).
THEOREM ConnectionsHaveOneOwner == ConnectionsSpec => []OneOwner
<1> DEFINE Inv == which = "pool" => P!Ownership
<1>1. ConnectionsInit => Inv
  BY Zenon, PoolBegins DEF ConnectionsInit
<1>2. Inv /\ [ConnectionsNext]_connectionVars => Inv'
  <2> SUFFICES ASSUME Inv, [ConnectionsNext]_connectionVars, which' = "pool"
               PROVE  P!Ownership'
    BY Zenon
  <2>1. which = "pool" /\ [P!Next]_(P!vars)
    BY Zenon DEF ConnectionsNext, PoolStep, ShmStep, QuicStep, connectionVars, poolVars, P!vars
  <2>2. QED
    BY Zenon, <2>1, PoolKeeps
<1>3. Inv => OneOwner
  BY Zenon, OwnershipMeansOneOwner DEF OneOwner
<1>4. QED
  BY <1>1, <1>2, <1>3, PTL DEF ConnectionsSpec

-----------------------------------------------------------------------------
(***************************************************************************)
(* Shared memory.  A message on its way (copied, signalled, or its header  *)
(* read) that is still clean is what the file holds from its first byte    *)
(* on, whichever end it is at; this is what a Read then copies.            *)
(***************************************************************************)

Message == [id : Nat, length : Nat, clean : BOOLEAN]

\* What is known of a message on its way while the file has these bytes.
Faithful(m, file) ==
    /\ m \in Message
    /\ m # S!NoMsg => m.id # 0 /\ m.length <= ShmSize
    /\ m.clean /\ m.id # 0 => \A i \in 1..m.length : file[i] = m.id

AllFaithful(msgs, file) == DOMAIN msgs = S!Ends /\ \A e \in S!Ends : Faithful(msgs[e], file)

QueueFaithful(queue, file) ==
    queue \in Seq(Message) /\ \A i \in 1..Len(queue) : Faithful(queue[i], file)

QueuesFaithful(queues, file) ==
    DOMAIN queues = S!Ends /\ \A e \in S!Ends : QueueFaithful(queues[e], file)

ReadRight(r) ==
    /\ r.msg.clean => \A i \in DOMAIN r.bytes : r.bytes[i] = r.msg.id
    /\ Len(r.bytes) <= r.msg.length
    /\ r.bytes = <<>> => r.msg.length = 0

AllReadRight(results) == DOMAIN results = S!Ends /\ \A e \in S!Ends : ReadRight(results[e])

ShmInv ==
    /\ mem \in [1..ShmSize -> Nat] /\ sent \in Nat
    /\ AllFaithful(out, mem) /\ AllFaithful(header, mem) /\ QueuesFaithful(signal, mem)
    /\ AllReadRight(got)

LEMMA NothingIsFaithful ==
    ASSUME NEW file
    PROVE  Faithful(S!NoMsg, file)
BY DEF Faithful, Message, S!NoMsg

\* A soiled message promises nothing about the bytes of the file.
LEMMA SoiledIsFaithful ==
    ASSUME NEW before, NEW after, NEW m, Faithful(m, before)
    PROVE  Faithful(S!Soiled(m), after)
<1>1. CASE m = S!NoMsg
  <2>1. (m.id = 0) = TRUE
    BY <1>1 DEF S!NoMsg
  <2>2. S!Soiled(m) = [S!NoMsg EXCEPT !.clean = TRUE]
    BY Zenon, <1>1, <2>1 DEF S!Soiled
  <2>3. ASSUME NEW r \in Message, NEW b \in BOOLEAN
        PROVE  /\ [r EXCEPT !.clean = b] \in Message
               /\ [r EXCEPT !.clean = b].id = r.id /\ [r EXCEPT !.clean = b].length = r.length
               /\ [r EXCEPT !.clean = b].clean = b
    BY DEF Message
  <2>4. ASSUME NEW r \in Message, NEW q \in Message, r.id = q.id, r.length = q.length, r.clean = q.clean
        PROVE  r = q
    BY <2>4 DEF Message
  <2>5. S!NoMsg \in Message /\ S!NoMsg.clean = TRUE
    BY DEF S!NoMsg, Message
  <2>6. [S!NoMsg EXCEPT !.clean = TRUE] = S!NoMsg
    BY Zenon, <2>3, <2>4, <2>5
  <2>7. QED
    BY Zenon, <2>2, <2>6, NothingIsFaithful
<1>2. CASE m # S!NoMsg
  BY Zenon, <1>2 DEF Faithful, Message, S!Soiled
<1>3. QED
  BY Zenon, <1>1, <1>2

LEMMA SoiledQueueIsFaithful ==
    ASSUME NEW before, NEW after, NEW queue, QueueFaithful(queue, before)
    PROVE  QueueFaithful([i \in DOMAIN queue |-> S!Soiled(queue[i])], after)
<1> DEFINE soiled == [i \in 1..Len(queue) |-> S!Soiled(queue[i])]
<1>1. DOMAIN queue = 1..Len(queue) /\ Len(queue) \in Nat
  BY LenProperties DEF QueueFaithful
<1>2. \A i \in 1..Len(queue) : Faithful(S!Soiled(queue[i]), after)
  BY Zenon, SoiledIsFaithful DEF QueueFaithful
<1>3. \A i \in 1..Len(queue) : S!Soiled(queue[i]) \in Message
  BY Zenon, <1>2 DEF Faithful
<1>4. soiled \in Seq(Message) /\ Len(soiled) = Len(queue)
  BY <1>1, <1>3
<1>5. QueueFaithful(soiled, after)
  BY Zenon, <1>2, <1>4 DEF QueueFaithful
<1>6. QED
  BY Zenon, <1>1, <1>5

\* A write of the file, whatever it writes, leaves what is on its way faithful.
LEMMA OverwrittenStaysFaithful ==
    ASSUME ShmInv, S!Overwritten, NEW file
    PROVE  AllFaithful(header', file) /\ QueuesFaithful(signal', file)
<1>1. \A e \in S!Ends : Faithful(S!Soiled(header[e]), file)
  BY Zenon, SoiledIsFaithful DEF ShmInv, AllFaithful
<1>2. \A e \in S!Ends : QueueFaithful([i \in DOMAIN signal[e] |-> S!Soiled(signal[e][i])], file)
  BY Zenon, SoiledQueueIsFaithful DEF ShmInv, QueuesFaithful
<1>3. QED
  BY Zenon, <1>1, <1>2 DEF S!Overwritten, AllFaithful, QueuesFaithful

\* Another message at one end.
LEMMA FaithfulAt ==
    ASSUME NEW msgs, NEW file, AllFaithful(msgs, file), NEW e \in S!Ends, NEW m, Faithful(m, file)
    PROVE  AllFaithful([msgs EXCEPT ![e] = m], file)
BY Zenon DEF AllFaithful

LEMMA QueueFaithfulAt ==
    ASSUME NEW queues, NEW file, QueuesFaithful(queues, file), NEW e \in S!Ends,
           NEW queue, QueueFaithful(queue, file)
    PROVE  QueuesFaithful([queues EXCEPT ![e] = queue], file)
BY Zenon DEF QueuesFaithful

LEMMA QueueGrows ==
    ASSUME NEW queue, NEW file, QueueFaithful(queue, file), NEW m, Faithful(m, file)
    PROVE  QueueFaithful(Append(queue, m), file)
<1>1. m \in Message /\ queue \in Seq(Message) /\ Len(queue) \in Nat
  BY LenProperties DEF QueueFaithful, Faithful
<1>2. /\ Append(queue, m) \in Seq(Message) /\ Len(Append(queue, m)) = Len(queue) + 1
      /\ \A i \in 1..Len(queue) : Append(queue, m)[i] = queue[i]
      /\ Append(queue, m)[Len(queue) + 1] = m
  BY <1>1, AppendProperties
<1>3. \A i \in 1..(Len(queue) + 1) : i \in 1..Len(queue) \/ i = Len(queue) + 1
  BY <1>1
<1>4. QED
  BY Zenon, <1>2, <1>3 DEF QueueFaithful

LEMMA QueueShrinks ==
    ASSUME NEW queue, NEW file, QueueFaithful(queue, file), queue # <<>>
    PROVE  Faithful(Head(queue), file) /\ QueueFaithful(Tail(queue), file)
<1>1. queue \in Seq(Message) /\ Len(queue) \in Nat /\ Len(queue) # 0
  BY LenProperties, EmptySeq DEF QueueFaithful
<1>2. /\ Head(queue) = queue[1] /\ 1 \in 1..Len(queue)
      /\ Tail(queue) \in Seq(Message) /\ Len(Tail(queue)) = Len(queue) - 1
      /\ \A i \in 1..Len(Tail(queue)) : i + 1 \in 1..Len(queue) /\ Tail(queue)[i] = queue[i + 1]
  BY <1>1, HeadTailProperties
<1>3. QED
  BY Zenon, <1>2 DEF QueueFaithful

\* An end and its other end.
LEMMA OtherIsEnd ==
    ASSUME NEW e \in S!Ends
    PROVE  S!Other(e) \in S!Ends
BY DEF S!Ends, S!Other, S!Sides

LEMMA WriteCopyKeeps ==
    ASSUME ShmInv, NEW e \in S!Ends, NEW n \in Lengths, S!WriteCopy(e, n)
    PROVE  ShmInv'
<1> DEFINE new == [id |-> sent + 1, length |-> n, clean |-> TRUE]
<1>1. /\ n \in Nat /\ n <= ShmSize /\ ShmSize \in Nat /\ sent \in Nat
      /\ sent' = sent + 1 /\ mem \in [1..ShmSize -> Nat]
      /\ mem' = [i \in 1..ShmSize |-> IF i <= n THEN sent + 1 ELSE mem[i]]
  BY ShmAssumption DEF ShmInv, S!WriteCopy
<1>2. mem' \in [1..ShmSize -> Nat] /\ sent' \in Nat
  BY <1>1
<1>3. Faithful(new, mem')
  <2>1. new \in Message /\ new.id # 0 /\ new.length <= ShmSize
    BY <1>1 DEF Message
  <2>2. \A i \in 1..n : mem'[i] = sent + 1
    BY <1>1
  <2>3. QED
    BY Zenon, <2>1, <2>2 DEF Faithful
<1>4. out' = [f \in S!Ends |-> IF f = e THEN new ELSE S!Soiled(out[f])]
  BY Zenon, <1>1 DEF S!WriteCopy
<1>5. AllFaithful(out', mem')
  <2>1. \A f \in S!Ends : Faithful(S!Soiled(out[f]), mem')
    BY Zenon, SoiledIsFaithful DEF ShmInv, AllFaithful
  <2> HIDE DEF new
  <2>2. QED
    BY Zenon, <1>3, <1>4, <2>1 DEF AllFaithful
<1>6. AllFaithful(header', mem') /\ QueuesFaithful(signal', mem')
  BY Zenon, OverwrittenStaysFaithful DEF S!WriteCopy
<1>7. AllReadRight(got')
  BY Zenon DEF ShmInv, S!WriteCopy
<1>8. QED
  BY Zenon, <1>2, <1>5, <1>6, <1>7 DEF ShmInv

LEMMA AcceptKeeps ==
    ASSUME ShmInv, S!Accept
    PROVE  ShmInv'
<1>1. mem' \in [1..ShmSize -> Nat] /\ sent' \in Nat
  BY DEF ShmInv, S!Accept, S!Blank
<1>2. AllFaithful(out', mem')
  <2>1. \A f \in S!Ends : Faithful(S!Soiled(out[f]), mem')
    BY Zenon, SoiledIsFaithful DEF ShmInv, AllFaithful
  <2>2. QED
    BY Zenon, <2>1 DEF AllFaithful, S!Accept
<1>3. AllFaithful(header', mem') /\ QueuesFaithful(signal', mem')
  BY Zenon, OverwrittenStaysFaithful DEF S!Accept
<1>4. AllReadRight(got')
  BY Zenon DEF ShmInv, S!Accept
<1>5. QED
  BY Zenon, <1>1, <1>2, <1>3, <1>4 DEF ShmInv

LEMMA WriteSignalKeeps ==
    ASSUME ShmInv, NEW e \in S!Ends, S!WriteSignal(e)
    PROVE  ShmInv'
<1>1. UNCHANGED <<mem, sent, header, got>> /\ out' = [out EXCEPT ![e] = S!NoMsg]
  BY Zenon DEF S!WriteSignal
<1>2. AllFaithful(out', mem)
  BY Zenon, <1>1, FaithfulAt, NothingIsFaithful DEF ShmInv
<1>3. QueueFaithful(Append(signal[S!Other(e)], out[e]), mem)
  BY Zenon, QueueGrows, OtherIsEnd DEF ShmInv, AllFaithful, QueuesFaithful
<1>4. QueuesFaithful(signal', mem)
  BY Zenon, <1>3, QueueFaithfulAt, OtherIsEnd DEF ShmInv, S!WriteSignal
<1>5. QED
  BY Zenon, <1>1, <1>2, <1>4 DEF ShmInv

LEMMA ReadHeaderKeeps ==
    ASSUME ShmInv, NEW e \in S!Ends, S!ReadHeader(e)
    PROVE  ShmInv'
<1>1. /\ UNCHANGED <<mem, sent, out, got>> /\ signal[e] # <<>>
      /\ header' = [header EXCEPT ![e] = Head(signal[e])]
      /\ signal' = [signal EXCEPT ![e] = Tail(signal[e])]
  BY Zenon DEF S!ReadHeader
<1>2. Faithful(Head(signal[e]), mem) /\ QueueFaithful(Tail(signal[e]), mem)
  BY Zenon, <1>1, QueueShrinks DEF ShmInv, QueuesFaithful
<1>3. AllFaithful(header', mem) /\ QueuesFaithful(signal', mem)
  BY Zenon, <1>1, <1>2, FaithfulAt, QueueFaithfulAt DEF ShmInv
<1>4. QED
  BY Zenon, <1>1, <1>3 DEF ShmInv

\* What Read copies from the file is the message of its header.
LEMMA CopyIsRight ==
    ASSUME NEW file \in [1..ShmSize -> Nat], NEW m, Faithful(m, file), m # S!NoMsg,
           NEW n \in Nat, n <= m.length, n = 0 => m.length = 0
    PROVE  ReadRight([msg |-> m, bytes |-> SubSeq(file, 1, n)])
<1>1. m \in Message /\ m.length \in Nat /\ m.length <= ShmSize /\ m.id # 0 /\ ShmSize \in Nat
  BY ShmAssumption DEF Faithful, Message
<1>2. n <= ShmSize
  BY <1>1
<1>3. file \in Seq(Nat) /\ Len(file) = ShmSize
  BY <1>1
<1>4. /\ SubSeq(file, 1, n) \in Seq(Nat) /\ Len(SubSeq(file, 1, n)) = n
      /\ \A i \in 1..n : SubSeq(file, 1, n)[i] = file[i]
  BY SMTT(30), <1>1, <1>2, <1>3, SubSeqProperties
<1>5. DOMAIN SubSeq(file, 1, n) = 1..n
  BY <1>4, LenProperties
<1>6. m.clean => \A i \in 1..n : SubSeq(file, 1, n)[i] = m.id
  BY <1>1, <1>4 DEF Faithful
<1>7. SubSeq(file, 1, n) = <<>> => m.length = 0
  BY Zenon, <1>4, EmptySeq
<1> DEFINE r == [msg |-> m, bytes |-> SubSeq(file, 1, n)]
<1>8. r.msg = m /\ r.bytes = SubSeq(file, 1, n)
  BY Zenon
<1> HIDE DEF r
<1>9. ReadRight(r)
  BY <1>4, <1>5, <1>6, <1>7, <1>8 DEF ReadRight
<1>10. QED
  BY Zenon, <1>9 DEF r

LEMMA ReadCopyKeeps ==
    ASSUME ShmInv, NEW e \in S!Ends, NEW buf \in Buffers, S!ReadCopy(e, buf)
    PROVE  ShmInv'
<1> DEFINE n == IF header[e].length < buf THEN header[e].length ELSE buf
<1>1. UNCHANGED <<mem, sent, out, signal>> /\ header' = [header EXCEPT ![e] = S!NoMsg] /\ header[e] # S!NoMsg
  BY Zenon DEF S!ReadCopy
<1>2. AllFaithful(header', mem)
  BY Zenon, <1>1, FaithfulAt, NothingIsFaithful DEF ShmInv
<1>3. Faithful(header[e], mem) /\ mem \in [1..ShmSize -> Nat]
  BY Zenon DEF ShmInv, AllFaithful
<1>4. n \in Nat /\ n <= header[e].length /\ (n = 0 => header[e].length = 0)
  BY SMTT(30), <1>3, ShmAssumption DEF Faithful, Message
<1>5. \/ UNCHANGED got
      \/ got' = [got EXCEPT ![e] = [msg |-> header[e], bytes |-> SubSeq(mem, 1, n)]]
  BY Zenon DEF S!ReadCopy
<1> HIDE DEF n
<1>6. ReadRight([msg |-> header[e], bytes |-> SubSeq(mem, 1, n)])
  BY Zenon, <1>1, <1>3, <1>4, CopyIsRight
<1>7. AllReadRight(got')
  <2>1. DOMAIN got = S!Ends /\ \A f \in S!Ends : ReadRight(got[f])
    BY Zenon DEF ShmInv, AllReadRight
  <2>2. QED
    BY Zenon, <1>5, <1>6, <2>1 DEF AllReadRight
<1>8. QED
  BY Zenon, <1>1, <1>2, <1>7 DEF ShmInv

LEMMA ShmKeeps ==
    ASSUME ShmInv, [S!Next]_(S!vars)
    PROVE  ShmInv'
<1>1. CASE UNCHANGED S!vars
  BY Zenon, <1>1 DEF S!vars, ShmInv
<1>2. ASSUME NEW e \in S!Ends, S!Close(e)
      PROVE  ShmInv'
  BY Zenon, <1>2 DEF S!Close, ShmInv
<1>3. QED
  BY Zenon, <1>1, <1>2, AcceptKeeps, WriteCopyKeeps, WriteSignalKeeps, ReadHeaderKeeps, ReadCopyKeeps DEF S!Next

LEMMA ShmBegins ==
    ASSUME S!Init
    PROVE  ShmInv
<1>1. mem \in [1..ShmSize -> Nat] /\ sent \in Nat
  BY DEF S!Init, S!Blank
<1>2. AllFaithful(out, mem) /\ AllFaithful(header, mem)
  BY Zenon, NothingIsFaithful DEF S!Init, AllFaithful
<1>3. QueueFaithful(<<>>, mem)
  BY DEF QueueFaithful
<1>4. QueuesFaithful(signal, mem)
  BY Zenon, <1>3 DEF S!Init, QueuesFaithful
<1>5. ReadRight(S!NothingRead)
  BY DEF ReadRight, S!NothingRead, S!NoMsg
<1>6. AllReadRight(got)
  BY Zenon, <1>5 DEF S!Init, AllReadRight
<1>7. QED
  BY Zenon, <1>1, <1>2, <1>4, <1>6 DEF ShmInv

\* Whatever the ends write and read, and however many connections share the
\* file, a message that was not overwritten is read as it was written, for
\* every size of the file, of the messages and of the readers' slices
\* (shm_transport.go, Write and Read).
THEOREM MessagesReadAsWritten == ConnectionsSpec => []PingPongIntact
<1> DEFINE Inv == which = "shm" => ShmInv
<1>1. ConnectionsInit => Inv
  BY Zenon, ShmBegins DEF ConnectionsInit
<1>2. Inv /\ [ConnectionsNext]_connectionVars => Inv'
  <2> SUFFICES ASSUME Inv, [ConnectionsNext]_connectionVars, which' = "shm"
               PROVE  ShmInv'
    BY Zenon
  <2>1. which = "shm" /\ [S!Next]_(S!vars)
    BY Zenon DEF ConnectionsNext, PoolStep, ShmStep, QuicStep, connectionVars, shmVars, S!vars
  <2>2. QED
    BY Zenon, <2>1, ShmKeeps
<1>3. Inv => PingPongIntact
  BY Zenon DEF PingPongIntact, S!PingPongIntact, ShmInv, AllReadRight, ReadRight
<1>4. QED
  BY <1>1, <1>2, <1>3, PTL DEF ConnectionsSpec

-----------------------------------------------------------------------------
(***************************************************************************)
(* QUIC.  For one stream: the datagrams in its channel are whole, numbered *)
(* upwards and later than what was read; what is left over is the rest of  *)
(* the datagram read last.  top bounds every number of the stream.         *)
(***************************************************************************)

Byte == [dgram : Nat, byte : {1, 2}]
Number(packet) == packet[1].dgram
Latest(seen) == seen[Len(seen)]

InOrder(seen) ==
    \A i \in 1..(Len(seen) - 1) :
        /\ Q!Position(seen[i]) < Q!Position(seen[i + 1])
        /\ seen[i].byte = 1 => seen[i + 1] = [seen[i] EXCEPT !.byte = 2]
        /\ seen[i].byte = 2 => seen[i + 1].byte = 1

Waiting(chan, top) ==
    /\ chan \in Seq(Byte \X Byte)
    /\ \A i \in 1..Len(chan) : chan[i] = Q!Bytes(Number(chan[i])) /\ Number(chan[i]) <= top
    /\ \A i, j \in 1..Len(chan) : i < j => Number(chan[i]) < Number(chan[j])

ReadSoFar(chan, left, seen, top) ==
    /\ seen \in Seq(Byte) /\ InOrder(seen)
    /\ seen # <<>> =>
          /\ Latest(seen).dgram <= top
          /\ \A i \in 1..Len(chan) : Latest(seen).dgram < Number(chan[i])
    /\ left = <<>> => seen = <<>> \/ Latest(seen).byte = 2
    /\ left # <<>> =>
          /\ seen # <<>> /\ Latest(seen).byte = 1
          /\ left = <<[dgram |-> Latest(seen).dgram, byte |-> 2]>>

Stream(chan, left, seen, top) == Waiting(chan, top) /\ ReadSoFar(chan, left, seen, top)

\* readLoop has a datagram in hand, which no stream has yet.
InHand == loop \in {"lock", "publish", "deliver"}
Top == IF InHand THEN received - 1 ELSE received

QuicInv ==
    /\ received \in Nat
    /\ InHand => received > 0 /\ datagram \in StreamKeys
    /\ DOMAIN readChan = StreamKeys /\ DOMAIN leftover = StreamKeys /\ DOMAIN data = StreamKeys
    /\ \A k \in StreamKeys : Stream(readChan[k], leftover[k], data[k], Top)

\* The two bytes of a datagram.
LEMMA TwoBytes ==
    ASSUME NEW n \in Nat
    PROVE  /\ Q!Bytes(n) \in Byte \X Byte /\ Number(Q!Bytes(n)) = n
           /\ Q!Bytes(n) = <<[dgram |-> n, byte |-> 1], [dgram |-> n, byte |-> 2]>>
BY DEF Q!Bytes, Byte, Number

LEMMA NumbersAreNaturals ==
    ASSUME NEW chan, NEW top, Waiting(chan, top)
    PROVE  /\ Len(chan) \in Nat
           /\ \A i \in 1..Len(chan) : Number(chan[i]) \in Nat
<1>1. chan \in Seq(Byte \X Byte) /\ Len(chan) \in Nat
  BY LenProperties DEF Waiting
<1>2. ASSUME NEW p \in Byte \X Byte
      PROVE  Number(p) \in Nat
  BY DEF Byte, Number
<1>3. \A i \in 1..Len(chan) : chan[i] \in Byte \X Byte
  BY <1>1, ElementOfSeq
<1>4. QED
  BY Zenon, <1>1, <1>2, <1>3

\* readLoop delivers a datagram later than all the stream has.
LEMMA StreamGrows ==
    ASSUME NEW chan, NEW left, NEW seen, NEW top \in Nat, Stream(chan, left, seen, top)
    PROVE  Stream(Append(chan, Q!Bytes(top + 1)), left, seen, top + 1)
<1> DEFINE p == Q!Bytes(top + 1)
           more == Append(chan, p)
<1>1. p \in Byte \X Byte /\ Number(p) = top + 1 /\ p = Q!Bytes(Number(p))
  BY TwoBytes
<1>2. chan \in Seq(Byte \X Byte) /\ Len(chan) \in Nat /\ \A i \in 1..Len(chan) : Number(chan[i]) \in Nat
  BY Zenon, NumbersAreNaturals DEF Stream, Waiting
<1> HIDE DEF p
<1>3. /\ more \in Seq(Byte \X Byte) /\ Len(more) = Len(chan) + 1
      /\ \A i \in 1..Len(chan) : more[i] = chan[i]
      /\ more[Len(chan) + 1] = p
  BY SMTT(30), <1>1, <1>2, AppendProperties
<1> HIDE DEF more
<1>4. \A i \in 1..Len(more) : i \in 1..Len(chan) \/ i = Len(chan) + 1
  BY SMTT(30), <1>2, <1>3
<1>5. \A i \in 1..Len(more) : more[i] = Q!Bytes(Number(more[i]))
  BY Zenon, <1>1, <1>3, <1>4 DEF Stream, Waiting
<1>6. \A i \in 1..Len(chan) : Number(chan[i]) <= top
  BY Zenon DEF Stream, Waiting
<1>7. \A i \in 1..Len(more) : Number(more[i]) <= top + 1
  BY SMTT(30), <1>1, <1>2, <1>3, <1>4, <1>6
<1>8. \A i, j \in 1..Len(chan) : i < j => Number(chan[i]) < Number(chan[j])
  BY Zenon DEF Stream, Waiting
<1>9. \A i, j \in 1..Len(more) : i < j => Number(more[i]) < Number(more[j])
  BY SMTT(30), <1>1, <1>2, <1>3, <1>4, <1>6, <1>8
<1>10. Waiting(more, top + 1)
  BY Zenon, <1>3, <1>5, <1>7, <1>9 DEF Waiting
<1>11. seen # <<>> => /\ Latest(seen).dgram <= top + 1
                      /\ \A i \in 1..Len(more) : Latest(seen).dgram < Number(more[i])
  <2> SUFFICES ASSUME seen # <<>>
               PROVE  /\ Latest(seen).dgram <= top + 1
                      /\ \A i \in 1..Len(more) : Latest(seen).dgram < Number(more[i])
    BY Zenon
  <2>1. Latest(seen) \in Byte
    <3>1. seen \in Seq(Byte) /\ Len(seen) \in Nat /\ Len(seen) # 0
      BY EmptySeq, LenProperties DEF Stream, ReadSoFar
    <3>2. QED
      BY <3>1, ElementOfSeq DEF Latest
  <2>2. Latest(seen).dgram \in Nat
    BY <2>1 DEF Byte
  <2>3. Latest(seen).dgram <= top /\ \A i \in 1..Len(chan) : Latest(seen).dgram < Number(chan[i])
    BY Zenon DEF Stream, ReadSoFar
  <2>4. QED
    BY SMTT(30), <1>1, <1>3, <1>4, <2>2, <2>3
<1>12. ReadSoFar(more, left, seen, top + 1)
  BY Zenon, <1>11 DEF Stream, ReadSoFar
<1>13. QED
  BY Zenon, <1>10, <1>12 DEF Stream, more, p

\* The bytes b are read next.
LEMMA ReadsInOrder ==
    ASSUME NEW seen \in Seq(Byte), InOrder(seen), NEW b \in Byte,
           seen # <<>> => /\ Q!Position(Latest(seen)) < Q!Position(b)
                          /\ Latest(seen).byte = 1 => b = [Latest(seen) EXCEPT !.byte = 2]
                          /\ Latest(seen).byte = 2 => b.byte = 1
    PROVE  /\ Append(seen, b) \in Seq(Byte) /\ InOrder(Append(seen, b))
           /\ Latest(Append(seen, b)) = b /\ Append(seen, b) # <<>>
<1> DEFINE more == Append(seen, b)
<1>1. /\ more \in Seq(Byte) /\ Len(more) = Len(seen) + 1 /\ Len(seen) \in Nat
      /\ \A i \in 1..Len(seen) : more[i] = seen[i]
      /\ more[Len(seen) + 1] = b
  BY AppendProperties, LenProperties
<1> HIDE DEF more
<1>2. Latest(more) = b /\ more # <<>>
  BY <1>1, EmptySeq DEF Latest
<1>3. ASSUME NEW i \in 1..(Len(more) - 1)
      PROVE  /\ Q!Position(more[i]) < Q!Position(more[i + 1])
             /\ more[i].byte = 1 => more[i + 1] = [more[i] EXCEPT !.byte = 2]
             /\ more[i].byte = 2 => more[i + 1].byte = 1
  <2>1. CASE i = Len(seen)
    <3>1. seen # <<>> /\ more[i] = Latest(seen) /\ more[i + 1] = b
      BY <1>1, <2>1, EmptySeq DEF Latest
    <3>2. QED
      BY Zenon, <3>1
  <2>2. CASE i # Len(seen)
    <3>1. i \in 1..(Len(seen) - 1) /\ more[i] = seen[i] /\ more[i + 1] = seen[i + 1]
      BY <1>1, <2>2
    <3>2. QED
      BY Zenon, <3>1 DEF InOrder
  <2>3. QED
    BY Zenon, <2>1, <2>2
<1>4. InOrder(more)
  BY Zenon, <1>3 DEF InOrder
<1>5. QED
  BY Zenon, <1>1, <1>2, <1>4 DEF more


First(n) == [dgram |-> n, byte |-> 1]
Second(n) == [dgram |-> n, byte |-> 2]

LEMMA BytesOrdered ==
    ASSUME NEW n \in Nat
    PROVE  /\ First(n) \in Byte /\ Second(n) \in Byte
           /\ First(n).byte = 1 /\ Second(n).byte = 2 /\ First(n).dgram = n /\ Second(n).dgram = n
           /\ Q!Position(First(n)) < Q!Position(Second(n))
           /\ Second(n) = [First(n) EXCEPT !.byte = 2]
           /\ \A b \in Byte : b.dgram < n => Q!Position(b) < Q!Position(First(n))
<1>1. /\ First(n) \in Byte /\ Second(n) \in Byte
      /\ First(n).byte = 1 /\ Second(n).byte = 2 /\ First(n).dgram = n /\ Second(n).dgram = n
  BY DEF Byte, First, Second
<1>2. Q!Position(First(n)) = 2 * n + 1 /\ Q!Position(Second(n)) = 2 * n + 2
  BY <1>1 DEF Q!Position
<1>3. Second(n) = [First(n) EXCEPT !.byte = 2]
  BY DEF First, Second
<1>4. ASSUME NEW b \in Byte, b.dgram < n
      PROVE  Q!Position(b) < Q!Position(First(n))
  <2>1. b.dgram \in Nat /\ b.byte \in {1, 2}
    BY DEF Byte
  <2>2. Q!Position(b) = 2 * b.dgram + b.byte
    BY Zenon DEF Q!Position
  <2>3. QED
    BY <1>2, <1>4, <2>1, <2>2
<1>5. Q!Position(First(n)) < Q!Position(Second(n))
  BY <1>2
<1>6. QED
  BY Zenon, <1>1, <1>3, <1>4, <1>5

\* The first datagram leaves the channel.
LEMMA WaitingShrinks ==
    ASSUME NEW chan, NEW top, Waiting(chan, top), chan # <<>>
    PROVE  /\ Waiting(Tail(chan), top) /\ 1 \in 1..Len(chan)
           /\ Head(chan) = Q!Bytes(Number(chan[1])) /\ Number(chan[1]) \in Nat /\ Number(chan[1]) <= top
           /\ \A i \in 1..Len(Tail(chan)) : Number(chan[1]) < Number(Tail(chan)[i])
<1> DEFINE rest == Tail(chan)
<1>1. chan \in Seq(Byte \X Byte) /\ Len(chan) \in Nat /\ Len(chan) # 0
  BY LenProperties, EmptySeq DEF Waiting
<1>2. /\ Head(chan) = chan[1] /\ 1 \in 1..Len(chan)
      /\ rest \in Seq(Byte \X Byte) /\ Len(rest) = Len(chan) - 1
      /\ \A i \in 1..Len(rest) : i + 1 \in 1..Len(chan) /\ rest[i] = chan[i + 1]
  BY <1>1, HeadTailProperties
<1> HIDE DEF rest
<1>3. Number(chan[1]) \in Nat
  BY Zenon, <1>2, NumbersAreNaturals
<1>4. \A i \in 1..Len(rest) : rest[i] = Q!Bytes(Number(rest[i])) /\ Number(rest[i]) <= top
  BY Zenon, <1>2 DEF Waiting
<1>5. \A i, j \in 1..Len(chan) : i < j => Number(chan[i]) < Number(chan[j])
  BY Zenon DEF Waiting
<1>6. \A i, j \in 1..Len(rest) : i < j => i + 1 < j + 1
  BY <1>1, <1>2
<1>7. \A i, j \in 1..Len(rest) : i < j => Number(rest[i]) < Number(rest[j])
  BY Zenon, <1>2, <1>5, <1>6
<1>8. \A i \in 1..Len(rest) : 1 < i + 1
  BY <1>1, <1>2
<1>9. \A i \in 1..Len(rest) : Number(chan[1]) < Number(rest[i])
  BY Zenon, <1>2, <1>5, <1>8
<1>10. Waiting(rest, top)
  BY Zenon, <1>2, <1>4, <1>7 DEF Waiting
<1>11. Head(chan) = Q!Bytes(Number(chan[1])) /\ Number(chan[1]) <= top
  BY Zenon, <1>2 DEF Waiting
<1>12. QED
  BY Zenon, <1>2, <1>3, <1>9, <1>10, <1>11 DEF rest

\* The first byte of the next datagram is read.
LEMMA FirstByteRead ==
    ASSUME NEW chan, NEW seen, NEW top, Stream(chan, <<>>, seen, top), chan # <<>>,
           NEW n \in Nat, n = Number(chan[1])
    PROVE  Stream(Tail(chan), <<Second(n)>>, Append(seen, First(n)), top)
<1> DEFINE rest == Tail(chan)
           more == Append(seen, First(n))
<1>1. Waiting(rest, top) /\ n <= top /\ 1 \in 1..Len(chan) /\ \A i \in 1..Len(rest) : n < Number(rest[i])
  BY Zenon, WaitingShrinks DEF Stream
<1>2. seen \in Seq(Byte) /\ InOrder(seen)
  BY Zenon DEF Stream, ReadSoFar
<1>3. seen # <<>> => Latest(seen) \in Byte /\ Latest(seen).byte = 2 /\ Latest(seen).dgram < n
  <2> SUFFICES ASSUME seen # <<>>
               PROVE  Latest(seen) \in Byte /\ Latest(seen).byte = 2 /\ Latest(seen).dgram < n
    BY Zenon
  <2>1. Len(seen) \in Nat /\ Len(seen) # 0
    BY <1>2, EmptySeq, LenProperties
  <2>2. Latest(seen) \in Byte
    BY <1>2, <2>1, ElementOfSeq DEF Latest
  <2>3. QED
    BY Zenon, <1>1, <2>2 DEF Stream, ReadSoFar
<1>4. seen # <<>> => /\ Q!Position(Latest(seen)) < Q!Position(First(n))
                     /\ Latest(seen).byte # 1 /\ First(n).byte = 1
  <2>1. 2 # 1
    OBVIOUS
  <2>2. QED
    BY Zenon, <1>3, <2>1, BytesOrdered
<1>5. more \in Seq(Byte) /\ InOrder(more) /\ Latest(more) = First(n) /\ more # <<>>
  BY Zenon, <1>2, <1>4, BytesOrdered, ReadsInOrder
<1> HIDE DEF more, rest
<1>6. Latest(more).dgram = n /\ Latest(more).byte = 1
  BY Zenon, <1>5, BytesOrdered
<1>7. <<Second(n)>> # <<>> /\ <<Second(n)>> = <<[dgram |-> Latest(more).dgram, byte |-> 2]>>
  BY <1>6 DEF Second
<1>8. ReadSoFar(rest, <<Second(n)>>, more, top)
  BY Zenon, <1>1, <1>5, <1>6, <1>7 DEF ReadSoFar
<1>9. QED
  BY Zenon, <1>1, <1>8 DEF Stream, rest, more

\* What is left over of the latest datagram is read.
LEMMA SecondByteRead ==
    ASSUME NEW chan, NEW left, NEW seen, NEW top, Stream(chan, left, seen, top), left # <<>>
    PROVE  \E n \in Nat : left = <<Second(n)>> /\ Stream(chan, <<>>, Append(seen, Second(n)), top)
<1>1. seen \in Seq(Byte) /\ InOrder(seen) /\ seen # <<>> /\ Latest(seen).byte = 1
  BY Zenon DEF Stream, ReadSoFar
<1>2. Len(seen) \in Nat /\ Len(seen) # 0
  BY Zenon, <1>1, EmptySeq, LenProperties
<1>3. Latest(seen) \in Byte
  BY SMTT(30), <1>1, <1>2, ElementOfSeq DEF Latest
<1>4. PICK n \in Nat : n = Latest(seen).dgram
  BY <1>3 DEF Byte
<1>5. left = <<Second(n)>> /\ n <= top /\ \A i \in 1..Len(chan) : n < Number(chan[i])
  BY Zenon, <1>1, <1>4 DEF Stream, ReadSoFar, Second
<1>6. Latest(seen) = First(n)
  BY <1>1, <1>3, <1>4 DEF Byte, First
<1> DEFINE more == Append(seen, Second(n))
<1>7. /\ Q!Position(Latest(seen)) < Q!Position(Second(n)) /\ Second(n) \in Byte
      /\ Second(n) = [Latest(seen) EXCEPT !.byte = 2] /\ Latest(seen).byte # 2
  <2>1. 1 # 2
    OBVIOUS
  <2>2. QED
    BY Zenon, <1>1, <1>6, <2>1, BytesOrdered
<1>8. more \in Seq(Byte) /\ InOrder(more) /\ Latest(more) = Second(n) /\ more # <<>>
  BY Zenon, <1>1, <1>7, ReadsInOrder
<1> HIDE DEF more
<1>9. Latest(more).dgram = n /\ Latest(more).byte = 2
  BY Zenon, <1>8, BytesOrdered
<1>10. ReadSoFar(chan, <<>>, more, top)
  BY Zenon, <1>5, <1>8, <1>9 DEF ReadSoFar
<1>11. QED
  BY Zenon, <1>5, <1>10 DEF Stream, more


\* A Read of a whole datagram, of its first byte, and of what is left over.
LEMMA SlicesOfBytes ==
    ASSUME NEW n \in Nat, NEW seen \in Seq(Byte)
    PROVE  /\ seen \o SubSeq(Q!Bytes(n), 1, 1) = Append(seen, First(n))
           /\ SubSeq(Q!Bytes(n), 1 + 1, Len(Q!Bytes(n))) = <<Second(n)>>
           /\ seen \o SubSeq(Q!Bytes(n), 1, 2) = Append(Append(seen, First(n)), Second(n))
           /\ SubSeq(Q!Bytes(n), 2 + 1, Len(Q!Bytes(n))) = <<>>
           /\ seen \o SubSeq(<<Second(n)>>, 1, 1) = Append(seen, Second(n))
           /\ SubSeq(<<Second(n)>>, 1 + 1, Len(<<Second(n)>>)) = <<>>
           /\ Len(<<Second(n)>>) = 1
<1>1. Q!Bytes(n) = <<First(n), Second(n)>> /\ Len(Q!Bytes(n)) = 2 /\ First(n) \in Byte /\ Second(n) \in Byte
  BY BytesOrdered DEF Q!Bytes, First, Second
<1>2. ASSUME NEW a \in Byte, NEW b \in Byte
      PROVE  /\ SubSeq(<<a, b>>, 1, 1) = <<a>> /\ SubSeq(<<a, b>>, 1, 2) = <<a, b>>
             /\ SubSeq(<<a, b>>, 2, 2) = <<b>> /\ SubSeq(<<a, b>>, 3, 2) = <<>>
             /\ SubSeq(<<b>>, 1, 1) = <<b>> /\ SubSeq(<<b>>, 2, 1) = <<>> /\ Len(<<b>>) = 1
  <2>1. /\ <<a, b>> \in Seq(Byte) /\ Len(<<a, b>>) = 2 /\ <<a, b>>[1] = a /\ <<a, b>>[2] = b
        /\ <<b>> \in Seq(Byte) /\ Len(<<b>>) = 1 /\ <<b>>[1] = b
    OBVIOUS
  <2>2. ASSUME NEW s \in Seq(Byte), NEW x \in Nat, NEW y \in Nat, 1 <= x, y <= Len(s)
        PROVE  /\ x <= y => Len(SubSeq(s, x, y)) = y - x + 1
               /\ x > y => SubSeq(s, x, y) = <<>>
               /\ SubSeq(s, x, y) \in Seq(Byte)
               /\ x <= y => SubSeq(s, x, y)[1] = s[x]
               /\ x + 1 <= y => SubSeq(s, x, y)[2] = s[x + 1]
    BY SMTT(30), <2>2, SubSeqProperties, EmptySeq, LenProperties
  <2>3. ASSUME NEW t \in Seq(Byte), Len(t) = 1
        PROVE  t = <<t[1]>>
    BY <2>3
  <2>4. ASSUME NEW s \in Seq(Byte), NEW x \in 1..Len(s)
        PROVE  SubSeq(s, x, x) = <<s[x]>>
    <3>1. x \in Nat /\ 1 <= x /\ x <= Len(s) /\ x <= x /\ x - x + 1 = 1
      BY LenProperties
    <3>2. SubSeq(s, x, x) \in Seq(Byte) /\ Len(SubSeq(s, x, x)) = x - x + 1 /\ SubSeq(s, x, x)[1] = s[x]
      BY Zenon, <2>2, <3>1
    <3>3. QED
      BY Zenon, <2>3, <3>1, <3>2
  <2>5. 1 \in 1..1 /\ 1 \in 1..2 /\ 2 \in 1..2
    OBVIOUS
  <2>6. SubSeq(<<a, b>>, 1, 1) = <<a>> /\ SubSeq(<<a, b>>, 2, 2) = <<b>> /\ SubSeq(<<b>>, 1, 1) = <<b>>
    BY Zenon, <2>1, <2>4, <2>5
  <2>7. ASSUME NEW s \in Seq(Byte), Len(s) = 2
        PROVE  SubSeq(s, 1, 2) = s
    BY SMTT(30), <2>2, <2>7, SeqEqual
  <2>8. SubSeq(<<a, b>>, 1, 2) = <<a, b>>
    BY Zenon, <2>1, <2>7
  <2>9. SubSeq(<<a, b>>, 3, 2) = <<>> /\ SubSeq(<<b>>, 2, 1) = <<>>
    BY SMTT(30), <2>1, <2>2
  <2>10. QED
    BY Zenon, <2>1, <2>6, <2>8, <2>9
<1>3. ASSUME NEW s \in Seq(Byte), NEW a \in Byte
      PROVE  s \o <<a>> = Append(s, a)
  OBVIOUS
<1>4. ASSUME NEW s \in Seq(Byte), NEW a \in Byte, NEW b \in Byte
      PROVE  s \o <<a, b>> = Append(Append(s, a), b)
  OBVIOUS
<1>5. 1 + 1 = 2 /\ 2 + 1 = 3
  OBVIOUS
<1>6. /\ SubSeq(Q!Bytes(n), 1, 1) = <<First(n)>> /\ SubSeq(Q!Bytes(n), 1, 2) = <<First(n), Second(n)>>
      /\ SubSeq(Q!Bytes(n), 1 + 1, Len(Q!Bytes(n))) = <<Second(n)>>
      /\ SubSeq(Q!Bytes(n), 2 + 1, Len(Q!Bytes(n))) = <<>>
  BY ZenonT(60), <1>1, <1>2, <1>5
<1>7. /\ SubSeq(<<Second(n)>>, 1, 1) = <<Second(n)>> /\ Len(<<Second(n)>>) = 1
      /\ SubSeq(<<Second(n)>>, 1 + 1, Len(<<Second(n)>>)) = <<>>
  BY Zenon, <1>1, <1>2, <1>5
<1>8. /\ seen \o <<First(n)>> = Append(seen, First(n)) /\ seen \o <<Second(n)>> = Append(seen, Second(n))
      /\ seen \o <<First(n), Second(n)>> = Append(Append(seen, First(n)), Second(n))
  BY Zenon, <1>1, <1>3, <1>4
<1>9. QED
  BY Zenon, <1>6, <1>7, <1>8

\* A Read of k keeps the stream of k as it must be, and touches no other.
LEMMA ReadKeeps ==
    ASSUME QuicInv, NEW k \in StreamKeys, NEW n \in Q!ReadSlices(k), Q!Read(k, n)
    PROVE  /\ DOMAIN readChan' = StreamKeys /\ DOMAIN leftover' = StreamKeys /\ DOMAIN data' = StreamKeys
           /\ \A l \in StreamKeys : Stream(readChan'[l], leftover'[l], data'[l], Top)
<1> DEFINE chan == readChan[k]
           left == leftover[k]
           seen == data[k]
<1>0. n \in {1, 2}
  BY DEF Q!ReadSlices
<1>1. Stream(chan, left, seen, Top) /\ seen \in Seq(Byte) /\ n \in {1, 2}
  BY Zenon, <1>0 DEF QuicInv, Stream, ReadSoFar
<1>2. CASE left # <<>>
  <2>1. PICK d \in Nat : left = <<Second(d)>> /\ Stream(chan, <<>>, Append(seen, Second(d)), Top)
    BY Zenon, <1>1, <1>2, SecondByteRead
  <2>2. n = 1
    <3>1. n <= Len(left) /\ Len(left) = 1
      BY Zenon, <1>1, <1>2, <2>1, SlicesOfBytes DEF Q!ReadSlices
    <3>2. QED
      BY SMTT(30), <1>1, <3>1
  <2>3. /\ data' = [data EXCEPT ![k] = seen \o SubSeq(left, 1, 1)] /\ UNCHANGED readChan
        /\ leftover' = [leftover EXCEPT ![k] = SubSeq(left, 1 + 1, Len(left))]
    BY Zenon, <1>2, <2>2 DEF Q!Read
  <2>4. data' = [data EXCEPT ![k] = Append(seen, Second(d))] /\ leftover' = [leftover EXCEPT ![k] = <<>>]
    BY Zenon, <1>1, <2>1, <2>3, SlicesOfBytes
  <2>5. QED
    BY Zenon, <2>1, <2>3, <2>4 DEF QuicInv
<1>3. CASE left = <<>>
  <2>1. chan # <<>> /\ Stream(chan, <<>>, seen, Top) /\ Waiting(chan, Top)
    BY Zenon, <1>1, <1>3 DEF Q!Read, Stream
  <2>2. PICK d \in Nat : d = Number(chan[1]) /\ Head(chan) = Q!Bytes(d)
    BY Zenon, <2>1, WaitingShrinks
  <2>3. Stream(Tail(chan), <<Second(d)>>, Append(seen, First(d)), Top)
    BY Zenon, <2>1, <2>2, FirstByteRead
  <2>4. /\ data' = [data EXCEPT ![k] = seen \o SubSeq(Q!Bytes(d), 1, n)]
        /\ leftover' = [leftover EXCEPT ![k] = SubSeq(Q!Bytes(d), n + 1, Len(Q!Bytes(d)))]
        /\ readChan' = [readChan EXCEPT ![k] = Tail(chan)]
    BY Zenon, <1>3, <2>2 DEF Q!Read
  <2>5. CASE n = 1
    <3>1. data' = [data EXCEPT ![k] = Append(seen, First(d))] /\ leftover' = [leftover EXCEPT ![k] = <<Second(d)>>]
      BY Zenon, <1>1, <2>4, <2>5, SlicesOfBytes
    <3>2. QED
      BY Zenon, <2>3, <2>4, <3>1 DEF QuicInv
  <2>6. CASE n = 2
    <3>1. /\ data' = [data EXCEPT ![k] = Append(Append(seen, First(d)), Second(d))]
          /\ leftover' = [leftover EXCEPT ![k] = <<>>]
      BY Zenon, <1>1, <2>4, <2>6, SlicesOfBytes
    <3>2. <<Second(d)>> # <<>>
      OBVIOUS
    <3>3. PICK m \in Nat : /\ <<Second(d)>> = <<Second(m)>>
                           /\ Stream(Tail(chan), <<>>, Append(Append(seen, First(d)), Second(m)), Top)
      BY Zenon, <2>3, <3>2, SecondByteRead
    <3>4. Second(d) = Second(m)
      BY <3>3
    <3>5. Stream(Tail(chan), <<>>, Append(Append(seen, First(d)), Second(d)), Top)
      BY Zenon, <3>3, <3>4
    <3>6. QED
      BY Zenon, <2>4, <3>1, <3>5 DEF QuicInv
  <2>7. QED
    BY Zenon, <1>1, <2>5, <2>6
<1>4. QED
  BY Zenon, <1>2, <1>3

\* A step that leaves the bound and the streams alone.
LEMMA StreamsStay ==
    ASSUME QuicInv, UNCHANGED <<received, readChan, leftover, data>>, Top' = Top,
           InHand' => received > 0 /\ datagram' \in StreamKeys
    PROVE  QuicInv'
BY Zenon DEF QuicInv


LEMMA DeliverKeeps ==
    ASSUME QuicInv, Q!Deliver
    PROVE  QuicInv'
<1>1. InHand /\ ~InHand' /\ received > 0 /\ datagram \in StreamKeys /\ received \in Nat
  BY DEF QuicInv, Q!Deliver, InHand
<1>2. UNCHANGED <<received, leftover, data>>
  BY Zenon DEF Q!Deliver
<1>3. PICK top \in Nat : Top = top /\ received = top + 1 /\ Top' = top + 1
  <2>1. received - 1 \in Nat /\ received = (received - 1) + 1
    BY <1>1
  <2>2. QED
    BY Zenon, <1>1, <1>2, <2>1 DEF Top
<1>4. \A k \in StreamKeys : Stream(readChan[k], leftover[k], data[k], top)
  BY Zenon, <1>3 DEF QuicInv
<1>5. ASSUME NEW chan, NEW left, NEW seen, Stream(chan, left, seen, top)
      PROVE  Stream(chan, left, seen, top + 1)
  <2>1. Len(chan) \in Nat /\ \A i \in 1..Len(chan) : Number(chan[i]) \in Nat
    BY Zenon, <1>5, NumbersAreNaturals DEF Stream
  <2>2. \A i \in 1..Len(chan) : Number(chan[i]) <= top
    BY Zenon, <1>5 DEF Stream, Waiting
  <2>3. \A i \in 1..Len(chan) : Number(chan[i]) <= top + 1
    BY <2>1, <2>2
  <2>4. Waiting(chan, top + 1)
    BY Zenon, <1>5, <2>3 DEF Stream, Waiting
  <2>5. seen # <<>> => Latest(seen).dgram <= top + 1
    <3>1. seen \in Seq(Byte) /\ (seen # <<>> => Latest(seen).dgram <= top)
      BY Zenon, <1>5 DEF Stream, ReadSoFar
    <3>2. seen # <<>> => Latest(seen) \in Byte
      BY <3>1, EmptySeq, ElementOfSeq DEF Latest
    <3>3. QED
      BY <3>1, <3>2 DEF Byte
  <2>6. ReadSoFar(chan, left, seen, top + 1)
    BY Zenon, <1>5, <2>5 DEF Stream, ReadSoFar
  <2>7. QED
    BY Zenon, <2>4, <2>6 DEF Stream
<1>6. \/ UNCHANGED readChan
      \/ readChan' = [readChan EXCEPT ![datagram] = Append(readChan[datagram], Q!Bytes(top + 1))]
  BY Zenon, <1>3 DEF Q!Deliver
<1>7. Stream(Append(readChan[datagram], Q!Bytes(top + 1)), leftover[datagram], data[datagram], top + 1)
  BY Zenon, <1>1, <1>4, StreamGrows
<1>8. DOMAIN readChan' = StreamKeys /\ \A k \in StreamKeys : Stream(readChan'[k], leftover[k], data[k], top + 1)
  <2>1. DOMAIN readChan = StreamKeys
    BY Zenon DEF QuicInv
  <2>2. \A k \in StreamKeys : Stream(readChan[k], leftover[k], data[k], top + 1)
    BY Zenon, <1>4, <1>5
  <2>3. CASE UNCHANGED readChan
    BY Zenon, <2>1, <2>2, <2>3
  <2>4. CASE readChan' = [readChan EXCEPT ![datagram] = Append(readChan[datagram], Q!Bytes(top + 1))]
    BY Zenon, <1>1, <1>7, <2>1, <2>2, <2>4
  <2>5. QED
    BY Zenon, <1>6, <2>3, <2>4
<1>9. QED
  BY Zenon, <1>1, <1>2, <1>3, <1>8 DEF QuicInv

LEMMA ReceiveKeeps ==
    ASSUME QuicInv, NEW k \in StreamKeys, Q!ReadFromUDP(k)
    PROVE  QuicInv'
<1>1. ~InHand /\ InHand' /\ received' = received + 1 /\ datagram' \in StreamKeys
  BY DEF Q!ReadFromUDP, InHand
<1>2. received \in Nat /\ received' \in Nat /\ received' > 0 /\ received' - 1 = received
  <2>1. received \in Nat
    BY Zenon DEF QuicInv
  <2>2. QED
    BY <1>1, <2>1
<1>3. Top' = Top
  BY Zenon, <1>1, <1>2 DEF Top
<1>4. QED
  BY Zenon, <1>1, <1>2, <1>3 DEF QuicInv, Q!ReadFromUDP, Q!streamVars

LEMMA QuicKeeps ==
    ASSUME QuicInv, [Q!Next]_(Q!vars)
    PROVE  QuicInv'
<1>1. ASSUME UNCHANGED <<Q!loopVars, Q!streamVars>>
      PROVE  QuicInv'
  BY Zenon, <1>1 DEF QuicInv, Q!loopVars, Q!streamVars, Top, InHand
<1>2. ASSUME Q!LoopEnds \/ Q!Lookup \/ Q!Publish
      PROVE  QuicInv'
  <2>1. UNCHANGED <<received, datagram, readChan, leftover, data>>
    BY Zenon, <1>2 DEF Q!LoopEnds, Q!Lookup, Q!Publish, Q!streamVars
  <2>2. InHand' <=> InHand
    BY <1>2 DEF Q!LoopEnds, Q!Lookup, Q!Publish, InHand
  <2>3. Top' = Top
    BY Zenon, <2>1, <2>2 DEF Top
  <2>4. InHand' => received > 0 /\ datagram' \in StreamKeys
    BY Zenon, <2>1, <2>2 DEF QuicInv
  <2>5. QED
    BY Zenon, <2>1, <2>3, <2>4, StreamsStay
<1>3. ASSUME Q!Accept \/ Q!CloseListener \/ Q!CloseLocked \/ Q!CloseReturns
      PROVE  QuicInv'
  BY Zenon, <1>1, <1>3 DEF Q!Accept, Q!CloseListener, Q!CloseLocked, Q!CloseReturns
<1>4. ASSUME NEW k \in StreamKeys, NEW who, Q!CloseCheck(k, who) \/ Q!CloseChannel(k, who)
      PROVE  QuicInv'
  BY Zenon, <1>1, <1>4 DEF Q!CloseCheck, Q!CloseChannel
<1>5. ASSUME NEW k \in StreamKeys, NEW n \in Q!ReadSlices(k), Q!Read(k, n)
      PROVE  QuicInv'
  <2>1. UNCHANGED <<received, loop, datagram>>
    BY Zenon, <1>5 DEF Q!Read, Q!loopVars
  <2>2. Top' = Top /\ (InHand' <=> InHand)
    BY Zenon, <2>1 DEF Top, InHand
  <2>3. QED
    BY Zenon, <1>5, <2>1, <2>2, ReadKeeps DEF QuicInv
<1>6. CASE UNCHANGED Q!vars
  BY Zenon, <1>1, <1>6 DEF Q!vars
<1>7. QED
  BY Zenon, <1>2, <1>3, <1>4, <1>5, <1>6, DeliverKeeps, ReceiveKeeps DEF Q!Next, Q!LoopWork, Q!CloserStep

LEMMA QuicBegins ==
    ASSUME Q!Init
    PROVE  QuicInv
<1>1. ~InHand /\ Top = 0 /\ received \in Nat
  BY DEF Q!Init, InHand, Top
<1>2. Stream(<<>>, <<>>, <<>>, 0)
  BY DEF Stream, Waiting, ReadSoFar, InOrder
<1>3. QED
  BY Zenon, <1>1, <1>2 DEF Q!Init, QuicInv

\* However readLoop, Accept, the Reads and Close interleave, an application
\* reads the bytes of a stream's datagrams in the order they were received, none
\* twice and none of a datagram skipped, for every number of streams and every
\* capacity of the channels (quic_transport.go, readLoop and Read).
THEOREM StreamsAreReadInOrder == ConnectionsSpec => []StreamInOrder
<1> DEFINE Inv == which = "quic" => QuicInv
<1>1. ConnectionsInit => Inv
  BY Zenon, QuicBegins DEF ConnectionsInit
<1>2. Inv /\ [ConnectionsNext]_connectionVars => Inv'
  <2> SUFFICES ASSUME Inv, [ConnectionsNext]_connectionVars, which' = "quic"
               PROVE  QuicInv'
    BY Zenon
  <2>1. which = "quic" /\ [Q!Next]_(Q!vars)
    BY Zenon DEF ConnectionsNext, PoolStep, ShmStep, QuicStep, connectionVars, quicVars, Q!vars, Q!loopVars, Q!streamVars
  <2>2. QED
    BY Zenon, <2>1, QuicKeeps
<1>3. Inv => StreamInOrder
  BY Zenon DEF StreamInOrder, Q!StreamInOrder, QuicInv, Stream, ReadSoFar, InOrder
<1>4. QED
  BY <1>1, <1>2, <1>3, PTL DEF ConnectionsSpec

=============================================================================
