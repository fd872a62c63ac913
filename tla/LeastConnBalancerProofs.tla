---------------------- MODULE LeastConnBalancerProofs ----------------------
(***************************************************************************)
(* Proofs about the least-connections balancer for any finite set of       *)
(* clients, any targets and any lists of them.                             *)
(***************************************************************************)
EXTENDS LeastConnBalancer, FiniteSetTheorems, TLAPS

(***************************************************************************)
(* The steps of the balancer keep the index growing and each client's      *)
(* progress through its list of addresses.                                 *)
(***************************************************************************)


\* Appending a slot keeps the counts of the others.
LEMMA AppendFacts ==
    ASSUME NEW s \in Seq(Nat), NEW n \in Nat
    PROVE  /\ Append(s, n) \in Seq(Nat)
           /\ Len(Append(s, n)) = Len(s) + 1
           /\ \A i \in 1..Len(s) : Append(s, n)[i] = s[i]
           /\ Append(s, n)[Len(s) + 1] = n
           /\ Len(s) \in Nat
OBVIOUS

\* Changing one counter keeps the others.
LEMMA UpdateFacts ==
    ASSUME NEW s \in Seq(Nat), NEW i \in 1..Len(s), NEW n \in Nat
    PROVE  LET e == [s EXCEPT ![i] = n] IN
           /\ e \in Seq(Nat)
           /\ Len(e) = Len(s)
           /\ \A j \in 1..Len(s) : e[j] = IF j = i THEN n ELSE s[j]
OBVIOUS

\* The addresses of a list are targets.
LEMMA ListFacts ==
    ASSUME TypeOK, NEW c \in Clients
    PROVE  /\ targets[c] \in Seq(Targets)
           /\ Len(targets[c]) \in Nat
           /\ targets[c] # <<>> <=> Len(targets[c]) > 0
           /\ Elements(targets[c]) \subseteq Targets
           /\ \A i \in 1..Len(targets[c]) : targets[c][i] \in Targets /\ targets[c][i] \in Elements(targets[c])
<1>1. targets[c] \in Seq(Targets)
  BY ListsAssumption DEF TypeOK
<1>2. QED
  BY <1>1 DEF Elements

\* A client's step leaves the other clients' own state alone.
LEMMA Others ==
    ASSUME TypeOK, NEW d \in Clients, Step(d), NEW q \in Clients, q # d
    PROVE  /\ pc'[q] = pc[q] /\ targets'[q] = targets[q] /\ want'[q] = want[q]
           /\ idx'[q] = idx[q] /\ pos'[q] = pos[q]
           /\ minActive'[q] = minActive[q] /\ selected'[q] = selected[q]
<1> USE DEF TypeOK, Goto, shared, scan
<1>1. CASE \E ts \in TargetLists : RegisterCall(d, ts) \/ NextCall(d, ts)
  BY <1>1 DEF RegisterCall, NextCall
<1>2. CASE Registering(d)
  BY <1>2 DEF Registering, Lock, AddTarget, Publish
<1>3. CASE Ensure(d) \/ Reload(d) \/ AllEnsured(d)
  BY <1>3 DEF Ensure, Reload, AllEnsured
<1>4. CASE Scan(d)
  BY <1>4 DEF Scan
<1>5. CASE Increment(d) \/ DoneCall(d) \/ Decrement(d)
  BY <1>5 DEF Increment, DoneCall, Decrement
<1>6. QED
  BY <1>1, <1>2, <1>3, <1>4, <1>5 DEF Step, Selecting

\* The slot that Next or Done updates is the published slot of its target.
LEMMA SelectedSlot ==
    ASSUME TypeOK, Accounting, NEW c \in Clients, pc[c] \in {"increment", "done"}
    PROVE  /\ selected[c] \in Targets
           /\ idx[c][selected[c]] = index[selected[c]]
           /\ index[selected[c]] \in 1..Len(eps)
           /\ Slot(idx[c], selected[c]) = index[selected[c]]
           /\ eps[index[selected[c]]] \in Nat
<1>1. selected[c] \in Targets /\ idx[c][selected[c]] # 0
  <2>1. CASE pc[c] = "increment"
    <3>1. PICK i \in 1..Len(targets[c]) : selected[c] = targets[c][i]
      BY <2>1 DEF Accounting, ListTracked, Chosen, Elements
    <3>2. QED
      BY <2>1, <3>1, ListFacts DEF Accounting, KnowsItsTargets
  <2>2. CASE pc[c] = "done"
    BY <2>2 DEF Accounting, ListTracked, Routed
  <2>3. QED
    BY <2>1, <2>2
<1>2. idx[c][selected[c]] = index[selected[c]] /\ index[selected[c]] \in Nat
  BY <1>1 DEF Accounting, IndexesGrow, Extends, TypeOK
<1>3. index[selected[c]] <= Len(eps)
  BY <1>1 DEF Accounting, IndexesGrow, Separate
<1>4. index[selected[c]] \in 1..Len(eps)
  BY <1>1, <1>2, <1>3 DEF TypeOK
<1>5. eps \in Seq(Nat)
  BY DEF TypeOK
<1>6. eps[index[selected[c]]] \in Nat
  BY <1>4, <1>5
<1>7. Slot(idx[c], selected[c]) = index[selected[c]]
  BY <1>1, <1>2 DEF Slot
<1>8. QED
  BY <1>1, <1>2, <1>4, <1>6, <1>7

\* Next and Done change one published counter and nothing else of the slots.
LEMMA CounterStep ==
    ASSUME TypeOK, Accounting, NEW d \in Clients, Increment(d) \/ Decrement(d)
    PROVE  /\ selected[d] \in Targets
           /\ index[selected[d]] \in 1..Len(eps)
           /\ Len(eps') = Len(eps)
           /\ \A i \in 1..Len(eps) : i # index[selected[d]] => eps'[i] = eps[i]
           /\ eps'[index[selected[d]]] = IF pc[d] = "increment" THEN eps[index[selected[d]]] + 1
                                                             ELSE eps[index[selected[d]]] - 1
<1>1. /\ selected[d] \in Targets /\ index[selected[d]] \in 1..Len(eps)
      /\ idx[d][selected[d]] = index[selected[d]]
      /\ Slot(idx[d], selected[d]) = index[selected[d]]
  BY SelectedSlot DEF Increment, Decrement
<1>2. eps \in Seq(Nat) /\ index[selected[d]] # 0
  BY <1>1 DEF TypeOK
<1>3. CASE Increment(d)
  <2>1. pc[d] = "increment" /\ eps' = [eps EXCEPT ![index[selected[d]]] = eps[index[selected[d]]] + 1]
    BY <1>1, <1>3 DEF Increment
  <2>2. QED
    BY <1>1, <1>2, <2>1
<1>4. CASE Decrement(d)
  <2>1. pc[d] = "done" /\ eps' = [eps EXCEPT ![index[selected[d]]] = eps[index[selected[d]]] - 1]
    BY <1>1, <1>2, <1>4 DEF Decrement
  <2>2. QED
    BY <1>1, <1>2, <2>1
<1>5. QED
  BY <1>3, <1>4

\* Every step keeps the indexes growing on separate, fresh slots.
LEMMA IndexStep ==
    ASSUME TypeOK, Accounting, NEW d \in Clients, Step(d)
    PROVE  IndexesGrow' /\ Extends(index, index')
<1> USE DEF Goto, shared, scan
<1>0. /\ pc \in [Clients -> PCs] /\ idx \in [Clients -> [Targets -> Nat]] /\ index \in [Targets -> Nat]
      /\ next \in [Targets -> Nat] /\ eps \in Seq(Nat) /\ None # d
  BY NoneAssumption DEF TypeOK
<1>1. IndexesGrow
  BY DEF Accounting
<1>2. ASSUME UNCHANGED <<mu, index, eps, next>>, pc[d] # "register", pc'[d] # "register",
             idx' = idx \/ idx' = [idx EXCEPT ![d] = index]
      PROVE  IndexesGrow' /\ Extends(index, index')
  <2>1. \A c \in Clients : pc'[c] = "register" <=> mu' = c
    BY <1>1, <1>2, Others DEF IndexesGrow
  <2>2. ASSUME NEW c \in Clients PROVE Extends(idx'[c], index')
    <3>1. idx'[c] = idx[c] \/ idx'[c] = index
      BY <1>0, <1>2
    <3>2. Extends(idx[c], index) /\ Extends(index, index)
      BY <1>1 DEF IndexesGrow, Extends
    <3>3. index' = index
      BY <1>2
    <3>4. QED
      BY <3>1, <3>2, <3>3
  <2>3. Separate(index)' /\ (mu' # None => Separate(next)')
    BY <1>1, <1>2 DEF IndexesGrow, Separate
  <2>4. Extends(index, index') /\ (mu' # None => Extends(index, next)')
    BY <1>1, <1>2 DEF IndexesGrow, Extends
  <2>5. QED
    BY <1>1, <1>2, <2>1, <2>2, <2>3, <2>4 DEF IndexesGrow
<1>3. CASE \E ts \in TargetLists : RegisterCall(d, ts) \/ NextCall(d, ts)
  BY <1>0, <1>2, <1>3 DEF RegisterCall, NextCall
<1>4. CASE Ensure(d) \/ Reload(d) \/ AllEnsured(d)
  BY <1>0, <1>2, <1>4 DEF Ensure, Reload, AllEnsured
<1>5. CASE Scan(d) \/ DoneCall(d)
  BY <1>0, <1>2, <1>5 DEF Scan, DoneCall
<1>6. CASE Lock(d)
  <2>1. /\ mu = None /\ mu' = d /\ next' = index /\ UNCHANGED <<index, eps, idx>>
        /\ \A c \in Clients : pc'[c] = IF c = d THEN "register" ELSE pc[c]
    BY <1>0, <1>6 DEF Lock
  <2>2. \A c \in Clients : pc'[c] = "register" <=> mu' = c
    BY <1>1, <2>1, NoneAssumption DEF IndexesGrow
  <2>3. QED
    BY <1>1, <2>1, <2>2 DEF IndexesGrow, Separate, Extends
<1>7. CASE AddTarget(d)
  <2> DEFINE t == Head(want[d])
  <2>1. t \in Targets
    BY <1>7 DEF AddTarget, TypeOK
  <2>2. mu = d /\ mu' = d /\ UNCHANGED <<index, pc, idx>>
    BY <1>1, <1>7 DEF AddTarget, IndexesGrow
  <2>3. CASE next[t] # 0
    BY <1>1, <1>7, <2>2, <2>3 DEF AddTarget, IndexesGrow, Separate, Extends
  <2>4. CASE next[t] = 0
    <3> HIDE DEF t
    <3>1. eps' = Append(eps, 0) /\ next' = [next EXCEPT ![t] = Len(eps) + 1]
      BY <1>7, <2>4 DEF AddTarget, Extend, t
    <3>2. /\ \A u \in Targets : next'[u] = IF u = t THEN Len(eps) + 1 ELSE next[u]
          /\ Len(eps) \in Nat /\ Len(eps') = Len(eps) + 1
          /\ \A i \in 1..Len(eps) : eps'[i] = eps[i]
          /\ eps'[Len(eps) + 1] = 0
      BY <1>0, <2>1, <3>1, AppendFacts
    <3>3. \A u \in Targets : index[u] <= Len(eps) /\ next[u] <= Len(eps) /\ index[u] \in Nat /\ next[u] \in Nat
      BY <1>0, <1>1, <2>2 DEF IndexesGrow, Separate
    <3>4. Separate(index)'
      BY <1>1, <2>2, <3>2, <3>3 DEF IndexesGrow, Separate
    <3>5. Separate(next)'
      <4>1. \A u, v \in Targets : next[u] = next[v] /\ next[u] # 0 => u = v
        BY <1>0, <1>1, <2>2 DEF IndexesGrow, Separate
      <4>2. \A u, v \in Targets : next'[u] = next'[v] /\ next'[u] # 0 => u = v
        BY <3>2, <3>3, <4>1
      <4>3. \A u \in Targets : next'[u] <= Len(eps')
        BY <3>2, <3>3
      <4>4. QED
        BY <4>2, <4>3 DEF Separate
    <3>6. index[t] = 0 /\ Extends(index, next)'
      BY <1>0, <1>1, <2>1, <2>2, <2>4, <3>2 DEF IndexesGrow, Extends
    <3>7. \A u \in Targets : index'[u] = 0 /\ next'[u] # 0 => eps'[next'[u]] = 0
      <4>1. \A u \in Targets : index[u] = 0 /\ next[u] # 0 => eps[next[u]] = 0
        BY <1>0, <1>1, <2>2 DEF IndexesGrow
      <4>2. QED
        BY <2>2, <3>2, <3>3, <4>1
    <3>8. QED
      BY <1>1, <2>2, <3>4, <3>5, <3>6, <3>7 DEF IndexesGrow, Extends
  <2>5. QED
    BY <2>3, <2>4
<1>8. CASE Publish(d)
  <2>1. /\ mu = d /\ mu' = None /\ index' = next /\ UNCHANGED <<eps, next, idx>>
        /\ \A c \in Clients : pc'[c] = "register" => c # d /\ pc[c] = "register"
    BY <1>0, <1>1, <1>8 DEF Publish, IndexesGrow
  <2>2. \A c \in Clients : pc'[c] = "register" <=> mu' = c
    BY <1>1, <2>1, NoneAssumption DEF IndexesGrow
  <2>3. Separate(index)' /\ Extends(index, index')
    BY <1>0, <1>1, <2>1 DEF IndexesGrow, Separate, Extends
  <2>4. \A c \in Clients : Extends(idx'[c], index')
    BY <1>1, <2>1, <2>3 DEF IndexesGrow, Extends
  <2>5. QED
    BY <2>1, <2>2, <2>3, <2>4 DEF IndexesGrow
<1>9. CASE Increment(d) \/ Decrement(d)
  <2>1. /\ UNCHANGED <<mu, index, next, idx>> /\ pc[d] # "register" /\ pc'[d] # "register"
    BY <1>0, <1>9 DEF Increment, Decrement
  <2>2. \A c \in Clients : pc'[c] = "register" <=> mu' = c
    BY <1>1, <2>1, Others DEF IndexesGrow
  <2>3. /\ Len(eps') = Len(eps) /\ selected[d] \in Targets /\ index[selected[d]] # 0
        /\ \A i \in 1..Len(eps) : i # index[selected[d]] => eps'[i] = eps[i]
    BY <1>0, <1>9, CounterStep
  <2>4. ASSUME mu # None, NEW u \in Targets, index[u] = 0, next[u] # 0 PROVE eps'[next[u]] = 0
    <3>1. next[u] \in 1..Len(eps) /\ eps[next[u]] = 0
      BY <1>0, <1>1, <2>4 DEF IndexesGrow, Separate
    <3>2. next[selected[d]] = index[selected[d]] /\ u # selected[d]
      BY <1>1, <2>3, <2>4 DEF IndexesGrow, Extends
    <3>3. next[u] # index[selected[d]]
      BY <1>1, <2>3, <2>4, <3>2, SMTT(30) DEF IndexesGrow, Separate
    <3>4. QED
      BY <2>3, <3>1, <3>3
  <2>5. QED
    BY <1>1, <2>1, <2>2, <2>3, <2>4 DEF IndexesGrow, Separate, Extends
<1>10. QED
  BY <1>3, <1>4, <1>5, <1>6, <1>7, <1>8, <1>9 DEF Step, Registering, Selecting

\* What another client does does not disturb a client's way through its list.
LEMMA ListOthers ==
    ASSUME TypeOK, Accounting, NEW d \in Clients, Step(d), NEW c \in Clients, c # d
    PROVE  ListTracked(c)'
<1>1. /\ pc'[c] = pc[c] /\ targets'[c] = targets[c] /\ want'[c] = want[c]
      /\ idx'[c] = idx[c] /\ pos'[c] = pos[c]
      /\ minActive'[c] = minActive[c] /\ selected'[c] = selected[c]
  BY Others
<1>2. \A t \in Targets : index[t] # 0 => index'[t] # 0
  BY IndexStep DEF Extends
<1>3. pc[c] = "register" => next' = next
  <2> USE DEF shared
  <2>1. SUFFICES ASSUME pc[c] = "register" PROVE next' = next
    OBVIOUS
  <2>2. mu = c /\ mu # None /\ pc[d] # "register"
    BY <2>1, NoneAssumption DEF Accounting, IndexesGrow
  <2>3. ~Lock(d) /\ ~AddTarget(d) /\ ~Publish(d)
    BY <2>2 DEF Lock, AddTarget, Publish
  <2>4. QED
    BY <2>3 DEF Step, Registering, Selecting, RegisterCall, NextCall, Ensure, Reload, AllEnsured,
                Scan, Increment, DoneCall, Decrement
<1>4. ListTracked(c)
  BY DEF Accounting
<1>5. AtAddress(c) => Current(c) \in Targets
  <2>1. AtAddress(c) => pos[c] <= Len(targets[c])
    BY DEF AtAddress
  <2>2. pos[c] >= 1 /\ pos[c] \in Nat
    BY <1>4 DEF ListTracked, TypeOK
  <2>3. QED
    BY <2>1, <2>2, ListFacts DEF Current
<1>6. /\ Ensured(c)' = Ensured(c) /\ AtAddress(c)' = AtAddress(c) /\ Scanned(c)' = Scanned(c)
      /\ Chosen(c)' = Chosen(c) /\ Current(c)' = Current(c)
  BY <1>1 DEF Ensured, AtAddress, Scanned, Chosen, Current, Elements
<1>7. Routed(c) => Routed(c)'
  BY <1>1, <1>2 DEF Routed
<1>8. AtAddress(c) /\ index[Current(c)] # 0 => index'[Current(c)] # 0
  BY <1>2, <1>5
<1>9. pos'[c] >= 1
  BY <1>1, <1>4 DEF ListTracked
<1>10. QED
  BY <1>1, <1>3, <1>4, <1>6, <1>7, <1>8, <1>9, Zenon DEF ListTracked

\* A client that looks at the counters knows the slots of all its targets.
Knows(c) == pc[c] \in {"scan", "increment"} =>
               \A i \in 1..Len(targets[c]) : idx[c][targets[c][i]] # 0

\* What the type and the invariant say of one client's variables.
LEMMA OwnState ==
    ASSUME TypeOK, Accounting, NEW d \in Clients
    PROVE  /\ pc \in [Clients -> PCs] /\ targets \in [Clients -> Seq(Targets)]
           /\ want \in [Clients -> Seq(Targets)] /\ idx \in [Clients -> [Targets -> Nat]]
           /\ pos \in [Clients -> Nat] /\ minActive \in [Clients -> Int]
           /\ selected \in [Clients -> Targets \cup {NoTarget}]
           /\ targets[d] \in Seq(Targets) /\ Len(targets[d]) \in Nat
           /\ ListTracked(d) /\ Knows(d)
           /\ pos[d] \in Nat /\ pos[d] >= 1
<1>1. /\ pc \in [Clients -> PCs] /\ targets \in [Clients -> Seq(Targets)]
      /\ want \in [Clients -> Seq(Targets)] /\ idx \in [Clients -> [Targets -> Nat]]
      /\ pos \in [Clients -> Nat] /\ minActive \in [Clients -> Int]
      /\ selected \in [Clients -> Targets \cup {NoTarget}]
  BY DEF TypeOK
<1>2. ListTracked(d) /\ Knows(d)
  BY DEF Accounting, KnowsItsTargets, Knows
<1>3. pos[d] >= 1
  BY <1>2 DEF ListTracked
<1>4. QED
  BY <1>1, <1>2, <1>3

\* Starting a call keeps track of the client's list.
LEMMA ListStarting ==
    ASSUME TypeOK, Accounting, NEW d \in Clients, NEW ts \in TargetLists,
           RegisterCall(d, ts) \/ NextCall(d, ts)
    PROVE  ListTracked(d)' /\ Knows(d)'
<1> USE DEF Goto, shared, scan
<1>1. CASE RegisterCall(d, ts)
  <2>1. pc[d] = "idle" /\ pc'[d] = "lock" /\ UNCHANGED <<targets, pos>>
    BY <1>1, OwnState DEF RegisterCall
  <2>2. targets'[d] = <<>> /\ pos'[d] >= 1
    BY <2>1, OwnState DEF ListTracked
  <2>3. QED
    BY <2>1, <2>2, Zenon DEF ListTracked, Knows
<1>2. CASE NextCall(d, ts)
  <2>1. pc'[d] = "ensure" /\ targets'[d] # <<>> /\ pos'[d] = 1 /\ minActive'[d] = -1
    BY <1>2, OwnState, ListsAssumption DEF NextCall
  <2>2. Ensured(d)' /\ pos'[d] >= 1
    BY <2>1 DEF Ensured
  <2>3. QED
    BY <2>1, <2>2, Zenon DEF ListTracked, Knows
<1>3. QED
  BY <1>1, <1>2

\* Register keeps track of the client's list.
LEMMA ListRegistering ==
    ASSUME TypeOK, Accounting, NEW d \in Clients, Registering(d)
    PROVE  ListTracked(d)' /\ Knows(d)'
<1> USE DEF Goto, shared, scan
<1>1. ASSUME pos'[d] = pos[d], targets'[d] = targets[d], idx'[d] = idx[d], minActive'[d] = minActive[d]
      PROVE  AtAddress(d)' = AtAddress(d) /\ Current(d)' = Current(d) /\ pos'[d] >= 1
  BY <1>1, OwnState DEF AtAddress, Ensured, Current
<1>2. ListTracked(d)
  BY OwnState
<1>3. CASE Lock(d)
  <2>1. /\ pc[d] = "lock" /\ pc'[d] = "register" /\ targets'[d] = targets[d] /\ want'[d] = want[d]
        /\ pos'[d] = pos[d] /\ idx'[d] = idx[d] /\ minActive'[d] = minActive[d]
    BY <1>3, OwnState DEF Lock
  <2>2. targets[d] = <<>> \/ (AtAddress(d) /\ want[d] = <<Current(d)>>)
    BY <1>2, <2>1, Zenon DEF ListTracked
  <2>3. targets'[d] = <<>> \/ (AtAddress(d)' /\ want'[d] = <<Current(d)'>>)
    BY <1>1, <2>1, <2>2
  <2>4. QED
    BY <1>1, <2>1, <2>3, Zenon DEF ListTracked, Knows
<1>4. CASE AddTarget(d)
  <2>1. /\ pc[d] = "register" /\ pc'[d] = "register" /\ targets'[d] = targets[d]
        /\ pos'[d] = pos[d] /\ idx'[d] = idx[d] /\ minActive'[d] = minActive[d]
    BY <1>4, OwnState DEF AddTarget
  <2>2. ASSUME AtAddress(d), want[d] = <<Current(d)>> \/ next[Current(d)] # 0
        PROVE  next'[Current(d)] # 0
    <3> DEFINE t == Current(d)
    <3>1. pos[d] \in 1..Len(targets[d])
      BY <2>2, OwnState DEF AtAddress
    <3>2. t \in Targets
      BY <3>1, OwnState DEF Current
    <3>3. next \in [Targets -> Nat] /\ eps \in Seq(Nat)
      BY DEF TypeOK
    <3>4. want[d] \in Seq(Targets) /\ want[d] # <<>>
      BY <1>4, OwnState DEF AddTarget
    <3>5. Len(eps) \in Nat
      BY <3>3
    <3>6. Head(want[d]) \in Targets
      BY <3>4
    <3>7. want[d] = <<t>> => Head(want[d]) = t
      OBVIOUS
    <3>8. \/ next[Head(want[d])] # 0 /\ next' = next
          \/ next[Head(want[d])] = 0 /\ next' = [next EXCEPT ![Head(want[d])] = Len(eps) + 1]
      BY <1>4 DEF AddTarget, Extend
    <3> HIDE DEF t
    <3>9. QED
      BY <2>2, <3>2, <3>3, <3>5, <3>6, <3>7, <3>8 DEF t
  <2>3. targets[d] = <<>> \/ (AtAddress(d) /\ (want[d] = <<Current(d)>> \/ next[Current(d)] # 0))
    BY <1>2, <2>1, Zenon DEF ListTracked
  <2>4. targets'[d] = <<>> \/ (AtAddress(d)' /\ next'[Current(d)'] # 0)
    BY <1>1, <2>1, <2>2, <2>3
  <2>5. QED
    BY <1>1, <2>1, <2>4, Zenon DEF ListTracked, Knows
<1>5. CASE Publish(d)
  <2>1. /\ pc[d] = "register" /\ want[d] = <<>> /\ targets'[d] = targets[d]
        /\ pos'[d] = pos[d] /\ idx'[d] = idx[d] /\ minActive'[d] = minActive[d]
        /\ index' = next
    BY <1>5, OwnState DEF Publish
  <2>2. \/ targets[d] = <<>> /\ pc'[d] = "idle"
        \/ targets[d] # <<>> /\ pc'[d] = "reload"
    BY <1>5, OwnState DEF Publish
  <2>3. targets[d] = <<>> \/ (AtAddress(d) /\ (want[d] = <<Current(d)>> \/ next[Current(d)] # 0))
    BY <1>2, <2>1, Zenon DEF ListTracked
  <2>4. want[d] # <<Current(d)>>
    BY <2>1
  <2>5. \/ targets'[d] = <<>> /\ pc'[d] = "idle"
        \/ pc'[d] = "reload" /\ AtAddress(d)' /\ index'[Current(d)'] # 0
    BY <1>1, <2>1, <2>2, <2>3, <2>4
  <2>6. QED
    BY <1>1, <2>1, <2>5, Zenon DEF ListTracked, Knows
<1>6. QED
  BY <1>3, <1>4, <1>5 DEF Registering

\* Making sure that every target has a slot keeps track of the client's list.
LEMMA ListEnsuring ==
    ASSUME TypeOK, Accounting, NEW d \in Clients, Ensure(d) \/ Reload(d) \/ AllEnsured(d)
    PROVE  ListTracked(d)' /\ Knows(d)'
<1> USE DEF Goto, shared, scan
<1>1. ListTracked(d) /\ Len(targets[d]) \in Nat /\ pos[d] \in Nat /\ pos[d] >= 1
  BY OwnState
<1>2. CASE Ensure(d)
  <2>1. /\ pc[d] = "ensure" /\ pos[d] <= Len(targets[d])
        /\ targets'[d] = targets[d] /\ idx'[d] = idx[d] /\ minActive'[d] = minActive[d]
    BY <1>2, OwnState DEF Ensure
  <2>2. Ensured(d)
    BY <1>1, <2>1, Zenon DEF ListTracked
  <2>3. CASE idx[d][Current(d)] # 0
    <3>1. pc'[d] = "ensure" /\ pos'[d] = pos[d] + 1
      BY <1>2, <2>1, <2>3, OwnState DEF Ensure, Current
    <3>2. \A i \in 1..pos'[d] - 1 : i <= Len(targets[d]) => idx[d][targets[d][i]] # 0
      BY <1>1, <2>2, <2>3, <3>1 DEF Ensured, Current
    <3>3. Ensured(d)' /\ pos'[d] >= 1
      BY SMTT(30), <1>1, <2>1, <2>2, <3>1, <3>2 DEF Ensured
    <3>4. QED
      BY <3>1, <3>3, Zenon DEF ListTracked, Knows
  <2>4. CASE idx[d][Current(d)] = 0
    <3>1. pc'[d] = "lock" /\ pos'[d] = pos[d] /\ want'[d] = <<Current(d)>>
      BY <1>2, <2>4, OwnState DEF Ensure, Current
    <3>2. AtAddress(d)' /\ Current(d)' = Current(d) /\ pos'[d] >= 1
      BY <1>1, <2>1, <2>2, <3>1 DEF AtAddress, Ensured, Current
    <3>3. QED
      BY <3>1, <3>2, Zenon DEF ListTracked, Knows
  <2>5. QED
    BY <2>3, <2>4
<1>3. CASE Reload(d)
  <2>1. /\ pc[d] = "reload" /\ pc'[d] = "ensure" /\ idx'[d] = index /\ pos'[d] = pos[d] + 1
        /\ targets'[d] = targets[d] /\ minActive'[d] = minActive[d]
    BY <1>3, OwnState DEF Reload
  <2>2. \A t \in Targets : idx[d][t] # 0 => index[t] # 0
    BY DEF Accounting, IndexesGrow, Extends
  <2>3. Ensured(d) /\ index[Current(d)] # 0
    BY <1>1, <2>1, Zenon DEF ListTracked, AtAddress
  <2>4. \A i \in 1..pos[d] - 1 : i <= Len(targets[d]) => index[targets[d][i]] # 0
    <3>1. \A i \in 1..pos[d] - 1 : i <= Len(targets[d]) => targets[d][i] \in Targets
      BY <1>1, ListFacts
    <3>2. QED
      BY <2>2, <2>3, <3>1 DEF Ensured
  <2>5. \A i \in 1..pos[d] : i <= Len(targets[d]) => index[targets[d][i]] # 0
    BY <1>1, <2>3, <2>4 DEF Current
  <2>6. \A i \in 1..pos'[d] - 1 : i <= Len(targets'[d]) => idx'[d][targets'[d][i]] # 0
    BY <1>1, <2>1, <2>5
  <2>7. Ensured(d)' /\ pos'[d] >= 1
    BY <1>1, <2>1, <2>3, <2>6 DEF Ensured
  <2>8. QED
    BY <2>1, <2>7, Zenon DEF ListTracked, Knows
<1>4. CASE AllEnsured(d)
  <2>1. /\ pc[d] = "ensure" /\ pos[d] > Len(targets[d]) /\ pc'[d] = "scan" /\ pos'[d] = 1
        /\ targets'[d] = targets[d] /\ idx'[d] = idx[d] /\ minActive'[d] = minActive[d]
    BY <1>4, OwnState DEF AllEnsured
  <2>2. Ensured(d)
    BY <1>1, <2>1, Zenon DEF ListTracked
  <2>3. targets[d] # <<>> /\ minActive[d] = -1
    BY <2>2 DEF Ensured
  <2>4. Len(targets[d]) >= 1
    BY <1>1, <2>3, ListFacts
  <2>5. \A i \in 1..Len(targets[d]) : idx[d][targets[d][i]] # 0
    BY <1>1, <2>1, <2>2 DEF Ensured
  <2>6. Scanned(d)' /\ pos'[d] >= 1
    BY <2>1, <2>3, <2>4 DEF Scanned
  <2>7. Knows(d)'
    BY <2>1, <2>5 DEF Knows
  <2>8. QED
    BY <2>1, <2>6, <2>7, Zenon DEF ListTracked
<1>5. QED
  BY <1>2, <1>3, <1>4

\* The scan, the increment and the end of a request keep track of the client's list.
LEMMA ListChoosing ==
    ASSUME TypeOK, Accounting, NEW d \in Clients,
           Scan(d) \/ Increment(d) \/ DoneCall(d) \/ Decrement(d)
    PROVE  ListTracked(d)' /\ Knows(d)'
<1> USE DEF Goto, shared, scan
<1>1. ListTracked(d) /\ Len(targets[d]) \in Nat /\ pos[d] \in Nat /\ pos[d] >= 1
  BY OwnState
<1>2. CASE Scan(d)
  <2> DEFINE t == targets[d][pos[d]]
  <2>1. pc[d] = "scan" /\ pos'[d] = pos[d] + 1 /\ targets'[d] = targets[d] /\ idx'[d] = idx[d]
    BY <1>2, OwnState DEF Scan
  <2>2. \/ pos[d] = Len(targets[d]) /\ pc'[d] = "increment"
        \/ pos[d] # Len(targets[d]) /\ pc'[d] = "scan"
    BY <1>2, OwnState DEF Scan
  <2>3. Scanned(d)
    BY <1>1, <2>1, Zenon DEF ListTracked
  <2>4. t \in Elements(targets[d])
    BY <1>1, <2>3, ListFacts DEF Scanned
  <2>5. selected'[d] = t \/ (selected'[d] = selected[d] /\ minActive[d] >= 0)
    BY SMTT(30), <1>2, OwnState DEF Scan
  <2>6. selected'[d] \in Elements(targets[d])
    BY <1>1, <2>3, <2>4, <2>5 DEF Scanned
  <2>7. pos'[d] > 1 /\ pos'[d] >= 1 /\ pos'[d] # 1 /\ targets'[d] # <<>>
    BY <1>1, <2>1, <2>3 DEF Scanned
  <2>8. pc'[d] = "increment" \/ (pc'[d] = "scan" /\ pos'[d] <= Len(targets'[d]))
    BY <1>1, <2>1, <2>2, <2>3 DEF Scanned
  <2>9. selected'[d] \in Elements(targets'[d])
    BY <2>1, <2>6
  <2>10. Elements(targets[d])' = Elements(targets'[d])
    BY DEF Elements
  <2>11. Chosen(d)' /\ (pc'[d] = "scan" => Scanned(d)')
    BY <2>7, <2>8, <2>9, <2>10 DEF Chosen, Scanned
  <2>12. Knows(d)'
    BY <2>1, OwnState DEF Knows
  <2>13. QED
    BY <2>7, <2>8, <2>11, <2>12, Zenon DEF ListTracked
<1>3. CASE Increment(d)
  <2>1. /\ pc[d] = "increment" /\ pc'[d] = "inFlight" /\ targets'[d] = targets[d]
        /\ index' = index /\ pos'[d] = pos[d] /\ selected'[d] = selected[d]
    BY <1>3, OwnState DEF Increment
  <2>2. selected[d] \in Targets /\ index[selected[d]] # 0
    BY SMTT(30), <2>1, SelectedSlot
  <2>3. Chosen(d)
    BY <1>1, <2>1, Zenon DEF ListTracked
  <2>4. Routed(d)' /\ pos'[d] >= 1
    BY <1>1, <2>1, <2>2, <2>3 DEF Routed, Chosen
  <2>5. QED
    BY <2>1, <2>4, Zenon DEF ListTracked, Knows
<1>4. CASE DoneCall(d)
  <2>1. /\ pc[d] = "inFlight" /\ pc'[d] = "done" /\ idx'[d] = index /\ targets'[d] = targets[d]
        /\ index' = index /\ pos'[d] = pos[d] /\ selected'[d] = selected[d]
    BY <1>4, OwnState DEF DoneCall
  <2>2. Routed(d)
    BY <1>1, <2>1, Zenon DEF ListTracked
  <2>3. Routed(d)' /\ idx'[d][selected'[d]] # 0 /\ pos'[d] >= 1
    BY <1>1, <2>1, <2>2 DEF Routed
  <2>4. QED
    BY <2>1, <2>3, Zenon DEF ListTracked, Knows
<1>5. CASE Decrement(d)
  <2>1. pc'[d] = "idle" /\ targets'[d] = <<>> /\ pos'[d] >= 1
    BY <1>1, <1>5, OwnState DEF Decrement
  <2>2. QED
    BY <2>1, Zenon DEF ListTracked, Knows
<1>6. QED
  BY <1>2, <1>3, <1>4, <1>5

\* A client's own step keeps track of its list.
LEMMA ListOwn ==
    ASSUME TypeOK, Accounting, NEW d \in Clients, Step(d)
    PROVE  ListTracked(d)' /\ Knows(d)'
BY ListStarting, ListRegistering, ListEnsuring, ListChoosing DEF Step, Selecting

-----------------------------------------------------------------------------
(* The counts. *)


\* A request in flight to a target is counted there: its count is positive.
LEMMA CountPositive ==
    ASSUME TypeOK, Accounting, NEW c \in Clients, pc[c] = "done"
    PROVE  eps[index[selected[c]]] > 0
<1>1. selected[c] \in Targets /\ index[selected[c]] # 0 /\ eps[index[selected[c]]] \in Nat
  <2>1. index[selected[c]] \in 1..Len(eps)
    BY SelectedSlot
  <2>2. QED
    BY <2>1, SelectedSlot
<1>2. IsFiniteSet(InFlight(selected[c]))
  BY ClientsAssumption, FS_Subset DEF InFlight
<1>3. c \in InFlight(selected[c])
  BY DEF InFlight
<1>4. Cardinality(InFlight(selected[c])) # 0
  BY <1>2, <1>3, FS_EmptySet
<1>5. eps[index[selected[c]]] = Cardinality(InFlight(selected[c]))
  BY <1>1 DEF Accounting, CountsInFlight, ActiveConns
<1>6. QED
  BY <1>1, <1>4, <1>5

\* Every step keeps the types.
LEMMA TypeStep == TypeOK /\ Accounting /\ [Next]_vars => TypeOK'
<1> SUFFICES ASSUME TypeOK, Accounting, [Next]_vars PROVE TypeOK'
  OBVIOUS
<1> USE DEF Goto, shared, scan
<1>0. pos \in [Clients -> Nat] /\ eps \in Seq(Nat) /\ targets \in [Clients -> Seq(Targets)]
  BY DEF TypeOK
<1>1. CASE UNCHANGED vars
  BY <1>1 DEF vars, TypeOK, PCs
<1>2. ASSUME NEW d \in Clients, Step(d) PROVE TypeOK'
  <2>1. ASSUME NEW ts \in TargetLists, RegisterCall(d, ts) \/ NextCall(d, ts) PROVE TypeOK'
    <3>1. ts \in Seq(Targets)
      BY ListsAssumption
    <3>2. CASE RegisterCall(d, ts)
      BY <3>1, <3>2 DEF RegisterCall, TypeOK, PCs
    <3>3. CASE NextCall(d, ts)
      BY <3>1, <3>3 DEF NextCall, TypeOK, PCs
    <3>4. QED
      BY <2>1, <3>2, <3>3
  <2>2. CASE Lock(d)
    BY <2>2 DEF Lock, TypeOK, PCs
  <2>3. CASE AddTarget(d)
    <3>1. Head(want[d]) \in Targets /\ Tail(want[d]) \in Seq(Targets)
      BY <2>3 DEF AddTarget, TypeOK, PCs
    <3>2. want' \in [Clients -> Seq(Targets)]
      BY <2>3, <3>1 DEF AddTarget, TypeOK, PCs
    <3>3. eps' \in Seq(Nat) /\ next' \in [Targets -> Nat]
      <4>1. eps \in Seq(Nat) /\ next \in [Targets -> Nat]
        BY DEF TypeOK
      <4>2. Append(eps, 0) \in Seq(Nat) /\ Len(eps) + 1 \in Nat
        BY <4>1
      <4>3. QED
        BY <2>3, <3>1, <4>1, <4>2, Zenon DEF AddTarget, Extend
    <3>4. QED
      BY <2>3, <3>2, <3>3, Zenon DEF AddTarget, TypeOK, PCs
  <2>4. CASE Publish(d)
    BY <2>4 DEF Publish, TypeOK, PCs
  <2>5. CASE Ensure(d)
    <3>1. pos' \in [Clients -> Nat]
      <4>1. pos' = [pos EXCEPT ![d] = pos[d] + 1] \/ pos' = pos
        BY <2>5 DEF Ensure
      <4>2. QED
        BY <1>0, <4>1
    <3>5. pc' \in [Clients -> PCs] /\ UNCHANGED <<shared, targets, idx, minActive, selected>>
      BY <2>5, Zenon DEF Ensure, TypeOK, PCs
    <3>2. targets[d][pos[d]] \in Targets
      <4>1. pos[d] \in 1..Len(targets[d])
        BY <2>5, OwnState DEF Ensure
      <4>2. QED
        BY <4>1, ListFacts
    <3>3. want' \in [Clients -> Seq(Targets)]
      <4>1. want' = [want EXCEPT ![d] = <<targets[d][pos[d]]>>] \/ want' = want
        BY <2>5 DEF Ensure
      <4>2. <<targets[d][pos[d]]>> \in Seq(Targets)
        BY <3>2
      <4>3. QED
        BY <4>1, <4>2, Zenon DEF TypeOK
    <3>4. QED
      BY <3>1, <3>3, <3>5, SMTT(30) DEF TypeOK
  <2>6. CASE Reload(d)
    BY SMTT(30), <2>6 DEF Reload, TypeOK, PCs
  <2>7. CASE AllEnsured(d)
    BY <2>7 DEF AllEnsured, TypeOK, PCs
  <2>8. CASE Scan(d)
    <3>1. pos[d] \in 1..Len(targets[d])
      <4>1. Scanned(d)
        BY ZenonT(60), <2>8, OwnState DEF Scan, ListTracked
      <4>2. QED
        BY <4>1, OwnState DEF Scanned
    <3>2. targets[d][pos[d]] \in Targets /\ idx[d][targets[d][pos[d]]] # 0
      BY ZenonT(60), <2>8, <3>1, ListFacts DEF Scan, Accounting, KnowsItsTargets
    <3>3. eps[Slot(idx[d], targets[d][pos[d]])] \in Nat
      <4> DEFINE t == targets[d][pos[d]]
      <4>1. idx[d][t] = index[t] /\ index[t] # 0 /\ index[t] <= Len(eps)
        BY Zenon, <3>2 DEF Accounting, IndexesGrow, Extends, Separate
      <4>2. index[t] \in 1..Len(eps)
        BY <3>2, <4>1 DEF TypeOK
      <4>3. Slot(idx[d], t) = index[t]
        BY <4>1 DEF Slot
      <4>4. eps \in Seq(Nat)
        BY DEF TypeOK
      <4>5. QED
        BY SMTT(30), <4>2, <4>3, <4>4
    <3>4. minActive' \in [Clients -> Int] /\ selected' \in [Clients -> Targets \cup {NoTarget}]
      <4> DEFINE t == targets[d][pos[d]]
                 cur == eps[Slot(idx[d], t)]
      <4>1. /\ minActive' = [minActive EXCEPT ![d] = cur] \/ minActive' = minActive
            /\ selected' = [selected EXCEPT ![d] = t] \/ selected' = selected
        BY <2>8 DEF Scan
      <4>2. cur \in Int /\ t \in Targets
        BY <3>2, <3>3
      <4> HIDE DEF t, cur
      <4>3. QED
        BY <4>1, <4>2, Zenon DEF TypeOK
    <3>5. pos' = [pos EXCEPT ![d] = pos[d] + 1] /\ UNCHANGED <<mu, index, eps, next, targets, want, idx>>
      BY <2>8 DEF Scan
    <3>6. pc' \in [Clients -> PCs]
      BY <2>8 DEF Scan, TypeOK, PCs
    <3>7. pos' \in [Clients -> Nat]
      BY <1>0, <3>5
    <3>8. QED
      BY Zenon, <3>4, <3>5, <3>6, <3>7 DEF TypeOK
  <2>9. CASE Increment(d)
    <3>1. eps' = [eps EXCEPT ![index[selected[d]]] = eps[index[selected[d]]] + 1]
      BY <2>9, SelectedSlot, Zenon DEF Increment
    <3>2. eps' \in Seq(Nat)
      <4>1. /\ index[selected[d]] \in 1..Len(eps) /\ eps[index[selected[d]]] + 1 \in Nat
            /\ eps \in Seq(Nat)
        BY <1>0, <2>9, SelectedSlot DEF Increment
      <4>2. QED
        BY <3>1, <4>1, UpdateFacts
    <3>3. QED
      BY <2>9, <3>2, Zenon DEF Increment, TypeOK, PCs
  <2>10. CASE DoneCall(d)
    BY <2>10 DEF DoneCall, TypeOK, PCs
  <2>11. CASE Decrement(d)
    <3>1. eps' = [eps EXCEPT ![index[selected[d]]] = eps[index[selected[d]]] - 1]
      <4>1. idx[d][selected[d]] = index[selected[d]] /\ index[selected[d]] # 0
        BY <2>11, SelectedSlot DEF Decrement
      <4>2. QED
        BY <2>11, <4>1 DEF Decrement
    <3>2. eps[index[selected[d]]] - 1 \in Nat
      BY <2>11, SelectedSlot, CountPositive DEF Decrement
    <3>3. eps' \in Seq(Nat)
      <4>1. index[selected[d]] \in 1..Len(eps) /\ eps \in Seq(Nat)
        BY <2>11, SelectedSlot DEF Decrement, TypeOK
      <4>2. QED
        BY <3>1, <3>2, <4>1, UpdateFacts
    <3>4. targets' \in [Clients -> Seq(Targets)] /\ UNCHANGED <<mu, index, next, want, idx, scan>>
      BY SMTT(30), <1>0, <2>11 DEF Decrement
    <3>5. pc' \in [Clients -> PCs]
      BY <2>11 DEF Decrement, TypeOK, PCs
    <3>6. QED
      BY <3>3, <3>4, <3>5 DEF TypeOK
  <2>12. QED
    BY <1>2, <2>1, <2>2, <2>3, <2>4, <2>5, <2>6, <2>7, <2>8, <2>9, <2>10, <2>11
    DEF Step, Registering, Selecting
<1>3. QED
  BY <1>1, <1>2 DEF Next

\* Every step keeps the counts exact.
LEMMA CountStep ==
    ASSUME TypeOK, Accounting, NEW d \in Clients, Step(d)
    PROVE  CountsInFlight'
<1> USE DEF Goto, shared, scan
<1>0. /\ pc \in [Clients -> PCs] /\ selected \in [Clients -> Targets \cup {NoTarget}]
      /\ index \in [Targets -> Nat] /\ next \in [Targets -> Nat] /\ eps \in Seq(Nat)
  BY DEF TypeOK
<1>1. \A t \in Targets : ActiveConns(t) = Cardinality(InFlight(t))
  BY DEF Accounting, CountsInFlight
<1>2. \A t \in Targets : index[t] # 0 => index[t] \in 1..Len(eps)
  BY <1>0 DEF Accounting, IndexesGrow, Separate
<1>3. ASSUME pc[d] \notin {"inFlight", "done"}, pc'[d] \notin {"inFlight", "done"}, NEW t \in Targets
      PROVE  InFlight(t)' = InFlight(t)
  BY <1>3, Others DEF InFlight
<1>4. ASSUME pc[d] \notin {"inFlight", "done"}, pc'[d] \notin {"inFlight", "done"},
             UNCHANGED <<index, eps>>
      PROVE  CountsInFlight'
  BY <1>1, <1>3, <1>4 DEF CountsInFlight, ActiveConns
<1>5. CASE \E ts \in TargetLists : RegisterCall(d, ts) \/ NextCall(d, ts)
  BY <1>0, <1>4, <1>5 DEF RegisterCall, NextCall
<1>6. CASE Lock(d)
  BY Zenon, <1>0, <1>4, <1>6 DEF Lock
<1>7. CASE Ensure(d) \/ Reload(d) \/ AllEnsured(d)
  BY <1>0, <1>4, <1>7 DEF Ensure, Reload, AllEnsured
<1>8. CASE Scan(d)
  <2>1. pc[d] = "scan" /\ pc'[d] \in {"increment", "scan"} /\ UNCHANGED <<index, eps>>
    BY <1>0, <1>8 DEF Scan
  <2>2. QED
    BY <1>4, <2>1
<1>9. CASE AddTarget(d)
  <2>1. pc[d] = "register" /\ pc' = pc /\ index' = index /\ (eps' = Append(eps, 0) \/ eps' = eps)
    BY <1>9 DEF AddTarget
  <2>2. \A i \in 1..Len(eps) : eps'[i] = eps[i]
    BY <1>0, <2>1
  <2>3. \A t \in Targets : InFlight(t)' = InFlight(t)
    BY <1>3, <2>1
  <2>4. QED
    BY <1>1, <1>2, <2>1, <2>2, <2>3 DEF CountsInFlight, ActiveConns
<1>10. CASE Publish(d)
  <2>1. /\ pc[d] = "register" /\ pc'[d] \in {"idle", "reload"} /\ index' = next /\ eps' = eps
        /\ mu = d /\ mu # None
    BY <1>0, <1>10, NoneAssumption DEF Publish, Accounting, IndexesGrow
  <2>2. ASSUME NEW t \in Targets PROVE ActiveConns(t)' = Cardinality(InFlight(t)')
    <3>1. InFlight(t)' = InFlight(t)
      BY <1>3, <2>1
    <3>2. CASE index[t] # 0
      <4>1. next[t] = index[t]
        BY <2>1, <3>2 DEF Accounting, IndexesGrow, Extends
      <4>2. QED
        BY <1>1, <2>1, <3>1, <3>2, <4>1 DEF ActiveConns
    <3>3. CASE index[t] = 0
      <4>1. InFlight(t) = {}
        BY <3>3 DEF InFlight, Accounting, ListTracked, Routed
      <4>2. next[t] # 0 => eps[next[t]] = 0
        BY <2>1, <3>3 DEF Accounting, IndexesGrow
      <4>3. ActiveConns(t)' = 0
        BY <2>1, <4>2 DEF ActiveConns
      <4>4. QED
        BY <3>1, <4>1, <4>3, FS_EmptySet
    <3>4. QED
      BY <3>2, <3>3
  <2>3. QED
    BY <2>2 DEF CountsInFlight
<1>11. CASE DoneCall(d)
  <2>1. pc[d] = "inFlight" /\ pc'[d] = "done" /\ UNCHANGED <<index, eps, selected>>
    BY <1>0, <1>11 DEF DoneCall
  <2>2. \A t \in Targets : InFlight(t)' = InFlight(t)
    BY <2>1, Others DEF InFlight
  <2>3. QED
    BY <1>1, <2>1, <2>2 DEF CountsInFlight, ActiveConns
<1>12. CASE Increment(d) \/ Decrement(d)
  <2>0. PICK s \in Targets : s = selected[d]
    BY <1>12, CounterStep
  <2>1. /\ UNCHANGED <<index, selected>>
        /\ \/ pc[d] = "increment" /\ pc'[d] = "inFlight"
           \/ pc[d] = "done" /\ pc'[d] = "idle"
    BY <1>0, <1>12 DEF Increment, Decrement
  <2>2. /\ s \in Targets /\ index[s] \in 1..Len(eps) /\ eps[index[s]] \in Nat
        /\ \A i \in 1..Len(eps) : i # index[s] => eps'[i] = eps[i]
        /\ eps'[index[s]] = IF pc[d] = "increment" THEN eps[index[s]] + 1 ELSE eps[index[s]] - 1
    BY <1>0, <1>12, <2>0, CounterStep
  <2>3. IsFiniteSet(InFlight(s)) /\ eps[index[s]] = Cardinality(InFlight(s))
    <3>1. IsFiniteSet(InFlight(s))
      BY ClientsAssumption, FS_Subset DEF InFlight
    <3>2. QED
      BY <1>1, <2>2, <3>1 DEF ActiveConns
  <2>4. ASSUME NEW t \in Targets, t # s PROVE ActiveConns(t)' = Cardinality(InFlight(t)')
    <3>1. InFlight(t)' = InFlight(t)
      BY <2>0, <2>1, <2>4, Others DEF InFlight
    <3>2. index[t] # 0 => index[t] # index[s]
      BY <2>2, <2>4 DEF Accounting, IndexesGrow, Separate
    <3>3. QED
      BY <1>1, <1>2, <2>1, <2>2, <3>1, <3>2 DEF ActiveConns
  <2>5. ActiveConns(s)' = Cardinality(InFlight(s)')
    <3>1. ActiveConns(s)' = eps'[index[s]]
      BY <2>1, <2>2 DEF ActiveConns
    <3>2. CASE pc[d] = "increment"
      <4>1. InFlight(s)' = InFlight(s) \cup {d} /\ d \notin InFlight(s)
        BY <2>0, <2>1, <3>2, Others DEF InFlight
      <4>2. Cardinality(InFlight(s) \cup {d}) = Cardinality(InFlight(s)) + 1
        BY <2>3, <4>1, FS_AddElement, Zenon
      <4>3. QED
        BY <2>2, <2>3, <3>1, <3>2, <4>1, <4>2
    <3>3. CASE pc[d] = "done"
      <4>1. InFlight(s)' = InFlight(s) \ {d} /\ d \in InFlight(s)
        BY <2>0, <2>1, <3>3, Others DEF InFlight
      <4>2. QED
        BY <2>2, <2>3, <3>1, <3>3, <4>1, FS_RemoveElement, Zenon
    <3>4. QED
      BY <2>1, <3>2, <3>3
  <2>6. QED
    BY <2>4, <2>5 DEF CountsInFlight
<1>13. QED
  BY <1>5, <1>6, <1>7, <1>8, <1>9, <1>10, <1>11, <1>12 DEF Step, Registering, Selecting

\* Every step, or none, preserves types and accounting.
LEMMA AccountingStep == TypeOK /\ Accounting /\ [Next]_vars => TypeOK' /\ Accounting'
<1> SUFFICES ASSUME TypeOK, Accounting, [Next]_vars PROVE Accounting'
  BY TypeStep
<1>1. CASE UNCHANGED vars
  <2>1. UNCHANGED <<mu, index, eps, next, pc, targets, want, idx, pos, minActive, selected>>
    BY <1>1 DEF vars
  <2>2. IndexesGrow'
    BY <2>1 DEF Accounting, IndexesGrow, Separate, Extends
  <2>3. ASSUME NEW c \in Clients PROVE ListTracked(c)'
    <3>1. ListTracked(c)
      BY Zenon DEF Accounting
    <3>2. Ensured(c)' <=> Ensured(c)
      BY <2>1 DEF Ensured
    <3>3. Current(c)' = Current(c) /\ (AtAddress(c)' <=> AtAddress(c))
      BY <2>1 DEF AtAddress, Ensured, Current
    <3>4. Scanned(c)' <=> Scanned(c)
      BY <2>1 DEF Scanned, Elements, Current
    <3>5. Chosen(c)' <=> Chosen(c)
      BY <2>1 DEF Chosen, Elements
    <3>6. Routed(c)' <=> Routed(c)
      BY <2>1 DEF Routed, Elements
    <3>7. QED
      BY Zenon, <2>1, <3>1, <3>2, <3>3, <3>4, <3>5, <3>6 DEF ListTracked
  <2>4. KnowsItsTargets' /\ CountsInFlight'
    <3>1. KnowsItsTargets'
      BY <2>1 DEF Accounting, KnowsItsTargets
    <3>2. \A t \in Targets : ActiveConns(t)' = ActiveConns(t) /\ InFlight(t)' = InFlight(t)
      BY <2>1 DEF ActiveConns, InFlight
    <3>3. QED
      BY <3>1, <3>2 DEF Accounting, CountsInFlight
  <2>5. QED
    BY <2>2, <2>3, <2>4 DEF Accounting
<1>2. ASSUME NEW d \in Clients, Step(d) PROVE Accounting'
  <2>1. \A c \in Clients : ListTracked(c)'
    BY <1>2, ListOwn, ListOthers
  <2>2. KnowsItsTargets'
    <3>1. \A c \in Clients : Knows(c)
      BY DEF Accounting, KnowsItsTargets, Knows
    <3>2. \A c \in Clients : Knows(c)'
      BY <1>2, <3>1, ListOwn, Others DEF Knows
    <3>3. QED
      BY <3>2 DEF KnowsItsTargets, Knows
  <2>3. QED
    BY <1>2, <2>1, <2>2, IndexStep, CountStep DEF Accounting
<1>3. QED
  BY <1>1, <1>2 DEF Next

\* The counters of Next and Done are exact, on separate slots, in every
\* reachable state, for any finite set of clients and any targets.
THEOREM AccountingHolds == Spec => [](TypeOK /\ Accounting)
<1>1. Init => TypeOK /\ Accounting
  <2> SUFFICES ASSUME Init PROVE TypeOK /\ Accounting
    OBVIOUS
  <2>1. TypeOK
    BY DEF Init, TypeOK, NoIndex, PCs
  <2>2. IndexesGrow
    BY NoneAssumption DEF Init, IndexesGrow, NoIndex, Separate, Extends
  <2>3. \A c \in Clients : ListTracked(c)
    BY DEF Init, ListTracked
  <2>4. KnowsItsTargets
    BY DEF Init, KnowsItsTargets
  <2>5. CountsInFlight
    <3>1. \A t \in Targets : InFlight(t) = {} /\ ActiveConns(t) = 0
      BY DEF Init, InFlight, ActiveConns, NoIndex
    <3>2. QED
      BY <3>1, FS_EmptySet DEF CountsInFlight
  <2>6. QED
    BY <2>1, <2>2, <2>3, <2>4, <2>5 DEF Accounting
<1>2. QED
  BY <1>1, AccountingStep, PTL DEF Spec

\* The count of each target is its number of requests in flight.
THEOREM CountsAreExact == Spec => []CountsInFlight
BY AccountingHolds, PTL DEF Accounting

\* No two targets share a counter.
THEOREM CountersAreSeparate == Spec => []OwnCounters
<1>1. Accounting => OwnCounters
  BY DEF Accounting, IndexesGrow, OwnCounters
<1>2. QED
  BY <1>1, AccountingHolds, PTL

\* Next compares the counters of its own targets only.
THEOREM NextKnowsItsTargets == Spec => []KnowsItsTargets
BY AccountingHolds, PTL DEF Accounting

\* Register never moves a target to another slot.
THEOREM SlotsNeverMove == Spec => SlotsAreStable
<1>1. TypeOK /\ Accounting /\ [Next]_vars =>
        [\A t \in Targets : index[t] # 0 => index'[t] = index[t]]_index
  <2> SUFFICES ASSUME TypeOK, Accounting, [Next]_vars, index' # index
               PROVE  \A t \in Targets : index[t] # 0 => index'[t] = index[t]
    OBVIOUS
  <2>1. PICK d \in Clients : Step(d)
    BY DEF vars, Next
  <2>2. QED
    BY <2>1, IndexStep DEF Extends
<1>2. QED
  BY <1>1, AccountingHolds, PTL DEF Spec, SlotsAreStable
=============================================================================
