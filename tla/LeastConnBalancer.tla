-------------------------- MODULE LeastConnBalancer --------------------------
(***************************************************************************)
(* The least-connections balancer of runtimes/go/balancer.go.  Next and    *)
(* Done work on an immutable index (address -> slot) that Register, under  *)
(* a mutex, replaces by a larger one, and on one atomic counter per slot.  *)
(*                                                                         *)
(* An index is a function from Targets to slots; 0 means that the map has  *)
(* no entry.  Slots count from 1.  A counter is read through b.eps, which  *)
(* Register may be appending to: the old and the new array agree on every  *)
(* slot an index has published, so the read has one outcome.               *)
(***************************************************************************)
EXTENDS Integers, Sequences, FiniteSets

CONSTANTS
    Clients,         \* goroutines that call the balancer
    Targets,         \* backend addresses
    TargetLists      \* the lists of addresses they pass

ASSUME ClientsAssumption == IsFiniteSet(Clients)
ASSUME ListsAssumption == \A ts \in TargetLists : ts \in Seq(Targets) /\ ts # <<>>

None == [client |-> "none"]

NoTarget == ""

ASSUME NoneAssumption == None \notin Clients

VARIABLES
    mu,              \* the client that holds b.mu, or None
    index,           \* b.index
    eps,             \* b.eps: the active count of each slot
    next,            \* the index the holder of mu is building
    pc,              \* where each client is
    targets,         \* argument of Next, <<>> outside Next
    want,            \* addresses the client still has to register
    idx,             \* the index the client works on
    pos,             \* loop position in targets
    minActive,
    selected

shared == <<mu, index, eps, next>>
scan == <<pos, minActive, selected>>
vars == <<mu, index, eps, next, pc, targets, want, idx, pos, minActive, selected>>

NoIndex == [t \in Targets |-> 0]

Extend(m, t, slot) == [m EXCEPT ![t] = slot]

\* A map lookup of a missing key yields index 0, the first slot.
Slot(m, t) == IF m[t] = 0 THEN 1 ELSE m[t]

PCs == {"idle", "ensure", "lock", "register", "reload", "scan", "increment",
        "inFlight", "done"}

TypeOK ==
    /\ mu \in Clients \cup {None}
    /\ index \in [Targets -> Nat]
    /\ eps \in Seq(Nat)
    /\ next \in [Targets -> Nat]
    /\ pc \in [Clients -> PCs]
    /\ targets \in [Clients -> Seq(Targets)]
    /\ want \in [Clients -> Seq(Targets)]
    /\ idx \in [Clients -> [Targets -> Nat]]
    /\ pos \in [Clients -> Nat]
    /\ minActive \in [Clients -> Int]
    /\ selected \in [Clients -> Targets \cup {NoTarget}]

\* NewLeastConnBalancer.
Init ==
    /\ mu = None
    /\ index = NoIndex
    /\ eps = <<>>
    /\ next = NoIndex
    /\ pc = [c \in Clients |-> "idle"]
    /\ targets = [c \in Clients |-> <<>>]
    /\ want = [c \in Clients |-> <<>>]
    /\ idx = [c \in Clients |-> NoIndex]
    /\ pos = [c \in Clients |-> 1]
    /\ minActive = [c \in Clients |-> -1]
    /\ selected = [c \in Clients |-> NoTarget]

Goto(c, label) == pc' = [pc EXCEPT ![c] = label]

-----------------------------------------------------------------------------
(* Register *)

RegisterCall(c, ts) ==
    /\ pc[c] = "idle"
    /\ Goto(c, "lock")
    /\ want' = [want EXCEPT ![c] = ts]
    /\ UNCHANGED <<shared, targets, idx, scan>>

\* Mutant: the existing entries are not copied.
Lock_NoCopy(c) ==
    /\ pc[c] = "lock"
    /\ mu = None
    /\ mu' = c
    /\ next' = NoIndex
    /\ Goto(c, "register")
    /\ UNCHANGED <<index, eps, targets, want, idx, scan>>

Lock(c) ==
    /\ pc[c] = "lock"
    /\ mu = None
    /\ mu' = c
    /\ next' = index
    /\ Goto(c, "register")
    /\ UNCHANGED <<index, eps, targets, want, idx, scan>>

\* Mutant: a known address gets a new slot.
AddTarget_Again(c) ==
    /\ pc[c] = "register"
    /\ want[c] # <<>>
    /\ eps' = Append(eps, 0)
    /\ next' = Extend(next, Head(want[c]), Len(eps) + 1)
    /\ want' = [want EXCEPT ![c] = Tail(want[c])]
    /\ UNCHANGED <<mu, index, pc, targets, idx, scan>>

\* Adds one address, with a new slot, unless the new index has it already.
AddTarget(c) ==
    /\ pc[c] = "register"
    /\ want[c] # <<>>
    /\ LET t == Head(want[c]) IN
       IF next[t] = 0
       THEN /\ eps' = Append(eps, 0)
            /\ next' = Extend(next, t, Len(eps) + 1)
       ELSE UNCHANGED <<eps, next>>
    /\ want' = [want EXCEPT ![c] = Tail(want[c])]
    /\ UNCHANGED <<mu, index, pc, targets, idx, scan>>

\* Publishes the new index and unlocks.
Publish(c) ==
    /\ pc[c] = "register"
    /\ want[c] = <<>>
    /\ index' = next
    /\ mu' = None
    /\ Goto(c, IF targets[c] = <<>> THEN "idle" ELSE "reload")
    /\ UNCHANGED <<eps, next, targets, want, idx, scan>>

-----------------------------------------------------------------------------
(* Next *)

NextCall(c, ts) ==
    /\ pc[c] = "idle"
    /\ targets' = [targets EXCEPT ![c] = ts]
    /\ idx' = [idx EXCEPT ![c] = index]
    /\ pos' = [pos EXCEPT ![c] = 1]
    /\ minActive' = [minActive EXCEPT ![c] = -1]
    /\ selected' = [selected EXCEPT ![c] = NoTarget]
    /\ Goto(c, "ensure")
    /\ UNCHANGED <<shared, want>>

\* One address of the list: known to the client's index, or to be registered.
Ensure(c) ==
    /\ pc[c] = "ensure"
    /\ pos[c] <= Len(targets[c])
    /\ LET t == targets[c][pos[c]] IN
       IF idx[c][t] # 0
       THEN pos' = [pos EXCEPT ![c] = @ + 1] /\ UNCHANGED <<pc, want>>
       ELSE Goto(c, "lock") /\ want' = [want EXCEPT ![c] = <<t>>] /\ UNCHANGED pos
    /\ UNCHANGED <<shared, targets, idx, minActive, selected>>

\* Mutant: the client looks the address up again in the index it had.
Reload_Retry(c) ==
    /\ pc[c] = "reload"
    /\ Goto(c, "ensure")
    /\ UNCHANGED <<shared, targets, want, idx, scan>>

\* After Register the client loads the index again, and goes on to the next address.
Reload(c) ==
    /\ pc[c] = "reload"
    /\ idx' = [idx EXCEPT ![c] = index]
    /\ pos' = [pos EXCEPT ![c] = @ + 1]
    /\ Goto(c, "ensure")
    /\ UNCHANGED <<shared, targets, want, minActive, selected>>

AllEnsured(c) ==
    /\ pc[c] = "ensure"
    /\ pos[c] > Len(targets[c])
    /\ pos' = [pos EXCEPT ![c] = 1]
    /\ Goto(c, "scan")
    /\ UNCHANGED <<shared, targets, want, idx, minActive, selected>>

\* Loads one counter; the first of the smallest is selected.
Scan(c) ==
    /\ pc[c] = "scan"
    /\ LET t == targets[c][pos[c]]
           cur == eps[Slot(idx[c], t)]
       IN  IF minActive[c] < 0 \/ cur < minActive[c]
           THEN /\ minActive' = [minActive EXCEPT ![c] = cur]
                /\ selected' = [selected EXCEPT ![c] = t]
           ELSE UNCHANGED <<minActive, selected>>
    /\ pos' = [pos EXCEPT ![c] = @ + 1]
    /\ Goto(c, IF pos[c] = Len(targets[c]) THEN "increment" ELSE "scan")
    /\ UNCHANGED <<shared, targets, want, idx>>

Increment(c) ==
    /\ pc[c] = "increment"
    /\ eps' = [eps EXCEPT ![Slot(idx[c], selected[c])] = @ + 1]
    /\ Goto(c, "inFlight")
    /\ UNCHANGED <<mu, index, next, targets, want, idx, scan>>

-----------------------------------------------------------------------------
(* Done, called once by whoever called Next *)

DoneCall(c) ==
    /\ pc[c] = "inFlight"
    /\ idx' = [idx EXCEPT ![c] = index]
    /\ Goto(c, "done")
    /\ UNCHANGED <<shared, targets, want, scan>>

Decrement(c) ==
    /\ pc[c] = "done"
    /\ LET slot == idx[c][selected[c]] IN
       eps' = IF slot # 0 THEN [eps EXCEPT ![slot] = @ - 1] ELSE eps
    /\ targets' = [targets EXCEPT ![c] = <<>>]
    /\ Goto(c, "idle")
    /\ UNCHANGED <<mu, index, next, want, idx, scan>>

-----------------------------------------------------------------------------
Registering(c) == Lock(c) \/ AddTarget(c) \/ Publish(c)

Selecting(c) == Ensure(c) \/ Reload(c) \/ AllEnsured(c) \/ Scan(c) \/ Increment(c)

Step(c) ==
    \/ \E ts \in TargetLists : RegisterCall(c, ts) \/ NextCall(c, ts)
    \/ Registering(c)
    \/ Selecting(c)
    \/ DoneCall(c)
    \/ Decrement(c)

Next == \E c \in Clients : Step(c)

Spec == Init /\ [][Next]_vars

\* The Go scheduler runs every goroutine that can run; sync.Mutex hands the
\* lock to a waiter that has starved.
FairSpec ==
    /\ Spec
    /\ \A c \in Clients :
          /\ SF_vars(Lock(c))
          /\ WF_vars(AddTarget(c) \/ Publish(c))
          /\ WF_vars(Selecting(c))
          /\ WF_vars(Decrement(c))

-----------------------------------------------------------------------------
(* Properties *)

ActiveConns(t) == IF index[t] # 0 THEN eps[index[t]] ELSE 0

InFlight(t) == {c \in Clients : pc[c] \in {"inFlight", "done"} /\ selected[c] = t}

\* The count of a target is exactly the number of requests in flight to it,
\* although Next and Done work on indexes loaded earlier and Register replaces
\* the index and extends the slots meanwhile: no count is lost, goes negative
\* or is kept under two slots.
CountsInFlight == \A t \in Targets : ActiveConns(t) = Cardinality(InFlight(t))

Separate(m) ==
    \A t \in Targets :
        /\ m[t] <= Len(eps)
        /\ \A u \in Targets : m[t] = m[u] /\ m[t] # 0 => t = u

\* No two targets share a counter, and every slot the index names exists.
OwnCounters == Separate(index)

\* When Next compares the counters it knows a slot for every address of its
\* list: no lookup falls back to the first slot.
KnowsItsTargets ==
    \A c \in Clients : pc[c] \in {"scan", "increment"} =>
        \A i \in 1..Len(targets[c]) : idx[c][targets[c][i]] # 0

\* A registered target keeps its slot for ever.
SlotsAreStable ==
    [][\A t \in Targets : index[t] # 0 => index'[t] = index[t]]_index

-----------------------------------------------------------------------------
(* The inductive invariant behind these properties, in parts *)

Extends(m, n) == \A t \in Targets : m[t] # 0 => n[t] = m[t]

Elements(seq) == {seq[i] : i \in 1..Len(seq)}

\* Indexes only grow: what a client holds is a part of what is published,
\* and that is a part of what the holder of mu builds, on fresh slots.
IndexesGrow ==
    /\ \A c \in Clients : pc[c] = "register" <=> mu = c
    /\ Separate(index)
    /\ \A c \in Clients : Extends(idx[c], index)
    /\ mu # None =>
          /\ Separate(next)
          /\ Extends(index, next)
          /\ \A t \in Targets : index[t] = 0 /\ next[t] # 0 => eps[next[t]] = 0

\* The addresses before the current one are known; no counter has been read.
Ensured(c) ==
    /\ targets[c] # <<>>
    /\ minActive[c] = -1
    /\ \A i \in 1..pos[c] - 1 : i <= Len(targets[c]) => idx[c][targets[c][i]] # 0

\* The current address is one of the list, and those before it are known.
AtAddress(c) == Ensured(c) /\ pos[c] <= Len(targets[c])

\* The scan has an address to look at, and a choice after the first.
Scanned(c) ==
    /\ targets[c] # <<>>
    /\ pos[c] <= Len(targets[c])
    /\ pos[c] = 1 => minActive[c] = -1
    /\ pos[c] > 1 => selected[c] \in Elements(targets[c])

Chosen(c) == targets[c] # <<>> /\ selected[c] \in Elements(targets[c])

\* The target of a request in flight is registered.
Routed(c) == targets[c] # <<>> /\ selected[c] \in Targets /\ index[selected[c]] # 0

Current(c) == targets[c][pos[c]]

\* How far the client has come with its list of addresses; the list is empty
\* when the client only registers.
ListTracked(c) ==
    /\ pos[c] >= 1
    /\ pc[c] = "idle" => targets[c] = <<>>
    /\ pc[c] = "ensure" => Ensured(c)
    /\ pc[c] = "lock" => targets[c] = <<>> \/ (AtAddress(c) /\ want[c] = <<Current(c)>>)
    /\ pc[c] = "register" =>
          targets[c] = <<>> \/ (AtAddress(c) /\ (want[c] = <<Current(c)>> \/ next[Current(c)] # 0))
    /\ pc[c] = "reload" => AtAddress(c) /\ index[Current(c)] # 0
    /\ pc[c] = "scan" => Scanned(c)
    /\ pc[c] = "increment" => Chosen(c)
    /\ pc[c] = "inFlight" => Routed(c)
    /\ pc[c] = "done" => Routed(c) /\ idx[c][selected[c]] # 0

\* Together with the exact counts, what every step of the clients preserves.
Accounting ==
    /\ IndexesGrow
    /\ \A c \in Clients : ListTracked(c)
    /\ KnowsItsTargets
    /\ CountsInFlight

-----------------------------------------------------------------------------
(* Temporal properties *)

\* Next returns and a Register call ends, however many others register.
CallsReturn ==
    \A c \in Clients : pc[c] \in {"ensure", "lock"} ~> pc[c] \in {"inFlight", "idle"}

=============================================================================
