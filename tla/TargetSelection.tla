-------------------------- MODULE TargetSelection ---------------------------
(***************************************************************************)
(* How a Go client finds the address it calls: a resolver turns a service  *)
(* name into a list of targets (resolver.go, resolver_dns.go,              *)
(* resolver_consul.go) and a balancer takes one of them, in turn           *)
(* (client_pool.go) or by the hash of a key (consistent_hash.go).  The     *)
(* least-connections balancer has a module of its own.                     *)
(*                                                                         *)
(* A hash is a small integer; hash collisions are those of the function    *)
(* chosen in the initial state.  NextWithKey registers targets under the   *)
(* write lock and searches under the read lock, with a gap between them.   *)
(***************************************************************************)
EXTENDS Naturals, Sequences, FiniteSets, FiniteSetsExt, TLC

CONSTANTS
    Clients, Nodes, Keys,
    Lists,           \* the lists of addresses operators and DNS know
    Entries,         \* the service entries Consul may list
    HashFunctions,   \* [vnode : [Nodes -> Seq(Nat)], key : [Keys -> Nat]]
    Space,           \* hashes are below it
    MaxRing,         \* bound: no Remove on a longer ring (a collision leaves entries behind)
    Turns            \* a multiple of every length of a list: counter counts modulo it

NoAddress == ""

VARIABLES
    hash,            \* the hash function of this run
    registry,        \* the list StaticResolver has for the service
    ring, hashMap, registered,
    counter,         \* of the round robin
    pc, targets, answer

ringVars == <<ring, hashMap, registered>>
vars == <<hash, registry, ringVars, counter, pc, targets, answer>>

Unregistered == <<>>             \* StaticResolver: the service has no list
Error == <<>>                    \* a Resolve that returns an error

Init ==
    /\ hash \in HashFunctions
    /\ registry = Unregistered
    /\ ring = <<>> /\ hashMap = [h \in {} |-> NoAddress] /\ registered = {}
    /\ counter = 0
    /\ pc = [c \in Clients |-> "idle"]
    /\ targets = [c \in Clients |-> Error]
    /\ answer = [c \in Clients |-> NoAddress]

-----------------------------------------------------------------------------
(* Resolvers.                                                              *)

Register(ts) ==
    /\ registry' = ts
    /\ UNCHANGED <<hash, ringVars, counter, pc, targets, answer>>

Resolved(c, ts) ==
    /\ pc[c] = "idle"
    /\ targets' = [targets EXCEPT ![c] = ts]
    /\ pc' = [pc EXCEPT ![c] = "resolved"]
    /\ answer' = [answer EXCEPT ![c] = NoAddress]
    /\ UNCHANGED <<hash, registry, ringVars, counter>>

StaticResolve(c) == Resolved(c, registry)

LookupHost == Lists \cup {Error}
LookupSRV == Lists \cup {Error}

CoreDNSResolve(c) == \E ips \in LookupHost : Resolved(c, ips)

DNSResolve(c) ==
    \E srvs \in LookupSRV, ips \in LookupHost :
        Resolved(c, IF srvs # Error THEN srvs ELSE ips)

\* ServiceAddress, or else Address; an entry with neither is skipped.
EntryAddress(e) == IF e.service # NoAddress THEN e.service ELSE e.address

ConsulAddrs(entries) ==
    LET addrs == [i \in DOMAIN entries |-> EntryAddress(entries[i])]
        Listed(a) == a # NoAddress
    IN  SelectSeq(addrs, Listed)

\* Without an answer, or with one that names no address, the result is an error.
ConsulResolve(c) ==
    \/ Resolved(c, Error)
    \/ \E e, f \in Entries : Resolved(c, ConsulAddrs(<<e, f>>))

-----------------------------------------------------------------------------
(* Balancers.                                                              *)

Chosen(c, a) ==
    /\ pc' = [pc EXCEPT ![c] = "chosen"]
    /\ answer' = [answer EXCEPT ![c] = a]
    /\ UNCHANGED <<hash, registry, targets>>

\* Both balancers refuse an empty list before they touch their state.
NoTargets(c) ==
    /\ pc[c] = "resolved" /\ targets[c] = Error
    /\ Chosen(c, NoAddress)
    /\ UNCHANGED <<ringVars, counter>>

RoundRobinNext(c) ==
    LET n == Len(targets[c])
        idx == (counter % n) + 1
    IN  /\ pc[c] = "resolved" /\ n > 0
        /\ counter' = (counter + 1) % Turns
        /\ Chosen(c, targets[c][idx])
        /\ UNCHANGED ringVars

VNodes(node) == hash.vnode[node]

Before(g, h) == g < h

\* Appends the virtual nodes of the nodes, each checked as the loop comes to it:
\* one registered before, or earlier in the list, is passed over.  Of two with
\* one hash the later owns it.  Mutant of Added: the ring is left unsorted.
AddedNoSort(nodes) ==
    LET Step(done, n) ==
            IF n \in done.registered THEN done
            ELSE [ring |-> done.ring \o VNodes(n),
                  map |-> [h \in {VNodes(n)[j] : j \in DOMAIN VNodes(n)} |-> n] @@ done.map,
                  registered |-> done.registered \cup {n}]
        all[i \in 0..Len(nodes)] ==
            IF i = 0 THEN [ring |-> ring, map |-> hashMap, registered |-> registered]
            ELSE Step(all[i - 1], nodes[i])
    IN  all[Len(nodes)]

Added(nodes) ==
    LET all == AddedNoSort(nodes) IN [all EXCEPT !.ring = SortSeq(@, Before)]

AddTo(nodes) ==
    /\ ring' = Added(nodes).ring
    /\ hashMap' = Added(nodes).map
    /\ registered' = Added(nodes).registered

Add(nodes) ==
    /\ AddTo(nodes)
    /\ UNCHANGED <<hash, registry, counter, pc, targets, answer>>

\* Of two ring entries with one hash that the node owns, the first deletes
\* the owner and the second stays in the ring.
Remove(node) ==
    LET Owned(h) == h \in DOMAIN hashMap /\ hashMap[h] = node
        Goes(i) == Owned(ring[i]) /\ \A j \in 1..(i - 1) : ring[j] # ring[i]
        left == {i \in DOMAIN ring : ~Goes(i)}
        at == [k \in 1..Cardinality(left) |->
                  CHOOSE i \in left : Cardinality({j \in left : j <= i}) = k]
    IN  /\ node \in registered /\ Len(ring) <= MaxRing
        /\ registered' = registered \ {node}
        /\ ring' = [k \in DOMAIN at |-> ring[at[k]]]
        /\ hashMap' = [h \in {g \in DOMAIN hashMap : ~Owned(g)} |-> hashMap[h]]
        /\ UNCHANGED <<hash, registry, counter, pc, targets, answer>>

\* NextWithKey up to Unlock.
LazyRegister(c) ==
    /\ pc[c] = "resolved" /\ targets[c] # Error
    /\ AddTo(targets[c])
    /\ pc' = [pc EXCEPT ![c] = "search"]
    /\ UNCHANGED <<hash, registry, counter, targets, answer>>

Owner(h) == IF h \in DOMAIN hashMap THEN hashMap[h] ELSE NoAddress

TargetSet(c) == {targets[c][i] : i \in DOMAIN targets[c]}

\* The first ring position whose hash is not below the key's, or the first of
\* all; from there around to a virtual node of one of the targets.
SearchRing(c, key) ==
    LET n == Len(ring)
        start == Min({i \in 1..n : ring[i] >= hash.key[key]} \cup {n + 1})
        At(i) == Owner(ring[((start - 1 + i) % n) + 1])
        hits == {i \in 0..(n - 1) : At(i) \in TargetSet(c)}
    IN  IF n = 0 \/ hits = {} THEN targets[c][1] ELSE At(Min(hits))

\* NextWithKey from RLock on.
Search(c, key) ==
    /\ pc[c] = "search"
    /\ Chosen(c, SearchRing(c, key))
    /\ UNCHANGED <<ringVars, counter>>

Again(c) ==
    /\ pc[c] = "chosen"
    /\ pc' = [pc EXCEPT ![c] = "idle"]
    /\ answer' = [answer EXCEPT ![c] = NoAddress]
    /\ targets' = [targets EXCEPT ![c] = Error]
    /\ UNCHANGED <<hash, registry, ringVars, counter>>

Next ==
    \/ \E ts \in Lists : Register(ts) \/ Add(ts)
    \/ \E n \in Nodes : Remove(n)
    \/ \E c \in Clients :
          \/ StaticResolve(c) \/ CoreDNSResolve(c) \/ DNSResolve(c) \/ ConsulResolve(c)
          \/ NoTargets(c) \/ RoundRobinNext(c) \/ LazyRegister(c)
          \/ \E key \in Keys : Search(c, key)
          \/ Again(c)

Spec == Init /\ [][Next]_vars

-----------------------------------------------------------------------------
Distance(h, key) == (h + Space - hash.key[key]) % Space

VNodeSet(node) == {VNodes(node)[j] : j \in DOMAIN VNodes(node)}

NoCollision == \A m, n \in Nodes : m # n => VNodeSet(m) \cap VNodeSet(n) = {}

\* Who has the virtual node closest after the key, going around.
Nearest(ts, key) ==
    CHOOSE n \in ts :
        \E h \in VNodeSet(n) :
            \A m \in ts : \A g \in VNodeSet(m) : Distance(h, key) <= Distance(g, key)

\* Both balancers answer with one of the targets they were given, whatever was
\* added and removed meanwhile, and with an error only for an empty list.  When
\* no two virtual nodes collide and every target is still registered when the
\* ring is searched, the hash ring answers with the target nearest to the key,
\* a choice that depends neither on the other nodes of the ring nor on the
\* order they came in (consistent_hash.go, NextWithKey).
AnswersTarget ==
    \A c \in Clients :
        /\ pc[c] # "chosen" /\ pc'[c] = "chosen" =>
              IF targets[c] = Error THEN answer'[c] = NoAddress ELSE answer'[c] \in TargetSet(c)
        /\ NoCollision /\ TargetSet(c) \subseteq registered =>
              \A key \in Keys : Search(c, key) => answer'[c] = Nearest(TargetSet(c), key)

KeyAffinity == [][AnswersTarget]_vars

=============================================================================
