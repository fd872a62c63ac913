----------------------------- MODULE ClientPool -----------------------------
(***************************************************************************)
(* ClientConnPool of runtimes/go/client_pool.go: idle connections wait in  *)
(* a buffered channel.  Get and Put are one channel operation each; Close  *)
(* closes the channel and then empties it, and the goroutines that still   *)
(* use the pool run between its steps.                                     *)
(***************************************************************************)
EXTENDS Naturals, Sequences

CONSTANTS
    Clients,         \* goroutines that use the pool
    MaxIdle,         \* capacity of the channel
    MaxDials         \* bound: connections dialled in a run

VARIABLES
    conns,           \* p.conns: the buffer of the channel
    chanClosed,      \* p.conns is closed
    open,            \* the connections that are open
    dialled,         \* how many have been dialled
    held,            \* what each client got from Get and still has
    panicked,        \* clients whose Put or Close panicked
    closer           \* how far Close is: "none", "draining", "returned"

vars == <<conns, chanClosed, open, dialled, held, panicked, closer>>

Nothing == 0
NilConn == MaxDials + 1          \* the nil that a closed channel yields
Conns == 1..MaxDials

Init ==
    /\ conns = <<>> /\ chanClosed = FALSE
    /\ open = {} /\ dialled = 0
    /\ held = [c \in Clients |-> Nothing]
    /\ panicked = {}
    /\ closer = "none"

Free(c) == held[c] = Nothing /\ c \notin panicked

\* The receive succeeds: an idle connection, or nil once Close has closed and
\* emptied the channel.
GetIdle(c) ==
    /\ Free(c) /\ (conns # <<>> \/ chanClosed)
    /\ held' = [held EXCEPT ![c] = IF conns # <<>> THEN Head(conns) ELSE NilConn]
    /\ conns' = IF conns # <<>> THEN Tail(conns) ELSE conns
    /\ UNCHANGED <<chanClosed, open, dialled, panicked, closer>>

\* The default branch; a Dial that fails changes nothing.
GetDial(c) ==
    /\ Free(c) /\ conns = <<>> /\ ~chanClosed /\ dialled < MaxDials
    /\ dialled' = dialled + 1
    /\ open' = open \cup {dialled'}
    /\ held' = [held EXCEPT ![c] = dialled']
    /\ UNCHANGED <<conns, chanClosed, panicked, closer>>

\* Mutant: a full pool is not a reason to close the connection.
PutNoClose(c) ==
    /\ held[c] # Nothing /\ c \notin panicked
    /\ held' = [held EXCEPT ![c] = Nothing]
    /\ conns' = IF held[c] \in Conns /\ Len(conns) < MaxIdle THEN Append(conns, held[c]) ELSE conns
    /\ UNCHANGED <<chanClosed, open, dialled, panicked, closer>>

\* nil is ignored; a send on the closed channel panics; a full channel takes
\* the default branch, which closes the connection.
Put(c) ==
    /\ held[c] # Nothing /\ c \notin panicked
    /\ \/ /\ held[c] = NilConn
          /\ UNCHANGED <<conns, open, panicked>>
       \/ /\ held[c] \in Conns /\ chanClosed
          /\ panicked' = panicked \cup {c}
          /\ UNCHANGED <<conns, open>>
       \/ /\ held[c] \in Conns /\ ~chanClosed /\ Len(conns) < MaxIdle
          /\ conns' = Append(conns, held[c])
          /\ UNCHANGED <<open, panicked>>
       \/ /\ held[c] \in Conns /\ ~chanClosed /\ Len(conns) >= MaxIdle
          /\ open' = open \ {held[c]}
          /\ UNCHANGED <<conns, panicked>>
    /\ held' = IF c \in panicked' THEN held ELSE [held EXCEPT ![c] = Nothing]
    /\ UNCHANGED <<chanClosed, dialled, closer>>

Close ==
    /\ closer = "none"
    /\ chanClosed' = TRUE
    /\ closer' = "draining"
    /\ UNCHANGED <<conns, open, dialled, held, panicked>>

\* One round of "for conn := range p.conns".
Drain ==
    /\ closer = "draining"
    /\ IF conns = <<>>
       THEN closer' = "returned" /\ UNCHANGED <<conns, open>>
       ELSE conns' = Tail(conns) /\ open' = open \ {Head(conns)} /\ UNCHANGED closer
    /\ UNCHANGED <<chanClosed, dialled, held, panicked>>

\* close(p.conns) of a closed channel panics.
CloseAgain(c) ==
    /\ Free(c) /\ chanClosed
    /\ panicked' = panicked \cup {c}
    /\ UNCHANGED <<conns, chanClosed, open, dialled, held, closer>>

Next ==
    \/ \E c \in Clients : GetIdle(c) \/ GetDial(c) \/ Put(c) \/ CloseAgain(c)
    \/ Close
    \/ Drain

Spec == Init /\ [][Next]_vars

-----------------------------------------------------------------------------
Idle == {conns[i] : i \in DOMAIN conns}
Held == {held[c] : c \in Clients} \cap Conns

\* Every open connection has exactly one owner: the pool, where it waits once,
\* or one client; and every connection the pool or a client has is open.  No
\* more than MaxIdle wait, and after Close has returned none does
\* (client_pool.go, Get, Put and Close).
OneOwner ==
    /\ open = Idle \cup Held
    /\ Idle \cap Held = {}
    /\ \A i, j \in DOMAIN conns : conns[i] = conns[j] => i = j
    /\ Len(conns) <= MaxIdle
    /\ \A c, d \in Clients : held[c] = held[d] /\ held[c] \in Conns => c = d
    /\ closer = "returned" => conns = <<>>

\* Why OneOwner holds, position by position: idle connections are pairwise
\* different, differ from those held and were dialled before, an open one is
\* somewhere, and the channel is closed from the beginning of Close on.
Ownership ==
    /\ conns \in Seq(Conns) /\ Len(conns) <= MaxIdle
    /\ dialled \in 0..MaxDials
    /\ held \in [Clients -> 0..NilConn]
    /\ \A i, j \in 1..Len(conns) : conns[i] = conns[j] => i = j
    /\ \A i \in 1..Len(conns) : \A c \in Clients : conns[i] # held[c]
    /\ \A c, d \in Clients : held[c] = held[d] /\ held[c] \in Conns => c = d
    /\ \A i \in 1..Len(conns) : conns[i] \in open
    /\ \A c \in Clients : held[c] \in Conns => held[c] \in open
    /\ \A x \in open :
          /\ x \in 1..dialled
          /\ (\E i \in 1..Len(conns) : conns[i] = x) \/ (\E c \in Clients : held[c] = x)
    /\ chanClosed \in BOOLEAN
    /\ closer \in {"none", "draining", "returned"}
    /\ chanClosed <=> closer # "none"
    /\ closer = "returned" => conns = <<>>

=============================================================================
