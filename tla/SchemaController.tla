-------------------------- MODULE SchemaController --------------------------
(* SchemaController of compiler/k8s: published HelixSchema events, the loop  *)
(* that compiles them, and Start and Stop around it.  A loop that Stop       *)
(* cancels finishes the compilation it is in, beside the loop of the next    *)
(* Start.                                                                    *)
EXTENDS Naturals, Sequences, FiniteSets

CONSTANTS
    Capacity,    \* of eventsChan, 100 in the code
    MaxEvents,   \* bound on the events published, which are numbered
    MaxStarts    \* bound on the loops started

VARIABLES
    queue,       \* eventsChan
    published,   \* how many events were published
    handled,     \* the events whose processEvent returned: [event, wrote]
    running,     \* c.running
    parent,      \* the context given to Start is live
    loops,       \* the loops started: [cancelled, pc, event, alone], alone when no
                 \* other compilation has run beside the one in progress
    out,         \* the event whose code is in the output directory, 0 for none
    raced        \* compilations overlapped, and none has written alone since

vars == <<queue, published, handled, running, parent, loops, out, raced>>

Init ==
    /\ queue = <<>> /\ published = 0 /\ handled = <<>> /\ running = FALSE
    /\ parent = TRUE /\ loops = <<>> /\ out = 0 /\ raced = FALSE

\* A send blocks while the channel is full.
PublishEvent ==
    /\ published < MaxEvents /\ Len(queue) < Capacity
    /\ published' = published + 1 /\ queue' = Append(queue, published')
    /\ UNCHANGED <<handled, running, parent, loops, out, raced>>

\* A Start that finds the controller running returns.
Start ==
    /\ ~running /\ Len(loops) < MaxStarts
    /\ running' = TRUE
    /\ loops' = Append(loops, [cancelled |-> FALSE, pc |-> "select", event |-> 0, alone |-> FALSE])
    /\ UNCHANGED <<queue, published, handled, parent, out, raced>>

Stop ==
    /\ running
    /\ running' = FALSE /\ loops' = [loops EXCEPT ![Len(loops)].cancelled = TRUE]
    /\ UNCHANGED <<queue, published, handled, parent, out, raced>>

\* The caller cancels the context it gave to Start; running stays true.
CancelParent ==
    /\ parent /\ loops # <<>>
    /\ parent' = FALSE
    /\ UNCHANGED <<queue, published, handled, running, loops, out, raced>>

\* runLoop's select takes an event, at random also when the context is done,
\* and processEvent starts to reconcile it.
Take(l) ==
    LET beside == {k \in DOMAIN loops : loops[k].pc = "compile"}
    IN  /\ loops[l].pc = "select" /\ queue # <<>>
        /\ queue' = Tail(queue)
        /\ loops' = [k \in DOMAIN loops |->
                        IF k = l THEN [loops[l] EXCEPT !.pc = "compile", !.event = Head(queue),
                                                       !.alone = (beside = {})]
                        ELSE [loops[k] EXCEPT !.alone = FALSE]]
        /\ raced' = (raced \/ beside # {})
        /\ UNCHANGED <<published, handled, running, parent, out>>

Return(l) ==
    /\ loops[l].pc = "select" /\ (loops[l].cancelled \/ ~parent)
    /\ loops' = [loops EXCEPT ![l].pc = "returned"]
    /\ UNCHANGED <<queue, published, handled, running, parent, out, raced>>

\* reconcile: the compiler writes the output, or fails; a deletion writes nothing.
Compiled(l) ==
    /\ loops[l].pc = "compile"
    /\ loops' = [loops EXCEPT ![l].pc = "select", ![l].event = 0, ![l].alone = FALSE]
    /\ \E wrote \in BOOLEAN :
          /\ handled' = Append(handled, [event |-> loops[l].event, wrote |-> wrote])
          /\ out' = IF wrote THEN loops[l].event ELSE out
          /\ raced' = (raced /\ ~(wrote /\ loops[l].alone))
    /\ UNCHANGED <<queue, published, running, parent>>

Loop(l) == Take(l) \/ Return(l) \/ Compiled(l)
Next == PublishEvent \/ Start \/ Stop \/ CancelParent \/ \E l \in DOMAIN loops : Loop(l)
Work == \E l \in DOMAIN loops : Loop(l)
Fairness == WF_vars(Work)
Spec == Init /\ [][Next]_vars /\ Fairness

\* While a loop that nobody stopped is left, the processing of every event
\* published ends, of each once, also of those that stopped loops had taken.
Live == running /\ parent
Handled ==
    Live => \A e \in 1..published : Cardinality({i \in DOMAIN handled : handled[i].event = e}) = 1

\* The output is that of the newest event compiled, unless compilations of a
\* stopped loop and of the next one overlapped; the first that writes with no
\* other beside it makes that good.
OutputNewest == ~raced => \A i \in DOMAIN handled : handled[i].wrote => handled[i].event <= out
=============================================================================
