----------------------------- MODULE NodeClient -----------------------------
(* The TypeScript client and the React hooks that GenerateNode emits for a   *)
(* server-streaming and for a unary method: one component whose request      *)
(* changes while calls are in flight.  The SSE body is the one that          *)
(* GRPCHandler writes, cut by the network at any byte: a line travels as its *)
(* first part and as its rest with the newline.                              *)
EXTENDS Naturals, Sequences, SequencesExt

CONSTANTS
    Bodies,     \* the data lines a response may carry before [DONE]
    MaxCalls    \* how many calls the component makes

VARIABLES
    kind,       \* "stream" or "unary", the method's hook
    idle,       \* the component's request is null
    calls,      \* the calls made: [active, pc, body, pos, buffer, lines]
    data, loading, error   \* the state of the hook

vars == <<kind, idle, calls, data, loading, error>>

Done == "[DONE]"
Ids == DOMAIN calls
Latest == Len(calls)

\* What the server writes, as parts <<line, 1>> and <<line, 2>>.
Wire(c) == LET lines == Append(calls[c].body, Done)
           IN  [i \in 1..(2 * Len(lines)) |-> <<lines[(i + 1) \div 2], 2 - (i % 2)>>]

Init ==
    /\ kind \in {"stream", "unary"}
    /\ idle = TRUE /\ calls = <<>> /\ data = <<>> /\ loading = FALSE /\ error = FALSE

\* Mutant: the effect returns no cleanup.
CleanedNever == calls

\* The effect's cleanup: return () => { active = false; }.
Cleaned == [c \in Ids |-> [calls[c] EXCEPT !.active = FALSE]]

\* The request changes: the old effect is cleaned up and the new one runs.
Request(body) ==
    /\ Len(calls) < MaxCalls
    /\ idle' = FALSE /\ loading' = TRUE /\ error' = FALSE
    /\ data' = IF kind = "stream" THEN <<>> ELSE data
    /\ calls' = Append(Cleaned, [active |-> TRUE, pc |-> "fetch", body |-> body, pos |-> 0,
                                 buffer |-> <<>>, lines |-> <<>>])
    /\ UNCHANGED kind

\* The request becomes null: cleanup, and the new effect returns at once.
RequestNull ==
    /\ ~idle /\ idle' = TRUE /\ calls' = Cleaned
    /\ UNCHANGED <<kind, data, loading, error>>

\* The headers of the response: an error status throws.
Respond(c) ==
    /\ calls[c].pc = "fetch"
    /\ calls' = [calls EXCEPT ![c].pc = "read"]
    /\ UNCHANGED <<kind, idle, data, loading, error>>

\* fetch, res.json() or reader.read() throws.
Throw(c) ==
    /\ calls[c].pc \in {"fetch", "read"} /\ calls[c].lines = <<>>
    /\ calls' = [calls EXCEPT ![c].pc = "end"]
    /\ error' = (error \/ calls[c].active)
    /\ loading' = (loading /\ ~calls[c].active)
    /\ UNCHANGED <<kind, idle, data>>

\* reader.read() answers a chunk: whole lines are split off the buffer, which
\* keeps the last, unfinished one.  The body's last line is [DONE], at which the
\* generator returns, so `if (done) break` is never reached; GRPCHandler marshals
\* every line, so JSON.parse does not throw on one.
SplitLines(parts) ==
    LET ends == {i \in DOMAIN parts : parts[i][2] = 2}
    IN  SelectSeq([i \in DOMAIN parts |->
            IF i \in ends /\ i > 1 /\ parts[i - 1][2] = 1 THEN parts[i][1] ELSE ""],
            LAMBDA l : l # "")
Rest(parts) == IF parts # <<>> /\ Last(parts)[2] = 1 THEN <<Last(parts)>> ELSE <<>>
ReadChunk(c, n) ==
    LET text == calls[c].buffer \o SubSeq(Wire(c), calls[c].pos + 1, n)
    IN  /\ kind = "stream" /\ calls[c].pc = "read" /\ calls[c].lines = <<>>
        /\ n \in (calls[c].pos + 1)..Len(Wire(c))
        /\ calls' = [calls EXCEPT ![c].pos = n, ![c].lines = SplitLines(text), ![c].buffer = Rest(text)]
        /\ UNCHANGED <<kind, idle, data, loading, error>>

\* The generator yields the next line's data to the hook's for await loop,
\* which leaves off when the effect is no longer active; [DONE] returns.
Yield(c) ==
    LET line == Head(calls[c].lines)
        active == calls[c].active
    IN  /\ calls[c].pc = "read" /\ calls[c].lines # <<>>
        /\ data' = IF active /\ line # Done THEN Append(data, <<c, line>>) ELSE data
        /\ calls' = [calls EXCEPT ![c].lines = Tail(@),
                                  ![c].pc = IF active /\ line # Done THEN @ ELSE "end"]
        /\ loading' = (loading /\ ~(active /\ line = Done))
        /\ UNCHANGED <<kind, idle, error>>

\* The promise of a unary call: .then(res => ...).
Resolve(c) ==
    LET active == calls[c].active
    IN  /\ kind = "unary" /\ calls[c].pc = "read"
        /\ data' = IF active THEN <<<<c, calls[c].body>>>> ELSE data
        /\ loading' = (loading /\ ~active)
        /\ calls' = [calls EXCEPT ![c].pc = "end"]
        /\ UNCHANGED <<kind, idle, error>>

Next ==
    \/ \E body \in Bodies : Request(body)
    \/ RequestNull
    \/ \E c \in Ids : Respond(c) \/ Throw(c) \/ Yield(c) \/ Resolve(c)
    \/ \E c \in Ids : \E n \in 1..Len(Wire(c)) : ReadChunk(c, n)

Spec == Init /\ [][Next]_vars

\* However the network cuts the bodies and however the calls overlap, a hook
\* shows the call of its latest request and no other: the stream's lines in
\* order without gaps, all of them once it stops loading without an error; a
\* unary result is the latest call's once it stops loading.  While a request is set, loading ends when, and only
\* when, its call does.  (After RequestNull it stays as it was: the generated
\* effect returns before it would reset it.)
HookShowsLatest ==
    LET last == calls[Latest]
        whole == [i \in DOMAIN last.body |-> <<Latest, last.body[i]>>]
        settled == last.pc = "end" /\ last.active
    IN  calls # <<>> =>
        /\ kind = "stream" => IsPrefix(data, whole)
        /\ settled /\ ~error => data = IF kind = "stream" THEN whole ELSE <<<<Latest, last.body>>>>
        /\ error => settled \/ idle
        /\ ~idle => (loading <=> ~settled)
=============================================================================
