---------------------------- MODULE QuicTransport ----------------------------
(***************************************************************************)
(* The listener and the streams of runtimes/go/quic_transport.go: one      *)
(* goroutine reads datagrams, opens a stream for every new key (remote     *)
(* address and stream number) and hands each datagram to its stream;       *)
(* Accept and the streams' Reads take from channels, Close stops it all.   *)
(*                                                                         *)
(* A datagram is known by its number in the order readLoop receives them   *)
(* (UDP may have lost, duplicated or reordered what was sent) and has two  *)
(* bytes.  A datagram of less than four bytes is skipped: no step.         *)
(***************************************************************************)
EXTENDS Naturals, Sequences

CONSTANTS
    Keys,
    StreamCap,       \* capacity of l.streams (1024 in the code)
    ReadCap,         \* capacity of a readChan (256)
    MaxDatagrams     \* bound: datagrams received in a run

VARIABLES
    received,        \* datagrams received so far
    loop,            \* where readLoop is
    datagram,        \* the key of the datagram it holds
    mu,              \* who holds l.mu
    activeMap,       \* keys that have a stream
    streams,         \* l.streams
    accepted,        \* streams that Accept has returned
    accepting,       \* the application calls Accept, until it fails
    closed,          \* l.closed is closed
    closer,          \* where Close of the listener is
    readChan, leftover,
    streamClosed,    \* streams whose closed channel is closed
    checked,         \* who, of app and listener, found a stream not yet closed
    crashed,         \* a second close of one channel has panicked
    data             \* history: what the application read from each stream

loopVars == <<received, loop, datagram>>
streamVars == <<readChan, leftover, data>>
vars == <<loopVars, mu, activeMap, streams, accepted, accepting, closed, closer, streamVars,
          streamClosed, checked, crashed>>

None == "none"
Closers == {"app", "listener"}

Init ==
    /\ received = 0 /\ loop = "recv" /\ datagram = None /\ mu = None
    /\ activeMap = {} /\ streams = <<>> /\ accepted = {} /\ accepting = TRUE
    /\ closed = FALSE /\ closer = "none"
    /\ readChan = [k \in Keys |-> <<>>]
    /\ leftover = [k \in Keys |-> <<>>]
    /\ data = [k \in Keys |-> <<>>]
    /\ streamClosed = {} /\ checked = {} /\ crashed = FALSE

\* A panic ends the process.
Running == ~crashed

ReadFromUDP(k) ==
    /\ Running /\ loop = "recv" /\ ~closed /\ received < MaxDatagrams
    /\ received' = received + 1
    /\ datagram' = k
    /\ loop' = "lock"
    /\ UNCHANGED <<mu, activeMap, streams, accepted, accepting, closed, closer, streamVars,
                   streamClosed, checked, crashed>>

\* The socket is closed: ReadFromUDP fails, and l.closed is closed.
LoopEnds ==
    /\ Running /\ loop = "recv" /\ closed
    /\ loop' = "ended"
    /\ UNCHANGED <<received, datagram, mu, activeMap, streams, accepted, accepting, closed, closer,
                   streamVars, streamClosed, checked, crashed>>

\* Under l.mu: a known key needs nothing, a new one gets its stream.
Lookup ==
    /\ Running /\ loop = "lock" /\ mu = None
    /\ IF datagram \in activeMap
       THEN loop' = "deliver" /\ UNCHANGED <<mu, activeMap>>
       ELSE /\ loop' = "publish"
            /\ mu' = "loop"
            /\ activeMap' = activeMap \cup {datagram}
    /\ UNCHANGED <<received, datagram, streams, accepted, accepting, closed, closer, streamVars,
                   streamClosed, checked, crashed>>

\* l.streams <- sConn, which blocks with l.mu held when the channel is full.
Publish ==
    /\ Running /\ loop = "publish" /\ Len(streams) < StreamCap
    /\ streams' = Append(streams, datagram)
    /\ mu' = None
    /\ loop' = "deliver"
    /\ UNCHANGED <<received, datagram, activeMap, accepted, accepting, closed, closer, streamVars,
                   streamClosed, checked, crashed>>

Bytes(n) == <<[dgram |-> n, byte |-> 1], [dgram |-> n, byte |-> 2]>>

\* Mutant: the send waits for room in readChan.
DeliverBlocking ==
    /\ Running /\ loop = "deliver" /\ Len(readChan[datagram]) < ReadCap
    /\ readChan' = [readChan EXCEPT ![datagram] = Append(@, Bytes(received))]
    /\ datagram' = None
    /\ loop' = "recv"
    /\ UNCHANGED <<received, mu, activeMap, streams, accepted, accepting, closed, closer, leftover, data,
                   streamClosed, checked, crashed>>

\* A full readChan drops the datagram; a closed stream still collects them.
Deliver ==
    /\ Running /\ loop = "deliver"
    /\ readChan' = IF Len(readChan[datagram]) < ReadCap
                   THEN [readChan EXCEPT ![datagram] = Append(@, Bytes(received))]
                   ELSE readChan
    /\ datagram' = None
    /\ loop' = "recv"
    /\ UNCHANGED <<received, mu, activeMap, streams, accepted, accepting, closed, closer, leftover, data,
                   streamClosed, checked, crashed>>

\* With l.closed closed and a stream waiting, either branch may be taken; the
\* application stops when Accept returns net.ErrClosed.
Accept ==
    /\ Running /\ accepting
    /\ \/ /\ streams # <<>>
          /\ accepted' = accepted \cup {Head(streams)}
          /\ streams' = Tail(streams)
          /\ UNCHANGED accepting
       \/ /\ closed
          /\ accepting' = FALSE
          /\ UNCHANGED <<accepted, streams>>
    /\ UNCHANGED <<loopVars, mu, activeMap, closed, closer, streamVars, streamClosed, checked, crashed>>

-----------------------------------------------------------------------------
(* QUICStreamConn.                                                         *)

\* Mutant: what did not fit into b is forgotten.
ReadForgets(k, n) ==
    /\ Running /\ k \in accepted /\ readChan[k] # <<>>
    /\ data' = [data EXCEPT ![k] = @ \o SubSeq(Head(readChan[k]), 1, n)]
    /\ readChan' = [readChan EXCEPT ![k] = Tail(@)]
    /\ UNCHANGED <<loopVars, mu, activeMap, streams, accepted, accepting, closed, closer, leftover,
                   streamClosed, checked, crashed>>

\* Read into a slice of n bytes: what is left over first, else a datagram.
\* With data waiting and the stream closed either branch of select may be taken.
Read(k, n) ==
    LET packet == IF leftover[k] # <<>> THEN leftover[k] ELSE Head(readChan[k])
    IN  /\ Running /\ k \in accepted
        /\ leftover[k] # <<>> \/ readChan[k] # <<>>
        /\ data' = [data EXCEPT ![k] = @ \o SubSeq(packet, 1, n)]
        /\ leftover' = [leftover EXCEPT ![k] = SubSeq(packet, n + 1, Len(packet))]
        /\ readChan' = IF leftover[k] # <<>> THEN readChan ELSE [readChan EXCEPT ![k] = Tail(@)]
        /\ UNCHANGED <<loopVars, mu, activeMap, streams, accepted, accepting, closed, closer,
                       streamClosed, checked, crashed>>

ReadSlices(k) == {n \in 1..2 : leftover[k] = <<>> \/ n <= Len(leftover[k])}

\* Close of a stream: the select, and then close(c.closed).
MayClose(k, who) ==
    \/ who = "app" /\ k \in accepted
    \/ who = "listener" /\ closer = "streams" /\ k \in activeMap

CloseCheck(k, who) ==
    /\ Running /\ MayClose(k, who) /\ k \notin streamClosed /\ <<k, who>> \notin checked
    /\ checked' = checked \cup {<<k, who>>}
    /\ UNCHANGED <<loopVars, mu, activeMap, streams, accepted, accepting, closed, closer, streamVars,
                   streamClosed, crashed>>

CloseChannel(k, who) ==
    /\ Running /\ <<k, who>> \in checked
    /\ checked' = checked \ {<<k, who>>}
    /\ streamClosed' = streamClosed \cup {k}
    /\ crashed' = (k \in streamClosed)
    /\ UNCHANGED <<loopVars, mu, activeMap, streams, accepted, accepting, closed, closer, streamVars>>

-----------------------------------------------------------------------------
(* Close of the listener: under l.mu it closes the channel, the socket and *)
(* then every stream.                                                      *)

CloseListener ==
    /\ Running /\ closer = "none"
    /\ closer' = "lock"
    /\ UNCHANGED <<loopVars, mu, activeMap, streams, accepted, accepting, closed, streamVars,
                   streamClosed, checked, crashed>>

CloseLocked ==
    /\ Running /\ closer = "lock" /\ mu = None
    /\ closer' = "streams"
    /\ mu' = "closer"
    /\ closed' = TRUE
    /\ UNCHANGED <<loopVars, activeMap, streams, accepted, accepting, streamVars, streamClosed, checked, crashed>>

CloseReturns ==
    /\ Running /\ closer = "streams"
    /\ activeMap \subseteq streamClosed /\ \A k \in Keys : <<k, "listener">> \notin checked
    /\ closer' = "returned"
    /\ mu' = None
    /\ UNCHANGED <<loopVars, activeMap, streams, accepted, accepting, closed, streamVars,
                   streamClosed, checked, crashed>>

LoopWork == LoopEnds \/ Lookup \/ Publish \/ Deliver

CloserStep ==
    \/ CloseLocked
    \/ \E k \in Keys : CloseCheck(k, "listener") \/ CloseChannel(k, "listener")
    \/ CloseReturns

Next ==
    \/ LoopWork \/ Accept \/ CloseListener \/ CloserStep
    \/ \E k \in Keys :
          \/ ReadFromUDP(k)
          \/ \E n \in ReadSlices(k) : Read(k, n)
          \/ CloseCheck(k, "app") \/ CloseChannel(k, "app")

\* The scheduler runs readLoop, Close and the goroutine that accepts; sync.Mutex
\* hands l.mu to a waiter that has starved.
Fairness ==
    /\ WF_vars(LoopWork)
    /\ SF_vars(CloserStep)
    /\ WF_vars(Accept)

Spec == Init /\ [][Next]_vars /\ Fairness

-----------------------------------------------------------------------------
Position(d) == 2 * d.dgram + d.byte

\* What the application reads from a stream are bytes of the datagrams
\* received for it, in the order they were received, none twice, and of a
\* datagram that it has begun to read no byte is skipped: a loss is a whole
\* datagram (quic_transport.go, readLoop and Read).
StreamInOrder ==
    \A k \in Keys :
        \A i \in 1..(Len(data[k]) - 1) :
            /\ Position(data[k][i]) < Position(data[k][i + 1])
            /\ data[k][i].byte = 1 => data[k][i + 1] = [data[k][i] EXCEPT !.byte = 2]
            /\ data[k][i].byte = 2 => data[k][i + 1].byte = 1

\* readLoop sends a stream that nobody will accept to a full channel.
Stranded == loop = "publish" /\ Len(streams) = StreamCap /\ ~accepting

ListenerStopped == closer = "returned" /\ (loop = "ended" \/ Stranded)

\* An application that calls Accept until it fails lets Close of the listener
\* return, and readLoop ends then, except where a stream of a datagram that
\* came before Close finds l.streams full, or where a stream closed by both
\* its application and the listener has ended the process
\* (quic_transport.go, Close and readLoop).
ListenerStops == closer = "lock" ~> (crashed \/ ListenerStopped)

=============================================================================
