---------------------------- MODULE ShmTransport ----------------------------
(***************************************************************************)
(* SHMConn and SHMListener of runtimes/go/shm_transport.go: a Write copies *)
(* its data to offset 0 of one shared file and then tells its length over  *)
(* a socket; a Read waits for the length and then copies from the file.    *)
(* Both directions and all connections of a listener share the one file.   *)
(***************************************************************************)
EXTENDS Naturals, Sequences

CONSTANTS
    Conns,           \* connections, in the order they are accepted: 1..n
    Size,            \* bytes of the file
    Lengths,         \* lengths of the data written
    Buffers,         \* lengths of the slices Reads pass
    MaxMessages      \* bound: Writes in a run

VARIABLES
    accepted,        \* connections accepted so far
    mem,             \* the file: which message each byte is of, 0 if of none
    sent,            \* Writes begun so far; a message is known by its number
    out,             \* the message an end's Write has copied and not yet signalled
    header,          \* the header an end's Read holds
    signal,          \* headers on their way to each end
    down,            \* ends that have called Close
    faulted,         \* ends whose Read touched the unmapped file
    got              \* the result of each end's latest Read

vars == <<accepted, mem, sent, out, header, signal, down, faulted, got>>

Sides == {"client", "server"}
Ends == Conns \X Sides
Other(e) == <<e[1], IF e[2] = "client" THEN "server" ELSE "client">>

NoMsg == [id |-> 0, length |-> 0, clean |-> TRUE]
Blank == [i \in 1..Size |-> 0]
NothingRead == [msg |-> NoMsg, bytes |-> <<>>]

Init ==
    /\ accepted = 0 /\ mem = Blank /\ sent = 0
    /\ out = [e \in Ends |-> NoMsg]
    /\ header = [e \in Ends |-> NoMsg]
    /\ signal = [e \in Ends |-> <<>>]
    /\ down = {} /\ faulted = {}
    /\ got = [e \in Ends |-> NothingRead]

\* A server end is there once accepted; a client end opens the file, which is
\* there once any connection was accepted.
Live(e) == e \notin down /\ accepted >= (IF e[2] = "server" THEN e[1] ELSE 1)

\* History: a message is clean until another writes the file before it is read.
Soiled(m) == [m EXCEPT !.clean = m.id = 0]
Overwritten ==
    /\ signal' = [e \in Ends |-> [i \in DOMAIN signal[e] |-> Soiled(signal[e][i])]]
    /\ header' = [e \in Ends |-> Soiled(header[e])]

\* SHMListener.Accept: NewSHMConn as owner truncates the file.  Opening, sizing
\* and mapping it are one step: an access that falls between the truncation and
\* the sizing, which faults, is left out.
Accept ==
    /\ accepted + 1 \in Conns
    /\ accepted' = accepted + 1
    /\ mem' = Blank
    /\ Overwritten
    /\ out' = [e \in Ends |-> Soiled(out[e])]
    /\ UNCHANGED <<sent, down, faulted, got>>

\* Mutant: the header is sent before the data is copied.
WriteCopySignalsFirst(e, n) ==
    /\ Live(e) /\ out[e] = NoMsg /\ n <= Size /\ sent < MaxMessages
    /\ sent' = sent + 1
    /\ signal' = [signal EXCEPT ![Other(e)] =
                     Append(@, [id |-> sent', length |-> n, clean |-> TRUE])]
    /\ UNCHANGED <<accepted, mem, out, header, down, faulted, got>>

\* A Write longer than the file is refused.  mu keeps the Writes of one end
\* apart, and no others.
WriteCopy(e, n) ==
    /\ Live(e) /\ out[e] = NoMsg /\ n <= Size /\ sent < MaxMessages
    /\ sent' = sent + 1
    /\ mem' = [i \in 1..Size |-> IF i <= n THEN sent' ELSE mem[i]]
    /\ Overwritten
    /\ out' = [f \in Ends |-> IF f = e THEN [id |-> sent', length |-> n, clean |-> TRUE]
                              ELSE Soiled(out[f])]
    /\ UNCHANGED <<accepted, down, faulted, got>>

\* The header is sent, or lost with the socket of an end that is closed.
WriteSignal(e) ==
    /\ out[e] # NoMsg
    /\ signal' = IF Other(e) \in down THEN signal
                 ELSE [signal EXCEPT ![Other(e)] = Append(@, out[e])]
    /\ out' = [out EXCEPT ![e] = NoMsg]
    /\ UNCHANGED <<accepted, mem, sent, header, down, faulted, got>>

ReadHeader(e) ==
    /\ Live(e) /\ header[e] = NoMsg /\ signal[e] # <<>>
    /\ header' = [header EXCEPT ![e] = Head(signal[e])]
    /\ signal' = [signal EXCEPT ![e] = Tail(@)]
    /\ UNCHANGED <<accepted, mem, sent, out, down, faulted, got>>

\* copy(b, mmapData[0:length]): what does not fit into b is lost.  Read does
\* not hold mu, so Close may have unmapped the file: the process then faults.
ReadCopy(e, buf) ==
    LET n == IF header[e].length < buf THEN header[e].length ELSE buf
    IN  /\ header[e] # NoMsg
        /\ IF e \in down
           THEN faulted' = faulted \cup {e} /\ UNCHANGED got
           ELSE /\ got' = [got EXCEPT ![e] = [msg |-> header[e], bytes |-> SubSeq(mem, 1, n)]]
                /\ UNCHANGED faulted
        /\ header' = [header EXCEPT ![e] = NoMsg]
        /\ UNCHANGED <<accepted, mem, sent, out, signal, down>>

\* Close takes mu, which a Write holds until it returns; headers already sent
\* still reach the other end.
Close(e) ==
    /\ Live(e) /\ out[e] = NoMsg
    /\ down' = down \cup {e}
    /\ UNCHANGED <<accepted, mem, sent, out, header, signal, faulted, got>>

Next ==
    \/ Accept
    \/ \E e \in Ends :
          \/ \E n \in Lengths : WriteCopy(e, n)
          \/ WriteSignal(e) \/ ReadHeader(e) \/ Close(e)
          \/ \E buf \in Buffers : ReadCopy(e, buf)

Spec == Init /\ [][Next]_vars

-----------------------------------------------------------------------------
\* The ping-pong model of the transport: a message that nobody overwrote before
\* it was read is read as it was written, from its first byte on, and up to its
\* length or that of the reader's slice (shm_transport.go, Write and Read).
PingPongIntact ==
    \A e \in Ends :
        /\ got[e].msg.clean =>
              \A i \in DOMAIN got[e].bytes : got[e].bytes[i] = got[e].msg.id
        /\ Len(got[e].bytes) <= got[e].msg.length
        /\ got[e].bytes = <<>> => got[e].msg.length = 0

=============================================================================
