---------------------------- MODULE Connections ----------------------------
(***************************************************************************)
(* What carries the bytes of a Go client and server: the pool of idle      *)
(* connections (ClientPool), the shared-memory transport (ShmTransport)    *)
(* and the QUIC transport (QuicTransport).  They share no state, so a      *)
(* behaviour is one of the part named by which; the variables of the       *)
(* others are Off.                                                         *)
(***************************************************************************)
EXTENDS Naturals, Sequences

CONSTANTS
    Clients, MaxIdle, MaxDials,                              \* of the pool
    ShmConns, ShmSize, Lengths, Buffers, MaxMessages,        \* of shared memory
    StreamKeys, StreamCap, ReadCap, MaxDatagrams             \* of QUIC

ASSUME PoolAssumption == MaxIdle \in Nat /\ MaxDials \in Nat

\* Writes may be empty; a Read asks for at least one byte.
ASSUME ShmAssumption ==
    /\ ShmConns \subseteq Nat /\ ShmSize \in Nat /\ MaxMessages \in Nat
    /\ Lengths \subseteq Nat /\ Buffers \subseteq Nat \ {0}

ASSUME QuicAssumption == StreamCap \in Nat /\ ReadCap \in Nat /\ MaxDatagrams \in Nat

VARIABLES
    which,
    conns, chanClosed, open, dialled, held, panicked, closer,
    accepted, mem, sent, out, header, signal, down, faulted, got,
    received, loop, datagram, mu, activeMap, streams, served, accepting, closed, stopper,
    readChan, leftover, streamClosed, checked, crashed, data

poolVars == <<conns, chanClosed, open, dialled, held, panicked, closer>>
shmVars == <<accepted, mem, sent, out, header, signal, down, faulted, got>>
quicVars == <<received, loop, datagram, mu, activeMap, streams, served, accepting, closed, stopper,
              readChan, leftover, streamClosed, checked, crashed, data>>
connectionVars == <<which, poolVars, shmVars, quicVars>>

P == INSTANCE ClientPool
S == INSTANCE ShmTransport WITH Conns <- ShmConns, Size <- ShmSize
Q == INSTANCE QuicTransport WITH Keys <- StreamKeys, accepted <- served, closer <- stopper

Off == "off"

PoolOff ==
    /\ conns = Off /\ chanClosed = Off /\ open = Off /\ dialled = Off /\ held = Off
    /\ panicked = Off /\ closer = Off

ShmOff ==
    /\ accepted = Off /\ mem = Off /\ sent = Off /\ out = Off /\ header = Off
    /\ signal = Off /\ down = Off /\ faulted = Off /\ got = Off

QuicOff ==
    /\ received = Off /\ loop = Off /\ datagram = Off /\ mu = Off /\ activeMap = Off /\ streams = Off
    /\ served = Off /\ accepting = Off /\ closed = Off /\ stopper = Off /\ readChan = Off
    /\ leftover = Off /\ streamClosed = Off /\ checked = Off /\ crashed = Off /\ data = Off

ConnectionsInit ==
    \/ which = "pool" /\ P!Init /\ ShmOff /\ QuicOff
    \/ which = "shm" /\ S!Init /\ PoolOff /\ QuicOff
    \/ which = "quic" /\ Q!Init /\ PoolOff /\ ShmOff

PoolStep == which = "pool" /\ P!Next /\ UNCHANGED <<which, shmVars, quicVars>>
ShmStep == which = "shm" /\ S!Next /\ UNCHANGED <<which, poolVars, quicVars>>
QuicStep == which = "quic" /\ Q!Next /\ UNCHANGED <<which, poolVars, shmVars>>

ConnectionsNext == PoolStep \/ ShmStep \/ QuicStep

\* The fairness of QuicTransport.
ConnectionsFairness ==
    /\ WF_quicVars(which = "quic" /\ Q!LoopWork)
    /\ SF_quicVars(which = "quic" /\ Q!CloserStep)
    /\ WF_quicVars(which = "quic" /\ Q!Accept)

ConnectionsSpec == ConnectionsInit /\ [][ConnectionsNext]_connectionVars

-----------------------------------------------------------------------------
(* Properties: those of the parts, each about its own behaviours. *)

\* ClientPool!OneOwner: no connection is shared or lost; and Ownership, which
\* is inductive.
OneOwner == which = "pool" => P!OneOwner /\ P!Ownership

\* ShmTransport!PingPongIntact: what nobody overwrote is read as written.
PingPongIntact == which = "shm" => S!PingPongIntact

\* QuicTransport!StreamInOrder: the bytes of a stream, in order.
StreamInOrder == which = "quic" => Q!StreamInOrder

\* QuicTransport!ListenerStops: Close returns and readLoop ends.
ListenerStops ==
    (which = "quic" /\ stopper = "lock") ~> (which = "quic" /\ (crashed \/ Q!ListenerStopped))
=============================================================================
