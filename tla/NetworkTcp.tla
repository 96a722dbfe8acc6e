------------------------------ MODULE NetworkTcp ------------------------------
(***************************************************************************)
(* The TCP half of src/kernel/network.c: the connection table, passive and *)
(* active open, the one-segment retransmission, the blocking calls that    *)
(* pump the device while they wait, and the accounting of slots, listeners *)
(* and timers.                                                             *)
(*                                                                         *)
(* The stack is single threaded: a call runs to its end, and between two   *)
(* of its checks network_service may hand any number of received segments  *)
(* to tcp_receive_segment.  Deadlines are nondeterministic: a check may    *)
(* find them reached or not.  Segments in flight form a queue each way; a   *)
(* bounded number of them goes astray: a stray segment, or a stray copy of *)
(* one, arrives at any later time or never.  The remote endpoints are      *)
(* conforming TCP peers outside the repository.                            *)
(***************************************************************************)
EXTENDS Integers, Sequences, FiniteSets, SequencesExt

CONSTANTS
    Slots,             \* 1 .. NETWORK_MAX_TCP_CONNECTIONS
    Peers,             \* remote endpoints
    Roles,             \* what a peer may be: see PeerRoles
    MaxBacklog,        \* NETWORK_TCP_MAX_BACKLOG
    RetransmissionLimit, \* NETWORK_TCP_RETRANSMISSION_LIMIT
    RxBytes,           \* NETWORK_TCP_RX_BYTES
    MaxTimers,         \* NETWORK_MAX_TIMERS
    SequenceSpace,     \* 2^32 in the code
    Isns,              \* the initial sequence numbers random_u32 returns, in order
    PeerIsn,           \* the peers' initial sequence number
    MaxBytes,          \* bound: bytes exchanged with a peer, both directions
    MaxGeneration,     \* bound: generations handed out
    MaxOpens,          \* bound: the last generation network_tcp_open takes
    MaxUpsets          \* bound: upsets, aborts, cancels, deadlines,
                       \* terminations, retransmissions refused

PeerRoles == {"client", "vanisher", "server"}

ASSUME TcpAssumption ==
    /\ MaxBacklog \in Nat \ {0}
    /\ RetransmissionLimit \in Nat
    /\ MaxTimers \in Nat \ {0}
    /\ RxBytes \in Nat
    /\ Slots \subseteq Nat
    /\ IsFiniteSet(Slots)
    /\ Roles \subseteq PeerRoles

VARIABLES
    tcp,         \* runtime.tcp
    call,        \* the network call in progress
    generation,  \* runtime.next_socket_generation
    connections, \* runtime.public.tcp_connections
    listeners,   \* runtime.public.tcp_listeners
    timers,      \* runtime.timers
    configured,  \* runtime.public.configuration.configured
    upsets,      \* the events MaxUpsets bounds, so far
    drawn,       \* initial sequence numbers drawn so far
    held,        \* handles the process holds
    peer,        \* the remote endpoints
    outbound,    \* segments in flight to the peers
    inbound,     \* segments in flight to the stack
    stray,       \* segments late, repeated or lost
    emitted,     \* history: bytes sent to each peer, in order
    written,     \* history: those of them network_tcp_write reported
    delivered    \* history: bytes network_tcp_read returned, per peer

vars == <<tcp, call, generation, connections, listeners, timers, configured,
          upsets, drawn, held, peer, outbound, inbound, stray, emitted, written,
          delivered>>

NoPeer == "no peer"
NoPort == "no port"
ListenPort == "listen"
EphemeralPorts == {"ephemeral 1", "ephemeral 2"}

Add(sequence, n) == (sequence + n) % SequenceSpace

\* (int32_t)(left - right) < 0.
sequence_before(left, right) ==
    ((left - right) % SequenceSpace) >= SequenceSpace \div 2

-----------------------------------------------------------------------------
(* Connections and segments.                                               *)

Closed == [active |-> FALSE, gen |-> 0, state |-> "closed", lport |-> NoPort,
           peer |-> NoPeer, una |-> 0, nxt |-> 0, rcv |-> 0, buffer |-> <<>>,
           rtx |-> {}, rtxData |-> <<>>, rtxCount |-> 0, backlog |-> 0,
           listener |-> 0, pending |-> FALSE, error |-> "ok",
           cancelled |-> FALSE, peerClosed |-> FALSE, finSent |-> FALSE]

Segment(to, p, lport, flags, seq, ack, wnd, data) ==
    [to |-> to, peer |-> p, lport |-> lport, flags |-> flags, seq |-> seq,
     ack |-> ack, wnd |-> wnd, data |-> data]

\* The segment tcp_emit builds: the acknowledgement and the window come from
\* the connection as it is when the segment leaves.
Outgoing(c, flags, seq, data) ==
    Segment("peer", c.peer, c.lport, flags, seq, c.rcv,
            RxBytes - Len(c.buffer), data)

\* ipv4_send refuses while the stack is not configured.
Sent(segments) ==
    IF configured THEN outbound \o SetToSeq(segments) ELSE outbound

tcp_ack(c) == Outgoing(c, {"ACK"}, c.nxt, <<>>)

\* The reset tcp_refuse answers with, for a segment nobody expects.
tcp_refuse(p, lport, seq, ack, flags, length) ==
    IF "RST" \in flags THEN {}
    ELSE IF "ACK" \in flags
         THEN {Segment("peer", p, lport, {"RST"}, ack, 0, 0, <<>>)}
         ELSE {Segment("peer", p, lport, {"RST", "ACK"}, 0,
                       Add(seq, length + Cardinality(flags \cap {"SYN", "FIN"})),
                       0, <<>>)}

\* What random_u32 may return next.
NextIsn == {Isns[i] : i \in {drawn + 1} \cap DOMAIN Isns}

Active == {s \in Slots : tcp[s].active}
FreeSlots == Slots \ Active
FirstFree == CHOOSE s \in FreeSlots : \A t \in FreeSlots : s <= t

tcp_port_used(port) == \E s \in Active : tcp[s].lport = port

tcp_match(seg) ==
    {s \in Active : /\ tcp[s].state # "listen"
                    /\ tcp[s].peer = seg.peer
                    /\ tcp[s].lport = seg.lport}

tcp_listener_for(port) ==
    {s \in Active : /\ tcp[s].state = "listen"
                    /\ tcp[s].lport = port
                    /\ ~tcp[s].cancelled}

Children(l) ==
    {s \in Active : tcp[s].pending /\ tcp[s].listener = l}

tcp_acceptable(l) == {s \in Children(l) : tcp[s].state = "established"}

-----------------------------------------------------------------------------
(* The receive path.  Every definition maps a connection and a segment to  *)
(* the connection tcp_receive_segment leaves.                              *)

Acknowledged(c, seg) ==
    IF /\ "ACK" \in seg.flags
       /\ ~sequence_before(seg.ack, c.una)
       /\ ~sequence_before(c.nxt, seg.ack)
    THEN IF seg.ack = c.nxt
         THEN [c EXCEPT !.una = seg.ack, !.rtx = {}, !.rtxData = <<>>]
         ELSE [c EXCEPT !.una = seg.ack]
    ELSE c

CarriesData(seg) == seg.data # <<>> \/ "FIN" \in seg.flags

InOrder_AcceptsAny(c, seg) == TRUE

InOrder(c, seg) == seg.seq = c.rcv

Accepted(c, seg) ==
    CASE ~InOrder(c, seg) -> c
      [] InOrder(c, seg) /\ Len(seg.data) > RxBytes - Len(c.buffer) ->
            [c EXCEPT !.error = "no resources"]
      [] OTHER ->
            LET d == [c EXCEPT !.buffer = @ \o seg.data,
                               !.rcv = Add(@, Len(seg.data))]
            IN IF "FIN" \in seg.flags
               THEN [d EXCEPT !.rcv = Add(@, 1), !.peerClosed = TRUE,
                              !.state = IF d.finSent THEN "closed"
                                        ELSE "close wait"]
               ELSE d

\* The common tail: acknowledgement, then data and FIN, then our own ACK.
Processed(c, seg) ==
    LET a == Acknowledged(c, seg)
    IN IF CarriesData(seg) THEN Accepted(a, seg) ELSE a

Replies(c, seg) == IF CarriesData(seg) THEN {tcp_ack(c)} ELSE {}

\* One of the events MaxUpsets bounds.
Upset == upsets < MaxUpsets /\ upsets' = upsets + 1

SetSlot(s, c) == tcp' = [tcp EXCEPT ![s] = c]

UnchangedCalls == UNCHANGED <<call, timers, held, written, delivered>>
UnchangedTables == UNCHANGED <<generation, connections, listeners, drawn>>

PassiveAckMatches_AnySequence(c, seg) ==
    "ACK" \in seg.flags

\* Only the acknowledgement this side asked for finishes a passive open.
PassiveAckMatches(c, seg) ==
    /\ "ACK" \in seg.flags
    /\ seg.ack = c.nxt
    /\ seg.seq = c.rcv

\* tcp_receive_segment for a segment that belongs to connection s.
ReceiveMatched(s, seg) ==
    LET c == tcp[s]
        done == [c EXCEPT !.una = seg.ack, !.rtx = {}, !.rtxData = <<>>,
                          !.state = "established"]
        opened == [c EXCEPT !.una = seg.ack, !.rcv = Add(seg.seq, 1),
                            !.rtx = {}, !.state = "established"]
    IN \/ /\ "RST" \in seg.flags
          /\ SetSlot(s, [c EXCEPT !.state = "reset",
                                  !.error = "connection reset"])
          /\ outbound' = Sent({})
       \/ /\ "RST" \notin seg.flags
          /\ c.state = "syn received"
          /\ PassiveAckMatches(c, seg)
          /\ SetSlot(s, Processed(done, seg))
          /\ outbound' = Sent(Replies(Processed(done, seg), seg))
       \/ /\ "RST" \notin seg.flags
          /\ c.state = "syn received" /\ ~PassiveAckMatches(c, seg)
          /\ outbound' = Sent({})
          /\ UNCHANGED tcp
       \/ /\ "RST" \notin seg.flags
          /\ c.state = "syn sent"
          /\ {"SYN", "ACK"} \subseteq seg.flags
          /\ seg.ack = c.nxt
          /\ SetSlot(s, opened)
          /\ outbound' = Sent({tcp_ack(opened)})
       \/ /\ "RST" \notin seg.flags
          /\ c.state = "syn sent"
          /\ ~({"SYN", "ACK"} \subseteq seg.flags /\ seg.ack = c.nxt)
          /\ outbound' = Sent({})
          /\ UNCHANGED tcp
       \/ /\ "RST" \notin seg.flags
          /\ c.state \notin {"syn received", "syn sent"}
          /\ SetSlot(s, Processed(c, seg))
          /\ outbound' = Sent(Replies(Processed(c, seg), seg))

HasRoom(l) == Cardinality(Children(l)) < tcp[l].backlog

\* The connection tcp_open_child fills in for a SYN that listener l takes.
Child(l, seg, isn) ==
    [Closed EXCEPT !.active = TRUE, !.gen = generation,
                   !.state = "syn received", !.lport = tcp[l].lport,
                   !.peer = seg.peer, !.una = isn, !.nxt = Add(isn, 1),
                   !.rcv = Add(seg.seq, 1), !.rtx = {"SYN", "ACK"},
                   !.listener = l, !.pending = TRUE]

TakesSyn(seg) ==
    /\ seg.flags \cap {"SYN", "ACK"} = {"SYN"}
    /\ \E l \in tcp_listener_for(seg.lport) : HasRoom(l) /\ FreeSlots # {}

tcp_open_child(seg) ==
    /\ TakesSyn(seg)
    /\ generation <= MaxGeneration
    /\ \E l \in tcp_listener_for(seg.lport), isn \in NextIsn :
         LET c == Child(l, seg, isn)
         IN /\ SetSlot(FirstFree, c)
            /\ drawn' = drawn + 1
            /\ outbound' = Sent({Outgoing(c, {"SYN", "ACK"}, isn, <<>>)})
    /\ generation' = generation + 1
    /\ connections' = connections + 1
    /\ UNCHANGED listeners

ReceiveUnmatched(seg) ==
    \/ tcp_open_child(seg)
    \/ /\ ~TakesSyn(seg)
       /\ outbound' = Sent(tcp_refuse(seg.peer, seg.lport, seg.seq, seg.ack,
                                  seg.flags, Len(seg.data)))
       /\ UNCHANGED <<tcp, generation, connections, listeners, drawn>>

\* network_service hands one received segment to tcp_receive_segment.
tcp_receive_segment(seg) ==
    /\ seg.to = "stack"
    /\ \/ \E s \in tcp_match(seg) : ReceiveMatched(s, seg) /\ UnchangedTables
       \/ tcp_match(seg) = {} /\ ReceiveUnmatched(seg)
    /\ UnchangedCalls
    /\ UNCHANGED <<configured, upsets, peer, emitted>>

\* network_service_pump after a device reset: every connection is errored and
\* the configuration is gone; the slots stay taken until they are closed.
DeviceReset ==
    /\ Upset
    /\ configured' = FALSE
    /\ tcp' = [s \in Slots |->
                 IF tcp[s].active
                 THEN [tcp[s] EXCEPT !.error = "reset", !.state = "reset"]
                 ELSE tcp[s]]
    /\ UnchangedTables /\ UnchangedCalls
    /\ UNCHANGED <<peer, outbound, emitted>>

network_configure_static ==
    /\ call.op = "none"
    /\ ~configured
    /\ configured' = TRUE
    /\ UnchangedTables /\ UnchangedCalls
    /\ UNCHANGED <<tcp, upsets, peer, outbound, emitted>>

-----------------------------------------------------------------------------
(* Retransmission and the calls of a process.                              *)

NoCall == [op |-> "none", slot |-> 0, left |-> 0]

CanRetransmit(c) == c.rtx # {} /\ c.rtxCount < RetransmissionLimit

\* tcp_retransmit repeats the one tracked segment at send_unacknowledged, or
\* gives the connection a sticky timeout.
tcp_retransmit(c) ==
    IF CanRetransmit(c) THEN [c EXCEPT !.rtxCount = @ + 1]
                        ELSE [c EXCEPT !.error = "timeout"]

Repeated(c) ==
    IF CanRetransmit(c) THEN {Outgoing(c, c.rtx, c.una, c.rtxData)} ELSE {}

\* Arms the retransmission of a segment that left with tcp_emit(.., advance,
\* track) and moves send_next over it.
Tracked(c, flags, data) ==
    [c EXCEPT !.rtx = flags, !.rtxData = data, !.rtxCount = 0,
              !.nxt = Add(@, Len(data) + Cardinality(flags \cap {"SYN", "FIN"}))]

Idle == call.op = "none"
Begin(op, s, left) ==
    /\ call' = [op |-> op, slot |-> s, left |-> left]
    /\ timers' = timers + 1
Return == call' = NoCall /\ timers' = timers - 1
Stay == UNCHANGED <<call, timers>>

\* tcp_for: the handle names an active connection of its generation.
Resolves(h) == tcp[h.slot].active /\ tcp[h.slot].gen = h.gen

network_tcp_open ==
    /\ Idle /\ FreeSlots # {} /\ generation <= MaxOpens
    /\ SetSlot(FirstFree, [Closed EXCEPT !.active = TRUE, !.gen = generation,
                                         !.state = "open"])
    /\ held' = held \cup {[slot |-> FirstFree, gen |-> generation]}
    /\ generation' = generation + 1
    /\ connections' = connections + 1
    /\ UNCHANGED <<call, timers, listeners, configured, upsets, drawn, peer,
                   outbound, emitted, written, delivered>>

network_tcp_listen(h) ==
    /\ Idle /\ Resolves(h)
    /\ tcp[h.slot].state = "open"
    /\ ~tcp_port_used(ListenPort)
    /\ \E backlog \in 1 .. MaxBacklog :
         SetSlot(h.slot, [tcp[h.slot] EXCEPT !.lport = ListenPort,
                             !.backlog = backlog, !.state = "listen"])
    /\ listeners' = listeners + 1
    /\ UnchangedCalls
    /\ UNCHANGED <<generation, connections, drawn, configured, upsets, peer,
                   outbound, emitted>>

\* Up to the wait: the address is resolved (or the call ends), an ephemeral
\* port is drawn, and the SYN leaves or the call ends in SYN_SENT.
network_tcp_connect(h, p) ==
    /\ Idle /\ Resolves(h) /\ configured
    /\ tcp[h.slot].state = "open"
    /\ peer[p].role = "server"
    /\ \E port \in {q \in EphemeralPorts : ~tcp_port_used(q)},
          isn \in NextIsn :
         LET c == [tcp[h.slot] EXCEPT !.lport = port, !.peer = p, !.una = isn,
                                      !.nxt = isn, !.state = "syn sent"]
         IN /\ drawn' = drawn + 1
            /\ \/ /\ timers < MaxTimers
                  /\ SetSlot(h.slot, Tracked(c, {"SYN"}, <<>>))
                  /\ outbound' = Sent({Outgoing(c, {"SYN"}, isn, <<>>)})
                  /\ Begin("connect", h.slot, 0)
               \/ /\ SetSlot(h.slot, c)
                  /\ UNCHANGED <<outbound, call, timers>>
    /\ UNCHANGED <<generation, connections, listeners, configured, upsets, held,
                   peer, emitted, written, delivered>>

UnchangedDevice == UNCHANGED <<configured, peer>>
UnchangedByWait == UnchangedDevice /\ UNCHANGED upsets

\* One turn of a wait loop whose connection has neither failed nor finished:
\* the retransmission is due, and the device takes it or refuses it.  A
\* refused one leaves error clear.
RetransmitTurn(s, c) ==
    /\ SetSlot(s, tcp_retransmit(c))
    /\ \/ /\ outbound' = Sent(Repeated(c))
          /\ IF CanRetransmit(c) THEN Stay ELSE Return
          /\ UNCHANGED upsets
       \/ CanRetransmit(c) /\ Upset /\ UNCHANGED outbound /\ Return

Broken(c) == c.cancelled \/ c.error # "ok"

ConnectTurn ==
    LET s == call.slot
        c == tcp[s]
    IN /\ call.op = "connect"
       /\ \/ /\ c.state # "syn sent" \/ Broken(c)
             /\ Return
             /\ UNCHANGED <<tcp, outbound, upsets>>
          \/ /\ c.state = "syn sent" /\ ~Broken(c)
             /\ RetransmitTurn(s, c)
       /\ UnchangedTables /\ UnchangedDevice
       /\ UNCHANGED <<held, emitted, written, delivered>>

network_tcp_accept(h) ==
    /\ Idle /\ Resolves(h) /\ timers < MaxTimers
    /\ tcp[h.slot].state = "listen"
    /\ Begin("accept", h.slot, 0)
    /\ UnchangedTables /\ UnchangedByWait
    /\ UNCHANGED <<tcp, held, outbound, emitted, written, delivered>>

Reapable(c) == c.state = "reset" \/ c.error # "ok"

\* tcp_service_pending: broken children are released, the children whose
\* deadline has passed repeat their SYN-ACK or are released when exhausted.
\* A SYN-ACK the device refuses leaves its child waiting.
ServicePending(l, due) ==
    [s \in Slots |->
        IF s \notin Children(l) THEN tcp[s]
        ELSE IF Reapable(tcp[s]) THEN Closed
        ELSE IF s \notin due THEN tcp[s]
        ELSE IF CanRetransmit(tcp[s]) THEN tcp_retransmit(tcp[s]) ELSE Closed]

\* One turn of network_tcp_accept: the pending children are serviced, then
\* the first established one is handed over.
AcceptTurn ==
    LET l == call.slot
        halfOpen == {s \in Children(l) : tcp[s].state = "syn received"
                                         /\ tcp[s].error = "ok"}
    IN /\ call.op = "accept"
       /\ IF Broken(tcp[l])
          THEN Return /\ UNCHANGED <<tcp, outbound, held, connections, upsets>>
          ELSE \E due \in SUBSET halfOpen : \E taken \in SUBSET due :
                 LET after == ServicePending(l, due)
                     ready == {s \in Children(l) : after[s].active
                                 /\ after[s].state = "established"}
                     first == CHOOSE s \in ready : \A t \in ready : s <= t
                 IN /\ IF taken = due THEN UNCHANGED upsets ELSE Upset
                    /\ outbound' = Sent(UNION {Repeated(tcp[s]) : s \in taken})
                    /\ connections' = connections
                         - Cardinality({s \in Children(l) : ~after[s].active})
                    /\ IF ready = {}
                       THEN tcp' = after /\ Stay /\ UNCHANGED held
                       ELSE /\ tcp' = [after EXCEPT ![first].pending = FALSE]
                            /\ held' = held \cup
                                 {[slot |-> first, gen |-> after[first].gen]}
                            /\ Return
       /\ UNCHANGED <<generation, listeners, drawn, emitted, written,
                      delivered>>
       /\ UnchangedDevice

\* tcp_write's next chunk: bytes Len(emitted)+1.. of the stream to the peer.
EmitChunk(s, n) ==
    LET c == [tcp[s] EXCEPT !.una = tcp[s].nxt]
        p == c.peer
        data == [i \in 1 .. n |-> Len(emitted[p]) + i]
    IN /\ SetSlot(s, Tracked(c, {"ACK"}, data))
       /\ outbound' = Sent({Outgoing(c, {"ACK"}, c.nxt, data)})
       /\ emitted' = [emitted EXCEPT ![p] = @ \o data]

Exchanged(p) == peer[p].sent + Len(emitted[p])

\* peer_mss is one byte here: a write of several bytes sends several chunks.
network_tcp_write(h, n) ==
    /\ Idle /\ Resolves(h) /\ timers < MaxTimers /\ configured
    /\ tcp[h.slot].state = "established"
    /\ Exchanged(tcp[h.slot].peer) + n <= MaxBytes
    /\ \/ EmitChunk(h.slot, 1) /\ Begin("write", h.slot, n)
       \/ /\ SetSlot(h.slot, [tcp[h.slot] EXCEPT !.una = tcp[h.slot].nxt])
          /\ UNCHANGED <<call, timers, outbound, emitted>>
    /\ UnchangedTables /\ UnchangedByWait
    /\ UNCHANGED <<held, written, delivered>>

AllAcknowledged_OffByOne(c) == ~sequence_before(Add(c.una, 1), c.nxt)

AllAcknowledged(c) == c.una = c.nxt

\* network_tcp_write counts the chunk of connection c, keeping whether it was
\* acknowledged, and goes on with the next, which the device may refuse; or
\* the call has sent them all, or its deadline has come.
CountsChunk(c, acknowledged) ==
    LET s == call.slot
        more == call.left > 1
    IN /\ written' = [written EXCEPT ![c.peer] = @ \cup
                         {[byte |-> Len(emitted[c.peer]), acked |-> acknowledged]}]
       /\ \/ /\ more /\ EmitChunk(s, 1)
             /\ call' = [call EXCEPT !.left = @ - 1]
             /\ UNCHANGED timers
          \/ /\ \/ SetSlot(s, c)
                \/ more /\ SetSlot(s, [c EXCEPT !.una = c.nxt])
             /\ Return
             /\ UNCHANGED <<outbound, emitted>>

\* tcp_wait_ack.  When the device refuses the retransmission it returns the
\* connection's error, which is still OK: the chunk counts as written.
WriteTurn ==
    LET s == call.slot
        c == tcp[s]
    IN /\ call.op = "write"
       /\ \/ /\ Broken(c)
             /\ Return
             /\ UNCHANGED <<tcp, outbound, emitted, written, upsets>>
          \/ /\ ~Broken(c) /\ AllAcknowledged(c)
             /\ CountsChunk(c, TRUE)
             /\ UNCHANGED upsets
          \/ /\ ~Broken(c) /\ ~AllAcknowledged(c)
             /\ SetSlot(s, tcp_retransmit(c))
             /\ outbound' = Sent(Repeated(c))
             /\ IF CanRetransmit(c) THEN Stay ELSE Return
             /\ UNCHANGED <<emitted, written, upsets>>
          \/ /\ ~Broken(c) /\ ~AllAcknowledged(c) /\ CanRetransmit(c)
             /\ Upset
             /\ CountsChunk(tcp_retransmit(c), FALSE)
       /\ UnchangedTables /\ UnchangedDevice
       /\ UNCHANGED <<held, delivered>>

\* The end of network_tcp_read: an error wins over buffered bytes.
TakeBytes(s) ==
    LET c == tcp[s]
        p == c.peer
    IN IF c.error # "ok" \/ c.buffer = <<>>
       THEN UNCHANGED <<tcp, delivered>>
       ELSE \E n \in 1 .. Len(c.buffer) :
              /\ SetSlot(s, [c EXCEPT !.buffer = SubSeq(@, n + 1, Len(@))])
              /\ delivered' = [delivered EXCEPT ![p] =
                                  @ \o SubSeq(c.buffer, 1, n)]

ReadReady(c) == c.buffer # <<>> \/ c.peerClosed \/ c.error # "ok"

network_tcp_read(h) ==
    /\ Idle /\ Resolves(h) /\ timers < MaxTimers
    /\ tcp[h.slot].state \notin {"listen", "open", "syn received"}
    /\ IF ReadReady(tcp[h.slot])
       THEN TakeBytes(h.slot) /\ UNCHANGED <<call, timers>>
       ELSE Begin("read", h.slot, 0) /\ UNCHANGED <<tcp, delivered>>
    /\ UnchangedTables /\ UnchangedByWait
    /\ UNCHANGED <<held, outbound, emitted, written>>

ReadTurn ==
    LET c == tcp[call.slot]
    IN /\ call.op = "read"
       /\ c.cancelled \/ ReadReady(c)
       /\ IF c.cancelled THEN UNCHANGED <<tcp, delivered>>
                         ELSE TakeBytes(call.slot)
       /\ Return
       /\ UnchangedTables /\ UnchangedByWait
       /\ UNCHANGED <<held, outbound, emitted, written>>

\* The FIN leaves, or the call ends with the connection in FIN_WAIT.
network_tcp_shutdown(h) ==
    LET c == [tcp[h.slot] EXCEPT !.una = tcp[h.slot].nxt, !.finSent = TRUE,
                                 !.state = "fin wait"]
    IN /\ Idle /\ Resolves(h) /\ timers < MaxTimers
       /\ tcp[h.slot].state \in {"established", "close wait"}
       /\ \/ /\ configured
             /\ SetSlot(h.slot, Tracked(c, {"FIN", "ACK"}, <<>>))
             /\ outbound' = Sent({Outgoing(c, {"FIN", "ACK"}, c.nxt, <<>>)})
             /\ Begin("shutdown", h.slot, 0)
          \/ /\ SetSlot(h.slot, c)
             /\ UNCHANGED <<outbound, call, timers>>
       /\ UnchangedTables /\ UnchangedByWait
       /\ UNCHANGED <<held, emitted, written, delivered>>

ShutdownTurn ==
    LET s == call.slot
        c == tcp[s]
    IN /\ call.op = "shutdown"
       /\ \/ /\ c.state = "closed" \/ Broken(c)
             /\ Return
             /\ UNCHANGED <<tcp, outbound, upsets>>
          \/ /\ c.state # "closed" /\ ~Broken(c)
             /\ IF AllAcknowledged(c) /\ c.peerClosed
                THEN /\ SetSlot(s, [c EXCEPT !.state = "closed"])
                     /\ Return
                     /\ UNCHANGED <<outbound, upsets>>
                ELSE RetransmitTurn(s, c)
       /\ UnchangedTables /\ UnchangedDevice
       /\ UNCHANGED <<held, emitted, written, delivered>>

\* The deadline of the call has passed, or its wait found no timer.
CallDeadline ==
    /\ ~Idle /\ Upset
    /\ Return
    /\ UnchangedTables
    /\ UNCHANGED <<configured, peer, tcp, held, outbound, emitted, written, delivered>>

network_cancel(h) ==
    /\ Idle /\ Resolves(h) /\ Upset
    /\ SetSlot(h.slot, [tcp[h.slot] EXCEPT !.cancelled = TRUE])
    /\ UnchangedTables /\ UnchangedCalls
    /\ UNCHANGED <<configured, peer, outbound, emitted>>

network_close_KeepChildren(h) ==
    /\ Idle /\ Resolves(h)
    /\ tcp' = [tcp EXCEPT ![h.slot] = Closed]
    /\ connections' = connections - 1
    /\ listeners' = listeners - (IF tcp[h.slot].backlog # 0 THEN 1 ELSE 0)
    /\ held' = held \ {h}
    /\ UNCHANGED <<call, timers, generation, drawn, outbound, emitted, written,
                   delivered>>
    /\ UnchangedByWait

\* A listener refuses and releases the children nobody has accepted.
network_close(h) ==
    LET s == h.slot
        orphans == IF tcp[s].backlog # 0 THEN Children(s) ELSE {}
    IN /\ Idle /\ Resolves(h)
       /\ tcp' = [t \in Slots |-> IF t = s \/ t \in orphans THEN Closed
                                  ELSE tcp[t]]
       /\ outbound' = Sent(UNION {tcp_refuse(tcp[t].peer, tcp[t].lport, tcp[t].rcv,
                                tcp[t].nxt, {"ACK"}, 0) : t \in orphans})
       /\ connections' = connections - 1 - Cardinality(orphans)
       /\ listeners' = listeners - (IF tcp[s].backlog # 0 THEN 1 ELSE 0)
       /\ held' = held \ {h}
       /\ UNCHANGED <<call, timers, generation, drawn, emitted, written,
                      delivered>>
       /\ UnchangedByWait

network_process_terminated ==
    /\ Idle /\ Active # {} /\ Upset
    /\ tcp' = [s \in Slots |-> Closed]
    /\ connections' = connections - Cardinality(Active)
    /\ listeners' = listeners - Cardinality({s \in Active : tcp[s].backlog # 0})
    /\ held' = {}
    /\ UNCHANGED <<call, timers, generation, drawn, outbound, emitted, written,
                   delivered, configured, peer>>

-----------------------------------------------------------------------------
(* The remote endpoints: conforming TCP peers, outside the repository.     *)

PeerSegment(p, r, flags, seq, data) ==
    Segment("stack", p, r.lport, flags, seq, r.rcv, 0, data)

UnchangedStack == UNCHANGED <<tcp, call, generation, connections, listeners,
    timers, configured, drawn, held, emitted, written, delivered>>

\* Bytes the peer may send: the right edge of the largest window it was told.
Edge(seg) == ((seg.ack - PeerIsn - 1) % SequenceSpace) + seg.wnd

\* The peer of a connection takes the bytes and the FIN that are next.
PeerTaken(r, seg) ==
    LET next == seg.seq = r.rcv
        n == Len(seg.data) + Cardinality(seg.flags \cap {"FIN"})
    IN [r EXCEPT !.got = IF next THEN @ \o seg.data ELSE @,
                 !.rcv = IF next THEN Add(@, n) ELSE @,
                 !.limit = IF Edge(seg) > @ /\ Edge(seg) < SequenceSpace \div 2
                           THEN Edge(seg) ELSE @,
                 !.st = IF @ = "syn received" /\ seg.ack = r.nxt
                        THEN "established" ELSE @]

\* What a segment does to peer p of record r, and what p answers.
PeerStep(p, r, seg) ==
    LET linked == r.st \in {"syn received", "established"}
                  /\ seg.lport = r.lport
        ack(q) == <<PeerSegment(p, q, {"ACK"}, q.nxt, <<>>)>>
        opened == [r EXCEPT !.st = "established", !.rcv = Add(seg.seq, 1),
                            !.limit = Edge(seg)]
        asked == [r EXCEPT !.st = "syn received", !.nxt = Add(PeerIsn, 1),
                           !.rcv = Add(seg.seq, 1), !.lport = seg.lport]
    IN CASE "RST" \in seg.flags /\
              \/ r.st = "syn sent" /\ "ACK" \in seg.flags /\ seg.ack = r.nxt
              \/ linked /\ seg.seq = r.rcv ->
              [peer |-> [r EXCEPT !.st = "dead"], reply |-> <<>>]
         [] r.st = "syn sent" /\ seg.flags = {"SYN", "ACK"}
            /\ seg.ack = r.nxt ->
              [peer |-> opened, reply |-> ack(opened)]
         [] seg.flags = {"SYN"} /\ r.role = "server" /\ r.st = "idle" ->
              [peer |-> asked,
               reply |-> <<PeerSegment(p, asked, {"SYN", "ACK"}, PeerIsn, <<>>)>>]
         [] seg.flags \cap {"SYN", "RST"} = {} /\ linked ->
              [peer |-> PeerTaken(r, seg),
               reply |-> IF CarriesData(seg) THEN ack(PeerTaken(r, seg))
                                             ELSE <<>>]
         [] "RST" \notin seg.flags /\ "ACK" \in seg.flags /\ r.st = "dead" ->
              [peer |-> r,
               reply |-> <<Segment("stack", p, seg.lport, {"RST"}, seg.ack, 0,
                                   0, <<>>)>>]
         [] OTHER -> [peer |-> r, reply |-> <<>>]

PeerReceive(seg) ==
    LET p == seg.peer
        step == PeerStep(p, peer[p], seg)
    IN /\ peer' = [peer EXCEPT ![p] = step.peer]
       /\ inbound' = inbound \o
            (IF peer[p].role = "vanisher" THEN <<>> ELSE step.reply)
       /\ UnchangedStack /\ UNCHANGED upsets

PeerSends(p, r, segment) ==
    /\ peer' = [peer EXCEPT ![p] = r]
    /\ inbound' = Append(inbound, segment)
    /\ UnchangedStack /\ UNCHANGED <<outbound, stray>>

PeerConnect(p) ==
    LET r == peer[p]
    IN /\ r.role \in {"client", "vanisher"}
       /\ r.st = "idle"
       /\ PeerSends(p, [r EXCEPT !.st = "syn sent", !.nxt = Add(PeerIsn, 1)],
                    PeerSegment(p, r, {"SYN"}, PeerIsn, <<>>))
       /\ UNCHANGED upsets

PeerSend(p) ==
    LET r == peer[p]
    IN /\ r.st = "established" /\ ~r.fin
       /\ r.sent < r.limit /\ Exchanged(p) < MaxBytes
       /\ PeerSends(p, [r EXCEPT !.sent = @ + 1, !.nxt = Add(@, 1)],
                    PeerSegment(p, r, {"ACK"}, r.nxt, <<r.sent + 1>>))
       /\ UNCHANGED upsets

PeerFinish(p) ==
    LET r == peer[p]
    IN /\ r.st = "established" /\ ~r.fin
       /\ PeerSends(p, [r EXCEPT !.fin = TRUE, !.nxt = Add(@, 1)],
                    PeerSegment(p, r, {"FIN", "ACK"}, r.nxt, <<>>))
       /\ UNCHANGED upsets

PeerAbort(p) ==
    LET r == peer[p]
    IN /\ r.st = "established" /\ Upset
       /\ PeerSends(p, [r EXCEPT !.st = "dead"],
                    PeerSegment(p, r, {"RST"}, r.nxt, <<>>))

\* The first segment in flight goes astray, or only a copy of it does.
GoesAstray ==
    /\ Upset
    /\ \/ /\ inbound # <<>>
          /\ stray' = stray \cup {Head(inbound)}
          /\ inbound' \in {inbound, Tail(inbound)}
          /\ UNCHANGED outbound
       \/ /\ outbound # <<>>
          /\ stray' = stray \cup {Head(outbound)}
          /\ outbound' \in {outbound, Tail(outbound)}
          /\ UNCHANGED inbound
    /\ UnchangedStack /\ UNCHANGED peer

-----------------------------------------------------------------------------

Init ==
    /\ tcp = [s \in Slots |-> Closed]
    /\ call = NoCall
    /\ generation = 1
    /\ connections = 0 /\ listeners = 0 /\ timers = 0
    /\ configured = TRUE
    /\ upsets = 0
    /\ drawn = 0
    /\ held = {}
    /\ \E role \in [Peers -> Roles] :
         peer = [p \in Peers |->
                   [role |-> role[p], st |-> "idle", nxt |-> PeerIsn, sent |-> 0,
                    rcv |-> 0, got |-> <<>>, fin |-> FALSE, lport |-> ListenPort,
                    limit |-> 0]]
    /\ inbound = <<>> /\ outbound = <<>> /\ stray = {}
    /\ emitted = [p \in Peers |-> <<>>]
    /\ written = [p \in Peers |-> {}]
    /\ delivered = [p \in Peers |-> <<>>]

ToStack ==
    \/ /\ inbound # <<>>
       /\ tcp_receive_segment(Head(inbound))
       /\ inbound' = Tail(inbound)
       /\ UNCHANGED stray
    \/ \E seg \in stray :
         /\ tcp_receive_segment(seg)
         /\ stray' = stray \ {seg}
         /\ UNCHANGED inbound

ToPeer ==
    \/ /\ outbound # <<>>
       /\ PeerReceive(Head(outbound))
       /\ outbound' = Tail(outbound)
       /\ UNCHANGED stray
    \/ \E seg \in stray :
         /\ seg.to = "peer"
         /\ PeerReceive(seg)
         /\ stray' = stray \ {seg}
         /\ UNCHANGED outbound

CallTurn == ConnectTurn \/ AcceptTurn \/ WriteTurn \/ ReadTurn \/ ShutdownTurn

ProcessStep ==
    \/ network_tcp_open
    \/ \E h \in held :
         \/ network_tcp_listen(h)
         \/ \E p \in Peers : network_tcp_connect(h, p)
         \/ network_tcp_accept(h)
         \/ \E n \in 1 .. MaxBytes : network_tcp_write(h, n)
         \/ network_tcp_read(h)
         \/ network_tcp_shutdown(h)
         \/ network_cancel(h)
         \/ network_close(h)
    \/ network_process_terminated
    \/ network_configure_static

Next ==
    \/ ToStack
    \/ ToPeer
    \/ \E p \in Peers :
         PeerConnect(p) \/ PeerSend(p) \/ PeerFinish(p) \/ PeerAbort(p)
    \/ GoesAstray
    \/ /\ ProcessStep \/ CallTurn \/ CallDeadline \/ DeviceReset
       /\ UNCHANGED <<inbound, stray>>

Spec == Init /\ [][Next]_vars

-----------------------------------------------------------------------------
(* Properties.                                                             *)

\* Every slot the counters call taken is taken, every listener is counted
\* once, exactly the call in progress holds a timer, and a slot the process
\* cannot name through a handle is a waiting child, within its backlog, of a
\* listener that is still there.  A reset, a refused child, a closed listener
\* or a call that ends early must not leak or double-free a slot.
SlotBooks ==
    /\ \A s \in Slots : Len(tcp[s].buffer) <= RxBytes
    /\ connections = Cardinality(Active)
    /\ listeners = Cardinality({s \in Active : tcp[s].backlog # 0})
    /\ timers = (IF Idle THEN 0 ELSE 1)
    /\ \A s \in Active :
         \/ [slot |-> s, gen |-> tcp[s].gen] \in held
         \/ tcp[s].pending /\ tcp[s].listener \in Active
            /\ Cardinality(Children(tcp[s].listener)) <=
                  tcp[tcp[s].listener].backlog
    /\ \A h \in held : Resolves(h)

\* What the process has read from a peer, and what is buffered for it behind
\* that, is a prefix of what the peer sent, whatever the wire repeated or
\* reordered; and a peer that respects the advertised window never overruns
\* the receive buffer.
ReceivedInOrder ==
    \A p \in Peers :
        LET sent == [i \in 1 .. peer[p].sent |-> i]
        IN /\ IsPrefix(delivered[p], sent)
           /\ \A s \in Active :
                /\ tcp[s].state # "reset" => tcp[s].error # "no resources"
                /\ tcp[s].peer = p /\ tcp[s].buffer # <<>>
                   /\ tcp[s].error = "ok" =>
                      IsPrefix(delivered[p] \o tcp[s].buffer, sent)

\* The bytes a peer has taken are a prefix of what the stack sent it, and
\* every byte network_tcp_write reported as written has reached the peer, the
\* ones excepted whose retransmission the device refused: for those
\* tcp_wait_ack returns OK without an acknowledgement.
WrittenIsReceived ==
    \A p \in Peers :
        /\ IsPrefix(peer[p].got, emitted[p])
        /\ \A w \in written[p] : w.acked => w.byte <= Len(peer[p].got)

\* A connection handed out by accept, or ready to be, is one its peer has
\* opened too: the peer took this very SYN-ACK.  A delayed duplicate of an
\* old SYN may cost a half-open child, never an established one.
EstablishedByBoth ==
    \A s \in Active :
        tcp[s].lport = ListenPort /\ tcp[s].state = "established" =>
            /\ peer[tcp[s].peer].st \in {"established", "dead"}
            /\ ((tcp[s].nxt - peer[tcp[s].peer].rcv) % SequenceSpace)
                 <= MaxBytes + 1
=============================================================================
