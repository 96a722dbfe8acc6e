---------------------------- MODULE NetworkTcpProofs ----------------------------
(***************************************************************************)
(* The books of the TCP half of src/kernel/network.c: SlotBooks for every  *)
(* number of connections and peers, every backlog, buffer, table of timers *)
(* and retransmission limit, and any traffic.                              *)
(*                                                                         *)
(* Most steps change what a connection says and leave its place in the     *)
(* tables alone (Changes); six give a slot away or take it back: open,     *)
(* listen, a SYN taken by a listener, the turn of accept that services the *)
(* pending children, close, and the end of the process.                    *)
(***************************************************************************)
EXTENDS NetworkTcp, FiniteSetTheorems, SequenceTheorems, TLAPS

Fields ==
    {"active", "gen", "state", "lport", "peer", "una", "nxt", "rcv", "buffer", "rtx", "rtxData",
     "rtxCount", "backlog", "listener", "pending", "error", "cancelled", "peerClosed", "finSent"}

IsSequence(q) == q \in Seq({q[k] : k \in DOMAIN q})

(* What holds of a connection by itself.  Only a listener has a backlog; it
   keeps the port it listens on, and it is nobody's child. *)
Conn(c) ==
    /\ DOMAIN c = Fields
    /\ c.active \in BOOLEAN
    /\ c.pending \in BOOLEAN
    /\ c.gen \in Nat
    /\ c.backlog \in Nat
    /\ IsSequence(c.buffer)
    /\ Len(c.buffer) <= RxBytes
    /\ c.backlog # 0 => c.lport = ListenPort /\ ~c.pending
    /\ c.state = "listen" => c.backlog # 0
    /\ c.state = "open" => c.backlog = 0

(* Connection d has the place of connection c in the tables. *)
Changes(c, d) ==
    /\ Conn(d)
    /\ d.active = c.active
    /\ d.gen = c.gen
    /\ d.backlog = c.backlog
    /\ d.pending = c.pending
    /\ d.listener = c.listener

(* A segment on its way to the stack carries a sequence of bytes. *)
Wire(seg) == seg.to = "stack" => IsSequence(seg.data)

Carries(q) == IsSequence(q) /\ \A k \in DOMAIN q : Wire(q[k])

Tables ==
    /\ DOMAIN tcp = Slots
    /\ \A s \in Slots : Conn(tcp[s])
    /\ generation \in Nat
    /\ held \subseteq [slot : Slots, gen : Nat]

(* A timer is out exactly while a call is in progress. *)
OneTimer ==
    /\ DOMAIN call = {"op", "slot", "left"}
    /\ timers = IF Idle THEN 0 ELSE 1

Counts ==
    /\ connections = Cardinality(Active)
    /\ listeners = Cardinality({s \in Active : tcp[s].backlog # 0})

(* The one port a program listens on has one listener. *)
OneListener ==
    \A s, t \in Active : tcp[s].backlog # 0 /\ tcp[t].backlog # 0 => s = t

(* A slot in use has a handle, or is a child within its listener's backlog. *)
Reached ==
    \A s \in Active :
        IF tcp[s].pending
        THEN /\ tcp[s].listener \in Active
             /\ Cardinality(Children(tcp[s].listener)) <= tcp[tcp[s].listener].backlog
        ELSE [slot |-> s, gen |-> tcp[s].gen] \in held

(* A handle names a connection that waits for no accept. *)
Named == \A h \in held : Resolves(h) /\ ~tcp[h.slot].pending

Wires == Carries(inbound) /\ Carries(outbound) /\ (\A seg \in stray : Wire(seg))

IInv == Tables /\ OneTimer /\ Counts /\ OneListener /\ Reached /\ Named /\ Wires

(***************************************************************************)
(* Sequences.                                                              *)
(***************************************************************************)
(* A sequence over any set is one over its own elements. *)
LEMMA SequenceOf ==
    ASSUME NEW S, NEW q \in Seq(S)
    PROVE  IsSequence(q)
<1>1. q \in [1 .. Len(q) -> S] /\ Len(q) \in Nat
    OBVIOUS
<1> DEFINE R == {q[k] : k \in DOMAIN q}
<1>2. q \in [1 .. Len(q) -> R]
    BY <1>1
<1>3. q \in Seq(R)
    <2> HIDE DEF R
    <2> QED BY <1>1, <1>2, IsASeq
<1> QED BY <1>3 DEF IsSequence

(* Every element of q \o r is one of q, in its place, or one of r. *)
FromEither(q, r) ==
    \A k \in DOMAIN (q \o r) :
        \/ k \in DOMAIN q /\ (q \o r)[k] = q[k]
        \/ \E l \in DOMAIN r : (q \o r)[k] = r[l]

LEMMA Concatenated ==
    ASSUME NEW q, NEW r, IsSequence(q), IsSequence(r)
    PROVE  /\ IsSequence(q \o r)
           /\ Len(q) \in Nat /\ Len(r) \in Nat
           /\ Len(q \o r) = Len(q) + Len(r)
           /\ FromEither(q, r)
<1> DEFINE Q == {q[k] : k \in DOMAIN q}
           R == {r[k] : k \in DOMAIN r}
<1>1. q \in Seq(Q) /\ r \in Seq(R)
    BY DEF IsSequence
<1> HIDE DEF Q, R
<1>2. q \in Seq(Q \cup R) /\ r \in Seq(Q \cup R)
    BY <1>1, SeqMonotonic
<1>3. /\ q \o r \in Seq(Q \cup R)
      /\ Len(q \o r) = Len(q) + Len(r)
      /\ \A i \in 1 .. Len(q) + Len(r) :
            (q \o r)[i] = IF i <= Len(q) THEN q[i] ELSE r[i - Len(q)]
    BY <1>2, ConcatProperties
<1>4. DOMAIN (q \o r) = 1 .. Len(q) + Len(r) /\ DOMAIN q = 1 .. Len(q) /\ DOMAIN r = 1 .. Len(r)
    BY <1>2, <1>3, LenProperties
<1>5. Len(q) \in Nat /\ Len(r) \in Nat
    BY <1>2, LenProperties
<1>6. IsSequence(q \o r)
    BY <1>3, SequenceOf
<1>7. ASSUME NEW k \in DOMAIN (q \o r)
      PROVE  \/ k \in DOMAIN q /\ (q \o r)[k] = q[k]
             \/ \E l \in DOMAIN r : (q \o r)[k] = r[l]
    <2>1. CASE k <= Len(q)
        BY <2>1, <1>3, <1>4, <1>5, <1>7
    <2>2. CASE ~(k <= Len(q))
        <3>1. k - Len(q) \in DOMAIN r /\ (q \o r)[k] = r[k - Len(q)]
            BY <2>2, <1>3, <1>4, <1>5, <1>7
        <3> QED BY <3>1
    <2> QED BY <2>1, <2>2
<1>8. FromEither(q, r)
    BY <1>7 DEF FromEither
<1> QED BY <1>3, <1>5, <1>6, <1>8

(* What is left of a buffer after n of its bytes were read. *)
LEMMA Remainder ==
    ASSUME NEW q, IsSequence(q), NEW n \in 1 .. Len(q)
    PROVE  IsSequence(SubSeq(q, n + 1, Len(q))) /\ Len(SubSeq(q, n + 1, Len(q))) <= Len(q)
<1> DEFINE Q == {q[k] : k \in DOMAIN q}
<1>1. q \in Seq(Q)
    BY DEF IsSequence
<1> HIDE DEF Q
<1>2. Len(q) \in Nat /\ (\A i \in 1 .. Len(q) : q[i] \in Q)
    BY <1>1, LenProperties, ElementOfSeq
<1>3. /\ SubSeq(q, n + 1, Len(q)) \in Seq(Q)
      /\ Len(SubSeq(q, n + 1, Len(q))) = IF n + 1 <= Len(q) THEN Len(q) - (n + 1) + 1 ELSE 0
    <2>1. \A i \in n + 1 .. Len(q) : q[i] \in Q
        BY <1>2
    <2>2. n + 1 \in Int /\ Len(q) \in Int
        BY <1>2
    <2> QED BY <2>1, <2>2, SubSeqProperties
<1>4. IsSequence(SubSeq(q, n + 1, Len(q)))
    BY <1>3, SequenceOf
<1> QED BY <1>2, <1>3, <1>4

LEMMA Wired ==
    ASSUME NEW q, Carries(q)
    PROVE  /\ \A r : Carries(r) => Carries(q \o r)
           /\ \A seg : Wire(seg) => Carries(Append(q, seg))
           /\ q # <<>> => Wire(Head(q)) /\ Carries(Tail(q))
<1> DEFINE Q == {q[k] : k \in DOMAIN q}
<1>1. q \in Seq(Q)
    BY DEF Carries, IsSequence
<1> HIDE DEF Q
<1>2. ASSUME NEW r, Carries(r) PROVE Carries(q \o r)
    <2>1. IsSequence(q) /\ IsSequence(r)
        BY <1>2 DEF Carries
    <2>2. IsSequence(q \o r) /\ FromEither(q, r)
        BY <2>1, Concatenated
    <2> HIDE DEF Wire
    <2> QED BY <1>2, <2>2 DEF Carries, FromEither
<1>3. ASSUME NEW seg, Wire(seg) PROVE Carries(Append(q, seg))
    <2>1. q \in Seq(Q \cup {seg}) /\ seg \in Q \cup {seg}
        BY <1>1, SeqMonotonic
    <2>2. /\ Append(q, seg) \in Seq(Q \cup {seg})
          /\ Len(Append(q, seg)) = Len(q) + 1
          /\ \A i \in 1 .. Len(q) : Append(q, seg)[i] = q[i]
          /\ Append(q, seg)[Len(q) + 1] = seg
        BY <2>1, AppendProperties
    <2>3. IsSequence(Append(q, seg))
        BY <2>2, SequenceOf
    <2>4. DOMAIN Append(q, seg) = 1 .. Len(q) + 1 /\ DOMAIN q = 1 .. Len(q) /\ Len(q) \in Nat
        BY <2>1, <2>2, LenProperties
    <2>5. \A k \in 1 .. Len(q) + 1 : k \in 1 .. Len(q) \/ k = Len(q) + 1
        BY <2>4
    <2> QED BY <1>3, <2>2, <2>3, <2>4, <2>5 DEF Carries
<1>4. ASSUME q # <<>> PROVE Wire(Head(q)) /\ Carries(Tail(q))
    <2>1. /\ Tail(q) \in Seq(Q) /\ Len(Tail(q)) = Len(q) - 1
          /\ \A i \in 1 .. Len(Tail(q)) : Tail(q)[i] = q[i + 1]
        BY <1>1, <1>4, HeadTailProperties
    <2>2. DOMAIN q = 1 .. Len(q) /\ Len(q) \in Nat /\ DOMAIN Tail(q) = 1 .. Len(Tail(q))
        BY <1>1, <2>1, LenProperties
    <2>3. Len(q) # 0
        BY <1>1, <1>4, EmptySeq
    <2>4. Head(q) = q[1]
        BY <1>1, <1>4
    <2>5. Wire(Head(q))
        BY <2>2, <2>3, <2>4 DEF Carries
    <2>6. \A i \in 1 .. Len(Tail(q)) : i + 1 \in DOMAIN q
        BY <2>1, <2>2
    <2>7. IsSequence(Tail(q))
        BY <2>1, SequenceOf
    <2> QED BY <2>1, <2>2, <2>5, <2>6, <2>7 DEF Carries
<1> QED BY <1>2, <1>3, <1>4

LEMMA NothingCarries == IsSequence(<<>>) /\ Carries(<<>>) /\ Len(<<>>) = 0
<1>1. <<>> \in Seq({}) /\ Len(<<>>) = 0 /\ DOMAIN <<>> = {}
    OBVIOUS
<1> QED BY <1>1, SequenceOf DEF Carries

LEMMA OneCarries ==
    ASSUME NEW x
    PROVE  IsSequence(<<x>>) /\ (Wire(x) => Carries(<<x>>))
<1>1. <<x>> \in Seq({x}) /\ DOMAIN <<x>> = {1} /\ <<x>>[1] = x
    OBVIOUS
<1> QED BY <1>1, SequenceOf DEF Carries

(* The segments that leave at once, in some order. *)
LEMMA SentCarries ==
    ASSUME Carries(outbound), NEW S, IsFiniteSet(S), \A seg \in S : Wire(seg)
    PROVE  Carries(Sent(S))
<1> DEFINE n == Cardinality(S)
           f == SetToSeq(S)
<1>1. n \in Nat
    BY FS_CardinalityType
<1>2. f \in [1 .. n -> S]
    <2>1. IsFiniteSet(1 .. n) /\ Cardinality(1 .. n) = n
        BY <1>1, FS_Interval
    <2>2. ExistsBijection(1 .. n, S)
        BY <2>1, FS_SameCardinalityBij
    <2>3. PICK g \in Bijection(1 .. n, S) : TRUE
        BY <2>2 DEF ExistsBijection
    <2>4. g \in [1 .. n -> S] /\ IsInjective(g)
        BY <2>3 DEF Bijection, Injection
    <2> QED BY <2>4 DEF SetToSeq
<1> HIDE DEF n, f
<1>3. f \in Seq(S) /\ DOMAIN f = 1 .. n /\ (\A k \in 1 .. n : f[k] \in S)
    BY <1>1, <1>2, IsASeq
<1>4. Carries(f)
    BY <1>3, SequenceOf DEF Carries
<1> QED BY <1>4, Wired DEF Sent, f

(***************************************************************************)
(* What the operators do to one connection.                                *)
(***************************************************************************)
LEMMA NoChange == ASSUME NEW c, Conn(c) PROVE Changes(c, c)
<1> QED BY DEF Changes

LEMMA ChangesTwice ==
    ASSUME NEW c, NEW d, NEW e, Changes(c, d), Changes(d, e)
    PROVE  Changes(c, e)
<1> QED BY DEF Changes

LEMMA FreshSlot == Conn(Closed) /\ ~Closed.active /\ ~Closed.pending /\ Closed.backlog = 0
<1>1. DOMAIN Closed = Fields
    BY DEF Closed, Fields
<1>2. IsSequence(Closed.buffer) /\ Len(Closed.buffer) <= RxBytes
    BY NothingCarries, TcpAssumption DEF Closed
<1> QED BY <1>1, <1>2 DEF Conn, Closed

LEMMA RetransmitChanges ==
    ASSUME NEW c, Conn(c)
    PROVE  Changes(c, tcp_retransmit(c))
<1>1. Changes(c, [c EXCEPT !.rtxCount = @ + 1])
    BY DEF Conn, Changes, Fields
<1>2. Changes(c, [c EXCEPT !.error = "timeout"])
    BY DEF Conn, Changes, Fields
<1> QED BY <1>1, <1>2 DEF tcp_retransmit

LEMMA TrackedChanges ==
    ASSUME NEW c, Conn(c), NEW flags, NEW data
    PROVE  Changes(c, Tracked(c, flags, data))
<1> QED BY DEF Conn, Changes, Fields, Tracked

LEMMA AcknowledgedChanges ==
    ASSUME NEW c, Conn(c), NEW seg
    PROVE  Changes(c, Acknowledged(c, seg))
<1>1. Changes(c, [c EXCEPT !.una = seg.ack, !.rtx = {}, !.rtxData = <<>>])
    BY DEF Conn, Changes, Fields
<1>2. Changes(c, [c EXCEPT !.una = seg.ack])
    BY DEF Conn, Changes, Fields
<1> QED BY <1>1, <1>2, NoChange DEF Acknowledged

LEMMA AcceptedChanges ==
    ASSUME NEW c, Conn(c), NEW seg, IsSequence(seg.data)
    PROVE  Changes(c, Accepted(c, seg))
<1>1. Changes(c, [c EXCEPT !.error = "no resources"])
    BY DEF Conn, Changes, Fields
<1>2. ASSUME ~(Len(seg.data) > RxBytes - Len(c.buffer))
      PROVE  LET d == [c EXCEPT !.buffer = @ \o seg.data, !.rcv = Add(@, Len(seg.data))]
             IN  /\ Changes(c, d)
                 /\ Changes(d, [d EXCEPT !.rcv = Add(@, 1), !.peerClosed = TRUE,
                                         !.state = IF d.finSent THEN "closed" ELSE "close wait"])
    <2>1. /\ IsSequence(c.buffer \o seg.data)
          /\ Len(c.buffer \o seg.data) <= RxBytes
        <3>1. /\ IsSequence(c.buffer \o seg.data) /\ Len(c.buffer) \in Nat /\ Len(seg.data) \in Nat
              /\ Len(c.buffer \o seg.data) = Len(c.buffer) + Len(seg.data)
            <4>1. IsSequence(c.buffer)
                BY DEF Conn
            <4> QED BY <4>1, Concatenated
        <3>2. RxBytes \in Nat
            BY TcpAssumption
        <3> DEFINE x == Len(c.buffer)
                   y == Len(seg.data)
                   z == Len(c.buffer \o seg.data)
        <3>3. x \in Nat /\ y \in Nat /\ z = x + y /\ ~(y > RxBytes - x)
            BY <3>1, <1>2
        <3> HIDE DEF x, y, z
        <3>4. z <= RxBytes
            BY <3>2, <3>3
        <3> QED BY <3>1, <3>4 DEF z
    <2> DEFINE d == [c EXCEPT !.buffer = c.buffer \o seg.data, !.rcv = Add(c.rcv, Len(seg.data))]
               state == IF d.finSent THEN "closed" ELSE "close wait"
    <2>2. Changes(c, d)
        BY <2>1 DEF Conn, Changes, Fields
    <2>3. state \notin {"listen", "open"}
        OBVIOUS
    <2>4. Conn(d)
        BY <2>2 DEF Changes
    <2> HIDE DEF d, state
    <2>5. Changes(d, [d EXCEPT !.rcv = Add(d.rcv, 1), !.peerClosed = TRUE, !.state = state])
        BY <2>3, <2>4 DEF Conn, Changes, Fields
    <2> QED BY <2>2, <2>5 DEF d, state
<1> DEFINE e == [c EXCEPT !.buffer = @ \o seg.data, !.rcv = Add(@, Len(seg.data))]
           f == [e EXCEPT !.rcv = Add(@, 1), !.peerClosed = TRUE,
                          !.state = IF e.finSent THEN "closed" ELSE "close wait"]
<1>3. Accepted(c, seg) \in {c, [c EXCEPT !.error = "no resources"]}
      \/ (~(Len(seg.data) > RxBytes - Len(c.buffer)) /\ Accepted(c, seg) \in {e, f})
    BY Zenon DEF Accepted
<1>4. ASSUME ~(Len(seg.data) > RxBytes - Len(c.buffer))
      PROVE  Changes(c, e) /\ Changes(c, f)
    <2>1. Changes(c, e) /\ Changes(e, f)
        BY <1>2, <1>4
    <2> HIDE DEF e, f
    <2> QED BY <2>1, ChangesTwice
<1> HIDE DEF e, f
<1> QED BY <1>1, <1>3, <1>4, NoChange

LEMMA ProcessedChanges ==
    ASSUME NEW c, Conn(c), NEW seg, IsSequence(seg.data)
    PROVE  Changes(c, Processed(c, seg))
<1>1. Changes(c, Acknowledged(c, seg))
    BY AcknowledgedChanges
<1>2. Conn(Acknowledged(c, seg))
    BY <1>1 DEF Changes
<1>3. Changes(Acknowledged(c, seg), Accepted(Acknowledged(c, seg), seg))
    BY <1>2, AcceptedChanges
<1>4. Changes(c, Accepted(Acknowledged(c, seg), seg))
    BY <1>1, <1>3, ChangesTwice
<1> QED BY <1>1, <1>4 DEF Processed

(* tcp_emit builds segments for the peer only. *)
LEMMA OutgoingWire ==
    /\ \A c, flags, seq, data : Wire(Outgoing(c, flags, seq, data))
    /\ \A c : IsFiniteSet(Repeated(c)) /\ \A seg \in Repeated(c) : Wire(seg)
    /\ \A c, s : IsFiniteSet(Replies(c, s)) /\ \A seg \in Replies(c, s) : Wire(seg)
    /\ \A p, lport, seq, ack, flags, length :
            /\ IsFiniteSet(tcp_refuse(p, lport, seq, ack, flags, length))
            /\ \A seg \in tcp_refuse(p, lport, seq, ack, flags, length) : Wire(seg)
<1>1. \A p, lport, flags, seq, ack, wnd, data :
            Wire(Segment("peer", p, lport, flags, seq, ack, wnd, data))
    BY DEF Wire, Segment
<1>2. \A c, flags, seq, data : Wire(Outgoing(c, flags, seq, data))
    BY <1>1 DEF Outgoing
<1>3. IsFiniteSet({}) /\ \A x : IsFiniteSet({x})
    BY FS_EmptySet, FS_Singleton
<1>4. \A c : IsFiniteSet(Repeated(c)) /\ \A seg \in Repeated(c) : Wire(seg)
    BY <1>2, <1>3 DEF Repeated
<1>5. \A c, s : IsFiniteSet(Replies(c, s)) /\ \A seg \in Replies(c, s) : Wire(seg)
    BY <1>2, <1>3 DEF Replies, tcp_ack
<1>6. \A p, lport, seq, ack, flags, length :
            /\ IsFiniteSet(tcp_refuse(p, lport, seq, ack, flags, length))
            /\ \A seg \in tcp_refuse(p, lport, seq, ack, flags, length) : Wire(seg)
    <2> SUFFICES ASSUME NEW p, NEW lport, NEW seq, NEW ack, NEW flags, NEW length
                 PROVE  /\ IsFiniteSet(tcp_refuse(p, lport, seq, ack, flags, length))
                        /\ \A seg \in tcp_refuse(p, lport, seq, ack, flags, length) : Wire(seg)
        OBVIOUS
    <2> DEFINE one == Segment("peer", p, lport, {"RST"}, ack, 0, 0, <<>>)
               two == Segment("peer", p, lport, {"RST", "ACK"}, 0,
                              Add(seq, length + Cardinality(flags \cap {"SYN", "FIN"})), 0, <<>>)
    <2>1. Wire(one) /\ Wire(two)
        BY <1>1
    <2>2. tcp_refuse(p, lport, seq, ack, flags, length) \in {{}, {one}, {two}}
        BY Zenon DEF tcp_refuse
    <2> HIDE DEF one, two
    <2> QED BY <2>1, <2>2, <1>3
<1> QED BY <1>2, <1>4, <1>5, <1>6

(***************************************************************************)
(* Steps that leave every connection its place.                            *)
(***************************************************************************)
(* Such a step keeps the books. *)
LEMMA PlacesKept ==
    ASSUME IInv, DOMAIN tcp' = Slots, \A s \in Slots : Changes(tcp[s], tcp'[s]),
           UNCHANGED <<connections, listeners, held, generation>>
    PROVE  Tables' /\ Counts' /\ OneListener' /\ Reached' /\ Named'
<1>1. \A s \in Slots : Conn(tcp'[s])
    BY DEF Changes
<1>2. \A s \in Slots : /\ tcp'[s].active = tcp[s].active
                       /\ tcp'[s].gen = tcp[s].gen
                       /\ tcp'[s].backlog = tcp[s].backlog
                       /\ tcp'[s].pending = tcp[s].pending
                       /\ tcp'[s].listener = tcp[s].listener
    BY DEF Changes
<1>3. Active' = Active /\ Active \subseteq Slots
    BY <1>2 DEF Active
<1>4. \A l : {t \in Active : tcp'[t].pending /\ tcp'[t].listener = l} = Children(l)
    BY <1>2, <1>3 DEF Children
<1>5. Tables'
    BY <1>1 DEF IInv, Tables
<1>6. {s \in Active : tcp[s].backlog # 0}' = {s \in Active : tcp[s].backlog # 0}
    BY <1>2, <1>3
<1>7. Counts'
    BY <1>3, <1>6 DEF IInv, Counts
<1>8. OneListener'
    BY <1>2, <1>3 DEF IInv, OneListener
<1>9. Reached'
    <2> SUFFICES ASSUME NEW s \in Active
                 PROVE  IF tcp'[s].pending
                        THEN /\ tcp'[s].listener \in Active
                             /\ Cardinality({t \in Active : tcp'[t].pending
                                                /\ tcp'[t].listener = tcp'[s].listener})
                                    <= tcp'[tcp'[s].listener].backlog
                        ELSE [slot |-> s, gen |-> tcp'[s].gen] \in held
        BY <1>3 DEF Reached, Children
    <2>1. /\ tcp'[s].pending = tcp[s].pending /\ tcp'[s].listener = tcp[s].listener
          /\ tcp'[s].gen = tcp[s].gen
        BY <1>2, <1>3
    <2>2. CASE tcp[s].pending
        <3>1. tcp[s].listener \in Active /\ Cardinality(Children(tcp[s].listener)) <= tcp[tcp[s].listener].backlog
            BY <2>2 DEF IInv, Reached
        <3>2. tcp'[tcp[s].listener].backlog = tcp[tcp[s].listener].backlog
            BY <3>1, <1>2, <1>3
        <3> QED BY <3>1, <3>2, <2>1, <2>2, <1>4
    <2>3. CASE ~tcp[s].pending
        BY <2>1, <2>3 DEF IInv, Reached
    <2> QED BY <2>2, <2>3
<1>10. Named'
    BY <1>2 DEF IInv, Named, Resolves, Tables
<1> QED BY <1>5, <1>7, <1>8, <1>9, <1>10

(* One slot changes, or none. *)
LEMMA OneChanges ==
    ASSUME IInv, NEW s, NEW c, s \in Slots => Changes(tcp[s], c), SetSlot(s, c)
    PROVE  DOMAIN tcp' = Slots /\ \A t \in Slots : Changes(tcp[t], tcp'[t])
<1>1. DOMAIN tcp = Slots /\ (\A t \in Slots : Conn(tcp[t]))
    BY DEF IInv, Tables
<1>2. tcp' = [tcp EXCEPT ![s] = c]
    BY DEF SetSlot
<1>3. DOMAIN tcp' = Slots /\ (\A t \in Slots : tcp'[t] = IF t = s THEN c ELSE tcp[t])
    BY <1>1, <1>2
<1> QED BY <1>1, <1>3, NoChange

LEMMA NoneChanges ==
    ASSUME IInv, UNCHANGED tcp
    PROVE  DOMAIN tcp' = Slots /\ \A t \in Slots : Changes(tcp[t], tcp'[t])
<1> QED BY NoChange DEF IInv, Tables

(* Such a step keeps all of it, if the timer and the wires are as they should. *)
Placed == DOMAIN tcp' = Slots /\ \A t \in Slots : Changes(tcp[t], tcp'[t])

LEMMA QuietKeeps ==
    ASSUME IInv, Placed, UNCHANGED <<connections, listeners, held, generation>>, OneTimer', Wires'
    PROVE  IInv'
<1> QED BY PlacesKept DEF IInv, Placed

LEMMA TimerSteps ==
    ASSUME IInv
    PROVE  /\ UNCHANGED <<call, timers>> => OneTimer'
           /\ \A op, s, left : Idle /\ op # "none" /\ Begin(op, s, left) => OneTimer'
           /\ ~Idle /\ Return => OneTimer'
<1>1. DOMAIN call = {"op", "slot", "left"} /\ timers = IF call.op = "none" THEN 0 ELSE 1
    BY DEF IInv, OneTimer, Idle
<1>2. ASSUME UNCHANGED <<call, timers>> PROVE OneTimer'
    BY <1>1, <1>2 DEF OneTimer, Idle
<1>3. ASSUME NEW op, NEW s, NEW left, Idle, op # "none", Begin(op, s, left) PROVE OneTimer'
    BY <1>1, <1>3 DEF OneTimer, Idle, Begin
<1>4. ASSUME ~Idle, Return PROVE OneTimer'
    BY <1>1, <1>4 DEF OneTimer, Idle, Return, NoCall
<1> QED BY <1>2, <1>3, <1>4

LEMMA WireSteps ==
    ASSUME IInv
    PROVE  /\ outbound' = outbound => Carries(outbound')
           /\ \A S : IsFiniteSet(S) /\ (\A seg \in S : Wire(seg)) /\ outbound' = Sent(S)
                        => Carries(outbound')
           /\ \A x : Wire(x) /\ outbound' = Sent({x}) => Carries(outbound')
           /\ UNCHANGED <<inbound, stray>> /\ Carries(outbound') => Wires'
<1>1. Carries(outbound) /\ Carries(inbound) /\ (\A seg \in stray : Wire(seg))
    BY DEF IInv, Wires
<1>2. ASSUME NEW S, IsFiniteSet(S), \A seg \in S : Wire(seg) PROVE Carries(Sent(S))
    BY <1>1, <1>2, SentCarries
<1>3. ASSUME NEW x, Wire(x) PROVE Carries(Sent({x}))
    BY <1>3, <1>2, FS_Singleton
<1>4. ASSUME UNCHANGED <<inbound, stray>>, Carries(outbound') PROVE Wires'
    <2>1. Carries(inbound')
        BY <1>1, <1>4
    <2> QED BY <1>1, <1>4, <2>1 DEF Wires
<1> QED BY <1>1, <1>2, <1>3, <1>4

(* The reset of the device leaves every slot to its owner. *)
LEMMA ResetKeeps == IInv /\ DeviceReset /\ UNCHANGED <<inbound, stray>> => IInv'
<1> SUFFICES ASSUME IInv, DeviceReset, UNCHANGED <<inbound, stray>> PROVE IInv'
    OBVIOUS
<1>1. tcp' = [s \in Slots |-> IF tcp[s].active
                              THEN [tcp[s] EXCEPT !.error = "reset", !.state = "reset"]
                              ELSE tcp[s]]
    BY DEF DeviceReset
<1>2. ASSUME NEW c, Conn(c) PROVE Changes(c, [c EXCEPT !.error = "reset", !.state = "reset"])
    BY <1>2 DEF Conn, Changes, Fields
<1>3. Placed
    BY <1>1, <1>2, NoChange DEF Placed, IInv, Tables
<1>4. UNCHANGED <<connections, listeners, held, generation, call, timers, outbound>>
    BY DEF DeviceReset, UnchangedTables, UnchangedCalls
<1>5. OneTimer' /\ Wires'
    BY <1>4, TimerSteps, WireSteps
<1> QED BY <1>3, <1>4, <1>5, QuietKeeps

(* A segment for a connection: the connection stays where it is. *)
LEMMA MatchedKeeps ==
    ASSUME IInv, NEW s \in Slots, NEW seg, IsSequence(seg.data), ReceiveMatched(s, seg)
    PROVE  Placed /\ Carries(outbound')
<1> DEFINE c == tcp[s]
           done == [c EXCEPT !.una = seg.ack, !.rtx = {}, !.rtxData = <<>>, !.state = "established"]
           opened == [c EXCEPT !.una = seg.ack, !.rcv = Add(seg.seq, 1), !.rtx = {},
                               !.state = "established"]
           reset == [c EXCEPT !.state = "reset", !.error = "connection reset"]
<1>1. Conn(c)
    BY DEF IInv, Tables
<1>2. Changes(c, done) /\ Changes(c, opened) /\ Changes(c, reset)
    <2> HIDE DEF c
    <2>1. Changes(c, done)
        BY <1>1 DEF Conn, Changes, Fields
    <2>2. Changes(c, opened)
        BY <1>1 DEF Conn, Changes, Fields
    <2>3. Changes(c, reset)
        BY <1>1 DEF Conn, Changes, Fields
    <2> QED BY <2>1, <2>2, <2>3
<1>3. Changes(c, Processed(done, seg)) /\ Changes(c, Processed(c, seg))
    <2> HIDE DEF done, c
    <2>1. Conn(done)
        BY <1>2 DEF Changes
    <2>2. Changes(done, Processed(done, seg)) /\ Changes(c, Processed(c, seg))
        BY <1>1, <2>1, ProcessedChanges
    <2> QED BY <1>2, <2>2, ChangesTwice
<1>4. \/ SetSlot(s, reset) /\ outbound' = Sent({})
      \/ SetSlot(s, Processed(done, seg)) /\ outbound' = Sent(Replies(Processed(done, seg), seg))
      \/ UNCHANGED tcp /\ outbound' = Sent({})
      \/ SetSlot(s, opened) /\ outbound' = Sent({tcp_ack(opened)})
      \/ SetSlot(s, Processed(c, seg)) /\ outbound' = Sent(Replies(Processed(c, seg), seg))
    BY Zenon DEF ReceiveMatched
<1>5. Placed
    <2> HIDE DEF done, opened, reset
    <2>1. \A d : Changes(c, d) /\ SetSlot(s, d) => Placed
        BY OneChanges DEF Placed
    <2>2. UNCHANGED tcp => Placed
        BY NoneChanges DEF Placed
    <2> HIDE DEF c
    <2> QED BY <1>2, <1>3, <1>4, <2>1, <2>2
<1>6. Carries(outbound')
    <2> HIDE DEF done, opened, reset, c
    <2>1. IsFiniteSet({}) /\ Wire(tcp_ack(opened))
        BY FS_EmptySet, OutgoingWire DEF tcp_ack
    <2>2. \A d : IsFiniteSet(Replies(d, seg)) /\ \A x \in Replies(d, seg) : Wire(x)
        BY OutgoingWire
    <2> QED BY <1>4, <2>1, <2>2, WireSteps
<1> QED BY <1>5, <1>6

(* A segment that nobody takes is refused at most. *)
LEMMA RefusedKeeps ==
    ASSUME IInv, NEW seg, ~TakesSyn(seg), ReceiveUnmatched(seg)
    PROVE  /\ Placed /\ Carries(outbound')
           /\ UNCHANGED <<connections, listeners, generation>>
<1> DEFINE S == tcp_refuse(seg.peer, seg.lport, seg.seq, seg.ack, seg.flags, Len(seg.data))
<1>1. outbound' = Sent(S) /\ UNCHANGED <<tcp, generation, connections, listeners, drawn>>
    BY DEF ReceiveUnmatched, tcp_open_child
<1>2. IsFiniteSet(S) /\ (\A x \in S : Wire(x))
    BY OutgoingWire
<1> HIDE DEF S
<1> QED BY <1>1, <1>2, WireSteps, NoneChanges DEF Placed

(***************************************************************************)
(* Calls that leave every connection its place.                            *)
(***************************************************************************)
LEMMA HeldSlot ==
    ASSUME IInv, NEW h \in held
    PROVE  h.slot \in Slots /\ h.gen \in Nat /\ Conn(tcp[h.slot]) /\ h.slot \in Active
           /\ h = [slot |-> h.slot, gen |-> h.gen]
<1>1. h \in [slot : Slots, gen : Nat]
    BY DEF IInv, Tables
<1>2. Resolves(h)
    BY DEF IInv, Named
<1> QED BY <1>1, <1>2 DEF IInv, Tables, Resolves, Active

LEMMA ConnectKeeps ==
    ASSUME IInv, NEW h \in held, NEW p, network_tcp_connect(h, p), UNCHANGED <<inbound, stray>>
    PROVE  IInv'
<1>1. Conn(tcp[h.slot]) /\ tcp[h.slot].state = "open" /\ h.slot \in Slots /\ Idle
    BY HeldSlot DEF network_tcp_connect
<1>2. PICK port \in EphemeralPorts, isn \in NextIsn :
        LET c == [tcp[h.slot] EXCEPT !.lport = port, !.peer = p, !.una = isn,
                                     !.nxt = isn, !.state = "syn sent"]
        IN  \/ /\ SetSlot(h.slot, Tracked(c, {"SYN"}, <<>>))
               /\ outbound' = Sent({Outgoing(c, {"SYN"}, isn, <<>>)})
               /\ Begin("connect", h.slot, 0)
            \/ /\ SetSlot(h.slot, c)
               /\ UNCHANGED <<outbound, call, timers>>
    BY Zenon DEF network_tcp_connect
<1> DEFINE b == tcp[h.slot]
           c == [b EXCEPT !.lport = port, !.peer = p, !.una = isn, !.nxt = isn, !.state = "syn sent"]
<1>3. Changes(b, c)
    <2> HIDE DEF b
    <2>1. Conn(b) /\ b.state = "open"
        BY <1>1 DEF b
    <2> QED BY <2>1 DEF Conn, Changes, Fields
<1>4. Changes(b, Tracked(c, {"SYN"}, <<>>))
    <2> HIDE DEF c, b
    <2>1. Conn(c)
        BY <1>3 DEF Changes
    <2> QED BY <2>1, <1>3, TrackedChanges, ChangesTwice
<1>5. Placed
    <2> HIDE DEF c
    <2>1. SetSlot(h.slot, Tracked(c, {"SYN"}, <<>>)) \/ SetSlot(h.slot, c)
        BY <1>2 DEF c
    <2> QED BY <2>1, <1>3, <1>4, OneChanges DEF Placed
<1>6. OneTimer' /\ Carries(outbound')
    <2> HIDE DEF c
    <2>1. Begin("connect", h.slot, 0) \/ UNCHANGED <<call, timers>>
        BY <1>2
    <2>2. outbound' = outbound \/ outbound' = Sent({Outgoing(c, {"SYN"}, isn, <<>>)})
        BY <1>2 DEF c
    <2> QED BY <2>1, <2>2, <1>1, TimerSteps, WireSteps, OutgoingWire
<1>7. UNCHANGED <<connections, listeners, held, generation>>
    BY DEF network_tcp_connect
<1> QED BY <1>5, <1>6, <1>7, WireSteps, QuietKeeps

LEMMA AcceptKeeps ==
    ASSUME IInv, NEW h \in held, network_tcp_accept(h), UNCHANGED <<inbound, stray>>
    PROVE  IInv'
<1>1. Idle /\ Begin("accept", h.slot, 0) /\ UNCHANGED <<tcp, outbound, held>>
      /\ UNCHANGED <<connections, listeners, generation>>
    BY DEF network_tcp_accept, UnchangedTables
<1> QED BY <1>1, TimerSteps, WireSteps, NoneChanges, QuietKeeps DEF Placed

(* A chunk of a write leaves. *)
LEMMA ChunkLeaves ==
    ASSUME IInv, NEW s, EmitChunk(s, 1)
    PROVE  Placed /\ Carries(outbound')
<1> DEFINE b == tcp[s]
           c == [b EXCEPT !.una = b.nxt]
           data == [i \in 1 .. 1 |-> Len(emitted[c.peer]) + i]
<1>1. SetSlot(s, Tracked(c, {"ACK"}, data)) /\ outbound' = Sent({Outgoing(c, {"ACK"}, c.nxt, data)})
    BY Zenon DEF EmitChunk
<1>2. ASSUME s \in Slots PROVE Changes(b, Tracked(c, {"ACK"}, data))
    <2>1. Conn(b)
        BY <1>2 DEF IInv, Tables
    <2> HIDE DEF b, data
    <2>2. Changes(b, c)
        BY <2>1 DEF Conn, Changes, Fields
    <2> HIDE DEF c
    <2>3. Conn(c)
        BY <2>2 DEF Changes
    <2> QED BY <2>2, <2>3, TrackedChanges, ChangesTwice
<1>3. Placed
    <2> HIDE DEF c, data
    <2> QED BY <1>1, <1>2, OneChanges DEF Placed
<1>4. Carries(outbound')
    <2> HIDE DEF c, data
    <2> QED BY <1>1, WireSteps, OutgoingWire
<1> QED BY <1>3, <1>4

LEMMA WriteKeeps ==
    ASSUME IInv, NEW h \in held, NEW n, network_tcp_write(h, n), UNCHANGED <<inbound, stray>>
    PROVE  IInv'
<1>1. Idle /\ UNCHANGED <<connections, listeners, held, generation>>
    BY DEF network_tcp_write, UnchangedTables
<1>2. \/ EmitChunk(h.slot, 1) /\ Begin("write", h.slot, n)
      \/ /\ SetSlot(h.slot, [tcp[h.slot] EXCEPT !.una = tcp[h.slot].nxt])
         /\ UNCHANGED <<call, timers, outbound, emitted>>
    BY DEF network_tcp_write
<1>3. CASE EmitChunk(h.slot, 1) /\ Begin("write", h.slot, n)
    BY <1>1, <1>3, ChunkLeaves, TimerSteps, WireSteps, QuietKeeps
<1>4. CASE /\ SetSlot(h.slot, [tcp[h.slot] EXCEPT !.una = tcp[h.slot].nxt])
           /\ UNCHANGED <<call, timers, outbound, emitted>>
    <2> DEFINE b == tcp[h.slot]
    <2>1. Changes(b, [b EXCEPT !.una = b.nxt])
        <3>1. Conn(b)
            BY HeldSlot
        <3> HIDE DEF b
        <3> QED BY <3>1 DEF Conn, Changes, Fields
    <2>2. Placed
        BY <2>1, <1>4, OneChanges DEF Placed
    <2> QED BY <2>2, <1>1, <1>4, TimerSteps, WireSteps, QuietKeeps
<1> QED BY <1>2, <1>3, <1>4

(* network_tcp_read takes bytes out of the buffer, or none. *)
TakesOrLeaves(s) == TakeBytes(s) \/ UNCHANGED tcp

LEMMA BytesTaken ==
    ASSUME IInv, NEW s, TakesOrLeaves(s)
    PROVE  Placed
<1>1. CASE UNCHANGED tcp
    BY <1>1, NoneChanges DEF Placed
<1>2. CASE TakeBytes(s)
    <2> DEFINE c == tcp[s]
    <2>1. UNCHANGED tcp \/ \E n \in 1 .. Len(c.buffer) :
                SetSlot(s, [c EXCEPT !.buffer = SubSeq(c.buffer, n + 1, Len(c.buffer))])
        BY <1>2, Zenon DEF TakeBytes
    <2>2. ASSUME s \in Slots, NEW n \in 1 .. Len(c.buffer)
          PROVE  Changes(c, [c EXCEPT !.buffer = SubSeq(c.buffer, n + 1, Len(c.buffer))])
        <3>1. Conn(c)
            BY <2>2 DEF IInv, Tables
        <3> HIDE DEF c
        <3>2. IsSequence(c.buffer) /\ Len(c.buffer) <= RxBytes
            BY <3>1 DEF Conn
        <3> DEFINE rest == SubSeq(c.buffer, n + 1, Len(c.buffer))
        <3>3. IsSequence(rest) /\ Len(rest) <= Len(c.buffer)
            BY <2>2, <3>2, Remainder
        <3>4. Len(rest) <= RxBytes
            <4>1. Len(rest) \in Nat /\ Len(c.buffer) \in Nat /\ RxBytes \in Nat
                BY <3>2, <3>3, Concatenated, TcpAssumption
            <4> QED BY <4>1, <3>2, <3>3
        <3> HIDE DEF rest
        <3>5. Changes(c, [c EXCEPT !.buffer = rest])
            BY <3>1, <3>3, <3>4 DEF Conn, Changes, Fields
        <3> QED BY <3>5 DEF rest
    <2>3. CASE UNCHANGED tcp
        BY <2>3, NoneChanges DEF Placed
    <2>4. CASE \E n \in 1 .. Len(c.buffer) :
                SetSlot(s, [c EXCEPT !.buffer = SubSeq(c.buffer, n + 1, Len(c.buffer))])
        <3>1. PICK n \in 1 .. Len(c.buffer) :
                SetSlot(s, [c EXCEPT !.buffer = SubSeq(c.buffer, n + 1, Len(c.buffer))])
            BY <2>4
        <3> QED BY <3>1, <2>2, OneChanges DEF Placed
    <2> QED BY <2>1, <2>3, <2>4
<1> QED BY <1>1, <1>2 DEF TakesOrLeaves

LEMMA ReadKeeps ==
    ASSUME IInv, NEW h \in held, network_tcp_read(h), UNCHANGED <<inbound, stray>>
    PROVE  IInv'
<1>1. Idle /\ UNCHANGED <<connections, listeners, held, generation, outbound>>
    BY DEF network_tcp_read, UnchangedTables
<1>2. \/ TakeBytes(h.slot) /\ UNCHANGED <<call, timers>>
      \/ Begin("read", h.slot, 0) /\ UNCHANGED <<tcp, delivered>>
    BY DEF network_tcp_read
<1>3. Placed
    BY <1>2, BytesTaken DEF TakesOrLeaves
<1>4. OneTimer'
    BY <1>1, <1>2, TimerSteps
<1> QED BY <1>1, <1>3, <1>4, WireSteps, QuietKeeps

LEMMA ShutdownKeeps ==
    ASSUME IInv, NEW h \in held, network_tcp_shutdown(h), UNCHANGED <<inbound, stray>>
    PROVE  IInv'
<1> DEFINE b == tcp[h.slot]
           c == [b EXCEPT !.una = b.nxt, !.finSent = TRUE, !.state = "fin wait"]
<1>1. Idle /\ UNCHANGED <<connections, listeners, held, generation>>
    BY DEF network_tcp_shutdown, UnchangedTables
<1>2. \/ /\ SetSlot(h.slot, Tracked(c, {"FIN", "ACK"}, <<>>))
         /\ outbound' = Sent({Outgoing(c, {"FIN", "ACK"}, c.nxt, <<>>)})
         /\ Begin("shutdown", h.slot, 0)
      \/ SetSlot(h.slot, c) /\ UNCHANGED <<outbound, call, timers>>
    BY Zenon DEF network_tcp_shutdown
<1>3. Conn(b)
    BY HeldSlot
<1>4. Changes(b, c)
    <2> HIDE DEF b
    <2> QED BY <1>3 DEF Conn, Changes, Fields
<1> HIDE DEF c
<1>5. Changes(b, Tracked(c, {"FIN", "ACK"}, <<>>))
    <2>1. Conn(c)
        BY <1>4 DEF Changes
    <2> HIDE DEF b
    <2> QED BY <2>1, <1>4, TrackedChanges, ChangesTwice
<1>6. Placed
    BY <1>2, <1>4, <1>5, OneChanges DEF Placed
<1>7. OneTimer' /\ Carries(outbound')
    BY <1>1, <1>2, TimerSteps, WireSteps, OutgoingWire
<1> QED BY <1>1, <1>6, <1>7, WireSteps, QuietKeeps

LEMMA CancelKeeps ==
    ASSUME IInv, NEW h \in held, network_cancel(h), UNCHANGED <<inbound, stray>>
    PROVE  IInv'
<1> DEFINE b == tcp[h.slot]
<1>1. SetSlot(h.slot, [b EXCEPT !.cancelled = TRUE])
      /\ UNCHANGED <<connections, listeners, held, generation, call, timers, outbound>>
    BY DEF network_cancel, UnchangedTables, UnchangedCalls
<1>2. Changes(b, [b EXCEPT !.cancelled = TRUE])
    <2>1. Conn(b)
        BY HeldSlot
    <2> HIDE DEF b
    <2> QED BY <2>1 DEF Conn, Changes, Fields
<1>3. Placed
    BY <1>1, <1>2, OneChanges DEF Placed
<1> QED BY <1>1, <1>3, TimerSteps, WireSteps, QuietKeeps

(***************************************************************************)
(* Turns of the wait loops, the peers and the wire.                        *)
(***************************************************************************)
LEMMA TurnRetransmits ==
    ASSUME IInv, ~Idle, NEW s, RetransmitTurn(s, tcp[s])
    PROVE  Placed /\ OneTimer' /\ Carries(outbound')
<1>1. s \in Slots => Changes(tcp[s], tcp_retransmit(tcp[s]))
    BY RetransmitChanges DEF IInv, Tables
<1>2. Placed
    BY <1>1, OneChanges DEF RetransmitTurn, Placed
<1>3. OneTimer'
    BY TimerSteps DEF RetransmitTurn, Stay
<1>4. Carries(outbound')
    BY WireSteps, OutgoingWire DEF RetransmitTurn
<1> QED BY <1>2, <1>3, <1>4

LEMMA ConnectTurnKeeps == IInv /\ ConnectTurn /\ UNCHANGED <<inbound, stray>> => IInv'
<1> SUFFICES ASSUME IInv, ConnectTurn, UNCHANGED <<inbound, stray>> PROVE IInv'
    OBVIOUS
<1>1. ~Idle /\ UNCHANGED <<connections, listeners, held, generation>>
    BY DEF ConnectTurn, UnchangedTables, Idle
<1>2. \/ Return /\ UNCHANGED <<tcp, outbound>>
      \/ RetransmitTurn(call.slot, tcp[call.slot])
    BY DEF ConnectTurn
<1>3. CASE Return /\ UNCHANGED <<tcp, outbound>>
    BY <1>1, <1>3, NoneChanges, TimerSteps, WireSteps, QuietKeeps DEF Placed
<1>4. CASE RetransmitTurn(call.slot, tcp[call.slot])
    BY <1>1, <1>4, TurnRetransmits, WireSteps, QuietKeeps
<1> QED BY <1>2, <1>3, <1>4

(* A chunk is counted: the next one leaves, or the call returns. *)
LEMMA ChunkCounted ==
    ASSUME IInv, call.op = "write", NEW c, NEW acknowledged,
           call.slot \in Slots => Changes(tcp[call.slot], c),
           CountsChunk(c, acknowledged)
    PROVE  Placed /\ OneTimer' /\ Carries(outbound')
<1> DEFINE s == call.slot
<1>1. \/ EmitChunk(s, 1) /\ call' = [call EXCEPT !.left = @ - 1] /\ UNCHANGED timers
      \/ /\ SetSlot(s, c) \/ SetSlot(s, [c EXCEPT !.una = c.nxt])
         /\ Return /\ UNCHANGED outbound
    BY DEF CountsChunk
<1>2. CASE EmitChunk(s, 1) /\ call' = [call EXCEPT !.left = @ - 1] /\ UNCHANGED timers
    <2>1. OneTimer'
        <3>1. DOMAIN call = {"op", "slot", "left"} /\ timers = 1
            BY DEF IInv, OneTimer, Idle
        <3>2. DOMAIN call' = {"op", "slot", "left"} /\ call'.op = "write" /\ timers' = 1
            BY <3>1, <1>2
        <3> QED BY <3>2 DEF OneTimer, Idle
    <2> QED BY <2>1, <1>2, ChunkLeaves
<1>3. CASE /\ SetSlot(s, c) \/ SetSlot(s, [c EXCEPT !.una = c.nxt])
           /\ Return /\ UNCHANGED outbound
    <2>1. ASSUME s \in Slots PROVE Changes(tcp[s], [c EXCEPT !.una = c.nxt])
        <3>1. Changes(tcp[s], c) /\ Conn(c)
            BY <2>1 DEF Changes
        <3>2. Changes(c, [c EXCEPT !.una = c.nxt])
            BY <3>1 DEF Conn, Changes, Fields
        <3> QED BY <3>1, <3>2, ChangesTwice
    <2>2. Placed
        BY <2>1, <1>3, OneChanges DEF Placed
    <2>3. OneTimer' /\ Carries(outbound')
        BY <1>3, TimerSteps, WireSteps DEF Idle
    <2> QED BY <2>2, <2>3
<1> QED BY <1>1, <1>2, <1>3

LEMMA WriteTurnKeeps == IInv /\ WriteTurn /\ UNCHANGED <<inbound, stray>> => IInv'
<1> SUFFICES ASSUME IInv, WriteTurn, UNCHANGED <<inbound, stray>> PROVE IInv'
    OBVIOUS
<1> DEFINE s == call.slot
           c == tcp[s]
<1>1. call.op = "write" /\ ~Idle /\ UNCHANGED <<connections, listeners, held, generation>>
    BY DEF WriteTurn, UnchangedTables, Idle
<1>2. \/ Return /\ UNCHANGED <<tcp, outbound>>
      \/ CountsChunk(c, TRUE)
      \/ /\ SetSlot(s, tcp_retransmit(c))
         /\ Stay \/ Return
         /\ outbound' = Sent(Repeated(c))
      \/ CountsChunk(tcp_retransmit(c), FALSE)
    BY DEF WriteTurn
<1>3. s \in Slots => Changes(tcp[s], c) /\ Changes(tcp[s], tcp_retransmit(c))
    BY NoChange, RetransmitChanges DEF IInv, Tables
<1>4. CASE Return /\ UNCHANGED <<tcp, outbound>>
    BY <1>1, <1>4, NoneChanges, TimerSteps, WireSteps, QuietKeeps DEF Placed
<1>5. CASE CountsChunk(c, TRUE) \/ CountsChunk(tcp_retransmit(c), FALSE)
    <2>1. Placed /\ OneTimer' /\ Carries(outbound')
        BY <1>1, <1>3, <1>5, ChunkCounted
    <2> QED BY <2>1, <1>1, WireSteps, QuietKeeps
<1>6. CASE /\ SetSlot(s, tcp_retransmit(c))
           /\ Stay \/ Return
           /\ outbound' = Sent(Repeated(c))
    <2>1. Placed
        BY <1>3, <1>6, OneChanges DEF Placed
    <2>2. OneTimer'
        BY <1>1, <1>6, TimerSteps DEF Stay
    <2>3. Carries(outbound')
        BY <1>6, WireSteps, OutgoingWire
    <2> QED BY <2>1, <2>2, <2>3, <1>1, WireSteps, QuietKeeps
<1> QED BY <1>2, <1>4, <1>5, <1>6

LEMMA ReadTurnKeeps == IInv /\ ReadTurn /\ UNCHANGED <<inbound, stray>> => IInv'
<1> SUFFICES ASSUME IInv, ReadTurn, UNCHANGED <<inbound, stray>> PROVE IInv'
    OBVIOUS
<1>1. ~Idle /\ Return /\ UNCHANGED <<connections, listeners, held, generation, outbound>>
    BY DEF ReadTurn, UnchangedTables, Idle
<1>2. TakesOrLeaves(call.slot)
    BY DEF ReadTurn, TakesOrLeaves
<1> QED BY <1>1, <1>2, BytesTaken, TimerSteps, WireSteps, QuietKeeps

LEMMA ShutdownTurnKeeps == IInv /\ ShutdownTurn /\ UNCHANGED <<inbound, stray>> => IInv'
<1> SUFFICES ASSUME IInv, ShutdownTurn, UNCHANGED <<inbound, stray>> PROVE IInv'
    OBVIOUS
<1> DEFINE s == call.slot
           c == tcp[s]
<1>1. ~Idle /\ UNCHANGED <<connections, listeners, held, generation>>
    BY DEF ShutdownTurn, UnchangedTables, Idle
<1>2. \/ Return /\ UNCHANGED <<tcp, outbound>>
      \/ SetSlot(s, [c EXCEPT !.state = "closed"]) /\ Return /\ UNCHANGED outbound
      \/ RetransmitTurn(s, c)
    BY DEF ShutdownTurn
<1>3. CASE Return /\ UNCHANGED <<tcp, outbound>>
    BY <1>1, <1>3, NoneChanges, TimerSteps, WireSteps, QuietKeeps DEF Placed
<1>4. CASE SetSlot(s, [c EXCEPT !.state = "closed"]) /\ Return /\ UNCHANGED outbound
    <2>1. ASSUME s \in Slots PROVE Changes(c, [c EXCEPT !.state = "closed"])
        <3>1. Conn(c)
            BY <2>1 DEF IInv, Tables
        <3> HIDE DEF c
        <3> QED BY <3>1 DEF Conn, Changes, Fields
    <2>2. Placed
        BY <2>1, <1>4, OneChanges DEF Placed
    <2> QED BY <2>2, <1>1, <1>4, TimerSteps, WireSteps, QuietKeeps
<1>5. CASE RetransmitTurn(s, c)
    BY <1>1, <1>5, TurnRetransmits, WireSteps, QuietKeeps
<1> QED BY <1>2, <1>3, <1>4, <1>5

LEMMA DeadlineKeeps == IInv /\ CallDeadline /\ UNCHANGED <<inbound, stray>> => IInv'
<1> SUFFICES ASSUME IInv, CallDeadline, UNCHANGED <<inbound, stray>> PROVE IInv'
    OBVIOUS
<1>1. ~Idle /\ Return /\ UNCHANGED <<tcp, connections, listeners, held, generation, outbound>>
    BY DEF CallDeadline, UnchangedTables
<1> QED BY <1>1, NoneChanges, TimerSteps, WireSteps, QuietKeeps DEF Placed

(* The peers and the wire do not touch the stack. *)
LEMMA OutsideKeeps ==
    ASSUME IInv, UnchangedStack, Wires'
    PROVE  IInv'
<1>1. UNCHANGED <<tcp, call, timers, connections, listeners, held, generation>>
    BY DEF UnchangedStack
<1> QED BY <1>1, NoneChanges, TimerSteps, QuietKeeps DEF Placed

(* What a peer answers carries no bytes. *)
LEMMA ReplyCarries ==
    ASSUME NEW p, NEW r, NEW seg
    PROVE  Carries(PeerStep(p, r, seg).reply)
<1>1. \A q, flags, seq : Wire(PeerSegment(p, q, flags, seq, <<>>))
    BY NothingCarries DEF Wire, PeerSegment, Segment
<1>2. Wire(Segment("stack", p, seg.lport, {"RST"}, seg.ack, 0, 0, <<>>))
    BY NothingCarries DEF Wire, Segment
<1> DEFINE step == PeerStep(p, r, seg)
           refusal == <<Segment("stack", p, seg.lport, {"RST"}, seg.ack, 0, 0, <<>>)>>
<1>3. \/ \E x : step = [peer |-> x, reply |-> <<>>]
      \/ \E x, q, flags, seq :
            step = [peer |-> x, reply |-> <<PeerSegment(p, q, flags, seq, <<>>)>>]
      \/ \E x : step = [peer |-> x, reply |-> refusal]
    <2> DEFINE taken == PeerTaken(r, seg)
               opened == [r EXCEPT !.st = "established", !.rcv = Add(seg.seq, 1),
                                   !.limit = Edge(seg)]
               asked == [r EXCEPT !.st = "syn received", !.nxt = Add(PeerIsn, 1),
                                  !.rcv = Add(seg.seq, 1), !.lport = seg.lport]
    <2>1. step \in
            { [peer |-> [r EXCEPT !.st = "dead"], reply |-> <<>>],
              [peer |-> opened, reply |-> <<PeerSegment(p, opened, {"ACK"}, opened.nxt, <<>>)>>],
              [peer |-> asked,
               reply |-> <<PeerSegment(p, asked, {"SYN", "ACK"}, PeerIsn, <<>>)>>],
              [peer |-> taken, reply |-> IF CarriesData(seg)
                                         THEN <<PeerSegment(p, taken, {"ACK"}, taken.nxt, <<>>)>>
                                         ELSE <<>>],
              [peer |-> r, reply |-> refusal],
              [peer |-> r, reply |-> <<>>] }
        BY Zenon DEF PeerStep
    <2> HIDE DEF step, opened, asked, taken, refusal
    <2>2. CASE step = [peer |-> taken, reply |-> IF CarriesData(seg)
                                         THEN <<PeerSegment(p, taken, {"ACK"}, taken.nxt, <<>>)>>
                                         ELSE <<>>]
        BY <2>2
    <2> QED BY <2>1, <2>2
<1>4. \A q, flags, seq : Carries(<<PeerSegment(p, q, flags, seq, <<>>)>>)
    BY <1>1, OneCarries
<1>5. Carries(<<>>) /\ Carries(refusal)
    BY <1>2, NothingCarries, OneCarries
<1>6. ASSUME NEW x, NEW y, step = [peer |-> x, reply |-> y] PROVE step.reply = y
    <2> HIDE DEF step
    <2> QED BY <1>6
<1>7. \/ step.reply = <<>> \/ step.reply = refusal
      \/ \E q, flags, seq : step.reply = <<PeerSegment(p, q, flags, seq, <<>>)>>
    <2> HIDE DEF step, refusal
    <2> QED BY <1>3, <1>6
<1> HIDE DEF step, refusal
<1>8. Carries(step.reply)
    BY <1>4, <1>5, <1>7
<1> QED BY <1>8 DEF step

LEMMA ToPeerKeeps == IInv /\ ToPeer => IInv'
<1> SUFFICES ASSUME IInv, ToPeer PROVE IInv'
    OBVIOUS
<1>1. Carries(inbound) /\ Carries(outbound) /\ (\A x \in stray : Wire(x))
    BY DEF IInv, Wires
<1>2. ASSUME NEW seg, PeerReceive(seg) PROVE UnchangedStack /\ Carries(inbound')
    <2> DEFINE reply == PeerStep(seg.peer, peer[seg.peer], seg).reply
    <2>1. inbound' = inbound \o (IF peer[seg.peer].role = "vanisher" THEN <<>> ELSE reply)
          /\ UnchangedStack
        BY <1>2 DEF PeerReceive
    <2>2. Carries(reply) /\ Carries(<<>>)
        BY ReplyCarries, NothingCarries
    <2> HIDE DEF reply
    <2> QED BY <1>1, <2>1, <2>2, Wired
<1>3. CASE outbound # <<>> /\ PeerReceive(Head(outbound)) /\ outbound' = Tail(outbound) /\ UNCHANGED stray
    <2>1. UnchangedStack /\ Carries(inbound')
        BY <1>2, <1>3
    <2>2. Carries(outbound')
        BY <1>1, <1>3, Wired
    <2> QED BY <1>1, <1>3, <2>1, <2>2, OutsideKeeps DEF Wires
<1>4. ASSUME NEW seg \in stray, PeerReceive(seg), stray' = stray \ {seg}, UNCHANGED outbound
      PROVE  IInv'
    <2>1. UnchangedStack /\ Carries(inbound')
        BY <1>2, <1>4
    <2>2. Carries(outbound') /\ (\A x \in stray' : Wire(x))
        BY <1>1, <1>4
    <2> QED BY <2>1, <2>2, OutsideKeeps DEF Wires
<1> QED BY <1>3, <1>4 DEF ToPeer

LEMMA PeerKeeps ==
    ASSUME IInv, NEW p, PeerConnect(p) \/ PeerSend(p) \/ PeerFinish(p) \/ PeerAbort(p)
    PROVE  IInv'
<1>1. \A r, flags, seq, data : IsSequence(data) => Wire(PeerSegment(p, r, flags, seq, data))
    BY DEF Wire, PeerSegment, Segment
<1>2. IsSequence(<<>>) /\ (\A x : IsSequence(<<x>>))
    BY NothingCarries, OneCarries
<1>3. PICK r, seg : PeerSends(p, r, seg) /\ Wire(seg)
    BY <1>1, <1>2 DEF PeerConnect, PeerSend, PeerFinish, PeerAbort
<1>4. UnchangedStack /\ UNCHANGED <<outbound, stray>> /\ inbound' = Append(inbound, seg)
    BY <1>3 DEF PeerSends
<1>5. Carries(inbound) /\ Carries(outbound) /\ (\A x \in stray : Wire(x))
    BY DEF IInv, Wires
<1>6. Carries(inbound') /\ Carries(outbound')
    BY <1>3, <1>4, <1>5, Wired
<1> QED BY <1>4, <1>5, <1>6, OutsideKeeps DEF Wires

LEMMA AstrayKeeps == IInv /\ GoesAstray => IInv'
<1> SUFFICES ASSUME IInv, GoesAstray PROVE IInv'
    OBVIOUS
<1>1. Carries(inbound) /\ Carries(outbound) /\ (\A x \in stray : Wire(x))
    BY DEF IInv, Wires
<1>2. UnchangedStack
    BY DEF GoesAstray
<1>3. /\ Carries(inbound') /\ Carries(outbound')
      /\ \E x : Wire(x) /\ stray' = stray \cup {x}
    BY <1>1, Wired DEF GoesAstray
<1> QED BY <1>1, <1>2, <1>3, OutsideKeeps DEF Wires

(***************************************************************************)
(* Steps that give slots out or take them back.                            *)
(***************************************************************************)
LEMMA Finite ==
    ASSUME IInv
    PROVE  /\ Active \subseteq Slots /\ IsFiniteSet(Active) /\ Cardinality(Active) \in Nat
           /\ \A K \in SUBSET Active : IsFiniteSet(K) /\ Cardinality(K) \in Nat
           /\ \A l : Children(l) \subseteq Active /\ IsFiniteSet(Children(l))
                        /\ Cardinality(Children(l)) \in Nat
<1>1. Active \subseteq Slots /\ IsFiniteSet(Slots)
    BY TcpAssumption DEF Active
<1>2. IsFiniteSet(Active)
    BY <1>1, FS_Subset
<1>3. \A K \in SUBSET Active : IsFiniteSet(K) /\ Cardinality(K) \in Nat
    BY <1>2, FS_Subset, FS_CardinalityType
<1>4. \A l : Children(l) \in SUBSET Active
    BY DEF Children
<1> QED BY <1>1, <1>2, <1>3, <1>4, FS_CardinalityType

LEMMA LeastOf ==
    ASSUME NEW S, S \subseteq Nat, S # {}
    PROVE  LET n == CHOOSE s \in S : \A t \in S : s <= t IN n \in S /\ \A t \in S : n <= t
<1>1. PICK n \in S : \A m \in S : ~ (<<m, n>> \in OpToRel(<, Nat))
    BY NatLessThanWellFounded, WFMin
<1>2. ASSUME NEW m \in S PROVE n <= m
    <2>1. CASE m < n
        <3>1. <<m, n>> \in Nat \X Nat /\ <<m, n>>[1] < <<m, n>>[2]
            BY <2>1
        <3>2. <<m, n>> \in OpToRel(<, Nat)
            BY <3>1 DEF OpToRel
        <3> QED BY <3>2, <1>1
    <2>2. m \in Nat /\ n \in Nat
        OBVIOUS
    <2> QED BY <2>1, <2>2
<1> QED BY <1>2

LEMMA FreeSlotFound ==
    ASSUME FreeSlots # {}
    PROVE  FirstFree \in Slots /\ FirstFree \notin Active
<1>1. FreeSlots \subseteq Nat
    BY TcpAssumption DEF FreeSlots
<1>2. FirstFree \in FreeSlots
    BY <1>1, LeastOf DEF FirstFree
<1> QED BY <1>2 DEF FreeSlots

(* Who has a child has a backlog, so it is nobody's child itself. *)
LEMMA ParentListens ==
    ASSUME IInv, NEW t \in Active, tcp[t].pending
    PROVE  /\ tcp[t].listener \in Active
           /\ tcp[tcp[t].listener].backlog # 0
           /\ ~tcp[tcp[t].listener].pending
<1> DEFINE l == tcp[t].listener
<1>1. l \in Active /\ Cardinality(Children(l)) <= tcp[l].backlog
    BY DEF IInv, Reached
<1>2. t \in Children(l)
    BY DEF Children
<1>3. Conn(tcp[l])
    BY <1>1, Finite DEF IInv, Tables
<1> HIDE DEF l
<1>4. Cardinality(Children(l)) # 0
    <2>1. IsFiniteSet(Children(l))
        BY Finite
    <2> QED BY <2>1, <1>2, FS_EmptySet
<1>5. tcp[l].backlog # 0
    <2>1. tcp[l].backlog \in Nat /\ Cardinality(Children(l)) \in Nat
        BY <1>3, Finite DEF Conn
    <2> QED BY <2>1, <1>1, <1>4
<1>6. ~tcp[l].pending
    BY <1>3, <1>5 DEF Conn
<1> QED BY <1>1, <1>5, <1>6 DEF l

(* A slot that was free is taken: by a call that holds it, or by a child its
   listener has room for. *)
LEMMA SlotTaken ==
    ASSUME IInv, NEW f \in Slots, f \notin Active, NEW d, Conn(d), d.active, d.backlog = 0,
           tcp' = [tcp EXCEPT ![f] = d],
           connections' = connections + 1, listeners' = listeners, generation' \in Nat,
           held' = IF d.pending THEN held ELSE held \cup {[slot |-> f, gen |-> d.gen]},
           d.pending => /\ d.listener \in Active
                        /\ Cardinality(Children(d.listener)) < tcp[d.listener].backlog
    PROVE  Tables' /\ Counts' /\ OneListener' /\ Reached' /\ Named'
<1>1. DOMAIN tcp = Slots /\ (\A s \in Slots : Conn(tcp[s])) /\ held \subseteq [slot : Slots, gen : Nat]
    BY DEF IInv, Tables
<1>2. DOMAIN tcp' = Slots /\ tcp'[f] = d /\ (\A s \in Slots \ {f} : tcp'[s] = tcp[s])
    BY <1>1
<1>3. d.gen \in Nat /\ d.pending \in BOOLEAN
    BY DEF Conn
<1>4. Tables'
    <2>1. \A s \in Slots : Conn(tcp'[s])
        BY <1>1, <1>2
    <2>2. held' \subseteq [slot : Slots, gen : Nat]
        BY <1>1, <1>3
    <2> QED BY <1>2, <2>1, <2>2 DEF Tables
<1>5. Active' = Active \cup {f} /\ (\A s \in Active : s # f /\ s \in Slots /\ tcp'[s] = tcp[s])
    BY <1>2 DEF Active
<1>6. {s \in Active : tcp[s].backlog # 0}' = {s \in Active : tcp[s].backlog # 0}
    BY <1>2, <1>5
<1>7. Counts'
    <2>1. Cardinality(Active') = Cardinality(Active) + 1
        BY <1>5, Finite, FS_AddElement
    <2> QED BY <2>1, <1>6 DEF IInv, Counts
<1>8. OneListener'
    <2> SUFFICES ASSUME NEW s \in Active \cup {f}, NEW t \in Active \cup {f},
                        tcp'[s].backlog # 0, tcp'[t].backlog # 0
                 PROVE  s = t
        BY <1>5 DEF OneListener
    <2>1. s \in Active /\ t \in Active
        BY <1>2
    <2> QED BY <2>1, <1>5 DEF IInv, OneListener
<1>9. ASSUME NEW l
      PROVE  /\ {t \in Active \cup {f} : tcp'[t].pending /\ tcp'[t].listener = l} \subseteq Children(l) \cup {f}
             /\ ~(d.pending /\ d.listener = l) =>
                    {t \in Active \cup {f} : tcp'[t].pending /\ tcp'[t].listener = l} = Children(l)
    BY <1>2, <1>5 DEF Children
<1>10. Reached'
    <2> SUFFICES ASSUME NEW s \in Active \cup {f}
                 PROVE  IF tcp'[s].pending
                        THEN /\ tcp'[s].listener \in Active \cup {f}
                             /\ Cardinality({t \in Active \cup {f} : tcp'[t].pending
                                                /\ tcp'[t].listener = tcp'[s].listener})
                                    <= tcp'[tcp'[s].listener].backlog
                        ELSE [slot |-> s, gen |-> tcp'[s].gen] \in held'
        BY <1>5 DEF Reached, Children
    <2>1. CASE ~tcp'[s].pending
        <3>1. CASE s = f
            BY <3>1, <2>1, <1>2
        <3>2. CASE s \in Active
            <4>1. [slot |-> s, gen |-> tcp[s].gen] \in held
                BY <2>1, <3>2, <1>5 DEF IInv, Reached
            <4> QED BY <4>1, <3>2, <2>1, <1>5
        <3> QED BY <3>1, <3>2
    <2>2. CASE tcp'[s].pending
        <3>1. PICK l : l = tcp'[s].listener
            OBVIOUS
        <3> DEFINE children == {t \in Active \cup {f} : tcp'[t].pending /\ tcp'[t].listener = l}
        <3>2. /\ l \in Active
              /\ Cardinality(Children(l)) <= tcp[l].backlog
              /\ d.pending /\ d.listener = l => Cardinality(Children(l)) < tcp[l].backlog
            <4>1. CASE s = f
                <5>1. d.pending /\ d.listener = l
                    BY <4>1, <3>1, <2>2, <1>2
                <5>2. l \in Active /\ Cardinality(Children(l)) < tcp[l].backlog
                    BY <5>1
                <5>3. Cardinality(Children(l)) \in Nat /\ tcp[l].backlog \in Nat
                    BY <5>2, <1>1, Finite DEF Conn
                <5> QED BY <5>2, <5>3
            <4>2. CASE s \in Active
                <5>1. l = tcp[s].listener /\ tcp[s].pending
                    BY <4>2, <3>1, <2>2, <1>5
                <5> QED BY <5>1, <4>2 DEF IInv, Reached
            <4> QED BY <4>1, <4>2
        <3>3. tcp'[l].backlog = tcp[l].backlog /\ tcp[l].backlog \in Nat
            BY <3>2, <1>1, <1>5 DEF Conn
        <3>4. Cardinality(Children(l)) \in Nat /\ IsFiniteSet(Children(l)) /\ f \notin Children(l)
            BY Finite
        <3>5. Cardinality(children) <= tcp[l].backlog
            <4>1. children \subseteq Children(l) \cup {f}
                  /\ (~(d.pending /\ d.listener = l) => children = Children(l))
                BY <1>9
            <4> HIDE DEF children
            <4>2. CASE ~(d.pending /\ d.listener = l)
                BY <4>1, <4>2, <3>2
            <4>3. CASE d.pending /\ d.listener = l
                <5>1. IsFiniteSet(Children(l) \cup {f})
                      /\ Cardinality(Children(l) \cup {f}) = Cardinality(Children(l)) + 1
                    BY <3>4, FS_AddElement
                <5>2. Cardinality(children) <= Cardinality(Children(l)) + 1 /\ Cardinality(children) \in Nat
                    BY <5>1, <4>1, FS_Subset, FS_CardinalityType
                <5> QED BY <5>2, <4>3, <3>2, <3>3, <3>4
            <4> QED BY <4>2, <4>3
        <3>6. {t \in Active \cup {f} : tcp'[t].pending /\ tcp'[t].listener = tcp'[s].listener} = children
            BY <3>1
        <3> HIDE DEF children
        <3> QED BY <2>2, <3>1, <3>2, <3>3, <3>5, <3>6
    <2> QED BY <2>1, <2>2
<1>11. Named'
    <2> SUFFICES ASSUME NEW h \in held'
                 PROVE  tcp'[h.slot].active /\ tcp'[h.slot].gen = h.gen /\ ~tcp'[h.slot].pending
        BY DEF Named, Resolves
    <2>1. CASE h \in held
        <3>1. h.slot \in Active /\ Resolves(h) /\ ~tcp[h.slot].pending
            BY <2>1, HeldSlot DEF IInv, Named
        <3> QED BY <3>1, <1>5 DEF Resolves
    <2>2. CASE h \notin held
        <3>1. ~d.pending /\ h = [slot |-> f, gen |-> d.gen]
            BY <2>2
        <3> QED BY <3>1, <1>2
    <2> QED BY <2>1, <2>2
<1> QED BY <1>4, <1>7, <1>8, <1>10, <1>11

(* Slots K are given back and slots G, which were pending, get their handle. *)
LEMMA SlotsReturned ==
    ASSUME IInv, NEW K \in SUBSET Active, NEW G \in SUBSET (Active \ K),
           DOMAIN tcp' = Slots,
           \A s \in K : tcp'[s] = Closed,
           \A s \in Slots \ (K \cup G) : Changes(tcp[s], tcp'[s]),
           \A s \in G : /\ Conn(tcp'[s]) /\ tcp'[s].active /\ tcp'[s].gen = tcp[s].gen
                        /\ tcp'[s].backlog = tcp[s].backlog /\ ~tcp'[s].pending,
           connections' = connections - Cardinality(K),
           listeners' = listeners - Cardinality({s \in K : tcp[s].backlog # 0}),
           generation' = generation,
           held' = {h \in held : h.slot \notin K} \cup {[slot |-> s, gen |-> tcp[s].gen] : s \in G},
           \A s \in Active \ (K \cup G) : tcp[s].pending => tcp[s].listener \notin K
    PROVE  Tables' /\ Counts' /\ OneListener' /\ Reached' /\ Named'
<1>1. /\ DOMAIN tcp = Slots /\ (\A s \in Slots : Conn(tcp[s]))
      /\ held \subseteq [slot : Slots, gen : Nat] /\ generation \in Nat
    BY DEF IInv, Tables
<1>2. K \subseteq Active /\ G \subseteq Active /\ Active \subseteq Slots /\ (\A s \in G : s \notin K)
    BY Finite
<1>3. \A s \in Slots : Conn(tcp'[s])
    BY <1>2, FreshSlot DEF Changes
<1>4. \A s \in Slots \ K : /\ tcp'[s].active = tcp[s].active
                           /\ tcp'[s].gen = tcp[s].gen
                           /\ tcp'[s].backlog = tcp[s].backlog
    <2>1. \A s \in G : tcp[s].active
        BY <1>2 DEF Active
    <2>2. \A s \in G : tcp'[s].active = tcp[s].active
        BY <2>1, <1>1, <1>2, <1>3 DEF Conn
    <2> QED BY <2>2 DEF Changes
<1>5. \A s \in Slots \ (K \cup G) : tcp'[s].pending = tcp[s].pending /\ tcp'[s].listener = tcp[s].listener
    BY DEF Changes
<1>6. Active' = Active \ K
    BY <1>4, <1>2, FreshSlot DEF Active
<1>7. Tables'
    <2>1. held' \subseteq [slot : Slots, gen : Nat]
        <3>1. \A s \in G : [slot |-> s, gen |-> tcp[s].gen] \in [slot : Slots, gen : Nat]
            BY <1>1, <1>2 DEF Conn
        <3> QED BY <1>1, <3>1
    <2> QED BY <1>1, <1>3, <2>1 DEF Tables
<1>8. Counts'
    <2> DEFINE B == {s \in Active : tcp[s].backlog # 0}
               C == {s \in K : tcp[s].backlog # 0}
    <2>1. {s \in Active : tcp[s].backlog # 0}' = B \ C
        BY <1>2, <1>4, <1>6
    <2>2. B \subseteq Active /\ C \subseteq B
        BY <1>2
    <2> HIDE DEF B, C
    <2>3. IsFiniteSet(B) /\ IsFiniteSet(C) /\ IsFiniteSet(K) /\ IsFiniteSet(Active)
        BY <2>2, <1>2, Finite
    <2>4. Cardinality(B \ C) = Cardinality(B) - Cardinality(C)
        <3>1. B \cap C = C
            BY <2>2
        <3>2. Cardinality(B \ C) = Cardinality(B) - Cardinality(B \cap C)
            BY <2>3, FS_Difference, Zenon
        <3> QED BY <3>1, <3>2, Zenon
    <2>5. Cardinality(Active \ K) = Cardinality(Active) - Cardinality(K)
        <3>1. Active \cap K = K
            BY <1>2
        <3>2. Cardinality(Active \ K) = Cardinality(Active) - Cardinality(Active \cap K)
            BY <2>3, FS_Difference, Zenon
        <3> QED BY <3>1, <3>2, Zenon
    <2>6. connections = Cardinality(Active) /\ listeners = Cardinality(B)
        BY DEF IInv, Counts, B
    <2>7. connections' = Cardinality(Active') /\ listeners' = Cardinality(B \ C)
        BY <2>4, <2>5, <2>6, <1>6 DEF C
    <2> QED BY <2>1, <2>7 DEF Counts
<1>9. OneListener'
    <2> SUFFICES ASSUME NEW s \in Active \ K, NEW t \in Active \ K,
                        tcp'[s].backlog # 0, tcp'[t].backlog # 0
                 PROVE  s = t
        BY <1>6 DEF OneListener
    <2>1. tcp[s].backlog # 0 /\ tcp[t].backlog # 0
        BY <1>2, <1>4
    <2> QED BY <2>1 DEF IInv, OneListener
<1>10. \A l : {t \in Active \ K : tcp'[t].pending /\ tcp'[t].listener = l} \subseteq Children(l)
    BY <1>2, <1>5 DEF Children
<1>11. Reached'
    <2> SUFFICES ASSUME NEW s \in Active \ K
                 PROVE  IF tcp'[s].pending
                        THEN /\ tcp'[s].listener \in Active \ K
                             /\ Cardinality({t \in Active \ K : tcp'[t].pending
                                                /\ tcp'[t].listener = tcp'[s].listener})
                                    <= tcp'[tcp'[s].listener].backlog
                        ELSE [slot |-> s, gen |-> tcp'[s].gen] \in held'
        BY <1>6 DEF Reached, Children
    <2>1. CASE s \in G
        <3>1. ~tcp'[s].pending /\ tcp'[s].gen = tcp[s].gen
            BY <2>1
        <3> QED BY <3>1, <2>1
    <2>2. CASE s \notin G /\ ~tcp[s].pending
        <3>1. [slot |-> s, gen |-> tcp[s].gen] \in held
            BY <2>2 DEF IInv, Reached
        <3>2. [slot |-> s, gen |-> tcp[s].gen] \in held'
            BY <3>1
        <3>3. ~tcp'[s].pending /\ tcp'[s].gen = tcp[s].gen
            <4>1. s \in Slots \ (K \cup G)
                BY <2>2, <1>2
            <4> QED BY <4>1, <2>2, <1>4, <1>5
        <3> QED BY <3>2, <3>3
    <2>3. CASE s \notin G /\ tcp[s].pending
        <3>1. s \in Slots \ (K \cup G) /\ tcp'[s].pending /\ tcp'[s].listener = tcp[s].listener
            BY <2>3, <1>2, <1>5
        <3>2. PICK l : l = tcp[s].listener
            OBVIOUS
        <3>3. l \in Active \ K /\ Cardinality(Children(l)) <= tcp[l].backlog
            BY <2>3, <3>1, <3>2, <1>2 DEF IInv, Reached
        <3>4. tcp'[l].backlog = tcp[l].backlog /\ tcp[l].backlog \in Nat
            BY <3>3, <1>1, <1>2, <1>4 DEF Conn
        <3> DEFINE children == {t \in Active \ K : tcp'[t].pending /\ tcp'[t].listener = l}
        <3>5. {t \in Active \ K : tcp'[t].pending /\ tcp'[t].listener = tcp'[s].listener} = children
            BY <3>1, <3>2
        <3>6. Cardinality(children) <= tcp[l].backlog
            <4>1. children \in SUBSET Children(l)
                BY <1>10
            <4> HIDE DEF children
            <4>2. Cardinality(children) <= Cardinality(Children(l)) /\ Cardinality(children) \in Nat
                  /\ Cardinality(Children(l)) \in Nat
                BY <4>1, Finite, FS_Subset, FS_CardinalityType
            <4> QED BY <4>2, <3>3, <3>4
        <3> HIDE DEF children
        <3> QED BY <3>1, <3>2, <3>3, <3>4, <3>5, <3>6
    <2> QED BY <2>1, <2>2, <2>3
<1>12. Named'
    <2> SUFFICES ASSUME NEW h \in held'
                 PROVE  tcp'[h.slot].active /\ tcp'[h.slot].gen = h.gen /\ ~tcp'[h.slot].pending
        BY DEF Named, Resolves
    <2>1. CASE h \in held /\ h.slot \notin K
        <3>1. h.slot \in Slots /\ tcp[h.slot].active /\ tcp[h.slot].gen = h.gen /\ ~tcp[h.slot].pending
            BY <2>1, HeldSlot DEF IInv, Named, Resolves
        <3>2. tcp'[h.slot].active /\ tcp'[h.slot].gen = h.gen
            BY <2>1, <3>1, <1>4
        <3>3. ~tcp'[h.slot].pending
            <4>1. CASE h.slot \in G
                BY <4>1
            <4>2. CASE h.slot \notin G
                BY <4>2, <2>1, <3>1, <1>5
            <4> QED BY <4>1, <4>2
        <3> QED BY <3>2, <3>3
    <2>2. CASE \E s \in G : h = [slot |-> s, gen |-> tcp[s].gen]
        <3>1. PICK s \in G : h = [slot |-> s, gen |-> tcp[s].gen]
            BY <2>2
        <3> QED BY <3>1
    <2> QED BY <2>1, <2>2
<1> QED BY <1>7, <1>8, <1>9, <1>11, <1>12

(* network_tcp_open takes the first free slot for its caller. *)
LEMMA OpenKeeps ==
    ASSUME IInv, network_tcp_open, UNCHANGED <<inbound, stray>>
    PROVE  IInv'
<1> DEFINE d == [Closed EXCEPT !.active = TRUE, !.gen = generation, !.state = "open"]
<1>1. generation \in Nat
    BY DEF IInv, Tables
<1>2. FirstFree \in Slots /\ FirstFree \notin Active
    BY FreeSlotFound DEF network_tcp_open
<1>3. /\ Conn(d) /\ d.active /\ d.backlog = 0 /\ ~d.pending /\ d.gen = generation
    <2>1. Conn(Closed) /\ ~Closed.pending /\ Closed.backlog = 0
        BY FreshSlot
    <2> DEFINE c == Closed
    <2>2. Conn(c) /\ ~c.pending /\ c.backlog = 0
        BY <2>1
    <2> HIDE DEF c
    <2>3. LET e == [c EXCEPT !.active = TRUE, !.gen = generation, !.state = "open"]
          IN  Conn(e) /\ e.active /\ e.backlog = 0 /\ ~e.pending /\ e.gen = generation
        BY <1>1, <2>2 DEF Conn, Fields
    <2> QED BY <2>3 DEF c
<1>4. /\ tcp' = [tcp EXCEPT ![FirstFree] = d]
      /\ connections' = connections + 1 /\ listeners' = listeners
      /\ generation' = generation + 1
      /\ held' = held \cup {[slot |-> FirstFree, gen |-> generation]}
      /\ UNCHANGED <<call, timers, outbound>>
    BY DEF network_tcp_open, SetSlot
<1>5. OneTimer' /\ Wires'
    BY <1>4, TimerSteps, WireSteps
<1> HIDE DEF d
<1>6. Tables' /\ Counts' /\ OneListener' /\ Reached' /\ Named'
    <2>1. generation' \in Nat
        BY <1>1, <1>4
    <2> QED BY <1>2, <1>3, <1>4, <2>1, SlotTaken
<1> QED BY <1>5, <1>6 DEF IInv

(* tcp_open_child takes one for a SYN, while the listener has room for it. *)
LEMMA ChildKeeps ==
    ASSUME IInv, NEW seg, tcp_open_child(seg), UNCHANGED <<held>>
    PROVE  Tables' /\ Counts' /\ OneListener' /\ Reached' /\ Named' /\ Carries(outbound')
<1>1. PICK l \in tcp_listener_for(seg.lport), isn \in NextIsn :
        /\ SetSlot(FirstFree, Child(l, seg, isn))
        /\ outbound' = Sent({Outgoing(Child(l, seg, isn), {"SYN", "ACK"}, isn, <<>>)})
    BY DEF tcp_open_child
<1>2. FirstFree \in Slots /\ FirstFree \notin Active
    BY FreeSlotFound DEF tcp_open_child, TakesSyn
<1>3. generation \in Nat
    BY DEF IInv, Tables
<1>4. l \in Active /\ HasRoom(l)
    <2>1. PICK k \in tcp_listener_for(seg.lport) : HasRoom(k)
        BY DEF tcp_open_child, TakesSyn
    <2>2. k \in Active /\ l \in Active /\ tcp[k].backlog # 0 /\ tcp[l].backlog # 0
        BY Finite DEF tcp_listener_for, IInv, Tables, Conn
    <2>3. k = l
        BY <2>2 DEF IInv, OneListener
    <2> QED BY <2>1, <2>2, <2>3
<1> DEFINE d == Child(l, seg, isn)
<1>5. /\ Conn(d) /\ d.active /\ d.backlog = 0 /\ d.pending /\ d.listener = l
    <2> DEFINE c == Closed
               lport == tcp[l].lport
    <2>1. Conn(c) /\ c.backlog = 0
        BY FreshSlot
    <2> HIDE DEF c, lport
    <2>2. LET e == [c EXCEPT !.active = TRUE, !.gen = generation,
                   !.state = "syn received", !.lport = lport,
                   !.peer = seg.peer, !.una = isn, !.nxt = Add(isn, 1),
                   !.rcv = Add(seg.seq, 1), !.rtx = {"SYN", "ACK"},
                   !.listener = l, !.pending = TRUE]
          IN  Conn(e) /\ e.active /\ e.backlog = 0 /\ e.pending /\ e.listener = l
        BY <1>3, <2>1 DEF Conn, Fields
    <2> QED BY <2>2 DEF c, lport, Child
<1> HIDE DEF d
<1>6. /\ tcp' = [tcp EXCEPT ![FirstFree] = d]
      /\ connections' = connections + 1 /\ listeners' = listeners /\ generation' = generation + 1
    BY <1>1 DEF tcp_open_child, SetSlot, d
<1>7. Tables' /\ Counts' /\ OneListener' /\ Reached' /\ Named'
    <2>1. generation' \in Nat
        BY <1>3, <1>6
    <2>2. Cardinality(Children(d.listener)) < tcp[d.listener].backlog /\ d.listener \in Active
        BY <1>4, <1>5 DEF HasRoom
    <2> QED BY <1>2, <1>5, <1>6, <2>1, <2>2, SlotTaken
<1>8. Carries(outbound')
    BY <1>1, WireSteps, OutgoingWire
<1> QED BY <1>7, <1>8

(* The process listens on its one port once at a time. *)
LEMMA ListenKeeps ==
    ASSUME IInv, NEW h \in held, network_tcp_listen(h), UNCHANGED <<inbound, stray>>
    PROVE  IInv'
<1>1. PICK s : s = h.slot
    OBVIOUS
<1>2. s \in Slots /\ s \in Active /\ Conn(tcp[s]) /\ ~tcp[s].pending
    BY <1>1, HeldSlot DEF IInv, Named
<1>3. PICK backlog \in 1 .. MaxBacklog :
        tcp' = [tcp EXCEPT ![s] = [tcp[s] EXCEPT !.lport = ListenPort, !.backlog = backlog,
                                                 !.state = "listen"]]
    BY <1>1 DEF network_tcp_listen, SetSlot
<1>4. /\ tcp[s].state = "open" /\ listeners' = listeners + 1
      /\ ~tcp_port_used(ListenPort)
      /\ UNCHANGED <<connections, generation, held, call, timers, outbound>>
    BY <1>1 DEF network_tcp_listen, UnchangedCalls
<1> DEFINE c == tcp[s]
           d == [c EXCEPT !.lport = ListenPort, !.backlog = backlog, !.state = "listen"]
<1>5. backlog \in Nat /\ backlog # 0
    BY <1>3, TcpAssumption
<1>6. /\ Conn(d) /\ d.active /\ d.gen = c.gen /\ d.backlog = backlog /\ ~d.pending
      /\ c.backlog = 0
    <2>1. Conn(c) /\ ~c.pending /\ c.state = "open" /\ c.active
        BY <1>2, <1>4 DEF Active
    <2> HIDE DEF c
    <2> QED BY <2>1, <1>5 DEF Conn, Fields
<1>7. DOMAIN tcp = Slots /\ (\A t \in Slots : Conn(tcp[t])) /\ tcp' = [tcp EXCEPT ![s] = d]
    BY <1>3 DEF IInv, Tables
<1> HIDE DEF d
<1>8. DOMAIN tcp' = Slots /\ tcp'[s] = d /\ (\A t \in Slots \ {s} : tcp'[t] = tcp[t])
    BY <1>7, <1>2
<1>9. \A t \in Active : t # s => t \in Slots /\ tcp'[t] = tcp[t] /\ tcp[t].backlog = 0
    <2> SUFFICES ASSUME NEW t \in Active, t # s
                 PROVE  t \in Slots /\ tcp'[t] = tcp[t] /\ tcp[t].backlog = 0
        OBVIOUS
    <2>1. t \in Slots /\ tcp[t].lport # ListenPort
        BY <1>4, Finite DEF tcp_port_used
    <2> QED BY <2>1, <1>7, <1>8 DEF Conn
<1>10. Active' = Active
    <2>1. tcp'[s].active /\ s \in Slots
        BY <1>2, <1>6, <1>8
    <2>2. \A t \in Slots \ {s} : tcp'[t].active = tcp[t].active
        BY <1>8
    <2> QED BY <1>2, <2>1, <2>2 DEF Active
<1>11. Tables'
    BY <1>4, <1>6, <1>7, <1>8 DEF IInv, Tables
<1>12. Counts'
    <2>1. {t \in Active : tcp[t].backlog # 0} = {}
        BY <1>6, <1>9
    <2>2. {t \in Active : tcp[t].backlog # 0}' = {s}
        BY <1>2, <1>5, <1>6, <1>8, <1>9, <1>10
    <2>3. Cardinality({}) = 0 /\ Cardinality({s}) = 1
        BY FS_EmptySet, FS_Singleton
    <2>4. listeners = 0
        BY <2>1, <2>3 DEF IInv, Counts
    <2>5. listeners' = Cardinality({t \in Active : tcp[t].backlog # 0}')
        BY <2>2, <2>3, <2>4, <1>4
    <2> QED BY <2>5, <1>4, <1>10 DEF IInv, Counts
<1>13. OneListener'
    <2>1. \A t \in Active : tcp'[t].backlog # 0 => t = s
        BY <1>9
    <2> QED BY <2>1, <1>10 DEF OneListener
<1>14. \A t \in Active : tcp'[t].pending = tcp[t].pending /\ tcp'[t].gen = tcp[t].gen
    <2>1. d.pending = c.pending
        BY <1>2, <1>6, <1>7, <1>8 DEF Conn
    <2> QED BY <2>1, <1>6, <1>8, <1>9
<1>15. \A t \in Active : ~tcp[t].pending
    <2> SUFFICES ASSUME NEW t \in Active, tcp[t].pending PROVE FALSE
        OBVIOUS
    <2>1. tcp[t].listener \in Active /\ tcp[tcp[t].listener].backlog # 0
        BY ParentListens
    <2> QED BY <2>1, <1>6, <1>9
<1>16. Reached'
    BY <1>4, <1>10, <1>14, <1>15 DEF IInv, Reached
<1>17. Named'
    <2> SUFFICES ASSUME NEW g \in held PROVE (Resolves(g) /\ ~tcp[g.slot].pending)'
        BY <1>4 DEF Named
    <2>1. g.slot \in Active /\ Resolves(g)
        BY HeldSlot DEF IInv, Named
    <2>2. g.slot \in Active' /\ tcp'[g.slot].active
        BY <2>1, <1>10 DEF Active
    <2> QED BY <2>1, <2>2, <1>14, <1>15 DEF Resolves
<1>18. OneTimer' /\ Wires'
    BY <1>4, TimerSteps, WireSteps
<1> QED BY <1>11, <1>12, <1>13, <1>16, <1>17, <1>18 DEF IInv

LEMMA Gathered ==
    ASSUME NEW D, IsFiniteSet(D), NEW f, DOMAIN f = D,
           \A s \in D : IsFiniteSet(f[s]) /\ \A seg \in f[s] : Wire(seg)
    PROVE  LET S == UNION {f[s] : s \in D} IN IsFiniteSet(S) /\ \A seg \in S : Wire(seg)
<1> DEFINE T == {f[s] : s \in D}
<1>1. IsFiniteSet(T)
    <2> DEFINE g == [s \in D |-> f[s]]
    <2>1. g \in Surjection(D, T)
        BY DEF Surjection
    <2> HIDE DEF g, T
    <2> QED BY <2>1, FS_Surjection
<1>2. \A R \in T : IsFiniteSet(R)
    OBVIOUS
<1>3. IsFiniteSet(UNION T)
    <2> HIDE DEF T
    <2> QED BY <1>1, <1>2, FS_UNION
<1>4. \A seg \in UNION T : Wire(seg)
    <2> HIDE DEF Wire
    <2> QED OBVIOUS
<1> QED BY <1>3, <1>4

(* tcp_service_pending releases some of a listener's children and leaves every
   other connection its place. *)
LEMMA Serviced ==
    ASSUME IInv, NEW l, NEW due, NEW s \in Slots
    PROVE  LET d == ServicePending(l, due)[s]
           IN  \/ s \in Children(l) /\ d = Closed
               \/ Changes(tcp[s], d) /\ (s \notin Children(l) => d = tcp[s])
<1>1. Conn(tcp[s])
    BY DEF IInv, Tables
<1>2. Changes(tcp[s], tcp[s]) /\ Changes(tcp[s], tcp_retransmit(tcp[s]))
    BY <1>1, NoChange, RetransmitChanges
<1>3. \/ s \in Children(l) /\ ServicePending(l, due)[s] = Closed
      \/ ServicePending(l, due)[s] = tcp[s]
      \/ s \in Children(l) /\ ServicePending(l, due)[s] = tcp_retransmit(tcp[s])
    BY DEF ServicePending
<1> QED BY <1>2, <1>3

(* The turn of network_tcp_accept: children that broke are released, and one
   that is established gets its handle. *)
LEMMA AcceptTurnKeeps == IInv /\ AcceptTurn /\ UNCHANGED <<inbound, stray>> => IInv'
<1> SUFFICES ASSUME IInv, AcceptTurn, UNCHANGED <<inbound, stray>> PROVE IInv'
    OBVIOUS
<1>1. ~Idle /\ UNCHANGED <<generation, listeners>>
    BY DEF AcceptTurn, Idle
<1>2. CASE Broken(tcp[call.slot])
    <2>1. Return /\ UNCHANGED <<tcp, outbound, held, connections>>
        BY <1>2 DEF AcceptTurn
    <2> QED BY <2>1, <1>1, NoneChanges, TimerSteps, WireSteps, QuietKeeps DEF Placed
<1>3. CASE ~Broken(tcp[call.slot])
    <2> DEFINE l == call.slot
    <2> DEFINE Rest(taken, after) ==
            /\ outbound' = Sent(UNION {Repeated(tcp[s]) : s \in taken})
            /\ connections' = connections - Cardinality({s \in Children(l) : ~after[s].active})
            /\ LET ready == {s \in Children(l) : after[s].active
                                 /\ after[s].state = "established"}
                   first == CHOOSE s \in ready : \A t \in ready : s <= t
               IN  IF ready = {}
                   THEN tcp' = after /\ Stay /\ UNCHANGED held
                   ELSE /\ tcp' = [after EXCEPT ![first].pending = FALSE]
                        /\ held' = held \cup {[slot |-> first, gen |-> after[first].gen]}
                        /\ Return
    <2>2. PICK due, taken, after :
            /\ due \in SUBSET Children(l) /\ taken \in SUBSET due
            /\ after = ServicePending(l, due)
            /\ Rest(taken, after)
        <3>1. \E due \in SUBSET {s \in Children(l) : tcp[s].state = "syn received" /\ tcp[s].error = "ok"} :
              \E taken \in SUBSET due : Rest(taken, ServicePending(l, due))
            BY <1>3, Zenon DEF AcceptTurn
        <3> HIDE DEF Rest
        <3>2. PICK due \in SUBSET {s \in Children(l) : tcp[s].state = "syn received" /\ tcp[s].error = "ok"} :
              \E taken \in SUBSET due : Rest(taken, ServicePending(l, due))
            BY <3>1
        <3>3. due \in SUBSET Children(l)
            BY <3>2
        <3> HIDE DEF l
        <3> QED BY <3>2, <3>3
    <2>3. DOMAIN after = Slots /\ (\A s \in Slots :
                \/ s \in Children(l) /\ after[s] = Closed
                \/ Changes(tcp[s], after[s]) /\ (s \notin Children(l) => after[s] = tcp[s]))
        <3>1. DOMAIN after = Slots
            BY <2>2 DEF ServicePending
        <3> QED BY <3>1, <2>2, Serviced
    <2>4. PICK K : K = {s \in Children(l) : ~after[s].active}
        OBVIOUS
    <2>5. /\ Children(l) \subseteq Active /\ Children(l) \subseteq Slots /\ IsFiniteSet(Children(l))
          /\ \A s \in Children(l) : tcp[s].active /\ tcp[s].pending
        BY Finite DEF Children, Active
    <2>6. K \in SUBSET Active /\ (\A s \in K : after[s] = Closed)
          /\ (\A s \in Slots \ K : Changes(tcp[s], after[s]))
        BY <2>3, <2>4, <2>5, FreshSlot DEF Changes
    <2>7. connections' = connections - Cardinality(K)
        BY <2>2, <2>4
    <2>8. listeners' = listeners - Cardinality({s \in K : tcp[s].backlog # 0})
        <3>1. \A s \in K : tcp[s].backlog = 0
            <4>1. \A s \in K : Conn(tcp[s]) /\ tcp[s].pending
                BY <2>4, <2>5 DEF IInv, Tables
            <4> QED BY <4>1 DEF Conn
        <3>2. {s \in K : tcp[s].backlog # 0} = {}
            BY <3>1
        <3>3. listeners \in Int /\ Cardinality({}) = 0
            <4>1. {s \in Active : tcp[s].backlog # 0} \in SUBSET Active
                OBVIOUS
            <4>2. Cardinality({s \in Active : tcp[s].backlog # 0}) \in Nat
                BY <4>1, Finite
            <4>3. listeners = Cardinality({s \in Active : tcp[s].backlog # 0})
                BY DEF IInv, Counts
            <4>4. Cardinality({}) = 0
                BY FS_EmptySet
            <4> QED BY <4>2, <4>3, <4>4
        <3>4. Cardinality({s \in K : tcp[s].backlog # 0}) = 0
            BY <3>2, <3>3, Zenon
        <3>5. listeners' = listeners
            BY <1>1
        <3> QED BY <3>3, <3>4, <3>5
    <2>9. \A s \in Active : tcp[s].pending => tcp[s].listener \notin K
        <3> SUFFICES ASSUME NEW s \in Active, tcp[s].pending, tcp[s].listener \in K PROVE FALSE
            OBVIOUS
        <3> QED BY ParentListens, <2>4, <2>5
    <2>10. \A h \in held : h.slot \notin K
        BY <2>4, <2>5 DEF IInv, Named
    <2>11. Carries(outbound')
        <3> DEFINE f == [s \in taken |-> Repeated(tcp[s])]
        <3>1. IsFiniteSet(taken)
            BY <2>2, <2>5, FS_Subset
        <3>2. DOMAIN f = taken /\ (\A s \in taken : IsFiniteSet(f[s]) /\ \A seg \in f[s] : Wire(seg))
            BY OutgoingWire
        <3>3. LET S == UNION {f[s] : s \in taken} IN IsFiniteSet(S) /\ \A seg \in S : Wire(seg)
            <4> HIDE DEF f
            <4> QED BY <3>1, <3>2, Gathered
        <3>4. UNION {f[s] : s \in taken} = UNION {Repeated(tcp[s]) : s \in taken}
            OBVIOUS
        <3> DEFINE S == UNION {f[s] : s \in taken}
        <3>5. IsFiniteSet(S) /\ (\A seg \in S : Wire(seg)) /\ outbound' = Sent(S)
            BY <3>3, <3>4, <2>2
        <3> HIDE DEF S
        <3> QED BY <3>5, WireSteps
    <2>12. Wires'
        BY <2>11, WireSteps
    <2> DEFINE ready == {s \in Children(l) : after[s].active /\ after[s].state = "established"}
    <2>13. CASE ready = {}
        <3>1. tcp' = after /\ Stay /\ UNCHANGED held
            BY <2>2, <2>13
        <3>2. Tables' /\ Counts' /\ OneListener' /\ Reached' /\ Named'
            <4>1. {} \in SUBSET (Active \ K)
                OBVIOUS
            <4>2. held' = {h \in held : h.slot \notin K} \cup {[slot |-> s, gen |-> tcp[s].gen] : s \in {}}
                BY <3>1, <2>10
            <4> QED BY <3>1, <4>1, <4>2, <1>1, <2>3, <2>6, <2>7, <2>8, <2>9, SlotsReturned
        <3>3. OneTimer'
            BY <3>1, TimerSteps DEF Stay
        <3> QED BY <3>2, <3>3, <2>12 DEF IInv
    <2>14. CASE ready # {}
        <3>1. PICK first : first = CHOOSE s \in ready : \A t \in ready : s <= t
            OBVIOUS
        <3>2. /\ tcp' = [after EXCEPT ![first].pending = FALSE]
              /\ held' = held \cup {[slot |-> first, gen |-> after[first].gen]}
              /\ Return
            BY <2>2, <2>14, <3>1
        <3>3. first \in ready
            <4>1. ready \subseteq Nat
                BY <2>5, TcpAssumption
            <4> HIDE DEF ready
            <4> QED BY <4>1, <2>14, <3>1, LeastOf
        <3>4. first \in Slots /\ first \in Active /\ first \notin K
            BY <3>3, <2>4, <2>5
        <3>5. PICK d : d = [after[first] EXCEPT !.pending = FALSE]
            OBVIOUS
        <3>6. Changes(tcp[first], after[first])
            BY <3>4, <2>6
        <3>7. /\ Conn(d) /\ d.active /\ d.gen = tcp[first].gen
              /\ d.backlog = tcp[first].backlog /\ ~d.pending
            <4>1. PICK c : c = after[first]
                OBVIOUS
            <4>2. Conn(c) /\ c.active /\ c.gen = tcp[first].gen /\ c.backlog = tcp[first].backlog
                BY <4>1, <3>3, <3>6 DEF Changes
            <4> HIDE DEF ready
            <4>3. Conn(d) /\ d.active /\ d.gen = c.gen /\ d.backlog = c.backlog /\ ~d.pending
                <5>1. d = [c EXCEPT !.pending = FALSE]
                    BY <3>5, <4>1
                <5> QED BY <5>1, <4>2 DEF Conn, Fields
            <4> QED BY <4>2, <4>3
        <3>8. DOMAIN tcp' = Slots /\ tcp'[first] = d /\ (\A s \in Slots \ {first} : tcp'[s] = after[s])
            BY <3>2, <3>4, <3>5, <2>3
        <3>9. Tables' /\ Counts' /\ OneListener' /\ Reached' /\ Named'
            <4>1. {first} \in SUBSET (Active \ K)
                BY <3>4
            <4>2. held' = {h \in held : h.slot \notin K}
                            \cup {[slot |-> s, gen |-> tcp[s].gen] : s \in {first}}
                <5>1. after[first].gen = tcp[first].gen
                    BY <3>6 DEF Changes
                <5> QED BY <5>1, <3>2, <2>10
            <4>3. \A s \in K : tcp'[s] = Closed
                BY <2>6, <3>4, <3>8, Finite
            <4>4. \A s \in Slots \ (K \cup {first}) : Changes(tcp[s], tcp'[s])
                BY <2>6, <3>8
            <4>5. \A s \in {first} : /\ Conn(tcp'[s]) /\ tcp'[s].active /\ tcp'[s].gen = tcp[s].gen
                                     /\ tcp'[s].backlog = tcp[s].backlog /\ ~tcp'[s].pending
                BY <3>7, <3>8
            <4> HIDE DEF ready
            <4> QED BY <3>8, <4>1, <4>2, <4>3, <4>4, <4>5, <1>1, <2>6, <2>7, <2>8, <2>9, SlotsReturned
        <3>10. OneTimer'
            BY <3>2, <1>1, TimerSteps
        <3> QED BY <3>9, <3>10, <2>12 DEF IInv
    <2> QED BY <2>13, <2>14
<1> QED BY <1>2, <1>3

(* network_close: a listener takes the children nobody accepted with it. *)
LEMMA CloseKeeps ==
    ASSUME IInv, NEW h \in held, network_close(h), UNCHANGED <<inbound, stray>>
    PROVE  IInv'
<1>1. PICK s : s = h.slot
    OBVIOUS
<1>2. PICK orphans : orphans = IF tcp[s].backlog # 0 THEN Children(s) ELSE {}
    OBVIOUS
<1>3. /\ tcp' = [t \in Slots |-> IF t = s \/ t \in orphans THEN Closed ELSE tcp[t]]
      /\ outbound' = Sent(UNION {tcp_refuse(tcp[t].peer, tcp[t].lport, tcp[t].rcv,
                                            tcp[t].nxt, {"ACK"}, 0) : t \in orphans})
      /\ connections' = connections - 1 - Cardinality(orphans)
      /\ listeners' = listeners - (IF tcp[s].backlog # 0 THEN 1 ELSE 0)
      /\ held' = held \ {h}
      /\ UNCHANGED <<call, timers, generation>>
    BY <1>1, <1>2, Zenon DEF network_close
<1>4. /\ s \in Slots /\ s \in Active /\ Conn(tcp[s]) /\ ~tcp[s].pending
      /\ h = [slot |-> s, gen |-> tcp[s].gen]
    BY <1>1, HeldSlot DEF IInv, Named, Resolves
<1>5. /\ orphans \subseteq Active /\ IsFiniteSet(orphans) /\ Cardinality(orphans) \in Nat
      /\ \A t \in orphans : tcp[t].pending /\ tcp[t].listener = s
    <2>1. CASE tcp[s].backlog # 0
        <3>1. orphans = Children(s)
            BY <2>1, <1>2
        <3> QED BY <3>1, Finite DEF Children
    <2>2. CASE ~(tcp[s].backlog # 0)
        <3>1. orphans = {}
            BY <2>2, <1>2
        <3> QED BY <3>1, FS_EmptySet
    <2> QED BY <2>1, <2>2
<1>6. PICK K : K = orphans \cup {s}
    OBVIOUS
<1>7. K \in SUBSET Active /\ (\A t \in K : tcp'[t] = Closed) /\ DOMAIN tcp' = Slots
      /\ (\A t \in Slots \ K : Changes(tcp[t], tcp'[t]))
    <2>1. K \subseteq Active /\ Active \subseteq Slots
        BY <1>4, <1>5, <1>6, Finite
    <2>2. \A t \in K : tcp'[t] = Closed
        BY <2>1, <1>3, <1>6
    <2>3. \A t \in Slots \ K : tcp'[t] = tcp[t] /\ Conn(tcp[t])
        BY <1>3, <1>6 DEF IInv, Tables
    <2>4. \A t \in Slots \ K : Changes(tcp[t], tcp'[t])
        BY <2>3, NoChange
    <2> QED BY <2>1, <2>2, <2>4, <1>3
<1>8. connections' = connections - Cardinality(K)
    <2>1. s \notin orphans
        BY <1>4, <1>5
    <2>2. Cardinality(K) = Cardinality(orphans) + 1
        BY <2>1, <1>5, <1>6, FS_AddElement
    <2>3. connections \in Int
        BY Finite DEF IInv, Counts
    <2>4. connections' = connections - 1 - Cardinality(orphans)
        BY <1>3
    <2> QED BY <2>2, <2>3, <2>4, <1>5
<1>9. listeners' = listeners - Cardinality({t \in K : tcp[t].backlog # 0})
    <2>1. \A t \in orphans : tcp[t].backlog = 0
        <3>1. \A t \in orphans : Conn(tcp[t]) /\ tcp[t].pending
            BY <1>5, Finite DEF IInv, Tables
        <3> QED BY <3>1 DEF Conn
    <2>2. CASE tcp[s].backlog # 0
        <3>1. {t \in K : tcp[t].backlog # 0} = {s}
            BY <2>1, <2>2, <1>6
        <3>2. Cardinality({t \in K : tcp[t].backlog # 0}) = 1
            BY <3>1, FS_Singleton, Zenon
        <3>3. listeners' = listeners - 1
            BY <2>2, <1>3
        <3> QED BY <3>2, <3>3
    <2>3. CASE ~(tcp[s].backlog # 0)
        <3>1. {t \in K : tcp[t].backlog # 0} = {}
            BY <2>1, <2>3, <1>6
        <3>2. Cardinality({t \in K : tcp[t].backlog # 0}) = 0
            BY <3>1, FS_EmptySet, Zenon
        <3>3. listeners' = listeners - 0
            BY <2>3, <1>3
        <3> QED BY <3>2, <3>3
    <2> QED BY <2>2, <2>3
<1>10. \A t \in Active \ (K \cup {}) : tcp[t].pending => tcp[t].listener \notin K
    <2> SUFFICES ASSUME NEW t \in Active, t \notin K, tcp[t].pending, tcp[t].listener \in K
                 PROVE  FALSE
        OBVIOUS
    <2>1. tcp[tcp[t].listener].backlog # 0 /\ ~tcp[tcp[t].listener].pending
        BY ParentListens
    <2>2. tcp[t].listener = s
        BY <2>1, <1>5, <1>6
    <2>3. t \in orphans
        BY <2>1, <2>2, <1>2 DEF Children
    <2> QED BY <2>3, <1>6
<1>11. held' = {g \in held : g.slot \notin K} \cup {[slot |-> t, gen |-> tcp[t].gen] : t \in {}}
    <2>1. \A g \in held : g.slot \in K => g = h
        <3> SUFFICES ASSUME NEW g \in held, g.slot \in K PROVE g = h
            OBVIOUS
        <3>1. g = [slot |-> g.slot, gen |-> g.gen] /\ tcp[g.slot].gen = g.gen /\ ~tcp[g.slot].pending
            BY HeldSlot DEF IInv, Named, Resolves
        <3>2. g.slot = s
            BY <3>1, <1>5, <1>6
        <3> QED BY <3>1, <3>2, <1>4
    <2>2. h.slot \in K
        BY <1>1, <1>6
    <2> QED BY <2>1, <2>2, <1>3
<1>12. Tables' /\ Counts' /\ OneListener' /\ Reached' /\ Named'
    <2>1. {} \in SUBSET (Active \ K) /\ generation' = generation
        BY <1>3
    <2> QED BY <2>1, <1>7, <1>8, <1>9, <1>10, <1>11, SlotsReturned
<1>13. Carries(outbound')
    <2> DEFINE f == [t \in orphans |-> tcp_refuse(tcp[t].peer, tcp[t].lport, tcp[t].rcv,
                                                  tcp[t].nxt, {"ACK"}, 0)]
    <2>1. DOMAIN f = orphans /\ (\A t \in orphans : IsFiniteSet(f[t]) /\ \A seg \in f[t] : Wire(seg))
        BY OutgoingWire
    <2>2. LET S == UNION {f[t] : t \in orphans} IN IsFiniteSet(S) /\ \A seg \in S : Wire(seg)
        <3> HIDE DEF f
        <3> QED BY <2>1, <1>5, Gathered
    <2>3. UNION {f[t] : t \in orphans} = UNION {tcp_refuse(tcp[t].peer, tcp[t].lport, tcp[t].rcv,
                                                  tcp[t].nxt, {"ACK"}, 0) : t \in orphans}
        OBVIOUS
    <2> DEFINE S == UNION {f[t] : t \in orphans}
    <2>4. IsFiniteSet(S) /\ (\A seg \in S : Wire(seg)) /\ outbound' = Sent(S)
        BY <2>2, <2>3, <1>3
    <2> HIDE DEF S
    <2> QED BY <2>4, WireSteps
<1>14. OneTimer' /\ Wires'
    BY <1>3, <1>13, TimerSteps, WireSteps
<1> QED BY <1>12, <1>14 DEF IInv

(* The end of the process takes back everything. *)
LEMMA TerminatedKeeps ==
    ASSUME IInv, network_process_terminated, UNCHANGED <<inbound, stray>>
    PROVE  IInv'
<1>1. /\ tcp' = [s \in Slots |-> Closed]
      /\ connections' = connections - Cardinality(Active)
      /\ listeners' = listeners - Cardinality({s \in Active : tcp[s].backlog # 0})
      /\ held' = {}
      /\ UNCHANGED <<call, timers, generation, outbound>>
    BY DEF network_process_terminated
<1>2. DOMAIN tcp' = Slots /\ (\A s \in Slots : tcp'[s] = Closed)
    BY <1>1
<1>3. Active' = {}
    BY <1>2, FreshSlot DEF Active
<1>4. Tables'
    BY <1>1, <1>2, FreshSlot DEF IInv, Tables
<1>5. Counts'
    <2>1. connections' = 0 /\ listeners' = 0
        <3>1. {s \in Active : tcp[s].backlog # 0} \in SUBSET Active
            OBVIOUS
        <3>2. Cardinality({s \in Active : tcp[s].backlog # 0}) \in Nat /\ Cardinality(Active) \in Nat
            BY <3>1, Finite
        <3>3. connections = Cardinality(Active) /\ listeners = Cardinality({s \in Active : tcp[s].backlog # 0})
            BY DEF IInv, Counts
        <3> QED BY <1>1, <3>2, <3>3
    <2>2. {s \in Active : tcp[s].backlog # 0}' = {}
        BY <1>3
    <2>3. Cardinality(Active') = 0 /\ Cardinality({s \in Active : tcp[s].backlog # 0}') = 0
        BY <1>3, <2>2, FS_EmptySet, Zenon
    <2> QED BY <2>1, <2>3 DEF Counts
<1>6. OneListener' /\ Reached' /\ Named'
    BY <1>1, <1>3 DEF OneListener, Reached, Named
<1>7. OneTimer' /\ Wires'
    BY <1>1, TimerSteps, WireSteps
<1> QED BY <1>4, <1>5, <1>6, <1>7 DEF IInv

LEMMA ConfigureKeeps ==
    ASSUME IInv, network_configure_static, UNCHANGED <<inbound, stray>>
    PROVE  IInv'
<1>1. UNCHANGED <<tcp, connections, listeners, held, generation, call, timers, outbound>>
    BY DEF network_configure_static, UnchangedTables, UnchangedCalls
<1> QED BY <1>1, NoneChanges, TimerSteps, WireSteps, QuietKeeps DEF Placed

(* tcp_receive_segment, for a segment that was next or had gone astray. *)
LEMMA SegmentKeeps ==
    ASSUME IInv, NEW seg, Wire(seg), tcp_receive_segment(seg), Carries(inbound'),
           \A x \in stray' : Wire(x)
    PROVE  IInv'
<1>1. IsSequence(seg.data)
    BY DEF tcp_receive_segment, Wire
<1>2. UNCHANGED <<call, timers, held>>
    BY DEF tcp_receive_segment, UnchangedCalls
<1>3. ASSUME Carries(outbound') PROVE OneTimer' /\ Wires'
    BY <1>2, <1>3, TimerSteps DEF Wires
<1>4. CASE \E s \in tcp_match(seg) : ReceiveMatched(s, seg) /\ UnchangedTables
    <2>1. PICK s \in tcp_match(seg) : ReceiveMatched(s, seg) /\ UnchangedTables
        BY <1>4
    <2>2. s \in Slots
        BY Finite DEF tcp_match
    <2>3. Placed /\ Carries(outbound')
        BY <2>1, <2>2, <1>1, MatchedKeeps
    <2> QED BY <2>1, <2>3, <1>2, <1>3, QuietKeeps DEF UnchangedTables
<1>5. CASE ReceiveUnmatched(seg) /\ tcp_open_child(seg)
    <2>1. Tables' /\ Counts' /\ OneListener' /\ Reached' /\ Named' /\ Carries(outbound')
        BY <1>2, <1>5, ChildKeeps
    <2> QED BY <2>1, <1>3 DEF IInv
<1>6. CASE ReceiveUnmatched(seg) /\ ~TakesSyn(seg)
    <2>1. Placed /\ Carries(outbound') /\ UNCHANGED <<connections, listeners, generation>>
        BY <1>6, RefusedKeeps
    <2> QED BY <2>1, <1>2, <1>3, QuietKeeps
<1> QED BY <1>4, <1>5, <1>6 DEF tcp_receive_segment, ReceiveUnmatched

LEMMA ToStackKeeps == IInv /\ ToStack => IInv'
<1> SUFFICES ASSUME IInv, ToStack PROVE IInv'
    OBVIOUS
<1>1. Carries(inbound) /\ (\A x \in stray : Wire(x))
    BY DEF IInv, Wires
<1>2. CASE /\ inbound # <<>>
           /\ tcp_receive_segment(Head(inbound))
           /\ inbound' = Tail(inbound)
           /\ UNCHANGED stray
    <2>1. Wire(Head(inbound)) /\ Carries(inbound')
        BY <1>1, <1>2, Wired
    <2> QED BY <2>1, <1>1, <1>2, SegmentKeeps
<1>3. CASE \E seg \in stray : /\ tcp_receive_segment(seg)
                              /\ stray' = stray \ {seg}
                              /\ UNCHANGED inbound
    <2>1. PICK seg \in stray : /\ tcp_receive_segment(seg)
                               /\ stray' = stray \ {seg}
                               /\ UNCHANGED inbound
        BY <1>3
    <2>2. Wire(seg) /\ Carries(inbound') /\ (\A x \in stray' : Wire(x))
        BY <2>1, <1>1
    <2> QED BY <2>1, <2>2, SegmentKeeps
<1> QED BY <1>2, <1>3 DEF ToStack

LEMMA ProcessKeeps ==
    ASSUME IInv, ProcessStep, UNCHANGED <<inbound, stray>>
    PROVE  IInv'
<1>1. CASE network_tcp_open
    BY <1>1, OpenKeeps
<1>2. CASE network_process_terminated
    BY <1>2, TerminatedKeeps
<1>3. CASE network_configure_static
    BY <1>3, ConfigureKeeps
<1>4. ASSUME NEW h \in held, network_tcp_listen(h) PROVE IInv'
    BY <1>4, ListenKeeps
<1>5. ASSUME NEW h \in held, NEW p \in Peers, network_tcp_connect(h, p) PROVE IInv'
    BY <1>5, ConnectKeeps
<1>6. ASSUME NEW h \in held, network_tcp_accept(h) PROVE IInv'
    BY <1>6, AcceptKeeps
<1>7. ASSUME NEW h \in held, NEW n \in 1 .. MaxBytes, network_tcp_write(h, n) PROVE IInv'
    BY <1>7, WriteKeeps
<1>8. ASSUME NEW h \in held, network_tcp_read(h) PROVE IInv'
    BY <1>8, ReadKeeps
<1>9. ASSUME NEW h \in held, network_tcp_shutdown(h) PROVE IInv'
    BY <1>9, ShutdownKeeps
<1>10. ASSUME NEW h \in held, network_cancel(h) PROVE IInv'
    BY <1>10, CancelKeeps
<1>11. ASSUME NEW h \in held, network_close(h) PROVE IInv'
    BY <1>11, CloseKeeps
<1> QED BY <1>1, <1>2, <1>3, <1>4, <1>5, <1>6, <1>7, <1>8, <1>9, <1>10, <1>11 DEF ProcessStep

(***************************************************************************)
(* The theorems.                                                           *)
(***************************************************************************)
LEMMA InitHolds == Init => IInv
<1> SUFFICES ASSUME Init PROVE IInv
    OBVIOUS
<1>1. /\ tcp = [s \in Slots |-> Closed] /\ call = NoCall /\ generation = 1
      /\ connections = 0 /\ listeners = 0 /\ timers = 0 /\ held = {}
      /\ inbound = <<>> /\ outbound = <<>> /\ stray = {}
    BY DEF Init
<1>2. DOMAIN tcp = Slots /\ (\A s \in Slots : tcp[s] = Closed)
    BY <1>1
<1>3. Active = {}
    BY <1>2, FreshSlot DEF Active
<1>4. Tables
    BY <1>1, <1>2, FreshSlot DEF Tables
<1>5. OneTimer
    BY <1>1 DEF OneTimer, Idle, NoCall
<1>6. Counts
    <2>1. {s \in Active : tcp[s].backlog # 0} = {}
        BY <1>3
    <2>2. Cardinality(Active) = 0 /\ Cardinality({s \in Active : tcp[s].backlog # 0}) = 0
        BY <1>3, <2>1, FS_EmptySet, Zenon
    <2> QED BY <1>1, <2>2 DEF Counts
<1>7. OneListener /\ Reached /\ Named
    BY <1>1, <1>3 DEF OneListener, Reached, Named
<1>8. Wires
    BY <1>1, NothingCarries DEF Wires
<1> QED BY <1>4, <1>5, <1>6, <1>7, <1>8 DEF IInv

LEMMA NextKeeps == IInv /\ [Next]_vars => IInv'
<1> SUFFICES ASSUME IInv, [Next]_vars PROVE IInv'
    OBVIOUS
<1>1. CASE ToStack
    BY <1>1, ToStackKeeps
<1>2. CASE ToPeer
    BY <1>2, ToPeerKeeps
<1>3. ASSUME NEW p \in Peers, PeerConnect(p) \/ PeerSend(p) \/ PeerFinish(p) \/ PeerAbort(p)
      PROVE  IInv'
    BY <1>3, PeerKeeps
<1>4. CASE GoesAstray
    BY <1>4, AstrayKeeps
<1>5. CASE ProcessStep /\ UNCHANGED <<inbound, stray>>
    BY <1>5, ProcessKeeps
<1>6. CASE CallTurn /\ UNCHANGED <<inbound, stray>>
    BY <1>6, ConnectTurnKeeps, AcceptTurnKeeps, WriteTurnKeeps, ReadTurnKeeps, ShutdownTurnKeeps
    DEF CallTurn
<1>7. CASE CallDeadline /\ UNCHANGED <<inbound, stray>>
    BY <1>7, DeadlineKeeps
<1>8. CASE DeviceReset /\ UNCHANGED <<inbound, stray>>
    BY <1>8, ResetKeeps
<1>9. CASE UNCHANGED vars
    <2>1. UNCHANGED <<tcp, connections, listeners, held, generation, call, timers, outbound,
                      inbound, stray>>
        BY <1>9 DEF vars
    <2> QED BY <2>1, NoneChanges, TimerSteps, WireSteps, QuietKeeps DEF Placed
<1> QED BY <1>1, <1>2, <1>3, <1>4, <1>5, <1>6, <1>7, <1>8, <1>9 DEF Next

(* The tables of network.c keep their books: connections, listeners and the
   one timer are counted, and who may reach a slot is settled, after every
   call, turn of a wait, received segment and device reset. *)
THEOREM TablesInductive == Spec => []IInv
<1>1. Init => IInv
    BY InitHolds
<1>2. IInv /\ [Next]_vars => IInv'
    BY NextKeeps
<1> QED BY <1>1, <1>2, PTL DEF Spec

LEMMA BooksFollow == IInv => SlotBooks
<1> SUFFICES ASSUME IInv PROVE SlotBooks
    OBVIOUS
<1>1. \A s \in Slots : Len(tcp[s].buffer) <= RxBytes
    BY DEF IInv, Tables, Conn
<1>2. /\ connections = Cardinality(Active)
      /\ listeners = Cardinality({s \in Active : tcp[s].backlog # 0})
    BY DEF IInv, Counts
<1>3. timers = (IF Idle THEN 0 ELSE 1)
    BY DEF IInv, OneTimer
<1>4. \A s \in Active :
         \/ [slot |-> s, gen |-> tcp[s].gen] \in held
         \/ tcp[s].pending /\ tcp[s].listener \in Active
            /\ Cardinality(Children(tcp[s].listener)) <= tcp[tcp[s].listener].backlog
    BY DEF IInv, Reached
<1>5. \A h \in held : Resolves(h)
    BY DEF IInv, Named
<1> QED BY <1>1, <1>2, <1>3, <1>4, <1>5 DEF SlotBooks

(* No slot, listener or timer of the TCP stack leaks or is freed twice, no
   buffer overruns, and every handle names its connection: what close, the
   broken child, the ended process and the returned call must each give back
   (network_close, tcp_service_pending, network_process_terminated). *)
THEOREM SlotsKept == Spec => []SlotBooks
<1>1. IInv => SlotBooks
    BY BooksFollow
<1> QED BY <1>1, TablesInductive, PTL
=================================================================================
