---------------------- MODULE S5BNegotiation_proofs ----------------------
(***************************************************************************)
(* Proofs for S5BNegotiation, for any two clients, any set of clients that *)
(* close and any number of breaks: the state stays well-formed, no handler *)
(* goes on with a deleted item, no socket is left behind, a stream in use  *)
(* starts clean at both ends, and the negotiation implements               *)
(* StreamAgreement: one connection is chosen and both ends use it.         *)
(*                                                                         *)
(* The two clients are reasoned about one at a time.  Local says what is   *)
(* true of one client between two handlers.  Each handler is shown to keep *)
(* Local, whatever the other client does, and to keep a Contract: what it  *)
(* may send, answer, write or activate, from which state.  Move is a step  *)
(* that keeps its contract, and only the contracts, never the handlers,    *)
(* are used to show that what relates the two clients is kept: each        *)
(* request has one answer (TokenInv), and who starts on a connection has   *)
(* written, or taken, its CR (EarlyOK, WrittenOK, AnswerOK).  A second     *)
(* invariant, ChInv, says by what each side knows the connection that is   *)
(* chosen: the CR, the answer on its way, or the initiator's proxy.        *)
(*                                                                         *)
(* Last, only after an early target does a client give a stream up because *)
(* it has not seen the connection that the other one uses. What a method   *)
(* of the item leaves of what the client offered and saw is Keep; that a   *)
(* handler answers with a host it was offered, to which the connection     *)
(* came, and gives up so only when the target was early, is Honest; Sees   *)
(* is a step of which this is true. SightInv relates the clients: the host *)
(* in an answer on its way is one that the client offered and, if it is    *)
(* its own server, the connection to it came and is kept.                  *)
(***************************************************************************)
EXTENDS S5BNegotiation, TLAPS, FiniteSetTheorems, SequenceTheorems

\* How far the CR of a connection has come.
CRs == {"none", "sent", "arrived", "taken"}

\* The states of a handler.
XState ==
    [m : PeerState, out : Seq(Stanza), crs : [Stream -> CRs],
     early : BOOLEAN, bad : BOOLEAN, broke : BOOLEAN]

\* The ends of a client after it has closed some of its connections.
Closing(end, streams) ==
    [s \in Stream |-> IF s \in streams /\ end[s] # "none" THEN "closed" ELSE end[s]]

\* What a handler that only changes m leaves alone.
SameRest(x, y) == y.out = x.out /\ y.crs = x.crs /\ y.bad = x.bad

\* What a change of the item alone, or of the ends alone, leaves of a client.
SameConnection(m, n) ==
    /\ n.con = m.con /\ n.sc = m.sc /\ n.entry = m.entry /\ n.ended = m.ended
    /\ n.req = m.req /\ n.role = m.role

\* A set of connections that p makes.
Owned(streams, p) == \A s \in streams : s.owner = p

\* The item waits for the proxy of the other client.
Pending(i) == i.lateProxy /\ ~i.localFailed

\* Where the entry, the item and the connection of a client stand together.
PlaceOK(p, m) ==
    LET i == m.item IN
    /\ m.entry # "item" => i = NewItem
    /\ m.entry = "item" => i.state # "Idle"
    /\ i.state = "Initiator" => p = Ini
    /\ i.state = "Target" => p = Tgt
    /\ m.con = "Active" <=> i.state = "Active"
    /\ m.con = "Active" <=> m.sc # NoStream
    /\ m.con = "Idle" <=> m.entry = "none"
    /\ m.con = "WaitingForAccept" <=> m.entry = "bare"
    /\ m.con # "Idle" => m.ended = "none"
    /\ m.con = "WaitingForAccept" => p = Tgt
    /\ Owned(m.req.hosts, Other(p))

\* Who holds each socket that is open or being opened.
EndsOK(p, m) ==
    LET i == m.item IN
    \A s \in Stream :
        /\ m.end[s] = "open" => s \in {m.sc, i.client, i.clientOut}
        /\ m.end[s] = "dialing" => s \in i.conn \/ (i.proxyConn /\ s = Proxy(p))

\* An item that still lets a connection in has no candidate of its own to lose.
SocketsOK(p, m) == EndsOK(p, m) /\ (m.item.allowIncoming => m.item.client = NoStream)

\* An item that turns to its own proxy is done with everything else.
ProxyOK(p, m) ==
    LET i == m.item IN
    /\ i.proxyConn => i.client = NoStream /\ i.proxyTask = "none"
    /\ i.proxyTask # "none" => i.client = Proxy(p)
    /\ i.proxyConn \/ i.proxyTask # "none" =>
           /\ i.conn = {} /\ ~i.task /\ ~i.allowIncoming /\ ~Pending(i)
           /\ i.state \in {"Initiator", "Target"}
           /\ i.state = "Initiator" =>
                 ~i.activated /\ i.targetMode # "Unknown" /\ ~i.connSuccess
           /\ i.state = "Target" => i.fast

\* The hosts an item dials are those the other client offered.
HostsOK(p, m) ==
    LET i == m.item IN
    /\ i.conn \subseteq i.inHosts /\ Owned(i.inHosts, Other(p))
    /\ i.inHosts # {} => i.inId = Other(p)
    /\ i.lateProxy => \E s \in i.inHosts : IsProxy(s)

\* An item that dials, or will, has not connected, failed or activated.
DialOK(p, m) ==
    LET i == m.item IN
    /\ i.conn # {} \/ Pending(i) =>
         /\ i.state \in {"Initiator", "Target"}
         /\ ~i.connSuccess /\ ~i.localFailed /\ ~i.activated
         /\ i.clientOut = NoStream
         /\ i.state = "Initiator" => i.targetMode = "Fast"
    /\ i.conn # {} /\ ~i.task => i.remoteFailed \/ (i.state = "Target" /\ ~i.fast)
    /\ Pending(i) /\ ~i.task => i.conn # {}
    /\ i.task => ~(i.lateProxy /\ i.localFailed)

\* What holds while the answer to the client's own request is awaited.
TaskOK(p, m) ==
    LET i == m.item IN
    /\ i.outId \in {NoId, p}
    /\ i.task =>
         /\ ~i.remoteFailed /\ i.outId = p
         /\ i.state = "Target" => i.fast
         /\ i.state = "Initiator" => ~i.activated
         /\ \/ i.client = NoStream \/ i.client = Direct(p)
            \/ i.state = "Initiator" /\ i.connSuccess
    /\ ~i.task /\ i.state = "Initiator" => i.targetMode # "Unknown"
    /\ i.targetMode = "NotFast" => ~i.task

\* The initiator before its stream is in use.
IniOK(m) ==
    LET i == m.item IN
    i.state = "Initiator" =>
      /\ i.targetMode # "Fast" =>
            i.conn = {} /\ ~i.connSuccess /\ ~i.localFailed /\ ~i.lateProxy /\ ~i.activated
      /\ i.clientOut = NoStream
      /\ i.connSuccess =>
            i.client # NoStream /\ i.client.owner = Tgt /\ i.conn = {} /\ ~i.lateProxy
      /\ ~i.connSuccess /\ i.client # NoStream => i.client.owner = Ini
      /\ i.activated => i.client # NoStream /\ ~i.allowIncoming

\* The target before its stream is in use: client is the connection it asked
\* for or was given, clientOut the one it dialled.
TgtOK(m) ==
    LET i == m.item IN
    i.state = "Target" =>
      /\ ~i.activated
      /\ i.client # NoStream => i.client.owner = Tgt
      /\ i.clientOut # NoStream => i.clientOut.owner = Ini /\ i.connSuccess
      /\ i.connSuccess => i.conn = {} /\ ~i.lateProxy
      /\ ~i.fast => i.client = NoStream /\ ~i.localFailed /\ ~i.lateProxy /\ ~i.allowIncoming

\* An item whose stream is in use holds no other connection; only the target
\* may still have a request unanswered.
ActiveOK(p, m) ==
    LET i == m.item IN
    i.state = "Active" =>
      /\ i.conn = {} /\ i.clientOut = NoStream /\ i.client = NoStream
      /\ p = Ini => ~i.task /\ ~i.allowIncoming /\ i.targetMode # "Unknown"
      /\ p = Tgt /\ i.task => i.connSuccess /\ ~i.lateProxy /\ m.sc = Direct(Tgt)
      /\ p = Tgt /\ (i.task \/ i.allowIncoming) => i.fast

\* What is true of a client between two handlers.
Local(p, m) ==
    /\ PlaceOK(p, m) /\ SocketsOK(p, m) /\ ProxyOK(p, m) /\ HostsOK(p, m)
    /\ DialOK(p, m) /\ TaskOK(p, m) /\ IniOK(m) /\ TgtOK(m) /\ ActiveOK(p, m)

----------------------------------------------------------------------------
(* What each method of the item does to the state of a handler.            *)

\* Each client makes two connections, itself and by its proxy, and knows the
\* other.
LEMMA StreamFacts ==
    /\ NoStream \notin Stream
    /\ \A p \in Peer : Direct(p) \in Stream /\ Proxy(p) \in Stream /\ Direct(p) # Proxy(p)
    /\ \A p \in Peer : Other(p) \in Peer /\ Other(p) # p /\ Other(Other(p)) = p
    /\ Peer = {Ini, Tgt} /\ Ini # Tgt
  BY PeerAssumption DEF NoStream, Stream, Direct, Proxy, Other, Peer

\* The fields of a handler's state have their types.
LEMMA XFields ==
    ASSUME NEW x \in XState
    PROVE  /\ x.m \in PeerState /\ x.m.item \in Item /\ x.crs \in [Stream -> CRs]
           /\ x.out \in Seq(Stanza) /\ x.early \in BOOLEAN /\ x.bad \in BOOLEAN
           /\ x.m.end \in [Stream -> {"none", "dialing", "open", "closed"}]
           /\ x.m.item.client \in Stream \cup {NoStream}
           /\ x.m.item.clientOut \in Stream \cup {NoStream}
           /\ x.m.item.conn \subseteq Stream /\ x.m.item.inHosts \subseteq Stream
           /\ x.m.item.inId \in ReqId
  BY DEF XState, PeerState, Item

\* Putting back a client, a changed item, or changed ends.
LEMMA PutIs ==
    ASSUME NEW x \in XState, NEW n \in PeerState
    PROVE  LET y == [x EXCEPT !.m = n]
           IN  y \in XState /\ y.m = n /\ SameRest(x, y) /\ y.early = x.early /\ y.broke = x.broke
  BY DEF XState, SameRest

\* Putting back an item that has changed.
LEMMA PutItemIs ==
    ASSUME NEW m \in PeerState, NEW j \in Item
    PROVE  LET n == [m EXCEPT !.item = j]
           IN  n \in PeerState /\ n.item = j /\ n.end = m.end /\ SameConnection(m, n)
  BY DEF PeerState, SameConnection

\* Putting back the ends that have changed.
LEMMA PutEndIs ==
    ASSUME NEW m \in PeerState, NEW e \in [Stream -> {"none", "dialing", "open", "closed"}]
    PROVE  LET n == [m EXCEPT !.end = e]
           IN  n \in PeerState /\ n.item = m.item /\ n.end = e /\ SameConnection(m, n)
  BY DEF PeerState, SameConnection

\* Closing keeps the ends well-formed.
LEMMA ClosingIs ==
    ASSUME NEW e \in [Stream -> {"none", "dialing", "open", "closed"}], NEW streams
    PROVE  LET c == Closing(e, streams)
           IN  /\ c \in [Stream -> {"none", "dialing", "open", "closed"}]
               /\ \A s \in Stream : (s \in streams => c[s] \in {"none", "closed"})
                                    /\ (s \notin streams => c[s] = e[s])
                                    /\ (c[s] = "none" <=> e[s] = "none")
  BY DEF Closing

\* Deleting sockets closes their ends and nothing else.
LEMMA DropManyIs ==
    ASSUME NEW x \in XState, NEW streams
    PROVE  LET y == DropMany(x, streams)
               n == [x.m EXCEPT !.end = Closing(x.m.end, streams)]
           IN  /\ y = [x EXCEPT !.m = n] /\ n \in PeerState
               /\ n.item = x.m.item /\ SameConnection(x.m, n)
               /\ n.end = Closing(x.m.end, streams)
               /\ y \in XState /\ y.m = n /\ SameRest(x, y) /\ y.early = x.early
<1> DEFINE e == Closing(x.m.end, streams)
           n == [x.m EXCEPT !.end = e]
<1>1. DropMany(x, streams) = [x EXCEPT !.m = n]
  BY Zenon DEF DropMany, Closing
<1>2. e \in [Stream -> {"none", "dialing", "open", "closed"}]
  BY XFields, ClosingIs
<1> HIDE DEF e
<1>3. n \in PeerState /\ n.item = x.m.item /\ n.end = e /\ SameConnection(x.m, n)
  BY <1>2, PutEndIs, XFields
<1> HIDE DEF n
<1>4. DropMany(x, streams) \in XState /\ DropMany(x, streams).m = n
      /\ SameRest(x, DropMany(x, streams)) /\ DropMany(x, streams).early = x.early
  BY <1>1, <1>3, PutIs
<1> QED BY <1>1, <1>3, <1>4 DEF n, e

\* Deleting a socket that may be no socket at all.
LEMMA DropIs ==
    ASSUME NEW x \in XState, NEW s \in Stream \cup {NoStream}
    PROVE  LET y == Drop(x, s)
               n == [x.m EXCEPT !.end = Closing(x.m.end, {s})]
           IN  /\ y = [x EXCEPT !.m = n] /\ n \in PeerState
               /\ n.item = x.m.item /\ SameConnection(x.m, n)
               /\ n.end = Closing(x.m.end, {s})
               /\ y \in XState /\ y.m = n /\ SameRest(x, y) /\ y.early = x.early
<1> DEFINE e == Closing(x.m.end, {s})
           n == [x.m EXCEPT !.end = e]
<1>2. e \in [Stream -> {"none", "dialing", "open", "closed"}]
  BY XFields, ClosingIs
<1>1. Drop(x, s) = [x EXCEPT !.m = n]
  <2>1. CASE s = NoStream
    <3>1. e = x.m.end
      BY <2>1, StreamFacts, XFields DEF Closing
    <3> HIDE DEF e
    <3>2. n = x.m
      BY <3>1, XFields DEF PeerState
    <3> HIDE DEF n
    <3>3. [x EXCEPT !.m = n] = x
      BY <3>2 DEF XState
    <3> QED BY <3>3, <2>1 DEF Drop
  <2>2. CASE s # NoStream
    <3>1. e = [x.m.end EXCEPT ![s] = IF x.m.end[s] = "none" THEN "none" ELSE "closed"]
      BY <2>2, XFields DEF Closing
    <3> HIDE DEF e
    <3> QED BY Zenon, <3>1, <2>2 DEF Drop
  <2> QED BY <2>1, <2>2
<1> HIDE DEF e
<1>3. n \in PeerState /\ n.item = x.m.item /\ n.end = e /\ SameConnection(x.m, n)
  BY <1>2, PutEndIs, XFields
<1> HIDE DEF n
<1>4. Drop(x, s) \in XState /\ Drop(x, s).m = n
      /\ SameRest(x, Drop(x, s)) /\ Drop(x, s).early = x.early
  BY <1>1, <1>3, PutIs
<1> QED BY <1>1, <1>3, <1>4 DEF n, e

\* The new item is well-formed.
LEMMA NewItemIs == NewItem \in Item
  BY DEF NewItem, Item, ReqId

\* reset() deletes the item, unlinks the entry and closes every connection.
LEMMA GoneIs ==
    ASSUME NEW x \in XState, NEW why \in Ended
    PROVE  LET y == Gone(x, why)
           IN  /\ y \in XState /\ SameRest(x, y) /\ y.early = x.early
               /\ y.m.con = "Idle" /\ y.m.sc = NoStream /\ y.m.entry = "none"
               /\ y.m.item = NewItem /\ y.m.ended = why /\ y.m.req = x.m.req
               /\ \A s \in Stream : y.m.end[s] \in {"none", "closed"}
<1> DEFINE d == DropMany(x, Stream)
           n == [d.m EXCEPT !.con = "Idle", !.sc = NoStream,
                    !.entry = "none", !.item = NewItem, !.ended = why]
<1>1. d \in XState /\ d.m \in PeerState /\ SameRest(x, d) /\ d.early = x.early
      /\ d.m.req = x.m.req /\ d.m.end = Closing(x.m.end, Stream)
  <2> DEFINE k == [x.m EXCEPT !.end = Closing(x.m.end, Stream)]
  <2>1. /\ d \in XState /\ d.m = k /\ SameRest(x, d) /\ d.early = x.early
        /\ k \in PeerState /\ SameConnection(x.m, k) /\ k.end = Closing(x.m.end, Stream)
    BY Zenon, DropManyIs
  <2> HIDE DEF k, d
  <2> QED BY Zenon, <2>1 DEF SameConnection
<1>2. Gone(x, why) = [d EXCEPT !.m = n]
  BY Zenon DEF Gone
<1> HIDE DEF d
<1>3. n \in PeerState
  BY <1>1, NewItemIs DEF PeerState
<1>4. n.con = "Idle" /\ n.sc = NoStream /\ n.entry = "none" /\ n.item = NewItem
      /\ n.ended = why /\ n.req = d.m.req /\ n.end = d.m.end
  BY <1>1 DEF PeerState
<1> HIDE DEF n
<1>5. [d EXCEPT !.m = n] \in XState /\ [d EXCEPT !.m = n].m = n /\ SameRest(d, [d EXCEPT !.m = n])
      /\ [d EXCEPT !.m = n].early = d.early
  BY <1>1, <1>3, PutIs
<1>6. \A s \in Stream : n.end[s] \in {"none", "closed"}
  BY <1>1, <1>4, ClosingIs, XFields
<1> QED BY <1>1, <1>2, <1>4, <1>5, <1>6 DEF SameRest

\* A client that has left.
Left(p, n) ==
    /\ n.con = "Idle" /\ n.sc = NoStream /\ n.entry = "none" /\ n.item = NewItem
    /\ n.ended # "none" /\ Owned(n.req.hosts, Other(p))
    /\ \A s \in Stream : n.end[s] \in {"none", "closed"}

\* A client that has left is sound.
LEMMA LeftLocal ==
    ASSUME NEW p \in Peer, NEW n \in PeerState, Left(p, n)
    PROVE  Local(p, n)
<1>1. PlaceOK(p, n)
  BY DEF PlaceOK, Left, NewItem
<1>2. SocketsOK(p, n)
  BY DEF SocketsOK, EndsOK, Left, NewItem
<1>3. ProxyOK(p, n) /\ HostsOK(p, n) /\ DialOK(p, n) /\ TaskOK(p, n)
  BY DEF ProxyOK, HostsOK, DialOK, TaskOK, Left, NewItem, Owned, Pending
<1>4. IniOK(n) /\ TgtOK(n) /\ ActiveOK(p, n)
  BY DEF IniOK, TgtOK, ActiveOK, Left, NewItem
<1> QED BY <1>1, <1>2, <1>3, <1>4 DEF Local

\* finished() hands the item's client to the connection.
LEMMA FinishedIs ==
    ASSUME NEW x \in XState, x.m.item.client # NoStream
    PROVE  LET y == Finished(x)
               n == [x.m EXCEPT !.con = "Active", !.sc = x.m.item.client,
                        !.item = [x.m.item EXCEPT !.state = "Active", !.client = NoStream]]
           IN  /\ y \in XState /\ y.m = n /\ n \in PeerState /\ SameRest(x, y)
               /\ x.m.role = "Target" /\ x.m.item.task => y.early
<1> DEFINE s == x.m.item.client
           e == x.early \/ (x.m.role = "Target" /\ x.m.item.task)
           i == [x.m.item EXCEPT !.state = "Active", !.client = NoStream]
           m == [x.m EXCEPT !.con = "Active", !.sc = s, !.item = i]
<1>1. Finished(x) = [x EXCEPT !.m = m, !.early = e]
  BY Zenon DEF Finished
<1>2. e \in BOOLEAN /\ s \in Stream /\ x.m.item \in Item /\ x.m \in PeerState
      /\ NoStream \in Stream \cup {NoStream}
      /\ (x.m.role = "Target" /\ x.m.item.task => e)
  BY XFields DEF XState
<1>3. i \in Item
  BY <1>2 DEF Item
<1> HIDE DEF i, s, e
<1>4. m \in PeerState
  BY <1>2, <1>3 DEF PeerState
<1> HIDE DEF m
<1>5. /\ Finished(x) \in XState /\ Finished(x).m = m /\ SameRest(x, Finished(x))
      /\ Finished(x).early = e
  BY <1>1, <1>2, <1>4 DEF XState, SameRest
<1> QED BY <1>2, <1>4, <1>5 DEF m, i, s

\* finished() leaves a client well-formed when no other work of the item is left.
LEMMA FinishLocal ==
    ASSUME NEW p \in Peer, NEW m \in PeerState,
           PlaceOK(p, m), EndsOK(p, m), HostsOK(p, m), DialOK(p, m), TaskOK(p, m),
           m.item.state \in {"Initiator", "Target"}, m.item.client # NoStream,
           m.item.conn = {}, ~Pending(m.item), m.item.clientOut = NoStream,
           ~m.item.proxyConn, m.item.proxyTask = "none",
           p = Ini => ~m.item.task /\ ~m.item.allowIncoming /\ m.item.targetMode # "Unknown",
           p = Tgt /\ m.item.task => ~m.item.allowIncoming /\ m.item.connSuccess
                      /\ ~m.item.lateProxy /\ m.item.client = Direct(Tgt),
           p = Tgt /\ (m.item.task \/ m.item.allowIncoming) => m.item.fast
    PROVE  LET n == [m EXCEPT !.con = "Active", !.sc = m.item.client,
                        !.item = [m.item EXCEPT !.state = "Active", !.client = NoStream]]
           IN  Local(p, n)
<1> DEFINE n == [m EXCEPT !.con = "Active", !.sc = m.item.client,
                    !.item = [m.item EXCEPT !.state = "Active", !.client = NoStream]]
<1>1. PlaceOK(p, n)
  <2>1. m.entry = "item"
    BY DEF PlaceOK, NewItem
  <2>2. /\ n.item.state = "Active" /\ n.con = "Active" /\ n.sc = m.item.client
        /\ n.entry = m.entry /\ n.req = m.req /\ n.ended = m.ended
    BY DEF PeerState, Item
  <2> QED BY <2>1, <2>2 DEF PlaceOK
<1>2. SocketsOK(p, n)
  BY ZenonT(30) DEF SocketsOK, EndsOK, PeerState, Item, PlaceOK
<1>3. ProxyOK(p, n) /\ HostsOK(p, n) /\ DialOK(p, n)
  BY ZenonT(30) DEF ProxyOK, HostsOK, DialOK, PeerState, Item, Pending
<1>4. TaskOK(p, n)
  BY ZenonT(30) DEF TaskOK, PeerState, Item
<1>5. IniOK(n) /\ TgtOK(n)
  BY ZenonT(30) DEF IniOK, TgtOK, PeerState, Item
<1>6. ActiveOK(p, n)
  BY DEF ActiveOK, PeerState, Item
<1> QED BY <1>1, <1>2, <1>3, <1>4, <1>5, <1>6 DEF Local

\* A failed item leaves, whatever state it was in.
LEMMA FailIs ==
    ASSUME NEW p \in Peer, NEW x \in XState, NEW why \in Ended \ {"none"},
           Owned(x.m.req.hosts, Other(p))
    PROVE  LET y == Fail(x, why)
           IN  /\ y \in XState /\ SameRest(x, y) /\ y.early = x.early
               /\ Left(p, y.m) /\ y.m.ended = why /\ Local(p, y.m)
<1> DEFINE y == Gone(x, why)
<1>1. y \in XState /\ SameRest(x, y) /\ y.early = x.early /\ Left(p, y.m) /\ y.m.ended = why
  BY GoneIs DEF Left
<1> HIDE DEF y
<1>2. Local(p, y.m)
  BY <1>1, LeftLocal, XFields
<1> QED BY <1>1, <1>2 DEF y, Fail

\* What an initiator may go on with.
Settled(m) ==
    /\ m.item.state \in {"Initiator", "Target"} /\ m.item.conn = {} /\ ~Pending(m.item)
    /\ ~m.item.proxyConn /\ m.item.proxyTask = "none"

\* The initiator has written the CR on its candidate.
Activated(m) == [m EXCEPT !.item = [m.item EXCEPT !.task = FALSE, !.activated = TRUE]]

\* tryActivation(), once it has its client: it goes on without a CR, or writes
\* one on that client.
LEMMA TryActivationIs ==
    ASSUME NEW x \in XState, Local(Ini, x.m), Settled(x.m), x.m.item.state = "Initiator",
           ~x.m.item.activated, x.m.item.client # NoStream, x.m.item.targetMode # "Unknown"
    PROVE  LET y == TryActivation(x)
               s == x.m.item.client
           IN  /\ y \in XState /\ y.out = x.out /\ y.bad = x.bad /\ Local(Ini, y.m)
               /\ y.m.item.conn = {} /\ ~Pending(y.m.item) /\ y.m.con # "Idle" /\ y.m.entry = "item"
               /\ y.m.item.targetMode = x.m.item.targetMode
               /\ y.m.item.remoteFailed = x.m.item.remoteFailed
               /\ \/ /\ x.m.item.targetMode = "NotFast" /\ y.crs = x.crs
                     /\ y.m.item.state = "Active" /\ y.m.sc = s
                  \/ /\ x.m.item.targetMode = "Fast" /\ y.crs = [x.crs EXCEPT ![s] = "sent"]
                     /\ y.m.item.state = "Initiator" /\ y.m.item.activated
                     /\ y.m.item.client = s /\ y.m.item.connSuccess = x.m.item.connSuccess
<1> DEFINE y == TryActivation(x)
           s == x.m.item.client
<1>0. /\ x.m \in PeerState /\ x.m.item \in Item /\ s \in Stream /\ x.crs \in [Stream -> CRs]
      /\ ~x.m.item.allowIncoming /\ Ini \in Peer
  BY XFields, PeerAssumption DEF Local, SocketsOK, Peer
<1>1. CASE x.m.item.targetMode = "NotFast"
  <2>1. y = Finished(x)
    BY <1>1 DEF TryActivation
  <2> DEFINE n == [x.m EXCEPT !.con = "Active", !.sc = x.m.item.client,
                        !.item = [x.m.item EXCEPT !.state = "Active", !.client = NoStream]]
  <2>2. Finished(x) \in XState /\ Finished(x).m = n /\ n \in PeerState /\ SameRest(x, Finished(x))
    BY Zenon, FinishedIs
  <2>3. Local(Ini, n)
    BY <1>0, <1>1, FinishLocal, PeerAssumption DEF Local, Settled, TaskOK, IniOK, SocketsOK
  <2>4. /\ n.item.conn = {} /\ ~Pending(n.item) /\ n.con # "Idle" /\ n.entry = "item"
        /\ n.item.state = "Active" /\ n.sc = s /\ n.item.targetMode = x.m.item.targetMode
        /\ n.item.remoteFailed = x.m.item.remoteFailed
    <3>1. x.m.entry = "item"
      BY DEF Local, PlaceOK, NewItem
    <3> QED BY <1>0, <3>1 DEF Settled, Pending, PeerState, Item
  <2> HIDE DEF n
  <2> QED BY <1>1, <2>1, <2>2, <2>3, <2>4 DEF SameRest
<1>2. CASE x.m.item.targetMode = "Fast"
  <2> DEFINE j == [x.m.item EXCEPT !.task = FALSE, !.activated = TRUE]
             n == [x.m EXCEPT !.item = j]
             c == [x.crs EXCEPT ![s] = "sent"]
  <2>1. y = [x EXCEPT !.m = n, !.crs = c]
    BY <1>2 DEF TryActivation
  <2>2. j \in Item /\ c \in [Stream -> CRs]
    BY <1>0 DEF Item, CRs
  <2>3. n \in PeerState /\ n.item = j /\ n.end = x.m.end /\ SameConnection(x.m, n)
    <3> HIDE DEF j
    <3> QED BY <1>0, <2>2, PutItemIs
  <2>4. Local(Ini, n)
    <3> HIDE DEF n
    <3> USE <2>3 DEF SameConnection
    <3>1. PlaceOK(Ini, n)
      BY <1>0 DEF PlaceOK, Item, Local, NewItem
    <3>2. SocketsOK(Ini, n)
      BY <1>0 DEF SocketsOK, EndsOK, Item, Local
    <3>3. ProxyOK(Ini, n) /\ HostsOK(Ini, n) /\ DialOK(Ini, n)
      BY <1>0, <1>2 DEF ProxyOK, HostsOK, DialOK, Item, Local, Settled, Pending
    <3>4. TaskOK(Ini, n)
      BY <1>0, <1>2 DEF TaskOK, Item, Local
    <3>5. IniOK(n) /\ TgtOK(n) /\ ActiveOK(Ini, n)
      BY <1>0, <1>2 DEF IniOK, TgtOK, ActiveOK, Item, Local
    <3> QED BY <3>1, <3>2, <3>3, <3>4, <3>5 DEF Local
  <2>5. /\ n.item.conn = {} /\ ~Pending(n.item) /\ n.con # "Idle" /\ n.entry = "item"
        /\ n.item.state = "Initiator" /\ n.item.activated /\ n.item.client = s
        /\ n.item.connSuccess = x.m.item.connSuccess
        /\ n.item.targetMode = x.m.item.targetMode
        /\ n.item.remoteFailed = x.m.item.remoteFailed
    <3> HIDE DEF n
    <3> QED BY <1>0, <2>3 DEF SameConnection, Settled, Pending, Item, Local, PlaceOK, NewItem
  <2> HIDE DEF n, c
  <2>6. y \in XState /\ y.m = n /\ y.crs = c /\ y.out = x.out /\ y.bad = x.bad
    BY <2>1, <2>2, <2>3 DEF XState
  <2> HIDE DEF y, s
  <2> QED BY <1>2, <2>4, <2>5, <2>6 DEF c, y, s
<1> QED BY <1>0, <1>1, <1>2 DEF Item

\* What a target does with a candidate it may go on with.
TakesUp(x, y, s) ==
    /\ s \in {x.m.item.client, x.m.item.clientOut} \ {NoStream}
    /\ y.m.item.state = "Active" /\ y.m.con = "Active" /\ y.m.sc = s /\ y.m.entry = "item"
    /\ y.m.item.fast = x.m.item.fast /\ y.m.item.task = x.m.item.task
    /\ y.m.item.remoteFailed = x.m.item.remoteFailed
    /\ y.m.item.conn = {} /\ ~Pending(y.m.item)
    /\ ~y.m.item.proxyConn /\ y.m.item.proxyTask = "none"
    /\ x.m.item.fast => x.crs[s] = "arrived" /\ y.crs = [x.crs EXCEPT ![s] = "taken"]
    /\ ~x.m.item.fast => y.crs = x.crs
    /\ x.m.role = "Target" /\ x.m.item.task => y.early

\* checkForActivation() at the target: nothing, or the connection is taken up
\* with its CR.
LEMMA CheckForActivationIs ==
    ASSUME NEW x \in XState, Local(Tgt, x.m), Settled(x.m), x.m.item.state = "Target",
           x.m.item.task => x.m.item.connSuccess /\ ~x.m.item.lateProxy,
           x.m.item.task /\ x.m.item.clientOut # NoStream =>
               x.crs[x.m.item.clientOut] # "arrived"
    PROVE  LET y == CheckForActivation(x)
           IN  /\ y \in XState /\ y.out = x.out /\ y.bad = x.bad /\ Local(Tgt, y.m)
               /\ \/ y = x /\ Choices(x) = {}
                  \/ \E s \in Stream : TakesUp(x, y, s)
<1> DEFINE i == x.m.item
           s == IF i.client \in Choices(x) THEN i.client ELSE i.clientOut
           rest == {i.client, i.clientOut} \ {s}
           d == DropMany(x, rest)
           j == [i EXCEPT !.client = s, !.clientOut = NoStream, !.activated = TRUE]
           n == [d.m EXCEPT !.item = j]
           c == IF i.fast THEN [x.crs EXCEPT ![s] = "taken"] ELSE x.crs
           z == [d EXCEPT !.m = n, !.crs = c]
           y == CheckForActivation(x)
<1>0. /\ x.m \in PeerState /\ i \in Item /\ x.crs \in [Stream -> CRs] /\ Tgt \in Peer
      /\ i.client \in Stream \cup {NoStream} /\ i.clientOut \in Stream \cup {NoStream}
      /\ x.m.end \in [Stream -> {"none", "dialing", "open", "closed"}]
      /\ ~i.activated
  BY XFields DEF Local, TgtOK, Peer
<1>1. CASE Choices(x) = {}
  <2>1. y = x
    BY <1>0, <1>1 DEF CheckForActivation
  <2> QED BY <1>1, <2>1
<1>2. CASE Choices(x) # {}
  <2>1. /\ s \in Stream /\ s \in {i.client, i.clientOut} /\ s \in Choices(x)
        /\ i.fast => x.crs[s] = "arrived"
    BY <1>0, <1>2 DEF Choices
  <2>2. /\ d \in XState /\ d.out = x.out /\ d.bad = x.bad /\ d.crs = x.crs
        /\ d.m \in PeerState /\ d.m.item = i /\ SameConnection(x.m, d.m)
        /\ d.m.end = Closing(x.m.end, rest)
    <3> DEFINE k == [x.m EXCEPT !.end = Closing(x.m.end, rest)]
    <3> HIDE DEF rest
    <3>1. /\ d \in XState /\ d.m = k /\ SameRest(x, d) /\ k \in PeerState
          /\ k.item = x.m.item /\ SameConnection(x.m, k)
          /\ k.end = Closing(x.m.end, rest)
      BY Zenon, DropManyIs
    <3> HIDE DEF k, d
    <3> QED BY Zenon, <3>1 DEF SameRest
  <2>3. y = Finished(z)
    BY Zenon, <1>2, <2>2 DEF CheckForActivation
  <2>4. j \in Item /\ c \in [Stream -> CRs]
    <3> HIDE DEF s
    <3>1. NoStream \in Stream \cup {NoStream}
      OBVIOUS
    <3>2. j \in Item
      BY <1>0, <2>1, <3>1 DEF Item
    <3>3. c \in [Stream -> CRs]
      BY <1>0, <2>1 DEF CRs
    <3> QED BY <3>2, <3>3
  <2>5. /\ j.client = s /\ j.clientOut = NoStream /\ j.activated /\ j.state = "Target"
        /\ j.fast = i.fast /\ j.task = i.task /\ j.conn = {} /\ ~j.proxyConn
        /\ j.proxyTask = "none" /\ ~Pending(j) /\ j.connSuccess = i.connSuccess
        /\ j.lateProxy = i.lateProxy /\ j.allowIncoming = i.allowIncoming
        /\ j.localFailed = i.localFailed /\ j.remoteFailed = i.remoteFailed
        /\ j.inHosts = i.inHosts /\ j.inId = i.inId /\ j.outId = i.outId
        /\ j.targetMode = i.targetMode
    <3> HIDE DEF s
    <3> QED BY <1>0 DEF Settled, Pending, Item
  <2> HIDE DEF s, j, d, c
  <2>6. n \in PeerState /\ n.item = j /\ n.end = d.m.end /\ SameConnection(d.m, n)
    BY <2>2, <2>4, PutItemIs
  <2> HIDE DEF n
  <2>7. z \in XState /\ z.m = n /\ z.out = x.out /\ z.bad = x.bad /\ z.crs = c
    BY <2>2, <2>4, <2>6 DEF XState
  <2> HIDE DEF z
  <2> DEFINE f == [n EXCEPT !.con = "Active", !.sc = s,
                        !.item = [j EXCEPT !.state = "Active", !.client = NoStream]]
  <2>8. /\ y \in XState /\ y.m = f /\ f \in PeerState /\ SameRest(z, y)
        /\ n.role = "Target" /\ j.task => y.early
    <3>1. z.m.item = j /\ z.m.item.client = s /\ s # NoStream
      BY <2>1, <2>5, <2>6, <2>7, StreamFacts
    <3> DEFINE g == [z.m EXCEPT !.con = "Active", !.sc = z.m.item.client,
                        !.item = [z.m.item EXCEPT !.state = "Active", !.client = NoStream]]
    <3>2. /\ Finished(z) \in XState /\ Finished(z).m = g /\ g \in PeerState /\ SameRest(z, Finished(z))
          /\ z.m.role = "Target" /\ z.m.item.task => Finished(z).early
      BY Zenon, <2>7, <3>1, FinishedIs
    <3>3. g = f
      BY Zenon, <2>7, <3>1
    <3> HIDE DEF f, g, y
    <3> QED BY Zenon, <2>3, <2>7, <3>1, <3>2, <3>3
  <2>9. SameConnection(x.m, n)
    BY <2>2, <2>6 DEF SameConnection
  <2>10. Local(Tgt, f)
    <3>1. PlaceOK(Tgt, n)
      BY <2>5, <2>6, <2>9 DEF PlaceOK, SameConnection, Local, NewItem
    <3>2. EndsOK(Tgt, n)
      <4>1. x.m.sc = NoStream
        BY DEF Local, PlaceOK
      <4>2. \A t \in Stream : n.end[t] = "open" => t = s
        <5> SUFFICES ASSUME NEW t \in Stream, n.end[t] = "open" PROVE t = s
          OBVIOUS
        <5>1. x.m.end[t] = "open" /\ ~(t \in {i.client, i.clientOut} \ {s})
          BY <1>0, <2>2, <2>6, ClosingIs
        <5>2. t \in {x.m.sc, i.client, i.clientOut}
          BY <5>1 DEF Local, SocketsOK, EndsOK
        <5> QED BY <4>1, <5>1, <5>2, StreamFacts
      <4>3. \A t \in Stream : n.end[t] # "dialing"
        <5> SUFFICES ASSUME NEW t \in Stream, n.end[t] = "dialing" PROVE FALSE
          OBVIOUS
        <5>1. x.m.end[t] = "dialing"
          BY <1>0, <2>2, <2>6, ClosingIs
        <5> QED BY <5>1 DEF Local, SocketsOK, EndsOK, Settled
      <4> QED BY <2>5, <2>6, <4>2, <4>3 DEF EndsOK
    <3>3. HostsOK(Tgt, n) /\ DialOK(Tgt, n)
      BY <2>5, <2>6 DEF HostsOK, DialOK, Local, Settled, Pending
    <3>4. TaskOK(Tgt, n)
      <4>1. i.task => s = i.client
        BY <2>1, StreamFacts DEF Local, TaskOK
      <4> QED BY <2>1, <2>5, <2>6, <4>1, StreamFacts DEF TaskOK, Local
    <3>5. i.task => s = Direct(Tgt) /\ ~i.allowIncoming
      BY <2>1, StreamFacts DEF Local, TaskOK, SocketsOK
    <3>6. i.task \/ i.allowIncoming => i.fast
      BY DEF Local, TaskOK, TgtOK
    <3> QED
      BY <2>1, <2>5, <2>6, <3>1, <3>2, <3>3, <3>4, <3>5, <3>6, <1>0, FinishLocal, StreamFacts
  <2>11. TakesUp(x, y, s)
    <3>1. /\ f.item.state = "Active" /\ f.con = "Active" /\ f.sc = s /\ f.entry = n.entry
          /\ f.item.fast = j.fast /\ f.item.task = j.task
          /\ f.item.remoteFailed = j.remoteFailed /\ f.item.conn = j.conn
          /\ f.item.lateProxy = j.lateProxy /\ f.item.localFailed = j.localFailed
          /\ f.item.proxyConn = j.proxyConn /\ f.item.proxyTask = j.proxyTask
      BY <2>4, <2>6 DEF PeerState, Item
    <3>2. n.entry = "item" /\ (x.m.role = "Target" /\ i.task => y.early)
      BY <2>5, <2>8, <2>9 DEF SameConnection, Local, PlaceOK, NewItem
    <3>3. y.crs = c
      BY <2>7, <2>8 DEF SameRest
    <3>4. s \in {i.client, i.clientOut} \ {NoStream}
      BY <2>1, StreamFacts
    <3> HIDE DEF f
    <3> QED BY <2>1, <2>5, <2>8, <3>1, <3>2, <3>3, <3>4 DEF TakesUp, c, Pending
  <2> HIDE DEF f
  <2> QED BY <2>1, <2>7, <2>8, <2>10, <2>11 DEF SameRest
<1> QED BY <1>1, <1>2

\* checkFailure(): nothing, or the client leaves because one side, or both,
\* failed.
LEMMA CheckFailureIs ==
    ASSUME NEW p \in Peer, NEW x \in XState, Owned(x.m.req.hosts, Other(p))
    PROVE  LET y == CheckFailure(x)
               i == x.m.item
           IN  /\ y \in XState /\ y.out = x.out /\ y.bad = x.bad /\ y.crs = x.crs /\ y.early = x.early
               /\ \/ y = x /\ ~(i.state = "Target" /\ i.localFailed /\ ~i.fast)
                  \/ Left(p, y.m) /\ Local(p, y.m) /\ y.m.ended # "wrongHost"
                     /\ (i.remoteFailed \/ (i.localFailed /\ ~i.fast /\ i.state # "Initiator"))
<1>1. \A w \in {"connect", "refused"} :
        LET y == Fail(x, w)
        IN  /\ y \in XState /\ y.out = x.out /\ y.bad = x.bad /\ y.crs = x.crs /\ y.early = x.early
            /\ Left(p, y.m) /\ Local(p, y.m) /\ y.m.ended # "wrongHost"
  <2> SUFFICES ASSUME NEW w \in {"connect", "refused"}
               PROVE  LET y == Fail(x, w)
                      IN  /\ y \in XState /\ y.out = x.out /\ y.bad = x.bad /\ y.crs = x.crs /\ y.early = x.early
                          /\ Left(p, y.m) /\ Local(p, y.m) /\ y.m.ended # "wrongHost"
    OBVIOUS
  <2>1. w \in Ended \ {"none"} /\ w # "wrongHost"
    BY DEF Ended
  <2> QED BY <2>1, FailIs DEF SameRest
<1>2. \/ CheckFailure(x) = x
            /\ ~(x.m.item.state = "Target" /\ x.m.item.localFailed /\ ~x.m.item.fast)
      \/ /\ \E w \in {"connect", "refused"} : CheckFailure(x) = Fail(x, w)
         /\ x.m.item.remoteFailed
              \/ (x.m.item.localFailed /\ ~x.m.item.fast /\ x.m.item.state # "Initiator")
  BY DEF CheckFailure
<1> QED BY <1>1, <1>2

\* The stanzas that the manager sends are well-formed.
LEMMA AnswerTypes ==
    ASSUME NEW id \in ReqId
    PROVE  /\ \A code \in Codes : RespondError(id, code) \in Stanza
           /\ \A s \in Stream : RespondSuccess(id, s) \in Stanza
           /\ \A hosts \in SUBSET Stream, fast \in BOOLEAN : Request(id, hosts, fast) \in Stanza
           /\ 404 \in Codes /\ 406 \in Codes
  BY DEF RespondError, RespondSuccess, Request, Stanza, Codes, NoCode

\* Sending a stanza changes nothing else.
LEMMA SendIs ==
    ASSUME NEW x \in XState, NEW z \in Stanza
    PROVE  LET y == Send(x, z)
           IN  /\ y \in XState /\ y.m = x.m /\ y.crs = x.crs /\ y.bad = x.bad
               /\ y.early = x.early /\ y.out = Append(x.out, z)
<1>1. Append(x.out, z) \in Seq(Stanza)
  BY XFields
<1> DEFINE o == Append(x.out, z)
<1>2. Send(x, z) = [x EXCEPT !.out = o]
  BY DEF Send
<1>3. o \in Seq(Stanza)
  BY <1>1
<1> HIDE DEF o
<1>4. LET y == [x EXCEPT !.out = o]
      IN  /\ y \in XState /\ y.m = x.m /\ y.crs = x.crs /\ y.bad = x.bad
          /\ y.early = x.early /\ y.out = o
  BY <1>3 DEF XState
<1> QED BY <1>2, <1>4 DEF o

\* A result for the contracts: the rest of the item as the other client sees it.
SameProgress(i, j) ==
    /\ j.state = i.state /\ j.targetMode = i.targetMode /\ j.fast = i.fast
    /\ j.activated = i.activated /\ j.connSuccess = i.connSuccess
    /\ j.remoteFailed = i.remoteFailed /\ j.task = i.task /\ j.client = i.client
    /\ j.proxyConn = i.proxyConn /\ j.proxyTask = i.proxyTask /\ j.proxy = i.proxy

\* doConnectError() answers with an error and may make the client leave.
LEMMA DoConnectErrorIs ==
    ASSUME NEW p \in Peer, NEW x \in XState,
           PlaceOK(p, x.m), SocketsOK(p, x.m), ProxyOK(p, x.m), HostsOK(p, x.m),
           TaskOK(p, x.m), IniOK(x.m), TgtOK(x.m),
           x.m.item.state \in {"Initiator", "Target"}, x.m.item.conn = {},
           x.m.item.state = "Initiator" => x.m.item.targetMode = "Fast",
           ~(x.m.item.task /\ x.m.item.lateProxy)
    PROVE  LET y == DoConnectError(x)
           IN  /\ y \in XState /\ y.crs = x.crs /\ y.bad = x.bad /\ Local(p, y.m)
               /\ y.early = x.early
               /\ y.out = Append(x.out, RespondError(x.m.item.inId, 404))
               /\ \/ /\ SameProgress(x.m.item, y.m.item) /\ SameConnection(x.m, y.m)
                     /\ y.m.item.localFailed /\ y.m.item.conn = {}
                     /\ y.m.item.lateProxy = x.m.item.lateProxy
                     /\ y.m.item.clientOut = x.m.item.clientOut
                     /\ y.m.item.allowIncoming = x.m.item.allowIncoming
                  \/ /\ Left(p, y.m) /\ y.m.ended # "wrongHost"
                     /\ x.m.item.remoteFailed \/ (x.m.item.state = "Target" /\ ~x.m.item.fast)
<1> DEFINE i == x.m.item
           j == [i EXCEPT !.localFailed = TRUE]
           n == [x.m EXCEPT !.item = j]
           w == [x EXCEPT !.m = n]
           a == RespondError(i.inId, 404)
           v == Send(w, a)
           y == CheckFailure(v)
<1>0. /\ x.m \in PeerState /\ i \in Item /\ i.inId \in ReqId /\ a \in Stanza
      /\ Owned(x.m.req.hosts, Other(p))
  BY XFields, AnswerTypes DEF PlaceOK
<1>1. DoConnectError(x) = y
  BY DEF DoConnectError
<1>2. /\ j \in Item /\ SameProgress(i, j) /\ j.localFailed /\ j.conn = {} /\ j.inHosts = i.inHosts
      /\ j.inId = i.inId /\ j.outId = i.outId /\ j.lateProxy = i.lateProxy
      /\ j.allowIncoming = i.allowIncoming /\ j.clientOut = i.clientOut
  BY <1>0 DEF Item, SameProgress
<1> HIDE DEF j, a
<1>3. n \in PeerState /\ n.item = j /\ n.end = x.m.end /\ SameConnection(x.m, n)
  BY <1>0, <1>2, PutItemIs
<1> HIDE DEF n
<1>4. w \in XState /\ w.m = n /\ w.out = x.out /\ w.crs = x.crs /\ w.bad = x.bad /\ w.early = x.early
  BY <1>3, PutIs DEF SameRest
<1> HIDE DEF w
<1>5. /\ v \in XState /\ v.m = n /\ v.out = Append(x.out, a) /\ v.crs = x.crs /\ v.bad = x.bad
      /\ v.early = x.early
  BY <1>0, <1>4, SendIs
<1> HIDE DEF v
<1>6. Owned(v.m.req.hosts, Other(p))
  BY <1>0, <1>3, <1>5 DEF SameConnection
<1>7. /\ y \in XState /\ y.out = v.out /\ y.bad = v.bad /\ y.crs = v.crs /\ y.early = v.early
      /\ \/ y = v /\ ~(j.state = "Target" /\ j.localFailed /\ ~j.fast)
         \/ Left(p, y.m) /\ Local(p, y.m) /\ y.m.ended # "wrongHost"
            /\ (j.remoteFailed \/ (j.localFailed /\ ~j.fast /\ j.state # "Initiator"))
  BY <1>3, <1>5, <1>6, CheckFailureIs
<1> HIDE DEF y
<1>8. CASE y = v /\ ~(j.state = "Target" /\ j.localFailed /\ ~j.fast)
  <2> USE <1>2, <1>3 DEF SameProgress, SameConnection
  <2>1. PlaceOK(p, n)
    BY DEF PlaceOK, NewItem
  <2>2. SocketsOK(p, n)
    BY DEF SocketsOK, EndsOK
  <2>3. ProxyOK(p, n) /\ HostsOK(p, n) /\ DialOK(p, n)
    BY DEF ProxyOK, HostsOK, DialOK, Pending
  <2>4. TaskOK(p, n)
    BY DEF TaskOK
  <2>5. IniOK(n) /\ TgtOK(n) /\ ActiveOK(p, n)
    BY <1>8 DEF IniOK, TgtOK, ActiveOK
  <2>6. Local(p, n)
    BY <2>1, <2>2, <2>3, <2>4, <2>5 DEF Local
  <2> QED BY <1>1, <1>5, <1>7, <1>8, <2>6 DEF a
<1>9. CASE Left(p, y.m) /\ Local(p, y.m) /\ y.m.ended # "wrongHost"
           /\ (j.remoteFailed \/ (j.localFailed /\ ~j.fast /\ j.state # "Initiator"))
  BY <1>1, <1>2, <1>5, <1>7, <1>9 DEF a, SameProgress
<1> QED BY <1>7, <1>8, <1>9

\* Dialling hosts that the other client offered.
LEMMA DialIs ==
    ASSUME NEW p \in Peer, NEW x \in XState, NEW hosts \in SUBSET Stream,
           PlaceOK(p, x.m), SocketsOK(p, x.m), HostsOK(p, x.m), TaskOK(p, x.m),
           IniOK(x.m), TgtOK(x.m),
           x.m.item.state \in {"Initiator", "Target"}, x.m.item.conn = {},
           ~x.m.item.connSuccess, ~x.m.item.localFailed, ~x.m.item.activated,
           x.m.item.clientOut = NoStream, ~x.m.item.proxyConn, x.m.item.proxyTask = "none",
           x.m.item.state = "Initiator" => x.m.item.targetMode = "Fast",
           ~x.m.item.task => x.m.item.remoteFailed
                               \/ (x.m.item.state = "Target" /\ ~x.m.item.fast),
           hosts \subseteq x.m.item.inHosts,
           hosts # {} \/ (x.m.item.lateProxy /\ x.m.item.task)
    PROVE  LET y == Dial(x, hosts)
           IN  /\ y \in XState /\ y.crs = x.crs /\ y.bad = x.bad /\ y.out = x.out /\ Local(p, y.m)
               /\ y.early = x.early
               /\ SameProgress(x.m.item, y.m.item) /\ SameConnection(x.m, y.m)
               /\ y.m.item.conn # {} \/ Pending(y.m.item)
<1> DEFINE i == x.m.item
           j == [i EXCEPT !.conn = hosts]
           e == [s \in Stream |-> IF s \in hosts THEN "dialing" ELSE x.m.end[s]]
           k == [x.m EXCEPT !.item = j]
           n == [k EXCEPT !.end = e]
           y == [x EXCEPT !.m = n]
<1>0. /\ x.m \in PeerState /\ i \in Item
      /\ x.m.end \in [Stream -> {"none", "dialing", "open", "closed"}]
  BY XFields
<1>1. Dial(x, hosts) = y
  <2>1. Dial(x, hosts) = [x EXCEPT !.m.item.conn = hosts, !.m.end = e]
    BY Zenon DEF Dial
  <2> HIDE DEF e
  <2>2. [x EXCEPT !.m.item.conn = hosts, !.m.end = e] = y
    BY <1>0 DEF XState
  <2> QED BY Zenon, <2>1, <2>2
<1>2. /\ j \in Item /\ SameProgress(i, j) /\ j.localFailed = i.localFailed
      /\ j.conn = hosts /\ j.inHosts = i.inHosts
      /\ j.inId = i.inId /\ j.outId = i.outId /\ j.lateProxy = i.lateProxy
      /\ j.allowIncoming = i.allowIncoming /\ j.clientOut = i.clientOut
  BY <1>0 DEF Item, SameProgress
<1>3. e \in [Stream -> {"none", "dialing", "open", "closed"}]
  BY <1>0
<1>4. \A s \in Stream : e[s] = IF s \in hosts THEN "dialing" ELSE x.m.end[s]
  OBVIOUS
<1> HIDE DEF j, e
<1>5. k \in PeerState /\ k.item = j /\ SameConnection(x.m, k)
  BY <1>0, <1>2, PutItemIs
<1> HIDE DEF k
<1>6. n \in PeerState /\ n.item = j /\ n.end = e /\ SameConnection(k, n)
  BY <1>3, <1>5, PutEndIs
<1> HIDE DEF n
<1>7. y \in XState /\ y.m = n /\ y.out = x.out /\ y.crs = x.crs /\ y.bad = x.bad /\ y.early = x.early
  BY <1>6, PutIs DEF SameRest
<1> HIDE DEF y
<1>8. SameConnection(x.m, n)
  BY <1>5, <1>6 DEF SameConnection
<1>9. Local(p, n)
  <2> USE <1>2, <1>6, <1>8 DEF SameProgress, SameConnection
  <2>1. PlaceOK(p, n)
    BY DEF PlaceOK, NewItem
  <2>2. SocketsOK(p, n)
    BY <1>4 DEF SocketsOK, EndsOK
  <2>3. ProxyOK(p, n)
    BY DEF ProxyOK
  <2>4. HostsOK(p, n)
    BY DEF HostsOK
  <2>5. DialOK(p, n)
    BY DEF DialOK, Pending
  <2>6. TaskOK(p, n)
    BY DEF TaskOK
  <2>7. IniOK(n) /\ TgtOK(n) /\ ActiveOK(p, n)
    BY DEF IniOK, TgtOK, ActiveOK
  <2> QED BY <2>1, <2>2, <2>3, <2>4, <2>5, <2>6, <2>7 DEF Local
<1>10. n.item.conn # {} \/ Pending(n.item)
  BY <1>2, <1>6 DEF Pending
<1> QED BY <1>1, <1>2, <1>6, <1>7, <1>8, <1>9, <1>10

\* Whether what is left to dial is known to the item.
Offered(p, x) ==
    /\ PlaceOK(p, x.m) /\ SocketsOK(p, x.m) /\ HostsOK(p, x.m) /\ TaskOK(p, x.m)
    /\ IniOK(x.m) /\ TgtOK(x.m)
    /\ x.m.item.state \in {"Initiator", "Target"} /\ x.m.item.conn = {}
    /\ ~x.m.item.connSuccess /\ ~x.m.item.localFailed /\ ~x.m.item.activated
    /\ x.m.item.clientOut = NoStream /\ ~x.m.item.proxyConn /\ x.m.item.proxyTask = "none"
    /\ x.m.item.inId = Other(p)
    /\ x.m.item.state = "Initiator" => x.m.item.targetMode = "Fast"
    /\ ~x.m.item.task => \/ x.m.item.remoteFailed /\ x.m.item.lateProxy
                         \/ x.m.item.state = "Target" /\ ~x.m.item.fast
    /\ x.m.item.lateProxy => ~x.m.item.task

\* Keeping the proxy for later keeps the item sound.
LEMMA WithLateProxy ==
    ASSUME NEW p \in Peer, NEW x \in XState, Offered(p, x), NEW late \in BOOLEAN,
           late => /\ \E s \in x.m.item.inHosts : IsProxy(s)
                   /\ x.m.item.state = "Target" => x.m.item.fast
    PROVE  LET y == [x EXCEPT !.m.item.lateProxy = late]
           IN  /\ y \in XState /\ y.crs = x.crs /\ y.bad = x.bad /\ y.out = x.out
               /\ y.early = x.early
               /\ PlaceOK(p, y.m) /\ SocketsOK(p, y.m) /\ HostsOK(p, y.m) /\ TaskOK(p, y.m)
               /\ IniOK(y.m) /\ TgtOK(y.m)
               /\ SameProgress(x.m.item, y.m.item) /\ SameConnection(x.m, y.m)
               /\ y.m.item.lateProxy = late /\ y.m.item.conn = {} /\ ~y.m.item.localFailed
               /\ y.m.item.clientOut = NoStream /\ y.m.item.inHosts = x.m.item.inHosts
<1> DEFINE i == x.m.item
           j == [i EXCEPT !.lateProxy = late]
           n == [x.m EXCEPT !.item = j]
           y == [x EXCEPT !.m = n]
<1>0. x.m \in PeerState /\ i \in Item
  BY XFields
<1>1. [x EXCEPT !.m.item.lateProxy = late] = y
  OBVIOUS
<1>2. /\ j \in Item /\ SameProgress(i, j) /\ j.localFailed = i.localFailed
      /\ j.conn = i.conn /\ j.inHosts = i.inHosts
      /\ j.inId = i.inId /\ j.outId = i.outId /\ j.lateProxy = late
      /\ j.allowIncoming = i.allowIncoming /\ j.clientOut = i.clientOut
  BY <1>0 DEF Item, SameProgress
<1> HIDE DEF j
<1>3. n \in PeerState /\ n.item = j /\ n.end = x.m.end /\ SameConnection(x.m, n)
  BY <1>0, <1>2, PutItemIs
<1> HIDE DEF n
<1>4. y \in XState /\ y.m = n /\ y.out = x.out /\ y.crs = x.crs /\ y.bad = x.bad /\ y.early = x.early
  BY <1>3, PutIs DEF SameRest
<1> HIDE DEF y
<1> USE <1>2, <1>3 DEF SameProgress, SameConnection, Offered
<1>5. PlaceOK(p, n)
  BY DEF PlaceOK, NewItem
<1>6. SocketsOK(p, n)
  BY DEF SocketsOK, EndsOK
<1>7. HostsOK(p, n)
  BY DEF HostsOK
<1>8. TaskOK(p, n)
  BY DEF TaskOK
<1>9. IniOK(n) /\ TgtOK(n)
  BY DEF IniOK, TgtOK
<1> QED BY <1>1, <1>4, <1>5, <1>6, <1>7, <1>8, <1>9, ZenonT(30)

\* doIncoming(): the item dials, or keeps the proxy for later, or answers with
\* an error.
LEMMA DoIncomingIs ==
    ASSUME NEW p \in Peer, NEW x \in XState, Offered(p, x)
    PROVE  LET y == DoIncoming(x)
           IN  /\ y \in XState /\ y.crs = x.crs /\ y.bad = x.bad /\ Local(p, y.m)
               /\ y.early = x.early
               /\ \/ /\ y.out = x.out /\ SameProgress(x.m.item, y.m.item)
                     /\ SameConnection(x.m, y.m)
                     /\ y.m.item.conn # {} \/ Pending(y.m.item)
                  \/ /\ y.out = Append(x.out, RespondError(Other(p), 404))
                     /\ SameProgress(x.m.item, y.m.item) /\ SameConnection(x.m, y.m)
                     /\ y.m.item.conn = {} /\ ~Pending(y.m.item)
                  \/ /\ y.out = Append(x.out, RespondError(Other(p), 404))
                     /\ Left(p, y.m) /\ y.m.ended # "wrongHost"
                     /\ x.m.item.remoteFailed \/ (x.m.item.state = "Target" /\ ~x.m.item.fast)
<1> DEFINE i == x.m.item
           y == DoIncoming(x)
           proxies == {s \in i.inHosts : IsProxy(s)}
           Set(late) == [x EXCEPT !.m.item.lateProxy = late]
<1>0. /\ i.inHosts \in SUBSET Stream /\ proxies \in SUBSET Stream
      /\ i.inHosts \ proxies \in SUBSET Stream /\ i \in Item
  BY XFields
<1>1. CASE i.inHosts = {}
  <2>1. y = DoConnectError(x)
    BY <1>1 DEF DoIncoming
  <2>2. ~i.lateProxy
    BY <1>1 DEF Offered, HostsOK
  <2>3. ProxyOK(p, x.m)
    BY DEF Offered, ProxyOK
  <2> QED BY <2>1, <2>2, <2>3, DoConnectErrorIs DEF Offered, Pending
<1>2. ASSUME NEW late \in BOOLEAN, NEW hosts \in SUBSET Stream, i.inHosts # {},
             y = Dial(Set(late), hosts), hosts \subseteq i.inHosts,
             late => /\ \E s \in i.inHosts : IsProxy(s)
                     /\ i.state = "Target" => i.fast,
             hosts # {} \/ (late /\ i.task)
      PROVE  /\ y \in XState /\ y.crs = x.crs /\ y.bad = x.bad /\ Local(p, y.m)
             /\ y.early = x.early
             /\ y.out = x.out /\ SameProgress(x.m.item, y.m.item)
             /\ SameConnection(x.m, y.m)
             /\ y.m.item.conn # {} \/ Pending(y.m.item)
  <2> DEFINE v == Set(late)
  <2>1. /\ v \in XState /\ v.crs = x.crs /\ v.bad = x.bad /\ v.out = x.out /\ v.early = x.early
        /\ PlaceOK(p, v.m) /\ SocketsOK(p, v.m) /\ HostsOK(p, v.m) /\ TaskOK(p, v.m)
        /\ IniOK(v.m) /\ TgtOK(v.m)
        /\ SameProgress(x.m.item, v.m.item) /\ SameConnection(x.m, v.m)
        /\ v.m.item.lateProxy = late /\ v.m.item.conn = {} /\ ~v.m.item.localFailed
        /\ v.m.item.clientOut = NoStream /\ v.m.item.inHosts = x.m.item.inHosts
    BY <1>2, WithLateProxy
  <2>2. y = Dial(v, hosts)
    BY <1>2
  <2> HIDE DEF v, y
  <2>3. /\ ~v.m.item.connSuccess /\ ~v.m.item.activated /\ v.m.item.state \in {"Initiator", "Target"}
        /\ ~v.m.item.proxyConn /\ v.m.item.proxyTask = "none"
        /\ v.m.item.state = "Initiator" => v.m.item.targetMode = "Fast"
        /\ ~v.m.item.task => v.m.item.remoteFailed
                               \/ (v.m.item.state = "Target" /\ ~v.m.item.fast)
        /\ hosts # {} \/ (v.m.item.lateProxy /\ v.m.item.task)
    BY <1>2, <2>1 DEF SameProgress, Offered
  <2>4. LET u == Dial(v, hosts)
        IN  /\ u \in XState /\ u.crs = v.crs /\ u.bad = v.bad /\ u.out = v.out /\ Local(p, u.m)
            /\ u.early = v.early
            /\ SameProgress(v.m.item, u.m.item) /\ SameConnection(v.m, u.m)
            /\ u.m.item.conn # {} \/ Pending(u.m.item)
    BY <1>2, <2>1, <2>3, DialIs
  <2>5. SameProgress(x.m.item, y.m.item) /\ SameConnection(x.m, y.m)
    BY <2>1, <2>2, <2>4 DEF SameProgress, SameConnection
  <2> QED BY <2>1, <2>2, <2>4, <2>5
<1>3. CASE i.inHosts # {} /\ i.lateProxy
  <2>1. y = Dial(Set(FALSE), proxies) /\ proxies # {} /\ proxies \subseteq i.inHosts
    BY <1>3 DEF DoIncoming, Offered, HostsOK
  <2> HIDE DEF Set, proxies
  <2> QED BY <1>0, <1>2, <1>3, <2>1
<1>4. CASE i.inHosts # {} /\ ~i.lateProxy
  <2> DEFINE mayDelay == (i.state = "Initiator" \/ (i.state = "Target" /\ i.fast)) /\ ~i.proxy
  <2>1. CASE mayDelay
    <3>1. y = Dial(Set(proxies # {}), i.inHosts \ proxies)
      BY <1>4, <2>1 DEF DoIncoming
    <3>2. (proxies # {}) \in BOOLEAN /\ i.inHosts \ proxies \subseteq i.inHosts
          /\ (proxies # {} => /\ \E s \in i.inHosts : IsProxy(s)
                              /\ i.state = "Target" => i.fast)
          /\ (i.inHosts \ proxies # {} \/ (proxies # {} /\ i.task))
      BY <1>4, <2>1 DEF Offered
    <3> HIDE DEF Set, proxies
    <3> QED BY <1>0, <1>2, <1>4, <3>1, <3>2
  <2>2. CASE ~mayDelay
    <3>1. y = Dial(x, i.inHosts)
      BY <1>4, <2>2 DEF DoIncoming
    <3>2. x = Set(FALSE)
      BY <1>4 DEF XState, PeerState, Item
    <3> HIDE DEF Set
    <3> QED BY <1>0, <1>2, <1>4, <3>1, <3>2
  <2> QED BY <2>1, <2>2
<1> QED BY <1>1, <1>2, <1>3, <1>4

----------------------------------------------------------------------------
(* What a handler does to the rest of the system.                          *)

\* A client may still make its request; it owes the other client an answer.
MayAsk(p, m) ==
    \/ m.con = "Idle" /\ m.ended = "none"
    \/ m.con = "WaitingForAccept"
    \/ m.entry = "query"
\* A client that owes the other the answer to its request.
Owes(p, m) ==
    \/ m.con = "WaitingForAccept"
    \/ p = Tgt /\ m.entry = "query"
    \/ m.item.conn # {}
    \/ Pending(m.item)

\* What a queue of stanzas holds for the request of a client.
IsRequest(z) == z.type = "request"
\* A stanza that answers the request of p.
Answer(p, z) == ~IsRequest(z) /\ z.id = p
\* A queue without a request.
NoRequest(stanzas) == \A k \in DOMAIN stanzas : ~IsRequest(stanzas[k])
\* A queue without an answer for p.
NoAnswer(p, stanzas) == \A k \in DOMAIN stanzas : ~Answer(p, stanzas[k])
\* A queue in which no answer for p is a success.
NoResult(p, stanzas) ==
    \A k \in DOMAIN stanzas : Answer(p, stanzas[k]) => stanzas[k].type # "result"
\* A queue in which every answer for p says that s was used.
OnlyUsed(p, stanzas, s) ==
    \A k \in DOMAIN stanzas :
        Answer(p, stanzas[k]) => stanzas[k].type = "result" /\ stanzas[k].used = s
\* The item connects by its own proxy.
ByProxy(i) == i.proxyConn \/ i.proxyTask # "none"

\* How a client may go from one state to the next, as its user sees it.
PhaseStep(m, n) ==
    /\ m.con = "Idle" =>
          \/ n.con = "Idle" /\ n.ended = m.ended
          \/ m.ended = "none" /\ n.con \in {"Requesting", "Connecting", "WaitingForAccept"}
    /\ m.con # "Idle" /\ n.con = "Idle" => n.ended # "none"
    /\ m.con = "Active" => n.con = "Idle" \/ (n.con = "Active" /\ n.sc = m.sc)

\* What a handler of p that was in the state m, with the CRs c, has to
\* guarantee.  got is what it took from the net: a request, a result or an
\* error for the request of p, or nothing of these.
Common(p, m, y, got) ==
    /\ y \in XState /\ Local(p, y.m) /\ ~y.bad
    /\ PhaseStep(m, y.m)
    /\ MayAsk(p, y.m) => MayAsk(p, m)
    /\ Owes(p, y.m) => Owes(p, m) \/ got = "request"
    /\ y.m.item.remoteFailed => m.item.remoteFailed \/ got = "error"
    /\ \A k \in DOMAIN y.out : IsRequest(y.out[k]) =>
          k = 1 /\ MayAsk(p, m) /\ ~MayAsk(p, y.m)
          /\ y.out[k].id = p /\ Owned(y.out[k].hosts, p)
    /\ \/ Answers(Other(p), y.out) = 0 /\ NoAnswer(Other(p), y.out)
       \/ /\ Answers(Other(p), y.out) = 1 /\ ~Owes(p, y.m)
          /\ Owes(p, m) \/ got = "request"

\* The initiator without fast mode goes on with the connection that the answer
\* names, and it is in fast mode as soon as the target's request has come.
IniChoice(m, y, got) ==
    LET i == m.item
        j == y.m.item
        used == Head(net[Ini]).used
    IN
    /\ j.state = "Active" /\ i.state = "Initiator" /\ ~i.activated =>
          /\ i.targetMode # "Fast"
          /\ \/ got = "result" /\ y.m.sc = used
             \/ ByProxy(i) /\ y.m.sc = Proxy(Ini)
    /\ j.state = "Initiator" =>
          /\ i.state = "Initiator" \/ MayAsk(Ini, m)
          /\ i.state = "Initiator" /\ i.targetMode = "Fast" => j.targetMode = "Fast"
          /\ i.state = "Initiator" /\ i.targetMode = "Unknown" /\ got = "request" =>
                j.targetMode = "Fast"
          /\ ~j.task \/ j.targetMode # "Unknown" =>
                \/ got \in {"request", "result", "error"}
                \/ i.state = "Initiator" /\ (~i.task \/ i.targetMode # "Unknown")
          /\ ByProxy(j) /\ j.targetMode # "Fast" =>
                /\ i.state = "Initiator" /\ i.targetMode # "Fast"
                /\ ByProxy(i) \/ (got = "result" /\ used = Proxy(Ini))

\* The target without fast mode goes on with the connection that its answer
\* names; it is in fast mode only if it makes a request, and it answers after.
TgtChoice(m, y) ==
    LET i == m.item
        j == y.m.item
    IN
    /\ NoResult(Ini, y.out)
       \/ (i.state = "Target"
            /\ (i.fast \/ (j.state = "Active" /\ OnlyUsed(Ini, y.out, y.m.sc))))
    /\ j.state = "Active" /\ ~j.fast /\ i.state # "Active" =>
          i.state = "Target" /\ ~i.fast /\ ~NoResult(Ini, y.out)
    /\ y.m.entry = "item" /\ j.fast =>
          (m.entry = "item" /\ i.fast) \/ ~NoRequest(y.out)
    /\ MayAsk(Tgt, y.m) => Answers(Ini, y.out) = 0

\* What the initiator guarantees besides: when it writes a CR, goes on with a
\* connection, or says which one it used.
IniStep(m, c, y, got) ==
    LET i == m.item
        j == y.m.item
    IN
    /\ IniChoice(m, y, got)
    /\ j.targetMode = "Fast" => i.targetMode = "Fast" \/ got = "request"
    /\ \/ y.crs = c
       \/ /\ i.state = "Initiator" /\ ~i.activated
          /\ j.state = "Initiator" /\ j.activated /\ j.targetMode = "Fast"
          /\ j.client \in Stream /\ y.crs = [c EXCEPT ![j.client] = "sent"]
          /\ j.client.owner = Ini =>
                ~i.connSuccess /\ NoResult(Tgt, y.out) /\ (~i.task \/ got = "result")
          /\ j.client.owner = Tgt => j.connSuccess
    /\ j.state = "Initiator" /\ ~j.activated =>
          (i.state = "Initiator" /\ ~i.activated) \/ MayAsk(Ini, m)
    /\ j.state = "Initiator" /\ j.activated =>
          \/ i.state = "Initiator" /\ i.activated /\ j.client = i.client
          \/ y.crs[j.client] = "sent"
    /\ j.state = "Active" =>
          \/ i.state = "Active" /\ y.m.sc = m.sc /\ j.targetMode = i.targetMode
          \/ /\ i.state = "Initiator" /\ i.activated /\ y.m.sc = i.client
             /\ j.targetMode = i.targetMode
          \/ i.state = "Initiator" /\ ~i.activated /\ j.targetMode # "Fast"
    /\ \/ NoResult(Tgt, y.out)
       \/ i.state = "Initiator" /\ ~i.activated /\ j.state = "Initiator" /\ j.connSuccess
    /\ j.state = "Initiator" /\ j.connSuccess =>
          \/ /\ i.state = "Initiator" /\ i.connSuccess /\ j.client = i.client
             /\ Answers(Tgt, y.out) = 0
          \/ Answers(Tgt, y.out) = 1 /\ OnlyUsed(Tgt, y.out, j.client)
    /\ j.state = "Initiator" /\ ~j.connSuccess =>
          (i.state = "Initiator" /\ ~i.connSuccess) \/ MayAsk(Ini, m)
    /\ j.state = "Initiator" /\ ~j.task /\ ~j.activated =>
          \/ i.state = "Initiator" /\ ~i.task /\ ~i.activated
          \/ got \in {"result", "error"}

\* What the target guarantees besides: it takes only CRs that are there, and
\* turns to its proxy only on a result.
TgtStep(m, c, y, got) ==
    LET i == m.item
        j == y.m.item
    IN
    /\ TgtChoice(m, y)
    /\ \A s \in Stream : y.crs[s] = "none" <=> c[s] = "none"
    /\ j.state = "Active" /\ j.fast => y.crs[y.m.sc] = "taken"
    /\ ByProxy(j) => ByProxy(i) \/ got = "result"
    /\ y.m.entry = "item" /\ ~j.fast =>
          \/ m.entry = "item" /\ ~i.fast
          \/ MayAsk(Tgt, m) /\ NoRequest(y.out)
    /\ m.con = "Idle" /\ m.ended = "none" => y.m = m \/ got = "request"

\* All that a handler of p guarantees.
Contract(p, m, c, y, got) ==
    /\ Common(p, m, y, got)
    /\ p = Ini => IniStep(m, c, y, got)
    /\ p = Tgt => TgtStep(m, c, y, got)

\* What the stanzas of a handler hold when it sends none, one or two.
LEMMA OutNone ==
    ASSUME NEW p
    PROVE  /\ Answers(p, <<>>) = 0 /\ NoAnswer(p, <<>>) /\ NoResult(p, <<>>) /\ NoRequest(<<>>)
           /\ \A s : OnlyUsed(p, <<>>, s)
<1>1. {k \in DOMAIN <<>> : <<>>[k].type # "request" /\ <<>>[k].id = p} = {}
  OBVIOUS
<1> QED BY <1>1, FS_EmptySet DEF Answers, NoAnswer, NoResult, NoRequest, OnlyUsed

\* One stanza.
LEMMA OutOne ==
    ASSUME NEW p, NEW z
    PROVE  /\ Append(<<>>, z) = <<z>>
           /\ Answers(p, <<z>>) = IF Answer(p, z) THEN 1 ELSE 0
           /\ NoAnswer(p, <<z>>) <=> ~Answer(p, z)
           /\ NoResult(p, <<z>>) <=> ~(Answer(p, z) /\ z.type = "result")
           /\ NoRequest(<<z>>) <=> ~IsRequest(z)
           /\ \A s : OnlyUsed(p, <<z>>, s) <=> (Answer(p, z) => z.type = "result" /\ z.used = s)
           /\ DOMAIN <<z>> = {1} /\ <<z>>[1] = z
<1>1. DOMAIN <<z>> = {1} /\ <<z>>[1] = z /\ Append(<<>>, z) = <<z>>
  OBVIOUS
<1> DEFINE S == {k \in DOMAIN <<z>> : <<z>>[k].type # "request" /\ <<z>>[k].id = p}
<1>2. S = IF Answer(p, z) THEN {1} ELSE {}
  BY <1>1 DEF Answer, IsRequest
<1>3. Cardinality({1}) = 1 /\ Cardinality({}) = 0
  BY FS_EmptySet, FS_Singleton
<1>4. Answers(p, <<z>>) = IF Answer(p, z) THEN 1 ELSE 0
  BY Zenon, <1>2, <1>3 DEF Answers
<1> QED BY <1>1, <1>4 DEF NoAnswer, NoResult, NoRequest, OnlyUsed

\* Two stanzas.
LEMMA OutTwo ==
    ASSUME NEW p, NEW y \in Stanza, NEW z \in Stanza, IsRequest(y)
    PROVE  /\ Append(<<y>>, z) = <<y, z>>
           /\ Answers(p, <<y, z>>) = IF Answer(p, z) THEN 1 ELSE 0
           /\ NoAnswer(p, <<y, z>>) <=> ~Answer(p, z)
           /\ DOMAIN <<y, z>> = {1, 2} /\ <<y, z>>[1] = y /\ <<y, z>>[2] = z
<1>1. DOMAIN <<y, z>> = {1, 2} /\ <<y, z>>[1] = y /\ <<y, z>>[2] = z
  OBVIOUS
<1>0. Append(<<y>>, z) = <<y, z>>
  <2> DEFINE a == Append(<<y>>, z)
             b == <<y, z>>
  <2>1. <<y>> \in Seq(Stanza) /\ Len(<<y>>) = 1 /\ <<y>>[1] = y
    OBVIOUS
  <2>2. a \in Seq(Stanza) /\ Len(a) = 2 /\ a[1] = y /\ a[2] = z
    BY <2>1
  <2>3. b \in Seq(Stanza) /\ Len(b) = 2 /\ b[1] = y /\ b[2] = z
    OBVIOUS
  <2> HIDE DEF a, b
  <2>4. \A k \in 1..Len(a) : a[k] = b[k]
    BY <2>2, <2>3
  <2>5. a = b
    BY <2>2, <2>3, <2>4, SeqEqual
  <2> QED BY <2>5 DEF a, b
<1> DEFINE S == {k \in DOMAIN <<y, z>> : <<y, z>>[k].type # "request" /\ <<y, z>>[k].id = p}
<1>2. S = IF Answer(p, z) THEN {2} ELSE {}
  BY <1>1 DEF Answer, IsRequest
<1>3. Cardinality({2}) = 1 /\ Cardinality({}) = 0
  BY FS_EmptySet, FS_Singleton
<1>4. Answers(p, <<y, z>>) = IF Answer(p, z) THEN 1 ELSE 0
  BY Zenon, <1>2, <1>3 DEF Answers
<1> QED BY <1>0, <1>1, <1>4 DEF NoAnswer, Answer

\* A handler that ends in an error, or leaves what it came from as it was.
LEMMA LeftStep ==
    ASSUME NEW p \in Peer, NEW m \in PeerState, NEW c, NEW y \in XState, NEW got,
           Left(p, y.m), ~y.bad, y.crs = c, m.con # "Idle",
           NoRequest(y.out), NoResult(Other(p), y.out),
           \/ Answers(Other(p), y.out) = 0 /\ NoAnswer(Other(p), y.out)
           \/ Answers(Other(p), y.out) = 1 /\ (Owes(p, m) \/ got = "request")
    PROVE  Contract(p, m, c, y, got)
<1>1. Local(p, y.m) /\ ~MayAsk(p, y.m) /\ ~Owes(p, y.m)
  <2>1. Local(p, y.m)
    BY LeftLocal, XFields
  <2>2. ~MayAsk(p, y.m) /\ ~Owes(p, y.m)
    BY DEF Left, MayAsk, Owes, NewItem, Pending
  <2> QED BY <2>1, <2>2
<1>2. Common(p, m, y, got)
  BY <1>1 DEF Common, PhaseStep, NoRequest, Left, NewItem
<1>3. p = Ini => IniStep(m, c, y, got)
  BY StreamFacts DEF IniStep, IniChoice, Left, NewItem, Other
<1>4. p = Tgt => TgtStep(m, c, y, got)
  BY <1>1, StreamFacts DEF TgtStep, TgtChoice, Left, NewItem, ByProxy, Other
<1> QED BY <1>2, <1>3, <1>4 DEF Contract

\* A handler that leaves the progress of the negotiation as it was.
Quiet(p, m, y, got) ==
    LET i == m.item
        j == y.m.item
    IN
    /\ SameConnection(m, y.m) /\ j.state = i.state /\ j.activated = i.activated
    /\ j.connSuccess = i.connSuccess /\ j.fast = i.fast
    /\ i.state = "Initiator" /\ (i.activated \/ i.connSuccess) => j.client = i.client
    /\ \/ /\ j.targetMode = i.targetMode
          /\ i.state = "Initiator" /\ i.targetMode = "Unknown" => got # "request"
       \/ j.targetMode = "Fast" /\ got = "request" /\ i.state = "Initiator"
       \/ /\ j.targetMode = "NotFast" /\ i.state = "Initiator"
          /\ i.targetMode = "Unknown" /\ got \in {"result", "error"}
    /\ ~j.task => ~i.task \/ got \in {"result", "error"}
    /\ ByProxy(j) => ByProxy(i) \/ (got = "result" /\ Head(net[p]).used = Proxy(p))
    /\ j.remoteFailed => i.remoteFailed \/ got = "error"

\* A quiet step, with what it sends, is what both clients guarantee.
LEMMA QuietCommon ==
    ASSUME NEW p \in Peer, NEW m \in PeerState, NEW y \in XState, NEW got,
           Quiet(p, m, y, got), Local(p, y.m), ~y.bad, NoRequest(y.out),
           \/ Answers(Other(p), y.out) = 0 /\ NoAnswer(Other(p), y.out)
              /\ (Owes(p, y.m) => Owes(p, m) \/ got = "request")
           \/ Answers(Other(p), y.out) = 1 /\ ~Owes(p, y.m)
              /\ (Owes(p, m) \/ got = "request")
    PROVE  Common(p, m, y, got)
  BY DEF Common, PhaseStep, NoRequest, MayAsk, Quiet, SameConnection

\* A quiet step keeps the whole contract, if it answers with no success.
LEMMA QuietStep ==
    ASSUME NEW p \in Peer, NEW m \in PeerState, NEW c, NEW y \in XState, NEW got,
           Quiet(p, m, y, got), Local(p, y.m), ~y.bad, y.crs = c,
           m.con = "Idle" /\ m.ended = "none" => y.m = m,
           p = Tgt /\ m.con = "Idle" /\ m.ended = "none" => Answers(Ini, y.out) = 0,
           NoRequest(y.out), NoResult(Other(p), y.out),
           \/ Answers(Other(p), y.out) = 0 /\ NoAnswer(Other(p), y.out)
              /\ (Owes(p, y.m) => Owes(p, m) \/ got = "request")
           \/ Answers(Other(p), y.out) = 1 /\ ~Owes(p, y.m)
              /\ (Owes(p, m) \/ got = "request")
              /\ (p = Ini /\ m.item.state = "Initiator" => ~m.item.connSuccess),
           m.item.state = "Active" /\ m.item.fast /\ p = Tgt => c[m.sc] = "taken"
    PROVE  Contract(p, m, c, y, got)
<1>1. Common(p, m, y, got)
  BY QuietCommon
<1> USE DEF Quiet, SameConnection
<1>2. p = Ini => IniStep(m, c, y, got)
  BY StreamFacts DEF IniStep, IniChoice, Other
<1>4. p = Tgt /\ MayAsk(p, y.m) => Answers(Other(p), y.out) = 0
  BY StreamFacts DEF MayAsk, Owes, Other
<1>3. p = Tgt => TgtStep(m, c, y, got)
  BY <1>4, StreamFacts DEF TgtStep, TgtChoice, Other
<1> QED BY <1>1, <1>2, <1>3 DEF Contract

----------------------------------------------------------------------------
(* The inductive invariant.                                                *)

\* Each client is sound.
LocalInv == \A p \in Peer : Local(p, peer[p])

\* The one answer to the request of q is still to be asked for, or on its way
\* to the other client, or owed by it, or given.
TokenOK(q) ==
    LET p == Other(q) IN
    /\ MayAsk(q, peer[q]) =>
          NoRequest(net[p]) /\ ~Owes(p, peer[p]) /\ hist.answered[q] = 0
    /\ NoRequest(net[p]) \/ (~Owes(p, peer[p]) /\ hist.answered[q] = 0)
    /\ Owes(p, peer[p]) => hist.answered[q] = 0
    /\ hist.answered[q] = 0 => NoAnswer(q, net[q])
    /\ peer[q].item.remoteFailed => hist.answered[q] = 1
    /\ \A j, k \in DOMAIN net[p] :
          IsRequest(net[p][j]) /\ IsRequest(net[p][k]) => j = k
    /\ \A k \in DOMAIN net[p] :
          IsRequest(net[p][k]) => net[p][k].id = q /\ Owned(net[p][k].hosts, q)
\* Both requests have at most one answer.
TokenInv == \A q \in Peer : TokenOK(q)

\* No CR has been written.
NoCR == \A s \in Stream : cr[s] = "none"

\* Until the initiator activates a connection no CR is written.
EarlyOK(mi, mt) ==
    LET i == mi.item
        t == mt.item
    IN
    /\ MayAsk(Ini, mi) => mt.con = "Idle" /\ mt.ended = "none"
    /\ MayAsk(Tgt, mt) => i.targetMode # "Fast" /\ NoCR
    /\ i.state = "Initiator" /\ ~i.activated => NoCR
    /\ i.state = "Active" /\ i.targetMode # "Fast" => NoCR
    /\ mt.entry = "item" /\ ~t.fast =>
          NoCR /\ NoRequest(net[Ini]) /\ i.targetMode # "Fast"

\* Who goes on with a connection has written, or taken, its CR.
WrittenOK(mi, mt) ==
    LET i == mi.item
        t == mt.item
    IN
    /\ i.state = "Initiator" /\ i.activated => cr[i.client] # "none"
    /\ i.state = "Active" /\ i.targetMode = "Fast" => cr[mi.sc] # "none"
    /\ t.state = "Active" /\ t.fast => cr[mt.sc] = "taken"

\* The answer to the target's request and the connection the initiator chose.
Confirmed(s, t) ==
    hist.answered[Tgt] = 1 /\ ~t.remoteFailed /\ OnlyUsed(Tgt, net[Tgt], s)
\* The target's request has not succeeded.
Denied(t) == NoResult(Tgt, net[Tgt]) /\ ~ByProxy(t)
\* A CR on the target's connection follows its successful request, one on the
\* initiator's the answer to its own; the two exclude each other.
AnswerOK(mi, mt) ==
    LET i == mi.item
        t == mt.item
    IN
    /\ \A s \in Stream : cr[s] # "none" /\ s.owner = Tgt => Confirmed(s, t)
    /\ i.state = "Initiator" /\ i.connSuccess => Confirmed(i.client, t)
    /\ \A s \in Stream : cr[s] # "none" /\ s.owner = Ini => hist.answered[Ini] = 1 /\ Denied(t)
    /\ i.state = "Initiator" /\ ~i.connSuccess => Denied(t)
    /\ i.state = "Initiator" /\ ~i.task /\ ~i.activated => hist.answered[Ini] = 1

\* The invariant that every step keeps.
IInv ==
    /\ TypeOK /\ ~hist.bad
    /\ LocalInv /\ TokenInv
    /\ EarlyOK(peer[Ini], peer[Tgt]) /\ WrittenOK(peer[Ini], peer[Tgt])
    /\ AnswerOK(peer[Ini], peer[Tgt])

\* What a stanza is for the request of p.
Kind(p, z) ==
    IF IsRequest(z) THEN "request" ELSE IF z.id = p THEN z.type ELSE "nothing"

\* A step of p that keeps its contract.
Move(p) ==
    \E y, queue, got :
        /\ Contract(p, peer[p], cr, y, got)
        /\ Commit(p, y, queue)
        /\ \/ queue = net /\ got = "nothing"
           \/ net[p] # <<>> /\ queue = Popped(p) /\ got = Kind(p, Head(net[p]))

\* Every handler starts from a sound client.
LEMMA StartIs ==
    ASSUME IInv, NEW p \in Peer
    PROVE  LET x == Start(p)
           IN  /\ x \in XState /\ x.m = peer[p] /\ x.out = <<>> /\ x.crs = cr
               /\ x.bad = FALSE /\ x.early = FALSE /\ x.broke = FALSE
               /\ peer[p] \in PeerState /\ Local(p, peer[p])
               /\ Owned(peer[p].req.hosts, Other(p)) /\ ~x.bad
<1>1. peer[p] \in PeerState /\ cr \in [Stream -> CRs] /\ <<>> \in Seq(Stanza) /\ Local(p, peer[p])
  BY DEF IInv, TypeOK, CRs, LocalInv
<1>2. Owned(peer[p].req.hosts, Other(p))
  BY <1>1 DEF Local, PlaceOK
<1> QED BY <1>1, <1>2 DEF Start, XState

\* Closing, losing or failing the connection.
LEMMA LeaveMoves ==
    ASSUME IInv, NEW p \in Peer, peer[p].con # "Idle", NEW y \in XState,
           Left(p, y.m), y.crs = cr, ~y.bad,
           NoRequest(y.out), NoResult(Other(p), y.out),
           \/ Answers(Other(p), y.out) = 0 /\ NoAnswer(Other(p), y.out)
           \/ Answers(Other(p), y.out) = 1 /\ Owes(p, peer[p]),
           Commit(p, y, net)
    PROVE  Move(p)
<1>1. peer[p] \in PeerState
  BY StartIs
<1>2. Contract(p, peer[p], cr, y, "nothing")
  BY <1>1, LeftStep
<1> QED BY <1>2 DEF Move

\* What a client that leaves starts from.
LEMMA GoneStart ==
    ASSUME IInv, NEW p \in Peer, NEW why \in Ended \ {"none"}
    PROVE  LET g == Gone(Start(p), why)
           IN  /\ g \in XState /\ g.crs = cr /\ ~g.bad /\ Left(p, g.m) /\ g.out = <<>>
               /\ g.m.ended = why
<1> DEFINE x == Start(p)
<1>1. /\ x \in XState /\ x.m = peer[p] /\ x.out = <<>> /\ x.crs = cr
      /\ ~x.bad /\ Owned(peer[p].req.hosts, Other(p))
  BY StartIs
<1> HIDE DEF x
<1>2. LET y == Fail(x, why)
      IN  y \in XState /\ SameRest(x, y) /\ Left(p, y.m) /\ y.m.ended = why
  BY <1>1, FailIs
<1> QED BY <1>1, <1>2 DEF SameRest, x, Fail

\* The same, with stanzas to the other client.
LEMMA GoneSending ==
    ASSUME IInv, NEW p \in Peer, NEW why \in Ended \ {"none"},
           NEW stanzas \in Seq(Stanza)
    PROVE  LET y == [Gone(Start(p), why) EXCEPT !.out = stanzas]
           IN  y \in XState /\ y.crs = cr /\ ~y.bad /\ Left(p, y.m) /\ y.out = stanzas
               /\ y.m.ended = why
<1> DEFINE g == Gone(Start(p), why)
<1>1. g \in XState /\ g.crs = cr /\ ~g.bad /\ Left(p, g.m) /\ g.m.ended = why
  BY GoneStart
<1> HIDE DEF g
<1>2. LET y == [g EXCEPT !.out = stanzas]
      IN  y \in XState /\ y.crs = cr /\ ~y.bad /\ Left(p, y.m) /\ y.out = stanzas
          /\ y.m.ended = why
  BY <1>1 DEF XState
<1> QED BY <1>2 DEF g

\* The stanzas that cancel a request answer nothing.
LEMMA CancelIs ==
    ASSUME IInv, NEW p \in Peer
    PROVE  LET z == CancelStanzas(p)
           IN  /\ z \in Seq(Stanza) /\ NoRequest(z) /\ NoResult(Other(p), z)
               /\ Answers(Other(p), z) = 0 /\ NoAnswer(Other(p), z)
<1> DEFINE z == RespondError(peer[p].item.outId, 406)
<1>1. peer[p] \in PeerState /\ peer[p].item.outId \in {NoId, p} /\ peer[p].item.outId \in ReqId
  <2>1. peer[p] \in PeerState /\ Local(p, peer[p])
    BY StartIs
  <2>2. peer[p].item.outId \in {NoId, p}
    BY <2>1 DEF Local, TaskOK
  <2> QED BY <2>1, <2>2 DEF ReqId
<1>2. z \in Stanza /\ z.type = "error" /\ z.id = peer[p].item.outId
  BY <1>1, AnswerTypes DEF RespondError
<1>3. ~IsRequest(z) /\ ~Answer(Other(p), z)
  BY <1>1, <1>2, PeerAssumption, StreamFacts DEF IsRequest, Answer
<1> HIDE DEF z
<1>4. <<>> \in Seq(Stanza) /\ <<z>> \in Seq(Stanza)
  BY <1>2
<1>5. /\ NoRequest(<<z>>) /\ NoResult(Other(p), <<z>>)
      /\ Answers(Other(p), <<z>>) = 0 /\ NoAnswer(Other(p), <<z>>)
  BY <1>2, <1>3, OutOne
<1> QED BY <1>4, <1>5, OutNone DEF CancelStanzas, z

\* Unlinking the entry makes the client leave.
LEMMA UnlinkIs ==
    ASSUME IInv, NEW p \in Peer, NEW why \in Ended \ {"none"}
    PROVE  LET y == Unlink(p, why)
           IN  /\ y \in XState /\ y.crs = cr /\ ~y.bad /\ Left(p, y.m)
               /\ NoRequest(y.out) /\ NoResult(Other(p), y.out) /\ y.m.ended = why
               /\ Answers(Other(p), y.out) = 0 /\ NoAnswer(Other(p), y.out)
<1> DEFINE z == CancelStanzas(p)
<1>1. /\ z \in Seq(Stanza) /\ NoRequest(z) /\ NoResult(Other(p), z)
      /\ Answers(Other(p), z) = 0 /\ NoAnswer(Other(p), z)
  BY CancelIs
<1> HIDE DEF z
<1>2. LET y == [Gone(Start(p), why) EXCEPT !.out = z]
      IN  y \in XState /\ y.crs = cr /\ ~y.bad /\ Left(p, y.m) /\ y.out = z /\ y.m.ended = why
  BY <1>1, GoneSending
<1> QED BY <1>1, <1>2 DEF Unlink, z

\* close() keeps its contract.
LEMMA CloseMoves ==
    ASSUME IInv, NEW p \in Peer, Close(p)
    PROVE  Move(p)
<1>0. peer[p].con # "Idle" /\ "user" \in Ended \ {"none"}
  BY DEF Close, Ended
<1>1. CASE peer[p].con = "WaitingForAccept"
  <2> DEFINE z == RespondError(Other(p), 406)
             w == <<z>>
             y == [Gone(Start(p), "user") EXCEPT !.out = w]
  <2>1. z \in Stanza /\ z.type = "error" /\ ~IsRequest(z)
    BY AnswerTypes, StreamFacts DEF RespondError, IsRequest, ReqId
  <2>4. Commit(p, y, net)
    BY <1>1 DEF Close
  <2> HIDE DEF z
  <2>2. /\ NoRequest(w) /\ NoResult(Other(p), w) /\ w \in Seq(Stanza)
        /\ \/ Answers(Other(p), w) = 0 /\ NoAnswer(Other(p), w)
           \/ Answers(Other(p), w) = 1 /\ Owes(p, peer[p])
    BY <1>1, <2>1, OutOne DEF Owes
  <2> HIDE DEF w
  <2>3. /\ y \in XState /\ y.crs = cr /\ ~y.bad /\ Left(p, y.m) /\ y.out = w
    BY <1>0, <2>2, GoneSending
  <2> HIDE DEF y
  <2> QED BY <1>0, <2>2, <2>3, <2>4, LeaveMoves
<1>2. CASE peer[p].con # "WaitingForAccept"
  <2>1. Commit(p, Unlink(p, "user"), net)
    BY <1>2 DEF Close
  <2> QED BY <1>0, <2>1, UnlinkIs, LeaveMoves
<1> QED BY <1>1, <1>2

\* Hearing that the other end of the connection is closed keeps the contract.
LEMMA ConnectionClosedMoves ==
    ASSUME IInv, NEW p \in Peer, ConnectionClosed(p)
    PROVE  Move(p)
<1>1. peer[p].con # "Idle" /\ "closed" \in Ended \ {"none"} /\ Commit(p, Unlink(p, "closed"), net)
  BY DEF ConnectionClosed, Ended
<1> QED BY <1>1, UnlinkIs, LeaveMoves

\* The loss of the connection keeps the contract.
LEMMA BreaksMoves ==
    ASSUME IInv, NEW p \in Peer, NEW s \in Stream, Breaks(p, s)
    PROVE  Move(p)
<1> DEFINE i == peer[p].item
           x == IF s \in {i.client, i.clientOut} THEN Fail(Start(p), "connect")
                ELSE IF s = peer[p].sc THEN Unlink(p, "socket")
                ELSE Drop(Start(p), s)
           y == [x EXCEPT !.broke = TRUE]
<1>1. Commit(p, y, net) /\ peer[p].end[s] = "open"
  BY DEF Breaks
<1>2. s \in {peer[p].sc, i.client, i.clientOut} /\ peer[p].con # "Idle"
  <2>1. Local(p, peer[p])
    BY StartIs
  <2>2. s \in {peer[p].sc, i.client, i.clientOut}
    BY <1>1, <2>1 DEF Local, SocketsOK, EndsOK
  <2>3. peer[p].con # "Idle"
    BY <2>1, <2>2, StreamFacts DEF Local, PlaceOK, NewItem
  <2> QED BY <2>2, <2>3
<1>3. /\ x \in XState /\ x.crs = cr /\ ~x.bad /\ Left(p, x.m)
      /\ NoRequest(x.out) /\ NoResult(Other(p), x.out)
      /\ Answers(Other(p), x.out) = 0 /\ NoAnswer(Other(p), x.out)
  <2>1. "connect" \in Ended \ {"none"} /\ "socket" \in Ended \ {"none"}
    BY DEF Ended
  <2>2. CASE s \in {i.client, i.clientOut}
    BY <2>1, <2>2, GoneStart, OutNone DEF Fail
  <2>3. CASE s \notin {i.client, i.clientOut} /\ s = peer[p].sc
    BY <2>1, <2>3, UnlinkIs
  <2> QED BY <1>2, <2>2, <2>3
<1> HIDE DEF x
<1>4. /\ y \in XState /\ y.crs = cr /\ ~y.bad /\ y.m = x.m /\ y.out = x.out
  BY <1>3 DEF XState
<1> HIDE DEF y
<1> QED BY <1>1, <1>2, <1>3, <1>4, LeaveMoves

----------------------------------------------------------------------------
(* A step that keeps its contract keeps the invariant.                     *)

\* Joining two queues of stanzas.
LEMMA Joining ==
    ASSUME NEW a \in Seq(Stanza), NEW b \in Seq(Stanza)
    PROVE  /\ a \o b \in Seq(Stanza)
           /\ NoRequest(a \o b) <=> NoRequest(a) /\ NoRequest(b)
           /\ \A p : NoAnswer(p, a \o b) <=> NoAnswer(p, a) /\ NoAnswer(p, b)
           /\ \A p : NoResult(p, a \o b) <=> NoResult(p, a) /\ NoResult(p, b)
           /\ \A p, s : OnlyUsed(p, a \o b, s) <=> OnlyUsed(p, a, s) /\ OnlyUsed(p, b, s)
           /\ \A k \in DOMAIN (a \o b) :
                 \/ k \in DOMAIN a /\ (a \o b)[k] = a[k]
                 \/ \E j \in DOMAIN b : k = Len(a) + j /\ (a \o b)[k] = b[j]
<1> DEFINE c == a \o b
<1>1. c \in Seq(Stanza) /\ Len(a) \in Nat /\ Len(b) \in Nat
  OBVIOUS
<1>2. \A k \in DOMAIN a : k \in DOMAIN c /\ c[k] = a[k]
  OBVIOUS
<1>3. \A j \in DOMAIN b : Len(a) + j \in DOMAIN c /\ c[Len(a) + j] = b[j]
  OBVIOUS
<1>4. \A k \in DOMAIN c : \/ k \in DOMAIN a /\ c[k] = a[k]
                          \/ \E j \in DOMAIN b : k = Len(a) + j /\ c[k] = b[j]
  <2> TAKE k \in DOMAIN c
  <2>1. k \in 1..(Len(a) + Len(b))
    OBVIOUS
  <2>2. CASE k <= Len(a)
    BY <2>1, <2>2
  <2>3. CASE k > Len(a)
    <3>1. k - Len(a) \in DOMAIN b /\ k = Len(a) + (k - Len(a))
      BY <2>1, <2>3
    <3> QED BY <3>1, <1>3
  <2> QED BY <2>1, <2>2, <2>3
<1> HIDE DEF c
<1>5. NoRequest(c) <=> NoRequest(a) /\ NoRequest(b)
  BY <1>2, <1>3, <1>4 DEF NoRequest
<1>6. \A p : NoAnswer(p, c) <=> NoAnswer(p, a) /\ NoAnswer(p, b)
  BY <1>2, <1>3, <1>4 DEF NoAnswer
<1>7. \A p : NoResult(p, c) <=> NoResult(p, a) /\ NoResult(p, b)
  BY <1>2, <1>3, <1>4 DEF NoResult
<1>8. \A p, s : OnlyUsed(p, c, s) <=> OnlyUsed(p, a, s) /\ OnlyUsed(p, b, s)
  BY <1>2, <1>3, <1>4 DEF OnlyUsed
<1> QED BY <1>1, <1>4, <1>5, <1>6, <1>7, <1>8 DEF c

\* Taking the first stanza of a queue.
LEMMA Taking ==
    ASSUME NEW a \in Seq(Stanza), a # <<>>
    PROVE  /\ Tail(a) \in Seq(Stanza) /\ Head(a) \in Stanza
           /\ 1 \in DOMAIN a /\ Head(a) = a[1]
           /\ \A k \in DOMAIN Tail(a) : k + 1 \in DOMAIN a /\ k + 1 # 1 /\ Tail(a)[k] = a[k + 1]
           /\ NoRequest(a) => NoRequest(Tail(a)) /\ ~IsRequest(Head(a))
           /\ \A p : NoAnswer(p, a) => NoAnswer(p, Tail(a)) /\ ~Answer(p, Head(a))
           /\ \A p : NoResult(p, a) => NoResult(p, Tail(a))
                                       /\ ~(Answer(p, Head(a)) /\ Head(a).type = "result")
           /\ \A p, s : OnlyUsed(p, a, s) => OnlyUsed(p, Tail(a), s)
                          /\ (Answer(p, Head(a)) => Head(a).type = "result" /\ Head(a).used = s)
<1> DEFINE t == Tail(a)
           h == Head(a)
<1>1. t \in Seq(Stanza) /\ h \in Stanza /\ 1 \in DOMAIN a /\ h = a[1]
  OBVIOUS
<1>2. \A k \in DOMAIN t : k + 1 \in DOMAIN a /\ k + 1 # 1 /\ t[k] = a[k + 1]
  OBVIOUS
<1> HIDE DEF t, h
<1>3. NoRequest(a) => NoRequest(t) /\ ~IsRequest(h)
  BY <1>1, <1>2 DEF NoRequest
<1>4. \A p : NoAnswer(p, a) => NoAnswer(p, t) /\ ~Answer(p, h)
  BY <1>1, <1>2 DEF NoAnswer
<1>5. \A p : NoResult(p, a) => NoResult(p, t) /\ ~(Answer(p, h) /\ h.type = "result")
  BY <1>1, <1>2 DEF NoResult
<1>6. \A p, s : OnlyUsed(p, a, s) => OnlyUsed(p, t, s)
                          /\ (Answer(p, h) => h.type = "result" /\ h.used = s)
  BY <1>1, <1>2 DEF OnlyUsed
<1> QED BY <1>1, <1>2, <1>3, <1>4, <1>5, <1>6 DEF t, h

\* The connection chosen after a handler of p that ends in the state y.
Chosen(p, y) ==
    IF hist.chosen # NoStream \/ Picked(p, y) = {} THEN hist.chosen
    ELSE CHOOSE s \in Picked(p, y) : TRUE

\* What a handler's commit leaves, if it answers at most once.
LEMMA CommitIs ==
    ASSUME TypeOK, NEW p \in Peer, NEW y \in XState, NEW queue \in [Peer -> Seq(Stanza)],
           Commit(p, y, queue), ~y.bad, ~hist.bad,
           Answers(Other(p), y.out) \in {0, 1},
           hist.answered[Other(p)] = 1 => Answers(Other(p), y.out) = 0
    PROVE  /\ TypeOK' /\ ~hist'.bad /\ hist'.chosen = Chosen(p, y)
           /\ peer'[p] = y.m /\ peer'[Other(p)] = peer[Other(p)] /\ cr' = y.crs
           /\ net'[p] = queue[p] /\ net'[Other(p)] = queue[Other(p)] \o y.out
           /\ hist'.answered[p] = hist.answered[p]
           /\ hist'.answered[Other(p)] = hist.answered[Other(p)] + Answers(Other(p), y.out)
<1> DEFINE q == Other(p)
           n == Answers(q, y.out)
<1>1. q \in Peer /\ p # q
  BY StreamFacts
<1>2. /\ peer \in [Peer -> PeerState] /\ hist \in History /\ y.m \in PeerState
      /\ y.out \in Seq(Stanza) /\ y.crs \in [Stream -> CRs] /\ y.early \in BOOLEAN
  BY DEF TypeOK, XState
<1>3. peer' = [peer EXCEPT ![p] = y.m]
  BY DEF Commit
<1>4. net' = [queue EXCEPT ![q] = queue[q] \o y.out]
  BY DEF Commit
<1>5. cr' = y.crs /\ server' = server /\ hasProxy' = hasProxy
  BY DEF Commit
<1>6. n \in {0, 1} /\ (hist.answered[q] = 1 => n = 0)
  OBVIOUS
<1>7. \A S \in SUBSET Stream : S # {} => (CHOOSE s \in S : TRUE) \in Stream
  OBVIOUS
<1>8. Picked(p, y) \in SUBSET Stream
  BY DEF Picked
<1> DEFINE a == [hist.answered EXCEPT ![q] = hist.answered[q] + n]
           b == hist.early \/ y.early
           c == hist.bad \/ y.bad
           d == IF hist.chosen # NoStream \/ Picked(p, y) = {} THEN hist.chosen
                ELSE CHOOSE s \in Picked(p, y) : TRUE
           e == IF y.broke THEN hist.breaks + 1 ELSE hist.breaks
           f == hist.lostGrant \/ \E s \in Stream :
                   /\ peer[p].end[s] = "dialing" /\ y.m.end[s] # "open"
                   /\ peer[q].end[s] # "none"
<1>9. /\ hist' = [hist EXCEPT !.answered = a, !.early = b, !.bad = c, !.chosen = d,
                              !.breaks = e, !.lostGrant = f]
      /\ d \in Stream \cup {NoStream} /\ b \in BOOLEAN /\ f \in BOOLEAN
      /\ e \in Nat /\ c = FALSE /\ a \in [Peer -> 0..1]
      /\ a[p] = hist.answered[p] /\ a[q] = hist.answered[q] + n
  <2>1. hist' = [hist EXCEPT !.answered = a, !.early = b, !.bad = c, !.chosen = d,
                             !.breaks = e, !.lostGrant = f]
    BY Zenon DEF Commit
  <2>2. d \in Stream \cup {NoStream}
    BY <1>2, <1>7, <1>8 DEF History
  <2>3. b \in BOOLEAN /\ f \in BOOLEAN /\ e \in Nat /\ c = FALSE
    BY <1>2 DEF History
  <2>4. /\ a \in [Peer -> 0..1] /\ a[p] = hist.answered[p]
        /\ a[q] = hist.answered[q] + n
    <3> HIDE DEF n, q
    <3> QED BY <1>1, <1>2, <1>6 DEF History
  <2> HIDE DEF a, b, c, d, e, f
  <2> QED BY <2>1, <2>2, <2>3, <2>4
<1>10. hist'.answered = a /\ ~hist'.bad /\ hist' \in History /\ hist'.chosen = Chosen(p, y)
  <2>1. d = Chosen(p, y)
    BY DEF Chosen
  <2> HIDE DEF a, b, c, d, e, f
  <2> QED BY <1>2, <1>9, <2>1 DEF History
<1>11. net' \in [Peer -> Seq(Stanza)] /\ net'[p] = queue[p] /\ net'[q] = queue[q] \o y.out
  BY <1>1, <1>2, <1>4
<1>12. TypeOK'
  BY <1>1, <1>2, <1>3, <1>5, <1>10, <1>11 DEF TypeOK, CRs
<1>13. hist'.answered[p] = hist.answered[p] /\ hist'.answered[q] = hist.answered[q] + n
  BY <1>9, <1>10
<1> QED BY <1>1, <1>2, <1>3, <1>5, <1>10, <1>11, <1>12, <1>13

\* What a step takes from the stanzas to p, and what it leaves there.
Taken(p, got) ==
    /\ NoRequest(net[p]) => NoRequest(net'[p]) /\ got # "request"
    /\ got = "request" => NoRequest(net'[p])
    /\ got \in {"result", "error"} => hist.answered[p] = 1
    /\ \A r : NoAnswer(r, net[p]) => NoAnswer(r, net'[p])
    /\ \A r : NoResult(r, net[p]) => NoResult(r, net'[p])
    /\ \A r, s : OnlyUsed(r, net[p], s) => OnlyUsed(r, net'[p], s)
    /\ NoResult(p, net[p]) => got # "result"
    /\ \A s : OnlyUsed(p, net[p], s) => got # "error"
    /\ \A j, k \in DOMAIN net'[p] :
          IsRequest(net'[p][j]) /\ IsRequest(net'[p][k]) => j = k
    /\ \A k \in DOMAIN net'[p] :
          IsRequest(net'[p][k]) => net'[p][k].id = Other(p) /\ Owned(net'[p][k].hosts, Other(p))

\* The queue of p after the step.
Takes(p, got) ==
    \/ net'[p] = net[p] /\ got = "nothing"
    \/ net[p] # <<>> /\ net'[p] = Tail(net[p]) /\ got = Kind(p, Head(net[p]))

\* A move in the terms of the next state, without the handler.
Step(p, y, got) ==
    LET q == Other(p) IN
    /\ Contract(p, peer[p], cr, y, got) /\ Taken(p, got) /\ Takes(p, got)
    /\ TypeOK' /\ ~hist'.bad /\ hist'.chosen = Chosen(p, y)
    /\ peer'[p] = y.m /\ peer'[q] = peer[q] /\ cr' = y.crs
    /\ net'[q] = net[q] \o y.out
    /\ hist'.answered[p] = hist.answered[p]
    /\ hist'.answered[q] = hist.answered[q] + Answers(q, y.out)

\* What is taken from the net is a request, the one answer, or of no matter.
LEMMA TakenIs ==
    ASSUME TypeOK, TokenInv, NEW p \in Peer, NEW got,
           \/ net'[p] = net[p] /\ got = "nothing"
           \/ net[p] # <<>> /\ net'[p] = Tail(net[p]) /\ got = Kind(p, Head(net[p]))
    PROVE  Taken(p, got)
<1> DEFINE a == net[p]
           q == Other(p)
<1>1. a \in Seq(Stanza) /\ hist.answered[p] \in {0, 1} /\ q \in Peer /\ Other(q) = p
  BY StreamFacts DEF TypeOK, History
<1>2. hist.answered[p] = 0 => NoAnswer(p, a)
  BY DEF TokenInv, TokenOK
<1>3. /\ \A j, k \in DOMAIN a : IsRequest(a[j]) /\ IsRequest(a[k]) => j = k
      /\ \A k \in DOMAIN a : IsRequest(a[k]) => a[k].id = q /\ Owned(a[k].hosts, q)
  BY <1>1 DEF TokenInv, TokenOK
<1>4. CASE net'[p] = a /\ got = "nothing"
  BY <1>3, <1>4 DEF Taken
<1>5. CASE a # <<>> /\ net'[p] = Tail(a) /\ got = Kind(p, Head(a))
  <2> DEFINE t == Tail(a)
             h == Head(a)
  <2> HIDE DEF a
  <2>1. /\ h \in Stanza /\ 1 \in DOMAIN a /\ h = a[1]
        /\ \A k \in DOMAIN t : k + 1 \in DOMAIN a /\ k + 1 # 1 /\ t[k] = a[k + 1]
        /\ NoRequest(a) => NoRequest(t) /\ ~IsRequest(h)
        /\ \A r : NoAnswer(r, a) => NoAnswer(r, t) /\ ~Answer(r, h)
        /\ \A r : NoResult(r, a) => NoResult(r, t) /\ ~(Answer(r, h) /\ h.type = "result")
        /\ \A r, s : OnlyUsed(r, a, s) => OnlyUsed(r, t, s)
                       /\ (Answer(r, h) => h.type = "result" /\ h.used = s)
    BY <1>1, <1>5, Taking
  <2>a. \A k \in DOMAIN t : k \in Nat
    BY <1>1, <1>5
  <2>2. h.type \in {"request", "result", "error"}
    BY <2>1 DEF Stanza
  <2>3. got = IF h.type = "request" THEN "request" ELSE IF h.id = p THEN h.type ELSE "nothing"
    BY <1>5 DEF Kind, IsRequest, h
  <2> HIDE DEF t, h
  <2>4. NoRequest(a) => NoRequest(t) /\ got # "request"
    BY <2>1, <2>2, <2>3 DEF IsRequest
  <2>5. got = "request" => NoRequest(t)
    BY <1>3, <2>1, <2>2, <2>3 DEF IsRequest, NoRequest
  <2>6. got \in {"result", "error"} => hist.answered[p] = 1
    BY <1>1, <1>2, <2>1, <2>2, <2>3 DEF Answer, IsRequest
  <2>7. NoResult(p, a) => got # "result"
    BY <2>1, <2>2, <2>3 DEF Answer, IsRequest
  <2>8. \A s : OnlyUsed(p, a, s) => got # "error"
    BY <2>1, <2>2, <2>3 DEF Answer, IsRequest
  <2>9. \A j, k \in DOMAIN t : IsRequest(t[j]) /\ IsRequest(t[k]) => j = k
    BY <1>3, <2>1, <2>a
  <2>10. \A k \in DOMAIN t : IsRequest(t[k]) => t[k].id = q /\ Owned(t[k].hosts, q)
    BY <1>3, <2>1
  <2>11. net'[p] = t /\ net[p] = a
    BY <1>5 DEF t, a
  <2> QED BY <2>1, <2>4, <2>5, <2>6, <2>7, <2>8, <2>9, <2>10, <2>11 DEF Taken
<1> QED BY <1>4, <1>5

\* Every move is such a step.
LEMMA MoveIs ==
    ASSUME IInv, NEW p \in Peer, Move(p)
    PROVE  \E y, got : Step(p, y, got)
<1> DEFINE q == Other(p)
<1>1. PICK y, queue, got :
        /\ Contract(p, peer[p], cr, y, got)
        /\ Commit(p, y, queue)
        /\ \/ queue = net /\ got = "nothing"
           \/ net[p] # <<>> /\ queue = Popped(p) /\ got = Kind(p, Head(net[p]))
  BY DEF Move
<1>2. /\ y \in XState /\ ~y.bad
      /\ \/ Answers(q, y.out) = 0
         \/ Answers(q, y.out) = 1 /\ (Owes(p, peer[p]) \/ got = "request")
  BY <1>1 DEF Contract, Common
<1>3. net \in [Peer -> Seq(Stanza)] /\ TypeOK /\ ~hist.bad /\ TokenInv
  BY DEF IInv, TypeOK
<1>4. q \in Peer /\ p # q /\ Other(q) = p
  BY StreamFacts
<1>5. /\ queue \in [Peer -> Seq(Stanza)] /\ queue[q] = net[q]
      /\ \/ queue[p] = net[p] /\ got = "nothing"
         \/ net[p] # <<>> /\ queue[p] = Tail(net[p]) /\ got = Kind(p, Head(net[p]))
  <2>1. net[p] # <<>> => Tail(net[p]) \in Seq(Stanza)
    BY <1>3
  <2> QED BY <1>1, <1>3, <1>4, <2>1 DEF Popped
<1>6. got = "request" => ~NoRequest(net[p])
  <2> SUFFICES ASSUME got = "request"
               PROVE  ~NoRequest(net[p])
    OBVIOUS
  <2>1. net[p] # <<>> /\ IsRequest(Head(net[p])) /\ net[p] \in Seq(Stanza)
    <3>1. net[p] # <<>> /\ Kind(p, Head(net[p])) = "request" /\ Head(net[p]) \in Stanza
      BY <1>3, <1>5
    <3> QED BY <1>3, <3>1 DEF Kind, IsRequest
  <2> QED BY <2>1, Taking
<1>7. hist.answered[q] = 1 => Answers(q, y.out) = 0
  <2>1. TokenOK(q)
    BY <1>3, <1>4 DEF TokenInv
  <2> QED BY <1>2, <1>4, <1>6, <2>1 DEF TokenOK
<1>8. /\ TypeOK' /\ ~hist'.bad /\ hist'.chosen = Chosen(p, y)
      /\ peer'[p] = y.m /\ peer'[q] = peer[q] /\ cr' = y.crs
      /\ net'[p] = queue[p] /\ net'[q] = queue[q] \o y.out
      /\ hist'.answered[p] = hist.answered[p]
      /\ hist'.answered[q] = hist.answered[q] + Answers(q, y.out)
  BY <1>1, <1>2, <1>3, <1>5, <1>7, CommitIs
<1>9. Taken(p, got)
  BY <1>3, <1>5, <1>8, TakenIs
<1>11. Takes(p, got)
  BY <1>5, <1>8 DEF Takes
<1>10. Step(p, y, got)
  BY <1>1, <1>5, <1>8, <1>9, <1>11 DEF Step
<1> QED BY <1>10

\* The request of p, which may be made in the step.
LEMMA OwnToken ==
    ASSUME IInv, NEW p \in Peer, NEW y, NEW got, Step(p, y, got)
    PROVE  TokenOK(p)'
<1> DEFINE q == Other(p)
           a == net[q]
           b == y.out
<1>0. q \in Peer /\ p # q /\ Other(q) = p /\ a \in Seq(Stanza)
  BY StreamFacts DEF IInv, TypeOK
<1>1. /\ MayAsk(p, peer[p]) => NoRequest(a) /\ ~Owes(q, peer[q]) /\ hist.answered[p] = 0
      /\ NoRequest(a) \/ (~Owes(q, peer[q]) /\ hist.answered[p] = 0)
      /\ Owes(q, peer[q]) => hist.answered[p] = 0
      /\ hist.answered[p] = 0 => NoAnswer(p, net[p])
      /\ peer[p].item.remoteFailed => hist.answered[p] = 1
      /\ \A j, k \in DOMAIN a : IsRequest(a[j]) /\ IsRequest(a[k]) => j = k
      /\ \A k \in DOMAIN a : IsRequest(a[k]) => a[k].id = p /\ Owned(a[k].hosts, p)
  BY DEF IInv, TokenInv, TokenOK
<1>2. /\ b \in Seq(Stanza)
      /\ MayAsk(p, y.m) => MayAsk(p, peer[p])
      /\ y.m.item.remoteFailed => peer[p].item.remoteFailed \/ got = "error"
      /\ \A k \in DOMAIN b : IsRequest(b[k]) =>
           k = 1 /\ MayAsk(p, peer[p]) /\ ~MayAsk(p, y.m) /\ b[k].id = p /\ Owned(b[k].hosts, p)
  BY DEF Step, Contract, Common, XState
<1>3. /\ peer'[p] = y.m /\ peer'[q] = peer[q] /\ net'[q] = a \o b
      /\ hist'.answered[p] = hist.answered[p]
      /\ got = "error" => hist.answered[p] = 1
      /\ NoAnswer(p, net[p]) => NoAnswer(p, net'[p])
  BY DEF Step, Taken
<1> DEFINE c == a \o b
<1>4. /\ NoRequest(c) <=> NoRequest(a) /\ NoRequest(b)
      /\ \A k \in DOMAIN c : \/ k \in DOMAIN a /\ c[k] = a[k]
                             \/ \E j \in DOMAIN b : k = Len(a) + j /\ c[k] = b[j]
  BY <1>0, <1>2, Joining
<1>5. net'[q] = c
  BY <1>3
<1>6. NoRequest(b) \/ (MayAsk(p, peer[p]) /\ ~MayAsk(p, y.m))
  BY <1>2 DEF NoRequest
<1> HIDE DEF a, b, c, q
<1>7. \A k \in DOMAIN c : IsRequest(c[k]) => c[k].id = p /\ Owned(c[k].hosts, p)
  BY <1>1, <1>2, <1>4
<1>8. \A j, k \in DOMAIN c : IsRequest(c[j]) /\ IsRequest(c[k]) => j = k
  <2>1. CASE NoRequest(a)
    BY <1>2, <1>4, <2>1 DEF NoRequest
  <2>2. CASE ~NoRequest(a)
    <3>1. NoRequest(b)
      BY <1>1, <1>2, <2>2 DEF NoRequest
    <3> QED BY <1>1, <1>4, <3>1 DEF NoRequest
  <2> QED BY <2>1, <2>2
<1>9. /\ MayAsk(p, peer'[p]) => NoRequest(c) /\ ~Owes(q, peer'[q]) /\ hist'.answered[p] = 0
      /\ NoRequest(c) \/ (~Owes(q, peer'[q]) /\ hist'.answered[p] = 0)
      /\ Owes(q, peer'[q]) => hist'.answered[p] = 0
      /\ hist'.answered[p] = 0 => NoAnswer(p, net'[p])
      /\ peer'[p].item.remoteFailed => hist'.answered[p] = 1
  BY <1>1, <1>2, <1>3, <1>4, <1>6
<1> QED BY <1>5, <1>7, <1>8, <1>9 DEF TokenOK, q

\* The request of the other client, which p may take or answer in the step.
LEMMA OtherToken ==
    ASSUME IInv, NEW p \in Peer, NEW y, NEW got, Step(p, y, got)
    PROVE  TokenOK(Other(p))'
<1> DEFINE q == Other(p)
           b == y.out
<1>0. q \in Peer /\ p # q /\ Other(q) = p /\ net[q] \in Seq(Stanza) /\ hist.answered[q] \in {0, 1}
  BY StreamFacts DEF IInv, TypeOK, History
<1>1. /\ MayAsk(q, peer[q]) => NoRequest(net[p]) /\ ~Owes(p, peer[p]) /\ hist.answered[q] = 0
      /\ NoRequest(net[p]) \/ (~Owes(p, peer[p]) /\ hist.answered[q] = 0)
      /\ Owes(p, peer[p]) => hist.answered[q] = 0
      /\ hist.answered[q] = 0 => NoAnswer(q, net[q])
      /\ peer[q].item.remoteFailed => hist.answered[q] = 1
  BY <1>0 DEF IInv, TokenInv, TokenOK
<1>2. /\ b \in Seq(Stanza)
      /\ Owes(p, y.m) => Owes(p, peer[p]) \/ got = "request"
      /\ \/ Answers(q, b) = 0 /\ NoAnswer(q, b)
         \/ Answers(q, b) = 1 /\ ~Owes(p, y.m) /\ (Owes(p, peer[p]) \/ got = "request")
  BY DEF Step, Contract, Common, XState
<1>3. /\ peer'[p] = y.m /\ peer'[q] = peer[q] /\ net'[q] = net[q] \o b
      /\ hist'.answered[q] = hist.answered[q] + Answers(q, b)
      /\ NoRequest(net[p]) => NoRequest(net'[p]) /\ got # "request"
      /\ got = "request" => NoRequest(net'[p])
      /\ \A j, k \in DOMAIN net'[p] : IsRequest(net'[p][j]) /\ IsRequest(net'[p][k]) => j = k
      /\ \A k \in DOMAIN net'[p] :
           IsRequest(net'[p][k]) => net'[p][k].id = q /\ Owned(net'[p][k].hosts, q)
  BY DEF Step, Taken
<1>4. NoAnswer(q, net[q] \o b) <=> NoAnswer(q, net[q]) /\ NoAnswer(q, b)
  BY <1>0, <1>2, Joining
<1> HIDE DEF b, q
<1>5. /\ MayAsk(q, peer'[q]) => NoRequest(net'[p]) /\ ~Owes(p, peer'[p]) /\ hist'.answered[q] = 0
      /\ NoRequest(net'[p]) \/ (~Owes(p, peer'[p]) /\ hist'.answered[q] = 0)
      /\ Owes(p, peer'[p]) => hist'.answered[q] = 0
      /\ hist'.answered[q] = 0 => NoAnswer(q, net'[q])
      /\ peer'[q].item.remoteFailed => hist'.answered[q] = 1
  BY <1>0, <1>1, <1>2, <1>3, <1>4
<1> QED BY <1>0, <1>3, <1>5 DEF TokenOK, q

\* A step of the initiator keeps what relates the two clients.
LEMMA IniKeeps ==
    ASSUME IInv, NEW y, NEW got, Step(Ini, y, got)
    PROVE  /\ EarlyOK(peer[Ini], peer[Tgt])' /\ WrittenOK(peer[Ini], peer[Tgt])'
           /\ AnswerOK(peer[Ini], peer[Tgt])'
<1> DEFINE m == peer[Ini]
           i == m.item
           j == y.m.item
           t == peer[Tgt].item
           b == y.out
<1>0. Ini \in Peer /\ Tgt \in Peer /\ Other(Ini) = Tgt /\ Other(Tgt) = Ini
  BY DEF Peer, Other
<1>1. /\ net[Tgt] \in Seq(Stanza) /\ net[Ini] \in Seq(Stanza) /\ b \in Seq(Stanza)
      /\ cr \in [Stream -> CRs] /\ peer[Tgt] \in PeerState /\ peer[Ini] \in PeerState
      /\ hist.answered[Tgt] \in {0, 1} /\ hist.answered[Ini] \in {0, 1}
  BY <1>0 DEF IInv, TypeOK, Step, Contract, Common, XState, CRs, History
<1>2. /\ TokenOK(Ini) /\ TokenOK(Tgt) /\ Local(Ini, m) /\ Local(Tgt, peer[Tgt])
      /\ EarlyOK(m, peer[Tgt]) /\ WrittenOK(m, peer[Tgt]) /\ AnswerOK(m, peer[Tgt])
  BY <1>0 DEF IInv, TokenInv, LocalInv
<1>3. /\ peer'[Ini] = y.m /\ peer'[Tgt] = peer[Tgt] /\ cr' = y.crs
      /\ net'[Tgt] = net[Tgt] \o b
      /\ hist'.answered[Ini] = hist.answered[Ini]
      /\ hist'.answered[Tgt] = hist.answered[Tgt] + Answers(Tgt, b)
      /\ Taken(Ini, got) /\ Common(Ini, m, y, got) /\ IniStep(m, cr, y, got)
  BY <1>0 DEF Step, Contract
<1>4. /\ \A r : NoAnswer(r, net[Tgt] \o b) <=> NoAnswer(r, net[Tgt]) /\ NoAnswer(r, b)
      /\ \A r : NoResult(r, net[Tgt] \o b) <=> NoResult(r, net[Tgt]) /\ NoResult(r, b)
      /\ \A r, s : OnlyUsed(r, net[Tgt] \o b, s) <=> OnlyUsed(r, net[Tgt], s) /\ OnlyUsed(r, b, s)
  BY <1>1, Joining
<1>5. /\ MayAsk(Ini, m) => peer[Tgt].con = "Idle" /\ peer[Tgt].ended = "none"
      /\ MayAsk(Ini, m) => MayAsk(Tgt, peer[Tgt]) /\ t = NewItem
      /\ MayAsk(Tgt, peer[Tgt]) => i.targetMode # "Fast" /\ NoCR
      /\ MayAsk(Ini, m) => NoCR
  <2>1. MayAsk(Ini, m) => peer[Tgt].con = "Idle" /\ peer[Tgt].ended = "none"
    BY <1>2 DEF EarlyOK
  <2>2. MayAsk(Tgt, peer[Tgt]) => i.targetMode # "Fast" /\ NoCR
    BY <1>2 DEF EarlyOK
  <2>3. peer[Tgt].con = "Idle" => t = NewItem
    BY <1>2 DEF Local, PlaceOK
  <2> QED BY <2>1, <2>2, <2>3 DEF MayAsk
<1>6. /\ i.state = "Initiator" /\ ~i.activated => NoCR
      /\ i.state = "Initiator" /\ i.activated => i.targetMode = "Fast"
  BY <1>2 DEF EarlyOK, Local, IniOK
<1>7. y.crs = cr \/ (NoCR /\ j.state = "Initiator" /\ j.activated /\ j.targetMode = "Fast")
  BY <1>3, <1>6 DEF IniStep
<1>8. EarlyOK(peer[Ini], peer[Tgt])'
  <2>1. MayAsk(Ini, y.m) => MayAsk(Ini, m)
    BY <1>3 DEF Common
  <2>2. MayAsk(Tgt, peer[Tgt]) => NoRequest(net[Ini])
    BY <1>2, <1>0 DEF TokenOK
  <2>3. NoRequest(net[Ini]) => NoRequest(net'[Ini]) /\ got # "request"
    BY <1>3 DEF Taken
  <2>4. NoRequest(net[Ini]) /\ i.targetMode # "Fast" => j.targetMode # "Fast" /\ y.crs = cr
    BY <2>3, <1>3, <1>7 DEF IniStep
  <2>5. peer[Tgt].entry = "item" /\ ~t.fast => NoCR /\ NoRequest(net[Ini]) /\ i.targetMode # "Fast"
    BY <1>2 DEF EarlyOK
  <2>6. MayAsk(Tgt, peer[Tgt]) => j.targetMode # "Fast" /\ NoCR'
    BY <1>3, <1>5, <2>2, <2>4 DEF NoCR
  <2>7. j.state = "Initiator" /\ ~j.activated => NoCR'
    BY <1>3, <1>5, <1>6, <1>7 DEF IniStep, NoCR
  <2>8. j.state = "Active" /\ j.targetMode # "Fast" => NoCR'
    <3>1. i.state = "Active" /\ i.targetMode # "Fast" => NoCR
      BY <1>2 DEF EarlyOK
    <3>2. j.state = "Active" => y.crs = cr
      BY <1>7
    <3>3. j.state = "Active" /\ j.targetMode # "Fast" => NoCR
      BY <1>3, <1>6, <3>1 DEF IniStep
    <3> QED BY <1>3, <3>2, <3>3 DEF NoCR
  <2>9. peer[Tgt].entry = "item" /\ ~t.fast =>
          NoCR' /\ NoRequest(net'[Ini]) /\ j.targetMode # "Fast"
    BY <1>3, <2>3, <2>4, <2>5 DEF NoCR
  <2> QED BY <1>3, <1>5, <2>1, <2>6, <2>7, <2>8, <2>9 DEF EarlyOK
<1>9. WrittenOK(peer[Ini], peer[Tgt])'
  <2>1. /\ i.state = "Initiator" /\ i.activated => cr[i.client] # "none"
        /\ i.state = "Active" /\ i.targetMode = "Fast" => cr[m.sc] # "none"
        /\ t.state = "Active" /\ t.fast => cr[peer[Tgt].sc] = "taken"
    BY <1>2 DEF WrittenOK
  <2>2. j.state = "Initiator" /\ j.activated => y.crs[j.client] # "none"
    <3>1. i.state = "Initiator" /\ i.activated => y.crs = cr
      BY <1>3 DEF IniStep
    <3> QED BY <1>3, <2>1, <3>1 DEF IniStep
  <2>3. j.state = "Active" /\ j.targetMode = "Fast" => y.crs[y.m.sc] # "none"
    <3>1. j.state = "Active" => y.crs = cr
      BY <1>7
    <3> QED BY <1>3, <2>1, <3>1 DEF IniStep
  <2>4. t.state = "Active" /\ t.fast => y.crs[peer[Tgt].sc] = "taken"
    <3>1. t.state = "Active" => peer[Tgt].sc \in Stream
      BY <1>1, <1>2 DEF Local, PlaceOK, PeerState
    <3> QED BY <1>7, <2>1, <3>1 DEF NoCR
  <2> QED BY <1>3, <2>2, <2>3, <2>4 DEF WrittenOK
<1>10. AnswerOK(peer[Ini], peer[Tgt])'
  <2>1. /\ \A s \in Stream : cr[s] # "none" /\ s.owner = Tgt => Confirmed(s, t)
        /\ i.state = "Initiator" /\ i.connSuccess => Confirmed(i.client, t)
        /\ \A s \in Stream : cr[s] # "none" /\ s.owner = Ini => hist.answered[Ini] = 1 /\ Denied(t)
        /\ i.state = "Initiator" /\ ~i.connSuccess => Denied(t)
        /\ i.state = "Initiator" /\ ~i.task /\ ~i.activated => hist.answered[Ini] = 1
    BY <1>2 DEF AnswerOK
  <2>2. hist.answered[Tgt] = 1 => Answers(Tgt, b) = 0 /\ NoAnswer(Tgt, b)
    <3>1. Owes(Ini, m) \/ got = "request" => hist.answered[Tgt] = 0
      BY <1>0, <1>2, <1>3 DEF TokenOK, Taken
    <3> QED BY <1>0, <1>3, <3>1 DEF Common
  <2>3. \A s : NoAnswer(Tgt, b) => OnlyUsed(Tgt, b, s) /\ NoResult(Tgt, b)
    BY DEF NoAnswer, OnlyUsed, NoResult
  <2>4. ASSUME NEW s, Confirmed(s, t)
        PROVE  Confirmed(s, t)'
    BY <1>3, <1>4, <2>2, <2>3, <2>4 DEF Confirmed
  <2>5. ASSUME j.state = "Initiator", j.connSuccess
        PROVE  Confirmed(j.client, t)'
    <3>1. CASE i.state = "Initiator" /\ i.connSuccess /\ j.client = i.client /\ Answers(Tgt, b) = 0
      BY <2>1, <2>4, <3>1
    <3>2. CASE Answers(Tgt, b) = 1 /\ OnlyUsed(Tgt, b, j.client)
      <4>1. hist.answered[Tgt] = 0
        BY <1>1, <2>2, <3>2
      <4>2. ~t.remoteFailed /\ NoAnswer(Tgt, net[Tgt])
        BY <1>2, <4>1 DEF TokenOK
      <4>3. OnlyUsed(Tgt, net[Tgt], j.client)
        BY <4>2 DEF NoAnswer, OnlyUsed
      <4> QED BY <1>3, <1>4, <3>2, <4>1, <4>2, <4>3 DEF Confirmed
    <3> QED BY <1>3, <2>5, <3>1, <3>2 DEF IniStep
  <2>6. ASSUME NEW s \in Stream, y.crs[s] # "none", s.owner = Tgt
        PROVE  Confirmed(s, t)'
    <3>1. CASE y.crs = cr
      BY <2>1, <2>4, <2>6, <3>1
    <3>2. CASE y.crs # cr
      <4>1. NoCR /\ j.state = "Initiator" /\ y.crs = [cr EXCEPT ![j.client] = "sent"]
            /\ (j.client.owner = Tgt => j.connSuccess)
        BY <1>3, <1>7, <3>2 DEF IniStep
      <4>2. s = j.client
        BY <1>1, <2>6, <4>1 DEF NoCR
      <4> QED BY <2>5, <2>6, <4>1, <4>2
    <3> QED BY <3>1, <3>2
  <2>7. Denied(t) /\ NoResult(Tgt, b) => Denied(t)'
    BY <1>3, <1>4 DEF Denied
  <2>8. ASSUME NEW s \in Stream, y.crs[s] # "none", s.owner = Ini
        PROVE  hist'.answered[Ini] = 1 /\ Denied(t)'
    <3>1. CASE y.crs = cr
      <4>1. hist.answered[Ini] = 1 /\ Denied(t) /\ ~NoCR
        BY <2>1, <2>8, <3>1 DEF NoCR
      <4>2. NoResult(Tgt, b)
        BY <1>3, <1>6, <4>1 DEF IniStep
      <4> QED BY <1>3, <2>7, <4>1, <4>2
    <3>2. CASE y.crs # cr
      <4>1. /\ NoCR /\ y.crs = [cr EXCEPT ![j.client] = "sent"]
            /\ i.state = "Initiator" /\ ~i.activated
            /\ j.client.owner = Ini =>
                  ~i.connSuccess /\ NoResult(Tgt, b) /\ (~i.task \/ got = "result")
        BY <1>3, <1>7, <3>2 DEF IniStep
      <4>2. s = j.client
        BY <1>1, <2>8, <4>1 DEF NoCR
      <4>3. got = "result" => hist.answered[Ini] = 1
        BY <1>3 DEF Taken
      <4> QED BY <1>3, <2>1, <2>7, <2>8, <4>1, <4>2, <4>3
    <3> QED BY <3>1, <3>2
  <2>9. ASSUME j.state = "Initiator", ~j.connSuccess
        PROVE  Denied(t)'
    <3>1. NoResult(Tgt, b)
      BY <1>3, <2>9 DEF IniStep
    <3>2. MayAsk(Ini, m) => Denied(t)
      <4> SUFFICES ASSUME MayAsk(Ini, m)
                   PROVE  Denied(t)
        OBVIOUS
      <4>1. t = NewItem /\ hist.answered[Tgt] = 0
        BY <1>0, <1>2, <1>5 DEF TokenOK
      <4>2. NoAnswer(Tgt, net[Tgt])
        BY <1>2, <4>1 DEF TokenOK
      <4> QED BY <4>1, <4>2 DEF Denied, NoAnswer, NoResult, ByProxy, NewItem
    <3> QED BY <1>3, <2>1, <2>7, <2>9, <3>1, <3>2 DEF IniStep
  <2>10. j.state = "Initiator" /\ ~j.task /\ ~j.activated => hist'.answered[Ini] = 1
    BY <1>3, <2>1 DEF IniStep, Taken
  <2> QED BY <1>3, <2>5, <2>6, <2>8, <2>9, <2>10 DEF AnswerOK, Confirmed, Denied
<1> QED BY <1>3, <1>8, <1>9, <1>10

\* A step of the target keeps what relates the two clients.
LEMMA TgtKeeps ==
    ASSUME IInv, NEW y, NEW got, Step(Tgt, y, got)
    PROVE  /\ EarlyOK(peer[Ini], peer[Tgt])' /\ WrittenOK(peer[Ini], peer[Tgt])'
           /\ AnswerOK(peer[Ini], peer[Tgt])'
<1> DEFINE m == peer[Tgt]
           i == m.item
           j == y.m.item
           h == peer[Ini].item
           b == y.out
<1>0. Ini \in Peer /\ Tgt \in Peer /\ Other(Ini) = Tgt /\ Other(Tgt) = Ini
  BY PeerAssumption DEF Peer, Other
<1>1. /\ net[Tgt] \in Seq(Stanza) /\ net[Ini] \in Seq(Stanza) /\ b \in Seq(Stanza)
      /\ cr \in [Stream -> CRs] /\ peer[Tgt] \in PeerState /\ peer[Ini] \in PeerState
      /\ hist'.answered[Ini] \in {0, 1} /\ hist.answered[Ini] \in {0, 1}
      /\ Answers(Ini, b) \in {0, 1}
  BY <1>0 DEF IInv, TypeOK, Step, Contract, Common, XState, CRs, History
<1>2. /\ TokenOK(Ini) /\ TokenOK(Tgt) /\ Local(Ini, peer[Ini]) /\ Local(Tgt, m)
      /\ EarlyOK(peer[Ini], m) /\ WrittenOK(peer[Ini], m) /\ AnswerOK(peer[Ini], m)
  BY <1>0 DEF IInv, TokenInv, LocalInv
<1>3. /\ peer'[Tgt] = y.m /\ peer'[Ini] = peer[Ini] /\ cr' = y.crs
      /\ net'[Ini] = net[Ini] \o b
      /\ hist'.answered[Tgt] = hist.answered[Tgt]
      /\ hist'.answered[Ini] = hist.answered[Ini] + Answers(Ini, b)
      /\ Taken(Tgt, got) /\ Common(Tgt, m, y, got) /\ TgtStep(m, cr, y, got)
  BY <1>0, PeerAssumption DEF Step, Contract
<1>4. NoRequest(net[Ini] \o b) <=> NoRequest(net[Ini]) /\ NoRequest(b)
  BY <1>1, Joining
<1>5. /\ \A s \in Stream : y.crs[s] = "none" <=> cr[s] = "none"
      /\ NoCR => NoCR'
  BY <1>3 DEF TgtStep, NoCR
<1>8. EarlyOK(peer[Ini], peer[Tgt])'
  <2>1. MayAsk(Ini, peer[Ini]) => y.m.con = "Idle" /\ y.m.ended = "none"
    <3>1. MayAsk(Ini, peer[Ini]) => m.con = "Idle" /\ m.ended = "none"
      BY <1>2 DEF EarlyOK
    <3>2. MayAsk(Ini, peer[Ini]) => got # "request"
      BY <1>0, <1>2, <1>3 DEF TokenOK, Taken
    <3> QED BY <1>3, <3>1, <3>2 DEF TgtStep
  <2>2. MayAsk(Tgt, m) => h.targetMode # "Fast" /\ NoCR /\ NoRequest(net[Ini])
    BY <1>0, <1>2 DEF EarlyOK, TokenOK
  <2>3. MayAsk(Tgt, y.m) => MayAsk(Tgt, m)
    BY <1>3 DEF Common
  <2>4. y.m.entry = "item" /\ ~j.fast =>
          NoCR' /\ NoRequest(net'[Ini]) /\ h.targetMode # "Fast"
    <3>1. m.entry = "item" => NoRequest(b)
      <4>1. m.entry = "item" => ~MayAsk(Tgt, m)
        BY <1>2 DEF MayAsk, Local, PlaceOK
      <4> QED BY <1>3, <4>1 DEF Common, NoRequest
    <3>2. m.entry = "item" /\ ~i.fast => NoCR /\ NoRequest(net[Ini]) /\ h.targetMode # "Fast"
      BY <1>2 DEF EarlyOK
    <3> QED BY <1>3, <1>4, <1>5, <2>2, <3>1, <3>2 DEF TgtStep
  <2>5. /\ h.state = "Initiator" /\ ~h.activated => NoCR
        /\ h.state = "Active" /\ h.targetMode # "Fast" => NoCR
    BY <1>2 DEF EarlyOK
  <2> QED BY <1>3, <1>5, <2>1, <2>2, <2>3, <2>4, <2>5 DEF EarlyOK
<1>9. WrittenOK(peer[Ini], peer[Tgt])'
  <2>1. /\ h.state = "Initiator" /\ h.activated => cr[h.client] # "none"
        /\ h.state = "Active" /\ h.targetMode = "Fast" => cr[peer[Ini].sc] # "none"
    BY <1>2 DEF WrittenOK
  <2>2. /\ h.state = "Initiator" /\ h.activated => h.client \in Stream
        /\ h.state = "Active" => peer[Ini].sc \in Stream
    BY <1>1, <1>2 DEF Local, PlaceOK, IniOK, PeerState, Item
  <2>3. j.state = "Active" /\ j.fast => y.crs[y.m.sc] = "taken"
    BY <1>3 DEF TgtStep
  <2> QED BY <1>3, <1>5, <2>1, <2>2, <2>3 DEF WrittenOK
<1>10. AnswerOK(peer[Ini], peer[Tgt])'
  <2>1. /\ \A s \in Stream : cr[s] # "none" /\ s.owner = Tgt => Confirmed(s, i)
        /\ h.state = "Initiator" /\ h.connSuccess => Confirmed(h.client, i)
        /\ \A s \in Stream : cr[s] # "none" /\ s.owner = Ini => hist.answered[Ini] = 1 /\ Denied(i)
        /\ h.state = "Initiator" /\ ~h.connSuccess => Denied(i)
        /\ h.state = "Initiator" /\ ~h.task /\ ~h.activated => hist.answered[Ini] = 1
    BY <1>2 DEF AnswerOK
  <2>2. ASSUME NEW s, Confirmed(s, i)
        PROVE  Confirmed(s, j)'
    <3>1. /\ hist'.answered[Tgt] = 1 /\ OnlyUsed(Tgt, net'[Tgt], s) /\ got # "error"
          /\ ~i.remoteFailed
      BY <1>3, <2>2 DEF Confirmed, Taken
    <3>2. ~j.remoteFailed
      BY <1>3, <3>1 DEF Common
    <3> QED BY <3>1, <3>2 DEF Confirmed
  <2>3. Denied(i) => Denied(j)'
    <3> SUFFICES ASSUME Denied(i)
                 PROVE  Denied(j)'
      OBVIOUS
    <3>1. NoResult(Tgt, net'[Tgt]) /\ got # "result" /\ ~ByProxy(i)
      BY <1>3 DEF Denied, Taken
    <3>2. ~ByProxy(j)
      BY <1>3, <3>1 DEF TgtStep
    <3> QED BY <3>1, <3>2 DEF Denied, ByProxy
  <2>4. hist.answered[Ini] = 1 => hist'.answered[Ini] = 1
    BY <1>1, <1>3
  <2> QED BY <1>3, <1>5, <2>1, <2>2, <2>3, <2>4 DEF AnswerOK, Confirmed, Denied
<1> QED BY <1>3, <1>8, <1>9, <1>10

\* A step that keeps its contract keeps the invariant.
LEMMA MoveKeeps ==
    ASSUME IInv, NEW p \in Peer, Move(p)
    PROVE  IInv'
<1>1. PICK y, got : Step(p, y, got)
  BY MoveIs
<1>2. TypeOK' /\ ~hist'.bad
  BY <1>1 DEF Step
<1>3. LocalInv'
  <2>1. Local(p, y.m) /\ peer'[p] = y.m /\ peer'[Other(p)] = peer[Other(p)]
    BY <1>1 DEF Step, Contract, Common
  <2>2. Local(Other(p), peer[Other(p)])
    BY StreamFacts DEF IInv, LocalInv
  <2>3. \A r \in Peer : r = p \/ r = Other(p)
    BY DEF Peer, Other
  <2> QED BY <2>1, <2>2, <2>3 DEF LocalInv
<1>4. TokenInv'
  <2>1. TokenOK(p)' /\ TokenOK(Other(p))'
    BY <1>1, OwnToken, OtherToken
  <2>2. \A r \in Peer : r = p \/ r = Other(p)
    BY DEF Peer, Other
  <2> QED BY <2>1, <2>2 DEF TokenInv
<1>5. /\ EarlyOK(peer[Ini], peer[Tgt])' /\ WrittenOK(peer[Ini], peer[Tgt])'
      /\ AnswerOK(peer[Ini], peer[Tgt])'
  <2>1. CASE p = Ini
    BY <1>1, <2>1, IniKeeps
  <2>2. CASE p = Tgt
    BY <1>1, <2>2, TgtKeeps
  <2> QED BY <2>1, <2>2 DEF Peer
<1> QED BY <1>2, <1>3, <1>4, <1>5 DEF IInv

----------------------------------------------------------------------------
(* Starting: the calls of the user and the query of a proxy.               *)

\* A client whose entry is about to get its item.
Starting(p, m) ==
    /\ m.item = NewItem /\ m.sc = NoStream /\ m.ended = "none"
    /\ m.con \in {"Requesting", "Connecting"}
    /\ Owned(m.req.hosts, Other(p))
    /\ \A s \in Stream : m.end[s] \in {"none", "closed"}

\* The item that an entry gets, once it is the one of a role.
Fresh(m, role) ==
    /\ m.item.state = role /\ m.entry = "item" /\ m.role = role
    /\ m.item.targetMode = "Unknown" /\ m.item.conn = {}
    /\ ~m.item.activated /\ ~m.item.lateProxy /\ ~m.item.connSuccess
    /\ ~m.item.localFailed /\ ~m.item.remoteFailed
    /\ ~m.item.proxyConn /\ m.item.proxyTask = "none"
    /\ m.item.client = NoStream /\ m.item.clientOut = NoStream

\* A fresh item is sound.
LEMMA FreshLocal ==
    ASSUME NEW p \in Peer, NEW m \in PeerState, NEW role \in {"Initiator", "Target"},
           Fresh(m, role), role = (IF p = Ini THEN "Initiator" ELSE "Target"),
           m.sc = NoStream, m.ended = "none", m.con \in {"Requesting", "Connecting"},
           Owned(m.req.hosts, Other(p)), Owned(m.item.inHosts, Other(p)),
           m.item.inHosts # {} => m.item.inId = Other(p),
           \A s \in Stream : m.end[s] \in {"none", "closed"},
           m.item.outId \in {NoId, p}, m.item.task => m.item.outId = p,
           p = Ini => m.item.task, p = Tgt /\ m.item.task => m.item.fast,
           p = Tgt /\ m.item.allowIncoming => m.item.fast
    PROVE  /\ PlaceOK(p, m) /\ SocketsOK(p, m) /\ ProxyOK(p, m) /\ HostsOK(p, m)
           /\ DialOK(p, m) /\ TaskOK(p, m) /\ IniOK(m) /\ TgtOK(m) /\ ActiveOK(p, m)
<1> USE DEF Fresh
<1>1. PlaceOK(p, m)
  BY PeerAssumption DEF PlaceOK, Peer
<1>2. SocketsOK(p, m)
  BY DEF SocketsOK, EndsOK
<1>3. ProxyOK(p, m) /\ HostsOK(p, m) /\ DialOK(p, m)
  BY DEF ProxyOK, HostsOK, DialOK, Pending
<1>4. TaskOK(p, m) /\ IniOK(m) /\ TgtOK(m) /\ ActiveOK(p, m)
  BY PeerAssumption DEF TaskOK, IniOK, TgtOK, ActiveOK, Peer
<1> QED BY <1>1, <1>2, <1>3, <1>4

\* A client offers connections of its own, and its proxy only when it knows it.
LEMMA OwnHostsIs ==
    ASSUME NEW p \in Peer, NEW x
    PROVE  /\ OwnHosts(p, x) \in SUBSET Stream /\ Owned(OwnHosts(p, x), p)
           /\ Proxy(p) \in OwnHosts(p, x) => x.m.item.proxy
  BY StreamFacts DEF OwnHosts, Owned, Direct, Proxy

\* An entry that gets its item.
LEMMA EntryIs ==
    ASSUME NEW p \in Peer, NEW x \in XState, Starting(p, x.m), NEW b \in BOOLEAN
    PROVE  LET y == [x EXCEPT !.m.entry = "item", !.m.item = [NewItem EXCEPT !.proxy = b]]
           IN  /\ y \in XState /\ SameRest(x, y)
               /\ y.m.item = [NewItem EXCEPT !.proxy = b] /\ y.m.entry = "item"
               /\ y.m.con = x.m.con /\ y.m.sc = x.m.sc /\ y.m.end = x.m.end
               /\ y.m.ended = x.m.ended /\ y.m.req = x.m.req
<1> DEFINE j == [NewItem EXCEPT !.proxy = b]
           n == [x.m EXCEPT !.entry = "item", !.item = j]
           y == [x EXCEPT !.m.entry = "item", !.m.item = j]
<1>1. j \in Item
  BY NewItemIs DEF Item
<1> HIDE DEF j
<1>2. y = [x EXCEPT !.m = n]
  BY DEF XState
<1>3. /\ n \in PeerState /\ n.item = j /\ n.entry = "item" /\ n.con = x.m.con /\ n.sc = x.m.sc
      /\ n.end = x.m.end /\ n.ended = x.m.ended /\ n.req = x.m.req
  BY <1>1 DEF XState, PeerState
<1> HIDE DEF n
<1>4. y \in XState /\ y.m = n /\ SameRest(x, y)
  BY <1>2, <1>3, PutIs
<1> QED BY <1>3, <1>4 DEF j

\* The request of p is made.
Asking(p, i) == [i EXCEPT !.allowIncoming = TRUE, !.task = TRUE, !.outId = p]

\* Making the request.
Ask(p, x, hosts, fast) ==
    Send([x EXCEPT !.m.item = [@ EXCEPT !.allowIncoming = TRUE, !.task = TRUE, !.outId = p]],
         Request(p, hosts, fast))

\* What a client that has just made its request looks like.
LEMMA AskIs ==
    ASSUME NEW p \in Peer, NEW x \in XState, x.out = <<>>, NEW hosts \in SUBSET Stream,
           NEW fast \in BOOLEAN
    PROVE  LET y == Ask(p, x, hosts, fast)
           IN  /\ y \in XState /\ y.m = [x.m EXCEPT !.item = Asking(p, x.m.item)]
               /\ y.m.item = Asking(p, x.m.item) /\ y.m.end = x.m.end
               /\ SameConnection(x.m, y.m)
               /\ y.crs = x.crs /\ y.bad = x.bad /\ y.out = <<Request(p, hosts, fast)>>
<1> DEFINE j == [x.m.item EXCEPT !.allowIncoming = TRUE, !.task = TRUE, !.outId = p]
           n == [x.m EXCEPT !.item = j]
           v == [x EXCEPT !.m = n]
           w == [x EXCEPT !.m.item = [@ EXCEPT !.allowIncoming = TRUE,
                                     !.task = TRUE, !.outId = p]]
           z == Request(p, hosts, fast)
<1>1. j \in Item
  <2> DEFINE i == x.m.item
  <2>1. i \in Item /\ p \in ReqId
    BY XFields DEF ReqId
  <2> HIDE DEF i
  <2>2. [i EXCEPT !.allowIncoming = TRUE, !.task = TRUE, !.outId = p] \in Item
    BY <2>1 DEF Item
  <2> QED BY <2>2 DEF i
<1>2. w = v
  BY DEF XState
<1>3. j = Asking(p, x.m.item)
  BY DEF Asking
<1> HIDE DEF j, w
<1>4. n \in PeerState /\ n.item = j /\ n.end = x.m.end /\ SameConnection(x.m, n)
  BY <1>1, XFields, PutItemIs
<1> HIDE DEF n
<1>5. v \in XState /\ v.m = n /\ SameRest(x, v)
  BY <1>4, PutIs
<1>6. z \in Stanza
  BY AnswerTypes DEF ReqId
<1>7. Append(<<>>, z) = <<z>>
  OBVIOUS
<1> HIDE DEF v, z
<1>8. LET y == Send(v, z)
      IN  y \in XState /\ y.m = v.m /\ y.crs = v.crs /\ y.bad = v.bad /\ y.out = Append(v.out, z)
  BY <1>5, <1>6, SendIs
<1>9. n = [x.m EXCEPT !.item = Asking(p, x.m.item)]
  BY <1>3 DEF n
<1>10. LET y == Send(w, z)
       IN  /\ y \in XState /\ y.m = n /\ y.crs = x.crs /\ y.bad = x.bad /\ y.out = <<z>>
  BY <1>2, <1>5, <1>7, <1>8 DEF SameRest
<1> QED BY <1>3, <1>4, <1>9, <1>10 DEF w, z, Ask

\* The state of a handler that has given the entry its item.
Entered(p, x) ==
    /\ x.m.entry = "item" /\ (\E b \in BOOLEAN : x.m.item = [NewItem EXCEPT !.proxy = b])
    /\ x.m.sc = NoStream /\ x.m.ended = "none" /\ x.m.con \in {"Requesting", "Connecting"}
    /\ Owned(x.m.req.hosts, Other(p))
    /\ \A s \in Stream : x.m.end[s] \in {"none", "closed"}

\* startInitiator() makes a fresh item that asks.
LEMMA StartInitiatorIs ==
    ASSUME NEW x \in XState, Entered(Ini, x), x.out = <<>>
    PROVE  LET y == StartInitiator(Ini, x)
           IN  /\ y \in XState /\ y.crs = x.crs /\ y.bad = x.bad
               /\ Local(Ini, y.m) /\ Fresh(y.m, "Initiator") /\ y.m.item.task
               /\ y.m.con = x.m.con /\ y.m.end = x.m.end /\ y.m.req = x.m.req
               /\ y.m.item.proxy = x.m.item.proxy /\ y.m.item.inHosts = {}
               /\ \E hosts \in SUBSET Stream :
                    /\ Owned(hosts, Ini) /\ y.out = <<Request(Ini, hosts, TRUE)>>
                    /\ Proxy(Ini) \in hosts => x.m.item.proxy
<1> DEFINE i == [x.m.item EXCEPT !.state = "Initiator"]
           n == [x.m EXCEPT !.item = i, !.role = "Initiator"]
           v == [x EXCEPT !.m = n]
           w == [x EXCEPT !.m.item.state = "Initiator", !.m.role = "Initiator"]
           hosts == OwnHosts(Ini, w)
           y == StartInitiator(Ini, x)
<1>0. Ini \in Peer
  BY DEF Peer
<1>1. w = v
  BY DEF XState
<1>2. i \in Item /\ i.state = "Initiator" /\ i.proxy = x.m.item.proxy
  BY XFields DEF Item
<1>3. /\ i.targetMode = "Unknown" /\ i.conn = {} /\ i.outId = NoId
      /\ ~i.activated /\ ~i.lateProxy /\ ~i.connSuccess /\ ~i.localFailed /\ ~i.remoteFailed
      /\ ~i.proxyConn /\ i.proxyTask = "none" /\ i.inHosts = {}
      /\ i.client = NoStream /\ i.clientOut = NoStream
  BY DEF Entered, NewItem
<1> HIDE DEF i, w
<1>4. /\ n \in PeerState /\ n.item = i /\ n.role = "Initiator" /\ n.con = x.m.con
      /\ n.sc = x.m.sc /\ n.end = x.m.end /\ n.ended = x.m.ended /\ n.req = x.m.req
      /\ n.entry = x.m.entry
  BY <1>2, XFields DEF PeerState
<1> HIDE DEF n
<1>5. v \in XState /\ v.m = n /\ SameRest(x, v)
  BY <1>4, PutIs
<1> HIDE DEF v
<1>6. /\ hosts \in SUBSET Stream /\ Owned(hosts, Ini)
      /\ Proxy(Ini) \in hosts => x.m.item.proxy
  <2>1. w.m.item.proxy = x.m.item.proxy
    BY <1>1, <1>2, <1>4, <1>5
  <2> QED BY <1>0, <2>1, OwnHostsIs
<1>7. y = Ask(Ini, v, hosts, TRUE)
  <2>1. v.m.item.state = "Initiator"
    BY <1>2, <1>4, <1>5
  <2>2. y = DoOutgoing(Ini, w)
    BY DEF StartInitiator, w
  <2>3. (v.m.item.state = "Initiator") = TRUE
    BY <2>1
  <2> HIDE DEF y
  <2> QED BY Zenon, <1>1, <2>1, <2>2, <2>3 DEF DoOutgoing, Ask
<1> HIDE DEF hosts, y
<1>8. /\ y \in XState /\ y.m.item = Asking(Ini, i) /\ y.m.end = n.end
      /\ SameConnection(n, y.m)
      /\ y.crs = x.crs /\ y.bad = x.bad /\ y.out = <<Request(Ini, hosts, TRUE)>>
  <2>1. v.out = <<>> /\ v.crs = x.crs /\ v.bad = x.bad /\ v.m = n
    BY <1>5 DEF SameRest
  <2> DEFINE u == Ask(Ini, v, hosts, TRUE)
  <2>2. /\ u \in XState /\ u.m.item = Asking(Ini, v.m.item) /\ u.m.end = v.m.end
        /\ SameConnection(v.m, u.m)
        /\ u.crs = v.crs /\ u.bad = v.bad /\ u.out = <<Request(Ini, hosts, TRUE)>>
    BY <1>0, <1>5, <1>6, <2>1, AskIs
  <2> HIDE DEF u
  <2> QED BY <1>4, <1>7, <2>1, <2>2 DEF u
<1>9. LET j == Asking(Ini, i)
      IN  /\ j.task /\ j.allowIncoming /\ j.outId = Ini /\ j.state = "Initiator"
          /\ j.proxy = i.proxy /\ j.targetMode = "Unknown" /\ j.conn = {}
          /\ ~j.activated /\ ~j.lateProxy /\ ~j.connSuccess /\ ~j.localFailed /\ ~j.remoteFailed
          /\ ~j.proxyConn /\ j.proxyTask = "none" /\ j.inHosts = {}
          /\ j.client = NoStream /\ j.clientOut = NoStream
  BY <1>2, <1>3 DEF Asking, Item
<1>10. Fresh(y.m, "Initiator") /\ y.m.item.task /\ y.m.con = x.m.con
  BY <1>4, <1>8, <1>9 DEF Fresh, SameConnection, Entered
<1>11. Local(Ini, y.m)
  <2>1. /\ y.m \in PeerState /\ y.m.sc = NoStream /\ y.m.ended = "none"
        /\ y.m.con \in {"Requesting", "Connecting"}
        /\ Owned(y.m.req.hosts, Other(Ini)) /\ Owned(y.m.item.inHosts, Other(Ini))
        /\ \A s \in Stream : y.m.end[s] \in {"none", "closed"}
    BY <1>4, <1>8, <1>9, XFields DEF SameConnection, Entered, Owned
  <2> QED BY <1>0, <1>8, <1>9, <1>10, <2>1, FreshLocal, PeerAssumption DEF Local
<1>12. /\ y.m.end = x.m.end /\ y.m.req = x.m.req /\ y.m.item.proxy = x.m.item.proxy
       /\ y.m.item.inHosts = {}
  BY <1>2, <1>4, <1>8, <1>9 DEF SameConnection
<1> QED BY <1>6, <1>8, <1>10, <1>11, <1>12 DEF y

\* What a target has sent when it turns to the hosts of the initiator.
AskedFirst(z) ==
    \/ ~z.m.item.task /\ ~z.m.item.fast /\ z.out = <<>>
    \/ /\ z.m.item.task /\ z.m.item.fast
       /\ \E hosts \in SUBSET Stream :
            /\ Owned(hosts, Tgt) /\ z.out = <<Request(Tgt, hosts, FALSE)>>
            /\ Proxy(Tgt) \in hosts => z.m.item.proxy

\* A fresh item of the target may dial what it was offered.
LEMMA TargetOffered ==
    ASSUME NEW z \in XState, Fresh(z.m, "Target"), AskedFirst(z),
           z.m.sc = NoStream, z.m.ended = "none", z.m.con \in {"Requesting", "Connecting"},
           Owned(z.m.req.hosts, Ini), Owned(z.m.item.inHosts, Ini), z.m.item.inId = Ini,
           \A s \in Stream : z.m.end[s] \in {"none", "closed"},
           z.m.item.outId \in {NoId, Tgt}, z.m.item.task => z.m.item.outId = Tgt,
           z.m.item.allowIncoming => z.m.item.task
    PROVE  Offered(Tgt, z)
<1>1. Tgt \in Peer /\ Other(Tgt) = Ini /\ Tgt # Ini
  BY PeerAssumption DEF Peer, Other
<1>2. z.m \in PeerState /\ z.m.item.task = z.m.item.fast
  BY XFields DEF AskedFirst, Item
<1>3. /\ PlaceOK(Tgt, z.m) /\ SocketsOK(Tgt, z.m) /\ HostsOK(Tgt, z.m) /\ TaskOK(Tgt, z.m)
      /\ IniOK(z.m) /\ TgtOK(z.m)
  BY <1>1, <1>2, FreshLocal
<1> QED BY <1>1, <1>2, <1>3 DEF Offered, Fresh

\* startTarget() makes a fresh item that may ask, and dials.
LEMMA StartTargetIs ==
    ASSUME NEW x \in XState, Entered(Tgt, x), x.out = <<>>
    PROVE  LET y == StartTarget(Tgt, x)
           IN  \E z \in XState :
                 /\ Fresh(z.m, "Target") /\ AskedFirst(z) /\ Offered(Tgt, z)
                 /\ z.crs = x.crs /\ z.bad = x.bad /\ z.m.con = x.m.con
                 /\ z.m.end = x.m.end /\ z.m.req = x.m.req
                 /\ z.m.item.proxy = x.m.item.proxy /\ z.m.item.inHosts = x.m.req.hosts
                 /\ y = DoIncoming(z)
<1> DEFINE i == [x.m.item EXCEPT !.state = "Target", !.inHosts = x.m.req.hosts,
                                 !.inId = Other(Tgt), !.fast = x.m.req.fast]
           n == [x.m EXCEPT !.role = "Target", !.item = i]
           v == [x EXCEPT !.m = n]
           w == [x EXCEPT !.m = [@ EXCEPT !.role = "Target",
                  !.item = [x.m.item EXCEPT !.state = "Target", !.inHosts = x.m.req.hosts,
                                            !.inId = Other(Tgt), !.fast = x.m.req.fast]]]
           hosts == OwnHosts(Tgt, w)
           fast == x.m.req.fast
           u == IF fast THEN DoOutgoing(Tgt, w) ELSE w
           y == StartTarget(Tgt, x)
<1>0. Tgt \in Peer /\ Ini \in Peer /\ Other(Tgt) = Ini /\ Tgt # Ini
  BY PeerAssumption DEF Peer, Other
<1>1. w = v
  BY DEF XState
<1>2. i \in Item /\ i.state = "Target" /\ i.inHosts = x.m.req.hosts /\ i.inId = Ini /\ i.fast = fast
      /\ fast \in BOOLEAN /\ i.proxy = x.m.item.proxy
  <2>1. x.m.req.hosts \in SUBSET Stream /\ x.m.req.fast \in BOOLEAN /\ x.m.item \in Item
    BY XFields DEF PeerState
  <2>2. Ini \in ReqId
    BY <1>0 DEF ReqId
  <2> QED BY <1>0, <2>1, <2>2 DEF Item
<1>3. /\ i.targetMode = "Unknown" /\ i.conn = {} /\ i.outId = NoId /\ ~i.task
      /\ ~i.activated /\ ~i.lateProxy /\ ~i.connSuccess /\ ~i.localFailed /\ ~i.remoteFailed
      /\ ~i.proxyConn /\ i.proxyTask = "none" /\ ~i.allowIncoming
      /\ i.client = NoStream /\ i.clientOut = NoStream
  BY DEF Entered, NewItem
<1>y. y = DoIncoming(u)
  BY DEF StartTarget, w
<1> HIDE DEF i, w, fast
<1>4. /\ n \in PeerState /\ n.item = i /\ n.role = "Target" /\ n.con = x.m.con
      /\ n.sc = x.m.sc /\ n.end = x.m.end /\ n.ended = x.m.ended /\ n.req = x.m.req
      /\ n.entry = x.m.entry
  BY <1>2, XFields DEF PeerState
<1>o. Owned(x.m.req.hosts, Ini)
  BY <1>0 DEF Entered
<1> HIDE DEF n
<1>5. v \in XState /\ v.m = n /\ SameRest(x, v)
  BY <1>4, PutIs
<1>6. v.out = <<>> /\ v.crs = x.crs /\ v.bad = x.bad
  BY <1>5 DEF SameRest
<1> HIDE DEF v
<1>7. /\ hosts \in SUBSET Stream /\ Owned(hosts, Tgt)
      /\ Proxy(Tgt) \in hosts => x.m.item.proxy
  <2>1. w.m.item.proxy = x.m.item.proxy
    BY <1>1, <1>2, <1>4, <1>5
  <2> QED BY <1>0, <2>1, OwnHostsIs
<1> HIDE DEF hosts
<1> DEFINE Good(z) == /\ z \in XState /\ Fresh(z.m, "Target") /\ AskedFirst(z) /\ Offered(Tgt, z)
                      /\ z.crs = x.crs /\ z.bad = x.bad /\ z.m.con = x.m.con
                      /\ z.m.end = x.m.end /\ z.m.req = x.m.req
                      /\ z.m.item.proxy = x.m.item.proxy /\ z.m.item.inHosts = x.m.req.hosts
<1>8. ASSUME ~fast
      PROVE  Good(u)
  <2>1. u = v
    BY <1>1, <1>8
  <2>2. Fresh(v.m, "Target") /\ AskedFirst(v) /\ v.m.con = x.m.con
    BY <1>2, <1>3, <1>4, <1>5, <1>6, <1>8 DEF Fresh, AskedFirst, Entered
  <2>3. Offered(Tgt, v)
    BY <1>0, <1>2, <1>3, <1>4, <1>5, <1>o, <2>2, TargetOffered DEF Entered
  <2>4. Good(v)
    BY <1>2, <1>4, <1>5, <1>6, <2>2, <2>3
  <2> QED BY <2>1, <2>4
<1>9. ASSUME fast, hosts = {}
      PROVE  Good(u)
  <2> DEFINE j == [i EXCEPT !.fast = FALSE]
             o == [n EXCEPT !.item = j]
             r == [v EXCEPT !.m = o]
  <2>1. [v EXCEPT !.m.item.fast = FALSE] = r
    BY <1>4, <1>5 DEF XState
  <2>2. u = [v EXCEPT !.m.item.fast = FALSE]
    <3>1. v.m.item.state = "Target"
      BY <1>2, <1>4, <1>5
    <3>2. DoOutgoing(Tgt, v) = [v EXCEPT !.m.item.fast = FALSE]
      BY Zenon, <1>1, <1>9, <3>1 DEF DoOutgoing, hosts
    <3> QED BY <1>1, <1>9, <3>2
  <2>3. j \in Item /\ j.state = "Target" /\ j.inHosts = x.m.req.hosts /\ j.inId = Ini /\ ~j.fast
        /\ j.proxy = x.m.item.proxy
        /\ j.targetMode = "Unknown" /\ j.conn = {} /\ j.outId = NoId /\ ~j.task
        /\ ~j.activated /\ ~j.lateProxy /\ ~j.connSuccess /\ ~j.localFailed /\ ~j.remoteFailed
        /\ ~j.proxyConn /\ j.proxyTask = "none" /\ ~j.allowIncoming
        /\ j.client = NoStream /\ j.clientOut = NoStream
    BY <1>2, <1>3 DEF Item
  <2> HIDE DEF j
  <2>4. o \in PeerState /\ o.item = j /\ o.end = n.end /\ SameConnection(n, o)
    BY <1>4, <2>3, PutItemIs
  <2> HIDE DEF o
  <2>5. r \in XState /\ r.m = o /\ r.out = <<>> /\ r.crs = x.crs /\ r.bad = x.bad
    BY <1>5, <1>6, <2>4, PutIs DEF SameRest
  <2> HIDE DEF r
  <2>6. Fresh(r.m, "Target") /\ AskedFirst(r) /\ r.m.con = x.m.con
    BY <1>4, <2>3, <2>4, <2>5 DEF Fresh, AskedFirst, SameConnection, Entered
  <2>7. Offered(Tgt, r)
    BY <1>4, <1>o, <2>3, <2>4, <2>5, <2>6, TargetOffered DEF Entered, SameConnection
  <2>8. Good(r)
    BY <1>4, <2>3, <2>4, <2>5, <2>6, <2>7 DEF SameConnection
  <2> QED BY <2>1, <2>2, <2>8
<1>10. ASSUME fast, hosts # {}
       PROVE  Good(u)
  <2> DEFINE j == Asking(Tgt, i)
             r == Ask(Tgt, v, hosts, FALSE)
  <2>1. u = r
    <3>1. v.m.item.state = "Target"
      BY <1>2, <1>4, <1>5
    <3>2. DoOutgoing(Tgt, v)
            = Ask(Tgt, v, hosts, v.m.item.state = "Initiator")
      BY Zenon, <1>1, <1>10, <3>1 DEF DoOutgoing, Ask, hosts
    <3>3. (v.m.item.state = "Initiator") = FALSE
      BY <3>1
    <3>4. DoOutgoing(Tgt, v) = r
      BY <3>2, <3>3
    <3> QED BY <1>1, <1>10, <3>4
  <2>2. /\ r \in XState /\ r.m.item = Asking(Tgt, v.m.item) /\ r.m.end = v.m.end
        /\ SameConnection(v.m, r.m)
        /\ r.crs = v.crs /\ r.bad = v.bad /\ r.out = <<Request(Tgt, hosts, FALSE)>>
    <3> DEFINE no == v.m.item.state = "Initiator"
    <3>1. no \in BOOLEAN /\ no = FALSE
      BY <1>2, <1>4, <1>5
    <3> HIDE DEF no, r
    <3>2. LET q == Ask(Tgt, v, hosts, no)
          IN  /\ q \in XState /\ q.m = [v.m EXCEPT !.item = Asking(Tgt, v.m.item)]
              /\ q.m.item = Asking(Tgt, v.m.item) /\ q.m.end = v.m.end
              /\ SameConnection(v.m, q.m)
              /\ q.crs = v.crs /\ q.bad = v.bad /\ q.out = <<Request(Tgt, hosts, no)>>
      BY <1>0, <1>5, <1>6, <1>7, <3>1, AskIs
    <3> QED BY <3>1, <3>2 DEF r
  <2> HIDE DEF r
  <2>3. j.state = "Target" /\ j.inHosts = x.m.req.hosts /\ j.inId = Ini /\ j.fast = fast
        /\ j.proxy = x.m.item.proxy
        /\ j.targetMode = "Unknown" /\ j.conn = {} /\ j.outId = Tgt /\ j.task
        /\ ~j.activated /\ ~j.lateProxy /\ ~j.connSuccess /\ ~j.localFailed /\ ~j.remoteFailed
        /\ ~j.proxyConn /\ j.proxyTask = "none"
        /\ j.client = NoStream /\ j.clientOut = NoStream
    BY <1>2, <1>3 DEF Item, Asking
  <2>4. r.m.item = j
    BY <1>4, <1>5, <2>2
  <2> HIDE DEF j
  <2>5. Fresh(r.m, "Target") /\ AskedFirst(r) /\ r.m.con = x.m.con
    <3>1. \E h \in SUBSET Stream :
            /\ Owned(h, Tgt) /\ r.out = <<Request(Tgt, h, FALSE)>>
            /\ Proxy(Tgt) \in h => r.m.item.proxy
      BY Zenon, <1>7, <2>2, <2>3, <2>4
    <3>2. AskedFirst(r)
      BY Zenon, <1>10, <2>3, <2>4, <3>1 DEF AskedFirst
    <3> QED BY <1>4, <1>5, <2>2, <2>3, <2>4, <3>2 DEF Fresh, SameConnection, Entered
  <2>6. Offered(Tgt, r)
    <3>1. \A s \in Stream : r.m.end[s] \in {"none", "closed"}
      BY <1>4, <1>5, <2>2 DEF Entered
    <3> QED BY <1>4, <1>5, <1>o, <2>2, <2>3, <2>4, <2>5, <3>1, TargetOffered
            DEF Entered, SameConnection
  <2>7. Good(r)
    BY <1>4, <1>5, <1>6, <2>2, <2>3, <2>4, <2>5, <2>6 DEF SameConnection
  <2> QED BY <2>1, <2>7
<1> HIDE DEF y, u
<1>11. Good(u)
  BY <1>2, <1>8, <1>9, <1>10
<1> QED BY <1>11, <1>y DEF y

\* A client that may still ask has no item, and its user is not connected.
LEMMA BeforeAsking ==
    ASSUME NEW p \in Peer, NEW m \in PeerState, Local(p, m), MayAsk(p, m)
    PROVE  /\ m.item = NewItem /\ m.item.state = "Idle" /\ m.con # "Active"
           /\ m.entry # "item"
           /\ m.con = "Idle" => m.ended = "none"
<1>1. PlaceOK(p, m)
  BY DEF Local
<1> QED BY <1>1 DEF PlaceOK, MayAsk, NewItem

\* startInitiator() keeps the contract.
LEMMA StartInitiatorStep ==
    ASSUME NEW x \in XState, Entered(Ini, x), x.out = <<>>, x.crs = cr, ~x.bad,
           NEW m \in PeerState, Local(Ini, m), MayAsk(Ini, m)
    PROVE  Contract(Ini, m, cr, StartInitiator(Ini, x), "nothing")
<1> DEFINE y == StartInitiator(Ini, x)
<1>0. Ini \in Peer /\ Tgt \in Peer /\ Other(Ini) = Tgt /\ Ini # Tgt
  BY PeerAssumption DEF Peer, Other
<1>1. /\ y \in XState /\ y.crs = cr /\ ~y.bad
      /\ Local(Ini, y.m) /\ Fresh(y.m, "Initiator") /\ y.m.item.task
      /\ y.m.con \in {"Requesting", "Connecting"}
      /\ \E hosts \in SUBSET Stream : Owned(hosts, Ini) /\ y.out = <<Request(Ini, hosts, TRUE)>>
  BY StartInitiatorIs DEF Entered
<1> HIDE DEF y
<1>2. PICK hosts \in SUBSET Stream : Owned(hosts, Ini) /\ y.out = <<Request(Ini, hosts, TRUE)>>
  BY <1>1
<1> DEFINE z == Request(Ini, hosts, TRUE)
<1>3. IsRequest(z) /\ z.id = Ini /\ z.hosts = hosts /\ ~Answer(Tgt, z)
  BY DEF Request, IsRequest, Answer
<1> HIDE DEF z
<1>4. /\ Answers(Tgt, y.out) = 0 /\ NoAnswer(Tgt, y.out) /\ NoResult(Tgt, y.out)
      /\ DOMAIN y.out = {1} /\ y.out[1] = z
  BY <1>2, <1>3, OutOne DEF z
<1>5. ~MayAsk(Ini, y.m) /\ ~Owes(Ini, y.m)
  BY <1>0, <1>1 DEF MayAsk, Owes, Fresh, Pending
<1>6. Common(Ini, m, y, "nothing")
  <2>1. PhaseStep(m, y.m)
    BY <1>0, <1>1, BeforeAsking DEF PhaseStep
  <2> QED BY <1>0, <1>1, <1>2, <1>3, <1>4, <1>5, <2>1 DEF Common, Fresh
<1>7. IniStep(m, cr, y, "nothing")
  <2>1. IniChoice(m, y, "nothing")
    BY <1>0, <1>1, BeforeAsking DEF IniChoice, Fresh, ByProxy
  <2> QED BY <1>1, <1>4, <2>1 DEF IniStep, Fresh
<1> QED BY <1>0, <1>6, <1>7 DEF Contract, y

\* startTarget() keeps the contract.
LEMMA StartTargetStep ==
    ASSUME NEW x \in XState, Entered(Tgt, x), x.out = <<>>, x.crs = cr, ~x.bad,
           NEW m \in PeerState, Local(Tgt, m), MayAsk(Tgt, m), Owes(Tgt, m), m.con # "Idle"
    PROVE  Contract(Tgt, m, cr, StartTarget(Tgt, x), "nothing")
<1> DEFINE y == StartTarget(Tgt, x)
           a == RespondError(Ini, 404)
<1>0. Ini \in Peer /\ Tgt \in Peer /\ Other(Tgt) = Ini /\ Ini # Tgt
  BY PeerAssumption DEF Peer, Other
<1>1. PICK z \in XState :
        /\ Fresh(z.m, "Target") /\ AskedFirst(z) /\ Offered(Tgt, z)
        /\ z.crs = x.crs /\ z.bad = x.bad /\ z.m.con = x.m.con
        /\ y = DoIncoming(z)
  BY StartTargetIs
<1> HIDE DEF y
<1>2. /\ y \in XState /\ y.crs = cr /\ ~y.bad /\ Local(Tgt, y.m)
      /\ \/ /\ y.out = z.out /\ SameProgress(z.m.item, y.m.item)
            /\ SameConnection(z.m, y.m)
         \/ /\ y.out = Append(z.out, a)
            /\ SameProgress(z.m.item, y.m.item) /\ SameConnection(z.m, y.m)
            /\ y.m.item.conn = {} /\ ~Pending(y.m.item)
         \/ y.out = Append(z.out, a) /\ Left(Tgt, y.m)
  BY <1>0, <1>1, DoIncomingIs
<1>3. /\ z.m.item.state = "Target" /\ z.m.entry = "item" /\ z.m.con \in {"Requesting", "Connecting"}
      /\ ~z.m.item.remoteFailed /\ ~ByProxy(z.m.item) /\ z.m.item.fast = z.m.item.task
  <2>1. z.m.item.fast \in BOOLEAN /\ z.m.item.task \in BOOLEAN
    BY XFields DEF Item
  <2>2. z.m.item.fast = z.m.item.task
    BY <1>1, <2>1 DEF AskedFirst
  <2>3. z.m.con \in {"Requesting", "Connecting"}
    BY <1>1 DEF Entered
  <2> QED BY <1>1, <2>2, <2>3 DEF Fresh, ByProxy
<1>4. a \in Stanza /\ a.type = "error" /\ a.id = Ini /\ ~IsRequest(a) /\ Answer(Ini, a)
  <2>1. Ini \in ReqId
    BY <1>0 DEF ReqId
  <2> QED BY <2>1, AnswerTypes DEF RespondError, IsRequest, Answer
<1> HIDE DEF a
<1> DEFINE OwnRequest(out) == \A k \in DOMAIN out : IsRequest(out[k]) =>
                                k = 1 /\ out[k].id = Tgt /\ Owned(out[k].hosts, Tgt)
<1>5. /\ OwnRequest(z.out) /\ OwnRequest(Append(z.out, a))
      /\ Answers(Ini, z.out) = 0 /\ NoAnswer(Ini, z.out) /\ Answers(Ini, Append(z.out, a)) = 1
      /\ ~z.m.item.fast <=> NoRequest(z.out)
      /\ ~z.m.item.fast <=> NoRequest(Append(z.out, a))
      /\ NoResult(Ini, z.out) /\ NoResult(Ini, Append(z.out, a))
  <2> DEFINE Said == /\ OwnRequest(z.out) /\ OwnRequest(Append(z.out, a))
                     /\ Answers(Ini, z.out) = 0 /\ NoAnswer(Ini, z.out)
                     /\ Answers(Ini, Append(z.out, a)) = 1
                     /\ ~z.m.item.fast <=> NoRequest(z.out)
                     /\ ~z.m.item.fast <=> NoRequest(Append(z.out, a))
                     /\ NoResult(Ini, z.out) /\ NoResult(Ini, Append(z.out, a))
  <2>1. ASSUME z.out = <<>>, ~z.m.item.fast
        PROVE  Said
    <3>1. /\ NoRequest(z.out) /\ Answers(Ini, z.out) = 0 /\ NoAnswer(Ini, z.out)
          /\ NoResult(Ini, z.out)
      BY <2>1, OutNone
    <3>2. /\ Append(z.out, a) = <<a>> /\ NoRequest(<<a>>) /\ Answers(Ini, <<a>>) = 1
          /\ DOMAIN <<a>> = {1} /\ <<a>>[1] = a
      BY <1>4, <2>1, OutOne
    <3>3. NoResult(Ini, <<a>>)
      BY <1>4, <3>2 DEF NoResult
    <3>4. /\ NoRequest(Append(z.out, a)) /\ Answers(Ini, Append(z.out, a)) = 1
          /\ NoResult(Ini, Append(z.out, a))
      BY <3>2, <3>3
    <3>5. OwnRequest(z.out) /\ OwnRequest(Append(z.out, a))
      BY <3>1, <3>4 DEF NoRequest
    <3> QED BY <2>1, <3>1, <3>4, <3>5
  <2>2. ASSUME z.m.item.fast, NEW hosts \in SUBSET Stream, Owned(hosts, Tgt),
               z.out = <<Request(Tgt, hosts, FALSE)>>
        PROVE  Said
    <3> DEFINE r == Request(Tgt, hosts, FALSE)
    <3>1. r \in Stanza /\ IsRequest(r) /\ ~Answer(Ini, r) /\ r.id = Tgt /\ r.hosts = hosts
      <4>1. Tgt \in ReqId /\ FALSE \in BOOLEAN
        BY <1>0 DEF ReqId
      <4>2. r \in Stanza
        BY <4>1 DEF Request, Stanza, NoCode
      <4> QED BY <4>2 DEF Request, IsRequest, Answer
    <3>2. z.out = <<r>>
      BY <2>2
    <3> HIDE DEF r
    <3>3. /\ Answers(Ini, <<r>>) = 0 /\ NoAnswer(Ini, <<r>>)
          /\ DOMAIN <<r>> = {1} /\ <<r>>[1] = r
      BY <3>1, OutOne
    <3>4. /\ Append(<<r>>, a) = <<r, a>> /\ Answers(Ini, <<r, a>>) = 1
          /\ DOMAIN <<r, a>> = {1, 2} /\ <<r, a>>[1] = r /\ <<r, a>>[2] = a
      BY <1>4, <3>1, OutTwo
    <3> DEFINE b == Append(z.out, a)
    <3>5. Answers(Ini, b) = 1 /\ DOMAIN b = {1, 2} /\ b[1] = r /\ b[2] = a
      BY <3>2, <3>4
    <3>6. Answers(Ini, z.out) = 0 /\ NoAnswer(Ini, z.out) /\ DOMAIN z.out = {1} /\ z.out[1] = r
      BY <3>2, <3>3
    <3> HIDE DEF b
    <3>7. \A k \in DOMAIN b : IsRequest(b[k]) =>
           k = 1 /\ b[k].id = Tgt /\ Owned(b[k].hosts, Tgt)
      BY <1>4, <2>2, <3>1, <3>5
    <3>8. \A k \in DOMAIN z.out : IsRequest(z.out[k]) =>
           k = 1 /\ z.out[k].id = Tgt /\ Owned(z.out[k].hosts, Tgt)
      BY <2>2, <3>1, <3>6
    <3>9. ~NoRequest(b) /\ ~NoRequest(z.out)
      BY <3>1, <3>5, <3>6 DEF NoRequest
    <3>10. NoResult(Ini, b) /\ NoResult(Ini, z.out)
      BY <1>4, <3>1, <3>5, <3>6 DEF NoResult
    <3> QED BY <2>2, <3>5, <3>6, <3>7, <3>8, <3>9, <3>10 DEF b
  <2> QED BY <1>1, <2>1, <2>2 DEF AskedFirst
<1>6. Common(Tgt, m, y, "nothing")
  <2>0. PhaseStep(m, y.m)
    <3>1. m.con \notin {"Idle", "Active"}
      BY <1>0, BeforeAsking
    <3> QED BY <1>2, <1>3, <3>1 DEF PhaseStep, Left, SameConnection
  <2>1. ~MayAsk(Tgt, y.m) /\ ~y.m.item.remoteFailed
    BY <1>2, <1>3, PeerAssumption DEF MayAsk, SameConnection, SameProgress, Left, NewItem
  <2>2. \A k \in DOMAIN y.out : IsRequest(y.out[k]) =>
          k = 1 /\ y.out[k].id = Tgt /\ Owned(y.out[k].hosts, Tgt)
    BY <1>2, <1>5
  <2>3. CASE y.out = z.out
    BY <1>0, <1>2, <1>5, <2>0, <2>1, <2>2, <2>3 DEF Common
  <2>4. ASSUME y.out = Append(z.out, a), ~Owes(Tgt, y.m)
        PROVE  Common(Tgt, m, y, "nothing")
    BY <1>0, <1>2, <1>5, <2>0, <2>1, <2>2, <2>4 DEF Common
  <2>5. Left(Tgt, y.m) => ~Owes(Tgt, y.m)
    BY DEF Left, Owes, NewItem, Pending
  <2>6. SameConnection(z.m, y.m) /\ y.m.item.conn = {} /\ ~Pending(y.m.item) => ~Owes(Tgt, y.m)
    BY <1>3 DEF Owes, SameConnection
  <2> QED BY <1>2, <2>3, <2>4, <2>5, <2>6
<1>7. TgtStep(m, cr, y, "nothing")
  <2>3. ~MayAsk(Tgt, y.m)
    BY <1>2, <1>3, PeerAssumption DEF MayAsk, SameConnection, Left
  <2>1. CASE Left(Tgt, y.m)
    <3>1. NoResult(Ini, y.out)
      BY <1>2, <1>5
    <3> QED BY <1>2, <2>1, <2>3, <3>1 DEF TgtStep, TgtChoice, Left, NewItem, ByProxy
  <2>2. CASE SameProgress(z.m.item, y.m.item)
    <3>1. y.m.item.state = "Target" /\ y.m.item.fast = z.m.item.fast /\ ~ByProxy(y.m.item)
      BY <1>3, <2>2 DEF SameProgress, ByProxy
    <3>2. (~z.m.item.fast <=> NoRequest(y.out)) /\ NoResult(Ini, y.out)
      BY <1>2, <1>5
    <3>3. z.m.item.fast \in BOOLEAN
      BY XFields DEF Item
    <3>4. TgtChoice(m, y)
      BY <2>3, <3>1, <3>2, <3>3 DEF TgtChoice
    <3> QED BY <1>2, <3>1, <3>2, <3>4 DEF TgtStep
  <2> QED BY <1>2, <2>1, <2>2
<1> QED BY <1>0, <1>6, <1>7, PeerAssumption DEF Contract, y

\* entryContinue() keeps the contract.
LEMMA EntryMoves ==
    ASSUME IInv, NEW p \in Peer, NEW x \in XState, Starting(p, x.m), x.out = <<>>,
           x.crs = cr, ~x.bad, NEW b \in BOOLEAN, MayAsk(p, peer[p]),
           p = Tgt => Owes(Tgt, peer[Tgt]) /\ peer[Tgt].con # "Idle",
           Commit(p, EntryContinue(p, x, b), net)
    PROVE  Move(p)
<1> DEFINE y == [x EXCEPT !.m.entry = "item", !.m.item = [NewItem EXCEPT !.proxy = b]]
           z == IF p = Ini THEN StartInitiator(p, y) ELSE StartTarget(p, y)
<1>1. EntryContinue(p, x, b) = z
  BY Zenon DEF EntryContinue
<1>2. /\ y \in XState /\ SameRest(x, y)
      /\ y.m.item = [NewItem EXCEPT !.proxy = b] /\ y.m.entry = "item"
      /\ y.m.con = x.m.con /\ y.m.sc = x.m.sc /\ y.m.end = x.m.end
      /\ y.m.ended = x.m.ended /\ y.m.req = x.m.req
  BY EntryIs
<1> HIDE DEF y
<1>3. Entered(p, y) /\ y.out = <<>> /\ y.crs = cr /\ ~y.bad
  BY <1>2 DEF Entered, Starting, SameRest
<1>4. Contract(p, peer[p], cr, z, "nothing")
  <2>1. peer[p] \in PeerState /\ Local(p, peer[p])
    BY StartIs
  <2>2. CASE p = Ini
    BY <1>2, <1>3, <2>1, <2>2, StartInitiatorStep
  <2>3. CASE p # Ini
    <3>1. p = Tgt
      BY <2>3 DEF Peer
    <3> QED BY <1>2, <1>3, <2>1, <2>3, <3>1, StartTargetStep
  <2> QED BY <2>2, <2>3
<1> HIDE DEF z
<1> QED BY <1>1, <1>4 DEF Move

\* connectToJid() keeps its contract.
LEMMA ConnectToJidMoves ==
    ASSUME IInv, ConnectToJid
    PROVE  Move(Ini)
<1> DEFINE m == peer[Ini]
           x == [Start(Ini) EXCEPT !.m.con = "Requesting"]
           n == [m EXCEPT !.con = "Requesting"]
<1>0. Ini \in Peer
  BY DEF Peer
<1>1. /\ Start(Ini) \in XState /\ Start(Ini).m = m /\ Start(Ini).out = <<>> /\ Start(Ini).crs = cr
      /\ ~Start(Ini).bad /\ m \in PeerState /\ Local(Ini, m) /\ Owned(m.req.hosts, Other(Ini))
  BY <1>0, StartIs
<1>2. m.con = "Idle" /\ m.ended = "none"
  BY DEF ConnectToJid
<1>3. m.entry = "none" /\ m.item = NewItem /\ m.sc = NoStream /\ MayAsk(Ini, m)
      /\ \A s \in Stream : m.end[s] \in {"none", "closed"}
  <2>1. m.entry = "none" /\ m.item = NewItem /\ m.sc = NoStream
    BY <1>1, <1>2, XFields DEF Local, PlaceOK, NewItem
  <2>2. \A s \in Stream : m.end[s] \in {"none", "closed"}
    <3>1. \A s \in Stream : m.end[s] \in {"none", "dialing", "open", "closed"}
      BY <1>1 DEF PeerState
    <3> QED BY <1>1, <2>1, <3>1, StreamFacts DEF Local, SocketsOK, EndsOK, NewItem
  <2> QED BY <1>2, <2>1, <2>2 DEF MayAsk
<1>4. /\ n \in PeerState /\ n.con = "Requesting" /\ n.sc = m.sc /\ n.entry = m.entry
      /\ n.item = m.item /\ n.end = m.end /\ n.ended = m.ended /\ n.req = m.req
  BY <1>1 DEF PeerState
<1>5. x = [Start(Ini) EXCEPT !.m = n]
  BY <1>1 DEF XState
<1> HIDE DEF n
<1>6. x \in XState /\ x.m = n /\ x.out = <<>> /\ x.crs = cr /\ ~x.bad
  BY <1>1, <1>4, <1>5, PutIs, ZenonT(30) DEF SameRest
<1>7. Starting(Ini, x.m)
  BY <1>1, <1>2, <1>3, <1>4, <1>6 DEF Starting
<1>8. CASE Ini \in hasProxy
  <2> DEFINE o == [n EXCEPT !.entry = "query"]
             y == [x EXCEPT !.m.entry = "query"]
  <2>1. Commit(Ini, y, net)
    BY <1>8 DEF ConnectToJid
  <2>2. /\ o \in PeerState /\ o.con = "Requesting" /\ o.sc = NoStream /\ o.entry = "query"
        /\ o.item = NewItem /\ o.end = m.end /\ o.ended = "none" /\ o.req = m.req
    BY <1>2, <1>3, <1>4 DEF PeerState
  <2>3. y = [x EXCEPT !.m = o]
    BY <1>6 DEF XState
  <2> HIDE DEF o, y, x
  <2>4. y \in XState /\ y.m = o /\ y.out = <<>> /\ y.crs = cr /\ ~y.bad
    BY <1>6, <2>2, <2>3, PutIs DEF SameRest
  <2>5. Local(Ini, o)
    <3>1. PlaceOK(Ini, o)
      BY <1>1, <2>2, StreamFacts DEF PlaceOK, NewItem
    <3>2. SocketsOK(Ini, o)
      BY <1>3, <2>2 DEF SocketsOK, EndsOK, NewItem
    <3>3. ProxyOK(Ini, o) /\ HostsOK(Ini, o) /\ DialOK(Ini, o)
      BY <2>2 DEF ProxyOK, HostsOK, DialOK, Pending, NewItem, Owned
    <3>4. TaskOK(Ini, o) /\ IniOK(o) /\ TgtOK(o) /\ ActiveOK(Ini, o)
      BY <2>2 DEF TaskOK, IniOK, TgtOK, ActiveOK, NewItem
    <3> QED BY <3>1, <3>2, <3>3, <3>4 DEF Local
  <2>6. Common(Ini, m, y, "nothing")
    <3>1. ~Owes(Ini, o) /\ ~o.item.remoteFailed
      BY <2>2, PeerAssumption DEF Owes, Pending, NewItem
    <3>2. PhaseStep(m, o)
      BY <1>2, <2>2 DEF PhaseStep
    <3> QED BY <1>3, <2>4, <2>5, <3>1, <3>2, OutNone DEF Common
  <2>7. IniStep(m, cr, y, "nothing")
    BY <1>3, <2>2, <2>4, OutNone DEF IniStep, IniChoice, NewItem
  <2>8. Contract(Ini, m, cr, y, "nothing")
    BY <2>6, <2>7, PeerAssumption DEF Contract
  <2> QED BY <1>0, <2>1, <2>8 DEF Move
<1>9. CASE Ini \notin hasProxy
  <2>1. Commit(Ini, EntryContinue(Ini, x, FALSE), net)
    BY <1>9 DEF ConnectToJid
  <2> HIDE DEF x
  <2>2. FALSE \in BOOLEAN
    OBVIOUS
  <2> QED BY <1>0, <1>3, <1>6, <1>7, <2>1, <2>2, EntryMoves, PeerAssumption
<1> QED BY <1>8, <1>9

\* accept() keeps its contract.
LEMMA AcceptMoves ==
    ASSUME IInv, Accept(Tgt)
    PROVE  Move(Tgt)
<1> DEFINE m == peer[Tgt]
           x == [Start(Tgt) EXCEPT !.m.con = "Connecting"]
           n == [m EXCEPT !.con = "Connecting"]
<1>0. Tgt \in Peer /\ Tgt # Ini
  BY PeerAssumption DEF Peer
<1>1. /\ Start(Tgt) \in XState /\ Start(Tgt).m = m /\ Start(Tgt).out = <<>> /\ Start(Tgt).crs = cr
      /\ ~Start(Tgt).bad /\ m \in PeerState /\ Local(Tgt, m) /\ Owned(m.req.hosts, Other(Tgt))
  BY <1>0, StartIs
<1>2. m.con = "WaitingForAccept"
  BY DEF Accept
<1>3. /\ m.entry = "bare" /\ m.item = NewItem /\ m.sc = NoStream /\ m.ended = "none"
      /\ MayAsk(Tgt, m) /\ Owes(Tgt, m)
      /\ \A s \in Stream : m.end[s] \in {"none", "closed"}
  <2>1. m.entry = "bare" /\ m.item = NewItem /\ m.sc = NoStream /\ m.ended = "none"
    BY <1>1, <1>2, XFields DEF Local, PlaceOK, NewItem
  <2>2. \A s \in Stream : m.end[s] \in {"none", "closed"}
    <3>1. \A s \in Stream : m.end[s] \in {"none", "dialing", "open", "closed"}
      BY <1>1 DEF PeerState
    <3> QED BY <1>1, <2>1, <3>1, StreamFacts DEF Local, SocketsOK, EndsOK, NewItem
  <2> QED BY <1>2, <2>1, <2>2 DEF MayAsk, Owes
<1>4. /\ n \in PeerState /\ n.con = "Connecting" /\ n.sc = m.sc /\ n.entry = m.entry
      /\ n.item = m.item /\ n.end = m.end /\ n.ended = m.ended /\ n.req = m.req
  BY <1>1 DEF PeerState
<1>5. x = [Start(Tgt) EXCEPT !.m = n]
  BY <1>1 DEF XState
<1> HIDE DEF n
<1>6. x \in XState /\ x.m = n /\ x.out = <<>> /\ x.crs = cr /\ ~x.bad
  BY <1>1, <1>4, <1>5, PutIs, ZenonT(30) DEF SameRest
<1>7. Starting(Tgt, x.m)
  BY <1>1, <1>3, <1>4, <1>6 DEF Starting
<1> DEFINE query == m.req.fast /\ TargetShouldOfferProxy(Tgt)
<1>8. CASE query
  <2> DEFINE o == [n EXCEPT !.entry = "query"]
             y == [x EXCEPT !.m.entry = "query"]
  <2>1. Commit(Tgt, y, net)
    BY <1>8 DEF Accept
  <2>2. /\ o \in PeerState /\ o.con = "Connecting" /\ o.sc = NoStream /\ o.entry = "query"
        /\ o.item = NewItem /\ o.end = m.end /\ o.ended = "none" /\ o.req = m.req
    BY <1>3, <1>4 DEF PeerState
  <2>3. y = [x EXCEPT !.m = o]
    BY <1>6 DEF XState
  <2> HIDE DEF o, y, x
  <2>4. y \in XState /\ y.m = o /\ y.out = <<>> /\ y.crs = cr /\ ~y.bad
    BY <1>6, <2>2, <2>3, PutIs DEF SameRest
  <2>5. Local(Tgt, o)
    <3>1. PlaceOK(Tgt, o)
      BY <1>1, <2>2, StreamFacts DEF PlaceOK, NewItem
    <3>2. SocketsOK(Tgt, o)
      BY <1>3, <2>2 DEF SocketsOK, EndsOK, NewItem
    <3>3. ProxyOK(Tgt, o) /\ HostsOK(Tgt, o) /\ DialOK(Tgt, o)
      BY <2>2 DEF ProxyOK, HostsOK, DialOK, Pending, NewItem, Owned
    <3>4. TaskOK(Tgt, o) /\ IniOK(o) /\ TgtOK(o) /\ ActiveOK(Tgt, o)
      BY <2>2 DEF TaskOK, IniOK, TgtOK, ActiveOK, NewItem
    <3> QED BY <3>1, <3>2, <3>3, <3>4 DEF Local
  <2>6. Common(Tgt, m, y, "nothing")
    <3>1. PhaseStep(m, o)
      BY <1>2, <2>2 DEF PhaseStep
    <3> QED BY <1>3, <2>2, <2>4, <2>5, <3>1, OutNone DEF Common, NewItem
  <2>7. TgtStep(m, cr, y, "nothing")
    <3>1. TgtChoice(m, y)
      BY <2>2, <2>4, OutNone DEF TgtChoice, NewItem
    <3> QED BY <1>2, <1>3, <2>2, <2>4, <3>1, OutNone DEF TgtStep, NewItem, ByProxy
  <2>8. Contract(Tgt, m, cr, y, "nothing")
    BY <1>0, <2>6, <2>7 DEF Contract
  <2> QED BY <1>0, <2>1, <2>8 DEF Move
<1>9. CASE ~query
  <2>1. Commit(Tgt, EntryContinue(Tgt, x, FALSE), net)
    BY <1>9 DEF Accept
  <2> HIDE DEF x
  <2>2. FALSE \in BOOLEAN
    OBVIOUS
  <2> QED BY <1>0, <1>2, <1>3, <1>6, <1>7, <2>1, <2>2, EntryMoves
<1> QED BY <1>8, <1>9

\* The answer to the query of a proxy's address keeps the contract.
LEMMA QueryFinishedMoves ==
    ASSUME IInv, NEW p \in Peer, QueryFinished(p)
    PROVE  Move(p)
<1> DEFINE m == peer[p]
           x == Start(p)
<1>1. /\ x \in XState /\ x.m = m /\ x.out = <<>> /\ x.crs = cr
      /\ ~x.bad /\ m \in PeerState /\ Local(p, m) /\ Owned(m.req.hosts, Other(p))
  BY StartIs
<1>2. m.entry = "query"
  BY DEF QueryFinished
<1>3. /\ m.item = NewItem /\ m.sc = NoStream /\ m.ended = "none"
      /\ m.con \in {"Requesting", "Connecting"}
      /\ \A s \in Stream : m.end[s] \in {"none", "closed"}
  <2>1. m.item = NewItem /\ m.con # "Idle" /\ m.con # "WaitingForAccept" /\ m.ended = "none"
    BY <1>1, <1>2 DEF Local, PlaceOK
  <2>2. m.con # "Active" /\ m.sc = NoStream
    BY <1>1, <2>1 DEF Local, PlaceOK, NewItem
  <2>3. \A s \in Stream : m.end[s] \in {"none", "closed"}
    <3>1. \A s \in Stream : m.end[s] \in {"none", "dialing", "open", "closed"}
      BY <1>1 DEF PeerState
    <3> QED BY <1>1, <2>1, <2>2, <3>1, StreamFacts DEF Local, SocketsOK, EndsOK, NewItem
  <2> QED BY <1>1, <2>1, <2>2, <2>3 DEF PeerState
<1>4. Starting(p, x.m) /\ MayAsk(p, m) /\ (p = Tgt => Owes(Tgt, m))
  BY <1>1, <1>2, <1>3 DEF Starting, MayAsk, Owes
<1>5. PICK ok \in BOOLEAN : Commit(p, EntryContinue(p, x, ok), net)
  BY DEF QueryFinished
<1> HIDE DEF x
<1> QED BY <1>1, <1>3, <1>4, <1>5, EntryMoves

----------------------------------------------------------------------------
(* The stanzas.                                                            *)

\* A new item for the same connection.
With(x, j) == [x EXCEPT !.m = [@ EXCEPT !.item = j]]

\* Replacing the item.
LEMMA WithIs ==
    ASSUME NEW x \in XState, NEW j \in Item
    PROVE  LET y == With(x, j)
           IN  /\ y \in XState /\ y.m \in PeerState /\ y.m.item = j /\ y.m.end = x.m.end
               /\ SameConnection(x.m, y.m) /\ SameRest(x, y)
<1> DEFINE n == [x.m EXCEPT !.item = j]
<1>1. n \in PeerState /\ n.item = j /\ n.end = x.m.end /\ SameConnection(x.m, n)
  BY PutItemIs, XFields
<1>2. With(x, j) = [x EXCEPT !.m = n]
  BY DEF With
<1> HIDE DEF n
<1>3. With(x, j) \in XState /\ With(x, j).m = n /\ SameRest(x, With(x, j))
  BY <1>1, <1>2, PutIs
<1> QED BY <1>1, <1>3

\* A step that takes a stanza.
LEMMA PoppedMoves ==
    ASSUME NEW p \in Peer, net[p] # <<>>, NEW y,
           Contract(p, peer[p], cr, y, Kind(p, Head(net[p]))), Commit(p, y, Popped(p))
    PROVE  Move(p)
  BY DEF Move

\* What is known when a request, or the answer to its own, reaches p.
LEMMA RequestFacts ==
    ASSUME IInv, NEW p \in Peer, net[p] # <<>>, Head(net[p]).type = "request"
    PROVE  LET z == Head(net[p])
               m == peer[p]
           IN  /\ z \in Stanza /\ z.id = Other(p) /\ Owned(z.hosts, Other(p))
               /\ Kind(p, z) = "request"
               /\ ~Owes(p, m) /\ (p = Ini /\ m.item.state = "Initiator" => ~m.item.connSuccess)
<1> DEFINE z == Head(net[p])
           m == peer[p]
           q == Other(p)
<1>0. q \in Peer /\ Other(q) = p /\ p # q
  BY StreamFacts
<1>1. net[p] \in Seq(Stanza) /\ TokenOK(q)
  BY <1>0 DEF IInv, TypeOK, TokenInv
<1>2. z \in Stanza /\ 1 \in DOMAIN net[p] /\ z = net[p][1] /\ IsRequest(z)
  BY <1>1, Taking DEF IsRequest
<1>3. z.id = q /\ Owned(z.hosts, q) /\ ~NoRequest(net[p])
  BY <1>0, <1>1, <1>2 DEF TokenOK, NoRequest
<1>4. ~Owes(p, m) /\ hist.answered[q] = 0
  BY <1>0, <1>1, <1>3 DEF TokenOK
<1>5. p = Ini /\ m.item.state = "Initiator" => ~m.item.connSuccess
  BY <1>4, PeerAssumption DEF IInv, AnswerOK, Confirmed, Other
<1> QED BY <1>2, <1>3, <1>4, <1>5 DEF Kind

\* What is known when the answer to its own request reaches p.
LEMMA AnswerFacts ==
    ASSUME IInv, NEW p \in Peer, net[p] # <<>>, Head(net[p]).type # "request",
           Head(net[p]).id = p
    PROVE  LET z == Head(net[p])
           IN  /\ z \in Stanza /\ Kind(p, z) = z.type /\ z.type \in {"result", "error"}
               /\ \A s : OnlyUsed(p, net[p], s) => z.type = "result" /\ z.used = s
<1> DEFINE z == Head(net[p])
<1>1. net[p] \in Seq(Stanza)
  BY DEF IInv, TypeOK
<1>2. z \in Stanza /\ Answer(p, z) /\ ~IsRequest(z)
  BY <1>1, Taking DEF Answer, IsRequest
<1>3. \A s : OnlyUsed(p, net[p], s) => z.type = "result" /\ z.used = s
  BY <1>1, <1>2, Taking
<1>4. z.type \in {"request", "result", "error"}
  BY <1>2 DEF Stanza
<1> QED BY <1>2, <1>3, <1>4 DEF Kind, IsRequest

\* The target of a fast-mode stream in use has read the CR on it.
LEMMA TakenCR ==
    ASSUME IInv, peer[Tgt].item.state = "Active", peer[Tgt].item.fast
    PROVE  peer[Tgt].sc \in Stream /\ cr[peer[Tgt].sc] = "taken"
<1>1. peer[Tgt] \in PeerState /\ Local(Tgt, peer[Tgt])
  BY StartIs DEF Peer
<1>2. peer[Tgt].sc \in Stream
  BY <1>1 DEF Local, PlaceOK, PeerState
<1> QED BY <1>2 DEF IInv, WrittenOK

\* A handler that changes nothing.
LEMMA QuietSame ==
    ASSUME IInv, NEW p \in Peer, NEW y \in XState, y.m = peer[p], NEW got,
           peer[p].item.state = "Initiator" /\ peer[p].item.targetMode = "Unknown" =>
               got # "request"
    PROVE  Quiet(p, peer[p], y, got)
  BY DEF Quiet, SameConnection

\* An error is one answer, and no success.
LEMMA ErrorAnswer ==
    ASSUME NEW p \in Peer, NEW code \in Codes
    PROVE  LET z == RespondError(Other(p), code)
           IN  /\ z \in Stanza /\ NoRequest(<<z>>) /\ NoResult(Other(p), <<z>>)
               /\ Answers(Other(p), <<z>>) = 1 /\ Append(<<>>, z) = <<z>>
<1> DEFINE z == RespondError(Other(p), code)
<1>1. Other(p) \in ReqId
  BY StreamFacts DEF ReqId
<1>2. z \in Stanza /\ z.type = "error" /\ z.id = Other(p)
  BY <1>1, AnswerTypes DEF RespondError
<1> HIDE DEF z
<1>3. ~IsRequest(z) /\ Answer(Other(p), z)
  BY <1>2 DEF IsRequest, Answer
<1> QED BY <1>2, <1>3, OutOne DEF z

\* A request that is not for a new stream is turned down.
LEMMA BounceMoves ==
    ASSUME IInv, NEW p \in Peer, net[p] # <<>>, Head(net[p]).type = "request",
           ~(peer[p].item.state = "Initiator" /\ peer[p].item.targetMode = "Unknown"),
           ~(p = Tgt /\ peer[p].con = "Idle" /\ peer[p].ended = "none"),
           Commit(p, Send(Start(p), RespondError(Head(net[p]).id, 406)), Popped(p))
    PROVE  Move(p)
<1> DEFINE x == Start(p)
           z == RespondError(Other(p), 406)
           y == Send(x, z)
           m == peer[p]
<1>1. /\ x \in XState /\ x.m = m /\ x.out = <<>> /\ x.crs = cr /\ ~x.bad
      /\ m \in PeerState /\ Local(p, m)
  BY StartIs
<1>2. /\ Head(net[p]).id = Other(p) /\ Kind(p, Head(net[p])) = "request" /\ ~Owes(p, m)
      /\ (p = Ini /\ m.item.state = "Initiator" => ~m.item.connSuccess)
  BY RequestFacts
<1>3. /\ z \in Stanza /\ NoRequest(<<z>>) /\ NoResult(Other(p), <<z>>)
      /\ Answers(Other(p), <<z>>) = 1 /\ Append(<<>>, z) = <<z>>
  <2>1. 406 \in Codes
    BY DEF Codes
  <2> QED BY <2>1, ErrorAnswer
<1>4. Commit(p, y, Popped(p))
  BY <1>2
<1> HIDE DEF x, z
<1>5. y \in XState /\ y.m = m /\ y.crs = cr /\ ~y.bad /\ y.out = <<z>>
  BY <1>1, <1>3, SendIs
<1> HIDE DEF y
<1>6. Contract(p, m, cr, y, "request")
  <2>1. Quiet(p, m, y, "request")
    BY <1>5, QuietSame
  <2>2. m.item.state = "Active" /\ m.item.fast /\ p = Tgt => cr[m.sc] = "taken"
    BY TakenCR
  <2> QED BY <1>1, <1>2, <1>3, <1>5, <2>1, <2>2, QuietStep
<1> QED BY <1>2, <1>4, <1>6, PoppedMoves

\* The initiator takes the hosts of a fast-mode target.
LEMMA HandleFastMoves ==
    ASSUME IInv, net[Ini] # <<>>, Head(net[Ini]).type = "request",
           peer[Ini].item.state = "Initiator", peer[Ini].item.targetMode = "Unknown",
           Commit(Ini, HandleFast(Start(Ini), Head(net[Ini]).hosts, Head(net[Ini]).id), Popped(Ini))
    PROVE  Move(Ini)
<1> DEFINE x == Start(Ini)
           m == peer[Ini]
           i == m.item
           hosts == Head(net[Ini]).hosts
           z == RespondError(Tgt, 406)
           a == RespondError(Tgt, 404)
           j == IF i.client # NoStream THEN [i EXCEPT !.targetMode = "Fast"]
                ELSE [i EXCEPT !.targetMode = "Fast", !.inHosts = hosts, !.inId = Tgt]
           w == With(x, j)
           y == IF i.client # NoStream THEN Send(w, z) ELSE DoIncoming(w)
<1>0. Ini \in Peer /\ Tgt \in Peer /\ Other(Ini) = Tgt /\ Ini # Tgt /\ Tgt \in ReqId
  BY PeerAssumption DEF Peer, Other, ReqId
<1>1. /\ x \in XState /\ x.m = m /\ x.out = <<>> /\ x.crs = cr /\ ~x.bad
      /\ m \in PeerState /\ Local(Ini, m) /\ i \in Item
  BY <1>0, StartIs, XFields
<1>2. /\ Head(net[Ini]) \in Stanza /\ Head(net[Ini]).id = Tgt /\ Owned(hosts, Tgt)
      /\ Kind(Ini, Head(net[Ini])) = "request" /\ ~Owes(Ini, m) /\ ~i.connSuccess
      /\ hosts \in SUBSET Stream
  <2>1. /\ Head(net[Ini]) \in Stanza /\ Head(net[Ini]).id = Tgt /\ Owned(hosts, Tgt)
        /\ Kind(Ini, Head(net[Ini])) = "request" /\ ~Owes(Ini, m) /\ ~i.connSuccess
    BY <1>0, RequestFacts
  <2> QED BY <2>1 DEF Stanza
<1>3. /\ z \in Stanza /\ NoRequest(<<z>>) /\ NoResult(Tgt, <<z>>)
      /\ Answers(Tgt, <<z>>) = 1 /\ Append(<<>>, z) = <<z>>
      /\ a \in Stanza /\ NoRequest(<<a>>) /\ NoResult(Tgt, <<a>>)
      /\ Answers(Tgt, <<a>>) = 1 /\ Append(<<>>, a) = <<a>>
  <2>1. 406 \in Codes /\ 404 \in Codes
    BY DEF Codes
  <2> QED BY <1>0, <2>1, ErrorAnswer
<1>4. Commit(Ini, y, Popped(Ini))
  <2>1. HandleFast(x, hosts, Tgt) = y
    <3>1. CASE i.client # NoStream
      <4>1. [x EXCEPT !.m.item.targetMode = "Fast"] = w
        BY <1>1, <3>1 DEF With
      <4> QED BY Zenon, <1>1, <1>2, <3>1, <4>1 DEF HandleFast
    <3>2. CASE i.client = NoStream
      <4>1. [x EXCEPT !.m.item = [@ EXCEPT !.targetMode = "Fast", !.inHosts = hosts, !.inId = Tgt]] = w
        BY <1>1, <3>2 DEF With
      <4> QED BY Zenon, <1>1, <1>2, <3>2, <4>1 DEF HandleFast
    <3> QED BY <3>1, <3>2
  <2> HIDE DEF y
  <2> QED BY <1>2, <2>1
<1>5. /\ j \in Item /\ j.targetMode = "Fast" /\ j.state = "Initiator"
      /\ j.conn = i.conn /\ j.lateProxy = i.lateProxy /\ j.connSuccess = i.connSuccess
      /\ j.localFailed = i.localFailed /\ j.remoteFailed = i.remoteFailed
      /\ j.activated = i.activated /\ j.allowIncoming = i.allowIncoming /\ j.fast = i.fast
      /\ j.outId = i.outId /\ j.task = i.task /\ j.proxyConn = i.proxyConn
      /\ j.proxyTask = i.proxyTask /\ j.proxy = i.proxy /\ j.client = i.client
      /\ j.clientOut = i.clientOut
      /\ i.client # NoStream => j.inHosts = i.inHosts /\ j.inId = i.inId
      /\ i.client = NoStream => j.inHosts = hosts /\ j.inId = Tgt
  BY <1>0, <1>1, <1>2 DEF Item
<1>6. /\ i.conn = {} /\ ~i.localFailed /\ ~i.lateProxy /\ ~i.activated /\ i.clientOut = NoStream
      /\ i.task /\ ~i.remoteFailed /\ i.outId = Ini
      /\ ~i.proxyConn /\ i.proxyTask = "none"
  <2>1. i.conn = {} /\ ~i.localFailed /\ ~i.lateProxy /\ ~i.activated /\ i.clientOut = NoStream
    BY <1>1 DEF Local, IniOK
  <2>2. i.task /\ ~i.remoteFailed /\ i.outId = Ini
    BY <1>1 DEF Local, TaskOK
  <2>3. ~i.proxyConn /\ i.proxyTask = "none"
    BY <1>1, <2>2, XFields DEF Local, ProxyOK, Item
  <2> QED BY <2>1, <2>2, <2>3
<1> HIDE DEF j, x, z, a
<1>7. /\ w \in XState /\ w.m \in PeerState /\ w.m.item = j /\ w.m.end = m.end
      /\ SameConnection(m, w.m) /\ w.out = <<>> /\ w.crs = cr /\ ~w.bad
  BY <1>1, <1>5, WithIs DEF SameRest
<1> HIDE DEF w
<1>8. /\ PlaceOK(Ini, w.m) /\ SocketsOK(Ini, w.m) /\ ProxyOK(Ini, w.m) /\ HostsOK(Ini, w.m)
      /\ DialOK(Ini, w.m) /\ TaskOK(Ini, w.m) /\ IniOK(w.m) /\ TgtOK(w.m) /\ ActiveOK(Ini, w.m)
  <2>1. PlaceOK(Ini, w.m)
    <3>1. m.entry = "item"
      BY <1>1 DEF Local, PlaceOK, NewItem
    <3> QED BY <1>1, <1>5, <1>7, <3>1 DEF Local, PlaceOK, SameConnection
  <2>2. SocketsOK(Ini, w.m)
    BY <1>1, <1>5, <1>7 DEF Local, SocketsOK, EndsOK, SameConnection
  <2>3. ProxyOK(Ini, w.m)
    BY <1>5, <1>6, <1>7 DEF ProxyOK
  <2>4. HostsOK(Ini, w.m)
    BY <1>0, <1>1, <1>2, <1>5, <1>6, <1>7 DEF Local, HostsOK
  <2>5. DialOK(Ini, w.m)
    BY <1>5, <1>6, <1>7 DEF DialOK, Pending
  <2>6. TaskOK(Ini, w.m)
    BY <1>1, <1>5, <1>6, <1>7 DEF Local, TaskOK
  <2>7. IniOK(w.m)
    BY <1>1, <1>2, <1>5, <1>6, <1>7 DEF Local, IniOK
  <2>8. TgtOK(w.m) /\ ActiveOK(Ini, w.m)
    BY <1>5, <1>7 DEF TgtOK, ActiveOK
  <2> QED BY <2>1, <2>2, <2>3, <2>4, <2>5, <2>6, <2>7, <2>8
<1>9. \A v \in XState : SameConnection(w.m, v.m) /\ SameProgress(j, v.m.item)
                          => Quiet(Ini, m, v, "request")
  <2> SUFFICES ASSUME NEW v \in XState, SameConnection(w.m, v.m), SameProgress(j, v.m.item)
               PROVE  Quiet(Ini, m, v, "request")
    OBVIOUS
  <2>1. SameConnection(m, v.m)
    BY <1>7 DEF SameConnection
  <2> QED BY <1>2, <1>5, <1>6, <2>1 DEF Quiet, SameProgress, ByProxy
<1>10. \A v \in XState : SameConnection(w.m, v.m) /\ v.m.item.conn = {} /\ ~Pending(v.m.item)
                          => ~Owes(Ini, v.m)
  <2>1. m.con # "WaitingForAccept"
    BY <1>0, <1>1 DEF Local, PlaceOK
  <2> QED BY <1>0, <1>7, <2>1 DEF Owes, SameConnection
<1>11. m.con # "Idle"
  BY <1>1, XFields DEF Local, PlaceOK, NewItem
<1>12. Contract(Ini, m, cr, y, "request")
  <2>1. CASE i.client # NoStream
    <3>1. y \in XState /\ y.m = w.m /\ y.crs = cr /\ ~y.bad /\ y.out = <<z>>
      BY <1>3, <1>7, <2>1, SendIs
    <3> HIDE DEF y
    <3>2. Local(Ini, y.m)
      BY <1>8, <3>1 DEF Local
    <3>3. Quiet(Ini, m, y, "request")
      BY <1>5, <1>7, <1>9, <3>1 DEF SameConnection, SameProgress
    <3>4. ~Owes(Ini, y.m)
      BY <1>5, <1>6, <1>7, <1>10, <3>1 DEF Pending, SameConnection
    <3> QED BY <1>0, <1>1, <1>2, <1>3, <1>11, <3>1, <3>2, <3>3, <3>4, QuietStep
  <2>2. CASE i.client = NoStream
    <3>1. Offered(Ini, w)
      BY <1>0, <1>2, <1>5, <1>6, <1>7, <1>8, <2>2 DEF Offered
    <3>2. /\ y \in XState /\ y.crs = cr /\ ~y.bad /\ Local(Ini, y.m)
          /\ \/ /\ y.out = <<>> /\ SameProgress(j, y.m.item) /\ SameConnection(w.m, y.m)
             \/ /\ y.out = <<a>> /\ SameProgress(j, y.m.item) /\ SameConnection(w.m, y.m)
                /\ y.m.item.conn = {} /\ ~Pending(y.m.item)
             \/ y.out = <<a>> /\ Left(Ini, y.m)
      BY <1>0, <1>3, <1>7, <2>2, <3>1, DoIncomingIs DEF a
    <3> HIDE DEF y
    <3>3. CASE y.out = <<>> /\ SameProgress(j, y.m.item) /\ SameConnection(w.m, y.m)
      BY <1>0, <1>1, <1>2, <1>9, <1>11, <3>2, <3>3, OutNone, QuietStep
    <3>4. CASE y.out = <<a>> /\ SameProgress(j, y.m.item) /\ SameConnection(w.m, y.m)
               /\ y.m.item.conn = {} /\ ~Pending(y.m.item)
      BY <1>0, <1>1, <1>2, <1>3, <1>9, <1>10, <1>11, <3>2, <3>4, QuietStep
    <3>5. CASE y.out = <<a>> /\ Left(Ini, y.m)
      BY <1>0, <1>1, <1>2, <1>3, <1>11, <3>2, <3>5, LeftStep
    <3> QED BY <3>2, <3>3, <3>4, <3>5
  <2> QED BY <2>1, <2>2
<1> HIDE DEF y
<1> QED BY <1>0, <1>2, <1>4, <1>12, PoppedMoves

\* A request for a new stream.
LEMMA NewStreamMoves ==
    ASSUME IInv, net[Tgt] # <<>>, Head(net[Tgt]).type = "request",
           peer[Tgt].con = "Idle", peer[Tgt].ended = "none",
           LET z == Head(net[Tgt]) IN
           Commit(Tgt, [Start(Tgt) EXCEPT !.m.con = "WaitingForAccept", !.m.entry = "bare",
                          !.m.req = [hosts |-> z.hosts, fast |-> z.fast]], Popped(Tgt))
    PROVE  Move(Tgt)
<1> DEFINE x == Start(Tgt)
           m == peer[Tgt]
           z == Head(net[Tgt])
           req == [hosts |-> z.hosts, fast |-> z.fast]
           n == [m EXCEPT !.con = "WaitingForAccept", !.entry = "bare", !.req = req]
           y == [x EXCEPT !.m.con = "WaitingForAccept", !.m.entry = "bare", !.m.req = req]
<1>0. Ini \in Peer /\ Tgt \in Peer /\ Other(Tgt) = Ini /\ Ini # Tgt
  BY PeerAssumption DEF Peer, Other
<1>1. /\ x \in XState /\ x.m = m /\ x.out = <<>> /\ x.crs = cr /\ ~x.bad
      /\ m \in PeerState /\ Local(Tgt, m)
  BY <1>0, StartIs
<1>2. z \in Stanza /\ Owned(z.hosts, Ini) /\ Kind(Tgt, z) = "request"
  BY <1>0, RequestFacts
<1>3. req \in [hosts : SUBSET Stream, fast : BOOLEAN] /\ req.hosts = z.hosts
  BY <1>2 DEF Stanza
<1>4. m.entry = "none" /\ m.item = NewItem /\ m.sc = NoStream
      /\ \A s \in Stream : m.end[s] \in {"none", "closed"}
  <2>1. m.entry = "none" /\ m.item = NewItem /\ m.sc = NoStream
    BY <1>1, XFields DEF Local, PlaceOK, NewItem
  <2>2. \A s \in Stream : m.end[s] \in {"none", "closed"}
    <3>1. \A s \in Stream : m.end[s] \in {"none", "dialing", "open", "closed"}
      BY <1>1 DEF PeerState
    <3> QED BY <1>1, <2>1, <3>1, StreamFacts DEF Local, SocketsOK, EndsOK, NewItem
  <2> QED BY <2>1, <2>2
<1>5. Commit(Tgt, y, Popped(Tgt))
  OBVIOUS
<1> HIDE DEF z, req
<1>6. /\ n \in PeerState /\ n.con = "WaitingForAccept" /\ n.entry = "bare" /\ n.req = req
      /\ n.item = m.item /\ n.sc = m.sc /\ n.end = m.end /\ n.ended = m.ended
  BY <1>1, <1>3 DEF PeerState
<1>7. y = [x EXCEPT !.m = n]
  BY <1>1 DEF XState
<1> HIDE DEF n, y, x
<1>8. y \in XState /\ y.m = n /\ y.out = <<>> /\ y.crs = cr /\ ~y.bad
  BY <1>1, <1>6, <1>7, PutIs DEF SameRest
<1>9. Local(Tgt, n)
  <2>1. PlaceOK(Tgt, n)
    BY <1>0, <1>2, <1>3, <1>4, <1>6, StreamFacts DEF PlaceOK, NewItem
  <2>2. SocketsOK(Tgt, n)
    BY <1>4, <1>6 DEF SocketsOK, EndsOK, NewItem
  <2>3. ProxyOK(Tgt, n) /\ HostsOK(Tgt, n) /\ DialOK(Tgt, n)
    BY <1>4, <1>6 DEF ProxyOK, HostsOK, DialOK, Pending, NewItem, Owned
  <2>4. TaskOK(Tgt, n) /\ IniOK(n) /\ TgtOK(n) /\ ActiveOK(Tgt, n)
    BY <1>4, <1>6 DEF TaskOK, IniOK, TgtOK, ActiveOK, NewItem
  <2> QED BY <2>1, <2>2, <2>3, <2>4 DEF Local
<1>10. Common(Tgt, m, y, "request")
  BY <1>4, <1>6, <1>8, <1>9, OutNone DEF Common, PhaseStep, MayAsk, NewItem
<1>11. TgtStep(m, cr, y, "request")
  BY <1>4, <1>6, <1>8, OutNone DEF TgtStep, TgtChoice, NewItem, ByProxy
<1>12. Contract(Tgt, m, cr, y, "request")
  BY <1>0, <1>10, <1>11 DEF Contract
<1> QED BY <1>0, <1>2, <1>5, <1>12, PoppedMoves DEF z

\* Each way ps_incoming() may take keeps the contract.
LEMMA PsIncomingMoves ==
    ASSUME IInv, NEW p \in Peer, net[p] # <<>>, Head(net[p]).type = "request",
           PsIncoming(p, Head(net[p]))
    PROVE  Move(p)
<1> DEFINE z == Head(net[p])
           i == peer[p].item
           known == peer[p].entry = "item"
           fastAllowed == known /\ i.state = "Initiator" /\ i.targetMode = "Unknown"
           wanted == p = Tgt /\ peer[p].con = "Idle" /\ peer[p].ended = "none"
<1>1. \/ fastAllowed /\ Commit(p, HandleFast(Start(p), z.hosts, z.id), Popped(p))
      \/ ~fastAllowed /\ (known \/ ~wanted) /\ Commit(p, Send(Start(p), RespondError(z.id, 406)), Popped(p))
      \/ wanted /\ Commit(p, [Start(p) EXCEPT !.m.con = "WaitingForAccept", !.m.entry = "bare",
                            !.m.req = [hosts |-> z.hosts, fast |-> z.fast]], Popped(p))
  BY DEF PsIncoming
<1>2. (fastAllowed => p = Ini) /\ (i.state = "Initiator" => known) /\ (known => ~wanted)
  <2>1. Local(p, peer[p])
    BY StartIs
  <2> QED BY <2>1 DEF Local, PlaceOK, NewItem
<1> QED BY <1>1, <1>2, HandleFastMoves, BounceMoves, NewStreamMoves

\* The answer to its own request: the task is gone.
AnsweredItem(i) ==
    [i EXCEPT !.task = FALSE,
              !.targetMode = IF i.state = "Initiator" /\ i.targetMode = "Unknown"
                             THEN "NotFast" ELSE i.targetMode]
\* The client as it is once the answer is in and before it is looked at.
Answered(p) == With(Start(p), AnsweredItem(peer[p].item))

\* What an answered client looks like.
LEMMA AnsweredIs ==
    ASSUME IInv, NEW p \in Peer, peer[p].item.task
    PROVE  LET w == Answered(p)
               m == peer[p]
               i == m.item
               j == w.m.item
           IN  /\ w \in XState /\ w.m \in PeerState /\ w.m.end = m.end /\ SameConnection(m, w.m)
               /\ w.out = <<>> /\ w.crs = cr /\ ~w.bad
               /\ j = AnsweredItem(i) /\ j \in Item /\ ~j.task
               /\ PlaceOK(p, w.m) /\ SocketsOK(p, w.m) /\ ProxyOK(p, w.m) /\ HostsOK(p, w.m)
               /\ TaskOK(p, w.m) /\ IniOK(w.m) /\ TgtOK(w.m) /\ ActiveOK(p, w.m)
<1> DEFINE x == Start(p)
           m == peer[p]
           i == m.item
           j == AnsweredItem(i)
           w == With(x, j)
<1>1. /\ x \in XState /\ x.m = m /\ x.out = <<>> /\ x.crs = cr /\ ~x.bad
      /\ m \in PeerState /\ Local(p, m) /\ i \in Item
  BY StartIs, XFields
<1>2. /\ j \in Item /\ ~j.task
      /\ (j.targetMode # "Unknown" \/ j.state # "Initiator")
      /\ (j.targetMode = "Fast" <=> i.targetMode = "Fast")
      /\ j.conn = i.conn /\ j.lateProxy = i.lateProxy /\ j.connSuccess = i.connSuccess
      /\ j.localFailed = i.localFailed /\ j.remoteFailed = i.remoteFailed
      /\ j.activated = i.activated /\ j.allowIncoming = i.allowIncoming /\ j.fast = i.fast
      /\ j.outId = i.outId /\ j.proxyConn = i.proxyConn /\ j.state = i.state
      /\ j.proxyTask = i.proxyTask /\ j.proxy = i.proxy /\ j.client = i.client
      /\ j.clientOut = i.clientOut /\ j.inHosts = i.inHosts /\ j.inId = i.inId
  <2>1. i.targetMode \in {"Unknown", "Fast", "NotFast"}
    BY <1>1 DEF Item
  <2> DEFINE mode == IF i.state = "Initiator" /\ i.targetMode = "Unknown" THEN "NotFast"
                     ELSE i.targetMode
  <2>2. /\ mode \in {"Unknown", "Fast", "NotFast"} /\ (mode # "Unknown" \/ i.state # "Initiator")
        /\ (mode = "Fast" <=> i.targetMode = "Fast")
    BY <2>1
  <2>3. j = [i EXCEPT !.task = FALSE, !.targetMode = mode]
    BY DEF AnsweredItem
  <2> HIDE DEF mode, j
  <2>4. j.targetMode = mode /\ j.state = i.state /\ ~j.task
    BY <1>1, <2>3 DEF Item
  <2>5. j \in Item
    BY <1>1, <2>2, <2>3 DEF Item
  <2>6. /\ j.conn = i.conn /\ j.lateProxy = i.lateProxy /\ j.connSuccess = i.connSuccess
        /\ j.localFailed = i.localFailed /\ j.remoteFailed = i.remoteFailed
        /\ j.activated = i.activated /\ j.allowIncoming = i.allowIncoming /\ j.fast = i.fast
        /\ j.outId = i.outId /\ j.proxyConn = i.proxyConn
        /\ j.proxyTask = i.proxyTask /\ j.proxy = i.proxy /\ j.client = i.client
        /\ j.clientOut = i.clientOut /\ j.inHosts = i.inHosts /\ j.inId = i.inId
    BY <1>1, <2>3 DEF Item
  <2> QED BY <2>2, <2>4, <2>5, <2>6
<1> HIDE DEF x, j
<1>3. /\ w \in XState /\ w.m \in PeerState /\ w.m.item = j /\ w.m.end = m.end
      /\ SameConnection(m, w.m) /\ w.out = <<>> /\ w.crs = cr /\ ~w.bad
  BY <1>1, <1>2, WithIs DEF SameRest
<1> HIDE DEF w
<1>4. PlaceOK(p, w.m)
  <2>1. m.entry = "item"
    BY <1>1 DEF Local, PlaceOK, NewItem
  <2> QED BY <1>1, <1>2, <1>3, <2>1 DEF Local, PlaceOK, SameConnection
<1>5. SocketsOK(p, w.m)
  BY <1>1, <1>2, <1>3 DEF Local, SocketsOK, EndsOK, SameConnection
<1>6. ProxyOK(p, w.m)
  BY <1>1, <1>2, <1>3 DEF Local, ProxyOK
<1>7. HostsOK(p, w.m)
  BY <1>1, <1>2, <1>3 DEF Local, HostsOK
<1>8. TaskOK(p, w.m)
  BY <1>1, <1>2, <1>3 DEF Local, TaskOK
<1>9. IniOK(w.m) /\ TgtOK(w.m)
  BY <1>1, <1>2, <1>3 DEF Local, IniOK, TgtOK
<1>10. ActiveOK(p, w.m)
  BY <1>1, <1>2, <1>3, PeerAssumption DEF Local, ActiveOK, SameConnection
<1>11. j.task = FALSE
  BY <1>1 DEF j, AnsweredItem, Item
<1> QED BY <1>2, <1>3, <1>4, <1>5, <1>6, <1>7, <1>8, <1>9, <1>10, <1>11 DEF Answered, x, w, j

\* What the task stood for while it was there.
LEMMA TaskWas ==
    ASSUME IInv, NEW p \in Peer, peer[p].item.task
    PROVE  LET m == peer[p]
               i == m.item
               j == AnsweredItem(i)
           IN  /\ i \in Item /\ m.entry = "item" /\ m.con # "Idle"
               /\ i.outId = p /\ ~i.remoteFailed /\ ~i.proxyConn /\ i.proxyTask = "none"
               /\ ~(i.lateProxy /\ i.localFailed) /\ (~i.activated \/ i.state = "Active")
               /\ p = Ini => i.state = "Initiator" /\ ~i.activated
               /\ p = Tgt => i.state \in {"Target", "Active"} /\ i.fast
               /\ i.state = "Active" => i.conn = {} /\ i.client = NoStream /\ i.connSuccess
                                        /\ ~i.lateProxy /\ m.sc = Direct(Tgt) /\ p = Tgt
               /\ i.conn # {} \/ i.lateProxy =>
                    /\ i.state \in {"Initiator", "Target"} /\ Owes(p, m)
                    /\ ~i.connSuccess /\ ~i.localFailed /\ i.clientOut = NoStream
                    /\ i.state = "Initiator" => i.targetMode = "Fast"
               /\ j.conn = i.conn /\ j.lateProxy = i.lateProxy /\ j.connSuccess = i.connSuccess
               /\ j.localFailed = i.localFailed /\ j.remoteFailed = i.remoteFailed
               /\ j.activated = i.activated /\ j.allowIncoming = i.allowIncoming /\ j.fast = i.fast
               /\ j.outId = i.outId /\ j.proxyConn = i.proxyConn /\ j.state = i.state
               /\ j.proxyTask = i.proxyTask /\ j.proxy = i.proxy /\ j.client = i.client
               /\ j.clientOut = i.clientOut /\ j.inHosts = i.inHosts /\ j.inId = i.inId
               /\ ~j.task /\ (j.state = "Initiator" => j.targetMode # "Unknown")
               /\ (j.targetMode = "Fast" <=> i.targetMode = "Fast")
               /\ \/ j.targetMode = i.targetMode
                  \/ j.targetMode = "NotFast" /\ i.state = "Initiator" /\ i.targetMode = "Unknown"
<1> DEFINE m == peer[p]
           i == m.item
           j == AnsweredItem(i)
<1>1. m \in PeerState /\ Local(p, m) /\ i \in Item /\ p \in {Ini, Tgt}
  BY StartIs, XFields DEF Peer
<1>2. /\ j.conn = i.conn /\ j.lateProxy = i.lateProxy /\ j.connSuccess = i.connSuccess
      /\ j.localFailed = i.localFailed /\ j.remoteFailed = i.remoteFailed
      /\ j.activated = i.activated /\ j.allowIncoming = i.allowIncoming /\ j.fast = i.fast
      /\ j.outId = i.outId /\ j.proxyConn = i.proxyConn /\ j.state = i.state
      /\ j.proxyTask = i.proxyTask /\ j.proxy = i.proxy /\ j.client = i.client
      /\ j.clientOut = i.clientOut /\ j.inHosts = i.inHosts /\ j.inId = i.inId
      /\ ~j.task /\ (j.state = "Initiator" => j.targetMode # "Unknown")
      /\ (j.targetMode = "Fast" <=> i.targetMode = "Fast")
      /\ \/ j.targetMode = i.targetMode
         \/ j.targetMode = "NotFast" /\ i.state = "Initiator" /\ i.targetMode = "Unknown"
  BY <1>1 DEF Item, AnsweredItem
<1> HIDE DEF j
<1>3. m.entry = "item" /\ m.con # "Idle" /\ i.state \in {"Initiator", "Target", "Active"}
      /\ (i.state = "Initiator" => p = Ini) /\ (i.state = "Target" => p = Tgt)
  BY <1>1 DEF Local, PlaceOK, NewItem, Item
<1>4. i.outId = p /\ ~i.remoteFailed
  BY <1>1 DEF Local, TaskOK
<1>5. ~i.proxyConn /\ i.proxyTask = "none"
  <2>1. ~(i.proxyConn \/ i.proxyTask # "none")
    BY <1>1 DEF Local, ProxyOK
  <2> QED BY <2>1
<1>6. p = Ini => i.state # "Active"
  BY <1>1, PeerAssumption DEF Local, ActiveOK
<1>7. /\ i.state = "Initiator" => ~i.activated
      /\ i.state = "Target" => i.fast /\ ~i.activated
  BY <1>1 DEF Local, TaskOK, TgtOK
<1>8. i.state = "Active" => i.conn = {} /\ i.client = NoStream /\ i.connSuccess
                            /\ ~i.lateProxy /\ m.sc = Direct(Tgt) /\ p = Tgt /\ i.fast
  BY <1>1, <1>6 DEF Local, ActiveOK
<1>9. ~(i.lateProxy /\ i.localFailed)
  BY <1>1 DEF Local, DialOK
<1>10. i.conn # {} \/ i.lateProxy =>
         /\ i.state \in {"Initiator", "Target"} /\ Owes(p, m)
         /\ ~i.connSuccess /\ ~i.localFailed /\ i.clientOut = NoStream
         /\ i.state = "Initiator" => i.targetMode = "Fast"
  BY <1>1, <1>9 DEF Local, DialOK, Owes, Pending
<1> QED BY <1>1, <1>2, <1>3, <1>4, <1>5, <1>6, <1>7, <1>8, <1>9, <1>10, PeerAssumption DEF j

\* The three ways jt_finished() may take.
LEMMA AnsweredShape ==
    ASSUME IInv, NEW p \in Peer, peer[p].item.task, NEW z
    PROVE  LET i == peer[p].item
               y == Answered(p)
           IN  JtFinished(p, Start(p), z) =
                 CASE i.state = "Initiator" /\ i.connSuccess -> TryActivation(y)
                   [] ~(i.state = "Initiator" /\ i.connSuccess) /\ z.type = "result" ->
                         JtSuccess(p, y, z.used)
                   [] ~(i.state = "Initiator" /\ i.connSuccess) /\ z.type = "error" ->
                         JtError(y, z.code)
<1> DEFINE x == Start(p)
           i == x.m.item
           mode == IF i.state = "Initiator" /\ i.targetMode = "Unknown" THEN "NotFast"
                   ELSE i.targetMode
           y == [x EXCEPT !.m.item = [i EXCEPT !.task = FALSE, !.targetMode = mode]]
<1>1. x \in XState /\ x.m = peer[p] /\ x.m \in PeerState /\ i \in Item
  BY StartIs, XFields
<1>2. y = With(x, AnsweredItem(i))
  BY <1>1 DEF XState, PeerState, Item, With, AnsweredItem
<1>3. y = Answered(p)
  BY <1>1, <1>2 DEF Answered
<1>4. JtFinished(p, x, z) =
                 CASE i.state = "Initiator" /\ i.connSuccess -> TryActivation(y)
                   [] ~(i.state = "Initiator" /\ i.connSuccess) /\ z.type = "result" ->
                         JtSuccess(p, y, z.used)
                   [] ~(i.state = "Initiator" /\ i.connSuccess) /\ z.type = "error" ->
                         JtError(y, z.code)
  BY Zenon DEF JtFinished
<1> HIDE DEF x, y
<1> QED BY Zenon, <1>1, <1>3, <1>4 DEF x

\* The initiator goes on with a candidate it has just got, or may use at last.
LEMMA ActivationStep ==
    ASSUME IInv, NEW x \in XState, NEW got,
           Local(Ini, x.m), Settled(x.m), x.m.item.state = "Initiator",
           ~x.m.item.activated, x.m.item.client # NoStream, x.m.item.targetMode # "Unknown",
           x.crs = cr, ~x.bad,
           peer[Ini].item.state = "Initiator", ~peer[Ini].item.activated,
           x.m.item.targetMode = "Fast" <=> peer[Ini].item.targetMode = "Fast",
           got # "request",
           x.m.item.targetMode # "Fast" =>
               \/ got = "result" /\ x.m.item.client = Head(net[Ini]).used
               \/ ByProxy(peer[Ini].item) /\ x.m.item.client = Proxy(Ini),
           x.m.item.remoteFailed => peer[Ini].item.remoteFailed \/ got = "error",
           NoRequest(x.out), NoResult(Tgt, x.out) \/ x.m.item.connSuccess,
           \/ Answers(Tgt, x.out) = 0 /\ NoAnswer(Tgt, x.out)
           \/ Answers(Tgt, x.out) = 1 /\ (Owes(Ini, peer[Ini]) \/ got = "request"),
           x.m.item.client.owner = Ini =>
               /\ ~peer[Ini].item.connSuccess /\ NoResult(Tgt, x.out)
               /\ ~peer[Ini].item.task \/ got = "result",
           \/ ~x.m.item.connSuccess /\ ~peer[Ini].item.connSuccess
           \/ /\ x.m.item.connSuccess /\ peer[Ini].item.connSuccess
              /\ x.m.item.client = peer[Ini].item.client /\ Answers(Tgt, x.out) = 0
           \/ /\ x.m.item.connSuccess
              /\ Answers(Tgt, x.out) = 1 /\ OnlyUsed(Tgt, x.out, x.m.item.client)
    PROVE  Contract(Ini, peer[Ini], cr, TryActivation(x), got)
<1> DEFINE m == peer[Ini]
           i == m.item
           y == TryActivation(x)
           j == y.m.item
           s == x.m.item.client
<1>0. Ini \in Peer /\ Other(Ini) = Tgt /\ Ini # Tgt /\ s \in Stream /\ cr \in [Stream -> CRs]
  BY PeerAssumption, XFields DEF Peer, Other
<1>1. /\ y \in XState /\ y.out = x.out /\ y.bad = x.bad /\ Local(Ini, y.m)
      /\ j.conn = {} /\ ~Pending(j) /\ y.m.con # "Idle" /\ y.m.entry = "item"
      /\ j.targetMode = x.m.item.targetMode /\ j.remoteFailed = x.m.item.remoteFailed
      /\ \/ /\ x.m.item.targetMode = "NotFast" /\ y.crs = x.crs
            /\ j.state = "Active" /\ y.m.sc = s
         \/ /\ x.m.item.targetMode = "Fast" /\ y.crs = [x.crs EXCEPT ![s] = "sent"]
            /\ j.state = "Initiator" /\ j.activated
            /\ j.client = s /\ j.connSuccess = x.m.item.connSuccess
  BY TryActivationIs
<1>2. /\ x.m.item.targetMode = "NotFast" => ~x.m.item.connSuccess
      /\ ~x.m.item.connSuccess => s.owner = Ini
      /\ x.m.item.connSuccess => s.owner = Tgt
  BY DEF Local, IniOK
<1> HIDE DEF y
<1>3. Common(Ini, m, y, got)
  <2>1. y.m.con # "WaitingForAccept"
    BY <1>1 DEF Local, PlaceOK
  <2>2. ~MayAsk(Ini, y.m) /\ ~Owes(Ini, y.m)
    BY <1>0, <1>1, <2>1 DEF MayAsk, Owes
  <2>3. PhaseStep(m, y.m)
    <3>1. Local(Ini, m)
      BY <1>0, StartIs
    <3>2. m.con # "Idle" /\ m.con # "Active"
      BY <3>1 DEF Local, PlaceOK, NewItem
    <3> QED BY <1>1, <3>2 DEF PhaseStep
  <2> QED BY <1>0, <1>1, <2>2, <2>3 DEF Common, NoRequest
<1>5. IniChoice(m, y, got)
  BY <1>1 DEF IniChoice
<1>4. IniStep(m, cr, y, got)
  <2>1. CASE j.state = "Active"
    BY <1>1, <1>2, <1>5, <2>1 DEF IniStep
  <2>2. CASE j.state = "Initiator"
    <3>1. /\ y.crs = [cr EXCEPT ![s] = "sent"] /\ y.crs[s] = "sent" /\ j.activated /\ j.client = s
          /\ j.connSuccess = x.m.item.connSuccess /\ j.targetMode = "Fast"
          /\ i.targetMode = "Fast"
      BY <1>0, <1>1, <2>2
    <3> QED BY <1>0, <1>1, <1>2, <1>5, <2>2, <3>1 DEF IniStep
  <2> QED BY <1>1, <2>1, <2>2
<1> QED BY <1>0, <1>3, <1>4 DEF Contract, y

\* The target goes on with a candidate, if there is one it may go on with.
LEMMA TakingStep ==
    ASSUME IInv, NEW x \in XState, NEW got,
           Local(Tgt, x.m), Settled(x.m), x.m.item.state = "Target",
           x.m.item.task => x.m.item.connSuccess /\ ~x.m.item.lateProxy,
           x.m.item.task /\ x.m.item.clientOut # NoStream =>
               x.crs[x.m.item.clientOut] # "arrived",
           \A s \in Stream : x.crs[s] = "none" <=> cr[s] = "none", ~x.bad,
           peer[Tgt].item.state = "Target", x.m.item.fast = peer[Tgt].item.fast,
           x.m.item.remoteFailed => peer[Tgt].item.remoteFailed \/ got = "error",
           NoRequest(x.out),
           \/ x.m.item.fast
           \/ /\ x.m.item.clientOut # NoStream /\ ~NoResult(Ini, x.out)
              /\ OnlyUsed(Ini, x.out, x.m.item.clientOut),
           \/ Answers(Ini, x.out) = 0 /\ NoAnswer(Ini, x.out)
           \/ Answers(Ini, x.out) = 1 /\ (Owes(Tgt, peer[Tgt]) \/ got = "request")
    PROVE  Contract(Tgt, peer[Tgt], cr, CheckForActivation(x), got)
<1> DEFINE m == peer[Tgt]
           i == m.item
           y == CheckForActivation(x)
           j == y.m.item
<1>0. Tgt \in Peer /\ Other(Tgt) = Ini /\ Ini # Tgt /\ x.crs \in [Stream -> CRs]
  BY PeerAssumption, XFields DEF Peer, Other
<1>1. /\ y \in XState /\ y.out = x.out /\ y.bad = x.bad /\ Local(Tgt, y.m)
      /\ ((y = x /\ Choices(x) = {}) \/ \E s \in Stream : TakesUp(x, y, s))
  BY CheckForActivationIs
<1>2. m.entry = "item" /\ m.con # "Idle" /\ m.con # "Active"
  <2>1. Local(Tgt, m)
    BY <1>0, StartIs
  <2> QED BY <2>1 DEF Local, PlaceOK, NewItem
<1>8. ~x.m.item.fast =>
        \E s \in Stream : TakesUp(x, y, s) /\ s = x.m.item.clientOut
  <2> HIDE DEF y
  <2>1. ~x.m.item.fast => x.m.item.client = NoStream
    BY DEF Local, TgtOK
  <2>2. x.m.item.clientOut # NoStream /\ ~x.m.item.fast => Choices(x) # {}
    BY DEF Choices
  <2> QED BY <1>1, <2>1, <2>2 DEF TakesUp
<1> HIDE DEF y
<1>3. /\ j.conn = {} /\ ~Pending(j) /\ ~ByProxy(j) /\ j.state \in {"Target", "Active"}
      /\ j.remoteFailed = x.m.item.remoteFailed /\ j.fast = x.m.item.fast
  BY <1>1 DEF Settled, TakesUp, ByProxy
<1>4. /\ \A s \in Stream : y.crs[s] = "none" <=> cr[s] = "none"
      /\ j.state = "Active" /\ j.fast => y.crs[y.m.sc] = "taken"
  <2>1. CASE y = x
    BY <2>1
  <2>2. ASSUME NEW s \in Stream, TakesUp(x, y, s)
        PROVE  /\ \A t \in Stream : y.crs[t] = "none" <=> cr[t] = "none"
               /\ j.state = "Active" /\ j.fast => y.crs[y.m.sc] = "taken"
    BY <1>0, <2>2 DEF TakesUp
  <2> QED BY <1>1, <2>1, <2>2
<1>5. ~MayAsk(Tgt, y.m) /\ ~Owes(Tgt, y.m)
  <2>1. y.m.entry = "item" /\ y.m.con # "WaitingForAccept" /\ y.m.con # "Idle"
    BY <1>1, <1>3 DEF Local, PlaceOK, NewItem
  <2> QED BY <1>3, <2>1 DEF MayAsk, Owes
<1>6. Common(Tgt, m, y, got)
  <2>1. y.m.con # "Idle"
    BY <1>1, <1>3 DEF Local, PlaceOK, NewItem
  <2>2. PhaseStep(m, y.m)
    BY <1>2, <2>1 DEF PhaseStep
  <2> QED BY <1>0, <1>1, <1>3, <1>5, <2>2 DEF Common, NoRequest
<1>9. TgtChoice(m, y)
  <2>1. CASE x.m.item.fast
    BY <1>2, <1>3, <1>5, <2>1 DEF TgtChoice
  <2>2. CASE ~x.m.item.fast
    <3>1. j.state = "Active" /\ y.m.sc = x.m.item.clientOut
      BY <1>8, <2>2 DEF TakesUp
    <3> QED BY <1>1, <1>2, <1>3, <1>5, <2>2, <3>1 DEF TgtChoice
  <2> QED BY <2>1, <2>2
<1>7. TgtStep(m, cr, y, got)
  BY <1>2, <1>3, <1>4, <1>9 DEF TgtStep
<1> QED BY <1>0, <1>6, <1>7 DEF Contract, y

\* The connector gives up on some of its hosts.
Without(i, streams) == [i EXCEPT !.conn = @ \ streams]
\* Giving up on hosts deletes their sockets too.
Undialled(x, streams) == With(DropMany(x, streams), Without(x.m.item, streams))

\* Deleting sockets leaves the item.
LEMMA DroppedIs ==
    ASSUME NEW x \in XState, NEW S
    PROVE  LET d == DropMany(x, S)
           IN  /\ d \in XState /\ SameRest(x, d) /\ d.m.item = x.m.item
               /\ SameConnection(x.m, d.m) /\ d.m.end = Closing(x.m.end, S)
<1> DEFINE d == DropMany(x, S)
           n == [x.m EXCEPT !.end = Closing(x.m.end, S)]
<1>1. /\ n.item = x.m.item /\ SameConnection(x.m, n) /\ n.end = Closing(x.m.end, S)
      /\ d \in XState /\ d.m = n /\ SameRest(x, d)
  BY DropManyIs
<1> HIDE DEF n, d
<1> QED BY <1>1 DEF d

\* The same for one socket.
LEMMA DroppedOneIs ==
    ASSUME NEW x \in XState, NEW s \in Stream \cup {NoStream}
    PROVE  LET d == Drop(x, s)
           IN  /\ d \in XState /\ SameRest(x, d) /\ d.m \in PeerState /\ d.m.item = x.m.item
               /\ SameConnection(x.m, d.m) /\ d.m.end = Closing(x.m.end, {s})
<1> DEFINE d == Drop(x, s)
           n == [x.m EXCEPT !.end = Closing(x.m.end, {s})]
<1>1. /\ n.item = x.m.item /\ SameConnection(x.m, n) /\ n.end = Closing(x.m.end, {s})
      /\ d \in XState /\ d.m = n /\ SameRest(x, d) /\ n \in PeerState
  BY DropIs
<1> HIDE DEF n, d
<1> QED BY <1>1 DEF d

\* Giving up on hosts leaves the rest.
LEMMA UndialledIs ==
    ASSUME NEW p \in Peer, NEW x \in XState, NEW S \in SUBSET Stream, S \subseteq x.m.item.conn,
           PlaceOK(p, x.m), SocketsOK(p, x.m), ProxyOK(p, x.m), HostsOK(p, x.m),
           TaskOK(p, x.m), IniOK(x.m), TgtOK(x.m), ActiveOK(p, x.m)
    PROVE  LET y == Undialled(x, S)
               i == x.m.item
               j == y.m.item
           IN  /\ y \in XState /\ SameRest(x, y) /\ SameConnection(x.m, y.m)
               /\ SameProgress(i, j) /\ j.conn = i.conn \ S
               /\ j.lateProxy = i.lateProxy /\ j.localFailed = i.localFailed
               /\ j.allowIncoming = i.allowIncoming /\ j.clientOut = i.clientOut
               /\ j.inHosts = i.inHosts /\ j.inId = i.inId
               /\ PlaceOK(p, y.m) /\ SocketsOK(p, y.m) /\ ProxyOK(p, y.m) /\ HostsOK(p, y.m)
               /\ TaskOK(p, y.m) /\ IniOK(y.m) /\ TgtOK(y.m) /\ ActiveOK(p, y.m)
<1> DEFINE i == x.m.item
           j == Without(i, S)
           d == DropMany(x, S)
           y == With(d, j)
<1>1. i \in Item /\ x.m.end \in [Stream -> {"none", "dialing", "open", "closed"}]
  BY XFields
<1>2. /\ j \in Item /\ SameProgress(i, j) /\ j.conn = i.conn \ S
      /\ j.lateProxy = i.lateProxy /\ j.localFailed = i.localFailed
      /\ j.allowIncoming = i.allowIncoming /\ j.clientOut = i.clientOut
      /\ j.inHosts = i.inHosts /\ j.inId = i.inId /\ j.outId = i.outId
  BY <1>1 DEF Without, Item, SameProgress
<1>3. /\ d \in XState /\ SameRest(x, d) /\ d.m.item = i /\ SameConnection(x.m, d.m)
      /\ d.m.end = Closing(x.m.end, S)
  BY DroppedIs
<1> HIDE DEF j, d
<1>4. /\ y \in XState /\ y.m.item = j /\ y.m.end = Closing(x.m.end, S)
      /\ SameConnection(x.m, y.m) /\ SameRest(x, y)
  BY <1>2, <1>3, WithIs DEF SameConnection, SameRest
<1> HIDE DEF y
<1>5. \A s \in Stream :
        /\ s \in S => y.m.end[s] \in {"none", "closed"}
        /\ s \notin S => y.m.end[s] = x.m.end[s]
  BY <1>1, <1>4, ClosingIs
<1> USE DEF SameProgress, SameConnection
<1>6. PlaceOK(p, y.m)
  <2>1. CASE x.m.entry = "item"
    BY <1>2, <1>4, <2>1 DEF PlaceOK
  <2>2. CASE x.m.entry # "item"
    <3>1. i = NewItem /\ i.conn = {}
      BY <2>2 DEF PlaceOK, NewItem
    <3>2. j = i
      BY <1>1, <3>1 DEF j, Without, Item
    <3> QED BY <1>4, <3>2 DEF PlaceOK
  <2> QED BY <2>1, <2>2
<1>7. SocketsOK(p, y.m)
  BY <1>2, <1>4, <1>5 DEF SocketsOK, EndsOK
<1>8. ProxyOK(p, y.m) /\ HostsOK(p, y.m)
  BY <1>2, <1>4 DEF ProxyOK, HostsOK, Pending
<1>9. TaskOK(p, y.m) /\ IniOK(y.m) /\ TgtOK(y.m)
  BY <1>2, <1>4 DEF TaskOK, IniOK, TgtOK
<1>10. ActiveOK(p, y.m)
  BY <1>2, <1>4 DEF ActiveOK
<1> QED BY <1>2, <1>4, <1>6, <1>7, <1>8, <1>9, <1>10 DEF Undialled, y, d, j

\* The answer to a stream host the client was dialling: it gives up.
Stop(x) ==
    IF x.m.item.conn # {} \/ x.m.item.lateProxy
    THEN DoConnectError([DropMany(x, x.m.item.conn) EXCEPT !.m.item.conn = {}])
    ELSE x

\* What stopping to dial leaves, and answers.
LEMMA StopIs ==
    ASSUME IInv, NEW p \in Peer, peer[p].item.task
    PROVE  LET u == Stop(Answered(p))
               m == peer[p]
               i == m.item
               j == u.m.item
           IN  /\ u \in XState /\ u.crs = cr /\ ~u.bad /\ Local(p, u.m) /\ SameConnection(m, u.m)
               /\ SameProgress(AnsweredItem(i), j) /\ j.conn = {} /\ ~Pending(j)
               /\ ~Owes(p, u.m) /\ NoRequest(u.out) /\ NoResult(Other(p), u.out)
               /\ \/ Answers(Other(p), u.out) = 0 /\ NoAnswer(Other(p), u.out)
                  \/ Answers(Other(p), u.out) = 1 /\ Owes(p, m)
<1> DEFINE w == Answered(p)
           u == Stop(w)
           m == peer[p]
           i == m.item
           k == w.m.item
           v == Undialled(w, k.conn)
           a == RespondError(Other(p), 404)
<1>0. k = AnsweredItem(i) /\ k \in Item
  BY AnsweredIs
<1>1. /\ w \in XState /\ SameConnection(m, w.m) /\ w.out = <<>> /\ w.crs = cr /\ ~w.bad
      /\ PlaceOK(p, w.m) /\ SocketsOK(p, w.m) /\ ProxyOK(p, w.m) /\ HostsOK(p, w.m)
      /\ TaskOK(p, w.m) /\ IniOK(w.m) /\ TgtOK(w.m) /\ ActiveOK(p, w.m)
  BY AnsweredIs
<1>2. /\ i \in Item /\ m.con # "Idle" /\ m.entry = "item" /\ ~i.remoteFailed
      /\ p = Tgt => i.fast
      /\ i.conn # {} \/ i.lateProxy =>
            /\ i.state \in {"Initiator", "Target"} /\ Owes(p, m)
            /\ i.state = "Initiator" => i.targetMode = "Fast"
      /\ k.conn = i.conn /\ k.lateProxy = i.lateProxy /\ k.state = i.state /\ k.fast = i.fast
      /\ k.remoteFailed = i.remoteFailed /\ ~k.task /\ k.inId = i.inId
      /\ (k.targetMode = "Fast" <=> i.targetMode = "Fast")
  BY <1>0, TaskWas
<1> HIDE DEF w
<1>3. m.con # "WaitingForAccept" /\ (i.state = "Target" => p = Tgt)
  <2>1. Local(p, m)
    BY StartIs
  <2> QED BY <1>2, <2>1 DEF Local, PlaceOK
<1>4. CASE ~(k.conn # {} \/ k.lateProxy)
  <2>1. u = w
    BY <1>4 DEF Stop
  <2>2. DialOK(p, w.m)
    BY <1>2, <1>4 DEF DialOK, Pending
  <2>3. Local(p, w.m) /\ ~Pending(k) /\ k.conn = {}
    BY <1>1, <1>4, <2>2 DEF Local, Pending
  <2>4. ~Owes(p, w.m)
    BY <1>1, <1>2, <1>3, <2>3 DEF Owes, SameConnection
  <2>5. SameProgress(k, k)
    BY DEF SameProgress
  <2> HIDE DEF u
  <2> QED BY <1>0, <1>1, <2>1, <2>3, <2>4, <2>5, OutNone DEF u, w
<1>5. CASE k.conn # {} \/ k.lateProxy
  <2>1. /\ v \in XState /\ SameRest(w, v) /\ SameConnection(w.m, v.m)
        /\ SameProgress(k, v.m.item) /\ v.m.item.conn = {}
        /\ v.m.item.lateProxy = k.lateProxy /\ v.m.item.inId = k.inId
        /\ PlaceOK(p, v.m) /\ SocketsOK(p, v.m) /\ ProxyOK(p, v.m) /\ HostsOK(p, v.m)
        /\ TaskOK(p, v.m) /\ IniOK(v.m) /\ TgtOK(v.m)
    <3>1. k.conn \in SUBSET Stream
      BY <1>1, XFields
    <3> QED BY <1>1, <3>1, UndialledIs
  <2>2. u = DoConnectError(v)
    <3>1. [DropMany(w, k.conn) EXCEPT !.m.item.conn = {}] = v
      <4>1. /\ DropMany(w, k.conn) \in XState /\ DropMany(w, k.conn).m.item = k
        BY <1>1, DroppedIs
      <4>2. Without(k, k.conn) = [k EXCEPT !.conn = {}]
        BY <1>0 DEF Without, Item
      <4> DEFINE d == DropMany(w, k.conn)
      <4> HIDE DEF d
      <4>3. [d EXCEPT !.m.item.conn = {}] = With(d, [k EXCEPT !.conn = {}])
        BY <4>1 DEF d, With, XState, PeerState
      <4> QED BY Zenon, <4>2, <4>3 DEF Undialled, d
    <3> QED BY Zenon, <1>5, <3>1 DEF Stop
  <2> HIDE DEF v
  <2>3. k.inId = Other(p)
    BY <1>1, <1>5 DEF HostsOK
  <2>4. /\ v.m.item.state \in {"Initiator", "Target"} /\ ~v.m.item.task
        /\ v.m.item.state = "Initiator" => v.m.item.targetMode = "Fast"
        /\ ~v.m.item.remoteFailed /\ (v.m.item.state = "Target" => v.m.item.fast)
    BY <1>2, <1>3, <1>5, <2>1 DEF SameProgress
  <2>5. /\ u \in XState /\ u.crs = v.crs /\ u.bad = v.bad /\ Local(p, u.m)
        /\ u.out = <<a>>
        /\ SameProgress(v.m.item, u.m.item) /\ SameConnection(v.m, u.m)
        /\ u.m.item.localFailed /\ u.m.item.conn = {}
    BY <1>1, <2>1, <2>2, <2>3, <2>4, DoConnectErrorIs, ErrorAnswer DEF SameRest, Codes
  <2> HIDE DEF u
  <2>6. NoRequest(u.out) /\ NoResult(Other(p), u.out) /\ Answers(Other(p), u.out) = 1
    <3>1. NoRequest(<<a>>) /\ NoResult(Other(p), <<a>>) /\ Answers(Other(p), <<a>>) = 1
      <4>1. 404 \in Codes
        BY DEF Codes
      <4> QED BY <4>1, ErrorAnswer
    <3> QED BY Zenon, <2>5, <3>1
  <2>7. ~Pending(u.m.item) /\ SameProgress(k, u.m.item) /\ SameConnection(m, u.m)
    BY <1>1, <2>1, <2>5 DEF Pending, SameProgress, SameConnection
  <2>8. ~Owes(p, u.m)
    BY <1>2, <1>3, <2>5, <2>7 DEF Owes, SameConnection
  <2>9. Owes(p, m)
    BY <1>2, <1>5
  <2> QED BY <1>0, <1>1, <2>1, <2>5, <2>6, <2>7, <2>8, <2>9 DEF SameRest, u, w
<1> QED BY <1>4, <1>5

\* A result with the client's own server as the host used.
LEMMA SuccessDirect ==
    ASSUME IInv, NEW p \in Peer, peer[p].item.task,
           ~(peer[p].item.state = "Initiator" /\ peer[p].item.connSuccess),
           Head(net[p]).used = Direct(p)
    PROVE  Contract(p, peer[p], cr, JtSuccess(p, Answered(p), Direct(p)), "result")
<1> DEFINE w == Answered(p)
           u == Stop(w)
           m == peer[p]
           i == m.item
           k == AnsweredItem(i)
           j == u.m.item
           y == JtSuccess(p, w, Direct(p))
<1>0. /\ p \in {Ini, Tgt} /\ (p = Ini => Other(p) = Tgt) /\ (p = Tgt => Other(p) = Ini)
      /\ Direct(p) # Proxy(p) /\ Ini # Tgt
  BY StreamFacts DEF Other
<1>1. /\ u \in XState /\ u.crs = cr /\ ~u.bad /\ Local(p, u.m) /\ SameConnection(m, u.m)
      /\ SameProgress(k, j) /\ j.conn = {} /\ ~Pending(j)
      /\ ~Owes(p, u.m) /\ NoRequest(u.out) /\ NoResult(Other(p), u.out)
      /\ \/ Answers(Other(p), u.out) = 0 /\ NoAnswer(Other(p), u.out)
         \/ Answers(Other(p), u.out) = 1 /\ Owes(p, m)
  BY StopIs
<1>2. /\ m \in PeerState /\ m.entry = "item" /\ m.con # "Idle"
      /\ ~i.proxyConn /\ i.proxyTask = "none"
      /\ p = Ini => i.state = "Initiator" /\ ~i.activated
      /\ p = Tgt => i.state \in {"Target", "Active"} /\ i.fast
      /\ i.state = "Active" => i.client = NoStream
      /\ k.connSuccess = i.connSuccess /\ k.remoteFailed = i.remoteFailed
      /\ k.activated = i.activated /\ k.fast = i.fast /\ k.proxyConn = i.proxyConn
      /\ k.state = i.state /\ k.proxyTask = i.proxyTask /\ k.client = i.client
      /\ ~k.task /\ (k.state = "Initiator" => k.targetMode # "Unknown")
      /\ (k.targetMode = "Fast" <=> i.targetMode = "Fast")
  BY TaskWas, StartIs
<1>3. u.m.entry = "item"
  BY <1>1, <1>2 DEF SameConnection
<1>4. y = IF j.client = NoStream THEN Fail(u, "wrongHost")
          ELSE IF j.state = "Initiator" THEN TryActivation(u)
          ELSE CheckForActivation(u)
  <2>1. /\ u.m.entry = "item" <=> TRUE
        /\ u.m.entry # "item" <=> FALSE
        /\ (u.m.entry = "item" /\ Direct(p) = Direct(p)) <=> TRUE
        /\ (Direct(p) = Proxy(p)) <=> FALSE
    BY <1>0, <1>3
  <2> HIDE DEF w
  <2>2. y = CASE u.m.entry # "item" -> [u EXCEPT !.bad = TRUE]
          [] u.m.entry = "item" /\ Direct(p) = Direct(p) ->
                IF j.client = NoStream THEN Fail(u, "wrongHost")
                ELSE IF j.state = "Initiator" THEN TryActivation(u)
                ELSE CheckForActivation(u)
          [] u.m.entry = "item" /\ Direct(p) = Proxy(p) /\ j.proxy ->
                [Drop(u, j.client) EXCEPT !.m = [@ EXCEPT !.end[Proxy(p)] = "dialing",
                    !.item = [j EXCEPT !.client = NoStream, !.allowIncoming = FALSE,
                                       !.proxyConn = TRUE]]]
          [] u.m.entry = "item" /\ Direct(p) # Direct(p) /\ ~(Direct(p) = Proxy(p) /\ j.proxy) ->
                Fail(u, "wrongHost")
    BY Zenon DEF JtSuccess, Stop
  <2> HIDE DEF u, y
  <2> QED BY <2>1, <2>2
<1> HIDE DEF w, u, k, y
<1>5. /\ j.state = i.state /\ j.connSuccess = i.connSuccess /\ j.activated = i.activated
      /\ j.client = i.client /\ j.fast = i.fast /\ ~j.task /\ ~j.proxyConn
      /\ j.proxyTask = "none" /\ j.remoteFailed = i.remoteFailed
      /\ (j.state = "Initiator" => j.targetMode # "Unknown")
      /\ (j.targetMode = "Fast" <=> i.targetMode = "Fast")
  BY <1>1, <1>2 DEF SameProgress
<1>6. CASE j.client = NoStream
  <2>1. Owned(u.m.req.hosts, Other(p))
    BY <1>1 DEF Local, PlaceOK
  <2>2. "wrongHost" \in Ended \ {"none"} /\ y = Fail(u, "wrongHost")
    BY <1>4, <1>6 DEF Ended
  <2>3. y \in XState /\ SameRest(u, y) /\ Left(p, y.m)
    BY <1>1, <2>1, <2>2, FailIs
  <2> QED BY <1>1, <1>2, <2>3, LeftStep DEF SameRest, y, w
<1>7. Settled(u.m) <=> i.state \in {"Initiator", "Target"}
  BY <1>1, <1>5 DEF Settled
<1>8. CASE j.client # NoStream /\ p = Ini
  <2>1. y = TryActivation(u) /\ ~i.connSuccess /\ Settled(u.m)
    BY <1>0, <1>2, <1>4, <1>5, <1>7, <1>8
  <2>2. j.client = Direct(Ini)
    <3>1. Local(p, m)
      BY StartIs
    <3> QED BY <1>5, <1>8, <2>1, <3>1 DEF Local, TaskOK
  <2> QED BY <1>0, <1>1, <1>2, <1>5, <1>8, <2>1, <2>2, ActivationStep DEF y, w
<1>9. CASE j.client # NoStream /\ p = Tgt
  <2>1. j.state = "Target" /\ Settled(u.m) /\ y = CheckForActivation(u)
    BY <1>0, <1>2, <1>4, <1>5, <1>7, <1>9
  <2>2. Contract(Tgt, peer[Tgt], cr, CheckForActivation(u), "result")
    BY <1>0, <1>1, <1>2, <1>5, <1>9, <2>1, TakingStep
  <2> QED BY <1>9, <2>1, <2>2 DEF y, w
<1> QED BY <1>0, <1>6, <1>8, <1>9

\* A target that went on before the answer came is told what it went on with.
LEMMA EarlyTarget ==
    ASSUME IInv, peer[Tgt].item.state = "Active", peer[Tgt].item.task, net[Tgt] # <<>>,
           Head(net[Tgt]).type # "request", Head(net[Tgt]).id = Tgt
    PROVE  Head(net[Tgt]).type = "result" /\ Head(net[Tgt]).used = Direct(Tgt)
<1>1. Tgt \in Peer
  BY DEF Peer
<1>2. peer[Tgt].sc = Direct(Tgt) /\ peer[Tgt].item.fast
  BY <1>1, TaskWas
<1>3. Direct(Tgt) \in Stream /\ cr[Direct(Tgt)] = "taken"
  BY <1>2, TakenCR
<1>4. cr[Direct(Tgt)] # "none" /\ Direct(Tgt).owner = Tgt
  BY <1>3 DEF Direct
<1>5. OnlyUsed(Tgt, net[Tgt], Direct(Tgt))
  BY <1>3, <1>4 DEF IInv, AnswerOK, Confirmed
<1> QED BY <1>1, <1>5, AnswerFacts

\* A result with the client's own proxy: it connects to the proxy too.
LEMMA SuccessProxy ==
    ASSUME IInv, NEW p \in Peer, peer[p].item.task, peer[p].item.state # "Active",
           ~(peer[p].item.state = "Initiator" /\ peer[p].item.connSuccess),
           peer[p].item.proxy, Head(net[p]).used = Proxy(p)
    PROVE  Contract(p, peer[p], cr, JtSuccess(p, Answered(p), Proxy(p)), "result")
<1> DEFINE w == Answered(p)
           u == Stop(w)
           m == peer[p]
           i == m.item
           k == AnsweredItem(i)
           j == u.m.item
           s == Proxy(p)
           l == [j EXCEPT !.client = NoStream, !.allowIncoming = FALSE, !.proxyConn = TRUE]
           d == Drop(u, j.client)
           n == [d.m EXCEPT !.end[s] = "dialing", !.item = l]
           y == JtSuccess(p, w, s)
<1>0. p \in {Ini, Tgt} /\ Direct(p) # s /\ s \in Stream /\ NoStream \notin Stream
  BY StreamFacts
<1>1. /\ u \in XState /\ u.crs = cr /\ ~u.bad /\ Local(p, u.m) /\ SameConnection(m, u.m)
      /\ SameProgress(k, j) /\ j.conn = {} /\ ~Pending(j)
      /\ ~Owes(p, u.m) /\ NoRequest(u.out) /\ NoResult(Other(p), u.out)
      /\ \/ Answers(Other(p), u.out) = 0 /\ NoAnswer(Other(p), u.out)
         \/ Answers(Other(p), u.out) = 1 /\ Owes(p, m)
  BY StopIs
<1>2. /\ m \in PeerState /\ m.entry = "item" /\ m.con # "Idle"
      /\ ~i.proxyConn /\ i.proxyTask = "none"
      /\ p = Ini => i.state = "Initiator" /\ ~i.activated
      /\ p = Tgt => i.state \in {"Target", "Active"} /\ i.fast
      /\ k.connSuccess = i.connSuccess /\ k.remoteFailed = i.remoteFailed
      /\ k.activated = i.activated /\ k.fast = i.fast /\ k.proxyConn = i.proxyConn
      /\ k.state = i.state /\ k.proxyTask = i.proxyTask /\ k.client = i.client
      /\ k.proxy = i.proxy
      /\ ~k.task /\ (k.state = "Initiator" => k.targetMode # "Unknown")
      /\ (k.targetMode = "Fast" <=> i.targetMode = "Fast")
      /\ \/ k.targetMode = i.targetMode
         \/ k.targetMode = "NotFast" /\ i.state = "Initiator" /\ i.targetMode = "Unknown"
  BY TaskWas, StartIs
<1>3. u.m.entry = "item" /\ j.proxy
  BY <1>1, <1>2 DEF SameConnection, SameProgress
<1>4. y = [d EXCEPT !.m = n]
  <2>1. /\ u.m.entry = "item" <=> TRUE
        /\ u.m.entry # "item" <=> FALSE
        /\ (s = Direct(p)) <=> FALSE
        /\ (s = s /\ j.proxy) <=> TRUE
    BY <1>0, <1>3
  <2> HIDE DEF w
  <2>2. y = CASE u.m.entry # "item" -> [u EXCEPT !.bad = TRUE]
          [] u.m.entry = "item" /\ s = Direct(p) ->
                IF j.client = NoStream THEN Fail(u, "wrongHost")
                ELSE IF j.state = "Initiator" THEN TryActivation(u)
                ELSE CheckForActivation(u)
          [] u.m.entry = "item" /\ s = s /\ j.proxy ->
                [d EXCEPT !.m = [@ EXCEPT !.end[s] = "dialing", !.item = l]]
          [] u.m.entry = "item" /\ s # Direct(p) /\ ~(s = s /\ j.proxy) ->
                Fail(u, "wrongHost")
    BY Zenon DEF JtSuccess, Stop
  <2> HIDE DEF u, y, d, l, s
  <2>3. y = [d EXCEPT !.m = [@ EXCEPT !.end[s] = "dialing", !.item = l]]
    BY <2>1, <2>2
  <2> QED BY <2>3
<1> HIDE DEF w, u, k, y
<1>5. /\ j \in Item /\ j.state = i.state /\ j.connSuccess = i.connSuccess /\ j.activated = i.activated
      /\ j.client = i.client /\ j.fast = i.fast /\ ~j.task /\ ~j.proxyConn
      /\ j.proxyTask = "none" /\ j.remoteFailed = i.remoteFailed
      /\ (j.state = "Initiator" => j.targetMode # "Unknown")
      /\ (j.targetMode = "Fast" <=> i.targetMode = "Fast")
      /\ \/ j.targetMode = i.targetMode
         \/ j.targetMode = "NotFast" /\ i.state = "Initiator" /\ i.targetMode = "Unknown"
      /\ j.state \in {"Initiator", "Target"} /\ (p = Ini => j.state = "Initiator" /\ ~j.activated)
  BY <1>0, <1>1, <1>2, XFields DEF SameProgress
<1>15. /\ j.state = "Initiator" => ~j.connSuccess /\ ~j.activated
       /\ i.state = "Initiator" => ~i.connSuccess /\ ~i.activated
  BY <1>0, <1>1, <1>5 DEF Local, PlaceOK
<1>6. /\ l \in Item /\ l.state = j.state /\ l.targetMode = j.targetMode /\ l.fast = j.fast
      /\ l.activated = j.activated /\ l.lateProxy = j.lateProxy
      /\ l.connSuccess = j.connSuccess /\ l.localFailed = j.localFailed
      /\ l.remoteFailed = j.remoteFailed /\ ~l.allowIncoming /\ l.inHosts = j.inHosts
      /\ l.inId = j.inId /\ l.outId = j.outId /\ l.task = j.task /\ l.conn = j.conn
      /\ l.proxyConn /\ l.proxyTask = j.proxyTask /\ l.proxy = j.proxy
      /\ l.client = NoStream /\ l.clientOut = j.clientOut
  BY <1>5 DEF Item
<1>7. /\ d \in XState /\ SameRest(u, d) /\ d.m \in PeerState /\ SameConnection(u.m, d.m)
      /\ d.m.end = Closing(u.m.end, {j.client})
  BY <1>1, XFields, DroppedOneIs
<1> HIDE DEF l, d, s
<1>8. n \in PeerState /\ n.item = l /\ SameConnection(u.m, n)
      /\ n.end = [d.m.end EXCEPT ![s] = "dialing"]
  BY <1>0, <1>6, <1>7 DEF PeerState, SameConnection
<1> HIDE DEF n
<1>9. y \in XState /\ y.m = n /\ SameRest(u, y)
  BY <1>4, <1>7, <1>8 DEF XState, SameRest
<1>10. \A t \in Stream :
         /\ t = s => n.end[t] = "dialing"
         /\ t # s /\ t = j.client => n.end[t] \in {"none", "closed"}
         /\ t # s /\ t # j.client => n.end[t] = u.m.end[t]
  BY <1>0, <1>1, <1>7, <1>8, ClosingIs, XFields
<1>11. Local(p, n)
  <2> USE DEF SameConnection
  <2>1. PlaceOK(p, n)
    BY <1>1, <1>3, <1>6, <1>8 DEF Local, PlaceOK
  <2>2. SocketsOK(p, n)
    BY <1>1, <1>5, <1>6, <1>8, <1>10 DEF Local, SocketsOK, EndsOK, s
  <2>3. ProxyOK(p, n)
    <3>1. j.state = "Target" => j.fast
      BY <1>1, <1>2, <1>5 DEF Local, PlaceOK
    <3> QED BY <1>1, <1>5, <1>6, <1>8, <3>1, <1>15 DEF ProxyOK, Pending
  <2>4. HostsOK(p, n)
    BY <1>1, <1>6, <1>8 DEF Local, HostsOK
  <2>5. DialOK(p, n)
    BY <1>1, <1>5, <1>6, <1>8 DEF DialOK, Pending
  <2>6. TaskOK(p, n)
    BY <1>1, <1>5, <1>6, <1>8 DEF Local, TaskOK
  <2>7. IniOK(n)
    BY <1>1, <1>5, <1>6, <1>8, <1>15 DEF Local, IniOK
  <2>8. TgtOK(n) /\ ActiveOK(p, n)
    BY <1>1, <1>5, <1>6, <1>8 DEF Local, TgtOK, ActiveOK
  <2> QED BY <2>1, <2>2, <2>3, <2>4, <2>5, <2>6, <2>7, <2>8 DEF Local
<1>12. Quiet(p, m, y, "result")
  BY <1>1, <1>2, <1>5, <1>6, <1>8, <1>9, <1>15 DEF Quiet, SameConnection
<1>13. ~Owes(p, n)
  <2>1. ~Pending(l) /\ l.conn = {}
    BY <1>1, <1>6 DEF Pending
  <2> QED BY <1>1, <1>8, <2>1 DEF Owes, SameConnection
<1>14. Contract(p, m, cr, y, "result")
  <2>1. p = Ini /\ i.state = "Initiator" => ~i.connSuccess
    OBVIOUS
  <2>2. /\ ~y.bad /\ y.crs = cr /\ y.out = u.out /\ y.m = n
    BY <1>1, <1>9 DEF SameRest
  <2>3. i.state # "Active"
    OBVIOUS
  <2> QED BY <1>1, <1>2, <1>9, <1>11, <1>12, <1>13, <2>1, <2>2, <2>3, QuietStep
<1> QED BY <1>14 DEF y, w, s

\* A result with a host that the client has not offered.
LEMMA SuccessWrong ==
    ASSUME IInv, NEW p \in Peer, peer[p].item.task, NEW used, used # Direct(p),
           ~(used = Proxy(p) /\ peer[p].item.proxy)
    PROVE  Contract(p, peer[p], cr, JtSuccess(p, Answered(p), used), "result")
<1> DEFINE w == Answered(p)
           u == Stop(w)
           m == peer[p]
           i == m.item
           k == AnsweredItem(i)
           j == u.m.item
           y == JtSuccess(p, w, used)
<1>1. /\ u \in XState /\ u.crs = cr /\ ~u.bad /\ Local(p, u.m) /\ SameConnection(m, u.m)
      /\ SameProgress(k, j) /\ NoRequest(u.out) /\ NoResult(Other(p), u.out)
      /\ \/ Answers(Other(p), u.out) = 0 /\ NoAnswer(Other(p), u.out)
         \/ Answers(Other(p), u.out) = 1 /\ Owes(p, m)
  BY StopIs
<1>2. m \in PeerState /\ m.entry = "item" /\ m.con # "Idle" /\ k.proxy = i.proxy
  BY TaskWas, StartIs
<1>3. u.m.entry = "item" /\ j.proxy = i.proxy
  BY <1>1, <1>2 DEF SameConnection, SameProgress
<1>4. y = Fail(u, "wrongHost")
  <2>1. /\ u.m.entry = "item" <=> TRUE
        /\ u.m.entry # "item" <=> FALSE
        /\ used = Direct(p) <=> FALSE
        /\ (used = Proxy(p) /\ j.proxy) <=> FALSE
    BY <1>3
  <2> HIDE DEF w
  <2>2. y = CASE u.m.entry # "item" -> [u EXCEPT !.bad = TRUE]
          [] u.m.entry = "item" /\ used = Direct(p) ->
                IF j.client = NoStream THEN Fail(u, "wrongHost")
                ELSE IF j.state = "Initiator" THEN TryActivation(u)
                ELSE CheckForActivation(u)
          [] u.m.entry = "item" /\ used = Proxy(p) /\ j.proxy ->
                [Drop(u, j.client) EXCEPT !.m = [@ EXCEPT !.end[Proxy(p)] = "dialing",
                    !.item = [j EXCEPT !.client = NoStream, !.allowIncoming = FALSE,
                                       !.proxyConn = TRUE]]]
          [] u.m.entry = "item" /\ used # Direct(p) /\ ~(used = Proxy(p) /\ j.proxy) ->
                Fail(u, "wrongHost")
    BY Zenon DEF JtSuccess, Stop
  <2> HIDE DEF u, y
  <2> QED BY <2>1, <2>2
<1> HIDE DEF w, u, y
<1>5. "wrongHost" \in Ended \ {"none"} /\ Owned(u.m.req.hosts, Other(p))
  BY <1>1 DEF Ended, Local, PlaceOK
<1>6. y \in XState /\ SameRest(u, y) /\ Left(p, y.m)
  BY <1>1, <1>4, <1>5, FailIs
<1> QED BY <1>1, <1>2, <1>6, LeftStep DEF SameRest, y, w

\* The other client has failed: the item notes it.
RefusedItem(i, code) == [AnsweredItem(i) EXCEPT !.remoteFailed = TRUE, !.statusCode = code]
\* The client as it is once its request was refused.
Refused(p, code) == With(Answered(p), RefusedItem(peer[p].item, code))

\* What a refused client looks like.
LEMMA RefusedIs ==
    ASSUME IInv, NEW p \in Peer, peer[p].item.task, NEW code \in Codes \cup {NoCode}
    PROVE  LET v == Refused(p, code)
               k == AnsweredItem(peer[p].item)
               j == v.m.item
           IN  /\ v = [Answered(p) EXCEPT !.m.item =
                           [@ EXCEPT !.remoteFailed = TRUE, !.statusCode = code]]
               /\ v \in XState /\ v.m \in PeerState /\ v.m.end = peer[p].end
               /\ SameConnection(peer[p], v.m) /\ v.out = <<>> /\ v.crs = cr /\ ~v.bad
               /\ j \in Item /\ j.remoteFailed /\ ~j.task
               /\ j.state = k.state /\ j.targetMode = k.targetMode /\ j.fast = k.fast
               /\ j.activated = k.activated /\ j.lateProxy = k.lateProxy
               /\ j.connSuccess = k.connSuccess /\ j.localFailed = k.localFailed
               /\ j.allowIncoming = k.allowIncoming /\ j.inHosts = k.inHosts
               /\ j.inId = k.inId /\ j.outId = k.outId /\ j.conn = k.conn
               /\ j.proxyConn = k.proxyConn /\ j.proxyTask = k.proxyTask /\ j.proxy = k.proxy
               /\ j.client = k.client /\ j.clientOut = k.clientOut
               /\ PlaceOK(p, v.m) /\ SocketsOK(p, v.m) /\ ProxyOK(p, v.m) /\ HostsOK(p, v.m)
               /\ TaskOK(p, v.m) /\ IniOK(v.m) /\ TgtOK(v.m) /\ ActiveOK(p, v.m)
<1> DEFINE w == Answered(p)
           m == peer[p]
           k == AnsweredItem(m.item)
           j == RefusedItem(m.item, code)
           v == With(w, j)
<1>1. /\ w \in XState /\ w.m \in PeerState /\ w.m.end = m.end /\ SameConnection(m, w.m)
      /\ w.out = <<>> /\ w.crs = cr /\ ~w.bad
      /\ w.m.item = k /\ k \in Item /\ ~k.task
      /\ PlaceOK(p, w.m) /\ SocketsOK(p, w.m) /\ ProxyOK(p, w.m) /\ HostsOK(p, w.m)
      /\ TaskOK(p, w.m) /\ IniOK(w.m) /\ TgtOK(w.m) /\ ActiveOK(p, w.m)
  BY AnsweredIs
<1>2. m.entry = "item"
  BY TaskWas
<1> HIDE DEF w, k
<1>3. v = [w EXCEPT !.m.item = [@ EXCEPT !.remoteFailed = TRUE, !.statusCode = code]]
  <2>1. [w EXCEPT !.m.item = j] = With(w, j)
    BY <1>1 DEF With, XState, PeerState
  <2>2. j = [k EXCEPT !.remoteFailed = TRUE, !.statusCode = code]
    BY DEF RefusedItem, k
  <2> HIDE DEF j
  <2>3. [w EXCEPT !.m.item = [@ EXCEPT !.remoteFailed = TRUE, !.statusCode = code]]
          = [w EXCEPT !.m.item = j]
    BY <1>1, <2>2
  <2> QED BY <2>1, <2>3
<1>4. /\ j \in Item /\ j.remoteFailed /\ ~j.task
      /\ j.state = k.state /\ j.targetMode = k.targetMode /\ j.fast = k.fast
      /\ j.activated = k.activated /\ j.lateProxy = k.lateProxy
      /\ j.connSuccess = k.connSuccess /\ j.localFailed = k.localFailed
      /\ j.allowIncoming = k.allowIncoming /\ j.inHosts = k.inHosts
      /\ j.inId = k.inId /\ j.outId = k.outId /\ j.conn = k.conn
      /\ j.proxyConn = k.proxyConn /\ j.proxyTask = k.proxyTask /\ j.proxy = k.proxy
      /\ j.client = k.client /\ j.clientOut = k.clientOut
  <2>1. j = [k EXCEPT !.remoteFailed = TRUE, !.statusCode = code]
    BY DEF RefusedItem, k
  <2> HIDE DEF j
  <2> QED BY <1>1, <2>1, ZenonT(30) DEF Item
<1> HIDE DEF j
<1>5. /\ v \in XState /\ v.m \in PeerState /\ v.m.item = j /\ v.m.end = m.end
      /\ SameConnection(w.m, v.m) /\ SameRest(w, v)
  BY <1>1, <1>4, WithIs
<1> HIDE DEF v
<1>6. PlaceOK(p, v.m)
  BY <1>1, <1>2, <1>4, <1>5 DEF PlaceOK, SameConnection
<1>7. SocketsOK(p, v.m)
  BY <1>1, <1>4, <1>5 DEF SocketsOK, EndsOK, SameConnection
<1>8. ProxyOK(p, v.m) /\ HostsOK(p, v.m)
  BY <1>1, <1>4, <1>5 DEF ProxyOK, HostsOK, Pending
<1>9. TaskOK(p, v.m) /\ IniOK(v.m) /\ TgtOK(v.m)
  BY <1>1, <1>4, <1>5 DEF TaskOK, IniOK, TgtOK
<1>10. ActiveOK(p, v.m)
  BY <1>1, <1>4, <1>5 DEF ActiveOK, SameConnection
<1>11. SameConnection(m, v.m) /\ v.out = <<>> /\ v.crs = cr /\ ~v.bad
  BY <1>1, <1>5 DEF SameConnection, SameRest
<1> QED BY <1>3, <1>4, <1>5, <1>6, <1>7, <1>8, <1>9, <1>10, <1>11 DEF Refused, v, j, w, k

\* An error: the proxies are dialled, a connection of its own is taken up, or
\* the item fails when its own dials have failed too.
LEMMA ErrorStep ==
    ASSUME IInv, NEW p \in Peer, peer[p].item.task, NEW code \in Codes \cup {NoCode},
           peer[p].item.state # "Active",
           ~(peer[p].item.state = "Initiator" /\ peer[p].item.connSuccess)
    PROVE  Contract(p, peer[p], cr, JtError(Answered(p), code), "error")
<1> DEFINE v == Refused(p, code)
           m == peer[p]
           i == m.item
           k == AnsweredItem(i)
           j == v.m.item
           a == RespondError(Other(p), 404)
           y == JtError(Answered(p), code)
<1>0. p \in {Ini, Tgt} /\ (p = Tgt => Other(p) = Ini) /\ Ini # Tgt
  BY StreamFacts DEF Other
<1>15. v = [Answered(p) EXCEPT !.m.item =
                  [@ EXCEPT !.remoteFailed = TRUE, !.statusCode = code]]
  BY RefusedIs
<1>1. /\ v \in XState /\ v.m \in PeerState /\ v.m.end = m.end
      /\ SameConnection(m, v.m) /\ v.out = <<>> /\ v.crs = cr /\ ~v.bad
      /\ j \in Item /\ j.remoteFailed /\ ~j.task
      /\ j.state = k.state /\ j.targetMode = k.targetMode /\ j.fast = k.fast
      /\ j.activated = k.activated /\ j.lateProxy = k.lateProxy
      /\ j.connSuccess = k.connSuccess /\ j.localFailed = k.localFailed
      /\ j.inId = k.inId /\ j.conn = k.conn /\ j.inHosts = k.inHosts
      /\ j.proxyConn = k.proxyConn /\ j.proxyTask = k.proxyTask
      /\ j.client = k.client /\ j.clientOut = k.clientOut
      /\ PlaceOK(p, v.m) /\ SocketsOK(p, v.m) /\ ProxyOK(p, v.m) /\ HostsOK(p, v.m)
      /\ TaskOK(p, v.m) /\ IniOK(v.m) /\ TgtOK(v.m) /\ ActiveOK(p, v.m)
  BY RefusedIs, ZenonT(30)
<1>2. /\ m \in PeerState /\ m.con # "Idle" /\ ~i.proxyConn /\ i.proxyTask = "none"
      /\ m.entry = "item"
      /\ p = Ini => i.state = "Initiator"
      /\ p = Tgt => i.state \in {"Target", "Active"} /\ i.fast
      /\ ~i.activated \/ i.state = "Active"
      /\ i.conn # {} \/ i.lateProxy =>
           /\ Owes(p, m) /\ ~i.connSuccess /\ ~i.localFailed /\ i.clientOut = NoStream
           /\ i.state = "Initiator" => i.targetMode = "Fast"
      /\ k.conn = i.conn /\ k.lateProxy = i.lateProxy /\ k.connSuccess = i.connSuccess
      /\ k.localFailed = i.localFailed /\ k.activated = i.activated /\ k.fast = i.fast
      /\ k.proxyConn = i.proxyConn /\ k.state = i.state /\ k.proxyTask = i.proxyTask
      /\ k.client = i.client /\ k.clientOut = i.clientOut
      /\ (k.targetMode = "Fast" <=> i.targetMode = "Fast")
      /\ \/ k.targetMode = i.targetMode
         \/ k.targetMode = "NotFast" /\ i.state = "Initiator" /\ i.targetMode = "Unknown"
  BY TaskWas, StartIs
<1>3. y = CASE j.lateProxy -> IF j.conn = {} THEN DoIncoming(v) ELSE v
            [] ~j.lateProxy /\ j.connSuccess -> CheckForActivation(v)
            [] ~j.lateProxy /\ ~j.connSuccess -> CheckFailure(v)
  BY Zenon, <1>15 DEF JtError
<1>4. /\ a \in Stanza /\ NoRequest(<<a>>) /\ NoResult(Other(p), <<a>>)
      /\ Answers(Other(p), <<a>>) = 1 /\ Append(<<>>, a) = <<a>>
  <2>1. 404 \in Codes
    BY DEF Codes
  <2> QED BY <2>1, ErrorAnswer
<1> HIDE DEF v, k, a, y
<1>5. /\ j.state = i.state /\ i.state \in {"Initiator", "Target"} /\ ~i.activated
      /\ i.state = "Initiator" => p = Ini /\ ~i.connSuccess
      /\ i.state = "Target" => p = Tgt /\ j.fast
  BY <1>0, <1>1, <1>2
<1>6. \A z \in XState : SameConnection(v.m, z.m) /\ SameProgress(j, z.m.item)
                          => Quiet(p, m, z, "error")
  <2> SUFFICES ASSUME NEW z \in XState, SameConnection(v.m, z.m), SameProgress(j, z.m.item)
               PROVE  Quiet(p, m, z, "error")
    OBVIOUS
  <2>1. SameConnection(m, z.m)
    BY <1>1 DEF SameConnection
  <2> QED BY <1>1, <1>2, <1>5, <2>1 DEF Quiet, SameProgress, ByProxy
<1>7. m.con # "WaitingForAccept"
  <2>1. Local(p, m)
    BY StartIs
  <2> QED BY <1>2, <2>1 DEF Local, PlaceOK
<1>8. \A z \in XState : SameConnection(v.m, z.m) =>
         (Owes(p, z.m) <=> z.m.item.conn # {} \/ Pending(z.m.item))
  BY <1>1, <1>2, <1>7 DEF Owes, SameConnection
<1>9. CASE j.lateProxy /\ j.conn = {}
  <2>1. i.lateProxy /\ Owes(p, m) /\ ~i.connSuccess /\ ~i.localFailed /\ i.clientOut = NoStream
    BY <1>1, <1>2, <1>9
  <2>2. j.inId = Other(p)
    BY <1>1, <1>9 DEF HostsOK
  <2>3. Offered(p, v)
    BY <1>1, <1>2, <1>5, <1>9, <2>1, <2>2 DEF Offered
  <2>4. y = DoIncoming(v)
    BY <1>3, <1>9
  <2>5. /\ y \in XState /\ y.crs = cr /\ ~y.bad /\ Local(p, y.m)
        /\ \/ /\ y.out = <<>> /\ SameProgress(j, y.m.item) /\ SameConnection(v.m, y.m)
           \/ /\ y.out = <<a>> /\ SameProgress(j, y.m.item) /\ SameConnection(v.m, y.m)
              /\ y.m.item.conn = {} /\ ~Pending(y.m.item)
           \/ y.out = <<a>> /\ Left(p, y.m)
    <3>1. /\ y \in XState /\ y.crs = v.crs /\ y.bad = v.bad /\ Local(p, y.m)
          /\ \/ y.out = v.out /\ SameProgress(j, y.m.item) /\ SameConnection(v.m, y.m)
             \/ /\ y.out = Append(v.out, RespondError(Other(p), 404))
                /\ SameProgress(j, y.m.item) /\ SameConnection(v.m, y.m)
                /\ y.m.item.conn = {} /\ ~Pending(y.m.item)
             \/ y.out = Append(v.out, RespondError(Other(p), 404)) /\ Left(p, y.m)
      BY <1>1, <2>3, <2>4, DoIncomingIs
    <3>2. Append(v.out, RespondError(Other(p), 404)) = <<a>>
      BY <1>1, <1>4 DEF a
    <3> QED BY <1>1, <3>1, <3>2
  <2>6. ASSUME y.out = <<>>, SameProgress(j, y.m.item), SameConnection(v.m, y.m)
        PROVE  Contract(p, m, cr, y, "error")
    BY <1>2, <1>5, <1>6, <2>1, <2>5, <2>6, OutNone, QuietStep
  <2>7. ASSUME y.out = <<a>>, SameProgress(j, y.m.item), SameConnection(v.m, y.m),
               y.m.item.conn = {}, ~Pending(y.m.item)
        PROVE  Contract(p, m, cr, y, "error")
    BY <1>2, <1>4, <1>5, <1>6, <1>8, <2>1, <2>5, <2>7, QuietStep
  <2>8. ASSUME y.out = <<a>>, Left(p, y.m)
        PROVE  Contract(p, m, cr, y, "error")
    BY <1>2, <1>4, <2>1, <2>5, <2>8, LeftStep
  <2> QED BY <2>5, <2>6, <2>7, <2>8 DEF y
<1>10. ASSUME ~(j.lateProxy /\ j.conn = {})
       PROVE  Local(p, v.m) /\ (Owes(p, v.m) => Owes(p, m)) /\ SameProgress(j, j)
              /\ SameConnection(v.m, v.m)
  <2>1. DialOK(p, v.m)
    BY <1>1, <1>2, <1>5, <1>10 DEF DialOK, Pending
  <2>2. Owes(p, v.m) => Owes(p, m)
    BY <1>1, <1>2, <1>8 DEF Pending, SameConnection
  <2> QED BY <1>1, <2>1, <2>2 DEF Local, SameProgress, SameConnection
<1>11. ASSUME y = v, ~(j.lateProxy /\ j.conn = {})
       PROVE  Contract(p, m, cr, y, "error")
  <2>1. Quiet(p, m, y, "error") /\ Local(p, y.m) /\ (Owes(p, y.m) => Owes(p, m))
    BY <1>1, <1>6, <1>10, <1>11
  <2>2. /\ NoRequest(y.out) /\ NoResult(Other(p), y.out)
        /\ Answers(Other(p), y.out) = 0 /\ NoAnswer(Other(p), y.out)
    BY <1>1, <1>11, OutNone
  <2> QED BY <1>1, <1>2, <1>5, <1>11, <2>1, <2>2, QuietStep
<1>12. CASE j.lateProxy /\ j.conn # {}
  <2>1. y = v
    BY <1>3, <1>12
  <2> QED BY <1>11, <1>12, <2>1 DEF y
<1>13. CASE ~j.lateProxy /\ j.connSuccess
  <2>1. y = CheckForActivation(v) /\ p = Tgt /\ i.state = "Target"
    BY <1>1, <1>2, <1>3, <1>5, <1>13
  <2>2. Local(Tgt, v.m)
    BY <1>10, <1>13, <2>1
  <2>3. Settled(v.m)
    BY <1>1, <1>2, <1>5, <1>13 DEF Settled, Pending
  <2>4. Contract(Tgt, peer[Tgt], cr, CheckForActivation(v), "error")
    <3>1. /\ NoRequest(v.out) /\ Answers(Ini, v.out) = 0 /\ NoAnswer(Ini, v.out)
      BY <1>1, OutNone
    <3>2. /\ j.state = "Target" /\ peer[Tgt].item.state = "Target"
          /\ j.fast = peer[Tgt].item.fast /\ ~j.task /\ j.fast
      BY <1>1, <1>2, <1>5, <2>1
    <3> QED BY <1>1, <2>2, <2>3, <3>1, <3>2, TakingStep
  <2> QED BY <2>1, <2>4 DEF y
<1>14. CASE ~j.lateProxy /\ ~j.connSuccess
  <2>1. y = CheckFailure(v)
    BY <1>3, <1>14
  <2>2. Owned(v.m.req.hosts, Other(p))
    BY <1>1 DEF PlaceOK
  <2>3. /\ y \in XState /\ y.out = <<>> /\ ~y.bad /\ y.crs = cr
        /\ (y = v \/ Left(p, y.m))
    BY <1>1, <2>1, <2>2, CheckFailureIs
  <2>4. CASE y = v
    BY <1>11, <1>14, <2>4 DEF y
  <2>5. CASE Left(p, y.m)
    <3>1. Contract(p, m, cr, y, "error")
      BY <1>2, <2>3, <2>5, OutNone, LeftStep
    <3> QED BY <3>1 DEF y
  <2> QED BY <2>3, <2>4, <2>5
<1> QED BY <1>9, <1>12, <1>13, <1>14

\* The answer to the request of p.
LEMMA AnswerStep ==
    ASSUME IInv, NEW p \in Peer, peer[p].item.task, net[p] # <<>>,
           Head(net[p]).type # "request", Head(net[p]).id = p
    PROVE  Contract(p, peer[p], cr, JtFinished(p, Start(p), Head(net[p])), Head(net[p]).type)
<1> DEFINE z == Head(net[p])
           i == peer[p].item
           w == Answered(p)
           y == JtFinished(p, Start(p), z)
<1>0. /\ p \in {Ini, Tgt} /\ Ini # Tgt /\ (p = Ini => Other(p) = Tgt)
  BY StreamFacts DEF Other
<1>1. z \in Stanza /\ z.type \in {"result", "error"} /\ z.used \in Stream \cup {NoStream}
      /\ z.code \in Codes \cup {NoCode}
  <2>1. z \in Stanza /\ z.type \in {"result", "error"}
    BY AnswerFacts
  <2> QED BY <2>1 DEF Stanza
<1>2. y = CASE i.state = "Initiator" /\ i.connSuccess -> TryActivation(w)
            [] ~(i.state = "Initiator" /\ i.connSuccess) /\ z.type = "result" ->
                  JtSuccess(p, w, z.used)
            [] ~(i.state = "Initiator" /\ i.connSuccess) /\ z.type = "error" ->
                  JtError(w, z.code)
  BY AnsweredShape
<1>3. i.state = "Active" => p = Tgt /\ z.type = "result" /\ z.used = Direct(Tgt)
  <2>1. i.state = "Active" => p = Tgt
    BY TaskWas
  <2> QED BY <2>1, EarlyTarget
<1> HIDE DEF y
<1>4. CASE i.state = "Initiator" /\ i.connSuccess
  <2> DEFINE k == AnsweredItem(i)
             j == w.m.item
  <2>1. y = TryActivation(w)
    BY <1>2, <1>4
  <2>2. /\ w \in XState /\ SameConnection(peer[p], w.m)
        /\ w.out = <<>> /\ w.crs = cr /\ ~w.bad /\ j = k
        /\ PlaceOK(p, w.m) /\ SocketsOK(p, w.m) /\ ProxyOK(p, w.m) /\ HostsOK(p, w.m)
        /\ TaskOK(p, w.m) /\ IniOK(w.m) /\ TgtOK(w.m) /\ ActiveOK(p, w.m)
    BY AnsweredIs
  <2>3. /\ ~i.proxyConn /\ i.proxyTask = "none" /\ (~i.activated \/ i.state = "Active")
        /\ p = Tgt => i.state \in {"Target", "Active"}
        /\ i.conn # {} \/ i.lateProxy => ~i.connSuccess
        /\ k.conn = i.conn /\ k.lateProxy = i.lateProxy /\ k.connSuccess = i.connSuccess
        /\ k.activated = i.activated /\ k.remoteFailed = i.remoteFailed
        /\ k.proxyConn = i.proxyConn /\ k.state = i.state /\ k.proxyTask = i.proxyTask
        /\ k.client = i.client /\ ~k.task
        /\ (k.state = "Initiator" => k.targetMode # "Unknown")
        /\ (k.targetMode = "Fast" <=> i.targetMode = "Fast")
    BY TaskWas
  <2> HIDE DEF w, k
  <2>4. p = Ini /\ ~i.activated /\ j.conn = {} /\ ~Pending(j) /\ j.connSuccess
    BY <1>0, <1>4, <2>2, <2>3 DEF Pending
  <2>5. Settled(w.m) /\ Local(Ini, w.m)
    <3>1. DialOK(p, w.m)
      BY <2>2, <2>3, <2>4 DEF DialOK
    <3> QED BY <1>4, <2>2, <2>3, <2>4, <3>1 DEF Settled, Local
  <2>6. j.client # NoStream /\ j.client.owner = Tgt
    BY <1>4, <2>2, <2>3, <2>4 DEF IniOK
  <2>8. j.targetMode = "Fast"
    BY <1>4, <2>2, <2>3, <2>4 DEF IniOK
  <2>7. Contract(Ini, peer[Ini], cr, TryActivation(w), z.type)
    BY <1>0, <1>1, <1>4, <2>2, <2>3, <2>4, <2>5, <2>6, <2>8, OutNone, ActivationStep
  <2> QED BY <2>1, <2>4, <2>7 DEF y
<1>5. CASE ~(i.state = "Initiator" /\ i.connSuccess) /\ z.type = "result"
  <2>1. y = JtSuccess(p, w, z.used)
    BY <1>2, <1>5
  <2>2. CASE z.used = Direct(p)
    BY <1>5, <2>1, <2>2, SuccessDirect DEF y, z
  <2>3. CASE z.used = Proxy(p) /\ i.proxy
    <3>1. i.state # "Active"
      <4>1. Proxy(p) # Direct(p)
        BY StreamFacts
      <4> QED BY <1>3, <2>3, <4>1
    <3> QED BY <1>5, <2>1, <2>3, <3>1, SuccessProxy DEF y, z
  <2>4. CASE z.used # Direct(p) /\ ~(z.used = Proxy(p) /\ i.proxy)
    BY <1>5, <2>1, <2>4, SuccessWrong DEF y
  <2> QED BY <2>2, <2>3, <2>4
<1>6. CASE ~(i.state = "Initiator" /\ i.connSuccess) /\ z.type = "error"
  <2>1. y = JtError(w, z.code) /\ i.state # "Active"
    BY <1>2, <1>3, <1>6
  <2> QED BY <1>1, <1>6, <2>1, ErrorStep DEF y
<1> QED BY <1>1, <1>4, <1>5, <1>6

\* Each answer to the request keeps the contract.
LEMMA ResponseMoves ==
    ASSUME IInv, NEW p \in Peer, net[p] # <<>>, Head(net[p]).type # "request",
           Response(p, Head(net[p]))
    PROVE  Move(p)
<1> DEFINE z == Head(net[p])
           x == Start(p)
           m == peer[p]
<1>1. CASE m.item.task /\ z.id = m.item.outId
  <2>1. z.id = p
    BY <1>1, TaskWas
  <2>2. Commit(p, JtFinished(p, x, z), Popped(p))
    BY Zenon, <1>1 DEF Response
  <2>3. Contract(p, m, cr, JtFinished(p, x, z), z.type) /\ Kind(p, z) = z.type
    BY <1>1, <2>1, AnswerStep, AnswerFacts
  <2> QED BY <2>2, <2>3, PoppedMoves
<1>2. CASE ~(m.item.task /\ z.id = m.item.outId)
  <2>1. Commit(p, x, Popped(p))
    BY Zenon, <1>2 DEF Response
  <2>2. /\ x \in XState /\ x.m = m /\ x.out = <<>> /\ x.crs = cr
        /\ m \in PeerState /\ Local(p, m) /\ ~x.bad
    BY StartIs
  <2> HIDE DEF x
  <2>3. m.item.state = "Active" /\ m.item.fast /\ p = Tgt => cr[m.sc] = "taken"
    BY TakenCR
  <2>5. Kind(p, z) # "request"
    BY DEF Kind, IsRequest
  <2>6. Quiet(p, m, x, Kind(p, z))
    BY <2>2, <2>5, QuietSame
  <2>4. Contract(p, m, cr, x, Kind(p, z))
    BY <2>2, <2>3, <2>6, OutNone, QuietStep
  <2> QED BY <2>1, <2>4, PoppedMoves
<1> QED BY <1>1, <1>2

\* Each stanza that arrives keeps the contract.
LEMMA DeliverMoves ==
    ASSUME IInv, NEW p \in Peer, Deliver(p)
    PROVE  Move(p)
<1>1. CASE Head(net[p]).type = "request" /\ PsIncoming(p, Head(net[p]))
  BY <1>1, PsIncomingMoves DEF Deliver
<1>2. CASE Head(net[p]).type # "request" /\ Response(p, Head(net[p]))
  BY <1>2, ResponseMoves DEF Deliver
<1> QED BY <1>1, <1>2 DEF Deliver

\* A TCP connection has come about, for the item j.
Opened(x, s, j) == [x EXCEPT !.m = [@ EXCEPT !.end[s] = "open", !.item = j]]

\* A socket that opens, with the item.
LEMMA OpenedIs ==
    ASSUME NEW x \in XState, NEW s \in Stream, NEW j \in Item
    PROVE  LET y == Opened(x, s, j)
           IN  /\ y \in XState /\ y.m \in PeerState /\ y.m.item = j
               /\ SameConnection(x.m, y.m) /\ SameRest(x, y)
               /\ y.m.end[s] = "open"
               /\ \A t \in Stream : t # s => y.m.end[t] = x.m.end[t]
<1> DEFINE e == [x.m.end EXCEPT ![s] = "open"]
           n == [x.m EXCEPT !.end[s] = "open", !.item = j]
           y == Opened(x, s, j)
<1>1. /\ x.m \in PeerState /\ x.m.end \in [Stream -> {"none", "dialing", "open", "closed"}]
  BY XFields
<1>2. /\ e \in [Stream -> {"none", "dialing", "open", "closed"}] /\ e[s] = "open"
      /\ \A t \in Stream : t # s => e[t] = x.m.end[t]
  BY <1>1
<1>3. n \in PeerState /\ n.item = j /\ n.end = e /\ SameConnection(x.m, n)
  BY <1>1, <1>2 DEF PeerState, SameConnection
<1>4. y = [x EXCEPT !.m = n]
  BY DEF Opened
<1> HIDE DEF n, y, e
<1>5. y \in XState /\ y.m = n /\ SameRest(x, y)
  BY <1>3, <1>4, PutIs
<1> QED BY <1>2, <1>3, <1>5 DEF y

\* The S5BServer of p takes a connection for the item.
LEMMA IncomingMoves ==
    ASSUME IInv, NEW p \in Peer, Incoming(p)
    PROVE  Move(p)
<1> DEFINE x == Start(p)
           m == peer[p]
           i == m.item
           s == Direct(p)
           j == [i EXCEPT !.client = s, !.allowIncoming = FALSE]
           y == Opened(x, s, j)
<1>0. /\ s \in Stream /\ s.owner = p /\ NoStream \notin Stream /\ p \in {Ini, Tgt} /\ Ini # Tgt
      /\ Other(Tgt) = Ini /\ Ini \in Peer /\ Tgt \in Peer
  BY StreamFacts DEF Direct, Other, Peer
<1>1. /\ x \in XState /\ x.m = m /\ x.out = <<>> /\ x.crs = cr /\ ~x.bad
      /\ m \in PeerState /\ Local(p, m) /\ i \in Item
  BY StartIs, XFields
<1>2. /\ peer[Other(p)].end[s] = "dialing" /\ m.entry = "item" /\ i.allowIncoming
      /\ Commit(p, y, net)
  BY Zenon DEF Incoming, Opened
<1>3. /\ j \in Item /\ j.state = i.state /\ j.targetMode = i.targetMode /\ j.fast = i.fast
      /\ j.activated = i.activated /\ j.lateProxy = i.lateProxy
      /\ j.connSuccess = i.connSuccess /\ j.localFailed = i.localFailed
      /\ j.remoteFailed = i.remoteFailed /\ ~j.allowIncoming /\ j.inHosts = i.inHosts
      /\ j.inId = i.inId /\ j.outId = i.outId /\ j.task = i.task /\ j.conn = i.conn
      /\ j.proxyConn = i.proxyConn /\ j.proxyTask = i.proxyTask /\ j.proxy = i.proxy
      /\ j.client = s /\ j.clientOut = i.clientOut
  BY <1>0, <1>1 DEF Item
<1> HIDE DEF j, x, s
<1>4. /\ y \in XState /\ y.m \in PeerState /\ y.m.item = j
      /\ SameConnection(m, y.m) /\ y.out = <<>> /\ y.crs = cr /\ ~y.bad
      /\ y.m.end[s] = "open" /\ \A t \in Stream : t # s => y.m.end[t] = m.end[t]
  BY <1>0, <1>1, <1>3, OpenedIs DEF SameRest
<1> HIDE DEF y
<1>5. i.client = NoStream
  BY <1>1, <1>2 DEF Local, SocketsOK
<1>6. i.state # "Active"
  <2>1. p = Ini => i.state # "Active"
    BY <1>1, <1>2 DEF Local, ActiveOK
  <2>2. ASSUME p = Tgt, i.state = "Active"
        PROVE  FALSE
    <3>1. i.fast
      BY <1>1, <1>2, <2>2 DEF Local, ActiveOK
    <3>2. m.sc \in Stream /\ cr[m.sc] = "taken"
      BY <2>2, <3>1, TakenCR
    <3>3. Local(Ini, peer[Ini]) /\ peer[Ini].end[Direct(Tgt)] = "dialing" /\ Direct(Tgt) \in Stream
      BY <1>0, <1>2, <2>2, StartIs DEF s
    <3>4. peer[Ini].item.conn # {}
      <4>1. Direct(Tgt) # Proxy(Ini)
        BY DEF Direct, Proxy
      <4> QED BY <3>3, <4>1 DEF Local, SocketsOK, EndsOK
    <3>5. peer[Ini].item.state = "Initiator" /\ ~peer[Ini].item.activated
      BY <1>0, <3>3, <3>4 DEF Local, DialOK, PlaceOK
    <3>6. NoCR
      BY <3>5 DEF IInv, EarlyOK
    <3> QED BY <3>2, <3>6 DEF NoCR
  <2> QED BY <1>0, <2>1, <2>2
<1>7. /\ i.state = "Initiator" => p = Ini /\ ~i.connSuccess /\ ~i.activated
      /\ i.state = "Target" => p = Tgt /\ i.fast
      /\ ~i.proxyConn /\ i.proxyTask = "none"
  <2>1. i.state = "Initiator" => p = Ini /\ ~i.connSuccess /\ ~i.activated
    BY <1>1, <1>5 DEF Local, IniOK, PlaceOK
  <2>2. i.state = "Target" => p = Tgt /\ i.fast
    BY <1>1, <1>2 DEF Local, TgtOK, PlaceOK
  <2>3. ~(i.proxyConn \/ i.proxyTask # "none")
    BY <1>1, <1>2 DEF Local, ProxyOK
  <2> QED BY <2>1, <2>2, <2>3
<1>8. Local(p, y.m)
  <2>1. PlaceOK(p, y.m)
    BY <1>1, <1>2, <1>3, <1>4 DEF Local, PlaceOK, SameConnection
  <2>2. SocketsOK(p, y.m)
    BY <1>0, <1>1, <1>3, <1>4, <1>5 DEF Local, SocketsOK, EndsOK, SameConnection
  <2>3. ProxyOK(p, y.m) /\ HostsOK(p, y.m)
    BY <1>1, <1>3, <1>4, <1>7 DEF Local, ProxyOK, HostsOK
  <2>4. DialOK(p, y.m)
    BY <1>1, <1>3, <1>4 DEF Local, DialOK, Pending
  <2>5. TaskOK(p, y.m)
    BY <1>1, <1>3, <1>4 DEF Local, TaskOK, s
  <2>6. IniOK(y.m)
    BY <1>0, <1>1, <1>3, <1>4, <1>7 DEF Local, IniOK
  <2>7. TgtOK(y.m) /\ ActiveOK(p, y.m)
    BY <1>0, <1>1, <1>3, <1>4, <1>6, <1>7 DEF Local, TgtOK, ActiveOK
  <2> QED BY <2>1, <2>2, <2>3, <2>4, <2>5, <2>6, <2>7 DEF Local
<1>9. Quiet(p, m, y, "nothing")
  BY <1>3, <1>4, <1>7 DEF Quiet, ByProxy
<1>10. Owes(p, y.m) => Owes(p, m)
  BY <1>3, <1>4 DEF Owes, Pending, SameConnection
<1>11. m.con # "Idle"
  BY <1>1, <1>2 DEF Local, PlaceOK
<1>12. Contract(p, m, cr, y, "nothing")
  BY <1>1, <1>4, <1>6, <1>8, <1>9, <1>10, <1>11, OutNone, QuietStep
<1> QED BY <1>2, <1>12 DEF Move

\* The connector has given up on the hosts S, its last ones or not.
Tries(p, S) ==
    LET x == Undialled(Start(p), S) IN IF x.m.item.conn = {} THEN ConnFailure(x) ELSE x

\* Giving up on hosts, with what follows, keeps the contract.
LEMMA TriesMoves ==
    ASSUME IInv, NEW p \in Peer, NEW S \in SUBSET Stream, S \subseteq peer[p].item.conn,
           S # {}, Commit(p, Tries(p, S), net)
    PROVE  Move(p)
<1> DEFINE m == peer[p]
           i == m.item
           v == Undialled(Start(p), S)
           j == v.m.item
           a == RespondError(Other(p), 404)
           y == Tries(p, S)
<1>1. /\ m \in PeerState /\ Local(p, m) /\ i \in Item /\ p \in {Ini, Tgt}
      /\ PlaceOK(p, m) /\ HostsOK(p, m)
  BY StartIs, XFields DEF Peer, Local
<1>2. /\ v \in XState /\ SameConnection(m, v.m) /\ v.out = <<>> /\ v.crs = cr /\ ~v.bad
      /\ SameProgress(i, j) /\ j.conn = i.conn \ S
      /\ j.lateProxy = i.lateProxy /\ j.localFailed = i.localFailed
      /\ j.clientOut = i.clientOut /\ j.inHosts = i.inHosts /\ j.inId = i.inId
      /\ PlaceOK(p, v.m) /\ SocketsOK(p, v.m) /\ ProxyOK(p, v.m) /\ HostsOK(p, v.m)
      /\ TaskOK(p, v.m) /\ IniOK(v.m) /\ TgtOK(v.m) /\ ActiveOK(p, v.m)
  <2> DEFINE x == Start(p)
  <2>1. /\ x \in XState /\ x.m = m /\ x.out = <<>> /\ x.crs = cr /\ ~x.bad
    BY StartIs
  <2>2. v = Undialled(x, S)
    OBVIOUS
  <2> HIDE DEF x, v
  <2> QED BY <1>1, <2>1, <2>2, UndialledIs DEF Local, SameRest
<1>3. /\ i.conn # {} /\ i.state \in {"Initiator", "Target"}
      /\ ~i.connSuccess /\ ~i.localFailed /\ ~i.activated /\ i.clientOut = NoStream
      /\ i.state = "Initiator" => i.targetMode = "Fast"
      /\ ~i.task => i.remoteFailed \/ (i.state = "Target" /\ ~i.fast)
      /\ Owes(p, m)
  <2>1. i.conn # {}
    OBVIOUS
  <2>2. Owes(p, m)
    BY <2>1 DEF Owes
  <2> QED BY <1>1, <2>1, <2>2 DEF Local, DialOK
<1>4. /\ a \in Stanza /\ NoRequest(<<a>>) /\ NoResult(Other(p), <<a>>)
      /\ Answers(Other(p), <<a>>) = 1 /\ Append(<<>>, a) = <<a>>
  <2>1. 404 \in Codes
    BY DEF Codes
  <2> QED BY <2>1, ErrorAnswer
<1>5. m.con # "Idle" /\ m.con # "WaitingForAccept" /\ m.entry = "item" /\ j.inId = Other(p)
  <2>1. i.inHosts # {}
    BY <1>1, <1>3 DEF HostsOK
  <2>2. j.inId = Other(p)
    BY <1>1, <1>2, <2>1 DEF HostsOK
  <2>3. m.entry = "item"
    BY <1>1, <1>3 DEF PlaceOK, NewItem
  <2> QED BY <1>1, <2>2, <2>3 DEF PlaceOK
<1>6. ~i.proxyConn /\ i.proxyTask = "none"
  <2>1. ~(i.proxyConn \/ i.proxyTask # "none")
    BY <1>1, <1>3 DEF Local, ProxyOK
  <2> QED BY <2>1
<1>7. y = IF j.conn = {} THEN ConnFailure(v) ELSE v
  BY DEF Tries
<1>8. ConnFailure(v) = CASE ~j.lateProxy -> DoConnectError(v)
                         [] j.lateProxy /\ j.remoteFailed -> DoIncoming(v)
                         [] j.lateProxy /\ ~j.remoteFailed -> v
  BY Zenon DEF ConnFailure
<1> HIDE DEF v, a, y
<1>9. \A z \in XState : SameConnection(v.m, z.m) /\ SameProgress(j, z.m.item)
                          => Quiet(p, m, z, "nothing")
  <2> SUFFICES ASSUME NEW z \in XState, SameConnection(v.m, z.m), SameProgress(j, z.m.item)
               PROVE  Quiet(p, m, z, "nothing")
    OBVIOUS
  <2>1. SameConnection(m, z.m)
    BY <1>2 DEF SameConnection
  <2> QED BY <1>2, <1>3, <2>1 DEF Quiet, SameProgress, ByProxy
<1>10. \A z \in XState : SameConnection(v.m, z.m) /\ z.m.item.conn = {} /\ ~Pending(z.m.item)
                           => ~Owes(p, z.m)
  BY <1>2, <1>5 DEF Owes, SameConnection
<1>11. p = Ini /\ i.state = "Initiator" => ~i.connSuccess
  BY <1>3
\* It goes on with what it has.
<1>12. ASSUME y = v, j.conn # {} \/ (j.lateProxy /\ ~j.remoteFailed)
       PROVE  Contract(p, m, cr, y, "nothing")
  <2>1. j.conn = {} => j.task
    <3>1. j.lateProxy /\ j.state = "Target" => j.fast
      BY <1>2 DEF TgtOK
    <3> QED BY <1>2, <1>3, <1>12, <3>1 DEF SameProgress
  <2>2. DialOK(p, v.m)
    BY <1>2, <1>3, <2>1 DEF DialOK, SameProgress, Pending
  <2>3. Local(p, v.m)
    BY <1>2, <2>2 DEF Local
  <2>4. Quiet(p, m, v, "nothing")
    BY <1>2, <1>9 DEF SameConnection, SameProgress
  <2> QED BY <1>1, <1>2, <1>3, <1>5, <1>12, <2>3, <2>4, OutNone, QuietStep
\* It tells the other client that it has failed, or goes on to the proxies.
<1>13. ASSUME y \in XState, y.crs = cr, ~y.bad, Local(p, y.m),
              \/ /\ y.out = <<>> /\ SameProgress(j, y.m.item) /\ SameConnection(v.m, y.m)
              \/ /\ y.out = <<a>> /\ SameProgress(j, y.m.item) /\ SameConnection(v.m, y.m)
                 /\ y.m.item.conn = {} /\ ~Pending(y.m.item)
              \/ y.out = <<a>> /\ Left(p, y.m)
       PROVE  Contract(p, m, cr, y, "nothing")
  <2>1. ASSUME y.out = <<>>, SameProgress(j, y.m.item), SameConnection(v.m, y.m)
        PROVE  Contract(p, m, cr, y, "nothing")
    BY <1>1, <1>3, <1>5, <1>9, <1>13, <2>1, OutNone, QuietStep
  <2>2. ASSUME y.out = <<a>>, SameProgress(j, y.m.item), SameConnection(v.m, y.m),
               y.m.item.conn = {}, ~Pending(y.m.item)
        PROVE  Contract(p, m, cr, y, "nothing")
    BY <1>1, <1>3, <1>4, <1>5, <1>9, <1>10, <1>13, <2>2, QuietStep
  <2>3. ASSUME y.out = <<a>>, Left(p, y.m)
        PROVE  Contract(p, m, cr, y, "nothing")
    BY <1>1, <1>3, <1>4, <1>5, <1>13, <2>3, LeftStep
  <2> QED BY <1>13, <2>1, <2>2, <2>3
<1>14. CASE j.conn # {} \/ (j.lateProxy /\ ~j.remoteFailed)
  <2>1. y = v
    BY <1>7, <1>8, <1>14
  <2>2. Contract(p, m, cr, y, "nothing")
    BY <1>12, <1>14, <2>1
  <2> QED BY <2>2 DEF Move, y
<1>15. CASE j.conn = {} /\ ~j.lateProxy
  <2>1. y = DoConnectError(v)
    BY <1>7, <1>8, <1>15
  <2>2. /\ j.state \in {"Initiator", "Target"}
        /\ j.state = "Initiator" => j.targetMode = "Fast"
    BY <1>2, <1>3 DEF SameProgress
  <2>3. /\ y \in XState /\ y.crs = v.crs /\ y.bad = v.bad /\ Local(p, y.m)
        /\ y.out = Append(v.out, RespondError(j.inId, 404))
        /\ \/ /\ SameProgress(j, y.m.item) /\ SameConnection(v.m, y.m)
              /\ y.m.item.localFailed /\ y.m.item.conn = {}
           \/ Left(p, y.m)
    BY <1>2, <1>15, <2>1, <2>2, DoConnectErrorIs
  <2>4. y.out = <<a>>
    BY <1>2, <1>4, <1>5, <2>3 DEF a
  <2>5. y.m.item.localFailed => ~Pending(y.m.item)
    BY DEF Pending
  <2>6. Contract(p, m, cr, y, "nothing")
    BY <1>2, <1>13, <2>3, <2>4, <2>5
  <2> QED BY <2>6 DEF Move, y
<1>16. CASE j.conn = {} /\ j.lateProxy /\ j.remoteFailed
  <2>1. y = DoIncoming(v)
    BY <1>7, <1>8, <1>16
  <2>2. ~j.task
    BY <1>2, <1>16 DEF TaskOK
  <2>3. /\ j.state \in {"Initiator", "Target"} /\ ~j.connSuccess /\ ~j.activated
        /\ j.state = "Initiator" => j.targetMode = "Fast"
        /\ ~j.proxyConn /\ j.proxyTask = "none"
    BY <1>2, <1>3, <1>6 DEF SameProgress
  <2>4. Offered(p, v)
    BY <1>2, <1>3, <1>5, <1>16, <2>2, <2>3 DEF Offered
  <2>5. /\ y \in XState /\ y.crs = v.crs /\ y.bad = v.bad /\ Local(p, y.m)
        /\ \/ y.out = v.out /\ SameProgress(j, y.m.item) /\ SameConnection(v.m, y.m)
           \/ /\ y.out = Append(v.out, RespondError(Other(p), 404))
              /\ SameProgress(j, y.m.item) /\ SameConnection(v.m, y.m)
              /\ y.m.item.conn = {} /\ ~Pending(y.m.item)
           \/ y.out = Append(v.out, RespondError(Other(p), 404)) /\ Left(p, y.m)
    BY <1>2, <2>1, <2>4, DoIncomingIs
  <2>6. Append(v.out, RespondError(Other(p), 404)) = <<a>>
    BY <1>2, <1>4 DEF a
  <2>7. Contract(p, m, cr, y, "nothing")
    BY <1>2, <1>13, <2>5, <2>6
  <2> QED BY <2>7 DEF Move, y
<1> QED BY <1>14, <1>15, <1>16

\* A host that cannot be reached is given up.
LEMMA HostFailsTries ==
    ASSUME IInv, NEW p \in Peer, NEW s \in Stream, HostFails(p, s)
    PROVE  s \in peer[p].item.conn /\ Commit(p, Tries(p, {s}), net)
<1> DEFINE x == Start(p)
           d == DropMany(x, {s})
           z == [Drop(x, s) EXCEPT !.m.item.conn = @ \ {s}]
<1>1. x \in XState /\ s \in peer[p].item.conn
  BY StartIs DEF HostFails
<1>2. Drop(x, s) = d
  <2> DEFINE n == [x.m EXCEPT !.end = Closing(x.m.end, {s})]
  <2>1. Drop(x, s) = [x EXCEPT !.m = n]
    BY <1>1, DropIs
  <2>2. d = [x EXCEPT !.m = n]
    BY <1>1, DropManyIs
  <2> QED BY <2>1, <2>2
<1>3. z = Undialled(x, {s})
  <2>1. d \in XState /\ d.m.item = x.m.item
    BY <1>1, DroppedIs
  <2> HIDE DEF d
  <2>2. [d EXCEPT !.m.item.conn = @ \ {s}] = With(d, Without(d.m.item, {s}))
    BY <2>1 DEF With, Without, XState, PeerState, Item
  <2> QED BY Zenon, <1>2, <2>1, <2>2 DEF Undialled, d
<1>4. Commit(p, IF z.m.item.conn = {} THEN ConnFailure(z) ELSE z, net)
  BY Zenon DEF HostFails
<1>5. Commit(p, Tries(p, {s}), net)
  BY Zenon, <1>3, <1>4 DEF Tries
<1> QED BY <1>1, <1>5

\* The timeout of the connector gives up all of its hosts.
LEMMA ConnectorTimeoutTries ==
    ASSUME IInv, NEW p \in Peer, ConnectorTimeout(p)
    PROVE  LET S == peer[p].item.conn
           IN  S # {} /\ S \in SUBSET Stream /\ Commit(p, Tries(p, S), net)
<1> DEFINE x == Start(p)
           S == peer[p].item.conn
           d == DropMany(x, S)
           z == [d EXCEPT !.m.item.conn = {}]
<1>1. x \in XState /\ x.m = peer[p] /\ S # {} /\ S \in SUBSET Stream
  BY StartIs, XFields DEF ConnectorTimeout
<1>2. z = Undialled(x, S)
  <2>1. d \in XState /\ d.m.item = x.m.item /\ d.m.item \in Item
    BY <1>1, DroppedIs, XFields
  <2> HIDE DEF d
  <2>2. Without(x.m.item, S) = [d.m.item EXCEPT !.conn = {}]
    BY <1>1, <2>1 DEF Without, Item
  <2>3. [d EXCEPT !.m.item.conn = {}] = With(d, [d.m.item EXCEPT !.conn = {}])
    BY <2>1 DEF With, XState, PeerState
  <2> QED BY Zenon, <2>2, <2>3 DEF Undialled, d
<1>3. Undialled(x, S).m.item.conn = {}
  <2>1. Local(p, x.m)
    BY <1>1, StartIs
  <2>2. Undialled(x, S).m.item.conn = x.m.item.conn \ S
    BY <1>1, <2>1, UndialledIs DEF Local
  <2> QED BY <1>1, <2>2
<1>4. Commit(p, ConnFailure(z), net)
  BY Zenon DEF ConnectorTimeout
<1>5. Tries(p, S) = ConnFailure(z)
  BY Zenon, <1>2, <1>3 DEF Tries
<1> QED BY <1>1, <1>4, <1>5

\* Both keep the contract.
LEMMA HostFailsMoves ==
    ASSUME IInv, NEW p \in Peer, NEW s \in Stream, HostFails(p, s)
    PROVE  Move(p)
  BY HostFailsTries, TriesMoves

LEMMA ConnectorTimeoutMoves ==
    ASSUME IInv, NEW p \in Peer, ConnectorTimeout(p)
    PROVE  Move(p)
  BY ConnectorTimeoutTries, TriesMoves

\* The connector has reached the host s and answers the request with it: what
\* is left to do is to go on with it.
Reached(x, s) ==
    LET i == x.m.item IN
    Send(Opened(DropMany(x, i.conn \ {s}), s,
                [i EXCEPT !.conn = {}, !.connSuccess = TRUE, !.lateProxy = FALSE]),
         RespondSuccess(i.inId, s))

\* What reaching a host does before the connection is looked at.
LEMMA ReachedIs ==
    ASSUME IInv, NEW p \in Peer, NEW s \in peer[p].item.conn
    PROVE  LET y == Reached(Start(p), s)
               m == peer[p]
               i == m.item
               j == y.m.item
           IN  /\ y \in XState /\ SameConnection(m, y.m) /\ y.crs = cr /\ ~y.bad
               /\ y.out = <<RespondSuccess(Other(p), s)>>
               /\ j = [i EXCEPT !.conn = {}, !.connSuccess = TRUE, !.lateProxy = FALSE]
               /\ j \in Item
               /\ y.m.end[s] = "open"
               /\ \A t \in Stream : t # s =>
                     /\ t \in i.conn => y.m.end[t] \in {"none", "closed"}
                     /\ t \notin i.conn => y.m.end[t] = m.end[t]
<1> DEFINE x == Start(p)
           m == peer[p]
           i == m.item
           S == i.conn \ {s}
           d == DropMany(x, S)
           j == [i EXCEPT !.conn = {}, !.connSuccess = TRUE, !.lateProxy = FALSE]
           o == Opened(d, s, j)
           z == RespondSuccess(i.inId, s)
           y == Send(o, z)
<1>1. /\ x \in XState /\ x.m = m /\ x.out = <<>> /\ x.crs = cr /\ ~x.bad
      /\ m \in PeerState /\ i \in Item /\ Local(p, m) /\ s \in Stream /\ i.inId \in ReqId
      /\ m.end \in [Stream -> {"none", "dialing", "open", "closed"}]
  BY StartIs, XFields
<1>2. i.inId = Other(p)
  BY <1>1 DEF Local, HostsOK
<1>3. z \in Stanza
  BY <1>1, AnswerTypes
<1>4. j \in Item
  BY <1>1 DEF Item
<1>5. y = Reached(x, s)
  BY <1>1 DEF Reached
<1> HIDE DEF x, j, z, S
<1>6. /\ d \in XState /\ SameRest(x, d) /\ SameConnection(m, d.m)
      /\ d.m.end = Closing(m.end, S)
  BY <1>1, DroppedIs
<1> HIDE DEF d
<1>7. /\ o \in XState /\ o.m.item = j /\ SameConnection(d.m, o.m) /\ SameRest(d, o)
      /\ o.m.end[s] = "open" /\ \A t \in Stream : t # s => o.m.end[t] = d.m.end[t]
  BY <1>1, <1>4, <1>6, OpenedIs
<1> HIDE DEF o
<1>8. /\ y \in XState /\ y.m = o.m /\ y.crs = o.crs /\ y.bad = o.bad
      /\ y.out = Append(o.out, z)
  BY <1>3, <1>7, SendIs
<1>9. o.out = <<>> /\ Append(<<>>, z) = <<z>>
  BY <1>1, <1>6, <1>7, OutOne DEF SameRest
<1> HIDE DEF y
<1>10. \A t \in Stream : t # s =>
         /\ t \in i.conn => y.m.end[t] \in {"none", "closed"}
         /\ t \notin i.conn => y.m.end[t] = m.end[t]
  <2> SUFFICES ASSUME NEW t \in Stream, t # s
               PROVE  /\ t \in i.conn => y.m.end[t] \in {"none", "closed"}
                      /\ t \notin i.conn => y.m.end[t] = m.end[t]
    OBVIOUS
  <2>1. y.m.end[t] = Closing(m.end, S)[t]
    BY <1>6, <1>7, <1>8
  <2>2. t \in S <=> t \in i.conn
    BY DEF S
  <2> QED BY <1>1, <2>1, <2>2, ClosingIs
<1>11. y.crs = cr /\ ~y.bad
  BY <1>1, <1>6, <1>7, <1>8 DEF SameRest
<1>12. SameConnection(m, y.m)
  BY <1>6, <1>7, <1>8 DEF SameConnection
<1>13. y.out = <<z>> /\ z = RespondSuccess(Other(p), s)
  BY Zenon, <1>2, <1>8, <1>9 DEF z
<1>14. y.m.item = j /\ y.m.end[s] = "open"
  BY <1>7, <1>8
<1> QED BY <1>4, <1>5, <1>8, <1>10, <1>11, <1>12, <1>13, <1>14 DEF x, j

\* A success is one answer, and says which connection was used.
LEMMA SuccessAnswer ==
    ASSUME NEW p \in Peer, NEW s \in Stream
    PROVE  LET z == RespondSuccess(Other(p), s)
           IN  /\ NoRequest(<<z>>) /\ Answers(Other(p), <<z>>) = 1
               /\ OnlyUsed(Other(p), <<z>>, s) /\ ~NoResult(Other(p), <<z>>)
<1> DEFINE z == RespondSuccess(Other(p), s)
<1>1. z.type = "result" /\ z.id = Other(p) /\ z.used = s
  BY DEF RespondSuccess
<1> HIDE DEF z
<1>2. ~IsRequest(z) /\ Answer(Other(p), z)
  BY <1>1 DEF IsRequest, Answer
<1> QED BY <1>1, <1>2, OutOne DEF z

\* What is known when the connector of p has reached the host s.
LEMMA ReachedFacts ==
    ASSUME IInv, NEW p \in Peer, NEW s \in peer[p].item.conn
    PROVE  LET m == peer[p]
               i == m.item
               y == Reached(Start(p), s)
               j == y.m.item
           IN  /\ s \in Stream /\ s.owner = Other(p) /\ Owes(p, m) /\ m.entry = "item"
               /\ i.state = (IF p = Ini THEN "Initiator" ELSE "Target")
               /\ ~i.connSuccess /\ ~i.localFailed /\ ~i.activated /\ i.clientOut = NoStream
               /\ i.state = "Initiator" => i.targetMode = "Fast"
               /\ ~i.proxyConn /\ i.proxyTask = "none"
               /\ j \in Item /\ j.conn = {} /\ j.connSuccess /\ ~j.lateProxy /\ ~Pending(j)
               /\ j.state = i.state /\ j.targetMode = i.targetMode /\ j.fast = i.fast
               /\ j.activated = i.activated /\ j.localFailed = i.localFailed
               /\ j.remoteFailed = i.remoteFailed /\ j.allowIncoming = i.allowIncoming
               /\ j.inHosts = i.inHosts /\ j.inId = i.inId /\ j.outId = i.outId
               /\ j.task = i.task /\ j.proxyConn = i.proxyConn /\ j.proxyTask = i.proxyTask
               /\ j.client = i.client /\ j.clientOut = i.clientOut /\ j.proxy = i.proxy
               /\ \A t \in Stream : t # s =>
                     /\ y.m.end[t] = "open" => t \in {m.sc, i.client}
                     /\ y.m.end[t] # "dialing"
<1> DEFINE m == peer[p]
           i == m.item
           y == Reached(Start(p), s)
           j == y.m.item
<1>0. p \in {Ini, Tgt} /\ Ini # Tgt /\ NoStream \notin Stream
  BY StreamFacts
<1>1. m \in PeerState /\ i \in Item /\ Local(p, m) /\ s \in Stream
  BY StartIs, XFields
<1>2. /\ j = [i EXCEPT !.conn = {}, !.connSuccess = TRUE, !.lateProxy = FALSE]
      /\ j \in Item
      /\ \A t \in Stream : t # s =>
            /\ t \in i.conn => y.m.end[t] \in {"none", "closed"}
            /\ t \notin i.conn => y.m.end[t] = m.end[t]
  BY ReachedIs, ZenonT(30)
<1> HIDE DEF y
<1>3. /\ j.conn = {} /\ j.connSuccess /\ ~j.lateProxy
      /\ j.state = i.state /\ j.targetMode = i.targetMode /\ j.fast = i.fast
      /\ j.activated = i.activated /\ j.localFailed = i.localFailed
      /\ j.remoteFailed = i.remoteFailed /\ j.allowIncoming = i.allowIncoming
      /\ j.inHosts = i.inHosts /\ j.inId = i.inId /\ j.outId = i.outId
      /\ j.task = i.task /\ j.proxyConn = i.proxyConn /\ j.proxyTask = i.proxyTask
      /\ j.client = i.client /\ j.clientOut = i.clientOut /\ j.proxy = i.proxy
  BY <1>1, <1>2 DEF Item
<1> HIDE DEF j
<1>4. s.owner = Other(p)
  BY <1>1 DEF Local, HostsOK, Owned
<1>5. /\ i.conn # {} /\ i.state \in {"Initiator", "Target"}
      /\ ~i.connSuccess /\ ~i.localFailed /\ ~i.activated /\ i.clientOut = NoStream
      /\ i.state = "Initiator" => i.targetMode = "Fast"
  BY <1>1 DEF Local, DialOK
<1>6. m.entry = "item" /\ i.state = (IF p = Ini THEN "Initiator" ELSE "Target")
  BY <1>0, <1>1, <1>5 DEF Local, PlaceOK, NewItem
<1>7. ~i.proxyConn /\ i.proxyTask = "none"
  <2>1. ~(i.proxyConn \/ i.proxyTask # "none")
    BY <1>1, <1>5 DEF Local, ProxyOK
  <2> QED BY <2>1
<1>8. \A t \in Stream : t # s =>
         /\ y.m.end[t] = "open" => t \in {m.sc, i.client}
         /\ y.m.end[t] # "dialing"
  BY <1>0, <1>1, <1>2, <1>5, <1>7 DEF Local, SocketsOK, EndsOK
<1>9. Owes(p, m) /\ ~Pending(j)
  BY <1>3, <1>5 DEF Owes, Pending
<1> QED BY <1>1, <1>2, <1>3, <1>4, <1>5, <1>6, <1>7, <1>8, <1>9 DEF y, j

\* The two ways conn_result() may take when a host is reached.
LEMMA ConnSuccessShape ==
    ASSUME NEW x, NEW s
    PROVE  LET y == Reached(x, s)
               d == Drop(y, x.m.item.client)
           IN  ConnSuccess(x, s) =
                 IF x.m.item.state = "Initiator"
                 THEN TryActivation([d EXCEPT !.m.item =
                                      [@ EXCEPT !.client = s, !.allowIncoming = FALSE]])
                 ELSE CheckForActivation([y EXCEPT !.m.item.clientOut = s])
  BY Zenon DEF ConnSuccess, Reached, Opened

\* The initiator tosses what came in and goes on with the new connection.
LEMMA InitiatorConnected ==
    ASSUME IInv, NEW s \in peer[Ini].item.conn,
           Commit(Ini, ConnSuccess(Start(Ini), s), net)
    PROVE  Move(Ini)
<1> DEFINE x == Start(Ini)
           m == peer[Ini]
           i == m.item
           y == Reached(x, s)
           j == y.m.item
           d == Drop(y, i.client)
           k == [j EXCEPT !.client = s, !.allowIncoming = FALSE]
           v == With(d, k)
           z == RespondSuccess(Tgt, s)
<1>0. Ini \in Peer /\ Other(Ini) = Tgt /\ Ini # Tgt /\ NoStream \notin Stream
  BY StreamFacts DEF Other
<1>1. /\ x \in XState /\ x.m = m /\ m \in PeerState /\ i \in Item /\ Local(Ini, m)
      /\ i.client \in Stream \cup {NoStream}
  BY <1>0, StartIs, XFields
<1>2. /\ y \in XState /\ SameConnection(m, y.m) /\ y.crs = cr /\ ~y.bad
      /\ y.out = <<z>> /\ y.m.end[s] = "open"
      /\ y.m.end \in [Stream -> {"none", "dialing", "open", "closed"}]
  BY <1>0, ReachedIs, XFields
<1>3. /\ s \in Stream /\ s.owner = Tgt /\ Owes(Ini, m) /\ m.entry = "item"
      /\ i.state = "Initiator" /\ ~i.connSuccess /\ ~i.localFailed /\ ~i.activated
      /\ i.clientOut = NoStream /\ i.targetMode = "Fast"
      /\ ~i.proxyConn /\ i.proxyTask = "none"
      /\ j \in Item /\ j.conn = {} /\ j.connSuccess /\ ~j.lateProxy /\ ~Pending(j)
      /\ j.state = i.state /\ j.targetMode = i.targetMode /\ j.fast = i.fast
      /\ j.activated = i.activated /\ j.localFailed = i.localFailed
      /\ j.remoteFailed = i.remoteFailed
      /\ j.inHosts = i.inHosts /\ j.inId = i.inId /\ j.outId = i.outId
      /\ j.task = i.task /\ j.proxyConn = i.proxyConn /\ j.proxyTask = i.proxyTask
      /\ j.client = i.client /\ j.clientOut = i.clientOut
      /\ \A t \in Stream : t # s =>
            /\ y.m.end[t] = "open" => t \in {m.sc, i.client}
            /\ y.m.end[t] # "dialing"
  BY <1>0, ReachedFacts
<1>4. Commit(Ini, TryActivation([d EXCEPT !.m.item =
                     [@ EXCEPT !.client = s, !.allowIncoming = FALSE]]), net)
  <2> DEFINE a == TryActivation([d EXCEPT !.m.item =
                     [@ EXCEPT !.client = s, !.allowIncoming = FALSE]])
             b == CheckForActivation([y EXCEPT !.m.item.clientOut = s])
  <2>1. ConnSuccess(x, s) = IF x.m.item.state = "Initiator" THEN a ELSE b
    BY Zenon, <1>1, ConnSuccessShape
  <2> HIDE DEF a, b, x
  <2>2. ConnSuccess(x, s) = a
    BY <1>1, <1>3, <2>1
  <2> QED BY Zenon, <2>2 DEF a, x
<1>5. /\ k \in Item /\ k.client = s /\ ~k.allowIncoming /\ k.conn = {} /\ k.connSuccess
      /\ ~k.lateProxy /\ ~Pending(k)
      /\ k.state = i.state /\ k.targetMode = i.targetMode /\ k.fast = i.fast
      /\ k.activated = i.activated /\ k.localFailed = i.localFailed
      /\ k.remoteFailed = i.remoteFailed
      /\ k.inHosts = i.inHosts /\ k.inId = i.inId /\ k.outId = i.outId
      /\ k.task = i.task /\ k.proxyConn = i.proxyConn /\ k.proxyTask = i.proxyTask
      /\ k.clientOut = i.clientOut
  BY <1>3, ZenonT(30) DEF Item, Pending
<1> HIDE DEF y
<1>6. /\ d \in XState /\ SameRest(y, d) /\ d.m \in PeerState /\ d.m.item = j
      /\ SameConnection(y.m, d.m) /\ d.m.end = Closing(y.m.end, {i.client})
  BY <1>1, <1>2, DroppedOneIs
<1> HIDE DEF d
<1>7. [d EXCEPT !.m.item = [@ EXCEPT !.client = s, !.allowIncoming = FALSE]] = v
  BY <1>6 DEF With, XState, PeerState
<1> HIDE DEF k, z
<1>8. /\ v \in XState /\ v.m.item = k /\ v.m.end = d.m.end
      /\ SameConnection(d.m, v.m) /\ SameRest(d, v)
  BY <1>5, <1>6, WithIs
<1>9. Commit(Ini, TryActivation(v), net)
  BY Zenon, <1>4, <1>7
<1> HIDE DEF v, j
<1>10. SameConnection(m, v.m) /\ v.crs = cr /\ ~v.bad /\ v.out = <<z>>
  BY <1>2, <1>6, <1>8 DEF SameConnection, SameRest
<1>11. i.client # s
  BY <1>0, <1>1, <1>3 DEF Local, IniOK
<1>12. \A t \in Stream : v.m.end[t] # "dialing" /\ (v.m.end[t] = "open" => t \in {m.sc, s})
  <2> SUFFICES ASSUME NEW t \in Stream
               PROVE  v.m.end[t] # "dialing" /\ (v.m.end[t] = "open" => t \in {m.sc, s})
    OBVIOUS
  <2>1. v.m.end[t] = Closing(y.m.end, {i.client})[t]
    BY <1>6, <1>8
  <2>2. /\ t = i.client => v.m.end[t] \in {"none", "closed"}
        /\ t # i.client => v.m.end[t] = y.m.end[t]
    BY <1>2, <2>1, ClosingIs
  <2> QED BY <1>2, <1>3, <1>11, <2>2
<1>13. Local(Ini, v.m)
  <2>1. PlaceOK(Ini, v.m)
    BY <1>1, <1>3, <1>5, <1>8, <1>10 DEF Local, PlaceOK, SameConnection
  <2>2. SocketsOK(Ini, v.m)
    BY <1>5, <1>8, <1>10, <1>12 DEF SocketsOK, EndsOK, SameConnection
  <2>3. ProxyOK(Ini, v.m)
    BY <1>3, <1>5, <1>8 DEF ProxyOK
  <2>4. HostsOK(Ini, v.m)
    BY <1>1, <1>5, <1>8 DEF Local, HostsOK
  <2>5. DialOK(Ini, v.m)
    BY <1>5, <1>8 DEF DialOK
  <2>6. TaskOK(Ini, v.m)
    BY <1>1, <1>3, <1>5, <1>8 DEF Local, TaskOK
  <2>7. IniOK(v.m)
    BY <1>0, <1>3, <1>5, <1>8 DEF IniOK
  <2>8. TgtOK(v.m) /\ ActiveOK(Ini, v.m)
    BY <1>3, <1>5, <1>8 DEF TgtOK, ActiveOK
  <2> QED BY <2>1, <2>2, <2>3, <2>4, <2>5, <2>6, <2>7, <2>8 DEF Local
<1>14. Settled(v.m)
  BY <1>3, <1>5, <1>8 DEF Settled
<1>15. NoRequest(v.out) /\ Answers(Tgt, v.out) = 1 /\ OnlyUsed(Tgt, v.out, s)
  BY <1>0, <1>3, <1>10, SuccessAnswer DEF z
<1>16. Contract(Ini, peer[Ini], cr, TryActivation(v), "nothing")
  BY <1>0, <1>3, <1>5, <1>8, <1>10, <1>13, <1>14, <1>15, ActivationStep
<1> QED BY <1>0, <1>9, <1>16 DEF Move

\* The target keeps both and goes on with the one the CR has come on.
LEMMA TargetConnected ==
    ASSUME IInv, NEW s \in peer[Tgt].item.conn,
           Commit(Tgt, ConnSuccess(Start(Tgt), s), net)
    PROVE  Move(Tgt)
<1> DEFINE x == Start(Tgt)
           m == peer[Tgt]
           i == m.item
           y == Reached(x, s)
           j == y.m.item
           k == [j EXCEPT !.clientOut = s]
           v == With(y, k)
           z == RespondSuccess(Ini, s)
<1>0. Tgt \in Peer /\ Other(Tgt) = Ini /\ Ini # Tgt /\ NoStream \notin Stream
  BY StreamFacts DEF Other
<1>1. /\ x \in XState /\ x.m = m /\ m \in PeerState /\ i \in Item /\ Local(Tgt, m)
  BY <1>0, StartIs, XFields
<1>2. /\ y \in XState /\ SameConnection(m, y.m) /\ y.crs = cr /\ ~y.bad
      /\ y.out = <<z>> /\ y.m.end[s] = "open"
  BY <1>0, ReachedIs
<1>3. /\ s \in Stream /\ s.owner = Ini /\ Owes(Tgt, m) /\ m.entry = "item"
      /\ i.state = "Target" /\ ~i.connSuccess /\ ~i.localFailed /\ ~i.activated
      /\ i.clientOut = NoStream
      /\ ~i.proxyConn /\ i.proxyTask = "none"
      /\ j \in Item /\ j.conn = {} /\ j.connSuccess /\ ~j.lateProxy /\ ~Pending(j)
      /\ j.state = i.state /\ j.targetMode = i.targetMode /\ j.fast = i.fast
      /\ j.activated = i.activated /\ j.localFailed = i.localFailed
      /\ j.remoteFailed = i.remoteFailed /\ j.allowIncoming = i.allowIncoming
      /\ j.inHosts = i.inHosts /\ j.inId = i.inId /\ j.outId = i.outId
      /\ j.task = i.task /\ j.proxyConn = i.proxyConn /\ j.proxyTask = i.proxyTask
      /\ j.client = i.client
      /\ \A t \in Stream : t # s =>
            /\ y.m.end[t] = "open" => t \in {m.sc, i.client}
            /\ y.m.end[t] # "dialing"
  BY <1>0, ReachedFacts
<1>4. Commit(Tgt, CheckForActivation([y EXCEPT !.m.item.clientOut = s]), net)
  <2> DEFINE a == TryActivation([Drop(y, i.client) EXCEPT !.m.item =
                     [@ EXCEPT !.client = s, !.allowIncoming = FALSE]])
             b == CheckForActivation([y EXCEPT !.m.item.clientOut = s])
  <2>1. ConnSuccess(x, s) = IF x.m.item.state = "Initiator" THEN a ELSE b
    BY Zenon, <1>1, ConnSuccessShape
  <2> HIDE DEF a, b, x
  <2>2. ConnSuccess(x, s) = b
    BY <1>1, <1>3, <2>1
  <2> QED BY Zenon, <2>2 DEF b, x
<1>5. /\ k \in Item /\ k.clientOut = s /\ k.conn = {} /\ k.connSuccess
      /\ ~k.lateProxy /\ ~Pending(k) /\ k.allowIncoming = i.allowIncoming
      /\ k.state = i.state /\ k.targetMode = i.targetMode /\ k.fast = i.fast
      /\ k.activated = i.activated /\ k.localFailed = i.localFailed
      /\ k.remoteFailed = i.remoteFailed
      /\ k.inHosts = i.inHosts /\ k.inId = i.inId /\ k.outId = i.outId
      /\ k.task = i.task /\ k.proxyConn = i.proxyConn /\ k.proxyTask = i.proxyTask
      /\ k.client = i.client
  BY <1>3 DEF Item, Pending
<1> HIDE DEF y
<1>6. [y EXCEPT !.m.item.clientOut = s] = v
  BY <1>2 DEF With, XState, PeerState
<1> HIDE DEF k, z
<1>7. /\ v \in XState /\ v.m.item = k /\ v.m.end = y.m.end
      /\ SameConnection(y.m, v.m) /\ SameRest(y, v)
  BY <1>2, <1>5, WithIs
<1>8. Commit(Tgt, CheckForActivation(v), net)
  BY Zenon, <1>4, <1>6
<1> HIDE DEF v, j
<1>9. SameConnection(m, v.m) /\ v.crs = cr /\ ~v.bad /\ v.out = <<z>>
  BY <1>2, <1>7 DEF SameConnection, SameRest
<1>10. Local(Tgt, v.m)
  <2>1. PlaceOK(Tgt, v.m)
    BY <1>1, <1>3, <1>5, <1>7, <1>9 DEF Local, PlaceOK, SameConnection
  <2>2. SocketsOK(Tgt, v.m)
    BY <1>1, <1>2, <1>3, <1>5, <1>7, <1>9 DEF Local, SocketsOK, EndsOK, SameConnection
  <2>3. ProxyOK(Tgt, v.m)
    BY <1>3, <1>5, <1>7 DEF ProxyOK
  <2>4. HostsOK(Tgt, v.m)
    BY <1>1, <1>5, <1>7 DEF Local, HostsOK
  <2>5. DialOK(Tgt, v.m)
    BY <1>5, <1>7 DEF DialOK
  <2>6. TaskOK(Tgt, v.m)
    BY <1>1, <1>3, <1>5, <1>7 DEF Local, TaskOK
  <2>7. TgtOK(v.m)
    BY <1>1, <1>3, <1>5, <1>7 DEF Local, TgtOK
  <2>8. IniOK(v.m) /\ ActiveOK(Tgt, v.m)
    BY <1>3, <1>5, <1>7 DEF IniOK, ActiveOK
  <2> QED BY <2>1, <2>2, <2>3, <2>4, <2>5, <2>6, <2>7, <2>8 DEF Local
<1>11. Settled(v.m)
  BY <1>3, <1>5, <1>7 DEF Settled
<1>12. NoRequest(v.out) /\ Answers(Ini, v.out) = 1 /\ ~NoResult(Ini, v.out)
       /\ OnlyUsed(Ini, v.out, s)
  BY <1>0, <1>3, <1>9, SuccessAnswer DEF z
<1>13. cr[s] = "none"
  <2>1. TokenOK(Ini) /\ AnswerOK(peer[Ini], peer[Tgt])
    BY DEF IInv, TokenInv, Peer
  <2>2. hist.answered[Ini] = 0
    <3>1. Other(Ini) = Tgt
      BY DEF Other
    <3> QED BY <1>3, <2>1, <3>1 DEF TokenOK
  <2> QED BY <1>3, <2>1, <2>2 DEF AnswerOK
<1>14. Contract(Tgt, peer[Tgt], cr, CheckForActivation(v), "nothing")
  BY <1>0, <1>3, <1>5, <1>7, <1>9, <1>10, <1>11, <1>12, <1>13, TakingStep
<1> QED BY <1>0, <1>8, <1>14 DEF Move

\* Reaching a host keeps the contract.
LEMMA HostConnectedMoves ==
    ASSUME IInv, NEW p \in Peer, NEW s \in Stream, HostConnected(p, s)
    PROVE  Move(p)
<1>1. s \in peer[p].item.conn /\ Commit(p, ConnSuccess(Start(p), s), net)
  BY Zenon DEF HostConnected
<1> QED BY <1>1, InitiatorConnected, TargetConnected DEF Peer

\* The own proxy is used once everything else is over.
LEMMA ByProxyFacts ==
    ASSUME IInv, NEW p \in Peer, ByProxy(peer[p].item)
    PROVE  LET m == peer[p]
               i == m.item
           IN  /\ m \in PeerState /\ i \in Item /\ Local(p, m) /\ m.entry = "item"
               /\ m.con # "Idle" /\ m.con # "WaitingForAccept"
               /\ i.conn = {} /\ ~i.task /\ ~i.allowIncoming /\ ~Pending(i)
               /\ i.state = (IF p = Ini THEN "Initiator" ELSE "Target")
               /\ p = Ini => ~i.activated /\ i.targetMode # "Unknown" /\ ~i.connSuccess
               /\ p = Tgt => i.fast /\ ~i.activated
               /\ i.proxyConn => i.client = NoStream /\ i.proxyTask = "none"
               /\ i.proxyTask # "none" => i.client = Proxy(p)
               /\ ~Owes(p, m)
<1> DEFINE m == peer[p]
           i == m.item
<1>1. m \in PeerState /\ i \in Item /\ Local(p, m) /\ p \in {Ini, Tgt} /\ Ini # Tgt
  BY StartIs, XFields, StreamFacts
<1>2. /\ i.conn = {} /\ ~i.task /\ ~i.allowIncoming /\ ~Pending(i)
      /\ i.state \in {"Initiator", "Target"}
      /\ i.state = "Initiator" => ~i.activated /\ i.targetMode # "Unknown" /\ ~i.connSuccess
      /\ i.state = "Target" => i.fast
      /\ i.proxyConn => i.client = NoStream /\ i.proxyTask = "none"
      /\ i.proxyTask # "none" => i.client = Proxy(p)
  BY <1>1 DEF Local, ProxyOK, ByProxy
<1>3. m.entry = "item" /\ m.con # "Idle" /\ m.con # "WaitingForAccept"
      /\ i.state = (IF p = Ini THEN "Initiator" ELSE "Target")
  BY <1>1, <1>2 DEF Local, PlaceOK, NewItem
<1>4. p = Tgt => ~i.activated
  BY <1>1, <1>3 DEF Local, TgtOK
<1>5. ~Owes(p, m)
  BY <1>2, <1>3 DEF Owes
<1> QED BY <1>1, <1>2, <1>3, <1>4, <1>5

\* The proxy cannot be used.
LEMMA ProxyFails ==
    ASSUME IInv, NEW p \in Peer, peer[p].con # "Idle", NEW x \in XState,
           SameConnection(peer[p], x.m), x.out = <<>>, x.crs = cr, ~x.bad,
           Commit(p, Fail(x, "proxy"), net)
    PROVE  Move(p)
<1> DEFINE y == Fail(x, "proxy")
<1>1. "proxy" \in Ended \ {"none"} /\ Owned(x.m.req.hosts, Other(p))
  BY StartIs DEF Ended, SameConnection
<1>2. /\ y \in XState /\ SameRest(x, y) /\ Left(p, y.m)
  BY <1>1, FailIs
<1> HIDE DEF y
<1>3. /\ y.crs = cr /\ ~y.bad /\ y.out = <<>>
  BY <1>2 DEF SameRest
<1>4. Commit(p, y, net)
  BY DEF y
<1> QED BY <1>2, <1>3, <1>4, OutNone, LeaveMoves

\* proxy_result: the item goes on to the query, or gives up.
LEMMA ProxyResultIs ==
    ASSUME IInv, NEW p \in Peer, ProxyResult(p)
    PROVE  LET s == Proxy(p)
               k == [peer[p].item EXCEPT !.proxyConn = FALSE]
               x == With(Start(p), k)
               y == Opened(x, s, [k EXCEPT !.client = s, !.proxyTask = "sent"])
           IN  Commit(p, y, net) \/ Commit(p, Fail(x, "proxy"), net)
<1> DEFINE z == Start(p)
           i == peer[p].item
           s == Proxy(p)
           k == [i EXCEPT !.proxyConn = FALSE]
           x == With(z, k)
           y == Opened(x, s, [k EXCEPT !.client = s, !.proxyTask = "sent"])
           a == [z EXCEPT !.m.item.proxyConn = FALSE]
<1>1. z \in XState /\ z.m = peer[p] /\ z.m \in PeerState /\ i \in Item
  BY StartIs, XFields
<1>2. a = x
  BY <1>1 DEF With, XState, PeerState
<1>3. k \in Item
  BY <1>1 DEF Item
<1>4. x.m.item = k
  BY <1>1, <1>3, WithIs
<1>5. \E ok \in BOOLEAN :
         Commit(p, IF ok THEN [a EXCEPT !.m = [@ EXCEPT !.end[s] = "open",
                          !.item = [a.m.item EXCEPT !.client = s, !.proxyTask = "sent"]]]
                   ELSE Fail(a, "proxy"), net)
  BY Zenon DEF ProxyResult
<1> HIDE DEF a, x, k
<1>6. \E ok \in BOOLEAN :
         Commit(p, IF ok THEN [x EXCEPT !.m = [@ EXCEPT !.end[s] = "open",
                          !.item = [k EXCEPT !.client = s, !.proxyTask = "sent"]]]
                   ELSE Fail(x, "proxy"), net)
  BY Zenon, <1>2, <1>4, <1>5
<1>7. y = [x EXCEPT !.m = [@ EXCEPT !.end[s] = "open",
                          !.item = [k EXCEPT !.client = s, !.proxyTask = "sent"]]]
  BY Zenon DEF Opened
<1> HIDE DEF y
<1>8. \E ok \in BOOLEAN : Commit(p, IF ok THEN y ELSE Fail(x, "proxy"), net)
  BY Zenon, <1>6, <1>7
<1> QED BY <1>8 DEF x, y, k

\* Reaching the proxy, or not, keeps the contract.
LEMMA ProxyResultMoves ==
    ASSUME IInv, NEW p \in Peer, ProxyResult(p)
    PROVE  Move(p)
<1> DEFINE z == Start(p)
           m == peer[p]
           i == m.item
           s == Proxy(p)
           k == [i EXCEPT !.proxyConn = FALSE]
           x == With(z, k)
           j == [k EXCEPT !.client = s, !.proxyTask = "sent"]
           y == Opened(x, s, j)
<1>1. i.proxyConn /\ ByProxy(i)
  BY DEF ProxyResult, ByProxy
<1>0. /\ s \in Stream /\ s.owner = p /\ NoStream \notin Stream /\ p \in {Ini, Tgt} /\ Ini # Tgt
  BY StreamFacts DEF Proxy
<1>2. /\ m \in PeerState /\ i \in Item /\ Local(p, m) /\ m.entry = "item"
      /\ m.con # "Idle" /\ m.con # "WaitingForAccept"
      /\ i.conn = {} /\ ~i.task /\ ~i.allowIncoming /\ ~Pending(i)
      /\ i.state = (IF p = Ini THEN "Initiator" ELSE "Target")
      /\ p = Ini => ~i.activated /\ i.targetMode # "Unknown" /\ ~i.connSuccess
      /\ p = Tgt => i.fast /\ ~i.activated
      /\ i.client = NoStream /\ i.proxyTask = "none" /\ ~Owes(p, m)
  BY <1>1, ByProxyFacts
<1>3. z \in XState /\ z.m = m /\ z.out = <<>> /\ z.crs = cr /\ ~z.bad
  BY StartIs
<1>5. /\ k \in Item
      /\ j \in Item /\ j.state = i.state /\ j.targetMode = i.targetMode /\ j.fast = i.fast
      /\ j.activated = i.activated /\ j.lateProxy = i.lateProxy
      /\ j.connSuccess = i.connSuccess /\ j.localFailed = i.localFailed
      /\ j.remoteFailed = i.remoteFailed /\ j.allowIncoming = i.allowIncoming
      /\ j.inHosts = i.inHosts /\ j.inId = i.inId /\ j.outId = i.outId
      /\ j.task = i.task /\ j.conn = i.conn /\ ~j.proxyConn /\ j.proxyTask = "sent"
      /\ j.client = s /\ j.clientOut = i.clientOut
  BY <1>0, <1>2, ZenonT(30) DEF Item
<1>6. x \in XState /\ x.m.item = k /\ x.m.end = m.end /\ SameConnection(m, x.m)
      /\ x.out = <<>> /\ x.crs = cr /\ ~x.bad
  BY <1>3, <1>5, WithIs DEF SameRest
<1>7. Commit(p, y, net) \/ Commit(p, Fail(x, "proxy"), net)
  BY Zenon, ProxyResultIs
<1> HIDE DEF z, x, j, k, s
<1>8. CASE Commit(p, Fail(x, "proxy"), net)
  BY <1>2, <1>6, <1>8, ProxyFails
<1>9. CASE Commit(p, y, net)
  <2>1. /\ y \in XState /\ y.m \in PeerState /\ y.m.item = j
        /\ SameConnection(m, y.m) /\ y.out = <<>> /\ y.crs = cr /\ ~y.bad
        /\ y.m.end[s] = "open" /\ \A t \in Stream : t # s => y.m.end[t] = m.end[t]
    BY <1>0, <1>5, <1>6, OpenedIs DEF SameRest, SameConnection
  <2> HIDE DEF y
  <2>2. Local(p, y.m)
    <3>1. PlaceOK(p, y.m)
      BY <1>2, <1>5, <2>1 DEF Local, PlaceOK, SameConnection
    <3>2. SocketsOK(p, y.m)
      BY <1>0, <1>2, <1>5, <2>1 DEF Local, SocketsOK, EndsOK, SameConnection, s
    <3>3. ProxyOK(p, y.m)
      BY <1>0, <1>2, <1>5, <2>1 DEF ProxyOK, Pending, s
    <3>4. HostsOK(p, y.m)
      BY <1>2, <1>5, <2>1 DEF Local, HostsOK
    <3>5. DialOK(p, y.m)
      BY <1>2, <1>5, <2>1 DEF DialOK, Pending
    <3>6. TaskOK(p, y.m)
      BY <1>2, <1>5, <2>1 DEF Local, TaskOK
    <3>7. IniOK(y.m)
      BY <1>0, <1>2, <1>5, <2>1 DEF Local, IniOK
    <3>8. TgtOK(y.m) /\ ActiveOK(p, y.m)
      BY <1>0, <1>2, <1>5, <2>1 DEF Local, TgtOK, ActiveOK
    <3> QED BY <3>1, <3>2, <3>3, <3>4, <3>5, <3>6, <3>7, <3>8 DEF Local
  <2>3. Quiet(p, m, y, "nothing")
    BY <1>0, <1>1, <1>2, <1>5, <2>1 DEF Quiet
  <2>4. ~Owes(p, y.m)
    BY <1>2, <1>5, <2>1 DEF Owes, Pending, SameConnection
  <2>5. i.state # "Active"
    BY <1>2
  <2>6. Contract(p, m, cr, y, "nothing")
    BY <1>2, <2>1, <2>2, <2>3, <2>4, <2>5, OutNone, QuietStep
  <2> QED BY <1>9, <2>6 DEF Move, y
<1> QED BY <1>7, <1>8, <1>9

\* The query of the proxy goes on, or is over.
LEMMA QueryIs ==
    ASSUME IInv, NEW p \in Peer, peer[p].item.proxyTask # "none",
           NEW sent \in {"none", "activated"}
    PROVE  LET y == [Start(p) EXCEPT !.m.item.proxyTask = sent]
               m == peer[p]
               i == m.item
               j == y.m.item
           IN  /\ y \in XState /\ SameConnection(m, y.m) /\ y.out = <<>> /\ y.crs = cr /\ ~y.bad
               /\ Local(p, y.m) /\ Quiet(p, m, y, "nothing") /\ ~Owes(p, y.m)
               /\ j \in Item /\ j.state = i.state /\ j.targetMode = i.targetMode
               /\ j.fast = i.fast /\ j.activated = i.activated /\ ~Pending(j)
               /\ j.connSuccess = i.connSuccess /\ j.remoteFailed = i.remoteFailed
               /\ j.task = i.task /\ j.conn = i.conn /\ ~j.proxyConn /\ j.proxyTask = sent
               /\ j.client = i.client
<1> DEFINE x == Start(p)
           m == peer[p]
           i == m.item
           j == [i EXCEPT !.proxyTask = sent]
           y == With(x, j)
<1>0. p \in {Ini, Tgt} /\ Ini # Tgt /\ Proxy(p) # NoStream /\ Proxy(p).owner = p
  BY StreamFacts DEF Proxy
<1>1. ByProxy(i)
  BY DEF ByProxy
<1>2. /\ m \in PeerState /\ i \in Item /\ Local(p, m) /\ m.entry = "item"
      /\ m.con # "Idle" /\ m.con # "WaitingForAccept"
      /\ i.conn = {} /\ ~i.task /\ ~i.allowIncoming /\ ~Pending(i)
      /\ i.state = (IF p = Ini THEN "Initiator" ELSE "Target")
      /\ p = Ini => ~i.activated /\ i.targetMode # "Unknown" /\ ~i.connSuccess
      /\ p = Tgt => i.fast /\ ~i.activated
      /\ i.client = Proxy(p) /\ ~i.proxyConn
  BY <1>1, ByProxyFacts
<1>3. x \in XState /\ x.m = m /\ x.out = <<>> /\ x.crs = cr /\ ~x.bad
  BY StartIs
<1>4. [x EXCEPT !.m.item.proxyTask = sent] = y
  BY <1>2, <1>3 DEF With, XState, PeerState
<1>5. /\ j \in Item /\ j.state = i.state /\ j.targetMode = i.targetMode /\ j.fast = i.fast
      /\ j.activated = i.activated /\ j.lateProxy = i.lateProxy
      /\ j.connSuccess = i.connSuccess /\ j.localFailed = i.localFailed
      /\ j.remoteFailed = i.remoteFailed /\ j.allowIncoming = i.allowIncoming
      /\ j.inHosts = i.inHosts /\ j.inId = i.inId /\ j.outId = i.outId
      /\ j.task = i.task /\ j.conn = i.conn /\ ~j.proxyConn /\ j.proxyTask = sent
      /\ j.client = i.client /\ j.clientOut = i.clientOut
  BY <1>2 DEF Item
<1> HIDE DEF x, j
<1>6. /\ y \in XState /\ y.m.item = j /\ y.m.end = m.end /\ SameConnection(m, y.m)
      /\ y.out = <<>> /\ y.crs = cr /\ ~y.bad
  BY <1>3, <1>5, WithIs DEF SameRest
<1> HIDE DEF y
<1>7. Local(p, y.m)
  <2>1. PlaceOK(p, y.m)
    BY <1>2, <1>5, <1>6 DEF Local, PlaceOK, SameConnection
  <2>2. SocketsOK(p, y.m)
    BY <1>2, <1>5, <1>6 DEF Local, SocketsOK, EndsOK, SameConnection
  <2>3. ProxyOK(p, y.m)
    BY <1>0, <1>2, <1>5, <1>6 DEF ProxyOK, Pending
  <2>4. HostsOK(p, y.m)
    BY <1>2, <1>5, <1>6 DEF Local, HostsOK
  <2>5. DialOK(p, y.m)
    BY <1>2, <1>5, <1>6 DEF DialOK, Pending
  <2>6. TaskOK(p, y.m)
    BY <1>2, <1>5, <1>6 DEF Local, TaskOK
  <2>7. IniOK(y.m)
    BY <1>0, <1>2, <1>5, <1>6 DEF Local, IniOK
  <2>8. TgtOK(y.m) /\ ActiveOK(p, y.m)
    BY <1>0, <1>2, <1>5, <1>6 DEF Local, TgtOK, ActiveOK
  <2> QED BY <2>1, <2>2, <2>3, <2>4, <2>5, <2>6, <2>7, <2>8 DEF Local
<1>8. Quiet(p, m, y, "nothing")
  BY <1>1, <1>2, <1>5, <1>6 DEF Quiet
<1>9. ~Pending(j) /\ ~Owes(p, y.m)
  BY <1>2, <1>5, <1>6 DEF Owes, Pending, SameConnection
<1> QED BY <1>4, <1>5, <1>6, <1>7, <1>8, <1>9 DEF x

\* The proxy's activation of the stream changes no client.
LEMMA ProxyActivatesMoves ==
    ASSUME IInv, NEW p \in Peer, ProxyActivates(p)
    PROVE  Move(p)
<1> DEFINE y == [Start(p) EXCEPT !.m.item.proxyTask = "activated"]
           m == peer[p]
<1>1. m.item.proxyTask # "none" /\ Commit(p, y, net)
  BY DEF ProxyActivates
<1>2. ByProxy(m.item)
  BY <1>1 DEF ByProxy
<1>3. /\ y \in XState /\ y.out = <<>> /\ y.crs = cr /\ ~y.bad
      /\ Local(p, y.m) /\ Quiet(p, m, y, "nothing") /\ ~Owes(p, y.m)
  BY <1>1, QueryIs
<1> HIDE DEF y
<1>4. m \in PeerState /\ m.con # "Idle" /\ m.item.state # "Active"
  BY <1>2, ByProxyFacts
<1>5. Contract(p, m, cr, y, "nothing")
  BY <1>3, <1>4, OutNone, QuietStep
<1> QED BY <1>1, <1>5 DEF Move

\* The proxy's answer: the item goes on with the connection, or gives up.
LEMMA ProxyFinishedIs ==
    ASSUME NEW p \in Peer, ProxyFinished(p)
    PROVE  LET x == [Start(p) EXCEPT !.m.item.proxyTask = "none"]
           IN  /\ peer[p].item.proxyTask # "none"
               /\ \/ Commit(p, Fail(x, "proxy"), net)
                  \/ Commit(p, IF x.m.item.state = "Initiator" THEN TryActivation(x)
                               ELSE CheckForActivation(x), net)
<1> DEFINE x == [Start(p) EXCEPT !.m.item.proxyTask = "none"]
<1>1. /\ peer[p].item.proxyTask # "none"
      /\ \E ok \in BOOLEAN :
           Commit(p, IF ~ok THEN Fail(x, "proxy")
                     ELSE IF x.m.item.state = "Initiator" THEN TryActivation(x)
                     ELSE CheckForActivation(x), net)
  BY Zenon DEF ProxyFinished
<1> HIDE DEF x
<1> QED BY <1>1 DEF x

\* It keeps the contract.
LEMMA ProxyFinishedMoves ==
    ASSUME IInv, NEW p \in Peer, ProxyFinished(p)
    PROVE  Move(p)
<1> DEFINE x == [Start(p) EXCEPT !.m.item.proxyTask = "none"]
           m == peer[p]
           i == m.item
           j == x.m.item
<1>0. p \in {Ini, Tgt} /\ Ini # Tgt /\ Proxy(p) # NoStream /\ Proxy(p).owner = p
      /\ Other(Ini) = Tgt /\ Other(Tgt) = Ini
  BY StreamFacts DEF Proxy, Other
<1>1. /\ i.proxyTask # "none"
      /\ \/ Commit(p, Fail(x, "proxy"), net)
         \/ Commit(p, IF j.state = "Initiator" THEN TryActivation(x)
                      ELSE CheckForActivation(x), net)
  BY Zenon, ProxyFinishedIs
<1>2. ByProxy(i)
  BY <1>1 DEF ByProxy
<1>3. /\ m.con # "Idle" /\ i.conn = {} /\ ~i.task
      /\ i.state = (IF p = Ini THEN "Initiator" ELSE "Target")
      /\ p = Ini => ~i.activated /\ i.targetMode # "Unknown" /\ ~i.connSuccess
      /\ p = Tgt => i.fast /\ ~i.activated
      /\ i.client = Proxy(p)
  BY <1>1, <1>2, ByProxyFacts
<1>4. /\ x \in XState /\ SameConnection(m, x.m) /\ x.out = <<>> /\ x.crs = cr /\ ~x.bad
      /\ Local(p, x.m)
      /\ j.state = i.state /\ j.targetMode = i.targetMode
      /\ j.fast = i.fast /\ j.activated = i.activated /\ ~Pending(j)
      /\ j.connSuccess = i.connSuccess /\ j.remoteFailed = i.remoteFailed
      /\ j.task = i.task /\ j.conn = i.conn /\ ~j.proxyConn /\ j.proxyTask = "none"
      /\ j.client = i.client
  BY <1>1, QueryIs
<1> HIDE DEF x
<1>5. Settled(x.m)
  BY <1>3, <1>4 DEF Settled
<1>6. CASE Commit(p, Fail(x, "proxy"), net)
  BY <1>3, <1>4, <1>6, ProxyFails
<1>7. CASE Commit(p, IF j.state = "Initiator" THEN TryActivation(x)
                     ELSE CheckForActivation(x), net)
  <2>1. CASE p = Ini
    <3>1. Commit(Ini, TryActivation(x), net)
      BY <1>0, <1>3, <1>4, <1>7, <2>1
    <3>2. /\ Local(Ini, x.m) /\ j.state = "Initiator" /\ ~j.activated /\ j.client # NoStream
          /\ j.targetMode # "Unknown" /\ peer[Ini].item.state = "Initiator"
          /\ ~peer[Ini].item.activated /\ j.targetMode = peer[Ini].item.targetMode
          /\ j.remoteFailed = peer[Ini].item.remoteFailed /\ ~peer[Ini].item.task
          /\ ~j.connSuccess /\ ~peer[Ini].item.connSuccess
      BY <1>0, <1>3, <1>4, <2>1
    <3>3. Contract(Ini, peer[Ini], cr, TryActivation(x), "nothing")
      BY <1>0, <1>2, <1>3, <1>4, <1>5, <2>1, <3>2, OutNone, ActivationStep
    <3> QED BY <2>1, <3>1, <3>3 DEF Move
  <2>2. CASE p = Tgt
    <3>1. Commit(Tgt, CheckForActivation(x), net)
      BY <1>0, <1>3, <1>4, <1>7, <2>2
    <3>2. /\ Local(Tgt, x.m) /\ j.state = "Target" /\ ~j.task
          /\ peer[Tgt].item.state = "Target" /\ j.fast = peer[Tgt].item.fast /\ j.fast
          /\ j.remoteFailed = peer[Tgt].item.remoteFailed
      BY <1>0, <1>3, <1>4, <2>2
    <3>3. Contract(Tgt, peer[Tgt], cr, CheckForActivation(x), "nothing")
      BY <1>4, <1>5, <3>2, OutNone, TakingStep
    <3> QED BY <2>2, <3>1, <3>3 DEF Move
  <2> QED BY <1>0, <2>1, <2>2
<1> QED BY <1>1, <1>6, <1>7

\* The CR is written: the initiator goes on with the connection.
LEMMA BytesWrittenMoves ==
    ASSUME IInv, NEW p \in Peer, BytesWritten(p)
    PROVE  Move(p)
<1> DEFINE x == Start(p)
           m == peer[p]
           i == m.item
           y == Finished(x)
           n == [m EXCEPT !.con = "Active", !.sc = i.client,
                    !.item = [i EXCEPT !.state = "Active", !.client = NoStream]]
<1>1. /\ x \in XState /\ x.m = m /\ x.out = <<>> /\ x.crs = cr /\ ~x.bad
      /\ m \in PeerState /\ i \in Item /\ Local(p, m)
  BY StartIs, XFields
<1>2. i.state = "Initiator" /\ i.activated /\ Commit(p, y, net)
  BY DEF BytesWritten
<1>3. p = Ini /\ Ini # Tgt /\ Other(Ini) = Tgt
  BY <1>1, <1>2, PeerAssumption DEF Local, PlaceOK, Other
<1>4. /\ i.client # NoStream /\ ~i.allowIncoming /\ i.clientOut = NoStream
      /\ i.targetMode = "Fast"
  BY <1>1, <1>2 DEF Local, IniOK
<1>5. i.conn = {} /\ ~Pending(i) /\ ~i.task
  BY <1>1, <1>2 DEF Local, DialOK, TaskOK
<1>6. ~i.proxyConn /\ i.proxyTask = "none"
  <2>1. ~(i.proxyConn \/ i.proxyTask # "none")
    BY <1>1, <1>2 DEF Local, ProxyOK
  <2> QED BY <2>1
<1>7. y \in XState /\ y.m = n /\ n \in PeerState /\ y.out = <<>> /\ y.crs = cr /\ ~y.bad
  <2> DEFINE nn == [x.m EXCEPT !.con = "Active", !.sc = x.m.item.client,
                    !.item = [x.m.item EXCEPT !.state = "Active", !.client = NoStream]]
  <2>1. y \in XState /\ y.m = nn /\ nn \in PeerState /\ SameRest(x, y)
    BY <1>1, <1>4, FinishedIs
  <2>2. nn = n
    BY <1>1
  <2> HIDE DEF x, y, n, nn
  <2> QED BY <1>1, <2>1, <2>2 DEF SameRest
<1>8. Local(p, n)
  BY <1>1, <1>2, <1>3, <1>4, <1>5, <1>6, FinishLocal DEF Local, SocketsOK
<1>9. /\ n.item.state = "Active" /\ n.sc = i.client /\ n.con = "Active" /\ n.entry = m.entry
      /\ n.item.targetMode = "Fast" /\ n.item.remoteFailed = i.remoteFailed
      /\ n.item.conn = {} /\ ~Pending(n.item)
  BY <1>1, <1>4, <1>5 DEF PeerState, Item, Pending
<1> HIDE DEF x, y, n
<1>10. m.entry = "item"
  BY <1>1, <1>2 DEF Local, PlaceOK, NewItem
<1>11. ~MayAsk(p, n) /\ ~Owes(p, n)
  BY <1>3, <1>9, <1>10 DEF MayAsk, Owes
<1>12. Common(p, m, y, "nothing")
  <2>1. m.con # "Idle" /\ m.con # "Active"
    BY <1>1, <1>2, <1>10 DEF Local, PlaceOK
  <2>2. PhaseStep(m, y.m)
    BY <1>7, <1>9, <2>1 DEF PhaseStep
  <2> QED BY <1>7, <1>8, <1>9, <1>11, <2>2, OutNone DEF Common, NoRequest
<1>13. IniStep(m, cr, y, "nothing")
  BY <1>2, <1>4, <1>7, <1>9, OutNone DEF IniStep, IniChoice
<1>14. Contract(p, m, cr, y, "nothing")
  BY <1>3, <1>12, <1>13 DEF Contract
<1> QED BY <1>2, <1>14 DEF Move, y, x

\* The CR reaches the target, which may look at it.
LEMMA CRArrivesIs ==
    ASSUME IInv, NEW s \in Stream, CRArrives(s)
    PROVE  LET v == [Start(Tgt) EXCEPT !.crs = [cr EXCEPT ![s] = "arrived"]]
           IN  /\ cr[s] = "sent" /\ peer[Tgt].end[s] = "open"
               /\ Commit(Tgt, IF ChecksOnReadyRead(peer[Tgt].item, s)
                              THEN CheckForActivation(v) ELSE v, net)
<1> DEFINE x == Start(Tgt)
           v == [x EXCEPT !.crs = [cr EXCEPT ![s] = "arrived"]]
           a == [x EXCEPT !.crs[s] = "arrived"]
<1>1. x \in XState /\ x.crs = cr
  BY StartIs DEF Peer
<1>2. /\ cr[s] = "sent" /\ peer[Tgt].end[s] = "open"
      /\ Commit(Tgt, IF ChecksOnReadyRead(peer[Tgt].item, s)
                     THEN CheckForActivation(a) ELSE a, net)
  BY Zenon DEF CRArrives
<1>3. a = v
  BY <1>1
<1> HIDE DEF a, v
<1>4. /\ cr[s] = "sent" /\ peer[Tgt].end[s] = "open"
      /\ Commit(Tgt, IF ChecksOnReadyRead(peer[Tgt].item, s)
                     THEN CheckForActivation(v) ELSE v, net)
  BY Zenon, <1>2, <1>3
<1> QED BY <1>4 DEF v

\* It keeps the contract.
LEMMA CRArrivesMoves ==
    ASSUME IInv, NEW s \in Stream, CRArrives(s)
    PROVE  Move(Tgt)
<1> DEFINE x == Start(Tgt)
           m == peer[Tgt]
           i == m.item
           c == [cr EXCEPT ![s] = "arrived"]
           v == [x EXCEPT !.crs = c]
<1>0. /\ Tgt \in Peer /\ Ini \in Peer /\ Other(Tgt) = Ini /\ Ini # Tgt /\ NoStream \notin Stream
      /\ cr \in [Stream -> CRs]
  BY StreamFacts DEF Other, IInv, TypeOK, CRs
<1>1. /\ x \in XState /\ x.m = m /\ x.out = <<>> /\ x.crs = cr /\ ~x.bad
      /\ m \in PeerState /\ i \in Item /\ Local(Tgt, m)
  BY <1>0, StartIs, XFields
<1>2. /\ cr[s] = "sent" /\ m.end[s] = "open"
      /\ Commit(Tgt, IF ChecksOnReadyRead(i, s) THEN CheckForActivation(v) ELSE v, net)
  BY Zenon, CRArrivesIs
<1>3. c \in [Stream -> CRs] /\ \A t \in Stream : (c[t] = "none" <=> cr[t] = "none")
      /\ (t # s => c[t] = cr[t])
  BY <1>0, <1>2 DEF CRs
<1> HIDE DEF x, c
<1>4. v \in XState /\ v.m = m /\ v.out = <<>> /\ v.crs = c /\ ~v.bad
  BY <1>1, <1>3 DEF XState
<1> HIDE DEF v
<1>5. CASE ~ChecksOnReadyRead(i, s)
  <2>1. m.con # "Idle"
    <3>1. s \in {m.sc, i.client, i.clientOut}
      BY <1>1, <1>2 DEF Local, SocketsOK, EndsOK
    <3> QED BY <1>0, <1>1, <3>1 DEF Local, PlaceOK, NewItem
  <2>2. Commit(Tgt, v, net)
    BY <1>2, <1>5
  <2>3. Quiet(Tgt, m, v, "nothing")
    BY <1>0, <1>4, QuietSame
  <2>4. Common(Tgt, m, v, "nothing")
    BY <1>0, <1>1, <1>4, <2>3, OutNone, QuietCommon
  <2>5. i.state = "Active" /\ i.fast => c[m.sc] = "taken"
    BY <1>2, <1>3, TakenCR
  <2>6. TgtStep(m, cr, v, "nothing")
    BY <1>0, <1>3, <1>4, <2>1, <2>5, OutNone DEF TgtStep, TgtChoice
  <2>7. Contract(Tgt, m, cr, v, "nothing")
    BY <1>0, <2>4, <2>6 DEF Contract
  <2> QED BY <2>2, <2>7 DEF Move
<1>6. CASE ChecksOnReadyRead(i, s)
  <2>1. Commit(Tgt, CheckForActivation(v), net)
    BY <1>2, <1>6
  <2>2. s \in {i.client, i.clientOut} /\ i.state = "Target" /\ ~i.task /\ i.proxyTask = "none"
    BY <1>6 DEF ChecksOnReadyRead
  <2>3. AnswerOK(peer[Ini], peer[Tgt]) /\ cr[s] # "none"
    BY <1>2 DEF IInv
  <2>4. i.conn = {} /\ ~Pending(i) /\ ~i.proxyConn
    <3>1. CASE s = i.clientOut
      <4>1. i.clientOut.owner = Ini /\ i.connSuccess
        BY <1>0, <1>1, <2>2, <3>1 DEF Local, TgtOK
      <4>2. ~ByProxy(i)
        BY <2>3, <3>1, <4>1 DEF AnswerOK, Denied
      <4>3. i.conn = {} /\ ~i.lateProxy
        BY <1>1, <2>2, <4>1 DEF Local, TgtOK
      <4> QED BY <4>2, <4>3 DEF ByProxy, Pending
    <3>2. CASE s = i.client
      <4>1. i.client.owner = Tgt /\ i.fast
        BY <1>0, <1>1, <2>2, <3>2 DEF Local, TgtOK
      <4>2. ~i.remoteFailed
        BY <2>3, <3>2, <4>1 DEF AnswerOK, Confirmed
      <4>3. i.conn = {}
        BY <1>1, <2>2, <4>1, <4>2 DEF Local, DialOK
      <4>4. ~Pending(i)
        BY <1>1, <2>2, <4>3 DEF Local, DialOK
      <4>5. ~i.proxyConn
        BY <1>0, <1>1, <3>2 DEF Local, ProxyOK
      <4> QED BY <4>3, <4>4, <4>5
    <3> QED BY <2>2, <3>1, <3>2
  <2>5. Settled(v.m)
    BY <1>4, <2>2, <2>4 DEF Settled
  <2>7. i.fast
    <3>1. m.entry = "item"
      BY <1>1, <2>2 DEF Local, PlaceOK, NewItem
    <3> QED BY <2>3, <3>1 DEF IInv, EarlyOK, NoCR
  <2>6. Contract(Tgt, peer[Tgt], cr, CheckForActivation(v), "nothing")
    BY <1>1, <1>3, <1>4, <2>2, <2>5, <2>7, OutNone, TakingStep, ZenonT(30)
  <2> QED BY <2>1, <2>6 DEF Move
<1> QED BY <1>5, <1>6

----------------------------------------------------------------------------
(* The connection that is chosen: the second inductive invariant.          *)

\* The target's request comes before its answer; while it is on its way the
\* initiator waits for the answer, and does not know the mode.
OrderOK(mi, mt) ==
    LET i == mi.item
        t == mt.item
    IN
    /\ MayAsk(Tgt, mt) => hist.answered[Ini] = 0
    /\ ~NoRequest(net[Ini]) /\ i.state = "Initiator" => i.task /\ i.targetMode = "Unknown"
    /\ \A j, k \in DOMAIN net[Ini] :
          IsRequest(net[Ini][j]) /\ Answer(Ini, net[Ini][k]) => j < k
    /\ mt.entry = "item" /\ t.fast /\ NoRequest(net[Ini]) /\ i.state = "Initiator" =>
          i.targetMode = "Fast"

\* The results on their way to the initiator name the connection s.
ResultsUse(stanzas, s) ==
    \A k \in DOMAIN stanzas :
        Answer(Ini, stanzas[k]) /\ stanzas[k].type = "result" => stanzas[k].used = s

\* A CR is on the chosen connection only, who is connected uses it, and who
\* will be connected without a CR uses it too.
ChoiceOK(mi, mt) ==
    LET i == mi.item
        t == mt.item
        s == hist.chosen
    IN
    /\ \A r \in Stream : cr[r] # "none" => r = s
    /\ s # NoStream /\ NoCR =>
          NoRequest(net[Ini]) /\ ~MayAsk(Tgt, mt) /\ i.targetMode # "Fast"
    /\ mi.con = "Active" => mi.sc = s
    /\ mt.con = "Active" => mt.sc = s
    /\ t.state = "Target" /\ ~t.fast => s = NoStream
    /\ i.state = "Initiator" /\ i.targetMode # "Fast" /\ NoRequest(net[Ini]) =>
          ResultsUse(net[Ini], s)
    /\ i.state = "Initiator" /\ i.targetMode = "NotFast" /\ ByProxy(i) => s = Proxy(Ini)

\* Both, which every step keeps together with IInv.
ChInv == OrderOK(peer[Ini], peer[Tgt]) /\ ChoiceOK(peer[Ini], peer[Tgt])

\* What a step takes from a queue is its first stanza.
LEMMA TakesIs ==
    ASSUME IInv, NEW p \in Peer, NEW got, Takes(p, got)
    PROVE  /\ \E d \in {0, 1} : \A k \in DOMAIN net'[p] :
                 k \in Nat /\ k + d \in DOMAIN net[p] /\ net'[p][k] = net[p][k + d]
           /\ got \in {"result", "error"} =>
                 /\ 1 \in DOMAIN net[p] /\ Answer(p, net[p][1])
                 /\ Head(net[p]) = net[p][1] /\ net[p][1].type = got
           /\ ~NoRequest(net[p]) /\ NoRequest(net'[p]) => got = "request"
<1> DEFINE a == net[p]
<1>1. a \in Seq(Stanza) /\ DOMAIN a \subseteq Nat
  BY DEF IInv, TypeOK
<1>2. CASE net'[p] = a /\ got = "nothing"
  <2>1. \A k \in DOMAIN net'[p] : k \in Nat /\ k + 0 \in DOMAIN a /\ net'[p][k] = a[k + 0]
    BY <1>1, <1>2
  <2> QED BY <1>2, <2>1
<1>3. CASE a # <<>> /\ net'[p] = Tail(a) /\ got = Kind(p, Head(a))
  <2> DEFINE t == Tail(a)
             h == Head(a)
  <2> HIDE DEF a
  <2>1. /\ h \in Stanza /\ 1 \in DOMAIN a /\ h = a[1]
        /\ \A k \in DOMAIN t : k + 1 \in DOMAIN a /\ t[k] = a[k + 1]
    BY <1>1, <1>3, Taking
  <2>2. \A k \in DOMAIN t : k \in Nat
    BY <1>1, <1>3
  <2>3. \A k \in DOMAIN a : k = 1 \/ \E j \in DOMAIN t : k = j + 1
    <3> SUFFICES ASSUME NEW k \in DOMAIN a, k # 1
                 PROVE  k - 1 \in DOMAIN t /\ k = (k - 1) + 1
      OBVIOUS
    <3> QED BY <1>1, <1>3
  <2>4. got = IF h.type = "request" THEN "request" ELSE IF h.id = p THEN h.type ELSE "nothing"
    BY <1>3 DEF Kind, IsRequest, h
  <2>5. net'[p] = t
    BY <1>3
  <2> HIDE DEF t, h
  <2>6. \A k \in DOMAIN net'[p] : k \in Nat /\ k + 1 \in DOMAIN a /\ net'[p][k] = a[k + 1]
    BY <2>1, <2>2, <2>5
  <2>7. got \in {"result", "error"} => Answer(p, h) /\ h.type = got
    BY <2>4 DEF Answer, IsRequest
  <2>8. ~NoRequest(a) /\ NoRequest(t) => got = "request"
    <3> SUFFICES ASSUME ~NoRequest(a), NoRequest(t)
                 PROVE  got = "request"
      OBVIOUS
    <3>1. PICK k \in DOMAIN a : IsRequest(a[k])
      BY DEF NoRequest
    <3>2. k = 1
      BY <2>1, <2>3, <3>1 DEF NoRequest
    <3> QED BY <2>1, <2>4, <3>1, <3>2 DEF IsRequest
  <2>9. \E d \in {0, 1} : \A k \in DOMAIN net'[p] :
           k \in Nat /\ k + d \in DOMAIN a /\ net'[p][k] = a[k + d]
    BY <2>6
  <2>10. h = Head(a)
    BY DEF h
  <2> QED BY <2>1, <2>5, <2>7, <2>8, <2>9, <2>10 DEF a
<1> QED BY <1>2, <1>3 DEF Takes

\* The answer that the initiator takes has no request behind it, and if it does
\* not know the target to be in fast mode, a result names the chosen connection.
LEMMA AnswerFirst ==
    ASSUME IInv, ChInv, NEW got \in {"result", "error"}, Takes(Ini, got)
    PROVE  /\ NoRequest(net[Ini])
           /\ /\ got = "result" /\ peer[Ini].item.state = "Initiator"
              /\ peer[Ini].item.targetMode # "Fast"
              => Head(net[Ini]).used = hist.chosen
<1> DEFINE a == net[Ini]
<1>1. 1 \in DOMAIN a /\ Answer(Ini, a[1]) /\ Head(a) = a[1] /\ a[1].type = got
  BY TakesIs DEF Peer
<1>2. a \in Seq(Stanza) /\ DOMAIN a \subseteq Nat \ {0}
  BY DEF IInv, TypeOK, Peer
<1>3. NoRequest(a)
  <2> SUFFICES ASSUME NEW j \in DOMAIN a, IsRequest(a[j])
               PROVE  FALSE
    BY DEF NoRequest
  <2>1. j < 1
    BY <1>1 DEF ChInv, OrderOK
  <2> QED BY <1>2, <2>1
<1> QED BY <1>1, <1>3 DEF ChInv, ChoiceOK, ResultsUse

\* If a handler writes no CR it chooses the connection its client goes on with.
LEMMA ChosenIs ==
    ASSUME IInv, NEW p \in Peer, NEW y, NEW got, Step(p, y, got)
    PROVE  /\ hist.chosen # NoStream => hist'.chosen = hist.chosen
           /\ (\A s \in Stream : cr[s] = "none" => y.crs[s] = "none") =>
                 hist'.chosen = IF hist.chosen # NoStream \/ y.m.con # "Active"
                                THEN hist.chosen ELSE y.m.sc
           /\ y.m.con = "Active" => y.m.sc \in Stream /\ y.m.sc # NoStream
           /\ y.m.con # "Active" => y.m.sc = NoStream
           /\ y.m.con = "Active" <=> y.m.item.state = "Active"
<1>1. /\ hist'.chosen = Chosen(p, y) /\ y.m \in PeerState /\ Local(p, y.m)
  BY DEF Step, Contract, Common, XState
<1>2. /\ y.m.sc \in Stream \cup {NoStream} /\ NoStream \notin Stream
      /\ y.m.con = "Active" <=> y.m.item.state = "Active"
      /\ y.m.con = "Active" <=> y.m.sc # NoStream
  BY <1>1, StreamFacts DEF PeerState, Local, PlaceOK
<1>3. ASSUME \A s \in Stream : cr[s] = "none" => y.crs[s] = "none"
      PROVE  Picked(p, y) = IF y.m.con = "Active" THEN {y.m.sc} ELSE {}
  BY <1>2, <1>3 DEF Picked
<1>4. (CHOOSE s \in {y.m.sc} : TRUE) = y.m.sc
  OBVIOUS
<1> QED BY <1>1, <1>2, <1>3, <1>4 DEF Chosen

\* The initiator writes the first CR on the connection that is then chosen, and
\* otherwise goes on with the connection chosen before.
LEMMA IniChooses ==
    ASSUME IInv, ChInv, NEW y, NEW got, Step(Ini, y, got)
    PROVE  \/ /\ y.crs = cr /\ hist'.chosen = hist.chosen
              /\ y.m.con = "Active" => y.m.sc = hist.chosen
           \/ /\ hist.chosen = NoStream /\ hist'.chosen \in Stream /\ NoCR
              /\ y.crs = [cr EXCEPT ![hist'.chosen] = "sent"]
              /\ y.m.con # "Active" /\ y.m.item.targetMode = "Fast"
              /\ peer[Ini].item.state = "Initiator" /\ y.m.item.state = "Initiator"
<1> DEFINE m == peer[Ini]
           i == m.item
           j == y.m.item
           c == hist.chosen
<1>0. Ini \in Peer /\ Other(Ini) = Tgt
  BY DEF Peer, Other
<1>1. /\ m \in PeerState /\ Local(Ini, m) /\ y \in XState /\ cr \in [Stream -> CRs]
      /\ NoStream \notin Stream
  BY <1>0, StreamFacts DEF IInv, TypeOK, LocalInv, Step, Contract, Common, CRs
<1>2. /\ hist'.chosen = Chosen(Ini, y) /\ IniStep(m, cr, y, got) /\ IniChoice(m, y, got)
      /\ Taken(Ini, got) /\ Takes(Ini, got)
  BY <1>0 DEF Step, Contract, IniStep
<1>3. /\ c # NoStream => hist'.chosen = c
      /\ y.crs = cr => hist'.chosen = IF c # NoStream \/ y.m.con # "Active" THEN c ELSE y.m.sc
      /\ y.m.con = "Active" => y.m.sc \in Stream /\ y.m.sc # NoStream
      /\ y.m.con # "Active" => y.m.sc = NoStream
      /\ y.m.con = "Active" <=> j.state = "Active"
  BY <1>0, ChosenIs
<1>4. ChoiceOK(m, peer[Tgt]) /\ OrderOK(m, peer[Tgt]) /\ WrittenOK(m, peer[Tgt])
      /\ EarlyOK(m, peer[Tgt])
  BY DEF ChInv, IInv
<1>5. CASE y.crs = cr
  <2>1. ASSUME y.m.con = "Active"
        PROVE  y.m.sc = c
    <3>1. j.state = "Active"
      BY <1>3, <2>1
    <3>2. CASE i.state = "Active" /\ y.m.sc = m.sc
      <4>1. m.con = "Active"
        BY <1>1, <3>2 DEF Local, PlaceOK
      <4> QED BY <1>4, <3>2, <4>1 DEF ChoiceOK
    <3>3. CASE i.state = "Initiator" /\ i.activated /\ y.m.sc = i.client
      <4>1. cr[i.client] # "none" /\ i.client \in Stream
        BY <1>3, <1>4, <2>1, <3>3 DEF WrittenOK
      <4> QED BY <1>4, <3>3, <4>1 DEF ChoiceOK
    <3>4. CASE i.state = "Initiator" /\ ~i.activated
      <4>1. /\ i.targetMode # "Fast"
            /\ \/ got = "result" /\ y.m.sc = Head(net[Ini]).used
               \/ ByProxy(i) /\ y.m.sc = Proxy(Ini)
        BY <1>2, <3>1, <3>4 DEF IniChoice
      <4>2. CASE got = "result" /\ y.m.sc = Head(net[Ini]).used
        BY <1>2, <3>4, <4>1, <4>2, AnswerFirst
      <4>3. CASE ByProxy(i) /\ y.m.sc = Proxy(Ini)
        <5>1. i.targetMode = "NotFast"
          BY <1>1, <3>4, <4>1, <4>3 DEF Local, ProxyOK, ByProxy, PeerState, Item
        <5> QED BY <1>4, <3>4, <4>3, <5>1 DEF ChoiceOK
      <4> QED BY <4>1, <4>2, <4>3
    <3> QED BY <1>2, <3>1, <3>2, <3>3, <3>4 DEF IniStep
  <2> QED BY <1>3, <1>5, <2>1
<1>6. CASE y.crs # cr
  <2>1. /\ i.state = "Initiator" /\ ~i.activated /\ j.state = "Initiator"
        /\ j.targetMode = "Fast"
        /\ j.client \in Stream /\ y.crs = [cr EXCEPT ![j.client] = "sent"]
        /\ i.targetMode = "Fast" \/ got = "request"
    BY <1>2, <1>6 DEF IniStep
  <2>2. NoCR
    BY <1>4, <2>1 DEF EarlyOK
  <2>3. c = NoStream
    BY <1>2, <1>4, <2>1, <2>2 DEF ChoiceOK, Taken
  <2>4. y.m.con # "Active" /\ y.m.sc = NoStream
    BY <1>3, <2>1
  <2>5. Picked(Ini, y) = {j.client}
    BY <1>1, <2>1, <2>2, <2>4 DEF Picked, NoCR
  <2>6. (CHOOSE s \in {j.client} : TRUE) = j.client
    OBVIOUS
  <2>7. hist'.chosen = j.client
    BY <1>2, <2>3, <2>5, <2>6 DEF Chosen
  <2> QED BY <2>1, <2>2, <2>3, <2>4, <2>7
<1> QED BY <1>5, <1>6

\* A step of the initiator keeps what is chosen, and the order of what it is
\* sent.
LEMMA IniKeepsChoice ==
    ASSUME IInv, ChInv, NEW y, NEW got, Step(Ini, y, got)
    PROVE  ChInv'
<1> DEFINE m == peer[Ini]
           i == m.item
           j == y.m.item
           t == peer[Tgt].item
           c == hist.chosen
<1>0. Ini \in Peer /\ Tgt \in Peer /\ Other(Ini) = Tgt /\ Other(Tgt) = Ini
  BY PeerAssumption DEF Peer, Other
<1>1. /\ m \in PeerState /\ Local(Ini, m) /\ Local(Tgt, peer[Tgt]) /\ peer[Tgt] \in PeerState
      /\ NoStream \notin Stream /\ cr \in [Stream -> CRs]
  BY <1>0, StreamFacts DEF IInv, TypeOK, LocalInv, CRs
<1>2. /\ IniStep(m, cr, y, got) /\ IniChoice(m, y, got) /\ Taken(Ini, got) /\ Takes(Ini, got)
      /\ peer'[Ini] = y.m /\ peer'[Tgt] = peer[Tgt] /\ cr' = y.crs
      /\ hist'.answered[Ini] = hist.answered[Ini]
  BY <1>0 DEF Step, Contract, IniStep
<1>3. ChoiceOK(m, peer[Tgt]) /\ OrderOK(m, peer[Tgt]) /\ EarlyOK(m, peer[Tgt]) /\ TokenOK(Ini)
  BY <1>0 DEF ChInv, IInv, TokenInv
<1>4. \/ /\ y.crs = cr /\ hist'.chosen = c
         /\ y.m.con = "Active" => y.m.sc = c
      \/ /\ c = NoStream /\ hist'.chosen \in Stream /\ NoCR
         /\ y.crs = [cr EXCEPT ![hist'.chosen] = "sent"]
         /\ y.m.con # "Active" /\ j.targetMode = "Fast"
  BY IniChooses
<1>5. PICK d \in {0, 1} : \A k \in DOMAIN net'[Ini] :
         k \in Nat /\ k + d \in DOMAIN net[Ini] /\ net'[Ini][k] = net[Ini][k + d]
  BY <1>0, <1>2, TakesIs
<1>6. ~NoRequest(net[Ini]) /\ NoRequest(net'[Ini]) => got = "request"
  BY <1>0, <1>2, TakesIs
<1>7. got \in {"result", "error"} =>
         /\ NoRequest(net[Ini])
         /\ got = "result" /\ i.state = "Initiator" /\ i.targetMode # "Fast" =>
              Head(net[Ini]).used = c
  BY <1>2, AnswerFirst
<1>8. OrderOK(peer[Ini], peer[Tgt])'
  <2>1. MayAsk(Tgt, peer[Tgt]) => hist'.answered[Ini] = 0
    BY <1>2, <1>3 DEF OrderOK
  <2>2. ASSUME ~NoRequest(net'[Ini]), j.state = "Initiator"
        PROVE  j.task /\ j.targetMode = "Unknown"
    <3>1. ~NoRequest(net[Ini]) /\ got # "request"
      BY <1>2, <2>2 DEF Taken
    <3>2. got \notin {"result", "error"}
      BY <1>7, <3>1
    <3>3. i.state = "Initiator" => i.task /\ i.targetMode = "Unknown"
      BY <1>3, <3>1 DEF OrderOK
    <3> QED BY <1>2, <2>2, <3>1, <3>2, <3>3 DEF IniChoice
  <2>3. ASSUME NEW h \in DOMAIN net'[Ini], NEW k \in DOMAIN net'[Ini],
               IsRequest(net'[Ini][h]), Answer(Ini, net'[Ini][k])
        PROVE  h < k
    <3>1. h + d < k + d
      BY <1>3, <1>5, <2>3 DEF OrderOK
    <3>2. h \in Nat /\ k \in Nat /\ d \in Nat
      BY <1>5, <2>3
    <3> QED BY <3>1, <3>2
  <2>4. ASSUME peer[Tgt].entry = "item", t.fast, NoRequest(net'[Ini]), j.state = "Initiator"
        PROVE  j.targetMode = "Fast"
    <3>1. ~MayAsk(Ini, m)
      BY <1>1, <1>3, <2>4 DEF EarlyOK, Local, PlaceOK
    <3>2. i.state = "Initiator"
      BY <1>2, <2>4, <3>1 DEF IniChoice
    <3>3. CASE NoRequest(net[Ini])
      BY <1>2, <1>3, <2>4, <3>2, <3>3 DEF OrderOK, IniChoice
    <3>4. CASE ~NoRequest(net[Ini])
      BY <1>2, <1>3, <1>6, <2>4, <3>2, <3>4 DEF OrderOK, IniChoice
    <3> QED BY <3>3, <3>4
  <2> QED BY <1>2, <2>1, <2>2, <2>3, <2>4 DEF OrderOK
<1>9. ChoiceOK(peer[Ini], peer[Tgt])'
  <2> DEFINE e == hist'.chosen
  <2> HIDE DEF e
  <2>0. \/ y.crs = cr /\ e = c /\ (y.m.con = "Active" => y.m.sc = c)
        \/ /\ c = NoStream /\ e \in Stream /\ NoCR /\ y.crs = [cr EXCEPT ![e] = "sent"]
           /\ y.m.con # "Active" /\ j.targetMode = "Fast"
    BY <1>4 DEF e
  <2>1. \A r \in Stream : y.crs[r] # "none" => r = e
    BY <1>1, <1>3, <2>0 DEF ChoiceOK, NoCR
  <2>2. ASSUME e # NoStream, \A s \in Stream : y.crs[s] = "none"
        PROVE  NoRequest(net'[Ini]) /\ ~MayAsk(Tgt, peer[Tgt]) /\ j.targetMode # "Fast"
    <3>1. e = c /\ NoCR
      BY <1>1, <2>0, <2>2 DEF NoCR
    <3>2. NoRequest(net[Ini]) /\ ~MayAsk(Tgt, peer[Tgt]) /\ i.targetMode # "Fast"
      BY <1>3, <2>2, <3>1 DEF ChoiceOK
    <3> QED BY <1>2, <3>2 DEF Taken, IniStep
  <2>3. y.m.con = "Active" => y.m.sc = e
    BY <2>0
  <2>4. peer[Tgt].con = "Active" => peer[Tgt].sc = e
    <3>1. peer[Tgt].con = "Active" => peer[Tgt].sc = c /\ c # NoStream
      BY <1>1, <1>3 DEF ChoiceOK, Local, PlaceOK
    <3> QED BY <2>0, <3>1
  <2>5. t.state = "Target" /\ ~t.fast => e = NoStream
    <3> SUFFICES ASSUME t.state = "Target", ~t.fast
                 PROVE  e = NoStream
      OBVIOUS
    <3>1. peer[Tgt].entry = "item" /\ c = NoStream
      BY <1>1, <1>3 DEF ChoiceOK, Local, PlaceOK, NewItem
    <3>2. NoRequest(net[Ini]) /\ i.targetMode # "Fast"
      BY <1>3, <3>1 DEF EarlyOK
    <3>3. j.targetMode # "Fast"
      BY <1>2, <3>2 DEF Taken, IniStep
    <3> QED BY <2>0, <3>1, <3>3
  <2>6. ASSUME j.state = "Initiator", j.targetMode # "Fast", NoRequest(net'[Ini])
        PROVE  ResultsUse(net'[Ini], e)
    <3>1. e = c
      BY <2>0, <2>6
    <3>2. CASE MayAsk(Ini, m)
      <4>1. NoAnswer(Ini, net'[Ini])
        BY <1>2, <1>3, <3>2 DEF TokenOK, Taken
      <4> QED BY <4>1 DEF NoAnswer, ResultsUse
    <3>3. CASE i.state = "Initiator"
      <4>1. i.targetMode # "Fast" /\ ~(i.targetMode = "Unknown" /\ got = "request")
        BY <1>2, <2>6, <3>3 DEF IniChoice
      <4>2. NoRequest(net[Ini])
        BY <1>3, <1>6, <2>6, <3>3, <4>1 DEF OrderOK
      <4>3. ResultsUse(net[Ini], c)
        BY <1>3, <3>3, <4>1, <4>2 DEF ChoiceOK
      <4> QED BY <1>5, <3>1, <4>3 DEF ResultsUse
    <3> QED BY <1>2, <2>6, <3>2, <3>3 DEF IniChoice
  <2>7. ASSUME j.state = "Initiator", j.targetMode = "NotFast", ByProxy(j)
        PROVE  e = Proxy(Ini)
    <3>1. e = c
      BY <2>0, <2>7
    <3>2. /\ i.state = "Initiator" /\ i.targetMode # "Fast"
          /\ ByProxy(i) \/ (got = "result" /\ Head(net[Ini]).used = Proxy(Ini))
      BY <1>2, <2>7 DEF IniChoice
    <3>3. CASE ByProxy(i)
      <4>1. i.targetMode = "NotFast"
        BY <1>1, <3>2, <3>3 DEF Local, ProxyOK, ByProxy, PeerState, Item
      <4> QED BY <1>3, <3>1, <3>2, <3>3, <4>1 DEF ChoiceOK
    <3>4. CASE got = "result" /\ Head(net[Ini]).used = Proxy(Ini)
      BY <1>7, <3>1, <3>2, <3>4
    <3> QED BY <3>2, <3>3, <3>4
  <2> QED BY <1>2, <2>1, <2>2, <2>3, <2>4, <2>5, <2>6, <2>7 DEF ChoiceOK, NoCR, e
<1> QED BY <1>8, <1>9 DEF ChInv

\* The target chooses only without fast mode, by the answer it sends, and goes
\* on with what is chosen.
LEMMA TgtChooses ==
    ASSUME IInv, ChInv, NEW y, NEW got, Step(Tgt, y, got)
    PROVE  /\ y.m.con = "Active" => y.m.sc = hist'.chosen
           /\ \/ hist'.chosen = hist.chosen
              \/ /\ hist.chosen = NoStream /\ hist'.chosen \in Stream
                 /\ y.m.con = "Active" /\ y.m.sc = hist'.chosen
                 /\ peer[Tgt].item.state = "Target" /\ ~peer[Tgt].item.fast
                 /\ ~NoResult(Ini, y.out)
<1> DEFINE m == peer[Tgt]
           i == m.item
           j == y.m.item
           c == hist.chosen
<1>0. Tgt \in Peer /\ Other(Tgt) = Ini
  BY PeerAssumption DEF Peer, Other
<1>1. /\ m \in PeerState /\ Local(Tgt, m) /\ NoStream \notin Stream
  BY <1>0, StreamFacts DEF IInv, TypeOK, LocalInv
<1>2. PhaseStep(m, y.m) /\ TgtStep(m, cr, y, got)
  BY <1>0, PeerAssumption DEF Step, Contract, Common
<1>3. \A s \in Stream : cr[s] = "none" => y.crs[s] = "none"
  BY <1>2 DEF TgtStep
<1>4. /\ hist'.chosen = IF c # NoStream \/ y.m.con # "Active" THEN c ELSE y.m.sc
      /\ y.m.con = "Active" => y.m.sc \in Stream /\ y.m.sc # NoStream
      /\ y.m.con = "Active" <=> j.state = "Active"
  BY <1>0, <1>3, ChosenIs
<1>5. ChoiceOK(peer[Ini], m)
  BY DEF ChInv
<1>6. ASSUME y.m.con = "Active"
      PROVE  \/ y.m.sc = c
             \/ i.state = "Target" /\ ~i.fast /\ ~NoResult(Ini, y.out) /\ c = NoStream
  <2>1. CASE m.con = "Active"
    BY <1>2, <1>5, <1>6, <2>1 DEF PhaseStep, ChoiceOK
  <2>2. CASE j.fast
    <3>1. y.crs[y.m.sc] = "taken"
      BY <1>2, <1>4, <1>6, <2>2 DEF TgtStep
    <3>2. cr[y.m.sc] # "none"
      BY <1>2, <1>4, <1>6, <3>1 DEF TgtStep
    <3> QED BY <1>4, <1>5, <1>6, <3>2 DEF ChoiceOK
  <2>3. CASE m.con # "Active" /\ ~j.fast
    <3>1. i.state # "Active"
      BY <1>1, <2>3 DEF Local, PlaceOK
    <3>2. i.state = "Target" /\ ~i.fast /\ ~NoResult(Ini, y.out)
      BY <1>2, <1>4, <1>6, <2>3, <3>1 DEF TgtStep, TgtChoice
    <3> QED BY <1>5, <3>2 DEF ChoiceOK
  <2> QED BY <2>1, <2>2, <2>3
<1> QED BY <1>4, <1>6

\* A step of the target keeps what is chosen, and the order of what it sends.
LEMMA TgtKeepsChoice ==
    ASSUME IInv, ChInv, NEW y, NEW got, Step(Tgt, y, got)
    PROVE  ChInv'
<1> DEFINE m == peer[Tgt]
           t == m.item
           j == y.m.item
           i == peer[Ini].item
           a == net[Ini]
           b == y.out
           c == hist.chosen
           e == hist'.chosen
<1>0. Ini \in Peer /\ Tgt \in Peer /\ Other(Ini) = Tgt /\ Other(Tgt) = Ini
  BY PeerAssumption DEF Peer, Other
<1>1. /\ m \in PeerState /\ Local(Ini, peer[Ini]) /\ Local(Tgt, m) /\ peer[Ini] \in PeerState
      /\ NoStream \notin Stream /\ a \in Seq(Stanza) /\ b \in Seq(Stanza)
      /\ Local(Tgt, y.m)
  BY <1>0, StreamFacts DEF IInv, TypeOK, LocalInv, Step, Contract, Common, XState
<1>2. /\ TgtStep(m, cr, y, got) /\ TgtChoice(m, y) /\ Common(Tgt, m, y, got)
      /\ peer'[Tgt] = y.m /\ peer'[Ini] = peer[Ini] /\ cr' = y.crs /\ net'[Ini] = a \o b
      /\ hist'.answered[Ini] = hist.answered[Ini] + Answers(Ini, b)
      /\ hist.answered[Ini] \in {0, 1} /\ hist'.answered[Ini] \in {0, 1}
  BY <1>0, PeerAssumption DEF Step, Contract, TgtStep, IInv, TypeOK, History
<1>3. /\ ChoiceOK(peer[Ini], m) /\ OrderOK(peer[Ini], m) /\ EarlyOK(peer[Ini], m)
      /\ WrittenOK(peer[Ini], m) /\ AnswerOK(peer[Ini], m) /\ TokenOK(Ini)
  BY <1>0 DEF ChInv, IInv, TokenInv
<1>4. /\ y.m.con = "Active" => y.m.sc = e
      /\ \/ e = c
         \/ /\ c = NoStream /\ e \in Stream /\ t.state = "Target" /\ ~t.fast
            /\ ~NoResult(Ini, b)
  BY TgtChooses
<1>5. /\ NoRequest(a \o b) <=> NoRequest(a) /\ NoRequest(b)
      /\ \A k \in DOMAIN (a \o b) :
            \/ k \in DOMAIN a /\ (a \o b)[k] = a[k]
            \/ \E h \in DOMAIN b : k = Len(a) + h /\ (a \o b)[k] = b[h]
  BY <1>1, Joining
<1>6. /\ MayAsk(Tgt, y.m) => MayAsk(Tgt, m) /\ Answers(Ini, b) = 0
      /\ \A k \in DOMAIN b : IsRequest(b[k]) => k = 1 /\ MayAsk(Tgt, m) /\ ~MayAsk(Tgt, y.m)
      /\ NoAnswer(Ini, b) \/ Answers(Ini, b) = 1
  BY <1>0, <1>2 DEF Common, TgtChoice
<1>7. \A s \in Stream : y.crs[s] = "none" <=> cr[s] = "none"
  BY <1>2 DEF TgtStep
<1>8. /\ hist.answered[Ini] = 0 => NoAnswer(Ini, a)
      /\ MayAsk(Tgt, m) => hist.answered[Ini] = 0
  BY <1>0, <1>3 DEF TokenOK, OrderOK
<1>9. NoRequest(b) \/ MayAsk(Tgt, m)
  BY <1>6 DEF NoRequest
<1>10. DOMAIN a = 1..Len(a) /\ Len(a) \in Nat /\ DOMAIN b \subseteq Nat \ {0}
  BY <1>1
<1>11. t.state = "Target" => ~MayAsk(Tgt, m) /\ m.entry = "item"
  BY <1>1 DEF Local, PlaceOK, NewItem, MayAsk
<1> HIDE DEF a, b, c, e
<1>12. OrderOK(peer[Ini], peer[Tgt])'
  <2>1. MayAsk(Tgt, y.m) => hist'.answered[Ini] = 0
    BY <1>2, <1>6, <1>8
  <2>2. ASSUME ~NoRequest(a \o b), i.state = "Initiator"
        PROVE  i.task /\ i.targetMode = "Unknown"
    <3>1. CASE ~NoRequest(a)
      BY <1>3, <2>2, <3>1 DEF OrderOK, a
    <3>2. CASE NoRequest(a)
      <4>1. MayAsk(Tgt, m) /\ hist.answered[Ini] = 0
        BY <1>5, <1>8, <1>9, <2>2, <3>2
      <4>2. i.targetMode # "Fast" /\ NoCR
        BY <1>3, <4>1 DEF EarlyOK
      <4>3. ~i.activated
        BY <1>1, <1>3, <2>2, <4>2 DEF WrittenOK, NoCR, Local, IniOK, PeerState, Item
      <4>4. i.task
        BY <1>3, <2>2, <4>1, <4>3 DEF AnswerOK
      <4> QED BY <1>1, <4>2, <4>4 DEF Local, TaskOK, PeerState, Item
    <3> QED BY <3>1, <3>2
  <2>3. ASSUME NEW h \in DOMAIN (a \o b), NEW k \in DOMAIN (a \o b),
               IsRequest((a \o b)[h]), Answer(Ini, (a \o b)[k])
        PROVE  h < k
    <3>1. CASE h \in DOMAIN a /\ (a \o b)[h] = a[h]
      <4>1. CASE k \in DOMAIN a /\ (a \o b)[k] = a[k]
        BY <1>3, <2>3, <3>1, <4>1 DEF OrderOK, a
      <4>2. CASE \E g \in DOMAIN b : k = Len(a) + g /\ (a \o b)[k] = b[g]
        BY <1>10, <3>1, <4>2
      <4> QED BY <1>5, <4>1, <4>2
    <3>2. CASE \E g \in DOMAIN b : h = Len(a) + g /\ (a \o b)[h] = b[g]
      <4>1. PICK g \in DOMAIN b : h = Len(a) + g /\ (a \o b)[h] = b[g]
        BY <3>2
      <4>2. g = 1 /\ NoAnswer(Ini, a)
        BY <1>6, <1>8, <2>3, <4>1
      <4>3. PICK f \in DOMAIN b : k = Len(a) + f /\ (a \o b)[k] = b[f]
        BY <1>5, <2>3, <4>2 DEF NoAnswer
      <4>4. f # 1
        BY <2>3, <4>1, <4>2, <4>3 DEF Answer
      <4> QED BY <1>10, <4>1, <4>2, <4>3, <4>4
    <3> QED BY <1>5, <3>1, <3>2
  <2>4. ASSUME y.m.entry = "item", j.fast, NoRequest(a \o b), i.state = "Initiator"
        PROVE  i.targetMode = "Fast"
    <3>1. m.entry = "item" /\ t.fast /\ NoRequest(a)
      BY <1>2, <1>5, <2>4 DEF TgtChoice, b
    <3> QED BY <1>3, <2>4, <3>1 DEF OrderOK, a
  <2> QED BY <1>2, <2>1, <2>2, <2>3, <2>4 DEF OrderOK
<1>13. ChoiceOK(peer[Ini], peer[Tgt])'
  <2>0. c # NoStream => e = c
    BY <1>4
  <2>1. \A r \in Stream : y.crs[r] # "none" => r = e
    BY <1>1, <1>3, <1>7, <2>0 DEF ChoiceOK, c
  <2>2. ASSUME e # NoStream, \A s \in Stream : y.crs[s] = "none"
        PROVE  NoRequest(a \o b) /\ ~MayAsk(Tgt, y.m) /\ i.targetMode # "Fast"
    <3>1. NoCR
      BY <1>7, <2>2 DEF NoCR
    <3>2. NoRequest(a) /\ ~MayAsk(Tgt, m) /\ i.targetMode # "Fast"
      <4>1. CASE c # NoStream
        BY <1>3, <3>1, <4>1 DEF ChoiceOK, a, c
      <4>2. CASE c = NoStream
        BY <1>3, <1>4, <1>11, <2>2, <4>2 DEF EarlyOK, a
      <4> QED BY <4>1, <4>2
    <3> QED BY <1>5, <1>6, <1>9, <3>2
  <2>3. peer[Ini].con = "Active" => peer[Ini].sc = e
    <3>1. peer[Ini].con = "Active" => peer[Ini].sc = c /\ c # NoStream
      BY <1>1, <1>3 DEF ChoiceOK, Local, PlaceOK, c
    <3> QED BY <2>0, <3>1
  <2>4. ASSUME j.state = "Target", ~j.fast
        PROVE  e = NoStream
    <3>1. y.m.con \notin {"Active", "Idle"} /\ y.m.entry = "item"
      BY <1>1, <2>4 DEF Local, PlaceOK, NewItem
    <3>2. CASE m.entry = "item" /\ ~t.fast
      <4>1. m.con # "Active"
        BY <1>2, <3>1 DEF Common, PhaseStep
      <4>2. t.state = "Target"
        BY <1>0, <1>1, <3>2, <4>1, PeerAssumption DEF Local, PlaceOK, PeerState, Item
      <4>3. c = NoStream
        BY <1>3, <3>2, <4>2 DEF ChoiceOK, c
      <4>4. e = c
        BY <3>1, <4>3, TgtChooses DEF c, e
      <4> QED BY <4>3, <4>4
    <3>3. CASE MayAsk(Tgt, m)
      <4>1. c = NoStream
        BY <1>3, <3>3 DEF EarlyOK, ChoiceOK, c
      <4> QED BY <1>4, <1>11, <3>3, <4>1
    <3> QED BY <1>2, <2>4, <3>1, <3>2, <3>3 DEF TgtStep
  <2>5. ASSUME i.state = "Initiator", i.targetMode # "Fast", NoRequest(a \o b)
        PROVE  ResultsUse(a \o b, e)
    <3>1. ResultsUse(a, c) /\ NoRequest(a)
      BY <1>3, <1>5, <2>5 DEF ChoiceOK, a, c
    <3>2. ResultsUse(a, e)
      <4>1. CASE e = c
        BY <3>1, <4>1
      <4>2. CASE ~NoResult(Ini, b)
        <5>1. ~NoAnswer(Ini, b)
          BY <4>2 DEF NoResult, NoAnswer
        <5>2. NoAnswer(Ini, a)
          BY <1>2, <1>6, <1>8, <5>1
        <5> QED BY <5>2 DEF NoAnswer, ResultsUse
      <4> QED BY <1>4, <4>1, <4>2
    <3>3. ResultsUse(b, e)
      <4>1. CASE NoResult(Ini, b)
        BY <4>1 DEF NoResult, ResultsUse
      <4>2. CASE t.state = "Target" /\ t.fast
        BY <1>3, <1>11, <2>5, <3>1, <4>2 DEF OrderOK, a
      <4>3. CASE j.state = "Active" /\ OnlyUsed(Ini, b, y.m.sc)
        <5>1. y.m.sc = e
          BY <1>1, <1>4, <4>3 DEF Local, PlaceOK
        <5> QED BY <4>3, <5>1 DEF OnlyUsed, ResultsUse
      <4> QED BY <1>2, <4>1, <4>2, <4>3 DEF TgtChoice, b
    <3> QED BY <1>5, <3>2, <3>3 DEF ResultsUse
  <2>6. i.state = "Initiator" /\ i.targetMode = "NotFast" /\ ByProxy(i) => e = Proxy(Ini)
    <3>1. Proxy(Ini) # NoStream
      BY <1>0, <1>1, StreamFacts
    <3> QED BY <1>3, <2>0, <3>1 DEF ChoiceOK, c
  <2> QED BY <1>2, <1>4, <2>1, <2>2, <2>3, <2>4, <2>5, <2>6 DEF ChoiceOK, NoCR, e
<1> QED BY <1>12, <1>13 DEF ChInv

----------------------------------------------------------------------------
(* The theorems.                                                           *)

\* Every action is a move, or changes nothing.
LEMMA NextMoves ==
    ASSUME IInv, [Next]_vars
    PROVE  (\E p \in Peer : Move(p)) \/ UNCHANGED vars
<1>0. Ini \in Peer /\ Tgt \in Peer
  BY DEF Peer
<1>1. CASE ConnectToJid
  BY <1>0, <1>1, ConnectToJidMoves
<1>2. CASE Accept(Tgt)
  BY <1>0, <1>2, AcceptMoves
<1>3. ASSUME NEW p \in Peer, Close(p)
      PROVE  Move(p)
  BY <1>3, CloseMoves
<1>4. ASSUME NEW p \in Peer, Deliver(p)
      PROVE  Move(p)
  BY <1>4, DeliverMoves
<1>5. ASSUME NEW p \in Peer, Incoming(p)
      PROVE  Move(p)
  BY <1>5, IncomingMoves
<1>6. ASSUME NEW p \in Peer, ItemEvent(p)
      PROVE  Move(p)
  BY <1>6, HostFailsMoves, HostConnectedMoves, ConnectorTimeoutMoves, QueryFinishedMoves,
     ProxyResultMoves, ProxyFinishedMoves, BytesWrittenMoves, ConnectionClosedMoves
     DEF ItemEvent, Connector
<1>7. ASSUME NEW p \in Peer, ProxyActivates(p)
      PROVE  Move(p)
  BY <1>7, ProxyActivatesMoves
<1>8. ASSUME NEW s \in Stream, CRArrives(s)
      PROVE  Move(Tgt)
  BY <1>0, <1>8, CRArrivesMoves
<1>9. ASSUME NEW p \in Peer, NEW s \in Stream, Breaks(p, s)
      PROVE  Move(p)
  BY <1>9, BreaksMoves
<1> QED BY <1>0, <1>1, <1>2, <1>3, <1>4, <1>5, <1>6, <1>7, <1>8, <1>9 DEF Next

\* Every step keeps the invariant.
LEMMA NextKeeps ==
    ASSUME IInv, [Next]_vars
    PROVE  IInv'
<1>1. ASSUME NEW p \in Peer, Move(p)
      PROVE  IInv'
  BY <1>1, MoveKeeps
<1>2. CASE UNCHANGED vars
  BY <1>2 DEF vars, IInv, TypeOK, LocalInv, TokenInv, TokenOK, NoCR, EarlyOK, WrittenOK,
     AnswerOK, Confirmed, Denied
<1> QED BY <1>1, <1>2, NextMoves

\* Every step keeps what is chosen.
LEMMA NextKeepsChoice ==
    ASSUME IInv, ChInv, [Next]_vars
    PROVE  ChInv'
<1>1. ASSUME NEW p \in Peer, Move(p)
      PROVE  ChInv'
  <2>1. PICK y, got : Step(p, y, got)
    BY <1>1, MoveIs
  <2> QED BY <2>1, IniKeepsChoice, TgtKeepsChoice DEF Peer
<1>2. CASE UNCHANGED vars
  BY <1>2 DEF vars, ChInv, OrderOK, ChoiceOK, NoCR
<1> QED BY <1>1, <1>2, NextMoves

\* The invariant holds at the start.
LEMMA InitInv ==
    ASSUME Init
    PROVE  IInv
<1>1. /\ NewItem \in Item /\ Ini # Tgt /\ \A p \in Peer : peer[p] = NewPeer /\ net[p] = <<>>
      /\ Ini \in Peer /\ Tgt \in Peer /\ \A s \in Stream : cr[s] = "none"
      /\ \A p \in Peer : Other(p) \in Peer /\ hist.answered[p] = 0
      /\ ~hist.bad
  BY NewItemIs, StreamFacts DEF Init, Peer
<1>2. TypeOK
  <2>1. NewPeer \in PeerState
    BY <1>1 DEF NewPeer, PeerState, Ended
  <2>2. hist \in History
    BY DEF Init, History
  <2> QED BY <2>1, <2>2 DEF Init, TypeOK
<1>3. LocalInv
  <2> SUFFICES ASSUME NEW p \in Peer
               PROVE  Local(p, NewPeer)
    BY <1>1 DEF LocalInv
  <2>1. NewPeer.item = NewItem
    BY DEF NewPeer
  <2>2. PlaceOK(p, NewPeer)
    BY DEF PlaceOK, NewPeer, NewItem, Owned
  <2>3. SocketsOK(p, NewPeer)
    BY DEF SocketsOK, EndsOK, NewPeer, NewItem
  <2>4. ProxyOK(p, NewPeer) /\ HostsOK(p, NewPeer) /\ DialOK(p, NewPeer)
    BY DEF ProxyOK, HostsOK, DialOK, NewPeer, NewItem, Owned, Pending
  <2>5. TaskOK(p, NewPeer)
    BY DEF TaskOK, NewPeer, NewItem
  <2>6. IniOK(NewPeer) /\ TgtOK(NewPeer) /\ ActiveOK(p, NewPeer)
    BY DEF IniOK, TgtOK, ActiveOK, NewPeer, NewItem
  <2> QED BY <2>2, <2>3, <2>4, <2>5, <2>6 DEF Local
<1>4. \A p \in Peer : ~Owes(p, NewPeer)
  BY DEF Owes, NewPeer, NewItem, Pending
<1>5. TokenInv
  <2> SUFFICES ASSUME NEW q \in Peer
               PROVE  TokenOK(q)
    BY DEF TokenInv
  <2>1. NoRequest(<<>>) /\ NoAnswer(q, <<>>) /\ DOMAIN <<>> = {}
    BY OutNone DEF NoRequest
  <2>2. ~NewPeer.item.remoteFailed
    BY DEF NewPeer, NewItem
  <2> QED BY <1>1, <1>4, <2>1, <2>2 DEF TokenOK
<1>6. EarlyOK(peer[Ini], peer[Tgt]) /\ WrittenOK(peer[Ini], peer[Tgt])
      /\ AnswerOK(peer[Ini], peer[Tgt])
  <2>1. /\ NewPeer.item.state = "Idle" /\ NewPeer.con = "Idle" /\ NewPeer.ended = "none"
        /\ NewPeer.entry = "none" /\ NewPeer.item.targetMode = "Unknown"
    BY DEF NewPeer, NewItem
  <2> QED BY <1>1, <2>1 DEF EarlyOK, WrittenOK, AnswerOK, NoCR
<1> QED BY <1>1, <1>2, <1>3, <1>5, <1>6 DEF IInv

\* Nothing is chosen at the start.
LEMMA InitChoice ==
    ASSUME Init
    PROVE  ChInv
<1>1. /\ peer[Ini] = NewPeer /\ peer[Tgt] = NewPeer /\ net[Ini] = <<>>
      /\ hist.answered[Ini] = 0 /\ hist.chosen = NoStream /\ \A s \in Stream : cr[s] = "none"
  BY DEF Init, Peer
<1>2. /\ NewPeer.item.state = "Idle" /\ NewPeer.con = "Idle" /\ NewPeer.entry = "none"
  BY DEF NewPeer, NewItem
<1>3. DOMAIN <<>> = {} /\ NoRequest(<<>>)
  BY OutNone
<1> QED BY <1>1, <1>2, <1>3 DEF ChInv, OrderOK, ChoiceOK

\* The invariants hold always.
LEMMA Invariant == Spec => [](IInv /\ ChInv)
<1>1. Init => IInv /\ ChInv
  BY InitInv, InitChoice
<1>2. IInv /\ ChInv /\ [Next]_vars => (IInv /\ ChInv)'
  BY NextKeeps, NextKeepsChoice
<1> QED BY <1>1, <1>2, PTL DEF Spec

\* Every handler leaves the two clients, the stanzas on their way and the CRs
\* well-formed; in particular a client answers the other's request at most once
\* on every path of S5BManager::Item through which it may answer it.
THEOREM TypeCorrect == Spec => []TypeOK
<1>1. IInv => TypeOK
  BY DEF IInv
<1> QED BY <1>1, Invariant, PTL

\* No handler of S5BManager::Item goes on with an item it has deleted, and
\* finished() and tryActivation() always have the client they use, in whatever
\* order answers, dials, incoming connections and the CR come.
THEOREM ItemSafe == Spec => []NoDeadObjectUsed
<1>1. IInv => NoDeadObjectUsed
  BY DEF IInv, NoDeadObjectUsed
<1> QED BY <1>1, Invariant, PTL

\* A socket that is open belongs to the connection or is a candidate of the
\* item, and one that is being opened has its S5BConnector or its query of the
\* proxy: the code that keeps one connection and tosses the rest leaks none.
THEOREM SocketsOwned == Spec => []NoOrphanSocket
<1>1. IInv => NoOrphanSocket
  BY DEF IInv, LocalInv, Local, SocketsOK, EndsOK, NoOrphanSocket
<1> QED BY <1>1, Invariant, PTL

\* A stream in use is clean at both ends: the target of a fast-mode stream has
\* read the CR that the initiator wrote on that very connection, and without
\* fast mode the initiator has written none.
THEOREM BothEndsClean == Spec => []StartsClean
<1>1. IInv => StartsClean
  <2> SUFFICES ASSUME IInv
               PROVE  StartsClean
    OBVIOUS
  <2> DEFINE t == peer[Tgt]
             i == peer[Ini]
  <2>1. /\ Local(Tgt, t) /\ Local(Ini, i) /\ t \in PeerState /\ i \in PeerState
    BY StartIs DEF Peer
  <2>2. t.con = "Active" => t.item.state = "Active" /\ t.sc \in Stream /\ t.entry = "item"
    BY <2>1 DEF Local, PlaceOK, PeerState, NewItem
  <2>3. i.con = "Active" => i.item.state = "Active" /\ i.sc \in Stream
    BY <2>1 DEF Local, PlaceOK, PeerState
  <2>4. t.con = "Active" => cr[t.sc] = IF t.item.fast THEN "taken" ELSE "none"
    BY <2>2 DEF IInv, EarlyOK, WrittenOK, NoCR
  <2>5. i.con = "Active" => (cr[i.sc] # "none" <=> i.item.targetMode = "Fast")
    BY <2>3 DEF IInv, EarlyOK, WrittenOK, NoCR
  <2> QED BY <2>4, <2>5 DEF StartsClean
<1> QED BY <1>1, Invariant, PTL

----------------------------------------------------------------------------
(* The refinement: what a step is to the two users.                        *)

\* How far a user is.
PhaseOf(m) ==
    CASE m.con = "Active" -> "in"
      [] m.con \in {"Requesting", "Connecting", "WaitingForAccept"} -> "trying"
      [] m.con = "Idle" /\ m.ended = "none" -> "out"
      [] m.con = "Idle" /\ m.ended # "none" -> "left"

\* phase and using of StreamAgreement, as S5BNegotiation gives them.
Phase == [p \in Peer |-> PhaseOf(peer[p])]
Using == [p \in Peer |-> peer[p].sc]

\* A step of StreamAgreement in these terms.
LEMMA AgreementNext ==
    Agreement!Next <=>
    \E p \in Peer :
        \/ /\ Phase[p] = "out" /\ Phase' = [Phase EXCEPT ![p] = "trying"]
           /\ UNCHANGED <<hist.chosen, Using>>
        \/ \E s \in Stream :
              /\ hist.chosen = NoStream /\ Phase[p] = "trying"
              /\ hist'.chosen = s /\ UNCHANGED <<Phase, Using>>
        \/ \E s \in Stream :
              /\ Phase[p] = "trying" /\ hist.chosen \in {NoStream, s}
              /\ hist'.chosen = s /\ Phase' = [Phase EXCEPT ![p] = "in"]
              /\ Using' = [Using EXCEPT ![p] = s]
        \/ /\ Phase[p] \in {"trying", "in"}
           /\ Phase' = [Phase EXCEPT ![p] = "left"] /\ Using' = [Using EXCEPT ![p] = NoStream]
           /\ UNCHANGED hist.chosen
  BY DEF Agreement!Next, Agreement!Try, Agreement!Choose, Agreement!Join, Agreement!Leave,
     Phase, PhaseOf, Using

\* A stutter of StreamAgreement in these terms.
LEMMA AgreementStutter ==
    ASSUME Phase' = Phase, hist'.chosen = hist.chosen, Using' = Using
    PROVE  UNCHANGED Agreement!vars
  BY DEF Agreement!vars, Phase, PhaseOf, Using

\* The choice is made once, by a client that tries and does not fail.
LEMMA ChoiceMade ==
    ASSUME IInv, ChInv, NEW p \in Peer, NEW y, NEW got, Step(p, y, got),
           hist'.chosen # hist.chosen
    PROVE  /\ hist.chosen = NoStream /\ hist'.chosen \in Stream
           /\ peer[p].con \in {"Requesting", "Connecting", "WaitingForAccept"}
           /\ y.m.con # "Idle"
<1> DEFINE m == peer[p]
<1>1. /\ m \in PeerState /\ Local(p, m) /\ Local(p, y.m) /\ y.m \in PeerState
  BY DEF IInv, TypeOK, LocalInv, Step, Contract, Common, XState
<1>2. CASE p = Ini
  <2>1. /\ hist.chosen = NoStream /\ hist'.chosen \in Stream
        /\ m.item.state = "Initiator" /\ y.m.item.state = "Initiator"
    BY <1>2, IniChooses
  <2> QED BY <1>1, <2>1 DEF Local, PlaceOK, PeerState, NewItem
<1>3. CASE p = Tgt
  <2>1. /\ hist.chosen = NoStream /\ hist'.chosen \in Stream
        /\ m.item.state = "Target" /\ y.m.con = "Active"
    BY <1>3, TgtChooses
  <2> QED BY <1>1, <2>1 DEF Local, PlaceOK, PeerState, NewItem
<1> QED BY <1>2, <1>3 DEF Peer

\* A step of a client is a step of its user, or none.
LEMMA StepAgrees ==
    ASSUME IInv, ChInv, ChInv', NEW p \in Peer, NEW y, NEW got, Step(p, y, got)
    PROVE  [Agreement!Next]_(Agreement!vars)
<1> DEFINE m == peer[p]
           n == y.m
           q == Other(p)
           c == hist.chosen
           e == hist'.chosen
<1>1. /\ m \in PeerState /\ Local(p, m) /\ Local(p, n) /\ n \in PeerState /\ PhaseStep(m, n)
      /\ peer \in [Peer -> PeerState] /\ peer' \in [Peer -> PeerState]
  BY DEF IInv, TypeOK, LocalInv, Step, Contract, Common, XState
<1>2. peer'[p] = n /\ peer'[q] = peer[q] /\ \A r \in Peer : r = p \/ r = q
  BY DEF Step, Peer, Other
<1>3. /\ Phase[p] = PhaseOf(m) /\ Phase' = [Phase EXCEPT ![p] = PhaseOf(n)]
      /\ Using[p] = m.sc /\ Using' = [Using EXCEPT ![p] = n.sc]
  BY <1>1, <1>2 DEF Phase, Using
<1>4. /\ m.con \in {"Idle", "Requesting", "Connecting", "WaitingForAccept", "Active"}
      /\ n.con \in {"Idle", "Requesting", "Connecting", "WaitingForAccept", "Active"}
      /\ m.con # "Active" => m.sc = NoStream
      /\ n.con # "Active" => n.sc = NoStream
      /\ n.con = "Active" => n.sc \in Stream
  BY <1>1 DEF PeerState, Local, PlaceOK
<1>5. n.con = "Active" => n.sc = e
  BY <1>2 DEF ChInv, ChoiceOK, Peer
<1>6. e # c => /\ c = NoStream /\ e \in Stream /\ n.con # "Idle"
               /\ m.con \in {"Requesting", "Connecting", "WaitingForAccept"}
  BY ChoiceMade
<1>7. /\ Phase = [Phase EXCEPT ![p] = Phase[p]] /\ Using = [Using EXCEPT ![p] = Using[p]]
  BY DEF Phase, Using
<1> HIDE DEF m, n, c, e
<1>8. CASE m.con = "Idle"
  <2>1. e = c /\ n.sc = m.sc
    BY <1>1, <1>4, <1>6, <1>8 DEF PhaseStep
  <2>2. CASE n.con = "Idle" /\ n.ended = m.ended
    <3>1. PhaseOf(n) = PhaseOf(m)
      BY <1>8, <2>2 DEF PhaseOf
    <3> QED BY <1>3, <1>7, <2>1, <3>1, AgreementStutter DEF c, e
  <2>3. CASE m.ended = "none" /\ n.con \in {"Requesting", "Connecting", "WaitingForAccept"}
    <3>1. PhaseOf(m) = "out" /\ PhaseOf(n) = "trying"
      BY <1>8, <2>3 DEF PhaseOf
    <3>2. Using' = Using
      BY <1>3, <1>7, <2>1
    <3> QED BY <1>3, <2>1, <3>1, <3>2, AgreementNext DEF c, e
  <2> QED BY <1>1, <1>8, <2>2, <2>3 DEF PhaseStep
<1>9. CASE m.con \in {"Requesting", "Connecting", "WaitingForAccept"}
  <2>1. PhaseOf(m) = "trying" /\ m.sc = NoStream
    BY <1>4, <1>9 DEF PhaseOf
  <2>2. CASE n.con \in {"Requesting", "Connecting", "WaitingForAccept"}
    <3>1. PhaseOf(n) = "trying" /\ n.sc = NoStream
      BY <1>4, <2>2 DEF PhaseOf
    <3>2. Phase' = Phase /\ Using' = Using
      BY <1>3, <1>7, <2>1, <3>1
    <3>3. CASE e = c
      BY <3>2, <3>3, AgreementStutter DEF c, e
    <3>4. CASE e # c
      BY <1>3, <1>6, <2>1, <3>2, <3>4, AgreementNext DEF c, e
    <3> QED BY <3>3, <3>4
  <2>3. CASE n.con = "Active"
    <3>1. PhaseOf(n) = "in" /\ n.sc = e /\ e \in Stream /\ c \in {NoStream, e}
      BY <1>4, <1>5, <1>6, <2>3 DEF PhaseOf
    <3> QED BY <1>3, <2>1, <3>1, AgreementNext DEF c, e
  <2>4. CASE n.con = "Idle"
    <3>1. PhaseOf(n) = "left" /\ n.sc = NoStream /\ e = c
      BY <1>1, <1>4, <1>6, <1>9, <2>4 DEF PhaseOf, PhaseStep
    <3> QED BY <1>3, <2>1, <3>1, AgreementNext DEF c, e
  <2> QED BY <1>4, <2>2, <2>3, <2>4
<1>10. CASE m.con = "Active"
  <2>1. PhaseOf(m) = "in" /\ e = c
    BY <1>6, <1>10 DEF PhaseOf
  <2>2. CASE n.con = "Active" /\ n.sc = m.sc
    <3>1. PhaseOf(n) = "in"
      BY <2>2 DEF PhaseOf
    <3> QED BY <1>3, <1>7, <2>1, <2>2, <3>1, AgreementStutter DEF c, e
  <2>3. CASE n.con = "Idle"
    <3>1. PhaseOf(n) = "left" /\ n.sc = NoStream
      BY <1>1, <1>4, <1>10, <2>3 DEF PhaseOf, PhaseStep
    <3> QED BY <1>3, <2>1, <3>1, AgreementNext DEF c, e
  <2> QED BY <1>1, <1>10, <2>2, <2>3 DEF PhaseStep
<1> QED BY <1>4, <1>8, <1>9, <1>10

\* However dials, grants, stanzas and the CR interleave, one connection is
\* chosen for the stream, once, and S5BConnection hands its user no other: the
\* negotiation implements StreamAgreement.
THEOREM OneConnectionChosen == Spec => ImplementsAgreement
<1>1. Init => Agreement!Init
  BY DEF Init, Agreement!Init, NewPeer
<1>2. (IInv /\ ChInv) /\ (IInv /\ ChInv)' /\ [Next]_vars => [Agreement!Next]_(Agreement!vars)
  <2> SUFFICES ASSUME IInv, ChInv, ChInv', [Next]_vars
               PROVE  [Agreement!Next]_(Agreement!vars)
    OBVIOUS
  <2>1. ASSUME NEW p \in Peer, Move(p)
        PROVE  [Agreement!Next]_(Agreement!vars)
    <3>1. PICK y, got : Step(p, y, got)
      BY <2>1, MoveIs
    <3> QED BY <3>1, StepAgrees
  <2>2. CASE UNCHANGED vars
    BY <2>2, AgreementStutter DEF vars, Phase, Using
  <2> QED BY <2>1, <2>2, NextMoves
<1> QED BY <1>1, <1>2, Invariant, PTL DEF Spec, ImplementsAgreement, Agreement!Spec

----------------------------------------------------------------------------
(* What each client knows of the connection the other one uses.            *)

\* The stanzas a handler has sent.
Sent(x) == {x.out[k] : k \in DOMAIN x.out}

\* A method that takes the item of p from x to y, or makes p leave, starts on
\* no connection of its own and tells the other client nothing but errors.
Keep(p, x, y) ==
    LET i == x.m.item
        j == y.m.item
    IN
    /\ y \in XState /\ y.m.req = x.m.req /\ y.m.role = x.m.role /\ (x.early => y.early)
    /\ y.m.end[Direct(p)] = "none" <=> x.m.end[Direct(p)] = "none"
    /\ \A z \in Sent(y) : z \in Sent(x) \/ z.type = "error"
    /\ \/ y.m.entry = "none" /\ y.m.con \in {"Idle", "Active"}
          /\ y.m.ended \notin {"none", "wrongHost"}
       \/ /\ y.m.entry = x.m.entry /\ y.m.ended = x.m.ended /\ y.m.con \in {x.m.con, "Active"}
          /\ j.proxy = i.proxy /\ j.inHosts = i.inHosts /\ j.state \in {i.state, "Active"}
          /\ j.task => i.task
          /\ i.connSuccess => j.connSuccess
          /\ j.task /\ j.state # "Active" => j.client = i.client
          /\ j.state = "Active" /\ j.task /\ x.m.role = "Target" => i.state = "Active" \/ y.early

\* Changing what does not concern the connection used.
LEMMA KeepSame ==
    ASSUME NEW p \in Peer, NEW x \in XState, NEW y \in XState,
           y.out = x.out, y.early = x.early,
           y.m.req = x.m.req, y.m.role = x.m.role, y.m.entry = x.m.entry,
           y.m.ended = x.m.ended, y.m.con = x.m.con,
           y.m.end[Direct(p)] = "none" <=> x.m.end[Direct(p)] = "none",
           y.m.item.proxy = x.m.item.proxy, y.m.item.inHosts = x.m.item.inHosts,
           y.m.item.state = x.m.item.state, y.m.item.task => x.m.item.task,
           x.m.item.connSuccess => y.m.item.connSuccess,
           y.m.item.task /\ y.m.item.state # "Active" => y.m.item.client = x.m.item.client
    PROVE  Keep(p, x, y)
  BY DEF Keep, Sent

\* One method after another.
LEMMA KeepOn ==
    ASSUME NEW p \in Peer, NEW x, NEW y, NEW z, Keep(p, x, y), Keep(p, y, z)
    PROVE  Keep(p, x, z)
<1> DEFINE early == z.m.item.state = "Active" /\ z.m.item.task /\ x.m.role = "Target"
                       => x.m.item.state = "Active" \/ z.early
<1>1. /\ z \in XState /\ z.m.req = x.m.req /\ z.m.role = x.m.role /\ (x.early => z.early)
      /\ z.m.end[Direct(p)] = "none" <=> x.m.end[Direct(p)] = "none"
  BY DEF Keep
<1>2. \A w \in Sent(z) : w \in Sent(x) \/ w.type = "error"
  BY DEF Keep
<1>3. CASE z.m.entry = "none" /\ z.m.con \in {"Idle", "Active"}
           /\ z.m.ended \notin {"none", "wrongHost"}
  BY <1>1, <1>2, <1>3 DEF Keep
<1>4. CASE ~(z.m.entry = "none" /\ z.m.con \in {"Idle", "Active"}
             /\ z.m.ended \notin {"none", "wrongHost"})
  <2>1. /\ z.m.entry = y.m.entry /\ z.m.ended = y.m.ended /\ z.m.con \in {y.m.con, "Active"}
        /\ z.m.item.proxy = y.m.item.proxy /\ z.m.item.inHosts = y.m.item.inHosts
        /\ z.m.item.state \in {y.m.item.state, "Active"}
        /\ z.m.item.task => y.m.item.task
        /\ y.m.item.connSuccess => z.m.item.connSuccess
        /\ z.m.item.task /\ z.m.item.state # "Active" => z.m.item.client = y.m.item.client
        /\ z.m.item.state = "Active" /\ z.m.item.task /\ y.m.role = "Target"
             => y.m.item.state = "Active" \/ z.early
        /\ y.m.role = x.m.role /\ (y.early => z.early)
    BY <1>4 DEF Keep
  <2>2. /\ y.m.entry = x.m.entry /\ y.m.ended = x.m.ended /\ y.m.con \in {x.m.con, "Active"}
        /\ y.m.item.proxy = x.m.item.proxy /\ y.m.item.inHosts = x.m.item.inHosts
        /\ y.m.item.state \in {x.m.item.state, "Active"}
        /\ y.m.item.task => x.m.item.task
        /\ x.m.item.connSuccess => y.m.item.connSuccess
        /\ y.m.item.task /\ y.m.item.state # "Active" => y.m.item.client = x.m.item.client
        /\ y.m.item.state = "Active" /\ y.m.item.task /\ x.m.role = "Target"
             => x.m.item.state = "Active" \/ y.early
    BY <1>4, <2>1 DEF Keep
  <2>3. early
    BY <2>1, <2>2
  <2> QED BY <1>1, <1>2, <2>1, <2>2, <2>3 DEF Keep
<1> QED BY <1>3, <1>4

\* Closing connections.
LEMMA DropKeeps ==
    ASSUME NEW p \in Peer, NEW x \in XState
    PROVE  /\ \A streams : Keep(p, x, DropMany(x, streams))
           /\ \A s \in Stream \cup {NoStream} : Keep(p, x, Drop(x, s))
<1>0. /\ Direct(p) \in Stream
      /\ x.m.end \in [Stream -> {"none", "dialing", "open", "closed"}]
  BY StreamFacts, XFields
<1>1. ASSUME NEW streams, NEW y \in XState, NEW n, y.m = n, SameRest(x, y), y.early = x.early,
             n.item = x.m.item, SameConnection(x.m, n), n.end = Closing(x.m.end, streams)
      PROVE  Keep(p, x, y)
  <2>1. y.m.end[Direct(p)] = "none" <=> x.m.end[Direct(p)] = "none"
    BY <1>0, <1>1, ClosingIs
  <2> QED BY <1>1, <2>1, KeepSame DEF SameRest, SameConnection
<1>2. ASSUME NEW streams
      PROVE  Keep(p, x, DropMany(x, streams))
  <2> DEFINE n == [x.m EXCEPT !.end = Closing(x.m.end, streams)]
             y == DropMany(x, streams)
  <2>1. /\ y \in XState /\ y.m = n /\ SameRest(x, y) /\ y.early = x.early
        /\ n.item = x.m.item /\ SameConnection(x.m, n) /\ n.end = Closing(x.m.end, streams)
    BY Zenon, DropManyIs
  <2> HIDE DEF n, y
  <2>2. Keep(p, x, y)
    BY Zenon, <1>1, <2>1
  <2> QED BY <2>2 DEF y
<1>3. ASSUME NEW s \in Stream \cup {NoStream}
      PROVE  Keep(p, x, Drop(x, s))
  <2> DEFINE n == [x.m EXCEPT !.end = Closing(x.m.end, {s})]
             y == Drop(x, s)
  <2>1. /\ y \in XState /\ y.m = n /\ SameRest(x, y) /\ y.early = x.early
        /\ n.item = x.m.item /\ SameConnection(x.m, n) /\ n.end = Closing(x.m.end, {s})
    BY Zenon, DropIs
  <2> HIDE DEF n, y
  <2>2. Keep(p, x, y)
    BY Zenon, <1>1, <2>1
  <2> QED BY <2>2 DEF y
<1> QED BY <1>2, <1>3

\* Changing the item alone.
LEMMA ItemKeeps ==
    ASSUME NEW p \in Peer, NEW x \in XState, NEW j \in Item,
           j.proxy = x.m.item.proxy, j.inHosts = x.m.item.inHosts,
           j.state = x.m.item.state, j.task => x.m.item.task,
           x.m.item.connSuccess => j.connSuccess,
           j.task /\ j.state # "Active" => j.client = x.m.item.client
    PROVE  LET y == [x EXCEPT !.m = [x.m EXCEPT !.item = j]]
           IN  Keep(p, x, y) /\ y \in XState /\ y.m.item = j /\ y.crs = x.crs
<1> DEFINE n == [x.m EXCEPT !.item = j]
           y == [x EXCEPT !.m = n]
<1>1. n \in PeerState /\ n.item = j /\ n.end = x.m.end /\ SameConnection(x.m, n)
  BY PutItemIs, XFields
<1> HIDE DEF n
<1>2. y \in XState /\ y.m = n /\ SameRest(x, y) /\ y.early = x.early
  BY <1>1, PutIs
<1> HIDE DEF y
<1>3. Keep(p, x, y)
  BY <1>1, <1>2, KeepSame DEF SameRest, SameConnection
<1> QED BY <1>1, <1>2, <1>3 DEF SameRest, n, y

\* Leaving.
LEMMA GoneKeeps ==
    ASSUME NEW p \in Peer, NEW x \in XState, NEW why \in Ended \ {"none"}
    PROVE  LET y == Gone(x, why)
           IN  /\ why # "wrongHost" => Keep(p, x, y)
               /\ y \in XState /\ y.m.role = x.m.role /\ y.out = x.out /\ y.early = x.early
               /\ y.m.end[Direct(p)] = "none" <=> x.m.end[Direct(p)] = "none"
<1> DEFINE d == DropMany(x, Stream)
           n == [d.m EXCEPT !.con = "Idle", !.sc = NoStream,
                    !.entry = "none", !.item = NewItem, !.ended = why]
           y == Gone(x, why)
<1>1. Keep(p, x, d) /\ d \in XState
  BY DropKeeps DEF Keep
<1>2. y = [d EXCEPT !.m = n]
  BY Zenon DEF Gone
<1> HIDE DEF d
<1>3. n.role = d.m.role /\ n.end = d.m.end
  BY <1>1 DEF XState, PeerState
<1> HIDE DEF n
<1>4. y.m = n
  BY <1>1, <1>2 DEF XState
<1>5. /\ y \in XState /\ SameRest(x, y) /\ y.early = x.early
      /\ y.m.con = "Idle" /\ y.m.entry = "none" /\ y.m.ended = why /\ y.m.req = x.m.req
  BY GoneIs
<1> HIDE DEF y
<1>6. /\ y.m.role = x.m.role
      /\ y.m.end[Direct(p)] = "none" <=> x.m.end[Direct(p)] = "none"
  BY <1>1, <1>3, <1>4 DEF Keep
<1>7. Sent(y) = Sent(x)
  BY <1>5 DEF Sent, SameRest
<1>8. why # "wrongHost" => Keep(p, x, y)
  BY <1>5, <1>6, <1>7 DEF Keep
<1> QED BY <1>5, <1>6, <1>8 DEF y, SameRest

\* Sending a stanza.
LEMMA SentIs ==
    ASSUME NEW x \in XState, NEW z \in Stanza
    PROVE  Sent(Send(x, z)) = Sent(x) \cup {z}
<1> DEFINE o == Append(x.out, z)
<1>1. Send(x, z).out = o
  BY SendIs
<1>2. x.out \in Seq(Stanza)
  BY XFields
<1>3. o \in Seq(Stanza) /\ Len(o) = Len(x.out) + 1 /\ o[Len(x.out) + 1] = z
      /\ \A k \in 1..Len(x.out) : o[k] = x.out[k]
  BY <1>2
<1>4. DOMAIN o = 1..Len(o) /\ DOMAIN x.out = 1..Len(x.out) /\ Len(x.out) \in Nat
  BY <1>2, <1>3
<1> HIDE DEF o
<1>5. ASSUME NEW w
      PROVE  w \in {o[k] : k \in DOMAIN o} <=> w \in Sent(x) \cup {z}
  <2>1. ASSUME NEW k \in DOMAIN o
        PROVE  o[k] \in Sent(x) \cup {z}
    <3>1. k \in 1..Len(x.out) \/ k = Len(x.out) + 1
      BY <1>3, <1>4, <2>1
    <3> QED BY <1>3, <1>4, <3>1 DEF Sent
  <2>2. ASSUME NEW k \in DOMAIN x.out
        PROVE  k \in DOMAIN o /\ o[k] = x.out[k]
    BY <1>3, <1>4, <2>2
  <2>3. Len(x.out) + 1 \in DOMAIN o
    BY <1>3, <1>4
  <2> QED BY <1>3, <2>1, <2>2, <2>3 DEF Sent
<1> QED BY <1>1, <1>5 DEF Sent

\* Sending an error.
LEMMA ErrorKeeps ==
    ASSUME NEW p \in Peer, NEW x \in XState, NEW z \in Stanza, z.type = "error"
    PROVE  Keep(p, x, Send(x, z))
<1> DEFINE y == Send(x, z)
<1>1. /\ y \in XState /\ y.m = x.m /\ y.early = x.early
      /\ Sent(y) = Sent(x) \cup {z}
  BY SendIs, SentIs
<1> HIDE DEF y
<1>2. Keep(p, x, y)
  BY <1>1 DEF Keep
<1> QED BY <1>2 DEF y


\* finished(), of an item that may have turned to another client.
LEMMA FinishedKeeps ==
    ASSUME NEW p \in Peer, NEW x \in XState, NEW v \in XState,
           v.m.item.client # NoStream, v.out = x.out, v.early = x.early,
           v.m.req = x.m.req, v.m.role = x.m.role, v.m.entry = x.m.entry,
           v.m.ended = x.m.ended, v.m.con = x.m.con,
           v.m.end[Direct(p)] = "none" <=> x.m.end[Direct(p)] = "none",
           v.m.item.proxy = x.m.item.proxy, v.m.item.inHosts = x.m.item.inHosts,
           v.m.item.state = x.m.item.state, v.m.item.task => x.m.item.task,
           x.m.item.connSuccess => v.m.item.connSuccess
    PROVE  Keep(p, x, Finished(v))
<1> DEFINE j == [v.m.item EXCEPT !.state = "Active", !.client = NoStream]
           n == [v.m EXCEPT !.con = "Active", !.sc = v.m.item.client, !.item = j]
           y == Finished(v)
<1>1. /\ y \in XState /\ y.m = n /\ n \in PeerState /\ SameRest(v, y)
      /\ v.m.role = "Target" /\ v.m.item.task => y.early
  BY Zenon, FinishedIs
<1>2. /\ j.state = "Active" /\ j.proxy = v.m.item.proxy /\ j.inHosts = v.m.item.inHosts
      /\ j.task = v.m.item.task /\ j.connSuccess = v.m.item.connSuccess
  BY XFields DEF Item
<1> HIDE DEF j
<1>3. /\ n.item = j /\ n.con = "Active" /\ n.entry = v.m.entry /\ n.ended = v.m.ended
      /\ n.req = v.m.req /\ n.role = v.m.role /\ n.end = v.m.end
  BY XFields DEF PeerState
<1> HIDE DEF n
<1>4. v.early => y.early
  <2>1. y = [v EXCEPT !.m = y.m, !.early = @ \/ (v.m.role = "Target" /\ v.m.item.task)]
    BY <1>1, <1>3 DEF Finished, n, j
  <2> QED BY <1>1, <2>1 DEF XState, Finished
<1> HIDE DEF y
<1>5. Sent(y) = Sent(x)
  BY <1>1 DEF Sent, SameRest
<1>6. Keep(p, x, y)
  BY <1>1, <1>2, <1>3, <1>4, <1>5 DEF Keep
<1> QED BY <1>6 DEF y

\* finished() of the item as it is.
LEMMA FinishKeeps ==
    ASSUME NEW p \in Peer, NEW x \in XState
    PROVE  Keep(p, x, Finished(x)) /\ Keep(p, x, x)
<1>1. Keep(p, x, x)
  BY KeepSame
<1>2. CASE x.m.item.client # NoStream
  BY <1>2, FinishedKeeps, <1>1
<1>3. CASE x.m.item.client = NoStream
  <2> DEFINE y == [x EXCEPT !.bad = TRUE]
  <2>1. Finished(x) = y
    BY <1>3 DEF Finished
  <2>2. y \in XState /\ y.m = x.m /\ y.out = x.out /\ y.early = x.early
    BY DEF XState
  <2> HIDE DEF y
  <2>3. Keep(p, x, y)
    BY <2>2, KeepSame
  <2> QED BY <1>1, <2>1, <2>3
<1> QED BY <1>2, <1>3

\* tryActivation().
LEMMA ActivationKeeps ==
    ASSUME NEW p \in Peer, NEW x \in XState
    PROVE  Keep(p, x, TryActivation(x))
<1> DEFINE i == x.m.item
           j == [i EXCEPT !.task = FALSE, !.activated = TRUE]
           n == [x.m EXCEPT !.item = j]
           c == [x.crs EXCEPT ![i.client] = "sent"]
           y == [x EXCEPT !.m = n, !.crs = c]
           b == [x EXCEPT !.bad = TRUE]
<1>0. /\ i \in Item /\ i.client \in Stream \cup {NoStream} /\ x.crs \in [Stream -> CRs]
      /\ i.targetMode \in {"Unknown", "Fast", "NotFast"}
  BY XFields DEF Item
<1>1. TryActivation(x) \in {x, Finished(x), b} \/ (i.client # NoStream /\ TryActivation(x) = y)
  BY <1>0 DEF TryActivation, Item
<1>2. Keep(p, x, b)
  <2>1. b \in XState /\ b.m = x.m /\ b.out = x.out /\ b.early = x.early
    BY DEF XState
  <2> HIDE DEF b
  <2> QED BY <2>1, KeepSame
<1>3. CASE i.client # NoStream
  <2>1. /\ j \in Item /\ j.proxy = i.proxy /\ j.inHosts = i.inHosts /\ j.state = i.state
        /\ ~j.task /\ j.connSuccess = i.connSuccess
    BY <1>0 DEF Item
  <2>2. c \in [Stream -> CRs]
    BY <1>0, <1>3 DEF CRs
  <2> HIDE DEF j, c
  <2>3. n \in PeerState /\ n.item = j /\ n.end = x.m.end /\ SameConnection(x.m, n)
    BY <2>1, PutItemIs, XFields
  <2> HIDE DEF n
  <2>4. y \in XState /\ y.m = n /\ y.out = x.out /\ y.early = x.early
    BY <2>2, <2>3 DEF XState
  <2> HIDE DEF y
  <2>5. Keep(p, x, y)
    BY <2>1, <2>3, <2>4, KeepSame DEF SameConnection
  <2> QED BY <1>1, <1>2, <2>5, FinishKeeps
<1> HIDE DEF b, y
<1> QED BY <1>1, <1>2, <1>3, FinishKeeps

\* checkForActivation().
LEMMA CheckKeeps ==
    ASSUME NEW p \in Peer, NEW x \in XState
    PROVE  Keep(p, x, CheckForActivation(x))
<1> DEFINE i == x.m.item
           s == IF i.client \in Choices(x) THEN i.client ELSE i.clientOut
           d == DropMany(x, {i.client, i.clientOut} \ {s})
           j == [i EXCEPT !.client = s, !.clientOut = NoStream, !.activated = TRUE]
           n == [d.m EXCEPT !.item = j]
           c == IF i.fast THEN [x.crs EXCEPT ![s] = "taken"] ELSE x.crs
           v == [d EXCEPT !.m = n, !.crs = c]
<1>1. CASE Choices(x) = {}
  <2>1. CheckForActivation(x) \in {x, Finished(x)}
    BY <1>1 DEF CheckForActivation
  <2> QED BY <2>1, FinishKeeps
<1>2. CASE Choices(x) # {}
  <2>0. /\ i \in Item /\ x.crs \in [Stream -> CRs]
        /\ i.client \in Stream \cup {NoStream} /\ i.clientOut \in Stream \cup {NoStream}
    BY XFields
  <2>1. s \in Stream /\ s # NoStream
    BY <1>2, <2>0, StreamFacts DEF Choices
  <2>2. /\ Keep(p, x, d) /\ d \in XState /\ d.m.item = i /\ d.out = x.out /\ d.crs = x.crs
        /\ d.early = x.early /\ SameConnection(x.m, d.m)
    <3> DEFINE streams == {i.client, i.clientOut} \ {s}
               k == [x.m EXCEPT !.end = Closing(x.m.end, streams)]
    <3>0. d = DropMany(x, streams)
      OBVIOUS
    <3> HIDE DEF d, streams
    <3>1. /\ d \in XState /\ d.m = k /\ SameRest(x, d) /\ d.early = x.early
          /\ k.item = x.m.item /\ SameConnection(x.m, k)
      BY Zenon, <3>0, DropManyIs
    <3>2. Keep(p, x, d)
      BY Zenon, <3>0, DropKeeps
    <3> HIDE DEF k
    <3> QED BY Zenon, <3>1, <3>2 DEF SameRest
  <2>3. CheckForActivation(x) = Finished(v)
    BY Zenon, <1>2, <2>2 DEF CheckForActivation
  <2>4. /\ j \in Item /\ j.client = s /\ j.proxy = i.proxy /\ j.inHosts = i.inHosts
        /\ j.state = i.state /\ j.task = i.task /\ j.connSuccess = i.connSuccess
    <3> HIDE DEF s
    <3>1. NoStream \in Stream \cup {NoStream}
      OBVIOUS
    <3> QED BY <2>0, <2>1, <3>1 DEF Item
  <2>5. c \in [Stream -> CRs]
    <3> HIDE DEF s
    <3> QED BY <2>0, <2>1 DEF CRs
  <2> HIDE DEF s, j, d, c
  <2>6. n \in PeerState /\ n.item = j /\ n.end = d.m.end /\ SameConnection(d.m, n)
    BY <2>2, <2>4, PutItemIs, XFields
  <2> HIDE DEF n
  <2>7. v \in XState /\ v.m = n /\ v.out = x.out /\ v.early = x.early
    BY <2>2, <2>5, <2>6 DEF XState
  <2> HIDE DEF v
  <2>8. v.m.end[Direct(p)] = "none" <=> x.m.end[Direct(p)] = "none"
    BY <2>2, <2>6, <2>7 DEF Keep
  <2>9. Keep(p, x, Finished(v))
    BY <2>1, <2>2, <2>4, <2>6, <2>7, <2>8, FinishedKeeps DEF SameConnection
  <2> QED BY <2>3, <2>9
<1> QED BY <1>1, <1>2

\* checkFailure(): the client is what it was, or p leaves.
LEMMA FailureKeeps ==
    ASSUME NEW p \in Peer, NEW x \in XState
    PROVE  LET y == CheckFailure(x)
           IN  Keep(p, x, y) /\ (y = x \/ y.m.entry = "none")
<1>1. CheckFailure(x) = x \/ \E w \in {"connect", "refused"} : CheckFailure(x) = Gone(x, w)
  BY DEF CheckFailure, Fail
<1>2. ASSUME NEW w \in {"connect", "refused"}
      PROVE  Keep(p, x, Gone(x, w)) /\ Gone(x, w).m.entry = "none"
  <2>1. w \in Ended \ {"none"} /\ w # "wrongHost"
    BY DEF Ended
  <2> QED BY <2>1, GoneKeeps, GoneIs
<1> QED BY <1>1, <1>2, FinishKeeps

\* doConnectError().
LEMMA ConnectErrorKeeps ==
    ASSUME NEW p \in Peer, NEW x \in XState
    PROVE  LET y == DoConnectError(x)
           IN  Keep(p, x, y) /\ (y.m.entry = "none" \/ y.m.item.client = x.m.item.client)
<1> DEFINE i == x.m.item
           j == [i EXCEPT !.localFailed = TRUE]
           v == [x EXCEPT !.m = [x.m EXCEPT !.item = j]]
           z == RespondError(i.inId, 404)
           w == Send(v, z)
           y == CheckFailure(w)
<1>1. DoConnectError(x) = y
  BY Zenon DEF DoConnectError
<1>2. /\ j \in Item /\ j.proxy = i.proxy /\ j.inHosts = i.inHosts /\ j.state = i.state
      /\ j.task = i.task /\ j.connSuccess = i.connSuccess /\ j.client = i.client
  BY XFields DEF Item
<1>3. z \in Stanza /\ z.type = "error"
  BY XFields, AnswerTypes DEF RespondError
<1> HIDE DEF j, z
<1>4. Keep(p, x, v) /\ v \in XState /\ v.m.item = j
  BY <1>2, ItemKeeps
<1> HIDE DEF v
<1>5. Keep(p, v, w) /\ w \in XState /\ w.m = v.m
  BY <1>3, <1>4, ErrorKeeps, SendIs
<1> HIDE DEF w
<1>6. Keep(p, w, y) /\ (y = w \/ y.m.entry = "none")
  BY <1>5, FailureKeeps
<1> HIDE DEF y
<1>7. Keep(p, x, y)
  BY <1>4, <1>5, <1>6, KeepOn
<1> QED BY <1>1, <1>2, <1>4, <1>5, <1>6, <1>7

\* Dialling hosts of the other client.
LEMMA DialKeeps ==
    ASSUME NEW p \in Peer, NEW x \in XState, NEW hosts \in SUBSET Stream,
           Owned(hosts, Other(p))
    PROVE  Keep(p, x, Dial(x, hosts))
<1> DEFINE j == [x.m.item EXCEPT !.conn = hosts]
           e == [s \in Stream |-> IF s \in hosts THEN "dialing" ELSE x.m.end[s]]
           k == [x.m EXCEPT !.item = j]
           n == [k EXCEPT !.end = e]
           y == [x EXCEPT !.m = n]
<1>0. /\ Direct(p) \in Stream /\ Direct(p) \notin hosts
      /\ x.m.end \in [Stream -> {"none", "dialing", "open", "closed"}]
  BY StreamFacts, XFields DEF Owned, Direct
<1>1. /\ j \in Item /\ j.proxy = x.m.item.proxy /\ j.inHosts = x.m.item.inHosts
      /\ j.state = x.m.item.state /\ j.task = x.m.item.task
      /\ j.connSuccess = x.m.item.connSuccess /\ j.client = x.m.item.client
  BY XFields DEF Item
<1>2. /\ e \in [Stream -> {"none", "dialing", "open", "closed"}]
      /\ e[Direct(p)] = x.m.end[Direct(p)]
  BY <1>0
<1>3. Dial(x, hosts) = y
  BY XFields DEF Dial, XState, PeerState
<1> HIDE DEF j, e
<1>4. k \in PeerState /\ k.item = j /\ SameConnection(x.m, k)
  BY <1>1, PutItemIs, XFields
<1> HIDE DEF k
<1>5. n \in PeerState /\ n.item = j /\ n.end = e /\ SameConnection(k, n)
  BY <1>2, <1>4, PutEndIs
<1> HIDE DEF n
<1>6. y \in XState /\ y.m = n /\ SameRest(x, y) /\ y.early = x.early
  BY <1>5, PutIs
<1> HIDE DEF y
<1>7. Keep(p, x, y)
  BY <1>1, <1>2, <1>4, <1>5, <1>6, KeepSame DEF SameRest, SameConnection
<1> QED BY <1>3, <1>7

\* doIncoming().
LEMMA IncomingKeeps ==
    ASSUME NEW p \in Peer, NEW x \in XState, Owned(x.m.item.inHosts, Other(p))
    PROVE  Keep(p, x, DoIncoming(x))
<1> DEFINE i == x.m.item
           proxies == {s \in i.inHosts : IsProxy(s)}
           J(late) == [i EXCEPT !.lateProxy = late]
           V(late) == [x EXCEPT !.m = [x.m EXCEPT !.item = J(late)]]
<1>1. \/ DoIncoming(x) = DoConnectError(x)
      \/ DoIncoming(x) = Dial(x, i.inHosts)
      \/ \E late \in BOOLEAN, hosts \in SUBSET i.inHosts : DoIncoming(x) = Dial(V(late), hosts)
  <2>1. i.lateProxy \in BOOLEAN
    BY XFields DEF Item
  <2>2. CASE i.inHosts = {}
    BY <2>2 DEF DoIncoming
  <2>3. CASE i.inHosts # {} /\ i.lateProxy
    <3>1. DoIncoming(x) = Dial(V(FALSE), proxies)
      BY Zenon, <2>3 DEF DoIncoming
    <3>2. proxies \in SUBSET i.inHosts
      OBVIOUS
    <3> QED BY Zenon, <3>1, <3>2
  <2>4. CASE i.inHosts # {} /\ ~i.lateProxy
    <3> DEFINE mayDelay == (i.state = "Initiator" \/ (i.state = "Target" /\ i.fast)) /\ ~i.proxy
    <3>1. CASE mayDelay
      <4>1. DoIncoming(x) = Dial(V(proxies # {}), i.inHosts \ proxies)
        BY Zenon, <2>4, <3>1 DEF DoIncoming
      <4>2. i.inHosts \ proxies \in SUBSET i.inHosts /\ (proxies # {}) \in BOOLEAN
        OBVIOUS
      <4> QED BY Zenon, <4>1, <4>2
    <3>2. CASE ~mayDelay
      <4>1. DoIncoming(x) = Dial(x, i.inHosts)
        BY Zenon, <2>4, <3>2 DEF DoIncoming
      <4> QED BY <4>1
    <3> QED BY <3>1, <3>2
  <2> QED BY <2>1, <2>2, <2>3, <2>4
<1>2. i.inHosts \in SUBSET Stream
  BY XFields
<1>3. ASSUME NEW late \in BOOLEAN, NEW hosts \in SUBSET i.inHosts
      PROVE  Keep(p, x, Dial(V(late), hosts))
  <2> DEFINE j == J(late)
             v == V(late)
  <2>1. /\ j \in Item /\ j.proxy = i.proxy /\ j.inHosts = i.inHosts /\ j.state = i.state
        /\ j.task = i.task /\ j.connSuccess = i.connSuccess /\ j.client = i.client
    BY XFields DEF Item
  <2> HIDE DEF j, J
  <2>2. Keep(p, x, v) /\ v \in XState
    BY <2>1, ItemKeeps DEF j
  <2> HIDE DEF v, V
  <2>3. hosts \in SUBSET Stream /\ Owned(hosts, Other(p))
    BY <1>2 DEF Owned
  <2>4. Keep(p, v, Dial(v, hosts))
    BY <2>2, <2>3, DialKeeps
  <2>5. Keep(p, x, Dial(v, hosts))
    BY <2>2, <2>4, KeepOn
  <2> QED BY <2>5 DEF v
<1> HIDE DEF V, J
<1> QED BY <1>1, <1>2, <1>3, ConnectErrorKeeps, DialKeeps

\* conn_result of a connector that reached no host.
LEMMA ConnFailureKeeps ==
    ASSUME NEW p \in Peer, NEW x \in XState, Owned(x.m.item.inHosts, Other(p))
    PROVE  Keep(p, x, ConnFailure(x))
<1>1. ConnFailure(x) \in {x, DoIncoming(x), DoConnectError(x)}
  BY XFields DEF ConnFailure, Item
<1> QED BY <1>1, FinishKeeps, IncomingKeeps, ConnectErrorKeeps

----------------------------------------------------------------------------
(* What relates the clients.                                               *)

\* What is true of the connections to a client itself: one that came is its
\* candidate while its request is unanswered, until another is chosen.
Sighted(p, m, early) ==
    LET i == m.item IN
    /\ i.task /\ m.end[Direct(p)] # "none" /\ i.state # "Active" =>
          i.client = Direct(p) \/ (p = Ini /\ i.connSuccess)
    /\ MayAsk(p, m) => m.end[Direct(p)] = "none"
    /\ m.ended = "wrongHost" => early
    /\ p = Tgt =>
          /\ m.entry = "item" => m.role = "Target"
          /\ i.state = "Active" /\ i.task => early

\* A client that has offered its proxy knows it.
Offering(p, m) == ~MayAsk(p, m) /\ (m.entry = "item" => m.item.proxy)

\* The hosts that a client has been offered, or will be.
Hosts(q) ==
    peer[q].req.hosts \cup peer[q].item.inHosts
      \cup UNION {net[q][k].hosts : k \in {k \in DOMAIN net[q] : IsRequest(net[q][k])}}

\* What p may be told that the other client is connected to.
Told(p, s) ==
    /\ s \in Stream /\ s.owner = p
    /\ s = Direct(p) => peer[p].end[s] # "none"
    /\ s = Proxy(p) => Offering(p, peer[p])
Results(p) == {net[p][k].used : k \in {k \in DOMAIN net[p] : net[p][k].type = "result"}}

\* No client is told of a connection that it cannot see.
SightOK(p) ==
    /\ Sighted(p, peer[p], hist.early)
    /\ Proxy(p) \in Hosts(Other(p)) => Offering(p, peer[p])
    /\ \A s \in Results(p) : Told(p, s)
SightInv == \A p \in Peer : SightOK(p)

\* What a handler of p guarantees, after a request with these hosts.
Honest(p, y, hosts) ==
    LET m == peer[p]
        j == y.m.item
    IN
    /\ y \in XState
    /\ y.m.req.hosts \subseteq m.req.hosts \cup hosts
    /\ j.inHosts \subseteq m.req.hosts \cup m.item.inHosts \cup hosts
    /\ \A z \in Sent(y) :
          /\ IsRequest(z) => (y.m.entry = "item" /\ Proxy(p) \in z.hosts => j.proxy)
          /\ z.type = "result" =>
                z.used \in m.item.inHosts
                /\ (IsProxy(z.used) \/ peer[Other(p)].end[z.used] # "none")
    /\ MayAsk(p, y.m) => MayAsk(p, m)
    /\ y.m.entry = "item" => MayAsk(p, m) \/ (m.entry = "item" /\ j.proxy = m.item.proxy)
    /\ m.end[Direct(p)] # "none" => y.m.end[Direct(p)] # "none"
    /\ Sighted(p, y.m, hist.early \/ y.early)

\* Such a handler may go on with the methods above.
LEMMA HonestOn ==
    ASSUME NEW p \in Peer, NEW x \in XState, NEW y, NEW hosts, Honest(p, x, hosts), Keep(p, x, y),
           PlaceOK(p, y.m)
    PROVE  Honest(p, y, hosts)
<1> DEFINE i == x.m.item
           j == y.m.item
<1>1. /\ y \in XState /\ y.m.req = x.m.req /\ y.m.role = x.m.role /\ (x.early => y.early)
      /\ y.m.end[Direct(p)] = "none" <=> x.m.end[Direct(p)] = "none"
      /\ \A z \in Sent(y) : z \in Sent(x) \/ z.type = "error"
  BY DEF Keep
<1>2. CASE y.m.entry = "none" /\ y.m.con \in {"Idle", "Active"}
           /\ y.m.ended \notin {"none", "wrongHost"}
  <2>1. j = NewItem /\ j.inHosts = {} /\ ~j.task
    BY <1>2 DEF PlaceOK, NewItem
  <2>2. ~MayAsk(p, y.m)
    BY <1>2 DEF MayAsk
  <2>3. Sighted(p, y.m, hist.early \/ y.early)
    BY <1>2, <2>1, <2>2 DEF Sighted
  <2>4. \A z \in Sent(y) : z \in Sent(x) \/ (~IsRequest(z) /\ z.type # "result")
    BY <1>1 DEF IsRequest
  <2> QED BY <1>1, <1>2, <2>1, <2>2, <2>3, <2>4 DEF Honest
<1>3. CASE ~(y.m.entry = "none" /\ y.m.con \in {"Idle", "Active"}
             /\ y.m.ended \notin {"none", "wrongHost"})
  <2>1. /\ y.m.entry = x.m.entry /\ y.m.ended = x.m.ended /\ y.m.con \in {x.m.con, "Active"}
        /\ j.proxy = i.proxy /\ j.inHosts = i.inHosts /\ j.state \in {i.state, "Active"}
        /\ j.task => i.task
        /\ i.connSuccess => j.connSuccess
        /\ j.task /\ j.state # "Active" => j.client = i.client
        /\ j.state = "Active" /\ j.task /\ x.m.role = "Target" => i.state = "Active" \/ y.early
    BY <1>3 DEF Keep
  <2>2. MayAsk(p, y.m) => MayAsk(p, x.m)
    BY <2>1 DEF MayAsk
  <2>3. j.state = "Active" => y.m.entry = "item"
    BY DEF PlaceOK, NewItem
  <2>4. Sighted(p, y.m, hist.early \/ y.early)
    <3>1. Sighted(p, x.m, hist.early \/ x.early)
      BY DEF Honest
    <3> QED BY <1>1, <2>1, <2>2, <2>3, <3>1 DEF Sighted
  <2>5. \A z \in Sent(y) : z \in Sent(x) \/ (~IsRequest(z) /\ z.type # "result")
    BY <1>1 DEF IsRequest
  <2> QED BY <1>1, <2>1, <2>2, <2>4, <2>5 DEF Honest
<1> QED BY <1>2, <1>3

\* A step of p by such a handler.
Sees(p) ==
    \E y, queue, hosts :
        /\ Honest(p, y, hosts)
        /\ Commit(p, y, queue)
        /\ \/ queue = net /\ hosts = {}
           \/ /\ net[p] # <<>> /\ queue = Popped(p)
              /\ hosts = {} \/ (IsRequest(Head(net[p])) /\ hosts = Head(net[p]).hosts)

\* What is offered, and told, in a queue.
Offers(stanzas) ==
    UNION {stanzas[k].hosts : k \in {k \in DOMAIN stanzas : IsRequest(stanzas[k])}}
Uses(stanzas) == {stanzas[k].used : k \in {k \in DOMAIN stanzas : stanzas[k].type = "result"}}

\* The queue after another, and without its first stanza.
LEMMA OffersIs ==
    ASSUME NEW a \in Seq(Stanza), NEW b \in Seq(Stanza)
    PROVE  /\ Offers(a \o b) \subseteq Offers(a) \cup Offers(b)
           /\ Uses(a \o b) \subseteq Uses(a) \cup Uses(b)
           /\ a # <<>> => /\ Offers(Tail(a)) \subseteq Offers(a) /\ Uses(Tail(a)) \subseteq Uses(a)
                          /\ IsRequest(Head(a)) => Head(a).hosts \subseteq Offers(a)
                          /\ Head(a).type = "result" => Head(a).used \in Uses(a)
<1>1. \A k \in DOMAIN (a \o b) :
         \/ k \in DOMAIN a /\ (a \o b)[k] = a[k]
         \/ \E j \in DOMAIN b : (a \o b)[k] = b[j]
  <2>1. \A k \in DOMAIN (a \o b) :
                 \/ k \in DOMAIN a /\ (a \o b)[k] = a[k]
                 \/ \E j \in DOMAIN b : k = Len(a) + j /\ (a \o b)[k] = b[j]
    BY Zenon, Joining
  <2> QED BY <2>1
<1> DEFINE c == a \o b
<1> HIDE DEF c
<1>2. Offers(c) \subseteq Offers(a) \cup Offers(b)
  BY <1>1 DEF Offers, c
<1>3. Uses(c) \subseteq Uses(a) \cup Uses(b)
  BY <1>1 DEF Uses, c
<1>4. CASE a # <<>>
  <2> DEFINE t == Tail(a)
             h == Head(a)
  <2>1. /\ 1 \in DOMAIN a /\ h = a[1]
        /\ \A k \in DOMAIN t : k + 1 \in DOMAIN a /\ t[k] = a[k + 1]
    BY <1>4, Taking
  <2> HIDE DEF t, h
  <2>2. Offers(t) \subseteq Offers(a) /\ Uses(t) \subseteq Uses(a)
    BY <2>1 DEF Offers, Uses
  <2>3. (IsRequest(h) => h.hosts \subseteq Offers(a)) /\ (h.type = "result" => h.used \in Uses(a))
    BY <2>1 DEF Offers, Uses
  <2> QED BY <1>2, <1>3, <2>2, <2>3 DEF t, h, c
<1> QED BY <1>2, <1>3, <1>4 DEF c

\* Every such step keeps what relates the clients.
LEMMA SeesKeeps ==
    ASSUME IInv, IInv', SightInv, NEW p \in Peer, Sees(p)
    PROVE  SightInv'
<1> DEFINE q == Other(p)
           m == peer[p]
<1>0. q \in Peer /\ p # q /\ Other(q) = p /\ Peer = {p, q}
  BY StreamFacts
<1>1. PICK y, queue, hosts :
        /\ Honest(p, y, hosts)
        /\ Commit(p, y, queue)
        /\ \/ queue = net /\ hosts = {}
           \/ /\ net[p] # <<>> /\ queue = Popped(p)
              /\ hosts = {} \/ (IsRequest(Head(net[p])) /\ hosts = Head(net[p]).hosts)
  BY DEF Sees
<1>2. /\ peer \in [Peer -> PeerState] /\ net \in [Peer -> Seq(Stanza)] /\ hist \in History
      /\ y.out \in Seq(Stanza) /\ y \in XState
  BY <1>1 DEF IInv, TypeOK, Honest, XState
<1>3. /\ queue \in [Peer -> Seq(Stanza)] /\ queue[q] = net[q]
      /\ \/ queue[p] = net[p]
         \/ net[p] # <<>> /\ queue[p] = Tail(net[p])
  <2>1. net[p] # <<>> => Tail(net[p]) \in Seq(Stanza)
    BY <1>2
  <2> QED BY <1>0, <1>1, <1>2, <2>1 DEF Popped
<1>4. peer'[p] = y.m /\ peer'[q] = peer[q]
  BY <1>0, <1>1, <1>2 DEF Commit
<1>5. net'[p] = queue[p] /\ net'[q] = net[q] \o y.out
  BY <1>0, <1>1, <1>3 DEF Commit
<1>6. hist'.early = (hist.early \/ y.early)
  BY Zenon, <1>1, <1>2 DEF Commit, History
<1>7. \A r \in Peer :
        /\ Hosts(r) = peer[r].req.hosts \cup peer[r].item.inHosts \cup Offers(net[r])
        /\ Hosts(r)' = peer'[r].req.hosts \cup peer'[r].item.inHosts \cup Offers(net'[r])
        /\ Results(r) = Uses(net[r]) /\ Results(r)' = Uses(net'[r])
  BY DEF Hosts, Results, Offers, Uses
<1>8. Offers(net'[p]) \subseteq Offers(net[p]) /\ Uses(net'[p]) \subseteq Uses(net[p])
      /\ hosts \subseteq Offers(net[p])
  <2>1. net[p] \in Seq(Stanza)
    BY <1>2
  <2> QED BY <1>1, <1>3, <1>5, <2>1, OffersIs
<1>9. /\ Offers(net'[q]) \subseteq Offers(net[q]) \cup Offers(y.out)
      /\ Uses(net'[q]) \subseteq Uses(net[q]) \cup Uses(y.out)
  <2>1. net[q] \in Seq(Stanza)
    BY <1>0, <1>2
  <2> QED BY <1>2, <1>5, <2>1, OffersIs
<1>10. SightOK(p) /\ SightOK(q)
  BY <1>0 DEF SightInv
<1>11. Proxy(p) \in Hosts(q) \/ Proxy(p) \in Results(p) => Offering(p, y.m)
  <2> SUFFICES ASSUME Offering(p, m)
               PROVE  Offering(p, y.m)
    BY <1>10, StreamFacts DEF SightOK, Told
  <2> QED BY <1>1 DEF Offering, Honest
<1>12. Proxy(p) \in Offers(y.out) => Offering(p, y.m)
  <2> SUFFICES ASSUME Proxy(p) \in Offers(y.out)
               PROVE  Offering(p, y.m)
    OBVIOUS
  <2>1. PICK k \in DOMAIN y.out : IsRequest(y.out[k]) /\ Proxy(p) \in y.out[k].hosts
    BY DEF Offers
  <2>2. y.m.entry = "item" => y.m.item.proxy
    BY <1>1, <2>1 DEF Honest, Sent
  <2>3. ~NoRequest(net'[q])
    <3>1. ~NoRequest(y.out)
      BY <2>1 DEF NoRequest
    <3>2. net[q] \in Seq(Stanza)
      BY <1>0, <1>2
    <3> QED BY <1>2, <1>5, <3>1, <3>2, Joining
  <2>4. TokenOK(p)'
    BY DEF IInv, TokenInv
  <2>5. ~MayAsk(p, y.m)
    BY <1>4, <2>3, <2>4 DEF TokenOK
  <2> QED BY <2>2, <2>5 DEF Offering
<1>13. SightOK(p)'
  <2>1. Sighted(p, peer[p], hist.early)'
    BY <1>1, <1>4, <1>6 DEF Honest
  <2>2. Proxy(p) \in Hosts(q)' => Offering(p, y.m)
    BY <1>0, <1>4, <1>7, <1>9, <1>11, <1>12
  <2>3. ASSUME NEW s \in Results(p)'
        PROVE  Told(p, s)'
    <3>1. s \in Results(p)
      BY <1>7, <1>8, <2>3
    <3>2. Told(p, s)
      BY <1>10, <3>1 DEF SightOK
    <3>3. s = Direct(p) => y.m.end[s] # "none"
      BY <1>1, <3>2 DEF Told, Honest
    <3>4. s = Proxy(p) => Offering(p, y.m)
      BY <1>11, <3>1
    <3> QED BY <1>4, <3>2, <3>3, <3>4 DEF Told
  <2> QED BY <1>4, <2>1, <2>2, <2>3 DEF SightOK
<1>14. SightOK(q)'
  <2>1. Sighted(q, peer[q], hist.early)'
    BY <1>4, <1>6, <1>10 DEF SightOK, Sighted
  <2>2. Hosts(p)' \subseteq Hosts(p)
    BY <1>1, <1>4, <1>7, <1>8 DEF Honest
  <2>3. ASSUME NEW s \in Uses(y.out)
        PROVE  Told(q, s)
    <3>1. PICK k \in DOMAIN y.out : y.out[k].type = "result" /\ s = y.out[k].used
      BY <2>3 DEF Uses
    <3>2. s \in m.item.inHosts /\ (IsProxy(s) \/ peer[q].end[s] # "none")
      BY <1>1, <3>1 DEF Honest, Sent
    <3>3. Owned(m.item.inHosts, q) /\ m.item.inHosts \subseteq Stream
      BY <1>2 DEF IInv, LocalInv, Local, HostsOK, PeerState, Item
    <3>4. s \in Stream /\ s.owner = q
      BY <3>2, <3>3 DEF Owned
    <3>5. s = Direct(q) => peer[q].end[s] # "none"
      BY <3>2 DEF Direct, IsProxy
    <3>6. s \in Hosts(p)
      BY <1>7, <3>2
    <3>7. s = Proxy(q) => Offering(q, peer[q])
      BY <1>0, <1>10, <3>6 DEF SightOK
    <3> QED BY <3>4, <3>5, <3>7 DEF Told
  <2>4. \A s \in Results(q)' : Told(q, s)
    BY <1>0, <1>7, <1>9, <1>10, <2>3 DEF SightOK
  <2>5. \A s : Told(q, s)' <=> Told(q, s)
    BY <1>4 DEF Told
  <2>6. Proxy(q) \in Hosts(p)' => Offering(q, peer[q])
    BY <1>0, <1>10, <2>2 DEF SightOK
  <2> QED BY <1>0, <1>4, <2>1, <2>4, <2>5, <2>6 DEF SightOK
<1> QED BY <1>0, <1>13, <1>14 DEF SightInv

\* A handler starts from what relates the clients.
LEMMA StartHonest ==
    ASSUME IInv, SightInv, NEW p \in Peer
    PROVE  Honest(p, Start(p), {}) /\ Start(p) \in XState
<1> DEFINE x == Start(p)
<1>1. x \in XState /\ x.m = peer[p] /\ x.out = <<>> /\ x.early = FALSE
  BY StartIs
<1> HIDE DEF x
<1>2. Sent(x) = {}
  BY <1>1 DEF Sent
<1>3. SightOK(p) /\ hist.early \in BOOLEAN
  BY DEF SightInv, IInv, TypeOK, History
<1>4. Honest(p, x, {})
  BY <1>1, <1>2, <1>3 DEF Honest, SightOK
<1> QED BY <1>1, <1>4 DEF x

\* A handler made of the methods above.
LEMMA KeepSees ==
    ASSUME IInv, IInv', SightInv, NEW p \in Peer, NEW x, NEW y, NEW queue, NEW hosts,
           Honest(p, x, hosts), Keep(p, x, y), Commit(p, y, queue),
           \/ queue = net /\ hosts = {}
           \/ /\ net[p] # <<>> /\ queue = Popped(p)
              /\ hosts = {} \/ (IsRequest(Head(net[p])) /\ hosts = Head(net[p]).hosts)
    PROVE  Sees(p)
<1>1. peer'[p] = y.m
  BY DEF Commit, IInv, TypeOK
<1>2. PlaceOK(p, y.m)
  BY <1>1 DEF IInv, LocalInv, Local
<1>3. x \in XState
  BY DEF Honest
<1>4. Honest(p, y, hosts)
  BY <1>2, <1>3, HonestOn
<1> QED BY <1>4 DEF Sees

\* The same, from the start.
LEMMA OwnSees ==
    ASSUME IInv, IInv', SightInv, NEW p \in Peer, NEW y, NEW queue,
           Keep(p, Start(p), y), Commit(p, y, queue),
           queue = net \/ (net[p] # <<>> /\ queue = Popped(p))
    PROVE  Sees(p)
<1>1. Honest(p, Start(p), {})
  BY StartHonest
<1> QED BY <1>1, KeepSees

\* Leaving, with stanzas that only cancel.
LEMMA GoneSees ==
    ASSUME IInv, NEW p \in Peer, NEW why \in Ended \ {"none", "wrongHost"},
           NEW stanzas \in Seq(Stanza), \A k \in DOMAIN stanzas : stanzas[k].type = "error"
    PROVE  Keep(p, Start(p), [Gone(Start(p), why) EXCEPT !.out = stanzas])
<1> DEFINE x == Start(p)
           g == Gone(x, why)
           y == [g EXCEPT !.out = stanzas]
<1>1. x \in XState
  BY StartIs
<1> HIDE DEF x
<1>2. Keep(p, x, g) /\ g.m.entry = "none" /\ g.m.con = "Idle" /\ g.m.ended = why
  BY <1>1, GoneKeeps, GoneIs
<1> HIDE DEF g
<1>3. y \in XState /\ y.m = g.m /\ y.early = g.early /\ y.out = stanzas
  BY <1>2 DEF Keep, XState
<1> HIDE DEF y
<1>4. \A z \in Sent(y) : z.type = "error"
  BY <1>3 DEF Sent
<1>5. Keep(p, x, y)
  BY <1>2, <1>3, <1>4 DEF Keep
<1> QED BY <1>5 DEF x, y, g

\* Unlinking.
LEMMA UnlinkKeeps ==
    ASSUME IInv, NEW p \in Peer, NEW why \in Ended \ {"none", "wrongHost"}
    PROVE  Keep(p, Start(p), Unlink(p, why))
<1>1. CancelStanzas(p) \in Seq(Stanza)
  BY CancelIs
<1>2. \A k \in DOMAIN CancelStanzas(p) : CancelStanzas(p)[k].type = "error"
  BY DEF CancelStanzas, RespondError
<1>3. Keep(p, Start(p), [Gone(Start(p), why) EXCEPT !.out = CancelStanzas(p)])
  BY <1>1, <1>2, GoneSees
<1> QED BY <1>3 DEF Unlink

\* close(), and the end of the connection at the other client.
LEMMA CloseSees ==
    ASSUME IInv, IInv', SightInv, NEW p \in Peer, Close(p) \/ ConnectionClosed(p)
    PROVE  Sees(p)
<1>0. {"user", "closed"} \subseteq Ended \ {"none", "wrongHost"}
  BY DEF Ended
<1> DEFINE z == RespondError(Other(p), 406)
           y == [Gone(Start(p), "user") EXCEPT !.out = <<z>>]
<1>1. \/ Commit(p, Unlink(p, "user"), net) \/ Commit(p, Unlink(p, "closed"), net)
      \/ Commit(p, y, net)
  BY Zenon DEF Close, ConnectionClosed
<1>2. z \in Stanza /\ z.type = "error"
  BY AnswerTypes, StreamFacts DEF RespondError, ReqId
<1> HIDE DEF z
<1>3. <<z>> \in Seq(Stanza) /\ \A k \in DOMAIN <<z>> : <<z>>[k].type = "error"
  BY <1>2
<1>4. Keep(p, Start(p), y)
  BY <1>0, <1>3, GoneSees
<1> HIDE DEF y
<1> QED BY <1>0, <1>1, <1>4, UnlinkKeeps, OwnSees

\* A TCP connection breaks.
LEMMA BreaksSees ==
    ASSUME IInv, IInv', SightInv, NEW p \in Peer, NEW s \in Stream, Breaks(p, s)
    PROVE  Sees(p)
<1> DEFINE i == peer[p].item
           x == IF s \in {i.client, i.clientOut} THEN Fail(Start(p), "connect")
                ELSE IF s = peer[p].sc THEN Unlink(p, "socket")
                ELSE Drop(Start(p), s)
           y == [x EXCEPT !.broke = TRUE]
<1>0. {"connect", "socket"} \subseteq Ended \ {"none", "wrongHost"} /\ Start(p) \in XState
  BY StartIs DEF Ended
<1>1. Commit(p, y, net)
  BY DEF Breaks
<1>2. Keep(p, Start(p), x)
  BY <1>0, GoneKeeps, UnlinkKeeps, DropKeeps DEF Fail
<1> HIDE DEF x
<1>3. x \in XState /\ y \in XState /\ y.m = x.m /\ y.out = x.out /\ y.early = x.early
  BY <1>2 DEF Keep, XState
<1> HIDE DEF y
<1>4. Keep(p, x, y)
  BY <1>3, KeepSame
<1>5. Keep(p, Start(p), y)
  BY <1>2, <1>4, KeepOn
<1> QED BY <1>1, <1>5, OwnSees

\* A request that is refused.
LEMMA BounceSees ==
    ASSUME IInv, IInv', SightInv, NEW p \in Peer, net[p] # <<>>,
           Commit(p, Send(Start(p), RespondError(Head(net[p]).id, 406)), Popped(p))
    PROVE  Sees(p)
<1> DEFINE z == RespondError(Head(net[p]).id, 406)
<1>1. net[p] \in Seq(Stanza) /\ Start(p) \in XState
  BY StartIs DEF IInv, TypeOK
<1>2. Head(net[p]).id \in ReqId
  <2>1. Head(net[p]) \in Stanza
    BY <1>1
  <2> QED BY <2>1 DEF Stanza
<1>3. z \in Stanza /\ z.type = "error"
  BY <1>2, AnswerTypes DEF RespondError
<1> HIDE DEF z
<1>4. Keep(p, Start(p), Send(Start(p), z))
  BY <1>1, <1>3, ErrorKeeps
<1> QED BY <1>4, OwnSees DEF z

\* The other client's hosts, while the connector of the own request runs.
LEMMA HandleFastSees ==
    ASSUME IInv, IInv', SightInv, net[Ini] # <<>>, Head(net[Ini]).type = "request",
           Commit(Ini, HandleFast(Start(Ini), Head(net[Ini]).hosts, Head(net[Ini]).id), Popped(Ini))
    PROVE  Sees(Ini)
<1> DEFINE x == Start(Ini)
           i == peer[Ini].item
           hosts == Head(net[Ini]).hosts
           id == Head(net[Ini]).id
           z == RespondError(id, 406)
           j == [i EXCEPT !.targetMode = "Fast"]
           k == [i EXCEPT !.targetMode = "Fast", !.inHosts = hosts, !.inId = id]
           v == [x EXCEPT !.m = [x.m EXCEPT !.item = j]]
           w == [x EXCEPT !.m = [x.m EXCEPT !.item = k]]
<1>0. Ini \in Peer /\ Other(Ini) = Tgt /\ Tgt \in ReqId
  BY PeerAssumption DEF Peer, Other, ReqId
<1>1. /\ x \in XState /\ x.m = peer[Ini] /\ i \in Item /\ Honest(Ini, x, {})
  BY <1>0, StartIs, StartHonest, XFields
<1>2. /\ id = Tgt /\ Owned(hosts, Tgt) /\ hosts \in SUBSET Stream
  <2>1. /\ Head(net[Ini]) \in Stanza /\ id = Tgt /\ Owned(hosts, Tgt)
    BY <1>0, RequestFacts
  <2> QED BY <2>1 DEF Stanza
<1>3. z \in Stanza /\ z.type = "error"
  BY <1>0, <1>2, AnswerTypes DEF RespondError
<1>4. HandleFast(x, hosts, id) = IF i.client # NoStream THEN Send(v, z) ELSE DoIncoming(w)
  BY Zenon, <1>1 DEF HandleFast
<1> HIDE DEF z
<1>5. CASE i.client # NoStream
  <2>1. /\ j \in Item /\ j.proxy = i.proxy /\ j.inHosts = i.inHosts /\ j.state = i.state
        /\ j.task = i.task /\ j.connSuccess = i.connSuccess /\ j.client = i.client
    BY <1>1 DEF Item
  <2> HIDE DEF j
  <2>2. Keep(Ini, x, v) /\ v \in XState
    BY <1>0, <1>1, <2>1, ItemKeeps
  <2> HIDE DEF v
  <2>3. Keep(Ini, x, Send(v, z))
    BY <1>0, <1>3, <2>2, ErrorKeeps, KeepOn
  <2>4. Commit(Ini, Send(v, z), Popped(Ini))
    BY <1>4, <1>5
  <2> QED BY <1>0, <2>3, <2>4, OwnSees
<1>6. CASE i.client = NoStream
  <2>1. /\ k \in Item /\ k.proxy = i.proxy /\ k.inHosts = hosts /\ k.state = i.state
        /\ k.task = i.task /\ k.connSuccess = i.connSuccess /\ k.client = i.client
    BY <1>0, <1>1, <1>2 DEF Item
  <2> HIDE DEF k
  <2>2. /\ w \in XState /\ w.out = x.out /\ w.early = x.early /\ w.m.item = k
        /\ w.m.end = x.m.end /\ SameConnection(x.m, w.m)
    <3> DEFINE n == [x.m EXCEPT !.item = k]
    <3>1. n \in PeerState /\ n.item = k /\ n.end = x.m.end /\ SameConnection(x.m, n)
      BY <1>1, <2>1, PutItemIs, XFields
    <3> HIDE DEF n
    <3>2. w = [x EXCEPT !.m = n]
      BY DEF n
    <3> HIDE DEF w
    <3> QED BY <1>1, <3>1, <3>2, PutIs DEF SameRest
  <2> HIDE DEF w
  <2>3. Honest(Ini, w, hosts)
    <3>1. Sent(w) = Sent(x)
      BY <2>2 DEF Sent
    <3>2. (MayAsk(Ini, w.m) <=> MayAsk(Ini, x.m))
      BY <2>2 DEF MayAsk, SameConnection
    <3>3. Sighted(Ini, w.m, hist.early \/ w.early) <=> Sighted(Ini, x.m, hist.early \/ x.early)
      BY <2>1, <2>2, <3>2, <1>1 DEF Sighted, SameConnection
    <3> QED BY <1>1, <2>1, <2>2, <3>1, <3>2, <3>3 DEF Honest, SameConnection
  <2>4. Keep(Ini, w, DoIncoming(w))
    BY <1>0, <1>2, <2>1, <2>2, IncomingKeeps
  <2>5. Commit(Ini, DoIncoming(w), Popped(Ini))
    BY <1>4, <1>6
  <2>6. IsRequest(Head(net[Ini]))
    BY DEF IsRequest
  <2> QED BY <1>0, <2>3, <2>4, <2>5, <2>6, KeepSees
<1> QED BY <1>5, <1>6

\* A request for a new stream.
LEMMA NewStreamSees ==
    ASSUME IInv, IInv', SightInv, net[Tgt] # <<>>, Head(net[Tgt]).type = "request",
           peer[Tgt].con = "Idle", peer[Tgt].ended = "none",
           LET z == Head(net[Tgt]) IN
           Commit(Tgt, [Start(Tgt) EXCEPT !.m.con = "WaitingForAccept", !.m.entry = "bare",
                          !.m.req = [hosts |-> z.hosts, fast |-> z.fast]], Popped(Tgt))
    PROVE  Sees(Tgt)
<1> DEFINE x == Start(Tgt)
           m == peer[Tgt]
           z == Head(net[Tgt])
           req == [hosts |-> z.hosts, fast |-> z.fast]
           n == [m EXCEPT !.con = "WaitingForAccept", !.entry = "bare", !.req = req]
           y == [x EXCEPT !.m.con = "WaitingForAccept", !.m.entry = "bare", !.m.req = req]
<1>0. Ini \in Peer /\ Tgt \in Peer /\ Other(Tgt) = Ini /\ Ini # Tgt
  BY PeerAssumption DEF Peer, Other
<1>1. /\ x \in XState /\ x.m = m /\ x.out = <<>> /\ m \in PeerState /\ Honest(Tgt, x, {})
      /\ m.item = NewItem /\ m.entry = "none"
  BY <1>0, StartIs, StartHonest DEF Local, PlaceOK
<1>2. z \in Stanza /\ IsRequest(z)
  BY <1>0, RequestFacts DEF IsRequest
<1>3. req \in [hosts : SUBSET Stream, fast : BOOLEAN] /\ req.hosts = z.hosts
  BY <1>2 DEF Stanza
<1>4. Commit(Tgt, y, Popped(Tgt))
  OBVIOUS
<1> HIDE DEF z, req
<1>5. /\ n \in PeerState /\ n.con = "WaitingForAccept" /\ n.entry = "bare" /\ n.req = req
      /\ n.item = m.item /\ n.end = m.end /\ n.ended = m.ended
  BY <1>1, <1>3 DEF PeerState
<1>6. y = [x EXCEPT !.m = n]
  BY <1>1 DEF XState
<1> HIDE DEF n, y, x
<1>7. y \in XState /\ y.m = n /\ y.out = x.out /\ y.early = x.early
  BY <1>1, <1>5, <1>6, PutIs DEF SameRest
<1>8. Honest(Tgt, y, z.hosts)
  <2>1. Sent(y) = {}
    BY <1>1, <1>7 DEF Sent
  <2>2. MayAsk(Tgt, m)
    BY DEF MayAsk
  <2>3. m.end[Direct(Tgt)] = "none" /\ ~n.item.task
    BY <1>0, <1>1, <1>5, <2>2 DEF Honest, Sighted, NewItem
  <2>4. Sighted(Tgt, n, hist.early \/ y.early)
    BY <1>5, <2>3 DEF Sighted
  <2> QED BY <1>1, <1>3, <1>5, <1>7, <2>1, <2>2, <2>4 DEF Honest
<1> QED BY <1>0, <1>2, <1>4, <1>8 DEF Sees, z

\* Every way ps_incoming() may take.
LEMMA PsIncomingSees ==
    ASSUME IInv, IInv', SightInv, NEW p \in Peer, net[p] # <<>>, Head(net[p]).type = "request",
           PsIncoming(p, Head(net[p]))
    PROVE  Sees(p)
<1> DEFINE z == Head(net[p])
           i == peer[p].item
           known == peer[p].entry = "item"
           fastAllowed == known /\ i.state = "Initiator" /\ i.targetMode = "Unknown"
           wanted == p = Tgt /\ peer[p].con = "Idle" /\ peer[p].ended = "none"
<1>1. \/ fastAllowed /\ Commit(p, HandleFast(Start(p), z.hosts, z.id), Popped(p))
      \/ Commit(p, Send(Start(p), RespondError(z.id, 406)), Popped(p))
      \/ wanted /\ Commit(p, [Start(p) EXCEPT !.m.con = "WaitingForAccept", !.m.entry = "bare",
                            !.m.req = [hosts |-> z.hosts, fast |-> z.fast]], Popped(p))
  BY DEF PsIncoming
<1>2. fastAllowed => p = Ini
  <2>1. Local(p, peer[p])
    BY StartIs
  <2> QED BY <2>1 DEF Local, PlaceOK
<1> QED BY <1>1, <1>2, HandleFastSees, BounceSees, NewStreamSees

\* A new item by With.
LEMMA WithKeeps ==
    ASSUME NEW p \in Peer, NEW x \in XState, NEW j \in Item,
           j.proxy = x.m.item.proxy, j.inHosts = x.m.item.inHosts,
           j.state = x.m.item.state, j.task => x.m.item.task,
           x.m.item.connSuccess => j.connSuccess,
           j.task /\ j.state # "Active" => j.client = x.m.item.client
    PROVE  Keep(p, x, With(x, j)) /\ With(x, j) \in XState /\ With(x, j).m.item = j
<1>1. With(x, j) = [x EXCEPT !.m = [x.m EXCEPT !.item = j]]
  BY Zenon DEF With
<1> QED BY <1>1, ItemKeeps

\* Giving up on hosts.
LEMMA UndialledKeeps ==
    ASSUME NEW p \in Peer, NEW x \in XState, NEW streams
    PROVE  LET y == Undialled(x, streams)
           IN  /\ Keep(p, x, y) /\ y.m.item.client = x.m.item.client
               /\ y.m.item.inHosts = x.m.item.inHosts
<1> DEFINE i == x.m.item
           d == DropMany(x, streams)
           j == Without(i, streams)
<1>1. Keep(p, x, d) /\ d \in XState /\ d.m.item = i
  BY DropKeeps, DroppedIs
<1>2. /\ j \in Item /\ j.proxy = i.proxy /\ j.inHosts = i.inHosts /\ j.state = i.state
      /\ j.task = i.task /\ j.connSuccess = i.connSuccess /\ j.client = i.client
  BY XFields DEF Item, Without
<1> HIDE DEF d, j
<1>3. Keep(p, d, With(d, j)) /\ With(d, j).m.item = j
  BY <1>1, <1>2, WithKeeps
<1>4. Keep(p, x, With(d, j))
  BY <1>1, <1>3, KeepOn
<1> QED BY <1>2, <1>3, <1>4 DEF Undialled, d, j

\* Clearing the connector, as Undialled writes it.
LEMMA UndialledForm ==
    ASSUME NEW x \in XState
    PROVE  [DropMany(x, x.m.item.conn) EXCEPT !.m.item.conn = {}]
             = Undialled(x, x.m.item.conn)
<1> DEFINE k == x.m.item
           d == DropMany(x, k.conn)
<1>1. k \in Item /\ d \in XState /\ d.m.item = k
  BY XFields, DroppedIs
<1>2. Without(k, k.conn) = [k EXCEPT !.conn = {}]
  BY <1>1 DEF Without, Item
<1> HIDE DEF d
<1>3. [d EXCEPT !.m.item.conn = {}] = With(d, [k EXCEPT !.conn = {}])
  BY <1>1 DEF With, XState, PeerState
<1> QED BY Zenon, <1>2, <1>3 DEF Undialled, d

\* Stopping to dial.
LEMMA StopKeeps ==
    ASSUME NEW p \in Peer, NEW x \in XState
    PROVE  LET u == Stop(x)
           IN  Keep(p, x, u) /\ (u.m.entry = "none" \/ u.m.item.client = x.m.item.client)
<1> DEFINE v == Undialled(x, x.m.item.conn)
<1>1. Stop(x) = x \/ Stop(x) = DoConnectError(v)
  BY Zenon, UndialledForm DEF Stop
<1>2. Keep(p, x, v) /\ v \in XState /\ v.m.item.client = x.m.item.client
  BY UndialledKeeps DEF Keep
<1> HIDE DEF v
<1>3. LET u == DoConnectError(v)
      IN  Keep(p, v, u) /\ (u.m.entry = "none" \/ u.m.item.client = v.m.item.client)
  BY <1>2, ConnectErrorKeeps
<1>4. Keep(p, x, DoConnectError(v))
  BY <1>2, <1>3, KeepOn
<1> QED BY <1>1, <1>2, <1>3, <1>4, FinishKeeps

\* A result: the connection it names is gone on with, or cannot be seen.
LEMMA SuccessKeeps ==
    ASSUME NEW p \in Peer, NEW w \in XState, ~w.m.item.task, NEW used \in Stream, used.owner = p
    PROVE  LET u == Stop(w)
               y == JtSuccess(p, w, used)
           IN  \/ Keep(p, w, y)
               \/ /\ y = Gone(u, "wrongHost") /\ u.m.entry = "item"
                  /\ \/ used = Direct(p) /\ u.m.item.client = NoStream
                     \/ used = Proxy(p) /\ ~u.m.item.proxy
<1> DEFINE u == Stop(w)
           i == u.m.item
           s == Proxy(p)
           l == [i EXCEPT !.client = NoStream, !.allowIncoming = FALSE, !.proxyConn = TRUE]
           d == Drop(u, i.client)
           k == [d.m EXCEPT !.end[s] = "dialing"]
           n == [k EXCEPT !.item = l]
           c == [d EXCEPT !.m = n]
           b == [u EXCEPT !.bad = TRUE]
           y == JtSuccess(p, w, used)
<1>1. Keep(p, w, u) /\ u \in XState
  BY StopKeeps DEF Keep
<1>2. used \in {Direct(p), s} /\ Direct(p) # s /\ s \in Stream
  BY StreamFacts DEF Stream, Direct, Proxy
<1>3. i \in Item /\ i.proxy \in BOOLEAN
  BY <1>1, XFields DEF Item
<1>4. y = CASE u.m.entry # "item" -> b
            [] u.m.entry = "item" /\ used = Direct(p) ->
                  IF i.client = NoStream THEN Gone(u, "wrongHost")
                  ELSE IF i.state = "Initiator" THEN TryActivation(u)
                  ELSE CheckForActivation(u)
            [] u.m.entry = "item" /\ used = s /\ i.proxy ->
                  [d EXCEPT !.m = [@ EXCEPT !.end[s] = "dialing", !.item = l]]
            [] u.m.entry = "item" /\ used # Direct(p) /\ ~(used = s /\ i.proxy) ->
                  Gone(u, "wrongHost")
  BY Zenon DEF JtSuccess, Stop, Fail
<1>5. [d EXCEPT !.m = [@ EXCEPT !.end[s] = "dialing", !.item = l]] = c
  BY Zenon
<1> HIDE DEF u
<1>6. Keep(p, w, b)
  <2>1. b \in XState /\ b.m = u.m /\ b.out = u.out /\ b.early = u.early
    BY <1>1 DEF XState
  <2> HIDE DEF b
  <2> QED BY <1>1, <2>1, KeepSame, KeepOn
<1>7. Keep(p, w, TryActivation(u)) /\ Keep(p, w, CheckForActivation(u))
  BY <1>1, ActivationKeeps, CheckKeeps, KeepOn
<1>8. u.m.entry = "item" => Keep(p, w, c)
  <2> SUFFICES ASSUME u.m.entry = "item"
               PROVE  Keep(p, w, c)
    OBVIOUS
  <2>1. ~i.task
    BY <1>1 DEF Keep
  <2>2. Keep(p, u, d) /\ d \in XState /\ d.m.item = i
    <3>1. i.client \in Stream \cup {NoStream}
      BY <1>1, XFields
    <3> DEFINE e == [u.m EXCEPT !.end = Closing(u.m.end, {i.client})]
    <3>2. d \in XState /\ d.m = e /\ e.item = i
      BY <1>1, <3>1, DropIs
    <3> HIDE DEF d, e
    <3> QED BY <1>1, <3>1, <3>2, DropKeeps DEF d
  <2>3. /\ l \in Item /\ l.proxy = i.proxy /\ l.inHosts = i.inHosts /\ l.state = i.state
        /\ l.task = i.task /\ l.connSuccess = i.connSuccess
    BY <1>3 DEF Item
  <2> HIDE DEF l, d
  <2>4. /\ k \in PeerState /\ k.item = i /\ SameConnection(d.m, k)
        /\ k.end[Direct(p)] = d.m.end[Direct(p)]
    <3> DEFINE e == [d.m.end EXCEPT ![s] = "dialing"]
    <3>1. e \in [Stream -> {"none", "dialing", "open", "closed"}]
          /\ e[Direct(p)] = d.m.end[Direct(p)]
      BY <1>2, <2>2, XFields, StreamFacts
    <3> HIDE DEF e
    <3>2. LET z == [d.m EXCEPT !.end = e]
          IN  z \in PeerState /\ z.item = d.m.item /\ z.end = e /\ SameConnection(d.m, z)
      BY <2>2, <3>1, PutEndIs, XFields
    <3> QED BY Zenon, <2>2, <3>1, <3>2 DEF e
  <2> HIDE DEF k
  <2>5. n \in PeerState /\ n.item = l /\ n.end = k.end /\ SameConnection(k, n)
    BY <2>3, <2>4, PutItemIs
  <2> HIDE DEF n
  <2>6. c \in XState /\ c.m = n /\ c.out = d.out /\ c.early = d.early
    BY <2>2, <2>5, PutIs DEF SameRest
  <2> HIDE DEF c
  <2>7. Keep(p, d, c)
    BY <2>1, <2>2, <2>3, <2>4, <2>5, <2>6, KeepSame DEF SameConnection
  <2>8. Keep(p, u, c)
    BY <2>2, <2>7, KeepOn
  <2> QED BY <1>1, <2>8, KeepOn
<1> HIDE DEF y, b, c, d, l
<1> QED BY <1>2, <1>3, <1>4, <1>5, <1>6, <1>7, <1>8 DEF u, y

\* An error, when the request of p was answered by one.
LEMMA RefusalKeeps ==
    ASSUME IInv, NEW p \in Peer, peer[p].item.task, NEW code \in Codes \cup {NoCode},
           Keep(p, Start(p), Answered(p))
    PROVE  Keep(p, Start(p), JtError(Answered(p), code))
<1> DEFINE w == Answered(p)
           k == w.m.item
           j == RefusedItem(peer[p].item, code)
           v == With(w, j)
           y == JtError(w, code)
<1>1. w \in XState /\ k \in Item /\ k = AnsweredItem(peer[p].item)
  BY AnsweredIs
<1>2. v = [w EXCEPT !.m.item = [@ EXCEPT !.remoteFailed = TRUE, !.statusCode = code]]
  BY RefusedIs DEF Refused
<1>3. /\ j \in Item /\ j.proxy = k.proxy /\ j.inHosts = k.inHosts /\ j.state = k.state
      /\ j.task = k.task /\ j.connSuccess = k.connSuccess /\ j.client = k.client
  <2>1. j = [k EXCEPT !.remoteFailed = TRUE, !.statusCode = code]
    BY <1>1 DEF RefusedItem
  <2> HIDE DEF j
  <2> QED BY <1>1, <2>1, ZenonT(30) DEF Item
<1> HIDE DEF w, j
<1>4. Keep(p, w, v) /\ v \in XState /\ v.m.item = j
  BY <1>1, <1>3, WithKeeps
<1>5. Owned(v.m.item.inHosts, Other(p))
  <2>1. HostsOK(p, w.m)
    BY AnsweredIs DEF w
  <2> QED BY <1>3, <1>4, <2>1 DEF HostsOK
<1>6. y \in {v, DoIncoming(v), CheckForActivation(v), CheckFailure(v)}
  <2>1. v.m.item.lateProxy \in BOOLEAN /\ v.m.item.connSuccess \in BOOLEAN
    BY <1>4, XFields DEF Item
  <2> HIDE DEF v
  <2>2. y = CASE v.m.item.lateProxy -> IF v.m.item.conn = {} THEN DoIncoming(v) ELSE v
              [] ~v.m.item.lateProxy /\ v.m.item.connSuccess -> CheckForActivation(v)
              [] ~v.m.item.lateProxy /\ ~v.m.item.connSuccess -> CheckFailure(v)
    BY Zenon, <1>2 DEF JtError
  <2> HIDE DEF y
  <2> QED BY <2>1, <2>2
<1> HIDE DEF v, y
<1>7. Keep(p, v, y)
  BY <1>4, <1>5, <1>6, FinishKeeps, IncomingKeeps, CheckKeeps, FailureKeeps
<1>8. Keep(p, w, y)
  BY <1>4, <1>7, KeepOn
<1> QED BY <1>8, KeepOn DEF w, y

\* Leaving because of the connection used.
LEMMA WrongHostHonest ==
    ASSUME NEW p \in Peer, NEW u, hist.early \in BOOLEAN, hist.early, Honest(p, u, {})
    PROVE  Honest(p, Gone(u, "wrongHost"), {})
<1> DEFINE y == Gone(u, "wrongHost")
<1>1. u \in XState /\ "wrongHost" \in Ended \ {"none"}
  BY DEF Honest, Ended
<1>2. /\ y \in XState /\ y.m.con = "Idle" /\ y.m.entry = "none" /\ y.m.item = NewItem
      /\ y.m.ended = "wrongHost" /\ y.m.req = u.m.req
      /\ y.out = u.out /\ y.early = u.early
      /\ y.m.end[Direct(p)] = "none" <=> u.m.end[Direct(p)] = "none"
  BY <1>1, GoneIs, GoneKeeps
<1> HIDE DEF y
<1>3. Sent(y) = Sent(u) /\ ~MayAsk(p, y.m) /\ y.m.item.inHosts = {} /\ ~y.m.item.task
  BY <1>2 DEF Sent, MayAsk, NewItem
<1>4. Sighted(p, y.m, hist.early \/ y.early)
  BY <1>2, <1>3 DEF Sighted
<1>5. Honest(p, y, {})
  BY <1>2, <1>3, <1>4 DEF Honest
<1> QED BY <1>5 DEF y

\* The answer to the client's own request, and any other response.
LEMMA ResponseSees ==
    ASSUME IInv, IInv', SightInv, NEW p \in Peer, net[p] # <<>>,
           Head(net[p]).type \in {"result", "error"}, Response(p, Head(net[p]))
    PROVE  Sees(p)
<1> DEFINE z == Head(net[p])
           x == Start(p)
           i == peer[p].item
           w == Answered(p)
<1>0. x \in XState /\ x.m = peer[p] /\ Honest(p, x, {}) /\ Keep(p, x, x) /\ hist.early \in BOOLEAN
  <2>1. x \in XState /\ x.m = peer[p] /\ Honest(p, x, {}) /\ hist.early \in BOOLEAN
    BY StartIs, StartHonest DEF IInv, TypeOK, History
  <2> QED BY <2>1, FinishKeeps
<1>1. CASE ~(i.task /\ z.id = i.outId)
  <2>1. Commit(p, x, Popped(p))
    BY <1>1 DEF Response
  <2> QED BY <1>0, <2>1, OwnSees
<1>2. CASE i.task /\ z.id = i.outId
  <2>1. Commit(p, JtFinished(p, x, z), Popped(p))
    BY <1>2 DEF Response
  <2>2. z \in Stanza /\ SightOK(p)
    BY DEF IInv, TypeOK, SightInv
  <2>3. z.code \in Codes \cup {NoCode} /\ z.used \in Stream \cup {NoStream}
    BY <2>2 DEF Stanza
  <2>4. /\ i \in Item /\ peer[p].entry = "item"
        /\ p = Ini => i.state = "Initiator"
        /\ i.state = "Active" => p = Tgt
    BY <1>2, TaskWas
  <2>5. w \in XState /\ w.m.item = AnsweredItem(i) /\ w.m.item \in Item /\ ~w.m.item.task
    BY <1>2, AnsweredIs
  <2>6. w.m.item.proxy = i.proxy /\ w.m.item.inHosts = i.inHosts /\ w.m.item.state = i.state
        /\ w.m.item.connSuccess = i.connSuccess /\ w.m.item.client = i.client
    BY <1>2, <2>5, TaskWas
  <2>7. Keep(p, x, w)
    <3>1. w = With(x, AnsweredItem(i))
      BY DEF Answered
    <3> HIDE DEF x, w
    <3> QED BY <1>0, <2>5, <2>6, <3>1, WithKeeps
  <2>8. CASE i.state = "Initiator" /\ i.connSuccess
    <3>1. JtFinished(p, x, z) = TryActivation(w)
      BY <1>2, <2>8, AnsweredShape
    <3>2. Keep(p, x, TryActivation(w))
      BY <2>5, <2>7, ActivationKeeps, KeepOn
    <3> QED BY <2>1, <3>1, <3>2, OwnSees
  <2>9. CASE ~(i.state = "Initiator" /\ i.connSuccess) /\ z.type = "error"
    <3>1. JtFinished(p, x, z) = JtError(w, z.code)
      <4>1. z.type # "result"
        BY <2>9
      <4> QED BY <1>2, <2>9, <4>1, AnsweredShape
    <3>2. Keep(p, x, JtError(w, z.code))
      BY <1>2, <2>3, <2>7, RefusalKeeps
    <3> QED BY <2>1, <3>1, <3>2, OwnSees
  <2>10. CASE ~(i.state = "Initiator" /\ i.connSuccess) /\ z.type = "result"
    <3> DEFINE u == Stop(w)
               y == JtSuccess(p, w, z.used)
    <3>1. JtFinished(p, x, z) = y
      <4>1. z.type # "error"
        BY <2>10
      <4> QED BY <1>2, <2>10, <4>1, AnsweredShape
    <3>2. Told(p, z.used)
      <4>1. z.used \in Uses(net[p])
        <5>1. net[p] \in Seq(Stanza)
          BY DEF IInv, TypeOK
        <5> QED BY <2>10, <5>1, OffersIs
      <4> QED BY <2>2, <4>1 DEF SightOK, Results, Uses
    <3>3. z.used \in Stream /\ z.used.owner = p
      BY <3>2 DEF Told
    <3>4. CASE Keep(p, w, y)
      <4>1. Keep(p, x, y)
        BY <2>7, <3>4, KeepOn
      <4> QED BY <2>1, <3>1, <4>1, OwnSees
    <3>5. CASE /\ y = Gone(u, "wrongHost") /\ u.m.entry = "item"
               /\ \/ z.used = Direct(p) /\ u.m.item.client = NoStream
                  \/ z.used = Proxy(p) /\ ~u.m.item.proxy
      <4>1. Keep(p, w, u) /\ u.m.item.client = w.m.item.client
        BY <2>5, <3>5, StopKeeps
      <4>2. u.m.item.proxy = i.proxy
        BY <2>6, <3>5, <4>1 DEF Keep
      <4>3. hist.early
        <5>1. CASE z.used = Direct(p) /\ u.m.item.client = NoStream
          <6>1. peer[p].end[Direct(p)] # "none" /\ i.client = NoStream
            BY <2>6, <3>2, <4>1, <5>1 DEF Told
          <6>2. NoStream # Direct(p)
            BY StreamFacts
          <6>3. i.state = "Active" => p = Tgt /\ i.task
            BY <1>2, <2>4
          <6>4. p = Ini => ~i.connSuccess
            BY <2>4, <2>10
          <6> QED BY <1>2, <2>2, <6>1, <6>2, <6>3, <6>4 DEF SightOK, Sighted
        <5>2. CASE z.used = Proxy(p) /\ ~u.m.item.proxy
          BY <2>4, <3>2, <4>2, <5>2 DEF Told, Offering
        <5> QED BY <3>5, <5>1, <5>2
      <4>4. PlaceOK(p, u.m)
        <5>1. Local(p, u.m)
          BY <1>2, StopIs
        <5> QED BY <5>1 DEF Local
      <4>5. Keep(p, x, u)
        BY <2>7, <4>1, KeepOn
      <4>6. Honest(p, u, {})
        BY <1>0, <4>4, <4>5, HonestOn
      <4>7. Honest(p, y, {})
        BY <1>0, <3>5, <4>3, <4>6, WrongHostHonest
      <4>8. Commit(p, y, Popped(p))
        BY <2>1, <3>1
      <4> HIDE DEF y
      <4> QED BY <4>7, <4>8 DEF Sees
    <3>6. \/ Keep(p, w, y)
          \/ /\ y = Gone(u, "wrongHost") /\ u.m.entry = "item"
             /\ \/ z.used = Direct(p) /\ u.m.item.client = NoStream
                \/ z.used = Proxy(p) /\ ~u.m.item.proxy
      BY <2>5, <3>3, SuccessKeeps
    <3> QED BY <3>4, <3>5, <3>6
  <2> QED BY <2>8, <2>9, <2>10
<1> QED BY <1>1, <1>2

\* What the servers deliver.
LEMMA DeliverSees ==
    ASSUME IInv, IInv', SightInv, NEW p \in Peer, Deliver(p)
    PROVE  Sees(p)
  BY PsIncomingSees, ResponseSees DEF Deliver

\* Giving up on hosts, with what follows.
LEMMA TriesSees ==
    ASSUME IInv, IInv', SightInv, NEW p \in Peer, NEW S \in SUBSET Stream,
           Commit(p, Tries(p, S), net)
    PROVE  Sees(p)
<1> DEFINE x == Start(p)
           v == Undialled(x, S)
<1>1. x \in XState /\ x.m = peer[p] /\ HostsOK(p, peer[p])
  BY StartIs DEF Local
<1>2. Keep(p, x, v) /\ v \in XState
  BY <1>1, UndialledKeeps DEF Keep
<1>3. Owned(v.m.item.inHosts, Other(p))
  <2>1. v.m.item.inHosts = x.m.item.inHosts
    BY <1>1, UndialledKeeps
  <2> HIDE DEF v, x
  <2> QED BY <1>1, <2>1 DEF HostsOK, Owned
<1>4. Tries(p, S) \in {v, ConnFailure(v)}
  BY DEF Tries
<1> HIDE DEF v
<1>5. Keep(p, v, ConnFailure(v))
  BY <1>2, <1>3, ConnFailureKeeps
<1>6. Keep(p, x, Tries(p, S))
  BY <1>2, <1>4, <1>5, KeepOn
<1> QED BY <1>6, OwnSees

\* The connector gives up on a host, or on all of them.
LEMMA GivesUpSees ==
    ASSUME IInv, IInv', SightInv, NEW p \in Peer,
           (\E s \in Stream : HostFails(p, s)) \/ ConnectorTimeout(p)
    PROVE  Sees(p)
<1>1. ASSUME NEW s \in Stream, HostFails(p, s)
      PROVE  Sees(p)
  <2>1. Commit(p, Tries(p, {s}), net) /\ {s} \in SUBSET Stream
    BY <1>1, HostFailsTries
  <2> QED BY <2>1, TriesSees
<1>2. CASE ConnectorTimeout(p)
  BY <1>2, ConnectorTimeoutTries, TriesSees
<1> QED BY <1>1, <1>2

\* A connection that opens for the item.
LEMMA OpenedEarly ==
    ASSUME NEW x \in XState, NEW s, NEW j
    PROVE  Opened(x, s, j).early = x.early
  BY DEF Opened, XState

\* The connection to the own proxy.
LEMMA ProxyResultSees ==
    ASSUME IInv, IInv', SightInv, NEW p \in Peer, ProxyResult(p)
    PROVE  Sees(p)
<1> DEFINE z == Start(p)
           i == peer[p].item
           s == Proxy(p)
           k == [i EXCEPT !.proxyConn = FALSE]
           x == With(z, k)
           j == [k EXCEPT !.client = s, !.proxyTask = "sent"]
           y == Opened(x, s, j)
<1>0. /\ s \in Stream /\ Direct(p) \in Stream /\ s # Direct(p)
      /\ "proxy" \in Ended \ {"none", "wrongHost"}
  BY StreamFacts DEF Ended, Direct, Proxy
<1>1. z \in XState /\ z.m = peer[p]
  BY StartIs
<1>2. i \in Item /\ ~i.task
  <2>1. ByProxy(i)
    BY DEF ProxyResult, ByProxy
  <2> QED BY <2>1, ByProxyFacts
<1>3. Commit(p, y, net) \/ Commit(p, Fail(x, "proxy"), net)
  BY Zenon, ProxyResultIs
<1>4. /\ k \in Item /\ k.proxy = i.proxy /\ k.inHosts = i.inHosts /\ k.state = i.state
      /\ k.task = i.task /\ k.connSuccess = i.connSuccess /\ k.client = i.client
  BY <1>2 DEF Item
<1>5. /\ j \in Item /\ j.proxy = k.proxy /\ j.inHosts = k.inHosts /\ j.state = k.state
      /\ j.task = k.task /\ j.connSuccess = k.connSuccess
  <2> HIDE DEF k, s
  <2>1. s \in Stream \cup {NoStream}
    BY <1>0
  <2> QED BY <1>4, <2>1 DEF Item
<1> HIDE DEF z, k, j, s
<1>6. Keep(p, z, x) /\ x \in XState /\ x.m.item = k
  BY <1>1, <1>4, WithKeeps
<1> HIDE DEF x
<1>7. Keep(p, x, y)
  <2>1. /\ y \in XState /\ y.m.item = j /\ SameConnection(x.m, y.m) /\ SameRest(x, y)
        /\ y.m.end[Direct(p)] = x.m.end[Direct(p)] /\ y.early = x.early
    BY <1>0, <1>5, <1>6, OpenedIs, OpenedEarly
  <2> HIDE DEF y
  <2> QED BY <1>2, <1>4, <1>5, <1>6, <2>1, KeepSame DEF SameRest, SameConnection
<1>8. Keep(p, x, Fail(x, "proxy"))
  BY <1>0, <1>6, GoneKeeps DEF Fail
<1>9. Keep(p, z, y) /\ Keep(p, z, Fail(x, "proxy"))
  BY <1>6, <1>7, <1>8, KeepOn
<1> QED BY <1>3, <1>9, OwnSees DEF z

\* The query of the proxy goes on.
LEMMA QueryKeeps ==
    ASSUME IInv, NEW p \in Peer, NEW sent \in {"none", "activated"}
    PROVE  LET y == [Start(p) EXCEPT !.m.item.proxyTask = sent]
           IN  Keep(p, Start(p), y) /\ y \in XState
<1> DEFINE x == Start(p)
           j == [x.m.item EXCEPT !.proxyTask = sent]
           y == [x EXCEPT !.m.item.proxyTask = sent]
<1>1. x \in XState /\ x.m.item \in Item
  BY StartIs, XFields
<1>2. y = With(x, j)
  BY <1>1 DEF With, XState, PeerState
<1> HIDE DEF x
<1>3. /\ j \in Item /\ j.proxy = x.m.item.proxy /\ j.inHosts = x.m.item.inHosts
      /\ j.state = x.m.item.state /\ j.task = x.m.item.task
      /\ j.connSuccess = x.m.item.connSuccess /\ j.client = x.m.item.client
  BY <1>1 DEF Item
<1> HIDE DEF j, y
<1>4. Keep(p, x, y) /\ y \in XState
  BY <1>1, <1>2, <1>3, WithKeeps
<1> QED BY <1>4 DEF x, y

\* The proxy's activation and its answer, and the CR that is written.
LEMMA ProxyActivatesSees ==
    ASSUME IInv, IInv', SightInv, NEW p \in Peer, ProxyActivates(p)
    PROVE  Sees(p)
<1>1. Commit(p, [Start(p) EXCEPT !.m.item.proxyTask = "activated"], net)
  BY DEF ProxyActivates
<1> QED BY <1>1, QueryKeeps, OwnSees

LEMMA ProxyFinishedSees ==
    ASSUME IInv, IInv', SightInv, NEW p \in Peer, ProxyFinished(p)
    PROVE  Sees(p)
<1> DEFINE x == [Start(p) EXCEPT !.m.item.proxyTask = "none"]
<1>1. \/ Commit(p, Fail(x, "proxy"), net)
      \/ Commit(p, IF x.m.item.state = "Initiator" THEN TryActivation(x)
                   ELSE CheckForActivation(x), net)
  BY Zenon, ProxyFinishedIs
<1>2. Keep(p, Start(p), x) /\ x \in XState
  BY QueryKeeps
<1> HIDE DEF x
<1>3. "proxy" \in Ended \ {"none", "wrongHost"}
  BY DEF Ended
<1>4. /\ Keep(p, x, Fail(x, "proxy")) /\ Keep(p, x, TryActivation(x))
      /\ Keep(p, x, CheckForActivation(x))
  BY <1>2, <1>3, GoneKeeps, ActivationKeeps, CheckKeeps DEF Fail
<1>5. /\ Keep(p, Start(p), Fail(x, "proxy")) /\ Keep(p, Start(p), TryActivation(x))
      /\ Keep(p, Start(p), CheckForActivation(x))
  BY <1>2, <1>4, KeepOn
<1> QED BY <1>1, <1>5, OwnSees

LEMMA BytesWrittenSees ==
    ASSUME IInv, IInv', SightInv, NEW p \in Peer, BytesWritten(p)
    PROVE  Sees(p)
<1>1. Commit(p, Finished(Start(p)), net)
  BY DEF BytesWritten
<1>2. Start(p) \in XState
  BY StartIs
<1>3. Keep(p, Start(p), Finished(Start(p)))
  BY <1>2, FinishKeeps
<1> QED BY <1>1, <1>3, OwnSees

\* The CR that arrives.
LEMMA CRArrivesSees ==
    ASSUME IInv, IInv', SightInv, NEW s \in Stream, CRArrives(s)
    PROVE  Sees(Tgt)
<1> DEFINE x == Start(Tgt)
           v == [x EXCEPT !.crs = [cr EXCEPT ![s] = "arrived"]]
<1>0. Tgt \in Peer
  BY DEF Peer
<1>1. x \in XState /\ cr \in [Stream -> CRs]
  BY <1>0, StartIs DEF IInv, TypeOK, CRs
<1>2. Commit(Tgt, CheckForActivation(v), net) \/ Commit(Tgt, v, net)
  BY Zenon, CRArrivesIs
<1>3. v \in XState /\ v.m = x.m /\ v.out = x.out /\ v.early = x.early
  BY <1>1 DEF XState, CRs
<1> HIDE DEF v
<1>4. Keep(Tgt, x, v)
  BY <1>0, <1>1, <1>3, KeepSame
<1>5. Keep(Tgt, x, CheckForActivation(v))
  BY <1>0, <1>3, <1>4, CheckKeeps, KeepOn
<1> QED BY <1>0, <1>2, <1>4, <1>5, OwnSees DEF x

\* A connection that the S5BServer of p takes for the item.
LEMMA IncomingSees ==
    ASSUME IInv, IInv', SightInv, NEW p \in Peer, Incoming(p)
    PROVE  Sees(p)
<1> DEFINE x == Start(p)
           m == peer[p]
           i == m.item
           s == Direct(p)
           j == [i EXCEPT !.client = s, !.allowIncoming = FALSE]
           y == Opened(x, s, j)
<1>0. s \in Stream
  BY StreamFacts
<1>1. /\ x \in XState /\ x.m = m /\ x.out = <<>> /\ i \in Item /\ PlaceOK(p, m)
      /\ SightOK(p) /\ hist.early \in BOOLEAN
  BY StartIs, XFields DEF Local, SightInv, IInv, TypeOK, History
<1>2. m.entry = "item" /\ Commit(p, y, net)
  BY Zenon DEF Incoming, Opened
<1>3. /\ j \in Item /\ j.proxy = i.proxy /\ j.inHosts = i.inHosts /\ j.state = i.state
      /\ j.task = i.task /\ j.client = s
  BY <1>0, <1>1 DEF Item
<1> HIDE DEF x, j
<1>4. /\ y \in XState /\ y.m.item = j /\ SameConnection(m, y.m) /\ y.out = <<>>
      /\ y.m.end[s] = "open"
  BY <1>0, <1>1, <1>3, OpenedIs DEF SameRest
<1> HIDE DEF y
<1>5. Sent(y) = {} /\ ~MayAsk(p, y.m)
  BY <1>1, <1>2, <1>4 DEF Sent, MayAsk, PlaceOK, SameConnection
<1>6. Sighted(p, y.m, hist.early \/ y.early)
  BY <1>1, <1>3, <1>4, <1>5 DEF SightOK, Sighted, SameConnection
<1>7. Honest(p, y, {})
  BY <1>2, <1>3, <1>4, <1>5, <1>6 DEF Honest, SameConnection
<1> QED BY <1>2, <1>7 DEF Sees, y

\* A host of the other client that is reached: p tells that it has used it.
LEMMA ReachedHonest ==
    ASSUME IInv, SightInv, NEW p \in Peer, NEW s \in peer[p].item.conn,
           IsProxy(s) \/ peer[Other(p)].end[s] # "none"
    PROVE  Honest(p, Reached(Start(p), s), {})
<1> DEFINE m == peer[p]
           i == m.item
           y == Reached(Start(p), s)
           j == y.m.item
           z == RespondSuccess(Other(p), s)
<1>0. Direct(p) \in Stream /\ Direct(p).owner = p /\ Other(p) # p
  BY StreamFacts DEF Direct
<1>1. /\ m \in PeerState /\ PlaceOK(p, m) /\ HostsOK(p, m) /\ SightOK(p) /\ hist.early \in BOOLEAN
  BY StartIs DEF Local, SightInv, IInv, TypeOK, History
<1>2. /\ y \in XState /\ SameConnection(m, y.m) /\ y.out = <<z>>
      /\ \A t \in Stream : t # s /\ t \notin i.conn => y.m.end[t] = m.end[t]
  BY ReachedIs
<1>3. /\ m.entry = "item" /\ j.connSuccess /\ j.state = i.state /\ j.inHosts = i.inHosts
      /\ j.task = i.task /\ j.client = i.client /\ j.proxy = i.proxy
  BY ReachedFacts
<1> HIDE DEF y
<1>4. s \in i.inHosts /\ y.m.end[Direct(p)] = m.end[Direct(p)]
  <2>1. s \in i.inHosts /\ s # Direct(p) /\ Direct(p) \notin i.conn
    BY <1>0, <1>1 DEF HostsOK, Owned
  <2> QED BY <1>0, <1>2, <2>1
<1>5. z.type = "result" /\ z.used = s
  BY DEF RespondSuccess
<1> HIDE DEF z
<1>6. Sent(y) = {z}
  <2>1. DOMAIN <<z>> = {1} /\ <<z>>[1] = z
    OBVIOUS
  <2> QED BY <1>2, <2>1 DEF Sent
<1>7. ~MayAsk(p, y.m)
  BY <1>1, <1>2, <1>3 DEF MayAsk, PlaceOK, SameConnection
<1>8. Sighted(p, y.m, hist.early \/ y.early)
  BY <1>1, <1>2, <1>3, <1>4, <1>7 DEF SightOK, Sighted, SameConnection
<1>9. Honest(p, y, {})
  BY <1>2, <1>3, <1>4, <1>5, <1>6, <1>7, <1>8 DEF Honest, SameConnection, IsRequest
<1> QED BY <1>9 DEF y

\* The initiator takes it in place of the one it had.
LEMMA InitiatorReached ==
    ASSUME IInv, SightInv, NEW s \in peer[Ini].item.conn,
           IsProxy(s) \/ peer[Other(Ini)].end[s] # "none"
    PROVE  LET y == Reached(Start(Ini), s)
               v == [Drop(y, peer[Ini].item.client) EXCEPT !.m.item =
                       [@ EXCEPT !.client = s, !.allowIncoming = FALSE]]
           IN  Honest(Ini, v, {})
<1> DEFINE m == peer[Ini]
           i == m.item
           y == Reached(Start(Ini), s)
           j == y.m.item
           d == Drop(y, i.client)
           k == [j EXCEPT !.client = s, !.allowIncoming = FALSE]
           v == With(d, k)
<1>0. Ini \in Peer /\ Ini # Tgt
  BY StreamFacts DEF Peer
<1>1. Honest(Ini, y, {}) /\ y \in XState /\ i.client \in Stream \cup {NoStream}
  <2>1. Honest(Ini, y, {})
    BY <1>0, ReachedHonest
  <2>2. y \in XState
    <3> HIDE DEF y
    <3> QED BY <2>1 DEF Honest
  <2>3. i.client \in Stream \cup {NoStream}
    <3> DEFINE x == Start(Ini)
    <3>1. x \in XState /\ x.m = m
      BY <1>0, StartIs
    <3> HIDE DEF x, m
    <3>2. x.m.item.client \in Stream \cup {NoStream}
      BY <3>1, XFields
    <3> QED BY <3>1, <3>2
  <2> QED BY <2>1, <2>2, <2>3
<1>2. /\ s \in Stream /\ j \in Item /\ j.connSuccess
  BY <1>0, ReachedFacts
<1>3. /\ k \in Item /\ k.proxy = j.proxy /\ k.inHosts = j.inHosts /\ k.state = j.state
      /\ k.task = j.task /\ k.connSuccess = j.connSuccess
  BY <1>2 DEF Item
<1> HIDE DEF y, k
<1>4. /\ d \in XState /\ d.m.item = j /\ SameConnection(y.m, d.m) /\ d.out = y.out
      /\ d.early = y.early /\ (d.m.end[Direct(Ini)] = "none" <=> y.m.end[Direct(Ini)] = "none")
  <2> DEFINE n == [y.m EXCEPT !.end = Closing(y.m.end, {i.client})]
  <2>1. /\ n.item = j /\ SameConnection(y.m, n) /\ d \in XState /\ d.m = n /\ SameRest(y, d)
        /\ d.early = y.early
    BY <1>1, DropIs
  <2>2. Keep(Ini, y, d)
    BY <1>0, <1>1, DropKeeps
  <2> HIDE DEF n, d
  <2> QED BY <2>1, <2>2 DEF Keep, SameRest
<1>5. [d EXCEPT !.m.item = [@ EXCEPT !.client = s, !.allowIncoming = FALSE]] = v
  BY Zenon, <1>4 DEF With, k
<1> HIDE DEF d
<1>6. /\ v \in XState /\ v.m.item = k /\ v.m.end = d.m.end /\ SameConnection(d.m, v.m)
      /\ v.out = d.out
  BY <1>3, <1>4, WithIs DEF SameRest
<1> HIDE DEF v
<1>7. Sent(v) = Sent(y) /\ (MayAsk(Ini, v.m) <=> MayAsk(Ini, y.m))
  BY <1>4, <1>6 DEF Sent, MayAsk, SameConnection
<1>8. v.early = y.early
  BY <1>4 DEF v, With, XState
<1>9. Sighted(Ini, v.m, hist.early \/ v.early)
  BY <1>0, <1>1, <1>2, <1>3, <1>4, <1>6, <1>7, <1>8 DEF Honest, Sighted, SameConnection
<1>10. Honest(Ini, v, {})
  BY <1>1, <1>3, <1>4, <1>6, <1>7, <1>9 DEF Honest, SameConnection
<1> QED BY <1>5, <1>10 DEF y, d

\* The connector reaches a host.
LEMMA HostConnectedSees ==
    ASSUME IInv, IInv', SightInv, NEW p \in Peer, NEW s \in Stream, HostConnected(p, s)
    PROVE  Sees(p)
<1> DEFINE x == Start(p)
           y == Reached(x, s)
           v == [Drop(y, x.m.item.client) EXCEPT !.m.item =
                   [@ EXCEPT !.client = s, !.allowIncoming = FALSE]]
           w == [y EXCEPT !.m.item.clientOut = s]
           k == [y.m.item EXCEPT !.clientOut = s]
<1>1. /\ s \in peer[p].item.conn /\ (IsProxy(s) \/ peer[Other(p)].end[s] # "none")
      /\ Commit(p, ConnSuccess(x, s), net)
  BY Zenon DEF HostConnected
<1>2. x.m = peer[p]
  BY StartIs
<1>3. peer[p].item.state = (IF p = Ini THEN "Initiator" ELSE "Target") /\ y.m.item \in Item
  BY <1>1, ReachedFacts
<1>4. Honest(p, y, {}) /\ y \in XState
  BY <1>1, ReachedHonest DEF Honest
<1>5. ConnSuccess(x, s) = IF x.m.item.state = "Initiator" THEN TryActivation(v)
                          ELSE CheckForActivation(w)
  BY Zenon, ConnSuccessShape
<1>6. CASE p = Ini
  <2>1. Honest(p, v, {})
    BY <1>1, <1>2, <1>6, InitiatorReached
  <2> HIDE DEF v, w, x, y
  <2>2. v \in XState /\ Keep(p, v, TryActivation(v))
    BY <2>1, ActivationKeeps DEF Honest
  <2>3. Commit(p, TryActivation(v), net)
    BY <1>1, <1>2, <1>3, <1>5, <1>6
  <2> QED BY <2>1, <2>2, <2>3, KeepSees
<1>7. CASE p # Ini
  <2>1. /\ k \in Item /\ k.proxy = y.m.item.proxy /\ k.inHosts = y.m.item.inHosts
        /\ k.state = y.m.item.state /\ k.task = y.m.item.task
        /\ k.connSuccess = y.m.item.connSuccess /\ k.client = y.m.item.client
    <3> HIDE DEF y
    <3> QED BY <1>3 DEF Item
  <2> HIDE DEF x, y
  <2>2. w = With(y, k)
    BY <1>4 DEF With, XState, PeerState
  <2> HIDE DEF k
  <2>3. Keep(p, y, w) /\ w \in XState
    BY <1>4, <2>1, <2>2, WithKeeps
  <2> HIDE DEF v, w
  <2>4. Keep(p, y, CheckForActivation(w))
    BY <1>4, <2>3, CheckKeeps, KeepOn
  <2>5. Commit(p, CheckForActivation(w), net)
    BY <1>1, <1>2, <1>3, <1>5, <1>7
  <2> QED BY <1>4, <2>4, <2>5, KeepSees
<1> QED BY <1>6, <1>7

\* A fresh item, whose client has sent its request or nothing.
LEMMA FreshHonest ==
    ASSUME IInv, SightInv, NEW p \in Peer, MayAsk(p, peer[p]), NEW y \in XState,
           y.m.entry = "item", y.m.ended = "none", y.m.con \in {"Requesting", "Connecting"},
           y.m.item.state \in {"Initiator", "Target"}, p = Tgt => y.m.role = "Target",
           y.m.end = peer[p].end, y.m.req = peer[p].req,
           y.m.item.inHosts \subseteq peer[p].req.hosts,
           \/ y.out = <<>>
           \/ \E hosts, fast : /\ y.out = <<Request(p, hosts, fast)>>
                               /\ Proxy(p) \in hosts => y.m.item.proxy
    PROVE  Honest(p, y, {})
<1>1. SightOK(p) /\ hist.early \in BOOLEAN
  BY DEF SightInv, IInv, TypeOK, History
<1>2. y.m.end[Direct(p)] = "none" /\ ~MayAsk(p, y.m)
  BY <1>1 DEF SightOK, Sighted, MayAsk
<1>3. \A z \in Sent(y) :
         IsRequest(z) /\ (Proxy(p) \in z.hosts => y.m.item.proxy) /\ z.type # "result"
  <2>1. CASE y.out = <<>>
    BY <2>1 DEF Sent
  <2>2. ASSUME NEW hosts, NEW fast, y.out = <<Request(p, hosts, fast)>>,
               Proxy(p) \in hosts => y.m.item.proxy
        PROVE  \A z \in Sent(y) :
                 IsRequest(z) /\ (Proxy(p) \in z.hosts => y.m.item.proxy) /\ z.type # "result"
    <3> DEFINE r == Request(p, hosts, fast)
    <3>1. r.type = "request" /\ r.hosts = hosts
      BY DEF Request
    <3> HIDE DEF r
    <3>2. DOMAIN <<r>> = {1} /\ <<r>>[1] = r
      OBVIOUS
    <3>3. y.out = <<r>>
      BY <2>2 DEF r
    <3>4. Sent(y) = {r}
      BY <3>2, <3>3 DEF Sent
    <3> QED BY <2>2, <3>1, <3>4 DEF IsRequest
  <2> QED BY <2>1, <2>2
<1>4. Sighted(p, y.m, hist.early \/ y.early)
  BY <1>2 DEF Sighted
<1> QED BY <1>2, <1>3, <1>4 DEF Honest

\* entryContinue().
LEMMA EntrySees ==
    ASSUME IInv, IInv', SightInv, NEW p \in Peer, NEW x \in XState, Starting(p, x.m),
           x.out = <<>>, x.m.end = peer[p].end, x.m.req = peer[p].req, NEW b \in BOOLEAN,
           MayAsk(p, peer[p]), Commit(p, EntryContinue(p, x, b), net)
    PROVE  Sees(p)
<1> DEFINE y == [x EXCEPT !.m.entry = "item", !.m.item = [NewItem EXCEPT !.proxy = b]]
<1>1. EntryContinue(p, x, b) = IF p = Ini THEN StartInitiator(p, y) ELSE StartTarget(p, y)
  BY Zenon DEF EntryContinue
<1>2. /\ y \in XState /\ SameRest(x, y)
      /\ y.m.item = [NewItem EXCEPT !.proxy = b] /\ y.m.entry = "item"
      /\ y.m.con = x.m.con /\ y.m.sc = x.m.sc /\ y.m.end = x.m.end
      /\ y.m.ended = x.m.ended /\ y.m.req = x.m.req
  BY EntryIs
<1> HIDE DEF y
<1>3. Entered(p, y) /\ y.out = <<>> /\ y.m.end = peer[p].end /\ y.m.req = peer[p].req
  BY <1>2 DEF Entered, Starting, SameRest
<1>4. CASE p = Ini
  <2> DEFINE z == StartInitiator(Ini, y)
  <2>1. /\ z \in XState /\ Local(Ini, z.m) /\ Fresh(z.m, "Initiator")
        /\ z.m.con = y.m.con /\ z.m.end = y.m.end /\ z.m.req = y.m.req
        /\ z.m.item.proxy = y.m.item.proxy /\ z.m.item.inHosts = {}
        /\ \E hosts \in SUBSET Stream :
             /\ Owned(hosts, Ini) /\ z.out = <<Request(Ini, hosts, TRUE)>>
             /\ Proxy(Ini) \in hosts => y.m.item.proxy
    BY <1>2, <1>3, <1>4, StartInitiatorIs
  <2>2. Commit(p, z, net)
    BY <1>1, <1>4
  <2> HIDE DEF z
  <2>3. z.m.ended = "none" /\ z.m.con \in {"Requesting", "Connecting"}
    BY <1>2, <2>1 DEF Starting, Local, PlaceOK
  <2>4. Honest(p, z, {})
    BY <1>3, <1>4, <2>1, <2>3, FreshHonest, PeerAssumption DEF Fresh
  <2> QED BY <2>2, <2>4 DEF Sees
<1>5. CASE p # Ini
  <2>0. p = Tgt /\ Other(Tgt) = Ini
    BY <1>5, StreamFacts DEF Peer, Other
  <2>1. PICK z \in XState :
           /\ Fresh(z.m, "Target") /\ AskedFirst(z) /\ Offered(Tgt, z)
           /\ z.m.con = y.m.con /\ z.m.end = y.m.end /\ z.m.req = y.m.req
           /\ z.m.item.proxy = y.m.item.proxy /\ z.m.item.inHosts = y.m.req.hosts
           /\ StartTarget(Tgt, y) = DoIncoming(z)
    BY <1>2, <1>3, <2>0, StartTargetIs
  <2>2. z.m.ended = "none" /\ z.m.con \in {"Requesting", "Connecting"}
    BY <1>2, <2>1 DEF Starting, Offered, PlaceOK
  <2>3. Honest(p, z, {})
    <3>1. \/ z.out = <<>>
          \/ \E hosts, fast : /\ z.out = <<Request(p, hosts, fast)>>
                              /\ Proxy(p) \in hosts => z.m.item.proxy
      BY <2>0, <2>1 DEF AskedFirst
    <3> QED BY <1>3, <2>0, <2>1, <2>2, <3>1, FreshHonest DEF Fresh
  <2>4. Owned(z.m.item.inHosts, Other(p))
    BY <1>3, <2>0, <2>1 DEF Entered
  <2>5. Keep(p, z, DoIncoming(z))
    BY <2>4, IncomingKeeps
  <2>6. Commit(p, DoIncoming(z), net)
    BY <1>1, <1>5, <2>0, <2>1
  <2> QED BY <2>3, <2>5, <2>6, KeepSees
<1> QED BY <1>4, <1>5

\* A client that may ask has closed every connection it may have had.
LEMMA StartingIs ==
    ASSUME IInv, NEW p \in Peer, MayAsk(p, peer[p]), NEW con \in {"Requesting", "Connecting"}
    PROVE  LET x == [Start(p) EXCEPT !.m.con = con]
               n == [peer[p] EXCEPT !.con = con]
           IN  /\ x \in XState /\ x.m = n /\ x.out = <<>> /\ Starting(p, x.m)
               /\ n.con = con /\ n.entry = peer[p].entry /\ n.item = NewItem
               /\ n.end = peer[p].end /\ n.req = peer[p].req /\ n.ended = "none"
<1> DEFINE m == peer[p]
           x == [Start(p) EXCEPT !.m.con = con]
           n == [m EXCEPT !.con = con]
<1>1. /\ Start(p) \in XState /\ Start(p).m = m /\ Start(p).out = <<>>
      /\ m \in PeerState /\ Local(p, m) /\ Owned(m.req.hosts, Other(p))
  BY StartIs
<1>2. m.item = NewItem /\ m.con # "Active" /\ m.ended = "none" /\ m.sc = NoStream
  <2>1. m.item = NewItem /\ m.con # "Active" /\ (m.con = "Idle" => m.ended = "none")
    BY <1>1, BeforeAsking
  <2> QED BY <1>1, <2>1 DEF Local, PlaceOK
<1>3. \A s \in Stream : m.end[s] \in {"none", "closed"}
  <2>1. \A s \in Stream : m.end[s] \in {"none", "dialing", "open", "closed"}
    BY <1>1 DEF PeerState
  <2> QED BY <1>1, <1>2, <2>1, StreamFacts DEF Local, SocketsOK, EndsOK, NewItem
<1>4. /\ n \in PeerState /\ n.con = con /\ n.sc = m.sc /\ n.entry = m.entry
      /\ n.item = m.item /\ n.end = m.end /\ n.ended = m.ended /\ n.req = m.req
  BY <1>1 DEF PeerState
<1>5. x = [Start(p) EXCEPT !.m = n]
  BY <1>1 DEF XState
<1> HIDE DEF n, x
<1>6. x \in XState /\ x.m = n /\ x.out = <<>>
  BY <1>1, <1>4, <1>5, PutIs DEF SameRest
<1>7. Starting(p, x.m)
  BY <1>1, <1>2, <1>3, <1>4, <1>6 DEF Starting
<1> QED BY <1>2, <1>4, <1>6, <1>7 DEF n, x

\* A client that begins to ask, by the query of its proxy or at once.
LEMMA BeginSees ==
    ASSUME IInv, IInv', SightInv, NEW p \in Peer, MayAsk(p, peer[p]),
           NEW con \in {"Requesting", "Connecting"},
           LET x == [Start(p) EXCEPT !.m.con = con]
           IN  \/ Commit(p, [x EXCEPT !.m.entry = "query"], net)
               \/ Commit(p, EntryContinue(p, x, FALSE), net)
    PROVE  Sees(p)
<1> DEFINE m == peer[p]
           x == [Start(p) EXCEPT !.m.con = con]
           n == [m EXCEPT !.con = con]
           o == [n EXCEPT !.entry = "query"]
           y == [x EXCEPT !.m.entry = "query"]
<1>1. /\ x \in XState /\ x.m = n /\ x.out = <<>> /\ Starting(p, x.m)
      /\ n.con = con /\ n.entry = m.entry /\ n.item = NewItem
      /\ n.end = m.end /\ n.req = m.req /\ n.ended = "none"
  BY StartingIs
<1>2. Commit(p, y, net) \/ Commit(p, EntryContinue(p, x, FALSE), net)
  OBVIOUS
<1> HIDE DEF x, n
<1>3. CASE Commit(p, EntryContinue(p, x, FALSE), net)
  BY <1>1, <1>3, EntrySees
<1>4. CASE Commit(p, y, net)
  <2>1. n \in PeerState
    BY <1>1, XFields
  <2>2. /\ o \in PeerState /\ o.con = con /\ o.entry = "query" /\ o.item = NewItem
        /\ o.end = m.end /\ o.req = m.req /\ o.ended = "none"
    BY <1>1, <2>1 DEF PeerState
  <2>3. y = [x EXCEPT !.m = o]
    BY <1>1 DEF XState
  <2> HIDE DEF o, y
  <2>4. y \in XState /\ y.m = o /\ y.out = <<>>
    BY <1>1, <2>2, <2>3, PutIs DEF SameRest
  <2>5. SightOK(p) /\ Sent(y) = {}
    BY <2>4 DEF SightInv, Sent
  <2>6. Sighted(p, y.m, hist.early \/ y.early)
    BY <2>2, <2>4, <2>5 DEF SightOK, Sighted, NewItem
  <2>7. Honest(p, y, {})
    BY <2>2, <2>4, <2>5, <2>6 DEF Honest, NewItem
  <2> QED BY <1>4, <2>7 DEF Sees
<1> QED BY <1>2, <1>3, <1>4

\* connectToJid(), accept(), and the end of the query of a proxy.
LEMMA ConnectToJidSees ==
    ASSUME IInv, IInv', SightInv, ConnectToJid
    PROVE  Sees(Ini)
<1> DEFINE x == [Start(Ini) EXCEPT !.m.con = "Requesting"]
<1>1. Ini \in Peer /\ MayAsk(Ini, peer[Ini])
  BY DEF ConnectToJid, MayAsk, Peer
<1>2. \/ Commit(Ini, [x EXCEPT !.m.entry = "query"], net)
      \/ Commit(Ini, EntryContinue(Ini, x, FALSE), net)
  <2>1. Commit(Ini, IF Ini \in hasProxy THEN [x EXCEPT !.m.entry = "query"]
                    ELSE EntryContinue(Ini, x, FALSE), net)
    BY Zenon DEF ConnectToJid
  <2> HIDE DEF x
  <2> QED BY <2>1
<1> QED BY <1>1, <1>2, BeginSees

LEMMA AcceptSees ==
    ASSUME IInv, IInv', SightInv, Accept(Tgt)
    PROVE  Sees(Tgt)
<1> DEFINE x == [Start(Tgt) EXCEPT !.m.con = "Connecting"]
<1>1. Tgt \in Peer /\ MayAsk(Tgt, peer[Tgt])
  BY DEF Accept, MayAsk, Peer
<1>2. \/ Commit(Tgt, [x EXCEPT !.m.entry = "query"], net)
      \/ Commit(Tgt, EntryContinue(Tgt, x, FALSE), net)
  <2>1. Commit(Tgt, IF peer[Tgt].req.fast /\ TargetShouldOfferProxy(Tgt)
                    THEN [x EXCEPT !.m.entry = "query"]
                    ELSE EntryContinue(Tgt, x, FALSE), net)
    BY Zenon DEF Accept
  <2> HIDE DEF x
  <2> QED BY <2>1
<1> QED BY <1>1, <1>2, BeginSees

LEMMA QueryFinishedSees ==
    ASSUME IInv, IInv', SightInv, NEW p \in Peer, QueryFinished(p)
    PROVE  Sees(p)
<1> DEFINE m == peer[p]
           x == Start(p)
<1>1. /\ x \in XState /\ x.m = m /\ x.out = <<>> /\ m \in PeerState /\ PlaceOK(p, m)
  BY StartIs DEF Local
<1>2. m.entry = "query" /\ MayAsk(p, m)
  BY DEF QueryFinished, MayAsk
<1>3. Starting(p, m)
  <2>1. Starting(p, [m EXCEPT !.con = "Requesting"])
    BY <1>2, StartingIs
  <2>2. m.con \in {"Requesting", "Connecting"}
    <3>1. m.item = NewItem /\ m.con # "Idle" /\ m.con # "WaitingForAccept"
      BY <1>1, <1>2 DEF PlaceOK
    <3>2. m.con # "Active"
      BY <1>1, <3>1 DEF PlaceOK, NewItem
    <3> QED BY <1>1, <3>1, <3>2 DEF PeerState
  <2> QED BY <1>1, <2>1, <2>2 DEF Starting, PeerState
<1>4. PICK ok \in BOOLEAN : Commit(p, EntryContinue(p, x, ok), net)
  BY DEF QueryFinished
<1> HIDE DEF x
<1> QED BY <1>1, <1>2, <1>3, <1>4, EntrySees

\* Every action is a step of that kind.
LEMMA NextSees ==
    ASSUME IInv, IInv', SightInv, Next
    PROVE  \E p \in Peer : Sees(p)
<1>0. Ini \in Peer /\ Tgt \in Peer
  BY DEF Peer
<1>1. CASE ConnectToJid \/ Accept(Tgt)
  BY <1>0, <1>1, ConnectToJidSees, AcceptSees
<1>2. ASSUME NEW p \in Peer, Close(p) \/ Deliver(p) \/ Incoming(p) \/ ProxyActivates(p)
      PROVE  Sees(p)
  BY <1>2, CloseSees, DeliverSees, IncomingSees, ProxyActivatesSees
<1>3. ASSUME NEW p \in Peer, ItemEvent(p)
      PROVE  Sees(p)
  BY <1>3, GivesUpSees, HostConnectedSees, QueryFinishedSees, ProxyResultSees,
     ProxyFinishedSees, BytesWrittenSees, CloseSees DEF ItemEvent, Connector
<1>4. ASSUME NEW s \in Stream, CRArrives(s)
      PROVE  Sees(Tgt)
  BY <1>4, CRArrivesSees
<1>5. ASSUME NEW p \in Peer, NEW s \in Stream, Breaks(p, s)
      PROVE  Sees(p)
  BY <1>5, BreaksSees
<1> QED BY <1>0, <1>1, <1>2, <1>3, <1>4, <1>5 DEF Next

\* No client is told of what it cannot see, at the start and after every step.
LEMMA InitSight ==
    ASSUME Init
    PROVE  SightInv
<1> SUFFICES ASSUME NEW p \in Peer
             PROVE  SightOK(p)
  BY DEF SightInv
<1>1. /\ peer[p] = NewPeer /\ peer[Other(p)] = NewPeer /\ net[p] = <<>> /\ net[Other(p)] = <<>>
      /\ Direct(p) \in Stream
  BY StreamFacts DEF Init
<1>2. /\ NewPeer.item = NewItem /\ NewPeer.ended = "none" /\ NewPeer.entry = "none"
      /\ NewPeer.req.hosts = {} /\ NewPeer.end[Direct(p)] = "none"
      /\ ~NewItem.task /\ NewItem.inHosts = {} /\ NewItem.state = "Idle"
  BY <1>1 DEF NewPeer, NewItem
<1>3. Hosts(Other(p)) = {} /\ Results(p) = {}
  BY <1>1, <1>2 DEF Hosts, Results
<1>4. Sighted(p, NewPeer, hist.early)
  BY <1>2 DEF Sighted
<1> QED BY <1>1, <1>3, <1>4 DEF SightOK

LEMMA NextKeepsSight ==
    ASSUME IInv, IInv', SightInv, [Next]_vars
    PROVE  SightInv'
<1>1. CASE Next
  BY <1>1, NextSees, SeesKeeps
<1>2. CASE UNCHANGED vars
  BY <1>2 DEF vars, SightInv, SightOK, Hosts, Results, Told, Offering
<1> QED BY <1>1, <1>2

LEMMA SightInvariant == Spec => []SightInv
<1>1. Init => SightInv
  BY InitSight
<1>2. IInv /\ IInv' /\ SightInv /\ [Next]_vars => SightInv'
  BY NextKeepsSight
<1> QED BY <1>1, <1>2, Invariant, PTL DEF Spec

\* A client gives a stream up with "claims to have connected to us, but we don't
\* see this" only when the target has gone on with a connection, because the CR
\* came, before the answer to its own request: any other answer names a host
\* that the client has offered and, where it is its own S5BServer, a connection
\* that came before the answer and is still its candidate.
THEOREM HostSeen == Spec => []WrongHostOnlyIfEarly
<1>1. SightInv => WrongHostOnlyIfEarly
  BY DEF SightInv, SightOK, Sighted, WrongHostOnlyIfEarly
<1> QED BY <1>1, SightInvariant, PTL

=============================================================================
