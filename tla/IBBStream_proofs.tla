-------------------------- MODULE IBBStream_proofs --------------------------
(***************************************************************************)
(* Proofs about IBBStream, for any two clients, any number of connections, *)
(* any packet size and any bounds: the type invariant, that what a         *)
(* connection received stays readable when the stream ends, that a stream  *)
(* is a pipe: what arrives is a prefix of what was written, that the bytes *)
(* written are those received, those on the wire and those buffered until  *)
(* an end leaves, and that an end fails only after the other one left.     *)
(*                                                                         *)
(* A handler builds the new state of one connection in a record (Start,    *)
(* TrySend, CloseOp, ... Commit).  Half is the set of the records that     *)
(* such a handler may commit; one lemma per method of the class shows that *)
(* the method stays in it, and Commit carries it over to the invariant.    *)
(***************************************************************************)
EXTENDS IBBStream, SequenceTheorems, FiniteSetTheorems, TLAPS

(* What holds between one connection and its application at any time.      *)
Abandoned == {"refused", "dataError", "destroyed"}
Readable(o, h) ==
    h.ended \notin Abandoned =>
        h.read + Len(o.recvbuf) = Len(h.got)
Sound(o, h) ==
    /\ o.state = "Idle" => o.task = NoTask /\ o.sendbuf = <<>> /\ ~o.closePending
    /\ o.state # "Idle" => h.ended = "none"
    /\ o.session = NoId => o.state = "Idle" /\ o.recvbuf = <<>> /\ h.ended = "none"
    /\ Readable(o, h)

IInv == TypeOK /\ \A c \in Obj : Sound(conn[c], hist[c])

Local == [o : Connection, h : History, out : Seq(Stanza)]
Half(x) == x \in Local /\ Sound(x.o, x.h)

\* The id of no request is the id of none.
LEMMA NoIdFresh == NoId \notin IqId
  BY ObjAssumption DEF NoId, IqId

\* A connection object and its counter make an iq id.
LEMMA FreshId == \A c \in Obj, n \in Nat : [obj |-> c, n |-> n] \in IqId
  BY DEF IqId

\* The fields trySend() sets keep the connection well-formed.
LEMMA ConnectionAfterSend ==
    ASSUME NEW o \in Connection, NEW buf \in Seq(Nat), NEW cp \in BOOLEAN,
           NEW cl \in BOOLEAN, NEW size \in Nat, NEW task \in Task, NEW next \in Nat
    PROVE  [o EXCEPT !.sendbuf = buf, !.closePending = cp, !.closing = cl,
                     !.blockSize = size, !.task = task, !.nextId = next] \in Connection
  BY DEF Connection

\* So does noting that a chunk was cut from a longer buffer.
LEMMA HistoryOver ==
    ASSUME NEW h \in History, NEW v \in BOOLEAN
    PROVE  [h EXCEPT !.over = v] \in History
  BY DEF History

\* The chunk and what QByteArray::resize keeps are prefixes of the buffer.
LEMMA Prefix ==
    ASSUME NEW S, NEW s \in Seq(S), NEW n \in Nat, n <= Len(s)
    PROVE  SubSeq(s, 1, n) \in Seq(S) /\ Len(SubSeq(s, 1, n)) = n
  BY SubSeqProperties

\* trySend() leaves recvbuf and the session alone.
LEMMA TrySendHalf ==
    ASSUME NEW c \in Obj, NEW x, Half(x)
    PROVE  Half(TrySend(c, x))
<1> DEFINE a == SubSeq(x.o.sendbuf, 1, ChunkSize(x.o))
           rest == AfterChunk(x.o)
           doClose == rest = <<>> /\ x.o.closePending
           id == [obj |-> c, n |-> x.o.nextId]
           sent == [o |-> [x.o EXCEPT !.sendbuf = rest,
                                !.closePending = @ /\ ~doClose,
                                !.closing = @ \/ doClose,
                                !.blockSize = Len(a),
                                !.task = [mode |-> "data", id |-> id],
                                !.nextId = @ + 1],
              h |-> [x.h EXCEPT !.over = @ \/ Len(x.o.sendbuf) > PacketSize],
              out |-> Append(x.out, SendData(id, x.o.sid, a, doClose))]
<1>1. CASE x.o.task # NoTask \/ (a = <<>> /\ ~doClose)
  BY <1>1 DEF TrySend
<1>2. CASE ~(x.o.task # NoTask \/ (a = <<>> /\ ~doClose))
  <2>1. TrySend(c, x) = sent
    BY <1>2 DEF TrySend
  <2>2. x.o \in Connection /\ x.h \in History /\ x.out \in Seq(Stanza)
    BY DEF Half, Local
  <2>3. ChunkSize(x.o) \in Nat /\ ChunkSize(x.o) <= Len(x.o.sendbuf)
    BY <2>2, SizeAssumption DEF ChunkSize, Connection
  <2>4. a \in Seq(Nat) /\ rest \in Seq(Nat)
    <3>1. x.o.sendbuf \in Seq(Nat) /\ Len(x.o.sendbuf) - ChunkSize(x.o) \in Nat
      BY <2>2, <2>3 DEF Connection
    <3>2. a \in Seq(Nat)
      BY <2>3, <3>1, Prefix
    <3>3. rest \in Seq(Nat)
      BY <2>3, <3>1, Prefix DEF AfterChunk
    <3> QED
      BY <3>2, <3>3
  <2>5. id \in IqId
    BY <2>2 DEF IqId, Connection
  <2>6. SendData(id, x.o.sid, a, doClose) \in Stanza
    BY <2>2, <2>4, <2>5 DEF SendData, Stanza, Connection
  <2>7. x.o.state # "Idle"
    BY <1>2, <2>2, <2>3 DEF Half, Sound, AfterChunk, Connection
  <2>8. sent.o \in Connection /\ sent.h \in History
    <3>1. [mode |-> "data", id |-> id] \in Task
      BY <2>5 DEF Task
    <3>2. /\ x.o.closePending \in BOOLEAN /\ x.o.closing \in BOOLEAN
          /\ x.h.over \in BOOLEAN /\ x.o.nextId + 1 \in Nat /\ Len(a) \in Nat
      BY <2>2, <2>4, SMTT(30) DEF Connection, History
    <3> HIDE DEF a, rest, doClose, id
    <3> QED
      BY <2>2, <2>4, <3>1, <3>2, ConnectionAfterSend, HistoryOver
  <2>9. sent \in Local
    <3>1. sent.out \in Seq(Stanza)
      BY <2>2, <2>6
    <3>2. sent = [o |-> sent.o, h |-> sent.h, out |-> sent.out]
      OBVIOUS
    <3> HIDE DEF sent
    <3> QED
      BY <2>8, <3>1, <3>2 DEF Local
  <2>10. Sound(sent.o, sent.h)
    BY <2>2, <2>7 DEF Half, Sound, Readable, Abandoned, Connection, History
  <2> QED
    BY <2>1, <2>9, <2>10 DEF Half
<1> QED
  BY <1>1, <1>2

\* reset() of a connection is a connection.
LEMMA ResetType ==
    ASSUME NEW o \in Connection, NEW clear \in BOOLEAN
    PROVE  Reset(o, clear) \in Connection
<1>1. NoTask \in Task /\ <<>> \in Seq(Nat) /\ "Idle" \in States
  BY DEF Task, NoTask, States
<1> QED
  BY <1>1 DEF Reset, Connection

\* A reset leaves what was received only if it is told to, and ends the session.
LEMMA ResetEndingHalf ==
    ASSUME NEW x, Half(x), NEW ending \in Endings \ {"none"},
           NEW clear \in BOOLEAN,
           clear => ending \in Abandoned,
           x.o.session # NoId, x.h.ended \in Abandoned => clear
    PROVE  Half(ResetEnding(x, clear, ending))
<1> DEFINE o2 == Reset(x.o, clear)
           h2 == [x.h EXCEPT !.ended = ending]
<1>1. x.o \in Connection /\ x.h \in History /\ x.out \in Seq(Stanza)
  BY DEF Half, Local
<1>3. o2 \in Connection
  BY <1>1, ResetType
<1>4. h2 \in History
  BY <1>1 DEF History
<1>5. Sound(o2, h2)
  BY <1>1 DEF Half, Sound, Readable, Abandoned, Reset, Connection, History
<1> DEFINE y == [x EXCEPT !.o = o2, !.h.ended = ending]
<1>6. ResetEnding(x, clear, ending) = y
  BY DEF ResetEnding
<1>7. y \in Local /\ y.o = o2 /\ y.h = h2
  <2> HIDE DEF o2
  <2> QED
    BY <1>3, <1>4 DEF Half, Local
<1> HIDE DEF o2, h2, y
<1> QED
  BY <1>5, <1>6, <1>7 DEF Half

\* A method of the connection stays in the session, and does not abandon it.
Keeps(x, y) ==
    /\ y.o.session = x.o.session
    /\ x.h.ended \notin Abandoned => y.h.ended \notin Abandoned

\* An ending that is not a loss of data does not count as one.
LEMMA ResetEndingKeeps ==
    ASSUME NEW x, Half(x), NEW clear, NEW ending, ending \notin Abandoned
    PROVE  Keeps(x, ResetEnding(x, clear, ending))
  BY DEF Keeps, ResetEnding, Reset, Half, Local, Connection, History

\* trySend() stays in the session and does not end it.
LEMMA TrySendKeeps ==
    ASSUME NEW c, NEW x, Half(x)
    PROVE  Keeps(x, TrySend(c, x))
  BY DEF Keeps, TrySend, Half, Local, Connection, History

\* write() leaves recvbuf and the session alone.
LEMMA WriteOpHalf ==
    ASSUME NEW c \in Obj, NEW x, Half(x), NEW n \in Nat
    PROVE  Half(WriteOp(c, x, n)) /\ Keeps(x, WriteOp(c, x, n))
<1> DEFINE buf == x.o.sendbuf \o [i \in 1..n |-> x.h.written + i]
           o2 == [x.o EXCEPT !.sendbuf = buf]
           h2 == [x.h EXCEPT !.written = @ + n]
           y == [x EXCEPT !.o.sendbuf = buf, !.h.written = @ + n]
<1>1. x.o \in Connection /\ x.h \in History /\ x.out \in Seq(Stanza)
  BY DEF Half, Local
<1>2. CASE ~CanWrite(x.o)
  BY <1>2 DEF WriteOp, Keeps
<1>3. CASE CanWrite(x.o)
  <2>1. WriteOp(c, x, n) = TrySend(c, y)
    BY <1>3 DEF WriteOp
  <2>2. buf \in Seq(Nat)
    <3>1. x.h.written \in Nat /\ x.o.sendbuf \in Seq(Nat)
      BY <1>1 DEF History, Connection
    <3>2. [i \in 1..n |-> x.h.written + i] \in Seq(Nat)
      BY <3>1
    <3> QED
      BY <3>1, <3>2, ConcatProperties
  <2>3. o2 \in Connection
    <3> HIDE DEF buf
    <3> QED
      BY <1>1, <2>2 DEF Connection
  <2>4. h2 \in History
    <3>1. x.h.written + n \in Nat
      BY <1>1 DEF History
    <3> QED
      BY <1>1, <3>1 DEF History
  <2>5. Sound(o2, h2)
    BY <1>1, <1>3 DEF Half, Sound, Readable, Abandoned, CanWrite, Connection, History
  <2>6. y \in Local /\ y.o = o2 /\ y.h = h2
    <3> HIDE DEF buf
    <3> QED
      BY <1>1, <2>3, <2>4 DEF Half, Local
  <2>7. o2.session = x.o.session /\ h2.ended = x.h.ended
    BY <1>1 DEF Connection, History
  <2> HIDE DEF o2, h2, y
  <2>8. Half(y) /\ Keeps(x, y)
    BY <2>5, <2>6, <2>7 DEF Half, Keeps
  <2> QED
    BY <2>1, <2>8, TrySendHalf, TrySendKeeps DEF Keeps
<1> QED
  BY <1>2, <1>3

\* Sending one more stanza changes nothing in the connection.
LEMMA OutHalf ==
    ASSUME NEW x, Half(x), NEW z \in Stanza
    PROVE  Half([x EXCEPT !.out = Append(@, z)])
<1>1. x.o \in Connection /\ x.h \in History /\ x.out \in Seq(Stanza)
  BY DEF Half, Local
<1>2. [x EXCEPT !.out = Append(@, z)] = [o |-> x.o, h |-> x.h, out |-> Append(x.out, z)]
  BY DEF Half, Local
<1> QED
  BY <1>1, <1>2 DEF Half, Local

\* What JT_IBB builds are stanzas.
LEMMA StanzaTypes ==
    ASSUME NEW id \in IqId
    PROVE  /\ Request(id) \in Stanza
           /\ Error(id) \in Stanza
           /\ \A sid \in Obj \cup {NoObj} : Success(id, sid) \in Stanza
           /\ \A sid \in Obj \cup {NoObj}, a \in Seq(Nat), close \in BOOLEAN :
                 SendData(id, sid, a, close) \in Stanza
  BY DEF Request, Error, Success, SendData, Stanza

\* close(), in each of the four states, keeps what was received.
LEMMA CloseOpHalf ==
    ASSUME NEW c \in Obj, NEW x, Half(x)
    PROVE  Half(CloseOp(c, x)) /\ Keeps(x, CloseOp(c, x))
<1>1. x.o \in Connection /\ x.h \in History /\ x.out \in Seq(Stanza)
  BY DEF Half, Local
<1>2. CASE x.o.state = "Idle"
  BY <1>2 DEF CloseOp, Keeps
<1>3. ASSUME x.o.state # "Idle"
      PROVE  x.h.ended = "none" /\ x.o.session # NoId /\ x.o.session \in IqId
  BY <1>1, <1>3 DEF Half, Sound, Connection
<1>4. CASE x.o.state = "WaitingForAccept"
  <2> DEFINE y == [x EXCEPT !.out = Append(@, Error(x.o.session))]
  <2>1. Half(y) /\ y.o = x.o /\ y.h = x.h
    BY <1>1, <1>3, <1>4, OutHalf, StanzaTypes DEF Half, Local
  <2>2. CloseOp(c, x) = ResetEnding(y, FALSE, "local")
    BY <1>4 DEF CloseOp
  <2> HIDE DEF y
  <2> QED
    <3>1. Half(ResetEnding(y, FALSE, "local"))
      BY <1>3, <1>4, <2>1, ResetEndingHalf DEF Endings, Abandoned
    <3>2. Keeps(y, ResetEnding(y, FALSE, "local"))
      BY <2>1, ResetEndingKeeps DEF Abandoned
    <3> QED
      BY <2>1, <2>2, <3>1, <3>2 DEF Keeps
<1>5. CASE x.o.state = "Requesting"
  <2>1. CloseOp(c, x) = ResetEnding(x, FALSE, "cancelled")
    BY <1>5 DEF CloseOp
  <2> QED
    BY <1>3, <1>5, <2>1, ResetEndingHalf, ResetEndingKeeps DEF Endings, Abandoned
<1>6. CASE x.o.state = "Active" /\ x.o.sendbuf # <<>>
  <2> DEFINE o2 == [x.o EXCEPT !.closePending = TRUE]
             y == [x EXCEPT !.o.closePending = TRUE]
  <2>1. CloseOp(c, x) = TrySend(c, y)
    BY <1>6 DEF CloseOp
  <2>2. o2 \in Connection /\ Sound(o2, x.h)
    BY <1>1, <1>6 DEF Connection, Half, Sound, Readable, Abandoned
  <2>3. y \in Local /\ y.o = o2 /\ y.h = x.h
    BY <1>1, <2>2 DEF Half, Local
  <2>4. o2.session = x.o.session
    BY <1>1 DEF Connection
  <2> HIDE DEF o2, y
  <2>5. Half(y) /\ Keeps(x, y)
    BY <2>2, <2>3, <2>4 DEF Half, Keeps
  <2>6. Half(TrySend(c, y))
    BY <2>5, TrySendHalf
  <2>7. Keeps(y, TrySend(c, y))
    BY <2>5, TrySendKeeps
  <2> QED
    BY <2>1, <2>5, <2>6, <2>7 DEF Keeps
<1>7. CASE x.o.state = "Active" /\ x.o.sendbuf = <<>>
  <2> DEFINE id == [obj |-> c, n |-> x.o.nextId]
             o2 == [x.o EXCEPT !.nextId = @ + 1]
             z == SendData(id, x.o.sid, <<>>, TRUE)
             y == [x EXCEPT !.o.nextId = @ + 1, !.out = Append(@, z)]
  <2>1. CloseOp(c, x) = ResetEnding(y, FALSE, "local")
    BY <1>7 DEF CloseOp
  <2>2. o2 \in Connection /\ Sound(o2, x.h) /\ o2.session = x.o.session
    BY <1>1, <1>7, SMTT(30) DEF Connection, Half, Sound, Readable, Abandoned
  <2>3. id \in IqId /\ x.o.sid \in Obj \cup {NoObj} /\ <<>> \in Seq(Nat)
    BY <1>1 DEF IqId, Connection
  <2>4. z \in Stanza
    BY <2>3, StanzaTypes
  <2>5. y \in Local /\ y.o = o2 /\ y.h = x.h
    <3> HIDE DEF z
    <3>1. Append(x.out, z) \in Seq(Stanza)
      BY <1>1, <2>4
    <3> QED
      BY <1>1, <2>2, <3>1 DEF Half, Local
  <2> HIDE DEF o2, y
  <2>6. Half(y) /\ Keeps(x, y)
    BY <2>2, <2>5 DEF Half, Keeps
  <2> QED
    <3>1. Half(ResetEnding(y, FALSE, "local"))
      BY <1>3, <1>7, <2>2, <2>5, <2>6, ResetEndingHalf DEF Endings, Abandoned
    <3>2. Keeps(y, ResetEnding(y, FALSE, "local"))
      BY <2>6, ResetEndingKeeps DEF Abandoned
    <3> QED
      BY <2>1, <2>6, <3>1, <3>2 DEF Keeps
<1> QED
  BY <1>1, <1>2, <1>4, <1>5, <1>6, <1>7 DEF Connection, States

\* So does whatever the application calls from inside a signal.
LEMMA ReactHalf ==
    ASSUME NEW c \in Obj, NEW x, Half(x), NEW r \in Reaction(c)
    PROVE  Half(React(c, x, r)) /\ Keeps(x, React(c, x, r))
<1>1. r.call \in {"nothing", "close", "write"} /\ r.n \in Nat
  BY SizeAssumption DEF Reaction
<1>2. CASE r.call = "nothing"
  BY <1>2 DEF React, Keeps
<1>3. CASE r.call = "close"
  BY <1>3, CloseOpHalf DEF React
<1>4. CASE r.call = "write"
  BY <1>1, <1>4, WriteOpHalf DEF React
<1> QED
  BY <1>1, <1>2, <1>3, <1>4

----------------------------------------------------------------------------
(* Every step is one connection's record committed, or the loss of a stanza. *)

\* Replacing one connection's record by a sound one keeps the invariant.
LEMMA ReplaceIInv ==
    ASSUME IInv, NEW c \in Obj, NEW o \in Connection, NEW h \in History, Sound(o, h),
           conn' = [conn EXCEPT ![c] = o], hist' = [hist EXCEPT ![c] = h],
           net' \in [Peer -> Seq(Stanza)]
    PROVE  IInv'
<1>1. conn' \in [Obj -> Connection] /\ hist' \in [Obj -> History]
  BY DEF IInv, TypeOK
<1>2. \A d \in Obj : Sound(conn'[d], hist'[d])
  BY DEF IInv, TypeOK
<1>3. \A d \in Obj : Sound(conn[d], hist[d])' <=> Sound(conn'[d], hist'[d])
  BY DEF Sound, Readable, Abandoned
<1> QED
  BY <1>1, <1>2, <1>3 DEF IInv, TypeOK

\* Committing what a method left keeps the invariant.
LEMMA CommitIInv ==
    ASSUME IInv, NEW c \in Obj, NEW x, Half(x), NEW queue \in [Peer -> Seq(Stanza)],
           Commit(c, x, queue)
    PROVE  IInv'
<1>1. x.o \in Connection /\ x.h \in History /\ x.out \in Seq(Stanza)
  BY DEF Half, Local
<1>2. net' \in [Peer -> Seq(Stanza)]
  <2>1. Other[Home[c]] \in Peer
    BY PeerAssumption, ObjAssumption
  <2>2. queue[Other[Home[c]]] \o x.out \in Seq(Stanza)
    BY <1>1, <2>1, ConcatProperties
  <2> QED
    BY <2>1, <2>2 DEF Commit
<1> QED
  BY <1>1, <1>2, ReplaceIInv DEF Commit, Half

\* A handler starts from a connection for which the invariant holds.
LEMMA StartHalf ==
    ASSUME IInv, NEW c \in Obj
    PROVE  Half(Start(c)) /\ Start(c).o = conn[c] /\ Start(c).h = hist[c]
  BY DEF IInv, TypeOK, Start, Half, Local

\* Taking a stanza off the wire leaves stanzas.
LEMMA PoppedType ==
    ASSUME TypeOK, NEW p \in Peer, net[p] # <<>>
    PROVE  Popped(p) \in [Peer -> Seq(Stanza)] /\ Head(net[p]) \in Stanza
  BY HeadTailProperties DEF TypeOK, Popped

\* A handler changes fields of the connection and its history, sends nothing.
LEMMA LocalParts ==
    ASSUME IInv, NEW c \in Obj
    PROVE  conn[c] \in Connection /\ hist[c] \in History /\ Sound(conn[c], hist[c])
  BY DEF IInv, TypeOK

\* A record put together from sound parts is sound.
LEMMA HalfRecord ==
    ASSUME NEW o \in Connection, NEW h \in History, NEW out \in Seq(Stanza), Sound(o, h)
    PROVE  Half([o |-> o, h |-> h, out |-> out])
  BY DEF Half, Local

\* No call of the application breaks the invariant.
LEMMA UserStep ==
    ASSUME IInv, NEW c \in Obj, User(c)
    PROVE  IInv'
<1>1. conn[c] \in Connection /\ hist[c] \in History /\ Sound(conn[c], hist[c])
  BY LocalParts
<1>2. Half(Start(c)) /\ Start(c).o = conn[c] /\ Start(c).h = hist[c]
  BY StartHalf
<1>3. net \in [Peer -> Seq(Stanza)]
  BY DEF IInv, TypeOK
<1>4. CASE ConnectToJid(c)
  <2> DEFINE closed == CloseOp(c, Start(c))
             id == [obj |-> c, n |-> closed.o.nextId]
             o2 == [Reset(closed.o, TRUE) EXCEPT
                       !.state = "Requesting", !.session = id, !.nextId = @ + 1,
                       !.task = [mode |-> "request", id |-> id]]
             h2 == NewHistory(hist[c].attempts + 1)
             out2 == Append(closed.out, Request(id))
  <2>1. closed.o \in Connection /\ closed.out \in Seq(Stanza)
    BY <1>2, CloseOpHalf DEF Half, Local
  <2>2. id \in IqId
    BY <2>1 DEF IqId, Connection
  <2>3. out2 \in Seq(Stanza)
    BY <2>1, <2>2, StanzaTypes
  <2>4. h2 \in History
    BY <1>1 DEF NewHistory, History, Endings
  <2>5. o2 \in Connection
    <3> DEFINE r == Reset(closed.o, TRUE)
    <3>1. r \in Connection
      BY <2>1, ResetType
    <3>2. [mode |-> "request", id |-> id] \in Task /\ "Requesting" \in States
      BY <2>2 DEF Task, States
    <3> HIDE DEF closed, id, r
    <3>3. r.nextId + 1 \in Nat
      BY <3>1 DEF Connection
    <3>4. [r EXCEPT !.state = "Requesting", !.session = id, !.nextId = @ + 1,
                    !.task = [mode |-> "request", id |-> id]] \in Connection
      BY <2>2, <3>1, <3>2, <3>3 DEF Connection
    <3> QED
      BY <3>4 DEF r
  <2>6. Sound(o2, h2)
    <3>1. o2.state = "Requesting" /\ o2.session = id /\ o2.recvbuf = <<>>
      BY <2>1 DEF Reset, Connection
    <3>2. id # NoId
      BY <2>2, NoIdFresh
    <3> HIDE DEF o2, id
    <3> QED
      BY <3>1, <3>2 DEF Sound, Readable, Abandoned, NewHistory
  <2>7. Commit(c, [o |-> o2, h |-> h2, out |-> out2], net)
    BY <1>4 DEF ConnectToJid
  <2> HIDE DEF o2, h2, out2
  <2> QED
    BY <1>3, <2>3, <2>4, <2>5, <2>6, <2>7, HalfRecord, CommitIInv
<1>5. CASE TakeIncoming(c)
  <2>1. conn' \in [Obj -> Connection]
    BY <1>5, <1>1 DEF TakeIncoming, IInv, TypeOK, Connection
  <2>2. \A d \in Obj : Sound(conn[d], hist[d])'
    BY <1>5 DEF TakeIncoming, IInv, TypeOK, Sound, Readable, Abandoned, Connection
  <2> QED
    BY <1>5, <2>1, <2>2 DEF TakeIncoming, IInv, TypeOK
<1>6. CASE Accept(c)
  <2> DEFINE o2 == [conn[c] EXCEPT !.state = "Active"]
             out2 == <<Success(conn[c].session, conn[c].sid)>>
  <2>1. o2 \in Connection /\ Sound(o2, hist[c])
    BY <1>1, <1>6 DEF Accept, Connection, States, Sound, Readable, Abandoned
  <2>2. conn[c].session \in IqId /\ conn[c].sid \in Obj \cup {NoObj}
    BY <1>1, <1>6 DEF Accept, Sound, Connection
  <2>3. out2 \in Seq(Stanza)
    BY <2>2, StanzaTypes
  <2>4. Commit(c, [o |-> o2, h |-> hist[c], out |-> out2], net)
    BY <1>6 DEF Accept
  <2> HIDE DEF o2, out2
  <2> QED
    BY <1>1, <1>3, <2>1, <2>3, <2>4, HalfRecord, CommitIInv
<1>7. CASE Close(c)
  BY <1>2, <1>3, <1>7, CloseOpHalf, CommitIInv DEF Close
<1>8. ASSUME NEW n \in 1..MaxBytes[c], Write(c, n)
      PROVE  IInv'
  BY <1>2, <1>3, <1>8, SizeAssumption, WriteOpHalf, CommitIInv DEF Write
<1>9. CASE Read(c)
  <2> DEFINE o2 == [conn[c] EXCEPT !.recvbuf = <<>>]
             h2 == [hist[c] EXCEPT !.read = @ + Len(conn[c].recvbuf)]
  <2>1. conn' = [conn EXCEPT ![c] = o2] /\ hist' = [hist EXCEPT ![c] = h2]
    BY <1>9 DEF Read
  <2>2. o2 \in Connection
    <3>1. <<>> \in Seq(Nat)
      OBVIOUS
    <3> QED
      BY <1>1, <3>1 DEF Connection
  <2>3. h2 \in History
    <3>1. hist[c].read + Len(conn[c].recvbuf) \in Nat
      BY <1>1 DEF Connection, History
    <3> QED
      BY <1>1, <3>1 DEF History
  <2>4. Sound(o2, h2)
    <3>1. o2.recvbuf = <<>> /\ h2.ended = hist[c].ended /\ h2.got = hist[c].got
      BY <1>1 DEF Connection, History
    <3>2. h2.read = hist[c].read + Len(conn[c].recvbuf)
      BY <1>1 DEF History
    <3>3. Readable(o2, h2)
      BY <1>1, <3>1, <3>2 DEF Sound, Readable, Connection, History
    <3>4. /\ o2.state = conn[c].state /\ o2.task = conn[c].task
          /\ o2.sendbuf = conn[c].sendbuf /\ o2.session = conn[c].session
          /\ o2.closePending = conn[c].closePending
      BY <1>1 DEF Connection
    <3> HIDE DEF o2, h2
    <3> QED
      BY <1>1, <3>1, <3>3, <3>4 DEF Sound
  <2> HIDE DEF o2, h2
  <2> QED
    BY <1>3, <1>9, <2>1, <2>2, <2>3, <2>4, ReplaceIInv DEF Read
<1>10. CASE Destroy(c)
  <2> DEFINE y == [Start(c) EXCEPT !.o.trySendTimer = FALSE]
  <2>1. y.o = [conn[c] EXCEPT !.trySendTimer = FALSE] /\ y.h = hist[c] /\ y \in Local
    BY <1>1, <1>2 DEF Half, Local, Start, Connection
  <2>2. Sound(y.o, y.h) /\ y.o.session = conn[c].session
    BY <1>1, <2>1, SMTT(30) DEF Sound, Readable, Abandoned, Connection
  <2>3. conn[c].session # NoId
    BY <1>1, <1>10 DEF Sound, Destroy
  <2>4. Commit(c, ResetEnding(y, TRUE, "destroyed"), net)
    BY <1>10 DEF Destroy
  <2> HIDE DEF y
  <2>5. Half(ResetEnding(y, TRUE, "destroyed"))
    BY <2>1, <2>2, <2>3, ResetEndingHalf DEF Half, Endings, Abandoned
  <2> QED
    BY <1>3, <2>4, <2>5, CommitIInv
<1> QED
  BY <1>4, <1>5, <1>6, <1>7, <1>8, <1>9, <1>10 DEF User

\* Arming or disarming the trySend timer changes nothing that matters here.
LEMMA TimerHalf ==
    ASSUME NEW x, Half(x), NEW v
    PROVE  Half([x EXCEPT !.o.trySendTimer = @ \/ v])
<1> DEFINE o2 == [x.o EXCEPT !.trySendTimer = @ \/ v]
           y == [x EXCEPT !.o.trySendTimer = @ \/ v]
<1>1. x.o \in Connection /\ x.h \in History
  BY DEF Half, Local
<1>2. (x.o.trySendTimer \/ v) \in BOOLEAN
  OBVIOUS
<1>3. o2 \in Connection /\ Sound(o2, x.h)
  BY <1>1, <1>2 DEF Half, Sound, Readable, Connection
<1>4. y \in Local /\ y.o = o2 /\ y.h = x.h
  BY <1>1, <1>3 DEF Half, Local
<1> HIDE DEF o2, y
<1>5. Half(y)
  BY <1>3, <1>4 DEF Half
<1> QED
  BY <1>5 DEF y

\* Nor does the zero-length timer of ibb_finished.
LEMMA TimerStep ==
    ASSUME IInv, NEW c \in Obj, TrySendTimer(c)
    PROVE  IInv'
<1> DEFINE y == [Start(c) EXCEPT !.o.trySendTimer = FALSE]
<1>1. conn[c] \in Connection /\ hist[c] \in History /\ Sound(conn[c], hist[c])
  BY LocalParts
<1>2. y.o = [conn[c] EXCEPT !.trySendTimer = FALSE] /\ y.h = hist[c] /\ y \in Local
  BY <1>1, StartHalf DEF Half, Local, Start, Connection
<1>3. Half(y)
  <2> HIDE DEF y
  <2>1. Sound(y.o, y.h)
    BY <1>1, <1>2 DEF Sound, Readable, Abandoned, Connection
  <2> QED
    BY <1>2, <2>1 DEF Half
<1>4. Commit(c, TrySend(c, y), net)
  BY DEF TrySendTimer
<1>5. net \in [Peer -> Seq(Stanza)]
  BY DEF IInv, TypeOK
<1> HIDE DEF y
<1> QED
  BY <1>3, <1>4, <1>5, TrySendHalf, CommitIInv

\* What the constructor of IBBConnection leaves is a connection.
LEMMA NewConnectionType ==
    NewConnection \in Connection
  BY DEF NewConnection, Connection, States, Task, NoTask

\* ibb_incomingRequest keeps the invariant.
LEMMA RequestStep ==
    ASSUME IInv, NEW p \in Peer, net[p] # <<>>, IncomingRequest(p, Head(net[p]))
    PROVE  IInv'
<1> DEFINE m == Head(net[p])
<1>1. Popped(p) \in [Peer -> Seq(Stanza)] /\ m.id \in IqId
  BY PoppedType DEF IInv, Stanza
<1>2. PICK c \in Pool :
        /\ conn[c].session = NoId
        /\ conn' = [conn EXCEPT ![c] =
                      [NewConnection EXCEPT !.state = "WaitingForAccept", !.sid = c,
                                            !.session = m.id, !.incoming = TRUE]]
        /\ net' = Popped(p)
        /\ UNCHANGED hist
  BY DEF IncomingRequest
<1> DEFINE o2 == [NewConnection EXCEPT !.state = "WaitingForAccept", !.sid = c,
                                       !.session = m.id, !.incoming = TRUE]
<1>3. c \in Obj
  BY DEF Obj
<1>4. conn[c] \in Connection /\ hist[c] \in History /\ Sound(conn[c], hist[c])
  BY <1>3, LocalParts
<1>5. o2 \in Connection
  BY <1>1, <1>3, NewConnectionType DEF Connection, States
<1>6. Sound(o2, hist[c])
  BY <1>1, <1>2, <1>4, NoIdFresh
     DEF Sound, Readable, Abandoned, NewConnection, Connection, History
<1>7. hist' = [hist EXCEPT ![c] = hist[c]]
  BY <1>2 DEF IInv, TypeOK
<1> HIDE DEF o2
<1> QED
  BY <1>1, <1>2, <1>3, <1>4, <1>5, <1>6, <1>7, ReplaceIInv DEF o2

\* What is read, left and new adds up in any order.
LEMMA Regroup == \A r, l, n \in Nat : r + (l + n) = (r + l) + n
  OBVIOUS

\* What takeIncomingData() leaves before readyRead() is a connection's record.
Take(c, m) ==
    [o |-> [conn[c] EXCEPT !.recvbuf = @ \o m.data],
     h |-> [hist[c] EXCEPT !.got = @ \o m.data],
     out |-> <<Success(m.id, NoObj)>>]

\* The bytes are in recvbuf and counted as received: nothing else changed.
LEMMA TakeHalf ==
    ASSUME IInv, NEW c \in Obj, conn[c].state = "Active", NEW m \in Stanza
    PROVE  /\ Half(Take(c, m))
           /\ Take(c, m).o.session # NoId /\ Take(c, m).h.ended = "none"
           /\ Take(c, m).o.session = conn[c].session /\ Take(c, m).o.sid = conn[c].sid
           /\ Take(c, m).o.state = "Active" /\ Take(c, m).o.nextId = conn[c].nextId
           /\ Take(c, m).o.task = conn[c].task /\ Take(c, m).o.sendbuf = conn[c].sendbuf
           /\ Take(c, m).h.written = hist[c].written /\ Take(c, m).h.over = hist[c].over
           /\ Take(c, m).h.got = hist[c].got \o m.data
           /\ Take(c, m).out = <<Success(m.id, NoObj)>>
<1> DEFINE o2 == [conn[c] EXCEPT !.recvbuf = @ \o m.data]
           h2 == [hist[c] EXCEPT !.got = @ \o m.data]
           out2 == <<Success(m.id, NoObj)>>
<1>1. m.id \in IqId /\ m.data \in Seq(Nat)
  BY DEF Stanza
<1>2. conn[c] \in Connection /\ hist[c] \in History /\ Sound(conn[c], hist[c])
  BY LocalParts
<1>3. o2 \in Connection
  <2>1. conn[c].recvbuf \o m.data \in Seq(Nat)
    BY <1>1, <1>2 DEF Connection
  <2> QED
    BY <1>2, <2>1 DEF Connection
<1>4. h2 \in History
  <2>1. hist[c].got \o m.data \in Seq(Nat)
    BY <1>1, <1>2 DEF History
  <2> QED
    BY <1>2, <2>1 DEF History
<1>5. /\ Len(conn[c].recvbuf \o m.data) = Len(conn[c].recvbuf) + Len(m.data)
      /\ Len(hist[c].got \o m.data) = Len(hist[c].got) + Len(m.data)
      /\ Len(conn[c].recvbuf) \in Nat /\ Len(hist[c].got) \in Nat
      /\ Len(m.data) \in Nat /\ hist[c].read \in Nat
  BY <1>1, <1>2, ConcatProperties, SMTT(30) DEF Connection, History
<1>6. /\ o2.recvbuf = conn[c].recvbuf \o m.data /\ h2.got = hist[c].got \o m.data
      /\ o2.state = "Active" /\ o2.session = conn[c].session /\ o2.sid = conn[c].sid
      /\ o2.nextId = conn[c].nextId /\ o2.task = conn[c].task
      /\ o2.sendbuf = conn[c].sendbuf
      /\ h2.ended = hist[c].ended /\ h2.read = hist[c].read
      /\ h2.written = hist[c].written /\ h2.over = hist[c].over
  BY <1>2 DEF Connection, History
<1>7. out2 \in Seq(Stanza)
  BY <1>1, StanzaTypes
<1>8. Take(c, m) = [o |-> o2, h |-> h2, out |-> out2]
  BY DEF Take
<1> HIDE DEF o2, h2, out2
<1>9. conn[c].session # NoId /\ hist[c].ended = "none"
  BY <1>2 DEF Sound
<1>10. hist[c].read + Len(conn[c].recvbuf) = Len(hist[c].got)
  BY <1>2, <1>9 DEF Sound, Readable, Abandoned
<1>11. h2.read + Len(o2.recvbuf) = Len(h2.got)
  <2>1. /\ Len(o2.recvbuf) = Len(conn[c].recvbuf) + Len(m.data)
        /\ Len(h2.got) = Len(hist[c].got) + Len(m.data) /\ h2.read = hist[c].read
    BY <1>5, <1>6
  <2>2. hist[c].read + (Len(conn[c].recvbuf) + Len(m.data))
          = (hist[c].read + Len(conn[c].recvbuf)) + Len(m.data)
    BY <1>5, Regroup, Zenon
  <2> QED
    BY <1>10, <2>1, <2>2, Zenon
<1>12. Sound(o2, h2)
  <2>1. Readable(o2, h2)
    BY <1>11 DEF Readable
  <2> QED
    BY <1>6, <1>9, <2>1 DEF Sound
<1>13. Half([o |-> o2, h |-> h2, out |-> out2])
  BY <1>3, <1>4, <1>7, <1>12, HalfRecord
<1>14. Half(Take(c, m))
  BY <1>8, <1>13
<1>15. Take(c, m).o = o2 /\ Take(c, m).h = h2 /\ Take(c, m).out = out2
  BY <1>8
<1>16. out2 = <<Success(m.id, NoObj)>>
  BY DEF out2
<1> QED
  BY <1>6, <1>9, <1>14, <1>15, <1>16, Zenon

\* ibb_incomingData keeps it: what is received is readable at once, and stays
\* so when readyRead() closes the connection or the stanza does.
LEMMA DataStep ==
    ASSUME IInv, NEW p \in Peer, net[p] # <<>>, IncomingData(p, Head(net[p]))
    PROVE  IInv'
<1> DEFINE m == Head(net[p])
<1>1. Popped(p) \in [Peer -> Seq(Stanza)] /\ m \in Stanza
  BY PoppedType DEF IInv
<1>2. m.id \in IqId /\ m.data \in Seq(Nat) /\ m.close \in BOOLEAN
  BY <1>1 DEF Stanza
<1> HIDE DEF m
<1>3. CASE net' = [Popped(p) EXCEPT ![Other[p]] = Append(@, Error(m.id))]
           /\ UNCHANGED <<conn, hist>>
  <2>1. Append(Popped(p)[Other[p]], Error(m.id)) \in Seq(Stanza)
    BY <1>1, <1>2, StanzaTypes, PeerAssumption
  <2>2. net' \in [Peer -> Seq(Stanza)]
    BY <1>1, <1>3, <2>1
  <2> QED
    BY <1>3, <2>2 DEF IInv, TypeOK, Sound, Readable, Abandoned
<1>4. ASSUME NEW c \in FindConnection(p, m.sid), NEW r \in Reaction(c),
             Commit(c, IF m.close THEN ResetEnding(React(c, Take(c, m), r), FALSE, "closed")
                                  ELSE React(c, Take(c, m), r), Popped(p))
      PROVE  IInv'
  <2> DEFINE taken == Take(c, m)
             reacted == React(c, taken, r)
  <2>1. c \in Obj /\ conn[c].state = "Active"
    BY DEF FindConnection
  <2>2. Half(taken) /\ taken.o.session # NoId /\ taken.h.ended \notin Abandoned
    BY <1>1, <2>1, TakeHalf DEF Abandoned
  <2> HIDE DEF taken
  <2>3. Half(reacted) /\ Keeps(taken, reacted)
    BY <2>1, <2>2, ReactHalf
  <2>4. reacted.o.session # NoId /\ reacted.h.ended \notin Abandoned
    BY <2>2, <2>3 DEF Keeps
  <2> HIDE DEF reacted
  <2>5. Half(IF m.close THEN ResetEnding(reacted, FALSE, "closed") ELSE reacted)
    BY <2>3, <2>4, ResetEndingHalf DEF Endings
  <2> QED
    BY <1>1, <1>4, <2>1, <2>5, CommitIInv DEF reacted, taken
<1> QED
  BY <1>3, <1>4 DEF IncomingData, Take, m

\* A response nobody waits for changes no connection.
LEMMA DroppedStep ==
    ASSUME IInv, NEW p \in Peer, net[p] # <<>>, ResponseDropped(p, Head(net[p]))
    PROVE  IInv'
<1>1. net' \in [Peer -> Seq(Stanza)]
  BY PoppedType DEF ResponseDropped, IInv
<1> QED
  BY <1>1 DEF ResponseDropped, IInv, TypeOK, Sound, Readable

\* ibb_finished keeps the invariant, for requests and for data, also when
\* bytesWritten() writes or closes.
LEMMA ResponseStep ==
    ASSUME IInv, NEW p \in Peer, net[p] # <<>>, NEW c \in Waiting(p, Head(net[p])),
           \/ RequestFinished(p, Head(net[p]), c)
           \/ \E r \in Reaction(c) : DataFinished(p, Head(net[p]), c, r)
           \/ DataRefused(p, Head(net[p]), c)
    PROVE  IInv'
<1> DEFINE m == Head(net[p])
<1>1. Popped(p) \in [Peer -> Seq(Stanza)] /\ m \in Stanza
  BY PoppedType DEF IInv
<1>2. m.sid \in Obj \cup {NoObj}
  BY <1>1 DEF Stanza
<1>3. c \in Obj /\ conn[c].task # NoTask
  BY DEF Waiting
<1>4. conn[c] \in Connection /\ hist[c] \in History /\ Sound(conn[c], hist[c])
  BY <1>3, LocalParts
<1>5. /\ conn[c].state # "Idle"
      /\ conn[c].session # NoId
      /\ hist[c].ended = "none"
  BY <1>3, <1>4 DEF Sound
<1>6. Half(Start(c)) /\ Start(c).o = conn[c] /\ Start(c).h = hist[c]
  BY <1>3, StartHalf
<1> HIDE DEF m
<1>7. ASSUME NEW ending \in {"refused", "dataError"},
             Commit(c, ResetEnding(Start(c), TRUE, ending), Popped(p))
      PROVE  IInv'
  <2>1. Half(ResetEnding(Start(c), TRUE, ending))
    BY <1>5, <1>6, ResetEndingHalf DEF Endings, Abandoned
  <2> QED
    BY <1>1, <1>3, <1>7, <2>1, CommitIInv
<1>8. CASE RequestFinished(p, m, c)
  <2> DEFINE y == [Start(c) EXCEPT !.o.task = NoTask, !.o.sid = m.sid, !.o.state = "Active"]
             o2 == [conn[c] EXCEPT !.task = NoTask, !.sid = m.sid, !.state = "Active"]
  <2>1. CASE m.type # "result"
    BY <1>7, <1>8, <2>1 DEF RequestFinished
  <2>2. CASE m.type = "result"
    <3>1. Commit(c, y, Popped(p))
      BY <1>8, <2>2 DEF RequestFinished
    <3>2. o2 \in Connection
      <4>1. NoTask \in Task /\ "Active" \in States
        BY DEF Task, NoTask, States
      <4> QED
        BY <1>2, <1>4, <4>1 DEF Connection
    <3>3. Sound(o2, hist[c])
      BY <1>4, <1>5 DEF Sound, Readable, Abandoned, Connection
    <3>4. y \in Local /\ y.o = o2 /\ y.h = hist[c]
      BY <1>6, <3>2 DEF Half, Local
    <3> HIDE DEF y, o2
    <3>5. Half(y)
      BY <3>3, <3>4 DEF Half
    <3> QED
      BY <1>1, <1>3, <3>1, <3>5, CommitIInv
  <2> QED
    BY <2>1, <2>2
<1>9. ASSUME NEW r \in Reaction(c), DataFinished(p, m, c, r)
      PROVE  IInv'
  <2> DEFINE acked == [Start(c) EXCEPT !.o.task = NoTask, !.h.acked = @ + conn[c].blockSize]
             o2 == [conn[c] EXCEPT !.task = NoTask]
             h2 == [hist[c] EXCEPT !.acked = @ + conn[c].blockSize]
             reacted == React(c, acked, r)
             closed == IF reacted.o.closing THEN ResetEnding(reacted, FALSE, "finished")
                                            ELSE reacted
             done == [closed EXCEPT !.o.trySendTimer = @ \/ Again(closed.o)]
  <2>1. Commit(c, done, Popped(p))
    BY <1>9 DEF DataFinished
  <2>2. o2 \in Connection
    <3>1. NoTask \in Task
      BY DEF Task, NoTask
    <3> QED
      BY <1>4, <3>1 DEF Connection
  <2>3. h2 \in History
    <3>1. hist[c].acked + conn[c].blockSize \in Nat
      BY <1>4 DEF Connection, History
    <3> QED
      BY <1>4, <3>1 DEF History
  <2>4. Sound(o2, h2) /\ o2.session # NoId /\ h2.ended \notin Abandoned
    BY <1>4, <1>5 DEF Sound, Readable, Abandoned, Connection, History
  <2>5. acked \in Local /\ acked.o = o2 /\ acked.h = h2
    BY <1>6, <2>2, <2>3 DEF Half, Local
  <2>6. Half(acked) /\ acked.o.session # NoId /\ acked.h.ended \notin Abandoned
    <3> HIDE DEF o2, h2, acked
    <3> QED
      BY <2>4, <2>5 DEF Half
  <2>7. Half(reacted) /\ reacted.o.session # NoId /\ reacted.h.ended \notin Abandoned
    <3> HIDE DEF acked
    <3> QED
      BY <1>3, <2>6, ReactHalf DEF Keeps
  <2>8. Half(closed)
    <3> HIDE DEF reacted
    <3> QED
      BY <2>7, ResetEndingHalf DEF Endings, Abandoned
  <2>9. Half(done)
    <3> HIDE DEF closed
    <3> QED
      BY <2>8, TimerHalf
  <2> HIDE DEF done
  <2> QED
    BY <1>1, <1>3, <2>1, <2>9, CommitIInv
<1>10. CASE DataRefused(p, m, c)
  BY <1>7, <1>10 DEF DataRefused
<1> QED
  BY <1>8, <1>9, <1>10 DEF m

\* No stanza breaks the invariant.
LEMMA DeliverStep ==
    ASSUME IInv, NEW p \in Peer, Deliver(p)
    PROVE  IInv'
  BY RequestStep, DataStep, DroppedStep, ResponseStep DEF Deliver

\* A connection that has just been created has nothing to read.
THEOREM InitIInv == Init => IInv
<1> SUFFICES ASSUME Init PROVE IInv
  OBVIOUS
<1>1. NewHistory(0) \in History
  BY DEF NewHistory, History, Endings
<1>2. TypeOK
  BY <1>1, NewConnectionType DEF Init, TypeOK
<1>3. Sound(NewConnection, NewHistory(0))
  BY DEF Sound, Readable, NewConnection, NewHistory
<1> QED
  BY <1>2, <1>3 DEF IInv, Init

\* Every call, timer and stanza keeps the invariant.
THEOREM NextIInv == IInv /\ [Next]_vars => IInv'
<1> SUFFICES ASSUME IInv, [Next]_vars PROVE IInv'
  OBVIOUS
<1>1. CASE UNCHANGED vars
  BY <1>1 DEF vars, IInv, TypeOK, Sound, Readable
<1> QED
  BY <1>1, UserStep, TimerStep, DeliverStep DEF Next

\* The state stays well-formed: in particular every stanza a client sends names
\* the connection object that sent it.
THEOREM TypeCorrect == Spec => []TypeOK
<1>1. IInv => TypeOK
  BY DEF IInv
<1> QED
  BY <1>1, InitIInv, NextIInv, PTL DEF Spec

\* IBBConnection::reset(false) and the slots that close from inside a signal
\* never lose received bytes that the application has not read yet.
THEOREM ReceivedReadable == Spec => []ReceivedStaysReadable
<1>1. IInv => ReceivedStaysReadable
  BY DEF IInv, Sound, Readable, Abandoned, ReceivedStaysReadable
<1> QED
  BY <1>1, InitIInv, NextIInv, PTL DEF Spec

----------------------------------------------------------------------------
(***************************************************************************)
(* The pipe of bytes.  A stream has two ends and carries bytes both ways;  *)
(* c is the sender of one direction.  Its JT_IBB task and the stanzas of   *)
(* the stream still on the wire say how many of the bytes that left the    *)
(* send buffer have arrived: at most one chunk is on its way, it is the    *)
(* task's, and a task that has been acknowledged has arrived.  This has to *)
(* hold for every pair of connections although a response may find another *)
(* connection than the one the stanza came from, so the invariant also     *)
(* says what the session of a connection, the stream id and the iq id of a *)
(* stanza and the object that sent it have to do with each other.          *)
(***************************************************************************)
Elems(s) == {s[i] : i \in DOMAIN s}
Sent(o, h) == h.written - Len(o.sendbuf)

\* Nothing has passed through the connection in this session.
Fresh(o, h) == h.written = 0 /\ h.got = <<>> /\ o.sendbuf = <<>> /\ ~o.closePending

\* What holds of the connection c on its own.
Loc(c, o, h) ==
    /\ Len(o.sendbuf) <= h.written
    /\ ~h.over => \A i \in DOMAIN o.sendbuf : o.sendbuf[i] = Sent(o, h) + i
    /\ o.state \in {"Requesting", "WaitingForAccept"} => Fresh(o, h)
    /\ c \in Pool /\ o.session = NoId => Fresh(o, h) /\ o.nextId = 0
    /\ c \in Pool /\ o.session # NoId => o.sid = c
    /\ c \in Pool => o.state # "Requesting"
    /\ c \in Initiators => o.state # "WaitingForAccept"
    /\ c \in Initiators /\ o.session # NoId => o.session.obj = c /\ o.session.n < o.nextId
    /\ o.state = "Requesting" => o.task = [mode |-> "request", id |-> o.session]
    /\ o.task.mode = "request" => o.state = "Requesting"
    /\ o.task.mode = "data" =>
        /\ o.state = "Active" /\ o.task.id.obj = c /\ o.task.id.n < o.nextId
        /\ c \in Initiators => o.session.n < o.task.id.n

\* The accepted connection whose id an active initiator uses is in its session.
Linked(c, o) ==
    c \in Initiators /\ o.state = "Active" => o.sid \in Pool /\ conn[o.sid].session = o.session

\* k is the id of a stream that a is an end of.
Route(a, k) ==
    k \in Pool /\ conn[k].session # NoId /\ (a = k \/ a = conn[k].session.obj)

Sessions ==
    /\ \A k \in Pool : conn[k].session # NoId =>
        LET e == conn[k].session.obj
        IN  /\ e \in Initiators /\ Home[e] = Other[Home[k]]
            /\ conn[e].session # NoId /\ conn[k].session.n <= conn[e].session.n
    /\ \A c \in Obj : Linked(c, conn[c])
    /\ \A k, l \in Pool : conn[k].session = conn[l].session /\ conn[k].session # NoId => k = l

\* What a stanza on its way to client p says of the sessions.
Static(m, p) ==
    /\ Home[m.id.obj] = (IF m.type \in {"request", "data"} THEN Other[p] ELSE p)
    /\ m.type = "request" =>
        m.id.obj \in Initiators /\ \A k \in Pool : conn[k].session # m.id
    /\ m.type = "data" => Route(m.id.obj, m.sid)
    /\ m.type = "result" /\ m.sid # NoObj => m.sid \in Pool /\ conn[m.sid].session = m.id

\* What it says of the connection a that took its id: o, h.
Owned(a, o, h, m) ==
    /\ m.id.n < o.nextId
    /\ m.type = "request" =>
        /\ o.session # NoId /\ m.id.n <= o.session.n
        /\ m.id = o.session => Fresh(o, h) /\ o.state # "Active"
    /\ m.type = "data" =>
        /\ a \in Initiators => m.id # o.session
        /\ o.task.mode = "data" /\ m.id = o.task.id => m.sid = o.sid
    /\ m.type = "result" /\ m.sid = NoObj /\ a \in Initiators => m.id # o.session

Valid(m, p) == Static(m, p) /\ Owned(m.id.obj, conn[m.id.obj], hist[m.id.obj], m)

\* No id of a request is used twice.
Distinct(s) ==
    \A i, j \in DOMAIN s :
        s[i].type \in {"request", "data"} /\ s[j].type \in {"request", "data"}
            /\ s[i].id = s[j].id => i = j

\* The chunks c sends on the stream k, the ids that are acknowledged.
Mine(c, k, W) == {m \in W : m.type = "data" /\ m.id.obj = c /\ m.sid = k}
Acks(W) == {m.id : m \in {z \in W : z.type = "result"}}
Sid(c, d) == IF c \in Pool THEN c ELSE d

\* The sender has its state and its task, and gave sent bytes to the wire; G of
\* them arrived; D is on the wire, R acknowledged.
Counts(state, task, sent, G, D, R) ==
    /\ G <= sent
    /\ \A m \in D : G + Len(m.data) <= sent
    /\ \A m \in D : task.mode = "data" /\ m.id = task.id => G + Len(m.data) = sent
    /\ \A m, n \in D : m.data # <<>> /\ n.data # <<>> => m = n
    /\ \A m \in D : m.data # <<>> /\ state # "Idle" => task.mode = "data" /\ m.id = task.id
    /\ state # "Idle" /\ task.mode # "data" => G = sent
    /\ task.mode = "data" /\ task.id \in R => G = sent /\ \A m \in D : m.id # task.id
\* Unless the sender cut its buffer, the bytes are the ones it wrote.
Contents(over, got, D) ==
    ~over => /\ \A i \in DOMAIN got : got[i] = i
             /\ \A m \in D : \A j \in DOMAIN m.data : m.data[j] = Len(got) + j
Carries(o, h, got, D, R) ==
    /\ Counts(o.state, o.task, Sent(o, h), Len(got), D, R)
    /\ Contents(h.over, got, D)

Streams == \A c, d \in Obj : SameStream(c, d) =>
    Carries(conn[c], hist[c], hist[d].got, Mine(c, Sid(c, d), Elems(net[Home[d]])),
            Acks(Elems(net[Home[c]])))

PInv ==
    /\ IInv
    /\ \A c \in Obj : Loc(c, conn[c], hist[c])
    /\ Sessions
    /\ \A p \in Peer : Distinct(net[p]) /\ \A m \in Elems(net[p]) : Valid(m, p)
    /\ Streams

----------------------------------------------------------------------------
(* The stanzas a handler has built so far follow those already on the wire. *)
Wire(c, q, x) == q[Other[Home[c]]] \o x.out
Back(c, q) == Elems(q[Home[c]])

\* y sends z after everything else.
Follows(c, q, x, y, z) ==
    /\ Wire(c, q, x) \in Seq(Stanza)
    /\ Wire(c, q, y) = Append(Wire(c, q, x), z)
    /\ Elems(Wire(c, q, y)) = Elems(Wire(c, q, x)) \cup {z}
    /\ Elems(y.out) = Elems(x.out) \cup {z}

\* z is one more chunk, or a close.
Chunk(c, x, z, a, close) ==
    z = SendData([obj |-> c, n |-> x.o.nextId], x.o.sid, a, close)

\* What a handler may commit, with the queues q.
Ready(c, q, x) ==
    /\ Half(x) /\ Loc(c, x.o, x.h) /\ Linked(c, x.o)
    /\ c \in Pool => x.o.session = conn[c].session
    /\ Distinct(Wire(c, q, x))
    /\ \A m \in Elems(Wire(c, q, x)) \cup Back(c, q) : m.id.obj = c => Owned(c, x.o, x.h, m)
    /\ \A m \in Elems(x.out) :
        /\ Static(m, Other[Home[c]])
        /\ m.id.obj # c => m.type # "data" /\ Owned(m.id.obj, conn[m.id.obj], hist[m.id.obj], m)

Flow(c, k, got, q, x) ==
    Carries(x.o, x.h, got, Mine(c, k, Elems(Wire(c, q, x))), Acks(Back(c, q)))

\* y follows from x by a method: same session, same partner, nothing received.
Extends(c, q, x, y) ==
    /\ y.o.session = x.o.session /\ y.o.sid = x.o.sid /\ y.h.got = x.h.got
    /\ y.o.state \in {x.o.state, "Idle"}
    /\ Acks(Elems(y.out)) = Acks(Elems(x.out))
    /\ \A k : \A got \in Seq(Nat) : Flow(c, k, got, q, x) => Flow(c, k, got, q, y)

\* y is x after it sent z.
AfterSend(c, q, x, y, z) ==
    /\ Ready(c, q, y)
    /\ Acks(Elems(y.out)) = Acks(Elems(x.out))
    /\ \A k : Mine(c, k, Elems(Wire(c, q, y))) \subseteq
                 Mine(c, k, Elems(Wire(c, q, x))) \cup {z}

----------------------------------------------------------------------------
(* Stanzas in sequences.                                                   *)

\* The stanzas of a queue that grows.
LEMMA ElemsAppend ==
    ASSUME NEW S, NEW s \in Seq(S), NEW e
    PROVE  Elems(Append(s, e)) = Elems(s) \cup {e}
<1>1. \A i \in DOMAIN s : Append(s, e)[i] = s[i]
  OBVIOUS
<1>2. DOMAIN Append(s, e) = DOMAIN s \cup {Len(s) + 1} /\ Append(s, e)[Len(s) + 1] = e
  OBVIOUS
<1> QED
  BY <1>1, <1>2 DEF Elems

\* Those of two queues, one after the other.
LEMMA ElemsConcat ==
    ASSUME NEW S, NEW s \in Seq(S), NEW t \in Seq(S)
    PROVE  Elems(s \o t) = Elems(s) \cup Elems(t)
<1>1. \A i \in DOMAIN s : i \in DOMAIN (s \o t) /\ (s \o t)[i] = s[i]
  OBVIOUS
<1>2. \A i \in DOMAIN t : Len(s) + i \in DOMAIN (s \o t) /\ (s \o t)[Len(s) + i] = t[i]
  OBVIOUS
<1>3. \A i \in DOMAIN (s \o t) : i \in DOMAIN s \/ (i - Len(s) \in DOMAIN t
                                                    /\ (s \o t)[i] = t[i - Len(s)])
  OBVIOUS
<1>4. Elems(s \o t) \subseteq Elems(s) \cup Elems(t)
  BY <1>1, <1>3 DEF Elems
<1>5. Elems(s) \cup Elems(t) \subseteq Elems(s \o t)
  BY <1>1, <1>2 DEF Elems
<1> QED
  BY <1>4, <1>5

\* Those that are left when the first is taken.
LEMMA ElemsTail ==
    ASSUME NEW S, NEW s \in Seq(S), s # <<>>
    PROVE  Elems(s) = {Head(s)} \cup Elems(Tail(s))
<1>1. Head(s) = s[1] /\ 1 \in DOMAIN s
  OBVIOUS
<1>2. \A i \in DOMAIN Tail(s) : Tail(s)[i] = s[i + 1] /\ i + 1 \in DOMAIN s
  OBVIOUS
<1>3. \A i \in DOMAIN s : i = 1 \/ (i - 1 \in DOMAIN Tail(s) /\ Tail(s)[i - 1] = s[i])
  OBVIOUS
<1>4. Elems(s) \subseteq {Head(s)} \cup Elems(Tail(s))
  <2> SUFFICES ASSUME NEW i \in DOMAIN s
               PROVE  s[i] \in {Head(s)} \cup {Tail(s)[j] : j \in DOMAIN Tail(s)}
    BY DEF Elems
  <2> QED
    BY <1>1, <1>3
<1>5. {Head(s)} \cup Elems(Tail(s)) \subseteq Elems(s)
  BY <1>1, <1>2 DEF Elems
<1> QED
  BY <1>4, <1>5

\* They are what the queue is made of.
LEMMA ElemsType ==
    ASSUME NEW S, NEW s \in Seq(S)
    PROVE  Elems(s) \subseteq S
  BY DEF Elems

\* Nothing is in an empty queue.
LEMMA ElemsEmpty == Elems(<<>>) = {}
  BY DEF Elems

\* One stanza is in a queue of one.
LEMMA ElemsOne == \A e : Elems(<<e>>) = {e}
<1> SUFFICES ASSUME NEW e PROVE Elems(<<e>>) = {e}
  OBVIOUS
<1>1. DOMAIN <<e>> = {1} /\ <<e>>[1] = e
  OBVIOUS
<1> QED
  BY <1>1 DEF Elems

\* A stanza with a new id, or a response, may follow.
LEMMA DistinctAppend ==
    ASSUME NEW s \in Seq(Stanza), NEW z \in Stanza, Distinct(s),
           z.type \in {"request", "data"} =>
              \A m \in Elems(s) : m.type \in {"request", "data"} => m.id # z.id
    PROVE  Distinct(Append(s, z))
<1>1. \A i \in DOMAIN s : Append(s, z)[i] = s[i] /\ s[i] \in Elems(s)
  BY DEF Elems
<1>2. DOMAIN Append(s, z) = DOMAIN s \cup {Len(s) + 1} /\ Append(s, z)[Len(s) + 1] = z
  OBVIOUS
<1> QED
  BY <1>1, <1>2 DEF Distinct

\* Taking a request off the queue leaves none with its id.
LEMMA DistinctTail ==
    ASSUME NEW s \in Seq(Stanza), s # <<>>, Distinct(s)
    PROVE  /\ Distinct(Tail(s))
           /\ Head(s).type \in {"request", "data"} =>
                \A m \in Elems(Tail(s)) : m.type \in {"request", "data"} => m.id # Head(s).id
<1>1. Head(s) = s[1] /\ 1 \in DOMAIN s
  OBVIOUS
<1>2. \A i \in DOMAIN Tail(s) : Tail(s)[i] = s[i + 1] /\ i + 1 \in DOMAIN s /\ i + 1 # 1
  OBVIOUS
<1>3. ASSUME NEW i \in DOMAIN Tail(s), NEW j \in DOMAIN Tail(s), i + 1 = j + 1
      PROVE  i = j
  BY <1>3
<1>4. Distinct(Tail(s))
  BY <1>2, <1>3 DEF Distinct
<1> QED
  BY <1>1, <1>2, <1>4 DEF Distinct, Elems

----------------------------------------------------------------------------
(* What one step does to the account of a stream.                          *)

\* A chunk a leaves the buffer: nothing else is under way.
LEMMA CountsChunk ==
    ASSUME NEW state, state # "Idle", NEW task, task.mode # "data",
           NEW sent \in Nat, NEW G \in Nat, NEW n \in Nat, NEW id,
           NEW D, \A m \in D : Len(m.data) \in Nat /\ m.id # id /\ (m.data = <<>> => Len(m.data) = 0),
           NEW R, id \notin R, NEW z, z.id = id, Len(z.data) = n,
           Counts(state, task, sent, G, D, R)
    PROVE  Counts(state, [mode |-> "data", id |-> id], sent + n, G, D \cup {z}, R)
<1>1. G = sent /\ \A m \in D : m.data = <<>>
  BY DEF Counts
<1>2. G <= sent + n /\ G + n = sent + n /\ n <= sent + n
  BY <1>1
<1>3. \A m \in D : G + Len(m.data) <= sent + n
  BY <1>1
<1>4. \A m \in D \cup {z} : m.id = id => m = z
  OBVIOUS
<1>5. \A m, l \in D \cup {z} : m.data # <<>> /\ l.data # <<>> => m = l
  BY <1>1
<1>6. \A m \in D \cup {z} : m.data # <<>> => m.id = id
  BY <1>1
<1> DEFINE t == [mode |-> "data", id |-> id]
<1>7. t.mode = "data" /\ t.id = id
  OBVIOUS
<1> HIDE DEF t
<1>8. \A m \in D \cup {z} : G + Len(m.data) <= sent + n
  BY <1>2, <1>3
<1>9. \A m \in D \cup {z} : m.id = id => G + Len(m.data) = sent + n
  BY <1>2, <1>4
<1>10. Counts(state, t, sent + n, G, D \cup {z}, R)
  BY <1>2, <1>5, <1>6, <1>7, <1>8, <1>9 DEF Counts
<1> QED
  BY <1>10 DEF t

\* A stanza without bytes and with a new id.
LEMMA CountsEmpty ==
    ASSUME NEW state, NEW task, NEW sent \in Nat, NEW G \in Nat, NEW D, NEW R,
           NEW z, z.data = <<>>, task.mode = "data" => z.id # task.id,
           Counts(state, task, sent, G, D, R)
    PROVE  Counts(state, task, sent, G, D \cup {z}, R)
<1>1. G + Len(z.data) <= sent
  BY DEF Counts
<1> QED
  BY <1>1 DEF Counts

\* reset(): what was in the buffer counts as sent, nothing more will leave.
LEMMA CountsReset ==
    ASSUME NEW state, NEW task, NEW sent \in Nat, NEW later \in Nat, sent <= later,
           NEW G \in Nat, NEW D, NEW R, \A m \in D : Len(m.data) \in Nat,
           Counts(state, task, sent, G, D, R)
    PROVE  Counts("Idle", NoTask, later, G, D, R)
<1>1. \A m \in D : G + Len(m.data) <= later
  BY DEF Counts
<1>2. G <= later /\ NoTask.mode # "data"
  BY DEF Counts, NoTask
<1> QED
  BY <1>1, <1>2 DEF Counts

\* The task is over because it is acknowledged.
LEMMA CountsAcked ==
    ASSUME NEW state, NEW task, NEW sent, NEW G, NEW D, NEW R, NEW S,
           task.mode = "data", task.id \in R,
           Counts(state, task, sent, G, D, R)
    PROVE  Counts(state, NoTask, sent, G, D, S)
<1>1. NoTask.mode # "data"
  BY DEF NoTask
<1>2. \A m \in D : m.data # <<>> => state = "Idle"
  BY DEF Counts
<1> QED
  BY <1>1, <1>2 DEF Counts

\* Stanzas that are not this stream's come and go.
LEMMA CountsLess ==
    ASSUME NEW state, NEW task, NEW sent, NEW G, NEW D, NEW R, NEW E, NEW S,
           E \subseteq D, task.mode = "data" /\ task.id \in S => task.id \in R,
           Counts(state, task, sent, G, D, R)
    PROVE  Counts(state, task, sent, G, E, S)
  BY DEF Counts

\* The first of the chunks is received and acknowledged.
LEMMA CountsReceived ==
    ASSUME NEW state, NEW task, task.mode = "data" => state # "Idle",
           NEW sent \in Nat, NEW G \in Nat, NEW D, NEW R,
           \A l \in D : Len(l.data) \in Nat /\ (l.data = <<>> <=> Len(l.data) = 0),
           NEW m \in D, NEW E, E \subseteq D, \A l \in E : l.id # m.id,
           NEW S, S \subseteq R \cup {m.id},
           Counts(state, task, sent, G, D, R)
    PROVE  Counts(state, task, sent, G + Len(m.data), E, S)
<1>1. CASE m.data = <<>>
  <2>1. G + Len(m.data) = G
    BY <1>1
  <2>2. task.mode = "data" /\ m.id = task.id => G = sent
    BY <2>1 DEF Counts
  <2> QED
    BY <2>1, <2>2 DEF Counts
<1>2. CASE m.data # <<>>
  <2>1. \A l \in E : l.data = <<>>
    BY <1>2 DEF Counts
  <2>2. \A l \in E : G + Len(m.data) + Len(l.data) = G + Len(m.data)
    <3>1. \A l \in E : Len(l.data) = 0
      BY <2>1
    <3> DEFINE a == G + Len(m.data)
    <3>2. a \in Nat
      OBVIOUS
    <3> HIDE DEF a
    <3>3. a + 0 = a
      BY <3>2
    <3>4. \A l \in E : a + Len(l.data) = a
      BY <3>1, <3>3, Zenon
    <3> QED
      BY <3>4 DEF a
  <2>3. state # "Idle" => task.mode = "data" /\ m.id = task.id
    BY <1>2 DEF Counts
  <2>4. G + Len(m.data) <= sent
    BY DEF Counts
  <2>5. state # "Idle" => G + Len(m.data) = sent
    BY <2>3 DEF Counts
  <2>6. \A l \in E : task.mode = "data" => l.id # task.id
    BY <2>3
  <2> QED
    BY <2>1, <2>2, <2>3, <2>4, <2>5, <2>6 DEF Counts
<1> QED
  BY <1>1, <1>2

\* A stream on which nothing was sent.
LEMMA CountsFresh ==
    ASSUME NEW state, NEW task, task.mode # "data", NEW R
    PROVE  Counts(state, task, 0, 0, {}, R)
  BY DEF Counts

----------------------------------------------------------------------------
(* The methods of the class keep Ready and Flow.                           *)

\* What a method sends comes last on the wire.
LEMMA WireAppend ==
    ASSUME NEW c \in Obj, NEW q \in [Peer -> Seq(Stanza)], NEW x, x.out \in Seq(Stanza),
           NEW z \in Stanza, NEW y, y.out = Append(x.out, z)
    PROVE  Follows(c, q, x, y, z)
<1> DEFINE s == q[Other[Home[c]]]
<1>1. s \in Seq(Stanza)
  BY PeerAssumption, ObjAssumption
<1> HIDE DEF s
<1>2. s \o x.out \in Seq(Stanza)
  BY <1>1, ConcatProperties
<1>3. s \o Append(x.out, z) = Append(s \o x.out, z)
  BY <1>1
<1> QED
  BY <1>2, <1>3, ElemsAppend DEF Follows, Wire, s

\* A record that differs in nothing the stanzas speak of.
LEMMA ReadyKept ==
    ASSUME NEW c \in Obj, NEW q, NEW x, Ready(c, q, x), NEW y, Half(y), Loc(c, y.o, y.h),
           y.out = x.out, y.o.session = x.o.session, y.o.sid = x.o.sid,
           y.o.state \in {x.o.state, "Idle"},
           y.o.nextId = x.o.nextId, y.o.task \in {x.o.task, NoTask},
           Fresh(x.o, x.h) /\ x.o.state # "Active" => Fresh(y.o, y.h)
    PROVE  Ready(c, q, y)
<1>1. Linked(c, y.o)
  BY DEF Ready, Linked
<1>2. Wire(c, q, y) = Wire(c, q, x)
  BY DEF Wire
<1>3. ASSUME NEW m, Owned(c, x.o, x.h, m)
      PROVE  Owned(c, y.o, y.h, m)
  BY <1>3 DEF Owned, NoTask
<1> QED
  BY <1>1, <1>2, <1>3 DEF Ready

\* An active connection may send one more chunk, whose id is new.
LEMMA ReadySend ==
    ASSUME NEW c \in Obj, NEW q \in [Peer -> Seq(Stanza)], NEW x, Ready(c, q, x),
           x.o.state = "Active",
           NEW a \in Seq(Nat), NEW close \in BOOLEAN,
           NEW z, Chunk(c, x, z, a, close),
           NEW y, Half(y), Loc(c, y.o, y.h), y.out = Append(x.out, z),
           y.o.session = x.o.session, y.o.sid = x.o.sid, y.o.state = "Active",
           y.o.nextId = x.o.nextId + 1,
           y.o.task \in {x.o.task, [mode |-> "data", id |-> [obj |-> c, n |-> x.o.nextId]]}
    PROVE  AfterSend(c, q, x, y, z)
<1> DEFINE id == [obj |-> c, n |-> x.o.nextId]
<1>1. x.o \in Connection /\ x.h \in History /\ x.out \in Seq(Stanza)
  BY DEF Ready, Half, Local
<1>2. id \in IqId /\ id.obj = c /\ id.n = x.o.nextId /\ x.o.nextId \in Nat
  BY <1>1 DEF IqId, Connection
<1>3. z \in Stanza /\ z.type = "data" /\ z.id = id /\ z.sid = x.o.sid /\ z.data = a
  <2>1. x.o.sid \in Obj \cup {NoObj}
    BY <1>1 DEF Connection
  <2> HIDE DEF id
  <2> QED
    BY <1>2, <2>1, StanzaTypes DEF SendData, Chunk, id
<1> HIDE DEF id
<1>4. /\ Wire(c, q, x) \in Seq(Stanza)
      /\ Wire(c, q, y) = Append(Wire(c, q, x), z)
      /\ Elems(Wire(c, q, y)) = Elems(Wire(c, q, x)) \cup {z}
      /\ Elems(y.out) = Elems(x.out) \cup {z}
  <2>1. Follows(c, q, x, y, z)
    BY <1>1, <1>3, WireAppend, Zenon
  <2> QED
    BY <2>1 DEF Follows
<1>5. \A m \in Elems(Wire(c, q, x)) \cup Back(c, q) : m.id # id
  <2>1. \A m \in Elems(Wire(c, q, x)) \cup Back(c, q) :
           m.id.obj = c => m.id.n < x.o.nextId
    BY DEF Ready, Owned
  <2> QED
    BY <1>2, <2>1
<1>6. Distinct(Wire(c, q, y))
  BY <1>3, <1>4, <1>5, DistinctAppend DEF Ready
<1>7. Linked(c, y.o)
  BY DEF Ready, Linked
<1>8. ASSUME NEW m \in Elems(Wire(c, q, x)) \cup Back(c, q), m.id.obj = c,
             Owned(c, x.o, x.h, m), m \in Stanza
      PROVE  Owned(c, y.o, y.h, m)
  <2>1. m.id.n < y.o.nextId
    <3>1. m.id.n < x.o.nextId /\ m.id.n \in Nat
      BY <1>8 DEF Owned, Stanza, IqId
    <3> QED
      BY <1>2, <3>1
  <2>2. y.o.task.mode = "data" /\ m.id = y.o.task.id => y.o.task = x.o.task
    <3>1. [mode |-> "data", id |-> id].id = id
      OBVIOUS
    <3> QED
      BY <1>5, <3>1 DEF id
  <2> QED
    BY <1>8, <2>1, <2>2 DEF Owned
<1>9. c \in Initiators => id # x.o.session
  BY <1>2 DEF Ready, Loc, Half, Sound
<1>10. Owned(c, y.o, y.h, z)
  <2>1. z.id.n < y.o.nextId
    BY <1>2, <1>3
  <2> QED
    BY <1>3, <1>9, <2>1 DEF Owned
<1>11. Static(z, Other[Home[c]])
  <2>1. Home[c] = Other[Other[Home[c]]]
    BY PeerAssumption, ObjAssumption
  <2>2. x.o.session # NoId
    BY DEF Ready, Half, Sound
  <2>3. Route(c, x.o.sid)
    <3>1. CASE c \in Pool
      BY <2>2, <3>1 DEF Ready, Route, Loc
    <3>2. CASE c \in Initiators
      BY <2>2, <3>2 DEF Ready, Route, Linked, Loc
    <3> QED
      BY <3>1, <3>2 DEF Obj
  <2> QED
    BY <1>2, <1>3, <2>1, <2>3 DEF Static
<1>12. \A m \in Elems(Wire(c, q, x)) \cup Back(c, q) : m \in Stanza
  BY <1>4, ElemsType, ObjAssumption DEF Back
<1>13. \A m \in Elems(Wire(c, q, y)) \cup Back(c, q) : m.id.obj = c => Owned(c, y.o, y.h, m)
  BY <1>4, <1>8, <1>10, <1>12 DEF Ready
<1>14. \A m \in Elems(y.out) :
        /\ Static(m, Other[Home[c]])
        /\ m.id.obj # c => m.type # "data" /\ Owned(m.id.obj, conn[m.id.obj], hist[m.id.obj], m)
  BY <1>2, <1>3, <1>4, <1>11 DEF Ready
<1>15. Ready(c, q, y)
  <2>1. c \in Pool => y.o.session = conn[c].session
    BY DEF Ready
  <2> QED
    BY <1>6, <1>7, <1>13, <1>14, <2>1 DEF Ready
<1>16. Acks(Elems(y.out)) = Acks(Elems(x.out))
  BY <1>3, <1>4 DEF Acks
<1>17. ASSUME NEW k
       PROVE  Mine(c, k, Elems(Wire(c, q, y))) \subseteq
                Mine(c, k, Elems(Wire(c, q, x))) \cup {z}
  BY <1>4 DEF Mine
<1> QED
  BY <1>15, <1>16, <1>17 DEF AfterSend

\* The parts of a record.
LEMMA Parts ==
    ASSUME NEW x, Half(x)
    PROVE  x.o \in Connection /\ x.h \in History /\ x.out \in Seq(Stanza) /\ Sound(x.o, x.h)
  BY DEF Half, Local

\* The chunks of a stream are stanzas.
LEMMA MineType ==
    ASSUME NEW c \in Obj, NEW q \in [Peer -> Seq(Stanza)], NEW x, Half(x), NEW k
    PROVE  \A m \in Mine(c, k, Elems(Wire(c, q, x))) :
              /\ m \in Stanza /\ m \in Elems(Wire(c, q, x)) /\ m.id.obj = c
              /\ m.data \in Seq(Nat) /\ Len(m.data) \in Nat
              /\ m.data = <<>> <=> Len(m.data) = 0
<1>1. Other[Home[c]] \in Peer /\ x.out \in Seq(Stanza)
  BY PeerAssumption, ObjAssumption, Parts
<1>2. Wire(c, q, x) \in Seq(Stanza)
  BY <1>1, ConcatProperties DEF Wire
<1>3. \A m \in Mine(c, k, Elems(Wire(c, q, x))) :
        m \in Stanza /\ m \in Elems(Wire(c, q, x)) /\ m.id.obj = c
  BY <1>2, ElemsType DEF Mine
<1>4. \A m \in Stanza : m.data \in Seq(Nat)
  BY DEF Stanza
<1>5. \A s \in Seq(Nat) : Len(s) \in Nat /\ (s = <<>> <=> Len(s) = 0)
  OBVIOUS
<1> QED
  BY <1>3, <1>4, <1>5

\* What is sent and the number of bytes that arrived are numbers.
LEMMA SentType ==
    ASSUME NEW c, NEW o \in Connection, NEW h \in History, Loc(c, o, h)
    PROVE  Sent(o, h) \in Nat /\ h.written \in Nat /\ Sent(o, h) <= h.written
<1>1. Len(o.sendbuf) \in Nat /\ h.written \in Nat /\ Len(o.sendbuf) <= h.written
  BY DEF Loc, Connection, History
<1> QED
  BY <1>1 DEF Sent

\* What trySend() does if it sends anything.
LEMMA TrySendParts ==
    ASSUME NEW c \in Obj, NEW x, Half(x), Loc(c, x.o, x.h), TrySend(c, x) # x,
           NEW y, y = TrySend(c, x)
    PROVE  \E n \in Nat :
            LET a == SubSeq(x.o.sendbuf, 1, n)
                id == [obj |-> c, n |-> x.o.nextId]
            IN  /\ n <= Len(x.o.sendbuf) /\ a \in Seq(Nat) /\ Len(a) = n
                /\ Len(x.o.sendbuf) <= PacketSize => n = Len(x.o.sendbuf)
                /\ x.o.state = "Active" /\ x.o.task = NoTask
                /\ \E doClose \in BOOLEAN :
                     y.out = Append(x.out, SendData(id, x.o.sid, a, doClose))
                /\ y.o.session = x.o.session /\ y.o.sid = x.o.sid /\ y.o.state = "Active"
                /\ y.o.nextId = x.o.nextId + 1
                /\ y.o.task = [mode |-> "data", id |-> id]
                /\ y.o.sendbuf \in Seq(Nat) /\ Len(y.o.sendbuf) = Len(x.o.sendbuf) - n
                /\ y.h.written = x.h.written /\ y.h.got = x.h.got
                /\ ~y.h.over => ~x.h.over /\ Len(x.o.sendbuf) <= PacketSize
<1> DEFINE n == ChunkSize(x.o)
           a == SubSeq(x.o.sendbuf, 1, n)
           rest == AfterChunk(x.o)
           doClose == rest = <<>> /\ x.o.closePending
           id == [obj |-> c, n |-> x.o.nextId]
           sent == [o |-> [x.o EXCEPT !.sendbuf = rest,
                                !.closePending = @ /\ ~doClose,
                                !.closing = @ \/ doClose,
                                !.blockSize = Len(a),
                                !.task = [mode |-> "data", id |-> id],
                                !.nextId = @ + 1],
              h |-> [x.h EXCEPT !.over = @ \/ Len(x.o.sendbuf) > PacketSize],
              out |-> Append(x.out, SendData(id, x.o.sid, a, doClose))]
<1>1. y = sent /\ x.o.task = NoTask /\ (a # <<>> \/ doClose)
  BY DEF TrySend
<1>2. x.o \in Connection /\ x.h \in History /\ x.out \in Seq(Stanza) /\ Sound(x.o, x.h)
  BY Parts
<1>3. x.o.sendbuf \in Seq(Nat) /\ Len(x.o.sendbuf) \in Nat
  BY <1>2 DEF Connection
<1>4. n \in Nat /\ n <= Len(x.o.sendbuf) /\ Len(x.o.sendbuf) - n \in Nat
  BY <1>3, SizeAssumption DEF ChunkSize
<1>5. a \in Seq(Nat) /\ Len(a) = n
  BY <1>3, <1>4, Prefix
<1>6. rest \in Seq(Nat) /\ Len(rest) = Len(x.o.sendbuf) - n
  BY <1>3, <1>4, Prefix, SMTT(30) DEF AfterChunk
<1>7. Len(x.o.sendbuf) <= PacketSize => n = Len(x.o.sendbuf)
  BY <1>3, SizeAssumption DEF ChunkSize
<1>8. x.o.state = "Active"
  <2>1. x.o.sendbuf # <<>> \/ x.o.closePending
    BY <1>1, <1>3, <1>4, <1>5
  <2>2. x.o.state # "Idle" /\ x.o.state # "WaitingForAccept"
    BY <1>2, <2>1 DEF Sound, Loc, Fresh
  <2>3. x.o.state # "Requesting"
    BY <1>1 DEF Loc, NoTask
  <2> QED
    BY <1>2, <2>2, <2>3 DEF Connection, States
<1> HIDE DEF a, rest, n, doClose
<1>9. /\ sent.o.session = x.o.session /\ sent.o.sid = x.o.sid /\ sent.o.state = x.o.state
      /\ sent.o.nextId = x.o.nextId + 1
      /\ sent.o.task = [mode |-> "data", id |-> id]
      /\ sent.o.sendbuf = rest
  BY <1>2 DEF Connection
<1>10. /\ sent.h.written = x.h.written /\ sent.h.got = x.h.got
       /\ sent.h.over = (x.h.over \/ Len(x.o.sendbuf) > PacketSize)
       /\ sent.out = Append(x.out, SendData(id, x.o.sid, a, doClose))
  BY <1>2 DEF History
<1>11. ~sent.h.over => ~x.h.over /\ Len(x.o.sendbuf) <= PacketSize
  <2>1. ~(Len(x.o.sendbuf) > PacketSize) => Len(x.o.sendbuf) <= PacketSize
    BY <1>3, SizeAssumption
  <2> QED
    BY <1>10, <2>1, Zenon
<1>12. doClose \in BOOLEAN
  BY DEF doClose
<1> HIDE DEF sent
<1> WITNESS n \in Nat
<1> QED
  BY <1>1, <1>4, <1>5, <1>6, <1>7, <1>8, <1>9, <1>10, <1>11, <1>12 DEF a

\* trySend() takes the next chunk when there is no task, and only then.
LEMMA TrySendKeepsReady ==
    ASSUME NEW c \in Obj, NEW q \in [Peer -> Seq(Stanza)], NEW x, Ready(c, q, x)
    PROVE  Ready(c, q, TrySend(c, x)) /\ Extends(c, q, x, TrySend(c, x))
<1> DEFINE y == TrySend(c, x)
<1> HIDE DEF y
<1> SUFFICES Ready(c, q, y) /\ Extends(c, q, x, y)
  BY DEF y
<1>1. CASE y = x
  BY <1>1 DEF Extends
<1>2. CASE y # x
  <2>1. Half(x) /\ Loc(c, x.o, x.h) /\ Half(y)
    BY TrySendHalf DEF Ready, y
  <2>2. PICK n \in Nat :
            LET a == SubSeq(x.o.sendbuf, 1, n)
                id == [obj |-> c, n |-> x.o.nextId]
            IN  /\ n <= Len(x.o.sendbuf) /\ a \in Seq(Nat) /\ Len(a) = n
                /\ Len(x.o.sendbuf) <= PacketSize => n = Len(x.o.sendbuf)
                /\ x.o.state = "Active" /\ x.o.task = NoTask
                /\ \E doClose \in BOOLEAN :
                     y.out = Append(x.out, SendData(id, x.o.sid, a, doClose))
                /\ y.o.session = x.o.session /\ y.o.sid = x.o.sid /\ y.o.state = "Active"
                /\ y.o.nextId = x.o.nextId + 1
                /\ y.o.task = [mode |-> "data", id |-> id]
                /\ y.o.sendbuf \in Seq(Nat) /\ Len(y.o.sendbuf) = Len(x.o.sendbuf) - n
                /\ y.h.written = x.h.written /\ y.h.got = x.h.got
                /\ ~y.h.over => ~x.h.over /\ Len(x.o.sendbuf) <= PacketSize
    BY <1>2, <2>1, TrySendParts DEF y
  <2> DEFINE a == SubSeq(x.o.sendbuf, 1, n)
             id == [obj |-> c, n |-> x.o.nextId]
  <2>3. PICK doClose \in BOOLEAN : y.out = Append(x.out, SendData(id, x.o.sid, a, doClose))
    BY <2>2
  <2> DEFINE z == SendData(id, x.o.sid, a, doClose)
  <2>4. /\ x.o \in Connection /\ x.h \in History /\ Sound(x.o, x.h)
        /\ y.o \in Connection /\ y.h \in History
    BY <2>1, Parts
  <2>5. /\ Len(x.o.sendbuf) \in Nat /\ x.h.written \in Nat /\ x.o.nextId \in Nat
        /\ Len(x.o.sendbuf) <= x.h.written /\ x.o.sendbuf \in Seq(Nat)
    <3>1. x.o.sendbuf \in Seq(Nat) /\ x.h.written \in Nat /\ x.o.nextId \in Nat
      BY <2>4 DEF Connection, History
    <3>2. Len(x.o.sendbuf) <= x.h.written
      BY <2>1 DEF Loc
    <3> QED
      BY <3>1, <3>2
  <2>6. n <= Len(x.o.sendbuf) /\ Len(y.o.sendbuf) = Len(x.o.sendbuf) - n
    BY <2>2
  <2>7. Sent(y.o, y.h) = Sent(x.o, x.h) + n /\ Sent(x.o, x.h) \in Nat
    <3>1. y.h.written = x.h.written
      BY <2>2
    <3> QED
      BY <2>5, <2>6, <3>1 DEF Sent
  <2>8. ~y.h.over => n = Len(x.o.sendbuf) /\ y.o.sendbuf = <<>> /\ ~x.h.over
    <3>1. ~y.h.over => n = Len(x.o.sendbuf) /\ ~x.h.over
      BY <2>2
    <3>2. n = Len(x.o.sendbuf) => Len(y.o.sendbuf) = 0
      BY <2>5, <2>6
    <3>3. y.o.sendbuf \in Seq(Nat)
      BY <2>2
    <3> QED
      BY <3>1, <3>2, <3>3
  <2>9. Loc(c, y.o, y.h)
    <3>1. Len(y.o.sendbuf) <= y.h.written
      BY <2>2, <2>5, <2>6, SMTT(30)
    <3>2. ~y.h.over => \A i \in DOMAIN y.o.sendbuf : y.o.sendbuf[i] = Sent(y.o, y.h) + i
      BY <2>8
    <3>3. x.o.session # NoId
      BY <2>2, <2>4 DEF Sound
    <3>4. c \in Initiators => x.o.session.obj = c /\ x.o.session.n < x.o.nextId
                              /\ x.o.session.n \in Nat
      BY <2>1, <2>4, <3>3 DEF Loc, Connection, IqId
    <3>5. c \in Initiators => y.o.session.obj = c /\ y.o.session.n < y.o.nextId
      BY <2>2, <2>5, <3>4, SMTT(30)
    <3>6. y.o.task.mode = "data" /\ y.o.task.id.obj = c /\ y.o.task.id.n = x.o.nextId
      BY <2>2
    <3>7. x.o.nextId < y.o.nextId
      BY <2>2, <2>5
    <3>8. /\ y.o.state = "Active" /\ y.o.session # NoId
          /\ c \in Pool => y.o.sid = c
          /\ c \in Initiators => y.o.session.n < x.o.nextId
      BY <2>1, <2>2, <3>3, <3>4 DEF Loc
    <3> QED
      BY <3>1, <3>2, <3>5, <3>6, <3>7, <3>8 DEF Loc
  <2>10. /\ a \in Seq(Nat) /\ x.o.state = "Active" /\ y.o.state = "Active"
         /\ y.o.session = x.o.session /\ y.o.sid = x.o.sid /\ y.o.nextId = x.o.nextId + 1
         /\ y.h.got = x.h.got
         /\ y.o.task = [mode |-> "data", id |-> id]
    BY <2>2
  <2> HIDE DEF a, z
  <2>11. /\ Ready(c, q, y)
         /\ Acks(Elems(y.out)) = Acks(Elems(x.out))
         /\ \A k : Mine(c, k, Elems(Wire(c, q, y))) \subseteq
                      Mine(c, k, Elems(Wire(c, q, x))) \cup {z}
    <3>1. y.out = Append(x.out, z) /\ Chunk(c, x, z, a, doClose)
      BY <2>3 DEF z, a, Chunk
    <3>2. y.o.task \in {x.o.task, [mode |-> "data", id |-> [obj |-> c, n |-> x.o.nextId]]}
      BY <2>10
    <3> HIDE DEF id
    <3>3. AfterSend(c, q, x, y, z)
      BY <2>1, <2>9, <2>10, <3>1, <3>2, ReadySend, Zenon
    <3> QED
      BY <3>3 DEF AfterSend
  <2>12. ASSUME NEW k, NEW got \in Seq(Nat), Flow(c, k, got, q, x)
         PROVE  Flow(c, k, got, q, y)
    <3> DEFINE D == Mine(c, k, Elems(Wire(c, q, x)))
               R == Acks(Back(c, q))
    <3>1. \A m \in D : Len(m.data) \in Nat /\ m.id # id /\ (m.data = <<>> => Len(m.data) = 0)
      <4>1. \A m \in D : m.id.n < x.o.nextId
        BY <2>1, MineType DEF Ready, Owned
      <4>2. \A m \in D : m.id # id
        BY <2>5, <4>1
      <4> QED
        BY <2>1, <4>2, MineType
    <3>2. id \notin R
      BY <2>5 DEF Acks, Ready, Owned
    <3>3. z.id = id /\ Len(z.data) = n /\ z.data = a
      BY <2>2 DEF z, a, SendData
    <3>4. x.o.task.mode # "data"
      BY <2>2 DEF NoTask
    <3>5. Counts(x.o.state, x.o.task, Sent(x.o, x.h), Len(got), D, R)
          /\ Contents(x.h.over, got, D)
      BY <2>12 DEF Flow, Carries
    <3>6. Len(got) \in Nat
      OBVIOUS
    <3> HIDE DEF D, R, id
    <3>7. Counts(y.o.state, y.o.task, Sent(y.o, y.h), Len(got), D \cup {z}, R)
      <4>1. x.o.state # "Idle" /\ y.o.state = x.o.state
        BY <2>10
      <4>2. Counts(x.o.state, [mode |-> "data", id |-> id], Sent(x.o, x.h) + n, Len(got),
                   D \cup {z}, R)
        BY <2>7, <3>1, <3>2, <3>3, <3>4, <3>5, <3>6, <4>1, CountsChunk, Zenon
      <4> QED
        BY <2>7, <2>10, <4>1, <4>2, Zenon
    <3>8. Contents(y.h.over, got, D \cup {z})
      <4>1. Len(got) = Sent(x.o, x.h)
        BY <2>10, <3>4, <3>5 DEF Counts
      <4>2. ASSUME ~y.h.over, NEW j \in DOMAIN a
            PROVE  a[j] = Len(got) + j
        <5>1. n = Len(x.o.sendbuf) /\ ~x.h.over
          BY <2>8, <4>2
        <5>2. a = x.o.sendbuf
          BY <2>5, <5>1 DEF a
        <5> QED
          BY <2>1, <4>1, <5>1, <5>2 DEF Loc
      <4> QED
        BY <2>8, <3>3, <3>5, <4>2 DEF Contents
    <3>9. Mine(c, k, Elems(Wire(c, q, y))) \subseteq D \cup {z}
      BY <2>11 DEF D
    <3>10. Counts(y.o.state, y.o.task, Sent(y.o, y.h), Len(got),
                  Mine(c, k, Elems(Wire(c, q, y))), R)
      BY <3>7, <3>9, CountsLess
    <3> QED
      BY <3>8, <3>9, <3>10 DEF Flow, Carries, Contents, R
  <2> QED
    BY <2>10, <2>11, <2>12 DEF Extends
<1> QED
  BY <1>1, <1>2

\* What reset() leaves.
LEMMA ResetParts ==
    ASSUME NEW x, Half(x), NEW clear, NEW ending, NEW y, y = ResetEnding(x, clear, ending)
    PROVE  /\ y.out = x.out /\ y.o.session = x.o.session /\ y.o.sid = x.o.sid
           /\ y.o.state = "Idle" /\ y.o.nextId = x.o.nextId /\ y.o.task = NoTask
           /\ y.o.sendbuf = <<>> /\ ~y.o.closePending
           /\ y.h.written = x.h.written /\ y.h.got = x.h.got /\ y.h.over = x.h.over
<1>1. x.o \in Connection /\ x.h \in History
  BY Parts
<1>2. y = [x EXCEPT !.o = Reset(x.o, clear), !.h.ended = ending]
  BY DEF ResetEnding
<1>3. y.out = x.out /\ y.o = Reset(x.o, clear) /\ y.h = [x.h EXCEPT !.ended = ending]
  <2> DEFINE r == Reset(x.o, clear)
  <2> HIDE DEF r
  <2>1. y = [x EXCEPT !.o = r, !.h.ended = ending]
    BY <1>2 DEF r
  <2>2. x = [o |-> x.o, h |-> x.h, out |-> x.out]
    BY DEF Half, Local
  <2>3. y.out = x.out /\ y.o = r /\ y.h = [x.h EXCEPT !.ended = ending]
    BY <2>1, <2>2 DEF Half, Local
  <2> QED
    BY <2>3 DEF r
<1> QED
  BY <1>1, <1>3 DEF Reset, Connection, History

\* Nothing more will be sent, what was sent stays on its way.
LEMMA ResetKeepsReady ==
    ASSUME NEW c \in Obj, NEW q \in [Peer -> Seq(Stanza)], NEW x, Ready(c, q, x),
           NEW clear, NEW ending, NEW y, y = ResetEnding(x, clear, ending), Half(y)
    PROVE  Ready(c, q, y) /\ Extends(c, q, x, y)
<1>1. /\ y.out = x.out /\ y.o.session = x.o.session /\ y.o.sid = x.o.sid
      /\ y.o.state = "Idle" /\ y.o.nextId = x.o.nextId /\ y.o.task = NoTask
      /\ y.o.sendbuf = <<>> /\ ~y.o.closePending
      /\ y.h.written = x.h.written /\ y.h.got = x.h.got /\ y.h.over = x.h.over
  BY ResetParts DEF Ready
<1>2. Half(x) /\ Loc(c, x.o, x.h)
  BY DEF Ready
<1>3. x.o \in Connection /\ x.h \in History
  BY <1>2, Parts
<1>4. Sent(x.o, x.h) \in Nat /\ x.h.written \in Nat /\ Sent(x.o, x.h) <= x.h.written
  BY <1>2, <1>3, SentType
<1>5. Sent(y.o, y.h) = x.h.written
  BY <1>1, <1>4 DEF Sent
<1>6. Fresh(x.o, x.h) => Fresh(y.o, y.h)
  BY <1>1 DEF Fresh
<1>7. Loc(c, y.o, y.h)
  <2>1. Len(y.o.sendbuf) <= y.h.written
    BY <1>1, <1>4
  <2>2. \A i \in DOMAIN y.o.sendbuf : FALSE
    BY <1>1
  <2>3. y.o.task.mode = "none"
    BY <1>1 DEF NoTask
  <2> QED
    BY <1>1, <1>2, <1>6, <2>1, <2>2, <2>3 DEF Loc
<1>8. Ready(c, q, y)
  BY <1>1, <1>6, <1>7, ReadyKept
<1>9. ASSUME NEW k, NEW got \in Seq(Nat), Flow(c, k, got, q, x)
      PROVE  Flow(c, k, got, q, y)
  <2> DEFINE D == Mine(c, k, Elems(Wire(c, q, x)))
             R == Acks(Back(c, q))
  <2>1. \A m \in D : Len(m.data) \in Nat
    BY <1>2, MineType
  <2>2. Mine(c, k, Elems(Wire(c, q, y))) = D
    BY <1>1 DEF Wire
  <2>3. Counts(x.o.state, x.o.task, Sent(x.o, x.h), Len(got), D, R)
        /\ Contents(x.h.over, got, D)
    BY <1>9 DEF Flow, Carries
  <2>4. Len(got) \in Nat
    OBVIOUS
  <2> HIDE DEF D, R
  <2>5. Counts("Idle", NoTask, x.h.written, Len(got), D, R)
    BY <1>4, <2>1, <2>3, <2>4, CountsReset
  <2>6. Counts(y.o.state, y.o.task, Sent(y.o, y.h), Len(got), D, R)
        /\ Contents(y.h.over, got, D)
    BY <1>1, <1>5, <2>3, <2>5, Zenon
  <2> QED
    BY <2>2, <2>6 DEF Flow, Carries, R
<1> QED
  BY <1>1, <1>8, <1>9 DEF Extends

\* write() puts new bytes behind the others.
LEMMA BufferKeepsReady ==
    ASSUME NEW c \in Obj, NEW q \in [Peer -> Seq(Stanza)], NEW x, Ready(c, q, x),
           x.o.state = "Active", NEW n \in Nat, NEW y, Half(y),
           y.out = x.out, y.o.session = x.o.session, y.o.sid = x.o.sid,
           y.o.state = x.o.state, y.o.nextId = x.o.nextId, y.o.task = x.o.task,
           y.o.sendbuf = x.o.sendbuf \o [i \in 1..n |-> x.h.written + i],
           y.h.written = x.h.written + n, y.h.got = x.h.got, y.h.over = x.h.over
    PROVE  Ready(c, q, y) /\ Extends(c, q, x, y)
<1> DEFINE new == [i \in 1..n |-> x.h.written + i]
           L == Len(x.o.sendbuf)
           w == x.h.written
<1>1. Half(x) /\ Loc(c, x.o, x.h)
  BY DEF Ready
<1>2. x.o \in Connection /\ x.h \in History /\ Sound(x.o, x.h)
  BY <1>1, Parts
<1>3. x.o.sendbuf \in Seq(Nat) /\ w \in Nat /\ L \in Nat
  BY <1>2 DEF Connection, History
<1>4. L <= w /\ (~x.h.over => \A i \in DOMAIN x.o.sendbuf : x.o.sendbuf[i] = w - L + i)
  BY <1>1 DEF Loc, Sent
<1>5. new \in Seq(Nat) /\ Len(new) = n /\ \A i \in 1..n : new[i] = w + i
  BY <1>3, SMTT(30)
<1>6. Len(y.o.sendbuf) = L + n /\ y.o.sendbuf \in Seq(Nat)
      /\ \A i \in 1..(L + n) : y.o.sendbuf[i] = IF i <= L THEN x.o.sendbuf[i] ELSE new[i - L]
  <2>1. y.o.sendbuf = x.o.sendbuf \o new
    OBVIOUS
  <2> HIDE DEF new
  <2> QED
    BY <1>3, <1>5, <2>1, ConcatProperties, SMTT(30)
<1> HIDE DEF new, L, w
<1>7. Sent(y.o, y.h) = Sent(x.o, x.h) /\ Sent(x.o, x.h) = w - L /\ y.h.written = w + n
  <2>1. Sent(x.o, x.h) = w - L /\ y.h.written = w + n
    BY DEF Sent, w, L
  <2>2. Sent(y.o, y.h) = (w + n) - (L + n)
    BY <1>6, <2>1 DEF Sent
  <2>3. (w + n) - (L + n) = w - L
    BY <1>3
  <2> QED
    BY <2>1, <2>2, <2>3, Zenon
<1>8. Loc(c, y.o, y.h)
  <2>1. Len(y.o.sendbuf) <= y.h.written
    BY <1>3, <1>4, <1>6, <1>7
  <2>2. ASSUME ~y.h.over, NEW i \in DOMAIN y.o.sendbuf
        PROVE  y.o.sendbuf[i] = Sent(y.o, y.h) + i
    <3>1. i \in 1..(L + n)
      BY <1>6, <2>2
    <3>2. i \in Nat /\ i >= 1 /\ i <= L + n
      BY <1>3, <3>1
    <3>3. CASE i <= L
      <4>1. i \in DOMAIN x.o.sendbuf
        BY <1>3, <3>2, <3>3 DEF L
      <4>2. x.o.sendbuf[i] = w - L + i
        BY <1>4, <2>2, <4>1
      <4> QED
        BY <1>6, <1>7, <3>1, <3>3, <4>2
    <3>4. CASE ~(i <= L)
      <4>1. i - L \in 1..n
        BY <1>3, <3>2, <3>4
      <4>2. new[i - L] = w + (i - L)
        BY <1>5, <4>1
      <4>3. w + (i - L) = w - L + i
        BY <1>3, <3>2
      <4> QED
        BY <1>6, <1>7, <3>1, <3>4, <4>2, <4>3
    <3> QED
      BY <3>3, <3>4
  <2>3. x.o.session # NoId
    BY <1>2 DEF Sound
  <2> QED
    BY <1>1, <2>1, <2>2, <2>3 DEF Loc
<1>9. Ready(c, q, y)
  BY <1>8, ReadyKept
<1>10. Wire(c, q, y) = Wire(c, q, x)
  BY DEF Wire
<1>11. ASSUME NEW k, NEW got \in Seq(Nat), Flow(c, k, got, q, x)
       PROVE  Flow(c, k, got, q, y)
  BY <1>7, <1>10, <1>11 DEF Flow, Carries
<1> QED
  BY <1>9, <1>11 DEF Extends

\* Flags and timers change nothing that matters to the stream.
LEMMA FlagKeepsReady ==
    ASSUME NEW c \in Obj, NEW q, NEW x, Ready(c, q, x), NEW y, Half(y),
           y.o.state = "Active" \/ (Fresh(x.o, x.h) => Fresh(y.o, y.h)),
           y.out = x.out, y.o.session = x.o.session, y.o.sid = x.o.sid,
           y.o.state = x.o.state, y.o.nextId = x.o.nextId, y.o.task = x.o.task,
           y.o.sendbuf = x.o.sendbuf,
           y.h.written = x.h.written, y.h.got = x.h.got, y.h.over = x.h.over
    PROVE  Ready(c, q, y) /\ Extends(c, q, x, y)
<1>1. Half(x) /\ Loc(c, x.o, x.h) /\ Sound(x.o, x.h)
  BY DEF Ready, Half
<1>2. Sent(y.o, y.h) = Sent(x.o, x.h)
  BY DEF Sent
<1>3. y.o.state = "Active" => y.o.session # NoId
  BY <1>1 DEF Sound
<1>4. Loc(c, y.o, y.h)
  BY <1>1, <1>2, <1>3 DEF Loc
<1>5. Ready(c, q, y)
  BY <1>4, ReadyKept
<1>6. Wire(c, q, y) = Wire(c, q, x)
  BY DEF Wire
<1>7. ASSUME NEW k, NEW got \in Seq(Nat), Flow(c, k, got, q, x)
      PROVE  Flow(c, k, got, q, y)
  BY <1>2, <1>6, <1>7 DEF Flow, Carries
<1> QED
  BY <1>5, <1>7 DEF Extends

\* The stanza with close set carries no bytes.
LEMMA CloseStanzaKeepsReady ==
    ASSUME NEW c \in Obj, NEW q \in [Peer -> Seq(Stanza)], NEW x, Ready(c, q, x),
           x.o.state = "Active", NEW z, Chunk(c, x, z, <<>>, TRUE),
           NEW y, Half(y), y.out = Append(x.out, z),
           y.o.session = x.o.session, y.o.sid = x.o.sid, y.o.state = x.o.state,
           y.o.nextId = x.o.nextId + 1, y.o.task = x.o.task, y.o.sendbuf = x.o.sendbuf,
           y.h.written = x.h.written, y.h.got = x.h.got, y.h.over = x.h.over
    PROVE  Ready(c, q, y) /\ Extends(c, q, x, y)
<1>1. Half(x) /\ Loc(c, x.o, x.h) /\ Sound(x.o, x.h)
  BY DEF Ready, Half
<1>2. x.o \in Connection /\ x.h \in History /\ x.o.nextId \in Nat
  BY <1>1, Parts DEF Connection
<1>3. Sent(y.o, y.h) = Sent(x.o, x.h) /\ Sent(x.o, x.h) \in Nat
  BY <1>1, <1>2, SentType DEF Sent
<1>4. x.o.session # NoId
  BY <1>1 DEF Sound
<1>5. \A n \in Nat : n < x.o.nextId => n < y.o.nextId
  BY <1>2
<1>6. x.o.session \in IqId /\ x.o.task.id \in IqId \cup {NoId}
  BY <1>2, <1>4 DEF Connection, Task
<1>7. x.o.session.n \in Nat /\ x.o.task.id.n \in Nat
  BY <1>6 DEF IqId, NoId
<1>8. Loc(c, y.o, y.h)
  BY <1>1, <1>3, <1>4, <1>5, <1>7 DEF Loc
<1>9. AfterSend(c, q, x, y, z)
  <2>1. <<>> \in Seq(Nat) /\ TRUE \in BOOLEAN
    OBVIOUS
  <2>2. y.o.task \in {x.o.task, [mode |-> "data", id |-> [obj |-> c, n |-> x.o.nextId]]}
    OBVIOUS
  <2>3. y.o.state = "Active"
    OBVIOUS
  <2> QED
    BY <1>8, <2>1, <2>2, <2>3, ReadySend, Zenon
<1>10. ASSUME NEW k, NEW got \in Seq(Nat), Flow(c, k, got, q, x)
       PROVE  Flow(c, k, got, q, y)
  <2> DEFINE D == Mine(c, k, Elems(Wire(c, q, x)))
             R == Acks(Back(c, q))
             E == Mine(c, k, Elems(Wire(c, q, y)))
  <2>1. E \subseteq D \cup {z}
    BY <1>9 DEF AfterSend
  <2>2. z.data = <<>> /\ z.id.n = x.o.nextId
    BY DEF Chunk, SendData
  <2>3. x.o.task.mode = "data" => z.id # x.o.task.id
    BY <1>1, <1>2, <2>2 DEF Loc
  <2>4. Counts(x.o.state, x.o.task, Sent(x.o, x.h), Len(got), D, R)
        /\ Contents(x.h.over, got, D)
    BY <1>10 DEF Flow, Carries
  <2>5. Len(got) \in Nat
    OBVIOUS
  <2> HIDE DEF D, R, E
  <2>6. Counts(x.o.state, x.o.task, Sent(x.o, x.h), Len(got), D \cup {z}, R)
    BY <1>3, <2>2, <2>3, <2>4, <2>5, CountsEmpty
  <2>7. Counts(x.o.state, x.o.task, Sent(x.o, x.h), Len(got), E, R)
    BY <2>1, <2>6, CountsLess
  <2>8. Contents(y.h.over, got, E)
    BY <2>1, <2>2, <2>4 DEF Contents
  <2> QED
    BY <1>3, <2>7, <2>8 DEF Flow, Carries, E, R
<1> QED
  BY <1>9, <1>10 DEF Extends, AfterSend

\* A request is refused to the connection that made it.
LEMMA RefusalKeepsReady ==
    ASSUME PInv, NEW c \in Obj, NEW q \in [Peer -> Seq(Stanza)], NEW x, Ready(c, q, x),
           x.o.state = "WaitingForAccept", NEW z, z = Error(x.o.session),
           NEW y, Half(y), y.out = Append(x.out, z), y.o = x.o, y.h = x.h
    PROVE  Ready(c, q, y) /\ Extends(c, q, x, y)
<1>1. Half(x) /\ Loc(c, x.o, x.h) /\ Sound(x.o, x.h) /\ x.out \in Seq(Stanza)
  BY Parts DEF Ready
<1>2. x.o \in Connection /\ x.o.session # NoId /\ x.o.session \in IqId
  BY <1>1, Parts DEF Sound, Connection
<1>3. c \in Pool /\ conn[c].session = x.o.session
  BY <1>1 DEF Obj, Loc, Ready
<1> DEFINE e == x.o.session.obj
<1>4. /\ e \in Initiators /\ Home[e] = Other[Home[c]]
      /\ conn[e].session # NoId /\ x.o.session.n <= conn[e].session.n
  BY <1>2, <1>3 DEF PInv, Sessions
<1>5. z \in Stanza /\ z.type = "error" /\ z.id = x.o.session
  BY <1>2, StanzaTypes DEF Error
<1>6. e \in Obj /\ e # c
  BY <1>3, <1>4, ObjAssumption DEF Obj
<1>7. z.id.n < conn[e].nextId
  <2>1. conn[e] \in Connection /\ Loc(e, conn[e], hist[e])
    BY <1>6 DEF PInv, IInv, TypeOK
  <2>2. conn[e].session.n < conn[e].nextId
    BY <1>4, <2>1 DEF Loc
  <2>3. conn[e].session \in IqId /\ conn[e].nextId \in Nat
    BY <1>4, <2>1 DEF Connection
  <2>4. conn[e].session.n \in Nat /\ x.o.session.n \in Nat
    BY <1>2, <2>3 DEF IqId
  <2> QED
    BY <1>4, <1>5, <2>2, <2>3, <2>4
<1>8. Owned(e, conn[e], hist[e], z) /\ Static(z, Other[Home[c]])
  BY <1>4, <1>5, <1>7 DEF Owned, Static
<1>9. Follows(c, q, x, y, z)
  BY <1>1, <1>5, WireAppend, Zenon
<1>10. Distinct(Wire(c, q, y))
  BY <1>5, <1>9, DistinctAppend DEF Ready, Follows
<1>11. Ready(c, q, y)
  <2>1. \A m \in Elems(Wire(c, q, y)) \cup Back(c, q) : m.id.obj = c => Owned(c, y.o, y.h, m)
    BY <1>5, <1>6, <1>9 DEF Ready, Follows
  <2>2. \A m \in Elems(y.out) :
          /\ Static(m, Other[Home[c]])
          /\ m.id.obj # c => m.type # "data" /\ Owned(m.id.obj, conn[m.id.obj], hist[m.id.obj], m)
    BY <1>5, <1>8, <1>9 DEF Ready, Follows
  <2> QED
    BY <1>10, <2>1, <2>2 DEF Ready
<1>12. \A k : Mine(c, k, Elems(Wire(c, q, y))) = Mine(c, k, Elems(Wire(c, q, x)))
  BY <1>5, <1>9 DEF Mine, Follows
<1>13. Acks(Elems(y.out)) = Acks(Elems(x.out))
  BY <1>5, <1>9 DEF Acks, Follows
<1> QED
  BY <1>11, <1>12, <1>13 DEF Extends, Flow

\* One method after the other.
LEMMA ExtendsTransitive ==
    ASSUME NEW c, NEW q, NEW x, NEW y, NEW z, Extends(c, q, x, y), Extends(c, q, y, z)
    PROVE  Extends(c, q, x, z)
  BY DEF Extends

\* write() keeps the account of every stream.
LEMMA WriteOpKeepsReady ==
    ASSUME NEW c \in Obj, NEW q \in [Peer -> Seq(Stanza)], NEW x, Ready(c, q, x),
           NEW n \in Nat
    PROVE  Ready(c, q, WriteOp(c, x, n)) /\ Extends(c, q, x, WriteOp(c, x, n))
<1> DEFINE buf == x.o.sendbuf \o [i \in 1..n |-> x.h.written + i]
           o2 == [x.o EXCEPT !.sendbuf = buf]
           h2 == [x.h EXCEPT !.written = @ + n]
           y == [x EXCEPT !.o.sendbuf = buf, !.h.written = @ + n]
<1>1. x.o \in Connection /\ x.h \in History /\ x.out \in Seq(Stanza) /\ Half(x)
  BY Parts DEF Ready
<1>2. CASE ~CanWrite(x.o)
  BY <1>2 DEF WriteOp, Extends
<1>3. CASE CanWrite(x.o)
  <2>1. WriteOp(c, x, n) = TrySend(c, y)
    BY <1>3 DEF WriteOp
  <2>2. x.o.state = "Active"
    BY <1>3 DEF CanWrite
  <2>3. o2 \in Connection /\ h2 \in History
    <3>1. x.o.sendbuf \in Seq(Nat) /\ x.h.written \in Nat
      BY <1>1 DEF Connection, History
    <3>2. [i \in 1..n |-> x.h.written + i] \in Seq(Nat)
      BY <3>1
    <3>3. buf \in Seq(Nat)
      BY <3>1, <3>2, ConcatProperties
    <3>4. o2 \in Connection
      <4> HIDE DEF buf
      <4> QED
        BY <1>1, <3>3 DEF Connection
    <3>5. x.h.written + n \in Nat
      BY <3>1
    <3> QED
      BY <1>1, <3>4, <3>5 DEF History
  <2>9. y \in Local /\ y.o = o2 /\ y.h = h2 /\ y.out = x.out
    <3> HIDE DEF buf
    <3> QED
      BY <1>1, <2>3 DEF Half, Local
  <2>4. /\ o2.session = x.o.session /\ o2.sid = x.o.sid /\ o2.state = x.o.state
        /\ o2.nextId = x.o.nextId /\ o2.task = x.o.task /\ o2.sendbuf = buf
        /\ o2.recvbuf = x.o.recvbuf /\ o2.closePending = x.o.closePending
    <3> HIDE DEF buf
    <3> QED
      BY <1>1 DEF Connection
  <2>5. /\ h2.written = x.h.written + n /\ h2.got = x.h.got /\ h2.over = x.h.over
        /\ h2.ended = x.h.ended /\ h2.read = x.h.read
    BY <1>1 DEF History
  <2>6. Half(y)
    <3> HIDE DEF o2, h2, y
    <3>1. Sound(o2, h2)
      BY <1>1, <2>2, <2>4, <2>5 DEF Half, Sound, Readable
    <3> QED
      BY <2>9, <3>1 DEF Half
  <2> HIDE DEF y, o2, h2
  <2>7. y.o.sendbuf = x.o.sendbuf \o [i \in 1..n |-> x.h.written + i]
    BY <2>4, <2>9 DEF buf
  <2> HIDE DEF buf
  <2>8. Ready(c, q, y) /\ Extends(c, q, x, y)
    BY <2>2, <2>4, <2>5, <2>6, <2>7, <2>9, BufferKeepsReady
  <2> QED
    BY <2>1, <2>8, TrySendKeepsReady, ExtendsTransitive
<1> QED
  BY <1>2, <1>3

\* close(), in each of its states, keeps the account of every stream.
LEMMA CloseOpKeepsReady ==
    ASSUME PInv, NEW c \in Obj, NEW q \in [Peer -> Seq(Stanza)], NEW x, Ready(c, q, x)
    PROVE  Ready(c, q, CloseOp(c, x)) /\ Extends(c, q, x, CloseOp(c, x))
<1>1. x.o \in Connection /\ x.h \in History /\ x.out \in Seq(Stanza) /\ Half(x)
  BY Parts DEF Ready
<1>2. CASE x.o.state = "Idle"
  BY <1>2 DEF CloseOp, Extends
<1>3. Half(CloseOp(c, x))
  BY <1>1, CloseOpHalf
<1>4. CASE x.o.state = "WaitingForAccept"
  <2> DEFINE z == Error(x.o.session)
             y == [x EXCEPT !.out = Append(@, z)]
  <2>1. x.o.session \in IqId
    BY <1>1, <1>4 DEF Half, Sound, Connection
  <2>2. Half(y) /\ y.o = x.o /\ y.h = x.h /\ y.out = Append(x.out, z)
    BY <1>1, <2>1, OutHalf, StanzaTypes DEF Half, Local
  <2>3. CloseOp(c, x) = ResetEnding(y, FALSE, "local")
    BY <1>4 DEF CloseOp
  <2> HIDE DEF y
  <2>4. Ready(c, q, y) /\ Extends(c, q, x, y)
    BY <1>4, <2>2, RefusalKeepsReady
  <2> QED
    BY <1>3, <2>3, <2>4, ResetKeepsReady, ExtendsTransitive
<1>5. CASE x.o.state = "Requesting"
  <2>1. CloseOp(c, x) = ResetEnding(x, FALSE, "cancelled")
    BY <1>5 DEF CloseOp
  <2> QED
    BY <1>3, <2>1, ResetKeepsReady
<1>6. CASE x.o.state = "Active" /\ x.o.sendbuf # <<>>
  <2> DEFINE o2 == [x.o EXCEPT !.closePending = TRUE]
             y == [x EXCEPT !.o.closePending = TRUE]
  <2>1. CloseOp(c, x) = TrySend(c, y)
    BY <1>6 DEF CloseOp
  <2>2. o2 \in Connection /\ Sound(o2, x.h)
    BY <1>1, <1>6 DEF Connection, Half, Sound, Readable, Abandoned
  <2>3. y \in Local /\ y.o = o2 /\ y.h = x.h /\ y.out = x.out
    BY <1>1, <2>2 DEF Half, Local
  <2>4. /\ o2.session = x.o.session /\ o2.sid = x.o.sid /\ o2.state = x.o.state
        /\ o2.nextId = x.o.nextId /\ o2.task = x.o.task /\ o2.sendbuf = x.o.sendbuf
    BY <1>1 DEF Connection
  <2> HIDE DEF o2, y
  <2>5. Half(y)
    BY <2>2, <2>3 DEF Half
  <2>6. Ready(c, q, y) /\ Extends(c, q, x, y)
    BY <1>6, <2>3, <2>4, <2>5, FlagKeepsReady
  <2> QED
    BY <2>1, <2>6, TrySendKeepsReady, ExtendsTransitive
<1>7. CASE x.o.state = "Active" /\ x.o.sendbuf = <<>>
  <2> DEFINE id == [obj |-> c, n |-> x.o.nextId]
             o2 == [x.o EXCEPT !.nextId = @ + 1]
             z == SendData(id, x.o.sid, <<>>, TRUE)
             y == [x EXCEPT !.o.nextId = @ + 1, !.out = Append(@, z)]
  <2>1. CloseOp(c, x) = ResetEnding(y, FALSE, "local")
    BY <1>7 DEF CloseOp
  <2>2. o2 \in Connection /\ Sound(o2, x.h)
    <3>1. x.o.nextId + 1 \in Nat
      BY <1>1 DEF Connection
    <3>2. o2 \in Connection
      BY <1>1, <3>1 DEF Connection
    <3>3. /\ o2.state = x.o.state /\ o2.session = x.o.session /\ o2.recvbuf = x.o.recvbuf
          /\ o2.task = x.o.task /\ o2.sendbuf = x.o.sendbuf
          /\ o2.closePending = x.o.closePending
      BY <1>1 DEF Connection
    <3> HIDE DEF o2
    <3>4. Sound(o2, x.h)
      BY <1>1, <3>3 DEF Half, Sound, Readable
    <3> QED
      BY <3>2, <3>4
  <2>3. id \in IqId /\ x.o.sid \in Obj \cup {NoObj} /\ <<>> \in Seq(Nat)
    BY <1>1 DEF IqId, Connection
  <2>4. z \in Stanza /\ Chunk(c, x, z, <<>>, TRUE)
    BY <2>3, StanzaTypes DEF Chunk
  <2>5. y \in Local /\ y.o = o2 /\ y.h = x.h /\ y.out = Append(x.out, z)
    <3> HIDE DEF z
    <3>1. Append(x.out, z) \in Seq(Stanza)
      BY <1>1, <2>4
    <3> QED
      BY <1>1, <2>2, <3>1 DEF Half, Local
  <2>6. /\ o2.session = x.o.session /\ o2.sid = x.o.sid /\ o2.state = x.o.state
        /\ o2.nextId = x.o.nextId + 1 /\ o2.task = x.o.task /\ o2.sendbuf = x.o.sendbuf
    BY <1>1 DEF Connection
  <2> HIDE DEF o2, y, z
  <2>7. Half(y)
    BY <2>2, <2>5 DEF Half
  <2>8. Ready(c, q, y) /\ Extends(c, q, x, y)
    BY <1>7, <2>4, <2>5, <2>6, <2>7, CloseStanzaKeepsReady
  <2> QED
    BY <1>3, <2>1, <2>8, ResetKeepsReady, ExtendsTransitive
<1> QED
  BY <1>1, <1>2, <1>4, <1>5, <1>6, <1>7 DEF Connection, States

\* So does whatever the application calls from inside a signal.
LEMMA ReactKeepsReady ==
    ASSUME PInv, NEW c \in Obj, NEW q \in [Peer -> Seq(Stanza)], NEW x, Ready(c, q, x),
           NEW r \in Reaction(c)
    PROVE  Ready(c, q, React(c, x, r)) /\ Extends(c, q, x, React(c, x, r))
<1>1. r.call \in {"nothing", "close", "write"} /\ r.n \in Nat
  BY SizeAssumption DEF Reaction
<1>2. CASE r.call = "nothing"
  BY <1>2 DEF React, Extends
<1>3. CASE r.call = "close"
  BY <1>3, CloseOpKeepsReady DEF React
<1>4. CASE r.call = "write"
  BY <1>1, <1>4, WriteOpKeepsReady DEF React
<1> QED
  BY <1>1, <1>2, <1>3, <1>4

----------------------------------------------------------------------------
(* What a handler commits keeps the invariant.                             *)

\* Taking stanzas off the wire, or none.
Taken(q) ==
    /\ q \in [Peer -> Seq(Stanza)]
    /\ \A p \in Peer : Distinct(q[p]) /\ Elems(q[p]) \subseteq Elems(net[p])

\* The session is the old one, or one that nobody else is in.
NewOrSame(c, x) ==
    /\ conn[c].session # NoId =>
          x.o.session # NoId /\ conn[c].session.n <= x.o.session.n
    /\ \/ x.o.session = conn[c].session
       \/ \A d \in Obj \ {c} : conn[d].session # x.o.session

\* The two ends of a stream are one of each kind, in one client each.
LEMMA Ends ==
    ASSUME PInv, NEW c \in Obj, NEW d \in Obj, SameStream(c, d)
    PROVE  /\ Home[d] = Other[Home[c]] /\ Home[c] = Other[Home[d]]
           /\ (c \in Pool /\ d \in Initiators) \/ (c \in Initiators /\ d \in Pool)
<1>1. \A k \in Pool : conn[k].session # NoId =>
        conn[k].session.obj \in Initiators /\ Home[conn[k].session.obj] = Other[Home[k]]
  BY DEF PInv, Sessions
<1>2. \A e \in Initiators : conn[e].session # NoId => conn[e].session.obj = e
  BY DEF PInv, Loc, Obj
<1>3. c \in Pool => d \notin Pool
  BY DEF PInv, Sessions, SameStream
<1>4. c \in Initiators => d \notin Initiators
  BY <1>2 DEF SameStream
<1>5. (c \in Pool /\ d \in Initiators) \/ (c \in Initiators /\ d \in Pool)
  BY <1>3, <1>4 DEF Obj
<1>6. Home[c] = Other[Home[d]] \/ Home[d] = Other[Home[c]]
  BY <1>1, <1>2, <1>5 DEF SameStream
<1>7. Home[c] \in Peer /\ Home[d] \in Peer
  BY ObjAssumption
<1> QED
  BY <1>5, <1>6, <1>7, PeerAssumption

\* The queues after a step.
LEMMA Queues ==
    ASSUME NEW c \in Obj, NEW q, Taken(q), NEW x, Half(x), Commit(c, x, q)
    PROVE  /\ net'[Home[c]] = q[Home[c]]
           /\ net'[Other[Home[c]]] = Wire(c, q, x)
           /\ \A p \in Peer : Elems(net'[p]) \subseteq Elems(net[p]) \cup Elems(x.out)
           /\ \A p \in Peer \ {Other[Home[c]]} : net'[p] = q[p]
<1>1. Home[c] \in Peer /\ Other[Home[c]] \in Peer /\ Other[Home[c]] # Home[c]
  BY ObjAssumption, PeerAssumption
<1>2. net' = [q EXCEPT ![Other[Home[c]]] = Wire(c, q, x)] /\ q \in [Peer -> Seq(Stanza)]
  BY DEF Commit, Wire, Taken
<1>3. /\ net'[Home[c]] = q[Home[c]]
      /\ net'[Other[Home[c]]] = Wire(c, q, x)
      /\ \A p \in Peer \ {Other[Home[c]]} : net'[p] = q[p]
  BY <1>1, <1>2
<1>4. Elems(Wire(c, q, x)) = Elems(q[Other[Home[c]]]) \cup Elems(x.out)
  BY <1>1, <1>2, Parts, ElemsConcat DEF Wire
<1>5. \A p \in Peer : Elems(net'[p]) \subseteq Elems(net[p]) \cup Elems(x.out)
  BY <1>1, <1>3, <1>4 DEF Taken
<1> QED
  BY <1>3, <1>5

\* Everything but the account of the streams.
LEMMA CommitSessions ==
    ASSUME PInv, NEW c \in Obj, NEW q, Taken(q), NEW x, Ready(c, q, x), NewOrSame(c, x),
           Commit(c, x, q)
    PROVE  /\ IInv'
           /\ \A a \in Obj : Loc(a, conn[a], hist[a])'
           /\ Sessions'
           /\ \A p \in Peer : Distinct(net[p])' /\ \A m \in Elems(net'[p]) : Valid(m, p)'
<1>1. Half(x) /\ Loc(c, x.o, x.h) /\ Linked(c, x.o) /\ (c \in Pool => x.o.session = conn[c].session)
  BY DEF Ready
<1>2. IInv'
  BY <1>1, CommitIInv DEF PInv, Taken
<1>3. conn' = [conn EXCEPT ![c] = x.o] /\ hist' = [hist EXCEPT ![c] = x.h]
  BY DEF Commit
<1>4. /\ conn'[c] = x.o /\ hist'[c] = x.h
      /\ \A a \in Obj \ {c} : conn'[a] = conn[a] /\ hist'[a] = hist[a]
  BY <1>3 DEF PInv, IInv, TypeOK
<1>5. \A a \in Obj : Loc(a, conn'[a], hist'[a])
  BY <1>1, <1>4 DEF PInv
<1>6. \A a \in Obj : Loc(a, conn[a], hist[a])'
  BY <1>5 DEF Loc, Sent, Fresh
<1>7. \A k \in Pool : conn'[k].session = conn[k].session
  BY <1>1, <1>4 DEF Obj
<1>8. Sessions'
  <2>1. ASSUME NEW k \in Pool, conn[k].session # NoId
        PROVE  LET e == conn[k].session.obj
               IN  /\ e \in Initiators /\ Home[e] = Other[Home[k]]
                   /\ conn'[e].session # NoId /\ conn[k].session.n <= conn'[e].session.n
    <3> DEFINE e == conn[k].session.obj
    <3>1. /\ e \in Initiators /\ Home[e] = Other[Home[k]]
          /\ conn[e].session # NoId /\ conn[k].session.n <= conn[e].session.n
      BY <2>1 DEF PInv, Sessions
    <3>2. e \in Obj /\ k \in Obj
      BY <3>1 DEF Obj
    <3>3. CASE e # c
      BY <1>4, <3>1, <3>2, <3>3
    <3>4. CASE e = c
      <4>1. x.o.session # NoId /\ conn[c].session.n <= x.o.session.n
        BY <3>1, <3>4 DEF NewOrSame
      <4>2. /\ conn[k].session \in IqId \cup {NoId} /\ conn[c].session \in IqId \cup {NoId}
            /\ x.o.session \in IqId \cup {NoId}
        BY <1>1, <3>2, Parts DEF PInv, IInv, TypeOK, Connection
      <4>3. conn[k].session.n \in Nat /\ conn[c].session.n \in Nat /\ x.o.session.n \in Nat
        BY <4>2 DEF IqId, NoId
      <4>4. conn[k].session.n <= x.o.session.n
        BY <3>1, <3>4, <4>1, <4>3
      <4> QED
        BY <1>4, <3>1, <3>4, <4>1, <4>4
    <3> QED
      BY <3>3, <3>4
  <2>2. \A a \in Obj : Linked(a, conn[a])'
    BY <1>1, <1>4, <1>7 DEF Linked, PInv, Sessions
  <2>3. \A k, l \in Pool : conn[k].session = conn[l].session /\ conn[k].session # NoId => k = l
    BY DEF PInv, Sessions
  <2> QED
    BY <1>7, <2>1, <2>2, <2>3 DEF Sessions
<1>9. \A m, p : Static(m, p) => Static(m, p)'
  BY <1>7 DEF Static, Route
<1>10. \A p \in Peer : Distinct(net'[p])
  <2>1. \A p \in Peer \ {Other[Home[c]]} : net'[p] = q[p]
    BY <1>1, Queues
  <2>2. net'[Other[Home[c]]] = Wire(c, q, x)
    BY <1>1, Queues
  <2> QED
    BY <2>1, <2>2 DEF Taken, Ready
<1>11. ASSUME NEW p \in Peer, NEW m \in Elems(net'[p])
       PROVE  Static(m, p)' /\ Owned(m.id.obj, conn'[m.id.obj], hist'[m.id.obj], m)
  <2>1. m.id.obj \in Obj
    <3>1. net'[p] \in Seq(Stanza)
      BY <1>2 DEF IInv, TypeOK
    <3>2. m \in Stanza
      BY <3>1, ElemsType
    <3> QED
      BY <3>2 DEF Stanza, IqId
  <2>2. CASE m \in Elems(q[p]) /\ ~(p = Other[Home[c]] /\ m \in Elems(x.out))
    <3>1. Valid(m, p)
      BY <2>2 DEF PInv, Taken
    <3>2. CASE m.id.obj # c
      BY <1>4, <1>9, <2>1, <3>1, <3>2 DEF Valid
    <3>3. CASE m.id.obj = c
      <4>1. p = Home[c] \/ p = Other[Home[c]]
        BY <3>1, <3>3, PeerAssumption DEF Valid, Static
      <4>2. m \in Back(c, q) \cup Elems(Wire(c, q, x))
        <5>1. Elems(Wire(c, q, x)) = Elems(q[Other[Home[c]]]) \cup Elems(x.out)
          <6>1. Other[Home[c]] \in Peer
            BY ObjAssumption, PeerAssumption
          <6> QED
            BY <1>1, <6>1, Parts, ElemsConcat DEF Wire, Taken
        <5> QED
          BY <2>2, <4>1, <5>1 DEF Back
      <4>3. Owned(c, x.o, x.h, m)
        BY <3>3, <4>2 DEF Ready
      <4> QED
        BY <1>4, <1>9, <3>1, <3>3, <4>3 DEF Valid
    <3> QED
      BY <3>2, <3>3
  <2>3. CASE p = Other[Home[c]] /\ m \in Elems(x.out)
    <3>1. Static(m, p) /\ (m.id.obj # c => Owned(m.id.obj, conn[m.id.obj], hist[m.id.obj], m))
      BY <2>3 DEF Ready
    <3>2. m \in Elems(Wire(c, q, x))
      BY <1>1, <2>3, Queues
    <3>3. m.id.obj = c => Owned(c, x.o, x.h, m)
      BY <3>2 DEF Ready
    <3> QED
      BY <1>4, <1>9, <2>1, <3>1, <3>3
  <2>4. p # Other[Home[c]] => m \in Elems(q[p])
    BY <1>1, Queues
  <2>5. p = Other[Home[c]] => m \in Elems(q[p]) \cup Elems(x.out)
    <3>1. Elems(Wire(c, q, x)) = Elems(q[Other[Home[c]]]) \cup Elems(x.out)
      <4>1. Other[Home[c]] \in Peer
        BY ObjAssumption, PeerAssumption
      <4> QED
        BY <1>1, <4>1, Parts, ElemsConcat DEF Wire, Taken
    <3>2. net'[Other[Home[c]]] = Wire(c, q, x)
      BY <1>1, Queues
    <3> QED
      BY <3>1, <3>2
  <2> QED
    BY <2>2, <2>3, <2>4, <2>5
<1>12. \A p \in Peer : Distinct(net[p])' /\ \A m \in Elems(net'[p]) : Valid(m, p)'
  BY <1>10, <1>11 DEF Distinct, Valid, Owned, Fresh
<1> QED
  BY <1>2, <1>6, <1>8, <1>12

\* The account of every stream: one whose sender c is, one whose receiver c is,
\* and one that the step has nothing to do with.
LEMMA CommitStreams ==
    ASSUME PInv, NEW c \in Obj, NEW q, Taken(q), NEW x, Ready(c, q, x), NewOrSame(c, x),
           Commit(c, x, q),
           \A d \in Obj : SameStream(c, d) /\ x.o.session = conn[c].session =>
               Flow(c, Sid(c, d), hist[d].got, q, x),
           \A a \in Obj : SameStream(a, c) /\ x.o.session = conn[c].session =>
               Carries(conn[a], hist[a], x.h.got, Mine(a, Sid(a, c), Elems(q[Home[c]])),
                       Acks(Elems(Wire(c, q, x)))),
           \A a, b \in Obj \ {c} : SameStream(a, b) /\ conn[a].task.mode = "data" =>
               conn[a].task.id \notin Acks(Elems(x.out))
    PROVE  Streams'
<1>1. conn' = [conn EXCEPT ![c] = x.o] /\ hist' = [hist EXCEPT ![c] = x.h]
  BY DEF Commit
<1>2. /\ conn'[c] = x.o /\ hist'[c] = x.h
      /\ \A a \in Obj \ {c} : conn'[a] = conn[a] /\ hist'[a] = hist[a]
  BY <1>1 DEF PInv, IInv, TypeOK
<1>3. Half(x)
  BY DEF Ready
<1>4. /\ net'[Home[c]] = q[Home[c]]
      /\ net'[Other[Home[c]]] = Wire(c, q, x)
      /\ \A p \in Peer : Elems(net'[p]) \subseteq Elems(net[p]) \cup Elems(x.out)
  BY <1>3, Queues
<1>5. ASSUME NEW a \in Obj, NEW b \in Obj, SameStream(a, b)'
      PROVE  SameStream(a, b) /\ (a = c \/ b = c => x.o.session = conn[c].session)
  BY <1>2, <1>5 DEF SameStream, NewOrSame
<1>6. ASSUME NEW a \in Obj, NEW b \in Obj, SameStream(a, b)'
      PROVE  Carries(conn'[a], hist'[a], hist'[b].got, Mine(a, Sid(a, b), Elems(net'[Home[b]])),
                     Acks(Elems(net'[Home[a]])))
  <2>1. /\ SameStream(a, b) /\ a # b
        /\ Home[b] = Other[Home[a]] /\ Home[a] = Other[Home[b]]
    BY <1>5, <1>6, Ends DEF SameStream
  <2>2. CASE a = c
    BY <1>2, <1>4, <1>5, <1>6, <2>1, <2>2 DEF Flow, Back
  <2>3. CASE b = c
    BY <1>2, <1>4, <1>5, <1>6, <2>1, <2>3
  <2>4. CASE a # c /\ b # c
    <3> DEFINE D == Mine(a, Sid(a, b), Elems(net[Home[b]]))
               E == Mine(a, Sid(a, b), Elems(net'[Home[b]]))
               R == Acks(Elems(net[Home[a]]))
               S == Acks(Elems(net'[Home[a]]))
    <3>1. Carries(conn[a], hist[a], hist[b].got, D, R)
      BY <2>1 DEF PInv, Streams
    <3>2. Home[a] \in Peer /\ Home[b] \in Peer
      BY ObjAssumption
    <3>3. E \subseteq D
      <4>1. \A m \in Elems(x.out) : m.id.obj # a \/ m.type # "data"
        BY <2>4 DEF Ready
      <4> QED
        BY <1>4, <3>2, <4>1 DEF Mine
    <3>4. S \subseteq R \cup Acks(Elems(x.out))
      BY <1>4, <3>2 DEF Acks
    <3>5. conn[a].task.mode = "data" /\ conn[a].task.id \in S => conn[a].task.id \in R
      BY <2>1, <2>4, <3>4
    <3> HIDE DEF D, E, R, S
    <3>6. Counts(conn[a].state, conn[a].task, Sent(conn[a], hist[a]), Len(hist[b].got), E, S)
      BY <3>1, <3>3, <3>5, CountsLess DEF Carries
    <3>7. Contents(hist[a].over, hist[b].got, E)
      BY <3>1, <3>3 DEF Carries, Contents
    <3> QED
      BY <1>2, <2>4, <3>6, <3>7 DEF Carries, E, S
  <2> QED
    BY <2>2, <2>3, <2>4
<1>7. ASSUME NEW a \in Obj, NEW b \in Obj
      PROVE  SameStream(a, b)' =>
               Carries(conn[a], hist[a], hist[b].got, Mine(a, Sid(a, b), Elems(net[Home[b]])),
                       Acks(Elems(net[Home[a]])))'
  BY <1>6, ZenonT(60) DEF Carries, Counts, Contents, Sent, Mine, Acks, Elems
<1> QED
  BY <1>7 DEF Streams

\* Before a handler has done anything; q may lack a stanza it has taken.
LEMMA StartReady ==
    ASSUME PInv, NEW c \in Obj, NEW q, Taken(q)
    PROVE  /\ Ready(c, q, Start(c))
           /\ Wire(c, q, Start(c)) = q[Other[Home[c]]]
           /\ \A d \in Obj : SameStream(c, d) => Flow(c, Sid(c, d), hist[d].got, q, Start(c))
<1> DEFINE x == Start(c)
<1>1. x.o = conn[c] /\ x.h = hist[c] /\ x.out = <<>> /\ Half(x)
  BY StartHalf DEF Start, PInv
<1>2. Home[c] \in Peer /\ Other[Home[c]] \in Peer
  BY ObjAssumption, PeerAssumption
<1>3. Wire(c, q, x) = q[Other[Home[c]]]
  <2>1. q[Other[Home[c]]] \in Seq(Stanza)
    BY <1>2 DEF Taken
  <2> QED
    BY <1>1, <2>1, ConcatEmptySeq DEF Wire
<1> HIDE DEF x
<1>4. Loc(c, x.o, x.h) /\ Linked(c, x.o)
  BY <1>1 DEF PInv, Sessions
<1>5. \A m \in Elems(Wire(c, q, x)) \cup Back(c, q) : m.id.obj = c => Owned(c, x.o, x.h, m)
  BY <1>1, <1>2, <1>3 DEF PInv, Taken, Valid, Back
<1>6. Elems(x.out) = {}
  BY <1>1, ElemsEmpty
<1>7. Ready(c, q, x)
  BY <1>1, <1>2, <1>3, <1>4, <1>5, <1>6 DEF Ready, Taken
<1>8. ASSUME NEW d \in Obj, SameStream(c, d)
      PROVE  Flow(c, Sid(c, d), hist[d].got, q, x)
  <2> DEFINE D == Mine(c, Sid(c, d), Elems(net[Home[d]]))
             E == Mine(c, Sid(c, d), Elems(q[Home[d]]))
             R == Acks(Elems(net[Home[c]]))
             S == Acks(Elems(q[Home[c]]))
  <2>1. Carries(conn[c], hist[c], hist[d].got, D, R)
    BY <1>8 DEF PInv, Streams
  <2>2. E \subseteq D /\ S \subseteq R
    <3>1. Home[d] \in Peer
      BY ObjAssumption
    <3> QED
      BY <1>2, <3>1 DEF Taken, Mine, Acks
  <2>3. Home[d] = Other[Home[c]]
    BY <1>8, Ends
  <2> HIDE DEF D, E, R, S
  <2>4. Counts(conn[c].state, conn[c].task, Sent(conn[c], hist[c]), Len(hist[d].got), E, S)
    BY <2>1, <2>2, CountsLess DEF Carries
  <2>5. Contents(hist[c].over, hist[d].got, E)
    BY <2>1, <2>2 DEF Carries, Contents
  <2> QED
    BY <1>1, <1>3, <2>3, <2>4, <2>5 DEF Flow, Carries, Back, E, S
<1> QED
  BY <1>3, <1>7, <1>8 DEF x

\* Taking nothing off the wire, or the first stanza for p.
LEMMA TakenNone ==
    ASSUME PInv
    PROVE  Taken(net)
  BY DEF PInv, IInv, TypeOK, Taken

\* The first stanza was valid, and no other has the id of a request it is.
LEMMA TakenHead ==
    ASSUME PInv, NEW p \in Peer, net[p] # <<>>, NEW m, m = Head(net[p])
    PROVE  /\ Taken(Popped(p)) /\ m \in Elems(net[p]) /\ m \in Stanza /\ Valid(m, p)
           /\ Popped(p)[p] = Tail(net[p])
           /\ m.type \in {"request", "data"} =>
                \A l \in Elems(Popped(p)[p]) : l.type \in {"request", "data"} => l.id # m.id
<1>1. net \in [Peer -> Seq(Stanza)] /\ net[p] \in Seq(Stanza)
  BY DEF PInv, IInv, TypeOK
<1>2. Popped(p) \in [Peer -> Seq(Stanza)] /\ m \in Stanza
  BY PoppedType DEF PInv, IInv
<1>3. Popped(p)[p] = Tail(net[p]) /\ \A r \in Peer \ {p} : Popped(p)[r] = net[r]
  BY <1>1 DEF Popped
<1>4. Elems(net[p]) = {m} \cup Elems(Tail(net[p]))
  BY <1>1, ElemsTail
<1>5. /\ Distinct(Tail(net[p]))
      /\ m.type \in {"request", "data"} =>
            \A l \in Elems(Tail(net[p])) : l.type \in {"request", "data"} => l.id # m.id
  BY <1>1, DistinctTail DEF PInv
<1>6. Taken(Popped(p))
  BY <1>2, <1>3, <1>4, <1>5 DEF Taken, PInv
<1> QED
  BY <1>2, <1>3, <1>4, <1>5, <1>6 DEF PInv

\* The partner's account: c has received nothing, acknowledged nothing.
LEMMA NothingReceived ==
    ASSUME PInv, NEW c \in Obj, NEW q, Taken(q), NEW x, Half(x), x.h.got = hist[c].got,
           NEW a \in Obj, SameStream(a, c),
           conn[a].task.mode = "data" => conn[a].task.id \notin Acks(Elems(x.out))
    PROVE  Carries(conn[a], hist[a], x.h.got, Mine(a, Sid(a, c), Elems(q[Home[c]])),
                   Acks(Elems(Wire(c, q, x))))
<1> DEFINE D == Mine(a, Sid(a, c), Elems(net[Home[c]]))
           E == Mine(a, Sid(a, c), Elems(q[Home[c]]))
           R == Acks(Elems(net[Home[a]]))
           S == Acks(Elems(Wire(c, q, x)))
<1>1. Carries(conn[a], hist[a], hist[c].got, D, R)
  BY DEF PInv, Streams
<1>2. Home[a] = Other[Home[c]] /\ Home[a] \in Peer /\ Home[c] \in Peer
  BY Ends, ObjAssumption
<1>3. E \subseteq D
  BY <1>2 DEF Taken, Mine
<1>4. S \subseteq R \cup Acks(Elems(x.out))
  <2>1. Elems(Wire(c, q, x)) = Elems(q[Home[a]]) \cup Elems(x.out)
    BY <1>2, Parts, ElemsConcat DEF Wire, Taken
  <2> QED
    BY <1>2, <2>1 DEF Taken, Acks
<1> HIDE DEF D, E, R, S
<1>5. Counts(conn[a].state, conn[a].task, Sent(conn[a], hist[a]), Len(x.h.got), E, S)
  BY <1>1, <1>3, <1>4, CountsLess DEF Carries
<1>6. Contents(hist[a].over, x.h.got, E)
  BY <1>1, <1>3 DEF Carries, Contents
<1> QED
  BY <1>5, <1>6 DEF Carries, E, S

\* A step in which c only sends keeps the invariant.
LEMMA SenderStep ==
    ASSUME PInv, NEW c \in Obj, NEW q, Taken(q), NEW x, Ready(c, q, x), Commit(c, x, q),
           x.o.session = conn[c].session, x.h.got = hist[c].got,
           \A d \in Obj : SameStream(c, d) => Flow(c, Sid(c, d), hist[d].got, q, x),
           \A a \in Obj \ {c} : conn[a].task.mode = "data" =>
               conn[a].task.id \notin Acks(Elems(x.out))
    PROVE  PInv'
<1>1. NewOrSame(c, x)
  <2>1. conn[c].session \in IqId \cup {NoId}
    BY DEF PInv, IInv, TypeOK, Connection
  <2>2. conn[c].session.n \in Nat
    BY <2>1 DEF IqId, NoId
  <2> QED
    BY <2>2 DEF NewOrSame
<1>2. Half(x)
  BY DEF Ready
<1>3. \A a \in Obj : SameStream(a, c) =>
        Carries(conn[a], hist[a], x.h.got, Mine(a, Sid(a, c), Elems(q[Home[c]])),
                Acks(Elems(Wire(c, q, x))))
  BY <1>2, NothingReceived DEF SameStream
<1>4. Streams'
  BY <1>1, <1>3, CommitStreams
<1> QED
  BY <1>1, <1>4, CommitSessions DEF PInv

\* So does a step that only calls methods.
LEMMA MethodStep ==
    ASSUME PInv, NEW c \in Obj, NEW q, Taken(q), NEW x, Ready(c, q, x), Commit(c, x, q),
           Extends(c, q, Start(c), x)
    PROVE  PInv'
<1>1. \A d \in Obj : SameStream(c, d) => Flow(c, Sid(c, d), hist[d].got, q, Start(c))
  BY StartReady
<1>2. \A d \in Obj : hist[d].got \in Seq(Nat)
  BY DEF PInv, IInv, TypeOK, History
<1>3. \A d \in Obj : SameStream(c, d) => Flow(c, Sid(c, d), hist[d].got, q, x)
  BY <1>1, <1>2 DEF Extends
<1>4. Start(c).o = conn[c] /\ Start(c).h = hist[c] /\ Start(c).out = <<>>
  BY DEF Start
<1>5. Acks(Elems(x.out)) = {}
  BY <1>4, ElemsEmpty DEF Extends, Acks
<1>6. x.o.session = conn[c].session /\ x.h.got = hist[c].got
  BY <1>4 DEF Extends
<1> QED
  BY <1>3, <1>5, <1>6, SenderStep

\* The application: a method, or nothing that the stream notices.
LEMMA CallPInv ==
    ASSUME PInv, NEW c \in Obj,
           \/ TakeIncoming(c) \/ Close(c) \/ Read(c) \/ Destroy(c) \/ TrySendTimer(c)
           \/ \E n \in 1..MaxBytes[c] : Write(c, n)
    PROVE  PInv'
<1> DEFINE s == Start(c)
<1>1. Half(s) /\ s.o = conn[c] /\ s.h = hist[c] /\ s.out = <<>> /\ IInv
  BY StartHalf DEF PInv, Start
<1>2. conn[c] \in Connection /\ hist[c] \in History /\ Sound(conn[c], hist[c])
  BY <1>1, LocalParts
<1>3. Taken(net) /\ Ready(c, net, s) /\ net \in [Peer -> Seq(Stanza)]
  BY TakenNone, StartReady DEF Taken
<1>4. net = [net EXCEPT ![Other[Home[c]]] = @ \o <<>>]
  <2>1. Other[Home[c]] \in Peer
    BY ObjAssumption, PeerAssumption
  <2>2. net[Other[Home[c]]] \o <<>> = net[Other[Home[c]]]
    BY <1>3, <2>1, ConcatEmptySeq
  <2> QED
    BY <1>3, <2>2
<1>5. CASE TakeIncoming(c)
  <2> DEFINE o2 == [conn[c] EXCEPT !.incoming = FALSE]
             x == [o |-> o2, h |-> hist[c], out |-> <<>>]
  <2>1. /\ o2.session = conn[c].session /\ o2.sid = conn[c].sid /\ o2.state = conn[c].state
        /\ o2.nextId = conn[c].nextId /\ o2.task = conn[c].task
        /\ o2.sendbuf = conn[c].sendbuf /\ o2.closePending = conn[c].closePending
        /\ o2.recvbuf = conn[c].recvbuf /\ o2 \in Connection
    BY <1>2 DEF Connection
  <2>2. conn' = [conn EXCEPT ![c] = o2] /\ net' = net /\ hist' = hist
    BY <1>5 DEF TakeIncoming
  <2> HIDE DEF o2
  <2>3. Half(x)
    BY <1>2, <2>1 DEF Half, Local, Sound, Readable
  <2>4. Commit(c, x, net)
    BY <1>1, <1>4, <2>2 DEF Commit, IInv, TypeOK
  <2>5. Fresh(s.o, s.h) => Fresh(x.o, x.h)
    BY <1>1, <2>1 DEF Fresh
  <2>6. Ready(c, net, x) /\ Extends(c, net, s, x)
    BY <1>1, <1>3, <2>1, <2>3, <2>5, FlagKeepsReady
  <2> QED
    BY <1>3, <2>4, <2>6, MethodStep
<1>6. CASE Close(c)
  BY <1>3, <1>6, CloseOpKeepsReady, MethodStep DEF Close
<1>7. ASSUME NEW n \in 1..MaxBytes[c], Write(c, n)
      PROVE  PInv'
  BY <1>3, <1>7, SizeAssumption, WriteOpKeepsReady, MethodStep DEF Write
<1>8. CASE Read(c)
  <2> DEFINE o2 == [conn[c] EXCEPT !.recvbuf = <<>>]
             h2 == [hist[c] EXCEPT !.read = @ + Len(conn[c].recvbuf)]
             x == [o |-> o2, h |-> h2, out |-> <<>>]
  <2>1. /\ o2.session = conn[c].session /\ o2.sid = conn[c].sid /\ o2.state = conn[c].state
        /\ o2.nextId = conn[c].nextId /\ o2.task = conn[c].task
        /\ o2.sendbuf = conn[c].sendbuf /\ o2.closePending = conn[c].closePending
        /\ o2.recvbuf = <<>>
    BY <1>2 DEF Connection
  <2>2. h2.written = hist[c].written /\ h2.got = hist[c].got /\ h2.over = hist[c].over
    BY <1>2 DEF History
  <2>3. conn' = [conn EXCEPT ![c] = o2] /\ net' = net /\ hist' = [hist EXCEPT ![c] = h2]
    BY <1>8 DEF Read
  <2>4. IInv'
    BY <1>1, <1>8, UserStep DEF User
  <2> HIDE DEF o2, h2
  <2>5. Half(x)
    <3>1. o2 \in Connection /\ h2 \in History /\ Sound(conn'[c], hist'[c])
          /\ conn'[c] = o2 /\ hist'[c] = h2
      BY <1>1, <2>3, <2>4 DEF IInv, TypeOK, Sound, Readable, Abandoned
    <3> QED
      BY <3>1 DEF Half, Local
  <2>6. Commit(c, x, net)
    BY <1>4, <2>3 DEF Commit
  <2>7. Fresh(s.o, s.h) => Fresh(x.o, x.h)
    BY <1>1, <2>1, <2>2 DEF Fresh
  <2>8. Ready(c, net, x) /\ Extends(c, net, s, x)
    BY <1>1, <1>3, <2>1, <2>2, <2>5, <2>7, FlagKeepsReady
  <2> QED
    BY <1>3, <2>6, <2>8, MethodStep
<1>9. ASSUME NEW y, y = [s EXCEPT !.o.trySendTimer = FALSE]
      PROVE  Half(y) /\ Ready(c, net, y) /\ Extends(c, net, s, y)
             /\ y.o.session = conn[c].session
  <2> DEFINE o2 == [conn[c] EXCEPT !.trySendTimer = FALSE]
  <2>1. /\ o2.session = conn[c].session /\ o2.sid = conn[c].sid /\ o2.state = conn[c].state
        /\ o2.nextId = conn[c].nextId /\ o2.task = conn[c].task
        /\ o2.sendbuf = conn[c].sendbuf /\ o2.closePending = conn[c].closePending
        /\ o2.recvbuf = conn[c].recvbuf /\ o2 \in Connection
    BY <1>2 DEF Connection
  <2>2. y = [o |-> o2, h |-> hist[c], out |-> <<>>]
    BY <1>9 DEF Start
  <2> HIDE DEF o2
  <2>3. y.o = o2 /\ y.h = hist[c] /\ y.out = <<>>
    BY <2>2
  <2>4. Half(y)
    <3>1. y \in Local
      BY <1>2, <2>1, <2>2 DEF Local
    <3>2. Sound(y.o, y.h)
      BY <1>2, <2>1, <2>3 DEF Sound, Readable
    <3> QED
      BY <3>1, <3>2 DEF Half
  <2>5. Fresh(s.o, s.h) => Fresh(y.o, y.h)
    BY <1>1, <2>1, <2>3 DEF Fresh
  <2>6. Ready(c, net, y) /\ Extends(c, net, s, y)
    BY <1>1, <1>3, <2>1, <2>3, <2>4, <2>5, FlagKeepsReady
  <2> QED
    BY <2>1, <2>3, <2>4, <2>6
<1>10. CASE Destroy(c)
  <2> DEFINE y == [s EXCEPT !.o.trySendTimer = FALSE]
             x == ResetEnding(y, TRUE, "destroyed")
  <2>1. Half(y) /\ Ready(c, net, y) /\ Extends(c, net, s, y) /\ y.o.session = conn[c].session
    BY <1>9
  <2>2. conn[c].session # NoId
    BY <1>2, <1>10 DEF Sound, Destroy
  <2>3. Commit(c, x, net)
    BY <1>10 DEF Destroy
  <2> HIDE DEF y
  <2>4. Half(x)
    BY <2>1, <2>2, ResetEndingHalf DEF Endings, Abandoned
  <2>5. Ready(c, net, x) /\ Extends(c, net, y, x)
    BY <1>3, <2>1, <2>4, ResetKeepsReady
  <2> HIDE DEF x, s
  <2>6. Extends(c, net, s, x)
    BY <2>1, <2>5, ExtendsTransitive
  <2> QED
    BY <1>3, <2>3, <2>5, <2>6, MethodStep DEF s
<1>11. CASE TrySendTimer(c)
  <2> DEFINE y == [s EXCEPT !.o.trySendTimer = FALSE]
  <2>1. Half(y) /\ Ready(c, net, y) /\ Extends(c, net, s, y)
    BY <1>9
  <2>2. Commit(c, TrySend(c, y), net)
    BY <1>11 DEF TrySendTimer
  <2> HIDE DEF y, s
  <2>3. Ready(c, net, TrySend(c, y)) /\ Extends(c, net, y, TrySend(c, y))
    BY <1>3, <2>1, TrySendKeepsReady
  <2>4. Extends(c, net, s, TrySend(c, y))
    BY <2>1, <2>3, ExtendsTransitive
  <2> QED
    BY <1>3, <2>2, <2>3, <2>4, MethodStep DEF s
<1> QED
  BY <1>5, <1>6, <1>7, <1>8, <1>10, <1>11

\* A stream on which nothing was sent may change its state freely.
LEMMA CountsIdle ==
    ASSUME NEW state, state # "Idle", NEW task, task.mode # "data", NEW sent, NEW G, NEW D,
           NEW R, Counts(state, task, sent, G, D, R),
           NEW state2, NEW task2, task2.mode # "data", NEW S
    PROVE  Counts(state2, task2, sent, G, D, S)
  BY DEF Counts

\* The id of a request for a stream is not the id of a chunk on its way.
LEMMA SessionIsNotTask ==
    ASSUME PInv, NEW k \in Pool, conn[k].session # NoId, NEW a \in Obj,
           conn[a].task.mode = "data"
    PROVE  conn[a].task.id # conn[k].session
<1> SUFFICES ASSUME conn[a].task.id = conn[k].session PROVE FALSE
  OBVIOUS
<1>1. conn[a] \in Connection /\ conn[k] \in Connection /\ Loc(a, conn[a], hist[a])
  BY DEF PInv, IInv, TypeOK, Obj
<1>2. conn[a].task.id.obj = a /\ a = conn[k].session.obj
  BY <1>1 DEF Loc
<1>3. a \in Initiators /\ conn[a].session # NoId /\ conn[k].session.n <= conn[a].session.n
  BY <1>2 DEF PInv, Sessions
<1>4. conn[a].session.n < conn[k].session.n
  BY <1>1, <1>3 DEF Loc
<1>5. conn[a].session \in IqId /\ conn[k].session \in IqId
  BY <1>1, <1>3 DEF Connection
<1>6. conn[a].session.n \in Nat /\ conn[k].session.n \in Nat
  BY <1>5 DEF IqId
<1> QED
  BY <1>3, <1>4, <1>6

\* accept() tells the initiator the id of the stream.
LEMMA AcceptPInv ==
    ASSUME PInv, NEW c \in Obj, Accept(c)
    PROVE  PInv'
<1> DEFINE o2 == [conn[c] EXCEPT !.state = "Active"]
           z == Success(conn[c].session, conn[c].sid)
           x == [o |-> o2, h |-> hist[c], out |-> <<z>>]
           s == Start(c)
<1>1. conn[c] \in Connection /\ hist[c] \in History /\ Sound(conn[c], hist[c])
      /\ Loc(c, conn[c], hist[c])
  BY LocalParts DEF PInv
<1>2. conn[c].state = "WaitingForAccept" /\ Commit(c, x, net)
  BY DEF Accept
<1>3. c \in Pool /\ conn[c].session # NoId /\ conn[c].session \in IqId /\ conn[c].sid = c
  BY <1>1, <1>2 DEF Sound, Connection, Loc, Obj
<1>4. /\ o2.session = conn[c].session /\ o2.sid = conn[c].sid /\ o2.state = "Active"
      /\ o2.nextId = conn[c].nextId /\ o2.task = conn[c].task
      /\ o2.sendbuf = conn[c].sendbuf /\ o2.closePending = conn[c].closePending
      /\ o2.recvbuf = conn[c].recvbuf /\ o2 \in Connection
  BY <1>1 DEF Connection, States
<1>5. z \in Stanza /\ z.type = "result" /\ z.id = conn[c].session /\ z.sid = c
  BY <1>3, StanzaTypes DEF Success, Obj
<1> HIDE DEF o2, z
<1>6. Half(x) /\ x.o = o2 /\ x.h = hist[c] /\ x.out = <<z>>
  <2>1. <<z>> \in Seq(Stanza)
    BY <1>5
  <2> QED
    BY <1>1, <1>2, <1>4, <2>1 DEF Half, Local, Sound, Readable
<1>7. Taken(net) /\ Ready(c, net, s) /\ net \in [Peer -> Seq(Stanza)] /\ s.out = <<>>
      /\ s.o = conn[c] /\ s.h = hist[c]
  BY TakenNone, StartReady DEF Taken, Start
<1>8. Follows(c, net, s, x, z)
  <2>1. s.out \in Seq(Stanza) /\ x.out = Append(s.out, z)
    BY <1>6, <1>7
  <2> QED
    BY <1>5, <1>7, <2>1, WireAppend, Zenon
<1>9. Elems(x.out) = {z}
  BY <1>6, ElemsOne
<1> DEFINE e == conn[c].session.obj
<1>10. /\ e \in Initiators /\ Home[e] = Other[Home[c]] /\ e \in Obj /\ e # c
       /\ conn[e].session # NoId /\ conn[c].session.n <= conn[e].session.n
  BY <1>3, ObjAssumption DEF PInv, Sessions, Obj
<1>11. conn[c].session.n < conn[e].nextId
  <2>1. conn[e] \in Connection /\ Loc(e, conn[e], hist[e])
    BY <1>10 DEF PInv, IInv, TypeOK
  <2>2. conn[e].session.n < conn[e].nextId
    BY <1>10, <2>1 DEF Loc
  <2>3. conn[e].session \in IqId /\ conn[e].nextId \in Nat
    BY <1>10, <2>1 DEF Connection
  <2>4. conn[e].session.n \in Nat /\ conn[c].session.n \in Nat
    BY <1>3, <2>3 DEF IqId
  <2> QED
    BY <1>10, <2>2, <2>3, <2>4
<1>12. Ready(c, net, x)
  <2>1. Loc(c, x.o, x.h)
    <3>1. Sent(x.o, x.h) = Sent(conn[c], hist[c])
      BY <1>4, <1>6 DEF Sent
    <3>2. c \notin Initiators
      BY <1>3, ObjAssumption
    <3>3. conn[c].task.mode = "none"
      BY <1>1, <1>2 DEF Loc, Connection, Task
    <3> QED
      BY <1>1, <1>3, <1>4, <1>6, <3>1, <3>2, <3>3 DEF Loc
  <2>2. Linked(c, x.o)
    BY <1>3, ObjAssumption DEF Linked
  <2>3. Distinct(Wire(c, net, x))
    BY <1>5, <1>7, <1>8, DistinctAppend DEF Ready, Follows
  <2>4. ASSUME NEW m \in Elems(Wire(c, net, x)) \cup Back(c, net), m.id.obj = c
        PROVE  Owned(c, x.o, x.h, m)
    <3>1. m \in Elems(Wire(c, net, s)) \cup Back(c, net)
      BY <1>5, <1>8, <1>10, <2>4 DEF Follows
    <3>2. Owned(c, conn[c], hist[c], m)
      BY <1>7, <2>4, <3>1 DEF Ready
    <3>3. m.type # "request"
      <4>1. \E p \in Peer : m \in Elems(net[p])
        <5>1. Wire(c, net, s) = net[Other[Home[c]]] /\ Home[c] \in Peer /\ Other[Home[c]] \in Peer
          BY <1>7, StartReady, ObjAssumption, PeerAssumption
        <5> QED
          BY <3>1, <5>1 DEF Back
      <4> QED
        BY <1>3, <2>4, <4>1, ObjAssumption DEF PInv, Valid, Static
    <3> QED
      BY <1>4, <1>6, <3>2, <3>3 DEF Owned
  <2>5. Static(z, Other[Home[c]]) /\ Owned(e, conn[e], hist[e], z) /\ z.id.obj = e
    BY <1>3, <1>5, <1>10, <1>11, ObjAssumption DEF Static, Owned, Obj
  <2> QED
    BY <1>3, <1>4, <1>5, <1>6, <1>9, <2>1, <2>2, <2>3, <2>4, <2>5 DEF Ready
<1>13. ASSUME NEW d \in Obj, SameStream(c, d)
       PROVE  Flow(c, Sid(c, d), hist[d].got, net, x)
  <2> DEFINE D == Mine(c, Sid(c, d), Elems(Wire(c, net, s)))
             R == Acks(Back(c, net))
  <2>1. Flow(c, Sid(c, d), hist[d].got, net, s)
    BY <1>7, <1>13, StartReady
  <2>2. Carries(conn[c], hist[c], hist[d].got, D, R)
    BY <1>7, <2>1 DEF Flow
  <2>3. Mine(c, Sid(c, d), Elems(Wire(c, net, x))) = D
    BY <1>5, <1>8 DEF Mine, Follows
  <2>4. conn[c].state # "Idle" /\ conn[c].task.mode # "data"
    BY <1>1, <1>2 DEF Loc
  <2>5. Sent(x.o, x.h) = Sent(conn[c], hist[c]) /\ x.o.task = conn[c].task
    BY <1>4, <1>6 DEF Sent
  <2> HIDE DEF D, R
  <2>6. Counts(x.o.state, x.o.task, Sent(x.o, x.h), Len(hist[d].got), D, R)
    BY <2>2, <2>4, <2>5, CountsIdle DEF Carries
  <2> QED
    BY <1>6, <2>2, <2>3, <2>6 DEF Flow, Carries, R
<1>14. ASSUME NEW a \in Obj \ {c}, conn[a].task.mode = "data"
       PROVE  conn[a].task.id \notin Acks(Elems(x.out))
  <2>1. conn[a].task.id # conn[c].session
    BY <1>3, <1>14, SessionIsNotTask
  <2>2. Acks(Elems(x.out)) = {conn[c].session}
    BY <1>5, <1>9 DEF Acks
  <2> QED
    BY <2>1, <2>2
<1>15. x.o.session = conn[c].session /\ x.h.got = hist[c].got
  BY <1>4, <1>6
<1> HIDE DEF x
<1> QED
  BY <1>2, <1>7, <1>12, <1>13, <1>14, <1>15, SenderStep

\* connectToJid() starts a session that nobody else is in yet.
LEMMA ConnectPInv ==
    ASSUME PInv, NEW c \in Obj, ConnectToJid(c)
    PROVE  PInv'
<1> DEFINE s == Start(c)
           closed == CloseOp(c, s)
           id == [obj |-> c, n |-> closed.o.nextId]
           o2 == [Reset(closed.o, TRUE) EXCEPT
                     !.state = "Requesting", !.session = id, !.nextId = @ + 1,
                     !.task = [mode |-> "request", id |-> id]]
           h2 == NewHistory(hist[c].attempts + 1)
           z == Request(id)
           x == [o |-> o2, h |-> h2, out |-> Append(closed.out, z)]
<1>1. Taken(net) /\ Ready(c, net, s) /\ net \in [Peer -> Seq(Stanza)]
      /\ s.o = conn[c] /\ s.h = hist[c] /\ s.out = <<>>
  BY TakenNone, StartReady DEF Taken, Start
<1>2. Ready(c, net, closed) /\ Extends(c, net, s, closed)
  BY <1>1, CloseOpKeepsReady
<1>3. c \in Initiators /\ c \notin Pool /\ Commit(c, x, net)
  BY ObjAssumption DEF ConnectToJid
<1>4. conn[c] \in Connection /\ hist[c] \in History /\ Loc(c, conn[c], hist[c])
  BY LocalParts DEF PInv
<1> HIDE DEF closed, s
<1>5. Half(closed) /\ closed.o \in Connection /\ closed.out \in Seq(Stanza)
      /\ closed.o.nextId \in Nat /\ Loc(c, closed.o, closed.h)
  <2>1. Half(closed) /\ Loc(c, closed.o, closed.h)
    BY <1>2 DEF Ready
  <2>2. closed.o \in Connection /\ closed.out \in Seq(Stanza)
    BY <2>1, Parts
  <2> QED
    BY <2>1, <2>2 DEF Connection
<1>6. id \in IqId /\ id.obj = c /\ id.n = closed.o.nextId /\ id # NoId
  BY <1>5, NoIdFresh DEF IqId
<1>7. z \in Stanza /\ z.type = "request" /\ z.id = id
  BY <1>6, StanzaTypes DEF Request
<1> HIDE DEF id
<1>8. /\ o2.state = "Requesting" /\ o2.session = id /\ o2.nextId = closed.o.nextId + 1
      /\ o2.task = [mode |-> "request", id |-> id] /\ o2.sendbuf = <<>> /\ o2.recvbuf = <<>>
      /\ ~o2.closePending /\ o2 \in Connection
  <2> DEFINE r == Reset(closed.o, TRUE)
  <2>1. r \in Connection /\ r.sendbuf = <<>> /\ r.recvbuf = <<>> /\ ~r.closePending
        /\ r.nextId = closed.o.nextId
    BY <1>5, ResetType DEF Reset, Connection
  <2>2. [mode |-> "request", id |-> id] \in Task /\ "Requesting" \in States
    BY <1>6 DEF Task, States
  <2> HIDE DEF r
  <2>3. r.nextId + 1 \in Nat
    BY <2>1 DEF Connection
  <2>4. o2 = [r EXCEPT !.state = "Requesting", !.session = id, !.nextId = @ + 1,
                       !.task = [mode |-> "request", id |-> id]]
    BY DEF r
  <2> HIDE DEF o2
  <2> QED
    BY <1>6, <2>1, <2>2, <2>3, <2>4 DEF Connection
<1>9. /\ h2 \in History /\ h2.written = 0 /\ h2.got = <<>> /\ h2.ended = "none"
      /\ h2.read = 0 /\ h2.over = FALSE
  BY <1>4 DEF NewHistory, History, Endings
<1> HIDE DEF o2, h2, z
<1>10. Half(x) /\ x.o = o2 /\ x.h = h2 /\ x.out = Append(closed.out, z)
  <2>1. Sound(o2, h2)
    BY <1>6, <1>8, <1>9 DEF Sound, Readable
  <2>2. Append(closed.out, z) \in Seq(Stanza)
    BY <1>5, <1>7
  <2> QED
    BY <1>8, <1>9, <2>1, <2>2, HalfRecord
<1> HIDE DEF x
<1>11. Follows(c, net, closed, x, z)
  BY <1>1, <1>5, <1>7, <1>10, WireAppend, Zenon
<1>12. \A m \in Elems(Wire(c, net, closed)) \cup Back(c, net) :
         m.id.obj = c => m.id.n < id.n /\ m.id # id
  <2>1. \A m \in Elems(Wire(c, net, closed)) \cup Back(c, net) :
          m.id.obj = c => m.id.n < closed.o.nextId
    BY <1>2 DEF Ready, Owned
  <2>2. ~(id.n < closed.o.nextId)
    BY <1>5, <1>6
  <2> QED
    BY <1>6, <2>1, <2>2
<1>13. conn[c].session # NoId =>
         closed.o.session = conn[c].session /\ conn[c].session.n < id.n
         /\ conn[c].session.n \in Nat
  <2>1. closed.o.session = conn[c].session
    BY <1>1, <1>2 DEF Extends
  <2>2. conn[c].session # NoId => conn[c].session \in IqId
    BY <1>4 DEF Connection
  <2> QED
    BY <1>3, <1>5, <1>6, <2>1, <2>2 DEF Loc, IqId
<1>14. \A k \in Pool : conn[k].session # id
  <2> SUFFICES ASSUME NEW k \in Pool, conn[k].session = id PROVE FALSE
    OBVIOUS
  <2>1. conn[c].session # NoId /\ id.n <= conn[c].session.n
    BY <1>6 DEF PInv, Sessions
  <2>2. id.n \in Nat
    BY <1>5, <1>6
  <2> QED
    BY <1>13, <2>1, <2>2
<1>15. Ready(c, net, x)
  <2>1. Fresh(o2, h2)
    BY <1>8, <1>9 DEF Fresh
  <2>2. Loc(c, x.o, x.h)
    <3>1. /\ Len(o2.sendbuf) <= h2.written
          /\ \A i \in DOMAIN o2.sendbuf : FALSE
      BY <1>8, <1>9
    <3>2. id.n < o2.nextId
      BY <1>5, <1>6, <1>8
    <3>3. o2.task.mode = "request"
      BY <1>8
    <3> QED
      BY <1>3, <1>6, <1>8, <1>10, <2>1, <3>1, <3>2, <3>3 DEF Loc
  <2>3. Linked(c, x.o)
    BY <1>8, <1>10 DEF Linked
  <2>4. Distinct(Wire(c, net, x))
    <3>1. \A m \in Elems(Wire(c, net, closed)) : m.id # z.id
      BY <1>6, <1>7, <1>12
    <3> QED
      BY <1>2, <1>7, <1>11, <3>1, DistinctAppend DEF Ready, Follows
  <2>5. ASSUME NEW m \in Elems(Wire(c, net, closed)) \cup Back(c, net), m.id.obj = c,
               m \in Stanza
        PROVE  Owned(c, x.o, x.h, m)
    <3>1. Owned(c, closed.o, closed.h, m)
      BY <1>2, <2>5 DEF Ready
    <3>2. m.id.n < id.n /\ m.id # id /\ m.id.n \in Nat
      BY <1>12, <2>5 DEF Stanza, IqId
    <3>3. m.id.n < o2.nextId /\ m.id.n <= id.n
      BY <1>5, <1>6, <1>8, <3>2
    <3>4. o2.task.mode = "request"
      BY <1>8
    <3> QED
      BY <1>6, <1>8, <1>10, <3>1, <3>2, <3>3, <3>4 DEF Owned
  <2>6. Owned(c, x.o, x.h, z)
    <3>1. id.n < o2.nextId /\ id.n <= id.n
      BY <1>5, <1>6, <1>8
    <3> QED
      BY <1>6, <1>7, <1>8, <1>10, <2>1, <3>1 DEF Owned
  <2>7. \A m \in Elems(Wire(c, net, closed)) \cup Back(c, net) : m \in Stanza
    <3>1. Wire(c, net, closed) \in Seq(Stanza) /\ Home[c] \in Peer
      BY <1>11, ObjAssumption DEF Follows
    <3> QED
      BY <1>1, <3>1, ElemsType DEF Back
  <2>8. Static(z, Other[Home[c]])
    <3>1. Home[c] = Other[Other[Home[c]]]
      BY PeerAssumption, ObjAssumption
    <3> QED
      BY <1>3, <1>6, <1>7, <1>14, <3>1 DEF Static
  <2> QED
    BY <1>2, <1>3, <1>6, <1>7, <1>10, <1>11, <2>2, <2>3, <2>4, <2>5, <2>6, <2>7, <2>8
       DEF Ready, Follows
<1>16. \A d \in Obj \ {c} : conn[d].session # x.o.session
  <2>1. ASSUME NEW d \in Initiators \ {c} PROVE conn[d].session # id
    <3>1. d \in Obj
      BY DEF Obj
    <3>2. conn[d].session # NoId => conn[d].session.obj = d
      BY <3>1 DEF PInv, Loc
    <3> QED
      BY <1>6, <3>2
  <2> QED
    BY <1>8, <1>10, <1>14, <2>1 DEF Obj
<1>17. NewOrSame(c, x)
  <2>1. conn[c].session # NoId => conn[c].session.n <= id.n
    BY <1>5, <1>6, <1>13
  <2> QED
    BY <1>6, <1>8, <1>10, <1>16, <2>1 DEF NewOrSame
<1>18. x.o.session # conn[c].session
  <2>1. id.n \in Nat
    BY <1>5, <1>6
  <2>2. conn[c].session = id => FALSE
    BY <1>6, <1>13, <2>1
  <2> QED
    BY <1>8, <1>10, <2>2
<1>19. Acks(Elems(x.out)) = {}
  <2>1. Acks(Elems(closed.out)) = {}
    BY <1>1, <1>2, ElemsEmpty DEF Extends, Acks
  <2> QED
    BY <1>7, <1>11, <2>1 DEF Acks, Follows
<1>20. Streams'
  BY <1>1, <1>3, <1>15, <1>17, <1>18, <1>19, CommitStreams
<1> QED
  BY <1>1, <1>3, <1>15, <1>17, <1>20, CommitSessions DEF PInv

\* Nothing was sent on a stream that is not open yet.
LEMMA FreshSent ==
    ASSUME NEW o, NEW h, Fresh(o, h)
    PROVE  Sent(o, h) = 0
<1>1. h.written = 0 /\ Len(o.sendbuf) = 0
  BY DEF Fresh
<1> QED
  BY <1>1 DEF Sent

\* ibb_incomingRequest: the two ends of the new stream have sent nothing, and
\* nothing with its id is on the wire.
LEMMA RequestPInv ==
    ASSUME PInv, NEW p \in Peer, net[p] # <<>>, Head(net[p]).type = "request",
           IncomingRequest(p, Head(net[p]))
    PROVE  PInv'
<1> DEFINE m == Head(net[p])
           q == Popped(p)
<1>1. /\ Taken(q) /\ m \in Elems(net[p]) /\ m \in Stanza /\ Valid(m, p)
      /\ \A l \in Elems(q[p]) : l.type \in {"request", "data"} => l.id # m.id
  BY TakenHead
<1>2. PICK c \in Pool :
        /\ Home[c] = p
        /\ conn[c].session = NoId
        /\ conn' = [conn EXCEPT ![c] =
                      [NewConnection EXCEPT !.state = "WaitingForAccept", !.sid = c,
                                            !.session = m.id, !.incoming = TRUE]]
        /\ net' = q
        /\ UNCHANGED hist
  BY DEF IncomingRequest
<1> DEFINE o2 == [NewConnection EXCEPT !.state = "WaitingForAccept", !.sid = c,
                                       !.session = m.id, !.incoming = TRUE]
<1>3. /\ o2.state = "WaitingForAccept" /\ o2.sid = c /\ o2.session = m.id /\ o2.nextId = 0
      /\ o2.task = NoTask /\ o2.sendbuf = <<>> /\ ~o2.closePending
  BY DEF NewConnection
<1>4. m.type = "request" /\ m.id \in IqId /\ m.id # NoId
  BY <1>1, NoIdFresh DEF Stanza
<1> HIDE DEF o2, m, q
<1>5. c \in Obj /\ c \notin Initiators /\ conn' = [conn EXCEPT ![c] = o2]
  BY <1>2, ObjAssumption DEF Obj, o2
<1>6. /\ conn'[c] = o2 /\ hist' = hist /\ net' = q
      /\ \A a \in Obj \ {c} : conn'[a] = conn[a]
  BY <1>2, <1>5 DEF PInv, IInv, TypeOK
<1>7. IInv'
  BY <1>2, RequestStep DEF PInv, m
<1>8. Loc(c, conn[c], hist[c]) /\ Fresh(conn[c], hist[c]) /\ conn[c].nextId = 0
  BY <1>2, <1>5 DEF PInv, Loc
<1>9. Fresh(o2, hist[c]) /\ hist[c].got = <<>> /\ hist[c].written = 0
  BY <1>3, <1>8 DEF Fresh
<1>10. Loc(c, o2, hist[c])
  <2>1. /\ Len(o2.sendbuf) <= hist[c].written
        /\ \A i \in DOMAIN o2.sendbuf : FALSE
    BY <1>3, <1>9
  <2> QED
    BY <1>3, <1>4, <1>5, <1>9, <2>1 DEF Loc, NoTask
<1>11. \A a \in Obj : Loc(a, conn[a], hist[a])'
  <2>1. \A a \in Obj : Loc(a, conn'[a], hist'[a])
    BY <1>6, <1>10 DEF PInv
  <2> QED
    BY <2>1 DEF Loc, Sent, Fresh
<1> DEFINE e == m.id.obj
<1>12. /\ e \in Initiators /\ e \in Obj /\ e # c /\ Home[e] = Other[p]
       /\ conn[e].session # NoId /\ m.id.n <= conn[e].session.n
       /\ m.id = conn[e].session => Fresh(conn[e], hist[e]) /\ conn[e].state # "Active"
       /\ \A k \in Pool : conn[k].session # m.id
  BY <1>1, <1>4, <1>5 DEF Valid, Static, Owned, Obj
<1>13. \A k \in Pool : conn[k].session # NoId => k # c /\ conn'[k].session = conn[k].session
  BY <1>2, <1>6 DEF Obj
<1>14. Sessions'
  <2>1. ASSUME NEW k \in Pool, conn'[k].session # NoId
        PROVE  LET f == conn'[k].session.obj
               IN  /\ f \in Initiators /\ Home[f] = Other[Home[k]]
                   /\ conn'[f].session # NoId /\ conn'[k].session.n <= conn'[f].session.n
    <3>1. CASE k = c
      BY <1>2, <1>3, <1>6, <1>12, <3>1
    <3>2. CASE k # c
      <4> DEFINE f == conn[k].session.obj
      <4>1. conn'[k] = conn[k]
        BY <1>6, <3>2 DEF Obj
      <4>2. /\ f \in Initiators /\ Home[f] = Other[Home[k]]
            /\ conn[f].session # NoId /\ conn[k].session.n <= conn[f].session.n
        BY <2>1, <4>1 DEF PInv, Sessions
      <4>3. conn'[f] = conn[f]
        BY <1>5, <1>6, <4>2 DEF Obj
      <4> QED
        BY <4>1, <4>2, <4>3
    <3> QED
      BY <3>1, <3>2
  <2>2. ASSUME NEW a \in Obj PROVE Linked(a, conn[a])'
    <3>1. CASE a = c
      BY <1>5, <3>1 DEF Linked
    <3>2. CASE a # c
      <4>1. conn'[a] = conn[a] /\ Linked(a, conn[a])
        BY <1>6, <3>2 DEF PInv, Sessions
      <4>2. conn[a].state = "Active" => conn[a].session # NoId
        BY DEF PInv, IInv, Sound
      <4> QED
        BY <1>13, <4>1, <4>2 DEF Linked
    <3> QED
      BY <3>1, <3>2
  <2>3. \A k, l \in Pool : conn'[k].session = conn'[l].session /\ conn'[k].session # NoId
                            => k = l
    <3>1. \A k \in Pool \ {c} : conn'[k] = conn[k] /\ conn'[k].session # m.id
      BY <1>6, <1>12 DEF Obj
    <3>2. conn'[c].session = m.id
      BY <1>3, <1>6
    <3> QED
      BY <3>1, <3>2 DEF PInv, Sessions
  <2> QED
    BY <2>1, <2>2, <2>3 DEF Sessions
<1>15. ASSUME NEW r \in Peer, NEW l \in Elems(net'[r])
       PROVE  /\ Valid(l, r) /\ l.id.obj \in Obj /\ l.id.obj # c
              /\ Static(l, r)' /\ Owned(l.id.obj, conn'[l.id.obj], hist'[l.id.obj], l)
  <2>1. l \in Elems(net[r]) /\ l \in Elems(q[r]) /\ l \in Stanza
    <3>1. l \in Elems(q[r])
      BY <1>6, <1>15
    <3>2. l \in Elems(net[r]) /\ net[r] \in Seq(Stanza)
      BY <1>1, <3>1 DEF Taken, PInv, IInv, TypeOK
    <3> QED
      BY <3>1, <3>2, ElemsType
  <2>2. Valid(l, r) /\ l.id \in IqId
    BY <2>1 DEF PInv, Stanza
  <2>3. l.id.obj \in Obj /\ l.id.obj # c
    <3>1. l.id.obj \in Obj /\ l.id.n \in Nat
      BY <2>2 DEF IqId
    <3>2. l.id.obj = c => l.id.n < 0
      BY <1>8, <2>2 DEF Valid, Owned
    <3> QED
      BY <3>1, <3>2
  <2>4. l.type = "request" => l.id # m.id
    <3> SUFFICES ASSUME l.type = "request", l.id = m.id PROVE FALSE
      OBVIOUS
    <3>1. Other[r] = Other[p]
      BY <1>12, <2>2 DEF Valid, Static
    <3>2. r = p
      BY <3>1, PeerAssumption
    <3> QED
      BY <1>1, <2>1, <3>2
  <2>5. Static(l, r)'
    <3>1. l.type = "request" =>
            l.id.obj \in Initiators /\ \A k \in Pool : conn'[k].session # l.id
      <4>1. \A k \in Pool \ {c} : conn'[k] = conn[k]
        BY <1>6 DEF Obj
      <4>2. conn'[c].session = m.id
        BY <1>3, <1>6
      <4> QED
        BY <2>2, <2>4, <4>1, <4>2 DEF Valid, Static
    <3>2. l.type = "data" => Route(l.id.obj, l.sid)'
      BY <1>13, <2>2 DEF Valid, Static, Route
    <3>3. l.type = "result" /\ l.sid # NoObj => l.sid \in Pool /\ conn'[l.sid].session = l.id
      BY <1>13, <2>2, NoIdFresh DEF Valid, Static
    <3> QED
      BY <2>2, <3>1, <3>2, <3>3 DEF Valid, Static
  <2> QED
    BY <1>6, <2>2, <2>3, <2>5 DEF Valid
<1>16. \A r \in Peer : Distinct(net[r])' /\ \A l \in Elems(net'[r]) : Valid(l, r)'
  <2>1. \A r \in Peer : Distinct(net'[r])
    BY <1>1, <1>6 DEF Taken
  <2> QED
    BY <1>15, <2>1 DEF Distinct, Valid, Owned, Fresh
<1>17. ASSUME NEW a \in Obj, NEW b \in Obj, SameStream(a, b)'
       PROVE  Carries(conn'[a], hist'[a], hist'[b].got, Mine(a, Sid(a, b), Elems(net'[Home[b]])),
                      Acks(Elems(net'[Home[a]])))
  <2> DEFINE E == Mine(a, Sid(a, b), Elems(net'[Home[b]]))
             S == Acks(Elems(net'[Home[a]]))
  <2>1. Home[a] \in Peer /\ Home[b] \in Peer
    BY ObjAssumption
  <2>2. \A d \in Obj \ {c} : conn'[d] = conn[d] /\ (conn'[d].session = m.id => d = e)
    <3> SUFFICES ASSUME NEW d \in Obj \ {c}, conn[d].session = m.id PROVE d = e
      BY <1>6
    <3>1. d \in Initiators
      BY <1>12 DEF Obj
    <3> QED
      BY <1>4, <3>1 DEF PInv, Loc
  <2>3. CASE a = c
    <3>1. b = e /\ conn[e].session = m.id
      BY <1>3, <1>6, <1>17, <2>2, <2>3 DEF SameStream
    <3>2. hist[b].got = <<>>
      BY <1>12, <3>1 DEF Fresh
    <3>3. E = {}
      BY <1>15, <2>1, <2>3 DEF Mine
    <3>4. Sent(o2, hist[c]) = 0
      BY <1>9, FreshSent
    <3>5. Counts(o2.state, o2.task, 0, 0, {}, S)
      BY <1>3, CountsFresh DEF NoTask
    <3>6. Len(hist[b].got) = 0 /\ DOMAIN hist[b].got = {}
      BY <3>2
    <3> HIDE DEF E, S
    <3>7. Contents(hist[c].over, hist[b].got, {})
      BY <3>6 DEF Contents
    <3>8. Carries(o2, hist[c], hist[b].got, E, S)
      BY <3>3, <3>4, <3>5, <3>6, <3>7 DEF Carries
    <3> QED
      BY <1>6, <2>3, <3>8 DEF E, S
  <2>4. CASE b = c
    <3>1. a = e /\ conn[e].session = m.id
      BY <1>3, <1>6, <1>17, <2>2, <2>4 DEF SameStream
    <3>2. Fresh(conn[e], hist[e]) /\ conn[e].state # "Active"
      BY <1>12, <3>1
    <3>3. E = {}
      <4>1. Sid(a, b) = c
        BY <1>12, <2>4, <3>1, ObjAssumption DEF Sid
      <4>2. \A l \in Elems(net'[Home[b]]) : l.type = "data" => l.sid # c
        BY <1>2, <1>15, <2>1 DEF Valid, Static, Route
      <4> QED
        BY <4>1, <4>2 DEF Mine
    <3>4. Sent(conn[e], hist[e]) = 0
      BY <3>2, FreshSent
    <3>5. conn[e].task.mode # "data"
      BY <1>12, <3>2 DEF PInv, Loc
    <3>6. Counts(conn[e].state, conn[e].task, 0, 0, {}, S)
      BY <3>5, CountsFresh
    <3>7. Len(hist[c].got) = 0 /\ DOMAIN hist[c].got = {}
      BY <1>9
    <3> HIDE DEF E, S
    <3>8. Contents(hist[e].over, hist[c].got, {})
      BY <3>7 DEF Contents
    <3>9. Carries(conn[e], hist[e], hist[c].got, E, S)
      BY <3>3, <3>4, <3>6, <3>7, <3>8 DEF Carries
    <3> QED
      BY <1>6, <1>12, <2>4, <3>1, <3>9 DEF E, S
  <2>5. CASE a # c /\ b # c
    <3> DEFINE D == Mine(a, Sid(a, b), Elems(net[Home[b]]))
               R == Acks(Elems(net[Home[a]]))
    <3>1. conn'[a] = conn[a] /\ conn'[b] = conn[b]
      BY <1>6, <2>5
    <3>2. Carries(conn[a], hist[a], hist[b].got, D, R)
      BY <1>17, <3>1 DEF PInv, Streams, SameStream
    <3>3. E \subseteq D /\ S \subseteq R
      BY <1>1, <1>6, <2>1 DEF Taken, Mine, Acks
    <3> HIDE DEF D, E, R, S
    <3>4. Counts(conn[a].state, conn[a].task, Sent(conn[a], hist[a]), Len(hist[b].got), E, S)
      BY <3>2, <3>3, CountsLess DEF Carries
    <3>5. Contents(hist[a].over, hist[b].got, E)
      BY <3>2, <3>3 DEF Carries, Contents
    <3> QED
      BY <1>6, <3>1, <3>4, <3>5 DEF Carries, E, S
  <2> QED
    BY <2>3, <2>4, <2>5
<1>18. Streams'
  <2>1. ASSUME NEW a \in Obj, NEW b \in Obj
        PROVE  SameStream(a, b)' =>
                 Carries(conn[a], hist[a], hist[b].got, Mine(a, Sid(a, b), Elems(net[Home[b]])),
                         Acks(Elems(net[Home[a]])))'
    BY <1>17 DEF Carries, Counts, Contents, Sent, Mine, Acks, Elems
  <2> QED
    BY <2>1 DEF Streams
<1> QED
  BY <1>7, <1>11, <1>14, <1>16, <1>18 DEF PInv

\* Stanzas are lost, or an error takes the place of one.
LEMMA OtherQueuesPInv ==
    ASSUME PInv, UNCHANGED <<conn, hist>>, net' \in [Peer -> Seq(Stanza)],
           \A p \in Peer : Distinct(net'[p]),
           \A p \in Peer : \A m \in Elems(net'[p]) :
              m \in Elems(net[p]) \/ (m.type = "error" /\ Valid(m, p))
    PROVE  PInv'
<1>1. IInv'
  BY DEF PInv, IInv, TypeOK, Sound, Readable
<1>2. \A a \in Obj : Loc(a, conn[a], hist[a])'
  BY DEF PInv, Loc, Sent, Fresh
<1>3. Sessions'
  BY DEF PInv, Sessions, Linked
<1>4. \A p \in Peer : Distinct(net[p])' /\ \A m \in Elems(net'[p]) : Valid(m, p)'
  <2>1. ASSUME NEW p \in Peer, NEW m \in Elems(net'[p])
        PROVE  Valid(m, p)'
    <3>1. Valid(m, p)
      BY <2>1 DEF PInv
    <3> QED
      BY <3>1 DEF Valid, Static, Owned, Fresh, Route
  <2>2. \A p \in Peer : Distinct(net[p])'
    BY DEF Distinct
  <2> QED
    BY <2>1, <2>2
<1>5. ASSUME NEW a \in Obj, NEW b \in Obj, SameStream(a, b)
      PROVE  Carries(conn[a], hist[a], hist[b].got, Mine(a, Sid(a, b), Elems(net'[Home[b]])),
                     Acks(Elems(net'[Home[a]])))
  <2> DEFINE D == Mine(a, Sid(a, b), Elems(net[Home[b]]))
             E == Mine(a, Sid(a, b), Elems(net'[Home[b]]))
             R == Acks(Elems(net[Home[a]]))
             S == Acks(Elems(net'[Home[a]]))
  <2>1. Home[a] \in Peer /\ Home[b] \in Peer
    BY ObjAssumption
  <2>2. Carries(conn[a], hist[a], hist[b].got, D, R)
    BY <1>5 DEF PInv, Streams
  <2>3. E \subseteq D /\ S \subseteq R
    BY <2>1 DEF Mine, Acks
  <2> HIDE DEF D, E, R, S
  <2>4. Counts(conn[a].state, conn[a].task, Sent(conn[a], hist[a]), Len(hist[b].got), E, S)
    BY <2>2, <2>3, CountsLess DEF Carries
  <2>5. Contents(hist[a].over, hist[b].got, E)
    BY <2>2, <2>3 DEF Carries, Contents
  <2> QED
    BY <2>4, <2>5 DEF Carries, E, S
<1>6. Streams'
  <2>1. ASSUME NEW a \in Obj, NEW b \in Obj
        PROVE  SameStream(a, b)' =>
                 Carries(conn[a], hist[a], hist[b].got, Mine(a, Sid(a, b), Elems(net[Home[b]])),
                         Acks(Elems(net[Home[a]])))'
    <3>1. SameStream(a, b)' => SameStream(a, b)
      BY DEF SameStream
    <3>2. SameStream(a, b) =>
            Carries(conn'[a], hist'[a], hist'[b].got, Mine(a, Sid(a, b), Elems(net'[Home[b]])),
                    Acks(Elems(net'[Home[a]])))
      BY <1>5
    <3> QED
      BY ONLY <3>1, <3>2 DEF Carries, Counts, Contents, Sent, Mine, Acks, Elems
  <2> QED
    BY <2>1 DEF Streams
<1> QED
  BY <1>1, <1>2, <1>3, <1>4, <1>6 DEF PInv

\* The client answers a stanza for a stream it does not know.
LEMMA NoStreamPInv ==
    ASSUME PInv, NEW p \in Peer, net[p] # <<>>, NEW m, m = Head(net[p]), m.type = "data",
           net' = [Popped(p) EXCEPT ![Other[p]] = Append(@, Error(m.id))],
           UNCHANGED <<conn, hist>>
    PROVE  PInv'
<1> DEFINE q == Popped(p)
           z == Error(m.id)
<1>1. Taken(q) /\ m \in Elems(net[p]) /\ m \in Stanza /\ Valid(m, p)
  BY TakenHead
<1>2. m.id \in IqId /\ z \in Stanza /\ z.type = "error" /\ z.id = m.id
  BY <1>1, StanzaTypes DEF Stanza, Error
<1>3. Other[p] \in Peer /\ p = Other[Other[p]]
  BY PeerAssumption
<1>4. Valid(z, Other[p])
  BY <1>1, <1>2, <1>3 DEF Valid, Static, Owned
<1> HIDE DEF q, z
<1>5. q \in [Peer -> Seq(Stanza)] /\ q[Other[p]] \in Seq(Stanza)
  BY <1>1, <1>3 DEF Taken
<1>6. net' = [q EXCEPT ![Other[p]] = Append(q[Other[p]], z)]
  BY DEF q, z
<1>7. Append(q[Other[p]], z) \in Seq(Stanza) /\ Distinct(Append(q[Other[p]], z))
      /\ Elems(Append(q[Other[p]], z)) = Elems(q[Other[p]]) \cup {z}
  <2>1. Distinct(Append(q[Other[p]], z))
    BY <1>1, <1>2, <1>3, <1>5, DistinctAppend DEF Taken
  <2> QED
    BY <1>2, <1>5, <2>1, ElemsAppend
<1>8. net' \in [Peer -> Seq(Stanza)]
  BY <1>3, <1>5, <1>6, <1>7
<1>9. \A r \in Peer : net'[r] = IF r = Other[p] THEN Append(q[Other[p]], z) ELSE q[r]
  BY <1>3, <1>5, <1>6
<1>10. \A r \in Peer : Distinct(net'[r])
  BY <1>1, <1>7, <1>9 DEF Taken
<1>11. ASSUME NEW r \in Peer, NEW l \in Elems(net'[r])
       PROVE  l \in Elems(net[r]) \/ (l.type = "error" /\ Valid(l, r))
  <2>1. CASE r = Other[p]
    <3>1. l \in Elems(q[r]) \cup {z}
      BY <1>7, <1>9, <1>11, <2>1
    <3> QED
      BY <1>1, <1>2, <1>4, <2>1, <3>1 DEF Taken
  <2>2. CASE r # Other[p]
    BY <1>1, <1>9, <1>11, <2>2 DEF Taken
  <2> QED
    BY <2>1, <2>2
<1> QED
  BY <1>8, <1>10, <1>11, OtherQueuesPInv

\* A response that nobody waits for.
LEMMA DroppedPInv ==
    ASSUME PInv, NEW p \in Peer, net[p] # <<>>, ResponseDropped(p, Head(net[p]))
    PROVE  PInv'
<1>1. Taken(Popped(p)) /\ net' = Popped(p) /\ UNCHANGED <<conn, hist>>
  BY TakenHead DEF ResponseDropped
<1> QED
  BY <1>1, OtherQueuesPInv DEF Taken

\* The connection that takes a stanza of a stream is the other end of it.
LEMMA TakerIsPartner ==
    ASSUME PInv, NEW p \in Peer, NEW m, Valid(m, p), m.type = "data",
           NEW c \in FindConnection(p, m.sid)
    PROVE  /\ m.id.obj # c
           /\ \A a \in Obj : SameStream(a, c) => m.id.obj = a /\ m.sid = Sid(a, c)
           /\ \A a \in Obj : m.id.obj = a /\ conn[a].session # NoId
                             /\ (a \in Initiators => conn[m.sid].session = conn[a].session)
                             => SameStream(a, c)
<1>1. c \in Obj /\ Home[c] = p /\ conn[c].state = "Active" /\ conn[c].sid = m.sid
  BY DEF FindConnection
<1>2. conn[c].session # NoId
  BY <1>1 DEF PInv, IInv, Sound
<1>3. Home[m.id.obj] = Other[p] /\ Route(m.id.obj, m.sid)
  BY DEF Valid, Static
<1>4. m.id.obj # c
  BY <1>1, <1>3, PeerAssumption
<1>5. c \in Pool => m.sid = c
  BY <1>1, <1>2 DEF PInv, Loc
<1>6. c \in Initiators => m.sid \in Pool /\ conn[m.sid].session = conn[c].session
                          /\ conn[c].session.obj = c
  BY <1>1, <1>2 DEF PInv, Sessions, Linked, Loc
<1>7. ASSUME NEW a \in Obj, SameStream(a, c)
      PROVE  m.id.obj = a /\ m.sid = Sid(a, c)
  <2>1. CASE c \in Pool /\ a \in Initiators
    <3>1. conn[c].session.obj = a
      BY <1>7, <2>1 DEF PInv, Loc, SameStream
    <3> QED
      BY <1>3, <1>4, <1>5, <2>1, <3>1, ObjAssumption DEF Route, Sid
  <2>2. CASE c \in Initiators /\ a \in Pool
    <3>1. m.sid = a
      BY <1>2, <1>6, <1>7, <2>2 DEF PInv, Sessions, SameStream
    <3> QED
      BY <1>3, <1>4, <1>6, <2>2, <3>1 DEF Route, Sid
  <2> QED
    BY <1>1, <1>7, <2>1, <2>2, Ends
<1>8. ASSUME NEW a \in Obj, m.id.obj = a, conn[a].session # NoId,
             a \in Initiators => conn[m.sid].session = conn[a].session
      PROVE  SameStream(a, c)
  <2>1. CASE a \in Pool
    <3>1. c \notin Pool
      <4>1. c \in Pool => conn[c].session.obj \in Initiators
        BY <1>2 DEF PInv, Sessions
      <4> QED
        BY <1>3, <1>4, <1>5, <1>8, <2>1, <4>1, ObjAssumption DEF Route
    <3>2. c \in Initiators
      BY <1>1, <3>1 DEF Obj
    <3> QED
      BY <1>3, <1>4, <1>6, <1>8, <3>2 DEF Route, SameStream
  <2>2. CASE a \in Initiators
    <3>1. a # c /\ conn[m.sid].session = conn[a].session
      BY <1>4, <1>8, <2>2
    <3> QED
      BY <1>1, <1>5, <1>6, <1>8, <3>1 DEF SameStream, Obj
  <2> QED
    BY <2>1, <2>2 DEF Obj
<1> QED
  BY <1>4, <1>7, <1>8

\* A connection is in one stream at a time.
LEMMA OnePartner ==
    ASSUME PInv, NEW a \in Obj, NEW b \in Obj, NEW c \in Obj, SameStream(a, b), SameStream(a, c)
    PROVE  b = c
<1>1. CASE a \in Pool /\ b \in Initiators /\ c \in Initiators
  <2>1. /\ conn[b].session = conn[a].session /\ conn[b].session # NoId
        /\ conn[c].session = conn[a].session /\ conn[c].session # NoId
    BY DEF SameStream
  <2>2. \A e \in Obj : Loc(e, conn[e], hist[e])
    BY DEF PInv
  <2>3. conn[b].session.obj = b /\ conn[c].session.obj = c
    BY <1>1, <2>1, <2>2 DEF Loc
  <2> QED
    BY <2>1, <2>3
<1>2. CASE a \in Initiators /\ b \in Pool /\ c \in Pool
  BY <1>2 DEF PInv, Sessions, SameStream
<1>3. (a \in Pool /\ b \in Initiators) \/ (a \in Initiators /\ b \in Pool)
  BY Ends
<1>4. (a \in Pool /\ c \in Initiators) \/ (a \in Initiators /\ c \in Pool)
  BY Ends
<1>5. ~(a \in Initiators /\ a \in Pool)
  BY ObjAssumption
<1>6. CASE a \in Pool
  BY <1>1, <1>3, <1>4, <1>5, <1>6
<1>7. CASE a \in Initiators
  BY <1>2, <1>3, <1>4, <1>5, <1>7
<1> QED
  BY <1>3, <1>6, <1>7

\* A position of a concatenation is in one part of it.
LEMMA ConcatCases ==
    ASSUME NEW s \in Seq(Nat), NEW t \in Seq(Nat), NEW u, u = s \o t
    PROVE  /\ Len(u) = Len(s) + Len(t)
           /\ \A i \in DOMAIN u :
                \/ i \in DOMAIN s /\ u[i] = s[i]
                \/ i - Len(s) \in DOMAIN t /\ u[i] = t[i - Len(s)] /\ Len(s) + (i - Len(s)) = i
<1>1. /\ u \in Seq(Nat) /\ Len(u) = Len(s) + Len(t)
      /\ \A j \in 1..(Len(s) + Len(t)) : u[j] = IF j <= Len(s) THEN s[j] ELSE t[j - Len(s)]
  BY ConcatProperties
<1>2. Len(s) \in Nat /\ Len(t) \in Nat /\ DOMAIN s = 1..Len(s) /\ DOMAIN t = 1..Len(t)
      /\ DOMAIN u = 1..Len(u)
  BY <1>1, LenProperties
<1>3. ASSUME NEW i \in DOMAIN u
      PROVE  \/ i \in DOMAIN s /\ u[i] = s[i]
             \/ i - Len(s) \in DOMAIN t /\ u[i] = t[i - Len(s)] /\ Len(s) + (i - Len(s)) = i
  <2>1. i \in 1..(Len(s) + Len(t)) /\ i \in Int
    BY <1>1, <1>2
  <2>2. CASE i <= Len(s)
    BY <1>1, <1>2, <2>1, <2>2
  <2>3. CASE ~(i <= Len(s))
    <3>1. i - Len(s) \in 1..Len(t) /\ Len(s) + (i - Len(s)) = i
      BY <1>2, <2>1, <2>3
    <3> QED
      BY <1>1, <1>2, <2>1, <2>3, <3>1
  <2> QED
    BY <2>2, <2>3
<1> QED
  BY <1>1, <1>3

\* ibb_incomingData: the bytes go on from where the receiver was, and the
\* acknowledgement goes to the task that sent them.
LEMMA TakeReady ==
    ASSUME PInv, NEW p \in Peer, net[p] # <<>>, NEW m, m = Head(net[p]), m.type = "data",
           NEW c \in FindConnection(p, m.sid)
    PROVE  /\ Ready(c, Popped(p), Take(c, m))
           /\ Acks(Elems(Take(c, m).out)) = {m.id}
           /\ \A d \in Obj : SameStream(c, d) =>
                Flow(c, Sid(c, d), hist[d].got, Popped(p), Take(c, m))
<1> DEFINE q == Popped(p)
           x == Take(c, m)
           s == Start(c)
           z == Success(m.id, NoObj)
<1>1. Taken(q) /\ m \in Elems(net[p]) /\ m \in Stanza /\ Valid(m, p)
  BY TakenHead
<1>2. c \in Obj /\ Home[c] = p /\ conn[c].state = "Active" /\ conn[c].sid = m.sid
  BY DEF FindConnection
<1>3. /\ Half(x)
      /\ x.o.session # NoId /\ x.h.ended = "none"
      /\ x.o.session = conn[c].session /\ x.o.sid = conn[c].sid
      /\ x.o.state = "Active" /\ x.o.nextId = conn[c].nextId
      /\ x.o.task = conn[c].task /\ x.o.sendbuf = conn[c].sendbuf
      /\ x.h.written = hist[c].written /\ x.h.over = hist[c].over
      /\ x.out = <<z>>
  BY <1>1, <1>2, TakeHalf, ZenonT(30) DEF PInv
<1>4. m.id \in IqId /\ z \in Stanza /\ z.type = "result" /\ z.id = m.id /\ z.sid = NoObj
  BY <1>1, StanzaTypes DEF Stanza, Success
<1>5. /\ Ready(c, q, s) /\ Wire(c, q, s) = q[Other[Home[c]]]
      /\ s.o = conn[c] /\ s.h = hist[c] /\ s.out = <<>> /\ q \in [Peer -> Seq(Stanza)]
  BY <1>1, <1>2, StartReady DEF Taken, Start
<1> HIDE DEF x, z, q, s
<1>6. Follows(c, q, s, x, z)
  <2>1. s.out \in Seq(Stanza) /\ x.out = Append(s.out, z)
    BY <1>3, <1>5
  <2> QED
    BY <1>2, <1>4, <1>5, <2>1, WireAppend, Zenon
<1>7. Elems(x.out) = {z}
  BY <1>3, ElemsOne
<1>8. Loc(c, x.o, x.h) /\ Sent(x.o, x.h) = Sent(conn[c], hist[c])
  <2>1. Loc(c, conn[c], hist[c])
    BY <1>2 DEF PInv
  <2>2. Sent(x.o, x.h) = Sent(conn[c], hist[c])
    BY <1>3 DEF Sent
  <2> QED
    BY <1>2, <1>3, <2>1, <2>2 DEF Loc
<1>9. Linked(c, x.o)
  BY <1>2, <1>3 DEF PInv, Sessions, Linked
<1>10. Distinct(Wire(c, q, x))
  BY <1>4, <1>5, <1>6, DistinctAppend DEF Ready, Follows
<1>11. m.id.obj # c /\ m.id.obj \in Obj
  BY <1>1, <1>4, TakerIsPartner DEF IqId
<1>12. \A l \in Elems(Wire(c, q, x)) \cup Back(c, q) : l.id.obj = c => Owned(c, x.o, x.h, l)
  <2> SUFFICES ASSUME NEW l \in Elems(Wire(c, q, s)) \cup Back(c, q), l.id.obj = c
               PROVE  Owned(c, x.o, x.h, l)
    BY <1>4, <1>6, <1>11 DEF Follows
  <2>1. Owned(c, conn[c], hist[c], l)
    BY <1>5 DEF Ready
  <2> QED
    BY <1>2, <1>3, <2>1 DEF Owned
<1>13. Static(z, Other[Home[c]]) /\ Owned(m.id.obj, conn[m.id.obj], hist[m.id.obj], z)
  BY <1>1, <1>2, <1>4 DEF Valid, Static, Owned
<1>14. Ready(c, q, x)
  <2>1. c \in Pool => x.o.session = conn[c].session
    BY <1>3
  <2> QED
    BY <1>3, <1>4, <1>7, <1>8, <1>9, <1>10, <1>12, <1>13, <2>1 DEF Ready
<1>15. Acks(Elems(x.out)) = {m.id}
  BY <1>4, <1>7 DEF Acks
<1>16. ASSUME NEW d \in Obj, SameStream(c, d)
       PROVE  Flow(c, Sid(c, d), hist[d].got, q, x)
  <2>1. Flow(c, Sid(c, d), hist[d].got, q, s)
    BY <1>1, <1>2, <1>16, StartReady DEF s
  <2>2. Mine(c, Sid(c, d), Elems(Wire(c, q, x))) = Mine(c, Sid(c, d), Elems(Wire(c, q, s)))
    BY <1>4, <1>6 DEF Mine, Follows
  <2> QED
    BY <1>2, <1>3, <1>5, <1>8, <2>1, <2>2 DEF Flow, Carries
<1> QED
  BY <1>14, <1>15, <1>16 DEF x, q

\* The sender of the bytes that c takes has one more chunk acknowledged.
LEMMA TakenByPartner ==
    ASSUME PInv, NEW p \in Peer, net[p] # <<>>, NEW m, m = Head(net[p]), m.type = "data",
           NEW c \in FindConnection(p, m.sid),
           NEW x, Half(x), x.h.got = hist[c].got \o m.data, Acks(Elems(x.out)) = {m.id},
           NEW a \in Obj, SameStream(a, c)
    PROVE  Carries(conn[a], hist[a], x.h.got, Mine(a, Sid(a, c), Elems(Popped(p)[Home[c]])),
                   Acks(Elems(Wire(c, Popped(p), x))))
<1> DEFINE q == Popped(p)
           D == Mine(a, Sid(a, c), Elems(net[Home[c]]))
           E == Mine(a, Sid(a, c), Elems(q[Home[c]]))
           R == Acks(Elems(net[Home[a]]))
           S == Acks(Elems(Wire(c, q, x)))
<1>1. /\ Taken(q) /\ m \in Elems(net[p]) /\ m \in Stanza /\ Valid(m, p)
      /\ \A l \in Elems(q[p]) : l.type \in {"request", "data"} => l.id # m.id
  BY TakenHead
<1>2. c \in Obj /\ Home[c] = p /\ conn[c].state = "Active" /\ conn[c].sid = m.sid
  BY DEF FindConnection
<1>3. Home[a] = Other[Home[c]] /\ Home[a] \in Peer /\ Home[c] \in Peer
  BY <1>2, Ends, ObjAssumption
<1>4. Carries(conn[a], hist[a], hist[c].got, D, R)
  BY <1>2 DEF PInv, Streams
<1>5. m \in D
  BY <1>1, <1>2, TakerIsPartner DEF Mine
<1>6. E \subseteq D /\ \A l \in E : l.id # m.id
  BY <1>1, <1>2 DEF Taken, Mine
<1>7. S \subseteq R \cup {m.id}
  <2>1. Elems(Wire(c, q, x)) = Elems(q[Home[a]]) \cup Elems(x.out)
    BY <1>1, <1>3, Parts, ElemsConcat DEF Wire, Taken
  <2> QED
    BY <1>1, <1>3, <2>1 DEF Taken, Acks
<1>8. \A l \in D : l.data \in Seq(Nat) /\ Len(l.data) \in Nat /\ (l.data = <<>> <=> Len(l.data) = 0)
  <2>1. net[Home[c]] \in Seq(Stanza)
    BY <1>3 DEF PInv, IInv, TypeOK
  <2>2. \A l \in D : l.data \in Seq(Nat)
    <3>1. \A l \in D : l \in Stanza
      BY <2>1, ElemsType DEF Mine
    <3>2. \A l \in Stanza : l.data \in Seq(Nat)
      BY DEF Stanza
    <3> QED
      BY <3>1, <3>2, Zenon
  <2>3. \A t \in Seq(Nat) : Len(t) \in Nat /\ (t = <<>> <=> Len(t) = 0)
    OBVIOUS
  <2> QED
    BY <2>2, <2>3
<1>9. /\ hist[c].got \in Seq(Nat) /\ Len(hist[c].got) \in Nat /\ m.data \in Seq(Nat)
      /\ Sent(conn[a], hist[a]) \in Nat
      /\ conn[a].task.mode = "data" => conn[a].state # "Idle"
  <2>1. hist[c] \in History /\ hist[a] \in History /\ conn[a] \in Connection
        /\ Loc(a, conn[a], hist[a])
    BY <1>2 DEF PInv, IInv, TypeOK
  <2>2. hist[c].got \in Seq(Nat) /\ m.data \in Seq(Nat)
    BY <1>1, <2>1 DEF History, Stanza
  <2>3. Sent(conn[a], hist[a]) \in Nat
    BY <2>1, SentType
  <2>4. conn[a].task.mode = "data" => conn[a].state # "Idle"
    BY <2>1 DEF Loc
  <2> QED
    BY <2>2, <2>3, <2>4
<1>10. /\ Len(x.h.got) = Len(hist[c].got) + Len(m.data)
       /\ \A i \in DOMAIN x.h.got :
            \/ i \in DOMAIN hist[c].got /\ x.h.got[i] = hist[c].got[i]
            \/ /\ i - Len(hist[c].got) \in DOMAIN m.data
               /\ x.h.got[i] = m.data[i - Len(hist[c].got)]
               /\ Len(hist[c].got) + (i - Len(hist[c].got)) = i
  <2> DEFINE g == hist[c].got
             u == x.h.got
             t == m.data
  <2>1. g \in Seq(Nat) /\ t \in Seq(Nat) /\ u = g \o t
    BY <1>9
  <2> HIDE DEF g, u, t
  <2>2. /\ Len(u) = Len(g) + Len(t)
        /\ \A i \in DOMAIN u :
             \/ i \in DOMAIN g /\ u[i] = g[i]
             \/ i - Len(g) \in DOMAIN t /\ u[i] = t[i - Len(g)] /\ Len(g) + (i - Len(g)) = i
    BY <2>1, ConcatCases
  <2> QED
    BY <2>2, Zenon DEF g, u, t
<1> HIDE DEF q, D, E, R, S
<1>11. Counts(conn[a].state, conn[a].task, Sent(conn[a], hist[a]),
              Len(hist[c].got) + Len(m.data), E, S)
  BY <1>4, <1>5, <1>6, <1>7, <1>8, <1>9, CountsReceived DEF Carries
<1>12. Contents(hist[a].over, x.h.got, E)
  <2> SUFFICES ASSUME ~hist[a].over
               PROVE  /\ \A i \in DOMAIN x.h.got : x.h.got[i] = i
                      /\ \A l \in E : \A j \in DOMAIN l.data : l.data[j] = Len(x.h.got) + j
    BY DEF Contents
  <2>1. /\ \A i \in DOMAIN hist[c].got : hist[c].got[i] = i
        /\ \A l \in D : \A j \in DOMAIN l.data : l.data[j] = Len(hist[c].got) + j
    BY <1>4 DEF Carries, Contents
  <2>2. \A i \in DOMAIN x.h.got : x.h.got[i] = i
    BY <1>5, <1>10, <2>1, ZenonT(30)
  <2>3. ASSUME NEW l \in E, NEW j \in DOMAIN l.data
        PROVE  l.data[j] = Len(x.h.got) + j
    <3>1. l \in D /\ l # m /\ l.data # <<>>
      BY <1>6, <2>3
    <3>2. m.data = <<>>
      BY <1>4, <1>5, <3>1 DEF Carries, Counts
    <3>3. Len(x.h.got) = Len(hist[c].got)
      <4>1. Len(m.data) = 0
        BY <3>2
      <4>2. \A n \in Nat : n + 0 = n
        OBVIOUS
      <4> QED
        BY <1>9, <1>10, <4>1, <4>2
    <3> QED
      BY <2>1, <3>1, <3>3
  <2> QED
    BY <2>2, <2>3
<1> QED
  BY <1>10, <1>11, <1>12 DEF Carries, E, S, q

\* ibb_incomingData keeps the invariant.
LEMMA DataPInv ==
    ASSUME PInv, NEW p \in Peer, net[p] # <<>>, NEW m, m = Head(net[p]), m.type = "data",
           IncomingData(p, m)
    PROVE  PInv'
<1>1. CASE net' = [Popped(p) EXCEPT ![Other[p]] = Append(@, Error(m.id))]
           /\ UNCHANGED <<conn, hist>>
  BY <1>1, NoStreamPInv
<1>2. ASSUME NEW c \in FindConnection(p, m.sid), NEW r \in Reaction(c),
             Commit(c, IF m.close THEN ResetEnding(React(c, Take(c, m), r), FALSE, "closed")
                                  ELSE React(c, Take(c, m), r), Popped(p))
      PROVE  PInv'
  <2> DEFINE q == Popped(p)
             t == Take(c, m)
             y == React(c, t, r)
             x == IF m.close THEN ResetEnding(y, FALSE, "closed") ELSE y
  <2>1. Taken(q) /\ m \in Elems(net[p]) /\ m \in Stanza /\ Valid(m, p)
    BY TakenHead
  <2>2. c \in Obj /\ Home[c] = p /\ conn[c].state = "Active" /\ conn[c].sid = m.sid
    BY DEF FindConnection
  <2>3. q \in [Peer -> Seq(Stanza)]
    BY <2>1 DEF Taken
  <2>4. /\ Half(t) /\ t.o.session # NoId /\ t.h.ended = "none"
        /\ t.o.session = conn[c].session /\ t.h.got = hist[c].got \o m.data
    BY <2>1, <2>2, TakeHalf DEF PInv
  <2>5. /\ Ready(c, q, t) /\ Acks(Elems(t.out)) = {m.id}
        /\ \A d \in Obj : SameStream(c, d) => Flow(c, Sid(c, d), hist[d].got, q, t)
    BY TakeReady
  <2>6. Commit(c, x, q)
    BY <1>2
  <2> HIDE DEF q, t
  <2>7. Ready(c, q, y) /\ Extends(c, q, t, y)
    BY <2>2, <2>3, <2>5, ReactKeepsReady
  <2>8. Half(y) /\ Keeps(t, y)
    BY <2>2, <2>4, ReactHalf
  <2> HIDE DEF y
  <2>9. Ready(c, q, x) /\ Extends(c, q, t, x)
    <3>1. CASE ~m.close
      BY <2>7, <3>1
    <3>2. CASE m.close
      <4>1. y.o.session # NoId /\ y.h.ended \notin Abandoned
        BY <2>4, <2>8 DEF Keeps, Abandoned
      <4>2. Half(ResetEnding(y, FALSE, "closed"))
        BY <2>8, <4>1, ResetEndingHalf DEF Endings
      <4>3. Ready(c, q, x) /\ Extends(c, q, y, x)
        BY <2>2, <2>3, <2>7, <3>2, <4>2, ResetKeepsReady
      <4> HIDE DEF x
      <4> QED
        BY <2>7, <4>3, ExtendsTransitive
    <3> QED
      BY <3>1, <3>2
  <2> HIDE DEF x
  <2>10. /\ x.o.session = conn[c].session /\ x.h.got = hist[c].got \o m.data
         /\ Acks(Elems(x.out)) = {m.id} /\ Half(x)
    BY <2>4, <2>5, <2>9 DEF Extends, Ready
  <2>11. NewOrSame(c, x)
    <3>1. conn[c].session \in IqId \cup {NoId}
      BY <2>2 DEF PInv, IInv, TypeOK, Connection
    <3>2. conn[c].session.n \in Nat
      BY <3>1 DEF IqId, NoId
    <3> QED
      BY <2>10, <3>2 DEF NewOrSame
  <2>12. \A d \in Obj : SameStream(c, d) => Flow(c, Sid(c, d), hist[d].got, q, x)
    <3>1. \A d \in Obj : hist[d].got \in Seq(Nat)
      BY DEF PInv, IInv, TypeOK, History
    <3> QED
      BY <2>5, <2>9, <3>1 DEF Extends
  <2>13. \A a \in Obj : SameStream(a, c) =>
           Carries(conn[a], hist[a], x.h.got, Mine(a, Sid(a, c), Elems(q[Home[c]])),
                   Acks(Elems(Wire(c, q, x))))
    BY <2>10, TakenByPartner DEF q
  <2>14. ASSUME NEW a \in Obj \ {c}, NEW b \in Obj \ {c}, SameStream(a, b),
                conn[a].task.mode = "data", conn[a].task.id = m.id
         PROVE  FALSE
    <3>1. Loc(a, conn[a], hist[a]) /\ Linked(a, conn[a])
      BY DEF PInv, Sessions
    <3>2. m.id.obj = a /\ conn[a].state = "Active"
      BY <2>14, <3>1 DEF Loc
    <3>3. m.sid = conn[a].sid
      BY <2>1, <2>14, <3>2 DEF Valid, Owned
    <3>4. SameStream(a, c)
      BY <2>1, <2>14, <3>1, <3>2, <3>3, TakerIsPartner DEF Linked, SameStream
    <3> QED
      BY <2>2, <2>14, <3>4, OnePartner
  <2>15. \A a, b \in Obj \ {c} : SameStream(a, b) /\ conn[a].task.mode = "data" =>
           conn[a].task.id \notin Acks(Elems(x.out))
    BY <2>10, <2>14
  <2>16. Streams'
    BY <2>1, <2>2, <2>6, <2>9, <2>11, <2>12, <2>13, <2>15, CommitStreams
  <2> QED
    BY <2>1, <2>2, <2>6, <2>9, <2>11, <2>16, CommitSessions DEF PInv
<1> QED
  BY <1>1, <1>2 DEF IncomingData, Take

\* A response for the outstanding task of c: what is left to know about it.
LEMMA TakenResponse ==
    ASSUME PInv, NEW p \in Peer, net[p] # <<>>, NEW m, m = Head(net[p]),
           NEW c \in Waiting(p, m)
    PROVE  /\ c \in Obj /\ Home[c] = p /\ conn[c].task.id = m.id
           /\ conn[c].state # "Idle" /\ conn[c].session # NoId /\ hist[c].ended = "none"
           /\ Taken(Popped(p)) /\ m \in Elems(net[Home[c]]) /\ m \in Stanza /\ Valid(m, p)
           /\ Ready(c, Popped(p), Start(c)) /\ Half(Start(c))
           /\ Start(c).o = conn[c] /\ Start(c).h = hist[c] /\ Start(c).out = <<>>
<1>1. c \in Obj /\ Home[c] = p /\ conn[c].task.id = m.id /\ conn[c].task # NoTask
  BY DEF Waiting
<1>2. Taken(Popped(p)) /\ m \in Elems(net[p]) /\ m \in Stanza /\ Valid(m, p)
  BY TakenHead
<1>3. Sound(conn[c], hist[c])
  BY <1>1 DEF PInv, IInv
<1>4. Ready(c, Popped(p), Start(c)) /\ Half(Start(c))
  BY <1>1, <1>2, StartReady DEF Ready
<1> QED
  BY <1>1, <1>2, <1>3, <1>4 DEF Sound, Start

\* An error for the outstanding task ends the session.
LEMMA ErrorPInv ==
    ASSUME PInv, NEW p \in Peer, net[p] # <<>>, NEW c \in Waiting(p, Head(net[p])),
           NEW ending \in {"refused", "dataError"},
           Commit(c, ResetEnding(Start(c), TRUE, ending), Popped(p))
    PROVE  PInv'
<1> DEFINE s == Start(c)
           x == ResetEnding(s, TRUE, ending)
           q == Popped(p)
<1>1. /\ c \in Obj /\ Taken(q) /\ Ready(c, q, s) /\ Half(s) /\ s.o.session # NoId
      /\ s.h.ended = "none"
  BY TakenResponse
<1>2. Half(x)
  <2> HIDE DEF s
  <2> QED
    BY <1>1, ResetEndingHalf DEF Endings, Abandoned
<1>3. Ready(c, q, x) /\ Extends(c, q, s, x)
  <2>1. q \in [Peer -> Seq(Stanza)]
    BY <1>1 DEF Taken
  <2> HIDE DEF s, q
  <2> QED
    BY <1>1, <1>2, <2>1, ResetKeepsReady
<1> QED
  BY <1>1, <1>3, MethodStep

\* The request is accepted: the stream is open, nothing has been sent on it.
LEMMA OpenedPInv ==
    ASSUME PInv, NEW p \in Peer, net[p] # <<>>, NEW m, m = Head(net[p]),
           NEW c \in Waiting(p, m), m.type = "result", conn[c].task.mode = "request",
           Commit(c, [Start(c) EXCEPT !.o.task = NoTask, !.o.sid = m.sid, !.o.state = "Active"],
                  Popped(p))
    PROVE  PInv'
<1> DEFINE s == Start(c)
           q == Popped(p)
           o2 == [conn[c] EXCEPT !.task = NoTask, !.sid = m.sid, !.state = "Active"]
           x == [o |-> o2, h |-> hist[c], out |-> <<>>]
<1>1. /\ c \in Obj /\ Home[c] = p /\ conn[c].task.id = m.id /\ conn[c].session # NoId
      /\ hist[c].ended = "none"
      /\ Taken(q) /\ m \in Elems(net[Home[c]]) /\ m \in Stanza /\ Valid(m, p)
      /\ Ready(c, q, s) /\ Half(s) /\ s.o = conn[c] /\ s.h = hist[c] /\ s.out = <<>>
  BY TakenResponse
<1>2. conn[c] \in Connection /\ hist[c] \in History /\ Sound(conn[c], hist[c])
      /\ Loc(c, conn[c], hist[c])
  BY <1>1, LocalParts DEF PInv
<1>3. /\ conn[c].state = "Requesting" /\ c \in Initiators /\ c \notin Pool
      /\ m.id = conn[c].session /\ m.id.obj = c /\ Fresh(conn[c], hist[c])
  BY <1>1, <1>2, ObjAssumption DEF Loc, Obj
<1>4. m.sid \in Pool /\ conn[m.sid].session = conn[c].session
  <2>1. m.sid # NoObj
    BY <1>1, <1>3 DEF Valid, Owned
  <2> QED
    BY <1>1, <1>3, <2>1 DEF Valid, Static
<1>5. /\ o2.session = conn[c].session /\ o2.sid = m.sid /\ o2.state = "Active"
      /\ o2.nextId = conn[c].nextId /\ o2.task = NoTask
      /\ o2.sendbuf = conn[c].sendbuf /\ o2.recvbuf = conn[c].recvbuf /\ o2 \in Connection
  <2>1. NoTask \in Task /\ "Active" \in States /\ m.sid \in Obj
    BY <1>4 DEF Task, NoTask, States, Obj
  <2> QED
    BY <1>2, <2>1 DEF Connection
<1>6. x = [s EXCEPT !.o.task = NoTask, !.o.sid = m.sid, !.o.state = "Active"]
  <2> DEFINE y == [s EXCEPT !.o.task = NoTask, !.o.sid = m.sid, !.o.state = "Active"]
  <2>1. y \in Local /\ y.o = o2 /\ y.h = hist[c] /\ y.out = <<>>
    BY <1>1, <1>5 DEF Half, Local
  <2> HIDE DEF y, o2
  <2>2. y = [o |-> o2, h |-> hist[c], out |-> <<>>]
    BY <2>1 DEF Local
  <2> QED
    BY <2>2 DEF y
<1>7. Commit(c, x, q)
  BY <1>6
<1> HIDE DEF o2, s, q
<1>8. x.o = o2 /\ x.h = hist[c] /\ x.out = <<>> /\ Half(x)
  <2>1. Sound(o2, hist[c])
    BY <1>1, <1>2, <1>5 DEF Sound, Readable
  <2>2. <<>> \in Seq(Stanza)
    OBVIOUS
  <2>3. Half([o |-> o2, h |-> hist[c], out |-> <<>>])
    BY <1>2, <1>5, <2>1, <2>2, HalfRecord
  <2> QED
    BY <2>3
<1>9. Wire(c, q, x) = Wire(c, q, s) /\ Wire(c, q, s) = q[Other[Home[c]]] /\ Elems(x.out) = {}
  BY <1>1, <1>8, StartReady, ElemsEmpty DEF Wire, s
<1> HIDE DEF x
<1>10. NoTask.mode = "none"
  BY DEF NoTask
<1>11. Sent(x.o, x.h) = Sent(conn[c], hist[c])
  BY <1>5, <1>8 DEF Sent
<1>12. Loc(c, x.o, x.h)
  BY <1>2, <1>3, <1>5, <1>8, <1>10, <1>11 DEF Loc
<1>13. Linked(c, x.o)
  BY <1>4, <1>5, <1>8 DEF Linked
<1>14. ASSUME NEW l \in Elems(Wire(c, q, x)) \cup Back(c, q), l.id.obj = c
       PROVE  Owned(c, x.o, x.h, l)
  <2>1. Owned(c, conn[c], hist[c], l)
    BY <1>1, <1>9, <1>14 DEF Ready
  <2>2. \E r \in Peer : Static(l, r)
    <3>1. Home[c] \in Peer /\ Other[Home[c]] \in Peer
      BY <1>1, ObjAssumption, PeerAssumption
    <3>2. \E r \in Peer : l \in Elems(net[r])
      BY <1>1, <1>9, <3>1 DEF Back, Taken
    <3> QED
      BY <3>2 DEF PInv, Valid
  <2>3. l.type = "request" => l.id # conn[c].session
    BY <1>4, <2>2 DEF Static
  <2> QED
    BY <1>5, <1>8, <1>10, <2>1, <2>3 DEF Owned
<1>15. Ready(c, q, x)
  BY <1>1, <1>3, <1>8, <1>9, <1>12, <1>13, <1>14 DEF Ready
<1>16. ASSUME NEW d \in Obj, SameStream(c, d)
       PROVE  Flow(c, Sid(c, d), hist[d].got, q, x)
  <2> DEFINE D == Mine(c, Sid(c, d), Elems(Wire(c, q, s)))
             R == Acks(Back(c, q))
  <2>1. Flow(c, Sid(c, d), hist[d].got, q, s)
    BY <1>1, <1>16, StartReady DEF s
  <2>2. Carries(conn[c], hist[c], hist[d].got, D, R)
    BY <1>1, <2>1 DEF Flow
  <2>3. conn[c].state # "Idle" /\ conn[c].task.mode # "data"
    BY <1>3
  <2> HIDE DEF D, R
  <2>4. Counts(x.o.state, x.o.task, Sent(x.o, x.h), Len(hist[d].got), D, R)
    BY <1>5, <1>8, <1>10, <1>11, <2>2, <2>3, CountsIdle DEF Carries
  <2> QED
    BY <1>8, <1>9, <2>2, <2>4 DEF Flow, Carries, D, R
<1>17. x.o.session = conn[c].session /\ x.h.got = hist[c].got /\ Acks(Elems(x.out)) = {}
  BY <1>5, <1>8, <1>9 DEF Acks
<1> QED
  BY <1>1, <1>7, <1>15, <1>16, <1>17, SenderStep

\* What ibb_finished leaves before bytesWritten().
Acked(c) ==
    [o |-> [conn[c] EXCEPT !.task = NoTask],
     h |-> [hist[c] EXCEPT !.acked = @ + conn[c].blockSize],
     out |-> <<>>]

\* A chunk is acknowledged: it has arrived, and nothing is on its way.
LEMMA AckedReady ==
    ASSUME PInv, NEW p \in Peer, net[p] # <<>>, NEW m, m = Head(net[p]),
           NEW c \in Waiting(p, m), conn[c].task.mode = "data", m.type = "result"
    PROVE  /\ Half(Acked(c)) /\ Ready(c, Popped(p), Acked(c))
           /\ Acked(c).o.session = conn[c].session /\ Acked(c).o.sid = conn[c].sid
           /\ Acked(c).o.state = conn[c].state /\ Acked(c).o.nextId = conn[c].nextId
           /\ Acked(c).o.task = NoTask /\ Acked(c).o.sendbuf = conn[c].sendbuf
           /\ Acked(c).o.closePending = conn[c].closePending
           /\ Acked(c).o.closing = conn[c].closing
           /\ Acked(c).h.written = hist[c].written /\ Acked(c).h.got = hist[c].got
           /\ Acked(c).h.ended = "none" /\ Acked(c).out = <<>>
           /\ \A d \in Obj : SameStream(c, d) =>
                Flow(c, Sid(c, d), hist[d].got, Popped(p), Acked(c))
<1> DEFINE s == Start(c)
           q == Popped(p)
           o2 == [conn[c] EXCEPT !.task = NoTask]
           h2 == [hist[c] EXCEPT !.acked = @ + conn[c].blockSize]
           acked == [o |-> o2, h |-> h2, out |-> <<>>]
<1>1. /\ c \in Obj /\ Home[c] = p /\ conn[c].task.id = m.id /\ conn[c].session # NoId
      /\ conn[c].state # "Idle" /\ hist[c].ended = "none"
      /\ Taken(q) /\ m \in Elems(net[Home[c]]) /\ m \in Stanza /\ Valid(m, p)
      /\ Ready(c, q, s) /\ Half(s) /\ s.o = conn[c] /\ s.h = hist[c] /\ s.out = <<>>
  BY TakenResponse
<1>2. conn[c] \in Connection /\ hist[c] \in History /\ Sound(conn[c], hist[c])
      /\ Loc(c, conn[c], hist[c])
  BY <1>1, LocalParts DEF PInv
<1>3. conn[c].task.mode = "data" /\ m.type = "result"
  OBVIOUS
<1>6. /\ o2.session = conn[c].session /\ o2.sid = conn[c].sid /\ o2.state = conn[c].state
      /\ o2.nextId = conn[c].nextId /\ o2.task = NoTask
      /\ o2.sendbuf = conn[c].sendbuf /\ o2.recvbuf = conn[c].recvbuf
      /\ o2.closePending = conn[c].closePending /\ o2.closing = conn[c].closing
      /\ o2 \in Connection
  <2>1. NoTask \in Task
    BY DEF Task, NoTask
  <2> QED
    BY <1>2, <2>1 DEF Connection
<1>7. /\ h2.written = hist[c].written /\ h2.got = hist[c].got /\ h2.over = hist[c].over
      /\ h2.ended = "none" /\ h2.read = hist[c].read /\ h2 \in History
  <2>1. hist[c].acked + conn[c].blockSize \in Nat
    BY <1>2 DEF Connection, History
  <2> QED
    BY <1>1, <1>2, <2>1 DEF History
<1> HIDE DEF o2, h2, s, q
<1>8. acked.o = o2 /\ acked.h = h2 /\ acked.out = <<>> /\ Half(acked)
  <2>1. Sound(o2, h2)
    BY <1>1, <1>2, <1>6, <1>7 DEF Sound, Readable
  <2>2. <<>> \in Seq(Stanza)
    OBVIOUS
  <2>3. Half([o |-> o2, h |-> h2, out |-> <<>>])
    BY <1>6, <1>7, <2>1, <2>2, HalfRecord
  <2> QED
    BY <2>3
<1> HIDE DEF acked
<1>9. Wire(c, q, acked) = Wire(c, q, s) /\ Wire(c, q, s) = q[Other[Home[c]]]
      /\ Elems(acked.out) = {}
  BY <1>1, <1>8, StartReady, ElemsEmpty DEF Wire, s
<1>10. NoTask.mode = "none"
  BY DEF NoTask
<1>11. Sent(acked.o, acked.h) = Sent(conn[c], hist[c])
  BY <1>6, <1>7, <1>8 DEF Sent
<1>12. Loc(c, acked.o, acked.h) /\ Linked(c, acked.o)
  <2>1. conn[c].state = "Active"
    BY <1>2, <1>3 DEF Loc
  <2>2. Linked(c, conn[c])
    BY <1>1 DEF PInv, Sessions
  <2> QED
    BY <1>1, <1>2, <1>6, <1>7, <1>8, <1>10, <1>11, <2>1, <2>2 DEF Loc, Linked
<1>13. ASSUME NEW l \in Elems(Wire(c, q, acked)) \cup Back(c, q), l.id.obj = c
       PROVE  Owned(c, acked.o, acked.h, l)
  <2>1. Owned(c, conn[c], hist[c], l)
    BY <1>1, <1>9, <1>13 DEF Ready
  <2>2. Fresh(conn[c], hist[c]) => Fresh(acked.o, acked.h)
    BY <1>6, <1>7, <1>8 DEF Fresh
  <2> QED
    BY <1>6, <1>8, <1>10, <2>1, <2>2 DEF Owned
<1>14. Ready(c, q, acked)
  BY <1>1, <1>6, <1>8, <1>9, <1>12, <1>13 DEF Ready
<1>15. ASSUME NEW d \in Obj, SameStream(c, d)
       PROVE  Flow(c, Sid(c, d), hist[d].got, q, acked)
  <2> DEFINE D == Mine(c, Sid(c, d), Elems(net[Home[d]]))
             E == Mine(c, Sid(c, d), Elems(q[Home[d]]))
             R == Acks(Elems(net[Home[c]]))
             S == Acks(Back(c, q))
  <2>1. Carries(conn[c], hist[c], hist[d].got, D, R)
    BY <1>1, <1>15 DEF PInv, Streams
  <2>2. Home[d] \in Peer /\ Home[d] = Other[Home[c]]
    BY <1>1, <1>15, Ends, ObjAssumption
  <2>3. E \subseteq D
    BY <1>1, <2>2 DEF Taken, Mine
  <2>4. conn[c].task.id \in R
    BY <1>1, <1>3 DEF Acks
  <2> HIDE DEF D, E, R, S
  <2>5. Counts(conn[c].state, NoTask, Sent(conn[c], hist[c]), Len(hist[d].got), D, S)
    BY <1>3, <2>1, <2>4, CountsAcked DEF Carries
  <2>6. Counts(conn[c].state, NoTask, Sent(conn[c], hist[c]), Len(hist[d].got), E, S)
    BY <1>10, <2>3, <2>5, CountsLess
  <2>7. Contents(hist[c].over, hist[d].got, E)
    BY <2>1, <2>3 DEF Carries, Contents
  <2>8. Carries(acked.o, acked.h, hist[d].got, E, S)
    BY <1>6, <1>7, <1>8, <1>11, <2>6, <2>7 DEF Carries
  <2> QED
    BY <1>9, <2>2, <2>8 DEF Flow, E, S
<1>16. Acked(c) = acked
  BY DEF Acked, acked, o2, h2
<1> QED
  BY <1>6, <1>7, <1>8, <1>14, <1>15, <1>16 DEF q

\* It is what DataFinished says.
LEMMA AckedIs ==
    ASSUME PInv, NEW c \in Obj
    PROVE  Acked(c) = [Start(c) EXCEPT !.o.task = NoTask, !.h.acked = @ + conn[c].blockSize]
<1> DEFINE s == Start(c)
           y == [s EXCEPT !.o.task = NoTask, !.h.acked = @ + conn[c].blockSize]
           o2 == [conn[c] EXCEPT !.task = NoTask]
           h2 == [hist[c] EXCEPT !.acked = @ + conn[c].blockSize]
<1>1. conn[c] \in Connection /\ hist[c] \in History /\ s.o = conn[c] /\ s.h = hist[c]
      /\ s.out = <<>> /\ Half(s)
  BY LocalParts, StartHalf DEF PInv, Start
<1>2. o2 \in Connection /\ h2 \in History
  <2>1. NoTask \in Task /\ hist[c].acked + conn[c].blockSize \in Nat
    BY <1>1 DEF Task, NoTask, Connection, History
  <2> QED
    BY <1>1, <2>1 DEF Connection, History
<1> HIDE DEF s
<1>3. y \in Local /\ y.o = o2 /\ y.h = h2 /\ y.out = <<>>
  BY <1>1, <1>2 DEF Half, Local
<1> HIDE DEF y, o2, h2
<1>4. y = [o |-> o2, h |-> h2, out |-> <<>>]
  BY <1>3 DEF Local
<1> QED
  BY <1>4 DEF Acked, y, o2, h2, s

\* ibb_finished keeps the invariant.
LEMMA AckedPInv ==
    ASSUME PInv, NEW p \in Peer, net[p] # <<>>, NEW m, m = Head(net[p]),
           NEW c \in Waiting(p, m), NEW r \in Reaction(c), DataFinished(p, m, c, r)
    PROVE  PInv'
<1> DEFINE q == Popped(p)
           acked == Acked(c)
           reacted == React(c, acked, r)
           closed == IF reacted.o.closing THEN ResetEnding(reacted, FALSE, "finished")
                                          ELSE reacted
           x == [closed EXCEPT !.o.trySendTimer = @ \/ Again(closed.o)]
<1>1. /\ c \in Obj /\ Home[c] = p /\ conn[c].session # NoId
      /\ Taken(q) /\ m \in Elems(net[Home[c]])
  BY TakenResponse
<1>3. conn[c].task.mode = "data" /\ m.type = "result"
  BY DEF DataFinished
<1>4. acked = [Start(c) EXCEPT !.o.task = NoTask, !.h.acked = @ + conn[c].blockSize]
  BY <1>1, AckedIs
<1>5. Commit(c, x, q)
  BY <1>4 DEF DataFinished
<1>14. /\ Half(acked) /\ Ready(c, q, acked) /\ acked.out = <<>>
       /\ acked.o.session = conn[c].session /\ acked.h.got = hist[c].got
       /\ acked.h.ended = "none"
       /\ \A d \in Obj : SameStream(c, d) => Flow(c, Sid(c, d), hist[d].got, q, acked)
  BY <1>3, AckedReady
<1> HIDE DEF acked, q
<1>15. Elems(acked.out) = {}
  BY <1>14, ElemsEmpty
<1>16. q \in [Peer -> Seq(Stanza)]
  BY <1>1 DEF Taken
<1>17. Ready(c, q, reacted) /\ Extends(c, q, acked, reacted)
  BY <1>1, <1>14, <1>16, ReactKeepsReady
<1>18. Half(reacted) /\ reacted.o.session # NoId /\ reacted.h.ended \notin Abandoned
  BY <1>1, <1>14, ReactHalf DEF Keeps, Abandoned
<1> HIDE DEF reacted
<1>19. Ready(c, q, closed) /\ Extends(c, q, acked, closed)
  <2>1. CASE ~reacted.o.closing
    BY <1>17, <2>1
  <2>2. CASE reacted.o.closing
    <3>1. Half(ResetEnding(reacted, FALSE, "finished"))
      BY <1>18, ResetEndingHalf DEF Endings, Abandoned
    <3>2. Ready(c, q, closed) /\ Extends(c, q, reacted, closed)
      BY <1>1, <1>16, <1>17, <2>2, <3>1, ResetKeepsReady
    <3> HIDE DEF closed
    <3> QED
      BY <1>17, <3>2, ExtendsTransitive
  <2> QED
    BY <2>1, <2>2
<1> HIDE DEF closed
<1>20. Ready(c, q, x) /\ Extends(c, q, closed, x)
  <2>1. Half(closed) /\ Half(x)
    BY <1>19, TimerHalf DEF Ready
  <2>2. closed \in Local /\ closed.o \in Connection
    BY <2>1 DEF Half, Local
  <2>3. x = [o |-> [closed.o EXCEPT !.trySendTimer = @ \/ Again(closed.o)],
             h |-> closed.h, out |-> closed.out]
    BY <2>2 DEF Local
  <2> DEFINE o3 == [closed.o EXCEPT !.trySendTimer = @ \/ Again(closed.o)]
  <2>4. /\ o3.session = closed.o.session /\ o3.sid = closed.o.sid /\ o3.state = closed.o.state
        /\ o3.nextId = closed.o.nextId /\ o3.task = closed.o.task
        /\ o3.sendbuf = closed.o.sendbuf /\ o3.closePending = closed.o.closePending
    BY <2>2 DEF Connection
  <2> HIDE DEF o3, x
  <2>5. x.o = o3 /\ x.h = closed.h /\ x.out = closed.out
    BY <2>3 DEF o3
  <2>6. Fresh(closed.o, closed.h) => Fresh(x.o, x.h)
    BY <2>4, <2>5 DEF Fresh
  <2> QED
    BY <1>1, <1>19, <2>1, <2>4, <2>5, <2>6, FlagKeepsReady
<1> HIDE DEF x
<1>21. Extends(c, q, acked, x)
  BY <1>19, <1>20, ExtendsTransitive
<1>22. /\ x.o.session = conn[c].session /\ x.h.got = hist[c].got
       /\ Acks(Elems(x.out)) = {}
  BY <1>14, <1>15, <1>21 DEF Extends, Acks
<1>23. \A d \in Obj : SameStream(c, d) => Flow(c, Sid(c, d), hist[d].got, q, x)
  <2>1. \A d \in Obj : hist[d].got \in Seq(Nat)
    BY DEF PInv, IInv, TypeOK, History
  <2> QED
    BY <1>14, <1>21, <2>1 DEF Extends
<1> QED
  BY <1>1, <1>5, <1>20, <1>22, <1>23, SenderStep

\* No stanza breaks the invariant.
LEMMA DeliverPInv ==
    ASSUME PInv, NEW p \in Peer, Deliver(p)
    PROVE  PInv'
<1> DEFINE m == Head(net[p])
<1>1. net[p] # <<>>
  BY DEF Deliver
<1>2. CASE m.type = "request" /\ IncomingRequest(p, m)
  BY <1>1, <1>2, RequestPInv
<1>3. CASE m.type = "data" /\ IncomingData(p, m)
  BY <1>1, <1>3, DataPInv
<1>4. CASE ResponseDropped(p, m)
  BY <1>1, <1>4, DroppedPInv
<1>5. ASSUME NEW c \in Waiting(p, m), RequestFinished(p, m, c) PROVE PInv'
  BY <1>1, <1>5, OpenedPInv, ErrorPInv DEF RequestFinished
<1>6. ASSUME NEW c \in Waiting(p, m), NEW r \in Reaction(c), DataFinished(p, m, c, r)
      PROVE  PInv'
  BY <1>1, <1>6, AckedPInv
<1>7. ASSUME NEW c \in Waiting(p, m), DataRefused(p, m, c) PROVE PInv'
  BY <1>1, <1>7, ErrorPInv DEF DataRefused
<1> QED
  BY <1>2, <1>3, <1>4, <1>5, <1>6, <1>7 DEF Deliver

\* Before anything has happened.
THEOREM InitPInv == Init => PInv
<1> SUFFICES ASSUME Init PROVE PInv
  OBVIOUS
<1>1. IInv
  BY InitIInv
<1>2. /\ \A c \in Obj : conn[c] = NewConnection /\ hist[c] = NewHistory(0)
      /\ \A p \in Peer : net[p] = <<>>
  BY DEF Init
<1>3. \A c \in Obj : Loc(c, conn[c], hist[c])
  BY <1>2 DEF Loc, Fresh, NewConnection, NewHistory, NoTask
<1>4. Sessions
  <2>1. \A k \in Pool : conn[k].session = NoId
    BY <1>2 DEF NewConnection, Obj
  <2>2. \A c \in Obj : Linked(c, conn[c])
    BY <1>2 DEF Linked, NewConnection
  <2> QED
    BY <2>1, <2>2 DEF Sessions
<1>5. \A p \in Peer : Elems(net[p]) = {} /\ Distinct(net[p])
  <2>1. Elems(<<>>) = {} /\ Distinct(<<>>)
    BY ElemsEmpty DEF Distinct
  <2> QED
    BY <1>2, <2>1, Zenon
<1>6. Streams
  BY <1>2 DEF Streams, SameStream, NewConnection
<1> QED
  BY <1>1, <1>3, <1>4, <1>5, <1>6 DEF PInv

\* No step breaks the account of the bytes.
THEOREM NextPInv == PInv /\ [Next]_vars => PInv'
<1> SUFFICES ASSUME PInv, [Next]_vars PROVE PInv'
  OBVIOUS
<1>1. CASE UNCHANGED vars
  <2>1. net' \in [Peer -> Seq(Stanza)] /\ \A p \in Peer : Distinct(net'[p])
    BY <1>1 DEF vars, PInv, IInv, TypeOK
  <2> QED
    BY <1>1, <2>1, OtherQueuesPInv DEF vars
<1>2. ASSUME NEW c \in Obj, User(c) PROVE PInv'
  BY <1>2, CallPInv, ConnectPInv, AcceptPInv DEF User
<1>3. ASSUME NEW c \in Obj, TrySendTimer(c) PROVE PInv'
  BY <1>3, CallPInv
<1> QED
  BY <1>1, <1>2, <1>3, DeliverPInv DEF Next

\* What arrives at one end of a stream is a prefix of what was written at the
\* other: IBBConnection loses, repeats and reorders nothing until it cuts a
\* chunk from a buffer that holds more than one packet.
THEOREM PipeSafe == Spec => []PipeUntilOverflow
<1>1. ASSUME PInv PROVE PipeUntilOverflow
  <2> SUFFICES ASSUME NEW c \in Obj, NEW d \in Obj, SameStream(c, d), ~hist[c].over
               PROVE  Pipe(c, d)
    BY DEF PipeUntilOverflow
  <2> DEFINE D == Mine(c, Sid(c, d), Elems(net[Home[d]]))
             R == Acks(Elems(net[Home[c]]))
  <2>1. Carries(conn[c], hist[c], hist[d].got, D, R)
    BY <1>1 DEF PInv, Streams
  <2> HIDE DEF D, R
  <2>2. Len(hist[d].got) <= Sent(conn[c], hist[c])
        /\ \A i \in DOMAIN hist[d].got : hist[d].got[i] = i
    BY <2>1 DEF Carries, Counts, Contents
  <2>3. conn[c].sendbuf \in Seq(Nat) /\ hist[c].written \in Nat /\ hist[d].got \in Seq(Nat)
    BY <1>1 DEF PInv, IInv, TypeOK, Connection, History
  <2>4. Len(conn[c].sendbuf) \in Nat /\ Len(hist[d].got) \in Nat
        /\ DOMAIN hist[d].got = 1..Len(hist[d].got)
    BY <2>3
  <2>5. Len(hist[d].got) <= hist[c].written
    BY <2>2, <2>3, <2>4 DEF Sent
  <2> QED
    BY <2>2, <2>4, <2>5 DEF Pipe
<1> QED
  BY <1>1, InitPInv, NextPInv, PTL DEF Spec

----------------------------------------------------------------------------
(***************************************************************************)
(* The end of a stream.  Close stanzas, the acknowledgements they get and  *)
(* the errors for what came too late cross each other and the data; what   *)
(* the two ends know of each other then follows from the order of the      *)
(* stanzas.  Pair says it for one direction: c sends on the stream k to d, *)
(* q is the queue of the stanzas to d, r the one of those to c.            *)
(***************************************************************************)
\* What the argument needs of a connection: o, h, of which n bytes arrived.
View(o, h, n) ==
    [state |-> o.state, task |-> o.task, closing |-> o.closing, session |-> o.session,
     sent |-> Sent(o, h), ended |-> h.ended, got |-> n]
Views ==
    [state : States, task : Task, closing : BOOLEAN, session : IqId \cup {NoId},
     sent : Nat, ended : Endings, got : Nat]
Fit(v) ==
    /\ v \in Views
    /\ v.state # "Idle" => v.ended = "none"
    /\ v.state = "Idle" => v.task = NoTask /\ ~v.closing
    /\ v.closing => v.state = "Active"
    /\ v.task.mode = "data" => v.state = "Active"

Leaving == {"cancelled", "destroyed"}
On(a, k, m) == m.type = "data" /\ m.id.obj = a /\ m.sid = k
Answer(m, id) == m.type = "result" /\ m.id = id

\* All that was sent arrived, but for the data of one stanza on its way.
Whole(sent, n, D) ==
    \/ \E m \in D : m.data # <<>> /\ n + Len(m.data) = sent
    \/ n = sent /\ \A m \in D : m.data = <<>>
Complete(v, w, D) ==
    w.ended \in {"none", "closed"} /\ v.ended \in {"none", "local", "finished"}
        => Whole(v.sent, w.got, D)
\* Nothing but further closes follows a close.
LastWord(c, k, v, q) ==
    /\ \A m \in Mine(c, k, Elems(q)) :
          m.close => v.state = "Idle" \/ (v.closing /\ m.id = v.task.id)
    /\ \A i, j \in DOMAIN q :
          i < j /\ On(c, k, q[i]) /\ On(c, k, q[j]) /\ q[i].close => q[j].data = <<>>
\* An end that was told of the close has everything.
Heard(v, w, D) ==
    w.ended = "closed" =>
        /\ v.state = "Idle" \/ v.closing
        /\ \A m \in D : m.data = <<>> /\ (v.task.mode = "data" => m.id # v.task.id)
\* A connection that is closing has said so, or its other end is gone.
Told(v, w, D) == v.closing => w.state = "Idle" \/ \E m \in D : m.close
\* Who closed has said so to an end that could still send.
Farewell(v, w, D, q) ==
    v.ended \in {"local", "finished"}
        /\ (w.state = "Active"
            \/ (w.state = "Requesting" /\ \E m \in Elems(q) : Answer(m, w.session)))
        => \E m \in D : m.close
\* An error comes from an end that left, or after its close.
Blamed(d, k, v, w, r) ==
    /\ v.ended = "dataError" => w.ended \in Leaving
    /\ v.task.mode = "data" =>
        \A j \in DOMAIN r : r[j].type = "error" /\ r[j].id = v.task.id =>
            w.ended \in Leaving \/ \E i \in DOMAIN r : i < j /\ On(d, k, r[i]) /\ r[i].close
\* The one that is asked, while it has not answered: the other waits or left.
Awaited(v, w) == v.state = "WaitingForAccept" => w.state = "Requesting" \/ w.ended \in Leaving
\* What it sends comes behind its answer.
AcceptFirst(c, k, v, w, q) ==
    w.state = "Requesting" =>
        /\ v.state = "Active" => \E m \in Elems(q) : Answer(m, w.session)
        /\ \A j \in DOMAIN q : On(c, k, q[j]) =>
              \E i \in DOMAIN q : i < j /\ Answer(q[i], w.session)
Declined(v, w) == w.ended = "refused" => v.state = "Idle" /\ v.ended # "dataError"

Pair(c, d, k, v, w, q, r) ==
    /\ Complete(v, w, Mine(c, k, Elems(q)))
    /\ LastWord(c, k, v, q)
    /\ Heard(v, w, Mine(c, k, Elems(q)))
    /\ Told(v, w, Mine(c, k, Elems(q)))
    /\ Farewell(v, w, Mine(c, k, Elems(q)), q)
    /\ Blamed(d, k, v, w, r)
    /\ Awaited(v, w)
    /\ AcceptFirst(c, k, v, w, q)
    /\ Declined(v, w)
\* Both directions.
Both(c, d, k, v, w, q, r) == Pair(c, d, k, v, w, q, r) /\ Pair(d, c, k, w, v, r, q)

\* p is q with stanzas of Z at its end, or with z; s is r without its head m.
Longer(q, Z, p) ==
    /\ Elems(p) = Elems(q) \cup Z
    /\ \A i \in DOMAIN q : i \in DOMAIN p /\ p[i] = q[i]
    /\ \A j \in DOMAIN p : j \in DOMAIN q \/ (p[j] \in Z /\ \A i \in DOMAIN q : i < j)
Grown(q, z, p) ==
    /\ Elems(p) = Elems(q) \cup {z}
    /\ \E n \in Nat : /\ DOMAIN p = DOMAIN q \cup {n} /\ p[n] = z
                      /\ \A i \in DOMAIN q : i \in Nat /\ i < n /\ p[i] = q[i]
Shrunk(r, m, s) ==
    /\ Elems(r) = {m} \cup Elems(s)
    /\ 1 \in DOMAIN r /\ r[1] = m
    /\ \A i \in DOMAIN s : i \in Nat /\ i >= 1 /\ i + 1 \in DOMAIN r /\ s[i] = r[i + 1]
    /\ \A i \in DOMAIN r : i = 1 \/ (i \in Nat /\ i > 1 /\ i - 1 \in DOMAIN s /\ s[i - 1] = r[i])

\* Sending, and taking the first stanza.
LEMMA GrownIs ==
    ASSUME NEW S, NEW q \in Seq(S), NEW z
    PROVE  Grown(q, z, Append(q, z))
<1>1. /\ DOMAIN Append(q, z) = DOMAIN q \cup {Len(q) + 1} /\ Append(q, z)[Len(q) + 1] = z
      /\ \A i \in DOMAIN q : i \in Nat /\ i < Len(q) + 1 /\ Append(q, z)[i] = q[i]
      /\ Len(q) + 1 \in Nat
  OBVIOUS
<1> QED
  BY <1>1, ElemsAppend DEF Grown
LEMMA ShrunkIs ==
    ASSUME NEW S, NEW r \in Seq(S), r # <<>>
    PROVE  Shrunk(r, Head(r), Tail(r))
<1>1. Head(r) = r[1] /\ 1 \in DOMAIN r
  OBVIOUS
<1>2. \A i \in DOMAIN Tail(r) :
        i \in Nat /\ i >= 1 /\ Tail(r)[i] = r[i + 1] /\ i + 1 \in DOMAIN r
  OBVIOUS
<1>3. \A i \in DOMAIN r :
        i = 1 \/ (i \in Nat /\ i > 1 /\ i - 1 \in DOMAIN Tail(r) /\ Tail(r)[i - 1] = r[i])
  OBVIOUS
<1> QED
  BY <1>1, <1>2, <1>3, ElemsTail DEF Shrunk

\* Stanzas at the end of q, none data of c, and no answer if c has ended.
LEMMA PairLonger ==
    ASSUME NEW c, NEW d, NEW k, NEW v, NEW w, NEW q, NEW r, NEW p, NEW Z,
           Pair(c, d, k, v, w, q, r), Longer(q, Z, p), \A z \in Z : ~On(c, k, z),
           v.ended \in {"local", "finished"} => \A z \in Z : ~Answer(z, w.session)
    PROVE  Pair(c, d, k, v, w, p, r)
<1>1. Mine(c, k, Elems(p)) = Mine(c, k, Elems(q))
  BY DEF Longer, Mine, On
<1>2. \A j \in DOMAIN p : On(c, k, p[j]) => j \in DOMAIN q /\ p[j] = q[j]
  BY DEF Longer
<1>3. LastWord(c, k, v, p)
  BY <1>1, <1>2 DEF Pair, LastWord
<1>4. Farewell(v, w, Mine(c, k, Elems(p)), p)
  BY <1>1 DEF Pair, Farewell, Longer
<1>5. AcceptFirst(c, k, v, w, p)
  <2>1. SUFFICES ASSUME w.state = "Requesting" PROVE AcceptFirst(c, k, v, w, p)
    BY DEF AcceptFirst
  <2>2. v.state = "Active" => \E m \in Elems(p) : Answer(m, w.session)
    BY <2>1 DEF Pair, AcceptFirst, Longer
  <2>3. ASSUME NEW j \in DOMAIN p, On(c, k, p[j])
        PROVE  \E i \in DOMAIN p : i < j /\ Answer(p[i], w.session)
    <3>1. j \in DOMAIN q /\ On(c, k, q[j])
      BY <1>2, <2>3
    <3>2. PICK i \in DOMAIN q : i < j /\ Answer(q[i], w.session)
      BY <2>1, <3>1 DEF Pair, AcceptFirst
    <3>3. i \in DOMAIN p /\ p[i] = q[i]
      BY DEF Longer
    <3> QED
      BY <3>2, <3>3
  <2> QED
    BY <2>2, <2>3 DEF AcceptFirst
<1> QED
  BY <1>1, <1>3, <1>4, <1>5 DEF Pair

\* Stanzas at the end of r, none an error for the task of c.
LEMMA PairLongerBack ==
    ASSUME NEW c, NEW d, NEW k, NEW v, NEW w, NEW q, NEW r, NEW p, NEW Z,
           Pair(c, d, k, v, w, q, r), Longer(r, Z, p),
           v.task.mode = "data" => \A z \in Z : ~(z.type = "error" /\ z.id = v.task.id)
    PROVE  Pair(c, d, k, v, w, q, p)
<1>1. ASSUME v.task.mode = "data", NEW j \in DOMAIN p, p[j].type = "error", p[j].id = v.task.id
      PROVE  w.ended \in Leaving \/ \E i \in DOMAIN p : i < j /\ On(d, k, p[i]) /\ p[i].close
  <2>1. j \in DOMAIN r /\ p[j] = r[j]
    BY <1>1 DEF Longer
  <2>2. w.ended \in Leaving \/ \E i \in DOMAIN r : i < j /\ On(d, k, r[i]) /\ r[i].close
    BY <1>1, <2>1 DEF Pair, Blamed
  <2>3. \A i \in DOMAIN r : i \in DOMAIN p /\ p[i] = r[i]
    BY DEF Longer
  <2> QED
    BY <2>2, <2>3
<1> QED
  BY <1>1 DEF Pair, Blamed

\* One stanza at the end.
LEMMA GrownLonger ==
    ASSUME NEW q, NEW z, NEW p, Grown(q, z, p)
    PROVE  Longer(q, {z}, p)
  BY DEF Grown, Longer
LEMMA PairGrows ==
    ASSUME NEW c, NEW d, NEW k, NEW v, NEW w, NEW q, NEW r, NEW p, NEW z,
           Pair(c, d, k, v, w, q, r), Grown(q, z, p), ~On(c, k, z),
           v.ended \in {"local", "finished"} => ~Answer(z, w.session)
    PROVE  Pair(c, d, k, v, w, p, r)
<1>1. Longer(q, {z}, p)
  BY GrownLonger
<1>2. \A l \in {z} : ~On(c, k, l) /\ (v.ended \in {"local", "finished"} => ~Answer(l, w.session))
  OBVIOUS
<1> QED
  BY <1>1, <1>2, PairLonger
LEMMA PairGrowsBack ==
    ASSUME NEW c, NEW d, NEW k, NEW v, NEW w, NEW q, NEW r, NEW p, NEW z,
           Pair(c, d, k, v, w, q, r), Grown(r, z, p),
           v.task.mode = "data" => ~(z.type = "error" /\ z.id = v.task.id)
    PROVE  Pair(c, d, k, v, w, q, p)
<1>1. Longer(r, {z}, p)
  BY GrownLonger
<1>2. v.task.mode = "data" => \A l \in {z} : ~(l.type = "error" /\ l.id = v.task.id)
  OBVIOUS
<1> QED
  BY <1>1, <1>2, PairLongerBack

\* The head of q goes that is neither data of c nor the awaited answer.
LEMMA PairShrinks ==
    ASSUME NEW c, NEW d, NEW k, NEW v, NEW w, NEW q, NEW r, NEW p, NEW z,
           Pair(c, d, k, v, w, q, r), Shrunk(q, z, p), ~On(c, k, z),
           w.state = "Requesting" => ~Answer(z, w.session)
    PROVE  Pair(c, d, k, v, w, p, r)
<1>1. Mine(c, k, Elems(p)) = Mine(c, k, Elems(q))
  BY DEF Shrunk, Mine, On
<1>2. LastWord(c, k, v, p)
  <2>1. ASSUME NEW i \in DOMAIN p, NEW j \in DOMAIN p, i < j, On(c, k, p[i]), On(c, k, p[j]),
               p[i].close
        PROVE  p[j].data = <<>>
    <3>1. /\ i + 1 \in DOMAIN q /\ p[i] = q[i + 1] /\ i \in Nat
          /\ j + 1 \in DOMAIN q /\ p[j] = q[j + 1] /\ j \in Nat
      BY DEF Shrunk
    <3>2. i + 1 < j + 1
      BY <2>1, <3>1
    <3> QED
      BY <2>1, <3>1, <3>2 DEF Pair, LastWord
  <2> QED
    BY <1>1, <2>1 DEF Pair, LastWord
<1>3. Farewell(v, w, Mine(c, k, Elems(p)), p)
  BY <1>1 DEF Pair, Farewell, Shrunk
<1>4. AcceptFirst(c, k, v, w, p)
  <2>1. SUFFICES ASSUME w.state = "Requesting" PROVE AcceptFirst(c, k, v, w, p)
    BY DEF AcceptFirst
  <2>2. v.state = "Active" => \E m \in Elems(p) : Answer(m, w.session)
    BY <2>1 DEF Pair, AcceptFirst, Shrunk
  <2>3. ASSUME NEW j \in DOMAIN p, On(c, k, p[j])
        PROVE  \E i \in DOMAIN p : i < j /\ Answer(p[i], w.session)
    <3>1. j + 1 \in DOMAIN q /\ On(c, k, q[j + 1]) /\ j \in Nat
      BY <2>3 DEF Shrunk
    <3>2. PICK i \in DOMAIN q : i < j + 1 /\ Answer(q[i], w.session)
      BY <2>1, <3>1 DEF Pair, AcceptFirst
    <3>3. i # 1
      BY <2>1, <3>2 DEF Shrunk
    <3>4. i \in Nat /\ i - 1 \in DOMAIN p /\ p[i - 1] = q[i]
      BY <3>3 DEF Shrunk
    <3>5. i - 1 < j
      BY <3>1, <3>2, <3>4
    <3> QED
      BY <3>2, <3>4, <3>5
  <2> QED
    BY <2>2, <2>3 DEF AcceptFirst
<1> QED
  BY <1>1, <1>2, <1>3, <1>4 DEF Pair

\* The head of r goes that is not a close of d.
LEMMA PairShrinksBack ==
    ASSUME NEW c, NEW d, NEW k, NEW v, NEW w, NEW q, NEW r, NEW p, NEW z,
           Pair(c, d, k, v, w, q, r), Shrunk(r, z, p), ~(On(d, k, z) /\ z.close)
    PROVE  Pair(c, d, k, v, w, q, p)
<1>1. ASSUME v.task.mode = "data", NEW j \in DOMAIN p, p[j].type = "error", p[j].id = v.task.id
      PROVE  w.ended \in Leaving \/ \E i \in DOMAIN p : i < j /\ On(d, k, p[i]) /\ p[i].close
  <2>1. j + 1 \in DOMAIN r /\ p[j] = r[j + 1] /\ j \in Nat
    BY <1>1 DEF Shrunk
  <2>2. CASE w.ended \in Leaving
    BY <2>2
  <2>3. CASE \E i \in DOMAIN r : i < j + 1 /\ On(d, k, r[i]) /\ r[i].close
    <3>1. PICK i \in DOMAIN r : i < j + 1 /\ On(d, k, r[i]) /\ r[i].close
      BY <2>3
    <3>2. i # 1
      BY <3>1 DEF Shrunk
    <3>3. i \in Nat /\ i - 1 \in DOMAIN p /\ p[i - 1] = r[i]
      BY <3>2 DEF Shrunk
    <3>4. i - 1 < j
      BY <2>1, <3>1, <3>3
    <3> QED
      BY <3>1, <3>3, <3>4
  <2> QED
    BY <1>1, <2>1, <2>2, <2>3 DEF Pair, Blamed
<1> QED
  BY <1>1 DEF Pair, Blamed

----------------------------------------------------------------------------
(* What a step of c does to a pair of views: v becomes u.                  *)

\* The other direction only sees a state, an ending and what arrived.
SameToPeer(u, v) ==
    u.state = v.state /\ u.session = v.session /\ u.ended = v.ended /\ u.got = v.got

\* A chunk leaves: everything before it had arrived.
LEMMA SendBoth ==
    ASSUME NEW c, NEW d, NEW k, NEW v, NEW w, NEW q, NEW r, NEW u, NEW p, NEW z,
           Fit(v), Fit(w), Both(c, d, k, v, w, q, r), c # d,
           Grown(q, z, p), On(c, k, z), z.data \in Seq(Nat), z.close \in BOOLEAN,
           v.state = "Active", v.task = NoTask, ~v.closing,
           w.got = v.sent, \A m \in Mine(c, k, Elems(q)) : m.data = <<>>,
           SameToPeer(u, v), u.sent = v.sent + Len(z.data), u.closing = z.close,
           u.task = [mode |-> "data", id |-> z.id],
           \A m \in Elems(r) : m.id # z.id
    PROVE  Both(c, d, k, u, w, p, r)
<1> DEFINE D == Mine(c, k, Elems(q))
           E == Mine(c, k, Elems(p))
<1>1. Pair(c, d, k, v, w, q, r) /\ Pair(d, c, k, w, v, r, q)
  BY DEF Both
<1>2. E = D \cup {z}
  BY DEF Grown, Mine, On
<1>3. v.ended = "none" /\ \A m \in D : ~m.close
  BY <1>1 DEF Pair, LastWord, Fit
<1>4. ~On(d, k, z) /\ z.type # "result" /\ z.type # "error"
  BY DEF On
<1>5. w.ended # "closed" /\ w.ended # "refused"
  BY <1>1 DEF Pair, Heard, Declined
<1>6. Complete(u, w, E)
  <2>1. z.data = <<>> \/ w.got + Len(z.data) = u.sent
    OBVIOUS
  <2>2. z.data = <<>> => u.sent = w.got
    BY DEF Fit, Views
  <2>3. Whole(u.sent, w.got, E)
    BY <1>2, <2>1, <2>2 DEF Whole
  <2> QED
    BY <2>3 DEF Complete
<1> HIDE DEF D, E
<1>7. LastWord(c, k, u, p)
  <2>1. \A m \in E : m.close => u.closing /\ m.id = u.task.id
    BY <1>2, <1>3
  <2>2. \A i \in DOMAIN q : On(c, k, q[i]) => ~q[i].close
    BY <1>3 DEF D, Mine, Elems, On
  <2>3. \A i, j \in DOMAIN p : i < j => i \in DOMAIN q /\ p[i] = q[i]
    BY DEF Grown
  <2> QED
    BY <2>1, <2>2, <2>3 DEF LastWord, E
<1>8. Told(u, w, E) /\ Heard(u, w, E)
  BY <1>2, <1>5 DEF Told, Heard
<1>9. Farewell(u, w, E, p) /\ Awaited(u, w) /\ Declined(u, w)
  BY <1>3, <1>5 DEF Farewell, Awaited, Declined, SameToPeer
<1>10. Blamed(d, k, u, w, r)
  BY <1>3 DEF Blamed, SameToPeer, Elems
<1>11. AcceptFirst(c, k, u, w, p)
  <2>1. SUFFICES ASSUME w.state = "Requesting" PROVE AcceptFirst(c, k, u, w, p)
    BY DEF AcceptFirst
  <2>2. PICK m \in Elems(q) : Answer(m, w.session)
    BY <1>1, <2>1 DEF Pair, AcceptFirst
  <2>3. PICK n \in DOMAIN q : q[n] = m
    BY DEF Elems
  <2>4. ASSUME NEW j \in DOMAIN p, On(c, k, p[j])
        PROVE  \E i \in DOMAIN p : i < j /\ Answer(p[i], w.session)
    <3>1. CASE j \in DOMAIN q
      <4>1. On(c, k, q[j])
        BY <2>4, <3>1 DEF Grown
      <4>2. PICK i \in DOMAIN q : i < j /\ Answer(q[i], w.session)
        BY <1>1, <2>1, <3>1, <4>1 DEF Pair, AcceptFirst
      <4> QED
        BY <4>2 DEF Grown
    <3>2. CASE j \notin DOMAIN q
      BY <2>2, <2>3, <2>4, <3>2 DEF Grown
    <3> QED
      BY <3>1, <3>2
  <2>5. m \in Elems(p)
    BY DEF Grown
  <2> QED
    BY <2>2, <2>4, <2>5 DEF AcceptFirst
<1>12. Pair(c, d, k, u, w, p, r)
  BY <1>6, <1>7, <1>8, <1>9, <1>10, <1>11 DEF Pair, E
<1>13. Pair(d, c, k, w, v, r, p)
  BY <1>1, <1>4, PairGrowsBack
<1>14. Pair(d, c, k, w, u, r, p)
  BY <1>13 DEF Pair, Complete, LastWord, Heard, Told, Farewell, Blamed, Awaited, AcceptFirst,
               Declined, SameToPeer
<1> QED
  BY <1>12, <1>14 DEF Both

\* The other direction when c ends without leaving its peer behind.
LEMMA EndsQuietly ==
    ASSUME NEW c, NEW d, NEW k, NEW v, NEW w, NEW q, NEW r, NEW u, NEW p, NEW z,
           Fit(v), Pair(d, c, k, w, v, r, q),
           \/ p = q
           \/ Grown(q, z, p) /\ (w.task.mode = "data" => ~(z.type = "error" /\ z.id = w.task.id)),
           v.state \in {"Active", "WaitingForAccept"},
           w.state # "WaitingForAccept",
           u.state = "Idle", u.ended \in {"local", "finished"}
    PROVE  Pair(d, c, k, w, u, r, p)
<1>1. Pair(d, c, k, w, v, r, p)
  BY PairGrowsBack
<1>2. v.ended = "none"
  BY DEF Fit
<1>3. Complete(w, u, Mine(d, k, Elems(r))) /\ Heard(w, u, Mine(d, k, Elems(r)))
  BY DEF Complete, Heard
<1>4. LastWord(d, k, w, r) /\ Told(w, u, Mine(d, k, Elems(r)))
  BY <1>1 DEF Pair, Told
<1>5. Farewell(w, u, Mine(d, k, Elems(r)), r) /\ AcceptFirst(d, k, w, u, r)
  BY DEF Farewell, AcceptFirst
<1>6. Blamed(c, k, w, u, p)
  BY <1>1, <1>2 DEF Pair, Blamed, Leaving
<1>7. Awaited(w, u) /\ Declined(w, u)
  BY <1>1, <1>2 DEF Pair, Awaited, Declined, Leaving
<1> QED
  BY <1>3, <1>4, <1>5, <1>6, <1>7 DEF Pair

\* close() with nothing to send.
LEMMA CloseBoth ==
    ASSUME NEW c, NEW d, NEW k, NEW v, NEW w, NEW q, NEW r, NEW u, NEW p, NEW z,
           Fit(v), Fit(w), Both(c, d, k, v, w, q, r), c # d,
           Grown(q, z, p), On(c, k, z), z.data = <<>>, z.close, v.state = "Active",
           u.state = "Idle", u.ended = "local", u.sent = v.sent, u.task = NoTask, ~u.closing
    PROVE  Both(c, d, k, u, w, p, r)
<1> DEFINE D == Mine(c, k, Elems(q))
           E == Mine(c, k, Elems(p))
<1>1. Pair(c, d, k, v, w, q, r) /\ Pair(d, c, k, w, v, r, q)
  BY DEF Both
<1>2. E = D \cup {z}
  BY DEF Grown, Mine, On
<1>3. v.ended = "none" /\ u.task.mode # "data"
  BY DEF Fit, NoTask
<1>4. ~On(d, k, z) /\ z.type # "result" /\ z.type # "error"
  BY DEF On
<1>5. w.ended # "refused"
  BY <1>1 DEF Pair, Declined
<1> HIDE DEF D, E
<1>6. Complete(u, w, E)
  <2>1. SUFFICES ASSUME w.ended \in {"none", "closed"} PROVE Whole(u.sent, w.got, E)
    BY DEF Complete
  <2>2. Whole(v.sent, w.got, D)
    BY <1>1, <1>3, <2>1 DEF Pair, Complete, D
  <2> QED
    BY <1>2, <2>2 DEF Whole
<1>7. LastWord(c, k, u, p)
  <2>1. \A i, j \in DOMAIN p : i < j => i \in DOMAIN q /\ p[i] = q[i]
    BY DEF Grown
  <2>2. \A j \in DOMAIN p : j \in DOMAIN q \/ p[j].data = <<>>
    BY DEF Grown
  <2>3. \A j \in DOMAIN q : j \in DOMAIN p /\ p[j] = q[j]
    BY DEF Grown
  <2>4. LastWord(c, k, v, q)
    BY <1>1 DEF Pair
  <2>5. ASSUME NEW i \in DOMAIN p, NEW j \in DOMAIN p, i < j, On(c, k, p[i]), On(c, k, p[j]),
               p[i].close
        PROVE  p[j].data = <<>>
    BY <2>1, <2>2, <2>3, <2>4, <2>5 DEF LastWord
  <2> QED
    BY <2>5 DEF LastWord
<1>8. Told(u, w, E) /\ Heard(u, w, E)
  BY <1>1, <1>2, <1>3 DEF Told, Heard, Pair, D
<1>9. Farewell(u, w, E, p) /\ Awaited(u, w) /\ Declined(u, w)
  BY <1>2, <1>5 DEF Farewell, Awaited, Declined
<1>10. Blamed(d, k, u, w, r)
  BY <1>3 DEF Blamed
<1>11. AcceptFirst(c, k, u, w, p)
  <2>1. SUFFICES ASSUME w.state = "Requesting" PROVE AcceptFirst(c, k, u, w, p)
    BY DEF AcceptFirst
  <2>2. PICK m \in Elems(q) : Answer(m, w.session)
    BY <1>1, <2>1 DEF Pair, AcceptFirst
  <2>3. PICK n \in DOMAIN q : q[n] = m
    BY DEF Elems
  <2>4. ASSUME NEW j \in DOMAIN p, On(c, k, p[j])
        PROVE  \E i \in DOMAIN p : i < j /\ Answer(p[i], w.session)
    <3>1. CASE j \in DOMAIN q
      <4>1. On(c, k, q[j])
        BY <2>4, <3>1 DEF Grown
      <4>2. PICK i \in DOMAIN q : i < j /\ Answer(q[i], w.session)
        BY <1>1, <2>1, <3>1, <4>1 DEF Pair, AcceptFirst
      <4> QED
        BY <4>2 DEF Grown
    <3>2. CASE j \notin DOMAIN q
      BY <2>2, <2>3, <2>4, <3>2 DEF Grown
    <3> QED
      BY <3>1, <3>2
  <2> QED
    BY <2>4 DEF AcceptFirst
<1>12. Pair(c, d, k, u, w, p, r)
  BY <1>6, <1>7, <1>8, <1>9, <1>10, <1>11 DEF Pair, E
<1>13. w.state # "WaitingForAccept"
  BY <1>1, <1>3 DEF Pair, Awaited, Leaving
<1>14. Pair(d, c, k, w, u, r, p)
  BY <1>1, <1>4, <1>13, EndsQuietly
<1> QED
  BY <1>12, <1>14 DEF Both

\* close() while the request waits: nothing was sent in this session.
LEMMA DeclineBoth ==
    ASSUME NEW c, NEW d, NEW k, NEW v, NEW w, NEW q, NEW r, NEW u, NEW p, NEW z,
           Fit(v), Fit(w), Both(c, d, k, v, w, q, r),
           Grown(q, z, p), z.type = "error", v.state = "WaitingForAccept",
           \A m \in Elems(q) : ~Answer(m, w.session),
           u.state = "Idle", u.ended = "local", u.sent = v.sent, u.task = NoTask, ~u.closing
    PROVE  Both(c, d, k, u, w, p, r)
<1>1. Pair(c, d, k, v, w, q, r) /\ Pair(d, c, k, w, v, r, q)
  BY DEF Both
<1>2. ~On(c, k, z) /\ ~Answer(z, w.session)
  BY DEF On, Answer
<1>3. Pair(c, d, k, v, w, p, r)
  BY <1>1, <1>2, PairGrows
<1>4. v.ended = "none" /\ u.task.mode # "data"
  BY DEF Fit, NoTask
<1>5. w.state \in {"Requesting", "Idle"} /\ w.task.mode # "data"
  BY <1>1 DEF Pair, Awaited, Fit, Leaving
<1>6. Farewell(u, w, Mine(c, k, Elems(p)), p)
  BY <1>2, <1>5 DEF Farewell, Grown
<1>7. Pair(c, d, k, u, w, p, r)
  <2>1. Complete(u, w, Mine(c, k, Elems(p))) /\ Heard(u, w, Mine(c, k, Elems(p)))
    BY <1>3, <1>4 DEF Pair, Complete, Heard
  <2>2. LastWord(c, k, u, p) /\ Told(u, w, Mine(c, k, Elems(p)))
    BY <1>3 DEF Pair, LastWord, Told
  <2>3. Blamed(d, k, u, w, r) /\ Awaited(u, w) /\ Declined(u, w)
    BY <1>4 DEF Blamed, Awaited, Declined
  <2>4. AcceptFirst(c, k, u, w, p)
    BY <1>3 DEF Pair, AcceptFirst
  <2> QED
    BY <1>6, <2>1, <2>2, <2>3, <2>4 DEF Pair
<1>8. Pair(d, c, k, w, u, r, p)
  BY <1>1, <1>5, EndsQuietly
<1> QED
  BY <1>7, <1>8 DEF Both

\* The connection is deleted, or the request cancelled: nobody is told.
LEMMA LeaveBoth ==
    ASSUME NEW c, NEW d, NEW k, NEW v, NEW w, NEW q, NEW r, NEW u,
           Fit(v), Fit(w), Both(c, d, k, v, w, q, r), v.state # "Idle",
           u.state = "Idle", u.ended \in Leaving, u.task = NoTask, ~u.closing
    PROVE  Both(c, d, k, u, w, q, r)
<1>1. Pair(c, d, k, v, w, q, r) /\ Pair(d, c, k, w, v, r, q)
  BY DEF Both
<1>2. v.ended = "none" /\ u.task.mode # "data" /\ u.ended \in {"cancelled", "destroyed"}
  BY DEF Fit, NoTask, Leaving
<1>3. Pair(c, d, k, u, w, q, r)
  <2>1. Complete(u, w, Mine(c, k, Elems(q))) /\ Farewell(u, w, Mine(c, k, Elems(q)), q)
    BY <1>2 DEF Complete, Farewell
  <2>2. Heard(u, w, Mine(c, k, Elems(q)))
    BY <1>1, <1>2 DEF Pair, Heard
  <2>3. LastWord(c, k, u, q) /\ Told(u, w, Mine(c, k, Elems(q)))
    BY <1>1 DEF Pair, LastWord, Told
  <2>4. Blamed(d, k, u, w, r) /\ Awaited(u, w) /\ Declined(u, w)
    BY <1>2 DEF Blamed, Awaited, Declined
  <2>5. AcceptFirst(c, k, u, w, q)
    BY <1>1 DEF Pair, AcceptFirst
  <2> QED
    BY <2>1, <2>2, <2>3, <2>4, <2>5 DEF Pair
<1>4. Pair(d, c, k, w, u, r, q)
  <2>1. Complete(w, u, Mine(d, k, Elems(r))) /\ Heard(w, u, Mine(d, k, Elems(r)))
    BY <1>2 DEF Complete, Heard
  <2>2. LastWord(d, k, w, r) /\ Told(w, u, Mine(d, k, Elems(r)))
    BY <1>1 DEF Pair, Told
  <2>3. Farewell(w, u, Mine(d, k, Elems(r)), r) /\ AcceptFirst(d, k, w, u, r)
    BY DEF Farewell, AcceptFirst
  <2>4. Blamed(c, k, w, u, q) /\ Awaited(w, u) /\ Declined(w, u)
    BY <1>2 DEF Blamed, Awaited, Declined, Leaving
  <2> QED
    BY <2>1, <2>2, <2>3, <2>4 DEF Pair
<1> QED
  BY <1>3, <1>4 DEF Both

\* The close was acknowledged, or close() was called from bytesWritten().
LEMMA FinishBoth ==
    ASSUME NEW c, NEW d, NEW k, NEW v, NEW w, NEW q, NEW r, NEW u,
           Fit(v), Fit(w), Both(c, d, k, v, w, q, r), v.closing,
           u.state = "Idle", u.ended = "finished", u.sent = v.sent, u.task = NoTask, ~u.closing
    PROVE  Both(c, d, k, u, w, q, r)
<1>1. Pair(c, d, k, v, w, q, r) /\ Pair(d, c, k, w, v, r, q)
  BY DEF Both
<1>2. v.ended = "none" /\ v.state = "Active" /\ u.task.mode # "data"
  BY DEF Fit, NoTask
<1>3. w.ended # "refused"
  BY <1>1, <1>2 DEF Pair, Declined
<1>4. Pair(c, d, k, u, w, q, r)
  <2>1. Complete(u, w, Mine(c, k, Elems(q))) /\ Heard(u, w, Mine(c, k, Elems(q)))
    BY <1>1, <1>2 DEF Pair, Complete, Heard
  <2>2. LastWord(c, k, u, q) /\ Told(u, w, Mine(c, k, Elems(q)))
    BY <1>1 DEF Pair, LastWord, Told
  <2>3. Farewell(u, w, Mine(c, k, Elems(q)), q)
    BY <1>1 DEF Pair, Told, Farewell
  <2>4. Blamed(d, k, u, w, r) /\ Awaited(u, w) /\ Declined(u, w)
    BY <1>2, <1>3 DEF Blamed, Awaited, Declined
  <2>5. AcceptFirst(c, k, u, w, q)
    BY <1>1 DEF Pair, AcceptFirst
  <2> QED
    BY <2>1, <2>2, <2>3, <2>4, <2>5 DEF Pair
<1>5. w.state # "WaitingForAccept"
  BY <1>1, <1>2 DEF Pair, Awaited, Leaving
<1>6. Pair(d, c, k, w, u, r, q)
  BY <1>1, <1>2, <1>5, EndsQuietly
<1> QED
  BY <1>4, <1>6 DEF Both

\* The answer to the request of c is an error: the other end declined.
LEMMA RefusedBoth ==
    ASSUME NEW c, NEW d, NEW k, NEW v, NEW w, NEW q, NEW r, NEW u, NEW s, NEW m,
           Fit(v), Fit(w), Both(c, d, k, v, w, q, r), Shrunk(r, m, s), m.type = "error",
           v.state = "Requesting", w.state = "Idle", w.ended # "dataError",
           u.state = "Idle", u.ended = "refused", u.task = NoTask, ~u.closing
    PROVE  Both(c, d, k, u, w, q, s)
<1>1. Pair(c, d, k, v, w, q, r) /\ Pair(d, c, k, w, v, r, q)
  BY DEF Both
<1>2. ~On(d, k, m) /\ \A id : ~Answer(m, id)
  BY DEF On, Answer
<1>3. Pair(c, d, k, v, w, q, s)
  BY <1>1, <1>2, PairShrinksBack
<1>4. Pair(d, c, k, w, v, s, q)
  BY <1>1, <1>2, PairShrinks
<1>5. v.ended = "none" /\ u.task.mode # "data" /\ w.task.mode # "data" /\ ~w.closing
  BY DEF Fit, NoTask
<1>6. Pair(c, d, k, u, w, q, s)
  <2>1. Complete(u, w, Mine(c, k, Elems(q))) /\ Farewell(u, w, Mine(c, k, Elems(q)), q)
    BY <1>5 DEF Complete, Farewell
  <2>2. Heard(u, w, Mine(c, k, Elems(q)))
    BY <1>3, <1>5 DEF Pair, Heard
  <2>3. LastWord(c, k, u, q) /\ Told(u, w, Mine(c, k, Elems(q)))
    BY <1>3 DEF Pair, LastWord, Told
  <2>4. Blamed(d, k, u, w, s) /\ Awaited(u, w) /\ Declined(u, w)
    BY <1>5 DEF Blamed, Awaited, Declined
  <2>5. AcceptFirst(c, k, u, w, q)
    BY <1>3 DEF Pair, AcceptFirst
  <2> QED
    BY <2>1, <2>2, <2>3, <2>4, <2>5 DEF Pair
<1>7. Pair(d, c, k, w, u, s, q)
  <2>1. Complete(w, u, Mine(d, k, Elems(s))) /\ Heard(w, u, Mine(d, k, Elems(s)))
    BY DEF Complete, Heard
  <2>2. LastWord(d, k, w, s) /\ Told(w, u, Mine(d, k, Elems(s)))
    BY <1>4 DEF Pair, Told
  <2>3. Farewell(w, u, Mine(d, k, Elems(s)), s) /\ AcceptFirst(d, k, w, u, s)
    BY DEF Farewell, AcceptFirst
  <2>4. Blamed(c, k, w, u, q) /\ Awaited(w, u) /\ Declined(w, u)
    BY <1>5 DEF Blamed, Awaited, Declined
  <2> QED
    BY <2>1, <2>2, <2>3, <2>4 DEF Pair
<1> QED
  BY <1>6, <1>7 DEF Both

\* A chunk of c is answered with an error: by an end that left.
LEMMA ErrorBoth ==
    ASSUME NEW c, NEW d, NEW k, NEW v, NEW w, NEW q, NEW r, NEW u, NEW s, NEW m,
           Fit(v), Fit(w), Both(c, d, k, v, w, q, r), Shrunk(r, m, s), m.type = "error",
           DOMAIN r \subseteq Nat \ {0}, v.task.mode = "data", m.id = v.task.id,
           u.state = "Idle", u.ended = "dataError", u.task = NoTask, ~u.closing
    PROVE  Both(c, d, k, u, w, q, s)
<1>1. Pair(c, d, k, v, w, q, r) /\ Pair(d, c, k, w, v, r, q)
  BY DEF Both
<1>2. ~On(d, k, m) /\ \A id : ~Answer(m, id)
  BY DEF On, Answer
<1>3. Pair(c, d, k, v, w, q, s)
  BY <1>1, <1>2, PairShrinksBack
<1>4. Pair(d, c, k, w, v, s, q)
  BY <1>1, <1>2, PairShrinks
<1>5. w.ended \in {"cancelled", "destroyed"}
  <2>1. 1 \in DOMAIN r /\ r[1] = m /\ \A i \in DOMAIN r : ~(i < 1)
    BY DEF Shrunk
  <2> QED
    BY <1>1, <2>1 DEF Pair, Blamed, Leaving
<1>6. w.state = "Idle" /\ w.task.mode # "data" /\ ~w.closing /\ u.task.mode # "data"
  BY <1>5 DEF Fit, NoTask
<1>7. Pair(c, d, k, u, w, q, s)
  <2>1. Complete(u, w, Mine(c, k, Elems(q))) /\ Farewell(u, w, Mine(c, k, Elems(q)), q)
    BY DEF Complete, Farewell
  <2>2. Heard(u, w, Mine(c, k, Elems(q))) /\ Declined(u, w)
    BY <1>5 DEF Heard, Declined
  <2>3. LastWord(c, k, u, q) /\ Told(u, w, Mine(c, k, Elems(q)))
    BY <1>3 DEF Pair, LastWord, Told
  <2>4. Blamed(d, k, u, w, s) /\ Awaited(u, w)
    BY <1>5, <1>6 DEF Blamed, Awaited, Leaving
  <2>5. AcceptFirst(c, k, u, w, q)
    BY <1>3 DEF Pair, AcceptFirst
  <2> QED
    BY <2>1, <2>2, <2>3, <2>4, <2>5 DEF Pair
<1>8. Pair(d, c, k, w, u, s, q)
  <2>1. Complete(w, u, Mine(d, k, Elems(s))) /\ Heard(w, u, Mine(d, k, Elems(s)))
    BY <1>5 DEF Complete, Heard
  <2>2. LastWord(d, k, w, s) /\ Told(w, u, Mine(d, k, Elems(s)))
    BY <1>4 DEF Pair, Told
  <2>3. Farewell(w, u, Mine(d, k, Elems(s)), s) /\ AcceptFirst(d, k, w, u, s)
    BY DEF Farewell, AcceptFirst
  <2>4. Blamed(c, k, w, u, q) /\ Awaited(w, u) /\ Declined(w, u)
    BY <1>5, <1>6 DEF Blamed, Awaited, Declined
  <2> QED
    BY <2>1, <2>2, <2>3, <2>4 DEF Pair
<1> QED
  BY <1>7, <1>8 DEF Both

\* The answer to the request of c is its stream: what follows it is not lost.
LEMMA OpenedBoth ==
    ASSUME NEW c, NEW d, NEW k, NEW v, NEW w, NEW q, NEW r, NEW u, NEW s, NEW m,
           Fit(v), Fit(w), Both(c, d, k, v, w, q, r), Shrunk(r, m, s), Answer(m, v.session),
           v.state = "Requesting", w.state \notin {"Requesting", "WaitingForAccept"},
           u.state = "Active", u.ended = v.ended, u.sent = v.sent, u.got = v.got,
           u.session = v.session, u.task = NoTask, ~u.closing
    PROVE  Both(c, d, k, u, w, q, s)
<1>1. Pair(c, d, k, v, w, q, r) /\ Pair(d, c, k, w, v, r, q)
  BY DEF Both
<1>2. ~On(d, k, m)
  BY DEF On, Answer
<1>3. Pair(c, d, k, v, w, q, s)
  BY <1>1, <1>2, PairShrinksBack
<1>4. v.ended = "none" /\ ~v.closing /\ u.task.mode # "data" /\ v.task.mode # "data"
  BY DEF Fit, NoTask
<1>5. w.ended # "closed" /\ w.ended # "refused"
  BY <1>1, <1>4 DEF Pair, Heard, Declined
<1>6. Pair(c, d, k, u, w, q, s)
  <2>1. Complete(u, w, Mine(c, k, Elems(q))) /\ Heard(u, w, Mine(c, k, Elems(q)))
    BY <1>3, <1>5 DEF Pair, Complete, Heard
  <2>2. LastWord(c, k, u, q) /\ Told(u, w, Mine(c, k, Elems(q)))
    BY <1>3, <1>4 DEF Pair, LastWord, Told
  <2>3. Farewell(u, w, Mine(c, k, Elems(q)), q) /\ Blamed(d, k, u, w, s)
    BY <1>4 DEF Farewell, Blamed
  <2>4. Awaited(u, w) /\ Declined(u, w) /\ AcceptFirst(c, k, u, w, q)
    BY <1>5 DEF Awaited, Declined, AcceptFirst
  <2> QED
    BY <2>1, <2>2, <2>3, <2>4 DEF Pair
<1>7. Mine(d, k, Elems(s)) = Mine(d, k, Elems(r)) /\ m \in Elems(r)
  BY <1>2 DEF Shrunk, Mine, On
<1>8. LastWord(d, k, w, s)
  <2>1. \A i \in DOMAIN s : i \in Nat /\ i + 1 \in DOMAIN r /\ s[i] = r[i + 1]
    BY DEF Shrunk
  <2>2. \A i, j \in DOMAIN s : i < j => i + 1 < j + 1
    BY <2>1
  <2>3. LastWord(d, k, w, r)
    BY <1>1 DEF Pair
  <2>4. ASSUME NEW i \in DOMAIN s, NEW j \in DOMAIN s, i < j, On(d, k, s[i]), On(d, k, s[j]),
               s[i].close
        PROVE  s[j].data = <<>>
    <3>1. i + 1 < j + 1 /\ i + 1 \in DOMAIN r /\ j + 1 \in DOMAIN r
          /\ s[i] = r[i + 1] /\ s[j] = r[j + 1]
      BY <2>1, <2>2, <2>4
    <3> QED
      BY <2>3, <2>4, <3>1 DEF LastWord
  <2> QED
    BY <1>7, <2>3, <2>4 DEF LastWord
<1>9. Pair(d, c, k, w, u, s, q)
  <2>1. Complete(w, u, Mine(d, k, Elems(s))) /\ Heard(w, u, Mine(d, k, Elems(s)))
    BY <1>1, <1>7 DEF Pair, Complete, Heard
  <2>2. Told(w, u, Mine(d, k, Elems(s)))
    BY <1>1, <1>7 DEF Pair, Told
  <2>3. Farewell(w, u, Mine(d, k, Elems(s)), s)
    BY <1>1, <1>7 DEF Pair, Farewell
  <2>4. AcceptFirst(d, k, w, u, s) /\ Awaited(w, u)
    BY DEF AcceptFirst, Awaited
  <2>5. Blamed(c, k, w, u, q) /\ Declined(w, u)
    BY <1>1 DEF Pair, Blamed, Declined
  <2> QED
    BY <1>8, <2>1, <2>2, <2>3, <2>4, <2>5 DEF Pair
<1> QED
  BY <1>6, <1>9 DEF Both

\* The request is accepted.
LEMMA AcceptBoth ==
    ASSUME NEW c, NEW d, NEW k, NEW v, NEW w, NEW q, NEW r, NEW u, NEW p, NEW z,
           Fit(v), Fit(w), Both(c, d, k, v, w, q, r), Grown(q, z, p),
           Answer(z, v.session), v.session = w.session, v.state = "WaitingForAccept",
           u.state = "Active", u.ended = v.ended, u.sent = v.sent, u.got = v.got,
           u.session = v.session, u.task = v.task, ~u.closing
    PROVE  Both(c, d, k, u, w, p, r)
<1>1. Pair(c, d, k, v, w, q, r) /\ Pair(d, c, k, w, v, r, q)
  BY DEF Both
<1>2. ~On(c, k, z) /\ z.type # "error"
  BY DEF On, Answer
<1>3. v.ended = "none" /\ ~v.closing /\ v.task.mode # "data"
  BY DEF Fit
<1>4. Pair(c, d, k, v, w, p, r)
  BY <1>1, <1>2, <1>3, PairGrows
<1>5. Pair(d, c, k, w, v, r, p)
  BY <1>1, <1>2, PairGrowsBack
<1>6. w.state = "Requesting" \/ w.ended \in {"cancelled", "destroyed"}
  BY <1>1 DEF Pair, Awaited, Leaving
<1>7. w.state \in {"Requesting", "Idle"} /\ w.ended \in {"none", "cancelled", "destroyed"}
  BY <1>6 DEF Fit
<1>8. Pair(c, d, k, u, w, p, r)
  <2>1. Complete(u, w, Mine(c, k, Elems(p))) /\ Heard(u, w, Mine(c, k, Elems(p)))
    BY <1>4, <1>7 DEF Pair, Complete, Heard
  <2>2. LastWord(c, k, u, p) /\ Told(u, w, Mine(c, k, Elems(p)))
    BY <1>3, <1>4 DEF Pair, LastWord, Told
  <2>3. Farewell(u, w, Mine(c, k, Elems(p)), p) /\ Blamed(d, k, u, w, r)
    BY <1>3 DEF Farewell, Blamed
  <2>4. Awaited(u, w) /\ Declined(u, w)
    BY <1>7 DEF Awaited, Declined
  <2>5. AcceptFirst(c, k, u, w, p)
    BY <1>4 DEF Pair, AcceptFirst, Grown
  <2> QED
    BY <2>1, <2>2, <2>3, <2>4, <2>5 DEF Pair
<1>9. Pair(d, c, k, w, u, r, p)
  <2>1. Complete(w, u, Mine(d, k, Elems(r))) /\ Heard(w, u, Mine(d, k, Elems(r)))
    BY <1>5 DEF Pair, Complete, Heard
  <2>2. LastWord(d, k, w, r) /\ Told(w, u, Mine(d, k, Elems(r)))
    BY <1>5 DEF Pair, Told
  <2>3. Farewell(w, u, Mine(d, k, Elems(r)), r) /\ AcceptFirst(d, k, w, u, r)
    BY <1>7 DEF Farewell, AcceptFirst
  <2>4. Blamed(c, k, w, u, p) /\ Awaited(w, u) /\ Declined(w, u)
    BY <1>5, <1>7 DEF Pair, Blamed, Awaited, Declined
  <2> QED
    BY <2>1, <2>2, <2>3, <2>4 DEF Pair
<1> QED
  BY <1>8, <1>9 DEF Both

\* The task of c is done.
LEMMA AckedBoth ==
    ASSUME NEW c, NEW d, NEW k, NEW v, NEW w, NEW q, NEW r, NEW u, NEW s, NEW m,
           Fit(v), Fit(w), Both(c, d, k, v, w, q, r), Shrunk(r, m, s), m.type = "result",
           v.task.mode = "data", \A l \in Mine(c, k, Elems(q)) : l.id # v.task.id,
           SameToPeer(u, v), u.sent = v.sent, u.closing = v.closing, u.task = NoTask
    PROVE  Both(c, d, k, u, w, q, s)
<1>1. Pair(c, d, k, v, w, q, r) /\ Pair(d, c, k, w, v, r, q)
  BY DEF Both
<1>2. ~On(d, k, m) /\ v.state = "Active" /\ v.ended = "none" /\ u.task.mode # "data"
  BY DEF On, Fit, NoTask
<1>3. Pair(c, d, k, v, w, q, s)
  BY <1>1, <1>2, PairShrinksBack
<1>4. Pair(d, c, k, w, v, s, q)
  BY <1>1, <1>2, PairShrinks
<1>5. Pair(c, d, k, u, w, q, s)
  <2>1. Complete(u, w, Mine(c, k, Elems(q))) /\ Heard(u, w, Mine(c, k, Elems(q)))
    BY <1>2, <1>3 DEF Pair, Complete, Heard, SameToPeer
  <2>2. LastWord(c, k, u, q)
    BY <1>2, <1>3 DEF Pair, LastWord
  <2>3. Told(u, w, Mine(c, k, Elems(q))) /\ Farewell(u, w, Mine(c, k, Elems(q)), q)
    BY <1>2, <1>3 DEF Pair, Told, Farewell, SameToPeer
  <2>4. Blamed(d, k, u, w, s) /\ Awaited(u, w) /\ Declined(u, w) /\ AcceptFirst(c, k, u, w, q)
    BY <1>2, <1>3 DEF Pair, Blamed, Awaited, Declined, AcceptFirst, SameToPeer
  <2> QED
    BY <2>1, <2>2, <2>3, <2>4 DEF Pair
<1>6. Pair(d, c, k, w, u, s, q)
  BY <1>4 DEF Pair, Complete, LastWord, Heard, Told, Farewell, Blamed, Awaited, AcceptFirst,
              Declined, SameToPeer
<1> QED
  BY <1>5, <1>6 DEF Both

\* The first stanza goes: the order of the others stays.
LEMMA LastWordShrinks ==
    ASSUME NEW d, NEW k, NEW w, NEW r, NEW m, NEW s, Shrunk(r, m, s), LastWord(d, k, w, r)
    PROVE  LastWord(d, k, w, s)
<1>1. \A l \in Mine(d, k, Elems(s)) : l \in Mine(d, k, Elems(r))
  BY DEF Shrunk, Mine
<1>2. \A i \in DOMAIN s : i \in Nat /\ i + 1 \in DOMAIN r /\ s[i] = r[i + 1]
  BY DEF Shrunk
<1>3. ASSUME NEW i \in DOMAIN s, NEW j \in DOMAIN s, i < j, On(d, k, s[i]), On(d, k, s[j]),
             s[i].close
      PROVE  s[j].data = <<>>
  <2>1. i + 1 < j + 1
    BY <1>2, <1>3
  <2>2. i + 1 \in DOMAIN r /\ j + 1 \in DOMAIN r /\ s[i] = r[i + 1] /\ s[j] = r[j + 1]
    BY <1>2
  <2> QED
    BY <1>3, <2>1, <2>2 DEF LastWord
<1> QED
  BY <1>1, <1>3 DEF LastWord

\* The chunks that are left.
LEMMA MineShrinks ==
    ASSUME NEW d, NEW k, NEW r, NEW m, NEW s, Shrunk(r, m, s), On(d, k, m)
    PROVE  /\ Mine(d, k, Elems(r)) = {m} \cup Mine(d, k, Elems(s))
           /\ Elems(s) \subseteq Elems(r)
  BY DEF Shrunk, Mine, On

\* What arrives was all that was missing, or nothing.
LEMMA WholeTaken ==
    ASSUME NEW sent \in Nat, NEW n \in Nat, NEW D, NEW m, m \notin D,
           Len(m.data) \in Nat, m.data = <<>> => Len(m.data) = 0,
           \A l \in D : l.data # <<>> => m.data = <<>>,
           Whole(sent, n, {m} \cup D)
    PROVE  Whole(sent, n + Len(m.data), D)
<1>1. CASE m.data = <<>>
  <2>1. n + Len(m.data) = n
    BY <1>1
  <2> QED
    BY <1>1, <2>1 DEF Whole
<1>2. CASE m.data # <<>>
  <2>1. \A l \in D : l.data = <<>>
    BY <1>2
  <2>2. n + Len(m.data) = sent
    BY <1>2, <2>1 DEF Whole
  <2> QED
    BY <2>1, <2>2 DEF Whole
<1> QED
  BY <1>1, <1>2

\* c takes a chunk from d.
LEMMA TakeBoth ==
    ASSUME NEW c, NEW d, NEW k, NEW v, NEW w, NEW q, NEW r, NEW u, NEW s, NEW m,
           Fit(v), Fit(w), Both(c, d, k, v, w, q, r), Shrunk(r, m, s),
           On(d, k, m), ~m.close, v.state \in {"Active", "Idle"}, m \notin Elems(s),
           Len(m.data) \in Nat, m.data = <<>> => Len(m.data) = 0,
           \A l \in Mine(d, k, Elems(s)) : l.data # <<>> => m.data = <<>>,
           u.state = v.state, u.ended = v.ended, u.sent = v.sent, u.task = v.task,
           u.closing = v.closing, u.session = v.session, u.got = v.got + Len(m.data)
    PROVE  Both(c, d, k, u, w, q, s)
<1> DEFINE D == Mine(d, k, Elems(s))
<1>1. Pair(c, d, k, v, w, q, r) /\ Pair(d, c, k, w, v, r, q)
  BY DEF Both
<1>2. Mine(d, k, Elems(r)) = {m} \cup D /\ Elems(s) \subseteq Elems(r)
  BY MineShrinks
<1>3. Pair(c, d, k, v, w, q, s)
  BY <1>1, PairShrinksBack
<1>4. Pair(c, d, k, u, w, q, s)
  BY <1>3 DEF Pair, Complete, LastWord, Heard, Told, Farewell, Blamed, Awaited, AcceptFirst,
              Declined
<1>5. LastWord(d, k, w, s)
  BY <1>1, LastWordShrinks DEF Pair
<1>6. m \notin D
  BY DEF Mine
<1> HIDE DEF D
<1>7. Complete(w, u, D)
  <2>1. SUFFICES ASSUME v.ended \in {"none", "closed"}, w.ended \in {"none", "local", "finished"}
                 PROVE  Whole(w.sent, u.got, D)
    BY DEF Complete
  <2>2. Whole(w.sent, v.got, {m} \cup D)
    BY <1>1, <1>2, <2>1 DEF Pair, Complete
  <2>3. w.sent \in Nat /\ v.got \in Nat
    BY DEF Fit, Views
  <2> QED
    BY <1>6, <2>2, <2>3, WholeTaken DEF D
<1>8. Heard(w, u, D) /\ Told(w, u, D) /\ Farewell(w, u, D, s)
  <2>1. Heard(w, u, D)
    BY <1>1, <1>2 DEF Pair, Heard
  <2>2. Told(w, u, D)
    BY <1>1, <1>2 DEF Pair, Told
  <2>3. Farewell(w, u, D, s)
    BY <1>1, <1>2 DEF Pair, Farewell
  <2> QED
    BY <2>1, <2>2, <2>3
<1>9. Blamed(c, k, w, u, q) /\ Awaited(w, u) /\ AcceptFirst(d, k, w, u, s) /\ Declined(w, u)
  BY <1>1 DEF Pair, Blamed, Awaited, AcceptFirst, Declined
<1>10. Pair(d, c, k, w, u, s, q)
  BY <1>5, <1>7, <1>8, <1>9 DEF Pair, D
<1> QED
  BY <1>4, <1>10 DEF Both

\* c takes the close of d.
LEMMA TakeCloseBoth ==
    ASSUME NEW c, NEW d, NEW k, NEW v, NEW w, NEW q, NEW r, NEW u, NEW s, NEW m,
           Fit(v), Fit(w), Both(c, d, k, v, w, q, r), Shrunk(r, m, s),
           On(d, k, m), m.close, v.state \in {"Active", "Idle"}, v.ended \notin Leaving,
           m \notin Elems(s), \A l \in Mine(d, k, Elems(s)) : l.id # m.id,
           Len(m.data) \in Nat, m.data = <<>> => Len(m.data) = 0,
           \A l \in Mine(d, k, Elems(s)) : l.data # <<>> => m.data = <<>>,
           w.ended \in {"none", "local", "finished"} =>
               Whole(w.sent, v.got, Mine(d, k, Elems(r))),
           u.state = "Idle", u.ended = "closed", u.task = NoTask, ~u.closing,
           u.got = v.got + Len(m.data)
    PROVE  Both(c, d, k, u, w, q, s)
<1> DEFINE D == Mine(d, k, Elems(s))
<1>1. Pair(c, d, k, v, w, q, r) /\ Pair(d, c, k, w, v, r, q)
  BY DEF Both
<1>2. Mine(d, k, Elems(r)) = {m} \cup D /\ Elems(s) \subseteq Elems(r)
  BY MineShrinks
<1>3. u.task.mode # "data"
  BY DEF NoTask
<1>4. Pair(c, d, k, u, w, q, s)
  <2>1. Complete(u, w, Mine(c, k, Elems(q))) /\ Farewell(u, w, Mine(c, k, Elems(q)), q)
    BY DEF Complete, Farewell
  <2>2. Heard(u, w, Mine(c, k, Elems(q)))
    BY <1>1, <1>3 DEF Pair, Heard
  <2>3. LastWord(c, k, u, q) /\ Told(u, w, Mine(c, k, Elems(q)))
    BY <1>1 DEF Pair, LastWord, Told
  <2>4. Blamed(d, k, u, w, s) /\ Awaited(u, w) /\ Declined(u, w)
    BY <1>3 DEF Blamed, Awaited, Declined
  <2>5. AcceptFirst(c, k, u, w, q)
    BY <1>1 DEF Pair, AcceptFirst
  <2> QED
    BY <2>1, <2>2, <2>3, <2>4, <2>5 DEF Pair
<1>5. LastWord(d, k, w, s)
  BY <1>1, LastWordShrinks DEF Pair
<1>6. m \notin D
  BY DEF Mine
<1>7. w.state = "Idle" \/ (w.closing /\ m.id = w.task.id)
  BY <1>1, <1>2 DEF Pair, LastWord
<1>8. \A l \in D : l.data = <<>>
  <2>1. ASSUME NEW l \in D PROVE l.data = <<>>
    <3>1. PICK j \in DOMAIN s : s[j] = l
      BY DEF D, Mine, Elems
    <3>2. 1 \in DOMAIN r /\ r[1] = m /\ j \in Nat /\ j >= 1 /\ j + 1 \in DOMAIN r /\ r[j + 1] = l
      BY <3>1 DEF Shrunk
    <3>3. 1 < j + 1 /\ On(d, k, l)
      BY <3>2 DEF D, Mine, On
    <3> QED
      BY <1>1, <3>2, <3>3 DEF Pair, LastWord
  <2> QED
    BY <2>1
<1>9. \A l \in D : w.task.mode = "data" => l.id # w.task.id
  BY <1>7 DEF Fit, NoTask, D
<1> HIDE DEF D
<1>10. Complete(w, u, D)
  <2>1. SUFFICES ASSUME w.ended \in {"none", "local", "finished"}
                 PROVE  Whole(w.sent, u.got, D)
    BY DEF Complete
  <2>2. Whole(w.sent, v.got, {m} \cup D)
    BY <1>2, <2>1
  <2>3. w.sent \in Nat /\ v.got \in Nat
    BY DEF Fit, Views
  <2> QED
    BY <1>6, <2>2, <2>3, WholeTaken DEF D
<1>11. Heard(w, u, D)
  BY <1>7, <1>8, <1>9 DEF Heard
<1>12. Told(w, u, D) /\ Farewell(w, u, D, s) /\ AcceptFirst(d, k, w, u, s) /\ Declined(w, u)
  BY DEF Told, Farewell, AcceptFirst, Declined
<1>13. Blamed(c, k, w, u, q) /\ Awaited(w, u)
  BY <1>1 DEF Pair, Blamed, Awaited
<1>14. Pair(d, c, k, w, u, s, q)
  BY <1>5, <1>10, <1>11, <1>12, <1>13 DEF Pair, D
<1> QED
  BY <1>4, <1>14 DEF Both

\* A chunk of d finds no connection: c is not in the stream any more.
LEMMA LostBoth ==
    ASSUME NEW c, NEW d, NEW k, NEW v, NEW w, NEW q, NEW r, NEW p, NEW s, NEW m, NEW z,
           Fit(v), Fit(w), Both(c, d, k, v, w, q, r), Shrunk(r, m, s), Grown(q, z, p),
           On(d, k, m), m \notin Elems(s), z.type = "error", z.id = m.id,
           v.state = "Idle", v.ended # "none"
    PROVE  Both(c, d, k, v, w, p, s)
<1> DEFINE D == Mine(d, k, Elems(s))
<1>1. Pair(c, d, k, v, w, q, r) /\ Pair(d, c, k, w, v, r, q)
  BY DEF Both
<1>2. Mine(d, k, Elems(r)) = {m} \cup D /\ Elems(s) \subseteq Elems(r)
  BY MineShrinks
<1>3. ~On(c, k, z) /\ \A id : ~Answer(z, id)
  BY DEF On, Answer
<1>4. v.task.mode # "data"
  BY DEF Fit, NoTask
<1>5. Pair(c, d, k, v, w, p, r)
  BY <1>1, <1>3, PairGrows
<1>6. Pair(c, d, k, v, w, p, s)
  BY <1>4, <1>5 DEF Pair, Blamed
<1>7. LastWord(d, k, w, s)
  BY <1>1, LastWordShrinks DEF Pair
<1>8. m \notin D
  BY DEF Mine
<1>9. Complete(w, v, D)
  <2>1. SUFFICES ASSUME v.ended \in {"none", "closed"}, w.ended \in {"none", "local", "finished"}
                 PROVE  Whole(w.sent, v.got, D)
    BY DEF Complete
  <2>2. Whole(w.sent, v.got, {m} \cup D)
    BY <1>1, <1>2, <2>1 DEF Pair, Complete
  <2>3. v.ended = "closed"
    BY <2>1
  <2>4. m.data = <<>>
    BY <1>1, <1>2, <2>3 DEF Pair, Heard
  <2> HIDE DEF D
  <2> QED
    BY <2>2, <2>4 DEF Whole
<1> HIDE DEF D
<1>10. Heard(w, v, D) /\ Told(w, v, D) /\ Farewell(w, v, D, s) /\ AcceptFirst(d, k, w, v, s)
  <2>1. Heard(w, v, D)
    BY <1>1, <1>2 DEF Pair, Heard
  <2> QED
    BY <2>1 DEF Told, Farewell, AcceptFirst
<1>11. ASSUME w.task.mode = "data", NEW j \in DOMAIN p, p[j].type = "error",
              p[j].id = w.task.id
       PROVE  v.ended \in Leaving \/ \E i \in DOMAIN p : i < j /\ On(c, k, p[i]) /\ p[i].close
  <2>1. \A i \in DOMAIN q : i \in DOMAIN p /\ p[i] = q[i]
    BY DEF Grown
  <2>2. CASE j \in DOMAIN q
    BY <1>1, <1>11, <2>1, <2>2 DEF Pair, Blamed
  <2>3. CASE j \notin DOMAIN q
    <3>1. p[j] = z /\ \A i \in DOMAIN q : i < j
      BY <2>3 DEF Grown
    <3>2. m.id = w.task.id
      BY <1>11, <3>1
    <3>3. w.state = "Active" /\ w.ended = "none"
      BY <1>11 DEF Fit
    <3>4. v.ended # "closed"
      BY <1>1, <1>2, <1>11, <3>2 DEF Pair, Heard
    <3>5. v.ended # "refused" /\ v.ended # "dataError"
      BY <1>1, <3>3 DEF Pair, Declined, Blamed, Leaving
    <3>6. CASE v.ended \in {"local", "finished"}
      <4>1. PICK l \in Mine(c, k, Elems(q)) : l.close
        BY <1>1, <3>3, <3>6 DEF Pair, Farewell
      <4>2. PICK i \in DOMAIN q : q[i] = l
        BY DEF Mine, Elems
      <4>3. On(c, k, l)
        BY DEF Mine, On
      <4> QED
        BY <2>1, <3>1, <4>1, <4>2, <4>3
    <3> QED
      BY <3>4, <3>5, <3>6 DEF Fit, Views, Endings, Leaving
  <2> QED
    BY <2>2, <2>3
<1>12. Blamed(c, k, w, v, p)
  BY <1>1, <1>11 DEF Pair, Blamed
<1>13. Awaited(w, v) /\ Declined(w, v)
  BY <1>1 DEF Pair
<1>14. Pair(d, c, k, w, v, s, p)
  BY <1>7, <1>9, <1>10, <1>12, <1>13 DEF Pair, D
<1> QED
  BY <1>6, <1>14 DEF Both

\* A connection for a request: nothing is on the wire yet.
LEMMA NewBoth ==
    ASSUME NEW c, NEW d, NEW k, NEW v, NEW w, NEW q, NEW r, Fit(v), Fit(w),
           v.state = "WaitingForAccept", v.sent = 0, v.got = 0, w.sent = 0, w.got = 0,
           w.state = "Requesting" \/ w.ended \in Leaving,
           \A i \in DOMAIN q : ~On(c, k, q[i]), \A i \in DOMAIN r : ~On(d, k, r[i])
    PROVE  Both(c, d, k, v, w, q, r)
<1>1. v.ended = "none" /\ v.task.mode # "data" /\ ~v.closing
  BY DEF Fit
<1>2. w.ended \in {"none", "cancelled", "destroyed"} /\ w.state \in {"Requesting", "Idle"}
      /\ w.task.mode # "data" /\ ~w.closing
  BY DEF Fit, Leaving
<1>3. Mine(c, k, Elems(q)) = {} /\ Mine(d, k, Elems(r)) = {}
  BY DEF Mine, Elems, On
<1>4. Pair(c, d, k, v, w, q, r)
  <2>1. Complete(v, w, {}) /\ Heard(v, w, {}) /\ Told(v, w, {}) /\ Farewell(v, w, {}, q)
    BY <1>1, <1>2 DEF Complete, Whole, Heard, Told, Farewell
  <2>2. LastWord(c, k, v, q) /\ AcceptFirst(c, k, v, w, q)
    BY <1>3 DEF LastWord, AcceptFirst
  <2>3. Blamed(d, k, v, w, r) /\ Awaited(v, w) /\ Declined(v, w)
    BY <1>1, <1>2 DEF Blamed, Awaited, Declined
  <2> QED
    BY <1>3, <2>1, <2>2, <2>3 DEF Pair
<1>5. Pair(d, c, k, w, v, r, q)
  <2>1. Complete(w, v, {}) /\ Heard(w, v, {}) /\ Told(w, v, {}) /\ Farewell(w, v, {}, r)
    BY <1>1, <1>2 DEF Complete, Whole, Heard, Told, Farewell
  <2>2. LastWord(d, k, w, r) /\ AcceptFirst(d, k, w, v, r)
    BY <1>3 DEF LastWord, AcceptFirst
  <2>3. Blamed(c, k, w, v, q) /\ Awaited(w, v) /\ Declined(w, v)
    BY <1>1, <1>2 DEF Blamed, Awaited, Declined
  <2> QED
    BY <1>3, <2>1, <2>2, <2>3 DEF Pair
<1> QED
  BY <1>4, <1>5 DEF Both

\* The stanzas x of a handler behind a queue.
LEMMA LongerIs ==
    ASSUME NEW S, NEW q \in Seq(S), NEW t \in Seq(S)
    PROVE  Longer(q, Elems(t), q \o t)
<1>1. \A i \in DOMAIN q : i \in DOMAIN (q \o t) /\ (q \o t)[i] = q[i]
  OBVIOUS
<1>2. ASSUME NEW j \in DOMAIN (q \o t)
      PROVE  j \in DOMAIN q \/ ((q \o t)[j] \in Elems(t) /\ \A i \in DOMAIN q : i < j)
  <2>1. j \in DOMAIN q \/ (j - Len(q) \in DOMAIN t /\ (q \o t)[j] = t[j - Len(q)])
    OBVIOUS
  <2>2. j - Len(q) \in DOMAIN t => \A i \in DOMAIN q : i < j
    BY <1>2
  <2> QED
    BY <2>1, <2>2 DEF Elems
<1> QED
  BY <1>1, <1>2, ElemsConcat DEF Longer

\* p is q after a step that has to do with other connections: m was taken off
\* it, or Z follows.
Changed(q, m, Z, p) == p = q \/ Shrunk(q, m, p) \/ Longer(q, Z, p)
\* m and Z are of no concern to c and d, in this direction.
Foreign(c, d, k, v, w, m, Z) ==
    /\ ~On(c, k, m) /\ ~On(d, k, m)
    /\ w.state = "Requesting" => ~Answer(m, w.session)
    /\ \A z \in Z : ~On(c, k, z) /\ ~Answer(z, w.session)
    /\ v.task.mode = "data" => \A z \in Z : ~(z.type = "error" /\ z.id = v.task.id)

\* A step of others.
LEMMA PairElsewhere ==
    ASSUME NEW c, NEW d, NEW k, NEW v, NEW w, NEW q, NEW r, NEW p, NEW s, NEW m, NEW Z,
           Pair(c, d, k, v, w, q, r), Foreign(c, d, k, v, w, m, Z),
           Changed(q, m, Z, p), Changed(r, m, Z, s)
    PROVE  Pair(c, d, k, v, w, p, s)
<1>1. Pair(c, d, k, v, w, p, r)
  BY PairShrinks, PairLonger DEF Changed, Foreign
<1> QED
  BY <1>1, PairShrinksBack, PairLongerBack DEF Changed, Foreign

----------------------------------------------------------------------------
(* The methods of c, in the views of its stream.                           *)

\* A connection that is closing has nothing left; one that ended says how.
Late(o, h) ==
    /\ o.closing => o.sendbuf = <<>> /\ ~o.closePending /\ o.state = "Active"
    /\ o.state = "Idle" /\ o.session # NoId => h.ended # "none"

\* The views of what a handler may commit are fit.
LEMMA FitView ==
    ASSUME NEW c \in Obj, NEW o \in Connection, NEW h \in History, Sound(o, h), Loc(c, o, h),
           Late(o, h), NEW n \in Nat
    PROVE  Fit(View(o, h, n))
<1> DEFINE v == View(o, h, n)
<1>1. /\ v.state = o.state /\ v.task = o.task /\ v.closing = o.closing
      /\ v.session = o.session /\ v.sent = Sent(o, h) /\ v.ended = h.ended /\ v.got = n
  BY DEF View
<1>2. v \in Views
  <2>1. Sent(o, h) \in Nat
    BY SentType
  <2>2. /\ o.state \in States /\ o.task \in Task /\ o.closing \in BOOLEAN
        /\ o.session \in IqId \cup {NoId} /\ h.ended \in Endings
    BY DEF Connection, History
  <2> QED
    BY <2>1, <2>2 DEF View, Views
<1> HIDE DEF v
<1>3. Fit(v)
  BY <1>1, <1>2 DEF Fit, Sound, Loc, Late
<1> QED
  BY <1>3 DEF v

\* c is the end of the stream k that x describes, d the other one; of what d
\* sent n bytes arrived.
Joined(c, d, k, w, r, n, q, x) ==
    /\ Fit(w) /\ \E got \in Seq(Nat) : Len(got) = w.got /\ Flow(c, k, got, q, x)
    /\ Both(c, d, k, View(x.o, x.h, n), w, Wire(c, q, x), r)
    /\ x.o.state = "Active" => x.o.sid = k
    /\ \A m \in Elems(r) : m.id.obj = c => m.id.n \in 0..(x.o.nextId - 1)
    /\ x.o.state = "WaitingForAccept" =>
          \A m \in Elems(Wire(c, q, x)) : ~Answer(m, w.session)

\* A stanza a method of x sends, which y results from.
Says(c, x, y, z) ==
    \/ /\ z.type = "data" /\ z.id.obj = c /\ z.id.n \in Nat /\ z.id.n >= x.o.nextId
       /\ x.o.state = "Active" /\ z.sid = x.o.sid
    \/ /\ z = Error(x.o.session) /\ x.o.state = "WaitingForAccept"
       /\ y.o.state = "Idle" /\ y.h.ended = "local"

Moves(c, q, x, y) ==
    /\ Late(y.o, y.h)
    /\ x.o.state = "Idle" => y.h.ended = x.h.ended
    /\ x.o.state = "Requesting" => y.o.state = "Requesting" \/ y.h.ended \in Leaving
    /\ x.o.state # "Requesting" /\ x.h.ended # "cancelled" => y.h.ended # "cancelled"
    /\ y.o.state \in {x.o.state, "Idle"}
    /\ y.o.session = x.o.session /\ y.o.sid = x.o.sid /\ y.o.nextId >= x.o.nextId
    /\ \A z \in Elems(y.out) : z \in Elems(x.out) \/ Says(c, x, y, z)
    /\ \A d \in Obj \ {c} : \A k, w, r : \A n \in Nat :
          Joined(c, d, k, w, r, n, q, x) => Joined(c, d, k, w, r, n, q, y)

\* One method after the other.
LEMMA MovesTransitive ==
    ASSUME NEW c, NEW q, NEW x, NEW y, NEW z, Half(x), Half(y), Half(z),
           Moves(c, q, x, y), Moves(c, q, y, z)
    PROVE  Moves(c, q, x, z)
<1>1. x.o.nextId \in Nat /\ y.o.nextId \in Nat /\ z.o.nextId \in Nat
  BY Parts DEF Connection
<1>2. z.o.nextId >= x.o.nextId
  BY <1>1 DEF Moves
<1>3. ASSUME NEW m, Says(c, x, y, m)
      PROVE  Says(c, x, z, m)
  BY <1>3 DEF Says, Moves
<1>4. ASSUME NEW m, Says(c, y, z, m)
      PROVE  Says(c, x, z, m)
  <2>1. CASE m = Error(y.o.session) /\ y.o.state = "WaitingForAccept"
             /\ z.o.state = "Idle" /\ z.h.ended = "local"
    BY <2>1 DEF Says, Moves
  <2>2. CASE /\ m.type = "data" /\ m.id.obj = c /\ m.id.n \in Nat /\ m.id.n >= y.o.nextId
             /\ y.o.state = "Active" /\ m.sid = y.o.sid
    <3>1. m.id.n >= x.o.nextId
      BY <1>1, <2>2 DEF Moves
    <3>2. x.o.state = "Active" /\ m.sid = x.o.sid
      BY <2>2 DEF Moves
    <3> QED
      BY <2>2, <3>1, <3>2 DEF Says
  <2> QED
    BY <1>4, <2>1, <2>2 DEF Says
<1>5. \A m \in Elems(z.out) : m \in Elems(x.out) \/ Says(c, x, z, m)
  BY <1>3, <1>4 DEF Moves
<1>6. \A d \in Obj \ {c} : \A k, w, r : \A n \in Nat :
        Joined(c, d, k, w, r, n, q, x) => Joined(c, d, k, w, r, n, q, z)
  BY DEF Moves
<1>8. x.o.state = "Requesting" => z.o.state = "Requesting" \/ z.h.ended \in Leaving
  <2>1. y.h.ended \in Leaving => y.o.state = "Idle"
    BY DEF Half, Sound, Leaving
  <2> QED
    BY <2>1 DEF Moves
<1>9. x.o.state # "Requesting" /\ x.h.ended # "cancelled" => z.h.ended # "cancelled"
  BY DEF Moves
<1>7. /\ Late(z.o, z.h) /\ (x.o.state = "Idle" => z.h.ended = x.h.ended)
      /\ z.o.state \in {x.o.state, "Idle"}
      /\ z.o.session = x.o.session /\ z.o.sid = x.o.sid
  BY DEF Moves
<1> QED
  BY <1>2, <1>5, <1>6, <1>7, <1>8, <1>9 DEF Moves

\* Nothing happens.
LEMMA MovesNot ==
    ASSUME NEW c, NEW q, NEW x, Half(x), Late(x.o, x.h)
    PROVE  Moves(c, q, x, x)
<1>1. x.o.nextId \in Nat
  BY Parts DEF Connection
<1> QED
  BY <1>1 DEF Moves

\* A change the views do not show.
LEMMA SameViewMoves ==
    ASSUME NEW c, NEW q, NEW x, NEW y, Half(x), Extends(c, q, x, y), y.out = x.out,
           y.o.state = x.o.state, y.o.task = x.o.task, y.o.closing = x.o.closing,
           y.o.nextId = x.o.nextId, Sent(y.o, y.h) = Sent(x.o, x.h),
           y.h.ended = x.h.ended, Late(y.o, y.h)
    PROVE  Moves(c, q, x, y)
<1>1. x.o.nextId \in Nat
  BY Parts DEF Connection
<1>2. y.o.session = x.o.session /\ y.o.sid = x.o.sid /\ Wire(c, q, y) = Wire(c, q, x)
  BY DEF Extends, Wire
<1>3. \A n : View(y.o, y.h, n) = View(x.o, x.h, n)
  BY <1>2 DEF View
<1>4. \A k : \A got \in Seq(Nat) : Flow(c, k, got, q, x) => Flow(c, k, got, q, y)
  BY DEF Extends
<1>5. ASSUME NEW d, NEW k, NEW w, NEW r, NEW n, Joined(c, d, k, w, r, n, q, x)
      PROVE  Joined(c, d, k, w, r, n, q, y)
  BY <1>2, <1>3, <1>4, <1>5 DEF Joined
<1> QED
  BY <1>1, <1>2, <1>5 DEF Moves

\* What trySend() sends if it sends anything, for the views.
LEMMA TrySendSent ==
    ASSUME NEW c \in Obj, NEW x, Half(x), Loc(c, x.o, x.h), Late(x.o, x.h),
           TrySend(c, x) # x, NEW y, y = TrySend(c, x)
    PROVE  \E a \in Seq(Nat), close \in BOOLEAN :
            LET id == [obj |-> c, n |-> x.o.nextId]
            IN  /\ y.out = Append(x.out, SendData(id, x.o.sid, a, close))
                /\ x.o.state = "Active" /\ x.o.task = NoTask /\ ~x.o.closing
                /\ y.o.state = "Active" /\ y.o.session = x.o.session /\ y.o.sid = x.o.sid
                /\ y.o.nextId = x.o.nextId + 1 /\ y.o.task = [mode |-> "data", id |-> id]
                /\ y.o.closing = close /\ y.h.ended = x.h.ended
                /\ Sent(y.o, y.h) = Sent(x.o, x.h) + Len(a)
                /\ Late(y.o, y.h)
<1> DEFINE n == ChunkSize(x.o)
           a == SubSeq(x.o.sendbuf, 1, n)
           rest == AfterChunk(x.o)
           doClose == rest = <<>> /\ x.o.closePending
           id == [obj |-> c, n |-> x.o.nextId]
           sent == [o |-> [x.o EXCEPT !.sendbuf = rest,
                                !.closePending = @ /\ ~doClose,
                                !.closing = @ \/ doClose,
                                !.blockSize = Len(a),
                                !.task = [mode |-> "data", id |-> id],
                                !.nextId = @ + 1],
              h |-> [x.h EXCEPT !.over = @ \/ Len(x.o.sendbuf) > PacketSize],
              out |-> Append(x.out, SendData(id, x.o.sid, a, doClose))]
<1>1. y = sent /\ x.o.task = NoTask /\ (a # <<>> \/ doClose)
  BY DEF TrySend
<1>2. x.o \in Connection /\ x.h \in History
  BY Parts
<1>3. x.o.sendbuf \in Seq(Nat) /\ Len(x.o.sendbuf) \in Nat /\ x.h.written \in Nat
  BY <1>2 DEF Connection, History
<1>4. n \in Nat /\ n <= Len(x.o.sendbuf) /\ Len(x.o.sendbuf) - n \in Nat
  BY <1>3, SizeAssumption DEF ChunkSize
<1>5. a \in Seq(Nat) /\ Len(a) = n
  BY <1>3, <1>4, Prefix
<1>6. rest \in Seq(Nat) /\ Len(rest) = Len(x.o.sendbuf) - n
  BY <1>3, <1>4, Prefix, SMTT(30) DEF AfterChunk
<1>7. x.o.state = "Active" /\ x.o.session = x.o.session
  BY <1>1, TrySendParts
<1>8. ~x.o.closing
  <2>1. SUFFICES ASSUME x.o.closing PROVE FALSE
    OBVIOUS
  <2>2. x.o.sendbuf = <<>> /\ ~x.o.closePending
    BY <2>1 DEF Late
  <2>3. a = <<>>
    BY <1>3, <1>4, <1>5, <2>2
  <2> QED
    BY <1>1, <2>2, <2>3
<1> HIDE DEF a, rest, n, doClose
<1>9. /\ sent.o.session = x.o.session /\ sent.o.sid = x.o.sid /\ sent.o.state = x.o.state
      /\ sent.o.nextId = x.o.nextId + 1 /\ sent.o.task = [mode |-> "data", id |-> id]
      /\ sent.o.sendbuf = rest /\ sent.o.closing = (x.o.closing \/ doClose)
      /\ sent.o.closePending = (x.o.closePending /\ ~doClose)
  BY <1>2 DEF Connection
<1>10. /\ sent.h.written = x.h.written /\ sent.h.ended = x.h.ended
       /\ sent.out = Append(x.out, SendData(id, x.o.sid, a, doClose))
  BY <1>2 DEF History
<1>11. doClose \in BOOLEAN /\ (doClose => rest = <<>>)
  BY DEF doClose
<1> HIDE DEF sent
<1>12. y.o.closing = doClose
  BY <1>1, <1>8, <1>9, <1>11
<1>13. Late(y.o, y.h)
  BY <1>1, <1>7, <1>9, <1>11, <1>12 DEF Late
<1>14. Sent(y.o, y.h) = Sent(x.o, x.h) + Len(a)
  <2>1. \A W, L, N \in Nat : W - (L - N) = (W - L) + N
    OBVIOUS
  <2>2. Len(y.o.sendbuf) = Len(x.o.sendbuf) - Len(a) /\ y.h.written = x.h.written
    BY <1>1, <1>5, <1>6, <1>9, <1>10
  <2> QED
    BY <1>3, <1>4, <1>5, <2>1, <2>2 DEF Sent
<1>15. a \in Seq(Nat) /\ doClose \in BOOLEAN
  BY <1>5, <1>11
<1> USE <1>15
<1> WITNESS a \in Seq(Nat), doClose \in BOOLEAN
<1> QED
  BY <1>1, <1>7, <1>8, <1>9, <1>10, <1>12, <1>13, <1>14

\* trySend() does not send on a closing connection, nor before all has arrived.
LEMMA TrySendMoves ==
    ASSUME NEW c \in Obj, NEW q \in [Peer -> Seq(Stanza)], NEW x, Ready(c, q, x),
           Late(x.o, x.h)
    PROVE  Moves(c, q, x, TrySend(c, x))
<1> DEFINE y == TrySend(c, x)
<1>1. Half(x) /\ Loc(c, x.o, x.h) /\ x.o \in Connection /\ x.h \in History
      /\ x.out \in Seq(Stanza) /\ Sound(x.o, x.h)
  BY Parts DEF Ready
<1>2. CASE y = x
  BY <1>1, <1>2, MovesNot
<1>3. CASE y # x
  <2> DEFINE id == [obj |-> c, n |-> x.o.nextId]
  <2>1. Extends(c, q, x, y)
    BY TrySendKeepsReady
  <2> HIDE DEF y
  <2>2. PICK a \in Seq(Nat), close \in BOOLEAN :
            /\ y.out = Append(x.out, SendData(id, x.o.sid, a, close))
            /\ x.o.state = "Active" /\ x.o.task = NoTask /\ ~x.o.closing
            /\ y.o.state = "Active" /\ y.o.session = x.o.session /\ y.o.sid = x.o.sid
            /\ y.o.nextId = x.o.nextId + 1 /\ y.o.task = [mode |-> "data", id |-> id]
            /\ y.o.closing = close /\ y.h.ended = x.h.ended
            /\ Sent(y.o, y.h) = Sent(x.o, x.h) + Len(a)
            /\ Late(y.o, y.h)
    BY <1>1, <1>3, TrySendSent DEF y
  <2> DEFINE z == SendData(id, x.o.sid, a, close)
  <2>3. x.o.nextId \in Nat /\ x.o.sid \in Obj \cup {NoObj} /\ id \in IqId
    BY <1>1, FreshId DEF Connection
  <2>4. /\ z \in Stanza /\ z.type = "data" /\ z.id = id /\ z.sid = x.o.sid /\ z.data = a
        /\ z.close = close
    BY <2>3, StanzaTypes DEF SendData
  <2> HIDE DEF z
  <2>5. Follows(c, q, x, y, z)
    BY <1>1, <2>2, <2>4, WireAppend DEF z
  <2>6. Grown(Wire(c, q, x), z, Wire(c, q, y))
    BY <2>5, GrownIs DEF Follows
  <2>7. ASSUME NEW d \in Obj \ {c}, NEW k, NEW w, NEW r, NEW n \in Nat,
               Joined(c, d, k, w, r, n, q, x)
        PROVE  Joined(c, d, k, w, r, n, q, y)
    <3> DEFINE v == View(x.o, x.h, n)
               u == View(y.o, y.h, n)
    <3>1. Fit(v) /\ Fit(w) /\ Both(c, d, k, v, w, Wire(c, q, x), r)
      BY <1>1, <2>7, FitView DEF Joined
    <3>2. PICK got \in Seq(Nat) : Len(got) = w.got /\ Flow(c, k, got, q, x)
      BY <2>7 DEF Joined
    <3>3. w.got = Sent(x.o, x.h) /\ \A m \in Mine(c, k, Elems(Wire(c, q, x))) : m.data = <<>>
      BY <2>2, <3>2 DEF Flow, Carries, Counts, NoTask
    <3>4. On(c, k, z)
      BY <2>2, <2>4, <2>7 DEF On, Joined
    <3>5. \A m \in Elems(r) : m.id # z.id
      <4>1. \A m \in Elems(r) : m.id.obj = c => m.id.n \in 0..(x.o.nextId - 1)
        BY <2>7 DEF Joined
      <4>2. z.id.obj = c /\ z.id.n = x.o.nextId
        BY <2>4
      <4> QED
        BY <2>3, <4>1, <4>2
    <3>6. /\ v.state = "Active" /\ v.task = NoTask /\ ~v.closing /\ v.sent = Sent(x.o, x.h)
          /\ v.ended = x.h.ended /\ v.got = n /\ v.session = x.o.session
      BY <2>2 DEF View
    <3>7. /\ u.state = "Active" /\ u.task = [mode |-> "data", id |-> z.id] /\ u.closing = z.close
          /\ u.sent = Sent(x.o, x.h) + Len(z.data) /\ u.ended = x.h.ended /\ u.got = n
          /\ u.session = x.o.session
      BY <2>2, <2>4 DEF View
    <3> HIDE DEF u, v
    <3>8. SameToPeer(u, v)
      BY <3>6, <3>7 DEF SameToPeer
    <3>9. Both(c, d, k, u, w, Wire(c, q, y), r)
      <4> DEFINE W == Wire(c, q, x)
                 V == Wire(c, q, y)
      <4>1. c # d /\ w.got = v.sent /\ u.sent = v.sent + Len(z.data)
        BY <2>7, <3>3, <3>6, <3>7
      <4>2. /\ Grown(W, z, V) /\ Both(c, d, k, v, w, W, r)
            /\ \A m \in Mine(c, k, Elems(W)) : m.data = <<>>
        BY <2>6, <3>1, <3>3
      <4>3. z.data \in Seq(Nat) /\ z.close \in BOOLEAN
        BY <2>4
      <4> HIDE DEF W, V
      <4>4. Both(c, d, k, u, w, V, r)
        BY <3>1, <3>4, <3>5, <3>6, <3>7, <3>8, <4>1, <4>2, <4>3, SendBoth
      <4> QED
        BY <4>4 DEF V
    <3>10. Flow(c, k, got, q, y)
      BY <2>1, <3>2 DEF Extends
    <3>11. \A m \in Elems(r) : m.id.obj = c => m.id.n \in 0..(y.o.nextId - 1)
      BY <2>2, <2>3, <2>7 DEF Joined
    <3> QED
      BY <2>2, <2>7, <3>1, <3>2, <3>9, <3>10, <3>11 DEF Joined, u
  <2>8. \A l \in Elems(y.out) : l \in Elems(x.out) \/ Says(c, x, y, l)
    BY <2>2, <2>3, <2>4, <2>5 DEF Follows, Says
  <2>9. y.o.nextId >= x.o.nextId
    BY <2>2, <2>3
  <2>10. Moves(c, q, x, y)
    BY <2>2, <2>7, <2>8, <2>9 DEF Moves
  <2> QED
    BY <2>10 DEF y
<1> QED
  BY <1>2, <1>3

\* write() appends to the buffer first.
LEMMA WriteOpMoves ==
    ASSUME NEW c \in Obj, NEW q \in [Peer -> Seq(Stanza)], NEW x, Ready(c, q, x),
           Late(x.o, x.h), NEW n \in Nat
    PROVE  Moves(c, q, x, WriteOp(c, x, n))
<1> DEFINE buf == x.o.sendbuf \o [i \in 1..n |-> x.h.written + i]
           o2 == [x.o EXCEPT !.sendbuf = buf]
           h2 == [x.h EXCEPT !.written = @ + n]
           y == [x EXCEPT !.o.sendbuf = buf, !.h.written = @ + n]
<1>1. x.o \in Connection /\ x.h \in History /\ x.out \in Seq(Stanza) /\ Half(x)
      /\ Loc(c, x.o, x.h)
  BY Parts DEF Ready
<1>2. CASE ~CanWrite(x.o)
  BY <1>1, <1>2, MovesNot DEF WriteOp
<1>3. CASE CanWrite(x.o)
  <2>1. WriteOp(c, x, n) = TrySend(c, y)
    BY <1>3 DEF WriteOp
  <2>2. x.o.state = "Active" /\ ~x.o.closing
    BY <1>3 DEF CanWrite
  <2>3. x.o.sendbuf \in Seq(Nat) /\ x.h.written \in Nat
    BY <1>1 DEF Connection, History
  <2>4. [i \in 1..n |-> x.h.written + i] \in Seq(Nat)
        /\ Len([i \in 1..n |-> x.h.written + i]) = n
    BY <2>3
  <2>5. buf \in Seq(Nat) /\ Len(buf) = Len(x.o.sendbuf) + n
    BY <2>3, <2>4, ConcatProperties
  <2>6. o2 \in Connection
    <3> HIDE DEF buf
    <3> QED
      BY <1>1, <2>5 DEF Connection
  <2>7. h2 \in History
    <3>1. x.h.written + n \in Nat
      BY <2>3
    <3> QED
      BY <1>1, <3>1 DEF History
  <2>8. y \in Local /\ y.o = o2 /\ y.h = h2 /\ y.out = x.out
    <3> HIDE DEF buf
    <3> QED
      BY <1>1, <2>6, <2>7 DEF Half, Local
  <2>9. /\ o2.session = x.o.session /\ o2.sid = x.o.sid /\ o2.state = x.o.state
        /\ o2.nextId = x.o.nextId /\ o2.task = x.o.task /\ o2.sendbuf = buf
        /\ o2.recvbuf = x.o.recvbuf /\ o2.closePending = x.o.closePending
        /\ o2.closing = x.o.closing
    <3> HIDE DEF buf
    <3> QED
      BY <1>1 DEF Connection
  <2>10. /\ h2.written = x.h.written + n /\ h2.got = x.h.got /\ h2.over = x.h.over
         /\ h2.ended = x.h.ended /\ h2.read = x.h.read
    BY <1>1 DEF History
  <2>11. Sent(o2, h2) = Sent(x.o, x.h)
    <3>1. \A W, L, N \in Nat : (W + N) - (L + N) = W - L
      OBVIOUS
    <3> HIDE DEF o2, h2, buf
    <3>2. Len(x.o.sendbuf) \in Nat
      BY <2>3
    <3>3. Len(o2.sendbuf) = Len(x.o.sendbuf) + n /\ h2.written = x.h.written + n
      BY <2>5, <2>9, <2>10
    <3> QED
      BY <2>3, <3>1, <3>2, <3>3 DEF Sent
  <2> HIDE DEF y, o2, h2
  <2>12. Half(y)
    <3>1. Sound(o2, h2)
      BY <1>1, <2>2, <2>9, <2>10 DEF Half, Sound, Readable
    <3> QED
      BY <2>8, <3>1 DEF Half
  <2>13. y.o.sendbuf = x.o.sendbuf \o [i \in 1..n |-> x.h.written + i]
    BY <2>8, <2>9 DEF buf
  <2> HIDE DEF buf
  <2>14. Ready(c, q, y) /\ Extends(c, q, x, y)
    BY <2>2, <2>8, <2>9, <2>10, <2>12, <2>13, BufferKeepsReady
  <2>15. Late(y.o, y.h)
    BY <2>2, <2>8, <2>9 DEF Late
  <2>16. Moves(c, q, x, y)
    BY <1>1, <2>8, <2>9, <2>10, <2>11, <2>14, <2>15, SameViewMoves
  <2>17. Moves(c, q, y, TrySend(c, y)) /\ Half(TrySend(c, y))
    BY <2>14, <2>15, TrySendMoves, TrySendKeepsReady DEF Ready
  <2> QED
    BY <1>1, <2>1, <2>12, <2>16, <2>17, MovesTransitive
<1> QED
  BY <1>2, <1>3

\* The view of an end that has left the session.
Over(u, ending) == u.state = "Idle" /\ u.ended = ending /\ u.task = NoTask /\ ~u.closing

\* y is x after it has ended its session so.
Left(x, y, ending) ==
    /\ y.h.ended = ending /\ ~y.o.closing /\ y.o.task = NoTask /\ y.o.state = "Idle"
    /\ y.out = x.out /\ y.o.session = x.o.session /\ y.o.sid = x.o.sid
    /\ y.o.nextId = x.o.nextId /\ y.h.got = x.h.got
    /\ x.o.sendbuf = <<>> => Sent(y.o, y.h) = Sent(x.o, x.h)
    /\ Late(y.o, y.h)
    /\ \A n : Over(View(y.o, y.h, n), ending)
LEMMA ResetEnded ==
    ASSUME NEW x, Half(x), NEW clear, NEW ending \in Endings \ {"none"},
           NEW y, y = ResetEnding(x, clear, ending)
    PROVE  Left(x, y, ending)
<1>1. x.o \in Connection /\ x.h \in History
  BY Parts
<1>2. y = [x EXCEPT !.o = Reset(x.o, clear), !.h.ended = ending]
  BY DEF ResetEnding
<1>3. y.o = Reset(x.o, clear) /\ y.h = [x.h EXCEPT !.ended = ending]
  <2> DEFINE r == Reset(x.o, clear)
  <2> HIDE DEF r
  <2>1. y = [x EXCEPT !.o = r, !.h.ended = ending]
    BY <1>2 DEF r
  <2>2. x = [o |-> x.o, h |-> x.h, out |-> x.out]
    BY DEF Half, Local
  <2>3. y.o = r /\ y.h = [x.h EXCEPT !.ended = ending]
    BY <2>1, <2>2 DEF Half, Local
  <2> QED
    BY <2>3 DEF r
<1>4. y.h.ended = ending /\ ~y.o.closing
  BY <1>1, <1>3 DEF Reset, Connection, History
<1>5. /\ y.out = x.out /\ y.o.session = x.o.session /\ y.o.sid = x.o.sid
      /\ y.o.state = "Idle" /\ y.o.nextId = x.o.nextId /\ y.o.task = NoTask
      /\ y.o.sendbuf = <<>> /\ y.h.written = x.h.written /\ y.h.got = x.h.got
  BY ResetParts
<1>6. x.o.sendbuf = <<>> => Sent(y.o, y.h) = Sent(x.o, x.h)
  BY <1>5 DEF Sent
<1> QED
  BY <1>4, <1>5, <1>6 DEF Late, View, Over, Left

\* A method that ends the session.
LEMMA EndedMoves ==
    ASSUME NEW c \in Obj, NEW q \in [Peer -> Seq(Stanza)], NEW x, Ready(c, q, x),
           NEW y, Half(y), Extends(c, q, x, y), x.o.state # "Idle",
           y.o.state = "Idle", Late(y.o, y.h),
           x.o.state = "Requesting" => y.h.ended \in Leaving,
           x.o.state # "Requesting" => y.h.ended # "cancelled",
           y.o.nextId \in {x.o.nextId, x.o.nextId + 1},
           \A z \in Elems(y.out) : z \in Elems(x.out) \/ Says(c, x, y, z),
           \A d \in Obj \ {c} : \A k, w, r : \A n \in Nat :
              Joined(c, d, k, w, r, n, q, x) =>
                  Both(c, d, k, View(y.o, y.h, n), w, Wire(c, q, y), r)
    PROVE  Moves(c, q, x, y)
<1>1. x.o.nextId \in Nat
  BY Parts DEF Ready, Connection
<1>2. ASSUME NEW d \in Obj \ {c}, NEW k, NEW w, NEW r, NEW n \in Nat,
             Joined(c, d, k, w, r, n, q, x)
      PROVE  Joined(c, d, k, w, r, n, q, y)
  <2>1. \E got \in Seq(Nat) : Len(got) = w.got /\ Flow(c, k, got, q, y)
    BY <1>2 DEF Joined, Extends
  <2>2. \A m \in Elems(r) : m.id.obj = c => m.id.n \in 0..(y.o.nextId - 1)
    BY <1>1, <1>2 DEF Joined
  <2>3. Both(c, d, k, View(y.o, y.h, n), w, Wire(c, q, y), r)
    BY <1>2
  <2> QED
    BY <1>2, <2>1, <2>2, <2>3 DEF Joined
<1>3. y.o.session = x.o.session /\ y.o.sid = x.o.sid
  BY DEF Extends
<1>4. y.o.nextId >= x.o.nextId
  BY <1>1
<1> QED
  BY <1>2, <1>3, <1>4 DEF Moves

\* What a joined connection and its views are.
LEMMA JoinedParts ==
    ASSUME NEW c \in Obj, NEW q, NEW x, Ready(c, q, x), Late(x.o, x.h), NEW d, NEW k, NEW w, NEW r,
           NEW n \in Nat, Joined(c, d, k, w, r, n, q, x), NEW v, v = View(x.o, x.h, n)
    PROVE  /\ Fit(v) /\ Fit(w) /\ Both(c, d, k, v, w, Wire(c, q, x), r)
           /\ v.state = x.o.state /\ v.task = x.o.task /\ v.closing = x.o.closing
           /\ v.sent = Sent(x.o, x.h) /\ v.ended = x.h.ended /\ v.got = n
           /\ v.session = x.o.session
<1>1. x.o \in Connection /\ x.h \in History /\ Sound(x.o, x.h) /\ Loc(c, x.o, x.h)
  BY Parts DEF Ready
<1> QED
  BY <1>1, FitView DEF Joined, View

\* The request is withdrawn, or the connection deleted.
LEMMA LeaveMoves ==
    ASSUME NEW c \in Obj, NEW q \in [Peer -> Seq(Stanza)], NEW x, Ready(c, q, x),
           Late(x.o, x.h), x.o.state # "Idle", NEW clear, NEW ending \in Leaving,
           ending = "cancelled" => x.o.state = "Requesting",
           NEW y, y = ResetEnding(x, clear, ending), Half(y)
    PROVE  Moves(c, q, x, y)
<1>1. ending \in Endings \ {"none"}
  BY DEF Leaving, Endings
<1>2. Extends(c, q, x, y) /\ Half(x)
  BY ResetKeepsReady DEF Ready
<1>3. /\ Late(y.o, y.h) /\ y.o.state = "Idle" /\ y.out = x.out /\ y.o.nextId = x.o.nextId
      /\ y.h.ended = ending
      /\ \A n : Over(View(y.o, y.h, n), ending)
  <2>1. Left(x, y, ending)
    BY <1>1, <1>2, ResetEnded
  <2> QED
    BY <2>1 DEF Left
<1>4. Wire(c, q, y) = Wire(c, q, x)
  BY <1>3 DEF Wire
<1>5. ASSUME NEW d \in Obj \ {c}, NEW k, NEW w, NEW r, NEW n \in Nat,
             Joined(c, d, k, w, r, n, q, x)
      PROVE  Both(c, d, k, View(y.o, y.h, n), w, Wire(c, q, y), r)
  <2> DEFINE v == View(x.o, x.h, n)
             u == View(y.o, y.h, n)
  <2>1. Fit(v) /\ Fit(w) /\ Both(c, d, k, v, w, Wire(c, q, x), r) /\ v.state # "Idle"
    BY <1>5, JoinedParts
  <2>2. u.state = "Idle" /\ u.ended \in Leaving /\ u.task = NoTask /\ ~u.closing
    BY <1>3 DEF Over
  <2> HIDE DEF u, v
  <2>3. Both(c, d, k, u, w, Wire(c, q, x), r)
    BY <2>1, <2>2, LeaveBoth
  <2> QED
    BY <1>4, <2>3 DEF u
<1> QED
  BY <1>2, <1>3, <1>5, EndedMoves

\* A request is refused to the connection that made it.
LEMMA DeclineMoves ==
    ASSUME NEW c \in Obj, NEW q \in [Peer -> Seq(Stanza)], NEW x, Ready(c, q, x),
           Late(x.o, x.h), x.o.state = "WaitingForAccept",
           NEW x2, Half(x2), x2.o = x.o, x2.h = x.h, x2.out = Append(x.out, Error(x.o.session)),
           NEW clear, NEW y, y = ResetEnding(x2, clear, "local"), Half(y), Extends(c, q, x, y)
    PROVE  Moves(c, q, x, y)
<1> DEFINE z == Error(x.o.session)
<1>1. Half(x) /\ x.o \in Connection /\ x.out \in Seq(Stanza) /\ x.o.session # NoId
  BY Parts DEF Ready, Sound
<1>2. z \in Stanza /\ z.type = "error"
  BY <1>1, StanzaTypes DEF Connection, Error
<1>3. x.o.sendbuf = <<>>
  BY DEF Ready, Loc, Fresh
<1>4. "local" \in Endings \ {"none"}
  BY DEF Endings
<1>5. /\ Late(y.o, y.h) /\ y.o.state = "Idle" /\ y.out = x2.out /\ y.o.nextId = x.o.nextId
      /\ y.h.ended = "local"
      /\ Sent(y.o, y.h) = Sent(x.o, x.h)
      /\ \A n : Over(View(y.o, y.h, n), "local")
  <2>1. Left(x2, y, "local")
    BY <1>4, ResetEnded
  <2> QED
    BY <1>3, <2>1 DEF Left, Sent
<1> HIDE DEF z
<1>6. Follows(c, q, x, y, z)
  BY <1>1, <1>2, <1>5, WireAppend DEF z
<1>7. Grown(Wire(c, q, x), z, Wire(c, q, y))
  BY <1>6, GrownIs DEF Follows
<1>8. ASSUME NEW d \in Obj \ {c}, NEW k, NEW w, NEW r, NEW n \in Nat,
             Joined(c, d, k, w, r, n, q, x)
      PROVE  Both(c, d, k, View(y.o, y.h, n), w, Wire(c, q, y), r)
  <2> DEFINE v == View(x.o, x.h, n)
             u == View(y.o, y.h, n)
             W == Wire(c, q, x)
             V == Wire(c, q, y)
  <2>1. /\ Fit(v) /\ Fit(w) /\ Both(c, d, k, v, w, W, r)
        /\ v.state = "WaitingForAccept" /\ v.sent = Sent(x.o, x.h)
    BY <1>8, JoinedParts
  <2>2. u.state = "Idle" /\ u.ended = "local" /\ u.task = NoTask /\ ~u.closing /\ u.sent = v.sent
    <3>1. u.sent = Sent(y.o, y.h)
      BY DEF View
    <3> QED
      BY <1>5, <2>1, <3>1 DEF Over
  <2>3. \A m \in Elems(W) : ~Answer(m, w.session)
    BY <1>8 DEF Joined
  <2>4. Grown(W, z, V)
    BY <1>7
  <2> HIDE DEF u, v, W, V
  <2>5. Both(c, d, k, u, w, V, r)
    BY <1>2, <2>1, <2>2, <2>3, <2>4, DeclineBoth
  <2> QED
    BY <2>5 DEF u, V
<1>9. \A l \in Elems(y.out) : l \in Elems(x.out) \/ Says(c, x, y, l)
  BY <1>5, <1>6 DEF Follows, Says, z
<1> QED
  BY <1>5, <1>8, <1>9, EndedMoves

\* close() with nothing to send says so.
LEMMA CloseMoves ==
    ASSUME NEW c \in Obj, NEW q \in [Peer -> Seq(Stanza)], NEW x, Ready(c, q, x),
           Late(x.o, x.h), x.o.state = "Active", x.o.sendbuf = <<>>,
           NEW z, Chunk(c, x, z, <<>>, TRUE), z \in Stanza,
           NEW x2, Half(x2), x2.h = x.h, x2.out = Append(x.out, z),
           x2.o.sendbuf = x.o.sendbuf, x2.o.nextId = x.o.nextId + 1,
           NEW clear, NEW y, y = ResetEnding(x2, clear, "local"), Half(y), Extends(c, q, x, y)
    PROVE  Moves(c, q, x, y)
<1>1. Half(x) /\ x.o \in Connection /\ x.out \in Seq(Stanza) /\ x.o.nextId \in Nat
  BY Parts DEF Ready, Connection
<1>2. /\ z.type = "data" /\ z.id = [obj |-> c, n |-> x.o.nextId] /\ z.sid = x.o.sid
      /\ z.data = <<>> /\ z.close
  BY DEF Chunk, SendData
<1>3. "local" \in Endings \ {"none"} /\ Sent(x2.o, x2.h) = Sent(x.o, x.h)
  BY DEF Endings, Sent
<1>4. /\ Late(y.o, y.h) /\ y.o.state = "Idle" /\ y.out = x2.out /\ y.o.nextId = x.o.nextId + 1
      /\ y.h.ended = "local"
      /\ Sent(y.o, y.h) = Sent(x.o, x.h)
      /\ \A n : Over(View(y.o, y.h, n), "local")
  <2>1. Left(x2, y, "local")
    BY <1>3, ResetEnded
  <2> QED
    BY <1>3, <2>1 DEF Left
<1>5. Follows(c, q, x, y, z)
  BY <1>1, <1>4, WireAppend
<1>6. Grown(Wire(c, q, x), z, Wire(c, q, y))
  BY <1>5, GrownIs DEF Follows
<1>7. ASSUME NEW d \in Obj \ {c}, NEW k, NEW w, NEW r, NEW n \in Nat,
             Joined(c, d, k, w, r, n, q, x)
      PROVE  Both(c, d, k, View(y.o, y.h, n), w, Wire(c, q, y), r)
  <2> DEFINE v == View(x.o, x.h, n)
             u == View(y.o, y.h, n)
             W == Wire(c, q, x)
             V == Wire(c, q, y)
  <2>1. /\ Fit(v) /\ Fit(w) /\ Both(c, d, k, v, w, W, r)
        /\ v.state = "Active" /\ v.sent = Sent(x.o, x.h)
    BY <1>7, JoinedParts
  <2>2. u.state = "Idle" /\ u.ended = "local" /\ u.task = NoTask /\ ~u.closing /\ u.sent = v.sent
    <3>1. u.sent = Sent(y.o, y.h)
      BY DEF View
    <3> QED
      BY <1>4, <2>1, <3>1 DEF Over
  <2>3. On(c, k, z) /\ c # d
    BY <1>2, <1>7 DEF On, Joined
  <2>4. Grown(W, z, V)
    BY <1>6
  <2> HIDE DEF u, v, W, V
  <2>5. Both(c, d, k, u, w, V, r)
    BY <1>2, <2>1, <2>2, <2>3, <2>4, CloseBoth
  <2> QED
    BY <2>5 DEF u, V
<1>8. \A l \in Elems(y.out) : l \in Elems(x.out) \/ Says(c, x, y, l)
  BY <1>1, <1>2, <1>5 DEF Follows, Says
<1> QED
  BY <1>4, <1>7, <1>8, EndedMoves

\* The close was acknowledged: finished.
LEMMA FinishMoves ==
    ASSUME NEW c \in Obj, NEW q \in [Peer -> Seq(Stanza)], NEW x, Ready(c, q, x),
           Late(x.o, x.h), x.o.closing, NEW clear,
           NEW y, y = ResetEnding(x, clear, "finished"), Half(y)
    PROVE  Moves(c, q, x, y)
<1>1. "finished" \in Endings \ {"none"}
  BY DEF Endings
<1>2. Extends(c, q, x, y) /\ Half(x) /\ x.o.state = "Active" /\ x.o.sendbuf = <<>>
  BY ResetKeepsReady DEF Ready, Late
<1>3. Left(x, y, "finished")
  BY <1>1, <1>2, ResetEnded
<1>4. Wire(c, q, y) = Wire(c, q, x)
  BY <1>3 DEF Wire, Left
<1>5. ASSUME NEW d \in Obj \ {c}, NEW k, NEW w, NEW r, NEW n \in Nat,
             Joined(c, d, k, w, r, n, q, x)
      PROVE  Both(c, d, k, View(y.o, y.h, n), w, Wire(c, q, y), r)
  <2> DEFINE v == View(x.o, x.h, n)
             u == View(y.o, y.h, n)
  <2>1. /\ Fit(v) /\ Fit(w) /\ Both(c, d, k, v, w, Wire(c, q, x), r) /\ v.closing
        /\ v.sent = Sent(x.o, x.h)
    BY <1>5, JoinedParts
  <2>2. u.sent = Sent(x.o, x.h)
    <3>1. u.sent = Sent(y.o, y.h)
      BY DEF View
    <3> QED
      BY <1>2, <1>3, <3>1 DEF Left
  <2>3. u.state = "Idle" /\ u.ended = "finished" /\ u.task = NoTask /\ ~u.closing
    BY <1>3 DEF Left, Over
  <2> HIDE DEF u, v
  <2>4. Both(c, d, k, u, w, Wire(c, q, x), r)
    BY <2>1, <2>2, <2>3, FinishBoth
  <2> QED
    BY <1>4, <2>4 DEF u
<1> QED
  BY <1>2, <1>3, <1>5, EndedMoves DEF Left

\* close(), in each of its states.
LEMMA CloseOpMoves ==
    ASSUME PInv, NEW c \in Obj, NEW q \in [Peer -> Seq(Stanza)], NEW x, Ready(c, q, x),
           Late(x.o, x.h)
    PROVE  Moves(c, q, x, CloseOp(c, x))
<1>1. x.o \in Connection /\ x.h \in History /\ x.out \in Seq(Stanza) /\ Half(x)
  BY Parts DEF Ready
<1>2. CASE x.o.state = "Idle"
  BY <1>1, <1>2, MovesNot DEF CloseOp
<1>3. Half(CloseOp(c, x)) /\ Extends(c, q, x, CloseOp(c, x))
  BY CloseOpKeepsReady DEF Ready
<1>4. CASE x.o.state = "WaitingForAccept"
  <2> DEFINE z == Error(x.o.session)
             y == [x EXCEPT !.out = Append(@, z)]
  <2>1. x.o.session \in IqId
    BY <1>1, <1>4 DEF Half, Sound, Connection
  <2>2. Half(y) /\ y.o = x.o /\ y.h = x.h /\ y.out = Append(x.out, z)
    BY <1>1, <2>1, OutHalf, StanzaTypes DEF Half, Local
  <2>3. CloseOp(c, x) = ResetEnding(y, FALSE, "local")
    BY <1>4 DEF CloseOp
  <2> HIDE DEF y
  <2> QED
    BY <1>3, <1>4, <2>2, <2>3, DeclineMoves
<1>5. CASE x.o.state = "Requesting"
  <2>1. CloseOp(c, x) = ResetEnding(x, FALSE, "cancelled")
    BY <1>5 DEF CloseOp
  <2>2. "cancelled" \in Leaving
    BY DEF Leaving
  <2> QED
    BY <1>3, <1>5, <2>1, <2>2, LeaveMoves
<1>6. CASE x.o.state = "Active" /\ x.o.sendbuf # <<>>
  <2> DEFINE o2 == [x.o EXCEPT !.closePending = TRUE]
             y == [x EXCEPT !.o.closePending = TRUE]
  <2>1. CloseOp(c, x) = TrySend(c, y)
    BY <1>6 DEF CloseOp
  <2>2. o2 \in Connection /\ Sound(o2, x.h)
    BY <1>1, <1>6 DEF Connection, Half, Sound, Readable, Abandoned
  <2>3. y \in Local /\ y.o = o2 /\ y.h = x.h /\ y.out = x.out
    BY <1>1, <2>2 DEF Half, Local
  <2>4. /\ o2.session = x.o.session /\ o2.sid = x.o.sid /\ o2.state = x.o.state
        /\ o2.nextId = x.o.nextId /\ o2.task = x.o.task /\ o2.sendbuf = x.o.sendbuf
        /\ o2.closing = x.o.closing
    BY <1>1 DEF Connection
  <2> HIDE DEF o2, y
  <2>5. Half(y)
    BY <2>2, <2>3 DEF Half
  <2>6. Ready(c, q, y) /\ Extends(c, q, x, y)
    BY <1>6, <2>3, <2>4, <2>5, FlagKeepsReady
  <2>7. Late(y.o, y.h)
    BY <1>6, <2>3, <2>4 DEF Late
  <2>8. Sent(y.o, y.h) = Sent(x.o, x.h)
    BY <2>3, <2>4 DEF Sent
  <2>9. Moves(c, q, x, y)
    BY <1>1, <2>3, <2>4, <2>6, <2>7, <2>8, SameViewMoves
  <2>10. Moves(c, q, y, TrySend(c, y))
    BY <2>6, <2>7, TrySendMoves
  <2> QED
    BY <1>1, <1>3, <2>1, <2>5, <2>9, <2>10, MovesTransitive
<1>7. CASE x.o.state = "Active" /\ x.o.sendbuf = <<>>
  <2> DEFINE id == [obj |-> c, n |-> x.o.nextId]
             o2 == [x.o EXCEPT !.nextId = @ + 1]
             z == SendData(id, x.o.sid, <<>>, TRUE)
             y == [x EXCEPT !.o.nextId = @ + 1, !.out = Append(@, z)]
  <2>1. CloseOp(c, x) = ResetEnding(y, FALSE, "local")
    BY <1>7 DEF CloseOp
  <2>2. o2 \in Connection /\ Sound(o2, x.h)
    <3>1. x.o.nextId + 1 \in Nat
      BY <1>1 DEF Connection
    <3>2. o2 \in Connection
      BY <1>1, <3>1 DEF Connection
    <3>3. /\ o2.state = x.o.state /\ o2.session = x.o.session /\ o2.recvbuf = x.o.recvbuf
          /\ o2.task = x.o.task /\ o2.sendbuf = x.o.sendbuf
          /\ o2.closePending = x.o.closePending
      BY <1>1 DEF Connection
    <3> HIDE DEF o2
    <3>4. Sound(o2, x.h)
      BY <1>1, <3>3 DEF Half, Sound, Readable
    <3> QED
      BY <3>2, <3>4
  <2>3. id \in IqId /\ x.o.sid \in Obj \cup {NoObj} /\ <<>> \in Seq(Nat)
    BY <1>1 DEF IqId, Connection
  <2>4. z \in Stanza /\ Chunk(c, x, z, <<>>, TRUE)
    BY <2>3, StanzaTypes DEF Chunk
  <2>5. y \in Local /\ y.o = o2 /\ y.h = x.h /\ y.out = Append(x.out, z)
    <3> HIDE DEF z
    <3>1. Append(x.out, z) \in Seq(Stanza)
      BY <1>1, <2>4
    <3> QED
      BY <1>1, <2>2, <3>1 DEF Half, Local
  <2>6. o2.nextId = x.o.nextId + 1 /\ o2.sendbuf = x.o.sendbuf
    BY <1>1 DEF Connection
  <2> HIDE DEF o2, y, z
  <2>7. Half(y)
    BY <2>2, <2>5 DEF Half
  <2> QED
    BY <1>3, <1>7, <2>1, <2>4, <2>5, <2>6, <2>7, CloseMoves
<1> QED
  BY <1>1, <1>2, <1>4, <1>5, <1>6, <1>7 DEF Connection, States

\* Whatever the application calls from inside a signal.
LEMMA ReactMoves ==
    ASSUME PInv, NEW c \in Obj, NEW q \in [Peer -> Seq(Stanza)], NEW x, Ready(c, q, x),
           Late(x.o, x.h), NEW r \in Reaction(c)
    PROVE  Moves(c, q, x, React(c, x, r))
<1>1. r.call \in {"nothing", "close", "write"} /\ r.n \in Nat /\ Half(x)
  BY SizeAssumption DEF Reaction, Ready
<1>2. CASE r.call = "nothing"
  BY <1>1, <1>2, MovesNot DEF React
<1>3. CASE r.call = "close"
  BY <1>3, CloseOpMoves DEF React
<1>4. CASE r.call = "write"
  BY <1>1, <1>4, WriteOpMoves DEF React
<1> QED
  BY <1>1, <1>2, <1>3, <1>4

----------------------------------------------------------------------------
(* The invariant: every pair of ends, and what the stanzas say of states.  *)
ViewOf(c) == View(conn[c], hist[c], Len(hist[c].got))

Tells(m) ==
    /\ m.type = "data" =>
        /\ \A k \in Pool : conn[k].session # m.id
        /\ m.id.obj \in Initiators => conn[m.sid].state # "WaitingForAccept"
    /\ m.type = "result" /\ m.sid # NoObj => conn[m.sid].state # "WaitingForAccept"
    /\ m.type = "error" =>
        \A k \in Pool : conn[k].session = m.id =>
            conn[k].state = "Idle" /\ hist[k].ended # "dataError"
    /\ m.type = "request" /\ conn[m.id.obj].session = m.id =>
        conn[m.id.obj].state = "Requesting" \/ hist[m.id.obj].ended \in Leaving

\* A request that is on its way has not been refused.
Apart == \A p, r \in Peer : \A m \in Elems(net[p]), l \in Elems(net[r]) :
    m.type = "request" /\ l.type = "error" => m.id # l.id

Together == \A c, d \in Obj : SameStream(c, d) =>
    Both(c, d, Sid(c, d), ViewOf(c), ViewOf(d), net[Home[d]], net[Home[c]])

AInv ==
    /\ PInv
    /\ \A c \in Obj : Late(conn[c], hist[c])
    /\ \A p \in Peer : \A m \in Elems(net[p]) : Tells(m)
    /\ Apart
    /\ Together

\* What c may send in a step that leaves it as x.
Spoken(c, x, z) ==
    \/ /\ z.type = "request" /\ z.id = x.o.session /\ x.o.session # conn[c].session
       /\ x.o.state = "Requesting"
    \/ /\ z.type = "data" /\ z.id.obj = c /\ z.id.n \in Nat /\ z.id.n >= conn[c].nextId
       /\ conn[c].state = "Active" /\ z.sid = conn[c].sid
    \/ z.type = "result" /\ z.sid = NoObj /\ \A k \in Pool : conn[k].session # z.id
    \/ z.type = "result" /\ z.sid = c /\ x.o.state = "Active" /\ z.id = conn[c].session
    \/ /\ z.type = "error" /\ z.id = conn[c].session /\ conn[c].state = "WaitingForAccept"
       /\ x.o.state = "Idle" /\ x.h.ended = "local"

\* How the session of c may go on, or another begin.
Turns(c, x) ==
    /\ Half(x) /\ Late(x.o, x.h)
    /\ c \in Pool => x.o.session = conn[c].session
    /\ x.o.state = "WaitingForAccept" => conn[c].state = "WaitingForAccept"
    /\ x.o.session = conn[c].session =>
        /\ conn[c].state = "Idle" => x.o.state = "Idle" /\ x.h.ended = hist[c].ended
        /\ conn[c].state = "Requesting" =>
              \/ x.o.state = "Requesting" \/ x.h.ended \in Leaving
              \/ \A p \in Peer : \A l \in Elems(net[p]) :
                    l.type = "request" => l.id # conn[c].session
    /\ x.o.session # conn[c].session =>
        /\ x.o.session.obj = c /\ x.o.session.n \in Nat /\ x.o.session.n >= conn[c].nextId
        /\ \A d \in Obj : conn[d].session # x.o.session

Became(c, x) ==
    /\ conn'[c] = x.o /\ hist'[c] = x.h
    /\ \A a \in Obj \ {c} : conn'[a] = conn[a] /\ hist'[a] = hist[a]

\* Committing a record sets the one connection.
LEMMA CommitBecame ==
    ASSUME PInv, NEW c \in Obj, NEW q, NEW x, Commit(c, x, q)
    PROVE  Became(c, x)
  BY DEF Commit, Became, PInv, IInv, TypeOK

\* The numbers of the ids on the wire are below the counters.
LEMMA OnWire ==
    ASSUME PInv, NEW p \in Peer, NEW m \in Elems(net[p])
    PROVE  /\ m \in Stanza /\ m.id \in IqId /\ m.id.obj \in Obj /\ m.id.n \in Nat
           /\ m.id.n < conn[m.id.obj].nextId /\ conn[m.id.obj].nextId \in Nat
           /\ Valid(m, p)
<1>1. net[p] \in Seq(Stanza) /\ Valid(m, p)
  BY DEF PInv, IInv, TypeOK
<1>2. m \in Stanza
  BY <1>1, ElemsType
<1>3. m.id \in IqId /\ m.id.obj \in Obj /\ m.id.n \in Nat
  BY <1>2 DEF Stanza, IqId
<1>4. conn[m.id.obj].nextId \in Nat
  BY <1>3 DEF PInv, IInv, TypeOK, Connection
<1> QED
  BY <1>1, <1>2, <1>3, <1>4 DEF Valid, Owned

\* The id of an accepted request is older than what its client sends now.
LEMMA AcceptedId ==
    ASSUME PInv, NEW k \in Pool, conn[k].session # NoId
    PROVE  LET e == conn[k].session.obj
           IN  /\ e \in Initiators /\ conn[k].session.n \in Nat
               /\ conn[k].session.n < conn[e].nextId /\ conn[e].nextId \in Nat
<1> DEFINE e == conn[k].session.obj
<1>1. e \in Initiators /\ conn[e].session # NoId /\ conn[k].session.n <= conn[e].session.n
  BY DEF PInv, Sessions
<1>2. e \in Obj /\ k \in Obj
  BY <1>1 DEF Obj
<1>3. conn[e] \in Connection /\ conn[k] \in Connection /\ Loc(e, conn[e], hist[e])
  BY <1>2 DEF PInv, IInv, TypeOK
<1>4. conn[e].session \in IqId /\ conn[k].session \in IqId /\ conn[e].nextId \in Nat
  BY <1>1, <1>3 DEF Connection
<1>5. conn[e].session.n \in Nat /\ conn[k].session.n \in Nat
  BY <1>4 DEF IqId
<1>6. conn[e].session.n < conn[e].nextId
  BY <1>1, <1>3 DEF Loc
<1> QED
  BY <1>1, <1>4, <1>5, <1>6

\* What a stanza on the wire says stays true.
LEMMA StillTells ==
    ASSUME AInv, NEW c \in Obj, NEW x, Turns(c, x), Became(c, x),
           NEW p \in Peer, NEW m \in Elems(net[p])
    PROVE  Tells(m)'
<1>1. Tells(m) /\ Valid(m, p) /\ m.id.obj \in Obj /\ PInv
  BY OnWire DEF AInv
<1>2. \A k \in Pool : conn'[k].session = conn[k].session
  BY DEF Turns, Became, Obj
<1>3. m.type = "data" => \A k \in Pool : conn'[k].session # m.id
  BY <1>1, <1>2 DEF Tells
<1>4. \A k \in Obj : conn'[k].state = "WaitingForAccept" => conn[k].state = "WaitingForAccept"
  BY DEF Turns, Became
<1>5. /\ m.type = "data" => m.sid \in Obj
      /\ m.type = "result" /\ m.sid # NoObj => m.sid \in Obj
  BY <1>1 DEF Valid, Static, Route, Obj
<1>6. /\ m.type = "data" /\ m.id.obj \in Initiators => conn'[m.sid].state # "WaitingForAccept"
      /\ m.type = "result" /\ m.sid # NoObj => conn'[m.sid].state # "WaitingForAccept"
  BY <1>1, <1>4, <1>5 DEF Tells
<1>7. ASSUME m.type = "error", NEW k \in Pool, conn'[k].session = m.id
      PROVE  conn'[k].state = "Idle" /\ hist'[k].ended # "dataError"
  <2>1. conn[k].state = "Idle" /\ hist[k].ended # "dataError"
    BY <1>1, <1>2, <1>7 DEF Tells
  <2> QED
    BY <1>2, <2>1 DEF Turns, Became, Obj
<1>8. ASSUME m.type = "request", conn'[m.id.obj].session = m.id
      PROVE  conn'[m.id.obj].state = "Requesting" \/ hist'[m.id.obj].ended \in Leaving
  <2> DEFINE e == m.id.obj
  <2>1. CASE e # c
    BY <1>1, <1>8, <2>1 DEF Tells, Became
  <2>2. CASE e = c /\ x.o.session = conn[c].session
    <3>1. conn[c].session = m.id
      BY <1>8, <2>2 DEF Became
    <3>2. conn[c].state = "Requesting" \/ hist[c].ended \in Leaving
      BY <1>1, <1>8, <2>2, <3>1 DEF Tells
    <3>3. conn[c].state # "Idle" => hist[c].ended = "none"
      BY <1>1 DEF PInv, IInv, Sound
    <3> QED
      BY <1>8, <2>2, <3>1, <3>2, <3>3 DEF Turns, Became, Leaving
  <2>3. CASE e = c /\ x.o.session # conn[c].session
    <3>1. m.id = x.o.session
      BY <1>8, <2>3 DEF Became
    <3>2. m.id.n < conn[c].nextId /\ m.id.n \in Nat /\ conn[c].nextId \in Nat
      BY <1>1, <2>3, OnWire
    <3>3. m.id.n >= conn[c].nextId
      BY <2>3, <3>1 DEF Turns
    <3> QED
      BY <3>2, <3>3
  <2> QED
    BY <2>1, <2>2, <2>3
<1> QED
  BY <1>3, <1>6, <1>7, <1>8 DEF Tells

\* So does what c sends.
LEMMA NewTells ==
    ASSUME AInv, NEW c \in Obj, NEW x, Turns(c, x), Became(c, x), NEW m, Spoken(c, x, m)
    PROVE  Tells(m)'
<1>1. PInv /\ \A k \in Pool : conn'[k].session = conn[k].session
  BY DEF Turns, Became, Obj, AInv
<1>2. Sound(conn[c], hist[c]) /\ Loc(c, conn[c], hist[c]) /\ Linked(c, conn[c])
      /\ conn[c] \in Connection
  BY <1>1 DEF PInv, IInv, Sessions, TypeOK
<1>3. ASSUME m.type = "data"
      PROVE  /\ \A k \in Pool : conn[k].session # m.id
             /\ m.id.obj \in Initiators => conn'[m.sid].state # "WaitingForAccept"
  <2>1. m.id.obj = c /\ m.id.n \in Nat /\ m.id.n >= conn[c].nextId /\ conn[c].state = "Active"
        /\ m.sid = conn[c].sid /\ conn[c].session # NoId
    BY <1>2, <1>3 DEF Spoken, Sound
  <2>2. ASSUME NEW k \in Pool, conn[k].session = m.id PROVE FALSE
    <3>1. conn[k].session # NoId
      BY <2>1, <2>2, ObjAssumption DEF NoId
    <3>2. m.id.n < conn[c].nextId /\ conn[c].nextId \in Nat
      BY <1>1, <2>1, <2>2, <3>1, AcceptedId
    <3> QED
      BY <2>1, <3>2
  <2>3. ASSUME c \in Initiators, conn'[m.sid].state = "WaitingForAccept" PROVE FALSE
    <3> DEFINE k == m.sid
    <3>1. k \in Pool /\ k \in Obj /\ k # c /\ conn[k].session = conn[c].session
      BY <1>2, <2>1, <2>3, ObjAssumption DEF Linked, Obj
    <3>2. conn[k].state = "WaitingForAccept"
      BY <2>3, <3>1 DEF Became
    <3>3. SameStream(k, c)
      BY <2>1, <3>1 DEF SameStream
    <3>4. Awaited(ViewOf(k), ViewOf(c))
      BY <3>1, <3>3 DEF AInv, Together, Both, Pair
    <3>5. hist[c].ended \in Leaving
      BY <2>1, <3>2, <3>4 DEF Awaited, ViewOf, View
    <3> QED
      BY <1>2, <2>1, <3>5 DEF Sound, Leaving
  <2> QED
    BY <2>1, <2>2, <2>3
<1>4. m.type = "result" /\ m.sid # NoObj => conn'[m.sid].state # "WaitingForAccept"
  BY DEF Spoken, Became
<1>5. ASSUME m.type = "error", NEW k \in Pool, conn'[k].session = m.id
      PROVE  conn'[k].state = "Idle" /\ hist'[k].ended # "dataError"
  <2>1. m.id = conn[c].session /\ conn[c].state = "WaitingForAccept" /\ x.o.state = "Idle"
        /\ x.h.ended = "local"
    BY <1>5 DEF Spoken
  <2>2. c \in Pool /\ conn[c].session # NoId
    BY <1>2, <2>1 DEF Loc, Sound, Obj
  <2>3. k = c
    BY <1>1, <1>5, <2>1, <2>2 DEF PInv, Sessions
  <2> QED
    BY <2>1, <2>3 DEF Became
<1>6. ASSUME m.type = "request", conn'[m.id.obj].session = m.id
      PROVE  conn'[m.id.obj].state = "Requesting"
  <2>1. m.id = x.o.session /\ x.o.session # conn[c].session /\ x.o.state = "Requesting"
    BY <1>6 DEF Spoken
  <2> QED
    BY <2>1 DEF Turns, Became
<1> QED
  BY <1>1, <1>3, <1>4, <1>5, <1>6 DEF Tells

\* No request that is on its way has been refused.
LEMMA CommitApart ==
    ASSUME AInv, NEW c \in Obj, NEW q, Taken(q), NEW x, Turns(c, x), Commit(c, x, q),
           \A z \in Elems(x.out) : Spoken(c, x, z)
    PROVE  Apart'
<1>1. PInv /\ Half(x)
  BY DEF AInv, Turns
<1>2. \A p \in Peer : Elems(net'[p]) \subseteq Elems(net[p]) \cup Elems(x.out)
  BY <1>1, Queues
<1> SUFFICES ASSUME NEW p \in Peer, NEW r \in Peer, NEW m \in Elems(net'[p]),
                    NEW l \in Elems(net'[r]), m.type = "request", l.type = "error", m.id = l.id
             PROVE  FALSE
  BY DEF Apart
<1>3. l \in Elems(x.out) =>
        /\ l.id = conn[c].session /\ conn[c].state = "WaitingForAccept"
        /\ c \in Pool
  <2>1. l \in Elems(x.out) => l.id = conn[c].session /\ conn[c].state = "WaitingForAccept"
    BY DEF Spoken
  <2>2. Loc(c, conn[c], hist[c])
    BY <1>1 DEF PInv
  <2> QED
    BY <2>1, <2>2 DEF Loc, Obj
<1>4. m \in Elems(x.out) =>
        /\ m.id = x.o.session /\ x.o.session # conn[c].session
        /\ m.id.obj = c /\ m.id.n \in Nat /\ m.id.n >= conn[c].nextId
  BY DEF Spoken, Turns
<1>5. CASE m \in Elems(net[p]) /\ l \in Elems(net[r])
  BY <1>5 DEF AInv, Apart
<1>6. CASE m \in Elems(net[p]) /\ l \in Elems(x.out)
  <2>1. Valid(m, p)
    BY <1>1, <1>6 DEF PInv
  <2> QED
    BY <1>3, <1>6, <2>1 DEF Valid, Static
<1>7. CASE m \in Elems(x.out) /\ l \in Elems(net[r])
  <2>1. l.id.n < conn[l.id.obj].nextId /\ conn[l.id.obj].nextId \in Nat
    BY <1>1, <1>7, OnWire
  <2> QED
    BY <1>4, <1>7, <2>1
<1>8. CASE m \in Elems(x.out) /\ l \in Elems(x.out)
  BY <1>3, <1>4, <1>8
<1> QED
  BY <1>2, <1>5, <1>6, <1>7, <1>8

\* q is net, or lacks the first stanza for the client of c, which is m.
Took(c, q, m) ==
    \/ q = net
    \/ net[Home[c]] # <<>> /\ m = Head(net[Home[c]]) /\ q = Popped(Home[c])
\* m is of no concern to streams that c is not in.
Alien(c, m) ==
    \A a, b \in Obj \ {c} : SameStream(a, b) =>
        /\ ~On(a, Sid(a, b), m) /\ ~On(b, Sid(a, b), m)
        /\ conn[b].state = "Requesting" => ~Answer(m, conn[b].session)

\* Both ends name the stream alike.
LEMMA SidSymmetric ==
    ASSUME PInv, NEW a \in Obj, NEW b \in Obj, SameStream(a, b)
    PROVE  Sid(b, a) = Sid(a, b) /\ SameStream(b, a)
  BY Ends, ObjAssumption DEF Sid, SameStream

\* The queues, as those who are not concerned see them.
LEMMA QueueChanged ==
    ASSUME PInv, NEW c \in Obj, NEW q, Taken(q), NEW m, Took(c, q, m), NEW x, Half(x),
           Commit(c, x, q), NEW p \in Peer
    PROVE  Changed(net[p], m, Elems(x.out), net'[p])
<1>1. net[p] \in Seq(Stanza) /\ net \in [Peer -> Seq(Stanza)]
  BY DEF PInv, IInv, TypeOK
<1>2. Home[c] \in Peer /\ Other[Home[c]] \in Peer /\ Other[Home[c]] # Home[c]
  BY ObjAssumption, PeerAssumption
<1>3. /\ net'[Other[Home[c]]] = Wire(c, q, x)
      /\ \A r \in Peer \ {Other[Home[c]]} : net'[r] = q[r]
  BY Queues
<1>4. \A r \in Peer \ {Home[c]} : q[r] = net[r]
  BY <1>1 DEF Took, Popped
<1>5. CASE p = Other[Home[c]]
  <2>1. net'[p] = net[p] \o x.out
    BY <1>2, <1>3, <1>4, <1>5 DEF Wire
  <2>2. x.out \in Seq(Stanza)
    BY Parts
  <2> QED
    BY <1>1, <2>1, <2>2, LongerIs DEF Changed
<1>6. CASE p # Other[Home[c]] /\ p # Home[c]
  BY <1>3, <1>4, <1>6 DEF Changed
<1>7. CASE p = Home[c]
  <2>1. net'[p] = q[p]
    BY <1>2, <1>3, <1>7
  <2>2. CASE q = net
    BY <2>1, <2>2 DEF Changed
  <2>3. CASE net[p] # <<>> /\ m = Head(net[p]) /\ q = Popped(p)
    <3>1. q[p] = Tail(net[p])
      BY <1>1, <2>3 DEF Popped
    <3> QED
      BY <1>1, <2>1, <2>3, <3>1, ShrunkIs DEF Changed
  <2> QED
    BY <1>7, <2>2, <2>3 DEF Took
<1> QED
  BY <1>5, <1>6, <1>7

\* What c says is of no concern to others.
LEMMA OthersSay ==
    ASSUME PInv, NEW c \in Obj, NEW x, NEW z, Spoken(c, x, z),
           NEW a \in Obj \ {c}, NEW b \in Obj \ {c}, SameStream(a, b)
    PROVE  /\ ~On(a, Sid(a, b), z) /\ ~Answer(z, conn[b].session)
           /\ conn[a].task.mode = "data" => ~(z.type = "error" /\ z.id = conn[a].task.id)
<1>1. ~On(a, Sid(a, b), z)
  BY DEF Spoken, On
<1>2. a \in Pool \/ b \in Pool
  BY Ends
<1>3. conn[a].session = conn[b].session /\ conn[b].session # NoId
  BY DEF SameStream
<1>4. ASSUME z.type = "result", z.id = conn[b].session PROVE FALSE
  <2>1. CASE \A k \in Pool : conn[k].session # z.id
    BY <1>2, <1>3, <1>4, <2>1
  <2>2. CASE z.id = conn[c].session
    <3>1. SameStream(b, c) /\ SameStream(b, a) /\ a # c
      BY <1>3, <1>4, <2>2 DEF SameStream
    <3> QED
      BY <3>1, OnePartner
  <2> QED
    BY <1>4, <2>1, <2>2 DEF Spoken
<1>5. ASSUME z.type = "error", conn[a].task.mode = "data", z.id = conn[a].task.id PROVE FALSE
  <2>1. z.id = conn[c].session /\ conn[c].state = "WaitingForAccept"
    BY <1>5 DEF Spoken
  <2>2. Loc(c, conn[c], hist[c]) /\ Sound(conn[c], hist[c])
    BY DEF PInv, IInv
  <2>3. c \in Pool /\ conn[c].session # NoId
    BY <2>1, <2>2 DEF Loc, Sound, Obj
  <2> QED
    BY <1>5, <2>1, <2>3, SessionIsNotTask
<1> QED
  BY <1>1, <1>4, <1>5 DEF Answer

\* The pairs of others.
LEMMA CommitElsewhere ==
    ASSUME AInv, NEW c \in Obj, NEW q, Taken(q), NEW m, Took(c, q, m), Alien(c, m),
           NEW x, Half(x), Commit(c, x, q), \A z \in Elems(x.out) : Spoken(c, x, z),
           NEW a \in Obj \ {c}, NEW b \in Obj \ {c}, SameStream(a, b)
    PROVE  Both(a, b, Sid(a, b), ViewOf(a), ViewOf(b), net'[Home[b]], net'[Home[a]])
<1>1. PInv /\ Home[a] \in Peer /\ Home[b] \in Peer
  BY ObjAssumption DEF AInv
<1>2. SameStream(b, a) /\ Sid(b, a) = Sid(a, b)
  BY <1>1, SidSymmetric
<1> DEFINE k == Sid(a, b)
           v == ViewOf(a)
           w == ViewOf(b)
           Z == Elems(x.out)
<1>3. Pair(a, b, k, v, w, net[Home[b]], net[Home[a]]) /\ Pair(b, a, k, w, v, net[Home[a]], net[Home[b]])
  BY DEF AInv, Together, Both
<1>4. /\ v.task = conn[a].task /\ v.state = conn[a].state /\ v.session = conn[a].session
      /\ w.task = conn[b].task /\ w.state = conn[b].state /\ w.session = conn[b].session
  BY DEF ViewOf, View
<1>5. /\ Changed(net[Home[a]], m, Z, net'[Home[a]])
      /\ Changed(net[Home[b]], m, Z, net'[Home[b]])
  BY <1>1, QueueChanged
<1> HIDE DEF k, v, w, Z
<1>6. Foreign(a, b, k, v, w, m, Z)
  <2>1. \A z \in Z : /\ ~On(a, k, z) /\ ~Answer(z, conn[b].session)
                     /\ conn[a].task.mode = "data" => ~(z.type = "error" /\ z.id = conn[a].task.id)
    BY <1>1, OthersSay DEF Z, k
  <2>2. /\ ~On(a, k, m) /\ ~On(b, k, m)
        /\ conn[b].state = "Requesting" => ~Answer(m, conn[b].session)
    BY DEF Alien, k
  <2> QED
    BY <1>4, <2>1, <2>2 DEF Foreign
<1>7. Foreign(b, a, k, w, v, m, Z)
  <2>1. \A z \in Z : /\ ~On(b, k, z) /\ ~Answer(z, conn[a].session)
                     /\ conn[b].task.mode = "data" => ~(z.type = "error" /\ z.id = conn[b].task.id)
    BY <1>1, <1>2, OthersSay DEF Z, k
  <2>2. /\ ~On(a, k, m) /\ ~On(b, k, m)
        /\ conn[a].state = "Requesting" => ~Answer(m, conn[a].session)
    BY <1>2 DEF Alien, k
  <2> QED
    BY <1>4, <2>1, <2>2 DEF Foreign
<1>8. Pair(a, b, k, v, w, net'[Home[b]], net'[Home[a]])
  BY <1>3, <1>5, <1>6, PairElsewhere
<1>9. Pair(b, a, k, w, v, net'[Home[a]], net'[Home[b]])
  BY <1>3, <1>5, <1>7, PairElsewhere
<1> QED
  BY <1>8, <1>9 DEF Both, k, v, w

\* The ends after a step, primed where the step can be seen.
LEMMA TogetherAfter ==
    ASSUME \A a, b \in Obj : SameStream(a, b)' =>
              Both(a, b, Sid(a, b), View(conn'[a], hist'[a], Len(hist'[a].got)),
                   View(conn'[b], hist'[b], Len(hist'[b].got)), net'[Home[b]], net'[Home[a]])
    PROVE  Together'
<1>1. ASSUME NEW a \in Obj, NEW b \in Obj, SameStream(a, b)'
      PROVE  Both(a, b, Sid(a, b), ViewOf(a), ViewOf(b), net[Home[b]], net[Home[a]])'
  <2>1. Both(a, b, Sid(a, b), View(conn'[a], hist'[a], Len(hist'[a].got)),
             View(conn'[b], hist'[b], Len(hist'[b].got)), net'[Home[b]], net'[Home[a]])
    BY <1>1
  <2> QED
    BY ONLY <2>1 DEF ViewOf, View, Both, Pair, Complete, Whole, LastWord, Heard, Told, Farewell,
        Blamed, Awaited, AcceptFirst, Declined, Mine, Elems, On, Answer, Sent
<1> QED
  BY <1>1 DEF Together

\* The two ends of the stream c is in.
LEMMA BothSwap ==
    ASSUME NEW c, NEW d, NEW k, NEW v, NEW w, NEW q, NEW r, Both(c, d, k, v, w, q, r)
    PROVE  Both(d, c, k, w, v, r, q)
  BY DEF Both

\* What a step of c does to the pair of ends c is one of.
Kept(c, q, x) ==
    \A d \in Obj : SameStream(c, d) /\ x.o.session = conn[c].session =>
        Both(c, d, Sid(c, d), View(x.o, x.h, Len(x.h.got)), ViewOf(d), Wire(c, q, x), q[Home[c]])

\* Every pair of ends.
LEMMA CommitTogether ==
    ASSUME AInv, NEW c \in Obj, NEW q, Taken(q), NEW m, Took(c, q, m), Alien(c, m),
           NEW x, Turns(c, x), Commit(c, x, q), \A z \in Elems(x.out) : Spoken(c, x, z),
           Kept(c, q, x)
    PROVE  Together'
<1>1. PInv /\ Half(x) /\ Became(c, x)
  BY CommitBecame DEF AInv, Turns
<1>2. net'[Home[c]] = q[Home[c]] /\ net'[Other[Home[c]]] = Wire(c, q, x)
  BY <1>1, Queues
<1>3. ASSUME NEW a \in Obj, NEW b \in Obj, SameStream(a, b)'
      PROVE  SameStream(a, b) /\ (a = c \/ b = c => x.o.session = conn[c].session)
  <2>1. CASE a = c /\ b # c
    BY <1>1, <1>3, <2>1 DEF SameStream, Became, Turns
  <2>2. CASE b = c /\ a # c
    BY <1>1, <1>3, <2>2 DEF SameStream, Became, Turns
  <2>3. CASE a # c /\ b # c
    BY <1>1, <1>3, <2>3 DEF SameStream, Became
  <2> QED
    BY <1>3, <2>1, <2>2, <2>3 DEF SameStream
<1>4. ASSUME NEW d \in Obj, SameStream(c, d), x.o.session = conn[c].session
      PROVE  Both(c, d, Sid(c, d), View(conn'[c], hist'[c], Len(hist'[c].got)),
                  View(conn'[d], hist'[d], Len(hist'[d].got)), net'[Home[d]], net'[Home[c]])
  <2>1. Home[d] = Other[Home[c]] /\ d # c
    BY <1>1, <1>4, Ends DEF SameStream
  <2>2. conn'[c] = x.o /\ hist'[c] = x.h /\ conn'[d] = conn[d] /\ hist'[d] = hist[d]
    BY <1>1, <2>1 DEF Became
  <2> QED
    BY <1>2, <1>4, <2>1, <2>2 DEF Kept, ViewOf
<1>5. ASSUME NEW a \in Obj, NEW b \in Obj, SameStream(a, b)'
      PROVE  Both(a, b, Sid(a, b), View(conn'[a], hist'[a], Len(hist'[a].got)),
                  View(conn'[b], hist'[b], Len(hist'[b].got)), net'[Home[b]], net'[Home[a]])
  <2>1. SameStream(a, b) /\ (a = c \/ b = c => x.o.session = conn[c].session)
    BY <1>3, <1>5
  <2>2. CASE a = c
    BY <1>4, <2>1, <2>2
  <2>3. CASE b = c
    <3>1. SameStream(c, a) /\ Sid(c, a) = Sid(a, c)
      BY <1>1, <2>1, <2>3, SidSymmetric
    <3> QED
      BY <1>4, <2>1, <2>3, <3>1, BothSwap
  <2>4. CASE a # c /\ b # c
    <3>1. conn'[a] = conn[a] /\ hist'[a] = hist[a] /\ conn'[b] = conn[b] /\ hist'[b] = hist[b]
      BY <1>1, <2>4 DEF Became
    <3>2. Both(a, b, Sid(a, b), ViewOf(a), ViewOf(b), net'[Home[b]], net'[Home[a]])
      BY <1>1, <2>1, <2>4, CommitElsewhere
    <3> QED
      BY <3>1, <3>2 DEF ViewOf
  <2> QED
    BY <2>2, <2>3, <2>4
<1> QED
  BY <1>5, TogetherAfter

\* What a handler commits keeps all of it.
LEMMA CommitAInv ==
    ASSUME AInv, PInv', NEW c \in Obj, NEW q, Taken(q), NEW m, Took(c, q, m), Alien(c, m),
           NEW x, Turns(c, x), Commit(c, x, q), \A z \in Elems(x.out) : Spoken(c, x, z),
           Kept(c, q, x)
    PROVE  AInv'
<1>1. PInv /\ Half(x) /\ Became(c, x)
  BY CommitBecame DEF AInv, Turns
<1>2. \A a \in Obj : Late(conn[a], hist[a])'
  <2>1. \A a \in Obj : Late(conn'[a], hist'[a])
    BY <1>1 DEF Became, Turns, AInv
  <2> QED
    BY <2>1 DEF Late
<1>3. ASSUME NEW p \in Peer, NEW l \in Elems(net'[p]) PROVE Tells(l)'
  <2>1. l \in Elems(net[p]) \cup Elems(x.out)
    BY <1>1, Queues
  <2> QED
    BY <1>1, <2>1, StillTells, NewTells
<1>4. Apart' /\ Together'
  BY CommitApart, CommitTogether
<1>5. \A p \in Peer : \A l \in Elems(net[p])' : Tells(l)'
  BY <1>3 DEF Elems
<1> QED
  BY <1>2, <1>4, <1>5 DEF AInv

\* The view of every connection is fit.
LEMMA FitNow ==
    ASSUME AInv, NEW c \in Obj
    PROVE  /\ Fit(ViewOf(c)) /\ conn[c] \in Connection /\ hist[c] \in History
           /\ Len(hist[c].got) \in Nat /\ hist[c].got \in Seq(Nat)
<1>1. /\ conn[c] \in Connection /\ hist[c] \in History /\ Sound(conn[c], hist[c])
      /\ Loc(c, conn[c], hist[c]) /\ Late(conn[c], hist[c])
  BY DEF AInv, PInv, IInv, TypeOK
<1>2. hist[c].got \in Seq(Nat)
  BY <1>1 DEF History
<1>3. Len(hist[c].got) \in Nat
  BY <1>2
<1> QED
  BY <1>1, <1>2, <1>3, FitView DEF ViewOf

\* What c and its partner know of each other when a step of c begins.
LEMMA JoinedStart ==
    ASSUME AInv, NEW c \in Obj, NEW d \in Obj, SameStream(c, d), NEW q, Taken(q),
           q[Other[Home[c]]] = net[Other[Home[c]]]
    PROVE  Joined(c, d, Sid(c, d), ViewOf(d), net[Home[c]], Len(hist[c].got), q, Start(c))
<1> DEFINE x == Start(c)
           k == Sid(c, d)
           w == ViewOf(d)
<1>1. PInv /\ x.o = conn[c] /\ x.h = hist[c]
  BY DEF Start, AInv
<1>2. /\ Home[d] = Other[Home[c]] /\ Home[d] \in Peer /\ Home[c] \in Peer
      /\ (c \in Pool /\ d \in Initiators) \/ (c \in Initiators /\ d \in Pool)
  BY <1>1, Ends, ObjAssumption
<1>3. Wire(c, q, x) = net[Home[d]] /\ Flow(c, k, hist[d].got, q, x)
  BY <1>1, <1>2, StartReady
<1>4. Fit(w) /\ hist[d].got \in Seq(Nat) /\ w.got = Len(hist[d].got)
      /\ w.session = conn[d].session
  BY FitNow DEF ViewOf, View
<1>5. Both(c, d, k, View(x.o, x.h, Len(hist[c].got)), w, net[Home[d]], net[Home[c]])
  BY <1>1 DEF AInv, Together, ViewOf
<1>6. conn[c].session = conn[d].session /\ conn[c].session # NoId
  BY DEF SameStream
<1>7. Loc(c, conn[c], hist[c]) /\ Linked(c, conn[c]) /\ Loc(d, conn[d], hist[d])
  BY <1>1 DEF PInv, Sessions
<1>8. conn[c].state = "Active" => conn[c].sid = k
  <2>1. CASE c \in Pool
    BY <1>6, <1>7, <2>1 DEF Loc, Sid
  <2>2. CASE c \in Initiators /\ d \in Pool
    <3>1. c \notin Pool
      BY <2>2, ObjAssumption
    <3>2. conn[c].state = "Active" => conn[c].sid \in Pool /\ conn[conn[c].sid].session = conn[d].session
      BY <1>6, <1>7, <2>2 DEF Linked
    <3> QED
      BY <1>1, <1>6, <2>2, <3>1, <3>2 DEF Sid, PInv, Sessions
  <2> QED
    BY <1>2, <2>1, <2>2
<1>9. \A m \in Elems(net[Home[c]]) : m.id.obj = c => m.id.n \in 0..(conn[c].nextId - 1)
  <2>1. ASSUME NEW m \in Elems(net[Home[c]]), m.id.obj = c
        PROVE  m.id.n \in 0..(conn[c].nextId - 1)
    <3>1. m.id.n \in Nat /\ m.id.n < conn[c].nextId /\ conn[c].nextId \in Nat
      BY <1>1, <1>2, <2>1, OnWire
    <3> QED
      BY <3>1
  <2> QED
    BY <2>1
<1>10. ASSUME conn[c].state = "WaitingForAccept", NEW m \in Elems(net[Home[d]]),
              Answer(m, conn[d].session)
       PROVE  FALSE
  <2>1. c \in Pool /\ d \in Initiators
    BY <1>2, <1>7, <1>10 DEF Loc
  <2>2. m.type = "result" /\ m.id = conn[d].session /\ m.id.obj = d
    BY <1>6, <1>7, <1>10, <2>1 DEF Answer, Loc
  <2>3. Valid(m, Home[d]) /\ Tells(m)
    BY <1>2, <1>10 DEF AInv, PInv
  <2>4. m.sid # NoObj
    BY <2>1, <2>2, <2>3 DEF Valid, Owned
  <2>5. m.sid \in Pool /\ conn[m.sid].session = conn[c].session
    BY <1>6, <2>2, <2>3, <2>4 DEF Valid, Static
  <2>6. m.sid = c
    BY <1>1, <1>6, <2>1, <2>5 DEF PInv, Sessions
  <2> QED
    BY <1>10, <2>2, <2>3, <2>4, <2>6 DEF Tells
<1> HIDE DEF x, k, w
<1> QED
  BY <1>1, <1>3, <1>4, <1>5, <1>8, <1>9, <1>10 DEF Joined, x, k, w

\* A record from which the methods start: c as it is, but for what it received
\* and the acknowledgement it has sent for it.
Begins(c, x) ==
    /\ x.o.session = conn[c].session /\ x.o.state = conn[c].state /\ x.o.sid = conn[c].sid
    /\ x.o.nextId = conn[c].nextId /\ x.h.ended = hist[c].ended
    /\ \A z \in Elems(x.out) :
          z.type = "result" /\ z.sid = NoObj /\ \A k \in Pool : conn[k].session # z.id

\* A step that only calls methods says and changes what it may.
LEMMA MovesTurns ==
    ASSUME NEW c \in Obj, NEW q, NEW x, Begins(c, x), NEW y, Half(y), Moves(c, q, x, y)
    PROVE  Turns(c, y) /\ \A z \in Elems(y.out) : Spoken(c, y, z)
<1>1. Turns(c, y)
  BY DEF Turns, Moves, Begins
<1>2. ASSUME NEW z \in Elems(y.out) PROVE Spoken(c, y, z)
  <2>1. CASE z \in Elems(x.out)
    BY <2>1 DEF Begins, Spoken
  <2>2. CASE Says(c, x, y, z)
    BY <2>2 DEF Begins, Says, Spoken, Error
  <2> QED
    BY <1>2, <2>1, <2>2 DEF Moves
<1> QED
  BY <1>1, <1>2

\* It keeps the pair of ends c is one of.
LEMMA MovesKept ==
    ASSUME AInv, NEW c \in Obj, NEW q, NEW x, NEW y, Moves(c, q, x, y),
           NEW n \in Nat, n = Len(y.h.got),
           \A d \in Obj : SameStream(c, d) =>
               Joined(c, d, Sid(c, d), ViewOf(d), q[Home[c]], n, q, x)
    PROVE  Kept(c, q, y)
<1> SUFFICES ASSUME NEW d \in Obj, SameStream(c, d)
             PROVE  Both(c, d, Sid(c, d), View(y.o, y.h, n), ViewOf(d), Wire(c, q, y), q[Home[c]])
  BY DEF Kept
<1>1. d \in Obj \ {c}
  BY DEF SameStream
<1>2. Joined(c, d, Sid(c, d), ViewOf(d), q[Home[c]], n, q, y)
  BY <1>1 DEF Moves
<1> QED
  BY <1>2 DEF Joined

\* A stanza nobody is concerned with.
LEMMA AlienNone ==
    ASSUME NEW c
    PROVE  Alien(c, Error(NoId))
  BY DEF Alien, On, Answer, Error

\* The steps that take nothing off the wire.
LEMMA CallMoves ==
    ASSUME AInv, PInv', NEW c \in Obj, NEW x, Ready(c, net, x), Moves(c, net, Start(c), x),
           Extends(c, net, Start(c), x), Commit(c, x, net)
    PROVE  AInv'
<1>1. PInv /\ Taken(net) /\ Half(x) /\ Took(c, net, Error(NoId)) /\ Alien(c, Error(NoId))
  BY TakenNone, AlienNone DEF AInv, Ready, Took
<1>2. Start(c).o = conn[c] /\ Start(c).h = hist[c] /\ Start(c).out = <<>>
  BY DEF Start
<1>3. Begins(c, Start(c))
  BY <1>2, ElemsEmpty DEF Begins
<1>4. Turns(c, x) /\ \A z \in Elems(x.out) : Spoken(c, x, z)
  BY <1>1, <1>3, MovesTurns
<1>5. x.h.got = hist[c].got /\ Len(hist[c].got) \in Nat
  BY <1>2, FitNow DEF Extends
<1>6. Kept(c, net, x)
  BY <1>1, <1>5, JoinedStart, MovesKept
<1> QED
  BY <1>1, <1>4, <1>6, CommitAInv

\* Flags, timers and reading change nothing the other end could notice.
LEMMA FlagMoves ==
    ASSUME NEW c \in Obj, NEW q, NEW x, Ready(c, q, x), Late(x.o, x.h), NEW y, Half(y),
           y.out = x.out, y.o.session = x.o.session, y.o.sid = x.o.sid,
           y.o.state = x.o.state, y.o.nextId = x.o.nextId, y.o.task = x.o.task,
           y.o.sendbuf = x.o.sendbuf, y.o.closePending = x.o.closePending,
           y.o.closing = x.o.closing, y.h.ended = x.h.ended,
           y.h.written = x.h.written, y.h.got = x.h.got, y.h.over = x.h.over
    PROVE  Ready(c, q, y) /\ Extends(c, q, x, y) /\ Moves(c, q, x, y)
<1>1. Fresh(x.o, x.h) => Fresh(y.o, y.h)
  BY DEF Fresh
<1>2. Ready(c, q, y) /\ Extends(c, q, x, y)
  BY <1>1, FlagKeepsReady
<1>3. Late(y.o, y.h) /\ Sent(y.o, y.h) = Sent(x.o, x.h) /\ Half(x)
  BY DEF Late, Sent, Ready
<1> QED
  BY <1>2, <1>3, SameViewMoves

\* The calls of the application and the timer, but for connectToJid and accept.
LEMMA CallAInv ==
    ASSUME AInv, NEW c \in Obj,
           \/ TakeIncoming(c) \/ Close(c) \/ Read(c) \/ Destroy(c) \/ TrySendTimer(c)
           \/ \E n \in 1..MaxBytes[c] : Write(c, n)
    PROVE  AInv'
<1> DEFINE s == Start(c)
<1>0. PInv /\ PInv'
  BY CallPInv DEF AInv
<1>1. Half(s) /\ s.o = conn[c] /\ s.h = hist[c] /\ s.out = <<>> /\ IInv
  BY <1>0, StartHalf DEF PInv, Start
<1>2. conn[c] \in Connection /\ hist[c] \in History /\ Sound(conn[c], hist[c])
      /\ Late(conn[c], hist[c])
  BY <1>1, LocalParts DEF AInv
<1>3. Taken(net) /\ Ready(c, net, s) /\ net \in [Peer -> Seq(Stanza)] /\ Late(s.o, s.h)
  BY <1>0, <1>1, <1>2, TakenNone, StartReady DEF Taken
<1>4. net = [net EXCEPT ![Other[Home[c]]] = @ \o <<>>]
  <2>1. Other[Home[c]] \in Peer
    BY ObjAssumption, PeerAssumption
  <2>2. net[Other[Home[c]]] \o <<>> = net[Other[Home[c]]]
    BY <1>3, <2>1, ConcatEmptySeq
  <2> QED
    BY <1>3, <2>2
<1>5. CASE TakeIncoming(c)
  <2> DEFINE o2 == [conn[c] EXCEPT !.incoming = FALSE]
             x == [o |-> o2, h |-> hist[c], out |-> <<>>]
  <2>1. /\ o2.session = conn[c].session /\ o2.sid = conn[c].sid /\ o2.state = conn[c].state
        /\ o2.nextId = conn[c].nextId /\ o2.task = conn[c].task
        /\ o2.sendbuf = conn[c].sendbuf /\ o2.closePending = conn[c].closePending
        /\ o2.closing = conn[c].closing /\ o2.recvbuf = conn[c].recvbuf /\ o2 \in Connection
    BY <1>2 DEF Connection
  <2>2. conn' = [conn EXCEPT ![c] = o2] /\ net' = net /\ hist' = hist
    BY <1>5 DEF TakeIncoming
  <2> HIDE DEF o2
  <2>3. Half(x)
    BY <1>2, <2>1 DEF Half, Local, Sound, Readable
  <2>4. Commit(c, x, net)
    BY <1>1, <1>4, <2>2 DEF Commit, IInv, TypeOK
  <2>5. Ready(c, net, x) /\ Extends(c, net, s, x) /\ Moves(c, net, s, x)
    BY <1>1, <1>3, <2>1, <2>3, FlagMoves
  <2> QED
    BY <1>0, <2>4, <2>5, CallMoves
<1>6. CASE Close(c)
  <2>1. Ready(c, net, CloseOp(c, s)) /\ Extends(c, net, s, CloseOp(c, s))
    BY <1>0, <1>3, CloseOpKeepsReady
  <2>2. Moves(c, net, s, CloseOp(c, s))
    BY <1>0, <1>3, CloseOpMoves
  <2> QED
    BY <1>0, <1>6, <2>1, <2>2, CallMoves DEF Close
<1>7. ASSUME NEW n \in 1..MaxBytes[c], Write(c, n)
      PROVE  AInv'
  <2>1. Ready(c, net, WriteOp(c, s, n)) /\ Extends(c, net, s, WriteOp(c, s, n))
    BY <1>3, WriteOpKeepsReady
  <2>2. Moves(c, net, s, WriteOp(c, s, n))
    BY <1>3, WriteOpMoves
  <2> QED
    BY <1>0, <1>7, <2>1, <2>2, CallMoves DEF Write
<1>8. CASE Read(c)
  <2> DEFINE o2 == [conn[c] EXCEPT !.recvbuf = <<>>]
             h2 == [hist[c] EXCEPT !.read = @ + Len(conn[c].recvbuf)]
             x == [o |-> o2, h |-> h2, out |-> <<>>]
  <2>1. /\ o2.session = conn[c].session /\ o2.sid = conn[c].sid /\ o2.state = conn[c].state
        /\ o2.nextId = conn[c].nextId /\ o2.task = conn[c].task
        /\ o2.sendbuf = conn[c].sendbuf /\ o2.closePending = conn[c].closePending
        /\ o2.closing = conn[c].closing
    BY <1>2 DEF Connection
  <2>2. /\ h2.written = hist[c].written /\ h2.got = hist[c].got /\ h2.over = hist[c].over
        /\ h2.ended = hist[c].ended
    BY <1>2 DEF History
  <2>3. conn' = [conn EXCEPT ![c] = o2] /\ net' = net /\ hist' = [hist EXCEPT ![c] = h2]
    BY <1>8 DEF Read
  <2>4. IInv'
    BY <1>1, <1>8, UserStep DEF User
  <2> HIDE DEF o2, h2
  <2>5. Half(x)
    <3>1. o2 \in Connection /\ h2 \in History /\ Sound(conn'[c], hist'[c])
          /\ conn'[c] = o2 /\ hist'[c] = h2
      BY <1>1, <2>3, <2>4 DEF IInv, TypeOK, Sound, Readable, Abandoned
    <3> QED
      BY <3>1 DEF Half, Local
  <2>6. Commit(c, x, net)
    BY <1>4, <2>3 DEF Commit
  <2>7. Ready(c, net, x) /\ Extends(c, net, s, x) /\ Moves(c, net, s, x)
    BY <1>1, <1>3, <2>1, <2>2, <2>5, FlagMoves
  <2> QED
    BY <1>0, <2>6, <2>7, CallMoves
<1>9. ASSUME NEW y, y = [s EXCEPT !.o.trySendTimer = FALSE]
      PROVE  /\ Half(y) /\ Ready(c, net, y) /\ Extends(c, net, s, y) /\ Moves(c, net, s, y)
             /\ y.o.session = conn[c].session /\ y.o.state = conn[c].state /\ Late(y.o, y.h)
  <2> DEFINE o2 == [conn[c] EXCEPT !.trySendTimer = FALSE]
  <2>1. /\ o2.session = conn[c].session /\ o2.sid = conn[c].sid /\ o2.state = conn[c].state
        /\ o2.nextId = conn[c].nextId /\ o2.task = conn[c].task
        /\ o2.sendbuf = conn[c].sendbuf /\ o2.closePending = conn[c].closePending
        /\ o2.closing = conn[c].closing /\ o2.recvbuf = conn[c].recvbuf /\ o2 \in Connection
    BY <1>2 DEF Connection
  <2>2. y = [o |-> o2, h |-> hist[c], out |-> <<>>]
    BY <1>9 DEF Start
  <2> HIDE DEF o2
  <2>3. y.o = o2 /\ y.h = hist[c] /\ y.out = <<>>
    BY <2>2
  <2>4. Half(y)
    <3>1. y \in Local
      BY <1>2, <2>1, <2>2 DEF Local
    <3>2. Sound(y.o, y.h)
      BY <1>2, <2>1, <2>3 DEF Sound, Readable
    <3> QED
      BY <3>1, <3>2 DEF Half
  <2>5. Ready(c, net, y) /\ Extends(c, net, s, y) /\ Moves(c, net, s, y)
    BY <1>1, <1>3, <2>1, <2>3, <2>4, FlagMoves
  <2> QED
    BY <2>1, <2>3, <2>4, <2>5 DEF Moves
<1>10. CASE Destroy(c)
  <2> DEFINE y == [s EXCEPT !.o.trySendTimer = FALSE]
             x == ResetEnding(y, TRUE, "destroyed")
  <2>1. /\ Half(y) /\ Ready(c, net, y) /\ Extends(c, net, s, y) /\ Moves(c, net, s, y)
        /\ y.o.session = conn[c].session /\ y.o.state = conn[c].state /\ Late(y.o, y.h)
    BY <1>9
  <2>2. conn[c].session # NoId /\ conn[c].state # "Idle"
    BY <1>2, <1>10 DEF Sound, Destroy
  <2>3. Commit(c, x, net)
    BY <1>10 DEF Destroy
  <2> HIDE DEF y
  <2>4. Half(x)
    BY <2>1, <2>2, ResetEndingHalf DEF Endings, Abandoned
  <2>5. Ready(c, net, x) /\ Extends(c, net, y, x)
    BY <1>3, <2>1, <2>4, ResetKeepsReady
  <2>6. Moves(c, net, y, x)
    BY <1>3, <2>1, <2>2, <2>4, LeaveMoves DEF Leaving
  <2> HIDE DEF x, s
  <2>7. Extends(c, net, s, x) /\ Moves(c, net, s, x)
    BY <1>1, <2>1, <2>4, <2>5, <2>6, ExtendsTransitive, MovesTransitive
  <2> QED
    BY <1>0, <2>3, <2>5, <2>7, CallMoves DEF s
<1>11. CASE TrySendTimer(c)
  <2> DEFINE y == [s EXCEPT !.o.trySendTimer = FALSE]
  <2>1. /\ Half(y) /\ Ready(c, net, y) /\ Extends(c, net, s, y) /\ Moves(c, net, s, y)
        /\ Late(y.o, y.h)
    BY <1>9
  <2>2. Commit(c, TrySend(c, y), net)
    BY <1>11 DEF TrySendTimer
  <2> HIDE DEF y, s
  <2>3. Ready(c, net, TrySend(c, y)) /\ Extends(c, net, y, TrySend(c, y))
        /\ Half(TrySend(c, y)) /\ Moves(c, net, y, TrySend(c, y))
    BY <1>3, <2>1, TrySendKeepsReady, TrySendMoves, TrySendHalf
  <2>4. Extends(c, net, s, TrySend(c, y)) /\ Moves(c, net, s, TrySend(c, y))
    BY <1>1, <2>1, <2>3, ExtendsTransitive, MovesTransitive
  <2> QED
    BY <1>0, <2>2, <2>3, <2>4, CallMoves DEF s
<1> QED
  BY <1>5, <1>6, <1>7, <1>8, <1>10, <1>11

\* accept(): the other end is told.
LEMMA AcceptAInv ==
    ASSUME AInv, NEW c \in Obj, Accept(c)
    PROVE  AInv'
<1> DEFINE o2 == [conn[c] EXCEPT !.state = "Active"]
           z == Success(conn[c].session, conn[c].sid)
           x == [o |-> o2, h |-> hist[c], out |-> <<z>>]
<1>1. /\ PInv /\ PInv' /\ conn[c] \in Connection /\ hist[c] \in History
      /\ Sound(conn[c], hist[c]) /\ Loc(c, conn[c], hist[c]) /\ Late(conn[c], hist[c])
  BY AcceptPInv, LocalParts DEF PInv, AInv
<1>2. conn[c].state = "WaitingForAccept" /\ Commit(c, x, net)
  BY DEF Accept
<1>3. c \in Pool /\ conn[c].session # NoId /\ conn[c].session \in IqId /\ conn[c].sid = c
  BY <1>1, <1>2 DEF Sound, Connection, Loc, Obj
<1>4. /\ o2.session = conn[c].session /\ o2.sid = conn[c].sid /\ o2.state = "Active"
      /\ o2.nextId = conn[c].nextId /\ o2.task = conn[c].task /\ o2.closing = conn[c].closing
      /\ o2.sendbuf = conn[c].sendbuf /\ o2.closePending = conn[c].closePending
      /\ o2.recvbuf = conn[c].recvbuf /\ o2 \in Connection
  BY <1>1 DEF Connection, States
<1>5. z \in Stanza /\ z.type = "result" /\ z.id = conn[c].session /\ z.sid = c
  BY <1>3, StanzaTypes DEF Success, Obj
<1> HIDE DEF o2, z
<1>6. Half(x) /\ x.o = o2 /\ x.h = hist[c] /\ x.out = <<z>>
  <2>1. <<z>> \in Seq(Stanza)
    BY <1>5
  <2> QED
    BY <1>1, <1>2, <1>4, <2>1 DEF Half, Local, Sound, Readable
<1>7. Elems(x.out) = {z}
  BY <1>6, ElemsOne
<1>8. ~conn[c].closing
  BY <1>1, <1>2 DEF Late
<1> HIDE DEF x
<1>9. Turns(c, x)
  <2>1. Late(x.o, x.h)
    BY <1>4, <1>6, <1>8 DEF Late
  <2> QED
    BY <1>2, <1>4, <1>6, <2>1 DEF Turns
<1>10. \A l \in Elems(x.out) : Spoken(c, x, l)
  BY <1>3, <1>4, <1>5, <1>6, <1>7 DEF Spoken
<1>11. ASSUME NEW d \in Obj, SameStream(c, d)
       PROVE  Both(c, d, Sid(c, d), View(x.o, x.h, Len(x.h.got)), ViewOf(d),
                   Wire(c, net, x), net[Home[c]])
  <2> DEFINE v == ViewOf(c)
             w == ViewOf(d)
             u == View(x.o, x.h, Len(x.h.got))
             s == net[Other[Home[c]]]
             t == Wire(c, net, x)
  <2>1. Home[d] = Other[Home[c]] /\ Other[Home[c]] \in Peer
    BY <1>1, <1>11, Ends, ObjAssumption, PeerAssumption
  <2>2. Both(c, d, Sid(c, d), v, w, s, net[Home[c]])
    BY <1>11, <2>1 DEF AInv, Together
  <2>3. Fit(v) /\ Fit(w)
    BY FitNow
  <2>4. Grown(s, z, t)
    <3>1. s \in Seq(Stanza)
      BY <1>1, <2>1 DEF PInv, IInv, TypeOK
    <3> HIDE DEF s
    <3>2. s \o <<z>> = Append(s, z)
      BY <1>5, <3>1
    <3>3. t = Append(s, z)
      BY <1>6, <3>2 DEF Wire, s
    <3> QED
      BY <3>1, <3>3, GrownIs
  <2>5. /\ v.session = conn[c].session /\ w.session = conn[d].session
        /\ v.state = "WaitingForAccept" /\ Answer(z, v.session) /\ v.session = w.session
    BY <1>2, <1>5, <1>11 DEF ViewOf, View, Answer, SameStream
  <2>6. Sent(x.o, x.h) = Sent(conn[c], hist[c])
    BY <1>4, <1>6 DEF Sent
  <2>7. /\ u.state = "Active" /\ u.ended = v.ended /\ u.sent = v.sent /\ u.got = v.got
        /\ u.session = v.session /\ u.task = v.task /\ ~u.closing
    BY <1>4, <1>6, <1>8, <2>6 DEF ViewOf, View
  <2> HIDE DEF u, v, w, s, t
  <2>8. Both(c, d, Sid(c, d), u, w, t, net[Home[c]])
    BY <2>2, <2>3, <2>4, <2>5, <2>7, AcceptBoth
  <2> QED
    BY <2>8 DEF u, w, t
<1>12. Taken(net) /\ Took(c, net, Error(NoId)) /\ Alien(c, Error(NoId)) /\ Kept(c, net, x)
  BY <1>1, <1>11, TakenNone, AlienNone DEF Took, Kept
<1> QED
  BY <1>1, <1>2, <1>9, <1>10, <1>12, CommitAInv

\* connectToJid(): a session that nobody else is in.
LEMMA ConnectAInv ==
    ASSUME AInv, NEW c \in Obj, ConnectToJid(c)
    PROVE  AInv'
<1> DEFINE s == Start(c)
           closed == CloseOp(c, s)
           id == [obj |-> c, n |-> closed.o.nextId]
           o2 == [Reset(closed.o, TRUE) EXCEPT
                     !.state = "Requesting", !.session = id, !.nextId = @ + 1,
                     !.task = [mode |-> "request", id |-> id]]
           h2 == NewHistory(hist[c].attempts + 1)
           z == Request(id)
           x == [o |-> o2, h |-> h2, out |-> Append(closed.out, z)]
<1>1. /\ PInv /\ PInv' /\ conn[c] \in Connection /\ hist[c] \in History
      /\ Sound(conn[c], hist[c]) /\ Loc(c, conn[c], hist[c]) /\ Late(conn[c], hist[c])
  BY ConnectPInv, LocalParts DEF PInv, AInv
<1>2. /\ Taken(net) /\ Ready(c, net, s) /\ net \in [Peer -> Seq(Stanza)]
      /\ s.o = conn[c] /\ s.h = hist[c] /\ s.out = <<>>
  BY <1>1, TakenNone, StartReady DEF Taken, Start
<1>3. Ready(c, net, closed) /\ Moves(c, net, s, closed) /\ Half(closed)
      /\ closed.o.session = conn[c].session
  <2>1. Ready(c, net, closed) /\ Extends(c, net, s, closed)
    BY <1>1, <1>2, CloseOpKeepsReady
  <2>2. Moves(c, net, s, closed)
    BY <1>1, <1>2, CloseOpMoves
  <2> QED
    BY <1>2, <2>1, <2>2 DEF Ready, Extends
<1>4. c \in Initiators /\ c \notin Pool /\ Commit(c, x, net)
  BY ObjAssumption DEF ConnectToJid
<1> HIDE DEF closed, s
<1>5. /\ closed.o \in Connection /\ closed.out \in Seq(Stanza) /\ closed.o.nextId \in Nat
      /\ conn[c].nextId \in Nat /\ closed.o.nextId >= conn[c].nextId
  BY <1>1, <1>2, <1>3, Parts DEF Connection, Moves
<1>6. id \in IqId /\ id.obj = c /\ id.n = closed.o.nextId /\ id # NoId
  BY <1>5, NoIdFresh DEF IqId
<1>7. z \in Stanza /\ z.type = "request" /\ z.id = id
  BY <1>6, StanzaTypes DEF Request
<1> HIDE DEF id
<1>8. /\ o2.state = "Requesting" /\ o2.session = id /\ o2.nextId = closed.o.nextId + 1
      /\ o2.recvbuf = <<>> /\ ~o2.closing /\ o2 \in Connection
  <2> DEFINE r == Reset(closed.o, TRUE)
  <2>1. r \in Connection /\ r.recvbuf = <<>> /\ ~r.closing /\ r.nextId = closed.o.nextId
    BY <1>5, ResetType DEF Reset, Connection
  <2>2. [mode |-> "request", id |-> id] \in Task /\ "Requesting" \in States
    BY <1>6 DEF Task, States
  <2> HIDE DEF r
  <2>3. r.nextId + 1 \in Nat
    BY <2>1 DEF Connection
  <2>4. o2 = [r EXCEPT !.state = "Requesting", !.session = id, !.nextId = @ + 1,
                       !.task = [mode |-> "request", id |-> id]]
    BY DEF r
  <2> HIDE DEF o2
  <2> QED
    BY <1>6, <2>1, <2>2, <2>3, <2>4 DEF Connection
<1>9. h2 \in History /\ h2.got = <<>> /\ h2.ended = "none" /\ h2.read = 0
  BY <1>1 DEF NewHistory, History, Endings
<1> HIDE DEF o2, h2, z
<1>10. Half(x) /\ x.o = o2 /\ x.h = h2 /\ x.out = Append(closed.out, z)
  <2>1. Sound(o2, h2)
    BY <1>6, <1>8, <1>9 DEF Sound, Readable
  <2>2. Append(closed.out, z) \in Seq(Stanza)
    BY <1>5, <1>7
  <2> QED
    BY <1>8, <1>9, <2>1, <2>2, HalfRecord
<1> HIDE DEF x
<1>11. Elems(x.out) = Elems(closed.out) \cup {z}
  BY <1>5, <1>10, ElemsAppend
<1>12. conn[c].session # id
  <2>1. conn[c].session # NoId => conn[c].session.n < conn[c].nextId /\ conn[c].session \in IqId
    BY <1>1, <1>4 DEF Loc, Connection
  <2>2. conn[c].session \in IqId => conn[c].session.n \in Nat
    BY DEF IqId
  <2> QED
    BY <1>5, <1>6, <2>1, <2>2
<1>13. \A d \in Obj : conn[d].session # id
  <2> SUFFICES ASSUME NEW d \in Obj, conn[d].session = id PROVE FALSE
    OBVIOUS
  <2>1. CASE d \in Initiators
    <3>1. conn[d].session.obj = d
      BY <1>1, <1>6, <2>1 DEF PInv, Loc
    <3> QED
      BY <1>6, <1>12, <3>1
  <2>2. CASE d \in Pool
    <3>1. id.n < conn[c].nextId
      BY <1>1, <1>6, <2>2, AcceptedId
    <3> QED
      BY <1>5, <1>6, <3>1
  <2> QED
    BY <2>1, <2>2 DEF Obj
<1>14. Turns(c, x)
  <2>1. Late(x.o, x.h)
    BY <1>8, <1>10 DEF Late
  <2> QED
    BY <1>4, <1>5, <1>6, <1>8, <1>10, <1>12, <1>13, <2>1 DEF Turns
<1>15. ASSUME NEW l \in Elems(x.out) PROVE Spoken(c, x, l)
  <2>1. CASE l = z
    BY <1>7, <1>8, <1>10, <1>12, <2>1 DEF Spoken
  <2>2. CASE l \in Elems(closed.out)
    <3>1. l \notin Elems(s.out)
      BY <1>2, ElemsEmpty
    <3>2. Says(c, s, closed, l)
      BY <1>3, <2>2, <3>1 DEF Moves
    <3>3. conn[c].state # "WaitingForAccept"
      BY <1>1, <1>4 DEF Loc
    <3> QED
      BY <1>2, <3>2, <3>3 DEF Says, Spoken
  <2> QED
    BY <1>11, <1>15, <2>1, <2>2
<1>16. Took(c, net, Error(NoId)) /\ Alien(c, Error(NoId)) /\ Kept(c, net, x)
  BY <1>8, <1>10, <1>12, AlienNone DEF Took, Kept
<1> QED
  BY <1>1, <1>2, <1>4, <1>14, <1>15, <1>16, CommitAInv

----------------------------------------------------------------------------
(* Stanzas that arrive.                                                    *)

\* A step of others, for both directions.
LEMMA BothElsewhere ==
    ASSUME NEW c, NEW d, NEW k, NEW v, NEW w, NEW q, NEW r, NEW p, NEW s, NEW m, NEW Z,
           Both(c, d, k, v, w, q, r), Foreign(c, d, k, v, w, m, Z), Foreign(d, c, k, w, v, m, Z),
           Changed(q, m, Z, p), Changed(r, m, Z, s)
    PROVE  Both(c, d, k, v, w, p, s)
<1>1. Pair(c, d, k, v, w, p, s)
  BY PairElsewhere DEF Both
<1>2. Pair(d, c, k, w, v, s, p)
  BY PairElsewhere DEF Both
<1> QED
  BY <1>1, <1>2 DEF Both

\* Only the queues change.
LEMMA QuietAInv ==
    ASSUME AInv, PInv', UNCHANGED <<conn, hist>>,
           \A p \in Peer : \A l \in Elems(net'[p]) : Tells(l),
           \A p, r \in Peer : \A m \in Elems(net'[p]), l \in Elems(net'[r]) :
               m.type = "request" /\ l.type = "error" => m.id # l.id,
           \A a, b \in Obj : SameStream(a, b) =>
               Both(a, b, Sid(a, b), ViewOf(a), ViewOf(b), net'[Home[b]], net'[Home[a]])
    PROVE  AInv'
<1>1. \A a \in Obj : Late(conn[a], hist[a])'
  BY DEF AInv, Late
<1>2. \A p \in Peer : \A l \in Elems(net[p])' : Tells(l)'
  <2>1. \A l : Tells(l) => Tells(l)'
    BY DEF Tells
  <2> QED
    BY <2>1 DEF Elems
<1>3. Apart'
  BY DEF Apart, Elems
<1>4. Together'
  <2>1. ASSUME NEW a \in Obj, NEW b \in Obj, SameStream(a, b)'
        PROVE  Both(a, b, Sid(a, b), View(conn'[a], hist'[a], Len(hist'[a].got)),
                    View(conn'[b], hist'[b], Len(hist'[b].got)), net'[Home[b]], net'[Home[a]])
    <3>1. SameStream(a, b)
      BY <2>1 DEF SameStream
    <3> QED
      BY <3>1 DEF ViewOf
  <2> QED
    BY <2>1, TogetherAfter
<1> QED
  BY <1>1, <1>2, <1>3, <1>4 DEF AInv

\* The queues after the first stanza for p is taken.
LEMMA PoppedChanged ==
    ASSUME PInv, NEW p \in Peer, net[p] # <<>>, NEW r \in Peer, NEW Z
    PROVE  Changed(net[r], Head(net[p]), Z, Popped(p)[r])
<1>1. net \in [Peer -> Seq(Stanza)] /\ net[p] \in Seq(Stanza)
  BY DEF PInv, IInv, TypeOK
<1>2. Popped(p)[r] = IF r = p THEN Tail(net[p]) ELSE net[r]
  BY <1>1 DEF Popped
<1> QED
  BY <1>1, <1>2, ShrunkIs DEF Changed

\* A response is of no concern to those who do not wait for it.
LEMMA ResponseAlien ==
    ASSUME PInv, NEW p \in Peer, NEW m \in Elems(net[p]), m.type \in {"result", "error"},
           NEW a, NEW k, NEW b \in Obj
    PROVE  /\ ~On(a, k, m)
           /\ conn[b].state = "Requesting" /\ Answer(m, conn[b].session) => b \in Waiting(p, m)
           /\ \A c \in Waiting(p, m) : b \in Waiting(p, m) => b = c
<1>1. m.id.obj \in Obj /\ Valid(m, p)
  BY OnWire
<1>2. \A c \in Obj : Loc(c, conn[c], hist[c]) /\ Sound(conn[c], hist[c]) /\ conn[c] \in Connection
  BY DEF PInv, IInv, TypeOK
<1>3. ASSUME conn[b].state = "Requesting", Answer(m, conn[b].session)
      PROVE  b \in Waiting(p, m)
  <2>1. conn[b].task.id = m.id /\ conn[b].task.mode = "request"
    <3>1. conn[b].task = [mode |-> "request", id |-> conn[b].session]
      BY <1>2, <1>3 DEF Loc
    <3> QED
      BY <1>3, <3>1 DEF Answer
  <2>2. conn[b].session # NoId /\ b \in Initiators
    <3>1. Loc(b, conn[b], hist[b]) /\ Sound(conn[b], hist[b])
      BY <1>2
    <3>2. conn[b].session # NoId
      BY <1>3, <3>1 DEF Sound
    <3>3. b \notin Pool
      BY <1>3, <3>1 DEF Loc
    <3> QED
      BY <3>2, <3>3 DEF Obj
  <2>3. m.id.obj = b
    BY <1>2, <1>3, <2>2 DEF Loc, Answer
  <2> QED
    BY <1>1, <1>3, <2>1, <2>3 DEF Waiting, NoTask, Valid, Static, Answer
<1>4. ASSUME NEW c \in Waiting(p, m) PROVE m.id.obj = c
  <2>1. c \in Obj /\ conn[c].task # NoTask /\ conn[c].task.id = m.id /\ conn[c].task \in Task
    BY <1>2 DEF Waiting, Connection
  <2>2. CASE conn[c].task.mode = "request"
    <3>1. conn[c].state = "Requesting"
      BY <1>2, <2>1, <2>2 DEF Loc
    <3>2. conn[c].session # NoId /\ c \in Initiators /\ conn[c].task.id = conn[c].session
      <4>1. Loc(c, conn[c], hist[c]) /\ Sound(conn[c], hist[c])
        BY <1>2, <2>1
      <4>2. conn[c].session # NoId
        BY <3>1, <4>1 DEF Sound
      <4>3. c \notin Pool /\ conn[c].task.id = conn[c].session
        BY <3>1, <4>1 DEF Loc
      <4> QED
        BY <2>1, <4>2, <4>3 DEF Obj
    <3> QED
      BY <1>2, <2>1, <3>2 DEF Loc
  <2>3. CASE conn[c].task.mode = "data"
    BY <1>2, <2>1, <2>3 DEF Loc
  <2> QED
    BY <2>1, <2>2, <2>3 DEF Task, NoTask
<1> QED
  BY <1>3, <1>4 DEF On

\* A response that nobody waits for.
LEMMA DroppedAInv ==
    ASSUME AInv, NEW p \in Peer, net[p] # <<>>, Head(net[p]).type \in {"result", "error"},
           ResponseDropped(p, Head(net[p]))
    PROVE  AInv'
<1> DEFINE m == Head(net[p])
<1>1. PInv /\ PInv' /\ m \in Elems(net[p]) /\ Taken(Popped(p))
  BY DroppedPInv, TakenHead DEF AInv
<1>2. Waiting(p, m) = {} /\ net' = Popped(p) /\ UNCHANGED <<conn, hist>>
  BY DEF ResponseDropped
<1>3. \A r \in Peer : Elems(net'[r]) \subseteq Elems(net[r])
  BY <1>1, <1>2 DEF Taken
<1>4. \A r \in Peer : Changed(net[r], m, {}, net'[r])
  BY <1>1, <1>2, PoppedChanged
<1>5. m.type \in {"result", "error"}
  OBVIOUS
<1> HIDE DEF m
<1>6. ASSUME NEW a \in Obj, NEW b \in Obj, SameStream(a, b)
      PROVE  Both(a, b, Sid(a, b), ViewOf(a), ViewOf(b), net'[Home[b]], net'[Home[a]])
  <2>1. Both(a, b, Sid(a, b), ViewOf(a), ViewOf(b), net[Home[b]], net[Home[a]])
    BY <1>6 DEF AInv, Together
  <2>2. \A d \in Obj : ViewOf(d).state = conn[d].state /\ ViewOf(d).session = conn[d].session
    BY DEF ViewOf, View
  <2>3. Foreign(a, b, Sid(a, b), ViewOf(a), ViewOf(b), m, {})
        /\ Foreign(b, a, Sid(a, b), ViewOf(b), ViewOf(a), m, {})
    BY <1>1, <1>2, <1>5, <2>2, ResponseAlien DEF Foreign
  <2>4. Home[a] \in Peer /\ Home[b] \in Peer
    BY ObjAssumption
  <2> QED
    BY <1>4, <2>1, <2>3, <2>4, BothElsewhere
<1>7. /\ \A r \in Peer : \A l \in Elems(net'[r]) : Tells(l)
      /\ \A r, s \in Peer : \A l \in Elems(net'[r]), n \in Elems(net'[s]) :
            l.type = "request" /\ n.type = "error" => l.id # n.id
  BY <1>3 DEF AInv, Apart
<1> QED
  BY <1>1, <1>2, <1>6, <1>7, QuietAInv

\* ibb_incomingRequest: the new connection has a partner that still waits, or
\* gave up; nobody has said anything on the stream.
LEMMA ListenAInv ==
    ASSUME AInv, PInv', NEW p \in Peer, net[p] # <<>>, NEW m, m = Head(net[p]),
           m.type = "request", NEW c \in Pool, Home[c] = p, conn[c].session = NoId,
           NEW o2, o2.state = "WaitingForAccept", o2.session = m.id, o2.task = NoTask,
           o2.sendbuf = <<>>, ~o2.closePending, ~o2.closing,
           conn' = [conn EXCEPT ![c] = o2], net' = Popped(p), hist' = hist
    PROVE  AInv'
<1> DEFINE q == Popped(p)
<1>1. /\ PInv /\ Taken(q) /\ m \in Elems(net[p]) /\ m \in Stanza /\ Valid(m, p) /\ Tells(m)
      /\ \A l \in Elems(q[p]) : l.type \in {"request", "data"} => l.id # m.id
  BY TakenHead DEF AInv
<1>2. c \in Obj /\ c \notin Initiators
  BY ObjAssumption DEF Obj
<1>3. conn'[c] = o2 /\ net' = q /\ \A a \in Obj \ {c} : conn'[a] = conn[a]
  BY <1>1, <1>2 DEF PInv, IInv, TypeOK
<1>4. Fresh(conn[c], hist[c]) /\ conn[c].nextId = 0 /\ hist[c].ended = "none"
  <2>1. Loc(c, conn[c], hist[c]) /\ Sound(conn[c], hist[c])
    BY <1>1, <1>2 DEF PInv, IInv
  <2> QED
    BY <1>2, <2>1 DEF Loc, Sound
<1> HIDE DEF q
<1>5. Fresh(o2, hist[c])
  BY <1>4 DEF Fresh
<1>6. Late(o2, hist[c])
  BY DEF Late
<1>7. \A a \in Obj : Late(conn[a], hist[a])'
  <2>1. \A a \in Obj : Late(conn'[a], hist'[a])
    BY <1>3, <1>6 DEF AInv
  <2> QED
    BY <2>1 DEF Late
<1>8. ASSUME NEW r \in Peer, NEW l \in Elems(net'[r])
      PROVE  /\ l \in Elems(net[r]) /\ Valid(l, r) /\ Tells(l)
             /\ l.id.obj \in Obj /\ l.id.obj # c
             /\ l.type \in {"request", "data"} => l.id # m.id
             /\ l.type = "data" => l.sid \in Obj /\ l.sid # c
             /\ l.type = "result" /\ l.sid # NoObj => l.sid \in Obj /\ l.sid # c
             /\ l.type = "error" => l.id # m.id
  <2>1. l \in Elems(q[r]) /\ l \in Elems(net[r])
    BY <1>1, <1>3, <1>8 DEF Taken
  <2>2. Valid(l, r) /\ Tells(l) /\ l.id.obj \in Obj /\ l.id.n \in Nat
        /\ l.id.n < conn[l.id.obj].nextId
    BY <1>1, <2>1, OnWire DEF AInv
  <2>3. l.id.obj # c
    BY <1>4, <2>2
  <2>4. l.type \in {"request", "data"} => l.id # m.id
    <3> SUFFICES ASSUME l.type \in {"request", "data"}, l.id = m.id PROVE FALSE
      OBVIOUS
    <3>1. Other[r] = Other[p]
      BY <1>1, <2>2 DEF Valid, Static
    <3>2. r = p
      BY <3>1, PeerAssumption
    <3> QED
      BY <1>1, <2>1, <3>2
  <2>5. /\ l.type = "data" => l.sid \in Obj /\ l.sid # c
        /\ l.type = "result" /\ l.sid # NoObj => l.sid \in Obj /\ l.sid # c
    <3>1. l.type = "data" => l.sid \in Pool /\ conn[l.sid].session # NoId
      BY <2>2 DEF Valid, Static, Route
    <3>2. l.type = "result" /\ l.sid # NoObj => l.sid \in Pool /\ conn[l.sid].session = l.id
      BY <2>2 DEF Valid, Static
    <3>3. l.id # NoId
      BY <2>2, ObjAssumption DEF NoId
    <3> QED
      BY <3>1, <3>2, <3>3 DEF Obj
  <2>6. l.type = "error" => l.id # m.id
    BY <1>1, <2>1 DEF AInv, Apart
  <2> QED
    BY <2>1, <2>2, <2>3, <2>4, <2>5, <2>6
<1>9. \A r \in Peer : \A l \in Elems(net'[r]) : Tells(l)'
  <2> SUFFICES ASSUME NEW r \in Peer, NEW l \in Elems(net'[r]) PROVE Tells(l)'
    OBVIOUS
  <2>1. /\ Tells(l) /\ l.id.obj \in Obj /\ l.id.obj # c
        /\ l.type \in {"request", "data"} => l.id # m.id
        /\ l.type = "data" => l.sid \in Obj /\ l.sid # c
        /\ l.type = "result" /\ l.sid # NoObj => l.sid \in Obj /\ l.sid # c
        /\ l.type = "error" => l.id # m.id
    BY <1>8
  <2>2. /\ conn'[c].session = m.id
        /\ \A k \in Pool \ {c} : conn'[k].session = conn[k].session
                                 /\ conn'[k].state = conn[k].state
    BY <1>3 DEF Obj
  <2>3. l.type = "data" =>
          /\ \A k \in Pool : conn'[k].session # l.id
          /\ l.id.obj \in Initiators => conn'[l.sid].state # "WaitingForAccept"
    BY <1>3, <2>1, <2>2 DEF Tells
  <2>4. l.type = "result" /\ l.sid # NoObj => conn'[l.sid].state # "WaitingForAccept"
    BY <1>3, <2>1 DEF Tells
  <2>5. l.type = "error" =>
          \A k \in Pool : conn'[k].session = l.id =>
              conn'[k].state = "Idle" /\ hist'[k].ended # "dataError"
    BY <2>1, <2>2 DEF Tells
  <2>6. l.type = "request" /\ conn'[l.id.obj].session = l.id =>
          conn'[l.id.obj].state = "Requesting" \/ hist'[l.id.obj].ended \in Leaving
    BY <1>3, <2>1 DEF Tells
  <2> QED
    BY <2>3, <2>4, <2>5, <2>6 DEF Tells
<1>10. Apart'
  <2>1. \A r, s \in Peer : \A l \in Elems(net'[r]), n \in Elems(net'[s]) :
          l.type = "request" /\ n.type = "error" => l.id # n.id
    BY <1>1, <1>8 DEF AInv, Apart
  <2> QED
    BY <2>1 DEF Apart, Elems
<1>11. ASSUME NEW b \in Obj, b # c, conn'[b].session = m.id
       PROVE  Both(c, b, Sid(c, b), View(conn'[c], hist'[c], Len(hist'[c].got)),
                   View(conn'[b], hist'[b], Len(hist'[b].got)), net'[Home[b]], net'[Home[c]])
  <2> DEFINE v == View(o2, hist[c], Len(hist[c].got))
             w == ViewOf(b)
  <2>1. conn[b].session = m.id /\ conn'[b] = conn[b] /\ Home[b] \in Peer /\ Home[c] \in Peer
    BY <1>2, <1>3, <1>11, ObjAssumption
  <2>2. m.id.obj = b /\ m.id # NoId
    <3>1. b \notin Pool /\ m.id.obj \in Initiators
      BY <1>1, <2>1 DEF Valid, Static
    <3>2. m.id # NoId
      BY <3>1, ObjAssumption DEF NoId, Obj
    <3>3. Loc(b, conn[b], hist[b]) /\ b \in Initiators
      BY <1>1, <3>1 DEF PInv, Obj
    <3> QED
      BY <2>1, <3>2, <3>3 DEF Loc
  <2>3. /\ Fresh(conn[b], hist[b])
        /\ conn[b].state = "Requesting" \/ hist[b].ended \in Leaving
    BY <1>1, <2>1, <2>2 DEF Valid, Owned, Tells
  <2>4. Fit(w)
    BY FitNow
  <2>5. Fit(v)
    <3>1. /\ o2 \in Connection /\ hist[c] \in History /\ Sound(o2, hist[c])
      <4>1. IInv'
        BY DEF PInv
      <4>2. (conn[c] \in Connection /\ hist[c] \in History /\ Sound(conn[c], hist[c]))'
        BY <1>2, <4>1 DEF IInv, TypeOK
      <4>3. Sound(conn'[c], hist'[c])
        BY <4>2 DEF Sound, Readable
      <4> QED
        BY <1>3, <4>2, <4>3
    <3>2. Loc(c, o2, hist[c])
      <4>1. Loc(c, conn[c], hist[c])'
        BY <1>2 DEF PInv
      <4>2. Loc(c, conn'[c], hist'[c])
        BY <4>1 DEF Loc, Sent, Fresh
      <4> QED
        BY <1>3, <4>2
    <3>3. Len(hist[c].got) \in Nat
      BY <1>2, FitNow
    <3> QED
      BY <1>2, <1>6, <3>1, <3>2, <3>3, FitView
  <2>6. /\ v.state = "WaitingForAccept" /\ v.sent = 0 /\ v.got = 0
        /\ w.sent = 0 /\ w.got = 0 /\ w.state = conn[b].state /\ w.ended = hist[b].ended
    <3>1. Sent(o2, hist[c]) = 0 /\ Sent(conn[b], hist[b]) = 0
      BY <1>5, <2>3, FreshSent
    <3>2. Len(hist[c].got) = 0 /\ Len(hist[b].got) = 0
      BY <1>5, <2>3 DEF Fresh
    <3> QED
      BY <3>1, <3>2 DEF View, ViewOf
  <2>7. Sid(c, b) = c
    BY DEF Sid
  <2>8. /\ \A i \in DOMAIN net'[Home[b]] : ~On(c, c, net'[Home[b]][i])
        /\ \A i \in DOMAIN net'[Home[c]] : ~On(b, c, net'[Home[c]][i])
    BY <1>8, <2>1 DEF On, Elems
  <2> HIDE DEF v, w
  <2>9. Both(c, b, c, v, w, net'[Home[b]], net'[Home[c]])
    BY <2>3, <2>4, <2>5, <2>6, <2>8, NewBoth
  <2> QED
    BY <1>3, <2>1, <2>7, <2>9 DEF v, w, ViewOf
<1>12. ASSUME NEW a \in Obj \ {c}, NEW b \in Obj \ {c}, SameStream(a, b)
       PROVE  Both(a, b, Sid(a, b), ViewOf(a), ViewOf(b), net'[Home[b]], net'[Home[a]])
  <2>1. Both(a, b, Sid(a, b), ViewOf(a), ViewOf(b), net[Home[b]], net[Home[a]])
    BY <1>12 DEF AInv, Together
  <2>2. Foreign(a, b, Sid(a, b), ViewOf(a), ViewOf(b), m, {})
        /\ Foreign(b, a, Sid(a, b), ViewOf(b), ViewOf(a), m, {})
    BY DEF Foreign, On, Answer
  <2>3. Home[a] \in Peer /\ Home[b] \in Peer
    BY ObjAssumption
  <2>4. Changed(net[Home[a]], m, {}, net'[Home[a]]) /\ Changed(net[Home[b]], m, {}, net'[Home[b]])
    BY <1>1, <2>3, PoppedChanged
  <2> QED
    BY <2>1, <2>2, <2>4, BothElsewhere
<1>13. Together'
  <2>1. ASSUME NEW a \in Obj, NEW b \in Obj, SameStream(a, b)'
        PROVE  Both(a, b, Sid(a, b), View(conn'[a], hist'[a], Len(hist'[a].got)),
                    View(conn'[b], hist'[b], Len(hist'[b].got)), net'[Home[b]], net'[Home[a]])
    <3>1. a # b /\ conn'[a].session = conn'[b].session /\ conn'[a].session # NoId
      BY <2>1 DEF SameStream
    <3>2. CASE a = c
      BY <1>3, <1>11, <3>1, <3>2
    <3>3. CASE b = c
      <4>1. Both(c, a, Sid(c, a), View(conn'[c], hist'[c], Len(hist'[c].got)),
                 View(conn'[a], hist'[a], Len(hist'[a].got)), net'[Home[a]], net'[Home[c]])
        BY <1>3, <1>11, <3>1, <3>3
      <4>2. Sid(c, a) = Sid(a, c)
        <5>1. a \notin Pool
          BY <1>1, <1>3, <3>1, <3>3 DEF Valid, Static
        <5> QED
          BY <5>1 DEF Sid
      <4> QED
        BY <3>3, <4>1, <4>2, BothSwap
    <3>4. CASE a # c /\ b # c
      <4>1. SameStream(a, b) /\ conn'[a] = conn[a] /\ conn'[b] = conn[b]
        BY <1>3, <3>1, <3>4 DEF SameStream
      <4> QED
        BY <1>12, <3>4, <4>1 DEF ViewOf
    <3> QED
      BY <3>2, <3>3, <3>4
  <2> QED
    BY <2>1, TogetherAfter
<1>14. \A r \in Peer : \A l \in Elems(net[r])' : Tells(l)'
  BY <1>9 DEF Elems
<1> QED
  BY <1>7, <1>10, <1>13, <1>14 DEF AInv

LEMMA RequestAInv ==
    ASSUME AInv, NEW p \in Peer, net[p] # <<>>, Head(net[p]).type = "request",
           IncomingRequest(p, Head(net[p]))
    PROVE  AInv'
<1> DEFINE m == Head(net[p])
<1>1. PICK c \in Pool :
        /\ Home[c] = p
        /\ conn[c].session = NoId
        /\ conn' = [conn EXCEPT ![c] =
                      [NewConnection EXCEPT !.state = "WaitingForAccept", !.sid = c,
                                            !.session = m.id, !.incoming = TRUE]]
        /\ net' = Popped(p)
        /\ UNCHANGED hist
  BY DEF IncomingRequest
<1> DEFINE o2 == [NewConnection EXCEPT !.state = "WaitingForAccept", !.sid = c,
                                       !.session = m.id, !.incoming = TRUE]
<1>2. /\ o2.state = "WaitingForAccept" /\ o2.session = m.id
      /\ o2.task = NoTask /\ o2.sendbuf = <<>> /\ ~o2.closePending /\ ~o2.closing
  BY DEF NewConnection
<1>3. conn' = [conn EXCEPT ![c] = o2]
  BY <1>1
<1>4. PInv'
  BY RequestPInv DEF AInv
<1> HIDE DEF o2
<1> QED
  BY <1>1, <1>2, <1>3, <1>4, ListenAInv

\* An active end knows the stream by the id the other end gives it.
LEMMA ActiveSid ==
    ASSUME AInv, NEW c \in Obj, NEW d \in Obj, SameStream(c, d), conn[c].state = "Active"
    PROVE  conn[c].sid = Sid(c, d)
<1>1. Joined(c, d, Sid(c, d), ViewOf(d), net[Home[c]], Len(hist[c].got), net, Start(c))
  BY JoinedStart, TakenNone DEF AInv
<1>2. Start(c).o = conn[c]
  BY DEF Start
<1> QED
  BY <1>1, <1>2 DEF Joined

\* An end that has data to take but is not there to take it has left.
LEMMA LostReceiver ==
    ASSUME AInv, NEW p \in Peer, net[p] # <<>>, NEW m, m = Head(net[p]), m.type = "data",
           FindConnection(p, m.sid) = {},
           NEW a \in Obj, NEW b \in Obj, SameStream(a, b), On(b, Sid(a, b), m)
    PROVE  /\ Home[a] = p /\ Home[b] = Other[p]
           /\ conn[a].state = "Idle" /\ hist[a].ended # "none"
<1>1. PInv /\ m \in Elems(net[p]) /\ Valid(m, p) /\ Tells(m) /\ SameStream(b, a)
      /\ Sid(b, a) = Sid(a, b)
  BY TakenHead, SidSymmetric DEF AInv
<1>2. m.id.obj = b /\ m.sid = Sid(a, b)
  BY DEF On
<1>3. Home[b] = Other[p] /\ Home[a] = p
  BY <1>1, <1>2, Ends, PeerAssumption DEF Valid, Static
<1>4. conn[a].state # "Active"
  <2>1. conn[a].state = "Active" => conn[a].sid = m.sid
    BY <1>2, ActiveSid
  <2> QED
    BY <1>3, <2>1 DEF FindConnection
<1>5. conn[a].state # "WaitingForAccept"
  <2>1. SUFFICES ASSUME conn[a].state = "WaitingForAccept" PROVE FALSE
    OBVIOUS
  <2>2. a \notin Initiators
    BY <1>1, <2>1 DEF PInv, Loc
  <2>3. a \in Pool /\ b \in Initiators
    BY <1>1, <2>2, Ends
  <2> QED
    BY <1>1, <1>2, <2>1, <2>3 DEF Tells, Sid
<1>6. conn[a].state # "Requesting"
  <2>1. SUFFICES ASSUME conn[a].state = "Requesting" PROVE FALSE
    OBVIOUS
  <2>2. AcceptFirst(b, Sid(a, b), ViewOf(b), ViewOf(a), net[p])
    BY <1>1, <1>3 DEF AInv, Together, Both, Pair
  <2>3. net[p] \in Seq(Stanza)
    BY <1>1 DEF PInv, IInv, TypeOK
  <2>4. 1 \in DOMAIN net[p] /\ net[p][1] = m /\ \A i \in DOMAIN net[p] : ~(i < 1)
    BY <2>3
  <2> QED
    BY <2>1, <2>2, <2>4 DEF AcceptFirst, ViewOf, View
<1>7. conn[a].state = "Idle" /\ conn[a].session # NoId
  <2>1. conn[a] \in Connection
    BY <1>1 DEF PInv, IInv, TypeOK
  <2> QED
    BY <1>4, <1>5, <1>6, <2>1 DEF Connection, States, SameStream
<1> QED
  BY <1>3, <1>7 DEF AInv, Late

\* Data that finds no connection: the sender will get an error.
LEMMA LostAInv ==
    ASSUME AInv, NEW p \in Peer, net[p] # <<>>, NEW m, m = Head(net[p]), m.type = "data",
           FindConnection(p, m.sid) = {},
           net' = [Popped(p) EXCEPT ![Other[p]] = Append(@, Error(m.id))],
           UNCHANGED <<conn, hist>>
    PROVE  AInv'
<1> DEFINE z == Error(m.id)
<1>1. /\ PInv /\ PInv' /\ m \in Elems(net[p]) /\ m \in Stanza /\ Valid(m, p) /\ Tells(m)
      /\ Popped(p)[p] = Tail(net[p])
      /\ \A l \in Elems(Tail(net[p])) : l.type \in {"request", "data"} => l.id # m.id
  BY TakenHead, NoStreamPInv DEF AInv
<1>2. z \in Stanza /\ z.type = "error" /\ z.id = m.id
  BY <1>1, StanzaTypes DEF Stanza, Error
<1> HIDE DEF z
<1>3. /\ net'[p] = Tail(net[p]) /\ net'[Other[p]] = Append(net[Other[p]], z)
      /\ \A r \in Peer \ {p, Other[p]} : net'[r] = net[r]
      /\ \A r \in Peer : net[r] \in Seq(Stanza)
      /\ Other[p] # p /\ Other[p] \in Peer
  <2>1. net \in [Peer -> Seq(Stanza)] /\ Other[p] # p /\ Other[p] \in Peer
    BY <1>1, PeerAssumption DEF PInv, IInv, TypeOK
  <2> QED
    BY <2>1 DEF Popped, z
<1>4. Shrunk(net[p], m, net'[p]) /\ Grown(net[Other[p]], z, net'[Other[p]])
  <2>1. net[p] \in Seq(Stanza) /\ net[Other[p]] \in Seq(Stanza)
    BY <1>3
  <2>2. Shrunk(net[p], m, Tail(net[p]))
    BY <2>1, ShrunkIs
  <2>3. Grown(net[Other[p]], z, Append(net[Other[p]], z))
    BY <2>1, GrownIs
  <2> QED
    BY <1>3, <2>2, <2>3
<1>5. \A r \in Peer : Changed(net[r], m, {z}, net'[r])
  BY <1>3, <1>4, GrownLonger DEF Changed
<1>6. ASSUME NEW r \in Peer, NEW l \in Elems(net'[r])
      PROVE  \/ l \in Elems(net[r]) /\ (r = p => l \in Elems(Tail(net[p])))
             \/ l = z
  <2>1. CASE r = p
    <3>1. Elems(net[p]) = {m} \cup Elems(net'[p])
      BY <1>4 DEF Shrunk
    <3> QED
      BY <1>3, <1>6, <2>1, <3>1
  <2>2. CASE r = Other[p]
    <3>1. Elems(net'[r]) = Elems(net[r]) \cup {z}
      BY <1>4, <2>2 DEF Grown
    <3> QED
      BY <1>3, <1>6, <2>2, <3>1
  <2>3. CASE r \in Peer \ {p, Other[p]}
    BY <1>3, <1>6, <2>3
  <2> QED
    BY <2>1, <2>2, <2>3
<1>7. \A r \in Peer : \A l \in Elems(net'[r]) : Tells(l)
  <2>1. Tells(z)
    BY <1>1, <1>2 DEF Tells
  <2> QED
    BY <1>6, <2>1 DEF AInv
<1>8. ASSUME NEW r \in Peer, NEW s \in Peer, NEW l \in Elems(net'[r]), NEW n \in Elems(net'[s]),
             l.type = "request", n.type = "error", l.id = n.id
      PROVE  FALSE
  <2>1. l \in Elems(net[r]) /\ (r = p => l \in Elems(Tail(net[p])))
    BY <1>2, <1>6, <1>8
  <2>2. CASE n \in Elems(net[s])
    BY <1>8, <2>1, <2>2 DEF AInv, Apart
  <2>3. CASE n = z
    <3>1. Valid(l, r)
      BY <1>1, <2>1 DEF PInv
    <3>2. Other[r] = Other[p]
      BY <1>1, <1>2, <1>8, <2>3, <3>1 DEF Valid, Static
    <3>3. r = p
      BY <3>2, PeerAssumption
    <3> QED
      BY <1>1, <1>2, <1>8, <2>1, <2>3, <3>3
  <2> QED
    BY <1>6, <1>8, <2>2, <2>3
<1>9. ASSUME NEW a \in Obj, NEW b \in Obj, SameStream(a, b), On(b, Sid(a, b), m)
      PROVE  Both(a, b, Sid(a, b), ViewOf(a), ViewOf(b), net'[Home[b]], net'[Home[a]])
  <2>1. /\ Home[a] = p /\ Home[b] = Other[p]
        /\ conn[a].state = "Idle" /\ hist[a].ended # "none"
    BY <1>9, LostReceiver
  <2>2. Both(a, b, Sid(a, b), ViewOf(a), ViewOf(b), net[Home[b]], net[Home[a]])
    BY <1>9 DEF AInv, Together
  <2>3. Fit(ViewOf(a)) /\ Fit(ViewOf(b))
    BY FitNow
  <2>4. m \notin Elems(net'[p])
    BY <1>1, <1>3
  <2>5. ViewOf(a).state = "Idle" /\ ViewOf(a).ended # "none"
    BY <2>1 DEF ViewOf, View
  <2> QED
    BY <1>2, <1>4, <1>9, <2>1, <2>2, <2>3, <2>4, <2>5, LostBoth
<1>10. ASSUME NEW a \in Obj, NEW b \in Obj, SameStream(a, b), ~On(a, Sid(a, b), m)
       PROVE  conn[a].task.mode = "data" => conn[a].task.id # m.id
  <2> SUFFICES ASSUME conn[a].task.mode = "data", conn[a].task.id = m.id PROVE FALSE
    OBVIOUS
  <2>1. m.id.obj = a /\ conn[a].state = "Active"
    <3>1. Loc(a, conn[a], hist[a])
      BY <1>1 DEF PInv
    <3> QED
      BY <3>1 DEF Loc
  <2>2. m.sid = conn[a].sid
    BY <1>1, <2>1 DEF Valid, Owned
  <2>3. conn[a].sid = Sid(a, b)
    BY <1>10, <2>1, ActiveSid
  <2> QED
    BY <1>10, <2>1, <2>2, <2>3 DEF On
<1>11. ASSUME NEW a \in Obj, NEW b \in Obj, SameStream(a, b),
              ~On(a, Sid(a, b), m), ~On(b, Sid(a, b), m)
       PROVE  Both(a, b, Sid(a, b), ViewOf(a), ViewOf(b), net'[Home[b]], net'[Home[a]])
  <2>1. SameStream(b, a) /\ Sid(b, a) = Sid(a, b)
    BY <1>1, <1>11, SidSymmetric
  <2>2. /\ conn[a].task.mode = "data" => conn[a].task.id # m.id
        /\ conn[b].task.mode = "data" => conn[b].task.id # m.id
    BY <1>10, <1>11, <2>1
  <2>3. \A d \in Obj : ViewOf(d).task = conn[d].task
    BY DEF ViewOf, View
  <2>4. Foreign(a, b, Sid(a, b), ViewOf(a), ViewOf(b), m, {z})
        /\ Foreign(b, a, Sid(a, b), ViewOf(b), ViewOf(a), m, {z})
    BY <1>2, <1>11, <2>2, <2>3 DEF Foreign, Answer, On
  <2>5. Both(a, b, Sid(a, b), ViewOf(a), ViewOf(b), net[Home[b]], net[Home[a]])
    BY <1>11 DEF AInv, Together
  <2>6. Home[a] \in Peer /\ Home[b] \in Peer
    BY ObjAssumption
  <2> QED
    BY <1>5, <2>4, <2>5, <2>6, BothElsewhere
<1>12. ASSUME NEW a \in Obj, NEW b \in Obj, SameStream(a, b)
       PROVE  Both(a, b, Sid(a, b), ViewOf(a), ViewOf(b), net'[Home[b]], net'[Home[a]])
  <2>1. SameStream(b, a) /\ Sid(b, a) = Sid(a, b)
    BY <1>1, <1>12, SidSymmetric
  <2>2. CASE On(a, Sid(a, b), m)
    BY <1>9, <2>1, <2>2, BothSwap
  <2> QED
    BY <1>9, <1>11, <1>12, <2>2
<1> QED
  BY <1>1, <1>7, <1>8, <1>12, QuietAInv

\* What c and its partner know of each other once the data is acknowledged,
\* but not counted.
LEMMA JoinedTaken ==
    ASSUME AInv, NEW p \in Peer, net[p] # <<>>, NEW m, m = Head(net[p]), m.type = "data",
           NEW c \in FindConnection(p, m.sid), NEW d \in Obj, SameStream(c, d)
    PROVE  Joined(c, d, Sid(c, d), ViewOf(d), net[p], Len(hist[c].got), Popped(p), Take(c, m))
<1> DEFINE q == Popped(p)
           s == Start(c)
           t == Take(c, m)
           k == Sid(c, d)
           w == ViewOf(d)
           n == Len(hist[c].got)
           z == Success(m.id, NoObj)
<1>1. PInv /\ Taken(q) /\ m \in Stanza
  BY TakenHead DEF AInv
<1>2. c \in Obj /\ Home[c] = p /\ conn[c].state = "Active"
  BY DEF FindConnection
<1>3. Other[p] \in Peer /\ Other[p] # p
  BY PeerAssumption
<1>4. q[Other[Home[c]]] = net[Other[Home[c]]] /\ q[Other[p]] \in Seq(Stanza)
      /\ q \in [Peer -> Seq(Stanza)]
  BY <1>1, <1>2, <1>3 DEF Popped, Taken, PInv, IInv, TypeOK
<1>5. /\ t.h.ended = "none" /\ t.o.session = conn[c].session /\ t.o.sid = conn[c].sid
      /\ t.o.state = "Active" /\ t.o.nextId = conn[c].nextId /\ t.o.task = conn[c].task
      /\ t.o.sendbuf = conn[c].sendbuf /\ t.h.written = hist[c].written /\ t.out = <<z>>
  BY <1>1, <1>2, TakeHalf, ZenonT(30) DEF PInv
<1>6. conn[c] \in Connection /\ hist[c] \in History /\ Sound(conn[c], hist[c])
  BY <1>1, <1>2, LocalParts DEF PInv
<1>7. t.o.closing = conn[c].closing
  BY <1>6 DEF Take, Connection
<1>8. hist[c].ended = "none"
  BY <1>2, <1>6 DEF Sound
<1>9. Joined(c, d, k, w, net[Home[c]], n, q, s)
  BY <1>1, <1>2, <1>4, JoinedStart
<1>10. Flow(c, k, hist[d].got, q, t)
  BY <1>1, TakeReady
<1>11. s.o = conn[c] /\ s.h = hist[c] /\ s.out = <<>>
  BY DEF Start
<1>12. z \in Stanza /\ z.type = "result"
  BY <1>1, StanzaTypes DEF Stanza, Success
<1>13. Wire(c, q, s) = q[Other[p]] /\ Wire(c, q, t) = Append(q[Other[p]], z)
  <2> HIDE DEF s, t, q
  <2>1. q[Other[p]] \o <<>> = q[Other[p]] /\ q[Other[p]] \o <<z>> = Append(q[Other[p]], z)
    BY <1>4, <1>12
  <2> QED
    BY <1>2, <1>5, <1>11, <2>1 DEF Wire
<1>14. hist[d].got \in Seq(Nat) /\ w.got = Len(hist[d].got)
  BY FitNow DEF ViewOf, View
<1>15. View(t.o, t.h, n) = View(s.o, s.h, n) /\ View(s.o, s.h, n).ended = "none"
  BY <1>2, <1>5, <1>7, <1>8, <1>11 DEF View, Sent
<1> HIDE DEF s, t, q, k, w, n, z
<1>16. Both(c, d, k, View(t.o, t.h, n), w, Wire(c, q, t), net[p])
  <2> DEFINE v == View(s.o, s.h, n)
  <2>1. Both(c, d, k, v, w, Wire(c, q, s), net[p])
    BY <1>2, <1>9 DEF Joined
  <2>2. Grown(Wire(c, q, s), z, Wire(c, q, t))
    BY <1>4, <1>13, GrownIs
  <2>3. v.ended = "none" /\ v = View(t.o, t.h, n)
    BY <1>15
  <2> HIDE DEF v
  <2>4. Pair(c, d, k, v, w, Wire(c, q, t), net[p])
    BY <1>12, <2>1, <2>2, <2>3, PairGrows DEF Both, On
  <2>5. Pair(d, c, k, w, v, net[p], Wire(c, q, t))
    BY <1>12, <2>1, <2>2, PairGrowsBack DEF Both
  <2> QED
    BY <2>3, <2>4, <2>5 DEF Both
<1>17. Joined(c, d, k, w, net[p], n, q, t)
  BY <1>2, <1>5, <1>9, <1>10, <1>11, <1>14, <1>16 DEF Joined
<1> QED
  BY <1>17 DEF q, t, k, w, n

\* The stanza that c takes, in the stream of c.
LEMMA TakenData ==
    ASSUME AInv, NEW p \in Peer, net[p] # <<>>, NEW m, m = Head(net[p]), m.type = "data",
           NEW c \in FindConnection(p, m.sid), NEW d \in Obj, SameStream(c, d)
    PROVE  /\ On(d, Sid(c, d), m) /\ m \notin Elems(Tail(net[p]))
           /\ \A l \in Mine(d, Sid(c, d), Elems(Tail(net[p]))) :
                 l.id # m.id /\ (l.data # <<>> => m.data = <<>>)
           /\ hist[d].ended \in {"none", "local", "finished"} =>
                 Whole(ViewOf(d).sent, Len(hist[c].got), Mine(d, Sid(c, d), Elems(net[p])))
<1>1. /\ PInv /\ m \in Elems(net[p]) /\ Valid(m, p) /\ Popped(p)[p] = Tail(net[p])
      /\ \A l \in Elems(Tail(net[p])) : l.type \in {"request", "data"} => l.id # m.id
  BY TakenHead DEF AInv
<1>2. c \in Obj /\ Home[c] = p /\ conn[c].state = "Active"
  BY DEF FindConnection
<1>3. SameStream(d, c) /\ Sid(d, c) = Sid(c, d)
  BY <1>1, <1>2, SidSymmetric
<1>4. On(d, Sid(c, d), m)
  BY <1>1, <1>3, TakerIsPartner DEF On
<1>5. Carries(conn[d], hist[d], hist[c].got, Mine(d, Sid(c, d), Elems(net[p])),
              Acks(Elems(net[Home[d]])))
  BY <1>1, <1>2, <1>3 DEF PInv, Streams
<1>6. Mine(d, Sid(c, d), Elems(net[p])) = {m} \cup Mine(d, Sid(c, d), Elems(Tail(net[p])))
  <2>1. net[p] \in Seq(Stanza)
    BY <1>1 DEF PInv, IInv, TypeOK
  <2>2. Shrunk(net[p], m, Tail(net[p]))
    BY <2>1, ShrunkIs
  <2> QED
    BY <1>4, <2>2, MineShrinks
<1>7. ASSUME NEW l \in Mine(d, Sid(c, d), Elems(Tail(net[p])))
      PROVE  l.id # m.id /\ (l.data # <<>> => m.data = <<>>)
  <2>1. l.id # m.id
    BY <1>1, <1>7 DEF Mine
  <2> QED
    BY <1>5, <1>6, <1>7, <2>1 DEF Carries, Counts
<1>8. ASSUME hist[d].ended \in {"none", "local", "finished"}
      PROVE  Whole(ViewOf(d).sent, Len(hist[c].got), Mine(d, Sid(c, d), Elems(net[p])))
  <2>1. Complete(ViewOf(d), ViewOf(c), Mine(d, Sid(c, d), Elems(net[p])))
    BY <1>2, <1>3 DEF AInv, Together, Both, Pair
  <2>2. hist[c].ended = "none"
    BY <1>1, <1>2 DEF PInv, IInv, Sound
  <2> QED
    BY <1>8, <2>1, <2>2 DEF Complete, ViewOf, View
<1> QED
  BY <1>1, <1>4, <1>7, <1>8

\* What the taker is after readyRead() and the end of the stream.
LEMMA TakenAInv ==
    ASSUME AInv, PInv', NEW p \in Peer, net[p] # <<>>, NEW m, m = Head(net[p]), m.type = "data",
           NEW c \in FindConnection(p, m.sid), NEW r \in Reaction(c),
           Commit(c, IF m.close THEN ResetEnding(React(c, Take(c, m), r), FALSE, "closed")
                                ELSE React(c, Take(c, m), r), Popped(p))
    PROVE  AInv'
<1> DEFINE q == Popped(p)
           t == Take(c, m)
           y == React(c, t, r)
           x == IF m.close THEN ResetEnding(y, FALSE, "closed") ELSE y
           n == Len(hist[c].got)
<1>1. /\ PInv /\ Taken(q) /\ m \in Elems(net[p]) /\ m \in Stanza /\ Valid(m, p) /\ Tells(m)
      /\ q[p] = Tail(net[p]) /\ net[p] \in Seq(Stanza) /\ q \in [Peer -> Seq(Stanza)]
  BY TakenHead DEF AInv, PInv, IInv, TypeOK, Taken
<1>2. c \in Obj /\ Home[c] = p /\ conn[c].state = "Active" /\ conn[c].sid = m.sid
  BY DEF FindConnection
<1>3. conn[c] \in Connection /\ hist[c] \in History /\ Sound(conn[c], hist[c])
      /\ Late(conn[c], hist[c])
  BY <1>1, <1>2, LocalParts DEF PInv, AInv
<1>4. /\ Half(t) /\ t.h.ended = "none" /\ t.o.session = conn[c].session
      /\ t.o.sid = conn[c].sid /\ t.o.state = "Active" /\ t.o.nextId = conn[c].nextId
      /\ t.o.sendbuf = conn[c].sendbuf /\ t.h.got = hist[c].got \o m.data
      /\ t.out = <<Success(m.id, NoObj)>> /\ t.o.session # NoId
  BY <1>1, <1>2, TakeHalf, ZenonT(30) DEF PInv
<1>5. Late(t.o, t.h)
  <2>1. t.o.closing = conn[c].closing /\ t.o.closePending = conn[c].closePending
    BY <1>3 DEF Take, Connection
  <2> HIDE DEF t
  <2> QED
    BY <1>2, <1>3, <1>4, <2>1 DEF Late
<1>6. Ready(c, q, t) /\ Commit(c, x, q)
  BY <1>1, TakeReady
<1>7. \A d \in Obj : SameStream(c, d) => Joined(c, d, Sid(c, d), ViewOf(d), net[p], n, q, t)
  BY JoinedTaken
<1> HIDE DEF t, q
<1>8. Begins(c, t)
  <2>1. Elems(t.out) = {Success(m.id, NoObj)}
    BY <1>4, ElemsOne
  <2>2. hist[c].ended = "none"
    BY <1>2, <1>3 DEF Sound
  <2> DEFINE z == Success(m.id, NoObj)
  <2>3. z.type = "result" /\ z.sid = NoObj /\ z.id = m.id
    BY DEF Success
  <2>4. \A k \in Pool : conn[k].session # m.id
    BY <1>1 DEF Tells
  <2> HIDE DEF z
  <2>5. \A l \in Elems(t.out) :
          l.type = "result" /\ l.sid = NoObj /\ \A k \in Pool : conn[k].session # l.id
    BY <2>1, <2>3, <2>4 DEF z
  <2> QED
    BY <1>2, <1>4, <2>2, <2>5 DEF Begins
<1>9. Half(y) /\ Keeps(t, y) /\ Moves(c, q, t, y) /\ Extends(c, q, t, y)
  BY <1>1, <1>2, <1>4, <1>5, <1>6, ReactHalf, ReactMoves, ReactKeepsReady
<1> HIDE DEF y
<1>10. /\ n \in Nat /\ m.data \in Seq(Nat) /\ Len(m.data) \in Nat
       /\ m.data = <<>> => Len(m.data) = 0
       /\ Len(y.h.got) = n + Len(m.data)
  <2>1. hist[c].got \in Seq(Nat) /\ m.data \in Seq(Nat) /\ y.h.got = hist[c].got \o m.data
    BY <1>1, <1>3, <1>4, <1>9 DEF History, Stanza, Extends
  <2>2. Len(y.h.got) = Len(hist[c].got) + Len(m.data)
    BY <2>1, ConcatCases
  <2> QED
    BY <2>1, <2>2
<1>11. y.h.ended \notin Leaving /\ y.o.session # NoId
  <2>1. y.h.ended # "cancelled"
    BY <1>4, <1>9 DEF Moves
  <2>2. y.h.ended # "destroyed" /\ y.o.session # NoId
    BY <1>4, <1>9 DEF Keeps, Abandoned
  <2> QED
    BY <2>1, <2>2 DEF Leaving
<1>12. Half(x) /\ (m.close => Left(y, x, "closed")) /\ (~m.close => x = y)
  <2>1. CASE m.close
    <3>1. y.h.ended \notin Abandoned
      BY <1>4, <1>9 DEF Keeps, Abandoned
    <3>2. x = ResetEnding(y, FALSE, "closed")
      BY <2>1
    <3>3. Half(ResetEnding(y, FALSE, "closed"))
      BY <1>9, <1>11, <3>1, ResetEndingHalf DEF Endings
    <3> HIDE DEF x
    <3> QED
      BY <1>9, <2>1, <3>2, <3>3, ResetEnded DEF Endings
  <2> QED
    BY <1>9, <2>1
<1> HIDE DEF x
<1>13. Turns(c, y) /\ \A l \in Elems(y.out) : Spoken(c, y, l)
  BY <1>2, <1>8, <1>9, MovesTurns
<1>14. Turns(c, x)
  <2>1. CASE m.close
    <3>1. /\ x.o.state = "Idle" /\ x.o.session = y.o.session /\ Late(x.o, x.h)
      BY <1>12, <2>1 DEF Left
    <3>2. x.o.session = conn[c].session
      BY <1>4, <1>9, <3>1 DEF Keeps
    <3> QED
      BY <1>2, <1>12, <3>1, <3>2 DEF Turns
  <2> QED
    BY <1>12, <1>13, <2>1
<1>15. \A l \in Elems(x.out) : Spoken(c, x, l)
  <2>1. CASE m.close
    <3>1. x.out = y.out /\ x.o.session = y.o.session /\ y.o.session = conn[c].session
      BY <1>4, <1>9, <1>12, <2>1 DEF Left, Keeps
    <3>2. ASSUME NEW l \in Elems(y.out) PROVE Spoken(c, x, l)
      <4>1. CASE l \in Elems(t.out)
        BY <1>8, <4>1 DEF Begins, Spoken
      <4>2. CASE Says(c, t, y, l)
        BY <1>2, <1>4, <4>2 DEF Says, Spoken
      <4> QED
        BY <1>9, <3>2, <4>1, <4>2 DEF Moves
    <3> QED
      BY <3>1, <3>2
  <2> QED
    BY <1>12, <1>13, <2>1
<1>16. ASSUME NEW d \in Obj, SameStream(c, d)
       PROVE  Both(c, d, Sid(c, d), View(x.o, x.h, Len(x.h.got)), ViewOf(d),
                   Wire(c, q, x), q[Home[c]])
  <2> DEFINE k == Sid(c, d)
             v == View(y.o, y.h, n)
             w == ViewOf(d)
             u == View(x.o, x.h, Len(x.h.got))
             W == Wire(c, q, x)
             s == Tail(net[p])
  <2>1. Joined(c, d, k, w, net[p], n, q, y)
    BY <1>2, <1>7, <1>9, <1>10, <1>16 DEF Moves, SameStream
  <2>2. Wire(c, q, y) = W
    BY <1>12 DEF Wire, Left
  <2>3. Both(c, d, k, v, w, W, net[p]) /\ Fit(w)
    BY <2>1, <2>2 DEF Joined
  <2>4. Fit(v)
    <3>1. Ready(c, q, y) /\ Late(y.o, y.h)
      BY <1>1, <1>2, <1>5, <1>6, <1>9, ReactKeepsReady DEF Moves, y
    <3> QED
      BY <1>2, <1>10, <2>1, <3>1, JoinedParts
  <2>5. /\ On(d, k, m) /\ m \notin Elems(s)
        /\ \A l \in Mine(d, k, Elems(s)) : l.id # m.id /\ (l.data # <<>> => m.data = <<>>)
        /\ hist[d].ended \in {"none", "local", "finished"} =>
              Whole(w.sent, n, Mine(d, k, Elems(net[p])))
    BY <1>16, TakenData
  <2>6. Shrunk(net[p], m, s)
    BY <1>1, ShrunkIs
  <2>7. /\ v.state \in {"Active", "Idle"} /\ v.ended \notin Leaving /\ v.got = n
        /\ w.ended = hist[d].ended
    BY <1>4, <1>9, <1>11 DEF View, ViewOf, Moves
  <2>8. CASE ~m.close
    <3>1. /\ u.state = v.state /\ u.ended = v.ended /\ u.sent = v.sent /\ u.task = v.task
          /\ u.closing = v.closing /\ u.session = v.session /\ u.got = n + Len(m.data)
      BY <1>10, <1>12, <2>8 DEF View
    <3> HIDE DEF u, v, w, W, k, s
    <3>2. Both(c, d, k, u, w, W, s)
      BY <1>10, <2>3, <2>4, <2>5, <2>6, <2>7, <2>8, <3>1, TakeBoth
    <3> QED
      BY <1>1, <1>2, <3>2 DEF u, w, W, k, s
  <2>9. CASE m.close
    <3>1. /\ u.state = "Idle" /\ u.ended = "closed" /\ u.task = NoTask /\ ~u.closing
          /\ u.got = n + Len(m.data)
      BY <1>10, <1>12, <2>9 DEF View, Left
    <3> HIDE DEF u, v, w, W, k, s
    <3>2. Both(c, d, k, u, w, W, s)
      BY <1>10, <2>3, <2>4, <2>5, <2>6, <2>7, <2>9, <3>1, TakeCloseBoth
    <3> QED
      BY <1>1, <1>2, <3>2 DEF u, w, W, k, s
  <2> QED
    BY <2>8, <2>9
<1>17. Alien(c, m)
  <2>1. ASSUME NEW a \in Obj \ {c}, NEW b \in Obj \ {c}, SameStream(a, b), On(a, Sid(a, b), m)
        PROVE  FALSE
    <3>1. m.id.obj = a /\ m.sid = Sid(a, b) /\ conn[a].session # NoId
          /\ conn[b].session = conn[a].session
      BY <2>1 DEF On, SameStream
    <3>2. a \in Initiators => conn[m.sid].session = conn[a].session
      BY <3>1, ObjAssumption DEF Sid
    <3>3. SameStream(a, c)
      BY <1>1, <2>1, <3>1, <3>2, TakerIsPartner
    <3> QED
      BY <1>1, <1>2, <2>1, <3>3, OnePartner
  <2>2. ASSUME NEW a \in Obj \ {c}, NEW b \in Obj \ {c}, SameStream(a, b)
        PROVE  /\ ~On(a, Sid(a, b), m) /\ ~On(b, Sid(a, b), m)
               /\ ~Answer(m, conn[b].session)
    <3>1. SameStream(b, a) /\ Sid(b, a) = Sid(a, b)
      BY <1>1, <2>2, SidSymmetric
    <3> QED
      BY <2>1, <2>2, <3>1 DEF Answer
  <2> QED
    BY <2>2 DEF Alien
<1>18. Took(c, q, m) /\ Kept(c, q, x)
  BY <1>2, <1>16 DEF Took, Kept, q
<1> QED
  BY <1>1, <1>2, <1>6, <1>14, <1>15, <1>17, <1>18, CommitAInv

\* ibb_incomingData.
LEMMA DataAInv ==
    ASSUME AInv, NEW p \in Peer, net[p] # <<>>, NEW m, m = Head(net[p]), m.type = "data",
           IncomingData(p, m)
    PROVE  AInv'
<1>1. PInv'
  BY DataPInv DEF AInv
<1> QED
  BY <1>1, LostAInv, TakenAInv DEF IncomingData, Take

\* A response for the outstanding task of c, and nobody else's.
LEMMA ResponseStart ==
    ASSUME AInv, NEW p \in Peer, net[p] # <<>>, NEW m, m = Head(net[p]),
           m.type \in {"result", "error"}, NEW c \in Waiting(p, m)
    PROVE  /\ c \in Obj /\ Home[c] = p /\ conn[c].task.id = m.id
           /\ conn[c].state # "Idle" /\ conn[c].session # NoId /\ hist[c].ended = "none"
           /\ conn[c] \in Connection /\ hist[c] \in History
           /\ Loc(c, conn[c], hist[c]) /\ Late(conn[c], hist[c])
           /\ m \in Elems(net[p]) /\ Valid(m, p) /\ Tells(m)
           /\ Taken(Popped(p)) /\ Took(c, Popped(p), m) /\ Alien(c, m)
           /\ Popped(p)[p] = Tail(net[p]) /\ Popped(p)[Other[p]] = net[Other[p]]
           /\ Shrunk(net[p], m, Tail(net[p])) /\ DOMAIN net[p] \subseteq Nat \ {0}
           /\ \A d \in Obj : SameStream(c, d) => Home[d] = Other[p]
<1>1. /\ PInv /\ c \in Obj /\ Home[c] = p /\ conn[c].task.id = m.id
      /\ conn[c].state # "Idle" /\ conn[c].session # NoId /\ hist[c].ended = "none"
      /\ Taken(Popped(p)) /\ m \in Elems(net[Home[c]]) /\ Valid(m, p)
  BY TakenResponse DEF AInv
<1>2. /\ conn[c] \in Connection /\ hist[c] \in History
      /\ Loc(c, conn[c], hist[c]) /\ Late(conn[c], hist[c]) /\ Tells(m)
  BY <1>1 DEF AInv, PInv, IInv, TypeOK
<1>3. net \in [Peer -> Seq(Stanza)] /\ Other[p] # p /\ Other[p] \in Peer
  BY <1>1, PeerAssumption DEF PInv, IInv, TypeOK
<1>4. Popped(p)[p] = Tail(net[p]) /\ Popped(p)[Other[p]] = net[Other[p]]
  BY <1>3 DEF Popped
<1>5. Shrunk(net[p], m, Tail(net[p])) /\ DOMAIN net[p] \subseteq Nat \ {0}
  <2>1. net[p] \in Seq(Stanza)
    BY <1>3
  <2> QED
    BY <2>1, ShrunkIs
<1>6. Took(c, Popped(p), m)
  BY <1>1 DEF Took
<1>7. Alien(c, m)
  <2>1. ASSUME NEW a \in Obj \ {c}, NEW b \in Obj \ {c}, SameStream(a, b)
        PROVE  /\ ~On(a, Sid(a, b), m) /\ ~On(b, Sid(a, b), m)
               /\ conn[b].state = "Requesting" => ~Answer(m, conn[b].session)
    BY <1>1, <2>1, ResponseAlien
  <2> QED
    BY <2>1 DEF Alien
<1>8. \A d \in Obj : SameStream(c, d) => Home[d] = Other[p]
  BY <1>1, Ends
<1> QED
  BY <1>1, <1>2, <1>4, <1>5, <1>6, <1>7, <1>8

\* A response that c says nothing to.
LEMMA ResponseAInv ==
    ASSUME AInv, PInv', NEW p \in Peer, net[p] # <<>>, NEW m, m = Head(net[p]),
           m.type \in {"result", "error"}, NEW c \in Waiting(p, m), NEW x, Half(x),
           Commit(c, x, Popped(p)), x.out = <<>>, Late(x.o, x.h),
           x.o.session = conn[c].session, x.o.state # "WaitingForAccept",
           conn[c].state = "Requesting" =>
              \A r \in Peer : \A l \in Elems(net[r]) :
                 l.type = "request" => l.id # conn[c].session,
           \A d \in Obj : SameStream(c, d) =>
              Both(c, d, Sid(c, d), View(x.o, x.h, Len(x.h.got)), ViewOf(d),
                   net[Other[p]], Tail(net[p]))
    PROVE  AInv'
<1> DEFINE q == Popped(p)
<1>1. /\ c \in Obj /\ Home[c] = p /\ conn[c].state # "Idle"
      /\ Taken(q) /\ Took(c, q, m) /\ Alien(c, m)
      /\ q[p] = Tail(net[p]) /\ q[Other[p]] = net[Other[p]]
  BY ResponseStart
<1>2. Elems(x.out) = {}
  BY ElemsEmpty
<1>3. Wire(c, q, x) = net[Other[p]]
  <2>1. q[Other[p]] \in Seq(Stanza)
    BY <1>1, PeerAssumption DEF Taken
  <2> HIDE DEF q
  <2>2. q[Other[p]] \o <<>> = q[Other[p]]
    BY <2>1
  <2> QED
    BY <1>1, <2>2 DEF Wire
<1> HIDE DEF q
<1>4. Kept(c, q, x)
  BY <1>1, <1>3 DEF Kept
<1>5. Turns(c, x)
  BY <1>1 DEF Turns
<1> QED
  BY <1>1, <1>2, <1>4, <1>5, CommitAInv DEF q

\* The request was refused: the other end declined, or there was none.
LEMMA RefusedAInv ==
    ASSUME AInv, PInv', NEW p \in Peer, net[p] # <<>>, NEW m, m = Head(net[p]),
           m.type = "error", NEW c \in Waiting(p, m), conn[c].task.mode = "request",
           Commit(c, ResetEnding(Start(c), TRUE, "refused"), Popped(p))
    PROVE  AInv'
<1> DEFINE s == Start(c)
           x == ResetEnding(s, TRUE, "refused")
<1>1. /\ PInv /\ c \in Obj /\ Home[c] = p /\ conn[c].task.id = m.id
      /\ conn[c].session # NoId /\ Loc(c, conn[c], hist[c])
      /\ m \in Elems(net[p]) /\ Tells(m) /\ Shrunk(net[p], m, Tail(net[p]))
      /\ hist[c].ended = "none"
      /\ \A d \in Obj : SameStream(c, d) => Home[d] = Other[p]
  BY ResponseStart DEF AInv
<1>2. Half(s) /\ s.o = conn[c] /\ s.h = hist[c] /\ s.out = <<>>
  BY <1>1, TakenResponse
<1>3. conn[c].state = "Requesting" /\ conn[c].session = m.id /\ c \notin Pool
  BY <1>1 DEF Loc
<1> HIDE DEF s
<1>4. Half(x) /\ Left(s, x, "refused")
  <2>1. Half(x)
    BY <1>1, <1>2, ResetEndingHalf DEF Endings, Abandoned
  <2> QED
    BY <1>2, <2>1, ResetEnded DEF Endings
<1>5. Commit(c, x, Popped(p))
  BY DEF s
<1> HIDE DEF x
<1>6. \A r \in Peer : \A l \in Elems(net[r]) : l.type = "request" => l.id # conn[c].session
  BY <1>1, <1>3 DEF AInv, Apart
<1>7. ASSUME NEW d \in Obj, SameStream(c, d)
      PROVE  Both(c, d, Sid(c, d), View(x.o, x.h, Len(x.h.got)), ViewOf(d),
                  net[Other[p]], Tail(net[p]))
  <2> DEFINE v == ViewOf(c)
             w == ViewOf(d)
             u == View(x.o, x.h, Len(x.h.got))
  <2>1. d \in Pool /\ conn[d].session = m.id /\ Home[d] = Other[p]
    BY <1>1, <1>3, <1>7, Ends DEF SameStream
  <2>2. w.state = "Idle" /\ w.ended # "dataError" /\ v.state = "Requesting"
    BY <1>1, <1>3, <2>1 DEF Tells, ViewOf, View
  <2>3. Both(c, d, Sid(c, d), v, w, net[Other[p]], net[p])
    BY <1>1, <1>7, <2>1 DEF AInv, Together
  <2>4. Fit(v) /\ Fit(w)
    BY <1>1, FitNow
  <2>5. Over(u, "refused")
    BY <1>4 DEF Left
  <2> HIDE DEF u, v, w
  <2>6. Both(c, d, Sid(c, d), u, w, net[Other[p]], Tail(net[p]))
    BY <1>1, <2>2, <2>3, <2>4, <2>5, RefusedBoth DEF Over
  <2> QED
    BY <2>6 DEF u, w
<1>8. x.out = <<>> /\ Late(x.o, x.h) /\ x.o.session = conn[c].session /\ x.o.state = "Idle"
  BY <1>2, <1>4 DEF Left
<1> QED
  BY <1>4, <1>5, <1>6, <1>7, <1>8, ResponseAInv

\* A chunk was refused: the other end has left.
LEMMA DataRefusedAInv ==
    ASSUME AInv, PInv', NEW p \in Peer, net[p] # <<>>, NEW m, m = Head(net[p]),
           m.type = "error", NEW c \in Waiting(p, m), conn[c].task.mode = "data",
           Commit(c, ResetEnding(Start(c), TRUE, "dataError"), Popped(p))
    PROVE  AInv'
<1> DEFINE s == Start(c)
           x == ResetEnding(s, TRUE, "dataError")
<1>1. /\ PInv /\ c \in Obj /\ Home[c] = p /\ conn[c].task.id = m.id
      /\ conn[c].session # NoId /\ Loc(c, conn[c], hist[c])
      /\ Shrunk(net[p], m, Tail(net[p])) /\ DOMAIN net[p] \subseteq Nat \ {0}
      /\ hist[c].ended = "none"
      /\ \A d \in Obj : SameStream(c, d) => Home[d] = Other[p]
  BY ResponseStart DEF AInv
<1>2. Half(s) /\ s.o = conn[c] /\ s.h = hist[c] /\ s.out = <<>>
  BY <1>1, TakenResponse
<1>3. conn[c].state = "Active"
  BY <1>1 DEF Loc
<1> HIDE DEF s
<1>4. Half(x) /\ Left(s, x, "dataError")
  <2>1. Half(x)
    BY <1>1, <1>2, ResetEndingHalf DEF Endings, Abandoned
  <2> QED
    BY <1>2, <2>1, ResetEnded DEF Endings
<1>5. Commit(c, x, Popped(p))
  BY DEF s
<1> HIDE DEF x
<1>6. ASSUME NEW d \in Obj, SameStream(c, d)
      PROVE  Both(c, d, Sid(c, d), View(x.o, x.h, Len(x.h.got)), ViewOf(d),
                  net[Other[p]], Tail(net[p]))
  <2> DEFINE v == ViewOf(c)
             w == ViewOf(d)
             u == View(x.o, x.h, Len(x.h.got))
  <2>1. v.task = conn[c].task
    BY DEF ViewOf, View
  <2>2. Both(c, d, Sid(c, d), v, w, net[Other[p]], net[p])
    BY <1>1, <1>6 DEF AInv, Together
  <2>3. Fit(v) /\ Fit(w)
    BY <1>1, FitNow
  <2>4. Over(u, "dataError")
    BY <1>4 DEF Left
  <2> HIDE DEF u, v, w
  <2>5. Both(c, d, Sid(c, d), u, w, net[Other[p]], Tail(net[p]))
    BY <1>1, <2>1, <2>2, <2>3, <2>4, ErrorBoth DEF Over
  <2> QED
    BY <2>5 DEF u, w
<1>7. x.out = <<>> /\ Late(x.o, x.h) /\ x.o.session = conn[c].session /\ x.o.state = "Idle"
  BY <1>2, <1>4 DEF Left
<1> QED
  BY <1>3, <1>4, <1>5, <1>6, <1>7, ResponseAInv

\* The request was accepted: the stream is open.
LEMMA OpenedAInv ==
    ASSUME AInv, PInv', NEW p \in Peer, net[p] # <<>>, NEW m, m = Head(net[p]),
           m.type = "result", NEW c \in Waiting(p, m), conn[c].task.mode = "request",
           Commit(c, [Start(c) EXCEPT !.o.task = NoTask, !.o.sid = m.sid, !.o.state = "Active"],
                  Popped(p))
    PROVE  AInv'
<1> DEFINE s == Start(c)
           o2 == [conn[c] EXCEPT !.task = NoTask, !.sid = m.sid, !.state = "Active"]
           y == [s EXCEPT !.o.task = NoTask, !.o.sid = m.sid, !.o.state = "Active"]
           x == [o |-> o2, h |-> hist[c], out |-> <<>>]
<1>1. /\ PInv /\ c \in Obj /\ Home[c] = p /\ conn[c].task.id = m.id
      /\ conn[c].session # NoId /\ Loc(c, conn[c], hist[c]) /\ Late(conn[c], hist[c])
      /\ conn[c] \in Connection /\ hist[c] \in History
      /\ m \in Elems(net[p]) /\ Valid(m, p) /\ Tells(m) /\ Shrunk(net[p], m, Tail(net[p]))
      /\ hist[c].ended = "none"
      /\ \A d \in Obj : SameStream(c, d) => Home[d] = Other[p]
  BY ResponseStart DEF AInv
<1>2. Half(s) /\ s.o = conn[c] /\ s.h = hist[c] /\ s.out = <<>> /\ Sound(conn[c], hist[c])
  BY <1>1, TakenResponse DEF PInv, IInv
<1>3. /\ conn[c].state = "Requesting" /\ conn[c].session = m.id /\ c \notin Pool /\ c \in Initiators
      /\ m.id.obj = c
  <2>1. conn[c].state = "Requesting"
    BY <1>1 DEF Loc
  <2>2. conn[c].task = [mode |-> "request", id |-> conn[c].session] /\ c \notin Pool
    BY <1>1, <2>1 DEF Loc
  <2>3. c \in Initiators
    BY <1>1, <2>2 DEF Obj
  <2> QED
    BY <1>1, <2>1, <2>2, <2>3 DEF Loc
<1>4. m.sid \in Pool /\ conn[m.sid].session = conn[c].session
      /\ conn[m.sid].state # "WaitingForAccept"
  <2>1. m.sid # NoObj
    BY <1>1, <1>3 DEF Valid, Owned
  <2> QED
    BY <1>1, <1>3, <2>1 DEF Valid, Static, Tells
<1>5. /\ o2.session = conn[c].session /\ o2.state = "Active" /\ o2.task = NoTask
      /\ o2.sendbuf = conn[c].sendbuf /\ o2.recvbuf = conn[c].recvbuf
      /\ o2.closing = conn[c].closing /\ o2.closePending = conn[c].closePending
      /\ o2 \in Connection
  <2>1. NoTask \in Task /\ "Active" \in States /\ m.sid \in Obj
    BY <1>4 DEF Task, NoTask, States, Obj
  <2> QED
    BY <1>1, <2>1 DEF Connection
<1>6. Commit(c, x, Popped(p))
  <2>1. y \in Local /\ y.o = o2 /\ y.h = hist[c] /\ y.out = <<>>
    BY <1>2, <1>5 DEF Half, Local
  <2>2. Commit(c, y, Popped(p))
    OBVIOUS
  <2> HIDE DEF y, o2
  <2>3. y = [o |-> o2, h |-> hist[c], out |-> <<>>]
    BY <2>1 DEF Local
  <2> QED
    BY <2>2, <2>3
<1> HIDE DEF o2, s, y
<1>7. x.o = o2 /\ x.h = hist[c] /\ x.out = <<>> /\ Half(x)
  <2>1. Sound(o2, hist[c])
    BY <1>1, <1>2, <1>5 DEF Sound, Readable
  <2>2. <<>> \in Seq(Stanza)
    OBVIOUS
  <2>3. Half([o |-> o2, h |-> hist[c], out |-> <<>>])
    BY <1>1, <1>5, <2>1, <2>2, HalfRecord
  <2> QED
    BY <2>3
<1> HIDE DEF x
<1>8. ~conn[c].closing
  BY <1>1, <1>3 DEF Late
<1>9. \A r \in Peer : \A l \in Elems(net[r]) : l.type = "request" => l.id # conn[c].session
  <2>1. ASSUME NEW r \in Peer, NEW l \in Elems(net[r]), l.type = "request"
        PROVE  l.id # conn[c].session
    <3>1. Valid(l, r)
      BY <1>1 DEF PInv
    <3>2. \A k \in Pool : conn[k].session # l.id
      BY <2>1, <3>1 DEF Valid, Static
    <3> QED
      BY <1>4, <3>2
  <2> QED
    BY <2>1
<1>10. ASSUME NEW d \in Obj, SameStream(c, d)
       PROVE  Both(c, d, Sid(c, d), View(x.o, x.h, Len(x.h.got)), ViewOf(d),
                   net[Other[p]], Tail(net[p]))
  <2> DEFINE v == ViewOf(c)
             w == ViewOf(d)
             u == View(x.o, x.h, Len(x.h.got))
  <2>1. d = m.sid /\ conn[d].state # "WaitingForAccept" /\ conn[d].state # "Requesting"
    <3>1. d \in Pool /\ conn[d].session = conn[m.sid].session /\ conn[d].session # NoId
      BY <1>1, <1>3, <1>4, <1>10, Ends DEF SameStream
    <3>2. d = m.sid
      BY <1>1, <1>4, <3>1 DEF PInv, Sessions
    <3>3. Loc(d, conn[d], hist[d])
      BY <1>1, <1>10 DEF PInv
    <3> QED
      BY <1>4, <3>1, <3>2, <3>3 DEF Loc
  <2>2. /\ w.state \notin {"Requesting", "WaitingForAccept"} /\ v.state = "Requesting"
        /\ Answer(m, v.session)
    BY <1>3, <2>1 DEF ViewOf, View, Answer
  <2>3. Both(c, d, Sid(c, d), v, w, net[Other[p]], net[p])
    BY <1>1, <1>10 DEF AInv, Together
  <2>4. Fit(v) /\ Fit(w)
    BY <1>1, FitNow
  <2>5. Sent(x.o, x.h) = Sent(conn[c], hist[c])
    BY <1>5, <1>7 DEF Sent
  <2>6. /\ u.state = "Active" /\ u.ended = v.ended /\ u.sent = v.sent /\ u.got = v.got
        /\ u.session = v.session /\ u.task = NoTask /\ ~u.closing
    BY <1>5, <1>7, <1>8, <2>5 DEF ViewOf, View
  <2> HIDE DEF u, v, w
  <2>7. Both(c, d, Sid(c, d), u, w, net[Other[p]], Tail(net[p]))
    BY <1>1, <2>2, <2>3, <2>4, <2>6, OpenedBoth
  <2> QED
    BY <2>7 DEF u, w
<1>11. Late(x.o, x.h)
  BY <1>5, <1>7, <1>8 DEF Late
<1>12. x.o.session = conn[c].session /\ x.o.state # "WaitingForAccept"
  BY <1>5, <1>7
<1> QED
  BY <1>6, <1>7, <1>9, <1>10, <1>11, <1>12, ResponseAInv

\* What c and its partner know of each other when a chunk is acknowledged.
LEMMA JoinedAcked ==
    ASSUME AInv, NEW p \in Peer, net[p] # <<>>, NEW m, m = Head(net[p]), m.type = "result",
           NEW c \in Waiting(p, m), conn[c].task.mode = "data", NEW d \in Obj, SameStream(c, d)
    PROVE  Joined(c, d, Sid(c, d), ViewOf(d), Tail(net[p]), Len(hist[c].got), Popped(p), Acked(c))
<1> DEFINE q == Popped(p)
           t == Acked(c)
           k == Sid(c, d)
           v == ViewOf(c)
           w == ViewOf(d)
           n == Len(hist[c].got)
           u == View(t.o, t.h, n)
<1>1. /\ PInv /\ c \in Obj /\ Home[c] = p /\ conn[c].task.id = m.id
      /\ hist[c].ended = "none" /\ Loc(c, conn[c], hist[c])
      /\ m \in Elems(net[p]) /\ Shrunk(net[p], m, Tail(net[p]))
      /\ Taken(q) /\ q[p] = Tail(net[p]) /\ q[Other[p]] = net[Other[p]] /\ Home[d] = Other[p]
  BY ResponseStart DEF AInv
<1>2. /\ t.o.session = conn[c].session /\ t.o.sid = conn[c].sid
      /\ t.o.state = conn[c].state /\ t.o.nextId = conn[c].nextId
      /\ t.o.task = NoTask /\ t.o.sendbuf = conn[c].sendbuf /\ t.o.closing = conn[c].closing
      /\ t.h.written = hist[c].written /\ t.h.ended = "none" /\ t.out = <<>>
  BY <1>1, AckedReady
<1>3. Flow(c, k, hist[d].got, q, t)
  BY <1>1, AckedReady
<1>4. hist[d].got \in Seq(Nat) /\ w.got = Len(hist[d].got) /\ Fit(v) /\ Fit(w)
  BY <1>1, FitNow DEF ViewOf, View
<1>5. conn[c].state = "Active"
  BY <1>1 DEF Loc
<1>6. conn[c].sid = k
  BY <1>1, <1>5, ActiveSid
<1> HIDE DEF t, q
<1>7. Wire(c, q, t) = net[Other[p]]
  <2>1. q[Other[p]] \in Seq(Stanza)
    BY <1>1, PeerAssumption DEF Taken
  <2>2. q[Other[p]] \o <<>> = q[Other[p]]
    BY <2>1
  <2> QED
    BY <1>1, <1>2, <2>2 DEF Wire
<1>8. \A l \in Mine(c, k, Elems(net[Other[p]])) : l.id # conn[c].task.id
  <2>1. Carries(conn[c], hist[c], hist[d].got, Mine(c, k, Elems(net[Other[p]])), Acks(Elems(net[p])))
    BY <1>1 DEF PInv, Streams
  <2>2. conn[c].task.id \in Acks(Elems(net[p]))
    BY <1>1 DEF Acks
  <2> QED
    BY <2>1, <2>2 DEF Carries, Counts
<1>9. Both(c, d, k, v, w, net[Other[p]], net[p])
  BY <1>1 DEF AInv, Together
<1>10. /\ v.task = conn[c].task /\ u.state = v.state /\ u.session = v.session /\ u.ended = v.ended
       /\ u.got = v.got /\ u.sent = v.sent /\ u.closing = v.closing /\ u.task = NoTask
  BY <1>1, <1>2 DEF ViewOf, View, Sent
<1>11. \A l \in Elems(Tail(net[p])) : l.id.obj = c => l.id.n \in 0..(t.o.nextId - 1)
  <2>1. ASSUME NEW l \in Elems(Tail(net[p])), l.id.obj = c
        PROVE  l.id.n \in 0..(conn[c].nextId - 1)
    <3>1. l \in Elems(net[p])
      BY <1>1, <2>1 DEF Shrunk
    <3>2. l.id.n \in Nat /\ l.id.n < conn[c].nextId /\ conn[c].nextId \in Nat
      BY <1>1, <2>1, <3>1, OnWire
    <3> QED
      BY <3>2
  <2> QED
    BY <1>2, <2>1
<1> HIDE DEF k, v, w, n, u
<1>12. Both(c, d, k, u, w, net[Other[p]], Tail(net[p]))
  BY <1>1, <1>4, <1>8, <1>9, <1>10, AckedBoth DEF SameToPeer
<1>13. Joined(c, d, k, w, Tail(net[p]), n, q, t)
  BY <1>2, <1>3, <1>4, <1>5, <1>6, <1>7, <1>11, <1>12 DEF Joined, u
<1> QED
  BY <1>13 DEF q, t, k, w, n

\* A chunk was acknowledged: the application may react, the next chunk is due.
LEMMA AckedAInv ==
    ASSUME AInv, PInv', NEW p \in Peer, net[p] # <<>>, NEW m, m = Head(net[p]),
           NEW c \in Waiting(p, m), NEW r \in Reaction(c), DataFinished(p, m, c, r)
    PROVE  AInv'
<1> DEFINE q == Popped(p)
           acked == Acked(c)
           reacted == React(c, acked, r)
           closed == IF reacted.o.closing THEN ResetEnding(reacted, FALSE, "finished")
                                          ELSE reacted
           x == [closed EXCEPT !.o.trySendTimer = @ \/ Again(closed.o)]
<1>1. conn[c].task.mode = "data" /\ m.type = "result"
  BY DEF DataFinished
<1>2. /\ PInv /\ c \in Obj /\ Home[c] = p /\ conn[c].session # NoId
      /\ hist[c].ended = "none" /\ hist[c] \in History /\ Late(conn[c], hist[c])
      /\ Loc(c, conn[c], hist[c]) /\ Taken(q) /\ Took(c, q, m) /\ Alien(c, m)
      /\ q[p] = Tail(net[p])
  BY <1>1, ResponseStart DEF AInv
<1>3. acked = [Start(c) EXCEPT !.o.task = NoTask, !.h.acked = @ + conn[c].blockSize]
  BY <1>2, AckedIs
<1>4. Commit(c, x, q)
  BY <1>3 DEF DataFinished
<1>5. /\ Half(acked) /\ Ready(c, q, acked) /\ acked.out = <<>>
      /\ acked.o.session = conn[c].session /\ acked.o.sid = conn[c].sid
      /\ acked.o.state = conn[c].state /\ acked.o.nextId = conn[c].nextId
      /\ acked.o.sendbuf = conn[c].sendbuf /\ acked.o.closePending = conn[c].closePending
      /\ acked.o.closing = conn[c].closing
      /\ acked.h.got = hist[c].got /\ acked.h.ended = "none"
  BY <1>1, <1>2, AckedReady
<1>6. \A d \in Obj : SameStream(c, d) =>
        Joined(c, d, Sid(c, d), ViewOf(d), q[Home[c]], Len(hist[c].got), q, acked)
  BY <1>1, <1>2, JoinedAcked
<1> HIDE DEF acked, q
<1>7. q \in [Peer -> Seq(Stanza)]
  BY <1>2 DEF Taken
<1>8. Late(acked.o, acked.h)
  BY <1>2, <1>5 DEF Late
<1>9. Begins(c, acked)
  BY <1>2, <1>5, ElemsEmpty DEF Begins
<1>10. /\ Half(reacted) /\ Ready(c, q, reacted) /\ Moves(c, q, acked, reacted)
       /\ reacted.h.got = hist[c].got
  BY <1>2, <1>5, <1>7, <1>8, ReactHalf, ReactKeepsReady, ReactMoves DEF Extends
<1>11. reacted.o.session # NoId /\ reacted.h.ended \notin Abandoned /\ Late(reacted.o, reacted.h)
  BY <1>2, <1>5, <1>10, ReactHalf DEF Keeps, Abandoned, Moves
<1> HIDE DEF reacted
<1>12. /\ Half(closed) /\ Ready(c, q, closed) /\ Moves(c, q, reacted, closed)
       /\ closed.h.got = hist[c].got
  <2>1. CASE ~reacted.o.closing
    BY <1>10, <1>11, <2>1, MovesNot
  <2>2. CASE reacted.o.closing
    <3>1. closed = ResetEnding(reacted, FALSE, "finished")
      BY <2>2
    <3> HIDE DEF closed
    <3>2. Half(closed)
      <4>1. Half(ResetEnding(reacted, FALSE, "finished"))
        BY <1>10, <1>11, ResetEndingHalf DEF Endings, Abandoned
      <4> QED
        BY <3>1, <4>1
    <3>3. Ready(c, q, closed) /\ closed.h.got = reacted.h.got
      <4>1. Ready(c, q, closed) /\ Extends(c, q, reacted, closed)
        BY <1>2, <1>7, <1>10, <3>1, <3>2, ResetKeepsReady
      <4> QED
        BY <4>1 DEF Extends
    <3>4. Moves(c, q, reacted, closed)
      BY <1>2, <1>7, <1>10, <1>11, <2>2, <3>1, <3>2, FinishMoves
    <3> QED
      BY <1>10, <3>2, <3>3, <3>4
  <2> QED
    BY <2>1, <2>2
<1>13. Late(closed.o, closed.h)
  BY <1>12 DEF Moves
<1> HIDE DEF closed
<1>14. Half(x) /\ Moves(c, q, closed, x) /\ x.h.got = hist[c].got
  <2>1. Half(x)
    BY <1>12, TimerHalf
  <2>2. closed \in Local /\ closed.o \in Connection
    BY <1>12 DEF Half, Local
  <2>3. x = [o |-> [closed.o EXCEPT !.trySendTimer = @ \/ Again(closed.o)],
             h |-> closed.h, out |-> closed.out]
    BY <2>2 DEF Local
  <2> DEFINE o3 == [closed.o EXCEPT !.trySendTimer = @ \/ Again(closed.o)]
  <2>4. /\ o3.session = closed.o.session /\ o3.sid = closed.o.sid /\ o3.state = closed.o.state
        /\ o3.nextId = closed.o.nextId /\ o3.task = closed.o.task
        /\ o3.sendbuf = closed.o.sendbuf /\ o3.closePending = closed.o.closePending
        /\ o3.closing = closed.o.closing
    BY <2>2 DEF Connection
  <2> HIDE DEF o3, x
  <2>5. x.o = o3 /\ x.h = closed.h /\ x.out = closed.out
    BY <2>3 DEF o3
  <2> QED
    BY <1>2, <1>12, <1>13, <2>1, <2>4, <2>5, FlagMoves
<1> HIDE DEF x
<1>15. Moves(c, q, acked, x)
  <2>1. Moves(c, q, acked, closed)
    BY <1>5, <1>10, <1>12, MovesTransitive
  <2> QED
    BY <1>5, <1>12, <1>14, <2>1, MovesTransitive
<1>16. Turns(c, x) /\ \A z \in Elems(x.out) : Spoken(c, x, z)
  BY <1>2, <1>9, <1>14, <1>15, MovesTurns
<1>17. Len(hist[c].got) \in Nat /\ Len(hist[c].got) = Len(x.h.got)
  BY <1>2, <1>14 DEF History
<1>18. Kept(c, q, x)
  BY <1>2, <1>6, <1>15, <1>17, MovesKept
<1> QED
  BY <1>2, <1>4, <1>16, <1>18, CommitAInv

\* No stanza breaks the invariant.
LEMMA DeliverAInv ==
    ASSUME AInv, NEW p \in Peer, Deliver(p)
    PROVE  AInv'
<1> DEFINE m == Head(net[p])
<1>1. net[p] # <<>> /\ PInv
  BY DEF Deliver, AInv
<1>2. PInv'
  BY <1>1, DeliverPInv
<1>3. CASE m.type = "request" /\ IncomingRequest(p, m)
  BY <1>1, <1>3, RequestAInv
<1>4. CASE m.type = "data" /\ IncomingData(p, m)
  BY <1>1, <1>4, DataAInv
<1>5. CASE m.type \in {"result", "error"} /\ ResponseDropped(p, m)
  BY <1>1, <1>5, DroppedAInv
<1>6. ASSUME m.type \in {"result", "error"}, NEW c \in Waiting(p, m), RequestFinished(p, m, c)
      PROVE  AInv'
  <2>1. CASE m.type = "result"
    BY <1>1, <1>2, <1>6, <2>1, OpenedAInv DEF RequestFinished
  <2>2. CASE m.type = "error"
    BY <1>1, <1>2, <1>6, <2>2, RefusedAInv DEF RequestFinished
  <2> QED
    BY <1>6, <2>1, <2>2
<1>7. ASSUME NEW c \in Waiting(p, m), NEW r \in Reaction(c), DataFinished(p, m, c, r)
      PROVE  AInv'
  BY <1>1, <1>2, <1>7, AckedAInv
<1>8. ASSUME NEW c \in Waiting(p, m), DataRefused(p, m, c) PROVE AInv'
  BY <1>1, <1>2, <1>8, DataRefusedAInv DEF DataRefused
<1> QED
  BY <1>3, <1>4, <1>5, <1>6, <1>7, <1>8 DEF Deliver

\* Before anything has happened.
THEOREM InitAInv == Init => AInv
<1> SUFFICES ASSUME Init PROVE AInv
  OBVIOUS
<1>1. PInv
  BY InitPInv
<1>2. /\ \A c \in Obj : conn[c] = NewConnection /\ hist[c] = NewHistory(0)
      /\ \A p \in Peer : net[p] = <<>>
  BY DEF Init
<1>3. \A c \in Obj : Late(conn[c], hist[c]) /\ conn[c].session = NoId
  BY <1>2 DEF Late, NewConnection
<1>4. \A p \in Peer : Elems(net[p]) = {}
  BY <1>2, ElemsEmpty, Zenon
<1> QED
  BY <1>1, <1>3, <1>4 DEF AInv, Apart, Together, SameStream

\* No step breaks what the two ends know of each other.
THEOREM NextAInv == AInv /\ [Next]_vars => AInv'
<1> SUFFICES ASSUME AInv, [Next]_vars PROVE AInv'
  OBVIOUS
<1>1. CASE UNCHANGED vars
  <2>1. PInv'
    BY <1>1, NextPInv DEF AInv
  <2>2. net' = net /\ UNCHANGED <<conn, hist>>
    BY <1>1 DEF vars
  <2> QED
    BY <2>1, <2>2, QuietAInv DEF AInv, Apart, Together
<1>2. ASSUME NEW c \in Obj, User(c) PROVE AInv'
  BY <1>2, CallAInv, ConnectAInv, AcceptAInv DEF User
<1>3. ASSUME NEW c \in Obj, TrySendTimer(c) PROVE AInv'
  BY <1>3, CallAInv
<1> QED
  BY <1>1, <1>2, <1>3, DeliverAInv DEF Next

\* What is under way from c to d, when only one chunk of it has any bytes.
LEMMA OneChunk ==
    ASSUME NEW q, NEW sent \in SUBSET (DOMAIN q), NEW j \in sent, q[j].data \in Seq(Nat),
           \A i \in sent : i # j => q[i].data = <<>>
    PROVE  Cardinality(UNION {{i} \X DOMAIN q[i].data : i \in sent}) = Len(q[j].data)
<1> DEFINE D == DOMAIN q[j].data
<1>1. D = 1..Len(q[j].data) /\ Len(q[j].data) \in Nat
  OBVIOUS
<1>2. DOMAIN <<>> = {}
  OBVIOUS
<1>3. UNION {{i} \X DOMAIN q[i].data : i \in sent} = {j} \X D
  <2>1. ASSUME NEW i \in sent, i # j PROVE {i} \X DOMAIN q[i].data = {}
    BY <1>2, <2>1
  <2> HIDE DEF D
  <2>2. \A i \in sent : {i} \X DOMAIN q[i].data \subseteq {j} \X D
    BY <2>1 DEF D
  <2>3. {j} \X D \in {{i} \X DOMAIN q[i].data : i \in sent}
    BY DEF D
  <2> QED
    BY <2>2, <2>3
<1>4. IsFiniteSet(D) /\ Cardinality(D) = Len(q[j].data)
  BY <1>1, FS_Interval
<1>5. IsFiniteSet({j}) /\ Cardinality({j}) = 1
  BY FS_Singleton
<1> HIDE DEF D
<1> DEFINE S == {j}
<1>6. IsFiniteSet(S) /\ Cardinality(S) = 1
  BY <1>5
<1> HIDE DEF S
<1>7. Cardinality(S \X D) = Cardinality(S) * Cardinality(D)
  BY <1>4, <1>6, FS_Product
<1>8. Cardinality(S \X D) = Len(q[j].data)
  BY <1>1, <1>4, <1>6, <1>7
<1> QED
  BY <1>3, <1>8 DEF S

LEMMA NoChunk ==
    ASSUME NEW q, NEW sent \in SUBSET (DOMAIN q), \A i \in sent : q[i].data = <<>>
    PROVE  Cardinality(UNION {{i} \X DOMAIN q[i].data : i \in sent}) = 0
<1>1. DOMAIN <<>> = {}
  OBVIOUS
<1>2. \A i \in sent : {i} \X DOMAIN q[i].data = {}
  BY <1>1
<1>3. UNION {{i} \X DOMAIN q[i].data : i \in sent} = {}
  BY <1>2
<1> QED
  BY <1>3, FS_EmptySet

\* InFlight counts what Mine has.
LEMMA InFlightIs ==
    ASSUME PInv, NEW c \in Obj, NEW d \in Obj, SameStream(c, d)
    PROVE  /\ \A m \in Mine(c, Sid(c, d), Elems(net[Home[d]])) :
                 m.data # <<>> => InFlight(c, d) = Len(m.data)
           /\ (\A m \in Mine(c, Sid(c, d), Elems(net[Home[d]])) : m.data = <<>>)
                 => InFlight(c, d) = 0
<1> DEFINE k == Sid(c, d)
           q == net[Home[d]]
           D == Mine(c, k, Elems(q))
           sent == {i \in DOMAIN q : q[i].type = "data" /\ q[i].id.obj = c /\ q[i].sid \in {c, d}}
<1>1. q \in Seq(Stanza) /\ Distinct(q) /\ \A m \in Elems(q) : Valid(m, Home[d])
  BY ObjAssumption DEF PInv, IInv, TypeOK
<1>2. /\ c \in Pool => d \notin Pool
      /\ c \notin Pool => d \in Pool
  BY Ends, ObjAssumption
<1>3. Carries(conn[c], hist[c], hist[d].got, D, Acks(Elems(net[Home[c]])))
  BY DEF PInv, Streams
<1>4. InFlight(c, d) = Cardinality(UNION {{i} \X DOMAIN q[i].data : i \in sent})
  BY DEF InFlight
<1> HIDE DEF q
<1>5. ASSUME NEW i \in DOMAIN q PROVE q[i] \in Elems(q) /\ q[i] \in Stanza
  BY <1>1, <1>5 DEF Elems
<1>6. \A i \in DOMAIN q : i \in sent <=> q[i] \in D
  <2>1. ASSUME NEW i \in DOMAIN q, q[i].type = "data", q[i].id.obj = c, q[i].sid \in {c, d}
        PROVE  q[i].sid = k
    <3>1. Route(c, q[i].sid)
      BY <1>1, <1>5, <2>1 DEF Valid, Static
    <3> QED
      BY <1>2, <2>1, <3>1 DEF Route, Sid
  <2>2. k \in {c, d}
    BY DEF Sid
  <2> HIDE DEF k
  <2> QED
    BY <1>5, <2>1, <2>2 DEF Mine
<1>7. \A m \in D : \E i \in DOMAIN q : m = q[i]
  BY DEF Mine, Elems
<1>8. \A i, j \in sent : q[i].data # <<>> /\ q[j].data # <<>> => i = j
  <2>1. ASSUME NEW i \in sent, NEW j \in sent, q[i].data # <<>>, q[j].data # <<>>
        PROVE  i = j
    <3>1. q[i] = q[j]
      BY <1>3, <1>6, <2>1 DEF Carries, Counts
    <3> QED
      BY <1>1, <3>1 DEF Distinct
  <2> QED
    BY <2>1
<1>9. sent \subseteq DOMAIN q
  OBVIOUS
<1> HIDE DEF sent, D
<1>10. ASSUME NEW m \in D, m.data # <<>> PROVE InFlight(c, d) = Len(m.data)
  <2>1. PICK j \in DOMAIN q : m = q[j]
    BY <1>7
  <2>2. j \in sent /\ q[j].data \in Seq(Nat)
    BY <1>5, <1>6, <2>1 DEF Stanza
  <2>3. \A i \in sent : i # j => q[i].data = <<>>
    BY <1>8, <1>10, <2>1, <2>2
  <2> QED
    BY <1>4, <1>9, <2>1, <2>2, <2>3, OneChunk
<1>11. ASSUME \A m \in D : m.data = <<>> PROVE InFlight(c, d) = 0
  <2>1. \A i \in sent : q[i].data = <<>>
    BY <1>6, <1>9, <1>11
  <2> QED
    BY <1>4, <1>9, <2>1, NoChunk
<1> QED
  BY <1>10, <1>11 DEF D, q

\* As long as both ends are there, or ended as they should, the bytes written at
\* one end are those that arrived at the other, those on the wire and those in
\* the send buffer: IBBConnection loses nothing when the stream is closed.
THEOREM Accounted == Spec => []BytesAccounted
<1>1. ASSUME AInv PROVE BytesAccounted
  <2> SUFFICES ASSUME NEW c \in Obj, NEW d \in Obj, SameStream(c, d),
                      hist[d].ended \in {"none", "closed"},
                      hist[c].ended \in {"none", "local", "finished"}
               PROVE  Len(hist[d].got) + InFlight(c, d) + Len(conn[c].sendbuf) = hist[c].written
    BY DEF BytesAccounted
  <2> DEFINE D == Mine(c, Sid(c, d), Elems(net[Home[d]]))
             sent == Sent(conn[c], hist[c])
             got == Len(hist[d].got)
             v == ViewOf(c)
             w == ViewOf(d)
  <2>1. Complete(v, w, D)
    BY <1>1 DEF AInv, Together, Both, Pair
  <2>2. v.ended = hist[c].ended /\ w.ended = hist[d].ended /\ v.sent = sent /\ w.got = got
    BY DEF ViewOf, View
  <2>3. conn[c].sendbuf \in Seq(Nat) /\ hist[c].written \in Nat /\ hist[d].got \in Seq(Nat)
    BY <1>1 DEF AInv, PInv, IInv, TypeOK, Connection, History
  <2>4. /\ Len(conn[c].sendbuf) \in Nat /\ got \in Nat
        /\ sent = hist[c].written - Len(conn[c].sendbuf)
    BY <2>3 DEF Sent
  <2>5. \A m \in D : m.data \in Seq(Nat)
    <3>1. net[Home[d]] \in Seq(Stanza)
      BY <1>1, ObjAssumption DEF AInv, PInv, IInv, TypeOK
    <3>2. D \subseteq Elems(net[Home[d]])
      BY DEF Mine
    <3> HIDE DEF D
    <3>3. Elems(net[Home[d]]) \subseteq Stanza
      BY <3>1 DEF Elems
    <3> QED
      BY <3>2, <3>3 DEF Stanza
  <2>6. /\ \A m \in D : m.data # <<>> => InFlight(c, d) = Len(m.data)
        /\ (\A m \in D : m.data = <<>>) => InFlight(c, d) = 0
    BY <1>1, InFlightIs DEF AInv
  <2> HIDE DEF D, sent, got, v, w
  <2>7. Whole(sent, got, D)
    BY <2>1, <2>2 DEF Complete
  <2>8. CASE \E m \in D : m.data # <<>> /\ got + Len(m.data) = sent
    <3>1. PICK m \in D : m.data # <<>> /\ got + Len(m.data) = sent
      BY <2>8
    <3>2. InFlight(c, d) = Len(m.data) /\ Len(m.data) \in Nat
      BY <2>5, <2>6, <3>1
    <3>3. got + InFlight(c, d) = sent
      BY <3>1, <3>2
    <3>4. InFlight(c, d) \in Nat /\ hist[c].written \in Nat
      BY <2>3, <3>2
    <3>5. \A g, f, l, n \in Nat : g + f = n - l => g + f + l = n
      OBVIOUS
    <3>6. got + InFlight(c, d) + Len(conn[c].sendbuf) = hist[c].written
      BY <2>4, <3>3, <3>4, <3>5
    <3> QED
      BY <3>6 DEF got
  <2>9. CASE got = sent /\ \A m \in D : m.data = <<>>
    BY <2>3, <2>4, <2>6, <2>9 DEF got
  <2> QED
    BY <2>7, <2>8, <2>9 DEF Whole
<1> QED
  BY <1>1, InitAInv, NextAInv, PTL DEF Spec

\* Two ends that close as they please never make each other fail: ErrData means
\* that the other end was deleted, or withdrew a request it had sent.
THEOREM DataErrorSafe == Spec => []DataErrorOnlyIfAbandoned
<1>1. ASSUME AInv PROVE DataErrorOnlyIfAbandoned
  <2> SUFFICES ASSUME NEW c \in Obj, NEW d \in Obj, SameStream(c, d),
                      hist[c].ended = "dataError"
               PROVE  hist[d].ended \in Leaving
    BY DEF DataErrorOnlyIfAbandoned, Leaving
  <2>1. Blamed(d, Sid(c, d), ViewOf(c), ViewOf(d), net[Home[c]])
    BY <1>1 DEF AInv, Together, Both, Pair
  <2>2. ViewOf(c).ended = hist[c].ended /\ ViewOf(d).ended = hist[d].ended
    BY DEF ViewOf, View
  <2> QED
    BY <2>1, <2>2 DEF Blamed
<1> QED
  BY <1>1, InitAInv, NextAInv, PTL DEF Spec
=============================================================================
