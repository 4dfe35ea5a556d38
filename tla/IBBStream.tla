----------------------------- MODULE IBBStream -----------------------------
(***************************************************************************)
(* In-band bytestreams (iris, xmpp_ibb.cpp): a pipe of bytes between two   *)
(* clients, carried by iq stanzas.  One IBBManager per client dispatches   *)
(* the incoming stanzas to the IBBConnection objects of that client; each  *)
(* connection has at most one outstanding JT_IBB task and sends the next   *)
(* chunk when the task of the previous one has finished.                   *)
(*                                                                         *)
(* Bytes are numbered: the i-th byte an application writes to a connection *)
(* has the value i, so a received sequence shows what was lost, repeated   *)
(* or reordered.  The XMPP servers deliver the stanzas of one client to    *)
(* the other in order (net).  The random 64-bit stream id of genUniqueKey  *)
(* is a fresh token, represented by the target's connection object, and    *)
(* the id of an iq is the pair of the object that sent it and a counter.   *)
(***************************************************************************)
EXTENDS Naturals, Sequences, FiniteSets

CONSTANTS
    Peer,         \* the two clients
    Other,        \* Other[p] is the client p talks to
    Initiators,   \* connections the applications create to call connectToJid
    Pool,         \* connections an IBBManager creates for incoming requests
    Home,         \* Home[c] is the client the connection c lives in
    PacketSize,   \* IBB_PACKET_SIZE
    MaxBytes,     \* bound: bytes written to the connection c per session, MaxBytes[c]
    MaxAttempts,  \* bound: calls of connectToJid on one connection
    NoObj         \* no connection, no stream id

Obj == Initiators \cup Pool

ASSUME PeerAssumption ==
    /\ Other \in [Peer -> Peer]
    /\ \A p \in Peer : Other[p] # p /\ Other[Other[p]] = p
ASSUME ObjAssumption ==
    /\ Initiators \cap Pool = {}
    /\ Home \in [Obj -> Peer]
    /\ NoObj \notin Obj
ASSUME SizeAssumption ==
    /\ PacketSize \in Nat \ {0}
    /\ MaxBytes \in [Obj -> Nat]
    /\ MaxAttempts \in Nat

VARIABLES
    conn,    \* conn[c]: the private data of the IBBConnection c
    net,     \* net[p]: the stanzas on their way to client p, in order
    hist     \* hist[c]: what the application of c has seen, for the properties

vars == <<conn, net, hist>>

----------------------------------------------------------------------------
States == {"Idle", "Requesting", "WaitingForAccept", "Active"}
Endings == {"none", "local", "cancelled", "finished", "closed", "refused",
            "dataError", "destroyed"}

IqId == [obj : Obj, n : Nat]
NoId == [obj |-> NoObj, n |-> 0]
Task == [mode : {"request", "data"}, id : IqId] \cup {[mode |-> "none", id |-> NoId]}
NoTask == [mode |-> "none", id |-> NoId]

\* One record shape for every stanza; a field a stanza does not carry is empty.
Stanza ==
    [type : {"request", "data", "result", "error"}, id : IqId,
     sid : Obj \cup {NoObj}, data : Seq(Nat), close : BOOLEAN]

Request(id) ==
    [type |-> "request", id |-> id, sid |-> NoObj, data |-> <<>>, close |-> FALSE]
SendData(id, sid, a, close) ==
    [type |-> "data", id |-> id, sid |-> sid, data |-> a, close |-> close]
Success(id, sid) ==
    [type |-> "result", id |-> id, sid |-> sid, data |-> <<>>, close |-> FALSE]
Error(id) ==
    [type |-> "error", id |-> id, sid |-> NoObj, data |-> <<>>, close |-> FALSE]

\* session is the id of the request that started the connection's session:
\* the two ends of one stream have the same one.
Connection ==
    [state : States, sid : Obj \cup {NoObj}, task : Task, sendbuf : Seq(Nat),
     recvbuf : Seq(Nat), closePending : BOOLEAN, closing : BOOLEAN,
     blockSize : Nat, session : IqId \cup {NoId}, nextId : Nat,
     trySendTimer : BOOLEAN, incoming : BOOLEAN]

NewConnection ==
    [state |-> "Idle", sid |-> NoObj, task |-> NoTask, sendbuf |-> <<>>,
     recvbuf |-> <<>>, closePending |-> FALSE, closing |-> FALSE,
     blockSize |-> 0, session |-> NoId, nextId |-> 0,
     trySendTimer |-> FALSE, incoming |-> FALSE]

\* written: bytes write() took; acked: total of the bytesWritten() signals;
\* got: bytes put in recvbuf; read: bytes the application took out of it;
\* over: a chunk was cut while more than one packet was buffered;
\* attempts: calls of connectToJid; ended: the last signal of the session.
History ==
    [written : Nat, acked : Nat, got : Seq(Nat), read : Nat, over : BOOLEAN,
     attempts : Nat, ended : Endings]
NewHistory(n) ==
    [written |-> 0, acked |-> 0, got |-> <<>>, read |-> 0, over |-> FALSE,
     attempts |-> n, ended |-> "none"]

Init ==
    /\ conn = [c \in Obj |-> NewConnection]
    /\ net = [p \in Peer |-> <<>>]
    /\ hist = [c \in Obj |-> NewHistory(0)]

----------------------------------------------------------------------------
(***************************************************************************)
(* The methods of IBBConnection.  Each maps the object, its history and    *)
(* the stanzas sent so far in this step to their new values: [o, h, out].  *)
(***************************************************************************)
\* Seeded fault: the received bytes go with every reset.
ResetAll(o, clear) ==
    [o EXCEPT !.state = "Idle", !.closePending = FALSE, !.closing = FALSE,
              !.task = NoTask, !.sendbuf = <<>>, !.recvbuf = <<>>]
Reset(o, clear) ==
    [o EXCEPT !.state = "Idle", !.closePending = FALSE, !.closing = FALSE,
              !.task = NoTask, !.sendbuf = <<>>,
              !.recvbuf = IF clear THEN <<>> ELSE @]

ResetEnding(x, clear, ending) ==
    [x EXCEPT !.o = Reset(x.o, clear), !.h.ended = ending]

ChunkSize(o) ==
    IF Len(o.sendbuf) < PacketSize THEN Len(o.sendbuf) ELSE PacketSize

\* Seeded fault: one byte too many stays in the buffer.
AfterChunkOffByOne(o) ==
    SubSeq(o.sendbuf, 1, Len(o.sendbuf) - ChunkSize(o) + (IF o.sendbuf = <<>> THEN 0 ELSE 1))
\* QByteArray::resize keeps the front of the buffer.
AfterChunk(o) == SubSeq(o.sendbuf, 1, Len(o.sendbuf) - ChunkSize(o))

TrySend(c, x) ==
    LET a == SubSeq(x.o.sendbuf, 1, ChunkSize(x.o))
        rest == AfterChunk(x.o)
        doClose == rest = <<>> /\ x.o.closePending
        id == [obj |-> c, n |-> x.o.nextId]
    IN  IF x.o.task # NoTask \/ (a = <<>> /\ ~doClose)
        THEN x
        ELSE [o |-> [x.o EXCEPT !.sendbuf = rest,
                                !.closePending = @ /\ ~doClose,
                                !.closing = @ \/ doClose,
                                !.blockSize = Len(a),
                                !.task = [mode |-> "data", id |-> id],
                                !.nextId = @ + 1],
              h |-> [x.h EXCEPT !.over = @ \/ Len(x.o.sendbuf) > PacketSize],
              out |-> Append(x.out, SendData(id, x.o.sid, a, doClose))]

CanWrite(o) == o.state = "Active" /\ ~o.closePending /\ ~o.closing

WriteOp(c, x, n) ==
    IF ~CanWrite(x.o) THEN x
    ELSE TrySend(c, [x EXCEPT !.o.sendbuf = @ \o [i \in 1..n |-> x.h.written + i],
                              !.h.written = @ + n])

\* Seeded fault: close() does not wait for the bytes that are not sent yet.
CloseOpNoWait(c, x) ==
    LET id == [obj |-> c, n |-> x.o.nextId] IN
    CASE x.o.state = "Idle" -> x
      [] x.o.state = "WaitingForAccept" ->
            ResetEnding([x EXCEPT !.out = Append(@, Error(x.o.session))], FALSE, "local")
      [] x.o.state = "Requesting" -> ResetEnding(x, FALSE, "cancelled")
      [] x.o.state = "Active" ->
            ResetEnding([x EXCEPT !.o.nextId = @ + 1,
                                  !.out = Append(@, SendData(id, x.o.sid, <<>>, TRUE))],
                        FALSE, "local")
\* Seeded fault: a connection without buffered data closes without a word.
CloseOpSilent(c, x) ==
    CASE x.o.state = "Idle" -> x
      [] x.o.state = "WaitingForAccept" ->
            ResetEnding([x EXCEPT !.out = Append(@, Error(x.o.session))], FALSE, "local")
      [] x.o.state = "Requesting" -> ResetEnding(x, FALSE, "cancelled")
      [] x.o.state = "Active" /\ x.o.sendbuf # <<>> ->
            TrySend(c, [x EXCEPT !.o.closePending = TRUE])
      [] x.o.state = "Active" /\ x.o.sendbuf = <<>> -> ResetEnding(x, FALSE, "local")
CloseOp(c, x) ==
    CASE x.o.state = "Idle" -> x
      [] x.o.state = "WaitingForAccept" ->
            ResetEnding([x EXCEPT !.out = Append(@, Error(x.o.session))], FALSE, "local")
      [] x.o.state = "Requesting" -> ResetEnding(x, FALSE, "cancelled")
      [] x.o.state = "Active" /\ x.o.sendbuf # <<>> ->
            TrySend(c, [x EXCEPT !.o.closePending = TRUE])
      [] x.o.state = "Active" /\ x.o.sendbuf = <<>> ->
            LET id == [obj |-> c, n |-> x.o.nextId]
            IN  ResetEnding(
                  [x EXCEPT !.o.nextId = @ + 1,
                            !.out = Append(@, SendData(id, x.o.sid, <<>>, TRUE))],
                  FALSE, "local")

\* What the application does in a slot connected to one of the signals.
Reaction(c) ==
    [call : {"nothing", "close"}, n : {0}] \cup [call : {"write"}, n : 1..MaxBytes[c]]
React(c, x, r) ==
    CASE r.call = "nothing" -> x
      [] r.call = "close" -> CloseOp(c, x)
      [] r.call = "write" -> WriteOp(c, x, r.n)
Affordable(c, n) == hist[c].written + n <= MaxBytes[c]

Start(c) == [o |-> conn[c], h |-> hist[c], out |-> <<>>]

\* c's step is over: its new state, its history, and what it sent.
Commit(c, x, queue) ==
    /\ conn' = [conn EXCEPT ![c] = x.o]
    /\ hist' = [hist EXCEPT ![c] = x.h]
    /\ net' = [queue EXCEPT ![Other[Home[c]]] = @ \o x.out]

----------------------------------------------------------------------------
(* Calls of the application.                                               *)

ConnectToJid(c) ==
    LET closed == CloseOp(c, Start(c))
        id == [obj |-> c, n |-> closed.o.nextId]
    IN  /\ c \in Initiators
        /\ hist[c].attempts < MaxAttempts
        /\ Commit(c,
             [o |-> [Reset(closed.o, TRUE) EXCEPT
                       !.state = "Requesting", !.session = id, !.nextId = @ + 1,
                       !.task = [mode |-> "request", id |-> id]],
              h |-> NewHistory(hist[c].attempts + 1),
              out |-> Append(closed.out, Request(id))],
             net)

TakeIncoming(c) ==
    /\ conn[c].incoming
    /\ conn' = [conn EXCEPT ![c].incoming = FALSE]
    /\ UNCHANGED <<net, hist>>

Accept(c) ==
    /\ conn[c].state = "WaitingForAccept"
    /\ ~conn[c].incoming
    /\ Commit(c, [o |-> [conn[c] EXCEPT !.state = "Active"],
                  h |-> hist[c],
                  out |-> <<Success(conn[c].session, conn[c].sid)>>],
              net)

Close(c) ==
    /\ conn[c].state # "Idle"
    /\ ~conn[c].incoming
    /\ Commit(c, CloseOp(c, Start(c)), net)

Write(c, n) ==
    /\ CanWrite(conn[c])
    /\ Affordable(c, n)
    /\ Commit(c, WriteOp(c, Start(c), n), net)

Read(c) ==
    /\ conn[c].recvbuf # <<>>
    /\ conn' = [conn EXCEPT ![c].recvbuf = <<>>]
    /\ hist' = [hist EXCEPT ![c].read = @ + Len(conn[c].recvbuf)]
    /\ UNCHANGED net

\* The application deletes the connection: nothing is sent to the peer.
\* Client::ibb_incomingReady does this to every incoming connection.
Destroy(c) ==
    /\ conn[c].state # "Idle"
    /\ ~conn[c].incoming
    /\ Commit(c, ResetEnding([Start(c) EXCEPT !.o.trySendTimer = FALSE], TRUE, "destroyed"),
              net)

----------------------------------------------------------------------------
(* Events: the zero-length timer of ibb_finished, and incoming stanzas.    *)

TrySendTimer(c) ==
    /\ conn[c].trySendTimer
    /\ Commit(c, TrySend(c, [Start(c) EXCEPT !.o.trySendTimer = FALSE]), net)

Popped(p) == [net EXCEPT ![p] = Tail(@)]

IncomingRequest(p, m) ==
    \E c \in Pool :
        /\ Home[c] = p
        /\ conn[c].session = NoId
        /\ conn' = [conn EXCEPT ![c] =
                      [NewConnection EXCEPT !.state = "WaitingForAccept", !.sid = c,
                                            !.session = m.id, !.incoming = TRUE]]
        /\ net' = Popped(p)
        /\ UNCHANGED hist

\* IBBManager::findConnection over activeConns.
FindConnection(p, sid) ==
    {c \in Obj : Home[c] = p /\ conn[c].state = "Active" /\ conn[c].sid = sid}

IncomingData(p, m) ==
    \/ /\ FindConnection(p, m.sid) = {}
       /\ net' = [Popped(p) EXCEPT ![Other[p]] = Append(@, Error(m.id))]
       /\ UNCHANGED <<conn, hist>>
    \/ \E c \in FindConnection(p, m.sid) : \E r \in Reaction(c) :
        LET taken == [o |-> [conn[c] EXCEPT !.recvbuf = @ \o m.data],
                      h |-> [hist[c] EXCEPT !.got = @ \o m.data],
                      out |-> <<Success(m.id, NoObj)>>]
            reacted == React(c, taken, r)   \* readyRead()
        IN  /\ Affordable(c, r.n)
            /\ Commit(c, IF m.close THEN ResetEnding(reacted, FALSE, "closed")
                                    ELSE reacted,
                      Popped(p))

\* The connection whose task the response m answers, if it still has it.
Waiting(p, m) == {c \in Obj : Home[c] = p /\ conn[c].task.id = m.id /\ conn[c].task # NoTask}

ResponseDropped(p, m) ==
    /\ Waiting(p, m) = {}
    /\ net' = Popped(p)
    /\ UNCHANGED <<conn, hist>>

RequestFinished(p, m, c) ==
    /\ conn[c].task.mode = "request"
    /\ Commit(c,
         IF m.type = "result"
         THEN [Start(c) EXCEPT !.o.task = NoTask, !.o.sid = m.sid, !.o.state = "Active"]
         ELSE ResetEnding(Start(c), TRUE, "refused"),
         Popped(p))

\* Seeded faults: only a waiting close, or nothing, makes the next chunk leave.
AgainForClose(o) == o.sendbuf # <<>> /\ o.closePending
NeverAgain(o) == FALSE
Again(o) == o.sendbuf # <<>> \/ o.closePending

DataFinished(p, m, c, r) ==
    LET acked == [Start(c) EXCEPT !.o.task = NoTask, !.h.acked = @ + conn[c].blockSize]
        reacted == React(c, acked, r)       \* bytesWritten()
        closed == IF reacted.o.closing THEN ResetEnding(reacted, FALSE, "finished")
                                       ELSE reacted
    IN  /\ conn[c].task.mode = "data"
        /\ m.type = "result"
        /\ Affordable(c, r.n)
        /\ Commit(c, [closed EXCEPT !.o.trySendTimer = @ \/ Again(closed.o)], Popped(p))

DataRefused(p, m, c) ==
    /\ conn[c].task.mode = "data"
    /\ m.type = "error"
    /\ Commit(c, ResetEnding(Start(c), TRUE, "dataError"), Popped(p))

Deliver(p) ==
    /\ net[p] # <<>>
    /\ LET m == Head(net[p]) IN
         \/ m.type = "request" /\ IncomingRequest(p, m)
         \/ m.type = "data" /\ IncomingData(p, m)
         \/ /\ m.type \in {"result", "error"}
            /\ \/ ResponseDropped(p, m)
               \/ \E c \in Waiting(p, m) :
                    \/ RequestFinished(p, m, c)
                    \/ \E r \in Reaction(c) : DataFinished(p, m, c, r)
                    \/ DataRefused(p, m, c)

User(c) ==
    \/ ConnectToJid(c)
    \/ TakeIncoming(c)
    \/ Accept(c)
    \/ Close(c)
    \/ \E n \in 1..MaxBytes[c] : Write(c, n)
    \/ Read(c)
    \/ Destroy(c)

Next ==
    \/ \E c \in Obj : User(c)
    \/ \E c \in Obj : TrySendTimer(c)
    \/ \E p \in Peer : Deliver(p)

Spec == Init /\ [][Next]_vars

\* The event loop serves a timer that is due, and a server delivers a stanza.
\* Nothing is assumed of the users.
Fairness ==
    /\ \A c \in Obj : WF_vars(TrySendTimer(c))
    /\ \A p \in Peer : WF_vars(Deliver(p))

FairSpec == Spec /\ Fairness

----------------------------------------------------------------------------
\* Every object, stanza and timer stays well-formed: in particular the id of a
\* stanza is an object and a number, and its stream id is a connection's.
TypeOK ==
    /\ conn \in [Obj -> Connection]
    /\ net \in [Peer -> Seq(Stanza)]
    /\ hist \in [Obj -> History]

\* c and d are the two ends of one stream.
SameStream(c, d) ==
    c # d /\ conn[c].session = conn[d].session /\ conn[c].session # NoId

\* The bytes c has sent to d that have not arrived yet.
InFlight(c, d) ==
    LET q == net[Home[d]]
        sent == {i \in DOMAIN q : q[i].type = "data" /\ q[i].id.obj = c
                                    /\ q[i].sid \in {c, d}}
    IN  Cardinality(UNION {{i} \X DOMAIN q[i].data : i \in sent})

\* ByteStream promises a pipe of data: what arrives at one end is what was
\* written at the other, nothing lost, repeated or out of order.
Pipe(c, d) ==
    /\ Len(hist[d].got) <= hist[c].written
    /\ \A i \in 1..Len(hist[d].got) : hist[d].got[i] = i

\* As long as no chunk was cut from a buffer that held more than one packet,
\* acknowledgements, the trySend timer, closes and application calls from
\* inside the signals interleave without losing or repeating a byte.
PipeUntilOverflow ==
    \A c, d \in Obj : SameStream(c, d) /\ ~hist[c].over => Pipe(c, d)

\* Every byte write() took is received, under way or still buffered, also
\* after the writer closed: close() gives everything to the wire first.  It
\* holds until the receiver leaves or the writer is cut off.
BytesAccounted ==
    \A c, d \in Obj :
        SameStream(c, d) /\ hist[d].ended \in {"none", "closed"}
                        /\ hist[c].ended \in {"none", "local", "finished"}
        => Len(hist[d].got) + InFlight(c, d) + Len(conn[c].sendbuf) = hist[c].written

\* A close by the peer leaves what was received before it readable.
ReceivedStaysReadable ==
    \A c \in Obj : hist[c].ended \notin {"refused", "dataError", "destroyed"} =>
        hist[c].read + Len(conn[c].recvbuf) = Len(hist[c].got)

\* Two ends that close as they please never make each other fail: ErrData
\* means the other end was deleted, or withdrew a request it had sent.
DataErrorOnlyIfAbandoned ==
    \A c, d \in Obj : SameStream(c, d) /\ hist[c].ended = "dataError" =>
        hist[d].ended \in {"cancelled", "destroyed"}

\* A close that waits for buffered data completes, whatever the peer does.
CloseCompletes ==
    \A c \in Obj : conn[c].closePending \/ conn[c].closing
                     ~> ~(conn[c].closePending \/ conn[c].closing)

\* Every byte is acknowledged in the end, unless the connection ends.
WrittenIsAcked ==
    \A c \in Obj : \A n \in 1..MaxBytes[c] :
        conn[c].state = "Active" /\ hist[c].written >= n
            ~> conn[c].state # "Active" \/ hist[c].acked >= n

=============================================================================
