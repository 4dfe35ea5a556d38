--------------------------- MODULE S5BNegotiation ---------------------------
(***************************************************************************)
(* SOCKS5 bytestreams (iris, s5b.cpp): the initiator and the target of a   *)
(* stream agree on one TCP connection.  In "fast mode" both clients offer  *)
(* stream hosts and both dial the other's, so that up to four connections  *)
(* compete; the initiator picks one by writing a CR on it.                 *)
(*                                                                         *)
(* Both clients run the same S5BManager.  The S5BConnection and the        *)
(* S5BManager::Item of the stream are one record per client, the stanzas   *)
(* travel in order through the servers (net), and everything TCP, the      *)
(* S5BServers and the proxies do is an event of the environment.           *)
(* The streams are of the TCP mode; S5BConnection::Datagram is not here.   *)
(***************************************************************************)
EXTENDS Naturals, Sequences, FiniteSets

CONSTANTS
    Ini,          \* the client that calls connectToJid
    Tgt,          \* the client that is asked
    Closers,      \* bound: the clients whose user may close the connection
    MaxBreaks     \* bound: TCP connections that break during a run

Peer == {Ini, Tgt}
Other(p) == IF p = Ini THEN Tgt ELSE Ini

\* The iq ids: each client makes one request, so its id is the client.
NoId == "noId"
ReqId == Peer \cup {NoId}

ASSUME PeerAssumption ==
    Ini # Tgt /\ NoId \notin Peer /\ Closers \subseteq Peer /\ MaxBreaks \in Nat

VARIABLES
    server,    \* the clients with an active S5BServer
    hasProxy,  \* the clients with a proxy configured
    peer,      \* peer[p]: connection, item and TCP connection ends of client p
    net,       \* net[p]: stanzas on their way to p
    cr,        \* cr[s]: the CR written on the TCP connection s
    hist       \* what happened, for the properties

vars == <<server, hasProxy, peer, net, cr, hist>>

----------------------------------------------------------------------------
\* A StreamHost and the TCP connection made to it: the server of its owner,
\* dialled by the other client, or the proxy of its owner, dialled by both.
Stream == [kind : {"direct", "proxy"}, owner : Peer]
Direct(p) == [kind |-> "direct", owner |-> p]
Proxy(p) == [kind |-> "proxy", owner |-> p]
NoStream == [kind |-> "none", owner |-> Ini]
IsProxy(s) == s.kind = "proxy"

Codes == {404, 406}
NoCode == 0

Stanza ==
    [type : {"request", "result", "error"}, id : ReqId, hosts : SUBSET Stream,
     fast : BOOLEAN, used : Stream \cup {NoStream}, code : Codes \cup {NoCode}]
Request(id, hosts, fast) ==
    [type |-> "request", id |-> id, hosts |-> hosts, fast |-> fast,
     used |-> NoStream, code |-> NoCode]
RespondSuccess(id, used) ==
    [type |-> "result", id |-> id, hosts |-> {}, fast |-> FALSE,
     used |-> used, code |-> NoCode]
RespondError(id, code) ==
    [type |-> "error", id |-> id, hosts |-> {}, fast |-> FALSE,
     used |-> NoStream, code |-> code]

\* S5BManager::Item.  task, proxyConn and proxyTask tell whether the pointer is
\* set; conn is the set of hosts the S5BConnector still dials, empty when the
\* pointer is null; proxyConn likewise.
Item ==
    [state : {"Idle", "Initiator", "Target", "Active"},
     targetMode : {"Unknown", "Fast", "NotFast"}, fast : BOOLEAN,
     activated : BOOLEAN, lateProxy : BOOLEAN, connSuccess : BOOLEAN,
     localFailed : BOOLEAN, remoteFailed : BOOLEAN, allowIncoming : BOOLEAN,
     inHosts : SUBSET Stream, inId : ReqId, outId : ReqId, task : BOOLEAN,
     conn : SUBSET Stream, proxyConn : BOOLEAN,
     proxyTask : {"none", "sent", "activated"}, proxy : BOOLEAN,
     statusCode : Codes \cup {NoCode},
     client : Stream \cup {NoStream}, clientOut : Stream \cup {NoStream}]
NewItem ==
    [state |-> "Idle", targetMode |-> "Unknown", fast |-> FALSE,
     activated |-> FALSE, lateProxy |-> FALSE, connSuccess |-> FALSE,
     localFailed |-> FALSE, remoteFailed |-> FALSE, allowIncoming |-> FALSE,
     inHosts |-> {}, inId |-> NoId, outId |-> NoId, task |-> FALSE,
     conn |-> {}, proxyConn |-> FALSE, proxyTask |-> "none", proxy |-> FALSE,
     statusCode |-> NoCode, client |-> NoStream, clientOut |-> NoStream]

\* con is S5BConnection::state; sc its socket; entry what activeList has for it:
\* nothing, an entry without an item, an entry that queries the proxy, or one
\* with an item.  end[s] is p's end of the TCP connection s.
Ended == {"none", "user", "refused", "connect", "wrongHost", "proxy", "closed", "socket"}
PeerState ==
    [con : {"Idle", "Requesting", "Connecting", "WaitingForAccept", "Active"},
     sc : Stream \cup {NoStream}, entry : {"none", "bare", "query", "item"},
     item : Item, req : [hosts : SUBSET Stream, fast : BOOLEAN],
     end : [Stream -> {"none", "dialing", "open", "closed"}], ended : Ended,
     role : {"none", "Initiator", "Target"}]
NewPeer ==
    [con |-> "Idle", sc |-> NoStream, entry |-> "none", item |-> NewItem,
     req |-> [hosts |-> {}, fast |-> FALSE],
     end |-> [s \in Stream |-> "none"], ended |-> "none", role |-> "none"]

\* answered[p]: responses sent to the request of p; lostGrant: a server granted
\* a connection that the dialling client gave up; early: a target activated
\* while its own request was unanswered; bad: a null or deleted object is used;
\* chosen: the first connection that got a CR or was given to a user.
History ==
    [answered : [Peer -> 0..1], lostGrant : BOOLEAN, early : BOOLEAN,
     bad : BOOLEAN, breaks : Nat, chosen : Stream \cup {NoStream}]

Init ==
    /\ server \in SUBSET Peer
    /\ hasProxy \in SUBSET Peer
    /\ peer = [p \in Peer |-> NewPeer]
    /\ net = [p \in Peer |-> <<>>]
    /\ cr = [s \in Stream |-> "none"]
    /\ hist = [answered |-> [p \in Peer |-> 0], lostGrant |-> FALSE,
               early |-> FALSE, bad |-> FALSE, breaks |-> 0, chosen |-> NoStream]

----------------------------------------------------------------------------
(***************************************************************************)
(* The methods of S5BManager::Item.  x is the state of one handler of      *)
(* client p: m, p's record; out, the stanzas sent; crs, the CRs; flags.    *)
(***************************************************************************)
Start(p) ==
    [m |-> peer[p], out |-> <<>>, crs |-> cr, early |-> FALSE, bad |-> FALSE,
     broke |-> FALSE]

Send(x, stanza) == [x EXCEPT !.out = Append(@, stanza)]

\* delete on a TCP connection's end, or on all of them.
Drop(x, s) ==
    IF s = NoStream THEN x
    ELSE [x EXCEPT !.m.end[s] = IF @ = "none" THEN "none" ELSE "closed"]
DropMany(x, streams) ==
    [x EXCEPT !.m.end = [s \in Stream |->
        IF s \in streams /\ @[s] # "none" THEN "closed" ELSE @[s]]]

\* S5BConnection::reset(true), which deletes the entry and the item.
Gone(x, why) ==
    [DropMany(x, Stream) EXCEPT !.m = [@ EXCEPT !.con = "Idle", !.sc = NoStream,
        !.entry = "none", !.item = NewItem, !.ended = why]]

\* reset(); error(x): item_error, man_failed.
Fail(x, why) == Gone(x, why)

Finished(x) ==
    LET s == x.m.item.client IN
    IF s = NoStream THEN [x EXCEPT !.bad = TRUE]
    ELSE [x EXCEPT !.m = [@ EXCEPT !.con = "Active", !.sc = s,
                        !.item = [x.m.item EXCEPT !.state = "Active", !.client = NoStream]],
                   !.early = @ \/ (x.m.role = "Target" /\ x.m.item.task)]

TryActivation(x) ==
    LET i == x.m.item IN
    CASE i.activated -> x
      [] ~i.activated /\ i.targetMode = "NotFast" -> Finished(x)
      [] ~i.activated /\ i.targetMode = "Unknown" -> x
      [] ~i.activated /\ i.targetMode = "Fast" ->
            IF i.client = NoStream THEN [x EXCEPT !.bad = TRUE]
            ELSE [x EXCEPT !.m.item = [@ EXCEPT !.task = FALSE, !.activated = TRUE],
                           !.crs[i.client] = "sent"]

\* Seeded fault: a fast-mode target does not wait for the CR.
ChoicesNoCR(x) == {x.m.item.client, x.m.item.clientOut} \ {NoStream}
\* A stream to go on with: in fast mode one on which the CR has come.
Choices(x) ==
    {s \in {x.m.item.client, x.m.item.clientOut} \ {NoStream} :
        ~x.m.item.fast \/ x.crs[s] = "arrived"}

\* Seeded fault: the CR is looked at and left in the stream.
CheckForActivationPeek(x) ==
    LET i == x.m.item
        s == IF i.client \in Choices(x) THEN i.client ELSE i.clientOut
    IN  IF Choices(x) = {} THEN x
        ELSE Finished([DropMany(x, {i.client, i.clientOut} \ {s}) EXCEPT
                         !.m.item = [i EXCEPT !.client = s, !.clientOut = NoStream,
                                              !.activated = TRUE]])
CheckForActivation(x) ==
    LET i == x.m.item
        s == IF i.client \in Choices(x) THEN i.client ELSE i.clientOut
        chosen == [DropMany(x, {i.client, i.clientOut} \ {s}) EXCEPT
                     !.m.item = [i EXCEPT !.client = s, !.clientOut = NoStream,
                                          !.activated = TRUE],
                     !.crs = IF i.fast THEN [@ EXCEPT ![s] = "taken"] ELSE @]
    IN  IF Choices(x) # {} THEN Finished(chosen)
        ELSE IF i.activated THEN Finished(x)
        ELSE x

CheckFailure(x) ==
    LET i == x.m.item
        initiatorFailed == i.remoteFailed /\ (i.targetMode = "NotFast"
                              \/ (i.localFailed /\ i.targetMode = "Fast"))
        targetFailed == i.localFailed /\ (i.remoteFailed \/ ~i.fast)
    IN  IF i.state = "Initiator"
        THEN IF ~initiatorFailed THEN x
             ELSE Fail(x, IF i.statusCode = 404 THEN "connect" ELSE "refused")
        ELSE IF targetFailed THEN Fail(x, "connect") ELSE x

\* Seeded fault: the failure is noted and not reported.
DoConnectErrorSilent(x) == CheckFailure([x EXCEPT !.m.item.localFailed = TRUE])
DoConnectError(x) ==
    CheckFailure(Send([x EXCEPT !.m.item.localFailed = TRUE],
                      RespondError(x.m.item.inId, 404)))

Dial(x, hosts) ==
    [x EXCEPT !.m.item.conn = hosts,
              !.m.end = [s \in Stream |-> IF s \in hosts THEN "dialing" ELSE @[s]]]

DoIncoming(x) ==
    LET i == x.m.item
        proxies == {s \in i.inHosts : IsProxy(s)}
        mayDelay == (i.state = "Initiator" \/ (i.state = "Target" /\ i.fast)) /\ ~i.proxy
    IN  CASE i.inHosts = {} -> DoConnectError(x)
          [] i.inHosts # {} /\ i.lateProxy ->
                Dial([x EXCEPT !.m.item.lateProxy = FALSE], proxies)
          [] i.inHosts # {} /\ ~i.lateProxy /\ mayDelay ->
                Dial([x EXCEPT !.m.item.lateProxy = proxies # {}], i.inHosts \ proxies)
          [] i.inHosts # {} /\ ~i.lateProxy /\ ~mayDelay -> Dial(x, i.inHosts)

\* Seeded fault: a proxy is offered that did not answer the query.
OwnHostsUnchecked(p, x) ==
    (IF p \in server THEN {Direct(p)} ELSE {})
        \cup (IF p \in hasProxy THEN {Proxy(p)} ELSE {})
OwnHosts(p, x) ==
    (IF p \in server THEN {Direct(p)} ELSE {})
        \cup (IF x.m.item.proxy THEN {Proxy(p)} ELSE {})

DoOutgoing(p, x) ==
    LET hosts == OwnHosts(p, x) IN
    IF x.m.item.state = "Target" /\ hosts = {}
    THEN [x EXCEPT !.m.item.fast = FALSE]
    ELSE Send([x EXCEPT !.m.item = [@ EXCEPT !.allowIncoming = TRUE, !.task = TRUE,
                                             !.outId = p]],
              Request(p, hosts, x.m.item.state = "Initiator"))

\* entryContinue: a new item, which starts as initiator or as target.
StartInitiator(p, x) ==
    DoOutgoing(p, [x EXCEPT !.m.item.state = "Initiator", !.m.role = "Initiator"])

StartTarget(p, x) ==
    LET y == [x EXCEPT !.m = [@ EXCEPT !.role = "Target",
                !.item = [x.m.item EXCEPT !.state = "Target", !.inHosts = x.m.req.hosts,
                                          !.inId = Other(p), !.fast = x.m.req.fast]]]
    IN  DoIncoming(IF x.m.req.fast THEN DoOutgoing(p, y) ELSE y)

EntryContinue(p, x, proxyInfo) ==
    LET y == [x EXCEPT !.m.entry = "item", !.m.item = [NewItem EXCEPT !.proxy = proxyInfo]]
    IN  IF p = Ini THEN StartInitiator(p, y) ELSE StartTarget(p, y)

HandleFast(x, hosts, id) ==
    IF x.m.item.client # NoStream
    THEN Send([x EXCEPT !.m.item.targetMode = "Fast"], RespondError(id, 406))
    ELSE DoIncoming([x EXCEPT !.m.item = [@ EXCEPT !.targetMode = "Fast",
                                                   !.inHosts = hosts, !.inId = id]])

----------------------------------------------------------------------------
(* The answer to the client's own request.                                 *)

JtSuccess(p, x, used) ==
    LET stop == x.m.item.conn # {} \/ x.m.item.lateProxy
        y == IF stop THEN DoConnectError([DropMany(x, x.m.item.conn) EXCEPT !.m.item.conn = {}])
                     ELSE x
        i == y.m.item
    IN  CASE y.m.entry # "item" -> [y EXCEPT !.bad = TRUE]
          [] y.m.entry = "item" /\ used = Direct(p) ->
                IF i.client = NoStream THEN Fail(y, "wrongHost")
                ELSE IF i.state = "Initiator" THEN TryActivation(y)
                ELSE CheckForActivation(y)
          [] y.m.entry = "item" /\ used = Proxy(p) /\ i.proxy ->
                [Drop(y, i.client) EXCEPT !.m = [@ EXCEPT !.end[Proxy(p)] = "dialing",
                    !.item = [i EXCEPT !.client = NoStream, !.allowIncoming = FALSE,
                                       !.proxyConn = TRUE]]]
          [] y.m.entry = "item" /\ used # Direct(p) /\ ~(used = Proxy(p) /\ i.proxy) ->
                Fail(y, "wrongHost")

JtError(x, code) ==
    LET y == [x EXCEPT !.m.item = [@ EXCEPT !.remoteFailed = TRUE, !.statusCode = code]]
        i == y.m.item
    IN  CASE i.lateProxy -> IF i.conn = {} THEN DoIncoming(y) ELSE y
          [] ~i.lateProxy /\ i.connSuccess -> CheckForActivation(y)
          [] ~i.lateProxy /\ ~i.connSuccess -> CheckFailure(y)

JtFinished(p, x, stanza) ==
    LET i == x.m.item
        mode == IF i.state = "Initiator" /\ i.targetMode = "Unknown" THEN "NotFast"
                ELSE i.targetMode
        y == [x EXCEPT !.m.item = [i EXCEPT !.task = FALSE, !.targetMode = mode]]
    IN  CASE i.state = "Initiator" /\ i.connSuccess -> TryActivation(y)
          [] ~(i.state = "Initiator" /\ i.connSuccess) /\ stanza.type = "result" ->
                JtSuccess(p, y, stanza.used)
          [] ~(i.state = "Initiator" /\ i.connSuccess) /\ stanza.type = "error" ->
                JtError(y, stanza.code)

\* Seeded fault: the incoming connection is not tossed.
ConnSuccessNoToss(x, s) ==
    LET y == Send([DropMany(x, x.m.item.conn \ {s}) EXCEPT
                     !.m.end[s] = "open", !.m.item.conn = {},
                     !.m.item.connSuccess = TRUE, !.m.item.lateProxy = FALSE],
                  RespondSuccess(x.m.item.inId, s))
    IN  IF x.m.item.state = "Initiator"
        THEN TryActivation([y EXCEPT !.m.item.client = s, !.m.item.allowIncoming = FALSE])
        ELSE CheckForActivation([y EXCEPT !.m.item.clientOut = s])

\* Seeded fault: the initiator activates before it takes the new connection.
ConnSuccessSwapped(x, s) ==
    LET y == Send([x EXCEPT !.m.end[s] = "open", !.m.item.conn = {},
                            !.m.item.connSuccess = TRUE],
                  RespondSuccess(x.m.item.inId, s))
    IN  IF x.m.item.state = "Initiator"
        THEN [TryActivation(y) EXCEPT !.m.item.client = s]
        ELSE CheckForActivation([y EXCEPT !.m.item.clientOut = s])
\* conn_result: the connector reached the host s, or none of its hosts.
ConnSuccess(x, s) ==
    LET i == x.m.item
        y == Send([DropMany(x, i.conn \ {s}) EXCEPT !.m = [@ EXCEPT !.end[s] = "open",
                     !.item = [i EXCEPT !.conn = {}, !.connSuccess = TRUE,
                                        !.lateProxy = FALSE]]],
                  RespondSuccess(i.inId, s))
    IN  IF i.state = "Initiator"
        THEN TryActivation([Drop(y, i.client) EXCEPT
                    !.m.item = [@ EXCEPT !.client = s, !.allowIncoming = FALSE]])
        ELSE CheckForActivation([y EXCEPT !.m.item.clientOut = s])

\* Seeded fault: the error is sent although the proxies are still to be tried.
ConnFailureEager(x) ==
    IF x.m.item.lateProxy /\ x.m.item.remoteFailed THEN DoIncoming(x)
    ELSE DoConnectError(x)
ConnFailure(x) ==
    LET i == x.m.item IN
    CASE ~i.lateProxy -> DoConnectError(x)
      [] i.lateProxy /\ i.remoteFailed -> DoIncoming(x)
      [] i.lateProxy /\ ~i.remoteFailed -> x

\* The answers to p's request among the stanzas.
Answers(p, stanzas) ==
    Cardinality({k \in DOMAIN stanzas : stanzas[k].type # "request" /\ stanzas[k].id = p})

Picked(p, x) ==
    {s \in Stream : (cr[s] = "none" /\ x.crs[s] # "none") \/ x.m.sc = s}

Commit(p, x, queue) ==
    /\ peer' = [peer EXCEPT ![p] = x.m]
    /\ net' = [queue EXCEPT ![Other(p)] = @ \o x.out]
    /\ cr' = x.crs
    /\ hist' = [hist EXCEPT !.answered[Other(p)] = @ + Answers(Other(p), x.out),
                            !.early = @ \/ x.early,
                            !.bad = @ \/ x.bad,
                            !.chosen = IF @ # NoStream \/ Picked(p, x) = {} THEN @
                                       ELSE CHOOSE s \in Picked(p, x) : TRUE,
                            !.breaks = IF x.broke THEN @ + 1 ELSE @,
                            !.lostGrant = @ \/ \E s \in Stream :
                                /\ peer[p].end[s] = "dialing" /\ x.m.end[s] # "open"
                                /\ peer[Other(p)].end[s] # "none"]
    /\ UNCHANGED <<server, hasProxy>>

----------------------------------------------------------------------------
(* Calls of the user.                                                      *)

ConnectToJid ==
    /\ peer[Ini].con = "Idle" /\ peer[Ini].ended = "none"
    /\ LET x == [Start(Ini) EXCEPT !.m.con = "Requesting"]
       IN  Commit(Ini, IF Ini \in hasProxy THEN [x EXCEPT !.m.entry = "query"]
                       ELSE EntryContinue(Ini, x, FALSE), net)

\* if target, don't offer any proxy if the initiator already did
TargetShouldOfferProxy(p) ==
    p \in hasProxy /\ \A s \in peer[p].req.hosts : ~IsProxy(s)

Accept(p) ==
    /\ peer[p].con = "WaitingForAccept"
    /\ LET x == [Start(p) EXCEPT !.m.con = "Connecting"]
       IN  Commit(p, IF peer[p].req.fast /\ TargetShouldOfferProxy(p)
                     THEN [x EXCEPT !.m.entry = "query"]
                     ELSE EntryContinue(p, x, FALSE), net)

\* con_unlink: the id is the one of p's own request.
CancelStanzas(p) ==
    IF peer[p].entry = "item" /\ peer[p].item.conn # {}
    THEN <<RespondError(peer[p].item.outId, 406)>> ELSE <<>>

Unlink(p, why) == [Gone(Start(p), why) EXCEPT !.out = CancelStanzas(p)]

Close(p) ==
    /\ p \in Closers
    /\ peer[p].con # "Idle"
    /\ Commit(p, IF peer[p].con = "WaitingForAccept"
                 THEN [Gone(Start(p), "user") EXCEPT !.out = <<RespondError(Other(p), 406)>>]
                 ELSE Unlink(p, "user"), net)

----------------------------------------------------------------------------
(* The stanzas.                                                            *)

QueryFinished(p) ==
    /\ peer[p].entry = "query"
    /\ \E ok \in BOOLEAN : Commit(p, EntryContinue(p, Start(p), ok), net)

Popped(p) == [net EXCEPT ![p] = Tail(@)]

\* ps_incoming.  A client that has no entry for the sid takes a request for a
\* new one.  Client::s5b_incomingReady passes it to FileTransferManager, which
\* closes it when no transfer waits for it, as after the initiator's close.
PsIncoming(p, z) ==
    LET i == peer[p].item
        known == peer[p].entry = "item"
        fastAllowed == known /\ i.state = "Initiator" /\ i.targetMode = "Unknown"
        wanted == p = Tgt /\ peer[p].con = "Idle" /\ peer[p].ended = "none"
    IN  \/ /\ fastAllowed
           /\ Commit(p, HandleFast(Start(p), z.hosts, z.id), Popped(p))
        \/ /\ ~fastAllowed /\ (known \/ ~wanted)
           /\ Commit(p, Send(Start(p), RespondError(z.id, 406)), Popped(p))
        \/ /\ ~known /\ wanted
           /\ Commit(p, [Start(p) EXCEPT !.m.con = "WaitingForAccept", !.m.entry = "bare",
                            !.m.req = [hosts |-> z.hosts, fast |-> z.fast]], Popped(p))

Response(p, z) ==
    IF peer[p].item.task /\ z.id = peer[p].item.outId
    THEN Commit(p, JtFinished(p, Start(p), z), Popped(p))
    ELSE Commit(p, Start(p), Popped(p))

Deliver(p) ==
    /\ net[p] # <<>>
    /\ LET z == Head(net[p]) IN
         \/ z.type = "request" /\ PsIncoming(p, z)
         \/ z.type \in {"result", "error"} /\ Response(p, z)

----------------------------------------------------------------------------
(* TCP: the connector of p, the S5BServer of the other side, the proxies.  *)

\* srv_incomingReady, at the owner of the host.
Incoming(p) ==
    LET q == Other(p)
        s == Direct(p)
    IN  /\ peer[q].end[s] = "dialing" /\ peer[p].end[s] = "none"
        /\ p \in server
        /\ peer[p].entry = "item" /\ peer[p].item.allowIncoming
        /\ Commit(p, [Start(p) EXCEPT !.m = [@ EXCEPT !.end[s] = "open",
                        !.item = [peer[p].item EXCEPT !.client = s,
                                                      !.allowIncoming = FALSE]]], net)

\* A host refuses, denies or cannot be reached; the last one ends the connector.
HostFails(p, s) ==
    /\ s \in peer[p].item.conn
    /\ LET x == [Drop(Start(p), s) EXCEPT !.m.item.conn = @ \ {s}]
       IN  Commit(p, IF x.m.item.conn = {} THEN ConnFailure(x) ELSE x, net)

ConnectorTimeout(p) ==
    /\ peer[p].item.conn # {}
    /\ Commit(p, ConnFailure([DropMany(Start(p), peer[p].item.conn)
                                EXCEPT !.m.item.conn = {}]), net)

HostConnected(p, s) ==
    /\ s \in peer[p].item.conn
    /\ IsProxy(s) \/ peer[Other(p)].end[s] # "none"
    /\ Commit(p, ConnSuccess(Start(p), s), net)

\* proxy_result
ProxyResult(p) ==
    /\ peer[p].item.proxyConn
    /\ \E ok \in BOOLEAN :
         LET x == [Start(p) EXCEPT !.m.item.proxyConn = FALSE] IN
         Commit(p, IF ok THEN [x EXCEPT !.m = [@ EXCEPT !.end[Proxy(p)] = "open",
                                  !.item = [x.m.item EXCEPT !.client = Proxy(p),
                                                            !.proxyTask = "sent"]]]
                         ELSE Fail(x, "proxy"), net)

\* The proxy joins the two connections, then answers.
ProxyActivates(p) ==
    /\ peer[p].item.proxyTask = "sent"
    /\ Commit(p, [Start(p) EXCEPT !.m.item.proxyTask = "activated"], net)

ProxyFinished(p) ==
    /\ peer[p].item.proxyTask # "none"
    /\ \E ok \in BOOLEAN :
         LET x == [Start(p) EXCEPT !.m.item.proxyTask = "none"] IN
         /\ ok <=> peer[p].item.proxyTask = "activated"
         /\ Commit(p, IF ~ok THEN Fail(x, "proxy")
                      ELSE IF x.m.item.state = "Initiator" THEN TryActivation(x)
                      ELSE CheckForActivation(x), net)

\* sc_bytesWritten of the CR.
BytesWritten(p) ==
    /\ peer[p].item.state = "Initiator" /\ peer[p].item.activated
    /\ Commit(p, Finished(Start(p)), net)

\* The CR reaches the target.  sc_readyRead: only targets check for activation,
\* and only if there is no pending outgoing iq-set.
Joined(s) ==
    \/ ~IsProxy(s)
    \/ peer[s.owner].item.proxyTask = "activated"
    \/ peer[s.owner].sc = s
    \/ peer[s.owner].item.client = s /\ peer[s.owner].item.proxyTask = "none"

ChecksOnReadyRead(i, s) ==
    /\ s \in {i.client, i.clientOut}
    /\ i.state = "Target" /\ ~i.task /\ i.proxyTask = "none"

CRArrives(s) ==
    /\ cr[s] = "sent"
    /\ peer[Tgt].end[s] = "open"
    /\ Joined(s)
    /\ LET x == [Start(Tgt) EXCEPT !.crs[s] = "arrived"]
       IN  Commit(Tgt, IF ChecksOnReadyRead(peer[Tgt].item, s) THEN CheckForActivation(x)
                       ELSE x, net)

\* The socket of an active connection learns that the other end is closed.
\* A proxy also gives up on a stream whose other client never comes.
OtherEndGone(p, s) ==
    \/ peer[Other(p)].end[s] = "closed"
    \/ IsProxy(s) /\ peer[Other(p)].end[s] = "none" /\ peer[Other(p)].con = "Idle"

ConnectionClosed(p) ==
    /\ peer[p].con = "Active"
    /\ OtherEndGone(p, peer[p].sc)
    /\ Commit(p, Unlink(p, "closed"), net)

\* A TCP connection of p breaks: sc_error of the item or of the connection.
Breaks(p, s) ==
    /\ hist.breaks < MaxBreaks
    /\ peer[p].end[s] = "open"
    /\ LET x == IF s \in {peer[p].item.client, peer[p].item.clientOut}
                THEN Fail(Start(p), "connect")
                ELSE IF s = peer[p].sc THEN Unlink(p, "socket")
                ELSE Drop(Start(p), s)
       IN  Commit(p, [x EXCEPT !.broke = TRUE], net)

----------------------------------------------------------------------------
Connector(p) ==
    \/ \E s \in Stream : HostFails(p, s)
    \/ \E s \in Stream : HostConnected(p, s)
    \/ ConnectorTimeout(p)

ItemEvent(p) ==
    \/ Connector(p)
    \/ QueryFinished(p)
    \/ ProxyResult(p)
    \/ ProxyFinished(p)
    \/ BytesWritten(p)
    \/ ConnectionClosed(p)

Next ==
    \/ ConnectToJid
    \/ Accept(Tgt)
    \/ \E p \in Peer : Close(p)
    \/ \E p \in Peer : Deliver(p)
    \/ \E p \in Peer : Incoming(p)
    \/ \E p \in Peer : ItemEvent(p)
    \/ \E p \in Peer : ProxyActivates(p)
    \/ \E s \in Stream : CRArrives(s)
    \/ \E p \in Peer, s \in Stream : Breaks(p, s)

Spec == Init /\ [][Next]_vars

\* Stanzas arrive; a connector, a query of a proxy and a connection to a proxy
\* end by their timers at the latest, and so does a proxy's answer; the client
\* accepts at once what a file transfer waits for; TCP delivers what is
\* written.  Nothing is assumed of an S5BServer being reachable or of users.
Fairness ==
    /\ \A p \in Peer :
         /\ WF_vars(Deliver(p))
         /\ WF_vars(Connector(p))
         /\ WF_vars(QueryFinished(p))
         /\ WF_vars(ProxyResult(p))
         /\ WF_vars(ProxyFinished(p))
         /\ WF_vars(BytesWritten(p))
    /\ WF_vars(Accept(Tgt))
    /\ \A s \in Stream : WF_vars(CRArrives(s))

FairSpec == Spec /\ Fairness

----------------------------------------------------------------------------
\* The state stays well-formed: in particular a client answers a request for a
\* stream at most once, although success, the two failures, the delayed proxies
\* and the bounce all answer it, and an error has one of the codes 404 and 406.
TypeOK ==
    /\ server \subseteq Peer
    /\ hasProxy \subseteq Peer
    /\ peer \in [Peer -> PeerState]
    /\ net \in [Peer -> Seq(Stanza)]
    /\ cr \in [Stream -> {"none", "sent", "arrived", "taken"}]
    /\ hist \in History

\* The negotiation implements StreamAgreement: however the dials, grants,
\* stanzas and the CR interleave, one connection is chosen, and a client only
\* hands its user the chosen one.
Agreement ==
    INSTANCE StreamAgreement WITH
        phase <- [p \in Peer |->
                    CASE peer[p].con = "Active" -> "in"
                      [] peer[p].con \in {"Requesting", "Connecting", "WaitingForAccept"}
                            -> "trying"
                      [] peer[p].con = "Idle" /\ peer[p].ended = "none" -> "out"
                      [] peer[p].con = "Idle" /\ peer[p].ended # "none" -> "left"],
        choice <- hist.chosen,
        using <- [p \in Peer |-> peer[p].sc]
ImplementsAgreement == Agreement!Spec

\* Both ends agree on the mode, so the CR is neither left in the stream for the
\* application nor expected where none was sent: the target of a fast-mode
\* stream has taken the CR, and without fast mode none is ever written.
StartsClean ==
    /\ peer[Tgt].con = "Active" =>
         cr[peer[Tgt].sc] = IF peer[Tgt].item.fast THEN "taken" ELSE "none"
    /\ peer[Ini].con = "Active" =>
         (cr[peer[Ini].sc] # "none" <=> peer[Ini].item.targetMode = "Fast")

\* No handler goes on with an item it has just deleted, and finished() always
\* has a connection to hand over, although the answer, the dials and the
\* incoming connection come in any order.
NoDeadObjectUsed == ~hist.bad

\* Every open connection belongs to the user or is a candidate of the item, and
\* every dial has its connector: tossing one of two connections leaks none.
NoOrphanSocket ==
    \A p \in Peer : \A s \in Stream :
        LET i == peer[p].item IN
        /\ peer[p].end[s] = "open" => s \in {peer[p].sc, i.client, i.clientOut}
        /\ peer[p].end[s] = "dialing" => s \in i.conn \/ (i.proxyConn /\ s = Proxy(p))

\* Two clients that run this code disagree about the connection used ("claims
\* to have connected to us, but we don't see this") only after the target took
\* the CR before the answer to its own request had come.
WrongHostOnlyIfEarly ==
    \A p \in Peer : peer[p].ended = "wrongHost" => hist.early

\* A negotiation ends, in a connection or an error, also when both directions
\* fail, unless the other client left without a word that reaches the item (its
\* user, a proxy, a wrong host), a connection broke, or a server granted a
\* connection that the client dialling it had given up.
Trying(p) == peer[p].con \in {"Requesting", "Connecting", "WaitingForAccept"}
Excused(p) ==
    \/ peer[Other(p)].ended \in {"user", "proxy", "wrongHost", "socket"}
    \/ hist.lostGrant
    \/ hist.breaks > 0
NegotiationEnds == \A p \in Peer : Trying(p) ~> ~Trying(p) \/ Excused(p)

\* "active incoming request?  cancel it" (s5b.cpp:921): what a client answers is
\* a request of the client it answers.
CancelNamesARequest ==
    \A p \in Peer : \A k \in 1..Len(net[p]) :
        net[p][k].type = "error" => net[p][k].id = p

=============================================================================
