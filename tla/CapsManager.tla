---------------------------- MODULE CapsManager ----------------------------
(***************************************************************************)
(* Entity capabilities (capabilities/capsmanager.cpp, capsregistry.cpp):   *)
(* a contact announces a client node, a version and extensions in its      *)
(* presence, and only the first contact of a node, version and extension   *)
(* is asked for the features.  The answers go into the registry, for       *)
(* every contact that announces the same.                                  *)
(*                                                                         *)
(* The request names the node and the extension and not the version; the   *)
(* answer is taken for the version the contact announces when it arrives.  *)
(* What a contact sends arrives in order, except that its presence may     *)
(* also come through a chat room, under its own address                    *)
(* (groupchatdlg.cpp:1147).                                                *)
(*                                                                         *)
(* The features of a specification are the specification itself: the       *)
(* registry is right when it holds a specification under itself.           *)
(***************************************************************************)
EXTENDS Naturals, Sequences, FiniteSets

CONSTANTS
    Jids,           \* the contacts
    Nodes, Versions, Exts,
    Clients,        \* the capabilities announced: node, version, extensions
    NoVersion,      \* the version of a contact that announces none
    Nothing,        \* not in a map
    MaxAnnounced,   \* bound: presences sent
    MaxBreaks       \* bound: disconnects, restarts and changes of the option

Caps == [node : Nodes, ver : Versions \cup {NoVersion}, exts : SUBSET Exts]
Specs == [node : Nodes, ver : Versions, ext : Versions \cup Exts]

ASSUME ClientAssumption == Clients \subseteq Caps /\ NoVersion \notin Versions
ASSUME NothingAssumption == Nothing \notin Caps /\ Nothing \notin Specs
ASSUME BoundAssumption == MaxAnnounced \in Nat /\ MaxBreaks \in Nat

VARIABLES
    capsSpecs,      \* capsSpecs[j]: what the contact j is known to announce
    capsJids,       \* capsJids[s][j]: how often j is in the list of s
    registry,       \* registry[s]: the features held for s
    enabled,        \* isEnabled
    requests,       \* the disco requests on their way to a contact
    shown,          \* shown[j]: the features of j at its last capsChanged
    client,         \* client[j]: what the contact j announces now
    from,           \* from[j]: the stanzas of j on their way, in order
    room,           \* room[j]: presences of j on their way through a room
    hist            \* presences sent, requests, breaks, whether a room was used;
                    \* the specifications whose request failed or was not sent
                    \* since the first of those contacts announced it

vars == <<capsSpecs, capsJids, registry, enabled, requests, shown, client, from, room, hist>>

Legal(c) == c.ver # NoVersion
\* CapsSpec::flatten.
Flatten(c) == {[node |-> c.node, ver |-> c.ver, ext |-> x] : x \in {c.ver} \cup c.exts}
Announced(j) == IF capsSpecs[j] = Nothing THEN {} ELSE Flatten(capsSpecs[j])
AnnouncedByAny == UNION {Announced(j) : j \in Jids}
OnlyBy(j) == Announced(j) \ UNION {Announced(k) : k \in Jids \ {j}}

Request(id, j, s) == [id |-> id, jid |-> j, asked |-> s]
Presence(c) == [type |-> "presence", caps |-> c]
Result(r, s) == [type |-> "result", request |-> r, features |-> s]

AnswersOf(j) == {i \in DOMAIN from[j] : from[j][i].type = "result"}
InFlight == {r.asked : r \in requests}
            \cup UNION {{from[j][i].request.asked : i \in AnswersOf(j)} : j \in Jids}

Init ==
    /\ capsSpecs = [j \in Jids |-> Nothing]
    /\ capsJids = [s \in Specs |-> [j \in Jids |-> 0]]
    /\ registry = [s \in Specs |-> Nothing]
    /\ enabled = TRUE
    /\ requests = {}
    /\ shown = [j \in Jids |-> {}]
    /\ client = [j \in Jids |-> Nothing]
    /\ from = [j \in Jids |-> <<>>]
    /\ room = [j \in Jids |-> <<>>]
    /\ hist = [sent |-> 0, ids |-> 0, breaks |-> 0, room |-> FALSE, failed |-> {}]

----------------------------------------------------------------------------
(* CapsManager::updateCaps.                                                *)

\* CapsManager::features.
FeaturesOf(specs, held) == {held[s] : s \in specs} \ {Nothing}

\* Seeded fault: removeOne for removeAll.
WithoutOne(j, specs) ==
    [s \in Specs |-> IF s \in specs /\ capsJids[s][j] > 0
                     THEN [capsJids[s] EXCEPT ![j] = @ - 1] ELSE capsJids[s]]
\* Seeded fault: the contact stays in the lists of what it announced before.
WithoutNothing(j, specs) == capsJids
\* capsJids_ when j is removed from the lists of specs.
Without(j, specs) ==
    [s \in Specs |-> IF s \in specs THEN [capsJids[s] EXCEPT ![j] = 0] ELSE capsJids[s]]
With(lists, j, specs) ==
    [s \in Specs |-> IF s \in specs THEN [lists[s] EXCEPT ![j] = @ + 1] ELSE lists[s]]

\* capsJids_[s].count() == 1, when j is in the list.
OnlyOne(list, j) == list[j] = 1 /\ \A k \in Jids \ {j} : list[k] = 0

\* The presence says what is known already: the contact is put into the lists
\* once more.
SameCaps(j, c) ==
    /\ capsSpecs[j] = c
    /\ capsJids' = With(capsJids, j, Flatten(c))
    /\ UNCHANGED <<capsSpecs, requests, shown, hist>>

\* A request for each specification that is not registered and has no other
\* contact, if the manager is enabled.
NewCaps(j, c) ==
    LET lists == With(Without(j, Announced(j)), j, Flatten(c))
        ask == {s \in Flatten(c) : registry[s] = Nothing /\ OnlyOne(lists[s], j)}
        failed == hist.failed \ OnlyBy(j)
    IN  /\ capsSpecs[j] # c /\ Legal(c)
        /\ capsSpecs' = [capsSpecs EXCEPT ![j] = c]
        /\ capsJids' = lists
        /\ shown' = [shown EXCEPT ![j] = FeaturesOf(Flatten(c), registry)]
        /\ IF enabled
           THEN /\ requests' = requests \cup {Request(hist.ids, j, s) : s \in ask}
                /\ hist' = [hist EXCEPT !.ids = @ + 1, !.failed = failed \ ask]
           ELSE /\ hist' = [hist EXCEPT !.failed = failed \cup ask]
                /\ UNCHANGED requests

\* Illegal capabilities: what is known is forgotten, and nobody is told.
NoCaps(j, c) ==
    /\ capsSpecs[j] # c /\ ~Legal(c)
    /\ capsSpecs' = [capsSpecs EXCEPT ![j] = Nothing]
    /\ capsJids' = Without(j, Announced(j))
    /\ hist' = [hist EXCEPT !.failed = @ \ OnlyBy(j)]
    /\ UNCHANGED <<requests, shown>>

UpdateCaps(j, c) ==
    /\ SameCaps(j, c) \/ NewCaps(j, c) \/ NoCaps(j, c)
    /\ UNCHANGED <<registry, enabled, client>>

ReceivePresence(j) ==
    /\ from[j] # <<>> /\ Head(from[j]).type = "presence"
    /\ UpdateCaps(j, Head(from[j]).caps)
    /\ from' = [from EXCEPT ![j] = Tail(@)]
    /\ UNCHANGED room
ReceiveRoomPresence(j) ==
    /\ room[j] # <<>>
    /\ UpdateCaps(j, Head(room[j]))
    /\ room' = [room EXCEPT ![j] = Tail(@)]
    /\ UNCHANGED from

----------------------------------------------------------------------------
(* The answers.                                                            *)

\* Seeded fault: only the contact that was asked is told.
RegisterQuietly(s, features, j) ==
    /\ registry' = IF registry[s] = Nothing THEN [registry EXCEPT ![s] = features] ELSE registry
    /\ shown' = [shown EXCEPT ![j] = FeaturesOf(Announced(j), registry')]
\* CapsRegistry::registerCaps, and the slots capsRegistered: every contact in the
\* list of s is told about.
Register(s, features, j) ==
    /\ registry' = IF registry[s] = Nothing THEN [registry EXCEPT ![s] = features] ELSE registry
    /\ shown' = [k \in Jids |-> IF registry[s] = Nothing /\ capsJids[s][k] > 0
                                THEN FeaturesOf(Announced(k), registry') ELSE shown[k]]

\* Seeded fault: the version is the one that was asked for.
SpecForNodeAsked(j, asked) == asked
\* getCapsSpecForNode: the version is the one the contact announces now.
SpecForNode(j, asked) ==
    IF capsSpecs[j] # Nothing /\ capsSpecs[j].node = asked.node
    THEN [asked EXCEPT !.ver = capsSpecs[j].ver] ELSE Nothing

\* getDiscoInfo_success.
ReceiveResult(j) ==
    /\ from[j] # <<>> /\ Head(from[j]).type = "result"
    /\ LET asked == Head(from[j]).request.asked
           cs == SpecForNode(j, asked)
       IN  /\ IF cs = Nothing THEN UNCHANGED <<registry, shown>>
              ELSE Register(cs, Head(from[j]).features, j)
           /\ hist' = [hist EXCEPT !.failed = IF cs = asked THEN @
                            ELSE @ \cup ({asked} \cap AnnouncedByAny)]
    /\ from' = [from EXCEPT ![j] = Tail(@)]
    /\ UNCHANGED <<capsSpecs, capsJids, enabled, requests, client, room>>

\* getDiscoInfo_error, of a contact that refuses or is gone: nobody is asked again.
ReceiveError(r) ==
    /\ requests' = requests \ {r}
    /\ hist' = [hist EXCEPT !.failed = @ \cup ({r.asked} \cap AnnouncedByAny)]
    /\ UNCHANGED <<capsSpecs, capsJids, registry, enabled, shown, client, from, room>>

\* The manager of another account, on the same registry.
RegisteredElsewhere(s) ==
    /\ registry[s] = Nothing
    /\ \E j \in Jids : Register(s, s, j)
    /\ hist.breaks < MaxBreaks
    /\ hist' = [hist EXCEPT !.breaks = @ + 1]
    /\ UNCHANGED <<capsSpecs, capsJids, enabled, requests, client, from, room>>

----------------------------------------------------------------------------
(* The contacts, and the connection.                                       *)

Announce(j, c) ==
    /\ hist.sent < MaxAnnounced
    /\ client' = [client EXCEPT ![j] = c]
    /\ \/ /\ from' = [from EXCEPT ![j] = Append(@, Presence(c))]
          /\ hist' = [hist EXCEPT !.sent = @ + 1]
          /\ UNCHANGED room
       \/ /\ room' = [room EXCEPT ![j] = Append(@, c)]
          /\ hist' = [hist EXCEPT !.sent = @ + 1, !.room = TRUE]
          /\ UNCHANGED from
    /\ UNCHANGED <<capsSpecs, capsJids, registry, enabled, requests, shown>>

\* The contact answers what it is asked about itself.
Knows(c, s) == c.node = s.node /\ s.ext \in {c.ver} \cup c.exts /\ Legal(c)
Answer(r) ==
    /\ client[r.jid] # Nothing /\ Knows(client[r.jid], r.asked)
    /\ from' = [from EXCEPT ![r.jid] =
                  Append(@, Result(r, [r.asked EXCEPT !.ver = client[r.jid].ver]))]
    /\ requests' = requests \ {r}
    /\ UNCHANGED <<capsSpecs, capsJids, registry, enabled, shown, client, room, hist>>

Break ==
    /\ hist.breaks < MaxBreaks
    /\ requests' = {}
    /\ from' = [j \in Jids |-> IF client[j] = Nothing THEN <<>> ELSE <<Presence(client[j])>>]
    /\ room' = [j \in Jids |-> <<>>]

\* The connection is lost and made again: the requests fail, and the contacts
\* announce themselves anew.
Reconnect ==
    /\ Break
    /\ hist' = [hist EXCEPT !.breaks = @ + 1, !.failed = @ \cup (InFlight \cap AnnouncedByAny)]
    /\ UNCHANGED <<capsSpecs, capsJids, registry, enabled, shown, client>>
\* Jabbin is started anew: the registry was saved.
Restart ==
    /\ Break
    /\ capsSpecs' = [j \in Jids |-> Nothing]
    /\ capsJids' = [s \in Specs |-> [j \in Jids |-> 0]]
    /\ shown' = [j \in Jids |-> {}]
    /\ hist' = [hist EXCEPT !.breaks = @ + 1, !.failed = {}]
    /\ UNCHANGED <<registry, enabled, client>>

\* setEnabled, from the options.
SetEnabled ==
    /\ hist.breaks < MaxBreaks
    /\ hist' = [hist EXCEPT !.breaks = @ + 1]
    /\ enabled' = ~enabled
    /\ UNCHANGED <<capsSpecs, capsJids, registry, requests, shown, client, from, room>>

Next ==
    \/ \E j \in Jids : \/ ReceivePresence(j) \/ ReceiveRoomPresence(j) \/ ReceiveResult(j)
                       \/ \E c \in Clients : Announce(j, c)
    \/ \E s \in Specs : RegisteredElsewhere(s)
    \/ \E r \in requests : Answer(r) \/ ReceiveError(r)
    \/ Reconnect \/ Restart \/ SetEnabled

Spec == Init /\ [][Next]_vars

----------------------------------------------------------------------------
Requests == [id : Nat, jid : Jids, asked : Specs]
Stanzas == [type : {"presence"}, caps : Clients]
           \cup [type : {"result"}, request : Requests, features : Specs]
Hists == [sent : Nat, ids : Nat, breaks : Nat, room : BOOLEAN, failed : SUBSET Specs]

\* The state stays well-formed; in particular only legal capabilities are kept.
TypeOK ==
    /\ capsSpecs \in [Jids -> {c \in Clients : Legal(c)} \cup {Nothing}]
    /\ capsJids \in [Specs -> [Jids -> Nat]]
    /\ registry \in [Specs -> Specs \cup {Nothing}]
    /\ enabled \in BOOLEAN
    /\ requests \subseteq Requests
    /\ shown \in [Jids -> SUBSET Specs]
    /\ client \in [Jids -> Clients \cup {Nothing}]
    /\ from \in [Jids -> Seq(Stanzas)]
    /\ room \in [Jids -> Seq(Clients)]
    /\ hist \in Hists

\* The two maps agree: a contact is in the lists of what it announces, and in no
\* others, however often it repeats or changes it.
ListedIsAnnounced ==
    \A s \in Specs, j \in Jids : capsJids[s][j] > 0 <=> s \in Announced(j)

\* What somebody announces is known, or somebody is being asked about it, unless
\* a request about it failed, was lost or was answered for another version, or
\* the manager was disabled: asking only the first contact is enough.
UnknownOnlyIfFailed ==
    \A j \in Jids : \A s \in Announced(j) :
        registry[s] # Nothing \/ s \in InFlight \/ s \in hist.failed

\* An answer that crosses an upgrade is not taken for the other version, though
\* the request does not name one: the contact's stanzas are in order.  A presence
\* through a room may overtake the answer.
RightUnlessRoom ==
    ~hist.room => \A s \in Specs : registry[s] \in {s, Nothing}

\* The windows show the features a contact has: capsChanged is emitted for every
\* change of what features() returns, but when illegal capabilities are announced.
ShownIsCurrent ==
    \A j \in Jids : capsSpecs[j] # Nothing =>
        shown[j] = FeaturesOf(Announced(j), registry)

=============================================================================
