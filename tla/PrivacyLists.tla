--------------------------- MODULE PrivacyLists ---------------------------
(***************************************************************************)
(* The list of blocked contacts: YaPrivacyManager                          *)
(* (tools/yastuff/yaprivacymanager.cpp), which every account of this build *)
(* has, over the requests of PsiPrivacyManager                             *)
(* (privacy/psiprivacymanager.cpp).                                        *)
(*                                                                         *)
(* The list lives on the server and every resource of the user edits it by *)
(* replacing it whole.  The client computes a replacement from its copy of *)
(* the list, which changes only when the server has announced a change and *)
(* answered the request that follows.                                      *)
(*                                                                         *)
(* A list is the set of the contacts it denies; the item that allows all   *)
(* others is always its last.  The contacts of Authorized have a           *)
(* subscription both ways and stay online; the others see and show         *)
(* nothing.  The server is external: stanzas are handled in the order they *)
(* are sent, one list applies to a session (the active one, or else the    *)
(* default one), a change is announced to every resource.                  *)
(***************************************************************************)
EXTENDS Naturals, Sequences

CONSTANTS
    Contacts,
    Authorized,     \* isAuthorized: those who see our presence
    MaxChanges,     \* bound: changes asked by the user, on any resource
    MaxBreaks       \* bound: disconnects and requests the server refuses

ASSUME AuthorizedAssumption == Authorized \subseteq Contacts
ASSUME BoundAssumption == MaxChanges \in Nat /\ MaxBreaks \in Nat

VARIABLES
    server,         \* the list, whether it exists, whether it is the active
                    \* list of this session; which list is the default
    list,           \* lists_["blocked"], and whether there is one
    available,      \* isAvailable_
    online,         \* the account is logged in (accountAvailable_)
    up, down,       \* the stanzas on their way to the server and from it
    seen,           \* the contacts that see this resource online
    shown,          \* the contacts this resource shows online
    hist            \* what the user wants blocked; changes and breaks; whether
                    \* a list was computed from a copy that lacks a change, or
                    \* refused; the contacts the list came too late for

vars == <<server, list, available, online, up, down, seen, shown, hist>>

Lists == [made : BOOLEAN, deny : SUBSET Contacts]
NoList == [made |-> FALSE, deny |-> {}]
Symmetric(s, t) == (s \ t) \cup (t \ s)

Effective == IF server.active \/ server.dflt = "blocked" THEN server.deny ELSE {}

Stanza(type) == [type |-> type]
SetList(deny) == [type |-> "set", deny |-> deny]
Presence(type, who) == [type |-> type, who |-> who]
Names(made, dflt) == [type |-> "names", made |-> made, dflt |-> dflt]
ListIs(deny) == [type |-> "list", deny |-> deny]

Quiet == online /\ up = <<>> /\ down = <<>>

Init ==
    /\ server \in [made : BOOLEAN, deny : SUBSET Contacts, active : {FALSE},
                   dflt : {"none", "blocked", "other"}]
    /\ ~server.made => server.deny = {} /\ server.dflt # "blocked"
    /\ list = NoList
    /\ available = FALSE
    /\ online = FALSE
    /\ up = <<>> /\ down = <<>>
    /\ seen = {} /\ shown = {}
    /\ hist = [wish |-> server.deny, changes |-> 0, breaks |-> 0,
               overlapped |-> FALSE, refused |-> FALSE, late |-> {}]

----------------------------------------------------------------------------
(* The session: accountStateChanged.                                       *)

\* The initial presence is sent before the lists are asked for.
Login ==
    /\ ~online
    /\ online' = TRUE
    /\ up' = <<Stanza("presence"), Stanza("names")>>
    /\ UNCHANGED <<server, list, available, down, seen, shown, hist>>

\* Every task fails (Task::onDisconnect), which changes nothing here beyond
\* what listsError does; lists_ and isBlocked_ stay for the next session.
Disconnect ==
    /\ online /\ hist.breaks < MaxBreaks
    /\ online' = FALSE
    /\ available' = FALSE
    /\ up' = <<>> /\ down' = <<>>
    /\ seen' = {} /\ shown' = {}
    /\ server' = [server EXCEPT !.active = FALSE]
    /\ hist' = [hist EXCEPT !.breaks = @ + 1, !.late = {},
                !.overlapped = @ \/ server.deny # hist.wish]
    /\ UNCHANGED list

----------------------------------------------------------------------------
(* The user blocks or unblocks a contact, here or on another resource.     *)

WishToggled(j) == [hist EXCEPT !.wish = Symmetric(@, {j}), !.changes = @ + 1]

\* Seeded fault: the list is not copied, only the item of the contact is sent.
ReplacementOfOne(j) == Symmetric(list.deny \cap {j}, {j})
\* The list setContactBlocked sends.
Replacement(j) == Symmetric(list.deny, {j})

\* Seeded fault: the presence is sent after the list.
BlockedAfter(j, blocked) ==
    <<SetList(Replacement(j))>>
    \o (IF blocked /\ j \in Authorized THEN <<Presence("unavailable", {j})>> ELSE <<>>)
\* What setContactBlocked sends, in its order.
Blocked(j, blocked) ==
    (IF blocked /\ j \in Authorized THEN <<Presence("unavailable", {j})>> ELSE <<>>)
    \o <<SetList(Replacement(j))>>

\* A list on its way says otherwise of the contact than the copy.
Contested(j) ==
    \E i \in DOMAIN down : down[i].type = "list" /\ j \in Symmetric(list.deny, down[i].deny)

\* PsiContact::toggleBlockedState and setContactBlocked: the contact is toggled
\* as this resource shows it; the button is there when the manager is available
\* (psicontact.cpp:779), a message to a blocked contact unblocks it at any time
\* (yachatdlg.cpp:389).  Without a list the call returns silently.
SetContactBlocked(j) ==
    /\ online /\ (available \/ j \in list.deny)
    /\ hist.changes < MaxChanges
    /\ IF list.made
       THEN /\ up' = up \o Blocked(j, j \notin list.deny)
            /\ hist' = [WishToggled(j) EXCEPT
                        !.wish = IF j \in list.deny THEN hist.wish \ {j} ELSE hist.wish \cup {j},
                        !.late = IF Contested(j) THEN @ \cup {j} ELSE @,
                        !.overlapped = @ \/ list.deny # hist.wish]
       ELSE /\ hist' = [hist EXCEPT !.wish = @ \cup {j}, !.changes = @ + 1,
                        !.overlapped = TRUE]
            /\ UNCHANGED up
    /\ UNCHANGED <<server, list, available, online, down, seen, shown>>

\* Another resource, with a fresh copy of the list.
OtherSetsBlocked(j) ==
    /\ hist.changes < MaxChanges
    /\ server' = [server EXCEPT !.made = TRUE, !.deny = Symmetric(@, {j})]
    /\ hist' = [WishToggled(j) EXCEPT
                !.wish = IF j \in server.deny THEN hist.wish \ {j} ELSE hist.wish \cup {j},
                !.late = IF j \in (server.deny \ list.deny) \cup (seen \ server.deny)
                         THEN @ \cup {j} ELSE @,
                !.overlapped = @ \/ \E i \in DOMAIN up : up[i].type = "set"]
    /\ down' = IF online THEN Append(down, Stanza("push")) ELSE down
    /\ UNCHANGED <<list, available, online, up, seen, shown>>

----------------------------------------------------------------------------
(* The server takes the next stanza.                                       *)

Taken == online /\ up # <<>> /\ up' = Tail(up)
Request == Head(up)
Answer(s) == down' = Append(down, s)

\* The presence of a resource that comes online, and those it gets back.
TakePresence ==
    /\ Taken /\ Request.type = "presence"
    /\ seen' = Authorized \ Effective
    /\ Answer(Presence("presence", Authorized \ Effective))
    /\ hist' = [hist EXCEPT !.late = @ \cup (server.deny \ Effective)]
    /\ UNCHANGED <<server, list, available, online, shown>>

TakeUnavailable ==
    /\ Taken /\ Request.type = "unavailable"
    /\ seen' = seen \ (Request.who \ Effective)
    /\ UNCHANGED <<server, list, available, online, down, shown, hist>>

\* The presence and the probe for each contact that is no longer blocked.
TakeReturn ==
    /\ Taken /\ Request.type = "return"
    /\ LET back == (Request.who \cap Authorized) \ Effective
       IN  /\ seen' = seen \cup back
           /\ Answer(Presence("presence", back))
    /\ UNCHANGED <<server, list, available, online, shown, hist>>

TakeNames ==
    /\ Taken /\ Request.type = "names"
    /\ Answer(Names(server.made, server.dflt))
    /\ UNCHANGED <<server, list, available, online, seen, shown, hist>>

TakeGet ==
    /\ Taken /\ Request.type = "get"
    /\ Answer(IF server.made THEN ListIs(server.deny) ELSE Stanza("error"))
    /\ UNCHANGED <<server, list, available, online, seen, shown, hist>>

TakeSet ==
    /\ Taken /\ Request.type = "set"
    /\ server' = [server EXCEPT !.made = TRUE, !.deny = Request.deny]
    /\ Answer(Stanza("push"))
    /\ UNCHANGED <<list, available, online, seen, shown, hist>>

TakeActive ==
    /\ Taken /\ Request.type = "active"
    /\ server' = [server EXCEPT !.active = server.made]
    /\ UNCHANGED <<list, available, online, down, seen, shown, hist>>

\* The default stays when another resource has one in use.
TakeDefault ==
    /\ Taken /\ Request.type = "default"
    /\ server' \in {server, [server EXCEPT !.dflt = IF server.made THEN "blocked" ELSE @]}
    /\ UNCHANGED <<list, available, online, down, seen, shown, hist>>

\* An answer of another type than "result", to any of the requests.
TakeRefused ==
    /\ Taken /\ hist.breaks < MaxBreaks
    /\ Request.type \in {"names", "get", "set", "active", "default"}
    /\ hist' = [hist EXCEPT !.breaks = @ + 1, !.refused = TRUE]
    /\ Answer(Stanza(IF Request.type = "names" THEN "names_error" ELSE "error"))
    /\ UNCHANGED <<server, list, available, online, seen, shown>>

----------------------------------------------------------------------------
(* The client takes the next stanza.                                       *)

Received == online /\ down # <<>> /\ down' = Tail(down)
Incoming == Head(down)

PresenceReceived ==
    /\ Received /\ Incoming.type = "presence"
    /\ shown' = shown \cup Incoming.who
    /\ UNCHANGED <<server, list, available, online, up, seen, hist>>

\* What listsReceived requests, in its order.
RequestsFor(made, dflt) ==
    <<IF made THEN Stanza("get") ELSE SetList({})>>
    \o (IF dflt = "none" THEN <<Stanza("default")>> ELSE <<>>)
    \o <<Stanza("active")>>

\* YaPrivacyManager::listsReceived, createBlockedList.
ListsReceived ==
    /\ Received /\ Incoming.type = "names"
    /\ up' = up \o RequestsFor(Incoming.made, Incoming.dflt)
    /\ available' = TRUE
    /\ hist' = [hist EXCEPT !.overlapped = @ \/ (~Incoming.made /\ hist.wish # {})]
    /\ UNCHANGED <<server, list, online, seen, shown>>

ListsError ==
    /\ Received /\ Incoming.type = "names_error"
    /\ available' = FALSE
    /\ UNCHANGED <<server, list, online, up, seen, shown, hist>>

\* A list or a change was refused: nothing listens but the dialogs.
OtherError ==
    /\ Received /\ Incoming.type = "error"
    /\ UNCHANGED <<server, list, available, online, up, seen, shown, hist>>

\* Seeded fault: no request follows.
ChangeNoted ==
    /\ Received /\ Incoming.type = "push"
    /\ UNCHANGED <<server, list, available, online, up, seen, shown, hist>>
\* PrivacyListListener::take, privacyListChanged.
PrivacyListChanged ==
    /\ Received /\ Incoming.type = "push"
    /\ up' = Append(up, Stanza("get"))
    /\ UNCHANGED <<server, list, available, online, seen, shown, hist>>

\* Seeded fault: the differences are looked for in one direction only.
NewlyBlocked(previous, current) == current \ previous
\* findDifferences, both ways.
Updated(previous, current) == Symmetric(previous, current)

\* YaPrivacyManager::listReceived, invalidateBlockedListCache.
ListReceived ==
    /\ Received /\ Incoming.type = "list"
    /\ list' = [made |-> TRUE, deny |-> Incoming.deny]
    /\ LET updated == Updated(list.deny, Incoming.deny)
           returned == updated \ Incoming.deny
       IN  /\ shown' = shown \ updated
           /\ up' = IF returned = {} THEN up ELSE Append(up, Presence("return", returned))
    /\ UNCHANGED <<server, available, online, seen, hist>>

ServerTakes ==
    \/ TakePresence \/ TakeUnavailable \/ TakeReturn \/ TakeNames
    \/ TakeGet \/ TakeSet \/ TakeActive \/ TakeDefault \/ TakeRefused
ClientTakes ==
    \/ PresenceReceived \/ ListsReceived \/ ListsError \/ OtherError
    \/ PrivacyListChanged \/ ListReceived

Next ==
    \/ Login \/ Disconnect
    \/ \E j \in Contacts : SetContactBlocked(j) \/ OtherSetsBlocked(j)
    \/ ServerTakes \/ ClientTakes

Spec == Init /\ [][Next]_vars

----------------------------------------------------------------------------
Requests ==
    {Stanza(t) : t \in {"presence", "names", "get", "active", "default"}}
    \cup {SetList(d) : d \in SUBSET Contacts}
    \cup {Presence(t, s) : t \in {"unavailable", "return"}, s \in SUBSET Contacts}
Answers ==
    {Stanza(t) : t \in {"push", "error", "names_error"}}
    \cup {ListIs(d) : d \in SUBSET Contacts}
    \cup {Presence("presence", s) : s \in SUBSET Authorized}
    \cup {Names(m, d) : m \in BOOLEAN, d \in {"none", "blocked", "other"}}

Servers == [made : BOOLEAN, deny : SUBSET Contacts, active : BOOLEAN,
            dflt : {"none", "blocked", "other"}]
Hists == [wish : SUBSET Contacts, changes : 0..MaxChanges, breaks : 0..MaxBreaks,
          overlapped : BOOLEAN, refused : BOOLEAN, late : SUBSET Contacts]

\* The type of the state; a list that does not exist denies nobody, is not
\* active and not the default, and no stanza is on its way outside a session.
TypeOK ==
    /\ server \in Servers
    /\ ~server.made => server.deny = {} /\ ~server.active /\ server.dflt # "blocked"
    /\ list \in Lists /\ (~list.made => list.deny = {})
    /\ available \in BOOLEAN /\ online \in BOOLEAN
    /\ up \in Seq(Requests) /\ down \in Seq(Answers)
    /\ ~online => up = <<>> /\ down = <<>> /\ ~available
    /\ seen \subseteq Authorized /\ shown \subseteq Authorized
    /\ hist \in Hists

\* When nothing is on its way the copy of an available manager is the list of
\* the server (every change is announced, and asked for again after it), so
\* what is shown as blocked is blocked.
CopyIsCurrent == Quiet /\ available /\ server.made /\ ~hist.refused => list = [made |-> TRUE, deny |-> server.deny]

\* What the user blocked or unblocked, on any resource, is what the server
\* denies once nothing is on its way, unless a list was computed before the
\* last change was known (:241, :141: it undoes that change), asked for before
\* the list was there (:243, dropped silently), lost with a connection, or
\* refused.
WishIsKept == Quiet => server.deny = hist.wish \/ hist.overlapped \/ hist.refused

\* The message a user confirms says that a block takes effect: while nothing is
\* refused and no connection is lost, the server denies what the user blocked.
ConfirmedIsBlocked == Quiet /\ hist.breaks = 0 => server.deny = hist.wish

\* A blocked contact neither sees this resource nor is shown by it, unless the
\* list came too late for it: another resource blocked it (nothing sends it an
\* unavailable presence then), the initial presence went out under another
\* default list, or it was blocked here while an older list that denies it was
\* still to come (:117: a presence that answers an earlier unblock, behind that
\* list, shows it, and the list of the block finds no difference).
BlockedIsHidden ==
    Quiet /\ available =>
        (server.deny \ hist.late) \cap (seen \cup shown) = {}
        \/ hist.overlapped \/ hist.refused

\* Whoever is not blocked sees this resource and is shown by it, also after
\* any number of changes: the presence and the probe of listReceived bring
\* both back, unless another resource unblocked it before the copy of this one
\* held it as blocked (then no difference is found).
AllowedIsBack ==
    Quiet /\ available =>
        (Authorized \ (server.deny \cup hist.late)) \subseteq (seen \cap shown)
        \/ hist.overlapped \/ hist.refused
=============================================================================
