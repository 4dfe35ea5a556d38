------------------------- MODULE CapsManager_proofs -------------------------
(***************************************************************************)
(* Proofs for CapsManager, for every set of contacts, nodes, versions and  *)
(* extensions: the state stays well-formed, the two maps agree, what is    *)
(* announced is known, asked for or failed, the windows show it, and what  *)
(* is registered is right.  That a contact which is not the only one need  *)
(* not be asked, and that everybody concerned is told, rests on the lists  *)
(* being those of the announcements; that an answer is taken for the right *)
(* version rests on the order of a contact's stanzas (InOrder).            *)
(***************************************************************************)
EXTENDS CapsManager, TLAPS

\* Legal capabilities stand for specifications.
LEMMA FlattenSpecs ==
    ASSUME NEW c \in Clients, Legal(c)
    PROVE  /\ Flatten(c) \subseteq Specs
           /\ c.ver \in Versions
BY ClientAssumption DEF Flatten, Specs, Caps, Legal

\* What a contact announces is a set of specifications.
LEMMA AnnouncedSpecs ==
    ASSUME TypeOK, NEW j \in Jids PROVE Announced(j) \subseteq Specs
<1>1. CASE capsSpecs[j] = Nothing
    BY <1>1 DEF Announced
<1>2. CASE capsSpecs[j] # Nothing
    <2>1. capsSpecs[j] \in Clients /\ Legal(capsSpecs[j])
        BY <1>2 DEF TypeOK
    <2> QED BY <2>1, <1>2, FlattenSpecs DEF Announced
<1> QED BY <1>1, <1>2

\* The features of specifications are specifications.
LEMMA FeaturesSpecs ==
    ASSUME NEW held \in [Specs -> Specs \cup {Nothing}], NEW specs \in SUBSET Specs
    PROVE  FeaturesOf(specs, held) \in SUBSET Specs
BY DEF FeaturesOf

\* The version a contact announces makes a specification of the one asked for.
LEMMA SpecForNodeSpec ==
    ASSUME TypeOK, NEW j \in Jids, NEW asked \in Specs, SpecForNode(j, asked) # Nothing
    PROVE  SpecForNode(j, asked) \in Specs
<1>1. capsSpecs[j] # Nothing /\ SpecForNode(j, asked) = [asked EXCEPT !.ver = capsSpecs[j].ver]
    BY DEF SpecForNode
<1>2. capsSpecs[j] \in Clients /\ Legal(capsSpecs[j])
    BY <1>1 DEF TypeOK
<1>3. capsSpecs[j].ver \in Versions
    BY <1>2, FlattenSpecs
<1> QED BY <1>1, <1>3 DEF Specs

\* The lists stay lists when a contact is taken out and put in.
LEMMA ListsType ==
    ASSUME NEW lists \in [Specs -> [Jids -> Nat]], NEW j \in Jids, NEW specs
    PROVE  With(lists, j, specs) \in [Specs -> [Jids -> Nat]]
BY DEF With
LEMMA WithoutType ==
    ASSUME TypeOK, NEW j \in Jids, NEW specs
    PROVE  Without(j, specs) \in [Specs -> [Jids -> Nat]]
BY DEF Without, TypeOK

\* The updates of the history.
LEMMA HistUpdates ==
    ASSUME NEW h \in Hists, NEW f \in SUBSET Specs
    PROVE  /\ [h EXCEPT !.failed = f] \in Hists
           /\ [h EXCEPT !.ids = @ + 1, !.failed = f] \in Hists
           /\ [h EXCEPT !.sent = @ + 1] \in Hists
           /\ [h EXCEPT !.sent = @ + 1, !.room = TRUE] \in Hists
           /\ [h EXCEPT !.breaks = @ + 1] \in Hists
           /\ [h EXCEPT !.breaks = @ + 1, !.failed = f] \in Hists
           /\ h.failed \in SUBSET Specs /\ h.ids \in Nat
<1>0. \A n \in Nat : /\ [h EXCEPT !.ids = n, !.failed = f] \in Hists
                     /\ [h EXCEPT !.sent = n, !.room = TRUE] \in Hists
                     /\ [h EXCEPT !.breaks = n, !.failed = f] \in Hists
    BY DEF Hists
<1>1. h.ids + 1 \in Nat /\ h.sent + 1 \in Nat /\ h.breaks + 1 \in Nat
    BY DEF Hists
<1>2. [h EXCEPT !.failed = f] \in Hists
    BY DEF Hists
<1>3. [h EXCEPT !.sent = @ + 1] \in Hists /\ [h EXCEPT !.breaks = @ + 1] \in Hists
    BY DEF Hists
<1>4. h.failed \in SUBSET Specs /\ h.ids \in Nat
    BY DEF Hists
<1> QED BY <1>0, <1>1, <1>2, <1>3, <1>4

\* The part of updateCaps that both kinds of presence share.
LEMMA UpdateCapsType ==
    ASSUME TypeOK, NEW j \in Jids, NEW c \in Clients, UpdateCaps(j, c)
    PROVE  /\ capsSpecs' \in [Jids -> {k \in Clients : Legal(k)} \cup {Nothing}]
           /\ capsJids' \in [Specs -> [Jids -> Nat]]
           /\ requests' \subseteq Requests
           /\ shown' \in [Jids -> SUBSET Specs]
           /\ hist' \in Hists
           /\ UNCHANGED <<registry, enabled, client>>
<1>1. CASE SameCaps(j, c)
    <2>1. capsJids \in [Specs -> [Jids -> Nat]]
        BY DEF TypeOK
    <2> QED BY <1>1, <2>1, ListsType DEF TypeOK, SameCaps, UpdateCaps
<1>2. CASE NewCaps(j, c)
    <2> DEFINE lists == With(Without(j, Announced(j)), j, Flatten(c))
               ask == {s \in Flatten(c) : registry[s] = Nothing /\ OnlyOne(lists[s], j)}
    <2>1. Legal(c) /\ Flatten(c) \subseteq Specs
        BY <1>2, FlattenSpecs DEF NewCaps
    <2>2. lists \in [Specs -> [Jids -> Nat]]
        BY WithoutType, ListsType
    <2>3. FeaturesOf(Flatten(c), registry) \in SUBSET Specs
        BY <2>1, FeaturesSpecs DEF TypeOK
    <2>4. ask \subseteq Specs
        BY <2>1
    <2>5. \A s \in ask : Request(hist.ids, j, s) \in Requests
        BY <2>4, HistUpdates DEF Request, Requests, TypeOK
    <2>6. capsSpecs' \in [Jids -> {k \in Clients : Legal(k)} \cup {Nothing}]
        BY <1>2, <2>1 DEF NewCaps, TypeOK
    <2>7. capsJids' \in [Specs -> [Jids -> Nat]]
        BY <1>2, <2>2 DEF NewCaps
    <2>8. shown' \in [Jids -> SUBSET Specs]
        BY <1>2, <2>3 DEF NewCaps, TypeOK
    <2>9. requests' \subseteq Requests
        BY <1>2, <2>5 DEF NewCaps, TypeOK
    <2>10. hist' \in Hists
        <3>1. /\ (hist.failed \ OnlyBy(j)) \ ask \in SUBSET Specs
              /\ (hist.failed \ OnlyBy(j)) \cup ask \in SUBSET Specs
            BY <2>4, HistUpdates DEF TypeOK
        <3>2. hist' = IF enabled
                      THEN [hist EXCEPT !.ids = @ + 1, !.failed = (hist.failed \ OnlyBy(j)) \ ask]
                      ELSE [hist EXCEPT !.failed = (hist.failed \ OnlyBy(j)) \cup ask]
            BY <1>2 DEF NewCaps
        <3> QED BY <3>1, <3>2, HistUpdates DEF TypeOK
    <2> QED BY <2>6, <2>7, <2>8, <2>9, <2>10 DEF UpdateCaps
<1>3. CASE NoCaps(j, c)
    <2>1. capsJids' \in [Specs -> [Jids -> Nat]]
        BY <1>3, WithoutType DEF NoCaps
    <2>2. hist' \in Hists
        <3>1. hist.failed \ OnlyBy(j) \in SUBSET Specs
            BY HistUpdates DEF TypeOK
        <3> QED BY <1>3, <3>1, HistUpdates DEF NoCaps, TypeOK
    <2> QED BY <1>3, <2>1, <2>2 DEF NoCaps, TypeOK, UpdateCaps
<1> QED BY <1>1, <1>2, <1>3 DEF UpdateCaps

\* So the part of a Register.
LEMMA RegisterType ==
    ASSUME TypeOK, NEW s \in Specs, NEW features \in Specs, NEW j \in Jids,
           Register(s, features, j)
    PROVE  /\ registry' \in [Specs -> Specs \cup {Nothing}]
           /\ shown' \in [Jids -> SUBSET Specs]
<1>1. registry' \in [Specs -> Specs \cup {Nothing}]
    BY DEF Register, TypeOK
<1>2. \A k \in Jids : FeaturesOf(Announced(k), registry') \in SUBSET Specs
    BY <1>1, AnnouncedSpecs, FeaturesSpecs
<1>3. shown' = [k \in Jids |-> IF registry[s] = Nothing /\ capsJids[s][k] > 0
                               THEN FeaturesOf(Announced(k), registry') ELSE shown[k]]
    BY DEF Register
<1>4. \A k \in Jids : shown[k] \in SUBSET Specs
    BY DEF TypeOK
<1>5. shown' \in [Jids -> SUBSET Specs]
    BY <1>2, <1>3, <1>4
<1> QED BY <1>1, <1>5

\* Well-formedness is inductive.
LEMMA TypeStep ==
    ASSUME TypeOK, [Next]_vars PROVE TypeOK'
<1>1. ASSUME NEW j \in Jids, ReceivePresence(j) PROVE TypeOK'
    <2>1. from[j] \in Seq(Stanzas) /\ from[j] # <<>>
        BY <1>1 DEF ReceivePresence, TypeOK
    <2>2. Head(from[j]) \in Stanzas /\ Tail(from[j]) \in Seq(Stanzas)
        BY <2>1
    <2>3. Head(from[j]).caps \in Clients
        BY <1>1, <2>2 DEF ReceivePresence, Stanzas
    <2>4. from' \in [Jids -> Seq(Stanzas)]
        BY <1>1, <2>2 DEF ReceivePresence, TypeOK
    <2> QED BY <1>1, <2>3, <2>4, UpdateCapsType DEF ReceivePresence, TypeOK
<1>2. ASSUME NEW j \in Jids, ReceiveRoomPresence(j) PROVE TypeOK'
    <2>1. room[j] \in Seq(Clients) /\ room[j] # <<>>
        BY <1>2 DEF ReceiveRoomPresence, TypeOK
    <2>2. Head(room[j]) \in Clients /\ Tail(room[j]) \in Seq(Clients)
        BY <2>1
    <2>3. room' \in [Jids -> Seq(Clients)]
        BY <1>2, <2>2 DEF ReceiveRoomPresence, TypeOK
    <2> QED BY <1>2, <2>2, <2>3, UpdateCapsType DEF ReceiveRoomPresence, TypeOK
<1>3. ASSUME NEW j \in Jids, ReceiveResult(j) PROVE TypeOK'
    <2>1. from[j] \in Seq(Stanzas) /\ from[j] # <<>>
        BY <1>3 DEF ReceiveResult, TypeOK
    <2>2. Head(from[j]) \in Stanzas /\ Tail(from[j]) \in Seq(Stanzas)
        BY <2>1
    <2>3. /\ Head(from[j]).request.asked \in Specs
          /\ Head(from[j]).features \in Specs
        BY <1>3, <2>2 DEF ReceiveResult, Stanzas, Requests
    <2>4. from' \in [Jids -> Seq(Stanzas)]
        BY <1>3, <2>2 DEF ReceiveResult, TypeOK
    <2>5. /\ registry' \in [Specs -> Specs \cup {Nothing}]
          /\ shown' \in [Jids -> SUBSET Specs]
        BY <1>3, <2>3, SpecForNodeSpec, RegisterType DEF ReceiveResult, TypeOK
    <2>6. hist' \in Hists
        BY <1>3, <2>3, HistUpdates DEF ReceiveResult, TypeOK
    <2> QED BY <1>3, <2>4, <2>5, <2>6 DEF ReceiveResult, TypeOK
<1>4. ASSUME NEW j \in Jids, NEW c \in Clients, Announce(j, c) PROVE TypeOK'
    <2>1. Presence(c) \in Stanzas
        BY DEF Presence, Stanzas
    <2>2. Append(from[j], Presence(c)) \in Seq(Stanzas) /\ Append(room[j], c) \in Seq(Clients)
        BY <2>1 DEF TypeOK
    <2>3. hist' \in Hists
        BY <1>4, HistUpdates DEF Announce, TypeOK
    <2>4. from' \in [Jids -> Seq(Stanzas)] /\ room' \in [Jids -> Seq(Clients)]
        BY <1>4, <2>2 DEF Announce, TypeOK
    <2>5. client' \in [Jids -> Clients \cup {Nothing}]
        BY <1>4 DEF Announce, TypeOK
    <2> QED BY <1>4, <2>3, <2>4, <2>5 DEF Announce, TypeOK
<1>5. ASSUME NEW s \in Specs, RegisteredElsewhere(s) PROVE TypeOK'
    <2>1. PICK j \in Jids : Register(s, s, j)
        BY <1>5 DEF RegisteredElsewhere
    <2>2. hist' \in Hists
        BY <1>5, HistUpdates DEF RegisteredElsewhere, TypeOK
    <2> QED BY <1>5, <2>1, <2>2, RegisterType DEF RegisteredElsewhere, TypeOK
<1>6. ASSUME NEW r \in requests, Answer(r) PROVE TypeOK'
    <2>1. r \in Requests
        BY DEF TypeOK
    <2>2. r.jid \in Jids /\ r.asked \in Specs
        BY <2>1 DEF Requests
    <2>3. client[r.jid] \in Clients /\ Legal(client[r.jid])
        BY <1>6, <2>2 DEF Answer, Knows, TypeOK
    <2>4. [r.asked EXCEPT !.ver = client[r.jid].ver] \in Specs
        BY <2>2, <2>3, FlattenSpecs DEF Specs
    <2>5. Result(r, [r.asked EXCEPT !.ver = client[r.jid].ver]) \in Stanzas
        BY <2>1, <2>4 DEF Result, Stanzas
    <2>6. Append(from[r.jid], Result(r, [r.asked EXCEPT !.ver = client[r.jid].ver]))
          \in Seq(Stanzas)
        BY <2>2, <2>5 DEF TypeOK
    <2> QED BY <1>6, <2>2, <2>6 DEF Answer, TypeOK
<1>7. ASSUME NEW r \in requests, ReceiveError(r) PROVE TypeOK'
    <2>1. r.asked \in Specs
        BY DEF Requests, TypeOK
    <2>2. hist' \in Hists
        BY <1>7, <2>1, HistUpdates DEF ReceiveError, TypeOK
    <2> QED BY <1>7, <2>2 DEF ReceiveError, TypeOK
<1>8. ASSUME Break PROVE /\ requests' \subseteq Requests
                         /\ from' \in [Jids -> Seq(Stanzas)]
                         /\ room' \in [Jids -> Seq(Clients)]
    <2>1. \A j \in Jids : client[j] # Nothing => Presence(client[j]) \in Stanzas
        BY DEF Presence, Stanzas, TypeOK
    <2> QED BY <1>8, <2>1 DEF Break
<1>9. CASE Reconnect
    <2>1. InFlight \cap AnnouncedByAny \subseteq Specs
        BY AnnouncedSpecs DEF AnnouncedByAny
    <2>2. Break
        BY <1>9 DEF Reconnect
    <2>3. hist' \in Hists
        BY <1>9, <2>1, HistUpdates DEF Reconnect, TypeOK
    <2> QED BY <1>8, <1>9, <2>2, <2>3 DEF Reconnect, TypeOK
<1>10. CASE Restart
    <2>1. Break
        BY <1>10 DEF Restart
    <2>2. hist' \in Hists
        BY <1>10, HistUpdates DEF Restart, TypeOK
    <2> QED BY <1>8, <1>10, <2>1, <2>2 DEF Restart, TypeOK
<1>11. CASE SetEnabled
    BY <1>11, HistUpdates DEF SetEnabled, TypeOK
<1>12. CASE UNCHANGED vars
    BY <1>12 DEF vars, TypeOK
<1> QED BY <1>1, <1>2, <1>3, <1>4, <1>5, <1>6, <1>7, <1>9, <1>10, <1>11, <1>12 DEF Next

\* The lists after a contact is taken out, and put in.
LEMMA WithAt ==
    ASSUME NEW lists \in [Specs -> [Jids -> Nat]], NEW j \in Jids, NEW specs,
           NEW s \in Specs, NEW k \in Jids
    PROVE  With(lists, j, specs)[s][k] =
               IF s \in specs /\ k = j THEN lists[s][k] + 1 ELSE lists[s][k]
BY DEF With
LEMMA WithoutAt ==
    ASSUME TypeOK, NEW j \in Jids, NEW specs, NEW s \in Specs, NEW k \in Jids
    PROVE  Without(j, specs)[s][k] =
               IF s \in specs /\ k = j THEN 0 ELSE capsJids[s][k]
BY DEF Without, TypeOK

\* What an update changes in the announcements.
LEMMA AnnouncedUpdated ==
    ASSUME TypeOK, NEW j \in Jids, NEW c \in Clients, UpdateCaps(j, c), NEW k \in Jids
    PROVE  Announced(k)' = IF k = j THEN IF Legal(c) THEN Flatten(c) ELSE {} ELSE Announced(k)
<1>1. c # Nothing
    BY ClientAssumption, NothingAssumption
<1>2. CASE SameCaps(j, c)
    <2>1. Legal(c)
        BY <1>1, <1>2 DEF SameCaps, TypeOK
    <2> QED BY <1>1, <1>2, <2>1 DEF SameCaps, Announced
<1>3. CASE NewCaps(j, c)
    BY <1>1, <1>3 DEF NewCaps, Announced, TypeOK
<1>4. CASE NoCaps(j, c)
    BY <1>4 DEF NoCaps, Announced, TypeOK
<1> QED BY <1>2, <1>3, <1>4 DEF UpdateCaps

\* And in the lists.
LEMMA ListsUpdated ==
    ASSUME TypeOK, ListedIsAnnounced, NEW j \in Jids, NEW c \in Clients, UpdateCaps(j, c),
           NEW s \in Specs, NEW k \in Jids
    PROVE  /\ k # j => capsJids'[s][k] = capsJids[s][k]
           /\ capsJids'[s][j] > 0 <=> Legal(c) /\ s \in Flatten(c)
<1>1. c # Nothing
    BY ClientAssumption, NothingAssumption
<1>2. capsJids \in [Specs -> [Jids -> Nat]] /\ capsJids[s][k] \in Nat /\ capsJids[s][j] \in Nat
    BY DEF TypeOK
<1>3. capsJids[s][j] > 0 <=> s \in Announced(j)
    BY DEF ListedIsAnnounced
<1>4. CASE SameCaps(j, c)
    <2>1. Legal(c) /\ Announced(j) = Flatten(c)
        BY <1>1, <1>4 DEF SameCaps, TypeOK, Announced
    <2>2. capsJids' = With(capsJids, j, Flatten(c))
        BY <1>4 DEF SameCaps
    <2> QED BY <1>2, <1>3, <2>1, <2>2, WithAt
<1>5. CASE NewCaps(j, c)
    <2>1. Legal(c) /\ capsJids' = With(Without(j, Announced(j)), j, Flatten(c))
        BY <1>5 DEF NewCaps
    <2>2. Without(j, Announced(j)) \in [Specs -> [Jids -> Nat]]
        BY WithoutType
    <2> QED BY <1>2, <1>3, <2>1, <2>2, WithAt, WithoutAt
<1>6. CASE NoCaps(j, c)
    <2>1. ~Legal(c) /\ capsJids' = Without(j, Announced(j))
        BY <1>6 DEF NoCaps
    <2> QED BY <1>2, <1>3, <2>1, WithoutAt
<1> QED BY <1>4, <1>5, <1>6 DEF UpdateCaps

\* An update keeps the two maps in agreement.
LEMMA UpdateCapsListed ==
    ASSUME TypeOK, ListedIsAnnounced, NEW j \in Jids, NEW c \in Clients, UpdateCaps(j, c)
    PROVE  ListedIsAnnounced'
<1>1. SUFFICES ASSUME NEW s \in Specs, NEW k \in Jids
               PROVE  capsJids'[s][k] > 0 <=> s \in Announced(k)'
    BY DEF ListedIsAnnounced
<1>2. CASE k = j
    BY <1>2, AnnouncedUpdated, ListsUpdated
<1>3. CASE k # j
    BY <1>3, AnnouncedUpdated, ListsUpdated DEF ListedIsAnnounced
<1> QED BY <1>2, <1>3

\* So does every step.
LEMMA ListedStep ==
    ASSUME TypeOK, ListedIsAnnounced, [Next]_vars PROVE ListedIsAnnounced'
<1>1. ASSUME NEW j \in Jids, ReceivePresence(j) PROVE ListedIsAnnounced'
    <2>1. from[j] \in Seq(Stanzas) /\ from[j] # <<>>
        BY <1>1 DEF ReceivePresence, TypeOK
    <2>2. Head(from[j]) \in Stanzas
        BY <2>1
    <2>3. Head(from[j]).caps \in Clients
        BY <1>1, <2>2 DEF ReceivePresence, Stanzas
    <2> QED BY <1>1, <2>3, UpdateCapsListed DEF ReceivePresence
<1>2. ASSUME NEW j \in Jids, ReceiveRoomPresence(j) PROVE ListedIsAnnounced'
    <2>1. room[j] \in Seq(Clients) /\ room[j] # <<>>
        BY <1>2 DEF ReceiveRoomPresence, TypeOK
    <2>2. Head(room[j]) \in Clients
        BY <2>1
    <2> QED BY <1>2, <2>2, UpdateCapsListed DEF ReceiveRoomPresence
<1>3. CASE Restart
    BY <1>3 DEF Restart, ListedIsAnnounced, Announced
<1>4. CASE UNCHANGED <<capsSpecs, capsJids>>
    BY <1>4 DEF ListedIsAnnounced, Announced
<1> QED BY <1>1, <1>2, <1>3, <1>4 DEF Next, vars, ReceiveResult, Announce,
           RegisteredElsewhere, Answer, ReceiveError, Reconnect, SetEnabled

\* Who is being asked: a request, or an answer on its way.
LEMMA InFlightIs ==
    ASSUME NEW s
    PROVE  s \in InFlight <=> \/ \E r \in requests : r.asked = s
                              \/ \E j \in Jids : \E i \in DOMAIN from[j] :
                                     from[j][i].type = "result" /\ from[j][i].request.asked = s
BY DEF InFlight, AnswersOf
LEMMA InFlightIsNext ==
    ASSUME NEW s
    PROVE  s \in InFlight' <=> \/ \E r \in requests' : r.asked = s
                               \/ \E j \in Jids : \E i \in DOMAIN from'[j] :
                                      from'[j][i].type = "result" /\ from'[j][i].request.asked = s
BY DEF InFlight, AnswersOf

\* A request that is still there, or an answer that is, keeps it so.
LEMMA InFlightKept ==
    ASSUME NEW s \in InFlight,
           \A r \in requests : r.asked = s => \E q \in requests' : q.asked = s,
           \A j \in Jids : \A i \in DOMAIN from[j] :
               from[j][i].type = "result" /\ from[j][i].request.asked = s =>
                   \E m \in DOMAIN from'[j] :
                       from'[j][m].type = "result" /\ from'[j][m].request.asked = s
    PROVE  s \in InFlight'
BY InFlightIs, InFlightIsNext

\* What is behind the head of a queue stays in it.
LEMMA BehindHead ==
    ASSUME NEW f \in Seq(Stanzas), f # <<>>, NEW i \in DOMAIN f, i # 1
    PROVE  i - 1 \in DOMAIN Tail(f) /\ Tail(f)[i - 1] = f[i]
<1>1. i \in 1..Len(f) /\ Len(f) \in Nat
    OBVIOUS
<1>2. Len(Tail(f)) = Len(f) - 1 /\ DOMAIN Tail(f) = 1..(Len(f) - 1)
    OBVIOUS
<1>3. i - 1 \in 1..(Len(f) - 1) /\ (i - 1) + 1 = i
    BY <1>1
<1> QED BY <1>2, <1>3

\* Nothing of the registry is forgotten.
LEMMA RegistryKept ==
    ASSUME TypeOK, [Next]_vars, NEW s \in Specs, registry[s] # Nothing
    PROVE  registry'[s] # Nothing
<1>1. ASSUME NEW t \in Specs, NEW features, NEW j \in Jids, Register(t, features, j)
      PROVE  registry'[s] # Nothing
    BY <1>1 DEF Register, TypeOK
<1>2. ASSUME NEW j \in Jids, ReceiveResult(j) PROVE registry'[s] # Nothing
    <2>1. from[j] \in Seq(Stanzas) /\ from[j] # <<>>
        BY <1>2 DEF ReceiveResult, TypeOK
    <2>2. Head(from[j]) \in Stanzas
        BY <2>1
    <2>3. Head(from[j]).request.asked \in Specs
        BY <1>2, <2>2 DEF ReceiveResult, Stanzas, Requests
    <2> QED BY <1>1, <1>2, <2>3, SpecForNodeSpec DEF ReceiveResult
<1>3. ASSUME NEW t \in Specs, RegisteredElsewhere(t) PROVE registry'[s] # Nothing
    BY <1>1, <1>3 DEF RegisteredElsewhere
<1>4. CASE UNCHANGED registry
    BY <1>4
<1> QED BY <1>2, <1>3, <1>4 DEF Next, vars, ReceivePresence, ReceiveRoomPresence, UpdateCaps,
           Announce, Answer, ReceiveError, Reconnect, Restart, SetEnabled

\* A contact that is alone in a list after it announced c was put there now; where
\* it is not alone, another contact announces the same.
LEMMA NotAlone ==
    ASSUME TypeOK, ListedIsAnnounced, NEW j \in Jids, NEW c \in Clients, NEW s \in Specs,
           s \in Flatten(c),
           ~OnlyOne(With(Without(j, Announced(j)), j, Flatten(c))[s], j)
    PROVE  \E k \in Jids \ {j} : s \in Announced(k)
<1> DEFINE lists == With(Without(j, Announced(j)), j, Flatten(c))
<1>1. Without(j, Announced(j)) \in [Specs -> [Jids -> Nat]]
    BY WithoutType
<1>2. capsJids[s][j] \in Nat /\ (capsJids[s][j] > 0 <=> s \in Announced(j))
    BY DEF TypeOK, ListedIsAnnounced
<1>3. lists[s][j] = 1
    BY <1>1, <1>2, WithAt, WithoutAt
<1>4. \A k \in Jids \ {j} : lists[s][k] = capsJids[s][k]
    BY <1>1, WithAt, WithoutAt
<1>5. PICK k \in Jids \ {j} : capsJids[s][k] # 0
    BY <1>3, <1>4 DEF OnlyOne
<1>6. capsJids[s][k] > 0
    BY <1>5 DEF TypeOK
<1> QED BY <1>5, <1>6 DEF ListedIsAnnounced

\* An update of the capabilities of j, when the request sent by it and everything
\* that was being asked is kept.
LEMMA UpdateCapsUnknown ==
    ASSUME TypeOK, ListedIsAnnounced, UnknownOnlyIfFailed, NEW j \in Jids, NEW c \in Clients,
           UpdateCaps(j, c), \A s \in InFlight : s \in InFlight'
    PROVE  UnknownOnlyIfFailed'
<1>1. SUFFICES ASSUME NEW k \in Jids, NEW s \in Announced(k)',
                      registry[s] = Nothing, s \notin InFlight'
               PROVE  s \in hist'.failed
    BY DEF UnknownOnlyIfFailed, UpdateCaps
<1>2. ASSUME NEW i \in Jids, s \in Announced(i) PROVE s \in hist.failed
    BY <1>1, <1>2 DEF UnknownOnlyIfFailed
<1>3. CASE SameCaps(j, c)
    BY <1>1, <1>2, <1>3 DEF SameCaps, Announced
<1>4. CASE NoCaps(j, c)
    <2>1. k # j /\ s \in Announced(k)
        BY <1>1, <1>4, AnnouncedUpdated DEF NoCaps
    <2>2. s \notin OnlyBy(j)
        BY <2>1 DEF OnlyBy
    <2>3. hist'.failed = hist.failed \ OnlyBy(j)
        BY <1>4 DEF NoCaps, TypeOK, Hists
    <2> QED BY <1>2, <2>1, <2>2, <2>3
<1>5. CASE NewCaps(j, c)
    <2> DEFINE lists == With(Without(j, Announced(j)), j, Flatten(c))
               ask == {t \in Flatten(c) : registry[t] = Nothing /\ OnlyOne(lists[t], j)}
    <2>1. hist'.failed = IF enabled THEN (hist.failed \ OnlyBy(j)) \ ask
                                    ELSE (hist.failed \ OnlyBy(j)) \cup ask
        BY <1>5 DEF NewCaps, TypeOK, Hists
    <2>2. enabled => s \notin ask
        <3>1. SUFFICES ASSUME enabled, s \in ask PROVE FALSE
            OBVIOUS
        <3>2. Request(hist.ids, j, s) \in requests' /\ Request(hist.ids, j, s).asked = s
            BY <1>5, <3>1 DEF NewCaps, Request
        <3> QED BY <1>1, <3>2, InFlightIsNext
    <2>3. CASE s \in ask
        BY <2>1, <2>2, <2>3
    <2>4. CASE s \notin ask
        <3>1. \E i \in Jids \ {j} : s \in Announced(i)
            <4>1. CASE k = j
                <5>1. s \in Flatten(c) /\ Flatten(c) \subseteq Specs
                    BY <1>1, <1>5, <4>1, AnnouncedUpdated, FlattenSpecs DEF NewCaps
                <5>2. s \in Specs /\ ~OnlyOne(lists[s], j)
                    BY <1>1, <2>4, <5>1
                <5> QED BY <5>1, <5>2, NotAlone
            <4>2. CASE k # j
                BY <1>1, <4>2, AnnouncedUpdated
            <4> QED BY <4>1, <4>2
        <3>2. s \notin OnlyBy(j) /\ s \in hist.failed
            BY <1>2, <3>1 DEF OnlyBy
        <3> QED BY <2>1, <2>4, <3>2
    <2> QED BY <2>3, <2>4
<1> QED BY <1>3, <1>4, <1>5 DEF UpdateCaps

\* The head of a queue is taken: what is behind it is still on its way.
LEMMA InFlightBehind ==
    ASSUME TypeOK, NEW j \in Jids, from[j] # <<>>, from' = [from EXCEPT ![j] = Tail(@)],
           \A r \in requests : r \in requests', NEW s \in InFlight,
           Head(from[j]).type = "result" => Head(from[j]).request.asked # s
    PROVE  s \in InFlight'
<1>1. from[j] \in Seq(Stanzas)
    BY DEF TypeOK
<1>2. ASSUME NEW k \in Jids, NEW i \in DOMAIN from[k],
             from[k][i].type = "result" /\ from[k][i].request.asked = s
      PROVE  \E m \in DOMAIN from'[k] :
                 from'[k][m].type = "result" /\ from'[k][m].request.asked = s
    <2>1. CASE k = j
        <3>1. Head(from[j]) = from[j][1]
            BY <1>1
        <3>2. i # 1
            BY <1>2, <2>1, <3>1
        <3>3. i - 1 \in DOMAIN Tail(from[j]) /\ Tail(from[j])[i - 1] = from[j][i]
            BY <1>1, <2>1, <3>2, BehindHead
        <3>4. from'[k] = Tail(from[j])
            BY <2>1 DEF TypeOK
        <3> QED BY <1>2, <2>1, <3>3, <3>4
    <2>2. CASE k # j
        BY <1>2, <2>2 DEF TypeOK
    <2> QED BY <2>1, <2>2
<1> QED BY <1>2, InFlightKept

\* A stanza is appended: what was on its way still is.
LEMMA InFlightAppended ==
    ASSUME TypeOK, NEW j \in Jids, NEW x \in Stanzas, from' = [from EXCEPT ![j] = Append(@, x)],
           NEW s \in InFlight,
           \A r \in requests : r.asked = s =>
               \/ \E q \in requests' : q.asked = s
               \/ x.type = "result" /\ x.request.asked = s
    PROVE  s \in InFlight'
<1>1. from[j] \in Seq(Stanzas) /\ Len(from[j]) \in Nat
    BY DEF TypeOK
<1>2. from'[j] = Append(from[j], x)
    BY DEF TypeOK
<1>3. /\ \A i \in DOMAIN from[j] : i \in DOMAIN from'[j] /\ from'[j][i] = from[j][i]
      /\ Len(from[j]) + 1 \in DOMAIN from'[j] /\ from'[j][Len(from[j]) + 1] = x
    BY <1>1, <1>2
<1>4. \A k \in Jids \ {j} : from'[k] = from[k]
    BY DEF TypeOK
<1>5. CASE \E r \in requests : r.asked = s
    BY <1>3, <1>5, InFlightIsNext
<1>6. ASSUME NEW k \in Jids, NEW i \in DOMAIN from[k],
             from[k][i].type = "result" /\ from[k][i].request.asked = s
      PROVE  s \in InFlight'
    <2>1. i \in DOMAIN from'[k] /\ from'[k][i] = from[k][i]
        BY <1>3, <1>4
    <2> QED BY <1>6, <2>1, InFlightIsNext
<1> QED BY <1>5, <1>6, InFlightIs

\* Every step keeps what is unknown accounted for.
LEMMA UnknownStep ==
    ASSUME TypeOK, ListedIsAnnounced, UnknownOnlyIfFailed, [Next]_vars
    PROVE  UnknownOnlyIfFailed'
<1>0. ASSUME NEW j \in Jids PROVE from[j] \in Seq(Stanzas)
    BY DEF TypeOK
\* The steps that do not change what is announced.
<1>1. ASSUME UNCHANGED capsSpecs,
             \A s \in AnnouncedByAny : s \in InFlight =>
                 registry'[s] # Nothing \/ s \in InFlight' \/ s \in hist'.failed,
             \A s \in AnnouncedByAny : s \in hist.failed => s \in hist'.failed
      PROVE  UnknownOnlyIfFailed'
    <2>1. SUFFICES ASSUME NEW j \in Jids, NEW s \in Announced(j)
                   PROVE registry'[s] # Nothing \/ s \in InFlight' \/ s \in hist'.failed
        BY <1>1 DEF UnknownOnlyIfFailed, Announced
    <2>2. s \in AnnouncedByAny /\ s \in Specs
        BY AnnouncedSpecs DEF AnnouncedByAny
    <2>3. registry[s] # Nothing \/ s \in InFlight \/ s \in hist.failed
        BY DEF UnknownOnlyIfFailed
    <2> QED BY <1>1, <2>2, <2>3, RegistryKept
<1>2. ASSUME NEW j \in Jids, ReceivePresence(j) PROVE UnknownOnlyIfFailed'
    <2>1. Head(from[j]) \in Stanzas
        BY <1>0, <1>2 DEF ReceivePresence
    <2>2. Head(from[j]).caps \in Clients /\ Head(from[j]).type # "result"
        BY <1>2, <2>1 DEF ReceivePresence, Stanzas
    <2>3. \A r \in requests : r \in requests'
        BY <1>2 DEF ReceivePresence, UpdateCaps, SameCaps, NewCaps, NoCaps
    <2>4. \A s \in InFlight : s \in InFlight'
        BY <1>2, <2>2, <2>3, InFlightBehind DEF ReceivePresence
    <2> QED BY <1>2, <2>2, <2>4, UpdateCapsUnknown DEF ReceivePresence
<1>3. ASSUME NEW j \in Jids, ReceiveRoomPresence(j) PROVE UnknownOnlyIfFailed'
    <2>1. Head(room[j]) \in Clients
        BY <1>3 DEF ReceiveRoomPresence, TypeOK
    <2>2. \A r \in requests : r \in requests'
        BY <1>3 DEF ReceiveRoomPresence, UpdateCaps, SameCaps, NewCaps, NoCaps
    <2>3. \A s \in InFlight : s \in InFlight'
        BY <1>3, <2>2, InFlightIs, InFlightIsNext DEF ReceiveRoomPresence
    <2> QED BY <1>3, <2>1, <2>3, UpdateCapsUnknown DEF ReceiveRoomPresence
<1>4. ASSUME NEW j \in Jids, ReceiveResult(j) PROVE UnknownOnlyIfFailed'
    <2> DEFINE asked == Head(from[j]).request.asked
               features == Head(from[j]).features
    <2>1. Head(from[j]) \in Stanzas
        BY <1>0, <1>4 DEF ReceiveResult
    <2>2. asked \in Specs /\ features \in Specs
        BY <1>4, <2>1 DEF ReceiveResult, Stanzas, Requests
    <2>3. hist'.failed = IF SpecForNode(j, asked) = asked THEN hist.failed
                         ELSE hist.failed \cup ({asked} \cap AnnouncedByAny)
        BY <1>4 DEF ReceiveResult, TypeOK, Hists
    <2>4. SpecForNode(j, asked) = asked => registry'[asked] # Nothing
        <3>1. SUFFICES ASSUME SpecForNode(j, asked) = asked PROVE registry'[asked] # Nothing
            OBVIOUS
        <3>2. asked # Nothing /\ features # Nothing
            BY <2>2, NothingAssumption
        <3>3. Register(asked, features, j)
            BY <1>4, <3>1, <3>2 DEF ReceiveResult
        <3> QED BY <2>2, <3>2, <3>3 DEF Register, TypeOK
    <2>5. \A s \in InFlight : s # asked => s \in InFlight'
        BY <1>4, InFlightBehind DEF ReceiveResult
    <2>6. UNCHANGED capsSpecs
        BY <1>4 DEF ReceiveResult
    <2> QED BY <1>1, <2>3, <2>4, <2>5, <2>6
<1>5. ASSUME NEW j \in Jids, NEW c \in Clients, Announce(j, c) PROVE UnknownOnlyIfFailed'
    <2>1. UNCHANGED <<capsSpecs, requests>> /\ hist'.failed = hist.failed
        BY <1>5 DEF Announce, TypeOK, Hists
    <2>2. \A s \in InFlight : s \in InFlight'
        <3>1. CASE from' = [from EXCEPT ![j] = Append(@, Presence(c))]
            <4>1. Presence(c) \in Stanzas
                BY DEF Presence, Stanzas
            <4> QED BY <2>1, <3>1, <4>1, InFlightAppended
        <3>2. CASE UNCHANGED from
            BY <2>1, <3>2, InFlightIs, InFlightIsNext
        <3> QED BY <1>5, <3>1, <3>2 DEF Announce
    <2> QED BY <1>1, <2>1, <2>2
<1>6. ASSUME NEW t \in Specs, RegisteredElsewhere(t) PROVE UnknownOnlyIfFailed'
    <2>1. UNCHANGED <<capsSpecs, requests, from>> /\ hist'.failed = hist.failed
        BY <1>6 DEF RegisteredElsewhere, TypeOK, Hists
    <2> QED BY <1>1, <2>1, InFlightIs, InFlightIsNext
<1>7. ASSUME NEW r \in requests, Answer(r) PROVE UnknownOnlyIfFailed'
    <2> DEFINE x == Result(r, [r.asked EXCEPT !.ver = client[r.jid].ver])
    <2>1. r \in Requests /\ r.jid \in Jids /\ r.asked \in Specs
        BY DEF TypeOK, Requests
    <2>2. client[r.jid] \in Clients /\ Legal(client[r.jid])
        BY <1>7, <2>1 DEF Answer, Knows, TypeOK
    <2>3. [r.asked EXCEPT !.ver = client[r.jid].ver] \in Specs
        BY <2>1, <2>2, FlattenSpecs DEF Specs
    <2>4. x \in Stanzas /\ x.type = "result" /\ x.request = r
        BY <2>1, <2>3 DEF Result, Stanzas
    <2>5. /\ from' = [from EXCEPT ![r.jid] = Append(@, x)]
          /\ \A q \in requests : q \in requests' \/ q = r
          /\ UNCHANGED <<capsSpecs, hist>>
        BY <1>7 DEF Answer
    <2>6. \A s \in InFlight : s \in InFlight'
        <3> HIDE DEF x
        <3> QED BY <2>1, <2>4, <2>5, InFlightAppended
    <2> QED BY <1>1, <2>5, <2>6
<1>8. ASSUME NEW r \in requests, ReceiveError(r) PROVE UnknownOnlyIfFailed'
    <2>1. /\ \A q \in requests : q \in requests' \/ q = r
          /\ UNCHANGED <<capsSpecs, from>>
          /\ hist'.failed = hist.failed \cup ({r.asked} \cap AnnouncedByAny)
        BY <1>8 DEF ReceiveError, TypeOK, Hists
    <2>2. \A s \in InFlight : s # r.asked => s \in InFlight'
        BY <2>1, InFlightIs, InFlightIsNext
    <2> QED BY <1>1, <2>1, <2>2
<1>9. CASE Reconnect
    <2>1. UNCHANGED capsSpecs /\ hist'.failed = hist.failed \cup (InFlight \cap AnnouncedByAny)
        BY <1>9 DEF Reconnect, TypeOK, Hists
    <2> QED BY <1>1, <2>1
<1>10. CASE Restart
    BY <1>10 DEF Restart, UnknownOnlyIfFailed, Announced
<1>11. CASE SetEnabled
    <2>1. UNCHANGED <<capsSpecs, requests, from>> /\ hist'.failed = hist.failed
        BY <1>11 DEF SetEnabled, TypeOK, Hists
    <2> QED BY <1>1, <2>1, InFlightIs, InFlightIsNext
<1>12. CASE UNCHANGED vars
    <2>1. UNCHANGED <<capsSpecs, requests, from, hist>>
        BY <1>12 DEF vars
    <2> QED BY <1>1, <2>1, InFlightIs, InFlightIsNext
<1> QED BY <1>2, <1>3, <1>4, <1>5, <1>6, <1>7, <1>8, <1>9, <1>10, <1>11, <1>12 DEF Next

\* The initial states have all three.
LEMMA InitAll == ASSUME Init PROVE TypeOK /\ ListedIsAnnounced /\ UnknownOnlyIfFailed
<1>1. TypeOK
    BY DEF Init, TypeOK, Hists
<1>2. ListedIsAnnounced /\ UnknownOnlyIfFailed
    BY DEF Init, ListedIsAnnounced, UnknownOnlyIfFailed, Announced
<1> QED BY <1>1, <1>2

\* The state stays well-formed; only legal capabilities are kept (updateCaps).
THEOREM TypeCorrect == Spec => []TypeOK
<1>1. TypeOK /\ [Next]_vars => TypeOK'
    BY TypeStep
<1> QED BY <1>1, InitAll, PTL DEF Spec

\* capsSpecs_ and capsJids_ agree for any number of contacts and versions, however
\* often presences repeat (updateCaps :107-141): removeAll takes every entry.
THEOREM Listed == Spec => []ListedIsAnnounced
<1>1. TypeOK /\ ListedIsAnnounced /\ [Next]_vars => ListedIsAnnounced'
    BY ListedStep
<1> QED BY <1>1, InitAll, TypeCorrect, PTL DEF Spec

\* Asking only the first contact of a specification (updateCaps :120-128) leaves
\* nothing unknown but what failed or was never sent.
THEOREM Known == Spec => []UnknownOnlyIfFailed
<1>1. TypeOK /\ ListedIsAnnounced /\ UnknownOnlyIfFailed /\ [Next]_vars => UnknownOnlyIfFailed'
    BY UnknownStep
<1> QED BY <1>1, InitAll, TypeCorrect, Listed, PTL DEF Spec

----------------------------------------------------------------------------
(* What the windows show.                                                  *)

\* A registration changes the features of those who announce the specification,
\* and those are the ones who are told.
LEMMA RegisterShown ==
    ASSUME TypeOK, ListedIsAnnounced, ShownIsCurrent,
           NEW s \in Specs, NEW features \in Specs, NEW j \in Jids,
           Register(s, features, j), UNCHANGED capsSpecs
    PROVE  ShownIsCurrent'
<1>1. SUFFICES ASSUME NEW k \in Jids, capsSpecs[k] # Nothing
               PROVE  shown'[k] = FeaturesOf(Announced(k), registry')
    BY DEF ShownIsCurrent, Announced
<1>2. shown'[k] = IF registry[s] = Nothing /\ capsJids[s][k] > 0
                  THEN FeaturesOf(Announced(k), registry') ELSE shown[k]
    BY DEF Register
<1>3. shown[k] = FeaturesOf(Announced(k), registry)
    BY <1>1 DEF ShownIsCurrent
<1>4. CASE registry[s] # Nothing
    <2>1. registry' = registry
        BY <1>4 DEF Register
    <2> QED BY <1>2, <1>3, <1>4, <2>1
<1>5. CASE registry[s] = Nothing /\ s \notin Announced(k)
    <2>1. ~(capsJids[s][k] > 0)
        BY <1>5 DEF ListedIsAnnounced
    <2>2. \A t \in Announced(k) : registry'[t] = registry[t]
        BY <1>5, AnnouncedSpecs DEF Register, TypeOK
    <2>3. FeaturesOf(Announced(k), registry') = FeaturesOf(Announced(k), registry)
        BY <2>2 DEF FeaturesOf
    <2> QED BY <1>2, <1>3, <2>1, <2>3
<1>6. CASE registry[s] = Nothing /\ s \in Announced(k)
    BY <1>2, <1>6 DEF ListedIsAnnounced
<1> QED BY <1>4, <1>5, <1>6

\* An update tells about the contact it is for, unless it makes it forgotten.
LEMMA UpdateCapsShown ==
    ASSUME TypeOK, ShownIsCurrent, NEW j \in Jids, NEW c \in Clients, UpdateCaps(j, c)
    PROVE  ShownIsCurrent'
<1>1. SUFFICES ASSUME NEW k \in Jids, capsSpecs'[k] # Nothing
               PROVE  shown'[k] = FeaturesOf(Announced(k)', registry')
    BY DEF ShownIsCurrent
<1>2. registry' = registry
    BY DEF UpdateCaps
<1>3. CASE SameCaps(j, c)
    BY <1>1, <1>2, <1>3 DEF SameCaps, ShownIsCurrent, Announced
<1>4. CASE NewCaps(j, c)
    <2>1. Announced(k)' = IF k = j THEN Flatten(c) ELSE Announced(k)
        BY <1>4, AnnouncedUpdated DEF NewCaps
    <2>2. shown'[k] = IF k = j THEN FeaturesOf(Flatten(c), registry) ELSE shown[k]
        BY <1>4 DEF NewCaps, TypeOK
    <2>3. k # j => capsSpecs[k] # Nothing
        BY <1>1, <1>4 DEF NewCaps, TypeOK
    <2> QED BY <1>2, <2>1, <2>2, <2>3 DEF ShownIsCurrent
<1>5. CASE NoCaps(j, c)
    <2>1. k # j /\ capsSpecs[k] # Nothing /\ shown' = shown
        BY <1>1, <1>5 DEF NoCaps, TypeOK
    <2>2. Announced(k)' = Announced(k)
        BY <2>1, AnnouncedUpdated
    <2> QED BY <1>2, <2>1, <2>2 DEF ShownIsCurrent
<1> QED BY <1>3, <1>4, <1>5 DEF UpdateCaps

\* So every step keeps what is shown.
LEMMA ShownStep ==
    ASSUME TypeOK, ListedIsAnnounced, ShownIsCurrent, [Next]_vars PROVE ShownIsCurrent'
<1>1. ASSUME NEW j \in Jids, ReceivePresence(j) PROVE ShownIsCurrent'
    <2>1. Head(from[j]) \in Stanzas
        BY <1>1 DEF ReceivePresence, TypeOK
    <2>2. Head(from[j]).caps \in Clients
        BY <1>1, <2>1 DEF ReceivePresence, Stanzas
    <2> QED BY <1>1, <2>2, UpdateCapsShown DEF ReceivePresence
<1>2. ASSUME NEW j \in Jids, ReceiveRoomPresence(j) PROVE ShownIsCurrent'
    <2>1. Head(room[j]) \in Clients
        BY <1>2 DEF ReceiveRoomPresence, TypeOK
    <2> QED BY <1>2, <2>1, UpdateCapsShown DEF ReceiveRoomPresence
<1>3. ASSUME NEW j \in Jids, ReceiveResult(j) PROVE ShownIsCurrent'
    <2>1. Head(from[j]) \in Stanzas
        BY <1>3 DEF ReceiveResult, TypeOK
    <2>2. Head(from[j]).request.asked \in Specs /\ Head(from[j]).features \in Specs
        BY <1>3, <2>1 DEF ReceiveResult, Stanzas, Requests
    <2>3. UNCHANGED capsSpecs
        BY <1>3 DEF ReceiveResult
    <2>4. CASE SpecForNode(j, Head(from[j]).request.asked) = Nothing
        BY <1>3, <2>4 DEF ReceiveResult, ShownIsCurrent, Announced
    <2>5. CASE SpecForNode(j, Head(from[j]).request.asked) # Nothing
        BY <1>3, <2>2, <2>3, <2>5, SpecForNodeSpec, RegisterShown DEF ReceiveResult
    <2> QED BY <2>4, <2>5
<1>4. ASSUME NEW s \in Specs, RegisteredElsewhere(s) PROVE ShownIsCurrent'
    BY <1>4, RegisterShown DEF RegisteredElsewhere
<1>5. ASSUME UNCHANGED <<capsSpecs, registry, shown>> PROVE ShownIsCurrent'
    BY <1>5 DEF ShownIsCurrent, Announced
<1>6. CASE Restart
    BY <1>6 DEF Restart, ShownIsCurrent
<1>7. ASSUME NEW j \in Jids, NEW c \in Clients, Announce(j, c) PROVE ShownIsCurrent'
    BY <1>5, <1>7 DEF Announce
<1>8. ASSUME NEW r \in requests, Answer(r) \/ ReceiveError(r) PROVE ShownIsCurrent'
    BY <1>5, <1>8 DEF Answer, ReceiveError
<1>9. CASE Reconnect \/ SetEnabled \/ UNCHANGED vars
    BY <1>5, <1>9 DEF Reconnect, SetEnabled, vars
<1> QED BY <1>1, <1>2, <1>3, <1>4, <1>6, <1>7, <1>8, <1>9 DEF Next

----------------------------------------------------------------------------
(* What is registered is right.                                            *)

NoPresence(q, first, last) == \A i \in first..last : q[i].type # "presence"

\* In the stanzas q of a contact that is known to announce k and announces c: the
\* last presence is about c, and every answer is about the version of the
\* presence before it, or else of k.
LastIs(q, k, c) ==
    \/ NoPresence(q, 1, Len(q)) /\ k \in {Nothing, c}
    \/ \E p \in DOMAIN q : /\ q[p].type = "presence" /\ q[p].caps = c
                           /\ NoPresence(q, p + 1, Len(q))
About(q, i, k) ==
    \/ NoPresence(q, 1, i - 1) /\ (k = Nothing \/ k.ver = q[i].features.ver)
    \/ \E p \in 1..i - 1 : /\ q[p].type = "presence" /\ NoPresence(q, p + 1, i - 1)
                           /\ q[p].caps.ver = q[i].features.ver
AnswersAre(q, k) ==
    \A i \in DOMAIN q : q[i].type = "result" =>
        /\ q[i].features = [q[i].request.asked EXCEPT !.ver = q[i].features.ver]
        /\ About(q, i, k)

InOrder ==
    ~hist.room => \A j \in Jids :
        /\ room[j] = <<>>
        /\ LastIs(from[j], capsSpecs[j], client[j])
        /\ AnswersAre(from[j], capsSpecs[j])

\* The stanzas behind the first.
LEMMA Behind ==
    ASSUME NEW S, NEW q \in Seq(S), q # <<>>
    PROVE  /\ Tail(q) \in Seq(S) /\ Len(q) \in Nat /\ Len(q) > 0 /\ Len(Tail(q)) = Len(q) - 1
           /\ DOMAIN q = 1..Len(q) /\ DOMAIN Tail(q) = 1..Len(q) - 1
           /\ \A i \in 1..Len(q) - 1 : Tail(q)[i] = q[i + 1]
           /\ Head(q) = q[1]
OBVIOUS

\* A first presence tells what the answers behind it are about.
LEMMA PresenceTaken ==
    ASSUME NEW q \in Seq(Stanzas), q # <<>>, q[1].type = "presence", NEW k, NEW c, NEW k2,
           LastIs(q, k, c), AnswersAre(q, k), k2 \in {Nothing, q[1].caps}
    PROVE  LastIs(Tail(q), k2, c) /\ AnswersAre(Tail(q), k2)
<1> DEFINE t == Tail(q)
           n == Len(q)
<1>1. /\ n \in Nat /\ n > 0 /\ Len(t) = n - 1 /\ DOMAIN q = 1..n /\ DOMAIN t = 1..n - 1
      /\ \A i \in 1..n - 1 : t[i] = q[i + 1]
    BY Behind
<1> HIDE DEF t, n
<1>2. LastIs(t, k2, c)
    <2>1. PICK p \in 1..n : q[p].type = "presence" /\ q[p].caps = c /\ NoPresence(q, p + 1, n)
        BY <1>1 DEF LastIs, NoPresence, n
    <2>2. CASE p = 1
        BY <1>1, <2>1, <2>2 DEF LastIs, NoPresence
    <2>3. CASE p > 1
        <3>1. p - 1 \in DOMAIN t /\ t[p - 1] = q[p]
            BY <1>1, <2>3
        <3>2. NoPresence(t, p - 1 + 1, Len(t))
            BY <1>1, <2>1, <2>3 DEF NoPresence
        <3> QED BY <2>1, <3>1, <3>2 DEF LastIs
    <2> QED BY <2>2, <2>3
<1>3. AnswersAre(t, k2)
    <2>1. SUFFICES ASSUME NEW i \in 1..n - 1, t[i].type = "result"
                   PROVE  /\ t[i].features = [t[i].request.asked EXCEPT !.ver = t[i].features.ver]
                          /\ About(t, i, k2)
        BY <1>1 DEF AnswersAre
    <2>2. i + 1 \in DOMAIN q /\ t[i] = q[i + 1]
        BY <1>1
    <2>3. /\ q[i + 1].features = [q[i + 1].request.asked EXCEPT !.ver = q[i + 1].features.ver]
          /\ About(q, i + 1, k)
        BY <2>1, <2>2 DEF AnswersAre
    <2>4. PICK p \in 1..i : /\ q[p].type = "presence" /\ NoPresence(q, p + 1, i)
                            /\ q[p].caps.ver = q[i + 1].features.ver
        <3>1. ~NoPresence(q, 1, i)
            BY DEF NoPresence
        <3>2. i + 1 - 1 = i
            OBVIOUS
        <3> QED BY <2>3, <3>1, <3>2 DEF About
    <2>5. CASE p = 1
        <3>1. NoPresence(t, 1, i - 1)
            BY <1>1, <2>4, <2>5 DEF NoPresence
        <3> QED BY <2>2, <2>3, <2>4, <2>5, <3>1 DEF About
    <2>6. CASE p > 1
        <3>1. p - 1 \in 1..i - 1 /\ t[p - 1] = q[p]
            BY <1>1, <2>6
        <3>2. NoPresence(t, p - 1 + 1, i - 1)
            BY <1>1, <2>4, <2>6 DEF NoPresence
        <3> QED BY <2>2, <2>3, <2>4, <3>1, <3>2 DEF About
    <2> QED BY <2>5, <2>6
<1> QED BY <1>2, <1>3 DEF t

\* A first answer does not matter to those behind it.
LEMMA AnswerTaken ==
    ASSUME NEW q \in Seq(Stanzas), q # <<>>, q[1].type # "presence", NEW k, NEW c,
           LastIs(q, k, c), AnswersAre(q, k)
    PROVE  LastIs(Tail(q), k, c) /\ AnswersAre(Tail(q), k)
<1> DEFINE t == Tail(q)
           n == Len(q)
<1>1. /\ n \in Nat /\ n > 0 /\ Len(t) = n - 1 /\ DOMAIN q = 1..n /\ DOMAIN t = 1..n - 1
      /\ \A i \in 1..n - 1 : t[i] = q[i + 1]
    BY Behind
<1> HIDE DEF t, n
<1>2. LastIs(t, k, c)
    <2>1. CASE NoPresence(q, 1, n) /\ k \in {Nothing, c}
        BY <1>1, <2>1 DEF LastIs, NoPresence
    <2>2. ASSUME NEW p \in 1..n, q[p].type = "presence", q[p].caps = c, NoPresence(q, p + 1, n)
          PROVE  LastIs(t, k, c)
        <3>1. p > 1
            BY <2>2
        <3>2. p - 1 \in DOMAIN t /\ t[p - 1] = q[p]
            BY <1>1, <3>1
        <3>3. NoPresence(t, p - 1 + 1, Len(t))
            BY <1>1, <2>2, <3>1 DEF NoPresence
        <3> QED BY <2>2, <3>2, <3>3 DEF LastIs
    <2> QED BY <1>1, <2>1, <2>2 DEF LastIs, n
<1>3. AnswersAre(t, k)
    <2>1. SUFFICES ASSUME NEW i \in 1..n - 1, t[i].type = "result"
                   PROVE  /\ t[i].features = [t[i].request.asked EXCEPT !.ver = t[i].features.ver]
                          /\ About(t, i, k)
        BY <1>1 DEF AnswersAre
    <2>2. i + 1 \in DOMAIN q /\ t[i] = q[i + 1] /\ i + 1 - 1 = i
        BY <1>1
    <2>3. /\ q[i + 1].features = [q[i + 1].request.asked EXCEPT !.ver = q[i + 1].features.ver]
          /\ About(q, i + 1, k)
        BY <2>1, <2>2 DEF AnswersAre
    <2>4. CASE NoPresence(q, 1, i) /\ (k = Nothing \/ k.ver = q[i + 1].features.ver)
        <3>1. NoPresence(t, 1, i - 1)
            BY <1>1, <2>4 DEF NoPresence
        <3> QED BY <2>2, <2>3, <2>4, <3>1 DEF About
    <2>5. ASSUME NEW p \in 1..i, q[p].type = "presence", NoPresence(q, p + 1, i),
                 q[p].caps.ver = q[i + 1].features.ver
          PROVE  About(t, i, k)
        <3>1. p > 1
            BY <2>5
        <3>2. p - 1 \in 1..i - 1 /\ t[p - 1] = q[p]
            BY <1>1, <3>1
        <3>3. NoPresence(t, p - 1 + 1, i - 1)
            <4>1. SUFFICES ASSUME NEW m \in p..i - 1 PROVE t[m].type # "presence"
                BY <3>1 DEF NoPresence
            <4>2. m \in 1..n - 1 /\ m + 1 \in p + 1..i
                BY <1>1, <3>1
            <4>3. t[m] = q[m + 1]
                BY <1>1, <4>2
            <4> QED BY <2>5, <4>2, <4>3 DEF NoPresence
        <3> QED BY <2>2, <2>5, <3>2, <3>3 DEF About
    <2> QED BY <2>2, <2>3, <2>4, <2>5 DEF About
<1> QED BY <1>2, <1>3 DEF t

\* A new presence is the last, and is behind the answers.
LEMMA PresenceSent ==
    ASSUME NEW q \in Seq(Stanzas), NEW k, NEW c, NEW x \in Stanzas, x.type = "presence",
           AnswersAre(q, k)
    PROVE  LastIs(Append(q, x), k, x.caps) /\ AnswersAre(Append(q, x), k)
<1> DEFINE t == Append(q, x)
           n == Len(q)
<1>1. /\ n \in Nat /\ Len(t) = n + 1 /\ DOMAIN q = 1..n /\ DOMAIN t = 1..n + 1
      /\ \A i \in 1..n : t[i] = q[i]
      /\ t[n + 1] = x
    OBVIOUS
<1> HIDE DEF t, n
<1>2. LastIs(t, k, x.caps)
    BY <1>1 DEF LastIs, NoPresence
<1>3. AnswersAre(t, k)
    <2>1. SUFFICES ASSUME NEW i \in 1..n, t[i].type = "result"
                   PROVE  /\ t[i].features = [t[i].request.asked EXCEPT !.ver = t[i].features.ver]
                          /\ About(t, i, k)
        <3>1. t[n + 1].type # "result"
            BY <1>1
        <3> QED BY <1>1, <3>1 DEF AnswersAre
    <2>2. t[i] = q[i] /\ i \in DOMAIN q /\ \A m \in 1..i - 1 : t[m] = q[m]
        BY <1>1
    <2>3. About(q, i, k) => About(t, i, k)
        BY <2>2 DEF About, NoPresence
    <2> QED BY <2>1, <2>2, <2>3 DEF AnswersAre
<1> QED BY <1>2, <1>3 DEF t

\* An answer about what the contact announces is about its last presence.
LEMMA AnswerSent ==
    ASSUME NEW q \in Seq(Stanzas), NEW k, NEW c, NEW x \in Stanzas, x.type = "result",
           x.features = [x.request.asked EXCEPT !.ver = x.features.ver],
           x.features.ver = c.ver, LastIs(q, k, c), AnswersAre(q, k)
    PROVE  LastIs(Append(q, x), k, c) /\ AnswersAre(Append(q, x), k)
<1> DEFINE t == Append(q, x)
           n == Len(q)
<1>1. /\ n \in Nat /\ Len(t) = n + 1 /\ DOMAIN q = 1..n /\ DOMAIN t = 1..n + 1
      /\ \A i \in 1..n : t[i] = q[i]
      /\ t[n + 1] = x
    OBVIOUS
<1>2. LastIs(q, k, c) <=>
        \/ NoPresence(q, 1, n) /\ k \in {Nothing, c}
        \/ \E p \in 1..n : q[p].type = "presence" /\ q[p].caps = c /\ NoPresence(q, p + 1, n)
    BY <1>1 DEF LastIs
<1> HIDE DEF t, n
<1>3. \A p \in 1..n + 1 : NoPresence(q, p, n) => NoPresence(t, p, n) /\ NoPresence(t, p, n + 1)
    BY <1>1 DEF NoPresence
<1>4. LastIs(t, k, c)
    <2>1. CASE NoPresence(q, 1, n) /\ k \in {Nothing, c}
        BY <1>1, <1>3, <2>1 DEF LastIs
    <2>2. ASSUME NEW p \in 1..n, q[p].type = "presence", q[p].caps = c, NoPresence(q, p + 1, n)
          PROVE  LastIs(t, k, c)
        <3>1. NoPresence(t, p + 1, n + 1) /\ p \in DOMAIN t /\ t[p] = q[p]
            BY <1>1, <1>3, <2>2
        <3> QED BY <1>1, <2>2, <3>1 DEF LastIs
    <2> QED BY <1>2, <2>1, <2>2
<1>5. AnswersAre(t, k)
    <2>1. SUFFICES ASSUME NEW i \in 1..n + 1, t[i].type = "result"
                   PROVE  /\ t[i].features = [t[i].request.asked EXCEPT !.ver = t[i].features.ver]
                          /\ About(t, i, k)
        BY <1>1 DEF AnswersAre
    <2>2. CASE i \in 1..n
        <3>1. t[i] = q[i] /\ i \in DOMAIN q /\ \A m \in 1..i - 1 : t[m] = q[m]
            BY <1>1, <2>2
        <3>2. About(q, i, k) => About(t, i, k)
            BY <3>1 DEF About, NoPresence
        <3> QED BY <2>1, <3>1, <3>2 DEF AnswersAre
    <2>3. CASE i = n + 1
        <3>1. t[i] = x /\ i - 1 = n
            BY <1>1, <2>3
        <3>2. CASE NoPresence(q, 1, n) /\ k \in {Nothing, c}
            <4>1. NoPresence(t, 1, n)
                BY <1>1, <1>3, <3>2
            <4> QED BY <3>1, <3>2, <4>1 DEF About
        <3>3. ASSUME NEW p \in 1..n, q[p].type = "presence", q[p].caps = c,
                     NoPresence(q, p + 1, n)
              PROVE  About(t, i, k)
            <4>1. NoPresence(t, p + 1, n) /\ t[p] = q[p]
                BY <1>1, <1>3, <3>3
            <4> QED BY <3>1, <3>3, <4>1 DEF About
        <3> QED BY <1>2, <3>1, <3>2, <3>3
    <2> QED BY <1>1, <2>2, <2>3
<1> QED BY <1>4, <1>5 DEF t

\* What an update makes known of a contact.
LEMMA KnownUpdated ==
    ASSUME TypeOK, NEW j \in Jids, NEW c \in Clients, UpdateCaps(j, c), NEW k \in Jids
    PROVE  /\ k # j => capsSpecs'[k] = capsSpecs[k]
           /\ capsSpecs'[j] \in {Nothing, c}
BY DEF UpdateCaps, SameCaps, NewCaps, NoCaps, TypeOK

\* An answer taken for the version it is about, or for no version.
LEMMA AnswerIsRight ==
    ASSUME TypeOK, InOrder, ~hist.room, RightUnlessRoom, NEW j \in Jids, ReceiveResult(j)
    PROVE  RightUnlessRoom'
<1> DEFINE x == Head(from[j])
           asked == x.request.asked
           k == capsSpecs[j]
<1>1. /\ from[j] \in Seq(Stanzas) /\ from[j] # <<>> /\ x \in Stanzas /\ x.type = "result"
      /\ asked \in Specs /\ x.features \in Specs
    <2>1. from[j] \in Seq(Stanzas) /\ from[j] # <<>> /\ x.type = "result"
        BY DEF ReceiveResult, TypeOK
    <2>2. x \in Stanzas
        BY <2>1
    <2> QED BY <2>1, <2>2 DEF Stanzas, Requests
<1>2. /\ x.features = [asked EXCEPT !.ver = x.features.ver]
      /\ k = Nothing \/ k.ver = x.features.ver
    <2>1. 1 \in DOMAIN from[j] /\ from[j][1] = x
        BY <1>1, Behind
    <2>2. About(from[j], 1, k) /\ x.features = [asked EXCEPT !.ver = x.features.ver]
        BY <1>1, <2>1 DEF InOrder, AnswersAre
    <2> QED BY <2>1, <2>2 DEF About
<1>3. SpecForNode(j, asked) \in {Nothing, x.features}
    BY <1>2 DEF SpecForNode
<1>4. CASE SpecForNode(j, asked) = Nothing
    BY <1>4 DEF ReceiveResult, RightUnlessRoom
<1>5. CASE SpecForNode(j, asked) = x.features /\ x.features # Nothing
    <2>1. Register(x.features, x.features, j)
        BY <1>5 DEF ReceiveResult
    <2> QED BY <1>1, <2>1 DEF Register, RightUnlessRoom, TypeOK
<1> QED BY <1>1, <1>3, <1>4, <1>5, NothingAssumption

\* What a room announced is never forgotten.
LEMMA RoomStays ==
    ASSUME TypeOK, [Next]_vars, ~hist'.room PROVE ~hist.room
<1>1. hist \in Hists
    BY DEF TypeOK
<1>2. ASSUME NEW j \in Jids, NEW c, UpdateCaps(j, c) PROVE ~hist.room
    BY <1>1, <1>2 DEF UpdateCaps, SameCaps, NewCaps, NoCaps, Hists
<1>3. ASSUME NEW j \in Jids, ReceivePresence(j) \/ ReceiveRoomPresence(j) PROVE ~hist.room
    BY <1>2, <1>3 DEF ReceivePresence, ReceiveRoomPresence
<1>4. ASSUME NEW j \in Jids, ReceiveResult(j) PROVE ~hist.room
    <2>1. \E f : hist' = [hist EXCEPT !.failed = f]
        BY <1>4 DEF ReceiveResult
    <2> QED BY <1>1, <2>1 DEF Hists
<1>5. ASSUME NEW j \in Jids, NEW c \in Clients, Announce(j, c) PROVE ~hist.room
    BY <1>1, <1>5 DEF Announce, Hists
<1>6. ASSUME NEW r \in requests, Answer(r) \/ ReceiveError(r) PROVE ~hist.room
    BY <1>1, <1>6 DEF Answer, ReceiveError, Hists
<1>7. ASSUME NEW s \in Specs, RegisteredElsewhere(s) PROVE ~hist.room
    BY <1>1, <1>7 DEF RegisteredElsewhere, Hists
<1>8. CASE Reconnect \/ Restart \/ SetEnabled
    BY <1>1, <1>8 DEF Reconnect, Restart, SetEnabled, Hists
<1>9. CASE UNCHANGED vars
    BY <1>9 DEF vars
<1> QED BY <1>3, <1>4, <1>5, <1>6, <1>7, <1>8, <1>9 DEF Next

\* The order of the stanzas, and the registry, in every step.
LEMMA RightStep ==
    ASSUME TypeOK, InOrder, RightUnlessRoom, [Next]_vars PROVE InOrder' /\ RightUnlessRoom'
<1>1. CASE hist'.room
    BY <1>1 DEF InOrder, RightUnlessRoom
<1> SUFFICES ASSUME ~hist'.room PROVE InOrder' /\ RightUnlessRoom'
    BY <1>1
<1>2. ~hist.room
    BY RoomStays
<1>3. \A j \in Jids : /\ room[j] = <<>> /\ from[j] \in Seq(Stanzas)
                      /\ LastIs(from[j], capsSpecs[j], client[j])
                      /\ AnswersAre(from[j], capsSpecs[j])
    BY <1>2 DEF InOrder, TypeOK
<1>4. ASSUME NEW j \in Jids, UNCHANGED <<client, room>>,
             \A i \in Jids \ {j} : from'[i] = from[i] /\ capsSpecs'[i] = capsSpecs[i],
             LastIs(from'[j], capsSpecs'[j], client[j]), AnswersAre(from'[j], capsSpecs'[j])
      PROVE  InOrder'
    <2>1. SUFFICES ASSUME NEW i \in Jids
                   PROVE  /\ room'[i] = <<>>
                          /\ LastIs(from'[i], capsSpecs'[i], client'[i])
                          /\ AnswersAre(from'[i], capsSpecs'[i])
        BY DEF InOrder, LastIs, AnswersAre, About, NoPresence
    <2>2. CASE i = j
        BY <1>3, <1>4, <2>2
    <2>3. CASE i # j
        BY <1>3, <1>4, <2>3
    <2> QED BY <2>2, <2>3
<1>5. ASSUME UNCHANGED <<capsSpecs, from, client, room>> PROVE InOrder'
    BY <1>2, <1>5, SMTT(30) DEF InOrder, LastIs, AnswersAre, About, NoPresence
<1>6. ASSUME UNCHANGED registry PROVE RightUnlessRoom'
    BY <1>2, <1>6 DEF RightUnlessRoom
<1>7. ASSUME NEW j \in Jids, ReceivePresence(j) PROVE InOrder' /\ RightUnlessRoom'
    <2>1. /\ from[j] # <<>> /\ Head(from[j]) = from[j][1] /\ from[j][1].type = "presence"
          /\ from[j][1] \in Stanzas
        BY <1>3, <1>7, Behind DEF ReceivePresence
    <2>2. UpdateCaps(j, from[j][1].caps) /\ from[j][1].caps \in Clients
        BY <1>7, <2>1 DEF ReceivePresence, Stanzas
    <2>3. /\ capsSpecs'[j] \in {Nothing, from[j][1].caps}
          /\ \A i \in Jids \ {j} : capsSpecs'[i] = capsSpecs[i]
        BY <2>2, KnownUpdated
    <2>4. /\ LastIs(Tail(from[j]), capsSpecs'[j], client[j])
          /\ AnswersAre(Tail(from[j]), capsSpecs'[j])
        BY <1>3, <2>1, <2>3, PresenceTaken
    <2>5. from'[j] = Tail(from[j]) /\ \A i \in Jids \ {j} : from'[i] = from[i]
        BY <1>7 DEF ReceivePresence, TypeOK
    <2>6. UNCHANGED <<client, room, registry>>
        BY <1>7 DEF ReceivePresence, UpdateCaps
    <2> QED BY <1>4, <1>6, <2>3, <2>4, <2>5, <2>6
<1>8. ASSUME NEW j \in Jids, ReceiveRoomPresence(j) PROVE FALSE
    BY <1>3, <1>8 DEF ReceiveRoomPresence
<1>9. ASSUME NEW j \in Jids, ReceiveResult(j) PROVE InOrder' /\ RightUnlessRoom'
    <2>1. from[j] # <<>> /\ Head(from[j]) = from[j][1] /\ from[j][1].type # "presence"
        BY <1>3, <1>9, Behind DEF ReceiveResult
    <2>2. LastIs(Tail(from[j]), capsSpecs[j], client[j]) /\ AnswersAre(Tail(from[j]), capsSpecs[j])
        BY <1>3, <2>1, AnswerTaken
    <2>3. from'[j] = Tail(from[j]) /\ \A i \in Jids \ {j} : from'[i] = from[i]
        BY <1>9 DEF ReceiveResult, TypeOK
    <2>4. UNCHANGED <<client, room, capsSpecs>>
        BY <1>9 DEF ReceiveResult
    <2>5. InOrder'
        BY <1>4, <2>2, <2>3, <2>4
    <2> QED BY <1>2, <1>9, <2>5, AnswerIsRight
<1>10. ASSUME NEW j \in Jids, NEW c \in Clients, Announce(j, c) PROVE InOrder' /\ RightUnlessRoom'
    <2>1. /\ from' = [from EXCEPT ![j] = Append(@, Presence(c))] /\ client' = [client EXCEPT ![j] = c]
          /\ UNCHANGED <<room, capsSpecs, registry>>
        BY <1>10 DEF Announce, TypeOK, Hists
    <2>2. Presence(c) \in Stanzas /\ Presence(c).type = "presence" /\ Presence(c).caps = c
        BY DEF Presence, Stanzas
    <2>3. /\ LastIs(Append(from[j], Presence(c)), capsSpecs[j], c)
          /\ AnswersAre(Append(from[j], Presence(c)), capsSpecs[j])
        <3> HIDE DEF Presence
        <3>1. from[j] \in Seq(Stanzas) /\ AnswersAre(from[j], capsSpecs[j])
            BY <1>3
        <3> QED BY <2>2, <3>1, PresenceSent
    <2>4. /\ from'[j] = Append(from[j], Presence(c)) /\ client'[j] = c
          /\ \A i \in Jids \ {j} : from'[i] = from[i] /\ client'[i] = client[i]
        BY <2>1 DEF TypeOK
    <2>5. SUFFICES ASSUME NEW i \in Jids
                   PROVE  /\ room'[i] = <<>>
                          /\ LastIs(from'[i], capsSpecs'[i], client'[i])
                          /\ AnswersAre(from'[i], capsSpecs'[i])
        BY <1>6, <2>1 DEF InOrder, LastIs, AnswersAre, About, NoPresence
    <2>6. CASE i = j
        BY <1>3, <2>1, <2>3, <2>4, <2>6
    <2>7. CASE i # j
        BY <1>3, <2>1, <2>4, <2>7
    <2> QED BY <2>6, <2>7
<1>11. ASSUME NEW s \in Specs, RegisteredElsewhere(s) PROVE InOrder' /\ RightUnlessRoom'
    <2>1. UNCHANGED <<capsSpecs, from, client, room>>
        BY <1>11 DEF RegisteredElsewhere
    <2>2. RightUnlessRoom'
        BY <1>2, <1>11 DEF RegisteredElsewhere, Register, RightUnlessRoom, TypeOK
    <2> QED BY <1>5, <2>1, <2>2
<1>12. ASSUME NEW r \in requests, Answer(r) PROVE InOrder' /\ RightUnlessRoom'
    <2> DEFINE j == r.jid
               c == client[j]
               x == Result(r, [r.asked EXCEPT !.ver = c.ver])
    <2>1. j \in Jids /\ r \in Requests /\ r.asked \in Specs
        BY DEF TypeOK, Requests
    <2>2. c \in Clients /\ Legal(c)
        BY <1>12, <2>1 DEF Answer, Knows, TypeOK
    <2>3. [r.asked EXCEPT !.ver = c.ver] \in Specs
        BY <2>1, <2>2, FlattenSpecs DEF Specs
    <2>4. x \in Stanzas /\ x.type = "result" /\ x.request = r
        BY <2>1, <2>3 DEF Result, Stanzas
    <2>5. x.features = [r.asked EXCEPT !.ver = c.ver] /\ x.features.ver = c.ver
        BY <2>1 DEF Result, Specs
    <2>6. /\ from'[j] = Append(from[j], x) /\ \A i \in Jids \ {j} : from'[i] = from[i]
          /\ UNCHANGED <<client, room, capsSpecs, registry>>
        BY <1>12, <2>1 DEF Answer, TypeOK
    <2> HIDE DEF x
    <2>7. LastIs(Append(from[j], x), capsSpecs[j], c) /\ AnswersAre(Append(from[j], x), capsSpecs[j])
        <3>1. x.features = [x.request.asked EXCEPT !.ver = x.features.ver]
            BY <2>4, <2>5
        <3>2. /\ from[j] \in Seq(Stanzas) /\ LastIs(from[j], capsSpecs[j], c)
              /\ AnswersAre(from[j], capsSpecs[j])
            BY <1>3, <2>1
        <3> QED BY <2>4, <2>5, <3>1, <3>2, AnswerSent
    <2> QED BY <1>4, <1>6, <2>1, <2>6, <2>7
<1>13. ASSUME Break, \A j \in Jids : capsSpecs'[j] \in {Nothing, capsSpecs[j]},
              UNCHANGED <<client, registry>>
       PROVE  InOrder' /\ RightUnlessRoom'
    <2>1. SUFFICES ASSUME NEW i \in Jids
                   PROVE  /\ room'[i] = <<>>
                          /\ LastIs(from'[i], capsSpecs'[i], client[i])
                          /\ AnswersAre(from'[i], capsSpecs'[i])
        BY <1>6, <1>13 DEF InOrder, LastIs, AnswersAre, About, NoPresence
    <2>2. room'[i] = <<>>
        BY <1>13 DEF Break
    <2>3. CASE client[i] # Nothing
        <3>1. from'[i] = <<Presence(client[i])>>
            BY <1>13, <2>3 DEF Break
        <3> QED BY <2>2, <3>1 DEF LastIs, AnswersAre, NoPresence, Presence
    <2>4. CASE client[i] = Nothing
        <3>1. from'[i] = <<>>
            BY <1>13, <2>4 DEF Break
        <3>2. \A p \in DOMAIN from[i] : from[i][p].type = "presence" => from[i][p].caps # Nothing
            <4>1. \A p \in DOMAIN from[i] : from[i][p] \in Stanzas
                BY <1>3
            <4> QED BY <4>1, ClientAssumption, NothingAssumption DEF Stanzas
        <3>3. capsSpecs[i] = Nothing
            BY <1>3, <2>4, <3>2 DEF LastIs
        <3> QED BY <1>13, <2>2, <2>4, <3>1, <3>3 DEF LastIs, AnswersAre, NoPresence
    <2> QED BY <2>3, <2>4
<1>14. CASE Reconnect
    BY <1>13, <1>14 DEF Reconnect
<1>15. CASE Restart
    BY <1>13, <1>15 DEF Restart
<1>16. ASSUME NEW r \in requests, ReceiveError(r) PROVE InOrder' /\ RightUnlessRoom'
    BY <1>5, <1>6, <1>16 DEF ReceiveError
<1>17. CASE SetEnabled \/ UNCHANGED vars
    BY <1>5, <1>6, <1>17 DEF SetEnabled, vars
<1> QED BY <1>7, <1>8, <1>9, <1>10, <1>11, <1>12, <1>14, <1>15, <1>16, <1>17 DEF Next

\* The slots capsRegistered tell every contact in the list of what is registered,
\* and updateCaps the one it is for (capsmanager.cpp:118, :213): the windows show
\* what features() returns.
THEOREM Shown == Spec => []ShownIsCurrent
<1>1. Init => ShownIsCurrent
    BY DEF Init, ShownIsCurrent
<1>2. TypeOK /\ ListedIsAnnounced /\ ShownIsCurrent /\ [Next]_vars => ShownIsCurrent'
    BY ShownStep
<1> QED BY <1>1, <1>2, TypeCorrect, Listed, PTL DEF Spec

\* getDiscoInfo_success takes the version from the contact and not from the
\* request (getCapsSpecForNode); while no presence comes through a room, what it
\* registers is right, whatever upgrades, answers and disconnects cross.
THEOREM Right == Spec => []RightUnlessRoom
<1>1. Init => InOrder /\ RightUnlessRoom
    BY DEF Init, InOrder, RightUnlessRoom, LastIs, AnswersAre, NoPresence
<1>2. TypeOK /\ InOrder /\ RightUnlessRoom /\ [Next]_vars => InOrder' /\ RightUnlessRoom'
    BY RightStep
<1> QED BY <1>1, <1>2, TypeCorrect, PTL DEF Spec

=============================================================================
