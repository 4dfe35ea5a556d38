------------------------ MODULE PrivacyLists_proofs ------------------------
(***************************************************************************)
(* Proofs for PrivacyLists, for any contacts and any number of changes:    *)
(* the state stays well-formed, the copy of the list catches up with the   *)
(* server, and what the user wants is what the server ends up denying.     *)
(*                                                                         *)
(* The last two hold when nothing is on its way.  Before that, the last    *)
(* stanza of a kind on its way decides: the last list being set for the    *)
(* server, the last list being answered for the copy.  Settles says so of  *)
(* a queue, and is what the steps preserve.                                *)
(*                                                                         *)
(* That a blocked contact sees nothing of us, and that an allowed one is   *)
(* shown and sees us again, is argued for one contact at a time: Hides and *)
(* Regains say what the stanzas on their way still do for it, Phases where *)
(* the session is.  Each is a fact of constants (lists, queues, sets), so  *)
(* that an action becomes a lemma about the values it gives them.          *)
(***************************************************************************)
EXTENDS PrivacyLists, TLAPS

Holds(q, t) == \E i \in DOMAIN q : q[i].type = t
LastOf(q, t) == {i \in DOMAIN q : q[i].type = t /\ \A k \in DOMAIN q : q[k].type = t => k <= i}
\* When q is taken, what was d is w: the last list of type t in q is w.
Settles(q, t, d, w) ==
    /\ \A i \in LastOf(q, t) : q[i].deny = w
    /\ ~Holds(q, t) => d = w

\* A queue is empty, or has a head and the rest behind it.
LEMMA HeadAndTail ==
    ASSUME NEW S, NEW q \in Seq(S), q # <<>>
    PROVE  /\ Tail(q) \in Seq(S) /\ Head(q) \in S /\ Head(q) = q[1] /\ 1 \in DOMAIN q
           /\ \A i \in DOMAIN Tail(q) : i + 1 \in DOMAIN q /\ Tail(q)[i] = q[i + 1]
           /\ \A i \in DOMAIN q : i = 1 \/ (i - 1 \in DOMAIN Tail(q) /\ Tail(q)[i - 1] = q[i])
<1>1. Len(q) \in Nat /\ Len(q) > 0 /\ DOMAIN q = 1..Len(q)
    OBVIOUS
<1>2. DOMAIN Tail(q) = 1..(Len(q) - 1) /\ Tail(q) \in Seq(S) /\ Head(q) \in S /\ Head(q) = q[1]
    OBVIOUS
<1>3. \A i \in DOMAIN Tail(q) : i + 1 \in DOMAIN q /\ Tail(q)[i] = q[i + 1]
    BY <1>1, <1>2
<1>4. \A i \in DOMAIN q : i = 1 \/ (i - 1 \in DOMAIN Tail(q) /\ (i - 1) + 1 = i)
    BY <1>1, <1>2
<1> QED BY <1>1, <1>2, <1>3, <1>4

\* The indices of a concatenation.
LEMMA Concatenated ==
    ASSUME NEW S, NEW q \in Seq(S), NEW r \in Seq(S)
    PROVE  /\ q \o r \in Seq(S)
           /\ Len(q) \in Nat /\ DOMAIN q = 1..Len(q) /\ DOMAIN r = 1..Len(r) /\ Len(r) \in Nat
           /\ DOMAIN (q \o r) = 1..(Len(q) + Len(r))
           /\ \A i \in DOMAIN q : (q \o r)[i] = q[i]
           /\ \A i \in DOMAIN r : (q \o r)[i + Len(q)] = r[i]
OBVIOUS

\* A kind that is behind the head, or at it.
LEMMA HoldsTail ==
    ASSUME NEW S, NEW q \in Seq(S), q # <<>>, NEW t
    PROVE  Holds(q, t) <=> Head(q).type = t \/ Holds(Tail(q), t)
BY HeadAndTail DEF Holds

\* A kind in either part of a concatenation.
LEMMA HoldsConcat ==
    ASSUME NEW S, NEW q \in Seq(S), NEW r \in Seq(S), NEW t
    PROVE  Holds(q \o r, t) <=> Holds(q, t) \/ Holds(r, t)
<1>1. ASSUME NEW i \in DOMAIN q, q[i].type = t PROVE Holds(q \o r, t)
    BY <1>1, Concatenated DEF Holds
<1>2. ASSUME NEW i \in DOMAIN r, r[i].type = t PROVE Holds(q \o r, t)
    <2>1. i + Len(q) \in DOMAIN (q \o r) /\ (q \o r)[i + Len(q)] = r[i]
        BY Concatenated
    <2> QED BY <1>2, <2>1 DEF Holds
<1>3. ASSUME NEW i \in DOMAIN (q \o r), (q \o r)[i].type = t PROVE Holds(q, t) \/ Holds(r, t)
    <2>1. CASE i \in DOMAIN q
        BY <1>3, <2>1, Concatenated DEF Holds
    <2>2. CASE i \notin DOMAIN q
        <3>1. i - Len(q) \in DOMAIN r /\ (i - Len(q)) + Len(q) = i
            BY <2>2, Concatenated
        <3>2. r[i - Len(q)].type = t
            BY <1>3, <3>1, Concatenated
        <3> QED BY <3>1, <3>2 DEF Holds
    <2> QED BY <2>1, <2>2
<1> QED BY <1>1, <1>2, <1>3 DEF Holds

\* The head is taken.
LEMMA SettlesTail ==
    ASSUME NEW S, NEW q \in Seq(S), q # <<>>, NEW t, NEW d, NEW w, Settles(q, t, d, w)
    PROVE  /\ Head(q).type # t => Settles(Tail(q), t, d, w)
           /\ Head(q).type = t => Settles(Tail(q), t, Head(q).deny, w)
<1>1. ASSUME NEW i \in LastOf(Tail(q), t) PROVE Tail(q)[i].deny = w
    <2>1. i \in DOMAIN Tail(q) /\ i + 1 \in DOMAIN q /\ Tail(q)[i] = q[i + 1]
        BY HeadAndTail DEF LastOf
    <2>2. ASSUME NEW k \in DOMAIN q, q[k].type = t PROVE k <= i + 1
        <3>1. i \in Nat /\ k \in Nat /\ i + 1 >= 1
            BY <2>1
        <3>2. CASE k = 1
            BY <3>1, <3>2
        <3>3. CASE k # 1
            <4>1. k - 1 \in DOMAIN Tail(q) /\ Tail(q)[k - 1].type = t
                BY <2>2, <3>3, HeadAndTail
            <4>2. k - 1 <= i
                BY <4>1 DEF LastOf
            <4> QED BY <3>1, <4>2
        <3> QED BY <3>2, <3>3
    <2>3. i + 1 \in LastOf(q, t)
        BY <2>1, <2>2 DEF LastOf
    <2> QED BY <2>1, <2>3 DEF Settles
<1>2. ASSUME ~Holds(Tail(q), t), Head(q).type # t PROVE d = w
    BY <1>2, HoldsTail DEF Settles
<1>3. ASSUME ~Holds(Tail(q), t), Head(q).type = t PROVE Head(q).deny = w
    <2>1. ASSUME NEW k \in DOMAIN q, q[k].type = t PROVE k = 1
        <3>1. SUFFICES ASSUME k # 1 PROVE FALSE
            OBVIOUS
        <3>2. k - 1 \in DOMAIN Tail(q) /\ Tail(q)[k - 1].type = t
            BY <2>1, <3>1, HeadAndTail
        <3> QED BY <1>3, <3>2 DEF Holds
    <2>2. 1 \in LastOf(q, t)
        BY <1>3, <2>1, HeadAndTail DEF LastOf
    <2> QED BY <2>2, HeadAndTail DEF Settles
<1> QED BY <1>1, <1>2, <1>3 DEF Settles

\* What is sent behind, and is of other kinds, changes nothing.
LEMMA SettlesConcat ==
    ASSUME NEW S, NEW q \in Seq(S), NEW r \in Seq(S), NEW t, NEW d, NEW w,
           Settles(q, t, d, w), ~Holds(r, t)
    PROVE  Settles(q \o r, t, d, w)
<1>1. ASSUME NEW i \in LastOf(q \o r, t) PROVE (q \o r)[i].deny = w
    <2>1. i \in DOMAIN (q \o r) /\ (q \o r)[i].type = t
        BY DEF LastOf
    <2>2. i \in DOMAIN q
        <3>1. SUFFICES ASSUME i \notin DOMAIN q PROVE FALSE
            OBVIOUS
        <3>2. i - Len(q) \in DOMAIN r /\ (i - Len(q)) + Len(q) = i
            BY <2>1, <3>1, Concatenated
        <3>3. r[i - Len(q)].type = t
            BY <2>1, <3>2, Concatenated
        <3> QED BY <3>2, <3>3 DEF Holds
    <2>3. ASSUME NEW k \in DOMAIN q, q[k].type = t PROVE k <= i
        <3>1. k \in DOMAIN (q \o r) /\ (q \o r)[k].type = t
            BY <2>3, Concatenated
        <3> QED BY <3>1 DEF LastOf
    <2>4. i \in LastOf(q, t)
        BY <2>1, <2>2, <2>3, Concatenated DEF LastOf
    <2> QED BY <2>2, <2>4, Concatenated DEF Settles
<1>2. ~Holds(q \o r, t) => d = w
    BY HoldsConcat DEF Settles
<1> QED BY <1>1, <1>2 DEF Settles

\* What is sent behind, and is of this kind, decides.
LEMMA SettlesLast ==
    ASSUME NEW S, NEW q \in Seq(S), NEW r \in Seq(S), NEW t, NEW d, NEW w,
           Holds(r, t), \A i \in DOMAIN r : r[i].type = t => r[i].deny = w
    PROVE  Settles(q \o r, t, d, w)
<1>1. ASSUME NEW i \in LastOf(q \o r, t) PROVE (q \o r)[i].deny = w
    <2>1. i \in DOMAIN (q \o r) /\ (q \o r)[i].type = t
        BY DEF LastOf
    <2>2. PICK k \in DOMAIN r : r[k].type = t
        BY DEF Holds
    <2>3. k + Len(q) \in DOMAIN (q \o r) /\ (q \o r)[k + Len(q)].type = t /\ k >= 1
        BY <2>2, Concatenated
    <2>4. k + Len(q) <= i
        BY <2>3 DEF LastOf
    <2>5. i - Len(q) \in DOMAIN r /\ (i - Len(q)) + Len(q) = i
        BY <2>1, <2>3, <2>4, Concatenated
    <2> QED BY <2>1, <2>5, Concatenated
<1>2. Holds(q \o r, t)
    BY HoldsConcat
<1> QED BY <1>1, <1>2 DEF Settles

\* One stanza is sent.
LEMMA AppendIs ==
    ASSUME NEW S, NEW q \in Seq(S), NEW x \in S
    PROVE  /\ Append(q, x) = q \o <<x>> /\ <<x>> \in Seq(S)
           /\ DOMAIN <<x>> = {1} /\ <<x>>[1] = x
OBVIOUS
LEMMA HoldsAppend ==
    ASSUME NEW S, NEW q \in Seq(S), NEW x \in S, NEW t
    PROVE  Holds(Append(q, x), t) <=> Holds(q, t) \/ x.type = t
<1>1. Holds(<<x>>, t) <=> x.type = t
    BY AppendIs DEF Holds
<1>2. Append(q, x) = q \o <<x>> /\ <<x>> \in Seq(S)
    BY AppendIs
<1>3. Holds(q \o <<x>>, t) <=> Holds(q, t) \/ Holds(<<x>>, t)
    BY <1>2, HoldsConcat
<1> QED BY <1>1, <1>2, <1>3, Zenon
LEMMA SettlesAppend ==
    ASSUME NEW S, NEW q \in Seq(S), NEW x \in S, NEW t, NEW d, NEW w
    PROVE  /\ Settles(q, t, d, w) /\ x.type # t => Settles(Append(q, x), t, d, w)
           /\ x.type = t /\ x.deny = w => Settles(Append(q, x), t, d, w)
<1>1. Holds(<<x>>, t) <=> x.type = t
    BY AppendIs DEF Holds
<1>2. \A i \in DOMAIN <<x>> : <<x>>[i] = x
    BY AppendIs
<1>3. Append(q, x) = q \o <<x>> /\ <<x>> \in Seq(S)
    BY AppendIs
<1>4. Settles(q, t, d, w) /\ x.type # t => Settles(q \o <<x>>, t, d, w)
    BY <1>1, <1>3, SettlesConcat
<1>5. x.type = t /\ x.deny = w => Settles(q \o <<x>>, t, d, w)
    BY <1>1, <1>2, <1>3, SettlesLast
<1> QED BY <1>3, <1>4, <1>5, Zenon

\* An empty queue decides nothing.
LEMMA SettlesEmpty ==
    ASSUME NEW t, NEW d, NEW w
    PROVE  Settles(<<>>, t, d, w) <=> d = w
BY DEF Settles, LastOf, Holds

----------------------------------------------------------------------------
(* The stanzas.                                                            *)

\* What is asked of the server.
LEMMA RequestsAre ==
    /\ \A t \in {"presence", "names", "get", "active", "default"} :
           Stanza(t) \in Requests /\ Stanza(t).type = t
    /\ \A d \in SUBSET Contacts :
           SetList(d) \in Requests /\ SetList(d).type = "set" /\ SetList(d).deny = d
    /\ \A t \in {"unavailable", "return"}, s \in SUBSET Contacts :
           Presence(t, s) \in Requests /\ Presence(t, s).type = t /\ Presence(t, s).who = s
<1>1. \A t \in {"presence", "names", "get", "active", "default"} :
          Stanza(t) \in Requests /\ Stanza(t).type = t
    BY DEF Requests, Stanza
<1>2. \A d \in SUBSET Contacts :
          SetList(d) \in Requests /\ SetList(d).type = "set" /\ SetList(d).deny = d
    BY DEF Requests, SetList
<1>3. ASSUME NEW t \in {"unavailable", "return"}, NEW s \in SUBSET Contacts
      PROVE  Presence(t, s) \in Requests /\ Presence(t, s).type = t /\ Presence(t, s).who = s
    BY DEF Requests, Presence
<1> QED BY <1>1, <1>2, <1>3
LEMMA RequestsHold ==
    ASSUME NEW r \in Requests
    PROVE  /\ r.type = "set" => r.deny \in SUBSET Contacts
           /\ r.type \in {"unavailable", "return"} => r.who \in SUBSET Contacts
BY DEF Requests, Stanza, SetList, Presence

\* What it answers.
LEMMA AnswersAre ==
    /\ \A t \in {"push", "error", "names_error"} :
           Stanza(t) \in Answers /\ Stanza(t).type = t
    /\ \A d \in SUBSET Contacts :
           ListIs(d) \in Answers /\ ListIs(d).type = "list" /\ ListIs(d).deny = d
    /\ \A s \in SUBSET Authorized :
           Presence("presence", s) \in Answers /\ Presence("presence", s).type = "presence"
    /\ \A m \in BOOLEAN, d \in {"none", "blocked", "other"} :
           Names(m, d) \in Answers /\ Names(m, d).type = "names"
<1>1. \A t \in {"push", "error", "names_error"} : Stanza(t) \in Answers /\ Stanza(t).type = t
    BY DEF Answers, Stanza
<1>2. \A d \in SUBSET Contacts :
          ListIs(d) \in Answers /\ ListIs(d).type = "list" /\ ListIs(d).deny = d
    BY DEF Answers, ListIs
<1>3. ASSUME NEW s \in SUBSET Authorized
      PROVE  Presence("presence", s) \in Answers /\ Presence("presence", s).type = "presence"
    BY DEF Answers, Presence
<1>4. ASSUME NEW m \in BOOLEAN, NEW d \in {"none", "blocked", "other"}
      PROVE  Names(m, d) \in Answers /\ Names(m, d).type = "names"
    BY DEF Answers, Names
<1> QED BY <1>1, <1>2, <1>3, <1>4
LEMMA AnswersHold ==
    ASSUME NEW a \in Answers
    PROVE  /\ a.type = "list" => a.deny \in SUBSET Contacts
           /\ a.type = "presence" => a.who \in SUBSET Authorized
           /\ a.type = "names" => a.made \in BOOLEAN /\ a.dflt \in {"none", "blocked", "other"}
BY DEF Answers, Stanza, ListIs, Presence, Names

\* What listsReceived sends: a list to take or to make, and no other list.
LEMMA RequestsForAre ==
    ASSUME NEW made \in BOOLEAN, NEW dflt
    PROVE  /\ RequestsFor(made, dflt) \in Seq(Requests)
           /\ Holds(RequestsFor(made, dflt), "get") <=> made
           /\ Holds(RequestsFor(made, dflt), "set") <=> ~made
           /\ \A i \in DOMAIN RequestsFor(made, dflt) :
                  RequestsFor(made, dflt)[i].type = "set" => RequestsFor(made, dflt)[i].deny = {}
<1> DEFINE first == IF made THEN Stanza("get") ELSE SetList({})
           then == IF dflt = "none" THEN <<Stanza("default")>> ELSE <<>>
           last == <<Stanza("active")>>
<1>1. first \in Requests /\ first.type = (IF made THEN "get" ELSE "set")
      /\ (first.type = "set" => first.deny = {})
    BY RequestsAre
<1>2. then \in Seq(Requests) /\ \A i \in DOMAIN then : then[i].type = "default"
    BY RequestsAre
<1>3. last \in Seq(Requests) /\ \A i \in DOMAIN last : last[i].type = "active"
    BY RequestsAre
<1>4. <<first>> \in Seq(Requests) /\ DOMAIN <<first>> = {1} /\ <<first>>[1] = first
    BY <1>1
<1>5. RequestsFor(made, dflt) = (<<first>> \o then) \o last
    BY <1>2, <1>3, <1>4 DEF RequestsFor
<1> HIDE DEF first, then, last
<1>6. (<<first>> \o then) \in Seq(Requests) /\ (<<first>> \o then) \o last \in Seq(Requests)
    BY <1>2, <1>3, <1>4, Concatenated
<1>7. \A t : Holds((<<first>> \o then) \o last, t)
                 <=> Holds(<<first>>, t) \/ Holds(then, t) \/ Holds(last, t)
    BY <1>2, <1>3, <1>4, <1>6, HoldsConcat
<1>8. /\ ~Holds(then, "get") /\ ~Holds(last, "get") /\ ~Holds(then, "set") /\ ~Holds(last, "set")
      /\ Holds(<<first>>, "get") <=> made
      /\ Holds(<<first>>, "set") <=> ~made
    BY <1>1, <1>2, <1>3, <1>4 DEF Holds
<1>9. ASSUME NEW i \in DOMAIN ((<<first>> \o then) \o last)
      PROVE  LET x == ((<<first>> \o then) \o last)[i]
             IN  x = first \/ x.type = "default" \/ x.type = "active"
    <2> DEFINE q == <<first>> \o then
    <2>1. q \in Seq(Requests) /\ last \in Seq(Requests)
        BY <1>3, <1>6
    <2>2. CASE i \in DOMAIN q
        <3>1. (q \o last)[i] = q[i]
            BY <2>1, <2>2, Concatenated
        <3>2. CASE i \in DOMAIN <<first>>
            <4>1. q[i] = <<first>>[i]
                BY <1>2, <1>4, <3>2, Concatenated
            <4> QED BY <1>4, <3>1, <3>2, <4>1
        <3>3. CASE i \notin DOMAIN <<first>>
            <4>1. i - Len(<<first>>) \in DOMAIN then /\ (i - Len(<<first>>)) + Len(<<first>>) = i
                BY <1>2, <1>4, <2>2, <3>3, Concatenated
            <4>2. q[i] = then[i - Len(<<first>>)]
                BY <1>2, <1>4, <4>1, Concatenated
            <4> QED BY <1>2, <3>1, <4>1, <4>2
        <3> QED BY <3>2, <3>3
    <2>3. CASE i \notin DOMAIN q
        <3>1. i - Len(q) \in DOMAIN last /\ (i - Len(q)) + Len(q) = i
            BY <2>1, <2>3, Concatenated
        <3>2. (q \o last)[i] = last[i - Len(q)]
            BY <2>1, <3>1, Concatenated
        <3> QED BY <1>3, <3>1, <3>2
    <2> QED BY <2>2, <2>3
<1>10. \A i \in DOMAIN RequestsFor(made, dflt) :
           RequestsFor(made, dflt)[i].type = "set" => RequestsFor(made, dflt)[i].deny = {}
    BY <1>1, <1>5, <1>9
<1> QED BY <1>5, <1>6, <1>7, <1>8, <1>10

----------------------------------------------------------------------------
(* Well-formedness.                                                        *)

\* The updates of the history.
LEMMA HistUpdates ==
    ASSUME NEW h \in Hists
    PROVE  /\ \A n \in 0..MaxBreaks, l \in SUBSET Contacts, o \in BOOLEAN :
                  [h EXCEPT !.breaks = n, !.late = l, !.overlapped = o] \in Hists
           /\ \A n \in 0..MaxBreaks : [h EXCEPT !.breaks = n, !.refused = TRUE] \in Hists
           /\ \A w \in SUBSET Contacts, n \in 0..MaxChanges, o \in BOOLEAN :
                  [h EXCEPT !.wish = w, !.changes = n, !.overlapped = o] \in Hists
           /\ \A w \in SUBSET Contacts, o \in BOOLEAN :
                  [h EXCEPT !.wish = w, !.overlapped = o] \in Hists
           /\ \A w \in SUBSET Contacts, l \in SUBSET Contacts, o \in BOOLEAN :
                  [h EXCEPT !.wish = w, !.late = l, !.overlapped = o] \in Hists
           /\ \A w \in SUBSET Contacts, n \in 0..MaxChanges :
                  [h EXCEPT !.wish = w, !.changes = n] \in Hists
           /\ \A l \in SUBSET Contacts : [h EXCEPT !.late = l] \in Hists
           /\ \A o \in BOOLEAN : [h EXCEPT !.overlapped = o] \in Hists
           /\ h.wish \in SUBSET Contacts /\ h.overlapped \in BOOLEAN /\ h.late \in SUBSET Contacts
           /\ h.changes < MaxChanges => h.changes + 1 \in 0..MaxChanges
           /\ h.breaks < MaxBreaks => h.breaks + 1 \in 0..MaxBreaks
<1>1. \A n \in 0..MaxBreaks, l \in SUBSET Contacts, o \in BOOLEAN :
          [h EXCEPT !.breaks = n, !.late = l, !.overlapped = o] \in Hists
    BY DEF Hists
<1>2. \A n \in 0..MaxBreaks : [h EXCEPT !.breaks = n, !.refused = TRUE] \in Hists
    BY DEF Hists
<1>3. \A w \in SUBSET Contacts, n \in 0..MaxChanges, o \in BOOLEAN :
          [h EXCEPT !.wish = w, !.changes = n, !.overlapped = o] \in Hists
    BY DEF Hists
<1>4. \A w \in SUBSET Contacts, o \in BOOLEAN : [h EXCEPT !.wish = w, !.overlapped = o] \in Hists
    BY DEF Hists
<1>5. \A w \in SUBSET Contacts, l \in SUBSET Contacts, o \in BOOLEAN :
          [h EXCEPT !.wish = w, !.late = l, !.overlapped = o] \in Hists
    BY DEF Hists
<1>6. \A w \in SUBSET Contacts, n \in 0..MaxChanges :
          [h EXCEPT !.wish = w, !.changes = n] \in Hists
    BY DEF Hists
<1>7. /\ \A l \in SUBSET Contacts : [h EXCEPT !.late = l] \in Hists
      /\ \A o \in BOOLEAN : [h EXCEPT !.overlapped = o] \in Hists
    BY DEF Hists
<1>8. /\ h.wish \in SUBSET Contacts /\ h.overlapped \in BOOLEAN /\ h.late \in SUBSET Contacts
      /\ h.changes \in 0..MaxChanges /\ h.breaks \in 0..MaxBreaks
    BY DEF Hists
<1>9. /\ h.changes < MaxChanges => h.changes + 1 \in 0..MaxChanges
      /\ h.breaks < MaxBreaks => h.breaks + 1 \in 0..MaxBreaks
    BY <1>8, BoundAssumption
<1> QED BY <1>1, <1>2, <1>3, <1>4, <1>5, <1>6, <1>7, <1>8, <1>9

\* The user's change.
LEMMA WishToggledType ==
    ASSUME TypeOK, NEW j \in Contacts, hist.changes < MaxChanges
    PROVE  /\ WishToggled(j) \in Hists
           /\ WishToggled(j).late = hist.late
           /\ WishToggled(j).overlapped = hist.overlapped
<1>1. hist \in Hists
    BY DEF TypeOK
<1>2. Symmetric(hist.wish, {j}) \in SUBSET Contacts /\ hist.changes + 1 \in 0..MaxChanges
    BY <1>1, HistUpdates DEF Symmetric
<1>3. WishToggled(j) \in Hists
    BY <1>1, <1>2, HistUpdates DEF WishToggled
<1> QED BY <1>1, <1>3 DEF WishToggled, Hists

\* What setContactBlocked sends: one list, behind at most a presence.
LEMMA BlockedAre ==
    ASSUME TypeOK, NEW j \in Contacts, NEW blocked
    PROVE  /\ Blocked(j, blocked) \in Seq(Requests)
           /\ Holds(Blocked(j, blocked), "set")
           /\ \A i \in DOMAIN Blocked(j, blocked) : Blocked(j, blocked)[i].type = "set" =>
                  Blocked(j, blocked)[i].deny = Replacement(j)
<1> DEFINE first == IF blocked /\ j \in Authorized
                    THEN <<Presence("unavailable", {j})>> ELSE <<>>
           last == SetList(Replacement(j))
<1>1. Replacement(j) \in SUBSET Contacts
    BY DEF Replacement, Symmetric, TypeOK, Lists
<1>2. last \in Requests /\ last.type = "set" /\ last.deny = Replacement(j)
    BY <1>1, RequestsAre
<1>3. {j} \in SUBSET Contacts /\ Presence("unavailable", {j}) \in Requests
      /\ Presence("unavailable", {j}).type = "unavailable"
    BY RequestsAre
<1>4. first \in Seq(Requests) /\ \A i \in DOMAIN first : first[i].type = "unavailable"
    <2>1. CASE blocked /\ j \in Authorized
        <3>1. first = <<Presence("unavailable", {j})>>
            BY <2>1
        <3> HIDE DEF first
        <3> QED BY <1>3, <3>1
    <2>2. CASE ~(blocked /\ j \in Authorized)
        <3>1. first = <<>>
            BY <2>2
        <3> HIDE DEF first
        <3> QED BY <3>1
    <2> QED BY <2>1, <2>2
<1>5. <<last>> \in Seq(Requests) /\ DOMAIN <<last>> = {1} /\ <<last>>[1] = last
    BY <1>2
<1>6. Blocked(j, blocked) = first \o <<last>>
    BY DEF Blocked
<1> HIDE DEF first, last
<1>7. first \o <<last>> \in Seq(Requests)
    BY <1>4, <1>5, Concatenated
<1>8. Holds(first \o <<last>>, "set")
    <2>1. Holds(<<last>>, "set")
        BY <1>2, <1>5 DEF Holds
    <2> QED BY <1>4, <1>5, <2>1, HoldsConcat
<1>9. ASSUME NEW i \in DOMAIN (first \o <<last>>), (first \o <<last>>)[i].type = "set"
      PROVE  (first \o <<last>>)[i] = last
    <2>1. CASE i \in DOMAIN first
        <3>1. (first \o <<last>>)[i] = first[i]
            BY <1>4, <1>5, <2>1, Concatenated
        <3> QED BY <1>4, <1>9, <2>1, <3>1
    <2>2. CASE i \notin DOMAIN first
        <3>1. i - Len(first) \in DOMAIN <<last>> /\ (i - Len(first)) + Len(first) = i
            BY <1>4, <1>5, <2>2, Concatenated
        <3>2. (first \o <<last>>)[i] = <<last>>[i - Len(first)]
            BY <1>4, <1>5, <3>1, Concatenated
        <3> QED BY <1>5, <3>1, <3>2
    <2> QED BY <2>1, <2>2
<1> QED BY <1>2, <1>6, <1>7, <1>8, <1>9

\* The server takes a stanza and answers with x, or not at all.
LEMMA TakenType ==
    ASSUME TypeOK, Taken
    PROVE  /\ up' \in Seq(Requests) /\ Request \in Requests
           /\ \A x \in Answers : Answer(x) => down' \in Seq(Answers)
<1>1. up \in Seq(Requests) /\ up # <<>> /\ down \in Seq(Answers)
    BY DEF TypeOK, Taken
<1>2. Tail(up) \in Seq(Requests) /\ Head(up) \in Requests
    BY <1>1
<1>3. \A x \in Answers : Append(down, x) \in Seq(Answers)
    BY <1>1
<1> QED BY <1>2, <1>3 DEF Taken, Request, Answer
\* The client takes one.
LEMMA ReceivedType ==
    ASSUME TypeOK, Received
    PROVE  down' \in Seq(Answers) /\ Incoming \in Answers
<1>1. down \in Seq(Answers) /\ down # <<>>
    BY DEF TypeOK, Received
<1> QED BY <1>1 DEF Received, Incoming

\* A step of the server keeps the state well-formed.
LEMMA ServerType ==
    ASSUME TypeOK, ServerTakes PROVE TypeOK'
<1>0. server.deny \in SUBSET Contacts /\ server.made \in BOOLEAN
      /\ server.dflt \in {"none", "blocked", "other"} /\ hist \in Hists
    BY DEF TypeOK, Servers
<1>1. CASE TakePresence
    <2>1. Authorized \ Effective \in SUBSET Authorized
        OBVIOUS
    <2>2. up' \in Seq(Requests) /\ down' \in Seq(Answers)
        BY <1>1, <2>1, TakenType, AnswersAre DEF TakePresence
    <2>3. hist.late \cup (server.deny \ Effective) \in SUBSET Contacts
        BY <1>0, HistUpdates
    <2>4. hist' \in Hists
        BY <1>0, <1>1, <2>3, HistUpdates DEF TakePresence
    <2> QED BY <1>1, <2>1, <2>2, <2>4 DEF TakePresence, Taken, TypeOK
<1>2. CASE TakeUnavailable
    BY <1>2, TakenType DEF TakeUnavailable, Taken, TypeOK
<1>3. CASE TakeReturn
    <2> DEFINE back == (Request.who \cap Authorized) \ Effective
    <2>1. back \in SUBSET Authorized
        OBVIOUS
    <2>2. up' \in Seq(Requests) /\ down' \in Seq(Answers)
        BY <1>3, <2>1, TakenType, AnswersAre DEF TakeReturn
    <2> QED BY <1>3, <2>1, <2>2 DEF TakeReturn, Taken, TypeOK
<1>4. CASE TakeNames
    <2>1. up' \in Seq(Requests) /\ down' \in Seq(Answers)
        BY <1>0, <1>4, TakenType, AnswersAre DEF TakeNames
    <2> QED BY <1>4, <2>1 DEF TakeNames, Taken, TypeOK
<1>5. CASE TakeGet
    <2>1. up' \in Seq(Requests) /\ down' \in Seq(Answers)
        BY <1>0, <1>5, TakenType, AnswersAre DEF TakeGet
    <2> QED BY <1>5, <2>1 DEF TakeGet, Taken, TypeOK
<1>6. CASE TakeSet
    <2>1. up' \in Seq(Requests) /\ down' \in Seq(Answers)
        BY <1>6, TakenType, AnswersAre DEF TakeSet
    <2>2. Request.deny \in SUBSET Contacts
        BY <1>6, TakenType, RequestsHold DEF TakeSet
    <2>3. server' \in Servers /\ server'.made
        BY <1>6, <2>2 DEF TakeSet, TypeOK, Servers
    <2> QED BY <1>6, <2>1, <2>3 DEF TakeSet, Taken, TypeOK
<1>7. CASE TakeActive
    <2>1. server' \in Servers /\ (server'.active => server'.made)
          /\ server'.made = server.made /\ server'.deny = server.deny /\ server'.dflt = server.dflt
        BY <1>0, <1>7 DEF TakeActive, TypeOK, Servers
    <2> QED BY <1>7, <2>1, TakenType DEF TakeActive, Taken, TypeOK
<1>8. CASE TakeDefault
    <2>1. server' \in Servers /\ (server'.dflt = "blocked" => server'.made)
          /\ server'.made = server.made /\ server'.deny = server.deny
          /\ server'.active = server.active
        BY <1>0, <1>8 DEF TakeDefault, TypeOK, Servers
    <2> QED BY <1>8, <2>1, TakenType DEF TakeDefault, Taken, TypeOK
<1>9. CASE TakeRefused
    <2>1. up' \in Seq(Requests) /\ down' \in Seq(Answers)
        BY <1>9, TakenType, AnswersAre DEF TakeRefused
    <2>2. hist' \in Hists
        BY <1>0, <1>9, HistUpdates DEF TakeRefused
    <2> QED BY <1>9, <2>1, <2>2 DEF TakeRefused, Taken, TypeOK
<1> QED BY <1>1, <1>2, <1>3, <1>4, <1>5, <1>6, <1>7, <1>8, <1>9 DEF ServerTakes

\* So does a step of the client.
LEMMA ClientType ==
    ASSUME TypeOK, ClientTakes PROVE TypeOK'
<1>0. up \in Seq(Requests) /\ hist \in Hists
    BY DEF TypeOK
<1>1. CASE PresenceReceived
    BY <1>1, ReceivedType, AnswersHold DEF PresenceReceived, Received, TypeOK
<1>2. CASE ListsReceived
    <2>1. Incoming.made \in BOOLEAN
        BY <1>2, ReceivedType, AnswersHold DEF ListsReceived
    <2>2. up' \in Seq(Requests)
        BY <1>0, <1>2, <2>1, RequestsForAre, Concatenated DEF ListsReceived
    <2>3. hist' \in Hists
        <3>1. (hist.overlapped \/ (~Incoming.made /\ hist.wish # {})) \in BOOLEAN
            BY <1>0, <2>1, HistUpdates
        <3> QED BY <1>0, <1>2, <3>1, HistUpdates DEF ListsReceived
    <2> QED BY <1>2, <2>2, <2>3, ReceivedType DEF ListsReceived, Received, TypeOK
<1>3. CASE ListsError \/ OtherError
    BY <1>3, ReceivedType DEF ListsError, OtherError, Received, TypeOK
<1>4. CASE PrivacyListChanged
    <2>1. up' \in Seq(Requests)
        <3>1. Stanza("get") \in Requests
            BY RequestsAre
        <3> QED BY <1>0, <1>4, <3>1 DEF PrivacyListChanged
    <2> QED BY <1>4, <2>1, ReceivedType DEF PrivacyListChanged, Received, TypeOK
<1>5. CASE ListReceived
    <2> DEFINE updated == Updated(list.deny, Incoming.deny)
               returned == updated \ Incoming.deny
    <2>1. Incoming.deny \in SUBSET Contacts /\ list.deny \in SUBSET Contacts
        BY <1>5, ReceivedType, AnswersHold DEF ListReceived, TypeOK, Lists
    <2>2. returned \in SUBSET Contacts
        BY <2>1 DEF Updated, Symmetric
    <2>3. Presence("return", returned) \in Requests
        BY <2>2, RequestsAre
    <2>4. up' \in Seq(Requests)
        <3>1. up' = up \/ up' = Append(up, Presence("return", returned))
            BY <1>5 DEF ListReceived
        <3> HIDE DEF returned
        <3> QED BY <1>0, <2>3, <3>1
    <2>5. list' \in Lists /\ list'.made
        BY <1>5, <2>1 DEF ListReceived, Lists
    <2>6. shown' \subseteq Authorized
        BY <1>5 DEF ListReceived, TypeOK
    <2> QED BY <1>5, <2>4, <2>5, <2>6, ReceivedType DEF ListReceived, Received, TypeOK
<1> QED BY <1>1, <1>2, <1>3, <1>4, <1>5 DEF ClientTakes

\* So does every step.
LEMMA TypeStep ==
    ASSUME TypeOK, [Next]_vars PROVE TypeOK'
<1>0. server.deny \in SUBSET Contacts /\ server \in Servers /\ hist \in Hists
      /\ up \in Seq(Requests) /\ down \in Seq(Answers)
    BY DEF TypeOK, Servers
<1>1. CASE Login
    <2>1. Stanza("presence") \in Requests /\ Stanza("names") \in Requests
        BY RequestsAre
    <2>2. up' \in Seq(Requests)
        BY <1>1, <2>1 DEF Login
    <2> QED BY <1>1, <2>2 DEF Login, TypeOK
<1>2. CASE Disconnect
    <2>1. server' \in Servers /\ ~server'.active
          /\ server'.made = server.made /\ server'.deny = server.deny /\ server'.dflt = server.dflt
        BY <1>0, <1>2 DEF Disconnect, Servers
    <2>2. hist' \in Hists
        <3>1. (hist.overlapped \/ server.deny # hist.wish) \in BOOLEAN /\ {} \in SUBSET Contacts
            BY <1>0, HistUpdates
        <3> QED BY <1>0, <1>2, <3>1, HistUpdates DEF Disconnect
    <2>3. /\ ~online' /\ ~available' /\ online' \in BOOLEAN /\ available' \in BOOLEAN
          /\ up' = <<>> /\ down' = <<>> /\ seen' = {} /\ shown' = {} /\ list' = list
        BY <1>2 DEF Disconnect
    <2> QED BY <2>1, <2>2, <2>3 DEF TypeOK
<1>3. ASSUME NEW j \in Contacts, SetContactBlocked(j) PROVE TypeOK'
    <2>0. hist.changes < MaxChanges
        BY <1>3 DEF SetContactBlocked
    <2>1. up' \in Seq(Requests)
        <3> DEFINE sent == Blocked(j, j \notin list.deny)
        <3>1. sent \in Seq(Requests)
            BY BlockedAre, Zenon
        <3>2. up' = up \/ up' = up \o sent
            BY <1>3 DEF SetContactBlocked
        <3> HIDE DEF sent
        <3>3. up \o sent \in Seq(Requests)
            BY <1>0, <3>1, Concatenated
        <3> QED BY <1>0, <3>2, <3>3, Zenon
    <2>2. hist' \in Hists
        <3>1. WishToggled(j) \in Hists /\ hist.wish \ {j} \in SUBSET Contacts
              /\ hist.wish \cup {j} \in SUBSET Contacts /\ hist.changes + 1 \in 0..MaxChanges
            BY <1>0, <2>0, WishToggledType, HistUpdates
        <3>2. (hist.overlapped \/ list.deny # hist.wish) \in BOOLEAN
            BY <1>0, HistUpdates
        <3>3. CASE list.made
            <4>1. hist.late \in SUBSET Contacts /\ hist.late \cup {j} \in SUBSET Contacts
                BY <1>0, HistUpdates
            <4>2. PICK w \in SUBSET Contacts, l \in SUBSET Contacts, o \in BOOLEAN :
                      hist' = [WishToggled(j) EXCEPT !.wish = w, !.late = l, !.overlapped = o]
                BY <1>3, <2>0, <3>1, <3>2, <3>3, <4>1, WishToggledType DEF SetContactBlocked
            <4> QED BY <3>1, <4>2, HistUpdates
        <3>4. CASE ~list.made
            BY <1>0, <1>3, <3>1, <3>4, HistUpdates DEF SetContactBlocked
        <3> QED BY <3>3, <3>4
    <2> QED BY <1>3, <2>1, <2>2 DEF SetContactBlocked, TypeOK
<1>4. ASSUME NEW j \in Contacts, OtherSetsBlocked(j) PROVE TypeOK'
    <2>0. hist.changes < MaxChanges
        BY <1>4 DEF OtherSetsBlocked
    <2>1. server' \in Servers /\ server'.made
        BY <1>0, <1>4 DEF OtherSetsBlocked, Servers, Symmetric
    <2>2. down' \in Seq(Answers) /\ (~online => down' = down)
        <3>1. Append(down, Stanza("push")) \in Seq(Answers)
            BY <1>0, AnswersAre
        <3> QED BY <1>0, <1>4, <3>1 DEF OtherSetsBlocked
    <2>3. hist' \in Hists
        <3>1. WishToggled(j) \in Hists /\ hist.wish \ {j} \in SUBSET Contacts
              /\ hist.wish \cup {j} \in SUBSET Contacts /\ hist.late \in SUBSET Contacts
              /\ hist.late \cup {j} \in SUBSET Contacts
            BY <1>0, <2>0, WishToggledType, HistUpdates
        <3>2. (hist.overlapped \/ \E i \in DOMAIN up : up[i].type = "set") \in BOOLEAN
            BY <1>0, HistUpdates
        <3>3. PICK w \in SUBSET Contacts, l \in SUBSET Contacts, o \in BOOLEAN :
                  hist' = [WishToggled(j) EXCEPT !.wish = w, !.late = l, !.overlapped = o]
            BY <1>4, <2>0, <3>1, <3>2, WishToggledType DEF OtherSetsBlocked
        <3> QED BY <3>1, <3>3, HistUpdates
    <2> QED BY <1>4, <2>1, <2>2, <2>3 DEF OtherSetsBlocked, TypeOK
<1>5. CASE UNCHANGED vars
    BY <1>5 DEF vars, TypeOK
<1> QED BY <1>1, <1>2, <1>3, <1>4, <1>5, ServerType, ClientType DEF Next

----------------------------------------------------------------------------
(* What the user wants.                                                    *)

WishSettles == hist.overlapped \/ hist.refused \/ Settles(up, "set", server.deny, hist.wish)

\* The history after a step, field by field.
LEMMA HistFields ==
    ASSUME NEW h \in Hists
    PROVE  /\ \A n, l, o : LET g == [h EXCEPT !.breaks = n, !.late = l, !.overlapped = o]
                           IN  g.wish = h.wish /\ g.overlapped = o /\ g.refused = h.refused
           /\ \A n : LET g == [h EXCEPT !.breaks = n, !.refused = TRUE] IN g.refused
           /\ \A w, n, o : LET g == [h EXCEPT !.wish = w, !.changes = n, !.overlapped = o]
                           IN  g.wish = w /\ g.overlapped = o /\ g.refused = h.refused
           /\ \A w, o : LET g == [h EXCEPT !.wish = w, !.overlapped = o]
                        IN  g.wish = w /\ g.overlapped = o /\ g.refused = h.refused
           /\ \A w, l, o : LET g == [h EXCEPT !.wish = w, !.late = l, !.overlapped = o]
                           IN  g.wish = w /\ g.overlapped = o /\ g.refused = h.refused
           /\ \A w, n : LET g == [h EXCEPT !.wish = w, !.changes = n]
                        IN  g.wish = w /\ g.overlapped = h.overlapped /\ g.refused = h.refused
           /\ \A l : LET g == [h EXCEPT !.late = l]
                     IN  g.wish = h.wish /\ g.overlapped = h.overlapped /\ g.refused = h.refused
           /\ \A o : LET g == [h EXCEPT !.overlapped = o]
                     IN  g.wish = h.wish /\ g.overlapped = o /\ g.refused = h.refused
BY Zenon DEF Hists

\* A stanza that is no list is taken.
LEMMA TakenSettles ==
    ASSUME TypeOK, Taken, NEW d, NEW w, Settles(up, "set", d, w)
    PROVE  /\ Request.type # "set" => Settles(up', "set", d, w)
           /\ Request.type = "set" => Settles(up', "set", Request.deny, w)
<1>1. up \in Seq(Requests) /\ up # <<>> /\ up' = Tail(up) /\ Request = Head(up)
    BY DEF TypeOK, Taken, Request
<1> QED BY <1>1, SettlesTail

\* What the server takes changes nothing the user wants.
LEMMA ServerHist ==
    ASSUME TypeOK, ServerTakes, ~TakeRefused
    PROVE  /\ hist'.wish = hist.wish
           /\ hist'.overlapped = hist.overlapped
           /\ hist'.refused = hist.refused
<1>1. CASE TakePresence
    <2>1. hist' = [hist EXCEPT !.late = @ \cup (server.deny \ Effective)]
        BY <1>1 DEF TakePresence
    <2> QED BY <2>1 DEF TypeOK, Hists
<1>2. CASE ~TakePresence
    <2>1. hist' = hist
        BY <1>2 DEF ServerTakes, TakeUnavailable, TakeReturn, TakeNames, TakeGet, TakeSet,
                    TakeActive, TakeDefault
    <2> QED BY <2>1
<1> QED BY <1>1, <1>2

\* The steps of the server.
LEMMA ServerWish ==
    ASSUME TypeOK, WishSettles, ServerTakes PROVE WishSettles'
<1>0. hist \in Hists /\ server \in Servers
    BY DEF TypeOK
<1>1. CASE TakeRefused
    <2>1. hist'.refused
        BY <1>0, <1>1, HistFields DEF TakeRefused
    <2> QED BY <2>1 DEF WishSettles
<1>2. SUFFICES ASSUME ~TakeRefused, Settles(up, "set", server.deny, hist.wish),
                      ~hist.overlapped, ~hist.refused
               PROVE  Settles(up', "set", server'.deny, hist'.wish)
    BY <1>1, ServerHist DEF WishSettles
<1>3. CASE TakeSet
    <2>1. server'.deny = Request.deny /\ hist' = hist /\ Taken /\ Request.type = "set"
        BY <1>0, <1>3 DEF TakeSet, Servers
    <2> QED BY <1>2, <2>1, TakenSettles
<1>4. CASE ~TakeSet
    <2>1. Taken /\ Request.type # "set"
        BY <1>2, <1>4 DEF ServerTakes, TakePresence, TakeUnavailable, TakeReturn, TakeNames,
                          TakeGet, TakeActive, TakeDefault
    <2>2. server'.deny = server.deny
        BY <1>0, <1>2, <1>4
           DEF ServerTakes, TakePresence, TakeUnavailable, TakeReturn, TakeNames,
               TakeGet, TakeActive, TakeDefault, Servers
    <2>3. hist'.wish = hist.wish
        BY <1>2, ServerHist
    <2> QED BY <1>2, <2>1, <2>2, <2>3, TakenSettles
<1> QED BY <1>3, <1>4

\* The steps of the client.
LEMMA ClientWish ==
    ASSUME TypeOK, WishSettles, ClientTakes PROVE WishSettles'
<1>0. hist \in Hists /\ up \in Seq(Requests)
    BY DEF TypeOK
<1>1. CASE UNCHANGED <<up, server, hist>>
    BY <1>1 DEF WishSettles
<1>2. CASE ListsReceived
    <2> DEFINE sent == RequestsFor(Incoming.made, Incoming.dflt)
    <2>1. Incoming.made \in BOOLEAN
        BY <1>2, ReceivedType, AnswersHold DEF ListsReceived
    <2>2. /\ sent \in Seq(Requests)
          /\ Holds(sent, "set") <=> ~Incoming.made
          /\ \A i \in DOMAIN sent : sent[i].type = "set" => sent[i].deny = {}
        BY <2>1, RequestsForAre
    <2>3. up' = up \o sent /\ server' = server
        BY <1>2 DEF ListsReceived
    <2>4. hist'.wish = hist.wish /\ hist'.refused = hist.refused
          /\ hist'.overlapped = (hist.overlapped \/ (~Incoming.made /\ hist.wish # {}))
        BY <1>0, <1>2, HistFields DEF ListsReceived
    <2> HIDE DEF sent
    <2>5. SUFFICES ASSUME ~hist'.overlapped, ~hist.refused
                   PROVE  Settles(up', "set", server.deny, hist.wish)
        BY <2>3, <2>4 DEF WishSettles
    <2>6. Settles(up, "set", server.deny, hist.wish)
        BY <2>4, <2>5 DEF WishSettles
    <2>7. CASE Incoming.made
        BY <1>0, <2>2, <2>3, <2>6, <2>7, SettlesConcat
    <2>8. CASE ~Incoming.made
        <3>1. hist.wish = {}
            BY <2>4, <2>5, <2>8
        <3> QED BY <1>0, <2>2, <2>3, <2>8, <3>1, SettlesLast
    <2> QED BY <2>7, <2>8
<1>3. ASSUME NEW x \in Requests, x.type # "set", up' = Append(up, x), UNCHANGED <<server, hist>>
      PROVE  WishSettles'
    <2>1. Settles(up, "set", server.deny, hist.wish) => Settles(up', "set", server.deny, hist.wish)
        BY <1>0, <1>3, SettlesAppend
    <2> QED BY <1>3, <2>1 DEF WishSettles
<1>4. CASE PrivacyListChanged
    <2>1. Stanza("get") \in Requests /\ Stanza("get").type = "get"
        BY RequestsAre
    <2> QED BY <1>3, <1>4, <2>1 DEF PrivacyListChanged
<1>5. CASE ListReceived
    <2> DEFINE returned == Updated(list.deny, Incoming.deny) \ Incoming.deny
    <2>1. Incoming.deny \in SUBSET Contacts /\ list.deny \in SUBSET Contacts
        BY <1>5, ReceivedType, AnswersHold DEF ListReceived, TypeOK, Lists
    <2>2. returned \in SUBSET Contacts
        BY <2>1 DEF Updated, Symmetric
    <2>3. Presence("return", returned) \in Requests /\ Presence("return", returned).type = "return"
        BY <2>2, RequestsAre
    <2>4. (up' = up \/ up' = Append(up, Presence("return", returned))) /\ UNCHANGED <<server, hist>>
        BY <1>5 DEF ListReceived
    <2> HIDE DEF returned
    <2> QED BY <1>1, <1>3, <2>3, <2>4
<1> QED BY <1>1, <1>2, <1>4, <1>5 DEF ClientTakes, PresenceReceived, ListsError, OtherError

\* Every step.
LEMMA WishStep ==
    ASSUME TypeOK, WishSettles, [Next]_vars PROVE WishSettles'
<1>0. hist \in Hists /\ up \in Seq(Requests) /\ server \in Servers
    BY DEF TypeOK
<1>1. CASE Login
    <2>1. up = <<>> /\ server' = server /\ hist' = hist
          /\ up' = <<Stanza("presence"), Stanza("names")>>
        BY <1>1 DEF Login, TypeOK
    <2>2. ~Holds(up', "set") /\ LastOf(up', "set") = {}
        BY <2>1 DEF Holds, LastOf, Stanza
    <2>3. Settles(up, "set", server.deny, hist.wish) => server.deny = hist.wish
        BY <2>1, SettlesEmpty
    <2> QED BY <2>1, <2>2, <2>3 DEF WishSettles, Settles
<1>2. CASE Disconnect
    <2>1. server'.deny = server.deny
        BY <1>0, <1>2 DEF Disconnect, Servers
    <2>2. hist'.wish = hist.wish /\ hist'.refused = hist.refused
          /\ hist'.overlapped = (hist.overlapped \/ server.deny # hist.wish)
        BY <1>0, <1>2, HistFields DEF Disconnect
    <2>3. up' = <<>>
        BY <1>2 DEF Disconnect
    <2> QED BY <2>1, <2>2, <2>3, SettlesEmpty DEF WishSettles
<1>3. ASSUME NEW j \in Contacts, SetContactBlocked(j) PROVE WishSettles'
    <2>0. hist.changes < MaxChanges
        BY <1>3 DEF SetContactBlocked
    <2>1. CASE ~list.made
        <3>1. hist'.overlapped
            <4> DEFINE w == hist.wish \cup {j}
                       n == hist.changes + 1
            <4>1. hist' = [hist EXCEPT !.wish = w, !.changes = n, !.overlapped = TRUE]
                BY <1>3, <2>1, Zenon DEF SetContactBlocked
            <4> HIDE DEF w, n
            <4> QED BY <1>0, <4>1, HistFields
        <3> QED BY <3>1 DEF WishSettles
    <2>2. CASE list.made
        <3> DEFINE sent == Blocked(j, j \notin list.deny)
        <3>1. /\ sent \in Seq(Requests) /\ Holds(sent, "set")
              /\ \A i \in DOMAIN sent : sent[i].type = "set" => sent[i].deny = Replacement(j)
            BY BlockedAre, Zenon
        <3>2. up' = up \o sent
            BY <1>3, <2>2 DEF SetContactBlocked
        <3> HIDE DEF sent
        <3>3. hist'.wish = (IF j \in list.deny THEN hist.wish \ {j} ELSE hist.wish \cup {j})
              /\ hist'.overlapped = (hist.overlapped \/ list.deny # hist.wish)
            <4> DEFINE w == IF j \in list.deny THEN hist.wish \ {j} ELSE hist.wish \cup {j}
                       l == IF Contested(j) THEN WishToggled(j).late \cup {j} ELSE WishToggled(j).late
                       o == WishToggled(j).overlapped \/ list.deny # hist.wish
            <4>1. hist' = [WishToggled(j) EXCEPT !.wish = w, !.late = l, !.overlapped = o]
                BY <1>3, <2>2, Zenon DEF SetContactBlocked
            <4>2. WishToggled(j) \in Hists /\ (o <=> hist.overlapped \/ list.deny # hist.wish)
                BY <2>0, WishToggledType
            <4> HIDE DEF w, l, o
            <4>3. hist'.wish = w /\ hist'.overlapped = o
                BY <4>1, <4>2, HistFields
            <4> USE DEF w, o
            <4> QED BY <2>0, <4>3, WishToggledType
        <3>4. SUFFICES ASSUME ~hist'.overlapped
                       PROVE  Settles(up', "set", server'.deny, hist'.wish)
            BY DEF WishSettles
        <3>5. list.deny = hist.wish
            BY <3>3, <3>4
        <3>6. hist'.wish = Replacement(j)
            BY <3>3, <3>5 DEF Replacement, Symmetric
        <3> QED BY <1>0, <3>1, <3>2, <3>6, SettlesLast
    <2> QED BY <2>1, <2>2
<1>4. ASSUME NEW j \in Contacts, OtherSetsBlocked(j) PROVE WishSettles'
    <2>0. hist.changes < MaxChanges /\ up' = up
        BY <1>4 DEF OtherSetsBlocked
    <2>1. hist'.wish = (IF j \in server.deny THEN hist.wish \ {j} ELSE hist.wish \cup {j})
          /\ hist'.overlapped = (hist.overlapped \/ Holds(up, "set"))
          /\ hist'.refused = hist.refused
        <3>1. WishToggled(j).refused = hist.refused
            BY <1>0 DEF WishToggled, Hists
        <3> QED BY <1>4, <2>0, <3>1, WishToggledType, HistFields DEF OtherSetsBlocked, Holds
    <2>2. server'.deny = Symmetric(server.deny, {j})
        BY <1>0, <1>4 DEF OtherSetsBlocked, Servers
    <2>3. SUFFICES ASSUME ~hist'.overlapped, ~hist'.refused
                   PROVE  Settles(up, "set", server'.deny, hist'.wish)
        BY <2>0 DEF WishSettles
    <2>4. ~Holds(up, "set") /\ server.deny = hist.wish
        BY <2>1, <2>3 DEF WishSettles, Settles
    <2>5. server'.deny = hist'.wish
        BY <2>1, <2>2, <2>4 DEF Symmetric
    <2> QED BY <2>4, <2>5 DEF Settles, Holds, LastOf
<1>5. CASE UNCHANGED vars
    BY <1>5 DEF vars, WishSettles
<1> QED BY <1>1, <1>2, <1>3, <1>4, <1>5, ServerWish, ClientWish DEF Next

----------------------------------------------------------------------------
(* The copy of the list.                                                   *)

Due == Holds(up, "get") \/ Holds(up, "set") \/ Holds(down, "push")
Answered == Settles(down, "list", list.deny, server.deny) /\ (list.made \/ Holds(down, "list"))
CopySettles == available /\ server.made /\ ~hist.refused => Due \/ Answered

\* A stanza that asks for no list is taken and answered with none, or not at all.
LEMMA TakenDue ==
    ASSUME TypeOK, Taken, Request.type \notin {"get", "set"}, UNCHANGED <<server, list>>,
           \/ UNCHANGED down
           \/ \E x \in Answers : x.type # "list" /\ Answer(x),
           Due \/ Answered
    PROVE  Due' \/ Answered'
<1>1. up \in Seq(Requests) /\ up # <<>> /\ up' = Tail(up) /\ Request = Head(up)
      /\ down \in Seq(Answers)
    BY DEF TypeOK, Taken, Request
<1>2. (Holds(up, "get") => Holds(up', "get")) /\ (Holds(up, "set") => Holds(up', "set"))
    BY <1>1, HoldsTail
<1>3. CASE UNCHANGED down
    BY <1>2, <1>3 DEF Due, Answered
<1>4. ASSUME NEW x \in Answers, x.type # "list", Answer(x) PROVE Due' \/ Answered'
    <2>1. down' = Append(down, x)
        BY <1>4 DEF Answer
    <2>2. (Holds(down, "push") => Holds(down', "push")) /\ (Holds(down, "list") => Holds(down', "list"))
        BY <1>1, <1>4, <2>1, HoldsAppend
    <2>3. Settles(down, "list", list.deny, server.deny)
              => Settles(down', "list", list.deny, server.deny)
        BY <1>1, <1>4, <2>1, SettlesAppend
    <2> QED BY <1>2, <2>2, <2>3 DEF Due, Answered
<1> QED BY <1>3, <1>4

\* The steps of the server.
LEMMA ServerCopy ==
    ASSUME TypeOK, CopySettles, ServerTakes PROVE CopySettles'
<1>0. up \in Seq(Requests) /\ down \in Seq(Answers) /\ server \in Servers
      /\ server.made \in BOOLEAN /\ server.deny \in SUBSET Contacts
      /\ server.dflt \in {"none", "blocked", "other"} /\ hist \in Hists
    BY DEF TypeOK, Servers
<1>1. CASE TakeRefused
    <2>1. hist'.refused
        BY <1>0, <1>1, HistFields DEF TakeRefused
    <2> QED BY <2>1 DEF CopySettles
<1>2. SUFFICES ASSUME ~TakeRefused, server'.made, available, ~hist.refused PROVE Due' \/ Answered'
    <2>1. available' = available
        BY DEF ServerTakes, TakePresence, TakeUnavailable, TakeReturn, TakeNames, TakeGet,
               TakeSet, TakeActive, TakeDefault, TakeRefused
    <2> QED BY <1>1, <2>1, ServerHist DEF CopySettles
<1>3. CASE TakeSet
    <2>1. Stanza("push") \in Answers /\ Stanza("push").type = "push"
        BY AnswersAre
    <2>2. Holds(down', "push")
        BY <1>0, <1>3, <2>1, HoldsAppend DEF TakeSet, Answer
    <2> QED BY <2>2 DEF Due
<1>4. CASE TakeGet
    <2>1. server.made /\ list' = list /\ server' = server
        BY <1>2, <1>4 DEF TakeGet
    <2>2. ListIs(server.deny) \in Answers /\ ListIs(server.deny).type = "list"
          /\ ListIs(server.deny).deny = server.deny
        BY <1>0, AnswersAre
    <2>3. down' = Append(down, ListIs(server.deny))
        BY <1>4, <2>1 DEF TakeGet, Answer
    <2>4. Settles(down', "list", list.deny, server.deny) /\ Holds(down', "list")
        BY <1>0, <2>2, <2>3, SettlesAppend, HoldsAppend
    <2> QED BY <2>1, <2>4 DEF Answered
<1>5. CASE TakeActive \/ TakeDefault
    <2>1. /\ server'.made = server.made /\ server'.deny = server.deny
          /\ UNCHANGED <<list, down>> /\ Taken /\ Request.type \notin {"get", "set"}
        BY <1>0, <1>5 DEF TakeActive, TakeDefault, Servers
    <2>2. up # <<>> /\ up' = Tail(up) /\ Request = Head(up)
        BY <2>1 DEF Taken, Request
    <2>3. (Holds(up, "get") => Holds(up', "get")) /\ (Holds(up, "set") => Holds(up', "set"))
        BY <1>0, <2>1, <2>2, HoldsTail
    <2>4. Due \/ Answered
        BY <1>2, <2>1 DEF CopySettles
    <2> QED BY <2>1, <2>3, <2>4 DEF Due, Answered
<1>6. CASE TakePresence \/ TakeUnavailable \/ TakeReturn \/ TakeNames
    <2>1. /\ UNCHANGED <<server, list>> /\ Taken /\ Request.type \notin {"get", "set"}
        BY <1>6 DEF TakePresence, TakeUnavailable, TakeReturn, TakeNames
    <2>2. Due \/ Answered
        BY <1>2, <2>1 DEF CopySettles
    <2>3. UNCHANGED down \/ \E x \in Answers : x.type # "list" /\ Answer(x)
        <3>1. CASE TakePresence
            <4>1. Authorized \ Effective \in SUBSET Authorized
                OBVIOUS
            <4> QED BY <3>1, <4>1, AnswersAre DEF TakePresence
        <3>2. CASE TakeUnavailable
            BY <3>2 DEF TakeUnavailable
        <3>3. CASE TakeReturn
            <4>1. (Request.who \cap Authorized) \ Effective \in SUBSET Authorized
                OBVIOUS
            <4> QED BY <3>3, <4>1, AnswersAre DEF TakeReturn
        <3>4. CASE TakeNames
            BY <1>0, <3>4, AnswersAre DEF TakeNames
        <3> QED BY <1>6, <3>1, <3>2, <3>3, <3>4
    <2> QED BY <2>1, <2>2, <2>3, TakenDue
<1> QED BY <1>2, <1>3, <1>4, <1>5, <1>6 DEF ServerTakes

\* The steps of the client.
LEMMA ClientCopy ==
    ASSUME TypeOK, CopySettles, ClientTakes PROVE CopySettles'
<1>0. up \in Seq(Requests) /\ down \in Seq(Answers) /\ down # <<>> /\ down' = Tail(down)
      /\ Incoming = Head(down) /\ hist \in Hists
    BY DEF TypeOK, ClientTakes, PresenceReceived, ListsReceived, ListsError, OtherError,
           PrivacyListChanged, ListReceived, Received, Incoming
<1>1. /\ Incoming.type # "push" => (Holds(down, "push") => Holds(down', "push"))
      /\ Incoming.type # "list" => (Holds(down, "list") => Holds(down', "list"))
      /\ Incoming.type # "list" => (Settles(down, "list", list.deny, server.deny)
                                       => Settles(down', "list", list.deny, server.deny))
      /\ Incoming.type = "list" => (Settles(down, "list", list.deny, server.deny)
                                       => Settles(down', "list", Incoming.deny, server.deny))
    BY <1>0, HoldsTail, SettlesTail
<1>2. CASE PresenceReceived \/ OtherError
    <2>1. /\ Incoming.type \notin {"push", "list"}
          /\ UNCHANGED <<server, list, available, up, hist>>
        BY <1>2 DEF PresenceReceived, OtherError
    <2> QED BY <1>1, <2>1 DEF CopySettles, Due, Answered
<1>3. CASE ListsError
    BY <1>3 DEF ListsError, CopySettles
<1>4. CASE ListsReceived
    <2> DEFINE sent == RequestsFor(Incoming.made, Incoming.dflt)
    <2>1. Incoming.made \in BOOLEAN
        BY <1>4, ReceivedType, AnswersHold DEF ListsReceived
    <2>2. sent \in Seq(Requests) /\ (Holds(sent, "get") \/ Holds(sent, "set"))
        BY <2>1, RequestsForAre
    <2>3. up' = up \o sent
        BY <1>4 DEF ListsReceived
    <2> HIDE DEF sent
    <2>4. Holds(up', "get") \/ Holds(up', "set")
        BY <1>0, <2>2, <2>3, HoldsConcat
    <2> QED BY <2>4 DEF CopySettles, Due
<1>5. CASE PrivacyListChanged
    <2>1. Stanza("get") \in Requests /\ Stanza("get").type = "get"
        BY RequestsAre
    <2>2. Holds(up', "get")
        BY <1>0, <1>5, <2>1, HoldsAppend DEF PrivacyListChanged
    <2> QED BY <2>2 DEF CopySettles, Due
<1>6. CASE ListReceived
    <2> DEFINE returned == Updated(list.deny, Incoming.deny) \ Incoming.deny
    <2>1. Incoming.deny \in SUBSET Contacts /\ list.deny \in SUBSET Contacts
        BY <1>6, ReceivedType, AnswersHold DEF ListReceived, TypeOK, Lists
    <2>2. returned \in SUBSET Contacts
        BY <2>1 DEF Updated, Symmetric
    <2>3. Presence("return", returned) \in Requests
        BY <2>2, RequestsAre
    <2>4. /\ up' = up \/ up' = Append(up, Presence("return", returned))
          /\ UNCHANGED <<server, available, hist>>
          /\ Incoming.type = "list" /\ list'.made /\ list'.deny = Incoming.deny
        BY <1>6 DEF ListReceived
    <2> HIDE DEF returned
    <2>5. (Holds(up, "get") => Holds(up', "get")) /\ (Holds(up, "set") => Holds(up', "set"))
        <3>1. CASE up' = up
            BY <3>1
        <3>2. CASE up' = Append(up, Presence("return", returned))
            BY <1>0, <2>3, <3>2, HoldsAppend
        <3> QED BY <2>4, <3>1, <3>2
    <2>6. Due => Due'
        BY <1>1, <2>4, <2>5 DEF Due
    <2>7. Answered => Answered'
        BY <1>1, <2>4 DEF Answered
    <2> QED BY <2>4, <2>6, <2>7 DEF CopySettles
<1> QED BY <1>2, <1>3, <1>4, <1>5, <1>6 DEF ClientTakes

\* Every step.
LEMMA CopyStep ==
    ASSUME TypeOK, CopySettles, [Next]_vars PROVE CopySettles'
<1>0. up \in Seq(Requests) /\ down \in Seq(Answers) /\ hist \in Hists
    BY DEF TypeOK
<1>1. CASE Login \/ Disconnect
    BY <1>1 DEF Login, Disconnect, TypeOK, CopySettles
<1>2. ASSUME NEW j \in Contacts, SetContactBlocked(j) PROVE CopySettles'
    <2>1. UNCHANGED <<server, list, available, down>> /\ hist.changes < MaxChanges
        BY <1>2 DEF SetContactBlocked
    <2>2. CASE list.made
        <3> DEFINE sent == Blocked(j, j \notin list.deny)
        <3>1. sent \in Seq(Requests) /\ Holds(sent, "set")
            BY BlockedAre, Zenon
        <3>2. up' = up \o sent
            BY <1>2, <2>2 DEF SetContactBlocked
        <3> HIDE DEF sent
        <3>3. Holds(up', "set")
            BY <1>0, <3>1, <3>2, HoldsConcat
        <3> QED BY <3>3 DEF CopySettles, Due
    <2>3. CASE ~list.made
        <3> DEFINE w == hist.wish \cup {j}
                   n == hist.changes + 1
        <3>1. up' = up /\ hist' = [hist EXCEPT !.wish = w, !.changes = n, !.overlapped = TRUE]
            BY <1>2, <2>3, Zenon DEF SetContactBlocked
        <3> HIDE DEF w, n
        <3>2. hist'.refused = hist.refused
            BY <1>0, <3>1, HistFields
        <3> QED BY <2>1, <3>1, <3>2 DEF CopySettles, Due, Answered
    <2> QED BY <2>2, <2>3
<1>3. ASSUME NEW j \in Contacts, OtherSetsBlocked(j) PROVE CopySettles'
    <2>1. SUFFICES ASSUME available PROVE Holds(down', "push")
        BY <1>3 DEF OtherSetsBlocked, CopySettles, Due
    <2>2. online
        BY <2>1 DEF TypeOK
    <2>3. Stanza("push") \in Answers /\ Stanza("push").type = "push"
        BY AnswersAre
    <2>4. down' = Append(down, Stanza("push"))
        BY <1>3, <2>2 DEF OtherSetsBlocked
    <2> QED BY <1>0, <2>3, <2>4, HoldsAppend
<1>4. CASE UNCHANGED vars
    BY <1>4 DEF vars, CopySettles, Due, Answered
<1> QED BY <1>1, <1>2, <1>3, <1>4, ServerCopy, ClientCopy DEF Next

----------------------------------------------------------------------------
(* What a contact sees, and what is shown of it: the queues.               *)

Of(q, t) == {i \in DOMAIN q : q[i].type = t}

\* Once a list being set says of j what the user wants, so do all behind it.
Reaches(q, deny, wish, j) ==
    \A i, k \in Of(q, "set") :
        i <= k /\ ((j \in deny <=> j \in wish) \/ (j \in q[i].deny <=> j \in wish))
            => (j \in q[k].deny <=> j \in wish)
\* A list that newly denies j finds j warned: the presence is before it, or was
\* taken.
Warned(q, deny, s, j) ==
    j \notin deny => \A i \in Of(q, "set") : j \in q[i].deny =>
        \/ \E k \in Of(q, "set") : k < i /\ j \in q[k].deny
        \/ i > 1 /\ i - 1 \in Of(q, "unavailable") /\ j \in q[i - 1].who
        \/ i = 1 /\ j \notin s
\* While the server is to be told otherwise of j, the copy and all that comes to
\* it say what the server does.
Consistent(q, copy, deny, wish, j) ==
    ~(j \in deny <=> j \in wish) =>
        /\ j \in copy <=> j \in deny
        /\ \A i \in Of(q, "list") : j \in q[i].deny <=> j \in deny
\* Whatever shows j comes to a copy that does not deny j.
Clean(q, copy, sh, j) ==
    /\ j \in sh => j \notin copy
    /\ \A p \in Of(q, "presence") : j \in q[p].who =>
        /\ j \in copy => \E k \in Of(q, "list") : k < p /\ j \notin q[k].deny
        /\ \A i \in Of(q, "list") : i < p /\ j \in q[i].deny =>
               \E k \in Of(q, "list") : i < k /\ k < p /\ j \notin q[k].deny
\* The copy denies j, will do so, or it no longer does and j gets its presence back.
Returning(u, q, copy, j) ==
    \/ j \in copy
    \/ \E i \in Of(q, "list") : j \in q[i].deny
    \/ \E i \in Of(u, "return") : j \in u[i].who
Shows(q, j) == \E i \in Of(q, "presence") : j \in q[i].who

\* r has the stanzas of type t that are behind the head of q.
Shifted(q, r, t) ==
    /\ \A i \in Of(r, t) : /\ i \in Nat /\ i >= 1
                           /\ i + 1 \in Of(q, t) /\ r[i] = q[i + 1]
    /\ \A i \in Of(q, t) : /\ i \in Nat /\ i >= 1
                           /\ \/ i = 1 /\ q[i] = Head(q) /\ Head(q).type = t
                              \/ i > 1 /\ i - 1 \in Of(r, t) /\ r[i - 1] = q[i]
    /\ Head(q).type = t => 1 \in Of(q, t)
    /\ q[1] = Head(q)
LEMMA TailOf ==
    ASSUME NEW S, NEW q \in Seq(S), q # <<>>, NEW t
    PROVE  Shifted(q, Tail(q), t)
<1>1. DOMAIN q = 1..Len(q) /\ DOMAIN Tail(q) = 1..(Len(q) - 1) /\ Len(q) \in Nat
    OBVIOUS
<1>2. ASSUME NEW i \in Of(Tail(q), t)
      PROVE  i \in Nat /\ i >= 1 /\ i + 1 \in Of(q, t) /\ Tail(q)[i] = q[i + 1]
    <2>1. i \in DOMAIN Tail(q) /\ Tail(q)[i].type = t
        BY DEF Of
    <2>2. i + 1 \in DOMAIN q /\ Tail(q)[i] = q[i + 1]
        BY <2>1, HeadAndTail
    <2> QED BY <1>1, <2>1, <2>2 DEF Of
<1>3. ASSUME NEW i \in Of(q, t)
      PROVE  /\ i \in Nat /\ i >= 1
             /\ \/ i = 1 /\ q[i] = Head(q) /\ Head(q).type = t
                \/ i > 1 /\ i - 1 \in Of(Tail(q), t) /\ Tail(q)[i - 1] = q[i]
    <2>1. i \in DOMAIN q /\ q[i].type = t /\ i \in Nat /\ i >= 1
        BY <1>1 DEF Of
    <2>2. CASE i = 1
        BY <2>1, <2>2, HeadAndTail
    <2>3. CASE i # 1
        <3>1. i - 1 \in DOMAIN Tail(q) /\ Tail(q)[i - 1] = q[i]
            BY <2>1, <2>3, HeadAndTail
        <3> QED BY <2>1, <2>3, <3>1 DEF Of
    <2> QED BY <2>2, <2>3
<1>4. Head(q).type = t => 1 \in Of(q, t)
    BY HeadAndTail DEF Of
<1> QED BY <1>2, <1>3, <1>4, HeadAndTail DEF Shifted

\* u has the stanzas of type t of q, of which there are n in all, and of r behind them.
Joined(q, n, r, u, t) ==
    /\ \A i \in Of(q, t) : i \in Nat /\ i >= 1 /\ i <= n /\ i \in Of(u, t) /\ u[i] = q[i]
    /\ \A i \in Of(r, t) : i \in Nat /\ i >= 1 /\ i + n \in Of(u, t) /\ u[i + n] = r[i]
    /\ \A i \in Of(u, t) : /\ i \in Nat /\ i >= 1
                           /\ \/ i <= n /\ i \in Of(q, t) /\ u[i] = q[i]
                              \/ i > n /\ i - n \in Of(r, t) /\ u[i] = r[i - n]
    /\ n \in Nat
LEMMA ConcatOf ==
    ASSUME NEW S, NEW q \in Seq(S), NEW r \in Seq(S), NEW t
    PROVE  Joined(q, Len(q), r, q \o r, t)
<1>1. ASSUME NEW i \in Of(q, t)
      PROVE  i \in Nat /\ i >= 1 /\ i <= Len(q) /\ i \in Of(q \o r, t) /\ (q \o r)[i] = q[i]
    <2>1. i \in DOMAIN q /\ q[i].type = t
        BY DEF Of
    <2>2. (q \o r)[i] = q[i] /\ i \in DOMAIN (q \o r) /\ i \in Nat /\ i >= 1 /\ i <= Len(q)
        BY <2>1, Concatenated
    <2> QED BY <2>1, <2>2 DEF Of
<1>2. ASSUME NEW i \in Of(r, t)
      PROVE  i \in Nat /\ i >= 1 /\ i + Len(q) \in Of(q \o r, t) /\ (q \o r)[i + Len(q)] = r[i]
    <2>1. i \in DOMAIN r /\ r[i].type = t
        BY DEF Of
    <2>2. (q \o r)[i + Len(q)] = r[i] /\ i + Len(q) \in DOMAIN (q \o r) /\ i \in Nat /\ i >= 1
        BY <2>1, Concatenated
    <2> QED BY <2>1, <2>2 DEF Of
<1>3. ASSUME NEW i \in Of(q \o r, t)
      PROVE  /\ i \in Nat /\ i >= 1
             /\ \/ i <= Len(q) /\ i \in Of(q, t) /\ (q \o r)[i] = q[i]
                \/ i > Len(q) /\ i - Len(q) \in Of(r, t) /\ (q \o r)[i] = r[i - Len(q)]
    <2>1. i \in DOMAIN (q \o r) /\ (q \o r)[i].type = t /\ i \in Nat /\ i >= 1 /\ Len(q) \in Nat
        BY Concatenated DEF Of
    <2>2. CASE i <= Len(q)
        <3>1. i \in DOMAIN q
            BY <2>1, <2>2, Concatenated
        <3>2. (q \o r)[i] = q[i]
            BY <3>1, Concatenated
        <3> QED BY <2>1, <2>2, <3>1, <3>2 DEF Of
    <2>3. CASE i > Len(q)
        <3>1. i - Len(q) \in DOMAIN r /\ (i - Len(q)) + Len(q) = i
            BY <2>1, <2>3, Concatenated
        <3>2. (q \o r)[i] = r[i - Len(q)]
            BY <3>1, Concatenated
        <3> QED BY <2>1, <2>3, <3>1, <3>2 DEF Of
    <2> QED BY <2>1, <2>2, <2>3
<1> QED BY <1>1, <1>2, <1>3, Concatenated DEF Joined

\* u has the stanzas of type t of q and x behind them, at n + 1.
Appended(q, n, x, u, t) ==
    /\ \A i \in Of(q, t) : i \in Nat /\ i >= 1 /\ i <= n /\ i \in Of(u, t) /\ u[i] = q[i]
    /\ x.type = t => n + 1 \in Of(u, t)
    /\ \A i \in Of(u, t) : /\ i \in Nat /\ i >= 1
                           /\ \/ i <= n /\ i \in Of(q, t) /\ u[i] = q[i]
                              \/ i = n + 1 /\ x.type = t
    /\ n \in Nat /\ u[n + 1] = x
LEMMA AppendOf ==
    ASSUME NEW S, NEW q \in Seq(S), NEW x \in S, NEW t
    PROVE  Appended(q, Len(q), x, Append(q, x), t)
<1> DEFINE r == <<x>>
           u == Append(q, x)
           n == Len(q)
<1>1. u = q \o r /\ r \in Seq(S) /\ DOMAIN r = {1} /\ r[1] = x
    BY AppendIs
<1>2. n \in Nat /\ u[n + 1] = x /\ 1 + n = n + 1
    OBVIOUS
<1>3. Joined(q, n, r, u, t)
    BY <1>1, ConcatOf
<1> HIDE DEF r, u, n
<1>4. /\ x.type = t => 1 \in Of(r, t)
      /\ \A i \in Of(r, t) : i = 1 /\ x.type = t
    BY <1>1 DEF Of
<1>5. x.type = t => n + 1 \in Of(u, t)
    BY <1>2, <1>3, <1>4 DEF Joined
<1>6. ASSUME NEW i \in Of(u, t), i > n, i - n \in Of(r, t), i \in Nat
      PROVE  i = n + 1 /\ x.type = t
    <2>1. i - n = 1 /\ x.type = t
        BY <1>4, <1>6
    <2> QED BY <1>2, <1>6, <2>1
<1>7. Appended(q, n, x, u, t)
    BY <1>2, <1>3, <1>5, <1>6 DEF Joined, Appended
<1> QED BY <1>7 DEF u, n

\* The head of the queue to the server is taken.
LEMMA ReachesTail ==
    ASSUME NEW S, NEW q \in Seq(S), q # <<>>, NEW deny, NEW wish, NEW j,
           Reaches(q, deny, wish, j)
    PROVE  /\ Head(q).type # "set" => Reaches(Tail(q), deny, wish, j)
           /\ Head(q).type = "set" => Reaches(Tail(q), Head(q).deny, wish, j)
<1> DEFINE r == Tail(q)
<1>t. Shifted(q, r, "set")
    BY TailOf
<1> HIDE DEF r
<1>1. ASSUME NEW i \in Of(r, "set"), NEW k \in Of(r, "set"), i <= k,
             (j \in deny <=> j \in wish) \/ (j \in r[i].deny <=> j \in wish)
      PROVE  j \in r[k].deny <=> j \in wish
    <2>1. /\ i + 1 \in Of(q, "set") /\ r[i] = q[i + 1] /\ i \in Nat
          /\ k + 1 \in Of(q, "set") /\ r[k] = q[k + 1] /\ k \in Nat
        BY <1>t DEF Shifted
    <2>2. i + 1 <= k + 1
        BY <1>1, <2>1
    <2> QED BY <1>1, <2>1, <2>2 DEF Reaches
<1>2. ASSUME Head(q).type = "set",
             NEW i \in Of(r, "set"), NEW k \in Of(r, "set"), i <= k,
             (j \in Head(q).deny <=> j \in wish) \/ (j \in r[i].deny <=> j \in wish)
      PROVE  j \in r[k].deny <=> j \in wish
    <2>1. CASE j \in r[i].deny <=> j \in wish
        BY <1>1, <1>2, <2>1
    <2>2. CASE j \in Head(q).deny <=> j \in wish
        <3>1. 1 \in Of(q, "set") /\ q[1] = Head(q) /\ k + 1 \in Of(q, "set")
              /\ r[k] = q[k + 1] /\ k \in Nat
            BY <1>2, <1>t DEF Shifted
        <3>2. 1 <= k + 1
            BY <3>1
        <3> QED BY <2>2, <3>1, <3>2 DEF Reaches
    <2> QED BY <1>2, <2>1, <2>2
<1> QED BY <1>1, <1>2 DEF Reaches, r

\* Lists are sent behind it that all say what the user wants.
LEMMA ReachesConcat ==
    ASSUME NEW S, NEW q \in Seq(S), NEW r \in Seq(S), NEW deny, NEW wish, NEW j,
           \/ Reaches(q, deny, wish, j)
           \/ \A i \in Of(q, "set") : j \in q[i].deny <=> j \in deny,
           \A i \in Of(r, "set") : j \in r[i].deny <=> j \in wish
    PROVE  Reaches(q \o r, deny, wish, j)
<1> DEFINE u == q \o r
           n == Len(q)
<1>t. Joined(q, n, r, u, "set")
    BY ConcatOf
<1> HIDE DEF u, n
<1>1. ASSUME NEW i \in Of(u, "set"), NEW k \in Of(u, "set"), i <= k,
             (j \in deny <=> j \in wish) \/ (j \in u[i].deny <=> j \in wish)
      PROVE  j \in u[k].deny <=> j \in wish
    <2>1. /\ i \in Nat /\ k \in Nat /\ n \in Nat
          /\ i <= n => i \in Of(q, "set") /\ u[i] = q[i]
          /\ \/ k <= n /\ k \in Of(q, "set") /\ u[k] = q[k]
             \/ k > n /\ k - n \in Of(r, "set") /\ u[k] = r[k - n]
        BY <1>t DEF Joined
    <2>2. CASE k <= n
        <3>1. i \in Of(q, "set") /\ u[i] = q[i] /\ k \in Of(q, "set") /\ u[k] = q[k]
            BY <1>1, <2>1, <2>2
        <3> QED BY <1>1, <3>1 DEF Reaches
    <2>3. CASE k > n
        <3>1. k - n \in Of(r, "set") /\ u[k] = r[k - n]
            BY <2>1, <2>3
        <3> QED BY <3>1
    <2> QED BY <2>1, <2>2, <2>3
<1> QED BY <1>1 DEF Reaches, u

\* A stanza that is no list is taken; who is warned is no longer seen by it.
LEMMA WarnedTail ==
    ASSUME NEW S, NEW q \in Seq(S), q # <<>>, NEW deny, NEW s, NEW s2, NEW j,
           Warned(q, deny, s, j), Head(q).type # "set",
           Head(q).type = "unavailable" /\ j \in Head(q).who /\ j \notin deny => j \notin s2
    PROVE  Warned(Tail(q), deny, s2, j)
<1> DEFINE r == Tail(q)
<1>t. Shifted(q, r, "set") /\ Shifted(q, r, "unavailable")
    BY TailOf
<1> HIDE DEF r
<1>1. SUFFICES ASSUME j \notin deny, NEW i \in Of(r, "set"), j \in r[i].deny
               PROVE  \/ \E k \in Of(r, "set") : k < i /\ j \in r[k].deny
                      \/ /\ i > 1 /\ i - 1 \in Of(r, "unavailable")
                         /\ j \in r[i - 1].who
                      \/ i = 1 /\ j \notin s2
    BY DEF Warned, r
<1>2. i \in Nat /\ i >= 1 /\ i + 1 \in Of(q, "set") /\ r[i] = q[i + 1] /\ (i + 1) - 1 = i
    BY <1>t DEF Shifted
<1>3. \/ \E k \in Of(q, "set") : k < i + 1 /\ j \in q[k].deny
      \/ i \in Of(q, "unavailable") /\ j \in q[i].who
    BY <1>1, <1>2 DEF Warned
<1>4. ASSUME NEW k \in Of(q, "set"), k < i + 1, j \in q[k].deny
      PROVE  \E m \in Of(r, "set") : m < i /\ j \in r[m].deny
    <2>1. k \in Nat /\ k - 1 \in Of(r, "set") /\ r[k - 1] = q[k]
        BY <1>4, <1>t DEF Shifted
    <2>2. k - 1 < i
        BY <1>2, <1>4, <2>1
    <2> QED BY <1>4, <2>1, <2>2
<1>5. ASSUME i \in Of(q, "unavailable"), j \in q[i].who
      PROVE  \/ i > 1 /\ i - 1 \in Of(r, "unavailable") /\ j \in r[i - 1].who
             \/ i = 1 /\ j \notin s2
    <2>1. \/ i = 1 /\ q[i] = Head(q) /\ Head(q).type = "unavailable"
          \/ i > 1 /\ i - 1 \in Of(r, "unavailable") /\ r[i - 1] = q[i]
        BY <1>5, <1>t DEF Shifted
    <2> QED BY <1>1, <1>5, <2>1
<1> QED BY <1>3, <1>4, <1>5

\* A list is taken: whom it newly denies has been warned.
LEMMA WarnedSet ==
    ASSUME NEW S, NEW q \in Seq(S), q # <<>>, NEW deny, NEW s, NEW j,
           Warned(q, deny, s, j), Head(q).type = "set",
           j \in deny /\ j \notin Head(q).deny => \A k \in Of(q, "set") : j \notin q[k].deny
    PROVE  /\ Warned(Tail(q), Head(q).deny, s, j)
           /\ j \in Head(q).deny => j \in deny \/ j \notin s
<1> DEFINE r == Tail(q)
<1>t. Shifted(q, r, "set") /\ Shifted(q, r, "unavailable")
    BY TailOf
<1> HIDE DEF r
<1>0. 1 \in Of(q, "set") /\ q[1] = Head(q)
    BY <1>t DEF Shifted
<1>1. ASSUME j \in Head(q).deny, j \notin deny PROVE j \notin s
    <2>1. \/ \E k \in Of(q, "set") : k < 1 /\ j \in q[k].deny
          \/ 1 > 1
          \/ 1 = 1 /\ j \notin s
        BY <1>0, <1>1 DEF Warned
    <2>2. \A k \in Of(q, "set") : k \in Nat /\ k >= 1
        BY <1>t DEF Shifted
    <2>3. \A k \in Of(q, "set") : ~(k < 1)
        BY <2>2
    <2> QED BY <2>1, <2>3
<1>2. ASSUME j \notin Head(q).deny, NEW i \in Of(r, "set"), j \in r[i].deny
      PROVE  \/ \E k \in Of(r, "set") : k < i /\ j \in r[k].deny
             \/ i > 1 /\ i - 1 \in Of(r, "unavailable") /\ j \in r[i - 1].who
             \/ i = 1 /\ j \notin s
    <2>1. /\ i \in Nat /\ i >= 1 /\ i + 1 \in Of(q, "set") /\ r[i] = q[i + 1]
          /\ (i + 1) - 1 = i
        BY <1>t DEF Shifted
    <2>2. j \notin deny
        BY <1>2, <2>1
    <2>3. \/ \E k \in Of(q, "set") : k < i + 1 /\ j \in q[k].deny
          \/ i \in Of(q, "unavailable") /\ j \in q[i].who
        BY <1>2, <2>1, <2>2 DEF Warned
    <2>4. ASSUME NEW k \in Of(q, "set"), k < i + 1, j \in q[k].deny
          PROVE  \E m \in Of(r, "set") : m < i /\ j \in r[m].deny
        <3>1. k # 1
            BY <1>0, <1>2, <2>4
        <3>2. k \in Nat /\ k - 1 \in Of(r, "set") /\ r[k - 1] = q[k]
            BY <3>1, <1>t DEF Shifted
        <3>3. k - 1 < i
            BY <2>1, <2>4, <3>2
        <3> QED BY <2>4, <3>2, <3>3
    <2>5. ASSUME i \in Of(q, "unavailable"), j \in q[i].who
          PROVE  i > 1 /\ i - 1 \in Of(r, "unavailable") /\ j \in r[i - 1].who
        <3>1. \/ i = 1 /\ Head(q).type = "unavailable"
              \/ i > 1 /\ i - 1 \in Of(r, "unavailable") /\ r[i - 1] = q[i]
            BY <2>5, <1>t DEF Shifted
        <3> QED BY <2>5, <3>1
    <2> QED BY <2>3, <2>4, <2>5
<1>3. Warned(r, Head(q).deny, s, j)
    BY <1>2 DEF Warned
<1> QED BY <1>1, <1>3 DEF r

\* Lists are sent behind that deny j only when the server does, or warn first.
LEMMA WarnedConcat ==
    ASSUME NEW S, NEW q \in Seq(S), NEW r \in Seq(S), NEW deny, NEW s, NEW j,
           Warned(q, deny, s, j),
           \A i \in Of(r, "set") : \/ j \notin r[i].deny \/ j \in deny
                                   \/ i > 1 /\ i - 1 \in Of(r, "unavailable") /\ j \in r[i - 1].who
    PROVE  Warned(q \o r, deny, s, j)
<1> DEFINE u == q \o r
           n == Len(q)
<1>t. Joined(q, n, r, u, "set") /\ Joined(q, n, r, u, "unavailable")
    BY ConcatOf
<1> HIDE DEF u, n
<1>1. SUFFICES ASSUME j \notin deny, NEW i \in Of(u, "set"), j \in u[i].deny
               PROVE  \/ \E k \in Of(u, "set") : k < i /\ j \in u[k].deny
                      \/ i > 1 /\ i - 1 \in Of(u, "unavailable") /\ j \in u[i - 1].who
                      \/ i = 1 /\ j \notin s
    BY DEF Warned, u
<1>2. /\ i \in Nat /\ i >= 1 /\ n \in Nat
      /\ \/ i <= n /\ i \in Of(q, "set") /\ u[i] = q[i]
         \/ i > n /\ i - n \in Of(r, "set") /\ u[i] = r[i - n]
    BY <1>t DEF Joined
<1>4. CASE i <= n
    <2>1. i \in Of(q, "set") /\ j \in q[i].deny
        BY <1>1, <1>2, <1>4
    <2>2. \/ \E k \in Of(q, "set") : k < i /\ j \in q[k].deny
          \/ i > 1 /\ i - 1 \in Of(q, "unavailable") /\ j \in q[i - 1].who
          \/ i = 1 /\ j \notin s
        BY <1>1, <2>1 DEF Warned
    <2> QED BY <1>t, <2>2 DEF Joined
<1>5. CASE i > n
    <2> DEFINE m == i - n
    <2>1. m \in Of(r, "set") /\ j \in r[m].deny /\ m \in Nat
        BY <1>1, <1>2, <1>5
    <2>2. m > 1 /\ m - 1 \in Of(r, "unavailable") /\ j \in r[m - 1].who
        BY <1>1, <2>1
    <2>3. (m - 1) + n = i - 1 /\ i > 1
        BY <1>2, <2>1, <2>2
    <2> HIDE DEF m
    <2> QED BY <1>t, <2>2, <2>3 DEF Joined
<1> QED BY <1>2, <1>4, <1>5

\* A stanza that is no list comes to the client.
LEMMA CleanTail ==
    ASSUME NEW S, NEW q \in Seq(S), q # <<>>, NEW copy, NEW sh, NEW sh2, NEW j,
           Clean(q, copy, sh, j), Head(q).type # "list",
           j \in sh2 => j \in sh \/ (Head(q).type = "presence" /\ j \in Head(q).who)
    PROVE  Clean(Tail(q), copy, sh2, j)
<1> DEFINE r == Tail(q)
<1>t. Shifted(q, r, "list") /\ Shifted(q, r, "presence")
    BY TailOf
<1> HIDE DEF r
<1>1. ASSUME j \in sh2 PROVE j \notin copy
    <2>1. CASE j \in sh
        BY <2>1 DEF Clean
    <2>2. CASE Head(q).type = "presence" /\ j \in Head(q).who
        <3>1. 1 \in Of(q, "presence") /\ j \in q[1].who
            BY <1>t, <2>2 DEF Shifted
        <3>2. j \in copy => \E k \in Of(q, "list") : k < 1
            BY <3>1 DEF Clean
        <3>3. \A k \in Of(q, "list") : k \in Nat /\ k >= 1
            BY <1>t DEF Shifted
        <3>4. \A k \in Of(q, "list") : ~(k < 1)
            BY <3>3
        <3> QED BY <3>2, <3>4
    <2> QED BY <1>1, <2>1, <2>2
<1>2. ASSUME NEW p \in Of(r, "presence"), j \in r[p].who
      PROVE  /\ j \in copy => \E k \in Of(r, "list") : k < p /\ j \notin r[k].deny
             /\ \A i \in Of(r, "list") : i < p /\ j \in r[i].deny =>
                    \E k \in Of(r, "list") : i < k /\ k < p /\ j \notin r[k].deny
    <2>1. p \in Nat /\ p + 1 \in Of(q, "presence") /\ j \in q[p + 1].who
        BY <1>2, <1>t DEF Shifted
    <2>2. ASSUME NEW k \in Of(q, "list")
          PROVE  k \in Nat /\ k - 1 \in Of(r, "list") /\ r[k - 1] = q[k]
        BY <1>t, <2>2 DEF Shifted
    <2>3. ASSUME j \in copy PROVE \E k \in Of(r, "list") : k < p /\ j \notin r[k].deny
        <3>1. PICK k \in Of(q, "list") : k < p + 1 /\ j \notin q[k].deny
            BY <2>1, <2>3 DEF Clean
        <3>2. k \in Nat /\ k - 1 \in Of(r, "list") /\ r[k - 1] = q[k]
            BY <2>2
        <3>3. k - 1 < p
            BY <2>1, <3>1, <3>2
        <3> QED BY <3>1, <3>2, <3>3
    <2>4. ASSUME NEW i \in Of(r, "list"), i < p, j \in r[i].deny
          PROVE  \E k \in Of(r, "list") : i < k /\ k < p /\ j \notin r[k].deny
        <3>1. i \in Nat /\ i + 1 \in Of(q, "list") /\ r[i] = q[i + 1]
            BY <1>t DEF Shifted
        <3>2. i + 1 < p + 1 /\ j \in q[i + 1].deny
            BY <2>1, <2>4, <3>1
        <3>3. PICK k \in Of(q, "list") : i + 1 < k /\ k < p + 1 /\ j \notin q[k].deny
            BY <2>1, <3>1, <3>2 DEF Clean
        <3>4. k \in Nat /\ k - 1 \in Of(r, "list") /\ r[k - 1] = q[k]
            BY <2>2
        <3>5. i < k - 1 /\ k - 1 < p
            BY <2>1, <3>1, <3>3, <3>4
        <3> QED BY <3>3, <3>4, <3>5
    <2> QED BY <2>3, <2>4
<1> QED BY <1>1, <1>2 DEF Clean, r

\* A list comes: whom it changes is no longer shown.
LEMMA CleanList ==
    ASSUME NEW S, NEW q \in Seq(S), q # <<>>, NEW copy, NEW sh, NEW sh2, NEW j,
           Clean(q, copy, sh, j), Head(q).type = "list",
           j \in sh2 => j \in sh /\ (j \in copy <=> j \in Head(q).deny)
    PROVE  Clean(Tail(q), Head(q).deny, sh2, j)
<1> DEFINE r == Tail(q)
<1>t. Shifted(q, r, "list") /\ Shifted(q, r, "presence")
    BY TailOf
<1> HIDE DEF r
<1>0. 1 \in Of(q, "list") /\ q[1] = Head(q)
    BY <1>t DEF Shifted
<1>1. j \in sh2 => j \notin Head(q).deny
    BY DEF Clean
<1>2. ASSUME NEW p \in Of(r, "presence"), j \in r[p].who
      PROVE  /\ j \in Head(q).deny => \E k \in Of(r, "list") : k < p /\ j \notin r[k].deny
             /\ \A i \in Of(r, "list") : i < p /\ j \in r[i].deny =>
                    \E k \in Of(r, "list") : i < k /\ k < p /\ j \notin r[k].deny
    <2>1. p \in Nat /\ p >= 1 /\ p + 1 \in Of(q, "presence") /\ j \in q[p + 1].who
        BY <1>2, <1>t DEF Shifted
    <2>2. ASSUME NEW i \in Of(q, "list"), i < p + 1, j \in q[i].deny, i \in Nat, i >= 1
          PROVE  \E k \in Of(r, "list") : i - 1 < k /\ k < p /\ j \notin r[k].deny
        <3>1. PICK k \in Of(q, "list") : i < k /\ k < p + 1 /\ j \notin q[k].deny
            BY <2>1, <2>2 DEF Clean
        <3>2. k \in Nat /\ k - 1 \in Of(r, "list") /\ r[k - 1] = q[k]
            <4>1. k \in Nat /\ (k = 1 \/ (k - 1 \in Of(r, "list") /\ r[k - 1] = q[k]))
                BY <1>t DEF Shifted
            <4> QED BY <2>2, <3>1, <4>1
        <3>3. i - 1 < k - 1 /\ k - 1 < p
            BY <2>1, <2>2, <3>1, <3>2
        <3> QED BY <3>1, <3>2, <3>3
    <2>3. ASSUME j \in Head(q).deny
          PROVE  \E k \in Of(r, "list") : k < p /\ j \notin r[k].deny
        <3>1. 1 < p + 1 /\ 1 \in Nat /\ 1 >= 1
            BY <2>1
        <3> QED BY <1>0, <2>2, <2>3, <3>1
    <2>4. ASSUME NEW i \in Of(r, "list"), i < p, j \in r[i].deny
          PROVE  \E k \in Of(r, "list") : i < k /\ k < p /\ j \notin r[k].deny
        <3>1. i \in Nat /\ i + 1 \in Of(q, "list") /\ r[i] = q[i + 1]
            BY <1>t DEF Shifted
        <3>2. i + 1 < p + 1 /\ j \in q[i + 1].deny /\ i + 1 \in Nat /\ i + 1 >= 1 /\ (i + 1) - 1 = i
            BY <2>1, <2>4, <3>1
        <3>3. \E k \in Of(r, "list") : (i + 1) - 1 < k /\ k < p /\ j \notin r[k].deny
            BY <2>2, <3>1, <3>2
        <3> QED BY <3>2, <3>3
    <2> QED BY <2>3, <2>4
<1> QED BY <1>1, <1>2 DEF Clean, r

\* Nothing denies j, and nothing on its way does.
LEMMA CleanNone ==
    ASSUME NEW q, NEW copy, NEW sh, NEW j,
           j \notin copy, \A i \in Of(q, "list") : j \notin q[i].deny
    PROVE  Clean(q, copy, sh, j)
BY DEF Clean

\* The server answers; a presence that shows j comes behind lists that do not deny it.
LEMMA CleanAppend ==
    ASSUME NEW S, NEW q \in Seq(S), NEW x \in S, NEW copy, NEW sh, NEW j,
           \/ Clean(q, copy, sh, j) /\ (x.type = "presence" => j \notin x.who)
           \/ j \notin copy /\ x.type # "list" /\ \A i \in Of(q, "list") : j \notin q[i].deny
    PROVE  Clean(Append(q, x), copy, sh, j)
<1> DEFINE u == Append(q, x)
           n == Len(q)
<1>t. Appended(q, n, x, u, "list") /\ Appended(q, n, x, u, "presence")
    BY AppendOf
<1> HIDE DEF u, n
<1>1. CASE Clean(q, copy, sh, j) /\ (x.type = "presence" => j \notin x.who)
    <2>1. j \in sh => j \notin copy
        BY <1>1 DEF Clean
    <2>2. ASSUME NEW p \in Of(u, "presence"), j \in u[p].who
          PROVE  /\ j \in copy => \E k \in Of(u, "list") : k < p /\ j \notin u[k].deny
                 /\ \A i \in Of(u, "list") : i < p /\ j \in u[i].deny =>
                        \E k \in Of(u, "list") : i < k /\ k < p /\ j \notin u[k].deny
        <3>1. p \in Of(q, "presence") /\ j \in q[p].who /\ p \in Nat /\ p <= n /\ n \in Nat
            BY <1>1, <1>t, <2>2 DEF Appended
        <3>2. \A k \in Of(q, "list") : k \in Of(u, "list") /\ u[k] = q[k]
            BY <1>t DEF Appended
        <3>3. ASSUME j \in copy PROVE \E k \in Of(u, "list") : k < p /\ j \notin u[k].deny
            <4>1. \E k \in Of(q, "list") : k < p /\ j \notin q[k].deny
                BY <1>1, <3>1, <3>3 DEF Clean
            <4> QED BY <3>2, <4>1
        <3>4. ASSUME NEW i \in Of(u, "list"), i < p, j \in u[i].deny
              PROVE  \E k \in Of(u, "list") : i < k /\ k < p /\ j \notin u[k].deny
            <4>1. i \in Nat /\ (i = n + 1 \/ (i \in Of(q, "list") /\ u[i] = q[i]))
                BY <1>t DEF Appended
            <4>2. i # n + 1
                BY <3>1, <3>4, <4>1
            <4>3. \E k \in Of(q, "list") : i < k /\ k < p /\ j \notin q[k].deny
                BY <1>1, <3>1, <3>4, <4>1, <4>2 DEF Clean
            <4> QED BY <3>2, <4>3
        <3> QED BY <3>3, <3>4
    <2> QED BY <2>1, <2>2 DEF Clean, u
<1>2. CASE j \notin copy /\ x.type # "list" /\ \A i \in Of(q, "list") : j \notin q[i].deny
    <2>1. \A i \in Of(u, "list") : j \notin u[i].deny
        BY <1>2, <1>t DEF Appended
    <2> QED BY <1>2, <2>1 DEF Clean, u
<1> QED BY <1>1, <1>2

\* What the copy says, and what is on its way to it.
LEMMA ConsistentTail ==
    ASSUME NEW S, NEW q \in Seq(S), q # <<>>, NEW copy, NEW deny, NEW wish, NEW j,
           Consistent(q, copy, deny, wish, j)
    PROVE  /\ Head(q).type # "list" => Consistent(Tail(q), copy, deny, wish, j)
           /\ Head(q).type = "list" => Consistent(Tail(q), Head(q).deny, deny, wish, j)
<1> DEFINE r == Tail(q)
<1>t. Shifted(q, r, "list")
    BY TailOf
<1> HIDE DEF r
<1>1. ASSUME ~(j \in deny <=> j \in wish), NEW i \in Of(r, "list")
      PROVE  j \in r[i].deny <=> j \in deny
    <2>1. i + 1 \in Of(q, "list") /\ r[i] = q[i + 1]
        BY <1>t DEF Shifted
    <2> QED BY <1>1, <2>1 DEF Consistent
<1>2. ASSUME ~(j \in deny <=> j \in wish), Head(q).type = "list"
      PROVE  j \in Head(q).deny <=> j \in deny
    <2>1. 1 \in Of(q, "list") /\ q[1] = Head(q)
        BY <1>2, <1>t DEF Shifted
    <2> QED BY <1>2, <2>1 DEF Consistent
<1> QED BY <1>1, <1>2 DEF Consistent, r
LEMMA ConsistentAppend ==
    ASSUME NEW S, NEW q \in Seq(S), NEW x \in S, NEW copy, NEW deny, NEW wish, NEW j,
           Consistent(q, copy, deny, wish, j),
           x.type = "list" => (j \in x.deny <=> j \in deny)
    PROVE  Consistent(Append(q, x), copy, deny, wish, j)
<1> DEFINE u == Append(q, x)
           n == Len(q)
<1>t. Appended(q, n, x, u, "list")
    BY AppendOf
<1> HIDE DEF u, n
<1>1. ASSUME ~(j \in deny <=> j \in wish), NEW i \in Of(u, "list")
      PROVE  j \in u[i].deny <=> j \in deny
    BY <1>1, <1>t DEF Appended, Consistent
<1> QED BY <1>1 DEF Consistent, u

\* The copy is to let j return, over every change of the queues.
LEMMA ReturningKept ==
    ASSUME NEW S, NEW u \in Seq(S), NEW T, NEW q \in Seq(T), NEW copy, NEW j,
           Returning(u, q, copy, j)
    PROVE  /\ u # <<>> /\ (Head(u).type = "return" => j \notin Head(u).who)
                  => Returning(Tail(u), q, copy, j)
           /\ \A r \in Seq(S) : Returning(u \o r, q, copy, j)
           /\ \A x \in T : Returning(u, Append(q, x), copy, j)
           /\ q # <<>> /\ Head(q).type # "list" => Returning(u, Tail(q), copy, j)
           /\ q # <<>> /\ Head(q).type = "list" /\ (j \in copy => j \in Head(q).deny)
                  => Returning(u, Tail(q), Head(q).deny, j)
<1>1. ASSUME u # <<>>, Head(u).type = "return" => j \notin Head(u).who
      PROVE  Returning(Tail(u), q, copy, j)
    <2>1. Shifted(u, Tail(u), "return")
        BY <1>1, TailOf
    <2>2. ASSUME NEW i \in Of(u, "return"), j \in u[i].who
          PROVE  i - 1 \in Of(Tail(u), "return") /\ Tail(u)[i - 1] = u[i]
        BY <1>1, <2>1, <2>2 DEF Shifted
    <2> QED BY <2>2 DEF Returning
<1>2. ASSUME NEW r \in Seq(S) PROVE Returning(u \o r, q, copy, j)
    <2>1. Joined(u, Len(u), r, u \o r, "return")
        BY ConcatOf
    <2>2. \A i \in Of(u, "return") : i \in Of(u \o r, "return") /\ (u \o r)[i] = u[i]
        BY <2>1 DEF Joined
    <2> QED BY <2>2 DEF Returning
<1>3. ASSUME NEW x \in T PROVE Returning(u, Append(q, x), copy, j)
    <2>1. Appended(q, Len(q), x, Append(q, x), "list")
        BY AppendOf
    <2>2. \A i \in Of(q, "list") : i \in Of(Append(q, x), "list") /\ Append(q, x)[i] = q[i]
        BY <2>1 DEF Appended
    <2> QED BY <2>2 DEF Returning
<1>4. ASSUME q # <<>>
      PROVE  /\ Head(q).type # "list" => Returning(u, Tail(q), copy, j)
             /\ Head(q).type = "list" /\ (j \in copy => j \in Head(q).deny)
                    => Returning(u, Tail(q), Head(q).deny, j)
    <2>1. Shifted(q, Tail(q), "list")
        BY <1>4, TailOf
    <2>2. \A i \in Of(q, "list") : \/ i = 1 /\ q[i] = Head(q) /\ Head(q).type = "list"
                                   \/ i - 1 \in Of(Tail(q), "list") /\ Tail(q)[i - 1] = q[i]
        BY <2>1 DEF Shifted
    <2> QED BY <2>2 DEF Returning
<1> QED BY <1>1, <1>2, <1>3, <1>4

\* A presence on its way stays there until it comes.
LEMMA ShowsKept ==
    ASSUME NEW T, NEW q \in Seq(T), NEW j
    PROVE  /\ Shows(q, j) /\ q # <<>> => \/ Shows(Tail(q), j)
                                         \/ Head(q).type = "presence" /\ j \in Head(q).who
           /\ \A x \in T : Shows(q, j) => Shows(Append(q, x), j)
           /\ \A x \in T : x.type = "presence" /\ j \in x.who => Shows(Append(q, x), j)
<1>1. ASSUME Shows(q, j), q # <<>>
      PROVE  Shows(Tail(q), j) \/ (Head(q).type = "presence" /\ j \in Head(q).who)
    <2>1. Shifted(q, Tail(q), "presence")
        BY <1>1, TailOf
    <2>2. \A i \in Of(q, "presence") :
              \/ i = 1 /\ q[i] = Head(q) /\ Head(q).type = "presence"
              \/ i - 1 \in Of(Tail(q), "presence") /\ Tail(q)[i - 1] = q[i]
        BY <2>1 DEF Shifted
    <2> QED BY <1>1, <2>2 DEF Shows
<1>2. ASSUME NEW x \in T
      PROVE  /\ Shows(q, j) => Shows(Append(q, x), j)
             /\ x.type = "presence" /\ j \in x.who => Shows(Append(q, x), j)
    <2>1. Appended(q, Len(q), x, Append(q, x), "presence")
        BY AppendOf
    <2>2. /\ \A i \in Of(q, "presence") : i \in Of(Append(q, x), "presence") /\ Append(q, x)[i] = q[i]
          /\ x.type = "presence" => /\ Len(q) + 1 \in Of(Append(q, x), "presence")
                                    /\ Append(q, x)[Len(q) + 1] = x
        BY <2>1 DEF Appended
    <2> QED BY <2>2 DEF Shows
<1> QED BY <1>1, <1>2

----------------------------------------------------------------------------
(* The session.                                                            *)

\* A stanza of type t2 is before each of type t.
Follows(q, t, t2) == \A i \in Of(q, t) : \E k \in Of(q, t2) : k < i

\* Outside a session nobody sees anybody; the initial presence is the first
\* stanza of one.
Opening ==
    /\ ~online => seen = {} /\ shown = {} /\ ~server.active
    /\ \A i \in Of(up, "presence") : i = 1 /\ seen = {}
    /\ \A i \in Of(down, "names") : down[i].made => server.made
\* Unless a request was refused, a list is made before it is made active, and
\* active before anybody is warned: until then everybody who may sees us.
Selected ==
    ~hist.refused =>
        /\ available => server.active \/ Of(up, "active") # {}
        /\ server.active \/ Follows(up, "unavailable", "active")
        /\ server.made \/ Follows(up, "active", "set")
        /\ online /\ Of(up, "presence") = {} /\ ~server.active /\ server.dflt # "blocked"
               => seen = Authorized
\* Each warning is followed at once by the list that denies whom it warned.
Announced(q) ==
    \A i \in Of(q, "unavailable") : i + 1 \in Of(q, "set") /\ q[i].who \subseteq q[i + 1].deny

\* The head is taken.
LEMMA FollowsTail ==
    ASSUME NEW S, NEW q \in Seq(S), q # <<>>, NEW t, NEW t2, Follows(q, t, t2)
    PROVE  /\ Head(q).type # t2 => Follows(Tail(q), t, t2)
           /\ Head(q).type # t
<1> DEFINE r == Tail(q)
<1>t. Shifted(q, r, t) /\ Shifted(q, r, t2)
    BY TailOf
<1> HIDE DEF r
<1>1. ASSUME Head(q).type # t2, NEW i \in Of(r, t) PROVE \E k \in Of(r, t2) : k < i
    <2>1. i \in Nat /\ i + 1 \in Of(q, t)
        BY <1>t DEF Shifted
    <2>2. PICK k \in Of(q, t2) : k < i + 1
        BY <2>1 DEF Follows
    <2>3. k \in Nat /\ k - 1 \in Of(r, t2)
        BY <1>1, <1>t DEF Shifted
    <2>4. k - 1 < i
        BY <2>1, <2>2, <2>3
    <2> QED BY <2>3, <2>4
<1>2. Head(q).type # t
    <2>1. SUFFICES ASSUME 1 \in Of(q, t) PROVE FALSE
        BY <1>t DEF Shifted
    <2>2. PICK k \in Of(q, t2) : k < 1
        BY <2>1 DEF Follows
    <2>3. k \in Nat /\ k >= 1
        BY <1>t DEF Shifted
    <2> QED BY <2>2, <2>3
<1> QED BY <1>1, <1>2 DEF Follows, r

\* Others are sent behind.
LEMMA FollowsConcat ==
    ASSUME NEW S, NEW q \in Seq(S), NEW r \in Seq(S), NEW t, NEW t2, Follows(q, t, t2),
           Of(r, t) = {} \/ Of(q, t2) # {} \/ Follows(r, t, t2)
    PROVE  Follows(q \o r, t, t2)
<1> DEFINE u == q \o r
           n == Len(q)
<1>t. Joined(q, n, r, u, t) /\ Joined(q, n, r, u, t2)
    BY ConcatOf
<1> HIDE DEF u, n
<1>1. ASSUME NEW i \in Of(u, t) PROVE \E k \in Of(u, t2) : k < i
    <2>1. i \in Nat /\ (i \in Of(q, t) \/ (i > n /\ i - n \in Of(r, t))) /\ n \in Nat
        BY <1>t DEF Joined
    <2>2. CASE i \in Of(q, t)
        <3>1. PICK k \in Of(q, t2) : k < i
            BY <2>2 DEF Follows
        <3> QED BY <1>t, <3>1 DEF Joined
    <2>3. CASE i > n /\ i - n \in Of(r, t)
        <3>1. CASE Of(q, t2) # {}
            <4>1. PICK k \in Of(q, t2) : TRUE
                BY <3>1
            <4>2. k \in Nat /\ k <= n /\ k \in Of(u, t2)
                BY <1>t DEF Joined
            <4>3. k < i
                BY <2>1, <2>3, <4>2
            <4> QED BY <4>2, <4>3
        <3>2. CASE Follows(r, t, t2)
            <4>1. PICK k \in Of(r, t2) : k < i - n
                BY <2>3, <3>2 DEF Follows
            <4>2. k \in Nat /\ k + n \in Of(u, t2)
                BY <1>t DEF Joined
            <4>3. k + n < i
                BY <2>1, <4>1, <4>2
            <4> QED BY <4>2, <4>3
        <3> QED BY <2>3, <3>1, <3>2
    <2> QED BY <2>1, <2>2, <2>3
<1> QED BY <1>1 DEF Follows, u

\* Which types a queue with others behind it has.
LEMMA NoneConcat ==
    ASSUME NEW S, NEW q \in Seq(S), NEW r \in Seq(S), NEW t
    PROVE  Of(q \o r, t) = {} <=> Of(q, t) = {} /\ Of(r, t) = {}
<1> DEFINE u == q \o r
           n == Len(q)
<1>t. Joined(q, n, r, u, t)
    BY ConcatOf
<1> HIDE DEF u, n
<1>1. Of(u, t) = {} <=> Of(q, t) = {} /\ Of(r, t) = {}
    BY <1>t DEF Joined
<1> QED BY <1>1 DEF u
LEMMA NoneTail ==
    ASSUME NEW S, NEW q \in Seq(S), q # <<>>, NEW t
    PROVE  Of(q, t) = {} <=> Of(Tail(q), t) = {} /\ Head(q).type # t
<1> DEFINE r == Tail(q)
<1>t. Shifted(q, r, t)
    BY TailOf
<1> HIDE DEF r
<1>1. Of(q, t) = {} <=> Of(r, t) = {} /\ Head(q).type # t
    BY <1>t DEF Shifted
<1> QED BY <1>1 DEF r

\* Short queues.
LEMMA PairIs ==
    ASSUME NEW S, NEW a \in S, NEW b \in S
    PROVE  LET r == <<a>> \o <<b>>
           IN  r \in Seq(S) /\ DOMAIN r = {1, 2} /\ Len(r) = 2 /\ r[1] = a /\ r[2] = b
<1>1. /\ <<a>> \in Seq(S) /\ Len(<<a>>) = 1 /\ DOMAIN <<a>> = {1} /\ <<a>>[1] = a
      /\ <<b>> \in Seq(S) /\ Len(<<b>>) = 1 /\ DOMAIN <<b>> = {1} /\ <<b>>[1] = b
    OBVIOUS
<1> DEFINE p == <<a>>
           q == <<b>>
<1> HIDE DEF p, q
<1>2. /\ p \in Seq(S) /\ Len(p) = 1 /\ DOMAIN p = {1} /\ p[1] = a
      /\ q \in Seq(S) /\ Len(q) = 1 /\ DOMAIN q = {1} /\ q[1] = b
    BY <1>1, Zenon DEF p, q
<1>3. /\ p \o q \in Seq(S) /\ DOMAIN (p \o q) = 1..2 /\ Len(p \o q) = 2
      /\ (p \o q)[1] = p[1] /\ (p \o q)[1 + 1] = q[1]
    BY <1>2, Concatenated
<1>4. 1..2 = {1, 2} /\ 1 + 1 = 2
    OBVIOUS
<1> QED BY <1>2, <1>3, <1>4, Zenon DEF p, q
LEMMA TripleIs ==
    ASSUME NEW S, NEW a \in S, NEW b \in S, NEW c \in S
    PROVE  LET r == (<<a>> \o <<b>>) \o <<c>>
           IN  r \in Seq(S) /\ DOMAIN r = {1, 2, 3} /\ r[1] = a /\ r[2] = b /\ r[3] = c
<1> DEFINE p == <<a>> \o <<b>>
           q == <<c>>
<1>1. p \in Seq(S) /\ Len(p) = 2 /\ DOMAIN p = {1, 2} /\ p[1] = a /\ p[2] = b
    BY PairIs
<1>2. q \in Seq(S) /\ Len(q) = 1 /\ DOMAIN q = {1} /\ q[1] = c
    OBVIOUS
<1> HIDE DEF p, q
<1>3. /\ p \o q \in Seq(S) /\ DOMAIN (p \o q) = 1..3
      /\ (p \o q)[1] = p[1] /\ (p \o q)[2] = p[2] /\ (p \o q)[1 + 2] = q[1]
    <2>1. /\ p \o q \in Seq(S) /\ DOMAIN (p \o q) = 1..(Len(p) + Len(q))
          /\ \A i \in DOMAIN p : (p \o q)[i] = p[i]
          /\ \A i \in DOMAIN q : (p \o q)[i + Len(p)] = q[i]
        <3>1. p \in Seq(S) /\ q \in Seq(S)
            BY <1>1, <1>2
        <3> QED BY <3>1, Concatenated
    <2>2. Len(p) + Len(q) = 3
        BY <1>1, <1>2
    <2> QED BY <1>1, <1>2, <2>1, <2>2
<1>4. 1..3 = {1, 2, 3} /\ 1 + 2 = 3
    OBVIOUS
<1> QED BY <1>1, <1>2, <1>3, <1>4, Zenon DEF p, q
LEMMA NoneAround ==
    ASSUME NEW S, NEW a \in S
    PROVE  <<>> \o <<a>> = <<a>> /\ <<a>> \o <<>> = <<a>>
OBVIOUS

\* What setContactBlocked sends, in its order.
LEMMA BlockedOrder ==
    ASSUME TypeOK, NEW j \in Contacts, NEW blocked \in BOOLEAN
    PROVE  LET r == Blocked(j, blocked)
           IN  /\ r \in Seq(Requests)
               /\ \A i \in Of(r, "set") : /\ r[i].deny = Replacement(j)
                                          /\ blocked /\ j \in Authorized =>
                                                 /\ i > 1 /\ i - 1 \in Of(r, "unavailable")
                                                 /\ r[i - 1].who = {j}
               /\ \A i \in Of(r, "unavailable") : /\ i + 1 \in Of(r, "set") /\ r[i].who = {j}
                                                  /\ blocked
               /\ \A t \in {"presence", "return", "active"} : Of(r, t) = {}
<1> DEFINE r == Blocked(j, blocked)
           u == Presence("unavailable", {j})
           x == SetList(Replacement(j))
<1>0. Replacement(j) \in SUBSET Contacts /\ {j} \in SUBSET Contacts
    BY DEF Replacement, Symmetric, TypeOK, Lists
<1>1. /\ u \in Requests /\ u.type = "unavailable" /\ u.who = {j}
      /\ x \in Requests /\ x.type = "set" /\ x.deny = Replacement(j)
    BY <1>0, RequestsAre
<1>2. \/ blocked /\ j \in Authorized /\ r = <<u>> \o <<x>>
      \/ ~(blocked /\ j \in Authorized) /\ r = <<>> \o <<x>>
    BY DEF Blocked
<1>3. <<>> \o <<x>> = <<x>>
    BY <1>1, NoneAround, Zenon
<1>4. \/ blocked /\ j \in Authorized /\ r = <<u>> \o <<x>>
      \/ ~(blocked /\ j \in Authorized) /\ r = <<x>>
    BY <1>2, <1>3
<1> HIDE DEF u, x, r
<1>5. CASE blocked /\ j \in Authorized /\ r = <<u>> \o <<x>>
    <2>1. r \in Seq(Requests) /\ DOMAIN r = {1, 2} /\ r[1] = u /\ r[2] = x
        <3>1. LET s == <<u>> \o <<x>>
              IN  s \in Seq(Requests) /\ DOMAIN s = {1, 2} /\ s[1] = u /\ s[2] = x
            BY <1>1, PairIs
        <3> QED BY <1>5, <3>1, Zenon
    <2>2. /\ \A i \in Of(r, "set") : i = 2
          /\ \A i \in Of(r, "unavailable") : i = 1
          /\ 2 \in Of(r, "set") /\ 1 \in Of(r, "unavailable")
          /\ \A t \in {"presence", "return", "active"} : Of(r, t) = {}
        BY <1>1, <2>1 DEF Of
    <2>3. 2 > 1 /\ 2 - 1 = 1 /\ 1 + 1 = 2
        OBVIOUS
    <2> QED BY <1>1, <1>5, <2>1, <2>2, <2>3, Zenon DEF r
<1>6. CASE ~(blocked /\ j \in Authorized) /\ r = <<x>>
    <2>1. r \in Seq(Requests) /\ DOMAIN r = {1} /\ r[1] = x
        BY <1>1, <1>6
    <2>2. /\ \A i \in Of(r, "set") : i = 1
          /\ Of(r, "unavailable") = {}
          /\ \A t \in {"presence", "return", "active"} : Of(r, t) = {}
        BY <1>1, <2>1 DEF Of
    <2> QED BY <1>1, <1>6, <2>1, <2>2 DEF r
<1> QED BY <1>4, <1>5, <1>6

\* What listsReceived sends, in its order.
LEMMA RequestsForOrder ==
    ASSUME NEW made \in BOOLEAN, NEW dflt
    PROVE  LET r == RequestsFor(made, dflt)
           IN  /\ r \in Seq(Requests)
               /\ \A i \in Of(r, "set") : r[i].deny = {} /\ ~made
               /\ Of(r, "active") # {}
               /\ made \/ Follows(r, "active", "set")
               /\ \A t \in {"presence", "return", "unavailable"} : Of(r, t) = {}
<1> DEFINE r == RequestsFor(made, dflt)
           x == IF made THEN Stanza("get") ELSE SetList({})
           d == Stanza("default")
           a == Stanza("active")
<1>1. /\ x \in Requests /\ x.type = (IF made THEN "get" ELSE "set")
      /\ ~made => x.deny = {}
      /\ d \in Requests /\ d.type = "default"
      /\ a \in Requests /\ a.type = "active"
    BY RequestsAre
<1>2. r = <<x>> \o (IF dflt = "none" THEN <<d>> ELSE <<>>) \o <<a>>
    BY DEF RequestsFor
<1> HIDE DEF x, d, a, r
<1>3. <<x>> \o <<>> = <<x>>
    BY <1>1, NoneAround, Zenon
<1>4. r = (<<x>> \o <<d>>) \o <<a>> \/ r = <<x>> \o <<a>>
    BY <1>2, <1>3, Zenon
<1>5. CASE r = (<<x>> \o <<d>>) \o <<a>>
    <2>1. r \in Seq(Requests) /\ DOMAIN r = {1, 2, 3} /\ r[1] = x /\ r[2] = d /\ r[3] = a
        <3>1. LET s == (<<x>> \o <<d>>) \o <<a>>
              IN  /\ s \in Seq(Requests) /\ DOMAIN s = {1, 2, 3}
                  /\ s[1] = x /\ s[2] = d /\ s[3] = a
            BY <1>1, TripleIs
        <3> QED BY <1>5, <3>1, Zenon
    <2>2. /\ \A i \in Of(r, "set") : i = 1 /\ ~made
          /\ Of(r, "active") = {3} /\ (~made => 1 \in Of(r, "set"))
          /\ \A t \in {"presence", "return", "unavailable"} : Of(r, t) = {}
        BY <1>1, <2>1 DEF Of
    <2>3. made \/ Follows(r, "active", "set")
        BY <2>2 DEF Follows
    <2> QED BY <1>1, <2>1, <2>2, <2>3 DEF r
<1>6. CASE r = <<x>> \o <<a>>
    <2>1. r \in Seq(Requests) /\ DOMAIN r = {1, 2} /\ r[1] = x /\ r[2] = a
        <3>1. LET s == <<x>> \o <<a>>
              IN  s \in Seq(Requests) /\ DOMAIN s = {1, 2} /\ s[1] = x /\ s[2] = a
            BY <1>1, PairIs
        <3> QED BY <1>6, <3>1, Zenon
    <2>2. /\ \A i \in Of(r, "set") : i = 1 /\ ~made
          /\ Of(r, "active") = {2} /\ (~made => 1 \in Of(r, "set"))
          /\ \A t \in {"presence", "return", "unavailable"} : Of(r, t) = {}
        BY <1>1, <2>1 DEF Of
    <2>3. made \/ Follows(r, "active", "set")
        BY <2>2 DEF Follows
    <2> QED BY <1>1, <2>1, <2>2, <2>3 DEF r
<1> QED BY <1>4, <1>5, <1>6

LEMMA AnnouncedTail ==
    ASSUME NEW S, NEW q \in Seq(S), q # <<>>, Announced(q) PROVE Announced(Tail(q))
<1> DEFINE r == Tail(q)
<1>t. Shifted(q, r, "set") /\ Shifted(q, r, "unavailable")
    BY TailOf
<1> HIDE DEF r
<1>1. ASSUME NEW i \in Of(r, "unavailable")
      PROVE  i + 1 \in Of(r, "set") /\ r[i].who \subseteq r[i + 1].deny
    <2>1. i \in Nat /\ i + 1 \in Of(q, "unavailable") /\ r[i] = q[i + 1]
        BY <1>t DEF Shifted
    <2>2. (i + 1) + 1 \in Of(q, "set") /\ q[i + 1].who \subseteq q[(i + 1) + 1].deny
        BY <2>1 DEF Announced
    <2>3. (i + 1) + 1 # 1 /\ ((i + 1) + 1) - 1 = i + 1
        BY <2>1
    <2>4. i + 1 \in Of(r, "set") /\ r[i + 1] = q[(i + 1) + 1]
        BY <1>t, <2>2, <2>3 DEF Shifted
    <2> QED BY <2>1, <2>2, <2>4
<1> QED BY <1>1 DEF Announced, r
LEMMA AnnouncedConcat ==
    ASSUME NEW S, NEW q \in Seq(S), NEW r \in Seq(S), Announced(q), Announced(r)
    PROVE  Announced(q \o r)
<1> DEFINE u == q \o r
           n == Len(q)
<1>t. Joined(q, n, r, u, "set") /\ Joined(q, n, r, u, "unavailable")
    BY ConcatOf
<1> HIDE DEF u, n
<1>1. ASSUME NEW i \in Of(u, "unavailable")
      PROVE  i + 1 \in Of(u, "set") /\ u[i].who \subseteq u[i + 1].deny
    <2>1. /\ i \in Nat /\ n \in Nat
          /\ \/ i \in Of(q, "unavailable") /\ u[i] = q[i]
             \/ i - n \in Of(r, "unavailable") /\ u[i] = r[i - n]
        BY <1>t DEF Joined
    <2>2. CASE i \in Of(q, "unavailable") /\ u[i] = q[i]
        <3>1. i + 1 \in Of(q, "set") /\ q[i].who \subseteq q[i + 1].deny
            BY <2>2 DEF Announced
        <3> QED BY <1>t, <2>2, <3>1 DEF Joined
    <2>3. CASE i - n \in Of(r, "unavailable") /\ u[i] = r[i - n]
        <3>1. (i - n) + 1 \in Of(r, "set") /\ r[i - n].who \subseteq r[(i - n) + 1].deny
            BY <2>3 DEF Announced
        <3>2. ((i - n) + 1) + n = i + 1
            BY <2>1
        <3>3. i + 1 \in Of(u, "set") /\ u[i + 1] = r[(i - n) + 1]
            BY <1>t, <3>1, <3>2 DEF Joined
        <3> QED BY <2>3, <3>1, <3>3
    <2> QED BY <2>1, <2>2, <2>3
<1> QED BY <1>1 DEF Announced, u

\* One stanza, or none, of another kind than those the session is about.
LEMMA NoneOf ==
    ASSUME NEW x \in Requests, NEW t
    PROVE  /\ Of(<<>>, t) = {} /\ <<>> \in Seq(Requests) /\ <<x>> \in Seq(Requests)
           /\ x.type # t => Of(<<x>>, t) = {}
<1>1. DOMAIN <<x>> = {1} /\ <<x>>[1] = x
    OBVIOUS
<1> QED BY <1>1 DEF Of

\* What the client sends in a step: the initial presence never, a warning only
\* when the manager is available, and then the list of the block behind it.
Sent(r) ==
    /\ r \in Seq(Requests) /\ up' = up \o r
    /\ Of(r, "presence") = {}
    /\ Of(r, "unavailable") # {} => available
    /\ Announced(r)
    /\ available' => available \/ Of(r, "active") # {}
    /\ server.made \/ Follows(r, "active", "set")
LEMMA SentOne ==
    ASSUME TypeOK, NEW x \in Requests, x.type \in {"get", "return"}, available' => available
    PROVE  /\ up' = up => Sent(<<>>)
           /\ up' = Append(up, x) => Sent(<<x>>)
<1>0. up \in Seq(Requests)
    BY DEF TypeOK
<1>1. /\ <<>> \in Seq(Requests) /\ <<x>> \in Seq(Requests)
      /\ \A t \in {"presence", "unavailable", "active"} : Of(<<>>, t) = {} /\ Of(<<x>>, t) = {}
    <2>1. \A t \in {"presence", "unavailable", "active"} : x.type # t
        OBVIOUS
    <2> QED BY <2>1, NoneOf
<1>2. up \o <<>> = up /\ up \o <<x>> = Append(up, x)
    BY <1>0
<1>3. \A r : Of(r, "unavailable") = {} /\ Of(r, "active") = {}
                 => Announced(r) /\ Follows(r, "active", "set")
    BY DEF Announced, Follows
<1> QED BY <1>1, <1>2, <1>3 DEF Sent
\* The history after a change of the user.
LEMMA LateFields ==
    ASSUME NEW h \in Hists
    PROVE  /\ \A w, l, o : [h EXCEPT !.wish = w, !.late = l, !.overlapped = o].late = l
           /\ \A w, n, o : [h EXCEPT !.wish = w, !.changes = n, !.overlapped = o].late = h.late
           /\ \A n, l, o : [h EXCEPT !.breaks = n, !.late = l, !.overlapped = o].late = l
           /\ \A l : [h EXCEPT !.late = l].late = l
           /\ \A o : [h EXCEPT !.overlapped = o].late = h.late
BY Zenon DEF Hists
LEMMA UserHist ==
    ASSUME TypeOK, NEW j \in Contacts, SetContactBlocked(j)
    PROVE  /\ hist'.refused = hist.refused
           /\ ~list.made => hist'.overlapped
           /\ list.made =>
                  /\ hist'.wish = (IF j \in list.deny THEN hist.wish \ {j} ELSE hist.wish \cup {j})
                  /\ hist'.late = (IF Contested(j) THEN hist.late \cup {j} ELSE hist.late)
                  /\ ~hist'.overlapped => ~hist.overlapped /\ list.deny = hist.wish
<1>0. hist \in Hists /\ hist.changes < MaxChanges
    BY DEF TypeOK, SetContactBlocked
<1>1. CASE list.made
    <2> DEFINE w == IF j \in list.deny THEN hist.wish \ {j} ELSE hist.wish \cup {j}
               l == IF Contested(j) THEN WishToggled(j).late \cup {j} ELSE WishToggled(j).late
               o == WishToggled(j).overlapped \/ list.deny # hist.wish
    <2>1. hist' = [WishToggled(j) EXCEPT !.wish = w, !.late = l, !.overlapped = o]
        BY <1>1, Zenon DEF SetContactBlocked
    <2>2. /\ WishToggled(j) \in Hists /\ (o <=> hist.overlapped \/ list.deny # hist.wish)
          /\ l = (IF Contested(j) THEN hist.late \cup {j} ELSE hist.late)
        BY <1>0, WishToggledType
    <2>3. WishToggled(j).refused = hist.refused
        BY <1>0 DEF WishToggled, Hists
    <2> HIDE DEF l, o
    <2>4. hist'.wish = w /\ hist'.late = l /\ hist'.overlapped = o /\ hist'.refused = hist.refused
        BY <2>1, <2>2, <2>3, HistFields, LateFields
    <2> QED BY <1>1, <2>2, <2>4
<1>2. CASE ~list.made
    <2> DEFINE w == hist.wish \cup {j}
               n == hist.changes + 1
    <2>1. hist' = [hist EXCEPT !.wish = w, !.changes = n, !.overlapped = TRUE]
        BY <1>2, Zenon DEF SetContactBlocked
    <2> HIDE DEF w, n
    <2>2. hist'.overlapped /\ hist'.refused = hist.refused
        BY <1>0, <2>1, HistFields
    <2> QED BY <1>2, <2>2
<1> QED BY <1>1, <1>2
LEMMA OtherHist ==
    ASSUME TypeOK, NEW j \in Contacts, OtherSetsBlocked(j)
    PROVE  /\ hist'.refused = hist.refused
           /\ hist'.wish = (IF j \in server.deny THEN hist.wish \ {j} ELSE hist.wish \cup {j})
           /\ hist'.late = (IF j \in (server.deny \ list.deny) \cup (seen \ server.deny)
                            THEN hist.late \cup {j} ELSE hist.late)
           /\ hist'.overlapped = (hist.overlapped \/ Of(up, "set") # {})
<1>0. hist \in Hists /\ hist.changes < MaxChanges
    BY DEF TypeOK, OtherSetsBlocked
<1> DEFINE w == IF j \in server.deny THEN hist.wish \ {j} ELSE hist.wish \cup {j}
           l == IF j \in (server.deny \ list.deny) \cup (seen \ server.deny)
                THEN WishToggled(j).late \cup {j} ELSE WishToggled(j).late
           o == WishToggled(j).overlapped \/ \E i \in DOMAIN up : up[i].type = "set"
<1>1. hist' = [WishToggled(j) EXCEPT !.wish = w, !.late = l, !.overlapped = o]
    BY Zenon DEF OtherSetsBlocked
<1>2. /\ WishToggled(j) \in Hists /\ o = (hist.overlapped \/ Of(up, "set") # {})
      /\ l = (IF j \in (server.deny \ list.deny) \cup (seen \ server.deny)
              THEN hist.late \cup {j} ELSE hist.late)
    BY <1>0, WishToggledType DEF Of
<1>3. WishToggled(j).refused = hist.refused
    BY <1>0 DEF WishToggled, Hists
<1> HIDE DEF l, o
<1>4. hist'.wish = w /\ hist'.late = l /\ hist'.overlapped = o /\ hist'.refused = hist.refused
    BY <1>1, <1>2, <1>3, HistFields, LateFields
<1> QED BY <1>2, <1>4

\* A step of the client or of the user.
Behind ==
    /\ seen' = seen /\ online' = online
    /\ server'.active = server.active /\ server'.dflt = server.dflt
    /\ server.made => server'.made
    /\ ~hist'.refused => ~hist.refused
    /\ \E r : Sent(r)
LEMMA ClientSends ==
    ASSUME TypeOK, Opening, ClientTakes PROVE Behind
<1>0. up \in Seq(Requests) /\ server \in Servers /\ hist \in Hists
    BY DEF TypeOK
<1>g. Stanza("get") \in Requests /\ Stanza("get").type = "get"
    BY RequestsAre
<1>1. CASE PresenceReceived \/ ListsError \/ OtherError
    <2>1. /\ up' = up /\ (available' => available)
          /\ UNCHANGED <<server, online, seen, hist>>
        BY <1>1 DEF PresenceReceived, ListsError, OtherError
    <2>2. Sent(<<>>)
        BY <1>g, <2>1, SentOne
    <2> QED BY <2>1, <2>2 DEF Behind
<1>2. CASE PrivacyListChanged
    <2>1. /\ up' = Append(up, Stanza("get")) /\ available' = available
          /\ UNCHANGED <<server, online, seen, hist>>
        BY <1>2 DEF PrivacyListChanged
    <2>2. Sent(<<Stanza("get")>>)
        BY <1>g, <2>1, SentOne
    <2> QED BY <2>1, <2>2 DEF Behind
<1>3. CASE ListReceived
    <2> DEFINE x == Presence("return", Updated(list.deny, Incoming.deny) \ Incoming.deny)
    <2>1. /\ up' = up \/ up' = Append(up, x)
          /\ available' = available /\ UNCHANGED <<server, online, seen, hist>>
        BY <1>3 DEF ListReceived
    <2>2. x \in Requests /\ x.type = "return"
        <3>1. Incoming.deny \in SUBSET Contacts /\ list.deny \in SUBSET Contacts
            BY <1>3, ReceivedType, AnswersHold DEF ListReceived, TypeOK, Lists
        <3>2. Updated(list.deny, Incoming.deny) \ Incoming.deny \in SUBSET Contacts
            BY <3>1 DEF Updated, Symmetric
        <3> QED BY <3>2, RequestsAre
    <2> HIDE DEF x
    <2>3. Sent(<<>>) \/ Sent(<<x>>)
        BY <2>1, <2>2, SentOne
    <2> QED BY <2>1, <2>3 DEF Behind
<1>4. CASE ListsReceived
    <2> DEFINE made == Incoming.made
               dflt == Incoming.dflt
               r == RequestsFor(made, dflt)
               o == hist.overlapped \/ (~Incoming.made /\ hist.wish # {})
    <2>1. /\ up' = up \o r /\ hist' = [hist EXCEPT !.overlapped = o]
          /\ UNCHANGED <<server, online, seen>>
        BY <1>4 DEF ListsReceived
    <2>2. made \in BOOLEAN
        BY <1>4, ReceivedType, AnswersHold DEF ListsReceived
    <2>3. made => server.made
        <3>1. down \in Seq(Answers) /\ down # <<>> /\ Incoming = Head(down) /\ Incoming.type = "names"
            BY <1>4 DEF TypeOK, ListsReceived, Received, Incoming
        <3>2. 1 \in Of(down, "names") /\ down[1] = Incoming
            BY <3>1, TailOf DEF Shifted
        <3> QED BY <3>2 DEF Opening
    <2>4. /\ r \in Seq(Requests) /\ Of(r, "active") # {} /\ (made \/ Follows(r, "active", "set"))
          /\ Of(r, "presence") = {} /\ Of(r, "unavailable") = {}
        BY <2>2, RequestsForOrder
    <2> HIDE DEF made, dflt, r, o
    <2>5. Sent(r)
        BY <2>1, <2>3, <2>4 DEF Sent, Announced
    <2>6. hist'.refused = hist.refused
        BY <1>0, <2>1, HistFields
    <2> QED BY <2>1, <2>5, <2>6 DEF Behind
<1> QED BY <1>1, <1>2, <1>3, <1>4 DEF ClientTakes
LEMMA OtherSends ==
    ASSUME TypeOK, NEW j \in Contacts, OtherSetsBlocked(j) PROVE Behind
<1>0. up \in Seq(Requests) /\ server \in Servers /\ hist \in Hists
    BY DEF TypeOK
<1>g. Stanza("get") \in Requests /\ Stanza("get").type = "get"
    BY RequestsAre
<1>1. /\ up' = up /\ available' = available /\ UNCHANGED <<online, seen>>
      /\ hist.changes < MaxChanges
    BY DEF OtherSetsBlocked
<1>2. server'.active = server.active /\ server'.dflt = server.dflt /\ server'.made
    BY <1>0 DEF OtherSetsBlocked, Servers
<1>3. hist'.refused = hist.refused
    BY OtherHist
<1>4. Sent(<<>>)
    BY <1>g, <1>1, SentOne
<1> QED BY <1>1, <1>2, <1>3, <1>4 DEF Behind
LEMMA UserSends ==
    ASSUME TypeOK, NEW j \in Contacts, SetContactBlocked(j) PROVE Behind
<1>0. up \in Seq(Requests) /\ server \in Servers /\ hist \in Hists
    BY DEF TypeOK
<1>g. Stanza("get") \in Requests /\ Stanza("get").type = "get"
    BY RequestsAre
<1>1. /\ available' = available /\ UNCHANGED <<server, online, seen>>
      /\ hist.changes < MaxChanges /\ (available \/ j \in list.deny)
    BY DEF SetContactBlocked
<1>2. hist'.refused = hist.refused
    BY UserHist
<1>3. CASE ~list.made
    <2>1. up' = up
        BY <1>3 DEF SetContactBlocked
    <2>2. Sent(<<>>)
        BY <1>g, <1>1, <2>1, SentOne
    <2> QED BY <1>1, <1>2, <2>2 DEF Behind
<1>4. CASE list.made
    <2> DEFINE blocked == j \notin list.deny
               r == Blocked(j, blocked)
    <2>1. up' = up \o r
        BY <1>4 DEF SetContactBlocked
    <2>2. /\ r \in Seq(Requests) /\ Of(r, "presence") = {} /\ Of(r, "active") = {}
          /\ \A i \in Of(r, "set") : r[i].deny = Replacement(j)
          /\ \A i \in Of(r, "unavailable") : i + 1 \in Of(r, "set") /\ r[i].who = {j} /\ blocked
        BY BlockedOrder
    <2> HIDE DEF r
    <2>3. Of(r, "unavailable") # {} => available /\ j \in Replacement(j)
        BY <1>1, <2>2 DEF Replacement, Symmetric
    <2>4. Announced(r) /\ Follows(r, "active", "set")
        BY <2>2, <2>3 DEF Announced, Follows
    <2>5. Sent(r)
        BY <1>1, <2>1, <2>2, <2>3, <2>4 DEF Sent
    <2> QED BY <1>1, <1>2, <2>5 DEF Behind
<1> QED BY <1>3, <1>4

Phases == Opening /\ Selected /\ Announced(up)

\* Behind what is on its way.
LEMMA BehindPhases ==
    ASSUME TypeOK, Phases, Behind,
           server'.made \in BOOLEAN, down' = down \/ (down # <<>> /\ down' = Tail(down))
                \/ (\E x \in Answers : x.type # "names" /\ down' = Append(down, x)),
           ~online => shown' = shown
    PROVE  Phases'
<1>0. up \in Seq(Requests) /\ down \in Seq(Answers)
    BY DEF TypeOK
<1>1. PICK r : Sent(r)
    BY DEF Behind
<1>2. /\ r \in Seq(Requests) /\ up' = up \o r
      /\ Of(r, "presence") = {} /\ (Of(r, "unavailable") # {} => available)
      /\ Announced(r) /\ (available' => available \/ Of(r, "active") # {})
      /\ server.made \/ Follows(r, "active", "set")
    BY <1>1 DEF Sent
<1>3. Announced(up')
    BY <1>0, <1>2, AnnouncedConcat DEF Phases
<1>4. /\ Of(up', "presence") = {} <=> Of(up, "presence") = {} /\ Of(r, "presence") = {}
      /\ Of(up', "active") = {} <=> Of(up, "active") = {} /\ Of(r, "active") = {}
    <2>1. \A t : Of(up \o r, t) = {} <=> Of(up, t) = {} /\ Of(r, t) = {}
        <3>1. r \in Seq(Requests)
            BY <1>2
        <3> QED BY <1>0, <3>1, NoneConcat
    <2> QED BY <1>2, <2>1
<1>5. Opening'
    <2>1. ASSUME NEW i \in Of(up', "presence") PROVE i = 1 /\ seen' = {}
        <3>1. Joined(up, Len(up), r, up', "presence")
            BY <1>0, <1>2, ConcatOf
        <3>2. i \in Of(up, "presence")
            BY <1>2, <2>1, <3>1 DEF Joined
        <3> QED BY <3>2 DEF Phases, Opening, Behind
    <2>2. ASSUME NEW i \in Of(down', "names"), down'[i].made PROVE server'.made
        <3>1. CASE down' = down
            BY <2>2, <3>1 DEF Phases, Opening, Behind
        <3>2. CASE down # <<>> /\ down' = Tail(down)
            <4>1. Shifted(down, down', "names")
                BY <1>0, <3>2, TailOf
            <4>2. i + 1 \in Of(down, "names") /\ down'[i] = down[i + 1]
                BY <4>1 DEF Shifted
            <4> QED BY <2>2, <4>2 DEF Phases, Opening, Behind
        <3>3. ASSUME NEW x \in Answers, x.type # "names", down' = Append(down, x)
              PROVE  server'.made
            <4>1. Appended(down, Len(down), x, down', "names")
                BY <1>0, <3>3, AppendOf
            <4>2. i \in Of(down, "names") /\ down'[i] = down[i]
                BY <3>3, <4>1 DEF Appended
            <4> QED BY <2>2, <4>2 DEF Phases, Opening, Behind
        <3> QED BY <3>1, <3>2, <3>3
    <2>3. ~online' => seen' = {} /\ shown' = {} /\ ~server'.active
        BY DEF Phases, Opening, Behind
    <2> QED BY <2>1, <2>2, <2>3 DEF Opening
<1>6. Selected'
    <2>1. SUFFICES ASSUME ~hist'.refused
                   PROVE  /\ available' => server'.active \/ Of(up', "active") # {}
                          /\ server'.active \/ Follows(up', "unavailable", "active")
                          /\ server'.made \/ Follows(up', "active", "set")
                          /\ online' /\ Of(up', "presence") = {} /\ ~server'.active
                                 /\ server'.dflt # "blocked" => seen' = Authorized
        BY DEF Selected
    <2>2. /\ available => server.active \/ Of(up, "active") # {}
          /\ server.active \/ Follows(up, "unavailable", "active")
          /\ server.made \/ Follows(up, "active", "set")
          /\ online /\ Of(up, "presence") = {} /\ ~server.active /\ server.dflt # "blocked"
                 => seen = Authorized
          /\ seen' = seen /\ online' = online
          /\ server'.active = server.active /\ server'.dflt = server.dflt
          /\ server.made => server'.made
        BY <2>1 DEF Phases, Selected, Behind
    <2>3. Follows(up, "unavailable", "active") /\ (Of(r, "unavailable") = {} \/ Of(up, "active") # {})
              => Follows(up', "unavailable", "active")
        BY <1>0, <1>2, FollowsConcat
    <2>4. Follows(up, "active", "set") /\ Follows(r, "active", "set") => Follows(up', "active", "set")
        BY <1>0, <1>2, FollowsConcat
    <2> QED BY <1>2, <1>4, <2>2, <2>3, <2>4
<1> QED BY <1>3, <1>5, <1>6 DEF Phases

\* What the server answers.
LEMMA ServerAnswers ==
    ASSUME TypeOK, ServerTakes
    PROVE  \/ down' = down
           \/ \E x \in Answers : /\ x.type = "names" => x.made = server.made
                                 /\ down' = Append(down, x)
<1>0. server.deny \in SUBSET Contacts /\ server.made \in BOOLEAN
      /\ server.dflt \in {"none", "blocked", "other"}
    BY DEF TypeOK, Servers
<1>1. CASE TakePresence \/ TakeReturn
    <2>1. \E s \in SUBSET Authorized : down' = Append(down, Presence("presence", s))
        <3>1. Authorized \ Effective \in SUBSET Authorized
              /\ (Request.who \cap Authorized) \ Effective \in SUBSET Authorized
            OBVIOUS
        <3> QED BY <1>1, <3>1 DEF TakePresence, TakeReturn, Answer
    <2> QED BY <2>1, AnswersAre
<1>2. CASE TakeUnavailable \/ TakeActive \/ TakeDefault
    BY <1>2 DEF TakeUnavailable, TakeActive, TakeDefault
<1>3. CASE TakeNames
    <2> DEFINE x == Names(server.made, server.dflt)
    <2>1. x \in Answers /\ x.made = server.made
        BY <1>0, AnswersAre DEF Names
    <2>2. down' = Append(down, x)
        BY <1>3 DEF TakeNames, Answer
    <2> QED BY <2>1, <2>2
<1>4. CASE TakeGet
    <2>1. \/ down' = Append(down, ListIs(server.deny))
          \/ down' = Append(down, Stanza("error"))
        BY <1>4 DEF TakeGet, Answer
    <2> QED BY <1>0, <2>1, AnswersAre
<1>5. CASE TakeSet
    BY <1>5, AnswersAre DEF TakeSet, Answer
<1>6. CASE TakeRefused
    <2>1. \/ down' = Append(down, Stanza("names_error"))
          \/ down' = Append(down, Stanza("error"))
        BY <1>6 DEF TakeRefused, Answer
    <2> QED BY <2>1, AnswersAre
<1> QED BY <1>1, <1>2, <1>3, <1>4, <1>5, <1>6 DEF ServerTakes

\* The server takes a stanza.
LEMMA TakenPhases ==
    ASSUME TypeOK, Phases, ServerTakes PROVE Phases'
<1>0. /\ up \in Seq(Requests) /\ up # <<>> /\ up' = Tail(up) /\ Request = Head(up) /\ online
      /\ down \in Seq(Answers) /\ server \in Servers /\ hist \in Hists
      /\ online' = online /\ available' = available
    BY DEF TypeOK, ServerTakes, Taken, Request, TakePresence, TakeUnavailable, TakeReturn,
           TakeNames, TakeGet, TakeSet, TakeActive, TakeDefault, TakeRefused
<1>1. Announced(up')
    BY <1>0, AnnouncedTail DEF Phases
<1>2. Of(up', "presence") = {}
    <2>1. Shifted(up, up', "presence")
        BY <1>0, TailOf
    <2>2. ASSUME NEW i \in Of(up', "presence") PROVE FALSE
        <3>1. i \in Nat /\ i >= 1 /\ i + 1 \in Of(up, "presence")
            BY <2>1 DEF Shifted
        <3>2. i + 1 = 1
            BY <3>1 DEF Phases, Opening
        <3> QED BY <3>1, <3>2
    <2> QED BY <2>2
<1>3. \A t : Of(up, t) = {} <=> Of(up', t) = {} /\ Request.type # t
    BY <1>0, NoneTail
<1>4. \A t, t2 : Follows(up, t, t2) =>
          (Request.type # t2 => Follows(up', t, t2)) /\ Request.type # t
    BY <1>0, FollowsTail
<1>m. /\ server.made => server'.made
      /\ TakeActive \/ server'.active = server.active
      /\ TakeDefault \/ server'.dflt = server.dflt
      /\ server'.dflt = server.dflt \/ server'.dflt = "blocked"
    <2>1. CASE TakeSet
        BY <1>0, <2>1 DEF TakeSet, Servers
    <2>2. CASE TakeActive
        BY <1>0, <2>2 DEF TakeActive, Servers
    <2>3. CASE TakeDefault
        BY <1>0, <2>3 DEF TakeDefault, Servers
    <2>4. CASE server' = server
        BY <2>4
    <2> QED BY <2>1, <2>2, <2>3, <2>4
            DEF ServerTakes, TakePresence, TakeUnavailable, TakeReturn, TakeNames, TakeGet,
                TakeRefused
<1>5. Opening'
    <2>1. ASSUME NEW i \in Of(down', "names"), down'[i].made PROVE server'.made
        <3>1. CASE down' = down
            BY <1>m, <2>1, <3>1 DEF Phases, Opening
        <3>2. ASSUME NEW x \in Answers, x.type = "names" => x.made = server.made,
                     down' = Append(down, x)
              PROVE  server'.made
            <4>1. Appended(down, Len(down), x, down', "names")
                BY <1>0, <3>2, AppendOf
            <4>2. \/ i \in Of(down, "names") /\ down'[i] = down[i]
                  \/ down'[i] = x /\ x.type = "names"
                BY <3>2, <4>1 DEF Appended
            <4> QED BY <1>m, <2>1, <3>2, <4>2 DEF Phases, Opening
        <3>3. down' = down \/ \E x \in Answers : /\ x.type = "names" => x.made = server.made
                                                 /\ down' = Append(down, x)
            BY ServerAnswers
        <3> QED BY <3>1, <3>2, <3>3
    <2> QED BY <1>0, <1>2, <2>1 DEF Opening
<1>6. Selected'
    <2>1. SUFFICES ASSUME ~hist'.refused
                   PROVE  /\ available' => server'.active \/ Of(up', "active") # {}
                          /\ server'.active \/ Follows(up', "unavailable", "active")
                          /\ server'.made \/ Follows(up', "active", "set")
                          /\ ~server'.active /\ server'.dflt # "blocked" => seen' = Authorized
        BY DEF Selected
    <2>2. ~TakeRefused
        <3>1. TakeRefused => hist'.refused
            BY <1>0, HistFields DEF TakeRefused
        <3> QED BY <2>1, <3>1
    <2>3. /\ available => server.active \/ Of(up, "active") # {}
          /\ server.active \/ Follows(up, "unavailable", "active")
          /\ server.made \/ Follows(up, "active", "set")
          /\ Of(up, "presence") = {} /\ ~server.active /\ server.dflt # "blocked"
                 => seen = Authorized
        BY <1>0, <2>1, <2>2, ServerHist DEF Phases, Selected
    <2>4. Request.type = "active" => TakeActive /\ server.made /\ server'.active
        <3>1. Request.type = "active" => TakeActive /\ server.made
            BY <1>4, <2>2, <2>3 DEF ServerTakes, TakePresence, TakeUnavailable, TakeReturn,
                   TakeNames, TakeGet, TakeSet, TakeActive, TakeDefault
        <3>2. TakeActive => server'.active = server.made
            BY <1>0 DEF TakeActive, Servers
        <3> QED BY <3>1, <3>2
    <2>5. server.active => server'.active
        <3>1. TakeActive => Request.type = "active"
            BY DEF TakeActive
        <3> QED BY <1>m, <2>4, <3>1
    <2>6. server.made \/ Request.type # "set" \/ server'.made
        <3>1. Request.type = "set" => TakeSet
            BY <2>2 DEF ServerTakes, TakePresence, TakeUnavailable, TakeReturn,
                   TakeNames, TakeGet, TakeSet, TakeActive, TakeDefault
        <3>2. TakeSet => server'.made
            BY <1>0 DEF TakeSet, Servers
        <3> QED BY <3>1, <3>2
    <2>7. ASSUME ~server'.active, server'.dflt # "blocked" PROVE seen' = Authorized
        <3>1. ~server.active /\ server.dflt # "blocked"
            BY <1>m, <2>5, <2>7
        <3>2. CASE TakePresence
            BY <3>1, <3>2 DEF TakePresence, Effective
        <3>3. CASE TakeUnavailable
            BY <1>4, <2>3, <3>1, <3>3 DEF TakeUnavailable
        <3>4. CASE ~TakePresence /\ ~TakeUnavailable
            <4>1. /\ Request.type # "presence"
                  /\ seen' = seen \/ seen' = seen \cup ((Request.who \cap Authorized) \ Effective)
                BY <2>2, <3>4 DEF ServerTakes, TakeReturn, TakeNames, TakeGet, TakeSet,
                       TakeActive, TakeDefault
            <4>2. seen = Authorized
                BY <1>2, <1>3, <2>3, <3>1, <4>1
            <4> QED BY <4>1, <4>2
        <3> QED BY <3>2, <3>3, <3>4
    <2>8. available' => server'.active \/ Of(up', "active") # {}
        BY <1>0, <1>3, <2>3, <2>4, <2>5
    <2>9. server'.active \/ Follows(up', "unavailable", "active")
        BY <1>4, <2>3, <2>4, <2>5
    <2>10. server'.made \/ Follows(up', "active", "set")
        BY <1>4, <1>m, <2>3, <2>6
    <2> QED BY <2>7, <2>8, <2>9, <2>10
<1> QED BY <1>1, <1>5, <1>6 DEF Phases

\* Every step.
LEMMA PhasesStep ==
    ASSUME TypeOK, Phases, [Next]_vars PROVE Phases'
<1>0. up \in Seq(Requests) /\ down \in Seq(Answers) /\ server \in Servers /\ hist \in Hists
      /\ server.made \in BOOLEAN
    BY DEF TypeOK, Servers
<1>t. TypeOK'
    BY TypeStep
<1>m. server'.made \in BOOLEAN
    BY <1>t DEF TypeOK, Servers
<1>1. CASE Login
    <2> DEFINE r == <<Stanza("presence")>> \o <<Stanza("names")>>
    <2>1. /\ ~online /\ up' = <<Stanza("presence"), Stanza("names")>>
          /\ UNCHANGED <<server, available, down, seen, shown, hist>> /\ online'
        BY <1>1 DEF Login
    <2>2. /\ Stanza("presence") \in Requests /\ Stanza("presence").type = "presence"
          /\ Stanza("names") \in Requests /\ Stanza("names").type = "names"
        BY RequestsAre
    <2>3. up' \in Seq(Requests) /\ DOMAIN up' = {1, 2}
          /\ up'[1] = Stanza("presence") /\ up'[2] = Stanza("names")
        BY <2>1, <2>2
    <2>4. /\ Of(up', "presence") = {1} /\ Of(up', "active") = {} /\ Of(up', "unavailable") = {}
        BY <2>2, <2>3 DEF Of
    <2>5. ~available /\ seen = {} /\ shown = {}
        BY <2>1 DEF TypeOK, Phases, Opening
    <2>6. Opening'
        BY <2>1, <2>4, <2>5 DEF Opening, Phases
    <2>7. Selected'
        BY <2>1, <2>4, <2>5 DEF Selected, Follows
    <2> QED BY <2>4, <2>6, <2>7 DEF Phases, Announced
<1>2. CASE Disconnect
    <2>1. /\ ~online' /\ ~available' /\ up' = <<>> /\ down' = <<>> /\ seen' = {} /\ shown' = {}
        BY <1>2 DEF Disconnect
    <2>2. ~server'.active
        BY <1>0, <1>2 DEF Disconnect, Servers
    <2>3. \A t : Of(up', t) = {} /\ Of(down', t) = {}
        BY <2>1 DEF Of
    <2> QED BY <2>1, <2>2, <2>3 DEF Phases, Opening, Selected, Announced, Follows
<1>3. ASSUME NEW j \in Contacts, SetContactBlocked(j) PROVE Phases'
    <2>1. down' = down /\ shown' = shown
        BY <1>3 DEF SetContactBlocked
    <2> QED BY <1>3, <1>m, <2>1, UserSends, BehindPhases
<1>4. ASSUME NEW j \in Contacts, OtherSetsBlocked(j) PROVE Phases'
    <2>1. /\ shown' = shown
          /\ down' = down \/ down' = Append(down, Stanza("push"))
        BY <1>4 DEF OtherSetsBlocked
    <2>2. down' = down \/ \E x \in Answers : x.type # "names" /\ down' = Append(down, x)
        BY <2>1, AnswersAre
    <2> QED BY <1>4, <1>m, <2>1, <2>2, OtherSends, BehindPhases
<1>5. CASE ClientTakes
    <2>1. down # <<>> /\ down' = Tail(down) /\ online
        BY <1>5 DEF ClientTakes, PresenceReceived, ListsReceived, ListsError, OtherError,
               PrivacyListChanged, ListReceived, Received
    <2>2. Behind
        BY <1>5, ClientSends DEF Phases
    <2> QED BY <1>m, <2>1, <2>2, BehindPhases
<1>6. CASE UNCHANGED vars
    BY <1>6 DEF vars, Phases, Opening, Selected
<1> QED BY <1>1, <1>2, <1>3, <1>4, <1>5, <1>6, TakenPhases DEF Next

----------------------------------------------------------------------------
(* What a contact sees, and what is shown of it: the steps.                *)

\* Nobody whom the server denies sees us, and nobody who should not is shown.
Hides(u, d, deny, wish, copy, s, sh, j) ==
    /\ j \in deny => j \notin s
    /\ Reaches(u, deny, wish, j)
    /\ j \in Authorized => Warned(u, deny, s, j)
    /\ Consistent(d, copy, deny, wish, j)
    /\ j \notin s \/ j \in wish => Clean(d, copy, sh, j)
\* Whoever is not denied sees us and is shown, or will be, or is about to be denied.
Regains(u, d, deny, wish, copy, s, sh, j) ==
    j \in Authorized /\ j \notin deny /\ Of(u, "presence") = {} =>
        /\ j \in s \/ j \in wish \/ Returning(u, d, copy, j)
        /\ j \in wish \/ j \in sh \/ Shows(d, j) \/ Returning(u, d, copy, j)
Right(u, d, deny, wish, copy, s, sh, j) ==
    Hides(u, d, deny, wish, copy, s, sh, j) /\ Regains(u, d, deny, wish, copy, s, sh, j)

\* A stanza is taken that is of no list and no presence.
LEMMA RightTaken ==
    ASSUME NEW S, NEW u \in Seq(S), u # <<>>, NEW T, NEW d \in Seq(T),
           NEW deny, NEW wish, NEW copy, NEW s, NEW sh, NEW j,
           Head(u).type \notin {"presence", "unavailable", "return", "set"}
    PROVE  /\ Hides(u, d, deny, wish, copy, s, sh, j)
                  => Hides(Tail(u), d, deny, wish, copy, s, sh, j)
           /\ Regains(u, d, deny, wish, copy, s, sh, j)
                  => Regains(Tail(u), d, deny, wish, copy, s, sh, j)
<1>1. Reaches(u, deny, wish, j) => Reaches(Tail(u), deny, wish, j)
    BY ReachesTail
<1>2. Warned(u, deny, s, j) => Warned(Tail(u), deny, s, j)
    BY WarnedTail
<1>3. Of(Tail(u), "presence") = {} => Of(u, "presence") = {}
    BY NoneTail
<1>4. Returning(u, d, copy, j) => Returning(Tail(u), d, copy, j)
    BY ReturningKept
<1> QED BY <1>1, <1>2, <1>3, <1>4 DEF Hides, Regains

\* One is answered that is no presence, and a list only as it is.
LEMMA RightAnswered ==
    ASSUME NEW S, NEW u \in Seq(S), NEW T, NEW d \in Seq(T), NEW x \in T,
           NEW deny, NEW wish, NEW copy, NEW s, NEW sh, NEW j,
           x.type # "presence", x.type = "list" => (j \in x.deny <=> j \in deny)
    PROVE  /\ Hides(u, d, deny, wish, copy, s, sh, j)
                  => Hides(u, Append(d, x), deny, wish, copy, s, sh, j)
           /\ Regains(u, d, deny, wish, copy, s, sh, j)
                  => Regains(u, Append(d, x), deny, wish, copy, s, sh, j)
<1>1. Consistent(d, copy, deny, wish, j) => Consistent(Append(d, x), copy, deny, wish, j)
    BY ConsistentAppend
<1>2. Clean(d, copy, sh, j) => Clean(Append(d, x), copy, sh, j)
    BY CleanAppend
<1>3. Returning(u, d, copy, j) => Returning(u, Append(d, x), copy, j)
    BY ReturningKept
<1>4. Shows(d, j) => Shows(Append(d, x), j)
    BY ShowsKept
<1> QED BY <1>1, <1>2, <1>3, <1>4 DEF Hides, Regains

\* One comes that is of no list and no presence.
LEMMA RightReceived ==
    ASSUME NEW S, NEW u \in Seq(S), NEW T, NEW d \in Seq(T), d # <<>>,
           NEW deny, NEW wish, NEW copy, NEW s, NEW sh, NEW j,
           Head(d).type \notin {"presence", "list"}
    PROVE  /\ Hides(u, d, deny, wish, copy, s, sh, j)
                  => Hides(u, Tail(d), deny, wish, copy, s, sh, j)
           /\ Regains(u, d, deny, wish, copy, s, sh, j)
                  => Regains(u, Tail(d), deny, wish, copy, s, sh, j)
<1>1. Consistent(d, copy, deny, wish, j) => Consistent(Tail(d), copy, deny, wish, j)
    BY ConsistentTail
<1>2. Clean(d, copy, sh, j) => Clean(Tail(d), copy, sh, j)
    BY CleanTail
<1>3. Returning(u, d, copy, j) => Returning(u, Tail(d), copy, j)
    BY ReturningKept
<1>4. Shows(d, j) => Shows(Tail(d), j)
    <2>1. Shows(d, j) => Shows(Tail(d), j) \/ (Head(d).type = "presence" /\ j \in Head(d).who)
        BY ShowsKept
    <2> QED BY <2>1
<1> QED BY <1>1, <1>2, <1>3, <1>4 DEF Hides, Regains

\* Some are sent, lists only as the user wants, behind a warning where due.
LEMMA RightSent ==
    ASSUME NEW S, NEW u \in Seq(S), NEW r \in Seq(S), NEW T, NEW d \in Seq(T),
           NEW deny, NEW wish, NEW copy, NEW s, NEW sh, NEW j,
           \A i \in Of(r, "set") : /\ j \in r[i].deny <=> j \in wish
                                   /\ j \in r[i].deny => j \in deny
    PROVE  /\ Hides(u, d, deny, wish, copy, s, sh, j)
                  => Hides(u \o r, d, deny, wish, copy, s, sh, j)
           /\ Regains(u, d, deny, wish, copy, s, sh, j)
                  => Regains(u \o r, d, deny, wish, copy, s, sh, j)
<1>1. Reaches(u, deny, wish, j) => Reaches(u \o r, deny, wish, j)
    BY ReachesConcat
<1>2. Warned(u, deny, s, j) => Warned(u \o r, deny, s, j)
    BY WarnedConcat
<1>3. Of(u \o r, "presence") = {} => Of(u, "presence") = {}
    BY NoneConcat
<1>4. Returning(u, d, copy, j) => Returning(u \o r, d, copy, j)
    BY ReturningKept
<1> QED BY <1>1, <1>2, <1>3, <1>4 DEF Hides, Regains

\* The user blocks or unblocks j.
LEMMA RightToggled ==
    ASSUME NEW S, NEW u \in Seq(S), NEW r \in Seq(S), NEW T, NEW d \in Seq(T),
           NEW deny, NEW wish, NEW wish2, NEW copy, NEW s, NEW sh, NEW j,
           Right(u, d, deny, wish, copy, s, sh, j),
           j \in copy <=> j \in wish, j \in wish2 <=> j \notin wish,
           \A i \in Of(d, "list") : j \in d[i].deny <=> j \in copy,
           \A i \in Of(r, "set") :
               /\ j \in r[i].deny <=> j \in wish2
               /\ j \in r[i].deny /\ j \in Authorized =>
                      i > 1 /\ i - 1 \in Of(r, "unavailable") /\ j \in r[i - 1].who
    PROVE  Right(u \o r, d, deny, wish2, copy, s, sh, j)
<1>0. /\ j \in deny => j \notin s
      /\ Reaches(u, deny, wish, j)
      /\ j \in Authorized => Warned(u, deny, s, j)
      /\ Consistent(d, copy, deny, wish, j)
      /\ j \notin s \/ j \in wish => Clean(d, copy, sh, j)
    BY DEF Right, Hides
<1>1. j \in deny <=> j \in wish
    BY <1>0 DEF Consistent
<1>2. \A i \in Of(u, "set") : j \in u[i].deny <=> j \in deny
    <2>1. \A i \in Of(u, "set") : i <= i
        <3>1. \A i \in Of(u, "set") : i \in Nat
            BY Concatenated DEF Of
        <3> QED BY <3>1
    <2> QED BY <1>0, <1>1, <2>1 DEF Reaches
<1>3. Reaches(u \o r, deny, wish2, j)
    BY <1>2, ReachesConcat
<1>4. j \in Authorized => Warned(u \o r, deny, s, j)
    BY <1>0, WarnedConcat
<1>5. Consistent(d, copy, deny, wish2, j)
    BY <1>1 DEF Consistent
<1>6. j \notin s \/ j \in wish2 => Clean(d, copy, sh, j)
    <2>1. j \in wish2 => Clean(d, copy, sh, j)
        BY CleanNone
    <2> QED BY <1>0, <2>1
<1>7. Regains(u \o r, d, deny, wish2, copy, s, sh, j)
    BY <1>1 DEF Regains
<1> QED BY <1>0, <1>3, <1>4, <1>5, <1>6, <1>7 DEF Right, Hides

\* A list is taken.
LEMMA RightSet ==
    ASSUME NEW S, NEW u \in Seq(S), u # <<>>, NEW T, NEW d \in Seq(T),
           NEW deny, NEW wish, NEW copy, NEW s \in SUBSET Authorized, NEW sh, NEW j,
           Right(u, d, deny, wish, copy, s, sh, j), Head(u).type = "set"
    PROVE  Right(Tail(u), d, Head(u).deny, wish, copy, s, sh, j)
<1>0. /\ j \in deny => j \notin s
      /\ Reaches(u, deny, wish, j)
      /\ j \in Authorized => Warned(u, deny, s, j)
      /\ Consistent(d, copy, deny, wish, j)
      /\ j \notin s \/ j \in wish => Clean(d, copy, sh, j)
    BY DEF Right, Hides
<1>1. /\ 1 \in Of(u, "set") /\ u[1] = Head(u)
      /\ \A k \in Of(u, "set") : k \in Nat /\ k >= 1
    BY TailOf DEF Shifted
<1>2. (j \in deny <=> j \in wish) => (j \in Head(u).deny <=> j \in wish)
    BY <1>0, <1>1 DEF Reaches
<1>3. j \in deny /\ j \notin Head(u).deny => /\ j \notin wish
                                             /\ \A k \in Of(u, "set") : j \notin u[k].deny
    <2>1. SUFFICES ASSUME j \in deny, j \notin Head(u).deny, NEW k \in Of(u, "set")
                   PROVE  j \notin wish /\ j \notin u[k].deny
        BY <1>1
    <2>2. j \notin wish
        BY <1>2, <2>1
    <2>3. 1 <= k
        BY <1>1
    <2> QED BY <1>0, <1>1, <2>1, <2>2, <2>3 DEF Reaches
<1>4. Reaches(Tail(u), Head(u).deny, wish, j)
    BY <1>0, ReachesTail
<1>5. j \in Authorized => /\ Warned(Tail(u), Head(u).deny, s, j)
                          /\ j \in Head(u).deny => j \in deny \/ j \notin s
    BY <1>0, <1>3, WarnedSet
<1>6. Consistent(d, copy, Head(u).deny, wish, j)
    BY <1>0, <1>2 DEF Consistent
<1>7. Regains(Tail(u), d, Head(u).deny, wish, copy, s, sh, j)
    <2>1. CASE j \in deny
        <3>1. j \notin Head(u).deny => j \in copy
            BY <1>0, <1>3, <2>1 DEF Consistent
        <3> QED BY <3>1 DEF Regains, Returning
    <2>2. CASE j \notin deny
        <3>1. Of(Tail(u), "presence") = {} => Of(u, "presence") = {}
            BY NoneTail
        <3>2. Returning(u, d, copy, j) => Returning(Tail(u), d, copy, j)
            BY ReturningKept
        <3> QED BY <2>2, <3>1, <3>2 DEF Right, Regains
    <2> QED BY <2>1, <2>2
<1> QED BY <1>0, <1>4, <1>5, <1>6, <1>7 DEF Right, Hides

\* A warning is taken: s2 is who still sees us.
LEMMA RightWarned ==
    ASSUME NEW S, NEW u \in Seq(S), u # <<>>, NEW T, NEW d \in Seq(T),
           NEW deny, NEW wish, NEW copy, NEW s, NEW s2, NEW sh, NEW j,
           Right(u, d, deny, wish, copy, s, sh, j), Announced(u),
           Head(u).type = "unavailable",
           j \in s2 => j \in s /\ (j \in Head(u).who => j \in deny),
           j \in s /\ j \notin s2 => j \in Head(u).who
    PROVE  Right(Tail(u), d, deny, wish, copy, s2, sh, j)
<1>0. /\ j \in deny => j \notin s
      /\ Reaches(u, deny, wish, j)
      /\ j \in Authorized => Warned(u, deny, s, j)
      /\ Consistent(d, copy, deny, wish, j)
      /\ j \notin s \/ j \in wish => Clean(d, copy, sh, j)
    BY DEF Right, Hides
<1>1. 1 \in Of(u, "unavailable") /\ u[1] = Head(u)
    BY TailOf DEF Shifted
<1>2. 1 + 1 \in Of(u, "set") /\ Head(u).who \subseteq u[1 + 1].deny
    BY <1>1 DEF Announced
<1>3. j \in s /\ j \notin s2 => j \in wish
    <2>1. 1 + 1 <= 1 + 1
        OBVIOUS
    <2> QED BY <1>0, <1>2, <2>1 DEF Reaches
<1>4. Reaches(Tail(u), deny, wish, j)
    BY <1>0, ReachesTail
<1>5. j \in Authorized => Warned(Tail(u), deny, s2, j)
    BY <1>0, WarnedTail
<1>6. Of(Tail(u), "presence") = {} => Of(u, "presence") = {}
    BY NoneTail
<1>7. Returning(u, d, copy, j) => Returning(Tail(u), d, copy, j)
    BY ReturningKept
<1>8. Regains(Tail(u), d, deny, wish, copy, s2, sh, j)
    BY <1>3, <1>6, <1>7 DEF Right, Regains
<1> QED BY <1>0, <1>3, <1>4, <1>5, <1>8 DEF Right, Hides

\* A presence is taken that shows us to those of x, and x is the answer.
LEMMA RightReturned ==
    ASSUME NEW S, NEW u \in Seq(S), u # <<>>, NEW T, NEW d \in Seq(T), NEW x \in T,
           NEW deny, NEW wish, NEW copy, NEW s, NEW s2, NEW sh, NEW j,
           Right(u, d, deny, wish, copy, s, sh, j),
           Head(u).type \in {"presence", "return"}, x.type = "presence",
           j \in x.who => j \in s2 /\ j \notin deny,
           j \in s2 => j \in s \/ j \in x.who,
           j \in s => j \in s2,
           j \in Authorized /\ j \notin deny /\ Head(u).type = "return" /\ j \in Head(u).who
               => j \in x.who,
           j \in Authorized /\ j \notin deny /\ Head(u).type = "presence" => j \in x.who
    PROVE  Right(Tail(u), Append(d, x), deny, wish, copy, s2, sh, j)
<1>0. /\ j \in deny => j \notin s
      /\ Reaches(u, deny, wish, j)
      /\ j \in Authorized => Warned(u, deny, s, j)
      /\ Consistent(d, copy, deny, wish, j)
      /\ j \notin s \/ j \in wish => Clean(d, copy, sh, j)
    BY DEF Right, Hides
<1>1. Reaches(Tail(u), deny, wish, j)
    BY <1>0, ReachesTail
<1>2. j \in Authorized => Warned(Tail(u), deny, s2, j)
    BY <1>0, WarnedTail
<1>3. Consistent(Append(d, x), copy, deny, wish, j)
    BY <1>0, ConsistentAppend
<1>4. ASSUME j \notin s2 \/ j \in wish PROVE Clean(Append(d, x), copy, sh, j)
    <2>1. CASE j \in x.who
        <3>1. j \notin copy /\ \A i \in Of(d, "list") : j \notin d[i].deny
            BY <1>0, <1>4, <2>1 DEF Consistent
        <3> QED BY <3>1, CleanAppend
    <2>2. CASE j \notin x.who
        <3>1. Clean(d, copy, sh, j)
            BY <1>0, <1>4
        <3> QED BY <2>2, <3>1, CleanAppend
    <2> QED BY <2>1, <2>2
<1>5. Regains(Tail(u), Append(d, x), deny, wish, copy, s2, sh, j)
    <2>1. SUFFICES ASSUME j \in Authorized, j \notin deny, Of(Tail(u), "presence") = {}
                   PROVE  /\ j \in s2 \/ j \in wish \/ Returning(Tail(u), Append(d, x), copy, j)
                          /\ \/ j \in wish \/ j \in sh \/ Shows(Append(d, x), j)
                             \/ Returning(Tail(u), Append(d, x), copy, j)
        BY DEF Regains
    <2>2. CASE j \in x.who
        <3>1. Shows(Append(d, x), j)
            BY <2>2, ShowsKept
        <3> QED BY <2>2, <3>1
    <2>3. CASE j \notin x.who
        <3>1. Head(u).type = "return" /\ j \notin Head(u).who
            BY <2>1, <2>3
        <3>2. Of(u, "presence") = {}
            BY <2>1, <3>1, NoneTail
        <3>3. Tail(u) \in Seq(S)
            BY HeadAndTail
        <3>4. Returning(u, d, copy, j) => Returning(Tail(u), d, copy, j)
            BY <3>1, ReturningKept
        <3>5. Returning(Tail(u), d, copy, j) => Returning(Tail(u), Append(d, x), copy, j)
            BY <3>3, ReturningKept
        <3>6. Shows(d, j) => Shows(Append(d, x), j)
            BY ShowsKept
        <3> QED BY <2>1, <3>2, <3>4, <3>5, <3>6 DEF Right, Regains
    <2> QED BY <2>2, <2>3
<1> QED BY <1>0, <1>1, <1>2, <1>3, <1>4, <1>5 DEF Right, Hides

\* A presence comes.
LEMMA RightShown ==
    ASSUME NEW S, NEW u \in Seq(S), NEW T, NEW d \in Seq(T), d # <<>>,
           NEW deny, NEW wish, NEW copy, NEW s, NEW sh, NEW sh2, NEW j,
           Right(u, d, deny, wish, copy, s, sh, j), Head(d).type = "presence",
           j \in sh2 <=> j \in sh \/ j \in Head(d).who
    PROVE  Right(u, Tail(d), deny, wish, copy, s, sh2, j)
<1>1. Consistent(d, copy, deny, wish, j) => Consistent(Tail(d), copy, deny, wish, j)
    BY ConsistentTail
<1>2. Clean(d, copy, sh, j) => Clean(Tail(d), copy, sh2, j)
    BY CleanTail
<1>3. Returning(u, d, copy, j) => Returning(u, Tail(d), copy, j)
    BY ReturningKept
<1>4. Shows(d, j) => Shows(Tail(d), j) \/ j \in sh2
    BY ShowsKept
<1> QED BY <1>1, <1>2, <1>3, <1>4 DEF Right, Hides, Regains

\* A list comes, and those it no longer denies are sent their presence.
LEMMA RightCopied ==
    ASSUME NEW S, NEW u \in Seq(S), NEW T, NEW d \in Seq(T), d # <<>>,
           NEW deny, NEW wish, NEW copy, NEW s, NEW sh, NEW sh2, NEW j,
           Right(u, d, deny, wish, copy, s, sh, j), Head(d).type = "list",
           j \in sh2 <=> j \in sh /\ (j \in copy <=> j \in Head(d).deny),
           j \in copy /\ j \notin Head(d).deny =>
               \E i \in Of(u, "return") : j \in u[i].who
    PROVE  Right(u, Tail(d), deny, wish, Head(d).deny, s, sh2, j)
<1>1. Consistent(d, copy, deny, wish, j) => Consistent(Tail(d), Head(d).deny, deny, wish, j)
    BY ConsistentTail
<1>2. Clean(d, copy, sh, j) => Clean(Tail(d), Head(d).deny, sh2, j)
    BY CleanList
<1>3. ASSUME ~Returning(u, Tail(d), Head(d).deny, j)
      PROVE  j \notin copy /\ ~Returning(u, d, copy, j) /\ j \notin Head(d).deny
    <2>1. j \notin copy /\ j \notin Head(d).deny
        BY <1>3 DEF Returning
    <2> QED BY <1>3, <2>1, ReturningKept
<1>4. Shows(d, j) => Shows(Tail(d), j)
    <2>1. Shows(d, j) => Shows(Tail(d), j) \/ (Head(d).type = "presence" /\ j \in Head(d).who)
        BY ShowsKept
    <2> QED BY <2>1
<1>5. Regains(u, Tail(d), deny, wish, Head(d).deny, s, sh2, j)
    BY <1>3, <1>4 DEF Right, Regains
<1> QED BY <1>1, <1>2, <1>5 DEF Right, Hides

\* Another resource blocks or unblocks j while no list of ours is on its way.
LEMMA RightElsewhere ==
    ASSUME NEW S, NEW u \in Seq(S), NEW T, NEW d \in Seq(T),
           NEW deny, NEW deny2, NEW wish, NEW wish2, NEW copy, NEW s, NEW sh, NEW j,
           Hides(u, d, deny, wish, copy, s, sh, j), Of(u, "set") = {},
           j \in deny <=> j \in wish, j \in wish2 <=> j \notin wish,
           j \in deny2 <=> j \notin deny,
           j \in deny => j \in copy, j \in s => j \in deny
    PROVE  Right(u, d, deny2, wish2, copy, s, sh, j)
<1>1. j \notin s /\ Clean(d, copy, sh, j)
    BY DEF Hides
<1>2. Reaches(u, deny2, wish2, j) /\ Warned(u, deny2, s, j)
    BY DEF Reaches, Warned
<1>3. Consistent(d, copy, deny2, wish2, j)
    BY DEF Consistent
<1>4. Regains(u, d, deny2, wish2, copy, s, sh, j)
    BY DEF Regains, Returning
<1> QED BY <1>1, <1>2, <1>3, <1>4 DEF Right, Hides

\* Nothing is on its way, and nobody sees anybody.
LEMMA HidesNobody ==
    ASSUME NEW deny, NEW wish, NEW copy, NEW j, j \in deny <=> j \in wish
    PROVE  Hides(<<>>, <<>>, deny, wish, copy, {}, {}, j)
BY DEF Hides, Reaches, Warned, Consistent, Clean, Of

\* The state, for every contact the list did not come too late for.
InSight ==
    ~hist.overlapped /\ ~hist.refused =>
        \A j \in Contacts \ hist.late :
            /\ Hides(up, down, server.deny, hist.wish, list.deny, seen, shown, j)
            /\ online => Regains(up, down, server.deny, hist.wish, list.deny, seen, shown, j)

\* Who is denied: all of the list, or nobody, and then everybody sees us.
LEMMA EffectiveIs ==
    ASSUME TypeOK, Phases
    PROVE  /\ Effective = server.deny \/ Effective = {}
           /\ Effective = {} /\ server.deny # {} /\ ~hist.refused /\ online
                  /\ Of(up, "presence") = {} => seen = Authorized
BY DEF Effective, Phases, Selected

\* The steps of the server.
LEMMA ServerSight ==
    ASSUME TypeOK, Phases, InSight, ServerTakes PROVE InSight'
<1>0. /\ up \in Seq(Requests) /\ up # <<>> /\ up' = Tail(up) /\ Request = Head(up) /\ online
      /\ down \in Seq(Answers) /\ server \in Servers /\ hist \in Hists
      /\ server.deny \in SUBSET Contacts /\ server.made \in BOOLEAN
      /\ server.dflt \in {"none", "blocked", "other"}
      /\ list' = list /\ shown' = shown /\ seen \in SUBSET Authorized
    BY DEF TypeOK, ServerTakes, Servers, Taken, Request, TakePresence, TakeUnavailable, TakeReturn,
           TakeNames, TakeGet, TakeSet, TakeActive, TakeDefault, TakeRefused
<1>r. CASE TakeRefused
    <2>1. hist'.refused
        BY <1>0, <1>r, HistFields DEF TakeRefused
    <2> QED BY <2>1 DEF InSight
<1>h. ASSUME ~TakeRefused
      PROVE  /\ hist'.wish = hist.wish /\ hist'.overlapped = hist.overlapped
             /\ hist'.refused = hist.refused
             /\ TakePresence => hist'.late = hist.late \cup (server.deny \ Effective)
             /\ ~TakePresence => hist'.late = hist.late
    <2>1. TakePresence => hist' = [hist EXCEPT !.late = hist.late \cup (server.deny \ Effective)]
        BY DEF TakePresence
    <2>2. ~TakePresence => hist' = hist
        <3>1. CASE TakeUnavailable \/ TakeReturn \/ TakeNames \/ TakeGet
            BY <3>1 DEF TakeUnavailable, TakeReturn, TakeNames, TakeGet
        <3>2. CASE TakeSet \/ TakeActive \/ TakeDefault
            BY <3>2 DEF TakeSet, TakeActive, TakeDefault
        <3> QED BY <1>h, <3>1, <3>2 DEF ServerTakes
    <2>3. TakePresence => hist'.late = hist.late \cup (server.deny \ Effective)
        <3> DEFINE l == hist.late \cup (server.deny \ Effective)
        <3>1. TakePresence => hist' = [hist EXCEPT !.late = l]
            BY <2>1
        <3> HIDE DEF l
        <3>2. [hist EXCEPT !.late = l].late = l
            BY <1>0 DEF Hists
        <3>3. TakePresence => hist'.late = l
            BY <3>1, <3>2, Zenon
        <3> QED BY <3>3 DEF l
    <2> QED BY <1>h, <2>2, <2>3, ServerHist
<1>1. SUFFICES ASSUME ~TakeRefused, ~hist.overlapped, ~hist.refused,
                      NEW j \in Contacts, j \notin hist'.late
               PROVE  Right(up', down', server'.deny, hist.wish, list.deny, seen', shown, j)
    BY <1>0, <1>r, <1>h DEF InSight, Right
<1>2. Right(up, down, server.deny, hist.wish, list.deny, seen, shown, j)
    BY <1>0, <1>1, <1>h DEF InSight, Right
<1>3. CASE TakeNames \/ TakeGet \/ TakeActive \/ TakeDefault
    <2>1. /\ Request.type \notin {"presence", "unavailable", "return", "set"}
          /\ seen' = seen
        BY <1>3 DEF TakeNames, TakeGet, TakeActive, TakeDefault
    <2>2. server'.deny = server.deny
        BY <1>0, <1>3 DEF TakeNames, TakeGet, TakeActive, TakeDefault, Servers
    <2>3. \/ down' = down
          \/ \E x \in Answers : /\ x.type # "presence" /\ down' = Append(down, x)
                                /\ x.type = "list" => x.deny = server.deny
        <3>1. CASE TakeNames
            <4>1. down' = Append(down, Names(server.made, server.dflt))
                BY <3>1 DEF TakeNames, Answer
            <4> QED BY <1>0, <4>1, AnswersAre
        <3>2. CASE TakeGet
            <4>1. \/ down' = Append(down, ListIs(server.deny))
                  \/ down' = Append(down, Stanza("error"))
                BY <3>2 DEF TakeGet, Answer
            <4> QED BY <1>0, <4>1, AnswersAre
        <3>3. CASE TakeActive \/ TakeDefault
            BY <3>3 DEF TakeActive, TakeDefault
        <3> QED BY <1>3, <3>1, <3>2, <3>3
    <2>4. Right(up', down, server.deny, hist.wish, list.deny, seen, shown, j)
        BY <1>0, <1>2, <2>1, RightTaken DEF Right
    <2>5. up' \in Seq(Requests)
        BY <1>0, HeadAndTail
    <2>6. ASSUME NEW x \in Answers, x.type # "presence", x.type = "list" => x.deny = server.deny
          PROVE  Right(up', Append(down, x), server.deny, hist.wish, list.deny, seen, shown, j)
        BY <1>0, <2>4, <2>5, <2>6, RightAnswered DEF Right
    <2> QED BY <2>1, <2>2, <2>3, <2>4, <2>6
<1>4. CASE TakeSet
    <2>1. /\ Request.type = "set" /\ seen' = seen /\ down' = Append(down, Stanza("push"))
        BY <1>4 DEF TakeSet, Answer
    <2>2. server'.deny = Request.deny
        BY <1>0, <1>4 DEF TakeSet, Servers
    <2>3. Right(up', down, Request.deny, hist.wish, list.deny, seen, shown, j)
        BY <1>0, <1>2, <2>1, RightSet
    <2>4. up' \in Seq(Requests)
        BY <1>0, HeadAndTail
    <2>5. Stanza("push") \in Answers /\ Stanza("push").type = "push"
        BY AnswersAre
    <2>6. Right(up', Append(down, Stanza("push")), Request.deny, hist.wish, list.deny, seen, shown, j)
        BY <1>0, <2>3, <2>4, <2>5, RightAnswered DEF Right
    <2> QED BY <2>1, <2>2, <2>6
<1>5. CASE TakeUnavailable
    <2>1. /\ Request.type = "unavailable" /\ seen' = seen \ (Request.who \ Effective)
          /\ UNCHANGED <<server, down>>
        BY <1>5 DEF TakeUnavailable
    <2>2. Effective \subseteq server.deny
        BY EffectiveIs
    <2>3. /\ j \in seen' => j \in seen /\ (j \in Request.who => j \in server.deny)
          /\ j \in seen /\ j \notin seen' => j \in Request.who
        BY <2>1, <2>2
    <2>4. Announced(up)
        BY DEF Phases
    <2>5. Right(Tail(up), down, server.deny, hist.wish, list.deny, seen', shown, j)
        BY <1>0, <1>2, <2>1, <2>3, <2>4, RightWarned
    <2> QED BY <1>0, <2>1, <2>5
<1>6. CASE TakeReturn
    <2> DEFINE back == (Request.who \cap Authorized) \ Effective
               x == Presence("presence", back)
    <2>1. /\ Request.type = "return" /\ seen' = seen \cup back /\ down' = Append(down, x)
          /\ server' = server
        BY <1>6 DEF TakeReturn, Answer
    <2>2. x \in Answers /\ x.type = "presence" /\ x.who = back
        <3>1. back \in SUBSET Authorized
            OBVIOUS
        <3>2. x.who = back
            BY DEF Presence
        <3> HIDE DEF back
        <3> QED BY <3>1, <3>2, AnswersAre
    <2>3. j \in back => j \notin server.deny
        <3>1. SUFFICES ASSUME j \in back, j \in server.deny PROVE FALSE
            OBVIOUS
        <3>2. j \notin seen
            BY <1>2, <3>1 DEF Right, Hides
        <3>3. Of(up, "presence") = {}
            <4>1. \A i \in Of(up, "presence") : i = 1
                BY DEF Phases, Opening
            <4>2. up[1].type = "return"
                BY <1>0, <2>1, HeadAndTail
            <4> QED BY <4>1, <4>2 DEF Of
        <3>4. Effective = {} /\ server.deny # {}
            BY <3>1, EffectiveIs
        <3>5. seen = Authorized
            BY <1>0, <1>1, <3>3, <3>4, EffectiveIs
        <3> QED BY <3>1, <3>2, <3>5
    <2>4. j \in Authorized /\ j \notin server.deny /\ j \in Request.who => j \in back
        BY EffectiveIs
    <2> HIDE DEF x, back
    <2>5. Right(Tail(up), Append(down, x), server.deny, hist.wish, list.deny, seen', shown, j)
        BY <1>0, <1>2, <2>1, <2>2, <2>3, <2>4, RightReturned
    <2> QED BY <1>0, <2>1, <2>5
<1>7. CASE TakePresence
    <2> DEFINE back == Authorized \ Effective
               x == Presence("presence", back)
    <2>1. /\ Request.type = "presence" /\ seen' = back /\ down' = Append(down, x)
          /\ server' = server
        BY <1>7 DEF TakePresence, Answer
    <2>2. x \in Answers /\ x.type = "presence" /\ x.who = back
        <3>1. back \in SUBSET Authorized
            OBVIOUS
        <3>2. x.who = back
            BY DEF Presence
        <3> HIDE DEF back
        <3> QED BY <3>1, <3>2, AnswersAre
    <2>3. j \in back => j \notin server.deny
        BY <1>1, <1>7, <1>h
    <2>4. j \in Authorized /\ j \notin server.deny => j \in back
        BY EffectiveIs
    <2>5. seen = {}
        <3>1. 1 \in Of(up, "presence")
            BY <1>0, <2>1, HeadAndTail DEF Of
        <3> QED BY <3>1 DEF Phases, Opening
    <2> HIDE DEF x, back
    <2>6. Right(Tail(up), Append(down, x), server.deny, hist.wish, list.deny, seen', shown, j)
        BY <1>0, <1>2, <2>1, <2>2, <2>3, <2>4, <2>5, RightReturned
    <2> QED BY <1>0, <2>1, <2>6
<1> QED BY <1>1, <1>3, <1>4, <1>5, <1>6, <1>7 DEF ServerTakes

\* The steps of the client.
LEMMA ClientSight ==
    ASSUME TypeOK, Phases, InSight, ClientTakes PROVE InSight'
<1>0. /\ up \in Seq(Requests) /\ down \in Seq(Answers) /\ down # <<>> /\ down' = Tail(down)
      /\ Incoming = Head(down) /\ online /\ online' = online /\ hist \in Hists
      /\ server' = server /\ seen' = seen
    BY DEF TypeOK, ClientTakes, PresenceReceived, ListsReceived, ListsError, OtherError,
           PrivacyListChanged, ListReceived, Received, Incoming
<1>h. /\ hist'.wish = hist.wish /\ hist'.late = hist.late /\ hist'.refused = hist.refused
      /\ hist.overlapped => hist'.overlapped
      /\ ListsReceived /\ ~Incoming.made /\ hist.wish # {} => hist'.overlapped
    <2>1. CASE ListsReceived
        <3> DEFINE o == hist.overlapped \/ (~Incoming.made /\ hist.wish # {})
        <3>1. hist' = [hist EXCEPT !.overlapped = o]
            BY <2>1 DEF ListsReceived
        <3>2. hist'.overlapped = o
            BY <1>0, <3>1, HistFields
        <3> HIDE DEF o
        <3>3. hist'.wish = hist.wish /\ hist'.late = hist.late /\ hist'.refused = hist.refused
            BY <1>0, <3>1, HistFields, LateFields
        <3> QED BY <3>2, <3>3 DEF o
    <2>2. CASE ~ListsReceived
        <3>1. hist' = hist
            BY <2>2 DEF ClientTakes, PresenceReceived, ListsError, OtherError,
                   PrivacyListChanged, ListReceived
        <3> QED BY <2>2, <3>1
    <2> QED BY <2>1, <2>2
<1>1. SUFFICES ASSUME ~hist'.overlapped, ~hist.overlapped, ~hist.refused,
                      NEW j \in Contacts, j \notin hist.late
               PROVE  Right(up', down', server.deny, hist.wish, list'.deny, seen, shown', j)
    BY <1>0, <1>h DEF InSight, Right
<1>2. Right(up, down, server.deny, hist.wish, list.deny, seen, shown, j)
    BY <1>0, <1>1 DEF InSight, Right
<1>3. ASSUME Incoming.type \notin {"presence", "list"}
      PROVE  Right(up, Tail(down), server.deny, hist.wish, list.deny, seen, shown, j)
    BY <1>0, <1>2, <1>3, RightReceived DEF Right
<1>4. Tail(down) \in Seq(Answers)
    BY <1>0, HeadAndTail
<1>5. CASE ListsError \/ OtherError
    <2>1. Incoming.type \notin {"presence", "list"} /\ UNCHANGED <<up, list, shown>>
        BY <1>5 DEF ListsError, OtherError
    <2> QED BY <1>0, <1>3, <2>1
<1>6. CASE PrivacyListChanged
    <2>1. /\ Incoming.type \notin {"presence", "list"} /\ UNCHANGED <<list, shown>>
          /\ up' = Append(up, Stanza("get"))
        BY <1>6 DEF PrivacyListChanged
    <2>2. Stanza("get") \in Requests /\ Stanza("get").type = "get"
        BY RequestsAre
    <2>3. /\ <<Stanza("get")>> \in Seq(Requests) /\ Of(<<Stanza("get")>>, "set") = {}
          /\ up' = up \o <<Stanza("get")>>
        BY <1>0, <2>1, <2>2, NoneOf, AppendIs
    <2>4. Right(up \o <<Stanza("get")>>, Tail(down), server.deny, hist.wish, list.deny, seen, shown, j)
        BY <1>0, <1>3, <1>4, <2>1, <2>3, RightSent DEF Right
    <2> QED BY <1>0, <2>1, <2>3, <2>4
<1>7. CASE ListsReceived
    <2> DEFINE r == RequestsFor(Incoming.made, Incoming.dflt)
    <2>1. /\ Incoming.type \notin {"presence", "list"} /\ UNCHANGED <<list, shown>>
          /\ up' = up \o r
        BY <1>7 DEF ListsReceived
    <2>2. Incoming.made \in BOOLEAN
        BY <1>7, ReceivedType, AnswersHold DEF ListsReceived
    <2>3. r \in Seq(Requests) /\ \A i \in Of(r, "set") : r[i].deny = {} /\ ~Incoming.made
        BY <2>2, RequestsForOrder
    <2> HIDE DEF r
    <2>4. \A i \in Of(r, "set") : r[i].deny = {} /\ hist.wish = {}
        BY <1>1, <1>7, <1>h, <2>3
    <2>5. Right(up \o r, Tail(down), server.deny, hist.wish, list.deny, seen, shown, j)
        BY <1>0, <1>3, <1>4, <2>1, <2>3, <2>4, RightSent DEF Right
    <2> QED BY <1>0, <2>1, <2>5
<1>8. CASE PresenceReceived
    <2>1. Incoming.type = "presence" /\ UNCHANGED <<list, up>> /\ shown' = shown \cup Incoming.who
        BY <1>8 DEF PresenceReceived
    <2>2. Right(up, Tail(down), server.deny, hist.wish, list.deny, seen, shown', j)
        BY <1>0, <1>2, <2>1, RightShown
    <2> QED BY <1>0, <2>1, <2>2
<1>9. CASE ListReceived
    <2> DEFINE updated == Updated(list.deny, Incoming.deny)
               returned == updated \ Incoming.deny
               x == Presence("return", returned)
    <2>1. /\ Incoming.type = "list" /\ list'.deny = Incoming.deny /\ shown' = shown \ updated
          /\ up' = IF returned = {} THEN up ELSE Append(up, x)
        BY <1>9 DEF ListReceived
    <2>2. x \in Requests /\ x.type = "return" /\ x.who = returned
        <3>1. Incoming.deny \in SUBSET Contacts /\ list.deny \in SUBSET Contacts
            BY <1>9, ReceivedType, AnswersHold DEF ListReceived, TypeOK, Lists
        <3>2. returned \in SUBSET Contacts
            BY <3>1 DEF Updated, Symmetric
        <3> HIDE DEF returned
        <3> QED BY <3>2, RequestsAre
    <2>3. /\ j \in shown' <=> j \in shown /\ (j \in list.deny <=> j \in Incoming.deny)
          /\ j \in list.deny /\ j \notin Incoming.deny => j \in returned
        BY <2>1 DEF Updated, Symmetric
    <2> HIDE DEF updated, returned, x
    <2>4. Of(<<x>>, "set") = {} /\ <<x>> \in Seq(Requests) /\ Append(up, x) = up \o <<x>>
        BY <1>0, <2>2, NoneOf, AppendIs
    <2>5. Right(up \o <<x>>, down, server.deny, hist.wish, list.deny, seen, shown, j)
        BY <1>0, <1>2, <2>4, RightSent DEF Right
    <2>6. /\ Right(up', down, server.deny, hist.wish, list.deny, seen, shown, j)
          /\ up' \in Seq(Requests)
        BY <1>0, <1>2, <2>1, <2>2, <2>4, <2>5
    <2>7. j \in list.deny /\ j \notin Incoming.deny =>
              \E i \in Of(up', "return") : j \in up'[i].who
        <3>1. SUFFICES ASSUME j \in list.deny, j \notin Incoming.deny
                       PROVE  \E i \in Of(up', "return") : j \in up'[i].who
            OBVIOUS
        <3>2. up' = Append(up, x) /\ j \in x.who
            BY <2>1, <2>2, <2>3, <3>1
        <3>3. Len(up) + 1 \in Of(up', "return") /\ up'[Len(up) + 1] = x
            BY <1>0, <2>2, <3>2, AppendOf DEF Appended
        <3> QED BY <3>2, <3>3
    <2>8. Right(up', Tail(down), server.deny, hist.wish, Incoming.deny, seen, shown', j)
        BY <1>0, <2>1, <2>3, <2>6, <2>7, RightCopied
    <2> QED BY <1>0, <2>1, <2>8
<1> QED BY <1>5, <1>6, <1>7, <1>8, <1>9 DEF ClientTakes

\* The user blocks or unblocks k.
LEMMA UserSight ==
    ASSUME TypeOK, InSight, NEW k \in Contacts, SetContactBlocked(k) PROVE InSight'
<1>0. /\ up \in Seq(Requests) /\ down \in Seq(Answers) /\ online /\ online' = online
      /\ UNCHANGED <<server, list, down, seen, shown>>
    BY DEF TypeOK, SetContactBlocked
<1>1. SUFFICES ASSUME ~hist'.overlapped, ~hist.refused, NEW j \in Contacts, j \notin hist'.late
               PROVE  Right(up', down, server.deny, hist'.wish, list.deny, seen, shown, j)
    BY <1>0, UserHist DEF InSight, Right
<1>2. /\ list.made /\ list.deny = hist.wish /\ ~hist.overlapped
      /\ hist'.wish = (IF k \in list.deny THEN hist.wish \ {k} ELSE hist.wish \cup {k})
      /\ hist'.late = (IF Contested(k) THEN hist.late \cup {k} ELSE hist.late)
    BY <1>1, UserHist
<1>3. Right(up, down, server.deny, hist.wish, list.deny, seen, shown, j)
    BY <1>0, <1>1, <1>2 DEF InSight, Right
<1> DEFINE blocked == k \notin list.deny
           r == Blocked(k, blocked)
<1>4. up' = up \o r
    BY <1>2 DEF SetContactBlocked
<1>5. /\ r \in Seq(Requests)
      /\ \A i \in Of(r, "set") : /\ r[i].deny = Replacement(k)
                                 /\ blocked /\ k \in Authorized =>
                                        /\ i > 1 /\ i - 1 \in Of(r, "unavailable")
                                        /\ r[i - 1].who = {k}
    BY BlockedOrder
<1> HIDE DEF r
<1>6. \A i \in Of(r, "set") : j \in r[i].deny <=> j \in hist'.wish
    BY <1>2, <1>5 DEF Replacement, Symmetric
<1>7. CASE j # k
    <2>1. j \in hist'.wish <=> j \in hist.wish
        BY <1>2, <1>7
    <2>2. j \in hist.wish => j \in server.deny
        BY <1>2, <1>3 DEF Right, Hides, Consistent
    <2>3. \A i \in Of(r, "set") : /\ j \in r[i].deny <=> j \in hist.wish
                                  /\ j \in r[i].deny => j \in server.deny
        BY <1>6, <2>1, <2>2
    <2>4. Right(up \o r, down, server.deny, hist.wish, list.deny, seen, shown, j)
        BY <1>0, <1>3, <1>5, <2>3, RightSent DEF Right
    <2>5. Right(up \o r, down, server.deny, hist'.wish, list.deny, seen, shown, j)
        BY <2>1, <2>4 DEF Right, Hides, Regains, Reaches, Consistent
    <2> QED BY <1>4, <2>5
<1>8. CASE j = k
    <2>1. j \in hist'.wish <=> j \notin hist.wish
        BY <1>2, <1>8
    <2>2. \A i \in Of(down, "list") : j \in down[i].deny <=> j \in list.deny
        <3>1. ~Contested(j)
            BY <1>1, <1>2, <1>8
        <3> QED BY <3>1 DEF Contested, Of, Symmetric
    <2>3. \A i \in Of(r, "set") :
              /\ j \in r[i].deny <=> j \in hist'.wish
              /\ j \in r[i].deny /\ j \in Authorized =>
                     i > 1 /\ i - 1 \in Of(r, "unavailable") /\ j \in r[i - 1].who
        BY <1>2, <1>5, <1>6, <1>8
    <2>4. Right(up \o r, down, server.deny, hist'.wish, list.deny, seen, shown, j)
        BY <1>0, <1>2, <1>3, <1>5, <2>1, <2>2, <2>3, RightToggled
    <2> QED BY <1>4, <2>4
<1> QED BY <1>7, <1>8

\* Another resource does.
LEMMA OtherSight ==
    ASSUME TypeOK, WishSettles, InSight, NEW k \in Contacts, OtherSetsBlocked(k) PROVE InSight'
<1>0. /\ up \in Seq(Requests) /\ down \in Seq(Answers) /\ server \in Servers
      /\ UNCHANGED <<list, online, up, seen, shown>>
      /\ down' = IF online THEN Append(down, Stanza("push")) ELSE down
    BY DEF TypeOK, OtherSetsBlocked
<1>1. SUFFICES ASSUME ~hist'.overlapped, ~hist.refused, NEW j \in Contacts, j \notin hist'.late
               PROVE  /\ Hides(up, down', server'.deny, hist'.wish, list.deny, seen, shown, j)
                      /\ online => Regains(up, down', server'.deny, hist'.wish, list.deny,
                                           seen, shown, j)
    BY <1>0, OtherHist DEF InSight
<1>2. /\ ~hist.overlapped /\ Of(up, "set") = {}
      /\ hist'.wish = (IF k \in server.deny THEN hist.wish \ {k} ELSE hist.wish \cup {k})
      /\ j \notin hist.late
      /\ j = k => j \notin (server.deny \ list.deny) \cup (seen \ server.deny)
    BY <1>1, OtherHist
<1>3. server'.deny = Symmetric(server.deny, {k})
    BY <1>0 DEF OtherSetsBlocked, Servers
<1>4. server.deny = hist.wish
    <2>1. ~Holds(up, "set")
        BY <1>2 DEF Of, Holds
    <2> QED BY <1>1, <1>2, <2>1 DEF WishSettles, Settles
<1>5. /\ Hides(up, down, server.deny, hist.wish, list.deny, seen, shown, j)
      /\ online => Regains(up, down, server.deny, hist.wish, list.deny, seen, shown, j)
    BY <1>1, <1>2 DEF InSight
<1>6. /\ Hides(up, down, server'.deny, hist'.wish, list.deny, seen, shown, j)
      /\ online => Regains(up, down, server'.deny, hist'.wish, list.deny, seen, shown, j)
    <2>1. CASE j # k
        <3>1. /\ j \in server'.deny <=> j \in server.deny
              /\ j \in hist'.wish <=> j \in hist.wish
            BY <1>2, <1>3, <2>1 DEF Symmetric
        <3> QED BY <1>5, <3>1 DEF Hides, Regains, Reaches, Warned, Consistent
    <2>2. CASE j = k
        <3>1. /\ j \in server'.deny <=> j \notin server.deny
              /\ j \in hist'.wish <=> j \notin hist.wish
              /\ j \in server.deny => j \in list.deny
              /\ j \in seen => j \in server.deny
            BY <1>2, <1>3, <1>4, <2>2 DEF Symmetric
        <3> QED BY <1>0, <1>2, <1>4, <1>5, <3>1, RightElsewhere DEF Right
    <2> QED BY <2>1, <2>2
<1>7. Stanza("push") \in Answers /\ Stanza("push").type = "push"
    BY AnswersAre
<1>8. CASE online
    <2>1. Right(up, Append(down, Stanza("push")), server'.deny, hist'.wish, list.deny, seen, shown, j)
        BY <1>0, <1>6, <1>7, <1>8, RightAnswered DEF Right
    <2> QED BY <1>0, <1>8, <2>1 DEF Right
<1>9. CASE ~online
    BY <1>0, <1>6, <1>9
<1> QED BY <1>8, <1>9

\* Every step.
LEMMA SightStep ==
    ASSUME TypeOK, Phases, WishSettles, InSight, [Next]_vars PROVE InSight'
<1>0. up \in Seq(Requests) /\ down \in Seq(Answers) /\ server \in Servers /\ hist \in Hists
    BY DEF TypeOK
<1>1. CASE Login
    <2> DEFINE r == <<Stanza("presence"), Stanza("names")>>
    <2>1. /\ up = <<>> /\ down = <<>> /\ up' = r
          /\ UNCHANGED <<server, list, down, seen, shown, hist>>
        BY <1>1 DEF Login, TypeOK
    <2>2. /\ Stanza("presence") \in Requests /\ Stanza("presence").type = "presence"
          /\ Stanza("names") \in Requests /\ Stanza("names").type = "names"
        BY RequestsAre
    <2>3. r \in Seq(Requests) /\ DOMAIN r = {1, 2} /\ r[1] = Stanza("presence") /\ r[2] = Stanza("names")
        BY <2>2
    <2>4. Of(r, "set") = {} /\ Of(r, "presence") # {}
        BY <2>2, <2>3 DEF Of
    <2> HIDE DEF r
    <2>5. up \o r = r
        BY <2>1, <2>3
    <2>6. SUFFICES ASSUME ~hist.overlapped, ~hist.refused, NEW j \in Contacts, j \notin hist.late
                   PROVE  Right(r, down, server.deny, hist.wish, list.deny, seen, shown, j)
        BY <2>1 DEF InSight, Right
    <2>7. Hides(up, down, server.deny, hist.wish, list.deny, seen, shown, j)
        BY <2>6 DEF InSight
    <2>8. Hides(up \o r, down, server.deny, hist.wish, list.deny, seen, shown, j)
        BY <1>0, <2>3, <2>4, <2>7, RightSent
    <2> QED BY <2>4, <2>5, <2>8 DEF Right, Regains
<1>2. CASE Disconnect
    <2>1. /\ up' = <<>> /\ down' = <<>> /\ seen' = {} /\ shown' = {} /\ ~online'
        BY <1>2 DEF Disconnect
    <2>2. server'.deny = server.deny
        BY <1>0, <1>2 DEF Disconnect, Servers
    <2>3. /\ hist'.wish = hist.wish
          /\ hist'.overlapped = (hist.overlapped \/ server.deny # hist.wish)
        BY <1>0, <1>2, HistFields DEF Disconnect
    <2>4. ~hist'.overlapped => \A j : j \in server'.deny <=> j \in hist'.wish
        BY <2>2, <2>3
    <2> QED BY <2>1, <2>4, HidesNobody DEF InSight
<1>3. CASE UNCHANGED vars
    BY <1>3 DEF vars, InSight
<1> QED BY <1>1, <1>2, <1>3, ServerSight, ClientSight, UserSight, OtherSight DEF Next

\* The initial states.
LEMMA InitAll == ASSUME Init PROVE TypeOK /\ WishSettles /\ CopySettles /\ Phases /\ InSight
<1>1. hist = [wish |-> server.deny, changes |-> 0, breaks |-> 0,
              overlapped |-> FALSE, refused |-> FALSE, late |-> {}]
      /\ server \in Servers /\ ~server.active /\ up = <<>> /\ down = <<>> /\ ~available
    BY DEF Init, Servers
<1>2. hist \in Hists
    BY <1>1, BoundAssumption DEF Hists, Servers
<1>3. TypeOK
    <2>1. /\ list \in Lists /\ (~list.made => list.deny = {}) /\ available = FALSE
          /\ online = FALSE /\ seen = {} /\ shown = {}
          /\ ~server.made => server.deny = {} /\ server.dflt # "blocked"
        BY DEF Init, NoList, Lists
    <2>2. up \in Seq(Requests) /\ down \in Seq(Answers)
        BY <1>1
    <2> QED BY <1>1, <1>2, <2>1, <2>2 DEF TypeOK
<1>4. WishSettles
    BY <1>1, SettlesEmpty DEF WishSettles
<1>5. online = FALSE /\ seen = {} /\ shown = {} /\ hist.wish = server.deny
    BY <1>1 DEF Init
<1>6. \A t : Of(up, t) = {} /\ Of(down, t) = {}
    BY <1>1 DEF Of
<1>7. Phases
    BY <1>1, <1>5, <1>6 DEF Phases, Opening, Selected, Announced, Follows
<1>8. InSight
    <2>1. \A j : Hides(<<>>, <<>>, server.deny, hist.wish, list.deny, {}, {}, j)
        BY <1>5, HidesNobody
    <2> QED BY <1>1, <1>5, <2>1 DEF InSight
<1> QED BY <1>1, <1>3, <1>4, <1>7, <1>8 DEF CopySettles

\* The state stays well-formed: a list that does not exist is neither active nor
\* the default (listsReceived makes it before it selects it), and no stanza crosses
\* a session.
THEOREM TypeCorrect == Spec => []TypeOK
<1>1. TypeOK /\ [Next]_vars => TypeOK'
    BY TypeStep
<1> QED BY <1>1, InitAll, PTL DEF Spec

\* What the user blocked or unblocked is what the server denies once nothing is on
\* its way, whatever the contacts and the number of changes, but for the four ways
\* WishIsKept names (setContactBlocked :241-266).
THEOREM WishKept == Spec => []WishIsKept
<1>1. TypeOK /\ WishSettles /\ [Next]_vars => WishSettles'
    BY WishStep
<1>2. WishSettles => WishIsKept
    BY SettlesEmpty DEF WishSettles, WishIsKept, Quiet
<1> QED BY <1>1, <1>2, InitAll, TypeCorrect, PTL DEF Spec

\* The copy is the list of the server when nothing is on its way: every change is
\* announced, and every announcement asks again (privacyListChanged :313-317).
THEOREM CopyCurrent == Spec => []CopyIsCurrent
<1>1. TypeOK /\ CopySettles /\ [Next]_vars => CopySettles'
    BY CopyStep
<1>2. TypeOK /\ CopySettles => CopyIsCurrent
    <2>1. SUFFICES ASSUME TypeOK, CopySettles, Quiet, available, server.made, ~hist.refused
                   PROVE  list = [made |-> TRUE, deny |-> server.deny]
        BY DEF CopyIsCurrent
    <2>2. up = <<>> /\ down = <<>>
        BY <2>1 DEF Quiet
    <2>3. ~Due /\ ~Holds(down, "list")
        BY <2>2 DEF Due, Holds
    <2>4. list.made /\ list.deny = server.deny
        BY <2>1, <2>2, <2>3, SettlesEmpty DEF CopySettles, Answered
    <2> QED BY <2>1, <2>4 DEF TypeOK, Lists
<1> QED BY <1>1, <1>2, InitAll, TypeCorrect, PTL DEF Spec

\* What the two theorems below rest on: well-formedness, what the last list of a
\* kind on its way decides, the order of a session, and what is on its way to and
\* about each contact.
THEOREM SightCorrect == Spec => [](TypeOK /\ WishSettles /\ CopySettles /\ Phases /\ InSight)
<1>1. TypeOK /\ WishSettles /\ CopySettles /\ Phases /\ InSight /\ [Next]_vars
          => (TypeOK /\ WishSettles /\ CopySettles /\ Phases /\ InSight)'
    BY TypeStep, WishStep, CopyStep, PhasesStep, SightStep
<1> QED BY <1>1, InitAll, PTL DEF Spec

\* What a state with nothing on its way says of the lists.
LEMMA QuietIs ==
    ASSUME TypeOK, WishSettles, CopySettles, Phases, Quiet, available,
           ~hist.overlapped, ~hist.refused
    PROVE  /\ online /\ up = <<>> /\ down = <<>>
           /\ \A t : Of(up, t) = {} /\ Of(down, t) = {}
           /\ server.deny = hist.wish
           /\ server.active /\ list.deny = server.deny
<1>1. online /\ up = <<>> /\ down = <<>>
    BY DEF Quiet
<1>2. \A t : Of(up, t) = {} /\ Of(down, t) = {}
    BY <1>1 DEF Of
<1>3. server.deny = hist.wish
    BY <1>1, SettlesEmpty DEF WishSettles
<1>4. server.active /\ server.made
    BY <1>2 DEF Phases, Selected, TypeOK
<1>5. ~Due /\ ~Holds(down, "list")
    BY <1>1 DEF Due, Holds
<1>6. list.deny = server.deny
    BY <1>1, <1>4, <1>5, SettlesEmpty DEF CopySettles, Answered
<1> QED BY <1>1, <1>2, <1>3, <1>4, <1>6

\* Once nothing is on its way a blocked contact neither sees this resource nor is
\* shown by it, whatever was blocked and unblocked before and in whichever order
\* the stanzas of both resources crossed: the warning goes out before the list
\* (setContactBlocked :246-265), and whatever shows the contact is behind a list
\* that no longer denies it (listReceived :118-134).
THEOREM BlockedHidden == Spec => []BlockedIsHidden
<1>1. ASSUME TypeOK, WishSettles, CopySettles, Phases, InSight PROVE BlockedIsHidden
    <2>1. SUFFICES ASSUME Quiet, available, ~hist.overlapped, ~hist.refused,
                          NEW j \in server.deny \ hist.late
                   PROVE  j \notin seen /\ j \notin shown
        BY <1>1 DEF BlockedIsHidden
    <2>2. j \in Contacts \ hist.late
        BY <1>1 DEF TypeOK, Servers
    <2>3. Hides(up, down, server.deny, hist.wish, list.deny, seen, shown, j)
        BY <1>1, <2>1, <2>2 DEF InSight
    <2>4. server.deny = hist.wish /\ list.deny = server.deny
        BY <1>1, <2>1, QuietIs
    <2> QED BY <2>3, <2>4 DEF Hides, Clean
<1> QED BY <1>1, SightCorrect, PTL

\* Once nothing is on its way whoever is not blocked sees this resource and is shown
\* by it, after any number of changes: what a list newly allows is sent its presence
\* and probed (listReceived :121-134), and nothing else takes it away.
THEOREM AllowedBack == Spec => []AllowedIsBack
<1>1. ASSUME TypeOK, WishSettles, CopySettles, Phases, InSight PROVE AllowedIsBack
    <2>1. SUFFICES ASSUME Quiet, available, ~hist.overlapped, ~hist.refused,
                          NEW j \in Authorized \ (server.deny \cup hist.late)
                   PROVE  j \in seen /\ j \in shown
        BY <1>1 DEF AllowedIsBack
    <2>2. j \in Contacts \ hist.late
        BY <2>1, AuthorizedAssumption
    <2>3. /\ online /\ up = <<>> /\ down = <<>>
          /\ \A t : Of(up, t) = {} /\ Of(down, t) = {}
          /\ server.deny = hist.wish /\ list.deny = server.deny
        BY <1>1, <2>1, QuietIs
    <2>4. Regains(up, down, server.deny, hist.wish, list.deny, seen, shown, j)
        BY <1>1, <2>1, <2>2, <2>3 DEF InSight
    <2>5. ~Returning(up, down, list.deny, j) /\ ~Shows(down, j)
        BY <2>1, <2>3 DEF Returning, Shows
    <2> QED BY <2>1, <2>3, <2>4, <2>5 DEF Regains
<1> QED BY <1>1, SightCorrect, PTL

=============================================================================
