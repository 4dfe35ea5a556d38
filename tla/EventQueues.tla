---------------------------- MODULE EventQueues ----------------------------
(***************************************************************************)
(* Events that wait for the user: the EventQueue of each account           *)
(* (psievent.cpp), the GlobalEventQueue of all enabled accounts            *)
(* (globaleventqueue.cpp) from which the notifier reads, the events file   *)
(* of each account and the numbers of the events (EventIdGenerator), over  *)
(* crashes, restarts and the removal of accounts (psiaccount.cpp).         *)
(*                                                                         *)
(* Every change of a queue rewrites its file.  The next number is an       *)
(* option, and options are written a second after the last change of any.  *)
(* A queue is loaded event by event, and each of them is a change.         *)
(*                                                                         *)
(* A file is replaced at once or not at all (AtomicXmlFile); assertions    *)
(* are compiled out.                                                       *)
(***************************************************************************)
EXTENDS Naturals, Sequences

CONSTANTS
    Accounts,
    Contacts,
    MaxEvents,      \* bound: events received
    MaxBreaks,      \* bound: restarts, accounts switched or removed
    MaxFaults       \* bound: saves of an events file that fail

ASSUME BoundAssumption == MaxEvents \in Nat /\ MaxBreaks \in Nat /\ MaxFaults \in Nat

VARIABLES
    running,
    queue,          \* queue[a]: list_ of the account a
    enabled,        \* the enabled accounts
    accounts,       \* the accounts that exist
    ids, items,     \* ids_ and items_ of the GlobalEventQueue
    nextId,         \* EventIdGenerator::id_
    options,        \* the next number as the options file holds it
    file,           \* file[a]: the events file of a
    loading,        \* loading[a]: what loadQueue still has to enqueue
    hist            \* events received, breaks, faults; unread[a]; the accounts
                    \* whose file is behind; those whose queue was hurt by a
                    \* failed save or a crash in loadQueue; whether numbers
                    \* were lost; what removed accounts left in the global queue

vars == <<running, queue, enabled, accounts, ids, items, nextId, options, file, loading, hist>>

\* An event: its own identity, its account, its sender, the two kinds that
\* behave differently here (a message of a chat comes before a request for
\* authorization), and its number.
Event(ev, a, j, chat, id) == [ev |-> ev, account |-> a, from |-> j, chat |-> chat, id |-> id]
Priority(e) == IF e.chat THEN 1 ELSE 0
Items(s) == {s[i] : i \in DOMAIN s}
Evs(s) == {e.ev : e \in Items(s)}
Ids(s) == {e.id : e \in Items(s)}
Idle == running /\ \A a \in Accounts : loading[a] = <<>>

Init ==
    /\ running = TRUE
    /\ queue = [a \in Accounts |-> <<>>]
    /\ enabled \in SUBSET Accounts
    /\ accounts = Accounts
    /\ ids = <<>> /\ items = <<>>
    /\ nextId = 0 /\ options = 0
    /\ file = [a \in Accounts |-> <<>>]
    /\ loading = [a \in Accounts |-> <<>>]
    /\ hist = [received |-> 0, breaks |-> 0, faults |-> 0, unread |-> [a \in Accounts |-> {}],
               behind |-> {}, hurt |-> {}, numbersLost |-> FALSE, left |-> {}]

----------------------------------------------------------------------------
(* The lists.                                                              *)

\* EventQueue::enqueue: before the first event of a lower priority.
Inserted(s, e) ==
    LET lower == {i \in DOMAIN s : Priority(s[i]) < Priority(e)}
        at == IF lower = {} THEN Len(s) + 1
              ELSE CHOOSE i \in lower : \A k \in lower : i <= k
    IN  SubSeq(s, 1, at - 1) \o <<e>> \o SubSeq(s, at, Len(s))

Without(s, gone) == SelectSeq(s, LAMBDA e : e \notin gone)

\* Seeded fault: only the numbers are removed.
GlobalWithoutIds(gone) ==
    /\ ids' = SelectSeq(ids, LAMBDA n : n \notin {e.id : e \in gone})
    /\ items' = items
\* GlobalEventQueue::dequeue for each of the items: all entries of its number.
GlobalWithout(gone) ==
    /\ ids' = SelectSeq(ids, LAMBDA n : n \notin {e.id : e \in gone})
    /\ items' = Without(items, gone)

\* GlobalEventQueue::peek: the first item of the number.
Peek(n) ==
    LET at == {i \in DOMAIN items : items[i].id = n}
    IN  items[CHOOSE i \in at : \A k \in at : i <= k]

\* Seeded fault: only enabled queues are written.
SaveEnabled(who, h) ==
    /\ file' = [a \in Accounts |-> IF a \in who \cap enabled THEN queue'[a] ELSE file[a]]
    /\ hist' = h
\* queueChanged writes the file of each account in who (EventQueue::toFile);
\* nobody looks at the result.
Save(who, h) ==
    \/ /\ file' = [a \in Accounts |-> IF a \in who THEN queue'[a] ELSE file[a]]
       /\ hist' = [h EXCEPT !.behind = @ \ who]
    \/ /\ who # {} /\ h.faults < MaxFaults
       /\ hist' = [h EXCEPT !.faults = @ + 1, !.behind = @ \cup who]
       /\ UNCHANGED file

----------------------------------------------------------------------------
(* Events come and are read.                                               *)

Enqueue(a, e, h) ==
    /\ queue' = [queue EXCEPT ![a] = Inserted(@, e)]
    /\ IF a \in enabled
       THEN ids' = Append(ids, e.id) /\ items' = Append(items, e)
       ELSE UNCHANGED <<ids, items>>
    /\ Save({a}, h)

\* handleEvent, queueEvent, EventItem::EventItem, EventIdGenerator::getId.
Receive(a, j, chat) ==
    /\ Idle /\ a \in accounts \cap enabled /\ hist.received < MaxEvents
    /\ LET n == hist.received + 1
       IN  Enqueue(a, Event(n, a, j, chat, nextId),
                   [hist EXCEPT !.received = n, !.unread[a] = @ \cup {n}])
    /\ nextId' = nextId + 1
    /\ UNCHANGED <<running, enabled, accounts, options, loading>>

\* The items are taken from their queues, and from the global one when theirs
\* is enabled.
Remove(gone) ==
    /\ queue' = [a \in Accounts |-> Without(queue[a], gone)]
    /\ GlobalWithout({e \in gone : e.account \in enabled})
    /\ Save({e.account : e \in gone},
            [hist EXCEPT !.unread = [a \in Accounts |-> @[a] \ {e.ev : e \in gone}]])
    /\ UNCHANGED <<running, enabled, accounts, nextId, options, loading>>

From(a, j) == {e \in Items(queue[a]) : e.from = j}
FirstOf(a, gone) ==
    {queue[a][i] : i \in {i \in DOMAIN queue[a] :
        queue[a][i] \in gone /\ \A k \in DOMAIN queue[a] : queue[a][k] \in gone => i <= k}}

\* EventQueue::dequeue(Jid): the next event of a contact is read.
Dequeue(a, j) == Idle /\ From(a, j) # {} /\ Remove(FirstOf(a, From(a, j)))
\* dequeueNext
DequeueNext(a) == Idle /\ queue[a] # <<>> /\ Remove({Head(queue[a])})
\* clear(Jid): the contact is removed.
Clear(a, j) == Idle /\ From(a, j) # {} /\ Remove(From(a, j))
\* extractChats: a chat window opens.
ExtractChats(a, j) ==
    LET chats == {e \in From(a, j) : e.chat} IN Idle /\ chats # {} /\ Remove(chats)
\* extractMessages: forwardPendingEvents.
ExtractMessages(a) ==
    LET chats == {e \in Items(queue[a]) : e.chat} IN Idle /\ chats # {} /\ Remove(chats)

\* YaEventNotifier::skip: the first event of all is dropped.  (What an event of
\* a removed account does here is undefined; see left.)
Skip ==
    /\ Idle /\ ids # <<>>
    /\ Peek(Head(ids)).account \in accounts
    /\ Remove({Peek(Head(ids))})

\* YaEventNotifier::skipAll: the first event of all, until there is none.
SkipAll ==
    /\ Idle /\ ids # <<>>
    /\ \A n \in {ids[i] : i \in DOMAIN ids} : Peek(n).account \in accounts
    /\ Remove({Peek(n) : n \in {ids[i] : i \in DOMAIN ids}})

----------------------------------------------------------------------------
(* Accounts are switched and removed.                                      *)

\* EventQueue::setEnabled.
SetEnabled(a, on) ==
    /\ Idle /\ a \in accounts /\ hist.breaks < MaxBreaks
    /\ (a \in enabled) # on
    /\ enabled' = IF on THEN enabled \cup {a} ELSE enabled \ {a}
    /\ IF on
       THEN /\ ids' = ids \o [i \in DOMAIN queue[a] |-> queue[a][i].id]
            /\ items' = items \o queue[a]
       ELSE GlobalWithout(Items(queue[a]))
    /\ hist' = [hist EXCEPT !.breaks = @ + 1]
    /\ UNCHANGED <<running, queue, accounts, nextId, options, file, loading>>

\* PsiContactList::removeAccount, ~PsiAccount, ~EventQueue: the file and the
\* account go, the items stay where they are.
RemoveAccount(a) ==
    /\ Idle /\ a \in accounts /\ hist.breaks < MaxBreaks
    /\ accounts' = accounts \ {a}
    /\ queue' = [queue EXCEPT ![a] = <<>>]
    /\ file' = [file EXCEPT ![a] = <<>>]
    /\ hist' = [hist EXCEPT !.breaks = @ + 1, !.unread[a] = {}, !.behind = @ \ {a},
                !.left = @ \cup (IF a \in enabled THEN Items(queue[a]) ELSE {})]
    /\ UNCHANGED <<running, enabled, ids, items, nextId, options, loading>>

----------------------------------------------------------------------------
(* The program stops and starts.                                           *)

\* PsiOptions::saveToAutoFile, a second after the last change.
SaveOptions ==
    /\ running /\ options # nextId
    /\ options' = nextId
    /\ UNCHANGED <<running, queue, enabled, accounts, ids, items, nextId, file, loading, hist>>

\* The queues whose file holds only what loadQueue has enqueued so far.
Cut == {a \in accounts : loading[a] # <<>> /\ queue[a] # <<>> /\ file[a] = queue[a]}

Stopped ==
    /\ running' = FALSE
    /\ queue' = [a \in Accounts |-> <<>>]
    /\ loading' = [a \in Accounts |-> <<>>]
    /\ ids' = <<>> /\ items' = <<>>
    /\ nextId' = 0
    /\ UNCHANGED <<enabled, accounts, file>>

\* Seeded fault: the options are not written at the end.
QuitUnsaved ==
    /\ Idle /\ hist.breaks < MaxBreaks
    /\ Stopped
    /\ hist' = [hist EXCEPT !.breaks = @ + 1, !.behind = {}, !.left = {},
                !.hurt = @ \cup hist.behind]
    /\ UNCHANGED options
\* ~PsiOptions writes the options.
Quit ==
    /\ Idle /\ hist.breaks < MaxBreaks
    /\ Stopped
    /\ options' = nextId
    /\ hist' = [hist EXCEPT !.breaks = @ + 1, !.behind = {}, !.left = {},
                !.hurt = @ \cup hist.behind]

Crash ==
    /\ running /\ hist.breaks < MaxBreaks
    /\ Stopped
    /\ hist' = [hist EXCEPT !.breaks = @ + 1, !.behind = {}, !.left = {},
                !.hurt = @ \cup hist.behind \cup Cut,
                !.numbersLost = @ \/ options # nextId]
    /\ UNCHANGED options

Start ==
    /\ ~running
    /\ running' = TRUE
    /\ nextId' = options
    /\ loading' = [a \in Accounts |-> IF a \in accounts THEN file[a] ELSE <<>>]
    /\ UNCHANGED <<queue, enabled, accounts, ids, items, options, file, hist>>

\* One event of loadQueue (EventQueue::fromFile, fromXml, eventFromXml): it
\* keeps its number; one account after the other.
LoadNext(a) ==
    /\ running /\ loading[a] # <<>>
    /\ \A b \in Accounts \ {a} : loading[b] # <<>> => queue[b] = <<>>
    /\ loading' = [loading EXCEPT ![a] = Tail(@)]
    /\ Enqueue(a, Head(loading[a]), hist)
    /\ UNCHANGED <<running, enabled, accounts, nextId, options>>

Next ==
    \/ \E a \in Accounts, j \in Contacts :
        \/ \E chat \in BOOLEAN : Receive(a, j, chat)
        \/ Dequeue(a, j) \/ Clear(a, j) \/ ExtractChats(a, j)
    \/ \E a \in Accounts :
        \/ DequeueNext(a) \/ ExtractMessages(a)
        \/ \E on \in BOOLEAN : SetEnabled(a, on)
        \/ RemoveAccount(a) \/ LoadNext(a)
    \/ Skip \/ SkipAll
    \/ SaveOptions \/ Quit \/ Crash \/ Start

Spec == Init /\ [][Next]_vars

----------------------------------------------------------------------------
Queues == [Accounts -> Seq([ev : 1..MaxEvents, account : Accounts, from : Contacts,
                            chat : BOOLEAN, id : 0..MaxEvents])]

\* The type of the state.
TypeOK ==
    /\ running \in BOOLEAN
    /\ queue \in Queues /\ file \in Queues /\ loading \in Queues
    /\ enabled \subseteq Accounts /\ accounts \subseteq Accounts
    /\ ids \in Seq(0..MaxEvents)
    /\ nextId \in 0..MaxEvents /\ options \in 0..MaxEvents

\* What is loaded or still to be loaded; without the program, what is saved.
Pending(a) == IF running THEN Evs(queue[a]) \cup Evs(loading[a]) ELSE Evs(file[a])

\* Whatever was received and not read is waiting, and nothing that was read
\* comes back, over any number of restarts and also a crash in loadQueue;
\* unless the last save before a stop failed, or the crash came between two
\* events of loadQueue (each of which rewrites the file with those before).
UnreadIsPending ==
    \A a \in accounts \ hist.hurt : Pending(a) = hist.unread[a]

\* The global queue holds exactly the events of the enabled accounts, besides
\* what removed accounts left there (their items still point to the account),
\* and every event can be found under its number, unless numbers were lost in
\* a crash.
GlobalIsUnion ==
    running =>
        /\ Items(items) = UNION {Items(queue[a]) : a \in enabled \cap accounts} \cup hist.left
        /\ Len(ids) = Len(items) \/ hist.numbersLost
        /\ \A e \in Items(items) : Peek(e.id) = e \/ hist.numbersLost

\* No two waiting events have one number, also when they wait since an earlier
\* run, unless the program crashed before the number was written.
NumbersAreUnique ==
    LET waiting == UNION {Items(queue[a]) \cup Items(loading[a]) \cup
                          (IF running THEN {} ELSE Items(file[a])) : a \in accounts}
    IN  hist.numbersLost \/ \A e, f \in waiting : e.id = f.id => e = f
=============================================================================
