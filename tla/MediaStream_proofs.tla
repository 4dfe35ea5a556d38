------------------------- MODULE MediaStream_proofs -------------------------
(***************************************************************************)
(* Proofs about MediaStream, for any payload types and any number of       *)
(* blocks, packets and restarts: the worker is alone when it replaces the  *)
(* codec and the session, what is recorded is sent in order, a running     *)
(* call is silent only for one reason, and a session plays a packet once.  *)
(***************************************************************************)
EXTENDS MediaStream, FiniteSetTheorems, TLAPS

\* Appending to a sequence of numbers.
LEMMA AppendNumbers ==
    \A s \in Numbers, n \in Nat \ {0} : Append(s, n) \in Numbers
  BY DEF Numbers

\* Taking the first of a sequence of numbers.
LEMMA FirstNumbers ==
    \A s \in Numbers : s # <<>> => Head(s) \in Nat \ {0} /\ Tail(s) \in Numbers
  BY DEF Numbers

\* Putting two sequences of numbers together.
LEMMA ConcatNumbers ==
    \A s \in Numbers, t \in Numbers : s \o t \in Numbers
  BY DEF Numbers

\* A sequence of numbers all below those of another one.
Below(s, t) == \A i \in DOMAIN s, j \in DOMAIN t : s[i] < t[j]
UpTo(s, n) == \A i \in DOMAIN s : s[i] <= n

\* Two increasing sequences, one below the other, make one.
LEMMA IncreasingConcat ==
    ASSUME NEW s \in Numbers, NEW t \in Numbers,
           Increasing(s), Increasing(t), Below(s, t)
    PROVE  Increasing(s \o t)
<1> SUFFICES ASSUME NEW i \in 1..Len(s \o t) - 1
             PROVE  (s \o t)[i] < (s \o t)[i + 1]
  BY DEF Increasing
<1>1. Len(s) \in Nat /\ Len(t) \in Nat /\ Len(s \o t) = Len(s) + Len(t)
  BY DEF Numbers
<1>2. \A k \in 1..Len(s) : (s \o t)[k] = s[k]
  BY DEF Numbers
<1>3. \A k \in Len(s) + 1..Len(s) + Len(t) : (s \o t)[k] = t[k - Len(s)]
  BY DEF Numbers
<1>4. CASE i + 1 <= Len(s)
  <2>1. i \in 1..Len(s) - 1 /\ i \in 1..Len(s) /\ i + 1 \in 1..Len(s)
    BY <1>1, <1>4
  <2> QED
    BY <1>2, <2>1 DEF Increasing
<1>5. CASE i = Len(s)
  <2>1. i \in 1..Len(s) /\ i + 1 \in Len(s) + 1..Len(s) + Len(t) /\ i + 1 - Len(s) = 1
    BY <1>1, <1>5
  <2>2. i \in DOMAIN s /\ 1 \in DOMAIN t
    BY <1>1, <1>5, <2>1 DEF Numbers
  <2>3. (s \o t)[i] = s[i] /\ (s \o t)[i + 1] = t[1]
    BY <1>2, <1>3, <2>1
  <2> QED
    BY <2>2, <2>3 DEF Below
<1>6. CASE i > Len(s)
  <2> DEFINE k == i - Len(s)
  <2>1. /\ k \in 1..Len(t) - 1 /\ i + 1 - Len(s) = k + 1
        /\ i \in Len(s) + 1..Len(s) + Len(t) /\ i + 1 \in Len(s) + 1..Len(s) + Len(t)
    BY <1>1, <1>6
  <2>2. (s \o t)[i] = t[k] /\ (s \o t)[i + 1] = t[k + 1]
    BY <1>3, <2>1
  <2> QED
    BY <2>1, <2>2 DEF Increasing
<1> QED
  BY <1>1, <1>4, <1>5, <1>6

\* The next number goes behind an increasing sequence.
LEMMA IncreasingAppend ==
    ASSUME NEW s \in Numbers, NEW n \in Nat, Increasing(s), UpTo(s, n)
    PROVE  Increasing(Append(s, n + 1)) /\ UpTo(Append(s, n + 1), n + 1)
  BY DEF Numbers, Increasing, UpTo

\* What is below, or above, two sequences is so for the one they make.
LEMMA BelowConcat ==
    ASSUME NEW s \in Numbers, NEW t \in Numbers, NEW u \in Numbers, NEW n \in Nat
    PROVE  /\ Below(s, u) /\ Below(t, u) => Below(s \o t, u)
           /\ UpTo(s, n) /\ UpTo(t, n) => UpTo(s \o t, n)
<1>1. ASSUME NEW i \in DOMAIN (s \o t)
      PROVE  \/ i \in DOMAIN s /\ (s \o t)[i] = s[i]
             \/ i - Len(s) \in DOMAIN t /\ (s \o t)[i] = t[i - Len(s)]
  <2>1. Len(s) \in Nat /\ Len(t) \in Nat /\ i \in 1..Len(s) + Len(t)
    BY <1>1 DEF Numbers
  <2>2. CASE i <= Len(s)
    BY <2>1, <2>2 DEF Numbers
  <2>3. CASE i > Len(s)
    BY <2>1, <2>3 DEF Numbers
  <2> QED
    BY <2>1, <2>2, <2>3
<1>2. Below(s, u) /\ Below(t, u) => Below(s \o t, u)
  BY <1>1 DEF Below
<1>3. UpTo(s, n) /\ UpTo(t, n) => UpTo(s \o t, n)
  BY <1>1 DEF UpTo
<1> QED
  BY <1>2, <1>3

\* A number above a sequence does not disturb what is below.
LEMMA BelowAppend ==
    ASSUME NEW s \in Numbers, NEW t \in Numbers, NEW n \in Nat, UpTo(s, n), Below(s, t)
    PROVE  Below(s, Append(t, n + 1)) /\ UpTo(s, n + 1)
  BY DEF Numbers, Below, UpTo

----------------------------------------------------------------------------
\* Who can be where while the worker is in stop() and start().
Threads ==
    /\ wpc # "idle" => ~isRunning
    /\ wpc \in {"abort", "start", "run", "deleted"} => thread = "off"
    /\ wpc \in {"start", "run", "deleted"} => callback = "idle"
    /\ wpc \in {"start", "deleted"} => stream = "none"

\* What was sent, what the MediaThread is about to send, and what waits in the
\* microphone buffer were recorded in this order.
Recorded ==
    /\ Increasing(hist.sent) /\ UpTo(hist.sent, hist.blocks)
    /\ Increasing(micBuffer) /\ UpTo(micBuffer, hist.blocks)
    /\ Below(hist.sent, micBuffer)
    /\ thread = "send" =>
         /\ Increasing(tempMicBuffer) /\ UpTo(tempMicBuffer, hist.blocks)
         /\ Below(hist.sent, tempMicBuffer) /\ Below(tempMicBuffer, micBuffer)

IInv == TypeOK /\ Threads /\ Recorded

\* A channel whose stream was never started.
LEMMA InitIInv == Init => IInv
<1> SUFFICES ASSUME Init PROVE IInv
  OBVIOUS
<1>1. <<>> \in Numbers
  BY DEF Numbers
<1>2. TypeOK
  BY <1>1 DEF Init, TypeOK
<1>3. Recorded
  BY DEF Init, Recorded, Increasing, UpTo, Below
<1> QED
  BY <1>2, <1>3 DEF Init, IInv, Threads

\* The type of hist.
History == [blocks : Nat, received : Nat, starts : Nat, sessions : Nat,
            early : BOOLEAN, sent : Numbers, played : Numbers]

\* The history has its type.
LEMMA HistoryType == TypeOK => hist \in History
  BY DEF TypeOK, History

\* Noting that a packet came and that it changed the codec.
LEMMA HistoryReceived ==
    ASSUME NEW h \in History, NEW n \in Nat, NEW k \in Nat
    PROVE  /\ [h EXCEPT !.received = n, !.starts = k] \in History
           /\ [h EXCEPT !.received = n, !.starts = k].sent = h.sent
           /\ [h EXCEPT !.received = n, !.starts = k].blocks = h.blocks
  BY DEF History

\* Noting that a session began.
LEMMA HistoryStarted ==
    ASSUME NEW h \in History, NEW b \in BOOLEAN, NEW k \in Nat
    PROVE  [h EXCEPT !.early = b, !.sessions = k] \in History
  BY DEF History

\* A packet goes behind the others, or is not kept.
LEMMA EnqueuedNumbers ==
    ASSUME TypeOK, NEW n \in Nat
    PROVE  Enqueued(n) \in Numbers
<1>1. channel.packets \in Numbers
  BY DEF TypeOK
<1> QED
  BY <1>1, AppendNumbers DEF Enqueued

\* SetCodec begins with isRunning = false, whatever packet it is called for.
LEMMA SetCodecIInv ==
    ASSUME IInv, wpc = "idle", NEW p \in Payload, NEW n \in Nat, SetCodec(p, n),
           hist' \in History,
           hist'.sent = hist.sent, hist'.blocks = hist.blocks
    PROVE  IInv'
<1> USE DEF worker, buffers
<1>1. TypeOK'
  BY DEF SetCodec, IInv, TypeOK, History
<1>2. Threads'
  BY DEF SetCodec, IInv, Threads
<1>3. Recorded'
  BY DEF SetCodec, IInv, Recorded
<1> QED
  BY <1>1, <1>2, <1>3 DEF IInv

\* The calls of libjingle.
LEMMA CallsIInv == IInv /\ (SetCodecs \/ OnPacketReceived \/ ChangeState \/ Destroy) => IInv'
<1> SUFFICES ASSUME IInv, SetCodecs \/ OnPacketReceived \/ ChangeState \/ Destroy PROVE IInv'
  OBVIOUS
<1> USE DEF worker, buffers
<1>1. CASE SetCodecs
  <2>1. PICK p \in Known : SetCodec(p, 0)
    BY <1>1 DEF SetCodecs
  <2>2. hist' = [hist EXCEPT !.starts = @ + 1] /\ wpc = "idle" /\ p \in Payload
    BY <1>1 DEF SetCodecs, Payload
  <2> QED
    BY <2>1, <2>2, SetCodecIInv DEF IInv, TypeOK, History
<1>2. CASE OnPacketReceived
  <2> DEFINE n == hist.received + 1
  <2>1. wpc = "idle" /\ n \in Nat /\ hist.received \in Nat
    BY <1>2 DEF OnPacketReceived, IInv, TypeOK
  <2>2. PICK p \in Payload :
          LET kept == IF p = Noise THEN 0 ELSE n
          IN \/ /\ p = channel.pt
                /\ channel' = [channel EXCEPT !.packets = Enqueued(kept)]
                /\ hist' = [hist EXCEPT !.received = n]
                /\ UNCHANGED <<wpc, next, pending, isRunning, stream, sendPacketsFlag,
                               buffers, incoming, thread, callback>>
             \/ /\ p # channel.pt
                /\ SetCodec(p, kept)
                /\ hist' = [hist EXCEPT !.received = n, !.starts = @ + 1]
    BY <1>2 DEF OnPacketReceived
  <2> DEFINE kept == IF p = Noise THEN 0 ELSE n
  <2>3. kept \in Nat
    BY <2>1
  <2>4. CASE p = channel.pt
    <3>1. channel' = [channel EXCEPT !.packets = Enqueued(kept)] /\ Enqueued(kept) \in Numbers
      BY <2>2, <2>3, <2>4, EnqueuedNumbers DEF IInv
    <3>2. hist' = [hist EXCEPT !.received = n]
      BY <2>2, <2>4
    <3>3. UNCHANGED <<wpc, next, pending, isRunning, stream, sendPacketsFlag, buffers,
                      incoming, thread, callback>>
      BY <2>2, <2>4
    <3> HIDE DEF n, kept
    <3>4. TypeOK'
      BY <2>1, <3>1, <3>2, <3>3 DEF IInv, TypeOK
    <3>5. Threads' /\ Recorded'
      BY <3>2, <3>3 DEF IInv, TypeOK, Threads, Recorded
    <3> QED
      BY <3>4, <3>5 DEF IInv
  <2>5. CASE p # channel.pt
    <3>1. SetCodec(p, kept) /\ hist' = [hist EXCEPT !.received = n, !.starts = @ + 1]
      BY <2>2, <2>5
    <3>2. /\ hist'.sent = hist.sent /\ hist'.blocks = hist.blocks
          /\ hist' \in History
      <4>1. hist \in History
        BY HistoryType DEF IInv
      <4>2. hist.starts + 1 \in Nat
        BY <4>1 DEF History
      <4>3. hist' = [hist EXCEPT !.received = n, !.starts = hist.starts + 1]
        BY <3>1
      <4> HIDE DEF n
      <4> QED
        BY <2>1, <4>1, <4>2, <4>3, HistoryReceived
    <3> HIDE DEF n, kept
    <3> QED
      BY <2>1, <2>3, <3>1, <3>2, SetCodecIInv
  <2> QED
    BY <2>4, <2>5
<1>3. CASE ChangeState
  <2>1. UNCHANGED <<wpc, next, pending, isRunning, stream, buffers, incoming, thread, callback, hist>>
    BY <1>3 DEF ChangeState
  <2>2. PICK playout \in BOOLEAN, send \in BOOLEAN :
          channel' = [channel EXCEPT !.play = playout] /\ sendPacketsFlag' = send
    BY <1>3 DEF ChangeState
  <2>3. TypeOK'
    BY <2>1, <2>2 DEF IInv, TypeOK
  <2> QED
    BY <2>1, <2>3 DEF IInv, Threads, Recorded
<1>4. CASE Destroy
  BY <1>4, ZenonT(30) DEF Destroy, IInv, TypeOK, Threads, Recorded
<1> QED
  BY <1>1, <1>2, <1>3, <1>4

\* stop() and start() after their first step.
LEMMA WorkerIInv == IInv /\ Worker => IInv'
<1> SUFFICES ASSUME IInv, Worker PROVE IInv'
  OBVIOUS
<1> USE DEF worker, buffers
<1>1. <<>> \in Numbers /\ Enqueued(pending) \in Numbers
  BY EnqueuedNumbers DEF IInv, TypeOK, Numbers
<1>2. CASE StopWait
  BY <1>2 DEF StopWait, IInv, TypeOK, Threads, Recorded
<1>3. CASE StopAbort
  <2>1. wpc' \in {"deleted", "start"}
    BY <1>3 DEF StopAbort
  <2> QED
    BY <1>1, <1>3, <2>1 DEF StopAbort, IInv, TypeOK, Threads, Recorded
<1>4. CASE StartFails
  BY <1>1, <1>4 DEF StartFails, IInv, TypeOK, Threads, Recorded
<1>5. CASE StartStream
  <2>1. hist'.sent = hist.sent /\ hist'.blocks = hist.blocks
    BY <1>5 DEF StartStream, IInv, TypeOK
  <2>2. TypeOK'
    <3>1. hist' \in History
      <4>1. hist \in History
        BY HistoryType DEF IInv
      <4>2. hist.sessions + 1 \in Nat
        BY <4>1 DEF History
      <4>3. hist' = [hist EXCEPT !.early = FALSE, !.sessions = hist.sessions + 1]
        BY <1>5 DEF StartStream
      <4> QED
        BY <4>1, <4>2, <4>3, HistoryStarted
    <3>2. incoming' \in Numbers
      BY <1>5 DEF StartStream, IInv, TypeOK
    <3> QED
      BY <1>5, <3>1, <3>2 DEF StartStream, IInv, TypeOK, History
  <2> QED
    BY <1>5, <2>1, <2>2 DEF StartStream, IInv, Threads, Recorded
<1>6. CASE StartThread
  BY <1>1, <1>6 DEF StartThread, IInv, TypeOK, Threads, Recorded
<1> QED
  BY <1>2, <1>3, <1>4, <1>5, <1>6 DEF Worker

\* The MediaThread, which runs only while the worker is idle or waits for it.
LEMMA MediaThreadIInv == IInv /\ MediaThread => IInv'
<1> SUFFICES ASSUME IInv, MediaThread PROVE IInv'
  OBVIOUS
<1> USE DEF worker, buffers
<1>1. CASE RunCheck
  BY <1>1 DEF RunCheck, IInv, TypeOK, Threads, Recorded
<1>2. CASE Decode
  <2>1. incoming # <<>> => Append(dspBuffer, Head(incoming)) \in Numbers /\ Tail(incoming) \in Numbers
    BY AppendNumbers, FirstNumbers DEF IInv, TypeOK
  <2>2. dspBuffer' \in Numbers /\ incoming' \in Numbers /\ thread' \in {"poll", "mic"}
    BY <1>2, <2>1 DEF Decode, IInv, TypeOK
  <2>3. UNCHANGED <<worker, isRunning, stream, sendPacketsFlag, micBuffer, tempMicBuffer, callback, hist>>
    BY <1>2 DEF Decode
  <2>4. thread # "off"
    BY <1>2 DEF Decode
  <2> QED
    BY <2>2, <2>3, <2>4 DEF IInv, TypeOK, Threads, Recorded
<1>3. CASE TakeMic
  <2>1. <<>> \in Numbers
    BY DEF Numbers
  <2>2. \A s \in Numbers : Below(s, <<>>)
    BY DEF Below
  <2>3. Increasing(<<>>) /\ UpTo(<<>>, hist.blocks)
    BY DEF Increasing, UpTo
  <2>4. TypeOK' /\ Threads'
    BY <1>3, <2>1 DEF TakeMic, IInv, TypeOK, Threads
  <2>5. Recorded'
    BY <1>3, <2>2, <2>3 DEF TakeMic, IInv, TypeOK, Recorded
  <2> QED
    BY <2>4, <2>5 DEF IInv
<1>4. CASE Send
  <2>1. UNCHANGED <<worker, isRunning, stream, sendPacketsFlag, buffers, incoming, callback>>
    BY <1>4 DEF Send
  <2>2. thread = "send" /\ thread' = "check"
    BY <1>4 DEF Send
  <2>3. hist.sent \in Numbers /\ tempMicBuffer \in Numbers /\ micBuffer \in Numbers /\ hist.blocks \in Nat
    BY DEF IInv, TypeOK
  <2>4. /\ hist.sent \o tempMicBuffer \in Numbers
        /\ Increasing(hist.sent \o tempMicBuffer)
        /\ UpTo(hist.sent \o tempMicBuffer, hist.blocks)
        /\ Below(hist.sent \o tempMicBuffer, micBuffer)
    <3>1. hist.sent \o tempMicBuffer \in Numbers
      BY <2>3, ConcatNumbers
    <3>2. /\ Increasing(hist.sent) /\ Increasing(tempMicBuffer)
          /\ Below(hist.sent, tempMicBuffer) /\ Below(hist.sent, micBuffer)
          /\ Below(tempMicBuffer, micBuffer)
          /\ UpTo(hist.sent, hist.blocks) /\ UpTo(tempMicBuffer, hist.blocks)
      BY <2>2 DEF IInv, Recorded
    <3>3. Increasing(hist.sent \o tempMicBuffer)
      BY <2>3, <3>2, IncreasingConcat
    <3> QED
      BY <2>3, <3>1, <3>2, <3>3, BelowConcat
  <2>5. hist'.blocks = hist.blocks /\ hist'.sent \in {hist.sent, hist.sent \o tempMicBuffer}
    BY <1>4 DEF Send, IInv, TypeOK
  <2>6. TypeOK'
    BY <1>4, <2>1, <2>2, <2>4 DEF Send, IInv, TypeOK
  <2>7. Threads'
    BY <2>1, <2>2 DEF IInv, Threads
  <2>8. Recorded'
    BY <2>1, <2>2, <2>4, <2>5 DEF IInv, Recorded
  <2> QED
    BY <2>6, <2>7, <2>8 DEF IInv
<1> QED
  BY <1>1, <1>2, <1>3, <1>4 DEF MediaThread

\* audioCallback, which enters only a stream that runs.
LEMMA CallbackIInv == IInv /\ (CallbackBegins \/ CallbackEnds) => IInv'
<1> SUFFICES ASSUME IInv, CallbackBegins \/ CallbackEnds PROVE IInv'
  OBVIOUS
<1> USE DEF worker, buffers
<1>1. CASE CallbackBegins /\ isRunning
  <2>1. /\ micBuffer' = Append(micBuffer, hist.blocks + 1)
        /\ hist' = [hist EXCEPT !.blocks = @ + 1]
        /\ callback' = "output"
        /\ UNCHANGED <<worker, isRunning, stream, sendPacketsFlag, dspBuffer, tempMicBuffer,
                       incoming, thread>>
    BY <1>1 DEF CallbackBegins
  <2>2. hist.blocks \in Nat /\ micBuffer \in Numbers /\ hist.sent \in Numbers /\ tempMicBuffer \in Numbers
    BY DEF IInv, TypeOK
  <2>3. Append(micBuffer, hist.blocks + 1) \in Numbers
    BY <2>2, AppendNumbers
  <2>4. hist'.blocks = hist.blocks + 1 /\ hist'.sent = hist.sent
    BY <2>1 DEF IInv, TypeOK
  <2>5. TypeOK'
    BY <2>1, <2>2, <2>3 DEF IInv, TypeOK
  <2>6. Threads'
    BY <1>1, <2>1 DEF IInv, Threads
  <2>7. Increasing(micBuffer') /\ UpTo(micBuffer', hist'.blocks)
    BY <2>1, <2>2, <2>4, IncreasingAppend DEF IInv, Recorded
  <2>8. Below(hist.sent, micBuffer') /\ UpTo(hist.sent, hist'.blocks)
    BY <2>1, <2>2, <2>4, BelowAppend DEF IInv, Recorded
  <2>9. thread = "send" => Below(tempMicBuffer, micBuffer') /\ UpTo(tempMicBuffer, hist'.blocks)
    BY <2>1, <2>2, <2>4, BelowAppend DEF IInv, Recorded
  <2>10. Recorded'
    BY <2>1, <2>4, <2>7, <2>8, <2>9 DEF IInv, Recorded
  <2> QED
    BY <2>5, <2>6, <2>10 DEF IInv
<1>2. CASE CallbackBegins /\ ~isRunning
  <2>1. /\ stream' = "finished"
        /\ hist' = [hist EXCEPT !.early = wpc = "run"]
        /\ UNCHANGED <<worker, isRunning, sendPacketsFlag, buffers, incoming, thread, callback>>
    BY <1>2 DEF CallbackBegins
  <2>2. stream = "active"
    BY <1>2 DEF CallbackBegins
  <2>3. hist'.sent = hist.sent /\ hist'.blocks = hist.blocks
    BY <2>1 DEF IInv, TypeOK
  <2>4. TypeOK'
    BY <2>1, ZenonT(30) DEF IInv, TypeOK
  <2>5. Threads' /\ Recorded'
    BY <2>1, <2>2, <2>3 DEF IInv, Threads, Recorded
  <2> QED
    BY <2>4, <2>5 DEF IInv
<1>3. CASE CallbackEnds
  <2>1. dspBuffer # <<>> => /\ Tail(dspBuffer) \in Numbers
                            /\ Append(hist.played, Head(dspBuffer)) \in Numbers
    BY AppendNumbers, FirstNumbers DEF IInv, TypeOK
  <2>2. hist'.sent = hist.sent /\ hist'.blocks = hist.blocks
    BY <1>3 DEF CallbackEnds, IInv, TypeOK
  <2>3. TypeOK'
    <3>1. dspBuffer' \in Numbers
      BY <1>3, <2>1 DEF CallbackEnds, IInv, TypeOK
    <3>2. hist' \in History
      BY <1>3, <2>1 DEF CallbackEnds, IInv, TypeOK, History
    <3> QED
      BY <1>3, <3>1, <3>2 DEF CallbackEnds, IInv, TypeOK, History
  <2>4. Threads' /\ Recorded'
    BY <1>3, <2>2 DEF CallbackEnds, IInv, Threads, Recorded
  <2> QED
    BY <2>3, <2>4 DEF IInv
<1> QED
  BY <1>1, <1>2, <1>3

\* The inductive invariant holds in every behaviour.
THEOREM Invariance == Spec => []IInv
<1>1. IInv /\ UNCHANGED vars => IInv'
  BY DEF vars, worker, buffers, IInv, TypeOK, Threads, Recorded
<1>2. IInv /\ [Next]_vars => IInv'
  BY <1>1, CallsIInv, WorkerIInv, MediaThreadIInv, CallbackIInv DEF Next
<1> QED
  BY <1>2, InitIInv, PTL DEF Spec

\* The state of the channel, the stream and the three threads keeps its type.
THEOREM TypeCorrect == Spec => []TypeOK
<1>1. IInv => TypeOK
  BY DEF IInv
<1> QED
  BY <1>1, Invariance, PTL

\* start() replaces codec and session, and the destructor deletes the buffers,
\* with the MediaThread and the audio thread outside.
THEOREM AloneCorrect == Spec => []AloneWhenReplacing
<1>1. IInv => AloneWhenReplacing
  BY DEF IInv, Threads, AloneWhenReplacing
<1> QED
  BY <1>1, Invariance, PTL

\* What audioCallback records is sent at most once, in order.
THEOREM SentCorrect == Spec => []SentInOrder
<1>1. IInv => SentInOrder
  BY DEF IInv, Recorded, SentInOrder
<1> QED
  BY <1>1, Invariance, PTL

----------------------------------------------------------------------------
\* While start() goes from Pa_StartStream to isRunning = true, and after it, an
\* ended stream was ended by an early callback.
Early == stream = "finished" /\ (wpc = "run" \/ isRunning) => hist.early

\* No step of the three threads ends the stream of a running call otherwise.
LEMMA EarlyStep == IInv /\ Early /\ [Next]_vars => Early'
<1> SUFFICES ASSUME IInv, Early, [Next]_vars PROVE Early'
  OBVIOUS
<1>1. CASE SetCodecs
  BY <1>1 DEF SetCodecs, SetCodec, Early
<1>2. CASE OnPacketReceived
  <2>1. stream' = stream
    BY <1>2 DEF OnPacketReceived, SetCodec
  <2>2. wpc = "idle" /\ wpc' # "run"
    BY <1>2 DEF OnPacketReceived, SetCodec
  <2>3. isRunning' => isRunning
    BY <1>2 DEF OnPacketReceived, SetCodec
  <2>4. hist'.early = hist.early
    BY <1>2 DEF OnPacketReceived, IInv, TypeOK
  <2> QED
    BY <2>1, <2>2, <2>3, <2>4 DEF Early
<1>3. CASE ChangeState \/ Destroy
  BY <1>3 DEF ChangeState, Destroy, Early
<1>4. CASE Worker
  BY <1>4 DEF Worker, StopWait, StopAbort, StartFails, StartStream, StartThread, Early,
              IInv, TypeOK, Threads
<1>5. CASE MediaThread
  BY <1>5 DEF MediaThread, RunCheck, Decode, TakeMic, Send, worker, Early, IInv, TypeOK
<1>6. CASE CallbackBegins \/ CallbackEnds
  BY <1>6 DEF CallbackBegins, CallbackEnds, worker, Early, IInv, TypeOK, Threads
<1>7. CASE UNCHANGED vars
  BY <1>7 DEF vars, worker, Early
<1> QED
  BY <1>1, <1>2, <1>3, <1>4, <1>5, <1>6, <1>7 DEF Next

\* A call whose stream ended while isRunning is true got its callback before
\* isRunning was set; there is no other way to a silent call.
THEOREM SilentCorrect == Spec => []SilentOnlyIfEarly
<1>1. Init => Early
  BY DEF Init, Early
<1>2. Early => SilentOnlyIfEarly
  BY DEF Early, SilentOnlyIfEarly
<1>3. IInv /\ Early /\ [Next]_vars => Early'
  BY EarlyStep
<1> QED
  BY <1>1, <1>2, <1>3, Invariance, PTL DEF Spec

----------------------------------------------------------------------------
(***************************************************************************)
(* The packets.  They are numbered as they come, so the channel keeps each *)
(* of them once; a session begins with a copy of all of them, and moves    *)
(* each packet from its queue through dspBuffer to the loudspeaker.        *)
(***************************************************************************)
At(s, n) == {i \in DOMAIN s : s[i] = n}
Occ(s, n) == Cardinality(At(s, n))
Once(s) == \A i, j \in DOMAIN s : s[i] = s[j] => i = j
Missing(s, n) == \A i \in DOMAIN s : s[i] # n

Kept ==
    /\ Once(channel.packets) /\ UpTo(channel.packets, hist.received)
    /\ Missing(channel.packets, pending) /\ pending <= hist.received
    /\ wpc = "start" => incoming = <<>>
Places(n) == Occ(hist.played, n) + (Occ(dspBuffer, n) + Occ(incoming, n))
Played == \A n \in Nat : Places(n) <= hist.sessions

\* The positions of a number in a sequence are finitely many.
LEMMA OccType ==
    ASSUME NEW s \in Numbers, NEW n
    PROVE  IsFiniteSet(At(s, n)) /\ Occ(s, n) \in Nat /\ At(s, n) \subseteq 1..Len(s)
<1>1. Len(s) \in Nat /\ DOMAIN s = 1..Len(s)
  BY DEF Numbers
<1>2. At(s, n) \subseteq 1..Len(s) /\ IsFiniteSet(1..Len(s))
  BY <1>1, FS_Interval DEF At
<1>3. IsFiniteSet(At(s, n))
  BY <1>2, FS_Subset
<1> QED
  BY <1>2, <1>3, FS_CardinalityType DEF Occ

\* Nothing is in an empty sequence.
LEMMA OccEmpty == \A n : Occ(<<>>, n) = 0
<1> SUFFICES ASSUME NEW n PROVE Occ(<<>>, n) = 0
  OBVIOUS
<1>1. At(<<>>, n) = {}
  BY DEF At
<1> QED
  BY <1>1, FS_EmptySet DEF Occ

\* A sequence that grows has one more of what is appended.
LEMMA OccAppend ==
    ASSUME NEW s \in Numbers, NEW e \in Nat, NEW n
    PROVE  Occ(Append(s, e), n) = Occ(s, n) + (IF e = n THEN 1 ELSE 0)
<1> DEFINE k == Len(s) + 1
<1>1. Len(s) \in Nat /\ DOMAIN s = 1..Len(s) /\ DOMAIN Append(s, e) = 1..k
      /\ Append(s, e)[k] = e /\ \A i \in 1..Len(s) : Append(s, e)[i] = s[i]
  BY DEF Numbers
<1>2. k \notin 1..Len(s) /\ 1..k = 1..Len(s) \cup {k}
  BY <1>1
<1>3. IsFiniteSet(At(s, n)) /\ Occ(s, n) \in Nat /\ At(s, n) \subseteq 1..Len(s)
  BY OccType
<1> HIDE DEF k
<1>4. CASE e = n
  <2>1. At(Append(s, e), n) = At(s, n) \cup {k} /\ k \notin At(s, n)
    BY <1>1, <1>2, <1>3, <1>4 DEF At
  <2> QED
    BY <1>3, <1>4, <2>1, FS_AddElement DEF Occ
<1>5. CASE e # n
  <2>1. At(Append(s, e), n) = At(s, n)
    BY <1>1, <1>2, <1>5 DEF At
  <2> QED
    BY <1>3, <1>5, <2>1 DEF Occ
<1> QED
  BY <1>4, <1>5

\* One that loses its head has one less of it.
LEMMA OccTail ==
    ASSUME NEW s \in Numbers, s # <<>>, NEW n
    PROVE  Occ(s, n) = Occ(Tail(s), n) + (IF Head(s) = n THEN 1 ELSE 0)
<1> DEFINE t == Tail(s)
           f == [i \in At(t, n) |-> i + 1]
<1>1. /\ Len(s) \in Nat \ {0} /\ DOMAIN s = 1..Len(s) /\ Head(s) = s[1]
      /\ t \in Numbers /\ DOMAIN t = 1..Len(s) - 1 /\ \A i \in DOMAIN t : t[i] = s[i + 1]
  BY DEF Numbers
<1> HIDE DEF t
<1>2. IsFiniteSet(At(t, n)) /\ Occ(t, n) \in Nat /\ IsFiniteSet(At(s, n)) /\ Occ(s, n) \in Nat
  BY <1>1, OccType
<1>3. f \in Bijection(At(t, n), At(s, n) \ {1})
  <2>1. \A i \in At(t, n) : i \in Nat \ {0} /\ i + 1 \in At(s, n) \ {1}
    BY <1>1 DEF At
  <2>2. f \in [At(t, n) -> At(s, n) \ {1}]
    BY <2>1
  <2>3. \A i, j \in At(t, n) : f[i] = f[j] => i = j
    BY <2>1
  <2>4. ASSUME NEW j \in At(s, n) \ {1} PROVE \E i \in At(t, n) : f[i] = j
    <3>1. j \in 1..Len(s) /\ j # 1 /\ s[j] = n
      BY <1>1 DEF At
    <3>2. j - 1 \in 1..Len(s) - 1 /\ (j - 1) + 1 = j
      BY <1>1, <3>1
    <3>3. j - 1 \in At(t, n)
      BY <1>1, <3>1, <3>2 DEF At
    <3> QED
      BY <3>2, <3>3
  <2> QED
    BY <2>2, <2>3, <2>4 DEF Bijection, Injection, Surjection, IsInjective
<1>4. Cardinality(At(s, n) \ {1}) = Cardinality(At(t, n))
  BY <1>2, <1>3, FS_Bijection DEF ExistsBijection
<1>5. Cardinality(At(s, n) \ {1}) = IF 1 \in At(s, n) THEN Cardinality(At(s, n)) - 1
                                                     ELSE Cardinality(At(s, n))
  BY <1>2, FS_RemoveElement
<1>6. 1 \in At(s, n) <=> Head(s) = n
  BY <1>1 DEF At
<1> QED
  BY <1>2, <1>4, <1>5, <1>6 DEF Occ, t

\* Numbers that are all different occur once or not at all.
LEMMA OccOnce ==
    ASSUME NEW s, Once(s), NEW n
    PROVE  Occ(s, n) <= 1 /\ Occ(s, n) \in Nat
<1>1. CASE At(s, n) = {}
  BY <1>1, FS_EmptySet DEF Occ
<1>2. CASE At(s, n) # {}
  <2>1. PICK i \in At(s, n) : TRUE
    BY <1>2
  <2>2. At(s, n) = {i}
    BY DEF At, Once
  <2>3. Cardinality({i}) = 1
    BY FS_Singleton
  <2>4. Occ(s, n) = 1
    BY <2>2, <2>3 DEF Occ
  <2> QED
    BY <2>4
<1> QED
  BY <1>1, <1>2

\* A number that is new is enqueued without becoming a second one.
LEMMA EnqueuedKept ==
    ASSUME TypeOK, NEW n \in Nat, Once(channel.packets), Missing(channel.packets, n),
           NEW r \in Nat, UpTo(channel.packets, r), n <= r
    PROVE  /\ Once(Enqueued(n)) /\ UpTo(Enqueued(n), r) /\ Missing(Enqueued(n), 0)
           /\ \A k \in Nat : r < k => Missing(Enqueued(n), k)
<1> DEFINE s == channel.packets
<1>1. s \in Numbers
  BY DEF TypeOK
<1> HIDE DEF s
<1>2. /\ Len(s) \in Nat /\ DOMAIN s = 1..Len(s) /\ DOMAIN Append(s, n) = 1..Len(s) + 1
      /\ Append(s, n)[Len(s) + 1] = n /\ \A i \in 1..Len(s) : Append(s, n)[i] = s[i]
      /\ \A i \in 1..Len(s) : s[i] \in Nat \ {0}
  BY <1>1 DEF Numbers
<1>3. Once(s) /\ Missing(s, n) /\ UpTo(s, r)
  BY DEF s
<1>4. /\ Missing(s, 0) /\ \A k \in Nat : r < k => Missing(s, k)
  BY <1>2, <1>3 DEF Missing, UpTo
<1>5. ASSUME NEW i \in DOMAIN Append(s, n)
      PROVE  \/ i \in DOMAIN s /\ Append(s, n)[i] = s[i]
             \/ i = Len(s) + 1 /\ Append(s, n)[i] = n
  BY <1>2
<1>6. n # 0 => /\ Once(Append(s, n)) /\ UpTo(Append(s, n), r) /\ Missing(Append(s, n), 0)
               /\ \A k \in Nat : r < k => Missing(Append(s, n), k)
  <2>1. Once(Append(s, n))
    BY <1>3, <1>5 DEF Once, Missing
  <2>2. UpTo(Append(s, n), r)
    BY <1>3, <1>5 DEF UpTo
  <2>3. n # 0 => Missing(Append(s, n), 0)
    BY <1>4, <1>5 DEF Missing
  <2>4. ASSUME NEW k \in Nat, r < k PROVE Missing(Append(s, n), k)
    <3>1. n # k
      BY <2>4
    <3> QED
      BY <1>4, <1>5, <2>4, <3>1 DEF Missing
  <2> QED
    BY <2>1, <2>2, <2>3, <2>4
<1> QED
  BY <1>3, <1>4, <1>6 DEF Enqueued, s

\* Every packet is kept once, and a session begins with none in its queue.
LEMMA KeptStep == IInv /\ Kept /\ [Next]_vars => Kept'
<1> SUFFICES ASSUME IInv, Kept, [Next]_vars PROVE Kept'
  OBVIOUS
<1>1. /\ channel.packets \in Numbers /\ hist \in History /\ hist.received \in Nat
      /\ hist.received + 1 \in Nat /\ pending \in Nat
      /\ channel \in [pt : Payload \cup {None}, play : BOOLEAN, packets : Numbers]
  BY DEF IInv, TypeOK, History
<1>2. Missing(channel.packets, 0)
  BY <1>1 DEF Missing, Numbers
<1>3. ASSUME NEW n \in Nat, n \in {0, hist.received + 1}
      PROVE  /\ Missing(channel.packets, n) /\ n <= hist.received + 1
             /\ UpTo(channel.packets, hist.received + 1)
  <2>1. \A i \in DOMAIN channel.packets : channel.packets[i] \in Nat
    BY <1>1 DEF Numbers
  <2>2. UpTo(channel.packets, hist.received)
    BY DEF Kept
  <2> QED
    BY <1>1, <1>2, <1>3, <2>1, <2>2 DEF Missing, UpTo
<1>4. CASE SetCodecs
  <2>1. PICK p \in Known : SetCodec(p, 0)
    BY <1>4 DEF SetCodecs
  <2>2. hist'.received = hist.received
    BY <1>1, <1>4 DEF SetCodecs, History
  <2>3. channel'.packets = channel.packets /\ pending' = 0 /\ wpc' = "stop"
    BY <1>1, <2>1 DEF SetCodec
  <2> QED
    BY <1>1, <1>2, <2>2, <2>3 DEF Kept
<1>5. CASE OnPacketReceived
  <2> DEFINE n == hist.received + 1
  <2>1. PICK p \in Payload :
          LET kept == IF p = Noise THEN 0 ELSE n
          IN \/ /\ p = channel.pt
                /\ channel' = [channel EXCEPT !.packets = Enqueued(kept)]
                /\ hist' = [hist EXCEPT !.received = n]
                /\ UNCHANGED <<wpc, next, pending, isRunning, stream, sendPacketsFlag,
                               buffers, incoming, thread, callback>>
             \/ /\ p # channel.pt
                /\ SetCodec(p, kept)
                /\ hist' = [hist EXCEPT !.received = n, !.starts = @ + 1]
    BY <1>5 DEF OnPacketReceived
  <2> DEFINE kept == IF p = Noise THEN 0 ELSE n
  <2>2. kept \in Nat /\ kept \in {0, hist.received + 1} /\ n \in Nat
    BY <1>1
  <2>3. hist'.received = n /\ wpc = "idle"
    BY <1>1, <1>5, <2>1 DEF OnPacketReceived, History
  <2> HIDE DEF kept
  <2>4. /\ Missing(channel.packets, kept) /\ kept <= n /\ UpTo(channel.packets, n)
    BY <1>3, <2>2
  <2>5. CASE p = channel.pt
    <3>1. channel'.packets = Enqueued(kept) /\ pending' = pending /\ wpc' = wpc
          /\ incoming' = incoming
      BY <1>1, <2>1, <2>5 DEF kept
    <3>2. Once(Enqueued(kept)) /\ UpTo(Enqueued(kept), n)
      BY <2>2, <2>4, EnqueuedKept DEF Kept, IInv
    <3>3. pending <= hist.received /\ pending <= n
      BY <1>1 DEF Kept
    <3>4. Missing(Enqueued(kept), pending)
      <4>1. Missing(channel.packets, pending)
        BY DEF Kept
      <4>2. kept # 0 => kept # pending
        BY <1>1, <2>2, <3>3
      <4>3. Append(channel.packets, kept) \in Seq(Nat)
        BY <1>1, <2>2 DEF Numbers
      <4>4. \A i \in DOMAIN Append(channel.packets, kept) :
              \/ i \in DOMAIN channel.packets
                   /\ Append(channel.packets, kept)[i] = channel.packets[i]
              \/ Append(channel.packets, kept)[i] = kept
        BY <1>1, <2>2 DEF Numbers
      <4> QED
        BY <4>1, <4>2, <4>4 DEF Enqueued, Missing
    <3> HIDE DEF n
    <3> QED
      BY <2>3, <3>1, <3>2, <3>3, <3>4 DEF Kept
  <2>6. CASE p # channel.pt
    <3>1. channel'.packets = channel.packets /\ pending' = kept /\ wpc' = "stop"
      BY <1>1, <2>1, <2>6 DEF kept, SetCodec
    <3> HIDE DEF n
    <3> QED
      BY <2>3, <2>4, <3>1 DEF Kept
  <2> QED
    BY <2>5, <2>6
<1>6. ASSUME UNCHANGED <<pending, wpc, incoming>>, channel'.packets = channel.packets,
             hist'.received = hist.received
      PROVE  Kept'
  BY <1>6 DEF Kept
<1>7. CASE ChangeState \/ Destroy
  <2>1. channel'.packets = channel.packets
    BY <1>1, <1>7 DEF ChangeState, Destroy
  <2> QED
    BY <1>2, <1>7, <2>1, <1>1 DEF ChangeState, Destroy, Kept
<1>8. CASE StopWait \/ StopAbort
  BY <1>8 DEF StopWait, StopAbort, Kept
<1>9. CASE StartFails \/ StartThread
  <2>1. /\ channel'.packets = Enqueued(pending) /\ pending' = 0 /\ hist' = hist
        /\ wpc' = "idle"
    BY <1>1, <1>9 DEF StartFails, StartThread
  <2> QED
    BY <1>1, <2>1, EnqueuedKept DEF Kept, IInv
<1>10. CASE StartStream
  <2>1. hist'.received = hist.received
    BY <1>1, <1>10 DEF StartStream, History
  <2> QED
    BY <1>10, <2>1 DEF StartStream, Kept
<1>11. CASE MediaThread
  <2>1. channel' = channel /\ pending' = pending /\ wpc' = wpc
    BY <1>11 DEF MediaThread, RunCheck, Decode, TakeMic, Send, worker
  <2>2. hist'.received = hist.received
    BY <1>1, <1>11 DEF MediaThread, RunCheck, Decode, TakeMic, Send, History
  <2>3. wpc = "start" => incoming' = incoming
    BY <1>11 DEF MediaThread, RunCheck, Decode, TakeMic, Send, IInv, Threads
  <2> QED
    BY <2>1, <2>2, <2>3 DEF Kept
<1>12. CASE CallbackBegins \/ CallbackEnds
  <2>1. channel' = channel /\ pending' = pending /\ wpc' = wpc /\ incoming' = incoming
    BY <1>12 DEF CallbackBegins, CallbackEnds, worker
  <2>2. hist'.received = hist.received
    BY <1>1, <1>12 DEF CallbackBegins, CallbackEnds, History
  <2> QED
    BY <1>6, <2>1, <2>2
<1>13. CASE UNCHANGED vars
  BY <1>6, <1>13 DEF vars, worker
<1> QED
  BY <1>4, <1>5, <1>7, <1>8, <1>9, <1>10, <1>11, <1>12, <1>13 DEF Next, Worker

\* The parts of a count.
LEMMA PlacesType ==
    ASSUME TypeOK, NEW n \in Nat
    PROVE  /\ Occ(hist.played, n) \in Nat /\ Occ(dspBuffer, n) \in Nat
           /\ Occ(incoming, n) \in Nat /\ hist.sessions \in Nat /\ Places(n) \in Nat
<1>1. /\ hist.played \in Numbers /\ dspBuffer \in Numbers /\ incoming \in Numbers
      /\ hist.sessions \in Nat
  BY DEF TypeOK
<1>2. Occ(hist.played, n) \in Nat /\ Occ(dspBuffer, n) \in Nat /\ Occ(incoming, n) \in Nat
  BY <1>1, OccType
<1> QED
  BY <1>1, <1>2 DEF Places

\* One more here is one less there.
LEMMA Moves ==
    /\ \A a, b, c, e \in Nat : a + ((b + e) + c) = a + (b + (c + e))
    /\ \A a, b, c, e \in Nat : (a + e) + (b + c) = a + ((b + e) + c)
    /\ \A a, b, c, s \in Nat : a + (b + c) <= s => a + (b + 0) <= s
    /\ \A a, b, c, s \in Nat : a + (b + 0) <= s /\ c <= 1 => a + (b + c) <= s + 1
  OBVIOUS

\* A packet is played at most once for every session there was.
LEMMA PlayedStep == IInv /\ Kept /\ Played /\ [Next]_vars => Played'
<1> SUFFICES ASSUME IInv, Kept, Played, [Next]_vars, NEW n \in Nat
             PROVE  Places(n)' <= hist'.sessions
  BY DEF Played
<1> DEFINE a == Occ(hist.played, n)
           b == Occ(dspBuffer, n)
           c == Occ(incoming, n)
           s == hist.sessions
<1>1. a \in Nat /\ b \in Nat /\ c \in Nat /\ s \in Nat /\ a + (b + c) <= s
  BY PlacesType DEF IInv, Played, Places
<1>2. Places(n)' = Occ(hist'.played, n) + (Occ(dspBuffer', n) + Occ(incoming', n))
  BY DEF Places, Occ, At
<1>3. hist \in History /\ dspBuffer \in Numbers /\ incoming \in Numbers /\ hist.played \in Numbers
  BY HistoryType DEF IInv, TypeOK, History
<1> HIDE DEF a, b, c, s
<1>4. ASSUME UNCHANGED <<dspBuffer, incoming>>, hist'.played = hist.played,
             hist'.sessions = hist.sessions
      PROVE  Places(n)' <= hist'.sessions
  BY <1>1, <1>2, <1>4 DEF a, b, c, s
<1>5. CASE SetCodecs
  BY <1>3, <1>4, <1>5 DEF SetCodecs, SetCodec, buffers, History
<1>6. CASE OnPacketReceived
  <2>1. UNCHANGED <<dspBuffer, incoming>>
    BY <1>6 DEF OnPacketReceived, SetCodec, buffers
  <2>2. hist'.played = hist.played /\ hist'.sessions = hist.sessions
    BY <1>3, <1>6 DEF OnPacketReceived, History
  <2> QED
    BY <1>4, <2>1, <2>2
<1>7. CASE ChangeState \/ Destroy \/ StopWait \/ StartFails \/ StartThread \/ RunCheck \/ TakeMic
  BY <1>4, <1>7 DEF ChangeState, Destroy, StopWait, StartFails, StartThread, RunCheck, TakeMic,
                    buffers
<1>8. CASE StopAbort
  <2>1. incoming' = <<>> /\ dspBuffer' = dspBuffer /\ hist' = hist
    BY <1>8 DEF StopAbort, buffers
  <2>2. Occ(incoming', n) = 0
    BY <2>1, OccEmpty
  <2>3. a + (b + 0) <= s
    BY <1>1, Moves
  <2> QED
    BY <1>2, <2>1, <2>2, <2>3 DEF a, b, s
<1>9. CASE StartStream
  <2> DEFINE k == Occ(channel.packets, n)
  <2>1. incoming' = channel.packets /\ dspBuffer' = dspBuffer /\ wpc = "start"
    BY <1>9 DEF StartStream, buffers
  <2>2. hist'.played = hist.played /\ hist'.sessions = s + 1
    BY <1>3, <1>9 DEF StartStream, History, s
  <2>3. k <= 1 /\ k \in Nat
    BY OccOnce DEF Kept
  <2>4. c = 0
    BY <2>1, OccEmpty DEF Kept, c
  <2>5. Occ(incoming', n) = k
    BY <2>1
  <2> HIDE DEF k
  <2>6. a + (b + k) <= s + 1
    BY <1>1, <2>3, <2>4, Moves
  <2> QED
    BY <1>2, <2>1, <2>2, <2>5, <2>6 DEF a, b
<1>10. CASE Decode
  <2>1. CASE incoming = <<>>
    BY <1>4, <1>10, <2>1 DEF Decode
  <2>2. CASE incoming # <<>>
    <3> DEFINE e == IF Head(incoming) = n THEN 1 ELSE 0
               c2 == Occ(Tail(incoming), n)
    <3>1. /\ dspBuffer' = Append(dspBuffer, Head(incoming)) /\ incoming' = Tail(incoming)
          /\ hist' = hist
      BY <1>10, <2>2 DEF Decode
    <3>2. Head(incoming) \in Nat /\ Tail(incoming) \in Numbers
      BY <1>3, <2>2, FirstNumbers
    <3>3. Occ(dspBuffer', n) = b + e
      BY <1>3, <3>1, <3>2, OccAppend DEF b
    <3>4. c = c2 + e /\ c2 \in Nat /\ e \in Nat
      BY <1>3, <2>2, <3>2, OccTail, OccType DEF c
    <3>5. Occ(incoming', n) = c2
      BY <3>1
    <3> HIDE DEF e, c2
    <3>6. a + ((b + e) + c2) = a + (b + (c2 + e))
      BY <1>1, <3>4, Moves
    <3>7. a + ((b + e) + c2) <= s
      BY <1>1, <3>4, <3>6
    <3> QED
      BY <1>2, <3>1, <3>3, <3>5, <3>7 DEF a, s
  <2> QED
    BY <2>1, <2>2
<1>11. CASE Send
  <2>1. hist'.played = hist.played /\ hist'.sessions = hist.sessions
    BY <1>3, <1>11 DEF Send, History
  <2> QED
    BY <1>4, <1>11, <2>1 DEF Send, buffers
<1>12. CASE CallbackBegins
  <2>1. hist'.played = hist.played /\ hist'.sessions = hist.sessions
    BY <1>3, <1>12 DEF CallbackBegins, History
  <2> QED
    BY <1>4, <1>12, <2>1 DEF CallbackBegins, buffers
<1>13. CASE CallbackEnds
  <2>1. CASE dspBuffer = <<>>
    BY <1>4, <1>13, <2>1 DEF CallbackEnds
  <2>2. CASE dspBuffer # <<>>
    <3> DEFINE e == IF Head(dspBuffer) = n THEN 1 ELSE 0
               b2 == Occ(Tail(dspBuffer), n)
    <3>1. /\ dspBuffer' = Tail(dspBuffer) /\ incoming' = incoming
          /\ hist' = [hist EXCEPT !.played = Append(@, Head(dspBuffer))]
      BY <1>13, <2>2 DEF CallbackEnds
    <3>2. hist'.played = Append(hist.played, Head(dspBuffer)) /\ hist'.sessions = s
      BY <1>3, <3>1 DEF History, s
    <3>3. Head(dspBuffer) \in Nat /\ Tail(dspBuffer) \in Numbers
      BY <1>3, <2>2, FirstNumbers
    <3>4. Occ(hist'.played, n) = a + e
      BY <1>3, <3>2, <3>3, OccAppend DEF a
    <3>5. b = b2 + e /\ b2 \in Nat /\ e \in Nat
      BY <1>3, <2>2, <3>3, OccTail, OccType DEF b
    <3>6. Occ(dspBuffer', n) = b2 /\ Occ(incoming', n) = c
      BY <3>1 DEF c
    <3> HIDE DEF e, b2
    <3>7. (a + e) + (b2 + c) = a + ((b2 + e) + c)
      BY <1>1, <3>5, Moves
    <3>8. (a + e) + (b2 + c) <= s
      BY <1>1, <3>5, <3>7
    <3> QED
      BY <1>2, <3>2, <3>4, <3>6, <3>8
  <2> QED
    BY <2>1, <2>2
<1>14. CASE UNCHANGED vars
  BY <1>4, <1>14 DEF vars, buffers
<1> QED
  BY <1>5, <1>6, <1>7, <1>8, <1>9, <1>10, <1>11, <1>12, <1>13, <1>14
     DEF Next, Worker, MediaThread

\* A session plays a packet at most once, whatever the worker, the MediaThread
\* and the audio thread do to the queues in between.
THEOREM PlayedCorrect == Spec => []PlayedOncePerSession
<1>1. Init => Kept /\ Played
  <2> SUFFICES ASSUME Init PROVE Kept /\ Played
    OBVIOUS
  <2>1. channel.packets = <<>> /\ pending = 0 /\ hist.received = 0 /\ wpc = "idle"
        /\ hist.played = <<>> /\ dspBuffer = <<>> /\ incoming = <<>> /\ hist.sessions = 0
    BY DEF Init
  <2>2. Once(<<>>) /\ UpTo(<<>>, 0) /\ Missing(<<>>, 0)
    BY DEF Once, UpTo, Missing
  <2>3. Kept
    BY <2>1, <2>2 DEF Kept
  <2>4. \A n \in Nat : Places(n) = 0 + (0 + 0)
    BY <2>1, OccEmpty DEF Places
  <2> QED
    BY <2>1, <2>3, <2>4 DEF Played
<1>2. IInv /\ Played => PlayedOncePerSession
  <2> SUFFICES ASSUME IInv, Played, NEW n \in 1..MaxPackets
               PROVE  Occ(hist.played, n) <= hist.sessions
    BY DEF PlayedOncePerSession, Occ, At
  <2>1. n \in Nat
    BY BoundAssumption
  <2>2. /\ Occ(hist.played, n) \in Nat /\ Occ(dspBuffer, n) \in Nat
        /\ Occ(incoming, n) \in Nat /\ hist.sessions \in Nat
    BY <2>1, PlacesType DEF IInv
  <2>3. Occ(hist.played, n) + (Occ(dspBuffer, n) + Occ(incoming, n)) <= hist.sessions
    BY <2>1 DEF Played, Places
  <2> QED
    BY <2>2, <2>3
<1> QED
  BY <1>1, <1>2, KeptStep, PlayedStep, Invariance, PTL DEF Spec

=============================================================================
