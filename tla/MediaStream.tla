---------------------------- MODULE MediaStream ----------------------------
(***************************************************************************)
(* The sound of a call (voip/mediastream.cpp, voip/jabbinmediaengine.cpp). *)
(* Three threads: the worker of libjingle, which calls JabbinMediaChannel  *)
(* and through it MediaStream::start and stop; the MediaThread, which      *)
(* turns packets into samples and samples into packets; and the thread of  *)
(* PortAudio, which calls audioCallback.  They share isRunning, two ring   *)
(* buffers (queues, see RingBuffer) and the session.                       *)
(*                                                                         *)
(* A block of samples and a packet are one number: blocks are numbered as  *)
(* they are recorded, packets as they are received.                        *)
(***************************************************************************)
EXTENDS Naturals, FiniteSets, Sequences, SequencesExt

CONSTANTS
    Known,          \* payload types CodecsManager has a factory for
    Noise,          \* comfort noise, for which there is none
    Other,          \* any other payload type, or a set marker bit
    None,           \* no payload: the channel has no codec, or is destroyed
    MaxBlocks,      \* bound: blocks recorded
    MaxPackets,     \* bound: packets received
    MaxStarts       \* bound: calls of SetCodec

ASSUME PayloadAssumption ==
    /\ Noise \notin Known /\ Other \notin Known /\ None \notin Known
    /\ Noise # Other /\ None \notin {Noise, Other}
ASSUME BoundAssumption == MaxBlocks \in Nat /\ MaxPackets \in Nat /\ MaxStarts \in Nat

VARIABLES
    wpc,            \* where the worker is in stop() and start()
    next,           \* the payload start() is for; None when being destroyed
    pending,        \* the packet OnPacketReceived goes on with; 0 for none
    channel,        \* JabbinMediaChannel: pt_, play_ and incomingPackets
    isRunning, stream, sendPacketsFlag,     \* MediaStream::Private
    micBuffer, dspBuffer, tempMicBuffer,
    incoming,       \* the packets the transmitter of the session has
    thread,         \* where the MediaThread is, or "off"
    callback,       \* where audioCallback is, or "idle"
    hist            \* what happened, for the properties and the bounds

worker == <<wpc, next, pending, channel>>
buffers == <<micBuffer, dspBuffer, tempMicBuffer>>
vars == <<worker, isRunning, stream, sendPacketsFlag, buffers, incoming, thread, callback, hist>>

Payload == Known \cup {Noise, Other}

\* play_ is not set by the constructor.
Init ==
    /\ wpc = "idle" /\ next = None /\ pending = 0
    /\ channel \in [pt : {None}, play : BOOLEAN, packets : {<<>>}]
    /\ isRunning = FALSE /\ stream = "none" /\ sendPacketsFlag = FALSE
    /\ micBuffer = <<>> /\ dspBuffer = <<>> /\ tempMicBuffer = <<>>
    /\ incoming = <<>>
    /\ thread = "off" /\ callback = "idle"
    /\ hist = [blocks |-> 0, received |-> 0, starts |-> 0, sessions |-> 0, early |-> FALSE,
               sent |-> <<>>, played |-> <<>>]

----------------------------------------------------------------------------
(* The worker.                                                             *)

\* SetCodec(p), and the beginning of stop().
SetCodec(p, packet) ==
    /\ hist.starts < MaxStarts
    /\ channel' = [channel EXCEPT !.pt = p]
    /\ next' = p
    /\ pending' = packet
    /\ isRunning' = FALSE
    /\ wpc' = "stop"
    /\ UNCHANGED <<stream, sendPacketsFlag, buffers, incoming, thread, callback>>

SetCodecs ==
    /\ wpc = "idle"
    /\ \E p \in Known : SetCodec(p, 0)
    /\ hist' = [hist EXCEPT !.starts = @ + 1]

\* What OnPacketReceived does with packet n, after a change of the codec.
Enqueued(n) == IF channel.play /\ n # 0 THEN Append(channel.packets, n) ELSE channel.packets

OnPacketReceived ==
    LET n == hist.received + 1
    IN /\ wpc = "idle" /\ n <= MaxPackets
       /\ \E p \in Payload :
            LET kept == IF p = Noise THEN 0 ELSE n
            IN \/ /\ p = channel.pt
                  /\ channel' = [channel EXCEPT !.packets = Enqueued(kept)]
                  /\ hist' = [hist EXCEPT !.received = n]
                  /\ UNCHANGED <<wpc, next, pending, isRunning, stream, sendPacketsFlag,
                                 buffers, incoming, thread, callback>>
               \/ /\ p # channel.pt
                  /\ SetCodec(p, kept)
                  /\ hist' = [hist EXCEPT !.received = n, !.starts = @ + 1]

\* libjingle pauses, mutes or opens the channel.
ChangeState ==
    /\ wpc = "idle"
    /\ \E playout, send \in BOOLEAN :
        /\ send => playout
        /\ channel' = [channel EXCEPT !.play = playout]
        /\ sendPacketsFlag' = send
    /\ UNCHANGED <<wpc, next, pending, isRunning, stream, buffers, incoming, thread, callback, hist>>

\* The channel is destroyed: stop() begins.
Destroy ==
    /\ wpc = "idle"
    /\ wpc' = "stop" /\ next' = None /\ pending' = 0
    /\ isRunning' = FALSE
    /\ UNCHANGED <<channel, stream, sendPacketsFlag, buffers, incoming, thread, callback, hist>>

\* Seeded fault: stop() does not wait for the MediaThread.
StopNoWait ==
    /\ wpc = "stop"
    /\ wpc' = "abort"
    /\ UNCHANGED <<next, pending, channel, isRunning, stream, sendPacketsFlag, buffers,
                   incoming, thread, callback, hist>>
\* stop() waits for the MediaThread.
StopWait ==
    /\ wpc = "stop" /\ thread = "off"
    /\ wpc' = "abort"
    /\ UNCHANGED <<next, pending, channel, isRunning, stream, sendPacketsFlag, buffers,
                   incoming, thread, callback, hist>>

\* stop() aborts the stream, which lets a callback finish, and ends the session.
StopAbort ==
    /\ wpc = "abort" /\ callback = "idle"
    /\ stream' = "none"
    /\ incoming' = <<>>
    /\ wpc' = IF next = None THEN "deleted" ELSE "start"
    /\ UNCHANGED <<next, pending, channel, isRunning, sendPacketsFlag, buffers, thread,
                   callback, hist>>

\* start() has no codec, or no session or stream: OnPacketReceived goes on.
StartFails ==
    /\ wpc = "start"
    /\ wpc' = "idle" /\ pending' = 0
    /\ channel' = [channel EXCEPT !.packets = Enqueued(pending)]
    /\ UNCHANGED <<next, isRunning, stream, sendPacketsFlag, buffers, incoming, thread,
                   callback, hist>>

\* A new session, whose transmitter gets a copy of the queue; the stream starts.
StartStream ==
    /\ wpc = "start" /\ next \in Known
    /\ incoming' = channel.packets
    /\ stream' = "active"
    /\ hist' = [hist EXCEPT !.early = FALSE, !.sessions = @ + 1]
    /\ wpc' = "run"
    /\ UNCHANGED <<next, pending, channel, isRunning, sendPacketsFlag, buffers, thread, callback>>

\* The rest of start(), and of OnPacketReceived.
StartThread ==
    /\ wpc = "run"
    /\ isRunning' = TRUE
    /\ thread' = "check"
    /\ wpc' = "idle" /\ pending' = 0
    /\ channel' = [channel EXCEPT !.packets = Enqueued(pending)]
    /\ UNCHANGED <<next, stream, sendPacketsFlag, buffers, incoming, callback, hist>>

Worker == StopWait \/ StopAbort \/ StartFails \/ StartStream \/ StartThread

----------------------------------------------------------------------------
(* The MediaThread: run() and timerClick().                                *)

\* Seeded fault: isRunning is looked at once, when the thread begins.
RunCheckOnce ==
    /\ thread = "check"
    /\ thread' = "poll"
    /\ UNCHANGED <<worker, isRunning, stream, sendPacketsFlag, buffers, incoming, callback, hist>>
RunCheck ==
    /\ thread = "check"
    /\ thread' = IF isRunning THEN "poll" ELSE "off"
    /\ UNCHANGED <<worker, isRunning, stream, sendPacketsFlag, buffers, incoming, callback, hist>>

\* One packet of each source of the session is decoded; how many sources there
\* are is not modelled.
Decode ==
    /\ thread = "poll"
    /\ IF incoming = <<>>
       THEN thread' = "mic" /\ UNCHANGED <<incoming, dspBuffer>>
       ELSE /\ dspBuffer' = Append(dspBuffer, Head(incoming))
            /\ incoming' = Tail(incoming)
            /\ thread' \in {"poll", "mic"}
    /\ UNCHANGED <<worker, isRunning, stream, sendPacketsFlag, micBuffer, tempMicBuffer, callback, hist>>

\* Seeded fault: what is taken is not consumed.
TakeMicKeeps ==
    /\ thread = "mic"
    /\ tempMicBuffer' = micBuffer
    /\ thread' = "send"
    /\ UNCHANGED <<worker, isRunning, stream, sendPacketsFlag, dspBuffer, micBuffer, incoming, callback, hist>>
TakeMic ==
    /\ thread = "mic"
    /\ tempMicBuffer' = micBuffer
    /\ micBuffer' = <<>>
    /\ thread' = "send"
    /\ UNCHANGED <<worker, isRunning, stream, sendPacketsFlag, dspBuffer, incoming, callback, hist>>

\* Seeded fault: one packet holds at most one block, and the rest is forgotten.
SendShort ==
    /\ thread = "send"
    /\ hist' = IF sendPacketsFlag /\ tempMicBuffer # <<>>
               THEN [hist EXCEPT !.sent = Append(@, Head(tempMicBuffer))] ELSE hist
    /\ thread' = "check"
    /\ UNCHANGED <<worker, isRunning, stream, sendPacketsFlag, buffers, incoming, callback>>
\* PCMU encodes all samples at once; they are sent unless the channel is muted.
Send ==
    /\ thread = "send"
    /\ hist' = IF sendPacketsFlag THEN [hist EXCEPT !.sent = @ \o tempMicBuffer] ELSE hist
    /\ thread' = "check"
    /\ UNCHANGED <<worker, isRunning, stream, sendPacketsFlag, buffers, incoming, callback>>

MediaThread == RunCheck \/ Decode \/ TakeMic \/ Send

----------------------------------------------------------------------------
(* The thread of PortAudio: audioCallback.                                 *)

\* Seeded fault: the stream ends when there is nothing to play.
CallbackBeginsEager ==
    /\ callback = "idle" /\ stream = "active"
    /\ IF isRunning /\ (hist.blocks = 0 \/ dspBuffer # <<>>)
       THEN /\ hist.blocks < MaxBlocks
            /\ micBuffer' = Append(micBuffer, hist.blocks + 1)
            /\ hist' = [hist EXCEPT !.blocks = @ + 1]
            /\ callback' = "output"
            /\ UNCHANGED stream
       ELSE /\ stream' = "finished"
            /\ hist' = [hist EXCEPT !.early = wpc = "run"]
            /\ UNCHANGED <<micBuffer, callback>>
    /\ UNCHANGED <<worker, isRunning, sendPacketsFlag, dspBuffer, tempMicBuffer, incoming, thread>>
\* paAbort when the stream is not running; else the input is put.
CallbackBegins ==
    /\ callback = "idle" /\ stream = "active"
    /\ IF isRunning
       THEN /\ hist.blocks < MaxBlocks
            /\ micBuffer' = Append(micBuffer, hist.blocks + 1)
            /\ hist' = [hist EXCEPT !.blocks = @ + 1]
            /\ callback' = "output"
            /\ UNCHANGED stream
       ELSE /\ stream' = "finished"
            /\ hist' = [hist EXCEPT !.early = wpc = "run"]
            /\ UNCHANGED <<micBuffer, callback>>
    /\ UNCHANGED <<worker, isRunning, sendPacketsFlag, dspBuffer, tempMicBuffer, incoming, thread>>

\* Seeded fault: what is played is not consumed.
CallbackRepeats ==
    /\ callback = "output"
    /\ IF dspBuffer = <<>> \/ Len(hist.played) > MaxPackets
       THEN UNCHANGED hist
       ELSE hist' = [hist EXCEPT !.played = Append(@, Head(dspBuffer))]
    /\ callback' = "idle"
    /\ UNCHANGED <<worker, isRunning, stream, sendPacketsFlag, buffers, incoming, thread>>
\* The output is the oldest block, or silence.
CallbackEnds ==
    /\ callback = "output"
    /\ IF dspBuffer = <<>>
       THEN UNCHANGED <<dspBuffer, hist>>
       ELSE /\ dspBuffer' = Tail(dspBuffer)
            /\ hist' = [hist EXCEPT !.played = Append(@, Head(dspBuffer))]
    /\ callback' = "idle"
    /\ UNCHANGED <<worker, isRunning, stream, sendPacketsFlag, micBuffer, tempMicBuffer, incoming, thread>>

----------------------------------------------------------------------------
Next ==
    \/ SetCodecs \/ OnPacketReceived \/ ChangeState \/ Destroy
    \/ Worker \/ MediaThread \/ CallbackBegins \/ CallbackEnds

\* Threads run on; nobody is obliged to call the channel or to record.
Spec ==
    /\ Init /\ [][Next]_vars
    /\ WF_vars(Worker) /\ WF_vars(MediaThread) /\ WF_vars(CallbackEnds)

----------------------------------------------------------------------------
(* Properties.                                                             *)

Numbers == Seq(Nat \ {0})
Increasing(s) == \A i \in 1..Len(s) - 1 : s[i] < s[i + 1]

TypeOK ==
    /\ wpc \in {"idle", "stop", "abort", "start", "run", "deleted"}
    /\ next \in Payload \cup {None} /\ pending \in Nat
    /\ channel \in [pt : Payload \cup {None}, play : BOOLEAN, packets : Numbers]
    /\ isRunning \in BOOLEAN /\ sendPacketsFlag \in BOOLEAN
    /\ stream \in {"none", "active", "finished"}
    /\ micBuffer \in Numbers /\ dspBuffer \in Numbers /\ tempMicBuffer \in Numbers
    /\ incoming \in Numbers
    /\ thread \in {"off", "check", "poll", "mic", "send"}
    /\ callback \in {"idle", "output"}
    /\ hist \in [blocks : Nat, received : Nat, starts : Nat, sessions : Nat, early : BOOLEAN,
                 sent : Numbers, played : Numbers]

\* When start() replaces the codec and the session, and when the buffers are
\* deleted, no other thread is using them or will: stop() has waited for both.
AloneWhenReplacing ==
    wpc \in {"start", "deleted"} =>
        thread = "off" /\ callback = "idle" /\ stream = "none" /\ ~isRunning

\* What is recorded is sent at most once and in order, over any number of
\* restarts of the stream in the middle of a callback or of a timerClick().
SentInOrder == Increasing(hist.sent)

\* A session plays a packet at most once.  (The next one plays it again: its
\* transmitter begins with a copy of every packet of the call.)
PlayedOncePerSession ==
    \A n \in 1..MaxPackets :
        Cardinality({i \in DOMAIN hist.played : hist.played[i] = n}) <= hist.sessions

\* The stream of a running call ended only if PortAudio called back between
\* Pa_StartStream and isRunning = true.
SilentOnlyIfEarly == isRunning /\ stream = "finished" => hist.early

\* stop() returns: the MediaThread sees isRunning, and a callback ends.
StopReturns == wpc \in {"stop", "abort"} ~> wpc \notin {"stop", "abort"}

\* What the callback recorded is sent, unless the call is muted or stopped.
RecordedIsSent ==
    \A b \in 1..MaxBlocks :
        isRunning /\ Contains(micBuffer, b)
            ~> Contains(hist.sent, b) \/ ~isRunning \/ ~sendPacketsFlag

=============================================================================
