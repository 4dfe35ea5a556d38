---------------------------- MODULE FileTransfer ----------------------------
(***************************************************************************)
(* A file sent from one Jabbin to another: FileTransfer and its manager    *)
(* (xmpp-im/filetransfer.cpp) with the FileTransferHandler and the dialogs *)
(* that drive them (filetransdlg.cpp), at both ends of one stream.         *)
(*                                                                         *)
(* The receiver writes name.part, and resumes it when it is there: the     *)
(* offset goes into the answer, the sender seeks to it, and each side      *)
(* counts to the size of the file.  A byte is its position in the file     *)
(* sent; the file is sent again until the receiver has it, at most         *)
(* MaxAttempts times.                                                      *)
(*                                                                         *)
(* The bytestream is what S5BNegotiation promises: one stream that both    *)
(* ends come to hold, or a failure.  A signal that is posted and a timer   *)
(* of 0 ms are separate steps, in either order.                            *)
(***************************************************************************)
EXTENDS Integers, Sequences

CONSTANTS
    Sizes,          \* the sizes of the file
    SendBuf,        \* SENDBUFSIZE: bytes given to the stream and not yet sent
    IntMod,         \* 2^w, w the width of the int that JT_FT::take parses into
    Block,          \* bytes in one step of the progress bar, 1 << shift
    MaxAttempts,    \* bound: transfers of the file
    MaxFaults       \* bound: cancels, broken streams and file errors

ASSUME SizeAssumption == Sizes \subseteq Nat /\ SendBuf \in Nat \ {0} /\ Block \in Nat \ {0}
ASSUME IntAssumption == IntMod \in Nat \ {0}
ASSUME BoundAssumption == MaxAttempts \in Nat /\ MaxFaults \in Nat

VARIABLES
    snd,        \* the sending side
    rcv,        \* the receiving side
    iq,         \* the stanza of the negotiation that is on its way
    s5b,        \* what has become of the bytestream
    wire,       \* the bytes in the stream
    part,       \* what name.part holds
    hist        \* the size of the file; attempts, faults, whether an offset did
                \* not fit the int

vars == <<snd, rcv, iq, s5b, wire, part, hist>>

Size == hist.size

Bytes(from, n) == [i \in 1..n |-> from + i - 1]
IsPrefixOfFile(f) == f = Bytes(0, Len(f)) /\ Len(f) <= Size

None == [type |-> "none", offset |-> 0]
Stanza(type, offset) == [type |-> type, offset |-> offset]

\* A side: the state of its FileTransfer ("none" when it is deleted), whether
\* that has a connection (d->c), the range, the bytes counted by the
\* FileTransfer and by the handler, what is posted, and how it ended.
NewSide == [ft |-> "none", conn |-> FALSE, offset |-> 0, length |-> 0, sent |-> 0,
            done |-> 0, pos |-> 0, out |-> <<>>, posted |-> 0, finish |-> FALSE,
            timer |-> FALSE, error |-> FALSE, result |-> "none"]

Init ==
    /\ snd = NewSide
    /\ rcv = NewSide
    /\ iq = None
    /\ s5b = "none"
    /\ wire = <<>>
    /\ \E size \in Sizes : \E n \in 0..size :
          /\ part = Bytes(0, n)
          /\ hist = [size |-> size, attempts |-> 0, faults |-> 0, wrapped |-> FALSE]

Fault ==
    /\ hist.faults < MaxFaults
    /\ hist' = [hist EXCEPT !.faults = @ + 1]

\* FileTransfer::reset.
Reset(side) == [side EXCEPT !.ft = "Idle", !.conn = FALSE, !.sent = 0]
\* The handler and its FileTransfer are deleted, and what was posted to them.
Deleted(side, how) ==
    [NewSide EXCEPT !.offset = side.offset, !.result = how]

----------------------------------------------------------------------------
(* The progress bar: a transfer is over when it reaches the last step.     *)

Complement == (Block - (Size % Block)) % Block
TotalSteps == IF Size = 0 THEN 0 ELSE ((Size - 1) \div Block) + 1
Finished(done) == (done + Complement) \div Block = TotalSteps

----------------------------------------------------------------------------
(* The negotiation.                                                        *)

\* FileTransferHandler::send, FileTransfer::sendFile.
SendFile ==
    /\ snd.result # "running" /\ rcv.result # "running" /\ rcv.result # "done"
    /\ iq = None
    /\ hist.attempts < MaxAttempts
    /\ hist' = [hist EXCEPT !.attempts = @ + 1]
    /\ snd' = [NewSide EXCEPT !.ft = "Requesting", !.result = "running"]
    /\ rcv' = NewSide
    /\ iq' = Stanza("request", 0)
    /\ s5b' = "none"
    /\ wire' = <<>>
    /\ UNCHANGED part

\* pft_incoming, and the dialog that takes the transfer.  The server answers
\* for a contact that is gone.
PftIncoming ==
    /\ iq.type = "request"
    /\ \/ /\ rcv' = [NewSide EXCEPT !.ft = "WaitingForAccept", !.result = "running"]
          /\ iq' = None
       \/ /\ iq' = Stanza("error", 0)
          /\ UNCHANGED rcv
    /\ UNCHANGED <<snd, s5b, wire, part, hist>>

\* Seeded fault: the dialog starts no timer.
AcceptUntimed ==
    /\ rcv.ft = "WaitingForAccept"
    /\ rcv' = [rcv EXCEPT !.ft = "Connecting", !.offset = Len(part), !.length = Size]
    /\ iq' = Stanza("result", Len(part))
    /\ UNCHANGED <<snd, s5b, wire, part, hist>>
\* FileRequestDlg::doStart, FileTransfer::accept, con_accept: a file that is
\* there is resumed, and 30 s are given for something to happen.
Accept ==
    /\ rcv.ft = "WaitingForAccept"
    /\ rcv' = [rcv EXCEPT !.ft = "Connecting", !.offset = Len(part), !.length = Size,
                          !.timer = TRUE]
    /\ iq' = Stanza("result", Len(part))
    /\ UNCHANGED <<snd, s5b, wire, part, hist>>

\* The user closes the dialog: FileTransfer::close, con_reject.
Reject ==
    /\ rcv.ft = "WaitingForAccept"
    /\ rcv' = Deleted(rcv, "failed")
    /\ iq' = Stanza("error", 0)
    /\ UNCHANGED <<snd, s5b, wire, part, hist>>

\* FileRequestDlg::t_timeout.
Timeout ==
    /\ rcv.timer
    /\ rcv' = Deleted(rcv, "failed")
    /\ UNCHANGED <<snd, iq, s5b, wire, part, hist>>

\* JT_FT::take parses the offset into an int.
Parsed(offset) == ((offset + IntMod \div 2) % IntMod) - IntMod \div 2

\* Seeded fault: the last byte is not counted.
LengthShort(offset) == Size - offset - 1
\* FileTransfer::ft_finished: no length in the answer means the rest.
LengthFrom(offset) == Size - offset

\* JT_FT::take, FileTransfer::ft_finished: an offset the file does not have is
\* an error; otherwise the bytestream is asked for.
FtFinished ==
    /\ iq.type \in {"result", "error"}
    /\ iq' = None
    /\ \/ /\ snd.ft # "Requesting"
          /\ UNCHANGED <<snd, s5b, hist>>
       \/ /\ snd.ft = "Requesting"
          /\ iq.type = "result" /\ Parsed(iq.offset) \in 0..Size
          /\ snd' = [snd EXCEPT !.ft = "Connecting", !.conn = TRUE,
                                !.offset = Parsed(iq.offset),
                                !.length = LengthFrom(Parsed(iq.offset))]
          /\ s5b' = "requested"
          /\ hist' = [hist EXCEPT !.wrapped = @ \/ Parsed(iq.offset) # iq.offset]
       \/ /\ snd.ft = "Requesting"
          /\ iq.type = "result" => Parsed(iq.offset) \notin 0..Size
          /\ snd' = [Reset(snd) EXCEPT !.error = TRUE]
          /\ UNCHANGED <<s5b, hist>>
    /\ UNCHANGED <<rcv, wire, part>>

\* s5b_incomingReady, takeConnection: the first sign of life stops the timer
\* of the dialog, and doAccept is posted.  Otherwise the stream is refused.
S5bIncomingReady ==
    /\ s5b = "requested"
    /\ \/ /\ rcv.ft = "Connecting"
          /\ rcv' = [rcv EXCEPT !.conn = TRUE, !.timer = FALSE]
          /\ s5b' = "offered"
       \/ /\ rcv.ft # "Connecting"
          /\ s5b' = "failed"
          /\ UNCHANGED rcv
    /\ UNCHANGED <<snd, iq, wire, part, hist>>

DoAccept ==
    /\ s5b = "offered"
    /\ rcv.conn
    /\ s5b' = "accepted"
    /\ UNCHANGED <<snd, rcv, iq, wire, part, hist>>

OneSideGone == ~snd.conn \/ (s5b # "requested" /\ ~rcv.conn)

\* The negotiation of the bytestream: a side that is gone makes it fail.
Negotiated ==
    /\ s5b = "accepted" /\ snd.conn /\ rcv.conn
    /\ s5b' = "open"
    /\ UNCHANGED <<snd, rcv, iq, wire, part, hist>>
NegotiationFails ==
    /\ s5b \in {"requested", "offered", "accepted"}
    /\ \/ ~snd.conn /\ UNCHANGED hist
       \/ s5b # "requested" /\ ~rcv.conn /\ UNCHANGED hist
       \/ Fault
    /\ s5b' = "failed"
    /\ UNCHANGED <<snd, rcv, iq, wire, part>>

\* FileTransfer::s5b_error.
S5bError(side) == side.conn /\ side.ft = "Connecting" /\ s5b = "failed"
SndS5bError ==
    /\ S5bError(snd)
    /\ snd' = [Reset(snd) EXCEPT !.error = TRUE]
    /\ UNCHANGED <<rcv, iq, s5b, wire, part, hist>>
RcvS5bError ==
    /\ S5bError(rcv)
    /\ rcv' = [Reset(rcv) EXCEPT !.error = TRUE]
    /\ UNCHANGED <<snd, iq, s5b, wire, part, hist>>

----------------------------------------------------------------------------
(* The stream.  ft_connected opens the file: a file error ends the         *)
(* transfer, and a side with nothing to transfer posts doFinish.           *)

Connecting(side) == s5b \in {"open", "broken"} /\ side.ft = "Connecting" /\ side.conn
\* Seeded fault: the file is not positioned at the offset.
ConnectedAtStart(side) ==
    IF Size = 0 THEN Deleted(side, "done")
    ELSE [side EXCEPT !.ft = "Active", !.done = side.offset, !.pos = 0,
                      !.timer = FALSE, !.finish = side.offset = Size]
Connected(side) ==
    IF Size = 0 THEN Deleted(side, "done")
    ELSE [side EXCEPT !.ft = "Active", !.done = side.offset, !.pos = side.offset,
                      !.timer = FALSE, !.finish = side.offset = Size]

SndConnected ==
    /\ Connecting(snd)
    /\ \/ /\ snd' = [Connected(snd) EXCEPT !.posted = IF snd.offset = Size THEN 0 ELSE 1]
          /\ UNCHANGED hist
       \/ /\ snd' = Deleted(snd, "failed")
          /\ Fault
    /\ UNCHANGED <<rcv, iq, s5b, wire, part>>

\* The file is truncated when it is not resumed.
RcvConnected ==
    /\ Connecting(rcv)
    /\ \/ /\ rcv' = Connected(rcv)
          /\ part' = IF rcv.offset = 0 THEN <<>> ELSE part
          /\ UNCHANGED hist
       \/ /\ rcv' = Deleted(rcv, "failed")
          /\ Fault
          /\ UNCHANGED part
    /\ UNCHANGED <<snd, iq, s5b, wire>>

\* dataSizeNeeded.
DataSizeNeeded ==
    IF Len(snd.out) >= SendBuf THEN 0
    ELSE LET left == snd.length - (snd.sent + Len(snd.out))
         IN  IF SendBuf - Len(snd.out) > left THEN left ELSE SendBuf - Len(snd.out)

\* What read() of the file gives.
ReadSize == IF DataSizeNeeded > Size - snd.pos THEN Size - snd.pos ELSE DataSizeNeeded

\* FileTransferHandler::trySend.  The connection is used unchecked: when the
\* FileTransfer has given it up, and its error is still posted, it is null.
TrySend ==
    /\ snd.posted > 0
    /\ \/ /\ snd.conn
          /\ \/ /\ snd' = [snd EXCEPT !.posted = @ - 1, !.pos = @ + ReadSize,
                                      !.out = @ \o Bytes(snd.pos, ReadSize)]
                /\ UNCHANGED hist
             \/ /\ DataSizeNeeded > 0
                /\ snd' = Deleted(snd, "failed")
                /\ Fault
       \/ /\ ~snd.conn
          /\ snd' = Deleted(snd, "crashed")
          /\ UNCHANGED hist
    /\ UNCHANGED <<rcv, iq, s5b, wire, part>>

\* FileTransfer::s5b_bytesWritten and FileTransferHandler::ft_bytesWritten: n
\* bytes have left.  Both count, each to its own end.
BytesWritten ==
    /\ snd.ft = "Active" /\ snd.conn /\ s5b = "open"
    /\ \E n \in 1..Len(snd.out) :
        LET more == [snd EXCEPT !.sent = @ + n, !.done = @ + n,
                                !.out = SubSeq(@, n + 1, Len(@))]
            kept == IF more.sent = more.length THEN Reset(more) ELSE more
        IN  /\ snd' = IF more.done = Size \/ Finished(more.done)
                      THEN Deleted(snd, "done")
                      ELSE [kept EXCEPT !.posted = @ + 1]
            /\ wire' = IF rcv.conn THEN wire \o SubSeq(snd.out, 1, n) ELSE wire
    /\ UNCHANGED <<rcv, iq, s5b, part, hist>>

\* s5b_readyRead leaves out what is beyond the length.
Taken(n) == IF n > rcv.length - rcv.sent THEN rcv.length - rcv.sent ELSE n

\* FileTransfer::s5b_readyRead and FileTransferHandler::ft_readyRead: n bytes
\* have come.  The FileTransfer resets itself at its length, before the
\* handler writes them; the handler ends at the size of the file.
ReadyRead ==
    /\ rcv.ft = "Active" /\ rcv.conn
    /\ \E n \in 1..Len(wire) :
        LET more == [rcv EXCEPT !.sent = @ + Taken(n), !.done = @ + Taken(n),
                                !.pos = @ + Taken(n)]
            kept == IF more.sent = more.length THEN Reset(more) ELSE more
        IN  /\ wire' = SubSeq(wire, n + 1, Len(wire))
            /\ \/ /\ part' = SubSeq(part, 1, rcv.pos) \o SubSeq(wire, 1, Taken(n))
                             \o SubSeq(part, more.pos + 1, Len(part))
                  /\ rcv' = IF Finished(more.done) THEN Deleted(rcv, "done") ELSE kept
                  /\ UNCHANGED hist
               \/ /\ rcv' = Deleted(rcv, "failed")
                  /\ Fault
                  /\ UNCHANGED part
    /\ UNCHANGED <<snd, iq, s5b>>

\* FileTransferHandler::doFinish, of a side that had nothing to transfer.
SndDoFinish ==
    /\ snd.finish
    /\ snd' = Deleted(snd, "done")
    /\ UNCHANGED <<rcv, iq, s5b, wire, part, hist>>
RcvDoFinish ==
    /\ rcv.finish
    /\ rcv' = Deleted(rcv, "done")
    /\ UNCHANGED <<snd, iq, s5b, wire, part, hist>>

\* FileTransfer::s5b_connectionClosed, after what the stream still holds.
SndConnectionClosed ==
    /\ snd.ft = "Active" /\ snd.conn
    /\ s5b = "broken" \/ ~rcv.conn
    /\ snd' = [Reset(snd) EXCEPT !.error = TRUE]
    /\ UNCHANGED <<rcv, iq, s5b, wire, part, hist>>
\* Seeded fault: the close is not kept back while there is something to read.
RcvConnectionClosedEarly ==
    /\ rcv.ft = "Active" /\ rcv.conn
    /\ s5b = "broken" \/ ~snd.conn
    /\ rcv' = [Reset(rcv) EXCEPT !.error = TRUE]
    /\ UNCHANGED <<snd, iq, s5b, wire, part, hist>>
RcvConnectionClosed ==
    /\ rcv.ft = "Active" /\ rcv.conn
    /\ wire = <<>>
    /\ s5b = "broken" \/ ~snd.conn
    /\ rcv' = [Reset(rcv) EXCEPT !.error = TRUE]
    /\ UNCHANGED <<snd, iq, s5b, wire, part, hist>>

\* FileTransferHandler::ft_error, posted (Qt::QueuedConnection): the dialog
\* deletes the handler.
SndFtError ==
    /\ snd.error
    /\ snd' = Deleted(snd, "failed")
    /\ UNCHANGED <<rcv, iq, s5b, wire, part, hist>>
RcvFtError ==
    /\ rcv.error
    /\ rcv' = Deleted(rcv, "failed")
    /\ UNCHANGED <<snd, iq, s5b, wire, part, hist>>

\* The user cancels: FileTransferHandler::~FileTransferHandler.
SndCancel ==
    /\ snd.result = "running"
    /\ Fault
    /\ snd' = Deleted(snd, "failed")
    /\ UNCHANGED <<rcv, iq, s5b, wire, part>>
RcvCancel ==
    /\ rcv.result = "running" /\ rcv.ft # "WaitingForAccept"
    /\ Fault
    /\ rcv' = Deleted(rcv, "failed")
    /\ UNCHANGED <<snd, iq, s5b, wire, part>>

\* The network fails under the stream: what it held is lost.
StreamBreaks ==
    /\ s5b = "open"
    /\ Fault
    /\ s5b' = "broken"
    /\ wire' = <<>>
    /\ UNCHANGED <<snd, rcv, iq, part>>

----------------------------------------------------------------------------
User == SendFile \/ Accept \/ Reject \/ SndCancel \/ RcvCancel
Sender ==
    \/ FtFinished \/ SndS5bError \/ SndConnected \/ TrySend \/ BytesWritten
    \/ SndDoFinish \/ SndConnectionClosed \/ SndFtError
Receiver ==
    \/ PftIncoming \/ Timeout \/ S5bIncomingReady \/ DoAccept \/ RcvS5bError
    \/ RcvConnected \/ ReadyRead \/ RcvDoFinish \/ RcvConnectionClosed \/ RcvFtError
Bytestream == Negotiated \/ NegotiationFails \/ StreamBreaks

Next == User \/ Sender \/ Receiver \/ Bytestream

Spec == Init /\ [][Next]_vars

\* The event loops run, the timer fires and a negotiation with a side that is
\* gone is given up; what the users do and what fails is not assumed.
System == Sender \/ Receiver \/ Negotiated \/ (OneSideGone /\ NegotiationFails)
FairSpec == Spec /\ WF_vars(System)

----------------------------------------------------------------------------
Results == {"none", "running", "done", "failed", "crashed"}
Side == [ft : {"none", "Idle", "Requesting", "WaitingForAccept", "Connecting", "Active"},
         conn : BOOLEAN, offset : Nat, length : 0..Size, sent : Nat, done : Nat,
         pos : Nat, out : Seq(Nat), posted : Nat, finish : BOOLEAN, timer : BOOLEAN,
         error : BOOLEAN, result : Results]

Stanzas == [type : {"none", "request", "result", "error"}, offset : Nat]
Streams == {"none", "requested", "offered", "accepted", "open", "broken", "failed"}
Hists == [size : Sizes, attempts : Nat, faults : Nat, wrapped : BOOLEAN]

\* The state stays well-formed; in particular no side counts below zero.
TypeOK ==
    /\ snd \in Side /\ rcv \in Side
    /\ iq \in Stanzas
    /\ s5b \in Streams
    /\ wire \in Seq(Nat) /\ part \in Seq(Nat)
    /\ hist \in Hists

\* What name.part holds is always the beginning of the file, and all of it when
\* the receiver reports the end, however often the transfer was interrupted and
\* resumed; unless an offset did not fit the int that JT_FT::take reads it into.
PartIsPrefix ==
    ~hist.wrapped =>
        /\ IsPrefixOfFile(part)
        /\ rcv.result = "done" => Len(part) = Size

\* When one side reports the end of the transfer the other does not report an
\* error, unless somebody cancelled or something failed, or the part was already
\* whole: then the sender's close races doFinish of the receiver.
AgreeUnlessInterrupted ==
    hist.faults = 0 /\ ~hist.wrapped /\ snd.result = "done" =>
        \/ rcv.result \in {"running", "done"} /\ ~rcv.error
        \/ rcv.offset = Size

\* trySend uses a null connection only when the stream was closed behind its
\* back, and the error that would have deleted the handler is still posted.
CrashOnlyIfClosed ==
    [][snd'.result = "crashed" /\ snd.result # "crashed" =>
        snd.error /\ (s5b = "broken" \/ rcv.result \in {"done", "failed"})]_vars

\* Once the user accepted, both sides come to an end without them: a timer, the
\* end of the stream or an error ends each.  Not the receiver whose FileTransfer
\* counted to its length before the handler did (accept(offset, 0)).
AcceptedEnds ==
    rcv.ft = "Connecting" ~>
        /\ snd.result # "running"
        /\ rcv.result # "running" \/ hist.wrapped

=============================================================================
