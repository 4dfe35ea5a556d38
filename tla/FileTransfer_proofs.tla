------------------------ MODULE FileTransfer_proofs ------------------------
(***************************************************************************)
(* Proofs for FileTransfer, for files of any size, any buffer, any step of *)
(* the progress bar and any number of attempts and failures: the state     *)
(* stays well-formed, name.part is a prefix of the file, and trySend lacks *)
(* its connection only after a close, and the two ends agree in the calm.  *)
(*                                                                         *)
(* The invariant says what each side knows of itself (SndOK, RcvOK), what  *)
(* the stages of the negotiation exclude (Stages), and where the bytes are *)
(* (Content): those in name.part, in the stream and in the sender's buffer *)
(* follow one another, from the offset the two sides agreed on.  For       *)
(* trySend it adds what it finds when it is posted (Posted) and that the   *)
(* receiver has counted no more than the sender (Counted); for the ends,   *)
(* while nothing fails, that a sender which is done leaves the rest of the *)
(* file in the stream (AInv).                                              *)
(***************************************************************************)
EXTENDS FileTransfer, TLAPS

SndOK ==
    /\ snd.conn => snd.ft \in {"Connecting", "Active"}
    /\ snd.ft \in {"Requesting", "Connecting"} =>
        snd.out = <<>> /\ snd.sent = 0 /\ snd.posted = 0
    /\ snd.ft \in {"Connecting", "Active"} => snd.length = Size - snd.offset
    /\ snd.ft = "Active" =>
        snd.pos = snd.offset + snd.sent + Len(snd.out) /\ snd.pos <= Size

RcvOK ==
    /\ rcv.conn => rcv.ft \in {"Connecting", "Active"}
    /\ rcv.ft # "none" => rcv.result = "running"
    /\ rcv.ft # "Active" => rcv.sent = 0
    /\ rcv.ft \in {"Connecting", "Active"} => rcv.length = Size
    /\ rcv.ft = "Connecting" => Len(part) = rcv.offset
    /\ rcv.ft = "Active" =>
        /\ Len(part) = rcv.pos /\ rcv.done = rcv.pos
        /\ rcv.pos = rcv.offset + rcv.sent /\ rcv.sent <= rcv.length

Stages ==
    /\ snd.ft = "Requesting" => s5b = "none"
    /\ s5b = "none" => ~snd.conn /\ ~rcv.conn
    /\ snd.ft = "Active" \/ rcv.ft = "Active" => s5b \in {"open", "broken"}
    /\ s5b \notin {"open", "broken"} => wire = <<>>
    /\ rcv.ft = "WaitingForAccept" => ~snd.conn /\ iq.type = "none"
    /\ iq.type = "request" => ~snd.conn

Base == rcv.offset + rcv.sent

Content ==
    /\ IsPrefixOfFile(part)
    /\ rcv.result = "done" \/ rcv.finish => Len(part) = Size
    /\ iq.type = "result" /\ rcv.ft = "Connecting" => iq.offset = rcv.offset
    /\ snd.conn /\ rcv.ft \in {"Connecting", "Active"} => snd.offset = rcv.offset
    /\ rcv.conn => wire = Bytes(Base, Len(wire)) /\ Base + Len(wire) <= Size
    /\ snd.conn /\ rcv.conn /\ snd.ft = "Connecting" => wire = <<>> /\ rcv.sent = 0
    /\ snd.conn /\ rcv.conn /\ snd.ft = "Active" /\ s5b = "open" =>
        /\ snd.out = Bytes(Base + Len(wire), Len(snd.out))
        /\ snd.pos = Base + Len(wire) + Len(snd.out)

IInv == TypeOK /\ SndOK /\ RcvOK /\ Stages /\ (~hist.wrapped => Content)

----------------------------------------------------------------------------
(* Bytes of the file that follow one another.                              *)

LEMMA BytesAre ==
    ASSUME NEW b \in Nat, NEW n \in Nat
    PROVE  /\ Bytes(b, n) \in Seq(Nat) /\ Len(Bytes(b, n)) = n /\ DOMAIN Bytes(b, n) = 1..n
           /\ \A i \in 1..n : Bytes(b, n)[i] = b + i - 1
BY DEF Bytes

\* A sequence of such bytes is that piece.
LEMMA AreBytes ==
    ASSUME NEW b \in Nat, NEW n \in Nat, NEW s \in Seq(Nat), Len(s) = n,
           \A i \in 1..n : s[i] = b + i - 1
    PROVE  s = Bytes(b, n)
BY DEF Bytes

\* The entries of a concatenation, and of the parts of a sequence.
LEMMA Entries ==
    ASSUME NEW S, NEW s \in Seq(S), NEW t \in Seq(S)
    PROVE  /\ s \o t \in Seq(S) /\ Len(s \o t) = Len(s) + Len(t)
           /\ Len(s) \in Nat /\ Len(t) \in Nat
           /\ \A i \in 1..Len(s) : (s \o t)[i] = s[i]
           /\ \A i \in 1..Len(t) : (s \o t)[i + Len(s)] = t[i]
OBVIOUS
LEMMA Cut ==
    ASSUME NEW S, NEW s \in Seq(S), NEW k \in 0..Len(s)
    PROVE  /\ SubSeq(s, 1, k) \in Seq(S) /\ Len(SubSeq(s, 1, k)) = k
           /\ \A i \in 1..k : SubSeq(s, 1, k)[i] = s[i]
           /\ SubSeq(s, k + 1, Len(s)) \in Seq(S)
           /\ Len(SubSeq(s, k + 1, Len(s))) = Len(s) - k
           /\ \A i \in 1..Len(s) - k : SubSeq(s, k + 1, Len(s))[i] = s[i + k]
OBVIOUS

\* Two pieces that follow one another are one.
LEMMA BytesConcat ==
    ASSUME NEW b \in Nat, NEW m \in Nat, NEW n \in Nat
    PROVE  Bytes(b, m) \o Bytes(b + m, n) = Bytes(b, m + n)
<1> DEFINE s == Bytes(b, m)
           t == Bytes(b + m, n)
           u == s \o t
<1>1. s \in Seq(Nat) /\ Len(s) = m /\ \A i \in 1..m : s[i] = b + i - 1
    BY BytesAre
<1>2. t \in Seq(Nat) /\ Len(t) = n /\ \A i \in 1..n : t[i] = b + m + i - 1
    <2>1. b + m \in Nat
        OBVIOUS
    <2> QED BY <2>1, BytesAre
<1> HIDE DEF s, t
<1>3. /\ u \in Seq(Nat) /\ Len(u) = m + n
      /\ \A i \in 1..m : u[i] = s[i]
      /\ \A i \in 1..n : u[i + m] = t[i]
    <2>1. s \in Seq(Nat) /\ t \in Seq(Nat) /\ Len(s) = m /\ Len(t) = n
        BY <1>1, <1>2
    <2>2. u \in Seq(Nat) /\ Len(u) = Len(s) + Len(t)
        BY <2>1, SMTT(30)
    <2>3. \A i \in 1..Len(s) : u[i] = s[i]
        BY <2>1
    <2>4. \A i \in 1..Len(t) : u[i + Len(s)] = t[i]
        BY <2>1
    <2> HIDE DEF u
    <2> QED BY <2>1, <2>2, <2>3, <2>4
<1> HIDE DEF u
<1>4. ASSUME NEW i \in 1..(m + n) PROVE u[i] = b + i - 1
    <2>1. CASE i \in 1..m
        BY <1>1, <1>3, <2>1
    <2>2. CASE i \notin 1..m
        <3>1. i - m \in 1..n /\ (i - m) + m = i
            BY <2>2
        <3>2. u[i] = t[i - m] /\ t[i - m] = b + m + (i - m) - 1
            BY <1>2, <1>3, <3>1
        <3> QED BY <3>1, <3>2
    <2> QED BY <2>1, <2>2
<1>5. u = Bytes(b, m + n)
    BY <1>3, <1>4, AreBytes
<1> QED BY <1>5 DEF s, t, u

\* The first k bytes, and the others.
LEMMA BytesCut ==
    ASSUME NEW b \in Nat, NEW n \in Nat, NEW k \in 0..n
    PROVE  /\ SubSeq(Bytes(b, n), 1, k) = Bytes(b, k)
           /\ SubSeq(Bytes(b, n), k + 1, n) = Bytes(b + k, n - k)
<1> DEFINE s == Bytes(b, n)
           u == SubSeq(s, 1, k)
           v == SubSeq(s, k + 1, n)
<1>1. s \in Seq(Nat) /\ Len(s) = n /\ \A i \in 1..n : s[i] = b + i - 1
    BY BytesAre
<1> HIDE DEF s
<1>2. /\ u \in Seq(Nat) /\ Len(u) = k /\ \A i \in 1..k : u[i] = s[i]
      /\ v \in Seq(Nat) /\ Len(v) = n - k /\ \A i \in 1..n - k : v[i] = s[i + k]
    <2>1. s \in Seq(Nat) /\ k \in 0..Len(s) /\ n = Len(s)
        BY <1>1
    <2>2. /\ SubSeq(s, 1, k) \in Seq(Nat) /\ Len(SubSeq(s, 1, k)) = k
          /\ \A i \in 1..k : SubSeq(s, 1, k)[i] = s[i]
          /\ SubSeq(s, k + 1, Len(s)) \in Seq(Nat)
          /\ Len(SubSeq(s, k + 1, Len(s))) = Len(s) - k
          /\ \A i \in 1..Len(s) - k : SubSeq(s, k + 1, Len(s))[i] = s[i + k]
        BY ONLY <2>1, Cut, ZenonT(30)
    <2>3. u = SubSeq(s, 1, k) /\ v = SubSeq(s, k + 1, Len(s))
        BY <2>1
    <2> HIDE DEF u, v
    <2> QED BY ONLY <2>1, <2>2, <2>3, ZenonT(30)
<1> HIDE DEF u, v
<1>3. u = Bytes(b, k)
    <2>1. \A i \in 1..k : u[i] = b + i - 1
        BY <1>1, <1>2
    <2> QED BY <1>2, <2>1, AreBytes
<1>4. v = Bytes(b + k, n - k)
    <2>1. b + k \in Nat /\ n - k \in Nat
        OBVIOUS
    <2>2. \A i \in 1..n - k : v[i] = b + k + i - 1
        <3>1. SUFFICES ASSUME NEW i \in 1..n - k PROVE v[i] = b + k + i - 1
            OBVIOUS
        <3>2. i + k \in 1..n /\ v[i] = s[i + k]
            BY <1>2
        <3>3. s[i + k] = b + (i + k) - 1
            BY <1>1, <3>2
        <3> QED BY <3>2, <3>3
    <2> QED BY <1>2, <2>1, <2>2, AreBytes
<1> QED BY <1>3, <1>4 DEF s, u, v

----------------------------------------------------------------------------
(* The progress bar.                                                       *)

LEMMA DivMod ==
    ASSUME NEW x \in Nat, NEW b \in Nat \ {0}
    PROVE  /\ x \div b \in Nat /\ x % b \in 0..b - 1
           /\ x = b * (x \div b) + (x % b)
OBVIOUS

\* Quotient and remainder are unique.
LEMMA DivModUnique ==
    ASSUME NEW x \in Nat, NEW b \in Nat \ {0}, NEW q \in Nat, NEW r \in 0..b - 1,
           x = b * q + r
    PROVE  x \div b = q /\ x % b = r
<1>1. x \div b \in Nat /\ x % b \in 0..b - 1 /\ x = b * (x \div b) + (x % b)
    BY DivMod
<1> DEFINE k == x \div b
           m == x % b
<1>2. k \in Nat /\ m \in 0..b - 1 /\ b * k + m = b * q + r
    BY <1>1
<1> HIDE DEF k, m
<1>3. CASE k < q
    <2>1. b * (k + 1) <= b * q
        BY <1>2, <1>3
    <2>2. b * (k + 1) = b * k + b
        BY <1>2
    <2> QED BY <1>2, <2>1, <2>2
<1>4. CASE q < k
    <2>1. b * (q + 1) <= b * k
        BY <1>2, <1>4
    <2>2. b * (q + 1) = b * q + b
        BY <1>2
    <2> QED BY <1>2, <2>1, <2>2
<1>5. CASE q = k
    BY <1>5, <1>2 DEF k, m
<1> QED BY <1>2, <1>3, <1>4, <1>5

\* The last step of the bar is only reached at the end of the file.
LEMMA FinishedAtEnd ==
    ASSUME Size \in Nat, NEW d \in 0..Size, Finished(d)
    PROVE  d = Size
<1> DEFINE q == Size \div Block
           r == Size % Block
           c == Complement
           steps == TotalSteps
<1>1. q \in Nat /\ r \in 0..Block - 1 /\ Size = Block * q + r /\ Block \in Nat \ {0}
    BY DivMod, SizeAssumption
<1>2. c = (Block - r) % Block /\ (d + c) \div Block = steps
    BY DEF Complement, Finished
<1>3. Size # 0 => steps = ((Size - 1) \div Block) + 1
    BY DEF TotalSteps
<1> HIDE DEF q, r, c, steps
<1>4. CASE Size = 0
    BY <1>4
<1>5. CASE Size # 0 /\ r = 0
    <2>1. Block = Block * 1 + 0
        BY <1>1
    <2>2. Block % Block = 0
        BY <2>1, <1>1, DivModUnique
    <2>3. c = 0
        BY <1>2, <1>5, <2>2, <1>1
    <2>4. q - 1 \in Nat /\ Size = Block * q
        BY <1>1, <1>5
    <2>5. Block * (q - 1) = Block * q - Block
        BY <1>1
    <2>6. Size - 1 = Block * (q - 1) + (Block - 1) /\ Size - 1 \in Nat /\ Block - 1 \in 0..Block - 1
        BY <2>4, <2>5, <1>1, <1>5
    <2>7. (Size - 1) \div Block = q - 1
        BY <2>6, <2>4, <1>1, DivModUnique
    <2>8. d \div Block = q
        BY <1>2, <1>3, <1>5, <2>3, <2>7, <1>1
    <2>9. d = Block * (d \div Block) + (d % Block) /\ d % Block \in Nat
        BY <1>1, DivMod
    <2>10. d = Block * q + (d % Block) /\ d % Block \in Nat
        BY <2>8, <2>9
    <2> QED BY <2>10, <2>4, <1>1
<1>6. CASE Size # 0 /\ r # 0
    <2>1. Block - r = Block * 0 + (Block - r) /\ Block - r \in 0..Block - 1 /\ Block - r \in Nat
        BY <1>1, <1>6
    <2>2. c = Block - r
        BY <2>1, <1>1, <1>2, DivModUnique
    <2>3. Size - 1 = Block * q + (r - 1) /\ r - 1 \in 0..Block - 1 /\ Size - 1 \in Nat
        BY <1>1, <1>6
    <2>4. (Size - 1) \div Block = q
        BY <2>3, <1>1, DivModUnique
    <2> DEFINE e == d + c
    <2>5. e \in Nat /\ e = d + (Block - r) /\ e \div Block = q + 1
        BY <2>1, <2>2, <2>4, <1>2, <1>3, <1>6
    <2> HIDE DEF e
    <2>6. e = Block * (e \div Block) + (e % Block) /\ e % Block \in Nat
        BY <2>5, <1>1, DivMod
    <2>7. e = Block * (q + 1) + (e % Block)
        BY <2>5, <2>6
    <2>8. Block * (q + 1) = Block * q + Block
        BY <1>1
    <2> QED BY <2>5, <2>6, <2>7, <2>8, <1>1
<1> QED BY <1>4, <1>5, <1>6

----------------------------------------------------------------------------
(* What leaves the history as far as the invariant uses it.                *)

SameFile == hist' \in Hists /\ hist'.size = hist.size /\ hist'.wrapped = hist.wrapped

LEMMA HistKept ==
    ASSUME TypeOK, UNCHANGED hist \/ Fault
    PROVE  SameFile
<1>1. CASE UNCHANGED hist
    BY <1>1 DEF TypeOK, SameFile
<1>2. CASE Fault
    <2>1. \A n \in Nat : [hist EXCEPT !.faults = n] \in Hists
        BY DEF TypeOK, Hists
    <2>2. hist.faults + 1 \in Nat
        BY DEF TypeOK, Hists
    <2>3. hist' = [hist EXCEPT !.faults = hist.faults + 1]
        BY <1>2 DEF Fault
    <2> QED BY <2>1, <2>2, <2>3 DEF SameFile, TypeOK, Hists
<1> QED BY <1>1, <1>2

LEMMA SameSide ==
    ASSUME SameFile PROVE Side' = Side /\ Size' = Size
BY DEF SameFile, Side, Size

LEMMA SizeNat ==
    ASSUME TypeOK PROVE Size \in Nat
BY SizeAssumption DEF TypeOK, Hists, Size

\* A side that is new, deleted, or has given up.
LEMMA NewSideIs ==
    ASSUME TypeOK PROVE NewSide \in Side
BY SizeNat DEF NewSide, Side, Results

LEMMA DeletedIs ==
    ASSUME TypeOK, NEW side \in Side, NEW how \in Results
    PROVE  LET d == Deleted(side, how)
           IN  d \in Side /\ d.ft = "none" /\ d.conn = FALSE /\ d.sent = 0
               /\ d.finish = FALSE /\ d.result = how
<1>1. NewSide \in Side /\ side.offset \in Nat
    BY NewSideIs DEF Side
<1>2. \A o \in Nat : [NewSide EXCEPT !.offset = o, !.result = how] \in Side
    <2> HIDE DEF NewSide
    <2> QED BY <1>1 DEF Side
<1>3. Deleted(side, how) = [NewSide EXCEPT !.offset = side.offset, !.result = how]
    BY DEF Deleted
<1>4. Deleted(side, how) \in Side
    BY <1>1, <1>2, <1>3
<1>5. /\ Deleted(side, how).ft = "none" /\ Deleted(side, how).conn = FALSE
      /\ Deleted(side, how).sent = 0 /\ Deleted(side, how).finish = FALSE
      /\ Deleted(side, how).result = how
    BY <1>3 DEF NewSide
<1> QED BY <1>4, <1>5

GaveUp(side) == [Reset(side) EXCEPT !.error = TRUE]
LEMMA GaveUpIs ==
    ASSUME TypeOK, NEW side \in Side
    PROVE  LET d == GaveUp(side)
           IN  d \in Side /\ d.ft = "Idle" /\ d.conn = FALSE /\ d.sent = 0
               /\ d.finish = side.finish /\ d.result = side.result
BY DEF GaveUp, Reset, Side

\* The sender is gone: nothing is claimed of it, and what the stream holds is
\* still for the receiver.
LEMMA SndGone ==
    ASSUME IInv, snd' \in Side, ~snd'.conn, snd'.ft \in {"none", "Idle"},
           UNCHANGED <<rcv, s5b, part>>, SameFile, iq' \in {iq, None},
           wire' \in Seq(Nat), s5b \notin {"open", "broken"} => wire' = <<>>,
           ~hist.wrapped /\ rcv.conn =>
               wire' = Bytes(Base, Len(wire')) /\ Base + Len(wire') <= Size
    PROVE  IInv'
<1>1. iq' \in Stanzas /\ (iq' = iq \/ iq'.type = "none")
    BY DEF IInv, TypeOK, None, Stanzas
<1>2. TypeOK'
    BY <1>1, SameSide DEF IInv, TypeOK, SameFile
<1>3. SndOK' /\ RcvOK' /\ Stages'
    BY <1>1, SameSide DEF IInv, SndOK, RcvOK, Stages
<1>4. ~hist'.wrapped => Content'
    BY <1>1, SameSide DEF IInv, Content, SameFile, Base, IsPrefixOfFile
<1> QED BY <1>2, <1>3, <1>4 DEF IInv

\* The receiver is gone: what it leaves is a prefix of the file, and all of it
\* when it says so.
LEMMA RcvGone ==
    ASSUME IInv, rcv' \in Side, ~rcv'.conn, rcv'.ft \in {"none", "Idle"}, rcv'.sent = 0,
           rcv'.ft = "Idle" => rcv'.result = "running",
           UNCHANGED <<snd, s5b>>, SameFile,
           iq' \in Stanzas, iq'.type = "request" => iq.type = "request",
           wire' \in Seq(Nat), s5b \notin {"open", "broken"} => wire' = <<>>,
           part' \in Seq(Nat),
           ~hist.wrapped => IsPrefixOfFile(part'),
           ~hist.wrapped /\ (rcv'.result = "done" \/ rcv'.finish) => Len(part') = Size
    PROVE  IInv'
<1>1. TypeOK'
    BY SameSide DEF IInv, TypeOK, SameFile
<1>2. SndOK' /\ RcvOK' /\ Stages'
    BY SameSide DEF IInv, SndOK, RcvOK, Stages
<1>3. ~hist'.wrapped => Content'
    BY SameSide DEF IInv, Content, SameFile, Base, IsPrefixOfFile
<1> QED BY <1>1, <1>2, <1>3 DEF IInv

\* Either leaves the stream and the part as they are.
LEMMA SndLeaves ==
    ASSUME IInv, snd' \in Side, ~snd'.conn, snd'.ft \in {"none", "Idle"},
           UNCHANGED <<rcv, s5b, wire, part>>, SameFile, iq' \in {iq, None}
    PROVE  IInv'
<1>1. wire' \in Seq(Nat) /\ (s5b \notin {"open", "broken"} => wire' = <<>>)
    BY DEF IInv, TypeOK, Stages
<1>2. ~hist.wrapped /\ rcv.conn =>
        wire' = Bytes(Base, Len(wire')) /\ Base + Len(wire') <= Size
    BY DEF IInv, Content
<1> QED BY <1>1, <1>2, SndGone

LEMMA RcvLeaves ==
    ASSUME IInv, rcv' \in Side, ~rcv'.conn, rcv'.ft \in {"none", "Idle"}, rcv'.sent = 0,
           rcv'.ft = "Idle" => rcv'.result = "running",
           rcv'.result = "done" \/ rcv'.finish => rcv.result = "done" \/ rcv.finish,
           UNCHANGED <<snd, s5b, wire, part>>, SameFile,
           iq' \in Stanzas, iq'.type = "request" => iq.type = "request"
    PROVE  IInv'
<1>1. /\ wire' \in Seq(Nat) /\ (s5b \notin {"open", "broken"} => wire' = <<>>)
      /\ part' \in Seq(Nat)
    BY DEF IInv, TypeOK, Stages
<1>2. ~hist.wrapped => IsPrefixOfFile(part')
    BY DEF IInv, Content
<1>3. ~hist.wrapped /\ (rcv'.result = "done" \/ rcv'.finish) => Len(part') = Size
    BY DEF IInv, Content
<1> QED BY <1>1, <1>2, <1>3, RcvGone

----------------------------------------------------------------------------
(* The negotiation.                                                        *)

LEMMA StanzaIs ==
    ASSUME NEW t \in {"none", "request", "result", "error"}, NEW n \in Nat
    PROVE  Stanza(t, n) \in Stanzas /\ Stanza(t, n).type = t /\ Stanza(t, n).offset = n
BY DEF Stanza, Stanzas

LEMMA SendFileInv ==
    ASSUME IInv, SendFile PROVE IInv'
<1>1. SameFile
    <2>1. \A n \in Nat : [hist EXCEPT !.attempts = n] \in Hists
        BY DEF IInv, TypeOK, Hists
    <2>2. hist.attempts + 1 \in Nat
        BY DEF IInv, TypeOK, Hists
    <2>3. hist' = [hist EXCEPT !.attempts = hist.attempts + 1]
        BY DEF SendFile
    <2> QED BY <2>1, <2>2, <2>3 DEF SameFile, IInv, TypeOK, Hists
<1>2. /\ rcv' = NewSide /\ rcv' \in Side /\ snd' \in Side
      /\ snd'.ft = "Requesting" /\ ~snd'.conn /\ snd'.out = <<>> /\ snd'.sent = 0
      /\ snd'.posted = 0
    <2>1. NewSide \in Side
        BY NewSideIs DEF IInv
    <2>2. [NewSide EXCEPT !.ft = "Requesting", !.result = "running"] \in Side
        <3> HIDE DEF NewSide
        <3> QED BY <2>1 DEF Side, Results
    <2> QED BY <2>1, <2>2 DEF SendFile, NewSide
<1>3. /\ rcv'.ft = "none" /\ ~rcv'.conn /\ rcv'.sent = 0 /\ rcv'.result = "none"
      /\ ~rcv'.finish
    BY <1>2 DEF NewSide
<1>4. iq' \in Stanzas /\ iq'.type = "request"
    BY StanzaIs DEF SendFile
<1>5. s5b' = "none" /\ wire' = <<>> /\ part' = part
    BY DEF SendFile
<1>6. TypeOK'
    BY <1>1, <1>2, <1>4, <1>5, SameSide DEF IInv, TypeOK, SameFile, Streams
<1>7. SndOK' /\ RcvOK' /\ Stages'
    BY <1>1, <1>2, <1>3, <1>4, <1>5 DEF SndOK, RcvOK, Stages
<1>8. ~hist'.wrapped => Content'
    BY <1>1, <1>2, <1>3, <1>4, <1>5, SameSide DEF IInv, Content, SameFile, IsPrefixOfFile
<1> QED BY <1>6, <1>7, <1>8 DEF IInv

LEMMA PftIncomingInv ==
    ASSUME IInv, PftIncoming PROVE IInv'
<1>1. SameFile
    BY HistKept DEF IInv, PftIncoming
<1>2. CASE rcv' = [NewSide EXCEPT !.ft = "WaitingForAccept", !.result = "running"] /\ iq' = None
    <2>1. NewSide \in Side
        BY NewSideIs DEF IInv
    <2>2. [NewSide EXCEPT !.ft = "WaitingForAccept", !.result = "running"] \in Side
        <3> HIDE DEF NewSide
        <3> QED BY <2>1 DEF Side, Results
    <2>3. /\ rcv' \in Side /\ rcv'.ft = "WaitingForAccept" /\ ~rcv'.conn /\ rcv'.sent = 0
          /\ rcv'.result = "running" /\ ~rcv'.finish
        BY <1>2, <2>2 DEF NewSide
    <2>4. iq' \in Stanzas /\ iq'.type = "none"
        BY <1>2 DEF None, Stanzas
    <2>5. UNCHANGED <<snd, s5b, wire, part>> /\ ~snd.conn
        BY DEF PftIncoming, IInv, Stages
    <2>6. TypeOK'
        BY <1>1, <2>3, <2>4, <2>5, SameSide DEF IInv, TypeOK, SameFile
    <2>7. SndOK' /\ RcvOK' /\ Stages'
        BY <1>1, <2>3, <2>4, <2>5, SameSide DEF IInv, SndOK, RcvOK, Stages
    <2>8. ~hist'.wrapped => Content'
        BY <1>1, <2>3, <2>4, <2>5, SameSide DEF IInv, Content, SameFile, IsPrefixOfFile
    <2> QED BY <2>6, <2>7, <2>8 DEF IInv
<1>3. CASE iq' = Stanza("error", 0) /\ UNCHANGED rcv
    <2>1. iq' \in Stanzas /\ iq'.type = "error"
        BY <1>3, StanzaIs
    <2>2. UNCHANGED <<snd, s5b, wire, part, rcv>> /\ iq.type = "request"
        BY <1>3 DEF PftIncoming
    <2>3. TypeOK'
        BY <1>1, <2>1, <2>2, SameSide DEF IInv, TypeOK, SameFile
    <2>4. SndOK' /\ RcvOK' /\ Stages'
        BY <1>1, <2>1, <2>2, SameSide DEF IInv, SndOK, RcvOK, Stages
    <2>5. ~hist'.wrapped => Content'
        BY <1>1, <2>1, <2>2, SameSide DEF IInv, Content, SameFile, IsPrefixOfFile, Base
    <2> QED BY <2>3, <2>4, <2>5 DEF IInv
<1> QED BY <1>2, <1>3 DEF PftIncoming

LEMMA AcceptInv ==
    ASSUME IInv, Accept PROVE IInv'
<1>1. SameFile
    BY HistKept DEF IInv, Accept
<1>2. Len(part) \in Nat /\ Size \in Nat /\ rcv \in Side
    BY SizeNat DEF IInv, TypeOK
<1>3. \A n \in Nat, l \in 0..Size : [rcv EXCEPT !.ft = "Connecting", !.offset = n,
                                              !.length = l, !.timer = TRUE] \in Side
    BY <1>2 DEF Side
<1>4. /\ rcv' \in Side
      /\ rcv'.ft = "Connecting" /\ rcv'.offset = Len(part) /\ rcv'.length = Size
      /\ rcv'.conn = rcv.conn /\ rcv'.sent = rcv.sent /\ rcv'.result = rcv.result
      /\ rcv'.finish = rcv.finish
    <2>1. Size \in 0..Size
        BY <1>2
    <2>2. rcv' = [rcv EXCEPT !.ft = "Connecting", !.offset = Len(part),
                             !.length = Size, !.timer = TRUE]
        BY DEF Accept
    <2>3. rcv' \in Side
        BY <1>2, <1>3, <2>1, <2>2
    <2> QED BY <1>2, <2>2, <2>3 DEF Side
<1>5. ~rcv.conn /\ rcv.sent = 0 /\ rcv.result = "running" /\ ~snd.conn
    BY DEF Accept, IInv, RcvOK, Stages
<1>6. iq' \in Stanzas /\ iq'.type = "result" /\ iq'.offset = Len(part)
    BY <1>2, StanzaIs DEF Accept
<1>7. UNCHANGED <<snd, s5b, wire, part>>
    BY DEF Accept
<1>8. TypeOK'
    BY <1>1, <1>4, <1>6, <1>7, SameSide DEF IInv, TypeOK, SameFile
<1>9. SndOK' /\ RcvOK' /\ Stages'
    BY <1>1, <1>4, <1>5, <1>6, <1>7, SameSide DEF IInv, SndOK, RcvOK, Stages
<1>10. ~hist'.wrapped => Content'
    BY <1>1, <1>4, <1>5, <1>6, <1>7, SameSide DEF IInv, Content, SameFile, IsPrefixOfFile
<1> QED BY <1>8, <1>9, <1>10 DEF IInv

\* A side is deleted, or gives up, and nothing else happens.
LEMMA SndDeleted ==
    ASSUME IInv, NEW how \in Results, snd' = Deleted(snd, how),
           UNCHANGED <<rcv, iq, s5b, wire, part>>, UNCHANGED hist \/ Fault
    PROVE  IInv'
<1>1. SameFile
    BY HistKept DEF IInv
<1>2. snd' \in Side /\ ~snd'.conn /\ snd'.ft = "none"
    BY DeletedIs DEF IInv, TypeOK
<1> QED BY <1>1, <1>2, SndLeaves

LEMMA SndGivesUp ==
    ASSUME IInv, snd' = GaveUp(snd), UNCHANGED <<rcv, s5b, wire, part, hist>>,
           iq' \in {iq, None}
    PROVE  IInv'
<1>1. SameFile
    BY HistKept DEF IInv
<1>2. snd' \in Side /\ ~snd'.conn /\ snd'.ft = "Idle"
    BY GaveUpIs DEF IInv, TypeOK
<1> QED BY <1>1, <1>2, SndLeaves

LEMMA RcvDeleted ==
    ASSUME IInv, NEW how \in Results, rcv' = Deleted(rcv, how), how = "done" => rcv.finish,
           UNCHANGED <<snd, s5b, wire, part>>, UNCHANGED hist \/ Fault,
           iq' \in {iq, Stanza("error", 0)}
    PROVE  IInv'
<1>1. SameFile
    BY HistKept DEF IInv
<1>2. rcv' \in Side /\ ~rcv'.conn /\ rcv'.ft = "none" /\ rcv'.sent = 0
      /\ ~rcv'.finish /\ rcv'.result = how
    BY DeletedIs DEF IInv, TypeOK
<1>3. iq' \in Stanzas /\ (iq'.type = "request" => iq.type = "request")
    BY StanzaIs DEF IInv, TypeOK
<1> QED BY <1>1, <1>2, <1>3, RcvLeaves

LEMMA RcvGivesUp ==
    ASSUME IInv, rcv' = GaveUp(rcv), rcv.ft # "none",
           UNCHANGED <<snd, iq, s5b, wire, part, hist>>
    PROVE  IInv'
<1>1. SameFile
    BY HistKept DEF IInv
<1>2. rcv' \in Side /\ ~rcv'.conn /\ rcv'.ft = "Idle" /\ rcv'.sent = 0
      /\ rcv'.finish = rcv.finish /\ rcv'.result = rcv.result
    BY GaveUpIs DEF IInv, TypeOK
<1>3. rcv'.result = "running"
    BY <1>2 DEF IInv, RcvOK
<1>4. iq' \in Stanzas /\ (iq'.type = "request" => iq.type = "request")
    BY DEF IInv, TypeOK
<1> QED BY <1>1, <1>2, <1>3, <1>4, RcvLeaves

LEMMA RejectInv ==
    ASSUME IInv, Reject PROVE IInv'
BY RcvDeleted DEF Reject, Results
LEMMA TimeoutInv ==
    ASSUME IInv, Timeout PROVE IInv'
BY RcvDeleted DEF Timeout, Results
LEMMA RcvCancelInv ==
    ASSUME IInv, RcvCancel PROVE IInv'
BY RcvDeleted DEF RcvCancel, Results
LEMMA RcvDoFinishInv ==
    ASSUME IInv, RcvDoFinish PROVE IInv'
BY RcvDeleted DEF RcvDoFinish, Results
LEMMA RcvFtErrorInv ==
    ASSUME IInv, RcvFtError PROVE IInv'
BY RcvDeleted DEF RcvFtError, Results
LEMMA RcvS5bErrorInv ==
    ASSUME IInv, RcvS5bError PROVE IInv'
BY RcvGivesUp DEF RcvS5bError, S5bError, GaveUp
LEMMA RcvConnectionClosedInv ==
    ASSUME IInv, RcvConnectionClosed PROVE IInv'
BY RcvGivesUp DEF RcvConnectionClosed, GaveUp

LEMMA SndCancelInv ==
    ASSUME IInv, SndCancel PROVE IInv'
BY SndDeleted DEF SndCancel, Results
LEMMA SndDoFinishInv ==
    ASSUME IInv, SndDoFinish PROVE IInv'
BY SndDeleted DEF SndDoFinish, Results
LEMMA SndFtErrorInv ==
    ASSUME IInv, SndFtError PROVE IInv'
BY SndDeleted DEF SndFtError, Results
LEMMA SndS5bErrorInv ==
    ASSUME IInv, SndS5bError PROVE IInv'
BY SndGivesUp DEF SndS5bError, S5bError, GaveUp
LEMMA SndConnectionClosedInv ==
    ASSUME IInv, SndConnectionClosed PROVE IInv'
BY SndGivesUp DEF SndConnectionClosed, GaveUp

\* What becomes of the stream while no byte is in it, and when it breaks.
LEMMA StreamMoves ==
    ASSUME IInv, UNCHANGED <<snd, rcv, iq, part>>, UNCHANGED hist \/ Fault,
           s5b # "none", s5b' \in Streams \ {"none"},
           \/ s5b \notin {"open", "broken"} /\ UNCHANGED wire
           \/ s5b = "open" /\ s5b' = "broken" /\ wire' = <<>>
    PROVE  IInv'
<1>1. SameFile
    BY HistKept DEF IInv
<1>2. TypeOK'
    <2>1. <<>> \in Seq(Nat) /\ wire \in Seq(Nat)
        BY DEF IInv, TypeOK
    <2>2. wire' \in Seq(Nat) /\ s5b' \in Streams
        BY <2>1, Zenon
    <2> QED BY <1>1, <2>2, SameSide DEF IInv, TypeOK, SameFile
<1>3. SndOK' /\ RcvOK'
    BY <1>1, SameSide DEF IInv, SndOK, RcvOK
<1>4. Stages'
    BY DEF IInv, Stages
<1>5. ~hist'.wrapped => Content'
    <2>1. SUFFICES ASSUME ~hist.wrapped PROVE Content'
        BY <1>1 DEF SameFile
    <2>2. Content /\ Base' = Base /\ Size' = Size
        BY <2>1, <1>1, SameSide DEF IInv, Base
    <2>3. CASE s5b \notin {"open", "broken"} /\ UNCHANGED wire
        <3>1. snd.ft # "Active"
            BY <2>3 DEF IInv, Stages
        <3> QED BY <2>2, <2>3, <3>1 DEF Content, IsPrefixOfFile
    <2>4. CASE s5b = "open" /\ s5b' = "broken" /\ wire' = <<>>
        <3>1. rcv.conn => Base \in Nat /\ Base <= Size
            <4>1. rcv \in Side /\ wire \in Seq(Nat) /\ Size \in Nat
                BY SizeNat DEF IInv, TypeOK
            <4>2. Len(wire) \in Nat /\ Base \in Nat
                BY <4>1 DEF Side, Base
            <4> QED BY <2>2, <4>1, <4>2 DEF Content
        <3>2. rcv.conn => wire' = Bytes(Base', Len(wire')) /\ Base' + Len(wire') <= Size'
            BY <2>2, <2>4, <3>1, SizeNat DEF Bytes, IInv
        <3> QED BY <2>2, <2>4, <3>2 DEF Content, IsPrefixOfFile
    <2> QED BY <2>3, <2>4
<1> QED BY <1>2, <1>3, <1>4, <1>5 DEF IInv

LEMMA DoAcceptInv ==
    ASSUME IInv, DoAccept PROVE IInv'
BY StreamMoves DEF DoAccept, Streams
LEMMA NegotiatedInv ==
    ASSUME IInv, Negotiated PROVE IInv'
BY StreamMoves DEF Negotiated, Streams
LEMMA NegotiationFailsInv ==
    ASSUME IInv, NegotiationFails PROVE IInv'
BY StreamMoves DEF NegotiationFails, Streams
LEMMA StreamBreaksInv ==
    ASSUME IInv, StreamBreaks PROVE IInv'
BY StreamMoves DEF StreamBreaks, Streams

LEMMA FtFinishedInv ==
    ASSUME IInv, FtFinished PROVE IInv'
<1>1. UNCHANGED <<rcv, wire, part>> /\ iq' = None /\ iq' \in {iq, None}
    BY DEF FtFinished
<1>2. iq' \in Stanzas /\ iq'.type = "none"
    BY <1>1 DEF None, Stanzas
<1>3. CASE UNCHANGED <<snd, s5b, hist>>
    <2>1. SameFile
        BY <1>3, HistKept DEF IInv
    <2>2. TypeOK'
        BY <1>1, <1>2, <1>3, <2>1, SameSide DEF IInv, TypeOK, SameFile
    <2>3. SndOK' /\ RcvOK' /\ Stages'
        BY <1>1, <1>2, <1>3, <2>1, SameSide DEF IInv, SndOK, RcvOK, Stages
    <2>4. ~hist'.wrapped => Content'
        BY <1>1, <1>2, <1>3, <2>1, SameSide DEF IInv, Content, SameFile, IsPrefixOfFile, Base
    <2> QED BY <2>2, <2>3, <2>4 DEF IInv
<1>4. CASE snd' = GaveUp(snd) /\ UNCHANGED <<s5b, hist>>
    BY <1>1, <1>4, SndGivesUp
<1>5. CASE
        /\ snd.ft = "Requesting" /\ iq.type = "result" /\ Parsed(iq.offset) \in 0..Size
        /\ snd' = [snd EXCEPT !.ft = "Connecting", !.conn = TRUE,
                              !.offset = Parsed(iq.offset),
                              !.length = LengthFrom(Parsed(iq.offset))]
        /\ s5b' = "requested"
        /\ hist' = [hist EXCEPT !.wrapped = @ \/ Parsed(iq.offset) # iq.offset]
    <2> DEFINE n == Parsed(iq.offset)
    <2>1. n \in 0..Size /\ Size - n \in 0..Size /\ Size \in Nat /\ LengthFrom(n) = Size - n
        BY <1>5, SizeNat DEF IInv, LengthFrom
    <2>2. hist' = [hist EXCEPT !.wrapped = hist.wrapped \/ n # iq.offset]
        BY <1>5
    <2>3. snd' = [snd EXCEPT !.ft = "Connecting", !.conn = TRUE, !.offset = n,
                             !.length = LengthFrom(n)]
        BY <1>5
    <2> HIDE DEF n
    <2>4. /\ hist' \in Hists /\ hist'.size = hist.size
          /\ ~hist'.wrapped => ~hist.wrapped /\ n = iq.offset
        <3> DEFINE w == hist.wrapped \/ n # iq.offset
        <3>1. w \in BOOLEAN
            OBVIOUS
        <3>2. hist' = [hist EXCEPT !.wrapped = w] /\ hist \in Hists
            BY <2>2 DEF IInv, TypeOK
        <3>3. ~w => ~hist.wrapped /\ n = iq.offset
            OBVIOUS
        <3> HIDE DEF w
        <3>4. hist' \in Hists /\ hist'.size = hist.size /\ hist'.wrapped = w
            BY <3>1, <3>2 DEF Hists
        <3> QED BY <3>3, <3>4
    <2>5. Size' = Size /\ Side' = Side
        BY <2>4 DEF Size, Side
    <2>6. \A o \in Nat, l \in 0..Size :
            [snd EXCEPT !.ft = "Connecting", !.conn = TRUE, !.offset = o, !.length = l] \in Side
        BY DEF IInv, TypeOK, Side
    <2>7. snd' \in Side
        <3>1. n \in Nat /\ LengthFrom(n) \in 0..Size
            BY <2>1
        <3> QED BY <2>3, <2>6, <3>1, Zenon
    <2>8. /\ snd'.ft = "Connecting" /\ snd'.conn /\ snd'.offset = n /\ snd'.length = Size - n
          /\ snd'.out = snd.out /\ snd'.sent = snd.sent /\ snd'.posted = snd.posted
        BY <2>1, <2>3 DEF IInv, TypeOK, Side
    <2>9. /\ snd.out = <<>> /\ snd.sent = 0 /\ snd.posted = 0 /\ s5b = "none"
          /\ ~rcv.conn /\ rcv.ft # "Active" /\ wire = <<>>
          /\ rcv.ft # "WaitingForAccept"
        BY <1>5 DEF IInv, SndOK, Stages
    <2>10. TypeOK'
        BY <1>1, <1>2, <1>5, <2>4, <2>5, <2>7 DEF IInv, TypeOK, Streams
    <2>11. SndOK'
        BY <1>5, <2>1, <2>5, <2>8, <2>9 DEF SndOK
    <2>12. RcvOK'
        BY <1>1, <2>5 DEF IInv, RcvOK
    <2>13. Stages'
        BY <1>1, <1>2, <1>5, <2>8, <2>9 DEF Stages
    <2>14. ~hist'.wrapped => Content'
        <3>1. SUFFICES ASSUME ~hist'.wrapped PROVE Content'
            OBVIOUS
        <3>2. Content /\ n = iq.offset
            BY <2>4, <3>1 DEF IInv
        <3>3. rcv.ft = "Connecting" => snd'.offset = rcv.offset
            BY <1>5, <2>8, <3>2 DEF Content
        <3> QED BY <1>1, <1>2, <2>5, <2>9, <3>2, <3>3 DEF Content, IsPrefixOfFile
    <2> QED BY <2>10, <2>11, <2>12, <2>13, <2>14 DEF IInv
<1> QED BY <1>3, <1>4, <1>5 DEF FtFinished, GaveUp

LEMMA S5bIncomingReadyInv ==
    ASSUME IInv, S5bIncomingReady PROVE IInv'
<1>1. SameFile /\ s5b = "requested" /\ UNCHANGED <<snd, iq, wire, part, hist>>
    BY HistKept DEF IInv, S5bIncomingReady
<1>2. CASE rcv.ft # "Connecting" /\ s5b' = "failed" /\ UNCHANGED rcv
    BY <1>1, <1>2, StreamMoves DEF Streams
<1>3. CASE rcv.ft = "Connecting" /\ s5b' = "offered"
           /\ rcv' = [rcv EXCEPT !.conn = TRUE, !.timer = FALSE]
    <2>1. rcv \in Side /\ Size \in Nat /\ wire = <<>> /\ snd.ft # "Active" /\ rcv.sent = 0
        BY <1>1, <1>3, SizeNat DEF IInv, TypeOK, Stages, RcvOK
    <2>2. /\ rcv' \in Side /\ rcv'.ft = rcv.ft /\ rcv'.offset = rcv.offset
          /\ rcv'.sent = rcv.sent /\ rcv'.length = rcv.length /\ rcv'.finish = rcv.finish
          /\ rcv'.result = rcv.result
        BY <1>3, <2>1 DEF Side
    <2>3. TypeOK'
        BY <1>1, <1>3, <2>2, SameSide DEF IInv, TypeOK, SameFile, Streams
    <2>4. SndOK' /\ RcvOK'
        BY <1>1, <1>3, <2>2, SameSide DEF IInv, SndOK, RcvOK
    <2>5. Stages'
        BY <1>1, <1>3, <2>1, <2>2 DEF IInv, Stages
    <2>6. ~hist'.wrapped => Content'
        <3>1. SUFFICES ASSUME ~hist.wrapped PROVE Content'
            BY <1>1
        <3>2. Content /\ Base' = Base /\ Size' = Size /\ Base = rcv.offset
            BY <1>1, <2>1, <2>2, <3>1, SameSide DEF IInv, Base, Side
        <3>3. Base \in Nat /\ Base <= Size
            BY <1>3, <2>1, <3>2 DEF Content, IsPrefixOfFile, IInv, RcvOK, Side
        <3>4. wire' = Bytes(Base', Len(wire')) /\ Base' + Len(wire') <= Size'
            BY <1>1, <2>1, <3>2, <3>3 DEF Bytes
        <3> QED BY <1>1, <1>3, <2>1, <2>2, <3>2, <3>4 DEF Content, IsPrefixOfFile
    <2> QED BY <2>3, <2>4, <2>5, <2>6 DEF IInv
<1> QED BY <1>2, <1>3 DEF S5bIncomingReady

----------------------------------------------------------------------------
(* The stream.                                                             *)

LEMMA SndConnectedInv ==
    ASSUME IInv, SndConnected PROVE IInv'
<1>1. /\ UNCHANGED <<rcv, iq, s5b, wire, part>> /\ SameFile
      /\ s5b \in {"open", "broken"} /\ snd.ft = "Connecting" /\ snd.conn
    BY HistKept DEF IInv, SndConnected, Connecting
<1>2. CASE snd' = Deleted(snd, "failed") /\ Fault
    BY <1>1, <1>2, SndDeleted DEF Results
<1>3. CASE snd' = [Connected(snd) EXCEPT !.posted = IF snd.offset = Size THEN 0 ELSE 1]
    <2> DEFINE k == IF snd.offset = Size THEN 0 ELSE 1
               f == snd.offset = Size
    <2>1. k \in Nat /\ f \in BOOLEAN /\ snd' = [Connected(snd) EXCEPT !.posted = k]
        BY <1>3
    <2>2. snd \in Side /\ Size \in Nat /\ snd.offset \in Nat
        BY SizeNat DEF IInv, TypeOK, Side
    <2>3. CASE Size = 0
        <3>1. Connected(snd) = Deleted(snd, "done")
            BY <2>3 DEF Connected
        <3>2. /\ Deleted(snd, "done") \in Side /\ Deleted(snd, "done").ft = "none"
              /\ Deleted(snd, "done").conn = FALSE
            BY <2>2, DeletedIs DEF IInv, Results
        <3> HIDE DEF k
        <3>3. snd' \in Side /\ ~snd'.conn /\ snd'.ft = "none"
            BY <2>1, <3>1, <3>2 DEF Side
        <3> QED BY <1>1, <3>3, SndLeaves
    <2>4. CASE Size # 0
        <3> DEFINE c == [snd EXCEPT !.ft = "Active", !.done = snd.offset, !.pos = snd.offset,
                                    !.timer = FALSE, !.finish = f]
        <3>1. Connected(snd) = c
            BY <2>4 DEF Connected
        <3>2. c \in Side
            <4> HIDE DEF f
            <4>1. \A d \in Nat, p \in Nat : [snd EXCEPT !.ft = "Active", !.done = d, !.pos = p,
                                            !.timer = FALSE, !.finish = f] \in Side
                BY <2>1, <2>2 DEF Side
            <4> QED BY <2>2, <4>1
        <3>3. /\ c.ft = "Active" /\ c.conn = snd.conn /\ c.pos = snd.offset
              /\ c.offset = snd.offset /\ c.length = snd.length /\ c.sent = snd.sent
              /\ c.out = snd.out
            <4> HIDE DEF f
            <4> QED BY <2>2 DEF Side
        <3> HIDE DEF c, k, f
        <3>4. snd' \in Side
            BY <2>1, <3>1, <3>2 DEF Side
        <3>5. /\ snd'.ft = "Active" /\ snd'.conn = snd.conn /\ snd'.pos = snd.offset
              /\ snd'.offset = snd.offset /\ snd'.length = snd.length /\ snd'.sent = snd.sent
              /\ snd'.out = snd.out
            BY <2>1, <3>1, <3>2, <3>3 DEF Side
        <3>6. /\ snd.out = <<>> /\ snd.sent = 0 /\ snd.length = Size - snd.offset
              /\ snd.length \in 0..Size
            BY <1>1, <2>2 DEF IInv, SndOK, Side
        <3>7. TypeOK'
            BY <1>1, <3>4, SameSide DEF IInv, TypeOK, SameFile
        <3>8. SndOK'
            BY <1>1, <2>2, <3>5, <3>6, SameSide DEF SndOK
        <3>9. RcvOK' /\ Stages'
            BY <1>1, <3>5, SameSide DEF IInv, RcvOK, Stages
        <3>10. ~hist'.wrapped => Content'
            <4>1. SUFFICES ASSUME ~hist.wrapped PROVE Content'
                BY <1>1 DEF SameFile
            <4>2. Content /\ Base' = Base /\ Size' = Size
                BY <1>1, <4>1, SameSide DEF IInv, Base
            <4>3. rcv.conn => /\ wire = <<>> /\ Base = snd.offset
                <5>1. rcv \in Side
                    BY DEF IInv, TypeOK
                <5>2. rcv.conn => rcv.sent = 0 /\ wire = <<>> /\ rcv.offset = snd.offset
                    BY <1>1, <4>2 DEF Content, IInv, RcvOK
                <5> QED BY <2>2, <5>1, <5>2 DEF Base, Side
            <4>4. rcv.conn => /\ snd'.out = Bytes(Base + Len(wire), Len(snd'.out))
                              /\ snd'.pos = Base + Len(wire) + Len(snd'.out)
                BY <2>2, <3>5, <3>6, <4>3 DEF Bytes
            <4> QED BY <1>1, <3>5, <4>2, <4>4 DEF Content, IsPrefixOfFile
        <3> QED BY <3>7, <3>8, <3>9, <3>10 DEF IInv
    <2> QED BY <2>3, <2>4
<1> QED BY <1>2, <1>3 DEF SndConnected

LEMMA RcvConnectedInv ==
    ASSUME IInv, RcvConnected PROVE IInv'
<1>1. /\ UNCHANGED <<snd, iq, s5b, wire>> /\ SameFile
      /\ s5b \in {"open", "broken"} /\ rcv.ft = "Connecting" /\ rcv.conn
    BY HistKept DEF IInv, RcvConnected, Connecting
<1>2. CASE rcv' = Deleted(rcv, "failed") /\ Fault /\ UNCHANGED part
    BY <1>1, <1>2, RcvDeleted DEF Results
<1>3. CASE rcv' = Connected(rcv) /\ part' = IF rcv.offset = 0 THEN <<>> ELSE part
    <2>1. /\ rcv \in Side /\ Size \in Nat /\ rcv.offset \in Nat /\ part \in Seq(Nat)
          /\ Len(part) = rcv.offset /\ rcv.length = Size /\ rcv.sent = 0
          /\ rcv.result = "running"
        BY <1>1, SizeNat DEF IInv, TypeOK, Side, RcvOK
    <2>2. part' = part
        BY <1>3, <2>1
    <2>3. CASE Size = 0
        <3>1. rcv' = Deleted(rcv, "done")
            BY <1>3, <2>3 DEF Connected
        <3>2. rcv' \in Side /\ rcv'.ft = "none" /\ ~rcv'.conn /\ rcv'.sent = 0
            BY <2>1, <3>1, DeletedIs DEF IInv, Results
        <3>3. ~hist.wrapped => IsPrefixOfFile(part') /\ Len(part') = Size
            BY <2>1, <2>2, <2>3 DEF IInv, Content, IsPrefixOfFile
        <3>4. /\ iq' \in Stanzas /\ (iq'.type = "request" => iq.type = "request")
              /\ wire' \in Seq(Nat) /\ part' \in Seq(Nat)
            BY <1>1, <2>1, <2>2 DEF IInv, TypeOK
        <3> QED BY <1>1, <3>2, <3>3, <3>4, RcvGone
    <2>4. CASE Size # 0
        <3> DEFINE f == rcv.offset = Size
        <3>1. f \in BOOLEAN /\ (f <=> rcv.offset = Size)
            OBVIOUS
        <3>2. rcv' = [rcv EXCEPT !.ft = "Active", !.done = rcv.offset, !.pos = rcv.offset,
                                 !.timer = FALSE, !.finish = f]
            BY <1>3, <2>4 DEF Connected
        <3> HIDE DEF f
        <3>3. \A d \in Nat, p \in Nat : [rcv EXCEPT !.ft = "Active", !.done = d, !.pos = p,
                                        !.timer = FALSE, !.finish = f] \in Side
            BY <2>1, <3>1 DEF Side
        <3>4. rcv' \in Side
            BY <2>1, <3>2, <3>3
        <3>5. /\ rcv'.ft = "Active" /\ rcv'.conn = rcv.conn /\ rcv'.pos = rcv.offset
              /\ rcv'.done = rcv.offset /\ rcv'.offset = rcv.offset /\ rcv'.length = rcv.length
              /\ rcv'.sent = rcv.sent /\ rcv'.result = rcv.result
              /\ rcv'.finish = f
            BY <2>1, <3>2 DEF Side
        <3>6. TypeOK'
            BY <1>1, <2>1, <2>2, <3>4, SameSide DEF IInv, TypeOK, SameFile
        <3>7. SndOK' /\ Stages'
            BY <1>1, <3>5, SameSide DEF IInv, SndOK, Stages
        <3>8. RcvOK'
            BY <1>1, <2>1, <2>2, <3>5, SameSide DEF RcvOK
        <3>9. ~hist'.wrapped => Content'
            <4>1. SUFFICES ASSUME ~hist.wrapped PROVE Content'
                BY <1>1 DEF SameFile
            <4>2. Content /\ Base' = Base /\ Size' = Size
                BY <1>1, <3>5, <4>1, SameSide DEF IInv, Base
            <4>3. rcv'.result = "done" \/ rcv'.finish => Len(part') = Size'
                BY <2>1, <2>2, <3>1, <3>5, <4>2
            <4> QED BY <1>1, <2>2, <3>5, <4>2, <4>3 DEF Content, IsPrefixOfFile
        <3> QED BY <3>6, <3>7, <3>8, <3>9 DEF IInv
    <2> QED BY <2>3, <2>4
<1> QED BY <1>2, <1>3 DEF RcvConnected

\* What read() gives is there, and fits the length.
LEMMA ReadSizeIs ==
    ASSUME IInv, snd.ft = "Active"
    PROVE  ReadSize \in Nat /\ ReadSize <= Size - snd.pos /\ snd.pos \in Nat
<1>1. /\ snd.pos \in Nat /\ snd.sent \in Nat /\ snd.offset \in Nat /\ Size \in Nat
      /\ Len(snd.out) \in Nat /\ SendBuf \in Nat
    BY SizeNat, SizeAssumption DEF IInv, TypeOK, Side
<1>2. /\ snd.length = Size - snd.offset /\ snd.pos <= Size
      /\ snd.pos = snd.offset + snd.sent + Len(snd.out)
    BY DEF IInv, SndOK
<1>3. snd.length - (snd.sent + Len(snd.out)) \in Nat
    BY <1>1, <1>2
<1>4. DataSizeNeeded \in Nat
    BY <1>1, <1>3 DEF DataSizeNeeded
<1> QED BY <1>1, <1>2, <1>4 DEF ReadSize

LEMMA TrySendInv ==
    ASSUME IInv, TrySend PROVE IInv'
<1>1. UNCHANGED <<rcv, iq, s5b, wire, part>>
    BY DEF TrySend
<1>2. CASE snd' = Deleted(snd, "failed") /\ Fault
    BY <1>1, <1>2, SndDeleted DEF Results
<1>3. CASE snd' = Deleted(snd, "crashed") /\ UNCHANGED hist
    BY <1>1, <1>3, SndDeleted DEF Results
<1>4. CASE /\ snd.conn /\ UNCHANGED hist
           /\ snd' = [snd EXCEPT !.posted = @ - 1, !.pos = @ + ReadSize,
                                 !.out = @ \o Bytes(snd.pos, ReadSize)]
    <2> DEFINE n == ReadSize
               o == snd.out \o Bytes(snd.pos, n)
    <2>1. SameFile
        BY <1>4, HistKept DEF IInv
    <2>2. snd \in Side /\ snd.posted > 0 /\ snd.posted \in Nat /\ snd.out \in Seq(Nat)
        BY DEF IInv, TypeOK, Side, TrySend
    <2>3. snd.ft = "Active"
        BY <1>4, <2>2 DEF IInv, SndOK
    <2>4. n \in Nat /\ n <= Size - snd.pos /\ snd.pos \in Nat
        BY <2>3, ReadSizeIs
    <2>5. snd' = [snd EXCEPT !.posted = snd.posted - 1, !.pos = snd.pos + n, !.out = o]
        BY <1>4
    <2> HIDE DEF n
    <2>6. o \in Seq(Nat) /\ Len(o) = Len(snd.out) + n
        <3> DEFINE t == Bytes(snd.pos, n)
        <3>1. t \in Seq(Nat) /\ Len(t) = n
            BY <2>4, BytesAre
        <3> HIDE DEF t
        <3>2. snd.out \o t \in Seq(Nat) /\ Len(snd.out \o t) = Len(snd.out) + Len(t)
            BY <2>2, <3>1, Entries
        <3> QED BY <3>1, <3>2 DEF t
    <2> HIDE DEF o
    <2>7. \A k \in Nat, p \in Nat : [snd EXCEPT !.posted = k, !.pos = p, !.out = o] \in Side
        BY <2>2, <2>6 DEF Side
    <2>8. snd' \in Side
        <3>1. snd.posted - 1 \in Nat /\ snd.pos + n \in Nat
            BY <2>2, <2>4
        <3> QED BY <2>5, <2>7, <3>1
    <2>9. /\ snd'.ft = snd.ft /\ snd'.conn = snd.conn /\ snd'.offset = snd.offset
          /\ snd'.length = snd.length /\ snd'.sent = snd.sent
          /\ snd'.pos = snd.pos + n /\ snd'.out = o
        BY <2>2, <2>5 DEF Side
    <2>10. TypeOK'
        BY <1>1, <2>1, <2>8, SameSide DEF IInv, TypeOK, SameFile
    <2>11. SndOK'
        <3>1. snd.offset \in Nat /\ snd.sent \in Nat /\ Len(snd.out) \in Nat /\ Size \in Nat
            BY <2>2, SizeNat DEF Side, IInv
        <3>2. /\ snd.length = Size - snd.offset /\ snd.pos = snd.offset + snd.sent + Len(snd.out)
            BY <2>3 DEF IInv, SndOK
        <3>3. snd'.pos = snd'.offset + snd'.sent + Len(snd'.out) /\ snd'.pos <= Size
            <4>1. /\ snd.pos + n = snd.offset + snd.sent + (Len(snd.out) + n)
                  /\ snd.pos + n <= Size
                BY <2>4, <3>1, <3>2
            <4>2. Len(snd'.out) = Len(snd.out) + n
                BY <2>6, <2>9
            <4> QED BY <2>9, <4>1, <4>2, Zenon
        <3>4. snd'.ft = "Active" /\ snd'.length = Size' - snd'.offset /\ Size' = Size
            BY <2>1, <2>3, <2>9, <3>2, SameSide
        <3> QED BY <3>3, <3>4 DEF SndOK
    <2>12. RcvOK' /\ Stages'
        BY <1>1, <2>1, <2>9, SameSide DEF IInv, RcvOK, Stages
    <2>13. ~hist'.wrapped => Content'
        <3>1. SUFFICES ASSUME ~hist.wrapped PROVE Content'
            BY <2>1 DEF SameFile
        <3>2. Content /\ Base' = Base /\ Size' = Size
            BY <1>1, <2>1, <3>1, SameSide DEF IInv, Base
        <3>3. ASSUME rcv.conn, s5b = "open"
              PROVE  /\ snd'.out = Bytes(Base + Len(wire), Len(snd'.out))
                     /\ snd'.pos = Base + Len(wire) + Len(snd'.out)
            <4> DEFINE b == Base + Len(wire)
                       m == Len(snd.out)
            <4>1. b \in Nat /\ m \in Nat
                BY SMTT(30) DEF IInv, TypeOK, Side, Base
            <4>2. snd.out = Bytes(b, m) /\ snd.pos = b + m
                BY <1>4, <2>3, <3>2, <3>3 DEF Content
            <4> HIDE DEF b, m
            <4>3. o = Bytes(b, m + n)
                <5>1. Bytes(b, m) \o Bytes(b + m, n) = Bytes(b, m + n)
                    BY <2>4, <4>1, BytesConcat
                <5> QED BY <4>2, <5>1, Zenon DEF o
            <4>4. Len(o) = m + n
                BY <2>6 DEF m
            <4>5. snd'.out = Bytes(b, Len(snd'.out)) /\ snd'.pos = b + Len(snd'.out)
                BY <2>4, <2>9, <4>1, <4>2, <4>3, <4>4
            <4> QED BY <4>5 DEF b
        <3> QED BY <1>1, <2>3, <2>9, <3>2, <3>3 DEF Content, IsPrefixOfFile
    <2> QED BY <2>10, <2>11, <2>12, <2>13 DEF IInv
<1> QED BY <1>2, <1>3, <1>4 DEF TrySend

LEMMA BytesWrittenInv ==
    ASSUME IInv, BytesWritten PROVE IInv'
<1>1. /\ UNCHANGED <<rcv, iq, s5b, part>> /\ SameFile /\ iq' \in {iq, None}
      /\ s5b = "open" /\ snd.ft = "Active" /\ snd.conn
    BY HistKept DEF IInv, BytesWritten
<1> DEFINE len == Len(snd.out)
           more(n) == [snd EXCEPT !.sent = @ + n, !.done = @ + n, !.out = SubSeq(@, n + 1, Len(@))]
           kept(n) == IF more(n).sent = more(n).length THEN Reset(more(n)) ELSE more(n)
<1>2. PICK n \in 1..len :
        /\ snd' = IF more(n).done = Size \/ Finished(more(n).done)
                  THEN Deleted(snd, "done") ELSE [kept(n) EXCEPT !.posted = @ + 1]
        /\ wire' = IF rcv.conn THEN wire \o SubSeq(snd.out, 1, n) ELSE wire
    BY DEF BytesWritten
<1> DEFINE o == SubSeq(snd.out, n + 1, len)
           x == SubSeq(snd.out, 1, n)
           c == more(n)
<1>3. /\ snd \in Side /\ Size \in Nat /\ snd.out \in Seq(Nat) /\ len \in Nat
      /\ snd.sent \in Nat /\ snd.done \in Nat /\ snd.pos \in Nat /\ snd.posted \in Nat
      /\ snd.offset \in Nat /\ wire \in Seq(Nat) /\ Len(wire) \in Nat
    <2>1. snd \in Side /\ Size \in Nat /\ wire \in Seq(Nat)
        BY SizeNat DEF IInv, TypeOK
    <2>2. /\ snd.out \in Seq(Nat) /\ snd.sent \in Nat /\ snd.done \in Nat /\ snd.pos \in Nat
          /\ snd.posted \in Nat /\ snd.offset \in Nat
        BY <2>1 DEF Side
    <2>3. len \in Nat /\ Len(wire) \in Nat
        BY <2>1, <2>2
    <2> QED BY <2>1, <2>2, <2>3
<1>4. snd.length = Size - snd.offset /\ snd.pos = snd.offset + snd.sent + len /\ snd.pos <= Size
    BY <1>1 DEF IInv, SndOK
<1>5. c = [snd EXCEPT !.sent = snd.sent + n, !.done = snd.done + n, !.out = o]
    OBVIOUS
<1>6. snd' = Deleted(snd, "done") \/ snd' = [c EXCEPT !.posted = c.posted + 1]
      \/ snd' = [Reset(c) EXCEPT !.posted = Reset(c).posted + 1]
    BY <1>2
<1> HIDE DEF len, c, more, kept
<1>7. n \in Nat /\ n \in 0..len
    BY <1>3
<1>8. /\ o \in Seq(Nat) /\ Len(o) = len - n /\ x \in Seq(Nat) /\ Len(x) = n
    BY <1>3, <1>7, Cut, ZenonT(30) DEF len
<1> HIDE DEF o, x
<1>9. wire' \in Seq(Nat)
    <2>1. wire \o x \in Seq(Nat)
        BY <1>3, <1>8, Entries
    <2> QED BY <1>2, <1>3, <2>1 DEF x
<1>10. ASSUME ~hist.wrapped, rcv.conn
       PROVE  /\ wire' = Bytes(Base, Len(wire')) /\ Base + Len(wire') <= Size
              /\ o = Bytes(Base + Len(wire'), Len(o))
              /\ snd.pos = Base + Len(wire') + Len(o)
    <2> DEFINE b == Base
               k == Len(wire)
    <2>1. b \in Nat /\ k \in Nat /\ b + k \in Nat
        <3>1. rcv.offset \in Nat /\ rcv.sent \in Nat
            BY DEF IInv, TypeOK, Side
        <3> QED BY <1>3, <3>1 DEF Base
    <2>2. wire = Bytes(b, k) /\ snd.out = Bytes(b + k, len) /\ snd.pos = b + k + len
        BY <1>1, <1>10 DEF IInv, Content, len
    <2> HIDE DEF b, k
    <2>3. x = Bytes(b + k, n) /\ o = Bytes(b + k + n, len - n)
        <3>1. /\ SubSeq(Bytes(b + k, len), 1, n) = Bytes(b + k, n)
              /\ SubSeq(Bytes(b + k, len), n + 1, len) = Bytes(b + k + n, len - n)
            BY <1>3, <1>7, <2>1, BytesCut, ZenonT(30)
        <3> QED BY <2>2, <3>1, Zenon DEF o, x
    <2>4. wire' = Bytes(b, k + n)
        <3>1. Bytes(b, k) \o Bytes(b + k, n) = Bytes(b, k + n)
            BY <1>7, <2>1, BytesConcat
        <3>2. wire' = wire \o x
            BY <1>2, <1>10 DEF x
        <3> QED BY <2>2, <2>3, <3>1, <3>2, Zenon
    <2>5. Len(wire') = k + n
        BY <1>7, <2>1, <2>4, BytesAre
    <2>6. b + Len(wire') = b + k + n /\ b + Len(wire') + Len(o) = b + k + len
        BY <1>3, <1>7, <1>8, <2>1, <2>5
    <2>7. b + k + n <= Size
        BY <1>3, <1>4, <1>7, <2>1, <2>2
    <2>8. /\ wire' = Bytes(b, Len(wire')) /\ b + Len(wire') <= Size
          /\ o = Bytes(b + Len(wire'), Len(o)) /\ snd.pos = b + Len(wire') + Len(o)
        BY <1>8, <2>2, <2>3, <2>4, <2>5, <2>6, <2>7, Zenon
    <2> QED BY <2>8 DEF b
<1>11. c \in Side
    <2>1. \A a \in Nat, d \in Nat : [snd EXCEPT !.sent = a, !.done = d, !.out = o] \in Side
        BY <1>3, <1>8 DEF Side
    <2>2. snd.sent + n \in Nat /\ snd.done + n \in Nat
        BY <1>3, <1>7
    <2> QED BY <1>5, <2>1, <2>2
<1>12. /\ c.ft = "Active" /\ c.conn /\ c.pos = snd.pos /\ c.offset = snd.offset
       /\ c.length = snd.length /\ c.sent = snd.sent + n /\ c.out = o /\ c.posted \in Nat
    BY <1>1, <1>3, <1>5 DEF Side
<1>13. \A p \in Nat : [c EXCEPT !.posted = p] \in Side
    BY <1>11 DEF Side
<1>14. CASE ~snd'.conn /\ snd'.ft \in {"none", "Idle"} /\ snd' \in Side
    BY <1>1, <1>9, <1>10, <1>14, SndGone
<1>15. CASE snd' = Deleted(snd, "done")
    BY <1>3, <1>14, <1>15, DeletedIs DEF IInv, Results
<1>16. CASE snd' = [Reset(c) EXCEPT !.posted = Reset(c).posted + 1]
    <2>1. Reset(c) \in Side /\ Reset(c).ft = "Idle" /\ Reset(c).conn = FALSE
        BY <1>11 DEF Reset, Side
    <2>2. \A p \in Nat : [Reset(c) EXCEPT !.posted = p] \in Side
        BY <2>1 DEF Side
    <2>3. Reset(c).posted + 1 \in Nat
        BY <2>1 DEF Side
    <2>4. snd' \in Side
        BY <1>16, <2>2, <2>3
    <2>5. ~snd'.conn /\ snd'.ft = "Idle"
        BY <1>16, <2>1 DEF Side
    <2> QED BY <1>14, <2>4, <2>5
<1>17. CASE snd' = [c EXCEPT !.posted = c.posted + 1]
    <2>1. snd' \in Side
        BY <1>12, <1>13, <1>17
    <2>2. /\ snd'.ft = "Active" /\ snd'.conn /\ snd'.pos = snd.pos /\ snd'.offset = snd.offset
          /\ snd'.length = snd.length /\ snd'.sent = snd.sent + n /\ snd'.out = o
        BY <1>11, <1>12, <1>17 DEF Side
    <2>3. TypeOK'
        BY <1>1, <1>9, <2>1, SameSide DEF IInv, TypeOK, SameFile
    <2>4. SndOK'
        <3>1. Size' = Size
            BY <1>1, SameSide
        <3>2. snd.pos = snd.offset + (snd.sent + n) + Len(o)
            BY <1>3, <1>4, <1>7, <1>8
        <3>3. snd'.pos = snd'.offset + snd'.sent + Len(snd'.out)
            BY <2>2, <3>2, Zenon
        <3> QED BY <1>4, <2>2, <3>1, <3>3 DEF SndOK
    <2>5. RcvOK' /\ Stages'
        BY <1>1, <2>2, SameSide DEF IInv, RcvOK, Stages
    <2>6. ~hist'.wrapped => Content'
        <3>1. SUFFICES ASSUME ~hist.wrapped PROVE Content'
            BY <1>1 DEF SameFile
        <3>2. Content /\ Base' = Base /\ Size' = Size
            BY <1>1, <3>1, SameSide DEF IInv, Base
        <3>3. rcv.conn => /\ wire' = Bytes(Base, Len(wire')) /\ Base + Len(wire') <= Size
                          /\ snd'.out = Bytes(Base + Len(wire'), Len(snd'.out))
                          /\ snd'.pos = Base + Len(wire') + Len(snd'.out)
            BY <1>10, <2>2, <3>1, Zenon
        <3> QED BY <1>1, <2>2, <3>2, <3>3 DEF Content, IsPrefixOfFile
    <2> QED BY <2>3, <2>4, <2>5, <2>6 DEF IInv
<1> QED BY <1>6, <1>15, <1>16, <1>17

\* Writing x at the end of a file puts it behind what is there.
LEMMA WrittenAtEnd ==
    ASSUME NEW s \in Seq(Nat), NEW x \in Seq(Nat), NEW p \in Nat, Len(s) = p
    PROVE  SubSeq(s, 1, p) \o x \o SubSeq(s, p + Len(x) + 1, Len(s)) = s \o x
<1>1. SubSeq(s, 1, p) = s
    OBVIOUS
<1>2. Len(x) \in Nat
    OBVIOUS
<1>3. SubSeq(s, p + Len(x) + 1, Len(s)) = <<>>
    BY <1>2
<1>4. s \o x \in Seq(Nat)
    BY Entries
<1>5. (s \o x) \o <<>> = s \o x
    <2> DEFINE t == s \o x
    <2>1. t \in Seq(Nat)
        BY <1>4
    <2> HIDE DEF t
    <2>2. t \o <<>> = t
        BY <2>1
    <2> QED BY <2>2 DEF t
<1> QED BY <1>1, <1>3, <1>5

LEMMA ReadyReadInv ==
    ASSUME IInv, ReadyRead PROVE IInv'
<1>1. /\ UNCHANGED <<snd, iq, s5b>> /\ SameFile
      /\ rcv.ft = "Active" /\ rcv.conn /\ s5b \in {"open", "broken"}
    <2>1. UNCHANGED hist \/ Fault
        BY DEF ReadyRead
    <2>2. SameFile
        BY <2>1, HistKept DEF IInv
    <2>3. UNCHANGED <<snd, iq, s5b>> /\ rcv.ft = "Active" /\ rcv.conn
        BY DEF ReadyRead
    <2> QED BY <2>2, <2>3 DEF IInv, Stages
<1> DEFINE more(n) == [rcv EXCEPT !.sent = @ + Taken(n), !.done = @ + Taken(n),
                                  !.pos = @ + Taken(n)]
           kept(n) == IF more(n).sent = more(n).length THEN Reset(more(n)) ELSE more(n)
<1>2. PICK n \in 1..Len(wire) :
        /\ wire' = SubSeq(wire, n + 1, Len(wire))
        /\ \/ /\ part' = SubSeq(part, 1, rcv.pos) \o SubSeq(wire, 1, Taken(n))
                         \o SubSeq(part, more(n).pos + 1, Len(part))
              /\ rcv' = IF Finished(more(n).done) THEN Deleted(rcv, "done") ELSE kept(n)
           \/ /\ rcv' = Deleted(rcv, "failed")
              /\ UNCHANGED part
    BY DEF ReadyRead
<1> DEFINE t == Taken(n)
           x == SubSeq(wire, 1, t)
           c == more(n)
<1>3. /\ rcv \in Side /\ Size \in Nat /\ wire \in Seq(Nat) /\ part \in Seq(Nat)
      /\ rcv.sent \in Nat /\ rcv.done \in Nat /\ rcv.pos \in Nat /\ rcv.offset \in Nat
      /\ rcv.length \in Nat /\ n \in Nat /\ n > 0 /\ n <= Len(wire) /\ Len(wire) \in Nat
    <2>1. rcv \in Side /\ Size \in Nat /\ wire \in Seq(Nat) /\ part \in Seq(Nat)
        BY SizeNat DEF IInv, TypeOK
    <2>2. /\ rcv.sent \in Nat /\ rcv.done \in Nat /\ rcv.pos \in Nat /\ rcv.offset \in Nat
          /\ rcv.length \in Nat
        BY <2>1 DEF Side
    <2>3. Len(wire) \in Nat
        BY <2>1
    <2> QED BY <2>1, <2>2, <2>3
<1>4. /\ Len(part) = rcv.pos /\ rcv.done = rcv.pos /\ rcv.pos = rcv.offset + rcv.sent
      /\ rcv.sent <= rcv.length /\ rcv.length = Size /\ rcv.result = "running"
    BY <1>1 DEF IInv, RcvOK
<1>5. t \in Nat /\ t <= n /\ t <= rcv.length - rcv.sent
    BY <1>3, <1>4 DEF Taken
<1>6. c = [rcv EXCEPT !.sent = rcv.sent + t, !.done = rcv.done + t, !.pos = rcv.pos + t]
    OBVIOUS
<1>7. \/ /\ part' = SubSeq(part, 1, rcv.pos) \o x \o SubSeq(part, c.pos + 1, Len(part))
         /\ \/ rcv' = Deleted(rcv, "done") /\ Finished(c.done)
            \/ rcv' = Reset(c)
            \/ rcv' = c
      \/ rcv' = Deleted(rcv, "failed") /\ UNCHANGED part
    BY <1>2
<1> HIDE DEF c, more, kept, t
<1>8. c \in Side
    <2>1. \A a \in Nat, d \in Nat, p \in Nat :
            [rcv EXCEPT !.sent = a, !.done = d, !.pos = p] \in Side
        BY <1>3 DEF Side
    <2>2. rcv.sent + t \in Nat /\ rcv.done + t \in Nat /\ rcv.pos + t \in Nat
        <3>1. rcv.sent \in Nat /\ rcv.done \in Nat /\ rcv.pos \in Nat /\ t \in Nat
            BY <1>3, <1>5, Zenon
        <3> QED BY <3>1
    <2> QED BY <1>6, <2>1, <2>2
<1>9. /\ c.ft = "Active" /\ c.conn /\ c.pos = rcv.pos + t /\ c.done = rcv.done + t
      /\ c.sent = rcv.sent + t /\ c.offset = rcv.offset /\ c.length = rcv.length
      /\ c.result = "running" /\ c.finish = rcv.finish
    BY <1>1, <1>3, <1>4, <1>6 DEF Side
<1>10. x \in Seq(Nat) /\ Len(x) = t /\ wire' \in Seq(Nat) /\ Len(wire') = Len(wire) - n
    <2>1. t \in 0..Len(wire) /\ n \in 0..Len(wire)
        BY <1>3, <1>5
    <2> QED BY <1>2, <1>3, <2>1, Cut, ZenonT(30)
<1> HIDE DEF x
<1>11. ASSUME ~hist.wrapped
       PROVE  /\ t = n /\ rcv.pos + n <= Size /\ x = Bytes(rcv.pos, n)
              /\ part = Bytes(0, rcv.pos)
              /\ wire' = Bytes(rcv.pos + n, Len(wire'))
              /\ rcv.pos + n + Len(wire') = rcv.pos + Len(wire)
              /\ rcv.pos + Len(wire) <= Size
    <2>1. /\ part = Bytes(0, rcv.pos) /\ wire = Bytes(rcv.pos, Len(wire))
          /\ rcv.pos + Len(wire) <= Size
        BY <1>1, <1>4, <1>11 DEF IInv, Content, IsPrefixOfFile, Base
    <2>2. t = n
        BY <1>3, <1>4, <2>1 DEF t, Taken
    <2>3. n \in 0..Len(wire)
        BY <1>3
    <2> DEFINE k == Len(wire)
    <2>4. k \in Nat /\ n \in 0..k /\ wire = Bytes(rcv.pos, k)
        BY <1>3, <2>1, <2>3
    <2>5. wire' = SubSeq(wire, n + 1, k) /\ Len(wire') = k - n
        BY <1>2, <1>10
    <2> HIDE DEF k
    <2>6. /\ SubSeq(Bytes(rcv.pos, k), 1, n) = Bytes(rcv.pos, n)
          /\ SubSeq(Bytes(rcv.pos, k), n + 1, k) = Bytes(rcv.pos + n, k - n)
        BY <1>3, <2>4, BytesCut, ZenonT(30)
    <2>7. x = Bytes(rcv.pos, n) /\ wire' = Bytes(rcv.pos + n, Len(wire'))
        BY <2>2, <2>4, <2>5, <2>6, Zenon DEF x
    <2>8. rcv.pos + n <= Size /\ rcv.pos + n + Len(wire') = rcv.pos + Len(wire)
        <3>1. k = Len(wire) /\ rcv.pos \in Nat /\ Size \in Nat /\ rcv.pos + k <= Size
            BY <1>3, <2>1, Zenon DEF k
        <3>2. rcv.pos + n <= Size /\ rcv.pos + n + (k - n) = rcv.pos + k
            BY <2>4, <3>1
        <3> QED BY <2>5, <3>1, <3>2, Zenon
    <2> QED BY <2>1, <2>2, <2>7, <2>8
<1>12. iq' \in Stanzas /\ (iq'.type = "request" => iq.type = "request")
    BY <1>1 DEF IInv, TypeOK
<1>13. CASE rcv' = Deleted(rcv, "failed") /\ UNCHANGED part
    <2>1. /\ rcv' \in Side /\ ~rcv'.conn /\ rcv'.ft = "none" /\ rcv'.sent = 0
          /\ rcv'.result = "failed" /\ ~rcv'.finish
        BY <1>3, <1>13, DeletedIs DEF IInv, Results
    <2>2. ~hist.wrapped => IsPrefixOfFile(part')
        BY <1>13 DEF IInv, Content
    <2> QED BY <1>1, <1>3, <1>10, <1>12, <1>13, <2>1, <2>2, RcvGone
<1>14. ASSUME part' = SubSeq(part, 1, rcv.pos) \o x \o SubSeq(part, c.pos + 1, Len(part))
       PROVE  /\ part' \in Seq(Nat) /\ Len(part') = rcv.pos + t
              /\ ~hist.wrapped => IsPrefixOfFile(part') /\ ~rcv.finish
              /\ ~hist.wrapped /\ Finished(c.done) => Len(part') = Size
    <2>1. part' = part \o x
        <3>1. rcv.pos \in Nat /\ t \in Nat
            BY <1>3, <1>5, Zenon
        <3>2. c.pos + 1 = rcv.pos + Len(x) + 1
            BY <1>9, <1>10, <3>1
        <3>3. SubSeq(part, 1, rcv.pos) \o x \o SubSeq(part, rcv.pos + Len(x) + 1, Len(part))
                = part \o x
            BY <1>3, <1>4, <1>10, WrittenAtEnd
        <3> QED BY <1>14, <3>2, <3>3, Zenon
    <2>2. part' \in Seq(Nat) /\ Len(part') = rcv.pos + t
        <3>1. part \o x \in Seq(Nat) /\ Len(part \o x) = Len(part) + Len(x)
            BY <1>3, <1>10, Entries
        <3> QED BY <1>4, <1>10, <2>1, <3>1, Zenon
    <2>3. ASSUME ~hist.wrapped PROVE IsPrefixOfFile(part') /\ ~rcv.finish
        <3>1. Bytes(0, rcv.pos) \o Bytes(0 + rcv.pos, n) = Bytes(0, rcv.pos + n)
            BY <1>3, BytesConcat, ZenonT(30)
        <3>2. 0 + rcv.pos = rcv.pos
            BY <1>3
        <3>3. part' = Bytes(0, Len(part'))
            BY <1>11, <2>1, <2>2, <2>3, <3>1, <3>2, Zenon
        <3>4. Len(part') <= Size
            BY <1>11, <2>2, <2>3, Zenon
        <3>5. Len(part) < Size
            BY <1>3, <1>4, <1>11, <2>3
        <3>6. ~rcv.finish
            BY <1>3, <1>4, <2>3, <3>5 DEF IInv, Content
        <3> QED BY <1>1, <3>3, <3>4, <3>6, SameSide DEF IsPrefixOfFile
    <2>4. ASSUME ~hist.wrapped, Finished(c.done) PROVE Len(part') = Size
        <3>1. c.done = rcv.pos + t /\ c.done \in 0..Size
            <4>1. c.done = rcv.pos + t
                BY <1>4, <1>9, Zenon
            <4>2. rcv.pos + t <= Size
                BY <1>11, <2>4, Zenon
            <4>3. rcv.pos \in Nat /\ t \in Nat /\ Size \in Nat
                BY <1>3, <1>5, Zenon
            <4>4. rcv.pos + t \in 0..Size
                BY <4>2, <4>3
            <4> QED BY <4>1, <4>4, Zenon
        <3>2. c.done = Size
            BY <1>3, <2>4, <3>1, FinishedAtEnd
        <3> QED BY <2>2, <3>1, <3>2
    <2> QED BY <2>2, <2>3, <2>4
<1>15. CASE /\ part' = SubSeq(part, 1, rcv.pos) \o x \o SubSeq(part, c.pos + 1, Len(part))
            /\ rcv' = Deleted(rcv, "done") /\ Finished(c.done)
    <2>1. /\ rcv' \in Side /\ ~rcv'.conn /\ rcv'.ft = "none" /\ rcv'.sent = 0
          /\ ~rcv'.finish
        BY <1>3, <1>15, DeletedIs DEF IInv, Results
    <2> QED BY <1>1, <1>10, <1>12, <1>14, <1>15, <2>1, RcvGone
<1>16. CASE /\ part' = SubSeq(part, 1, rcv.pos) \o x \o SubSeq(part, c.pos + 1, Len(part))
            /\ rcv' = Reset(c)
    <2>1. /\ rcv' \in Side /\ ~rcv'.conn /\ rcv'.ft = "Idle" /\ rcv'.sent = 0
          /\ rcv'.result = "running" /\ rcv'.finish = rcv.finish
        BY <1>8, <1>9, <1>16 DEF Reset, Side
    <2> QED BY <1>1, <1>10, <1>12, <1>14, <1>16, <2>1, RcvGone
<1>17. CASE /\ part' = SubSeq(part, 1, rcv.pos) \o x \o SubSeq(part, c.pos + 1, Len(part))
            /\ rcv' = c
    <2>1. part' \in Seq(Nat) /\ Len(part') = rcv.pos + t
        BY <1>14, <1>17
    <2>2. TypeOK'
        BY <1>1, <1>8, <1>10, <1>17, <2>1, SameSide DEF IInv, TypeOK, SameFile
    <2>3. SndOK' /\ Stages'
        BY <1>1, <1>9, <1>17, SameSide DEF IInv, SndOK, Stages
    <2>4. RcvOK'
        <3>1. c.pos = c.offset + c.sent /\ c.sent <= c.length /\ c.done = c.pos
            BY <1>3, <1>4, <1>5, <1>9
        <3> QED BY <1>1, <1>4, <1>9, <1>17, <2>1, <3>1, SameSide DEF RcvOK
    <2>5. ~hist'.wrapped => Content'
        <3>1. SUFFICES ASSUME ~hist.wrapped PROVE Content'
            BY <1>1 DEF SameFile
        <3>2. Content /\ Size' = Size
            BY <1>1, <3>1, SameSide DEF IInv
        <3>3. IsPrefixOfFile(part') /\ ~rcv'.finish /\ rcv'.result = "running"
            BY <1>9, <1>14, <1>17, <3>1
        <3>4. Base = rcv.pos /\ Base' = rcv.pos + n /\ Base' + Len(wire') = Base + Len(wire)
            <4>1. rcv.offset + (rcv.sent + t) = rcv.pos + n
                BY <1>3, <1>4, <1>11, <3>1
            <4>2. Base' = c.offset + c.sent
                BY <1>17 DEF Base
            <4>3. Base' = rcv.pos + n
                BY <1>9, <4>1, <4>2, Zenon
            <4>4. Base = rcv.pos
                BY <1>4 DEF Base
            <4> QED BY <1>11, <3>1, <4>3, <4>4, Zenon
        <3>5. wire' = Bytes(Base', Len(wire')) /\ Base' + Len(wire') <= Size'
            BY <1>11, <3>1, <3>2, <3>4, Zenon
        <3>6. snd.conn => snd.ft # "Connecting"
            <4>1. wire # <<>>
                BY <1>3
            <4> QED BY <1>1, <3>2, <4>1 DEF Content
        <3>7. snd.conn /\ snd.ft = "Active" /\ s5b = "open" =>
                /\ snd.out = Bytes(Base' + Len(wire'), Len(snd.out))
                /\ snd.pos = Base' + Len(wire') + Len(snd.out)
            BY <1>1, <3>2, <3>4 DEF Content
        <3>8. snd.conn => snd.offset = rcv'.offset
            BY <1>1, <1>9, <1>17, <3>2 DEF Content
        <3> QED BY <1>1, <1>9, <1>17, <3>2, <3>3, <3>5, <3>6, <3>7, <3>8
                DEF Content, IsPrefixOfFile
    <2> QED BY <2>2, <2>3, <2>4, <2>5 DEF IInv
<1> QED BY <1>7, <1>13, <1>15, <1>16, <1>17

----------------------------------------------------------------------------
LEMMA InitInv ==
    ASSUME Init PROVE IInv
<1>1. PICK size \in Sizes : \E n \in 0..size :
        /\ part = Bytes(0, n)
        /\ hist = [size |-> size, attempts |-> 0, faults |-> 0, wrapped |-> FALSE]
    BY DEF Init
<1>2. PICK n \in 0..size : part = Bytes(0, n)
    BY <1>1
<1>3. /\ hist = [size |-> size, attempts |-> 0, faults |-> 0, wrapped |-> FALSE]
      /\ size \in Nat /\ n \in Nat /\ Size = size
    BY <1>1, SizeAssumption DEF Size
<1>4. part \in Seq(Nat) /\ Len(part) = n
    BY <1>2, <1>3, BytesAre
<1>5. hist \in Hists
    BY <1>3 DEF Hists
<1>6. NewSide \in Side
    BY <1>3 DEF NewSide, Side, Results
<1>7. snd = NewSide /\ rcv = NewSide /\ iq = None /\ s5b = "none" /\ wire = <<>>
    BY DEF Init
<1>8. TypeOK
    BY <1>4, <1>5, <1>6, <1>7 DEF TypeOK, None, Stanzas, Streams
<1>9. SndOK /\ RcvOK /\ Stages
    BY <1>7 DEF SndOK, RcvOK, Stages, NewSide, None
<1>10. Content
    BY <1>2, <1>3, <1>4, <1>7 DEF Content, NewSide, None, IsPrefixOfFile
<1> QED BY <1>8, <1>9, <1>10 DEF IInv

LEMMA NextInv ==
    ASSUME IInv, [Next]_vars PROVE IInv'
<1>1. CASE UNCHANGED vars
    <2>1. SameFile
        BY <1>1, HistKept DEF IInv, vars
    <2> QED BY <1>1, <2>1, SameSide
            DEF vars, IInv, TypeOK, SndOK, RcvOK, Stages, Content, Base, IsPrefixOfFile
<1>2. CASE User
    BY <1>2, SendFileInv, AcceptInv, RejectInv, SndCancelInv, RcvCancelInv DEF User
<1>3. CASE Sender
    BY <1>3, FtFinishedInv, SndS5bErrorInv, SndConnectedInv, TrySendInv, BytesWrittenInv,
       SndDoFinishInv, SndConnectionClosedInv, SndFtErrorInv DEF Sender
<1>4. CASE Receiver
    BY <1>4, PftIncomingInv, TimeoutInv, S5bIncomingReadyInv, DoAcceptInv, RcvS5bErrorInv,
       RcvConnectedInv, ReadyReadInv, RcvDoFinishInv, RcvConnectionClosedInv, RcvFtErrorInv
       DEF Receiver
<1>5. CASE Bytestream
    BY <1>5, NegotiatedInv, NegotiationFailsInv, StreamBreaksInv DEF Bytestream
<1> QED BY <1>1, <1>2, <1>3, <1>4, <1>5 DEF Next

LEMMA Invariant == Spec => []IInv
BY InitInv, NextInv, PTL DEF Spec

\* Both sides, the stanza and the stream stay well-formed, for any sizes and any
\* number of attempts and failures: no side counts below zero, and the range the
\* sender accepts lies in the file (JT_FT::take, FileTransfer::ft_finished).
THEOREM TypeCorrect == Spec => []TypeOK
<1>1. IInv => TypeOK
    BY DEF IInv
<1> QED BY <1>1, Invariant, PTL

\* Whatever interrupts a transfer, and however often name.part is resumed, it is a
\* prefix of the file, and all of it when the receiver reports the end
\* (FileRequestDlg::doStart, FileTransferHandler::ft_readyRead), unless an offset
\* did not fit the int of JT_FT::take.
THEOREM PartPrefix == Spec => []PartIsPrefix
<1>1. IInv => PartIsPrefix
    BY DEF IInv, Content, PartIsPrefix
<1> QED BY <1>1, Invariant, PTL

----------------------------------------------------------------------------
(* The connection trySend uses.                                            *)

\* What trySend, still posted, will find: a connection, or an error that is posted
\* too, after the stream was closed from the other end.
Posted ==
    /\ snd.posted > 0 =>
        \/ snd.ft = "Active" /\ snd.conn
        \/ snd.error /\ ~snd.conn /\ (s5b = "broken" \/ rcv.result \in {"done", "failed"})
    /\ iq.type = "request" => snd.posted = 0

\* The sender is deleted with its last byte, and the receiver has no more than
\* the sender counted, so it does not end before that.
Counted ==
    /\ snd.ft = "Active" =>
        snd.done = snd.offset + snd.sent /\ (snd.sent = 0 \/ snd.sent < snd.length)
    /\ snd.conn /\ rcv.conn /\ s5b = "open" => rcv.sent + Len(wire) = snd.sent
    /\ snd.conn /\ ~rcv.conn /\ s5b = "open" => rcv.result \in {"done", "failed"}

\* The sender is gone, and nothing is posted to it.
LEMMA SndOut ==
    ASSUME snd'.posted = 0, ~snd'.conn, snd'.ft # "Active"
    PROVE  Posted' /\ Counted'
BY DEF Posted, Counted

\* The receiver has no connection, for a reason the sender may meet.
LEMMA RcvOut ==
    ASSUME Posted, Counted, UNCHANGED <<snd, s5b>>, ~rcv'.conn,
           iq'.type = "request" => iq.type = "request",
           \/ rcv'.result \in {"done", "failed"}
           \/ rcv'.result = rcv.result /\ (s5b = "open" => ~snd.conn)
    PROVE  Posted' /\ Counted'
BY DEF Posted, Counted

LEMMA DeletedOut ==
    ASSUME NEW side, NEW how
    PROVE  LET d == Deleted(side, how)
           IN  d.posted = 0 /\ ~d.conn /\ d.ft = "none" /\ d.result = how
BY DEF Deleted, NewSide

LEMMA GaveUpOut ==
    ASSUME NEW side \in Side
    PROVE  LET d == GaveUp(side)
           IN  d.posted = side.posted /\ ~d.conn /\ d.ft = "Idle" /\ d.error
               /\ d.result = side.result
BY DEF GaveUp, Reset, Side

LEMMA Below ==
    ASSUME NEW size \in Nat, NEW offset \in Nat, NEW sent \in Nat, NEW len \in Nat,
           NEW n \in 0..len, offset + sent + len <= size, offset + sent + n # size
    PROVE  sent + n # size - offset /\ sent + n < size - offset
OBVIOUS

\* The bytes that leave.
LEMMA BytesWrittenOut ==
    ASSUME IInv, Posted, Counted, BytesWritten PROVE Posted' /\ Counted'
<1> DEFINE len == Len(snd.out)
           more(n) == [snd EXCEPT !.sent = @ + n, !.done = @ + n, !.out = SubSeq(@, n + 1, Len(@))]
           kept(n) == IF more(n).sent = more(n).length THEN Reset(more(n)) ELSE more(n)
<1>1. PICK n \in 1..len :
        /\ snd' = IF more(n).done = Size \/ Finished(more(n).done)
                  THEN Deleted(snd, "done") ELSE [kept(n) EXCEPT !.posted = @ + 1]
        /\ wire' = IF rcv.conn THEN wire \o SubSeq(snd.out, 1, n) ELSE wire
    BY DEF BytesWritten
<1>2. /\ UNCHANGED <<rcv, iq, s5b>> /\ s5b = "open" /\ snd.ft = "Active" /\ snd.conn
    BY DEF BytesWritten
<1>3. /\ snd \in Side /\ Size \in Nat /\ snd.out \in Seq(Nat) /\ len \in Nat
      /\ snd.sent \in Nat /\ snd.done \in Nat /\ snd.offset \in Nat /\ snd.posted \in Nat
      /\ wire \in Seq(Nat) /\ Len(wire) \in Nat /\ n \in Nat /\ n \in 0..len /\ n > 0
    <2>1. snd \in Side /\ Size \in Nat /\ wire \in Seq(Nat)
        BY SizeNat DEF IInv, TypeOK
    <2>2. /\ snd.out \in Seq(Nat) /\ snd.sent \in Nat /\ snd.done \in Nat /\ snd.offset \in Nat
          /\ snd.posted \in Nat
        BY <2>1 DEF Side
    <2>3. len \in Nat /\ Len(wire) \in Nat
        BY <2>1, <2>2
    <2> QED BY <2>1, <2>2, <2>3
<1>4. /\ snd.length = Size - snd.offset /\ snd.offset + snd.sent + len <= Size
      /\ snd.done = snd.offset + snd.sent
    BY <1>2 DEF IInv, SndOK, Counted
<1> DEFINE x == SubSeq(snd.out, 1, n)
           c == more(n)
<1>5. x \in Seq(Nat) /\ Len(x) = n
    BY <1>3, Cut
<1>6. /\ c.ft = "Active" /\ c.conn /\ c.sent = snd.sent + n /\ c.done = snd.done + n
      /\ c.offset = snd.offset /\ c.length = snd.length
    BY <1>2, <1>3 DEF Side
<1>7. CASE snd' = Deleted(snd, "done")
    BY <1>7, DeletedOut, SndOut
<1>8. CASE snd' # Deleted(snd, "done")
    <2>1. c.done # Size /\ snd' = [kept(n) EXCEPT !.posted = @ + 1]
        BY <1>1, <1>8
    <2>2. snd.sent + n # snd.length /\ snd.sent + n < snd.length
        <3>1. snd.done + n # Size
            BY <1>6, <2>1, Zenon
        <3>2. snd.offset + snd.sent + n # Size
            BY <1>4, <3>1, Zenon
        <3>3. snd.sent + n # Size - snd.offset /\ snd.sent + n < Size - snd.offset
            BY <1>3, <1>4, <3>2, Below
        <3> QED BY <1>4, <3>3, Zenon
    <2>3. snd' = [c EXCEPT !.posted = @ + 1]
        BY <1>6, <2>1, <2>2
    <2>4. /\ snd'.ft = "Active" /\ snd'.conn /\ snd'.sent = snd.sent + n
          /\ snd'.done = snd.done + n /\ snd'.offset = snd.offset /\ snd'.length = snd.length
        BY <1>2, <1>3, <2>3 DEF Side
    <2> HIDE DEF more, kept
    <2>5. snd'.done = snd'.offset + snd'.sent /\ snd'.sent < snd'.length
        <3>1. snd.done + n = snd.offset + (snd.sent + n)
            BY <1>3, <1>4
        <3> QED BY <2>2, <2>4, <3>1, Zenon
    <2>6. rcv.conn => rcv.sent + Len(wire') = snd'.sent
        <3>1. SUFFICES ASSUME rcv.conn PROVE rcv.sent + Len(wire') = snd'.sent
            OBVIOUS
        <3>2. rcv.sent + Len(wire) = snd.sent /\ rcv.sent \in Nat
            <4>1. rcv.sent \in Nat
                BY DEF IInv, TypeOK, Side
            <4> QED BY <1>2, <3>1, <4>1 DEF Counted
        <3>3. wire' = wire \o x
            BY <1>1, <3>1
        <3> HIDE DEF x
        <3>4. Len(wire') = Len(wire) + n
            BY <1>3, <1>5, <3>3, Entries
        <3> QED BY <1>3, <2>4, <3>2, <3>4
    <2>7. Posted'
        BY <1>2, <2>4 DEF Posted, IInv, Stages
    <2> QED BY <1>2, <2>4, <2>5, <2>6, <2>7 DEF Counted
<1> QED BY <1>7, <1>8

\* The bytes that come: never more than the sender counted, so the receiver does
\* not come to its length before the sender has come to its own.
LEMMA ReadyReadOut ==
    ASSUME IInv, Posted, Counted, ReadyRead PROVE Posted' /\ Counted'
<1> DEFINE more(n) == [rcv EXCEPT !.sent = @ + Taken(n), !.done = @ + Taken(n),
                                  !.pos = @ + Taken(n)]
           kept(n) == IF more(n).sent = more(n).length THEN Reset(more(n)) ELSE more(n)
<1>1. PICK n \in 1..Len(wire) :
        /\ wire' = SubSeq(wire, n + 1, Len(wire))
        /\ \/ rcv' = IF Finished(more(n).done) THEN Deleted(rcv, "done") ELSE kept(n)
           \/ rcv' = Deleted(rcv, "failed")
    BY DEF ReadyRead
<1>2. UNCHANGED <<snd, iq, s5b>> /\ rcv.ft = "Active" /\ rcv.conn
    BY DEF ReadyRead
<1>3. /\ rcv \in Side /\ wire \in Seq(Nat) /\ Len(wire) \in Nat /\ n \in Nat /\ n > 0
      /\ n \in 0..Len(wire) /\ rcv.sent \in Nat /\ rcv.length = Size /\ Size \in Nat
      /\ snd \in Side /\ snd.sent \in Nat /\ snd.offset \in Nat /\ rcv.length \in 0..Size
    <2>1. rcv \in Side /\ wire \in Seq(Nat) /\ Size \in Nat /\ snd \in Side
        BY SizeNat DEF IInv, TypeOK
    <2>2. /\ rcv.sent \in Nat /\ snd.sent \in Nat /\ snd.offset \in Nat
          /\ rcv.length \in 0..Size
        BY <2>1 DEF Side
    <2>3. Len(wire) \in Nat
        BY <2>1
    <2>4. rcv.length = Size
        BY <1>2 DEF IInv, RcvOK
    <2> QED BY <2>1, <2>2, <2>3, <2>4
<1>4. CASE rcv' = Deleted(rcv, "done") \/ rcv' = Deleted(rcv, "failed")
    BY <1>2, <1>4, DeletedOut, RcvOut
<1>5. CASE rcv' = kept(n) /\ ~(snd.conn /\ s5b = "open")
    <2>1. Counted'
        BY <1>2, <1>5 DEF Counted
    <2>2. rcv'.result = rcv.result
        BY <1>3, <1>5 DEF Reset, Side
    <2>3. Posted'
        BY <1>2, <2>2 DEF Posted
    <2> QED BY <2>1, <2>3
<1>6. CASE rcv' = kept(n) /\ snd.conn /\ s5b = "open"
    <2>1. rcv.sent + Len(wire) = snd.sent
        BY <1>2, <1>6 DEF Counted
    <2>2. snd.ft = "Active" /\ snd.sent > 0
        <3>1. snd.sent > 0
            BY <1>3, <2>1
        <3>2. snd.ft \in {"Connecting", "Active"} /\ (snd.ft = "Connecting" => snd.sent = 0)
            BY <1>6 DEF IInv, SndOK
        <3> QED BY <3>1, <3>2
    <2>3. snd.sent < snd.length /\ snd.length = Size - snd.offset
        BY <1>3, <2>2 DEF Counted, IInv, SndOK
    <2>4. snd.sent < Size
        BY <1>3, <2>3
    <2>5. Taken(n) = n /\ rcv.sent + n < rcv.length
        <3>1. rcv.sent + n < rcv.length /\ rcv.sent + n <= snd.sent
            BY <1>3, <2>1, <2>4
        <3>2. ~(n > rcv.length - rcv.sent)
            BY <1>3, <3>1
        <3> QED BY <3>1, <3>2 DEF Taken
    <2> DEFINE c == more(n)
    <2>6. /\ c.sent = rcv.sent + n /\ c.length = rcv.length /\ c.conn /\ c.result = rcv.result
        BY <1>2, <1>3, <2>5 DEF Side
    <2>7. rcv' = c
        BY <1>3, <1>6, <2>5, <2>6
    <2> HIDE DEF more
    <2>8. Len(wire') = Len(wire) - n
        BY <1>1, <1>3, Cut
    <2>9. rcv'.sent + Len(wire') = snd.sent
        BY <1>3, <2>1, <2>6, <2>7, <2>8
    <2>10. Posted'
        BY <1>2, <2>6, <2>7 DEF Posted
    <2>11. Counted'
        <3>1. snd' = snd /\ s5b' = s5b /\ rcv'.conn
            BY <1>2, <2>6, <2>7
        <3> QED BY <2>9, <3>1 DEF Counted
    <2> QED BY <2>10, <2>11
<1> QED BY <1>1, <1>4, <1>5, <1>6

\* Nothing of the sender changes, and the stream does not come to be open.
LEMMA StreamOut ==
    ASSUME Posted, Counted, UNCHANGED snd, s5b' # "open",
           s5b = "broken" => s5b' = "broken",
           rcv.result \in {"done", "failed"} => rcv'.result \in {"done", "failed"},
           iq'.type = "request" => iq.type = "request"
    PROVE  Posted' /\ Counted'
BY DEF Posted, Counted

\* The negotiation.
LEMMA NegotiationOut ==
    ASSUME IInv, Posted, Counted,
           \/ SendFile \/ PftIncoming \/ Accept \/ Reject \/ Timeout \/ FtFinished
           \/ S5bIncomingReady \/ DoAccept \/ SndS5bError \/ RcvS5bError
    PROVE  Posted' /\ Counted'
<1>1. snd \in Side /\ rcv \in Side
    BY DEF IInv, TypeOK
<1>2. CASE SendFile
    <2>1. snd'.posted = 0 /\ ~snd'.conn /\ snd'.ft = "Requesting"
        BY <1>2 DEF SendFile, NewSide
    <2> QED BY <2>1, SndOut
<1>3. CASE PftIncoming
    <2>1. /\ snd' = snd /\ s5b' = s5b /\ snd.posted = 0 /\ ~snd.conn
          /\ iq'.type # "request"
        BY <1>3 DEF PftIncoming, Posted, IInv, Stages, None, Stanza
    <2> QED BY <2>1 DEF Posted, Counted
<1>4. CASE Accept
    <2>1. /\ UNCHANGED <<snd, s5b>> /\ iq'.type = "result"
          /\ rcv'.conn = rcv.conn /\ rcv'.result = rcv.result
        BY <1>1, <1>4 DEF Accept, Stanza, Side
    <2>2. ~rcv.conn /\ ~snd.conn
        BY <1>4 DEF Accept, IInv, RcvOK, Stages
    <2> QED BY <2>1, <2>2, RcvOut
<1>5. CASE Reject
    <2>1. /\ UNCHANGED <<snd, s5b>> /\ iq'.type = "error" /\ rcv' = Deleted(rcv, "failed")
        BY <1>5 DEF Reject, Stanza
    <2> QED BY <2>1, DeletedOut, RcvOut
<1>6. CASE Timeout
    <2>1. UNCHANGED <<snd, iq, s5b>> /\ rcv' = Deleted(rcv, "failed")
        BY <1>6 DEF Timeout
    <2> QED BY <2>1, DeletedOut, RcvOut
<1>7. CASE FtFinished
    <2>1. iq'.type = "none" /\ rcv' = rcv /\ wire' = wire
        BY <1>7 DEF FtFinished, None
    <2>2. CASE UNCHANGED <<snd, s5b>>
        BY <2>1, <2>2 DEF Posted, Counted
    <2>3. CASE snd.ft = "Requesting" /\ s5b' = "requested"
                /\ snd' = [snd EXCEPT !.ft = "Connecting", !.conn = TRUE,
                                      !.offset = Parsed(iq.offset),
                                      !.length = LengthFrom(Parsed(iq.offset))]
        <3>1. snd'.posted = 0 /\ snd'.ft = "Connecting"
            BY <1>1, <2>3 DEF Side, IInv, SndOK
        <3> QED BY <2>1, <2>3, <3>1 DEF Posted, Counted
    <2>4. CASE snd.ft = "Requesting" /\ snd' = GaveUp(snd)
        <3>1. snd.posted = 0
            BY <2>4 DEF IInv, SndOK
        <3> QED BY <1>1, <2>4, <3>1, GaveUpOut, SndOut
    <2> QED BY <1>7, <2>2, <2>3, <2>4 DEF FtFinished, GaveUp
<1>8. CASE S5bIncomingReady
    <2>1. /\ UNCHANGED <<snd, iq>> /\ s5b = "requested" /\ s5b' # "open"
          /\ rcv'.result = rcv.result
        BY <1>1, <1>8 DEF S5bIncomingReady, Side
    <2> QED BY <2>1, StreamOut
<1>9. CASE DoAccept
    <2>1. UNCHANGED <<snd, rcv, iq>> /\ s5b = "offered" /\ s5b' # "open"
        BY <1>9 DEF DoAccept
    <2> QED BY <2>1, StreamOut
<1>10. CASE SndS5bError
    <2>1. snd.posted = 0 /\ snd' = GaveUp(snd)
        BY <1>10 DEF SndS5bError, S5bError, GaveUp, IInv, SndOK
    <2> QED BY <1>1, <2>1, GaveUpOut, SndOut
<1>11. CASE RcvS5bError
    <2>1. UNCHANGED <<snd, iq, s5b>> /\ s5b = "failed" /\ rcv' = GaveUp(rcv)
        BY <1>11 DEF RcvS5bError, S5bError, GaveUp
    <2> QED BY <1>1, <2>1, GaveUpOut, RcvOut
<1> QED BY <1>2, <1>3, <1>4, <1>5, <1>6, <1>7, <1>8, <1>9, <1>10, <1>11

\* The stream opens, fails and breaks, and each side meets it.
LEMMA ConnectedOut ==
    ASSUME IInv, Posted, Counted,
           Negotiated \/ NegotiationFails \/ StreamBreaks \/ SndConnected \/ RcvConnected
    PROVE  Posted' /\ Counted'
<1>1. snd \in Side /\ rcv \in Side /\ Size \in Nat
    BY SizeNat DEF IInv, TypeOK
<1>2. CASE Negotiated
    <2>1. /\ UNCHANGED <<snd, rcv, iq, wire>> /\ s5b = "accepted" /\ s5b' = "open"
          /\ snd.conn /\ rcv.conn
        BY <1>2 DEF Negotiated
    <2>2. snd.ft = "Connecting" /\ rcv.ft = "Connecting" /\ wire = <<>>
        BY <2>1 DEF IInv, SndOK, RcvOK, Stages
    <2>3. snd.sent = 0 /\ rcv.sent = 0 /\ snd.posted = 0
        BY <2>2 DEF IInv, SndOK, RcvOK
    <2> QED BY <2>1, <2>2, <2>3 DEF Posted, Counted
<1>3. CASE NegotiationFails
    <2>1. UNCHANGED <<snd, rcv, iq>> /\ s5b # "broken" /\ s5b' = "failed"
        BY <1>3 DEF NegotiationFails
    <2> QED BY <2>1, StreamOut
<1>4. CASE StreamBreaks
    <2>1. UNCHANGED <<snd, rcv, iq>> /\ s5b' = "broken"
        BY <1>4 DEF StreamBreaks
    <2> QED BY <2>1, StreamOut
<1>5. CASE SndConnected
    <2>1. UNCHANGED <<rcv, iq, s5b, wire>> /\ snd.ft = "Connecting" /\ snd.conn
        BY <1>5 DEF SndConnected, Connecting
    <2>2. snd.sent = 0 /\ snd.length = Size - snd.offset
        BY <2>1 DEF IInv, SndOK
    <2>3. snd.length \in 0..Size /\ snd.offset \in Nat
        BY <1>1 DEF Side
    <2>4. CASE snd' = Deleted(snd, "failed")
        BY <2>4, DeletedOut, SndOut
    <2>5. CASE Size = 0 /\ snd' = [Connected(snd) EXCEPT !.posted =
                                      IF snd.offset = Size THEN 0 ELSE 1]
        <3>1. snd.offset = Size
            BY <1>1, <2>2, <2>3, <2>5
        <3>2. snd'.posted = 0 /\ ~snd'.conn /\ snd'.ft = "none"
            BY <2>5, <3>1 DEF Connected, Deleted, NewSide
        <3> QED BY <3>2, SndOut
    <2>6. CASE Size # 0 /\ snd' = [Connected(snd) EXCEPT !.posted =
                                      IF snd.offset = Size THEN 0 ELSE 1]
        <3>1. /\ snd'.ft = "Active" /\ snd'.conn /\ snd'.sent = 0 /\ snd'.done = snd.offset
              /\ snd'.offset = snd.offset
            BY <1>1, <2>1, <2>2, <2>6 DEF Connected, Side
        <3>2. snd'.done = snd'.offset + snd'.sent
            BY <2>3, <3>1
        <3>3. iq.type # "request"
            BY <2>1 DEF IInv, Stages
        <3> QED BY <2>1, <2>2, <3>1, <3>2, <3>3 DEF Posted, Counted
    <2> QED BY <1>5, <2>4, <2>5, <2>6 DEF SndConnected
<1>6. CASE RcvConnected
    <2>1. UNCHANGED <<snd, iq, s5b, wire>> /\ rcv.conn
        BY <1>6 DEF RcvConnected, Connecting
    <2>2. CASE rcv' = Deleted(rcv, "failed") \/ rcv' = Deleted(rcv, "done")
        BY <2>1, <2>2, DeletedOut, RcvOut
    <2>3. CASE Size # 0 /\ rcv' = Connected(rcv)
        <3>1. rcv'.conn = rcv.conn /\ rcv'.sent = rcv.sent /\ rcv'.result = rcv.result
            BY <1>1, <2>3 DEF Connected, Side
        <3> QED BY <2>1, <3>1 DEF Posted, Counted
    <2> QED BY <1>6, <2>2, <2>3 DEF RcvConnected, Connected
<1> QED BY <1>2, <1>3, <1>4, <1>5, <1>6

\* What each side does until it ends.
LEMMA SendingOut ==
    ASSUME IInv, Posted, Counted,
           TrySend \/ SndDoFinish \/ SndConnectionClosed \/ SndFtError \/ SndCancel
    PROVE  Posted' /\ Counted'
<1>1. snd \in Side
    BY DEF IInv, TypeOK
<1>2. CASE SndDoFinish \/ SndFtError \/ SndCancel
    <2>1. snd' = Deleted(snd, "done") \/ snd' = Deleted(snd, "failed")
        BY <1>2 DEF SndDoFinish, SndFtError, SndCancel
    <2> QED BY <2>1, DeletedOut, SndOut
<1>3. CASE TrySend
    <2>1. UNCHANGED <<rcv, iq, s5b, wire>> /\ snd.posted > 0
        BY <1>3 DEF TrySend
    <2>2. CASE snd' = Deleted(snd, "failed") \/ snd' = Deleted(snd, "crashed")
        BY <2>2, DeletedOut, SndOut
    <2>3. CASE snd.conn /\ snd' = [snd EXCEPT !.posted = @ - 1, !.pos = @ + ReadSize,
                                              !.out = @ \o Bytes(snd.pos, ReadSize)]
        <3>1. /\ snd'.ft = snd.ft /\ snd'.conn = snd.conn /\ snd'.sent = snd.sent
              /\ snd'.done = snd.done /\ snd'.offset = snd.offset
              /\ snd'.length = snd.length
            BY <1>1, <2>3 DEF Side
        <3>2. snd.ft = "Active"
            BY <2>1, <2>3 DEF Posted
        <3>3. snd.posted \in Nat /\ snd.posted # 0
            BY <1>1, <2>1 DEF Side
        <3> QED BY <2>1, <2>3, <3>1, <3>2, <3>3 DEF Posted, Counted
    <2> QED BY <1>3, <2>2, <2>3 DEF TrySend
<1>4. CASE SndConnectionClosed
    <2>1. /\ UNCHANGED <<rcv, iq, s5b>> /\ snd.ft = "Active" /\ snd.conn
          /\ s5b = "broken" \/ ~rcv.conn
          /\ snd' = GaveUp(snd)
        BY <1>4 DEF SndConnectionClosed, GaveUp
    <2>2. /\ snd'.posted = snd.posted /\ ~snd'.conn /\ snd'.ft = "Idle" /\ snd'.error
        BY <1>1, <2>1, GaveUpOut
    <2>3. s5b \in {"open", "broken"}
        BY <2>1 DEF IInv, Stages
    <2>4. s5b = "broken" \/ rcv.result \in {"done", "failed"}
        BY <2>1, <2>3 DEF Counted
    <2>5. iq.type # "request"
        BY <2>1 DEF IInv, Stages
    <2> QED BY <2>1, <2>2, <2>4, <2>5 DEF Posted, Counted
<1> QED BY <1>2, <1>3, <1>4

LEMMA ReceivingOut ==
    ASSUME IInv, Posted, Counted,
           RcvDoFinish \/ RcvConnectionClosed \/ RcvFtError \/ RcvCancel
    PROVE  Posted' /\ Counted'
<1>1. CASE RcvDoFinish \/ RcvFtError \/ RcvCancel
    <2>1. /\ UNCHANGED <<snd, iq, s5b>>
          /\ rcv' = Deleted(rcv, "done") \/ rcv' = Deleted(rcv, "failed")
        BY <1>1 DEF RcvDoFinish, RcvFtError, RcvCancel
    <2> QED BY <2>1, DeletedOut, RcvOut
<1>2. CASE RcvConnectionClosed
    <2>1. /\ UNCHANGED <<snd, iq, s5b>>
          /\ s5b = "broken" \/ ~snd.conn
          /\ rcv' = GaveUp(rcv) /\ rcv \in Side
        BY <1>2 DEF RcvConnectionClosed, GaveUp, IInv, TypeOK
    <2> QED BY <2>1, GaveUpOut, RcvOut
<1> QED BY <1>1, <1>2

LEMMA PostedNext ==
    ASSUME IInv, Posted, Counted, [Next]_vars PROVE Posted' /\ Counted'
<1>1. CASE UNCHANGED vars
    BY <1>1 DEF vars, Posted, Counted
<1>2. CASE User
    BY <1>2, NegotiationOut, SendingOut, ReceivingOut DEF User
<1>3. CASE Sender
    BY <1>3, NegotiationOut, ConnectedOut, SendingOut, BytesWrittenOut DEF Sender
<1>4. CASE Receiver
    BY <1>4, NegotiationOut, ConnectedOut, ReceivingOut, ReadyReadOut DEF Receiver
<1>5. CASE Bytestream
    BY <1>5, ConnectedOut DEF Bytestream
<1> QED BY <1>1, <1>2, <1>3, <1>4, <1>5 DEF Next

\* Only trySend without a connection crashes.
LEMMA CrashIs ==
    ASSUME IInv, [Next]_vars, snd'.result = "crashed", snd.result # "crashed"
    PROVE  snd.posted > 0 /\ ~snd.conn
<1>1. snd \in Side
    BY DEF IInv, TypeOK
<1>2. snd' # snd /\ snd' # Deleted(snd, "done") /\ snd' # Deleted(snd, "failed")
        /\ snd' # GaveUp(snd)
    BY <1>1, DeletedOut, GaveUpOut
<1>3. CASE User
    BY <1>2, <1>3 DEF User, SendFile, NewSide, Accept, Reject, SndCancel, RcvCancel
<1>4. CASE Receiver \/ Bytestream \/ UNCHANGED vars
    BY <1>2, <1>4
       DEF Receiver, PftIncoming, Timeout, S5bIncomingReady, DoAccept, RcvS5bError,
           RcvConnected, ReadyRead, RcvDoFinish, RcvConnectionClosed, RcvFtError,
           Bytestream, Negotiated, NegotiationFails, StreamBreaks, vars
<1>5. CASE SndS5bError \/ SndDoFinish \/ SndConnectionClosed \/ SndFtError
    BY <1>2, <1>5 DEF SndS5bError, SndDoFinish, SndConnectionClosed, SndFtError, GaveUp
<1>6. CASE FtFinished
    <2>1. snd' = [snd EXCEPT !.ft = "Connecting", !.conn = TRUE, !.offset = Parsed(iq.offset),
                             !.length = LengthFrom(Parsed(iq.offset))]
        BY <1>2, <1>6 DEF FtFinished, GaveUp
    <2>2. snd'.result = snd.result
        BY <1>1, <2>1 DEF Side
    <2> QED BY <2>2
<1>7. CASE SndConnected
    <2>1. snd' = [Connected(snd) EXCEPT !.posted = IF snd.offset = Size THEN 0 ELSE 1]
        BY <1>2, <1>7 DEF SndConnected
    <2>2. CASE Size = 0
        <3>1. snd'.result = "done"
            BY <2>1, <2>2 DEF Connected, Deleted, NewSide
        <3> QED BY <3>1
    <2>3. CASE Size # 0
        <3>1. snd'.result = snd.result
            BY <1>1, <2>1, <2>3 DEF Connected, Side
        <3> QED BY <3>1
    <2> QED BY <2>2, <2>3
<1>8. CASE TrySend
    <2>1. snd.posted > 0
        BY <1>8 DEF TrySend
    <2>2. CASE snd' = [snd EXCEPT !.posted = @ - 1, !.pos = @ + ReadSize,
                                  !.out = @ \o Bytes(snd.pos, ReadSize)]
        <3>1. snd'.result = snd.result
            BY <1>1, <2>2 DEF Side
        <3> QED BY <3>1
    <2>3. CASE ~snd.conn
        BY <2>1, <2>3
    <2> QED BY <1>2, <1>8, <2>2, <2>3 DEF TrySend
<1>9. CASE BytesWritten
    <2> DEFINE more(n) == [snd EXCEPT !.sent = @ + n, !.done = @ + n,
                                      !.out = SubSeq(@, n + 1, Len(@))]
               kept(n) == IF more(n).sent = more(n).length THEN Reset(more(n)) ELSE more(n)
    <2>1. PICK n \in 1..Len(snd.out) :
            snd' = Deleted(snd, "done") \/ snd' = [kept(n) EXCEPT !.posted = @ + 1]
        BY <1>9 DEF BytesWritten
    <2>2. more(n).result = snd.result /\ Reset(more(n)).result = snd.result
        BY <1>1 DEF Reset, Side
    <2>3. [more(n) EXCEPT !.posted = @ + 1].result = snd.result
        BY <1>1 DEF Side
    <2>4. [Reset(more(n)) EXCEPT !.posted = @ + 1].result = snd.result
        BY <1>1 DEF Reset, Side
    <2> QED BY <1>2, <2>1, <2>2, <2>3, <2>4
<1> QED BY <1>3, <1>4, <1>5, <1>6, <1>7, <1>8, <1>9 DEF Next, Sender

\* FileTransferHandler::trySend meets a null connection only after the stream was
\* closed from the other end, with the error that would delete the handler still
\* posted; never while the stream stands, and never at the end of a transfer.
THEOREM Crash == Spec => CrashOnlyIfClosed
<1>1. Init => Posted /\ Counted
    BY DEF Init, Posted, Counted, NewSide, None
<1>2. IInv /\ Posted /\ [Next]_vars =>
        [snd'.result = "crashed" /\ snd.result # "crashed" =>
            snd.error /\ (s5b = "broken" \/ rcv.result \in {"done", "failed"})]_vars
    BY CrashIs DEF Posted
<1> QED BY <1>1, <1>2, Invariant, PostedNext, PTL DEF Spec, CrashOnlyIfClosed

----------------------------------------------------------------------------
(* The two ends, while nobody cancels and nothing fails.                   *)

\* Nobody cancelled, nothing failed, and every offset fitted its int.
Calm == hist.faults = 0 /\ ~hist.wrapped

\* The two sides mean the same offset, from the answer on.
CalmOffsets ==
    /\ rcv.offset <= Size
    /\ iq.type = "result" => iq.offset = rcv.offset
    /\ iq.type = "request" \/ rcv.ft = "WaitingForAccept" => s5b = "none"
    /\ s5b # "none" => snd.offset = rcv.offset
    /\ s5b # "broken"

\* The receiver has an error only when it gave up, a timer only before the stream,
\* and is deleted with its last byte.
CalmRcv ==
    /\ rcv.error => rcv.ft = "Idle"
    /\ rcv.timer => /\ rcv.ft = "Connecting" /\ ~rcv.conn
                    /\ s5b \in {"none", "requested", "failed"}
    /\ rcv.ft = "Active" /\ rcv.conn => rcv.done < Size \/ rcv.offset = Size

\* The sender ends only while the stream is open.
CalmSnd ==
    /\ snd.result = "done" => s5b = "open"
    /\ snd.finish => s5b = "open" /\ snd.offset = Size
    /\ snd.ft = "Active" => snd.done = snd.offset + snd.sent
    /\ snd.ft # "none" => snd.result = "running"

\* Behind a sender that holds the stream, or has ended, the receiver is fine, and
\* what it lacks is in the stream.
Fine == (rcv.result \in {"running", "done"} /\ ~rcv.error) \/ rcv.offset = Size
CalmEnd ==
    /\ s5b = "open" /\ (snd.conn \/ snd.result = "done") => Fine
    /\ snd.result = "done" /\ rcv.conn => rcv.offset = Size \/ Base + Len(wire) = Size

AInv == Calm => CalmOffsets /\ CalmRcv /\ CalmSnd /\ CalmEnd


\* What a step may do to the history.
LEMMA HistoryMoves ==
    ASSUME [Next]_vars
    PROVE  \/ UNCHANGED hist \/ Fault
           \/ hist' = [hist EXCEPT !.attempts = @ + 1]
           \/ hist' = [hist EXCEPT !.wrapped = @ \/ Parsed(iq.offset) # iq.offset]
<1>1. CASE UNCHANGED vars
    BY <1>1 DEF vars
<1>2. CASE User
    BY <1>2 DEF User, SendFile, Accept, Reject, SndCancel, RcvCancel
<1>3. CASE Sender
    BY <1>3 DEF Sender, FtFinished, SndS5bError, SndConnected, TrySend, BytesWritten,
                SndDoFinish, SndConnectionClosed, SndFtError
<1>4. CASE Receiver
    BY <1>4 DEF Receiver, PftIncoming, Timeout, S5bIncomingReady, DoAccept, RcvS5bError,
                RcvConnected, ReadyRead, RcvDoFinish, RcvConnectionClosed, RcvFtError
<1>5. CASE Bytestream
    BY <1>5 DEF Bytestream, Negotiated, NegotiationFails, StreamBreaks
<1> QED BY <1>1, <1>2, <1>3, <1>4, <1>5 DEF Next

\* Calm is never regained, and nothing fails in a step that ends in it.
LEMMA CalmBefore ==
    ASSUME IInv, [Next]_vars, Calm' PROVE Calm /\ ~Fault /\ Size' = Size
<1>1. hist \in Hists
    BY DEF IInv, TypeOK
<1>2. ~Fault
    <2>1. SUFFICES ASSUME Fault PROVE FALSE
        OBVIOUS
    <2>2. hist'.faults = hist.faults + 1 /\ hist.faults \in Nat
        BY <1>1, <2>1 DEF Fault, Hists
    <2> QED BY <2>2 DEF Calm
<1>3. CASE UNCHANGED hist
    BY <1>2, <1>3 DEF Calm, Size
<1>4. CASE hist' = [hist EXCEPT !.attempts = @ + 1]
    <2>1. hist'.faults = hist.faults /\ hist'.wrapped = hist.wrapped /\ hist'.size = hist.size
        BY <1>1, <1>4 DEF Hists
    <2> QED BY <1>2, <2>1 DEF Calm, Size
<1>5. CASE hist' = [hist EXCEPT !.wrapped = @ \/ Parsed(iq.offset) # iq.offset]
    <2> DEFINE w == hist.wrapped \/ Parsed(iq.offset) # iq.offset
    <2>1. hist' = [hist EXCEPT !.wrapped = w] /\ (~w => ~hist.wrapped)
        BY <1>5
    <2> HIDE DEF w
    <2>2. hist'.faults = hist.faults /\ hist'.wrapped = w /\ hist'.size = hist.size
        BY <1>1, <2>1 DEF Hists
    <2> QED BY <1>2, <2>1, <2>2 DEF Calm, Size
<1> QED BY <1>2, <1>3, <1>4, <1>5, HistoryMoves

\* What is known before a step that ends in calm.
CInv == CalmOffsets /\ CalmRcv /\ CalmSnd /\ CalmEnd
Before ==
    /\ IInv /\ CInv /\ Content /\ Calm' /\ ~Fault
    /\ snd \in Side /\ rcv \in Side /\ Size \in Nat /\ Size' = Size

LEMMA BeforeStep ==
    ASSUME IInv, AInv, [Next]_vars, Calm' PROVE Before
BY CalmBefore, SizeNat DEF AInv, CInv, IInv, TypeOK, Calm, Before

\* What deleting a side, and giving up, leave of it.
LEMMA DeletedLeaves ==
    ASSUME NEW side, NEW how
    PROVE  LET d == Deleted(side, how)
           IN  d.ft = "none" /\ ~d.conn /\ d.offset = side.offset /\ ~d.error /\ ~d.timer
               /\ ~d.finish /\ d.sent = 0 /\ d.result = how
BY DEF Deleted, NewSide
LEMMA GaveUpLeaves ==
    ASSUME NEW side \in Side
    PROVE  LET d == GaveUp(side)
           IN  d.ft = "Idle" /\ ~d.conn /\ d.offset = side.offset /\ d.error
               /\ d.timer = side.timer /\ d.finish = side.finish /\ d.result = side.result
BY DEF GaveUp, Reset, Side

\* The sender leaves without an end: then nothing is claimed of the receiver.
LEMMA SndFails ==
    ASSUME Before, UNCHANGED <<rcv, s5b, wire>>, iq' \in {iq, None},
           snd'.offset = snd.offset, ~snd'.conn, snd'.result # "done",
           snd'.finish => snd.finish, snd'.ft # "Active",
           snd'.ft # "none" => snd'.result = "running"
    PROVE  CInv'
<1>1. CalmOffsets'
    BY DEF Before, CInv, CalmOffsets, None
<1>2. CalmRcv' /\ CalmSnd' /\ CalmEnd'
    BY DEF Before, CInv, CalmRcv, CalmSnd, CalmEnd
<1> QED BY <1>1, <1>2 DEF CInv

\* The receiver leaves: well, or while nothing is claimed of it.
LEMMA RcvLeft ==
    ASSUME Before, UNCHANGED <<snd, s5b>>, iq' \in {iq, Stanza("error", 0)},
           rcv'.offset = rcv.offset, ~rcv'.conn, rcv'.ft \in {"none", "Idle"}, ~rcv'.timer,
           rcv'.error => rcv'.ft = "Idle",
           s5b = "open" /\ (snd.conn \/ snd.result = "done") => Fine'
    PROVE  CInv'
<1>1. CalmOffsets'
    BY StanzaIs DEF Before, CInv, CalmOffsets
<1>2. CalmRcv' /\ CalmSnd' /\ CalmEnd'
    BY DEF Before, CInv, CalmRcv, CalmSnd, CalmEnd
<1> QED BY <1>1, <1>2 DEF CInv

\* The sender fails, or had nothing to send.
LEMMA SndFailsAgrees ==
    ASSUME Before, SndS5bError \/ SndConnectionClosed \/ SndFtError
    PROVE  CInv'
<1>1. CASE SndFtError
    BY <1>1, DeletedLeaves, SndFails DEF SndFtError
<1>2. CASE SndS5bError \/ SndConnectionClosed
    <2>1. snd' = GaveUp(snd) /\ UNCHANGED <<rcv, iq, s5b, wire>> /\ snd.result = "running"
        BY <1>2 DEF SndS5bError, SndConnectionClosed, GaveUp, S5bError, Before, CInv, CalmSnd
    <2> QED BY <2>1, GaveUpLeaves, SndFails DEF Before
<1> QED BY <1>1, <1>2

LEMMA SndDoFinishAgrees ==
    ASSUME Before, SndDoFinish PROVE CInv'
<1>1. /\ snd'.ft = "none" /\ ~snd'.conn /\ snd'.offset = snd.offset /\ ~snd'.finish
      /\ snd'.result = "done"
    BY DeletedLeaves DEF SndDoFinish
<1>2. s5b = "open" /\ rcv.offset = Size /\ UNCHANGED <<rcv, iq, s5b, wire>>
    BY DEF SndDoFinish, Before, CInv, CalmSnd, CalmOffsets
<1> QED BY <1>1, <1>2 DEF Before, CInv, CalmOffsets, CalmRcv, CalmSnd, CalmEnd, Fine

\* The receiver is refused, times out, fails or ends.
LEMMA RcvLeavesAgrees ==
    ASSUME Before,
           Reject \/ Timeout \/ RcvS5bError \/ RcvDoFinish \/ RcvConnectionClosed \/ RcvFtError
    PROVE  CInv'
<1>1. CASE Reject
    <2>1. s5b = "none"
        BY <1>1 DEF Reject, Before, CInv, CalmOffsets
    <2> QED BY <1>1, <2>1, DeletedLeaves, RcvLeft DEF Reject
<1>2. CASE Timeout
    <2>1. s5b # "open"
        BY <1>2 DEF Timeout, Before, CInv, CalmRcv
    <2> QED BY <1>2, <2>1, DeletedLeaves, RcvLeft DEF Timeout
<1>3. CASE RcvS5bError
    <2>1. rcv' = GaveUp(rcv) /\ s5b # "open" /\ UNCHANGED <<snd, iq, s5b>> /\ ~rcv.timer
        BY <1>3 DEF RcvS5bError, S5bError, GaveUp, Before, CInv, CalmRcv
    <2> QED BY <2>1, GaveUpLeaves, RcvLeft DEF Before
<1>4. CASE RcvDoFinish
    BY <1>4, DeletedLeaves, RcvLeft DEF RcvDoFinish, Fine
<1>5. CASE RcvConnectionClosed
    <2>1. /\ rcv' = GaveUp(rcv) /\ UNCHANGED <<snd, iq, s5b>> /\ ~rcv.timer
          /\ rcv.ft = "Active" /\ rcv.conn /\ wire = <<>> /\ ~snd.conn
        BY <1>5 DEF RcvConnectionClosed, GaveUp, Before, CInv, CalmRcv, CalmOffsets
    <2>2. rcv.done = Base /\ Len(wire) = 0 /\ Base \in Nat
        BY <2>1 DEF Before, IInv, RcvOK, Base, Side
    <2>3. snd.result = "done" => rcv.offset = Size
        BY <2>1, <2>2 DEF Before, CInv, CalmEnd, CalmRcv
    <2> QED BY <2>1, <2>3, GaveUpLeaves, RcvLeft DEF Before, Fine
<1>6. CASE RcvFtError
    <2>1. s5b = "open" /\ (snd.conn \/ snd.result = "done") => rcv.offset = Size
        BY <1>6 DEF RcvFtError, Before, CInv, CalmEnd, Fine
    <2> QED BY <1>6, <2>1, DeletedLeaves, RcvLeft DEF RcvFtError, Fine, Before
<1> QED BY <1>1, <1>2, <1>3, <1>4, <1>5, <1>6

\* The request and its answer.
LEMMA SendFileAgrees ==
    ASSUME Before, SendFile PROVE CInv'
<1>1. /\ rcv'.offset = 0 /\ rcv'.ft = "none" /\ ~rcv'.conn /\ ~rcv'.error /\ ~rcv'.timer
      /\ snd'.ft = "Requesting" /\ ~snd'.conn /\ snd'.result = "running" /\ ~snd'.finish
      /\ iq'.type = "request" /\ s5b' = "none"
    BY StanzaIs DEF SendFile, NewSide
<1> QED BY <1>1 DEF Before, CInv, CalmOffsets, CalmRcv, CalmSnd, CalmEnd

LEMMA PftIncomingAgrees ==
    ASSUME Before, PftIncoming PROVE CInv'
<1>1. s5b = "none" /\ UNCHANGED <<snd, s5b, wire>>
    BY DEF PftIncoming, Before, CInv, CalmOffsets
<1>2. \/ /\ rcv'.offset = 0 /\ rcv'.ft = "WaitingForAccept" /\ ~rcv'.conn /\ ~rcv'.error
         /\ ~rcv'.timer /\ iq'.type = "none"
      \/ iq'.type = "error" /\ UNCHANGED rcv
    <2>1. CASE rcv' = [NewSide EXCEPT !.ft = "WaitingForAccept", !.result = "running"]
               /\ iq' = None
        BY <2>1 DEF NewSide, None
    <2>2. CASE iq' = Stanza("error", 0) /\ UNCHANGED rcv
        BY <2>2, StanzaIs
    <2> QED BY <2>1, <2>2 DEF PftIncoming
<1> QED BY <1>1, <1>2 DEF Before, CInv, CalmOffsets, CalmRcv, CalmSnd, CalmEnd

LEMMA AcceptAgrees ==
    ASSUME Before, Accept PROVE CInv'
<1>1. s5b = "none" /\ UNCHANGED <<snd, s5b, wire, part>> /\ ~rcv.conn /\ ~rcv.error
    BY DEF Accept, Before, CInv, CalmOffsets, CalmRcv, IInv, Stages
<1>2. Len(part) \in Nat /\ Len(part) <= Size
    BY DEF Before, Content, IsPrefixOfFile, IInv, TypeOK
<1>3. /\ rcv'.ft = "Connecting" /\ rcv'.offset = Len(part) /\ rcv'.conn = rcv.conn
      /\ rcv'.error = rcv.error
    BY DEF Accept, Before, Side
<1>4. iq'.type = "result" /\ iq'.offset = Len(part)
    BY <1>2, StanzaIs DEF Accept
<1> QED BY <1>1, <1>2, <1>3, <1>4 DEF Before, CInv, CalmOffsets, CalmRcv, CalmSnd, CalmEnd

\* The bytestream is negotiated.
LEMMA FtFinishedAgrees ==
    ASSUME Before, FtFinished PROVE CInv'
<1>1. UNCHANGED <<rcv, wire, part>> /\ iq' = None /\ iq'.type = "none"
    BY DEF FtFinished, None
<1>2. CASE UNCHANGED <<snd, s5b>>
    BY <1>1, <1>2 DEF Before, CInv, CalmOffsets, CalmRcv, CalmSnd, CalmEnd, Fine, Base
<1>3. CASE snd' = GaveUp(snd) /\ UNCHANGED s5b /\ snd.ft = "Requesting"
    <2>1. snd.result = "running"
        BY <1>3 DEF Before, CInv, CalmSnd
    <2> QED BY <1>1, <1>3, <2>1, GaveUpLeaves, SndFails DEF Before
<1>4. CASE
        /\ snd.ft = "Requesting" /\ iq.type = "result"
        /\ snd' = [snd EXCEPT !.ft = "Connecting", !.conn = TRUE,
                              !.offset = Parsed(iq.offset),
                              !.length = LengthFrom(Parsed(iq.offset))]
        /\ s5b' = "requested"
        /\ hist' = [hist EXCEPT !.wrapped = @ \/ Parsed(iq.offset) # iq.offset]
    <2> DEFINE n == Parsed(iq.offset)
               w == hist.wrapped \/ n # iq.offset
    <2>1. n = iq.offset
        <3>1. hist' = [hist EXCEPT !.wrapped = w] /\ hist \in Hists
            BY <1>4 DEF Before, IInv, TypeOK
        <3>2. ~w => n = iq.offset
            OBVIOUS
        <3> HIDE DEF w, n
        <3>3. hist'.wrapped = w
            BY <3>1 DEF Hists
        <3> QED BY <3>2, <3>3 DEF Before, Calm
    <2>2. snd' = [snd EXCEPT !.ft = "Connecting", !.conn = TRUE, !.offset = n,
                             !.length = LengthFrom(n)]
        BY <1>4
    <2> HIDE DEF n
    <2>3. /\ snd'.ft = "Connecting" /\ snd'.conn /\ snd'.offset = n
          /\ snd'.result = snd.result /\ snd'.finish = snd.finish
        BY <2>2 DEF Before, Side
    <2>4. n = rcv.offset
        BY <1>4, <2>1 DEF Before, CInv, CalmOffsets
    <2>5. s5b = "none" /\ rcv.ft # "WaitingForAccept"
        BY <1>4 DEF Before, IInv, Stages
    <2>6. CalmOffsets' /\ CalmRcv' /\ CalmSnd' /\ CalmEnd'
        BY <1>1, <1>4, <2>3, <2>4, <2>5
           DEF Before, CInv, CalmOffsets, CalmRcv, CalmSnd, CalmEnd
    <2> QED BY <2>6 DEF CInv
<1> QED BY <1>1, <1>2, <1>3, <1>4 DEF FtFinished, GaveUp

LEMMA S5bIncomingReadyAgrees ==
    ASSUME Before, S5bIncomingReady PROVE CInv'
<1>1. s5b = "requested" /\ s5b' \in {"offered", "failed"} /\ UNCHANGED <<snd, iq, wire>>
    BY DEF S5bIncomingReady
<1>2. \/ /\ rcv.ft = "Connecting" /\ rcv' = [rcv EXCEPT !.conn = TRUE, !.timer = FALSE]
      \/ UNCHANGED rcv /\ s5b' = "failed"
    BY DEF S5bIncomingReady
<1>3. /\ rcv'.offset = rcv.offset /\ rcv'.ft = rcv.ft /\ rcv'.error = rcv.error
      /\ rcv'.timer => UNCHANGED rcv /\ s5b' = "failed"
    BY <1>2 DEF Before, Side
<1>4. rcv.ft # "Active"
    BY <1>1 DEF Before, IInv, Stages
<1>5. CalmOffsets' /\ CalmRcv' /\ CalmSnd' /\ CalmEnd'
    BY <1>1, <1>3, <1>4 DEF Before, CInv, CalmOffsets, CalmRcv, CalmSnd, CalmEnd
<1> QED BY <1>5 DEF CInv

LEMMA NegotiationAgrees ==
    ASSUME Before, DoAccept \/ Negotiated \/ NegotiationFails PROVE CInv'
<1>1. /\ UNCHANGED <<snd, rcv, iq, wire, part>> /\ s5b \in {"requested", "offered", "accepted"}
      /\ \/ s5b' = "failed"
         \/ s5b' \in {"accepted", "open"} /\ rcv.conn
    BY DEF DoAccept, Negotiated, NegotiationFails
<1>2. s5b' = "open" => rcv.conn
    BY <1>1
<1>3. rcv.conn => rcv.result = "running" /\ ~rcv.error /\ ~rcv.timer
    BY DEF Before, IInv, RcvOK, CInv, CalmRcv
<1>4. CalmOffsets' /\ CalmRcv' /\ CalmSnd' /\ CalmEnd'
    BY <1>1, <1>2, <1>3
       DEF Before, IInv, Stages, CInv, CalmOffsets, CalmRcv, CalmSnd, CalmEnd, Fine
<1> QED BY <1>4 DEF CInv

\* The stream is open on both sides.
LEMMA SndConnectedAgrees ==
    ASSUME Before, SndConnected PROVE CInv'
<1>1. /\ UNCHANGED <<rcv, iq, s5b, wire>> /\ s5b = "open" /\ snd.ft = "Connecting" /\ snd.conn
      /\ snd' = [Connected(snd) EXCEPT !.posted = IF snd.offset = Size THEN 0 ELSE 1]
    BY DEF SndConnected, Connecting, Before, CInv, CalmOffsets
<1>2. /\ rcv.offset = snd.offset /\ rcv.offset <= Size /\ snd.offset \in Nat
      /\ snd.result = "running" /\ snd.sent = 0 /\ snd.sent \in Nat /\ ~rcv.timer
    BY <1>1 DEF Before, CInv, CalmOffsets, CalmRcv, CalmSnd, IInv, SndOK, Side
<1> DEFINE k == IF snd.offset = Size THEN 0 ELSE 1
<1>3. snd' = [Connected(snd) EXCEPT !.posted = k]
    BY <1>1
<1> HIDE DEF k
<1>4. CASE Size = 0
    <2>1. snd'.ft = "none" /\ ~snd'.conn /\ snd'.result = "done" /\ ~snd'.finish
          /\ snd'.offset = snd.offset
        BY <1>3, <1>4 DEF Connected, Deleted, NewSide
    <2>2. rcv.offset = Size
        BY <1>2, <1>4
    <2>3. CalmOffsets' /\ CalmRcv' /\ CalmSnd' /\ CalmEnd'
        BY <1>1, <2>1, <2>2
           DEF Before, CInv, CalmOffsets, CalmRcv, CalmSnd, CalmEnd, Fine
    <2> QED BY <2>3 DEF CInv
<1>5. CASE Size # 0
    <2> DEFINE f == snd.offset = Size
    <2>1. snd' = [[snd EXCEPT !.ft = "Active", !.done = snd.offset, !.pos = snd.offset,
                              !.timer = FALSE, !.finish = f] EXCEPT !.posted = k]
        BY <1>3, <1>5 DEF Connected
    <2>2. f => snd.offset = Size
        OBVIOUS
    <2> HIDE DEF f
    <2>3. /\ snd'.ft = "Active" /\ snd'.conn = snd.conn /\ snd'.result = snd.result
          /\ snd'.offset = snd.offset /\ snd'.done = snd.offset /\ snd'.sent = snd.sent
          /\ snd'.finish = f
        BY <2>1 DEF Before, Side
    <2>4. snd'.done = snd'.offset + snd'.sent
        BY <1>2, <2>3
    <2>5. CalmOffsets' /\ CalmRcv' /\ CalmSnd'
        BY <1>1, <1>2, <2>2, <2>3, <2>4 DEF Before, CInv, CalmOffsets, CalmRcv, CalmSnd
    <2>6. CalmEnd'
        BY <1>1, <1>2, <2>3 DEF Before, CInv, CalmEnd, Fine
    <2> QED BY <2>5, <2>6 DEF CInv
<1> QED BY <1>4, <1>5

LEMMA RcvConnectedAgrees ==
    ASSUME Before, RcvConnected PROVE CInv'
<1>1. /\ UNCHANGED <<snd, iq, s5b, wire>> /\ s5b = "open" /\ rcv.ft = "Connecting" /\ rcv.conn
      /\ rcv' = Connected(rcv)
    BY DEF RcvConnected, Connecting, Before, CInv, CalmOffsets
<1>2. /\ rcv.offset <= Size /\ rcv.offset \in Nat /\ rcv.result = "running" /\ ~rcv.error
      /\ ~rcv.timer
    BY <1>1 DEF Before, CInv, CalmOffsets, CalmRcv, IInv, RcvOK, Side
<1>3. CASE Size = 0
    <2>1. /\ rcv'.ft = "none" /\ ~rcv'.conn /\ rcv'.result = "done" /\ ~rcv'.error
          /\ ~rcv'.timer /\ rcv'.offset = rcv.offset
        BY <1>1, <1>3, DeletedLeaves DEF Connected
    <2> QED BY <1>1, <2>1, RcvLeft DEF Fine
<1>4. CASE Size # 0
    <2> DEFINE f == rcv.offset = Size
    <2>1. rcv' = [rcv EXCEPT !.ft = "Active", !.done = rcv.offset, !.pos = rcv.offset,
                             !.timer = FALSE, !.finish = f]
        BY <1>1, <1>4 DEF Connected
    <2> HIDE DEF f
    <2>2. /\ rcv'.ft = "Active" /\ rcv'.conn = rcv.conn /\ rcv'.result = rcv.result
          /\ rcv'.offset = rcv.offset /\ rcv'.done = rcv.offset /\ rcv'.sent = rcv.sent
          /\ ~rcv'.timer /\ rcv'.error = rcv.error
        BY <2>1 DEF Before, Side
    <2>3. rcv'.done < Size \/ rcv'.offset = Size
        BY <1>2, <2>2 DEF Before
    <2>4. CalmOffsets' /\ CalmRcv' /\ CalmSnd'
        BY <1>1, <1>2, <2>2, <2>3 DEF Before, CInv, CalmOffsets, CalmRcv, CalmSnd
    <2>5. Base' = Base
        BY <2>2 DEF Base
    <2>6. CalmEnd'
        BY <1>1, <1>2, <2>2, <2>5 DEF Before, CInv, CalmEnd, Fine
    <2> QED BY <2>4, <2>6 DEF CInv
<1> QED BY <1>3, <1>4

LEMMA TrySendAgrees ==
    ASSUME Before, TrySend PROVE CInv'
<1>1. UNCHANGED <<rcv, iq, s5b, wire>>
    BY DEF TrySend
<1>2. CASE snd' = Deleted(snd, "crashed")
    BY <1>1, <1>2, DeletedLeaves, SndFails
<1>3. CASE snd' = [snd EXCEPT !.posted = @ - 1, !.pos = @ + ReadSize,
                              !.out = @ \o Bytes(snd.pos, ReadSize)]
    <2>1. /\ snd'.ft = snd.ft /\ snd'.conn = snd.conn /\ snd'.result = snd.result
          /\ snd'.offset = snd.offset /\ snd'.done = snd.done /\ snd'.sent = snd.sent
          /\ snd'.finish = snd.finish
        <3> DEFINE p == snd.posted - 1
                   q == snd.pos + ReadSize
                   o == snd.out \o Bytes(snd.pos, ReadSize)
        <3>1. snd' = [snd EXCEPT !.posted = p, !.pos = q, !.out = o]
            BY <1>3
        <3> HIDE DEF p, q, o
        <3> QED BY <3>1 DEF Before, Side
    <2> QED BY <1>1, <2>1 DEF Before, CInv, CalmOffsets, CalmRcv, CalmSnd, CalmEnd, Fine, Base
<1> QED BY <1>2, <1>3 DEF TrySend, Before

\* At the last byte the sender is done, and the receiver has the file or finds
\* the rest of it in the stream.
LEMMA BytesWrittenAgrees ==
    ASSUME Before, BytesWritten PROVE CInv'
<1>1. /\ UNCHANGED <<rcv, iq, s5b, part>> /\ s5b = "open" /\ snd.ft = "Active" /\ snd.conn
    BY DEF BytesWritten
<1> DEFINE more(n) == [snd EXCEPT !.sent = @ + n, !.done = @ + n,
                                  !.out = SubSeq(@, n + 1, Len(@))]
           kept(n) == IF more(n).sent = more(n).length THEN Reset(more(n)) ELSE more(n)
<1>2. PICK n \in 1..Len(snd.out) :
        /\ \/ /\ more(n).done = Size \/ Finished(more(n).done)
              /\ snd' = Deleted(snd, "done")
           \/ snd' = [more(n) EXCEPT !.posted = @ + 1]
           \/ snd' = [Reset(more(n)) EXCEPT !.posted = @ + 1]
        /\ wire' = IF rcv.conn THEN wire \o SubSeq(snd.out, 1, n) ELSE wire
    BY DEF BytesWritten
<1> DEFINE c == more(n)
           m == Len(snd.out)
           k == Len(wire)
<1>3. /\ snd.sent \in Nat /\ snd.done \in Nat /\ snd.offset \in Nat /\ snd.pos \in Nat
      /\ snd.out \in Seq(Nat) /\ wire \in Seq(Nat) /\ Size \in Nat
      /\ rcv.offset \in Nat /\ rcv.sent \in Nat
    BY DEF Before, IInv, TypeOK, Side
<1>4. k \in Nat /\ m \in Nat /\ n \in Nat /\ n <= m /\ n > 0 /\ Base \in Nat
    BY <1>3 DEF Base
<1>5. /\ snd.result = "running" /\ snd.done = snd.offset + snd.sent
      /\ snd.pos = snd.offset + snd.sent + m /\ snd.pos <= Size
      /\ rcv.conn => snd.pos = Base + k + m
    BY <1>1 DEF Before, CInv, CalmSnd, IInv, SndOK, Content
<1>6. /\ c \in Side /\ c.done = snd.done + n /\ c.ft = "Active" /\ c.sent = snd.sent + n
      /\ c.offset = snd.offset /\ c.conn /\ c.result = snd.result /\ c.finish = snd.finish
    <2> DEFINE o == SubSeq(snd.out, n + 1, Len(snd.out))
               a == snd.sent + n
               d == snd.done + n
    <2>1. c = [snd EXCEPT !.sent = a, !.done = d, !.out = o]
        OBVIOUS
    <2>2. o \in Seq(Nat) /\ a \in Nat /\ d \in Nat
        <3>1. n \in 0..Len(snd.out)
            BY <1>4
        <3>2. o \in Seq(Nat)
            BY <1>3, <3>1, Cut
        <3>3. snd.sent \in Nat /\ snd.done \in Nat /\ n \in Nat
            BY <1>3, <1>4, Zenon
        <3> QED BY <3>2, <3>3
    <2> HIDE DEF c, o, a, d
    <2>3. /\ c \in Side /\ c.done = d /\ c.ft = snd.ft /\ c.sent = a /\ c.offset = snd.offset
          /\ c.conn = snd.conn /\ c.result = snd.result /\ c.finish = snd.finish
        BY <2>1, <2>2 DEF Before, Side
    <2> QED BY <1>1, <2>3 DEF a, d
<1>7. rcv.conn => Len(wire') = k + n
    <2> DEFINE x == SubSeq(snd.out, 1, n)
    <2>1. x \in Seq(Nat) /\ Len(x) = n
        <3>1. n \in 0..Len(snd.out)
            BY <1>4
        <3> QED BY <1>3, <3>1, Cut
    <2>2. rcv.conn => wire' = wire \o x
        BY <1>2
    <2> HIDE DEF x
    <2>3. Len(wire \o x) = Len(wire) + Len(x)
        BY <1>3, <2>1, Entries
    <2> QED BY <2>1, <2>2, <2>3
<1> HIDE DEF m, k, c
<1>8. ASSUME c.done = Size \/ Finished(c.done), rcv.conn
      PROVE  Base + Len(wire') = Size
    <2>1. /\ snd.offset + snd.sent + m = Base + k + m /\ snd.offset + snd.sent + m <= Size
          /\ c.done = snd.offset + snd.sent + n
        BY <1>5, <1>6, <1>8, Zenon
    <2>2. snd.offset \in Nat /\ snd.sent \in Nat /\ Size \in Nat
        BY <1>3, Zenon
    <2>3. c.done \in 0..Size /\ c.done = Base + (k + n)
        BY <1>4, <2>1, <2>2, SMTT(30)
    <2>4. c.done = Size
        BY <1>3, <1>8, <2>3, FinishedAtEnd
    <2>5. Base + (k + n) = Size
        BY <2>3, <2>4, Zenon
    <2> QED BY <1>7, <1>8, <2>5, Zenon
<1>9. \/ (c.done = Size \/ Finished(c.done)) /\ snd' = Deleted(snd, "done")
      \/ snd' = [c EXCEPT !.posted = @ + 1]
      \/ snd' = [Reset(c) EXCEPT !.posted = @ + 1]
    BY <1>2 DEF c
<1>10. UNCHANGED rcv /\ Base' = Base
    BY <1>1 DEF Base
<1> HIDE DEF more, kept
<1>11. CASE (c.done = Size \/ Finished(c.done)) /\ snd' = Deleted(snd, "done")
    <2>1. /\ snd'.ft = "none" /\ ~snd'.conn /\ snd'.offset = snd.offset /\ ~snd'.finish
          /\ snd'.result = "done"
        BY <1>11, DeletedLeaves
    <2>2. CalmOffsets' /\ CalmRcv' /\ CalmSnd'
        BY <1>1, <2>1 DEF Before, CInv, CalmOffsets, CalmRcv, CalmSnd
    <2>3. CalmEnd'
        BY <1>1, <1>8, <1>10, <1>11, <2>1 DEF Before, CInv, CalmEnd, Fine
    <2> QED BY <2>2, <2>3 DEF CInv
<1>12. CASE snd' = [c EXCEPT !.posted = @ + 1]
    <2>1. /\ snd'.ft = "Active" /\ snd'.conn /\ snd'.offset = snd.offset
          /\ snd'.finish = snd.finish /\ snd'.result = "running"
          /\ snd'.done = snd.done + n /\ snd'.sent = snd.sent + n
        BY <1>5, <1>6, <1>12 DEF Side
    <2>2. snd'.done = snd'.offset + snd'.sent
        BY <1>3, <1>4, <1>5, <2>1
    <2>3. CalmOffsets' /\ CalmRcv' /\ CalmSnd' /\ CalmEnd'
        BY <1>1, <1>10, <2>1, <2>2
           DEF Before, CInv, CalmOffsets, CalmRcv, CalmSnd, CalmEnd, Fine
    <2> QED BY <2>3 DEF CInv
<1>13. CASE snd' = [Reset(c) EXCEPT !.posted = @ + 1]
    <2>1. /\ snd'.ft = "Idle" /\ ~snd'.conn /\ snd'.offset = snd.offset
          /\ snd'.finish = snd.finish /\ snd'.result = "running"
        BY <1>5, <1>6, <1>13 DEF Reset, Side
    <2>2. CalmOffsets' /\ CalmRcv' /\ CalmSnd' /\ CalmEnd'
        BY <1>1, <1>10, <2>1
           DEF Before, CInv, CalmOffsets, CalmRcv, CalmSnd, CalmEnd, Fine
    <2> QED BY <2>2 DEF CInv
<1> QED BY <1>9, <1>11, <1>12, <1>13

\* At the end of the file the bar is at its last step.
LEMMA FinishedThere ==
    ASSUME Size \in Nat \ {0} PROVE Finished(Size)
<1> DEFINE q == Size \div Block
           r == Size % Block
           c == Complement
           steps == TotalSteps
<1>1. q \in Nat /\ r \in 0..Block - 1 /\ Size = Block * q + r /\ Block \in Nat \ {0}
    BY DivMod, SizeAssumption
<1>2. c = (Block - r) % Block
    BY DEF Complement
<1>3. steps = ((Size - 1) \div Block) + 1
    BY DEF TotalSteps
<1> HIDE DEF q, r, c, steps
<1>4. CASE r = 0
    <2>1. Block = Block * 1 + 0
        BY <1>1
    <2>2. Block % Block = 0
        BY <2>1, <1>1, DivModUnique
    <2>3. c = 0
        BY <1>2, <1>4, <2>2, <1>1
    <2>4. q - 1 \in Nat /\ Size = Block * q
        BY <1>1, <1>4
    <2>5. Block * (q - 1) = Block * q - Block
        BY <1>1
    <2>6. Size - 1 = Block * (q - 1) + (Block - 1) /\ Size - 1 \in Nat /\ Block - 1 \in 0..Block - 1
        BY <2>4, <2>5, <1>1
    <2>7. (Size - 1) \div Block = q - 1
        BY <2>6, <2>4, <1>1, DivModUnique
    <2>8. Size + c = Block * q + 0 /\ 0 \in 0..Block - 1 /\ Size + c \in Nat
        BY <1>1, <2>3, <2>4
    <2>9. (Size + c) \div Block = q
        BY <1>1, <2>8, DivModUnique
    <2> QED BY <1>1, <1>3, <2>7, <2>9 DEF Finished, c, steps
<1>5. CASE r # 0
    <2>1. Block - r = Block * 0 + (Block - r) /\ Block - r \in 0..Block - 1 /\ Block - r \in Nat
        BY <1>1, <1>5
    <2>2. c = Block - r
        BY <2>1, <1>1, <1>2, DivModUnique
    <2>3. Size - 1 = Block * q + (r - 1) /\ r - 1 \in 0..Block - 1 /\ Size - 1 \in Nat
        BY <1>1, <1>5
    <2>4. (Size - 1) \div Block = q
        BY <2>3, <1>1, DivModUnique
    <2>5. Block * (q + 1) = Block * q + Block
        BY <1>1
    <2>6. Size + c = Block * (q + 1) + 0 /\ 0 \in 0..Block - 1 /\ Size + c \in Nat /\ q + 1 \in Nat
        BY <1>1, <2>2, <2>5
    <2>7. (Size + c) \div Block = q + 1
        BY <1>1, <2>6, DivModUnique
    <2> QED BY <1>1, <1>3, <2>4, <2>7 DEF Finished, c, steps
<1> QED BY <1>1, <1>4, <1>5

\* The receiver is deleted with its last byte, or takes from the stream what it
\* adds to the part.
LEMMA ReadyReadAgrees ==
    ASSUME Before, ReadyRead PROVE CInv'
<1>1. UNCHANGED <<snd, iq, s5b>> /\ rcv.ft = "Active" /\ rcv.conn
    BY DEF ReadyRead
<1> DEFINE more(n) == [rcv EXCEPT !.sent = @ + Taken(n), !.done = @ + Taken(n),
                                  !.pos = @ + Taken(n)]
<1>2. PICK n \in 1..Len(wire) :
        /\ wire' = SubSeq(wire, n + 1, Len(wire))
        /\ \/ rcv' = Deleted(rcv, "done")
           \/ rcv' = more(n) /\ ~Finished(more(n).done)
           \/ rcv' = Reset(more(n))
    BY DEF ReadyRead, Before
<1> DEFINE t == Taken(n)
           k == Len(wire)
           c == more(n)
<1>3. /\ rcv.sent \in Nat /\ rcv.done \in Nat /\ rcv.pos \in Nat /\ rcv.offset \in Nat
      /\ wire \in Seq(Nat) /\ Size \in Nat /\ k \in Nat /\ n \in Nat /\ n <= k /\ n > 0
    BY DEF Before, IInv, TypeOK, Side
<1>4. /\ rcv.result = "running" /\ rcv.done = Base /\ rcv.length = Size /\ ~rcv.error
      /\ rcv.done < Size \/ rcv.offset = Size
      /\ Base = rcv.offset + rcv.sent /\ Base + k <= Size /\ ~rcv.timer
    BY <1>1 DEF Before, IInv, RcvOK, Content, CInv, CalmRcv, Base
<1>5. t = n
    BY <1>3, <1>4 DEF Taken
<1>6. Len(wire') = k - n
    <2>1. n \in 0..Len(wire)
        BY <1>3
    <2> QED BY <1>2, <1>3, <2>1, Cut
<1>7. /\ c \in Side /\ c.ft = "Active" /\ c.conn /\ c.offset = rcv.offset
      /\ c.sent = rcv.sent + n /\ c.done = rcv.done + n /\ c.result = "running" /\ ~c.error
      /\ ~c.timer
    <2> DEFINE a == rcv.sent + t
               d == rcv.done + t
               p == rcv.pos + t
    <2>1. c = [rcv EXCEPT !.sent = a, !.done = d, !.pos = p]
        OBVIOUS
    <2>2. a \in Nat /\ d \in Nat /\ p \in Nat /\ a = rcv.sent + n /\ d = rcv.done + n
        BY <1>3, <1>5, SMTT(30)
    <2> HIDE DEF a, d, p, c
    <2>3. /\ c \in Side /\ c.ft = rcv.ft /\ c.conn = rcv.conn /\ c.offset = rcv.offset
          /\ c.sent = a /\ c.done = d /\ c.result = rcv.result /\ c.error = rcv.error
          /\ c.timer = rcv.timer
        BY <2>1, <2>2 DEF Before, Side
    <2> QED BY <1>1, <1>4, <2>2, <2>3
<1>8. rcv' = Deleted(rcv, "done") \/ (rcv' = c /\ ~Finished(c.done)) \/ rcv' = Reset(c)
    BY <1>2
<1> HIDE DEF c, more, t, k
<1>9. CASE rcv' = Deleted(rcv, "done")
    BY <1>1, <1>9, DeletedLeaves, RcvLeft DEF Fine
<1>10. CASE rcv' = Reset(c)
    <2>1. /\ rcv'.ft = "Idle" /\ ~rcv'.conn /\ rcv'.offset = rcv.offset
          /\ rcv'.result = "running" /\ ~rcv'.error /\ ~rcv'.timer
        BY <1>7, <1>10 DEF Reset, Side
    <2> QED BY <1>1, <2>1, RcvLeft DEF Fine
<1>11. CASE rcv' = c /\ ~Finished(c.done)
    <2>1. Base' = Base + n
        BY <1>3, <1>4, <1>7, <1>11 DEF Base
    <2>2. Base' + Len(wire') = Base + Len(wire)
        BY <1>3, <1>4, <1>6, <2>1 DEF k
    <2>3. rcv'.done < Size
        <3>1. c.done <= Size /\ c.done > 0
            BY <1>3, <1>4, <1>7, SMTT(30)
        <3>2. c.done # Size
            BY <1>3, <1>11, <3>1, FinishedThere
        <3>3. rcv'.done = rcv.done + n
            BY <1>7, <1>11
        <3>4. c.done = rcv.done + n /\ rcv.done \in Nat /\ n \in Nat /\ Size \in Nat
            BY <1>3, <1>7, Zenon
        <3> QED BY <3>1, <3>2, <3>3, <3>4
    <2>4. CalmOffsets' /\ CalmRcv' /\ CalmSnd'
        BY <1>1, <1>7, <1>11, <2>3 DEF Before, CInv, CalmOffsets, CalmRcv, CalmSnd
    <2>5. CalmEnd'
        BY <1>1, <1>7, <1>11, <2>2 DEF Before, CInv, CalmEnd, Fine
    <2> QED BY <2>4, <2>5 DEF CInv
<1> QED BY <1>8, <1>9, <1>10, <1>11

\* Every step keeps the invariant of the calm.
LEMMA CalmNext ==
    ASSUME IInv, AInv, [Next]_vars PROVE AInv'
<1>1. SUFFICES ASSUME Calm' PROVE CInv'
    BY DEF AInv, CInv
<1>2. Before
    BY <1>1, BeforeStep
<1>3. CASE UNCHANGED vars
    BY <1>2, <1>3
       DEF Before, vars, CInv, CalmOffsets, CalmRcv, CalmSnd, CalmEnd, Fine, Base
<1>4. CASE User
    BY <1>2, <1>4, SendFileAgrees, AcceptAgrees, RcvLeavesAgrees
       DEF User, SndCancel, RcvCancel, Before
<1>5. CASE Sender
    BY <1>2, <1>5, FtFinishedAgrees, SndFailsAgrees, SndConnectedAgrees, TrySendAgrees,
       BytesWrittenAgrees, SndDoFinishAgrees DEF Sender
<1>6. CASE Receiver
    BY <1>2, <1>6, PftIncomingAgrees, S5bIncomingReadyAgrees, NegotiationAgrees,
       RcvConnectedAgrees, ReadyReadAgrees, RcvLeavesAgrees DEF Receiver
<1>7. CASE Bytestream
    BY <1>2, <1>7, NegotiationAgrees DEF Bytestream, StreamBreaks, Before
<1> QED BY <1>3, <1>4, <1>5, <1>6, <1>7 DEF Next

\* While nobody cancels and nothing fails, a sender that reports the end leaves a
\* receiver that has the file, or is still to read the rest of it, and reports no
\* error (FileTransferHandler::ft_bytesWritten, FileTransfer::s5b_connectionClosed);
\* the close overtakes doFinish only when the part was whole from the start.
THEOREM Agreement == Spec => []AgreeUnlessInterrupted
<1>1. Init => AInv
    <2>1. SUFFICES ASSUME Init PROVE CalmOffsets /\ CalmRcv /\ CalmSnd /\ CalmEnd
        BY DEF AInv
    <2>2. Size \in Nat
        BY <2>1, InitInv, SizeNat DEF IInv
    <2> QED BY <2>1, <2>2 DEF Init, NewSide, None, CalmOffsets, CalmRcv, CalmSnd, CalmEnd
<1>2. AInv => AgreeUnlessInterrupted
    BY DEF AInv, Calm, CalmSnd, CalmEnd, Fine, AgreeUnlessInterrupted
<1> QED BY <1>1, <1>2, Invariant, CalmNext, PTL DEF Spec
=============================================================================
