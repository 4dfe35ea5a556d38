-------------------------- MODULE RingBuffer_proofs --------------------------
(***************************************************************************)
(* Proofs about RingBuffer, for any size of the memory, any blocks and any *)
(* number of samples: the accesses stay inside, and the ring buffer        *)
(* implements a queue.                                                     *)
(***************************************************************************)
EXTENDS RingBuffer, TLAPS

\* The thread inside its locked section holds the mutex, and no other.
Exclusive ==
    /\ wpc # "idle" <=> mutex = "writer"
    /\ rpc # "idle" <=> mutex = "reader"

\* What is stored was put, and lies inside the memory.
Filled ==
    /\ curIndex + size <= ringSize
    /\ \A i \in curIndex..curIndex + size - 1 : mem[i] \in Sample

\* The writer has a block until it is copied, and then there is room for it.
Writing ==
    /\ wpc \in {"idle", "unlock"} => newData = <<>>
    /\ wpc = "copy" => curIndex + size + Len(newData) <= ringSize

\* What the reader found out is still so, and what it copied is what is stored.
Reading ==
    /\ rpc \in {"read", "fetch"} => ptr = curIndex /\ want \in 1..size
    /\ rpc = "fetch" => temp = [i \in 1..want |-> mem[curIndex + i - 1]]

IInv == TypeOK /\ Exclusive /\ Filled /\ Writing /\ Reading

\* Neither thread takes more than what is stored.
LEMMA WantedIsStored ==
    ASSUME NEW n \in Nat
    PROVE  FramesOf(n) \in 0..n /\ Playable(n) \in 0..n
<1>1. n % FrameSize \in 0..FrameSize - 1 /\ n % FrameSize <= n
  BY SizeAssumption
<1>2. FramesOf(n) \in 0..n
  BY <1>1, SizeAssumption DEF FramesOf
<1>3. Playable(n) \in 0..n
  BY SizeAssumption DEF Playable
<1> QED
  BY <1>2, <1>3

\* A new buffer is empty and nobody uses it.
LEMMA InitIInv == Init => IInv
<1> SUFFICES ASSUME Init PROVE IInv
  OBVIOUS
<1>1. TypeOK
  <2>1. mem \in [0..ringSize - 1 -> Sample \cup {Unset}]
    BY SizeAssumption DEF Init
  <2>2. <<>> \in Seq(Sample)
    OBVIOUS
  <2> QED
    BY <2>1, <2>2, SizeAssumption DEF Init, TypeOK
<1> QED
  BY <1>1, SizeAssumption DEF Init, IInv, Exclusive, Filled, Writing, Reading

\* The writer's steps: put() is entered, and every step of it.
LEMMA WriterIInv == IInv /\ (PutLock \/ PutNothing \/ InPut) => IInv'
<1> SUFFICES ASSUME IInv, PutLock \/ PutNothing \/ InPut PROVE IInv'
  OBVIOUS
<1> USE DEF buffer, writer, reader
<1>1. CASE PutLock
  <2>1. newData' \in Seq(Sample)
    BY <1>1, BlocksAssumption DEF PutLock
  <2>2. UNCHANGED <<buffer, reader>> /\ wpc' = "grow" /\ mutex' = "writer" /\ mutex = "free"
    BY <1>1 DEF PutLock
  <2>3. TypeOK'
    BY <2>1, <2>2 DEF IInv, TypeOK
  <2> QED
    BY <2>2, <2>3 DEF IInv, Exclusive, Filled, Writing, Reading
<1>2. CASE PutNothing
  BY <1>2 DEF PutNothing, IInv, TypeOK, Exclusive, Filled, Writing, Reading
<1>3. CASE Grow
  <2>1. /\ ringSize' \in Nat \ {0} /\ ringSize < ringSize'
        /\ mem' = [i \in 0..ringSize' - 1 |-> IF i < ringSize THEN mem[i] ELSE Unset]
    BY <1>3 DEF Grow, IInv, TypeOK
  <2>2. mem' \in [0..ringSize' - 1 -> Sample \cup {Unset}]
    <3>1. ASSUME NEW i \in 0..ringSize' - 1
          PROVE  (IF i < ringSize THEN mem[i] ELSE Unset) \in Sample \cup {Unset}
      <4>1. i < ringSize => i \in 0..ringSize - 1
        BY <2>1 DEF IInv, TypeOK
      <4> QED
        BY <4>1 DEF IInv, TypeOK
    <3> QED
      BY <2>1, <3>1
  <2>3. Filled'
    BY <1>3, <2>1 DEF Grow, IInv, TypeOK, Filled
  <2>4. TypeOK' /\ Exclusive' /\ Writing' /\ Reading'
    BY <1>3, <2>1, <2>2 DEF Grow, IInv, TypeOK, Exclusive, Writing, Reading
  <2> QED
    BY <2>3, <2>4 DEF IInv
<1>4. CASE Compact
  <2>1. CASE size + curIndex + Len(newData) > ringSize
    <3>1. curIndex' = 0
      BY <1>4, <2>1 DEF Compact
    <3>2. mem' = [i \in 0..ringSize - 1 |->
                   IF i < size THEN mem[curIndex + i] ELSE mem[i]]
      BY <1>4, <2>1 DEF Compact, IInv, TypeOK
    <3>3. \A i \in 0..size - 1 : curIndex + i \in 0..ringSize - 1
      BY DEF IInv, TypeOK, Filled
    <3>4. mem' \in [0..ringSize - 1 -> Sample \cup {Unset}]
      <4>1. ASSUME NEW i \in 0..ringSize - 1
            PROVE  (IF i < size THEN mem[curIndex + i] ELSE mem[i]) \in Sample \cup {Unset}
        <5>1. i < size => curIndex + i \in 0..ringSize - 1
          BY <3>3 DEF IInv, TypeOK
        <5> QED
          BY <5>1 DEF IInv, TypeOK
      <4> QED
        BY <3>2, <4>1
    <3>5. \A i \in 0..size - 1 : mem'[i] \in Sample
      BY <3>2 DEF IInv, TypeOK, Filled
    <3>6. TypeOK'
      BY <1>4, <3>1, <3>4 DEF Compact, IInv, TypeOK
    <3>7. Filled'
      BY <1>4, <3>1, <3>5 DEF Compact, IInv, TypeOK, Filled
    <3>8. Exclusive' /\ Writing' /\ Reading'
      BY <1>4, <3>1 DEF Compact, IInv, TypeOK, Exclusive, Writing, Reading
    <3> QED
      BY <3>6, <3>7, <3>8 DEF IInv
  <2>2. CASE ~(size + curIndex + Len(newData) > ringSize)
    BY <1>4, <2>2 DEF Compact, IInv, TypeOK, Exclusive, Filled, Writing, Reading
  <2> QED
    BY <2>1, <2>2
<1>5. CASE Copy
  <2> DEFINE end == curIndex + size
  <2>1. mem' = [i \in 0..ringSize - 1 |-> IF i \in end..end + Len(newData) - 1
                                           THEN newData[i - end + 1] ELSE mem[i]]
    BY <1>5 DEF Copy, IInv, TypeOK
  <2>2. \A i \in end..end + Len(newData) - 1 : newData[i - end + 1] \in Sample
    BY DEF IInv, TypeOK
  <2>3. mem' \in [0..ringSize - 1 -> Sample \cup {Unset}]
    BY <2>1, <2>2 DEF IInv, TypeOK
  <2>4. size' = size + Len(newData) /\ curIndex' = curIndex /\ ringSize' = ringSize
    BY <1>5 DEF Copy
  <2>5. \A i \in curIndex..end + Len(newData) - 1 : mem'[i] \in Sample
    <3> SUFFICES ASSUME NEW i \in curIndex..end + Len(newData) - 1 PROVE mem'[i] \in Sample
      OBVIOUS
    <3>1. i \in 0..ringSize - 1
      BY <1>5 DEF Copy, IInv, TypeOK, Writing
    <3>2. CASE i < end
      BY <2>1, <3>1, <3>2 DEF IInv, TypeOK, Filled
    <3>3. CASE i >= end
      BY <2>1, <2>2, <3>1, <3>3 DEF IInv, TypeOK
    <3>4. i < end \/ i >= end
      BY <3>1 DEF IInv, TypeOK
    <3> QED
      BY <3>2, <3>3, <3>4
  <2>6. Filled'
    BY <1>5, <2>4, <2>5 DEF Copy, IInv, TypeOK, Filled, Writing
  <2>7. TypeOK'
    BY <1>5, <2>3, <2>4 DEF Copy, IInv, TypeOK
  <2>8. Exclusive' /\ Writing' /\ Reading'
    BY <1>5 DEF Copy, IInv, Exclusive, Writing, Reading
  <2> QED
    BY <2>6, <2>7, <2>8 DEF IInv
<1>6. CASE PutUnlock
  BY <1>6 DEF PutUnlock, IInv, TypeOK, Exclusive, Filled, Writing, Reading
<1> QED
  BY <1>1, <1>2, <1>3, <1>4, <1>5, <1>6 DEF InPut

\* The reader's steps.
LEMMA ReaderIInv == IInv /\ (TakeLock \/ Look \/ Read \/ Fetch \/ TakeUnlock) => IInv'
<1> SUFFICES ASSUME IInv, TakeLock \/ Look \/ Read \/ Fetch \/ TakeUnlock PROVE IInv'
  OBVIOUS
<1> USE DEF buffer, writer, reader
<1>1. CASE TakeLock
  BY <1>1 DEF TakeLock, IInv, TypeOK, Exclusive, Filled, Writing, Reading
<1>2. CASE Look
  <2>1. want' \in 0..size
    BY <1>2, WantedIsStored DEF Look, IInv, TypeOK
  <2> QED
    BY <1>2, <2>1 DEF Look, IInv, TypeOK, Exclusive, Filled, Writing, Reading
<1>3. CASE Read
  <2>1. \A i \in 1..want : mem[curIndex + i - 1] \in Sample
    BY <1>3 DEF Read, IInv, TypeOK, Filled, Reading
  <2>2. temp' = [i \in 1..want |-> mem[curIndex + i - 1]]
    BY <1>3 DEF Read, IInv, Reading
  <2>3. temp' \in Seq(Sample)
    BY <2>1, <2>2 DEF IInv, TypeOK
  <2> QED
    BY <1>3, <2>2, <2>3 DEF Read, IInv, TypeOK, Exclusive, Filled, Writing, Reading
<1>4. CASE Fetch
  <2>1. size' = size - want /\ size' \in Nat
    BY <1>4 DEF Fetch, IInv, TypeOK, Reading
  <2>2. curIndex' \in Nat /\ (size' # 0 => curIndex' = curIndex + want)
    BY <1>4 DEF Fetch, IInv, TypeOK
  <2>3. Filled'
    BY <1>4, <2>1, <2>2 DEF Fetch, IInv, TypeOK, Filled, Reading
  <2> QED
    BY <1>4, <2>1, <2>2, <2>3 DEF Fetch, IInv, TypeOK, Exclusive, Writing, Reading
<1>5. CASE TakeUnlock
  BY <1>5 DEF TakeUnlock, IInv, TypeOK, Exclusive, Filled, Writing, Reading
<1> QED
  BY <1>1, <1>2, <1>3, <1>4, <1>5

\* The inductive invariant holds in every behaviour.
THEOREM Invariance == Spec => []IInv
<1>1. IInv /\ UNCHANGED vars => IInv'
  BY DEF vars, buffer, writer, reader, IInv, TypeOK, Exclusive, Filled, Writing, Reading
<1>2. IInv /\ [Next]_vars => IInv'
  BY <1>1, WriterIInv, ReaderIInv DEF Next
<1> QED
  BY <1>2, InitIInv, PTL DEF Spec

\* The fields of the buffer and the locals of both threads keep their types.
THEOREM TypeCorrect == Spec => []TypeOK
<1>1. IInv => TypeOK
  BY DEF IInv
<1> QED
  BY <1>1, Invariance, PTL

\* memcpy and memmove of put() and of the two readers stay inside the memory,
\* and inside what is stored, whatever the other thread does.
THEOREM AccessesStayInside == Spec => []AccessesInside
<1>1. IInv => AccessesInside
  BY DEF IInv, TypeOK, Filled, Writing, Reading, AccessesInside
<1> QED
  BY <1>1, Invariance, PTL

\* A sequence is the function of its elements.
LEMMA SequenceIsFunction ==
    ASSUME NEW S, NEW s \in Seq(S)
    PROVE  s = [i \in 1..Len(s) |-> s[i]]
  OBVIOUS

\* The samples in the memory, as a sequence.
LEMMA StoredIsQueue ==
    ASSUME IInv
    PROVE  Stored \in Seq(Sample) /\ Len(Stored) = size
<1>1. \A i \in 1..size : mem[curIndex + i - 1] \in Sample
  BY DEF IInv, TypeOK, Filled
<1> QED
  BY <1>1 DEF Stored, IInv, TypeOK

\* Doubling the memory, and moving the samples to its front, is not seen.
LEMMA RoomIsNotSeen ==
    ASSUME IInv, Grow \/ Compact
    PROVE  Stored' = Stored
<1>1. size' = size
  BY DEF Grow, Compact
<1>2. ASSUME NEW i \in 1..size PROVE mem'[curIndex' + i - 1] = mem[curIndex + i - 1]
  <2>1. i - 1 \in 0..size - 1 /\ curIndex + i - 1 \in 0..ringSize - 1
    BY DEF IInv, TypeOK, Filled
  <2>2. CASE Grow
    <3>1. mem' = [j \in 0..2 * ringSize - 1 |-> IF j < ringSize THEN mem[j] ELSE Unset]
      BY <2>2 DEF Grow
    <3>2. curIndex' = curIndex /\ curIndex + i - 1 \in 0..2 * ringSize - 1
      BY <2>1, <2>2 DEF Grow, IInv, TypeOK
    <3>3. ASSUME NEW j \in 0..ringSize - 1, j \in 0..2 * ringSize - 1 PROVE mem'[j] = mem[j]
      BY <3>1, <3>3 DEF IInv, TypeOK
    <3> QED
      BY <2>1, <3>2, <3>3
  <2>3. CASE Compact /\ size + curIndex + Len(newData) > ringSize
    <3>1. curIndex' = 0 /\ mem' = [j \in 0..ringSize - 1 |->
                                    IF j < size THEN mem[curIndex + j] ELSE mem[j]]
      BY <2>3 DEF Compact, IInv, TypeOK
    <3>2. i - 1 \in 0..ringSize - 1 /\ i - 1 < size
      BY <2>1 DEF IInv, TypeOK, Filled
    <3>3. mem'[i - 1] = mem[curIndex + (i - 1)]
      BY <3>1, <3>2
    <3>4. curIndex + (i - 1) = curIndex + i - 1 /\ curIndex' + i - 1 = i - 1
      BY <3>1 DEF IInv, TypeOK
    <3> QED
      BY <3>3, <3>4
  <2>4. CASE Compact /\ ~(size + curIndex + Len(newData) > ringSize)
    BY <2>4 DEF Compact
  <2> QED
    BY <2>2, <2>3, <2>4
<1> QED
  BY <1>1, <1>2 DEF Stored

\* Copying the block appends it.
LEMMA CopyAppends ==
    ASSUME IInv, Copy
    PROVE  Stored' = Stored \o newData
<1> DEFINE end == curIndex + size
<1>1. mem' = [i \in 0..ringSize - 1 |-> IF i \in end..end + Len(newData) - 1
                                         THEN newData[i - end + 1] ELSE mem[i]]
  BY DEF Copy, IInv, TypeOK
<1>2. size' = size + Len(newData) /\ curIndex' = curIndex
  BY DEF Copy
<1>3. newData \in Seq(Sample) /\ Len(newData) \in Nat
  BY DEF IInv, TypeOK
<1>4. Stored \in Seq(Sample) /\ Len(Stored) = size
  BY StoredIsQueue
<1>5. ASSUME NEW i \in 1..size + Len(newData)
      PROVE  mem'[curIndex + i - 1] = (Stored \o newData)[i]
  <2>1. curIndex + i - 1 \in 0..ringSize - 1
    BY <1>3 DEF Copy, IInv, TypeOK, Writing
  <2>2. CASE i <= size
    <3>1. ~(curIndex + i - 1 \in end..end + Len(newData) - 1)
      BY <1>3, <2>2 DEF IInv, TypeOK
    <3>2. mem'[curIndex + i - 1] = mem[curIndex + i - 1]
      BY <1>1, <2>1, <3>1
    <3>3. (Stored \o newData)[i] = Stored[i]
      BY <1>3, <1>4, <2>2
    <3>4. i \in 1..size
      BY <2>2 DEF IInv, TypeOK
    <3>5. Stored[i] = mem[curIndex + i - 1]
      BY <3>4 DEF Stored
    <3> QED
      BY <3>2, <3>3, <3>5
  <2>3. CASE i > size
    <3>1. curIndex + i - 1 \in end..end + Len(newData) - 1
      BY <1>3, <2>3 DEF IInv, TypeOK
    <3>2. \A j \in 0..ringSize - 1 : j \in end..end + Len(newData) - 1 =>
                                        mem'[j] = newData[j - end + 1]
      BY <1>1
    <3>3. curIndex + i - 1 - end + 1 = i - size
      BY DEF IInv, TypeOK
    <3>4. (Stored \o newData)[i] = newData[i - size]
      BY <1>3, <1>4, <2>3
    <3> DEFINE j == curIndex + i - 1
    <3>5. j \in 0..ringSize - 1 /\ j \in end..end + Len(newData) - 1 /\ j - end + 1 = i - size
      BY <2>1, <3>1, <3>3 DEF IInv, TypeOK
    <3> HIDE DEF j, end
    <3>6. mem'[j] = newData[j - end + 1]
      BY <3>2, <3>5
    <3>7. mem'[j] = newData[i - size]
      BY <3>5, <3>6
    <3> QED
      BY <3>4, <3>7 DEF j
  <2>4. i <= size \/ i > size
    BY <1>3 DEF IInv, TypeOK
  <2> QED
    BY <2>2, <2>3, <2>4
<1> HIDE DEF end
<1>6. Stored' = [i \in 1..size + Len(newData) |-> mem'[curIndex + i - 1]]
  BY <1>2 DEF Stored
<1>7. Stored \o newData = [i \in 1..size + Len(newData) |-> (Stored \o newData)[i]]
  <2>1. Stored \o newData \in Seq(Sample) /\ Len(Stored \o newData) = size + Len(newData)
    BY <1>3, <1>4
  <2> QED
    BY <2>1, SequenceIsFunction
<1> QED
  BY <1>5, <1>6, <1>7

\* Fetching takes what the reader copied from the front of the queue.
LEMMA FetchTakes ==
    ASSUME IInv, Fetch
    PROVE  /\ want \in 1..Len(Stored)
           /\ temp = SubSeq(Stored, 1, want)
           /\ Stored' = SubSeq(Stored, want + 1, Len(Stored))
<1>1. want \in 1..size /\ temp = [i \in 1..want |-> mem[curIndex + i - 1]]
  BY DEF Fetch, IInv, Reading
<1>2. Stored \in Seq(Sample) /\ Len(Stored) = size
  BY StoredIsQueue
<1>3. size' = size - want /\ mem' = mem /\ size \in Nat /\ curIndex \in Nat
  BY <1>1 DEF Fetch, IInv, TypeOK
<1>4. size' # 0 => curIndex' = curIndex + want
  BY DEF Fetch
<1>5. temp = SubSeq(Stored, 1, want)
  <2>1. SubSeq(Stored, 1, want) = [i \in 1..want |-> Stored[i]]
    BY <1>1, <1>2, <1>3
  <2>2. \A i \in 1..want : Stored[i] = mem[curIndex + i - 1]
    BY <1>1, <1>3 DEF Stored
  <2> QED
    BY <1>1, <2>1, <2>2
<1>6. Stored' = SubSeq(Stored, want + 1, Len(Stored))
  <2>1. SubSeq(Stored, want + 1, Len(Stored)) = [i \in 1..size - want |-> Stored[i + want]]
    BY <1>1, <1>2, <1>3
  <2>2. Stored' = [i \in 1..size - want |-> mem[curIndex' + i - 1]]
    BY <1>3 DEF Stored
  <2>3. ASSUME NEW i \in 1..size - want PROVE mem[curIndex' + i - 1] = Stored[i + want]
    <3>1. curIndex' + i - 1 = curIndex + (i + want) - 1 /\ i + want \in 1..size
      BY <1>1, <1>3, <1>4
    <3>2. Stored[i + want] = mem[curIndex + (i + want) - 1]
      BY <3>1 DEF Stored
    <3> QED
      BY <3>1, <3>2
  <2> QED
    BY <2>1, <2>2, <2>3
<1> QED
  BY <1>1, <1>2, <1>5, <1>6

\* A step that leaves the buffer alone leaves the queue alone.
LEMMA SameBuffer ==
    ASSUME UNCHANGED buffer
    PROVE  Stored' = Stored
  BY DEF buffer, Stored

\* The ring buffer implements a queue: what is put is taken once, whole and in
\* order, however put() doubles or moves the memory between two fetches.
THEOREM ImplementsQueue == Spec => Queue
<1>1. Init => Abstract!Init
  BY DEF Init, Abstract!Init, Stored
<1>2. IInv /\ [Next]_vars => [Abstract!Next]_(Abstract!vars)
  <2> SUFFICES ASSUME IInv, [Next]_vars PROVE [Abstract!Next]_(Abstract!vars)
    OBVIOUS
  <2> USE DEF writer, reader
  <2>1. CASE PutLock
    <3>1. newData = <<>> /\ newData' \in Seq(Sample) /\ UNCHANGED <<buffer, out>>
      BY <2>1, BlocksAssumption DEF PutLock, IInv, TypeOK, Writing
    <3> QED
      BY <3>1, SameBuffer DEF Abstract!Next, Abstract!Offer
  <2>2. CASE PutNothing \/ PutUnlock \/ TakeLock \/ Look \/ Read \/ TakeUnlock
    <3>1. UNCHANGED <<buffer, newData, out>>
      BY <2>2 DEF PutNothing, PutUnlock, TakeLock, Look, Read, TakeUnlock
    <3> QED
      BY <3>1, SameBuffer DEF Abstract!vars
  <2>3. CASE Grow \/ Compact
    <3>1. UNCHANGED <<newData, out>>
      BY <2>3 DEF Grow, Compact
    <3> QED
      BY <2>3, <3>1, RoomIsNotSeen DEF Abstract!vars
  <2>4. CASE Copy
    <3>1. newData' = <<>> /\ UNCHANGED out
      BY <2>4 DEF Copy
    <3> QED
      BY <2>4, <3>1, CopyAppends DEF Abstract!Next, Abstract!Put
  <2>5. CASE Fetch
    <3>1. out' = temp /\ UNCHANGED newData
      BY <2>5 DEF Fetch
    <3> QED
      BY <2>5, <3>1, FetchTakes DEF Abstract!Next, Abstract!Take
  <2>6. CASE UNCHANGED vars
    BY <2>6, SameBuffer DEF vars, Abstract!vars
  <2> QED
    BY <2>1, <2>2, <2>3, <2>4, <2>5, <2>6 DEF Next, InPut
<1> QED
  BY <1>1, <1>2, Invariance, PTL DEF Spec, Queue, Abstract!Spec

==============================================================================
