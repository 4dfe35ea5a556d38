----------------------------- MODULE RingBuffer -----------------------------
(***************************************************************************)
(* The buffer between the audio callback and the media thread              *)
(* (voip/ringbuffer.cpp), with one thread that puts and one that takes, as *)
(* MediaStream uses its microphone and its speaker buffer.  The threads    *)
(* share the four fields of RingBuffer::Private; every step of put() and   *)
(* of the code around fetch() is an action, so that what the mutex keeps   *)
(* apart is seen.                                                          *)
(*                                                                         *)
(* The unit is a sample: MediaStream puts and takes whole ones.            *)
(***************************************************************************)
EXTENDS Naturals, Sequences

CONSTANTS
    Sample,         \* values of a sample
    Unset,          \* what malloc and realloc leave in new memory
    Blocks,         \* the blocks put() is called with
    DefaultSize,    \* argument of the constructor
    FrameSize,      \* the media thread takes a multiple of this
    Chunk,          \* the audio callback takes at most this
    MaxStored       \* bound: samples stored

ASSUME BlocksAssumption == Blocks \subseteq Seq(Sample) \ {<<>>}
ASSUME SizeAssumption ==
    /\ DefaultSize \in Nat \ {0}
    /\ FrameSize \in Nat \ {0}
    /\ Chunk \in Nat \ {0}
    /\ MaxStored \in Nat

VARIABLES
    ringSize, mem, curIndex, size,  \* RingBuffer::Private
    mutex,      \* who holds the mutex
    wpc,        \* where the writer is in put(), or "idle"
    newData,    \* the argument of put(), until it is stored
    rpc,        \* where the reader is between lock() and unlock(), or "idle"
    ptr,        \* what data() returned to the reader
    want,       \* how much the reader decided to take
    temp,       \* what the reader copied
    out         \* the last block the reader took

buffer == <<ringSize, mem, curIndex, size>>
writer == <<wpc, newData>>
reader == <<rpc, ptr, want, temp, out>>
vars == <<buffer, mutex, writer, reader>>

Init ==
    /\ ringSize = DefaultSize
    /\ mem = [i \in 0..DefaultSize - 1 |-> Unset]
    /\ curIndex = 0
    /\ size = 0
    /\ mutex = "free"
    /\ wpc = "idle" /\ newData = <<>>
    /\ rpc = "idle" /\ ptr = 0 /\ want = 0 /\ temp = <<>> /\ out = <<>>

----------------------------------------------------------------------------
(* The writer.                                                             *)

\* lock(), and put() is called with a block.
PutLock ==
    /\ wpc = "idle" /\ mutex = "free"
    /\ \E s \in Blocks :
        /\ size + Len(s) <= MaxStored
        /\ newData' = s
    /\ mutex' = "writer"
    /\ wpc' = "grow"
    /\ UNCHANGED <<buffer, reader>>

\* lock(), and put() returns at once: the callback has no input.
PutNothing ==
    /\ wpc = "idle" /\ mutex = "free"
    /\ mutex' = "writer"
    /\ wpc' = "unlock"
    /\ UNCHANGED <<buffer, newData, reader>>

\* One turn of the loop that doubles the memory.
Grow ==
    /\ wpc = "grow" /\ size + Len(newData) > ringSize
    /\ ringSize' = 2 * ringSize
    /\ mem' = [i \in 0..2 * ringSize - 1 |-> IF i < ringSize THEN mem[i] ELSE Unset]
    /\ UNCHANGED <<curIndex, size, mutex, writer, reader>>

\* Seeded fault: the index is forgotten when the end of the memory is near.
CompactLate ==
    /\ wpc = "grow" /\ size + Len(newData) <= ringSize
    /\ IF size + Len(newData) > ringSize
       THEN /\ mem' = [i \in DOMAIN mem |->
                        IF i < size THEN mem[curIndex + i] ELSE mem[i]]
            /\ curIndex' = 0
       ELSE UNCHANGED <<mem, curIndex>>
    /\ wpc' = "copy"
    /\ UNCHANGED <<ringSize, size, mutex, newData, reader>>
\* The samples are moved to the front when the block does not fit behind them.
Compact ==
    /\ wpc = "grow" /\ size + Len(newData) <= ringSize
    /\ IF size + curIndex + Len(newData) > ringSize
       THEN /\ mem' = [i \in DOMAIN mem |->
                        IF i < size THEN mem[curIndex + i] ELSE mem[i]]
            /\ curIndex' = 0
       ELSE UNCHANGED <<mem, curIndex>>
    /\ wpc' = "copy"
    /\ UNCHANGED <<ringSize, size, mutex, newData, reader>>

\* memcpy behind what is stored.
Copy ==
    /\ wpc = "copy"
    /\ LET end == curIndex + size
       IN mem' = [i \in DOMAIN mem |->
                   IF i \in end..end + Len(newData) - 1
                   THEN newData[i - end + 1] ELSE mem[i]]
    /\ size' = size + Len(newData)
    /\ newData' = <<>>
    /\ wpc' = "unlock"
    /\ UNCHANGED <<ringSize, curIndex, mutex, reader>>

PutUnlock ==
    /\ wpc = "unlock"
    /\ wpc' = "idle"
    /\ mutex' = "free"
    /\ UNCHANGED <<buffer, newData, reader>>

InPut == Grow \/ Compact \/ Copy \/ PutUnlock

----------------------------------------------------------------------------
(* The reader.                                                             *)

\* The media thread takes whole frames, the callback what it can play.
FramesOf(n) == n - (n % FrameSize)
Playable(n) == IF n < Chunk THEN n ELSE Chunk

\* Seeded fault: the reader does not lock.
TakeUnlocked ==
    /\ rpc = "idle"
    /\ rpc' = "look"
    /\ UNCHANGED <<buffer, mutex, writer, ptr, want, temp, out>>
TakeLock ==
    /\ rpc = "idle" /\ mutex = "free"
    /\ mutex' = "reader"
    /\ rpc' = "look"
    /\ UNCHANGED <<buffer, writer, ptr, want, temp, out>>

\* size() decides how much is taken, data() where it is.
Look ==
    /\ rpc = "look"
    /\ want' \in {FramesOf(size), Playable(size)}
    /\ ptr' = curIndex
    /\ rpc' = IF want' = 0 THEN "unlock" ELSE "read"
    /\ UNCHANGED <<buffer, mutex, writer, temp, out>>

\* memcpy from data().
Read ==
    /\ rpc = "read"
    /\ temp' = [i \in 1..want |-> mem[ptr + i - 1]]
    /\ rpc' = "fetch"
    /\ UNCHANGED <<buffer, mutex, writer, ptr, want, out>>

\* Seeded fault: the index goes back to the front with samples still stored.
FetchRewinds ==
    /\ rpc = "fetch"
    /\ size' = IF want > size THEN 0 ELSE size - want
    /\ curIndex' = 0
    /\ out' = temp
    /\ rpc' = "unlock"
    /\ UNCHANGED <<ringSize, mem, mutex, writer, ptr, want, temp>>
Fetch ==
    /\ rpc = "fetch"
    /\ size' = IF want > size THEN 0 ELSE size - want
    /\ curIndex' = IF size' = 0 THEN 0 ELSE curIndex + want
    /\ out' = temp
    /\ rpc' = "unlock"
    /\ UNCHANGED <<ringSize, mem, mutex, writer, ptr, want, temp>>

TakeUnlock ==
    /\ rpc = "unlock"
    /\ rpc' = "idle"
    /\ mutex' = "free"
    /\ UNCHANGED <<buffer, writer, ptr, want, temp, out>>

----------------------------------------------------------------------------
Next ==
    \/ PutLock \/ PutNothing \/ InPut
    \/ TakeLock \/ Look \/ Read \/ Fetch \/ TakeUnlock

\* A thread that entered put() runs on; nothing obliges anybody to enter.
Spec == Init /\ [][Next]_vars /\ WF_vars(InPut)

----------------------------------------------------------------------------
(* Properties.                                                             *)

TypeOK ==
    /\ ringSize \in Nat \ {0}
    /\ mem \in [0..ringSize - 1 -> Sample \cup {Unset}]
    /\ curIndex \in Nat /\ size \in Nat
    /\ mutex \in {"free", "writer", "reader"}
    /\ wpc \in {"idle", "grow", "copy", "unlock"}
    /\ newData \in Seq(Sample)
    /\ rpc \in {"idle", "look", "read", "fetch", "unlock"}
    /\ ptr \in Nat /\ want \in Nat
    /\ temp \in Seq(Sample) /\ out \in Seq(Sample)

\* What the buffer stores ends inside its memory, the block about to be copied
\* fits behind it, and the reader copies no more than what is stored, from where
\* it is now: nobody moved it after data() returned.
AccessesInside ==
    /\ curIndex + size <= ringSize
    /\ wpc = "copy" => curIndex + size + Len(newData) <= ringSize
    /\ rpc = "read" => ptr = curIndex /\ want <= size

\* The buffer implements a queue: blocks are appended whole, and the reader gets
\* every sample once, in order, whatever was grown or moved in between.
Stored == [i \in 1..size |-> mem[curIndex + i - 1]]
Abstract == INSTANCE ByteQueue WITH Byte <- Sample, q <- Stored, in <- newData
Queue == Abstract!Spec

=============================================================================
