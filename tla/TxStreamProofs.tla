--------------------------- MODULE TxStreamProofs ---------------------------
(***************************************************************************)
(* Proofs about TxStream for all sizes of packets, ring and writes, any    *)
(* number of transfers and of writes.                                      *)
(***************************************************************************)
EXTENDS TxStream, TLAPS

USE StreamSizes

LEMMA Concatenation ==
  ASSUME NEW S, NEW a \in Seq(S), NEW b \in Seq(S)
  PROVE  /\ a \o b \in Seq(S)
         /\ Len(a \o b) = Len(a) + Len(b)
         /\ \A k \in 1 .. Len(a) : (a \o b)[k] = a[k]
         /\ \A k \in 1 .. Len(b) : (a \o b)[Len(a) + k] = b[k]
         /\ \A k \in Len(a) + 1 .. Len(a) + Len(b) : (a \o b)[k] = b[k - Len(a)]
  OBVIOUS

(* The slot k places behind slot h.                                        *)
LEMMA Place ==
  ASSUME NEW h \in 0 .. FifoPackets - 1, NEW k \in 0 .. FifoPackets
  PROVE  /\ (h + k) % FifoPackets \in 0 .. FifoPackets - 1
         /\ h + k < FifoPackets => (h + k) % FifoPackets = h + k
         /\ h + k >= FifoPackets => (h + k) % FifoPackets = h + k - FifoPackets
<1>1. h + k \in Nat /\ h + k < 2 * FifoPackets
  OBVIOUS
<1>2. CASE h + k < FifoPackets
  BY <1>2
<1>3. CASE h + k >= FifoPackets
  BY <1>1, <1>3
<1>4. QED BY <1>2, <1>3

LEMMA FirstPlace ==
  ASSUME NEW h \in 0 .. FifoPackets - 1
  PROVE  (h + 1 - 1) % FifoPackets = h
<1>1. h + 1 - 1 = h
  OBVIOUS
<1>2. QED BY <1>1

(* Slots at different places of the ring are different slots.              *)
LEMMA PlacesApart ==
  ASSUME NEW h \in 0 .. FifoPackets - 1,
         NEW j \in 0 .. FifoPackets - 1, NEW k \in 0 .. FifoPackets - 1, j # k
  PROVE  (h + j) % FifoPackets # (h + k) % FifoPackets
<1>1. /\ h + j < FifoPackets => (h + j) % FifoPackets = h + j
      /\ h + j >= FifoPackets => (h + j) % FifoPackets = h + j - FifoPackets
  BY Place
<1>2. /\ h + k < FifoPackets => (h + k) % FifoPackets = h + k
      /\ h + k >= FifoPackets => (h + k) % FifoPackets = h + k - FifoPackets
  BY Place
<1>3. QED BY <1>1, <1>2

(* Counting from the next slot.                                            *)
LEMMA NextPlace ==
  ASSUME NEW h \in 0 .. FifoPackets - 1, NEW k \in 0 .. FifoPackets - 1
  PROVE  (((h + 1) % FifoPackets) + k) % FifoPackets = (h + (k + 1)) % FifoPackets
<1> DEFINE g == (h + 1) % FifoPackets
<1>1. /\ g \in 0 .. FifoPackets - 1
      /\ h + 1 < FifoPackets => g = h + 1
      /\ h + 1 >= FifoPackets => g = h + 1 - FifoPackets
  BY Place
<1>2. /\ h + (k + 1) < FifoPackets => (h + (k + 1)) % FifoPackets = h + (k + 1)
      /\ h + (k + 1) >= FifoPackets => (h + (k + 1)) % FifoPackets = h + (k + 1) - FifoPackets
  <2>1. k + 1 \in 0 .. FifoPackets
    OBVIOUS
  <2>2. QED BY <2>1, Place
<1> HIDE DEF g
<1>3. /\ g + k < FifoPackets => (g + k) % FifoPackets = g + k
      /\ g + k >= FifoPackets => (g + k) % FifoPackets = g + k - FifoPackets
  BY <1>1, Place
<1>4. (g + k) % FifoPackets = (h + (k + 1)) % FifoPackets
  BY <1>1, <1>2, <1>3
<1>5. QED BY <1>4 DEF g

(* The packets of the ring: the first is at the head, and each has a slot  *)
(* of its own, which is not the tail's unless the ring is full.            *)
LEMMA RingSlots ==
  ASSUME RingType, RingInOrder
  PROVE  /\ \A k \in 1 .. FifoPackets :
              /\ (mHead + k - 1) % FifoPackets \in 0 .. FifoPackets - 1
              /\ Nth(k) \in [from : Nat, to : Nat]
              /\ Nth(k).to \in Nth(k).from .. Nth(k).from + PacketSize
         /\ Nth(1) = slot[mHead]
         /\ \A j, k \in 1 .. FifoPackets :
              j # k => (mHead + j - 1) % FifoPackets # (mHead + k - 1) % FifoPackets
         /\ mTail = (mHead + (mElementsFilled + 1) - 1) % FifoPackets
<1>1. mHead \in 0 .. FifoPackets - 1 /\ mElementsFilled \in 0 .. FifoPackets
  BY DEF RingType
<1>2. \A k \in 1 .. FifoPackets : mHead + k - 1 = mHead + (k - 1)
  BY <1>1
<1>3. ASSUME NEW k \in 1 .. FifoPackets
      PROVE  (mHead + k - 1) % FifoPackets \in 0 .. FifoPackets - 1
  <2>1. k - 1 \in 0 .. FifoPackets
    OBVIOUS
  <2>2. QED BY <1>1, <1>2, <2>1, Place
<1>4. Nth(1) = slot[mHead]
  BY <1>1 DEF Nth
<1>5. ASSUME NEW j \in 1 .. FifoPackets, NEW k \in 1 .. FifoPackets, j # k
      PROVE  (mHead + j - 1) % FifoPackets # (mHead + k - 1) % FifoPackets
  <2>1. j - 1 \in 0 .. FifoPackets - 1 /\ k - 1 \in 0 .. FifoPackets - 1 /\ j - 1 # k - 1
    BY <1>5
  <2>2. QED BY <1>1, <1>2, <2>1, PlacesApart
<1>6. mTail = (mHead + (mElementsFilled + 1) - 1) % FifoPackets
  <2>1. mHead + (mElementsFilled + 1) - 1 = mHead + mElementsFilled
    BY <1>1
  <2>2. QED BY <2>1 DEF RingInOrder
<1>7. QED BY <1>3, <1>4, <1>5, <1>6 DEF Nth, RingType

(* What pop_samples takes from the packet at the head: not nothing, no more*)
(* than the packet has and no more than there is room for.                 *)
Count == Smaller(PacketSize - Len(hand), slot[mHead].to - slot[mHead].from)

LEMMA Taken ==
  ASSUME IInv, Len(hand) < PacketSize, mElementsFilled > 0
  PROVE  LET s == slot[mHead]
             taken == Samples([s EXCEPT !.to = s.from + Count])
         IN /\ s = Nth(1) /\ s \in [from : Nat, to : Nat]
            /\ Count \in Nat \ {0}
            /\ Count <= PacketSize - Len(hand) /\ s.from + Count <= s.to
            /\ taken \in Seq(Nat) /\ Len(taken) = Count
            /\ \A i \in 1 .. Count : taken[i] = s.from + i - 1
<1> DEFINE s == slot[mHead]
<1>1. s = Nth(1) /\ s \in [from : Nat, to : Nat] /\ s.from < s.to
  <2>1. RingType /\ RingInOrder
    BY DEF IInv, TypeOK
  <2>2. s = Nth(1)
    BY <2>1, RingSlots
  <2>3. s \in [from : Nat, to : Nat]
    BY <2>1 DEF RingType
  <2>4. 1 \in 1 .. mElementsFilled
    BY <2>1 DEF RingType
  <2>5. Nth(1).from < Nth(1).to
    BY <2>1, <2>4 DEF RingInOrder
  <2> HIDE DEF s
  <2>6. QED BY <2>2, <2>3, <2>5
<1>2. Len(hand) \in Nat /\ PacketSize - Len(hand) > 0
  BY DEF IInv, TypeOK, StreamType
<1>3. /\ Count \in Nat \ {0}
      /\ Count <= PacketSize - Len(hand) /\ s.from + Count <= s.to
  BY <1>1, <1>2 DEF Count, Smaller
<1> HIDE DEF s
<1> DEFINE t == [s EXCEPT !.to = s.from + Count]
<1>4. t.from = s.from /\ t.to = s.from + Count
  BY <1>1
<1>5. Samples(t) = [k \in 1 .. Count |-> s.from + k - 1]
  BY <1>1, <1>3, <1>4 DEF Samples
<1>6. /\ Samples(t) \in Seq(Nat) /\ Len(Samples(t)) = Count
      /\ \A i \in 1 .. Count : Samples(t)[i] = s.from + i - 1
  <2>1. \A k \in 1 .. Count : s.from + k - 1 \in Nat
    BY <1>1, <1>3
  <2>2. [k \in 1 .. Count |-> s.from + k - 1] \in Seq(Nat)
    BY <1>3, <2>1
  <2> HIDE DEF t
  <2>3. QED BY <1>3, <1>5, <2>2
<1>7. QED BY <1>1, <1>3, <1>6 DEF s

-----------------------------------------------------------------------------
(* Every step keeps the types, part by part.                               *)
LEMMA NextThreadType ==
  ASSUME ThreadType, [Next]_vars
  PROVE  ThreadType'
<1> USE DEF fifoVars, appVars, outVars, txUnchanged, ThreadType
<1>1. CASE Start
  BY <1>1 DEF Start
<1>2. CASE WriteTest
  BY <1>2 DEF WriteTest
<1>3. CASE Restart
  BY <1>3 DEF Restart, Created
<1>4. CASE PushLock
  BY <1>4 DEF PushLock
<1>5. CASE PushPacket
  BY <1>5 DEF PushPacket
<1>6. CASE PushWait
  BY <1>6 DEF PushWait
<1>7. CASE PushGiveUp
  BY <1>7 DEF PushGiveUp, NextWrite
<1>8. CASE PushDone
  BY <1>8 DEF PushDone
<1>9. CASE PushNotify
  BY <1>9 DEF PushNotify, NextWrite
<1>10. CASE PushWaitEnds
  BY <1>10 DEF PushWaitEnds
<1>11. CASE Stop
  BY <1>11 DEF Stop
<1>12. CASE StopTest
  BY <1>12 DEF StopTest
<1>13. CASE StopJoin
  BY <1>13 DEF StopJoin
<1>14. CASE Loop
  BY <1>14 DEF Loop
<1>15. CASE Read
  BY <1>15 DEF Read
<1>16. CASE PopLock
  BY <1>16 DEF PopLock
<1>17. CASE PopTake
  <2>1. UNCHANGED <<fifoLock, pcApp, pcTx, over, mActive, txRunning, terminateTx, calm>>
    BY <1>17 DEF PopTake
  <2>2. QED BY <2>1
<1>18. CASE PopWait
  BY <1>18 DEF PopWait
<1>19. CASE PopTimeout
  BY <1>19 DEF PopTimeout
<1>20. CASE Underflow
  BY <1>20 DEF Underflow
<1>21. CASE PopDone
  BY <1>21 DEF PopDone
<1>22. CASE PopNotify
  BY <1>22 DEF PopNotify
<1>23. CASE Send
  BY <1>23 DEF Send
<1>24. CASE Abort
  BY <1>24 DEF Abort
<1>25. CASE Exit
  <2>1. /\ UNCHANGED <<fifoLock, pcApp, over, mActive, terminateTx, calm>>
        /\ pcTx' \in {"exiting", "ended"} /\ txRunning' \in BOOLEAN
    BY <1>25 DEF Exit
  <2>2. QED BY <2>1
<1>26. CASE Device
  BY <1>26 DEF Device
<1>27. CASE Stopped
  BY <1>27 DEF Stopped, vars
<1>28. CASE UNCHANGED vars
  BY <1>28 DEF vars
<1>29. QED
  BY <1>1, <1>2, <1>3, <1>4, <1>5, <1>6, <1>7, <1>8, <1>9, <1>10, <1>11, <1>12, <1>13, <1>14,
     <1>15, <1>16, <1>17, <1>18, <1>19, <1>20, <1>21, <1>22, <1>23, <1>24, <1>25, <1>26, <1>27, <1>28
  DEF Next, AppStep, TxStep

(* Only Start, a push and a pop touch the ring.                            *)
LEMMA RingUntouched ==
  ASSUME [Next]_vars, ~Start, ~PushPacket, ~PopTake
  PROVE  UNCHANGED <<slot, mHead, mTail, mElementsFilled>>
<1> USE DEF fifoVars
<1>1. AppStep => UNCHANGED fifoVars
  BY DEF AppStep, WriteTest, Restart, Created, PushLock, PushWait, PushGiveUp, PushDone,
     PushNotify, PushWaitEnds, Stop, StopTest, StopJoin
<1>2. TxStep => UNCHANGED fifoVars
  BY DEF TxStep, Loop, Read, PopLock, PopWait, PopTimeout, Underflow, PopDone, PopNotify,
     Send, Abort, Exit
<1>3. Device \/ Stopped \/ UNCHANGED vars => UNCHANGED fifoVars
  BY DEF Device, Stopped, vars
<1>4. QED BY <1>1, <1>2, <1>3 DEF Next

LEMMA TakeKeepsRing ==
  ASSUME IInv, PopTake
  PROVE  RingType'
<1> DEFINE s == slot[mHead]
<1>1. Len(hand) < PacketSize /\ mElementsFilled > 0
  BY DEF PopTake
<1>2. /\ s \in [from : Nat, to : Nat] /\ Count \in Nat \ {0}
      /\ s.from + Count <= s.to
  BY <1>1, Taken
<1>3. RingType
  BY DEF IInv, TypeOK
<1>4. mHead' \in 0 .. FifoPackets - 1 /\ mElementsFilled' \in 0 .. FifoPackets
  <2>1. mHead \in 0 .. FifoPackets - 1 /\ mElementsFilled \in 0 .. FifoPackets
    BY <1>3 DEF RingType
  <2>2. (mHead + 1) % FifoPackets \in 0 .. FifoPackets - 1
    BY <2>1, Place
  <2>3. /\ mHead' = (mHead + 1) % FifoPackets \/ mHead' = mHead
        /\ mElementsFilled' = mElementsFilled - 1 \/ mElementsFilled' = mElementsFilled
    BY DEF PopTake
  <2>4. QED BY <1>1, <2>1, <2>2, <2>3
<1>5. slot' = slot \/ slot' = [slot EXCEPT ![mHead].from = s.from + Count]
  BY DEF PopTake, Count
<1>6. /\ slot' \in [0 .. FifoPackets - 1 -> [from : Nat, to : Nat]]
      /\ \A k \in 0 .. FifoPackets - 1 :
           slot'[k].to \in slot'[k].from .. slot'[k].from + PacketSize
  <2>1. CASE slot' = slot
    BY <1>3, <2>1 DEF RingType
  <2>2. CASE slot' = [slot EXCEPT ![mHead].from = s.from + Count]
    <3>1. /\ slot \in [0 .. FifoPackets - 1 -> [from : Nat, to : Nat]]
          /\ mHead \in 0 .. FifoPackets - 1
          /\ s.to \in s.from .. s.from + PacketSize
      BY <1>3 DEF RingType
    <3>2. s.from + Count \in Nat
      BY <1>2
    <3>3. slot' \in [0 .. FifoPackets - 1 -> [from : Nat, to : Nat]]
      BY <2>2, <3>1, <3>2
    <3>4. ASSUME NEW k \in 0 .. FifoPackets - 1
          PROVE  slot'[k].to \in slot'[k].from .. slot'[k].from + PacketSize
      <4>1. CASE k = mHead
        <5>1. slot'[k].from = s.from + Count /\ slot'[k].to = s.to
          BY <2>2, <3>1, <4>1
        <5> HIDE DEF s
        <5>2. QED BY <1>2, <3>1, <5>1
      <4>2. CASE k # mHead
        <5>1. slot'[k] = slot[k]
          BY <2>2, <3>1, <4>2
        <5>2. QED BY <1>3, <5>1 DEF RingType
      <4>3. QED BY <4>1, <4>2
    <3>5. QED BY <3>3, <3>4
  <2>3. QED BY <1>5, <2>1, <2>2
<1>7. mTail' = mTail
  BY DEF PopTake
<1>8. QED BY <1>3, <1>4, <1>6, <1>7 DEF RingType

(* What push_samples puts into the ring: not nothing, and no more than a   *)
(* packet holds or is left of the write.                                   *)
Chunk == Smaller(PacketSize, WriteSize - samplesTaken)

LEMMA Given ==
  ASSUME IInv, PushPacket
  PROVE  /\ samplesTaken < WriteSize /\ mElementsFilled < FifoPackets
         /\ written \in Nat /\ samplesTaken \in Nat
         /\ Chunk \in Nat \ {0} /\ Chunk <= PacketSize
         /\ samplesTaken + Chunk <= WriteSize
         /\ slot' = [slot EXCEPT ![mTail] =
                       [from |-> written + samplesTaken,
                        to |-> written + samplesTaken + Chunk]]
         /\ samplesTaken' = samplesTaken + Chunk
         /\ mTail' = (mTail + 1) % FifoPackets
         /\ mElementsFilled' = mElementsFilled + 1 /\ mHead' = mHead
<1>1. /\ samplesTaken < WriteSize /\ mElementsFilled < FifoPackets
      /\ slot' = [slot EXCEPT ![mTail] =
                    [from |-> written + samplesTaken,
                     to |-> written + samplesTaken + Chunk]]
      /\ samplesTaken' = samplesTaken + Chunk
      /\ mTail' = (mTail + 1) % FifoPackets
      /\ mElementsFilled' = mElementsFilled + 1 /\ mHead' = mHead
  BY DEF PushPacket, HasRoom, Chunk
<1>2. /\ written \in Nat /\ samplesTaken \in Nat
  BY DEF IInv, TypeOK, StreamType
<1>3. Chunk \in Nat \ {0} /\ Chunk <= PacketSize /\ samplesTaken + Chunk <= WriteSize
  BY <1>1, <1>2 DEF Smaller, Chunk
<1>4. QED BY <1>1, <1>2, <1>3

LEMMA PushKeepsRing ==
  ASSUME IInv, PushPacket
  PROVE  RingType'
<1> DEFINE new == [from |-> written + samplesTaken, to |-> written + samplesTaken + Chunk]
<1>1. /\ mElementsFilled < FifoPackets /\ slot' = [slot EXCEPT ![mTail] = new]
      /\ mTail' = (mTail + 1) % FifoPackets
      /\ mElementsFilled' = mElementsFilled + 1 /\ mHead' = mHead
  BY Given
<1>2. /\ new \in [from : Nat, to : Nat]
      /\ new.to \in new.from .. new.from + PacketSize
  BY Given
<1> HIDE DEF new
<1>3. RingType
  BY DEF IInv, TypeOK
<1>4. slot' \in [0 .. FifoPackets - 1 -> [from : Nat, to : Nat]]
  BY <1>1, <1>2, <1>3 DEF RingType
<1>5. ASSUME NEW k \in 0 .. FifoPackets - 1
      PROVE  slot'[k].to \in slot'[k].from .. slot'[k].from + PacketSize
  <2>1. slot'[k] = new \/ slot'[k] = slot[k]
    BY <1>1, <1>3 DEF RingType
  <2>2. slot[k].to \in slot[k].from .. slot[k].from + PacketSize
    BY <1>3 DEF RingType
  <2>3. QED BY <1>2, <2>1, <2>2
<1>6. mTail' \in 0 .. FifoPackets - 1 /\ mElementsFilled' \in 0 .. FifoPackets
  <2>1. mTail \in 0 .. FifoPackets - 1 /\ mElementsFilled \in 0 .. FifoPackets
    BY <1>3 DEF RingType
  <2>2. QED BY <1>1, <2>1, Place
<1>7. QED BY <1>1, <1>3, <1>4, <1>5, <1>6 DEF RingType

LEMMA NextRingType ==
  ASSUME IInv, [Next]_vars
  PROVE  RingType'
<1>1. RingType
  BY DEF IInv, TypeOK
<1>2. CASE Start
  <2>1. slot' = slot /\ mHead' = 0 /\ mTail' = 0 /\ mElementsFilled' = 0
    BY <1>2 DEF Start
  <2>2. QED BY <1>1, <2>1 DEF RingType
<1>3. CASE PushPacket
  BY <1>3, PushKeepsRing
<1>4. CASE PopTake
  BY <1>4, TakeKeepsRing
<1>5. CASE ~Start /\ ~PushPacket /\ ~PopTake
  BY <1>1, <1>5, RingUntouched DEF RingType
<1>6. QED BY <1>2, <1>3, <1>4, <1>5

(* Another whole write stays within the number of writes.                  *)
LEMMA OneMoreWrite ==
  ASSUME NEW n \in Nat, n * WriteSize < NumWrites * WriteSize
  PROVE  /\ n + 1 \in 0 .. NumWrites
         /\ (n + 1) * WriteSize = n * WriteSize + WriteSize
         /\ n * WriteSize + WriteSize \in 0 .. NumWrites * WriteSize
<1>1. n + 1 <= NumWrites
  OBVIOUS
<1>2. (n + 1) * WriteSize = n * WriteSize + WriteSize
  OBVIOUS
<1>3. (n + 1) * WriteSize <= NumWrites * WriteSize
  BY <1>1
<1>4. (n + 1) * WriteSize \in Nat /\ NumWrites * WriteSize \in Nat
  OBVIOUS
<1>5. QED BY <1>1, <1>2, <1>3, <1>4

LEMMA WriteEnds ==
  ASSUME IInv, NextWrite, pcApp \in {"push", "notify"}
  PROVE  /\ written' \in 0 .. NumWrites * WriteSize
         /\ WholeWrites'
<1>1. PICK n \in 0 .. NumWrites : written = n * WriteSize
  BY DEF IInv, WholeWrites
<1>2. n * WriteSize < NumWrites * WriteSize /\ written' = n * WriteSize + WriteSize
  BY <1>1 DEF IInv, WholeWrites, NextWrite
<1>3. /\ n + 1 \in 0 .. NumWrites /\ written' = (n + 1) * WriteSize
      /\ written' \in 0 .. NumWrites * WriteSize
  BY <1>2, OneMoreWrite
<1>4. pcApp' = IF written' < NumWrites * WriteSize THEN "write" ELSE "stop"
  BY DEF NextWrite
<1>5. QED BY <1>3, <1>4 DEF WholeWrites

(* Only these steps touch what was popped, and only these what was written.*)
LEMMA StreamsUntouched ==
  ASSUME [Next]_vars
  PROVE  /\ UNCHANGED written \/ PushGiveUp \/ PushNotify
         /\ UNCHANGED samplesTaken \/ PushPacket \/ samplesTaken' = 0
         /\ UNCHANGED hand \/ PopTake \/ hand' = <<>>
         /\ UNCHANGED inflight \/ Send \/ Device \/ inflight' = <<>>
         /\ UNCHANGED air \/ Device
<1> USE DEF appVars, outVars, txUnchanged
<1>1. CASE AppStep
  BY <1>1 DEF AppStep, Start, WriteTest, Restart, Created, PushLock, PushPacket, PushWait,
     PushGiveUp, PushDone, PushNotify, NextWrite, PushWaitEnds, Stop, StopTest, StopJoin
<1>2. CASE TxStep
  BY <1>2 DEF TxStep, Loop, Read, PopLock, PopTake, PopWait, PopTimeout, Underflow, PopDone,
     PopNotify, Send, Abort, Exit
<1>3. CASE Device \/ Stopped \/ UNCHANGED vars
  BY <1>3 DEF Device, Stopped, vars
<1>4. QED BY <1>1, <1>2, <1>3 DEF Next

LEMMA NextStreamType ==
  ASSUME IInv, [Next]_vars
  PROVE  StreamType'
<1>1. /\ StreamType
      /\ inflight \in Seq(Seq(Nat)) /\ hand \in Seq(Nat) /\ air \in Seq(Nat)
      /\ Len(inflight) <= BuffersCount /\ Len(hand) <= PacketSize
  BY DEF IInv, TypeOK, StreamType
<1>2. written' \in 0 .. NumWrites * WriteSize
  BY <1>1, StreamsUntouched, WriteEnds DEF PushGiveUp, PushNotify, StreamType
<1>3. samplesTaken' \in 0 .. WriteSize
  <2>1. CASE PushPacket
    BY <2>1, Given
  <2>2. CASE UNCHANGED samplesTaken \/ samplesTaken' = 0
    BY <1>1, <2>2 DEF StreamType
  <2>3. QED BY <2>1, <2>2, StreamsUntouched
<1>4. hand' \in Seq(Nat) /\ Len(hand') <= PacketSize
  <2>1. CASE PopTake
    <3> DEFINE t == Samples([slot[mHead] EXCEPT !.to = slot[mHead].from + Count])
    <3>1. Len(hand) < PacketSize /\ mElementsFilled > 0 /\ hand' = hand \o t
      BY <2>1 DEF PopTake, Count
    <3>2. t \in Seq(Nat) /\ Len(t) = Count /\ Count \in Nat /\ Count <= PacketSize - Len(hand)
      BY <3>1, Taken
    <3> HIDE DEF t
    <3>3. hand' \in Seq(Nat) /\ Len(hand') = Len(hand) + Count
      BY <1>1, <3>1, <3>2, Concatenation
    <3>4. QED BY <1>1, <3>2, <3>3
  <2>2. CASE UNCHANGED hand
    BY <1>1, <2>2
  <2>3. CASE hand' = <<>>
    BY <2>3
  <2>4. QED BY <2>1, <2>2, <2>3, StreamsUntouched
<1>5. inflight' \in Seq(Seq(Nat)) /\ Len(inflight') <= BuffersCount
  <2>1. CASE Send
    <3>1. Len(inflight) < BuffersCount
      BY <2>1 DEF Send, IInv, Control
    <3>2. inflight' = inflight \/ inflight' = Append(inflight, hand)
      BY <2>1 DEF Send
    <3>3. /\ Append(inflight, hand) \in Seq(Seq(Nat))
          /\ Len(Append(inflight, hand)) = Len(inflight) + 1
      BY <1>1
    <3>4. Len(inflight) + 1 <= BuffersCount
      BY <1>1, <3>1
    <3>5. CASE inflight' = Append(inflight, hand)
      BY <3>3, <3>4, <3>5
    <3>6. QED BY <1>1, <3>2, <3>5
  <2>2. CASE Device
    <3>1. inflight # <<>> /\ inflight' = Tail(inflight)
      BY <2>2 DEF Device
    <3>2. QED BY <1>1, <3>1
  <2>3. CASE UNCHANGED inflight
    BY <1>1, <2>3
  <2>4. CASE inflight' = <<>>
    BY <2>4
  <2>5. QED BY <2>1, <2>2, <2>3, <2>4, StreamsUntouched
<1>6. air' \in Seq(Nat)
  <2>1. CASE Device
    <3>1. inflight # <<>> /\ air' = air \o Head(inflight)
      BY <2>1 DEF Device
    <3>2. Head(inflight) \in Seq(Nat)
      BY <1>1, <3>1
    <3>3. QED BY <1>1, <3>1, <3>2, Concatenation
  <2>2. QED BY <1>1, <2>1, StreamsUntouched
<1>7. QED BY <1>2, <1>3, <1>4, <1>5, <1>6 DEF StreamType

LEMMA NextTypeOK ==
  ASSUME IInv, [Next]_vars
  PROVE  TypeOK'
BY NextRingType, NextThreadType, NextStreamType DEF IInv, TypeOK

-----------------------------------------------------------------------------
(* Every step keeps the threads where they may be.                         *)
LEMMA NextControl ==
  ASSUME IInv, [Next]_vars
  PROVE  Control'
<1> USE DEF fifoVars, appVars, outVars, txUnchanged
<1>1. Control /\ ThreadType
  BY DEF IInv, TypeOK
<1>2. CASE Start
  BY <1>1, <1>2 DEF Start, Control
<1>3. CASE WriteTest \/ Restart
  BY <1>1, <1>3 DEF WriteTest, Restart, Created, Control
<1>4. CASE PushPacket
  <2>1. /\ UNCHANGED <<pcApp, written, pcTx, hand, inflight, calm, mActive, terminateTx>>
        /\ pcApp = "push"
    BY <1>4 DEF PushPacket
  <2>2. QED BY <1>1, <2>1 DEF Control
<1>5. CASE PushLock \/ PushWait \/ PushDone \/ PushWaitEnds
  BY <1>1, <1>5 DEF PushLock, PushWait, PushDone, PushWaitEnds, Control
<1>6. CASE PushGiveUp \/ PushNotify
  <2>1. /\ UNCHANGED <<hand, inflight, mActive, terminateTx>>
        /\ pcApp \in {"push", "notify"} /\ pcApp' \in {"write", "stop"}
        /\ pcTx' = pcTx \/ (pcTx = "asleep" /\ pcTx' = "relock")
        /\ calm' => calm
    BY <1>6 DEF PushGiveUp, PushNotify, NextWrite
  <2>2. QED BY <1>1, <2>1 DEF Control
<1>7. CASE Stop \/ StopTest \/ StopJoin
  BY <1>1, <1>7 DEF Stop, StopTest, StopJoin, Control
<1>8. CASE Loop \/ PopLock \/ PopWait \/ PopTimeout
  BY <1>1, <1>8 DEF Loop, PopLock, PopWait, PopTimeout, Control
<1>9. CASE Read
  <2>1. /\ UNCHANGED <<pcApp, written, samplesTaken, inflight, calm, mActive, terminateTx>>
        /\ hand' = <<>> /\ pcTx = "read"
        /\ (pcTx' = "abort" /\ terminateTx) \/ pcTx' \in {"lock", "send"}
    BY <1>1, <1>9 DEF Read, ThreadType
  <2>2. QED BY <1>1, <2>1 DEF Control
<1>10. CASE PopTake
  <2>1. /\ UNCHANGED <<pcApp, written, samplesTaken, pcTx, inflight, calm, mActive,
                       terminateTx>>
        /\ pcTx = "pop"
    BY <1>10 DEF PopTake
  <2>2. QED BY <1>1, <2>1 DEF Control
<1>11. CASE Underflow \/ PopDone \/ PopNotify
  <2>1. CASE Underflow
    BY <1>1, <2>1 DEF Underflow, Control
  <2>2. CASE PopDone
    BY <1>1, <2>2 DEF PopDone, Control
  <2>3. CASE PopNotify
    BY <1>1, <2>3 DEF PopNotify, Control
  <2>4. QED BY <1>11, <2>1, <2>2, <2>3
<1>12. CASE Send
  <2>1. /\ UNCHANGED <<pcApp, written, samplesTaken, calm, mActive, terminateTx>>
        /\ hand' = <<>> /\ pcTx = "send"
        /\ (pcTx' = "abort" /\ terminateTx) \/ pcTx' = "loop"
    BY <1>12 DEF Send
  <2>2. QED BY <1>1, <2>1 DEF Control
<1>13. CASE Abort \/ Exit
  <2>1. /\ UNCHANGED <<pcApp, written, samplesTaken, calm, mActive, terminateTx>>
        /\ hand' = <<>> \/ hand' = hand
        /\ pcTx = "abort" => hand' = <<>>
        /\ pcTx \in {"abort", "exit", "exiting"} /\ pcTx' \in {"exit", "exiting", "ended"}
    BY <1>13 DEF Abort, Exit
  <2>2. QED BY <1>1, <2>1 DEF Control
<1>14. CASE Device
  <2>1. /\ UNCHANGED <<pcApp, written, samplesTaken, pcTx, hand, calm, mActive, terminateTx>>
        /\ inflight # <<>> /\ inflight' = Tail(inflight)
    BY <1>14 DEF Device
  <2>2. Len(inflight) < BuffersCount => Len(inflight') < BuffersCount
    BY <2>1 DEF IInv, TypeOK, StreamType
  <2>3. QED BY <1>1, <2>1, <2>2 DEF Control
<1>15. CASE Stopped \/ UNCHANGED vars
  BY <1>1, <1>15 DEF Stopped, vars, Control
<1>16. QED
  BY <1>2, <1>3, <1>4, <1>5, <1>6, <1>7, <1>8, <1>9, <1>10, <1>11, <1>12, <1>13, <1>14,
     <1>15 DEF Next, AppStep, TxStep

LEMMA NextOwners ==
  ASSUME IInv, [Next]_vars
  PROVE  Owners'
<1> USE DEF fifoVars, appVars, outVars, txUnchanged
<1>1. Control /\ Owners /\ ThreadType
  BY DEF IInv, TypeOK
<1>2. CASE Start
  BY <1>1, <1>2 DEF Start, Control, Owners
<1>3. CASE WriteTest
  BY <1>1, <1>3 DEF WriteTest, Owners
<1>4. CASE Restart
  BY <1>1, <1>4 DEF Restart, Created, Owners
<1>5. CASE PushLock \/ PushWait \/ PushDone \/ PushWaitEnds
  BY <1>1, <1>5 DEF PushLock, PushWait, PushDone, PushWaitEnds, Owners
<1>6. CASE PushGiveUp \/ PushNotify
  <2>1. /\ UNCHANGED txRunning /\ pcApp' \in {"write", "stop"}
        /\ \/ pcApp = "push" /\ fifoLock' = "none" /\ pcTx' = pcTx
           \/ pcApp = "notify" /\ fifoLock' = fifoLock
              /\ (pcTx' = pcTx \/ (pcTx = "asleep" /\ pcTx' = "relock"))
    BY <1>6 DEF PushGiveUp, PushNotify, NextWrite
  <2>2. QED BY <1>1, <2>1 DEF Owners
<1>7. CASE PushPacket \/ PopTake
  <2>1. UNCHANGED <<fifoLock, pcApp, pcTx, txRunning>>
    BY <1>7 DEF PushPacket, PopTake
  <2>2. QED BY <1>1, <2>1 DEF Owners
<1>8. CASE Stop \/ StopTest \/ StopJoin
  BY <1>1, <1>8 DEF Stop, StopTest, StopJoin, Owners
<1>9. CASE Loop \/ PopLock \/ PopWait \/ PopTimeout
  BY <1>1, <1>9 DEF Loop, PopLock, PopWait, PopTimeout, Owners
<1>10. CASE Read
  <2>1. /\ UNCHANGED <<fifoLock, pcApp, txRunning>>
        /\ pcTx = "read" /\ pcTx' \in {"abort", "lock", "send"}
    BY <1>1, <1>10 DEF Read, ThreadType
  <2>2. QED BY <1>1, <2>1 DEF Owners
<1>11. CASE Underflow \/ PopDone
  BY <1>1, <1>11 DEF Underflow, PopDone, Owners
<1>12. CASE PopNotify
  BY <1>1, <1>12 DEF PopNotify, Owners
<1>13. CASE Send \/ Abort
  <2>1. /\ UNCHANGED <<fifoLock, pcApp, txRunning>>
        /\ pcTx \in {"send", "abort"} /\ pcTx' \in {"abort", "loop", "exit"}
    BY <1>13 DEF Send, Abort
  <2>2. QED BY <1>1, <2>1 DEF Owners
<1>14. CASE Exit
  BY <1>1, <1>14 DEF Exit, Owners
<1>15. CASE Device \/ Stopped \/ UNCHANGED vars
  <2>1. UNCHANGED <<fifoLock, pcApp, pcTx, txRunning>>
    BY <1>15 DEF Device, Stopped, vars
  <2>2. QED BY <1>1, <2>1 DEF Owners
<1>16. QED
  BY <1>2, <1>3, <1>4, <1>5, <1>6, <1>7, <1>8, <1>9, <1>10, <1>11, <1>12, <1>13, <1>14,
     <1>15 DEF Next, AppStep, TxStep

(* What every other step does to the program counter of the application    *)
(* and to the number of samples pushed.                                    *)
LEMMA PushedUnchanged ==
  ASSUME IInv, [Next]_vars, ~PushPacket, ~PushGiveUp
  PROVE  Pushed' = Pushed
<1> USE DEF appVars, outVars, fifoVars, txUnchanged, Pushed
<1>1. Control /\ written \in Nat /\ samplesTaken \in Nat
  BY DEF IInv, TypeOK, StreamType
<1>2. CASE Start \/ WriteTest \/ Restart
  BY <1>1, <1>2 DEF Start, WriteTest, Restart, Created, Control
<1>3. CASE PushLock \/ PushWait \/ PushDone \/ PushWaitEnds
  BY <1>1, <1>3 DEF PushLock, PushWait, PushDone, PushWaitEnds
<1>4. CASE PushNotify
  BY <1>1, <1>4 DEF PushNotify, NextWrite, Control
<1>5. CASE Stop \/ StopTest \/ StopJoin
  BY <1>1, <1>5 DEF Stop, StopTest, StopJoin
<1>6. CASE TxStep
  <2>1. /\ UNCHANGED <<written, samplesTaken>>
        /\ pcApp' = pcApp \/ (pcApp = "asleep" /\ pcApp' = "relock")
    BY <1>6 DEF TxStep, Loop, Read, PopLock, PopTake, PopWait, PopTimeout, Underflow, PopDone,
       PopNotify, Send, Abort, Exit
  <2>2. QED BY <2>1
<1>7. CASE Device \/ Stopped \/ UNCHANGED vars
  BY <1>7 DEF Device, Stopped, vars
<1>8. QED BY <1>2, <1>3, <1>4, <1>5, <1>6, <1>7 DEF Next, AppStep

LEMMA NextWholeWrites ==
  ASSUME IInv, [Next]_vars
  PROVE  WholeWrites'
<1> USE DEF appVars, outVars, fifoVars, txUnchanged
<1> DEFINE AtWork == {"write", "update", "lock", "relock", "push", "asleep", "notify"}
<1>1. WholeWrites
  BY DEF IInv
<1>2. CASE PushGiveUp \/ PushNotify
  BY <1>2, WriteEnds DEF PushGiveUp, PushNotify
<1>3. CASE Start
  <2>1. written' = 0 /\ (pcApp' = "write" => NumWrites > 0) /\ pcApp' \in {"write", "stop"}
    BY <1>3 DEF Start, IInv, Control
  <2>2. NumWrites > 0 => 0 < NumWrites * WriteSize
    OBVIOUS
  <2>3. 0 = 0 * WriteSize /\ 0 \in 0 .. NumWrites
    OBVIOUS
  <2>4. QED BY <2>1, <2>2, <2>3 DEF WholeWrites
<1>4. CASE written' = written /\ (pcApp' \in AtWork => pcApp \in AtWork)
  BY <1>1, <1>4 DEF WholeWrites
<1>5. CASE AppStep /\ ~PushGiveUp /\ ~PushNotify /\ ~Start
  <2>1. written' = written /\ (pcApp' \in AtWork => pcApp \in AtWork)
    BY <1>5 DEF AppStep, WriteTest, Restart, Created, PushLock, PushPacket, PushWait, PushDone,
       PushWaitEnds, Stop, StopTest, StopJoin
  <2>2. QED BY <1>4, <2>1
<1>6. CASE TxStep
  <2>1. written' = written /\ (pcApp' = pcApp \/ (pcApp = "asleep" /\ pcApp' = "relock"))
    BY <1>6 DEF TxStep, Loop, Read, PopLock, PopTake, PopWait, PopTimeout, Underflow, PopDone,
       PopNotify, Send, Abort, Exit
  <2>2. QED BY <1>4, <2>1
<1>7. CASE Device \/ Stopped \/ UNCHANGED vars
  <2>1. UNCHANGED <<written, pcApp>>
    BY <1>7 DEF Device, Stopped, vars
  <2>2. QED BY <1>4, <2>1
<1>8. QED BY <1>2, <1>3, <1>5, <1>6, <1>7 DEF Next

-----------------------------------------------------------------------------
(* Order and membership over a concatenation.                              *)
LEMMA JoinIncreasing ==
  ASSUME NEW a \in Seq(Nat), NEW b \in Seq(Nat),
         Increasing(a), Increasing(b), Before(a, b)
  PROVE  Increasing(a \o b)
<1> DEFINE c == a \o b
<1>1. /\ Len(c) = Len(a) + Len(b) /\ Len(a) \in Nat /\ Len(b) \in Nat
      /\ \A k \in 1 .. Len(a) : c[k] = a[k]
      /\ \A k \in Len(a) + 1 .. Len(a) + Len(b) : c[k] = b[k - Len(a)]
  BY Concatenation
<1> HIDE DEF c
<1>2. SUFFICES ASSUME NEW i \in 1 .. Len(c), NEW j \in 1 .. Len(c), i < j
               PROVE  c[i] < c[j]
  BY DEF Increasing, c
<1>3. CASE j <= Len(a)
  <2>1. i \in 1 .. Len(a) /\ j \in 1 .. Len(a)
    BY <1>1, <1>2, <1>3
  <2>2. QED BY <1>1, <1>2, <2>1 DEF Increasing
<1>4. CASE i > Len(a)
  <2>1. /\ i \in Len(a) + 1 .. Len(a) + Len(b) /\ j \in Len(a) + 1 .. Len(a) + Len(b)
        /\ i - Len(a) \in 1 .. Len(b) /\ j - Len(a) \in 1 .. Len(b)
        /\ i - Len(a) < j - Len(a)
    BY <1>1, <1>2, <1>4
  <2>2. QED BY <1>1, <2>1 DEF Increasing
<1>5. CASE i <= Len(a) /\ j > Len(a)
  <2>1. /\ i \in 1 .. Len(a) /\ j \in Len(a) + 1 .. Len(a) + Len(b)
        /\ j - Len(a) \in 1 .. Len(b)
    BY <1>1, <1>2, <1>5
  <2>2. QED BY <1>1, <2>1 DEF Before
<1>6. QED BY <1>1, <1>2, <1>3, <1>4, <1>5

LEMMA JoinElements ==
  ASSUME NEW a \in Seq(Nat), NEW b \in Seq(Nat), NEW i \in 1 .. Len(a \o b)
  PROVE  \/ \E k \in 1 .. Len(a) : (a \o b)[i] = a[k]
         \/ \E k \in 1 .. Len(b) : (a \o b)[i] = b[k]
<1>1. /\ Len(a \o b) = Len(a) + Len(b) /\ Len(a) \in Nat /\ Len(b) \in Nat
      /\ \A k \in 1 .. Len(a) : (a \o b)[k] = a[k]
      /\ \A k \in Len(a) + 1 .. Len(a) + Len(b) : (a \o b)[k] = b[k - Len(a)]
  BY Concatenation
<1>2. CASE i <= Len(a)
  BY <1>1, <1>2
<1>3. CASE i > Len(a)
  <2>1. i \in Len(a) + 1 .. Len(a) + Len(b) /\ i - Len(a) \in 1 .. Len(b)
    BY <1>1, <1>3
  <2>2. QED BY <1>1, <2>1
<1>4. QED BY <1>1, <1>2, <1>3

LEMMA JoinBefore ==
  ASSUME NEW a \in Seq(Nat), NEW b \in Seq(Nat), NEW c \in Seq(Nat)
  PROVE  /\ Before(a, c) /\ Before(b, c) => Before(a \o b, c)
         /\ Before(c, a) /\ Before(c, b) => Before(c, a \o b)
<1>1. ASSUME Before(a, c), Before(b, c) PROVE Before(a \o b, c)
  <2>1. SUFFICES ASSUME NEW i \in 1 .. Len(a \o b), NEW j \in 1 .. Len(c)
                 PROVE  (a \o b)[i] < c[j]
    BY DEF Before
  <2>2. CASE \E k \in 1 .. Len(a) : (a \o b)[i] = a[k]
    BY <1>1, <2>2 DEF Before
  <2>3. CASE \E k \in 1 .. Len(b) : (a \o b)[i] = b[k]
    BY <1>1, <2>3 DEF Before
  <2>4. QED BY <2>2, <2>3, JoinElements
<1>2. ASSUME Before(c, a), Before(c, b) PROVE Before(c, a \o b)
  <2>1. SUFFICES ASSUME NEW i \in 1 .. Len(c), NEW j \in 1 .. Len(a \o b)
                 PROVE  c[i] < (a \o b)[j]
    BY DEF Before
  <2>2. CASE \E k \in 1 .. Len(a) : (a \o b)[j] = a[k]
    BY <1>2, <2>2 DEF Before
  <2>3. CASE \E k \in 1 .. Len(b) : (a \o b)[j] = b[k]
    BY <1>2, <2>3 DEF Before
  <2>4. QED BY <2>2, <2>3, JoinElements
<1>3. QED BY <1>1, <1>2

LEMMA JoinBeforeRing ==
  ASSUME NEW a \in Seq(Nat), NEW b \in Seq(Nat), BeforeRing(a), BeforeRing(b)
  PROVE  BeforeRing(a \o b)
BY JoinElements DEF BeforeRing

LEMMA JoinHas ==
  ASSUME NEW a \in Seq(Nat), NEW b \in Seq(Nat), NEW n, Has(a, n) \/ Has(b, n)
  PROVE  Has(a \o b, n)
<1>1. /\ Len(a \o b) = Len(a) + Len(b) /\ Len(a) \in Nat /\ Len(b) \in Nat
      /\ \A k \in 1 .. Len(a) : (a \o b)[k] = a[k]
      /\ \A k \in 1 .. Len(b) : (a \o b)[Len(a) + k] = b[k]
  BY Concatenation
<1>2. CASE Has(a, n)
  <2>1. PICK i \in 1 .. Len(a) : a[i] = n
    BY <1>2 DEF Has
  <2>2. i \in 1 .. Len(a \o b) /\ (a \o b)[i] = n
    BY <1>1, <2>1
  <2>3. QED BY <2>2 DEF Has
<1>3. CASE Has(b, n)
  <2>1. PICK i \in 1 .. Len(b) : b[i] = n
    BY <1>3 DEF Has
  <2>2. Len(a) + i \in 1 .. Len(a \o b) /\ (a \o b)[Len(a) + i] = n
    BY <1>1, <2>1
  <2>3. QED BY <2>2 DEF Has
<1>4. QED BY <1>2, <1>3

-----------------------------------------------------------------------------
(* The order of the samples, and that none is missing, step by step.       *)
Ordered == RingInOrder /\ PoppedInOrder /\ AllThere

(* What leaves the ring and the streams alone, and takes nothing back.     *)
LEMMA Frame ==
  ASSUME IInv, UNCHANGED <<slot, mHead, mTail, mElementsFilled, hand, inflight, air>>,
         Pushed' = Pushed, calm' /\ mActive' => calm /\ mActive
  PROVE  Ordered'
<1>1. \A k : Nth(k)' = Nth(k)
  BY DEF Nth
<1>2. RingInOrder'
  BY <1>1 DEF IInv, RingInOrder, Nth
<1>3. \A s : BeforeRing(s) => BeforeRing(s)'
  BY <1>1 DEF BeforeRing
<1>4. BeforeRing(air)' /\ BeforeRing(hand)'
      /\ \A q \in 1 .. Len(inflight') : BeforeRing(inflight[q])'
  BY <1>1 DEF IInv, PoppedInOrder, BeforeRing
<1>5. PoppedInOrder'
  BY <1>4 DEF IInv, PoppedInOrder, Increasing, Before
<1>6. \A n : RingHas(n) => RingHas(n)'
  BY <1>1 DEF RingHas
<1>7. AllThere'
  BY <1>6 DEF IInv, AllThere, InFlight, Has
<1>8. QED BY <1>2, <1>5, <1>7 DEF Ordered

(* A packet is pushed: it goes behind the others.                          *)
LEMMA PushRing ==
  ASSUME IInv, PushPacket, NEW m, m = mElementsFilled
  PROVE  /\ \A k \in 1 .. m : Nth(k)' = Nth(k)
         /\ Nth(m + 1)'.from = Pushed /\ Nth(m + 1)'.to = Pushed + Chunk
         /\ Pushed' = Pushed + Chunk /\ Pushed \in Nat
         /\ mElementsFilled' = m + 1 /\ m \in Nat
         /\ mTail' = (mHead' + mElementsFilled') % FifoPackets
<1> DEFINE new == [from |-> written + samplesTaken, to |-> written + samplesTaken + Chunk]
<1>1. /\ mElementsFilled < FifoPackets /\ slot' = [slot EXCEPT ![mTail] = new]
      /\ mTail' = (mTail + 1) % FifoPackets
      /\ mElementsFilled' = mElementsFilled + 1 /\ mHead' = mHead
      /\ written \in Nat /\ samplesTaken \in Nat /\ Chunk \in Nat
      /\ samplesTaken' = samplesTaken + Chunk
      /\ new.from = written + samplesTaken /\ new.to = written + samplesTaken + Chunk
  BY Given
<1> HIDE DEF new
<1>2. /\ RingType /\ RingInOrder /\ mElementsFilled \in 0 .. FifoPackets
      /\ mHead \in 0 .. FifoPackets - 1 /\ mTail \in 0 .. FifoPackets - 1
      /\ slot \in [0 .. FifoPackets - 1 -> [from : Nat, to : Nat]]
  BY DEF IInv, TypeOK, RingType
<1>3. Pushed = written + samplesTaken /\ Pushed' = written + samplesTaken + Chunk
  <2>1. pcApp = "push" /\ pcApp' = "push" /\ written' = written
    BY DEF PushPacket
  <2>2. QED BY <1>1, <2>1 DEF Pushed
<1>4. ASSUME NEW k \in 1 .. m PROVE Nth(k)' = Nth(k)
  <2>1. k \in 1 .. FifoPackets /\ mElementsFilled + 1 \in 1 .. FifoPackets
        /\ k # mElementsFilled + 1
    BY <1>1, <1>2
  <2>2. /\ (mHead + k - 1) % FifoPackets \in 0 .. FifoPackets - 1
        /\ (mHead + k - 1) % FifoPackets # mTail
    BY <1>2, <2>1, RingSlots
  <2>3. QED BY <1>1, <1>2, <2>2 DEF Nth
<1>5. Nth(m + 1)' = new
  <2>1. mTail = (mHead + (m + 1) - 1) % FifoPackets
    BY <1>2, RingSlots
  <2>2. slot'[mTail] = new
    BY <1>1, <1>2
  <2>3. QED BY <1>1, <2>1, <2>2 DEF Nth
<1>6. mTail' = (mHead' + mElementsFilled') % FifoPackets
  <2>1. mTail = (mHead + mElementsFilled) % FifoPackets
    BY <1>2 DEF RingInOrder
  <2>2. /\ mHead + mElementsFilled < FifoPackets => mTail = mHead + mElementsFilled
        /\ mHead + mElementsFilled >= FifoPackets =>
             mTail = mHead + mElementsFilled - FifoPackets
    BY <1>2, <2>1, Place
  <2>3. mElementsFilled + 1 \in 0 .. FifoPackets
    BY <1>1, <1>2
  <2> DEFINE a == (mTail + 1) % FifoPackets
             b == (mHead + (mElementsFilled + 1)) % FifoPackets
  <2>4. /\ mTail + 1 < FifoPackets => a = mTail + 1
        /\ mTail + 1 >= FifoPackets => a = mTail + 1 - FifoPackets
    BY <1>2, Place
  <2>5. /\ mHead + (mElementsFilled + 1) < FifoPackets => b = mHead + (mElementsFilled + 1)
        /\ mHead + (mElementsFilled + 1) >= FifoPackets =>
             b = mHead + (mElementsFilled + 1) - FifoPackets
    BY <1>2, <2>3, Place
  <2>6. a = b
    <3> HIDE DEF a, b
    <3>1. QED BY SMTT(20), <1>1, <1>2, <2>2, <2>4, <2>5
  <2>7. mTail' = a /\ (mHead' + mElementsFilled') % FifoPackets = b
    BY <1>1
  <2> HIDE DEF a, b
  <2>8. QED BY <2>6, <2>7
<1>7. /\ Nth(m + 1)'.from = Pushed /\ Nth(m + 1)'.to = Pushed + Chunk
      /\ Pushed \in Nat /\ Pushed' = Pushed + Chunk
  BY <1>1, <1>3, <1>5
<1>8. mElementsFilled' = m + 1 /\ m \in Nat
  BY <1>1, <1>2
<1>9. QED BY <1>4, <1>6, <1>7, <1>8

LEMMA PushKeepsOrder ==
  ASSUME IInv, PushPacket
  PROVE  Ordered'
<1>0. PICK m : m = mElementsFilled
  OBVIOUS
<1>1. /\ \A k \in 1 .. m : Nth(k)' = Nth(k)
      /\ Nth(m + 1)'.from = Pushed /\ Nth(m + 1)'.to = Pushed + Chunk
      /\ Pushed' = Pushed + Chunk /\ Pushed \in Nat /\ Chunk \in Nat \ {0}
      /\ mElementsFilled' = m + 1 /\ m \in Nat
      /\ mTail' = (mHead' + mElementsFilled') % FifoPackets
  BY <1>0, PushRing, Given
<1>2. /\ RingInOrder /\ PoppedInOrder /\ AllThere
      /\ \A k \in 1 .. m :
           Nth(k).from \in Nat /\ Nth(k).to \in Nat /\ Nth(k).to <= Pushed
      /\ hand \in Seq(Nat) /\ air \in Seq(Nat) /\ inflight \in Seq(Seq(Nat))
  <2>1. RingType /\ RingInOrder /\ mElementsFilled \in 0 .. FifoPackets
    BY DEF IInv, TypeOK, RingType
  <2>2. \A k \in 1 .. m : k \in 1 .. FifoPackets
    BY <1>0, <2>1
  <2>3. \A k \in 1 .. m : Nth(k).from \in Nat /\ Nth(k).to \in Nat
    BY <2>1, <2>2, RingSlots
  <2>4. QED BY <1>0, <2>3 DEF IInv, RingInOrder, TypeOK, StreamType
<1>3. UNCHANGED <<hand, inflight, air, calm, mActive>>
  BY DEF PushPacket, outVars
<1>4. \A k \in 1 .. mElementsFilled' : k \in 1 .. m \/ k = m + 1
  BY <1>1
<1>5. RingInOrder'
  <2>1. \A k \in 1 .. mElementsFilled' : Nth(k)'.from < Nth(k)'.to /\ Nth(k)'.to <= Pushed'
    <3>1. SUFFICES ASSUME NEW k \in 1 .. mElementsFilled'
                   PROVE  Nth(k)'.from < Nth(k)'.to /\ Nth(k)'.to <= Pushed'
      OBVIOUS
    <3>2. CASE k \in 1 .. m
      <4>1. Nth(k).from < Nth(k).to
        BY <1>0, <1>2, <3>2 DEF RingInOrder
      <4>2. QED BY <1>1, <1>2, <3>2, <4>1
    <3>3. CASE k = m + 1
      BY <1>1, <3>3
    <3>4. QED BY <1>4, <3>2, <3>3
  <2>2. ASSUME NEW j \in 1 .. mElementsFilled', NEW k \in 1 .. mElementsFilled', j < k
        PROVE  Nth(j)'.to <= Nth(k)'.from
    <3>1. j \in 1 .. m
      BY <1>1, <2>2
    <3>2. CASE k \in 1 .. m
      BY <1>0, <1>1, <1>2, <2>2, <3>1, <3>2 DEF RingInOrder
    <3>3. CASE k = m + 1
      BY <1>1, <1>2, <3>1, <3>3
    <3>4. QED BY <1>4, <3>2, <3>3
  <2>3. QED BY <1>1, <2>1, <2>2 DEF RingInOrder
<1>6. ASSUME NEW s \in Seq(Nat), BeforeRing(s) PROVE BeforeRing(s)'
  <2>1. \A i \in 1 .. Len(s) : s[i] \in Nat
    OBVIOUS
  <2>2. \A i \in 1 .. Len(s) : s[i] < Pushed /\ \A k \in 1 .. m : s[i] < Nth(k).from
    BY <1>0, <1>6 DEF BeforeRing
  <2>3. ASSUME NEW i \in 1 .. Len(s), NEW k \in 1 .. mElementsFilled'
        PROVE  s[i] < Nth(k)'.from
    <3>1. CASE k \in 1 .. m
      BY <1>1, <2>2, <3>1
    <3>2. CASE k = m + 1
      BY <1>1, <2>2, <3>2
    <3>3. QED BY <1>4, <3>1, <3>2
  <2>4. \A i \in 1 .. Len(s) : s[i] < Pushed'
    BY <1>1, <2>1, <2>2
  <2>5. QED BY <2>3, <2>4 DEF BeforeRing
<1>7. PoppedInOrder'
  <2>1. \A p \in 1 .. Len(inflight) : inflight[p] \in Seq(Nat)
    BY <1>2
  <2>2. BeforeRing(air)' /\ BeforeRing(hand)'
        /\ \A p \in 1 .. Len(inflight') : BeforeRing(inflight[p])'
    <3>1. BeforeRing(air) /\ BeforeRing(hand) /\ \A p \in 1 .. Len(inflight) : BeforeRing(inflight[p])
      BY <1>2 DEF PoppedInOrder
    <3>2. QED BY <1>2, <1>3, <1>6, <2>1, <3>1 DEF BeforeRing
  <2>3. QED BY <1>2, <1>3, <2>2 DEF PoppedInOrder, Increasing, Before
<1>8. AllThere'
  <2>1. SUFFICES ASSUME calm, mActive, NEW n \in 0 .. Pushed' - 1
                 PROVE  Has(air, n) \/ InFlight(n) \/ Has(hand, n) \/ RingHas(n)'
    BY <1>3 DEF AllThere, InFlight, Has
  <2>2. CASE n < Pushed
    <3>1. n \in 0 .. Pushed - 1
      BY <1>1, <2>1, <2>2
    <3>2. Has(air, n) \/ InFlight(n) \/ Has(hand, n) \/ RingHas(n)
      BY <1>2, <2>1, <3>1 DEF AllThere
    <3>3. RingHas(n) => RingHas(n)'
      BY <1>0, <1>1 DEF RingHas
    <3>4. QED BY <3>2, <3>3
  <2>3. CASE ~(n < Pushed)
    <3>1. m + 1 \in 1 .. mElementsFilled' /\ n \in Nth(m + 1)'.from .. Nth(m + 1)'.to - 1
      BY <1>1, <2>1, <2>3
    <3>2. QED BY <3>1 DEF RingHas
  <2>4. QED BY <2>2, <2>3
<1>9. QED BY <1>5, <1>7, <1>8 DEF Ordered

(* A pop takes from the front of the ring: every packet left lies behind   *)
(* the cut, and inside one that was there.                                 *)
LEMMA TakeRing ==
  ASSUME IInv, PopTake, NEW cut, cut = slot[mHead].from + Count
  PROVE  /\ RingInOrder'
         /\ \A k \in 1 .. mElementsFilled' : Nth(k)'.from \in Nat /\ cut <= Nth(k)'.from
         /\ \A n \in Nat : RingHas(n) => n < cut \/ RingHas(n)'
<1> DEFINE s == slot[mHead]
<1>0. PICK m : m = mElementsFilled
  OBVIOUS
<1>1. Len(hand) < PacketSize /\ mElementsFilled > 0 /\ mTail' = mTail
  BY DEF PopTake
<1>2. /\ s = Nth(1) /\ s \in [from : Nat, to : Nat]
      /\ Count \in Nat \ {0} /\ cut <= s.to /\ s.from < cut /\ cut \in Nat
  BY SMTT(20), <1>1, Taken
<1>3. /\ RingType /\ RingInOrder /\ m \in 1 .. FifoPackets
      /\ mHead \in 0 .. FifoPackets - 1
      /\ slot \in [0 .. FifoPackets - 1 -> [from : Nat, to : Nat]]
  BY <1>0, <1>1 DEF IInv, TypeOK, RingType
<1>4. /\ \A k \in 1 .. m : Nth(k).from \in Nat /\ Nth(k).to \in Nat
      /\ \A k \in 1 .. m : Nth(k).from < Nth(k).to /\ Nth(k).to <= Pushed
      /\ \A j, k \in 1 .. m : j < k => Nth(j).to <= Nth(k).from
  BY SMTT(20), <1>0, <1>3, RingSlots DEF RingInOrder
<1>5. Pushed' = Pushed /\ Pushed \in Int
  <2>1. Pushed' = Pushed
    BY DEF PopTake, txUnchanged, appVars, Pushed
  <2>2. QED BY <2>1 DEF Pushed, IInv, TypeOK, StreamType
<1>6. CASE cut = s.to
  <2>1. slot' = slot /\ mHead' = (mHead + 1) % FifoPackets /\ mElementsFilled' = m - 1
    BY <1>0, <1>6 DEF PopTake, Count
  <2>2. ASSUME NEW k \in 1 .. m - 1 PROVE Nth(k)' = Nth(k + 1)
    <3>1. k - 1 \in 0 .. FifoPackets - 1
      BY <1>3
    <3>2. (((mHead + 1) % FifoPackets) + (k - 1)) % FifoPackets
            = (mHead + ((k - 1) + 1)) % FifoPackets
      BY <1>3, <3>1, NextPlace
    <3>3. /\ (mHead + ((k - 1) + 1)) = mHead + (k + 1) - 1
          /\ (((mHead + 1) % FifoPackets) + (k - 1)) = ((mHead + 1) % FifoPackets) + k - 1
      BY <1>3, Place
    <3>4. QED BY <2>1, <3>2, <3>3 DEF Nth
  <2>3. \A k \in 1 .. m - 1 : k \in 1 .. m /\ k + 1 \in 1 .. m /\ 1 < k + 1
    BY <1>3
  <2>4. mTail' = (mHead' + mElementsFilled') % FifoPackets
    <3>1. m - 1 \in 0 .. FifoPackets - 1
      BY <1>3
    <3>2. (((mHead + 1) % FifoPackets) + (m - 1)) % FifoPackets
            = (mHead + ((m - 1) + 1)) % FifoPackets
      BY <1>3, <3>1, NextPlace
    <3>3. (m - 1) + 1 = m
      BY <1>3
    <3>4. QED BY <1>0, <1>1, <1>3, <2>1, <3>2, <3>3 DEF RingInOrder
  <2>5. \A k \in 1 .. m - 1 : Nth(k)'.from < Nth(k)'.to /\ Nth(k)'.to <= Pushed'
    BY <1>4, <1>5, <2>2, <2>3
  <2>6. ASSUME NEW j \in 1 .. m - 1, NEW k \in 1 .. m - 1, j < k
        PROVE  Nth(j)'.to <= Nth(k)'.from
    <3>1. j + 1 \in 1 .. m /\ k + 1 \in 1 .. m /\ j + 1 < k + 1
      BY <1>3, <2>6
    <3>2. QED BY <1>4, <2>2, <3>1
  <2>7. RingInOrder'
    BY <2>1, <2>4, <2>5, <2>6 DEF RingInOrder
  <2>8. ASSUME NEW k \in 1 .. m - 1 PROVE Nth(k)'.from \in Nat /\ cut <= Nth(k)'.from
    <3>1. 1 \in 1 .. m /\ k + 1 \in 1 .. m /\ 1 < k + 1
      BY <1>3
    <3>2. QED BY <1>2, <1>4, <1>6, <2>2, <3>1
  <2>9. ASSUME NEW n \in Nat, RingHas(n) PROVE n < cut \/ RingHas(n)'
    <3>1. PICK k \in 1 .. m : n \in Nth(k).from .. Nth(k).to - 1
      BY <1>0, <2>9 DEF RingHas
    <3>2. CASE k = 1
      BY <1>2, <1>4, <1>6, <3>1, <3>2
    <3>3. CASE k # 1
      <4>1. k - 1 \in 1 .. m - 1 /\ (k - 1) + 1 = k
        BY <1>3, <3>3
      <4>2. Nth(k - 1)' = Nth(k)
        BY <2>2, <4>1
      <4>3. QED BY <2>1, <3>1, <4>1, <4>2 DEF RingHas
    <3>4. QED BY <3>2, <3>3
  <2>10. QED BY <2>1, <2>7, <2>8, <2>9
<1>7. CASE cut # s.to
  <2>1. /\ slot' = [slot EXCEPT ![mHead].from = cut]
        /\ mHead' = mHead /\ mElementsFilled' = m
    BY <1>0, <1>7 DEF PopTake, Count
  <2>2. Nth(1)'.from = cut /\ Nth(1)'.to = Nth(1).to
    <3>1. (mHead' + 1 - 1) % FifoPackets = mHead
      BY <1>3, <2>1, FirstPlace
    <3>2. Nth(1)' = slot'[mHead]
      BY <3>1 DEF Nth
    <3>3. slot'[mHead].from = cut /\ slot'[mHead].to = s.to
      BY <1>3, <2>1
    <3>4. QED BY <1>2, <3>2, <3>3
  <2>3. ASSUME NEW k \in 2 .. m PROVE Nth(k)' = Nth(k)
    <3>1. k \in 1 .. FifoPackets /\ 1 \in 1 .. FifoPackets /\ k # 1
      BY <1>3
    <3>2. /\ (mHead + k - 1) % FifoPackets \in 0 .. FifoPackets - 1
          /\ (mHead + k - 1) % FifoPackets # (mHead + 1 - 1) % FifoPackets
      BY <1>3, <3>1, RingSlots
    <3>3. (mHead + 1 - 1) % FifoPackets = mHead
      BY <1>3, FirstPlace
    <3>4. QED BY <1>3, <2>1, <3>2, <3>3 DEF Nth
  <2>4. \A k \in 1 .. m : k = 1 \/ (k \in 2 .. m /\ 1 < k /\ 1 \in 1 .. m)
    BY <1>3
  <2>5. \A k \in 1 .. m : /\ Nth(k)'.to = Nth(k).to
                            /\ Nth(k)'.from \in Nat /\ cut <= Nth(k)'.from
    BY <1>2, <1>4, <2>2, <2>3, <2>4
  <2>6. \A k \in 1 .. m : Nth(k)'.from < Nth(k)'.to
    BY <1>2, <1>4, <1>7, <2>2, <2>3, <2>4
  <2>7. ASSUME NEW j \in 1 .. m, NEW k \in 1 .. m, j < k
        PROVE  Nth(j)'.to <= Nth(k)'.from
    <3>1. k \in 2 .. m
      BY <1>3, <2>7
    <3>2. QED BY <1>4, <2>3, <2>5, <2>7, <3>1
  <2>8. mTail' = (mHead' + mElementsFilled') % FifoPackets
    BY <1>0, <1>1, <1>3, <2>1 DEF RingInOrder
  <2>9. RingInOrder'
    BY <1>4, <1>5, <2>1, <2>5, <2>6, <2>7, <2>8 DEF RingInOrder
  <2>10. ASSUME NEW n \in Nat, RingHas(n) PROVE n < cut \/ RingHas(n)'
    <3>1. PICK k \in 1 .. m : n \in Nth(k).from .. Nth(k).to - 1
      BY <1>0, <2>10 DEF RingHas
    <3>2. CASE k = 1
      BY SMTT(20), <1>2, <1>3, <1>4, <2>1, <2>2, <3>1, <3>2 DEF RingHas
    <3>3. CASE k # 1
      <4>1. Nth(k)' = Nth(k)
        BY <2>3, <2>4, <3>3
      <4>2. QED BY <2>1, <3>1, <4>1 DEF RingHas
    <3>4. QED BY <3>2, <3>3
  <2>11. QED BY <2>1, <2>5, <2>9, <2>10
<1>8. QED BY <1>6, <1>7

LEMMA TakeKeepsOrder ==
  ASSUME IInv, PopTake
  PROVE  Ordered'
<1> DEFINE s == slot[mHead]
           taken == Samples([s EXCEPT !.to = s.from + Count])
<1>1. PICK cut : cut = s.from + Count
  OBVIOUS
<1>2. /\ Len(hand) < PacketSize /\ mElementsFilled > 0 /\ hand' = hand \o taken
      /\ UNCHANGED <<inflight, air, calm, mActive>>
      /\ Pushed' = Pushed
  BY DEF PopTake, Count, outVars, txUnchanged, appVars, Pushed
<1>3. /\ s = Nth(1) /\ s \in [from : Nat, to : Nat]
      /\ Count \in Nat \ {0} /\ cut <= s.to /\ s.from < cut /\ cut \in Nat
      /\ taken \in Seq(Nat) /\ Len(taken) = Count
      /\ \A i \in 1 .. Count : taken[i] = s.from + i - 1
  <2>1. /\ s = Nth(1) /\ s \in [from : Nat, to : Nat]
        /\ Count \in Nat \ {0} /\ s.from + Count <= s.to
        /\ taken \in Seq(Nat) /\ Len(taken) = Count
        /\ \A i \in 1 .. Count : taken[i] = s.from + i - 1
    BY <1>2, Taken
  <2> HIDE DEF s, taken
  <2>2. s.from < cut /\ cut \in Nat /\ cut <= s.to
    BY <1>1, <2>1
  <2>3. QED BY <2>1, <2>2
<1> DEFINE first == s.from
<1> HIDE DEF s, taken
<1>4. /\ first \in Nat /\ cut = first + Count /\ first = Nth(1).from
      /\ \A i \in 1 .. Len(taken) : taken[i] = first + i - 1 /\ taken[i] < cut
  <2>1. first \in Nat /\ cut = first + Count /\ first = Nth(1).from
    BY <1>1, <1>3
  <2> HIDE DEF first
  <2>2. \A i \in 1 .. Len(taken) : taken[i] = first + i - 1
    BY <1>3 DEF first
  <2>3. \A i \in 1 .. Len(taken) : taken[i] < cut
    BY <1>3, <2>1, <2>2
  <2>4. QED BY <2>1, <2>2, <2>3
<1> HIDE DEF first
<1>5. /\ RingInOrder'
      /\ \A k \in 1 .. mElementsFilled' : Nth(k)'.from \in Nat /\ cut <= Nth(k)'.from
      /\ \A n \in Nat : RingHas(n) => n < cut \/ RingHas(n)'
  BY <1>1, TakeRing DEF s
<1>6. /\ 1 \in 1 .. mElementsFilled /\ Nth(1).to <= Pushed /\ Pushed \in Int
      /\ hand \in Seq(Nat) /\ air \in Seq(Nat) /\ inflight \in Seq(Seq(Nat))
      /\ \A p \in 1 .. Len(inflight) : inflight[p] \in Seq(Nat)
      /\ PoppedInOrder /\ AllThere
      /\ \A k \in 1 .. mElementsFilled : Nth(1).from <= Nth(k).from
  <2>1. /\ mElementsFilled \in 0 .. FifoPackets /\ 1 \in 1 .. mElementsFilled
    BY <1>2 DEF IInv, TypeOK, RingType
  <2>2. Pushed \in Int
    BY DEF Pushed, IInv, TypeOK, StreamType
  <2>3. \A k \in 1 .. mElementsFilled : Nth(k).from \in Nat /\ Nth(k).to \in Nat
    <3>1. RingType /\ RingInOrder /\ \A k \in 1 .. mElementsFilled : k \in 1 .. FifoPackets
      BY <2>1 DEF IInv, TypeOK
    <3>2. QED BY <3>1, RingSlots
  <2>4. /\ Nth(1).from < Nth(1).to /\ Nth(1).to <= Pushed
        /\ \A k \in 1 .. mElementsFilled : 1 < k => Nth(1).to <= Nth(k).from
    BY <2>1 DEF IInv, RingInOrder
  <2>5. ASSUME NEW k \in 1 .. mElementsFilled PROVE Nth(1).from <= Nth(k).from
    BY <2>1, <2>3, <2>4
  <2>6. QED BY <2>1, <2>2, <2>4, <2>5 DEF IInv, TypeOK, StreamType
<1>7. ASSUME NEW t \in Seq(Nat), BeforeRing(t)
      PROVE  BeforeRing(t)' /\ Before(t, taken)
  <2>1. \A i \in 1 .. Len(t) : t[i] \in Nat /\ t[i] < Pushed /\ t[i] < first
    BY <1>4, <1>6, <1>7 DEF BeforeRing
  <2>2. BeforeRing(t)'
    <3>1. ASSUME NEW i \in 1 .. Len(t), NEW k \in 1 .. mElementsFilled'
          PROVE  t[i] < Nth(k)'.from
      BY SMTT(20), <1>3, <1>4, <1>5, <2>1
    <3>2. QED BY <1>2, <2>1, <3>1 DEF BeforeRing
  <2>3. \A i \in 1 .. Len(t), j \in 1 .. Len(taken) : t[i] < taken[j]
    BY SMTT(20), <1>3, <1>4, <2>1
  <2>4. QED BY <2>2, <2>3 DEF Before
<1>8. BeforeRing(air) /\ BeforeRing(hand)
      /\ \A p \in 1 .. Len(inflight) : BeforeRing(inflight[p])
  BY <1>6 DEF PoppedInOrder
<1>9. Increasing(hand')
  <2>1. Increasing(taken)
    BY <1>3, <1>4 DEF Increasing
  <2>2. Increasing(hand) /\ Before(hand, taken)
    BY <1>6, <1>7, <1>8 DEF PoppedInOrder
  <2>3. QED BY <1>2, <1>3, <1>6, <2>1, <2>2, JoinIncreasing
<1>10. Before(air, hand') /\ \A p \in 1 .. Len(inflight) : Before(inflight[p], hand')
  <2>1. Before(air, hand) /\ Before(air, taken)
    BY <1>6, <1>7, <1>8 DEF PoppedInOrder
  <2>2. \A p \in 1 .. Len(inflight) : Before(inflight[p], hand) /\ Before(inflight[p], taken)
    BY <1>6, <1>7, <1>8 DEF PoppedInOrder
  <2>3. QED BY <1>2, <1>3, <1>6, <2>1, <2>2, JoinBefore
<1>11. BeforeRing(hand)'
  <2>1. /\ \A i \in 1 .. Len(hand) : hand[i] < Pushed' /\ \A k \in 1 .. mElementsFilled' : hand[i] < Nth(k)'.from
    <3>1. PICK h : h = hand
      OBVIOUS
    <3>2. BeforeRing(h)'
      BY <1>6, <1>7, <1>8, <3>1
    <3>3. QED BY <3>1, <3>2 DEF BeforeRing
  <2>2. /\ \A i \in 1 .. Len(taken) : taken[i] < Pushed' /\ \A k \in 1 .. mElementsFilled' : taken[i] < Nth(k)'.from
    <3>1. PICK h : h = taken
      OBVIOUS
    <3>2. \A i \in 1 .. Len(h) : h[i] \in Nat /\ h[i] < cut
      <4>1. h \in Seq(Nat) /\ \A i \in 1 .. Len(h) : h[i] < cut
        BY <1>3, <1>4, <3>1
      <4>2. \A i \in 1 .. Len(h) : h[i] \in Nat
        BY <4>1
      <4>3. QED BY <4>1, <4>2
    <3>3. cut <= Pushed
      BY <1>3, <1>6
    <3>4. \A i \in 1 .. Len(h) : h[i] < Pushed
      BY SMTT(20), <1>3, <1>6, <3>2, <3>3
    <3>5. ASSUME NEW i \in 1 .. Len(h), NEW k \in 1 .. mElementsFilled'
          PROVE  h[i] < Nth(k)'.from
      BY <1>3, <1>5, <3>2
    <3>6. QED BY <1>2, <3>1, <3>4, <3>5
  <2>3. PICK h : h = hand'
    OBVIOUS
  <2>4. ASSUME NEW i \in 1 .. Len(h)
        PROVE  \/ \E j \in 1 .. Len(hand) : h[i] = hand[j]
               \/ \E j \in 1 .. Len(taken) : h[i] = taken[j]
    <3>1. h = hand \o taken /\ i \in 1 .. Len(hand \o taken)
      BY <1>2, <2>3, <2>4
    <3>2. PICK t : t = taken
      OBVIOUS
    <3>3. PICK g : g = hand
      OBVIOUS
    <3>4. t \in Seq(Nat) /\ g \in Seq(Nat)
      BY <1>3, <1>6, <3>2, <3>3
    <3>5. h = g \o t /\ i \in 1 .. Len(g \o t)
      BY <3>1, <3>2, <3>3
    <3>6. (\E j \in 1 .. Len(g) : h[i] = g[j]) \/ (\E j \in 1 .. Len(t) : h[i] = t[j])
      BY <3>4, <3>5, JoinElements
    <3>7. QED BY <3>2, <3>3, <3>6
  <2>5. ASSUME NEW i \in 1 .. Len(h)
        PROVE  h[i] < Pushed' /\ \A k \in 1 .. mElementsFilled' : h[i] < Nth(k)'.from
    BY <2>1, <2>2, <2>4
  <2>6. QED BY <2>3, <2>5 DEF BeforeRing
<1>12. PoppedInOrder'
  <2>1. BeforeRing(air)' /\ \A p \in 1 .. Len(inflight') : BeforeRing(inflight[p])'
    BY <1>2, <1>6, <1>7, <1>8 DEF BeforeRing
  <2>2. QED BY ZenonT(40), <1>2, <1>6, <1>9, <1>10, <1>11, <2>1
       DEF PoppedInOrder, Increasing, Before
<1>13. AllThere'
  <2>1. SUFFICES ASSUME calm, mActive, NEW n \in 0 .. Pushed - 1
                 PROVE  Has(air, n) \/ InFlight(n) \/ Has(hand', n) \/ RingHas(n)'
    BY <1>2 DEF AllThere, InFlight, Has
  <2>2. Has(air, n) \/ InFlight(n) \/ Has(hand, n) \/ RingHas(n)
    BY <1>6, <2>1 DEF AllThere
  <2>3. CASE Has(hand, n)
    BY <1>2, <1>3, <1>6, <2>3, JoinHas
  <2>4. CASE RingHas(n)
    <3>1. n \in Nat /\ first <= n
      <4>1. PICK k \in 1 .. mElementsFilled : n \in Nth(k).from .. Nth(k).to - 1
        BY <2>4 DEF RingHas
      <4>2. Nth(k).from \in Int
        <5>1. RingType /\ RingInOrder /\ k \in 1 .. FifoPackets
          BY DEF IInv, TypeOK, RingType
        <5>2. QED BY <5>1, RingSlots
      <4>3. QED BY <1>4, <1>6, <2>1, <4>1, <4>2
    <3>2. CASE n < cut
      <4>1. n - first + 1 \in 1 .. Len(taken) /\ taken[n - first + 1] = n
        BY <1>3, <1>4, <3>1, <3>2
      <4>2. Has(taken, n)
        BY <4>1 DEF Has
      <4>3. QED BY <1>2, <1>3, <1>6, <4>2, JoinHas
    <3>3. QED BY <1>5, <2>4, <3>1, <3>2
  <2>5. QED BY <2>2, <2>3, <2>4
<1>14. QED BY <1>5, <1>12, <1>13 DEF Ordered

(* What leaves the ring alone, and takes no write back.                    *)
LEMMA RingAlone ==
  ASSUME IInv, UNCHANGED fifoVars, Pushed' \in Int, Pushed <= Pushed'
  PROVE  /\ RingInOrder'
         /\ \A s \in Seq(Nat) : BeforeRing(s) => BeforeRing(s)'
         /\ \A n : RingHas(n) => RingHas(n)'
<1>1. /\ \A k : Nth(k)' = Nth(k)
      /\ mHead' = mHead /\ mTail' = mTail /\ mElementsFilled' = mElementsFilled
  BY DEF Nth, fifoVars
<1>2. Pushed \in Int
  BY DEF Pushed, IInv, TypeOK, StreamType
<1>3. RingInOrder'
  <2>1. \A k \in 1 .. mElementsFilled : Nth(k).from \in Nat /\ Nth(k).to \in Nat
    <3>1. /\ RingType /\ RingInOrder
          /\ \A k \in 1 .. mElementsFilled : k \in 1 .. FifoPackets
      BY DEF IInv, TypeOK, RingType
    <3>2. QED BY <3>1, RingSlots
  <2>2. \A k \in 1 .. mElementsFilled : Nth(k).to <= Pushed'
    BY <1>2, <2>1 DEF IInv, RingInOrder
  <2>3. QED BY <1>1, <2>2 DEF IInv, RingInOrder
<1>4. ASSUME NEW s \in Seq(Nat), BeforeRing(s) PROVE BeforeRing(s)'
  <2>1. \A i \in 1 .. Len(s) : s[i] \in Nat /\ s[i] < Pushed
    BY <1>4 DEF BeforeRing
  <2>2. \A i \in 1 .. Len(s) : s[i] < Pushed'
    BY <1>2, <2>1
  <2>3. QED BY <1>1, <1>4, <2>2 DEF BeforeRing
<1>5. \A n : RingHas(n) => RingHas(n)'
  BY <1>1 DEF RingHas
<1>6. QED BY <1>3, <1>4, <1>5

(* A stream starts with an empty ring.                                     *)
LEMMA StartKeepsOrder ==
  ASSUME IInv, Start
  PROVE  Ordered'
<1>1. /\ mHead' = 0 /\ mTail' = 0 /\ mElementsFilled' = 0
      /\ pcApp = "start" /\ pcApp' \in {"write", "stop"}
      /\ UNCHANGED <<written, hand, inflight, air>>
  BY DEF Start, appVars, outVars
<1>2. written = 0 /\ Pushed' = 0 /\ Pushed = 0
  BY <1>1 DEF IInv, Control, Pushed
<1>3. RingInOrder'
  <2>1. mTail' = (mHead' + mElementsFilled') % FifoPackets
    <3>1. (0 + 0) % FifoPackets = 0
      BY Place, StreamSizes
    <3>2. QED BY <1>1, <3>1
  <2>2. QED BY <1>1, <2>1 DEF RingInOrder
<1>4. PoppedInOrder'
  <2>1. BeforeRing(air)' /\ BeforeRing(hand)'
        /\ \A p \in 1 .. Len(inflight') : BeforeRing(inflight[p])'
    BY <1>1, <1>2 DEF IInv, PoppedInOrder, BeforeRing
  <2>2. QED BY <1>1, <2>1 DEF IInv, PoppedInOrder, Increasing, Before
<1>5. AllThere'
  BY <1>2 DEF AllThere
<1>6. QED BY <1>3, <1>4, <1>5 DEF Ordered

(* The rest of a write is given up: its samples count as pushed, and the   *)
(* stream is not calm any more.                                            *)
LEMMA GiveUpKeepsOrder ==
  ASSUME IInv, PushGiveUp
  PROVE  Ordered'
<1>1. /\ UNCHANGED fifoVars /\ UNCHANGED <<hand, inflight, air>> /\ ~calm'
      /\ written' = written + WriteSize
      /\ pcApp = "push" /\ pcApp' \in {"write", "stop"}
  BY DEF PushGiveUp, NextWrite, outVars
<1>2. Pushed' \in Int /\ Pushed <= Pushed'
  <2>1. /\ written \in Nat /\ samplesTaken \in 0 .. WriteSize /\ WriteSize \in Nat
    BY StreamSizes DEF IInv, TypeOK, StreamType
  <2>2. Pushed = written + samplesTaken /\ Pushed' = written + WriteSize
    BY <1>1 DEF Pushed
  <2>3. QED BY <2>1, <2>2
<1>3. /\ RingInOrder' /\ \A s \in Seq(Nat) : BeforeRing(s) => BeforeRing(s)'
  BY <1>1, <1>2, RingAlone
<1>4. PoppedInOrder'
  <2>1. /\ hand \in Seq(Nat) /\ air \in Seq(Nat)
        /\ \A p \in 1 .. Len(inflight) : inflight[p] \in Seq(Nat)
    BY DEF IInv, TypeOK, StreamType
  <2>2. BeforeRing(air) /\ BeforeRing(hand)
        /\ \A p \in 1 .. Len(inflight) : BeforeRing(inflight[p])
    BY DEF IInv, PoppedInOrder
  <2>3. BeforeRing(air)' /\ BeforeRing(hand)'
        /\ \A p \in 1 .. Len(inflight') : BeforeRing(inflight[p])'
    BY <1>1, <1>3, <2>1, <2>2 DEF BeforeRing
  <2>4. QED BY SMTT(20), <1>1, <2>3 DEF IInv, PoppedInOrder, Increasing, Before
<1>5. AllThere'
  BY <1>1 DEF AllThere
<1>6. QED BY <1>3, <1>4, <1>5 DEF Ordered

(* The thread hands over what it popped, or drops it and ends.             *)
LEMMA SendKeepsOrder ==
  ASSUME IInv, Send
  PROVE  Ordered'
<1>1. /\ UNCHANGED fifoVars /\ UNCHANGED <<air, calm, mActive>> /\ hand' = <<>>
      /\ Pushed' = Pushed
  BY DEF Send, txUnchanged, appVars, Pushed
<1>2. Pushed' \in Int /\ Pushed <= Pushed'
  BY <1>1 DEF Pushed, IInv, TypeOK, StreamType
<1>3. /\ RingInOrder' /\ \A s \in Seq(Nat) : BeforeRing(s) => BeforeRing(s)'
      /\ \A n : RingHas(n) => RingHas(n)'
  BY <1>1, <1>2, RingAlone
<1>4. /\ hand \in Seq(Nat) /\ air \in Seq(Nat) /\ inflight \in Seq(Seq(Nat))
      /\ \A p \in 1 .. Len(inflight) : inflight[p] \in Seq(Nat)
      /\ Len(hand') = 0
  BY <1>1 DEF IInv, TypeOK, StreamType
<1>5. /\ BeforeRing(air) /\ BeforeRing(hand)
      /\ \A p \in 1 .. Len(inflight) : BeforeRing(inflight[p])
      /\ PoppedInOrder /\ AllThere
  BY DEF IInv, PoppedInOrder
<1>6. BeforeRing(air)' /\ BeforeRing(hand)'
  <2>1. BeforeRing(air)'
    BY <1>1, <1>3, <1>4, <1>5 DEF BeforeRing
  <2>2. BeforeRing(hand)'
    BY <1>4 DEF BeforeRing
  <2>3. QED BY <2>1, <2>2
<1>7. CASE terminateTx
  <2>1. inflight' = inflight /\ ~(calm' /\ mActive')
    BY <1>1, <1>7 DEF Send, IInv, Control
  <2>2. \A p \in 1 .. Len(inflight') : BeforeRing(inflight[p])'
    BY <1>3, <1>4, <1>5, <2>1 DEF BeforeRing
  <2>3. PoppedInOrder'
    <3>1. /\ Increasing(hand') /\ Before(air, hand')
          /\ \A p \in 1 .. Len(inflight) : Before(inflight[p], hand')
      BY <1>4 DEF Increasing, Before
    <3>2. QED BY SMTT(60), <1>1, <1>5, <1>6, <2>1, <2>2, <3>1
         DEF PoppedInOrder, Increasing, Before
  <2>4. AllThere'
    BY <2>1 DEF AllThere
  <2>5. QED BY <1>3, <2>3, <2>4 DEF Ordered
<1>8. CASE ~terminateTx
  <2>1. PICK l \in Nat : l = Len(inflight)
    BY <1>4
  <2>2. /\ Len(inflight') = l + 1 /\ inflight'[l + 1] = hand
        /\ \A p \in 1 .. l : inflight'[p] = inflight[p]
    <3>1. inflight' = Append(inflight, hand)
      BY <1>8 DEF Send
    <3>2. QED BY <1>4, <2>1, <3>1
  <2>3. \A p \in 1 .. Len(inflight') : p \in 1 .. l \/ p = l + 1
    BY <2>2
  <2>4. \A p \in 1 .. Len(inflight') : BeforeRing(inflight[p])'
    <3>1. ASSUME NEW p \in 1 .. Len(inflight') PROVE BeforeRing(inflight[p])'
      <4>1. CASE p \in 1 .. l
        BY <1>3, <1>4, <1>5, <2>1, <2>2, <4>1 DEF BeforeRing
      <4>2. CASE p = l + 1
        <5>1. inflight'[p] = hand
          BY <2>2, <4>2
        <5>2. QED BY <1>3, <1>4, <1>5, <5>1 DEF BeforeRing
      <4>3. QED BY <2>3, <4>1, <4>2
    <3>2. QED BY <3>1
  <2>5. PoppedInOrder'
    <3>1. Increasing(hand') /\ Before(air, hand') /\ Increasing(air)
      BY <1>4, <1>5 DEF PoppedInOrder, Increasing, Before
    <3>2. ASSUME NEW p \in 1 .. Len(inflight')
          PROVE  /\ Increasing(inflight'[p]) /\ Before(air, inflight'[p])
                 /\ Before(inflight'[p], hand')
      <4>1. Before(inflight'[p], hand')
        BY <1>4 DEF Before
      <4>2. QED BY <1>5, <2>1, <2>2, <2>3, <4>1 DEF PoppedInOrder
    <3>3. ASSUME NEW p \in 1 .. Len(inflight'), NEW q \in 1 .. Len(inflight'), p < q
          PROVE  Before(inflight'[p], inflight'[q])
      <4>1. p \in 1 .. l
        BY <2>1, <2>2, <3>3
      <4>2. QED BY <1>5, <2>1, <2>2, <2>3, <3>3, <4>1 DEF PoppedInOrder
    <3>4. QED BY <1>1, <1>6, <2>4, <3>1, <3>2, <3>3 DEF PoppedInOrder, Increasing, Before
  <2>6. AllThere'
    <3>1. SUFFICES ASSUME calm, mActive, NEW n \in 0 .. Pushed - 1
                   PROVE  Has(air, n) \/ InFlight(n)' \/ RingHas(n)'
      BY <1>1 DEF AllThere, Has
    <3>2. Has(air, n) \/ InFlight(n) \/ Has(hand, n) \/ RingHas(n)
      BY <1>5, <3>1 DEF AllThere
    <3>3. ASSUME InFlight(n) PROVE InFlight(n)'
      <4>1. PICK p \in 1 .. l : Has(inflight[p], n)
        BY <2>1, <3>3 DEF InFlight
      <4>2. p \in 1 .. Len(inflight') /\ Has(inflight'[p], n)
        BY <2>2, <4>1
      <4>3. QED BY <4>2 DEF InFlight, Has
    <3>4. ASSUME Has(hand, n) PROVE InFlight(n)'
      <4>1. l + 1 \in 1 .. Len(inflight') /\ Has(inflight'[l + 1], n)
        BY <2>1, <2>2, <3>4
      <4>2. QED BY <4>1 DEF InFlight, Has
    <3>5. QED BY <1>3, <3>2, <3>3, <3>4
  <2>7. QED BY <1>3, <2>5, <2>6 DEF Ordered
<1>9. QED BY <1>7, <1>8

(* The thread drops what it holds and what is under way, and ends.         *)
LEMMA AbortKeepsOrder ==
  ASSUME IInv, Abort
  PROVE  Ordered'
<1>1. /\ UNCHANGED fifoVars /\ UNCHANGED <<air, calm, mActive>>
      /\ hand' = <<>> /\ inflight' = <<>> /\ Pushed' = Pushed
  BY DEF Abort, txUnchanged, appVars, Pushed
<1>2. Pushed' \in Int /\ Pushed <= Pushed'
  BY <1>1 DEF Pushed, IInv, TypeOK, StreamType
<1>3. /\ RingInOrder' /\ \A s \in Seq(Nat) : BeforeRing(s) => BeforeRing(s)'
  BY <1>1, <1>2, RingAlone
<1>4. PoppedInOrder'
  <2>1. air \in Seq(Nat) /\ BeforeRing(air) /\ Increasing(air)
        /\ Len(hand') = 0 /\ Len(inflight') = 0
    BY <1>1 DEF IInv, TypeOK, StreamType, PoppedInOrder
  <2>2. BeforeRing(air)' /\ BeforeRing(hand)'
    BY <1>1, <1>3, <2>1 DEF BeforeRing
  <2>3. QED BY <1>1, <2>1, <2>2 DEF PoppedInOrder, Increasing, Before
<1>5. AllThere'
  BY <1>1 DEF AllThere, Abort, IInv, Control
<1>6. QED BY <1>3, <1>4, <1>5 DEF Ordered

(* The device sends the packet it was given first.                         *)
LEMMA DeviceKeepsOrder ==
  ASSUME IInv, Device
  PROVE  Ordered'
<1>1. /\ UNCHANGED fifoVars /\ UNCHANGED <<hand, calm, mActive>> /\ Pushed' = Pushed
      /\ inflight # <<>> /\ air' = air \o Head(inflight) /\ inflight' = Tail(inflight)
  BY DEF Device, appVars, Pushed
<1>2. Pushed' \in Int /\ Pushed <= Pushed'
  BY <1>1 DEF Pushed, IInv, TypeOK, StreamType
<1>3. /\ RingInOrder' /\ \A s \in Seq(Nat) : BeforeRing(s) => BeforeRing(s)'
      /\ \A n : RingHas(n) => RingHas(n)'
  BY <1>1, <1>2, RingAlone
<1>4. /\ hand \in Seq(Nat) /\ air \in Seq(Nat) /\ inflight \in Seq(Seq(Nat))
      /\ \A p \in 1 .. Len(inflight) : inflight[p] \in Seq(Nat)
  BY DEF IInv, TypeOK, StreamType
<1>5. PICK l \in Nat : l = Len(inflight)
  BY <1>4
<1>6. PICK first : first = inflight[1]
  OBVIOUS
<1>7. /\ 1 \in 1 .. l /\ air' = air \o first /\ Len(inflight') = l - 1
      /\ \A p \in 1 .. l - 1 : inflight'[p] = inflight[p + 1]
      /\ \A p \in 1 .. l - 1 : p + 1 \in 1 .. l /\ 1 < p + 1
  BY <1>1, <1>4, <1>5, <1>6
<1>8. first \in Seq(Nat)
  BY <1>4, <1>5, <1>6, <1>7
<1>9. /\ BeforeRing(air) /\ BeforeRing(hand) /\ BeforeRing(first)
      /\ \A p \in 1 .. l : BeforeRing(inflight[p])
      /\ PoppedInOrder /\ AllThere
  BY <1>5, <1>6, <1>7 DEF IInv, PoppedInOrder
<1>10. /\ Increasing(air) /\ Increasing(first) /\ Before(air, first)
       /\ Before(air, hand) /\ Before(first, hand)
       /\ \A p \in 1 .. l : 1 < p => Before(air, inflight[p]) /\ Before(first, inflight[p])
  BY <1>5, <1>6, <1>7, <1>9 DEF PoppedInOrder
<1>11. PICK sent : sent = air'
  OBVIOUS
<1>12. Increasing(sent) /\ Before(sent, hand)
  BY <1>4, <1>7, <1>8, <1>10, <1>11, JoinIncreasing, JoinBefore
<1>13. \A p \in 1 .. l : 1 < p => Before(sent, inflight[p])
  BY <1>4, <1>5, <1>7, <1>8, <1>10, <1>11, JoinBefore
<1>14. BeforeRing(sent) /\ sent \in Seq(Nat)
  BY <1>4, <1>7, <1>8, <1>9, <1>11, JoinBeforeRing
<1>15. /\ BeforeRing(air)' /\ BeforeRing(hand)'
       /\ \A p \in 1 .. Len(inflight') : BeforeRing(inflight[p])'
  <2>1. BeforeRing(air)'
    BY <1>3, <1>11, <1>14 DEF BeforeRing
  <2>2. BeforeRing(hand)'
    BY <1>1, <1>3, <1>4, <1>9 DEF BeforeRing
  <2>3. ASSUME NEW p \in 1 .. Len(inflight') PROVE BeforeRing(inflight[p])'
    <3>1. p + 1 \in 1 .. l /\ inflight'[p] = inflight[p + 1]
      BY <1>7
    <3>2. BeforeRing(inflight[p + 1]) /\ inflight[p + 1] \in Seq(Nat)
      BY <1>4, <1>5, <1>9, <3>1
    <3>3. PICK f : f = inflight[p + 1]
      OBVIOUS
    <3>4. BeforeRing(f)' /\ inflight'[p] = f
      BY <1>3, <3>1, <3>2, <3>3
    <3>5. QED BY <3>4 DEF BeforeRing
  <2>4. QED BY <2>1, <2>2, <2>3
<1>16. PoppedInOrder'
  <2>1. ASSUME NEW p \in 1 .. Len(inflight')
        PROVE  /\ Increasing(inflight'[p]) /\ Before(sent, inflight'[p])
               /\ Before(inflight'[p], hand)
    <3>1. p + 1 \in 1 .. l /\ 1 < p + 1 /\ inflight'[p] = inflight[p + 1]
      BY <1>7
    <3>2. QED BY <1>5, <1>9, <1>13, <3>1 DEF PoppedInOrder
  <2>2. ASSUME NEW p \in 1 .. Len(inflight'), NEW q \in 1 .. Len(inflight'), p < q
        PROVE  Before(inflight'[p], inflight'[q])
    <3>1. /\ p + 1 \in 1 .. l /\ q + 1 \in 1 .. l /\ p + 1 < q + 1
          /\ inflight'[p] = inflight[p + 1] /\ inflight'[q] = inflight[q + 1]
      BY <1>7, <2>2
    <3>2. QED BY <1>5, <1>9, <3>1 DEF PoppedInOrder
  <2>3. Increasing(hand)
    BY <1>9 DEF PoppedInOrder
  <2>4. QED BY <1>1, <1>11, <1>12, <1>15, <2>1, <2>2, <2>3
               DEF PoppedInOrder, Increasing, Before
<1>17. AllThere'
  <2>1. SUFFICES ASSUME calm, mActive, NEW n \in 0 .. Pushed - 1
                 PROVE  Has(sent, n) \/ InFlight(n)' \/ Has(hand, n) \/ RingHas(n)'
    BY <1>1, <1>11 DEF AllThere, Has
  <2>2. Has(air, n) \/ InFlight(n) \/ Has(hand, n) \/ RingHas(n)
    BY <1>9, <2>1 DEF AllThere
  <2>3. CASE Has(air, n)
    BY <1>4, <1>7, <1>8, <1>11, <2>3, JoinHas
  <2>4. CASE InFlight(n)
    <3>1. PICK p \in 1 .. l : Has(inflight[p], n)
      BY <1>5, <2>4 DEF InFlight
    <3>2. CASE p = 1
      <4>1. Has(first, n)
        BY <1>6, <3>1, <3>2
      <4>2. QED BY <1>4, <1>7, <1>8, <1>11, <4>1, JoinHas
    <3>3. CASE p # 1
      <4>1. p - 1 \in 1 .. l - 1 /\ (p - 1) + 1 = p
        BY <3>3
      <4>2. p - 1 \in 1 .. Len(inflight') /\ Has(inflight'[p - 1], n)
        BY <1>7, <3>1, <4>1
      <4>3. QED BY <4>2 DEF InFlight, Has
    <3>4. QED BY <3>2, <3>3
  <2>5. QED BY <1>3, <2>2, <2>3, <2>4
<1>18. QED BY <1>3, <1>16, <1>17 DEF Ordered

LEMMA NextOrdered ==
  ASSUME IInv, [Next]_vars
  PROVE  Ordered'
<1>1. CASE Start
  BY <1>1, StartKeepsOrder
<1>2. CASE PushGiveUp
  BY <1>2, GiveUpKeepsOrder
<1>3. CASE PushPacket
  BY <1>3, PushKeepsOrder
<1>4. CASE PopTake
  BY <1>4, TakeKeepsOrder
<1>5. CASE Send
  BY <1>5, SendKeepsOrder
<1>6. CASE Abort
  BY <1>6, AbortKeepsOrder
<1>7. CASE Device
  BY <1>7, DeviceKeepsOrder
<1>8. CASE ~(\/ Start \/ PushGiveUp \/ PushPacket \/ PopTake \/ Send \/ Abort \/ Device)
  <2>1. UNCHANGED <<slot, mHead, mTail, mElementsFilled>>
    BY <1>8, RingUntouched
  <2>2. Pushed' = Pushed
    BY <1>8, PushedUnchanged
  <2>3. /\ UNCHANGED <<inflight, air>> /\ (UNCHANGED hand \/ (Read /\ hand' = <<>>))
        /\ calm' /\ mActive' => calm /\ mActive
    <3> USE DEF outVars, txUnchanged
    <3>1. CASE AppStep
      BY <1>8, <3>1 DEF AppStep, WriteTest, Restart, Created, PushLock, PushWait, PushDone,
         PushNotify, PushWaitEnds, Stop, StopTest, StopJoin
    <3>2. CASE TxStep
      <4>1. CASE Read
        BY <4>1 DEF Read
      <4>2. CASE Loop \/ PopLock \/ PopWait \/ PopDone
        BY <4>2 DEF Loop, PopLock, PopWait, PopDone
      <4>3. CASE PopTimeout \/ Underflow
        BY <4>3 DEF PopTimeout, Underflow
      <4>4. CASE PopNotify
        BY <4>4 DEF PopNotify
      <4>5. CASE Exit
        BY <4>5 DEF Exit
      <4>6. QED BY <1>8, <3>2, <4>1, <4>2, <4>3, <4>4, <4>5 DEF TxStep
    <3>3. CASE Stopped \/ UNCHANGED vars
      BY <3>3 DEF Stopped, vars
    <3>4. QED BY <1>8, <3>1, <3>2, <3>3 DEF Next
  <2>4. UNCHANGED hand
    BY <2>3 DEF Read, IInv, Control
  <2>5. QED BY <2>1, <2>2, <2>3, <2>4, Frame
<1>9. QED BY <1>1, <1>2, <1>3, <1>4, <1>5, <1>6, <1>7, <1>8

LEMMA InitIInv ==
  ASSUME Init
  PROVE  IInv
<1> USE StreamSizes DEF Init
<1>1. RingType
  BY DEF RingType, Empty
<1>2. ThreadType
  BY DEF ThreadType
<1>3. StreamType
  <2>1. 0 \in 0 .. NumWrites * WriteSize /\ 0 \in 0 .. WriteSize
    OBVIOUS
  <2>2. QED BY <2>1 DEF StreamType
<1>4. Control
  BY DEF Control
<1>5. WholeWrites
  <2>1. 0 = 0 * WriteSize /\ 0 \in 0 .. NumWrites
    OBVIOUS
  <2>2. QED BY <2>1 DEF WholeWrites
<1>6. RingInOrder
  <2>1. (0 + 0) % FifoPackets = 0
    BY Place
  <2>2. QED BY <2>1 DEF RingInOrder
<1>7. PoppedInOrder
  BY DEF PoppedInOrder, Increasing, Before, BeforeRing
<1>8. AllThere
  BY DEF AllThere
<1>9. Owners
  BY DEF Owners
<1>10. QED BY <1>1, <1>2, <1>3, <1>4, <1>5, <1>6, <1>7, <1>8, <1>9 DEF IInv, TypeOK

(* The invariant holds in every state: Start, every push, pop and packet   *)
(* sent, every timeout and every end and restart of the thread keeps it.   *)
THEOREM Invariance == Spec => []IInv
<1>1. Init => IInv
  BY InitIInv
<1>2. IInv /\ [Next]_vars => IInv'
  BY NextTypeOK, NextControl, NextOwners, NextWholeWrites, NextOrdered DEF IInv, Ordered
<1>3. QED BY <1>1, <1>2, PTL DEF Spec

(* Every variable of the stream keeps its type: the ring is never fuller   *)
(* than its slots and no packet larger than a packet (RingFIFO), and no    *)
(* more transfers are under way than the loop has (TransmitPacketsLoop).   *)
THEOREM TypeCorrect == Spec => []TypeOK
<1>1. IInv => TypeOK
  BY DEF IInv
<1>2. QED BY <1>1, Invariance, PTL

-----------------------------------------------------------------------------
(* What the invariant says of the path from the ring to the antenna.       *)

(* The packets of the ring, sample by sample.                              *)
LEMMA RingPackets ==
  ASSUME IInv, NEW k \in 1 .. mElementsFilled
  PROVE  /\ Nth(k).from \in Nat /\ Nth(k).to \in Nat
         /\ Nth(k).from < Nth(k).to /\ Nth(k).to <= Pushed /\ Pushed \in Nat
         /\ Samples(Nth(k)) \in Seq(Nat)
         /\ Len(Samples(Nth(k))) = Nth(k).to - Nth(k).from
         /\ \A i \in 1 .. Len(Samples(Nth(k))) : Samples(Nth(k))[i] = Nth(k).from + i - 1
<1>1. RingType /\ RingInOrder /\ k \in 1 .. FifoPackets
  BY DEF IInv, TypeOK, RingType
<1>2. Nth(k).from \in Nat /\ Nth(k).to \in Nat
  BY <1>1, RingSlots
<1>3. Nth(k).from < Nth(k).to /\ Nth(k).to <= Pushed
  BY <1>1 DEF RingInOrder
<1>4. Pushed \in Nat
  BY DEF Pushed, IInv, TypeOK, StreamType
<1> DEFINE f == Nth(k).from
           t == Nth(k).to
           c == t - f
<1>5. c \in Nat /\ \A i \in 1 .. c : f + i - 1 \in Nat
  BY <1>2, <1>3
<1>6. Samples(Nth(k)) = [i \in 1 .. c |-> f + i - 1]
  BY DEF Samples
<1> HIDE DEF f, c
<1>7. /\ Samples(Nth(k)) \in Seq(Nat) /\ Len(Samples(Nth(k))) = c
      /\ \A i \in 1 .. c : Samples(Nth(k))[i] = f + i - 1
  BY <1>5, <1>6
<1>8. QED BY <1>2, <1>3, <1>4, <1>7 DEF f, c

(* The pieces of the path: what was sent, what is under way, what the      *)
(* thread holds, and the packets of the ring.                              *)
LEMMA Pieces ==
  ASSUME IInv, NEW l, l = Len(inflight), NEW m, m = mElementsFilled
  PROVE  /\ l \in Nat /\ m \in Nat /\ Len(Path) = l + 2 + m
         /\ Path[1] = air /\ Path[l + 2] = hand
         /\ \A p \in 1 .. l : Path[p + 1] = inflight[p]
         /\ \A k \in 1 .. m : Path[l + 2 + k] = Samples(Nth(k))
<1>1. /\ air \in Seq(Nat) /\ hand \in Seq(Nat) /\ inflight \in Seq(Seq(Nat))
      /\ l \in Nat /\ m \in Nat
  BY DEF IInv, TypeOK, StreamType, RingType
<1> DEFINE S == Seq(Nat)
<1>2. /\ <<air>> \in Seq(S) /\ <<hand>> \in Seq(S) /\ inflight \in Seq(S)
  BY <1>1
<1>3. InRing \in Seq(S) /\ Len(InRing) = m /\ \A k \in 1 .. m : InRing[k] = Samples(Nth(k))
  <2>1. \A k \in 1 .. m : Samples(Nth(k)) \in S
    BY RingPackets
  <2>2. InRing = [k \in 1 .. m |-> Samples(Nth(k))]
    BY DEF InRing
  <2>3. QED BY <1>1, <2>1, <2>2
<1> HIDE DEF S
<1> DEFINE a == <<air>> \o inflight
           b == a \o <<hand>>
<1>4. /\ a \in Seq(S) /\ Len(a) = l + 1 /\ a[1] = air
      /\ \A p \in 1 .. l : a[p + 1] = inflight[p]
  BY <1>1, <1>2
<1> HIDE DEF a
<1>5. /\ b \in Seq(S) /\ Len(b) = l + 2 /\ b[l + 2] = hand
      /\ \A p \in 1 .. l + 1 : b[p] = a[p]
  BY <1>1, <1>2, <1>4
<1> HIDE DEF b
<1>6. Path = b \o InRing
  BY DEF Path, a, b
<1>7. /\ Len(Path) = l + 2 + m
      /\ \A p \in 1 .. l + 2 : Path[p] = b[p]
      /\ \A k \in 1 .. m : Path[l + 2 + k] = InRing[k]
  <2>1. \A k \in 1 .. Len(InRing) : (b \o InRing)[Len(b) + k] = InRing[k]
    BY <1>3, <1>5, Concatenation
  <2>2. Len(b \o InRing) = Len(b) + Len(InRing)
        /\ \A p \in 1 .. Len(b) : (b \o InRing)[p] = b[p]
    BY ZenonT(40), <1>3, <1>5, Concatenation
  <2>3. QED BY <1>3, <1>5, <1>6, <2>1, <2>2
<1>8. Path[1] = air /\ \A p \in 1 .. l : Path[p + 1] = inflight[p]
  <2>1. 1 \in 1 .. l + 1 /\ 1 \in 1 .. l + 2
        /\ \A p \in 1 .. l : p + 1 \in 1 .. l + 1 /\ p + 1 \in 1 .. l + 2
    BY <1>1
  <2>2. QED BY <1>4, <1>5, <1>7, <2>1
<1>9. Path[l + 2] = hand
  BY <1>1, <1>5, <1>7
<1>10. QED BY <1>1, <1>3, <1>7, <1>8, <1>9

(* Every piece of the path is one of these.                                *)
LEMMA PieceIs ==
  ASSUME IInv, NEW p \in 1 .. Len(Path)
  PROVE  \/ p = 1 /\ Path[p] = air
         \/ \E q \in 1 .. Len(inflight) : p = q + 1 /\ Path[p] = inflight[q]
         \/ p = Len(inflight) + 2 /\ Path[p] = hand
         \/ \E k \in 1 .. mElementsFilled :
              p = Len(inflight) + 2 + k /\ Path[p] = Samples(Nth(k))
<1>1. PICK l, m : l = Len(inflight) /\ m = mElementsFilled
  OBVIOUS
<1>2. /\ l \in Nat /\ m \in Nat /\ Len(Path) = l + 2 + m
      /\ Path[1] = air /\ Path[l + 2] = hand
      /\ \A q \in 1 .. l : Path[q + 1] = inflight[q]
      /\ \A k \in 1 .. m : Path[l + 2 + k] = Samples(Nth(k))
  BY <1>1, Pieces
<1>3. CASE p = 1 \/ p = l + 2
  BY <1>1, <1>2, <1>3
<1>4. CASE p \in 2 .. l + 1
  <2>1. p - 1 \in 1 .. l /\ p = (p - 1) + 1
    BY <1>2, <1>4
  <2>2. Path[p] = inflight[p - 1]
    BY <1>2, <2>1
  <2>3. QED BY <1>1, <2>1, <2>2
<1>5. CASE p \in l + 3 .. l + 2 + m
  <2>1. PICK k \in 1 .. m : p = l + 2 + k
    <3>1. p \in Int /\ p - (l + 2) \in 1 .. m
      BY <1>2, <1>5
    <3>2. p = l + 2 + (p - (l + 2))
      BY <1>2, <3>1
    <3>3. QED BY <3>1, <3>2
  <2>2. QED BY <1>1, <1>2, <2>1
<1>6. p \in 2 .. l + 1 \/ p \in l + 3 .. l + 2 + m \/ p = 1 \/ p = l + 2
  BY <1>2
<1>7. QED BY <1>3, <1>4, <1>5, <1>6

(* Each piece of the path is in order, and before every piece behind it.   *)
LEMMA PathInOrder ==
  ASSUME IInv
  PROVE  /\ \A p \in 1 .. Len(Path) : Increasing(Path[p])
         /\ \A p, q \in 1 .. Len(Path) : p < q => Before(Path[p], Path[q])
<1>1. PICK l, m : l = Len(inflight) /\ m = mElementsFilled
  OBVIOUS
<1>2. l \in Nat /\ m \in Nat /\ PoppedInOrder /\ RingInOrder
  BY <1>1, Pieces DEF IInv
<1>3. ASSUME NEW k \in 1 .. m PROVE Increasing(Samples(Nth(k)))
  <2>1. PICK s : s = Samples(Nth(k))
    OBVIOUS
  <2>2. /\ Nth(k).from \in Nat /\ Len(s) \in Nat
        /\ \A i \in 1 .. Len(s) : s[i] = Nth(k).from + i - 1
    BY <1>1, <2>1, RingPackets
  <2>3. QED BY <2>1, <2>2 DEF Increasing
<1>4. ASSUME NEW j \in 1 .. m, NEW k \in 1 .. m, j < k
      PROVE  Before(Samples(Nth(j)), Samples(Nth(k)))
  <2>1. Nth(j).to <= Nth(k).from
    BY <1>1, <1>2, <1>4 DEF RingInOrder
  <2>2. \A i \in 1 .. Len(Samples(Nth(j))) : Samples(Nth(j))[i] < Nth(j).to
    <3>1. PICK s : s = Samples(Nth(j))
      OBVIOUS
    <3>2. /\ Nth(j).from \in Nat /\ Nth(j).to \in Nat /\ Len(s) = Nth(j).to - Nth(j).from
          /\ \A i \in 1 .. Len(s) : s[i] = Nth(j).from + i - 1
      BY <1>1, <3>1, RingPackets
    <3>3. \A i \in 1 .. Len(s) : s[i] < Nth(j).to
      BY <3>2
    <3>4. QED BY <3>1, <3>3
  <2>3. \A i \in 1 .. Len(Samples(Nth(j))) : Samples(Nth(j))[i] \in Nat
    BY <1>1, RingPackets
  <2>4. \A i \in 1 .. Len(Samples(Nth(k))) : Nth(k).from <= Samples(Nth(k))[i]
    BY SMTT(20), <1>1, RingPackets
  <2>5. \A i \in 1 .. Len(Samples(Nth(k))) : Samples(Nth(k))[i] \in Nat
    BY <1>1, RingPackets
  <2>6. Nth(j).to \in Nat /\ Nth(k).from \in Nat
    BY <1>1, RingPackets
  <2>7. QED BY <2>1, <2>2, <2>3, <2>4, <2>5, <2>6 DEF Before
<1>5. ASSUME NEW s \in Seq(Nat), BeforeRing(s), NEW k \in 1 .. m
      PROVE  Before(s, Samples(Nth(k)))
  <2>1. \A i \in 1 .. Len(s) : s[i] \in Nat /\ s[i] < Nth(k).from
    BY <1>1, <1>5 DEF BeforeRing
  <2>2. \A i \in 1 .. Len(Samples(Nth(k))) : Nth(k).from <= Samples(Nth(k))[i]
    BY <1>1, RingPackets
  <2>3. \A i \in 1 .. Len(Samples(Nth(k))) : Samples(Nth(k))[i] \in Nat
    BY <1>1, RingPackets
  <2>4. Nth(k).from \in Nat
    BY <1>1, RingPackets
  <2>5. QED BY <2>1, <2>2, <2>3, <2>4 DEF Before
<1>6. /\ air \in Seq(Nat) /\ hand \in Seq(Nat) /\ BeforeRing(air) /\ BeforeRing(hand)
      /\ \A p \in 1 .. l : inflight[p] \in Seq(Nat) /\ BeforeRing(inflight[p])
  BY <1>1, <1>2 DEF IInv, TypeOK, StreamType, PoppedInOrder
<1> DEFINE Air(p) == p = 1 /\ Path[p] = air
           Way(p) == \E f \in 1 .. l : p = f + 1 /\ Path[p] = inflight[f]
           Hand(p) == p = l + 2 /\ Path[p] = hand
           Ring(p) == \E k \in 1 .. m : p = l + 2 + k /\ Path[p] = Samples(Nth(k))
<1>7. \A p \in 1 .. Len(Path) : Air(p) \/ Way(p) \/ Hand(p) \/ Ring(p)
  BY <1>1, PieceIs
<1>8. ASSUME NEW p \in 1 .. Len(Path) PROVE Increasing(Path[p])
  <2>1. CASE Air(p) \/ Way(p) \/ Hand(p)
    BY <1>1, <1>2, <2>1 DEF PoppedInOrder
  <2>2. CASE Ring(p)
    BY <1>3, <2>2
  <2>3. QED BY <1>7, <2>1, <2>2
<1>9. ASSUME NEW p \in 1 .. Len(Path), NEW q \in 1 .. Len(Path), p < q
      PROVE  Before(Path[p], Path[q])
  <2>1. CASE Air(p) \/ Way(p) \/ Hand(p)
    <3>1. CASE Ring(q)
      <4>1. PICK k \in 1 .. m : Path[q] = Samples(Nth(k))
        BY <3>1
      <4>2. Path[p] \in Seq(Nat) /\ BeforeRing(Path[p])
        BY <1>6, <2>1
      <4>3. QED BY <1>5, <4>1, <4>2
    <3>2. CASE Hand(q)
      <4>1. Air(p) \/ Way(p)
        BY <1>2, <1>9, <2>1, <3>2
      <4>2. QED BY <1>1, <1>2, <3>2, <4>1 DEF PoppedInOrder
    <3>3. CASE Way(q)
      <4>1. PICK g \in 1 .. l : q = g + 1 /\ Path[q] = inflight[g]
        BY <3>3
      <4>2. CASE Air(p)
        BY <1>1, <1>2, <4>1, <4>2 DEF PoppedInOrder
      <4>3. CASE Way(p)
        <5>1. PICK f \in 1 .. l : p = f + 1 /\ Path[p] = inflight[f]
          BY <4>3
        <5>2. f < g
          BY <1>2, <1>9, <4>1, <5>1
        <5>3. QED BY <1>1, <1>2, <4>1, <5>1, <5>2 DEF PoppedInOrder
      <4>4. QED BY <1>2, <1>9, <2>1, <4>1, <4>2, <4>3
    <3>4. ~Air(q)
      BY <1>9
    <3>5. QED BY <1>7, <3>1, <3>2, <3>3, <3>4
  <2>2. CASE Ring(p)
    <3>1. PICK j \in 1 .. m : p = l + 2 + j /\ Path[p] = Samples(Nth(j))
      BY <2>2
    <3>2. Ring(q)
      BY <1>2, <1>7, <1>9, <3>1
    <3>3. PICK k \in 1 .. m : q = l + 2 + k /\ Path[q] = Samples(Nth(k))
      BY <3>2
    <3>4. j < k
      BY <1>2, <1>9, <3>1, <3>3
    <3>5. QED BY <1>4, <3>1, <3>3, <3>4
  <2>3. QED BY <1>7, <2>1, <2>2
<1>10. QED BY <1>8, <1>9

(* Through every timeout, underflow and restart of the thread the samples  *)
(* are sent, are under way and wait in the ring in the order in which they *)
(* were written, none of them twice (push_samples, pop_samples,            *)
(* TransmitPacketsLoop).                                                   *)
THEOREM InOrderCorrect == Spec => []InOrder
<1>1. IInv => InOrder
  <2>1. ASSUME IInv, NEW p \in 1 .. Len(Path), NEW q \in 1 .. Len(Path),
               NEW i \in 1 .. Len(Path[p]), NEW j \in 1 .. Len(Path[q]),
               p < q \/ (p = q /\ i < j)
        PROVE  Path[p][i] < Path[q][j]
    <3>1. CASE p < q
      BY <2>1, <3>1, PathInOrder DEF Before
    <3>2. CASE p = q /\ i < j
      <4>1. Increasing(Path[p]) /\ j \in 1 .. Len(Path[p])
        BY <2>1, <3>2, PathInOrder
      <4>2. QED BY <3>2, <4>1 DEF Increasing
    <3>3. QED BY <2>1, <3>1, <3>2
  <2>2. QED BY <2>1 DEF InOrder
<1>2. QED BY <1>1, Invariance, PTL

(* Until a side gives up waiting or the stream is stopped, the samples of  *)
(* the path are exactly those pushed so far: push_samples, pop_samples and *)
(* the transmit loop neither lose a sample nor make one up.                *)
THEOREM NothingLostCorrect == Spec => []NothingLost
<1>1. ASSUME IInv, calm, mActive PROVE OnPath = 0 .. Pushed - 1
  <2>1. PICK l, m : l = Len(inflight) /\ m = mElementsFilled
    OBVIOUS
  <2>2. /\ l \in Nat /\ m \in Nat /\ Len(Path) = l + 2 + m
        /\ Path[1] = air /\ Path[l + 2] = hand
        /\ \A q \in 1 .. l : Path[q + 1] = inflight[q]
        /\ \A k \in 1 .. m : Path[l + 2 + k] = Samples(Nth(k))
    BY <1>1, <2>1, Pieces
  <2>3. Pushed \in Nat /\ PoppedInOrder /\ AllThere
    BY <1>1 DEF Pushed, IInv, TypeOK, StreamType
  <2>4. /\ air \in Seq(Nat) /\ hand \in Seq(Nat)
        /\ \A p \in 1 .. l : inflight[p] \in Seq(Nat)
    BY <1>1, <2>1 DEF IInv, TypeOK, StreamType
  <2>5. ASSUME NEW s \in Seq(Nat), BeforeRing(s), NEW n \in Range(s)
        PROVE  n \in 0 .. Pushed - 1
    <3>1. PICK i \in 1 .. Len(s) : n = s[i]
      BY DEF Range
    <3>2. QED BY <2>3, <2>5, <3>1 DEF BeforeRing
  <2>6. ASSUME NEW n \in OnPath PROVE n \in 0 .. Pushed - 1
    <3>1. PICK p \in 1 .. Len(Path) : n \in Range(Path[p])
      BY DEF OnPath
    <3>2. CASE \E k \in 1 .. mElementsFilled : Path[p] = Samples(Nth(k))
      <4>1. PICK k \in 1 .. mElementsFilled : Path[p] = Samples(Nth(k))
        BY <3>2
      <4>2. PICK s : s = Samples(Nth(k))
        OBVIOUS
      <4>3. /\ s \in Seq(Nat) /\ Len(s) = Nth(k).to - Nth(k).from
            /\ \A i \in 1 .. Len(s) : s[i] = Nth(k).from + i - 1
            /\ Nth(k).from \in Nat /\ Nth(k).to \in Nat /\ Nth(k).to <= Pushed
        BY <1>1, <4>2, RingPackets
      <4>4. PICK i \in 1 .. Len(s) : n = s[i]
        BY <3>1, <4>1, <4>2, <4>3 DEF Range
      <4>5. QED BY SMTT(20), <2>3, <4>3, <4>4
    <3>3. CASE Path[p] = air \/ Path[p] = hand \/ \E q \in 1 .. l : Path[p] = inflight[q]
      <4>1. Path[p] \in Seq(Nat) /\ BeforeRing(Path[p])
        BY <2>1, <2>3, <2>4, <3>3 DEF PoppedInOrder
      <4>2. QED BY <2>5, <3>1, <4>1
    <3>4. QED BY <1>1, <2>1, <3>2, <3>3, PieceIs
  <2>7. ASSUME NEW n \in 0 .. Pushed - 1 PROVE n \in OnPath
    <3>1. SUFFICES \E p \in 1 .. Len(Path) : n \in Range(Path[p])
      BY DEF OnPath
    <3>2. \A s \in Seq(Nat) : Has(s, n) => n \in Range(s)
      BY DEF Has, Range
    <3>3. Has(air, n) \/ InFlight(n) \/ Has(hand, n) \/ RingHas(n)
      BY <1>1, <2>3 DEF AllThere
    <3>4. CASE Has(air, n)
      <4>1. 1 \in 1 .. Len(Path) /\ n \in Range(Path[1])
        BY <2>2, <2>4, <3>2, <3>4
      <4>2. QED BY <4>1
    <3>5. CASE Has(hand, n)
      <4>1. l + 2 \in 1 .. Len(Path) /\ n \in Range(Path[l + 2])
        BY <2>2, <2>4, <3>2, <3>5
      <4>2. QED BY <4>1
    <3>6. CASE InFlight(n)
      <4>1. PICK q \in 1 .. l : Has(inflight[q], n)
        BY <2>1, <3>6 DEF InFlight
      <4>2. q + 1 \in 1 .. Len(Path) /\ n \in Range(Path[q + 1])
        BY <2>2, <2>4, <3>2, <4>1
      <4>3. QED BY <4>2
    <3>7. CASE RingHas(n)
      <4>1. PICK k \in 1 .. m : n \in Nth(k).from .. Nth(k).to - 1
        BY <2>1, <3>7 DEF RingHas
      <4>2. PICK s : s = Samples(Nth(k))
        OBVIOUS
      <4>3. /\ s \in Seq(Nat) /\ Len(s) = Nth(k).to - Nth(k).from
            /\ \A i \in 1 .. Len(s) : s[i] = Nth(k).from + i - 1
            /\ Nth(k).from \in Nat /\ Nth(k).to \in Nat
        BY <1>1, <2>1, <4>2, RingPackets
      <4>4. n - Nth(k).from + 1 \in 1 .. Len(s) /\ s[n - Nth(k).from + 1] = n
        BY SMTT(20), <4>1, <4>3
      <4>5. n \in Range(s)
        BY <3>2, <4>3, <4>4 DEF Has
      <4>6. l + 2 + k \in 1 .. Len(Path) /\ Path[l + 2 + k] = s
        BY <2>2, <4>1, <4>2
      <4>7. QED BY <4>5, <4>6
    <3>8. QED BY <3>3, <3>4, <3>5, <3>6, <3>7
  <2>8. QED BY <2>6, <2>7
<1>2. IInv => NothingLost
  BY <1>1 DEF NothingLost
<1>3. QED BY <1>2, Invariance, PTL

(* After LMS_StopStream the transmit thread has at most to return: it does *)
(* not touch the ring or the device any more (UpdateThreads).              *)
THEOREM StopCorrect == Spec => []StoppedMeansEnded
<1>1. IInv => StoppedMeansEnded
  <2>1. ASSUME IInv, pcApp = "stopped" PROVE pcTx \in {"exiting", "ended"} /\ ~mActive
    BY <2>1 DEF IInv, Owners, Control
  <2>2. QED BY <2>1 DEF StoppedMeansEnded
<1>2. QED BY <1>1, Invariance, PTL

(* A thread is created only when there was none or the one before has      *)
(* returned, so that two of them never pop at a time (UpdateThreads).      *)
THEOREM CreateCorrect == Spec => NewThreadAfterOld
<1>1. IInv /\ [Next]_vars =>
        [pcTx' = "loop" /\ pcTx # "loop" => pcTx \in {"none", "ended", "send"}]_vars
  <2>1. SUFFICES ASSUME IInv, Next, pcTx' = "loop", pcTx # "loop"
                 PROVE  pcTx \in {"none", "ended", "send"}
    OBVIOUS
  <2>2. CASE Start
    <3>1. Control /\ pcApp = "start"
      BY <2>1, <2>2 DEF IInv, Start
    <3>2. QED BY <3>1 DEF Control
  <2>3. CASE AppStep /\ ~Start
    BY <2>1, <2>3 DEF AppStep, WriteTest, Restart, Created, PushLock, PushPacket, PushWait,
       PushGiveUp, PushDone, PushNotify, PushWaitEnds, Stop, StopTest, StopJoin
  <2>4. CASE TxStep
    <3>1. CASE Read
      BY <2>1, <3>1 DEF Read, IInv, TypeOK, ThreadType
    <3>2. CASE Loop \/ PopLock \/ PopTake \/ PopWait \/ PopTimeout \/ Underflow \/ PopDone
      BY <2>1, <3>2 DEF Loop, PopLock, PopTake, PopWait, PopTimeout, Underflow, PopDone
    <3>3. CASE PopNotify \/ Send \/ Abort \/ Exit
      BY <2>1, <3>3 DEF PopNotify, Send, Abort, Exit
    <3>4. QED BY <2>4, <3>1, <3>2, <3>3 DEF TxStep
  <2>5. CASE Device \/ Stopped
    BY <2>1, <2>5 DEF Device, Stopped, vars
  <2>6. QED BY <2>1, <2>2, <2>3, <2>4, <2>5 DEF Next
<1>2. QED BY <1>1, Invariance, PTL DEF Spec, NewThreadAfterOld
=============================================================================
