-------------------------- MODULE SimPipelineProofs --------------------------
(***************************************************************************)
(* Proofs about SimPipeline for all sizes of block and buffer, any number  *)
(* of blocks, either memory order and any set of failing calls.            *)
(***************************************************************************)
EXTENDS SimPipeline, TLAPS

USE ConstantsAssumption

LEMMA Concatenation ==
  ASSUME NEW a \in Seq(Int), NEW b \in Seq(Int)
  PROVE  /\ a \o b \in Seq(Int)
         /\ Len(a \o b) = Len(a) + Len(b)
         /\ \A k \in 1 .. Len(a) : (a \o b)[k] = a[k]
         /\ \A k \in 1 .. Len(b) : (a \o b)[Len(a) + k] = b[k]
         /\ \A k \in Len(a) + 1 .. Len(a) + Len(b) : (a \o b)[k] = b[k - Len(a)]
  OBVIOUS

LEMMA WrapInRing ==
  ASSUME NEW i \in Nat, i < 2 * FifoLength
  PROVE  /\ Wrap(i) \in 0 .. FifoLength - 1
         /\ i < FifoLength => Wrap(i) = i
         /\ i >= FifoLength => Wrap(i) = i - FifoLength
  BY DEF Wrap, FifoLength

LEMMA LengthRange ==
  ASSUME head \in {0, NumIqSamples}, tail \in 0 .. FifoLength - 1
  PROVE  /\ GetSampleLength \in 0 .. FifoLength - 1
         /\ GetSampleLength = 0 <=> head = tail
  BY DEF GetSampleLength, FifoLength

(* Moving the tail over n unread samples shortens the length by n.         *)
LEMMA TailOverUnread ==
  ASSUME head \in {0, NumIqSamples}, tail \in 0 .. FifoLength - 1,
         NEW n \in Nat, n <= GetSampleLength,
         head' = head, tail' = Wrap(tail + n)
  PROVE  GetSampleLength' = GetSampleLength - n
<1>1. /\ FifoLength \in Nat /\ head \in 0 .. FifoLength - 1
      /\ tail \in 0 .. FifoLength - 1
  BY DEF FifoLength
<1>2. GetSampleLength' = IF head - tail' < 0 THEN head - tail' + FifoLength
                                            ELSE head - tail'
  BY DEF GetSampleLength
<1>3. CASE head - tail < 0 /\ tail + n >= FifoLength
  <2>1. tail' = tail + n - FifoLength
    BY <1>1, <1>3 DEF Wrap
  <2>3. GetSampleLength = head - tail + FifoLength
    BY <1>1, <1>3 DEF GetSampleLength
  <2>2. /\ ~(head - tail' < 0)
        /\ head - tail' = (head - tail + FifoLength) - n
    BY <1>1, <1>3, <2>1, <2>3
  <2> QED
    BY <1>2, <2>2, <2>3
<1>4. CASE head - tail < 0 /\ ~(tail + n >= FifoLength)
  <2>1. tail' = tail + n /\ GetSampleLength = head - tail + FifoLength
    BY <1>1, <1>4 DEF GetSampleLength, Wrap
  <2>2. head - tail' < 0 /\ head - tail' + FifoLength = (head - tail + FifoLength) - n
    BY <1>1, <1>4, <2>1
  <2> QED
    BY <1>2, <2>1, <2>2
<1>5. CASE ~(head - tail < 0)
  <2>1. GetSampleLength = head - tail
    BY <1>5 DEF GetSampleLength
  <2>2. tail + n <= head
    BY <1>1, <2>1
  <2>3. tail' = tail + n
    BY <1>1, <2>2 DEF Wrap
  <2> QED
    BY <1>1, <1>2, <2>1, <2>2, <2>3
<1> QED
  BY <1>3, <1>4, <1>5

(* fifo_read returns as many samples as asked for or as there are, all of  *)
(* them from slots of the ring.                                            *)
LEMMA ReadIsInRing ==
  ASSUME TypeOK
  PROVE  LET n == ReadCount(SamplesPerBuffer - Len(txBuffer))
         IN /\ n \in Nat
            /\ n <= GetSampleLength
            /\ n <= SamplesPerBuffer - Len(txBuffer)
            /\ n = GetSampleLength \/ n = SamplesPerBuffer - Len(txBuffer)
            /\ FifoRead(n) \in Seq(Int)
            /\ Len(FifoRead(n)) = n
            /\ \A j \in 1 .. n : FifoRead(n)[j] = fifo[Wrap(tail + j - 1)]
            /\ Wrap(tail + n) \in 0 .. FifoLength - 1
<1> DEFINE n == ReadCount(SamplesPerBuffer - Len(txBuffer))
<1>1. GetSampleLength \in 0 .. FifoLength - 1
  BY LengthRange DEF TypeOK
<1>2. Len(txBuffer) \in Nat /\ Len(txBuffer) <= SamplesPerBuffer
  BY DEF TypeOK
<1>3. /\ n \in Nat /\ n <= GetSampleLength
      /\ n <= SamplesPerBuffer - Len(txBuffer)
      /\ n = GetSampleLength \/ n = SamplesPerBuffer - Len(txBuffer)
  BY <1>1, <1>2 DEF ReadCount
<1>4. tail \in Nat /\ tail < FifoLength /\ FifoLength \in Nat
  BY DEF TypeOK, FifoLength
<1>5. \A j \in 1 .. n : fifo[Wrap(tail + j - 1)] \in Int
  <2>1. TAKE j \in 1 .. n
  <2>2. tail + j - 1 \in Nat /\ tail + j - 1 < 2 * FifoLength
    BY <1>1, <1>3, <1>4
  <2>3. Wrap(tail + j - 1) \in 0 .. FifoLength - 1
    BY <2>2, WrapInRing
  <2>4. QED BY <2>3 DEF TypeOK
<1>6. FifoRead(n) \in Seq(Int) /\ Len(FifoRead(n)) = n
  BY <1>3, <1>5 DEF FifoRead
<1>7. \A j \in 1 .. n : FifoRead(n)[j] = fifo[Wrap(tail + j - 1)]
  BY DEF FifoRead
<1>8. Wrap(tail + n) \in 0 .. FifoLength - 1
  <2>1. tail + n \in Nat /\ tail + n < 2 * FifoLength
    BY <1>1, <1>3, <1>4
  <2>2. QED BY <2>1, WrapInRing
<1>9. QED BY <1>3, <1>6, <1>7, <1>8

-----------------------------------------------------------------------------
LEMMA InitTypeOK ==
  ASSUME Init
  PROVE  TypeOK
<1>1. head \in {0, NumIqSamples} /\ tail \in 0 .. FifoLength - 1
  BY DEF Init, FifoLength
<1>2. fifo \in [0 .. FifoLength - 1 -> Int]
  BY DEF Init, Stale
<1>3. pending \subseteq [at : {0, NumIqSamples}, from : Nat] /\ produced \in Nat
  BY DEF Init
<1>4. /\ txBuffer \in Seq(Int) /\ Len(txBuffer) <= SamplesPerBuffer
      /\ sent \in Seq(Int)
  BY DEF Init
<1>5. QED BY <1>1, <1>2, <1>3, <1>4 DEF Init, TypeOK

LEMMA NextTypeOK ==
  ASSUME TypeOK, [Next]_vars
  PROVE  TypeOK'
<1> USE DEF mainVars, ringVars, txVars
<1>1. CASE MainStep
  BY <1>1 DEF MainStep, MainMalloc, MainMallocFifo, MainStartGps, MainTestReady,
     MainWait, MainFill, MainStartTx, MainJoin, MainOut, TypeOK
<1>2. CASE GpsStep
  <2>1. ASSUME GpsCopy PROVE TypeOK'
    <3>1. fifo' \in [0 .. FifoLength - 1 -> Int]
      BY <2>1 DEF GpsCopy, TypeOK, WithBlock
    <3>2. pending' \subseteq [at : {0, NumIqSamples}, from : Nat]
      BY <2>1 DEF GpsCopy, TypeOK
    <3>3. QED BY <2>1, <3>1, <3>2 DEF GpsCopy, TypeOK
  <2>2. ASSUME GpsPublish PROVE TypeOK'
    <3>1. head' \in {0, NumIqSamples}
      BY <2>2 DEF GpsPublish, TypeOK, Wrap, FifoLength
    <3>2. QED BY <2>2, <3>1 DEF GpsPublish, TypeOK
  <2>3. ASSUME GpsSetup PROVE TypeOK'
    BY <2>3 DEF GpsSetup, TypeOK
  <2>4. ASSUME GpsGenerate PROVE TypeOK'
    BY <2>4 DEF GpsGenerate, TypeOK
  <2>5. ASSUME GpsSignalInit PROVE TypeOK'
    BY <2>5 DEF GpsSignalInit, TypeOK
  <2>6. ASSUME GpsLock PROVE TypeOK'
    BY <2>6 DEF GpsLock, TypeOK
  <2>7. ASSUME GpsTest PROVE TypeOK'
    BY <2>7 DEF GpsTest, TypeOK
  <2>8. ASSUME GpsWait PROVE TypeOK'
    BY <2>8 DEF GpsWait, TypeOK
  <2>9. ASSUME GpsUnlock PROVE TypeOK'
    BY <2>9 DEF GpsUnlock, TypeOK
  <2>10. ASSUME GpsSignalRead PROVE TypeOK'
    BY <2>10 DEF GpsSignalRead, TypeOK
  <2>11. QED
    BY <1>2, <2>1, <2>2, <2>3, <2>4, <2>5, <2>6, <2>7, <2>8, <2>9, <2>10 DEF GpsStep
<1>3. CASE TxStep
  <2>1. ASSUME TxRead PROVE TypeOK'
    <3> DEFINE n == ReadCount(SamplesPerBuffer - Len(txBuffer))
    <3>1. tail' \in 0 .. FifoLength - 1
      BY <2>1, ReadIsInRing DEF TxRead
    <3>2. txBuffer' \in Seq(Int) /\ Len(txBuffer') <= SamplesPerBuffer
      <4> HIDE DEF n
      <4>1. n \in Nat /\ FifoRead(n) \in Seq(Int) /\ Len(FifoRead(n)) = n
            /\ n <= SamplesPerBuffer - Len(txBuffer)
        BY ReadIsInRing DEF n
      <4>2. txBuffer' = txBuffer \o FifoRead(n)
        BY <2>1 DEF TxRead, n
      <4>3. txBuffer \in Seq(Int) /\ Len(txBuffer) <= SamplesPerBuffer
        BY DEF TypeOK
      <4>4. Len(txBuffer') = Len(txBuffer) + n /\ txBuffer' \in Seq(Int)
        BY <4>1, <4>2, <4>3, Concatenation
      <4>5. QED BY <4>1, <4>3, <4>4
    <3>3. QED BY <2>1, <3>1, <3>2 DEF TxRead, TypeOK
  <2>2. ASSUME TxSend PROVE TypeOK'
    <3>1. sent' \in Seq(Int) /\ txBuffer' \in Seq(Int) /\ Len(txBuffer') = 0
      BY <2>2 DEF TxSend, TypeOK
    <3>2. QED BY <2>2, <3>1 DEF TxSend, TypeOK
  <2>3. ASSUME TxStart \/ TxLock \/ TxTest \/ TxWait \/ TxUnlock \/ TxSignalWrite
        PROVE  TypeOK'
    BY <2>3 DEF TxStart, TxLock, TxTest, TxWait, TxUnlock, TxSignalWrite, TypeOK
  <2>4. QED BY <1>3, <2>1, <2>2, <2>3 DEF TxStep
<1>4. CASE Environment
  <2>1. ASSUME StoreVisible PROVE TypeOK'
    <3>1. PICK block \in pending :
            fifo' = WithBlock(fifo, block.at, block.from) /\ pending' = pending \ {block}
      BY <2>1 DEF StoreVisible
    <3>2. block.at \in Int /\ block.from \in Int
      BY DEF TypeOK
    <3>3. fifo' \in [0 .. FifoLength - 1 -> Int]
      BY <3>1, <3>2 DEF TypeOK, WithBlock
    <3>4. QED BY <2>1, <3>1, <3>3 DEF StoreVisible, TypeOK
  <2>2. ASSUME SpuriousWakeup \/ UseAfterReturn PROVE TypeOK'
    BY <2>2 DEF SpuriousWakeup, UseAfterReturn, TypeOK
  <2>3. QED BY <1>4, <2>1, <2>2 DEF Environment
<1>5. CASE UNCHANGED vars
  BY <1>5 DEF vars, TypeOK
<1>6. QED BY <1>1, <1>2, <1>3, <1>4, <1>5 DEF Next

(* Every variable keeps its kind: in particular head stays on a block      *)
(* boundary, tail inside the ring, and no buffer outgrows its size.        *)
THEOREM TypeCorrect == Spec => []TypeOK
<1>1. Init => TypeOK
  BY InitTypeOK
<1>2. TypeOK /\ [Next]_vars => TypeOK'
  BY NextTypeOK
<1>3. QED BY <1>1, <1>2, PTL DEF Spec

-----------------------------------------------------------------------------
(* The slot of the j-th unread sample, and where the next block goes.      *)
LEMMA FreeSlots ==
  ASSUME TypeOK
  PROVE  /\ \A i \in 0 .. NumIqSamples - 1 :
              Wrap(tail + (GetSampleLength + i)) = Wrap(head + i)
         /\ \A i \in 0 .. NumIqSamples - 1 : Wrap(head + i) = head + i
         /\ \A j \in 0 .. GetSampleLength - 1 :
              GetSampleLength < NumIqSamples =>
                Wrap(tail + j) \notin head .. head + NumIqSamples - 1
  BY DEF TypeOK, GetSampleLength, Wrap, FifoLength

(* A step that leaves the ring and both streams alone keeps the invariant, *)
(* if it keeps the control part and does not get to the publication.       *)
LEMMA Frame ==
  ASSUME IInv, TypeOK', Control', Progress', Leaving',
         UNCHANGED <<head, tail, fifo, pending, produced, txBuffer, sent>>,
         pcGps' = "publish" => pcGps = "publish",
         pcGps' = "copy" => pcGps = "copy" \/ pending = {}
  PROVE  IInv'
<1>1. LengthIsUnread' /\ OneLateBlock' /\ (~WeakMemory => pending' = {} /\ SignalInOrder')
  BY DEF IInv, LengthIsUnread, OneLateBlock, SignalInOrder, GetSampleLength, Unread, Taken
<1>2. Memories' = Memories
  BY DEF Memories, WithBlock
<1>3. Contents'
  BY <1>2 DEF IInv, Contents, Unread, Taken, Wrap
<1>4. QED BY <1>1, <1>3 DEF IInv

(* Who is at work when, and who will wake the GPS task.                    *)
LEMMA NextProgress ==
  ASSUME IInv, [Next]_vars
  PROVE  Progress'
<1> USE DEF mainVars, ringVars, txVars, IInv, Progress, Control, IsFifoWriteReady
<1>1. CASE MainStep
  <2> USE DEF GetSampleLength
  <2>1. CASE MainMalloc \/ MainMallocFifo
    BY <2>1 DEF MainMalloc, MainMallocFifo
  <2>2. CASE MainStartGps
    BY <2>2 DEF MainStartGps
  <2>3. CASE MainTestReady \/ MainWait
    BY <2>3 DEF MainTestReady, MainWait
  <2>4. CASE MainFill
    BY <2>4 DEF MainFill
  <2>5. CASE MainStartTx
    BY <2>5 DEF MainStartTx
  <2>6. CASE MainJoin \/ MainOut
    BY <2>6 DEF MainJoin, MainOut
  <2>7. QED BY <1>1, <2>1, <2>2, <2>3, <2>4, <2>5, <2>6 DEF MainStep
<1>2. CASE GpsStep
  <2>1. CASE GpsPublish
    BY <2>1 DEF GpsPublish
  <2> USE DEF GetSampleLength
  <2>2. CASE GpsSetup
    BY <2>2 DEF GpsSetup
  <2>3. CASE GpsGenerate
    BY <2>3 DEF GpsGenerate, TypeOK
  <2>4. CASE GpsSignalInit
    BY <2>4 DEF GpsSignalInit
  <2>5. CASE GpsLock
    BY <2>5 DEF GpsLock
  <2>6. CASE GpsTest
    BY <2>6 DEF GpsTest
  <2>7. CASE GpsWait
    BY <2>7 DEF GpsWait
  <2>8. CASE GpsUnlock
    BY <2>8 DEF GpsUnlock
  <2>9. CASE GpsCopy
    BY <2>9 DEF GpsCopy
  <2>10. CASE GpsSignalRead
    BY <2>10 DEF GpsSignalRead
  <2>11. QED
    BY <1>2, <2>1, <2>2, <2>3, <2>4, <2>5, <2>6, <2>7, <2>8, <2>9, <2>10 DEF GpsStep
<1>3. CASE TxStep
  <2>1. CASE TxRead
    BY <2>1 DEF TxRead
  <2> USE DEF GetSampleLength
  <2>2. CASE TxStart \/ TxLock \/ TxTest \/ TxWait
    BY <2>2 DEF TxStart, TxLock, TxTest, TxWait
  <2>3. CASE TxUnlock
    BY <2>3 DEF TxUnlock
  <2>4. CASE TxSignalWrite
    BY <2>4 DEF TxSignalWrite
  <2>5. CASE TxSend
    BY <2>5 DEF TxSend
  <2>6. QED BY <1>3, <2>1, <2>2, <2>3, <2>4, <2>5 DEF TxStep
<1>4. CASE Environment
  BY <1>4 DEF Environment, StoreVisible, SpuriousWakeup, UseAfterReturn, GetSampleLength
<1>5. CASE UNCHANGED vars
  BY <1>5 DEF vars, GetSampleLength
<1>6. QED BY <1>1, <1>2, <1>3, <1>4, <1>5 DEF Next

(* Why limeMain leaves.                                                    *)
LEMMA NextLeaving ==
  ASSUME IInv, [Next]_vars
  PROVE  Leaving'
<1> USE DEF mainVars, ringVars, txVars, IInv, Leaving
<1>1. CASE MainStep
  BY <1>1 DEF MainStep, MainMalloc, MainMallocFifo, MainStartGps, MainTestReady,
     MainWait, MainFill, MainStartTx, MainJoin, MainOut, Control, Progress
<1>2. CASE GpsStep
  BY <1>2 DEF GpsStep, GpsSetup, GpsGenerate, GpsSignalInit, GpsLock, GpsTest, GpsWait,
     GpsUnlock, GpsCopy, GpsPublish, GpsSignalRead
<1>3. CASE TxStep
  BY <1>3 DEF TxStep, TxStart, TxLock, TxTest, TxWait, TxRead, TxUnlock, TxSignalWrite,
     TxSend
<1>4. CASE Environment
  BY <1>4 DEF Environment, StoreVisible, SpuriousWakeup, UseAfterReturn
<1>5. CASE UNCHANGED vars
  BY <1>5 DEF vars
<1>6. QED BY <1>1, <1>2, <1>3, <1>4, <1>5 DEF Next

LEMMA MainStepKeepsIInv ==
  ASSUME IInv, TypeOK', Progress', Leaving', MainStep
  PROVE  IInv'
<1> USE DEF ringVars, txVars, GetSampleLength
<1>1. /\ UNCHANGED <<head, tail, fifo, pending, produced, txBuffer, sent>>
      /\ pcGps' = "publish" => pcGps = "publish"
      /\ pcGps' = "copy" => pcGps = "copy" \/ pending = {}
  BY DEF MainStep, MainMalloc, MainMallocFifo, MainStartGps, MainTestReady, MainWait,
     MainFill, MainStartTx, MainJoin, MainOut
<1>2. Control'
  <2> USE DEF IInv, Control
  <2>1. CASE MainMalloc \/ MainMallocFifo
    BY <2>1 DEF MainMalloc, MainMallocFifo
  <2>2. CASE MainStartGps
    BY <2>2 DEF MainStartGps
  <2>3. CASE MainTestReady \/ MainWait
    BY <2>3 DEF MainTestReady, MainWait
  <2>4. CASE MainFill
    BY <2>4 DEF MainFill
  <2>5. CASE MainStartTx
    BY <2>5 DEF MainStartTx
  <2>6. CASE MainJoin \/ MainOut
    BY <2>6 DEF MainJoin, MainOut
  <2>7. QED BY <2>1, <2>2, <2>3, <2>4, <2>5, <2>6 DEF MainStep
<1>3. QED BY <1>1, <1>2, Frame

LEMMA GpsStepKeepsIInv ==
  ASSUME IInv, TypeOK', Progress', Leaving', GpsStep
  PROVE  IInv'
<1> USE DEF mainVars, ringVars, txVars
<1>1. ASSUME GpsSetup \/ GpsGenerate \/ GpsSignalInit \/ GpsLock \/ GpsTest
             \/ GpsWait \/ GpsUnlock \/ GpsSignalRead
      PROVE  IInv'
  <2>1. /\ UNCHANGED <<head, tail, fifo, pending, produced, txBuffer, sent>>
        /\ pcGps' = "publish" => pcGps = "publish"
        /\ pcGps' = "copy" => pcGps = "copy" \/ pending = {}
    BY <1>1 DEF GpsSetup, GpsGenerate, GpsSignalInit, GpsLock, GpsTest, GpsWait,
       GpsUnlock, GpsSignalRead
  <2>2. Control'
    <3> USE DEF IInv, Control, GetSampleLength
    <3>1. CASE GpsSetup \/ GpsGenerate
      BY <3>1 DEF GpsSetup, GpsGenerate
    <3>2. CASE GpsSignalInit
      BY <3>2 DEF GpsSignalInit
    <3>3. CASE GpsLock \/ GpsWait \/ GpsUnlock
      BY <3>3 DEF GpsLock, GpsWait, GpsUnlock
    <3>4. CASE GpsTest
      BY <3>4 DEF GpsTest, IsFifoWriteReady
    <3>5. CASE GpsSignalRead
      BY <3>5 DEF GpsSignalRead
    <3>6. QED BY <1>1, <3>1, <3>2, <3>3, <3>4, <3>5
  <2>3. QED BY <2>1, <2>2, Frame
<1>2. ASSUME GpsCopy PROVE IInv'
  <2>1. Control' /\ LengthIsUnread'
    BY <1>2 DEF GpsCopy, IInv, Control, LengthIsUnread, GetSampleLength, Unread, Taken
  <2>2. /\ Contents /\ pending = {}
        /\ UNCHANGED <<head, tail, produced, txBuffer, sent>>
        /\ GetSampleLength < NumIqSamples
    BY <1>2 DEF GpsCopy, IInv, Control, OneLateBlock
  <2>3. Memories' = {WithBlock(fifo, head, produced)}
    <3>1. CASE fifo' = WithBlock(fifo, head, produced) /\ pending' = {}
      BY <3>1 DEF Memories
    <3>2. CASE fifo' = fifo /\ pending' = {[at |-> head, from |-> produced]}
      <4> DEFINE b == [at |-> head, from |-> produced]
      <4>1. Memories' = {WithBlock(fifo, b.at, b.from)}
        BY <3>2 DEF Memories, WithBlock
      <4>2. b.at = head /\ b.from = produced
        OBVIOUS
      <4>3. QED BY <4>1, <4>2
    <3>3. QED BY <1>2, <2>2, <3>1, <3>2 DEF GpsCopy
  <2>4. OneLateBlock' /\ (~WeakMemory => pending' = {} /\ SignalInOrder')
    BY <1>2, <2>2 DEF GpsCopy, IInv, OneLateBlock, SignalInOrder
  <2>5. Contents'
    <3> DEFINE memory == WithBlock(fifo, head, produced)
    <3>1. \A j \in 0 .. Unread - 1 : fifo[Wrap(tail + j)] = Taken + j
      BY <2>2 DEF Contents, Memories
    <3>2. fifo \in [0 .. FifoLength - 1 -> Int] /\ produced \in Nat
          /\ head \in {0, NumIqSamples} /\ tail \in 0 .. FifoLength - 1
      BY DEF IInv, TypeOK
    <3>3. Unread = GetSampleLength
      BY DEF IInv, LengthIsUnread
    <3>4. ASSUME NEW j \in 0 .. Unread - 1 PROVE memory[Wrap(tail + j)] = Taken + j
      <4>1. Wrap(tail + j) \notin head .. head + NumIqSamples - 1
        BY <2>2, <3>3, <3>4, FreeSlots DEF IInv
      <4>2. Wrap(tail + j) \in 0 .. FifoLength - 1
        <5>1. GetSampleLength \in 0 .. FifoLength - 1
          BY <3>2, LengthRange
        <5>2. tail + j \in Nat /\ tail + j < 2 * FifoLength
          BY <3>2, <3>3, <3>4, <5>1 DEF FifoLength
        <5>3. QED BY <5>2, WrapInRing
      <4>3. memory[Wrap(tail + j)] = fifo[Wrap(tail + j)]
        BY <3>2, <4>1, <4>2 DEF WithBlock
      <4>4. QED BY <3>1, <4>3
    <3>5. ASSUME NEW j \in 0 .. NumIqSamples - 1 PROVE memory[head + j] = produced + j
      BY <3>2 DEF WithBlock, FifoLength
    <3> HIDE DEF memory
    <3>6. Memories' = {memory}
      BY <2>3 DEF memory
    <3>7. /\ Unread' = Unread /\ Taken' = Taken /\ head' = head /\ produced' = produced
          /\ \A i : Wrap(tail + i)' = Wrap(tail + i)
      BY <2>2 DEF Unread, Taken, Wrap
    <3>8. QED BY <2>2, <3>4, <3>5, <3>6, <3>7 DEF Contents, Wrap
  <2>6. QED BY <2>1, <2>4, <2>5 DEF IInv
<1>3. ASSUME GpsPublish PROVE IInv'
  <2>1. /\ head \in {0, NumIqSamples} /\ tail \in 0 .. FifoLength - 1
        /\ produced \in Nat /\ Taken \in Nat
    BY DEF IInv, TypeOK, Taken
  <2>2. /\ head' = Wrap(head + NumIqSamples) /\ produced' = produced + NumIqSamples
        /\ UNCHANGED <<tail, fifo, pending, txBuffer, sent>>
        /\ GetSampleLength < NumIqSamples /\ GetSampleLength = Unread
    BY <1>3 DEF GpsPublish, IInv, Control, LengthIsUnread
  <2>3. GetSampleLength' = GetSampleLength + NumIqSamples
    BY <2>1, <2>2 DEF GetSampleLength, Wrap, FifoLength
  <2>4. Unread' = Unread + NumIqSamples /\ Taken' = Taken
    BY <2>1, <2>2 DEF Unread, Taken
  <2>5. Control'
    <3>1. GetSampleLength' > 0
      BY <2>1, <2>3 DEF GetSampleLength, FifoLength
    <3>2. QED BY <1>3, <3>1 DEF GpsPublish, IInv, Control
  <2>6. LengthIsUnread'
    BY <2>2, <2>3, <2>4 DEF LengthIsUnread
  <2>7. OneLateBlock' /\ (~WeakMemory => pending' = {} /\ SignalInOrder')
    BY <1>3, <2>2 DEF GpsPublish, IInv, OneLateBlock, SignalInOrder
  <2>8. Memories' = Memories
    BY <2>2 DEF Memories, WithBlock
  <2>9. ASSUME NEW memory \in Memories, NEW j \in 0 .. Unread' - 1
        PROVE  memory[Wrap(tail + j)] = Taken + j
    <3>1. /\ \A k \in 0 .. Unread - 1 : memory[Wrap(tail + k)] = Taken + k
          /\ \A k \in 0 .. NumIqSamples - 1 : memory[head + k] = produced + k
      BY <1>3 DEF IInv, Contents, GpsPublish
    <3>2. CASE j < Unread
      BY <2>1, <2>2, <2>9, <3>1, <3>2 DEF Unread
    <3>3. CASE j >= Unread
      <4> DEFINE i == j - Unread
      <4>1. i \in 0 .. NumIqSamples - 1 /\ j = Unread + i
        BY <2>1, <2>4, <2>9, <3>3 DEF Unread
      <4>2. Wrap(tail + j) = head + i
        <5>1. /\ Wrap(tail + (GetSampleLength + i)) = Wrap(head + i)
              /\ Wrap(head + i) = head + i
          BY <4>1, FreeSlots DEF IInv
        <5>2. QED BY <2>2, <4>1, <5>1
      <4>3. memory[head + i] = produced + i
        BY <3>1, <4>1
      <4>4. produced + i = Taken + j
        BY <2>1, <4>1 DEF Unread
      <4>5. QED BY <4>2, <4>3, <4>4
    <3>4. QED BY <2>1, <2>4, <2>9, <3>2, <3>3 DEF Unread
  <2>10. Contents'
    BY <1>3, <2>2, <2>4, <2>8, <2>9 DEF Contents, GpsPublish, Wrap
  <2>11. QED BY <2>5, <2>6, <2>7, <2>10 DEF IInv
<1>4. QED BY <1>1, <1>2, <1>3 DEF GpsStep

(* When no block is late, what is read are the samples that come next.     *)
LEMMA ReadIsNext ==
  ASSUME IInv, TxRead, pending = {}
  PROVE  \A k \in Len(txBuffer) + 1 .. Len(txBuffer') :
           txBuffer'[k] = Len(sent) + k - 1
<1> DEFINE n == ReadCount(SamplesPerBuffer - Len(txBuffer))
<1>1. /\ n \in Nat /\ n <= GetSampleLength
      /\ FifoRead(n) \in Seq(Int) /\ Len(FifoRead(n)) = n
      /\ \A j \in 1 .. n : FifoRead(n)[j] = fifo[Wrap(tail + j - 1)]
  BY ReadIsInRing DEF IInv
<1>2. txBuffer' = txBuffer \o FifoRead(n)
  BY DEF TxRead
<1> HIDE DEF n
<1>3. /\ txBuffer \in Seq(Int) /\ sent \in Seq(Int) /\ tail \in Nat
      /\ Unread = GetSampleLength /\ GetSampleLength \in Nat
  BY LengthRange DEF IInv, TypeOK, LengthIsUnread, FifoLength
<1>4. \A j \in 0 .. Unread - 1 : fifo[Wrap(tail + j)] = Taken + j
  BY DEF IInv, Contents, Memories
<1>5. SUFFICES ASSUME NEW k \in Len(txBuffer) + 1 .. Len(txBuffer')
               PROVE  txBuffer'[k] = Len(sent) + k - 1
  OBVIOUS
<1> DEFINE j == k - Len(txBuffer)
<1>6. j \in 1 .. n /\ k \in Len(txBuffer) + 1 .. Len(txBuffer) + n
  BY <1>1, <1>2, <1>3, <1>5, Concatenation
<1>7. txBuffer'[k] = FifoRead(n)[j]
  BY <1>1, <1>2, <1>3, <1>6, Concatenation
<1>8. FifoRead(n)[j] = fifo[Wrap(tail + (j - 1))]
  BY <1>1, <1>3, <1>6 DEF Wrap
<1>9. fifo[Wrap(tail + (j - 1))] = Taken + (j - 1)
  <2>1. j - 1 \in 0 .. Unread - 1
    BY <1>1, <1>3, <1>6
  <2>2. QED BY <1>4, <2>1
<1>10. Taken + (j - 1) = Len(sent) + k - 1
  BY <1>3, <1>6 DEF Taken
<1>11. QED BY <1>7, <1>8, <1>9, <1>10

LEMMA TxStepKeepsIInv ==
  ASSUME IInv, TypeOK', Progress', Leaving', TxStep
  PROVE  IInv'
<1> USE DEF mainVars, ringVars, txVars
<1>1. ASSUME TxStart \/ TxLock \/ TxTest \/ TxWait \/ TxUnlock \/ TxSignalWrite
      PROVE  IInv'
  <2>1. /\ UNCHANGED <<head, tail, fifo, pending, produced, txBuffer, sent>>
        /\ pcGps' = "publish" => pcGps = "publish"
        /\ pcGps' = "copy" => pcGps = "copy" \/ pending = {}
    BY <1>1 DEF TxStart, TxLock, TxTest, TxWait, TxUnlock, TxSignalWrite
  <2>2. Control'
    <3>1. GetSampleLength \in 0 .. FifoLength - 1 /\ Len(txBuffer) \in Nat
          /\ Len(txBuffer) <= SamplesPerBuffer
      BY LengthRange DEF IInv, TypeOK
    <3>2. GetSampleLength' = GetSampleLength /\ txBuffer' = txBuffer
      BY <2>1 DEF GetSampleLength
    <3> USE DEF IInv, Control
    <3>3. CASE TxStart \/ TxLock \/ TxWait \/ TxUnlock
      BY <3>2, <3>3 DEF TxStart, TxLock, TxWait, TxUnlock
    <3>4. CASE TxTest
      BY <3>1, <3>2, <3>4 DEF TxTest, FifoLength
    <3>5. CASE TxSignalWrite
      BY <3>1, <3>2, <3>5 DEF TxSignalWrite
    <3>6. QED BY <1>1, <3>3, <3>4, <3>5
  <2>3. QED BY <2>1, <2>2, Frame
<1>2. ASSUME TxRead PROVE IInv'
  <2> DEFINE n == ReadCount(SamplesPerBuffer - Len(txBuffer))
  <2>1. /\ n \in Nat /\ n <= GetSampleLength
        /\ FifoRead(n) \in Seq(Int) /\ Len(FifoRead(n)) = n
        /\ \A j \in 1 .. n : FifoRead(n)[j] = fifo[Wrap(tail + j - 1)]
    BY ReadIsInRing DEF IInv
  <2>2. /\ txBuffer' = txBuffer \o FifoRead(n) /\ tail' = Wrap(tail + n)
        /\ UNCHANGED <<head, fifo, pending, produced, sent>>
        /\ UNCHANGED <<pcMain, pcGps, gpsLock>>
        /\ pcTx = "read" /\ pcTx' = "unlock"
    BY <1>2 DEF TxRead
  <2> HIDE DEF n
  <2>3. /\ head \in {0, NumIqSamples} /\ tail \in 0 .. FifoLength - 1
        /\ txBuffer \in Seq(Int) /\ sent \in Seq(Int) /\ produced \in Nat
        /\ GetSampleLength \in 0 .. FifoLength - 1
    BY LengthRange DEF IInv, TypeOK
  <2>4. Len(txBuffer') = Len(txBuffer) + n
    BY <2>1, <2>2, <2>3, Concatenation
  <2>5. GetSampleLength' = GetSampleLength - n
    <3>1. head' = head /\ tail' = Wrap(tail + n)
      BY <2>2
    <3>2. n \in Nat /\ n <= GetSampleLength
      BY <2>1
    <3> QED
      BY <2>3, <3>1, <3>2, TailOverUnread
  <2>6. Taken' = Taken + n /\ Taken \in Nat
    BY <2>1, <2>2, <2>3, <2>4 DEF Taken
  <2>7. LengthIsUnread'
    BY <2>1, <2>2, <2>3, <2>5, <2>6 DEF IInv, LengthIsUnread, Unread
  <2>8. Control'
    BY <2>1, <2>2, <2>3, <2>5 DEF IInv, Control
  <2>9. Unread = GetSampleLength /\ Unread' = Unread - n
    BY <2>5, <2>7 DEF IInv, LengthIsUnread
  <2>10. Contents'
    <3>1. Memories' = Memories
      BY <2>2 DEF Memories, WithBlock
    <3>2. ASSUME NEW memory \in Memories, NEW j \in 0 .. Unread - n - 1
          PROVE  memory[Wrap(Wrap(tail + n) + j)] = Taken + n + j
      <4>1. n + j \in 0 .. Unread - 1
        BY <2>1, <2>3, <2>9, <3>2
      <4>2. memory[Wrap(tail + (n + j))] = Taken + (n + j)
        BY <4>1 DEF IInv, Contents
      <4>3. Wrap(Wrap(tail + n) + j) = Wrap(tail + (n + j))
        BY <2>1, <2>3, <2>9, <3>2, <4>1 DEF Wrap, FifoLength
      <4>4. QED BY <2>1, <2>6, <3>2, <4>2, <4>3
    <3>3. QED
      BY <2>2, <2>6, <2>9, <3>1, <3>2 DEF IInv, Contents, Wrap
  <2>11. OneLateBlock'
    BY <2>2 DEF IInv, OneLateBlock
  <2>12. ASSUME ~WeakMemory PROVE pending' = {} /\ SignalInOrder'
    <3>1. pending = {} /\ SignalInOrder
      BY <2>12 DEF IInv
    <3>2. ASSUME NEW k \in 1 .. Len(txBuffer')
          PROVE  txBuffer'[k] = Len(sent) + k - 1
      <4>1. CASE k <= Len(txBuffer)
        <5>1. txBuffer'[k] = txBuffer[k]
          BY <2>1, <2>2, <2>3, <3>2, <4>1, Concatenation
        <5>2. QED BY <2>3, <3>1, <3>2, <4>1, <5>1 DEF SignalInOrder
      <4>2. CASE k > Len(txBuffer)
        <5>1. k \in Len(txBuffer) + 1 .. Len(txBuffer')
          BY <2>1, <2>3, <2>4, <3>2, <4>2
        <5>2. QED BY <1>2, <3>1, <5>1, ReadIsNext
      <4>3. QED BY <2>3, <3>2, <4>1, <4>2, <2>1, <2>4
    <3>3. QED BY <2>2, <3>1, <3>2 DEF SignalInOrder
  <2>13. QED BY <2>7, <2>8, <2>10, <2>11, <2>12 DEF IInv
<1>3. ASSUME TxSend PROVE IInv'
  <2>1. /\ sent' = sent \o txBuffer /\ txBuffer' = <<>>
        /\ UNCHANGED <<head, tail, fifo, pending, produced>>
        /\ UNCHANGED <<pcMain, pcGps, gpsLock>>
        /\ pcTx = "send" /\ pcTx' = "lock"
    BY <1>3 DEF TxSend
  <2>2. txBuffer \in Seq(Int) /\ sent \in Seq(Int) /\ produced \in Nat
    BY DEF IInv, TypeOK
  <2>3. Len(sent') = Len(sent) + Len(txBuffer) /\ Len(txBuffer') = 0
    BY <2>1, <2>2, Concatenation
  <2>4. Taken' = Taken /\ Unread' = Unread /\ GetSampleLength' = GetSampleLength
    BY <2>1, <2>2, <2>3 DEF Taken, Unread, GetSampleLength
  <2>5. LengthIsUnread'
    BY <2>4 DEF IInv, LengthIsUnread
  <2>6. Control'
    BY <2>1, <2>3, <2>4 DEF IInv, Control
  <2>7. ASSUME ~WeakMemory PROVE pending' = {} /\ SignalInOrder'
    <3>1. pending = {} /\ SignalInOrder
      BY <2>7 DEF IInv
    <3>2. ASSUME NEW k \in 1 .. Len(sent') PROVE sent'[k] = k - 1
      <4>1. CASE k <= Len(sent)
        <5>1. sent'[k] = sent[k]
          BY <2>1, <2>2, <3>2, <4>1, Concatenation
        <5>2. QED BY <2>2, <3>1, <3>2, <4>1, <5>1 DEF SignalInOrder
      <4>2. CASE k > Len(sent)
        <5>1. /\ k \in Len(sent) + 1 .. Len(sent) + Len(txBuffer)
              /\ k - Len(sent) \in 1 .. Len(txBuffer)
          BY <2>2, <2>3, <3>2, <4>2
        <5>2. sent'[k] = txBuffer[k - Len(sent)]
          BY <2>1, <2>2, <5>1, Concatenation
        <5>3. txBuffer[k - Len(sent)] = Len(sent) + (k - Len(sent)) - 1
          BY <3>1, <5>1 DEF SignalInOrder
        <5>4. QED BY <2>2, <5>1, <5>2, <5>3
      <4>3. QED BY <2>2, <3>2, <4>1, <4>2, <2>3
    <3>3. SignalInOrder'
      BY <2>3, <3>2 DEF SignalInOrder
    <3>4. QED BY <2>1, <3>1, <3>3
  <2>8. Memories' = Memories
    BY <2>1 DEF Memories, WithBlock
  <2>9. Contents' /\ OneLateBlock'
    BY <2>1, <2>4, <2>8 DEF IInv, Contents, OneLateBlock, Wrap
  <2>10. QED BY <2>5, <2>6, <2>7, <2>9 DEF IInv
<1>4. QED BY <1>1, <1>2, <1>3 DEF TxStep

LEMMA EnvironmentKeepsIInv ==
  ASSUME IInv, TypeOK', Progress', Leaving', Environment
  PROVE  IInv'
<1> USE DEF mainVars, ringVars, txVars
<1>1. ASSUME StoreVisible PROVE IInv'
  <2>1. /\ UNCHANGED <<head, tail, produced, txBuffer, sent, pcMain, pcGps, pcTx, gpsLock>>
        /\ pending # {}
    BY <1>1 DEF StoreVisible
  <2>2. Control' /\ LengthIsUnread'
    BY <2>1 DEF IInv, Control, LengthIsUnread, Unread, Taken, GetSampleLength
  <2>3. WeakMemory
    BY <2>1 DEF IInv
  <2>4. PICK b \in pending : /\ fifo' = WithBlock(fifo, b.at, b.from)
                            /\ pending' = pending \ {b}
    BY <1>1 DEF StoreVisible
  <2>5. pending' = {} /\ Memories = {WithBlock(fifo, b.at, b.from)}
    BY <2>1, <2>4 DEF IInv, OneLateBlock, Memories
  <2>6. Memories' = Memories
    BY <2>4, <2>5 DEF Memories
  <2>7. Contents' /\ OneLateBlock'
    BY <2>1, <2>5, <2>6 DEF IInv, Contents, OneLateBlock, Unread, Taken, Wrap
  <2>8. QED BY <2>2, <2>3, <2>7 DEF IInv
<1>2. ASSUME SpuriousWakeup \/ UseAfterReturn PROVE IInv'
  <2>1. /\ UNCHANGED <<head, tail, fifo, pending, produced, txBuffer, sent>>
        /\ pcGps' = "publish" => pcGps = "publish"
        /\ pcGps' = "copy" => pcGps = "copy" \/ pending = {}
    BY <1>2 DEF SpuriousWakeup, UseAfterReturn
  <2>2. Control'
    BY <1>2 DEF SpuriousWakeup, UseAfterReturn, IInv, Control, GetSampleLength
  <2>3. QED BY <2>1, <2>2, Frame
<1>3. QED BY <1>1, <1>2 DEF Environment

(* The inductive invariant of the pipeline.                                *)
THEOREM Invariance == Spec => []IInv
<1>1. Init => IInv
  <2> SUFFICES ASSUME Init PROVE IInv
    OBVIOUS
  <2>1. TypeOK
    BY InitTypeOK
  <2>2. /\ GetSampleLength = 0 /\ Len(txBuffer) = 0 /\ Len(sent) = 0
        /\ Taken = 0 /\ Unread = 0
    <3>1. Len(txBuffer) = 0 /\ Len(sent) = 0
      BY DEF Init
    <3>2. GetSampleLength = 0
      BY DEF Init, GetSampleLength
    <3>3. produced = 0
      BY DEF Init
    <3>4. QED BY <3>1, <3>2, <3>3 DEF Taken, Unread
  <2>3. Control
    BY <2>2 DEF Init, Control
  <2>4. Contents /\ OneLateBlock /\ SignalInOrder
    BY <2>2 DEF Init, Contents, OneLateBlock, SignalInOrder
  <2>5. Progress /\ Leaving /\ pending = {}
    BY DEF Init, Progress, Leaving
  <2>6. QED BY <2>1, <2>2, <2>3, <2>4, <2>5 DEF IInv, LengthIsUnread
<1>2. IInv /\ [Next]_vars => IInv'
  <2> SUFFICES ASSUME IInv, [Next]_vars PROVE IInv'
    OBVIOUS
  <2>1. TypeOK' /\ Progress' /\ Leaving'
    BY NextTypeOK, NextProgress, NextLeaving DEF IInv
  <2>2. CASE UNCHANGED vars
    <3>1. Control'
      BY <2>2 DEF vars, IInv, Control, GetSampleLength
    <3>2. /\ UNCHANGED <<head, tail, fifo, pending, produced, txBuffer, sent>>
          /\ pcGps' = pcGps
      BY <2>2 DEF vars
    <3>3. QED BY <2>1, <3>1, <3>2, Frame
  <2>3. QED
    BY <2>1, <2>2, MainStepKeepsIInv, GpsStepKeepsIInv, TxStepKeepsIInv,
       EnvironmentKeepsIInv DEF Next
<1>3. QED BY <1>1, <1>2, PTL DEF Spec

-----------------------------------------------------------------------------
(* Whatever the sizes, the memory order and the failures, the ring tells   *)
(* full from empty: its length is what was published and not yet read.     *)
THEOREM LengthCorrect == Spec => []LengthIsUnread
<1>1. IInv => LengthIsUnread
  BY DEF IInv
<1>2. QED BY <1>1, Invariance, PTL

(* Whatever the sizes, the memory order and the failures, the unlocked copy*)
(* of a block stays inside the ring and off every unread sample.           *)
THEOREM CopySafe == Spec => []NoUnreadOverwritten
<1>1. IInv => NoUnreadOverwritten
  <2> SUFFICES ASSUME IInv, pcGps = "copy"
               PROVE  /\ head + NumIqSamples <= FifoLength
                      /\ \A j \in 0 .. Unread - 1 :
                           Wrap(tail + j) \notin head .. head + NumIqSamples - 1
    BY DEF NoUnreadOverwritten
  <2>1. head + NumIqSamples <= FifoLength
    BY DEF IInv, TypeOK, FifoLength
  <2>2. GetSampleLength < NumIqSamples /\ Unread = GetSampleLength
    BY DEF IInv, Control, LengthIsUnread
  <2>3. QED BY <2>1, <2>2, FreeSlots DEF IInv
<1>2. QED BY <1>1, Invariance, PTL

(* When stores become visible in program order, the TX task takes the      *)
(* generated signal out of the ring from its first sample on, in order and *)
(* without a gap, for every size of block and of buffer.                   *)
THEOREM SignalCorrect == ~WeakMemory => (Spec => []SignalInOrder)
<1>1. SUFFICES ASSUME ~WeakMemory PROVE Spec => []SignalInOrder
  OBVIOUS
<1>2. IInv => SignalInOrder
  BY <1>1 DEF IInv
<1>3. QED BY <1>2, Invariance, PTL

(* Where stores become visible late, the TX task takes a wrong sample out  *)
(* of the ring only in a step made while a block is on its way to memory:  *)
(* no stale sample, and no wrong place, outlives that.                     *)
THEOREM WrongSamplesOnlyLate == Spec => WrongSampleOnlyWhileBlockLate
<1>1. IInv /\ [Next]_vars =>
        [ pcTx = "read" =>
            \A k \in Len(txBuffer) + 1 .. Len(txBuffer') :
              txBuffer'[k] = Len(sent) + k - 1 \/ pending # {} ]_vars
  <2> SUFFICES ASSUME IInv, [Next]_vars, pending = {},
                      NEW k \in Len(txBuffer) + 1 .. Len(txBuffer')
               PROVE  txBuffer'[k] = Len(sent) + k - 1
    OBVIOUS
  <2> USE DEF mainVars, ringVars, txVars
  <2>1. CASE TxRead
    BY <2>1, ReadIsNext
  <2>2. CASE UNCHANGED txBuffer \/ txBuffer' = <<>>
    BY <2>2 DEF IInv, TypeOK
  <2>3. MainStep => UNCHANGED txBuffer
    BY DEF MainStep, MainMalloc, MainMallocFifo, MainStartGps, MainTestReady, MainWait,
       MainFill, MainStartTx, MainJoin, MainOut
  <2>4. GpsStep => UNCHANGED txBuffer
    BY DEF GpsStep, GpsSetup, GpsGenerate, GpsSignalInit, GpsLock, GpsTest, GpsWait,
       GpsUnlock, GpsCopy, GpsPublish, GpsSignalRead
  <2>5. TxStep => TxRead \/ UNCHANGED txBuffer \/ txBuffer' = <<>>
    BY DEF TxStep, TxStart, TxLock, TxTest, TxWait, TxUnlock, TxSignalWrite, TxSend
  <2>6. Environment \/ UNCHANGED vars => UNCHANGED txBuffer
    BY DEF Environment, StoreVisible, SpuriousWakeup, UseAfterReturn, vars
  <2>7. QED BY <2>1, <2>2, <2>3, <2>4, <2>5, <2>6 DEF Next
<1>2. QED BY <1>1, Invariance, PTL DEF Spec, WrongSampleOnlyWhileBlockLate

(* limeMain frees the ring under a GPS task that still uses it only when it*)
(* could not create the TX task, whatever else fails.                      *)
THEOREM FreedCorrect == Spec => []FreedInUseOnlyAfterTxFailure
<1>1. IInv => FreedInUseOnlyAfterTxFailure
  BY DEF IInv, Leaving, FreedInUseOnlyAfterTxFailure
<1>2. QED BY <1>1, Invariance, PTL

(* There is no deadlock but the two lost wakeups, the unnoticed failures of*)
(* the GPS task and the end of the trajectory: in particular a GPS task    *)
(* that sleeps for room is always woken.                                   *)
THEOREM BlockedCorrect == Spec => []BlockedOnlyWhereExplained
<1>1. IInv => BlockedOnlyWhereExplained
  <2> SUFFICES ASSUME IInv, pending = {}, AllBlocked PROVE StopExplained
    BY DEF BlockedOnlyWhereExplained
  <2>1. gpsLock = "none"
    BY DEF IInv, TypeOK, Control, AllBlocked
  <2>2. pcGps \in {"off", "done", "asleep"}
    BY <2>1 DEF AllBlocked
  <2>3. CASE pcMain = "returned"
    BY <2>3 DEF StopExplained
  <2>4. CASE pcMain = "asleep"
    BY <2>2, <2>4 DEF IInv, Progress, StopExplained, InitWakeupLost
  <2>5. CASE pcMain = "join" /\ pcTx \notin {"done", "not_created"}
    <3>1. pcTx = "asleep" /\ pcGps \in {"done", "asleep"}
      BY <2>1, <2>2, <2>5 DEF IInv, Progress, AllBlocked
    <3>2. CASE GetSampleLength > 0
      BY <3>1, <3>2 DEF StopExplained, ReadWakeupLost
    <3>3. CASE ~(GetSampleLength > 0)
      <4>1. GetSampleLength = 0 /\ Unread = 0
        BY <3>3, LengthRange DEF IInv, TypeOK, LengthIsUnread, FifoLength
      <4>2. pcGps = "done"
        BY <3>1, <4>1 DEF IInv, Progress, IsFifoWriteReady
      <4>3. QED BY <3>1, <4>1, <4>2 DEF StopExplained
    <3>4. QED BY <3>2, <3>3
  <2>6. QED BY <2>3, <2>4, <2>5 DEF AllBlocked
<1>2. QED BY <1>1, Invariance, PTL

(* When it reads, the TX task finds data.                                  *)
THEOREM ReadCorrect == Spec => []ReadFindsData
<1>1. IInv => ReadFindsData
  BY DEF IInv, Control, ReadFindsData
<1>2. QED BY <1>1, Invariance, PTL

-----------------------------------------------------------------------------
(* A send hands over the next SamplesPerBuffer samples of the signal.      *)
LEMMA SendPlays ==
  ASSUME IInv, ~WeakMemory, TxSend
  PROVE  Stream!Play
<1>1. /\ sent' = sent \o txBuffer /\ produced' = produced
      /\ Len(txBuffer) = SamplesPerBuffer
      /\ \A k \in 1 .. Len(txBuffer) : txBuffer[k] = Len(sent) + k - 1
  BY DEF TxSend, ringVars, IInv, Control, SignalInOrder
<1>2. txBuffer \in Seq(Int) /\ sent \in Seq(Int) /\ produced \in Nat
      /\ GetSampleLength \in 0 .. FifoLength - 1 /\ GetSampleLength = Unread
  BY LengthRange DEF IInv, TypeOK, LengthIsUnread
<1>3. txBuffer = [j \in 1 .. SamplesPerBuffer |-> Len(sent) + j - 1]
  BY <1>1, <1>2
<1>4. Len(sent) + SamplesPerBuffer <= produced
  BY <1>1, <1>2 DEF Unread, Taken
<1>5. QED BY <1>1, <1>3, <1>4 DEF Stream!Play

(* A publication is a step of the generator: the radio is less than a      *)
(* block and a buffer behind it.                                           *)
LEMMA PublishGenerates ==
  ASSUME IInv, GpsPublish
  PROVE  Stream!Generate
<1>1. /\ produced' = produced + NumIqSamples /\ sent' = sent
      /\ GetSampleLength < NumIqSamples
  BY DEF GpsPublish, txVars, IInv, Control
<1>2. txBuffer \in Seq(Int) /\ sent \in Seq(Int) /\ produced \in Nat
      /\ GetSampleLength \in 0 .. FifoLength - 1 /\ GetSampleLength = Unread
      /\ Len(txBuffer) <= SamplesPerBuffer
  BY LengthRange DEF IInv, TypeOK, LengthIsUnread
<1>3. produced - Len(sent) < NumIqSamples + SamplesPerBuffer
  BY <1>1, <1>2 DEF Unread, Taken
<1>4. QED BY <1>1, <1>3 DEF Stream!Generate

(* The pipeline implements the gapless signal, when stores become visible  *)
(* in program order.                                                       *)
THEOREM Refinement == ~WeakMemory => (Spec => PlaysTheSignal)
<1>1. SUFFICES ASSUME ~WeakMemory PROVE Spec => Stream!Spec
  BY DEF PlaysTheSignal
<1>2. Init => Stream!Init
  BY DEF Init, Stream!Init
<1>3. IInv /\ [Next]_vars => [Stream!Next]_<<produced, sent>>
  <2> SUFFICES ASSUME IInv, [Next]_vars
               PROVE  Stream!Generate \/ Stream!Play \/ UNCHANGED <<produced, sent>>
    BY DEF Stream!Next
  <2> USE DEF mainVars, ringVars, txVars
  <2>1. CASE MainStep
    BY <2>1 DEF MainStep, MainMalloc, MainMallocFifo, MainStartGps, MainTestReady,
       MainWait, MainFill, MainStartTx, MainJoin, MainOut
  <2>2. CASE GpsStep
    BY <2>2, PublishGenerates DEF GpsStep, GpsSetup, GpsGenerate, GpsSignalInit,
       GpsLock, GpsTest, GpsWait, GpsUnlock, GpsCopy, GpsSignalRead
  <2>3. CASE TxStep
    BY <1>1, <2>3, SendPlays DEF TxStep, TxStart, TxLock, TxTest, TxWait, TxRead,
       TxUnlock, TxSignalWrite
  <2>4. ASSUME Environment \/ UNCHANGED vars PROVE UNCHANGED <<produced, sent>>
    BY <2>4 DEF Environment, StoreVisible, SpuriousWakeup, UseAfterReturn, vars
  <2>5. QED BY <2>1, <2>2, <2>3, <2>4 DEF Next
<1>4. QED BY <1>2, <1>3, Invariance, PTL DEF Spec, Stream!Spec
=============================================================================
