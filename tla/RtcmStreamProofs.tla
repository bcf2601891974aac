-------------------------- MODULE RtcmStreamProofs --------------------------
(***************************************************************************)
(* Proofs about RtcmStream, for all lengths, satellites and chunks: the    *)
(* buffer runs over only after a length was lost, and once in step with    *)
(* the frames the receiver stays so and misses no ephemeris, until a chunk *)
(* loses it the length.                                                    *)
(***************************************************************************)
EXTENDS RtcmStream, TLAPS

(* The ends of the sizes, as the provers need them.                        *)
LEMMA Sizes ==
  /\ MaxSat \in Nat \ {0} /\ MaxLength \in Nat
  /\ HeaderLen \in Nat /\ HeaderLen >= 2 /\ ParityLen \in Nat /\ ParityLen >= 1
  /\ BuffLen \in Nat /\ BuffLen >= HeaderLen + MaxLength + ParityLen
  /\ Preamble = MaxLength /\ Bytes = 0 .. MaxLength
  /\ \A f \in Frames : /\ f.n \in 0 .. MaxLength
                       /\ Total(f) \in Nat /\ Total(f) = HeaderLen + f.n + ParityLen
                       /\ Total(f) > HeaderLen /\ Total(f) <= BuffLen
<1>1. ASSUME NEW f \in Frames
      PROVE  /\ f.n \in 0 .. MaxLength
             /\ Total(f) \in Nat /\ Total(f) = HeaderLen + f.n + ParityLen
             /\ Total(f) > HeaderLen /\ Total(f) <= BuffLen
  <2>1. f.n \in 0 .. MaxLength
    BY <1>1, StreamAssumption DEF Frames
  <2> QED
    BY <2>1, StreamAssumption DEF Total
<1> QED
  BY <1>1, StreamAssumption DEF Preamble, Bytes

LEMMA NotAtLeast ==
  ASSUME NEW j \in Nat, NEW l \in Nat, NEW p \in Nat, ~(j + 1 >= l + p)
  PROVE  j + 1 < l + p
  OBVIOUS

LEMMA InitIInv == Init => IInv
<1> SUFFICES ASSUME Init PROVE IInv
  OBVIOUS
<1>1. Total(frame) \in Nat /\ frame \in Frames /\ at \in 1 .. Total(frame) + 1
  BY Sizes DEF Init
<1>2. start \in [frame : Frames, at : Nat] /\ frames \in Nat
  BY <1>1 DEF Init
<1>3. /\ i \in 0 .. BuffLen /\ len \in 0 .. HeaderLen + BuffLen /\ hdr \in Bytes
      /\ stored \subseteq 0 .. MaxSat /\ nSV \in Nat
      /\ result \in {-1, 1}
  BY Sizes DEF Init
<1>4. /\ pc \in {"connect", "recv", "loop", "returned", "overrun"}
      /\ kept \in BOOLEAN /\ synced \in BOOLEAN
  BY DEF Init
<1>5. TypeOK
  BY <1>1, <1>2, <1>3, <1>4 DEF TypeOK
<1>6. ~(i >= HeaderLen) /\ ~(i > 0)
  BY Sizes DEF Init
<1>7. ~synced /\ pc # "overrun"
  BY DEF Init
<1> QED
  BY <1>5, <1>6, <1>7 DEF IInv, Length, Contiguous, InStep, OverrunOnlyOfLostLength

(* The steps that take no byte.                                            *)
LEMMA OtherSteps ==
  ASSUME IInv, Connect \/ RecvChunk \/ RecvEnd
  PROVE  IInv'
<1> USE DEF IInv
<1>1. CASE Connect
  <2>1. TypeOK'
    BY <1>1 DEF Connect, TypeOK
  <2> QED
    BY <2>1, <1>1 DEF Connect, Length, Contiguous, InStep, OverrunOnlyOfLostLength
<1>2. CASE RecvChunk
  <2>1. len' \in 0 .. HeaderLen + BuffLen
    BY <1>2, Sizes DEF RecvChunk, DeclaredLength, TypeOK
  <2>2. /\ synced' \in BOOLEAN /\ (synced' => synced)
        /\ kept' \in BOOLEAN /\ (kept' => kept)
        /\ (kept' \/ synced') => (len' = len \/ i < HeaderLen)
    BY <1>2 DEF RecvChunk, TypeOK
  <2>3. TypeOK'
    BY <1>2, <2>1, <2>2 DEF RecvChunk, TypeOK
  <2>4. InStep' /\ OverrunOnlyOfLostLength' /\ Contiguous'
    BY <1>2, <2>2 DEF RecvChunk, Contiguous, InStep, OverrunOnlyOfLostLength
  <2>5. Length'
    <3>1. i \in Nat /\ HeaderLen \in Nat
      BY Sizes DEF TypeOK
    <3> QED
      BY <1>2, <2>2, <3>1 DEF RecvChunk, Length
  <2> QED
    BY <1>2, <2>3, <2>4, <2>5 DEF RecvChunk
<1>3. CASE RecvEnd
  <2>1. TypeOK'
    BY <1>3 DEF RecvEnd, TypeOK
  <2> QED
    BY <2>1, <1>3 DEF RecvEnd, Length, Contiguous, InStep, OverrunOnlyOfLostLength
<1> QED
  BY <1>1, <1>2, <1>3

-----------------------------------------------------------------------------
(* Taking a byte.                                                          *)

(* The peer's part of the step.                                            *)
LEMMA PeerStep ==
  ASSUME IInv, Byte
  PROVE  /\ frame' \in Frames /\ at' \in 1 .. Total(frame') + 1 /\ frames' \in Nat
         /\ frame \in Frames /\ at \in 1 .. Total(frame)
         /\ at < Total(frame) => frame' = frame /\ at' = at + 1
         /\ at = Total(frame) =>
              \/ at' = 1
              \/ frame' = frame /\ at' = Total(frame) + 1
<1>1. frame \in Frames /\ Total(frame) \in Nat /\ Total(frame) >= 1
  BY Sizes DEF IInv, TypeOK
<1>2. at \in 1 .. Total(frame) /\ frames \in Nat /\ PeerGoesOn
  BY <1>1 DEF IInv, TypeOK, Byte
<1>3. CASE at = Total(frame) /\ frames < NumFrames
  <2>1. frame' \in Frames /\ at' = 1 /\ frames' = frames + 1
    BY <1>2, <1>3 DEF PeerGoesOn
  <2>2. Total(frame') \in Nat
    BY <2>1, Sizes
  <2> QED
    BY <1>1, <1>2, <1>3, <2>1, <2>2
<1>4. CASE ~(at = Total(frame) /\ frames < NumFrames)
  <2>1. frame' = frame /\ at' = at + 1 /\ frames' = frames
    BY <1>2, <1>4 DEF PeerGoesOn
  <2> QED
    BY <1>1, <1>2, <2>1
<1> QED
  BY <1>3, <1>4

(* A byte that is stored behind another one.                               *)
LEMMA StoreStep ==
  ASSUME IInv, Byte, NEW b \in ByteValues, StoreByte(b)
  PROVE  /\ b \in Bytes /\ hdr' \in Bytes /\ len' \in 0 .. HeaderLen + BuffLen
         /\ i \in 1 .. BuffLen - 1
         /\ (i + 1 >= HeaderLen /\ (kept' \/ synced')) =>
              len' = LengthFromHeader(hdr')
         /\ (i + 1 >= HeaderLen /\ start.at = 1) => hdr' = start.frame.n
         /\ synced' => /\ i = at - 1 /\ start = [frame |-> frame, at |-> 1]
                       /\ HasFrame(i + 1, len') <=> at = Total(frame)
                       /\ HasFrame(i + 1, len') => ParityIsGood
<1> USE DEF IInv
<1>1. /\ frame \in Frames /\ at \in 1 .. Total(frame) /\ pc = "loop"
      /\ i \in 1 .. BuffLen - 1 /\ len \in 0 .. HeaderLen + BuffLen
      /\ start.frame \in Frames /\ start.at \in Nat /\ hdr \in Bytes
  BY PeerStep, Sizes DEF Byte, TypeOK, StoreByte
<1>2. frame.n \in 0 .. MaxLength
  BY <1>1, Sizes
<1>3. b \in Bytes
  BY <1>2, Sizes DEF ByteValues
<1>4. hdr' \in Bytes /\ len' \in 0 .. HeaderLen + BuffLen
  <2>1. CASE i + 1 = HeaderLen
    BY <2>1, <1>3, Sizes DEF StoreByte, LengthFromHeader
  <2>2. CASE i + 1 # HeaderLen
    BY <2>2, <1>1 DEF StoreByte
  <2> QED
    BY <2>1, <2>2
<1>5. synced' => i = at - 1 /\ start = [frame |-> frame, at |-> 1] /\ synced
  <2>1. i # 0
    BY <1>1
  <2>2. synced' => synced
    BY <2>1 DEF Byte
  <2>3. synced => i = at - 1 /\ start = [frame |-> frame, at |-> 1]
    BY <2>1, <1>1, Sizes DEF InStep
  <2> QED
    BY <2>2, <2>3
<1>6. (i + 1 >= HeaderLen /\ (kept' \/ synced')) => len' = LengthFromHeader(hdr')
  <2>1. CASE i + 1 = HeaderLen
    BY <2>1 DEF StoreByte
  <2>2. CASE i + 1 > HeaderLen
    <3>1. kept' = kept /\ i >= HeaderLen /\ i + 1 # HeaderLen
      BY <2>2, <1>1, Sizes DEF Byte
    <3> QED
      BY <3>1, <1>1, <1>5 DEF StoreByte, Length
  <2>3. kept' \in BOOLEAN /\ synced' \in BOOLEAN
    BY DEF Byte, TypeOK
  <2> QED
    BY <2>1, <2>2, <2>3, <1>1, Sizes
<1>7. (i + 1 >= HeaderLen /\ start.at = 1) => hdr' = start.frame.n
  <2>1. CASE i + 1 = HeaderLen /\ start.at = 1
    <3>1. i < Total(start.frame)
      <4>1. Total(start.frame) \in Nat /\ Total(start.frame) > HeaderLen
        BY <1>1, Sizes
      <4> QED
        BY <2>1, <4>1, <1>1, Sizes
    <3>2. frame = start.frame /\ at = HeaderLen /\ at # 1
      BY <2>1, <3>1, <1>1, Sizes DEF Contiguous
    <3>3. b = frame.n
      BY <3>2 DEF ByteValues
    <3> QED
      BY <2>1, <3>2, <3>3 DEF StoreByte
  <2>2. CASE i + 1 > HeaderLen
    BY <2>2, <1>1, Sizes DEF StoreByte, Contiguous
  <2> QED
    BY <2>1, <2>2, <1>1, Sizes
<1>8. ASSUME synced'
      PROVE  /\ HasFrame(i + 1, len') <=> at = Total(frame)
             /\ HasFrame(i + 1, len') => ParityIsGood
  <2>1. start.at = 1 /\ start.frame = frame /\ i + 1 = at
    BY <1>8, <1>5, <1>1
  <2>2. i + 1 >= HeaderLen => len' = HeaderLen + frame.n
    BY <1>8, <2>1, <1>2, <1>6, <1>7, Sizes DEF LengthFromHeader
  <2>3. Total(frame) = HeaderLen + frame.n + ParityLen /\ Total(frame) > HeaderLen
    BY <1>1, Sizes
  <2>4. CASE at = Total(frame)
    <3>1. len' = HeaderLen + frame.n /\ i + 1 = HeaderLen + frame.n + ParityLen
      BY <2>1, <2>2, <2>3, <2>4, <1>1, Sizes
    <3> QED
      BY <2>1, <2>3, <2>4, <3>1, <1>1, <1>2, Sizes DEF HasFrame, ParityIsGood
  <2>5. CASE at < Total(frame)
    <3>1. ~HasFrame(i + 1, len')
      <4>1. CASE i + 1 >= HeaderLen
        BY <2>1, <2>2, <2>3, <2>5, <4>1, <1>1, <1>2, Sizes DEF HasFrame
      <4>2. CASE ~(i + 1 >= HeaderLen)
        BY <4>2 DEF HasFrame
      <4> QED
        BY <4>1, <4>2
    <3> QED
      BY <2>5, <3>1, <1>1
  <2>6. Total(frame) \in Nat
    BY <1>1, Sizes
  <2> QED
    BY <2>4, <2>5, <2>6, <1>1
<1> QED
  BY <1>1, <1>3, <1>4, <1>5, <1>6, <1>7, <1>8

LEMMA ByteStep ==
  ASSUME IInv, Byte
  PROVE  IInv'
<1> USE DEF IInv
<1>1. /\ frame' \in Frames /\ at' \in 1 .. Total(frame') + 1 /\ frames' \in Nat
      /\ frame \in Frames /\ at \in 1 .. Total(frame)
      /\ Total(frame) \in Nat /\ Total(frame) > HeaderLen /\ Total(frame) <= BuffLen
      /\ at < Total(frame) => frame' = frame /\ at' = at + 1
      /\ at = Total(frame) => \/ at' = 1
                              \/ frame' = frame /\ at' = Total(frame) + 1
  BY PeerStep, Sizes
<1>2. /\ synced' \in BOOLEAN /\ kept' \in BOOLEAN /\ pc = "loop" /\ i \in 0 .. BuffLen
      /\ synced' => IF at = 1 THEN i = 0 ELSE i = at - 1
  <2>1. pc = "loop" /\ i \in 0 .. BuffLen /\ synced \in BOOLEAN /\ kept' \in BOOLEAN
    BY DEF Byte, TypeOK
  <2>2. synced' \in BOOLEAN
    BY <2>1 DEF Byte
  <2>3. synced => IF at = 1 THEN i = 0 ELSE i = at - 1
    BY <2>1, <1>1 DEF InStep
  <2>4. synced' => synced \/ (i = 0 /\ at = 1)
    BY DEF Byte
  <2> QED
    BY <2>1, <2>2, <2>3, <2>4
<1>3. PICK b \in ByteValues :
        \/ SkipByte(b) \/ BeginFrame(b) \/ CollectByte(b) \/ RejectFrame(b)
        \/ DecodeFrame(b) \/ Overrun
  BY DEF Byte
<1>4. ASSUME ChunkGoesOn
      PROVE  pc' \in {"recv", "loop"} /\ result' = result
  BY <1>4 DEF ChunkGoesOn
<1>5. CASE SkipByte(b)
  <2>1. i = 0 /\ i' = 0 /\ pc' \in {"recv", "loop"} /\ result' = result
        /\ UNCHANGED <<len, start, hdr, stored, nSV>>
    BY <1>5, <1>4 DEF SkipByte
  <2>2. TypeOK'
    BY <1>1, <1>2, <2>1 DEF TypeOK
  <2>3. at = 1 => b = Preamble
    BY <1>3 DEF ByteValues
  <2>4. ~synced'
    BY <2>3, <1>2, <1>1, <1>5, Sizes DEF SkipByte
  <2> QED
    BY <2>1, <2>2, <2>4, Sizes DEF Length, Contiguous, InStep, OverrunOnlyOfLostLength
<1>6. CASE BeginFrame(b)
  <2>1. i = 0 /\ i' = 1 /\ pc' \in {"recv", "loop"} /\ result' = result
        /\ start' = [frame |-> frame, at |-> at] /\ UNCHANGED <<len, hdr, stored, nSV>>
    BY <1>6, <1>4 DEF BeginFrame
  <2>2. TypeOK'
    BY <1>1, <1>2, <2>1, Sizes DEF TypeOK
  <2>3. start'.frame = frame /\ start'.at = at /\ ~(i' >= HeaderLen)
    BY <2>1, Sizes
  <2>4. at = 1 => frame' = frame /\ at' = 2
    BY <1>1, Sizes
  <2>5. Contiguous'
    BY <2>1, <2>3, <2>4 DEF Contiguous
  <2>6. synced' => at = 1
    BY <2>1, <1>1, <1>2
  <2>7. InStep'
    BY <2>1, <2>4, <2>6, <1>1, Sizes DEF InStep
  <2> QED
    BY <2>1, <2>2, <2>3, <2>5, <2>7 DEF Length, OverrunOnlyOfLostLength
<1>7. CASE CollectByte(b)
  <2>1. /\ StoreByte(b) /\ ~HasFrame(i + 1, len') /\ i' = i + 1
        /\ pc' \in {"recv", "loop"} /\ result' = result
        /\ UNCHANGED <<start, stored, nSV>>
    BY <1>7, <1>4 DEF CollectByte, StoreByte
  <2>2. /\ hdr' \in Bytes /\ len' \in 0 .. HeaderLen + BuffLen /\ i \in 1 .. BuffLen - 1
        /\ (i + 1 >= HeaderLen /\ (kept' \/ synced')) =>
             len' = LengthFromHeader(hdr')
        /\ (i + 1 >= HeaderLen /\ start.at = 1) => hdr' = start.frame.n
        /\ synced' => /\ i = at - 1 /\ start = [frame |-> frame, at |-> 1]
                      /\ at # Total(frame)
    BY <2>1, <1>2, <1>3, StoreStep
  <2>3. TypeOK'
    <3>1. i' \in 0 .. BuffLen
      BY <2>1, <2>2, Sizes
    <3>2. /\ start' \in [frame : Frames, at : Nat] /\ stored' \subseteq 0 .. MaxSat
          /\ nSV' \in Nat /\ result' \in {-1, 1}
      BY <2>1 DEF TypeOK
    <3> QED
      BY <1>1, <1>2, <2>1, <2>2, <3>1, <3>2 DEF TypeOK
  <2>4. Contiguous'
    <3> SUFFICES ASSUME start.at = 1
                 PROVE  i + 1 < Total(start.frame) => frame' = start.frame /\ at' = i + 2
      BY <2>1, <2>2 DEF Contiguous
    <3>1. start.frame \in Frames
      BY DEF TypeOK
    <3>2. Total(start.frame) \in Nat
      BY <3>1, Sizes
    <3>3. i + 1 < Total(start.frame) => frame = start.frame /\ at = i + 1
      BY <2>2, <3>2 DEF Contiguous
    <3> QED
      BY <3>2, <3>3, <1>1, <2>2
  <2>5. InStep'
    <3>1. ASSUME synced'
          PROVE  at' = i' + 1 /\ at' \in 2 .. Total(frame') /\ frame' = frame
      BY <3>1, <1>1, <2>1, <2>2
    <3> QED
      BY <2>1, <2>2, <3>1 DEF InStep
  <2>6. Length'
    <3>1. i + 1 >= HeaderLen => ~(i + 1 >= len' + ParityLen)
      BY <2>1 DEF HasFrame
    <3>2. HeaderLen \in Nat /\ ParityLen \in Nat /\ BuffLen \in Nat
      BY Sizes
    <3>3. i' = i + 1 /\ i \in Nat /\ len' \in Nat
      BY <2>1, <2>2, Sizes
    <3>4. ASSUME i' >= HeaderLen PROVE i' < len' + ParityLen
      <4>1. ~(i + 1 >= len' + ParityLen)
        BY <3>1, <3>3, <3>4
      <4>2. i + 1 < len' + ParityLen
        BY <3>2, <3>3, <4>1, NotAtLeast
      <4> QED
        BY <3>3, <4>2
    <3> QED
      BY <2>1, <2>2, <3>4 DEF Length
  <2> QED
    BY <2>1, <2>3, <2>4, <2>5, <2>6 DEF OverrunOnlyOfLostLength
<1>8. CASE RejectFrame(b) \/ DecodeFrame(b)
  <2>1. /\ StoreByte(b) /\ HasFrame(i + 1, len') /\ i' = 0
        /\ RejectFrame(b) => ~ParityIsGood
        /\ pc' \in {"recv", "loop", "returned"} /\ result' \in {-1, 1}
    BY <1>8, <1>4 DEF RejectFrame, DecodeFrame, TypeOK
  <2>2. /\ hdr' \in Bytes /\ len' \in 0 .. HeaderLen + BuffLen
        /\ synced' => at = Total(frame)
    BY <2>1, <1>3, StoreStep
  <2>3. stored' \subseteq 0 .. MaxSat /\ nSV' \in Nat
    <3>1. CASE RejectFrame(b)
      BY <3>1 DEF RejectFrame, TypeOK
    <3>2. CASE DecodeFrame(b)
      <4> DEFINE msg == start.frame.msg
                 taken == msg \in Sats /\ InRange(msg)
      <4>1. /\ stored' = IF taken THEN stored \cup {msg} ELSE stored
            /\ nSV' = IF taken THEN nSV + 1 ELSE nSV
        BY <3>2 DEF DecodeFrame
      <4>2. ASSUME NEW m \in Sats, InRange(m) PROVE m \in 0 .. MaxSat
        <5>1. m \in Nat /\ MaxSat \in Nat
          BY StreamAssumption
        <5>2. m <= MaxSat
          BY <4>2 DEF InRange
        <5> QED
          BY <5>1, <5>2
      <4>3. taken => msg \in 0 .. MaxSat
        BY <4>2
      <4>4. stored \subseteq 0 .. MaxSat /\ nSV \in Nat
        BY DEF TypeOK
      <4>5. CASE taken
        <5>1. stored' = stored \cup {msg} /\ nSV' = nSV + 1
          BY <4>1, <4>5
        <5>2. stored' \subseteq 0 .. MaxSat
          BY <4>3, <4>4, <4>5, <5>1, Zenon
        <5>3. nSV' \in Nat
          BY <4>4, <5>1
        <5> QED
          BY <5>2, <5>3
      <4>6. CASE ~taken
        BY <4>1, <4>4, <4>6
      <4> QED
        BY <4>5, <4>6
    <3> QED
      BY <1>8, <3>1, <3>2
  <2>4. start' = start
    BY <2>1 DEF StoreByte
  <2>5. TypeOK'
    BY SMTT(20), <1>1, <1>2, <2>1, <2>2, <2>3, <2>4, Sizes DEF TypeOK
  <2>6. synced' => (at' = 1 \/ at' = Total(frame') + 1)
    BY <2>2, <1>1
  <2>7. InStep'
    <3>1. Total(frame') \in Nat
      BY <1>1, Sizes
    <3> QED
      BY <2>1, <2>6, <3>1, <1>1 DEF InStep
  <2> QED
    BY <2>1, <2>5, <2>7, Sizes DEF Length, Contiguous, OverrunOnlyOfLostLength
<1>9. CASE Overrun
  <2>1. i >= BuffLen /\ pc' = "overrun" /\ UNCHANGED <<i, len, start, hdr, stored, nSV, result>>
    BY <1>9 DEF Overrun
  <2>2. TypeOK'
    BY <1>1, <1>2, <2>1 DEF TypeOK
  <2>3. ~synced'
    BY <2>1, <1>1, <1>2, Sizes
  <2>4. ~kept'
    BY <2>1, <1>2, Sizes DEF Byte, Length, LengthFromHeader, TypeOK
  <2>5. Contiguous'
    <3>1. start.frame \in Frames
      BY DEF TypeOK
    <3>2. Total(start.frame) \in Nat /\ Total(start.frame) <= BuffLen
      BY <3>1, Sizes
    <3> QED
      BY <2>1, <3>2, <1>2, Sizes DEF Contiguous
  <2> QED
    BY <2>1, <2>2, <2>3, <2>4, <2>5 DEF Length, InStep, OverrunOnlyOfLostLength
<1> QED
  BY <1>3, <1>5, <1>6, <1>7, <1>8, <1>9

-----------------------------------------------------------------------------
LEMMA StutterStep ==
  ASSUME IInv, UNCHANGED vars
  PROVE  IInv'
  BY DEF vars, IInv, TypeOK, Length, Contiguous, InStep, OverrunOnlyOfLostLength

(* The invariant holds in every state of every execution.                  *)
THEOREM Invariance == Spec => []IInv
<1>1. IInv /\ [Next]_vars => IInv'
  BY OtherSteps, ByteStep, StutterStep DEF Next
<1> QED
  BY <1>1, InitIInv, PTL DEF Spec

(* Type correctness: whatever the peer sends, no ephemeris is stored       *)
(* behind the row of eph[0], nor a byte behind buff[] without the step     *)
(* Overrun that says so.  The number 0 is taken, and stored in front.      *)
THEOREM TypeCorrect == Spec => []TypeOK
<1>1. IInv => TypeOK
  BY DEF IInv
<1> QED
  BY <1>1, Invariance, PTL

(* The buffer runs over only after len has lost the length of a frame      *)
(* between two chunks and before the receiver is in step again: a false    *)
(* preamble alone does not make it.                                        *)
THEOREM OverrunExplained == Spec => []OverrunOnlyOfLostLength
<1>1. IInv => OverrunOnlyOfLostLength
  BY DEF IInv
<1> QED
  BY <1>1, Invariance, PTL

(* Once in step with the frames of the peer, the buffer stays in step as   *)
(* long as no chunk loses it the length of a frame.                        *)
THEOREM StaysInStep == Spec => []InStep
<1>1. IInv => InStep
  BY DEF IInv
<1> QED
  BY <1>1, Invariance, PTL

(* From then on the ephemeris of every frame is stored and counted when    *)
(* its last byte arrives.                                                  *)
THEOREM NoFrameMissed == Spec => NoneMissed
<1> DEFINE LastByteTakes ==
      (synced /\ pc = "loop" /\ at = Total(frame)) =>
        /\ i' = 0
        /\ (frame.msg \in Sats /\ frame.msg <= MaxSat) =>
             frame.msg \in stored' /\ nSV' = nSV + 1
<1>1. ASSUME IInv, Next, synced, pc = "loop", at = Total(frame)
      PROVE  /\ i' = 0
             /\ (frame.msg \in Sats /\ frame.msg <= MaxSat) =>
                  frame.msg \in stored' /\ nSV' = nSV + 1
  <2>1. Byte
    BY <1>1 DEF Next, Connect, RecvChunk, RecvEnd
  <2>2. synced'
    BY <1>1, <2>1 DEF Byte
  <2>3. frame \in Frames /\ Total(frame) \in Nat /\ Total(frame) > HeaderLen
        /\ Total(frame) <= BuffLen /\ HeaderLen \in Nat /\ HeaderLen >= 2 /\ BuffLen \in Nat
    BY <1>1, Sizes DEF IInv, TypeOK
  <2>4. i = at - 1 /\ start = [frame |-> frame, at |-> 1] /\ i > 0 /\ i < BuffLen
    BY <1>1, <2>3 DEF IInv, InStep
  <2>5. PICK b \in ByteValues :
          \/ SkipByte(b) \/ BeginFrame(b) \/ CollectByte(b) \/ RejectFrame(b)
          \/ DecodeFrame(b) \/ Overrun
    BY <2>1 DEF Byte
  <2>6. CollectByte(b) \/ RejectFrame(b) \/ DecodeFrame(b)
    BY <2>3, <2>4, <2>5 DEF SkipByte, BeginFrame, Overrun
  <2>7. StoreByte(b)
    BY <2>6 DEF CollectByte, RejectFrame, DecodeFrame
  <2>8. HasFrame(i + 1, len') /\ ParityIsGood
    BY <1>1, <2>1, <2>2, <2>5, <2>7, StoreStep
  <2>9. DecodeFrame(b)
    BY <2>6, <2>8 DEF CollectByte, RejectFrame
  <2>10. start.frame.msg = frame.msg
    BY <2>4
  <2> QED
    BY <2>9, <2>10 DEF DecodeFrame, InRange
<1>2. IInv /\ [Next]_vars => [LastByteTakes]_vars
  BY <1>1
<1>3. Spec => [][LastByteTakes]_vars
  BY <1>2, Invariance, PTL DEF Spec
<1> QED
  BY <1>3 DEF NoneMissed
=============================================================================
