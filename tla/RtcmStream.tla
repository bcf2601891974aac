----------------------------- MODULE RtcmStream -----------------------------
(***************************************************************************)
(* getRTCM3Eph(): the ephemerides that the GPS task simulates arrive over a*)
(* TCP connection as RTCM3 frames, and the program finds the frames in the *)
(* bytes of one chunk after the other.                                     *)
(*                                                                         *)
(* The peer sends frames back to back: a preamble, the rest of the header  *)
(* with the length of the payload, the payload and the parity.  It may be  *)
(* in the middle of a frame when the program begins to listen.  A byte of  *)
(* the payload or the parity can have any value, that of the preamble too. *)
(* The bytes in buff[] are always consecutive bytes of the stream, so the  *)
(* buffer is the place where it begins and the number of its bytes; the    *)
(* parity is taken to detect every buffer that is not a frame.             *)
(***************************************************************************)
EXTENDS Integers

CONSTANTS
  Sats,        \* satellite numbers in the ephemeris messages of the peer
  MaxSat,      \* MAX_SAT
  Lengths,     \* payload lengths of the frames of the peer
  MaxLength,   \* the largest length a header can hold
  HeaderLen, ParityLen,
  BuffLen,     \* the size of buff[]
  NumFrames    \* bound of the model: frames the peer sends

ASSUME StreamAssumption ==
  /\ Sats \subseteq Nat
  /\ MaxSat \in Nat \ {0}
  /\ MaxLength \in Nat /\ Lengths \subseteq 0 .. MaxLength
  /\ HeaderLen \in Nat /\ HeaderLen >= 2
  /\ ParityLen \in Nat \ {0}
  /\ BuffLen \in Nat /\ BuffLen >= HeaderLen + MaxLength + ParityLen
  /\ NumFrames \in Nat

Bytes == 0 .. MaxLength
Preamble == MaxLength    \* RTCM3PREAMB: the value of a byte that begins a frame

(* The ephemeris of a satellite, one that is cut short, or another message.*)
Short == -2
Other == -1
Messages == Sats \cup {Short, Other}

Frames == [n : Lengths, msg : Messages]
Total(f) == HeaderLen + f.n + ParityLen

VARIABLES
  frame, at,  \* what the peer sends: the frame, and its next byte
  frames,     \* frames it began
  i, len,     \* the variables of getRTCM3Eph
  start,      \* where buff[] begins: the frame and the place in it
  hdr,        \* the length in the header that buff[] begins with
  stored,     \* the satellites with an ephemeris in eph[0]; that of the number
              \* 0, which decode_rtcm3 takes too, is written in front of it
  nSV,        \* the count of decode_rtcm3, a global variable
  pc,         \* "connect", "recv", "loop" inside a chunk, "returned", or
              \* "overrun" when a byte is to be stored behind buff[]
  result,     \* what getRTCM3Eph returned
  kept,       \* len never lost the length of a frame between two chunks
  synced      \* an empty buffer has met the beginning of a frame, and len has
              \* lost no length since

vars == <<frame, at, frames, i, len, start, hdr, stored, nSV, pc, result, kept,
          synced>>

Init ==
  /\ frame \in Frames
  /\ at \in 1 .. Total(frame)
  /\ frames = 1
  /\ i = 0 /\ len = 0 /\ hdr = 0
  /\ start = [frame |-> frame, at |-> 1]
  /\ stored = {} /\ nSV = 0
  /\ pc = "connect"
  /\ result = -1
  /\ kept = TRUE /\ synced = FALSE

-----------------------------------------------------------------------------
(* Connecting, sending the request and shutting down that direction may    *)
(* fail; the function returns 1 in every case.                             *)
Connect ==
  /\ pc = "connect"
  /\ \/ pc' = "recv" /\ UNCHANGED result
     \/ pc' = "returned" /\ result' = 1
  /\ UNCHANGED <<frame, at, frames, i, len, start, hdr, stored, nSV, kept, synced>>

(* What the body of the loop over the chunks finds in len, which it        *)
(* declares anew and does not set: what was there, or anything else.       *)
DeclaredLength == {len} \cup 0 .. BuffLen

(* recv() with a chunk of at least one byte.                               *)
RecvChunk ==
  /\ pc = "recv" /\ at <= Total(frame)
  /\ pc' = "loop"
  /\ len' \in DeclaredLength
  /\ LET keeps == len' = len \/ i < HeaderLen
     IN kept' = (kept /\ keeps) /\ synced' = (synced /\ keeps)
  /\ UNCHANGED <<frame, at, frames, i, start, hdr, stored, nSV, result>>

(* recv() with an error, or with the connection closed by the peer.        *)
RecvEnd ==
  /\ pc = "recv"
  /\ pc' = "returned" /\ result' = 1
  /\ UNCHANGED <<frame, at, frames, i, len, start, hdr, stored, nSV, kept, synced>>

-----------------------------------------------------------------------------
(* One byte of a chunk.                                                    *)

ByteValues ==
  IF at = 1 THEN {Preamble} ELSE IF at = HeaderLen THEN {frame.n} ELSE Bytes

(* The peer's next byte; behind the last frame there is none.              *)
PeerGoesOn ==
  IF at = Total(frame) /\ frames < NumFrames
  THEN frame' \in Frames /\ at' = 1 /\ frames' = frames + 1
  ELSE at' = at + 1 /\ UNCHANGED <<frame, frames>>

(* The chunk goes on, or ends with this byte.                              *)
ChunkGoesOn ==
  /\ pc' \in IF at' <= Total(frame') THEN {"loop", "recv"} ELSE {"recv"}
  /\ UNCHANGED result

LengthFromHeader(n) == n + HeaderLen

(* Mutant: one byte too many.                                              *)
HasFrameAndOne(k, l) == k >= HeaderLen /\ k > l + ParityLen

(* if (i < 3 || i < len + 3) continue;                                     *)
HasFrame(k, l) == k >= HeaderLen /\ k >= l + ParityLen

SkipByte(b) ==
  /\ i = 0 /\ b # Preamble
  /\ ChunkGoesOn
  /\ UNCHANGED <<i, len, start, hdr, stored, nSV>>

BeginFrame(b) ==
  /\ i = 0 /\ b = Preamble
  /\ i' = 1
  /\ start' = [frame |-> frame, at |-> at]
  /\ ChunkGoesOn
  /\ UNCHANGED <<len, hdr, stored, nSV>>

(* buff[i++] = b, and the length when the header is there.                 *)
StoreByte(b) ==
  /\ i > 0 /\ i < BuffLen
  /\ IF i + 1 = HeaderLen THEN hdr' = b /\ len' = LengthFromHeader(b)
                          ELSE UNCHANGED <<hdr, len>>
  /\ UNCHANGED start

CollectByte(b) ==
  /\ StoreByte(b)
  /\ ~HasFrame(i + 1, len')
  /\ i' = i + 1
  /\ ChunkGoesOn
  /\ UNCHANGED <<stored, nSV>>

(* The parity of the first len bytes is that in the bytes behind them.     *)
ParityIsGood == start.at = 1 /\ len' = HeaderLen + start.frame.n

(* Mutant: the buffer is not emptied when the parity is wrong.             *)
RejectAndKeep(b) ==
  /\ StoreByte(b)
  /\ HasFrame(i + 1, len') /\ ~ParityIsGood
  /\ i' = i + 1
  /\ ChunkGoesOn
  /\ UNCHANGED <<stored, nSV>>

(* With a wrong parity the whole buffer is dropped.                        *)
RejectFrame(b) ==
  /\ StoreByte(b)
  /\ HasFrame(i + 1, len') /\ ~ParityIsGood
  /\ i' = 0
  /\ ChunkGoesOn
  /\ UNCHANGED <<stored, nSV>>

(* Mutant: the last satellite number is taken for too large.               *)
InRangeButLast(sv) == sv < MaxSat

InAnyRange(sv) == TRUE     \* mutant: no test of the number

InRange(sv) == sv <= MaxSat

(* decode_rtcm3 stores the ephemeris of a satellite and counts it; as soon *)
(* as MAX_SAT of them were counted, the function closes and returns.       *)
DecodeFrame(b) ==
  LET msg == start.frame.msg
      taken == msg \in Sats /\ InRange(msg)
  IN /\ StoreByte(b)
     /\ HasFrame(i + 1, len') /\ ParityIsGood
     /\ i' = 0
     /\ stored' = IF taken THEN stored \cup {msg} ELSE stored
     /\ nSV' = IF taken THEN nSV + 1 ELSE nSV
     /\ IF msg # Short /\ nSV' >= MaxSat
        THEN pc' = "returned" /\ result' = 1
        ELSE ChunkGoesOn

(* The byte is written behind the buffer: whatever happens then is no      *)
(* longer the program's.                                                   *)
Overrun ==
  /\ i >= BuffLen
  /\ pc' = "overrun"
  /\ UNCHANGED <<i, len, start, hdr, stored, nSV, result>>

Byte ==
  /\ pc = "loop" /\ at <= Total(frame)
  /\ PeerGoesOn
  /\ \E b \in ByteValues :
       \/ SkipByte(b) \/ BeginFrame(b) \/ CollectByte(b) \/ RejectFrame(b)
       \/ DecodeFrame(b) \/ Overrun
  /\ synced' = (synced \/ (i = 0 /\ at = 1))
  /\ UNCHANGED kept

Next == Connect \/ RecvChunk \/ RecvEnd \/ Byte

Spec == Init /\ [][Next]_vars

-----------------------------------------------------------------------------
(* Every variable has a value of its kind.  No ephemeris is stored behind   *)
(* the MAX_SAT places of eph[0] (the number 0 is stored in front of them), *)
(* and no byte behind buff[].                                              *)
TypeOK ==
  /\ frame \in Frames /\ at \in 1 .. Total(frame) + 1 /\ frames \in Nat
  /\ i \in 0 .. BuffLen /\ len \in 0 .. HeaderLen + BuffLen /\ hdr \in Bytes
  /\ start \in [frame : Frames, at : Nat]
  /\ stored \subseteq 0 .. MaxSat /\ nSV \in Nat
  /\ pc \in {"connect", "recv", "loop", "returned", "overrun"}
  /\ result \in {-1, 1}
  /\ kept \in BOOLEAN /\ synced \in BOOLEAN

(* The buffer runs over only after len lost the length of a frame between  *)
(* two chunks, and before the receiver is in step again.  Otherwise it     *)
(* never does, whatever false frame it follows: the frame is complete      *)
(* before the buffer is full.                                              *)
OverrunOnlyOfLostLength == pc = "overrun" => ~kept /\ ~synced

(* Once an empty buffer has met the beginning of a frame, it keeps in step *)
(* with the frames of the peer, however the chunks cut them, until a chunk *)
(* loses it the length: bytes that look like a preamble in the payload can *)
(* no longer mislead it.                                                   *)
InStep ==
  (synced /\ pc \in {"recv", "loop"}) =>
    IF at \in 2 .. Total(frame)
    THEN i = at - 1 /\ start = [frame |-> frame, at |-> 1]
    ELSE i = 0

(* From then on no ephemeris is missed: the last byte of its frame stores  *)
(* and counts it.                                                          *)
NoneMissed ==
  [][ (synced /\ pc = "loop" /\ at = Total(frame)) =>
        /\ i' = 0
        /\ (frame.msg \in Sats /\ frame.msg <= MaxSat) =>
             frame.msg \in stored' /\ nSV' = nSV + 1 ]_vars

(* The inductive invariant.  "length without parity" (getRTCM3Eph.c:305):  *)
(* once buff[] has a header, len is the length that stands in it.          *)
Length ==
  (i >= HeaderLen /\ (kept \/ (synced /\ pc # "overrun"))) =>
    len = LengthFromHeader(hdr) /\ i < len + ParityLen

(* A buffer that begins with a frame has that frame's bytes, as far as it  *)
(* reaches, and the peer's next byte is the one that is to follow.         *)
Contiguous ==
  (i > 0 /\ start.at = 1) =>
    /\ i < Total(start.frame) => frame = start.frame /\ at = i + 1
    /\ i >= HeaderLen => hdr = start.frame.n

IInv ==
  /\ TypeOK
  /\ Length
  /\ Contiguous
  /\ pc = "connect" => ~synced
  /\ InStep
  /\ OverrunOnlyOfLostLength
=============================================================================
