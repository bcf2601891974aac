---------------------------- MODULE SignalStream ----------------------------
(***************************************************************************)
(* What the real-time pipeline promises to the radio: the samples it plays *)
(* are the generated signal from its first sample on, without a gap, a     *)
(* repetition or an exchange, one whole buffer at a time, never ahead of   *)
(* the generator and never more than a block and a buffer behind it.       *)
(***************************************************************************)
EXTENDS Integers, Sequences

CONSTANTS BlockSize, BufferSize

VARIABLES generated, played

Init == generated = 0 /\ played = <<>>

(* The generator adds a block, unless the radio is too far behind.         *)
Generate ==
  /\ generated - Len(played) < BlockSize + BufferSize
  /\ generated' = generated + BlockSize
  /\ UNCHANGED played

(* The radio is given the next buffer of the signal.                       *)
Play ==
  /\ Len(played) + BufferSize <= generated
  /\ played' = played \o [j \in 1 .. BufferSize |-> Len(played) + j - 1]
  /\ UNCHANGED generated

Next == Generate \/ Play

Spec == Init /\ [][Next]_<<generated, played>>
=============================================================================
