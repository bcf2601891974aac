----------------------------- MODULE MCSettings -----------------------------
(***************************************************************************)
(* Settings with another file, another latitude and two trajectories: the  *)
(* keys differ in how they are typed, picked, stored and loaded, and each  *)
(* of these ways has a key with another value.                             *)
(***************************************************************************)
EXTENDS Settings, TLC

CONSTANTS File, Latitude, Trajectories

MCOthers ==
  [k \in Keys |-> CASE k = "csv" -> {File}
                    [] k = "lat" -> {Latitude}
                    [] k = TRAJECTORY -> Trajectories
                    [] OTHER -> {}]

(* One trajectory that is picked is as good as another.                    *)
Symmetry == Permutations(Trajectories)
=============================================================================
