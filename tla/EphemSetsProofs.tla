-------------------------- MODULE EphemSetsProofs ----------------------------
(***************************************************************************)
(* Proofs that the sets of ephemerides do not overlap, that what is used   *)
(* was read whole, and that the simulation keeps up with the sets: for any *)
(* file in the order of time, any size of the array and any duration.      *)
(***************************************************************************)
EXTENDS EphemSets, TLAPS

(* The first state has a file not yet read and empty sets.                 *)
LEMMA InitCorrect == Init => IInv
<1> SUFFICES ASSUME Init PROVE IInv  OBVIOUS
<1> USE EphemAssumption DEF Init, Sets, Cleared, Entry, ValidSats
<1>1. TypeOK
  <2>1. eph \in [Sets -> [Sats -> Entry]]  OBVIOUS
  <2>2. ieph \in 0 .. ArraySets  OBVIOUS
  <2>4. neph \in {0, -1} /\ pc \in {"epoch", "undefined"}  BY DEF Init
  <2>5. neph \in -1 .. ArraySets + 1  BY <2>4, EphemAssumption
  <2>3. grx \in Nat /\ gmin \in Nat /\ clock \in Nat /\ records \in 0 .. MaxRecords
    OBVIOUS
  <2> HIDE DEF Cleared, Entry, Sets
  <2> QED  BY <2>1, <2>2, <2>3, <2>4, <2>5 DEF TypeOK
<1>2. \A i \in Sets, s \in Sats : ~eph[i][s].vflg  OBVIOUS
<1>3. Filling  BY <1>2 DEF Filling, Used
<1>4. NoneEmpty  BY DEF NoneEmpty
<1>5. SetsContiguous  BY <1>2 DEF SetsContiguous
<1>6. Apart  BY <1>2 DEF Apart, Used
<1>7. Whole  BY <1>2 DEF Whole
<1>8. Running /\ KeepsUp /\ StartsUnlessNothingRead
  BY DEF Running, KeepsUp, StartsUnlessNothingRead
<1> QED  BY <1>1, <1>3, <1>4, <1>5, <1>6, <1>7, <1>8 DEF IInv

-----------------------------------------------------------------------------
(* What the first line of a record does to the array.                      *)
LEMMA EpochEntries ==
  ASSUME IInv, ReadEpoch
  PROVE  \E t \in Nat :
           /\ t >= clock /\ clock' = t /\ g0' = SetTime(t) /\ sv' \in Sats
           /\ ieph' = IF IsNewSet(t) THEN ieph + 1 ELSE ieph
           /\ ieph' \in Sets => pc' = "orbits"
           /\ ieph' \notin Sets => pc' = "count"
           /\ eph' \in [Sets -> [Sats -> Entry]]
           /\ \A i \in Sets, s \in Sats :
                /\ eph'[i][s].vflg = eph[i][s].vflg
                /\ (i = ieph' /\ s = sv') =>
                     eph'[i][s].toc = t /\ eph'[i][s].orbit = OlderOrbit(eph[i][s])
                /\ ~(i = ieph' /\ s = sv') => eph'[i][s] = eph[i][s]
<1>1. /\ TypeOK /\ ieph \in Sets
  BY DEF IInv, Filling, ReadEpoch
<1>2. PICK s \in Sats, t \in clock .. clock + MaxGap :
        /\ records' = records + 1 /\ clock' = t
        /\ g0' = SetTime(t)
        /\ ieph' = (IF IsNewSet(t) THEN ieph + 1 ELSE ieph)
        /\ sv' = s
        /\ \/ ArrayIsFull(ieph') /\ pc' = "count" /\ UNCHANGED eph
           \/ /\ ~ArrayIsFull(ieph') /\ pc' = "orbits"
              /\ eph' = [eph EXCEPT ![ieph'][s] =
                          [vflg |-> @.vflg, toc |-> t, orbit |-> OlderOrbit(@)]]
  BY DEF ReadEpoch
<1>3. t \in Nat /\ t >= clock
  BY <1>1, EphemAssumption DEF TypeOK
<1> ieph' \in Nat  BY <1>1, <1>2 DEF Sets
<1>4. CASE ieph' \in Sets
  <2>1. /\ pc' = "orbits"
        /\ eph' = [eph EXCEPT ![ieph'][s] =
                    [vflg |-> @.vflg, toc |-> t, orbit |-> OlderOrbit(@)]]
    BY <1>1, <1>2, <1>4, EphemAssumption DEF Sets, ArrayIsFull
  <2>2. eph \in [Sets -> [Sats -> Entry]]
    BY <1>1 DEF TypeOK
  <2>3. eph' \in [Sets -> [Sats -> Entry]]
    BY <1>2, <1>3, <1>4, <2>1, <2>2 DEF Entry, OlderOrbit
  <2>4. \A i \in Sets, r \in Sats :
          /\ i = ieph' /\ r = s =>
               eph'[i][r] = 
                 [vflg |-> eph[i][r].vflg, toc |-> t, orbit |-> OlderOrbit(eph[i][r])]
          /\ ~(i = ieph' /\ r = s) => eph'[i][r] = eph[i][r]
    BY <1>2, <1>4, <2>1, <2>2 DEF Entry
  <2>5. \A i \in Sets, r \in Sats : eph[i][r] \in Entry
    BY <2>2
  <2>6. \A i \in Sets, r \in Sats :
          /\ eph'[i][r].vflg = eph[i][r].vflg
          /\ (i = ieph' /\ r = sv') =>
               eph'[i][r].toc = t /\ eph'[i][r].orbit = OlderOrbit(eph[i][r])
          /\ ~(i = ieph' /\ r = sv') => eph'[i][r] = eph[i][r]
    <3> TAKE i \in Sets, r \in Sats
    <3>1. CASE i = ieph' /\ r = s
      <4>1. eph'[i][r] = 
                 [vflg |-> eph[i][r].vflg, toc |-> t, orbit |-> OlderOrbit(eph[i][r])]
        BY <2>4, <3>1
      <4>2. /\ eph'[i][r].vflg = eph[i][r].vflg /\ eph'[i][r].toc = t
            /\ eph'[i][r].orbit = OlderOrbit(eph[i][r])
        BY <4>1
      <4> QED  BY <1>2, <3>1, <4>2
    <3>2. CASE ~(i = ieph' /\ r = s)
      BY <1>2, <2>4, <3>2
    <3> QED  BY <3>1, <3>2
  <2>7. clock' = t /\ g0' = SetTime(t) /\ sv' \in Sats /\ pc' = "orbits"
    BY <1>2, <2>1
  <2> t \in Nat  BY <1>3
  <2> WITNESS t \in Nat
  <2> QED  BY <1>2, <1>3, <1>4, <2>3, <2>6, <2>7
<1>5. CASE ieph' \notin Sets
  <2>1. pc' = "count" /\ eph' = eph
    <3>1. ieph' >= ArraySets
      BY <1>5, EphemAssumption DEF Sets
    <3> QED  BY <1>2, <3>1 DEF ArrayIsFull
  <2>2. eph' \in [Sets -> [Sats -> Entry]]
    BY <1>1, <2>1 DEF TypeOK
  <2>3. clock' = t /\ g0' = SetTime(t) /\ sv' \in Sats
    BY <1>2
  <2>4. \A i \in Sets, r \in Sats :
          /\ eph'[i][r].vflg = eph[i][r].vflg
          /\ (i = ieph' /\ r = sv') =>
               eph'[i][r].toc = t /\ eph'[i][r].orbit = OlderOrbit(eph[i][r])
          /\ ~(i = ieph' /\ r = sv') => eph'[i][r] = eph[i][r]
    BY <1>5, <2>1
  <2> t \in Nat  BY <1>3
  <2> WITNESS t \in Nat
  <2> QED  BY <1>2, <1>3, <1>5, <2>1, <2>2, <2>3, <2>4
<1> QED  BY <1>4, <1>5

(* Reading the first line of a record preserves the invariant.             *)
LEMMA EpochCorrect == IInv /\ ReadEpoch => IInv'
<1> SUFFICES ASSUME IInv, ReadEpoch PROVE IInv'  OBVIOUS
<1> USE EphemAssumption DEF Sets
<1>1. PICK t \in Nat :
           /\ t >= clock /\ clock' = t /\ g0' = SetTime(t) /\ sv' \in Sats
           /\ ieph' = IF IsNewSet(t) THEN ieph + 1 ELSE ieph
           /\ ieph' \in Sets => pc' = "orbits"
           /\ ieph' \notin Sets => pc' = "count"
           /\ eph' \in [Sets -> [Sats -> Entry]]
           /\ \A i \in Sets, s \in Sats :
                /\ eph'[i][s].vflg = eph[i][s].vflg
                /\ (i = ieph' /\ s = sv') =>
                     eph'[i][s].toc = t /\ eph'[i][s].orbit = OlderOrbit(eph[i][s])
                /\ ~(i = ieph' /\ s = sv') => eph'[i][s] = eph[i][s]
  BY EpochEntries
<1>2. /\ pc = "epoch" /\ records < MaxRecords /\ records' = records + 1
      /\ neph' = neph /\ gmin' = gmin /\ grx' = grx /\ cut' = cut
  BY DEF ReadEpoch
<1>3. /\ TypeOK /\ Filling /\ NoneEmpty /\ SetsContiguous /\ Apart /\ Whole
  BY DEF IInv
<1>4. /\ ieph \in Nat /\ g0 \in Int /\ g0 >= -1 /\ g0 <= clock /\ clock \in Nat /\ ieph \in Sets
      /\ ~cut /\ Hour \in Nat /\ (g0 = -1 => ieph = 0)
  BY <1>2, <1>3 DEF TypeOK, Filling
<1>5. \A i \in Sets : ValidSats(i)' = ValidSats(i)
  BY <1>1 DEF ValidSats
<1>6. TypeOK'
  BY <1>1, <1>2, <1>3, <1>4 DEF TypeOK, SetTime, IsNewSet
<1>7. \A i \in Sets, s \in Sats : Used(i, s)' =>
        IF i = ieph' /\ s = sv'
          THEN eph'[i][s].toc = t
          ELSE Used(i, s) /\ eph[i][s].vflg /\ eph'[i][s].toc = eph[i][s].toc
  BY <1>1, <1>2 DEF Used
<1>8. \A i \in Sets, s \in Sats : eph[i][s].toc \in Nat
  BY <1>3 DEF TypeOK, Entry
<1>9. ASSUME NEW i \in Sets, NEW s \in Sats, Used(i, s)
      PROVE  /\ g0 # -1 /\ i <= ieph
             /\ i = ieph => eph[i][s].toc \in g0 .. g0 + Hour
             /\ i < ieph => eph[i][s].toc < g0
             /\ i + 1 < ieph => eph[i][s].toc + Hour + 1 < g0
  BY <1>2, <1>3, <1>9 DEF Filling
<1>10. t = g0' \/ (ieph' = ieph /\ g0' = g0 /\ t \in g0 .. g0 + Hour)
  BY <1>1, <1>4 DEF SetTime, IsNewSet
<1>11. \/ g0 = -1 /\ ieph' = ieph /\ g0' = t
       \/ g0 # -1 /\ ieph' = ieph + 1 /\ g0' = t /\ t > g0 + Hour
       \/ g0 # -1 /\ ieph' = ieph /\ g0' = g0 /\ t \in g0 .. g0 + Hour
  BY <1>1, <1>4 DEF SetTime, IsNewSet
<1>12. ASSUME NEW i \in Sets, NEW s \in Sats, Used(i, s)'
       PROVE  /\ g0' # -1 /\ i <= ieph'
              /\ i = ieph' => eph'[i][s].toc \in g0' .. g0' + Hour
              /\ i < ieph' => eph'[i][s].toc < g0'
              /\ i + 1 < ieph' => eph'[i][s].toc + Hour + 1 < g0'
  <2>1. CASE i = ieph' /\ s = sv'
    BY <1>1, <1>4, <1>7, <1>11, <1>12, <2>1
  <2>2. CASE ~(i = ieph' /\ s = sv')
    <3>1. Used(i, s) /\ eph'[i][s].toc = eph[i][s].toc
      BY <1>7, <1>12, <2>2
    <3>2. /\ g0 # -1 /\ i <= ieph
          /\ i = ieph => eph[i][s].toc \in g0 .. g0 + Hour
          /\ i < ieph => eph[i][s].toc < g0
          /\ i + 1 < ieph => eph[i][s].toc + Hour + 1 < g0
      BY <1>9, <3>1
    <3>3. eph[i][s].toc \in Nat /\ i \in Nat
      BY <1>8
    <3>4. CASE ieph' = ieph /\ g0' = g0
      BY <3>1, <3>2, <3>4
    <3>5. CASE ieph' = ieph + 1 /\ t = g0' /\ t > g0 + Hour
      BY <1>4, <3>1, <3>2, <3>3, <3>5
    <3> QED  BY <1>11, <3>2, <3>4, <3>5
  <2> QED  BY <2>1, <2>2
<1>13. Filling'
  <2>1. g0' <= clock' /\ g0' # -1
    BY <1>1, <1>4, <1>11
  <2>2. pc' # "count" => ieph' \in Sets /\ ~cut'
    BY <1>1, <1>2, <1>4
  <2> QED  BY <1>12, <2>1, <2>2 DEF Filling
<1>14. NoneEmpty'
  <2>1. \A i \in Sets : i < ieph => ValidSats(i) # {}
    BY <1>2, <1>3 DEF NoneEmpty
  <2>2. g0 # -1 => ValidSats(ieph) # {}
    BY <1>2, <1>3 DEF NoneEmpty
  <2>3. \A i \in Sets : i < ieph' => ValidSats(i)' # {}
    BY <1>4, <1>5, <1>11, <2>1, <2>2
  <2>4. pc' # "epoch"
    BY <1>1
  <2> QED  BY <2>3, <2>4 DEF NoneEmpty
<1>15. SetsContiguous'
  BY <1>3, <1>5 DEF SetsContiguous
<1>16. Apart'
  <2> SUFFICES ASSUME NEW i \in Sets, NEW j \in Sets, NEW s \in Sats, NEW r \in Sats,
                      Used(i, s)', Used(j, r)'
               PROVE  /\ i < j => eph'[i][s].toc < eph'[j][r].toc
                      /\ i + 1 < j => eph'[i][s].toc + Hour + 1 < eph'[j][r].toc
                      /\ i = j => eph'[i][s].toc - eph'[j][r].toc \in -Hour .. Hour
    BY DEF Apart
  <2>1. /\ i <= ieph'
        /\ i = ieph' => eph'[i][s].toc \in g0' .. g0' + Hour
        /\ i < ieph' => eph'[i][s].toc < g0'
        /\ i + 1 < ieph' => eph'[i][s].toc + Hour + 1 < g0'
    BY <1>12
  <2>2. /\ j <= ieph'
        /\ j = ieph' => eph'[j][r].toc \in g0' .. g0' + Hour
    BY <1>12
  <2>3. eph'[i][s].toc \in Nat /\ eph'[j][r].toc \in Nat /\ g0' \in Int /\ ieph' \in Nat
    <3>1. eph'[i][s] \in Entry /\ eph'[j][r] \in Entry
      BY <1>1
    <3>2. eph'[i][s].toc \in Nat /\ eph'[j][r].toc \in Nat
      BY <3>1 DEF Entry
    <3> QED  BY <1>1, <1>4, <1>11, <3>2
  <2>4. CASE j = ieph'
    BY <1>4, <2>1, <2>2, <2>3, <2>4
  <2>5. CASE j # ieph' /\ i # ieph'
    <3>1. /\ Used(i, s) /\ Used(j, r)
          /\ eph'[i][s].toc = eph[i][s].toc /\ eph'[j][r].toc = eph[j][r].toc
      BY <1>7, <2>5
    <3> QED  BY <1>3, <3>1 DEF Apart
  <2>6. CASE j # ieph' /\ i = ieph'
    <3>1. j < i /\ i \in Nat /\ j \in Nat
      BY <2>2, <2>3, <2>6
    <3>2. ~(i < j) /\ ~(i + 1 < j) /\ i # j
      BY <3>1
    <3> QED  BY <3>2
  <2> QED  BY <2>4, <2>5, <2>6
<1>17. Whole'
  <2> SUFFICES ASSUME NEW i \in Sets, NEW s \in ValidSats(i)', eph'[i][s].orbit # "same"
               PROVE  /\ pc' \in {"orbits", "count"} /\ pc' = "orbits"
                      /\ eph'[i][s].orbit = "older" /\ i = ieph' /\ s = sv'
    BY DEF Whole
  <2>1. s \in ValidSats(i) /\ s \in Sats
    BY <1>5 DEF ValidSats
  <2>2. eph[i][s].orbit = "same"
    BY <1>2, <1>3, <1>4, <2>1 DEF Whole
  <2>3. i = ieph' /\ s = sv'
    BY <1>1, <2>1, <2>2
  <2> QED  BY <1>1, <2>1, <2>2, <2>3 DEF OlderOrbit
<1>18. Running' /\ KeepsUp' /\ StartsUnlessNothingRead'
  <2>1. pc' \in {"orbits", "count"}
    BY <1>1
  <2> QED  BY <2>1 DEF Running, KeepsUp, StartsUnlessNothingRead
<1> QED  BY <1>6, <1>13, <1>14, <1>15, <1>16, <1>17, <1>18 DEF IInv

-----------------------------------------------------------------------------
(* The other lines of a record make its entry valid, or are cut off.       *)
LEMMA OrbitsCorrect == IInv /\ ReadOrbits => IInv'
<1> SUFFICES ASSUME IInv, ReadOrbits PROVE IInv'  OBVIOUS
<1>1. /\ TypeOK /\ Filling /\ NoneEmpty /\ SetsContiguous /\ Apart /\ Whole /\ pc = "orbits"
      /\ g0' = g0 /\ ieph' = ieph /\ sv' = sv /\ neph' = neph /\ gmin' = gmin /\ grx' = grx
      /\ records' = records /\ clock' = clock
  BY DEF IInv, ReadOrbits
<1>2. ieph \in Sets /\ sv \in Sats /\ Used(ieph, sv) /\ ~cut
  BY <1>1 DEF Filling, TypeOK, Used
<1>3. g0 # -1
  BY <1>1 DEF Filling
<1>4. CASE pc' = "count" /\ cut' = TRUE /\ eph' = eph
  <2>1. \A i : ValidSats(i)' = ValidSats(i)
    BY <1>4 DEF ValidSats
  <2>2. \A i, s : Used(i, s)' => Used(i, s)
    BY <1>4 DEF Used
  <2>3. TypeOK'
    BY <1>1, <1>4 DEF TypeOK
  <2>4. Filling'
    BY <1>1, <1>3, <1>4, <2>2 DEF Filling
  <2>5. NoneEmpty' /\ SetsContiguous'
    BY <1>1, <1>4, <2>1 DEF NoneEmpty, SetsContiguous
  <2>6. Apart'
    BY <1>1, <1>4, <2>2 DEF Apart
  <2>7. Whole'
    BY <1>1, <1>4, <2>1 DEF Whole
  <2>8. Running' /\ KeepsUp' /\ StartsUnlessNothingRead'
    BY <1>4 DEF Running, KeepsUp, StartsUnlessNothingRead
  <2> QED  BY <2>3, <2>4, <2>5, <2>6, <2>7, <2>8 DEF IInv
<1>5. CASE /\ pc' = "epoch" /\ cut' = cut
           /\ eph' = [eph EXCEPT ![ieph][sv] = [vflg |-> TRUE, toc |-> @.toc, orbit |-> "same"]]
  <2>1. eph \in [Sets -> [Sats -> Entry]]
    BY <1>1 DEF TypeOK
  <2>2. eph' \in [Sets -> [Sats -> Entry]]
    BY <1>2, <1>5, <2>1 DEF Entry
  <2>3. \A i \in Sets, s \in Sats :
          /\ eph'[i][s].toc = eph[i][s].toc
          /\ (i = ieph /\ s = sv) => eph'[i][s].vflg /\ eph'[i][s].orbit = "same"
          /\ ~(i = ieph /\ s = sv) => eph'[i][s] = eph[i][s]
    BY <1>2, <1>5, <2>1 DEF Entry
  <2>4. \A i \in Sets, s \in Sats : Used(i, s)' => Used(i, s)
    BY <1>1, <1>5, <2>3 DEF Used
  <2>5. \A i \in Sets : ValidSats(i) \subseteq ValidSats(i)'
    BY <2>3 DEF ValidSats
  <2>6. \A i \in Sets, s \in Sats :
          s \in ValidSats(i)' => s \in ValidSats(i) \/ (i = ieph /\ s = sv)
    BY <2>3 DEF ValidSats
  <2>7. sv \in ValidSats(ieph)'
    BY <1>1, <1>2, <2>3 DEF ValidSats
  <2>8. TypeOK'
    BY <1>1, <1>5, <2>2 DEF TypeOK
  <2>9. Filling'
    BY <1>1, <1>2, <1>3, <1>5, <2>3, <2>4 DEF Filling
  <2>10. \A i \in Sets : i < ieph => ValidSats(i) # {}
    BY <1>1 DEF NoneEmpty
  <2>11. NoneEmpty'
    BY <1>1, <1>5, <2>5, <2>7, <2>10 DEF NoneEmpty
  <2>12. SetsContiguous'
    <3> SUFFICES ASSUME NEW i \in Sets, ValidSats(i)' # {}, NEW j \in 0 .. i - 1
                 PROVE  ValidSats(j)' # {}
      BY DEF SetsContiguous
    <3>1. j \in Sets /\ j < i
      BY EphemAssumption DEF Sets
    <3>2. ValidSats(i) # {} \/ i = ieph
      BY <2>6 DEF ValidSats
    <3>3. ValidSats(j) # {}
      BY <1>1, <2>10, <3>1, <3>2 DEF SetsContiguous
    <3> QED  BY <2>5, <3>1, <3>3
  <2>13. Apart'
    BY <1>1, <2>3, <2>4 DEF Apart
  <2>14. Whole'
    <3> SUFFICES ASSUME NEW i \in Sets, NEW s \in ValidSats(i)', eph'[i][s].orbit # "same"
                 PROVE  FALSE
      BY DEF Whole
    <3>1. s \in Sats /\ ~(i = ieph /\ s = sv)
      BY <2>3 DEF ValidSats
    <3>2. s \in ValidSats(i) /\ eph[i][s].orbit # "same"
      BY <2>3, <2>6, <3>1
    <3> QED  BY <1>1, <3>1, <3>2 DEF Whole
  <2>15. Running' /\ KeepsUp' /\ StartsUnlessNothingRead'
    BY <1>5 DEF Running, KeepsUp, StartsUnlessNothingRead
  <2> QED  BY <2>8, <2>9, <2>11, <2>12, <2>13, <2>14, <2>15 DEF IInv
<1> QED  BY <1>4, <1>5 DEF ReadOrbits

(* The end of the file and the count leave the array as it is.             *)
LEMMA EndCorrect == IInv /\ (EndOfFile \/ Count) => IInv'
<1> SUFFICES ASSUME IInv, EndOfFile \/ Count PROVE IInv'  OBVIOUS
<1>1. /\ TypeOK /\ Filling /\ NoneEmpty /\ SetsContiguous /\ Apart /\ Whole
      /\ eph' = eph /\ g0' = g0 /\ ieph' = ieph /\ sv' = sv /\ gmin' = gmin /\ grx' = grx
      /\ records' = records /\ clock' = clock /\ cut' = cut
  BY DEF IInv, EndOfFile, Count, fileVars
<1>2. /\ pc \in {"epoch", "count"} /\ pc' \in {"count", "start"}
      /\ pc' = "count" => pc = "epoch" /\ neph' = neph
      /\ pc' = "start" => pc = "count" /\ neph' = IF g0 >= 0 THEN ieph + 1 ELSE ieph
  BY DEF EndOfFile, Count
<1>3. \A i : ValidSats(i)' = ValidSats(i)
  BY <1>1 DEF ValidSats
<1>4. \A i, s : Used(i, s)' <=> eph[i][s].vflg
  BY <1>1, <1>2 DEF Used
<1>5. \A i, s : eph[i][s].vflg => Used(i, s)
  BY DEF Used
<1>6. TypeOK'
  BY <1>1, <1>2, EphemAssumption DEF TypeOK
<1>7. Filling'
  BY <1>1, <1>2, <1>4, <1>5 DEF Filling
<1>8. NoneEmpty' /\ SetsContiguous'
  BY <1>1, <1>2, <1>3 DEF NoneEmpty, SetsContiguous
<1>9. Apart'
  BY <1>1, <1>4, <1>5 DEF Apart
<1>10. ASSUME NEW i \in Sets, NEW s \in ValidSats(i) PROVE g0 >= 0 /\ g0 # -1
  BY <1>1, <1>2, <1>5, <1>10 DEF Filling, ValidSats, TypeOK
<1>11. Whole'
  <2> SUFFICES ASSUME NEW i \in Sets, NEW s \in ValidSats(i), eph[i][s].orbit # "same"
               PROVE  /\ eph[i][s].orbit = "older" /\ s = sv /\ cut
                      /\ i = IF pc' \in {"orbits", "count"} THEN ieph ELSE neph' - 1
    BY <1>1, <1>3 DEF Whole
  <2>1. eph[i][s].orbit = "older" /\ s = sv /\ cut /\ i = ieph /\ ieph \in Nat
    <3>1. eph[i][s].orbit = "older" /\ s = sv /\ cut /\ ieph \in Nat
      BY <1>1, <1>2 DEF Whole, TypeOK
    <3>2. pc = "count"
      BY <1>1, <1>2, <3>1 DEF Filling
    <3> QED  BY <1>1, <3>1, <3>2 DEF Whole
  <2>2. pc' = "start" => neph' = ieph + 1
    BY <1>2, <1>10
  <2> QED  BY <1>2, <2>1, <2>2
<1>12. Running'
  <2>1. ASSUME pc' = "start", ValidSats(0)' # {} PROVE neph' > 0
    <3>1. PICK s \in Sats : s \in ValidSats(0)
      BY <1>3, <2>1, EphemAssumption DEF Sets, ValidSats
    <3>2. g0 >= 0 /\ ieph \in Nat
      BY <1>1, <1>10, <3>1, EphemAssumption DEF Sets, TypeOK
    <3> QED  BY <1>2, <2>1, <3>2
  <2> QED  BY <1>2, <2>1 DEF Running
<1>13. KeepsUp' /\ StartsUnlessNothingRead'
  BY <1>2 DEF KeepsUp, StartsUnlessNothingRead
<1> QED  BY <1>6, <1>7, <1>8, <1>9, <1>11, <1>12, <1>13 DEF IInv

-----------------------------------------------------------------------------
(* From now on the array and the reader's variables stay as they are.      *)
LEMMA ArrayKept ==
  ASSUME IInv, UNCHANGED <<eph, g0, sv, neph, fileVars>>,
         pc \notin {"epoch", "orbits", "count"}, pc' \notin {"epoch", "orbits", "count"}
  PROVE  Filling' /\ NoneEmpty' /\ SetsContiguous' /\ Apart' /\ Whole'
<1>1. /\ Filling /\ NoneEmpty /\ SetsContiguous /\ Apart /\ Whole
      /\ eph' = eph /\ g0' = g0 /\ sv' = sv /\ neph' = neph /\ cut' = cut
  BY DEF IInv, fileVars
<1>2. \A i : ValidSats(i)' = ValidSats(i)
  BY <1>1 DEF ValidSats
<1>3. \A i, s : Used(i, s)' <=> Used(i, s)
  BY <1>1 DEF Used
<1>4. Filling' /\ NoneEmpty'
  BY DEF Filling, NoneEmpty
<1>5. SetsContiguous'
  BY <1>1, <1>2 DEF SetsContiguous
<1>6. Apart'
  BY <1>1, <1>3 DEF Apart
<1>7. Whole'
  BY <1>1, <1>2 DEF Whole
<1> QED  BY <1>4, <1>5, <1>6, <1>7

(* The simulation starts only where something was read.                    *)
LEMMA StartCorrect == IInv /\ Start => IInv'
<1> SUFFICES ASSUME IInv, Start PROVE IInv'  OBVIOUS
<1>1. /\ TypeOK /\ SetsContiguous /\ Running /\ pc = "start" /\ ieph' = ieph /\ eph' = eph
      /\ g0' = g0 /\ sv' = sv /\ neph' = neph /\ UNCHANGED fileVars
      /\ pc' \in {"undefined", "select"}
  BY DEF IInv, Start
<1>2. \A i : ValidSats(i)' = ValidSats(i)
  BY <1>1 DEF ValidSats
<1>3. Filling' /\ NoneEmpty' /\ SetsContiguous' /\ Apart' /\ Whole'
  BY <1>1, ArrayKept
<1>4. KeepsUp'
  BY <1>1 DEF KeepsUp
<1>5. 0 \in Sets
  BY EphemAssumption DEF Sets
<1>6. CASE ValidSats(0) = {} /\ pc' = "undefined" /\ UNCHANGED <<gmin, grx>>
  <2>1. \A i \in Sets : ValidSats(i) = {}
    BY <1>1, <1>6, EphemAssumption DEF SetsContiguous, Sets
  <2>2. StartsUnlessNothingRead'
    BY <1>2, <2>1 DEF StartsUnlessNothingRead
  <2>3. TypeOK' /\ Running'
    BY <1>1, <1>6 DEF TypeOK, Running, fileVars
  <2> QED  BY <1>3, <1>4, <2>2, <2>3 DEF IInv
<1>7. CASE /\ \E s \in Sats : IsFirst(s, 0) /\ gmin' = eph[0][s].toc
           /\ grx' = gmin' /\ pc' = "select"
  <2>1. PICK s \in Sats : s \in ValidSats(0) /\ gmin' = eph[0][s].toc
    BY <1>7 DEF IsFirst
  <2>2. eph[0][s] \in Entry
    BY <1>1, <1>5 DEF TypeOK
  <2>3. gmin' \in Nat
    BY <2>1, <2>2 DEF Entry
  <2>4. neph > 0
    BY <1>1, <2>1 DEF Running
  <2>5. TypeOK'
    BY <1>1, <1>7, <2>3 DEF TypeOK, fileVars
  <2>6. Running'
    BY <1>1, <1>2, <1>7, <2>1, <2>4 DEF Running
  <2>7. StartsUnlessNothingRead'
    BY <1>7 DEF StartsUnlessNothingRead
  <2> QED  BY <1>3, <1>4, <2>5, <2>6, <2>7 DEF IInv
<1> QED  BY <1>6, <1>7 DEF Start

(* The set that is selected is the first one.                              *)
LEMMA SelectCorrect == IInv /\ Select => IInv'
<1> SUFFICES ASSUME IInv, Select PROVE IInv'  OBVIOUS
<1>1. /\ TypeOK /\ Apart /\ Running /\ pc = "select" /\ pc' = "run" /\ eph' = eph
      /\ g0' = g0 /\ sv' = sv /\ neph' = neph /\ gmin' = gmin /\ grx' = grx
      /\ UNCHANGED fileVars
  BY DEF IInv, Select
<1>2. \A i : ValidSats(i)' = ValidSats(i)
  BY <1>1 DEF ValidSats
<1>3. Filling' /\ NoneEmpty' /\ SetsContiguous' /\ Apart' /\ Whole'
  BY <1>1, ArrayKept
<1>4. 0 \in Sets /\ Hour \in Nat /\ Hour > 0
  BY EphemAssumption DEF Sets
<1>5. PICK s \in ValidSats(0) : gmin = eph[0][s].toc
  BY <1>1 DEF Running
<1>6. grx = eph[0][s].toc /\ grx \in Nat
  BY <1>1, <1>5 DEF Running, TypeOK
<1>7. grx - eph[0][s].toc \in -Hour .. Hour - 1
  BY <1>4, <1>6
<1>8. IsCurrent(0)
  BY <1>5, <1>7 DEF IsCurrent
<1>9. ieph' = 0
  <2>1. PICK i \in Sets : i < neph /\ (\A j \in 0 .. i - 1 : ~IsCurrent(j)) /\ ieph' = i
    BY DEF Select
  <2>2. i = 0
    BY <1>8, <2>1, EphemAssumption DEF Sets
  <2> QED  BY <2>1, <2>2
<1>10. TypeOK'
  BY <1>1, <1>9, EphemAssumption DEF TypeOK, fileVars
<1>11. Running'
  BY <1>1, <1>2, <1>4, <1>5, <1>6, <1>9 DEF Running, TypeOK
<1>12. KeepsUp'
  <2>1. \A r \in ValidSats(0) : eph[0][r].toc < grx + 2 * Hour
    <3> TAKE r \in ValidSats(0)
    <3>1. eph[0][r].toc - eph[0][s].toc \in -Hour .. Hour
      BY <1>1, <1>4, <1>5 DEF Apart, Used, ValidSats
    <3>2. eph[0][r] \in Entry /\ eph[0][s] \in Entry
      BY <1>1, <1>4 DEF TypeOK, ValidSats
    <3>3. eph[0][r].toc \in Nat /\ eph[0][s].toc \in Nat
      BY <3>2 DEF Entry
    <3> QED  BY <1>4, <1>6, <3>1, <3>3
  <2>2. ~(Elapsed' > 0)
    BY <1>1, <1>5, <1>6 DEF Elapsed
  <2> QED  BY <1>1, <1>2, <1>9, <2>1, <2>2 DEF KeepsUp
<1>13. StartsUnlessNothingRead'
  BY <1>1 DEF StartsUnlessNothingRead
<1> QED  BY <1>3, <1>10, <1>11, <1>12, <1>13 DEF IInv

(* A refresh: when the next set is taken, the one after it is not due yet, *)
(* because the next was not due a refresh ago and the sets are apart.      *)
LEMMA RefreshCorrect == IInv /\ Refresh => IInv'
<1> SUFFICES ASSUME IInv, Refresh PROVE IInv'  OBVIOUS
<1>1. /\ TypeOK /\ Apart /\ Running /\ KeepsUp /\ pc = "run" /\ pc' \in {"run", "undefined"}
      /\ eph' = eph /\ g0' = g0 /\ sv' = sv /\ neph' = neph /\ gmin' = gmin
      /\ grx' = grx + 1 /\ UNCHANGED fileVars
  BY DEF IInv, Refresh
<1>2. \A i : ValidSats(i)' = ValidSats(i)
  BY <1>1 DEF ValidSats
<1>3. Filling' /\ NoneEmpty' /\ SetsContiguous' /\ Apart' /\ Whole'
  BY <1>1, ArrayKept
<1>4. /\ ieph \in Sets /\ ieph \in Nat /\ ValidSats(ieph) # {}
      /\ grx \in Nat /\ gmin \in Nat /\ grx >= gmin /\ Hour \in Nat
  BY <1>1, EphemAssumption DEF Running, TypeOK
<1>5. \A i \in Sets, s \in Sats : eph[i][s].toc \in Nat
  BY <1>1 DEF TypeOK, Entry
<1>6. \A s \in ValidSats(ieph) : eph[ieph][s].toc < grx' + 2 * Hour
  BY <1>1, <1>4, <1>5 DEF KeepsUp, ValidSats
<1>7. grx' > gmin' /\ Elapsed' > 0 /\ grx' \in Nat
  BY <1>1, <1>4 DEF Elapsed
<1>8. ValidSats(0) # {}
  BY <1>1 DEF Running
<1>9. CASE ieph' = ieph /\ (ieph + 1 \notin Sets \/ (pc' = "run" /\ ~IsDue(ieph + 1, grx')))
  <2>1. TypeOK'
    BY <1>1, <1>7, <1>9 DEF TypeOK, fileVars
  <2>2. Running'
    BY <1>1, <1>2, <1>4, <1>7, <1>8, <1>9 DEF Running
  <2>3. ieph + 1 \in Sets =>
          \A s \in Sats : IsFirst(s, ieph + 1)' => eph[ieph + 1][s].toc - grx' >= Hour
    BY <1>1, <1>4, <1>5, <1>7, <1>9 DEF IsDue, IsFirst, ValidSats
  <2>4. KeepsUp'
    BY <1>1, <1>2, <1>6, <1>9, <2>3 DEF KeepsUp
  <2>5. StartsUnlessNothingRead'
    BY <1>1, <1>9 DEF StartsUnlessNothingRead
  <2> QED  BY <1>3, <2>1, <2>2, <2>4, <2>5 DEF IInv
<1>10. CASE ieph + 1 \in Sets /\ IsDue(ieph + 1, grx') /\ ieph' = ieph + 1 /\ pc' = "run"
  <2>1. PICK s \in Sats : IsFirst(s, ieph + 1) /\ eph[ieph + 1][s].toc - grx' < Hour
    BY <1>10 DEF IsDue
  <2>2. s \in ValidSats(ieph + 1) /\ eph[ieph + 1][s].toc \in Nat
    BY <1>5, <1>10, <2>1 DEF IsFirst
  <2>3. TypeOK'
    BY <1>1, <1>7, <1>10, EphemAssumption DEF TypeOK, fileVars, Sets
  <2>4. Running'
    <3>1. ValidSats(ieph)' = ValidSats(ieph + 1)
      BY <1>1, <1>10 DEF ValidSats
    <3>2. ieph' \in Sets /\ ValidSats(ieph)' # {} /\ ValidSats(0)' # {}
      BY <1>2, <1>8, <1>10, <2>2, <3>1
    <3>3. grx' >= gmin' /\ grx' # gmin'
      BY <1>1, <1>4
    <3> QED  BY <1>10, <3>2, <3>3 DEF Running
  <2>5. \A r \in ValidSats(ieph + 1) : eph[ieph + 1][r].toc < grx' + 2 * Hour
    <3> TAKE r \in ValidSats(ieph + 1)
    <3>1. eph[ieph + 1][r].toc - eph[ieph + 1][s].toc \in -Hour .. Hour
      BY <1>1, <1>10, <2>2 DEF Apart, Used, ValidSats
    <3>2. eph[ieph + 1][r].toc \in Nat
      BY <1>5, <1>10 DEF ValidSats
    <3> QED  BY <1>4, <1>7, <2>1, <2>2, <3>1, <3>2
  <2>6. ASSUME ieph + 2 \in Sets, NEW r \in ValidSats(ieph + 2)
        PROVE  eph[ieph + 2][r].toc - grx' >= Hour
    <3>1. eph[ieph + 2][r].toc \in Nat /\ r \in Sats /\ eph[ieph + 2][r].vflg
      BY <1>5, <2>6 DEF ValidSats
    <3>2. CASE grx > gmin
      <4>1. Elapsed > 0
        BY <1>4, <3>2 DEF Elapsed
      <4>2. eph[ieph + 1][s].toc - grx >= Hour
        BY <1>1, <1>10, <2>1, <4>1 DEF KeepsUp
      <4>3. eph[ieph + 1][s].toc < eph[ieph + 2][r].toc
        BY <1>1, <1>4, <1>10, <2>2, <2>6, <3>1 DEF Apart, Used, ValidSats
      <4> QED  BY <1>1, <1>4, <2>2, <3>1, <4>2, <4>3
    <3>3. CASE grx = gmin
      <4>1. ieph = 0
        BY <1>1, <3>3 DEF Running
      <4>2. PICK q \in ValidSats(0) : gmin = eph[0][q].toc
        BY <1>1, <3>3 DEF Running
      <4>3. q \in Sats /\ eph[0][q].vflg /\ 0 \in Sets /\ 2 \in Sets
        BY <1>4, <2>6, <4>1 DEF ValidSats
      <4>4. eph[0][q].toc + Hour + 1 < eph[2][r].toc
        BY <1>1, <3>1, <4>1, <4>3 DEF Apart, Used
      <4> QED  BY <1>1, <1>4, <3>1, <3>3, <4>1, <4>2, <4>4
    <3> QED  BY <1>4, <3>2, <3>3
  <2>7. ieph' + 1 = ieph + 2
    BY <1>4, <1>10
  <2>8. KeepsUp'
    <3>1. ASSUME ieph + 2 \in Sets, NEW r \in Sats, IsFirst(r, ieph + 1)'
          PROVE  eph[ieph + 2][r].toc - grx' >= Hour
      <4>1. r \in ValidSats(ieph' + 1)
        BY <1>1, <3>1 DEF IsFirst, ValidSats
      <4> QED  BY <2>6, <2>7, <3>1, <4>1
    <3>2. \A r \in ValidSats(ieph)' : eph'[ieph'][r].toc < grx' + 2 * Hour
      BY <1>1, <1>10, <2>5 DEF ValidSats
    <3> QED  BY <1>1, <2>7, <3>1, <3>2 DEF KeepsUp
  <2>9. StartsUnlessNothingRead'
    BY <1>10 DEF StartsUnlessNothingRead
  <2> QED  BY <1>3, <2>3, <2>4, <2>8, <2>9 DEF IInv
<1> QED  BY <1>9, <1>10 DEF Refresh

-----------------------------------------------------------------------------
(* The inductive invariant of the reader and of the run.                   *)
THEOREM Invariance == Spec => []IInv
<1>1. IInv /\ [Next]_vars => IInv'
  <2> SUFFICES ASSUME IInv, [Next]_vars PROVE IInv'  OBVIOUS
  <2>1. CASE ReadEpoch  BY <2>1, EpochCorrect
  <2>2. CASE ReadOrbits  BY <2>2, OrbitsCorrect
  <2>3. CASE EndOfFile \/ Count  BY <2>3, EndCorrect
  <2>4. CASE Start  BY <2>4, StartCorrect
  <2>5. CASE Select  BY <2>5, SelectCorrect
  <2>6. CASE Refresh  BY <2>6, RefreshCorrect
  <2>7. CASE UNCHANGED vars
    BY <2>7 DEF vars, fileVars, IInv, TypeOK, Filling, NoneEmpty, SetsContiguous, Apart, Whole,
                Running, KeepsUp, StartsUnlessNothingRead, Used, ValidSats, Elapsed, IsDue, IsFirst
  <2> QED  BY <2>1, <2>2, <2>3, <2>4, <2>5, <2>6, <2>7 DEF Next, Done
<1> QED  BY <1>1, InitCorrect, PTL DEF Spec

(* The sets of readRinexNavAll do not overlap in time, whatever the order  *)
(* of the satellites and the gaps in the file.                             *)
THEOREM SetsCorrect == Spec => []SetsApart
<1>1. IInv => SetsApart
  BY DEF IInv, Apart, SetsApart, Used, ValidSats
<1> QED  BY <1>1, Invariance, PTL

(* The sets counted have no empty one between them.                        *)
THEOREM NoGapCorrect == Spec => []SetsContiguous
<1>1. IInv => SetsContiguous
  BY DEF IInv
<1> QED  BY <1>1, Invariance, PTL

(* What the simulation uses was read whole, but for a file that is cut.    *)
THEOREM WholeCorrect == Spec => []WholeUnlessCut
<1>1. IInv => WholeUnlessCut
  BY DEF IInv, Whole, WholeUnlessCut
<1> QED  BY <1>1, Invariance, PTL

(* A refresh that moves by one set never falls behind.                     *)
THEOREM RefreshKeepsUp == Spec => []KeepsUp
<1>1. IInv => KeepsUp
  BY DEF IInv
<1> QED  BY <1>1, Invariance, PTL

(* For every file with a whole record the simulation finds its start and   *)
(* its current set.                                                        *)
THEOREM StartCorrectUnlessEmpty == Spec => []StartsUnlessNothingRead
<1>1. IInv => StartsUnlessNothingRead
  BY DEF IInv
<1> QED  BY <1>1, Invariance, PTL
=============================================================================
