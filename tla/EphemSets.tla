------------------------------ MODULE EphemSets ------------------------------
(***************************************************************************)
(* The ephemerides of a RINEX file: readRinexNavAll() sorts the records of *)
(* the file into sets an hour apart at the most, and runCore3() starts at  *)
(* the time of the first set and moves on through the sets as time goes by.*)
(*                                                                         *)
(* The file holds a record of several lines for a satellite and a time of  *)
(* clock, in the order of time; it may end in the middle of a record.  A   *)
(* record is its satellite and its time.  Time is counted in refreshes:    *)
(* thirty seconds in the code, of which there are 120 in an hour.          *)
(***************************************************************************)
EXTENDS Integers

CONSTANTS
  Sats,       \* MAX_SAT satellites, by number
  ArraySets,  \* EPHEM_ARRAY_SIZE
  Hour,       \* SECONDS_IN_HOUR, in units of time
  MaxRecords, \* bound of the model: records in a file
  MaxGap,     \* bound of the model: time between two records
  Duration    \* length of the simulation

ASSUME EphemAssumption ==
  /\ Sats \subseteq Nat /\ Sats # {}
  /\ ArraySets \in Nat \ {0} /\ Hour \in Nat \ {0, 1}
  /\ MaxRecords \in Nat /\ MaxGap \in Nat /\ Duration \in Nat

VARIABLES
  pc,
  eph,      \* an entry for each set and satellite
  g0,       \* time of the first record of the set being filled, -1 for none
  ieph,     \* the set being filled; later the current one
  sv,       \* the satellite of the record being read
  neph,     \* what readRinexNavAll returned
  gmin,     \* time at which the simulation starts
  grx,      \* receiver time
  records, clock, cut  \* the file: records begun, the time of the last, and
                       \* whether it ended inside of one

fileVars == <<records, clock, cut>>
vars == <<pc, eph, g0, ieph, sv, neph, gmin, grx, records, clock, cut>>

Sets == 0 .. ArraySets - 1

(* The clock of an entry is that of the last record for it; its orbit is of*)
(* the same record, of an older one, or was never read.                    *)
Entry == [vflg : BOOLEAN, toc : Nat, orbit : {"same", "older", "none"}]
Cleared == [vflg |-> FALSE, toc |-> 0, orbit |-> "none"]

ValidSats(i) == {s \in Sats : eph[i][s].vflg}

(* The satellite that a loop over the array comes to first.                *)
IsFirst(s, i) == s \in ValidSats(i) /\ \A r \in ValidSats(i) : s <= r

-----------------------------------------------------------------------------
(* readRinexNavAll().                                                      *)

(* The flags are cleared and the header is read.  If the file cannot be     *)
(* opened, -1 is returned and the flags are not cleared; the caller tests  *)
(* for 0 only, and goes on with whatever the array has.                    *)
Init ==
  /\ \/ pc = "epoch" /\ neph = 0
     \/ pc = "undefined" /\ neph = -1
  /\ eph = [i \in Sets |-> [s \in Sats |-> Cleared]]
  /\ g0 = -1 /\ ieph = 0 /\ sv \in Sats
  /\ gmin = 0 /\ grx = 0
  /\ records = 0 /\ clock = 0 /\ cut = FALSE

(* Mutant: the first record begins a new set as well.                      *)
IsNewSetAtStart(t) == g0 = -1 \/ t - g0 > Hour

IsNewSet(t) == g0 # -1 /\ t - g0 > Hour

(* Mutant: the time of the set is not moved on with the set.               *)
OldSetTime(t) == IF g0 = -1 THEN t ELSE g0

SetTime(t) == IF g0 = -1 \/ IsNewSet(t) THEN t ELSE g0

(* Mutant: off by one.                                                     *)
ArrayOverfull(i) == i > ArraySets

ArrayIsFull(i) == i >= ArraySets

OlderOrbit(e) == IF e.orbit = "none" THEN "none" ELSE "older"

(* The first line of a record: the satellite, the time and the clock.      *)
ReadEpoch ==
  /\ pc = "epoch" /\ records < MaxRecords
  /\ \E s \in Sats, t \in clock .. clock + MaxGap :
       /\ records' = records + 1 /\ clock' = t
       /\ g0' = SetTime(t)
       /\ ieph' = IF IsNewSet(t) THEN ieph + 1 ELSE ieph
       /\ sv' = s
       /\ \/ ArrayIsFull(ieph') /\ pc' = "count" /\ UNCHANGED eph
          \/ /\ ~ArrayIsFull(ieph') /\ pc' = "orbits"
             /\ eph' = [eph EXCEPT ![ieph'][s] =
                         [vflg |-> @.vflg, toc |-> t, orbit |-> OlderOrbit(@)]]
  /\ UNCHANGED <<neph, gmin, grx, cut>>

(* Mutant: the flag is set whether all lines were there or not.            *)
ReadOrbitsAnyway ==
  /\ pc = "orbits"
  /\ \/ /\ pc' = "epoch" /\ UNCHANGED cut
        /\ eph' = [eph EXCEPT ![ieph][sv] = [vflg |-> TRUE, toc |-> @.toc, orbit |-> "same"]]
     \/ /\ pc' = "count" /\ cut' = TRUE
        /\ eph' = [eph EXCEPT ![ieph][sv].vflg = TRUE]
  /\ UNCHANGED <<g0, ieph, sv, neph, gmin, grx, records, clock>>

(* The other seven lines, or the end of the file in the middle of them.    *)
ReadOrbits ==
  /\ pc = "orbits"
  /\ \/ /\ pc' = "epoch" /\ UNCHANGED cut
        /\ eph' = [eph EXCEPT ![ieph][sv] = [vflg |-> TRUE, toc |-> @.toc, orbit |-> "same"]]
     \/ pc' = "count" /\ cut' = TRUE /\ UNCHANGED eph
  /\ UNCHANGED <<g0, ieph, sv, neph, gmin, grx, records, clock>>

EndOfFile ==
  /\ pc = "epoch"
  /\ pc' = "count"
  /\ UNCHANGED <<eph, g0, ieph, sv, neph, gmin, grx, fileVars>>

Count ==
  /\ pc = "count"
  /\ neph' = IF g0 >= 0 THEN ieph + 1 ELSE ieph
  /\ pc' = "start"
  /\ UNCHANGED <<eph, g0, ieph, sv, gmin, grx, fileVars>>

-----------------------------------------------------------------------------
(* runCore3().                                                             *)

(* The simulation starts at the time of the first valid entry of the first *)
(* set.  Without one the start is what was in memory.                      *)
Start ==
  /\ pc = "start"
  /\ \/ /\ ValidSats(0) = {}
        /\ pc' = "undefined" /\ UNCHANGED <<gmin, grx>>
     \/ /\ \E s \in Sats : IsFirst(s, 0) /\ gmin' = eph[0][s].toc
        /\ grx' = gmin' /\ pc' = "select"
  /\ UNCHANGED <<eph, g0, ieph, sv, neph, fileVars>>

IsCurrent(i) ==
  \E s \in ValidSats(i) : grx - eph[i][s].toc \in -Hour .. Hour - 1

(* The first set with an entry within an hour of the start.                *)
Select ==
  /\ pc = "select"
  /\ \E i \in Sets :
       /\ i < neph /\ IsCurrent(i) /\ \A j \in 0 .. i - 1 : ~IsCurrent(j)
       /\ ieph' = i
  /\ pc' = "run"
  /\ UNCHANGED <<eph, g0, sv, neph, gmin, grx, fileVars>>

(* Mutant: the next set is taken only when its time has come.             *)
IsDueLate(i, t) == \E s \in Sats : IsFirst(s, i) /\ eph[i][s].toc <= t

(* The loop over the satellites stops at the first valid entry.            *)
IsDue(i, t) == \E s \in Sats : IsFirst(s, i) /\ eph[i][s].toc - t < Hour

Elapsed == grx - gmin

(* Thirty seconds of signal, and the refresh.  A set behind the array may  *)
(* hold anything, and be taken.                                            *)
Refresh ==
  /\ pc = "run" /\ Elapsed < Duration
  /\ grx' = grx + 1
  /\ \/ /\ ieph + 1 \in Sets
        /\ ieph' = IF IsDue(ieph + 1, grx') THEN ieph + 1 ELSE ieph
        /\ UNCHANGED pc
     \/ /\ ieph + 1 \notin Sets
        /\ pc' \in {"run", "undefined"} /\ UNCHANGED ieph
  /\ UNCHANGED <<eph, g0, sv, neph, gmin, fileVars>>

Done ==
  /\ pc = "undefined" \/ (pc = "run" /\ Elapsed >= Duration)
  /\ UNCHANGED vars

Next == ReadEpoch \/ ReadOrbits \/ EndOfFile \/ Count \/ Start \/ Select \/ Refresh \/ Done

Spec == Init /\ [][Next]_vars

-----------------------------------------------------------------------------
(* Properties.                                                             *)

(* Every variable has its type.                                            *)
TypeOK ==
  /\ pc \in {"epoch", "orbits", "count", "start", "select", "run", "undefined"}
  /\ eph \in [Sets -> [Sats -> Entry]]
  /\ g0 \in Nat \cup {-1} /\ ieph \in 0 .. ArraySets /\ sv \in Sats
  /\ neph \in -1 .. ArraySets + 1 /\ gmin \in Nat /\ grx \in Nat
  /\ records \in 0 .. MaxRecords /\ clock \in Nat /\ cut \in BOOLEAN

(* The sets do not overlap in time, and within one all clocks are an hour  *)
(* apart at the most: moving to the next set never goes back in time.      *)
SetsApart ==
  \A i, j \in Sets : \A s \in ValidSats(i), r \in ValidSats(j) :
    /\ i < j => eph[i][s].toc < eph[j][r].toc
    /\ i = j => eph[i][s].toc - eph[j][r].toc \in -Hour .. Hour

(* Sets are filled without a gap: if one has a valid entry, all before it  *)
(* have one, and the loop of the refresh does not stop at an empty set.    *)
SetsContiguous ==
  \A i \in Sets : ValidSats(i) # {} => \A j \in 0 .. i - 1 : ValidSats(j) # {}

(* An entry that is used was read whole and from one record, also where its*)
(* satellite came again; only the entry in which a cut-off file ends may be*)
(* the clock of one record with the orbit of an older one.                 *)
WholeUnlessCut ==
  pc \in {"select", "run"} =>
    \A i \in Sets : \A s \in ValidSats(i) :
      \/ eph[i][s].orbit = "same"
      \/ eph[i][s].orbit = "older" /\ cut /\ s = sv /\ i = neph - 1

(* A file with one whole record gives the simulation a start and a set.    *)
(* (One that cannot be opened is a file of which nothing was read.)        *)
StartsUnlessNothingRead ==
  pc = "undefined" =>
    \/ \A i \in Sets : ValidSats(i) = {}
    \/ ieph + 1 \notin Sets

(* Each refresh moves on by one set at the most, and keeps up: the next set*)
(* is never due already, and nothing in the current one is more than two   *)
(* hours ahead.                                                            *)
KeepsUp ==
  pc = "run" =>
    /\ \A s \in ValidSats(ieph) : eph[ieph][s].toc < grx + 2 * Hour
    /\ (Elapsed > 0 /\ ieph + 1 \in Sets) =>
         \A s \in Sats : IsFirst(s, ieph + 1) => eph[ieph + 1][s].toc - grx >= Hour

-----------------------------------------------------------------------------
(* The inductive invariant behind them.                                    *)

(* An entry that is valid or being read.                                   *)
Used(i, s) == eph[i][s].vflg \/ (pc = "orbits" /\ i = ieph /\ s = sv)

(* While the file is read: the set being filled begins at g0, and the ones *)
(* before it lie before g0.                                                *)
Filling ==
  pc \in {"epoch", "orbits", "count"} =>
    /\ g0 <= clock
    /\ g0 = -1 => ieph = 0 /\ pc # "orbits" /\ ~cut
    /\ pc # "count" => ieph \in Sets /\ ~cut
    /\ \A i \in Sets, s \in Sats : Used(i, s) =>
         /\ g0 # -1 /\ i <= ieph
         /\ i = ieph => eph[i][s].toc \in g0 .. g0 + Hour
         /\ i < ieph => eph[i][s].toc < g0
         /\ i + 1 < ieph => eph[i][s].toc + Hour + 1 < g0

(* The sets before the one being filled are not empty.                     *)
NoneEmpty ==
  pc \in {"epoch", "orbits", "count"} =>
    /\ \A i \in Sets : i < ieph => ValidSats(i) # {}
    /\ (pc = "epoch" /\ g0 # -1) => ValidSats(ieph) # {}

(* SetsApart with the entry being read, and more than an hour between sets *)
(* that are not neighbours.                                                *)
Apart ==
  \A i, j \in Sets, s, r \in Sats : Used(i, s) /\ Used(j, r) =>
    /\ i < j => eph[i][s].toc < eph[j][r].toc
    /\ i + 1 < j => eph[i][s].toc + Hour + 1 < eph[j][r].toc
    /\ i = j => eph[i][s].toc - eph[j][r].toc \in -Hour .. Hour

Whole ==
  \A i \in Sets : \A s \in ValidSats(i) :
    \/ eph[i][s].orbit = "same"
    \/ /\ eph[i][s].orbit = "older" /\ s = sv
       /\ pc # "orbits" => cut
       /\ i = IF pc \in {"orbits", "count"} THEN ieph ELSE neph - 1

Running ==
  /\ pc \in {"select", "run"} => ValidSats(0) # {}
  /\ pc = "start" /\ ValidSats(0) # {} => neph > 0
  /\ pc = "select" =>
       neph > 0 /\ grx = gmin /\ \E s \in ValidSats(0) : gmin = eph[0][s].toc
  /\ pc = "run" =>
       /\ ieph \in Sets /\ ValidSats(ieph) # {} /\ grx >= gmin
       /\ grx = gmin => ieph = 0 /\ \E s \in ValidSats(0) : gmin = eph[0][s].toc

IInv ==
  /\ TypeOK /\ Filling /\ NoneEmpty /\ SetsContiguous /\ Apart /\ Whole
  /\ Running /\ KeepsUp /\ StartsUnlessNothingRead
=============================================================================
