---------------------------- MODULE ChannelAlloc ----------------------------
(***************************************************************************)
(* The twelve simulated receiver channels of the signal generators and the *)
(* work done on them every 30 seconds: the navigation message of every     *)
(* channel is renewed, the next set of ephemerides is taken when it is due,*)
(* and allocateChannel() gives channels to the satellites in view.         *)
(*                                                                         *)
(* allocateChannel() visits the satellites in the order of their numbers;  *)
(* one action is one turn of its loop.  Which satellites are in view       *)
(* (checkSatVisibility) is chosen anew for every pass.  An ephemeris is the*)
(* number of the set eph[] it comes from.                                  *)
(***************************************************************************)
EXTENDS Integers

CONSTANTS
  MaxSat,    \* MAX_SAT
  MaxChan,   \* MAX_CHAN
  ArraySets, \* EPHEM_ARRAY_SIZE
  NumSets,   \* sets of ephemerides that were read (neph)
  Cleared    \* the other sets were marked invalid: readRinexNavAll does,
             \* getRTCM3Eph does not

ASSUME SizesAssumption ==
  /\ MaxSat \in Nat \ {0}
  /\ MaxChan \in Nat \ {0}
  /\ ArraySets \in Nat
  /\ NumSets \in 1 .. ArraySets
  /\ Cleared \in BOOLEAN

Svs == 0 .. MaxSat - 1
Chans == 0 .. MaxChan - 1
Sets == 0 .. NumSets - 1

VARIABLES
  prn,           \* chan[i].prn: the satellite of a channel plus 1, 0 if free
  allocatedSat,  \* the channel of a satellite, -1 if it has none
  ieph,          \* the current set of ephemerides
  sbfSet,        \* the set the subframes chan[i].sbf were made from
  dwrdSet,       \* the set the words on the air, chan[i].dwrd, were made from
  phase,         \* "alloc" inside allocateChannel, "run" between two passes
  sv,            \* the loop index of allocateChannel
  visible,       \* the satellites in view in this pass
  dropped,       \* the satellites that lost their channel in this pass
  switched       \* the last refresh took the next set of ephemerides

vars == <<prn, allocatedSat, ieph, sbfSet, dwrdSet, phase, sv, visible, dropped, switched>>

Init ==
  /\ prn = [i \in Chans |-> 0]
  /\ allocatedSat = [s \in Svs |-> -1]
  /\ ieph \in Sets
  /\ sbfSet = [i \in Chans |-> -1]
  /\ dwrdSet = [i \in Chans |-> -1]
  /\ phase = "alloc"
  /\ sv = 0
  /\ visible \in SUBSET Svs
  /\ dropped = {}
  /\ switched = FALSE

-----------------------------------------------------------------------------
(* allocateChannel().                                                      *)

(* Mutant: no test that the satellite has no channel yet.                  *)
AllocateAgain ==
  /\ phase = "alloc" /\ sv < MaxSat
  /\ sv \in visible
  /\ \E i \in Chans :
       /\ prn[i] = 0
       /\ \A j \in Chans : j < i => prn[j] # 0
       /\ prn' = [prn EXCEPT ![i] = sv + 1]
       /\ allocatedSat' = [allocatedSat EXCEPT ![sv] = i]
       /\ sbfSet' = [sbfSet EXCEPT ![i] = ieph]
       /\ dwrdSet' = [dwrdSet EXCEPT ![i] = ieph]
  /\ sv' = sv + 1
  /\ UNCHANGED <<ieph, phase, visible, dropped, switched>>

(* Mutant: no test that the search for a free channel found one.           *)
AllocateWithoutRoom ==
  /\ phase = "alloc" /\ sv < MaxSat
  /\ sv \in visible /\ allocatedSat[sv] = -1
  /\ \E i \in 0 .. MaxChan :
       /\ i < MaxChan => prn[i] = 0
       /\ \A j \in Chans : j < i => prn[j] # 0
       /\ prn' = [k \in Chans |-> IF k = i THEN sv + 1 ELSE prn[k]]
       /\ allocatedSat' = [allocatedSat EXCEPT ![sv] = i]
       /\ sbfSet' = [k \in Chans |-> IF k = i THEN ieph ELSE sbfSet[k]]
       /\ dwrdSet' = [k \in Chans |-> IF k = i THEN ieph ELSE dwrdSet[k]]
  /\ sv' = sv + 1
  /\ UNCHANGED <<ieph, phase, visible, dropped, switched>>

(* A visible satellite without a channel gets the first free one; its      *)
(* subframes and its words are made from the current set.                  *)
Allocate ==
  /\ phase = "alloc" /\ sv < MaxSat
  /\ sv \in visible /\ allocatedSat[sv] = -1
  /\ \E i \in Chans :
       /\ prn[i] = 0
       /\ \A j \in Chans : j < i => prn[j] # 0
       /\ prn' = [prn EXCEPT ![i] = sv + 1]
       /\ allocatedSat' = [allocatedSat EXCEPT ![sv] = i]
       /\ sbfSet' = [sbfSet EXCEPT ![i] = ieph]
       /\ dwrdSet' = [dwrdSet EXCEPT ![i] = ieph]
  /\ sv' = sv + 1
  /\ UNCHANGED <<ieph, phase, visible, dropped, switched>>

(* Mutant: the allocation flag is not cleared.                             *)
DropKeepsFlag ==
  /\ phase = "alloc" /\ sv < MaxSat
  /\ sv \notin visible /\ allocatedSat[sv] >= 0
  /\ prn' = [prn EXCEPT ![allocatedSat[sv]] = 0]
  /\ dropped' = dropped \cup {sv}
  /\ sv' = sv + 1
  /\ UNCHANGED <<allocatedSat, ieph, sbfSet, dwrdSet, phase, visible, switched>>

(* A satellite that has set gives its channel back.                        *)
Drop ==
  /\ phase = "alloc" /\ sv < MaxSat
  /\ sv \notin visible /\ allocatedSat[sv] >= 0
  /\ prn' = [prn EXCEPT ![allocatedSat[sv]] = 0]
  /\ allocatedSat' = [allocatedSat EXCEPT ![sv] = -1]
  /\ dropped' = dropped \cup {sv}
  /\ sv' = sv + 1
  /\ UNCHANGED <<ieph, sbfSet, dwrdSet, phase, visible, switched>>

(* Mutant: the first satellite of a pass is not looked at.                 *)
PassOverFirst ==
  /\ phase = "alloc" /\ sv < MaxSat
  /\ \/ sv \in visible /\ allocatedSat[sv] # -1
     \/ sv \in visible /\ allocatedSat[sv] = -1 /\ (sv = 0 \/ \A i \in Chans : prn[i] # 0)
     \/ sv \notin visible /\ allocatedSat[sv] < 0
  /\ sv' = sv + 1
  /\ UNCHANGED <<prn, allocatedSat, ieph, sbfSet, dwrdSet, phase, visible, dropped, switched>>

(* Nothing changes for a satellite in view with a channel, for one out of  *)
(* view without, and for one in view when every channel is taken.          *)
PassOver ==
  /\ phase = "alloc" /\ sv < MaxSat
  /\ \/ sv \in visible /\ allocatedSat[sv] # -1
     \/ sv \in visible /\ allocatedSat[sv] = -1 /\ \A i \in Chans : prn[i] # 0
     \/ sv \notin visible /\ allocatedSat[sv] < 0
  /\ sv' = sv + 1
  /\ UNCHANGED <<prn, allocatedSat, ieph, sbfSet, dwrdSet, phase, visible, dropped, switched>>

PassEnds ==
  /\ phase = "alloc" /\ sv = MaxSat
  /\ phase' = "run"
  /\ UNCHANGED <<prn, allocatedSat, ieph, sbfSet, dwrdSet, sv, visible, dropped, switched>>

-----------------------------------------------------------------------------
(* The work of every 30 seconds.                                           *)

Allocated == {i \in Chans : prn[i] # 0}

(* generateNavMsg(grx, &chan[i], 0) for every allocated channel, from the  *)
(* subframes the channel has.                                              *)
RenewWords ==
  dwrdSet' = [i \in Chans |-> IF i \in Allocated THEN sbfSet[i] ELSE dwrdSet[i]]

(* The entries of a set that was not read are invalid if the set is inside *)
(* the array and was cleared; otherwise they are whatever memory holds.    *)
AnySetIsValid(k) == TRUE   \* mutant: vflg is not looked at

MayBeValid(k) ==
  k \in Sets \/ k >= ArraySets \/ ~Cleared

KeepSet == UNCHANGED <<ieph, sbfSet>> /\ switched' = FALSE

(* Mutant: the subframes are not made anew.                                *)
TakeNextSetOnly ==
  /\ ieph < ArraySets   \* bound of the model: one set past the array
  /\ MayBeValid(ieph + 1)
  /\ ieph' = ieph + 1
  /\ switched' = TRUE
  /\ UNCHANGED sbfSet

(* The next set, eph[ieph+1] whether there is one or not, is taken when its*)
(* first valid entry is less than an hour ahead; then the subframes of     *)
(* every allocated channel are made anew.                                  *)
TakeNextSet ==
  /\ ieph < ArraySets   \* bound of the model: one set past the array
  /\ MayBeValid(ieph + 1)
  /\ ieph' = ieph + 1
  /\ sbfSet' = [i \in Chans |-> IF i \in Allocated THEN ieph + 1 ELSE sbfSet[i]]
  /\ switched' = TRUE

(* Mutant: the words are not renewed when the set is not changed.          *)
RefreshOnlyOnSwitch ==
  /\ phase = "run"
  /\ \/ KeepSet /\ UNCHANGED dwrdSet
     \/ TakeNextSet /\ RenewWords
  /\ phase' = "alloc" /\ sv' = 0
  /\ visible' \in SUBSET Svs
  /\ dropped' = {}
  /\ UNCHANGED <<prn, allocatedSat>>

Refresh ==
  /\ phase = "run"
  /\ RenewWords
  /\ KeepSet \/ TakeNextSet
  /\ phase' = "alloc" /\ sv' = 0
  /\ visible' \in SUBSET Svs
  /\ dropped' = {}
  /\ UNCHANGED <<prn, allocatedSat>>

Next == Allocate \/ Drop \/ PassOver \/ PassEnds \/ Refresh

Spec == Init /\ [][Next]_vars

-----------------------------------------------------------------------------
TypeOK ==
  /\ prn \in [Chans -> 0 .. MaxSat]
  /\ allocatedSat \in [Svs -> -1 .. MaxChan - 1]
  /\ ieph \in 0 .. ArraySets
  /\ sbfSet \in [Chans -> -1 .. ArraySets]
  /\ dwrdSet \in [Chans -> -1 .. ArraySets]
  /\ phase \in {"alloc", "run"}
  /\ sv \in 0 .. MaxSat
  /\ visible \subseteq Svs /\ dropped \subseteq Svs
  /\ switched \in BOOLEAN

(* The two tables agree: a satellite's channel works for that satellite,   *)
(* and a channel at work is the channel of its satellite.                  *)
TablesAgree ==
  /\ \A s \in Svs : allocatedSat[s] # -1 => prn[allocatedSat[s]] = s + 1
  /\ \A i \in Chans : prn[i] # 0 => allocatedSat[prn[i] - 1] = i

(* After a pass every channel at work is that of a satellite in view.      *)
OnlyVisibleSatellites ==
  phase = "run" => \A i \in Chans : prn[i] # 0 => prn[i] - 1 \in visible

(* After a pass in which no satellite lost its channel, a satellite in     *)
(* view is without a channel only if all of them are taken.                *)
ChannelsUsedUnlessDropped ==
  (phase = "run" /\ dropped = {}) =>
    \/ \A s \in visible : allocatedSat[s] # -1
    \/ \A i \in Chans : prn[i] # 0

(* Between two passes the subframes of every channel at work are those of  *)
(* the current set of ephemerides, which the pseudoranges are made from.   *)
SubframesCurrent ==
  phase = "run" => \A i \in Chans : prn[i] # 0 => sbfSet[i] = ieph

(* The words on the air are of the current set, or of the one before it    *)
(* during the 30 seconds after the set was changed.                        *)
WordsOneRefreshBehind ==
  phase = "run" => \A i \in Chans :
    prn[i] # 0 => \/ dwrdSet[i] = ieph
                  \/ switched /\ dwrdSet[i] = ieph - 1

(* With a spare set at the end of a cleared array, the satellites are never*)
(* simulated from a set that was not read.                                 *)
SetWasRead == (Cleared /\ NumSets < ArraySets) => ieph \in Sets

(* A satellite never moves to another channel: its carrier phase would     *)
(* jump.  (It may lose its channel, and get one in a later pass.)          *)
NeverMoved ==
  [][\A s \in Svs : (allocatedSat[s] # -1 /\ allocatedSat'[s] # -1) =>
                      allocatedSat'[s] = allocatedSat[s]]_vars

(* The inductive invariant: what holds after every turn of the loop, for   *)
(* the satellites it has visited so far.                                   *)
Loop ==
  /\ phase = "run" => sv = MaxSat
  /\ \A s \in Svs : s < sv =>
       /\ allocatedSat[s] # -1 => s \in visible
       /\ (s \in visible /\ allocatedSat[s] = -1 /\ dropped = {}) =>
            \A i \in Chans : prn[i] # 0
  /\ \A i \in Chans : prn[i] # 0 =>
       /\ sbfSet[i] = ieph
       /\ dwrdSet[i] = ieph \/ (switched /\ dwrdSet[i] = ieph - 1)

IInv == TypeOK /\ TablesAgree /\ Loop /\ SetWasRead
=============================================================================
