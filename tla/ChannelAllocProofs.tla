-------------------------- MODULE ChannelAllocProofs --------------------------
(***************************************************************************)
(* Proofs about what happens at a refresh: about ChannelAlloc, the tables  *)
(* of the channels, for any number of satellites, channels and sets of     *)
(* ephemerides; and behind it about NavFrame, the message and the code     *)
(* phase of one channel, for any lengths of words, frames and weeks.       *)
(***************************************************************************)
EXTENDS ChannelAlloc, NavFrame, TLAPS

USE SizesAssumption DEF Svs, Chans, Sets

LEMMA InitIInv ==
  ASSUME Init
  PROVE  IInv
<1>1. TypeOK
  <2>1. 0 \in 0 .. MaxSat /\ -1 \in -1 .. MaxChan - 1 /\ -1 \in -1 .. ArraySets
    OBVIOUS
  <2>2. prn \in [Chans -> 0 .. MaxSat] /\ allocatedSat \in [Svs -> -1 .. MaxChan - 1]
    BY <2>1 DEF Init
  <2>3. sbfSet \in [Chans -> -1 .. ArraySets] /\ dwrdSet \in [Chans -> -1 .. ArraySets]
    BY <2>1 DEF Init
  <2>4. ieph \in 0 .. ArraySets /\ phase \in {"alloc", "run"} /\ sv \in 0 .. MaxSat
    BY <2>1 DEF Init
  <2>5. visible \subseteq Svs /\ dropped \subseteq Svs /\ switched \in BOOLEAN
    BY DEF Init
  <2>6. QED BY <2>2, <2>3, <2>4, <2>5 DEF TypeOK
<1>2. TablesAgree
  BY DEF Init, TablesAgree
<1>3. Loop
  BY DEF Init, Loop
<1>4. SetWasRead
  BY DEF Init, SetWasRead
<1>5. QED BY <1>1, <1>2, <1>3, <1>4 DEF IInv

LEMMA AllocateKeepsIInv ==
  ASSUME IInv, Allocate
  PROVE  IInv'
<1>1. PICK i \in Chans :
        /\ prn[i] = 0
        /\ prn' = [prn EXCEPT ![i] = sv + 1]
        /\ allocatedSat' = [allocatedSat EXCEPT ![sv] = i]
        /\ sbfSet' = [sbfSet EXCEPT ![i] = ieph]
        /\ dwrdSet' = [dwrdSet EXCEPT ![i] = ieph]
  BY DEF Allocate
<1>2. /\ phase = "alloc" /\ sv \in Svs /\ sv' = sv + 1
      /\ sv \in visible /\ allocatedSat[sv] = -1
      /\ UNCHANGED <<ieph, phase, visible, dropped, switched>>
  BY DEF Allocate, IInv, TypeOK
<1>3. /\ prn \in [Chans -> 0 .. MaxSat]
      /\ allocatedSat \in [Svs -> -1 .. MaxChan - 1]
  BY DEF IInv, TypeOK
<1>t. /\ ieph \in 0 .. ArraySets
      /\ sbfSet \in [Chans -> -1 .. ArraySets]
      /\ dwrdSet \in [Chans -> -1 .. ArraySets]
  BY DEF IInv, TypeOK
<1>4. TypeOK'
  <2>1. prn' \in [Chans -> 0 .. MaxSat]
    <3>1. sv + 1 \in 0 .. MaxSat
      BY <1>2
    <3>2. QED BY <1>1, <1>3, <3>1
  <2>2. allocatedSat' \in [Svs -> -1 .. MaxChan - 1]
    <3>1. i \in -1 .. MaxChan - 1
      OBVIOUS
    <3>2. QED BY <1>1, <1>2, <1>3, <3>1
  <2>3. ieph \in -1 .. ArraySets
    BY <1>t
  <2>4. /\ sbfSet' \in [Chans -> -1 .. ArraySets]
        /\ dwrdSet' \in [Chans -> -1 .. ArraySets]
    BY <1>1, <1>t, <2>3
  <2>5. sv' \in 0 .. MaxSat
    BY <1>2
  <2>6. /\ ieph' \in 0 .. ArraySets /\ phase' \in {"alloc", "run"}
        /\ visible' \subseteq Svs /\ dropped' \subseteq Svs /\ switched' \in BOOLEAN
    BY <1>2 DEF IInv, TypeOK
  <2>7. QED BY <2>1, <2>2, <2>4, <2>5, <2>6 DEF TypeOK
<1>5. TablesAgree'
  <2>1. ASSUME NEW s \in Svs, allocatedSat'[s] # -1
        PROVE  prn'[allocatedSat'[s]] = s + 1
    <3>1. CASE s = sv
      BY <1>1, <1>2, <1>3, <3>1
    <3>2. CASE s # sv
      <4>1. allocatedSat'[s] = allocatedSat[s] /\ allocatedSat[s] \in Chans
        BY <1>1, <1>2, <1>3, <2>1, <3>2
      <4>2. prn[allocatedSat[s]] = s + 1
        BY <2>1, <4>1 DEF IInv, TablesAgree
      <4>3. allocatedSat[s] # i
        BY <1>1, <4>2
      <4>4. QED BY <1>1, <1>3, <4>1, <4>2, <4>3
    <3>3. QED BY <3>1, <3>2
  <2>2. ASSUME NEW j \in Chans, prn'[j] # 0
        PROVE  allocatedSat'[prn'[j] - 1] = j
    <3>1. CASE j = i
      <4>1. prn'[j] = sv + 1
        BY <1>1, <1>3, <3>1
      <4>2. prn'[j] - 1 = sv
        BY <1>2, <4>1
      <4>3. allocatedSat'[sv] = i
        BY <1>1, <1>2, <1>3
      <4>4. QED BY <3>1, <4>2, <4>3
    <3>2. CASE j # i
      <4>1. prn'[j] = prn[j] /\ prn[j] - 1 \in Svs
        <5>1. prn'[j] = prn[j]
          BY <1>1, <1>3, <3>2
        <5>2. prn[j] \in 0 .. MaxSat /\ prn[j] # 0
          BY <1>3, <2>2, <5>1
        <5>3. QED BY <5>1, <5>2
      <4>2. allocatedSat[prn[j] - 1] = j
        BY <2>2, <4>1 DEF IInv, TablesAgree
      <4>3. prn[j] - 1 # sv
        BY <1>2, <4>2
      <4>4. QED BY <1>1, <1>3, <4>1, <4>2, <4>3
    <3>3. QED BY <3>1, <3>2
  <2>3. QED BY <2>1, <2>2 DEF TablesAgree
<1>6. Loop'
  <2>1. ASSUME NEW s \in Svs, s < sv'
        PROVE  /\ allocatedSat'[s] # -1 => s \in visible'
               /\ (s \in visible' /\ allocatedSat'[s] = -1 /\ dropped' = {}) =>
                    \A j \in Chans : prn'[j] # 0
    <3>1. CASE s = sv
      BY <1>1, <1>2, <1>3, <3>1
    <3>2. CASE s < sv
      BY <1>1, <1>2, <1>3, <3>2 DEF IInv, Loop
    <3>3. QED BY <1>2, <2>1, <3>1, <3>2
  <2>2. ASSUME NEW j \in Chans, prn'[j] # 0
        PROVE  /\ sbfSet'[j] = ieph'
               /\ dwrdSet'[j] = ieph' \/ (switched' /\ dwrdSet'[j] = ieph' - 1)
    BY <1>1, <1>2, <1>3, <1>t, <2>2 DEF IInv, Loop
  <2>3. phase' # "run"
    BY <1>2
  <2>4. QED BY <2>1, <2>2, <2>3 DEF Loop
<1>7. SetWasRead'
  BY <1>2 DEF IInv, SetWasRead
<1>8. QED BY <1>4, <1>5, <1>6, <1>7 DEF IInv

LEMMA DropKeepsIInv ==
  ASSUME IInv, Drop
  PROVE  IInv'
<1> DEFINE i == allocatedSat[sv]
<1>1. /\ phase = "alloc" /\ sv \in Svs /\ sv' = sv + 1
      /\ sv \notin visible /\ i \in Chans /\ prn[i] = sv + 1
      /\ prn' = [prn EXCEPT ![i] = 0]
      /\ allocatedSat' = [allocatedSat EXCEPT ![sv] = -1]
      /\ dropped' = dropped \cup {sv}
      /\ UNCHANGED <<ieph, sbfSet, dwrdSet, phase, visible, switched>>
  <2>1. /\ phase = "alloc" /\ sv \in Svs /\ sv' = sv + 1 /\ sv \notin visible
        /\ prn' = [prn EXCEPT ![i] = 0]
        /\ allocatedSat' = [allocatedSat EXCEPT ![sv] = -1]
        /\ dropped' = dropped \cup {sv}
        /\ UNCHANGED <<ieph, sbfSet, dwrdSet, phase, visible, switched>>
    BY DEF Drop, IInv, TypeOK
  <2>2. i \in -1 .. MaxChan - 1 /\ i >= 0
    BY <2>1 DEF Drop, IInv, TypeOK
  <2>3. prn[i] = sv + 1
    BY <2>1, <2>2 DEF IInv, TablesAgree
  <2>4. QED BY <2>1, <2>2, <2>3
<1>2. /\ prn \in [Chans -> 0 .. MaxSat]
      /\ allocatedSat \in [Svs -> -1 .. MaxChan - 1]
  BY DEF IInv, TypeOK
<1> HIDE DEF i
<1>3. TypeOK'
  <2>1. prn' \in [Chans -> 0 .. MaxSat]
    <3>1. 0 \in 0 .. MaxSat
      OBVIOUS
    <3>2. QED BY <1>1, <1>2, <3>1
  <2>2. allocatedSat' \in [Svs -> -1 .. MaxChan - 1]
    <3>1. -1 \in -1 .. MaxChan - 1
      OBVIOUS
    <3>2. QED BY <1>1, <1>2, <3>1
  <2>3. sv' \in 0 .. MaxSat
    BY <1>1
  <2>4. visible' \subseteq Svs /\ dropped' \subseteq Svs
    BY <1>1 DEF IInv, TypeOK
  <2>5. /\ ieph' \in 0 .. ArraySets /\ phase' \in {"alloc", "run"} /\ switched' \in BOOLEAN
        /\ sbfSet' \in [Chans -> -1 .. ArraySets]
        /\ dwrdSet' \in [Chans -> -1 .. ArraySets]
    BY <1>1 DEF IInv, TypeOK
  <2>6. QED BY <2>1, <2>2, <2>3, <2>4, <2>5 DEF TypeOK
<1>4. TablesAgree'
  <2>1. ASSUME NEW s \in Svs, allocatedSat'[s] # -1
        PROVE  prn'[allocatedSat'[s]] = s + 1
    <3>1. s # sv
      BY <1>1, <1>2, <2>1
    <3>2. allocatedSat'[s] = allocatedSat[s] /\ allocatedSat[s] \in Chans
      BY <1>1, <1>2, <2>1, <3>1
    <3>3. prn[allocatedSat[s]] = s + 1
      BY <2>1, <3>2 DEF IInv, TablesAgree
    <3>4. allocatedSat[s] # i
      BY <1>1, <3>1, <3>3
    <3>5. QED BY <1>1, <1>2, <3>2, <3>3, <3>4
  <2>2. ASSUME NEW j \in Chans, prn'[j] # 0
        PROVE  allocatedSat'[prn'[j] - 1] = j
    <3>1. j # i
      BY <1>1, <1>2, <2>2
    <3>2. prn'[j] = prn[j] /\ prn[j] - 1 \in Svs
      <4>1. prn'[j] = prn[j]
        BY <1>1, <1>2, <3>1
      <4>2. prn[j] \in 0 .. MaxSat /\ prn[j] # 0
        BY <1>2, <2>2, <4>1
      <4>3. QED BY <4>1, <4>2
    <3>3. allocatedSat[prn[j] - 1] = j
      BY <2>2, <3>2 DEF IInv, TablesAgree
    <3>4. prn[j] - 1 # sv
      BY <3>1, <3>3 DEF i
    <3>5. QED BY <1>1, <1>2, <3>2, <3>3, <3>4
  <2>3. QED BY <2>1, <2>2 DEF TablesAgree
<1>5. Loop'
  <2>1. dropped' # {} /\ phase' # "run"
    BY <1>1
  <2>2. ASSUME NEW s \in Svs, s < sv', allocatedSat'[s] # -1
        PROVE  s \in visible'
    <3>1. s # sv
      BY <1>1, <1>2, <2>2
    <3>2. QED BY <1>1, <1>2, <2>2, <3>1 DEF IInv, Loop
  <2>3. ASSUME NEW j \in Chans, prn'[j] # 0
        PROVE  prn[j] # 0
    BY <1>1, <1>2, <2>3
  <2>4. QED BY <1>1, <2>1, <2>2, <2>3 DEF IInv, Loop
<1>6. SetWasRead'
  BY <1>1 DEF IInv, SetWasRead
<1>7. QED BY <1>3, <1>4, <1>5, <1>6 DEF IInv

LEMMA PassOverKeepsIInv ==
  ASSUME IInv, PassOver
  PROVE  IInv'
<1>1. /\ phase = "alloc" /\ sv \in Svs /\ sv' = sv + 1
      /\ UNCHANGED <<prn, allocatedSat, ieph, sbfSet, dwrdSet, phase, visible,
                     dropped, switched>>
  BY DEF PassOver, IInv, TypeOK
<1>2. TypeOK' /\ TablesAgree'
  <2>1. TablesAgree'
    BY <1>1 DEF IInv, TablesAgree
  <2>2. sv' \in 0 .. MaxSat
    BY <1>1 DEF Svs
  <2>3. TypeOK'
    BY <1>1, <2>2 DEF IInv, TypeOK
  <2>4. QED BY <2>1, <2>3
<1>3. Loop'
  <2>1. /\ allocatedSat[sv] # -1 => sv \in visible
        /\ (sv \in visible /\ allocatedSat[sv] = -1) => \A i \in Chans : prn[i] # 0
    BY <1>1 DEF PassOver, IInv, TypeOK
  <2>2. ASSUME NEW s \in Svs, s < sv' PROVE s = sv \/ s < sv
    BY <1>1, <2>2
  <2>3. QED BY <1>1, <2>1, <2>2 DEF IInv, Loop
<1>4. SetWasRead'
  BY <1>1 DEF IInv, SetWasRead
<1>5. QED BY <1>2, <1>3, <1>4 DEF IInv

LEMMA RefreshKeepsIInv ==
  ASSUME IInv, Refresh
  PROVE  IInv'
<1>1. /\ phase' = "alloc" /\ sv' = 0 /\ dropped' = {}
      /\ visible' \in SUBSET Svs
      /\ UNCHANGED <<prn, allocatedSat>>
      /\ dwrdSet' = [i \in Chans |-> IF i \in Allocated THEN sbfSet[i] ELSE dwrdSet[i]]
      /\ KeepSet \/ TakeNextSet
  BY DEF Refresh, RenewWords
<1>2. /\ sbfSet \in [Chans -> -1 .. ArraySets]
      /\ dwrdSet \in [Chans -> -1 .. ArraySets]
      /\ ieph \in 0 .. ArraySets /\ switched \in BOOLEAN
  BY DEF IInv, TypeOK
<1>3. /\ ieph' \in 0 .. ArraySets /\ switched' \in BOOLEAN
      /\ sbfSet' \in [Chans -> -1 .. ArraySets]
  <2>1. CASE KeepSet
    BY <1>2, <2>1 DEF KeepSet
  <2>2. CASE TakeNextSet
    <3>1. ieph + 1 \in 0 .. ArraySets /\ ieph + 1 \in -1 .. ArraySets
      BY <1>2, <2>2 DEF TakeNextSet
    <3>2. ieph' \in 0 .. ArraySets /\ switched' \in BOOLEAN
      BY <2>2, <3>1 DEF TakeNextSet
    <3>3. \A i \in Chans : sbfSet[i] \in -1 .. ArraySets
      BY <1>2
    <3>4. sbfSet' \in [Chans -> -1 .. ArraySets]
      BY <2>2, <3>1, <3>3 DEF TakeNextSet
    <3>5. QED BY <3>2, <3>4
  <2>3. QED BY <1>1, <2>1, <2>2
<1>4. dwrdSet' \in [Chans -> -1 .. ArraySets]
  BY <1>1, <1>2
<1>5. TypeOK' /\ TablesAgree'
  <2>1. /\ prn' \in [Chans -> 0 .. MaxSat]
        /\ allocatedSat' \in [Svs -> -1 .. MaxChan - 1]
    BY <1>1 DEF IInv, TypeOK
  <2>2. phase' \in {"alloc", "run"} /\ sv' \in 0 .. MaxSat
    BY <1>1
  <2>3. visible' \subseteq Svs /\ dropped' \subseteq Svs
    BY <1>1
  <2>4. TypeOK'
    BY <1>3, <1>4, <2>1, <2>2, <2>3 DEF TypeOK
  <2>5. QED BY <1>1, <2>4 DEF IInv, TablesAgree
<1>6. Loop'
  <2>1. ASSUME NEW i \in Chans, prn[i] # 0
        PROVE  /\ sbfSet'[i] = ieph'
               /\ dwrdSet'[i] = ieph' \/ (switched' /\ dwrdSet'[i] = ieph' - 1)
    <3>1. dwrdSet'[i] = ieph /\ sbfSet[i] = ieph
      BY <1>1, <2>1 DEF Allocated, IInv, Loop
    <3>2. CASE KeepSet
      BY <3>1, <3>2 DEF KeepSet
    <3>3. CASE TakeNextSet
      BY <1>2, <2>1, <3>1, <3>3 DEF TakeNextSet, Allocated
    <3>4. QED BY <1>1, <3>2, <3>3
  <2>2. QED BY <1>1, <2>1 DEF Loop
<1>7. SetWasRead'
  <2>1. CASE KeepSet
    BY <2>1 DEF KeepSet, IInv, SetWasRead
  <2>2. CASE TakeNextSet
    BY <1>2, <2>2 DEF TakeNextSet, MayBeValid, IInv, SetWasRead
  <2>3. QED BY <1>1, <2>1, <2>2
<1>8. QED BY <1>5, <1>6, <1>7 DEF IInv

-----------------------------------------------------------------------------
(* The inductive invariant of the channel allocation.                      *)
THEOREM Invariance == Spec => []IInv
<1>1. Init => IInv
  BY InitIInv
<1>2. IInv /\ [Next]_vars => IInv'
  <2> SUFFICES ASSUME IInv, [Next]_vars PROVE IInv'
    OBVIOUS
  <2>1. CASE PassEnds
    <3>1. /\ sv = MaxSat /\ phase' = "run"
          /\ UNCHANGED <<prn, allocatedSat, ieph, sbfSet, dwrdSet, sv, visible,
                         dropped, switched>>
      BY <2>1 DEF PassEnds
    <3>2. TypeOK'
      BY <3>1 DEF IInv, TypeOK
    <3>3. TablesAgree' /\ Loop' /\ SetWasRead'
      BY <3>1 DEF IInv, TablesAgree, Loop, SetWasRead
    <3>4. QED BY <3>2, <3>3 DEF IInv
  <2>2. CASE UNCHANGED vars
    BY <2>2 DEF vars, IInv, TypeOK, TablesAgree, Loop, SetWasRead
  <2>3. QED
    BY <2>1, <2>2, AllocateKeepsIInv, DropKeepsIInv, PassOverKeepsIInv,
       RefreshKeepsIInv DEF Next
<1>3. QED BY <1>1, <1>2, PTL DEF Spec

(* The satellite and the channel table describe one partial matching, at   *)
(* every turn of the loop.                                                 *)
THEOREM TablesCorrect == Spec => []TablesAgree
<1>1. IInv => TablesAgree
  BY DEF IInv
<1>2. QED BY <1>1, Invariance, PTL

(* After a pass, no channel simulates a satellite out of view.             *)
THEOREM VisibilityCorrect == Spec => []OnlyVisibleSatellites
<1>1. IInv => OnlyVisibleSatellites
  <2> SUFFICES ASSUME IInv, phase = "run", NEW i \in Chans, prn[i] # 0
               PROVE  prn[i] - 1 \in visible
    BY DEF OnlyVisibleSatellites
  <2>1. prn[i] - 1 \in Svs /\ prn[i] - 1 < sv
    <3>1. prn \in [Chans -> 0 .. MaxSat]
      BY DEF IInv, TypeOK
    <3>2. sv = MaxSat
      BY DEF IInv, Loop
    <3>3. prn[i] \in 1 .. MaxSat
      BY <3>1
    <3>4. QED BY <3>2, <3>3
  <2>2. allocatedSat[prn[i] - 1] # -1
    BY DEF IInv, TablesAgree
  <2>3. QED BY <2>1, <2>2 DEF IInv, Loop
<1>2. QED BY <1>1, Invariance, PTL

(* A pass that takes no channel away leaves no satellite in view without a *)
(* channel while one is free.                                              *)
THEOREM UseCorrect == Spec => []ChannelsUsedUnlessDropped
<1>1. IInv => ChannelsUsedUnlessDropped
  <2> SUFFICES ASSUME IInv, phase = "run", dropped = {},
                      NEW s \in visible, allocatedSat[s] = -1
               PROVE  \A i \in Chans : prn[i] # 0
    BY DEF ChannelsUsedUnlessDropped
  <2>1. s \in Svs /\ s < sv
    BY DEF IInv, TypeOK, Loop
  <2>2. QED BY <2>1 DEF IInv, Loop
<1>2. QED BY <1>1, Invariance, PTL

(* The subframes of a channel in use are those of the current set.         *)
THEOREM SubframesCorrect == Spec => []SubframesCurrent
<1>1. IInv => SubframesCurrent
  BY DEF IInv, Loop, SubframesCurrent
<1>2. QED BY <1>1, Invariance, PTL

(* The words on the air are at most one refresh behind the current set,    *)
(* though words are made before subframes in the refresh that changes it.  *)
THEOREM WordsCorrect == Spec => []WordsOneRefreshBehind
<1>1. IInv => WordsOneRefreshBehind
  BY DEF IInv, Loop, WordsOneRefreshBehind
<1>2. QED BY <1>1, Invariance, PTL

(* No set is simulated that was not read, if the array has a spare set.    *)
THEOREM SetCorrect == Spec => []SetWasRead
<1>1. IInv => SetWasRead
  BY DEF IInv
<1>2. QED BY <1>1, Invariance, PTL

(* No step moves a satellite from one channel to another.                  *)
THEOREM NeverMovedCorrect == Spec => NeverMoved
<1>1. IInv /\ [Next]_vars =>
        [\A s \in Svs : (allocatedSat[s] # -1 /\ allocatedSat'[s] # -1) =>
                          allocatedSat'[s] = allocatedSat[s]]_vars
  BY DEF Next, Allocate, Drop, PassOver, PassEnds, Refresh, IInv, TypeOK
<1>2. QED BY <1>1, Invariance, PTL DEF Spec, NeverMoved

-----------------------------------------------------------------------------
(* The message of a channel, NavFrame; navPhase says where its loop is.    *)

HIDE SizesAssumption DEF Svs, Chans, Sets

(* Quotients and remainders.                                               *)
LEMMA Divided ==
  ASSUME NEW N \in Nat \ {0}, NEW q \in Int, NEW r \in 0 .. N - 1, NEW x, x = q * N + r
  PROVE  x % N = r /\ x \div N = q
  OBVIOUS

LEMMA Remainder ==
  ASSUME NEW N \in Nat \ {0}, NEW x \in Int
  PROVE  x % N \in 0 .. N - 1
  OBVIOUS

LEMMA Quotient ==
  ASSUME NEW N \in Nat \ {0}, NEW x \in Int
  PROVE  x \div N \in Int /\ x = (x \div N) * N + (x % N)
<1>1. x \div N \in Int
  OBVIOUS
<1>2. x = (x \div N) * N + (x % N)
  OBVIOUS
<1>3. QED BY <1>1, <1>2

LEMMA QuotientNat ==
  ASSUME NEW N \in Nat \ {0}, NEW x \in Nat
  PROVE  x \div N \in Nat
  OBVIOUS

LEMMA Parts ==
  ASSUME NEW N \in Nat \ {0}, NEW x \in Nat
  PROVE  \E a \in Nat : x = a * N + (x % N)
<1>1. x \div N \in Nat
  BY QuotientNat
<1>2. x = (x \div N) * N + (x % N)
  BY Quotient
<1>3. PICK a : a = x \div N
  OBVIOUS
<1>4. a \in Nat /\ x = a * N + (x % N)
  BY <1>1, <1>2, <1>3
<1>5. QED BY <1>4

LEMMA Multiple ==
  ASSUME NEW N \in Nat \ {0}, NEW x \in Nat, x % N = 0
  PROVE  \E a \in Nat : x = a * N
<1>1. PICK a \in Nat : x = a * N + (x % N)
  BY Parts
<1>2. x = a * N + 0 /\ a * N \in Nat
  BY <1>1
<1>3. x = a * N
  BY <1>2
<1>4. QED BY <1>3

(* A place c of size N that begins inside b of them is one of the b.       *)
LEMMA Inside ==
  ASSUME NEW N \in Nat \ {0}, NEW c \in Int, NEW b \in Int, c * N < b * N
  PROVE  c <= b - 1 /\ c * N <= b * N - N
<1>1. c <= b - 1
  <2>1. SUFFICES ASSUME c >= b PROVE FALSE
    OBVIOUS
  <2>2. PICK e \in Nat : c = b + e
    <3>1. c - b \in Nat /\ c = b + (c - b)
      BY <2>1
    <3>2. QED BY <3>1
  <2>3. e * N \in Nat /\ c * N = b * N + e * N
    BY <2>2
  <2>4. QED BY <2>3
<1>2. c * N <= b * N - N
  <2>1. PICK e \in Nat : b = c + 1 + e
    <3>1. b - c - 1 \in Nat /\ b = c + 1 + (b - c - 1)
      BY <1>1
    <3>2. QED BY <3>1
  <2>2. e * N \in Nat /\ b * N = c * N + N + e * N
    BY <2>1
  <2>3. c * N \in Int
    OBVIOUS
  <2>4. QED BY <2>2, <2>3
<1>3. QED BY <1>1, <1>2

(* The number c * N + v lies in the c-th of b places.                      *)
LEMMA PlaceOf ==
  ASSUME NEW N \in Nat \ {0}, NEW c \in Int, NEW b \in Int, NEW v \in 0 .. N - 1,
         0 <= c * N + v, c * N + v < b * N
  PROVE  c \in 0 .. b - 1
<1>1. c * N \in Int /\ b * N \in Int /\ c * N < b * N
  OBVIOUS
<1>2. c <= b - 1
  BY <1>1, Inside
<1>3. 0 <= c
  <2>1. (-1) * N < c * N
    BY <1>1
  <2>2. -1 <= c - 1
    BY <2>1, Inside
  <2>3. QED BY <2>2
<1>4. QED BY <1>2, <1>3

(* What FrameAssumption says of the sizes and their products.              *)
NavSizes ==
  /\ NSbf \in Nat /\ NSbf >= 2 /\ NDwrdSbf \in Nat /\ NDwrdSbf >= 3
  /\ TicksPerWord \in Nat \ {0} /\ UnitsPerTick \in Nat /\ UnitsPerTick >= 2
  /\ HalfSecond \in Nat \ {0} /\ FramesPerWeek \in Nat \ {0}
  /\ WeekModulus \in Nat \ {0}
  /\ SubframeTicks \in Nat \ {0} /\ FrameTicks \in Nat \ {0}
  /\ FrameTicks = NSbf * SubframeTicks
  /\ WeekTicks \in Nat \ {0} /\ WeekTicks = FramesPerWeek * FrameTicks
  /\ SubframesPerWeek \in Nat \ {0} /\ SubframesPerWeek = FramesPerWeek * NSbf
  /\ UnitsPerWord \in Nat \ {0}
  /\ SubframeTicks * UnitsPerTick = NDwrdSbf * UnitsPerWord
  /\ FrameTicks % (2 * HalfSecond) = 0

LEMMA Sizes ==
  ASSUME FrameAssumption
  PROVE  NavSizes
<1>1. /\ NSbf \in Nat /\ NSbf >= 2 /\ NDwrdSbf \in Nat /\ NDwrdSbf >= 3
      /\ TicksPerWord \in Nat \ {0} /\ UnitsPerTick \in Nat /\ UnitsPerTick >= 2
      /\ HalfSecond \in Nat \ {0} /\ FramesPerWeek \in Nat \ {0}
      /\ WeekModulus \in Nat \ {0}
  BY DEF FrameAssumption
<1>2. \A a, b \in Nat \ {0} : a * b \in Nat \ {0}
  OBVIOUS
<1>3. SubframeTicks \in Nat \ {0}
  BY <1>1, <1>2 DEF SubframeTicks
<1>4. FrameTicks \in Nat \ {0} /\ FrameTicks = NSbf * SubframeTicks
  BY <1>1, <1>2, <1>3 DEF FrameTicks
<1>5. WeekTicks \in Nat \ {0} /\ WeekTicks = FramesPerWeek * FrameTicks
  BY <1>1, <1>2, <1>4 DEF WeekTicks
<1>6. SubframesPerWeek \in Nat \ {0} /\ SubframesPerWeek = FramesPerWeek * NSbf
  BY <1>1, <1>2 DEF SubframesPerWeek
<1>7. UnitsPerWord \in Nat \ {0}
  BY <1>1, <1>2 DEF UnitsPerWord
<1>8. SubframeTicks * UnitsPerTick = NDwrdSbf * UnitsPerWord
  BY <1>1 DEF SubframeTicks, UnitsPerWord
<1>9. FrameTicks % (2 * HalfSecond) = 0
  <2>1. FrameTicks = NSbf * NDwrdSbf * TicksPerWord
    BY <1>1 DEF FrameTicks, SubframeTicks
  <2>2. QED BY <2>1 DEF FrameAssumption
<1>10. QED BY <1>1, <1>3, <1>4, <1>5, <1>6, <1>7, <1>8, <1>9 DEF NavSizes

(* The week of frame n, and its place there.                               *)
LEMMA Weeks ==
  ASSUME NavSizes, NEW n \in Nat
  PROVE  /\ n \div FramesPerWeek \in Nat /\ n % FramesPerWeek \in 0 .. FramesPerWeek - 1
         /\ n = (n \div FramesPerWeek) * FramesPerWeek + (n % FramesPerWeek)
<1>1. FramesPerWeek \in Nat \ {0}
  BY DEF NavSizes
<1>2. n \div FramesPerWeek \in Nat
  BY <1>1, QuotientNat
<1>3. n % FramesPerWeek \in 0 .. FramesPerWeek - 1
  BY <1>1, Remainder
<1>4. n = (n \div FramesPerWeek) * FramesPerWeek + (n % FramesPerWeek)
  BY <1>1, Quotient
<1>5. QED BY <1>2, <1>3, <1>4

(* The second of the week of a moment in frame n, r ticks into it.         *)
LEMMA Clock ==
  ASSUME NavSizes, NEW n \in Nat, NEW r \in 0 .. FrameTicks - 1,
         NEW t, t = n * FrameTicks + r
  PROVE  /\ Week(t) = n \div FramesPerWeek
         /\ Sec(t) = (n % FramesPerWeek) * FrameTicks + r
<1> DEFINE F == FrameTicks
           P == FramesPerWeek
           q == n \div P
           k == n % P
<1>1. F \in Nat \ {0} /\ P \in Nat \ {0} /\ WeekTicks \in Nat \ {0}
      /\ WeekTicks = P * F
  BY DEF NavSizes
<1>2. q \in Nat /\ k \in 0 .. P - 1 /\ n = q * P + k
  BY Weeks
<1>3. r \in 0 .. F - 1 /\ t = n * F + r
  OBVIOUS
<1> SUFFICES Week(t) = q /\ Sec(t) = k * F + r
  OBVIOUS
<1> HIDE DEF F, P, q, k
<1>4. t = q * (P * F) + (k * F + r)
  BY <1>1, <1>2, <1>3
<1>5. k * F + r \in 0 .. (P * F) - 1
  <2>1. k * F \in Nat /\ P * F \in Nat /\ P - 1 - k \in Nat
    BY <1>1, <1>2
  <2>2. k * F <= P * F - F
    <3>1. (P - 1 - k) * F \in Nat /\ (P - 1 - k) * F = P * F - F - k * F
      BY <1>1, <1>2, <2>1
    <3>2. QED BY <1>1, <2>1, <3>1
  <2>3. QED BY <1>1, <1>3, <2>1, <2>2
<1>6. t % WeekTicks = k * F + r /\ t \div WeekTicks = q
  <2>1. PICK W, m : W = P * F /\ m = k * F + r
    OBVIOUS
  <2>2. W \in Nat \ {0} /\ q \in Int /\ m \in 0 .. W - 1 /\ t = q * W + m
    BY <1>1, <1>2, <1>4, <1>5, <2>1
  <2>3. t % W = m /\ t \div W = q
    BY <2>2, Divided
  <2>4. QED BY <1>1, <2>1, <2>3
<1>7. QED BY <1>6 DEF Week, Sec

(* generateNavMsg() finds the start of the frame, as long as rounding does *)
(* not reach the next one, its count and its week.                         *)
LEMMA FrameFound ==
  ASSUME NavSizes, NEW n \in Nat, NEW r \in 0 .. FrameTicks - 1,
         NEW t, t = n * FrameTicks + r, r + HalfSecond < FrameTicks
  PROVE  /\ AlignToFrame(t) = n * FrameTicks
         /\ FirstTow(t) = (n % FramesPerWeek) * NSbf
         /\ Wn(t) = (n \div FramesPerWeek) % WeekModulus
<1> DEFINE F == FrameTicks
           S == SubframeTicks
           P == FramesPerWeek
           q == n \div P
           k == n % P
<1>1. /\ F \in Nat \ {0} /\ P \in Nat \ {0} /\ S \in Nat \ {0} /\ F = NSbf * S
      /\ WeekTicks = P * F /\ HalfSecond \in Nat \ {0} /\ NSbf \in Nat
  BY DEF NavSizes
<1>2. q \in Nat /\ k \in Nat /\ n = q * P + k
  <2>1. q \in Nat /\ k \in 0 .. P - 1 /\ n = q * P + k
    BY Weeks
  <2>2. QED BY <1>1, <2>1
<1>3. Week(t) = q /\ Sec(t) = k * F + r
  BY Clock
<1>4. 0 \in 0 .. F - 1 /\ r + HalfSecond \in 0 .. F - 1 /\ n * F = n * F + 0
  BY <1>1
<1>5. Week(n * F) = q /\ Sec(n * F) = k * F
  <2>1. Week(n * F) = q /\ Sec(n * F) = k * F + 0
    BY <1>4, Clock
  <2>2. k * F + 0 = k * F
    BY <1>1, <1>2
  <2>3. QED BY <2>1, <2>2
<1> HIDE DEF F, S, P, q, k
<1>6. (Sec(t) + HalfSecond) \div F = k
  <2>1. Sec(t) + HalfSecond = k * F + (r + HalfSecond)
    BY <1>1, <1>2, <1>3, <1>4 DEF F
  <2>2. QED BY <1>1, <1>2, <1>4, <2>1, Divided
<1>7. AlignToFrame(t) = n * F
  <2>1. AlignToFrame(t) = q * (P * F) + k * F
    BY <1>1, <1>3, <1>6 DEF AlignToFrame, F
  <2>2. QED BY <1>1, <1>2, <2>1
<1>8. FirstTow(t) = k * NSbf
  <2>1. k * F = (k * NSbf) * S + 0 /\ 0 \in 0 .. S - 1 /\ k * NSbf \in Int
    BY <1>1, <1>2
  <2>2. (k * F) \div S = k * NSbf
    BY <1>1, <2>1, Divided
  <2>3. QED BY <1>5, <1>7, <2>2 DEF FirstTow, S
<1>9. Wn(t) = q % WeekModulus
  BY <1>5, <1>7 DEF Wn
<1>10. QED BY <1>7, <1>8, <1>9 DEF F, P, q, k

(* The refresh comes when a frame begins.                                  *)
LEMMA DueAtFrame ==
  ASSUME NavSizes, grx \in Nat, Due
  PROVE  \E n \in Nat : grx = n * FrameTicks
<1> DEFINE F == FrameTicks
           W == WeekTicks
<1>1. F \in Nat \ {0} /\ FramesPerWeek \in Nat /\ W \in Nat \ {0} /\ W = FramesPerWeek * F
  BY DEF NavSizes
<1>2. (grx % W) % F = 0
  BY DEF Due, Sec
<1> HIDE DEF F, W
<1>3. PICK m : m = grx % W
  OBVIOUS
<1>4. m \in Nat
  <2>1. grx % W \in 0 .. W - 1
    <3>1. grx \in Int
      OBVIOUS
    <3>2. QED BY <1>1, <3>1, Remainder
  <2>2. QED BY <1>1, <1>3, <2>1
<1>5. PICK b \in Nat : m = b * F
  BY <1>1, <1>2, <1>3, <1>4, Multiple
<1>6. PICK a \in Nat : grx = a * W + m
  BY <1>1, <1>3, Parts
<1>7. a * FramesPerWeek + b \in Nat /\ grx = (a * FramesPerWeek + b) * F
  BY <1>1, <1>5, <1>6
<1>8. QED BY <1>7 DEF F

(* A frame is longer than the second to which its start is rounded.        *)
LEMMA Rounding ==
  ASSUME NavSizes
  PROVE  /\ HalfSecond < FrameTicks
         /\ \A n \in Nat, r \in 0 .. FrameTicks - 1 :
              (n * FrameTicks + r) % (2 * HalfSecond) = 0
                => r + HalfSecond < FrameTicks
<1> DEFINE F == FrameTicks
           H == 2 * HalfSecond
<1>1. F \in Nat \ {0} /\ HalfSecond \in Nat \ {0} /\ F % H = 0 /\ H \in Nat \ {0}
  BY DEF NavSizes
<1>2. HalfSecond < H
  BY <1>1
<1>3. PICK b \in Nat : F = b * H
  <2> HIDE DEF F, H
  <2>1. QED BY <1>1, Multiple
<1>4. ASSUME NEW n \in Nat, NEW r \in 0 .. F - 1, (n * F + r) % H = 0
      PROVE  r <= F - H
  <2> HIDE DEF F, H
  <2>1. n * F + r \in Nat
    BY <1>1
  <2>2. PICK a \in Nat : n * F + r = a * H
    BY <1>1, <1>4, <2>1, Multiple
  <2>3. PICK c \in Int : c = a - n * b
    OBVIOUS
  <2>4. r = c * H
    BY <1>1, <1>3, <2>2, <2>3
  <2>5. c * H < b * H
    BY <1>1, <1>3, <2>4
  <2>6. c * H <= b * H - H
    BY <1>1, <2>5, Inside
  <2>7. QED BY <1>3, <2>4, <2>6
<1>5. H <= F
  <2> HIDE DEF F, H
  <2>1. b # 0
    BY <1>1, <1>3
  <2>2. (b - 1) * H \in Nat /\ b * H = (b - 1) * H + H
    BY <1>1, <2>1
  <2>3. QED BY <1>1, <1>3, <2>2
<1>6. HalfSecond < F
  BY <1>1, <1>2, <1>5
<1>7. ASSUME NEW n \in Nat, NEW r \in 0 .. F - 1, (n * F + r) % H = 0
      PROVE  r + HalfSecond < F
  <2>1. r <= F - H
    BY <1>4, <1>7
  <2> HIDE DEF F, H
  <2>2. QED BY <1>1, <1>2, <2>1
<1>8. QED BY <1>6, <1>7

LEMMA SameRemainder ==
  ASSUME NEW N \in Nat \ {0}, NEW q \in Int, NEW y \in Int, NEW x, x = q * N + y
  PROVE  x % N = y % N
<1>1. y \div N \in Int /\ y = (y \div N) * N + (y % N)
  BY Quotient
<1>2. PICK b, c : b = y \div N /\ c = y % N
  OBVIOUS
<1>3. y % N \in 0 .. N - 1
  BY Remainder
<1>4. b \in Int /\ c \in 0 .. N - 1 /\ y = b * N + c
  BY <1>1, <1>2, <1>3
<1>5. q + b \in Int /\ x = (q + b) * N + c
  BY <1>4
<1>6. x % N = c
  BY <1>4, <1>5, Divided
<1>7. QED BY <1>2, <1>6

(* Word r of subframe i has its place in the buffer.                       *)
LEMMA WordPlace ==
  ASSUME NavSizes, NEW i \in 0 .. NSbf, NEW r \in 0 .. NDwrdSbf - 1,
         NEW k, k = i * NDwrdSbf + r
  PROVE  /\ k \in 0 .. NDwrd - 1 /\ (k < NDwrdSbf <=> i = 0)
         /\ k \div NDwrdSbf = i /\ k % NDwrdSbf = r
<1>1. NDwrdSbf \in Nat \ {0} /\ NSbf \in Nat
  BY DEF NavSizes
<1>2. k \div NDwrdSbf = i /\ k % NDwrdSbf = r
  BY <1>1, Divided
<1>3. k < NDwrdSbf <=> i = 0
  <2>1. i # 0 => i * NDwrdSbf >= NDwrdSbf
    <3>1. ASSUME i # 0 PROVE i * NDwrdSbf >= NDwrdSbf
      <4>1. (i - 1) * NDwrdSbf \in Nat /\ i * NDwrdSbf = (i - 1) * NDwrdSbf + NDwrdSbf
        BY <1>1, <3>1
      <4>2. QED BY <1>1, <4>1
    <3>2. QED BY <3>1
  <2>2. i = 0 => k = r
    BY <1>1
  <2>3. i * NDwrdSbf \in Nat
    BY <1>1
  <2>4. QED BY <1>1, <2>1, <2>2, <2>3
<1>4. k \in 0 .. NDwrd - 1
  <2>1. (NSbf - i) * NDwrdSbf \in Nat /\ i * NDwrdSbf \in Nat
    BY <1>1
  <2>2. NDwrd = i * NDwrdSbf + (NSbf - i) * NDwrdSbf + NDwrdSbf
    BY <1>1 DEF NDwrd
  <2>3. QED BY <1>1, <2>1, <2>2
<1>5. QED BY <1>2, <1>3, <1>4

(* The counts of a frame do not go beyond the week.                        *)
LEMMA CountInWeek ==
  ASSUME NavSizes, NEW n \in Nat, NEW i \in 0 .. NSbf
  PROVE  (n % FramesPerWeek) * NSbf + i \in 0 .. SubframesPerWeek
<1>1. PICK k, P : k = n % FramesPerWeek /\ P = FramesPerWeek
  OBVIOUS
<1>2. /\ P \in Nat \ {0} /\ NSbf \in Nat /\ NSbf >= 2
      /\ SubframesPerWeek = P * NSbf
  BY <1>1 DEF NavSizes
<1>3. k \in 0 .. P - 1
  BY <1>1, <1>2, Remainder
<1>4. (P - 1 - k) * NSbf \in Nat /\ (P - 1 - k) * NSbf = P * NSbf - NSbf - k * NSbf
  BY <1>2, <1>3
<1>5. k * NSbf \in Nat /\ P * NSbf \in Nat
  BY <1>2, <1>3
<1>6. k * NSbf + i \in 0 .. P * NSbf
  BY <1>2, <1>4, <1>5
<1>7. QED BY <1>1, <1>2, <1>6

(* generateNavMsg() fills the buffer with frame n, behind a subframe that  *)
(* is the last of the frame before.                                        *)
LEMMA MessageHolds ==
  ASSUME NavSizes, NEW n \in Nat, NEW t, NEW last,
         FirstTow(t) = (n % FramesPerWeek) * NSbf,
         Wn(t) = (n \div FramesPerWeek) % WeekModulus,
         \A r \in 0 .. NDwrdSbf - 1 :
           /\ last[r].isbf = NSbf - 1 /\ last[r].iwrd = r
           /\ r = 1 => /\ last[r].tow \in 0 .. SubframesPerWeek
                       /\ last[r].tow % SubframesPerWeek = (n * NSbf) % SubframesPerWeek
  PROVE  Holds(Message(t, last), n)
<1>1. NDwrdSbf \in Nat \ {0} /\ NSbf \in Nat /\ NSbf >= 2
  BY DEF NavSizes
<1>2. SUFFICES
        ASSUME NEW i \in 0 .. NSbf, NEW r \in 0 .. NDwrdSbf - 1,
               NEW word, word = Message(t, last)[i * NDwrdSbf + r]
        PROVE  /\ word.isbf = (IF i = 0 THEN NSbf - 1 ELSE i - 1) /\ word.iwrd = r
               /\ r = 1 => /\ word.tow \in 0 .. SubframesPerWeek
                           /\ word.tow % SubframesPerWeek
                                = (n * NSbf + i) % SubframesPerWeek
               /\ (i = 1 /\ r = 2) => word.wn = (n \div FramesPerWeek) % WeekModulus
  BY DEF Holds
<1>3. PICK k : k = i * NDwrdSbf + r
  OBVIOUS
<1>4. /\ k \in 0 .. NDwrd - 1 /\ (k < NDwrdSbf <=> i = 0)
      /\ k \div NDwrdSbf = i /\ k % NDwrdSbf = r
  BY <1>3, WordPlace
<1>5. CASE i = 0
  <2>1. k = r
    BY <1>1, <1>3, <1>5
  <2>2. word = last[r]
    BY <1>2, <1>3, <1>4, <1>5, <2>1 DEF Message
  <2>3. n * NSbf + i = n * NSbf
    BY <1>1, <1>5
  <2>4. QED BY <1>5, <2>2, <2>3
<1>6. CASE i # 0
  <2>1. word = MakeWord(i - 1, r, FirstTow(t) + (i - 1) + 1, Wn(t))
    BY <1>2, <1>3, <1>4, <1>6 DEF Message
  <2>2. word.isbf = i - 1 /\ word.iwrd = r
    BY <2>1 DEF MakeWord
  <2>3. ASSUME r = 1
        PROVE  /\ word.tow \in 0 .. SubframesPerWeek
               /\ word.tow % SubframesPerWeek = (n * NSbf + i) % SubframesPerWeek
    <3>1. word.tow = (n % FramesPerWeek) * NSbf + (i - 1) + 1
      BY <2>1, <2>3 DEF MakeWord
    <3>2. PICK q, m : q = n \div FramesPerWeek /\ m = n % FramesPerWeek
      OBVIOUS
    <3>3. q \in Nat /\ m \in Nat /\ n = q * FramesPerWeek + m /\ FramesPerWeek \in Nat
      <4>1. /\ q \in Nat /\ m \in 0 .. FramesPerWeek - 1
            /\ n = q * FramesPerWeek + m
        BY <3>2, Weeks
      <4>2. FramesPerWeek \in Nat
        BY DEF NavSizes
      <4>3. QED BY <4>1, <4>2
    <3>4. PICK y \in Int : y = m * NSbf + i
      BY <1>1, <3>3
    <3>5. word.tow = y
      <4>1. word.tow = m * NSbf + (i - 1) + 1
        BY <3>1, <3>2
      <4>2. m * NSbf \in Int /\ i \in Int
        BY <1>1, <3>3
      <4>3. QED BY <3>4, <4>1, <4>2
    <3>6. n * NSbf + i = q * (FramesPerWeek * NSbf) + y
      BY <1>1, <3>3, <3>4
    <3>7. SubframesPerWeek \in Nat \ {0} /\ SubframesPerWeek = FramesPerWeek * NSbf
      BY DEF NavSizes
    <3>8. PICK x, N : x = n * NSbf + i /\ N = SubframesPerWeek
      OBVIOUS
    <3>9. x % N = y % N
      <4>1. N \in Nat \ {0} /\ q \in Int /\ x = q * N + y
        BY <3>3, <3>6, <3>7, <3>8
      <4>2. QED BY <4>1, SameRemainder
    <3>10. y \in 0 .. SubframesPerWeek
      BY <3>2, <3>4, CountInWeek
    <3>11. QED BY <3>5, <3>8, <3>9, <3>10
  <2>4. ASSUME i = 1, r = 2 PROVE word.wn = (n \div FramesPerWeek) % WeekModulus
    BY <2>1, <2>4 DEF MakeWord
  <2>5. QED BY <1>6, <2>2, <2>3, <2>4
<1>7. QED BY <1>5, <1>6

(* A new message, whose subframe 5 is made with it.                        *)
LEMMA InitialHolds ==
  ASSUME NavSizes, NEW n \in Nat, NEW t,
         FirstTow(t) = (n % FramesPerWeek) * NSbf,
         Wn(t) = (n \div FramesPerWeek) % WeekModulus
  PROVE  Holds(InitialMessage(t), n)
<1> DEFINE last == [k \in 0 .. NDwrdSbf - 1 |->
                      MakeWord(NSbf - 1, k, FirstTow(t), Wn(t))]
<1>1. InitialMessage(t) = Message(t, last)
  BY DEF InitialMessage
<1>2. \A r \in 0 .. NDwrdSbf - 1 :
        last[r].isbf = NSbf - 1 /\ last[r].iwrd = r /\ (r = 1 => last[r].tow = FirstTow(t))
  BY DEF MakeWord
<1>3. FirstTow(t) % SubframesPerWeek = (n * NSbf) % SubframesPerWeek
  <2>1. PICK q, m : q = n \div FramesPerWeek /\ m = n % FramesPerWeek
    OBVIOUS
  <2>2. /\ NSbf \in Nat /\ FramesPerWeek \in Nat
        /\ SubframesPerWeek \in Nat \ {0} /\ SubframesPerWeek = FramesPerWeek * NSbf
    BY DEF NavSizes
  <2>3. q \in Nat /\ m \in Nat /\ n = q * FramesPerWeek + m
    <3>1. q \in Nat /\ m \in 0 .. FramesPerWeek - 1 /\ n = q * FramesPerWeek + m
      BY <2>1, Weeks
    <3>2. QED BY <2>2, <3>1
  <2>4. PICK y \in Int : y = m * NSbf
    BY <2>2, <2>3
  <2>5. n * NSbf = q * (FramesPerWeek * NSbf) + y
    BY <2>2, <2>3, <2>4
  <2>6. PICK x, N : x = n * NSbf /\ N = SubframesPerWeek
    OBVIOUS
  <2>7. N \in Nat \ {0} /\ q \in Int /\ x = q * N + y
    BY <2>2, <2>3, <2>5, <2>6
  <2>8. x % N = y % N
    BY <2>7, SameRemainder
  <2>9. QED BY <2>1, <2>4, <2>6, <2>8
<1>4. FirstTow(t) \in 0 .. SubframesPerWeek
  <2>1. 0 \in 0 .. NSbf /\ \A k \in Nat : k * NSbf + 0 = k * NSbf
    BY DEF NavSizes
  <2>2. n % FramesPerWeek \in Nat
    BY Weeks DEF NavSizes
  <2>3. (n % FramesPerWeek) * NSbf + 0 \in 0 .. SubframesPerWeek
    BY <2>1, CountInWeek
  <2>4. QED BY <2>1, <2>2, <2>3
<1> HIDE DEF last
<1>5. QED BY <1>1, <1>2, <1>3, <1>4, MessageHolds

(* The message of the next frame, behind the last subframe of this one.    *)
LEMMA NextHolds ==
  ASSUME NavSizes, NEW n \in Nat, NEW t, Holds(dwrd, n),
         FirstTow(t) = ((n + 1) % FramesPerWeek) * NSbf,
         Wn(t) = ((n + 1) \div FramesPerWeek) % WeekModulus
  PROVE  Holds(NextMessage(t), n + 1)
<1>1. NDwrdSbf \in Nat \ {0} /\ NSbf \in Nat /\ NSbf >= 2
  BY DEF NavSizes
<1>2. PICK last : last = SavedSubframe5
  OBVIOUS
<1>3. \A r \in 0 .. NDwrdSbf - 1 : last[r] = dwrd[NSbf * NDwrdSbf + r]
  <2>1. NDwrdSbf * NSbf = NSbf * NDwrdSbf
    BY <1>1
  <2>2. QED BY <1>2, <2>1 DEF SavedSubframe5
<1>4. NextMessage(t) = Message(t, last)
  BY <1>2 DEF NextMessage
<1>5. (n + 1) * NSbf = n * NSbf + NSbf
  BY <1>1
<1>6. \A r \in 0 .. NDwrdSbf - 1 :
        /\ last[r].isbf = NSbf - 1 /\ last[r].iwrd = r
        /\ r = 1 => /\ last[r].tow \in 0 .. SubframesPerWeek
                    /\ last[r].tow % SubframesPerWeek
                         = ((n + 1) * NSbf) % SubframesPerWeek
  <2>1. NSbf \in 0 .. NSbf /\ NSbf # 0
    BY <1>1
  <2>2. QED BY <1>3, <1>5, <2>1 DEF Holds
<1>7. n + 1 \in Nat
  OBVIOUS
<1>8. QED BY <1>4, <1>6, <1>7, MessageHolds

(* The samples of a block come from the buffer, from the word that is due. *)
LEMMA BlockOnTime ==
  ASSUME NavSizes, NEW n \in Nat, grx \in Nat, InFrame(n), navPhase = "block",
         NEW delay \in Delays, NEW sent \in Sent(delay)
  PROVE  /\ sent.iword \in 0 .. NDwrd - 1
         /\ sent.word = dwrd[sent.iword]
         /\ \E i \in 0 .. NSbf, r \in 0 .. NDwrdSbf - 1 :
              /\ sent.iword = i * NDwrdSbf + r
              /\ (sent.at \div UnitsPerWord) \div NDwrdSbf = n * NSbf - 1 + i
              /\ (sent.at \div UnitsPerWord) % NDwrdSbf = r
<1> DEFINE S == SubframeTicks
           F == FrameTicks
           M == UnitsPerWord
           D == NDwrdSbf
           U == UnitsPerTick
           T == rho0.g - g0
<1>1. /\ S \in Nat \ {0} /\ F \in Nat \ {0} /\ M \in Nat \ {0} /\ D \in Nat \ {0}
      /\ U \in Nat /\ U >= 2 /\ NSbf \in Nat /\ F = NSbf * S /\ S * U = D * M
  BY DEF NavSizes
<1>2. /\ g0 = n * F /\ T \in 0 .. F - 1 /\ rho0.g = g0 + T
      /\ rho0.delay \in 1 .. U - 1 /\ delay \in 1 .. U - 1
  <2>1. /\ g0 = n * F /\ rho0.g - g0 \in 0 .. F - 1
        /\ rho0.delay \in 1 .. U - 1 /\ delay \in 1 .. U - 1
    BY DEF InFrame, Delays
  <2>2. rho0.g = grx - 1 /\ n * F \in Int
    BY <1>1 DEF InFrame
  <2>3. rho0.g = g0 + T
    BY <2>1, <2>2
  <2>4. QED BY <2>1, <2>3
<1>3. PICK j \in 0 .. BlockLength(delay) - 1 :
        sent = [at |-> rho0.g * U - rho0.delay + j,
                iword |-> (FirstUnit + j) \div M,
                word |-> IF (FirstUnit + j) \div M \in 0 .. NDwrd - 1
                           THEN dwrd[(FirstUnit + j) \div M] ELSE Garbage]
  BY DEF Sent
<1>4. PICK old, x : old = rho0.delay /\ x = FirstUnit + j
  OBVIOUS
<1>5. /\ x = (T + S) * U - old + j
      /\ j \in 0 .. U - delay + old - 1
      /\ sent.at = (g0 + T) * U - old + j
  <2>1. FirstUnit = (T + S) * U - old
    BY <1>4 DEF FirstUnit
  <2>2. BlockLength(delay) = U - (delay - old)
    BY <1>4 DEF BlockLength
  <2>3. U - (delay - old) - 1 = U - delay + old - 1
    BY <1>1, <1>2, <1>4
  <2>4. QED BY <1>2, <1>3, <1>4, <2>1, <2>2, <2>3
<1> HIDE DEF S, F, M, U, T
<1>6. x \in Nat /\ x < (F + S) * U /\ sent.at = (n * F - S) * U + x
  <2>1. T * U \in Nat /\ S * U \in Nat /\ S * U >= U /\ (T + S) * U = T * U + S * U
    <3>1. (S - 1) * U \in Nat /\ S * U = (S - 1) * U + U
      BY <1>1
    <3>2. T * U \in Nat /\ (T + S) * U = T * U + S * U
      BY <1>1, <1>2
    <3>3. QED BY <1>1, <3>1, <3>2
  <2>2. T * U + U <= F * U /\ F * U \in Nat /\ (F + S) * U = F * U + S * U
    <3>1. (F - 1 - T) * U \in Nat /\ F * U = (F - 1 - T) * U + T * U + U
      BY <1>1, <1>2
    <3>2. F * U \in Nat /\ (F + S) * U = F * U + S * U
      BY <1>1
    <3>3. QED BY <1>1, <2>1, <3>1, <3>2
  <2>3. old \in 1 .. U - 1 /\ delay \in 1 .. U - 1 /\ j \in Nat /\ j <= U - delay + old - 1
    BY <1>1, <1>2, <1>4, <1>5
  <2>4. x \in Nat /\ x < (F + S) * U
    BY <1>1, <1>5, <2>1, <2>2, <2>3
  <2>5. sent.at = (n * F - S) * U + x
    <3>1. g0 * U + T * U = (g0 + T) * U /\ g0 * U \in Int /\ g0 * U - S * U = (n * F - S) * U
      BY <1>1, <1>2
    <3>2. QED BY <1>5, <2>1, <2>3, <3>1
  <2>6. QED BY <2>4, <2>5
<1>7. PICK c \in Int, v \in 0 .. M - 1 : x = c * M + v /\ sent.iword = c
  <2>1. x \div M \in Int /\ x = (x \div M) * M + (x % M)
    BY <1>1, <1>6, Quotient
  <2>2. x % M \in 0 .. M - 1
    BY <1>1, <1>6, Remainder
  <2>3. sent.iword = x \div M
    BY <1>3, <1>4
  <2>4. PICK c, v : c = x \div M /\ v = x % M
    OBVIOUS
  <2>5. c \in Int /\ v \in 0 .. M - 1 /\ x = c * M + v /\ sent.iword = c
    BY <2>1, <2>2, <2>3, <2>4
  <2>6. QED BY <2>5
<1>8. c \in 0 .. (NSbf + 1) * D - 1
  <2>1. (F + S) * U = ((NSbf + 1) * D) * M
    <3>1. (F + S) * U = (NSbf + 1) * (S * U)
      BY <1>1
    <3>2. QED BY <1>1, <3>1
  <2>2. PICK b \in Int : b = (NSbf + 1) * D
    BY <1>1
  <2>3. 0 <= c * M + v /\ c * M + v < b * M
    BY <1>6, <1>7, <2>1, <2>2
  <2>4. c \in 0 .. b - 1
    BY <1>1, <2>3, PlaceOf
  <2>5. QED BY <2>2, <2>4
<1>9. sent.iword \in 0 .. NDwrd - 1 /\ sent.word = dwrd[sent.iword]
  <2>1. sent.iword \in 0 .. NDwrd - 1
    BY <1>7, <1>8 DEF NDwrd
  <2>2. QED BY <1>3, <2>1 DEF M
<1>10. PICK i \in Int, r \in 0 .. D - 1 : c = i * D + r
  <2>1. c \div D \in Int /\ c = (c \div D) * D + (c % D)
    BY <1>1, Quotient
  <2>2. c % D \in 0 .. D - 1
    BY <1>1, Remainder
  <2>3. PICK i, r : i = c \div D /\ r = c % D
    OBVIOUS
  <2>4. i \in Int /\ r \in 0 .. D - 1 /\ c = i * D + r
    BY <2>1, <2>2, <2>3
  <2>5. QED BY <2>4
<1>11. i \in 0 .. NSbf
  <2>1. PICK b \in Int : b = NSbf + 1
    BY <1>1
  <2>2. 0 <= i * D + r /\ i * D + r < b * D
    BY <1>1, <1>8, <1>10, <2>1
  <2>3. i \in 0 .. b - 1
    BY <1>1, <2>2, PlaceOf
  <2>4. QED BY <1>1, <2>1, <2>3
<1>12. PICK w \in Int : w = (n * NSbf - 1) * D + c
  BY <1>1
<1>13. sent.at \div M = w
  <2>1. (n * F - S) * U = ((n * NSbf - 1) * D) * M
    <3>1. (n * F - S) * U = (n * NSbf - 1) * (S * U)
      BY <1>1
    <3>2. QED BY <1>1, <3>1
  <2>2. sent.at = w * M + v
    BY <1>1, <1>6, <1>7, <1>12, <2>1
  <2>3. QED BY <1>1, <2>2, Divided
<1>14. w \div D = n * NSbf - 1 + i /\ w % D = r
  <2>1. PICK s \in Int : s = n * NSbf - 1 + i
    BY <1>1, <1>11
  <2>2. w = s * D + r
    BY <1>1, <1>10, <1>11, <1>12, <2>1
  <2>3. w \div D = s /\ w % D = r
    BY <1>1, <2>2, Divided
  <2>4. QED BY <2>1, <2>3
<1>15. QED BY <1>7, <1>9, <1>10, <1>11, <1>13, <1>14 DEF M, D

(* The i-th subframe of the buffer of frame n is the one that is due.      *)
LEMMA SubframeDue ==
  ASSUME NavSizes, NEW n \in Nat, NEW i \in 0 .. NSbf, NEW s, s = n * NSbf - 1 + i
  PROVE  /\ s % NSbf = (IF i = 0 THEN NSbf - 1 ELSE i - 1)
         /\ s + 1 = n * NSbf + i
         /\ i = 1 => s \div SubframesPerWeek = n \div FramesPerWeek
<1>1. /\ NSbf \in Nat /\ NSbf >= 2 /\ FramesPerWeek \in Nat \ {0}
      /\ SubframesPerWeek \in Nat \ {0} /\ SubframesPerWeek = FramesPerWeek * NSbf
  BY DEF NavSizes
<1>2. n * NSbf \in Nat /\ s + 1 = n * NSbf + i
  BY <1>1
<1>3. s % NSbf = (IF i = 0 THEN NSbf - 1 ELSE i - 1)
  <2>1. CASE i = 0
    <3>1. PICK x, q, r : x = s /\ q = n - 1 /\ r = NSbf - 1
      OBVIOUS
    <3>2. x = q * NSbf + r /\ r \in 0 .. NSbf - 1 /\ q \in Int /\ NSbf \in Nat \ {0}
      BY <1>1, <2>1, <3>1
    <3>3. x % NSbf = r
      BY <3>2, Divided
    <3>4. QED BY <2>1, <3>1, <3>3
  <2>2. CASE i # 0
    <3>1. PICK x, r : x = s /\ r = i - 1
      OBVIOUS
    <3>2. x = n * NSbf + r /\ r \in 0 .. NSbf - 1 /\ NSbf \in Nat \ {0}
      BY <1>1, <1>2, <2>2, <3>1
    <3>3. x % NSbf = r
      BY <3>2, Divided
    <3>4. QED BY <2>2, <3>1, <3>3
  <2>3. QED BY <2>1, <2>2
<1>4. ASSUME i = 1 PROVE s \div SubframesPerWeek = n \div FramesPerWeek
  <2>1. PICK q, m, N : /\ q = n \div FramesPerWeek /\ m = n % FramesPerWeek
                       /\ N = SubframesPerWeek
    OBVIOUS
  <2>2. q \in Nat /\ m \in 0 .. FramesPerWeek - 1 /\ n = q * FramesPerWeek + m
    BY <2>1, Weeks
  <2>3. PICK y \in Int : y = m * NSbf
    BY <1>1, <2>2
  <2>4. y \in 0 .. N - 1
    <3>1. (FramesPerWeek - 1 - m) * NSbf \in Nat /\ m * NSbf \in Nat
      BY <1>1, <2>2
    <3>2. N = (FramesPerWeek - 1 - m) * NSbf + m * NSbf + NSbf
      BY <1>1, <2>1, <2>2
    <3>3. QED BY <1>1, <2>1, <2>3, <3>1, <3>2
  <2>5. s = q * N + y
    <3>1. s = n * NSbf
      BY <1>2, <1>4
    <3>2. n * NSbf = q * (FramesPerWeek * NSbf) + m * NSbf
      BY <1>1, <2>2
    <3>3. QED BY <1>1, <2>1, <2>3, <3>1, <3>2
  <2>6. s \div N = q
    <3>1. PICK x : x = s
      OBVIOUS
    <3>2. x = q * N + y /\ q \in Int
      BY <2>2, <2>5, <3>1
    <3>3. N \in Nat \ {0}
      BY <1>1, <2>1
    <3>4. x \div N = q
      BY <2>4, <3>2, <3>3, Divided
    <3>5. QED BY <3>1, <3>4
  <2>7. QED BY <2>1, <2>6
<1>5. QED BY <1>2, <1>3, <1>4

LEMMA BlockKeepsNav ==
  ASSUME NavSizes, NavIInv, Block
  PROVE  NavIInv'
<1>1. /\ navPhase = "block" /\ navPhase' = "refresh"
      /\ UNCHANGED <<grx, on, g0, dwrd>> /\ grx \in Nat /\ on \in BOOLEAN
  BY DEF Block, NavIInv
<1>2. CASE ~on
  <2>1. air' = {}
    BY <1>2 DEF Block
  <2>2. QED BY <1>1, <1>2, <2>1 DEF NavIInv, WordsOnTime, WordInBuffer
<1>3. CASE on
  <2>1. PICK n \in Nat : InFrame(n) /\ Holds(dwrd, n)
    BY <1>3 DEF NavIInv
  <2>2. PICK delay \in Delays :
          air' = Sent(delay) /\ rho0' = [g |-> grx, delay |-> delay]
    BY <1>3 DEF Block
  <2>3. ASSUME NEW a \in air', NEW due, due = WordAt(a.at)
        PROVE  /\ a.iword \in 0 .. NDwrd - 1
               /\ a.word.isbf = due.isbf /\ a.word.iwrd = due.iwrd
               /\ a.word.iwrd = 1 => /\ a.word.tow \in 0 .. SubframesPerWeek
                                     /\ a.word.tow % SubframesPerWeek = due.tow
               /\ (a.word.isbf = 0 /\ a.word.iwrd = 2) =>
                    a.word.wn = due.week % WeekModulus
    <3>1. a \in Sent(delay)
      BY <2>2
    <3>2. PICK w, s : w = a.at \div UnitsPerWord /\ s = w \div NDwrdSbf
      OBVIOUS
    <3>3. /\ a.iword \in 0 .. NDwrd - 1
          /\ a.word = dwrd[a.iword]
          /\ \E i \in 0 .. NSbf, r \in 0 .. NDwrdSbf - 1 :
               a.iword = i * NDwrdSbf + r /\ s = n * NSbf - 1 + i /\ w % NDwrdSbf = r
      BY <1>1, <2>1, <3>1, <3>2, BlockOnTime
    <3>4. PICK i \in 0 .. NSbf, r \in 0 .. NDwrdSbf - 1 :
            a.iword = i * NDwrdSbf + r /\ s = n * NSbf - 1 + i /\ w % NDwrdSbf = r
      BY <3>3
    <3>5. due = [isbf |-> s % NSbf, iwrd |-> r, tow |-> (s + 1) % SubframesPerWeek,
                 week |-> s \div SubframesPerWeek]
      BY <2>3, <3>2, <3>4 DEF WordAt
    <3>6. /\ s % NSbf = (IF i = 0 THEN NSbf - 1 ELSE i - 1)
          /\ s + 1 = n * NSbf + i
          /\ i = 1 => s \div SubframesPerWeek = n \div FramesPerWeek
      BY <3>4, SubframeDue
    <3>7. /\ a.word.isbf = (IF i = 0 THEN NSbf - 1 ELSE i - 1) /\ a.word.iwrd = r
          /\ r = 1 => /\ a.word.tow \in 0 .. SubframesPerWeek
                      /\ a.word.tow % SubframesPerWeek
                           = (n * NSbf + i) % SubframesPerWeek
          /\ (i = 1 /\ r = 2) => a.word.wn = (n \div FramesPerWeek) % WeekModulus
      BY <2>1, <3>3, <3>4 DEF Holds
    <3>8. a.word.isbf = 0 => i = 1
      <4>1. NSbf \in Nat /\ NSbf >= 2
        BY DEF NavSizes
      <4>2. QED BY <3>7, <4>1
    <3>9. due.isbf = s % NSbf /\ due.iwrd = r
      BY <3>5
    <3>10. due.tow = (n * NSbf + i) % SubframesPerWeek
      BY <3>5, <3>6
    <3>11. i = 1 => due.week = n \div FramesPerWeek
      BY <3>5, <3>6
    <3>12. QED BY <3>3, <3>6, <3>7, <3>8, <3>9, <3>10, <3>11
  <2>4. WordsOnTime'
    BY <2>3 DEF WordsOnTime, WordAt, UnitsPerWord, SubframesPerWeek
  <2>5. WordInBuffer'
    BY <2>3 DEF WordInBuffer, NDwrd
  <2>6. Holds(dwrd', n)
    BY <1>1, <2>1 DEF Holds
  <2>7. InFrame(n)'
    <3>1. /\ g0 = n * FrameTicks /\ rho0.g = grx - 1
          /\ rho0.g - g0 \in 0 .. FrameTicks - 1
      BY <1>1, <2>1 DEF InFrame
    <3>2. PICK f \in Nat, N \in Nat : f = FrameTicks /\ N = n * FrameTicks
      BY DEF NavSizes
    <3>3. grx - g0 \in 1 .. FrameTicks
      BY <1>1, <3>1, <3>2
    <3>4. rho0'.g = grx /\ rho0'.delay = delay
      BY <2>2
    <3>5. QED BY <1>1, <3>1, <3>3, <3>4 DEF InFrame
  <2>8. QED BY <1>1, <2>4, <2>5, <2>6, <2>7 DEF NavIInv
<1>4. QED BY <1>1, <1>2, <1>3

(* The refresh: the frame ends where the next one begins.                  *)
LEMMA RefreshKeepsNav ==
  ASSUME NavSizes, NavIInv,
         NotDue \/ Renew \/ Release \/ Assign \/ StayFree
  PROVE  NavIInv'
<1>1. /\ navPhase = "refresh" /\ navPhase' = "block"
      /\ grx' = grx + 1 /\ air' = air /\ grx \in Nat
      /\ on \in BOOLEAN /\ (UNCHANGED on \/ on' \in {TRUE, FALSE})
  BY DEF NotDue, Renew, Release, Assign, StayFree, NavIInv
<1>2. on' \in BOOLEAN
  BY <1>1
<1>3. WordsOnTime' /\ WordInBuffer'
  BY <1>1 DEF NavIInv, WordsOnTime, WordInBuffer
<1>4. PICK F \in Nat \ {0} : F = FrameTicks
  BY DEF NavSizes
<1>5. HalfSecond < F /\ 0 \in 0 .. F - 1 /\ HalfSecond \in Nat
  BY <1>4, Rounding DEF NavSizes
<1>6. ASSUME NEW m \in Nat, grx = m * F
      PROVE  /\ AlignToFrame(grx) = m * F
             /\ FirstTow(grx) = (m % FramesPerWeek) * NSbf
             /\ Wn(grx) = (m \div FramesPerWeek) % WeekModulus
  <2>1. grx = m * F + 0 /\ 0 + HalfSecond < F
    BY <1>1, <1>5, <1>6
  <2>2. QED BY <1>4, <1>5, <2>1, FrameFound
<1>7. SUFFICES ASSUME on' PROVE \E n \in Nat : InFrame(n)' /\ Holds(dwrd', n)
  BY <1>1, <1>2, <1>3 DEF NavIInv
<1>8. CASE NotDue
  <2>1. on /\ UNCHANGED <<g0, dwrd, rho0>>
    BY <1>7, <1>8 DEF NotDue
  <2>2. PICK n \in Nat : InFrame(n) /\ Holds(dwrd, n)
    BY <2>1 DEF NavIInv
  <2>3. rho0.g = grx /\ g0 = n * F /\ grx - g0 \in 1 .. F /\ rho0.delay \in Delays
    BY <1>1, <1>4, <2>2 DEF InFrame
  <2>4. grx - g0 # F
    <3>1. SUFFICES ASSUME grx = (n + 1) * F PROVE Due
      <4>1. grx = g0 + F => grx = (n + 1) * F
        BY <1>4, <2>3
      <4>2. g0 \in Int
        BY <1>4, <2>3
      <4>3. QED BY <1>1, <1>4, <1>8, <2>3, <3>1, <4>1, <4>2 DEF NotDue
    <3>2. grx = (n + 1) * F + 0 /\ n + 1 \in Nat
      BY <1>1, <3>1
    <3>3. Sec(grx) = ((n + 1) % FramesPerWeek) * F + 0
      BY <1>4, <1>5, <3>2, Clock
    <3>4. (n + 1) % FramesPerWeek \in 0 .. FramesPerWeek - 1 /\ FramesPerWeek \in Nat
      BY <3>2, Weeks DEF NavSizes
    <3>5. PICK k, x : k = (n + 1) % FramesPerWeek /\ x = Sec(grx)
      OBVIOUS
    <3>6. k \in Int /\ x = k * F + 0
      BY <3>3, <3>4, <3>5
    <3>7. x % F = 0
      BY <1>5, <3>6, Divided
    <3>8. QED BY <1>4, <3>5, <3>7 DEF Due
  <2>5. rho0'.g = grx' - 1 /\ rho0'.g - g0' \in 0 .. F - 1
    BY <1>1, <1>4, <2>1, <2>3, <2>4
  <2>6. InFrame(n)'
    BY <1>1, <1>4, <2>1, <2>3, <2>5 DEF InFrame
  <2>7. Holds(dwrd', n)
    BY <2>1, <2>2 DEF Holds
  <2>8. QED BY <2>6, <2>7
<1>9. CASE Renew
  <2>1. /\ on /\ Due /\ UNCHANGED rho0
        /\ g0' = AlignToFrame(grx) /\ dwrd' = NextMessage(grx)
    BY <1>9 DEF Renew
  <2>2. PICK n \in Nat : InFrame(n) /\ Holds(dwrd, n)
    BY <2>1 DEF NavIInv
  <2>3. rho0.g = grx /\ g0 = n * F /\ grx - g0 \in 1 .. F /\ rho0.delay \in Delays
    BY <1>1, <1>4, <2>2 DEF InFrame
  <2>4. PICK m \in Nat : grx = m * F
    BY <1>1, <1>4, <2>1, DueAtFrame
  <2>5. m = n + 1
    <3>1. n * F < m * F /\ m * F < (n + 2) * F
      BY <1>1, <1>4, <2>3, <2>4
    <3>2. n <= m - 1
      BY <1>4, <3>1, Inside
    <3>3. m <= (n + 2) - 1
      <4>1. PICK b \in Int : b = n + 2
        OBVIOUS
      <4>2. m <= b - 1
        BY <1>4, <3>1, <4>1, Inside
      <4>3. QED BY <4>1, <4>2
    <3>4. QED BY <3>2, <3>3
  <2>6. InFrame(n + 1)'
    <3>1. g0' = (n + 1) * F
      BY <1>6, <2>1, <2>4, <2>5
    <3>2. rho0'.g = grx' - 1 /\ rho0'.g - g0' = 0
      BY <1>1, <2>1, <2>3, <2>4, <2>5, <3>1
    <3>3. QED BY <1>1, <1>4, <1>5, <2>1, <2>3, <3>1, <3>2 DEF InFrame
  <2>7. Holds(dwrd', n + 1)
    <3>1. /\ FirstTow(grx) = ((n + 1) % FramesPerWeek) * NSbf
          /\ Wn(grx) = ((n + 1) \div FramesPerWeek) % WeekModulus
      BY <1>6, <2>4, <2>5
    <3>2. QED BY <2>1, <2>2, <3>1, NextHolds
  <2>8. QED BY <2>6, <2>7
<1>10. CASE Release \/ StayFree
  BY <1>7, <1>10 DEF Release, StayFree
<1>11. CASE Assign
  <2>1. /\ Due /\ g0' = AlignToFrame(grx) /\ dwrd' = InitialMessage(grx)
        /\ rho0'.g = grx /\ rho0'.delay \in Delays
    BY <1>11 DEF Assign
  <2>2. PICK m \in Nat : grx = m * F
    BY <1>1, <1>4, <2>1, DueAtFrame
  <2>3. InFrame(m)'
    <3>1. g0' = m * F
      BY <1>6, <2>1, <2>2
    <3>2. rho0'.g = grx' - 1 /\ rho0'.g - g0' = 0
      BY <1>1, <2>1, <2>2, <3>1
    <3>3. QED BY <1>1, <1>4, <1>5, <2>1, <3>1, <3>2 DEF InFrame
  <2>4. Holds(dwrd', m)
    BY <1>6, <2>1, <2>2, InitialHolds
  <2>5. QED BY <2>3, <2>4
<1>12. QED BY <1>8, <1>9, <1>10, <1>11

LEMMA InitNav ==
  ASSUME NavSizes, NavInit
  PROVE  NavIInv
<1>1. PICK start \in {t \in 0 .. WeekTicks - 1 : t % (2 * HalfSecond) = 0} :
        /\ grx = start + 1
        /\ g0 = AlignToFrame(start)
        /\ dwrd = InitialMessage(start)
        /\ rho0 \in [g : {start}, delay : Delays]
  BY DEF NavInit
<1>2. on \in BOOLEAN /\ navPhase = "block" /\ air = {}
  BY DEF NavInit
<1>3. start \in Nat /\ start % (2 * HalfSecond) = 0
  BY DEF NavSizes
<1>4. WordsOnTime /\ WordInBuffer
  BY <1>2 DEF WordsOnTime, WordInBuffer
<1>5. PICK F \in Nat \ {0} : F = FrameTicks
  BY DEF NavSizes
<1>6. PICK n \in Nat : start = n * F + (start % F)
  BY <1>3, <1>5, Parts
<1>7. PICK r \in 0 .. F - 1 : r = start % F
  <2>1. start % F \in 0 .. F - 1
    <3>1. start \in Int
      BY <1>3
    <3>2. QED BY <1>5, <3>1, Remainder
  <2>2. QED BY <2>1
<1>8. start = n * F + r
  BY <1>6, <1>7
<1>9. r + HalfSecond < F
  BY <1>3, <1>5, <1>8, Rounding
<1>10. /\ AlignToFrame(start) = n * F
       /\ FirstTow(start) = (n % FramesPerWeek) * NSbf
       /\ Wn(start) = (n \div FramesPerWeek) % WeekModulus
  BY <1>5, <1>8, <1>9, FrameFound
<1>11. InFrame(n)
  <2>1. rho0.g = grx - 1 /\ rho0.g - g0 = r
    BY <1>1, <1>3, <1>5, <1>8, <1>10
  <2>2. QED BY <1>1, <1>2, <1>5, <1>10, <2>1 DEF InFrame
<1>12. Holds(dwrd, n)
  BY <1>1, <1>10, InitialHolds
<1>13. QED BY <1>1, <1>2, <1>3, <1>4, <1>11, <1>12 DEF NavIInv

(* Whatever is done at a refresh, a channel in use is in step with the     *)
(* frames: its reference time is the start of a frame, its buffer holds the*)
(* words of that frame and its last pseudorange lies in it.                *)
THEOREM NavInvariance == NavSpec => []NavIInv
<1>1. NavSizes
  BY FrameAssumption, Sizes
<1>2. NavInit => NavIInv
  BY <1>1, InitNav
<1>3. NavIInv /\ [NavNext]_navVars => NavIInv'
  <2>1. SUFFICES ASSUME NavIInv, [NavNext]_navVars PROVE NavIInv'
    OBVIOUS
  <2>2. CASE NavNext
    BY <1>1, <2>1, <2>2, BlockKeepsNav, RefreshKeepsNav DEF NavNext
  <2>3. CASE UNCHANGED navVars
    BY <2>1, <2>3 DEF navVars, NavIInv, InFrame, Holds, WordsOnTime,
                      WordInBuffer
  <2>4. QED BY <2>1, <2>2, <2>3
<1>4. QED BY <1>2, <1>3, PTL DEF NavSpec

(* Every sample carries the word that is due when it leaves the satellite, *)
(* with the count of the next subframe and the number of the week          *)
(* (generateNavMsg and computeCodePhase together), for every length of     *)
(* words, subframes, frames and weeks, every step of the delay and every   *)
(* allocation of the channel.                                              *)
THEOREM WordsOnTimeCorrect == NavSpec => []WordsOnTime
<1>1. NavIInv => WordsOnTime
  BY DEF NavIInv
<1>2. QED BY <1>1, NavInvariance, PTL

(* The word counter never leaves the buffer, which a comment of the sample *)
(* loop warns of (gpssim.c:3573-3576): not in the last block before a      *)
(* refresh and not in the first one after it.                              *)
THEOREM WordInBufferCorrect == NavSpec => []WordInBuffer
<1>1. NavIInv => WordInBuffer
  BY DEF NavIInv
<1>2. QED BY <1>1, NavInvariance, PTL
=============================================================================
