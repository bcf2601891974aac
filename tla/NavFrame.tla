------------------------------ MODULE NavFrame ------------------------------
(***************************************************************************)
(* The navigation data of one simulated channel: the buffer dwrd of six    *)
(* subframes that generateNavMsg() fills, the bit counter that             *)
(* computeCodePhase() sets from the pseudorange at the start of every block*)
(* of 0.1 seconds, and the refresh of the buffer every 30 seconds, in the  *)
(* loop of the signal generators (runCore_realTime is the one mapped).     *)
(*                                                                         *)
(* Time is counted in ticks of 0.1 seconds from the start of week 0, and   *)
(* the signal in units, UnitsPerTick of them in a tick: the travel time of *)
(* the signal is less than a tick.  A data word is its place in the frame  *)
(* and the two things written into it: the TOW count of word 2 of each     *)
(* subframe, and the week number of word 3 of subframe 1.                  *)
(***************************************************************************)
EXTENDS Integers

CONSTANTS
  NSbf,           \* N_SBF: subframes in a frame
  NDwrdSbf,       \* N_DWRD_SBF: words in a subframe
  TicksPerWord,
  UnitsPerTick,
  HalfSecond,     \* ticks in half a second
  FramesPerWeek,
  WeekModulus,    \* the week number is sent modulo 1024
  LastTick        \* bound of the model: the duration of the scenario

ASSUME FrameAssumption ==
  /\ NSbf \in Nat /\ NSbf >= 2 /\ NDwrdSbf \in Nat /\ NDwrdSbf >= 3
  /\ TicksPerWord \in Nat \ {0} /\ UnitsPerTick \in Nat /\ UnitsPerTick >= 2
  /\ HalfSecond \in Nat \ {0}
  /\ (NSbf * NDwrdSbf * TicksPerWord) % (2 * HalfSecond) = 0   \* whole seconds
  /\ FramesPerWeek \in Nat \ {0} /\ WeekModulus \in Nat \ {0}
  /\ LastTick \in Nat

SubframeTicks == NDwrdSbf * TicksPerWord      \* 6 seconds
FrameTicks == NSbf * SubframeTicks            \* 30 seconds
WeekTicks == FramesPerWeek * FrameTicks
SubframesPerWeek == FramesPerWeek * NSbf
UnitsPerWord == TicksPerWord * UnitsPerTick
NDwrd == (NSbf + 1) * NDwrdSbf

Week(t) == t \div WeekTicks                   \* of a gpstime_t
Sec(t) == t % WeekTicks

Delays == 1 .. UnitsPerTick - 1

VARIABLES
  grx,    \* receiver time
  on,     \* the channel simulates a satellite (chan->prn > 0)
  g0,     \* chan->g0, the data bit reference time
  dwrd,   \* chan->dwrd
  rho0,   \* chan->rho0: time and delay of the last pseudorange
  navPhase,  \* where the loop is: "block", or "refresh" after the block
  air     \* what the channel sent in the last block: [at, iword, word]

navVars == <<grx, on, g0, dwrd, rho0, navPhase, air>>

-----------------------------------------------------------------------------
(* generateNavMsg().                                                       *)

(* The start of the frame, after rounding the seconds of the week.         *)
AlignToFrame(g) ==
  Week(g) * WeekTicks + ((Sec(g) + HalfSecond) \div FrameTicks) * FrameTicks

(* Mutant: the count goes on from week to week.                            *)
FirstTowOfRun(g) == AlignToFrame(g) \div SubframeTicks

FirstTow(g) == Sec(AlignToFrame(g)) \div SubframeTicks

Wn(g) == Week(AlignToFrame(g)) % WeekModulus

(* Word iwrd of subframe isbf.                                             *)
MakeWord(isbf, iwrd, tow, wn) ==
  [isbf |-> isbf, iwrd |-> iwrd,
   tow  |-> IF iwrd = 1 THEN tow ELSE 0,
   wn   |-> IF isbf = 0 /\ iwrd = 2 THEN wn ELSE 0]

(* The five subframes of the frame that begins, behind one of the frame    *)
(* before.                                                                 *)
Message(g, subframe5) ==
  [k \in 0 .. NDwrd - 1 |->
     IF k < NDwrdSbf THEN subframe5[k]
     ELSE LET isbf == k \div NDwrdSbf - 1
          IN MakeWord(isbf, k % NDwrdSbf, FirstTow(g) + isbf + 1, Wn(g))]

(* init = 1: subframe 5 of the frame before is made, too.                  *)
InitialMessage(g) ==
  Message(g, [k \in 0 .. NDwrdSbf - 1 |-> MakeWord(NSbf - 1, k, FirstTow(g), Wn(g))])

(* init = 0: subframe 5, still being sent when the new frame begins, is    *)
(* saved.                                                                  *)
SavedSubframe5 == [k \in 0 .. NDwrdSbf - 1 |-> dwrd[NDwrdSbf * NSbf + k]]

NextMessage(g) == Message(g, SavedSubframe5)

-----------------------------------------------------------------------------
(* computeCodePhase() and the samples of a block.                          *)

Garbage == [isbf |-> -1, iwrd |-> -1, tow |-> 0, wn |-> 0]   \* from outside dwrd

(* Mutant: the saved subframe in front of the frame is forgotten.          *)
PhaseWithoutSubframe5 == (rho0.g - g0) * UnitsPerTick - rho0.delay

(* The place in dwrd, in units, at the start of a block.                   *)
FirstUnit == (rho0.g - g0 + SubframeTicks) * UnitsPerTick - rho0.delay

(* With the new delay at its end, the block is longer or shorter by the    *)
(* change of the delay (f_code).                                           *)
BlockLength(delay) == UnitsPerTick - (delay - rho0.delay)

Sent(delay) ==
  {LET iword == (FirstUnit + j) \div UnitsPerWord
   IN [at |-> rho0.g * UnitsPerTick - rho0.delay + j,
       iword |-> iword,
       word |-> IF iword \in 0 .. NDwrd - 1 THEN dwrd[iword] ELSE Garbage] :
   j \in 0 .. BlockLength(delay) - 1}

NavInit ==
  /\ \E start \in {t \in 0 .. WeekTicks - 1 : t % (2 * HalfSecond) = 0} :
       /\ grx = start + 1
       /\ g0 = AlignToFrame(start)
       /\ dwrd = InitialMessage(start)
       /\ rho0 \in [g : {start}, delay : Delays]
  /\ on \in BOOLEAN
  /\ navPhase = "block"
  /\ air = {}

Block ==
  /\ navPhase = "block" /\ grx <= LastTick
  /\ navPhase' = "refresh"
  /\ \/ /\ on
        /\ \E delay \in Delays :
             /\ air' = Sent(delay)
             /\ rho0' = [g |-> grx, delay |-> delay]
     \/ /\ ~on
        /\ air' = {}
        /\ UNCHANGED rho0
  /\ UNCHANGED <<grx, on, g0, dwrd>>

-----------------------------------------------------------------------------
(* The end of the loop: the work of every 30 seconds, and the next tick.   *)

(* Mutant: an off-by-one in igrx.                                          *)
DueOneTickLate == Sec(grx) % FrameTicks = 1

Due == Sec(grx) % FrameTicks = 0

NotDue ==
  /\ navPhase = "refresh" /\ ~Due
  /\ navPhase' = "block" /\ grx' = grx + 1
  /\ UNCHANGED <<on, g0, dwrd, rho0, air>>

(* The satellite keeps the channel: the message is renewed.                *)
Renew ==
  /\ navPhase = "refresh" /\ Due /\ on
  /\ g0' = AlignToFrame(grx)
  /\ dwrd' = NextMessage(grx)
  /\ navPhase' = "block" /\ grx' = grx + 1
  /\ UNCHANGED <<on, rho0, air>>

(* The satellite has set: its message is renewed and the channel is free.  *)
Release ==
  /\ navPhase = "refresh" /\ Due /\ on
  /\ g0' = AlignToFrame(grx)
  /\ dwrd' = NextMessage(grx)
  /\ on' = FALSE
  /\ navPhase' = "block" /\ grx' = grx + 1
  /\ UNCHANGED <<rho0, air>>

(* A satellite gets the channel, that was free or is given up in this pass.*)
Assign ==
  /\ navPhase = "refresh" /\ Due
  /\ g0' = AlignToFrame(grx)
  /\ dwrd' = InitialMessage(grx)
  /\ rho0' \in [g : {grx}, delay : Delays]
  /\ on' = TRUE
  /\ navPhase' = "block" /\ grx' = grx + 1
  /\ UNCHANGED air

StayFree ==
  /\ navPhase = "refresh" /\ Due /\ ~on
  /\ navPhase' = "block" /\ grx' = grx + 1
  /\ UNCHANGED <<on, g0, dwrd, rho0, air>>

NavNext == Block \/ NotDue \/ Renew \/ Release \/ Assign \/ StayFree

NavSpec == NavInit /\ [][NavNext]_navVars

-----------------------------------------------------------------------------
Words == [isbf : 0 .. NSbf - 1, iwrd : 0 .. NDwrdSbf - 1,
          tow : 0 .. SubframesPerWeek, wn : 0 .. WeekModulus - 1]

NavTypeOK ==
  /\ grx \in 0 .. LastTick + 1
  /\ on \in BOOLEAN
  /\ g0 \in Nat /\ g0 % FrameTicks = 0
  /\ dwrd \in [0 .. NDwrd - 1 -> Words]
  /\ rho0 \in [g : Nat, delay : Delays]
  /\ navPhase \in {"block", "refresh"}

(* The warning left in a comment of the sample loop (gpssim.c:3573-3576):  *)
(* the word counter never leaves the buffer, however the delay changes in  *)
(* the last block before a refresh and in the first one after it.          *)
WordInBuffer == \A a \in air : a.iword \in 0 .. NDwrd - 1

(* What a satellite sends at a time, counted in units.                     *)
WordAt(t) ==
  LET w == t \div UnitsPerWord       \* words since the start of week 0
      s == w \div NDwrdSbf           \* subframes since then
  IN [isbf |-> s % NSbf, iwrd |-> w % NDwrdSbf,
      tow |-> (s + 1) % SubframesPerWeek, week |-> s \div SubframesPerWeek]

(* Every unit of the signal carries the word that is due at the time it    *)
(* left the satellite, with the count of the subframe that follows and with*)
(* the number of the week.  The count never goes beyond the week; in the   *)
(* last subframe of one it is 0 or, in the code as a rule, the number of   *)
(* subframes in a week.                                                    *)
WordsOnTime ==
  \A a \in air :
    LET due == WordAt(a.at)
    IN /\ a.word.isbf = due.isbf /\ a.word.iwrd = due.iwrd
       /\ a.word.iwrd = 1 => /\ a.word.tow \in 0 .. SubframesPerWeek
                             /\ a.word.tow % SubframesPerWeek = due.tow
       /\ (a.word.isbf = 0 /\ a.word.iwrd = 2) => a.word.wn = due.week % WeekModulus

(* The sanity check left in a comment of generateNavMsg, "Invalid TOW in   *)
(* subframe 5" (gpssim.c:1570-1577): the count in the saved subframe is    *)
(* that of the frame that begins.                                          *)
SavedTowIsValid == on => dwrd[1].tow = Sec(g0) \div SubframeTicks

-----------------------------------------------------------------------------
(* The inductive invariant behind WordsOnTime and WordInBuffer.            *)

(* The buffer holds frame n, counted from the start of week 0, and in front*)
(* of it the last subframe of the one before: word r of its i-th subframe  *)
(* is where it belongs.                                                    *)
Holds(words, n) ==
  \A i \in 0 .. NSbf, r \in 0 .. NDwrdSbf - 1 :
    LET word == words[i * NDwrdSbf + r]
    IN /\ word.isbf = (IF i = 0 THEN NSbf - 1 ELSE i - 1) /\ word.iwrd = r
       /\ r = 1 => /\ word.tow \in 0 .. SubframesPerWeek
                   /\ word.tow % SubframesPerWeek = (n * NSbf + i) % SubframesPerWeek
       /\ (i = 1 /\ r = 2) => word.wn = (n \div FramesPerWeek) % WeekModulus

(* A channel in use refers to the frame of its last pseudorange, until the *)
(* refresh at the frame's end.                                             *)
InFrame(n) ==
  /\ g0 = n * FrameTicks
  /\ rho0.delay \in Delays
  /\ navPhase = "block" => rho0.g = grx - 1 /\ rho0.g - g0 \in 0 .. FrameTicks - 1
  /\ navPhase = "refresh" => rho0.g = grx /\ grx - g0 \in 1 .. FrameTicks

NavIInv ==
  /\ grx \in Nat /\ navPhase \in {"block", "refresh"} /\ on \in BOOLEAN
  /\ on => \E n \in Nat : InFrame(n) /\ Holds(dwrd, n)
  /\ WordsOnTime /\ WordInBuffer
=============================================================================
