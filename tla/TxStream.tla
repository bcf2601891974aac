------------------------------ MODULE TxStream ------------------------------
(***************************************************************************)
(* What is behind LMS_SendStream: the application pushes samples into a    *)
(* ring of packets (RingFIFO), and a transmit thread of LimeSuite pops a   *)
(* packet's worth of them at a time and hands it to the USB device.  Both  *)
(* sides wait on one condition variable, with timeouts.  The thread ends   *)
(* itself when it finds too few samples, and the next write starts it anew.*)
(*                                                                         *)
(* The application is tx_task(), which plays a file: it starts the stream, *)
(* writes buffers and stops the stream (tx_task_realTime never stops it).  *)
(* A sample is its place among all samples written, and the samples of a   *)
(* packet are consecutive.  A timeout may come at any time.  The stream has*)
(* one channel and its samples have neither time stamps nor flags.         *)
(***************************************************************************)
EXTENDS Integers, Sequences, Functions

CONSTANTS
  PacketSize,   \* samples in a packet of the ring, and in one for the device
  FifoPackets,  \* mBufferSize: a power of two
  WriteSize,    \* samples in a write
  BuffersCount, \* transfers that may be under way
  NumWrites     \* bound of the model: writes before the stream is stopped

ASSUME StreamSizes ==
  /\ PacketSize \in Nat \ {0} /\ FifoPackets \in Nat \ {0}
  /\ WriteSize \in Nat \ {0} /\ BuffersCount \in Nat \ {0}
  /\ NumWrites \in Nat

VARIABLES
  slot, mHead, mTail, mElementsFilled,  \* RingFIFO; a slot is the rest of a packet
  fifoLock,                             \* the owner of its lock
  pcApp,
  written,      \* samples in the writes that have returned
  samplesTaken, \* of the write at work
  over,         \* its time is over
  mActive, txRunning, terminateTx,
  pcTx,
  hand,         \* samples popped and not yet handed over
  inflight,     \* packets the device has been given
  air,          \* samples the device has sent
  calm          \* neither side has given up waiting so far

fifoVars == <<slot, mHead, mTail, mElementsFilled>>
appVars  == <<written, samplesTaken, over>>
outVars  == <<inflight, air>>
vars == <<slot, mHead, mTail, mElementsFilled, fifoLock, pcApp, written, samplesTaken,
          over, mActive, txRunning, terminateTx, pcTx, hand, inflight, air, calm>>

Empty == [from |-> 0, to |-> 0]
Samples(s) == [k \in 1 .. s.to - s.from |-> s.from + k - 1]

Init ==
  /\ slot = [k \in 0 .. FifoPackets - 1 |-> Empty]
  /\ mHead = 0 /\ mTail = 0 /\ mElementsFilled = 0
  /\ fifoLock = "none"
  /\ pcApp = "start" /\ written = 0 /\ samplesTaken = 0 /\ over = FALSE
  /\ mActive = FALSE /\ txRunning = FALSE /\ terminateTx = FALSE
  /\ pcTx = "none" /\ hand = <<>>
  /\ inflight = <<>> /\ air = <<>>
  /\ calm = TRUE

-----------------------------------------------------------------------------
(* The application: LMS_StartStream, LMS_SendStream, LMS_StopStream.       *)

(* Start() of the channel, with an empty ring, and UpdateThreads().        *)
Start ==
  /\ pcApp = "start"
  /\ mHead' = 0 /\ mTail' = 0 /\ mElementsFilled' = 0
  /\ mActive' = TRUE /\ txRunning' = TRUE /\ terminateTx' = FALSE
  /\ pcTx' = "loop"
  /\ pcApp' = IF NumWrites > 0 THEN "write" ELSE "stop"
  /\ UNCHANGED <<slot, fifoLock, appVars, hand, outVars, calm>>

(* Write() looks whether the thread is running.                            *)
WriteTest ==
  /\ pcApp = "write"
  /\ pcApp' = IF txRunning THEN "lock" ELSE "update"
  /\ samplesTaken' = 0 /\ over' = FALSE
  /\ UNCHANGED <<fifoVars, fifoLock, written, mActive, txRunning, terminateTx, pcTx,
                 hand, outVars, calm>>

Created ==
  /\ txRunning' = TRUE /\ terminateTx' = FALSE
  /\ pcTx' = "loop"
  /\ pcApp' = "lock"
  /\ UNCHANGED <<fifoVars, fifoLock, appVars, mActive, hand, outVars, calm>>

(* Mutant: the thread that ended is not joined.                            *)
RestartWithoutJoin == pcApp = "update" /\ Created

(* UpdateThreads(): the thread that ended is joined, and a new one created.*)
Restart == pcApp = "update" /\ pcTx = "ended" /\ Created

(* push_samples().                                                         *)
PushLock ==
  /\ pcApp \in {"lock", "relock"} /\ fifoLock = "none"
  /\ fifoLock' = "app" /\ pcApp' = "push"
  /\ UNCHANGED <<fifoVars, appVars, mActive, txRunning, terminateTx, pcTx, hand,
                 outVars, calm>>

HasRoomForOneMore == mElementsFilled <= FifoPackets   \* mutant: off by one

HasRoom == mElementsFilled < FifoPackets

Smaller(a, b) == IF a < b THEN a ELSE b

PushPacket ==
  /\ pcApp = "push" /\ samplesTaken < WriteSize /\ HasRoom
  /\ LET cnt == Smaller(PacketSize, WriteSize - samplesTaken)
         from == written + samplesTaken
     IN /\ slot' = [slot EXCEPT ![mTail] = [from |-> from, to |-> from + cnt]]
        /\ samplesTaken' = samplesTaken + cnt
  /\ mTail' = (mTail + 1) % FifoPackets
  /\ mElementsFilled' = mElementsFilled + 1
  /\ UNCHANGED <<mHead, fifoLock, pcApp, written, over, mActive, txRunning, terminateTx,
                 pcTx, hand, outVars, calm>>

PushWait ==
  /\ pcApp = "push" /\ samplesTaken < WriteSize /\ ~HasRoom /\ ~over
  /\ fifoLock' = "none" /\ pcApp' = "asleep"
  /\ UNCHANGED <<fifoVars, appVars, mActive, txRunning, terminateTx, pcTx, hand,
                 outVars, calm>>

NextWrite ==
  /\ written' = written + WriteSize
  /\ pcApp' = IF written' < NumWrites * WriteSize THEN "write" ELSE "stop"
  /\ UNCHANGED <<samplesTaken, over>>

(* The time is over: the rest of the buffer is not pushed, and tx_task does*)
(* not look at the result.                                                 *)
PushGiveUp ==
  /\ pcApp = "push" /\ samplesTaken < WriteSize /\ ~HasRoom /\ over
  /\ fifoLock' = "none"
  /\ NextWrite
  /\ calm' = FALSE
  /\ UNCHANGED <<fifoVars, mActive, txRunning, terminateTx, pcTx, hand, outVars>>

PushDone ==
  /\ pcApp = "push" /\ samplesTaken = WriteSize
  /\ fifoLock' = "none" /\ pcApp' = "notify"
  /\ UNCHANGED <<fifoVars, appVars, mActive, txRunning, terminateTx, pcTx, hand,
                 outVars, calm>>

PushNotify ==
  /\ pcApp = "notify"
  /\ pcTx' = IF pcTx = "asleep" THEN "relock" ELSE pcTx
  /\ NextWrite
  /\ UNCHANGED <<fifoVars, fifoLock, mActive, txRunning, terminateTx, hand, outVars, calm>>

(* wait_for() returns without a notification.                              *)
PushWaitEnds ==
  /\ pcApp = "asleep"
  /\ pcApp' = "relock" /\ over' = TRUE
  /\ UNCHANGED <<fifoVars, fifoLock, written, samplesTaken, mActive, txRunning,
                 terminateTx, pcTx, hand, outVars, calm>>

(* Stop(), and UpdateThreads().                                            *)
Stop ==
  /\ pcApp = "stop"
  /\ mActive' = FALSE
  /\ pcApp' = "stop_test"
  /\ UNCHANGED <<fifoVars, fifoLock, appVars, txRunning, terminateTx, pcTx, hand,
                 outVars, calm>>

(* Mutant: the thread is not told to end.                                  *)
StopWithoutTerminate ==
  /\ pcApp = "stop_test"
  /\ pcApp' = IF txRunning THEN "join" ELSE "stopped"
  /\ UNCHANGED <<fifoVars, fifoLock, appVars, mActive, txRunning, terminateTx, pcTx,
                 hand, outVars, calm>>

(* Mutant: the thread is told to end and not joined.                       *)
StopWithoutJoin ==
  /\ pcApp = "stop_test"
  /\ terminateTx' = TRUE /\ pcApp' = "stopped"
  /\ UNCHANGED <<fifoVars, fifoLock, appVars, mActive, txRunning, pcTx, hand, outVars,
                 calm>>

StopTest ==
  /\ pcApp = "stop_test"
  /\ \/ txRunning /\ terminateTx' = TRUE /\ pcApp' = "join"
     \/ ~txRunning /\ pcApp' = "stopped" /\ UNCHANGED terminateTx
  /\ UNCHANGED <<fifoVars, fifoLock, appVars, mActive, txRunning, pcTx, hand, outVars,
                 calm>>

StopJoin ==
  /\ pcApp = "join" /\ pcTx = "ended"
  /\ txRunning' = FALSE /\ pcApp' = "stopped"
  /\ UNCHANGED <<fifoVars, fifoLock, appVars, mActive, terminateTx, pcTx, hand, outVars,
                 calm>>

AppStep ==
  \/ Start \/ WriteTest \/ Restart \/ PushLock \/ PushPacket \/ PushWait \/ PushGiveUp
  \/ PushDone \/ PushNotify \/ PushWaitEnds \/ Stop \/ StopTest \/ StopJoin

-----------------------------------------------------------------------------
(* The transmit thread: TransmitPacketsLoop(), and pop_samples().          *)

txUnchanged == UNCHANGED <<appVars, mActive>>

(* A transfer must be free; while none is, WaitForSending() is repeated.   *)
Loop ==
  /\ pcTx = "loop"
  /\ \/ terminateTx /\ pcTx' = "abort"
     \/ ~terminateTx /\ Len(inflight) < BuffersCount /\ pcTx' = "read"
  /\ UNCHANGED <<fifoVars, fifoLock, pcApp, txRunning, terminateTx, hand, outVars, calm>>
  /\ txUnchanged

(* A channel that is not active sends silence.                             *)
Read ==
  /\ pcTx = "read"
  /\ pcTx' = CASE terminateTx -> "abort" [] mActive /\ ~terminateTx -> "lock"
               [] OTHER -> "send"
  /\ hand' = <<>>
  /\ UNCHANGED <<fifoVars, fifoLock, pcApp, txRunning, terminateTx, outVars, calm>>
  /\ txUnchanged

PopLock ==
  /\ pcTx \in {"lock", "relock"} /\ fifoLock = "none"
  /\ fifoLock' = "tx" /\ pcTx' = "pop"
  /\ UNCHANGED <<fifoVars, pcApp, txRunning, terminateTx, hand, outVars, calm>>
  /\ txUnchanged

(* Mutant: a packet is dropped from the ring when any of it is taken.      *)
TakeAndDrop ==
  /\ pcTx = "pop" /\ Len(hand) < PacketSize /\ mElementsFilled > 0
  /\ LET s == slot[mHead]
         cnt == Smaller(PacketSize - Len(hand), s.to - s.from)
     IN hand' = hand \o Samples([s EXCEPT !.to = s.from + cnt])
  /\ mHead' = (mHead + 1) % FifoPackets
  /\ mElementsFilled' = mElementsFilled - 1
  /\ UNCHANGED <<slot, mTail, fifoLock, pcApp, pcTx, txRunning, terminateTx, outVars, calm>>
  /\ txUnchanged

(* Mutant: what is taken of a packet stays in it.                          *)
TakeAndKeep ==
  /\ pcTx = "pop" /\ Len(hand) < PacketSize /\ mElementsFilled > 0
  /\ LET s == slot[mHead]
         cnt == Smaller(PacketSize - Len(hand), s.to - s.from)
     IN /\ hand' = hand \o Samples([s EXCEPT !.to = s.from + cnt])
        /\ IF s.from + cnt = s.to
             THEN /\ mHead' = (mHead + 1) % FifoPackets
                  /\ mElementsFilled' = mElementsFilled - 1
             ELSE UNCHANGED <<mHead, mElementsFilled>>
  /\ UNCHANGED <<slot, mTail, fifoLock, pcApp, pcTx, txRunning, terminateTx, outVars, calm>>
  /\ txUnchanged

PopTake ==
  /\ pcTx = "pop" /\ Len(hand) < PacketSize /\ mElementsFilled > 0
  /\ LET s == slot[mHead]
         cnt == Smaller(PacketSize - Len(hand), s.to - s.from)
     IN /\ hand' = hand \o Samples([s EXCEPT !.to = s.from + cnt])
        /\ IF s.from + cnt = s.to
             THEN /\ mHead' = (mHead + 1) % FifoPackets
                  /\ mElementsFilled' = mElementsFilled - 1
                  /\ UNCHANGED slot
             ELSE /\ slot' = [slot EXCEPT ![mHead].from = s.from + cnt]
                  /\ UNCHANGED <<mHead, mElementsFilled>>
  /\ UNCHANGED <<mTail, fifoLock, pcApp, pcTx, txRunning, terminateTx, outVars, calm>>
  /\ txUnchanged

PopWait ==
  /\ pcTx = "pop" /\ Len(hand) < PacketSize /\ mElementsFilled = 0
  /\ fifoLock' = "none" /\ pcTx' = "asleep"
  /\ UNCHANGED <<fifoVars, pcApp, txRunning, terminateTx, hand, outVars, calm>>
  /\ txUnchanged

(* The time is over, whatever has come into the ring meanwhile.            *)
PopTimeout ==
  /\ pcTx = "asleep"
  /\ pcTx' = "timed_out" /\ calm' = FALSE
  /\ UNCHANGED <<fifoVars, fifoLock, pcApp, txRunning, terminateTx, hand, outVars>>
  /\ txUnchanged

(* Too few samples: pop_samples() returns once it has the lock again, and  *)
(* the loop ends itself.                                                   *)
Underflow ==
  /\ pcTx = "timed_out" /\ fifoLock = "none"
  /\ terminateTx' = TRUE /\ pcTx' = "abort"
  /\ UNCHANGED <<fifoVars, fifoLock, pcApp, txRunning, hand, outVars, calm>>
  /\ txUnchanged

PopDone ==
  /\ pcTx = "pop" /\ Len(hand) = PacketSize
  /\ fifoLock' = "none" /\ pcTx' = "notify"
  /\ UNCHANGED <<fifoVars, pcApp, txRunning, terminateTx, hand, outVars, calm>>
  /\ txUnchanged

(* The application may find its time over when it wakes.                   *)
PopNotify ==
  /\ pcTx = "notify"
  /\ pcTx' = "send"
  /\ \/ pcApp = "asleep" /\ pcApp' = "relock" /\ over' \in {over, TRUE}
     \/ pcApp # "asleep" /\ UNCHANGED <<pcApp, over>>
  /\ UNCHANGED <<fifoVars, fifoLock, written, samplesTaken, mActive, txRunning,
                 terminateTx, hand, outVars, calm>>

(* BeginDataSending(), of what was popped or of silence.                   *)
Send ==
  /\ pcTx = "send"
  /\ \/ terminateTx /\ pcTx' = "abort" /\ UNCHANGED inflight
     \/ ~terminateTx /\ pcTx' = "loop" /\ inflight' = Append(inflight, hand)
  /\ hand' = <<>>
  /\ UNCHANGED <<fifoVars, fifoLock, pcApp, txRunning, terminateTx, air, calm>>
  /\ txUnchanged

(* AbortSending(), the last stores of the thread, and its end.             *)
Abort ==
  /\ pcTx = "abort"
  /\ hand' = <<>> /\ inflight' = <<>> /\ pcTx' = "exit"
  /\ UNCHANGED <<fifoVars, fifoLock, pcApp, txRunning, terminateTx, air, calm>>
  /\ txUnchanged

Exit ==
  /\ \/ pcTx = "exit" /\ txRunning' = FALSE /\ pcTx' = "exiting"
     \/ pcTx = "exiting" /\ pcTx' = "ended" /\ UNCHANGED txRunning
  /\ UNCHANGED <<fifoVars, fifoLock, pcApp, terminateTx, hand, outVars, calm>>
  /\ txUnchanged

TxStep ==
  \/ Loop \/ Read \/ PopLock \/ PopTake \/ PopWait \/ PopTimeout \/ Underflow \/ PopDone
  \/ PopNotify \/ Send \/ Abort \/ Exit

(* The device completes its transfers in the order they were begun.        *)
Device ==
  /\ inflight # <<>>
  /\ air' = air \o Head(inflight) /\ inflight' = Tail(inflight)
  /\ UNCHANGED <<fifoVars, fifoLock, pcApp, appVars, mActive, txRunning, terminateTx,
                 pcTx, hand, calm>>

(* The program ends after LMS_StopStream.                                  *)
Stopped == pcApp = "stopped" /\ UNCHANGED vars

Next == AppStep \/ TxStep \/ Device \/ Stopped

(* Every thread runs, every wait has a timeout and the device sends.       *)
Fairness == WF_vars(AppStep) /\ WF_vars(TxStep) /\ WF_vars(Device)

Spec == Init /\ [][Next]_vars /\ Fairness

-----------------------------------------------------------------------------
(* Properties.                                                             *)

(* Every variable has its type; the ring is never fuller than its slots, no*)
(* packet larger than a packet, and no more transfers are under way than   *)
(* there are.                                                              *)
RingType ==
  /\ slot \in [0 .. FifoPackets - 1 -> [from : Nat, to : Nat]]
  /\ \A k \in 0 .. FifoPackets - 1 :
       slot[k].to \in slot[k].from .. slot[k].from + PacketSize
  /\ mHead \in 0 .. FifoPackets - 1 /\ mTail \in 0 .. FifoPackets - 1
  /\ mElementsFilled \in 0 .. FifoPackets

ThreadType ==
  /\ fifoLock \in {"none", "app", "tx"}
  /\ pcApp \in {"start", "write", "update", "lock", "relock", "push", "asleep", "notify",
                "stop", "stop_test", "join", "stopped"}
  /\ pcTx \in {"none", "loop", "read", "lock", "relock", "pop", "asleep", "timed_out",
               "notify", "send", "abort", "exit", "exiting", "ended"}
  /\ over \in BOOLEAN /\ mActive \in BOOLEAN /\ txRunning \in BOOLEAN
  /\ terminateTx \in BOOLEAN /\ calm \in BOOLEAN

StreamType ==
  /\ written \in 0 .. NumWrites * WriteSize /\ samplesTaken \in 0 .. WriteSize
  /\ hand \in Seq(Nat) /\ Len(hand) <= PacketSize
  /\ inflight \in Seq(Seq(Nat)) /\ Len(inflight) <= BuffersCount
  /\ air \in Seq(Nat)

TypeOK == RingType /\ ThreadType /\ StreamType

(* The packets in the ring, from its head on.                              *)
Nth(k) == slot[(mHead + k - 1) % FifoPackets]
InRing == [k \in 1 .. mElementsFilled |-> Samples(Nth(k))]

(* Everything on its way to the antenna and behind, piece by piece and in  *)
(* its order.                                                              *)
Path == <<air>> \o inflight \o <<hand>> \o InRing

OnPath == UNION {Range(Path[p]) : p \in 1 .. Len(Path)}

Pushed == IF pcApp \in {"lock", "relock", "push", "asleep", "notify"}
            THEN written + samplesTaken ELSE written

(* Through every timeout, underflow and restart of the thread the device   *)
(* is given samples in the order they were written, none of them twice.    *)
InOrder ==
  \A p, q \in 1 .. Len(Path) :
    \A i \in 1 .. Len(Path[p]), j \in 1 .. Len(Path[q]) :
      (p < q \/ (p = q /\ i < j)) => Path[p][i] < Path[q][j]

(* Until a side gives up waiting or the stream is stopped no sample that   *)
(* was written is missing: push_samples and pop_samples lose nothing.      *)
NothingLost == calm /\ mActive => OnPath = 0 .. Pushed - 1

(* A thread is created only when the one before has ended.                 *)
NewThreadAfterOld ==
  [][pcTx' = "loop" /\ pcTx # "loop" => pcTx \in {"none", "ended", "send"}]_vars

(* After LMS_StopStream the thread does not touch the ring or the device:  *)
(* the application may close both, as tx_task does.                        *)
StoppedMeansEnded == pcApp = "stopped" => pcTx \in {"exiting", "ended"} /\ ~mActive

(* The file is played to its end: no write and no stop blocks for ever.    *)
AppCompletes == <>(pcApp = "stopped")

(* fifo.h says that a writer that finds no space waits "to give pop_samples*)
(* the thread context": then pop_samples does not wait itself.             *)
PushGivesWay == ~(pcApp = "asleep" /\ pcTx = "asleep")

-----------------------------------------------------------------------------
(* The inductive invariant behind InOrder and NothingLost.                 *)

(* Where the two threads are, and what they hold there.                    *)
Control ==
  /\ pcApp = "start" => pcTx = "none" /\ ~mActive /\ written = 0
  /\ pcApp # "start" => pcTx # "none"
  /\ pcApp \in {"stop_test", "join", "stopped"} => ~mActive
  /\ pcApp = "update" => samplesTaken = 0
  /\ pcApp = "notify" => samplesTaken = WriteSize
  /\ pcTx \in {"none", "loop", "read", "exit", "exiting", "ended"} => hand = <<>>
  /\ pcTx \in {"read", "lock", "relock", "pop", "asleep", "timed_out", "notify", "send"} =>
       Len(inflight) < BuffersCount
  /\ pcTx \in {"timed_out", "exit", "exiting", "ended"} => ~calm \/ ~mActive
  /\ pcTx = "abort" => terminateTx
  /\ terminateTx => ~calm \/ ~mActive

(* The flag says whether the thread runs, and the lock who holds it.       *)
Owners ==
  /\ txRunning <=> pcTx \notin {"none", "exiting", "ended"}
  /\ fifoLock = "app" <=> pcApp = "push"
  /\ fifoLock = "tx" <=> pcTx = "pop"
  /\ pcApp = "stopped" => ~txRunning

(* Writes are counted whole.                                               *)
WholeWrites ==
  /\ \E n \in 0 .. NumWrites : written = n * WriteSize
  /\ pcApp \in {"write", "update", "lock", "relock", "push", "asleep", "notify"} =>
       written < NumWrites * WriteSize

(* The packets of the ring lie one behind the other, each of them with     *)
(* something in it, up to the tail and to the last sample pushed.          *)
RingInOrder ==
  /\ mTail = (mHead + mElementsFilled) % FifoPackets
  /\ \A k \in 1 .. mElementsFilled : Nth(k).from < Nth(k).to /\ Nth(k).to <= Pushed
  /\ \A j, k \in 1 .. mElementsFilled : j < k => Nth(j).to <= Nth(k).from

Increasing(s) == \A i, j \in 1 .. Len(s) : i < j => s[i] < s[j]
Before(s, t) == \A i \in 1 .. Len(s), j \in 1 .. Len(t) : s[i] < t[j]
BeforeRing(s) ==
  \A i \in 1 .. Len(s) : s[i] < Pushed /\ \A k \in 1 .. mElementsFilled : s[i] < Nth(k).from

(* What was popped is in order, and before all that is in the ring or is   *)
(* still to come.                                                          *)
PoppedInOrder ==
  /\ Increasing(air) /\ Increasing(hand)
  /\ \A p \in 1 .. Len(inflight) : Increasing(inflight[p])
  /\ Before(air, hand)
  /\ \A p \in 1 .. Len(inflight) : Before(air, inflight[p]) /\ Before(inflight[p], hand)
  /\ \A p, q \in 1 .. Len(inflight) : p < q => Before(inflight[p], inflight[q])
  /\ BeforeRing(air) /\ BeforeRing(hand)
  /\ \A p \in 1 .. Len(inflight) : BeforeRing(inflight[p])

(* Where sample n is.                                                      *)
Has(s, n) == \E i \in 1 .. Len(s) : s[i] = n
InFlight(n) == \E p \in 1 .. Len(inflight) : Has(inflight[p], n)
RingHas(n) == \E k \in 1 .. mElementsFilled : n \in Nth(k).from .. Nth(k).to - 1

AllThere ==
  calm /\ mActive =>
    \A n \in 0 .. Pushed - 1 : Has(air, n) \/ InFlight(n) \/ Has(hand, n) \/ RingHas(n)

IInv ==
  TypeOK /\ Control /\ Owners /\ WholeWrites /\ RingInOrder /\ PoppedInOrder /\ AllThere
=============================================================================
