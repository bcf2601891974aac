---------------------------- MODULE WorkerBarrier ----------------------------
(***************************************************************************)
(* The multi-threaded generator: runCore2() shares the channels out to     *)
(* workers (threadChannelElabFunc), and a start and a stop mutex for each  *)
(* worker make a barrier on both sides of a block of a tenth of a second.  *)
(* Between the barriers the workers compute the block and the main thread  *)
(* writes the block before it to the file.                                 *)
(*                                                                         *)
(* The mutexes are locked by one thread and unlocked by the other.  A      *)
(* mutex of the C library of Android does not look at its owner: it is a   *)
(* flag, and unlocking one that is not locked does nothing.                *)
(***************************************************************************)
EXTENDS Integers, Sequences

CONSTANTS
  NumThreads, \* NUMBER_OF_THREAD
  NumBlocks,  \* numd - 1: blocks the main thread asks for
  CreateFails \* whether a thread may fail to be created

ASSUME BarrierAssumption ==
  /\ NumThreads \in Nat \ {0} /\ NumBlocks \in Nat
  /\ CreateFails \in BOOLEAN

VARIABLES
  pcMain,
  iThread,      \* the worker a loop of the main thread has come to
  iumd,         \* the block, from 1
  prepared,     \* the block that the channels are set up for, 0 for none
  accArr,       \* i_accArr, q_accArr: what was added from each worker
  file,         \* the blocks written, from 0; -1 for a wrong one
  live,         \* whether runCore2 has its buffers and its stack
  startLocked, stopLocked, isRunning,  \* threadChannel[i]
  accBuff,      \* iAccBuff, qAccBuff
  pc,
  seesRunning,  \* the worker's own isRunning
  computed      \* blocks the worker's carrier phases have gone through

mainVars == <<pcMain, iThread, iumd, prepared, accArr, file, live>>
workerVars == <<accBuff, pc, seesRunning, computed>>
syncVars == <<startLocked, stopLocked, isRunning>>
vars == <<mainVars, workerVars, syncVars>>

Workers == 0 .. NumThreads - 1

(* A worker's part of a block: what its channels were set up for, and the  *)
(* carrier phases it began with.  Block n follows n - 1 others.            *)
Part(n, p) == [block |-> n, phase |-> p]
Nothing == Part(0, 0)
RightPart(n) == Part(n, n - 1)

Init ==
  /\ pcMain = "create" /\ iThread = 0 /\ iumd = 1 /\ prepared = 0 /\ live = TRUE
  /\ file = <<>>
  /\ accArr = [k \in Workers |-> Nothing] /\ accBuff = [k \in Workers |-> Nothing]
  /\ startLocked = [k \in Workers |-> FALSE] /\ stopLocked = [k \in Workers |-> FALSE]
  /\ isRunning = [k \in Workers |-> TRUE]
  /\ pc = [k \in Workers |-> "none"] /\ computed = [k \in Workers |-> 0]
  /\ seesRunning = [k \in Workers |-> TRUE]

-----------------------------------------------------------------------------
(* runCore2().                                                             *)

(* Mutant: the loop counter is not reset.                                  *)
TurnWithoutReset(next) ==
  \/ iThread + 1 < NumThreads /\ iThread' = iThread + 1 /\ UNCHANGED pcMain
  \/ iThread + 1 >= NumThreads /\ iThread' = iThread + 1 /\ pcMain' = next

(* The next turn of a loop over the workers, or what follows it.           *)
Turn(next) ==
  \/ iThread + 1 < NumThreads /\ iThread' = iThread + 1 /\ UNCHANGED pcMain
  \/ iThread + 1 = NumThreads /\ iThread' = 0 /\ pcMain' = next

(* Mutant: one block less.                                                 *)
LoopTestOneLess(n) == IF n < NumBlocks THEN "prepare" ELSE "end"

LoopTest(n) == IF n <= NumBlocks THEN "prepare" ELSE "end"

(* Mutant: only the start is locked before the thread begins.              *)
CreateWithoutStop ==
  /\ pcMain = "create"
  /\ startLocked' = [startLocked EXCEPT ![iThread] = TRUE]
  /\ pc' = [pc EXCEPT ![iThread] = "lock"]
  /\ Turn(LoopTest(1))
  /\ UNCHANGED <<stopLocked, isRunning, iumd, prepared, accArr, file, live, accBuff,
                 seesRunning, computed>>

(* Both mutexes are locked before the thread begins.  The result of        *)
(* pthread_create is not looked at.                                        *)
Create ==
  /\ pcMain = "create"
  /\ startLocked' = [startLocked EXCEPT ![iThread] = TRUE]
  /\ stopLocked' = [stopLocked EXCEPT ![iThread] = TRUE]
  /\ \/ pc' = [pc EXCEPT ![iThread] = "lock"]
     \/ CreateFails /\ pc' = [pc EXCEPT ![iThread] = "failed"]
  /\ Turn(LoopTest(1))
  /\ UNCHANGED <<isRunning, iumd, prepared, accArr, file, live, accBuff, seesRunning, computed>>

(* Ranges, code phases and gains of all channels.                          *)
Prepare ==
  /\ pcMain = "prepare"
  /\ prepared' = iumd /\ pcMain' = "release"
  /\ UNCHANGED <<iThread, iumd, accArr, file, live, workerVars, syncVars>>

Release ==
  /\ pcMain = "release"
  /\ startLocked' = [startLocked EXCEPT ![iThread] = FALSE]
  /\ Turn("write")
  /\ UNCHANGED <<stopLocked, isRunning, iumd, prepared, accArr, file, live, workerVars>>

(* The number of the block in the sums, if every worker's part is right.   *)
BlockInSums == IF \A k \in Workers : accArr[k] = RightPart(iumd - 1) THEN iumd - 2 ELSE -1

(* The block before this one is written, and the sums are cleared.         *)
Write ==
  /\ pcMain = "write"
  /\ file' = IF iumd > 1 THEN Append(file, BlockInSums) ELSE file
  /\ accArr' = [k \in Workers |-> Nothing]
  /\ pcMain' = "collect"
  /\ UNCHANGED <<iThread, iumd, prepared, live, workerVars, syncVars>>

(* Mutant: the sums are made without waiting.                              *)
CollectAnyway ==
  /\ pcMain = "collect"
  /\ stopLocked' = [stopLocked EXCEPT ![iThread] = TRUE]
  /\ Turn("sum")
  /\ UNCHANGED <<startLocked, isRunning, iumd, prepared, accArr, file, live, workerVars>>

Collect ==
  /\ pcMain = "collect" /\ ~stopLocked[iThread]
  /\ stopLocked' = [stopLocked EXCEPT ![iThread] = TRUE]
  /\ Turn("sum")
  /\ UNCHANGED <<startLocked, isRunning, iumd, prepared, accArr, file, live, workerVars>>

Sum ==
  /\ pcMain = "sum"
  /\ accArr' = accBuff /\ pcMain' = "refresh"
  /\ UNCHANGED <<iThread, iumd, prepared, file, live, workerVars, syncVars>>

(* The work of every thirty seconds may give a channel to a satellite whose*)
(* code phase is not computed yet.                                         *)
Refresh ==
  /\ pcMain = "refresh"
  /\ prepared' \in {prepared, 0}
  /\ iumd' = iumd + 1 /\ pcMain' = LoopTest(iumd + 1)
  /\ UNCHANGED <<iThread, accArr, file, live, workerVars, syncVars>>

(* The end: for each worker, its flag is cleared and both its mutexes are  *)
(* unlocked.                                                               *)
EndFlag ==
  /\ pcMain = "end"
  /\ isRunning' = [isRunning EXCEPT ![iThread] = FALSE]
  /\ pcMain' = "end_start"
  /\ UNCHANGED <<startLocked, stopLocked, iThread, iumd, prepared, accArr, file, live, workerVars>>

(* Mutant: a worker that waits for its next block is not woken.            *)
EndWithoutStart ==
  /\ pcMain = "end_start"
  /\ pcMain' = "end_stop"
  /\ UNCHANGED <<syncVars, iThread, iumd, prepared, accArr, file, live, workerVars>>

EndStart ==
  /\ pcMain = "end_start"
  /\ startLocked' = [startLocked EXCEPT ![iThread] = FALSE]
  /\ pcMain' = "end_stop"
  /\ UNCHANGED <<stopLocked, isRunning, iThread, iumd, prepared, accArr, file, live, workerVars>>

EndStop ==
  /\ pcMain = "end_stop"
  /\ stopLocked' = [stopLocked EXCEPT ![iThread] = FALSE]
  /\ \/ iThread + 1 < NumThreads /\ iThread' = iThread + 1 /\ pcMain' = "end"
     \/ iThread + 1 = NumThreads /\ iThread' = 0 /\ pcMain' = "join"
  /\ UNCHANGED <<startLocked, isRunning, iumd, prepared, accArr, file, live, workerVars>>

(* pthread_join is given the address of the handle: no thread has it, and  *)
(* the call returns an error at once.                                      *)
Join ==
  /\ pcMain = "join" /\ pcMain' = "free"
  /\ UNCHANGED <<iThread, iumd, prepared, accArr, file, live, workerVars, syncVars>>

(* Mutexes are destroyed, buffers freed, and the stack goes with the       *)
(* return.                                                                 *)
Free ==
  /\ pcMain = "free" /\ pcMain' = "returned"
  /\ live' = FALSE
  /\ UNCHANGED <<iThread, iumd, prepared, accArr, file, workerVars, syncVars>>

Main ==
  \/ Create \/ Prepare \/ Release \/ Write \/ Collect \/ Sum \/ Refresh
  \/ EndFlag \/ EndStart \/ EndStop \/ Join \/ Free

-----------------------------------------------------------------------------
(* threadChannelElabFunc().                                                *)

LockStart(k) ==
  /\ pc[k] = "lock" /\ live /\ ~startLocked[k]
  /\ startLocked' = [startLocked EXCEPT ![k] = TRUE]
  /\ pc' = [pc EXCEPT ![k] = "read"]
  /\ UNCHANGED <<stopLocked, isRunning, mainVars, accBuff, seesRunning, computed>>

ReadRunning(k) ==
  /\ pc[k] = "read" /\ live
  /\ seesRunning' = [seesRunning EXCEPT ![k] = isRunning[k]]
  /\ pc' = [pc EXCEPT ![k] = "work"]
  /\ UNCHANGED <<syncVars, mainVars, accBuff, computed>>

(* The samples of a block, whatever the flag said.                         *)
Work(k) ==
  /\ pc[k] = "work" /\ live
  /\ accBuff' = [accBuff EXCEPT ![k] = Part(prepared, computed[k])]
  /\ computed' = [computed EXCEPT ![k] = computed[k] + 1]
  /\ pc' = [pc EXCEPT ![k] = "unlock"]
  /\ UNCHANGED <<syncVars, mainVars, seesRunning>>

UnlockStop(k) ==
  /\ pc[k] = "unlock" /\ live
  /\ stopLocked' = [stopLocked EXCEPT ![k] = FALSE]
  /\ pc' = [pc EXCEPT ![k] = "log"]
  /\ UNCHANGED <<startLocked, isRunning, mainVars, accBuff, seesRunning, computed>>

(* The end of a block reads the worker's number for the log.               *)
LoopOrEnd(k) ==
  /\ pc[k] = "log" /\ live
  /\ pc' = [pc EXCEPT ![k] = IF seesRunning[k] THEN "lock" ELSE "ended"]
  /\ UNCHANGED <<syncVars, mainVars, accBuff, seesRunning, computed>>

(* Every step of a worker goes through its threadChannel, which is on the  *)
(* stack of runCore2.  (A worker asleep in front of its start makes none.) *)
Stray(k) ==
  /\ pc[k] \in {"lock", "read", "work", "unlock", "log"} /\ ~live
  /\ pc[k] = "lock" => ~startLocked[k]
  /\ pc' = [pc EXCEPT ![k] = "undefined"]
  /\ UNCHANGED <<syncVars, mainVars, accBuff, seesRunning, computed>>

Worker(k) ==
  LockStart(k) \/ ReadRunning(k) \/ Work(k) \/ UnlockStop(k) \/ LoopOrEnd(k) \/ Stray(k)

Next == Main \/ \E k \in Workers : Worker(k)

Fairness == WF_vars(Main) /\ \A k \in Workers : WF_vars(Worker(k))

Spec == Init /\ [][Next]_vars /\ Fairness

-----------------------------------------------------------------------------
(* Properties.                                                             *)

Parts == [block : 0 .. NumBlocks, phase : Nat]

(* Every variable has its type.                                            *)
TypeOK ==
  /\ pcMain \in {"create", "prepare", "release", "write", "collect", "sum", "refresh",
                 "end", "end_start", "end_stop", "join", "free", "returned"}
  /\ iThread \in Workers /\ iumd \in 1 .. NumBlocks + 1 /\ prepared \in 0 .. NumBlocks
  /\ file \in Seq(Int) /\ live \in BOOLEAN
  /\ accArr \in [Workers -> Parts] /\ accBuff \in [Workers -> Parts]
  /\ startLocked \in [Workers -> BOOLEAN] /\ stopLocked \in [Workers -> BOOLEAN]
  /\ isRunning \in [Workers -> BOOLEAN] /\ seesRunning \in [Workers -> BOOLEAN]
  /\ computed \in [Workers -> Nat]
  /\ pc \in [Workers -> {"none", "failed", "lock", "read", "work", "unlock", "log", "ended",
                         "undefined"}]

(* While the main thread changes the channels or reads the buffers of the  *)
(* workers, none of them is computing: neither side needs another lock.    *)
ChannelsNotShared ==
  pcMain \in {"prepare", "sum", "refresh"} =>
    \A k \in Workers : pc[k] \notin {"read", "work", "unlock"}

(* The file holds the blocks of the signal in order, each one complete:    *)
(* every worker's part of the same block, with its carrier going on from   *)
(* the block before.                                                       *)
Summed == IF pcMain = "refresh" THEN iumd ELSE iumd - 1
Stream == INSTANCE SignalStream WITH
            BlockSize <- 1, BufferSize <- 1, generated <- Summed, played <- file
WritesTheSignal == Stream!Spec

(* A worker comes into freed memory only behind the last block that was    *)
(* asked for, and computes at most one block too many.                     *)
StrayOnlyAfterEnd ==
  \A k \in Workers :
    /\ computed[k] <= NumBlocks + 1
    /\ pc[k] = "undefined" => computed[k] >= NumBlocks

(* If every thread was created, the main thread gets through all blocks    *)
(* and the workers come to an end (or into freed memory).                  *)
EverybodyEnds ==
  \/ <>(\E k \in Workers : pc[k] = "failed")
  \/ <>(pcMain = "returned" /\ \A k \in Workers : pc[k] \in {"ended", "undefined"})

-----------------------------------------------------------------------------
(* The inductive invariant behind them.                                    *)

Loop == {"prepare", "release", "write", "collect", "sum", "refresh"}
Ending == {"end", "end_start", "end_stop", "join", "free", "returned"}

(* Worker k may run: its start was unlocked and its stop not locked since. *)
Released(k) ==
  \/ pcMain = "release" /\ k < iThread
  \/ pcMain = "write"
  \/ pcMain = "collect" /\ k >= iThread

(* Blocks worker k has delivered when it is not released.                  *)
Delivered(k) ==
  IF pcMain \in {"sum", "refresh"} \/ (pcMain = "collect" /\ k < iThread) THEN iumd ELSE iumd - 1

(* A worker that waits for its start, or will do so next.                  *)
Waits(k) == pc[k] \in {"log", "lock"}

Handshake(k) ==
  /\ isRunning[k] /\ seesRunning[k]
  /\ ~Released(k) =>
       /\ startLocked[k] /\ stopLocked[k] /\ Waits(k)
       /\ computed[k] = Delivered(k)
       /\ Delivered(k) > 0 => accBuff[k] = RightPart(Delivered(k))
  /\ Released(k) =>
       \/ /\ stopLocked[k] /\ computed[k] = iumd - 1
          /\ Waits(k) \/ (startLocked[k] /\ pc[k] \in {"read", "work"})
       \/ /\ startLocked[k] /\ computed[k] = iumd /\ accBuff[k] = RightPart(iumd)
          /\ (stopLocked[k] /\ pc[k] = "unlock") \/ (~stopLocked[k] /\ Waits(k))

(* A worker that was not created stops the main thread at its turn.        *)
Missing(k) ==
  /\ stopLocked[k] /\ iumd = 1 /\ computed[k] = 0
  /\ pcMain \notin {"sum", "refresh"} /\ ~(pcMain = "collect" /\ k < iThread)

Barrier ==
  pcMain \in Loop => \A k \in Workers : IF pc[k] = "failed" THEN Missing(k) ELSE Handshake(k)

Created ==
  pcMain = "create" =>
    \A k \in Workers :
      /\ isRunning[k] /\ seesRunning[k] /\ computed[k] = 0
      /\ k < iThread => startLocked[k] /\ stopLocked[k] /\ pc[k] \in {"lock", "failed"}
      /\ k >= iThread => pc[k] = "none"

(* The end of worker k has come: its start was unlocked for the last time. *)
Dismissed(k) ==
  \/ pcMain \in {"join", "free", "returned"}
  \/ k < iThread
  \/ k = iThread /\ pcMain = "end_stop"

Farewell ==
  pcMain \in Ending =>
    \A k \in Workers :
      /\ (Dismissed(k) \/ (k = iThread /\ pcMain = "end_start")) => ~isRunning[k]
      /\ \/ pc[k] = "failed" /\ computed[k] = 0
         \/ /\ Waits(k) /\ computed[k] = NumBlocks /\ seesRunning[k]
            /\ startLocked[k] \/ Dismissed(k)
         \/ pc[k] = "read" /\ computed[k] = NumBlocks /\ Dismissed(k)
         \/ pc[k] = "work" /\ computed[k] = NumBlocks /\ ~seesRunning[k] /\ Dismissed(k)
         \/ /\ pc[k] \in {"unlock", "log", "ended"} /\ computed[k] = NumBlocks + 1
            /\ ~seesRunning[k] /\ Dismissed(k)
         \/ pc[k] = "undefined" /\ computed[k] \in {NumBlocks, NumBlocks + 1} /\ ~live

(* What is in the sums and in the file.                                    *)
Output ==
  /\ pcMain \in {"release", "write", "collect"} => prepared = iumd
  /\ pcMain \in Loop => iumd <= NumBlocks
  /\ pcMain \in Ending => iumd = NumBlocks + 1
  /\ pcMain = "create" => iumd = 1
  /\ (pcMain \in {"prepare", "release", "write"} /\ iumd > 1) =>
       \A k \in Workers : accArr[k] = RightPart(iumd - 1)
  /\ pcMain = "refresh" => \A k \in Workers : accArr[k] = RightPart(iumd)
  /\ Len(file) = IF pcMain \in {"collect", "sum", "refresh"} THEN iumd - 1
                 ELSE IF iumd > 1 THEN iumd - 2 ELSE 0
  /\ live <=> pcMain # "returned"
  /\ pcMain \in {"prepare", "write", "sum", "refresh", "join", "free", "returned"} => iThread = 0

IInv == TypeOK /\ Created /\ Barrier /\ Farewell /\ Output
=============================================================================
