----------------------------- MODULE SimPipeline -----------------------------
(***************************************************************************)
(* The real-time signal pipeline: limeMain() creates the GPS task          *)
(* (runCore_realTime), waits until it has produced its first block, creates*)
(* the TX task (tx_task_realTime) and joins it.  The GPS task writes blocks*)
(* of I/Q samples into the ring s->fifo, the TX task reads them out and    *)
(* hands SAMPLES_PER_BUFFER of them at a time to LMS_SendStream.           *)
(*                                                                         *)
(* A sample is the number of its place in the generated signal: 0, 1, ...  *)
(* Each action is one step between two accesses of shared memory, a lock,  *)
(* a condition variable or a thread; pthread_cond_wait puts its thread to  *)
(* sleep and releases the mutex in one step, and pthread_cond_signal moves *)
(* a sleeping thread to the reacquisition of the mutex.  s->tx.lock is not *)
(* a variable: limeMain is the only thread that ever locks it, so it       *)
(* excludes nobody (gps.ready is set and signalled without it).            *)
(***************************************************************************)
EXTENDS Integers, Sequences

CONSTANTS
  NumIqSamples,      \* NUM_IQ_SAMPLES: samples in a block of the GPS task
  SamplesPerBuffer,  \* SAMPLES_PER_BUFFER: samples in a buffer of the TX task
  NumBlocks,         \* numd - 1: blocks the GPS task generates before it ends
  WeakMemory,        \* the CPU may show a store late (ARM), or not (x86)
  Failures           \* which calls may fail in this environment

Calls == {"malloc", "gps_start", "gps_setup", "tx_start"}

ASSUME ConstantsAssumption ==
  /\ NumIqSamples \in Nat \ {0}
  /\ SamplesPerBuffer \in Nat \ {0}
  /\ NumBlocks \in Nat
  /\ WeakMemory \in BOOLEAN
  /\ Failures \subseteq Calls

FifoLength == 2 * NumIqSamples
Stale == -1          \* what a slot holds before any block was written to it

VARIABLES
  process,    \* "up", or how the process ended: "exit" (exit(1)) or "abort"
  pcMain, pcGps, pcTx,
  gpsLock,    \* owner of s->gps.lock
  ready,      \* s->gps.ready
  head, tail, \* indices of the ring s->fifo
  fifo,       \* the samples in the ring
  pending,    \* the block the GPS thread wrote and others do not see yet
  produced,   \* samples published in the ring so far (iumd - 1 blocks)
  txBuffer,   \* the part of s->tx.buffer filled since the last send
  sent,       \* all samples handed to LMS_SendStream
  txMem,      \* s->tx.buffer: "null", "live" or "freed"
  fifoMem     \* s->fifo: also "indeterminate" before it is assigned

mainVars == <<pcMain, txMem, fifoMem>>
ringVars == <<head, fifo, pending, produced>>
txVars   == <<tail, txBuffer, sent>>
vars == <<process, pcMain, pcGps, pcTx, gpsLock, ready, head, tail, fifo,
          pending, produced, txBuffer, sent, txMem, fifoMem>>

Init ==
  /\ process = "up"
  /\ pcMain = "malloc" /\ pcGps = "off" /\ pcTx = "off"
  /\ gpsLock = "none"
  /\ ready = FALSE
  /\ head = 0 /\ tail = 0
  /\ fifo = [i \in 0 .. FifoLength - 1 |-> Stale]
  /\ pending = {}
  /\ produced = 0
  /\ txBuffer = <<>> /\ sent = <<>>
  /\ txMem = "null" /\ fifoMem = "indeterminate"

-----------------------------------------------------------------------------
(* The ring.                                                               *)

GetSampleLength ==
  IF head - tail < 0 THEN head - tail + FifoLength ELSE head - tail

(* Mutant: an off-by-one in the test for room.                             *)
RoomOffByOne == GetSampleLength <= NumIqSamples

IsFifoWriteReady == GetSampleLength < NumIqSamples

(* Mutant: an index behind the end of the ring is left there.              *)
WrapTooLate(i) == IF i > FifoLength THEN i - FifoLength ELSE i

Wrap(i) == IF i >= FifoLength THEN i - FifoLength ELSE i

WithBlock(f, at, from) ==
  [i \in DOMAIN f |-> IF i \in at .. at + NumIqSamples - 1
                      THEN from + (i - at) ELSE f[i]]

(* What fifo_read(buffer, samples, s) returns; it reads no more than the   *)
(* ring holds.                                                             *)
ReadCount(samples) ==
  IF GetSampleLength < samples THEN GetSampleLength ELSE samples

FifoRead(n) == [j \in 1 .. n |-> fifo[Wrap(tail + j - 1)]]

-----------------------------------------------------------------------------
(* limeMain().                                                             *)

MainMalloc ==
  /\ pcMain = "malloc"
  /\ \/ /\ txMem' = "live"
        /\ pcMain' = "malloc_fifo"
     \/ /\ "malloc" \in Failures
        /\ txMem' = "null"
        /\ pcMain' = "out"
  /\ UNCHANGED <<process, pcGps, pcTx, gpsLock, ready, ringVars, txVars, fifoMem>>

MainMallocFifo ==
  /\ pcMain = "malloc_fifo"
  /\ \/ /\ fifoMem' = "live"
        /\ pcMain' = "start_gps"
     \/ /\ "malloc" \in Failures
        /\ fifoMem' = "null"
        /\ pcMain' = "out"
  /\ UNCHANGED <<process, pcGps, pcTx, gpsLock, ready, ringVars, txVars, txMem>>

(* The status of start_gps_task is stored and never looked at.             *)
MainStartGps ==
  /\ pcMain = "start_gps"
  /\ \/ pcGps' = "setup"
     \/ "gps_start" \in Failures /\ pcGps' = "off"
  /\ pcMain' = "test_ready"
  /\ UNCHANGED <<process, pcTx, gpsLock, ready, ringVars, txVars, txMem, fifoMem>>

(* while (!s.gps.ready) ...: the test.                                     *)
MainTestReady ==
  /\ pcMain = "test_ready"
  /\ pcMain' = IF ready THEN "fill" ELSE "enter_wait"
  /\ UNCHANGED <<process, pcGps, pcTx, gpsLock, ready, ringVars, txVars, txMem, fifoMem>>

(* ... pthread_cond_wait(initialization_done, tx.lock).                    *)
MainWait ==
  /\ pcMain = "enter_wait"
  /\ pcMain' = "asleep"
  /\ UNCHANGED <<process, pcGps, pcTx, gpsLock, ready, ringVars, txVars, txMem, fifoMem>>

(* if (is_fifo_write_ready(&s)) pthread_cond_signal(fifo_write_ready)      *)
MainFill ==
  /\ pcMain = "fill"
  /\ pcMain' = "start_tx"
  /\ pcGps' = IF IsFifoWriteReady /\ pcGps = "asleep" THEN "relock" ELSE pcGps
  /\ UNCHANGED <<process, pcTx, gpsLock, ready, ringVars, txVars, txMem, fifoMem>>

(* Mutant: limeMain does not join the TX task it started.                  *)
MainStartTxNoJoin ==
  /\ pcMain = "start_tx"
  /\ pcTx' = "start"
  /\ pcMain' = "out"
  /\ UNCHANGED <<process, pcGps, gpsLock, ready, ringVars, txVars, txMem, fifoMem>>

(* pthread_create reports a failure with a positive number, so the test    *)
(* s.status < 0 is never true and limeMain goes on to the join.            *)
MainStartTx ==
  /\ pcMain = "start_tx"
  /\ \/ /\ pcTx' = "start"
        /\ pcMain' = "join"
     \/ /\ "tx_start" \in Failures
        /\ pcTx' = "not_created"
        /\ pcMain' = "join"
  /\ UNCHANGED <<process, pcGps, gpsLock, ready, ringVars, txVars, txMem, fifoMem>>

(* Joining a TX thread that ended: the code of tx_task_realTime never ends.*)
(* Joining a handle that was never set: pthread_join returns an error, or  *)
(* the C library aborts the process.                                       *)
MainJoin ==
  /\ pcMain = "join"
  /\ \/ /\ pcTx \in {"done", "not_created"}
        /\ pcMain' = "out"
        /\ UNCHANGED process
     \/ /\ pcTx = "not_created"
        /\ process' = "abort"
        /\ UNCHANGED pcMain
  /\ UNCHANGED <<pcGps, pcTx, gpsLock, ready, ringVars, txVars, txMem, fifoMem>>

(* out: frees the buffers; s.fifo is uninitialized when the first malloc   *)
(* failed, and freeing a stray pointer ends the process.                   *)
MainOut ==
  /\ pcMain = "out"
  /\ pcMain' = "returned"
  /\ txMem' = IF txMem = "live" THEN "freed" ELSE txMem
  /\ fifoMem' = IF fifoMem = "live" THEN "freed" ELSE fifoMem
  /\ process' \in IF fifoMem = "indeterminate" THEN {"up", "abort"} ELSE {"up"}
  /\ UNCHANGED <<pcGps, pcTx, gpsLock, ready, ringVars, txVars>>

-----------------------------------------------------------------------------
(* runCore_realTime().                                                     *)

(* Reading the trajectory and the ephemerides; every error is an exit(1).  *)
GpsSetup ==
  /\ pcGps = "setup"
  /\ \/ pcGps' = (IF NumBlocks > 0 THEN "generate" ELSE "done") /\ UNCHANGED process
     \/ "gps_setup" \in Failures /\ process' = "exit" /\ UNCHANGED pcGps
  /\ UNCHANGED <<mainVars, pcTx, gpsLock, ready, ringVars, txVars>>

(* A block is computed into iq_buff; the first one also sets gps.ready.    *)
GpsGenerate ==
  /\ pcGps = "generate"
  /\ ready' = TRUE
  /\ pcGps' = IF ready THEN "lock" ELSE "signal_init"
  /\ UNCHANGED <<process, mainVars, pcTx, gpsLock, ringVars, txVars>>

GpsSignalInit ==
  /\ pcGps = "signal_init"
  /\ pcMain' = IF pcMain = "asleep" THEN "test_ready" ELSE pcMain
  /\ pcGps' = "lock"
  /\ UNCHANGED <<process, pcTx, gpsLock, ready, ringVars, txVars, txMem, fifoMem>>

(* Mutant: "if" instead of "while" around the wait for room.               *)
GpsLockNoRetest ==
  /\ pcGps \in {"lock", "relock"}
  /\ gpsLock = "none"
  /\ gpsLock' = "gps"
  /\ pcGps' = IF pcGps = "lock" THEN "test" ELSE "unlock"
  /\ UNCHANGED <<process, mainVars, pcTx, ready, ringVars, txVars>>

(* The first acquisition of gps.lock, and the one inside pthread_cond_wait.*)
GpsLock ==
  /\ pcGps \in {"lock", "relock"}
  /\ gpsLock = "none"
  /\ gpsLock' = "gps"
  /\ pcGps' = "test"
  /\ UNCHANGED <<process, mainVars, pcTx, ready, ringVars, txVars>>

GpsTest ==
  /\ pcGps = "test"
  /\ pcGps' = IF IsFifoWriteReady THEN "unlock" ELSE "enter_wait"
  /\ UNCHANGED <<process, mainVars, pcTx, gpsLock, ready, ringVars, txVars>>

(* Releasing a mutex, as the wait does, makes the thread's earlier stores  *)
(* visible: a late block delays the release.                               *)
GpsWait ==
  /\ pcGps = "enter_wait"
  /\ pending = {}
  /\ gpsLock' = "none"
  /\ pcGps' = "asleep"
  /\ UNCHANGED <<process, mainVars, pcTx, ready, ringVars, txVars>>

GpsUnlock ==
  /\ pcGps = "unlock"
  /\ pending = {}
  /\ gpsLock' = "none"
  /\ pcGps' = "copy"
  /\ UNCHANGED <<process, mainVars, pcTx, ready, ringVars, txVars>>

(* memcpy(&s->fifo[s->head * 2], ...) without the lock.                    *)
GpsCopy ==
  /\ pcGps = "copy"
  /\ \/ /\ fifo' = WithBlock(fifo, head, produced)
        /\ UNCHANGED pending
     \/ /\ WeakMemory
        /\ pending' = {[at |-> head, from |-> produced]}
        /\ UNCHANGED fifo
  /\ pcGps' = "publish"
  /\ UNCHANGED <<process, mainVars, pcTx, gpsLock, ready, head, produced, txVars>>

(* s->head += NUM_IQ_SAMPLES and its wrap, without the lock.  Built with   *)
(* -O3 (CMakeLists.txt:7) the two assignments are one store.               *)
GpsPublish ==
  /\ pcGps = "publish"
  /\ head' = Wrap(head + NumIqSamples)
  /\ produced' = produced + NumIqSamples
  /\ pcGps' = "signal_read"
  /\ UNCHANGED <<process, mainVars, pcTx, gpsLock, ready, fifo, pending, txVars>>

(* pthread_cond_signal(fifo_read_ready), and the end of the round.         *)
GpsSignalRead ==
  /\ pcGps = "signal_read"
  /\ pcTx' = IF pcTx = "asleep" THEN "relock" ELSE pcTx
  /\ pcGps' = IF produced < NumBlocks * NumIqSamples THEN "generate" ELSE "done"
  /\ UNCHANGED <<process, mainVars, gpsLock, ready, ringVars, txVars>>

(* The late block reaches memory.                                          *)
StoreVisible ==
  /\ \E block \in pending :
       /\ fifo' = WithBlock(fifo, block.at, block.from)
       /\ pending' = pending \ {block}
  /\ UNCHANGED <<process, mainVars, pcGps, pcTx, gpsLock, ready, head, produced, txVars>>

-----------------------------------------------------------------------------
(* tx_task_realTime().                                                     *)

TxStart ==
  /\ pcTx = "start"
  /\ pcTx' = "lock"
  /\ UNCHANGED <<process, mainVars, pcGps, gpsLock, ready, ringVars, txVars>>

(* Mutant: "if" instead of "while" around the wait for data.               *)
TxLockNoRetest ==
  /\ pcTx \in {"lock", "relock"}
  /\ gpsLock = "none"
  /\ gpsLock' = "tx"
  /\ pcTx' = IF pcTx = "lock" THEN "test" ELSE "read"
  /\ UNCHANGED <<process, mainVars, pcGps, ready, ringVars, txVars>>

TxLock ==
  /\ pcTx \in {"lock", "relock"}
  /\ gpsLock = "none"
  /\ gpsLock' = "tx"
  /\ pcTx' = "test"
  /\ UNCHANGED <<process, mainVars, pcGps, ready, ringVars, txVars>>

TxTest ==
  /\ pcTx = "test"
  /\ pcTx' = IF GetSampleLength = 0 THEN "enter_wait" ELSE "read"
  /\ UNCHANGED <<process, mainVars, pcGps, gpsLock, ready, ringVars, txVars>>

TxWait ==
  /\ pcTx = "enter_wait"
  /\ gpsLock' = "none"
  /\ pcTx' = "asleep"
  /\ UNCHANGED <<process, mainVars, pcGps, ready, ringVars, txVars>>

TxRead ==
  /\ pcTx = "read"
  /\ LET n == ReadCount(SamplesPerBuffer - Len(txBuffer))
     IN /\ txBuffer' = txBuffer \o FifoRead(n)
        /\ tail' = Wrap(tail + n)
  /\ pcTx' = "unlock"
  /\ UNCHANGED <<process, mainVars, pcGps, gpsLock, ready, ringVars, sent>>

TxUnlock ==
  /\ pcTx = "unlock"
  /\ gpsLock' = "none"
  /\ pcTx' = "signal_write"
  /\ UNCHANGED <<process, mainVars, pcGps, ready, ringVars, txVars>>

(* Mutant: the TX task does not signal that it made room.                  *)
TxNoSignal ==
  /\ pcTx = "signal_write"
  /\ pcTx' = IF Len(txBuffer) < SamplesPerBuffer THEN "lock" ELSE "send"
  /\ UNCHANGED <<process, mainVars, pcGps, gpsLock, ready, ringVars, txVars>>

TxSignalWrite ==
  /\ pcTx = "signal_write"
  /\ pcGps' = IF pcGps = "asleep" THEN "relock" ELSE pcGps
  /\ pcTx' = IF Len(txBuffer) < SamplesPerBuffer THEN "lock" ELSE "send"
  /\ UNCHANGED <<process, mainVars, gpsLock, ready, ringVars, txVars>>

(* LMS_SendStream(&tx_stream, s->tx.buffer, ...); its result is not used.  *)
TxSend ==
  /\ pcTx = "send"
  /\ sent' = sent \o txBuffer
  /\ txBuffer' = <<>>
  /\ pcTx' = "lock"
  /\ UNCHANGED <<process, mainVars, pcGps, gpsLock, ready, ringVars, tail>>

-----------------------------------------------------------------------------
(* POSIX lets pthread_cond_wait return without a signal; nothing makes it. *)
SpuriousWakeup ==
  \/ /\ pcMain = "asleep" /\ pcMain' = "test_ready"
     /\ UNCHANGED <<process, pcGps, pcTx, gpsLock, ready, ringVars, txVars, txMem, fifoMem>>
  \/ /\ pcGps = "asleep" /\ pcGps' = "relock"
     /\ UNCHANGED <<process, mainVars, pcTx, gpsLock, ready, ringVars, txVars>>
  \/ /\ pcTx = "asleep" /\ pcTx' = "relock"
     /\ UNCHANGED <<process, mainVars, pcGps, gpsLock, ready, ringVars, txVars>>

(* limeMain returned and its sim_t and buffers are gone: the next access of*)
(* a running task may end the process (or go unnoticed: the task's steps). *)
UseAfterReturn ==
  /\ pcMain = "returned"
  /\ pcGps \notin {"off", "done", "asleep"}
  /\ process' = "abort"
  /\ UNCHANGED <<mainVars, pcGps, pcTx, gpsLock, ready, ringVars, txVars>>

MainStep ==
  /\ process = "up"
  /\ \/ MainMalloc \/ MainMallocFifo \/ MainStartGps \/ MainTestReady
     \/ MainWait \/ MainFill \/ MainStartTx \/ MainJoin \/ MainOut

GpsStep ==
  /\ process = "up"
  /\ \/ GpsSetup \/ GpsGenerate \/ GpsSignalInit \/ GpsLock \/ GpsTest
     \/ GpsWait \/ GpsUnlock \/ GpsCopy \/ GpsPublish \/ GpsSignalRead

TxStep ==
  /\ process = "up"
  /\ \/ TxStart \/ TxLock \/ TxTest \/ TxWait \/ TxRead \/ TxUnlock
     \/ TxSignalWrite \/ TxSend

Environment == process = "up" /\ (StoreVisible \/ SpuriousWakeup \/ UseAfterReturn)

Next == MainStep \/ GpsStep \/ TxStep \/ Environment

(* Every thread that can run is eventually scheduled, and a store reaches  *)
(* memory some time.  No wakeup is owed to a thread nobody signals, and    *)
(* spurious wakeups do not go on for ever.                                 *)
Fairness ==
  /\ WF_vars(MainStep) /\ WF_vars(GpsStep) /\ WF_vars(TxStep)
  /\ WF_vars(process = "up" /\ StoreVisible)
  /\ <>[][~SpuriousWakeup]_vars

Spec == Init /\ [][Next]_vars /\ Fairness

-----------------------------------------------------------------------------
(* Every variable has a value of its kind (the sizes of the ring, the      *)
(* buffer and the block at work are part of it).                           *)
TypeOK ==
  /\ process \in {"up", "exit", "abort"}
  /\ pcMain \in {"malloc", "malloc_fifo", "start_gps", "test_ready", "enter_wait",
                 "asleep", "fill", "start_tx", "join", "out", "returned"}
  /\ pcGps \in {"off", "setup", "generate", "signal_init", "lock", "relock", "test",
                "enter_wait", "asleep", "unlock", "copy", "publish", "signal_read",
                "done"}
  /\ pcTx \in {"off", "not_created", "start", "lock", "relock", "test", "enter_wait",
               "asleep", "read", "unlock", "signal_write", "send", "done"}
  /\ gpsLock \in {"none", "gps", "tx"}
  /\ ready \in BOOLEAN
  /\ head \in {0, NumIqSamples} /\ tail \in 0 .. FifoLength - 1
  /\ fifo \in [0 .. FifoLength - 1 -> Int]
  /\ pending \subseteq [at : {0, NumIqSamples}, from : Nat]
  /\ produced \in Nat
  /\ txBuffer \in Seq(Int) /\ Len(txBuffer) <= SamplesPerBuffer
  /\ sent \in Seq(Int)
  /\ txMem \in {"null", "live", "freed"}
  /\ fifoMem \in {"indeterminate", "null", "live", "freed"}

Taken == Len(sent) + Len(txBuffer)      \* samples read out of the ring so far
Unread == produced - Taken

(* What the TX task took out of the ring, sent or not, is the generated    *)
(* signal from its first sample on: no loss, repetition or reordering by   *)
(* the unlocked writer and the wrapping reader.                            *)
SignalInOrder ==
  /\ \A k \in 1 .. Len(sent) : sent[k] = k - 1
  /\ \A k \in 1 .. Len(txBuffer) : txBuffer[k] = Len(sent) + k - 1

(* While the GPS task copies a block without the lock, the slots it writes *)
(* are inside the ring and hold no sample the TX task has yet to read: the *)
(* test for room, made under the lock, is still true when it is used.      *)
NoUnreadOverwritten ==
  pcGps = "copy" =>
    /\ head + NumIqSamples <= FifoLength
    /\ \A j \in 0 .. Unread - 1 :
         Wrap(tail + j) \notin head .. head + NumIqSamples - 1

(* get_sample_length tells an empty ring from a full one: what it returns  *)
(* is exactly what was published and not yet read.                         *)
LengthIsUnread == GetSampleLength = Unread

(* The assertion left in a comment of the TX task (lime_main.c:173): when  *)
(* it reads, there is something to read.                                   *)
ReadFindsData == pcTx = "read" => GetSampleLength > 0

(* With late stores the TX task may read what a slot held before: only     *)
(* while the block it reads is still on its way to memory, never later.    *)
WrongSampleOnlyWhileBlockLate ==
  [][ pcTx = "read" =>
        \A k \in Len(txBuffer) + 1 .. Len(txBuffer') :
          txBuffer'[k] = Len(sent) + k - 1 \/ pending # {} ]_vars

(* The main thread sleeps, or is about to, though gps.ready is set and the *)
(* only signal it could get has been sent.                                 *)
InitWakeupLost ==
  ready /\ pcGps # "signal_init" /\ pcMain \in {"enter_wait", "asleep"}

(* The TX task sleeps though there is data and no signal is on its way.    *)
ReadWakeupLost == pcTx = "asleep" /\ GetSampleLength > 0 /\ pcGps # "signal_read"

(* limeMain returned, the GPS task never got ready, it ended with the      *)
(* trajectory played, or one of the two wakeups was lost.                  *)
StopExplained ==
  \/ pcMain = "returned"
  \/ pcMain = "asleep" /\ pcGps \in {"off", "done"} /\ ~ready
  \/ pcTx = "asleep" /\ pcGps = "done" /\ Unread = 0
  \/ InitWakeupLost
  \/ ReadWakeupLost

(* The pipeline stops only for one of these reasons: there is no other     *)
(* deadlock.                                                               *)
StopsOnlyWhereExplained ==
  (process = "up" /\ pending = {} /\ ~ENABLED (MainStep \/ GpsStep \/ TxStep)) =>
    StopExplained

(* The same, with the guards spelled out: every thread is over, asleep or  *)
(* waits for the lock, for its block to reach memory or for a thread.      *)
AllBlocked ==
  /\ \/ pcMain \in {"asleep", "returned"}
     \/ pcMain = "join" /\ pcTx \notin {"done", "not_created"}
  /\ \/ pcGps \in {"off", "done", "asleep"}
     \/ pcGps \in {"lock", "relock"} /\ gpsLock # "none"
     \/ pcGps \in {"enter_wait", "unlock"} /\ pending # {}
  /\ \/ pcTx \in {"off", "not_created", "done", "asleep"}
     \/ pcTx \in {"lock", "relock"} /\ gpsLock # "none"

BlockedOnlyWhereExplained ==
  process = "up" /\ pending = {} /\ AllBlocked => StopExplained

(* The ring is freed under a GPS task that still uses it only after the TX *)
(* task could not be created.                                              *)
FreedInUseOnlyAfterTxFailure ==
  (fifoMem = "freed" /\ pcGps \notin {"off", "done"}) => pcTx = "not_created"

(* Where nothing fails, the whole trajectory is generated and reaches the  *)
(* TX task, unless one of the two wakeups is lost on the way.              *)
DeliveredUnlessWakeupLost ==
  Failures = {} =>
    <>(Taken >= NumBlocks * NumIqSamples \/ InitWakeupLost \/ ReadWakeupLost)

(* The pipeline implements the gapless signal of SignalStream.             *)
Stream == INSTANCE SignalStream WITH
  BlockSize <- NumIqSamples, BufferSize <- SamplesPerBuffer,
  generated <- produced, played <- sent

PlaysTheSignal == Stream!Spec

-----------------------------------------------------------------------------
(* The inductive invariant behind the properties above.                    *)

(* A task runs only after it was created, gps.lock has the owner the       *)
(* program counters say, the TX task reads only data that is there into    *)
(* room that is there, and the GPS task keeps its room for a block from    *)
(* the test until it has published the block.                              *)
Control ==
  /\ pcMain \in {"malloc", "malloc_fifo", "start_gps"} => pcGps = "off"
  /\ pcMain \in {"malloc", "malloc_fifo", "start_gps", "test_ready", "enter_wait",
                "asleep", "fill", "start_tx"} => pcTx = "off"
  /\ gpsLock = "gps" <=> pcGps \in {"test", "enter_wait", "unlock"}
  /\ gpsLock = "tx" <=> pcTx \in {"test", "enter_wait", "read", "unlock"}
  /\ pcTx = "read" => GetSampleLength > 0
  /\ pcTx \in {"start", "lock", "relock", "test", "enter_wait", "asleep", "read"} =>
       Len(txBuffer) < SamplesPerBuffer
  /\ pcTx = "send" => Len(txBuffer) = SamplesPerBuffer
  /\ pcTx \in {"off", "not_created"} => txBuffer = <<>>
  /\ pcGps \in {"unlock", "copy", "publish"} => GetSampleLength < NumIqSamples

(* The ring as it is once the late block has reached memory.               *)
Memories ==
  IF pending = {} THEN {fifo} ELSE {WithBlock(fifo, b.at, b.from) : b \in pending}

(* No more than one block is late, and none when the next one is copied.   *)
OneLateBlock ==
  /\ \A b, c \in pending : b = c
  /\ pcGps = "copy" => pending = {}

(* The unread slots hold the samples that come next, and before its        *)
(* publication the new block holds those after them, once both are in      *)
(* memory.                                                                 *)
Contents ==
  \A memory \in Memories :
    /\ \A j \in 0 .. Unread - 1 : memory[Wrap(tail + j)] = Taken + j
    /\ pcGps = "publish" =>
         \A j \in 0 .. NumIqSamples - 1 : memory[head + j] = produced + j

(* The TX task starts after the first block, and a GPS task that waits for *)
(* room has none, or is about to be told of it: no wakeup is lost here.    *)
Progress ==
  /\ ready => pcGps \notin {"off", "setup"}
  /\ ~ready => pcGps \in {"off", "setup", "generate", "done"}
  /\ pcMain \in {"fill", "start_tx", "join"} => ready
  /\ pcMain = "join" => pcTx # "off"
  /\ pcTx # "done"
  /\ pcGps = "enter_wait" => ~IsFifoWriteReady
  /\ pcGps = "asleep" => ~IsFifoWriteReady \/ pcTx \in {"unlock", "signal_write"}

(* limeMain gets to out: before it started a GPS task, or because there is *)
(* no TX task to join; only there the ring is freed.                       *)
Leaving ==
  /\ pcMain \in {"out", "returned"} => pcGps = "off" \/ pcTx = "not_created"
  /\ fifoMem = "freed" => pcMain = "returned"

IInv ==
  /\ TypeOK
  /\ Control
  /\ LengthIsUnread
  /\ OneLateBlock /\ Contents
  /\ Progress /\ Leaving
  /\ ~WeakMemory => pending = {} /\ SignalInOrder

-----------------------------------------------------------------------------
(* What comments and messages of the code say, and the code does not do.   *)

(* "Wait utill FIFO write is ready" (gpssim.c:3621): with a TX task at work*)
(* the GPS task's wait for room ends.                                      *)
WriteWaitEnds == (pcGps = "lock" /\ pcTx # "off") ~> (pcGps = "copy")
=============================================================================
