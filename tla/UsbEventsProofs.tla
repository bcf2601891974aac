--------------------------- MODULE UsbEventsProofs ---------------------------
(***************************************************************************)
(* Proofs about UsbEvents, for any descriptors, runs and enumerations: the  *)
(* pipe holds a byte exactly while something is pending, a handle is closed *)
(* alone, nobody works on a freed transfer, and no thread sleeps with       *)
(* nobody left to wake it.  Behind them, proofs about the transfers of the  *)
(* stream that the same event thread reports, UsbSending.                   *)
(***************************************************************************)
EXTENDS UsbEvents, UsbSending, FiniteSetTheorems, TLAPS

(* The labels, by what a thread at one of them holds.                       *)
Neutral     == {"next", "try", "trylock", "wait", "recheck", "asleep"}
Owning      == {"locked", "unlock", "release"} \cup PollSteps
Unlocking   == {"unlock", "release", "broadcast"}
Timeouts    == {"timeouts"} \cup TimeoutSteps
Opening     == {"run", "connect", "open", "list", "submit", "close"}
Closing     == {"lock", "relock", "drop", "delist", "unpoll", "close_fd", "closed"}
Waiting     == {"sync", "give_up"}
EventLabels == Neutral \cup Owning \cup {"broadcast"} \cup Timeouts
Labels      == EventLabels \cup Opening \cup Closing \cup SubmitSteps \cup Waiting

Types ==
  /\ pc \in [Thread -> Labels] /\ pc["events"] \in EventLabels
  /\ owner \in Thread \cup {NoThread}
  /\ depth \in Nat /\ deviceClose \in {0, 1} /\ hotplug \in Nat /\ pipe \in Nat
  /\ urb \in {"none", "kernel", "returned", "taken"}

(* Where the program has a transfer, and where it is closing.               *)
Phases ==
  /\ pc["program"] \in Opening \cup Closing => ~alive
  /\ pc["program"] \in SubmitSteps \cup Waiting \cup Timeouts
                       \cup (EventLabels \ Unlocking) => alive
  /\ pc["program"] \in Closing => deviceClose = 1
  /\ pc["program"] \notin Closing \cup Unlocking => deviceClose = 0
  /\ alive => deviceClose = 0

(* Who has the events lock, and how often.                                  *)
Owns(t) ==
  /\ pc[t] \in Owning => owner = t
  /\ pc[t] \in Neutral => owner # t
  /\ pc[t] = "release" => ~active

Owners ==
  /\ Owns("events") /\ Owns("program")
  /\ pc["events"] = "broadcast" => owner # "events"
  /\ pc["program"] = "broadcast" => (owner = "program" <=> deviceClose = 1)
  /\ pc["program"] \in Closing \ {"lock"} => owner = "program"
  /\ pc["program"] \in Opening \cup SubmitSteps \cup Waiting \cup {"lock"} => owner # "program"
  /\ active => owner # NoThread
  /\ owner = NoThread => depth = 0
  /\ owner = "events" => depth = 1
  /\ owner = "program" =>
       depth = IF \/ pc["program"] = "drop"
                  \/ pc["program"] \in {"unlock", "release"} /\ deviceClose = 1
               THEN 2 ELSE 1

(* What is true of the transfer while somebody works on it.                 *)
Works(t) ==
  /\ pc[t] = "reaped" => urb = "taken"
  /\ pc[t] \in {"unfly", "flags", "callback"} =>
       alive /\ urb = "none" /\ pc["program"] \notin SubmitSteps
  /\ pc[t] \in {"flags", "callback"} => ~listed
  /\ pc[t] \in TimeoutSteps => listed
  /\ completed => pc[t] \notin ReapSteps

Worked ==
  /\ Works("events") /\ Works("program")
  /\ listed \/ completed \/ urb # "none" => alive
  /\ urb # "none" => pc["program"] \notin {"fly", "urb", "refused", "withdraw"}
  /\ completed => urb = "none" /\ ~listed
  /\ completed => pc["program"] \notin SubmitSteps

IInv == Types /\ Phases /\ Owners /\ Worked /\ PipeMatchesEvents /\ SleeperIsWoken

(***************************************************************************)
(* Every step keeps IInv. A step says where a thread goes, so that what a    *)
(* label means is needed throughout; the leaves add the action and the       *)
(* helpers it calls.                                                         *)
(***************************************************************************)
USE DEF At, Go, Thread, NoThread
USE DEF Neutral, Owning, Unlocking, Timeouts, Opening, Closing, Waiting, EventLabels, Labels,
        SubmitSteps, TimeoutSteps, ReapSteps, PollSteps
USE DEF TransferLocked, FlyingLocked, DevsLocked, WaitersLocked
USE DEF vars, signals, lockVars, pollVars, handleVars, transferVars, UnchangedButTransfer
USE DEF IInv, Types, Phases, Owners, Owns, Worked, Works, PipeMatchesEvents, SleeperIsWoken,
        Pending

LEMMA InitIInv == Init => IInv
  BY SMTT(30) DEF Init

(* Taking the events lock, waiting for it and giving it up.                 *)
LEMMA LockIInv ==
  ASSUME IInv, NEW t \in Thread,
         \/ GetNextTimeout(t) \/ TryLockEvents(t) \/ TryEventsLock(t) \/ BecomeActive(t)
         \/ LockWaiters(t) \/ WaitForEvent(t) \/ WaitExpires(t)
         \/ UnlockEvents(t) \/ ReleaseEvents(t) \/ Broadcast(t)
  PROVE  IInv'
<1>1. CASE GetNextTimeout(t)
  BY <1>1, SMTT(30) DEF GetNextTimeout, MustTimeOut
<1>2. CASE TryLockEvents(t)
  BY <1>2, SMTT(30) DEF TryLockEvents
<1>3. CASE TryEventsLock(t)
  BY <1>3, SMTT(30) DEF TryEventsLock
<1>4. CASE BecomeActive(t)
  BY <1>4, SMTT(30) DEF BecomeActive, Completed
<1>5. CASE LockWaiters(t)
  BY <1>5, SMTT(30) DEF LockWaiters, Completed, Return
<1>6. CASE WaitForEvent(t)
  BY <1>6, SMTT(30) DEF WaitForEvent
<1>7. CASE WaitExpires(t)
  BY <1>7, SMTT(30) DEF WaitExpires
<1>8. CASE UnlockEvents(t)
  BY <1>8, SMTT(30) DEF UnlockEvents
<1>9. CASE ReleaseEvents(t)
  BY <1>9, SMTT(30) DEF ReleaseEvents
<1>10. CASE Broadcast(t)
  BY <1>10, SMTT(30) DEF Broadcast, AfterUnlock, Return
<1> QED BY <1>1, <1>2, <1>3, <1>4, <1>5, <1>6, <1>7, <1>8, <1>9, <1>10

(* A round of handle_events, and the completion of the transfer it reaps.   *)
LEMMA PollIInv ==
  ASSUME IInv, NEW t \in Thread,
         \/ PreparePoll(t) \/ Poll(t) \/ HandlePipe(t) \/ ReapForHandle(t) \/ BackendDone(t)
         \/ HandleCompletion(t) \/ RemoveFromFlyingList(t) \/ MarkCompleted(t)
         \/ SyncTransferCb(t)
  PROVE  IInv'
<1>1. CASE PreparePoll(t)
  BY <1>1, SMTT(30) DEF PreparePoll, Cleared
<1>2. CASE Poll(t)
  BY <1>2, SMTT(30) DEF Poll
<1>3. CASE HandlePipe(t)
  BY <1>3, SMTT(30) DEF HandlePipe, Cleared, Handled
<1>4. CASE ReapForHandle(t)
  BY <1>4, SMTT(30) DEF ReapForHandle
<1>5. CASE BackendDone(t)
  BY <1>5, SMTT(30) DEF BackendDone, Handled
<1>6. CASE HandleCompletion(t)
  BY <1>6, SMTT(30) DEF HandleCompletion
<1>7. CASE RemoveFromFlyingList(t)
  BY <1>7, SMTT(30) DEF RemoveFromFlyingList
<1>8. CASE MarkCompleted(t)
  BY <1>8, SMTT(30) DEF MarkCompleted
<1>9. CASE SyncTransferCb(t)
  BY <1>9, SMTT(30) DEF SyncTransferCb
<1> QED BY <1>1, <1>2, <1>3, <1>4, <1>5, <1>6, <1>7, <1>8, <1>9

(* The timeout of a transfer, which either thread may handle.               *)
LEMMA TimeoutIInv ==
  ASSUME IInv, NEW t \in Thread,
         \/ HandleTimeouts(t) \/ LoadFlags(t) \/ StoreFlags(t) \/ CancelTimedOut(t)
         \/ MarkTimedOut(t)
  PROVE  IInv'
<1>1. CASE HandleTimeouts(t)
  BY <1>1, SMTT(30) DEF HandleTimeouts, MustTimeOut, AfterTimeouts, Return
<1>2. CASE LoadFlags(t)
  BY <1>2, SMTT(30) DEF LoadFlags
<1>3. CASE StoreFlags(t)
  BY <1>3, SMTT(30) DEF StoreFlags
<1>4. CASE CancelTimedOut(t)
  BY <1>4, SMTT(30) DEF CancelTimedOut, CancelTransfer, Cancellable, AfterTimeouts, Return
<1>5. CASE MarkTimedOut(t)
  BY <1>5, SMTT(30) DEF MarkTimedOut, AfterTimeouts, Return
<1> QED BY <1>1, <1>2, <1>3, <1>4, <1>5

(* A handle is opened; a synchronous transfer is submitted and waited for.  *)
LEMMA TransferIInv ==
  ASSUME IInv,
         \/ BeginRun \/ GetDevice \/ AddPollfd \/ ListHandle
         \/ Submit \/ AddToFlyingList \/ SubmitUrb \/ MarkInFlight \/ MarkRefused \/ Withdraw
         \/ WaitForCompletion \/ GiveUp
  PROVE  IInv'
<1>1. CASE BeginRun
  BY <1>1, SMTT(30) DEF BeginRun
<1>2. CASE GetDevice
  BY <1>2, SMTT(30) DEF GetDevice, Signalled
<1>3. CASE AddPollfd
  BY <1>3, SMTT(30) DEF AddPollfd, Signalled
<1>4. CASE ListHandle
  BY <1>4, SMTT(30) DEF ListHandle
<1>5. CASE Submit
  BY <1>5, SMTT(30) DEF Submit
<1>6. CASE AddToFlyingList
  BY <1>6, SMTT(30) DEF AddToFlyingList
<1>7. CASE SubmitUrb
  BY <1>7, SMTT(30) DEF SubmitUrb
<1>8. CASE MarkInFlight
  BY <1>8, SMTT(30) DEF MarkInFlight
<1>9. CASE MarkRefused
  BY <1>9, SMTT(30) DEF MarkRefused
<1>10. CASE Withdraw
  BY <1>10, SMTT(30) DEF Withdraw, Freed
<1>11. CASE WaitForCompletion
  <2>1. CASE completed
    <3>1. CASE stage < Enumerations
      BY <1>11, <2>1, <3>1, SMTT(30) DEF WaitForCompletion, Freed
    <3>2. CASE ~(stage < Enumerations)
      BY <1>11, <2>1, <3>2, SMTT(30) DEF WaitForCompletion, Freed
    <3> QED BY <3>1, <3>2
  <2>2. CASE ~completed
    BY <1>11, <2>2, SMTT(30) DEF WaitForCompletion
  <2> QED BY <2>1, <2>2
<1>12. CASE GiveUp
  BY <1>12, SMTT(30) DEF GiveUp, CancelTransfer, Cancellable
<1> QED BY <1>1, <1>2, <1>3, <1>4, <1>5, <1>6, <1>7, <1>8, <1>9, <1>10, <1>11, <1>12

(* A handle is closed.                                                      *)
LEMMA CloseIInv ==
  ASSUME IInv,
         \/ AnnounceClose \/ LockEvents \/ LockAgain \/ DropFlying \/ DelistHandle
         \/ RemovePollfd \/ CloseFd \/ CloseDone
  PROVE  IInv'
<1>1. CASE AnnounceClose
  BY <1>1, SMTT(30) DEF AnnounceClose, Signalled
<1>2. CASE LockEvents
  BY <1>2, SMTT(30) DEF LockEvents
<1>3. CASE LockAgain
  BY <1>3, SMTT(30) DEF LockAgain
<1>4. CASE DropFlying
  BY <1>4, SMTT(30) DEF DropFlying
<1>5. CASE DelistHandle
  BY <1>5, SMTT(30) DEF DelistHandle
<1>6. CASE RemovePollfd
  BY <1>6, SMTT(30) DEF RemovePollfd, Signalled
<1>7. CASE CloseFd
  BY <1>7, SMTT(30) DEF CloseFd
<1>8. CASE CloseDone
  BY <1>8, SMTT(30) DEF CloseDone, Cleared
<1> QED BY <1>1, <1>2, <1>3, <1>4, <1>5, <1>6, <1>7, <1>8

(* IInv is inductive: the pipe, the events lock and the transfer stay as the *)
(* threads' places say, whoever takes the next step.                         *)
LEMMA NextIInv == IInv /\ [Next]_vars => IInv'
<1> SUFFICES ASSUME IInv, [Next]_vars PROVE IInv'
  OBVIOUS
<1>1. ASSUME NEW t \in Thread, Handling(t) PROVE IInv'
  BY ONLY ZenonT(40), <1>1, IInv, LockIInv, PollIInv, TimeoutIInv DEF Handling
<1>2. CASE Program
  BY ONLY <1>1, <1>2, IInv, TransferIInv, CloseIInv DEF Program, Thread
<1>3. CASE Answer
  BY <1>3, SMTT(30) DEF Answer
<1>4. CASE Expire
  BY <1>4, SMTT(30) DEF Expire
<1>5. CASE UNCHANGED vars
  BY <1>5, SMTT(30)
<1> QED BY <1>1, <1>2, <1>3, <1>4, <1>5 DEF Next

HIDE DEF vars, IInv, PipeMatchesEvents, SleeperIsWoken

(* The inductive invariant, for any number of descriptors, runs and          *)
(* enumerations.                                                             *)
THEOREM Invariant == Spec => []IInv
  BY InitIInv, NextIInv, PTL DEF Spec

(* The event pipe of core.c and io.c holds one byte while something is       *)
(* pending and none otherwise.                                               *)
THEOREM PipeCorrect == Spec => []PipeMatchesEvents
<1>1. IInv => PipeMatchesEvents
  BY DEF IInv
<1> QED BY <1>1, Invariant, PTL

(* While libusb_close takes a handle apart, the other thread neither polls    *)
(* nor reaps, though do_close unlocks the recursive events lock half way.     *)
THEOREM CloseExcludes == Spec => []ClosedAlone
<1>1. IInv => ClosedAlone
  BY SMTT(30) DEF IInv, ClosedAlone
<1> QED BY <1>1, Invariant, PTL

(* Neither a completion nor a timeout works on a transfer that               *)
(* libusb_control_transfer or libusb_bulk_transfer has freed.                *)
THEOREM TransferNotFreed == Spec => []TransferAlive
<1>1. IInv => TransferAlive
  BY SMTT(30) DEF IInv, TransferAlive
<1> QED BY <1>1, Invariant, PTL

(* A thread in libusb_wait_for_event is never left with nobody to wake it.    *)
THEOREM NoSleeperForgotten == Spec => []SleeperIsWoken
<1>1. IInv => SleeperIsWoken
  BY DEF IInv
<1> QED BY <1>1, Invariant, PTL
-----------------------------------------------------------------------------
(* The contexts of the transmit thread, UsbSending, whose transfers the      *)
(* event thread reports.                                                     *)

(* What the contexts depend on.                                              *)
Steady == UNCHANGED <<pcTx, bi, handles, bufferUsed, at, used>>

LEMMA SendInit ==
  ASSUME SendingSizes, SendingInit
  PROVE  LoansIInv
<1> USE DEF SendingInit, SendingSizes, Buffers, Contexts
<1>1. TxType
  BY DEF TxType
<1>2. InUse = {}
  BY DEF InUse
<1>3. Loans
  BY <1>2 DEF Loans, Held
<1>4. QED BY <1>1, <1>3 DEF LoansIInv

LEMMA SteadyKeepsLoans ==
  ASSUME LoansIInv, Steady
  PROVE  LoansIInv'
  BY DEF Steady, LoansIInv, TxType, Loans, Held, InUse

(* A step of the transmit thread that moves on with its buffers and contexts *)
(* as they are.                                                              *)
LEMMA MoveKeepsLoans ==
  ASSUME SendingSizes, LoansIInv, UNCHANGED <<bi, handles, bufferUsed, used>>,
         \/ TxTurn \/ TxWaited \/ TxTimeout \/ TxFill \/ TxCancel
         \/ TxCancelled \/ TxStart
  PROVE  LoansIInv'
<1>1. Held' = Held /\ InUse' = InUse
  BY DEF Held, InUse
<1>2. at' \in 0 .. NumContexts
  BY DEF LoansIInv, TxType, SendingSizes, TxTurn, TxWaited,
     TxTimeout, TxFill, TxCancel, TxCancelled, TxStart
<1>3. TxType'
  BY <1>2 DEF LoansIInv, TxType
<1>4. Loans'
  <2> USE <1>1 DEF LoansIInv, Loans
  <2>1. CASE TxTurn
    BY <2>1 DEF TxTurn
  <2>2. CASE TxWaited
    <3>1. pcTx = "wait" /\ pcTx' = "finish" /\ handles[bi] # NoHandle
      BY <2>2 DEF TxWaited, IsDone, IsUsed
    <3>2. bufferUsed[bi]
      BY <3>1
    <3>3. /\ {c \in Contexts : used[c]}' = {c \in Contexts : used[c]}
          /\ \A a, b \in InUse' : handles'[a] = handles'[b] => a = b
      BY <3>1
    <3>4. QED BY <3>1, <3>2, <3>3
  <2>3. CASE TxTimeout
    BY <2>3 DEF TxTimeout
  <2>4. CASE TxFill
    BY <2>4 DEF TxFill
  <2>5. CASE TxCancel \/ TxCancelled
    BY <2>5 DEF TxCancel, TxCancelled
  <2>6. CASE TxStart
    BY <2>6 DEF TxStart, InUse, Held
  <2>7. QED BY <2>1, <2>2, <2>3, <2>4, <2>5, <2>6
<1>5. QED BY <1>3, <1>4 DEF LoansIInv

LEMMA FinishKeepsLoans ==
  ASSUME SendingSizes, LoansIInv, TxFinish
  PROVE  LoansIInv'
<1>1. /\ bi' = bi /\ handles' = handles /\ at' = at
      /\ used' = [used EXCEPT ![handles[bi]] = FALSE]
      /\ bufferUsed' = [bufferUsed EXCEPT ![bi] = FALSE]
      /\ pcTx = "finish" /\ pcTx' = "fill"
  BY DEF TxFinish, Release
<1>2. TxType /\ bi \in InUse
  BY <1>1 DEF LoansIInv, Loans, TxType, InUse
<1>3. TxType'
  BY <1>1, <1>2 DEF TxType
<1>4. InUse' = InUse \ {bi}
  BY <1>1, <1>2 DEF InUse, TxType
<1>5. \A a, b \in InUse : handles[a] = handles[b] => a = b
  BY <1>1 DEF LoansIInv, Loans
<1>6. Held' = Held \ {handles[bi]}
  BY <1>1, <1>2, <1>4, <1>5 DEF Held
<1>7. {c \in Contexts : used[c]}' = {c \in Contexts : used[c]} \ {handles[bi]}
  BY <1>1, <1>2 DEF TxType
<1>8. ~bufferUsed'[bi]
  BY <1>1, <1>2 DEF TxType
<1>9. Loans'
  BY <1>1, <1>4, <1>5, <1>6, <1>7, <1>8 DEF LoansIInv, Loans
<1>10. QED BY <1>3, <1>9 DEF LoansIInv

(* The transfer of buffer bi gets its handle, with its context in use or     *)
(* released.                                                                 *)
LEMMA NextBuffer ==
  ASSUME SendingSizes, TxType
  PROVE  (bi + 1) % BuffersCount \in Buffers
  BY DEF SendingSizes, TxType, Buffers

LEMMA BegunKeepsLoans ==
  ASSUME SendingSizes, LoansIInv, ~bufferUsed[bi],
         NEW h \in Contexts \cup {NoHandle}, Begun(h),
         used' \in [Contexts -> BOOLEAN],
         {c \in Contexts : used'[c]} = Held \cup ({h} \ {NoHandle}),
         h \notin Held,
         \A a, b \in InUse : handles[a] = handles[b] => a = b
  PROVE  LoansIInv'
<1>1. /\ handles' = [handles EXCEPT ![bi] = h]
      /\ bufferUsed' = [bufferUsed EXCEPT ![bi] = TRUE]
      /\ bi' = (bi + 1) % BuffersCount
      /\ at' = 0 /\ pcTx' = "loop"
  BY DEF Begun
<1>2. TxType /\ bi' \in Buffers
  BY <1>1, NextBuffer DEF LoansIInv
<1>3. TxType'
  BY <1>1, <1>2 DEF TxType, SendingSizes
<1>4. bi \notin InUse /\ bi \in Buffers
  BY <1>2 DEF InUse, TxType
<1>5. ASSUME NEW b \in Buffers
      PROVE  /\ b # bi => handles'[b] = handles[b] /\ bufferUsed'[b] = bufferUsed[b]
             /\ b = bi => handles'[b] = h /\ bufferUsed'[b]
  BY <1>1, <1>2 DEF TxType
<1>6. InUse' = InUse \cup (IF h = NoHandle THEN {} ELSE {bi})
  BY <1>4, <1>5 DEF InUse
<1>7. Held' = Held \cup ({h} \ {NoHandle})
  <2>1. \A b \in InUse : b \in Buffers /\ b # bi
    BY <1>4 DEF InUse
  <2>2. \A b \in InUse : handles'[b] = handles[b]
    BY <1>5, <2>1
  <2>3. handles'[bi] = h
    BY <1>4, <1>5
  <2>4. QED BY <1>6, <2>2, <2>3 DEF Held
<1>8. \A a, b \in InUse' : handles'[a] = handles'[b] => a = b
  <2>1. \A b \in InUse : handles'[b] = handles[b] /\ handles[b] \in Held
    <3>1. \A b \in InUse : b \in Buffers /\ b # bi
      BY <1>4 DEF InUse
    <3>2. QED BY <1>5, <3>1 DEF Held
  <2>2. handles'[bi] = h
    BY <1>4, <1>5
  <2>3. QED BY <1>6, <2>1, <2>2
<1>9. Loans'
  BY <1>1, <1>7, <1>8 DEF Loans
<1>10. QED BY <1>3, <1>9 DEF LoansIInv

LEMMA BeginKeepsLoans ==
  ASSUME SendingSizes, LoansIInv, TxBegin
  PROVE  LoansIInv'
<1>1. /\ pcTx = "begin" /\ TxType /\ ~bufferUsed[bi]
      /\ {c \in Contexts : used[c]} = Held
      /\ \A a, b \in InUse : handles[a] = handles[b] => a = b
  BY DEF TxBegin, LoansIInv, Loans
<1>2. NoHandle \notin Held
  BY DEF Held, InUse
<1>3. CASE Free = {}
  <2>1. Begun(NoHandle) /\ used' = used
    BY <1>3 DEF TxBegin, ctxVars
  <2>2. used' \in [Contexts -> BOOLEAN]
    BY <1>1, <2>1 DEF TxType
  <2>3. {c \in Contexts : used'[c]} = Held \cup ({NoHandle} \ {NoHandle})
    BY <1>1, <2>1
  <2>4. QED BY <1>1, <1>2, <2>1, <2>2, <2>3, BegunKeepsLoans
<1>4. CASE Free # {}
  <2>1. PICK c \in Free :
          /\ used' = [used EXCEPT ![c] = TRUE]
          /\ at' = c /\ pcTx' = "submit"
          /\ UNCHANGED <<bi, handles, bufferUsed>>
    BY <1>4 DEF TxBegin, BeginFree, txVars
  <2>2. c \in Contexts /\ ~used[c] /\ c \in 0 .. NumContexts /\ c \notin Held
    BY <1>1 DEF Free, Contexts, SendingSizes
  <2>3. TxType'
    BY <1>1, <2>1, <2>2 DEF TxType
  <2>4. {d \in Contexts : used'[d]} = Held \cup {c}
    BY <1>1, <2>1, <2>2 DEF TxType
  <2>5. Held' = Held /\ InUse' = InUse
    BY <2>1 DEF Held, InUse
  <2>6. Loans'
    BY <1>1, <2>1, <2>2, <2>4, <2>5 DEF Loans
  <2>7. QED BY <2>3, <2>6 DEF LoansIInv
<1>5. QED BY <1>3, <1>4

(* BeginDataSending gives the context back when the transfer is refused, and *)
(* the buffer keeps it when the transfer is submitted.                       *)
LEMMA SubmittedKeepsLoans ==
  ASSUME SendingSizes, LoansIInv, pcTx \in {"submit", "urbs"},
         \/ Refused(at)
         \/ Begun(at) /\ used' = used
  PROVE  LoansIInv'
<1>1. /\ TxType /\ ~bufferUsed[bi] /\ at \in Contexts /\ at \notin Held
      /\ {c \in Contexts : used[c]} = Held \cup {at}
      /\ \A a, b \in InUse : handles[a] = handles[b] => a = b
  BY DEF LoansIInv, Loans
<1>2. CASE Refused(at)
  <2>1. Begun(NoHandle) /\ used' = [used EXCEPT ![at] = FALSE]
    BY <1>2 DEF Refused, Release
  <2>2. NoHandle \notin Held
    BY DEF Held, InUse
  <2>3. used' \in [Contexts -> BOOLEAN]
    BY <1>1, <2>1 DEF TxType
  <2>4. {c \in Contexts : used'[c]} = Held \cup ({NoHandle} \ {NoHandle})
    BY <1>1, <2>1 DEF TxType
  <2>5. QED BY <1>1, <2>1, <2>2, <2>3, <2>4, BegunKeepsLoans
<1>3. CASE Begun(at) /\ used' = used
  <2>1. used' \in [Contexts -> BOOLEAN]
    BY <1>1, <1>3 DEF TxType
  <2>2. at # NoHandle
    BY <1>1 DEF Contexts, NoHandle, SendingSizes
  <2>3. {c \in Contexts : used'[c]} = Held \cup ({at} \ {NoHandle})
    BY <1>1, <1>3, <2>2
  <2>4. QED BY <1>1, <1>3, <2>1, <2>3, BegunKeepsLoans
<1>4. QED BY <1>2, <1>3

LEMMA SubmitKeepsLoans ==
  ASSUME SendingSizes, LoansIInv,
         \/ TxSubmit \/ TxUrb \/ TxFirstUrbFails \/ TxLaterUrbFails
         \/ TxSubmitted
  PROVE  LoansIInv'
<1>1. pcTx \in {"submit", "urbs"}
  BY DEF TxSubmit, TxUrb, TxFirstUrbFails, TxLaterUrbFails,
     TxSubmitted
<1>2. CASE TxSubmit
  <2>1. CASE "inFlight" \in transfer[at].flags
    <3>1. Refused(at)
      BY <1>2, <2>1 DEF TxSubmit
    <3>2. QED BY <1>1, <3>1, SubmittedKeepsLoans
  <2>2. CASE "inFlight" \notin transfer[at].flags
    <3>1. /\ pcTx = "submit" /\ pcTx' = "urbs"
          /\ UNCHANGED <<bi, handles, bufferUsed, at, used>>
      BY <1>2, <2>2 DEF TxSubmit, txVars
    <3>2. Held' = Held /\ InUse' = InUse
      BY <3>1 DEF Held, InUse
    <3>3. TxType'
      BY <3>1 DEF LoansIInv, TxType
    <3>4. Loans'
      BY <3>1, <3>2 DEF LoansIInv, Loans
    <3>5. QED BY <3>3, <3>4 DEF LoansIInv
  <2>3. QED BY <2>1, <2>2
<1>3. CASE TxUrb \/ TxLaterUrbFails
  <2>1. Steady
    BY <1>3 DEF TxUrb, TxLaterUrbFails, txVars, ctxVars, Steady
  <2>2. QED BY <2>1, SteadyKeepsLoans
<1>4. CASE TxFirstUrbFails
  <2>1. Refused(at)
    BY <1>4 DEF TxFirstUrbFails
  <2>2. QED BY <1>1, <2>1, SubmittedKeepsLoans
<1>5. CASE TxSubmitted
  <2>1. Refused(at) \/ (Begun(at) /\ used' = used)
    BY <1>5 DEF TxSubmitted
  <2>2. QED BY <1>1, <2>1, SubmittedKeepsLoans
<1>6. QED BY <1>2, <1>3, <1>4, <1>5

(* AbortSending releases one context after the other.                        *)
LEMMA AbortKeepsLoans ==
  ASSUME SendingSizes, LoansIInv, TxDrain \/ TxEnd
  PROVE  LoansIInv'
<1>1. TxType
  BY DEF LoansIInv
<1>2. NumContexts \in Nat /\ \A c : c \in Contexts <=> c \in 0 .. NumContexts - 1
  BY DEF SendingSizes, Contexts
<1>3. CASE TxDrain
  <2>1. /\ pcTx = "drain" /\ pcTx' = "drain" /\ at < NumContexts /\ at' = at + 1
        /\ used' = [used EXCEPT ![at] = FALSE]
        /\ UNCHANGED <<bi, handles, bufferUsed>>
    BY <1>3 DEF TxDrain, Release, txVars
  <2>2. at \in 0 .. NumContexts /\ used \in [Contexts -> BOOLEAN]
    BY <1>1 DEF TxType
  <2>3. TxType'
    BY <1>1, <1>2, <2>1, <2>2 DEF TxType
  <2>4. \A c \in 0 .. at - 1 : ~used[c]
    BY <2>1 DEF LoansIInv, Loans
  <2>5. ASSUME NEW c \in 0 .. at' - 1 PROVE ~used'[c]
    <3>1. c \in Contexts /\ at \in Contexts /\ (c = at \/ c \in 0 .. at - 1)
      BY <1>2, <2>1, <2>2, <2>5
    <3>2. QED BY <2>1, <2>2, <2>4, <3>1
  <2>6. Loans'
    BY <2>1, <2>5 DEF Loans
  <2>7. QED BY <2>3, <2>6 DEF LoansIInv
<1>4. CASE TxEnd
  <2>1. /\ pcTx = "drain" /\ pcTx' = "ended" /\ at = NumContexts /\ at' = 0 /\ bi' = 0
        /\ handles' = [b \in Buffers |-> 0]
        /\ bufferUsed' = [b \in Buffers |-> FALSE]
        /\ used' = used
    BY <1>4 DEF TxEnd, ctxVars
  <2>2. TxType'
    <3>1. 0 \in Buffers /\ 0 \in Contexts /\ 0 \in 0 .. NumContexts
      BY DEF Buffers, Contexts, SendingSizes
    <3>2. /\ bi' \in Buffers /\ at' \in 0 .. NumContexts
          /\ handles' \in [Buffers -> Contexts \cup {NoHandle}]
          /\ bufferUsed' \in [Buffers -> BOOLEAN]
      BY <2>1, <3>1
    <3>3. used' \in [Contexts -> BOOLEAN]
      BY <1>1, <2>1 DEF TxType
    <3>4. QED BY <3>2, <3>3 DEF TxType
  <2>3. \A c \in Contexts : ~used[c]
    BY <1>2, <2>1 DEF LoansIInv, Loans
  <2>4. Loans'
    BY <2>1, <2>3 DEF Loans
  <2>5. QED BY <2>2, <2>4 DEF LoansIInv
<1>5. QED BY <1>3, <1>4

(* Neither the event thread nor the device nor the application touches what  *)
(* the transmit thread holds.                                                *)
LEMMA OthersSteady ==
  ASSUME \/ EvNext \/ UrbSent \/ UrbFails \/ UrbLost \/ Unplug
         \/ Terminate \/ UNCHANGED sendingVars
  PROVE  Steady
<1> USE DEF Steady, txVars, ctxVars
<1>1. CASE EvReap
  BY <1>1 DEF EvReap
<1>2. CASE EvPollErr \/ EvLastReaped
  BY <1>2 DEF EvPollErr, EvLastReaped
<1>3. CASE EvDisconnect \/ EvComplete
  BY <1>3 DEF EvDisconnect, EvComplete
<1>4. CASE EvCallback
  BY <1>4 DEF EvCallback
<1>5. CASE UrbSent \/ Unplug
  BY <1>5 DEF UrbSent, Unplug, kernelElse
<1>6. CASE UrbFails \/ UrbLost
  BY <1>6 DEF UrbFails, UrbLost, UrbEnds, kernelElse
<1>7. CASE Terminate \/ UNCHANGED sendingVars
  BY <1>7 DEF Terminate, sendingVars
<1>8. QED BY <1>1, <1>2, <1>3, <1>4, <1>5, <1>6, <1>7 DEF EvNext

LEMMA NextKeepsLoans ==
  ASSUME SendingSizes, LoansIInv, [SendingNext]_sendingVars
  PROVE  LoansIInv'
<1>1. CASE \/ EvNext \/ UrbSent \/ UrbFails \/ UrbLost \/ Unplug
           \/ Terminate \/ UNCHANGED sendingVars
  <2>1. Steady
    BY <1>1, OthersSteady
  <2>2. QED BY <2>1, SteadyKeepsLoans
<1>2. CASE \/ TxTurn \/ TxWaited \/ TxTimeout \/ TxFill \/ TxCancel
           \/ TxCancelled \/ TxStart
  <2>1. UNCHANGED <<bi, handles, bufferUsed, used>>
    BY <1>2 DEF TxTurn, TxWaited, TxTimeout, TxFill, TxCancel,
       TxCancelled, TxStart, txVars, ctxVars
  <2>2. QED BY <1>2, <2>1, MoveKeepsLoans
<1>3. CASE TxFinish
  BY <1>3, FinishKeepsLoans
<1>4. CASE TxBegin
  BY <1>4, BeginKeepsLoans
<1>5. CASE \/ TxSubmit \/ TxUrb \/ TxFirstUrbFails \/ TxLaterUrbFails
           \/ TxSubmitted
  BY <1>5, SubmitKeepsLoans
<1>6. CASE TxDrain \/ TxEnd
  BY <1>6, AbortKeepsLoans
<1>7. QED
  BY <1>1, <1>2, <1>3, <1>4, <1>5, <1>6 DEF SendingNext, TxNext

(* The contexts in use are those of the buffers, at every turn of the loop   *)
(* and through every fault, timeout and abort.                               *)
THEOREM LoansInvariance == SendingSpec => []LoansIInv
<1>1. SendingInit => LoansIInv
  BY SendingSizes, SendInit
<1>2. LoansIInv /\ [SendingNext]_sendingVars => LoansIInv'
  BY SendingSizes, NextKeepsLoans
<1>3. QED BY <1>1, <1>2, PTL DEF SendingSpec

(* Contexts and buffers belong together one to one, for any number of them.  *)
THEOREM ContextsCorrect == SendingSpec => []ContextsSuffice
<1>1. LoansIInv => ContextsSuffice
  BY DEF LoansIInv, Loans, ContextsSuffice, Held
<1>2. QED BY <1>1, LoansInvariance, PTL

(* A buffer to be begun finds a free context, since its own was given back   *)
(* and there are no more buffers than contexts.                              *)
LEMMA FreeContext ==
  ASSUME SendingSizes, LoansIInv
  PROVE  BeginFindsContext
<1>1. SUFFICES ASSUME pcTx = "begin", Free = {}
               PROVE  FALSE
  BY DEF BeginFindsContext
<1>2. TxType /\ ~bufferUsed[bi] /\ {c \in Contexts : used[c]} = Held
  BY <1>1 DEF LoansIInv, Loans
<1>3. Contexts = Held
  BY <1>1, <1>2 DEF Free
<1>4. /\ IsFiniteSet(Contexts) /\ Cardinality(Contexts) = NumContexts
      /\ IsFiniteSet(Buffers) /\ Cardinality(Buffers) = BuffersCount
  <2>1. NumContexts - 1 \in Int /\ BuffersCount - 1 \in Int /\ 0 \in Int
        /\ NumContexts - 1 - 0 + 1 = NumContexts /\ BuffersCount - 1 - 0 + 1 = BuffersCount
        /\ ~(0 > NumContexts - 1) /\ ~(0 > BuffersCount - 1)
    BY DEF SendingSizes
  <2>2. QED BY <2>1, FS_Interval DEF Contexts, Buffers
<1>5. InUse \subseteq Buffers \ {bi} /\ bi \in Buffers
  BY <1>2 DEF InUse, TxType
<1>6. IsFiniteSet(Buffers \ {bi}) /\ Cardinality(Buffers \ {bi}) = BuffersCount - 1
  BY <1>4, <1>5, FS_RemoveElement
<1>7. IsFiniteSet(InUse) /\ Cardinality(InUse) <= BuffersCount - 1
  BY <1>5, <1>6, FS_Subset
<1>8. Cardinality(Held) <= Cardinality(InUse)
  <2>1. Held = {handles[b] : b \in InUse}
    BY DEF Held
  <2>2. DEFINE f == [b \in InUse |-> handles[b]]
  <2>3. f \in Surjection(InUse, Held)
    BY <2>1 DEF Surjection
  <2>4. QED BY <1>7, <2>3, FS_Surjection
<1>9. QED BY <1>3, <1>4, <1>7, <1>8, FS_CardinalityType DEF SendingSizes

(* BeginDataSending never returns -1 for want of a context                   *)
(* (ConnectionSTREAM.cpp:669), whatever became of the transfers before.      *)
THEOREM BeginCorrect == SendingSpec => []BeginFindsContext
<1>1. LoansIInv => BeginFindsContext
  BY SendingSizes, FreeContext
<1>2. QED BY <1>1, LoansInvariance, PTL

-----------------------------------------------------------------------------
(* Sequences of URBs by position, and the line of those that libusb has not  *)
(* reaped: what becomes of it when the kernel is given a URB, one ends, some *)
(* are discarded or the first one is reaped.                                 *)

(* Rank and Nth number the positions K in their order.                       *)
LEMMA Ranks ==
  ASSUME NEW n \in Nat, NEW K \in SUBSET (1 .. n)
  PROVE  /\ IsFiniteSet(K) /\ Cardinality(K) \in Nat
         /\ \A i \in 1 .. Cardinality(K) : Nth(K, i) \in K /\ Rank(K, Nth(K, i)) = i
         /\ \A k \in K : Rank(K, k) \in 1 .. Cardinality(K) /\ Nth(K, Rank(K, k)) = k
         /\ \A i, j \in 1 .. Cardinality(K) : i < j => Nth(K, i) < Nth(K, j)
<1> DEFINE m == Cardinality(K)
           To(k) == {j \in K : j <= k}
<1>0. \A k \in K : k \in Int
  OBVIOUS
<1>1. IsFiniteSet(K) /\ m \in Nat
  <2>1. IsFiniteSet(1 .. n)
    BY FS_Interval
  <2>2. QED BY <2>1, FS_Subset, FS_CardinalityType
<1>2. ASSUME NEW k \in K
      PROVE  IsFiniteSet(To(k)) /\ Rank(K, k) = Cardinality(To(k)) /\ Rank(K, k) \in 1 .. m
  <2>1. To(k) \in SUBSET K /\ To(k) # {}
    OBVIOUS
  <2>2. IsFiniteSet(To(k)) /\ Cardinality(To(k)) <= m
    BY <1>1, <2>1, FS_Subset
  <2>3. Cardinality(To(k)) \in Nat /\ Cardinality(To(k)) # 0
    BY <2>1, <2>2, FS_CardinalityType, FS_EmptySet
  <2>4. Rank(K, k) = Cardinality(To(k))
    BY DEF Rank
  <2>5. QED BY <1>1, <2>2, <2>3, <2>4
<1>3. ASSUME NEW j \in K, NEW k \in K, j < k
      PROVE  Rank(K, j) < Rank(K, k)
  <2>1. To(j) \in SUBSET To(k) /\ k \in To(k) /\ k \notin To(j)
    <3>1. \A x \in K : x <= j => x <= k
      BY <1>0, <1>3
    <3>2. k <= k /\ ~(k <= j)
      BY <1>0, <1>3
    <3>3. QED BY <3>1, <3>2
  <2>2. Cardinality(To(j)) <= Cardinality(To(k)) /\ Cardinality(To(j)) # Cardinality(To(k))
    <3>1. To(j) # To(k)
      BY <2>1
    <3>2. QED BY <1>2, <2>1, <3>1, FS_Subset
  <2>3. QED BY <1>2, <2>2
<1>4. ASSUME NEW i \in 1 .. m PROVE \E k \in K : Rank(K, k) = i
  <2>1. DEFINE r == [k \in K |-> Rank(K, k)]
  <2>2. r \in Injection(K, 1 .. m)
    <3>1. \A k \in K : Rank(K, k) \in 1 .. m
      BY <1>2
    <3>2. \A j, k \in K : Rank(K, j) = Rank(K, k) => j = k
      <4>1. SUFFICES ASSUME NEW j \in K, NEW k \in K, Rank(K, j) = Rank(K, k), j # k
                     PROVE  FALSE
        OBVIOUS
      <4>2. j < k \/ k < j
        BY <1>0, <4>1
      <4>3. Rank(K, j) < Rank(K, k) \/ Rank(K, k) < Rank(K, j)
        BY <1>3, <4>2
      <4>4. Rank(K, j) \in 1 .. m /\ Rank(K, k) \in 1 .. m
        BY <3>1, <4>1
      <4>5. QED BY <1>1, <4>1, <4>3, <4>4
    <3>3. QED BY <3>1, <3>2 DEF Injection, IsInjective
  <2>3. IsFiniteSet(1 .. m) /\ Cardinality(1 .. m) = m
    BY <1>1, FS_Interval
  <2>4. r \in Surjection(K, 1 .. m)
    BY <2>2, <2>3, FS_Injection
  <2>5. QED BY <2>4 DEF Surjection
<1>5. ASSUME NEW i \in 1 .. m PROVE Nth(K, i) \in K /\ Rank(K, Nth(K, i)) = i
  BY <1>4 DEF Nth
<1>6. ASSUME NEW k \in K PROVE Nth(K, Rank(K, k)) = k
  <2>1. Nth(K, Rank(K, k)) \in K /\ Rank(K, Nth(K, Rank(K, k))) = Rank(K, k)
    BY <1>2, <1>5
  <2>2. Rank(K, k) \in 1 .. m /\ k \in Int /\ Nth(K, Rank(K, k)) \in Int
    BY <1>0, <1>2, <2>1
  <2>3. QED BY <1>3, <2>1, <2>2
<1>7. ASSUME NEW i \in 1 .. m, NEW j \in 1 .. m, i < j PROVE Nth(K, i) < Nth(K, j)
  <2>1. Nth(K, i) \in K /\ Nth(K, j) \in K /\ Rank(K, Nth(K, i)) < Rank(K, Nth(K, j))
    <3>1. Rank(K, Nth(K, i)) = i /\ Rank(K, Nth(K, j)) = j
      BY <1>5
    <3>2. QED BY <1>5, <1>7, <3>1
  <2>2. /\ Nth(K, i) \in Int /\ Nth(K, j) \in Int
        /\ Rank(K, Nth(K, i)) \in 1 .. m /\ Rank(K, Nth(K, j)) \in 1 .. m
    BY <1>0, <1>2, <2>1
  <2>3. QED BY <1>3, <2>1, <2>2
<1>8. QED BY <1>1, <1>2, <1>5, <1>6, <1>7

(* The line: its domain and what stands in it.                             *)
LEMMA Lined ==
  ASSUME NEW p \in Seq(UrbOut), NEW e \in Seq(UrbEnd)
  PROVE  /\ Len(p) \in Nat /\ Len(e) \in Nat
         /\ DOMAIN p = 1 .. Len(p) /\ DOMAIN e = 1 .. Len(e)
         /\ DOMAIN Line(p, e) = 1 .. Len(e) + Len(p)
         /\ \A k \in 1 .. Len(e) : /\ k \in DOMAIN Line(p, e)
                                   /\ Line(p, e)[k].ctx = e[k].ctx
                                   /\ Line(p, e)[k].idx = e[k].idx
         /\ \A k \in 1 .. Len(p) : /\ Len(e) + k \in DOMAIN Line(p, e)
                                   /\ Line(p, e)[Len(e) + k] = p[k]
         /\ \A k \in 1 .. Len(p) : p[k] \in UrbOut
         /\ \A k \in 1 .. Len(e) : e[k] \in UrbEnd
         /\ \A k \in DOMAIN Line(p, e) :
              \/ k \in 1 .. Len(e)
              \/ k \notin 1 .. Len(e) /\ k - Len(e) \in 1 .. Len(p) /\ k = Len(e) + (k - Len(e))
<1>1. /\ Len(p) \in Nat /\ Len(e) \in Nat
      /\ DOMAIN p = 1 .. Len(p) /\ DOMAIN e = 1 .. Len(e)
      /\ \A k \in 1 .. Len(p) : p[k] \in UrbOut
      /\ \A k \in 1 .. Len(e) : e[k] \in UrbEnd
  OBVIOUS
<1>2. DOMAIN Line(p, e) = 1 .. Len(e) + Len(p)
  BY DEF Line
<1>3. ASSUME NEW k \in 1 .. Len(e)
      PROVE  /\ k \in DOMAIN Line(p, e) /\ Line(p, e)[k].ctx = e[k].ctx
             /\ Line(p, e)[k].idx = e[k].idx
  <2>1. k \in 1 .. Len(e) + Len(p) /\ k <= Len(e)
    BY <1>1
  <2>2. Line(p, e)[k] = [ctx |-> e[k].ctx, idx |-> e[k].idx]
    BY <2>1 DEF Line
  <2>3. QED BY <1>2, <2>1, <2>2
<1>4. ASSUME NEW k \in 1 .. Len(p)
      PROVE  Len(e) + k \in DOMAIN Line(p, e) /\ Line(p, e)[Len(e) + k] = p[k]
  <2>1. /\ Len(e) + k \in 1 .. Len(e) + Len(p) /\ ~(Len(e) + k <= Len(e))
        /\ Len(e) + k - Len(e) = k
    BY <1>1
  <2>2. Line(p, e)[Len(e) + k] = p[Len(e) + k - Len(e)]
    BY <2>1 DEF Line
  <2>3. QED BY <1>2, <2>1, <2>2
<1>5. ASSUME NEW k \in DOMAIN Line(p, e)
      PROVE  \/ k \in 1 .. Len(e)
             \/ k \notin 1 .. Len(e) /\ k - Len(e) \in 1 .. Len(p) /\ k = Len(e) + (k - Len(e))
  BY <1>1, <1>2
<1>6. QED BY <1>1, <1>2, <1>3, <1>4, <1>5

(* A line whose places are those of another one, in another order.         *)
LEMMA Rearranged ==
  ASSUME NEW y, NEW z, NEW c, NEW h \in [DOMAIN z -> DOMAIN y],
         \A k \in DOMAIN z : z[k].ctx = y[h[k]].ctx /\ z[k].idx = y[h[k]].idx,
         \A j, k \in DOMAIN z : h[j] = h[k] => j = k,
         \A l \in DOMAIN y : \E k \in DOMAIN z : h[k] = l
  PROVE  /\ LeftOf(z, c) = LeftOf(y, c)
         /\ OnceIn(y, c) => OnceIn(z, c)
         /\ (InOrder(y, c) /\ \A j, k \in Of(z, c) : j < k => h[j] < h[k]) => InOrder(z, c)
<1>1. \A k \in Of(z, c) : /\ h[k] \in Of(y, c) /\ z[k].idx = y[h[k]].idx
                          /\ k \in DOMAIN z
  BY DEF Of
<1>2. \A l \in Of(y, c) : \E k \in Of(z, c) : h[k] = l
  BY DEF Of
<1>3. LeftOf(z, c) = LeftOf(y, c)
  BY <1>1, <1>2 DEF LeftOf
<1>4. OnceIn(y, c) => OnceIn(z, c)
  BY <1>1 DEF OnceIn
<1>5. (InOrder(y, c) /\ \A j, k \in Of(z, c) : j < k => h[j] < h[k]) => InOrder(z, c)
  BY <1>1 DEF InOrder
<1>6. QED BY <1>3, <1>4, <1>5

(* A function on 1 .. n is a sequence.                                       *)
LEMMA IsSequence ==
  ASSUME NEW n \in Nat, NEW X, NEW q \in [1 .. n -> X]
  PROVE  q \in Seq(X) /\ Len(q) = n /\ DOMAIN q = 1 .. n
  OBVIOUS

(* The URBs of p at the positions M end as those of m, in the order of g.  *)
Moves(p, M, m, g) ==
  /\ p \in Seq(UrbOut) /\ m \in Seq(UrbEnd) /\ M \in SUBSET DOMAIN p
  /\ g \in [DOMAIN m -> M]
  /\ \A i \in DOMAIN m : m[i].ctx = p[g[i]].ctx /\ m[i].idx = p[g[i]].idx
  /\ \A i, j \in DOMAIN m : g[i] = g[j] => i = j
  /\ \A k \in M : \E i \in DOMAIN m : g[i] = k

(* The line then has the same URBs of every transfer, each as often as       *)
(* before, and in order if they were, are put behind in their order and came *)
(* before those that stay.                                                   *)
LEMMA Moved ==
  ASSUME NEW p, NEW e \in Seq(UrbEnd), NEW m, NEW M, NEW g, NEW c, Moves(p, M, m, g)
  PROVE  LET y == Line(p, e)
             q == Those(p, DOMAIN p \ M)
             z == Line(q, e \o m)
         IN /\ q \in Seq(UrbOut) /\ e \o m \in Seq(UrbEnd)
            /\ \A k \in DOMAIN q : \E l \in DOMAIN p \ M : q[k] = p[l]
            /\ LeftOf(z, c) = LeftOf(y, c)
            /\ OnceIn(y, c) => OnceIn(z, c)
            /\ /\ InOrder(y, c)
               /\ \A i, j \in DOMAIN m : i < j /\ m[i].ctx = c /\ m[j].ctx = c => g[i] < g[j]
               /\ \A k \in M, l \in DOMAIN p \ M : p[k].ctx = c /\ p[l].ctx = c => k < l
               => InOrder(z, c)
<1> DEFINE S == DOMAIN p \ M
           y == Line(p, e)
           q == Those(p, S)
           f == e \o m
           z == Line(q, f)
           a == Len(e)
           b == Len(m)
<1> USE DEF Moves
<1>1. /\ Len(p) \in Nat /\ a \in Nat /\ b \in Nat /\ DOMAIN p = 1 .. Len(p)
      /\ DOMAIN e = 1 .. a /\ DOMAIN m = 1 .. b
  OBVIOUS
<1>2. S \in SUBSET (1 .. Len(p))
  BY <1>1
<1>3. /\ Cardinality(S) \in Nat
      /\ \A i \in 1 .. Cardinality(S) : Nth(S, i) \in S /\ Rank(S, Nth(S, i)) = i
      /\ \A k \in S : Rank(S, k) \in 1 .. Cardinality(S) /\ Nth(S, Rank(S, k)) = k
      /\ \A i, j \in 1 .. Cardinality(S) : i < j => Nth(S, i) < Nth(S, j)
  BY <1>1, <1>2, Ranks
<1>4. /\ DOMAIN q = 1 .. Cardinality(S)
      /\ \A i \in 1 .. Cardinality(S) : q[i] = p[Nth(S, i)] /\ q[i] \in UrbOut
      /\ q \in Seq(UrbOut) /\ Len(q) = Cardinality(S)
  <2>1. /\ DOMAIN q = 1 .. Cardinality(S)
        /\ \A i \in 1 .. Cardinality(S) : q[i] = p[Nth(S, i)]
    BY DEF Those
  <2>2. ASSUME NEW i \in 1 .. Cardinality(S) PROVE q[i] \in UrbOut
    <3>1. Nth(S, i) \in DOMAIN p /\ q[i] = p[Nth(S, i)]
      BY <1>3, <2>1
    <3>2. QED BY <3>1
  <2>3. q \in [1 .. Cardinality(S) -> UrbOut]
    BY <2>2 DEF Those
  <2>4. q \in Seq(UrbOut)
    BY <1>3, <2>3, IsSequence
  <2>5. Len(q) = Cardinality(S)
    BY <1>3, <2>3, IsSequence
  <2>6. QED BY <2>1, <2>2, <2>4, <2>5
<1>5. /\ f \in Seq(UrbEnd) /\ Len(f) = a + b
      /\ \A i \in 1 .. a : f[i] = e[i]
      /\ \A i \in 1 .. b : f[a + i] = m[i]
  BY <1>1
<1>6. DEFINE h == [k \in 1 .. a + b + Len(q) |->
                     IF k <= a THEN k ELSE IF k <= a + b THEN a + g[k - a]
                     ELSE a + Nth(S, k - (a + b))]
<1> HIDE DEF S, y, q, f, z, a, b, h
<1>7. DOMAIN y = 1 .. a + Len(p) /\ DOMAIN z = 1 .. a + b + Len(q)
  BY <1>1, <1>4, <1>5, Lined DEF y, z, a
<1>8. \A k \in DOMAIN z : \/ k \in 1 .. a /\ h[k] = k
                          \/ k - a \in 1 .. b /\ h[k] = a + g[k - a]
                          \/ /\ k - (a + b) \in 1 .. Len(q)
                             /\ h[k] = a + Nth(S, k - (a + b))
  BY <1>1, <1>4, <1>7 DEF h
<1>9. /\ \A k \in 1 .. a : k \in DOMAIN y /\ y[k].ctx = e[k].ctx /\ y[k].idx = e[k].idx
      /\ \A k \in 1 .. Len(p) : a + k \in DOMAIN y /\ y[a + k] = p[k]
      /\ \A k \in DOMAIN y : k \in 1 .. a \/ (k \notin 1 .. a /\ k - a \in 1 .. Len(p) /\ k = a + (k - a))
  <2>1. /\ \A k \in 1 .. Len(e) : /\ k \in DOMAIN Line(p, e)
                                 /\ Line(p, e)[k].ctx = e[k].ctx
                                 /\ Line(p, e)[k].idx = e[k].idx
        /\ \A k \in 1 .. Len(p) : /\ Len(e) + k \in DOMAIN Line(p, e)
                                 /\ Line(p, e)[Len(e) + k] = p[k]
        /\ \A k \in DOMAIN Line(p, e) :
             \/ k \in 1 .. Len(e)
             \/ k \notin 1 .. Len(e) /\ k - Len(e) \in 1 .. Len(p) /\ k = Len(e) + (k - Len(e))
    BY Lined
  <2>2. QED BY <2>1 DEF y, a
<1>10. /\ \A k \in 1 .. a : k \in DOMAIN z /\ z[k].ctx = e[k].ctx /\ z[k].idx = e[k].idx
       /\ \A k \in 1 .. b : /\ a + k \in DOMAIN z
                            /\ z[a + k].ctx = m[k].ctx /\ z[a + k].idx = m[k].idx
       /\ \A k \in 1 .. Len(q) : a + b + k \in DOMAIN z /\ z[a + b + k] = q[k]
  <2>1. /\ \A k \in 1 .. a + b : k \in DOMAIN z /\ z[k].ctx = f[k].ctx /\ z[k].idx = f[k].idx
        /\ \A k \in 1 .. Len(q) : a + b + k \in DOMAIN z /\ z[a + b + k] = q[k]
    <3>1. q \in Seq(UrbOut) /\ f \in Seq(UrbEnd)
      BY <1>4, <1>5
    <3>2. /\ \A k \in 1 .. Len(f) : /\ k \in DOMAIN Line(q, f)
                                   /\ Line(q, f)[k].ctx = f[k].ctx
                                   /\ Line(q, f)[k].idx = f[k].idx
          /\ \A k \in 1 .. Len(q) : /\ Len(f) + k \in DOMAIN Line(q, f)
                                   /\ Line(q, f)[Len(f) + k] = q[k]
      BY <3>1, Lined
    <3>3. QED BY <1>5, <3>2 DEF z
  <2>2. QED BY <1>1, <1>5, <2>1, SMTT(30)
<1>11. ASSUME NEW k \in DOMAIN z
       PROVE  h[k] \in DOMAIN y /\ z[k].ctx = y[h[k]].ctx /\ z[k].idx = y[h[k]].idx
  <2>1. CASE k \in 1 .. a /\ h[k] = k
    BY <1>9, <1>10, <2>1
  <2>2. CASE k - a \in 1 .. b /\ h[k] = a + g[k - a]
    <3>1. g[k - a] \in DOMAIN p /\ k = a + (k - a)
      BY <1>1, <1>7, <2>2
    <3>2. y[h[k]] = p[g[k - a]] /\ h[k] \in DOMAIN y
      BY <1>1, <1>9, <2>2, <3>1
    <3>3. z[k].ctx = m[k - a].ctx /\ z[k].idx = m[k - a].idx
      BY <1>10, <2>2, <3>1
    <3>4. QED BY <1>1, <2>2, <3>2, <3>3
  <2>3. CASE k - (a + b) \in 1 .. Len(q) /\ h[k] = a + Nth(S, k - (a + b))
    <3>1. k = a + b + (k - (a + b)) /\ Nth(S, k - (a + b)) \in 1 .. Len(p)
      <4>1. k \in Int
        BY <1>1, <1>4, <1>7
      <4>2. k - (a + b) \in 1 .. Cardinality(S)
        BY <1>4, <2>3
      <4>3. Nth(S, k - (a + b)) \in 1 .. Len(p)
        BY <1>2, <1>3, <4>2
      <4>4. QED BY <1>1, <4>1, <4>3
    <3>2. z[k] = q[k - (a + b)]
      BY <1>10, <2>3, <3>1
    <3>3. q[k - (a + b)] = p[Nth(S, k - (a + b))]
      BY <1>4, <2>3
    <3>4. QED BY <1>9, <2>3, <3>1, <3>2, <3>3
  <2>4. QED BY <1>8, <2>1, <2>2, <2>3
<1>12. ASSUME NEW l \in DOMAIN y PROVE \E k \in DOMAIN z : h[k] = l
  <2>1. CASE l \in 1 .. a
    <3>1. l \in DOMAIN z /\ h[l] = l
      BY <1>1, <1>4, <1>7, <2>1 DEF h
    <3>2. QED BY <3>1
  <2>2. CASE l - a \in M /\ l = a + (l - a)
    <3>1. PICK i \in 1 .. b : g[i] = l - a
      BY <1>1, <2>2
    <3>2. a + i \in DOMAIN z /\ h[a + i] = a + g[a + i - a] /\ a + i - a = i
      BY <1>1, <1>4, <1>7 DEF h
    <3>3. h[a + i] = l
      BY <2>2, <3>1, <3>2
    <3>4. QED BY <3>2, <3>3
  <2>3. CASE l - a \in S /\ l = a + (l - a)
    <3>1. Rank(S, l - a) \in 1 .. Cardinality(S) /\ Nth(S, Rank(S, l - a)) = l - a
      BY <1>3, <2>3
    <3>2. PICK r : r = Rank(S, l - a)
      OBVIOUS
    <3>3. r \in 1 .. Len(q) /\ Nth(S, r) = l - a
      BY <1>4, <3>1, <3>2
    <3>4. a + b + r \in DOMAIN z /\ h[a + b + r] = a + Nth(S, a + b + r - (a + b))
      BY <1>1, <1>4, <1>7, <3>3 DEF h
    <3>5. a + b + r - (a + b) = r
      BY <1>1, <3>3
    <3>6. h[a + b + r] = l
      BY <2>3, <3>3, <3>4, <3>5
    <3>7. QED BY <3>4, <3>6
  <2>4. l \in 1 .. a \/ (l - a \in 1 .. Len(p) /\ l = a + (l - a))
    BY <1>9
  <2>5. \A x \in 1 .. Len(p) : x \in M \/ x \in S
    BY <1>1 DEF S
  <2>6. QED BY <2>1, <2>2, <2>3, <2>4, <2>5
<1>13. ASSUME NEW k \in DOMAIN z
       PROVE  \/ h[k] <= a /\ h[k] = k
              \/ h[k] > a /\ h[k] - a \in M /\ k - a \in 1 .. b /\ g[k - a] = h[k] - a
              \/ /\ h[k] > a /\ h[k] - a \notin M
                 /\ k - (a + b) \in 1 .. Len(q) /\ Nth(S, k - (a + b)) = h[k] - a
  <2>1. k \in Int
    BY <1>1, <1>4, <1>7
  <2>2. CASE k \in 1 .. a /\ h[k] = k
    BY <1>1, <2>1, <2>2
  <2>3. CASE k - a \in 1 .. b /\ h[k] = a + g[k - a]
    <3>1. g[k - a] \in M /\ g[k - a] \in 1 .. Len(p)
      BY <1>1, <2>3
    <3>2. h[k] > a /\ h[k] - a = g[k - a]
      BY <1>1, <2>3, <3>1
    <3>3. QED BY <2>3, <3>1, <3>2
  <2>4. CASE k - (a + b) \in 1 .. Len(q) /\ h[k] = a + Nth(S, k - (a + b))
    <3>1. Nth(S, k - (a + b)) \in S
      BY <1>3, <1>4, <2>4
    <3>2. Nth(S, k - (a + b)) \notin M /\ Nth(S, k - (a + b)) \in 1 .. Len(p)
      BY <1>2, <3>1 DEF S
    <3>3. h[k] > a /\ h[k] - a = Nth(S, k - (a + b))
      BY <1>1, <2>4, <3>2
    <3>4. QED BY <2>4, <3>2, <3>3
  <2>5. QED BY <1>8, <2>2, <2>3, <2>4
<1>14. ASSUME NEW j \in DOMAIN z, NEW k \in DOMAIN z, h[j] = h[k] PROVE j = k
  <2>1. j \in Int /\ k \in Int /\ h[j] \in Int
    BY <1>1, <1>4, <1>7, <1>11
  <2>2. CASE h[j] <= a /\ h[j] = j
    <3>1. ~(h[k] > a)
      BY <1>1, <1>14, <2>1, <2>2
    <3>2. h[k] = k
      BY <1>13, <3>1
    <3>3. QED BY <1>14, <2>2, <3>2
  <2>3. CASE h[j] > a /\ h[j] - a \in M /\ j - a \in 1 .. b /\ g[j - a] = h[j] - a
    <3>1. k - a \in 1 .. b /\ g[k - a] = h[k] - a
      BY <1>1, <1>13, <1>14, <2>1, <2>3
    <3>2. j - a = k - a
      BY <1>1, <1>14, <2>3, <3>1
    <3>3. QED BY <1>1, <2>1, <3>2
  <2>4. CASE /\ h[j] > a /\ h[j] - a \notin M
             /\ j - (a + b) \in 1 .. Len(q) /\ Nth(S, j - (a + b)) = h[j] - a
    <3>1. k - (a + b) \in 1 .. Len(q) /\ Nth(S, k - (a + b)) = h[k] - a
      BY <1>1, <1>13, <1>14, <2>1, <2>4
    <3>2. \A r, s \in 1 .. Cardinality(S) : Nth(S, r) = Nth(S, s) => r = s
      BY <1>3
    <3>3. j - (a + b) = k - (a + b)
      BY <1>4, <1>14, <2>4, <3>1, <3>2
    <3>4. QED BY <1>1, <2>1, <3>3
  <2>5. QED BY <1>13, <2>2, <2>3, <2>4
<1>15. ASSUME \A i, j \in DOMAIN m : i < j /\ m[i].ctx = c /\ m[j].ctx = c => g[i] < g[j],
              \A k \in M, l \in DOMAIN p \ M : p[k].ctx = c /\ p[l].ctx = c => k < l,
              NEW j \in Of(z, c), NEW k \in Of(z, c), j < k
       PROVE  h[j] < h[k]
  <2>1. j \in DOMAIN z /\ k \in DOMAIN z /\ j \in Int /\ k \in Int /\ h[j] \in Int /\ h[k] \in Int
    BY <1>1, <1>4, <1>7, <1>11 DEF Of
  <2>2. y[h[j]].ctx = c /\ y[h[k]].ctx = c /\ z[j].ctx = c /\ z[k].ctx = c
    BY <1>11, <2>1 DEF Of
  <2>3. CASE h[j] <= a /\ h[j] = j
    BY <1>1, <1>13, <1>15, <2>1, <2>3
  <2>4. CASE h[j] > a /\ h[j] - a \in M /\ j - a \in 1 .. b /\ g[j - a] = h[j] - a
    <3>1. CASE h[k] > a /\ h[k] - a \in M /\ k - a \in 1 .. b /\ g[k - a] = h[k] - a
      <4>1. m[j - a].ctx = z[j].ctx /\ m[k - a].ctx = z[k].ctx
        <5>1. a + (j - a) = j /\ a + (k - a) = k
          BY <1>1, <2>1
        <5>2. QED BY <1>10, <2>4, <3>1, <5>1
      <4>2. j - a \in DOMAIN m /\ k - a \in DOMAIN m /\ j - a < k - a
        BY <1>1, <1>15, <2>1, <2>4, <3>1
      <4>3. g[j - a] < g[k - a]
        BY <1>15, <2>2, <4>1, <4>2
      <4>4. QED BY <1>1, <2>1, <2>4, <3>1, <4>3, SMTT(30)
    <3>2. CASE h[k] > a /\ h[k] - a \notin M
      <4>1. h[k] - a \in DOMAIN p \ M /\ a + (h[k] - a) = h[k] /\ a + (h[j] - a) = h[j]
            /\ h[j] - a \in 1 .. Len(p) /\ h[k] - a \in 1 .. Len(p)
        <5>1. h[k] - a \in 1 .. Len(p) /\ h[j] - a \in 1 .. Len(p)
          <6>1. h[k] \in 1 .. a + Len(p) /\ h[j] \in 1 .. a + Len(p)
            BY <1>7, <1>11, <2>1
          <6>2. QED BY <1>1, <2>1, <2>4, <3>2, <6>1, SMTT(30)
        <5>2. a + (h[k] - a) = h[k] /\ a + (h[j] - a) = h[j]
          BY <1>1, <2>1
        <5>3. QED BY <1>1, <3>2, <5>1, <5>2
      <4>2. p[h[k] - a].ctx = c /\ p[h[j] - a].ctx = c
        BY <1>9, <2>2, <4>1
      <4>3. h[j] - a < h[k] - a
        BY <1>15, <2>4, <4>1, <4>2
      <4>4. QED BY <1>1, <2>1, <4>3
    <3>3. CASE h[k] <= a /\ h[k] = k
      BY <1>1, <1>15, <2>1, <2>4, <3>3
    <3>4. QED BY <1>13, <2>1, <3>1, <3>2, <3>3
  <2>5. CASE /\ h[j] > a /\ h[j] - a \notin M
             /\ j - (a + b) \in 1 .. Len(q) /\ Nth(S, j - (a + b)) = h[j] - a
    <3>1. k - (a + b) \in 1 .. Len(q) /\ Nth(S, k - (a + b)) = h[k] - a
      <4>1. j > a + b /\ k > a + b /\ Len(q) \in Nat
        BY <1>1, <1>4, <1>15, <2>1, <2>5
      <4>2. k > a /\ k - a \notin 1 .. b
        BY <1>1, <2>1, <4>1
      <4>3. ~(h[k] <= a /\ h[k] = k)
        BY <1>1, <2>1, <4>2
      <4>4. QED BY <1>13, <2>1, <4>2, <4>3
    <3>2. j - (a + b) < k - (a + b)
      BY <1>1, <1>15, <2>1
    <3>3. Nth(S, j - (a + b)) < Nth(S, k - (a + b))
      BY <1>3, <1>4, <2>5, <3>1, <3>2
    <3>4. QED BY <1>1, <2>1, <2>5, <3>1, <3>3
  <2>6. QED BY <1>13, <2>1, <2>3, <2>4, <2>5
<1>16. h \in [DOMAIN z -> DOMAIN y]
  <2>1. h = [k \in DOMAIN z |-> h[k]]
    BY <1>7 DEF h
  <2>2. QED BY <1>11, <2>1
<1>17. /\ LeftOf(z, c) = LeftOf(y, c)
       /\ OnceIn(y, c) => OnceIn(z, c)
       /\ (InOrder(y, c) /\ \A j, k \in Of(z, c) : j < k => h[j] < h[k]) => InOrder(z, c)
  BY <1>11, <1>12, <1>14, <1>16, Rearranged
<1>18. \A k \in DOMAIN q : \E l \in S : q[k] = p[l]
  BY <1>3, <1>4
<1>19. QED
  BY <1>4, <1>5, <1>15, <1>17, <1>18 DEF S, y, q, f, z

(* A URB given to the kernel is the last of the line.                      *)
LEMMA LineGrows ==
  ASSUME NEW p \in Seq(UrbOut), NEW e \in Seq(UrbEnd), NEW u \in UrbOut, NEW c
  PROVE  LET y == Line(p, e)
             z == Line(Append(p, u), e)
         IN /\ LeftOf(z, c) = LeftOf(y, c) \cup (IF u.ctx = c THEN {u.idx} ELSE {})
            /\ OnceIn(y, c) /\ (u.ctx = c => u.idx \notin LeftOf(y, c)) => OnceIn(z, c)
            /\ InOrder(y, c) /\ (u.ctx = c => \A i \in LeftOf(y, c) : i < u.idx)
                 => InOrder(z, c)
<1> DEFINE y == Line(p, e)
           z == Line(Append(p, u), e)
           n == Len(e) + Len(p)
<1>1. /\ n \in Nat /\ DOMAIN y = 1 .. n /\ DOMAIN z = 1 .. n + 1
      /\ \A k \in 1 .. n : z[k] = y[k]
      /\ z[n + 1] = u
  <2>1. Append(p, u) \in Seq(UrbOut) /\ Len(Append(p, u)) = Len(p) + 1
        /\ Len(p) \in Nat /\ Len(e) \in Nat
        /\ \A k \in 1 .. Len(p) : Append(p, u)[k] = p[k]
        /\ Append(p, u)[Len(p) + 1] = u
    OBVIOUS
  <2>2. DOMAIN y = 1 .. n /\ DOMAIN z = 1 .. n + 1 /\ n \in Nat
    BY <2>1 DEF Line
  <2>3. ASSUME NEW k \in 1 .. n PROVE z[k] = y[k]
    <3>1. k \in 1 .. Len(e) + Len(Append(p, u)) /\ k \in 1 .. Len(e) + Len(p)
      BY <2>1
    <3>2. z[k] = IF k <= Len(e) THEN [ctx |-> e[k].ctx, idx |-> e[k].idx]
                 ELSE Append(p, u)[k - Len(e)]
      BY <3>1 DEF Line
    <3>3. y[k] = IF k <= Len(e) THEN [ctx |-> e[k].ctx, idx |-> e[k].idx] ELSE p[k - Len(e)]
      BY <3>1 DEF Line
    <3>4. ~(k <= Len(e)) => k - Len(e) \in 1 .. Len(p)
      BY <2>1
    <3>5. QED BY <2>1, <3>2, <3>3, <3>4
  <2>4. z[n + 1] = u
    <3>1. n + 1 \in 1 .. Len(e) + Len(Append(p, u)) /\ ~(n + 1 <= Len(e))
          /\ n + 1 - Len(e) = Len(p) + 1
      BY <2>1
    <3>2. z[n + 1] = Append(p, u)[n + 1 - Len(e)]
      BY <3>1 DEF Line
    <3>3. QED BY <2>1, <3>1, <3>2
  <2>5. QED BY <2>2, <2>3, <2>4
<1> HIDE DEF y, z, n
<1>2. /\ \A k \in Of(y, c) : k \in Of(z, c) /\ z[k] = y[k] /\ k < n + 1 /\ k # n + 1 /\ k \in Int
      /\ \A k \in Of(z, c) : k \in Of(y, c) \/ (k = n + 1 /\ u.ctx = c)
      /\ u.ctx = c => n + 1 \in Of(z, c)
  BY <1>1 DEF Of
<1>3. LeftOf(z, c) = LeftOf(y, c) \cup (IF u.ctx = c THEN {u.idx} ELSE {})
  BY <1>1, <1>2 DEF LeftOf
<1>4. OnceIn(y, c) /\ (u.ctx = c => u.idx \notin LeftOf(y, c)) => OnceIn(z, c)
  BY <1>1, <1>2 DEF OnceIn, LeftOf
<1>5. ASSUME InOrder(y, c), u.ctx = c => \A i \in LeftOf(y, c) : i < u.idx
      PROVE  InOrder(z, c)
  <2>1. SUFFICES ASSUME NEW j \in Of(z, c), NEW k \in Of(z, c), j < k
                 PROVE  z[j].idx < z[k].idx
    BY DEF InOrder
  <2>2. j \in Of(y, c)
    BY <1>1, <1>2, <2>1
  <2>3. CASE k \in Of(y, c)
    BY <1>2, <1>5, <2>1, <2>2, <2>3 DEF InOrder
  <2>4. CASE k = n + 1 /\ u.ctx = c
    <3>1. y[j].idx \in LeftOf(y, c)
      BY <2>2 DEF LeftOf
    <3>2. QED BY <1>1, <1>2, <1>5, <2>2, <2>4, <3>1
  <2>5. QED BY <1>2, <2>3, <2>4
<1>6. QED BY <1>3, <1>4, <1>5 DEF y, z

(* The first of the line is reaped.                                        *)
LEMMA LineShrinks ==
  ASSUME NEW p \in Seq(UrbOut), NEW e \in Seq(UrbEnd), e # <<>>, NEW c
  PROVE  LET y == Line(p, e)
             z == Line(p, Tail(e))
             r == Head(e)
         IN /\ r \in UrbEnd /\ Tail(e) \in Seq(UrbEnd)
            /\ OnceIn(y, c) => OnceIn(z, c)
            /\ InOrder(y, c) => InOrder(z, c)
            /\ r.ctx # c => LeftOf(z, c) = LeftOf(y, c)
            /\ r.ctx = c => r.idx \in LeftOf(y, c)
            /\ r.ctx = c /\ OnceIn(y, c) => LeftOf(z, c) = LeftOf(y, c) \ {r.idx}
            /\ r.ctx = c /\ InOrder(y, c) => \A i \in LeftOf(z, c) : r.idx < i
<1> DEFINE y == Line(p, e)
           z == Line(p, Tail(e))
           r == Head(e)
           n == Len(e) + Len(p)
<1>1. /\ r \in UrbEnd /\ Tail(e) \in Seq(UrbEnd) /\ Len(Tail(e)) = Len(e) - 1
      /\ Len(e) \in Nat \ {0} /\ Len(p) \in Nat /\ r = e[1]
      /\ \A k \in 1 .. Len(e) - 1 : Tail(e)[k] = e[k + 1]
  OBVIOUS
<1>2. /\ n \in Nat \ {0} /\ DOMAIN y = 1 .. n /\ DOMAIN z = 1 .. n - 1
  BY <1>1 DEF Line
<1>3. y[1].ctx = r.ctx /\ y[1].idx = r.idx
  BY <1>1, <1>2 DEF Line
<1>4. ASSUME NEW k \in 1 .. n - 1 PROVE z[k] = y[k + 1]
  <2>1. k \in 1 .. Len(Tail(e)) + Len(p) /\ k + 1 \in 1 .. Len(e) + Len(p)
    BY <1>1, <1>2
  <2>2. z[k] = IF k <= Len(Tail(e)) THEN [ctx |-> Tail(e)[k].ctx, idx |-> Tail(e)[k].idx]
               ELSE p[k - Len(Tail(e))]
    BY <2>1 DEF Line
  <2>3. y[k + 1] = IF k + 1 <= Len(e) THEN [ctx |-> e[k + 1].ctx, idx |-> e[k + 1].idx]
                   ELSE p[k + 1 - Len(e)]
    BY <2>1 DEF Line
  <2>4. CASE k <= Len(Tail(e))
    BY <1>1, <2>2, <2>3, <2>4
  <2>5. CASE ~(k <= Len(Tail(e)))
    <3>1. ~(k + 1 <= Len(e)) /\ k + 1 - Len(e) = k - Len(Tail(e))
      BY <1>1, <1>2, <2>5
    <3>2. QED BY <2>2, <2>3, <2>5, <3>1
  <2>6. QED BY <2>4, <2>5
<1> HIDE DEF y, z, r, n
<1>5. /\ \A k \in Of(z, c) : k + 1 \in Of(y, c) /\ z[k] = y[k + 1] /\ k + 1 > 1 /\ k \in Int
      /\ \A k \in Of(y, c) : (k = 1 /\ r.ctx = c) \/ (k - 1 \in Of(z, c) /\ k = k - 1 + 1 /\ k > 1)
      /\ r.ctx = c => 1 \in Of(y, c)
  BY <1>2, <1>3, <1>4 DEF Of
<1>6. OnceIn(y, c) => OnceIn(z, c)
  <2>1. SUFFICES ASSUME OnceIn(y, c), NEW j \in Of(z, c), NEW k \in Of(z, c), z[j].idx = z[k].idx
                 PROVE  j = k
    BY DEF OnceIn
  <2>2. j + 1 = k + 1
    BY <1>5, <2>1 DEF OnceIn
  <2>3. QED BY <1>5, <2>2
<1>7. InOrder(y, c) => InOrder(z, c)
  <2>1. SUFFICES ASSUME InOrder(y, c), NEW j \in Of(z, c), NEW k \in Of(z, c), j < k
                 PROVE  z[j].idx < z[k].idx
    BY DEF InOrder
  <2>2. j + 1 < k + 1
    BY <1>5, <2>1
  <2>3. QED BY <1>5, <2>1, <2>2 DEF InOrder
<1>8. r.ctx # c => LeftOf(z, c) = LeftOf(y, c)
  BY <1>5 DEF LeftOf
<1>9. r.ctx = c => r.idx \in LeftOf(y, c)
  BY <1>3, <1>5 DEF LeftOf
<1>10. r.ctx = c /\ OnceIn(y, c) => LeftOf(z, c) = LeftOf(y, c) \ {r.idx}
  <2>1. SUFFICES ASSUME r.ctx = c, OnceIn(y, c)
                 PROVE  LeftOf(z, c) = LeftOf(y, c) \ {r.idx}
    OBVIOUS
  <2>2. \A k \in Of(y, c) : y[k].idx = r.idx => k = 1
    BY <1>3, <1>5, <2>1 DEF OnceIn
  <2>3. ASSUME NEW k \in Of(z, c) PROVE z[k].idx # r.idx
    <3>1. k + 1 \in Of(y, c) /\ z[k] = y[k + 1] /\ k + 1 # 1
      BY <1>5
    <3>2. QED BY <2>2, <3>1
  <2>4. QED BY <1>3, <1>5, <2>3 DEF LeftOf
<1>11. r.ctx = c /\ InOrder(y, c) => \A i \in LeftOf(z, c) : r.idx < i
  BY <1>3, <1>5 DEF LeftOf, InOrder
<1>12. QED BY <1>1, <1>6, <1>7, <1>8, <1>9, <1>10, <1>11 DEF y, z, r

(* A URB that ends well stays where it is in the line.                     *)
LEMMA LineKept ==
  ASSUME NEW p \in Seq(UrbOut), p # <<>>, NEW e \in Seq(UrbEnd), NEW x \in UrbEnd,
         x.ctx = Head(p).ctx, x.idx = Head(p).idx
  PROVE  Line(Tail(p), Append(e, x)) = Line(p, e)
<1> DEFINE a == Len(e)
           n == Len(e) + Len(p)
           y == Line(p, e)
           z == Line(Tail(p), Append(e, x))
<1>1. /\ Len(p) \in Nat \ {0} /\ a \in Nat /\ n \in Nat
      /\ Tail(p) \in Seq(UrbOut) /\ Len(Tail(p)) = Len(p) - 1
      /\ Len(Append(e, x)) = a + 1
      /\ \A k \in 1 .. Len(p) - 1 : Tail(p)[k] = p[k + 1]
      /\ \A k \in 1 .. a : Append(e, x)[k] = e[k]
      /\ Append(e, x)[a + 1] = x
      /\ Head(p) = p[1] /\ p[1] \in UrbOut
  OBVIOUS
<1>2. a + 1 + (Len(p) - 1) = n
  BY <1>1
<1>3. /\ y = [k \in 1 .. n |-> IF k <= a THEN [ctx |-> e[k].ctx, idx |-> e[k].idx] ELSE p[k - a]]
      /\ z = [k \in 1 .. n |->
                IF k <= a + 1 THEN [ctx |-> Append(e, x)[k].ctx, idx |-> Append(e, x)[k].idx]
                ELSE Tail(p)[k - (a + 1)]]
  BY <1>1, <1>2 DEF Line
<1>4. ASSUME NEW k \in 1 .. n PROVE z[k] = y[k]
  <2>1. CASE k <= a
    <3>1. k \in 1 .. a /\ k <= a + 1
      BY <1>1, <2>1
    <3>2. QED BY <1>1, <1>3, <2>1, <3>1
  <2>2. CASE k = a + 1
    <3>1. ~(k <= a) /\ k - a = 1 /\ k <= a + 1
      BY <1>1, <2>2
    <3>2. z[k] = [ctx |-> x.ctx, idx |-> x.idx]
      BY <1>1, <1>3, <2>2, <3>1
    <3>3. y[k] = p[1]
      BY <1>1, <1>3, <3>1
    <3>4. p[1] = [ctx |-> p[1].ctx, idx |-> p[1].idx]
      BY <1>1 DEF UrbOut
    <3>5. QED BY <1>1, <3>2, <3>3, <3>4
  <2>3. CASE k > a + 1
    <3>1. ~(k <= a) /\ ~(k <= a + 1) /\ k - (a + 1) \in 1 .. Len(p) - 1
          /\ k - (a + 1) + 1 = k - a
      BY <1>1, <2>3
    <3>2. z[k] = Tail(p)[k - (a + 1)] /\ y[k] = p[k - a]
      BY <1>3, <3>1
    <3>3. QED BY <1>1, <3>1, <3>2
  <2>4. QED BY <1>1, <2>1, <2>2, <2>3
<1>5. QED
  <2>1. DOMAIN y = 1 .. n /\ DOMAIN z = 1 .. n
    BY <1>3
  <2>2. y = [k \in 1 .. n |-> y[k]] /\ z = [k \in 1 .. n |-> z[k]]
    BY <1>3, <2>1
  <2>3. QED BY <1>4, <2>2

(* Nobody waits in the line without being pending or ended.                *)
LEMMA UnreapedLine ==
  ASSUME NEW p \in Seq(UrbOut), NEW e \in Seq(UrbEnd), NEW c
  PROVE  (\/ \E k \in DOMAIN p : p[k].ctx = c
          \/ \E k \in DOMAIN e : e[k].ctx = c) <=> LeftOf(Line(p, e), c) # {}
<1> DEFINE z == Line(p, e)
           waits == \/ \E k \in DOMAIN p : p[k].ctx = c
                    \/ \E k \in DOMAIN e : e[k].ctx = c
<1>1. waits <=> Of(z, c) # {}
  <2>1. ASSUME NEW k \in DOMAIN p, p[k].ctx = c PROVE Of(z, c) # {}
    <3>1. Len(e) + k \in DOMAIN z /\ z[Len(e) + k] = p[k]
      BY Lined
    <3>2. QED BY <2>1, <3>1 DEF Of
  <2>2. ASSUME NEW k \in DOMAIN e, e[k].ctx = c PROVE Of(z, c) # {}
    <3>1. k \in DOMAIN z /\ z[k].ctx = e[k].ctx
      BY Lined
    <3>2. QED BY <2>2, <3>1 DEF Of
  <2>3. ASSUME NEW k \in Of(z, c) PROVE waits
    <3>1. k \in DOMAIN z /\ z[k].ctx = c
      BY DEF Of
    <3>2. CASE k \in 1 .. Len(e)
      <4>1. z[k].ctx = e[k].ctx /\ k \in DOMAIN e
        BY <3>2, Lined
      <4>2. QED BY <3>1, <4>1
    <3>3. CASE k - Len(e) \in 1 .. Len(p) /\ k = Len(e) + (k - Len(e))
      <4>1. z[k] = p[k - Len(e)] /\ k - Len(e) \in DOMAIN p
        BY <3>3, Lined
      <4>2. QED BY <3>1, <4>1
    <3>4. QED BY <3>1, <3>2, <3>3, Lined
  <2>4. QED BY <2>1, <2>2, <2>3
<1>2. QED BY <1>1 DEF LeftOf

(* The units of the URBs that end are to be counted with those that had      *)
(* ended.                                                                    *)
LEMMA WellGrows ==
  ASSUME NEW e \in Seq(UrbEnd), NEW m \in Seq(UrbEnd), NEW c
  PROVE  WellOf(e \o m, c) = WellOf(e, c) \cup WellOf(m, c)
<1> DEFINE G(s) == {j \in DOMAIN s : s[j].ctx = c /\ s[j].n = 1}
<1>1. /\ Len(e) \in Nat /\ Len(m) \in Nat
      /\ DOMAIN e = 1 .. Len(e) /\ DOMAIN m = 1 .. Len(m)
      /\ DOMAIN (e \o m) = 1 .. Len(e) + Len(m)
      /\ \A k \in 1 .. Len(e) : (e \o m)[k] = e[k]
      /\ \A k \in 1 .. Len(m) : (e \o m)[Len(e) + k] = m[k]
  OBVIOUS
<1>2. PICK f : f = e \o m
  OBVIOUS
<1>3. \A k \in G(e) : k \in G(f) /\ f[k] = e[k]
  BY <1>1, <1>2
<1>4. \A k \in G(m) : Len(e) + k \in G(f) /\ f[Len(e) + k] = m[k]
  BY <1>1, <1>2
<1>5. ASSUME NEW k \in G(f) PROVE \/ k \in G(e) /\ f[k] = e[k]
                                  \/ k - Len(e) \in G(m) /\ f[k] = m[k - Len(e)]
  <2>1. CASE k <= Len(e)
    BY <1>1, <1>2, <2>1
  <2>2. CASE ~(k <= Len(e))
    <3>1. k - Len(e) \in 1 .. Len(m) /\ Len(e) + (k - Len(e)) = k
      BY <1>1, <1>2, <2>2
    <3>2. f[k] = m[k - Len(e)]
      BY <1>1, <1>2, <3>1
    <3>3. QED BY <1>1, <3>1, <3>2
  <2>3. QED BY <2>1, <2>2
<1> HIDE DEF G
<1>6. {f[k].idx : k \in G(f)} = {e[k].idx : k \in G(e)} \cup {m[k].idx : k \in G(m)}
  BY <1>3, <1>4, <1>5
<1>7. QED BY <1>2, <1>6 DEF WellOf, G

(* ... for one URB.                                                          *)
LEMMA WellOne ==
  ASSUME NEW e \in Seq(UrbEnd), NEW x \in UrbEnd, NEW c
  PROVE  WellOf(Append(e, x), c) =
           WellOf(e, c) \cup (IF x.ctx = c /\ x.n = 1 THEN {x.idx} ELSE {})
<1>1. Append(e, x) = e \o <<x>> /\ <<x>> \in Seq(UrbEnd)
  OBVIOUS
<1>2. WellOf(<<x>>, c) = IF x.ctx = c /\ x.n = 1 THEN {x.idx} ELSE {}
  BY DEF WellOf
<1>3. WellOf(e \o <<x>>, c) = WellOf(e, c) \cup WellOf(<<x>>, c)
  BY <1>1, WellGrows
<1>4. QED BY <1>1, <1>2, <1>3

(* The URBs that ended well are in the line.                                 *)
LEMMA WellLeft ==
  ASSUME NEW p \in Seq(UrbOut), NEW e \in Seq(UrbEnd), NEW c
  PROVE  /\ LeftOf(Line(p, e), c) \in SUBSET Urbs
         /\ WellOf(e, c) \in SUBSET LeftOf(Line(p, e), c)
<1> DEFINE z == Line(p, e)
<1>1. ASSUME NEW k \in DOMAIN z PROVE z[k].idx \in Urbs
  <2>1. CASE k \in 1 .. Len(e)
    <3>1. z[k].idx = e[k].idx /\ e[k] \in UrbEnd
      BY <2>1, Lined
    <3>2. QED BY <3>1 DEF UrbEnd
  <2>2. CASE k - Len(e) \in 1 .. Len(p) /\ k = Len(e) + (k - Len(e))
    <3>1. z[k] = p[k - Len(e)] /\ p[k - Len(e)] \in UrbOut
      BY <2>2, Lined
    <3>2. QED BY <3>1 DEF UrbOut
  <2>3. QED BY <2>1, <2>2, Lined
<1>2. LeftOf(z, c) \in SUBSET Urbs
  BY <1>1 DEF LeftOf, Of
<1>3. ASSUME NEW k \in DOMAIN e, e[k].ctx = c PROVE e[k].idx \in LeftOf(z, c)
  <2>1. k \in DOMAIN z /\ z[k].ctx = e[k].ctx /\ z[k].idx = e[k].idx
    BY Lined
  <2>2. QED BY <1>3, <2>1 DEF LeftOf, Of
<1>4. QED BY <1>2, <1>3 DEF WellOf

(* The unit of the URB that is reaped is no longer to be counted.            *)
LEMMA WellShrinks ==
  ASSUME NEW p \in Seq(UrbOut), NEW e \in Seq(UrbEnd), e # <<>>, NEW c
  PROVE  LET r == Head(e)
         IN /\ WellOf(e, c) = WellOf(Tail(e), c)
                                \cup (IF r.ctx = c /\ r.n = 1 THEN {r.idx} ELSE {})
            /\ r.ctx = c /\ OnceIn(Line(p, e), c) => r.idx \notin WellOf(Tail(e), c)
<1>1. /\ e = <<Head(e)>> \o Tail(e) /\ <<Head(e)>> \in Seq(UrbEnd) /\ Tail(e) \in Seq(UrbEnd)
      /\ Head(e) \in UrbEnd
  OBVIOUS
<1>2. PICK r : r = Head(e)
  OBVIOUS
<1>3. WellOf(<<r>>, c) = IF r.ctx = c /\ r.n = 1 THEN {r.idx} ELSE {}
  BY DEF WellOf
<1>4. WellOf(e, c) = WellOf(<<r>>, c) \cup WellOf(Tail(e), c)
  <2>1. <<r>> \in Seq(UrbEnd) /\ e = <<r>> \o Tail(e)
    BY <1>1, <1>2
  <2>2. WellOf(<<r>> \o Tail(e), c) = WellOf(<<r>>, c) \cup WellOf(Tail(e), c)
    BY <1>1, <2>1, WellGrows, ZenonT(60)
  <2>3. QED BY <2>1, <2>2
<1>5. ASSUME r.ctx = c, OnceIn(Line(p, e), c) PROVE r.idx \notin WellOf(Tail(e), c)
  <2>1. WellOf(Tail(e), c) \in SUBSET LeftOf(Line(p, Tail(e)), c)
    BY <1>1, WellLeft
  <2>2. LeftOf(Line(p, Tail(e)), c) = LeftOf(Line(p, e), c) \ {r.idx}
    BY <1>2, <1>5, LineShrinks
  <2>3. QED BY <2>1, <2>2
<1>6. QED BY <1>2, <1>3, <1>4, <1>5

(* The pending URBs at the positions K are discarded, behind e.             *)
Discards(e, K, n, c) ==
  LET y == Line(pending, e)
      q == Those(pending, DOMAIN pending \ K)
      f == e \o Discarded(K, n)
      z == Line(q, f)
  IN /\ q \in Seq(UrbOut) /\ f \in Seq(UrbEnd)
     /\ \A k \in DOMAIN q : \E l \in DOMAIN pending \ K : q[k] = pending[l]
     /\ LeftOf(z, c) = LeftOf(y, c)
     /\ OnceIn(y, c) => OnceIn(z, c)
     /\ (\A k \in K : pending[k].ctx # c) /\ InOrder(y, c) => InOrder(z, c)
     /\ WellOf(f, c) =
          WellOf(e, c) \cup (IF 1 \in K /\ n = 1 /\ pending[1].ctx = c
                             THEN {pending[1].idx} ELSE {})
     /\ \A k \in DOMAIN f : \/ k \in DOMAIN e /\ f[k] = e[k]
                            \/ /\ f[k].status = "cancelled"
                               /\ \E l \in K : f[k].ctx = pending[l].ctx

(* The line after URBs were discarded.                                       *)
LEMMA DiscardsLine ==
  ASSUME pending \in Seq(UrbOut), NEW e \in Seq(UrbEnd), NEW K \in SUBSET DOMAIN pending,
         NEW n \in {0, 1}, NEW c
  PROVE  Discards(e, K, n, c)
<1> DEFINE m == Cardinality(K)
           D == Discarded(K, n)
           g == [i \in 1 .. m |-> Nth(K, m + 1 - i)]
           y == Line(pending, e)
           q == Those(pending, DOMAIN pending \ K)
           f == e \o D
           z == Line(q, f)
<1>1. /\ Len(pending) \in Nat /\ DOMAIN pending = 1 .. Len(pending)
      /\ \A k \in DOMAIN pending : pending[k] \in UrbOut
  OBVIOUS
<1>2. /\ m \in Nat
      /\ \A i \in 1 .. m : Nth(K, i) \in K
      /\ \A k \in K : Rank(K, k) \in 1 .. m /\ Nth(K, Rank(K, k)) = k
      /\ \A i, j \in 1 .. m : i < j => Nth(K, i) < Nth(K, j)
  <2>1. K \in SUBSET (1 .. Len(pending))
    BY <1>1
  <2>2. QED BY <1>1, <2>1, Ranks
<1>3. \A i \in 1 .. m : m + 1 - i \in 1 .. m /\ m + 1 - (m + 1 - i) = i
  BY <1>2
<1>4. g \in [1 .. m -> K]
  BY <1>2, <1>3
<1>5. \A i, j \in 1 .. m : g[i] = g[j] => i = j
  <2>1. SUFFICES ASSUME NEW i \in 1 .. m, NEW j \in 1 .. m, i < j
                 PROVE  g[i] # g[j]
    BY <1>2
  <2>2. m + 1 - j < m + 1 - i /\ m + 1 - j \in 1 .. m /\ m + 1 - i \in 1 .. m
    BY <1>2, <2>1
  <2>3. g[j] < g[i]
    BY <1>2, <2>1, <2>2
  <2>4. g[i] \in Int /\ g[j] \in Int
    BY <1>1, <1>4, <2>1
  <2>5. QED BY <2>3, <2>4
<1>6. \A k \in K : \E i \in 1 .. m : g[i] = k
  <2>1. SUFFICES ASSUME NEW k \in K PROVE \E i \in 1 .. m : g[i] = k
    OBVIOUS
  <2>2. PICK s \in 1 .. m : Nth(K, s) = k
    BY <1>2
  <2>3. m + 1 - s \in 1 .. m /\ g[m + 1 - s] = Nth(K, m + 1 - (m + 1 - s))
    BY <1>3
  <2>4. g[m + 1 - s] = k
    BY <1>3, <2>2, <2>3
  <2>5. QED BY <2>3, <2>4
<1>7. ASSUME NEW i \in 1 .. m
      PROVE  /\ D[i] \in UrbEnd
             /\ D[i].ctx = pending[g[i]].ctx /\ D[i].idx = pending[g[i]].idx
             /\ D[i].status = "cancelled" /\ D[i].n = IF g[i] = 1 THEN n ELSE 0
  <2>1. D[i] = Ended(pending[g[i]], "cancelled", IF g[i] = 1 THEN n ELSE 0)
    BY DEF Discarded
  <2>2. pending[g[i]] \in UrbOut
    BY <1>1, <1>4
  <2>3. QED BY <2>1, <2>2 DEF Ended, UrbOut, UrbEnd
<1>8. D \in Seq(UrbEnd) /\ Len(D) = m /\ DOMAIN D = 1 .. m
  <2>1. D = [i \in 1 .. m |-> D[i]]
    BY DEF Discarded
  <2>2. D \in [1 .. m -> UrbEnd]
    BY <1>7, <2>1
  <2>3. QED BY <1>2, <2>2, IsSequence
<1> HIDE DEF m, D, g
<1>9. /\ q \in Seq(UrbOut) /\ f \in Seq(UrbEnd)
      /\ \A k \in DOMAIN q : \E l \in DOMAIN pending \ K : q[k] = pending[l]
      /\ LeftOf(z, c) = LeftOf(y, c)
      /\ OnceIn(y, c) => OnceIn(z, c)
      /\ /\ InOrder(y, c)
         /\ \A i, j \in DOMAIN D : i < j /\ D[i].ctx = c /\ D[j].ctx = c => g[i] < g[j]
         /\ \A k \in K, l \in DOMAIN pending \ K :
              pending[k].ctx = c /\ pending[l].ctx = c => k < l
         => InOrder(z, c)
  <2>1. /\ g \in [DOMAIN D -> K]
        /\ \A i \in DOMAIN D : D[i].ctx = pending[g[i]].ctx /\ D[i].idx = pending[g[i]].idx
        /\ \A i, j \in DOMAIN D : g[i] = g[j] => i = j
        /\ \A k \in K : \E i \in DOMAIN D : g[i] = k
    BY <1>4, <1>5, <1>6, <1>7, <1>8
  <2>2. Moves(pending, K, D, g)
    BY <1>8, <2>1 DEF Moves
  <2>3. QED BY <2>2, Moved
<1>10. ASSUME \A k \in K : pending[k].ctx # c, InOrder(y, c) PROVE InOrder(z, c)
  <2>1. \A i \in DOMAIN D : D[i].ctx # c
    BY <1>4, <1>7, <1>8, <1>10
  <2>2. QED BY <1>9, <1>10, <2>1
<1>11. WellOf(D, c) = IF 1 \in K /\ n = 1 /\ pending[1].ctx = c THEN {pending[1].idx} ELSE {}
  <2>1. ASSUME NEW i \in 1 .. m, D[i].ctx = c, D[i].n = 1
        PROVE  1 \in K /\ n = 1 /\ pending[1].ctx = c /\ D[i].idx = pending[1].idx
    <3>1. g[i] = 1 /\ n = 1
      BY <1>7, <2>1
    <3>2. QED BY <1>4, <1>7, <2>1, <3>1
  <2>2. ASSUME 1 \in K, n = 1, pending[1].ctx = c
        PROVE  \E i \in 1 .. m : D[i].ctx = c /\ D[i].n = 1 /\ D[i].idx = pending[1].idx
    <3>1. PICK i \in 1 .. m : g[i] = 1
      BY <1>6, <2>2
    <3>2. QED BY <1>7, <2>2, <3>1
  <2>3. QED BY <1>8, <2>1, <2>2 DEF WellOf
<1>12. WellOf(f, c) = WellOf(e, c) \cup WellOf(D, c)
  BY <1>8, WellGrows
<1>13. ASSUME NEW k \in DOMAIN f
       PROVE  \/ k \in DOMAIN e /\ f[k] = e[k]
              \/ f[k].status = "cancelled" /\ \E l \in K : f[k].ctx = pending[l].ctx
  <2>1. /\ Len(e) \in Nat /\ DOMAIN e = 1 .. Len(e)
        /\ DOMAIN f = 1 .. Len(e) + Len(D) /\ Len(D) \in Nat
        /\ \A i \in 1 .. Len(e) : f[i] = e[i]
        /\ \A i \in 1 .. Len(D) : f[Len(e) + i] = D[i]
    BY <1>8
  <2>2. CASE k \in 1 .. Len(e)
    BY <2>1, <2>2
  <2>3. CASE k \notin 1 .. Len(e)
    <3>1. k - Len(e) \in 1 .. Len(D) /\ Len(e) + (k - Len(e)) = k
      BY <2>1, <2>3
    <3>2. f[k] = D[k - Len(e)] /\ k - Len(e) \in 1 .. m
      BY <1>8, <2>1, <3>1
    <3>3. QED BY <1>4, <1>7, <3>2
  <2>4. QED BY <2>2, <2>3
<1>14. QED BY <1>9, <1>10, <1>11, <1>12, <1>13 DEF D, Discards

(* A URB that fails, as x, and those the kernel cancels with it.           *)
Ends(e, b, x, K, c) ==
  LET y == Line(pending, e)
      q == Those(pending, (2 .. Len(pending)) \ K)
      f == Append(e, x) \o [i \in 1 .. Cardinality(K) |->
                              Ended(pending[Nth(K, i)], "cancelled", 0)]
      z == Line(q, f)
  IN /\ q \in Seq(UrbOut) /\ f \in Seq(UrbEnd)
     /\ \A k \in DOMAIN q : \E l \in DOMAIN pending : q[k] = pending[l]
     /\ b => \A k \in DOMAIN q : q[k].ctx # Head(pending).ctx
     /\ LeftOf(z, c) = LeftOf(y, c)
     /\ OnceIn(y, c) => OnceIn(z, c)
     /\ InOrder(y, c) => InOrder(z, c)
     /\ WellOf(f, c) = WellOf(e, c)
     /\ \A k \in DOMAIN f : \/ k \in DOMAIN e /\ f[k] = e[k]
                            \/ /\ f[k].status \in {x.status, "cancelled"}
                               /\ f[k].ctx = Head(pending).ctx

(* The line after one failed, and those that continue it were cancelled.     *)
LEMMA EndsLine ==
  ASSUME pending \in Seq(UrbOut), pending # <<>>, NEW e \in Seq(UrbEnd), NEW b \in BOOLEAN,
         NEW x \in UrbEnd, x.ctx = Head(pending).ctx, x.idx = Head(pending).idx, x.n = 0,
         NEW K, K = {k \in 2 .. Len(pending) : b /\ pending[k].ctx = Head(pending).ctx}, NEW c
  PROVE  Ends(e, b, x, K, c)
<1> DEFINE m == Cardinality(K)
           M == K \cup {1}
           r == [i \in 1 .. m |-> Ended(pending[Nth(K, i)], "cancelled", 0)]
           D == <<x>> \o r
           g == [i \in 1 .. m + 1 |-> IF i = 1 THEN 1 ELSE Nth(K, i - 1)]
           y == Line(pending, e)
           q == Those(pending, (2 .. Len(pending)) \ K)
           f == Append(e, x) \o r
           z == Line(q, f)
<1>1. /\ Len(pending) \in Nat \ {0} /\ DOMAIN pending = 1 .. Len(pending)
      /\ \A k \in DOMAIN pending : pending[k] \in UrbOut
      /\ Head(pending) = pending[1]
  OBVIOUS
<1>2. /\ m \in Nat
      /\ \A i \in 1 .. m : Nth(K, i) \in K
      /\ \A k \in K : Rank(K, k) \in 1 .. m /\ Nth(K, Rank(K, k)) = k
      /\ \A i, j \in 1 .. m : i < j => Nth(K, i) < Nth(K, j)
      /\ \A k \in K : k \in 2 .. Len(pending) /\ pending[k].ctx = x.ctx
  <2>1. K \in SUBSET (1 .. Len(pending))
    BY <1>1
  <2>2. \A k \in K : k \in 2 .. Len(pending) /\ pending[k].ctx = x.ctx
    OBVIOUS
  <2>3. PICK N \in Nat : N = Len(pending)
    BY <1>1
  <2>4. PICK L \in SUBSET (1 .. N) : L = K
    BY <2>1, <2>3
  <2>5. /\ Cardinality(L) \in Nat
        /\ \A i \in 1 .. Cardinality(L) : Nth(L, i) \in L
        /\ \A k \in L : Rank(L, k) \in 1 .. Cardinality(L) /\ Nth(L, Rank(L, k)) = k
        /\ \A i, j \in 1 .. Cardinality(L) : i < j => Nth(L, i) < Nth(L, j)
    <3> HIDE DEF m, M, r, D, g, y, q, f, z
    <3>1. /\ Cardinality(L) \in Nat
          /\ \A i \in 1 .. Cardinality(L) : Nth(L, i) \in L /\ Rank(L, Nth(L, i)) = i
          /\ \A k \in L : Rank(L, k) \in 1 .. Cardinality(L) /\ Nth(L, Rank(L, k)) = k
          /\ \A i, j \in 1 .. Cardinality(L) : i < j => Nth(L, i) < Nth(L, j)
      BY Ranks
    <3>2. QED BY <3>1
  <2>6. QED BY <2>2, <2>4, <2>5, SMTT(30)
<1>3. ASSUME NEW i \in 1 .. m
      PROVE  /\ r[i] \in UrbEnd
             /\ r[i].ctx = pending[Nth(K, i)].ctx /\ r[i].idx = pending[Nth(K, i)].idx
             /\ r[i].status = "cancelled" /\ r[i].n = 0
  <2>1. r[i] = Ended(pending[Nth(K, i)], "cancelled", 0)
    OBVIOUS
  <2>2. pending[Nth(K, i)] \in UrbOut
    BY <1>1, <1>2
  <2>3. QED BY <2>1, <2>2 DEF Ended, UrbOut, UrbEnd
<1>4. r \in Seq(UrbEnd) /\ Len(r) = m /\ DOMAIN r = 1 .. m
  <2>1. r \in [1 .. m -> UrbEnd]
    BY <1>3
  <2>2. QED BY <1>2, <2>1, IsSequence
<1> HIDE DEF m, r
<1>5. /\ D \in Seq(UrbEnd) /\ Len(D) = m + 1 /\ DOMAIN D = 1 .. m + 1
      /\ D[1] = x /\ \A i \in 1 .. m : D[i + 1] = r[i]
      /\ f = e \o D
  <2>1. <<x>> \in Seq(UrbEnd) /\ Append(e, x) = e \o <<x>>
    OBVIOUS
  <2>2. (e \o <<x>>) \o r = e \o (<<x>> \o r)
    BY <1>4, <2>1
  <2>3. QED BY <1>2, <1>4, <2>1, <2>2
<1>6. \A i \in 1 .. m + 1 : i = 1 \/ (i - 1 \in 1 .. m /\ i = i - 1 + 1)
  BY <1>2
<1>7. /\ g \in [1 .. m + 1 -> M] /\ M \in SUBSET DOMAIN pending
      /\ g[1] = 1 /\ \A i \in 1 .. m : g[i + 1] = Nth(K, i)
  BY <1>1, <1>2, <1>6
<1>8. \A i, j \in 1 .. m + 1 : i < j => g[i] < g[j]
  <2>1. SUFFICES ASSUME NEW i \in 1 .. m + 1, NEW j \in 1 .. m + 1, i < j
                 PROVE  g[i] < g[j]
    OBVIOUS
  <2>2. j - 1 \in 1 .. m /\ g[j] = Nth(K, j - 1) /\ j # 1
    BY <1>2, <2>1
  <2>3. CASE i = 1
    BY <1>2, <1>7, <2>2, <2>3
  <2>4. CASE i # 1
    <3>1. i - 1 \in 1 .. m /\ g[i] = Nth(K, i - 1) /\ i - 1 < j - 1
      BY <1>2, <2>1, <2>4
    <3>2. QED BY <1>2, <2>2, <3>1
  <2>5. QED BY <2>3, <2>4
<1> HIDE DEF g, D, f
<1>9. Moves(pending, M, D, g)
  <2>1. ASSUME NEW i \in 1 .. m + 1
        PROVE  D[i].ctx = pending[g[i]].ctx /\ D[i].idx = pending[g[i]].idx
    <3>1. CASE i = 1
      BY <1>1, <1>5, <1>7, <3>1
    <3>2. CASE i - 1 \in 1 .. m /\ i = i - 1 + 1
      <4>1. D[i] = r[i - 1] /\ g[i] = Nth(K, i - 1)
        BY <1>5, <1>7, <3>2
      <4>2. QED BY <1>3, <3>2, <4>1
    <3>3. QED BY <1>6, <3>1, <3>2
  <2>2. ASSUME NEW i \in 1 .. m + 1, NEW j \in 1 .. m + 1, g[i] = g[j] PROVE i = j
    <3>1. g[i] \in Int /\ g[j] \in Int
      BY <1>1, <1>7
    <3>2. ~(i < j) /\ ~(j < i)
      BY <1>8, <2>2, <3>1
    <3>3. QED BY <1>2, <3>2
  <2>3. ASSUME NEW k \in M PROVE \E i \in 1 .. m + 1 : g[i] = k
    <3>1. CASE k = 1
      BY <1>2, <1>7, <3>1
    <3>2. CASE k \in K
      <4>1. PICK i \in 1 .. m : Nth(K, i) = k
        BY <1>2, <3>2
      <4>2. i + 1 \in 1 .. m + 1 /\ g[i + 1] = k
        BY <1>2, <1>7, <4>1
      <4>3. QED BY <4>2
    <3>3. QED BY <3>1, <3>2
  <2>4. QED BY <1>5, <1>7, <2>1, <2>2, <2>3, ZenonT(60) DEF Moves
<1>10. (2 .. Len(pending)) \ K = DOMAIN pending \ M
  BY <1>1
<1>11. /\ q \in Seq(UrbOut) /\ f \in Seq(UrbEnd)
       /\ \A k \in DOMAIN q : \E l \in DOMAIN pending \ M : q[k] = pending[l]
       /\ LeftOf(z, c) = LeftOf(y, c)
       /\ OnceIn(y, c) => OnceIn(z, c)
       /\ /\ InOrder(y, c)
          /\ \A i, j \in DOMAIN D : i < j /\ D[i].ctx = c /\ D[j].ctx = c => g[i] < g[j]
          /\ \A k \in M, l \in DOMAIN pending \ M :
               pending[k].ctx = c /\ pending[l].ctx = c => k < l
          => InOrder(z, c)
  <2>1. LET q1 == Those(pending, DOMAIN pending \ M)
            z1 == Line(q1, e \o D)
        IN /\ q1 \in Seq(UrbOut) /\ e \o D \in Seq(UrbEnd)
           /\ \A k \in DOMAIN q1 : \E l \in DOMAIN pending \ M : q1[k] = pending[l]
           /\ LeftOf(z1, c) = LeftOf(y, c)
           /\ OnceIn(y, c) => OnceIn(z1, c)
           /\ /\ InOrder(y, c)
              /\ \A i, j \in DOMAIN D : i < j /\ D[i].ctx = c /\ D[j].ctx = c => g[i] < g[j]
              /\ \A k \in M, l \in DOMAIN pending \ M :
                   pending[k].ctx = c /\ pending[l].ctx = c => k < l
              => InOrder(z1, c)
    BY <1>9, Moved
  <2>2. q = Those(pending, DOMAIN pending \ M)
    BY <1>10
  <2>3. f = e \o D /\ z = Line(q, f)
    BY <1>5
  <2> HIDE DEF q, z
  <2>4. QED BY <2>1, <2>2, <2>3, ZenonT(60) DEF z
<1>12. InOrder(y, c) => InOrder(z, c)
  <2>1. ASSUME NEW k \in M, NEW l \in DOMAIN pending \ M,
               pending[k].ctx = c, pending[l].ctx = c
        PROVE  k < l
    <3>1. CASE k = 1
      BY <1>1, <2>1, <3>1
    <3>2. CASE k \in K
      <4>1. l \in 2 .. Len(pending) /\ pending[l].ctx = Head(pending).ctx /\ b
        BY <1>1, <1>2, <2>1, <3>2
      <4>2. QED BY <2>1, <4>1
    <3>3. QED BY <2>1, <3>1, <3>2
  <2>2. QED BY <1>5, <1>8, <1>11, <2>1
<1>13. b => \A k \in DOMAIN q : q[k].ctx # Head(pending).ctx
  <2>1. ASSUME b, NEW l \in DOMAIN pending \ M PROVE pending[l].ctx # Head(pending).ctx
    BY <1>1, <2>1
  <2>2. SUFFICES ASSUME b, NEW k \in DOMAIN q PROVE q[k].ctx # Head(pending).ctx
    OBVIOUS
  <2>3. PICK l \in DOMAIN pending \ M : q[k] = pending[l]
    BY <1>11, <2>2
  <2>4. QED BY <2>1, <2>2, <2>3
<1>14. WellOf(f, c) = WellOf(e, c)
  <2>1. \A i \in 1 .. m + 1 : D[i].n = 0
    <3>1. \A i \in 1 .. m : D[i + 1].n = 0
      BY <1>3, <1>5
    <3>2. QED BY <1>5, <1>6, <3>1
  <2>2. WellOf(D, c) = {}
    BY <1>5, <2>1 DEF WellOf
  <2>3. WellOf(e \o D, c) = WellOf(e, c) \cup WellOf(D, c)
    BY <1>5, WellGrows
  <2>4. QED BY <1>5, <2>2, <2>3
<1>15. ASSUME NEW k \in DOMAIN f
       PROVE  \/ k \in DOMAIN e /\ f[k] = e[k]
              \/ f[k].status \in {x.status, "cancelled"} /\ f[k].ctx = Head(pending).ctx
  <2>1. /\ Len(e) \in Nat /\ DOMAIN e = 1 .. Len(e)
        /\ DOMAIN f = 1 .. Len(e) + Len(D) /\ Len(D) \in Nat
        /\ \A i \in 1 .. Len(e) : f[i] = e[i]
        /\ \A i \in 1 .. Len(D) : f[Len(e) + i] = D[i]
    BY <1>5
  <2>2. CASE k \in 1 .. Len(e)
    BY <2>1, <2>2
  <2>3. CASE k \notin 1 .. Len(e)
    <3>1. k - Len(e) \in 1 .. Len(D) /\ Len(e) + (k - Len(e)) = k
      BY <2>1, <2>3
    <3>2. f[k] = D[k - Len(e)] /\ k - Len(e) \in 1 .. m + 1
      BY <1>5, <2>1, <3>1
    <3>3. PICK i \in 1 .. m + 1 : f[k] = D[i]
      BY <3>2
    <3>4. CASE i = 1
      BY <1>5, <3>3, <3>4
    <3>5. CASE i - 1 \in 1 .. m /\ i = i - 1 + 1
      <4>1. f[k] = r[i - 1]
        BY <1>5, <3>3, <3>5
      <4>2. r[i - 1].status = "cancelled" /\ r[i - 1].ctx = x.ctx
        BY <1>2, <1>3, <3>5
      <4>3. QED BY <4>1, <4>2
    <3>6. QED BY <1>6, <3>4, <3>5
  <2>4. QED BY <2>2, <2>3
<1>16. QED BY <1>11, <1>12, <1>13, <1>14, <1>15, ZenonT(60) DEF r, m, f, Ends

(* What DiscardUrbs takes out of the line and puts back behind e.          *)
DiscardsUrbs(e, a, first, last, n, c) ==
  LET d == DiscardUrbs(a, first, last, n)
      y == Line(pending, e)
      f == e \o d.urbs
      z == Line(d.rest, f)
      none == \A k \in DOMAIN pending :
                pending[k].ctx = a => ~plugged \/ pending[k].idx \notin first .. last
  IN /\ d.rest \in Seq(UrbOut) /\ f \in Seq(UrbEnd) /\ d.sent \in {0, 1}
     /\ \A k \in DOMAIN d.rest : \E l \in DOMAIN pending :
          d.rest[k] = pending[l] /\ (plugged => ~OfRange(pending[l], a, first, last))
     /\ LeftOf(z, c) = LeftOf(y, c)
     /\ OnceIn(y, c) => OnceIn(z, c)
     /\ (c # a \/ none) /\ InOrder(y, c) => InOrder(z, c)
     /\ c # a \/ none => WellOf(f, c) = WellOf(e, c)
     /\ none => d.sent = 0
     /\ c = a /\ OnceIn(y, c) =>
          Cardinality(WellOf(f, c)) = Cardinality(WellOf(e, c)) + d.sent
     /\ \A k \in DOMAIN f : \/ k \in DOMAIN e /\ f[k] = e[k]
                            \/ f[k].status = "cancelled" /\ f[k].ctx = a /\ ~none

(* discard_urbs() as a change of the line.                                   *)
LEMMA DiscardUrbsLine ==
  ASSUME SendingSizes, pending \in Seq(UrbOut), plugged \in BOOLEAN,
         NEW e \in Seq(UrbEnd), NEW a, NEW first \in Int, NEW last \in Int,
         NEW n \in {0, 1}, NEW c
  PROVE  DiscardsUrbs(e, a, first, last, n, c)
<1> DEFINE d == DiscardUrbs(a, first, last, n)
           y == Line(pending, e)
           f == e \o d.urbs
           z == Line(d.rest, f)
           none == \A k \in DOMAIN pending :
                     pending[k].ctx = a => ~plugged \/ pending[k].idx \notin first .. last
           K == {k \in DOMAIN pending : plugged /\ OfRange(pending[k], a, first, last)}
<1>1. /\ d.urbs = Discarded(K, n) /\ d.rest = Those(pending, DOMAIN pending \ K)
      /\ d.sent = IF 1 \in K THEN n ELSE 0
  BY DEF DiscardUrbs
<1>2. K \in SUBSET DOMAIN pending /\ \A k \in K : pending[k].ctx = a
  BY DEF OfRange
<1>3. none => K = {}
  BY DEF OfRange
<1>4. \A l \in DOMAIN pending \ K : plugged => ~OfRange(pending[l], a, first, last)
  OBVIOUS
<1>5. 1 \in K => 1 \in DOMAIN pending
  OBVIOUS
<1> HIDE DEF K, none
<1>6. PICK J \in SUBSET DOMAIN pending : J = K
  BY <1>2
<1>7. PICK q, g, x : /\ q = Those(pending, DOMAIN pending \ J)
                     /\ g = e \o Discarded(J, n)
                     /\ x = Line(q, g)
  OBVIOUS
<1>8. /\ q \in Seq(UrbOut) /\ g \in Seq(UrbEnd)
      /\ \A k \in DOMAIN q : \E l \in DOMAIN pending \ J : q[k] = pending[l]
      /\ LeftOf(x, c) = LeftOf(Line(pending, e), c)
      /\ OnceIn(Line(pending, e), c) => OnceIn(x, c)
      /\ (\A k \in J : pending[k].ctx # c) /\ InOrder(Line(pending, e), c) => InOrder(x, c)
      /\ WellOf(g, c) =
           WellOf(e, c) \cup (IF 1 \in J /\ n = 1 /\ pending[1].ctx = c
                              THEN {pending[1].idx} ELSE {})
      /\ \A k \in DOMAIN g : \/ k \in DOMAIN e /\ g[k] = e[k]
                             \/ /\ g[k].status = "cancelled"
                                /\ \E l \in J : g[k].ctx = pending[l].ctx
  <2> HIDE DEF d, f, z, y
  <2>1. J \in SUBSET DOMAIN pending
    BY <1>6
  <2>2. Discards(e, J, n, c)
    BY <2>1, DiscardsLine
  <2>3. QED BY <1>7, <2>2 DEF Discards
<1>9. d.rest = q /\ f = g /\ z = x
  BY <1>1, <1>6, <1>7
<1> HIDE DEF d, f, z, y
<1>10. /\ d.rest \in Seq(UrbOut) /\ f \in Seq(UrbEnd)
       /\ \A k \in DOMAIN d.rest : \E l \in DOMAIN pending \ K : d.rest[k] = pending[l]
       /\ LeftOf(z, c) = LeftOf(y, c)
       /\ OnceIn(y, c) => OnceIn(z, c)
       /\ (\A k \in K : pending[k].ctx # c) /\ InOrder(y, c) => InOrder(z, c)
       /\ WellOf(f, c) =
            WellOf(e, c) \cup (IF 1 \in K /\ n = 1 /\ pending[1].ctx = c
                               THEN {pending[1].idx} ELSE {})
       /\ \A k \in DOMAIN f : \/ k \in DOMAIN e /\ f[k] = e[k]
                              \/ /\ f[k].status = "cancelled"
                                 /\ \E l \in K : f[k].ctx = pending[l].ctx
  BY <1>6, <1>8, <1>9 DEF y
<1>11. \A k \in DOMAIN d.rest : \E l \in DOMAIN pending :
         d.rest[k] = pending[l] /\ (plugged => ~OfRange(pending[l], a, first, last))
  BY <1>4, <1>10
<1>12. (c # a \/ none) /\ InOrder(y, c) => InOrder(z, c)
  BY <1>2, <1>3, <1>10
<1>13. (c # a \/ none => WellOf(f, c) = WellOf(e, c)) /\ (none => d.sent = 0)
  BY <1>1, <1>2, <1>3, <1>10
<1>14. ASSUME c = a, OnceIn(y, c)
       PROVE  Cardinality(WellOf(f, c)) = Cardinality(WellOf(e, c)) + d.sent
  <2>1. IsFiniteSet(WellOf(e, c)) /\ Cardinality(WellOf(e, c)) \in Nat
    <3>1. WellOf(e, c) \in SUBSET Urbs
      BY WellLeft
    <3>2. NumUrbs \in Nat
      BY DEF SendingSizes
    <3>3. IsFiniteSet(Urbs)
      BY <3>2, FS_Interval DEF Urbs
    <3>4. QED BY <3>1, <3>3, FS_Subset, FS_CardinalityType
  <2>2. CASE 1 \in K /\ n = 1
    <3>1. pending[1].ctx = c
      BY <1>2, <1>14, <2>2
    <3>2. pending[1].idx \notin WellOf(e, c)
      <4>1. SUFFICES ASSUME NEW k \in DOMAIN e, e[k].ctx = c, e[k].idx = pending[1].idx
                     PROVE  FALSE
        BY DEF WellOf
      <4>2. /\ k \in DOMAIN y /\ y[k].ctx = e[k].ctx /\ y[k].idx = e[k].idx
            /\ Len(e) + 1 \in DOMAIN y /\ y[Len(e) + 1] = pending[1]
            /\ k \in 1 .. Len(e) /\ Len(e) \in Nat
        <5>1. 1 \in 1 .. Len(pending) /\ k \in 1 .. Len(e) /\ Len(e) \in Nat
          BY <1>5, <2>2
        <5>2. QED BY <5>1, Lined DEF y
      <4>3. k = Len(e) + 1
        BY <1>14, <3>1, <4>1, <4>2 DEF OnceIn, Of
      <4>4. QED BY <4>2, <4>3
    <3>3. WellOf(f, c) = WellOf(e, c) \cup {pending[1].idx}
      BY <1>10, <2>2, <3>1
    <3>4. Cardinality(WellOf(e, c) \cup {pending[1].idx}) = Cardinality(WellOf(e, c)) + 1
      BY <2>1, <3>2, FS_AddElement
    <3>5. QED BY <1>1, <2>2, <3>3, <3>4
  <2>3. CASE ~(1 \in K /\ n = 1)
    <3>1. WellOf(f, c) = WellOf(e, c) /\ d.sent = 0
      BY <1>1, <1>10, <2>3
    <3>2. QED BY <2>1, <3>1
  <2>4. QED BY <2>2, <2>3
<1>15. \A k \in DOMAIN f : \/ k \in DOMAIN e /\ f[k] = e[k]
                           \/ f[k].status = "cancelled" /\ f[k].ctx = a /\ ~none
  BY <1>2, <1>3, <1>10
<1>16. d.sent \in {0, 1}
  BY <1>1
<1>17. QED
  BY <1>10, <1>11, <1>12, <1>13, <1>14, <1>15, <1>16 DEF d, f, z, y, none, DiscardsUrbs

-----------------------------------------------------------------------------
(* What each step does to the transfers, the line and the context it is      *)
(* about, and that it leaves the others alone.                               *)

(* A step changes what is known of no context but a.                       *)
Only(a) ==
  \A c \in Contexts : c # a => transfer'[c] = transfer[c] /\ sent'[c] = sent[c]

txElse == <<bi, handles, bufferUsed>>
evElse == <<pcEv, evAt, evStatus, polled>>
lineElse == <<pending, ended, plugged, continuation>>

LEMMA SubmitEffect ==
  ASSUME SendingSizes, SendingIInv, TxSubmit, ~InFlight(at)
  PROVE  /\ transfer' \in [Contexts -> Transfers] /\ sent' \in [Contexts -> Nat]
         /\ at \in Contexts /\ pcTx = "submit" /\ pcTx' = "urbs" /\ at' = at
         /\ transfer'[at].flags = {"submitting"}
         /\ transfer'[at].transferred = 0 /\ transfer'[at].num_retired = 0
         /\ transfer'[at].reap_action = "normal" /\ transfer'[at].reap_status = "completed"
         /\ sent'[at] = 0 /\ Only(at)
         /\ flying' = flying \cup {at}
         /\ UNCHANGED <<txElse, evElse, lineElse, nextUrb, used, done, bytesXfered, owed,
                        gaveUp, trouble>>
<1>1. /\ transfer' = [transfer EXCEPT ![at] = [Idle EXCEPT !.flags = {"submitting"}, !.urbs = TRUE]]
      /\ flying' = flying \cup {at}
      /\ sent' = [sent EXCEPT ![at] = 0]
      /\ pcTx = "submit" /\ pcTx' = "urbs" /\ at' = at
      /\ UNCHANGED <<txElse, evElse, lineElse, nextUrb, used, done, bytesXfered, owed,
                     gaveUp, trouble>>
  BY DEF TxSubmit, InFlight, txVars, evVars, kernelVars, txElse, evElse, lineElse
<1>2. /\ at \in Contexts /\ transfer \in [Contexts -> Transfers] /\ sent \in [Contexts -> Nat]
  BY <1>1 DEF SendingIInv, LoansIInv, Loans, EvType
<1>3. PICK X : X = [Idle EXCEPT !.flags = {"submitting"}, !.urbs = TRUE]
  OBVIOUS
<1>4. /\ X \in Transfers /\ X.flags = {"submitting"} /\ X.transferred = 0 /\ X.num_retired = 0
      /\ X.reap_action = "normal" /\ X.reap_status = "completed"
  BY <1>3 DEF Idle, Transfers
<1>5. transfer' = [transfer EXCEPT ![at] = X]
  BY <1>1, <1>3
<1>6. transfer'[at] = X /\ sent'[at] = 0 /\ Only(at)
  BY <1>1, <1>2, <1>5 DEF Only
<1>7. transfer' \in [Contexts -> Transfers] /\ sent' \in [Contexts -> Nat]
  BY <1>1, <1>2, <1>4, <1>5
<1>8. QED BY <1>1, <1>2, <1>4, <1>6, <1>7

LEMMA UrbEffect ==
  ASSUME SendingSizes, SendingIInv, TxUrb
  PROVE  /\ at \in Contexts /\ pcTx = "urbs" /\ nextUrb \in Urbs /\ nextUrb' = nextUrb + 1
         /\ plugged /\ ~EndedEarly(at)
         /\ Urb(at, nextUrb) \in UrbOut /\ pending' = Append(pending, Urb(at, nextUrb))
         /\ pending' \in Seq(UrbOut)
         /\ UNCHANGED <<pcTx, at, txElse, evElse, transfer, sent, flying, ended, plugged,
                        continuation, used, done, bytesXfered, owed, gaveUp, trouble>>
<1>1. /\ pcTx = "urbs" /\ nextUrb < NumUrbs /\ nextUrb' = nextUrb + 1
      /\ plugged /\ ~EndedEarly(at)
      /\ pending' = Append(pending, Urb(at, nextUrb))
      /\ UNCHANGED <<pcTx, at, txElse, evElse, transfer, sent, flying, ended, plugged,
                     continuation, used, done, bytesXfered, owed, gaveUp, trouble>>
  BY DEF TxUrb, txVars, ctxVars, evVars, txElse, evElse
<1>2. at \in Contexts /\ nextUrb \in 0 .. NumUrbs /\ pending \in Seq(UrbOut)
  BY <1>1 DEF SendingIInv, LoansIInv, Loans, EvType
<1>3. nextUrb \in Urbs /\ Urb(at, nextUrb) \in UrbOut
  BY <1>1, <1>2 DEF Urbs, Urb, UrbOut, SendingSizes
<1>4. pending' \in Seq(UrbOut)
  BY <1>1, <1>2, <1>3
<1>5. QED BY <1>1, <1>2, <1>3, <1>4

LEMMA FirstUrbFailsEffect ==
  ASSUME SendingSizes, SendingIInv, TxFirstUrbFails
  PROVE  /\ transfer' \in [Contexts -> Transfers]
         /\ at \in Contexts /\ bi \in Buffers /\ pcTx = "urbs" /\ pcTx' = "loop"
         /\ nextUrb = 0 /\ nextUrb' = 0
         /\ transfer'[at].flags = transfer[at].flags \ {"submitting"}
         /\ transfer'[at].transferred = transfer[at].transferred
         /\ transfer'[at].num_retired = transfer[at].num_retired
         /\ transfer'[at].reap_action = transfer[at].reap_action
         /\ transfer'[at].reap_status = transfer[at].reap_status
         /\ Only(at)
         /\ flying' = flying \ {at}
         /\ used' = [used EXCEPT ![at] = FALSE]
         /\ handles' = [handles EXCEPT ![bi] = NoHandle]
         /\ bufferUsed' = [bufferUsed EXCEPT ![bi] = TRUE]
         /\ IF plugged THEN trouble' = TRUE ELSE trouble' = trouble
         /\ UNCHANGED <<evElse, lineElse, sent, done, bytesXfered, owed, gaveUp>>
<1>1. /\ transfer' = [transfer EXCEPT ![at].urbs = FALSE, ![at].flags = @ \ {"submitting"}]
      /\ pcTx = "urbs" /\ nextUrb = 0
      /\ flying' = flying \ {at}
      /\ IF plugged THEN trouble' = (trouble \/ TRUE) ELSE trouble' = trouble
      /\ UNCHANGED <<evElse, lineElse, sent, done, bytesXfered, owed, gaveUp>>
  BY DEF TxFirstUrbFails, evVars, kernelVars, evElse, lineElse, Fault, NoFault
<1>2. /\ pcTx' = "loop" /\ nextUrb' = 0
      /\ used' = [used EXCEPT ![at] = FALSE]
      /\ handles' = [handles EXCEPT ![bi] = NoHandle]
      /\ bufferUsed' = [bufferUsed EXCEPT ![bi] = TRUE]
  BY DEF TxFirstUrbFails, Refused, Release, Begun
<1>3. /\ at \in Contexts /\ transfer \in [Contexts -> Transfers] /\ bi \in Buffers
  BY <1>1 DEF SendingIInv, LoansIInv, Loans, TxType, EvType
<1>4. PICK X : X = [transfer[at] EXCEPT !.urbs = FALSE, !.flags = @ \ {"submitting"}]
  OBVIOUS
<1>5. /\ X \in Transfers /\ X.flags = transfer[at].flags \ {"submitting"}
      /\ X.transferred = transfer[at].transferred /\ X.num_retired = transfer[at].num_retired
      /\ X.reap_action = transfer[at].reap_action /\ X.reap_status = transfer[at].reap_status
  <2>1. PICK t \in Transfers : t = transfer[at]
    BY <1>3
  <2>2. X = [t EXCEPT !.urbs = FALSE, !.flags = @ \ {"submitting"}]
    BY <1>4, <2>1
  <2>3. QED BY <2>1, <2>2 DEF Transfers
<1>6. transfer' = [transfer EXCEPT ![at] = X]
  BY <1>1, <1>3, <1>4
<1>7. transfer'[at] = X /\ Only(at)
  BY <1>1, <1>3, <1>6 DEF Only
<1>8. transfer' \in [Contexts -> Transfers]
  BY <1>3, <1>5, <1>6
<1>9. trouble' = (trouble \/ TRUE) => trouble' = TRUE
  OBVIOUS
<1>10. QED BY <1>1, <1>2, <1>3, <1>5, <1>7, <1>8, <1>9

LEMMA LaterUrbFailsEffect ==
  ASSUME SendingSizes, SendingIInv, TxLaterUrbFails
  PROVE  /\ transfer' \in [Contexts -> Transfers] /\ sent' \in [Contexts -> Nat]
         /\ pending' \in Seq(UrbOut) /\ ended' \in Seq(UrbEnd)
         /\ at \in Contexts /\ pcTx = "urbs"
         /\ nextUrb \in 1 .. NumUrbs - 1 /\ nextUrb' = NumUrbs
         /\ transfer'[at].flags = transfer[at].flags
         /\ transfer'[at].transferred = transfer[at].transferred
         /\ transfer'[at].num_retired = transfer[at].num_retired + (NumUrbs - nextUrb)
         /\ transfer'[at].reap_action \in {"completedEarly", "submitFailed"}
         /\ transfer'[at].reap_status = transfer[at].reap_status
         /\ Only(at)
         /\ \E last \in Int, n \in {0, 1} :
              LET d == DiscardUrbs(at, 0, last, n)
              IN /\ pending' = d.rest /\ ended' = ended \o d.urbs
                 /\ sent'[at] = sent[at] + d.sent
         /\ trouble => trouble'
         /\ UNCHANGED <<pcTx, at, txElse, evElse, flying, plugged, continuation, used, done,
                        bytesXfered, owed, gaveUp>>
<1>1. PICK early \in BOOLEAN, n \in {0, 1} :
        /\ IF plugged /\ ~early THEN Fault(TRUE) ELSE NoFault
        /\ LET d == DiscardUrbs(at, 0, IF early THEN -1 ELSE nextUrb - 1, n)
           IN /\ pending' = d.rest
              /\ ended' = ended \o d.urbs
              /\ sent' = [sent EXCEPT ![at] = @ + d.sent]
        /\ transfer' = [transfer EXCEPT
             ![at].reap_action = IF early THEN "completedEarly" ELSE "submitFailed",
             ![at].num_retired = @ + NotSubmitted]
  BY DEF TxLaterUrbFails
<1>2. /\ pcTx = "urbs" /\ nextUrb \in 1 .. NumUrbs - 1 /\ nextUrb' = NumUrbs
      /\ UNCHANGED <<pcTx, at, txElse, evElse, flying, plugged, continuation, used, done,
                     bytesXfered, owed, gaveUp>>
  BY DEF TxLaterUrbFails, txVars, ctxVars, evVars, txElse, evElse
<1>3. /\ at \in Contexts /\ transfer \in [Contexts -> Transfers] /\ sent \in [Contexts -> Nat]
      /\ pending \in Seq(UrbOut) /\ ended \in Seq(UrbEnd) /\ plugged \in BOOLEAN
      /\ NumUrbs \in Nat /\ nextUrb \in Int
  BY <1>2 DEF SendingIInv, LoansIInv, Loans, EvType, SendingSizes
<1>4. PICK last \in Int : last = IF early THEN -1 ELSE nextUrb - 1
  BY <1>3
<1>5. PICK d : d = DiscardUrbs(at, 0, last, n)
  OBVIOUS
<1>6. DiscardsUrbs(ended, at, 0, last, n, at)
  <2>1. 0 \in Int /\ last \in Int /\ n \in {0, 1}
    BY <1>1, <1>4
  <2>2. QED BY <1>3, <2>1, DiscardUrbsLine
<1>7. d.rest \in Seq(UrbOut) /\ ended \o d.urbs \in Seq(UrbEnd) /\ d.sent \in {0, 1}
  BY <1>5, <1>6 DEF DiscardsUrbs
<1>8. /\ pending' = d.rest /\ ended' = ended \o d.urbs
      /\ sent' = [sent EXCEPT ![at] = @ + d.sent]
  BY <1>1, <1>4, <1>5
<1>9. /\ sent' \in [Contexts -> Nat] /\ sent'[at] = sent[at] + d.sent
      /\ pending' \in Seq(UrbOut) /\ ended' \in Seq(UrbEnd)
  BY <1>3, <1>7, <1>8
<1>10. PICK ra \in {"completedEarly", "submitFailed"} :
         ra = IF early THEN "completedEarly" ELSE "submitFailed"
  OBVIOUS
<1>11. PICK X : X = [transfer[at] EXCEPT !.reap_action = ra,
                                        !.num_retired = @ + (NumUrbs - nextUrb)]
  OBVIOUS
<1>12. /\ X \in Transfers /\ X.flags = transfer[at].flags
       /\ X.transferred = transfer[at].transferred
       /\ X.num_retired = transfer[at].num_retired + (NumUrbs - nextUrb)
       /\ X.reap_action = ra /\ X.reap_status = transfer[at].reap_status
  <2>1. PICK t \in Transfers : t = transfer[at]
    BY <1>3
  <2>2. X = [t EXCEPT !.reap_action = ra, !.num_retired = @ + (NumUrbs - nextUrb)]
    BY <1>11, <2>1
  <2>3. t.num_retired \in Nat /\ t.num_retired + (NumUrbs - nextUrb) \in Nat
    BY <1>2, <1>3, <2>1 DEF Transfers
  <2>4. QED BY <1>10, <2>1, <2>2, <2>3 DEF Transfers
<1>13. transfer' = [transfer EXCEPT ![at] = X]
  BY <1>1, <1>3, <1>10, <1>11 DEF NotSubmitted
<1>14. transfer'[at] = X /\ Only(at)
  BY <1>3, <1>8, <1>13 DEF Only
<1>15. transfer' \in [Contexts -> Transfers]
  BY <1>3, <1>12, <1>13
<1>16. trouble => trouble'
  BY <1>1 DEF Fault, NoFault
<1>17. QED BY <1>2, <1>3, <1>4, <1>5, <1>8, <1>9, <1>10, <1>12, <1>14, <1>15, <1>16

LEMMA SubmittedEffect ==
  ASSUME SendingSizes, SendingIInv, TxSubmitted
  PROVE  /\ transfer' \in [Contexts -> Transfers] /\ owed' \in [Contexts -> Int]
         /\ at \in Contexts /\ bi \in Buffers /\ pcTx = "urbs" /\ pcTx' = "loop"
         /\ nextUrb = NumUrbs /\ nextUrb' = 0
         /\ transfer'[at].transferred = transfer[at].transferred
         /\ transfer'[at].num_retired = transfer[at].num_retired
         /\ transfer'[at].reap_action = transfer[at].reap_action
         /\ transfer'[at].reap_status = transfer[at].reap_status
         /\ Only(at)
         /\ bufferUsed' = [bufferUsed EXCEPT ![bi] = TRUE]
         /\ IF "disappeared" \in transfer[at].flags
            THEN /\ transfer'[at].flags = transfer[at].flags \ {"submitting"}
                 /\ flying' = flying \ {at}
                 /\ used' = [used EXCEPT ![at] = FALSE]
                 /\ handles' = [handles EXCEPT ![bi] = NoHandle]
                 /\ owed' = owed
            ELSE /\ transfer'[at].flags = (transfer[at].flags \ {"submitting"}) \cup {"inFlight"}
                 /\ owed' = [owed EXCEPT ![at] = @ + 1]
                 /\ handles' = [handles EXCEPT ![bi] = at]
                 /\ flying' = flying /\ used' = used
         /\ UNCHANGED <<evElse, lineElse, sent, done, bytesXfered, gaveUp, trouble>>
<1>1. /\ pcTx = "urbs" /\ nextUrb = NumUrbs
      /\ pcTx' = "loop" /\ nextUrb' = 0
      /\ bufferUsed' = [bufferUsed EXCEPT ![bi] = TRUE]
      /\ UNCHANGED <<evElse, lineElse, sent, done, bytesXfered, gaveUp, trouble>>
  BY DEF TxSubmitted, Refused, Begun, evVars, kernelVars, evElse, lineElse
<1>2. /\ at \in Contexts /\ transfer \in [Contexts -> Transfers] /\ bi \in Buffers
      /\ owed \in [Contexts -> Int]
  BY <1>1 DEF SendingIInv, LoansIInv, Loans, TxType, EvType
<1>3. PICK t \in Transfers : t = transfer[at]
  BY <1>2
<1>4. CASE "disappeared" \in transfer[at].flags
  <2>1. /\ transfer' = [transfer EXCEPT ![at].urbs = FALSE, ![at].flags = @ \ {"submitting"}]
        /\ flying' = flying \ {at}
        /\ used' = [used EXCEPT ![at] = FALSE]
        /\ handles' = [handles EXCEPT ![bi] = NoHandle]
        /\ owed' = owed
    BY <1>4 DEF TxSubmitted, Refused, Release, Begun
  <2>2. PICK X : X = [t EXCEPT !.urbs = FALSE, !.flags = @ \ {"submitting"}]
    OBVIOUS
  <2>3. /\ X \in Transfers /\ X.flags = t.flags \ {"submitting"}
        /\ X.transferred = t.transferred /\ X.num_retired = t.num_retired
        /\ X.reap_action = t.reap_action /\ X.reap_status = t.reap_status
    BY <1>3, <2>2 DEF Transfers
  <2>4. transfer' = [transfer EXCEPT ![at] = X]
    BY <1>2, <1>3, <2>1, <2>2
  <2>5. transfer'[at] = X /\ Only(at) /\ transfer' \in [Contexts -> Transfers]
    BY <1>1, <1>2, <2>3, <2>4 DEF Only
  <2>6. QED BY <1>1, <1>2, <1>3, <1>4, <2>1, <2>3, <2>5
<1>5. CASE "disappeared" \notin transfer[at].flags
  <2>1. /\ transfer' = [transfer EXCEPT ![at].flags = (@ \ {"submitting"}) \cup {"inFlight"}]
        /\ owed' = [owed EXCEPT ![at] = @ + 1]
        /\ handles' = [handles EXCEPT ![bi] = at]
        /\ flying' = flying /\ used' = used
    BY <1>5 DEF TxSubmitted, Begun
  <2>2. PICK X : X = [t EXCEPT !.flags = (@ \ {"submitting"}) \cup {"inFlight"}]
    OBVIOUS
  <2>3. /\ X \in Transfers /\ X.flags = (t.flags \ {"submitting"}) \cup {"inFlight"}
        /\ X.transferred = t.transferred /\ X.num_retired = t.num_retired
        /\ X.reap_action = t.reap_action /\ X.reap_status = t.reap_status
    BY <1>3, <2>2 DEF Transfers
  <2>4. transfer' = [transfer EXCEPT ![at] = X]
    BY <1>2, <1>3, <2>1, <2>2
  <2>5. transfer'[at] = X /\ Only(at) /\ transfer' \in [Contexts -> Transfers]
    BY <1>1, <1>2, <2>3, <2>4 DEF Only
  <2>6. owed' \in [Contexts -> Int]
    BY <1>2, <2>1
  <2>7. QED BY <1>1, <1>2, <1>3, <1>5, <2>1, <2>3, <2>5, <2>6
<1>6. QED BY <1>4, <1>5

LEMMA CancelEffect ==
  ASSUME SendingSizes, SendingIInv, TxCancel, TakesCancel(at)
  PROVE  /\ transfer' \in [Contexts -> Transfers] /\ sent' \in [Contexts -> Nat]
         /\ pending' \in Seq(UrbOut) /\ ended' \in Seq(UrbEnd)
         /\ at \in Contexts /\ pcTx = "cancel" /\ pcTx' = "cancel"
         /\ transfer'[at].flags \ {"disappeared"} = (transfer[at].flags \cup {"cancelling"})
                                                      \ {"disappeared"}
         /\ "disappeared" \in transfer'[at].flags
              => "disappeared" \in transfer[at].flags \/ ~plugged
         /\ transfer'[at].transferred = transfer[at].transferred
         /\ transfer'[at].num_retired = transfer[at].num_retired
         /\ transfer'[at].reap_status = transfer[at].reap_status
         /\ \/ transfer'[at].reap_action = transfer[at].reap_action
            \/ /\ transfer'[at].reap_action = "cancelled"
               /\ plugged /\ IsPending(at, NumUrbs - 1)
         /\ Only(at)
         /\ \/ pending' = pending /\ ended' = ended /\ sent'[at] = sent[at]
            \/ \E n \in {0, 1} :
                 LET d == DiscardUrbs(at, 0, NumUrbs - 1, n)
                 IN /\ pending' = d.rest /\ ended' = ended \o d.urbs
                    /\ sent'[at] = sent[at] + d.sent
                    /\ \/ transfer'[at].reap_action # "normal"
                       \/ ~plugged
                       \/ ~IsPending(at, NumUrbs - 1)
         /\ UNCHANGED <<txElse, evElse, flying, plugged, continuation, nextUrb, used, done,
                        bytesXfered, owed, gaveUp, trouble>>
<1>1. PICK n \in {0, 1} : CancelUrbs(at, n)
  BY DEF TxCancel
<1>2. /\ pcTx = "cancel" /\ pcTx' = "cancel" /\ at < NumContexts
      /\ UNCHANGED <<txElse, evElse, flying, plugged, continuation, nextUrb, used, done,
                     bytesXfered, owed, gaveUp, trouble>>
  BY DEF TxCancel, txVars, ctxVars, evVars, txElse, evElse
<1>3. /\ at \in Contexts /\ transfer \in [Contexts -> Transfers] /\ sent \in [Contexts -> Nat]
      /\ pending \in Seq(UrbOut) /\ ended \in Seq(UrbEnd) /\ plugged \in BOOLEAN
      /\ NumUrbs \in Nat
  BY <1>2 DEF SendingIInv, LoansIInv, TxType, EvType, SendingSizes, Contexts
<1>4. PICK t \in Transfers : t = transfer[at]
  BY <1>3
<1>5. PICK d : d = DiscardUrbs(at, 0, NumUrbs - 1, n)
  OBVIOUS
<1>6. DiscardsUrbs(ended, at, 0, NumUrbs - 1, n, at)
  <2>1. 0 \in Int /\ NumUrbs - 1 \in Int /\ n \in {0, 1}
    BY <1>1, <1>3
  <2>2. QED BY <1>3, <2>1, DiscardUrbsLine
<1>7. d.rest \in Seq(UrbOut) /\ ended \o d.urbs \in Seq(UrbEnd) /\ d.sent \in {0, 1}
  BY <1>5, <1>6 DEF DiscardsUrbs
<1>8. PICK result : result = IF ~t.urbs THEN "notFound"
                             ELSE IF ~plugged THEN "noDevice"
                             ELSE IF IsPending(at, NumUrbs - 1) THEN "success" ELSE "notFound"
  OBVIOUS
<1>9. PICK X : X = [t EXCEPT !.flags = @ \cup {"cancelling"}
                               \cup (IF result = "noDevice" THEN {"disappeared"} ELSE {}),
                             !.reap_action = IF result = "success" /\ @ # "error"
                                             THEN "cancelled" ELSE @]
  OBVIOUS
<1>10. /\ transfer' = [transfer EXCEPT ![at] = X]
       /\ IF t.urbs
          THEN /\ pending' = d.rest /\ ended' = ended \o d.urbs
               /\ sent' = [sent EXCEPT ![at] = @ + d.sent]
          ELSE UNCHANGED <<pending, ended, sent>>
  BY <1>1, <1>4, <1>5, <1>8, <1>9 DEF CancelUrbs
<1>11. /\ X \in Transfers
       /\ X.flags = t.flags \cup {"cancelling"}
                      \cup (IF result = "noDevice" THEN {"disappeared"} ELSE {})
       /\ X.transferred = t.transferred /\ X.num_retired = t.num_retired
       /\ X.reap_status = t.reap_status
       /\ X.reap_action = IF result = "success" /\ t.reap_action # "error"
                          THEN "cancelled" ELSE t.reap_action
  <2>1. t \in Transfers
    BY <1>4
  <2>2. QED BY <1>9, <2>1 DEF Transfers
<1>12. transfer'[at] = X /\ Only(at) /\ transfer' \in [Contexts -> Transfers]
  BY <1>3, <1>10, <1>11 DEF Only
<1>13. /\ sent' \in [Contexts -> Nat] /\ pending' \in Seq(UrbOut) /\ ended' \in Seq(UrbEnd)
       /\ sent'[at] = IF t.urbs THEN sent[at] + d.sent ELSE sent[at]
  <2>1. CASE t.urbs
    <3>1. pending' = d.rest /\ ended' = ended \o d.urbs /\ sent' = [sent EXCEPT ![at] = @ + d.sent]
      BY <1>10, <2>1
    <3>2. sent[at] \in Nat /\ sent[at] + d.sent \in Nat
      BY <1>3, <1>7
    <3>3. sent' \in [Contexts -> Nat] /\ sent'[at] = sent[at] + d.sent
      BY <1>3, <3>1, <3>2
    <3>4. QED BY <1>7, <2>1, <3>1, <3>3
  <2>2. CASE ~t.urbs
    BY <1>3, <1>10, <2>2
  <2>3. QED BY <2>1, <2>2
<1>14. t.urbs => \/ transfer'[at].reap_action # "normal" \/ ~plugged
                 \/ ~IsPending(at, NumUrbs - 1)
  BY <1>4, <1>8, <1>11, <1>12
<1>15. /\ transfer'[at].flags \ {"disappeared"} = (t.flags \cup {"cancelling"}) \ {"disappeared"}
       /\ "disappeared" \in transfer'[at].flags => "disappeared" \in t.flags \/ ~plugged
  BY <1>4, <1>8, <1>11, <1>12
<1>16. \/ transfer'[at].reap_action = t.reap_action
       \/ /\ transfer'[at].reap_action = "cancelled"
          /\ plugged /\ IsPending(at, NumUrbs - 1)
  BY <1>4, <1>8, <1>11, <1>12
<1>17. \/ pending' = pending /\ ended' = ended /\ sent'[at] = sent[at]
       \/ \E m \in {0, 1} :
            LET b == DiscardUrbs(at, 0, NumUrbs - 1, m)
            IN /\ pending' = b.rest /\ ended' = ended \o b.urbs
               /\ sent'[at] = sent[at] + b.sent
               /\ \/ transfer'[at].reap_action # "normal"
                  \/ ~plugged
                  \/ ~IsPending(at, NumUrbs - 1)
  <2>1. CASE t.urbs
    <3>1. /\ pending' = d.rest /\ ended' = ended \o d.urbs /\ sent'[at] = sent[at] + d.sent
          /\ n \in {0, 1}
      BY <1>1, <1>10, <1>13, <2>1
    <3>2. QED BY <1>5, <1>14, <2>1, <3>1
  <2>2. CASE ~t.urbs
    BY <1>10, <1>13, <2>2
  <2>3. QED BY <2>1, <2>2
<1>18. QED
  BY <1>2, <1>3, <1>4, <1>11, <1>12, <1>13, <1>15, <1>16, <1>17

LEMMA ReapEffect ==
  ASSUME SendingSizes, SendingIInv, EvReap, NEW r, r = Head(ended)
  PROVE  /\ pcEv = "poll" /\ Alive /\ ended # <<>> /\ r \in UrbEnd /\ r.ctx \in Contexts
         /\ Tail(ended) \in Seq(UrbEnd) /\ ~Submitting(r.ctx)
         /\ transfer[r.ctx] \in Transfers
         /\ IF transfer[r.ctx].reap_action = "normal" THEN ReapNormal(r, transfer[r.ctx])
            ELSE ReapAbnormal(r, transfer[r.ctx])
         /\ UNCHANGED <<pcTx, at, txElse, nextUrb, flying, polled, plugged, continuation,
                        used, done, bytesXfered, owed, gaveUp, trouble>>
<1>1. /\ pcEv = "poll" /\ polled \in {"yes", "lastRound"} /\ ended # <<>>
      /\ LockFree(r.ctx)
      /\ IF transfer[r.ctx].reap_action = "normal" THEN ReapNormal(r, transfer[r.ctx])
         ELSE ReapAbnormal(r, transfer[r.ctx])
      /\ UNCHANGED <<pcTx, at, txElse, nextUrb, flying, polled, plugged, continuation,
                     used, done, bytesXfered, owed, gaveUp, trouble>>
  BY DEF EvReap, txVars, ctxVars, txElse
<1>2. ended \in Seq(UrbEnd) /\ transfer \in [Contexts -> Transfers]
  BY DEF SendingIInv, EvType
<1>3. r \in UrbEnd /\ Tail(ended) \in Seq(UrbEnd)
  BY <1>1, <1>2
<1>4. r.ctx \in Contexts
  BY <1>3 DEF UrbEnd
<1>5. QED BY <1>1, <1>2, <1>3, <1>4 DEF LockFree, Submitting, Alive

LEMMA AbnormalEffect ==
  ASSUME SendingSizes, SendingIInv, EvReap, NEW r, r = Head(ended),
         transfer[r.ctx].reap_action # "normal"
  PROVE  /\ transfer' \in [Contexts -> Transfers]
         /\ transfer'[r.ctx].flags = transfer[r.ctx].flags
         /\ transfer'[r.ctx].num_retired = transfer[r.ctx].num_retired + 1
         /\ transfer'[r.ctx].transferred = transfer[r.ctx].transferred + r.n
         /\ transfer'[r.ctx].reap_action = transfer[r.ctx].reap_action
         /\ transfer'[r.ctx].reap_status \in {"stall", "noDevice"}
              <=> transfer[r.ctx].reap_status \in {"stall", "noDevice"}
         /\ transfer'[r.ctx].reap_status \in {transfer[r.ctx].reap_status, "error"}
         /\ Only(r.ctx)
         /\ ended' = Tail(ended) /\ pending' = pending /\ sent' = sent
         /\ IF transfer[r.ctx].num_retired + 1 = NumUrbs
            THEN /\ pcEv' = "complete" /\ evAt' = r.ctx
                 /\ evStatus' = IF transfer[r.ctx].reap_action = "cancelled" THEN "cancelled"
                                ELSE transfer'[r.ctx].reap_status
            ELSE pcEv' = pcEv /\ evAt' = evAt /\ evStatus' = evStatus
<1>1. /\ r \in UrbEnd /\ r.ctx \in Contexts /\ ReapAbnormal(r, transfer[r.ctx])
      /\ transfer \in [Contexts -> Transfers]
  BY ReapEffect DEF SendingIInv, EvType
<1>2. PICK t \in Transfers : t = transfer[r.ctx]
  BY <1>1
<1>3. PICK complete \in BOOLEAN : complete = (t.num_retired + 1 = NumUrbs)
  OBVIOUS
<1>4. PICK status \in {t.reap_status, "error"} :
        status = IF complete /\ t.reap_action # "completedEarly" /\ t.reap_status = "completed"
                 THEN "error" ELSE t.reap_status
  OBVIOUS
<1>5. PICK X : X = [t EXCEPT !.num_retired = @ + 1, !.transferred = @ + Surplus(r),
                             !.reap_status = status, !.urbs = ~complete]
  OBVIOUS
<1>6. /\ transfer' = [transfer EXCEPT ![r.ctx] = X]
      /\ IF complete
         THEN Report(r.ctx, IF t.reap_action = "cancelled" THEN "cancelled" ELSE status)
         ELSE UNCHANGED <<pcEv, evAt, evStatus>>
      /\ ended' = Tail(ended)
      /\ UNCHANGED <<pending, sent>>
  BY <1>1, <1>2, <1>3, <1>4, <1>5 DEF ReapAbnormal, AllRetired
<1>7. /\ X \in Transfers /\ X.flags = t.flags /\ X.num_retired = t.num_retired + 1
      /\ X.transferred = t.transferred + r.n /\ X.reap_action = t.reap_action
      /\ X.reap_status = status
  <2>1. t \in Transfers /\ r.n \in {0, 1}
    BY <1>1, <1>2 DEF UrbEnd
  <2>2. status \in {"completed", "error", "stall", "noDevice"}
    BY <1>4, <2>1 DEF Transfers
  <2>3. t.num_retired + 1 \in Nat /\ t.transferred + r.n \in Nat
    BY <2>1 DEF Transfers
  <2>4. X = [t EXCEPT !.num_retired = t.num_retired + 1, !.transferred = t.transferred + r.n,
                      !.reap_status = status, !.urbs = ~complete]
    BY <1>5 DEF Surplus
  <2>5. QED BY <2>1, <2>2, <2>3, <2>4 DEF Transfers
<1>8. transfer'[r.ctx] = X /\ Only(r.ctx) /\ transfer' \in [Contexts -> Transfers]
  BY <1>1, <1>6, <1>7 DEF Only
<1>9. transfer'[r.ctx].reap_status \in {"stall", "noDevice"}
        <=> transfer[r.ctx].reap_status \in {"stall", "noDevice"}
  <2>1. X.reap_status = t.reap_status \/ (X.reap_status = "error" /\ t.reap_status = "completed")
    BY <1>4, <1>7
  <2>2. X.reap_status \in {"stall", "noDevice"} <=> t.reap_status \in {"stall", "noDevice"}
    BY <2>1
  <2>3. QED BY <1>2, <1>8, <2>2
<1>10. QED
  BY <1>2, <1>3, <1>4, <1>6, <1>7, <1>8, <1>9 DEF Report

LEMMA NormalEffect ==
  ASSUME SendingSizes, SendingIInv, EvReap, NEW r, r = Head(ended),
         transfer[r.ctx].reap_action = "normal",
         NEW complete,
         complete = IF TearsDown(r) THEN transfer[r.ctx].num_retired + 1 = NumUrbs
                    ELSE LastUrb(r)
  PROVE  /\ transfer' \in [Contexts -> Transfers] /\ sent' \in [Contexts -> Nat]
         /\ pending' \in Seq(UrbOut) /\ ended' \in Seq(UrbEnd)
         /\ transfer'[r.ctx].flags = transfer[r.ctx].flags
         /\ transfer'[r.ctx].num_retired = transfer[r.ctx].num_retired + 1
         /\ transfer'[r.ctx].transferred = transfer[r.ctx].transferred + r.n
         /\ transfer'[r.ctx].reap_action = ReapAction(r)
         /\ transfer'[r.ctx].reap_status = ReapStatus(r, transfer[r.ctx].reap_status)
         /\ Only(r.ctx)
         /\ \E last \in {NumUrbs - 1, -1}, n \in {0, 1} :
              LET d == DiscardUrbs(r.ctx, r.idx + 1, last, n)
              IN /\ last = IF TearsDown(r) /\ ~complete THEN NumUrbs - 1 ELSE -1
                 /\ pending' = d.rest /\ ended' = Tail(ended) \o d.urbs
                 /\ sent'[r.ctx] = sent[r.ctx] + d.sent
         /\ IF complete
            THEN /\ pcEv' = "complete" /\ evAt' = r.ctx
                 /\ evStatus' = transfer'[r.ctx].reap_status
            ELSE pcEv' = pcEv /\ evAt' = evAt /\ evStatus' = evStatus
<1>1. /\ r \in UrbEnd /\ r.ctx \in Contexts /\ ReapNormal(r, transfer[r.ctx])
      /\ Tail(ended) \in Seq(UrbEnd)
  BY ReapEffect
<1>2. /\ transfer \in [Contexts -> Transfers] /\ sent \in [Contexts -> Nat]
      /\ pending \in Seq(UrbOut) /\ plugged \in BOOLEAN /\ NumUrbs \in Nat
  BY DEF SendingIInv, EvType, SendingSizes
<1>3. PICK t \in Transfers : t = transfer[r.ctx]
  BY <1>1, <1>2
<1>4. PICK X : X = [t EXCEPT !.num_retired = @ + 1, !.transferred = @ + r.n,
                             !.reap_action = ReapAction(r),
                             !.reap_status = ReapStatus(r, @), !.urbs = ~complete]
  OBVIOUS
<1>5. /\ transfer' = [transfer EXCEPT ![r.ctx] = X]
      /\ IF complete THEN Report(r.ctx, ReapStatus(r, t.reap_status))
         ELSE UNCHANGED <<pcEv, evAt, evStatus>>
      /\ \E n \in {0, 1} :
           LET d == DiscardUrbs(r.ctx, r.idx + 1,
                                IF TearsDown(r) /\ ~complete THEN NumUrbs - 1 ELSE -1, n)
           IN /\ pending' = d.rest
              /\ ended' = Tail(ended) \o d.urbs
              /\ sent' = [sent EXCEPT ![r.ctx] = @ + d.sent]
  BY <1>1, <1>3, <1>4 DEF ReapNormal, AllRetired
<1>6. PICK last \in {NumUrbs - 1, -1} :
        last = IF TearsDown(r) /\ ~complete THEN NumUrbs - 1 ELSE -1
  OBVIOUS
<1>7. PICK n \in {0, 1} :
        LET d == DiscardUrbs(r.ctx, r.idx + 1, last, n)
        IN /\ pending' = d.rest
           /\ ended' = Tail(ended) \o d.urbs
           /\ sent' = [sent EXCEPT ![r.ctx] = @ + d.sent]
  BY <1>5, <1>6
<1>8. PICK d : d = DiscardUrbs(r.ctx, r.idx + 1, last, n)
  OBVIOUS
<1>9. /\ pending' = d.rest /\ ended' = Tail(ended) \o d.urbs
      /\ sent' = [sent EXCEPT ![r.ctx] = @ + d.sent]
  BY <1>7, <1>8
<1>10. d.rest \in Seq(UrbOut) /\ Tail(ended) \o d.urbs \in Seq(UrbEnd) /\ d.sent \in {0, 1}
  <2>1. r.idx + 1 \in Int /\ last \in Int /\ n \in {0, 1}
    <3>1. r.idx \in Urbs
      BY <1>1 DEF UrbEnd
    <3>2. r.idx + 1 \in Int
      BY <1>2, <3>1 DEF Urbs
    <3>3. last \in Int
      BY <1>2, <1>6
    <3>4. QED BY <1>7, <3>2, <3>3
  <2>2. DiscardsUrbs(Tail(ended), r.ctx, r.idx + 1, last, n, r.ctx)
    BY <1>1, <1>2, <2>1, DiscardUrbsLine
  <2>3. QED BY <1>8, <2>2 DEF DiscardsUrbs
<1>11. /\ sent' \in [Contexts -> Nat] /\ sent'[r.ctx] = sent[r.ctx] + d.sent
       /\ pending' \in Seq(UrbOut) /\ ended' \in Seq(UrbEnd)
  BY <1>1, <1>2, <1>9, <1>10
<1>12. /\ X \in Transfers /\ X.flags = t.flags /\ X.num_retired = t.num_retired + 1
       /\ X.transferred = t.transferred + r.n /\ X.reap_action = ReapAction(r)
       /\ X.reap_status = ReapStatus(r, t.reap_status)
  <2>1. t \in Transfers /\ r.n \in {0, 1}
    BY <1>1, <1>3 DEF UrbEnd
  <2>2. ReapAction(r) \in {"normal", "completedEarly", "error"}
    BY DEF ReapAction
  <2>3. ReapStatus(r, t.reap_status) \in {"completed", "error", "stall", "noDevice"}
    BY <2>1 DEF ReapStatus, Transfers
  <2>4. t.num_retired + 1 \in Nat /\ t.transferred + r.n \in Nat
    BY <2>1 DEF Transfers
  <2>5. PICK ra, rs, tn, nr : /\ ra = ReapAction(r) /\ rs = ReapStatus(r, t.reap_status)
                              /\ tn = t.transferred + r.n /\ nr = t.num_retired + 1
    OBVIOUS
  <2>6. X = [t EXCEPT !.num_retired = nr, !.transferred = tn, !.reap_action = ra,
                      !.reap_status = rs, !.urbs = ~complete]
    BY <1>4, <2>5
  <2>7. QED BY <2>1, <2>2, <2>3, <2>4, <2>5, <2>6, ZenonT(60) DEF Transfers
<1>13. transfer'[r.ctx] = X /\ Only(r.ctx) /\ transfer' \in [Contexts -> Transfers]
  BY <1>1, <1>2, <1>5, <1>9, <1>12 DEF Only
<1>14. \E l \in {NumUrbs - 1, -1}, m \in {0, 1} :
         LET b == DiscardUrbs(r.ctx, r.idx + 1, l, m)
         IN /\ l = IF TearsDown(r) /\ ~complete THEN NumUrbs - 1 ELSE -1
            /\ pending' = b.rest /\ ended' = Tail(ended) \o b.urbs
            /\ sent'[r.ctx] = sent[r.ctx] + b.sent
  BY <1>6, <1>7, <1>8, <1>9, <1>11
<1>15. QED
  BY <1>3, <1>5, <1>11, <1>12, <1>13, <1>14 DEF Report

LEMMA DisconnectEffect ==
  ASSUME SendingSizes, SendingIInv, EvDisconnect
  PROVE  /\ pcEv = "poll" /\ polled = "disconnect" /\ transfer' \in [Contexts -> Transfers]
         /\ \A c \in Contexts :
              /\ transfer'[c].flags \ {"disappeared"} = transfer[c].flags \ {"disappeared"}
              /\ transfer'[c].transferred = transfer[c].transferred
              /\ transfer'[c].reap_action = transfer[c].reap_action
              /\ transfer'[c].reap_status = transfer[c].reap_status
         /\ \/ /\ polled' = polled /\ pcEv' = "complete" /\ evStatus' = "noDevice"
               /\ evAt' \in Contexts /\ InFlight(evAt')
            \/ polled' = "no" /\ UNCHANGED <<pcEv, evAt, evStatus>>
         /\ UNCHANGED <<pcTx, at, txElse, lineElse, nextUrb, flying, sent, used, done,
                        bytesXfered, owed, gaveUp, trouble>>
<1>1. /\ pcEv = "poll" /\ polled = "disconnect"
      /\ UNCHANGED <<pcTx, at, txElse, lineElse, nextUrb, flying, sent, used, done,
                     bytesXfered, owed, gaveUp, trouble>>
  BY DEF EvDisconnect, txVars, ctxVars, kernelVars, txElse, lineElse
<1>2. transfer \in [Contexts -> Transfers] /\ flying \subseteq Contexts
  BY DEF SendingIInv, EvType
<1>3. CASE FlyingInFlight # {}
  <2>1. PICK c \in FlyingInFlight : /\ Report(c, "noDevice")
                                    /\ transfer' = [transfer EXCEPT ![c].urbs = FALSE]
    BY <1>3 DEF EvDisconnect
  <2>2. c \in Contexts /\ InFlight(c) /\ polled' = polled
    BY <1>2, <1>3, <2>1 DEF FlyingInFlight, InFlight, EvDisconnect
  <2>3. PICK t \in Transfers : t = transfer[c]
    BY <1>2, <2>2
  <2>4. PICK X : X = [t EXCEPT !.urbs = FALSE]
    OBVIOUS
  <2>5. /\ X \in Transfers /\ X.flags = t.flags /\ X.transferred = t.transferred
        /\ X.reap_action = t.reap_action /\ X.reap_status = t.reap_status
    BY <2>3, <2>4 DEF Transfers
  <2>6. transfer' = [transfer EXCEPT ![c] = X]
    BY <1>2, <2>1, <2>3, <2>4
  <2>7. /\ transfer' \in [Contexts -> Transfers] /\ transfer'[c] = X
        /\ \A a \in Contexts : a # c => transfer'[a] = transfer[a]
    BY <1>2, <2>2, <2>5, <2>6
  <2>8. \A a \in Contexts :
          /\ transfer'[a].flags = transfer[a].flags
          /\ transfer'[a].transferred = transfer[a].transferred
          /\ transfer'[a].reap_action = transfer[a].reap_action
          /\ transfer'[a].reap_status = transfer[a].reap_status
    BY <2>3, <2>5, <2>7
  <2>9. QED BY <1>1, <2>1, <2>2, <2>7, <2>8 DEF Report
<1>4. CASE FlyingInFlight = {}
  <2>1. /\ transfer' = [c \in Contexts |->
              IF c \in flying
              THEN [transfer[c] EXCEPT !.flags = @ \cup {"disappeared"}] ELSE transfer[c]]
        /\ polled' = "no"
        /\ UNCHANGED <<pcEv, evAt, evStatus>>
    BY <1>4 DEF EvDisconnect
  <2>2. ASSUME NEW c \in Contexts
        PROVE  /\ transfer'[c] \in Transfers
               /\ transfer'[c].flags \ {"disappeared"} = transfer[c].flags \ {"disappeared"}
               /\ transfer'[c].transferred = transfer[c].transferred
               /\ transfer'[c].reap_action = transfer[c].reap_action
               /\ transfer'[c].reap_status = transfer[c].reap_status
    <3>1. PICK t \in Transfers : t = transfer[c]
      BY <1>2
    <3>2. PICK X : X = [t EXCEPT !.flags = @ \cup {"disappeared"}]
      OBVIOUS
    <3>3. /\ X \in Transfers /\ X.flags = t.flags \cup {"disappeared"}
          /\ X.transferred = t.transferred
          /\ X.reap_action = t.reap_action /\ X.reap_status = t.reap_status
      BY <3>1, <3>2 DEF Transfers
    <3>4. transfer'[c] = IF c \in flying THEN X ELSE t
      BY <2>1, <3>1, <3>2
    <3>5. QED BY <3>1, <3>3, <3>4
  <2>3. transfer' \in [Contexts -> Transfers]
    BY <2>1, <2>2
  <2>4. QED BY <1>1, <2>1, <2>2, <2>3
<1>5. QED BY <1>3, <1>4

LEMMA CompleteEffect ==
  ASSUME SendingSizes, SendingIInv, EvComplete
  PROVE  /\ transfer' \in [Contexts -> Transfers]
         /\ pcEv = "complete" /\ pcEv' = "callback" /\ evAt \in Contexts
         /\ transfer'[evAt].flags = (transfer[evAt].flags \ {"inFlight"}) \cup {"completed"}
         /\ transfer'[evAt].transferred = transfer[evAt].transferred
         /\ transfer'[evAt].num_retired = transfer[evAt].num_retired
         /\ transfer'[evAt].reap_action = transfer[evAt].reap_action
         /\ transfer'[evAt].reap_status = transfer[evAt].reap_status
         /\ Only(evAt)
         /\ flying' = flying \ {evAt}
         /\ UNCHANGED <<pcTx, at, txElse, lineElse, nextUrb, evAt, evStatus, polled, sent,
                        used, done, bytesXfered, owed, gaveUp, trouble>>
<1>1. /\ pcEv = "complete" /\ pcEv' = "callback"
      /\ flying' = flying \ {evAt}
      /\ transfer' = [transfer EXCEPT ![evAt].flags = (@ \ {"inFlight"}) \cup {"completed"}]
      /\ UNCHANGED <<pcTx, at, txElse, lineElse, nextUrb, evAt, evStatus, polled, sent,
                     used, done, bytesXfered, owed, gaveUp, trouble>>
  BY DEF EvComplete, txVars, ctxVars, kernelVars, txElse, lineElse
<1>2. transfer \in [Contexts -> Transfers] /\ evAt \in Contexts
  BY DEF SendingIInv, EvType
<1>3. PICK t \in Transfers : t = transfer[evAt]
  BY <1>2
<1>4. PICK X : X = [t EXCEPT !.flags = (@ \ {"inFlight"}) \cup {"completed"}]
  OBVIOUS
<1>5. /\ X \in Transfers /\ X.flags = (t.flags \ {"inFlight"}) \cup {"completed"}
      /\ X.transferred = t.transferred /\ X.num_retired = t.num_retired
      /\ X.reap_action = t.reap_action /\ X.reap_status = t.reap_status
  BY <1>3, <1>4 DEF Transfers
<1>6. transfer' = [transfer EXCEPT ![evAt] = X]
  BY <1>1, <1>2, <1>3, <1>4
<1>7. transfer'[evAt] = X /\ Only(evAt) /\ transfer' \in [Contexts -> Transfers]
  BY <1>1, <1>2, <1>5, <1>6 DEF Only
<1>8. QED BY <1>1, <1>2, <1>3, <1>5, <1>7

LEMMA CallbackEffect ==
  ASSUME SendingSizes, SendingIInv, EvCallback
  PROVE  /\ pcEv = "callback" /\ pcEv' = "poll" /\ evAt \in Contexts /\ evAt' \in Contexts
         /\ IF Finishes(evStatus)
            THEN /\ bytesXfered' = [bytesXfered EXCEPT ![evAt] = transfer[evAt].transferred]
                 /\ done' = [done EXCEPT ![evAt] = TRUE]
            ELSE bytesXfered' = bytesXfered /\ done' = done
         /\ bytesXfered' \in [Contexts -> Nat] /\ done' \in [Contexts -> BOOLEAN]
         /\ owed' = [owed EXCEPT ![evAt] = @ - 1] /\ owed' \in [Contexts -> Int]
         /\ UNCHANGED <<pcTx, at, txElse, lineElse, nextUrb, polled, transfer, flying, sent,
                        used, gaveUp, trouble>>
<1>1. /\ pcEv = "callback" /\ pcEv' = "poll" /\ evAt' = 0
      /\ IF Finishes(evStatus)
         THEN /\ bytesXfered' = [bytesXfered EXCEPT ![evAt] = transfer[evAt].transferred]
              /\ done' = [done EXCEPT ![evAt] = TRUE]
         ELSE bytesXfered' = bytesXfered /\ done' = done
      /\ owed' = [owed EXCEPT ![evAt] = @ - 1]
      /\ UNCHANGED <<pcTx, at, txElse, lineElse, nextUrb, polled, transfer, flying, sent,
                     used, gaveUp, trouble>>
  BY DEF EvCallback, txVars, kernelVars, txElse, lineElse
<1>2. /\ evAt \in Contexts /\ bytesXfered \in [Contexts -> Nat] /\ done \in [Contexts -> BOOLEAN]
      /\ owed \in [Contexts -> Int] /\ transfer \in [Contexts -> Transfers]
  BY DEF SendingIInv, EvType
<1>3. 0 \in Contexts
  BY DEF Contexts, SendingSizes
<1>4. transfer[evAt].transferred \in Nat
  BY <1>2 DEF Transfers
<1>5. bytesXfered' \in [Contexts -> Nat] /\ done' \in [Contexts -> BOOLEAN]
  BY <1>1, <1>2, <1>4
<1>6. owed' \in [Contexts -> Int]
  BY <1>1, <1>2
<1>7. QED BY <1>1, <1>2, <1>3, <1>5, <1>6

LEMMA SentEffect ==
  ASSUME SendingSizes, SendingIInv, UrbSent, NEW u, u = Head(pending), NEW x, x = Ended(u, "ok", 1)
  PROVE  /\ pending # <<>> /\ u \in UrbOut /\ x \in UrbEnd /\ x.status = "ok" /\ x.n = 1
         /\ x.ctx = u.ctx /\ x.idx = u.idx
         /\ ended' = Append(ended, x) /\ ended' \in Seq(UrbEnd)
         /\ pending' = Tail(pending) /\ pending' \in Seq(UrbOut)
         /\ sent'[u.ctx] = sent[u.ctx] + 1 /\ sent' \in [Contexts -> Nat] /\ Only(u.ctx)
         /\ transfer' = transfer
         /\ UNCHANGED <<pcTx, at, txElse, evElse, nextUrb, plugged, continuation, flying, used,
                        done, bytesXfered, owed, gaveUp, trouble>>
<1>1. /\ pending # <<>>
      /\ ended' = Append(ended, x) /\ pending' = Tail(pending)
      /\ sent' = [sent EXCEPT ![u.ctx] = @ + 1]
      /\ UNCHANGED <<pcTx, at, txElse, evElse, nextUrb, transfer, plugged, continuation,
                     flying, used, done, bytesXfered, owed, gaveUp, trouble>>
  BY DEF UrbSent, NoFault, kernelElse, txVars, ctxVars, evVars, txElse, evElse
<1>2. /\ pending \in Seq(UrbOut) /\ ended \in Seq(UrbEnd) /\ sent \in [Contexts -> Nat]
  BY DEF SendingIInv, EvType
<1>3. u \in UrbOut /\ Tail(pending) \in Seq(UrbOut)
  BY <1>1, <1>2
<1>4. /\ x \in UrbEnd /\ x.status = "ok" /\ x.n = 1 /\ x.ctx = u.ctx /\ x.idx = u.idx
      /\ u.ctx \in Contexts
  BY <1>3 DEF Ended, UrbOut, UrbEnd
<1>5. ended' \in Seq(UrbEnd)
  BY <1>1, <1>2, <1>4
<1>6. sent'[u.ctx] = sent[u.ctx] + 1 /\ sent' \in [Contexts -> Nat] /\ Only(u.ctx)
  BY <1>1, <1>2, <1>4 DEF Only
<1>7. QED BY <1>1, <1>3, <1>4, <1>5, <1>6

LEMMA EndEffect ==
  ASSUME SendingSizes, SendingIInv, UrbFails \/ UrbLost
  PROVE  /\ pending # <<>> /\ Head(pending) \in UrbOut
         /\ pending' \in Seq(UrbOut) /\ ended' \in Seq(UrbEnd)
         /\ \A k \in DOMAIN pending' : \E l \in DOMAIN pending : pending'[k] = pending[l]
         /\ continuation => \A k \in DOMAIN pending' : pending'[k].ctx # Head(pending).ctx
         /\ \A c : /\ LeftOf(Line(pending', ended'), c) = LeftOf(Line(pending, ended), c)
                   /\ OnceIn(Line(pending, ended), c) => OnceIn(Line(pending', ended'), c)
                   /\ InOrder(Line(pending, ended), c) => InOrder(Line(pending', ended'), c)
                   /\ WellOf(ended', c) = WellOf(ended, c)
         /\ \A k \in DOMAIN ended' : \/ k \in DOMAIN ended /\ ended'[k] = ended[k]
                                     \/ /\ ended'[k].ctx = Head(pending).ctx
                                        /\ ended'[k].status \in {"stall", "noDevice"} => trouble'
         /\ trouble => trouble'
         /\ sent' = sent /\ transfer' = transfer
         /\ UNCHANGED <<pcTx, at, txElse, evElse, nextUrb, plugged, continuation, flying, used,
                        done, bytesXfered, owed, gaveUp>>
<1>1. PICK status \in {"error", "stall", "noDevice", "cancelled"} :
        /\ UrbEnds(status)
        /\ status \in {"stall", "noDevice"} => trouble'
        /\ trouble => trouble'
  <2>1. CASE UrbFails
    BY <2>1 DEF UrbFails, Fault
  <2>2. CASE UrbLost
    <3>1. PICK status \in {"error", "noDevice", "cancelled"} : UrbEnds(status)
      BY <2>2 DEF UrbLost
    <3>2. ~plugged /\ trouble' = trouble
      BY <2>2 DEF UrbLost, NoFault
    <3>3. trouble
      BY <3>2 DEF SendingIInv, Troubles
    <3>4. QED BY <3>1, <3>2, <3>3
  <2>3. QED BY <2>1, <2>2
<1>2. pending # <<>>
  BY DEF UrbFails, UrbLost
<1>3. /\ pending \in Seq(UrbOut) /\ ended \in Seq(UrbEnd) /\ continuation \in BOOLEAN
  BY DEF SendingIInv, EvType
<1>4. Head(pending) \in UrbOut
  BY <1>2, <1>3
<1>5. PICK x : x = Ended(Head(pending), status, 0)
  OBVIOUS
<1>6. /\ x \in UrbEnd /\ x.status = status /\ x.n = 0
      /\ x.ctx = Head(pending).ctx /\ x.idx = Head(pending).idx
  <2>1. status \in {"ok", "error", "stall", "noDevice", "cancelled"}
    BY <1>1
  <2>2. QED BY <1>4, <1>5, <2>1 DEF Ended, UrbOut, UrbEnd
<1>7. PICK K : K = {k \in 2 .. Len(pending) : continuation /\ pending[k].ctx = Head(pending).ctx}
  OBVIOUS
<1>8. PICK f, q : /\ f = Append(ended, x) \o [i \in 1 .. Cardinality(K) |->
                                               Ended(pending[Nth(K, i)], "cancelled", 0)]
                  /\ q = Those(pending, (2 .. Len(pending)) \ K)
  OBVIOUS
<1>9. ended' = f /\ pending' = q
  BY <1>1, <1>5, <1>7, <1>8 DEF UrbEnds
<1>10. \A c : Ends(ended, continuation, x, K, c)
  BY <1>2, <1>3, <1>6, <1>7, EndsLine
<1>11. \A c : LET y == Line(pending, ended)
                  z == Line(q, f)
              IN /\ q \in Seq(UrbOut) /\ f \in Seq(UrbEnd)
                 /\ \A k \in DOMAIN q : \E l \in DOMAIN pending : q[k] = pending[l]
                 /\ continuation => \A k \in DOMAIN q : q[k].ctx # Head(pending).ctx
                 /\ LeftOf(z, c) = LeftOf(y, c)
                 /\ OnceIn(y, c) => OnceIn(z, c)
                 /\ InOrder(y, c) => InOrder(z, c)
                 /\ WellOf(f, c) = WellOf(ended, c)
                 /\ \A k \in DOMAIN f : \/ k \in DOMAIN ended /\ f[k] = ended[k]
                                        \/ /\ f[k].status \in {x.status, "cancelled"}
                                           /\ f[k].ctx = Head(pending).ctx
  BY <1>8, <1>10 DEF Ends
<1>12. /\ sent' = sent /\ transfer' = transfer
       /\ UNCHANGED <<pcTx, at, txElse, evElse, nextUrb, plugged, continuation, flying, used,
                      done, bytesXfered, owed, gaveUp>>
  BY <1>1 DEF UrbEnds, kernelElse, txVars, ctxVars, evVars, txElse, evElse
<1>13. QED BY <1>1, <1>2, <1>4, <1>6, <1>9, <1>11, <1>12

(* Steps that change nothing of the transfers and the contexts.            *)
Quiet ==
  /\ UNCHANGED <<transfer, sent, pending, ended, continuation, flying, owed, pcEv, evAt,
                 evStatus, nextUrb, used, done, bytesXfered, polled, plugged, gaveUp, trouble>>
  /\ \/ pcTx' = pcTx /\ at' = at
     \/ pcTx \notin {"submit", "urbs"} /\ pcTx' \notin {"submit", "urbs"}

(* The steps of the transmit thread that only move it on.                    *)
LEMMA QuietSteps ==
  ASSUME \/ TxTurn \/ TxWaited \/ TxTimeout \/ TxFill \/ TxCancelled \/ TxEnd \/ TxStart
         \/ TxCancel /\ ~TakesCancel(at)
         \/ Terminate \/ UNCHANGED sendingVars
  PROVE  Quiet
<1> USE DEF Quiet, txVars, ctxVars, evVars, kernelVars
<1>1. CASE TxTurn
  BY <1>1 DEF TxTurn
<1>2. CASE TxWaited \/ TxTimeout
  BY <1>2 DEF TxWaited, TxTimeout
<1>3. CASE TxFill \/ TxStart
  BY <1>3 DEF TxFill, TxStart
<1>4. CASE TxCancelled \/ TxEnd
  BY <1>4 DEF TxCancelled, TxEnd
<1>5. CASE TxCancel /\ ~TakesCancel(at)
  BY <1>5 DEF TxCancel
<1>6. CASE Terminate
  BY <1>6 DEF Terminate
<1>7. CASE UNCHANGED sendingVars
  BY <1>7 DEF sendingVars
<1>8. QED BY <1>1, <1>2, <1>3, <1>4, <1>5, <1>6, <1>7

LEMMA BeginEffect ==
  ASSUME SendingSizes, SendingIInv, TxBegin, Free # {}
  PROVE  /\ pcTx = "begin" /\ pcTx' = "submit"
         /\ at' \in Contexts /\ ~used[at']
         /\ used' = [used EXCEPT ![at'] = TRUE]
         /\ done' = [done EXCEPT ![at'] = FALSE]
         /\ bytesXfered' = [bytesXfered EXCEPT ![at'] = 0]
         /\ UNCHANGED <<txElse, evElse, lineElse, nextUrb, transfer, sent, flying, owed,
                        gaveUp, trouble>>
<1>1. PICK c \in Free : /\ used' = [used EXCEPT ![c] = TRUE]
                        /\ ResetContext(c)
                        /\ at' = c /\ pcTx' = "submit"
                        /\ UNCHANGED <<txVars, nextUrb>>
  BY DEF TxBegin, BeginFree
<1>2. pcTx = "begin" /\ UNCHANGED <<evElse, lineElse, transfer, sent, flying, owed, gaveUp, trouble>>
  BY DEF TxBegin, evVars, kernelVars, evElse, lineElse
<1>3. QED BY <1>1, <1>2 DEF Free, ResetContext, txVars, txElse

LEMMA FinishEffect ==
  ASSUME SendingSizes, SendingIInv, TxFinish
  PROVE  /\ pcTx = "finish" /\ pcTx' = "fill"
         /\ handles[bi] \in Contexts /\ done[handles[bi]]
         /\ used' = [used EXCEPT ![handles[bi]] = FALSE]
         /\ bufferUsed' = [bufferUsed EXCEPT ![bi] = FALSE]
         /\ UNCHANGED <<bi, handles, at, evElse, lineElse, nextUrb, transfer, sent, flying, owed,
                        done, bytesXfered, gaveUp, trouble>>
<1>1. /\ pcTx = "finish" /\ pcTx' = "fill"
      /\ used' = [used EXCEPT ![handles[bi]] = FALSE]
      /\ bufferUsed' = [bufferUsed EXCEPT ![bi] = FALSE]
      /\ UNCHANGED <<bi, handles, at, evElse, lineElse, nextUrb, transfer, sent, flying, owed,
                     done, bytesXfered, gaveUp, trouble>>
  BY DEF TxFinish, Release, evVars, kernelVars, evElse, lineElse
<1>2. handles[bi] \in Contexts /\ done[handles[bi]]
  BY <1>1 DEF SendingIInv, LoansIInv, TxType, Loans, FinishIsDone
<1>3. QED BY <1>1, <1>2

LEMMA DrainEffect ==
  ASSUME SendingSizes, SendingIInv, TxDrain
  PROVE  /\ pcTx = "drain" /\ pcTx' = "drain" /\ at \in Contexts
         /\ used' = [used EXCEPT ![at] = FALSE]
         /\ ~gaveUp' => ~gaveUp /\ (~used[at] \/ done[at])
         /\ UNCHANGED <<txElse, evElse, lineElse, nextUrb, transfer, sent, flying, owed,
                        done, bytesXfered, trouble>>
<1>1. /\ pcTx = "drain" /\ pcTx' = "drain" /\ at < NumContexts
      /\ used' = [used EXCEPT ![at] = FALSE]
      /\ gaveUp' = (gaveUp \/ (used[at] /\ ~done[at]))
      /\ UNCHANGED <<txElse, evElse, lineElse, nextUrb, transfer, sent, flying, owed,
                     done, bytesXfered, trouble>>
  BY DEF TxDrain, Release, txVars, evVars, kernelVars, txElse, evElse, lineElse
<1>2. at \in Contexts
  BY <1>1 DEF SendingIInv, LoansIInv, TxType, Contexts, SendingSizes
<1>3. QED BY <1>1, <1>2

(* libusb refuses a transfer only after AbortSending has given up on it.   *)
LEMMA RefusedEffect ==
  ASSUME SendingSizes, SendingIInv, TxSubmit, InFlight(at)
  PROVE  /\ pcTx = "submit" /\ pcTx' = "loop" /\ at \in Contexts /\ gaveUp
         /\ UNCHANGED <<evElse, lineElse, nextUrb, transfer, sent, flying, owed, done,
                        bytesXfered, gaveUp, trouble>>
<1>1. /\ pcTx = "submit" /\ pcTx' = "loop" /\ nextUrb' = 0
      /\ UNCHANGED <<evElse, lineElse, transfer, sent, flying, owed, done, bytesXfered,
                     gaveUp, trouble>>
  BY DEF TxSubmit, InFlight, Refused, Begun, evVars, kernelVars, evElse, lineElse
<1>2. at \in Contexts /\ nextUrb = 0
  BY <1>1 DEF SendingIInv, LoansIInv, Loans, NotYetInFlight
<1>3. gaveUp
  BY <1>1, <1>2 DEF SendingIInv, Lives, Life, BeingBegun
<1>4. QED BY <1>1, <1>2, <1>3

LEMMA LossEffect ==
  ASSUME SendingSizes, SendingIInv, EvPollErr \/ EvLastReaped \/ Unplug
  PROVE  /\ UNCHANGED <<pcTx, at, txElse, pending, ended, continuation, nextUrb, transfer, sent,
                        flying, owed, used, done, bytesXfered, pcEv, evAt, evStatus, gaveUp>>
         /\ Alive' => Alive
         /\ trouble' /\ ~plugged'
         /\ polled' \in {"yes", "lastRound", "disconnect", "no"}
         /\ polled' # polled => pcEv = "poll"
         /\ plugged' \in BOOLEAN
         /\ plugged' => plugged
<1>1. plugged \in BOOLEAN /\ polled \in {"yes", "lastRound", "disconnect", "no"}
  BY DEF SendingIInv, EvType
<1>2. (~plugged \/ polled # "yes" => trouble) /\ (polled # "yes" => ~plugged)
  BY DEF SendingIInv, Troubles
<1>3. CASE EvPollErr
  BY <1>1, <1>2, <1>3 DEF EvPollErr, txVars, ctxVars, kernelVars, txElse, Alive
<1>4. CASE EvLastReaped
  BY <1>1, <1>2, <1>4 DEF EvLastReaped, txVars, ctxVars, kernelVars, txElse, Alive
<1>5. CASE Unplug
  BY <1>1, <1>2, <1>5 DEF Unplug, Fault, kernelElse, txVars, ctxVars, evVars, txElse, Alive
<1>6. QED BY <1>3, <1>4, <1>5

(* The type of what the kernel and the event thread hold is kept.            *)
LEMMA EvTypeKept ==
  ASSUME SendingSizes, SendingIInv, BeginFindsContext, [SendingNext]_sendingVars
  PROVE  EvType'
<1>1. EvType /\ 0 \in Contexts /\ NumUrbs \in Nat
  BY DEF SendingIInv, Contexts, SendingSizes
<1> USE <1>1 DEF EvType, txElse, evElse, lineElse
<1>2. CASE Quiet
  BY <1>2 DEF Quiet
<1>3. CASE TxFinish
  BY <1>3, FinishEffect
<1>4. CASE TxBegin
  <2>1. Free # {}
    BY <1>4 DEF TxBegin, BeginFindsContext
  <2>2. /\ done' = [done EXCEPT ![at'] = FALSE] /\ bytesXfered' = [bytesXfered EXCEPT ![at'] = 0]
        /\ UNCHANGED <<evElse, lineElse, nextUrb, transfer, sent, flying, owed>>
    BY <1>4, <2>1, BeginEffect
  <2>3. done' \in [Contexts -> BOOLEAN] /\ bytesXfered' \in [Contexts -> Nat]
    BY <2>2
  <2>4. QED BY <2>2, <2>3
<1>5. CASE TxSubmit
  <2>1. CASE InFlight(at)
    BY <1>5, <2>1, RefusedEffect
  <2>2. CASE ~InFlight(at)
    BY <1>5, <2>2, SubmitEffect
  <2>3. QED BY <2>1, <2>2
<1>6. CASE TxUrb
  <2>1. nextUrb' \in 0 .. NumUrbs
    BY <1>6, UrbEffect DEF Urbs
  <2>2. QED BY <1>6, <2>1, UrbEffect
<1>7. CASE TxFirstUrbFails
  BY <1>7, FirstUrbFailsEffect
<1>8. CASE TxLaterUrbFails
  <2>1. /\ transfer' \in [Contexts -> Transfers] /\ sent' \in [Contexts -> Nat]
        /\ pending' \in Seq(UrbOut) /\ ended' \in Seq(UrbEnd) /\ nextUrb' = NumUrbs
        /\ UNCHANGED <<evElse, flying, plugged, continuation, done, bytesXfered, owed>>
    BY <1>8, LaterUrbFailsEffect
  <2>2. QED BY <2>1
<1>9. CASE TxSubmitted
  <2>1. flying' \in SUBSET Contexts
    BY <1>9, SubmittedEffect
  <2>2. QED BY <1>9, <2>1, SubmittedEffect
<1>10. CASE TxCancel /\ TakesCancel(at)
  BY <1>10, CancelEffect
<1>11. CASE TxDrain
  BY <1>11, DrainEffect
<1>12. CASE EvReap
  <2>1. PICK r : r = Head(ended)
    OBVIOUS
  <2>2. /\ r.ctx \in Contexts /\ Tail(ended) \in Seq(UrbEnd)
        /\ UNCHANGED <<nextUrb, flying, polled, plugged, continuation, done, bytesXfered, owed>>
    BY <1>12, <2>1, ReapEffect
  <2>3. CASE transfer[r.ctx].reap_action = "normal"
    <3>1. PICK complete : complete = IF TearsDown(r) THEN transfer[r.ctx].num_retired + 1 = NumUrbs
                                     ELSE LastUrb(r)
      OBVIOUS
    <3>2. /\ transfer' \in [Contexts -> Transfers] /\ sent' \in [Contexts -> Nat]
          /\ pending' \in Seq(UrbOut) /\ ended' \in Seq(UrbEnd)
          /\ \/ pcEv' = "complete" /\ evAt' = r.ctx
             \/ pcEv' = pcEv /\ evAt' = evAt
      BY <1>12, <2>1, <2>3, <3>1, NormalEffect
    <3>3. QED BY <2>2, <3>2
  <2>4. CASE transfer[r.ctx].reap_action # "normal"
    <3>1. /\ transfer' \in [Contexts -> Transfers]
          /\ ended' = Tail(ended) /\ pending' = pending /\ sent' = sent
          /\ \/ pcEv' = "complete" /\ evAt' = r.ctx
             \/ pcEv' = pcEv /\ evAt' = evAt
      BY <1>12, <2>1, <2>4, AbnormalEffect
    <3>2. QED BY <2>2, <3>1
  <2>5. QED BY <2>3, <2>4
<1>13. CASE EvPollErr \/ EvLastReaped \/ Unplug
  BY <1>13, LossEffect
<1>14. CASE EvDisconnect
  BY <1>14, DisconnectEffect
<1>15. CASE EvComplete
  <2>1. flying' \in SUBSET Contexts
    BY <1>15, CompleteEffect
  <2>2. QED BY <1>15, <2>1, CompleteEffect
<1>16. CASE EvCallback
  BY <1>16, CallbackEffect
<1>17. CASE UrbSent
  BY <1>17, SentEffect
<1>18. CASE UrbFails \/ UrbLost
  BY <1>18, EndEffect
<1>19. QED
  BY <1>2, <1>3, <1>4, <1>5, <1>6, <1>7, <1>8, <1>9, <1>10, <1>11, <1>12, <1>13, <1>14, <1>15,
     <1>16, <1>17, <1>18, QuietSteps DEF SendingNext, TxNext, EvNext

-----------------------------------------------------------------------------
(* The invariant, part by part. First, what only the flags and the threads   *)
(* decide.                                                                   *)

(* Trust that is lost does not come back.                                  *)
LEMMA TrustLost ==
  ASSUME SendingSizes, SendingIInv, BeginFindsContext, [SendingNext]_sendingVars
  PROVE  /\ gaveUp => gaveUp'
         /\ \A c \in Contexts : Trusted(c)' => Trusted(c)
<1>1. ASSUME continuation' = continuation, gaveUp => gaveUp',
             \A c \in Contexts : Stalled(c) => Stalled(c)' \/ BeingBegun(c)
      PROVE  /\ gaveUp => gaveUp'
             /\ \A c \in Contexts : Trusted(c)' => Trusted(c)
  <2>1. SUFFICES ASSUME NEW c \in Contexts, Trusted(c)', ~Trusted(c) PROVE FALSE
    BY <1>1
  <2>2. Orderly' = Orderly
    BY <1>1 DEF Orderly
  <2>3. ~Orderly /\ ~gaveUp' /\ ~Stalled(c)'
    BY <2>1, <2>2 DEF Trusted
  <2>4. ~gaveUp /\ Stalled(c)
    BY <1>1, <2>1, <2>3 DEF Trusted
  <2>5. ~BeingBegun(c)
    BY <2>4 DEF SendingIInv, Lives, StallStays
  <2>6. QED BY <1>1, <2>3, <2>4, <2>5
<1> DEFINE Goal == /\ gaveUp => gaveUp'
                   /\ \A c \in Contexts : Trusted(c)' => Trusted(c)
           Stall(t) == t.reap_status \in {"stall", "noDevice"}
<1> SUFFICES Goal
  OBVIOUS
<1>2. ASSUME continuation' = continuation, gaveUp => gaveUp', transfer' = transfer
      PROVE  Goal
  <2>1. \A c \in Contexts : Stalled(c) => Stalled(c)'
    BY <1>2 DEF Stalled
  <2>2. QED BY <1>1, <1>2, <2>1
<1>3. ASSUME continuation' = continuation, gaveUp' = gaveUp, NEW a, Only(a),
             Stall(transfer[a]) => Stall(transfer'[a]) \/ BeingBegun(a)
      PROVE  Goal
  <2>1. \A c \in Contexts : c # a => (Stalled(c) => Stalled(c)')
    BY <1>3 DEF Stalled, Only
  <2>2. \A c \in Contexts : Stalled(c) => Stalled(c)' \/ BeingBegun(c)
    BY <1>3, <2>1 DEF Stalled
  <2>3. QED BY <1>1, <1>3, <2>2
<1> HIDE DEF Goal
<1> USE DEF txElse, evElse, lineElse
<1>4. CASE Quiet
  BY <1>2, <1>4 DEF Quiet
<1>5. CASE TxFinish
  BY <1>2, <1>5, FinishEffect
<1>6. CASE TxBegin
  <2>1. Free # {}
    BY <1>6 DEF TxBegin, BeginFindsContext
  <2>2. UNCHANGED <<lineElse, gaveUp, transfer>>
    BY <1>6, <2>1, BeginEffect
  <2>3. QED BY <1>2, <2>2
<1>7. CASE TxSubmit
  <2>1. CASE InFlight(at)
    BY <1>2, <1>7, <2>1, RefusedEffect
  <2>2. CASE ~InFlight(at)
    <3>1. Only(at) /\ pcTx = "submit" /\ UNCHANGED <<lineElse, gaveUp>>
      BY <1>7, <2>2, SubmitEffect
    <3>2. BeingBegun(at)
      BY <3>1 DEF BeingBegun
    <3>3. QED BY <1>3, <3>1, <3>2
  <2>3. QED BY <2>1, <2>2
<1>8. CASE TxUrb
  BY <1>2, <1>8, UrbEffect
<1>9. CASE TxFirstUrbFails \/ TxLaterUrbFails \/ TxSubmitted
  <2>1. Only(at) /\ pcTx = "urbs" /\ continuation' = continuation /\ gaveUp' = gaveUp
    BY <1>9, FirstUrbFailsEffect, LaterUrbFailsEffect, SubmittedEffect
  <2>2. BeingBegun(at)
    BY <2>1 DEF BeingBegun
  <2>3. QED BY <1>3, <2>1, <2>2
<1>10. CASE TxCancel /\ TakesCancel(at)
  <2>1. /\ Only(at) /\ continuation' = continuation /\ gaveUp' = gaveUp
        /\ transfer'[at].reap_status = transfer[at].reap_status
    BY <1>10, CancelEffect
  <2>2. QED BY <1>3, <2>1
<1>11. CASE TxDrain
  <2>1. continuation' = continuation /\ transfer' = transfer
    BY <1>11, DrainEffect
  <2>2. gaveUp => gaveUp'
    BY <1>11 DEF TxDrain
  <2>3. QED BY <1>2, <2>1, <2>2
<1>12. CASE EvReap
  <2>1. PICK r : r = Head(ended)
    OBVIOUS
  <2>2. continuation' = continuation /\ gaveUp' = gaveUp
    BY <1>12, <2>1, ReapEffect
  <2>3. CASE transfer[r.ctx].reap_action = "normal"
    <3>1. PICK complete : complete = IF TearsDown(r) THEN transfer[r.ctx].num_retired + 1 = NumUrbs
                                     ELSE LastUrb(r)
      OBVIOUS
    <3>2. /\ Only(r.ctx)
          /\ transfer'[r.ctx].reap_status = ReapStatus(r, transfer[r.ctx].reap_status)
      BY <1>12, <2>1, <2>3, <3>1, NormalEffect
    <3>3. Stall(transfer[r.ctx]) => Stall(transfer'[r.ctx])
      BY <3>2 DEF ReapStatus
    <3>4. QED BY <1>3, <2>2, <3>2, <3>3
  <2>4. CASE transfer[r.ctx].reap_action # "normal"
    <3>1. /\ Only(r.ctx)
          /\ Stall(transfer'[r.ctx]) <=> Stall(transfer[r.ctx])
      BY <1>12, <2>1, <2>4, AbnormalEffect
    <3>2. QED BY <1>3, <2>2, <3>1
  <2>5. QED BY <2>3, <2>4
<1>13. CASE EvPollErr \/ EvLastReaped \/ Unplug
  BY <1>2, <1>13, LossEffect
<1>14. CASE EvDisconnect
  <2>1. /\ continuation' = continuation /\ gaveUp' = gaveUp
        /\ \A c \in Contexts : transfer'[c].reap_status = transfer[c].reap_status
    BY <1>14, DisconnectEffect
  <2>2. \A c \in Contexts : Stalled(c) => Stalled(c)'
    BY <2>1 DEF Stalled
  <2>3. QED BY <1>1, <2>1, <2>2 DEF Goal
<1>15. CASE EvComplete
  <2>1. /\ Only(evAt) /\ continuation' = continuation /\ gaveUp' = gaveUp
        /\ transfer'[evAt].reap_status = transfer[evAt].reap_status
    BY <1>15, CompleteEffect
  <2>2. QED BY <1>3, <2>1
<1>16. CASE EvCallback
  BY <1>2, <1>16, CallbackEffect
<1>17. CASE UrbSent
  BY <1>2, <1>17, SentEffect
<1>18. CASE UrbFails \/ UrbLost
  BY <1>2, <1>18, EndEffect
<1>19. Goal
  BY <1>4, <1>5, <1>6, <1>7, <1>8, <1>9, <1>10, <1>11, <1>12, <1>13, <1>14, <1>15,
     <1>16, <1>17, <1>18, QuietSteps DEF SendingNext, TxNext, EvNext
<1>20. QED BY <1>19 DEF Goal

(* A transfer that is being submitted is not in flight.                      *)
LEMMA NotYetInFlightKept ==
  ASSUME SendingSizes, SendingIInv, BeginFindsContext, [SendingNext]_sendingVars
  PROVE  NotYetInFlight'
<1>1. NotYetInFlight /\ EvType /\ (pcTx \in {"submit", "urbs"} => at \in Contexts)
  BY DEF SendingIInv, LoansIInv, Loans
<1>2. ASSUME pcTx' = pcTx, at' = at, pcTx # "urbs" => nextUrb' = nextUrb, Alive' => Alive,
             \A c \in Contexts :
               /\ "inFlight" \in transfer'[c].flags => "inFlight" \in transfer[c].flags
               /\ Alive' /\ "disappeared" \in transfer'[c].flags
                    => "disappeared" \in transfer[c].flags
      PROVE  NotYetInFlight'
  BY <1>1, <1>2 DEF NotYetInFlight, InFlight
<1>3. ASSUME pcTx # "urbs", pcTx' # "urbs", nextUrb' = nextUrb PROVE NotYetInFlight'
  BY <1>1, <1>3 DEF NotYetInFlight
<1> USE DEF txElse, evElse, lineElse
<1>4. CASE Quiet
  BY <1>1, <1>4 DEF Quiet, NotYetInFlight, InFlight, Alive
<1>5. CASE TxFinish
  BY <1>3, <1>5, FinishEffect
<1>6. CASE TxBegin
  <2>1. Free # {}
    BY <1>6 DEF TxBegin, BeginFindsContext
  <2>2. pcTx # "urbs" /\ pcTx' # "urbs" /\ nextUrb' = nextUrb
    BY <1>6, <2>1, BeginEffect
  <2>3. QED BY <1>3, <2>2
<1>7. CASE TxSubmit
  <2>1. CASE InFlight(at)
    BY <1>3, <1>7, <2>1, RefusedEffect
  <2>2. CASE ~InFlight(at)
    <3>1. pcTx' = "urbs" /\ at' = at /\ transfer'[at].flags = {"submitting"}
      BY <1>7, <2>2, SubmitEffect
    <3>2. QED BY <3>1 DEF NotYetInFlight, InFlight
  <2>3. QED BY <2>1, <2>2
<1>8. CASE TxUrb
  <2>1. pcTx = "urbs" /\ UNCHANGED <<pcTx, at, polled, transfer>>
    BY <1>8, UrbEffect
  <2>2. QED BY <1>2, <2>1 DEF Alive
<1>9. CASE TxFirstUrbFails
  <2>1. pcTx' = "loop" /\ nextUrb' = 0
    BY <1>9, FirstUrbFailsEffect
  <2>2. QED BY <2>1 DEF NotYetInFlight
<1>10. CASE TxLaterUrbFails
  <2>1. /\ pcTx = "urbs" /\ UNCHANGED <<pcTx, at, polled>>
        /\ Only(at) /\ transfer'[at].flags = transfer[at].flags
    BY <1>10, LaterUrbFailsEffect
  <2>2. QED BY <1>2, <2>1 DEF Alive, Only
<1>11. CASE TxSubmitted
  <2>1. pcTx' = "loop" /\ nextUrb' = 0
    BY <1>11, SubmittedEffect
  <2>2. QED BY <2>1 DEF NotYetInFlight
<1>12. CASE TxCancel /\ TakesCancel(at)
  BY <1>3, <1>12, CancelEffect
<1>13. CASE TxDrain
  BY <1>3, <1>13, DrainEffect
<1>14. CASE EvReap
  <2>1. PICK r : r = Head(ended)
    OBVIOUS
  <2>2. UNCHANGED <<pcTx, at, nextUrb, polled>>
    BY <1>14, <2>1, ReapEffect
  <2>3. PICK complete : complete = IF TearsDown(r) THEN transfer[r.ctx].num_retired + 1 = NumUrbs
                                   ELSE LastUrb(r)
    OBVIOUS
  <2>4. Only(r.ctx) /\ transfer'[r.ctx].flags = transfer[r.ctx].flags
    BY <1>14, <2>1, <2>3, NormalEffect, AbnormalEffect
  <2>5. QED BY <1>2, <2>2, <2>4 DEF Alive, Only
<1>15. CASE EvPollErr \/ EvLastReaped \/ Unplug
  <2>1. UNCHANGED <<pcTx, at, nextUrb, transfer>> /\ (Alive' => Alive)
    BY <1>15, LossEffect
  <2>2. QED BY <1>2, <2>1
<1>16. CASE EvDisconnect
  <2>1. /\ UNCHANGED <<pcTx, at, nextUrb>>
        /\ \A c \in Contexts :
             transfer'[c].flags \ {"disappeared"} = transfer[c].flags \ {"disappeared"}
        /\ ~Alive'
    BY <1>16, DisconnectEffect DEF Alive
  <2>2. \A c \in Contexts :
          "inFlight" \in transfer'[c].flags => "inFlight" \in transfer[c].flags
    <3>1. SUFFICES ASSUME NEW c \in Contexts, "inFlight" \in transfer'[c].flags
                   PROVE  "inFlight" \in transfer[c].flags
      OBVIOUS
    <3>2. "inFlight" \in transfer'[c].flags \ {"disappeared"}
      BY <3>1
    <3>3. QED BY <2>1, <3>2
  <2>3. QED BY <1>2, <2>1, <2>2
<1>17. CASE EvComplete
  <2>1. /\ UNCHANGED <<pcTx, at, nextUrb, polled>> /\ Only(evAt)
        /\ transfer'[evAt].flags = (transfer[evAt].flags \ {"inFlight"}) \cup {"completed"}
    BY <1>17, CompleteEffect
  <2>2. QED BY <1>2, <2>1 DEF Alive, Only
<1>18. CASE EvCallback
  <2>1. UNCHANGED <<pcTx, at, nextUrb, polled, transfer>>
    BY <1>18, CallbackEffect
  <2>2. QED BY <1>2, <2>1 DEF Alive
<1>19. CASE UrbSent
  <2>1. UNCHANGED <<pcTx, at, nextUrb, polled, transfer>>
    BY <1>19, SentEffect
  <2>2. QED BY <1>2, <2>1 DEF Alive
<1>20. CASE UrbFails \/ UrbLost
  <2>1. UNCHANGED <<pcTx, at, nextUrb, polled, transfer>>
    BY <1>20, EndEffect
  <2>2. QED BY <1>2, <2>1 DEF Alive
<1>21. QED
  BY <1>4, <1>5, <1>6, <1>7, <1>8, <1>9, <1>10, <1>11, <1>12, <1>13, <1>14, <1>15,
     <1>16, <1>17, <1>18, <1>19, <1>20, QuietSteps DEF SendingNext, TxNext, EvNext

(* A transfer of which a URB is reaped is in flight.                       *)
LEMMA ReapedInFlight ==
  ASSUME SendingSizes, SendingIInv, EvReap, NEW r, r = Head(ended), Trusted(r.ctx)
  PROVE  InFlight(r.ctx) /\ Counted(r.ctx) /\ ~Submitting(r.ctx)
<1>1. /\ pcEv = "poll" /\ Alive /\ ended # <<>> /\ r.ctx \in Contexts /\ ~Submitting(r.ctx)
  BY ReapEffect
<1>2. Unreaped(r.ctx)
  <2>1. 1 \in DOMAIN ended /\ ended[1] = r
    BY <1>1 DEF SendingIInv, EvType
  <2>2. QED BY <2>1 DEF Unreaped
<1>3. PICK c \in Contexts : c = r.ctx
  BY <1>1
<1>4. Busy(c) /\ Counted(c)
  BY <1>1, <1>2, <1>3 DEF SendingIInv, UrbsCounted
<1>5. QED BY <1>1, <1>3, <1>4 DEF Busy

(* A transfer that is reported is in flight.                                 *)
LEMMA ReportedInFlightKept ==
  ASSUME SendingSizes, SendingIInv, BeginFindsContext, [SendingNext]_sendingVars
  PROVE  ReportedInFlight'
<1>1. ReportedInFlight /\ EvType /\ NotYetInFlight
  BY DEF SendingIInv
<1>2. \A c \in Contexts : Trusted(c)' => Trusted(c)
  BY TrustLost
<1>3. ASSUME UNCHANGED <<pcEv, evAt, polled>>,
             \A c \in Contexts : "inFlight" \in transfer[c].flags => "inFlight" \in transfer'[c].flags
      PROVE  ReportedInFlight'
  <2>1. polled' = "no" => pcEv' = "poll"
    BY <1>1, <1>3 DEF ReportedInFlight
  <2>2. ASSUME Alive', pcEv' = "complete", Trusted(evAt)' PROVE InFlight(evAt)'
    <3>1. PICK c \in Contexts : c = evAt
      BY <1>1 DEF EvType
    <3>2. Trusted(c)'
      BY <1>3, <2>2, <3>1 DEF Trusted, Stalled
    <3>3. InFlight(c)
      BY <1>1, <1>2, <1>3, <2>2, <3>1, <3>2 DEF ReportedInFlight, Alive
    <3>4. QED BY <1>3, <3>1, <3>3 DEF InFlight
  <2>3. QED BY <2>1, <2>2 DEF ReportedInFlight
<1>4. ASSUME pcEv' # "complete", polled' = "no" => pcEv' = "poll" PROVE ReportedInFlight'
  BY <1>4 DEF ReportedInFlight
<1> USE DEF txElse, evElse, lineElse
<1>5. CASE Quiet
  <2>1. UNCHANGED <<pcEv, evAt, polled, transfer>>
    BY <1>5 DEF Quiet
  <2>2. QED BY <1>3, <2>1
<1>6. CASE TxFinish
  BY <1>3, <1>6, FinishEffect
<1>7. CASE TxBegin
  <2>1. Free # {}
    BY <1>7 DEF TxBegin, BeginFindsContext
  <2>2. UNCHANGED <<pcEv, evAt, polled, transfer>>
    BY <1>7, <2>1, BeginEffect
  <2>3. QED BY <1>3, <2>2
<1>8. CASE TxSubmit
  <2>1. CASE InFlight(at)
    BY <1>3, <1>8, <2>1, RefusedEffect
  <2>2. CASE ~InFlight(at)
    <3>1. Only(at) /\ UNCHANGED <<pcEv, evAt, polled>>
      BY <1>8, <2>2, SubmitEffect
    <3>2. QED BY <1>3, <2>2, <3>1 DEF Only, InFlight
  <2>3. QED BY <2>1, <2>2
<1>9. CASE TxUrb
  BY <1>3, <1>9, UrbEffect
<1>10. CASE TxFirstUrbFails
  <2>1. /\ Only(at) /\ UNCHANGED <<pcEv, evAt, polled>>
        /\ transfer'[at].flags = transfer[at].flags \ {"submitting"}
    BY <1>10, FirstUrbFailsEffect
  <2>2. QED BY <1>3, <2>1 DEF Only
<1>11. CASE TxLaterUrbFails
  <2>1. /\ Only(at) /\ UNCHANGED <<pcEv, evAt, polled>>
        /\ transfer'[at].flags = transfer[at].flags
    BY <1>11, LaterUrbFailsEffect
  <2>2. QED BY <1>3, <2>1 DEF Only
<1>12. CASE TxSubmitted
  <2>1. /\ Only(at) /\ UNCHANGED <<pcEv, evAt, polled>>
        /\ \/ transfer'[at].flags = transfer[at].flags \ {"submitting"}
           \/ transfer'[at].flags = (transfer[at].flags \ {"submitting"}) \cup {"inFlight"}
    BY <1>12, SubmittedEffect
  <2>2. QED BY <1>3, <2>1 DEF Only
<1>13. CASE TxCancel /\ TakesCancel(at)
  <2>1. /\ Only(at) /\ UNCHANGED <<pcEv, evAt, polled>>
        /\ transfer'[at].flags \ {"disappeared"} = (transfer[at].flags \cup {"cancelling"})
                                                      \ {"disappeared"}
    BY <1>13, CancelEffect
  <2>2. "inFlight" \in transfer[at].flags => "inFlight" \in transfer'[at].flags
    BY <2>1
  <2>3. QED BY <1>3, <2>1, <2>2 DEF Only
<1>14. CASE TxDrain
  BY <1>3, <1>14, DrainEffect
<1>15. CASE EvReap
  <2>1. PICK r : r = Head(ended)
    OBVIOUS
  <2>2. /\ pcEv = "poll" /\ Alive /\ r.ctx \in Contexts /\ polled' = polled
    BY <1>15, <2>1, ReapEffect
  <2>3. PICK complete : complete = IF TearsDown(r) THEN transfer[r.ctx].num_retired + 1 = NumUrbs
                                   ELSE LastUrb(r)
    OBVIOUS
  <2>4. /\ transfer'[r.ctx].flags = transfer[r.ctx].flags
        /\ \/ pcEv' = "complete" /\ evAt' = r.ctx
           \/ pcEv' = pcEv /\ evAt' = evAt
    BY <1>15, <2>1, <2>3, NormalEffect, AbnormalEffect
  <2>5. CASE pcEv' = "complete" /\ evAt' = r.ctx
    <3>1. ASSUME Trusted(evAt)' PROVE InFlight(evAt)'
      <4>1. PICK c \in Contexts : c = r.ctx
        BY <2>2
      <4>2. Trusted(c)'
        BY <2>5, <3>1, <4>1 DEF Trusted, Stalled
      <4>3. Trusted(r.ctx)
        BY <1>2, <4>1, <4>2
      <4>4. InFlight(r.ctx)
        BY <1>15, <2>1, <4>3, ReapedInFlight
      <4>5. QED BY <2>4, <2>5, <4>4 DEF InFlight
    <3>2. polled' # "no"
      BY <2>2 DEF Alive
    <3>3. QED BY <3>1, <3>2 DEF ReportedInFlight
  <2>6. CASE pcEv' = pcEv
    BY <1>4, <2>2, <2>6
  <2>7. QED BY <2>4, <2>5, <2>6
<1>16. CASE EvPollErr \/ EvLastReaped \/ Unplug
  <2>1. UNCHANGED <<pcEv, evAt, transfer>> /\ (polled' # polled => pcEv = "poll")
    BY <1>16, LossEffect
  <2>2. QED BY <1>3, <1>4, <2>1
<1>17. CASE EvDisconnect
  <2>1. ~Alive' /\ (polled' = "no" => pcEv' = "poll")
    BY <1>17, DisconnectEffect DEF Alive
  <2>2. QED BY <2>1 DEF ReportedInFlight
<1>18. CASE EvComplete
  <2>1. pcEv = "complete" /\ pcEv' = "callback" /\ polled' = polled
    BY <1>18, CompleteEffect
  <2>2. QED BY <1>1, <1>4, <2>1 DEF ReportedInFlight
<1>19. CASE EvCallback
  <2>1. pcEv' = "poll"
    BY <1>19, CallbackEffect
  <2>2. QED BY <1>4, <2>1
<1>20. CASE UrbSent
  BY <1>3, <1>20, SentEffect
<1>21. CASE UrbFails \/ UrbLost
  BY <1>3, <1>21, EndEffect
<1>22. QED
  BY <1>5, <1>6, <1>7, <1>8, <1>9, <1>10, <1>11, <1>12, <1>13, <1>14, <1>15, <1>16, <1>17,
     <1>18, <1>19, <1>20, <1>21, QuietSteps DEF SendingNext, TxNext, EvNext

-----------------------------------------------------------------------------
(* UrbsCounted: every URB is retired or in the line.                         *)

(* The URBs of a transfer are finite in number.                              *)
LEMMA CountsFinite ==
  ASSUME SendingSizes, NEW p \in Seq(UrbOut), NEW e \in Seq(UrbEnd), NEW c
  PROVE  /\ IsFiniteSet(LeftOf(Line(p, e), c)) /\ Cardinality(LeftOf(Line(p, e), c)) \in Nat
         /\ IsFiniteSet(WellOf(e, c)) /\ Cardinality(WellOf(e, c)) \in Nat
         /\ LeftOf(Line(p, e), c) \in SUBSET Urbs /\ Urbs \in SUBSET Nat
         /\ WellOf(e, c) \in SUBSET LeftOf(Line(p, e), c)
<1>1. LeftOf(Line(p, e), c) \in SUBSET Urbs /\ WellOf(e, c) \in SUBSET LeftOf(Line(p, e), c)
  BY WellLeft
<1>2. NumUrbs \in Nat
  BY DEF SendingSizes
<1>3. IsFiniteSet(Urbs) /\ Urbs \in SUBSET Nat
  <2>1. 0 \in Int /\ NumUrbs - 1 \in Int
    BY <1>2
  <2>2. IsFiniteSet(Urbs)
    BY <2>1, FS_Interval DEF Urbs
  <2>3. QED BY <1>2, <2>2 DEF Urbs
<1>4. IsFiniteSet(LeftOf(Line(p, e), c)) /\ IsFiniteSet(WellOf(e, c))
  <2>1. IsFiniteSet(LeftOf(Line(p, e), c))
    BY <1>1, <1>3, FS_Subset
  <2>2. QED BY <1>1, <2>1, FS_Subset
<1>5. QED BY <1>1, <1>3, <1>4, FS_CardinalityType

Failed(e, c) == \E k \in DOMAIN e : e[k].ctx = c /\ e[k].status # "ok"
Waits(p, c) == \E k \in DOMAIN p : p[k].ctx = c

(* A step leaves the line of a transfer as it was, for all that is counted.*)
SameLine(c) ==
  /\ LeftOf(Line(pending', ended'), c) = LeftOf(Line(pending, ended), c)
  /\ OnceIn(Line(pending, ended), c) => OnceIn(Line(pending', ended'), c)
  /\ InOrder(Line(pending, ended), c) => InOrder(Line(pending', ended'), c)
  /\ WellOf(ended', c) = WellOf(ended, c)
  /\ Waits(pending', c) => Waits(pending, c)
  /\ continuation' = continuation
  /\ continuation /\ Failed(ended', c) => Failed(ended, c) \/ ~Waits(pending', c)

SameCounts(c) ==
  /\ transfer'[c].num_retired = transfer[c].num_retired
  /\ transfer'[c].transferred = transfer[c].transferred
  /\ transfer'[c].reap_status = transfer[c].reap_status
  /\ transfer'[c].reap_action = "normal" => transfer[c].reap_action = "normal"
  /\ sent'[c] = sent[c]

(* A transfer is counted as before when its URBs in the line are.            *)
LEMMA CountedKept ==
  ASSUME NEW c \in Contexts, Counted(c), SameLine(c), SameCounts(c), Taken(c)' = Taken(c)
  PROVE  Counted(c)'
<1> DEFINE y == Line(pending, ended)
           z == Line(pending', ended')
<1>1. /\ LeftOf(z, c) = LeftOf(y, c) /\ WellOf(ended', c) = WellOf(ended, c)
      /\ OnceIn(y, c) => OnceIn(z, c)
      /\ InOrder(y, c) => InOrder(z, c)
  BY DEF SameLine
<1>2. /\ OnceIn(y, c) /\ \A i \in LeftOf(y, c) : i < Taken(c)
      /\ transfer[c].num_retired + Cardinality(LeftOf(y, c)) = Taken(c)
      /\ transfer[c].transferred + Cardinality(WellOf(ended, c)) = sent[c]
      /\ transfer[c].reap_action = "normal" =>
           /\ InOrder(y, c)
           /\ Taken(c) > 0 => Taken(c) - 1 \in LeftOf(y, c)
           /\ EndedEarly(c) => \A k \in DOMAIN pending : pending[k].ctx # c
           /\ transfer[c].reap_status # "error"
  BY DEF Counted
<1>3. ASSUME transfer'[c].reap_action = "normal", EndedEarly(c)'
      PROVE  \A k \in DOMAIN pending' : pending'[k].ctx # c
  <2>1. continuation /\ Failed(ended', c)
    BY <1>3 DEF EndedEarly, Failed, SameLine
  <2>2. CASE Failed(ended, c)
    <3>1. EndedEarly(c)
      BY <2>1, <2>2 DEF EndedEarly, Failed
    <3>2. ~Waits(pending, c)
      BY <1>2, <1>3, <3>1 DEF SameCounts, Waits
    <3>3. QED BY <3>2 DEF SameLine, Waits
  <2>3. CASE ~Waits(pending', c)
    BY <2>3 DEF Waits
  <2>4. QED BY <2>1, <2>2, <2>3 DEF SameLine
<1> HIDE DEF y
<1>4. /\ OnceIn(z, c) /\ \A i \in LeftOf(z, c) : i < Taken(c)'
      /\ transfer'[c].num_retired + Cardinality(LeftOf(z, c)) = Taken(c)'
      /\ transfer'[c].transferred + Cardinality(WellOf(ended', c)) = sent'[c]
      /\ transfer'[c].reap_action = "normal" =>
           /\ InOrder(z, c)
           /\ Taken(c)' > 0 => Taken(c)' - 1 \in LeftOf(z, c)
           /\ EndedEarly(c)' => \A k \in DOMAIN pending' : pending'[k].ctx # c
           /\ transfer'[c].reap_status # "error"
  <2> HIDE DEF z
  <2>1. QED BY <1>1, <1>2, <1>3 DEF SameCounts
<1>5. QED BY <1>4 DEF Counted

(* What UrbsCounted says of one context.                                   *)
Accounted(c) == IF Busy(c) THEN Counted(c) ELSE ~Unreaped(c)

(* A URB is unreaped when it is in the line,                                 *)
LEMMA UnreapedLeft ==
  ASSUME EvType, NEW c
  PROVE  Unreaped(c) <=> LeftOf(Line(pending, ended), c) # {}
<1>1. pending \in Seq(UrbOut) /\ ended \in Seq(UrbEnd)
  BY DEF EvType
<1>2. QED BY <1>1, UnreapedLine DEF Unreaped

(* ... and after the step as well.                                           *)
LEMMA UnreapedLeftNext ==
  ASSUME EvType', NEW c
  PROVE  Unreaped(c)' <=> LeftOf(Line(pending', ended'), c) # {}
<1>1. pending' \in Seq(UrbOut) /\ ended' \in Seq(UrbEnd)
  BY DEF EvType
<1>2. QED BY <1>1, UnreapedLine DEF Unreaped

(* A transfer the step does not touch is accounted for as before.            *)
LEMMA AccountedKept ==
  ASSUME EvType, EvType', NEW c \in Contexts, Accounted(c), SameLine(c), SameCounts(c),
         Busy(c)' <=> Busy(c), Taken(c)' = Taken(c)
  PROVE  Accounted(c)'
<1>1. CASE Busy(c)
  BY <1>1, CountedKept DEF Accounted
<1>2. CASE ~Busy(c)
  <2>1. LeftOf(Line(pending, ended), c) = {}
    BY <1>2, UnreapedLeft DEF Accounted
  <2>2. LeftOf(Line(pending', ended'), c) = {}
    BY <2>1 DEF SameLine
  <2>3. QED BY <1>2, <2>2, UnreapedLeftNext DEF Accounted
<1>3. QED BY <1>1, <1>2

(* The line of a transfer is the same if nothing ends or is submitted.       *)
LEMMA SameLineCalm ==
  ASSUME UNCHANGED <<pending, ended, continuation>>, NEW c
  PROVE  SameLine(c)
BY DEF SameLine

(* Discarding from the line in what is not asked for.                      *)
LEMMA SameLineDiscards ==
  ASSUME SendingSizes, EvType, continuation' = continuation,
         NEW a, NEW first \in Int, NEW last \in Int, NEW n \in {0, 1}, NEW c,
         pending' = DiscardUrbs(a, first, last, n).rest,
         ended' = ended \o DiscardUrbs(a, first, last, n).urbs,
         \/ c # a
         \/ \A k \in DOMAIN pending :
              pending[k].ctx = a => ~plugged \/ pending[k].idx \notin first .. last
  PROVE  SameLine(c)
<1>1. pending \in Seq(UrbOut) /\ ended \in Seq(UrbEnd) /\ plugged \in BOOLEAN
  BY DEF EvType
<1>2. DiscardsUrbs(ended, a, first, last, n, c)
  BY <1>1, DiscardUrbsLine
<1> DEFINE none == \A k \in DOMAIN pending :
                pending[k].ctx = a => ~plugged \/ pending[k].idx \notin first .. last
<1>3. /\ LeftOf(Line(pending', ended'), c) = LeftOf(Line(pending, ended), c)
      /\ OnceIn(Line(pending, ended), c) => OnceIn(Line(pending', ended'), c)
      /\ InOrder(Line(pending, ended), c) => InOrder(Line(pending', ended'), c)
      /\ WellOf(ended', c) = WellOf(ended, c)
      /\ \A k \in DOMAIN pending' : \E l \in DOMAIN pending : pending'[k] = pending[l]
      /\ \A k \in DOMAIN ended' : \/ k \in DOMAIN ended /\ ended'[k] = ended[k]
                                  \/ ended'[k].ctx = a /\ ~none
  BY <1>2 DEF DiscardsUrbs
<1>4. c # a \/ none
  OBVIOUS
<1>5. Waits(pending', c) => Waits(pending, c)
  BY <1>3 DEF Waits
<1>6. Failed(ended', c) => Failed(ended, c)
  <2> HIDE DEF none
  <2>1. QED BY <1>3, <1>4 DEF Failed
<1>7. QED BY <1>3, <1>5, <1>6 DEF SameLine

(* The URBs of a transfer that is no longer in the normal course are       *)
(* discarded.                                                              *)
LEMMA CountedDiscards ==
  ASSUME SendingSizes, EvType, NEW a \in Contexts, Counted(a), NEW last \in Int, NEW n \in {0, 1},
         pending' = DiscardUrbs(a, 0, last, n).rest,
         ended' = ended \o DiscardUrbs(a, 0, last, n).urbs,
         sent'[a] = sent[a] + DiscardUrbs(a, 0, last, n).sent,
         transfer'[a].transferred = transfer[a].transferred,
         NEW more \in Nat, Taken(a)' = Taken(a) + more,
         transfer'[a].num_retired = transfer[a].num_retired + more,
         transfer'[a].reap_action # "normal", Taken(a) \in Nat
  PROVE  Counted(a)'
<1>1. /\ pending \in Seq(UrbOut) /\ ended \in Seq(UrbEnd) /\ plugged \in BOOLEAN
      /\ transfer[a].transferred \in Nat /\ transfer[a].num_retired \in Nat /\ sent[a] \in Nat
  BY DEF EvType, Transfers
<1>2. 0 \in Int /\ last \in Int /\ n \in {0, 1}
  OBVIOUS
<1>3. DiscardsUrbs(ended, a, 0, last, n, a)
  BY <1>1, <1>2, DiscardUrbsLine
<1> DEFINE y == Line(pending, ended)
           z == Line(pending', ended')
           s == DiscardUrbs(a, 0, last, n).sent
<1>4. /\ pending' \in Seq(UrbOut) /\ ended' \in Seq(UrbEnd) /\ s \in {0, 1}
      /\ LeftOf(z, a) = LeftOf(y, a)
      /\ OnceIn(y, a) => OnceIn(z, a)
      /\ OnceIn(y, a) => Cardinality(WellOf(ended', a)) = Cardinality(WellOf(ended, a)) + s
  BY <1>3 DEF DiscardsUrbs
<1>5. /\ OnceIn(y, a) /\ \A i \in LeftOf(y, a) : i < Taken(a)
      /\ transfer[a].num_retired + Cardinality(LeftOf(y, a)) = Taken(a)
      /\ transfer[a].transferred + Cardinality(WellOf(ended, a)) = sent[a]
  BY DEF Counted
<1>6. /\ Cardinality(LeftOf(y, a)) \in Nat /\ Cardinality(WellOf(ended, a)) \in Nat
      /\ LeftOf(y, a) \in SUBSET Nat
  BY <1>1, CountsFinite
<1>7. sent'[a] = sent[a] + s
  OBVIOUS
<1> HIDE DEF y, s
<1>8. /\ OnceIn(z, a) /\ \A i \in LeftOf(z, a) : i < Taken(a)'
      /\ transfer'[a].num_retired + Cardinality(LeftOf(z, a)) = Taken(a)'
      /\ transfer'[a].transferred + Cardinality(WellOf(ended', a)) = sent'[a]
  <2> HIDE DEF z
  <2>1. OnceIn(z, a)
    BY <1>4, <1>5
  <2>2. \A i \in LeftOf(z, a) : i < Taken(a)'
    <3>1. \A i \in LeftOf(y, a) : i \in Nat /\ i < Taken(a)
      BY <1>5, <1>6
    <3>2. QED BY <1>4, <3>1
  <2>3. transfer'[a].num_retired + Cardinality(LeftOf(z, a)) = Taken(a)'
    <3>1. PICK l \in Nat : l = Cardinality(LeftOf(y, a))
      BY <1>6
    <3>2. Cardinality(LeftOf(z, a)) = l /\ transfer[a].num_retired + l = Taken(a)
      BY <1>4, <1>5, <3>1
    <3>3. QED BY <1>1, <3>2
  <2>4. transfer'[a].transferred + Cardinality(WellOf(ended', a)) = sent'[a]
    <3>1. PICK w \in Nat : w = Cardinality(WellOf(ended, a))
      BY <1>6
    <3>2. Cardinality(WellOf(ended', a)) = w + s /\ transfer[a].transferred + w = sent[a]
      BY <1>4, <1>5, <3>1
    <3>3. QED BY <1>1, <1>4, <1>7, <3>2, SMTT(30)
  <2>5. QED BY <2>1, <2>2, <2>3, <2>4
<1>9. QED BY <1>8 DEF Counted

(* How the line and its counts change when the first URB of it is reaped.  *)
LEMMA ReapedLine ==
  ASSUME SendingSizes, NEW p \in Seq(UrbOut), NEW e \in Seq(UrbEnd), e # <<>>, NEW c,
         Head(e).ctx = c, OnceIn(Line(p, e), c)
  PROVE  LET y == Line(p, e)
             z == Line(p, Tail(e))
         IN /\ OnceIn(z, c)
            /\ LeftOf(z, c) = LeftOf(y, c) \ {Head(e).idx}
            /\ Head(e).idx \in LeftOf(y, c)
            /\ Cardinality(LeftOf(z, c)) \in Nat
            /\ Cardinality(LeftOf(y, c)) = Cardinality(LeftOf(z, c)) + 1
            /\ Cardinality(WellOf(Tail(e), c)) \in Nat
            /\ Cardinality(WellOf(e, c)) = Cardinality(WellOf(Tail(e), c)) + Head(e).n
<1> DEFINE y == Line(p, e)
           z == Line(p, Tail(e))
           r == Head(e)
<1>1. /\ OnceIn(z, c) /\ LeftOf(z, c) = LeftOf(y, c) \ {r.idx}
      /\ r.idx \in LeftOf(y, c) /\ r \in UrbEnd /\ Tail(e) \in Seq(UrbEnd)
  BY LineShrinks
<1>2. /\ WellOf(e, c) = WellOf(Tail(e), c) \cup (IF r.n = 1 THEN {r.idx} ELSE {})
      /\ r.idx \notin WellOf(Tail(e), c)
  BY WellShrinks
<1>3. IsFiniteSet(LeftOf(y, c)) /\ Cardinality(LeftOf(y, c)) \in Nat
  BY CountsFinite
<1>4. /\ IsFiniteSet(WellOf(Tail(e), c)) /\ Cardinality(WellOf(Tail(e), c)) \in Nat
      /\ Cardinality(LeftOf(z, c)) \in Nat
  BY <1>1, CountsFinite
<1>5. r.n \in {0, 1}
  BY <1>1 DEF UrbEnd
<1> HIDE DEF y, z, r
<1>6. Cardinality(LeftOf(z, c)) = Cardinality(LeftOf(y, c)) - 1
  <2>1. PICK L : L = LeftOf(y, c)
    OBVIOUS
  <2>2. IsFiniteSet(L) /\ r.idx \in L
    BY <1>1, <1>3, <2>1
  <2>3. Cardinality(L \ {r.idx}) = Cardinality(L) - 1
    BY <2>2, FS_RemoveElement
  <2>4. QED BY <1>1, <2>1, <2>3
<1>7. Cardinality(WellOf(e, c)) = Cardinality(WellOf(Tail(e), c)) + r.n
  <2>1. CASE r.n = 1
    <3>1. WellOf(e, c) = WellOf(Tail(e), c) \cup {r.idx}
      BY <1>2, <2>1
    <3>2. Cardinality(WellOf(Tail(e), c) \cup {r.idx}) = Cardinality(WellOf(Tail(e), c)) + 1
      BY <1>2, <1>4, FS_AddElement
    <3>3. QED BY <2>1, <3>1, <3>2
  <2>2. CASE r.n = 0
    <3>1. WellOf(e, c) = WellOf(Tail(e), c)
      BY <1>2, <2>2
    <3>2. QED BY <1>4, <2>2, <3>1
  <2>3. QED BY <1>5, <2>1, <2>2
<1>8. QED BY <1>1, <1>3, <1>4, <1>6, <1>7 DEF y, z, r

(* What is counted of the transfer of which a URB is reaped; it is reported*)
(* when no URB is left.                                                    *)
LEMMA ReapCounts ==
  ASSUME SendingSizes, SendingIInv, EvReap, NEW c \in Contexts, c = Head(ended).ctx, Trusted(c)
  PROVE  LET z == Line(pending', ended')
         IN /\ OnceIn(z, c)
            /\ LeftOf(z, c) = LeftOf(Line(pending, ended), c) \ {Head(ended).idx}
            /\ transfer'[c].num_retired + Cardinality(LeftOf(z, c)) = NumUrbs
            /\ transfer'[c].transferred + Cardinality(WellOf(ended', c)) = sent'[c]
            /\ pcEv' = "complete" => LeftOf(z, c) = {}
<1>1. PICK r : r = Head(ended)
  OBVIOUS
<1>2. /\ pcEv = "poll" /\ ended # <<>> /\ r \in UrbEnd /\ Tail(ended) \in Seq(UrbEnd)
      /\ plugged' = plugged
  BY <1>1, ReapEffect
<1>3. InFlight(c) /\ Counted(c) /\ ~Submitting(c)
  BY <1>1, ReapedInFlight
<1>4. /\ pending \in Seq(UrbOut) /\ ended \in Seq(UrbEnd) /\ plugged \in BOOLEAN
      /\ transfer[c].transferred \in Nat /\ transfer[c].num_retired \in Nat /\ sent[c] \in Nat
      /\ sent' \in [Contexts -> Nat]
  <2>1. EvType
    BY DEF SendingIInv
  <2>2. sent' \in [Contexts -> Nat]
    <3>1. PICK complete : complete = IF TearsDown(r) THEN transfer[r.ctx].num_retired + 1 = NumUrbs
                                     ELSE LastUrb(r)
      OBVIOUS
    <3>2. CASE transfer[r.ctx].reap_action = "normal"
      BY <1>1, <3>1, <3>2, NormalEffect
    <3>3. CASE transfer[r.ctx].reap_action # "normal"
      BY <1>1, <2>1, <3>3, AbnormalEffect DEF EvType
    <3>4. QED BY <3>2, <3>3
  <2>3. QED BY <2>1, <2>2 DEF EvType, Transfers
<1> DEFINE y == Line(pending, ended)
           x == Line(pending, Tail(ended))
           z == Line(pending', ended')
<1>5. /\ OnceIn(y, c) /\ \A i \in LeftOf(y, c) : i < NumUrbs
      /\ transfer[c].num_retired + Cardinality(LeftOf(y, c)) = NumUrbs
      /\ transfer[c].transferred + Cardinality(WellOf(ended, c)) = sent[c]
      /\ transfer[c].reap_action = "normal" => InOrder(y, c)
  BY <1>3 DEF Counted, Taken
<1>6. /\ OnceIn(x, c)
      /\ LeftOf(x, c) = LeftOf(y, c) \ {r.idx}
      /\ Cardinality(LeftOf(x, c)) \in Nat
      /\ Cardinality(LeftOf(y, c)) = Cardinality(LeftOf(x, c)) + 1
      /\ Cardinality(WellOf(Tail(ended), c)) \in Nat
      /\ Cardinality(WellOf(ended, c)) = Cardinality(WellOf(Tail(ended), c)) + r.n
  <2>1. /\ pending \in Seq(UrbOut) /\ ended \in Seq(UrbEnd) /\ ended # <<>>
        /\ Head(ended).ctx = c /\ OnceIn(Line(pending, ended), c)
    BY <1>2, <1>4, <1>5
  <2>2. /\ OnceIn(x, c)
        /\ LeftOf(x, c) = LeftOf(y, c) \ {Head(ended).idx}
        /\ Cardinality(LeftOf(x, c)) \in Nat
        /\ Cardinality(LeftOf(y, c)) = Cardinality(LeftOf(x, c)) + 1
        /\ Cardinality(WellOf(Tail(ended), c)) \in Nat
        /\ Cardinality(WellOf(ended, c)) = Cardinality(WellOf(Tail(ended), c)) + Head(ended).n
    BY <2>1, ReapedLine
  <2> HIDE DEF x, y
  <2>3. QED BY <1>1, <2>2
<1>7. /\ transfer'[c].num_retired = transfer[c].num_retired + 1
      /\ transfer'[c].transferred = transfer[c].transferred + r.n
      /\ r.n \in {0, 1}
  <2>1. PICK complete : complete = IF TearsDown(r) THEN transfer[r.ctx].num_retired + 1 = NumUrbs
                                   ELSE LastUrb(r)
    OBVIOUS
  <2>2. r.n \in {0, 1}
    BY <1>2 DEF UrbEnd
  <2>3. QED BY <1>1, <2>1, <2>2, NormalEffect, AbnormalEffect
<1>8. /\ LeftOf(z, c) = LeftOf(x, c) /\ OnceIn(z, c)
      /\ \E s \in {0, 1} :
           /\ sent'[c] = sent[c] + s
           /\ Cardinality(WellOf(ended', c)) = Cardinality(WellOf(Tail(ended), c)) + s
  <2>1. CASE transfer[r.ctx].reap_action = "normal"
    <3>1. PICK complete : complete = IF TearsDown(r) THEN transfer[r.ctx].num_retired + 1 = NumUrbs
                                     ELSE LastUrb(r)
      OBVIOUS
    <3>2. PICK last \in {NumUrbs - 1, -1}, n \in {0, 1} :
            LET d == DiscardUrbs(r.ctx, r.idx + 1, last, n)
            IN /\ pending' = d.rest /\ ended' = Tail(ended) \o d.urbs
               /\ sent'[r.ctx] = sent[r.ctx] + d.sent
      BY <1>1, <2>1, <3>1, NormalEffect
    <3>3. r.idx + 1 \in Int /\ last \in Int /\ n \in {0, 1}
      BY <1>2, <3>2 DEF UrbEnd, Urbs, SendingSizes
    <3>4. DiscardsUrbs(Tail(ended), r.ctx, r.idx + 1, last, n, r.ctx)
      BY <1>2, <1>4, <3>3, DiscardUrbsLine
    <3>5. /\ LeftOf(z, c) = LeftOf(x, c) /\ (OnceIn(x, c) => OnceIn(z, c))
          /\ DiscardUrbs(c, r.idx + 1, last, n).sent \in {0, 1}
          /\ OnceIn(x, c) => Cardinality(WellOf(ended', c))
               = Cardinality(WellOf(Tail(ended), c)) + DiscardUrbs(c, r.idx + 1, last, n).sent
      BY <1>1, <3>2, <3>4 DEF DiscardsUrbs
    <3> HIDE DEF x, z
    <3>6. QED BY <1>1, <1>6, <3>2, <3>5
  <2>2. CASE transfer[r.ctx].reap_action # "normal"
    <3>1. ended' = Tail(ended) /\ pending' = pending /\ sent' = sent
      BY <1>1, <2>2, AbnormalEffect
    <3>2. sent'[c] = sent[c] + 0
         /\ Cardinality(WellOf(ended', c)) = Cardinality(WellOf(Tail(ended), c)) + 0
      BY <1>4, <1>6, <3>1
    <3>3. LeftOf(z, c) = LeftOf(x, c) /\ OnceIn(z, c)
      BY <1>6, <3>1
    <3>4. QED BY <3>2, <3>3
  <2>3. QED BY <2>1, <2>2
<1>9. pcEv' = "complete" =>
        \/ transfer[c].num_retired + 1 = NumUrbs
        \/ transfer[c].reap_action = "normal" /\ LastUrb(r)
  <2>1. PICK complete : complete = IF TearsDown(r) THEN transfer[r.ctx].num_retired + 1 = NumUrbs
                                   ELSE LastUrb(r)
    OBVIOUS
  <2>2. QED BY <1>1, <1>2, <2>1, NormalEffect, AbnormalEffect
<1>10. transfer[c].reap_action = "normal" => \A i \in LeftOf(x, c) : r.idx < i
  BY <1>1, <1>2, <1>4, <1>5, LineShrinks
<1>11. LeftOf(x, c) \in SUBSET Nat /\ IsFiniteSet(LeftOf(x, c))
  BY <1>2, <1>4, CountsFinite
<1> HIDE DEF x, y, z
<1>12. LeftOf(z, c) = LeftOf(y, c) \ {r.idx}
  BY <1>6, <1>8
<1>13. transfer'[c].num_retired + Cardinality(LeftOf(z, c)) = NumUrbs
  <2>1. PICK l \in Nat : l = Cardinality(LeftOf(x, c))
    BY <1>6
  <2>2. Cardinality(LeftOf(z, c)) = l /\ transfer[c].num_retired + (l + 1) = NumUrbs
    BY <1>5, <1>6, <1>8, <2>1
  <2>3. PICK m \in Nat : m = transfer[c].num_retired
    BY <1>4
  <2>4. transfer'[c].num_retired = m + 1 /\ m + (l + 1) = NumUrbs
    BY <1>7, <2>2, <2>3
  <2>5. (m + 1) + l = NumUrbs
    BY <2>4
  <2>6. QED BY <2>2, <2>4, <2>5
<1>14. transfer'[c].transferred + Cardinality(WellOf(ended', c)) = sent'[c]
  <2>1. PICK w \in Nat : w = Cardinality(WellOf(Tail(ended), c))
    BY <1>6
  <2>2. PICK s \in {0, 1} : sent'[c] = sent[c] + s /\ Cardinality(WellOf(ended', c)) = w + s
    BY <1>8, <2>1
  <2>3. transfer[c].transferred + (w + r.n) = sent[c]
    BY <1>5, <1>6, <2>1
  <2>4. PICK m \in Nat, t \in Nat : m = transfer[c].transferred /\ t = sent[c]
    BY <1>4
  <2>5. /\ transfer'[c].transferred = m + r.n /\ r.n \in {0, 1}
        /\ m + (w + r.n) = t /\ sent'[c] = t + s
    BY <1>7, <2>2, <2>3, <2>4
  <2>6. (m + r.n) + (w + s) = t + s
    BY <2>5
  <2>7. QED BY <2>2, <2>5, <2>6
<1>15. pcEv' = "complete" => LeftOf(z, c) = {}
  <2>1. CASE transfer[c].num_retired + 1 = NumUrbs
    <3>1. PICK l \in Nat : l = Cardinality(LeftOf(x, c))
      BY <1>6
    <3>2. transfer[c].num_retired + (l + 1) = NumUrbs
      BY <1>5, <1>6, <3>1
    <3>3. l = 0
      BY <1>4, <2>1, <3>2 DEF SendingSizes
    <3>4. LeftOf(x, c) = {}
      BY <1>11, <3>1, <3>3, FS_EmptySet
    <3>5. QED BY <1>8, <3>4
  <2>2. CASE transfer[c].reap_action = "normal" /\ LastUrb(r)
    <3>1. \A i \in LeftOf(y, c) : i \in Nat /\ i < NumUrbs
      <4>1. LeftOf(y, c) \in SUBSET Nat
        BY <1>4, CountsFinite DEF y
      <4>2. QED BY <1>5, <4>1
    <3>2. \A i \in LeftOf(x, c) : i \in Nat /\ i < NumUrbs /\ NumUrbs - 1 < i
      BY <1>6, <1>10, <2>2, <3>1 DEF LastUrb
    <3>3. LeftOf(x, c) = {}
      BY <3>2 DEF SendingSizes
    <3>4. QED BY <1>8, <3>3
  <2>3. QED BY <1>9, <2>1, <2>2
<1>16. QED
  BY <1>1, <1>8, <1>12, <1>13, <1>14, <1>15 DEF y, z

(* A URB is reaped and the transfer stays in the normal course.            *)
LEMMA ReapInOrder ==
  ASSUME SendingSizes, SendingIInv, EvReap, NEW c \in Contexts, c = Head(ended).ctx,
         Trusted(c), Trusted(c)', transfer'[c].reap_action = "normal", pcEv' # "complete"
  PROVE  LET z == Line(pending', ended')
         IN /\ InOrder(z, c)
            /\ NumUrbs - 1 \in LeftOf(z, c)
            /\ continuation /\ Failed(ended', c) => ~Waits(pending', c)
            /\ transfer'[c].reap_status # "error"
<1>1. PICK r : r = Head(ended)
  OBVIOUS
<1>2. /\ pcEv = "poll" /\ ended # <<>> /\ r \in UrbEnd /\ Tail(ended) \in Seq(UrbEnd)
      /\ plugged' = plugged /\ continuation' = continuation /\ gaveUp' = gaveUp
  BY <1>1, ReapEffect
<1>3. InFlight(c) /\ Counted(c) /\ ~Submitting(c)
  BY <1>1, ReapedInFlight
<1>4. /\ pending \in Seq(UrbOut) /\ ended \in Seq(UrbEnd) /\ plugged \in BOOLEAN
      /\ transfer[c] \in Transfers /\ NumUrbs \in Nat \ {0}
  BY DEF SendingIInv, EvType, SendingSizes
<1>5. PICK complete : complete = IF TearsDown(r) THEN transfer[c].num_retired + 1 = NumUrbs
                                 ELSE LastUrb(r)
  OBVIOUS
<1>6. transfer[c].reap_action = "normal"
  BY <1>1, AbnormalEffect
<1>7. /\ ~complete
      /\ ReapAction(r) = "normal"
      /\ transfer'[c].num_retired = transfer[c].num_retired + 1
      /\ transfer'[c].reap_status = ReapStatus(r, transfer[c].reap_status)
      /\ \E last \in {NumUrbs - 1, -1}, n \in {0, 1} :
           LET d == DiscardUrbs(c, r.idx + 1, last, n)
           IN /\ last = IF TearsDown(r) /\ ~complete THEN NumUrbs - 1 ELSE -1
              /\ pending' = d.rest /\ ended' = Tail(ended) \o d.urbs
  BY <1>1, <1>2, <1>5, <1>6, NormalEffect, ZenonT(60)
<1> DEFINE y == Line(pending, ended)
           x == Line(pending, Tail(ended))
           z == Line(pending', ended')
<1>8. /\ InOrder(y, c) /\ NumUrbs - 1 \in LeftOf(y, c)
      /\ \A i \in LeftOf(y, c) : i < NumUrbs
      /\ EndedEarly(c) => ~Waits(pending, c)
      /\ transfer[c].reap_status # "error"
  BY <1>3, <1>4, <1>6 DEF Counted, Taken, Waits
<1>9. r.status # "error" /\ (TearsDown(r) => r.status \in {"stall", "noDevice"})
  BY <1>7 DEF ReapAction, TearsDown, Fails
<1>10. transfer'[c].reap_status # "error"
  BY <1>7, <1>8, <1>9 DEF ReapStatus
<1>11. /\ OnceIn(z, c) /\ LeftOf(z, c) = LeftOf(y, c) \ {r.idx}
       /\ transfer'[c].num_retired + Cardinality(LeftOf(z, c)) = NumUrbs
  BY <1>1, ReapCounts
<1>12. InOrder(x, c) /\ \A i \in LeftOf(x, c) : r.idx < i
  BY <1>1, <1>2, <1>4, <1>8, LineShrinks
<1>13. PICK last \in {NumUrbs - 1, -1}, n \in {0, 1} :
         LET d == DiscardUrbs(c, r.idx + 1, last, n)
         IN /\ last = IF TearsDown(r) /\ ~complete THEN NumUrbs - 1 ELSE -1
            /\ pending' = d.rest /\ ended' = Tail(ended) \o d.urbs
  BY <1>7
<1> DEFINE none == \A k \in DOMAIN pending :
                     pending[k].ctx = c => ~plugged \/ pending[k].idx \notin r.idx + 1 .. last
<1>14. /\ LeftOf(z, c) = LeftOf(x, c)
       /\ none /\ InOrder(x, c) => InOrder(z, c)
       /\ Waits(pending', c) => Waits(pending, c)
       /\ none /\ Failed(ended', c) => Failed(Tail(ended), c)
  <2>1. r.idx + 1 \in Int /\ last \in Int /\ n \in {0, 1}
    BY <1>2, <1>4, <1>13 DEF UrbEnd, Urbs
  <2>2. DiscardsUrbs(Tail(ended), c, r.idx + 1, last, n, c)
    BY <1>2, <1>4, <2>1, DiscardUrbsLine
  <2>3. /\ LeftOf(z, c) = LeftOf(x, c)
        /\ none /\ InOrder(x, c) => InOrder(z, c)
        /\ \A k \in DOMAIN pending' : \E l \in DOMAIN pending : pending'[k] = pending[l]
        /\ \A k \in DOMAIN ended' : \/ k \in DOMAIN Tail(ended) /\ ended'[k] = Tail(ended)[k]
                                    \/ ended'[k].ctx = c /\ ~none
    BY <1>13, <2>2 DEF DiscardsUrbs
  <2> HIDE DEF x, z, none
  <2>4. QED BY <2>3 DEF Waits, Failed
<1>15. Failed(Tail(ended), c) => Failed(ended, c)
  <2>1. \A k \in DOMAIN Tail(ended) : k + 1 \in DOMAIN ended /\ Tail(ended)[k] = ended[k + 1]
    BY <1>2, <1>4
  <2>2. QED BY <2>1 DEF Failed
<1>16. r.status # "ok" => Failed(ended, c)
  <2>1. 1 \in DOMAIN ended /\ ended[1] = r
    BY <1>1, <1>2, <1>4
  <2>2. QED BY <1>1, <2>1 DEF Failed
<1>17. continuation /\ Failed(ended, c) => ~Waits(pending, c)
  BY <1>8 DEF EndedEarly, Failed
<1>18. r.idx # NumUrbs - 1
  <2>1. CASE ~TearsDown(r)
    BY <1>5, <1>7, <2>1 DEF LastUrb
  <2>2. CASE TearsDown(r)
    <3>1. transfer'[c].num_retired # NumUrbs
      BY <1>5, <1>7, <2>2
    <3>2. LeftOf(z, c) # {}
      <4>1. SUFFICES ASSUME LeftOf(z, c) = {} PROVE FALSE
        OBVIOUS
      <4>2. transfer'[c].num_retired + 0 = NumUrbs
        BY <1>11, <4>1, FS_EmptySet
      <4>3. transfer'[c].num_retired \in Nat
        BY <1>4, <1>7 DEF Transfers
      <4>4. QED BY <3>1, <4>2, <4>3
    <3>3. PICK i : i \in LeftOf(z, c)
      BY <3>2
    <3>4. r.idx < i /\ i < NumUrbs
      BY <1>8, <1>11, <1>12, <1>14, <3>3
    <3>5. LeftOf(z, c) \in SUBSET Nat
      <4>1. LeftOf(y, c) \in SUBSET Nat
        BY <1>4, CountsFinite
      <4>2. QED BY <1>11, <4>1
    <3>6. QED BY <1>4, <3>3, <3>4, <3>5
  <2>3. QED BY <2>1, <2>2
<1>19. NumUrbs - 1 \in LeftOf(z, c)
  BY <1>8, <1>11, <1>18
<1>20. ASSUME none PROVE InOrder(z, c) /\ (continuation /\ Failed(ended', c) => ~Waits(pending', c))
  <2>1. InOrder(z, c)
    BY <1>12, <1>14, <1>20
  <2>2. continuation /\ Failed(ended', c) => ~Waits(pending', c)
    BY <1>14, <1>15, <1>17, <1>20
  <2>3. QED BY <2>1, <2>2
<1>21. CASE ~TearsDown(r) \/ continuation
  <2>1. none
    <3>1. CASE ~TearsDown(r)
      <4>1. last = -1 /\ r.idx \in Nat
        BY <1>2, <1>4, <1>13, <3>1 DEF UrbEnd, Urbs
      <4>2. r.idx + 1 .. last = {}
        BY <4>1
      <4>3. QED BY <4>2
    <3>2. CASE TearsDown(r) /\ continuation
      <4>1. ~Waits(pending, c)
        BY <1>9, <1>16, <1>17, <3>2
      <4>2. QED BY <4>1 DEF Waits
    <3>3. QED BY <1>21, <3>1, <3>2
  <2>2. QED BY <1>10, <1>19, <1>20, <2>1
<1>22. CASE TearsDown(r) /\ ~continuation
  <2>1. Stalled(c)'
    <3>1. transfer[c].reap_status \in {"completed", "stall", "noDevice"}
      BY <1>4, <1>8 DEF Transfers
    <3>2. transfer'[c].reap_status \in {"stall", "noDevice"}
      BY <1>7, <1>9, <1>22, <3>1 DEF ReapStatus
    <3>3. QED BY <3>2 DEF Stalled
  <2>2. NumUrbs <= 2
    BY <1>2, <1>22, <2>1 DEF Trusted, Orderly
  <2>3. \A i \in LeftOf(z, c) : i = NumUrbs - 1
    <3>1. r.idx \in Nat
      BY <1>2, <1>4 DEF UrbEnd, Urbs
    <3>2. LeftOf(y, c) \in SUBSET Nat
      BY <1>4, CountsFinite
    <3>3. \A i \in LeftOf(z, c) : i \in Nat /\ r.idx < i /\ i < NumUrbs
      BY <1>8, <1>11, <1>12, <1>14, <3>2
    <3>4. QED BY <1>4, <2>2, <3>1, <3>3
  <2>4. InOrder(z, c)
    <3>1. \A k \in Of(z, c) : z[k].idx = NumUrbs - 1
      BY <2>3 DEF LeftOf
    <3>2. \A j, k \in Of(z, c) : j = k
      BY <1>11, <3>1 DEF OnceIn
    <3>3. Of(z, c) \in SUBSET Int
      <4>1. pending' \in Seq(UrbOut) /\ ended' \in Seq(UrbEnd)
        BY <1>1, <1>5, <1>6, NormalEffect
      <4>2. DOMAIN z = 1 .. Len(ended') + Len(pending') /\ Len(ended') + Len(pending') \in Int
        BY <4>1, Lined
      <4>3. QED BY <4>2 DEF Of
    <3> HIDE DEF z
    <3>4. \A j, k \in Of(z, c) : ~(j < k)
      BY <3>2, <3>3
    <3>5. QED BY <3>4 DEF InOrder
  <2>5. QED BY <1>10, <1>19, <1>22, <2>4
<1>23. QED BY <1>21, <1>22

(* Reaping a URB keeps the account of its transfer and of the others.        *)
LEMMA ReapAccounted ==
  ASSUME SendingSizes, SendingIInv, EvType', EvReap, NEW c \in Contexts, Accounted(c),
         Trusted(c), Trusted(c)'
  PROVE  Accounted(c)'
<1>1. PICK r : r = Head(ended)
  OBVIOUS
<1>2. /\ pcEv = "poll" /\ ended # <<>> /\ r \in UrbEnd /\ r.ctx \in Contexts
      /\ Tail(ended) \in Seq(UrbEnd) /\ ~Submitting(r.ctx)
      /\ UNCHANGED <<pcTx, at, nextUrb, plugged, continuation>>
  BY <1>1, ReapEffect
<1>3. /\ pending \in Seq(UrbOut) /\ ended \in Seq(UrbEnd) /\ plugged \in BOOLEAN /\ EvType
      /\ NumUrbs \in Nat
  BY DEF SendingIInv, EvType, SendingSizes
<1>4. PICK complete : complete = IF TearsDown(r) THEN transfer[r.ctx].num_retired + 1 = NumUrbs
                                 ELSE LastUrb(r)
  OBVIOUS
<1>5. /\ transfer'[r.ctx].flags = transfer[r.ctx].flags
      /\ \/ pcEv' = "complete" /\ evAt' = r.ctx
         \/ pcEv' = "poll" /\ evAt' = evAt
      /\ Only(r.ctx)
  BY <1>1, <1>2, <1>4, NormalEffect, AbnormalEffect
<1>6. CASE c # r.ctx
  <2>1. Busy(c)' <=> Busy(c)
    BY <1>2, <1>5, <1>6 DEF Busy, Submitting, InFlight, Only
  <2>2. Taken(c)' = Taken(c)
    BY <1>2 DEF Taken, Submitting
  <2>3. SameCounts(c)
    BY <1>5, <1>6 DEF Only, SameCounts
  <2>4. SameLine(c)
    <3> DEFINE y == Line(pending, ended)
               x == Line(pending, Tail(ended))
               z == Line(pending', ended')
    <3>1. /\ LeftOf(x, c) = LeftOf(y, c)
          /\ OnceIn(y, c) => OnceIn(x, c)
          /\ InOrder(y, c) => InOrder(x, c)
      BY <1>1, <1>2, <1>3, <1>6, LineShrinks
    <3>2. WellOf(Tail(ended), c) = WellOf(ended, c)
      <4>1. ended \in Seq(UrbEnd) /\ ended # <<>> /\ Head(ended).ctx # c /\ pending \in Seq(UrbOut)
        BY <1>1, <1>2, <1>3, <1>6
      <4>2. WellOf(ended, c) = WellOf(Tail(ended), c)
              \cup (IF Head(ended).ctx = c /\ Head(ended).n = 1 THEN {Head(ended).idx} ELSE {})
        BY <4>1, WellShrinks
      <4>3. QED BY <4>1, <4>2
    <3>3. Failed(Tail(ended), c) => Failed(ended, c)
      <4>1. \A k \in DOMAIN Tail(ended) : k + 1 \in DOMAIN ended /\ Tail(ended)[k] = ended[k + 1]
        BY <1>2, <1>3
      <4>2. QED BY <4>1 DEF Failed
    <3>4. /\ LeftOf(z, c) = LeftOf(x, c)
          /\ OnceIn(x, c) => OnceIn(z, c)
          /\ InOrder(x, c) => InOrder(z, c)
          /\ WellOf(ended', c) = WellOf(Tail(ended), c)
          /\ Waits(pending', c) => Waits(pending, c)
          /\ Failed(ended', c) => Failed(Tail(ended), c)
      <4>1. CASE transfer[r.ctx].reap_action = "normal"
        <5>1. PICK last \in {NumUrbs - 1, -1}, n \in {0, 1} :
                LET d == DiscardUrbs(r.ctx, r.idx + 1, last, n)
                IN pending' = d.rest /\ ended' = Tail(ended) \o d.urbs
          BY <1>1, <1>4, <4>1, NormalEffect, ZenonT(60)
        <5>2. r.idx + 1 \in Int /\ last \in Int /\ n \in {0, 1}
          BY <1>2, <1>3, <5>1 DEF UrbEnd, Urbs
        <5>3. DiscardsUrbs(Tail(ended), r.ctx, r.idx + 1, last, n, c)
          BY <1>2, <1>3, <5>2, DiscardUrbsLine
        <5>4. /\ LeftOf(z, c) = LeftOf(x, c)
              /\ OnceIn(x, c) => OnceIn(z, c)
              /\ InOrder(x, c) => InOrder(z, c)
              /\ WellOf(ended', c) = WellOf(Tail(ended), c)
              /\ \A k \in DOMAIN pending' : \E l \in DOMAIN pending : pending'[k] = pending[l]
              /\ \A k \in DOMAIN ended' : \/ k \in DOMAIN Tail(ended) /\ ended'[k] = Tail(ended)[k]
                                          \/ ended'[k].ctx = r.ctx
          BY <1>6, <5>1, <5>3 DEF DiscardsUrbs
        <5> HIDE DEF x, z
        <5>5. QED BY <1>6, <5>4 DEF Waits, Failed
      <4>2. CASE transfer[r.ctx].reap_action # "normal"
        <5>1. ended' = Tail(ended) /\ pending' = pending
          BY <1>1, <4>2, AbnormalEffect
        <5>2. QED BY <5>1
      <4>3. QED BY <4>1, <4>2
    <3> HIDE DEF x
    <3>5. QED BY <1>2, <3>1, <3>2, <3>3, <3>4 DEF SameLine
  <2>5. QED BY <1>3, <2>1, <2>2, <2>3, <2>4, AccountedKept
<1>7. CASE c = r.ctx
  <2>1. InFlight(c) /\ ~Submitting(c)
    BY <1>1, <1>7, ReapedInFlight
  <2>2. InFlight(c)' /\ ~Submitting(c)' /\ Taken(c)' = NumUrbs
    BY <1>2, <1>5, <1>7, <2>1 DEF InFlight, Submitting, Taken
  <2>3. LET z == Line(pending', ended')
        IN /\ OnceIn(z, c)
           /\ LeftOf(z, c) = LeftOf(Line(pending, ended), c) \ {Head(ended).idx}
           /\ transfer'[c].num_retired + Cardinality(LeftOf(z, c)) = NumUrbs
           /\ transfer'[c].transferred + Cardinality(WellOf(ended', c)) = sent'[c]
           /\ pcEv' = "complete" => LeftOf(z, c) = {}
    BY <1>1, <1>7, ReapCounts
  <2>4. CASE pcEv' = "complete"
    <3>1. ~Busy(c)'
      BY <1>2, <1>5, <1>7, <2>2, <2>4 DEF Busy
    <3>2. ~Unreaped(c)'
      BY <2>3, <2>4, UnreapedLeftNext
    <3>3. QED BY <3>1, <3>2 DEF Accounted
  <2>5. CASE pcEv' # "complete"
    <3>1. Busy(c)'
      BY <2>2, <2>5 DEF Busy
    <3>2. transfer'[c].reap_action = "normal" =>
            /\ InOrder(Line(pending', ended'), c)
            /\ NumUrbs - 1 \in LeftOf(Line(pending', ended'), c)
            /\ continuation /\ Failed(ended', c) => ~Waits(pending', c)
            /\ transfer'[c].reap_status # "error"
      BY <1>1, <1>7, <2>5, ReapInOrder
    <3>3. EndedEarly(c)' => continuation /\ Failed(ended', c)
      BY <1>2 DEF EndedEarly, Failed
    <3>4. ~Waits(pending', c) => \A k \in DOMAIN pending' : pending'[k].ctx # c
      BY DEF Waits
    <3>5. \A i \in LeftOf(Line(pending', ended'), c) : i < NumUrbs
      <4>1. LeftOf(Line(pending, ended), c) \in SUBSET Urbs
        BY <1>3, CountsFinite
      <4>2. QED BY <1>3, <2>3, <4>1 DEF Urbs
    <3>6. Counted(c)'
      BY <2>2, <2>3, <3>2, <3>3, <3>4, <3>5 DEF Counted
    <3>7. QED BY <3>1, <3>6 DEF Accounted
  <2>6. QED BY <2>4, <2>5
<1>8. QED BY <1>6, <1>7

(* The next URB is given to the kernel.                                    *)
LEMMA UrbAccounted ==
  ASSUME SendingSizes, SendingIInv, EvType', TxUrb, NEW c \in Contexts, Accounted(c)
  PROVE  Accounted(c)'
<1>1. /\ at \in Contexts /\ pcTx = "urbs" /\ nextUrb \in Urbs /\ nextUrb' = nextUrb + 1
      /\ ~EndedEarly(at)
      /\ Urb(at, nextUrb) \in UrbOut /\ pending' = Append(pending, Urb(at, nextUrb))
      /\ UNCHANGED <<pcTx, at, evElse, transfer, sent, ended, continuation>>
  BY UrbEffect
<1>2. pending \in Seq(UrbOut) /\ ended \in Seq(UrbEnd) /\ EvType
  BY DEF SendingIInv, EvType
<1>3. Busy(c)' <=> Busy(c)
  BY <1>1 DEF Busy, Submitting, InFlight, evElse
<1> DEFINE u == Urb(at, nextUrb)
           y == Line(pending, ended)
           z == Line(pending', ended')
<1>4. u.ctx = at /\ u.idx = nextUrb
  BY DEF Urb
<1>5. /\ LeftOf(z, c) = LeftOf(y, c) \cup (IF u.ctx = c THEN {u.idx} ELSE {})
      /\ OnceIn(y, c) /\ (u.ctx = c => u.idx \notin LeftOf(y, c)) => OnceIn(z, c)
      /\ InOrder(y, c) /\ (u.ctx = c => \A i \in LeftOf(y, c) : i < u.idx) => InOrder(z, c)
  BY <1>1, <1>2, LineGrows
<1>6. \A k \in DOMAIN pending' : (k \in DOMAIN pending /\ pending'[k] = pending[k])
                                 \/ pending'[k] = u
  BY <1>1, <1>2
<1>7. CASE c # at
  <2>1. /\ LeftOf(z, c) = LeftOf(y, c) /\ (OnceIn(y, c) => OnceIn(z, c))
        /\ InOrder(y, c) => InOrder(z, c)
    <3> HIDE DEF y, z
    <3>1. QED BY <1>4, <1>5, <1>7
  <2>2. Waits(pending', c) => Waits(pending, c)
    BY <1>4, <1>6, <1>7 DEF Waits
  <2>3. SameLine(c)
    BY <1>1, <2>1, <2>2 DEF SameLine
  <2>4. SameCounts(c) /\ Taken(c)' = Taken(c)
    BY <1>1, <1>7 DEF SameCounts, Taken, Submitting
  <2>5. QED BY <1>2, <1>3, <2>3, <2>4, AccountedKept
<1>8. CASE c = at
  <2>1. Busy(c) /\ Taken(c) = nextUrb /\ Taken(c)' = nextUrb + 1
    BY <1>1, <1>8 DEF Busy, Taken, Submitting
  <2>2. /\ OnceIn(y, c) /\ \A i \in LeftOf(y, c) : i < nextUrb
        /\ transfer[c].num_retired + Cardinality(LeftOf(y, c)) = nextUrb
        /\ transfer[c].transferred + Cardinality(WellOf(ended, c)) = sent[c]
        /\ transfer[c].reap_action = "normal" => InOrder(y, c) /\ transfer[c].reap_status # "error"
    BY <2>1 DEF Accounted, Counted
  <2>3. /\ nextUrb \in Nat /\ LeftOf(y, c) \in SUBSET Nat /\ IsFiniteSet(LeftOf(y, c))
        /\ Cardinality(LeftOf(y, c)) \in Nat
    BY <1>1, <1>2, CountsFinite DEF Urbs
  <2>4. transfer[c].num_retired \in Nat
    BY <1>2 DEF EvType, Transfers
  <2> HIDE DEF y, z, u
  <2>5. nextUrb \notin LeftOf(y, c) /\ LeftOf(z, c) = LeftOf(y, c) \cup {nextUrb}
    BY <1>4, <1>5, <1>8, <2>2, <2>3
  <2>6. OnceIn(z, c) /\ (transfer[c].reap_action = "normal" => InOrder(z, c))
    BY <1>4, <1>5, <2>2, <2>5
  <2>7. Cardinality(LeftOf(z, c)) = Cardinality(LeftOf(y, c)) + 1
    <3>1. PICK L : L = LeftOf(y, c)
      OBVIOUS
    <3>2. Cardinality(L \cup {nextUrb}) = Cardinality(L) + 1
      BY <2>3, <2>5, <3>1, FS_AddElement
    <3>3. QED BY <2>5, <3>1, <3>2
  <2>8. transfer[c].num_retired + Cardinality(LeftOf(z, c)) = nextUrb + 1
    BY <2>2, <2>3, <2>4, <2>7
  <2>9. \A i \in LeftOf(z, c) : i < nextUrb + 1
    BY <2>2, <2>3, <2>5
  <2>10. ~EndedEarly(c)'
    BY <1>1, <1>8 DEF EndedEarly
  <2>11. nextUrb \in LeftOf(z, c)
    BY <2>5
  <2>12. transfer' = transfer /\ sent' = sent /\ ended' = ended
    BY <1>1
  <2>13. Counted(c)'
    <3>1. /\ OnceIn(z, c) /\ \A i \in LeftOf(z, c) : i < Taken(c)'
          /\ transfer'[c].num_retired + Cardinality(LeftOf(z, c)) = Taken(c)'
          /\ transfer'[c].transferred + Cardinality(WellOf(ended', c)) = sent'[c]
          /\ transfer'[c].reap_action = "normal" =>
               /\ InOrder(z, c)
               /\ Taken(c)' > 0 => Taken(c)' - 1 \in LeftOf(z, c)
               /\ EndedEarly(c)' => \A k \in DOMAIN pending' : pending'[k].ctx # c
               /\ transfer'[c].reap_status # "error"
      <4>1. /\ OnceIn(z, c) /\ \A i \in LeftOf(z, c) : i < Taken(c)'
            /\ transfer'[c].num_retired + Cardinality(LeftOf(z, c)) = Taken(c)'
        BY <2>1, <2>6, <2>8, <2>9, <2>12
      <4>2. transfer'[c].transferred + Cardinality(WellOf(ended', c)) = sent'[c]
        BY <2>2, <2>12
      <4>3. Taken(c)' > 0 => Taken(c)' - 1 \in LeftOf(z, c)
        <5>1. Taken(c)' - 1 = nextUrb
          BY <2>1, <2>3
        <5>2. QED BY <2>11, <5>1
      <4>4. /\ transfer'[c].reap_action = "normal" => InOrder(z, c)
            /\ transfer'[c].reap_action = "normal" => transfer'[c].reap_status # "error"
        BY <2>2, <2>6, <2>12
      <4>5. QED BY <2>10, <4>1, <4>2, <4>3, <4>4
    <3>2. QED BY <3>1 DEF Counted, z
  <2>14. QED BY <1>3, <2>1, <2>13 DEF Accounted
<1>9. QED BY <1>7, <1>8

(* The URB whose turn it is ends well.                                     *)
LEMMA SentAccounted ==
  ASSUME SendingSizes, SendingIInv, EvType', UrbSent, NEW c \in Contexts, Accounted(c)
  PROVE  Accounted(c)'
<1>1. PICK u, x : u = Head(pending) /\ x = Ended(u, "ok", 1)
  OBVIOUS
<1>2. /\ pending # <<>> /\ u \in UrbOut /\ x \in UrbEnd /\ x.status = "ok" /\ x.n = 1
      /\ x.ctx = u.ctx /\ x.idx = u.idx
      /\ ended' = Append(ended, x) /\ pending' = Tail(pending)
      /\ sent'[u.ctx] = sent[u.ctx] + 1 /\ Only(u.ctx) /\ transfer' = transfer
      /\ UNCHANGED <<pcTx, at, evElse, nextUrb, continuation>>
  BY <1>1, SentEffect
<1>3. pending \in Seq(UrbOut) /\ ended \in Seq(UrbEnd) /\ EvType
  BY DEF SendingIInv, EvType
<1>4. (Busy(c)' <=> Busy(c)) /\ Taken(c)' = Taken(c)
  BY <1>2 DEF Busy, Submitting, InFlight, Taken, evElse
<1>5. Line(pending', ended') = Line(pending, ended)
  BY <1>1, <1>2, <1>3, LineKept
<1>6. WellOf(ended', c) = WellOf(ended, c) \cup (IF x.ctx = c /\ x.n = 1 THEN {x.idx} ELSE {})
  BY <1>2, <1>3, WellOne
<1>7. Waits(pending', c) => Waits(pending, c)
  <2>1. \A k \in DOMAIN Tail(pending) : k + 1 \in DOMAIN pending /\ Tail(pending)[k] = pending[k + 1]
    BY <1>2, <1>3
  <2>2. QED BY <1>2, <2>1 DEF Waits
<1>8. Failed(ended', c) => Failed(ended, c)
  <2>1. \A k \in DOMAIN ended' : (k \in DOMAIN ended /\ ended'[k] = ended[k]) \/ ended'[k] = x
    BY <1>2, <1>3
  <2>2. QED BY <1>2, <2>1 DEF Failed
<1>9. CASE c # u.ctx
  <2>1. WellOf(ended', c) = WellOf(ended, c)
    BY <1>2, <1>6, <1>9
  <2>2. SameLine(c)
    BY <1>2, <1>5, <1>7, <1>8, <2>1 DEF SameLine
  <2>3. SameCounts(c)
    BY <1>2, <1>9 DEF SameCounts, Only
  <2>4. QED BY <1>3, <1>4, <2>2, <2>3, AccountedKept
<1>10. CASE c = u.ctx
  <2>1. 1 \in DOMAIN pending /\ pending[1] = u
    BY <1>1, <1>2, <1>3
  <2>2. Busy(c) /\ Counted(c)
    BY <1>10, <2>1 DEF Accounted, Unreaped
  <2>3. u.idx \notin WellOf(ended, c)
    <3>1. SUFFICES ASSUME NEW k \in DOMAIN ended, ended[k].ctx = c, ended[k].idx = u.idx PROVE FALSE
      BY DEF WellOf
    <3> DEFINE y == Line(pending, ended)
    <3>2. /\ k \in DOMAIN y /\ y[k].ctx = c /\ y[k].idx = u.idx
          /\ Len(ended) + 1 \in DOMAIN y /\ y[Len(ended) + 1] = u
          /\ k \in 1 .. Len(ended) /\ Len(ended) \in Nat
      <4>1. 1 \in 1 .. Len(pending) /\ k \in 1 .. Len(ended)
        BY <1>3, <2>1
      <4>2. QED BY <1>3, <2>1, <3>1, <4>1, Lined
    <3>3. OnceIn(y, c)
      BY <2>2 DEF Counted
    <3> HIDE DEF y
    <3>4. k = Len(ended) + 1
      BY <1>10, <3>2, <3>3 DEF OnceIn, Of
    <3>5. QED BY <3>2, <3>4
  <2>4. WellOf(ended', c) = WellOf(ended, c) \cup {u.idx}
    BY <1>2, <1>6, <1>10
  <2>5. IsFiniteSet(WellOf(ended, c)) /\ Cardinality(WellOf(ended, c)) \in Nat
    BY <1>3, CountsFinite
  <2>6. Cardinality(WellOf(ended', c)) = Cardinality(WellOf(ended, c)) + 1
    BY <2>3, <2>4, <2>5, FS_AddElement
  <2>7. transfer[c].transferred + Cardinality(WellOf(ended', c)) = sent[c] + 1
    <3>1. transfer[c].transferred \in Nat /\ sent[c] \in Nat
      BY <1>3 DEF EvType, Transfers
    <3>2. transfer[c].transferred + Cardinality(WellOf(ended, c)) = sent[c]
      BY <2>2 DEF Counted
    <3>3. QED BY <2>5, <2>6, <3>1, <3>2
  <2>8. transfer'[c].transferred + Cardinality(WellOf(ended', c)) = sent'[c]
    BY <1>2, <1>10, <2>7
  <2>9. EndedEarly(c)' => EndedEarly(c)
    BY <1>2, <1>8 DEF EndedEarly, Failed
  <2>10. (\A k \in DOMAIN pending : pending[k].ctx # c)
           => \A k \in DOMAIN pending' : pending'[k].ctx # c
    BY <1>7 DEF Waits
  <2>11. Counted(c)'
    <3> DEFINE y == Line(pending, ended)
    <3>1. /\ OnceIn(y, c) /\ \A i \in LeftOf(y, c) : i < Taken(c)'
          /\ transfer'[c].num_retired + Cardinality(LeftOf(y, c)) = Taken(c)'
          /\ transfer'[c].reap_action = "normal" =>
               /\ InOrder(y, c)
               /\ Taken(c)' > 0 => Taken(c)' - 1 \in LeftOf(y, c)
               /\ EndedEarly(c) => \A k \in DOMAIN pending : pending[k].ctx # c
               /\ transfer'[c].reap_status # "error"
      BY <1>2, <1>4, <2>2 DEF Counted
    <3>2. Line(pending', ended') = y
      BY <1>5
    <3> HIDE DEF y
    <3>3. QED BY <2>8, <2>9, <2>10, <3>1, <3>2 DEF Counted
  <2>12. QED BY <1>4, <2>2, <2>11 DEF Accounted
<1>11. QED BY <1>9, <1>10

(* A transfer is submitted anew.                                           *)
LEMMA SubmitAccounted ==
  ASSUME SendingSizes, SendingIInv, EvType', TxSubmit, ~InFlight(at),
         NEW c \in Contexts, Accounted(c)
  PROVE  Accounted(c)'
<1>1. /\ at \in Contexts /\ pcTx = "submit" /\ pcTx' = "urbs" /\ at' = at
      /\ transfer'[at].transferred = 0 /\ transfer'[at].num_retired = 0
      /\ transfer'[at].reap_status = "completed"
      /\ sent'[at] = 0 /\ Only(at)
      /\ UNCHANGED <<evElse, lineElse, nextUrb>>
  BY SubmitEffect
<1>2. EvType /\ nextUrb = 0
  BY <1>1 DEF SendingIInv, NotYetInFlight
<1>3. SameLine(c)
  BY <1>1, SameLineCalm DEF lineElse
<1>4. CASE c # at
  <2>1. Busy(c)' <=> Busy(c)
    BY <1>1, <1>4 DEF Busy, Submitting, InFlight, Only, evElse
  <2>2. SameCounts(c) /\ Taken(c)' = Taken(c)
    BY <1>1, <1>4 DEF SameCounts, Only, Taken, Submitting
  <2>3. QED BY <1>2, <1>3, <2>1, <2>2, AccountedKept
<1>5. CASE c = at
  <2>1. ~Busy(c)
    BY <1>1, <1>5 DEF Busy, Submitting
  <2>2. LeftOf(Line(pending, ended), c) = {} /\ ~Unreaped(c)
    BY <1>2, <2>1, UnreapedLeft DEF Accounted
  <2>3. LeftOf(Line(pending', ended'), c) = {} /\ ~Unreaped(c)'
    <3>1. LeftOf(Line(pending', ended'), c) = {}
      BY <1>3, <2>2 DEF SameLine
    <3>2. QED BY <3>1, UnreapedLeftNext
  <2>4. pending \in Seq(UrbOut) /\ ended \in Seq(UrbEnd)
    BY <1>2 DEF EvType
  <2>5. WellOf(ended', c) = {}
    <3>1. WellOf(ended, c) \in SUBSET LeftOf(Line(pending, ended), c)
      BY <2>4, CountsFinite
    <3>2. QED BY <1>3, <2>2, <3>1 DEF SameLine
  <2>6. Busy(c)' /\ Taken(c)' = 0
    BY <1>1, <1>2, <1>5 DEF Busy, Submitting, Taken
  <2>7. \A k \in DOMAIN pending' : pending'[k].ctx # c
    BY <2>3 DEF Unreaped
  <2>8. Counted(c)'
    <3> DEFINE z == Line(pending', ended')
    <3>1. Of(z, c) = {}
      BY <2>3 DEF LeftOf
    <3>2. LeftOf(z, c) = {}
      BY <2>3
    <3> HIDE DEF z
    <3>3. OnceIn(z, c) /\ InOrder(z, c)
      BY <3>1 DEF OnceIn, InOrder
    <3>4. /\ transfer'[c].num_retired + Cardinality(LeftOf(z, c)) = Taken(c)'
          /\ transfer'[c].transferred + Cardinality(WellOf(ended', c)) = sent'[c]
      BY <1>1, <1>5, <2>5, <2>6, <3>2, FS_EmptySet
    <3>5. /\ \A i \in LeftOf(z, c) : i < Taken(c)'
          /\ ~(Taken(c)' > 0)
          /\ transfer'[c].reap_status # "error"
      BY <1>1, <1>5, <2>6, <3>2
    <3>6. QED BY <2>7, <3>3, <3>4, <3>5 DEF Counted, z
  <2>9. QED BY <2>6, <2>8 DEF Accounted
<1>6. QED BY <1>4, <1>5

(* The kernel takes none of the URBs of a transfer, or not all.            *)
LEMMA UrbRefusedAccounted ==
  ASSUME SendingSizes, SendingIInv, EvType', TxFirstUrbFails \/ TxLaterUrbFails,
         NEW c \in Contexts, Accounted(c)
  PROVE  Accounted(c)'
<1>1. EvType /\ ~InFlight(at) /\ pcTx = "urbs" /\ at \in Contexts /\ Busy(at)
  <2>1. pcTx = "urbs" /\ at \in Contexts
    BY FirstUrbFailsEffect, LaterUrbFailsEffect
  <2>2. QED BY <2>1 DEF SendingIInv, NotYetInFlight, Busy, Submitting
<1>2. CASE TxFirstUrbFails
  <2>1. /\ pcTx' = "loop" /\ nextUrb = 0
        /\ transfer'[at].flags = transfer[at].flags \ {"submitting"} /\ Only(at)
        /\ UNCHANGED <<evElse, lineElse, sent>>
    BY <1>2, FirstUrbFailsEffect
  <2>2. SameLine(c)
    BY <2>1, SameLineCalm DEF lineElse
  <2>3. CASE c # at
    <3>1. Busy(c)' <=> Busy(c)
      BY <2>1, <2>3 DEF Busy, Submitting, InFlight, Only, evElse
    <3>2. SameCounts(c) /\ Taken(c)' = Taken(c)
      BY <2>1, <2>3 DEF SameCounts, Only, Taken, Submitting
    <3>3. QED BY <1>1, <2>2, <3>1, <3>2, AccountedKept
  <2>4. CASE c = at
    <3>1. \A i \in LeftOf(Line(pending, ended), c) : i < 0
      BY <1>1, <2>1, <2>4 DEF Accounted, Counted, Taken, Submitting
    <3>2. LeftOf(Line(pending, ended), c) \in SUBSET Nat
      <4>1. pending \in Seq(UrbOut) /\ ended \in Seq(UrbEnd)
        BY <1>1 DEF EvType
      <4>2. QED BY <4>1, CountsFinite
    <3>3. LeftOf(Line(pending', ended'), c) = {}
      <4>1. LeftOf(Line(pending, ended), c) = {}
        BY <3>1, <3>2
      <4>2. QED BY <2>2, <4>1 DEF SameLine
    <3>4. ~Unreaped(c)'
      BY <3>3, UnreapedLeftNext
    <3>5. ~Busy(c)'
      BY <1>1, <2>1, <2>4 DEF Busy, Submitting, InFlight
    <3>6. QED BY <3>4, <3>5 DEF Accounted
  <2>5. QED BY <2>3, <2>4
<1>3. CASE TxLaterUrbFails
  <2>1. /\ nextUrb \in 1 .. NumUrbs - 1 /\ nextUrb' = NumUrbs
        /\ transfer'[at].flags = transfer[at].flags
        /\ transfer'[at].transferred = transfer[at].transferred
        /\ transfer'[at].num_retired = transfer[at].num_retired + (NumUrbs - nextUrb)
        /\ transfer'[at].reap_action \in {"completedEarly", "submitFailed"}
        /\ Only(at)
        /\ UNCHANGED <<pcTx, at, evElse, continuation>>
    BY <1>3, LaterUrbFailsEffect
  <2>2. PICK last \in Int, n \in {0, 1} :
          LET d == DiscardUrbs(at, 0, last, n)
          IN /\ pending' = d.rest /\ ended' = ended \o d.urbs
             /\ sent'[at] = sent[at] + d.sent
    BY <1>3, LaterUrbFailsEffect
  <2>3. Busy(c)' <=> Busy(c)
    BY <2>1 DEF Busy, Submitting, InFlight, Only, evElse
  <2>4. 0 \in Int /\ last \in Int /\ n \in {0, 1}
    BY <2>2
  <2>5. CASE c # at
    <3>1. SameLine(c)
      BY <1>1, <2>1, <2>2, <2>4, <2>5, SameLineDiscards
    <3>2. SameCounts(c) /\ Taken(c)' = Taken(c)
      BY <2>1, <2>5 DEF SameCounts, Only, Taken, Submitting
    <3>3. QED BY <1>1, <2>3, <3>1, <3>2, AccountedKept
  <2>6. CASE c = at
    <3>1. Taken(at) = nextUrb /\ Taken(at)' = NumUrbs /\ Counted(at)
      BY <1>1, <2>1, <2>6 DEF Taken, Submitting, Accounted
    <3>2. PICK more : more = NumUrbs - nextUrb
      OBVIOUS
    <3>3. /\ more \in Nat /\ Taken(at)' = Taken(at) + more /\ Taken(at) \in Nat
          /\ transfer'[at].num_retired = transfer[at].num_retired + more
          /\ transfer'[at].reap_action # "normal"
      BY <2>1, <3>1, <3>2 DEF SendingSizes
    <3>4. Counted(at)'
      BY <1>1, <2>1, <2>2, <2>4, <3>1, <3>3, CountedDiscards
    <3>5. Counted(c)'
      BY <2>1, <2>6, <3>4 DEF Counted, Taken, Submitting, EndedEarly
    <3>6. QED BY <1>1, <2>3, <2>6, <3>5 DEF Accounted
  <2>7. QED BY <2>5, <2>6
<1>4. QED BY <1>2, <1>3

(* libusb_submit_transfer() returns: the kernel has all the URBs.            *)
LEMMA SubmittedAccounted ==
  ASSUME SendingSizes, SendingIInv, EvType', TxSubmitted, Alive, NEW c \in Contexts, Accounted(c),
         Trusted(c)
  PROVE  Accounted(c)'
<1>1. /\ at \in Contexts /\ pcTx = "urbs" /\ pcTx' = "loop" /\ nextUrb = NumUrbs
      /\ transfer'[at].transferred = transfer[at].transferred
      /\ transfer'[at].num_retired = transfer[at].num_retired
      /\ transfer'[at].reap_action = transfer[at].reap_action
      /\ transfer'[at].reap_status = transfer[at].reap_status
      /\ Only(at)
      /\ "disappeared" \notin transfer[at].flags =>
           transfer'[at].flags = (transfer[at].flags \ {"submitting"}) \cup {"inFlight"}
      /\ UNCHANGED <<evElse, lineElse, sent>>
  BY SubmittedEffect
<1>2. EvType /\ ~InFlight(at) /\ "disappeared" \notin transfer[at].flags
  BY <1>1 DEF SendingIInv, NotYetInFlight
<1>3. SameLine(c)
  BY <1>1, SameLineCalm DEF lineElse
<1>4. SameCounts(c)
  BY <1>1 DEF SameCounts, Only
<1>5. CASE c # at
  <2>1. Busy(c)' <=> Busy(c)
    BY <1>1, <1>5 DEF Busy, Submitting, InFlight, Only, evElse
  <2>2. Taken(c)' = Taken(c)
    BY <1>1, <1>5 DEF Taken, Submitting
  <2>3. QED BY <1>2, <1>3, <1>4, <2>1, <2>2, AccountedKept
<1>6. CASE c = at
  <2>1. ~(pcEv = "complete" /\ evAt = c)
    BY <1>2, <1>6 DEF SendingIInv, ReportedInFlight
  <2>2. Busy(c) /\ Busy(c)'
    BY <1>1, <1>2, <1>6, <2>1 DEF Busy, Submitting, InFlight, evElse
  <2>3. Taken(c)' = Taken(c)
    BY <1>1, <1>6 DEF Taken, Submitting
  <2>4. QED BY <1>2, <1>3, <1>4, <2>2, <2>3, AccountedKept
<1>7. QED BY <1>5, <1>6

(* A transfer is cancelled: its URBs are still to be reaped.                 *)
LEMMA CancelAccounted ==
  ASSUME SendingSizes, SendingIInv, EvType', TxCancel, TakesCancel(at),
         NEW c \in Contexts, Accounted(c)
  PROVE  Accounted(c)'
<1>1. /\ at \in Contexts /\ pcTx = "cancel" /\ pcTx' = "cancel"
      /\ transfer'[at].flags \ {"disappeared"} = (transfer[at].flags \cup {"cancelling"})
                                                    \ {"disappeared"}
      /\ transfer'[at].transferred = transfer[at].transferred
      /\ transfer'[at].num_retired = transfer[at].num_retired
      /\ transfer'[at].reap_status = transfer[at].reap_status
      /\ \/ transfer'[at].reap_action = transfer[at].reap_action
         \/ transfer'[at].reap_action = "cancelled"
      /\ Only(at)
      /\ UNCHANGED <<evElse, continuation, nextUrb>>
  BY CancelEffect DEF evElse
<1>2. /\ EvType /\ pending \in Seq(UrbOut) /\ ended \in Seq(UrbEnd) /\ plugged \in BOOLEAN
      /\ NumUrbs \in Nat \ {0}
  BY DEF SendingIInv, EvType, SendingSizes
<1>3. \A a \in Contexts : "inFlight" \in transfer'[a].flags <=> "inFlight" \in transfer[a].flags
  <2>1. "inFlight" \in transfer'[at].flags \ {"disappeared"} <=> "inFlight" \in transfer[at].flags
    BY <1>1
  <2>2. QED BY <1>1, <2>1 DEF Only
<1>4. (Busy(c)' <=> Busy(c)) /\ Taken(c)' = Taken(c) /\ Taken(c) = NumUrbs
  BY <1>1, <1>3 DEF Busy, Submitting, InFlight, Taken, evElse
<1>5. CASE pending' = pending /\ ended' = ended /\ sent'[at] = sent[at]
  <2>1. SameLine(c)
    BY <1>1, <1>5, SameLineCalm
  <2>2. SameCounts(c)
    BY <1>1, <1>5 DEF SameCounts, Only
  <2>3. QED BY <1>2, <1>4, <2>1, <2>2, AccountedKept
<1>6. ASSUME NEW n \in {0, 1},
             pending' = DiscardUrbs(at, 0, NumUrbs - 1, n).rest,
             ended' = ended \o DiscardUrbs(at, 0, NumUrbs - 1, n).urbs,
             sent'[at] = sent[at] + DiscardUrbs(at, 0, NumUrbs - 1, n).sent,
             \/ transfer'[at].reap_action # "normal"
             \/ ~plugged
             \/ ~IsPending(at, NumUrbs - 1)
      PROVE  Accounted(c)'
  <2> DEFINE none == \A k \in DOMAIN pending :
                pending[k].ctx = at => ~plugged \/ pending[k].idx \notin 0 .. NumUrbs - 1
  <2>1. 0 \in Int /\ NumUrbs - 1 \in Int /\ n \in {0, 1}
    BY <1>2
  <2>2. CASE c # at \/ none
    <3>1. SameLine(c)
      BY <1>1, <1>2, <1>6, <2>1, <2>2, SameLineDiscards
    <3>2. sent'[c] = sent[c]
      <4>1. CASE c # at
        BY <1>1, <4>1 DEF Only
      <4>2. CASE c = at
        <5>1. DiscardsUrbs(ended, at, 0, NumUrbs - 1, n, at)
          BY <1>2, <2>1, DiscardUrbsLine
        <5>2. DiscardUrbs(at, 0, NumUrbs - 1, n).sent = 0
          BY <2>2, <4>2, <5>1 DEF DiscardsUrbs
        <5>3. sent[at] \in Nat
          BY <1>1, <1>2 DEF EvType
        <5>4. QED BY <1>6, <4>2, <5>2, <5>3
      <4>3. QED BY <4>1, <4>2
    <3>3. SameCounts(c)
      BY <1>1, <3>2 DEF SameCounts, Only
    <3>4. QED BY <1>2, <1>4, <3>1, <3>3, AccountedKept
  <2>3. CASE c = at /\ ~none
    <3>1. Unreaped(at) /\ plugged
      BY <2>3 DEF Unreaped
    <3>2. Busy(at) /\ Counted(at)
      BY <2>3, <3>1 DEF Accounted
    <3>3. transfer'[at].reap_action # "normal"
      <4>1. SUFFICES ASSUME transfer'[at].reap_action = "normal" PROVE FALSE
        OBVIOUS
      <4>2. ~IsPending(at, NumUrbs - 1) /\ transfer[at].reap_action = "normal"
        BY <1>1, <1>6, <3>1, <4>1
      <4> DEFINE y == Line(pending, ended)
      <4>3. InOrder(y, at) /\ NumUrbs - 1 \in LeftOf(y, at)
        BY <1>2, <1>4, <2>3, <3>2, <4>2 DEF Counted
      <4>4. PICK k \in DOMAIN y : y[k].ctx = at /\ y[k].idx = NumUrbs - 1
        BY <4>3 DEF LeftOf, Of
      <4>5. PICK j \in DOMAIN pending : pending[j].ctx = at
        BY <2>3
      <4>6. /\ j \in 1 .. Len(pending) /\ pending[j] \in UrbOut
            /\ Len(ended) + j \in DOMAIN y /\ y[Len(ended) + j] = pending[j]
            /\ Len(ended) \in Nat /\ DOMAIN ended = 1 .. Len(ended)
            /\ DOMAIN pending = 1 .. Len(pending)
        BY <1>2, <4>5, Lined
      <4>7. CASE k \in 1 .. Len(ended)
        <5>1. k < Len(ended) + j
          BY <4>6, <4>7
        <5>2. y[k].idx < y[Len(ended) + j].idx
          <6> HIDE DEF y
          <6>1. k \in Of(y, at) /\ Len(ended) + j \in Of(y, at)
            BY <4>4, <4>5, <4>6 DEF Of
          <6>2. QED BY <4>3, <5>1, <6>1 DEF InOrder
        <5>3. NumUrbs - 1 < pending[j].idx /\ pending[j].idx \in 0 .. NumUrbs - 1
          <6> HIDE DEF y
          <6>1. QED BY <4>4, <4>6, <5>2 DEF UrbOut, Urbs
        <5>4. QED BY <1>2, <5>3
      <4>8. CASE k \notin 1 .. Len(ended)
        <5>1. k - Len(ended) \in 1 .. Len(pending) /\ k = Len(ended) + (k - Len(ended))
          BY <1>2, <4>8, Lined
        <5>2. pending[k - Len(ended)] \in UrbOut /\ y[k] = pending[k - Len(ended)]
          <6>1. y[Len(ended) + (k - Len(ended))] = pending[k - Len(ended)]
            BY <1>2, <5>1, Lined
          <6>2. pending[k - Len(ended)] \in UrbOut
            BY <1>2, <5>1
          <6> HIDE DEF y
          <6>3. QED BY <5>1, <6>1, <6>2
        <5>3. pending[k - Len(ended)] = Urb(at, NumUrbs - 1)
          <6> HIDE DEF y
          <6>1. QED BY <4>4, <5>2 DEF UrbOut, Urb
        <5>4. QED BY <4>2, <4>6, <5>1, <5>3 DEF IsPending
      <4>9. QED BY <4>7, <4>8
    <3>4. Taken(at)' = Taken(at) + 0 /\ Taken(at) \in Nat /\ Taken(at)' = Taken(c)'
      BY <1>1, <1>2, <1>4, <2>3 DEF Taken, Submitting
    <3>5. /\ transfer'[at].num_retired = transfer[at].num_retired + 0 /\ 0 \in Nat
          /\ transfer'[at].transferred = transfer[at].transferred
      <4>1. transfer[at].num_retired \in Nat
        BY <1>1, <1>2 DEF EvType, Transfers
      <4>2. transfer'[at].num_retired = transfer[at].num_retired
        BY <1>1
      <4>3. QED BY <1>1, <4>1, <4>2
    <3>6. \A a \in Contexts : a = at /\ Taken(a)' = NumUrbs => Counted(a)'
      <4>1. SUFFICES ASSUME NEW a \in Contexts, a = at, Taken(a)' = NumUrbs PROVE Counted(a)'
        OBVIOUS
      <4>2. /\ Counted(a) /\ Taken(a)' = Taken(a) + 0 /\ Taken(a) \in Nat
            /\ transfer'[a].num_retired = transfer[a].num_retired + 0
            /\ transfer'[a].transferred = transfer[a].transferred
            /\ transfer'[a].reap_action # "normal" /\ 0 \in Nat /\ NumUrbs - 1 \in Int
        BY <1>1, <1>2, <1>4, <2>1, <2>3, <3>2, <3>3, <3>4, <3>5, <4>1
      <4>3. /\ pending' = DiscardUrbs(a, 0, NumUrbs - 1, n).rest
            /\ ended' = ended \o DiscardUrbs(a, 0, NumUrbs - 1, n).urbs
            /\ sent'[a] = sent[a] + DiscardUrbs(a, 0, NumUrbs - 1, n).sent
        BY <1>6, <4>1
      <4>4. QED BY <1>2, <4>2, <4>3, CountedDiscards
    <3>7. QED BY <1>4, <2>3, <3>2, <3>6 DEF Accounted
  <2>4. QED BY <2>2, <2>3
<1>7. QED BY <1>5, <1>6, CancelEffect

(* Every step keeps the account.                                             *)
LEMMA UrbsCountedKept ==
  ASSUME SendingSizes, SendingIInv, BeginFindsContext, [SendingNext]_sendingVars
  PROVE  UrbsCounted'
<1>1. SUFFICES ASSUME Alive', NEW c \in Contexts, Trusted(c)' PROVE Accounted(c)'
  BY DEF UrbsCounted, Accounted
<1>2. Trusted(c) /\ EvType' /\ EvType /\ NotYetInFlight
  BY <1>1, TrustLost, EvTypeKept DEF SendingIInv
<1>3. Alive => Accounted(c)
  BY <1>2 DEF SendingIInv, UrbsCounted, Accounted
<1> USE DEF txElse, evElse, lineElse
<1>4. ASSUME UNCHANGED <<pending, ended, continuation, transfer, sent, evElse, nextUrb>>,
             Submitting(c)' <=> Submitting(c)
      PROVE  Accounted(c)'
  <2>1. Accounted(c)
    BY <1>1, <1>3, <1>4 DEF Alive
  <2>2. SameLine(c) /\ SameCounts(c)
    BY <1>4, SameLineCalm DEF SameCounts
  <2>3. (Busy(c)' <=> Busy(c)) /\ Taken(c)' = Taken(c)
    BY <1>4 DEF Busy, InFlight, Taken
  <2>4. QED BY <1>2, <2>1, <2>2, <2>3, AccountedKept
<1>5. CASE Quiet
  BY <1>4, <1>5 DEF Quiet, Submitting
<1>6. CASE TxFinish
  BY <1>4, <1>6, FinishEffect DEF Submitting
<1>7. CASE TxBegin
  <2>1. Free # {}
    BY <1>7 DEF TxBegin, BeginFindsContext
  <2>2. /\ pcTx = "begin" /\ pcTx' = "submit"
        /\ UNCHANGED <<pending, ended, continuation, transfer, sent, evElse, nextUrb>>
    BY <1>7, <2>1, BeginEffect
  <2>3. QED BY <1>4, <2>2 DEF Submitting
<1>8. CASE TxSubmit
  <2>1. CASE InFlight(at)
    BY <1>4, <1>8, <2>1, RefusedEffect DEF Submitting
  <2>2. CASE ~InFlight(at)
    <3>1. Accounted(c)
      BY <1>1, <1>3, <1>8, <2>2, SubmitEffect DEF Alive
    <3>2. QED BY <1>2, <1>8, <2>2, <3>1, SubmitAccounted
  <2>3. QED BY <2>1, <2>2
<1>9. CASE TxUrb
  <2>1. Accounted(c)
    BY <1>1, <1>3, <1>9, UrbEffect DEF Alive
  <2>2. QED BY <1>2, <1>9, <2>1, UrbAccounted
<1>10. CASE TxFirstUrbFails \/ TxLaterUrbFails
  <2>1. Accounted(c)
    BY <1>1, <1>3, <1>10, FirstUrbFailsEffect, LaterUrbFailsEffect DEF Alive
  <2>2. QED BY <1>2, <1>10, <2>1, UrbRefusedAccounted
<1>11. CASE TxSubmitted
  <2>1. Accounted(c) /\ Alive
    BY <1>1, <1>3, <1>11, SubmittedEffect DEF Alive
  <2>2. QED BY <1>2, <1>11, <2>1, SubmittedAccounted
<1>12. CASE TxCancel /\ TakesCancel(at)
  <2>1. Accounted(c)
    BY <1>1, <1>3, <1>12, CancelEffect DEF Alive
  <2>2. QED BY <1>2, <1>12, <2>1, CancelAccounted
<1>13. CASE TxDrain
  BY <1>4, <1>13, DrainEffect DEF Submitting
<1>14. CASE EvReap
  <2>1. PICK r : r = Head(ended)
    OBVIOUS
  <2>2. Accounted(c)
    BY <1>3, <1>14, <2>1, ReapEffect
  <2>3. QED BY <1>1, <1>2, <1>14, <2>2, ReapAccounted
<1>15. CASE EvPollErr \/ EvLastReaped \/ Unplug
  <2>1. /\ UNCHANGED <<pending, ended, continuation, transfer, sent, nextUrb, pcTx, at, pcEv, evAt>>
        /\ Alive
    BY <1>1, <1>15, LossEffect
  <2>2. SameLine(c) /\ SameCounts(c)
    BY <2>1, SameLineCalm DEF SameCounts
  <2>3. (Busy(c)' <=> Busy(c)) /\ Taken(c)' = Taken(c)
    BY <2>1 DEF Busy, InFlight, Taken, Submitting
  <2>4. QED BY <1>2, <1>3, <2>1, <2>2, <2>3, AccountedKept
<1>16. CASE EvDisconnect
  BY <1>1, <1>16, DisconnectEffect DEF Alive
<1>17. CASE EvComplete
  <2>1. /\ pcEv = "complete" /\ pcEv' = "callback" /\ evAt \in Contexts
        /\ transfer'[evAt].flags = (transfer[evAt].flags \ {"inFlight"}) \cup {"completed"}
        /\ transfer'[evAt].transferred = transfer[evAt].transferred
        /\ transfer'[evAt].num_retired = transfer[evAt].num_retired
        /\ transfer'[evAt].reap_action = transfer[evAt].reap_action
        /\ transfer'[evAt].reap_status = transfer[evAt].reap_status
        /\ Only(evAt)
        /\ UNCHANGED <<pcTx, at, lineElse, nextUrb, evAt, polled, sent>>
    BY <1>17, CompleteEffect
  <2>2. Accounted(c)
    BY <1>1, <1>3, <2>1 DEF Alive
  <2>3. SameLine(c) /\ SameCounts(c) /\ Taken(c)' = Taken(c)
    BY <2>1, SameLineCalm DEF SameCounts, Only, Taken, Submitting
  <2>4. Busy(c)' <=> Busy(c)
    <3>1. CASE c # evAt
      BY <2>1, <3>1 DEF Busy, Submitting, InFlight, Only
    <3>2. CASE c = evAt
      <4>1. InFlight(c)
        BY <1>1, <1>2, <2>1, <3>2 DEF SendingIInv, ReportedInFlight, Alive
      <4>2. ~Submitting(c)
        BY <1>2, <4>1 DEF NotYetInFlight, Submitting
      <4>3. QED BY <2>1, <3>2, <4>1, <4>2 DEF Busy, Submitting, InFlight
    <3>3. QED BY <3>1, <3>2
  <2>5. QED BY <1>2, <2>2, <2>3, <2>4, AccountedKept
<1>18. CASE EvCallback
  <2>1. /\ pcEv = "callback" /\ pcEv' = "poll"
        /\ UNCHANGED <<pcTx, at, lineElse, nextUrb, polled, transfer, sent>>
    BY <1>18, CallbackEffect
  <2>2. Accounted(c)
    BY <1>1, <1>3, <2>1 DEF Alive
  <2>3. SameLine(c) /\ SameCounts(c)
    BY <2>1, SameLineCalm DEF SameCounts
  <2>4. (Busy(c)' <=> Busy(c)) /\ Taken(c)' = Taken(c)
    BY <2>1 DEF Busy, Submitting, InFlight, Taken
  <2>5. QED BY <1>2, <2>2, <2>3, <2>4, AccountedKept
<1>19. CASE UrbSent
  <2>1. Accounted(c)
    BY <1>1, <1>3, <1>19, SentEffect DEF Alive
  <2>2. QED BY <1>2, <1>19, <2>1, SentAccounted
<1>20. CASE UrbFails \/ UrbLost
  <2>1. /\ \A k \in DOMAIN pending' : \E l \in DOMAIN pending : pending'[k] = pending[l]
        /\ continuation => \A k \in DOMAIN pending' : pending'[k].ctx # Head(pending).ctx
        /\ LeftOf(Line(pending', ended'), c) = LeftOf(Line(pending, ended), c)
        /\ OnceIn(Line(pending, ended), c) => OnceIn(Line(pending', ended'), c)
        /\ InOrder(Line(pending, ended), c) => InOrder(Line(pending', ended'), c)
        /\ WellOf(ended', c) = WellOf(ended, c)
        /\ \A k \in DOMAIN ended' : \/ k \in DOMAIN ended /\ ended'[k] = ended[k]
                                    \/ ended'[k].ctx = Head(pending).ctx
        /\ UNCHANGED <<pcTx, at, evElse, nextUrb, continuation, sent, transfer>>
    BY <1>20, EndEffect
  <2>2. SameLine(c)
    <3>1. Waits(pending', c) => Waits(pending, c)
      BY <2>1 DEF Waits
    <3>2. continuation /\ Failed(ended', c) => Failed(ended, c) \/ ~Waits(pending', c)
      BY <2>1 DEF Waits, Failed
    <3>3. QED BY <2>1, <3>1, <3>2 DEF SameLine
  <2>3. Accounted(c)
    BY <1>1, <1>3, <2>1 DEF Alive
  <2>4. SameCounts(c) /\ (Busy(c)' <=> Busy(c)) /\ Taken(c)' = Taken(c)
    BY <2>1 DEF SameCounts, Busy, Submitting, InFlight, Taken
  <2>5. QED BY <1>2, <2>2, <2>3, <2>4, AccountedKept
<1>21. QED
  BY <1>5, <1>6, <1>7, <1>8, <1>9, <1>10, <1>11, <1>12, <1>13, <1>14, <1>15, <1>16, <1>17,
     <1>18, <1>19, <1>20, QuietSteps DEF SendingNext, TxNext, EvNext

-----------------------------------------------------------------------------
(* FinishIsDone and Troubles.                                                *)

(* The transmit thread finishes the context it has found to be done.         *)
LEMMA FinishIsDoneKept ==
  ASSUME SendingSizes, SendingIInv, BeginFindsContext, [SendingNext]_sendingVars
  PROVE  FinishIsDone'
<1>1. SUFFICES ASSUME pcTx' = "finish" PROVE done'[handles'[bi']]
  BY DEF FinishIsDone
<1>2. FinishIsDone /\ EvType /\ (pcTx = "finish" => handles[bi] # NoHandle /\ bi \in Buffers)
  BY DEF SendingIInv, LoansIInv, Loans, TxType
<1>3. ASSUME pcTx' = pcTx, UNCHANGED <<bi, handles, done>> PROVE done'[handles'[bi']]
  BY <1>1, <1>2, <1>3 DEF FinishIsDone
<1> USE DEF txElse, evElse, lineElse, txVars, ctxVars
<1>4. CASE TxWaited
  BY <1>4 DEF TxWaited, IsDone
<1>5. CASE TxTurn \/ TxTimeout \/ TxFill \/ TxEnd \/ TxStart \/ TxCancelled
  BY <1>1, <1>5 DEF TxTurn, TxTimeout, TxFill, TxEnd, TxStart, TxCancelled
<1>6. CASE TxCancel
  BY <1>1, <1>6 DEF TxCancel
<1>7. CASE Terminate \/ UNCHANGED sendingVars
  BY <1>3, <1>7 DEF Terminate, sendingVars
<1>8. CASE TxFinish \/ TxDrain
  BY <1>1, <1>8, FinishEffect, DrainEffect
<1>9. CASE TxBegin
  <2>1. Free # {}
    BY <1>9 DEF TxBegin, BeginFindsContext
  <2>2. QED BY <1>1, <1>9, <2>1, BeginEffect
<1>10. CASE TxSubmit
  BY <1>1, <1>10, RefusedEffect, SubmitEffect
<1>11. CASE TxUrb \/ TxLaterUrbFails
  <2>1. pcTx = "urbs" /\ pcTx' = pcTx
    BY <1>11, UrbEffect, LaterUrbFailsEffect
  <2>2. QED BY <1>1, <2>1
<1>12. CASE TxFirstUrbFails \/ TxSubmitted
  BY <1>1, <1>12, FirstUrbFailsEffect, SubmittedEffect
<1>13. CASE EvReap
  <2>1. PICK r : r = Head(ended)
    OBVIOUS
  <2>2. UNCHANGED <<pcTx, bi, handles, done>>
    BY <1>13, <2>1, ReapEffect
  <2>3. QED BY <1>3, <2>2
<1>14. CASE EvPollErr \/ EvLastReaped \/ Unplug
  BY <1>3, <1>14, LossEffect
<1>15. CASE EvDisconnect
  BY <1>3, <1>15, DisconnectEffect
<1>16. CASE EvComplete
  BY <1>3, <1>16, CompleteEffect
<1>17. CASE EvCallback
  <2>1. /\ UNCHANGED <<pcTx, bi, handles>> /\ evAt \in Contexts
        /\ done' = done \/ done' = [done EXCEPT ![evAt] = TRUE]
    BY <1>17, CallbackEffect
  <2>2. done[handles[bi]]
    BY <1>1, <1>2, <2>1 DEF FinishIsDone
  <2>3. handles[bi] \in Contexts
    BY <1>1, <1>2, <2>1 DEF SendingIInv, LoansIInv, TxType
  <2>4. QED BY <1>2, <2>1, <2>2, <2>3 DEF EvType
<1>18. CASE UrbSent
  BY <1>3, <1>18, SentEffect
<1>19. CASE UrbFails \/ UrbLost
  BY <1>3, <1>19, EndEffect
<1>20. QED
  BY <1>4, <1>5, <1>6, <1>7, <1>8, <1>9, <1>10, <1>11, <1>12, <1>13, <1>14, <1>15, <1>16,
     <1>17, <1>18, <1>19 DEF SendingNext, TxNext, EvNext

(* The steps that only move on leave the handles of the buffers in use       *)
(* alone.                                                                    *)
LEMMA QuietBuffers ==
  ASSUME \/ TxTurn \/ TxWaited \/ TxTimeout \/ TxFill \/ TxCancelled \/ TxEnd \/ TxStart
         \/ TxCancel /\ ~TakesCancel(at)
         \/ Terminate \/ UNCHANGED sendingVars
  PROVE  \A b \in Buffers : bufferUsed'[b] => bufferUsed[b] /\ handles'[b] = handles[b]
<1>1. CASE TxEnd
  BY <1>1 DEF TxEnd
<1>2. CASE ~TxEnd
  <2>1. UNCHANGED <<handles, bufferUsed>>
    BY <1>2 DEF TxTurn, TxWaited, TxTimeout, TxFill, TxCancelled, TxStart, TxCancel, Terminate,
                sendingVars, txVars
  <2>2. QED BY <2>1
<1>3. QED BY <1>1, <1>2

(* What ends after the URBs of e has not stalled and has not lost its      *)
(* device, or there is trouble.                                            *)
EndsCalmly(e) ==
  \A k \in DOMAIN ended' : \/ k \in DOMAIN e /\ ended'[k] = e[k]
                           \/ ended'[k].status \in {"stall", "noDevice"} => trouble'

(* Discarded URBs have neither stalled nor lost the device,                  *)
LEMMA DiscardsCalmly ==
  ASSUME SendingSizes, EvType, NEW e \in Seq(UrbEnd), NEW a, NEW first \in Int, NEW last \in Int,
         NEW n \in {0, 1}, ended' = e \o DiscardUrbs(a, first, last, n).urbs
  PROVE  EndsCalmly(e)
<1>1. pending \in Seq(UrbOut) /\ plugged \in BOOLEAN
  BY DEF EvType
<1>2. DiscardsUrbs(e, a, first, last, n, a)
  BY <1>1, DiscardUrbsLine
<1>3. \A k \in DOMAIN ended' : \/ k \in DOMAIN e /\ ended'[k] = e[k]
                               \/ ended'[k].status = "cancelled"
  BY <1>2 DEF DiscardsUrbs
<1>4. QED BY <1>3 DEF EndsCalmly

(* ... and nor has the rest of the line when one is reaped.                  *)
LEMMA ReapsCalmly ==
  ASSUME SendingSizes, SendingIInv, EvReap
  PROVE  EndsCalmly(Tail(ended))
<1>1. PICK r : r = Head(ended)
  OBVIOUS
<1>2. r \in UrbEnd /\ Tail(ended) \in Seq(UrbEnd) /\ EvType /\ NumUrbs \in Nat
  BY <1>1, ReapEffect DEF SendingIInv, SendingSizes
<1>3. PICK complete : complete = IF TearsDown(r) THEN transfer[r.ctx].num_retired + 1 = NumUrbs
                                 ELSE LastUrb(r)
  OBVIOUS
<1>4. CASE transfer[r.ctx].reap_action = "normal"
  <2>1. PICK last \in {NumUrbs - 1, -1}, n \in {0, 1} :
          ended' = Tail(ended) \o DiscardUrbs(r.ctx, r.idx + 1, last, n).urbs
    BY <1>1, <1>3, <1>4, NormalEffect
  <2>2. r.idx + 1 \in Int /\ last \in Int /\ n \in {0, 1}
    BY <1>2, <2>1 DEF UrbEnd, Urbs
  <2>3. QED BY <1>2, <2>1, <2>2, DiscardsCalmly
<1>5. CASE transfer[r.ctx].reap_action # "normal"
  BY <1>1, <1>5, AbnormalEffect DEF EndsCalmly
<1>6. QED BY <1>4, <1>5

(* What explains an unfinished transfer is trouble, and stays so.            *)
LEMMA TroublesKept ==
  ASSUME SendingSizes, SendingIInv, BeginFindsContext, [SendingNext]_sendingVars
  PROVE  Troubles'
<1>1. /\ Troubles /\ EvType /\ plugged \in BOOLEAN /\ ended \in Seq(UrbEnd)
      /\ handles \in [Buffers -> Contexts \cup {NoHandle}]
      /\ bufferUsed \in [Buffers -> BOOLEAN]
  BY DEF SendingIInv, EvType, LoansIInv, TxType
<1>2. gaveUp => gaveUp'
  BY TrustLost
<1> DEFINE Lost(c) == Stalled(c) \/ "disappeared" \in transfer[c].flags
           Ill == pcEv # "poll" /\ ~Finishes(evStatus)
           Vain(b) == bufferUsed[b] /\ handles[b] = NoHandle
           LineSame == \A k \in DOMAIN ended' : \/ k \in DOMAIN ended /\ ended'[k] = ended[k]
                                                \/ ended'[k].status \in {"stall", "noDevice"} => trouble'
           LostSame == \A c \in Contexts : Lost(c)' => Lost(c) \/ trouble'
           IllSame == Ill' => Ill \/ trouble'
           VainSame == \A b \in Buffers : ~gaveUp' /\ Vain(b)' => Vain(b) \/ trouble'
           Plugs == UNCHANGED <<plugged, polled>>
<1>3. ASSUME trouble => trouble', Plugs \/ (trouble' /\ ~plugged'),
             LineSame, LostSame, IllSame, VainSame
      PROVE  Troubles'
  <2>1. /\ ~plugged' \/ polled' # "yes" => trouble'
        /\ polled' # "yes" => ~plugged'
    BY <1>1, <1>3 DEF Troubles
  <2>2. \A k \in DOMAIN ended' : ended'[k].status \in {"stall", "noDevice"} => trouble'
    BY <1>1, <1>3 DEF Troubles
  <2>3. \A c \in Contexts : Lost(c)' => trouble'
    BY <1>1, <1>3 DEF Troubles
  <2>4. Ill' => trouble'
    BY <1>1, <1>3 DEF Troubles
  <2>5. ~gaveUp' => \A b \in Buffers : Vain(b)' => trouble'
    BY <1>1, <1>2, <1>3 DEF Troubles
  <2>6. QED BY <2>1, <2>2, <2>3, <2>4, <2>5 DEF Troubles
<1>4. ended' = ended => LineSame
  OBVIOUS
<1>5. transfer' = transfer => LostSame
  BY DEF Stalled
<1>6. UNCHANGED <<pcEv, evStatus>> => IllSame
  BY DEF Finishes
<1>7. UNCHANGED <<handles, bufferUsed>> => VainSame
  OBVIOUS
<1>8. trouble' => LineSame /\ LostSame /\ IllSame /\ VainSame
  OBVIOUS
<1>9. ASSUME NEW a, Only(a), Lost(a)' => Lost(a) \/ trouble' PROVE LostSame
  BY <1>9 DEF Only, Stalled
<1> HIDE DEF LostSame, IllSame, VainSame, LineSame, Plugs
<1> USE DEF txElse, evElse, lineElse
<1>10. ASSUME \/ TxTurn \/ TxWaited \/ TxTimeout \/ TxFill \/ TxCancelled \/ TxEnd \/ TxStart
              \/ TxCancel /\ ~TakesCancel(at)
              \/ Terminate \/ UNCHANGED sendingVars
       PROVE  Troubles'
  <2>1. UNCHANGED <<transfer, ended, pcEv, evStatus, polled, plugged, trouble>>
    BY <1>10, QuietSteps DEF Quiet
  <2>2. VainSame
    <3>1. \A b \in Buffers : bufferUsed'[b] => bufferUsed[b] /\ handles'[b] = handles[b]
      BY <1>10, QuietBuffers
    <3>2. QED BY <3>1 DEF VainSame
  <2>3. QED BY <1>3, <1>4, <1>5, <1>6, <2>1, <2>2 DEF Plugs
<1>11. CASE TxFinish
  <2>1. /\ bufferUsed' = [bufferUsed EXCEPT ![bi] = FALSE]
        /\ UNCHANGED <<handles, transfer, ended, pcEv, evStatus, polled, plugged, trouble>>
    BY <1>11, FinishEffect
  <2>2. VainSame
    BY <1>1, <2>1 DEF VainSame
  <2>3. QED BY <1>3, <1>4, <1>5, <1>6, <2>1, <2>2 DEF Plugs
<1>12. CASE TxBegin
  <2>1. Free # {}
    BY <1>12 DEF TxBegin, BeginFindsContext
  <2>2. UNCHANGED <<handles, bufferUsed, transfer, ended, pcEv, evStatus, polled, plugged, trouble>>
    BY <1>12, <2>1, BeginEffect
  <2>3. QED BY <1>3, <1>4, <1>5, <1>6, <1>7, <2>2 DEF Plugs
<1>13. CASE TxSubmit
  <2>1. CASE InFlight(at)
    <3>1. /\ gaveUp' /\ UNCHANGED <<transfer, ended, pcEv, evStatus, polled, plugged, trouble>>
      BY <1>13, <2>1, RefusedEffect
    <3>2. VainSame
      BY <3>1 DEF VainSame
    <3>3. QED BY <1>3, <1>4, <1>5, <1>6, <3>1, <3>2 DEF Plugs
  <2>2. CASE ~InFlight(at)
    <3>1. /\ Only(at) /\ transfer'[at].flags = {"submitting"}
          /\ transfer'[at].reap_status = "completed"
          /\ UNCHANGED <<handles, bufferUsed, ended, pcEv, evStatus, polled, plugged, trouble>>
      BY <1>13, <2>2, SubmitEffect
    <3>2. LostSame
      BY <1>9, <3>1 DEF Stalled
    <3>3. QED BY <1>3, <1>4, <1>6, <1>7, <3>1, <3>2 DEF Plugs
  <2>3. QED BY <2>1, <2>2
<1>14. CASE TxUrb
  BY <1>3, <1>4, <1>5, <1>6, <1>7, <1>14, UrbEffect DEF Plugs
<1>15. CASE TxFirstUrbFails
  <2>1. UNCHANGED <<polled, plugged>> /\ (IF plugged THEN trouble' = TRUE ELSE trouble' = trouble)
    BY <1>15, FirstUrbFailsEffect
  <2>2. trouble'
    BY <1>1, <2>1 DEF Troubles
  <2>3. QED BY <1>3, <1>8, <2>1, <2>2 DEF Plugs
<1>16. CASE TxLaterUrbFails
  <2>1. /\ Only(at) /\ (trouble => trouble')
        /\ transfer'[at].flags = transfer[at].flags
        /\ transfer'[at].reap_status = transfer[at].reap_status
        /\ UNCHANGED <<handles, bufferUsed, pcEv, evStatus, polled, plugged>>
    BY <1>16, LaterUrbFailsEffect
  <2>2. PICK last \in Int, n \in {0, 1} : ended' = ended \o DiscardUrbs(at, 0, last, n).urbs
    BY <1>16, LaterUrbFailsEffect
  <2>3. LineSame
    <3>1. 0 \in Int /\ last \in Int /\ n \in {0, 1}
      BY <2>2
    <3>2. EndsCalmly(ended)
      BY <1>1, <2>2, <3>1, DiscardsCalmly
    <3>3. QED BY <3>2 DEF EndsCalmly, LineSame
  <2>4. LostSame
    BY <1>9, <2>1 DEF Stalled
  <2>5. QED BY <1>3, <1>6, <1>7, <2>1, <2>3, <2>4 DEF Plugs
<1>17. CASE TxSubmitted
  <2>1. /\ Only(at) /\ at \in Contexts /\ bi \in Buffers
        /\ transfer'[at].reap_status = transfer[at].reap_status
        /\ "disappeared" \in transfer'[at].flags => "disappeared" \in transfer[at].flags
        /\ bufferUsed' = [bufferUsed EXCEPT ![bi] = TRUE]
        /\ \/ "disappeared" \in transfer[at].flags
           \/ handles' = [handles EXCEPT ![bi] = at]
        /\ UNCHANGED <<ended, pcEv, evStatus, polled, plugged, trouble>>
    BY <1>17, SubmittedEffect
  <2>2. LostSame
    BY <1>9, <2>1 DEF Stalled
  <2>3. VainSame
    <3>1. CASE "disappeared" \in transfer[at].flags
      BY <1>1, <2>1, <3>1 DEF Troubles, VainSame
    <3>2. CASE handles' = [handles EXCEPT ![bi] = at]
      <4>1. at # NoHandle
        BY <2>1 DEF NoHandle, Contexts
      <4>2. SUFFICES ASSUME NEW b \in Buffers, Vain(b)' PROVE Vain(b)
        BY DEF VainSame
      <4>3. b # bi
        BY <1>1, <2>1, <3>2, <4>1, <4>2
      <4>4. QED BY <1>1, <2>1, <3>2, <4>2, <4>3
    <3>3. QED BY <2>1, <3>1, <3>2
  <2>4. QED BY <1>3, <1>4, <1>6, <2>1, <2>2, <2>3 DEF Plugs
<1>18. CASE TxCancel /\ TakesCancel(at)
  <2>1. /\ Only(at)
        /\ "disappeared" \in transfer'[at].flags => "disappeared" \in transfer[at].flags \/ ~plugged
        /\ transfer'[at].reap_status = transfer[at].reap_status
        /\ UNCHANGED <<handles, bufferUsed, pcEv, evStatus, polled, plugged, trouble>>
    BY <1>18, CancelEffect
  <2>2. LostSame
    <3>1. ~plugged => trouble
      BY <1>1 DEF Troubles
    <3>2. QED BY <1>9, <2>1, <3>1 DEF Stalled
  <2>3. LineSame
    <3>1. CASE ended' = ended
      BY <1>4, <3>1
    <3>2. ASSUME NEW n \in {0, 1}, ended' = ended \o DiscardUrbs(at, 0, NumUrbs - 1, n).urbs
          PROVE  LineSame
      <4>1. 0 \in Int /\ NumUrbs - 1 \in Int
        BY DEF SendingSizes
      <4>2. EndsCalmly(ended)
        BY <1>1, <3>2, <4>1, DiscardsCalmly
      <4>3. QED BY <4>2 DEF EndsCalmly, LineSame
    <3>3. QED BY <1>18, <3>1, <3>2, CancelEffect
  <2>4. QED BY <1>3, <1>6, <1>7, <2>1, <2>2, <2>3 DEF Plugs
<1>19. CASE TxDrain
  BY <1>3, <1>4, <1>5, <1>6, <1>7, <1>19, DrainEffect DEF Plugs
<1>20. CASE EvReap
  <2>1. PICK r : r = Head(ended)
    OBVIOUS
  <2>2. /\ pcEv = "poll" /\ ended # <<>> /\ r \in UrbEnd /\ r.ctx \in Contexts
        /\ UNCHANGED <<handles, bufferUsed, polled, plugged, trouble>>
    BY <1>20, <2>1, ReapEffect
  <2>3. PICK complete : complete = IF TearsDown(r) THEN transfer[r.ctx].num_retired + 1 = NumUrbs
                                   ELSE LastUrb(r)
    OBVIOUS
  <2>4. LineSame
    <3>1. \A k \in DOMAIN Tail(ended) : k + 1 \in DOMAIN ended /\ Tail(ended)[k] = ended[k + 1]
      BY <1>1, <2>2
    <3>2. \A k \in DOMAIN Tail(ended) : Tail(ended)[k].status \in {"stall", "noDevice"} => trouble
      BY <1>1, <3>1 DEF Troubles
    <3>3. QED BY <1>20, <2>2, <3>2, ReapsCalmly DEF EndsCalmly, LineSame
  <2>5. /\ Only(r.ctx) /\ transfer'[r.ctx].flags = transfer[r.ctx].flags
        /\ Stalled(r.ctx)' => Stalled(r.ctx) \/ r.status \in {"stall", "noDevice"}
        /\ transfer'[r.ctx].reap_status \in {"completed", "error", "stall", "noDevice"}
        /\ \/ pcEv' = pcEv
           \/ evStatus' = "cancelled" \/ evStatus' = transfer'[r.ctx].reap_status
    <3>1. CASE transfer[r.ctx].reap_action = "normal"
      <4>1. /\ Only(r.ctx) /\ transfer'[r.ctx].flags = transfer[r.ctx].flags
            /\ transfer'[r.ctx].reap_status = ReapStatus(r, transfer[r.ctx].reap_status)
            /\ transfer' \in [Contexts -> Transfers]
            /\ pcEv' = pcEv \/ evStatus' = transfer'[r.ctx].reap_status
        BY <1>20, <2>1, <2>3, <3>1, NormalEffect
      <4>2. Stalled(r.ctx)' => Stalled(r.ctx) \/ r.status \in {"stall", "noDevice"}
        <5>1. PICK c \in Contexts : c = r.ctx
          BY <2>2
        <5>2. transfer'[c].reap_status \in {"stall", "noDevice"} =>
                transfer[c].reap_status \in {"stall", "noDevice"} \/ r.status \in {"stall", "noDevice"}
          BY <4>1, <5>1 DEF ReapStatus
        <5>3. Stalled(r.ctx)' => transfer'[c].reap_status \in {"stall", "noDevice"}
          BY <2>1, <2>2, <5>1 DEF Stalled
        <5>4. QED BY <5>1, <5>2, <5>3 DEF Stalled
      <4>3. QED BY <2>2, <4>1, <4>2 DEF Transfers
    <3>2. CASE transfer[r.ctx].reap_action # "normal"
      <4>1. /\ Only(r.ctx) /\ transfer'[r.ctx].flags = transfer[r.ctx].flags
            /\ transfer'[r.ctx].reap_status \in {"stall", "noDevice"}
                 <=> transfer[r.ctx].reap_status \in {"stall", "noDevice"}
            /\ transfer' \in [Contexts -> Transfers]
            /\ \/ pcEv' = pcEv
               \/ evStatus' = "cancelled" \/ evStatus' = transfer'[r.ctx].reap_status
        BY <1>20, <2>1, <3>2, AbnormalEffect
      <4>2. QED BY <2>2, <4>1 DEF Transfers, Stalled
    <3>3. QED BY <3>1, <3>2
  <2>6. r.status \in {"stall", "noDevice"} => trouble
    <3>1. 1 \in DOMAIN ended /\ ended[1] = r
      BY <1>1, <2>1, <2>2
    <3>2. QED BY <1>1, <3>1 DEF Troubles
  <2>7. LostSame
    BY <1>9, <2>2, <2>5, <2>6 DEF Stalled
  <2>8. IllSame
    <3>1. SUFFICES ASSUME pcEv' # "poll", ~Finishes(evStatus)' PROVE trouble'
      BY DEF IllSame
    <3>2. transfer'[r.ctx].reap_status \in {"stall", "noDevice"}
      BY <2>2, <2>5, <3>1 DEF Finishes
    <3>3. PICK c \in Contexts : c = r.ctx
      BY <2>2
    <3>4. Lost(c)'
      BY <3>2, <3>3 DEF Stalled
    <3>5. Lost(c) \/ trouble'
      BY <2>7, <3>4 DEF LostSame
    <3>6. QED BY <1>1, <2>2, <3>5 DEF Troubles
  <2>9. QED BY <1>3, <1>7, <2>2, <2>4, <2>7, <2>8 DEF Plugs
<1>21. CASE EvPollErr \/ EvLastReaped \/ Unplug
  BY <1>3, <1>8, <1>21, LossEffect
<1>22. CASE EvDisconnect
  <2>1. polled = "disconnect" /\ UNCHANGED <<plugged, trouble>>
    BY <1>22, DisconnectEffect
  <2>2. trouble' /\ ~plugged'
    BY <1>1, <2>1 DEF Troubles
  <2>3. QED BY <1>3, <1>8, <2>2
<1>23. CASE EvComplete
  <2>1. /\ Only(evAt) /\ pcEv = "complete" /\ pcEv' = "callback"
        /\ transfer'[evAt].flags = (transfer[evAt].flags \ {"inFlight"}) \cup {"completed"}
        /\ transfer'[evAt].reap_status = transfer[evAt].reap_status
        /\ UNCHANGED <<handles, bufferUsed, ended, evAt, evStatus, polled, plugged, trouble>>
    BY <1>23, CompleteEffect
  <2>2. LostSame
    BY <1>9, <2>1 DEF Stalled
  <2>3. IllSame
    BY <2>1 DEF IllSame, Finishes
  <2>4. QED BY <1>3, <1>4, <1>7, <2>1, <2>2, <2>3 DEF Plugs
<1>24. CASE EvCallback
  <2>1. /\ pcEv' = "poll"
        /\ UNCHANGED <<handles, bufferUsed, ended, transfer, polled, plugged, trouble>>
    BY <1>24, CallbackEffect
  <2>2. IllSame
    BY <2>1 DEF IllSame
  <2>3. QED BY <1>3, <1>4, <1>5, <1>7, <2>1, <2>2 DEF Plugs
<1>25. CASE UrbSent
  <2>1. PICK u, x : u = Head(pending) /\ x = Ended(u, "ok", 1)
    OBVIOUS
  <2>2. /\ ended' = Append(ended, x) /\ x.status = "ok"
        /\ UNCHANGED <<handles, bufferUsed, transfer, pcEv, evStatus, polled, plugged, trouble>>
    BY <1>25, <2>1, SentEffect
  <2>3. \A k \in DOMAIN ended' : (k \in DOMAIN ended /\ ended'[k] = ended[k]) \/ ended'[k] = x
    BY <1>1, <2>2
  <2>4. LineSame
    BY <2>2, <2>3 DEF LineSame
  <2>5. QED BY <1>3, <1>5, <1>6, <1>7, <2>2, <2>4 DEF Plugs
<1>26. CASE UrbFails \/ UrbLost
  <2>1. /\ \A k \in DOMAIN ended' : \/ k \in DOMAIN ended /\ ended'[k] = ended[k]
                                    \/ ended'[k].status \in {"stall", "noDevice"} => trouble'
        /\ trouble => trouble'
        /\ UNCHANGED <<handles, bufferUsed, transfer, pcEv, evStatus, polled, plugged>>
    BY <1>26, EndEffect
  <2>2. LineSame
    BY <2>1 DEF LineSame
  <2>3. QED BY <1>3, <1>5, <1>6, <1>7, <2>1, <2>2 DEF Plugs
<1>27. QED
  BY <1>10, <1>11, <1>12, <1>13, <1>14, <1>15, <1>16, <1>17, <1>18, <1>19, <1>20, <1>21, <1>22,
     <1>23, <1>24, <1>25, <1>26 DEF SendingNext, TxNext, EvNext

-----------------------------------------------------------------------------
(* Lives: what becomes of a context, step by step.                           *)

Lively(c) == Life(c) /\ StallStays(c) /\ Over(c)

(* The step passes the context by.                                         *)
Aside(c) ==
  /\ used'[c] = used[c] /\ done'[c] = done[c] /\ bytesXfered'[c] = bytesXfered[c]
  /\ owed'[c] = owed[c] /\ (c \in flying' <=> c \in flying)
  /\ "inFlight" \in transfer'[c].flags <=> "inFlight" \in transfer[c].flags
  /\ transfer'[c].reap_status = transfer[c].reap_status
  /\ transfer'[c].transferred = transfer[c].transferred
  /\ Stalled(c) /\ transfer'[c].reap_action = "cancelled" => transfer[c].reap_action = "cancelled"
  /\ Submitting(c)' <=> Submitting(c)
  /\ BeingBegun(c)' <=> BeingBegun(c)
  /\ Calling(c)' <=> Calling(c)
  /\ Reporting(c)' <=> Reporting(c)
  /\ Reporting(c) => evStatus' = evStatus
  /\ Waits(pending', c) => Waits(pending, c)
  /\ plugged' => plugged
  /\ ~Unreaped(c) => ~Unreaped(c)' /\ sent'[c] = sent[c]
  /\ trouble => trouble'

(* A context the step passes by lives as before.                             *)
LEMMA AsideKept ==
  ASSUME NEW c \in Contexts, Aside(c), Lively(c), Trusted(c)' => Trusted(c)
  PROVE  Lively(c)'
<1>1. InFlight(c)' <=> InFlight(c)
  BY DEF Aside, InFlight
<1>2. Stalled(c)' <=> Stalled(c)
  BY DEF Aside, Stalled
<1>3. Life(c)'
  BY <1>1 DEF Aside, Lively, Life
<1>4. StallStays(c)'
  <2>1. SUFFICES ASSUME Stalled(c)
                 PROVE  /\ used'[c] /\ ~done'[c] /\ ~BeingBegun(c)'
                        /\ transfer'[c].reap_action # "cancelled"
                        /\ plugged' => \A k \in DOMAIN pending' : pending'[k].ctx # c
                        /\ Reporting(c)' => ~Finishes(evStatus')
    BY <1>2 DEF StallStays, Finishes
  <2>2. /\ used[c] /\ ~done[c] /\ ~BeingBegun(c)
        /\ transfer[c].reap_action # "cancelled"
        /\ plugged => ~Waits(pending, c)
        /\ Reporting(c) => ~Finishes(evStatus)
    BY <2>1 DEF Lively, StallStays, Waits
  <2>3. plugged' => ~Waits(pending', c)
    BY <2>2 DEF Aside
  <2>4. QED BY <2>1, <2>2, <2>3 DEF Aside, Waits
<1>5. Over(c)'
  <2>1. Reporting(c)' /\ Finishes(evStatus') => ~Unreaped(c)' /\ transfer'[c].transferred = sent'[c]
    BY DEF Aside, Lively, Over
  <2>2. used'[c] /\ done'[c] => ~Unreaped(c)' /\ bytesXfered'[c] = sent'[c]
    BY DEF Aside, Lively, Over
  <2>3. QED BY <2>1, <2>2 DEF Over, Finishes
<1>6. QED BY <1>3, <1>4, <1>5 DEF Lively

(* A context that is being begun has nothing of an earlier transfer.       *)
LEMMA BegunContext ==
  ASSUME NEW c \in Contexts, Lively(c), BeingBegun(c), ~gaveUp
  PROVE  /\ ~InFlight(c) /\ ~Calling(c) /\ ~Reporting(c) /\ ~Stalled(c) /\ Trusted(c)
         /\ ~done[c] /\ owed[c] = 0
<1>1. ~InFlight(c) /\ ~Calling(c) /\ ~done[c]
  BY DEF Lively, Life
<1>2. ~Stalled(c)
  BY DEF Lively, StallStays
<1>3. Trusted(c)
  BY <1>2 DEF Trusted
<1>4. QED BY <1>1, <1>2, <1>3 DEF Lively, Life

(* Nor has one that is free or done.                                       *)
LEMMA FreeOrDone ==
  ASSUME NEW c \in Contexts, Lively(c), ~used[c] \/ done[c], ~gaveUp
  PROVE  /\ ~InFlight(c) /\ ~Calling(c) /\ ~Stalled(c) /\ Trusted(c)
         /\ ~Reporting(c) /\ owed[c] = 0
<1>1. ~InFlight(c) /\ ~Calling(c)
  BY DEF Lively, Life
<1>2. ~Stalled(c)
  BY DEF Lively, StallStays
<1>3. Trusted(c)
  BY <1>2 DEF Trusted
<1>4. QED BY <1>1, <1>2, <1>3 DEF Lively, Life

(* A context that is free or done is released, or one that is being begun  *)
(* is refused.                                                             *)
LEMMA ReleasedLively ==
  ASSUME NEW c \in Contexts, Lively(c), ~gaveUp,
         ~used[c] \/ done[c] \/ BeingBegun(c),
         used'[c] = FALSE, owed'[c] = owed[c],
         ~("inFlight" \in transfer'[c].flags), ~(transfer'[c].reap_status \in {"stall", "noDevice"}),
         c \notin flying', ~Submitting(c)', ~BeingBegun(c)', UNCHANGED <<pcEv, evAt>>
  PROVE  Lively(c)'
<1>1. ~Calling(c) /\ ~Reporting(c) /\ owed[c] = 0
  BY FreeOrDone, BegunContext
<1>2. ~Calling(c)' /\ ~Reporting(c)'
  BY <1>1 DEF Calling, Reporting
<1>3. ~InFlight(c)' /\ ~Stalled(c)'
  BY DEF InFlight, Stalled
<1>4. Life(c)'
  BY <1>1, <1>2, <1>3 DEF Life
<1>5. StallStays(c)' /\ Over(c)'
  BY <1>2, <1>3 DEF StallStays, Over
<1>6. QED BY <1>4, <1>5 DEF Lively

(* Nothing but the line changes of a context that is being begun.          *)
LEMMA BegunLively ==
  ASSUME NEW c \in Contexts, Lively(c), ~gaveUp, BeingBegun(c), BeingBegun(c)',
         done'[c] = FALSE, owed'[c] = owed[c],
         ~("inFlight" \in transfer'[c].flags), ~(transfer'[c].reap_status \in {"stall", "noDevice"}),
         c \in flying' <=> Submitting(c)', UNCHANGED <<pcEv, evAt>>
  PROVE  Lively(c)'
<1>1. ~Calling(c) /\ ~Reporting(c) /\ owed[c] = 0
  BY BegunContext
<1>2. ~Calling(c)' /\ ~Reporting(c)'
  BY <1>1 DEF Calling, Reporting
<1>3. ~InFlight(c)' /\ ~Stalled(c)'
  BY DEF InFlight, Stalled
<1>4. Life(c)'
  BY <1>1, <1>2, <1>3 DEF Life
<1>5. StallStays(c)' /\ Over(c)'
  BY <1>2, <1>3 DEF StallStays, Over
<1>6. QED BY <1>4, <1>5 DEF Lively

(* BeginDataSending() takes a context that is over.                          *)
LEMMA FreeLivelyBegin ==
  ASSUME SendingSizes, SendingIInv, TxBegin, Free # {}, ~gaveUp, NEW c \in Contexts, Lively(c),
         Trusted(c)' => Trusted(c)
  PROVE  Lively(c)'
<1>1. /\ pcTx = "begin" /\ pcTx' = "submit" /\ at' \in Contexts /\ ~used[at']
      /\ used' = [used EXCEPT ![at'] = TRUE]
      /\ done' = [done EXCEPT ![at'] = FALSE]
      /\ bytesXfered' = [bytesXfered EXCEPT ![at'] = 0]
      /\ UNCHANGED <<evElse, lineElse, transfer, sent, flying, owed, trouble>>
  BY BeginEffect
<1>2. /\ used \in [Contexts -> BOOLEAN] /\ done \in [Contexts -> BOOLEAN]
      /\ bytesXfered \in [Contexts -> Nat]
  BY DEF SendingIInv, LoansIInv, TxType, EvType
<1> USE DEF evElse, lineElse
<1>3. CASE c # at'
  <2>1. used'[c] = used[c] /\ done'[c] = done[c] /\ bytesXfered'[c] = bytesXfered[c]
    BY <1>1, <1>2, <1>3
  <2>2. /\ Submitting(c)' <=> Submitting(c)
        /\ BeingBegun(c)' <=> BeingBegun(c)
        /\ Calling(c)' <=> Calling(c)
        /\ Reporting(c)' <=> Reporting(c)
    BY <1>1, <1>3 DEF Submitting, BeingBegun, Calling, Reporting
  <2>3. Unreaped(c)' <=> Unreaped(c)
    BY <1>1 DEF Unreaped
  <2>4. Aside(c)
    BY <1>1, <2>1, <2>2, <2>3 DEF Aside, Waits
  <2>5. QED BY <2>4, AsideKept
<1>4. CASE c = at'
  <2>1. /\ ~InFlight(c) /\ ~Calling(c) /\ ~Stalled(c) /\ ~Reporting(c) /\ owed[c] = 0
    BY <1>1, <1>4, FreeOrDone
  <2>2. ~InFlight(c)' /\ ~Calling(c)' /\ ~Stalled(c)' /\ ~Reporting(c)' /\ owed'[c] = 0
    BY <1>1, <2>1 DEF InFlight, Calling, Stalled, Reporting
  <2>3. BeingBegun(c)' /\ ~done'[c]
    BY <1>1, <1>2, <1>4 DEF BeingBegun
  <2>4. c \notin flying' /\ ~Submitting(c)'
    <3>1. c \notin flying
      BY <1>1, <2>1 DEF Lively, Life, Submitting
    <3>2. QED BY <1>1, <3>1 DEF Submitting
  <2>5. Life(c)'
    BY <2>2, <2>3, <2>4 DEF Life
  <2>6. StallStays(c)' /\ Over(c)'
    BY <2>2, <2>3 DEF StallStays, Over
  <2>7. QED BY <2>5, <2>6 DEF Lively
<1>5. QED BY <1>3, <1>4

(* URBs that are discarded stay unreaped, and none is of a transfer without  *)
(* any.                                                                      *)
LEMMA DiscardsAside ==
  ASSUME SendingSizes, EvType, EvType', NEW a, NEW first \in Int, NEW last \in Int,
         NEW n \in {0, 1},
         pending' = DiscardUrbs(a, first, last, n).rest,
         ended' = ended \o DiscardUrbs(a, first, last, n).urbs, NEW c
  PROVE  /\ Waits(pending', c) => Waits(pending, c)
         /\ Unreaped(c)' <=> Unreaped(c)
         /\ ~Unreaped(a) => DiscardUrbs(a, first, last, n).sent = 0
<1>1. pending \in Seq(UrbOut) /\ ended \in Seq(UrbEnd) /\ plugged \in BOOLEAN
  BY DEF EvType
<1>2. DiscardsUrbs(ended, a, first, last, n, c)
  BY <1>1, DiscardUrbsLine
<1>3. /\ \A k \in DOMAIN pending' : \E l \in DOMAIN pending : pending'[k] = pending[l]
      /\ LeftOf(Line(pending', ended'), c) = LeftOf(Line(pending, ended), c)
      /\ (\A k \in DOMAIN pending : pending[k].ctx # a) => DiscardUrbs(a, first, last, n).sent = 0
  BY <1>2 DEF DiscardsUrbs
<1>4. Unreaped(c)' <=> Unreaped(c)
  BY <1>3, UnreapedLeft, UnreapedLeftNext
<1>5. QED BY <1>3, <1>4 DEF Waits, Unreaped

(* A transfer begins to be submitted: nothing is left of an earlier one.     *)
LEMMA SubmitLively ==
  ASSUME SendingSizes, SendingIInv, TxSubmit, ~InFlight(at), ~gaveUp, NEW c \in Contexts,
         Lively(c), Trusted(c)' => Trusted(c)
  PROVE  Lively(c)'
<1>1. /\ at \in Contexts /\ pcTx = "submit" /\ pcTx' = "urbs" /\ at' = at
      /\ transfer'[at].flags = {"submitting"}
      /\ transfer'[at].reap_status = "completed"
      /\ Only(at)
      /\ flying' = flying \cup {at}
      /\ UNCHANGED <<evElse, lineElse, used, done, bytesXfered, owed, trouble>>
  BY SubmitEffect
<1> USE DEF evElse, lineElse
<1>2. CASE c # at
  <2>1. /\ Submitting(c)' <=> Submitting(c)
        /\ BeingBegun(c)' <=> BeingBegun(c)
        /\ Calling(c)' <=> Calling(c)
        /\ Reporting(c)' <=> Reporting(c)
    BY <1>1, <1>2 DEF Submitting, BeingBegun, Calling, Reporting
  <2>2. Unreaped(c)' <=> Unreaped(c)
    BY <1>1 DEF Unreaped
  <2>3. Aside(c)
    BY <1>1, <1>2, <2>1, <2>2 DEF Aside, Waits, Only
  <2>4. QED BY <2>3, AsideKept
<1>3. CASE c = at
  <2>1. BeingBegun(c) /\ BeingBegun(c)' /\ Submitting(c)'
    BY <1>1, <1>3 DEF BeingBegun, Submitting
  <2>2. ~done[c]
    BY <2>1, BegunContext
  <2>3. done'[c] = FALSE
    <3>1. done \in [Contexts -> BOOLEAN]
      BY DEF SendingIInv, EvType
    <3>2. QED BY <1>1, <2>2, <3>1
  <2>4. /\ ~("inFlight" \in transfer'[c].flags)
        /\ ~(transfer'[c].reap_status \in {"stall", "noDevice"})
        /\ c \in flying' <=> Submitting(c)'
        /\ owed'[c] = owed[c] /\ UNCHANGED <<pcEv, evAt>>
    BY <1>1, <1>3, <2>1
  <2>5. QED BY <2>1, <2>3, <2>4, BegunLively
<1>4. QED BY <1>2, <1>3

(* While the kernel takes the URBs of a transfer, or refuses a later one.  *)
LEMMA UrbsLively ==
  ASSUME SendingSizes, SendingIInv, EvType', TxUrb \/ TxLaterUrbFails, ~gaveUp,
         NEW c \in Contexts, Lively(c), Trusted(c)' => Trusted(c)
  PROVE  Lively(c)'
<1>1. /\ at \in Contexts /\ pcTx = "urbs"
      /\ transfer'[at].flags = transfer[at].flags
      /\ transfer'[at].reap_status = transfer[at].reap_status
      /\ Only(at)
      /\ trouble => trouble'
      /\ UNCHANGED <<pcTx, at, evElse, flying, plugged, used, done, bytesXfered, owed>>
  <2>1. CASE TxUrb
    BY <2>1, UrbEffect DEF Only
  <2>2. CASE TxLaterUrbFails
    BY <2>2, LaterUrbFailsEffect
  <2>3. QED BY <2>1, <2>2
<1>2. EvType
  BY DEF SendingIInv
<1> USE DEF evElse
<1>3. CASE c # at
  <2>1. /\ Submitting(c)' <=> Submitting(c)
        /\ BeingBegun(c)' <=> BeingBegun(c)
        /\ Calling(c)' <=> Calling(c)
        /\ Reporting(c)' <=> Reporting(c)
    BY <1>1, <1>3 DEF Submitting, BeingBegun, Calling, Reporting
  <2>2. /\ Waits(pending', c) => Waits(pending, c)
        /\ Unreaped(c)' => Unreaped(c)
    <3>1. CASE TxUrb
      <4>1. /\ pending' = Append(pending, Urb(at, nextUrb)) /\ ended' = ended
            /\ pending \in Seq(UrbOut)
        BY <1>2, <3>1, UrbEffect DEF EvType
      <4>2. \A k \in DOMAIN pending' : \/ (k \in DOMAIN pending /\ pending'[k] = pending[k])
                                       \/ pending'[k] = Urb(at, nextUrb)
        BY <4>1
      <4>3. QED BY <1>3, <4>1, <4>2 DEF Waits, Unreaped, Urb
    <3>2. CASE TxLaterUrbFails
      <4>1. PICK last \in Int, n \in {0, 1} :
              LET d == DiscardUrbs(at, 0, last, n)
              IN pending' = d.rest /\ ended' = ended \o d.urbs
        BY <3>2, LaterUrbFailsEffect
      <4>2. 0 \in Int /\ last \in Int /\ n \in {0, 1}
        BY <4>1
      <4>3. QED BY <1>2, <4>1, <4>2, DiscardsAside
    <3>3. QED BY <3>1, <3>2
  <2>3. Aside(c)
    BY <1>1, <1>3, <2>1, <2>2 DEF Aside, Only
  <2>4. QED BY <2>3, AsideKept
<1>4. CASE c = at
  <2>1. BeingBegun(c) /\ BeingBegun(c)' /\ Submitting(c)' /\ Submitting(c)
    BY <1>1, <1>4 DEF BeingBegun, Submitting
  <2>2. ~done[c] /\ ~InFlight(c) /\ ~Stalled(c)
    BY <2>1, BegunContext
  <2>3. done'[c] = FALSE
    BY <1>1, <1>2, <2>2 DEF EvType
  <2>4. c \in flying'
    BY <1>1, <2>1 DEF Lively, Life
  <2>5. /\ ~("inFlight" \in transfer'[c].flags)
        /\ ~(transfer'[c].reap_status \in {"stall", "noDevice"})
        /\ owed'[c] = owed[c] /\ UNCHANGED <<pcEv, evAt>>
    BY <1>1, <1>4, <2>2 DEF InFlight, Stalled
  <2>6. QED BY <2>1, <2>3, <2>4, <2>5, BegunLively
<1>5. QED BY <1>3, <1>4

(* The kernel refuses the first URB, and the context is free again.          *)
LEMMA FirstUrbFailsLively ==
  ASSUME SendingSizes, SendingIInv, TxFirstUrbFails, ~gaveUp,
         NEW c \in Contexts, Lively(c), Trusted(c)' => Trusted(c)
  PROVE  Lively(c)'
<1>1. /\ at \in Contexts /\ pcTx = "urbs" /\ pcTx' = "loop"
      /\ transfer'[at].flags = transfer[at].flags \ {"submitting"}
      /\ transfer'[at].reap_status = transfer[at].reap_status
      /\ Only(at)
      /\ flying' = flying \ {at}
      /\ used' = [used EXCEPT ![at] = FALSE]
      /\ UNCHANGED <<evElse, lineElse, sent, done, bytesXfered, owed>>
      /\ trouble => trouble'
  BY FirstUrbFailsEffect
<1>2. used \in [Contexts -> BOOLEAN]
  BY DEF SendingIInv, LoansIInv, TxType
<1> USE DEF evElse, lineElse
<1>3. CASE c # at
  <2>1. /\ Submitting(c)' <=> Submitting(c)
        /\ BeingBegun(c)' <=> BeingBegun(c)
        /\ Calling(c)' <=> Calling(c)
        /\ Reporting(c)' <=> Reporting(c)
    BY <1>1, <1>3 DEF Submitting, BeingBegun, Calling, Reporting
  <2>2. Unreaped(c)' <=> Unreaped(c)
    BY <1>1 DEF Unreaped
  <2>3. Aside(c)
    BY <1>1, <1>2, <1>3, <2>1, <2>2 DEF Aside, Waits, Only
  <2>4. QED BY <2>3, AsideKept
<1>4. CASE c = at
  <2>1. BeingBegun(c) /\ ~BeingBegun(c)' /\ ~Submitting(c)'
    BY <1>1, <1>4 DEF BeingBegun, Submitting
  <2>2. ~InFlight(c) /\ ~Stalled(c)
    BY <2>1, BegunContext
  <2>3. /\ ~("inFlight" \in transfer'[c].flags)
        /\ ~(transfer'[c].reap_status \in {"stall", "noDevice"})
        /\ used'[c] = FALSE /\ owed'[c] = owed[c] /\ c \notin flying' /\ UNCHANGED <<pcEv, evAt>>
    BY <1>1, <1>2, <1>4, <2>2 DEF InFlight, Stalled
  <2>4. QED BY <2>1, <2>3, ReleasedLively
<1>5. QED BY <1>3, <1>4

(* The transfer is in flight and its callback owed, or the device has        *)
(* disappeared and the context is free again.                                *)
LEMMA SubmittedLively ==
  ASSUME SendingSizes, SendingIInv, TxSubmitted, ~gaveUp,
         NEW c \in Contexts, Lively(c), Trusted(c)' => Trusted(c)
  PROVE  Lively(c)'
<1>1. /\ at \in Contexts /\ pcTx = "urbs" /\ pcTx' = "loop"
      /\ transfer'[at].transferred = transfer[at].transferred
      /\ transfer'[at].reap_action = transfer[at].reap_action
      /\ transfer'[at].reap_status = transfer[at].reap_status
      /\ Only(at)
      /\ IF "disappeared" \in transfer[at].flags
         THEN /\ transfer'[at].flags = transfer[at].flags \ {"submitting"}
              /\ flying' = flying \ {at}
              /\ used' = [used EXCEPT ![at] = FALSE]
              /\ owed' = owed
         ELSE /\ transfer'[at].flags = (transfer[at].flags \ {"submitting"}) \cup {"inFlight"}
              /\ owed' = [owed EXCEPT ![at] = @ + 1]
              /\ flying' = flying /\ used' = used
      /\ UNCHANGED <<evElse, lineElse, sent, done, bytesXfered, trouble>>
  BY SubmittedEffect
<1>2. /\ used \in [Contexts -> BOOLEAN] /\ done \in [Contexts -> BOOLEAN]
      /\ owed \in [Contexts -> Int]
  BY DEF SendingIInv, LoansIInv, TxType, EvType
<1> USE DEF evElse, lineElse
<1>3. CASE c # at
  <2>1. /\ Submitting(c)' <=> Submitting(c)
        /\ BeingBegun(c)' <=> BeingBegun(c)
        /\ Calling(c)' <=> Calling(c)
        /\ Reporting(c)' <=> Reporting(c)
    BY <1>1, <1>3 DEF Submitting, BeingBegun, Calling, Reporting
  <2>2. Unreaped(c)' <=> Unreaped(c)
    BY <1>1 DEF Unreaped
  <2>3. used'[c] = used[c] /\ owed'[c] = owed[c] /\ (c \in flying' <=> c \in flying)
    BY <1>1, <1>2, <1>3
  <2>4. Aside(c)
    BY <1>1, <1>3, <2>1, <2>2, <2>3 DEF Aside, Waits, Only
  <2>5. QED BY <2>4, AsideKept
<1>4. CASE c = at
  <2>1. BeingBegun(c) /\ Submitting(c) /\ ~BeingBegun(c)' /\ ~Submitting(c)'
    BY <1>1, <1>4 DEF BeingBegun, Submitting
  <2>2. /\ ~InFlight(c) /\ ~Stalled(c) /\ ~Calling(c) /\ ~Reporting(c) /\ ~done[c]
        /\ owed[c] = 0
    BY <2>1, BegunContext
  <2>3. CASE "disappeared" \in transfer[at].flags
    <3>1. /\ ~("inFlight" \in transfer'[c].flags)
          /\ ~(transfer'[c].reap_status \in {"stall", "noDevice"})
          /\ used'[c] = FALSE /\ owed'[c] = owed[c] /\ c \notin flying' /\ UNCHANGED <<pcEv, evAt>>
      BY <1>1, <1>2, <1>4, <2>2, <2>3 DEF InFlight, Stalled
    <3>2. QED BY <2>1, <3>1, ReleasedLively
  <2>4. CASE "disappeared" \notin transfer[at].flags
    <3>1. InFlight(c)' /\ ~Stalled(c)' /\ ~Calling(c)' /\ ~Reporting(c)'
      BY <1>1, <1>4, <2>2, <2>4 DEF InFlight, Stalled, Calling, Reporting
    <3>2. used'[c] /\ ~done'[c] /\ owed'[c] = 1 /\ c \in flying'
      <4>1. used[c]
        BY <1>1, <1>4 DEF SendingIInv, LoansIInv, Loans
      <4>2. c \in flying
        BY <2>1 DEF Lively, Life
      <4>3. QED BY <1>1, <1>2, <1>4, <2>2, <2>4, <4>1, <4>2
    <3>3. Life(c)'
      BY <2>1, <3>1, <3>2 DEF Life
    <3>4. StallStays(c)' /\ Over(c)'
      BY <3>1, <3>2 DEF StallStays, Over
    <3>5. QED BY <3>3, <3>4 DEF Lively
  <2>5. QED BY <2>3, <2>4
<1>5. QED BY <1>3, <1>4

(* FinishDataSending() and AbortSending() release a context.               *)
LEMMA ReleaseLively ==
  ASSUME SendingSizes, SendingIInv, TxFinish \/ TxDrain, ~gaveUp, ~gaveUp',
         NEW c \in Contexts, Lively(c), Trusted(c)' => Trusted(c)
  PROVE  Lively(c)'
<1>1. PICK h \in Contexts :
        /\ used' = [used EXCEPT ![h] = FALSE]
        /\ ~used[h] \/ done[h]
        /\ pcTx \in {"finish", "drain"} /\ pcTx' \in {"fill", "drain"}
        /\ UNCHANGED <<evElse, lineElse, transfer, sent, flying, owed, done, bytesXfered, trouble>>
  <2>1. CASE TxFinish
    BY <2>1, FinishEffect
  <2>2. CASE TxDrain
    BY <2>2, DrainEffect
  <2>3. QED BY <2>1, <2>2
<1>2. used \in [Contexts -> BOOLEAN]
  BY DEF SendingIInv, LoansIInv, TxType
<1>3. ~Submitting(c) /\ ~BeingBegun(c) /\ ~Submitting(c)' /\ ~BeingBegun(c)'
  BY <1>1 DEF Submitting, BeingBegun
<1> USE DEF evElse, lineElse
<1>4. CASE c # h
  <2>1. /\ Calling(c)' <=> Calling(c)
        /\ Reporting(c)' <=> Reporting(c)
    BY <1>1 DEF Calling, Reporting
  <2>2. Unreaped(c)' <=> Unreaped(c)
    BY <1>1 DEF Unreaped
  <2>3. Aside(c)
    BY <1>1, <1>2, <1>3, <1>4, <2>1, <2>2 DEF Aside, Waits
  <2>4. QED BY <2>3, AsideKept
<1>5. CASE c = h
  <2>1. ~InFlight(c) /\ ~Stalled(c)
    BY <1>1, <1>5, FreeOrDone
  <2>2. /\ ~("inFlight" \in transfer'[c].flags)
        /\ ~(transfer'[c].reap_status \in {"stall", "noDevice"})
        /\ used'[c] = FALSE /\ owed'[c] = owed[c] /\ UNCHANGED <<pcEv, evAt>>
    BY <1>1, <1>2, <1>5, <2>1 DEF InFlight, Stalled
  <2>3. c \notin flying'
    BY <1>1, <1>3, <2>1 DEF Lively, Life
  <2>4. QED BY <1>1, <1>3, <1>5, <2>2, <2>3, ReleasedLively
<1>6. QED BY <1>4, <1>5

(* A transfer is cancelled.                                                  *)
LEMMA CancelLively ==
  ASSUME SendingSizes, SendingIInv, EvType', TxCancel, TakesCancel(at), ~gaveUp,
         NEW c \in Contexts, Lively(c), Trusted(c)' => Trusted(c)
  PROVE  Lively(c)'
<1>1. /\ at \in Contexts /\ pcTx = "cancel" /\ pcTx' = "cancel"
      /\ transfer'[at].flags \ {"disappeared"} = (transfer[at].flags \cup {"cancelling"})
                                                    \ {"disappeared"}
      /\ transfer'[at].transferred = transfer[at].transferred
      /\ transfer'[at].reap_status = transfer[at].reap_status
      /\ \/ transfer'[at].reap_action = transfer[at].reap_action
         \/ plugged /\ IsPending(at, NumUrbs - 1)
      /\ Only(at)
      /\ UNCHANGED <<evElse, flying, plugged, used, done, bytesXfered, owed, trouble>>
  BY CancelEffect DEF evElse
<1>2. EvType
  BY DEF SendingIInv
<1>3. "inFlight" \in transfer'[c].flags <=> "inFlight" \in transfer[c].flags
  <2>1. "inFlight" \in transfer'[at].flags \ {"disappeared"} <=> "inFlight" \in transfer[at].flags
    BY <1>1
  <2>2. QED BY <1>1, <2>1 DEF Only
<1>4. ~Submitting(c) /\ ~BeingBegun(c) /\ ~Submitting(c)' /\ ~BeingBegun(c)'
  BY <1>1 DEF Submitting, BeingBegun
<1>5. (Calling(c)' <=> Calling(c)) /\ (Reporting(c)' <=> Reporting(c))
  BY <1>1 DEF Calling, Reporting, evElse
<1>6. /\ Waits(pending', c) => Waits(pending, c)
      /\ ~Unreaped(c) => ~Unreaped(c)' /\ sent'[c] = sent[c]
  <2>1. CASE pending' = pending /\ ended' = ended /\ sent'[at] = sent[at]
    BY <1>1, <2>1 DEF Unreaped, Only
  <2>2. ASSUME NEW n \in {0, 1},
               pending' = DiscardUrbs(at, 0, NumUrbs - 1, n).rest,
               ended' = ended \o DiscardUrbs(at, 0, NumUrbs - 1, n).urbs,
               sent'[at] = sent[at] + DiscardUrbs(at, 0, NumUrbs - 1, n).sent
        PROVE  /\ Waits(pending', c) => Waits(pending, c)
               /\ ~Unreaped(c) => ~Unreaped(c)' /\ sent'[c] = sent[c]
    <3>1. 0 \in Int /\ NumUrbs - 1 \in Int /\ n \in {0, 1}
      BY DEF SendingSizes
    <3>2. /\ Waits(pending', c) => Waits(pending, c)
          /\ Unreaped(c)' <=> Unreaped(c)
          /\ ~Unreaped(at) => DiscardUrbs(at, 0, NumUrbs - 1, n).sent = 0
      BY <1>2, <2>2, <3>1, DiscardsAside
    <3>3. sent[at] \in Nat
      BY <1>1, <1>2 DEF EvType
    <3>4. ~Unreaped(c) => sent'[c] = sent[c]
      <4>1. CASE c # at
        BY <1>1, <4>1 DEF Only
      <4>2. CASE c = at
        BY <2>2, <3>2, <3>3, <4>2
      <4>3. QED BY <4>1, <4>2
    <3>5. QED BY <3>2, <3>4
  <2>3. QED BY <2>1, <2>2, CancelEffect
<1>7. Stalled(c) /\ transfer'[c].reap_action = "cancelled" => transfer[c].reap_action = "cancelled"
  <2>1. SUFFICES ASSUME Stalled(c), transfer'[c].reap_action # transfer[c].reap_action PROVE FALSE
    OBVIOUS
  <2>2. c = at /\ plugged /\ IsPending(at, NumUrbs - 1)
    BY <1>1, <2>1 DEF Only
  <2>3. \A k \in DOMAIN pending : pending[k].ctx # c
    BY <2>1, <2>2 DEF Lively, StallStays
  <2>4. QED BY <2>2, <2>3 DEF IsPending, Urb
<1>8. Aside(c)
  BY <1>1, <1>3, <1>4, <1>5, <1>6, <1>7 DEF Aside, Only, evElse
<1>9. QED BY <1>8, AsideKept

(* A URB of a stalled transfer is reaped, or one of it has stalled: those  *)
(* behind it are discarded.                                                *)
LEMMA ReapStalls ==
  ASSUME SendingSizes, SendingIInv, EvType', EvReap, ~gaveUp, NEW c \in Contexts,
         c = Head(ended).ctx, Lively(c), Stalled(c)'
  PROVE  StallStays(c)'
<1>1. PICK r : r = Head(ended)
  OBVIOUS
<1>2. /\ pcEv = "poll" /\ ended # <<>> /\ r \in UrbEnd /\ Tail(ended) \in Seq(UrbEnd)
      /\ UNCHANGED <<pcTx, at, plugged, used, done>>
  BY <1>1, ReapEffect
<1>3. /\ pending \in Seq(UrbOut) /\ ended \in Seq(UrbEnd) /\ plugged \in BOOLEAN
      /\ NumUrbs \in Nat \ {0} /\ EvType
  BY DEF SendingIInv, EvType, SendingSizes
<1>4. PICK complete : complete = IF TearsDown(r) THEN transfer[c].num_retired + 1 = NumUrbs
                                 ELSE LastUrb(r)
  OBVIOUS
<1>5. transfer'[c].reap_status \in {"stall", "noDevice"}
  BY DEF Stalled
<1>6. transfer[c].reap_action = "normal" =>
        /\ transfer'[c].reap_action = ReapAction(r)
        /\ transfer'[c].reap_status = ReapStatus(r, transfer[c].reap_status)
        /\ \E last \in {NumUrbs - 1, -1}, n \in {0, 1} :
             LET d == DiscardUrbs(c, r.idx + 1, last, n)
             IN /\ last = IF TearsDown(r) /\ ~complete THEN NumUrbs - 1 ELSE -1
                /\ pending' = d.rest /\ ended' = Tail(ended) \o d.urbs
        /\ complete => pcEv' = "complete"
        /\ pcEv' = "poll" \/ evStatus' = transfer'[c].reap_status
  BY <1>1, <1>2, <1>4, NormalEffect, ZenonT(60)
<1>7. transfer[c].reap_action # "normal" =>
        /\ transfer'[c].reap_action = transfer[c].reap_action
        /\ Stalled(c)
        /\ pending' = pending
        /\ \/ pcEv' = "poll"
           \/ evStatus' = transfer'[c].reap_status
           \/ transfer[c].reap_action = "cancelled"
  BY <1>1, <1>2, <1>5, AbnormalEffect DEF Stalled
<1>8. transfer[c].reap_action = "normal" => transfer'[c].reap_action # "cancelled"
  BY <1>6 DEF ReapAction
<1>9. BeingBegun(c)' <=> BeingBegun(c)
  BY <1>2 DEF BeingBegun
<1>10. Waits(pending', c) => Waits(pending, c)
  <2>1. CASE transfer[c].reap_action = "normal"
    <3>1. PICK last \in {NumUrbs - 1, -1}, n \in {0, 1} :
            LET d == DiscardUrbs(c, r.idx + 1, last, n)
            IN pending' = d.rest /\ ended' = Tail(ended) \o d.urbs
      BY <1>6, <2>1
    <3>2. r.idx + 1 \in Int /\ last \in Int /\ n \in {0, 1}
      BY <1>2, <1>3, <3>1 DEF UrbEnd, Urbs
    <3>3. DiscardsUrbs(Tail(ended), c, r.idx + 1, last, n, c)
      BY <1>2, <1>3, <3>2, DiscardUrbsLine
    <3>4. \A k \in DOMAIN pending' : \E l \in DOMAIN pending : pending'[k] = pending[l]
      BY <3>1, <3>3 DEF DiscardsUrbs
    <3>5. QED BY <3>4 DEF Waits
  <2>2. CASE transfer[c].reap_action # "normal"
    BY <1>7, <2>2
  <2>3. QED BY <2>1, <2>2
<1>11. CASE Stalled(c)
  <2>1. /\ used[c] /\ ~done[c] /\ ~BeingBegun(c)
        /\ transfer[c].reap_action # "cancelled"
        /\ plugged => ~Waits(pending, c)
    BY <1>11 DEF Lively, StallStays, Waits
  <2>2. transfer'[c].reap_action # "cancelled"
    BY <1>7, <1>8, <2>1
  <2>3. Reporting(c)' => ~Finishes(evStatus')
    <3>1. SUFFICES ASSUME pcEv' # "poll" PROVE ~Finishes(evStatus')
      BY DEF Reporting
    <3>2. evStatus' = transfer'[c].reap_status
      BY <1>6, <1>7, <2>1, <3>1
    <3>3. QED BY <1>5, <3>2 DEF Finishes
  <2>4. QED BY <1>2, <1>9, <1>10, <2>1, <2>2, <2>3 DEF StallStays, Waits, Finishes
<1>12. CASE ~Stalled(c)
  <2>1. transfer[c].reap_action = "normal"
    BY <1>7, <1>12
  <2>2. r.status \in {"stall", "noDevice"}
    BY <1>5, <1>6, <1>12, <2>1 DEF ReapStatus, Stalled
  <2>3. TearsDown(r)
    BY <2>2 DEF TearsDown, Fails
  <2>4. Trusted(c)
    BY <1>12 DEF Trusted
  <2>5. InFlight(c) /\ Counted(c) /\ ~Submitting(c)
    BY <1>1, <2>4, ReapedInFlight
  <2>6. used[c] /\ ~done[c] /\ ~BeingBegun(c)
    BY <2>5 DEF Lively, Life
  <2>7. plugged' => ~Waits(pending', c)
    <3>1. CASE complete
      <4>1. LeftOf(Line(pending', ended'), c) = {}
        BY <1>1, <1>6, <2>1, <2>4, <3>1, ReapCounts
      <4>2. ~Unreaped(c)'
        BY <4>1, UnreapedLeftNext
      <4>3. QED BY <4>2 DEF Unreaped, Waits
    <3>2. CASE ~complete
      <4>1. SUFFICES ASSUME plugged, Waits(pending', c) PROVE FALSE
        BY <1>2
      <4>2. PICK n \in {0, 1} : LET d == DiscardUrbs(c, r.idx + 1, NumUrbs - 1, n)
                                IN pending' = d.rest /\ ended' = Tail(ended) \o d.urbs
        BY <1>6, <2>1, <2>3, <3>2
      <4>3. r.idx + 1 \in Int /\ NumUrbs - 1 \in Int /\ n \in {0, 1} /\ r.idx \in Nat
        BY <1>2, <1>3, <4>2 DEF UrbEnd, Urbs
      <4>4. DiscardsUrbs(Tail(ended), c, r.idx + 1, NumUrbs - 1, n, c)
        BY <1>2, <1>3, <4>3, DiscardUrbsLine
      <4>5. \A k \in DOMAIN pending' : \E l \in DOMAIN pending :
              pending'[k] = pending[l] /\ ~OfRange(pending[l], c, r.idx + 1, NumUrbs - 1)
        BY <4>1, <4>2, <4>4 DEF DiscardsUrbs
      <4>6. PICK l \in DOMAIN pending :
              pending[l].ctx = c /\ ~OfRange(pending[l], c, r.idx + 1, NumUrbs - 1)
        BY <4>1, <4>5 DEF Waits
      <4> DEFINE y == Line(pending, ended)
      <4>7. InOrder(y, c)
        BY <2>1, <2>5 DEF Counted
      <4>8. /\ l \in 1 .. Len(pending) /\ pending[l] \in UrbOut
            /\ Len(ended) + l \in DOMAIN y /\ y[Len(ended) + l] = pending[l]
            /\ Len(ended) \in Nat /\ 1 \in 1 .. Len(ended)
        <5>1. l \in 1 .. Len(pending) /\ 1 \in 1 .. Len(ended)
          BY <1>2, <1>3, <4>6
        <5>2. QED BY <1>3, <5>1, Lined
      <4>9. 1 \in DOMAIN y /\ y[1].ctx = c /\ y[1].idx = r.idx
        <5>1. ended[1] = r
          BY <1>1, <1>2, <1>3
        <5>2. 1 \in DOMAIN y /\ y[1].ctx = ended[1].ctx /\ y[1].idx = ended[1].idx
          BY <1>3, <4>8, Lined, SMTT(30)
        <5> HIDE DEF y
        <5>3. QED BY <1>1, <5>1, <5>2
      <4>10. 1 < Len(ended) + l
        BY <4>8
      <4>11. y[1].idx < y[Len(ended) + l].idx
        <5> HIDE DEF y
        <5>1. 1 \in Of(y, c) /\ Len(ended) + l \in Of(y, c)
          BY <4>6, <4>8, <4>9 DEF Of
        <5>2. QED BY <4>7, <4>10, <5>1 DEF InOrder
      <4>12. r.idx < pending[l].idx /\ pending[l].idx \in 0 .. NumUrbs - 1
        <5> HIDE DEF y
        <5>1. QED BY <4>8, <4>9, <4>11 DEF UrbOut, Urbs
      <4>13. pending[l].idx \in r.idx + 1 .. NumUrbs - 1
        BY <1>3, <4>3, <4>12
      <4>14. QED BY <4>6, <4>13 DEF OfRange
    <3>3. QED BY <3>1, <3>2
  <2>8. Reporting(c)' => ~Finishes(evStatus')
    BY <1>5, <1>6, <2>1 DEF Reporting, Finishes
  <2>9. QED BY <1>2, <1>8, <1>9, <2>1, <2>6, <2>7, <2>8 DEF StallStays, Waits, Finishes
<1>13. QED BY <1>11, <1>12

(* A URB is reaped, and the last one has its transfer reported.              *)
LEMMA ReapLively ==
  ASSUME SendingSizes, SendingIInv, EvType', EvReap, ~gaveUp, ~gaveUp', NEW c \in Contexts,
         Lively(c), Trusted(c)' => Trusted(c)
  PROVE  Lively(c)'
<1>1. PICK r : r = Head(ended)
  OBVIOUS
<1>2. /\ pcEv = "poll" /\ ended # <<>> /\ r \in UrbEnd /\ r.ctx \in Contexts
      /\ Tail(ended) \in Seq(UrbEnd)
      /\ UNCHANGED <<pcTx, at, plugged, flying, used, done, bytesXfered, owed, trouble>>
  BY <1>1, ReapEffect
<1>3. /\ pending \in Seq(UrbOut) /\ ended \in Seq(UrbEnd) /\ plugged \in BOOLEAN
      /\ NumUrbs \in Nat \ {0} /\ EvType
  BY DEF SendingIInv, EvType, SendingSizes
<1>4. PICK complete : complete = IF TearsDown(r) THEN transfer[r.ctx].num_retired + 1 = NumUrbs
                                 ELSE LastUrb(r)
  OBVIOUS
<1>5. /\ transfer'[r.ctx].flags = transfer[r.ctx].flags
      /\ \/ pcEv' = "complete" /\ evAt' = r.ctx
         \/ pcEv' = "poll" /\ evAt' = evAt
      /\ Only(r.ctx)
  BY <1>1, <1>2, <1>4, NormalEffect, AbnormalEffect
<1>6. /\ Submitting(c)' <=> Submitting(c)
      /\ BeingBegun(c)' <=> BeingBegun(c)
      /\ ~Calling(c) /\ ~Calling(c)' /\ ~Reporting(c)
  BY <1>2, <1>5 DEF Submitting, BeingBegun, Calling, Reporting
<1>7. CASE c # r.ctx
  <2>1. ~Reporting(c)'
    BY <1>5, <1>7 DEF Reporting
  <2>2. /\ Waits(pending', c) => Waits(pending, c)
        /\ LeftOf(Line(pending', ended'), c) = LeftOf(Line(pending, Tail(ended)), c)
    <3>1. CASE transfer[r.ctx].reap_action = "normal"
      <4>1. PICK last \in {NumUrbs - 1, -1}, n \in {0, 1} :
              LET d == DiscardUrbs(r.ctx, r.idx + 1, last, n)
              IN pending' = d.rest /\ ended' = Tail(ended) \o d.urbs
        BY <1>1, <1>4, <3>1, NormalEffect, ZenonT(60)
      <4>2. r.idx + 1 \in Int /\ last \in Int /\ n \in {0, 1}
        BY <1>2, <1>3, <4>1 DEF UrbEnd, Urbs
      <4>3. DiscardsUrbs(Tail(ended), r.ctx, r.idx + 1, last, n, c)
        BY <1>2, <1>3, <4>2, DiscardUrbsLine
      <4>4. /\ \A k \in DOMAIN pending' : \E l \in DOMAIN pending : pending'[k] = pending[l]
            /\ LeftOf(Line(pending', ended'), c) = LeftOf(Line(pending, Tail(ended)), c)
        BY <4>1, <4>3 DEF DiscardsUrbs
      <4>5. QED BY <4>4 DEF Waits
    <3>2. CASE transfer[r.ctx].reap_action # "normal"
      BY <1>1, <3>2, AbnormalEffect
    <3>3. QED BY <3>1, <3>2
  <2>3. LeftOf(Line(pending, Tail(ended)), c) = LeftOf(Line(pending, ended), c)
    BY <1>1, <1>2, <1>3, <1>7, LineShrinks
  <2>4. Unreaped(c)' <=> Unreaped(c)
    BY <1>3, <2>2, <2>3, UnreapedLeft, UnreapedLeftNext
  <2>5. Aside(c)
    BY <1>2, <1>5, <1>6, <1>7, <2>1, <2>2, <2>4 DEF Aside, Only
  <2>6. QED BY <2>5, AsideKept
<1>8. CASE c = r.ctx
  <2>1. InFlight(c)' <=> InFlight(c)
    BY <1>5, <1>8 DEF InFlight
  <2>2. Trusted(c) => InFlight(c)
    BY <1>1, <1>8, ReapedInFlight
  <2>3. Life(c)'
    BY <1>2, <1>6, <2>1, <2>2 DEF Lively, Life
  <2>4. StallStays(c)'
    <3>1. CASE Stalled(c)'
      BY <1>1, <1>8, <3>1, ReapStalls
    <3>2. CASE ~Stalled(c)'
      BY <3>2 DEF StallStays
    <3>3. QED BY <3>1, <3>2
  <2>5. Unreaped(c)
    <3>1. 1 \in DOMAIN ended /\ ended[1] = r
      BY <1>1, <1>2, <1>3
    <3>2. QED BY <1>8, <3>1 DEF Unreaped
  <2>6. ~(used'[c] /\ done'[c])
    BY <1>2, <2>5 DEF Lively, Over
  <2>7. Reporting(c)' /\ Finishes(evStatus') => ~Unreaped(c)' /\ transfer'[c].transferred = sent'[c]
    <3>1. SUFFICES ASSUME Reporting(c)', Finishes(evStatus')
                   PROVE  ~Unreaped(c)' /\ transfer'[c].transferred = sent'[c]
      OBVIOUS
    <3>2. ~Stalled(c)'
      BY <2>4, <3>1 DEF StallStays, Finishes
    <3>3. Trusted(c)
      BY <3>2 DEF Trusted
    <3>4. pcEv' = "complete"
      BY <1>5, <3>1 DEF Reporting
    <3>5. /\ LeftOf(Line(pending', ended'), c) = {}
          /\ transfer'[c].transferred + Cardinality(WellOf(ended', c)) = sent'[c]
      BY <1>1, <1>8, <3>3, <3>4, ReapCounts
    <3>6. pending' \in Seq(UrbOut) /\ ended' \in Seq(UrbEnd) /\ transfer'[c].transferred \in Nat
      BY DEF EvType, Transfers
    <3>7. WellOf(ended', c) = {}
      <4>1. WellOf(ended', c) \in SUBSET LeftOf(Line(pending', ended'), c)
        BY <3>6, CountsFinite
      <4>2. QED BY <3>5, <4>1
    <3>8. transfer'[c].transferred = sent'[c]
      <4>1. transfer'[c].transferred + 0 = sent'[c]
        BY <3>5, <3>7, FS_EmptySet
      <4>2. QED BY <3>6, <4>1
    <3>9. QED BY <3>5, <3>8, UnreapedLeftNext
  <2>8. Over(c)'
    BY <2>6, <2>7 DEF Over, Finishes
  <2>9. QED BY <2>3, <2>4, <2>8 DEF Lively
<1>9. QED BY <1>7, <1>8

(* usbi_handle_disconnect() reports the transfers in flight and marks the    *)
(* one that is being submitted.                                              *)
LEMMA DisconnectLively ==
  ASSUME SendingSizes, SendingIInv, EvDisconnect, NEW c \in Contexts,
         Lively(c), Trusted(c)' => Trusted(c)
  PROVE  Lively(c)'
<1>1. /\ pcEv = "poll"
      /\ transfer'[c].flags \ {"disappeared"} = transfer[c].flags \ {"disappeared"}
      /\ transfer'[c].transferred = transfer[c].transferred
      /\ transfer'[c].reap_action = transfer[c].reap_action
      /\ transfer'[c].reap_status = transfer[c].reap_status
      /\ \/ pcEv' = "complete" /\ evStatus' = "noDevice" /\ InFlight(evAt')
         \/ UNCHANGED <<pcEv, evAt, evStatus>>
      /\ UNCHANGED <<pcTx, at, lineElse, flying, sent, used, done, bytesXfered, owed, trouble>>
  BY DisconnectEffect
<1> USE DEF lineElse
<1>2. InFlight(c)' <=> InFlight(c)
  <2>1. "inFlight" \in transfer'[c].flags \ {"disappeared"}
          <=> "inFlight" \in transfer[c].flags \ {"disappeared"}
    BY <1>1
  <2>2. QED BY <2>1 DEF InFlight
<1>3. /\ Submitting(c)' <=> Submitting(c)
      /\ BeingBegun(c)' <=> BeingBegun(c)
      /\ ~Calling(c) /\ ~Calling(c)' /\ ~Reporting(c)
      /\ Unreaped(c)' <=> Unreaped(c)
      /\ Stalled(c)' <=> Stalled(c)
  BY <1>1 DEF Submitting, BeingBegun, Calling, Reporting, Unreaped, Stalled
<1>4. CASE ~Reporting(c)'
  <2>1. Aside(c)
    BY <1>1, <1>2, <1>3, <1>4 DEF Aside, Waits, InFlight
  <2>2. QED BY <2>1, AsideKept
<1>5. CASE Reporting(c)'
  <2>1. evStatus' = "noDevice" /\ InFlight(c)
    BY <1>1, <1>3, <1>5 DEF Reporting
  <2>2. ~Finishes(evStatus')
    BY <2>1 DEF Finishes
  <2>3. Life(c)'
    BY <1>1, <1>2, <1>3, <2>1 DEF Lively, Life
  <2>4. StallStays(c)'
    BY <1>1, <1>3, <2>2 DEF Lively, StallStays, Finishes
  <2>5. Over(c)'
    BY <1>1, <1>3, <2>2 DEF Lively, Over, Finishes
  <2>6. QED BY <2>3, <2>4, <2>5 DEF Lively
<1>6. QED BY <1>4, <1>5

(* The transfer that is reported is out of flight before its callback.       *)
LEMMA CompleteLively ==
  ASSUME SendingSizes, SendingIInv, EvComplete, ~gaveUp, NEW c \in Contexts,
         Lively(c), Trusted(c)' => Trusted(c)
  PROVE  Lively(c)'
<1>1. /\ pcEv = "complete" /\ pcEv' = "callback" /\ evAt \in Contexts
      /\ transfer'[evAt].flags = (transfer[evAt].flags \ {"inFlight"}) \cup {"completed"}
      /\ transfer'[evAt].transferred = transfer[evAt].transferred
      /\ transfer'[evAt].reap_action = transfer[evAt].reap_action
      /\ transfer'[evAt].reap_status = transfer[evAt].reap_status
      /\ Only(evAt)
      /\ flying' = flying \ {evAt}
      /\ UNCHANGED <<pcTx, at, lineElse, evAt, evStatus, sent, used, done, bytesXfered, owed,
                     trouble>>
  BY CompleteEffect
<1> USE DEF lineElse
<1>2. /\ Submitting(c)' <=> Submitting(c)
      /\ BeingBegun(c)' <=> BeingBegun(c)
      /\ Reporting(c)' <=> Reporting(c)
      /\ Unreaped(c)' <=> Unreaped(c)
  BY <1>1 DEF Submitting, BeingBegun, Reporting, Unreaped
<1>3. CASE c # evAt
  <2>1. ~Calling(c) /\ ~Calling(c)'
    BY <1>1, <1>3 DEF Calling
  <2>2. Aside(c)
    BY <1>1, <1>2, <1>3, <2>1 DEF Aside, Waits, Only
  <2>3. QED BY <2>2, AsideKept
<1>4. CASE c = evAt
  <2>1. ~InFlight(c)' /\ Calling(c)' /\ ~Calling(c) /\ Reporting(c) /\ (Stalled(c)' <=> Stalled(c))
    BY <1>1, <1>4 DEF InFlight, Calling, Reporting, Stalled
  <2>2. Trusted(c) => InFlight(c)
    BY <2>1 DEF Lively, Life
  <2>3. used[c] /\ ~done[c] /\ ~BeingBegun(c)
    <3>1. CASE Trusted(c)
      BY <2>2, <3>1 DEF Lively, Life
    <3>2. CASE ~Trusted(c)
      <4>1. Stalled(c)
        BY <3>2 DEF Trusted
      <4>2. QED BY <4>1 DEF Lively, StallStays
    <3>3. QED BY <3>1, <3>2
  <2>4. ~Submitting(c)'
    BY <1>2, <2>3 DEF Submitting, BeingBegun
  <2>5. Life(c)'
    BY <1>1, <1>2, <1>4, <2>1, <2>2, <2>3, <2>4 DEF Lively, Life
  <2>6. StallStays(c)'
    BY <1>1, <1>2, <1>4, <2>1 DEF Lively, StallStays, Finishes
  <2>7. Over(c)'
    BY <1>1, <1>2, <1>4 DEF Lively, Over, Finishes
  <2>8. QED BY <2>5, <2>6, <2>7 DEF Lively
<1>5. QED BY <1>3, <1>4

(* The callback finishes the context, unless the transfer stalled or lost    *)
(* its device.                                                               *)
LEMMA CallbackLively ==
  ASSUME SendingSizes, SendingIInv, EvCallback, ~gaveUp, NEW c \in Contexts,
         Lively(c), Trusted(c)' => Trusted(c)
  PROVE  Lively(c)'
<1>1. /\ pcEv = "callback" /\ pcEv' = "poll" /\ evAt \in Contexts
      /\ IF Finishes(evStatus)
         THEN /\ bytesXfered' = [bytesXfered EXCEPT ![evAt] = transfer[evAt].transferred]
              /\ done' = [done EXCEPT ![evAt] = TRUE]
         ELSE bytesXfered' = bytesXfered /\ done' = done
      /\ owed' = [owed EXCEPT ![evAt] = @ - 1]
      /\ UNCHANGED <<pcTx, at, lineElse, transfer, flying, sent, used, trouble>>
  BY CallbackEffect
<1>2. /\ done \in [Contexts -> BOOLEAN] /\ bytesXfered \in [Contexts -> Nat]
      /\ owed \in [Contexts -> Int] /\ Troubles
  BY DEF SendingIInv, EvType
<1> USE DEF lineElse
<1>3. /\ Submitting(c)' <=> Submitting(c)
      /\ BeingBegun(c)' <=> BeingBegun(c)
      /\ ~Reporting(c)' /\ ~Calling(c)'
      /\ Unreaped(c)' <=> Unreaped(c)
      /\ Stalled(c)' <=> Stalled(c)
      /\ InFlight(c)' <=> InFlight(c)
  BY <1>1 DEF Submitting, BeingBegun, Reporting, Calling, Unreaped, Stalled, InFlight
<1>4. CASE c # evAt
  <2>1. ~Calling(c) /\ ~Reporting(c)
    BY <1>1, <1>4 DEF Calling, Reporting
  <2>2. done'[c] = done[c] /\ bytesXfered'[c] = bytesXfered[c] /\ owed'[c] = owed[c]
    BY <1>1, <1>2, <1>4
  <2>3. Aside(c)
    BY <1>1, <1>3, <2>1, <2>2 DEF Aside, Waits, InFlight
  <2>4. QED BY <2>3, AsideKept
<1>5. CASE c = evAt
  <2>1. Calling(c) /\ Reporting(c)
    BY <1>1, <1>5 DEF Calling, Reporting
  <2>2. used[c] /\ ~done[c] /\ ~BeingBegun(c) /\ ~InFlight(c)
    BY <2>1 DEF Lively, Life
  <2>3. Trusted(c) => owed'[c] = 0
    <3>1. Trusted(c) => owed[c] = 1
      BY <2>1 DEF Lively, Life
    <3>2. QED BY <1>1, <1>2, <1>5, <3>1
  <2>4. c \in flying' <=> InFlight(c)' \/ Submitting(c)'
    BY <1>1, <1>3 DEF Lively, Life
  <2>5. CASE Finishes(evStatus)
    <3>1. ~Stalled(c)
      BY <2>1, <2>5 DEF Lively, StallStays
    <3>2. done'[c] /\ bytesXfered'[c] = transfer[c].transferred
      BY <1>1, <1>2, <1>5, <2>5
    <3>3. ~Unreaped(c) /\ transfer[c].transferred = sent[c]
      BY <2>1, <2>5 DEF Lively, Over
    <3>4. Life(c)'
      BY <1>3, <2>2, <2>3, <2>4, <3>2 DEF Life
    <3>5. StallStays(c)'
      BY <1>3, <3>1 DEF StallStays
    <3>6. Over(c)'
      BY <1>1, <1>3, <3>2, <3>3 DEF Over
    <3>7. QED BY <3>4, <3>5, <3>6 DEF Lively
  <2>6. CASE ~Finishes(evStatus)
    <3>1. ~done'[c] /\ bytesXfered' = bytesXfered
      BY <1>1, <2>2, <2>6
    <3>2. trouble'
      BY <1>1, <1>2, <2>6 DEF Troubles
    <3>3. Life(c)'
      BY <1>3, <2>2, <2>3, <2>4, <3>1, <3>2 DEF Life
    <3>4. StallStays(c)'
      BY <1>1, <1>3, <3>1 DEF Lively, StallStays
    <3>5. Over(c)'
      BY <1>3, <3>1 DEF Over
    <3>6. QED BY <3>3, <3>4, <3>5 DEF Lively
  <2>7. QED BY <2>5, <2>6
<1>6. QED BY <1>4, <1>5

(* The kernel's steps, and those that change nothing of the transfers.     *)
LEMMA KernelLively ==
  ASSUME SendingSizes, SendingIInv, EvType',
         Quiet \/ UrbSent \/ UrbFails \/ UrbLost \/ EvPollErr \/ EvLastReaped \/ Unplug,
         NEW c \in Contexts, Lively(c), Trusted(c)' => Trusted(c)
  PROVE  Lively(c)'
<1>1. /\ pending \in Seq(UrbOut) /\ ended \in Seq(UrbEnd) /\ EvType
  BY DEF SendingIInv, EvType
<1> USE DEF evElse, lineElse
<1>2. ASSUME UNCHANGED <<transfer, flying, owed, pcEv, evAt, evStatus, used, done, bytesXfered>>,
             \/ pcTx' = pcTx /\ at' = at
             \/ pcTx \notin {"submit", "urbs"} /\ pcTx' \notin {"submit", "urbs"},
             Waits(pending', c) => Waits(pending, c), plugged' => plugged,
             ~Unreaped(c) => ~Unreaped(c)' /\ sent'[c] = sent[c], trouble => trouble'
      PROVE  Lively(c)'
  <2>1. /\ Submitting(c)' <=> Submitting(c)
        /\ BeingBegun(c)' <=> BeingBegun(c)
        /\ Calling(c)' <=> Calling(c)
        /\ Reporting(c)' <=> Reporting(c)
    BY <1>2 DEF Submitting, BeingBegun, Calling, Reporting
  <2>2. Aside(c)
    BY <1>2, <2>1 DEF Aside
  <2>3. QED BY <2>2, AsideKept
<1>3. UNCHANGED <<pending, ended>> =>
        (Waits(pending', c) => Waits(pending, c)) /\ (~Unreaped(c) => ~Unreaped(c)')
  BY DEF Waits, Unreaped
<1>4. CASE Quiet
  BY <1>2, <1>3, <1>4 DEF Quiet
<1>5. CASE EvPollErr \/ EvLastReaped \/ Unplug
  BY <1>2, <1>3, <1>5, LossEffect
<1>6. CASE UrbSent
  <2>1. PICK u, x : u = Head(pending) /\ x = Ended(u, "ok", 1)
    OBVIOUS
  <2>2. /\ pending # <<>> /\ u \in UrbOut /\ x \in UrbEnd
        /\ x.ctx = u.ctx /\ x.idx = u.idx
        /\ ended' = Append(ended, x) /\ pending' = Tail(pending) /\ Only(u.ctx)
        /\ UNCHANGED <<pcTx, at, transfer, flying, owed, evElse, plugged, used, done,
                       bytesXfered, trouble>>
    BY <1>6, <2>1, SentEffect
  <2>3. \A k \in DOMAIN Tail(pending) : k + 1 \in DOMAIN pending /\ Tail(pending)[k] = pending[k + 1]
    BY <1>1, <2>2
  <2>4. Waits(pending', c) => Waits(pending, c)
    BY <2>2, <2>3 DEF Waits
  <2>5. 1 \in DOMAIN pending /\ pending[1] = u
    BY <1>1, <2>1, <2>2
  <2>6. Unreaped(c)' => Unreaped(c)
    <3>1. Line(pending', ended') = Line(pending, ended)
      BY <1>1, <2>1, <2>2, LineKept
    <3>2. QED BY <1>1, <3>1, UnreapedLeft, UnreapedLeftNext
  <2>7. ~Unreaped(c) => sent'[c] = sent[c]
    BY <2>2, <2>5 DEF Unreaped, Only
  <2>8. QED BY <1>2, <2>2, <2>4, <2>6, <2>7
<1>7. CASE UrbFails \/ UrbLost
  <2>1. /\ \A k \in DOMAIN pending' : \E l \in DOMAIN pending : pending'[k] = pending[l]
        /\ LeftOf(Line(pending', ended'), c) = LeftOf(Line(pending, ended), c)
        /\ sent' = sent /\ (trouble => trouble')
        /\ UNCHANGED <<pcTx, at, transfer, flying, owed, evElse, plugged, used, done, bytesXfered>>
    BY <1>7, EndEffect
  <2>2. Unreaped(c)' => Unreaped(c)
    BY <1>1, <2>1, UnreapedLeft, UnreapedLeftNext
  <2>3. Waits(pending', c) => Waits(pending, c)
    BY <2>1 DEF Waits
  <2>4. QED BY <1>2, <2>1, <2>2, <2>3
<1>8. QED BY <1>4, <1>5, <1>6, <1>7

(* Every step keeps every context alive or over.                             *)
LEMMA LivesKept ==
  ASSUME SendingSizes, SendingIInv, BeginFindsContext, [SendingNext]_sendingVars
  PROVE  Lives'
<1>1. SUFFICES ASSUME ~gaveUp', NEW c \in Contexts PROVE Lively(c)'
  BY DEF Lives, Lively
<1>2. ~gaveUp /\ (Trusted(c)' => Trusted(c))
  BY <1>1, TrustLost
<1>3. Lively(c) /\ EvType'
  BY <1>2, EvTypeKept DEF SendingIInv, Lives, Lively
<1>4. CASE \/ TxTurn \/ TxWaited \/ TxTimeout \/ TxFill \/ TxCancelled \/ TxEnd \/ TxStart
           \/ TxCancel /\ ~TakesCancel(at)
           \/ Terminate \/ UNCHANGED sendingVars
  <2>1. Quiet
    BY <1>4, QuietSteps
  <2>2. QED BY <1>2, <1>3, <2>1, KernelLively
<1>5. CASE UrbSent \/ UrbFails \/ UrbLost \/ EvPollErr \/ EvLastReaped \/ Unplug
  BY <1>2, <1>3, <1>5, KernelLively
<1>6. CASE TxFinish \/ TxDrain
  BY <1>1, <1>2, <1>3, <1>6, ReleaseLively
<1>7. CASE TxBegin
  <2>1. Free # {}
    BY <1>7 DEF TxBegin, BeginFindsContext
  <2>2. QED BY <1>2, <1>3, <1>7, <2>1, FreeLivelyBegin
<1>8. CASE TxSubmit
  <2>1. CASE InFlight(at)
    BY <1>2, <1>8, <2>1, RefusedEffect
  <2>2. CASE ~InFlight(at)
    BY <1>2, <1>3, <1>8, <2>2, SubmitLively
  <2>3. QED BY <2>1, <2>2
<1>9. CASE TxUrb \/ TxLaterUrbFails
  BY <1>2, <1>3, <1>9, UrbsLively
<1>10. CASE TxFirstUrbFails
  BY <1>2, <1>3, <1>10, FirstUrbFailsLively
<1>11. CASE TxSubmitted
  BY <1>2, <1>3, <1>11, SubmittedLively
<1>12. CASE TxCancel /\ TakesCancel(at)
  BY <1>2, <1>3, <1>12, CancelLively
<1>13. CASE EvReap
  BY <1>1, <1>2, <1>3, <1>13, ReapLively
<1>14. CASE EvDisconnect
  BY <1>2, <1>3, <1>14, DisconnectLively
<1>15. CASE EvComplete
  BY <1>2, <1>3, <1>15, CompleteLively
<1>16. CASE EvCallback
  BY <1>2, <1>3, <1>16, CallbackLively
<1>17. QED
  BY <1>4, <1>5, <1>6, <1>7, <1>8, <1>9, <1>10, <1>11, <1>12, <1>13, <1>14, <1>15, <1>16
  DEF SendingNext, TxNext, EvNext

-----------------------------------------------------------------------------
(* The inductive invariant of UsbSending and what follows from it.           *)

(* It holds at first: nothing is in flight.                                  *)
LEMMA SendingStarts ==
  ASSUME SendingSizes, SendingInit
  PROVE  SendingIInv
<1> USE DEF SendingInit, SendingSizes, Contexts, Urbs, Idle
<1>1. LoansIInv
  BY SendInit
<1>2. EvType
  <2>1. transfer \in [Contexts -> Transfers]
    BY DEF Transfers
  <2>2. pending \in Seq(UrbOut) /\ ended \in Seq(UrbEnd)
    OBVIOUS
  <2>3. nextUrb \in 0 .. NumUrbs /\ evAt \in Contexts
    OBVIOUS
  <2>4. /\ done \in [Contexts -> BOOLEAN] /\ bytesXfered \in [Contexts -> Nat]
        /\ sent \in [Contexts -> Nat] /\ owed \in [Contexts -> Int]
    OBVIOUS
  <2>5. /\ flying \subseteq Contexts /\ plugged \in BOOLEAN /\ continuation \in BOOLEAN
        /\ pcEv \in {"poll", "complete", "callback"}
        /\ polled \in {"yes", "lastRound", "disconnect", "no"}
    OBVIOUS
  <2>6. QED BY <2>1, <2>2, <2>3, <2>4, <2>5 DEF EvType
<1>3. ASSUME NEW c \in Contexts
      PROVE  ~Unreaped(c) /\ ~InFlight(c) /\ ~Stalled(c) /\ ~Calling(c) /\ ~Reporting(c)
  BY <1>3 DEF Unreaped, InFlight, Stalled, Calling, Reporting
<1>4. UrbsCounted
  BY <1>3 DEF UrbsCounted, Busy, Submitting
<1>5. ReportedInFlight /\ NotYetInFlight /\ FinishIsDone
  BY DEF ReportedInFlight, NotYetInFlight, FinishIsDone
<1>6. Lives
  <2>1. SUFFICES ASSUME NEW c \in Contexts PROVE Life(c) /\ StallStays(c) /\ Over(c)
    BY DEF Lives
  <2>2. ~Submitting(c) /\ ~BeingBegun(c)
    BY DEF Submitting, BeingBegun
  <2>3. QED BY <1>3, <2>1, <2>2 DEF Life, StallStays, Over
<1>7. Troubles
  <2>1. \A c \in Contexts : ~Stalled(c) /\ "disappeared" \notin transfer[c].flags
    BY <1>3
  <2>2. QED BY <2>1 DEF Troubles, Buffers
<1>8. QED BY <1>1, <1>2, <1>4, <1>5, <1>6, <1>7 DEF SendingIInv

(* The URBs of every transfer are accounted for in every state, for any      *)
(* number of contexts, buffers, URBs and faults.                             *)
THEOREM SendingInvariance == SendingSpec => []SendingIInv
<1>1. SendingInit => SendingIInv
  BY SendingSizes, SendingStarts
<1>2. ASSUME SendingIInv, [SendingNext]_sendingVars
      PROVE  SendingIInv'
  <2>1. LoansIInv
    BY <1>2 DEF SendingIInv
  <2>2. BeginFindsContext
    BY <2>1, SendingSizes, FreeContext
  <2>3. LoansIInv'
    BY <1>2, <2>1, SendingSizes, NextKeepsLoans
  <2>4. EvType'
    BY <1>2, <2>2, SendingSizes, EvTypeKept
  <2>5. UrbsCounted'
    BY <1>2, <2>2, SendingSizes, UrbsCountedKept
  <2>6. ReportedInFlight' /\ NotYetInFlight'
    BY <1>2, <2>2, SendingSizes, ReportedInFlightKept, NotYetInFlightKept
  <2>7. Lives'
    BY <1>2, <2>2, SendingSizes, LivesKept
  <2>8. FinishIsDone' /\ Troubles'
    BY <1>2, <2>2, SendingSizes, FinishIsDoneKept, TroublesKept
  <2>9. QED BY <2>3, <2>4, <2>5, <2>6, <2>7, <2>8 DEF SendingIInv
<1>3. QED BY <1>1, <1>2, PTL DEF SendingSpec

(* libusb reports a transfer, however it ended, only after its last URB came *)
(* back: no URB is ever looked up in freed memory.                           *)
THEOREM ReportedAfterLastUrbCorrect == SendingSpec => []ReportedAfterLastUrb
<1>1. ASSUME SendingIInv PROVE ReportedAfterLastUrb
  <2>1. SUFFICES ASSUME Orderly, pcEv = "complete", polled # "disconnect"
                 PROVE  ~Unreaped(evAt)
    BY DEF ReportedAfterLastUrb, Orderly
  <2>2. evAt \in Contexts /\ Trusted(evAt)
    BY <1>1, <2>1 DEF SendingIInv, EvType, Trusted
  <2>3. Alive
    BY <1>1, <2>1 DEF SendingIInv, EvType, ReportedInFlight, Alive
  <2>4. InFlight(evAt)
    BY <1>1, <2>1, <2>2, <2>3 DEF SendingIInv, ReportedInFlight
  <2>5. ~Busy(evAt)
    BY <1>1, <2>1, <2>4 DEF SendingIInv, NotYetInFlight, Busy, Submitting
  <2>6. QED BY <1>1, <2>2, <2>3, <2>5 DEF SendingIInv, UrbsCounted
<1>2. QED BY <1>1, SendingInvariance, PTL

(* A context that is done has no URB with the kernel, no callback to come    *)
(* and is not known to libusb, as long as AbortSending has not given up.     *)
THEOREM DoneMeansOverCorrect == SendingSpec => []DoneMeansOver
<1>1. ASSUME SendingIInv PROVE DoneMeansOver
  <2>1. SUFFICES ASSUME ~gaveUp, NEW c \in Contexts, used[c], done[c]
                 PROVE  owed[c] = 0 /\ ~Unreaped(c) /\ c \notin flying
    BY DEF DoneMeansOver
  <2>2. Lively(c)
    BY <1>1, <2>1 DEF SendingIInv, Lives, Lively
  <2>3. ~InFlight(c) /\ owed[c] = 0
    BY <2>1, <2>2, FreeOrDone
  <2>4. ~BeingBegun(c)
    BY <2>1, <2>2 DEF Lively, Life
  <2>5. c \notin flying
    BY <2>2, <2>3, <2>4 DEF Lively, Life, BeingBegun, Submitting
  <2>6. QED BY <2>1, <2>2, <2>3, <2>5 DEF Lively, Over
<1>2. QED BY <1>1, SendingInvariance, PTL

(* What the transmit thread reads of a context that is done is what the      *)
(* device took, in whatever order its URBs were sent, failed, were discarded *)
(* and came back.                                                            *)
THEOREM ReportedIsSentCorrect == SendingSpec => []ReportedIsSent
<1>1. SendingIInv => ReportedIsSent
  BY DEF SendingIInv, Lives, Over, ReportedIsSent
<1>2. QED BY <1>1, SendingInvariance, PTL

(* The transmit thread waits for a transfer that nobody will finish only     *)
(* after a refusal, a stall, the loss of the device or an abort that gave up.*)
THEOREM StuckOnlyWhereExplainedCorrect == SendingSpec => []StuckOnlyWhereExplained
<1>1. ASSUME SendingIInv PROVE StuckOnlyWhereExplained
  <2>1. SUFFICES ASSUME pcTx = "wait", Hopeless(bi), ~gaveUp, ~trouble
                 PROVE  FALSE
    BY DEF StuckOnlyWhereExplained
  <2>2. bi \in Buffers /\ bufferUsed[bi]
    BY <1>1, <2>1 DEF SendingIInv, LoansIInv, TxType, Hopeless
  <2>3. handles[bi] # NoHandle
    BY <1>1, <2>1, <2>2 DEF SendingIInv, Troubles
  <2> DEFINE c == handles[bi]
  <2>4. c \in Held /\ Held = {d \in Contexts : used[d]}
    BY <1>1, <2>1, <2>2, <2>3 DEF SendingIInv, LoansIInv, Loans, Held, InUse
  <2>5. c \in Contexts /\ used[c] /\ ~done[c] /\ owed[c] = 0
    BY <2>1, <2>3, <2>4 DEF Hopeless
  <2> HIDE DEF c
  <2>6. Life(c) /\ ~BeingBegun(c)
    BY <1>1, <2>1, <2>5 DEF SendingIInv, Lives, BeingBegun
  <2>7. Trusted(c)
    BY <1>1, <2>1, <2>5 DEF SendingIInv, Troubles, Trusted
  <2>8. InFlight(c) \/ Reporting(c)
    BY <2>1, <2>5, <2>6 DEF Life
  <2>9. owed[c] = 1
    BY <2>6, <2>7, <2>8 DEF Life
  <2>10. QED BY <2>5, <2>9
<1>2. QED BY <1>1, SendingInvariance, PTL
=============================================================================
