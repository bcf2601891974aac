------------------------------ MODULE UsbEvents ------------------------------
(* The event handling of libusb as the STREAM connection uses it: the event *)
(* thread of ConnectionSTREAMEntry and the thread of the program, which      *)
(* enumerates, opens, talks to the board by synchronous transfers and closes *)
(* it, and which handles events itself while it waits for a transfer. Whoever *)
(* handles events holds the events lock; the other one sleeps until it is    *)
(* given up. A pipe wakes the poll for what happens inside the library.      *)
(* A section under event_data_lock or flags_lock is one step. The flying     *)
(* list, the handles, the waiters and the transfer have locks held over      *)
(* several steps: the step a thread is at tells whether it holds one.        *)
EXTENDS Integers, Sequences, SequencesExt

CONSTANTS
  Fds,           \* descriptors the system may give the device
  Runs,          \* runs of the simulator in one process (bound)
  Enumerations   \* enumerations before a connection is made (bound; 2 in the code)

ASSUME EventSizes ==
  /\ Fds # {} /\ Runs \in Nat \ {0} /\ Enumerations \in Nat

VARIABLES
  pc,
  owner, depth,       \* events_lock, which is recursive
  active,             \* event_handler_active
  pipe,               \* bytes in the event pipe
  deviceClose, modified, hotplug,     \* device_close, pollfds_modified, hotplug_msgs
  ipollfds, pollfds,  \* descriptors to poll, and the copy poll() is called with
  ready, special,     \* those with revents still to be handled, special_event
  alive, flags, listed, urb, expired, completed,   \* the transfer, see below
  loaded,             \* flags handle_timeout has loaded
  devs,               \* open_devs: the descriptor of each handle
  openFds,            \* descriptors that are open in the process
  fd, stage, run,     \* limeFd, enumerations done in this run, runs begun
  ioError             \* the program's handle_events failed

signals    == <<pipe, deviceClose, modified, hotplug>>
lockVars   == <<owner, depth, active>>
pollVars   == <<ipollfds, pollfds, ready, special>>
transferVars == <<alive, flags, listed, urb, expired, completed>>
handleVars == <<devs, openFds, fd, stage, run>>
vars == <<pc, lockVars, signals, pollVars, transferVars, loaded, handleVars, ioError>>

Thread   == {"events", "program"}
NoThread == "none"

(* The program has one transfer at a time. alive: it is allocated. flags: of  *)
(* usbi_transfer. listed: it is in flying_transfers. urb: with the kernel,    *)
(* returned by it (answered or discarded), taken by the reaper, or none.      *)
(* expired: its time is over. completed: of sync_transfer_cb.                 *)

Init ==
  /\ pc = [t \in Thread |-> IF t = "events" THEN "next" ELSE "run"]
  /\ owner = NoThread /\ depth = 0 /\ active = FALSE
  /\ pipe = 1 /\ deviceClose = 0 /\ modified = TRUE /\ hotplug = 0
  /\ ipollfds = <<>> /\ pollfds = <<>> /\ ready = <<>> /\ special = FALSE
  /\ alive = FALSE /\ flags = {} /\ listed = FALSE /\ urb = "none"
  /\ expired = FALSE /\ completed = FALSE /\ loaded = {}
  /\ devs = <<>> /\ openFds = {} /\ fd = CHOOSE f \in Fds : TRUE
  /\ stage = 0 /\ run = 0 /\ ioError = FALSE

At(t, label) == pc[t] = label
Go(t, label) == pc' = [pc EXCEPT ![t] = label]

SubmitSteps  == {"fly", "urb", "submitted", "refused", "withdraw"}
TimeoutSteps == {"load", "store", "cancel", "timed_out"}
ReapSteps    == {"reaped", "unfly", "flags", "callback"}
PollSteps    == {"prepare", "poll", "pipe", "backend"} \cup ReapSteps

TransferLocked == pc["program"] \in SubmitSteps
FlyingLocked   == \E t \in Thread : pc[t] \in TimeoutSteps
DevsLocked     == \E t \in Thread : pc[t] \in {"backend"} \cup ReapSteps
WaitersLocked  == \E t \in Thread : At(t, "recheck")

(* Where a thread goes when its call is over: the event thread calls again,   *)
(* the program looks at *completed. Without a transfer the program is closing: *)
(* do_close unlocks first, libusb_close when device_close is down again.       *)
Return(t) == IF t = "events" THEN "next" ELSE "sync"

AfterTimeouts(t) == IF owner = t THEN "unlock" ELSE Return(t)

AfterUnlock(t) ==
  IF t = "program" /\ ~alive THEN IF deviceClose > 0 THEN "delist" ELSE "run"
  ELSE IF t = "program" /\ ioError THEN "give_up"
  ELSE Return(t)

Completed(t) == t = "program" /\ completed

(***************************** The event pipe ******************************)

Pending(close, modif, msgs) == close > 0 \/ modif \/ msgs > 0

(* Mutant: a byte is written for every event.                                 *)
SignalAlways(close, modif, msgs) ==
  /\ deviceClose' = close /\ modified' = modif /\ hotplug' = msgs
  /\ pipe' = pipe + 1

(* A byte is written when nothing was pending before.                         *)
Signalled(close, modif, msgs) ==
  /\ deviceClose' = close /\ modified' = modif /\ hotplug' = msgs
  /\ pipe' = IF Pending(deviceClose, modified, hotplug) THEN pipe ELSE pipe + 1

(* The byte is read when nothing is pending any more; with an empty pipe the  *)
(* read does not return.                                                      *)
Cleared(close, modif, msgs) ==
  /\ deviceClose' = close /\ modified' = modif /\ hotplug' = msgs
  /\ IF Pending(close, modif, msgs) THEN UNCHANGED pipe
     ELSE pipe > 0 /\ pipe' = pipe - 1

(************************** Calls that handle events ***********************)

MustTimeOut ==
  listed /\ expired /\ "TIMEOUT_HANDLED" \notin flags

GetNextTimeout(t) ==
  /\ At(t, "next") /\ ~FlyingLocked
  /\ Go(t, IF MustTimeOut THEN "timeouts" ELSE "try")
  /\ UNCHANGED <<lockVars, signals, pollVars, transferVars, loaded, handleVars, ioError>>

(* Mutant: the lock is asked for while a handle is being closed.              *)
TryRegardless(t) ==
  /\ At(t, "try")
  /\ Go(t, "trylock")
  /\ UNCHANGED <<lockVars, signals, pollVars, transferVars, loaded, handleVars, ioError>>

TryLockEvents(t) ==
  /\ At(t, "try")
  /\ Go(t, IF deviceClose > 0 THEN "wait" ELSE "trylock")
  /\ UNCHANGED <<lockVars, signals, pollVars, transferVars, loaded, handleVars, ioError>>

TryEventsLock(t) ==
  /\ At(t, "trylock")
  /\ IF owner = NoThread
     THEN owner' = t /\ depth' = 1 /\ Go(t, "locked")
     ELSE UNCHANGED <<owner, depth>> /\ Go(t, "wait")
  /\ UNCHANGED <<active, signals, pollVars, transferVars, loaded, handleVars, ioError>>

BecomeActive(t) ==
  /\ At(t, "locked")
  /\ active' = TRUE
  /\ Go(t, IF Completed(t) THEN "unlock" ELSE "prepare")
  /\ ioError' = (ioError /\ t # "program")
  /\ UNCHANGED <<owner, depth, signals, pollVars, transferVars, loaded, handleVars>>

LockWaiters(t) ==
  /\ At(t, "wait") /\ ~WaitersLocked
  /\ Go(t, IF Completed(t) THEN Return(t) ELSE "recheck")
  /\ UNCHANGED <<lockVars, signals, pollVars, transferVars, loaded, handleVars, ioError>>

(* Mutant: it sleeps without a second look at the handler.                    *)
SleepAtOnce(t) ==
  /\ At(t, "recheck")
  /\ Go(t, "asleep")
  /\ UNCHANGED <<lockVars, signals, pollVars, transferVars, loaded, handleVars, ioError>>

WaitForEvent(t) ==
  /\ At(t, "recheck")
  /\ Go(t, IF deviceClose > 0 \/ active THEN "asleep" ELSE "try")
  /\ UNCHANGED <<lockVars, signals, pollVars, transferVars, loaded, handleVars, ioError>>

WaitExpires(t) ==
  /\ At(t, "asleep")
  /\ Go(t, "timeouts")
  /\ UNCHANGED <<lockVars, signals, pollVars, transferVars, loaded, handleVars, ioError>>

UnlockEvents(t) ==
  /\ At(t, "unlock")
  /\ active' = FALSE
  /\ Go(t, "release")
  /\ UNCHANGED <<owner, depth, signals, pollVars, transferVars, loaded, handleVars, ioError>>

(* Mutant: the lock is not recursive; the first unlock gives it up.           *)
ReleaseAtOnce(t) ==
  /\ At(t, "release")
  /\ depth' = depth - 1
  /\ owner' = NoThread
  /\ Go(t, "broadcast")
  /\ UNCHANGED <<active, signals, pollVars, transferVars, loaded, handleVars, ioError>>

ReleaseEvents(t) ==
  /\ At(t, "release")
  /\ depth' = depth - 1
  /\ owner' = IF depth' = 0 THEN NoThread ELSE owner
  /\ Go(t, "broadcast")
  /\ UNCHANGED <<active, signals, pollVars, transferVars, loaded, handleVars, ioError>>

Broadcast(t) ==
  /\ At(t, "broadcast") /\ ~WaitersLocked
  /\ pc' = [u \in Thread |-> IF u = t THEN AfterUnlock(t)
                             ELSE IF At(u, "asleep") THEN Return(u) ELSE pc[u]]
  /\ UNCHANGED <<lockVars, signals, pollVars, transferVars, loaded, handleVars, ioError>>

(******************************* handle_events *****************************)

PreparePoll(t) ==
  /\ At(t, "prepare")
  /\ IF modified
     THEN pollfds' = ipollfds /\ Cleared(deviceClose, FALSE, hotplug)
     ELSE UNCHANGED <<pollfds, signals>>
  /\ Go(t, "poll")
  /\ UNCHANGED <<lockVars, ipollfds, ready, special, transferVars, loaded, handleVars, ioError>>

(* A closed descriptor is reported at once (POLLNVAL). The timeout of a poll  *)
(* is finite, so that one that finds nothing ends too.                        *)
HasRevents(f) == f \notin openFds \/ (f = fd /\ urb = "returned")

Poll(t) ==
  /\ At(t, "poll")
  /\ ready' = SelectSeq(pollfds, HasRevents)
  /\ special' = FALSE
  /\ Go(t, IF pipe > 0 THEN "pipe" ELSE IF ready' # <<>> THEN "backend" ELSE "timeouts")
  /\ UNCHANGED <<lockVars, signals, ipollfds, pollfds, transferVars, loaded, handleVars, ioError>>

Handled == IF special' THEN "poll" ELSE "unlock"

HandlePipe(t) ==
  /\ At(t, "pipe")
  /\ special' = (hotplug > 0)
  /\ Cleared(deviceClose, modified, IF hotplug > 0 THEN hotplug - 1 ELSE 0)
  /\ Go(t, IF ready = <<>> THEN Handled ELSE "backend")
  /\ UNCHANGED <<lockVars, ipollfds, pollfds, ready, transferVars, loaded, handleVars, ioError>>

(* The loop of op_handle_events over the descriptors, one reap at a time. An  *)
(* error ends it, whatever descriptors are left.                              *)
ReapForHandle(t) ==
  /\ At(t, "backend") /\ ready # <<>>
  /\ LET f == Head(ready) IN
     IF f \notin Range(devs)
     THEN ready' = Tail(ready) /\ UNCHANGED <<pc, urb, ioError>>
     ELSE IF f \notin openFds
     THEN /\ Go(t, "unlock") /\ ready' = <<>>
          /\ ioError' = (ioError \/ t = "program") /\ UNCHANGED urb
     ELSE IF f = fd /\ urb = "returned"
     THEN /\ Go(t, "reaped") /\ urb' = "taken"
          /\ UNCHANGED <<ready, ioError>>
     ELSE ready' = Tail(ready) /\ UNCHANGED <<pc, urb, ioError>>
  /\ UNCHANGED <<alive, flags, listed, expired, completed>>
  /\ UNCHANGED <<lockVars, signals, ipollfds, pollfds, special, loaded, handleVars>>

BackendDone(t) ==
  /\ At(t, "backend") /\ ready = <<>>
  /\ UNCHANGED special
  /\ Go(t, Handled)
  /\ UNCHANGED <<lockVars, signals, ipollfds, pollfds, ready, transferVars, loaded,
                 handleVars, ioError>>

UnchangedButTransfer ==
  UNCHANGED <<lockVars, signals, pollVars, loaded, handleVars, ioError>>

HandleCompletion(t) ==
  /\ At(t, "reaped") /\ ~TransferLocked
  /\ urb' = "none"
  /\ Go(t, "unfly")
  /\ UNCHANGED <<alive, flags, listed, expired, completed>>
  /\ UnchangedButTransfer

(* Mutant: the transfer leaves the list without flying_transfers_lock.        *)
RemoveUnlocked(t) ==
  /\ At(t, "unfly")
  /\ listed' = FALSE
  /\ Go(t, "flags")
  /\ UNCHANGED <<alive, flags, urb, expired, completed>>
  /\ UnchangedButTransfer

RemoveFromFlyingList(t) ==
  /\ At(t, "unfly") /\ ~FlyingLocked
  /\ listed' = FALSE
  /\ Go(t, "flags")
  /\ UNCHANGED <<alive, flags, urb, expired, completed>>
  /\ UnchangedButTransfer

MarkCompleted(t) ==
  /\ At(t, "flags")
  /\ flags' = (flags \ {"IN_FLIGHT"}) \cup {"COMPLETED"}
  /\ Go(t, "callback")
  /\ UNCHANGED <<alive, listed, urb, expired, completed>>
  /\ UnchangedButTransfer

SyncTransferCb(t) ==
  /\ At(t, "callback")
  /\ completed' = TRUE
  /\ Go(t, "backend")
  /\ UNCHANGED <<alive, flags, listed, urb, expired>>
  /\ UnchangedButTransfer

(****************************** Timeouts ***********************************)

HandleTimeouts(t) ==
  /\ At(t, "timeouts") /\ ~FlyingLocked
  /\ Go(t, IF MustTimeOut THEN "load" ELSE AfterTimeouts(t))
  /\ UNCHANGED <<lockVars, signals, pollVars, transferVars, loaded, handleVars, ioError>>

(* handle_timeout changes the flags without flags_lock: a load and a store.   *)
LoadFlags(t) ==
  /\ At(t, "load")
  /\ loaded' = flags
  /\ Go(t, "store")
  /\ UNCHANGED <<lockVars, signals, pollVars, transferVars, handleVars, ioError>>

StoreFlags(t) ==
  /\ At(t, "store")
  /\ flags' = loaded \cup {"TIMEOUT_HANDLED"}
  /\ loaded' = {}
  /\ Go(t, "cancel")
  /\ UNCHANGED <<alive, listed, urb, expired, completed>>
  /\ UNCHANGED <<lockVars, signals, pollVars, handleVars, ioError>>

(* libusb_cancel_transfer: only an URB that the kernel still has is discarded.*)
Cancellable == "IN_FLIGHT" \in flags /\ "CANCELLING" \notin flags

CancelTransfer ==
  /\ flags' = IF Cancellable THEN flags \cup {"CANCELLING"} ELSE flags
  /\ urb' = IF Cancellable /\ urb = "kernel" THEN "returned" ELSE urb

CancelTimedOut(t) ==
  /\ At(t, "cancel") /\ ~TransferLocked
  /\ CancelTransfer
  /\ Go(t, IF Cancellable /\ urb = "kernel" THEN "timed_out" ELSE AfterTimeouts(t))
  /\ UNCHANGED <<alive, listed, expired, completed>>
  /\ UnchangedButTransfer

MarkTimedOut(t) ==
  /\ At(t, "timed_out")
  /\ flags' = flags \cup {"TIMED_OUT"}
  /\ Go(t, AfterTimeouts(t))
  /\ UNCHANGED <<alive, listed, urb, expired, completed>>
  /\ UnchangedButTransfer

(******************************* The program *******************************)

(* The activity opens the device and calls runSimulator with its descriptor.  *)
BeginRun ==
  /\ At("program", "run") /\ run < Runs
  /\ \E f \in Fds \ openFds : fd' = f /\ openFds' = openFds \cup {f}
  /\ run' = run + 1 /\ stage' = 0
  /\ Go("program", "connect")
  /\ UNCHANGED <<lockVars, signals, pollVars, transferVars, loaded, devs, ioError>>

GetDevice ==
  /\ At("program", "connect")
  /\ Signalled(deviceClose, modified, hotplug + 1)
  /\ Go("program", "open")
  /\ UNCHANGED <<lockVars, pollVars, transferVars, loaded, handleVars, ioError>>

(* Mutant: nobody is told of the new descriptor.                              *)
AddUnnoticed ==
  /\ At("program", "open")
  /\ ipollfds' = Append(ipollfds, fd)
  /\ Signalled(deviceClose, modified, hotplug)
  /\ Go("program", "list")
  /\ UNCHANGED <<lockVars, pollfds, ready, special, transferVars, loaded, handleVars, ioError>>

AddPollfd ==
  /\ At("program", "open")
  /\ ipollfds' = Append(ipollfds, fd)
  /\ Signalled(deviceClose, TRUE, hotplug)
  /\ Go("program", "list")
  /\ UNCHANGED <<lockVars, pollfds, ready, special, transferVars, loaded, handleVars, ioError>>

ListHandle ==
  /\ At("program", "list") /\ ~DevsLocked
  /\ devs' = Append(devs, fd)
  /\ Go("program", "submit")
  /\ UNCHANGED <<lockVars, signals, pollVars, transferVars, loaded, openFds, fd, stage, run, ioError>>

Submit ==
  /\ At("program", "submit")
  /\ alive' = TRUE /\ flags' = {"SUBMITTING"} /\ listed' = FALSE /\ urb' = "none"
  /\ expired' = FALSE /\ completed' = FALSE
  /\ Go("program", "fly")
  /\ UnchangedButTransfer

AddToFlyingList ==
  /\ At("program", "fly") /\ ~FlyingLocked
  /\ listed' = TRUE
  /\ Go("program", "urb")
  /\ UNCHANGED <<alive, flags, urb, expired, completed>>
  /\ UnchangedButTransfer

SubmitUrb ==
  /\ At("program", "urb")
  /\ \/ urb' = "kernel" /\ Go("program", "submitted")
     \/ UNCHANGED urb /\ Go("program", "refused")
  /\ UNCHANGED <<alive, flags, listed, expired, completed>>
  /\ UnchangedButTransfer

MarkInFlight ==
  /\ At("program", "submitted")
  /\ flags' = (flags \ {"SUBMITTING"})
               \cup (IF "COMPLETED" \in flags THEN {} ELSE {"IN_FLIGHT"})
  /\ Go("program", "sync")
  /\ UNCHANGED <<alive, listed, urb, expired, completed>>
  /\ UnchangedButTransfer

(* A run enumerates, each time by a new device and a handle that is not       *)
(* closed, then makes the connection with another one, which it closes.       *)
Freed ==
  /\ alive' = FALSE /\ flags' = {} /\ listed' = FALSE /\ urb' = "none"
  /\ expired' = FALSE /\ completed' = FALSE
  /\ IF stage < Enumerations THEN stage' = stage + 1 /\ Go("program", "connect")
     ELSE UNCHANGED stage /\ Go("program", "close")

MarkRefused ==
  /\ At("program", "refused")
  /\ flags' = flags \ {"SUBMITTING"}
  /\ Go("program", "withdraw")
  /\ UNCHANGED <<alive, listed, urb, expired, completed>>
  /\ UnchangedButTransfer

Withdraw ==
  /\ At("program", "withdraw") /\ ~FlyingLocked
  /\ Freed
  /\ UNCHANGED <<lockVars, signals, pollVars, loaded, devs, openFds, fd, run, ioError>>

WaitForCompletion ==
  /\ At("program", "sync")
  /\ IF completed THEN Freed
     ELSE Go("program", "next") /\ UNCHANGED <<transferVars, stage>>
  /\ UNCHANGED <<lockVars, signals, pollVars, loaded, devs, openFds, fd, run, ioError>>

GiveUp ==
  /\ At("program", "give_up")
  /\ CancelTransfer
  /\ ioError' = FALSE
  /\ Go("program", "sync")
  /\ UNCHANGED <<alive, listed, expired, completed>>
  /\ UNCHANGED <<lockVars, signals, pollVars, loaded, handleVars>>

(******************************* libusb_close ******************************)

AnnounceClose ==
  /\ At("program", "close")
  /\ Signalled(deviceClose + 1, modified, hotplug)
  /\ Go("program", "lock")
  /\ UNCHANGED <<lockVars, pollVars, transferVars, loaded, handleVars, ioError>>

LockEvents ==
  /\ At("program", "lock") /\ owner = NoThread
  /\ owner' = "program" /\ depth' = 1
  /\ Go("program", "relock")
  /\ UNCHANGED <<active, signals, pollVars, transferVars, loaded, handleVars, ioError>>

LockAgain ==
  /\ At("program", "relock")
  /\ depth' = depth + 1 /\ active' = TRUE
  /\ Go("program", "drop")
  /\ UNCHANGED <<owner, signals, pollVars, transferVars, loaded, handleVars, ioError>>

DropFlying ==
  /\ At("program", "drop") /\ ~FlyingLocked
  /\ listed' = FALSE
  /\ Go("program", "unlock")
  /\ UNCHANGED <<alive, flags, urb, expired, completed>>
  /\ UnchangedButTransfer

DelistHandle ==
  /\ At("program", "delist") /\ ~DevsLocked
  /\ devs' = RemoveFirst(devs, fd)
  /\ Go("program", "unpoll")
  /\ UNCHANGED <<lockVars, signals, pollVars, transferVars, loaded, openFds, fd, stage, run, ioError>>

RemovePollfd ==
  /\ At("program", "unpoll")
  /\ ipollfds' = RemoveFirst(ipollfds, fd)
  /\ Signalled(deviceClose, TRUE, hotplug)
  /\ Go("program", "close_fd")
  /\ UNCHANGED <<lockVars, pollfds, ready, special, transferVars, loaded, handleVars, ioError>>

CloseFd ==
  /\ At("program", "close_fd")
  /\ openFds' = openFds \ {fd}
  /\ Go("program", "closed")
  /\ UNCHANGED <<lockVars, signals, pollVars, transferVars, loaded, devs, fd, stage, run, ioError>>

CloseDone ==
  /\ At("program", "closed")
  /\ Cleared(deviceClose - 1, modified, hotplug)
  /\ Go("program", "unlock")
  /\ UNCHANGED <<lockVars, pollVars, transferVars, loaded, handleVars, ioError>>

(**************************** Time and the device **************************)

(* The device may answer, or never.                                           *)
Answer ==
  /\ urb = "kernel"
  /\ urb' = "returned"
  /\ UNCHANGED <<alive, flags, listed, expired, completed>>
  /\ UNCHANGED pc /\ UnchangedButTransfer

Expire ==
  /\ alive /\ ~expired
  /\ expired' = TRUE
  /\ UNCHANGED <<alive, flags, listed, urb, completed>>
  /\ UNCHANGED pc /\ UnchangedButTransfer

Handling(t) ==
  \/ GetNextTimeout(t) \/ TryLockEvents(t) \/ TryEventsLock(t) \/ BecomeActive(t)
  \/ LockWaiters(t) \/ WaitForEvent(t) \/ WaitExpires(t)
  \/ UnlockEvents(t) \/ ReleaseEvents(t) \/ Broadcast(t)
  \/ PreparePoll(t) \/ Poll(t) \/ HandlePipe(t) \/ ReapForHandle(t) \/ BackendDone(t)
  \/ HandleCompletion(t) \/ RemoveFromFlyingList(t) \/ MarkCompleted(t) \/ SyncTransferCb(t)
  \/ HandleTimeouts(t) \/ LoadFlags(t) \/ StoreFlags(t) \/ CancelTimedOut(t) \/ MarkTimedOut(t)

Program ==
  \/ BeginRun \/ GetDevice \/ AddPollfd \/ ListHandle
  \/ Submit \/ AddToFlyingList \/ SubmitUrb \/ MarkInFlight \/ MarkRefused \/ Withdraw
  \/ WaitForCompletion \/ GiveUp
  \/ AnnounceClose \/ LockEvents \/ LockAgain \/ DropFlying \/ DelistHandle
  \/ RemovePollfd \/ CloseFd \/ CloseDone
  \/ Handling("program")

Next == Handling("events") \/ Program \/ Answer \/ Expire

(* Each thread is scheduled and time passes; the device owes nothing. The     *)
(* waiters lock is held for two reads by a thread that then sleeps, up to     *)
(* 250 ms, so that a thread that asks for it again and again gets it.         *)
Spec == /\ Init /\ [][Next]_vars
        /\ WF_vars(Handling("events")) /\ WF_vars(Program) /\ WF_vars(Expire)
        /\ \A t \in Thread : SF_vars(Broadcast(t))

(******************************** Properties *******************************)

TypeOK ==
  /\ pc \in [Thread -> STRING]
  /\ owner \in Thread \cup {NoThread} /\ depth \in 0 .. 2 /\ active \in BOOLEAN
  /\ pipe \in Nat /\ deviceClose \in 0 .. 1 /\ modified \in BOOLEAN /\ hotplug \in Nat
  /\ ipollfds \in Seq(Fds) /\ pollfds \in Seq(Fds) /\ ready \in Seq(Fds) /\ special \in BOOLEAN
  /\ devs \in Seq(Fds) /\ openFds \subseteq Fds /\ fd \in Fds
  /\ stage \in 0 .. Enumerations /\ run \in 0 .. Runs /\ ioError \in BOOLEAN

(* The pipe holds one byte while something is pending and none otherwise: a   *)
(* poll neither misses what is pending nor is woken for nothing, and no read  *)
(* of the pipe waits for a byte that does not come.                           *)
PipeMatchesEvents == pipe = IF Pending(deviceClose, modified, hotplug) THEN 1 ELSE 0

(* While a handle is taken apart and its descriptor closed, the other thread  *)
(* neither polls nor reaps, though do_close unlocks the events lock half way. *)
ClosedAlone ==
  pc["program"] \in {"drop", "delist", "unpoll", "close_fd", "closed"}
    => pc["events"] \notin PollSteps

(* Nobody works on a transfer that its caller has freed: not the reaper after *)
(* the callback, nor the thread that handles its timeout.                     *)
TransferAlive ==
  (\E t \in Thread : pc[t] \in TimeoutSteps \cup ReapSteps) => alive

(* A thread that sleeps is woken by what it waits for: another one has the    *)
(* events lock, is about to wake the waiters, or is closing a handle.         *)
SleeperIsWoken ==
  \A t \in Thread : At(t, "asleep") =>
    \E u \in Thread \ {t} : owner = u \/ At(u, "broadcast") \/ deviceClose > 0

(* A synchronous transfer returns, answered or not, unless its time was over  *)
(* while it was being submitted, so that the locks of the submission and of   *)
(* the timeout cross, or the timeout stores flags it loaded before the         *)
(* submission set IN_FLIGHT, and cancels nothing; or unless a closed           *)
(* descriptor is still polled, as the handles an enumeration of an earlier     *)
(* run left open are.                                                          *)
LocksCross ==
  At("program", "withdraw") /\ \E t \in Thread : At(t, "cancel")

FlagLost ==
  /\ ~TransferLocked /\ urb = "kernel"
  /\ "TIMEOUT_HANDLED" \in flags /\ "IN_FLIGHT" \notin flags

DeadFd == \E f \in Range(ipollfds) : f \notin openFds

SyncReturns == alive ~> (~alive \/ LocksCross \/ FlagLost \/ DeadFd)

(* A close gets the events lock from a thread that asks for it again and      *)
(* again, and ends.                                                           *)
CloseReturns == At("program", "close") ~> At("program", "run")
=============================================================================
