----------------------------- MODULE UsbSending -----------------------------
(***************************************************************************)
(* Below the transmit thread of LimeSuite: it sends its buffers with       *)
(* asynchronous bulk transfers of libusb, each held by a context of        *)
(* ConnectionSTREAM.  libusb splits a transfer into URBs for the kernel;   *)
(* the event thread of ConnectionSTREAMEntry reaps the URBs that ended and *)
(* calls the context back.  The device may stall, fail or be unplugged.    *)
(*                                                                         *)
(* A URB carries one unit of data.  The endpoint is OUT: a URB that ends   *)
(* well has sent its unit, and there is neither a short URB nor an         *)
(* overflow.  The transfers have no timeout, so libusb's timers play no    *)
(* part.  A handler that takes the lock of the transfer is one step.       *)
(***************************************************************************)
EXTENDS Integers, Sequences, FiniteSets

CONSTANTS
  NumContexts,  \* USB_MAX_CONTEXTS
  BuffersCount, \* GetBuffersCount(): buffers of the transmit thread
  NumUrbs,      \* URBs of a transfer
  MaxBegins,    \* bounds of the model: transfers begun,
  MaxFaults     \* and URBs that fail or are refused, or a device unplugged

ASSUME SendingSizes ==
  /\ NumContexts \in Nat \ {0} /\ BuffersCount \in Nat \ {0} /\ NumUrbs \in Nat \ {0}
  /\ BuffersCount <= NumContexts
  /\ MaxBegins \in Nat /\ MaxFaults \in Nat

VARIABLES
  pcTx,
  bi, handles, bufferUsed,    \* of TransmitPacketsLoop
  terminateTx,
  at,                         \* the context it submits, cancels or finishes
  nextUrb,                    \* the URB it submits
  used, done, bytesXfered,    \* the contexts
  transfer,                   \* libusb's and linux_usbfs's part of each transfer
  flying,                     \* flying_transfers
  pcEv, evAt, evStatus,       \* the event thread, and the transfer it reports
  polled,                     \* the device is in the set it polls
  pending, ended,             \* the kernel's URBs, in order
  plugged,
  continuation,               \* it knows which URBs continue a failed one
  begins, sent, owed, faults, gaveUp, trouble  \* history; see below

txVars  == <<bi, handles, bufferUsed>>
ctxVars == <<used, done, bytesXfered>>
evVars  == <<pcEv, evAt, evStatus, polled>>
kernelVars == <<pending, ended, plugged, continuation>>
sendingVars ==
  <<pcTx, txVars, terminateTx, at, nextUrb, ctxVars, transfer, flying, evVars, kernelVars,
    begins, sent, owed, faults, gaveUp, trouble>>

Contexts == 0 .. NumContexts - 1
Buffers  == 0 .. BuffersCount - 1
Urbs     == 0 .. NumUrbs - 1
NoHandle == -1

Idle == [flags |-> {}, transferred |-> 0, urbs |-> FALSE, num_retired |-> 0,
         reap_action |-> "normal", reap_status |-> "completed"]

(* sent: units the device took of the transfer; owed: callbacks to come for*)
(* the context; faults: see MaxFaults; gaveUp: AbortSending has finished a *)
(* context whose transfer was not done; trouble: a URB was refused or      *)
(* stalled, or the device is gone.                                         *)
SendingInit ==
  /\ pcTx = "loop"
  /\ bi = 0 /\ handles = [b \in Buffers |-> 0] /\ bufferUsed = [b \in Buffers |-> FALSE]
  /\ terminateTx = FALSE
  /\ at = 0 /\ nextUrb = 0
  /\ used = [c \in Contexts |-> FALSE] /\ done = [c \in Contexts |-> FALSE]
  /\ bytesXfered = [c \in Contexts |-> 0]
  /\ transfer = [c \in Contexts |-> Idle]
  /\ flying = {}
  /\ pcEv = "poll" /\ evAt = 0 /\ evStatus = "completed" /\ polled = "yes"
  /\ pending = <<>> /\ ended = <<>> /\ plugged = TRUE
  /\ continuation \in BOOLEAN
  /\ begins = 0
  /\ sent = [c \in Contexts |-> 0] /\ owed = [c \in Contexts |-> 0]
  /\ faults = 0 /\ gaveUp = FALSE /\ trouble = FALSE

-----------------------------------------------------------------------------
(* The kernel.  A URB that ends is appended to the completed ones.         *)

Urb(c, i) == [ctx |-> c, idx |-> i]
Ended(u, s, n) == [ctx |-> u.ctx, idx |-> u.idx, status |-> s, n |-> n]
IsPending(c, i) == \E k \in DOMAIN pending : pending[k] = Urb(c, i)

(* The URBs of q at the positions K, in their order.  (Not with SelectSeq, *)
(* which is recursive: proofs could not expand it.)                        *)
Rank(K, k) == Cardinality({j \in K : j <= k})
Nth(K, i) == CHOOSE k \in K : Rank(K, k) = i
Those(q, K) == [i \in 1 .. Cardinality(K) |-> q[Nth(K, i)]]

(* The pending URBs at the positions K are discarded, from the last to the *)
(* first.  One may have sent its unit only if its turn had come.           *)
Discarded(K, n) ==
  [i \in 1 .. Cardinality(K) |->
     LET k == Nth(K, Cardinality(K) + 1 - i)
     IN Ended(pending[k], "cancelled", IF k = 1 THEN n ELSE 0)]

(* discard_urbs().  An unplugged device cannot be asked to discard.        *)
OfRange(u, c, first, last) == u.ctx = c /\ u.idx \in first .. last
DiscardUrbs(c, first, last, n) ==
  LET K == {k \in DOMAIN pending : plugged /\ OfRange(pending[k], c, first, last)}
  IN [urbs |-> Discarded(K, n),
      rest |-> Those(pending, DOMAIN pending \ K),
      sent |-> IF 1 \in K THEN n ELSE 0]

Fault(bad) ==
  /\ faults < MaxFaults
  /\ faults' = faults + 1
  /\ trouble' = (trouble \/ bad)

NoFault == UNCHANGED <<faults, trouble>>

kernelElse == <<pcTx, txVars, terminateTx, at, nextUrb, ctxVars, transfer, flying, evVars,
                continuation, begins, owed, gaveUp>>

(* The URB whose turn it is ends well.                                     *)
UrbSent ==
  /\ pending # <<>> /\ plugged
  /\ LET u == Head(pending)
     IN /\ ended' = Append(ended, Ended(u, "ok", 1))
        /\ sent' = [sent EXCEPT ![u.ctx] = @ + 1]
  /\ pending' = Tail(pending)
  /\ NoFault
  /\ UNCHANGED <<plugged, kernelElse>>

(* It fails.  If the kernel knows which URBs continue it, they are         *)
(* cancelled.                                                              *)
UrbEnds(status) ==
  LET u == Head(pending)
      K == {k \in 2 .. Len(pending) : continuation /\ pending[k].ctx = u.ctx}
  IN /\ ended' = Append(ended, Ended(u, status, 0))
                 \o [i \in 1 .. Cardinality(K) |-> Ended(pending[Nth(K, i)], "cancelled", 0)]
     /\ pending' = Those(pending, (2 .. Len(pending)) \ K)
     /\ UNCHANGED <<sent, plugged, kernelElse>>

UrbFails ==
  /\ pending # <<>> /\ plugged
  /\ \E status \in {"error", "stall"} : UrbEnds(status) /\ Fault(status = "stall")

(* Without the device the URBs are given back one by one.                  *)
UrbLost ==
  /\ pending # <<>> /\ ~plugged
  /\ \E status \in {"error", "noDevice", "cancelled"} : UrbEnds(status)
  /\ NoFault

Unplug ==
  /\ plugged
  /\ plugged' = FALSE
  /\ Fault(TRUE)
  /\ UNCHANGED <<pending, ended, sent, kernelElse>>

-----------------------------------------------------------------------------
(* The transmit thread: TransmitPacketsLoop.                               *)

(* The thread is told to stop, by the application or because the samples   *)
(* ran out.                                                                *)
Terminate ==
  /\ ~terminateTx
  /\ terminateTx' = TRUE
  /\ UNCHANGED <<pcTx, txVars, at, nextUrb, ctxVars, transfer, flying, evVars, kernelVars,
                 begins, sent, owed, faults, gaveUp, trouble>>

TxTurn ==
  /\ pcTx = "loop"
  /\ pcTx' = IF terminateTx THEN "cancel" ELSE IF bufferUsed[bi] THEN "wait" ELSE "fill"
  /\ at' = 0
  /\ UNCHANGED <<txVars, terminateTx, nextUrb, ctxVars, transfer, flying, evVars, kernelVars,
                 begins, sent, owed, faults, gaveUp, trouble>>

IsUsed(h) == h # NoHandle /\ used[h]
IsDone(h) == IsUsed(h) /\ done[h]

(* WaitForSending() succeeds.                                              *)
TxWaited ==
  /\ pcTx = "wait"
  /\ IsDone(handles[bi])
  /\ pcTx' = "finish"
  /\ UNCHANGED <<txVars, terminateTx, at, nextUrb, ctxVars, transfer, flying, evVars,
                 kernelVars, begins, sent, owed, faults, gaveUp, trouble>>

WaitsForNothing(h) == ~IsUsed(h)   \* mutant: the wait has no timeout
WaitsInVain(h) == ~IsDone(h)

(* It waits in vain.  (Of context -1, which is the last one of the contexts*)
(* to read, it finds that it is not used.)                                 *)
TxTimeout ==
  /\ pcTx = "wait"
  /\ WaitsInVain(handles[bi])
  /\ pcTx' = "loop"
  /\ UNCHANGED <<txVars, terminateTx, at, nextUrb, ctxVars, transfer, flying, evVars,
                 kernelVars, begins, sent, owed, faults, gaveUp, trouble>>

KeepsContext(c) == UNCHANGED used   \* mutant: it stays in use
Release(c) == used' = [used EXCEPT ![c] = FALSE]

TxFinish ==
  /\ pcTx = "finish"
  /\ Release(handles[bi])
  /\ bufferUsed' = [bufferUsed EXCEPT ![bi] = FALSE]
  /\ pcTx' = "fill"
  /\ UNCHANGED <<bi, handles, terminateTx, at, nextUrb, done, bytesXfered, transfer, flying,
                 evVars, kernelVars, begins, sent, owed, faults, gaveUp, trouble>>

TxFill ==
  /\ pcTx = "fill"
  /\ pcTx' = IF terminateTx THEN "cancel" ELSE "begin"
  /\ terminateTx \/ begins < MaxBegins
  /\ UNCHANGED <<txVars, terminateTx, at, nextUrb, ctxVars, transfer, flying, evVars,
                 kernelVars, begins, sent, owed, faults, gaveUp, trouble>>

(* The transfer of the buffer has the handle, whatever it is.              *)
Begun(handle) ==
  /\ handles' = [handles EXCEPT ![bi] = handle]
  /\ bufferUsed' = [bufferUsed EXCEPT ![bi] = TRUE]
  /\ bi' = (bi + 1) % BuffersCount
  /\ at' = 0 /\ nextUrb' = 0
  /\ pcTx' = "loop"

Free == {c \in Contexts : ~used[c]}

(* Mutant: done is not reset.                                              *)
ResetBytes(c) ==
  /\ bytesXfered' = [bytesXfered EXCEPT ![c] = 0]
  /\ UNCHANGED done

ResetContext(c) ==
  /\ done' = [done EXCEPT ![c] = FALSE]
  /\ bytesXfered' = [bytesXfered EXCEPT ![c] = 0]

(* BeginDataSending() takes the first free context and fills its transfer. *)
BeginFree ==
  \E c \in Free :
     /\ \A d \in Free : c <= d
     /\ used' = [used EXCEPT ![c] = TRUE]
     /\ ResetContext(c)
     /\ at' = c /\ pcTx' = "submit"
     /\ UNCHANGED <<txVars, nextUrb>>

TxBegin ==
  /\ pcTx = "begin"
  /\ begins' = begins + 1
  /\ IF Free # {} THEN BeginFree
     ELSE Begun(NoHandle) /\ UNCHANGED ctxVars
  /\ UNCHANGED <<terminateTx, transfer, flying, evVars, kernelVars, sent, owed,
                 faults, gaveUp, trouble>>

(* BeginDataSending() ends with an error.                                  *)
Refused(c) ==
  /\ Release(c)
  /\ Begun(NoHandle)

(* libusb_submit_transfer(), which holds the lock of the transfer until it *)
(* returns.  It refuses a transfer that is still in flight.                *)
TxSubmit ==
  /\ pcTx = "submit"
  /\ IF "inFlight" \in transfer[at].flags
     THEN Refused(at) /\ UNCHANGED <<transfer, flying, sent>>
     ELSE /\ transfer' = [transfer EXCEPT ![at] =
                            [Idle EXCEPT !.flags = {"submitting"}, !.urbs = TRUE]]
          /\ flying' = flying \cup {at}
          /\ sent' = [sent EXCEPT ![at] = 0]
          /\ pcTx' = "urbs"
          /\ UNCHANGED <<txVars, at, nextUrb, used>>
  /\ UNCHANGED <<terminateTx, done, bytesXfered, evVars, kernelVars, begins, owed,
                 faults, gaveUp, trouble>>

(* A URB of the transfer ended before its turn in the submission, and the *)
(* kernel takes none that continues it (EREMOTEIO).                        *)
EndedEarly(c) ==
  continuation /\ \E k \in DOMAIN ended : ended[k].ctx = c /\ ended[k].status # "ok"

(* submit_bulk_transfer() gives the kernel one URB after the other.        *)
TxUrb ==
  /\ pcTx = "urbs" /\ nextUrb < NumUrbs /\ plugged /\ ~EndedEarly(at)
  /\ pending' = Append(pending, Urb(at, nextUrb))
  /\ nextUrb' = nextUrb + 1
  /\ UNCHANGED <<pcTx, txVars, terminateTx, at, ctxVars, transfer, flying, evVars,
                 ended, plugged, continuation, begins, sent, owed, faults, gaveUp,
                 trouble>>

(* The kernel refuses the first URB: so is the transfer.                   *)
TxFirstUrbFails ==
  /\ pcTx = "urbs" /\ nextUrb = 0
  /\ transfer' = [transfer EXCEPT ![at].urbs = FALSE, ![at].flags = @ \ {"submitting"}]
  /\ flying' = flying \ {at}
  /\ Refused(at)
  /\ IF plugged THEN Fault(TRUE) ELSE NoFault
  /\ UNCHANGED <<terminateTx, done, bytesXfered, evVars, kernelVars, begins,
                 sent, owed, gaveUp>>

NotSubmittedBehind == NumUrbs - nextUrb - 1   \* mutant: off by one
NotSubmitted == NumUrbs - nextUrb

(* It refuses a later one.  The transfer is submitted all the same, and the*)
(* URBs before are discarded, unless one of them ended early.              *)
TxLaterUrbFails ==
  /\ pcTx = "urbs" /\ nextUrb \in 1 .. NumUrbs - 1
  /\ nextUrb' = NumUrbs
  /\ \E early \in BOOLEAN, n \in {0, 1} :
       /\ early => plugged /\ EndedEarly(at)
       /\ IF plugged /\ ~early THEN Fault(TRUE) ELSE NoFault
       /\ LET d == DiscardUrbs(at, 0, IF early THEN -1 ELSE nextUrb - 1, n)
          IN /\ pending' = d.rest
             /\ ended' = ended \o d.urbs
             /\ sent' = [sent EXCEPT ![at] = @ + d.sent]
       /\ transfer' = [transfer EXCEPT
            ![at].reap_action = IF early THEN "completedEarly" ELSE "submitFailed",
            ![at].num_retired = @ + NotSubmitted]
  /\ UNCHANGED <<pcTx, txVars, terminateTx, at, ctxVars, flying, evVars, plugged, continuation,
                 begins, owed, gaveUp>>

(* libusb_submit_transfer() returns.  The device may be gone by now.       *)
TxSubmitted ==
  /\ pcTx = "urbs" /\ nextUrb = NumUrbs
  /\ IF "disappeared" \in transfer[at].flags
     THEN /\ transfer' = [transfer EXCEPT ![at].urbs = FALSE,
                                          ![at].flags = @ \ {"submitting"}]
          /\ flying' = flying \ {at}
          /\ Refused(at)
          /\ UNCHANGED owed
     ELSE /\ transfer' = [transfer EXCEPT ![at].flags = (@ \ {"submitting"}) \cup {"inFlight"}]
          /\ owed' = [owed EXCEPT ![at] = @ + 1]
          /\ Begun(at)
          /\ UNCHANGED <<flying, used>>
  /\ UNCHANGED <<terminateTx, done, bytesXfered, evVars, kernelVars, begins,
                 sent, faults, gaveUp, trouble>>

-----------------------------------------------------------------------------
(* AbortSending(): every used context is cancelled, then finished.         *)

CancelUrbs(c, n) ==
  LET t == transfer[c]
      d == DiscardUrbs(c, 0, NumUrbs - 1, n)
      lastFound == IsPending(c, NumUrbs - 1)
      result == IF ~t.urbs THEN "notFound"
                ELSE IF ~plugged THEN "noDevice"
                ELSE IF lastFound THEN "success" ELSE "notFound"
      disappeared == IF result = "noDevice" THEN {"disappeared"} ELSE {}
      cancelled ==
        [t EXCEPT !.flags = @ \cup {"cancelling"} \cup disappeared,
                  !.reap_action = IF result = "success" /\ @ # "error" THEN "cancelled" ELSE @]
  IN /\ transfer' = [transfer EXCEPT ![c] = cancelled]
     /\ IF t.urbs
        THEN /\ pending' = d.rest /\ ended' = ended \o d.urbs
             /\ sent' = [sent EXCEPT ![c] = @ + d.sent]
        ELSE UNCHANGED <<pending, ended, sent>>

TakesCancel(c) ==
  /\ used[c]
  /\ "inFlight" \in transfer[c].flags /\ "cancelling" \notin transfer[c].flags

TxCancel ==
  /\ pcTx = "cancel" /\ at < NumContexts
  /\ IF TakesCancel(at)
     THEN \E n \in {0, 1} : CancelUrbs(at, n)
     ELSE UNCHANGED <<transfer, pending, ended, sent>>
  /\ at' = at + 1
  /\ UNCHANGED <<pcTx, txVars, terminateTx, nextUrb, ctxVars, flying, evVars, plugged, continuation,
                 begins, owed, faults, gaveUp, trouble>>

TxCancelled ==
  /\ pcTx = "cancel" /\ at = NumContexts
  /\ pcTx' = "drain" /\ at' = 0
  /\ UNCHANGED <<txVars, terminateTx, nextUrb, ctxVars, transfer, flying, evVars, kernelVars,
                 begins, sent, owed, faults, gaveUp, trouble>>

(* The context is finished when it is done or a quarter of a second is     *)
(* over.                                                                   *)
TxDrain ==
  /\ pcTx = "drain" /\ at < NumContexts
  /\ gaveUp' = (gaveUp \/ (used[at] /\ ~done[at]))
  /\ Release(at)
  /\ at' = at + 1
  /\ UNCHANGED <<pcTx, txVars, terminateTx, nextUrb, done, bytesXfered, transfer, flying,
                 evVars, kernelVars, begins, sent, owed, faults, trouble>>

TxEnd ==
  /\ pcTx = "drain" /\ at = NumContexts
  /\ pcTx' = "ended" /\ at' = 0
  /\ bi' = 0
  /\ handles' = [b \in Buffers |-> 0] /\ bufferUsed' = [b \in Buffers |-> FALSE]
  /\ UNCHANGED <<terminateTx, nextUrb, ctxVars, transfer, flying, evVars, kernelVars,
                 begins, sent, owed, faults, gaveUp, trouble>>

(* The next write of the application starts the thread again.              *)
TxStart ==
  /\ pcTx = "ended" /\ begins < MaxBegins
  /\ terminateTx' = FALSE
  /\ pcTx' = "loop"
  /\ UNCHANGED <<txVars, at, nextUrb, ctxVars, transfer, flying, evVars, kernelVars, begins, sent,
                 owed, faults, gaveUp, trouble>>

-----------------------------------------------------------------------------
(* The event thread.                                                       *)

LockFree(c) == ~(pcTx = "urbs" /\ at = c)

(* Which of the three ways handle_bulk_completion() goes on after a URB in *)
(* the normal course: the transfer is complete, it waits for its other     *)
(* URBs, or it discards them first.                                        *)
Fails(r)     == r.status \in {"error", "stall", "noDevice"}
LastUrb(r)   == r.idx = NumUrbs - 1
ReapAction(r) ==
  CASE r.status = "error" -> "error"
    [] ~Fails(r) /\ ~LastUrb(r) /\ r.n = 0 -> "completedEarly"
    [] OTHER -> "normal"
ReapStatus(r, status) ==
  CASE r.status = "noDevice" -> "noDevice"
    [] r.status = "stall" /\ status = "completed" -> "stall"
    [] r.status = "error" /\ status = "completed" -> "error"
    [] OTHER -> status
TearsDown(r) == Fails(r) \/ (~LastUrb(r) /\ r.n = 0)

(* usbi_handle_transfer_completion() or ..._cancellation() is next.        *)
Report(c, status) ==
  /\ pcEv' = "complete" /\ evAt' = c /\ evStatus' = status

AnyRetired(t) == TRUE   \* mutant: the first of its URBs completes it
AllRetired(t) == t.num_retired + 1 = NumUrbs

NoSurplus(r) == 0   \* mutant: the data of a cancelled URB does not count
Surplus(r) == r.n

ReapAbnormal(r, t) ==
  LET complete == AllRetired(t)
      status == IF complete /\ t.reap_action # "completedEarly" /\ t.reap_status = "completed"
                THEN "error" ELSE t.reap_status
      reaped == [t EXCEPT !.num_retired = @ + 1, !.transferred = @ + Surplus(r),
                          !.reap_status = status, !.urbs = ~complete]
  IN /\ transfer' = [transfer EXCEPT ![r.ctx] = reaped]
     /\ IF complete
        THEN Report(r.ctx, IF t.reap_action = "cancelled" THEN "cancelled" ELSE status)
        ELSE UNCHANGED <<pcEv, evAt, evStatus>>
     /\ ended' = Tail(ended)
     /\ UNCHANGED <<pending, sent>>

ReapNormal(r, t) ==
  LET complete == IF TearsDown(r) THEN AllRetired(t) ELSE LastUrb(r)
      reaped == [t EXCEPT !.num_retired = @ + 1, !.transferred = @ + r.n,
                          !.reap_action = ReapAction(r),
                          !.reap_status = ReapStatus(r, @), !.urbs = ~complete]
  IN /\ transfer' = [transfer EXCEPT ![r.ctx] = reaped]
     /\ IF complete THEN Report(r.ctx, ReapStatus(r, t.reap_status))
        ELSE UNCHANGED <<pcEv, evAt, evStatus>>
     /\ \E n \in {0, 1} :
          LET d == DiscardUrbs(r.ctx, r.idx + 1,
                               IF TearsDown(r) /\ ~complete THEN NumUrbs - 1 ELSE -1, n)
          IN /\ pending' = d.rest
             /\ ended' = Tail(ended) \o d.urbs
             /\ sent' = [sent EXCEPT ![r.ctx] = @ + d.sent]

EvReap ==
  /\ pcEv = "poll" /\ polled \in {"yes", "lastRound"}
  /\ ended # <<>>
  /\ LET r == Head(ended)
         t == transfer[r.ctx]
     IN /\ LockFree(r.ctx)
        /\ IF t.reap_action = "normal" THEN ReapNormal(r, t) ELSE ReapAbnormal(r, t)
  /\ UNCHANGED <<pcTx, txVars, terminateTx, at, nextUrb, ctxVars, flying, polled, plugged,
                 continuation, begins, owed, faults, gaveUp, trouble>>

(* POLLERR: the device is not polled again.  If the kernel has the         *)
(* capability to give its URBs back, those that ended by now are reaped;   *)
(* otherwise the transfers are ended here.                                 *)
EvPollErr ==
  /\ pcEv = "poll" /\ polled = "yes" /\ ~plugged
  /\ polled' \in {"lastRound", "disconnect"}
  /\ UNCHANGED <<pcTx, txVars, terminateTx, at, nextUrb, ctxVars, transfer, flying, pcEv,
                 evAt, evStatus, kernelVars, begins, sent, owed, faults, gaveUp, trouble>>

EvLastReaped ==
  /\ pcEv = "poll" /\ polled = "lastRound" /\ ended = <<>>
  /\ polled' = "no"
  /\ UNCHANGED <<pcTx, txVars, terminateTx, at, nextUrb, ctxVars, transfer, flying, pcEv,
                 evAt, evStatus, kernelVars, begins, sent, owed, faults, gaveUp, trouble>>

FlyingInFlight == {c \in flying : "inFlight" \in transfer[c].flags}

(* usbi_handle_disconnect() ends the transfers in flight one by one and    *)
(* marks the one that is being submitted.                                  *)
EvDisconnect ==
  /\ pcEv = "poll" /\ polled = "disconnect"
  /\ IF FlyingInFlight # {}
     THEN /\ \E c \in FlyingInFlight : /\ Report(c, "noDevice")
                                       /\ transfer' = [transfer EXCEPT ![c].urbs = FALSE]
          /\ UNCHANGED polled
     ELSE /\ transfer' = [c \in Contexts |->
               IF c \in flying
               THEN [transfer[c] EXCEPT !.flags = @ \cup {"disappeared"}] ELSE transfer[c]]
          /\ polled' = "no"
          /\ UNCHANGED <<pcEv, evAt, evStatus>>
  /\ UNCHANGED <<pcTx, txVars, terminateTx, at, nextUrb, ctxVars, flying, kernelVars, begins,
                 sent, owed, faults, gaveUp, trouble>>

(* usbi_handle_transfer_completion(), to the callback.                     *)
EvComplete ==
  /\ pcEv = "complete"
  /\ flying' = flying \ {evAt}
  /\ transfer' = [transfer EXCEPT ![evAt].flags = (@ \ {"inFlight"}) \cup {"completed"}]
  /\ pcEv' = "callback"
  /\ UNCHANGED <<pcTx, txVars, terminateTx, at, nextUrb, ctxVars, evAt, evStatus, polled,
                 kernelVars, begins, sent, owed, faults, gaveUp, trouble>>

FinishesWell(status) == status \in {"completed", "cancelled"}   \* mutant
Finishes(status) == status \in {"completed", "cancelled", "error"}

(* callback_libusbtransfer() does not finish the context after a stall or  *)
(* without a device.                                                       *)
EvCallback ==
  /\ pcEv = "callback"
  /\ IF Finishes(evStatus)
     THEN /\ bytesXfered' = [bytesXfered EXCEPT ![evAt] = transfer[evAt].transferred]
          /\ done' = [done EXCEPT ![evAt] = TRUE]
     ELSE UNCHANGED <<bytesXfered, done>>
  /\ owed' = [owed EXCEPT ![evAt] = @ - 1]
  /\ pcEv' = "poll" /\ evAt' = 0 /\ evStatus' = "completed"
  /\ UNCHANGED <<pcTx, txVars, terminateTx, at, nextUrb, used, transfer, flying, polled,
                 kernelVars, begins, sent, faults, gaveUp, trouble>>

-----------------------------------------------------------------------------
TxNext ==
  \/ TxTurn \/ TxWaited \/ TxTimeout \/ TxFinish \/ TxFill \/ TxBegin \/ TxSubmit
  \/ TxUrb \/ TxFirstUrbFails \/ TxLaterUrbFails \/ TxSubmitted
  \/ TxCancel \/ TxCancelled \/ TxDrain \/ TxEnd \/ TxStart

EvNext ==
  EvReap \/ EvPollErr \/ EvLastReaped \/ EvDisconnect \/ EvComplete \/ EvCallback

SendingNext == TxNext \/ EvNext \/ UrbSent \/ UrbFails \/ UrbLost \/ Unplug \/ Terminate

(* Both threads go on; nothing obliges the device, the application or the  *)
(* user to do anything.                                                    *)
SendingSpec ==
  /\ SendingInit /\ [][SendingNext]_sendingVars
  /\ WF_sendingVars(TxNext) /\ WF_sendingVars(EvNext)

-----------------------------------------------------------------------------
UrbOut == [ctx : Contexts, idx : Urbs]
UrbEnd == [ctx : Contexts, idx : Urbs, n : {0, 1},
           status : {"ok", "error", "stall", "noDevice", "cancelled"}]

(* The type of the state.                                                  *)
SendingTypeOK ==
  /\ pcTx \in {"loop", "wait", "finish", "fill", "begin", "submit", "urbs", "cancel",
               "drain", "ended"}
  /\ bi \in Buffers
  /\ handles \in [Buffers -> Contexts \cup {NoHandle}] /\ bufferUsed \in [Buffers -> BOOLEAN]
  /\ terminateTx \in BOOLEAN
  /\ at \in 0 .. NumContexts /\ nextUrb \in 0 .. NumUrbs
  /\ used \in [Contexts -> BOOLEAN] /\ done \in [Contexts -> BOOLEAN]
  /\ bytesXfered \in [Contexts -> 0 .. NumUrbs]
  /\ transfer \in
       [Contexts -> [flags : SUBSET {"submitting", "inFlight", "cancelling", "completed",
                                     "disappeared"},
                     transferred : 0 .. NumUrbs, urbs : BOOLEAN, num_retired : 0 .. NumUrbs,
                     reap_action : {"normal", "submitFailed", "completedEarly",
                                    "cancelled", "error"},
                     reap_status : {"completed", "error", "stall", "noDevice"}]]
  /\ flying \subseteq Contexts
  /\ pcEv \in {"poll", "complete", "callback"} /\ evAt \in Contexts
  /\ evStatus \in {"completed", "cancelled", "error", "stall", "noDevice"}
  /\ polled \in {"yes", "lastRound", "disconnect", "no"}
  /\ pending \in Seq(UrbOut)
  /\ ended \in Seq(UrbEnd)
  /\ plugged \in BOOLEAN
  /\ begins \in 0 .. MaxBegins /\ faults \in 0 .. MaxFaults
  /\ sent \in [Contexts -> 0 .. NumUrbs] /\ owed \in [Contexts -> 0 .. 2]

(* URBs of the transfer that libusb has not reaped.                        *)
Unreaped(c) ==
  \/ \E k \in DOMAIN pending : pending[k].ctx = c
  \/ \E k \in DOMAIN ended : ended[k].ctx = c

(* A transfer is reported only when all its URBs are back: its URBs are    *)
(* freed then, and the next one handed back would be looked up in freed    *)
(* memory ("cancel remaining urbs and wait for their completion before     *)
(* reporting results").  Not so of three or more URBs when one stalls and  *)
(* the kernel does not cancel those that continue it: they are discarded   *)
(* from the last to the first, and the last one is taken for the end.      *)
ReportedAfterLastUrb ==
  (continuation \/ NumUrbs <= 2) /\ pcEv = "complete" /\ polled # "disconnect"
    => ~Unreaped(evAt)

(* While AbortSending has not given up on one, a context that is done has  *)
(* no URB with the kernel and no callback to come: its buffer may be       *)
(* filled again.                                                           *)
DoneMeansOver ==
  ~gaveUp => \A c \in Contexts :
    used[c] /\ done[c] => owed[c] = 0 /\ ~Unreaped(c) /\ c \notin flying

(* ... and what the transmit thread is told to have been sent is what the  *)
(* device took, however the transfer ended.                                *)
ReportedIsSent ==
  ~gaveUp => \A c \in Contexts : used[c] /\ done[c] => bytesXfered[c] = sent[c]

(* Contexts and buffers belong together one to one, so that there is always*)
(* a free context for a free buffer.                                       *)
InUse == {b \in Buffers : bufferUsed[b] /\ handles[b] # NoHandle}
ContextsSuffice ==
  pcTx \in {"loop", "wait", "finish", "fill", "begin"} =>
    /\ {c \in Contexts : used[c]} = {handles[b] : b \in InUse}
    /\ \A a, b \in InUse : handles[a] = handles[b] => a = b

(* BeginDataSending always finds one.                                      *)
BeginFindsContext == pcTx = "begin" => Free # {}

(* The transmit thread waits for a transfer that nobody will finish only   *)
(* after the kernel refused a URB, a stall, the loss of the device, or an  *)
(* abort that gave up.                                                     *)
Hopeless(b) ==
  /\ bufferUsed[b]
  /\ handles[b] = NoHandle \/ (~done[handles[b]] /\ owed[handles[b]] = 0)
StuckOnlyWhereExplained ==
  pcTx = "wait" /\ Hopeless(bi) => gaveUp \/ trouble

(* The transfers that are cancelled are all called back, unless the device *)
(* is gone.                                                                *)
Cancelling ==
  {c \in Contexts : {"inFlight", "cancelling"} \subseteq transfer[c].flags}
CancelledIsReported == (Cancelling # {}) ~> (Cancelling = {} \/ ~plugged)

(* Told to stop, the transmit thread ends, whatever became of its transfers*)
(* and of the device.                                                      *)
TxEnds == terminateTx ~> pcTx = "ended"

-----------------------------------------------------------------------------
(* The inductive invariant behind ContextsSuffice.                         *)

(* The part of the type it needs.                                          *)
TxType ==
  /\ bi \in Buffers
  /\ handles \in [Buffers -> Contexts \cup {NoHandle}] /\ bufferUsed \in [Buffers -> BOOLEAN]
  /\ at \in 0 .. NumContexts
  /\ used \in [Contexts -> BOOLEAN]

Held == {handles[b] : b \in InUse}

(* The contexts in use are those of the buffers, and while a transfer is   *)
(* submitted the one of it, whose buffer is not counted yet; an abort      *)
(* releases them from the first to the last.                               *)
Loans ==
  /\ pcTx \in {"loop", "wait", "finish", "fill", "begin"} => {c \in Contexts : used[c]} = Held
  /\ pcTx \in {"submit", "urbs"} =>
       /\ at \in Contexts /\ at \notin Held
       /\ {c \in Contexts : used[c]} = Held \cup {at}
  /\ pcTx \in {"loop", "wait", "finish", "fill", "begin", "submit", "urbs"} =>
       \A a, b \in InUse : handles[a] = handles[b] => a = b
  /\ pcTx \in {"fill", "begin", "submit", "urbs"} => ~bufferUsed[bi]
  /\ pcTx \in {"wait", "finish"} => bufferUsed[bi]
  /\ pcTx = "finish" => handles[bi] # NoHandle
  /\ pcTx = "drain" => \A c \in 0 .. at - 1 : ~used[c]
  /\ pcTx = "ended" => \A c \in Contexts : ~used[c]
  /\ pcTx = "ended" => \A b \in Buffers : ~bufferUsed[b]

LoansIInv == TxType /\ Loans

-----------------------------------------------------------------------------
(* The inductive invariant behind ReportedAfterLastUrb, DoneMeansOver,     *)
(* ReportedIsSent and StuckOnlyWhereExplained.                             *)

Orderly == continuation \/ NumUrbs <= 2
Alive == polled \in {"yes", "lastRound"}          \* URBs are still reaped
Submitting(c) == pcTx = "urbs" /\ at = c
BeingBegun(c) == pcTx \in {"submit", "urbs"} /\ at = c
InFlight(c) == "inFlight" \in transfer[c].flags
Calling(c) == pcEv = "callback" /\ evAt = c
Reporting(c) == pcEv # "poll" /\ evAt = c
Stalled(c) == transfer[c].reap_status \in {"stall", "noDevice"}

(* URBs of c may be on their way.                                          *)
Busy(c) == Submitting(c) \/ (InFlight(c) /\ ~(pcEv = "complete" /\ evAt = c))

(* A kernel that does not know which URBs continue a failed one can make   *)
(* libusb report a stalled transfer of three URBs too early: what follows  *)
(* is not claimed of it.                                                   *)
Trusted(c) == Orderly \/ (~gaveUp /\ ~Stalled(c))

(* The URBs that libusb has not reaped, in the order it will.              *)
Line(p, e) ==
  [k \in 1 .. Len(e) + Len(p) |->
     IF k <= Len(e) THEN [ctx |-> e[k].ctx, idx |-> e[k].idx] ELSE p[k - Len(e)]]
Of(z, c)      == {k \in DOMAIN z : z[k].ctx = c}
LeftOf(z, c)  == {z[k].idx : k \in Of(z, c)}
OnceIn(z, c)  == \A j, k \in Of(z, c) : z[j].idx = z[k].idx => j = k
InOrder(z, c) == \A j, k \in Of(z, c) : j < k => z[j].idx < z[k].idx
WellOf(e, c)  == {e[k].idx : k \in {j \in DOMAIN e : e[j].ctx = c /\ e[j].n = 1}}

(* Those the kernel has been given, of the transfer of c.                  *)
Taken(c) == IF Submitting(c) THEN nextUrb ELSE NumUrbs

(* Every URB of a transfer is retired or in the line, once, and its unit is*)
(* counted or to be counted.  As long as nothing went wrong they are in    *)
(* order, the last one is not retired, and none is pending behind one that *)
(* failed.                                                                 *)
Counted(c) ==
  LET z == Line(pending, ended)
      t == transfer[c]
  IN /\ OnceIn(z, c)
     /\ \A i \in LeftOf(z, c) : i < Taken(c)
     /\ t.num_retired + Cardinality(LeftOf(z, c)) = Taken(c)
     /\ t.transferred + Cardinality(WellOf(ended, c)) = sent[c]
     /\ t.reap_action = "normal" =>
          /\ InOrder(z, c)
          /\ Taken(c) > 0 => Taken(c) - 1 \in LeftOf(z, c)
          /\ EndedEarly(c) => \A k \in DOMAIN pending : pending[k].ctx # c
          /\ t.reap_status # "error"

UrbsCounted ==
  Alive => \A c \in Contexts : Trusted(c) =>
    IF Busy(c) THEN Counted(c) ELSE ~Unreaped(c)

(* A transfer that is reported is in flight; one that is being submitted is*)
(* not, and has not disappeared.                                           *)
ReportedInFlight ==
  /\ polled = "no" => pcEv = "poll"
  /\ Alive /\ pcEv = "complete" /\ Trusted(evAt) => InFlight(evAt)
NotYetInFlight ==
  /\ pcTx # "urbs" => nextUrb = 0
  /\ pcTx = "urbs" => ~InFlight(at) /\ (Alive => "disappeared" \notin transfer[at].flags)

(* While AbortSending has not given up, a context is in use as long as its *)
(* transfer is in flight or its callback runs, and it is done afterwards,  *)
(* unless something went wrong.                                            *)
Life(c) ==
  /\ InFlight(c) => used[c] /\ ~done[c] /\ ~BeingBegun(c) /\ ~Calling(c)
  /\ c \in flying <=> InFlight(c) \/ Submitting(c)
  /\ Calling(c) => used[c] /\ ~done[c] /\ ~BeingBegun(c)
  /\ BeingBegun(c) => ~done[c]
  /\ Trusted(c) => owed[c] = IF InFlight(c) \/ Calling(c) THEN 1 ELSE 0
  /\ Reporting(c) /\ Trusted(c) => InFlight(c) \/ Calling(c)
  /\ used[c] /\ ~done[c] => InFlight(c) \/ Reporting(c) \/ BeingBegun(c) \/ trouble

(* A stalled transfer has no pending URBs, and its context is never done.  *)
StallStays(c) ==
  Stalled(c) =>
    /\ used[c] /\ ~done[c] /\ ~BeingBegun(c)
    /\ transfer[c].reap_action # "cancelled"
    /\ plugged => \A k \in DOMAIN pending : pending[k].ctx # c
    /\ Reporting(c) => ~Finishes(evStatus)

(* The context is to be done, or it is.                                    *)
Over(c) ==
  /\ Reporting(c) /\ Finishes(evStatus) => ~Unreaped(c) /\ transfer[c].transferred = sent[c]
  /\ used[c] /\ done[c] => ~Unreaped(c) /\ bytesXfered[c] = sent[c]

Lives == ~gaveUp => \A c \in Contexts : Life(c) /\ StallStays(c) /\ Over(c)
FinishIsDone == pcTx = "finish" => done[handles[bi]]

(* Whatever explains that a transfer is not finished is trouble.           *)
Troubles ==
  /\ ~plugged \/ polled # "yes" => trouble
  /\ polled # "yes" => ~plugged
  /\ \A k \in DOMAIN ended : ended[k].status \in {"stall", "noDevice"} => trouble
  /\ \A c \in Contexts : Stalled(c) \/ "disappeared" \in transfer[c].flags => trouble
  /\ pcEv # "poll" /\ ~Finishes(evStatus) => trouble
  /\ ~gaveUp => \A b \in Buffers : bufferUsed[b] /\ handles[b] = NoHandle => trouble

(* The type of what the kernel and the event thread hold.  (The bounds of  *)
(* SendingTypeOK hold only where the transfers are trusted.)               *)
Transfers ==
  [flags : SUBSET {"submitting", "inFlight", "cancelling", "completed", "disappeared"},
   transferred : Nat, urbs : BOOLEAN, num_retired : Nat,
   reap_action : {"normal", "submitFailed", "completedEarly", "cancelled", "error"},
   reap_status : {"completed", "error", "stall", "noDevice"}]
EvType ==
  /\ nextUrb \in 0 .. NumUrbs
  /\ done \in [Contexts -> BOOLEAN] /\ bytesXfered \in [Contexts -> Nat]
  /\ transfer \in [Contexts -> Transfers]
  /\ flying \subseteq Contexts
  /\ pcEv \in {"poll", "complete", "callback"} /\ evAt \in Contexts
  /\ polled \in {"yes", "lastRound", "disconnect", "no"}
  /\ pending \in Seq(UrbOut) /\ ended \in Seq(UrbEnd)
  /\ plugged \in BOOLEAN /\ continuation \in BOOLEAN
  /\ sent \in [Contexts -> Nat] /\ owed \in [Contexts -> Int]

SendingIInv ==
  /\ LoansIInv /\ EvType
  /\ UrbsCounted /\ ReportedInFlight /\ NotYetInFlight
  /\ Lives /\ FinishIsDone /\ Troubles
=============================================================================
