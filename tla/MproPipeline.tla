---------------------------- MODULE MproPipeline ----------------------------
(***************************************************************************)
(* The asynchronous USB frame pipeline of the mpro parent driver           *)
(* (kernel/mpro/src/mpro_pipeline.c), with the part of disconnect that     *)
(* tears it down (mpro_main.c).                                            *)
(*                                                                         *)
(* Frames come from several threads: DRM commits, mpro_idle_work's black   *)
(* frame, the repaint of mpro_wake_work.  A frame travels in an mpro_xfer  *)
(* that is allocated by the caller of mpro_send_*_frame and owned, in      *)
(* turn, by that caller, by current_xfer or pending_xfer, by the URBs and  *)
(* by the completion work; whoever holds it last frees it.  A transfer is  *)
(* a control URB whose completion handler submits a bulk URB whose         *)
(* completion handler queues complete_work.                                *)
(*                                                                         *)
(* Each critical section of state_lock is one step, each URB submission,   *)
(* each URB completion handler and each kfree outside the lock is one.     *)
(* Pixels, sizes and LZ4 are abstracted away: a frame is its place in the  *)
(* order in which the pipeline accepted the frames.                        *)
(***************************************************************************)
EXTENDS Integers, FiniteSets

CONSTANTS
    Producer,     \* threads that send frames
    Xfer,         \* addresses an mpro_xfer can be allocated at (reused once freed)
    NoXfer,       \* the NULL pointer
    MaxFrames,    \* bound on stats_submitted and on stats_dropped
    Faults        \* what the environment may do: a subset of FaultKinds

(* "submit": usb_submit_urb of a control URB may return an error;          *)
(* "link": a URB may complete with an error, or its bulk URB not submit.   *)
FaultKinds == {"submit", "link"}

ASSUME XferAssumption == NoXfer \notin Xfer
ASSUME BoundAssumption == MaxFrames \in Nat
ASSUME FaultAssumption == Faults \subseteq FaultKinds

VARIABLES
    running,       \* mpro->running
    is_idle,       \* mpro->is_idle, written by mpro_pm.c
    in_flight,     \* mpro->in_flight
    current_xfer,  \* mpro->current_xfer
    pending_xfer,  \* mpro->pending_xfer
    work_queued,   \* complete_work is queued on mpro->wq
    anchored,      \* URBs given to USB and not completed: <<kind, xfer>>
    live,          \* the xfers that are allocated
    seq,           \* seq[x]: place of x's frame in the order of acceptance
    stats,         \* mpro->stats_submitted, stats_dropped, stats_displayed
    shown,         \* seq of the last frame the panel received in full
    pc,            \* pc[p]: where producer p is in mpro_send_xfer
    own,           \* own[p]: the xfer that p still has to submit or free
    wpc,           \* where complete_work is
    done,          \* complete_work's local variable done
    nxt,           \* complete_work's local variable next
    shut,          \* progress of disconnect and mpro_io_shutdown
    late           \* history: complete_work submitted after the URBs were killed

sendVars == <<pc, own>>
workVars == <<wpc, done, nxt>>
slotVars == <<in_flight, current_xfer, pending_xfer>>
vars == <<running, is_idle, in_flight, current_xfer, pending_xfer, work_queued,
          anchored, live, seq, stats, shown, pc, own, wpc, done, nxt, shut,
          late>>

MaybeXfer == Xfer \cup {NoXfer}
Urb == {"ctrl", "bulk"} \X Xfer

TypeOK ==
    /\ running \in BOOLEAN
    /\ is_idle \in BOOLEAN
    /\ in_flight \in BOOLEAN
    /\ current_xfer \in MaybeXfer
    /\ pending_xfer \in MaybeXfer
    /\ work_queued \in BOOLEAN
    /\ anchored \subseteq Urb
    /\ live \subseteq Xfer
    /\ seq \in [Xfer -> Nat]
    /\ stats \in [submitted : Nat, dropped : Nat, displayed : Nat]
    /\ shown \in Nat
    /\ pc \in [Producer -> {"out", "send", "displaced", "submit", "undo"}]
    /\ own \in [Producer -> MaybeXfer]
    /\ wpc \in {"out", "free", "submit", "undo"}
    /\ done \in MaybeXfer
    /\ nxt \in MaybeXfer
    /\ shut \in {"up", "stopped", "unplugged", "kill", "cancel", "take", "down"}
    /\ late \in BOOLEAN

(* mpro_io_init, then running = true in probe.                             *)
Init ==
    /\ running = TRUE
    /\ is_idle = FALSE
    /\ in_flight = FALSE
    /\ current_xfer = NoXfer
    /\ pending_xfer = NoXfer
    /\ work_queued = FALSE
    /\ anchored = {}
    /\ live = {}
    /\ seq = [x \in Xfer |-> 0]
    /\ stats = [submitted |-> 0, dropped |-> 0, displayed |-> 0]
    /\ shown = 0
    /\ pc = [p \in Producer |-> "out"]
    /\ own = [p \in Producer |-> NoXfer]
    /\ wpc = "out"
    /\ done = NoXfer
    /\ nxt = NoXfer
    /\ shut = "up"
    /\ late = FALSE

(* A device that is being unbound may also be physically gone, so USB      *)
(* errors are possible after running = false whatever Faults says.         *)
SubmitMayFail == "submit" \in Faults \/ ~running
LinkMayFail == "link" \in Faults \/ ~running

-----------------------------------------------------------------------------
(* mpro_send_full_frame, mpro_send_partial_frame and mpro_send_xfer.       *)

(* mpro_xfer_alloc, or mpro_xfer_alloc_compressed with its fallback; when  *)
(* both fail -ENOMEM is returned and nothing has changed.                  *)
AllocXfer(p) ==
    /\ pc[p] = "out"
    /\ shut \in {"up", "stopped"}
    /\ stats.submitted < MaxFrames /\ stats.dropped < MaxFrames
    /\ \E x \in Xfer \ live :
         /\ live' = live \cup {x}
         /\ seq' = [seq EXCEPT ![x] = 0]
         /\ own' = [own EXCEPT ![p] = x]
    /\ pc' = [pc EXCEPT ![p] = "send"]
    /\ UNCHANGED <<running, is_idle, slotVars, work_queued, anchored, stats,
                   shown, workVars, shut, late>>

(* Producer p leaves mpro_send_xfer after freeing the xfer it holds.       *)
FreeOwnAndReturn(p) ==
    /\ live' = live \ {own[p]}
    /\ own' = [own EXCEPT ![p] = NoXfer]
    /\ pc' = [pc EXCEPT ![p] = "out"]

(* if (!mpro->running): free and -ESHUTDOWN.                               *)
SendShutdown(p) ==
    /\ pc[p] = "send"
    /\ ~running
    /\ FreeOwnAndReturn(p)
    /\ UNCHANGED <<running, is_idle, slotVars, work_queued, anchored, seq,
                   stats, shown, workVars, shut, late>>

(* if (is_idle): the frame is dropped silently and 0 returned.             *)
SendIdle(p) ==
    /\ pc[p] = "send"
    /\ running
    /\ is_idle
    /\ stats' = [stats EXCEPT !.dropped = @ + 1]
    /\ FreeOwnAndReturn(p)
    /\ UNCHANGED <<running, is_idle, slotVars, work_queued, anchored, seq,
                   shown, workVars, shut, late>>

(* stats_submitted++ for p's frame.                                        *)
Accept(p) ==
    /\ stats' = [stats EXCEPT !.submitted = @ + 1]
    /\ seq' = [seq EXCEPT ![own[p]] = stats.submitted + 1]

(* Mutation: in_flight is not looked at before the transfer is claimed.    *)
SendClaimBlindly(p) ==
    /\ pc[p] = "send"
    /\ running
    /\ ~is_idle
    /\ Accept(p)
    /\ in_flight' = TRUE
    /\ current_xfer' = own[p]
    /\ pc' = [pc EXCEPT ![p] = "submit"]
    /\ UNCHANGED <<running, is_idle, pending_xfer, work_queued, anchored, live,
                   shown, own, workVars, shut, late>>

(* if (!in_flight): p claims the transfer and will submit it.              *)
SendClaim(p) ==
    /\ pc[p] = "send"
    /\ running
    /\ ~is_idle
    /\ ~in_flight
    /\ Accept(p)
    /\ in_flight' = TRUE
    /\ current_xfer' = own[p]
    /\ pc' = [pc EXCEPT ![p] = "submit"]
    /\ UNCHANGED <<running, is_idle, pending_xfer, work_queued, anchored, live,
                   shown, own, workVars, shut, late>>

(* else: the frame replaces the pending one, which p has to free.          *)
SendCoalesce(p) ==
    /\ pc[p] = "send"
    /\ running
    /\ ~is_idle
    /\ in_flight
    /\ Accept(p)
    /\ pending_xfer' = own[p]
    /\ own' = [own EXCEPT ![p] = pending_xfer]
    /\ pc' = [pc EXCEPT ![p] = IF pending_xfer = NoXfer THEN "out"
                                                        ELSE "displaced"]
    /\ UNCHANGED <<running, is_idle, in_flight, current_xfer, work_queued,
                   anchored, live, shown, workVars, shut, late>>

FreeDisplaced(p) ==
    /\ pc[p] = "displaced"
    /\ stats' = [stats EXCEPT !.dropped = @ + 1]
    /\ FreeOwnAndReturn(p)
    /\ UNCHANGED <<running, is_idle, slotVars, work_queued, anchored, seq,
                   shown, workVars, shut, late>>

(* mpro_xfer_submit: anchor the control URB and submit it.                 *)
XferSubmit(x) == anchored' = anchored \cup {<<"ctrl", x>>}

SendSubmit(p) ==
    /\ pc[p] = "submit"
    /\ \/ /\ XferSubmit(own[p])
          /\ own' = [own EXCEPT ![p] = NoXfer]
          /\ pc' = [pc EXCEPT ![p] = "out"]
       \/ /\ SubmitMayFail
          /\ pc' = [pc EXCEPT ![p] = "undo"]
          /\ UNCHANGED <<anchored, own>>
    /\ UNCHANGED <<running, is_idle, slotVars, work_queued, live, seq, stats,
                   shown, workVars, shut, late>>

(* Mutation: current_xfer keeps its value.                                 *)
ClearInFlightOnly ==
    /\ in_flight' = FALSE
    /\ UNCHANGED <<current_xfer, pending_xfer>>

(* The error path: current_xfer = NULL, in_flight = false; pending_xfer is *)
(* left alone.                                                             *)
ClearCurrent ==
    /\ current_xfer' = NoXfer
    /\ in_flight' = FALSE
    /\ UNCHANGED pending_xfer

SendUndo(p) ==
    /\ pc[p] = "undo"
    /\ ClearCurrent
    /\ FreeOwnAndReturn(p)
    /\ UNCHANGED <<running, is_idle, work_queued, anchored, seq, stats, shown,
                   workVars, shut, late>>

-----------------------------------------------------------------------------
(* URB completion handlers.                                                *)

(* mpro_ctrl_complete, status 0: the bulk URB is anchored and submitted.   *)
CtrlDone(x) ==
    /\ <<"ctrl", x>> \in anchored
    /\ anchored' = (anchored \ {<<"ctrl", x>>}) \cup {<<"bulk", x>>}
    /\ UNCHANGED <<running, is_idle, slotVars, work_queued, live, seq, stats,
                   shown, sendVars, workVars, shut, late>>

(* mpro_bulk_complete, status 0: the frame is on the panel.                *)
BulkDone(x) ==
    /\ <<"bulk", x>> \in anchored
    /\ anchored' = anchored \ {<<"bulk", x>>}
    /\ stats' = [stats EXCEPT !.displayed = @ + 1]
    /\ shown' = seq[x]
    /\ work_queued' = TRUE
    /\ UNCHANGED <<running, is_idle, slotVars, live, seq, sendVars, workVars,
                   shut, late>>

(* Either handler with a URB status, or a bulk URB that does not submit:   *)
(* queue complete_work and nothing else.                                   *)
UrbAbort(u) ==
    /\ u \in anchored
    /\ anchored' = anchored \ {u}
    /\ work_queued' = TRUE
    /\ UNCHANGED <<running, is_idle, slotVars, live, seq, stats, shown,
                   sendVars, workVars, shut, late>>

UrbError(u) == LinkMayFail /\ UrbAbort(u)

-----------------------------------------------------------------------------
(* mpro_complete_work, on the ordered workqueue.                           *)

(* Mutation: a pending frame is held back while the display is idle.       *)
WorkTakeUnlessIdle ==
    /\ wpc = "out"
    /\ work_queued
    /\ work_queued' = FALSE
    /\ done' = current_xfer
    /\ IF pending_xfer # NoXfer /\ running /\ ~is_idle
         THEN /\ nxt' = pending_xfer
              /\ current_xfer' = pending_xfer
              /\ pending_xfer' = NoXfer
              /\ UNCHANGED in_flight
         ELSE /\ nxt' = NoXfer
              /\ ClearCurrent
    /\ wpc' = "free"
    /\ UNCHANGED <<running, is_idle, anchored, live, seq, stats, shown,
                   sendVars, shut, late>>

WorkTake ==
    /\ wpc = "out"
    /\ work_queued
    /\ work_queued' = FALSE
    /\ done' = current_xfer
    /\ IF pending_xfer # NoXfer /\ running
         THEN /\ nxt' = pending_xfer
              /\ current_xfer' = pending_xfer
              /\ pending_xfer' = NoXfer
              /\ UNCHANGED in_flight
         ELSE /\ nxt' = NoXfer
              /\ ClearCurrent
    /\ wpc' = "free"
    /\ UNCHANGED <<running, is_idle, anchored, live, seq, stats, shown,
                   sendVars, shut, late>>

(* Mutation: next is submitted without the test that there is one.         *)
WorkFreeUnchecked ==
    /\ wpc = "free"
    /\ live' = live \ {done}
    /\ done' = NoXfer
    /\ wpc' = "submit"
    /\ UNCHANGED <<running, is_idle, slotVars, work_queued, anchored, seq,
                   stats, shown, sendVars, nxt, shut, late>>

WorkFree ==
    /\ wpc = "free"
    /\ live' = live \ {done}
    /\ done' = NoXfer
    /\ wpc' = IF nxt = NoXfer THEN "out" ELSE "submit"
    /\ UNCHANGED <<running, is_idle, slotVars, work_queued, anchored, seq,
                   stats, shown, sendVars, nxt, shut, late>>

WorkSubmit ==
    /\ wpc = "submit"
    /\ \/ /\ XferSubmit(nxt)
          /\ nxt' = NoXfer
          /\ wpc' = "out"
          /\ late' = IF shut = "cancel" THEN TRUE ELSE late
       \/ /\ SubmitMayFail
          /\ wpc' = "undo"
          /\ UNCHANGED <<anchored, nxt, late>>
    /\ UNCHANGED <<running, is_idle, slotVars, work_queued, live, seq, stats,
                   shown, sendVars, done, shut>>

WorkUndo ==
    /\ wpc = "undo"
    /\ ClearCurrent
    /\ live' = live \ {nxt}
    /\ nxt' = NoXfer
    /\ wpc' = "out"
    /\ UNCHANGED <<running, is_idle, work_queued, anchored, seq, stats, shown,
                   sendVars, done, shut, late>>

-----------------------------------------------------------------------------
(* Disconnect, then the devres actions: the children go first, then        *)
(* mpro_wq_release calls mpro_io_shutdown.                                 *)

ShutStop ==
    /\ shut = "up"
    /\ running' = FALSE
    /\ shut' = "stopped"
    /\ UNCHANGED <<is_idle, slotVars, work_queued, anchored, live, seq, stats,
                   shown, sendVars, workVars, late>>

(* mpro_pm_shutdown and drm_dev_unplug: no thread starts to send.          *)
ShutUnplug ==
    /\ shut = "stopped"
    /\ shut' = "unplugged"
    /\ UNCHANGED <<running, is_idle, slotVars, work_queued, anchored, live,
                   seq, stats, shown, sendVars, workVars, late>>

(* The removal of the MFD children waits for every thread that is inside   *)
(* mpro_send_xfer.  Nothing waits for complete_work, which may still hold  *)
(* the frame that it took before running was cleared.                      *)
ShutChildrenGone ==
    /\ shut = "unplugged"
    /\ \A p \in Producer : pc[p] = "out"
    /\ shut' = "kill"
    /\ UNCHANGED <<running, is_idle, slotVars, work_queued, anchored, live,
                   seq, stats, shown, sendVars, workVars, late>>

(* usb_kill_anchored_urbs: each URB completes with -ENOENT ...             *)
ShutKillUrb(u) ==
    /\ shut = "kill"
    /\ UrbAbort(u)

(* ... until the anchor is empty.                                          *)
ShutKilled ==
    /\ shut = "kill"
    /\ anchored = {}
    /\ shut' = "cancel"
    /\ UNCHANGED <<running, is_idle, slotVars, work_queued, anchored, live,
                   seq, stats, shown, sendVars, workVars, late>>

(* Mutation: cancel_work, which does not wait.                             *)
ShutCancelNoSync ==
    /\ shut = "cancel"
    /\ work_queued' = FALSE
    /\ shut' = "take"
    /\ UNCHANGED <<running, is_idle, slotVars, anchored, live, seq, stats,
                   shown, sendVars, workVars, late>>

(* cancel_work_sync: dequeue the work and wait for a running instance.     *)
ShutCancel ==
    /\ shut = "cancel"
    /\ wpc = "out"
    /\ work_queued' = FALSE
    /\ shut' = "take"
    /\ UNCHANGED <<running, is_idle, slotVars, anchored, live, seq, stats,
                   shown, sendVars, workVars, late>>

(* Mutation: the pending frame is not freed.                               *)
ShutTakeCurrent ==
    /\ shut = "take"
    /\ live' = live \ {current_xfer}
    /\ current_xfer' = NoXfer
    /\ pending_xfer' = NoXfer
    /\ in_flight' = FALSE
    /\ shut' = "down"
    /\ UNCHANGED <<running, is_idle, work_queued, anchored, seq, stats, shown,
                   sendVars, workVars, late>>

(* Take current_xfer and pending_xfer under the lock and free them.        *)
ShutTake ==
    /\ shut = "take"
    /\ live' = live \ {current_xfer, pending_xfer}
    /\ current_xfer' = NoXfer
    /\ pending_xfer' = NoXfer
    /\ in_flight' = FALSE
    /\ shut' = "down"
    /\ UNCHANGED <<running, is_idle, work_queued, anchored, seq, stats, shown,
                   sendVars, workVars, late>>

(* mpro_pm.c enters or leaves virtual idle (module MproPm).                *)
ToggleIdle ==
    /\ shut # "down"
    /\ is_idle' = ~is_idle
    /\ UNCHANGED <<running, slotVars, work_queued, anchored, live, seq, stats,
                   shown, sendVars, workVars, shut, late>>

(* The driver is unbound: nothing is left to do.                           *)
Unbound ==
    /\ shut = "down"
    /\ UNCHANGED vars

-----------------------------------------------------------------------------
SendStep(p) ==
    \/ SendShutdown(p) \/ SendIdle(p) \/ SendClaim(p) \/ SendCoalesce(p)
    \/ FreeDisplaced(p) \/ SendSubmit(p) \/ SendUndo(p)

UrbStep ==
    \/ \E x \in Xfer : CtrlDone(x) \/ BulkDone(x)
    \/ \E u \in Urb : UrbError(u)

WorkStep == WorkTake \/ WorkFree \/ WorkSubmit \/ WorkUndo

ShutStep ==
    \/ ShutUnplug \/ ShutChildrenGone
    \/ \E u \in Urb : ShutKillUrb(u)
    \/ ShutKilled \/ ShutCancel \/ ShutTake

Next ==
    \/ \E p \in Producer : AllocXfer(p) \/ SendStep(p)
    \/ UrbStep
    \/ WorkStep
    \/ ShutStop
    \/ ShutStep
    \/ ToggleIdle
    \/ Unbound

Spec == Init /\ [][Next]_vars

(* A thread inside mpro_send_xfer is scheduled, USB completes what was     *)
(* submitted, the workqueue runs what was queued, and a disconnect that    *)
(* began goes on.  Nobody has to send a frame or to unplug the panel.      *)
Fairness ==
    /\ \A p \in Producer : WF_vars(SendStep(p))
    /\ WF_vars(UrbStep)
    /\ WF_vars(WorkStep)
    /\ WF_vars(ShutStep)

FairSpec == Spec /\ Fairness

-----------------------------------------------------------------------------
(* Properties.                                                             *)

(* Every pointer some part of the driver still holds, USB included.        *)
Held ==
    ({current_xfer, pending_xfer, done, nxt} \cup {own[p] : p \in Producer}
       \cup {u[2] : u \in anchored}) \ {NoXfer}

(* mpro_io_shutdown kills the URBs without waiting for complete_work.  The *)
(* frame that the work submits behind the kill (late) is freed by          *)
(* ShutTake while USB still has it.                                        *)
Straggling == late /\ shut = "down"

Straggler == {u[2] : u \in {v \in anchored : Straggling}}

(* Memory safety of the hand-over of xfers: whatever producers, completion *)
(* handlers, complete_work and mpro_io_shutdown interleave to, nobody      *)
(* holds an xfer that somebody else has freed, so there is no use after    *)
(* free and no double free.  The one exception is a frame that             *)
(* complete_work submitted behind the kill: USB is left with it.           *)
NoDanglingXfer == Held \ Straggler \subseteq live

(* Every allocated xfer is held by somebody who will free it: none leaks,  *)
(* whichever error path a frame takes.                                     *)
NoLeakedXfer == live \subseteq Held

UrbOfCurrent ==
    /\ \A u, v \in anchored : u = v
    /\ \A u \in anchored :
         (in_flight /\ u[2] = current_xfer) \/ Straggling

(* While in_flight keeps other producers from submitting, somebody is      *)
(* still going to finish the transfer and clear it.                        *)
InFlightHasOwner ==
    in_flight =>
        \/ anchored # {}
        \/ work_queued
        \/ nxt # NoXfer
        \/ \E p \in Producer : pc[p] \in {"submit", "undo"}
        \/ shut = "take"

(* "Single transfer in flight": never two URBs at once, the one there is   *)
(* belongs to current_xfer, which in_flight protects from being claimed by *)
(* another producer, and the pipe is not left claimed with nobody to give  *)
(* it back, whichever submission or URB failed.  Only the URB submitted    *)
(* behind the kill survives the clearing of both in mpro_io_shutdown.      *)
SingleTransferInFlight == UrbOfCurrent /\ InFlightHasOwner

(* A pending frame is never stranded: complete_work will come for it,      *)
(* because a transfer is in flight, or mpro_io_shutdown will.              *)
PendingBehindCurrent == pending_xfer # NoXfer /\ running => in_flight

Drained == anchored = {} /\ ~work_queued /\ wpc = "out" /\ live = {}

(* mpro_io_shutdown leaves nothing behind: no URB that could still call a  *)
(* completion handler, no queued or running work, no xfer.  complete_work  *)
(* that held its next frame across the whole kill of the URBs, and         *)
(* submitted it only then, is the one way to fail: it leaves USB with that *)
(* one URB or the work with its completion, and no xfer but the one that   *)
(* this work is about to free.                                             *)
ShutdownDrains ==
    shut = "down" =>
        /\ ~late => Drained
        /\ \A u, v \in anchored : u = v
        /\ live \subseteq {done}

(* What the comment in mpro_io_shutdown promises without that exception:   *)
(* running was cleared, "so no new submissions can come in", and killing   *)
(* the URBs and cancelling the work drains the pipe.                       *)
ShutdownAlwaysDrains == shut = "down" => Drained

(* What makes the properties above inductive, part by part.                *)

(* Who holds an xfer privately: a producer between its calls, complete_work *)
(* between its unlock and its last kfree.                                  *)
LocalsInv ==
    /\ \A p \in Producer : pc[p] = "out" <=> own[p] = NoXfer
    /\ wpc = "out" => done = NoXfer /\ nxt = NoXfer
    /\ wpc \in {"submit", "undo"} => done = NoXfer /\ nxt # NoXfer

(* An xfer has one owner, except that current_xfer also points to the one  *)
(* that is being submitted or is with USB.                                 *)
OwnersInv ==
    /\ \A p \in Producer :
         /\ pc[p] \in {"send", "displaced"} =>
                own[p] \notin {current_xfer, pending_xfer, done}
         /\ pc[p] \in {"submit", "undo"} => own[p] = current_xfer
    /\ \A p, q \in Producer : own[p] # NoXfer /\ own[p] = own[q] => p = q
    /\ nxt # NoXfer => nxt = current_xfer
    /\ pending_xfer # NoXfer => pending_xfer \notin {current_xfer, done}
    /\ done # NoXfer => done # current_xfer

Submitting == \E p \in Producer : pc[p] \in {"submit", "undo"}

(* in_flight is a token that exactly one party holds: the submitting       *)
(* producer, USB, the queued work or the running work.                     *)
TokenInv ==
    /\ in_flight <=> current_xfer # NoXfer
    /\ work_queued => anchored = {} /\ nxt = NoXfer /\ ~Submitting
    /\ work_queued => in_flight \/ Straggling
    /\ anchored # {} => nxt = NoXfer /\ ~Submitting
    /\ nxt # NoXfer => ~Submitting
    /\ \A p, q \in Producer :
         pc[p] \in {"submit", "undo"} /\ pc[q] \in {"submit", "undo"} => p = q

(* What each stage of the disconnect has already drained.                  *)
ShutInv ==
    /\ running <=> shut = "up"
    /\ late => shut \in {"cancel", "take", "down"}
    /\ shut \in {"kill", "cancel", "take", "down"} =>
         \A p \in Producer : pc[p] = "out"
    /\ shut \in {"take", "down"} => nxt = NoXfer
    /\ shut \in {"cancel", "take", "down"} /\ ~late => anchored = {}
    /\ shut \in {"take", "down"} /\ ~late => ~work_queued /\ wpc = "out"
    /\ shut = "down" => current_xfer = NoXfer /\ pending_xfer = NoXfer

(* The inductive invariant behind memory safety and the single transfer.   *)
PipelineInv ==
    /\ LocalsInv
    /\ OwnersInv
    /\ TokenInv
    /\ ShutInv
    /\ SingleTransferInFlight
    /\ NoDanglingXfer
    /\ NoLeakedXfer

(* Frames move towards the panel in the order of their acceptance, as long *)
(* as no submission of a control URB fails before the device goes away.    *)
OrderInv ==
    /\ current_xfer # NoXfer =>
         shown <= seq[current_xfer] /\ seq[current_xfer] \in 1 .. stats.submitted
    /\ pending_xfer # NoXfer =>
         shown < seq[pending_xfer] /\ seq[pending_xfer] \in 1 .. stats.submitted
    /\ pending_xfer # NoXfer /\ current_xfer # NoXfer =>
         seq[current_xfer] < seq[pending_xfer]
    /\ \A u \in anchored :
         shown <= seq[u[2]] /\ seq[u[2]] \in 1 .. stats.submitted
    /\ shown <= stats.submitted
    /\ PendingBehindCurrent
    /\ running => wpc # "undo" /\ \A p \in Producer : pc[p] # "undo"

(* Latest wins: the panel never goes back to an older frame than the one   *)
(* it shows, however frames are coalesced and submitted.                   *)
LatestWins == [][shown' >= shown]_vars

(* Every accepted frame reaches the panel or is superseded by a newer one  *)
(* that does, unless the device goes away first.                           *)
AcceptedIsShown ==
    \A n \in 1 .. MaxFrames :
        stats.submitted >= n ~> (shown >= n \/ ~running)

(* A disconnect always completes: usb_kill_anchored_urbs and               *)
(* cancel_work_sync do not wait for ever, and every xfer is freed.         *)
DisconnectCompletes == ~running ~> shut = "down" /\ live = {}

(* The pipeline as a latest-wins mailbox: a frame is its seq.              *)
SeqOf(x) == IF x = NoXfer THEN 0 ELSE seq[x]

Mailbox == INSTANCE LatestWinsMailbox WITH
    open <- running,
    accepted <- stats.submitted,
    slot <- SeqOf(current_xfer),
    waiting <- SeqOf(pending_xfer),
    panel <- shown

(* Without errors in submitting control URBs the pipeline implements the   *)
(* latest-wins mailbox.                                                    *)
ImplementsMailbox == Mailbox!Spec
=============================================================================
