----------------------------- MODULE BeadaPanel -----------------------------
(***************************************************************************)
(* The BeadaPanel driver at run time: the MFD parent's frame worker and    *)
(* power management (beada-pipeline.c, beada-pm.c), the DRM child's pipe   *)
(* callbacks, software vblank and resume handler (drm/), the backlight     *)
(* child (bl/), and the panel's firmware as those files describe it.       *)
(*                                                                         *)
(* A section the code runs under xfer_lock is one step.  Between steps     *)
(* run: the compositor's commit (drm.pc), the ordered workqueue (run), a   *)
(* backlight writer holding mb->lock (bl.pc), a clock writer (clk), the    *)
(* PM core calling suspend and resume (pm.pc) and the USB core unbinding   *)
(* the interface (rem).  The panel shows "cur", the frame blitted last,    *)
(* "old", an earlier one, "torn", a shadow copied in the middle of a blit, *)
(* the "blank" frame, or its own "clock".                                  *)
(***************************************************************************)
EXTENDS Naturals, Sequences, SequencesExt

CONSTANTS
    Setups,     \* the systems a behaviour may run in, one per behaviour
    Level       \* brightness values and gamma curves that can be told apart

ASSUME LevelAssumption == 1 \in Level

(***************************************************************************)
(* actors: what happens in this system: "auto" suspend, "system" suspend,  *)
(* "bl" writes, "gamma" writes, "clk" writes, "remove", "errors" of the    *)
(* transfers of frames and of PL_RESET; noblank: the module parameter;     *)
(* strict: the firmware refuses SL_SET_BL until a frame has followed the   *)
(* last PL_RESET.                                                          *)
(***************************************************************************)
VARIABLES
    setup,
    mfd,    \* struct beada_mfd_dev: flags, dimension cache, staged frame
    pm,     \* runtime PM status, autopm users, progress of the PM core
    wq,     \* xfer_wq: works queued and not yet running
    run,    \* the work that xfer_wq is running
    drm,    \* struct beada_drm_dev and the progress of the commit
    bl,     \* struct beada_backlight and the progress of its writer
    clk,    \* progress of a sync_time write
    rem,    \* progress of disconnect and of the children's removal
    dev     \* the panel, and the history of what it could not make out

vars == <<setup, mfd, pm, wq, run, drm, bl, clk, rem, dev>>

Content == {"clock", "blank", "torn", "old", "cur"}
Curve == Level \X Level         \* <<stored_value, gamma_x100>>

\* Why firmware and driver disagree on the stream: a frame sent between the
\* lowering of the flag and the zeroing of the cache, or a failed PL_RESET
Cause == {"window", "unreset", "other"}

(***************************************************************************)
(* The records hold the fields of the driver's structures that control     *)
(* anything, and a pc for what a thread of the driver is in the middle of. *)
(* dev keeps three histories: garbled, why the firmware misread the wire;  *)
(* skew, why it holds dimensions the driver has zeroed; refused, whose     *)
(* brightness it has refused and not been sent again.                      *)
(***************************************************************************)
TypeOK ==
    /\ setup \in Setups
    /\ mfd \in [suspended: BOOLEAN, in_resume: BOOLEAN, disconnected: BOOLEAN,
                cached: BOOLEAN, xfer_src: {"none", "shadow", "blank"},
                timer: BOOLEAN]
    /\ pm \in [rpm: {"active", "suspending", "suspended", "resuming"},
               pc: {"idle", "cancel", "flush", "flag", "down", "reset",
                    "zero", "sync"},
               system: BOOLEAN,
               users: SUBSET {"pipe", "bl", "clk", "work", "unbind"}]
    /\ wq \in Seq({"xfer", "resume"}) 
    /\ Contains(wq, "xfer") => mfd.xfer_src # "none"
    /\ run \in [work: {"none", "xfer", "resume"},
                pc: {"start", "get", "drm", "send", "bl"},
                src: {"none", "shadow", "blank"}]
    /\ drm \in [pc: {"idle", "flush", "blit", "blitting", "send", "get",
                     "wait", "off", "drain", "invalid"},
                on: BOOLEAN, opening: BOOLEAN, vblank: BOOLEAN,
                event: {"none", "pending", "armed"},
                shadow: Content, valid: BOOLEAN]
    /\ bl \in [stored: Level, gamma: Level, waiting: BOOLEAN,
               pc: {"idle", "check", "get", "send"}, arg: Curve,
               ref: BOOLEAN]
    /\ clk \in {"idle", "get", "send", "bare"}
    /\ rem \in {"bound", "resume", "cancel", "flush", "unplug", "shutdown",
                "freed"}
    /\ dev \in [latched: BOOLEAN, framed: BOOLEAN, garbled: SUBSET Cause,
                skew: {"none", "window", "unreset"},
                refused: {"no", "user", "handler"},
                shown: Content, level: Curve]

Init ==
    /\ setup \in Setups
    /\ mfd = [suspended |-> FALSE, in_resume |-> FALSE,
              disconnected |-> FALSE, cached |-> FALSE,
              xfer_src |-> "none", timer |-> FALSE]
    /\ pm = [rpm |-> "active", pc |-> "idle", system |-> FALSE, users |-> {}]
    /\ wq = <<>>
    /\ run = [work |-> "none", pc |-> "start", src |-> "none"]
    /\ drm = [pc |-> "idle", on |-> FALSE, opening |-> FALSE,
              vblank |-> FALSE, event |-> "none", shadow |-> "blank",
              valid |-> FALSE]
    /\ bl = [stored |-> 1, gamma |-> 1, waiting |-> FALSE, pc |-> "idle",
             arg |-> <<1, 1>>, ref |-> FALSE]
    /\ clk = "idle"
    /\ rem = "bound"
    /\ dev = [latched |-> FALSE, framed |-> FALSE, garbled |-> {},
              skew |-> "none", refused |-> "no",
              shown |-> "clock", level |-> <<1, 1>>]

-----------------------------------------------------------------------------
(* Helpers shared by the paths below.                                      *)

\* beada_check_alive
Alive == ~mfd.disconnected /\ ~mfd.suspended

\* queue_work: a work that is already pending is not queued twice
Queue(q, w) == IF Contains(q, w) THEN q ELSE Append(q, w)

\* flush_work and cancel_work_sync return when the work neither waits nor runs
XferIdle == ~Contains(wq, "xfer") /\ run.work # "xfer"

\* usb_autopm_get_interface returns once the interface is active
Powered == pm.rpm = "active"

\* User space runs: it is frozen during system suspend and resume
Thawed == ~pm.system

\* beada_send_frame: the frame is staged and its worker queued
SendFrame(src) ==
    /\ mfd' = [mfd EXCEPT !.xfer_src = src]
    /\ wq' = Queue(wq, "xfer")

\* The firmware takes a brightness, or refuses it in silence
SetBacklight(d, level, who) ==
    IF setup.strict /\ ~d.framed THEN [d EXCEPT !.refused = who]
    ELSE [d EXCEPT !.level = level, !.refused = "no"]

\* A bulk transfer on a bus that is down is an error of the driver
OnBus(d) ==
    IF pm.pc = "down" THEN [d EXCEPT !.garbled = @ \cup {"other"}] ELSE d

InWindow == pm.pc \in {"reset", "zero"}

\* Firmware: a second START is taken for pixels ...
StartTag(d) ==
    [d EXCEPT !.garbled = IF ~d.latched THEN @
                          ELSE @ \cup {IF InWindow THEN "window"
                                       ELSE IF d.skew = "none" THEN "other"
                                       ELSE d.skew},
              !.latched = TRUE,
              !.skew = IF InWindow THEN "window" ELSE "none"]

\* ... and pixels without START for a tag
FrameData(d, c) ==
    IF d.latched THEN [d EXCEPT !.shown = c, !.framed = TRUE]
    ELSE [d EXCEPT !.garbled = @ \cup {IF InWindow THEN "window" ELSE "other"}]

-----------------------------------------------------------------------------
(* The ordered workqueue.                                                  *)

Dispatch ==
    /\ run.work = "none" /\ wq # <<>>
    /\ run' = [run EXCEPT !.work = Head(wq), !.pc = "start"]
    /\ wq' = Tail(wq)
    /\ UNCHANGED <<setup, mfd, pm, drm, bl, clk, rem, dev>>

XferContent == IF mfd.xfer_src = "blank" THEN "blank" ELSE drm.shadow

\* pl_send: START only while no dimensions are cached, then the pixels
PlSend ==
    LET tagged == IF mfd.cached THEN dev ELSE StartTag(dev)
    IN /\ dev' = OnBus(FrameData(tagged, XferContent))
       /\ mfd' = [mfd EXCEPT !.cached = TRUE]

\* ... and either of its transfers may fail
PlSendFails ==
    \/ ~mfd.cached /\ UNCHANGED <<mfd, dev>>
    \/ /\ dev' = IF mfd.cached THEN dev ELSE OnBus(StartTag(dev))
       /\ mfd' = [mfd EXCEPT !.cached = TRUE]

\* beada_xfer_worker, all of it under xfer_lock
XferWorker ==
    /\ run.work = "xfer"
    /\ run' = [run EXCEPT !.work = "none"]
    /\ \/ ~Alive /\ UNCHANGED <<mfd, dev>>
       \/ Alive /\ PlSend
       \/ Alive /\ "errors" \in setup.actors /\ PlSendFails
    /\ UNCHANGED <<setup, pm, wq, drm, bl, clk, rem>>

\* The delay of resume_work has passed
ResumeTimer ==
    /\ mfd.timer
    /\ mfd' = [mfd EXCEPT !.timer = FALSE]
    /\ wq' = Queue(wq, "resume")
    /\ UNCHANGED <<setup, pm, run, drm, bl, clk, rem, dev>>

\* beada_resume_handlers_work: leaves at once, or asks for the bus
ResumeStart ==
    /\ run.work = "resume" /\ run.pc = "start"
    /\ IF mfd.disconnected \/ mfd.suspended
       THEN run' = [run EXCEPT !.work = "none"] /\ UNCHANGED pm
       ELSE /\ run' = [run EXCEPT !.pc = "get"]
            /\ pm' = [pm EXCEPT !.users = @ \cup {"work"}]
    /\ UNCHANGED <<setup, mfd, wq, drm, bl, clk, rem, dev>>

\* Mutation: the handler submits a frame even when it has none
HandlerDrmNullSent ==
    /\ run.work = "resume" /\ run.pc = "get" /\ Powered
    /\ drm.pc # "blitting"
    /\ run' = [run EXCEPT !.src = IF drm.valid THEN "shadow" ELSE "none",
                          !.pc = "send"]
    /\ UNCHANGED <<setup, mfd, pm, wq, drm, bl, clk, rem, dev>>

\* beada_drm_resume_handler chooses its source under shadow_lock
HandlerDrm ==
    /\ run.work = "resume" /\ run.pc = "get"
    /\ Powered
    /\ drm.pc # "blitting"
    /\ LET src == IF drm.valid THEN "shadow"
                  ELSE IF setup.noblank THEN "none" ELSE "blank"
       IN run' = [run EXCEPT !.src = src,
                             !.pc = IF src = "none" THEN "bl" ELSE "send"]
    /\ UNCHANGED <<setup, mfd, pm, wq, drm, bl, clk, rem, dev>>

\* Mutation: the handler waits for the transfer on the queue that it occupies
HandlerSendFlushed ==
    /\ run.work = "resume" /\ run.pc = "send"
    /\ XferIdle
    /\ SendFrame(run.src)
    /\ run' = [run EXCEPT !.pc = "bl"]
    /\ UNCHANGED <<setup, pm, drm, bl, clk, rem, dev>>

\* ... and submits it after the lock is released
HandlerSend ==
    /\ run.work = "resume" /\ run.pc = "send"
    /\ SendFrame(run.src)
    /\ run' = [run EXCEPT !.pc = "bl"]
    /\ UNCHANGED <<setup, pm, drm, bl, clk, rem, dev>>

\* Mutation: the backlight handler is not called
HandlerBlForgotten ==
    /\ run.work = "resume" /\ run.pc = "bl"
    /\ bl.pc = "idle"
    /\ pm' = [pm EXCEPT !.users = @ \ {"work"}]
    /\ run' = [run EXCEPT !.work = "none"]
    /\ UNCHANGED <<setup, mfd, wq, drm, bl, clk, rem, dev>>

\* beada_bl_resume_handler under mb->lock, then the autopm reference is dropped
HandlerBl ==
    /\ run.work = "resume" /\ run.pc = "bl"
    /\ bl.pc = "idle"
    /\ dev' = IF Alive
              THEN OnBus(SetBacklight(dev, <<bl.stored, bl.gamma>>, "handler"))
              ELSE dev
    /\ pm' = [pm EXCEPT !.users = @ \ {"work"}]
    /\ run' = [run EXCEPT !.work = "none"]
    /\ UNCHANGED <<setup, mfd, wq, drm, bl, clk, rem>>

-----------------------------------------------------------------------------
(* The compositor's commit.  The atomic helpers call pipe_update before    *)
(* pipe_enable when a commit opens the pipe.                               *)

\* A commit that shows a frame, with a flip event
Commit ==
    /\ drm.pc = "idle" /\ Thawed /\ rem \notin {"shutdown", "freed"}
    /\ drm.event = "none"
    /\ drm' = [drm EXCEPT !.pc = "flush", !.event = "pending",
                          !.opening = ~drm.on]
    /\ UNCHANGED <<setup, mfd, pm, wq, run, bl, clk, rem, dev>>

\* beada_pipe_update waits for the previous frame's transfer
UpdateFlush ==
    /\ drm.pc = "flush"
    /\ XferIdle
    /\ drm' = [drm EXCEPT !.pc = "blit"]
    /\ UNCHANGED <<setup, mfd, pm, wq, run, bl, clk, rem, dev>>

\* beada_blit_rect begins: the shadow holds parts of two frames
UpdateBlit ==
    /\ drm.pc = "blit"
    /\ drm' = [drm EXCEPT !.pc = "blitting", !.shadow = "torn"]
    /\ dev' = [dev EXCEPT !.shown = IF @ = "cur" THEN "old" ELSE @]
    /\ UNCHANGED <<setup, mfd, pm, wq, run, bl, clk, rem>>

UpdateBlitEnd ==
    /\ drm.pc = "blitting"
    /\ drm' = [drm EXCEPT !.pc = "send", !.shadow = "cur", !.valid = TRUE]
    /\ UNCHANGED <<setup, mfd, pm, wq, run, bl, clk, rem, dev>>

\* Mutation: a commit that finds the shadow staged relies on that transfer
UpdateSendSkipped ==
    /\ drm.pc = "send"
    /\ IF mfd.xfer_src = "shadow" THEN UNCHANGED <<mfd, wq>>
                                  ELSE SendFrame("shadow")
    /\ drm' = [drm EXCEPT !.pc = IF drm.opening THEN "get" ELSE "idle",
                          !.event = IF drm.vblank THEN "armed" ELSE "none"]
    /\ UNCHANGED <<setup, pm, run, bl, clk, rem, dev>>

\* The frame is submitted and the flip event armed, or sent without a vblank
UpdateSend ==
    /\ drm.pc = "send"
    /\ SendFrame("shadow")
    /\ drm' = [drm EXCEPT !.pc = IF drm.opening THEN "get" ELSE "idle",
                          !.event = IF drm.vblank THEN "armed" ELSE "none"]
    /\ UNCHANGED <<setup, pm, run, bl, clk, rem, dev>>

\* beada_pipe_enable takes the autopm reference of the pipe
EnableGet ==
    /\ drm.pc = "get"
    /\ pm' = [pm EXCEPT !.users = @ \cup {"pipe"}]
    /\ drm' = [drm EXCEPT !.pc = "wait"]
    /\ UNCHANGED <<setup, mfd, wq, run, bl, clk, rem, dev>>

\* ... starts the vblank timer and sends what event is left
EnableOn ==
    /\ drm.pc = "wait" /\ Powered
    /\ drm' = [drm EXCEPT !.pc = "idle", !.on = TRUE, !.opening = FALSE,
                          !.vblank = TRUE,
                          !.event = IF @ = "pending" THEN "none" ELSE @]
    /\ UNCHANGED <<setup, mfd, pm, wq, run, bl, clk, rem, dev>>

\* beada_vblank_timer_cb releases an armed event
VblankTick ==
    /\ drm.vblank /\ drm.event = "armed"
    /\ drm' = [drm EXCEPT !.event = "none"]
    /\ UNCHANGED <<setup, mfd, pm, wq, run, bl, clk, rem, dev>>

\* A commit that closes the pipe: beada_pipe_disable sends the pending event
Disable ==
    /\ drm.pc = "idle" /\ drm.on /\ Thawed
    /\ drm' = [drm EXCEPT !.pc = "off",
                          !.event = IF @ = "pending" THEN "none" ELSE @]
    /\ UNCHANGED <<setup, mfd, pm, wq, run, bl, clk, rem, dev>>

\* ... drains, stops the vblank timer (DRM sends armed events) and blanks
DisableBlank ==
    /\ drm.pc = "off" /\ XferIdle
    /\ drm' = [drm EXCEPT !.vblank = FALSE, !.event = "none",
                          !.pc = IF setup.noblank THEN "invalid" ELSE "drain"]
    /\ IF setup.noblank THEN UNCHANGED <<mfd, wq>> ELSE SendFrame("blank")
    /\ UNCHANGED <<setup, pm, run, bl, clk, rem, dev>>

DisableDrain ==
    /\ drm.pc = "drain" /\ XferIdle
    /\ drm' = [drm EXCEPT !.pc = "invalid"]
    /\ UNCHANGED <<setup, mfd, pm, wq, run, bl, clk, rem, dev>>

\* ... marks the shadow invalid and gives the autopm reference back
DisableIdle ==
    /\ drm.pc = "invalid"
    /\ drm' = [drm EXCEPT !.pc = "idle", !.on = FALSE, !.valid = FALSE]
    /\ pm' = [pm EXCEPT !.users = @ \ {"pipe"}]
    /\ UNCHANGED <<setup, mfd, wq, run, bl, clk, rem, dev>>

-----------------------------------------------------------------------------
(* Backlight and clock writers.                                            *)

BlFree == bl.pc = "idle" /\ rem \notin {"shutdown", "freed"}

\* beada_bl_update_status stores the value and sends it, all under mb->lock
BlWrite(v) ==
    /\ "bl" \in setup.actors /\ Thawed /\ BlFree
    /\ bl' = [bl EXCEPT !.stored = v, !.pc = "check", !.arg = <<v, bl.gamma>>]
    /\ UNCHANGED <<setup, mfd, pm, wq, run, drm, clk, rem, dev>>

\* gamma_store records the curve before it takes mb->lock
GammaWrite(g) ==
    /\ "gamma" \in setup.actors /\ Thawed /\ ~bl.waiting
    /\ rem \notin {"shutdown", "freed"}
    /\ bl' = [bl EXCEPT !.gamma = g, !.waiting = TRUE]
    /\ UNCHANGED <<setup, mfd, pm, wq, run, drm, clk, rem, dev>>

GammaLock ==
    /\ bl.waiting /\ bl.pc = "idle"
    /\ bl' = [bl EXCEPT !.waiting = FALSE, !.pc = "check",
                        !.arg = <<bl.stored, bl.gamma>>]
    /\ UNCHANGED <<setup, mfd, pm, wq, run, drm, clk, rem, dev>>

\* beada_set_brightness: deferred while suspended, else the bus is asked for
BlCheck ==
    /\ bl.pc = "check"
    /\ bl' = [bl EXCEPT !.pc = IF mfd.suspended THEN "idle"
                               ELSE IF mfd.in_resume THEN "send" ELSE "get",
                        !.ref = ~mfd.suspended /\ ~mfd.in_resume]
    /\ pm' = IF ~mfd.suspended /\ ~mfd.in_resume
             THEN [pm EXCEPT !.users = @ \cup {"bl"}] ELSE pm
    /\ UNCHANGED <<setup, mfd, wq, run, drm, clk, rem, dev>>

BlGet ==
    /\ bl.pc = "get" /\ Powered
    /\ bl' = [bl EXCEPT !.pc = "send"]
    /\ UNCHANGED <<setup, mfd, pm, wq, run, drm, clk, rem, dev>>

\* ... and the value goes out under xfer_lock
BlSend ==
    /\ bl.pc = "send"
    /\ dev' = IF Alive THEN OnBus(SetBacklight(dev, bl.arg, "user")) ELSE dev
    /\ bl' = [bl EXCEPT !.pc = "idle", !.ref = FALSE]
    /\ pm' = IF bl.ref THEN [pm EXCEPT !.users = @ \ {"bl"}] ELSE pm
    /\ UNCHANGED <<setup, mfd, wq, run, drm, clk, rem>>

\* sync_time_store: beada_sync_time refuses while suspended, and takes no
\* autopm reference while a resume is in progress
ClockWrite ==
    /\ "clk" \in setup.actors /\ Thawed
    /\ clk = "idle" /\ rem \notin {"shutdown", "freed"}
    /\ ~mfd.suspended
    /\ clk' = IF mfd.in_resume THEN "bare" ELSE "get"
    /\ pm' = IF mfd.in_resume THEN pm
             ELSE [pm EXCEPT !.users = @ \cup {"clk"}]
    /\ UNCHANGED <<setup, mfd, wq, run, drm, bl, rem, dev>>

ClockGet ==
    /\ clk = "get" /\ Powered
    /\ clk' = "send"
    /\ UNCHANGED <<setup, mfd, pm, wq, run, drm, bl, rem, dev>>

ClockSend ==
    /\ clk \in {"send", "bare"}
    /\ clk' = "idle"
    /\ dev' = IF Alive THEN OnBus(dev) ELSE dev
    /\ pm' = [pm EXCEPT !.users = @ \ {"clk"}]
    /\ UNCHANGED <<setup, mfd, wq, run, drm, bl, rem>>

-----------------------------------------------------------------------------
(* USB power management.                                                   *)

HandlersDue == mfd.timer \/ Contains(wq, "resume") \/ run.work = "resume"

\* The PM core suspends an interface nobody uses, or the whole system
AutoSuspend ==
    /\ "auto" \in setup.actors
    /\ pm.pc = "idle" /\ Powered /\ pm.users = {}
    /\ rem = "bound"
    /\ pm' = [pm EXCEPT !.rpm = "suspending", !.pc = "cancel"]
    /\ UNCHANGED <<setup, mfd, wq, run, drm, bl, clk, rem, dev>>

SystemSuspend ==
    /\ "system" \in setup.actors
    /\ pm.pc = "idle" /\ Powered /\ Thawed
    /\ rem = "bound"
    /\ drm.pc = "idle" /\ bl.pc = "idle" /\ ~bl.waiting /\ clk = "idle"
    /\ pm' = [pm EXCEPT !.system = TRUE, !.pc = "cancel"]
    /\ UNCHANGED <<setup, mfd, wq, run, drm, bl, clk, rem, dev>>

\* beada_usb_suspend: cancel_delayed_work_sync waits for a running dispatch
SuspendCancel ==
    /\ pm.pc = "cancel"
    /\ run.work # "resume"
    /\ mfd' = [mfd EXCEPT !.timer = FALSE]
    /\ wq' = RemoveFirst(wq, "resume")
    /\ pm' = [pm EXCEPT !.pc = "flush"]
    /\ UNCHANGED <<setup, run, drm, bl, clk, rem, dev>>

SuspendFlush ==
    /\ pm.pc = "flush" /\ XferIdle
    /\ pm' = [pm EXCEPT !.pc = "flag"]
    /\ UNCHANGED <<setup, mfd, wq, run, drm, bl, clk, rem, dev>>

\* The flag is raised and the bus goes down; the panel may lose its state
SuspendFlag ==
    /\ pm.pc = "flag"
    /\ mfd' = [mfd EXCEPT !.suspended = TRUE]
    /\ pm' = [pm EXCEPT !.pc = "down",
                        !.rpm = IF pm.system THEN @ ELSE "suspended"]
    /\ dev' \in {dev, [dev EXCEPT !.latched = FALSE, !.framed = FALSE,
                                  !.level = <<1, 1>>, !.shown = "clock"]}
    /\ UNCHANGED <<setup, wq, run, drm, bl, clk, rem>>

\* beada_usb_resume: the flag is lowered first
ResumeWake ==
    /\ pm.pc = "down"
    /\ pm.system \/ pm.users # {}
    /\ mfd' = [mfd EXCEPT !.suspended = FALSE]
    /\ pm' = [pm EXCEPT !.pc = "reset",
                        !.rpm = IF pm.system THEN @ ELSE "resuming"]
    /\ UNCHANGED <<setup, wq, run, drm, bl, clk, rem, dev>>

\* beada_panellink_reset: the firmware forgets the stream ...
PlReset ==
    dev' = IF Alive THEN [dev EXCEPT !.latched = FALSE, !.framed = FALSE,
                                     !.skew = "none", !.shown = "clock"]
                    ELSE dev

\* ... or the transfer fails, of which the resume only warns
PlResetFails ==
    dev' = IF dev.latched THEN [dev EXCEPT !.skew = "unreset"] ELSE dev

ResumeReset ==
    /\ pm.pc = "reset"
    /\ mfd' = [mfd EXCEPT !.in_resume = TRUE]
    /\ PlReset \/ ("errors" \in setup.actors /\ PlResetFails)
    /\ pm' = [pm EXCEPT !.pc = "zero"]
    /\ UNCHANGED <<setup, wq, run, drm, bl, clk, rem>>

\* Mutation: the dimension cache survives the resume
ResumeZeroForgotten ==
    /\ pm.pc = "zero"
    /\ pm' = [pm EXCEPT !.pc = "sync"]
    /\ UNCHANGED <<setup, mfd, wq, run, drm, bl, clk, rem, dev>>

ResumeZero ==
    /\ pm.pc = "zero"
    /\ mfd' = [mfd EXCEPT !.cached = FALSE]
    /\ pm' = [pm EXCEPT !.pc = "sync"]
    /\ UNCHANGED <<setup, wq, run, drm, bl, clk, rem, dev>>

\* The clock is set again, and the handlers are put off by 1200 ms
ResumeSync ==
    /\ pm.pc = "sync"
    /\ mfd' = [mfd EXCEPT !.in_resume = FALSE,
                          !.timer = ~Contains(wq, "resume")]
    /\ pm' = [pm EXCEPT !.pc = "idle", !.rpm = "active", !.system = FALSE]
    /\ UNCHANGED <<setup, wq, run, drm, bl, clk, rem, dev>>

-----------------------------------------------------------------------------
(* Disconnect: the USB core resumes the interface, then unbinds it.        *)

Unbind ==
    /\ "remove" \in setup.actors /\ rem = "bound" /\ Thawed
    /\ pm' = [pm EXCEPT !.users = @ \cup {"unbind"}]
    /\ rem' = "resume"
    /\ UNCHANGED <<setup, mfd, wq, run, drm, bl, clk, dev>>

\* beada_disconnect: every transfer from here on fails
DisconnectFlag ==
    /\ rem = "resume" /\ Powered /\ pm.pc = "idle"
    /\ mfd' = [mfd EXCEPT !.disconnected = TRUE]
    /\ rem' = "cancel"
    /\ UNCHANGED <<setup, pm, wq, run, drm, bl, clk, dev>>

\* Mutation: disconnect does not cancel the deferred handlers
DisconnectCancelForgotten ==
    /\ rem = "cancel"
    /\ rem' = "flush"
    /\ UNCHANGED <<setup, mfd, pm, wq, run, drm, bl, clk, dev>>

DisconnectCancel ==
    /\ rem = "cancel"
    /\ run.work # "resume"
    /\ mfd' = [mfd EXCEPT !.timer = FALSE]
    /\ wq' = RemoveFirst(wq, "resume")
    /\ rem' = "flush"
    /\ UNCHANGED <<setup, pm, run, drm, bl, clk, dev>>

DisconnectFlush ==
    /\ rem = "flush" /\ XferIdle
    /\ rem' = "unplug"
    /\ UNCHANGED <<setup, mfd, pm, wq, run, drm, bl, clk, dev>>

\* The children go: beada_backlight_remove waits for the writers, and
\* drm_dev_unplug in beada_drm_remove for the commit that is inside the device
ChildrenRemove ==
    /\ rem = "unplug"
    /\ drm.pc = "idle" /\ bl.pc = "idle" /\ ~bl.waiting /\ clk = "idle"
    /\ rem' = "shutdown"
    /\ UNCHANGED <<setup, mfd, pm, wq, run, drm, bl, clk, dev>>

\* drm_atomic_helper_shutdown has closed the pipe, and devm frees the parent
ChildrenFreed ==
    /\ rem = "shutdown"
    /\ drm.pc = "idle" /\ ~drm.on
    /\ rem' = "freed"
    /\ pm' = [pm EXCEPT !.users = @ \ {"unbind"}]
    /\ UNCHANGED <<setup, mfd, wq, run, drm, bl, clk, dev>>

-----------------------------------------------------------------------------
Wq == \/ Dispatch \/ XferWorker \/ ResumeTimer \/ ResumeStart
      \/ HandlerDrm \/ HandlerSend \/ HandlerBl
Update == UpdateFlush \/ UpdateBlit \/ UpdateBlitEnd \/ UpdateSend
Enable == EnableGet \/ EnableOn
Disabling == DisableBlank \/ DisableDrain \/ DisableIdle
Writers == GammaLock \/ BlCheck \/ BlGet \/ BlSend \/ ClockGet \/ ClockSend
Pm == \/ SuspendCancel \/ SuspendFlush \/ SuspendFlag
      \/ ResumeWake \/ ResumeReset \/ ResumeZero \/ ResumeSync
Unplug == \/ DisconnectFlag \/ DisconnectCancel \/ DisconnectFlush
          \/ ChildrenRemove \/ ChildrenFreed

Next ==
    \/ Wq \/ Commit \/ Update \/ Enable \/ VblankTick \/ Disable \/ Disabling
    \/ \E v \in Level : BlWrite(v) \/ GammaWrite(v)
    \/ ClockWrite \/ Writers
    \/ AutoSuspend \/ SystemSuspend \/ Pm
    \/ Unbind \/ Unplug

Spec == Init /\ [][Next]_vars

(***************************************************************************)
(* Works, timers, commits, writers and the PM core's calls go on once they *)
(* have begun, and a removal closes an open pipe.  A kernel mutex is       *)
(* handed to the waiter that has waited too long, hence the strong         *)
(* fairness of those who wait for mb->lock or shadow_lock; flush_work      *)
(* waits for the transfer it found and not for later ones, hence that of   *)
(* the flushes.  Nobody has to commit, write, suspend or unplug.           *)
(***************************************************************************)
FairSpec ==
    /\ Spec
    /\ WF_vars(Wq) /\ SF_vars(HandlerDrm \/ HandlerBl)
    /\ WF_vars(Update \/ Enable \/ Disabling)
    /\ SF_vars(UpdateFlush \/ DisableBlank \/ DisableDrain)
    /\ WF_vars(VblankTick)
    /\ WF_vars(Writers) /\ SF_vars(GammaLock)
    /\ WF_vars(Pm) /\ WF_vars(Unplug \/ (Disable /\ rem = "shutdown"))

-----------------------------------------------------------------------------
(***************************************************************************)
(* pl_send's comment: a START tag is sent only when the firmware will take *)
(* it, and anything else is a clean error instead of silent corruption.    *)
(* The first is about a frame sent while a resume is under way, the second *)
(* about a resume whose PL_RESET failed (beada_usb_resume, pl_send).       *)
(***************************************************************************)
WindowClean == "window" \notin dev.garbled
ResetClean == "unreset" \notin dev.garbled

(***************************************************************************)
(* Two things put the stream out of step with the firmware, and nothing    *)
(* else does: a frame between the lowering of the suspended flag and the   *)
(* zeroing of the cache, 50 ms later, and a PL_RESET that fails on resume  *)
(* while the firmware holds the old dimensions.  Through every other       *)
(* suspend, loss of state, failed frame and resume no START tag is taken   *)
(* for pixels and no pixels for a tag, the first frame after either of the *)
(* two brings both sides back in step, and nothing is ever sent while the  *)
(* bus is down (pl_send, beada_usb_suspend, beada_usb_resume).             *)
(***************************************************************************)
WireInStep == "other" \notin dev.garbled

(***************************************************************************)
(* When the driver has settled on a live bus, the panel has the user's     *)
(* last brightness through the last gamma curve, whatever writes were      *)
(* deferred, raced by a suspend or lost with the panel's state.  The one   *)
(* exemption is a brightness that a strict firmware refused for want of a  *)
(* frame, until it takes one again                                         *)
(* (beada_set_brightness, beada_bl_resume_handler, gamma_store).           *)
(***************************************************************************)
Settled ==
    /\ pm.pc = "idle" /\ Powered /\ ~HandlersDue
    /\ ~mfd.disconnected /\ bl.pc = "idle" /\ ~bl.waiting

BrightnessRestored ==
    Settled /\ dev.refused = "no" => dev.level = <<bl.stored, bl.gamma>>

(***************************************************************************)
(* beada_backlight_probe's comment: the frame flush between the handlers   *)
(* ensures that the firmware has accepted Panel-Link before the SL_SET_BL. *)
(***************************************************************************)
HandlerAccepted == dev.refused # "handler"

(***************************************************************************)
(* The resume handler may send the shadow in the middle of a blit, but a   *)
(* torn image never stays: once the commit and the workqueue are idle, and *)
(* no transfer failed, the panel shows whole frames                        *)
(* (beada_drm_resume_handler, beada_pipe_update).                          *)
(***************************************************************************)
PanelQuiet == Settled /\ drm.pc = "idle" /\ wq = <<>> /\ run.work = "none"

TornNeverStays ==
    PanelQuiet /\ "errors" \notin setup.actors => dev.shown # "torn"

(***************************************************************************)
(* When devm frees the parent and its workqueue, no work is queued or      *)
(* running, no delayed dispatch can still fire, and every autopm reference *)
(* has been given back (beada_disconnect, beada_drm_remove).               *)
(***************************************************************************)
FreedMeansQuiet ==
    rem = "freed" => /\ wq = <<>> /\ run.work = "none" /\ ~mfd.timer
                     /\ pm.users = {}

(***************************************************************************)
(* A suspend that has begun takes the bus down: its waits for the deferred *)
(* handlers and for the frame worker end.  One thing alone can stop it:    *)
(* the delay of the handlers has passed when a runtime suspend begins, and *)
(* their dispatch waits in usb_autopm_get_interface for that very          *)
(* suspend (beada_usb_suspend, beada_resume_handlers_work).                *)
(***************************************************************************)
Interlocked == ~pm.system /\ run.work = "resume" /\ run.pc = "get"

SuspendCompletes == (pm.pc = "cancel") ~> (pm.pc = "down" \/ Interlocked)

(***************************************************************************)
(* beada_resume_handlers_work's comment: a dispatch that asks for the bus  *)
(* while it is suspended resumes it, and the corner case is benign.        *)
(***************************************************************************)
SuspendAlwaysCompletes == (pm.pc = "cancel") ~> (pm.pc = "down")
=============================================================================
