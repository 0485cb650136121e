------------------------------- MODULE MproPm -------------------------------
(***************************************************************************)
(* Virtual idle of the mpro parent driver (mpro_pm.c), with the screen     *)
(* listeners it notifies (mpro_screen.c, the backlight's and the           *)
(* touchscreen's callbacks), the DRM pipe that takes and drops the active  *)
(* reference (mpro_drm_pipe.c), the sysfs writers (mpro_sysfs.c) and the   *)
(* order of the disconnect (mpro_main.c).                                  *)
(*                                                                         *)
(* Threads: the DRM commit thread, idle_work on the system workqueue,      *)
(* wake_work on mpro->wq, the touch URB's completion handler, the process  *)
(* that opens and closes the input device, a sysfs writer and the          *)
(* disconnect.  listeners_lock is held during each is_idle transition and  *)
(* during each notification of the listeners, but not across the two; each *)
(* such section is one step.  A frame is sent in one step too: what        *)
(* happens to it then is the subject of MproPipeline.                      *)
(***************************************************************************)
EXTENDS Integers

CONSTANTS
    Setups,     \* the systems to look at, see SetupType
    MaxCount    \* bound: after so many idle transitions nobody wakes the panel

(* Who is there besides DRM; the module parameter fbdev; whether           *)
(* idle_delay_ms exceeds the time any handler takes (default 30 s).        *)
ActorKinds == {"touch", "sysfs", "disconnect"}
SetupType == [actors : SUBSET ActorKinds, fbdev : BOOLEAN, slow : BOOLEAN]

ASSUME SetupAssumption == Setups \subseteq SetupType
ASSUME CountAssumption == MaxCount \in Nat

VARIABLES
    setup,        \* the system this is: a member of Setups, never changed
    running,      \* mpro->running
    is_idle,      \* mpro->is_idle
    active_refs,  \* mpro->active_refs
    idle_delay,   \* mpro->idle_delay_ms > 0
    touch_wake,   \* mpro->touch_wake_enabled
    armed,        \* idle_work is waiting for its delay to pass
    wake_queued,  \* wake_work is queued
    lit,          \* the backlight's screen_on: the backlight is lit
    ts_on,        \* the touchscreen's screen_on
    opened,       \* the touchscreen's opened
    urb,          \* the touch URB is running
    blanked,      \* mdrm->blanked
    panel,        \* what the panel's memory holds: "black" or "image"
    counts,       \* pm_idle_count, pm_wake_count, pm_touch_wake_count
    pc,           \* where each thread is
    disc          \* progress of the disconnect

pmVars == <<is_idle, counts>>
workVars == <<armed, wake_queued>>
tsVars == <<ts_on, urb>>
screenVars == <<lit, ts_on, urb>>
drmVars == <<blanked, panel>>
envVars == <<setup, running, idle_delay, touch_wake, opened, disc>>
vars == <<setup, running, is_idle, active_refs, idle_delay, touch_wake,
          armed, wake_queued, lit, ts_on, opened, urb, blanked, panel, counts,
          pc, disc>>

Thread == {"drm", "idle", "wake", "touch", "input", "sysfs"}
Label == {"out", "on", "en_cancel", "en_lock", "en_wake", "en_push", "en_on",
          "dis_off", "dis_put", "lock", "push", "off",
          "repaint", "check", "arm", "wake", "fi_lock", "fa_lock", "fa_on"}
DiscStage == {"up", "stopped", "idle_cancelled", "wake_cancelled", "unplugged",
              "no_backlight", "closing", "no_touch", "drm_off", "gone"}

TypeOK ==
    /\ setup \in SetupType
    /\ running \in BOOLEAN /\ is_idle \in BOOLEAN
    /\ active_refs \in Nat
    /\ idle_delay \in BOOLEAN /\ touch_wake \in BOOLEAN
    /\ armed \in BOOLEAN /\ wake_queued \in BOOLEAN
    /\ lit \in BOOLEAN /\ ts_on \in BOOLEAN
    /\ opened \in BOOLEAN /\ urb \in BOOLEAN
    /\ blanked \in BOOLEAN /\ panel \in {"black", "image"}
    /\ counts \in [idle : Nat, wake : Nat, touch : Nat]
    /\ pc \in [Thread -> Label]
    /\ disc \in DiscStage

(* The end of probe: the children are there, no reference is held.         *)
Init ==
    /\ setup \in Setups
    /\ running = TRUE
    /\ is_idle = FALSE
    /\ active_refs = 0
    /\ idle_delay \in BOOLEAN
    /\ touch_wake \in BOOLEAN
    /\ armed = FALSE
    /\ wake_queued = FALSE
    /\ lit = TRUE
    /\ ts_on = TRUE
    /\ opened = FALSE
    /\ urb = FALSE
    /\ blanked = FALSE
    /\ panel = "black"
    /\ counts = [idle |-> 0, wake |-> 0, touch |-> 0]
    /\ pc = [t \in Thread |-> "out"]
    /\ disc = "up"

Goto(t, l) == pc' = [pc EXCEPT ![t] = l]
At(t, l) == pc[t] = l
Resting(t) == pc[t] \in {"out", "on"}

(* Nobody is inside a handler and wake_work is not queued.                 *)
Quiet == (\A t \in Thread : Resting(t)) /\ ~wake_queued

-----------------------------------------------------------------------------
(* mpro_screen.c and the listeners.                                        *)

TouchListens == disc \notin {"closing", "no_touch", "drm_off", "gone"}
BacklightListens == TouchListens /\ disc # "no_backlight"
DrmListens == disc \notin {"drm_off", "gone"}

(* mpro_ts__resync.                                                        *)
ShouldRun(open, on) == open /\ (on \/ touch_wake)

(* mpro_screen_notify_off: mpro_bl__screen_off, mpro_ts__screen_off.       *)
NotifyOff ==
    /\ lit' = (lit /\ ~BacklightListens)
    /\ IF TouchListens /\ ~(touch_wake /\ opened)
         THEN ts_on' = FALSE /\ urb' = ShouldRun(opened, FALSE)
         ELSE UNCHANGED tsVars

(* Mutation: the backlight's screen_on callback is not called.             *)
NotifyOnTouchOnly ==
    /\ UNCHANGED lit
    /\ IF TouchListens
         THEN ts_on' = TRUE /\ urb' = ShouldRun(opened, TRUE)
         ELSE UNCHANGED tsVars

(* mpro_screen_notify_on: mpro_bl__screen_on, mpro_ts__screen_on.          *)
NotifyOn ==
    /\ lit' = (lit \/ BacklightListens)
    /\ IF TouchListens
         THEN ts_on' = TRUE /\ urb' = ShouldRun(opened, TRUE)
         ELSE UNCHANGED tsVars

(* mpro_send_full_frame as seen from here: rejected when not running,      *)
(* dropped when idle.                                                      *)
Send(frame) == panel' = IF running /\ ~is_idle THEN frame ELSE panel

-----------------------------------------------------------------------------
(* mpro_pm_record_transition together with the change of is_idle that      *)
(* follows it under the same lock.                                         *)
GoIdle ==
    /\ is_idle' = TRUE
    /\ counts' = IF is_idle THEN counts ELSE [counts EXCEPT !.idle = @ + 1]

GoActive(by_touch) ==
    /\ is_idle' = FALSE
    /\ counts' = IF ~is_idle THEN counts
                 ELSE [idle  |-> counts.idle,
                       wake  |-> counts.wake + 1,
                       touch |-> counts.touch + (IF by_touch THEN 1 ELSE 0)]

(* Mutation: cancel_delayed_work, which does not wait.                     *)
CancelIdleWorkNoSync == armed' = FALSE

(* cancel_delayed_work_sync(&mpro->idle_work).                             *)
CancelIdleWork ==
    /\ At("idle", "out")
    /\ armed' = FALSE

-----------------------------------------------------------------------------
(* The DRM pipe.                                                           *)

DrmMayCommit == disc \in {"up", "stopped", "idle_cancelled", "wake_cancelled"}

(* Mutation: the reference is counted with fbdev only.                     *)
EnableGetNoRef ==
    /\ At("drm", "out")
    /\ DrmMayCommit
    /\ counts.idle < MaxCount
    /\ active_refs' = IF setup.fbdev THEN active_refs + 1 ELSE active_refs
    /\ Goto("drm", IF setup.fbdev THEN "en_push" ELSE "en_cancel")
    /\ UNCHANGED <<envVars, pmVars, workVars, screenVars, drmVars>>

(* mpro_drm__pipe_enable: mpro_active_get up to the increment; with fbdev  *)
(* that is all of it.                                                      *)
EnableGet ==
    /\ At("drm", "out")
    /\ DrmMayCommit
    /\ counts.idle < MaxCount
    /\ active_refs' = active_refs + 1
    /\ Goto("drm", IF setup.fbdev THEN "en_push" ELSE "en_cancel")
    /\ UNCHANGED <<envVars, pmVars, workVars, screenVars, drmVars>>

EnableCancel ==
    /\ At("drm", "en_cancel")
    /\ CancelIdleWork
    /\ Goto("drm", "en_lock")
    /\ UNCHANGED <<envVars, pmVars, screenVars, drmVars, active_refs,
                   wake_queued>>

EnableLock ==
    /\ At("drm", "en_lock")
    /\ GoActive(FALSE)
    /\ Goto("drm", IF is_idle THEN "en_wake" ELSE "en_push")
    /\ UNCHANGED <<envVars, workVars, screenVars, drmVars, active_refs>>

EnableWake ==
    /\ At("drm", "en_wake")
    /\ NotifyOn
    /\ Goto("drm", "en_push")
    /\ UNCHANGED <<envVars, pmVars, workVars, drmVars, active_refs>>

(* blanked = false and the frame of the new plane state.                   *)
EnablePush ==
    /\ At("drm", "en_push")
    /\ blanked' = FALSE
    /\ Send("image")
    /\ Goto("drm", "en_on")
    /\ UNCHANGED <<envVars, pmVars, workVars, screenVars, active_refs>>

EnableOn ==
    /\ At("drm", "en_on")
    /\ NotifyOn
    /\ Goto("drm", "on")
    /\ UNCHANGED <<envVars, pmVars, workVars, drmVars, active_refs>>

(* mpro_drm__pipe_update of a pipe that is enabled.                        *)
PipeUpdate ==
    /\ At("drm", "on")
    /\ DrmMayCommit
    /\ Send("image")
    /\ UNCHANGED <<envVars, pmVars, workVars, screenVars, active_refs, blanked,
                   pc>>

(* mpro_drm__pipe_disable, from a commit or from                           *)
(* drm_atomic_helper_shutdown.                                             *)
DisableStart ==
    /\ At("drm", "on")
    /\ DrmMayCommit \/ disc = "drm_off"
    /\ blanked' = TRUE
    /\ Send("black")
    /\ Goto("drm", "dis_off")
    /\ UNCHANGED <<envVars, pmVars, workVars, screenVars, active_refs>>

DisableOff ==
    /\ At("drm", "dis_off")
    /\ NotifyOff
    /\ Goto("drm", "dis_put")
    /\ UNCHANGED <<envVars, pmVars, workVars, drmVars, active_refs>>

(* Mutation: the count is tested for 1 after it has been decremented.      *)
DisablePutOffByOne ==
    /\ At("drm", "dis_put")
    /\ active_refs' = active_refs - 1
    /\ armed' = (armed \/ (active_refs = 2 /\ ~setup.fbdev /\ idle_delay))
    /\ Goto("drm", "out")
    /\ UNCHANGED <<envVars, pmVars, screenVars, drmVars, wake_queued>>

(* mpro_active_put: schedule_delayed_work when the last reference goes;    *)
(* it has no effect if idle_work is armed already.                         *)
DisablePut ==
    /\ At("drm", "dis_put")
    /\ active_refs' = active_refs - 1
    /\ armed' = (armed \/ (active_refs = 1 /\ ~setup.fbdev /\ idle_delay))
    /\ Goto("drm", "out")
    /\ UNCHANGED <<envVars, pmVars, screenVars, drmVars, wake_queued>>

-----------------------------------------------------------------------------
(* mpro_idle_work.                                                         *)

IdleFire ==
    /\ armed
    /\ At("idle", "out")
    /\ disc # "gone"
    /\ setup.slow => Quiet
    /\ armed' = FALSE
    /\ Goto("idle", "lock")
    /\ UNCHANGED <<envVars, pmVars, screenVars, drmVars, active_refs,
                   wake_queued>>

IdleLock ==
    /\ At("idle", "lock")
    /\ GoIdle
    /\ Goto("idle", IF is_idle THEN "out" ELSE "push")
    /\ UNCHANGED <<envVars, workVars, screenVars, drmVars, active_refs>>

IdlePush ==
    /\ At("idle", "push")
    /\ Send("black")
    /\ Goto("idle", "off")
    /\ UNCHANGED <<envVars, pmVars, workVars, screenVars, active_refs,
                   blanked>>

IdleOff ==
    /\ At("idle", "off")
    /\ NotifyOff
    /\ Goto("idle", "out")
    /\ UNCHANGED <<envVars, pmVars, workVars, drmVars, active_refs>>

-----------------------------------------------------------------------------
(* mpro_wake_work.                                                         *)

(* Mutation: was_idle is read after is_idle has been cleared.              *)
WakeLockReadsLate ==
    /\ At("wake", "out")
    /\ wake_queued
    /\ wake_queued' = FALSE
    /\ GoActive(TRUE)
    /\ Goto("wake", IF is_idle' THEN "wake" ELSE "out")
    /\ UNCHANGED <<envVars, screenVars, drmVars, active_refs, armed>>

WakeLock ==
    /\ At("wake", "out")
    /\ wake_queued
    /\ wake_queued' = FALSE
    /\ GoActive(TRUE)
    /\ Goto("wake", IF is_idle THEN "wake" ELSE "out")
    /\ UNCHANGED <<envVars, screenVars, drmVars, active_refs, armed>>

WakeOn ==
    /\ At("wake", "wake")
    /\ NotifyOn
    /\ Goto("wake", "repaint")
    /\ UNCHANGED <<envVars, pmVars, workVars, drmVars, active_refs>>

(* mpro_screen_notify_wake: mpro_drm__screen_wake re-sends the image.      *)
WakeRepaint ==
    /\ At("wake", "repaint")
    /\ IF DrmListens /\ ~blanked THEN Send("image") ELSE UNCHANGED panel
    /\ Goto("wake", "check")
    /\ UNCHANGED <<envVars, pmVars, workVars, screenVars, active_refs,
                   blanked>>

(* Mutation: the test of fbdev_enabled is missing.                         *)
CountdownInFbdev == idle_delay /\ active_refs = 0

(* The test of mpro_wake_work, and that of mpro_pm_touch_activity.         *)
CountdownWanted == ~setup.fbdev /\ idle_delay /\ active_refs = 0

WakeCheck ==
    /\ At("wake", "check")
    /\ Goto("wake", IF CountdownWanted THEN "arm" ELSE "out")
    /\ UNCHANGED <<envVars, pmVars, workVars, screenVars, drmVars,
                   active_refs>>

WakeArm ==
    /\ At("wake", "arm")
    /\ armed' = TRUE
    /\ Goto("wake", "out")
    /\ UNCHANGED <<envVars, pmVars, screenVars, drmVars, active_refs,
                   wake_queued>>

-----------------------------------------------------------------------------
(* The touchscreen.                                                        *)

(* mpro_ts__handle_packet with an active finger: mpro_pm_touch_activity    *)
(* decides ...                                                             *)
TouchPacket ==
    /\ "touch" \in setup.actors
    /\ counts.idle < MaxCount
    /\ At("touch", "out")
    /\ urb /\ TouchListens
    /\ touch_wake /\ opened
    /\ Goto("touch", IF CountdownWanted THEN "arm" ELSE "wake")
    /\ UNCHANGED <<envVars, pmVars, workVars, screenVars, drmVars,
                   active_refs>>

(* ... cancel_delayed_work and schedule_delayed_work ...                   *)
TouchArm ==
    /\ At("touch", "arm")
    /\ armed' = TRUE
    /\ Goto("touch", "wake")
    /\ UNCHANGED <<envVars, pmVars, screenVars, drmVars, active_refs,
                   wake_queued>>

(* ... and, if the display is idle, mpro_pm_wake_async queues wake_work.   *)
TouchWake ==
    /\ At("touch", "wake")
    /\ wake_queued' = (wake_queued \/ is_idle)
    /\ Goto("touch", "out")
    /\ UNCHANGED <<envVars, pmVars, screenVars, drmVars, active_refs, armed>>

(* The input device outlives mpro_ts__remove: devres unregisters it later. *)
InputThere == disc \notin {"no_touch", "drm_off", "gone"}

(* mpro_ts__input_open.                                                    *)
InputOpen ==
    /\ "touch" \in setup.actors
    /\ At("input", "out")
    /\ InputThere
    /\ ~opened
    /\ opened' = TRUE
    /\ urb' = ShouldRun(TRUE, ts_on)
    /\ UNCHANGED <<setup, pmVars, workVars, drmVars, running, active_refs,
                   idle_delay, touch_wake, lit, ts_on, pc, disc>>

(* mpro_ts__input_close: from userspace, or from the unregistering of the  *)
(* input device.  Then the test that is_idle is false, ...                 *)
InputClose ==
    /\ At("input", "out")
    /\ opened
    /\ InputThere
    /\ opened' = FALSE
    /\ urb' = FALSE
    /\ Goto("input", "check")
    /\ UNCHANGED <<setup, pmVars, workVars, drmVars, running, active_refs,
                   idle_delay, touch_wake, lit, ts_on, disc>>

(* ... and mpro_pm_touch_activity.                                         *)
CloseCheck ==
    /\ At("input", "check")
    /\ Goto("input", IF ~is_idle /\ CountdownWanted THEN "arm" ELSE "out")
    /\ UNCHANGED <<envVars, pmVars, workVars, screenVars, drmVars,
                   active_refs>>

CloseArm ==
    /\ At("input", "arm")
    /\ armed' = TRUE
    /\ Goto("input", "out")
    /\ UNCHANGED <<envVars, pmVars, screenVars, drmVars, active_refs,
                   wake_queued>>

-----------------------------------------------------------------------------
(* The sysfs attributes idle_state, touch_wake, idle_delay_ms and          *)
(* reset_pm_stats.  A store that begins after usb_set_intfdata(NULL) finds *)
(* no driver data: module Lifecycle.                                       *)

SysfsMayWrite ==
    /\ "sysfs" \in setup.actors
    /\ At("sysfs", "out")
    /\ disc \in {"up", "stopped", "idle_cancelled", "wake_cancelled"}

(* mpro_pm_force_idle.                                                     *)
ForceIdle ==
    /\ SysfsMayWrite
    /\ CancelIdleWork
    /\ Goto("sysfs", "fi_lock")
    /\ UNCHANGED <<envVars, pmVars, screenVars, drmVars, active_refs,
                   wake_queued>>

ForceIdleLock ==
    /\ At("sysfs", "fi_lock")
    /\ GoIdle
    /\ Goto("sysfs", IF is_idle THEN "out" ELSE "off")
    /\ UNCHANGED <<envVars, workVars, screenVars, drmVars, active_refs>>

(* The notify_off of mpro_pm_force_idle and of touch_wake_store.           *)
SysfsOff ==
    /\ At("sysfs", "off")
    /\ NotifyOff
    /\ Goto("sysfs", "out")
    /\ UNCHANGED <<envVars, pmVars, workVars, drmVars, active_refs>>

(* mpro_pm_force_active.                                                   *)
ForceActive ==
    /\ SysfsMayWrite
    /\ counts.idle < MaxCount
    /\ CancelIdleWork
    /\ Goto("sysfs", "fa_lock")
    /\ UNCHANGED <<envVars, pmVars, screenVars, drmVars, active_refs,
                   wake_queued>>

ForceActiveLock ==
    /\ At("sysfs", "fa_lock")
    /\ GoActive(FALSE)
    /\ Goto("sysfs", IF is_idle THEN "fa_on" ELSE "out")
    /\ UNCHANGED <<envVars, workVars, screenVars, drmVars, active_refs>>

ForceActiveOn ==
    /\ At("sysfs", "fa_on")
    /\ NotifyOn
    /\ Goto("sysfs", "out")
    /\ UNCHANGED <<envVars, pmVars, workVars, drmVars, active_refs>>

(* touch_wake_store: a 0 written while idle notifies the listeners again,  *)
(* after the test of is_idle has released the lock.                        *)
TouchWakeStore(val) ==
    /\ SysfsMayWrite
    /\ touch_wake' = val
    /\ Goto("sysfs", IF val THEN "out" ELSE "check")
    /\ UNCHANGED <<setup, pmVars, workVars, screenVars, drmVars, running,
                   active_refs, idle_delay, opened, disc>>

TouchWakeCheck ==
    /\ At("sysfs", "check")
    /\ Goto("sysfs", IF is_idle THEN "off" ELSE "out")
    /\ UNCHANGED <<envVars, pmVars, workVars, screenVars, drmVars,
                   active_refs>>

(* idle_delay_ms_store.                                                    *)
IdleDelayStore(val) ==
    /\ SysfsMayWrite
    /\ idle_delay' = val
    /\ UNCHANGED <<setup, pmVars, workVars, screenVars, drmVars, running,
                   active_refs, touch_wake, opened, pc, disc>>

(* reset_pm_stats_store, whatever the display state is.                    *)
ResetPmStats ==
    /\ SysfsMayWrite
    /\ counts' = [idle |-> 0, wake |-> 0, touch |-> 0]
    /\ UNCHANGED <<envVars, workVars, screenVars, drmVars, is_idle,
                   active_refs, pc>>

-----------------------------------------------------------------------------
(* mpro_usb_disconnect, then the devres actions in reverse order.          *)

DiscStep(from, to) == disc = from /\ disc' = to

DiscStop ==
    /\ "disconnect" \in setup.actors
    /\ DiscStep("up", "stopped")
    /\ running' = FALSE
    /\ UNCHANGED <<setup, pmVars, workVars, screenVars, drmVars, active_refs,
                   idle_delay, touch_wake, opened, pc>>

(* mpro_pm_shutdown.                                                       *)
DiscCancelIdle ==
    /\ DiscStep("stopped", "idle_cancelled")
    /\ CancelIdleWork
    /\ UNCHANGED <<setup, pmVars, screenVars, drmVars, running, active_refs,
                   idle_delay, touch_wake, wake_queued, opened, pc>>

DiscCancelWake ==
    /\ DiscStep("idle_cancelled", "wake_cancelled")
    /\ At("wake", "out")
    /\ wake_queued' = FALSE
    /\ UNCHANGED <<setup, pmVars, screenVars, drmVars, running, active_refs,
                   idle_delay, touch_wake, armed, opened, pc>>

(* drm_dev_unplug, then the children are removed, last one first: the      *)
(* backlight, the touchscreen with its input device, DRM.                  *)
DiscUnplug ==
    /\ DiscStep("wake_cancelled", "unplugged")
    /\ UNCHANGED <<setup, pmVars, workVars, screenVars, drmVars, running,
                   active_refs, idle_delay, touch_wake, opened, pc>>

DiscRemoveBacklight ==
    /\ DiscStep("unplugged", "no_backlight")
    /\ UNCHANGED <<setup, pmVars, workVars, screenVars, drmVars, running,
                   active_refs, idle_delay, touch_wake, opened, pc>>

(* mpro_ts__remove: the listeners go, the URB is killed ...                *)
DiscRemoveTouch ==
    /\ DiscStep("no_backlight", "closing")
    /\ At("touch", "out")
    /\ urb' = FALSE
    /\ UNCHANGED <<setup, pmVars, workVars, drmVars, running, active_refs,
                   idle_delay, touch_wake, lit, ts_on, opened, pc>>

(* ... and an input device that is still open is closed.                   *)
DiscInputGone ==
    /\ DiscStep("closing", "no_touch")
    /\ ~opened /\ At("input", "out")
    /\ UNCHANGED <<setup, pmVars, workVars, screenVars, drmVars, running,
                   active_refs, idle_delay, touch_wake, opened, pc>>

(* mpro_drm__remove: drm_atomic_helper_shutdown waits for the commit that  *)
(* is under way and disables the pipe if it is enabled.                    *)
DiscRemoveDrm ==
    /\ DiscStep("no_touch", "drm_off")
    /\ Resting("drm")
    /\ UNCHANGED <<setup, pmVars, workVars, screenVars, drmVars, running,
                   active_refs, idle_delay, touch_wake, opened, pc>>

(* The sysfs group goes, the workqueue is destroyed, mpro is freed.        *)
DiscFree ==
    /\ DiscStep("drm_off", "gone")
    /\ At("drm", "out") /\ At("sysfs", "out")
    /\ At("wake", "out") /\ ~wake_queued
    /\ UNCHANGED <<setup, pmVars, workVars, screenVars, drmVars, running,
                   active_refs, idle_delay, touch_wake, opened, pc>>

Gone == disc = "gone" /\ UNCHANGED vars

-----------------------------------------------------------------------------
DrmStep ==
    \/ EnableCancel \/ EnableLock \/ EnableWake \/ EnablePush \/ EnableOn
    \/ DisableOff \/ DisablePut

IdleStep == IdleLock \/ IdlePush \/ IdleOff

WakeStep == WakeLock \/ WakeOn \/ WakeRepaint \/ WakeCheck \/ WakeArm

TouchStep == TouchArm \/ TouchWake

CloseStep == CloseCheck \/ CloseArm

SysfsStep ==
    \/ ForceIdleLock \/ SysfsOff
    \/ ForceActiveLock \/ ForceActiveOn
    \/ TouchWakeCheck

DiscNext ==
    \/ DiscCancelIdle \/ DiscCancelWake \/ DiscUnplug
    \/ DiscRemoveBacklight \/ DiscRemoveTouch \/ DiscInputGone
    \/ DiscRemoveDrm \/ DiscFree

Next ==
    \/ EnableGet \/ PipeUpdate \/ DisableStart \/ DrmStep
    \/ IdleFire \/ IdleStep
    \/ WakeStep
    \/ TouchPacket \/ TouchStep
    \/ InputOpen \/ InputClose \/ CloseStep
    \/ ForceIdle \/ ForceActive
    \/ \E val \in BOOLEAN : TouchWakeStore(val) \/ IdleDelayStore(val)
    \/ ResetPmStats
    \/ SysfsStep
    \/ DiscStop \/ DiscNext
    \/ Gone

Spec == Init /\ [][Next]_vars

(* A thread inside a handler is scheduled, the delay of idle_work passes,  *)
(* the workqueue runs what was queued.  Nobody has to commit a frame, to   *)
(* touch the screen, to write to sysfs or to unplug the panel.             *)
Fairness ==
    /\ WF_vars(DrmStep)
    /\ WF_vars(IdleFire)
    /\ WF_vars(IdleStep)
    /\ WF_vars(WakeStep)
    /\ WF_vars(TouchStep)
    /\ WF_vars(CloseStep)
    /\ WF_vars(SysfsStep)

FairSpec == Spec /\ Fairness

-----------------------------------------------------------------------------
(* Properties.                                                             *)

(* "While at least one reference is held the device is considered          *)
(* active": a pipe that is enabled never finds the display in virtual      *)
(* idle.                                                                   *)
ReferenceKeepsActive == At("drm", "on") => ~is_idle

(* It holds when nobody else touches the countdown, however the timer, the *)
(* pipe and a disconnect interleave: no countdown that an earlier disable  *)
(* has started survives the next enable.                                   *)
DrmAlone == setup.actors \subseteq {"disconnect"}

RefKeepsActive == DrmAlone => ReferenceKeepsActive

(* The backlight follows the display state: with DRM as the only client,   *)
(* once the handlers have settled, an enabled pipe of an active device is  *)
(* lit and shows its image, and an idle device is dark.                    *)
BacklightFollows ==
    DrmAlone /\ disc = "up" /\ Quiet =>
        /\ At("drm", "on") /\ ~is_idle => lit /\ panel = "image"
        /\ is_idle => ~lit

(* "The idle timer is disabled in this mode": with fbdev no interleaving   *)
(* of references, touches, sysfs writes and the disconnect arms idle_work, *)
(* so that it never runs, on freed memory least of all.                    *)
FbdevNeverArms == setup.fbdev => ~armed /\ At("idle", "out")

(* pm_stats: idle and wake transitions alternate whichever threads race    *)
(* for them, so that the counts differ by one at most wherever a writer    *)
(* resets them, and touch wakes are a subset of the wakes.                 *)
TransitionCounts ==
    /\ is_idle => counts.idle \in {counts.wake, counts.wake + 1}
    /\ ~is_idle => counts.wake \in {counts.idle, counts.idle + 1}
    /\ counts.touch <= counts.wake

(* "Touching the screen wakes the display from idle": a touch of an idle   *)
(* display ends the idle state and lights the backlight again, whatever    *)
(* DRM does meanwhile, once idle_work has finished.  A sysfs writer may    *)
(* force the panel idle again, or switch touch wake off.                   *)
TouchLeadsToWake ==
    "sysfs" \notin setup.actors /\ At("touch", "wake") /\ is_idle /\ At("idle", "out")
        ~> ~is_idle /\ lit

(* The same of every touch, the one between idle_work's decision and its   *)
(* notification included: a panel that is not idle and whose pipe was not  *)
(* closed is lit when all handlers are done.                               *)
TouchedIsLit ==
    setup.actors = {"touch"} /\ Quiet /\ ~is_idle /\ ~blanked => lit

(* A pipe that is disabled and stays so leads to a dark, idle panel.       *)
DisabledGoesDark ==
    setup.actors = {} /\ idle_delay /\ blanked /\ At("drm", "out")
        ~> (is_idle /\ ~lit) \/ ~At("drm", "out")
=============================================================================
