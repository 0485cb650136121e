----------------------------- MODULE MproTouch -----------------------------
(***************************************************************************)
(* The touch input of the mpro driver: the interrupt URB that the parent   *)
(* owns (mpro_touch.c) and the touchscreen child that starts and stops it, *)
(* reports the fingers and guards them with a release watchdog             *)
(* (touchscreen/mpro_touchscreen.c).                                       *)
(*                                                                         *)
(* Threads: "input" opens and closes the input device, "screen" runs the   *)
(* screen_on and screen_off callbacks (listeners_lock admits one at a      *)
(* time), "remove" unbinds the driver.  Beside them run the URB's          *)
(* completion handler and the watchdog's timer callback.  Each critical    *)
(* section, each atomic operation on touch_submitted and each USB call is  *)
(* one step.  Coordinates and the effect on virtual idle are left out      *)
(* (module MproPm has the latter).                                         *)
(***************************************************************************)
EXTENDS Integers

CONSTANTS
    Slot,         \* slot ids below MPRO_TOUCH_MAX_SLOTS
    Unused,       \* any greater slot id
    Setups        \* the environments to look at, see SetupType

(* Whether input and screen callbacks may overlap, and the USB errors that *)
(* may happen.                                                             *)
SetupType == [overlap : BOOLEAN, faults : SUBSET {"status", "submit"}]

ASSUME SlotAssumption == Unused \notin Slot
ASSUME SetupAssumption == Setups \subseteq SetupType

VARIABLES
    setup,       \* the environment: a member of Setups, never changed
    opened,      \* mt->opened
    screen_on,   \* mt->screen_on
    touch_wake,  \* mpro->touch_wake_enabled (constant here; module MproPm has the store)
    submitted,   \* mpro->touch_submitted
    linked,      \* the URB is with the host controller
    rejects,     \* urb->reject: calls of usb_kill_urb under way
    enabled,     \* USB accepts URBs for the endpoint
    hpc,         \* where the completion handler is
    active,      \* the handler's local any_active
    down,        \* slots that are reported to userspace as touched
    omitted,     \* history: the last packet touched nothing, yet named not all of them
    any_active,  \* mt->any_active
    watchdog,    \* release_timer is armed
    tpc,         \* where the timer callback is
    pc,          \* where each thread is
    rm           \* progress of the removal

urbVars == <<submitted, linked, rejects, enabled>>
handlerVars == <<hpc, active>>
fingerVars == <<down, omitted, any_active, watchdog, tpc>>
gateVars == <<setup, opened, screen_on, touch_wake>>
vars == <<setup, opened, screen_on, touch_wake, submitted, linked,
          rejects, enabled, hpc, active, down, omitted, any_active, watchdog, tpc,
          pc, rm>>

Thread == {"input", "screen", "remove"}
Point == [slot : Slot \cup {Unused}, touching : BOOLEAN]

TypeOK ==
    /\ setup \in SetupType
    /\ opened \in BOOLEAN /\ screen_on \in BOOLEAN /\ touch_wake \in BOOLEAN
    /\ submitted \in BOOLEAN /\ linked \in BOOLEAN /\ rejects \in Nat
    /\ enabled \in BOOLEAN
    /\ hpc \in {"out", "watchdog", "check", "resubmit"}
    /\ active \in BOOLEAN
    /\ down \subseteq Slot
    /\ omitted \in BOOLEAN /\ any_active \in BOOLEAN /\ watchdog \in BOOLEAN
    /\ tpc \in {"out", "clear"}
    /\ pc \in [Thread -> {"out", "off", "resync", "start", "submit", "stop",
                          "kill", "killing", "killed", "timer", "release"}]
    /\ rm \in {"up", "unlistened", "unscreened", "stopped", "unregistered",
               "freed"}

(* mpro_touch_init and mpro_ts__probe.                                     *)
Init ==
    /\ setup \in Setups
    /\ opened = FALSE
    /\ screen_on = TRUE
    /\ touch_wake \in BOOLEAN
    /\ submitted = FALSE
    /\ linked = FALSE
    /\ rejects = 0
    /\ enabled = TRUE
    /\ hpc = "out"
    /\ active = FALSE
    /\ down = {}
    /\ omitted = FALSE
    /\ any_active = FALSE
    /\ watchdog = FALSE
    /\ tpc = "out"
    /\ pc = [t \in Thread |-> "out"]
    /\ rm = "up"

Goto(t, l) == pc' = [pc EXCEPT ![t] = l]
At(t, l) == pc[t] = l

(* Where a thread goes on when mpro_touch_start or mpro_touch_stop         *)
(* returns: mpro_ts__input_close has more to do.                           *)
Return(t) == Goto(t, IF t = "input" /\ ~opened THEN "timer" ELSE "out")

SubmitMayFail == "submit" \in setup.faults

-----------------------------------------------------------------------------
(* mpro_touch_start.                                                       *)

(* atomic_cmpxchg(&touch_submitted, 0, 1).                                 *)
Start(t) ==
    /\ At(t, "start")
    /\ submitted' = TRUE
    /\ IF submitted THEN Return(t) ELSE Goto(t, "submit")
    /\ UNCHANGED <<gateVars, linked, rejects, enabled, handlerVars, fingerVars, rm>>

(* usb_submit_urb refuses a URB that is linked or being killed and an      *)
(* endpoint that is disabled; whoever fails to submit clears               *)
(* touch_submitted.                                                        *)
UsbSubmit ==
    \/ /\ ~linked /\ rejects = 0 /\ enabled
       /\ linked' = TRUE
       /\ UNCHANGED submitted
    \/ /\ linked \/ rejects > 0 \/ ~enabled \/ SubmitMayFail
       /\ submitted' = FALSE
       /\ UNCHANGED linked

StartSubmit(t) ==
    /\ At(t, "submit")
    /\ UsbSubmit
    /\ Return(t)
    /\ UNCHANGED <<gateVars, rejects, enabled, handlerVars, fingerVars, rm>>

-----------------------------------------------------------------------------
(* mpro_touch_stop.                                                        *)

Stop(t) ==
    /\ At(t, "stop")
    /\ IF submitted THEN Goto(t, "kill") ELSE Return(t)
    /\ UNCHANGED <<gateVars, urbVars, handlerVars, fingerVars, rm>>

(* usb_kill_urb: reject submissions, unlink the URB, ...                   *)
StopKill(t) ==
    /\ At(t, "kill")
    /\ rejects' = rejects + 1
    /\ Goto(t, "killing")
    /\ UNCHANGED <<gateVars, submitted, linked, enabled, handlerVars, fingerVars,
                   rm>>

(* ... wait until it is unlinked and its completion handler has returned.  *)
StopKilled(t) ==
    /\ At(t, "killing")
    /\ ~linked /\ hpc = "out"
    /\ rejects' = rejects - 1
    /\ Goto(t, "killed")
    /\ UNCHANGED <<gateVars, submitted, linked, enabled, handlerVars, fingerVars,
                   rm>>

StopClear(t) ==
    /\ At(t, "killed")
    /\ submitted' = FALSE
    /\ Return(t)
    /\ UNCHANGED <<gateVars, linked, rejects, enabled, handlerVars, fingerVars, rm>>

-----------------------------------------------------------------------------
(* mpro_ts__resync: decide under mt->lock, act after it is released.       *)

ShouldRun == opened /\ (screen_on \/ touch_wake)

Resync(t) ==
    /\ At(t, "resync")
    /\ Goto(t, IF ShouldRun THEN "start" ELSE "stop")
    /\ UNCHANGED <<gateVars, urbVars, handlerVars, fingerVars, rm>>

(* A callback may begin.                                                   *)
MayEnter(t) ==
    /\ At(t, "out")
    /\ setup.overlap \/ \A u \in Thread : At(u, "out")

(* mpro_ts__input_open; the input device is there until devres             *)
(* unregisters it.                                                         *)
InputOpen ==
    /\ MayEnter("input")
    /\ rm \notin {"unregistered", "freed"}
    /\ ~opened
    /\ opened' = TRUE
    /\ Goto("input", "resync")
    /\ UNCHANGED <<setup, screen_on, touch_wake, urbVars, handlerVars, fingerVars, rm>>

(* mpro_ts__input_close: from userspace or by input_unregister_device.     *)
InputClose ==
    /\ MayEnter("input")
    /\ rm \notin {"unregistered", "freed"}
    /\ opened
    /\ opened' = FALSE
    /\ Goto("input", "resync")
    /\ UNCHANGED <<setup, screen_on, touch_wake, urbVars, handlerVars, fingerVars, rm>>

(* timer_delete_sync(&mt->release_timer) ...                               *)
CloseTimer ==
    /\ At("input", "timer")
    /\ tpc = "out"
    /\ watchdog' = FALSE
    /\ Goto("input", "release")
    /\ UNCHANGED <<gateVars, urbVars, handlerVars, down, omitted, any_active, tpc, rm>>

(* ... then every finger is released.                                      *)
CloseRelease ==
    /\ At("input", "release")
    /\ down' = {}
    /\ omitted' = FALSE
    /\ any_active' = FALSE
    /\ Goto("input", "out")
    /\ UNCHANGED <<gateVars, urbVars, handlerVars, watchdog, tpc, rm>>

ScreenListens == rm \in {"up", "unlistened"}

(* mpro_ts__screen_off: it returns at once if a touch may wake the         *)
(* display, a test that mt->lock does not cover.                           *)
ScreenOff ==
    /\ MayEnter("screen")
    /\ ScreenListens
    /\ ~(touch_wake /\ opened)
    /\ Goto("screen", "off")
    /\ UNCHANGED <<gateVars, urbVars, handlerVars, fingerVars, rm>>

ScreenOffSet ==
    /\ At("screen", "off")
    /\ screen_on' = FALSE
    /\ Goto("screen", "resync")
    /\ UNCHANGED <<setup, opened, touch_wake, urbVars, handlerVars, fingerVars, rm>>

(* Mutation: screen_on does not resync.                                    *)
ScreenOnNoResync ==
    /\ MayEnter("screen")
    /\ ScreenListens
    /\ screen_on' = TRUE
    /\ UNCHANGED <<setup, opened, touch_wake, urbVars, handlerVars, fingerVars, pc, rm>>

(* mpro_ts__screen_on.                                                     *)
ScreenOn ==
    /\ MayEnter("screen")
    /\ ScreenListens
    /\ screen_on' = TRUE
    /\ Goto("screen", "resync")
    /\ UNCHANGED <<setup, opened, touch_wake, urbVars, handlerVars, fingerVars, rm>>

-----------------------------------------------------------------------------
(* mpro_touch__irq_complete and mpro_ts__handle_packet.                    *)

(* Mutation: an unused slot id is not skipped.                             *)
ReportUnchecked(fingers, pt) ==
    IF pt.touching THEN fingers \cup {pt.slot} ELSE fingers \ {pt.slot}

(* input_mt_report_slot_state for one point of a packet.                   *)
Report(fingers, pt) ==
    IF pt.slot = Unused THEN fingers
    ELSE IF pt.touching THEN fingers \cup {pt.slot}
    ELSE fingers \ {pt.slot}

(* A packet with two points, which need not name every slot: without       *)
(* INPUT_MT_DROP_UNUSED a slot that no point names keeps its state.        *)
UrbPacket ==
    /\ linked /\ hpc = "out"
    /\ rm = "up"
    /\ \E p1, p2 \in Point :
         /\ down' = Report(Report(down, p1), p2)
         /\ active' = \E pt \in {p1, p2} : pt.slot # Unused /\ pt.touching
    /\ omitted' = (down' # {} /\ ~active')
    /\ linked' = FALSE
    /\ hpc' = "watchdog"
    /\ UNCHANGED <<gateVars, submitted, rejects, enabled, any_active, watchdog,
                   tpc, pc, rm>>

(* Mutation: the watchdog is armed by the first touching packet only.      *)
HandleWatchdogOnce ==
    /\ hpc = "watchdog"
    /\ any_active' = active
    /\ watchdog' = IF active = any_active THEN watchdog ELSE active
    /\ hpc' = "check"
    /\ UNCHANGED <<gateVars, urbVars, active, down, omitted, tpc, pc, rm>>

(* The end of mpro_ts__handle_packet: mod_timer or timer_delete.           *)
HandleWatchdog ==
    /\ hpc = "watchdog"
    /\ any_active' = active
    /\ watchdog' = (active \/ (watchdog /\ ~any_active))
    /\ hpc' = "check"
    /\ UNCHANGED <<gateVars, urbVars, active, down, omitted, tpc, pc, rm>>

(* A short packet, a transient error, or nobody listens.                   *)
UrbNoPacket ==
    /\ linked /\ hpc = "out"
    /\ linked' = FALSE
    /\ hpc' = "check"
    /\ UNCHANGED <<gateVars, submitted, rejects, enabled, active, fingerVars, pc,
                   rm>>

(* -ENOENT from usb_kill_urb, -ESHUTDOWN from a disabled endpoint, or      *)
(* another fatal status.                                                   *)
UrbFatal ==
    /\ linked /\ hpc = "out"
    /\ rejects > 0 \/ ~enabled \/ "status" \in setup.faults
    /\ linked' = FALSE
    /\ submitted' = FALSE
    /\ UNCHANGED <<gateVars, rejects, enabled, handlerVars, fingerVars, pc, rm>>

HandleCheck ==
    /\ hpc = "check"
    /\ hpc' = IF submitted THEN "resubmit" ELSE "out"
    /\ active' = FALSE
    /\ UNCHANGED <<gateVars, urbVars, fingerVars, pc, rm>>

HandleResubmit ==
    /\ hpc = "resubmit"
    /\ UsbSubmit
    /\ hpc' = "out"
    /\ UNCHANGED <<gateVars, rejects, enabled, active, fingerVars, pc, rm>>

(* mpro_ts__release_timeout.                                               *)
TimerFire ==
    /\ watchdog /\ tpc = "out"
    /\ watchdog' = FALSE
    /\ down' = {}
    /\ omitted' = FALSE
    /\ tpc' = "clear"
    /\ UNCHANGED <<gateVars, urbVars, handlerVars, any_active, pc, rm>>

TimerClear ==
    /\ tpc = "clear"
    /\ any_active' = FALSE
    /\ tpc' = "out"
    /\ UNCHANGED <<gateVars, urbVars, handlerVars, down, omitted, watchdog, pc, rm>>

-----------------------------------------------------------------------------
(* mpro_ts__remove, then devres: the input device is unregistered and      *)
(* mpro_touch_shutdown stops the URB once more and frees it.  The child    *)
(* may be unbound alone; when the parent is, USB has disabled the endpoint *)
(* and flushed it before it calls mpro_usb_disconnect.                     *)

UsbDisableEndpoint ==
    /\ enabled
    /\ enabled' = FALSE
    /\ UNCHANGED <<gateVars, submitted, linked, rejects, handlerVars,
                   fingerVars, pc, rm>>

(* mpro_touch_listener_unregister waits for the handler to leave           *)
(* touch_listeners_lock.                                                   *)
RemoveTouchListener ==
    /\ rm = "up"
    /\ MayEnter("remove")
    /\ hpc # "watchdog"
    /\ rm' = "unlistened"
    /\ UNCHANGED <<gateVars, urbVars, handlerVars, fingerVars, pc>>

(* mpro_screen_listener_unregister waits for listeners_lock.               *)
RemoveScreenListener ==
    /\ rm = "unlistened"
    /\ MayEnter("remove")
    /\ At("screen", "out")
    /\ rm' = "unscreened"
    /\ UNCHANGED <<gateVars, urbVars, handlerVars, fingerVars, pc>>

(* Mutation: timer_delete, which does not wait for the callback.           *)
RemoveStopNoSync ==
    /\ rm = "unscreened"
    /\ MayEnter("remove")
    /\ watchdog' = FALSE
    /\ rm' = "stopped"
    /\ Goto("remove", "stop")
    /\ UNCHANGED <<gateVars, urbVars, handlerVars, down, omitted, any_active, tpc>>

(* timer_delete_sync, then mpro_touch_stop.                                *)
RemoveStop ==
    /\ rm = "unscreened"
    /\ MayEnter("remove")
    /\ tpc = "out"
    /\ watchdog' = FALSE
    /\ rm' = "stopped"
    /\ Goto("remove", "stop")
    /\ UNCHANGED <<gateVars, urbVars, handlerVars, down, omitted, any_active, tpc>>

InputUnregister ==
    /\ rm = "stopped"
    /\ At("remove", "out") /\ At("input", "out")
    /\ ~opened
    /\ rm' = "unregistered"
    /\ Goto("remove", "stop")
    /\ UNCHANGED <<gateVars, urbVars, handlerVars, fingerVars>>

Free ==
    /\ rm = "unregistered"
    /\ At("remove", "out")
    /\ ~enabled /\ ~linked /\ hpc = "out"
    /\ rm' = "freed"
    /\ UNCHANGED <<gateVars, urbVars, handlerVars, fingerVars, pc>>

-----------------------------------------------------------------------------
ThreadStep(t) ==
    \/ Resync(t)
    \/ Start(t) \/ StartSubmit(t)
    \/ Stop(t) \/ StopKill(t) \/ StopKilled(t) \/ StopClear(t)

CloseStep == CloseTimer \/ CloseRelease

HandlerStep ==
    UrbPacket \/ UrbNoPacket \/ UrbFatal
    \/ HandleWatchdog \/ HandleCheck \/ HandleResubmit

TimerStep == TimerFire \/ TimerClear

RemoveStep ==
    \/ RemoveScreenListener \/ RemoveStop \/ InputUnregister \/ Free

Next ==
    \/ \E t \in Thread : ThreadStep(t)
    \/ InputOpen \/ InputClose \/ CloseStep
    \/ ScreenOff \/ ScreenOffSet \/ ScreenOn
    \/ HandlerStep
    \/ TimerStep
    \/ UsbDisableEndpoint
    \/ RemoveTouchListener \/ RemoveStep

Spec == Init /\ [][Next]_vars

-----------------------------------------------------------------------------
(* Properties.                                                             *)

Quiet == (\A t \in Thread : At(t, "out")) /\ hpc = "out" /\ tpc = "out"

(* Where the URB should be once every callback has returned.               *)
RunsWhenQuiet ==
    Quiet /\ enabled /\ rm = "up" =>
        (linked <=> opened /\ (screen_on \/ touch_wake))

(* "The URB runs while (opened && screen_on), and stops otherwise", with   *)
(* the exception for touch-wake: once all callbacks have returned, the URB *)
(* of a healthy device is where the last of them wanted it.  They must not *)
(* overlap: mpro_ts__resync acts after it has released mt->lock.           *)
RunsIffWanted == ~setup.overlap /\ setup.faults = {} => RunsWhenQuiet

(* What the comment says, "Called whenever either condition changes", on a *)
(* healthy device whose callbacks do overlap.                              *)
RunsWithOverlap == setup.faults = {} => RunsWhenQuiet

(* The release timer never outlives the mpro_touch it belongs to, although *)
(* a packet, the timer callback, a close of the input device and the       *)
(* removal may all be under way at once.                                   *)
NoTimerAfterFree == rm = "freed" => ~watchdog /\ tpc = "out"

(* The release watchdog: a finger that userspace sees on the screen is     *)
(* going to be released even if no further packet arrives, however packet, *)
(* timer callback and close interleave.  The one exception: the last       *)
(* packet touched nothing and left the finger out, as the firmware may do  *)
(* with a slot; mpro_ts__handle_packet then deletes the timer.             *)
DownHasWatchdog == Quiet /\ rm = "up" /\ down # {} => watchdog \/ omitted

(* What the comment at the watchdog says of every packet.                  *)
FingersReleased == Quiet /\ rm = "up" /\ down # {} => watchdog
=============================================================================
