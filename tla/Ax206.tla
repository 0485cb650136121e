-------------------------------- MODULE Ax206 --------------------------------
(***************************************************************************)
(* The AX206 photo frame driver at run time: the DRM child's shadow buffer *)
(* and coalescing blit worker (drm/ax206-drm-plane.c), the virtual idle    *)
(* (drm/ax206-drm-pm.c, drm/ax206-drm-sysfs.c), the backlight child        *)
(* (bl/ax206-bl-drv.c) and the parent's ordered workqueue and disconnect   *)
(* (ax206-drv.c).                                                          *)
(*                                                                         *)
(* The steps of the workqueue (run), of the compositor's commit (com), of  *)
(* sysfs and backlight writers and of disconnect (rem) interleave; one USB *)
(* command, which holds usb_mutex, is one step.  The panel is a row of     *)
(* pixels, so that a damage rectangle is an interval.                      *)
(***************************************************************************)
EXTENDS Naturals, Sequences, FiniteSets, SequencesExt

CONSTANTS
    Setups,     \* the systems a behaviour may run in, one per behaviour
    Level,      \* brightness levels a user writes; 0 is off
    MaxBl       \* bound: backlight works waiting in the queue

ASSUME LevelAssumption == Level \subseteq Nat \ {0} /\ 1 \in Level

ASSUME SetupAssumption ==
    \A s \in Setups : s.timeout \in BOOLEAN /\ s.noblank \in BOOLEAN

(***************************************************************************)
(* actors: "bl", "power" and "noblank" writers, "errors" of USB and        *)
(* memory, "remove"; noblank and timeout: the module parameters; width:    *)
(* the pixels of the panel.                                                *)
(***************************************************************************)
VARIABLES
    setup,
    d,      \* struct ax206_drm_dev and struct ax206_dev
    wq,     \* the parent's ordered workqueue: works not yet running
    run,    \* the work in progress
    com,    \* the commit in progress, and whether the pipe is open
    leave,  \* the two threads that may be inside ax206_idle_leave
    panel,  \* what the panel shows, and its backlight
    rem     \* progress of ax206_disconnect

vars == <<setup, d, wq, run, com, leave, panel, rem>>

Pixel == 1..setup.width
Black == 0
Demo == 2                       \* the factory image
Colour == {Black, 1}
Image == [Pixel -> Colour]
BlackImage == [p \in Pixel |-> Black]

Work(name, v) == [name |-> name, value |-> v]

(***************************************************************************)
(* d.rect is the dirty rectangle, empty when blit_dirty is not set.  Three *)
(* fields only record what happened: direct, that pipe_enable restored the *)
(* panel outside the workqueue; late, that a frame or a power write came   *)
(* after the removal had begun to cancel; rearmed, that the resume work    *)
(* started the countdown after the removal had stopped it.                 *)
(***************************************************************************)
TypeOK ==
    /\ setup \in Setups
    /\ d \in [shadow: Image, rect: SUBSET Pixel,
              blit_active: BOOLEAN, idle_active: BOOLEAN, blanked: BOOLEAN,
              cleared: BOOLEAN, timer: BOOLEAN, timeout: BOOLEAN,
              noblank: BOOLEAN, backlight: Level, connected: BOOLEAN,
              direct: BOOLEAN, late: BOOLEAN, rearmed: BOOLEAN]
    /\ wq \in Seq([name: {"blit", "idle", "resume"}, value: {0}]
                  \cup [name: {"bl"}, value: Level])
    /\ \A i, j \in DOMAIN wq : wq[i] = wq[j] /\ wq[i].name # "bl" => i = j
    /\ run \in [name: {"none", "blit", "idle", "resume", "bl"},
                value: Level \cup {0},
                pc: {"start", "check", "copy", "send", "off", "black",
                     "leaving"},
                rect: SUBSET Pixel, buf: Image]
    /\ com \in [pc: {"idle", "mark", "enable", "leaving", "clear"},
                open: BOOLEAN, opening: BOOLEAN, clip: SUBSET Pixel]
    /\ leave \in [{"wq", "com"} ->
                  [pc: {"out", "blit", "light", "timer"}, value: Level]]
    /\ panel \in [pixel: [Pixel -> Colour \cup {Demo}],
                  light: Level \cup {0}]
    /\ rem \in {"bound", "timer", "idle", "resume", "blit", "unplug",
                "shutdown", "freed"}

\* The state after ax206_probe and ax206_drm_probe
Init ==
    /\ setup \in Setups
    /\ d = [shadow |-> BlackImage, rect |-> {},
            blit_active |-> FALSE, idle_active |-> FALSE, blanked |-> FALSE,
            cleared |-> FALSE, timer |-> FALSE, timeout |-> setup.timeout,
            noblank |-> setup.noblank, backlight |-> 1, connected |-> TRUE,
            direct |-> FALSE, late |-> FALSE, rearmed |-> FALSE]
    /\ wq = <<>>
    /\ run = [name |-> "none", value |-> 0, pc |-> "start", rect |-> {},
              buf |-> BlackImage]
    /\ com = [pc |-> "idle", open |-> FALSE, opening |-> FALSE, clip |-> {}]
    /\ leave = [t \in {"wq", "com"} |-> [pc |-> "out", value |-> 1]]
    /\ panel = [pixel |-> [p \in Pixel |-> Demo], light |-> 1]
    /\ rem = "bound"

-----------------------------------------------------------------------------
(* Helpers.                                                                *)

Fails == "errors" \in setup.actors

\* Mutation: a work that is pending is queued again
QueueTwice(q, w) == Append(q, w)

\* queue_work
Queue(q, w) == IF Contains(q, w) THEN q ELSE Append(q, w)

\* cancel_work_sync, of a work that does not run
Cancel(q, name) == RemoveFirst(q, Work(name, 0))

\* The smallest rectangle around a set of pixels
Hull(S) == {p \in Pixel : \E a, b \in S : a <= p /\ p <= b}

\* ax206_drm_remove has deleted the timer and goes on cancelling
Cancelling == rem \in {"idle", "resume", "blit", "unplug", "shutdown"}
Late(dd) == [dd EXCEPT !.late = @ \/ Cancelling]
Rearmed(dd) == [dd EXCEPT !.rearmed = @ \/ Cancelling]

\* ax206_idle_timer_reset, applied to the fields dd
IdleTimerReset(dd) ==
    /\ d' = IF ~dd.idle_active /\ dd.timeout
            THEN [dd EXCEPT !.timer = TRUE] ELSE dd
    /\ wq' = IF dd.idle_active THEN Queue(wq, Work("resume", 0)) ELSE wq

\* The tail of ax206_drm_flush and ax206_drm_blank, under blit_lock
MarkDirty(dd, S) ==
    Late([dd EXCEPT !.rect = Hull(@ \cup S), !.blit_active = TRUE])
BlitQueued(dd) ==
    IF dd.blit_active THEN wq ELSE Queue(wq, Work("blit", 0))

\* ax206_drm_blank
Blank(dd) ==
    MarkDirty([dd EXCEPT !.shadow = BlackImage, !.idle_active = FALSE], Pixel)

\* The work in progress is over
Done == run' = [run EXCEPT !.name = "none", !.value = 0, !.pc = "start",
                           !.rect = {}, !.buf = BlackImage]

-----------------------------------------------------------------------------
(* The workqueue.                                                          *)

Dispatch ==
    /\ run.name = "none" /\ wq # <<>>
    /\ run' = [run EXCEPT !.name = Head(wq).name, !.value = Head(wq).value]
    /\ wq' = Tail(wq)
    /\ UNCHANGED <<setup, d, com, leave, panel, rem>>

At(name, pc) == run.name = name /\ run.pc = pc

\* ax206_drm_blit_work_fn takes the rectangle, or returns
BlitSnapshot ==
    /\ At("blit", "start")
    /\ IF d.rect = {}
       THEN d' = [d EXCEPT !.blit_active = FALSE] /\ Done
       ELSE /\ d' = [d EXCEPT !.rect = {}]
            /\ run' = [run EXCEPT !.pc = "check", !.rect = d.rect]
    /\ UNCHANGED <<setup, wq, com, leave, panel, rem>>

NextRound == [run EXCEPT !.pc = "start", !.rect = {}, !.buf = BlackImage]

\* Mutation: the worker does not look at the idle state
BlitCheckNever ==
    /\ At("blit", "check")
    /\ run' = [run EXCEPT !.pc = "copy"]
    /\ UNCHANGED <<setup, d, wq, com, leave, panel, rem>>

\* ... drops it while the panel is idle or gone
BlitCheck ==
    /\ At("blit", "check")
    /\ run' = IF d.idle_active \/ ~d.connected THEN NextRound
              ELSE [run EXCEPT !.pc = "copy"]
    /\ UNCHANGED <<setup, d, wq, com, leave, panel, rem>>

\* ... copies it out of the shadow, without a lock
BlitCopy ==
    /\ At("blit", "copy")
    /\ run' \in {[run EXCEPT !.pc = "send", !.buf = [p \in Pixel |->
                    IF p \in run.rect THEN d.shadow[p] ELSE Black]]}
               \cup (IF Fails THEN {NextRound} ELSE {})
    /\ UNCHANGED <<setup, d, wq, com, leave, panel, rem>>

\* ax206_usb_blit
Shown(rect, image) ==
    [panel EXCEPT !.pixel = [p \in Pixel |-> IF p \in rect THEN image[p]
                                             ELSE panel.pixel[p]]]

\* ... sends it, and starts again
BlitSend ==
    /\ At("blit", "send")
    /\ panel' \in {Shown(run.rect, run.buf)} \cup (IF Fails THEN {panel} ELSE {})
    /\ run' = NextRound
    /\ UNCHANGED <<setup, d, wq, com, leave, rem>>

\* ax206_idle_timer_fn: a commit restarts the countdown when it begins, and is
\* over before the countdown, which takes a second or more
TimerFire ==
    /\ d.timer /\ com.pc = "idle"
    /\ d' = [d EXCEPT !.timer = FALSE]
    /\ wq' = IF d.idle_active THEN wq ELSE Queue(wq, Work("idle", 0))
    /\ UNCHANGED <<setup, run, com, leave, panel, rem>>

\* ax206_idle_work_fn, ax206_idle_enter: the flags, the backlight, the image
IdleEnter ==
    /\ At("idle", "start")
    /\ IF d.idle_active
       THEN Done /\ UNCHANGED d
       ELSE /\ d' = [d EXCEPT !.idle_active = TRUE, !.blanked = TRUE]
            /\ run' = [run EXCEPT !.pc = "off"]
    /\ UNCHANGED <<setup, wq, com, leave, panel, rem>>

IdleEnterOff ==
    /\ At("idle", "off")
    /\ run' = [run EXCEPT !.pc = "black"]
    /\ panel' \in {[panel EXCEPT !.light = 0]}
                  \cup (IF Fails THEN {panel} ELSE {})
    /\ UNCHANGED <<setup, d, wq, com, leave, rem>>

IdleEnterBlack ==
    /\ At("idle", "black")
    /\ panel' \in {Shown(Pixel, BlackImage)} \cup (IF Fails THEN {panel} ELSE {})
    /\ Done
    /\ UNCHANGED <<setup, d, wq, com, leave, rem>>

\* ax206_resume_work_fn
ResumeWork ==
    /\ At("resume", "start")
    /\ IF d.idle_active
       THEN /\ leave' = [leave EXCEPT !["wq"].pc = "blit",
                                      !["wq"].value = d.backlight]
            /\ d' = [d EXCEPT !.idle_active = FALSE, !.blanked = FALSE]
            /\ run' = [run EXCEPT !.pc = "leaving"]
       ELSE Done /\ UNCHANGED <<d, leave>>
    /\ UNCHANGED <<setup, wq, com, panel, rem>>

\* ax206_idle_leave in thread t: the image, the backlight, the countdown
LeaveBlit(t) ==
    /\ leave[t].pc = "blit"
    /\ leave' = [leave EXCEPT ![t].pc = "light"]
    /\ panel' \in {Shown(Pixel, d.shadow)} \cup (IF Fails THEN {panel} ELSE {})
    /\ UNCHANGED <<setup, d, wq, run, com, rem>>

LeaveLight(t) ==
    /\ leave[t].pc = "light"
    /\ leave' = [leave EXCEPT ![t].pc = "timer", ![t].value = 1]
    /\ panel' \in {[panel EXCEPT !.light = leave[t].value]}
                  \cup (IF Fails THEN {panel} ELSE {})
    /\ UNCHANGED <<setup, d, wq, run, com, rem>>

LeaveTimer(t) ==
    /\ leave[t].pc = "timer"
    /\ leave' = [leave EXCEPT ![t].pc = "out"]
    /\ IdleTimerReset(IF t = "wq" THEN Rearmed(d) ELSE Late(d))
    /\ IF t = "wq" THEN Done /\ UNCHANGED com
       ELSE com' = [com EXCEPT !.pc = "clear"] /\ UNCHANGED run
    /\ UNCHANGED <<setup, panel, rem>>

\* ax206_bl_work_fn
BlWork ==
    /\ At("bl", "start")
    /\ panel' \in (IF d.connected /\ ~d.blanked
                   THEN {[panel EXCEPT !.light = run.value]} ELSE {panel})
                  \cup (IF Fails THEN {panel} ELSE {})
    /\ Done
    /\ UNCHANGED <<setup, d, wq, com, leave, rem>>

-----------------------------------------------------------------------------
(* The compositor.  The atomic helpers call pipe_update before pipe_enable *)
(* when a commit opens the pipe.                                           *)

AfterUpdate(opening) == IF opening THEN "enable" ELSE "idle"

\* ax206_drm_pipe_update restarts the countdown, and ax206_drm_flush writes
\* those pixels of the clip that differ: neither reads what the other writes
Update(clip, image) ==
    /\ com.pc = "idle" /\ rem \notin {"shutdown", "freed"}
    /\ ~com.open => clip = Pixel
    /\ LET changed == {p \in clip : d.shadow[p] # image[p]}
           written == [p \in Pixel |-> IF p \in clip THEN image[p]
                                       ELSE d.shadow[p]]
       IN /\ IdleTimerReset(Late([d EXCEPT !.shadow = written]))
          /\ com' = [com EXCEPT !.opening = ~com.open, !.clip = changed,
                        !.pc = IF changed = {} THEN AfterUpdate(~com.open)
                               ELSE "mark"]
    /\ UNCHANGED <<setup, run, leave, panel, rem>>

\* Mutation: the new rectangle replaces the pending one
UpdateMarkReplaced ==
    /\ com.pc = "mark"
    /\ d' = Late([d EXCEPT !.rect = Hull(com.clip), !.blit_active = TRUE])
    /\ wq' = BlitQueued(d)
    /\ com' = [com EXCEPT !.pc = AfterUpdate(com.opening), !.clip = {}]
    /\ UNCHANGED <<setup, run, leave, panel, rem>>

\* ... and then marks their rectangle
UpdateMark ==
    /\ com.pc = "mark"
    /\ d' = MarkDirty(d, com.clip)
    /\ wq' = BlitQueued(d)
    /\ com' = [com EXCEPT !.pc = AfterUpdate(com.opening), !.clip = {}]
    /\ UNCHANGED <<setup, run, leave, panel, rem>>

\* ax206_drm_pipe_enable: it leaves the idle state in the commit's thread ...
Enable ==
    /\ com.pc = "enable"
    /\ IF d.idle_active
       THEN /\ leave' = [leave EXCEPT !["com"].pc = "blit",
                                      !["com"].value = d.backlight]
            /\ d' = [d EXCEPT !.idle_active = FALSE, !.blanked = FALSE,
                              !.direct = TRUE]
            /\ com' = [com EXCEPT !.pc = "leaving"]
       ELSE com' = [com EXCEPT !.pc = "clear"] /\ UNCHANGED <<d, leave>>
    /\ UNCHANGED <<setup, wq, run, panel, rem>>

\* ... wipes the factory image once, and starts the countdown
EnableClear ==
    /\ com.pc = "clear"
    /\ com' = [com EXCEPT !.pc = "idle", !.open = TRUE, !.opening = FALSE]
    /\ IF ~d.cleared /\ d.connected
       THEN /\ d' = [Blank(d) EXCEPT !.cleared = TRUE, !.timer = @ \/ d.timeout]
            /\ wq' = BlitQueued(d)
       ELSE IdleTimerReset(Late(d))
    /\ UNCHANGED <<setup, run, leave, panel, rem>>

\* ax206_drm_pipe_disable: the idle work is cancelled, the panel blackened
Disable ==
    /\ com.pc = "idle" /\ com.open
    /\ run.name # "idle"
    /\ com' = [com EXCEPT !.open = FALSE]
    /\ LET stopped == [d EXCEPT !.timer = FALSE]
           kept == Cancel(wq, "idle")
       IN IF d.noblank \/ ~d.connected
          THEN d' = stopped /\ wq' = kept
          ELSE /\ d' = Blank(stopped)
               /\ wq' = IF d.blit_active THEN kept
                        ELSE Queue(kept, Work("blit", 0))
    /\ UNCHANGED <<setup, run, leave, panel, rem>>

-----------------------------------------------------------------------------
(* sysfs and backlight writers.                                            *)

\* Mutation: a write during the idle time is not remembered
BlWriteUnsaved(v) ==
    /\ "bl" \in setup.actors /\ rem = "bound"
    /\ Cardinality({i \in DOMAIN wq : wq[i].name = "bl"}) < MaxBl
    /\ d' = IF d.idle_active THEN d ELSE [d EXCEPT !.backlight = v]
    /\ wq' = Append(wq, Work("bl", v))
    /\ UNCHANGED <<setup, run, com, leave, panel, rem>>

\* ax206_bl_update_status
BlWrite(v) ==
    /\ "bl" \in setup.actors /\ rem = "bound"
    /\ Cardinality({i \in DOMAIN wq : wq[i].name = "bl"}) < MaxBl
    /\ d' = [d EXCEPT !.backlight = v]
    /\ wq' = Append(wq, Work("bl", v))
    /\ UNCHANGED <<setup, run, com, leave, panel, rem>>

PowerUser == "power" \in setup.actors /\ rem \notin {"shutdown", "freed"}

\* power_control_store "on"
PowerOn ==
    /\ PowerUser
    /\ d' = Late([d EXCEPT !.timeout = FALSE, !.timer = FALSE])
    /\ wq' = IF d.idle_active THEN Queue(wq, Work("resume", 0)) ELSE wq
    /\ UNCHANGED <<setup, run, com, leave, panel, rem>>

\* power_control_store "auto", and power_autosuspend_delay_ms_store of a
\* second or more
PowerAuto ==
    /\ PowerUser
    /\ IdleTimerReset(Late([d EXCEPT !.timeout = TRUE]))
    /\ UNCHANGED <<setup, run, com, leave, panel, rem>>

\* power_autosuspend_delay_ms_store of less than a second: no wake
DelayZero ==
    /\ PowerUser
    /\ d' = Late([d EXCEPT !.timeout = FALSE, !.timer = FALSE])
    /\ UNCHANGED <<setup, wq, run, com, leave, panel, rem>>

\* noblank_store
NoblankWrite ==
    /\ "noblank" \in setup.actors
    /\ d' = [d EXCEPT !.noblank = ~@]
    /\ UNCHANGED <<setup, wq, run, com, leave, panel, rem>>

-----------------------------------------------------------------------------
(* Disconnect.                                                             *)

\* ax206_sw_disconnect, which an unbinding interface skips, and the flag
Disconnect ==
    /\ "remove" \in setup.actors /\ rem = "bound"
    /\ rem' = "timer"
    /\ d' = [d EXCEPT !.connected = FALSE]
    /\ panel' \in {panel, [Shown(Pixel, BlackImage) EXCEPT !.light = 0]}
    /\ UNCHANGED <<setup, wq, run, com, leave>>

\* ax206_drm_remove deletes the timer first ...
RemoveTimer ==
    /\ rem = "timer"
    /\ rem' = "idle"
    /\ d' = [d EXCEPT !.timer = FALSE]
    /\ UNCHANGED <<setup, wq, run, com, leave, panel>>

\* ... then waits for each work in turn and takes it off the queue
RemoveWork(name, next) ==
    /\ rem = name /\ run.name # name
    /\ rem' = next
    /\ wq' = Cancel(wq, name)
    /\ UNCHANGED <<setup, d, run, com, leave, panel>>

\* Mutation: ax206_drm_remove forgets the resume work
RemoveResumeForgotten ==
    /\ rem = "resume"
    /\ rem' = "blit"
    /\ UNCHANGED <<setup, d, wq, run, com, leave, panel>>

RemoveIdle == RemoveWork("idle", "resume")
RemoveResume == RemoveWork("resume", "blit")
RemoveBlit == RemoveWork("blit", "unplug")
RemoveCancel == RemoveTimer \/ RemoveIdle \/ RemoveResume \/ RemoveBlit

\* ax206_drm_sysfs_fini and drm_dev_unplug
RemoveUnplug ==
    /\ rem = "unplug"
    /\ rem' = "shutdown"
    /\ UNCHANGED <<setup, d, wq, run, com, leave, panel>>

\* drm_atomic_helper_shutdown has closed the pipe; devm frees the shadow
RemoveFree ==
    /\ rem = "shutdown" /\ com.pc = "idle" /\ ~com.open
    /\ rem' = "freed"
    /\ UNCHANGED <<setup, d, wq, run, com, leave, panel>>

-----------------------------------------------------------------------------
BlitWorker == BlitSnapshot \/ BlitCheck \/ BlitCopy \/ BlitSend
IdleEntering == IdleEnter \/ IdleEnterOff \/ IdleEnterBlack
Leaving(t) == LeaveBlit(t) \/ LeaveLight(t) \/ LeaveTimer(t)
Wq == \/ Dispatch \/ BlitWorker \/ IdleEntering \/ ResumeWork \/ BlWork
      \/ Leaving("wq")
Committing == \/ UpdateMark \/ Enable
              \/ EnableClear \/ Leaving("com")
Removing == RemoveCancel \/ RemoveUnplug \/ RemoveFree

Next ==
    \/ Wq \/ TimerFire \/ Committing \/ Disable
    \/ \E clip \in SUBSET Pixel, image \in Image : Update(clip, image)
    \/ \E v \in Level : BlWrite(v)
    \/ PowerOn \/ PowerAuto \/ DelayZero \/ NoblankWrite
    \/ Disconnect \/ Removing

Spec == Init /\ [][Next]_vars

(***************************************************************************)
(* The workqueue, a commit that has begun and the removal go on; a removal *)
(* closes an open pipe.  Nobody has to commit or write, and the countdown  *)
(* may always be restarted.                                                *)
(***************************************************************************)
FairSpec ==
    /\ Spec
    /\ WF_vars(Wq) /\ WF_vars(Committing)
    /\ WF_vars(Removing \/ (Disable /\ rem = "shutdown"))

-----------------------------------------------------------------------------
(* Nothing is queued, running or being committed. *)
Quiet == /\ wq = <<>> /\ run.name = "none" /\ com.pc = "idle"
         /\ d.connected /\ ~Fails

(***************************************************************************)
(* The display always catches up: when all is quiet and the panel is not   *)
(* idle, it shows the shadow buffer.  Rectangles merged while a transfer   *)
(* ran, damage dropped during the idle time and copies made before their   *)
(* rectangle was marked are all repaired (ax206_drm_pipe_update,           *)
(* ax206_drm_blit_work_fn, ax206_idle_leave).                              *)
(***************************************************************************)
PanelCatchesUp ==
    Quiet /\ d.cleared /\ ~d.idle_active /\ ~d.direct =>
        panel.pixel = d.shadow

(***************************************************************************)
(* While the panel is idle it is black and dark, whatever frames and       *)
(* brightness writes arrive (ax206_idle_enter, ax206_bl_work_fn).          *)
(***************************************************************************)
IdleIsDark ==
    Quiet /\ d.idle_active /\ ~d.direct =>
        panel.light = 0 /\ panel.pixel = BlackImage

(***************************************************************************)
(* A panel that is not blanked has the brightness written last, the writes *)
(* made during the idle time included (ax206_bl_update_status,             *)
(* ax206_idle_leave).                                                      *)
(***************************************************************************)
BrightnessKept ==
    Quiet /\ ~d.blanked /\ ~d.direct => panel.light = d.backlight

(***************************************************************************)
(* When devm frees the shadow buffer, no work of the DRM child is queued   *)
(* or runs and its timer is not armed (ax206_drm_remove), with two         *)
(* exceptions.  A frame or a power write after the timer is deleted queues *)
(* any of them again.  A resume work that the removal waits for, after it  *)
(* has deleted the timer, starts the countdown again (ax206_idle_leave):   *)
(* that leaves the timer and the work of the countdown, and nothing else.  *)
(***************************************************************************)
Remaining ==
    {wq[i].name : i \in DOMAIN wq} \cup {run.name}
        \cup (IF d.timer THEN {"timer"} ELSE {})

FreedMeansQuiet ==
    rem = "freed" /\ ~d.late =>
        Remaining \cap {"blit", "idle", "resume", "timer"}
            \subseteq (IF d.rearmed THEN {"idle", "timer"} ELSE {})

(***************************************************************************)
(* ax206_disconnect's comment: the children are removed first so that they *)
(* stop queuing work.  The first is about a removal that no frame and no   *)
(* power write disturbs, the second about one whose resume work did not    *)
(* start the countdown (ax206_drm_remove, ax206_idle_leave).               *)
(***************************************************************************)
ChildGone ==
    rem = "freed" => Remaining \cap {"blit", "idle", "resume", "timer"} = {}
LeaveStopsQueuing == ~d.late => ChildGone
UsersStopQueuing == ~d.rearmed => ChildGone

(***************************************************************************)
(* ax206-drm-pm.c: any frame update wakes the display and restores the     *)
(* backlight level.                                                        *)
(***************************************************************************)
FrameWakes ==
    Quiet /\ com.open /\ ~d.idle_active /\ ~d.direct =>
        panel.light = d.backlight
=============================================================================
