# TLA+ models of the USB display drivers

This directory is a verification project for the package feed it sits in. Most
of the feed is build recipes, patches and data; the programs written here are
Linux kernel drivers for small USB displays. The project models the control of
those drivers (threads, locks, work items, timers, URBs, suspend, probe and
disconnect) and the arithmetic that control depends on, checks the models with
TLC on small instances, and proves with TLAPS, for every instance, the safety
properties of the frame pipeline, the idle manager, touch, the DRM frame path,
beadapanel, ax206, of detection, drawing, EDID and brightness, and of probe and
removal of all three. `PROJECT.json` maps
every definition to the lines it models.

## The system

| Component | State | Operations | Hard part |
|---|---|---|---|
| mpro frame pipeline (`mpro_pipeline.c`) | `current_xfer`, `pending_xfer`, `in_flight`, the URB anchor, `complete_work` | send a frame, two URB completion handlers, completion work, shutdown | frames change owner between threads, handlers and work; disconnect in the middle |
| mpro virtual idle (`mpro_pm.c`, `mpro_screen.c`) | `is_idle`, `active_refs`, `idle_work`, `wake_work`, the listeners' own flags | get/put a reference, idle work, wake work, force idle/active, touch activity | six threads; the state changes under a lock and its effects happen after it |
| mpro touch (`mpro_touch.c`, `mpro_touchscreen.c`) | the interrupt URB, `touch_submitted`, `opened`, `screen_on`, slots, release timer | open, close, screen on/off, packet, watchdog, remove | start/stop decided under a lock and done after it; `usb_kill_urb` against resubmission |
| mpro DRM child (`drm/`) | shadow buffer, `blanked`, vblank timer, page-flip event | pipe enable/disable/update, screen wake, rotation, sleep | client of all of the above; shadow buffer shared with `wake_work` |
| beadapanel transport and power (`beada-pipeline.c`, `beada-pm.c`) | staged frame, cached dimensions, `suspended`, `disconnected`, `resume_work` | frame worker, brightness, clock, runtime and system suspend, delayed resume handlers | driver and firmware must agree when a START tag is due; resume work against suspend and disconnect |
| beadapanel DRM and backlight children | shadow, `shadow_valid`, page-flip event; stored brightness, gamma | commits, resume handlers, sysfs writers | writes deferred over a suspend, a blit under the resume handler |
| ax206 (`kernel/ax206`) | shadow, dirty rectangle, `blit_active`, `idle_active`, stored brightness, one ordered workqueue | flush, blit work, idle timer, idle and resume work, brightness work, sysfs writers, removal | merged damage, frames dropped in the idle time, works queued again after their cancelling |
| detection, rotation, EDID, gamma of the three drivers | model tables, orientation and size, EDID block, gamma | lookup, rotation store, probe of the connector, blit, gamma and level stores | the mode, the EDID, the drawing and the panel must agree; integer curves |
| probe and removal of the three drivers | what each part holds, in the order it took it | probe, failed probe, unbind, unplug, calls through files and cards | three conventions of cleanup (by hand, devres, drmm) in one path |
| mpro statistics, request/response protocol | counters, one transfer buffer | show, reset, control requests | sequential, under one mutex or lock |
| usbfb (`kernel/usbfb`) | frame buffer, one kernel thread | write, ioctl, blank, disconnect | not modelled, see below |
| LuCI podman pages, infra and initramfs scripts, package recipes | none of their own | request/response, sequential scripts | none for a model checker |

How the mpro parts interact: DRM (and the idle and wake work) call the pipeline
to send frames; the pipeline drops a frame while `is_idle` is set. DRM takes an
active reference while its pipe is enabled; the idle manager notifies the
backlight, touchscreen and DRM through the screen listeners; the touchscreen
reports activity to the idle manager and asks it to wake up. Disconnect clears
`running`, cancels the idle manager's work, unplugs DRM, lets devres remove the
children and then frees the touch URB, the pipeline and the device.

In beadapanel an open pipe holds an autopm reference. The DRM child stages a
pointer to its shadow and queues the frame worker, which sends it under
`xfer_lock`; suspend cancels the delayed resume handlers, drains the worker and
raises `suspended`; resume resets Panel-Link, forgets the cached dimensions and
queues the handlers, which send the shadow and the brightness again. In ax206
everything that talks to USB runs on one ordered workqueue, except
`pipe_enable`, which may leave the idle state by itself.

What makes each correct is the list of properties under "Runs".

## Modules

| Module | Models | Notes |
|---|---|---|
| `LatestWinsMailbox` | what the pipeline promises: one frame on its way, one waiting, the newest wins | abstract specification |
| `MproPipeline` | `mpro_pipeline.c`, the teardown in `mpro_main.c` | one step per critical section of `state_lock`, per URB submission, per completion handler and per `kfree` outside the lock |
| `MproPm` | `mpro_pm.c`, `mpro_screen.c`, the listeners' callbacks, `pipe_enable`/`pipe_disable`, the `idle_state`, `idle_delay_ms`, `touch_wake` and `reset_pm_stats` stores, disconnect | one step per critical section of `listeners_lock`, per atomic operation on `active_refs`, per work item operation |
| `MproTouch` | `mpro_touch.c`, `mpro_touchscreen.c` | one step per section of `mt->lock`, per atomic on `touch_submitted`, per USB call; handler and timer callback in several steps |
| `MproFrames` | `mpro_drm_pipe.c`, the copy and rotation of `mpro_drm_color.c`, `rotation` and `disable_partial` of `mpro_drm_sysfs.c`, suspend and resume of `mpro_drm_main.c` | composed with the mailbox (what `MproPipeline` implements) and with `is_idle` (what `MproPm` maintains); one step per copy, per reading of `mdrm->data`, per snapshot and per hand-over |
| `BeadaPanel` | `beada-pipeline.c`, `beada-pm.c`, `beada-drv.c` (disconnect), the pipe, vblank and resume handler of `drm/`, the writers and resume handler of `bl/`; the PM core, the workqueue and the panel's firmware from their use | one step per section of `xfer_lock`, `shadow_lock` and `mb->lock`, per autopm call, per flush and cancel |
| `Ax206` | `ax206-drm-plane.c`, `ax206-drm-pm.c`, `ax206-drm-sysfs.c`, `ax206-bl-drv.c`, removal in `ax206-drv.c` and `ax206-drm-drv.c` | one step per section of `blit_lock`, per copy, per USB transfer; the flags read without a lock are read in steps of their own; removal waits for one work at a time |
| `PanelConfig` | model tables and endpoint detection, `rotate_coord` and `ax206_rotate_pixel`, modes and EDID of mpro and beadapanel, gamma text and brightness curves; the rotation store, the connector probe, the blit and the backlight stores as actions over them | pure operators compared with reference definitions (`Decoded`, `Picture`, `MeantGamma`) |
| `Lifecycle` | probe, failed probe, disconnect, unbind and removal of the three drivers and their children | a probe is a sequence of steps that take a resource, a removal a sequence of resources given back; devres releases the rest, the newest first; entry points are called in between, with the resources they reach, the driver data included |
| `MC...` | instances for TLC | constants, sets of systems and symmetry only |
| `MproPipelineProofs`, `MproPmProofs`, `MproTouchProofs`, `MproFramesProofs`, `BeadaPanelProofs`, `Ax206Proofs`, `PanelConfigProofs`, `LifecycleProofs` | theorems | each extends the module it is about, see "Proofs" |

Variables have the names of the struct fields they stand for, or are records of
them; `pc` fields are program counters. A definition named *Mutation* in its
comment is not part of the specification: it is a plausible bug, kept to show
that a property would notice it.

### Abstractions

* `MproPipeline`: a frame is its place in the order in which the pipeline
  accepted it; sizes and the LZ4 encoder are data.
* `MproFrames`: a pixel is the number of the commit that drew it and buffers
  are indexed as in the code; pixel formats and lookup tables act on one pixel
  at a time and are left out. The link has no errors there (`MproPipeline` has
  them). Commits are serial, one starts when the flip of the last has
  completed, and the `pipe_update` of an enabling commit is omitted because the
  pipe is still blanked and `pipe_enable` copies everything again. `scarce`
  systems may fail any allocation; `stale` ones have a compositor that goes on
  with its framebuffer after a rotation store; in `overlap` ones handlers
  overlap.
* `MproTouch`: a touch point is a slot and a bit, and a packet names any of the
  slots.
* `BeadaPanel`: a frame is blank, the image of the commit before (`"old"`), of
  the newest commit (`"cur"`) or `"torn"`. Two levels of brightness and
  gamma tell a write from its predecessor. A panel keeps
  the dimensions of its first START tag until a reset; a `strict` panel takes
  brightness only after a frame. Panels without Status-Link never bind
  (`beada_panellink_reset` fails in probe), so there are none.
* `Ax206`: a row of pixels and two colours; the dirty rectangle is an interval.
* `PanelConfig`: the tables, timings and EDID bytes are those of the code. The
  framebuffer of a commit holds its own coordinates, so what reaches the panel
  shows where it came from. Gamma arrives as digits. A system is one whose probe
  succeeds (`SetupAssumption`): beadapanel has two bulk-OUT endpoints, mpro a
  listed model code, ax206 a size; the backlight of mpro has 256 levels.
  Gamma is written by one process at a time. A framebuffer of the old shape on
  a reopened ax206 pipe (`ax206-drm-plane.c:340-347`) is not drawn. A
  beadapanel that is drawn on has sides up to 1920, the longest in the table:
  a panel that no table lists may report anything, and twelve bits of the EDID
  hold no side of 4096.
* `Lifecycle`: a resource is a name; the code between two steps of a probe is
  one step. Works and timers are in the modules above. Memory for the
  compressor that a store takes once devres has begun is kept in `stray`; the
  device is not probed again with it, which the driver core refuses.
* A duration is the freedom of the timer to fire; `setup.slow` (`MproPm`) says
  that a delay is longer than any handler. The autosuspend delay of
  `BeadaPanel` is the user's and may be of any length.
  Durations in the power statistics are left out, their counts kept.
* History variables record which of several causes led to a state, so that a
  property can name the causes it is about; no guard of an action reads them.
  `MproPipeline`: `late` (the work submitted behind the kill). `MproTouch`:
  `omitted` (the last packet touched nothing and left a finger out).
  `MproFrames`: `turned` and `stray` (why a copy left its buffers), `erased` and
  `missed` (places the code cleared or gave up). `BeadaPanel`: `dev.skew` and
  `dev.garbled` (why the stream was misread), `dev.refused` (whose brightness
  strict firmware refused). `Ax206`: `direct`, `late`, `rearmed`.
* Kernel services are modelled from how the drivers use them: `usb_submit_urb`,
  `usb_kill_urb`, `usb_kill_anchored_urbs`, `queue_work`,
  `cancel_*_work_sync`, `flush_work`, `timer_delete_sync`, autopm references,
  `drm_atomic_helper_shutdown`, `drm_dev_unplug`, devres, the MFD core.
  `usb_unbind_interface` disables the interface's endpoints before it calls
  `disconnect`.

Environment. `MproPipeline` takes the faults of USB as a constant (`Faults`).
The others choose in `Init`, from the constant `Setups`, the system they
describe (which clients exist, which errors occur, which panel and driver it
is) and never change it, so that one run covers several systems and a property
can say for which of them it holds.

Size: the models and their instances are about 5100 lines, comments and
mutations included, for about 6500 mapped lines of C; the proofs are about
21100 lines.

## Runs

What each violation run shows is under "Where code and documentation disagree",
with further configurations that are no runs of `PROJECT.json`: each ends in a
counterexample (`tlc -config pm_touch.cfg MCMproPm`).

| Run | Instance | What it shows |
|---|---|---|
| `pipeline_faults` | 2 producers, 4 xfers, 4 frames, failing submissions and URBs, disconnect at any time, a worker that submits behind the kill | memory safety of the hand-over (`NoDanglingXfer`), `SingleTransferInFlight`, `ShutdownDrains` |
| `pipeline_live` | 2 producers, 4 xfers, 3 frames, no errors before the disconnect | the refinement (`ImplementsMailbox`, and with it the order, `LatestWins`: a mailbox never delivers an older frame after a newer one), `AcceptedIsShown`, `DisconnectCompletes` |
| `pipeline_stale` | as `pipeline_faults`, 3 frames | violation of `LatestWins` |
| `pm_clients` | DRM alone with a delay as short as its handlers; DRM with a disconnect, with the touchscreen, with sysfs writers; on an fbdev build the touchscreen with sysfs writers, and sysfs writers with a disconnect | `RefKeepsActive`, `BacklightFollows`, `FbdevNeverArms`, `DisabledGoesDark`, `TouchLeadsToWake` (not idle, and lit) |
| `touch` | overlapping callbacks with errors; serial ones without; packets that name any slots in both | `NoTimerAfterFree`, `DownHasWatchdog`, `RunsIffWanted` |
| `frames` | a 2 x 3 panel; partial updates alone, with idle periods and failing allocations, with rotation; full frames in all eight orientations, with idle periods and failing allocations, with rotations that swap the mode, with a sleep; wake-ups and rotation stores that overlap with commits; a compositor that goes on with a stale framebuffer | `PanelShowsFramebuffer`, `CopyInBounds`, `FlipsComplete` |
| `beada` | a panel that autosuspends under a compositor and a brightness writer; under one that keeps its last image and a clock writer; one in system suspend with gamma writers; a strict one in system suspend with brightness writers; one that fails and is unplugged | `WireInStep`, `BrightnessRestored`, `TornNeverStays`, `FreedMeansQuiet`, `SuspendCompletes` |
| `beada_window` | the same | violation of `WindowClean` |
| `ax206` | two pixels under a compositor; one pixel with a brightness writer, with writers of the idle settings, with errors, with a removal | `PanelCatchesUp`, `IdleIsDark`, `BrightnessKept`, `FreedMeansQuiet` |
| `ax206_dark` | one pixel under a compositor | violation of `FrameWakes` |
| `config` | every panel of both tables and an unknown one, turned by writers; 2 x 3 panels of beadapanel and ax206 with one and with two writers and a compositor; three backlights with eleven gamma texts and seventeen levels, the screen of mpro on and off | `TypeOK` (every listed panel is recognised, no pixel outside of the buffer), `EdidInStep`, `BlitShows`, `ModeSettles`, `CurveOrdered` |
| `lifecycle` | every driver with its children, alone and together, unbound in any order, mpro with LZ4 from the parameter, from sysfs and off; two probes of each part, two calls at a time | `NoUseAfterRelease`, `NothingLeaks` |

### Bounds, and why they are enough

* Two producers and four xfers let a frame be in flight, one wait, one be
  displaced and one be newly allocated at once; one more frame than that adds
  no new overlap, and freed addresses are reused.
* `MaxFrames` and `MaxCount` stop the environment from sending, or waking the
  panel, for ever; two idle transitions let a stale action of the first meet
  the second. Two touch slots are what the hardware has.
* A panel of 2 x 3 pixels has different sides, a middle row and a last row,
  regions with and without the full width; three pictures let one be on its
  way, one wait and one displace it (`setup.commits`), and one sleep meets every
  stage of a flip (`MaxSleeps`). Rotation stores overlap with the commits that
  light and darken the pipe; those with updates in between, too many for the
  run, are covered by `CopyTheorem`.
* `BeadaPanel` needs no bound: its contents and levels are a finite set, and
  suspends, commits and writes go on for ever.
* `Ax206`: one brightness work waits at a time (`MaxBl`); a second one would
  run after it and before anything else changes.
* `PanelConfig`: two writes (`MaxStores`) let the second meet every stage of
  the first. Gamma texts whose whole part wraps around 32 bits are not in the
  run.
* `Lifecycle`: two probes (`MaxBinds`) let a part come back to a parent that has
  seen its removal; two calls (`MaxCalls`) let one be in progress while another
  starts, and no property is about three.

Deadlock is checked where the system goes on for ever or ends in an explicit
final state; the runs that switch it off stop after the bounded number of
transitions or after removal. Symmetry is used only in runs without temporal
liveness properties.

### Fairness

Nothing obliges anybody to send a frame, touch the panel, write to sysfs,
suspend or unplug. Weak fairness is assumed of what the kernel schedules by
itself: URBs complete or are killed, queued work runs, an armed timer expires,
a thread inside a handler goes on, a sleeping machine is woken up. Strong
fairness is assumed in two places. In `BeadaPanel` of those who wait for
`mb->lock` or `shadow_lock`, since a kernel mutex is handed to a waiter that has
waited too long, and of `flush_work`, which waits for the transfer it found
and not for later ones. In `PanelConfig` of the compositor's answer to a
hotplug event, which a commit under way only delays; a commit that has begun
ends, and none has to begin.

### What the properties leave out

An exemption is part of the property's text, with the reason, and is as narrow
as the code allows: a history variable names the one cause that is left out, and
every other cause violates the property. Where the documentation promises the
case that is left out, a configuration shows what happens there.

| Property | leaves out | shown by |
|---|---|---|
| `NoDanglingXfer`, `SingleTransferInFlight`, `ShutdownDrains` | the one frame that `complete_work` submitted behind the kill, and the work its completion queues | `pipeline_drain` |
| `LatestWins` (proved, not run) | links whose submissions fail | `pipeline_stale` |
| `BacklightFollows`, `RefKeepsActive` | clients besides DRM | `pm_touch`, Observations |
| `TouchLeadsToWake` | a touch while `idle_work` runs; sysfs writers, who may force the panel idle | `pm_touch` |
| `DownHasWatchdog` | a finger that a packet without a touching point left out | `touch_stuck` |
| `RunsIffWanted` | callbacks that overlap | `touch_gate` |
| `CopyInBounds` | a mode changed under the handler, a stale framebuffer that is turned, the black buffer after its release | `frames_race`, `frames_stale`, `frames_freed` |
| `PanelShowsFramebuffer` | handlers that overlap, a compositor that does not follow the mode, pixels cleared, not copied or given up | `frames_overlap`, Observations |
| `WireInStep` | frames in the resume's window; a failed `PL_RESET` | `beada_window`, `beada_unreset` |
| `BrightnessRestored` | a brightness that strict firmware refused, until it takes the next | `beada_strict` |
| `SuspendCompletes` | a dispatch that waits for this very suspend | `beada_suspend` |
| `TornNeverStays` | systems whose transfers fail: a frame that was not sent is not repeated | |
| `PanelCatchesUp`, `IdleIsDark`, `BrightnessKept` | a `pipe_enable` that restored the panel outside of the workqueue | `ax206_dark`, Observations |
| `FreedMeansQuiet` (ax206) | a frame or power write after the timer was deleted; the countdown that `resume_work` started | `ax206_late`, `ax206_rearmed` |
| `EdidInStep` | two writers of beadapanel; of mpro it says that the block is the panel's as mounted | `config_writers`, `config_edid` |
| `BlitShows` | a commit that a rotation overtakes; ax206's quarter turns that do not fill the panel | `config_ax206` |
| `NoUseAfterRelease` | four windows (`Window`): the conversion state while mpro's DRM child is removed, the compressor's memory of a store while mpro is removed, the driver data of the USB drivers' files while they probe (mpro: or are removed), the card behind a touch while it is not bound | `lifecycle_conv`, `lifecycle_lz4`, Observations |
| `NothingLeaks` | the compressor's memory taken while devres runs | `lifecycle_stray` |

## Proofs

* `MproPipelineProofs`, for any set of producers, xfers and any number of
  frames, and every fault: `PipelineTypeCorrect`, `XferMemorySafety`,
  `SingleTransferTheorem`, `ShutdownDrainsTheorem`. The inductive invariant is
  `SafeInv`: who holds which xfer in a local variable (`LocalsInv`), that an
  xfer has one owner (`OwnersInv`), that `in_flight` is a token held by exactly
  one of the submitting producer, USB, the queued work and the running work
  (`TokenInv`), what each stage of the disconnect has drained unless the work
  submitted behind the kill (`ShutInv`), and that exactly the owned xfers are
  allocated (`LiveInv`). None of the properties is inductive without the token.
  Where in addition no control URB fails to submit before the device goes:
  `PendingNeverStranded`, `LatestWinsTheorem`, and `PipelineRefinesMailbox`,
  whose steps map every action to a mailbox step or a stutter. The invariant
  `OrderInv` orders the displayed, current and pending frame.
* `MproPmProofs`, for any set of systems. `PmTypeTheorem` says besides the types
  that `active_refs` is 1 exactly from `pipe_enable`'s get to `pipe_disable`'s
  put (`RefInv`). `TransitionCountsTheorem`: idle and wake transitions are
  counted in turn, because every critical section that writes `is_idle` records
  it; a reset of the counts in between leaves them at most one apart.
  `FbdevTheorem`: every path to `schedule_delayed_work` tests `fbdev_enabled`,
  so no thread is ever about to arm. `RefKeepsActiveTheorem` needs both and, for
  DRM as the only client, that past its cancelling of `idle_work` an enable
  finds the countdown neither armed nor running and past its transition the
  panel awake (`AloneInv`). `BacklightTheorem` rests on it: `LitAlone` says at
  which point of each handler the backlight is off or on.
* `MproTouchProofs`, for any number of slots. `TouchTypeTheorem`: `urb->reject`
  counts the threads inside `usb_kill_urb` (`RejectInv`). `NoTimerTheorem`: the
  removal waits for the handler before it cancels the timer (`TimerInv`).
  `WatchdogTheorem`, for packets that name any slots: a finger that is down has
  the timer, a handler on its way to `mod_timer`, or a close about to release
  it, unless the last packet touched nothing and left it out (`DownInv`).
  `RunsTheorem`: `RunInv` says at each point of start and stop how the
  callbacks' wish, `touch_submitted` and the URB itself stand to each other; the
  property only speaks of the moments between two callbacks.
* `MproFramesProofs`, for every panel size, damage and rotation, stale
  framebuffers and overlapping handlers included. `FramesTypeTheorem`
  (`TypeInv`). `CopyTheorem`: a copy leaves its buffers for the three causes
  `CopyInBounds` names and for no other. It follows from `BoundsInv`: a region
  that was clipped against the mode is still inside it when it is copied and
  sent, unless the mode changed under the handler, and a framebuffer of the
  mode's size is turned as a whole. `PictureTheorem` needs that the rotation
  maps the framebuffer's pixels one to one to the panel's, proved from the
  arithmetic of the copy loop for the eight orientations, and `PictureInv`: a
  frame under way shows the shadow as it is now (`FrameInv`), each framebuffer
  pixel is at its place in the shadow or about to be copied (`ShadowInv`), each
  shadow pixel is on the panel, under way, or going to be sent by somebody
  (`PanelInv`). The "somebody" is what makes it inductive: the panel is right
  only when nobody is left.
* `BeadaPanelProofs`. `BeadaTypeTheorem`: the worker is never queued without a
  staged frame (`StagedInv`). `WireTheorem`: outside the resume's window
  dimensions in the cache mean that the firmware has latched a START tag, and
  one it has latched with an empty cache was left by the window or by a failed
  reset (`WireInv`). `BrightnessTheorem`: the panel has the value or, if it is a
  strict one, has refused it, or a writer, the deferred handlers or a resume
  that will queue them is going to send it (`BrightInv`). `TornTheorem`: the
  shadow is torn exactly during a blit (`ShadowInv`), and a torn picture has its
  replacement or a reset on the way (`TornInv`). `FreedTheorem`: an autopm
  reference is held exactly by those who must give it back (`UsersInv`), and
  what each step of the removal has waited for does not come back (`DrainInv`).
* `Ax206Proofs`, for every panel width, set of levels and bound on waiting
  works. The invariant of all five theorems is one conjunction. `TokenInv`:
  `blit_active` is set exactly while the blit work is pending or running, never
  both, and a dirty rectangle implies it. `IdleInv`: an idle panel is blanked
  and nothing is being sent to it. `ShadowInv`: each pixel of the shadow is
  shown, marked, taken by the worker or about to be redrawn by
  `ax206_idle_leave` (`CatchesUpTheorem`). `BrightInv`: the last brightness work
  that waits carries the last level (`BrightTheorem`). `DarkInv`
  (`DarkTheorem`). `CancelInv`: what each step of the removal has cancelled
  stays so, but for late callers and for the countdown that a resume work starts
  again (`QuietTheorem`). `IdleIsDark` is not inductive without the token: a
  frame still in the worker's hands would light the panel.
* `LifecycleProofs`, for every set of drivers, loaded children and LZ4
  parameters, any number of probes of each part and of calls in progress. First
  static facts, from the lists of steps: each of the ten probe functions takes a
  resource at most once, what a step that may fail does not undo itself devres
  gives back, and the remove function with devres gives back everything
  (`Sound`); each entry point uses only what its part takes before it publishes
  it, or what the USB driver takes before the children, or what `TooEarly` names
  (`UseOK`). Then the invariant. `OrderInv`: what a part holds it took in that
  order, and with a resource it holds whatever entry points need that comes
  before. `ProbingInv` and `RemovingInv`: until a probe ends the part holds what
  its steps took, then what is on its list or left to devres. `LeakInv`
  (`NothingLeaksTheorem`): a child exists only while the USB driver holds its
  children. `CallsInv`: the entry point of a call is still held. `WindowInv`:
  what `TooEarly` names is there outside of the windows that the property leaves
  out, because the code that takes it cannot fail with a mere warning, and
  beadapanel removes its files before its driver data
  (`NoUseAfterReleaseTheorem`). `LifecycleTypeTheorem`. `NoUseAfterRelease` says
  nothing about a part that is half removed and has no calls, so it is not
  inductive without the order.
* `PanelConfigProofs`, for every set of systems, levels and gamma texts.
  `TypeCorrect` (`TypeInv`): every listed panel is found, `Drawn` has the
  panel's pixels as its domain whatever framebuffer, size and orientation meet
  (`TargetInPanel`), and `DeviceLevel` stays in the backlight's range.
  `EdidTheorem`: the size is that of the orientation or the writer is about to
  store it; the block in the connector of beadapanel is the one of the
  orientation, or the writer is on its way to build or publish it (`EdidInv`);
  that of mpro is the panel's as it is mounted, whatever is written. `BlockIs`
  says what the 128 bytes are, piece by piece, and `DecodedIs` that a reader
  takes the mode and the millimetres from them. `BlitTheorem`: `Picture` turns
  the framebuffer a quarter at a time, `PictureIs` says which pixel each place
  then shows, and `TargetIs` that the driver's coordinates are the inverse of
  that map, which `ForthBack` and `BackForth` show to be one to one; of ax206 it
  covers the orientations that fill the panel. `CurveTheorem`: both curves
  interpolate between whole powers that fall with the exponent and grow with the
  level, so the interpolation does, through every rounding (`LevelFalls`,
  `LevelGrows`); the gamma is the one that a reader of the text means
  (`ParsedIsMeant`); a screen of mpro that is off gets 0 (`LightInv`). Its
  hypothesis `Unwrapped` is needed: a whole part above 42949672 wraps around 32
  bits in the parsers and may land on a valid gamma (see "Observations"). The
  recursive functions (a number from its digits, the sum of a block, the powers)
  are unfolded by well-founded induction in its first-order form
  (`LeastElement`, `RangeInduction`), which takes a set and no operator.

`PendingNeverStranded` and `TransitionCountsTheorem` state `OrderInv` and
`TransitionCounts`, which no run lists, and `LatestWinsTheorem` a property that
only `pipeline_stale` lists, for links on which it fails: the proofs cover every
instance of the others.

The assumptions on constants are those named in the modules: a set of systems
has systems of the declared type, a panel has a positive size, level 1 exists,
"no frame" is not a frame, only mpro has a touchscreen and LZ4, and what
`SetupAssumption` of `PanelConfig` says of a system whose probe succeeds. Nothing
is assumed of the interleaving.

Only model-checked: the temporal properties with liveness (`AcceptedIsShown`,
`DisconnectCompletes`, `DisabledGoesDark`, `TouchLeadsToWake`, `FlipsComplete`,
`SuspendCompletes`, `ModeSettles`). The prover has no rules for fairness and
ENABLED. `BlitTheorem` goes on where `ModeSettles` ends: once the compositor has
the mode of the last write, every commit that it draws shows the whole picture.

Worth proving next: that the mailbox which `MproFrames` composes with can be
replaced by the pipeline itself, and the properties that leave out a cause for
the code with that cause removed.

## Where code and documentation disagree

Each name is a configuration that ends in a counterexample; the first three are
the violation runs of `PROJECT.json`.

* `pipeline_stale` (mpro): the error path of `mpro_send_xfer` gives the pipe back
  but leaves a frame that another producer parked meanwhile; it is sent after a
  newer one. The file's header promises latest-wins (`mpro_pipeline.c:5-8`).
* `beada_window` (beadapanel): `beada_usb_resume` clears `suspended`, resets
  Panel-Link and sleeps 50 ms before it forgets the cached dimensions. A frame
  that the worker sends in between leaves driver and firmware out of step; the
  comment of `pl_send` promises that a mismatch is a clean error
  (`beada-pipeline.c:144-145`).
* `ax206_dark` (ax206): `ax206_drm_blank` clears `idle_active` while the backlight
  is off. The frames that follow wake nothing, against the header of
  `ax206-drm-pm.c:13-15`.

mpro:

* `pipeline_drain`: `complete_work` takes the next frame while `running` is set
  and submits it after `usb_kill_anchored_urbs` has returned; the shutdown frees
  the xfer while USB still has it (`mpro_pipeline.c:545-547`: running was
  cleared "so no new submissions can come in").
* `pm_touch`: a touch between `idle_work`'s decision and its notification lights
  the panel first, and the late `notify_off` darkens it for good (README.md:322
  of mpro: "touching the screen wakes the display from idle").
* `touch_stuck`: a packet without a touching point deletes the release timer,
  also when it leaves out another finger that is down
  (`mpro_touchscreen.c:212-215`: in that case "the finger is released after" the
  watchdog's time).
* `touch_gate`: `mpro_ts__resync` decides under `mt->lock` and acts after it, so
  an open may start the URB after `screen_off` has stopped it
  (`mpro_touchscreen.c:246-247`: "the URB runs while (opened && screen_on), and
  stops otherwise").
* `frames_stale`: a framebuffer of the old size after a rotation store is copied
  past the end of `temp_buffer`, or read past its own
  (`mpro_drm_pipe.c:487-492`: "buffer size and coordinates stay consistent").
* `frames_race`: a rotation store changes the mode under a commit whose clip is
  of the old one (the same comment).
* `frames_freed`: `screen_wake` takes `pipe_disable`'s black buffer for the
  shadow and copies it after its `kfree` (`mpro_drm_pipe.c:40-43`: "Re-push the
  last rendered frame").
* `frames_overlap`: `wake_work` hands over a copy of the shadow older than a
  commit's (the same comment).
* `config_edid`: the EDID is built once and not again when a quarter turn
  changes the mode (`mpro_drm_edid.c:5`: the block exposes the "preferred
  timing").
* `lifecycle_conv`: `mpro_drm__remove` gives back `conv_state` before it unplugs
  the card; the comment below says the reverse. It matters on an unbind of the
  child, after a failed probe of the parent, and on a disconnect while the child
  still probes.
* `lifecycle_lz4`: LZ4 work memory taken by the first `lz4_level` store is the
  newest devres entry and goes before the children, which may still compress
  (`mpro_main.c:357`: "MFD children are torn down first").
* `lifecycle_stray`: taken while devres already runs, it does not go at all
  (`mpro_main.c:354-356`: released "through devres in reverse registration
  order").
* `lifecycle_unplug`: `mpro_usb_disconnect` unplugs through a pointer to a card
  that the DRM child's own removal frees (`mpro_main.c:338-341`: the unplug
  leaves "mdrm->mpro intact").

beadapanel:

* `beada_unreset`: a Panel-Link reset that fails on resume is only warned about,
  and the cached dimensions are forgotten all the same
  (`beada-pipeline.c:144-145`).
* `beada_strict`: no frame is flushed between the resume handlers, so strict
  firmware refuses the brightness that the second one sends
  (`beada-backlight-drv.c:104-105`: "The frame flush between handlers ensures"
  that it does not).
* `beada_suspend`: suspend waits for `resume_work`, which waits in
  `usb_autopm_get_interface` for the suspend (`beada-pm.c:178-183`: "this corner
  case is benign").
* `config_writers`: of two rotation stores the older may publish its EDID last
  (`beada-drm-edid.c:10`: the block is rebuilt "every time the rotation
  changes").

ax206:

* `ax206_rearmed`: `ax206_drm_remove` deletes the timer before it waits for
  `resume_work`, which arms it again (`ax206-drv.c:162`: "Remove children first
  so they stop queuing work").
* `ax206_late`: it cancels works before it removes the files and unplugs the
  card that queue them (the same comment).
* `config_ax206`: `ax206_rotate_pixel` turns by 90 and 270 degrees for square
  panels only; on others part of the panel is never drawn (README.md:161 of
  ax206: all eight orientations take "effect on next frame").

### Observations

Found while modelling, by dropping one condition of a model or by reading. The
repository promises nothing that they contradict outright.

mpro:

* `mpro_pm_touch_activity` tests `active_refs` and then arms the countdown; a
  `pipe_enable` in between does not prevent idle (`ReferenceKeepsActive`).
* Disconnect cancels `idle_work` first and disables the DRM pipe later, which
  arms it again.
* Listeners are notified after `listeners_lock` is dropped, so with a sysfs
  writer, too, an older notification can overtake a newer one
  (`mpro_pm.c:115`, `:219`, `:265`); `BacklightFollows` is about DRM alone.
* `mpro_pm_force_active` cancels `idle_work` and never arms it
  (`mpro_pm.c:227`); `mpro_pm_init` arms no countdown, so a panel nobody drives
  stays lit.
* `mpro_idle_work` sets `is_idle` before it sends its black frame, which
  `mpro_send_xfer` then drops (`mpro_pm.c:92`, `:110`, `mpro_pipeline.c:424`).
* A waiting partial frame is displaced by a partial frame of another region;
  its pixels are in the shadow and never on the panel. A partial update whose
  region ends at the last row is refused (`mpro_pipeline.c:503-505`). An update
  for which there is no memory is lost with a message
  (`mpro_drm_color.c:283-287`, `mpro_drm_pipe.c:93-95`).
* `brightness_store` and `gamma_store` of the DRM child do not push the shadow,
  and resume pushes the black one that suspend left.
* The sysfs files of the USB driver are there before its driver data, and mpro's
  outlive it: every handler follows `dev_get_drvdata` (`mpro_main.c:280`, `:284`,
  `:349`; `beada-drv.c:175`, `:187`).
* A touch reads the rotation through `mpro->drm` without a lock
  (`mpro_touchscreen.c:32`); the DRM child may be removed under it.
* Two rotation stores at once leave the size of the one and the orientation of
  the other (`mpro_drm_sysfs.c:40-66`, also ax206).
* `mpro_pow_lut` promises to be within 1 and is off by up to 112 at gamma 0.5.

beadapanel:

* A panel that lost Status-Link at `GET_INFO` is never reset, yet the cached
  dimensions are forgotten. The comment above `resume_work` speaks of 200 ms
  where the work takes 1200.
* A rotation store announces the mode and draws nothing: a still picture turns
  with the compositor's next frame (`beada-drm-kms.c:70-96`).
* Probe fails without Status-Link although the fallbacks of
  `beada_query_device_info` and the comment in `beada-usb.c` provide for it.
  `beada_try_iproduct` never finds its two conversions.
* If `beada_pipe_active` fails the pipe opens all the same, and closing it gives
  back a reference it never had. `pipe_update` returns without the flip event
  when the device is unplugged.
* `PANELLINK_MAX_FRAME_BYTES` is smaller than a frame of the models with codes 21
  to 26, which `pl_send` rejects.
* The range limits of the EDID exclude some of the driver's own modes; the gamma
  parsers of both drivers wrap around at 32 bits.

ax206:

* The first frame of an opening commit is wiped by the blank of `pipe_enable`;
  a failed blit loses its damage; a rotation store changes sizes without a new
  mode; a delay of zero does not wake an idle panel.
* `ax206_idle_leave` runs on the workqueue and in `pipe_enable` at once.
* A compositor that keeps drawing keeps the blit work in its loop, and the
  brightness, idle and resume works behind it wait.

usbfb (read, not modelled): the error path of its probe frees structures that
the frame buffer, the thread, the sysfs files and the notifier still use, and may
return 0; disconnect frees the device before its sysfs files go; the command
buffer is shared without a lock; the thread pauses for ever after an error.

## Not modelled

* usbfb: an older driver for the panels that ax206 drives. Its faults are plain
  in the text (above); a model whose every property fails says nothing more.
* The request/response code of `mpro_protocol.c` and `ax206_usb_cmd`:
  sequential under one mutex.
* Statistics and `fps_lock`, show functions, module parameters, colour tables,
  touch calibration, RGB565 conversion: payload and layout.
* `mpro_pm_init` after the children: a fixed order in the text, listed under the
  hazards.
* The LuCI pages and shell scripts (sequential, no state of their own),
  vendored code and patches, build recipes, shell completions, the LZ4 encoder.
