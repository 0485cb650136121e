----------------------------- MODULE MproFrames -----------------------------
(***************************************************************************)
(* The way of a picture from the compositor's framebuffer to the panel     *)
(* through the mpro DRM driver: pipe_update, pipe_enable and pipe_disable  *)
(* (mpro_drm_pipe.c), the copy and rotation into the shadow buffer         *)
(* (mpro_drm_color.c), the rotation and disable_partial attributes         *)
(* (mpro_drm_sysfs.c), suspend and resume (mpro_drm_main.c) and the        *)
(* emulated vblank that completes page flips.  Below it the frame pipeline *)
(* is the latest-wins mailbox that MproPipeline implements, on a link      *)
(* without errors, and is_idle is what MproPm makes of it.                 *)
(*                                                                         *)
(* Four threads run these paths and no lock is common to them: DRM         *)
(* commits, wake_work's repaint, a sysfs writer and system sleep.  A pixel *)
(* is the number of the commit that drew it, 0 is black; buffers are       *)
(* indexed as the code indexes them, row by row.  Pixel formats and lookup *)
(* tables, which act on each pixel alone, are abstracted away.             *)
(***************************************************************************)
EXTENDS Integers, FiniteSets

CONSTANTS
    Setups,       \* the systems to look at, see SetupType
    W, H,         \* mpro->model->width and height
    MaxSleeps     \* bound on system suspends

Thread == {"drm", "wake", "sysfs", "power"}

(* DRM_MODE_ROTATE_<90 * angle> with DRM_MODE_REFLECT_X and _Y.            *)
Rotation == [angle : 0..3, rx : BOOLEAN, ry : BOOLEAN]
Rotate0 == [angle |-> 0, rx |-> FALSE, ry |-> FALSE]

Clip == [x1 : Int, y1 : Int, x2 : Int, y2 : Int]

(* partial: the model has no margin and disable_partial is not forced;     *)
(* actors: who is there besides DRM; damage: what the compositor may       *)
(* redraw; turns: the rotations in use; stale: the compositor may go on    *)
(* with its framebuffer after a hotplug event changed the mode; overlap:   *)
(* handlers of different threads may overlap; scarce: allocations of       *)
(* memory may fail; commits: bound on the pictures the compositor draws.   *)
SetupType == [partial : BOOLEAN, actors : SUBSET Thread, damage : SUBSET Clip,
              turns : SUBSET Rotation, stale : BOOLEAN, overlap : BOOLEAN,
              scarce : BOOLEAN, commits : Nat]

ASSUME SetupAssumption ==
    \A s \in Setups :
        /\ {s.partial, s.stale, s.overlap, s.scarce} \subseteq BOOLEAN
        /\ s.commits \in Nat
        /\ s.actors \subseteq Thread
        /\ s.turns \subseteq Rotation /\ s.turns # {}
        /\ \A c \in s.damage : {c.x1, c.y1, c.x2, c.y2} \subseteq Int
ASSUME SizeAssumption == W \in Nat \ {0} /\ H \in Nat \ {0}
ASSUME BoundAssumption == MaxSleeps \in Nat

VARIABLES
    setup,            \* the system this is: a member of Setups, never changed
    fb,               \* the framebuffer of the plane state: width, height, pixels
    drawn,            \* number of pictures the compositor has drawn
    width, height,    \* mdrm->width, mdrm->height
    native_rotation,  \* mdrm->native_rotation
    disable_partial,  \* mdrm->disable_partial
    blanked,          \* mdrm->blanked
    data,             \* where mdrm->data points: "shadow" or "black"
    shadow,           \* contents of the buffer of mpro_drm__data_alloc
    black_live,       \* pipe_disable's temporary black buffer is allocated
    pipe_on,          \* the CRTC is active
    event,            \* crtc->state->event: none, in the state, armed for vblank
    core_vblank,      \* the DRM core wants vblank interrupts
    vblank_enabled,   \* mdrm->vblank_enabled: vblank_timer runs
    was_enabled,      \* mdrm->vblank_was_enabled_pre_suspend
    suspended,        \* mdrm->suspended
    sleeps,           \* number of system suspends so far
    is_idle,          \* mpro->is_idle
    slot, waiting,    \* the frame being sent and the one to be sent next
    panel,            \* the pixels the panel shows
    pc,               \* where each thread is
    op,               \* what each thread is doing
    rect,             \* rect[t]: the region thread t is working on
    src,              \* src[t]: the buffer thread t is about to read
    frame,            \* frame[t]: the frame thread t is about to send
    turned,           \* history: handlers under way when rotation_store changed the mode
    stray,            \* history: why accesses went outside of their buffers, see Cause
    erased,           \* history: shadow pixels cleared or not copied since last drawn
    missed            \* history: panel pixels whose last update was given up

setupVars == <<setup, sleeps>>
drawVars == <<fb, drawn>>
modeVars == <<width, height, native_rotation, disable_partial>>
bufVars == <<data, shadow, black_live, stray, erased>>
flipVars == <<event, core_vblank, vblank_enabled, was_enabled>>
stateVars == <<blanked, pipe_on, suspended, is_idle>>
mailVars == <<slot, waiting, panel, missed>>
threadVars == <<pc, op, rect, src, frame, turned>>
vars == <<setup, fb, drawn, width, height, native_rotation, disable_partial,
          blanked, data, shadow, black_live, pipe_on, event, core_vblank,
          vblank_enabled, was_enabled, suspended, sleeps, is_idle, slot,
          waiting, panel, pc, op, rect, src, frame, turned, stray, erased, missed>>

Pixel == 0 .. W * H - 1
Colour == 0 .. setup.commits
Picture == [Pixel -> Colour]
AllBlack == [i \in Pixel |-> 0]

Cells(w, h) == (0 .. w - 1) \X (0 .. h - 1)
NoRect == [x |-> 0, y |-> 0, w |-> 0, h |-> 0]
NoFrame == [full |-> FALSE, fy |-> 0, at |-> NoRect, px |-> << >>]
WholePlane == [x1 |-> 0, y1 |-> 0, x2 |-> width, y2 |-> height]
WholeRect == [x |-> 0, y |-> 0, w |-> width, h |-> height]

IsRect(r) == r.x \in Nat /\ r.y \in Nat /\ r.w \in Nat /\ r.h \in Nat
IsFrame(f) ==
    \/ f = NoFrame
    \/ /\ f.full \in BOOLEAN /\ IsRect(f.at) /\ f.fy \in Nat
       /\ f.px \in [0 .. f.at.w * f.at.h - 1 -> Colour]

Op == {"none", "update", "enable", "disable", "wake", "rotate", "suspend",
       "resume"}

(* "race": the mode changed under the handler; "stale": a framebuffer of   *)
(* another mode is turned; "freed": wake_work reads pipe_disable's black   *)
(* buffer after it was freed; "other": anything else.                      *)
Cause == {"race", "stale", "freed", "other"}

TypeOK ==
    /\ setup \in Setups /\ sleeps \in 0 .. MaxSleeps
    /\ drawn \in Colour
    /\ <<fb.w, fb.h>> \in {<<W, H>>, <<H, W>>} /\ fb.px \in Picture
    /\ <<width, height>> \in {<<W, H>>, <<H, W>>}
    /\ native_rotation \in Rotation /\ disable_partial \in BOOLEAN
    /\ blanked \in BOOLEAN /\ pipe_on \in BOOLEAN /\ suspended \in BOOLEAN
    /\ is_idle \in BOOLEAN
    /\ data \in {"shadow", "black"} /\ black_live \in BOOLEAN
    /\ shadow \in Picture /\ panel \in Picture
    /\ event \in {"none", "state", "armed"}
    /\ core_vblank \in BOOLEAN /\ vblank_enabled \in BOOLEAN
    /\ was_enabled \in BOOLEAN
    /\ IsFrame(slot) /\ IsFrame(waiting)
    /\ pc \in [Thread -> {"out", "copy", "check", "clear", "request", "snap",
                          "offer", "finish"}]
    /\ op \in [Thread -> Op]
    /\ \A t \in Thread : IsFrame(frame[t])
    /\ src \in [Thread -> {"none", "shadow", "black"}]
    /\ turned \subseteq Thread /\ stray \subseteq Cause
    /\ erased \subseteq Pixel /\ missed \subseteq Pixel

-----------------------------------------------------------------------------
(* Rotation: mpro_drm.h, mpro_drm_color.c.                                 *)

rotation_swaps_dims(r) == r.angle \in {1, 3}

compose_rotation(base, extra) ==
    [angle |-> (base.angle + extra.angle) % 4,
     rx |-> base.rx # extra.rx, ry |-> base.ry # extra.ry]

(* plane_rotation: DRM's rotation property is not offered.                 *)
Effective == compose_rotation(native_rotation, Rotate0)

(* Mutation: the quarter turns go the other way round.                     *)
RotateDstCounter(r, w, h, x, y) ==
    CASE r.angle = 0 -> y * w + x
      [] r.angle = 1 -> (w - 1 - x) * h + y
      [] r.angle = 2 -> (h - 1 - y) * w + (w - 1 - x)
      [] r.angle = 3 -> x * h + (h - 1 - y)

(* mpro_drm__rotate_buffer: the place in dst for the loop's <<x, y>>, and  *)
(* the place in src it is taken from.                                      *)
RotateDst(r, w, h, x, y) ==
    CASE r.angle = 0 -> y * w + x
      [] r.angle = 1 -> x * h + (h - 1 - y)
      [] r.angle = 2 -> (h - 1 - y) * w + (w - 1 - x)
      [] r.angle = 3 -> (w - 1 - x) * h + y

RotateSrc(r, w, h, x, y) ==
    (IF r.ry THEN h - 1 - y ELSE y) * w + (IF r.rx THEN w - 1 - x ELSE x)

(* The init of the emulated display at the moment the compositor has set   *)
(* its first mode: probe, then pipe_enable with an all-black framebuffer.  *)
Init ==
    /\ setup \in Setups
    /\ native_rotation \in setup.turns
    /\ width = IF rotation_swaps_dims(native_rotation) THEN H ELSE W
    /\ height = IF rotation_swaps_dims(native_rotation) THEN W ELSE H
    /\ fb = [w |-> width, h |-> height, px |-> AllBlack]
    /\ drawn = 0 /\ sleeps = 0
    /\ disable_partial = ~setup.partial
    /\ blanked = FALSE /\ pipe_on = TRUE /\ suspended = FALSE
    /\ is_idle = FALSE
    /\ data = "shadow" /\ shadow = AllBlack /\ black_live = FALSE
    /\ event = "none" /\ core_vblank = FALSE
    /\ vblank_enabled = FALSE /\ was_enabled = FALSE
    /\ slot = NoFrame /\ waiting = NoFrame /\ panel = AllBlack
    /\ pc = [t \in Thread |-> "out"]
    /\ op = [t \in Thread |-> "none"]
    /\ rect = [t \in Thread |-> NoRect]
    /\ src = [t \in Thread |-> "none"]
    /\ frame = [t \in Thread |-> NoFrame]
    /\ turned = {} /\ stray = {} /\ erased = {} /\ missed = {}

At(t, l) == pc[t] = l
Resting == \A t \in Thread : At(t, "out")

(* System sleep freezes user space, hence commits and sysfs writes.        *)
MayStart(t) ==
    /\ At(t, "out")
    /\ t \in {"drm", "sysfs"} => ~suspended /\ At("power", "out")
    /\ t = "power" => At("drm", "out") /\ At("sysfs", "out")
    /\ setup.overlap \/ Resting

Goto(t, l) ==
    /\ pc' = [pc EXCEPT ![t] = l]
    /\ UNCHANGED <<op, src, frame, turned>>

Busy == {t \in Thread : ~At(t, "out")}

Begin(t, o, l, r) ==
    /\ op' = [op EXCEPT ![t] = o]
    /\ pc' = [pc EXCEPT ![t] = l]
    /\ rect' = [rect EXCEPT ![t] = r]
    /\ turned' = IF o = "rotate" THEN Busy ELSE turned
    /\ UNCHANGED <<src, frame>>

Return(t) ==
    /\ pc' = [pc EXCEPT ![t] = "out"]
    /\ op' = [op EXCEPT ![t] = "none"]
    /\ rect' = [rect EXCEPT ![t] = NoRect]
    /\ src' = [src EXCEPT ![t] = "none"]
    /\ frame' = [frame EXCEPT ![t] = NoFrame]
    /\ turned' = turned \ {t}

-----------------------------------------------------------------------------
(* mpro_drm__fb_mark_dirty and mpro_drm__copy_frame.                       *)

AsRect(c) == [x |-> c.x1, y |-> c.y1, w |-> c.x2 - c.x1, h |-> c.y2 - c.y1]

Least(a, b) == IF a < b THEN a ELSE b
Greatest(a, b) == IF a > b THEN a ELSE b

(* The clip of fb_mark_dirty, confined to the mode.                        *)
Safe(r) ==
    AsRect([x1 |-> Greatest(r.x, 0), y1 |-> Greatest(r.y, 0),
            x2 |-> Least(r.x + r.w, width), y2 |-> Least(r.y + r.h, height)])

clip_valid(r) == r.w > 0 /\ r.h > 0

(* Where copy_frame reads the clip's pixel <<i, j>> and where the loop of  *)
(* the conversion puts it: the shadow, or temp_buffer when it rotates.     *)
FbIndex(r, i, j) == (r.y + j) * fb.w + r.x + i
ShadowIndex(r, i, j) == (r.y + j) * width + r.x + i
TempIndex(i, j) == j * width + i
RotatedIndex(r, i, j) ==
    r.y * width + r.x + RotateDst(Effective, r.w, r.h, i, j)

(* The size given to kmalloc for temp_buffer, in pixels.                   *)
TempSize(r) == r.w * r.h

CopyFits(r) ==
    \A c \in Cells(r.w, r.h) :
        /\ FbIndex(r, c[1], c[2]) \in Pixel
        /\ IF Effective = Rotate0
             THEN ShadowIndex(r, c[1], c[2]) \in Pixel
             ELSE /\ TempIndex(c[1], c[2]) < TempSize(r)
                  /\ RotatedIndex(r, c[1], c[2]) \in Pixel

(* The shadow after the copy, given that it fits.                          *)
Copied(r) ==
    LET Temp(k) == fb.px[FbIndex(r, k % width, k \div width)]
        To(c) == IF Effective = Rotate0 THEN ShadowIndex(r, c[1], c[2])
                 ELSE RotatedIndex(r, c[1], c[2])
        From(c) == IF Effective = Rotate0
                   THEN fb.px[FbIndex(r, c[1], c[2])]
                   ELSE Temp(RotateSrc(Effective, r.w, r.h, c[1], c[2]))
    IN [i \in Pixel |-> IF \E c \in Cells(r.w, r.h) : To(c) = i
                        THEN From(CHOOSE c \in Cells(r.w, r.h) : To(c) = i)
                        ELSE shadow[i]]

CopyTargets(r) ==
    IF Effective = Rotate0
      THEN {ShadowIndex(r, c[1], c[2]) : c \in Cells(r.w, r.h)}
      ELSE {RotatedIndex(r, c[1], c[2]) : c \in Cells(r.w, r.h)}

(* The place in the buffer of the k-th pixel of a frame: the rows of the   *)
(* region one after another, through a bounce buffer unless they are       *)
(* contiguous because the region has the full width.                       *)
FrameIndex(r, k) == (r.y + k \div r.w) * width + r.x + (k % r.w)

Region(r) == {FrameIndex(r, k) : k \in 0 .. r.w * r.h - 1}

FbFits == fb.w = width /\ fb.h = height

(* Why a copy that does not fit does not.                                  *)
CopyCause(t) ==
    IF t \in turned THEN "race"
    ELSE IF ~FbFits /\ Effective # Rotate0 THEN "stale"
    ELSE "other"

(* An empty clip ends fb_mark_dirty; a copy out of bounds spoils memory,   *)
(* which is recorded and not followed any further.                         *)
FbMarkDirty(t) ==
    /\ At(t, "copy")
    /\ LET r == Safe(rect[t]) IN
         \/ /\ ~clip_valid(r)
            /\ Goto(t, "finish")
            /\ UNCHANGED <<rect, stray, shadow, erased>>
         \/ /\ clip_valid(r)
            /\ rect' = [rect EXCEPT ![t] = r]
            /\ Goto(t, "request")
            /\ IF CopyFits(r)
                 THEN /\ shadow' = Copied(r) /\ erased' = erased \ CopyTargets(r)
                      /\ UNCHANGED stray
                 ELSE /\ stray' = stray \cup {CopyCause(t)}
                      /\ UNCHANGED <<shadow, erased>>
         \/ /\ clip_valid(r)                        \* no memory for temp_buffer
            /\ setup.scarce /\ Effective # Rotate0
            /\ Goto(t, "finish")
            /\ erased' = erased \cup (Region(r) \cap Pixel)
            /\ UNCHANGED <<rect, stray, shadow>>
    /\ UNCHANGED <<setupVars, drawVars, modeVars, data, black_live, flipVars,
                   stateVars, mailVars>>

-----------------------------------------------------------------------------
(* mpro_drm__request_update and, below it, mpro_send_*_frame.              *)

Forced(t) == op[t] \in {"disable", "wake"}

(* The early return when blanked, the widening of disable_partial, and the *)
(* pointer that is handed to the pipeline.                                 *)
RequestUpdate(t) ==
    /\ At(t, "request")
    /\ IF blanked /\ ~Forced(t)
         THEN pc' = [pc EXCEPT ![t] = "finish"] /\ UNCHANGED <<rect, src>>
         ELSE /\ pc' = [pc EXCEPT ![t] = "snap"]
              /\ rect' = [rect EXCEPT ![t] = IF disable_partial THEN WholeRect ELSE @]
              /\ src' = [src EXCEPT ![t] = data]
    /\ UNCHANGED <<setupVars, drawVars, modeVars, bufVars, flipVars, stateVars,
                   mailVars, op, frame, turned>>

Contents(b) == IF b = "shadow" THEN shadow ELSE AllBlack

(* The device counts rows from the bottom.                                 *)
FlippedY(r) == H - 1 - (r.y + r.h)

IsFull(r) == r = WholeRect

(* Mutation: the row is not looked at.                                     *)
RejectedNever(r) == FALSE

(* mpro_send_partial_frame: if (fy < 0) return -EINVAL.                    *)
Rejected(r) == ~IsFull(r) /\ FlippedY(r) < 0

Pixels(r, buf) ==
    [k \in 0 .. r.w * r.h - 1 |->
        IF FrameIndex(r, k) \in Pixel THEN buf[FrameIndex(r, k)] ELSE 0]

(* A region of full width is handed on in place, any other is copied to a  *)
(* bounce buffer before its row is looked at.                              *)
Reads(r) == IF Rejected(r) /\ r.x = 0 /\ r.w = width THEN {} ELSE Region(r)

(* What the thread's read of the buffer does wrong, if anything.           *)
ReadCauses(t) ==
    LET outside == ~(Reads(rect[t]) \subseteq Pixel)
        freed == src[t] = "black" /\ ~black_live /\ Reads(rect[t]) # {}
    IN (IF outside THEN {IF t \in turned THEN "race" ELSE "other"} ELSE {})
         \cup (IF freed THEN {IF t = "wake" THEN "freed" ELSE "other"} ELSE {})

(* The pixels are copied into an xfer.  Without memory for the bounce      *)
(* buffer or the xfer nothing is read or sent; mpro_send_partial_frame     *)
(* rejects a region whose flipped row is negative.                         *)
SendFrame(t) ==
    /\ At(t, "snap")
    /\ LET r == rect[t] IN
         \/ /\ setup.scarce
            /\ Goto(t, "finish")
            /\ missed' = missed \cup (Region(r) \cap Pixel)
            /\ UNCHANGED stray
         \/ /\ Rejected(r)
            /\ Goto(t, "finish")
            /\ missed' = missed \cup (Region(r) \cap Pixel)
            /\ stray' = stray \cup ReadCauses(t)
         \/ /\ ~Rejected(r)
            /\ pc' = [pc EXCEPT ![t] = "offer"]
            /\ frame' = [frame EXCEPT ![t] =
                 [full |-> IsFull(r), at |-> r,
                  fy |-> IF IsFull(r) THEN 0 ELSE FlippedY(r),
                  px |-> Pixels(r, Contents(src[t]))]]
            /\ stray' = stray \cup ReadCauses(t)
            /\ UNCHANGED <<op, src, turned, missed>>
    /\ UNCHANGED <<setupVars, drawVars, modeVars, data, shadow, black_live,
                   erased, flipVars, stateVars, slot, waiting, panel, rect>>

(* Where the panel puts the k-th pixel of a frame.                         *)
PanelIndex(f, k) ==
    IF f.full THEN k
    ELSE (H - 1 - f.fy - f.at.h + k \div f.at.w) * W + f.at.x + (k % f.at.w)

FrameCells(f) == 0 .. f.at.w * f.at.h - 1
Shows(f) == Pixel \cap {PanelIndex(f, k) : k \in FrameCells(f)}

(* mpro_send_xfer: dropped when idle, sent when nothing is in flight, or   *)
(* left waiting in the place of the frame that waited so far.              *)
Offer(t) ==
    /\ At(t, "offer")
    /\ CASE is_idle -> UNCHANGED <<slot, waiting, missed>>
         [] ~is_idle /\ slot = NoFrame ->
              /\ slot' = frame[t]
              /\ missed' = missed \ Shows(frame[t])
              /\ UNCHANGED waiting
         [] ~is_idle /\ slot # NoFrame ->
              /\ waiting' = frame[t]
              /\ missed' = (missed \cup Shows(waiting)) \ Shows(frame[t])
              /\ UNCHANGED slot
    /\ Goto(t, "finish")
    /\ UNCHANGED <<setupVars, drawVars, modeVars, bufVars, flipVars, stateVars,
                   panel, rect>>

(* The transfer ends and complete_work starts the next one.                *)
Deliver ==
    /\ slot # NoFrame
    /\ panel' = [i \in Pixel |->
          IF i \in Shows(slot)
            THEN slot.px[CHOOSE k \in FrameCells(slot) : PanelIndex(slot, k) = i]
            ELSE panel[i]]
    /\ slot' = waiting
    /\ waiting' = NoFrame
    /\ UNCHANGED <<setupVars, drawVars, modeVars, bufVars, flipVars, stateVars,
                   missed, threadVars>>

-----------------------------------------------------------------------------
(* DRM commits.  The core serialises them and starts one only when the     *)
(* page flip of the one before has completed.                              *)

MayCommit == MayStart("drm") /\ event = "none"

(* DRM clips the damage to the framebuffer.                                *)
InFb(c) == c.x1 >= 0 /\ c.y1 >= 0 /\ c.x2 <= fb.w /\ c.y2 <= fb.h

(* The compositor draws into the clip c of its framebuffer.                *)
Draw(c) ==
    /\ drawn < setup.commits
    /\ drawn' = drawn + 1
    /\ fb' = [fb EXCEPT !.px = [i \in Pixel |->
                IF i % fb.w \in c.x1 .. c.x2 - 1 /\ i \div fb.w \in c.y1 .. c.y2 - 1
                THEN drawn' ELSE @[i]]]

(* Mutation: the clip is used as it is when the picture is rotated.        *)
UpdateClipAsIs(c) == AsRect(c)

(* The bounding box of the damage, or everything when there is a rotation. *)
UpdateClip(c) == AsRect(IF Effective = Rotate0 THEN c ELSE WholePlane)

(* mpro_drm__pipe_update up to fb_mark_dirty.                              *)
PipeUpdate ==
    /\ MayCommit /\ pipe_on
    /\ FbFits \/ setup.stale
    /\ event' = "state"
    /\ \E c \in setup.damage :
         InFb(c) /\ Draw(c) /\ Begin("drm", "update", "copy", UpdateClip(c))
    /\ UNCHANGED <<setupVars, modeVars, bufVars, core_vblank, vblank_enabled,
                   was_enabled, stateVars, mailVars>>

(* The same for a commit without damage.                                   *)
PipeUpdateNoDamage ==
    /\ MayCommit /\ pipe_on
    /\ event' = "state"
    /\ Begin("drm", "update", "finish", NoRect)
    /\ UNCHANGED <<setupVars, drawVars, modeVars, bufVars, core_vblank,
                   vblank_enabled, was_enabled, stateVars, mailVars>>

(* mpro_drm__arm_pageflip.  drm_crtc_vblank_get calls enable_vblank when   *)
(* vblank is off, and the event is sent at once when it fails.             *)
FinishUpdate ==
    /\ At("drm", "finish") /\ op["drm"] = "update"
    /\ \/ /\ event' = "armed"
          /\ core_vblank' = TRUE
          /\ vblank_enabled' = (vblank_enabled \/ ~core_vblank)
       \/ /\ event' = "none"
          /\ UNCHANGED <<core_vblank, vblank_enabled>>
    /\ Return("drm")
    /\ UNCHANGED <<setupVars, drawVars, modeVars, bufVars, was_enabled,
                   stateVars, mailVars>>

(* mpro_drm__pipe_disable until the black frame is pushed; without memory  *)
(* for it the panel keeps its picture.                                     *)
PipeDisable ==
    /\ MayCommit /\ pipe_on
    /\ event' = "state"
    /\ blanked' = TRUE
    /\ \/ /\ data' = "black" /\ black_live' = TRUE
          /\ Begin("drm", "disable", "request", WholeRect)
       \/ /\ setup.scarce
          /\ UNCHANGED <<data, black_live>>
          /\ Begin("drm", "disable", "finish", NoRect)
    /\ UNCHANGED <<setupVars, drawVars, modeVars, shadow, stray, erased,
                   core_vblank, vblank_enabled, was_enabled, pipe_on,
                   suspended, is_idle, mailVars>>

(* The rest of it: the shadow comes back, black is freed, the event is     *)
(* sent and drm_crtc_vblank_off stops the timer.                           *)
FinishDisable ==
    /\ At("drm", "finish") /\ op["drm"] = "disable"
    /\ data' = "shadow" /\ black_live' = FALSE
    /\ event' = "none" /\ core_vblank' = FALSE /\ vblank_enabled' = FALSE
    /\ pipe_on' = FALSE
    /\ Return("drm")
    /\ UNCHANGED <<setupVars, drawVars, modeVars, shadow, stray, erased,
                   was_enabled, blanked, suspended, is_idle, mailVars>>

(* mpro_drm__pipe_enable.  mpro_active_get ends the idle state (its own    *)
(* repaint finds the pipe still blanked); the whole framebuffer is copied. *)
(* A compositor that follows the mode brings a framebuffer of its size.    *)
PipeEnable ==
    /\ MayCommit /\ ~pipe_on
    /\ event' = "state"
    /\ is_idle' = FALSE /\ blanked' = FALSE /\ pipe_on' = TRUE
    /\ \/ /\ FbFits \/ setup.stale
          /\ UNCHANGED drawVars
       \/ /\ ~FbFits /\ drawn < setup.commits
          /\ drawn' = drawn + 1
          /\ fb' = [w |-> width, h |-> height, px |-> [i \in Pixel |-> drawn']]
    /\ Begin("drm", "enable", "copy", [x |-> 0, y |-> 0, w |-> fb'.w, h |-> fb'.h])
    /\ UNCHANGED <<setupVars, modeVars, bufVars, core_vblank, vblank_enabled,
                   was_enabled, suspended, mailVars>>

FinishEnable ==
    /\ At("drm", "finish") /\ op["drm"] = "enable"
    /\ event' = "none"
    /\ Return("drm")
    /\ UNCHANGED <<setupVars, drawVars, modeVars, bufVars, core_vblank,
                   vblank_enabled, was_enabled, stateVars, mailVars>>

-----------------------------------------------------------------------------
(* The emulated vblank.                                                    *)

(* mpro_drm__vblank_timer: drm_crtc_handle_vblank sends the armed event.   *)
VblankTimer ==
    /\ vblank_enabled
    /\ core_vblank /\ event = "armed"
    /\ event' = "none"
    /\ UNCHANGED <<setupVars, drawVars, modeVars, bufVars, core_vblank,
                   vblank_enabled, was_enabled, stateVars, mailVars, threadVars>>

(* disable_vblank: the core does without vblank when no event waits for it. *)
DisableVblank ==
    /\ core_vblank /\ event # "armed"
    /\ core_vblank' = FALSE /\ vblank_enabled' = FALSE
    /\ UNCHANGED <<setupVars, drawVars, modeVars, bufVars, event, was_enabled,
                   stateVars, mailVars, threadVars>>

-----------------------------------------------------------------------------
(* Idle and wake as the DRM driver sees them.                              *)

(* mpro_idle_work: its black frame comes after is_idle and is dropped.     *)
Idle ==
    /\ "wake" \in setup.actors
    /\ ~is_idle
    /\ is_idle' = TRUE
    /\ UNCHANGED <<setupVars, drawVars, modeVars, bufVars, flipVars, blanked,
                   pipe_on, suspended, mailVars, threadVars>>

(* mpro_wake_work up to the notification of the DRM listener.              *)
Wake ==
    /\ "wake" \in setup.actors
    /\ MayStart("wake")
    /\ is_idle
    /\ is_idle' = FALSE
    /\ Begin("wake", "wake", "check", NoRect)
    /\ UNCHANGED <<setupVars, drawVars, modeVars, bufVars, flipVars, blanked,
                   pipe_on, suspended, mailVars>>

(* mpro_drm__screen_wake.                                                  *)
ScreenWake ==
    /\ At("wake", "check")
    /\ IF blanked
         THEN Goto("wake", "finish") /\ UNCHANGED rect
         ELSE Goto("wake", "request") /\ rect' = [rect EXCEPT !["wake"] = WholeRect]
    /\ UNCHANGED <<setupVars, drawVars, modeVars, bufVars, flipVars, stateVars,
                   mailVars>>

(* The rest of wake_work is in MproPm.                                     *)
FinishWake ==
    /\ At("wake", "finish")
    /\ Return("wake")
    /\ UNCHANGED <<setupVars, drawVars, modeVars, bufVars, flipVars, stateVars,
                   mailVars>>

-----------------------------------------------------------------------------
(* sysfs.                                                                  *)

(* mpro_drm__apply_rotation until the shadow is cleared.                   *)
RotationStore ==
    /\ "sysfs" \in setup.actors
    /\ MayStart("sysfs")
    /\ \E r \in setup.turns \ {native_rotation} :
         /\ native_rotation' = r
         /\ width' = IF rotation_swaps_dims(r) THEN H ELSE W
         /\ height' = IF rotation_swaps_dims(r) THEN W ELSE H
    /\ Begin("sysfs", "rotate", "clear", NoRect)
    /\ UNCHANGED <<setupVars, drawVars, disable_partial, bufVars, flipVars,
                   stateVars, mailVars>>

(* memset(mdrm->data, 0, mdrm->data_size).                                 *)
ClearData ==
    /\ shadow' = IF data = "shadow" THEN AllBlack ELSE shadow
    /\ erased' = IF data = "shadow" THEN Pixel ELSE erased

RotationClear ==
    /\ At("sysfs", "clear")
    /\ ClearData
    /\ rect' = [rect EXCEPT !["sysfs"] = WholeRect]
    /\ Goto("sysfs", "request")
    /\ UNCHANGED <<setupVars, drawVars, modeVars, data, black_live, stray,
                   flipVars, stateVars, mailVars>>

(* drm_kms_helper_hotplug_event: the compositor is told of the new mode.   *)
FinishRotation ==
    /\ At("sysfs", "finish")
    /\ Return("sysfs")
    /\ UNCHANGED <<setupVars, drawVars, modeVars, bufVars, flipVars, stateVars,
                   mailVars>>

DisablePartialStore ==
    /\ "sysfs" \in setup.actors /\ setup.partial
    /\ MayStart("sysfs")
    /\ disable_partial' = ~disable_partial
    /\ UNCHANGED <<setupVars, drawVars, width, height, native_rotation,
                   bufVars, flipVars, stateVars, mailVars, threadVars>>

-----------------------------------------------------------------------------
(* System sleep.                                                           *)

(* Mutation: suspend forgets to remember that vblank was on.               *)
SuspendForgetsVblank ==
    /\ "power" \in setup.actors
    /\ MayStart("power")
    /\ ~suspended /\ sleeps < MaxSleeps
    /\ sleeps' = sleeps + 1
    /\ vblank_enabled' = FALSE
    /\ ClearData
    /\ Begin("power", "suspend", "request", WholeRect)
    /\ UNCHANGED <<setup, drawVars, modeVars, data, black_live, stray,
                   event, core_vblank, was_enabled, stateVars, mailVars>>

(* mpro_drm__suspend.                                                      *)
Suspend ==
    /\ "power" \in setup.actors
    /\ MayStart("power")
    /\ ~suspended /\ sleeps < MaxSleeps
    /\ sleeps' = sleeps + 1
    /\ was_enabled' = vblank_enabled
    /\ vblank_enabled' = FALSE
    /\ ClearData
    /\ Begin("power", "suspend", "request", WholeRect)
    /\ UNCHANGED <<setup, drawVars, modeVars, data, black_live, stray,
                   event, core_vblank, stateVars, mailVars>>

FinishSuspend ==
    /\ At("power", "finish") /\ op["power"] = "suspend"
    /\ suspended' = TRUE
    /\ Return("power")
    /\ UNCHANGED <<setupVars, drawVars, modeVars, bufVars, flipVars, blanked,
                   pipe_on, is_idle, mailVars>>

(* mpro_drm__resume.                                                       *)
Resume ==
    /\ MayStart("power")
    /\ suspended
    /\ suspended' = FALSE
    /\ Begin("power", "resume", "request", WholeRect)
    /\ UNCHANGED <<setupVars, drawVars, modeVars, bufVars, flipVars, blanked,
                   pipe_on, is_idle, mailVars>>

FinishResume ==
    /\ At("power", "finish") /\ op["power"] = "resume"
    /\ vblank_enabled' = (vblank_enabled \/ was_enabled)
    /\ Return("power")
    /\ UNCHANGED <<setupVars, drawVars, modeVars, bufVars, event, core_vblank,
                   was_enabled, stateVars, mailVars>>

-----------------------------------------------------------------------------
(* What a thread that is inside a handler does next.                       *)
Step(t) ==
    \/ FbMarkDirty(t) \/ RequestUpdate(t) \/ SendFrame(t) \/ Offer(t)
    \/ t = "drm" /\ (FinishUpdate \/ FinishDisable \/ FinishEnable)
    \/ t = "wake" /\ (ScreenWake \/ FinishWake)
    \/ t = "sysfs" /\ (RotationClear \/ FinishRotation)
    \/ t = "power" /\ (FinishSuspend \/ FinishResume)

Next ==
    \/ \E t \in Thread : Step(t)
    \/ Deliver
    \/ PipeUpdate \/ PipeUpdateNoDamage \/ PipeDisable \/ PipeEnable
    \/ VblankTimer \/ DisableVblank
    \/ Idle \/ Wake
    \/ RotationStore \/ DisablePartialStore
    \/ Suspend \/ Resume

Spec == Init /\ [][Next]_vars

(* A handler that has begun ends, the vblank timer keeps ticking and a     *)
(* sleeping machine is woken up again.                                     *)
FairSpec ==
    /\ Spec
    /\ \A t \in Thread : WF_vars(Step(t))
    /\ WF_vars(VblankTimer) /\ WF_vars(Resume)

-----------------------------------------------------------------------------
(* Properties.                                                             *)

(* Nobody is inside a handler and every frame has been sent.               *)
Quiet == Resting /\ slot = NoFrame

(* The panel is meant to show the compositor's picture.                    *)
Lit == pipe_on /\ ~is_idle /\ ~suspended

(* Where a pixel of a w x h picture lies after a quarter turn clockwise.   *)
QuarterTurn(p) == [w |-> p.h, h |-> p.w, x |-> p.h - 1 - p.y, y |-> p.x]

(* The place on the panel of the framebuffer's pixel <<x, y>>: mirrored    *)
(* first, then turned by as many quarters as the rotation has.             *)
PlaceOf(x, y) ==
    LET r == native_rotation
        p0 == [w |-> fb.w, h |-> fb.h,
               x |-> IF r.rx THEN fb.w - 1 - x ELSE x,
               y |-> IF r.ry THEN fb.h - 1 - y ELSE y]
        p == CASE r.angle = 0 -> p0
               [] r.angle = 1 -> QuarterTurn(p0)
               [] r.angle = 2 -> QuarterTurn(QuarterTurn(p0))
               [] r.angle = 3 -> QuarterTurn(QuarterTurn(QuarterTurn(p0)))
    IN p.y * p.w + p.x

(* The panel, once it is quiet, shows the framebuffer, mirrored and turned *)
(* as rotation says, except where the shadow was cleared or not copied and *)
(* where an update of the panel was given up.                              *)
PictureShown ==
    Quiet /\ Lit /\ FbFits =>
        \A c \in Cells(fb.w, fb.h) :
            PlaceOf(c[1], c[2]) \in erased \cup missed
              \/ panel[PlaceOf(c[1], c[2])] = fb.px[c[2] * fb.w + c[1]]

(* It does after any sequence of commits, modesets, idle periods,          *)
(* rotations and sleeps whose handlers do not overlap.  Pixels are         *)
(* excepted that a sleep or a new rotation cleared, that a copy without    *)
(* memory did not reach, and whose update was rejected by                  *)
(* mpro_send_partial_frame, had no memory, or was displaced while it       *)
(* waited.                                                                 *)
PanelShowsFramebuffer == ~setup.overlap /\ ~setup.stale => PictureShown

(* What the comment in mpro_drm__screen_wake says: the last rendered frame *)
(* is pushed again, also while a commit renders a new one.                 *)
PictureShownInOverlap == ~setup.stale => PictureShown

(* Every access of copy_frame and request_update lies in the framebuffer,  *)
(* in temp_buffer or in a live shadow or black buffer, with three          *)
(* exceptions.  A rotation store changed the mode while the handler was    *)
(* under way; a framebuffer that does not have the size of the mode, which *)
(* the compositor has not followed yet, is turned; and wake_work sends     *)
(* pipe_disable's black buffer after it was freed.                         *)
CopyInBounds == "other" \notin stray

(* What the comment in mpro_drm__pipe_update says: buffer size and         *)
(* coordinates stay consistent, whatever framebuffer is drawn, ...         *)
NoStaleCopy == "stale" \notin stray

(* ... and whenever rotation_store changes the mode.                       *)
NoRacedCopy == "race" \notin stray

(* What the comment in mpro_drm__screen_wake says: what is pushed is the   *)
(* last rendered frame.                                                    *)
NoFreedRead == "freed" \notin stray

(* Every page flip completes, through vblank or at once, also when the     *)
(* machine goes to sleep while its event is armed.                         *)
FlipsComplete == event # "none" ~> event = "none"
=============================================================================
