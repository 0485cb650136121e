-------------------------- MODULE MproTouchProofs --------------------------
(***************************************************************************)
(* Theorems about the touch URB and the touchscreen child (MproTouch), for *)
(* every number of slots and every environment.                            *)
(***************************************************************************)
EXTENDS MproTouch, TLAPS

-----------------------------------------------------------------------------
(* Types, and the count of urb->reject.                                    *)

Label == {"out", "off", "resync", "start", "submit", "stop", "kill",
          "killing", "killed", "timer", "release"}

FlagsOK ==
    /\ opened \in BOOLEAN /\ screen_on \in BOOLEAN /\ touch_wake \in BOOLEAN
    /\ submitted \in BOOLEAN /\ linked \in BOOLEAN /\ enabled \in BOOLEAN
    /\ active \in BOOLEAN /\ omitted \in BOOLEAN
    /\ any_active \in BOOLEAN /\ watchdog \in BOOLEAN

StagesOK ==
    /\ hpc \in {"out", "watchdog", "check", "resubmit"}
    /\ tpc \in {"out", "clear"}
    /\ rm \in {"up", "unlistened", "unscreened", "stopped", "unregistered",
               "freed"}
    /\ down \subseteq Slot

(* A thread holds one count of urb->reject while it waits in usb_kill_urb. *)
Killing(t) == IF At(t, "killing") THEN 1 ELSE 0

RejectInv ==
    /\ pc \in [Thread -> Label]
    /\ rejects = Killing("input") + Killing("screen") + Killing("remove")

(* No step changes the environment.                                        *)
LEMMA SetupFixed == [Next]_vars => setup' = setup
<1> SUFFICES ASSUME [Next]_vars PROVE setup' = setup
  OBVIOUS
<1> USE DEF gateVars
<1>1. ASSUME NEW t \in Thread, ThreadStep(t) PROVE setup' = setup
  BY <1>1 DEF ThreadStep, Resync, Start, StartSubmit, Stop, StopKill,
              StopKilled, StopClear
<1>2. CASE InputOpen \/ InputClose \/ CloseStep \/ ScreenOff \/ ScreenOffSet
           \/ ScreenOn
  BY <1>2 DEF InputOpen, InputClose, CloseStep, CloseTimer, CloseRelease,
              ScreenOff, ScreenOffSet, ScreenOn
<1>3. CASE HandlerStep \/ TimerStep
  BY <1>3 DEF HandlerStep, UrbPacket, UrbNoPacket, UrbFatal, HandleWatchdog,
              HandleCheck, HandleResubmit, TimerStep, TimerFire, TimerClear
<1>4. CASE UsbDisableEndpoint \/ RemoveTouchListener \/ RemoveStep
  BY <1>4 DEF UsbDisableEndpoint, RemoveTouchListener, RemoveStep,
              RemoveScreenListener, RemoveStop, InputUnregister, Free
<1>5. CASE UNCHANGED vars
  BY <1>5 DEF vars
<1> QED
  BY <1>1, <1>2, <1>3, <1>4, <1>5 DEF Next

(* No step gives a flag a value of another type.                           *)
LEMMA FlagStep == FlagsOK /\ [Next]_vars => FlagsOK'
<1> SUFFICES ASSUME FlagsOK, [Next]_vars PROVE FlagsOK'
  OBVIOUS
<1> USE DEF FlagsOK, gateVars, urbVars, handlerVars, fingerVars
<1>1. ASSUME NEW t \in Thread, ThreadStep(t) PROVE FlagsOK'
  <2>1. CASE Resync(t)
    BY <2>1, Zenon DEF Resync
  <2>2. CASE Start(t)
    BY <2>2, Zenon DEF Start
  <2>3. CASE StartSubmit(t)
    BY <2>3, Zenon DEF StartSubmit, UsbSubmit
  <2>4. CASE Stop(t)
    BY <2>4, Zenon DEF Stop
  <2>5. CASE StopKill(t)
    BY <2>5, Zenon DEF StopKill
  <2>6. CASE StopKilled(t)
    BY <2>6, Zenon DEF StopKilled
  <2>7. CASE StopClear(t)
    BY <2>7, Zenon DEF StopClear
  <2> QED
    BY <1>1, <2>1, <2>2, <2>3, <2>4, <2>5, <2>6, <2>7 DEF ThreadStep
<1>2. CASE InputOpen
  BY <1>2, Zenon DEF InputOpen
<1>3. CASE InputClose
  BY <1>3, Zenon DEF InputClose
<1>4. CASE CloseTimer
  BY <1>4, Zenon DEF CloseTimer
<1>5. CASE CloseRelease
  BY <1>5, Zenon DEF CloseRelease
<1>6. CASE ScreenOff
  BY <1>6, Zenon DEF ScreenOff
<1>7. CASE ScreenOffSet
  BY <1>7, Zenon DEF ScreenOffSet
<1>8. CASE ScreenOn
  BY <1>8, Zenon DEF ScreenOn
<1>9. CASE UrbPacket
  BY <1>9, Zenon DEF UrbPacket
<1>10. CASE UrbNoPacket
  BY <1>10, Zenon DEF UrbNoPacket
<1>11. CASE UrbFatal
  BY <1>11, Zenon DEF UrbFatal
<1>12. CASE HandleWatchdog
  BY <1>12, Zenon DEF HandleWatchdog
<1>13. CASE HandleCheck
  BY <1>13, Zenon DEF HandleCheck
<1>14. CASE HandleResubmit
  BY <1>14, Zenon DEF HandleResubmit, UsbSubmit
<1>15. CASE TimerFire
  BY <1>15, Zenon DEF TimerFire
<1>16. CASE TimerClear
  BY <1>16, Zenon DEF TimerClear
<1>17. CASE UsbDisableEndpoint
  BY <1>17, Zenon DEF UsbDisableEndpoint
<1>18. CASE RemoveTouchListener
  BY <1>18, Zenon DEF RemoveTouchListener
<1>19. CASE RemoveScreenListener
  BY <1>19, Zenon DEF RemoveScreenListener
<1>20. CASE RemoveStop
  BY <1>20, Zenon DEF RemoveStop
<1>21. CASE InputUnregister
  BY <1>21, Zenon DEF InputUnregister
<1>22. CASE Free
  BY <1>22, Zenon DEF Free
<1>23. CASE UNCHANGED vars
  BY <1>23, Zenon DEF vars
<1> QED
  BY <1>1, <1>2, <1>3, <1>4, <1>5, <1>6, <1>7, <1>8, <1>9, <1>10, <1>11,
     <1>12, <1>13, <1>14, <1>15, <1>16, <1>17, <1>18, <1>19, <1>20, <1>21,
     <1>22, <1>23
     DEF Next, CloseStep, HandlerStep, TimerStep, RemoveStep

(* mpro_ts__handle_packet reports slots below MPRO_TOUCH_MAX_SLOTS only,   *)
(* as it skips every other slot id.                                        *)
LEMMA StageStep == StagesOK /\ [Next]_vars => StagesOK'
<1> SUFFICES ASSUME StagesOK, [Next]_vars PROVE StagesOK'
  OBVIOUS
<1> USE DEF StagesOK, handlerVars, fingerVars
<1>1. ASSUME NEW t \in Thread, ThreadStep(t) PROVE StagesOK'
  BY <1>1 DEF ThreadStep, Resync, Start, StartSubmit, Stop, StopKill,
              StopKilled, StopClear
<1>2. CASE InputOpen \/ InputClose \/ CloseStep \/ ScreenOff \/ ScreenOffSet
           \/ ScreenOn
  BY <1>2 DEF InputOpen, InputClose, CloseStep, CloseTimer, CloseRelease,
              ScreenOff, ScreenOffSet, ScreenOn
<1>3. CASE UrbPacket
  <2>1. \A p \in Point, f \in SUBSET Slot : Report(f, p) \in SUBSET Slot
    BY DEF Point, Report
  <2>2. down' \subseteq Slot
    BY <1>3, <2>1 DEF UrbPacket
  <2> QED
    BY <1>3, <2>2 DEF UrbPacket
<1>4. CASE UrbNoPacket \/ UrbFatal \/ HandleWatchdog \/ HandleCheck
           \/ HandleResubmit \/ TimerStep
  BY <1>4 DEF UrbNoPacket, UrbFatal, HandleWatchdog, HandleCheck,
              HandleResubmit, TimerStep, TimerFire, TimerClear
<1>5. CASE UsbDisableEndpoint \/ RemoveTouchListener \/ RemoveStep
  BY <1>5 DEF UsbDisableEndpoint, RemoveTouchListener, RemoveStep,
              RemoveScreenListener, RemoveStop, InputUnregister, Free
<1>6. CASE UNCHANGED vars
  BY <1>6 DEF vars
<1> QED
  BY <1>1, <1>2, <1>3, <1>4, <1>5, <1>6 DEF Next, HandlerStep

(* A thread that neither enters nor leaves usb_kill_urb.                   *)
LEMMA RejectMove ==
    ASSUME RejectInv, NEW t \in Thread, NEW l \in Label \ {"killing"},
           ~At(t, "killing"), Goto(t, l), UNCHANGED rejects
    PROVE  RejectInv'
BY DEF RejectInv, Killing, Goto, At, Thread

(* Each usb_kill_urb counts urb->reject up and down once, also when close, *)
(* screen_off and the removal stop the URB at the same time.               *)
LEMMA RejectStep == RejectInv /\ [Next]_vars => RejectInv'
<1> SUFFICES ASSUME RejectInv, [Next]_vars PROVE RejectInv'
  OBVIOUS
<1> USE DEF urbVars
<1>0. ASSUME UNCHANGED <<pc, rejects>> PROVE RejectInv'
  BY <1>0 DEF RejectInv, Killing, At
<1>1. \A t \in Thread, l \in Label \ {"killing"} :
          ~At(t, "killing") /\ Goto(t, l) /\ UNCHANGED rejects => RejectInv'
  BY RejectMove
<1>2. ASSUME NEW t \in Thread, ThreadStep(t) PROVE RejectInv'
  <2>1. CASE StopKill(t)
    BY <2>1 DEF StopKill, RejectInv, Killing, Goto, At, Thread, Label
  <2>2. CASE StopKilled(t)
    BY <2>2 DEF StopKilled, RejectInv, Killing, Goto, At, Thread, Label
  <2>3. CASE Resync(t) \/ Start(t) \/ StartSubmit(t) \/ Stop(t) \/ StopClear(t)
    BY <1>1, <2>3 DEF Resync, Start, StartSubmit, Stop, StopClear, Return,
                      Label, At
  <2> QED
    BY <1>2, <2>1, <2>2, <2>3 DEF ThreadStep
<1>3. CASE InputOpen \/ InputClose \/ CloseStep
  BY <1>1, <1>3 DEF InputOpen, InputClose, CloseStep, CloseTimer,
              CloseRelease, MayEnter, Thread, Label, At
<1>4. CASE ScreenOff \/ ScreenOffSet \/ ScreenOn
  BY <1>1, <1>4 DEF ScreenOff, ScreenOffSet, ScreenOn, MayEnter, Thread,
                    Label, At
<1>5. CASE HandlerStep \/ TimerStep \/ UsbDisableEndpoint
  BY <1>0, <1>5 DEF HandlerStep, UrbPacket, UrbNoPacket, UrbFatal,
                    HandleWatchdog, HandleCheck, HandleResubmit, TimerStep,
                    TimerFire, TimerClear, UsbDisableEndpoint
<1>6. CASE RemoveTouchListener \/ RemoveScreenListener \/ Free
  BY <1>0, <1>6 DEF RemoveTouchListener, RemoveScreenListener, Free
<1>7. CASE RemoveStop \/ InputUnregister
  BY <1>1, <1>7 DEF RemoveStop, InputUnregister, MayEnter, Thread, Label, At
<1>8. CASE UNCHANGED vars
  BY <1>0, <1>8 DEF vars
<1> QED
  BY <1>2, <1>3, <1>4, <1>5, <1>6, <1>7, <1>8 DEF Next, RemoveStep

(* The type invariant with what makes it inductive.                        *)
TouchTyped == setup \in SetupType /\ FlagsOK /\ StagesOK /\ RejectInv

(* mpro_touch_init and mpro_ts__probe.                                     *)
LEMMA TypedInit == Init => TouchTyped
<1> SUFFICES ASSUME Init PROVE TouchTyped
  OBVIOUS
<1>1. setup \in SetupType
  BY SetupAssumption DEF Init
<1>2. FlagsOK
  BY Zenon DEF Init, FlagsOK
<1>3. StagesOK
  BY DEF Init, StagesOK
<1>4. RejectInv
  BY DEF Init, RejectInv, Killing, At, Thread, Label
<1> QED
  BY <1>1, <1>2, <1>3, <1>4 DEF TouchTyped

(* Every part of it holds over every step.                                 *)
LEMMA TypedStep == TouchTyped /\ [Next]_vars => TouchTyped'
BY SetupFixed, FlagStep, StageStep, RejectStep DEF TouchTyped

(* Type correctness: urb->reject never goes below zero, and no slot id     *)
(* that the input device lacks is ever reported.                           *)
THEOREM TouchTypeTheorem == Spec => []TypeOK
<1>1. TouchTyped => TypeOK
  <2> SUFFICES ASSUME TouchTyped PROVE TypeOK
    OBVIOUS
  <2>1. rejects \in Nat
    BY DEF TouchTyped, RejectInv, Killing
  <2>2. pc \in [Thread -> Label]
    BY DEF TouchTyped, RejectInv
  <2> QED
    BY <2>1, <2>2, Zenon DEF TouchTyped, FlagsOK, StagesOK, TypeOK, Label
<1> QED
  BY <1>1, TypedInit, TypedStep, PTL DEF Spec

-----------------------------------------------------------------------------
(* The release timer.                                                      *)

(* Once nobody listens no packet handler is at the watchdog, and what the  *)
(* remove has cancelled by then stays cancelled.                           *)
TimerInv ==
    /\ rm # "up" => hpc # "watchdog"
    /\ rm \in {"stopped", "unregistered", "freed"} => ~watchdog /\ tpc = "out"

(* The listener is unregistered, and its handler waited for, before        *)
(* timer_delete_sync: nobody is left to arm the timer again.               *)
LEMMA TimerInvStep == TimerInv /\ [Next]_vars => TimerInv'
<1> SUFFICES ASSUME TimerInv, [Next]_vars PROVE TimerInv'
  OBVIOUS
<1> USE DEF TimerInv, handlerVars, fingerVars
<1>1. ASSUME NEW t \in Thread, ThreadStep(t) PROVE TimerInv'
  BY <1>1 DEF ThreadStep, Resync, Start, StartSubmit, Stop, StopKill,
              StopKilled, StopClear
<1>2. CASE InputOpen \/ InputClose \/ CloseStep \/ ScreenOff \/ ScreenOffSet
           \/ ScreenOn
  BY <1>2 DEF InputOpen, InputClose, CloseStep, CloseTimer, CloseRelease,
              ScreenOff, ScreenOffSet, ScreenOn
<1>3. CASE UrbPacket
  <2>1. rm = "up" /\ rm' = rm
    BY <1>3 DEF UrbPacket
  <2> QED
    BY <2>1
<1>4. CASE UrbNoPacket \/ UrbFatal
  BY <1>4 DEF UrbNoPacket, UrbFatal
<1>5. CASE HandleWatchdog
  BY <1>5 DEF HandleWatchdog
<1>6. CASE HandleCheck \/ HandleResubmit
  BY <1>6 DEF HandleCheck, HandleResubmit
<1>7. CASE TimerStep
  BY <1>7 DEF TimerStep, TimerFire, TimerClear
<1>8. CASE UsbDisableEndpoint \/ RemoveTouchListener
  BY <1>8 DEF UsbDisableEndpoint, RemoveTouchListener
<1>9. CASE RemoveStep
  BY <1>9 DEF RemoveStep, RemoveScreenListener, RemoveStop, InputUnregister, Free
<1>10. CASE UNCHANGED vars
  BY <1>10 DEF vars
<1> QED
  BY <1>1, <1>2, <1>3, <1>4, <1>5, <1>6, <1>7, <1>8, <1>9,
     <1>10 DEF Next, HandlerStep

(* The release timer never outlives the mpro_touch it belongs to.          *)
THEOREM NoTimerTheorem == Spec => []NoTimerAfterFree
<1>1. Init => TimerInv
  BY DEF Init, TimerInv
<1>2. TimerInv => NoTimerAfterFree
  BY DEF TimerInv, NoTimerAfterFree
<1> QED
  BY <1>1, <1>2, TimerInvStep, PTL DEF Spec

-----------------------------------------------------------------------------
(* The release watchdog.                                                   *)

(* A finger that is down has the timer, a packet handler on its way to     *)
(* mod_timer, or a close about to release it, unless the last packet has   *)
(* left it out.                                                            *)
DownInv ==
    rm = "up" /\ down # {} /\ ~omitted =>
        /\ hpc = "watchdog" => active
        /\ watchdog \/ At("input", "release") \/ hpc = "watchdog"

(* No step takes the last of the three away from a finger.                 *)
LEMMA DownStep ==
    ASSUME TouchTyped, DownInv, [Next]_vars
    PROVE  DownInv'
<1> USE DEF DownInv, At, Goto, handlerVars, fingerVars
<1>a. pc \in [Thread -> Label] /\ down \in SUBSET Slot
  BY DEF TouchTyped, RejectInv, StagesOK
<1>1. ASSUME NEW t \in Thread, ThreadStep(t) PROVE DownInv'
  <2>1. pc[t] # "release" /\ \E l \in Label : Goto(t, l)
    BY <1>1 DEF ThreadStep, Resync, Start, StartSubmit, Stop, StopKill,
                StopKilled, StopClear, Return, Label
  <2>2. UNCHANGED <<handlerVars, fingerVars, rm>>
    BY <1>1 DEF ThreadStep, Resync, Start, StartSubmit, Stop, StopKill,
                StopKilled, StopClear
  <2> QED
    BY <1>a, <2>1, <2>2 DEF Thread
<1>2. CASE InputOpen \/ InputClose
  BY <1>a, <1>2 DEF InputOpen, InputClose, MayEnter, Thread
<1>3. CASE CloseTimer
  BY <1>a, <1>3 DEF CloseTimer, Thread
<1>4. CASE CloseRelease
  BY <1>4 DEF CloseRelease
<1>5. CASE ScreenOff \/ ScreenOffSet \/ ScreenOn
  BY <1>a, <1>5 DEF ScreenOff, ScreenOffSet, ScreenOn, MayEnter, Thread
<1>6. CASE UrbPacket
  BY <1>6 DEF UrbPacket
<1>7. CASE HandleWatchdog
  BY <1>7 DEF HandleWatchdog
<1>8. CASE UrbNoPacket \/ UrbFatal \/ HandleCheck \/ HandleResubmit
  BY <1>8 DEF UrbNoPacket, UrbFatal, HandleCheck, HandleResubmit
<1>9. CASE TimerStep
  BY <1>9 DEF TimerStep, TimerFire, TimerClear
<1>10. CASE UsbDisableEndpoint
  BY <1>10 DEF UsbDisableEndpoint
<1>11. CASE RemoveTouchListener \/ RemoveStep
  BY <1>11 DEF RemoveTouchListener, RemoveStep, RemoveScreenListener,
               RemoveStop, InputUnregister, Free
<1>12. CASE UNCHANGED vars
  BY <1>12 DEF vars
<1> QED
  BY <1>1, <1>2, <1>3, <1>4, <1>5, <1>6, <1>7, <1>8, <1>9, <1>10, <1>11,
     <1>12 DEF Next, CloseStep, HandlerStep

(* A finger that userspace sees on the screen is going to be released even *)
(* if no further packet arrives, for every number of slots and in every    *)
(* order of packet, timer callback, close and removal; only a packet that  *)
(* touches nothing and leaves the finger out takes the timer away.         *)
THEOREM WatchdogTheorem == Spec => []DownHasWatchdog
<1>1. Init => DownInv
  BY DEF Init, DownInv
<1>2. TouchTyped /\ DownInv /\ [Next]_vars => DownInv'
  BY DownStep
<1>3. DownInv => DownHasWatchdog
  BY DEF DownInv, DownHasWatchdog, Quiet, At, Thread
<1> QED
  BY <1>1, <1>2, <1>3, TypedInit, TypedStep, PTL DEF Spec

-----------------------------------------------------------------------------
(* The URB runs while somebody wants it.                                   *)

(* The host controller has the URB, or its completion handler does.        *)
Running == linked \/ hpc # "out"

(* Where the thread that is busy has got to.                               *)
PhaseOK(l) ==
    /\ l \in {"off", "resync", "start", "stop"} => (submitted <=> Running)
    /\ l \in {"start", "submit"} => ShouldRun
    /\ l \in {"stop", "kill", "killing", "killed"} => ~ShouldRun
    /\ l \in {"submit", "kill"} => submitted
    /\ l = "kill" => Running
    /\ l \in {"submit", "killed", "timer", "release"} => ~Running
    /\ l \in {"timer", "release"} => ~submitted /\ ~opened

(* Between two callbacks.                                                  *)
SettledOK ==
    (\A t \in Thread : At(t, "out")) =>
        (submitted <=> Running) /\ (submitted <=> ShouldRun)

(* One callback at a time on a healthy bus: what the open count and the    *)
(* screen say, touch_submitted and the URB itself agree between callbacks, *)
(* and part only in the order in which start and stop change them.         *)
RunInv ==
    /\ At("remove", "out")
    /\ At("input", "out") \/ At("screen", "out")
    /\ pc["screen"] \notin {"timer", "release"}
    /\ ~linked \/ hpc = "out"
    /\ PhaseOK(pc["input"])
    /\ PhaseOK(pc["screen"])
    /\ SettledOK

(* When the URB is promised to follow the callbacks.                       *)
SetupHealthy == ~setup.overlap /\ setup.faults = {}

Healthy == SetupHealthy /\ enabled /\ rm = "up"

HealthyInv == Healthy => RunInv

(* An endpoint that is disabled and a child that is removed stay so.       *)
LEMMA Monotone ==
    [Next]_vars => (enabled' => enabled) /\ (rm' = "up" => rm = "up")
<1> SUFFICES ASSUME [Next]_vars
             PROVE  (enabled' => enabled) /\ (rm' = "up" => rm = "up")
  OBVIOUS
<1> USE DEF urbVars
<1>1. ASSUME NEW t \in Thread, ThreadStep(t)
      PROVE  UNCHANGED <<enabled, rm>>
  BY <1>1 DEF ThreadStep, Resync, Start, StartSubmit, Stop, StopKill,
              StopKilled, StopClear
<1>2. CASE InputOpen \/ InputClose \/ CloseStep \/ ScreenOff \/ ScreenOffSet
           \/ ScreenOn
  BY <1>2 DEF InputOpen, InputClose, CloseStep, CloseTimer, CloseRelease,
              ScreenOff, ScreenOffSet, ScreenOn
<1>3. ASSUME HandlerStep \/ TimerStep PROVE UNCHANGED <<enabled, rm>>
  BY <1>3 DEF HandlerStep, UrbPacket, UrbNoPacket, UrbFatal, HandleWatchdog,
              HandleCheck, HandleResubmit, TimerStep, TimerFire, TimerClear
<1>4. CASE UsbDisableEndpoint \/ RemoveTouchListener \/ RemoveStep
  BY <1>4 DEF UsbDisableEndpoint, RemoveTouchListener, RemoveStep,
              RemoveScreenListener, RemoveStop, InputUnregister, Free
<1>5. CASE UNCHANGED vars
  BY <1>5 DEF vars
<1> QED
  BY <1>1, <1>2, <1>3, <1>4, <1>5 DEF Next

(* The one callback that is under way moves on.                            *)
LEMMA MoveOK ==
    ASSUME pc \in [Thread -> Label], RunInv,
           NEW t \in {"input", "screen"}, NEW l \in Label, Goto(t, l),
           At(t, "out") => \A u \in Thread : At(u, "out"),
           t = "screen" => l \notin {"timer", "release"},
           PhaseOK(l)', (~linked \/ hpc = "out")',
           l = "out" => (submitted <=> Running)' /\ (submitted <=> ShouldRun)'
    PROVE  RunInv'
<1>1. PICK o \in {"input", "screen"} : o # t
  OBVIOUS
<1>2. At(o, "out") /\ At("remove", "out")
  BY <1>1 DEF RunInv, Thread
<1>3. pc'[t] = l /\ pc'[o] = "out" /\ pc'["remove"] = "out"
  BY <1>1, <1>2 DEF Goto, At, Thread
<1>4. PhaseOK("out")'
  BY DEF PhaseOK
<1>5. PhaseOK(pc["input"])' /\ PhaseOK(pc["screen"])'
  BY <1>1, <1>3, <1>4
<1>6. SettledOK'
  BY <1>3 DEF SettledOK, At, Thread
<1>7. /\ At("input", "out")' \/ At("screen", "out")'
      /\ pc'["screen"] \notin {"timer", "release"}
      /\ At("remove", "out")'
  BY <1>1, <1>3 DEF At
<1> QED
  BY <1>5, <1>6, <1>7 DEF RunInv

(* The completion handler moves: only during usb_kill_urb may it change    *)
(* whether the URB runs.                                                   *)
LEMMA StayOK ==
    ASSUME RunInv, UNCHANGED pc, ShouldRun' <=> ShouldRun, opened' <=> opened,
           \/ (submitted' <=> submitted) /\ (Running' <=> Running)
           \/ At("input", "killing") \/ At("screen", "killing"),
           (~linked \/ hpc = "out")'
    PROVE  RunInv'
<1>1. At("remove", "out")' /\ (At("input", "out") \/ At("screen", "out"))'
      /\ pc'["screen"] \notin {"timer", "release"}
  BY DEF RunInv, At
<1>2. CASE (submitted' <=> submitted) /\ (Running' <=> Running)
  <2>1. \A t \in {"input", "screen"} : PhaseOK(pc[t])'
    BY <1>2 DEF RunInv, PhaseOK
  <2>2. SettledOK'
    BY <1>2 DEF RunInv, SettledOK, At
  <2> QED
    BY <1>1, <2>1, <2>2 DEF RunInv
<1>3. ASSUME NEW t \in {"input", "screen"}, At(t, "killing") PROVE RunInv'
  <2>1. PICK o \in {"input", "screen"} : o # t /\ At(o, "out")
    BY <1>3 DEF RunInv, At
  <2>2. PhaseOK(pc[t])' /\ PhaseOK(pc[o])'
    BY <1>3, <2>1 DEF RunInv, PhaseOK, At
  <2>3. SettledOK'
    BY <1>3 DEF SettledOK, At, Thread
  <2> QED
    BY <1>1, <2>1, <2>2, <2>3 DEF RunInv
<1> QED
  BY <1>2, <1>3

(* mpro_ts__resync, mpro_touch_start and mpro_touch_stop.                  *)
LEMMA ThreadRunStep ==
    ASSUME pc \in [Thread -> Label], RunInv, SetupHealthy, RejectInv,
           enabled, rm = "up",
           NEW t \in Thread, ThreadStep(t)
    PROVE  RunInv'
<1>0. /\ t \in {"input", "screen"} /\ ~At(t, "out") /\ PhaseOK(pc[t])
      /\ t = "screen" => pc[t] \notin {"timer", "release"}
      /\ ~linked \/ hpc = "out"
  BY DEF RunInv, ThreadStep, Resync, Start, StartSubmit, Stop, StopKill,
         StopKilled, StopClear, Thread, At
<1>1. \A l \in Label :
         /\ Goto(t, l)
         /\ t = "screen" => l \notin {"timer", "release"}
         /\ PhaseOK(l)'
         /\ (~linked \/ hpc = "out")'
         /\ l = "out" => (submitted <=> Running)' /\ (submitted <=> ShouldRun)'
         => RunInv'
  BY <1>0, MoveOK
<1> USE DEF Return, At, Label, gateVars, urbVars, handlerVars, Running,
            ShouldRun, PhaseOK
<1>2. CASE Resync(t)
  BY <1>0, <1>1, <1>2 DEF Resync
<1>3. CASE Start(t)
  BY <1>0, <1>1, <1>3 DEF Start
<1>4. CASE StartSubmit(t)
  <2>1. rejects = 0 /\ ~linked /\ ~SubmitMayFail
    BY <1>0, <1>4 DEF StartSubmit, RejectInv, Killing, RunInv, SubmitMayFail,
                      SetupHealthy
  <2>2. linked' /\ (submitted' <=> submitted)
    <3>1. UsbSubmit
      BY <1>4 DEF StartSubmit
    <3> QED
      BY <2>1, <3>1 DEF UsbSubmit
  <2> QED
    BY <1>0, <1>1, <1>4, <2>2 DEF StartSubmit
<1>5. CASE Stop(t)
  BY <1>0, <1>1, <1>5 DEF Stop
<1>6. CASE StopKill(t)
  BY <1>0, <1>1, <1>6 DEF StopKill
<1>7. CASE StopKilled(t)
  BY <1>0, <1>1, <1>7 DEF StopKilled
<1>8. CASE StopClear(t)
  BY <1>0, <1>1, <1>8 DEF StopClear
<1> QED
  BY <1>2, <1>3, <1>4, <1>5, <1>6, <1>7, <1>8 DEF ThreadStep

(* The callbacks begin, and the close ends.                                *)
LEMMA CallbackRunStep ==
    ASSUME pc \in [Thread -> Label], RunInv, SetupHealthy,
           \/ InputOpen \/ InputClose \/ CloseStep
           \/ ScreenOff \/ ScreenOffSet \/ ScreenOn
    PROVE  RunInv'
<1>1. /\ ~linked \/ hpc = "out"
      /\ MayEnter("input") \/ MayEnter("screen") =>
             SettledOK /\ \A t \in Thread : At(t, "out")
  BY DEF RunInv, MayEnter, SetupHealthy
<1>2. \A t \in {"input", "screen"}, l \in Label :
         /\ Goto(t, l)
         /\ At(t, "out") => \A u \in Thread : At(u, "out")
         /\ t = "screen" => l \notin {"timer", "release"}
         /\ PhaseOK(l)'
         /\ (~linked \/ hpc = "out")'
         /\ l = "out" => (submitted <=> Running)' /\ (submitted <=> ShouldRun)'
         => RunInv'
  BY MoveOK
<1> USE DEF At, Label, Thread, urbVars, handlerVars, gateVars, Running,
            ShouldRun, PhaseOK
<1>3. CASE InputOpen
  BY <1>1, <1>2, <1>3 DEF InputOpen, SettledOK
<1>4. CASE InputClose
  BY <1>1, <1>2, <1>4 DEF InputClose, SettledOK
<1>5. CASE CloseTimer
  BY <1>1, <1>2, <1>5 DEF CloseTimer, RunInv
<1>6. CASE CloseRelease
  BY <1>1, <1>2, <1>6 DEF CloseRelease, RunInv
<1>7. CASE ScreenOff
  BY <1>1, <1>2, <1>7 DEF ScreenOff, SettledOK
<1>8. CASE ScreenOffSet
  BY <1>1, <1>2, <1>8 DEF ScreenOffSet, RunInv
<1>9. CASE ScreenOn
  BY <1>1, <1>2, <1>9 DEF ScreenOn, SettledOK
<1> QED
  BY <1>3, <1>4, <1>5, <1>6, <1>7, <1>8, <1>9 DEF CloseStep

(* A completed URB is submitted again by its handler, unless it is killed. *)
LEMMA HandlerRunStep ==
    ASSUME pc \in [Thread -> Label], RunInv, SetupHealthy, RejectInv, enabled,
           HandlerStep
    PROVE  RunInv'
<1>1. UNCHANGED <<pc, opened, screen_on, touch_wake>>
  BY DEF HandlerStep, UrbPacket, UrbNoPacket, UrbFatal, HandleWatchdog,
         HandleCheck, HandleResubmit, gateVars
<1>2. ASSUME \/ (submitted' <=> submitted) /\ (Running' <=> Running)
             \/ At("input", "killing") \/ At("screen", "killing"),
             (~linked \/ hpc = "out")'
      PROVE  RunInv'
  BY <1>1, <1>2, StayOK DEF ShouldRun
<1>3. ~(At("input", "killing") \/ At("screen", "killing")) =>
          rejects = 0 /\ (Running => submitted)
  BY DEF RunInv, RejectInv, Killing, PhaseOK, SettledOK, At, Thread, Label
<1>4. CASE UrbPacket
  <2>1. linked /\ ~linked' /\ hpc' = "watchdog" /\ UNCHANGED submitted
    BY <1>4 DEF UrbPacket
  <2> QED
    BY <1>2, <2>1 DEF Running
<1>5. CASE UrbNoPacket
  BY <1>2, <1>5 DEF UrbNoPacket, Running
<1>6. CASE UrbFatal
  BY <1>2, <1>3, <1>6 DEF UrbFatal, SetupHealthy, handlerVars
<1>7. CASE HandleWatchdog
  BY <1>2, <1>7 DEF HandleWatchdog, Running, urbVars, RunInv
<1>8. CASE HandleCheck
  BY <1>2, <1>3, <1>8 DEF HandleCheck, Running, urbVars, RunInv
<1>9. CASE HandleResubmit
  <2>1. ~linked /\ hpc = "resubmit" /\ hpc' = "out" /\ UsbSubmit
    BY <1>9 DEF HandleResubmit, RunInv
  <2>2. ~SubmitMayFail
    BY DEF SubmitMayFail, SetupHealthy
  <2>3. rejects = 0 => linked' /\ (submitted' <=> submitted)
    BY <2>1, <2>2 DEF UsbSubmit
  <2> QED
    BY <1>2, <1>3, <2>1, <2>3 DEF Running
<1> QED
  BY <1>4, <1>5, <1>6, <1>7, <1>8, <1>9 DEF HandlerStep

(* Every step.                                                             *)
LEMMA RunStep ==
    ASSUME TouchTyped, Healthy, Healthy', RunInv, [Next]_vars
    PROVE  RunInv'
<1>1. pc \in [Thread -> Label] /\ RejectInv
  BY DEF TouchTyped, RejectInv
<1>2. ASSUME NEW t \in Thread, ThreadStep(t) PROVE RunInv'
  BY <1>1, <1>2, ThreadRunStep DEF Healthy
<1>3. CASE \/ InputOpen \/ InputClose \/ CloseStep
           \/ ScreenOff \/ ScreenOffSet \/ ScreenOn
  BY <1>1, <1>3, CallbackRunStep DEF Healthy
<1>4. CASE HandlerStep
  BY <1>1, <1>4, HandlerRunStep DEF Healthy
<1>5. ASSUME UNCHANGED <<gateVars, submitted, linked, hpc, pc>> PROVE RunInv'
  BY <1>5, StayOK DEF gateVars, ShouldRun, Running, RunInv
<1>6. CASE TimerStep \/ UNCHANGED vars
  BY <1>5, <1>6 DEF TimerStep, TimerFire, TimerClear, vars, urbVars,
                    handlerVars, gateVars
<1>7. CASE UsbDisableEndpoint \/ RemoveTouchListener \/ RemoveStep
  BY <1>7 DEF UsbDisableEndpoint, RemoveTouchListener, RemoveStep,
              RemoveScreenListener, RemoveStop, InputUnregister, Free, Healthy
<1> QED
  BY <1>2, <1>3, <1>4, <1>6, <1>7 DEF Next

(* "The URB runs while (opened && screen_on), and stops otherwise", with   *)
(* the exception for touch-wake: if callbacks do not overlap and the bus   *)
(* does not fail, it is where the last callback wanted it.                 *)
THEOREM RunsTheorem == Spec => []RunsIffWanted
<1>1. ASSUME Init PROVE HealthyInv
  <2>1. /\ ~opened /\ ~submitted /\ ~linked /\ hpc = "out"
        /\ \A t \in Thread : At(t, "out")
    BY <1>1 DEF Init, At
  <2> QED
    BY <2>1 DEF HealthyInv, RunInv, PhaseOK, SettledOK, Running, ShouldRun,
                Thread, At
<1>2. TouchTyped /\ HealthyInv /\ [Next]_vars => HealthyInv'
  BY RunStep, Monotone, SetupFixed DEF HealthyInv, Healthy, SetupHealthy
<1>3. HealthyInv => RunsIffWanted
  BY DEF HealthyInv, Healthy, SetupHealthy, RunInv, SettledOK, RunsIffWanted,
         RunsWhenQuiet, Quiet, Running, ShouldRun
<1> QED
  BY <1>1, <1>2, <1>3, TypedInit, TypedStep, PTL DEF Spec
=============================================================================
