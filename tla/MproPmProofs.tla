---------------------------- MODULE MproPmProofs ----------------------------
(***************************************************************************)
(* Theorems about virtual idle (MproPm), for every set of actors, with and *)
(* without fbdev and for every bound.                                      *)
(***************************************************************************)
EXTENDS MproPm, TLAPS

-----------------------------------------------------------------------------
(* The statistics of the transitions.                                      *)

(* Every critical section that writes is_idle records the transition: all  *)
(* that a step can do to the two is GoIdle, GoActive or a reset.           *)
LEMMA StepOfIdle ==
    ASSUME [Next]_vars
    PROVE  UNCHANGED pmVars \/ GoIdle \/ GoActive(TRUE) \/ GoActive(FALSE)
             \/ ResetPmStats
<1>1. ASSUME EnableGet \/ PipeUpdate \/ DisableStart \/ DrmStep
      PROVE  UNCHANGED pmVars \/ GoActive(FALSE)
  BY <1>1 DEF EnableGet, PipeUpdate, DisableStart, DrmStep, EnableCancel,
              EnableLock, EnableWake, EnablePush, EnableOn, DisableOff,
              DisablePut
<1>2. ASSUME IdleFire \/ IdleStep PROVE UNCHANGED pmVars \/ GoIdle
  BY <1>2 DEF IdleFire, IdleStep, IdleLock, IdlePush, IdleOff
<1>3. ASSUME WakeStep PROVE UNCHANGED pmVars \/ GoActive(TRUE)
  BY <1>3 DEF WakeStep, WakeLock, WakeOn, WakeRepaint, WakeCheck, WakeArm
<1>4. ASSUME TouchPacket \/ TouchStep \/ InputOpen \/ InputClose \/ CloseStep
      PROVE  UNCHANGED pmVars
  BY <1>4 DEF TouchPacket, TouchStep, TouchArm, TouchWake, InputOpen,
              InputClose, CloseStep, CloseCheck, CloseArm
<1>5. ASSUME ForceIdle \/ ForceActive \/ SysfsStep
      PROVE  UNCHANGED pmVars \/ GoIdle \/ GoActive(FALSE)
  BY <1>5 DEF ForceIdle, ForceActive, SysfsStep, ForceIdleLock, SysfsOff,
              ForceActiveLock, ForceActiveOn, TouchWakeCheck
<1>6. ASSUME NEW val \in BOOLEAN, TouchWakeStore(val) \/ IdleDelayStore(val)
      PROVE  UNCHANGED pmVars
  BY <1>6 DEF TouchWakeStore, IdleDelayStore
<1>7. ASSUME DiscStop \/ DiscNext PROVE UNCHANGED pmVars
  BY <1>7 DEF DiscStop, DiscNext, DiscCancelIdle, DiscCancelWake, DiscUnplug,
              DiscRemoveBacklight, DiscRemoveTouch, DiscInputGone,
              DiscRemoveDrm, DiscFree
<1>8. ASSUME UNCHANGED vars PROVE UNCHANGED pmVars
  BY <1>8 DEF vars, pmVars
<1> QED
  BY <1>1, <1>2, <1>3, <1>4, <1>5, <1>6, <1>7, <1>8 DEF Next, Gone

(* TransitionCounts with the types it needs.                               *)
CountsInv ==
    /\ is_idle \in BOOLEAN
    /\ counts \in [idle : Nat, wake : Nat, touch : Nat]
    /\ TransitionCounts

(* mpro_pm_record_transition keeps the statistics consistent, because it   *)
(* looks at is_idle before the caller changes it.                          *)
LEMMA CountsStep == CountsInv /\ [Next]_vars => CountsInv'
<1> SUFFICES ASSUME CountsInv, [Next]_vars PROVE CountsInv'
  OBVIOUS
<1>1. CASE UNCHANGED pmVars
  BY <1>1 DEF CountsInv, TransitionCounts, pmVars
<1>2. CASE GoIdle
  BY <1>2 DEF CountsInv, TransitionCounts, GoIdle
<1>4. CASE ResetPmStats
  <2>1. /\ is_idle' = is_idle
        /\ counts' = [idle |-> 0, wake |-> 0, touch |-> 0]
    BY <1>4 DEF ResetPmStats
  <2>2. /\ counts' \in [idle : Nat, wake : Nat, touch : Nat]
        /\ counts'.idle = 0 /\ counts'.wake = 0 /\ counts'.touch = 0
    BY <2>1
  <2>3. TransitionCounts'
    BY <2>2 DEF TransitionCounts
  <2> QED
    BY <2>1, <2>2, <2>3, Zenon DEF CountsInv
<1>3. ASSUME NEW b \in BOOLEAN, GoActive(b) PROVE CountsInv'
  <2>1. ~is_idle' /\ is_idle' \in BOOLEAN
    BY <1>3, Zenon DEF GoActive
  <2>2. CASE ~is_idle
    <3>1. counts' = counts
      BY <1>3, <2>2 DEF GoActive
    <3> QED
      BY <2>1, <2>2, <3>1 DEF CountsInv, TransitionCounts
  <2>3. CASE is_idle
    <3>1. counts' = [idle  |-> counts.idle,
                     wake  |-> counts.wake + 1,
                     touch |-> counts.touch + (IF b THEN 1 ELSE 0)]
      BY <1>3, <2>3 DEF GoActive
    <3>2. /\ counts'.idle = counts.idle
          /\ counts'.wake = counts.wake + 1
          /\ counts'.touch = counts.touch \/ counts'.touch = counts.touch + 1
          /\ counts' \in [idle : Nat, wake : Nat, touch : Nat]
      BY <3>1 DEF CountsInv
    <3>3. /\ counts.idle = counts.wake \/ counts.idle = counts.wake + 1
          /\ counts.touch <= counts.wake
          /\ counts \in [idle : Nat, wake : Nat, touch : Nat]
      BY <2>3 DEF CountsInv, TransitionCounts
    <3>4. /\ counts'.wake = counts'.idle \/ counts'.wake = counts'.idle + 1
          /\ counts'.touch <= counts'.wake
      BY <3>2, <3>3
    <3>5. TransitionCounts'
      BY <2>1, <3>2, <3>4 DEF TransitionCounts
    <3> QED
      BY <2>1, <3>2, <3>5, Zenon DEF CountsInv
  <2> QED
    BY <2>2, <2>3
<1> QED
  BY <1>1, <1>2, <1>3, <1>4, StepOfIdle

(* mpro_pm_init leaves the statistics at zero and the display active.      *)
LEMMA CountsInit == Init => CountsInv
<1> SUFFICES ASSUME Init PROVE CountsInv
  OBVIOUS
<1>1. /\ ~is_idle /\ is_idle \in BOOLEAN
      /\ counts = [idle |-> 0, wake |-> 0, touch |-> 0]
  BY Zenon DEF Init
<1>2. /\ counts \in [idle : Nat, wake : Nat, touch : Nat]
      /\ counts.idle = 0 /\ counts.wake = 0 /\ counts.touch = 0
  BY <1>1
<1>3. TransitionCounts
  BY <1>1, <1>2 DEF TransitionCounts
<1> QED
  BY <1>1, <1>2, <1>3, Zenon DEF CountsInv

(* pm_idle_count and pm_wake_count advance in turn and touch wakes are     *)
(* wakes, whichever of idle_work, wake_work, a DRM commit and a sysfs      *)
(* writer race for a transition and whenever reset_pm_stats zeroes them.   *)
THEOREM TransitionCountsTheorem == Spec => []TransitionCounts
<1>1. CountsInv => TransitionCounts
  BY DEF CountsInv
<1> QED
  BY <1>1, CountsInit, CountsStep, PTL DEF Spec

-----------------------------------------------------------------------------
(* fbdev keeps the panel awake.                                            *)

(* With fbdev nobody is about to arm idle_work, which never runs.          *)
NobodyArms ==
    /\ pc \in [Thread -> Label]
    /\ At("idle", "out")
    /\ \A t \in {"wake", "touch", "input"} : ~At(t, "arm")

Silent == NobodyArms /\ ~armed

FbdevInv == setup.fbdev => Silent

(* The moves of one thread.                                                *)
LEMMA GotoNobodyArms ==
    ASSUME NobodyArms, NEW t \in Thread \ {"idle"}, NEW l \in Label, Goto(t, l),
           l # "arm"
    PROVE  NobodyArms'
BY DEF NobodyArms, Goto, At, Thread

(* Every path to schedule_delayed_work tests fbdev_enabled first.          *)
LEMMA FbdevPcStep ==
    ASSUME setup.fbdev, Silent, [Next]_vars
    PROVE  NobodyArms'
<1> USE DEF Silent
<1> \A t \in Thread \ {"idle"}, l \in Label :
        Goto(t, l) /\ l # "arm" => NobodyArms'
  BY GotoNobodyArms
<1>0. ASSUME UNCHANGED pc PROVE NobodyArms'
  BY <1>0 DEF NobodyArms, At
<1> USE DEF Thread, Label
<1>1. CASE EnableGet \/ PipeUpdate \/ DisableStart
  BY <1>0, <1>1 DEF EnableGet, PipeUpdate, DisableStart
<1>2. CASE DrmStep
  BY <1>2 DEF DrmStep, EnableCancel, EnableLock, EnableWake, EnablePush,
              EnableOn, DisableOff, DisablePut
<1>4. CASE IdleFire \/ IdleStep
  BY <1>4 DEF IdleFire, IdleStep, IdleLock, IdlePush, IdleOff, At, NobodyArms
<1>5. CASE WakeStep
  BY <1>5 DEF WakeStep, WakeLock, WakeOn, WakeRepaint, WakeCheck, WakeArm,
              CountdownWanted
<1>6. CASE TouchPacket \/ TouchStep
  BY <1>6 DEF TouchPacket, TouchStep, TouchArm, TouchWake, CountdownWanted
<1>7. CASE InputOpen \/ InputClose \/ CloseStep
  BY <1>0, <1>7 DEF InputOpen, InputClose, CloseStep, CloseCheck, CloseArm,
                    CountdownWanted
<1>8. CASE ForceIdle \/ ForceActive
  BY <1>8 DEF ForceIdle, ForceActive
<1>9. CASE SysfsStep
  BY <1>9 DEF SysfsStep, ForceIdleLock, SysfsOff, ForceActiveLock,
              ForceActiveOn, TouchWakeCheck
<1>10. ASSUME NEW val \in BOOLEAN, TouchWakeStore(val) \/ IdleDelayStore(val)
       PROVE  NobodyArms'
  BY <1>0, <1>10 DEF TouchWakeStore, IdleDelayStore
<1>11. CASE DiscStop \/ DiscNext
  BY <1>0, <1>11 DEF DiscStop, DiscNext, DiscCancelIdle, DiscCancelWake,
                     DiscUnplug, DiscRemoveBacklight, DiscRemoveTouch,
                     DiscInputGone, DiscRemoveDrm, DiscFree
<1>12. CASE UNCHANGED vars
  BY <1>0, <1>12 DEF vars
<1>13. CASE ResetPmStats
  BY <1>0, <1>13 DEF ResetPmStats
<1> QED
  BY <1>1, <1>2, <1>4, <1>5, <1>6, <1>7, <1>8, <1>9, <1>10, <1>11,
     <1>12, <1>13 DEF Next, Gone

(* Whoever does not arm idle_work leaves it as it is or cancels it.        *)
LEMMA FbdevArmedStep ==
    ASSUME setup.fbdev, Silent, [Next]_vars
    PROVE  ~armed'
<1>0. ~armed /\ ~At("wake", "arm") /\ ~At("touch", "arm") /\ ~At("input", "arm")
  BY DEF Silent, NobodyArms
<1>1. CASE EnableGet \/ PipeUpdate \/ DisableStart \/ DrmStep
  BY <1>0, <1>1, Zenon
     DEF EnableGet, PipeUpdate, DisableStart, DrmStep, EnableCancel,
         CancelIdleWork, EnableLock, EnableWake, EnablePush, EnableOn,
         DisableOff, DisablePut, workVars
<1>2. CASE IdleFire \/ IdleStep
  BY <1>0, <1>2, Zenon
     DEF IdleFire, IdleStep, IdleLock, IdlePush, IdleOff, workVars
<1>3. CASE WakeStep \/ TouchPacket \/ TouchStep
  BY <1>0, <1>3, Zenon
     DEF WakeStep, WakeLock, WakeOn, WakeRepaint, WakeCheck, WakeArm,
         TouchPacket, TouchStep, TouchArm, TouchWake, workVars
<1>4. CASE InputOpen \/ InputClose \/ CloseStep
  BY <1>0, <1>4, Zenon
     DEF InputOpen, InputClose, CloseStep, CloseCheck, CloseArm, workVars
<1>5. CASE ForceIdle \/ ForceActive \/ SysfsStep
  BY <1>0, <1>5, Zenon
     DEF ForceIdle, ForceActive, CancelIdleWork, SysfsStep, ForceIdleLock,
         SysfsOff, ForceActiveLock, ForceActiveOn, TouchWakeCheck, workVars
<1>6. ASSUME NEW val \in BOOLEAN, TouchWakeStore(val) \/ IdleDelayStore(val)
      PROVE  ~armed'
  BY <1>0, <1>6, Zenon DEF TouchWakeStore, IdleDelayStore, workVars
<1>7. CASE DiscStop \/ DiscNext
  BY <1>0, <1>7, Zenon
     DEF DiscStop, DiscNext, DiscCancelIdle, CancelIdleWork, DiscCancelWake,
         DiscUnplug, DiscRemoveBacklight, DiscRemoveTouch, DiscInputGone,
         DiscRemoveDrm, DiscFree, workVars
<1>8. CASE UNCHANGED vars
  BY <1>0, <1>8, Zenon DEF vars
<1>9. CASE ResetPmStats
  BY <1>0, <1>9, Zenon DEF ResetPmStats, workVars
<1> QED
  BY <1>1, <1>2, <1>3, <1>4, <1>5, <1>6, <1>7, <1>8, <1>9 DEF Next, Gone

(* fbdev is a module parameter: no step changes it.                        *)
LEMMA SetupFixed == [Next]_vars => setup' = setup
<1> SUFFICES ASSUME [Next]_vars PROVE setup' = setup
  OBVIOUS
<1> USE DEF envVars
<1>1. CASE EnableGet \/ PipeUpdate \/ DisableStart \/ DrmStep
  BY <1>1, Zenon
     DEF EnableGet, PipeUpdate, DisableStart, DrmStep, EnableCancel,
         EnableLock, EnableWake, EnablePush, EnableOn, DisableOff, DisablePut
<1>2. CASE IdleFire \/ IdleStep \/ WakeStep
  BY <1>2, Zenon
     DEF IdleFire, IdleStep, IdleLock, IdlePush, IdleOff, WakeStep, WakeLock,
         WakeOn, WakeRepaint, WakeCheck, WakeArm
<1>3. CASE TouchPacket \/ TouchStep \/ InputOpen \/ InputClose \/ CloseStep
  BY <1>3, Zenon
     DEF TouchPacket, TouchStep, TouchArm, TouchWake, InputOpen, InputClose,
         CloseStep, CloseCheck, CloseArm
<1>4. CASE ForceIdle \/ ForceActive \/ SysfsStep
  BY <1>4, Zenon
     DEF ForceIdle, ForceActive, SysfsStep, ForceIdleLock, SysfsOff,
         ForceActiveLock, ForceActiveOn, TouchWakeCheck
<1>5. ASSUME NEW val \in BOOLEAN, TouchWakeStore(val) \/ IdleDelayStore(val)
      PROVE  setup' = setup
  BY <1>5, Zenon DEF TouchWakeStore, IdleDelayStore
<1>6. CASE DiscStop \/ DiscNext
  BY <1>6, Zenon
     DEF DiscStop, DiscNext, DiscCancelIdle, DiscCancelWake, DiscUnplug,
         DiscRemoveBacklight, DiscRemoveTouch, DiscInputGone, DiscRemoveDrm,
         DiscFree
<1>7. CASE UNCHANGED vars
  BY <1>7, Zenon DEF vars
<1>8. CASE ResetPmStats
  BY <1>8, Zenon DEF ResetPmStats
<1> QED
  BY <1>1, <1>2, <1>3, <1>4, <1>5, <1>6, <1>7, <1>8 DEF Next, Gone

(* After probe nothing is armed.                                           *)
LEMMA InitFbdev == Init => FbdevInv
<1> SUFFICES ASSUME Init PROVE FbdevInv
  OBVIOUS
<1>1. NobodyArms
  BY DEF Init, NobodyArms, At, Thread, Label
<1> QED
  BY <1>1, Zenon DEF Init, FbdevInv, Silent

(* No step arms idle_work while the module parameter is set.               *)
LEMMA FbdevStep == FbdevInv /\ [Next]_vars => FbdevInv'
BY FbdevPcStep, FbdevArmedStep, SetupFixed DEF FbdevInv, Silent

(* "The idle timer is disabled in this mode": with fbdev idle_work is      *)
(* never armed and never runs, whatever the DRM pipe, touches, sysfs       *)
(* writers and a disconnect do.                                            *)
THEOREM FbdevTheorem == Spec => []FbdevNeverArms
<1>1. FbdevInv => FbdevNeverArms
  BY DEF FbdevInv, Silent, NobodyArms, FbdevNeverArms
<1> QED
  BY <1>1, InitFbdev, FbdevStep, PTL DEF Spec

-----------------------------------------------------------------------------
(* Types, and the reference count.                                         *)

(* Where a commit of the DRM pipe can be.                                  *)
DrmLabel == {"out", "on", "en_cancel", "en_lock", "en_wake", "en_push",
             "en_on", "dis_off", "dis_put"}

(* The flags that are written by handlers, notifications and stores.       *)
FlagsOK ==
    /\ running \in BOOLEAN /\ idle_delay \in BOOLEAN
    /\ touch_wake \in BOOLEAN /\ opened \in BOOLEAN
    /\ armed \in BOOLEAN /\ wake_queued \in BOOLEAN
    /\ lit \in BOOLEAN /\ ts_on \in BOOLEAN /\ urb \in BOOLEAN
    /\ blanked \in BOOLEAN /\ panel \in {"black", "image"}
    /\ disc \in DiscStage

(* A notification writes only the listeners' flags.                        *)
LEMMA NotifyType ==
    ASSUME FlagsOK, NotifyOn \/ NotifyOff
    PROVE  lit' \in BOOLEAN /\ ts_on' \in BOOLEAN /\ urb' \in BOOLEAN
BY Zenon DEF FlagsOK, NotifyOn, NotifyOff, tsVars, ShouldRun

(* No step of any thread gives a flag a value of another type.             *)
LEMMA FlagStep == FlagsOK /\ [Next]_vars => FlagsOK'
<1> SUFFICES ASSUME FlagsOK, [Next]_vars PROVE FlagsOK'
  OBVIOUS
<1> USE DEF FlagsOK, envVars, workVars, screenVars, tsVars, drmVars, Send
<1>1. CASE EnableGet
  BY <1>1, Zenon DEF EnableGet
<1>2. CASE PipeUpdate
  BY <1>2, Zenon DEF PipeUpdate
<1>3. CASE DisableStart
  BY <1>3, Zenon DEF DisableStart
<1>4. CASE EnableCancel
  BY <1>4, Zenon DEF EnableCancel, CancelIdleWork
<1>5. CASE EnableLock
  BY <1>5, Zenon DEF EnableLock
<1>6. CASE EnableWake
  BY <1>6, NotifyType, Zenon DEF EnableWake
<1>7. CASE EnablePush
  BY <1>7, Zenon DEF EnablePush
<1>8. CASE EnableOn
  BY <1>8, NotifyType, Zenon DEF EnableOn
<1>9. CASE DisableOff
  BY <1>9, NotifyType, Zenon DEF DisableOff
<1>10. CASE DisablePut
  BY <1>10, Zenon DEF DisablePut
<1>11. CASE IdleFire
  BY <1>11, Zenon DEF IdleFire
<1>12. CASE IdleLock
  BY <1>12, Zenon DEF IdleLock
<1>13. CASE IdlePush
  BY <1>13, Zenon DEF IdlePush
<1>14. CASE IdleOff
  BY <1>14, NotifyType, Zenon DEF IdleOff
<1>15. CASE WakeLock
  BY <1>15, Zenon DEF WakeLock
<1>16. CASE WakeOn
  BY <1>16, NotifyType, Zenon DEF WakeOn
<1>17. CASE WakeRepaint
  BY <1>17, Zenon DEF WakeRepaint
<1>18. CASE WakeCheck
  BY <1>18, Zenon DEF WakeCheck
<1>19. CASE WakeArm
  BY <1>19, Zenon DEF WakeArm
<1>20. CASE TouchPacket
  BY <1>20, Zenon DEF TouchPacket
<1>21. CASE TouchArm
  BY <1>21, Zenon DEF TouchArm
<1>22. CASE TouchWake
  BY <1>22, Zenon DEF TouchWake
<1>23. CASE InputOpen
  BY <1>23, Zenon DEF InputOpen, ShouldRun
<1>24. CASE InputClose
  BY <1>24, Zenon DEF InputClose
<1>25. CASE CloseCheck
  BY <1>25, Zenon DEF CloseCheck
<1>26. CASE CloseArm
  BY <1>26, Zenon DEF CloseArm
<1>27. CASE ForceIdle
  BY <1>27, Zenon DEF ForceIdle, CancelIdleWork
<1>28. CASE ForceActive
  BY <1>28, Zenon DEF ForceActive, CancelIdleWork
<1>29. CASE ForceIdleLock
  BY <1>29, Zenon DEF ForceIdleLock
<1>30. CASE SysfsOff
  BY <1>30, NotifyType, Zenon DEF SysfsOff
<1>31. CASE ForceActiveLock
  BY <1>31, Zenon DEF ForceActiveLock
<1>32. CASE ForceActiveOn
  BY <1>32, NotifyType, Zenon DEF ForceActiveOn
<1>33. CASE TouchWakeCheck
  BY <1>33, Zenon DEF TouchWakeCheck
<1>34. CASE DiscStop
  BY <1>34, Zenon DEF DiscStop, DiscStep, DiscStage
<1>35. CASE DiscCancelIdle
  BY <1>35, Zenon DEF DiscCancelIdle, DiscStep, DiscStage, CancelIdleWork
<1>36. CASE DiscCancelWake
  BY <1>36, Zenon DEF DiscCancelWake, DiscStep, DiscStage
<1>37. CASE DiscUnplug
  BY <1>37, Zenon DEF DiscUnplug, DiscStep, DiscStage
<1>38. CASE DiscRemoveBacklight
  BY <1>38, Zenon DEF DiscRemoveBacklight, DiscStep, DiscStage
<1>39. CASE DiscRemoveTouch
  BY <1>39, Zenon DEF DiscRemoveTouch, DiscStep, DiscStage
<1>40. CASE DiscInputGone
  BY <1>40, Zenon DEF DiscInputGone, DiscStep, DiscStage
<1>41. CASE DiscRemoveDrm
  BY <1>41, Zenon DEF DiscRemoveDrm, DiscStep, DiscStage
<1>42. CASE DiscFree
  BY <1>42, Zenon DEF DiscFree, DiscStep, DiscStage
<1>43. ASSUME NEW val \in BOOLEAN, TouchWakeStore(val) \/ IdleDelayStore(val)
       PROVE  FlagsOK'
  <2>1. CASE TouchWakeStore(val)
    BY <2>1, ZenonT(60) DEF TouchWakeStore
  <2>2. CASE IdleDelayStore(val)
    BY <2>2, ZenonT(60) DEF IdleDelayStore
  <2> QED
    BY <1>43, <2>1, <2>2
<1>44. CASE UNCHANGED vars
  BY <1>44, Zenon DEF vars
<1>45. CASE ResetPmStats
  BY <1>45, Zenon DEF ResetPmStats
<1> QED
  BY <1>1, <1>2, <1>3, <1>4, <1>5, <1>6, <1>7, <1>8, <1>9, <1>10, <1>11,
     <1>12, <1>13, <1>14, <1>15, <1>16, <1>17, <1>18, <1>19, <1>20, <1>21,
     <1>22, <1>23, <1>24, <1>25, <1>26, <1>27, <1>28, <1>29, <1>30, <1>31,
     <1>32, <1>33, <1>34, <1>35, <1>36, <1>37, <1>38, <1>39, <1>40, <1>41,
     <1>42, <1>43, <1>44, <1>45
     DEF Next, DrmStep, IdleStep, WakeStep, TouchStep, CloseStep, SysfsStep,
         DiscNext, Gone

(* mpro_drm__pipe_enable and mpro_drm__pipe_disable alternate: exactly one *)
(* reference is held from the mpro_active_get of the first to the          *)
(* mpro_active_put of the second.                                          *)
RefInv ==
    /\ pc \in [Thread -> Label]
    /\ pc["drm"] \in DrmLabel
    /\ active_refs = IF At("drm", "out") THEN 0 ELSE 1

(* Another thread moves.                                                   *)
LEMMA OtherMoves ==
    ASSUME RefInv, NEW t \in Thread \ {"drm"}, NEW l \in Label, Goto(t, l),
           UNCHANGED active_refs
    PROVE  RefInv'
BY DEF RefInv, Goto, At, Thread

(* Only pipe_enable takes the reference and only the end of pipe_disable   *)
(* drops it, so that active_refs never goes below zero.                    *)
LEMMA RefStep == RefInv /\ [Next]_vars => RefInv'
<1> SUFFICES ASSUME RefInv, [Next]_vars PROVE RefInv'
  OBVIOUS
<1>0. ASSUME UNCHANGED <<pc, active_refs>> PROVE RefInv'
  BY <1>0 DEF RefInv, At
<1>a. \A t \in Thread \ {"drm"}, l \in Label :
          Goto(t, l) /\ UNCHANGED active_refs => RefInv'
  BY OtherMoves
<1>1. CASE EnableGet
  BY <1>1 DEF EnableGet, RefInv, At, Goto, Thread, Label, DrmLabel
<1>2. CASE \/ EnableCancel \/ EnableLock \/ EnableWake \/ EnablePush \/ EnableOn
           \/ DisableStart \/ DisableOff
  <2>1. /\ pc["drm"] # "out" /\ UNCHANGED active_refs
        /\ \E l \in DrmLabel \ {"out"} : Goto("drm", l)
    BY <1>2 DEF EnableCancel, EnableLock, EnableWake, EnablePush, EnableOn,
                DisableStart, DisableOff, At, DrmLabel
  <2> QED
    BY <2>1 DEF RefInv, At, Goto, Thread, Label, DrmLabel
<1>11. CASE DisablePut
  BY <1>11 DEF DisablePut, RefInv, At, Goto, Thread, Label, DrmLabel
<1>3. CASE IdleFire \/ IdleStep
  <2> USE <1>a DEF Thread, Label
  <2>1. CASE IdleFire
    BY <2>1 DEF IdleFire
  <2>2. CASE IdleStep
    BY <2>2 DEF IdleStep, IdleLock, IdlePush, IdleOff
  <2> QED
    BY <1>3, <2>1, <2>2
<1> USE <1>a DEF Thread, Label
<1>4. CASE WakeStep
  BY <1>4 DEF WakeStep, WakeLock, WakeOn, WakeRepaint, WakeCheck, WakeArm
<1>5. CASE TouchPacket \/ TouchStep
  BY <1>5 DEF TouchPacket, TouchStep, TouchArm, TouchWake
<1>6. CASE InputOpen \/ InputClose \/ CloseStep
  BY <1>0, <1>6 DEF InputOpen, InputClose, CloseStep, CloseCheck, CloseArm
<1>7. CASE ForceIdle \/ ForceActive \/ SysfsStep
  BY <1>7 DEF ForceIdle, ForceActive, SysfsStep, ForceIdleLock, SysfsOff,
              ForceActiveLock, ForceActiveOn, TouchWakeCheck
<1>8. ASSUME NEW val \in BOOLEAN, TouchWakeStore(val) \/ IdleDelayStore(val)
      PROVE  RefInv'
  BY <1>0, <1>8 DEF TouchWakeStore, IdleDelayStore
<1>9. CASE DiscStop \/ DiscNext \/ PipeUpdate
  BY <1>0, <1>9, Zenon
     DEF DiscStop, DiscNext, DiscCancelIdle, DiscCancelWake,
         DiscUnplug, DiscRemoveBacklight, DiscRemoveTouch,
         DiscInputGone, DiscRemoveDrm, DiscFree, PipeUpdate
<1>10. CASE UNCHANGED vars
  BY <1>0, <1>10, Zenon DEF vars
<1>12. CASE ResetPmStats
  BY <1>0, <1>12, Zenon DEF ResetPmStats
<1> QED
  BY <1>1, <1>2, <1>3, <1>4, <1>5, <1>6, <1>7, <1>8, <1>9, <1>10,
     <1>11, <1>12 DEF Next, DrmStep, Gone

-----------------------------------------------------------------------------
(* DRM as the only client.                                                 *)

(* With DRM as the only client: past its cancel_delayed_work_sync and past *)
(* its idle transition a pipe_enable has nothing more to fear.             *)
Awake == {"en_wake", "en_push", "en_on", "on", "dis_off", "dis_put"}
Cancelled == Awake \cup {"en_lock"}

(* The threads that DRM alone does not have.                               *)
OthersRest ==
    /\ \A t \in {"wake", "touch", "input", "sysfs"} : At(t, "out")
    /\ ~wake_queued /\ ~opened

AwakeInv ==
    /\ pc["idle"] \in {"out", "lock", "push", "off"}
    /\ pc["drm"] \in Cancelled => ~armed /\ At("idle", "out")
    /\ pc["drm"] \in Awake => ~is_idle
    /\ setup.fbdev => ~is_idle

AloneInv == DrmAlone => OthersRest /\ AwakeInv

(* Without a touchscreen and a sysfs writer only these steps exist.        *)
LEMMA AloneSteps ==
    ASSUME DrmAlone, OthersRest, [Next]_vars
    PROVE  \/ EnableGet \/ PipeUpdate \/ DisableStart \/ DrmStep
           \/ IdleFire \/ IdleStep
           \/ DiscStop \/ DiscNext
           \/ UNCHANGED vars
<1> USE DEF OthersRest, At
<1>1. ~WakeStep
  BY Zenon DEF WakeStep, WakeLock, WakeOn, WakeRepaint, WakeCheck, WakeArm
<1>2. ~(TouchPacket \/ TouchStep)
  BY Zenon DEF TouchPacket, TouchStep, TouchArm, TouchWake, DrmAlone
<1>3. ~(InputOpen \/ InputClose \/ CloseStep)
  BY DEF InputOpen, InputClose, CloseStep, CloseCheck, CloseArm, DrmAlone,
         ActorKinds
<1>4. ~(ForceIdle \/ ForceActive \/ SysfsStep)
  BY DEF ForceIdle, ForceActive, SysfsMayWrite, SysfsStep, ForceIdleLock,
         SysfsOff, ForceActiveLock, ForceActiveOn, TouchWakeCheck, DrmAlone
<1>5. ASSUME NEW val \in BOOLEAN
      PROVE  ~(TouchWakeStore(val) \/ IdleDelayStore(val))
  BY DEF TouchWakeStore, IdleDelayStore, SysfsMayWrite, DrmAlone
<1>6. ~ResetPmStats
  BY DEF ResetPmStats, SysfsMayWrite, DrmAlone
<1> QED
  BY <1>1, <1>2, <1>3, <1>4, <1>5, <1>6, Zenon DEF Next, Gone

(* The cancel_delayed_work_sync of an enable outlives the enable: as the   *)
(* one reference is held until dis_put, nobody arms idle_work again.       *)
LEMMA AloneStep ==
    ASSUME RefInv, FbdevInv, DrmAlone, OthersRest, AwakeInv, [Next]_vars
    PROVE  OthersRest' /\ AwakeInv'
<1>0. setup.fbdev => ~armed /\ At("idle", "out")
  BY Zenon DEF FbdevInv, Silent, NobodyArms
<1> USE <1>0 DEF RefInv, OthersRest, AwakeInv, Awake, Cancelled, At, Goto,
                 Thread, envVars, workVars, pmVars
<1>1. CASE EnableGet
  BY <1>1 DEF EnableGet
<1>2. CASE EnableCancel
  BY <1>2 DEF EnableCancel, CancelIdleWork
<1>3. CASE EnableLock
  BY <1>3 DEF EnableLock, GoActive
<1>4. CASE EnableWake \/ EnablePush \/ EnableOn
  BY <1>4 DEF EnableWake, EnablePush, EnableOn
<1>5. CASE DisableStart \/ DisableOff
  BY <1>5 DEF DisableStart, DisableOff
<1>6. CASE DisablePut
  BY <1>6 DEF DisablePut
<1>7. CASE IdleFire
  BY <1>7 DEF IdleFire
<1>8. CASE IdleLock
  BY <1>8 DEF IdleLock, GoIdle
<1>9. CASE IdlePush \/ IdleOff
  BY <1>9 DEF IdlePush, IdleOff
<1>10. CASE PipeUpdate \/ DiscStop \/ DiscUnplug \/ DiscRemoveBacklight
  BY <1>10 DEF PipeUpdate, DiscStop, DiscUnplug, DiscRemoveBacklight
<1>11. CASE DiscCancelIdle \/ DiscCancelWake \/ DiscRemoveTouch
  BY <1>11 DEF DiscCancelIdle, CancelIdleWork, DiscCancelWake, DiscRemoveTouch
<1>12. CASE DiscInputGone \/ DiscRemoveDrm \/ DiscFree
  BY <1>12 DEF DiscInputGone, DiscRemoveDrm, DiscFree
<1>13. CASE UNCHANGED vars
  BY <1>13 DEF vars
<1> QED
  BY AloneSteps, <1>1, <1>2, <1>3, <1>4, <1>5, <1>6, <1>7, <1>8, <1>9, <1>10,
     <1>11, <1>12, <1>13 DEF DrmStep, IdleStep, DiscNext

(* The type invariant with what makes it inductive: the reference count is *)
(* a natural number because enable and disable alternate.                  *)
PmTyped == setup \in SetupType /\ FlagsOK /\ RefInv /\ CountsInv

(* Type correctness, and the reference count: active_refs is 1 from the    *)
(* mpro_active_get of a pipe_enable to the mpro_active_put of the next     *)
(* pipe_disable and 0 otherwise, so that it never drops below zero.        *)
THEOREM PmTypeTheorem == Spec => [](TypeOK /\ RefInv)
<1>1. ASSUME Init PROVE PmTyped
  <2>1. setup \in SetupType
    BY <1>1, SetupAssumption DEF Init
  <2>2. FlagsOK
    BY <1>1, Zenon DEF Init, FlagsOK, DiscStage
  <2>3. RefInv
    BY <1>1 DEF Init, RefInv, At, Thread, Label, DrmLabel
  <2>4. CountsInv
    BY <1>1, CountsInit
  <2> QED
    BY <2>1, <2>2, <2>3, <2>4 DEF PmTyped
<1>2. PmTyped /\ [Next]_vars => PmTyped'
  BY FlagStep, RefStep, CountsStep, SetupFixed, Zenon DEF PmTyped
<1>3. PmTyped => TypeOK /\ RefInv
  <2> SUFFICES ASSUME PmTyped PROVE TypeOK /\ RefInv
    OBVIOUS
  <2>1. active_refs \in Nat /\ pc \in [Thread -> Label]
    BY DEF PmTyped, RefInv
  <2> QED
    BY <2>1, Zenon DEF PmTyped, FlagsOK, CountsInv, TypeOK
<1> QED
  BY <1>1, <1>2, <1>3, PTL DEF Spec

-----------------------------------------------------------------------------
(* A reference keeps the display active.                                   *)

(* The inductive invariant: the alternation of enable and disable, the     *)
(* silence of fbdev and what DRM alone can meet.                           *)
RefActiveInv == RefInv /\ FbdevInv /\ AloneInv

(* After probe nothing is armed and nobody is inside a handler.            *)
LEMMA InitRefActive == Init => RefActiveInv
<1> SUFFICES ASSUME Init PROVE RefActiveInv
  OBVIOUS
<1>1. \A t \in Thread : At(t, "out")
  BY DEF Init, At
<1>2. ~armed /\ ~wake_queued /\ ~opened /\ ~is_idle
  BY Zenon DEF Init
<1>3. RefInv
  BY DEF Init, RefInv, At, Thread, Label, DrmLabel
<1>4. FbdevInv
  BY InitFbdev
<1>5. AloneInv
  BY <1>1, <1>2 DEF AloneInv, OthersRest, AwakeInv, Thread, At, Cancelled, Awake
<1> QED
  BY <1>3, <1>4, <1>5 DEF RefActiveInv

(* All three parts hold together over every step.                          *)
LEMMA RefActiveStep == RefActiveInv /\ [Next]_vars => RefActiveInv'
<1> SUFFICES ASSUME RefActiveInv, [Next]_vars PROVE RefActiveInv'
  OBVIOUS
<1>1. RefInv' /\ FbdevInv'
  BY RefStep, FbdevStep DEF RefActiveInv
<1>2. AloneInv'
  BY AloneStep, SetupFixed DEF RefActiveInv, AloneInv, DrmAlone
<1> QED
  BY <1>1, <1>2 DEF RefActiveInv

(* "While at least one reference is held the device is considered active": *)
(* with DRM as the only client an enabled pipe never finds the display in  *)
(* virtual idle, for every idle delay, with and without fbdev and while    *)
(* the panel is being disconnected.                                        *)
THEOREM RefKeepsActiveTheorem == Spec => []RefKeepsActive
<1>1. RefActiveInv => RefKeepsActive
  BY DEF RefActiveInv, AloneInv, AwakeInv, Awake, RefKeepsActive,
         ReferenceKeepsActive, At
<1> QED
  BY <1>1, InitRefActive, RefActiveStep, PTL DEF Spec

-----------------------------------------------------------------------------
(* The backlight follows the display state.                                *)

(* While the panel is there: idle_work switches the backlight off after it *)
(* has set is_idle, pipe_enable switches it on after its frame.            *)
LitInv ==
    /\ running
    /\ is_idle /\ pc["idle"] \in {"out", "lock"} => ~lit
    /\ At("drm", "on") => lit
    /\ pc["drm"] \in {"en_on", "on"} => panel = "image"

LitAlone == DrmAlone /\ disc = "up" => LitInv

(* idle_work never runs between the cancel of an enable and the end of the *)
(* next disable, so no notification of one overtakes one of the other.     *)
LEMMA LitStep ==
    ASSUME RefActiveInv, DrmAlone, disc = "up", disc' = "up", LitInv,
           [Next]_vars
    PROVE  LitInv'
<1> USE DEF RefActiveInv, RefInv, AloneInv, AwakeInv, Awake, Cancelled, LitInv,
            At, Goto, Thread, envVars, workVars, pmVars, screenVars, drmVars
<1>0. BacklightListens
  BY DEF BacklightListens, TouchListens
<1>1. CASE EnableGet
  BY <1>1 DEF EnableGet
<1>2. CASE DisableStart
  BY <1>2 DEF DisableStart
<1>3. CASE EnableCancel
  BY <1>3 DEF EnableCancel
<1>4. CASE EnableLock
  BY <1>4 DEF EnableLock, GoActive
<1>5. CASE EnableWake \/ EnableOn
  <2>1. lit'
    BY <1>0, <1>5, Zenon DEF EnableWake, EnableOn, NotifyOn
  <2>2. ~is_idle
    BY <1>5 DEF EnableWake, EnableOn
  <2>3. \E l \in {"en_push", "on"} :
            Goto("drm", l) /\ (l = "on" => pc["drm"] = "en_on")
    BY <1>5 DEF EnableWake, EnableOn
  <2>4. UNCHANGED <<running, is_idle, panel>>
    BY <1>5 DEF EnableWake, EnableOn
  <2> QED
    BY <2>1, <2>2, <2>3, <2>4
<1>6. CASE EnablePush
  BY <1>6 DEF EnablePush, Send
<1>7. CASE DisableOff
  BY <1>0, <1>7 DEF DisableOff, NotifyOff
<1>8. CASE DisablePut
  BY <1>8 DEF DisablePut
<1>9. CASE IdleFire
  BY <1>9 DEF IdleFire
<1>10. CASE IdleLock
  BY <1>10 DEF IdleLock, GoIdle
<1>11. CASE IdlePush
  BY <1>11 DEF IdlePush
<1>12. CASE IdleOff
  BY <1>0, <1>12 DEF IdleOff, NotifyOff
<1>13. CASE PipeUpdate
  BY <1>13 DEF PipeUpdate, Send
<1>14. CASE DiscStop \/ DiscNext
  BY <1>14 DEF DiscStop, DiscNext, DiscStep, DiscCancelIdle, DiscCancelWake,
               DiscUnplug, DiscRemoveBacklight, DiscRemoveTouch,
               DiscInputGone, DiscRemoveDrm, DiscFree
<1>15. CASE UNCHANGED vars
  BY <1>15 DEF vars
<1> QED
  BY AloneSteps, <1>1, <1>2, <1>3, <1>4, <1>5, <1>6, <1>7, <1>8, <1>9, <1>10,
     <1>11, <1>12, <1>13, <1>14, <1>15 DEF DrmStep, IdleStep

(* A disconnect is not undone.                                             *)
LEMMA DiscBackwards == [Next]_vars /\ disc' = "up" => disc = "up"
<1> SUFFICES ASSUME [Next]_vars, disc' = "up" PROVE disc = "up"
  OBVIOUS
<1> USE DEF envVars
<1>1. CASE EnableGet \/ PipeUpdate \/ DisableStart \/ DrmStep
  BY <1>1, Zenon
     DEF EnableGet, PipeUpdate, DisableStart, DrmStep, EnableCancel,
         EnableLock, EnableWake, EnablePush, EnableOn, DisableOff, DisablePut
<1>2. CASE IdleFire \/ IdleStep \/ WakeStep
  BY <1>2, Zenon
     DEF IdleFire, IdleStep, IdleLock, IdlePush, IdleOff, WakeStep, WakeLock,
         WakeOn, WakeRepaint, WakeCheck, WakeArm
<1>3. CASE TouchPacket \/ TouchStep \/ InputOpen \/ InputClose \/ CloseStep
  BY <1>3, Zenon
     DEF TouchPacket, TouchStep, TouchArm, TouchWake, InputOpen, InputClose,
         CloseStep, CloseCheck, CloseArm
<1>4. CASE ForceIdle \/ ForceActive \/ SysfsStep
  BY <1>4, Zenon
     DEF ForceIdle, ForceActive, SysfsStep, ForceIdleLock, SysfsOff,
         ForceActiveLock, ForceActiveOn, TouchWakeCheck
<1>5. ASSUME NEW val \in BOOLEAN, TouchWakeStore(val) \/ IdleDelayStore(val)
      PROVE  disc = "up"
  BY <1>5, Zenon DEF TouchWakeStore, IdleDelayStore
<1>6. CASE DiscStop \/ DiscNext
  BY <1>6
     DEF DiscStop, DiscNext, DiscCancelIdle, DiscCancelWake, DiscUnplug,
         DiscRemoveBacklight, DiscRemoveTouch, DiscInputGone, DiscRemoveDrm,
         DiscFree, DiscStep
<1>7. CASE UNCHANGED vars
  BY <1>7, Zenon DEF vars
<1>8. CASE ResetPmStats
  BY <1>8, Zenon DEF ResetPmStats
<1> QED
  BY <1>1, <1>2, <1>3, <1>4, <1>5, <1>6, <1>7, <1>8 DEF Next, Gone

(* With DRM as the only client, once the handlers have settled, an enabled *)
(* pipe is lit and shows its image, and an idle device is dark.            *)
THEOREM BacklightTheorem == Spec => []BacklightFollows
<1>1. ASSUME Init PROVE LitAlone
  <2>1. running /\ ~is_idle
    BY <1>1, Zenon DEF Init
  <2>2. pc["drm"] = "out"
    BY <1>1 DEF Init, Thread
  <2> QED
    BY <2>1, <2>2 DEF LitAlone, LitInv, At
<1>2. RefActiveInv /\ LitAlone /\ [Next]_vars => LitAlone'
  BY LitStep, DiscBackwards, SetupFixed DEF LitAlone, DrmAlone
<1>3. LitAlone /\ RefActiveInv => BacklightFollows
  BY DEF LitAlone, LitInv, RefActiveInv, AloneInv, AwakeInv, BacklightFollows,
         Quiet, Resting, At, Thread
<1> QED
  BY <1>1, <1>2, <1>3, InitRefActive, RefActiveStep, PTL DEF Spec
=============================================================================
