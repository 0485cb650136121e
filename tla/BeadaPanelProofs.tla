-------------------------- MODULE BeadaPanelProofs -------------------------
(***************************************************************************)
(* Theorems about the BeadaPanel driver (BeadaPanel), for every set of     *)
(* systems and every set of brightness values.                             *)
(***************************************************************************)
EXTENDS BeadaPanel, SequenceTheorems, TLAPS

-----------------------------------------------------------------------------
(* Types: the records of the driver and of the panel.                      *)

MfdType ==
    [suspended: BOOLEAN, in_resume: BOOLEAN, disconnected: BOOLEAN,
     cached: BOOLEAN, xfer_src: {"none", "shadow", "blank"}, timer: BOOLEAN]
PmType ==
    [rpm: {"active", "suspending", "suspended", "resuming"},
     pc: {"idle", "cancel", "flush", "flag", "down", "reset", "zero", "sync"},
     system: BOOLEAN,
     users: SUBSET {"pipe", "bl", "clk", "work", "unbind"}]
RunType ==
    [work: {"none", "xfer", "resume"},
     pc: {"start", "get", "drm", "send", "bl"},
     src: {"none", "shadow", "blank"}]
DrmType ==
    [pc: {"idle", "flush", "blit", "blitting", "send", "get",
          "wait", "off", "drain", "invalid"},
     on: BOOLEAN, opening: BOOLEAN, vblank: BOOLEAN,
     event: {"none", "pending", "armed"},
     shadow: Content, valid: BOOLEAN]
BlType ==
    [stored: Level, gamma: Level, waiting: BOOLEAN,
     pc: {"idle", "check", "get", "send"}, arg: Curve, ref: BOOLEAN]
DevType ==
    [latched: BOOLEAN, framed: BOOLEAN, garbled: SUBSET Cause,
     skew: {"none", "window", "unreset"},
     refused: {"no", "user", "handler"},
     shown: Content, level: Curve]
RemType == {"bound", "resume", "cancel", "flush", "unplug", "shutdown",
            "freed"}
Work == {"xfer", "resume"}

(* The workqueue holds a work at most once, as queue_work sees to.         *)
Queues == {q \in Seq({"xfer", "resume"}) :
               \A i, j \in 1..Len(q) : q[i] = q[j] => i = j}

-----------------------------------------------------------------------------
(* The workqueue.                                                          *)

(* A queue is a sequence of works.                                         *)
LEMMA QueueType ==
    ASSUME NEW q \in Queues
    PROVE  /\ q \in Seq(Work)
           /\ \A i, j \in 1..Len(q) : q[i] = q[j] => i = j
           /\ Len(q) \in Nat
BY DEF Queues, Work

(* queue_work leaves every pending work pending, adds the new one, and     *)
(* keeps the queue free of duplicates.                                     *)
LEMMA QueueProp ==
    ASSUME NEW q \in Queues, NEW w \in Work
    PROVE  /\ Queue(q, w) \in Queues
           /\ \A x \in Work :
                  Contains(Queue(q, w), x) <=> Contains(q, x) \/ x = w
<1>1. CASE Contains(q, w)
  BY <1>1 DEF Queue
<1>2. CASE ~Contains(q, w)
  <2>1. Queue(q, w) = Append(q, w) /\ \A i \in 1..Len(q) : q[i] # w
    BY <1>2 DEF Queue, Contains
  <2>2. /\ Append(q, w) \in Seq(Work)
        /\ Len(Append(q, w)) = Len(q) + 1
        /\ Append(q, w)[Len(q) + 1] = w
        /\ \A i \in 1..Len(q) : Append(q, w)[i] = q[i]
    BY QueueType, AppendProperties
  <2>3. Append(q, w) \in Queues
    <3>1. ASSUME NEW i \in 1..(Len(q) + 1), NEW j \in 1..(Len(q) + 1),
                 Append(q, w)[i] = Append(q, w)[j]
          PROVE  i = j
      <4>1. /\ i = Len(q) + 1 \/ i \in 1..Len(q)
            /\ j = Len(q) + 1 \/ j \in 1..Len(q)
        BY QueueType
      <4> QED
        BY <2>1, <2>2, <3>1, <4>1, QueueType
    <3> QED
      BY <2>2, <3>1, QueueType DEF Queues, Work
  <2>4. \A x \in Work : Contains(Append(q, w), x) <=> Contains(q, x) \/ x = w
    BY <2>2, QueueType DEF Contains
  <2> QED
    BY <2>1, <2>3, <2>4
<1> QED
  BY <1>1, <1>2

(* Taking the first work off the queue leaves the others pending.          *)
LEMMA TailProp ==
    ASSUME NEW q \in Queues, q # <<>>
    PROVE  /\ Head(q) \in Work /\ Tail(q) \in Queues
           /\ \A x \in Work :
                  Contains(q, x) <=> Contains(Tail(q), x) \/ x = Head(q)
<1>1. /\ Head(q) = q[1] /\ Head(q) \in Work
      /\ Tail(q) \in Seq(Work)
      /\ Len(Tail(q)) = Len(q) - 1 /\ Len(q) >= 1
      /\ \A i \in 1..Len(Tail(q)) : Tail(q)[i] = q[i + 1]
  BY QueueType, HeadTailProperties, EmptySeq
<1>2. Tail(q) \in Queues
  BY <1>1, QueueType DEF Queues, Work
<1>3. ASSUME NEW x \in Work, Contains(q, x)
      PROVE  Contains(Tail(q), x) \/ x = Head(q)
  <2>1. PICK i \in 1..Len(q) : q[i] = x
    BY <1>3 DEF Contains
  <2>2. CASE i > 1
    <3>1. i - 1 \in 1..Len(Tail(q)) /\ Tail(q)[i - 1] = x
      BY <1>1, <2>1, <2>2, QueueType
    <3> QED
      BY <3>1 DEF Contains
  <2> QED
    BY <1>1, <2>1, <2>2
<1>4. ASSUME NEW x \in Work, Contains(Tail(q), x) \/ x = Head(q)
      PROVE  Contains(q, x)
  <2>1. CASE x = Head(q)
    BY <1>1, <2>1 DEF Contains
  <2>2. CASE Contains(Tail(q), x)
    <3>1. PICK i \in 1..Len(Tail(q)) : Tail(q)[i] = x
      BY <2>2 DEF Contains
    <3>2. i + 1 \in 1..Len(q) /\ q[i + 1] = x
      BY <1>1, <3>1, QueueType
    <3> QED
      BY <3>2 DEF Contains
  <2> QED
    BY <1>4, <2>1, <2>2
<1> QED
  BY <1>1, <1>2, <1>3, <1>4

(* Cancelling the deferred handlers takes their work off the queue for     *)
(* good, since it is there at most once, and leaves the frame worker's.    *)
LEMMA RemoveProp ==
    ASSUME NEW q \in Queues
    PROVE  /\ RemoveFirst(q, "resume") \in Queues
           /\ ~Contains(RemoveFirst(q, "resume"), "resume")
           /\ Contains(RemoveFirst(q, "resume"), "xfer") <=>
                  Contains(q, "xfer")
<1>1. CASE ~Contains(q, "resume")
  BY <1>1 DEF Contains, RemoveFirst
<1>2. CASE Contains(q, "resume")
  <2>1. PICK k \in 1..Len(q) : q[k] = "resume"
    BY <1>2 DEF Contains
  <2> DEFINE I == {i \in 1..Len(q) : q[i] = "resume"}
  <2>2. I = {k}
    BY <2>1, QueueType
  <2>3. Min(I) = k
    BY <2>2, QueueType DEF Min
  <2>4. RemoveFirst(q, "resume") = RemoveAt(q, k)
    BY <2>1, <2>2, <2>3 DEF RemoveFirst, SelectInSeq
  <2> DEFINE r == RemoveAt(q, k)
  <2>5. /\ r \in Seq(Work) /\ Len(r) = Len(q) - 1
        /\ \A i \in 1..Len(r) : r[i] = IF i < k THEN q[i] ELSE q[i + 1]
    <3>1. /\ SubSeq(q, 1, k - 1) \in Seq(Work)
          /\ Len(SubSeq(q, 1, k - 1)) = k - 1
          /\ \A i \in 1..(k - 1) : SubSeq(q, 1, k - 1)[i] = q[i]
      BY <2>1, QueueType, SubSeqProperties
    <3>2. /\ SubSeq(q, k + 1, Len(q)) \in Seq(Work)
          /\ Len(SubSeq(q, k + 1, Len(q))) = Len(q) - k
          /\ \A i \in 1..(Len(q) - k) : SubSeq(q, k + 1, Len(q))[i] = q[k + i]
      BY <2>1, QueueType, SubSeqProperties
    <3> DEFINE a == SubSeq(q, 1, k - 1)
               b == SubSeq(q, k + 1, Len(q))
    <3>3. r = a \o b
      BY DEF RemoveAt
    <3> HIDE DEF a, b, r
    <3>4. /\ a \in Seq(Work) /\ b \in Seq(Work)
          /\ Len(a) = k - 1 /\ Len(b) = Len(q) - k
      BY <3>1, <3>2 DEF a, b
    <3>5. r \in Seq(Work) /\ Len(r) = Len(q) - 1
      BY <2>1, <3>3, <3>4, QueueType, ConcatProperties
    <3>6. ASSUME NEW i \in 1..Len(r)
          PROVE  r[i] = IF i < k THEN q[i] ELSE q[i + 1]
      <4>1. r[i] = IF i <= Len(a) THEN a[i] ELSE b[i - Len(a)]
        BY <3>3, <3>4, <3>5, ConcatProperties
      <4>2. CASE i < k
        BY <2>1, <3>1, <3>4, <3>5, <4>1, <4>2, QueueType DEF a
      <4>3. CASE i >= k
        <5>1. /\ i - (k - 1) \in 1..(Len(q) - k)
              /\ ~(i <= Len(a)) /\ k + (i - (k - 1)) = i + 1
          BY <2>1, <3>4, <3>5, <4>3, QueueType
        <5> QED
          BY <3>2, <3>4, <4>1, <4>3, <5>1 DEF b
      <4> QED
        BY <2>1, <4>2, <4>3, QueueType
    <3> QED
      BY <3>5, <3>6
  <2> HIDE DEF r
  <2>6. r \in Queues
    BY <2>5, QueueType DEF Queues, Work
  <2>7. ~Contains(r, "resume")
    <3>1. ASSUME NEW i \in 1..Len(r) PROVE r[i] # "resume"
      <4>1. CASE i < k
        BY <2>1, <2>5, <4>1, QueueType
      <4>2. CASE ~(i < k)
        <5>1. i + 1 \in 1..Len(q) /\ i + 1 # k
          BY <2>1, <2>5, <4>2, QueueType
        <5> QED
          BY <2>1, <2>5, <4>2, <5>1, QueueType
      <4> QED
        BY <4>1, <4>2
    <3> QED
      BY <3>1 DEF Contains
  <2>8. Contains(r, "xfer") => Contains(q, "xfer")
    BY <2>1, <2>5, QueueType DEF Contains
  <2>9. ASSUME Contains(q, "xfer") PROVE Contains(r, "xfer")
    <3>1. PICK j \in 1..Len(q) : q[j] = "xfer"
      BY <2>9 DEF Contains
    <3>2. PICK i \in 1..Len(r) : i = IF j < k THEN j ELSE j - 1
      BY <2>1, <2>5, <3>1, QueueType
    <3>3. r[i] = "xfer"
      BY <2>1, <2>5, <3>1, <3>2, QueueType
    <3> QED
      BY <3>3 DEF Contains
  <2> QED
    BY <2>4, <2>6, <2>7, <2>8, <2>9 DEF r
<1> QED
  BY <1>1, <1>2

-----------------------------------------------------------------------------
(* No step leaves the types.                                               *)

(* struct beada_mfd_dev.                                                   *)
LEMMA MfdTypeStep ==
    ASSUME mfd \in MfdType, run \in RunType, [Next]_vars
    PROVE  mfd' \in MfdType
<1> USE DEF MfdType
<1>0. ASSUME UNCHANGED mfd PROVE mfd' \in MfdType
  BY <1>0
<1>1. CASE XferWorker
  BY <1>1, Zenon DEF XferWorker, PlSend, PlSendFails
<1>2. CASE ResumeTimer
  BY <1>2, Zenon DEF ResumeTimer
<1>3. CASE HandlerSend
  BY <1>3, Zenon DEF HandlerSend, SendFrame, RunType
<1>4. CASE UpdateSend
  BY <1>4, Zenon DEF UpdateSend, SendFrame
<1>5. CASE DisableBlank
  BY <1>5, Zenon DEF DisableBlank, SendFrame
<1>6. CASE SuspendCancel
  BY <1>6, Zenon DEF SuspendCancel
<1>7. CASE SuspendFlag
  BY <1>7, Zenon DEF SuspendFlag
<1>8. CASE ResumeWake
  BY <1>8, Zenon DEF ResumeWake
<1>9. CASE ResumeReset
  BY <1>9, Zenon DEF ResumeReset
<1>10. CASE ResumeZero
  BY <1>10, Zenon DEF ResumeZero
<1>11. CASE ResumeSync
  BY <1>11, Zenon DEF ResumeSync
<1>12. CASE DisconnectFlag
  BY <1>12, Zenon DEF DisconnectFlag
<1>13. CASE DisconnectCancel
  BY <1>13, Zenon DEF DisconnectCancel
<1>14. CASE Dispatch \/ ResumeStart \/ HandlerDrm \/ HandlerBl
  BY <1>14, <1>0 DEF Dispatch, ResumeStart, HandlerDrm, HandlerBl
<1>15. CASE Commit \/ UpdateFlush \/ UpdateBlit \/ UpdateBlitEnd \/ EnableGet
            \/ EnableOn \/ VblankTick \/ Disable
  BY <1>15, <1>0 DEF Commit, UpdateFlush, UpdateBlit, UpdateBlitEnd,
                     EnableGet, EnableOn, VblankTick, Disable
<1>16. CASE DisableDrain \/ DisableIdle
  BY <1>16, <1>0 DEF DisableDrain, DisableIdle
<1>17. ASSUME NEW v \in Level, BlWrite(v) \/ GammaWrite(v)
       PROVE  mfd' \in MfdType
  BY <1>17, <1>0 DEF BlWrite, GammaWrite
<1>18. CASE ClockWrite \/ GammaLock \/ BlCheck \/ BlGet \/ BlSend \/ ClockGet
            \/ ClockSend
  BY <1>18, <1>0 DEF ClockWrite, GammaLock, BlCheck, BlGet, BlSend, ClockGet,
                     ClockSend
<1>19. CASE AutoSuspend \/ SystemSuspend \/ SuspendFlush
  BY <1>19, <1>0 DEF AutoSuspend, SystemSuspend, SuspendFlush
<1>20. CASE Unbind \/ DisconnectFlush \/ ChildrenRemove \/ ChildrenFreed
  BY <1>20, <1>0 DEF Unbind, DisconnectFlush, ChildrenRemove, ChildrenFreed
<1>21. CASE UNCHANGED vars
  BY <1>21, <1>0 DEF vars
<1> QED
  BY <1>1, <1>2, <1>3, <1>4, <1>5, <1>6, <1>7, <1>8, <1>9, <1>10, <1>11,
     <1>12, <1>13, <1>14, <1>15, <1>16, <1>17, <1>18, <1>19, <1>20, <1>21
     DEF Next, Wq, Update, Enable, Disabling, Writers, Pm, Unplug

(* The runtime PM status and the autopm references.                        *)
LEMMA PmTypeStep ==
    ASSUME pm \in PmType, [Next]_vars
    PROVE  pm' \in PmType
<1> USE DEF PmType
<1>0. ASSUME UNCHANGED pm PROVE pm' \in PmType
  BY <1>0
<1>1. CASE ResumeStart
  BY <1>1 DEF ResumeStart
<1>2. CASE HandlerBl
  BY <1>2 DEF HandlerBl
<1>3. CASE EnableGet
  BY <1>3 DEF EnableGet
<1>4. CASE DisableIdle
  BY <1>4 DEF DisableIdle
<1>5. CASE BlCheck
  BY <1>5 DEF BlCheck
<1>6. CASE BlSend
  BY <1>6 DEF BlSend
<1>7. CASE ClockWrite
  BY <1>7 DEF ClockWrite
<1>8. CASE ClockSend
  BY <1>8 DEF ClockSend
<1>9. CASE AutoSuspend
  BY <1>9 DEF AutoSuspend
<1>10. CASE SystemSuspend
  BY <1>10 DEF SystemSuspend
<1>11. CASE SuspendCancel
  BY <1>11 DEF SuspendCancel
<1>12. CASE SuspendFlush
  BY <1>12 DEF SuspendFlush
<1>13. CASE SuspendFlag
  BY <1>13 DEF SuspendFlag
<1>14. CASE ResumeWake
  BY <1>14 DEF ResumeWake
<1>15. CASE ResumeReset
  BY <1>15 DEF ResumeReset
<1>16. CASE ResumeZero
  BY <1>16 DEF ResumeZero
<1>17. CASE ResumeSync
  BY <1>17 DEF ResumeSync
<1>18. CASE Unbind
  BY <1>18 DEF Unbind
<1>19. CASE ChildrenFreed
  BY <1>19 DEF ChildrenFreed
<1>20. CASE Dispatch \/ XferWorker \/ ResumeTimer \/ HandlerDrm
            \/ HandlerSend
  BY <1>20, <1>0 DEF Dispatch, XferWorker, ResumeTimer, HandlerDrm,
                     HandlerSend
<1>21. CASE Commit \/ UpdateFlush \/ UpdateBlit \/ UpdateBlitEnd
            \/ UpdateSend \/ EnableOn \/ VblankTick \/ Disable
  BY <1>21, <1>0 DEF Commit, UpdateFlush, UpdateBlit, UpdateBlitEnd,
                     UpdateSend, EnableOn, VblankTick, Disable
<1>22. CASE DisableBlank \/ DisableDrain
  BY <1>22, <1>0 DEF DisableBlank, DisableDrain
<1>23. ASSUME NEW v \in Level, BlWrite(v) \/ GammaWrite(v)
       PROVE  pm' \in PmType
  BY <1>23, <1>0 DEF BlWrite, GammaWrite
<1>24. CASE GammaLock \/ BlGet \/ ClockGet
  BY <1>24, <1>0 DEF GammaLock, BlGet, ClockGet
<1>25. CASE DisconnectFlag \/ DisconnectCancel \/ DisconnectFlush
            \/ ChildrenRemove
  BY <1>25, <1>0 DEF DisconnectFlag, DisconnectCancel, DisconnectFlush,
                     ChildrenRemove
<1>26. CASE UNCHANGED vars
  BY <1>26, <1>0 DEF vars
<1> QED
  BY <1>1, <1>2, <1>3, <1>4, <1>5, <1>6, <1>7, <1>8, <1>9, <1>10, <1>11,
     <1>12, <1>13, <1>14, <1>15, <1>16, <1>17, <1>18, <1>19, <1>20, <1>21,
     <1>22, <1>23, <1>24, <1>25, <1>26
     DEF Next, Wq, Update, Enable, Disabling, Writers, Pm, Unplug

(* The work that runs.                                                     *)
LEMMA RunTypeStep ==
    ASSUME run \in RunType, wq \in Queues, [Next]_vars
    PROVE  run' \in RunType
<1> USE DEF RunType
<1>0. ASSUME UNCHANGED run PROVE run' \in RunType
  BY <1>0
<1>1. CASE Dispatch
  BY <1>1, TailProp DEF Dispatch, Work
<1>2. CASE XferWorker
  BY <1>2 DEF XferWorker
<1>3. CASE ResumeStart
  BY <1>3 DEF ResumeStart
<1>4. CASE HandlerDrm
  BY <1>4 DEF HandlerDrm
<1>5. CASE HandlerSend
  BY <1>5 DEF HandlerSend
<1>6. CASE HandlerBl
  BY <1>6 DEF HandlerBl
<1>7. CASE ResumeTimer
  BY <1>7, <1>0 DEF ResumeTimer
<1>8. CASE Commit \/ UpdateFlush \/ UpdateBlit \/ UpdateBlitEnd \/ UpdateSend
           \/ EnableGet \/ EnableOn \/ VblankTick
  BY <1>8, <1>0 DEF Commit, UpdateFlush, UpdateBlit, UpdateBlitEnd,
                    UpdateSend, EnableGet, EnableOn, VblankTick
<1>9. CASE Disable \/ DisableBlank \/ DisableDrain \/ DisableIdle
  BY <1>9, <1>0 DEF Disable, DisableBlank, DisableDrain, DisableIdle
<1>10. ASSUME NEW v \in Level, BlWrite(v) \/ GammaWrite(v)
       PROVE  run' \in RunType
  BY <1>10, <1>0 DEF BlWrite, GammaWrite
<1>11. CASE ClockWrite \/ GammaLock \/ BlCheck \/ BlGet \/ BlSend \/ ClockGet
            \/ ClockSend
  BY <1>11, <1>0 DEF ClockWrite, GammaLock, BlCheck, BlGet, BlSend, ClockGet,
                     ClockSend
<1>12. CASE AutoSuspend \/ SystemSuspend \/ SuspendCancel \/ SuspendFlush
            \/ SuspendFlag \/ ResumeWake \/ ResumeReset \/ ResumeZero
  BY <1>12, <1>0 DEF AutoSuspend, SystemSuspend, SuspendCancel, SuspendFlush,
                     SuspendFlag, ResumeWake, ResumeReset, ResumeZero
<1>13. CASE ResumeSync
  BY <1>13, <1>0 DEF ResumeSync
<1>14. CASE Unbind \/ DisconnectFlag \/ DisconnectCancel \/ DisconnectFlush
            \/ ChildrenRemove \/ ChildrenFreed
  BY <1>14, <1>0 DEF Unbind, DisconnectFlag, DisconnectCancel,
                     DisconnectFlush, ChildrenRemove, ChildrenFreed
<1>15. CASE UNCHANGED vars
  BY <1>15, <1>0 DEF vars
<1> QED
  BY <1>1, <1>2, <1>3, <1>4, <1>5, <1>6, <1>7, <1>8, <1>9, <1>10, <1>11,
     <1>12, <1>13, <1>14, <1>15
     DEF Next, Wq, Update, Enable, Disabling, Writers, Pm, Unplug

(* The commit and the shadow buffer.                                       *)
LEMMA DrmTypeStep ==
    ASSUME drm \in DrmType, [Next]_vars
    PROVE  drm' \in DrmType
<1> USE DEF DrmType, Content
<1>0. ASSUME UNCHANGED drm PROVE drm' \in DrmType
  BY <1>0
<1>1. CASE Commit
  BY <1>1, Zenon DEF Commit
<1>2. CASE UpdateFlush
  BY <1>2, Zenon DEF UpdateFlush
<1>3. CASE UpdateBlit
  BY <1>3, Zenon DEF UpdateBlit
<1>4. CASE UpdateBlitEnd
  BY <1>4, Zenon DEF UpdateBlitEnd
<1>5. CASE UpdateSend
  BY <1>5, Zenon DEF UpdateSend
<1>6. CASE EnableGet
  BY <1>6, Zenon DEF EnableGet
<1>7. CASE EnableOn
  BY <1>7, Zenon DEF EnableOn
<1>8. CASE VblankTick
  BY <1>8, Zenon DEF VblankTick
<1>9. CASE Disable
  BY <1>9, Zenon DEF Disable
<1>10. CASE DisableBlank
  BY <1>10, Zenon DEF DisableBlank
<1>11. CASE DisableDrain
  BY <1>11, Zenon DEF DisableDrain
<1>12. CASE DisableIdle
  BY <1>12, Zenon DEF DisableIdle
<1>13. CASE Dispatch \/ XferWorker \/ ResumeTimer \/ ResumeStart
            \/ HandlerDrm \/ HandlerSend \/ HandlerBl
  BY <1>13, <1>0 DEF Dispatch, XferWorker, ResumeTimer, ResumeStart,
                     HandlerDrm, HandlerSend, HandlerBl
<1>14. ASSUME NEW v \in Level, BlWrite(v) \/ GammaWrite(v)
       PROVE  drm' \in DrmType
  BY <1>14, <1>0 DEF BlWrite, GammaWrite
<1>15. CASE ClockWrite \/ GammaLock \/ BlCheck \/ BlGet \/ BlSend \/ ClockGet
            \/ ClockSend
  BY <1>15, <1>0 DEF ClockWrite, GammaLock, BlCheck, BlGet, BlSend, ClockGet,
                     ClockSend
<1>16. CASE AutoSuspend \/ SystemSuspend \/ SuspendCancel \/ SuspendFlush
            \/ SuspendFlag \/ ResumeWake \/ ResumeReset \/ ResumeZero
  BY <1>16, <1>0 DEF AutoSuspend, SystemSuspend, SuspendCancel, SuspendFlush,
                     SuspendFlag, ResumeWake, ResumeReset, ResumeZero
<1>17. CASE ResumeSync
  BY <1>17, <1>0 DEF ResumeSync
<1>18. CASE Unbind \/ DisconnectFlag \/ DisconnectCancel \/ DisconnectFlush
            \/ ChildrenRemove \/ ChildrenFreed
  BY <1>18, <1>0 DEF Unbind, DisconnectFlag, DisconnectCancel,
                     DisconnectFlush, ChildrenRemove, ChildrenFreed
<1>19. CASE UNCHANGED vars
  BY <1>19, <1>0 DEF vars
<1> QED
  BY <1>1, <1>2, <1>3, <1>4, <1>5, <1>6, <1>7, <1>8, <1>9, <1>10, <1>11,
     <1>12, <1>13, <1>14, <1>15, <1>16, <1>17, <1>18, <1>19
     DEF Next, Wq, Update, Enable, Disabling, Writers, Pm, Unplug

(* The backlight and its writer.                                           *)
LEMMA BlTypeStep ==
    ASSUME bl \in BlType, [Next]_vars
    PROVE  bl' \in BlType
<1> USE DEF BlType, Curve
<1>0. ASSUME UNCHANGED bl PROVE bl' \in BlType
  BY <1>0
<1>1. ASSUME NEW v \in Level, BlWrite(v) PROVE bl' \in BlType
  BY <1>1, Zenon DEF BlWrite
<1>2. ASSUME NEW v \in Level, GammaWrite(v) PROVE bl' \in BlType
  BY <1>2, Zenon DEF GammaWrite
<1>3. CASE GammaLock
  BY <1>3, Zenon DEF GammaLock
<1>4. CASE BlCheck
  BY <1>4, Zenon DEF BlCheck
<1>5. CASE BlGet
  BY <1>5, Zenon DEF BlGet
<1>6. CASE BlSend
  BY <1>6, Zenon DEF BlSend
<1>7. CASE Dispatch \/ XferWorker \/ ResumeTimer \/ ResumeStart \/ HandlerDrm
           \/ HandlerSend \/ HandlerBl
  BY <1>7, <1>0 DEF Dispatch, XferWorker, ResumeTimer, ResumeStart,
                    HandlerDrm, HandlerSend, HandlerBl
<1>8. CASE Commit \/ UpdateFlush \/ UpdateBlit \/ UpdateBlitEnd \/ UpdateSend
           \/ EnableGet \/ EnableOn \/ VblankTick
  BY <1>8, <1>0 DEF Commit, UpdateFlush, UpdateBlit, UpdateBlitEnd,
                    UpdateSend, EnableGet, EnableOn, VblankTick
<1>9. CASE Disable \/ DisableBlank \/ DisableDrain \/ DisableIdle
  BY <1>9, <1>0 DEF Disable, DisableBlank, DisableDrain, DisableIdle
<1>10. CASE ClockWrite \/ ClockGet \/ ClockSend
  BY <1>10, <1>0 DEF ClockWrite, ClockGet, ClockSend
<1>11. CASE AutoSuspend \/ SystemSuspend \/ SuspendCancel \/ SuspendFlush
            \/ SuspendFlag \/ ResumeWake \/ ResumeReset \/ ResumeZero
  BY <1>11, <1>0 DEF AutoSuspend, SystemSuspend, SuspendCancel, SuspendFlush,
                     SuspendFlag, ResumeWake, ResumeReset, ResumeZero
<1>12. CASE ResumeSync
  BY <1>12, <1>0 DEF ResumeSync
<1>13. CASE Unbind \/ DisconnectFlag \/ DisconnectCancel \/ DisconnectFlush
            \/ ChildrenRemove \/ ChildrenFreed
  BY <1>13, <1>0 DEF Unbind, DisconnectFlag, DisconnectCancel,
                     DisconnectFlush, ChildrenRemove, ChildrenFreed
<1>14. CASE UNCHANGED vars
  BY <1>14, <1>0 DEF vars
<1> QED
  BY <1>1, <1>2, <1>3, <1>4, <1>5, <1>6, <1>7, <1>8, <1>9, <1>10, <1>11,
     <1>12, <1>13, <1>14
     DEF Next, Wq, Update, Enable, Disabling, Writers, Pm, Unplug

(* The clock's writer.                                                     *)
LEMMA ClkTypeStep ==
    ASSUME clk \in {"idle", "get", "send", "bare"}, [Next]_vars
    PROVE  clk' \in {"idle", "get", "send", "bare"}
<1>0. ASSUME UNCHANGED clk PROVE clk' \in {"idle", "get", "send", "bare"}
  BY <1>0
<1>1. CASE ClockWrite
  BY <1>1 DEF ClockWrite
<1>2. CASE ClockGet
  BY <1>2 DEF ClockGet
<1>3. CASE ClockSend
  BY <1>3 DEF ClockSend
<1>4. CASE Dispatch \/ XferWorker \/ ResumeTimer \/ ResumeStart \/ HandlerDrm
           \/ HandlerSend \/ HandlerBl
  BY <1>4, <1>0 DEF Dispatch, XferWorker, ResumeTimer, ResumeStart,
                    HandlerDrm, HandlerSend, HandlerBl
<1>5. CASE Commit \/ UpdateFlush \/ UpdateBlit \/ UpdateBlitEnd \/ UpdateSend
           \/ EnableGet \/ EnableOn \/ VblankTick
  BY <1>5, <1>0 DEF Commit, UpdateFlush, UpdateBlit, UpdateBlitEnd,
                    UpdateSend, EnableGet, EnableOn, VblankTick
<1>6. CASE Disable \/ DisableBlank \/ DisableDrain \/ DisableIdle
  BY <1>6, <1>0 DEF Disable, DisableBlank, DisableDrain, DisableIdle
<1>7. ASSUME NEW v \in Level, BlWrite(v) \/ GammaWrite(v)
      PROVE  clk' \in {"idle", "get", "send", "bare"}
  BY <1>7, <1>0 DEF BlWrite, GammaWrite
<1>8. CASE GammaLock \/ BlCheck \/ BlGet \/ BlSend
  BY <1>8, <1>0 DEF GammaLock, BlCheck, BlGet, BlSend
<1>9. CASE AutoSuspend \/ SystemSuspend \/ SuspendCancel \/ SuspendFlush
           \/ SuspendFlag \/ ResumeWake \/ ResumeReset \/ ResumeZero
  BY <1>9, <1>0 DEF AutoSuspend, SystemSuspend, SuspendCancel, SuspendFlush,
                    SuspendFlag, ResumeWake, ResumeReset, ResumeZero
<1>10. CASE ResumeSync
  BY <1>10, <1>0 DEF ResumeSync
<1>11. CASE Unbind \/ DisconnectFlag \/ DisconnectCancel \/ DisconnectFlush
            \/ ChildrenRemove \/ ChildrenFreed
  BY <1>11, <1>0 DEF Unbind, DisconnectFlag, DisconnectCancel,
                     DisconnectFlush, ChildrenRemove, ChildrenFreed
<1>12. CASE UNCHANGED vars
  BY <1>12, <1>0 DEF vars
<1> QED
  BY <1>1, <1>2, <1>3, <1>4, <1>5, <1>6, <1>7, <1>8, <1>9, <1>10, <1>11,
     <1>12
     DEF Next, Wq, Update, Enable, Disabling, Writers, Pm, Unplug

(* Disconnect and removal.                                                 *)
LEMMA RemTypeStep ==
    ASSUME rem \in RemType, [Next]_vars
    PROVE  rem' \in RemType
<1> USE DEF RemType
<1>0. ASSUME UNCHANGED rem PROVE rem' \in RemType
  BY <1>0
<1>1. CASE Unbind
  BY <1>1 DEF Unbind
<1>2. CASE DisconnectFlag
  BY <1>2 DEF DisconnectFlag
<1>3. CASE DisconnectCancel
  BY <1>3 DEF DisconnectCancel
<1>4. CASE DisconnectFlush
  BY <1>4 DEF DisconnectFlush
<1>5. CASE ChildrenRemove
  BY <1>5 DEF ChildrenRemove
<1>6. CASE ChildrenFreed
  BY <1>6 DEF ChildrenFreed
<1>7. CASE Dispatch \/ XferWorker \/ ResumeTimer \/ ResumeStart \/ HandlerDrm
           \/ HandlerSend \/ HandlerBl
  BY <1>7, <1>0 DEF Dispatch, XferWorker, ResumeTimer, ResumeStart,
                    HandlerDrm, HandlerSend, HandlerBl
<1>8. CASE Commit \/ UpdateFlush \/ UpdateBlit \/ UpdateBlitEnd \/ UpdateSend
           \/ EnableGet \/ EnableOn \/ VblankTick
  BY <1>8, <1>0 DEF Commit, UpdateFlush, UpdateBlit, UpdateBlitEnd,
                    UpdateSend, EnableGet, EnableOn, VblankTick
<1>9. CASE Disable \/ DisableBlank \/ DisableDrain \/ DisableIdle
  BY <1>9, <1>0 DEF Disable, DisableBlank, DisableDrain, DisableIdle
<1>10. ASSUME NEW v \in Level, BlWrite(v) \/ GammaWrite(v)
       PROVE  rem' \in RemType
  BY <1>10, <1>0 DEF BlWrite, GammaWrite
<1>11. CASE ClockWrite \/ GammaLock \/ BlCheck \/ BlGet \/ BlSend \/ ClockGet
            \/ ClockSend
  BY <1>11, <1>0 DEF ClockWrite, GammaLock, BlCheck, BlGet, BlSend, ClockGet,
                     ClockSend
<1>12. CASE AutoSuspend \/ SystemSuspend \/ SuspendCancel \/ SuspendFlush
            \/ SuspendFlag \/ ResumeWake \/ ResumeReset \/ ResumeZero
  BY <1>12, <1>0 DEF AutoSuspend, SystemSuspend, SuspendCancel, SuspendFlush,
                     SuspendFlag, ResumeWake, ResumeReset, ResumeZero
<1>13. CASE ResumeSync
  BY <1>13, <1>0 DEF ResumeSync
<1>14. CASE UNCHANGED vars
  BY <1>14, <1>0 DEF vars
<1> QED
  BY <1>1, <1>2, <1>3, <1>4, <1>5, <1>6, <1>7, <1>8, <1>9, <1>10, <1>11,
     <1>12, <1>13, <1>14
     DEF Next, Wq, Update, Enable, Disabling, Writers, Pm, Unplug

(* The queue.                                                              *)
LEMMA QueuesStep ==
    ASSUME wq \in Queues, run \in RunType, [Next]_vars
    PROVE  wq' \in Queues
<1>0. ASSUME UNCHANGED wq PROVE wq' \in Queues
  BY <1>0
<1>1. CASE Dispatch
  BY <1>1, TailProp DEF Dispatch
<1>2. CASE ResumeTimer \/ HandlerSend \/ UpdateSend \/ DisableBlank
  BY <1>2, QueueProp DEF ResumeTimer, HandlerSend, UpdateSend, DisableBlank,
                         SendFrame, Work
<1>3. CASE SuspendCancel \/ DisconnectCancel
  BY <1>3, RemoveProp DEF SuspendCancel, DisconnectCancel
<1>4. CASE XferWorker \/ ResumeStart \/ HandlerDrm \/ HandlerBl
  BY <1>4, <1>0 DEF XferWorker, ResumeStart, HandlerDrm, HandlerBl
<1>5. CASE Commit \/ UpdateFlush \/ UpdateBlit \/ UpdateBlitEnd \/ EnableGet
           \/ EnableOn \/ VblankTick \/ Disable
  BY <1>5, <1>0 DEF Commit, UpdateFlush, UpdateBlit, UpdateBlitEnd,
                    EnableGet, EnableOn, VblankTick, Disable
<1>6. CASE DisableDrain \/ DisableIdle
  BY <1>6, <1>0 DEF DisableDrain, DisableIdle
<1>7. ASSUME NEW v \in Level, BlWrite(v) \/ GammaWrite(v)
      PROVE  wq' \in Queues
  BY <1>7, <1>0 DEF BlWrite, GammaWrite
<1>8. CASE ClockWrite \/ GammaLock \/ BlCheck \/ BlGet \/ BlSend \/ ClockGet
           \/ ClockSend
  BY <1>8, <1>0 DEF ClockWrite, GammaLock, BlCheck, BlGet, BlSend, ClockGet,
                    ClockSend
<1>9. CASE AutoSuspend \/ SystemSuspend \/ SuspendFlush \/ SuspendFlag
           \/ ResumeWake \/ ResumeReset \/ ResumeZero \/ ResumeSync
  BY <1>9, <1>0 DEF AutoSuspend, SystemSuspend, SuspendFlush, SuspendFlag,
                    ResumeWake, ResumeReset, ResumeZero, ResumeSync
<1>10. CASE Unbind \/ DisconnectFlag \/ DisconnectFlush \/ ChildrenRemove
            \/ ChildrenFreed
  BY <1>10, <1>0 DEF Unbind, DisconnectFlag, DisconnectFlush, ChildrenRemove,
                     ChildrenFreed
<1>11. CASE UNCHANGED vars
  BY <1>11, <1>0 DEF vars
<1> QED
  BY <1>1, <1>2, <1>3, <1>4, <1>5, <1>6, <1>7, <1>8, <1>9, <1>10, <1>11
     DEF Next, Wq, Update, Enable, Disabling, Writers, Pm, Unplug

-----------------------------------------------------------------------------
(* What a transfer does to the panel.                                      *)

(* The firmware has misread the wire for a reason that is neither the      *)
(* window nor a failed reset.                                              *)
Spoilt(d) == "other" \in d.garbled

(* A transfer while the bus is down spoils the stream.                     *)
LEMMA BusEffect ==
    ASSUME NEW d \in DevType
    PROVE  /\ OnBus(d) \in DevType
           /\ Spoilt(OnBus(d)) <=> Spoilt(d) \/ pm.pc = "down"
           /\ OnBus(d).latched = d.latched /\ OnBus(d).skew = d.skew
           /\ OnBus(d).refused = d.refused
           /\ OnBus(d).shown = d.shown /\ OnBus(d).level = d.level
<1>1. d.garbled \cup {"other"} \in SUBSET Cause
  BY DEF DevType, Cause
<1>2. OnBus(d) \in DevType
  BY <1>1, Zenon DEF OnBus, DevType
<1> QED
  BY <1>2 DEF OnBus, DevType, Spoilt

(* A START tag outside of the window spoils a stream that has begun, unless *)
(* the window or a failed reset left it so; it begins one that has not.    *)
LEMMA StartEffect ==
    ASSUME NEW d \in DevType
    PROVE  /\ StartTag(d) \in DevType
           /\ Spoilt(StartTag(d)) <=>
                  \/ Spoilt(d)
                  \/ d.latched /\ ~InWindow /\ d.skew = "none"
           /\ StartTag(d).latched
           /\ StartTag(d).skew = IF InWindow THEN "window" ELSE "none"
           /\ StartTag(d).refused = d.refused
           /\ StartTag(d).shown = d.shown /\ StartTag(d).level = d.level
<1> DEFINE why == IF InWindow THEN "window"
                  ELSE IF d.skew = "none" THEN "other" ELSE d.skew
           g == IF ~d.latched THEN d.garbled ELSE d.garbled \cup {why}
           k == IF InWindow THEN "window" ELSE "none"
<1>1. why \in Cause /\ (why = "other" <=> ~InWindow /\ d.skew = "none")
  BY DEF DevType, Cause
<1> HIDE DEF why
<1>2. /\ g \in SUBSET Cause
      /\ "other" \in g <=> Spoilt(d) \/ (d.latched /\ why = "other")
  <2>1. d.garbled \in SUBSET Cause
    BY DEF DevType
  <2>2. CASE d.latched
    BY <1>1, <2>1, <2>2 DEF Spoilt
  <2>3. CASE ~d.latched
    BY <2>1, <2>3 DEF Spoilt
  <2> QED
    BY <2>2, <2>3
<1>3. k \in {"none", "window", "unreset"}
  OBVIOUS
<1>4. StartTag(d) = [d EXCEPT !.garbled = g, !.latched = TRUE, !.skew = k]
  BY Zenon DEF StartTag, why
<1> HIDE DEF g, k
<1>5. StartTag(d) \in DevType
  BY <1>2, <1>3, <1>4, Zenon DEF DevType
<1>6. /\ StartTag(d).garbled = g /\ StartTag(d).latched
      /\ StartTag(d).skew = k /\ StartTag(d).refused = d.refused
      /\ StartTag(d).shown = d.shown /\ StartTag(d).level = d.level
  BY <1>4, Zenon DEF DevType
<1> QED
  BY <1>1, <1>2, <1>5, <1>6 DEF Spoilt, k

(* Pixels are shown by a panel that has latched a START; one that has not  *)
(* misreads them, which outside of the window spoils the stream.           *)
LEMMA DataEffect ==
    ASSUME NEW d \in DevType, NEW c \in Content
    PROVE  /\ FrameData(d, c) \in DevType
           /\ Spoilt(FrameData(d, c)) <=>
                  Spoilt(d) \/ (~d.latched /\ ~InWindow)
           /\ FrameData(d, c).latched = d.latched
           /\ FrameData(d, c).skew = d.skew
           /\ FrameData(d, c).refused = d.refused
           /\ FrameData(d, c).shown = IF d.latched THEN c ELSE d.shown
           /\ FrameData(d, c).level = d.level
<1> DEFINE why == IF InWindow THEN "window" ELSE "other"
<1>1. why \in Cause /\ (why = "other" <=> ~InWindow)
  BY DEF Cause
<1>2. FrameData(d, c) =
          IF d.latched THEN [d EXCEPT !.shown = c, !.framed = TRUE]
          ELSE [d EXCEPT !.garbled = @ \cup {why}]
  BY Zenon DEF FrameData
<1> HIDE DEF why
<1>3. d.garbled \cup {why} \in SUBSET Cause
  BY <1>1 DEF DevType
<1>4. FrameData(d, c) \in DevType
  BY <1>2, <1>3, Zenon DEF DevType
<1> QED
  BY <1>1, <1>2, <1>4 DEF DevType, Spoilt

(* SL_SET_BL changes the brightness, or is refused and recorded as such,   *)
(* and changes nothing of the stream.                                      *)
LEMMA LightEffect ==
    ASSUME NEW d \in DevType, NEW l \in Curve, NEW who \in {"user", "handler"}
    PROVE  /\ SetBacklight(d, l, who) \in DevType
           /\ Spoilt(SetBacklight(d, l, who)) <=> Spoilt(d)
           /\ SetBacklight(d, l, who).latched = d.latched
           /\ SetBacklight(d, l, who).skew = d.skew
           /\ SetBacklight(d, l, who).shown = d.shown
           /\ \/ SetBacklight(d, l, who).level = l
              \/ SetBacklight(d, l, who).refused # "no"
<1>1. SetBacklight(d, l, who) \in DevType
  BY Zenon DEF SetBacklight, DevType
<1> QED
  BY <1>1 DEF SetBacklight, DevType, Spoilt

(* pl_send, whole: the stream is spoilt on a bus that is down, and when,   *)
(* outside of the window and of its aftermath, the dimension cache and the *)
(* firmware disagree about the START.                                      *)
LEMMA SendEffect ==
    ASSUME dev \in DevType, drm \in DrmType, PlSend
    PROVE  /\ dev' \in DevType
           /\ Spoilt(dev)' <=>
                  \/ Spoilt(dev) \/ pm.pc = "down"
                  \/ ~InWindow /\ IF mfd.cached THEN ~dev.latched
                                   ELSE dev.latched /\ dev.skew = "none"
           /\ dev'.latched <=> dev.latched \/ ~mfd.cached
           /\ dev'.skew = IF mfd.cached THEN dev.skew
                          ELSE IF InWindow THEN "window" ELSE "none"
           /\ dev'.shown = IF dev.latched \/ ~mfd.cached THEN XferContent
                                                        ELSE dev.shown
           /\ dev'.level = dev.level /\ dev'.refused = dev.refused
<1> DEFINE t == IF mfd.cached THEN dev ELSE StartTag(dev)
           f == FrameData(t, XferContent)
<1>1. XferContent \in Content
  BY DEF XferContent, DrmType, Content
<1>2. /\ t \in DevType
      /\ Spoilt(t) <=> \/ Spoilt(dev)
                       \/ /\ ~mfd.cached /\ dev.latched
                          /\ ~InWindow /\ dev.skew = "none"
      /\ t.latched <=> dev.latched \/ ~mfd.cached
      /\ t.skew = IF mfd.cached THEN dev.skew
                  ELSE IF InWindow THEN "window" ELSE "none"
      /\ t.refused = dev.refused
      /\ t.shown = dev.shown /\ t.level = dev.level
  BY <1>1, StartEffect
<1>3. dev' = OnBus(f)
  BY DEF PlSend
<1> HIDE DEF t
<1>4. /\ f \in DevType
      /\ Spoilt(f) <=> Spoilt(t) \/ (~t.latched /\ ~InWindow)
      /\ f.latched = t.latched /\ f.skew = t.skew /\ f.level = t.level
      /\ f.refused = t.refused
      /\ f.shown = IF t.latched THEN XferContent ELSE t.shown
  BY <1>1, <1>2, DataEffect
<1> HIDE DEF f
<1>5. /\ dev' \in DevType
      /\ Spoilt(OnBus(f)) <=> Spoilt(f) \/ pm.pc = "down"
      /\ dev'.latched = f.latched /\ dev'.skew = f.skew
      /\ dev'.refused = f.refused
      /\ dev'.shown = f.shown /\ dev'.level = f.level
  BY <1>3, <1>4, BusEffect
<1>6. Spoilt(dev)' <=> Spoilt(OnBus(f))
  BY <1>3 DEF Spoilt
<1> QED
  BY <1>2, <1>4, <1>5, <1>6

(* pl_send with one of its transfers failing: the panel shows nothing new. *)
LEMMA FailEffect ==
    ASSUME dev \in DevType, PlSendFails
    PROVE  \/ UNCHANGED <<mfd, dev>>
           \/ /\ dev' \in DevType
              /\ mfd' = [mfd EXCEPT !.cached = TRUE]
              /\ Spoilt(dev)' <=>
                     \/ Spoilt(dev)
                     \/ /\ ~mfd.cached
                        /\ \/ pm.pc = "down"
                           \/ dev.latched /\ ~InWindow /\ dev.skew = "none"
              /\ dev'.latched <=> dev.latched \/ ~mfd.cached
              /\ dev'.skew = IF mfd.cached THEN dev.skew
                             ELSE IF InWindow THEN "window" ELSE "none"
              /\ dev'.refused = dev.refused
              /\ dev'.shown = dev.shown /\ dev'.level = dev.level
<1>1. CASE ~mfd.cached /\ UNCHANGED <<mfd, dev>>
  BY <1>1
<1>2. CASE /\ dev' = IF mfd.cached THEN dev ELSE OnBus(StartTag(dev))
           /\ mfd' = [mfd EXCEPT !.cached = TRUE]
  <2> DEFINE s == StartTag(dev)
  <2>1. CASE mfd.cached
    BY <1>2, <2>1 DEF Spoilt
  <2>2. CASE ~mfd.cached
    <3>1. /\ s \in DevType
          /\ Spoilt(s) <=> \/ Spoilt(dev)
                           \/ dev.latched /\ ~InWindow /\ dev.skew = "none"
          /\ s.latched /\ s.skew = IF InWindow THEN "window" ELSE "none"
          /\ s.refused = dev.refused
          /\ s.shown = dev.shown /\ s.level = dev.level
      BY StartEffect
    <3>2. dev' = OnBus(s)
      BY <1>2, <2>2
    <3> HIDE DEF s
    <3>3. /\ dev' \in DevType
          /\ Spoilt(OnBus(s)) <=> Spoilt(s) \/ pm.pc = "down"
          /\ dev'.latched = s.latched /\ dev'.skew = s.skew
          /\ dev'.refused = s.refused
          /\ dev'.shown = s.shown /\ dev'.level = s.level
      BY <3>1, <3>2, BusEffect
    <3>4. Spoilt(dev)' <=> Spoilt(OnBus(s))
      BY <3>2 DEF Spoilt
    <3> QED
      BY <1>2, <2>2, <3>1, <3>3, <3>4
  <2> QED
    BY <2>1, <2>2
<1> QED
  BY <1>1, <1>2 DEF PlSendFails

(* A brightness sent by beada_bl_resume_handler or beada_set_brightness.   *)
LEMMA LightSent ==
    ASSUME dev \in DevType, NEW l \in Curve, NEW who \in {"user", "handler"},
           dev' = OnBus(SetBacklight(dev, l, who))
    PROVE  /\ dev' \in DevType
           /\ Spoilt(dev)' <=> Spoilt(dev) \/ pm.pc = "down"
           /\ dev'.latched = dev.latched /\ dev'.skew = dev.skew
           /\ dev'.shown = dev.shown
           /\ dev'.level = l \/ dev'.refused # "no"
<1> DEFINE s == SetBacklight(dev, l, who)
<1>1. /\ s \in DevType /\ (Spoilt(s) <=> Spoilt(dev))
      /\ s.latched = dev.latched /\ s.skew = dev.skew
      /\ s.shown = dev.shown
      /\ s.level = l \/ s.refused # "no"
  BY LightEffect
<1>2. dev' = OnBus(s)
  OBVIOUS
<1> HIDE DEF s
<1>3. Spoilt(dev)' <=> Spoilt(OnBus(s))
  BY <1>2 DEF Spoilt
<1> QED
  BY <1>1, <1>2, <1>3, BusEffect

(* The panel's state.                                                      *)
LEMMA DevTypeStep ==
    ASSUME dev \in DevType, drm \in DrmType, bl \in BlType, [Next]_vars
    PROVE  dev' \in DevType
<1>0. ASSUME UNCHANGED dev PROVE dev' \in DevType
  BY <1>0
<1>a. bl.arg \in Curve /\ <<bl.stored, bl.gamma>> \in Curve
  BY DEF BlType, Curve
<1>1. CASE XferWorker
  BY <1>0, <1>1, SendEffect, FailEffect DEF XferWorker
<1>2. CASE HandlerBl \/ BlSend
  BY <1>0, <1>a, <1>2, LightSent DEF HandlerBl, BlSend
<1>3. CASE ClockSend
  BY <1>0, <1>3, BusEffect DEF ClockSend
<1>4. CASE UpdateBlit
  <2>1. (IF dev.shown = "cur" THEN "old" ELSE dev.shown) \in Content
    BY DEF DevType, Content
  <2> QED
    BY <1>4, <2>1, Zenon DEF UpdateBlit, DevType
<1>5. CASE SuspendFlag
  <2>1. <<1, 1>> \in Curve /\ "clock" \in Content
    BY LevelAssumption DEF Curve, Content
  <2>2. \/ dev' = dev
        \/ dev' = [dev EXCEPT !.latched = FALSE, !.framed = FALSE,
                             !.level = <<1, 1>>, !.shown = "clock"]
    BY <1>5 DEF SuspendFlag
  <2> QED
    BY <2>1, <2>2, Zenon DEF DevType
<1>6. CASE ResumeReset
  <2>1. \/ dev' = dev
        \/ dev' = [dev EXCEPT !.latched = FALSE, !.framed = FALSE,
                              !.skew = "none", !.shown = "clock"]
        \/ dev' = [dev EXCEPT !.skew = "unreset"]
    BY <1>6 DEF ResumeReset, PlReset, PlResetFails
  <2> QED
    BY <2>1, Zenon DEF DevType, Content
<1>7. CASE Dispatch \/ ResumeTimer \/ ResumeStart \/ HandlerDrm
           \/ HandlerSend
  BY <1>7, <1>0 DEF Dispatch, ResumeTimer, ResumeStart, HandlerDrm,
                    HandlerSend
<1>8. CASE Commit \/ UpdateFlush \/ UpdateBlitEnd \/ UpdateSend \/ EnableGet
           \/ EnableOn \/ VblankTick \/ Disable
  BY <1>8, <1>0 DEF Commit, UpdateFlush, UpdateBlitEnd, UpdateSend,
                    EnableGet, EnableOn, VblankTick, Disable
<1>9. CASE DisableBlank \/ DisableDrain \/ DisableIdle
  BY <1>9, <1>0 DEF DisableBlank, DisableDrain, DisableIdle
<1>10. ASSUME NEW v \in Level, BlWrite(v) \/ GammaWrite(v)
       PROVE  dev' \in DevType
  BY <1>10, <1>0 DEF BlWrite, GammaWrite
<1>11. CASE ClockWrite \/ GammaLock \/ BlCheck \/ BlGet \/ ClockGet
  BY <1>11, <1>0 DEF ClockWrite, GammaLock, BlCheck, BlGet, ClockGet
<1>12. CASE AutoSuspend \/ SystemSuspend \/ SuspendCancel \/ SuspendFlush
            \/ ResumeWake \/ ResumeZero \/ ResumeSync
  BY <1>12, <1>0 DEF AutoSuspend, SystemSuspend, SuspendCancel, SuspendFlush,
                     ResumeWake, ResumeZero, ResumeSync
<1>13. CASE Unbind \/ DisconnectFlag \/ DisconnectCancel \/ DisconnectFlush
            \/ ChildrenRemove \/ ChildrenFreed
  BY <1>13, <1>0 DEF Unbind, DisconnectFlag, DisconnectCancel,
                     DisconnectFlush, ChildrenRemove, ChildrenFreed
<1>14. CASE UNCHANGED vars
  BY <1>14, <1>0 DEF vars
<1> QED
  BY <1>1, <1>2, <1>3, <1>4, <1>5, <1>6, <1>7, <1>8, <1>9, <1>10, <1>11,
     <1>12, <1>13, <1>14
     DEF Next, Wq, Update, Enable, Disabling, Writers, Pm, Unplug

-----------------------------------------------------------------------------
(* Type correctness.                                                       *)

(* No step changes the environment.                                        *)
LEMMA SetupFixed == [Next]_vars => setup' = setup
<1> SUFFICES ASSUME [Next]_vars PROVE setup' = setup
  OBVIOUS
<1>0. ASSUME UNCHANGED setup PROVE setup' = setup
  BY <1>0
<1>1. CASE Dispatch \/ XferWorker \/ ResumeTimer \/ ResumeStart \/ HandlerDrm
           \/ HandlerSend \/ HandlerBl
  BY <1>1, <1>0 DEF Dispatch, XferWorker, ResumeTimer, ResumeStart,
                    HandlerDrm, HandlerSend, HandlerBl
<1>2. CASE Commit \/ UpdateFlush \/ UpdateBlit \/ UpdateBlitEnd \/ UpdateSend
           \/ EnableGet \/ EnableOn \/ VblankTick
  BY <1>2, <1>0 DEF Commit, UpdateFlush, UpdateBlit, UpdateBlitEnd,
                    UpdateSend, EnableGet, EnableOn, VblankTick
<1>3. CASE Disable \/ DisableBlank \/ DisableDrain \/ DisableIdle
  BY <1>3, <1>0 DEF Disable, DisableBlank, DisableDrain, DisableIdle
<1>4. ASSUME NEW v \in Level, BlWrite(v) \/ GammaWrite(v)
      PROVE  setup' = setup
  BY <1>4, <1>0 DEF BlWrite, GammaWrite
<1>5. CASE ClockWrite \/ GammaLock \/ BlCheck \/ BlGet \/ BlSend \/ ClockGet
           \/ ClockSend
  BY <1>5, <1>0 DEF ClockWrite, GammaLock, BlCheck, BlGet, BlSend, ClockGet,
                    ClockSend
<1>6. CASE AutoSuspend \/ SystemSuspend \/ SuspendCancel \/ SuspendFlush
           \/ SuspendFlag \/ ResumeWake \/ ResumeReset \/ ResumeZero
  BY <1>6, <1>0 DEF AutoSuspend, SystemSuspend, SuspendCancel, SuspendFlush,
                    SuspendFlag, ResumeWake, ResumeReset, ResumeZero
<1>7. CASE ResumeSync
  BY <1>7, <1>0 DEF ResumeSync
<1>8. CASE Unbind \/ DisconnectFlag \/ DisconnectCancel \/ DisconnectFlush
           \/ ChildrenRemove \/ ChildrenFreed
  BY <1>8, <1>0 DEF Unbind, DisconnectFlag, DisconnectCancel,
                    DisconnectFlush, ChildrenRemove, ChildrenFreed
<1>9. CASE UNCHANGED vars
  BY <1>9, <1>0 DEF vars
<1> QED
  BY <1>1, <1>2, <1>3, <1>4, <1>5, <1>6, <1>7, <1>8, <1>9
     DEF Next, Wq, Update, Enable, Disabling, Writers, Pm, Unplug

(* A frame worker that is queued has a frame staged: no sender stages      *)
(* "none".  The handler that is about to send has chosen a source.         *)
StagedInv ==
    /\ Contains(wq, "xfer") => mfd.xfer_src # "none"
    /\ run.work = "resume" /\ run.pc = "send" => run.src # "none"

(* The type invariant with what makes it inductive.                        *)
Typed ==
    /\ setup \in Setups
    /\ mfd \in MfdType /\ pm \in PmType /\ wq \in Queues /\ run \in RunType
    /\ drm \in DrmType /\ bl \in BlType /\ rem \in RemType /\ dev \in DevType
    /\ clk \in {"idle", "get", "send", "bare"}

(* Every part of it holds over every step.                                 *)
LEMMA TypedStep == Typed /\ [Next]_vars => Typed'
BY SetupFixed, MfdTypeStep, PmTypeStep, QueuesStep, RunTypeStep, DrmTypeStep,
   BlTypeStep, ClkTypeStep, RemTypeStep, DevTypeStep
   DEF Typed

(* It holds after probe.                                                   *)
LEMMA TypedInit == Init => Typed
<1> SUFFICES ASSUME Init PROVE Typed
  OBVIOUS
<1>1. setup \in Setups /\ clk \in {"idle", "get", "send", "bare"}
  BY DEF Init
<1>2. mfd \in MfdType
  BY Zenon DEF Init, MfdType
<1>3. pm \in PmType /\ rem \in RemType
  BY Zenon DEF Init, PmType, RemType
<1>4. wq \in Queues
  BY DEF Init, Queues
<1>5. run \in RunType
  BY DEF Init, RunType
<1>6. drm \in DrmType
  BY Zenon DEF Init, DrmType, Content
<1>7. bl \in BlType
  BY LevelAssumption, Zenon DEF Init, BlType, Curve
<1>8. dev \in DevType
  BY LevelAssumption, Zenon DEF Init, DevType, Content, Curve
<1> QED
  BY <1>1, <1>2, <1>3, <1>4, <1>5, <1>6, <1>7, <1>8 DEF Typed

(* beada_send_frame stages the frame before it queues the worker.          *)
LEMMA StagedStep ==
    ASSUME Typed, StagedInv, [Next]_vars
    PROVE  StagedInv'
<1> USE DEF StagedInv, MfdType, RunType
<1>a. mfd \in MfdType /\ run \in RunType /\ wq \in Queues
  BY DEF Typed
<1>0. ASSUME UNCHANGED <<wq, run>>, mfd'.xfer_src = mfd.xfer_src
      PROVE  StagedInv'
  BY <1>0
<1>1. CASE Dispatch
  BY <1>a, <1>1, TailProp DEF Dispatch, Work
<1>2. CASE XferWorker
  BY <1>a, <1>2 DEF XferWorker, PlSend, PlSendFails
<1>3. CASE ResumeTimer
  BY <1>a, <1>3, QueueProp DEF ResumeTimer, Work
<1>4. CASE ResumeStart \/ HandlerBl
  BY <1>a, <1>4 DEF ResumeStart, HandlerBl
<1>5. CASE HandlerDrm
  BY <1>a, <1>5 DEF HandlerDrm
<1>6. CASE HandlerSend
  BY <1>a, <1>6 DEF HandlerSend, SendFrame
<1>7. CASE UpdateSend \/ DisableBlank
  BY <1>a, <1>7 DEF UpdateSend, DisableBlank, SendFrame
<1>8. CASE SuspendCancel \/ DisconnectCancel
  BY <1>a, <1>8, RemoveProp DEF SuspendCancel, DisconnectCancel
<1>9. CASE SuspendFlag \/ ResumeWake \/ ResumeReset \/ ResumeZero
  BY <1>a, <1>0, <1>9 DEF SuspendFlag, ResumeWake, ResumeReset, ResumeZero
<1>10. CASE ResumeSync \/ DisconnectFlag
  BY <1>a, <1>0, <1>10 DEF ResumeSync, DisconnectFlag
<1>11. CASE Commit \/ UpdateFlush \/ UpdateBlit \/ UpdateBlitEnd \/ EnableGet
            \/ EnableOn \/ VblankTick \/ Disable
  BY <1>11, <1>0 DEF Commit, UpdateFlush, UpdateBlit, UpdateBlitEnd,
                     EnableGet, EnableOn, VblankTick, Disable
<1>12. CASE DisableDrain \/ DisableIdle
  BY <1>12, <1>0 DEF DisableDrain, DisableIdle
<1>13. ASSUME NEW v \in Level, BlWrite(v) \/ GammaWrite(v)
       PROVE  StagedInv'
  BY <1>13, <1>0 DEF BlWrite, GammaWrite
<1>14. CASE ClockWrite \/ GammaLock \/ BlCheck \/ BlGet \/ BlSend \/ ClockGet
            \/ ClockSend
  BY <1>14, <1>0 DEF ClockWrite, GammaLock, BlCheck, BlGet, BlSend, ClockGet,
                     ClockSend
<1>15. CASE AutoSuspend \/ SystemSuspend \/ SuspendFlush
  BY <1>15, <1>0 DEF AutoSuspend, SystemSuspend, SuspendFlush
<1>16. CASE Unbind \/ DisconnectFlush \/ ChildrenRemove \/ ChildrenFreed
  BY <1>16, <1>0 DEF Unbind, DisconnectFlush, ChildrenRemove, ChildrenFreed
<1>17. CASE UNCHANGED vars
  BY <1>17, <1>0 DEF vars
<1> QED
  BY <1>1, <1>2, <1>3, <1>4, <1>5, <1>6, <1>7, <1>8, <1>9, <1>10, <1>11,
     <1>12, <1>13, <1>14, <1>15, <1>16, <1>17
     DEF Next, Wq, Update, Enable, Disabling, Writers, Pm, Unplug

(* Type correctness: the frame worker never runs with nothing staged.      *)
THEOREM BeadaTypeTheorem == Spec => []TypeOK
<1>1. Init => StagedInv
  BY DEF Init, StagedInv, Contains
<1>2. Typed /\ StagedInv => TypeOK
  <2> SUFFICES ASSUME Typed, StagedInv PROVE TypeOK
    OBVIOUS
  <2>1. wq \in Seq({"xfer", "resume"})
    BY DEF Typed, Queues
  <2> QED
    BY <2>1, Zenon DEF Typed, StagedInv, TypeOK, MfdType, PmType, RunType,
                       DrmType, BlType, RemType, DevType
<1> QED
  BY <1>1, <1>2, TypedInit, TypedStep, StagedStep, PTL DEF Spec

-----------------------------------------------------------------------------
(* The stream stays in step with the firmware.                             *)

(* Before disconnect; and from the suspended flag's raising until the      *)
(* dimension cache is zeroed.                                              *)
Live == ~mfd.disconnected
Window == {"down", "reset", "zero"}

(* disconnect has raised its flag.                                         *)
Removed == {"cancel", "flush", "unplug", "shutdown", "freed"}

(* The flags say what the PM core and disconnect are in the middle of, and *)
(* the PM core starts nothing on an interface that is being unbound.       *)
ModeInv ==
    /\ mfd.suspended <=> pm.pc = "down"
    /\ mfd.disconnected <=> rem \in Removed
    /\ rem \in Removed => pm.pc = "idle"

(* Outside the window the firmware has latched a START while the cache     *)
(* holds dimensions; with an empty cache it has latched none, unless the   *)
(* window or a failed reset left one, and the same when the cache is about *)
(* to be zeroed: pl_send never sends a tag for pixels or pixels for a tag. *)
WireInv ==
    /\ ~Spoilt(dev)
    /\ Live /\ pm.pc \notin Window =>
           IF mfd.cached THEN dev.latched
                         ELSE dev.latched => dev.skew # "none"
    /\ Live /\ pm.pc = "zero" => (dev.latched => dev.skew # "none")

(* No step changes a flag without the progress it stands for.              *)
LEMMA ModeStep ==
    ASSUME Typed, ModeInv, [Next]_vars
    PROVE  ModeInv'
<1> USE DEF MfdType, PmType, ModeInv, Removed
<1>a. mfd \in MfdType /\ pm \in PmType /\ rem \in RemType
  BY DEF Typed
<1>0. ASSUME mfd'.suspended = mfd.suspended,
             mfd'.disconnected = mfd.disconnected,
             pm'.pc = pm.pc, rem' = rem
      PROVE  ModeInv'
  BY <1>0
<1>1. CASE XferWorker
  BY <1>a, <1>0, <1>1 DEF XferWorker, PlSend, PlSendFails
<1>2. CASE ResumeTimer \/ HandlerSend \/ UpdateSend \/ DisableBlank
  BY <1>a, <1>0, <1>2 DEF ResumeTimer, HandlerSend, UpdateSend, DisableBlank,
                          SendFrame
<1>3. CASE ResumeStart \/ HandlerBl \/ EnableGet \/ DisableIdle
  BY <1>a, <1>0, <1>3 DEF ResumeStart, HandlerBl, EnableGet, DisableIdle
<1>4. CASE BlCheck \/ BlSend \/ ClockWrite \/ ClockSend
  BY <1>a, <1>0, <1>4 DEF BlCheck, BlSend, ClockWrite, ClockSend
<1>5. CASE AutoSuspend \/ SystemSuspend
  BY <1>a, <1>5 DEF AutoSuspend, SystemSuspend
<1>6. CASE SuspendCancel \/ SuspendFlush
  BY <1>a, <1>6 DEF SuspendCancel, SuspendFlush
<1>7. CASE SuspendFlag \/ ResumeWake
  BY <1>a, <1>7 DEF SuspendFlag, ResumeWake
<1>8. CASE ResumeReset \/ ResumeZero \/ ResumeSync
  BY <1>a, <1>8 DEF ResumeReset, ResumeZero, ResumeSync
<1>9. CASE Unbind \/ DisconnectFlag
  BY <1>a, <1>9 DEF Unbind, DisconnectFlag
<1>10. CASE DisconnectCancel \/ DisconnectFlush
  BY <1>a, <1>10 DEF DisconnectCancel, DisconnectFlush
<1>11. CASE ChildrenRemove \/ ChildrenFreed
  BY <1>a, <1>11 DEF ChildrenRemove, ChildrenFreed
<1>12. CASE Dispatch \/ HandlerDrm
  BY <1>12, <1>0 DEF Dispatch, HandlerDrm
<1>13. CASE Commit \/ UpdateFlush \/ UpdateBlit \/ UpdateBlitEnd \/ EnableOn
            \/ VblankTick \/ Disable \/ DisableDrain
  BY <1>13, <1>0 DEF Commit, UpdateFlush, UpdateBlit, UpdateBlitEnd,
                     EnableOn, VblankTick, Disable, DisableDrain
<1>14. ASSUME NEW v \in Level, BlWrite(v) \/ GammaWrite(v)
       PROVE  ModeInv'
  BY <1>14, <1>0 DEF BlWrite, GammaWrite
<1>15. CASE GammaLock \/ BlGet \/ ClockGet
  BY <1>15, <1>0 DEF GammaLock, BlGet, ClockGet
<1>16. CASE UNCHANGED vars
  BY <1>16, <1>0 DEF vars
<1> QED
  BY <1>1, <1>2, <1>3, <1>4, <1>5, <1>6, <1>7, <1>8, <1>9, <1>10, <1>11,
     <1>12, <1>13, <1>14, <1>15, <1>16
     DEF Next, Wq, Update, Enable, Disabling, Writers, Pm, Unplug

(* The cache follows the firmware through every send and every resume.     *)
LEMMA WireStep ==
    ASSUME Typed, ModeInv, WireInv, [Next]_vars
    PROVE  WireInv'
<1> USE DEF MfdType, PmType, ModeInv, WireInv, Live, Window, Removed
<1>a. /\ mfd \in MfdType /\ pm \in PmType
      /\ dev \in DevType /\ drm \in DrmType
      /\ bl.arg \in Curve /\ <<bl.stored, bl.gamma>> \in Curve
  BY DEF Typed, BlType, Curve
<1>0. ASSUME Spoilt(dev)' <=> Spoilt(dev), dev'.skew = dev.skew,
             dev'.latched <=> dev.latched, mfd'.cached <=> mfd.cached,
             mfd'.disconnected <=> mfd.disconnected, pm'.pc = pm.pc
      PROVE  WireInv'
  BY <1>0
<1>b. Alive => pm.pc # "down" /\ Live
  BY DEF Alive
<1>1. CASE XferWorker
  <2>1. CASE UNCHANGED <<mfd, dev>>
    BY <1>0, <1>1, <2>1 DEF XferWorker
  <2>2. CASE Alive /\ PlSend
    <3>1. pm' = pm /\ mfd' = [mfd EXCEPT !.cached = TRUE]
      BY <1>1, <2>2 DEF XferWorker, PlSend
    <3>2. /\ ~Spoilt(dev)' /\ (dev'.latched \/ InWindow)
          /\ dev'.skew = IF mfd.cached THEN dev.skew
                         ELSE IF InWindow THEN "window" ELSE "none"
          /\ mfd.cached => (dev'.latched <=> dev.latched)
      <4>1. ~InWindow => IF mfd.cached THEN dev.latched
                                       ELSE dev.latched => dev.skew # "none"
        BY <1>b, <2>2 DEF InWindow
      <4> QED
        <5>1. ~Spoilt(dev) /\ pm.pc # "down"
          BY <1>b, <2>2
        <5>2. /\ Spoilt(dev)' <=>
                    \/ Spoilt(dev) \/ pm.pc = "down"
                    \/ ~InWindow /\ IF mfd.cached THEN ~dev.latched
                                     ELSE dev.latched /\ dev.skew = "none"
              /\ dev'.latched <=> dev.latched \/ ~mfd.cached
              /\ dev'.skew = IF mfd.cached THEN dev.skew
                             ELSE IF InWindow THEN "window" ELSE "none"
          BY <1>a, <2>2, SendEffect
        <5> QED
          BY <4>1, <5>1, <5>2
    <3> QED
      BY <1>a, <1>b, <2>2, <3>1, <3>2 DEF InWindow
  <2>3. CASE Alive /\ PlSendFails
    BY <1>a, <1>b, <1>0, <1>1, <2>3, FailEffect DEF XferWorker, InWindow
  <2> QED
    BY <1>1, <2>1, <2>2, <2>3 DEF XferWorker
<1>2. CASE HandlerBl
  BY <1>a, <1>b, <1>0, <1>2, LightSent DEF HandlerBl
<1>3. CASE BlSend
  BY <1>a, <1>b, <1>0, <1>3, LightSent DEF BlSend
<1>4. CASE ClockSend
  BY <1>a, <1>b, <1>0, <1>4, BusEffect DEF ClockSend
<1>5. CASE UpdateBlit
  BY <1>a, <1>0, <1>5 DEF UpdateBlit, DevType, Spoilt
<1>6. CASE ResumeTimer \/ HandlerSend \/ UpdateSend \/ DisableBlank
  BY <1>a, <1>0, <1>6 DEF ResumeTimer, HandlerSend, UpdateSend, DisableBlank,
                          SendFrame
<1>7. CASE ResumeStart \/ EnableGet \/ DisableIdle
  BY <1>a, <1>0, <1>7 DEF ResumeStart, EnableGet, DisableIdle
<1>8. CASE BlCheck \/ ClockWrite
  BY <1>a, <1>0, <1>8 DEF BlCheck, ClockWrite
<1>9. CASE AutoSuspend \/ SystemSuspend
  BY <1>a, <1>9 DEF AutoSuspend, SystemSuspend
<1>10. CASE SuspendCancel \/ SuspendFlush
  BY <1>a, <1>10 DEF SuspendCancel, SuspendFlush
<1>11. CASE SuspendFlag
  <2>1. /\ pm.pc = "flag" /\ pm'.pc = "down" /\ dev'.garbled = dev.garbled
        /\ mfd'.disconnected = mfd.disconnected
    BY <1>a, <1>11 DEF SuspendFlag, DevType
  <2> QED
    BY <2>1 DEF Spoilt
<1>12. CASE ResumeWake
  BY <1>a, <1>12 DEF ResumeWake
<1>13. CASE ResumeReset
  <2>1. /\ pm.pc = "reset" /\ pm'.pc = "zero"
        /\ mfd'.disconnected = mfd.disconnected
    BY <1>a, <1>13 DEF ResumeReset
  <2>2. CASE PlReset
    BY <1>a, <2>1, <2>2 DEF PlReset, DevType, Alive, Spoilt
  <2>3. CASE PlResetFails
    BY <1>a, <2>1, <2>3 DEF PlResetFails, DevType, Spoilt
  <2> QED
    BY <1>13, <2>2, <2>3 DEF ResumeReset
<1>14. CASE ResumeZero
  <2>1. /\ pm.pc = "zero" /\ pm'.pc = "sync" /\ ~mfd'.cached
        /\ mfd'.disconnected = mfd.disconnected /\ dev' = dev
    BY <1>a, <1>14 DEF ResumeZero
  <2> QED
    BY <2>1
<1>15. CASE ResumeSync
  <2>1. /\ pm.pc = "sync" /\ pm'.pc = "idle" /\ dev' = dev
        /\ mfd'.cached = mfd.cached /\ mfd'.disconnected = mfd.disconnected
    BY <1>a, <1>15 DEF ResumeSync
  <2> QED
    BY <2>1
<1>16. CASE Unbind \/ ChildrenFreed
  BY <1>a, <1>0, <1>16 DEF Unbind, ChildrenFreed
<1>17. CASE DisconnectFlag \/ DisconnectCancel
  BY <1>a, <1>0, <1>17 DEF DisconnectFlag, DisconnectCancel
<1>18. CASE Dispatch \/ HandlerDrm
  BY <1>18, <1>0 DEF Dispatch, HandlerDrm
<1>19. CASE Commit \/ UpdateFlush \/ UpdateBlitEnd \/ EnableOn \/ VblankTick
            \/ Disable \/ DisableDrain
  BY <1>19, <1>0 DEF Commit, UpdateFlush, UpdateBlitEnd, EnableOn,
                     VblankTick, Disable, DisableDrain
<1>20. ASSUME NEW v \in Level, BlWrite(v) \/ GammaWrite(v)
       PROVE  WireInv'
  BY <1>20, <1>0 DEF BlWrite, GammaWrite
<1>21. CASE GammaLock \/ BlGet \/ ClockGet
  BY <1>21, <1>0 DEF GammaLock, BlGet, ClockGet
<1>22. CASE DisconnectFlush \/ ChildrenRemove
  BY <1>22, <1>0 DEF DisconnectFlush, ChildrenRemove
<1>23. CASE UNCHANGED vars
  BY <1>23, <1>0 DEF vars
<1> QED
  BY <1>1, <1>2, <1>3, <1>4, <1>5, <1>6, <1>7, <1>8, <1>9, <1>10, <1>11,
     <1>12, <1>13, <1>14, <1>15, <1>16, <1>17, <1>18, <1>19, <1>20, <1>21,
     <1>22, <1>23
     DEF Next, Wq, Update, Enable, Disabling, Writers, Pm, Unplug

(* Nothing is suspended or unbound after probe.                            *)
LEMMA ModeInit == Init => ModeInv
BY DEF Init, ModeInv, Removed

(* The firmware misreads the stream for two reasons alone, a frame in the  *)
(* window of a resume and a failed PL_RESET, and never once it is back in  *)
(* step, through every suspend, loss of the panel's state and failed frame.*)
THEOREM WireTheorem == Spec => []WireInStep
<1>1. Init => WireInv
  BY DEF Init, WireInv, Spoilt
<1>2. WireInv => WireInStep
  BY DEF WireInv, WireInStep, Spoilt
<1> QED
  BY <1>1, <1>2, TypedInit, TypedStep, ModeInit, ModeStep, WireStep, PTL
     DEF Spec

-----------------------------------------------------------------------------
(* Nothing outlives the parent.                                            *)

(* Who holds an autopm reference.                                          *)
PipeUser == drm.on \/ drm.pc = "wait"
ClkUser == clk \in {"get", "send"}
WorkUser == run.work = "resume" /\ run.pc # "start"
UnbindUser == rem \notin {"bound", "freed"}

(* An autopm reference is held exactly by those who must give it back.     *)
UsersInv ==
    /\ "pipe" \in pm.users <=> drm.on \/ drm.pc = "wait"
    /\ "bl" \in pm.users <=> bl.ref
    /\ "clk" \in pm.users <=> clk \in {"get", "send"}
    /\ "work" \in pm.users <=> run.work = "resume" /\ run.pc # "start"
    /\ "unbind" \in pm.users <=> rem \notin {"bound", "freed"}
    /\ bl.pc \in {"idle", "check"} => ~bl.ref

(* The pipe a commit opens is closed, and the one a disable closes is      *)
(* open.                                                                   *)
PipeInv ==
    /\ drm.pc \in {"flush", "blit", "blitting", "send"} =>
           (drm.opening <=> ~drm.on)
    /\ drm.pc \in {"off", "drain", "invalid"} => drm.on

(* What each step of disconnect and of the children's removal has waited   *)
(* for never comes back: the deferred handlers once they are cancelled,    *)
(* the frame worker but for the commit that closes the pipe, and the       *)
(* writers.                                                                *)
DrainInv ==
    /\ rem \in {"flush", "unplug", "shutdown", "freed"} => ~HandlersDue
    /\ rem \in {"unplug", "shutdown", "freed"} =>
          /\ XferIdle \/ drm.on \/ drm.pc \in {"get", "wait"}
          /\ drm.pc = "invalid" => XferIdle
    /\ rem \in {"shutdown", "freed"} =>
          /\ bl.pc = "idle" /\ ~bl.waiting /\ clk = "idle"
          /\ drm.pc \in {"idle", "off", "drain", "invalid"}
    /\ rem = "freed" => drm.pc = "idle" /\ ~drm.on

(* Every get is matched by the put on the same path.                       *)
LEMMA UsersStep ==
    ASSUME Typed, UsersInv, [Next]_vars
    PROVE  UsersInv'
<1> USE DEF PmType, RunType, DrmType, BlType, RemType, UsersInv
<1>a. /\ pm \in PmType /\ run \in RunType /\ drm \in DrmType
      /\ bl \in BlType /\ rem \in RemType /\ wq \in Queues
  BY DEF Typed
<1>p. pm \in PmType
  BY <1>a
<1>0. ASSUME pm'.users = pm.users, PipeUser' <=> PipeUser,
             bl'.ref <=> bl.ref, bl'.pc \in {"idle", "check"} => ~bl.ref,
             ClkUser' <=> ClkUser, WorkUser' <=> WorkUser,
             UnbindUser' <=> UnbindUser
      PROVE  UsersInv'
  BY <1>0 DEF PipeUser, ClkUser, WorkUser, UnbindUser
<1>1. CASE Dispatch \/ XferWorker
  <2>1. /\ pm'.users = pm.users
        /\ UNCHANGED <<drm, bl, clk, rem>>
        /\ (WorkUser' <=> WorkUser)
    BY <1>a, <1>1 DEF Dispatch, XferWorker, WorkUser
  <2> QED
    BY <1>0, <2>1 DEF PipeUser, WorkUser, ClkUser, UnbindUser
<1>2. CASE ResumeStart
  <2>1. /\ UNCHANGED <<drm, bl, clk, rem>>
        /\ \/ /\ pm' = pm /\ run.work = "resume" /\ run.pc = "start"
              /\ run'.work = "none"
           \/ /\ pm'.users = pm.users \cup {"work"}
              /\ run'.work = "resume" /\ run'.pc = "get"
    BY <1>a, <1>2 DEF ResumeStart
  <2> QED
    BY <2>1 DEF PipeUser, WorkUser, ClkUser, UnbindUser
<1>3. CASE HandlerDrm \/ HandlerSend
  <2>1. /\ pm'.users = pm.users
        /\ UNCHANGED <<drm, bl, clk, rem>>
        /\ (WorkUser' <=> WorkUser)
    BY <1>a, <1>3, ZenonT(60) DEF HandlerDrm, HandlerSend, WorkUser
  <2> QED
    BY <1>0, <2>1 DEF PipeUser, WorkUser, ClkUser, UnbindUser
<1>4. CASE HandlerBl
  <2>1. /\ UNCHANGED <<drm, bl, clk, rem>>
        /\ pm'.users = pm.users \ {"work"} /\ run'.work = "none"
    BY <1>a, <1>4 DEF HandlerBl
  <2> QED
    BY <2>1 DEF PipeUser, WorkUser, ClkUser, UnbindUser
<1>5. CASE ResumeTimer
  <2>1. /\ pm'.users = pm.users
        /\ UNCHANGED <<run, drm, bl, clk, rem>>
    BY <1>p, <1>5 DEF ResumeTimer
  <2> QED
    BY <1>0, <2>1 DEF PipeUser, WorkUser, ClkUser, UnbindUser
<1>6. CASE Commit
  <2>1. /\ pm'.users = pm.users
        /\ UNCHANGED <<run, bl, clk, rem>>
        /\ drm'.on = drm.on /\ drm.pc # "wait" /\ drm'.pc # "wait"
    BY <1>a, <1>6 DEF Commit
  <2> QED
    BY <1>0, <2>1 DEF PipeUser, WorkUser, ClkUser, UnbindUser
<1>7. CASE UpdateFlush \/ UpdateBlit
  <2>1. pm'.users = pm.users /\ UNCHANGED <<run, bl, clk, rem>>
    BY <1>7 DEF UpdateFlush, UpdateBlit
  <2>2. drm'.on = drm.on /\ drm.pc # "wait" /\ drm'.pc # "wait"
    <3>1. CASE UpdateFlush
      BY <1>a, <3>1 DEF UpdateFlush
    <3>2. CASE UpdateBlit
      BY <1>a, <3>2 DEF UpdateBlit
    <3> QED
      BY <1>7, <3>1, <3>2
  <2> QED
    BY <1>0, <2>1, <2>2 DEF PipeUser, WorkUser, ClkUser, UnbindUser
<1>8. CASE UpdateBlitEnd \/ UpdateSend
  <2>1. pm'.users = pm.users /\ UNCHANGED <<run, bl, clk, rem>>
    BY <1>8 DEF UpdateBlitEnd, UpdateSend
  <2>2. drm'.on = drm.on /\ drm.pc # "wait" /\ drm'.pc # "wait"
    <3>1. CASE UpdateBlitEnd
      BY <1>a, <3>1 DEF UpdateBlitEnd
    <3>2. CASE UpdateSend
      BY <1>a, <3>2 DEF UpdateSend
    <3> QED
      BY <1>8, <3>1, <3>2
  <2> QED
    BY <1>0, <2>1, <2>2 DEF PipeUser, WorkUser, ClkUser, UnbindUser
<1>9. CASE EnableGet
  <2>1. /\ UNCHANGED <<run, bl, clk, rem>>
        /\ pm'.users = pm.users \cup {"pipe"} /\ drm'.pc = "wait"
    BY <1>a, <1>9 DEF EnableGet
  <2> QED
    BY <2>1 DEF PipeUser, WorkUser, ClkUser, UnbindUser
<1>10. CASE EnableOn
  <2>1. /\ pm'.users = pm.users
        /\ UNCHANGED <<run, bl, clk, rem>>
        /\ drm.pc = "wait" /\ drm'.on
    BY <1>a, <1>10 DEF EnableOn
  <2> QED
    BY <1>0, <2>1 DEF PipeUser, WorkUser, ClkUser, UnbindUser
<1>11. CASE VblankTick \/ Disable
  <2>1. pm'.users = pm.users /\ UNCHANGED <<run, bl, clk, rem>>
    BY <1>11 DEF VblankTick, Disable
  <2>2. PipeUser' <=> PipeUser
    <3>1. CASE VblankTick
      BY <1>a, <3>1 DEF VblankTick, PipeUser
    <3>2. CASE Disable
      BY <1>a, <3>2 DEF Disable, PipeUser
    <3> QED
      BY <1>11, <3>1, <3>2
  <2> QED
    BY <1>0, <2>1, <2>2 DEF PipeUser, WorkUser, ClkUser, UnbindUser
<1>12. CASE DisableBlank \/ DisableDrain
  <2>1. pm'.users = pm.users /\ UNCHANGED <<run, bl, clk, rem>>
    BY <1>12 DEF DisableBlank, DisableDrain
  <2>2. PipeUser' <=> PipeUser
    <3>1. CASE DisableBlank
      BY <1>a, <3>1 DEF DisableBlank, PipeUser
    <3>2. CASE DisableDrain
      BY <1>a, <3>2 DEF DisableDrain, PipeUser
    <3> QED
      BY <1>12, <3>1, <3>2
  <2> QED
    BY <1>0, <2>1, <2>2 DEF PipeUser, WorkUser, ClkUser, UnbindUser
<1>13. CASE DisableIdle
  <2>1. /\ UNCHANGED <<run, bl, clk, rem>>
        /\ pm'.users = pm.users \ {"pipe"} /\ ~drm'.on /\ drm'.pc = "idle"
    BY <1>a, <1>13 DEF DisableIdle
  <2> QED
    BY <2>1 DEF PipeUser, WorkUser, ClkUser, UnbindUser
<1>14. ASSUME NEW v \in Level, BlWrite(v) \/ GammaWrite(v) PROVE UsersInv'
  <2>1. /\ pm'.users = pm.users
        /\ UNCHANGED <<run, drm, clk, rem>>
        /\ bl'.ref = bl.ref
        /\ bl.pc \in {"idle", "check"} \/ bl'.pc = bl.pc
    BY <1>a, <1>14 DEF BlWrite, GammaWrite, BlFree
  <2> QED
    BY <1>0, <2>1 DEF PipeUser, WorkUser, ClkUser, UnbindUser
<1>15. CASE ClockWrite
  <2>1. /\ UNCHANGED <<run, drm, bl, rem>>
        /\ \/ pm' = pm /\ clk = "idle" /\ clk' = "bare"
           \/ pm'.users = pm.users \cup {"clk"} /\ clk' = "get"
    BY <1>a, <1>15 DEF ClockWrite
  <2> QED
    BY <2>1 DEF PipeUser, WorkUser, ClkUser, UnbindUser
<1>16. CASE GammaLock
  <2>1. /\ pm'.users = pm.users
        /\ UNCHANGED <<run, drm, clk, rem>>
        /\ bl'.ref = bl.ref /\ bl.pc = "idle"
    BY <1>a, <1>16 DEF GammaLock
  <2> QED
    BY <1>0, <2>1 DEF PipeUser, WorkUser, ClkUser, UnbindUser
<1>17. CASE BlGet
  <2>1. /\ pm'.users = pm.users
        /\ UNCHANGED <<run, drm, clk, rem>>
        /\ bl'.ref = bl.ref /\ bl'.pc = "send"
    BY <1>a, <1>17 DEF BlGet
  <2> QED
    BY <1>0, <2>1 DEF PipeUser, WorkUser, ClkUser, UnbindUser
<1>18. CASE BlCheck
  <2>1. /\ UNCHANGED <<run, drm, clk, rem>>
        /\ \/ pm'.users = pm.users \cup {"bl"} /\ bl'.ref /\ bl'.pc = "get"
           \/ pm' = pm /\ ~bl'.ref /\ "bl" \notin pm.users
    BY <1>a, <1>18 DEF BlCheck
  <2> QED
    BY <2>1 DEF PipeUser, WorkUser, ClkUser, UnbindUser
<1>19. CASE BlSend
  <2>1. /\ UNCHANGED <<run, drm, clk, rem>>
        /\ /\ ~bl'.ref
           /\ pm'.users = pm.users \ {"bl"} \/ (pm' = pm /\ ~bl.ref)
    BY <1>a, <1>19 DEF BlSend
  <2> QED
    BY <2>1 DEF PipeUser, WorkUser, ClkUser, UnbindUser
<1>20. CASE ClockGet
  <2>1. /\ pm'.users = pm.users
        /\ UNCHANGED <<run, drm, bl, rem>>
        /\ (ClkUser' <=> ClkUser)
    BY <1>a, <1>20 DEF ClockGet, ClkUser
  <2> QED
    BY <1>0, <2>1 DEF PipeUser, WorkUser, ClkUser, UnbindUser
<1>21. CASE ClockSend
  <2>1. /\ UNCHANGED <<run, drm, bl, rem>>
        /\ pm'.users = pm.users \ {"clk"} /\ clk' = "idle"
    BY <1>a, <1>21 DEF ClockSend
  <2> QED
    BY <2>1 DEF PipeUser, WorkUser, ClkUser, UnbindUser
<1>22. CASE AutoSuspend
  <2>1. /\ pm'.users = pm.users
        /\ UNCHANGED <<run, drm, bl, clk, rem>>
    BY <1>p, <1>22 DEF AutoSuspend
  <2> QED
    BY <1>0, <2>1 DEF PipeUser, WorkUser, ClkUser, UnbindUser
<1>23. CASE SystemSuspend
  <2>1. /\ pm'.users = pm.users
        /\ UNCHANGED <<run, drm, bl, clk, rem>>
    BY <1>p, <1>23 DEF SystemSuspend
  <2> QED
    BY <1>0, <2>1 DEF PipeUser, WorkUser, ClkUser, UnbindUser
<1>24. CASE SuspendCancel
  <2>1. /\ pm'.users = pm.users
        /\ UNCHANGED <<run, drm, bl, clk, rem>>
    BY <1>p, <1>24 DEF SuspendCancel
  <2> QED
    BY <1>0, <2>1 DEF PipeUser, WorkUser, ClkUser, UnbindUser
<1>25. CASE SuspendFlush
  <2>1. /\ pm'.users = pm.users
        /\ UNCHANGED <<run, drm, bl, clk, rem>>
    BY <1>p, <1>25 DEF SuspendFlush
  <2> QED
    BY <1>0, <2>1 DEF PipeUser, WorkUser, ClkUser, UnbindUser
<1>26. CASE SuspendFlag
  <2>1. /\ pm'.users = pm.users
        /\ UNCHANGED <<run, drm, bl, clk, rem>>
    BY <1>p, <1>26 DEF SuspendFlag
  <2> QED
    BY <1>0, <2>1 DEF PipeUser, WorkUser, ClkUser, UnbindUser
<1>27. CASE ResumeWake
  <2>1. /\ pm'.users = pm.users
        /\ UNCHANGED <<run, drm, bl, clk, rem>>
    BY <1>p, <1>27 DEF ResumeWake
  <2> QED
    BY <1>0, <2>1 DEF PipeUser, WorkUser, ClkUser, UnbindUser
<1>28. CASE ResumeReset
  <2>1. /\ pm'.users = pm.users
        /\ UNCHANGED <<run, drm, bl, clk, rem>>
    BY <1>p, <1>28 DEF ResumeReset
  <2> QED
    BY <1>0, <2>1 DEF PipeUser, WorkUser, ClkUser, UnbindUser
<1>29. CASE ResumeZero
  <2>1. /\ pm'.users = pm.users
        /\ UNCHANGED <<run, drm, bl, clk, rem>>
    BY <1>p, <1>29 DEF ResumeZero
  <2> QED
    BY <1>0, <2>1 DEF PipeUser, WorkUser, ClkUser, UnbindUser
<1>30. CASE ResumeSync
  <2>1. /\ pm'.users = pm.users
        /\ UNCHANGED <<run, drm, bl, clk, rem>>
    BY <1>p, <1>30 DEF ResumeSync
  <2> QED
    BY <1>0, <2>1 DEF PipeUser, WorkUser, ClkUser, UnbindUser
<1>31. CASE Unbind
  <2>1. /\ UNCHANGED <<run, drm, bl, clk>>
        /\ pm'.users = pm.users \cup {"unbind"} /\ rem' = "resume"
    BY <1>a, <1>31 DEF Unbind
  <2> QED
    BY <2>1 DEF PipeUser, WorkUser, ClkUser, UnbindUser
<1>32. CASE DisconnectFlag \/ DisconnectCancel \/ DisconnectFlush
  <2>1. /\ pm'.users = pm.users
        /\ UNCHANGED <<run, drm, bl, clk>>
        /\ (UnbindUser' <=> UnbindUser)
    BY <1>a, <1>32 DEF DisconnectFlag, DisconnectCancel, DisconnectFlush,
                       UnbindUser
  <2> QED
    BY <1>0, <2>1 DEF PipeUser, WorkUser, ClkUser, UnbindUser
<1>33. CASE ChildrenRemove
  <2>1. /\ pm'.users = pm.users
        /\ UNCHANGED <<run, drm, bl, clk>>
        /\ (UnbindUser' <=> UnbindUser)
    BY <1>a, <1>33 DEF ChildrenRemove, UnbindUser
  <2> QED
    BY <1>0, <2>1 DEF PipeUser, WorkUser, ClkUser, UnbindUser
<1>34. CASE ChildrenFreed
  <2>1. /\ UNCHANGED <<run, drm, bl, clk>>
        /\ pm'.users = pm.users \ {"unbind"} /\ rem' = "freed"
    BY <1>a, <1>34 DEF ChildrenFreed
  <2> QED
    BY <2>1 DEF PipeUser, WorkUser, ClkUser, UnbindUser
<1>35. CASE UNCHANGED vars
  BY <1>0, <1>35 DEF vars, PipeUser, ClkUser, WorkUser, UnbindUser
<1> QED
  BY <1>1, <1>2, <1>3, <1>4, <1>5, <1>6, <1>7, <1>8, <1>9, <1>10, <1>11,
     <1>12, <1>13, <1>14, <1>15, <1>16, <1>17, <1>18, <1>19, <1>20, <1>21,
     <1>22, <1>23, <1>24, <1>25, <1>26, <1>27, <1>28, <1>29, <1>30, <1>31,
     <1>32, <1>33, <1>34, <1>35
     DEF Next, Wq, Update, Enable, Disabling, Writers, Pm, Unplug

(* The order of pipe_update, pipe_enable and pipe_disable.                 *)
LEMMA PipeStep ==
    ASSUME Typed, PipeInv, [Next]_vars
    PROVE  PipeInv'
<1> USE DEF DrmType, PipeInv
<1>a. drm \in DrmType
  BY DEF Typed
<1>0. ASSUME UNCHANGED drm PROVE PipeInv'
  BY <1>0
<1>1. CASE Commit \/ UpdateFlush \/ UpdateBlit
  BY <1>a, <1>1 DEF Commit, UpdateFlush, UpdateBlit
<1>2. CASE UpdateBlitEnd \/ UpdateSend
  BY <1>a, <1>2 DEF UpdateBlitEnd, UpdateSend
<1>3. CASE EnableGet \/ EnableOn
  BY <1>a, <1>3 DEF EnableGet, EnableOn
<1>4. CASE VblankTick \/ Disable
  BY <1>a, <1>4 DEF VblankTick, Disable
<1>5. CASE DisableBlank
  BY <1>a, <1>5 DEF DisableBlank
<1>6. CASE DisableDrain
  BY <1>a, <1>6 DEF DisableDrain
<1>7. CASE DisableIdle
  BY <1>a, <1>7 DEF DisableIdle
<1>8. CASE Dispatch \/ XferWorker \/ ResumeTimer \/ ResumeStart \/ HandlerDrm
           \/ HandlerSend \/ HandlerBl
  BY <1>8, <1>0 DEF Dispatch, XferWorker, ResumeTimer, ResumeStart,
                    HandlerDrm, HandlerSend, HandlerBl
<1>9. ASSUME NEW v \in Level, BlWrite(v) \/ GammaWrite(v)
      PROVE  PipeInv'
  BY <1>9, <1>0 DEF BlWrite, GammaWrite
<1>10. CASE ClockWrite \/ GammaLock \/ BlCheck \/ BlGet \/ BlSend \/ ClockGet
            \/ ClockSend
  BY <1>10, <1>0 DEF ClockWrite, GammaLock, BlCheck, BlGet, BlSend, ClockGet,
                     ClockSend
<1>11. CASE AutoSuspend \/ SystemSuspend \/ SuspendCancel \/ SuspendFlush
            \/ SuspendFlag \/ ResumeWake \/ ResumeReset \/ ResumeZero
  BY <1>11, <1>0 DEF AutoSuspend, SystemSuspend, SuspendCancel, SuspendFlush,
                     SuspendFlag, ResumeWake, ResumeReset, ResumeZero
<1>12. CASE ResumeSync
  BY <1>12, <1>0 DEF ResumeSync
<1>13. CASE Unbind \/ DisconnectFlag \/ DisconnectCancel \/ DisconnectFlush
            \/ ChildrenRemove \/ ChildrenFreed
  BY <1>13, <1>0 DEF Unbind, DisconnectFlag, DisconnectCancel,
                     DisconnectFlush, ChildrenRemove, ChildrenFreed
<1>14. CASE UNCHANGED vars
  BY <1>14, <1>0 DEF vars
<1> QED
  BY <1>1, <1>2, <1>3, <1>4, <1>5, <1>6, <1>7, <1>8, <1>9, <1>10, <1>11,
     <1>12, <1>13, <1>14
     DEF Next, Wq, Update, Enable, Disabling, Writers, Pm, Unplug

(* Only a resume queues the handlers, only a commit or a handler queues a  *)
(* frame, and the removed children start neither.                          *)
LEMMA DrainStep ==
    ASSUME Typed, ModeInv, PipeInv, DrainInv, [Next]_vars
    PROVE  DrainInv'
<1> USE DEF DrainInv
<1>a. /\ mfd \in MfdType /\ pm \in PmType /\ run \in RunType /\ wq \in Queues
      /\ drm \in DrmType /\ bl \in BlType /\ rem \in RemType
      /\ rem \in Removed => pm.pc = "idle"
  BY DEF Typed, ModeInv
<1>d. drm \in DrmType
  BY <1>a
<1> USE DEF MfdType, PmType, RunType, DrmType, BlType, RemType, Work, Removed
<1>0. ASSUME HandlersDue' => HandlersDue, XferIdle' <=> XferIdle,
             UNCHANGED <<drm, bl, clk, rem>>
      PROVE  DrainInv'
  BY <1>0
<1>1. CASE Dispatch
  <2>1. /\ run'.work = Head(wq) /\ wq' = Tail(wq) /\ Head(wq) \in Work
        /\ \A x \in Work :
               Contains(wq, x) <=> Contains(wq', x) \/ x = Head(wq)
        /\ UNCHANGED <<mfd, drm, bl, clk, rem>> /\ run.work = "none"
    BY <1>a, <1>1, TailProp DEF Dispatch
  <2> QED
    BY <1>0, <2>1 DEF HandlersDue, XferIdle
<1>2. CASE XferWorker
  <2>1. /\ run.work = "xfer" /\ run'.work = "none"
        /\ mfd'.timer = mfd.timer /\ UNCHANGED <<wq, drm, bl, clk, rem>>
    BY <1>a, <1>2 DEF XferWorker, PlSend, PlSendFails
  <2>2. (HandlersDue' => HandlersDue) /\ (XferIdle => XferIdle')
    BY <2>1 DEF HandlersDue, XferIdle
  <2> QED
    BY <2>1, <2>2
<1>3. CASE ResumeTimer
  <2>1. /\ HandlersDue /\ UNCHANGED <<drm, bl, clk, rem>>
    BY <1>3 DEF ResumeTimer, HandlersDue
  <2>2. rem \notin {"flush", "unplug", "shutdown", "freed"}
    BY <2>1
  <2> QED
    BY <1>a, <2>1, <2>2
<1>4. CASE ResumeStart \/ HandlerDrm \/ HandlerSend \/ HandlerBl
  <2>1. HandlersDue /\ UNCHANGED <<drm, bl, clk, rem>>
    BY <1>4 DEF ResumeStart, HandlerDrm, HandlerSend, HandlerBl, HandlersDue
  <2> QED
    BY <1>a, <2>1
<1>5. CASE Commit \/ UpdateFlush \/ UpdateBlit \/ UpdateBlitEnd
  <2>1. /\ UNCHANGED <<mfd, wq, run, bl, clk, rem>> /\ drm'.on = drm.on
        /\ drm.pc \in {"idle", "flush", "blit", "blitting"}
        /\ drm'.pc \in {"flush", "blit", "blitting", "send"}
        /\ drm.pc = "idle" => rem \notin {"shutdown", "freed"}
    BY <1>d, <1>5 DEF Commit, UpdateFlush, UpdateBlit, UpdateBlitEnd
  <2> QED
    BY <1>d, <2>1 DEF HandlersDue, XferIdle
<1>6. CASE UpdateSend
  <2>1. /\ UNCHANGED <<run, bl, clk, rem>> /\ mfd'.timer = mfd.timer
        /\ drm'.on = drm.on /\ drm.pc = "send"
        /\ drm'.pc = "get" \/ (drm.on /\ drm'.pc = "idle")
        /\ Contains(wq', "resume") => Contains(wq, "resume")
    BY <1>a, <1>6, QueueProp DEF UpdateSend, SendFrame, PipeInv
  <2> QED
    BY <1>a, <2>1 DEF HandlersDue
<1>7. CASE EnableGet \/ EnableOn
  <2>1. /\ UNCHANGED <<mfd, wq, run, bl, clk, rem>>
        /\ drm.pc \in {"get", "wait"}
        /\ drm'.pc = "wait" \/ (drm'.on /\ drm'.pc = "idle")
    BY <1>d, <1>7 DEF EnableGet, EnableOn
  <2> QED
    BY <1>d, <2>1 DEF HandlersDue
<1>8. CASE VblankTick \/ Disable
  <2>1. /\ UNCHANGED <<mfd, wq, run, bl, clk, rem>> /\ drm'.on = drm.on
        /\ drm'.pc = drm.pc \/ (drm.on /\ drm.pc = "idle" /\ drm'.pc = "off")
    BY <1>d, <1>8 DEF VblankTick, Disable
  <2> QED
    BY <1>d, <2>1 DEF HandlersDue, XferIdle
<1>9. CASE DisableBlank
  <2>1. /\ UNCHANGED <<run, bl, clk, rem>> /\ mfd'.timer = mfd.timer
        /\ drm'.on = drm.on /\ drm.pc = "off" /\ XferIdle
        /\ drm'.pc = "drain" \/ (drm'.pc = "invalid" /\ wq' = wq)
        /\ Contains(wq', "resume") => Contains(wq, "resume")
    BY <1>a, <1>9, QueueProp DEF DisableBlank, SendFrame
  <2> QED
    BY <1>a, <2>1 DEF HandlersDue, XferIdle, PipeInv
<1>10. CASE DisableDrain \/ DisableIdle
  <2>1. /\ UNCHANGED <<mfd, wq, run, bl, clk, rem>>
        /\ \/ /\ drm.pc = "drain" /\ drm'.pc = "invalid"
              /\ XferIdle /\ drm'.on = drm.on
           \/ drm.pc = "invalid" /\ drm'.pc = "idle"
    BY <1>d, <1>10 DEF DisableDrain, DisableIdle
  <2> QED
    BY <1>d, <2>1 DEF HandlersDue, XferIdle
<1>11. ASSUME NEW v \in Level, BlWrite(v) \/ GammaWrite(v) PROVE DrainInv'
  <2>1. /\ UNCHANGED <<mfd, wq, run, drm, clk, rem>>
        /\ rem \notin {"shutdown", "freed"}
    BY <1>11 DEF BlWrite, BlFree, GammaWrite
  <2> QED
    BY <2>1 DEF HandlersDue, XferIdle
<1>12. CASE ClockWrite \/ GammaLock \/ BlCheck \/ BlGet
  <2>1. /\ UNCHANGED <<mfd, wq, run, drm, rem>>
        /\ rem \notin {"shutdown", "freed"}
    BY <1>12 DEF ClockWrite, GammaLock, BlCheck, BlGet
  <2> QED
    BY <2>1 DEF HandlersDue, XferIdle
<1>13. CASE BlSend \/ ClockGet \/ ClockSend
  <2>1. /\ UNCHANGED <<mfd, wq, run, drm, rem>>
        /\ rem \notin {"shutdown", "freed"}
    BY <1>13 DEF BlSend, ClockGet, ClockSend
  <2> QED
    BY <2>1 DEF HandlersDue, XferIdle
<1>14. CASE AutoSuspend \/ SystemSuspend
  <2>1. UNCHANGED <<mfd, wq, run, drm, bl, clk, rem>>
    BY <1>14 DEF AutoSuspend, SystemSuspend
  <2> QED
    BY <1>0, <2>1 DEF HandlersDue, XferIdle
<1>15. CASE SuspendCancel \/ SuspendFlush \/ SuspendFlag \/ ResumeWake
  <2>1. pm.pc # "idle" /\ rem' = rem
    BY <1>15 DEF SuspendCancel, SuspendFlush, SuspendFlag, ResumeWake
  <2> QED
    BY <1>a, <2>1
<1>16. CASE ResumeReset \/ ResumeZero \/ ResumeSync
  <2>1. pm.pc # "idle" /\ rem' = rem
    BY <1>16 DEF ResumeReset, ResumeZero, ResumeSync
  <2> QED
    BY <1>a, <2>1
<1>17. CASE Unbind \/ DisconnectFlag
  <2>1. rem' \in {"resume", "cancel"}
    BY <1>17 DEF Unbind, DisconnectFlag
  <2> QED
    BY <2>1
<1>18. CASE DisconnectCancel
  <2>1. /\ rem' = "flush" /\ run' = run /\ run.work # "resume" /\ ~mfd'.timer
        /\ ~Contains(wq', "resume")
    BY <1>a, <1>18, RemoveProp DEF DisconnectCancel
  <2> QED
    BY <2>1 DEF HandlersDue
<1>19. CASE DisconnectFlush
  <2>1. /\ rem = "flush" /\ rem' = "unplug" /\ XferIdle
        /\ UNCHANGED <<mfd, wq, run, drm>>
    BY <1>19 DEF DisconnectFlush
  <2> QED
    BY <2>1 DEF HandlersDue, XferIdle
<1>20. CASE ChildrenRemove \/ ChildrenFreed
  <2>1. /\ UNCHANGED <<mfd, wq, run, drm, bl, clk>>
        /\ \/ /\ rem = "unplug" /\ rem' = "shutdown"
              /\ drm.pc = "idle" /\ clk = "idle"
              /\ bl.pc = "idle" /\ ~bl.waiting
           \/ rem = "shutdown" /\ rem' = "freed" /\ drm.pc = "idle" /\ ~drm.on
    BY <1>20 DEF ChildrenRemove, ChildrenFreed
  <2> QED
    BY <2>1 DEF HandlersDue, XferIdle
<1>21. CASE UNCHANGED vars
  BY <1>21, <1>0 DEF vars, HandlersDue, XferIdle
<1> QED
  BY <1>1, <1>2, <1>3, <1>4, <1>5, <1>6, <1>7, <1>8, <1>9, <1>10, <1>11,
     <1>12, <1>13, <1>14, <1>15, <1>16, <1>17, <1>18, <1>19, <1>20, <1>21
     DEF Next, Wq, Update, Enable, Disabling, Writers, Pm, Unplug

(* The four together.                                                      *)
FreedInv == ModeInv /\ UsersInv /\ PipeInv /\ DrainInv

(* They hold after probe.                                                  *)
LEMMA FreedInit == Init => FreedInv
<1> SUFFICES ASSUME Init PROVE FreedInv
  OBVIOUS
<1>1. UsersInv
  BY DEF Init, UsersInv
<1>2. PipeInv /\ DrainInv
  BY DEF Init, PipeInv, DrainInv
<1> QED
  BY <1>1, <1>2, ModeInit DEF FreedInv

(* No work, no delayed dispatch and no autopm reference outlives the       *)
(* parent.                                                                 *)
THEOREM FreedTheorem == Spec => []FreedMeansQuiet
<1>1. Typed /\ FreedInv /\ [Next]_vars => FreedInv'
  BY ModeStep, UsersStep, PipeStep, DrainStep DEF FreedInv
<1>2. Typed /\ FreedInv => FreedMeansQuiet
  <2> SUFFICES ASSUME Typed, FreedInv, rem = "freed"
               PROVE  /\ wq = <<>> /\ run.work = "none" /\ ~mfd.timer
                      /\ pm.users = {}
    BY DEF FreedMeansQuiet
  <2>1. /\ ~HandlersDue /\ XferIdle /\ drm.pc = "idle" /\ ~drm.on
        /\ bl.pc = "idle" /\ clk = "idle"
    BY DEF FreedInv, DrainInv
  <2>2. run.work = "none" /\ ~mfd.timer /\ \A x \in Work : ~Contains(wq, x)
    BY <2>1 DEF HandlersDue, XferIdle, Typed, RunType, Work
  <2>3. wq = <<>>
    <3>1. ASSUME wq # <<>> PROVE FALSE
      BY <2>2, <3>1, TailProp DEF Typed
    <3> QED
      BY <3>1
  <2>4. pm.users = {}
    BY <2>1, <2>2 DEF FreedInv, UsersInv, Typed, PmType
  <2> QED
    BY <2>2, <2>3, <2>4
<1> QED
  BY <1>1, <1>2, FreedInit, TypedInit, TypedStep, PTL DEF Spec

-----------------------------------------------------------------------------
(* The brightness and the picture are restored.                            *)

(* The panel has the user's brightness, or has refused it, or somebody is  *)
(* going to send it: a writer that has stored it, the deferred handlers,   *)
(* or the resume that will queue them.                                     *)
BrightInv ==
    Live =>
        /\ bl.pc # "idle" /\ ~bl.waiting => bl.arg = <<bl.stored, bl.gamma>>
        /\ \/ dev.level = <<bl.stored, bl.gamma>> \/ dev.refused # "no"
           \/ bl.waiting \/ bl.pc # "idle" \/ HandlersDue
           \/ pm.pc \in {"flush", "flag", "down", "reset", "zero", "sync"}

(* The shadow holds parts of two frames exactly during the blit.           *)
ShadowInv == drm.shadow = "torn" <=> drm.pc = "blitting"

(* If no transfer fails, a torn picture is on the panel only while the     *)
(* frame that replaces it is being made, queued or sent, or the panel is   *)
(* about to be reset; and the firmware takes that frame.                   *)
TornInv ==
    "errors" \notin setup.actors /\ Live =>
        /\ dev.shown = "torn" =>
               \/ drm.pc \in {"blitting", "send"}
               \/ ~XferIdle
               \/ pm.pc \in {"down", "reset"}
        /\ pm.pc \notin Window => (mfd.cached => dev.latched)
        /\ pm.pc = "zero" /\ dev.shown = "torn" => dev.latched

(* Every step that takes the last sender away has sent the value, or finds *)
(* the panel suspended.                                                    *)
LEMMA BrightStep ==
    ASSUME Typed, ModeInv, BrightInv, [Next]_vars
    PROVE  BrightInv'
<1> USE DEF BrightInv, Live
<1>a. /\ mfd \in MfdType /\ pm \in PmType /\ run \in RunType /\ wq \in Queues
      /\ drm \in DrmType /\ bl \in BlType /\ dev \in DevType
      /\ bl.arg \in Curve /\ <<bl.stored, bl.gamma>> \in Curve
  BY DEF Typed, BlType, Curve
<1>b. /\ mfd.suspended <=> pm.pc = "down"
      /\ mfd.disconnected <=> rem \in Removed
      /\ setup' = setup
  BY SetupFixed DEF ModeInv
<1> USE DEF MfdType, PmType, RunType, BlType, DevType, Removed
<1>0. ASSUME dev'.level = dev.level, dev'.refused = dev.refused, UNCHANGED bl,
             HandlersDue => HandlersDue',
             pm'.pc = pm.pc, mfd'.disconnected = mfd.disconnected
      PROVE  BrightInv'
  BY <1>b, <1>0
<1>1. CASE Dispatch
  <2>1. /\ run'.work = Head(wq) /\ wq' = Tail(wq) /\ Head(wq) \in Work
        /\ \A x \in Work :
               Contains(wq, x) <=> Contains(wq', x) \/ x = Head(wq)
        /\ UNCHANGED <<mfd, pm, bl, dev>> /\ run.work = "none"
    BY <1>a, <1>1, TailProp DEF Dispatch
  <2> QED
    BY <1>0, <2>1 DEF HandlersDue, Work
<1>2. CASE XferWorker
  <2>1. /\ run.work = "xfer" /\ wq' = wq /\ UNCHANGED <<bl, pm>>
        /\ mfd'.timer = mfd.timer /\ mfd'.disconnected = mfd.disconnected
    BY <1>a, <1>2 DEF XferWorker, PlSend, PlSendFails
  <2>2. dev'.level = dev.level /\ dev'.refused = dev.refused
    BY <1>a, <1>2, SendEffect, FailEffect DEF XferWorker
  <2> QED
    BY <1>0, <2>1, <2>2 DEF HandlersDue
<1>3. CASE ResumeTimer
  <2>1. /\ UNCHANGED <<run, pm, bl, dev>> /\ Contains(wq', "resume")
        /\ mfd'.disconnected = mfd.disconnected
    BY <1>a, <1>3, QueueProp DEF ResumeTimer, Work
  <2> QED
    BY <1>0, <2>1 DEF HandlersDue
<1>4. CASE ResumeStart
  <2>1. /\ UNCHANGED <<mfd, bl, dev>> /\ pm'.pc = pm.pc
        /\ \/ run'.work = "resume"
           \/ mfd.disconnected \/ pm.pc = "down"
    BY <1>a, <1>b, <1>4 DEF ResumeStart
  <2> QED
    BY <1>b, <1>0, <2>1 DEF HandlersDue
<1>5. CASE HandlerDrm
  <2>1. UNCHANGED <<mfd, pm, bl, dev>> /\ run'.work = "resume"
    BY <1>a, <1>5 DEF HandlerDrm
  <2> QED
    BY <1>0, <2>1 DEF HandlersDue
<1>6. CASE HandlerSend
  <2>1. /\ UNCHANGED <<pm, bl, dev>> /\ run'.work = "resume"
        /\ mfd'.disconnected = mfd.disconnected
    BY <1>a, <1>6 DEF HandlerSend, SendFrame
  <2> QED
    BY <1>0, <2>1 DEF HandlersDue
<1>7. CASE HandlerBl
  <2>1. /\ UNCHANGED <<mfd, bl>> /\ pm'.pc = pm.pc
        /\ \/ ~Alive
           \/ dev' = OnBus(SetBacklight(dev, <<bl.stored, bl.gamma>>,
                                        "handler"))
    BY <1>a, <1>7 DEF HandlerBl
  <2>2. ~Alive \/ dev'.refused # "no" \/ dev'.level = <<bl.stored, bl.gamma>>
    BY <1>a, <2>1, LightSent
  <2> QED
    BY <1>b, <2>1, <2>2 DEF Alive
<1>8. CASE Commit \/ UpdateFlush \/ UpdateBlitEnd
  <2>1. /\ UNCHANGED <<mfd, wq, run, bl>>
        /\ dev'.level = dev.level /\ dev'.refused = dev.refused
        /\ pm'.pc = pm.pc
    BY <1>a, <1>8 DEF Commit, UpdateFlush, UpdateBlitEnd
  <2> QED
    BY <1>0, <2>1 DEF HandlersDue
<1>9. CASE UpdateBlit
  <2>1. /\ UNCHANGED <<mfd, wq, run, bl>>
        /\ dev'.level = dev.level /\ dev'.refused = dev.refused
        /\ pm'.pc = pm.pc
    BY <1>a, <1>9 DEF UpdateBlit
  <2> QED
    BY <1>0, <2>1 DEF HandlersDue
<1>10. CASE UpdateSend
  <2>1. /\ UNCHANGED <<run, pm, bl, dev>> /\ mfd'.timer = mfd.timer
        /\ mfd'.disconnected = mfd.disconnected
        /\ Contains(wq, "resume") => Contains(wq', "resume")
    BY <1>a, <1>10, QueueProp DEF UpdateSend, SendFrame, Work
  <2> QED
    BY <1>0, <2>1 DEF HandlersDue
<1>11. CASE EnableGet
  <2>1. /\ UNCHANGED <<mfd, wq, run, bl>>
        /\ dev'.level = dev.level /\ dev'.refused = dev.refused
        /\ pm'.pc = pm.pc
    BY <1>a, <1>11 DEF EnableGet
  <2> QED
    BY <1>0, <2>1 DEF HandlersDue
<1>12. CASE EnableOn \/ VblankTick \/ Disable
  <2>1. /\ UNCHANGED <<mfd, wq, run, bl>>
        /\ dev'.level = dev.level /\ dev'.refused = dev.refused
        /\ pm'.pc = pm.pc
    BY <1>a, <1>12 DEF EnableOn, VblankTick, Disable
  <2> QED
    BY <1>0, <2>1 DEF HandlersDue
<1>13. CASE DisableBlank
  <2>1. /\ UNCHANGED <<run, pm, bl, dev>> /\ mfd'.timer = mfd.timer
        /\ mfd'.disconnected = mfd.disconnected
        /\ Contains(wq, "resume") => Contains(wq', "resume")
    BY <1>a, <1>13, QueueProp DEF DisableBlank, SendFrame, Work
  <2> QED
    BY <1>0, <2>1 DEF HandlersDue
<1>14. CASE DisableDrain
  <2>1. /\ UNCHANGED <<mfd, wq, run, bl>>
        /\ dev'.level = dev.level /\ dev'.refused = dev.refused
        /\ pm'.pc = pm.pc
    BY <1>a, <1>14 DEF DisableDrain
  <2> QED
    BY <1>0, <2>1 DEF HandlersDue
<1>15. CASE DisableIdle
  <2>1. /\ UNCHANGED <<mfd, wq, run, bl>>
        /\ dev'.level = dev.level /\ dev'.refused = dev.refused
        /\ pm'.pc = pm.pc
    BY <1>a, <1>15 DEF DisableIdle
  <2> QED
    BY <1>0, <2>1 DEF HandlersDue
<1>16. ASSUME NEW v \in Level, BlWrite(v) PROVE BrightInv'
  <2>1. /\ bl'.stored = v /\ bl'.gamma = bl.gamma /\ bl'.pc = "check"
        /\ bl'.arg = <<v, bl.gamma>>
    BY <1>a, <1>16 DEF BlWrite
  <2> QED
    BY <2>1
<1>17. ASSUME NEW v \in Level, GammaWrite(v) PROVE BrightInv'
  <2>1. bl'.waiting
    BY <1>a, <1>17 DEF GammaWrite
  <2> QED
    BY <2>1
<1>18. CASE ClockWrite
  <2>1. /\ UNCHANGED <<mfd, wq, run, bl>>
        /\ dev'.level = dev.level /\ dev'.refused = dev.refused
        /\ pm'.pc = pm.pc
    BY <1>a, <1>18 DEF ClockWrite
  <2> QED
    BY <1>0, <2>1 DEF HandlersDue
<1>19. CASE GammaLock
  <2>1. /\ bl'.stored = bl.stored /\ bl'.gamma = bl.gamma /\ bl'.pc = "check"
        /\ bl'.arg = <<bl.stored, bl.gamma>>
    BY <1>a, <1>19 DEF GammaLock
  <2> QED
    BY <2>1
<1>20. CASE BlCheck \/ BlGet
  <2>1. /\ bl'.stored = bl.stored /\ bl'.gamma = bl.gamma /\ bl'.arg = bl.arg
        /\ bl'.waiting = bl.waiting /\ bl.pc # "idle"
    <3>1. CASE BlCheck
      BY <1>a, <3>1 DEF BlCheck
    <3>2. CASE BlGet
      BY <1>a, <3>2 DEF BlGet
    <3> QED
      BY <1>20, <3>1, <3>2
  <2>2. bl'.pc # "idle" \/ pm.pc = "down"
    <3>1. CASE BlCheck
      <4>1. bl'.pc # "idle" \/ mfd.suspended
        BY <1>a, <3>1 DEF BlCheck
      <4> QED
        BY <1>b, <4>1
    <3>2. CASE BlGet
      BY <1>a, <3>2 DEF BlGet
    <3> QED
      BY <1>20, <3>1, <3>2
  <2>3. pm'.pc = pm.pc /\ UNCHANGED <<mfd, dev>>
    <3>1. CASE BlCheck
      BY <1>a, <3>1 DEF BlCheck
    <3>2. CASE BlGet
      BY <3>2 DEF BlGet
    <3> QED
      BY <1>20, <3>1, <3>2
  <2> QED
    BY <1>b, <2>1, <2>2, <2>3
<1>21. CASE BlSend
  <2>1. /\ bl'.stored = bl.stored /\ bl'.gamma = bl.gamma
        /\ bl'.waiting = bl.waiting /\ bl.pc = "send" /\ bl'.pc = "idle"
        /\ pm'.pc = pm.pc /\ UNCHANGED mfd
        /\ ~Alive \/ dev' = OnBus(SetBacklight(dev, bl.arg, "user"))
    BY <1>a, <1>21 DEF BlSend
  <2>2. ~Alive \/ dev'.refused # "no" \/ dev'.level = bl.arg
    BY <1>a, <2>1, LightSent
  <2> QED
    BY <1>b, <2>1, <2>2 DEF Alive
<1>22. CASE ClockGet
  <2>1. /\ UNCHANGED <<mfd, wq, run, bl>>
        /\ dev'.level = dev.level /\ dev'.refused = dev.refused
        /\ pm'.pc = pm.pc
    BY <1>a, <1>22 DEF ClockGet
  <2> QED
    BY <1>0, <2>1 DEF HandlersDue
<1>23. CASE ClockSend
  <2>1. /\ UNCHANGED <<mfd, wq, run, bl>> /\ pm'.pc = pm.pc
        /\ dev' = dev \/ dev' = OnBus(dev)
    BY <1>a, <1>23 DEF ClockSend
  <2>2. dev'.level = dev.level /\ dev'.refused = dev.refused
    BY <1>a, <2>1, BusEffect
  <2> QED
    BY <1>0, <2>1, <2>2 DEF HandlersDue
<1>24. CASE AutoSuspend \/ SystemSuspend
  <2>1. UNCHANGED <<mfd, wq, run, bl, dev>> /\ pm.pc = "idle"
    BY <1>a, <1>24 DEF AutoSuspend, SystemSuspend
  <2> QED
    BY <1>b, <2>1 DEF HandlersDue
<1>25. CASE SuspendCancel \/ SuspendFlush
  <2>1. /\ bl' = bl /\ pm'.pc \in {"flush", "flag"}
        /\ mfd'.disconnected = mfd.disconnected
    BY <1>a, <1>25 DEF SuspendCancel, SuspendFlush
  <2> QED
    BY <1>b, <2>1
<1>26. CASE SuspendFlag \/ ResumeWake
  <2>1. /\ bl' = bl /\ pm'.pc \in {"down", "reset"}
        /\ mfd'.disconnected = mfd.disconnected
    BY <1>a, <1>26 DEF SuspendFlag, ResumeWake
  <2> QED
    BY <1>b, <2>1
<1>27. CASE ResumeReset \/ ResumeZero
  <2>1. /\ bl' = bl /\ pm'.pc \in {"zero", "sync"}
        /\ mfd'.disconnected = mfd.disconnected
    BY <1>a, <1>27 DEF ResumeReset, ResumeZero
  <2> QED
    BY <1>b, <2>1
<1>28. CASE ResumeSync
  <2>1. /\ bl' = bl /\ mfd'.disconnected = mfd.disconnected
        /\ mfd'.timer \/ Contains(wq', "resume")
    BY <1>a, <1>28 DEF ResumeSync
  <2> QED
    BY <1>b, <2>1 DEF HandlersDue
<1>29. CASE Unbind
  <2>1. /\ UNCHANGED <<mfd, wq, run, bl>>
        /\ dev'.level = dev.level /\ dev'.refused = dev.refused
        /\ pm'.pc = pm.pc
    BY <1>a, <1>29 DEF Unbind
  <2> QED
    BY <1>0, <2>1 DEF HandlersDue
<1>30. CASE DisconnectFlag
  <2>1. mfd'.disconnected
    BY <1>a, <1>30 DEF DisconnectFlag
  <2> QED
    BY <2>1
<1>31. CASE DisconnectCancel \/ DisconnectFlush \/ ChildrenRemove
            \/ ChildrenFreed
  <2>1. mfd.disconnected /\ mfd'.disconnected
    BY <1>a, <1>b, <1>31 DEF DisconnectCancel, DisconnectFlush,
                             ChildrenRemove, ChildrenFreed
  <2> QED
    BY <2>1
<1>32. CASE UNCHANGED vars
  BY <1>32, <1>0 DEF vars, HandlersDue
<1> QED
  BY <1>1, <1>2, <1>3, <1>4, <1>5, <1>6, <1>7, <1>8, <1>9, <1>10, <1>11,
     <1>12, <1>13, <1>14, <1>15, <1>16, <1>17, <1>18, <1>19, <1>20, <1>21,
     <1>22, <1>23, <1>24, <1>25, <1>26, <1>27, <1>28, <1>29, <1>30, <1>31,
     <1>32
     DEF Next, Wq, Update, Enable, Disabling, Writers, Pm, Unplug

(* beada_blit_rect begins and ends under shadow_lock.                      *)
LEMMA ShadowStep ==
    ASSUME Typed, ShadowInv, [Next]_vars
    PROVE  ShadowInv'
<1> USE DEF DrmType, ShadowInv
<1>a. drm \in DrmType
  BY DEF Typed
<1>0. ASSUME UNCHANGED drm PROVE ShadowInv'
  BY <1>0
<1>1. CASE Commit \/ UpdateFlush
  BY <1>a, <1>1 DEF Commit, UpdateFlush
<1>2. CASE UpdateBlit
  BY <1>a, <1>2 DEF UpdateBlit
<1>3. CASE UpdateBlitEnd
  BY <1>a, <1>3 DEF UpdateBlitEnd
<1>4. CASE UpdateSend
  BY <1>a, <1>4 DEF UpdateSend
<1>5. CASE EnableGet
  BY <1>a, <1>5 DEF EnableGet
<1>6. CASE EnableOn
  BY <1>a, <1>6 DEF EnableOn
<1>7. CASE VblankTick \/ Disable
  BY <1>a, <1>7 DEF VblankTick, Disable
<1>8. CASE DisableBlank
  BY <1>a, <1>8 DEF DisableBlank
<1>9. CASE DisableDrain
  BY <1>a, <1>9 DEF DisableDrain
<1>10. CASE DisableIdle
  BY <1>a, <1>10 DEF DisableIdle
<1>11. CASE Dispatch \/ XferWorker \/ ResumeTimer \/ ResumeStart
            \/ HandlerDrm \/ HandlerSend \/ HandlerBl
  BY <1>11, <1>0 DEF Dispatch, XferWorker, ResumeTimer, ResumeStart,
                     HandlerDrm, HandlerSend, HandlerBl
<1>12. ASSUME NEW v \in Level, BlWrite(v) \/ GammaWrite(v)
       PROVE  ShadowInv'
  BY <1>12, <1>0 DEF BlWrite, GammaWrite
<1>13. CASE ClockWrite \/ GammaLock \/ BlCheck \/ BlGet \/ BlSend \/ ClockGet
            \/ ClockSend
  BY <1>13, <1>0 DEF ClockWrite, GammaLock, BlCheck, BlGet, BlSend, ClockGet,
                     ClockSend
<1>14. CASE AutoSuspend \/ SystemSuspend \/ SuspendCancel \/ SuspendFlush
            \/ SuspendFlag \/ ResumeWake \/ ResumeReset \/ ResumeZero
  BY <1>14, <1>0 DEF AutoSuspend, SystemSuspend, SuspendCancel, SuspendFlush,
                     SuspendFlag, ResumeWake, ResumeReset, ResumeZero
<1>15. CASE ResumeSync
  BY <1>15, <1>0 DEF ResumeSync
<1>16. CASE Unbind \/ DisconnectFlag \/ DisconnectCancel \/ DisconnectFlush
            \/ ChildrenRemove \/ ChildrenFreed
  BY <1>16, <1>0 DEF Unbind, DisconnectFlag, DisconnectCancel,
                     DisconnectFlush, ChildrenRemove, ChildrenFreed
<1>17. CASE UNCHANGED vars
  BY <1>17, <1>0 DEF vars
<1> QED
  BY <1>1, <1>2, <1>3, <1>4, <1>5, <1>6, <1>7, <1>8, <1>9, <1>10, <1>11,
     <1>12, <1>13, <1>14, <1>15, <1>16, <1>17
     DEF Next, Wq, Update, Enable, Disabling, Writers, Pm, Unplug

(* The blit is followed by a submission, the submission by a transfer.     *)
LEMMA TornStep ==
    ASSUME Typed, ModeInv, ShadowInv, TornInv, [Next]_vars
    PROVE  TornInv'
<1> USE DEF TornInv, Live
<1>a. /\ mfd \in MfdType /\ pm \in PmType /\ run \in RunType /\ wq \in Queues
      /\ drm \in DrmType /\ bl \in BlType /\ dev \in DevType
      /\ bl.arg \in Curve /\ <<bl.stored, bl.gamma>> \in Curve
  BY DEF Typed, BlType, Curve
<1>b. /\ mfd.suspended <=> pm.pc = "down"
      /\ mfd.disconnected <=> rem \in Removed
      /\ setup' = setup
  BY SetupFixed DEF ModeInv
<1> USE DEF MfdType, PmType, RunType, DrmType, Removed, Window
<1>0. ASSUME dev'.shown = dev.shown, dev'.latched = dev.latched,
             drm.pc \in {"blitting", "send"} =>
                 drm'.pc \in {"blitting", "send"} \/ ~XferIdle',
             ~XferIdle => ~XferIdle', pm'.pc = pm.pc,
             mfd'.cached = mfd.cached, mfd'.disconnected = mfd.disconnected
      PROVE  TornInv'
  BY <1>b, <1>0
<1>1. CASE Dispatch
  <2>1. /\ run'.work = Head(wq) /\ wq' = Tail(wq) /\ Head(wq) \in Work
        /\ \A x \in Work :
               Contains(wq, x) <=> Contains(wq', x) \/ x = Head(wq)
        /\ UNCHANGED <<mfd, pm, drm, dev>> /\ run.work = "none"
    BY <1>a, <1>1, TailProp DEF Dispatch
  <2> QED
    BY <1>0, <2>1 DEF XferIdle, Work
<1>2. CASE XferWorker
  <2>1. UNCHANGED <<setup, pm, drm>>
    BY <1>2 DEF XferWorker
  <2>2. CASE ~Alive /\ UNCHANGED <<mfd, dev>>
    BY <1>b, <2>1, <2>2 DEF Alive
  <2>3. CASE Alive /\ PlSend
    <3>1. /\ mfd'.cached /\ mfd'.disconnected = mfd.disconnected
          /\ pm.pc # "down" /\ Live
      BY <1>a, <1>b, <2>3 DEF PlSend, Alive
    <3>2. /\ dev'.latched <=> dev.latched \/ ~mfd.cached
          /\ dev'.shown = IF dev.latched \/ ~mfd.cached THEN XferContent
                                                        ELSE dev.shown
      BY <1>a, <2>3, SendEffect
    <3>3. XferContent = "torn" => drm.pc = "blitting"
      BY DEF XferContent, ShadowInv
    <3> QED
      BY <2>1, <3>1, <3>2, <3>3
  <2>4. CASE "errors" \in setup.actors
    BY <2>1, <2>4
  <2> QED
    BY <1>2, <2>2, <2>3, <2>4 DEF XferWorker
<1>3. CASE ResumeTimer
  <2>1. /\ UNCHANGED <<run, pm, drm, dev>> /\ mfd'.cached = mfd.cached
        /\ Contains(wq, "xfer") => Contains(wq', "xfer")
        /\ mfd'.disconnected = mfd.disconnected
    BY <1>a, <1>3, QueueProp DEF ResumeTimer, Work
  <2> QED
    BY <1>0, <2>1 DEF XferIdle
<1>4. CASE ResumeStart
  <2>1. /\ UNCHANGED <<mfd, wq, drm, dev>> /\ pm'.pc = pm.pc
        /\ run.work # "xfer" /\ run'.work # "xfer"
    BY <1>a, <1>4 DEF ResumeStart
  <2> QED
    BY <1>0, <2>1 DEF XferIdle
<1>5. CASE HandlerDrm
  <2>1. /\ UNCHANGED <<mfd, wq, drm, pm, dev>> /\ run'.work = run.work
    BY <1>a, <1>5 DEF HandlerDrm
  <2> QED
    BY <1>0, <2>1 DEF XferIdle
<1>6. CASE HandlerSend
  <2>1. /\ UNCHANGED <<drm, pm, dev>> /\ Contains(wq', "xfer")
        /\ mfd'.cached = mfd.cached /\ mfd'.disconnected = mfd.disconnected
    BY <1>a, <1>6, QueueProp DEF HandlerSend, SendFrame, Work
  <2> QED
    BY <1>0, <2>1 DEF XferIdle
<1>7. CASE HandlerBl
  <2>1. /\ UNCHANGED <<mfd, wq, drm>> /\ pm'.pc = pm.pc
        /\ run.work = "resume" /\ run'.work = "none"
        /\ \/ dev' = dev
           \/ dev' = OnBus(SetBacklight(dev, <<bl.stored, bl.gamma>>,
                                        "handler"))
    BY <1>a, <1>7 DEF HandlerBl
  <2>2. dev'.shown = dev.shown /\ dev'.latched = dev.latched
    BY <1>a, <2>1, LightSent
  <2> QED
    BY <1>0, <2>1, <2>2 DEF XferIdle
<1>8. CASE Commit \/ UpdateFlush
  <2>1. /\ UNCHANGED <<mfd, wq, run, dev>> /\ pm'.pc = pm.pc
        /\ drm.pc \notin {"blitting", "send"}
    BY <1>a, <1>8 DEF Commit, UpdateFlush
  <2> QED
    BY <1>0, <2>1 DEF XferIdle
<1>9. CASE UpdateBlit
  <2>1. /\ UNCHANGED <<mfd, wq, run, pm>> /\ drm'.pc = "blitting"
        /\ dev'.latched = dev.latched
        /\ dev'.shown = "torn" => dev.shown = "torn"
    BY <1>a, <1>9 DEF UpdateBlit, DevType
  <2> QED
    BY <1>b, <2>1
<1>10. CASE UpdateBlitEnd
  <2>1. /\ UNCHANGED <<mfd, wq, run, pm, dev>> /\ drm'.pc = "send"
    BY <1>a, <1>10 DEF UpdateBlitEnd
  <2> QED
    BY <1>0, <2>1 DEF XferIdle
<1>11. CASE UpdateSend
  <2>1. /\ UNCHANGED <<run, pm, dev>> /\ Contains(wq', "xfer")
        /\ mfd'.cached = mfd.cached /\ mfd'.disconnected = mfd.disconnected
    BY <1>a, <1>11, QueueProp DEF UpdateSend, SendFrame, Work
  <2> QED
    BY <1>0, <2>1 DEF XferIdle
<1>12. CASE EnableGet
  <2>1. /\ UNCHANGED <<mfd, wq, run, dev>> /\ pm'.pc = pm.pc
        /\ drm.pc \notin {"blitting", "send"}
    BY <1>a, <1>12 DEF EnableGet
  <2> QED
    BY <1>0, <2>1 DEF XferIdle
<1>13. CASE EnableOn
  <2>1. /\ UNCHANGED <<mfd, wq, run, dev>> /\ pm'.pc = pm.pc
        /\ drm.pc \notin {"blitting", "send"}
    BY <1>a, <1>13 DEF EnableOn
  <2> QED
    BY <1>0, <2>1 DEF XferIdle
<1>14. CASE VblankTick
  <2>1. /\ UNCHANGED <<mfd, wq, run, pm, dev>> /\ drm'.pc = drm.pc
    BY <1>a, <1>14 DEF VblankTick
  <2> QED
    BY <1>0, <2>1 DEF XferIdle
<1>15. CASE Disable
  <2>1. /\ UNCHANGED <<mfd, wq, run, dev>> /\ pm'.pc = pm.pc
        /\ drm.pc \notin {"blitting", "send"}
    BY <1>a, <1>15 DEF Disable
  <2> QED
    BY <1>0, <2>1 DEF XferIdle
<1>16. CASE DisableBlank
  <2>1. /\ UNCHANGED <<run, pm, dev>> /\ drm.pc = "off"
        /\ Contains(wq, "xfer") => Contains(wq', "xfer")
        /\ mfd'.cached = mfd.cached /\ mfd'.disconnected = mfd.disconnected
    BY <1>a, <1>16, QueueProp DEF DisableBlank, SendFrame, Work
  <2> QED
    BY <1>0, <2>1 DEF XferIdle
<1>17. CASE DisableDrain
  <2>1. /\ UNCHANGED <<mfd, wq, run, dev>> /\ pm'.pc = pm.pc
        /\ drm.pc \notin {"blitting", "send"}
    BY <1>a, <1>17 DEF DisableDrain
  <2> QED
    BY <1>0, <2>1 DEF XferIdle
<1>18. CASE DisableIdle
  <2>1. /\ UNCHANGED <<mfd, wq, run, dev>> /\ pm'.pc = pm.pc
        /\ drm.pc \notin {"blitting", "send"}
    BY <1>a, <1>18 DEF DisableIdle
  <2> QED
    BY <1>0, <2>1 DEF XferIdle
<1>19. ASSUME NEW v \in Level, BlWrite(v) \/ GammaWrite(v) PROVE TornInv'
  <2>1. /\ UNCHANGED <<mfd, drm, wq, run, dev>> /\ pm'.pc = pm.pc
    BY <1>a, <1>19 DEF BlWrite, GammaWrite
  <2> QED
    BY <1>0, <2>1 DEF XferIdle
<1>20. CASE ClockWrite
  <2>1. /\ UNCHANGED <<mfd, drm, wq, run, dev>> /\ pm'.pc = pm.pc
    BY <1>a, <1>20 DEF ClockWrite
  <2> QED
    BY <1>0, <2>1 DEF XferIdle
<1>21. CASE GammaLock \/ BlGet \/ ClockGet
  <2>1. /\ UNCHANGED <<mfd, drm, wq, run, dev>> /\ pm'.pc = pm.pc
    BY <1>a, <1>21 DEF GammaLock, BlGet, ClockGet
  <2> QED
    BY <1>0, <2>1 DEF XferIdle
<1>22. CASE BlCheck
  <2>1. /\ UNCHANGED <<mfd, drm, wq, run, dev>> /\ pm'.pc = pm.pc
    BY <1>a, <1>22 DEF BlCheck
  <2> QED
    BY <1>0, <2>1 DEF XferIdle
<1>23. CASE BlSend
  <2>1. /\ UNCHANGED <<mfd, wq, run, drm>> /\ pm'.pc = pm.pc
        /\ dev' = dev \/ dev' = OnBus(SetBacklight(dev, bl.arg, "user"))
    BY <1>a, <1>23 DEF BlSend
  <2>2. dev'.shown = dev.shown /\ dev'.latched = dev.latched
    BY <1>a, <2>1, LightSent
  <2> QED
    BY <1>0, <2>1, <2>2 DEF XferIdle
<1>24. CASE ClockSend
  <2>1. /\ UNCHANGED <<mfd, wq, run, drm>> /\ pm'.pc = pm.pc
        /\ dev' = dev \/ dev' = OnBus(dev)
    BY <1>a, <1>24 DEF ClockSend
  <2>2. dev'.shown = dev.shown /\ dev'.latched = dev.latched
    BY <1>a, <2>1, BusEffect
  <2> QED
    BY <1>0, <2>1, <2>2 DEF XferIdle
<1>25. CASE AutoSuspend \/ SystemSuspend
  <2>1. /\ UNCHANGED <<mfd, wq, run, drm, dev>>
        /\ pm.pc = "idle" /\ pm'.pc = "cancel"
    BY <1>a, <1>25 DEF AutoSuspend, SystemSuspend
  <2> QED
    BY <1>b, <2>1 DEF XferIdle
<1>26. CASE SuspendCancel
  <2>1. /\ UNCHANGED <<run, drm, dev>> /\ pm.pc = "cancel" /\ pm'.pc = "flush"
        /\ mfd'.cached = mfd.cached /\ mfd'.disconnected = mfd.disconnected
        /\ Contains(wq, "xfer") => Contains(wq', "xfer")
    BY <1>a, <1>26, RemoveProp DEF SuspendCancel
  <2> QED
    BY <1>b, <2>1 DEF XferIdle
<1>27. CASE SuspendFlush
  <2>1. /\ UNCHANGED <<mfd, wq, run, drm, dev>>
        /\ pm.pc = "flush" /\ pm'.pc = "flag"
    BY <1>a, <1>27 DEF SuspendFlush
  <2> QED
    BY <1>b, <2>1 DEF XferIdle
<1>28. CASE SuspendFlag \/ ResumeWake
  <2>1. pm'.pc \in {"down", "reset"}
    BY <1>a, <1>28 DEF SuspendFlag, ResumeWake
  <2> QED
    BY <2>1
<1>29. CASE ResumeReset
  <2>1. /\ pm.pc = "reset" /\ pm'.pc = "zero"
        /\ mfd'.disconnected = mfd.disconnected
    BY <1>a, <1>29 DEF ResumeReset
  <2>2. "errors" \notin setup.actors /\ Live => dev'.shown = "clock"
    BY <1>a, <1>b, <1>29, <2>1 DEF ResumeReset, PlReset, Alive, DevType
  <2> QED
    BY <1>b, <2>1, <2>2
<1>30. CASE ResumeZero
  <2>1. /\ UNCHANGED <<wq, run, drm, dev>>
        /\ pm.pc = "zero" /\ pm'.pc = "sync"
        /\ ~mfd'.cached /\ mfd'.disconnected = mfd.disconnected
    BY <1>a, <1>30 DEF ResumeZero
  <2> QED
    BY <1>b, <2>1 DEF XferIdle
<1>31. CASE ResumeSync
  <2>1. /\ UNCHANGED <<wq, run, drm, dev>>
        /\ pm.pc = "sync" /\ pm'.pc = "idle"
        /\ mfd'.cached = mfd.cached /\ mfd'.disconnected = mfd.disconnected
    BY <1>a, <1>31 DEF ResumeSync
  <2> QED
    BY <1>b, <2>1 DEF XferIdle
<1>32. CASE Unbind
  <2>1. /\ UNCHANGED <<mfd, drm, wq, run, dev>> /\ pm'.pc = pm.pc
    BY <1>a, <1>32 DEF Unbind
  <2> QED
    BY <1>0, <2>1 DEF XferIdle
<1>33. CASE DisconnectFlag
  <2>1. mfd'.disconnected
    BY <1>a, <1>33 DEF DisconnectFlag
  <2> QED
    BY <2>1
<1>34. CASE DisconnectCancel \/ DisconnectFlush \/ ChildrenRemove
            \/ ChildrenFreed
  <2>1. mfd.disconnected /\ mfd'.disconnected
    BY <1>a, <1>b, <1>34 DEF DisconnectCancel, DisconnectFlush,
                             ChildrenRemove, ChildrenFreed
  <2> QED
    BY <2>1
<1>35. CASE UNCHANGED vars
  BY <1>35, <1>0 DEF vars, XferIdle
<1> QED
  BY <1>1, <1>2, <1>3, <1>4, <1>5, <1>6, <1>7, <1>8, <1>9, <1>10, <1>11,
     <1>12, <1>13, <1>14, <1>15, <1>16, <1>17, <1>18, <1>19, <1>20, <1>21,
     <1>22, <1>23, <1>24, <1>25, <1>26, <1>27, <1>28, <1>29, <1>30, <1>31,
     <1>32, <1>33, <1>34, <1>35
     DEF Next, Wq, Update, Enable, Disabling, Writers, Pm, Unplug

(* They hold after probe.                                                  *)
LEMMA PictureInit == Init => BrightInv /\ ShadowInv /\ TornInv
<1> SUFFICES ASSUME Init PROVE BrightInv /\ ShadowInv /\ TornInv
  OBVIOUS
<1> QED
  BY DEF Init, BrightInv, ShadowInv, TornInv, Window

(* A driver that has settled on a live bus has restored the brightness and *)
(* the gamma curve, whatever was deferred, raced or lost, or its firmware  *)
(* has refused the last brightness it was sent for want of a frame.        *)
THEOREM BrightnessTheorem == Spec => []BrightnessRestored
<1>1. Typed /\ ModeInv /\ BrightInv /\ [Next]_vars => (ModeInv /\ BrightInv)'
  BY ModeStep, BrightStep
<1>2. Typed /\ BrightInv => BrightnessRestored
  BY DEF BrightInv, BrightnessRestored, Settled, Live
<1> QED
  BY <1>1, <1>2, ModeInit, PictureInit, TypedInit, TypedStep, PTL DEF Spec

(* A torn picture never stays on the panel.                                *)
THEOREM TornTheorem == Spec => []TornNeverStays
<1> DEFINE I == ModeInv /\ ShadowInv /\ TornInv
<1>1. Typed /\ I /\ [Next]_vars => I'
  BY ModeStep, ShadowStep, TornStep
<1>2. Typed /\ I => TornNeverStays
  <2>1. ASSUME wq = <<>> PROVE ~Contains(wq, "xfer")
    BY <2>1 DEF Contains
  <2> QED
    BY <2>1 DEF TornInv, TornNeverStays, PanelQuiet, Settled, Live, XferIdle
<1>3. Init => I
  BY ModeInit, PictureInit
<1> QED
  BY <1>1, <1>2, <1>3, TypedInit, TypedStep, PTL DEF Spec
=============================================================================
