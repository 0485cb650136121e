----------------------------- MODULE Ax206Proofs ----------------------------
(***************************************************************************)
(* Theorems about the AX206 driver (Ax206), for every set of systems, of   *)
(* brightness levels and every width of the panel.                         *)
(***************************************************************************)
EXTENDS Ax206, SequenceTheorems, TLAPS

-----------------------------------------------------------------------------
(* The workqueue.                                                          *)

(* The works, and the queues queue_work can build: a work of the DRM child *)
(* is pending at most once, while every brightness write has a work of its *)
(* own.                                                                    *)
WorkName == {"blit", "idle", "resume"}
WorkType == [name: WorkName, value: {0}] \cup [name: {"bl"}, value: Level]
Queues ==
    {q \in Seq(WorkType) :
        \A i, j \in 1..Len(q) : q[i] = q[j] /\ q[i].name # "bl" => i = j}

(* No brightness work is pending; the last one pending carries the level   *)
(* v.                                                                      *)
NoBl(q) == \A i \in 1..Len(q) : q[i].name # "bl"
LastBl(q, v) ==
    \A i \in 1..Len(q) :
        q[i].name = "bl" /\ (\A j \in 1..Len(q) : j > i => q[j].name # "bl")
            => q[i].value = v

(* A queue is a sequence of works.                                         *)
LEMMA QueueType ==
    ASSUME NEW q \in Queues
    PROVE  /\ q \in Seq(WorkType) /\ Len(q) \in Nat /\ DOMAIN q = 1..Len(q)
           /\ \A i \in 1..Len(q) : q[i] \in WorkType
           /\ \A i, j \in 1..Len(q) : q[i] = q[j] /\ q[i].name # "bl" => i = j
<1>1. q \in Seq(WorkType)
  BY DEF Queues
<1>2. Len(q) \in Nat /\ DOMAIN q = 1..Len(q)
  BY <1>1, LenProperties
<1>3. \A i \in 1..Len(q) : q[i] \in WorkType
  BY <1>1, <1>2, ElementOfSeq
<1> QED
  BY <1>1, <1>2, <1>3 DEF Queues

(* A work of the DRM child is known by its name.                           *)
LEMMA WorkProp ==
    /\ \A name \in WorkName : Work(name, 0) \in WorkType
    /\ \A name \in WorkName : Work(name, 0).name = name
    /\ \A v \in Level : /\ Work("bl", v) \in WorkType
                        /\ Work("bl", v).name = "bl"
                        /\ Work("bl", v).value = v
    /\ \A x, y \in WorkType :
          x.name = y.name /\ x.name # "bl" => x = y
    /\ \A x \in WorkType :
          /\ x.name \in WorkName \cup {"bl"}
          /\ x.name = "bl" => x.value \in Level
          /\ x.name # "bl" => x.value = 0 /\ x = Work(x.name, 0)
  BY DEF Work, WorkType, WorkName

(* A new work goes behind the pending ones.                                *)
LEMMA AppendProp ==
    ASSUME NEW q \in Queues, NEW w \in WorkType,
           w.name = "bl" \/ ~Contains(q, w)
    PROVE  /\ Append(q, w) \in Queues
           /\ \A x : Contains(Append(q, w), x) <=> Contains(q, x) \/ x = w
           /\ NoBl(Append(q, w)) <=> NoBl(q) /\ w.name # "bl"
           /\ w.name = "bl" => LastBl(Append(q, w), w.value)
           /\ w.name # "bl" =>
                  \A v : LastBl(q, v) => LastBl(Append(q, w), v)
<1> DEFINE r == Append(q, w)
<1>1. /\ r \in Seq(WorkType)
      /\ Len(r) = Len(q) + 1
      /\ r[Len(q) + 1] = w
      /\ \A i \in 1..Len(q) : r[i] = q[i]
  BY QueueType, AppendProperties
<1>2. \A i \in 1..Len(r) : i = Len(q) + 1 \/ i \in 1..Len(q)
  BY <1>1, QueueType
<1>3. \A i \in 1..Len(q) : i \in 1..Len(r) /\ i # Len(q) + 1
  BY <1>1, QueueType
<1>4. Len(q) + 1 \in 1..Len(r) /\ Len(q) \in Nat
  BY <1>1, QueueType
<1> HIDE DEF r
<1>5. r \in Queues
  <2>1. ASSUME NEW i \in 1..Len(r), NEW j \in 1..Len(r), r[i] = r[j],
               r[i].name # "bl"
        PROVE  i = j
    <3>1. w.name # "bl" => \A k \in 1..Len(q) : q[k] # w
      BY DEF Contains
    <3> QED
      BY <1>1, <1>2, <2>1, <3>1, QueueType
  <2> QED
    BY <1>1, <2>1 DEF Queues
<1>6. \A x : Contains(r, x) <=> Contains(q, x) \/ x = w
  BY <1>1, <1>2, <1>3, <1>4 DEF Contains
<1>7. NoBl(r) <=> NoBl(q) /\ w.name # "bl"
  BY <1>1, <1>2, <1>3, <1>4 DEF NoBl
<1>8. ASSUME w.name = "bl" PROVE LastBl(r, w.value)
  <2>1. ASSUME NEW i \in 1..Len(r), r[i].name = "bl",
               \A j \in 1..Len(r) : j > i => r[j].name # "bl"
        PROVE  r[i].value = w.value
    <3>1. ~(Len(q) + 1 > i)
      BY <1>1, <1>4, <1>8, <2>1
    <3>2. i = Len(q) + 1
      BY <1>2, <1>4, <2>1, <3>1
    <3> QED
      BY <1>1, <3>2
  <2> QED
    BY <2>1 DEF LastBl
<1>9. ASSUME NEW v, LastBl(q, v), w.name # "bl" PROVE LastBl(r, v)
  <2>1. ASSUME NEW i \in 1..Len(r), r[i].name = "bl",
               \A j \in 1..Len(r) : j > i => r[j].name # "bl"
        PROVE  r[i].value = v
    <3>1. i \in 1..Len(q) /\ r[i] = q[i]
      BY <1>1, <1>2, <1>9, <2>1
    <3>2. \A j \in 1..Len(q) : j > i => q[j].name # "bl"
      BY <1>1, <1>3, <2>1
    <3> QED
      BY <1>9, <2>1, <3>1, <3>2 DEF LastBl
  <2> QED
    BY <2>1 DEF LastBl
<1> QED
  BY <1>5, <1>6, <1>7, <1>8, <1>9 DEF r

(* queue_work leaves every pending work pending and adds the new one.      *)
LEMMA QueueProp ==
    ASSUME NEW q \in Queues, NEW name \in WorkName
    PROVE  /\ Queue(q, Work(name, 0)) \in Queues
           /\ \A x : Contains(Queue(q, Work(name, 0)), x) <=>
                         Contains(q, x) \/ x = Work(name, 0)
           /\ NoBl(Queue(q, Work(name, 0))) <=> NoBl(q)
           /\ \A v : LastBl(q, v) => LastBl(Queue(q, Work(name, 0)), v)
<1> DEFINE w == Work(name, 0)
<1>0. w \in WorkType /\ w.name # "bl"
  BY WorkProp DEF WorkName
<1> HIDE DEF w
<1>1. CASE Contains(q, w)
  BY <1>1 DEF Queue, w
<1>2. CASE ~Contains(q, w)
  <2>1. Queue(q, w) = Append(q, w)
    BY <1>2 DEF Queue
  <2>2. /\ Append(q, w) \in Queues
        /\ \A x : Contains(Append(q, w), x) <=> Contains(q, x) \/ x = w
        /\ NoBl(Append(q, w)) <=> NoBl(q)
        /\ \A v : LastBl(q, v) => LastBl(Append(q, w), v)
    BY <1>0, <1>2, AppendProp
  <2> QED
    BY <2>1, <2>2 DEF w
<1> QED
  BY <1>1, <1>2

(* The work that starts was the first, and the others stay pending.        *)
LEMMA TailProp ==
    ASSUME NEW q \in Queues, q # <<>>
    PROVE  /\ Head(q) \in WorkType /\ Tail(q) \in Queues
           /\ \A x : Contains(q, x) <=> Contains(Tail(q), x) \/ x = Head(q)
           /\ Head(q).name # "bl" => ~Contains(Tail(q), Head(q))
           /\ NoBl(q) <=> NoBl(Tail(q)) /\ Head(q).name # "bl"
           /\ \A v : LastBl(q, v) =>
                  /\ LastBl(Tail(q), v)
                  /\ NoBl(Tail(q)) /\ Head(q).name = "bl" =>
                         Head(q).value = v
<1> DEFINE r == Tail(q)
<1>1. /\ Head(q) = q[1] /\ Head(q) \in WorkType
      /\ r \in Seq(WorkType)
      /\ Len(r) = Len(q) - 1 /\ Len(q) >= 1
      /\ \A i \in 1..Len(r) : r[i] = q[i + 1]
  BY QueueType, HeadTailProperties, EmptySeq
<1>2. /\ Len(q) \in Nat /\ 1 \in 1..Len(q)
      /\ \A i \in 1..Len(r) : i + 1 \in 1..Len(q)
      /\ \A i \in 1..Len(q) :
            i = 1 \/ (i - 1 \in 1..Len(r) /\ r[i - 1] = q[i])
  BY <1>1, QueueType
<1> HIDE DEF r
<1>3. r \in Queues
  <2>1. ASSUME NEW i \in 1..Len(r), NEW j \in 1..Len(r), r[i] = r[j],
               r[i].name # "bl"
        PROVE  i = j
    BY <1>1, <1>2, <2>1, QueueType
  <2> QED
    BY <1>1, <2>1 DEF Queues
<1>4. \A x : Contains(q, x) <=> Contains(r, x) \/ x = Head(q)
  BY <1>1, <1>2 DEF Contains
<1>5. ASSUME Head(q).name # "bl" PROVE ~Contains(r, Head(q))
  <2>1. ASSUME NEW i \in 1..Len(r), r[i] = Head(q) PROVE FALSE
    <3>1. i + 1 = 1
      BY <1>1, <1>2, <1>5, <2>1, QueueType
    <3> QED
      BY <3>1
  <2> QED
    BY <2>1 DEF Contains
<1>6. NoBl(q) <=> NoBl(r) /\ Head(q).name # "bl"
  BY <1>1, <1>2 DEF NoBl
<1>7. ASSUME NEW v, LastBl(q, v) PROVE LastBl(r, v)
  <2>1. ASSUME NEW i \in 1..Len(r), r[i].name = "bl",
               \A j \in 1..Len(r) : j > i => r[j].name # "bl"
        PROVE  r[i].value = v
    <3>1. ASSUME NEW j \in 1..Len(q), j > i + 1 PROVE q[j].name # "bl"
      <4>1. j - 1 \in 1..Len(r) /\ r[j - 1] = q[j] /\ j - 1 > i
        BY <1>2, <3>1
      <4> QED
        BY <2>1, <4>1
    <3> QED
      BY <1>1, <1>2, <1>7, <2>1, <3>1 DEF LastBl
  <2> QED
    BY <2>1 DEF LastBl
<1>8. ASSUME NEW v, LastBl(q, v), NoBl(r), Head(q).name = "bl"
      PROVE  Head(q).value = v
  <2>1. ASSUME NEW j \in 1..Len(q), j > 1 PROVE q[j].name # "bl"
    BY <1>2, <1>8, <2>1 DEF NoBl
  <2> QED
    BY <1>1, <1>2, <1>8, <2>1 DEF LastBl
<1> QED
  BY <1>1, <1>3, <1>4, <1>5, <1>6, <1>7, <1>8 DEF r

(* cancel_work_sync takes its work off the queue for good, since it is     *)
(* there at most once, and leaves the others in their order.               *)
LEMMA CancelProp ==
    ASSUME NEW q \in Queues, NEW name \in WorkName
    PROVE  /\ Cancel(q, name) \in Queues
           /\ \A x : Contains(Cancel(q, name), x) <=>
                         Contains(q, x) /\ x # Work(name, 0)
           /\ NoBl(Cancel(q, name)) <=> NoBl(q)
           /\ \A v : LastBl(q, v) => LastBl(Cancel(q, name), v)
<1> DEFINE w == Work(name, 0)
<1>0. w \in WorkType /\ w.name # "bl"
  BY WorkProp DEF WorkName
<1> HIDE DEF w
<1>1. CASE ~Contains(q, w)
  <2>1. Cancel(q, name) = q
    BY <1>1 DEF Contains, Cancel, RemoveFirst, w
  <2> QED
    BY <1>1, <2>1 DEF w
<1>2. CASE Contains(q, w)
  <2>1. PICK k \in 1..Len(q) : q[k] = w
    BY <1>2 DEF Contains
  <2> DEFINE I == {i \in 1..Len(q) : q[i] = w}
  <2>2. I = {k}
    BY <1>0, <2>1, QueueType
  <2>3. Min(I) = k
    BY <2>2, QueueType DEF Min
  <2>4. Cancel(q, name) = RemoveAt(q, k)
    BY <2>1, <2>2, <2>3 DEF Cancel, RemoveFirst, SelectInSeq, w
  <2> DEFINE r == RemoveAt(q, k)
  <2>5. /\ r \in Seq(WorkType) /\ Len(r) = Len(q) - 1
        /\ \A i \in 1..Len(r) : r[i] = IF i < k THEN q[i] ELSE q[i + 1]
    <3>1. /\ SubSeq(q, 1, k - 1) \in Seq(WorkType)
          /\ Len(SubSeq(q, 1, k - 1)) = k - 1
          /\ \A i \in 1..(k - 1) : SubSeq(q, 1, k - 1)[i] = q[i]
      BY <2>1, QueueType, SubSeqProperties
    <3>2. /\ SubSeq(q, k + 1, Len(q)) \in Seq(WorkType)
          /\ Len(SubSeq(q, k + 1, Len(q))) = Len(q) - k
          /\ \A i \in 1..(Len(q) - k) : SubSeq(q, k + 1, Len(q))[i] = q[k + i]
      BY <2>1, QueueType, SubSeqProperties
    <3> DEFINE a == SubSeq(q, 1, k - 1)
               b == SubSeq(q, k + 1, Len(q))
    <3>3. r = a \o b
      BY DEF RemoveAt
    <3> HIDE DEF a, b, r
    <3>4. /\ a \in Seq(WorkType) /\ b \in Seq(WorkType)
          /\ Len(a) = k - 1 /\ Len(b) = Len(q) - k
      BY <3>1, <3>2 DEF a, b
    <3>5. r \in Seq(WorkType) /\ Len(r) = Len(q) - 1
      BY <2>1, <3>3, <3>4, QueueType, ConcatProperties
    <3>6. ASSUME NEW i \in 1..Len(r)
          PROVE  r[i] = IF i < k THEN q[i] ELSE q[i + 1]
      <4>1. r[i] = IF i <= Len(a) THEN a[i] ELSE b[i - Len(a)]
        BY <3>3, <3>4, <3>5, ConcatProperties
      <4>2. CASE i < k
        BY <2>1, <3>1, <3>4, <3>5, <4>1, <4>2, QueueType DEF a
      <4>3. CASE i >= k
        <5>1. /\ i - (k - 1) \in 1..(Len(q) - k)
              /\ ~(i <= Len(a)) /\ k + (i - (k - 1)) = i + 1
          BY <2>1, <3>4, <3>5, <4>3, QueueType
        <5> QED
          BY <3>2, <3>4, <4>1, <4>3, <5>1 DEF b
      <4> QED
        BY <2>1, <4>2, <4>3, QueueType
    <3> QED
      BY <3>5, <3>6
  <2> HIDE DEF r
  <2> DEFINE Src(i) == IF i < k THEN i ELSE i + 1
             Dst(j) == IF j < k THEN j ELSE j - 1
  <2>6. \A i \in 1..Len(r) :
           Src(i) \in 1..Len(q) /\ Src(i) # k /\ r[i] = q[Src(i)]
    BY <2>1, <2>5, QueueType
  <2>7. \A j \in 1..Len(q) :
           j # k => /\ Dst(j) \in 1..Len(r) /\ Src(Dst(j)) = j
                    /\ r[Dst(j)] = q[j]
    BY <2>1, <2>5, QueueType
  <2>8. \A i, j \in 1..Len(r) : /\ Src(i) = Src(j) => i = j
                                /\ Src(j) > Src(i) => j > i
    BY <2>1, <2>5, QueueType
  <2>9. \A j \in 1..Len(q) : j # k => q[j] # w
    BY <1>0, <2>1, QueueType
  <2> HIDE DEF Src, Dst
  <2>10. r \in Queues
    <3>1. ASSUME NEW i \in 1..Len(r), NEW j \in 1..Len(r), r[i] = r[j],
                 r[i].name # "bl"
          PROVE  i = j
      BY <2>6, <2>8, <3>1, QueueType
    <3> QED
      BY <2>5, <3>1 DEF Queues
  <2>11. ASSUME NEW x PROVE Contains(r, x) <=> Contains(q, x) /\ x # w
    <3>1. Contains(r, x) => Contains(q, x) /\ x # w
      BY <2>6, <2>9 DEF Contains
    <3>2. Contains(q, x) /\ x # w => Contains(r, x)
      BY <2>1, <2>7 DEF Contains
    <3> QED
      BY <3>1, <3>2
  <2>12. NoBl(r) <=> NoBl(q)
    <3>1. NoBl(q) => NoBl(r)
      BY <2>6 DEF NoBl
    <3>2. NoBl(r) => NoBl(q)
      BY <1>0, <2>1, <2>7 DEF NoBl
    <3> QED
      BY <3>1, <3>2
  <2>13. ASSUME NEW v, LastBl(q, v) PROVE LastBl(r, v)
    <3>1. ASSUME NEW i \in 1..Len(r), r[i].name = "bl",
                 \A j \in 1..Len(r) : j > i => r[j].name # "bl"
          PROVE  r[i].value = v
      <4>1. ASSUME NEW j \in 1..Len(q), j > Src(i) PROVE q[j].name # "bl"
        <5>1. CASE j = k
          BY <1>0, <2>1, <5>1
        <5>2. CASE j # k
          <6>1. Dst(j) \in 1..Len(r) /\ Src(Dst(j)) = j /\ r[Dst(j)] = q[j]
            BY <2>7, <5>2
          <6>2. Dst(j) > i
            BY <2>8, <4>1, <6>1
          <6> QED
            BY <3>1, <6>1, <6>2
        <5> QED
          BY <5>1, <5>2
      <4> QED
        BY <2>6, <2>13, <3>1, <4>1 DEF LastBl
    <3> QED
      BY <3>1 DEF LastBl
  <2> QED
    BY <2>4, <2>10, <2>11, <2>12, <2>13 DEF r, w
<1> QED
  BY <1>1, <1>2

-----------------------------------------------------------------------------
(* Types: the records of the driver and of the panel.                      *)

Thread == {"wq", "com"}
DevType ==
    [shadow: Image, rect: SUBSET Pixel,
     blit_active: BOOLEAN, idle_active: BOOLEAN, blanked: BOOLEAN,
     cleared: BOOLEAN, timer: BOOLEAN, timeout: BOOLEAN, noblank: BOOLEAN,
     backlight: Level, connected: BOOLEAN, direct: BOOLEAN,
     late: BOOLEAN, rearmed: BOOLEAN]
RunType ==
    [name: {"none", "blit", "idle", "resume", "bl"}, value: Level \cup {0},
     pc: {"start", "check", "copy", "send", "off", "black", "leaving"},
     rect: SUBSET Pixel, buf: Image]
ComType ==
    [pc: {"idle", "mark", "enable", "leaving", "clear"},
     open: BOOLEAN, opening: BOOLEAN, clip: SUBSET Pixel]
LeaveType == [Thread -> [pc: {"out", "blit", "light", "timer"}, value: Level]]
PanelType == [pixel: [Pixel -> Colour \cup {Demo}], light: Level \cup {0}]
RemType ==
    {"bound", "timer", "idle", "resume", "blit", "unplug", "shutdown", "freed"}

(* The damage rectangle holds the damage and stays on the panel.           *)
LEMMA HullProp ==
    ASSUME NEW S \in SUBSET Pixel
    PROVE  S \subseteq Hull(S) /\ Hull(S) \subseteq Pixel
  BY DEF Hull, Pixel

(* The black image is an image.                                            *)
LEMMA ImageProp ==
    /\ BlackImage \in Image
    /\ \A p \in Pixel : BlackImage[p] = Black
  BY DEF BlackImage, Image, Colour

(* Noting a late frame or power write.                                     *)
LEMMA LateType ==
    ASSUME NEW dd \in DevType
    PROVE  Late(dd) \in DevType
  BY Zenon DEF Late, DevType

(* Noting that the resume work restarts the countdown.                     *)
LEMMA RearmedType ==
    ASSUME NEW dd \in DevType
    PROVE  Rearmed(dd) \in DevType
  BY Zenon DEF Rearmed, DevType

(* Marking a rectangle dirty.                                              *)
LEMMA DirtyType ==
    ASSUME NEW dd \in DevType, NEW S \in SUBSET Pixel
    PROVE  MarkDirty(dd, S) \in DevType
<1>1. dd.rect \cup S \in SUBSET Pixel
  BY DEF DevType
<1>2. Hull(dd.rect \cup S) \in SUBSET Pixel
  BY <1>1, HullProp
<1>3. [dd EXCEPT !.rect = Hull(@ \cup S), !.blit_active = TRUE] \in DevType
  BY <1>2, Zenon DEF DevType
<1> QED
  BY <1>3, LateType DEF MarkDirty

(* ax206_drm_blank.                                                        *)
LEMMA BlankType ==
    ASSUME NEW dd \in DevType
    PROVE  Blank(dd) \in DevType
<1>1. [dd EXCEPT !.shadow = BlackImage, !.idle_active = FALSE] \in DevType
  BY ImageProp, Zenon DEF DevType
<1> QED
  BY <1>1, DirtyType DEF Blank

(* ax206_idle_timer_reset.                                                 *)
LEMMA ResetType ==
    ASSUME NEW dd \in DevType, IdleTimerReset(dd)
    PROVE  d' \in DevType
<1>1. [dd EXCEPT !.timer = TRUE] \in DevType
  BY Zenon DEF DevType
<1> QED
  BY <1>1 DEF IdleTimerReset

(* Sending a rectangle of an image.                                        *)
LEMMA ShownType ==
    ASSUME panel \in PanelType, NEW S \in SUBSET Pixel, NEW image \in Image
    PROVE  Shown(S, image) \in PanelType
<1>1. [p \in Pixel |-> IF p \in S THEN image[p] ELSE panel.pixel[p]]
          \in [Pixel -> Colour \cup {Demo}]
  BY DEF PanelType, Image
<1> QED
  BY <1>1, Zenon DEF Shown, PanelType

(* Sending a brightness.                                                   *)
LEMMA LightType ==
    ASSUME panel \in PanelType, NEW v \in Level \cup {0}
    PROVE  [panel EXCEPT !.light = v] \in PanelType
  BY DEF PanelType

(* No step leaves struct ax206_drm_dev's type.                             *)
LEMMA DevTypeStep ==
    ASSUME d \in DevType, com \in ComType, [Next]_vars
    PROVE  d' \in DevType
<1>0. ASSUME UNCHANGED d PROVE d' \in DevType
  BY <1>0
<1>1. CASE BlitSnapshot
  <2>1. /\ [d EXCEPT !.blit_active = FALSE] \in DevType
        /\ [d EXCEPT !.rect = {}] \in DevType
    BY Zenon DEF DevType
  <2> QED
    BY <1>1, <2>1 DEF BlitSnapshot
<1>2. CASE IdleEnter
  <2>1. [d EXCEPT !.idle_active = TRUE, !.blanked = TRUE] \in DevType
    BY Zenon DEF DevType
  <2> QED
    BY <1>2, <2>1 DEF IdleEnter
<1>3. CASE ResumeWork
  <2>1. [d EXCEPT !.idle_active = FALSE, !.blanked = FALSE] \in DevType
    BY Zenon DEF DevType
  <2> QED
    BY <1>3, <2>1 DEF ResumeWork
<1>4. ASSUME NEW t \in {"wq", "com"},
             LeaveTimer(t)
      PROVE  d' \in DevType
  BY <1>4, ResetType, LateType, RearmedType DEF LeaveTimer
<1>5. CASE TimerFire
  BY <1>5, Zenon DEF TimerFire, DevType
<1>6. ASSUME NEW clip \in SUBSET Pixel, NEW image \in Image,
             Update(clip, image)
      PROVE  d' \in DevType
  <2> DEFINE written == [p \in Pixel |-> IF p \in clip THEN image[p]
                                     ELSE d.shadow[p]]
  <2>1. written \in Image
    BY DEF Image, DevType
  <2>2. [d EXCEPT !.shadow = written] \in DevType
    BY <2>1, Zenon DEF DevType
  <2>3. IdleTimerReset(Late([d EXCEPT !.shadow = written]))
    BY <1>6 DEF Update
  <2> QED
    BY <2>2, <2>3, LateType, ResetType
<1>7. CASE UpdateMark
  BY <1>7, DirtyType DEF UpdateMark, ComType
<1>8. CASE Enable
  <2>1. [d EXCEPT !.idle_active = FALSE, !.blanked = FALSE, !.direct = TRUE]
            \in DevType
    BY Zenon DEF DevType
  <2> QED
    BY <1>8, <2>1 DEF Enable
<1>9. CASE EnableClear
  <2>1. Blank(d) \in DevType /\ d.timeout \in BOOLEAN
    BY BlankType DEF DevType
  <2>2. [Blank(d) EXCEPT !.cleared = TRUE, !.timer = @ \/ d.timeout]
            \in DevType
    BY <2>1, Zenon DEF DevType
  <2> QED
    BY <1>9, <2>2, LateType, ResetType DEF EnableClear
<1>10. CASE Disable
  <2>1. [d EXCEPT !.timer = FALSE] \in DevType
    BY Zenon DEF DevType
  <2> QED
    BY <1>10, <2>1, BlankType DEF Disable
<1>11. ASSUME NEW v \in Level,
              BlWrite(v)
       PROVE  d' \in DevType
  BY <1>11, Zenon DEF BlWrite, DevType
<1>12. CASE PowerOn \/ DelayZero
  <2>1. [d EXCEPT !.timeout = FALSE, !.timer = FALSE] \in DevType
    BY Zenon DEF DevType
  <2> QED
    BY <1>12, <2>1, LateType DEF PowerOn, DelayZero
<1>13. CASE PowerAuto
  <2>1. [d EXCEPT !.timeout = TRUE] \in DevType
    BY Zenon DEF DevType
  <2> QED
    BY <1>13, <2>1, LateType, ResetType DEF PowerAuto
<1>14. CASE NoblankWrite
  BY <1>14, Zenon DEF NoblankWrite, DevType
<1>15. CASE Disconnect
  BY <1>15, Zenon DEF Disconnect, DevType
<1>16. CASE RemoveCancel
  <2>1. d' \in {d, [d EXCEPT !.timer = FALSE]}
    BY <1>16 DEF RemoveCancel, RemoveTimer, RemoveIdle,
                 RemoveResume, RemoveBlit, RemoveWork
  <2> QED
    BY <2>1, Zenon DEF DevType
<1>17. CASE Dispatch \/ BlitCheck \/ BlitCopy \/ BlitSend \/ IdleEnterOff
            \/ IdleEnterBlack \/ BlWork
  BY <1>17, <1>0 DEF Dispatch, BlitCheck, BlitCopy, BlitSend, IdleEnterOff,
                     IdleEnterBlack, BlWork
<1>18. CASE RemoveUnplug \/ RemoveFree
  BY <1>18, <1>0 DEF RemoveUnplug, RemoveFree
<1>19. ASSUME NEW t \in {"wq", "com"},
              LeaveBlit(t) \/ LeaveLight(t)
       PROVE  d' \in DevType
  BY <1>19, <1>0 DEF LeaveBlit, LeaveLight
<1>20. CASE UNCHANGED vars
  BY <1>20, <1>0 DEF vars
<1> QED
  BY <1>1, <1>2, <1>3, <1>4, <1>5, <1>6, <1>7, <1>8, <1>9, <1>10, <1>11,
     <1>12, <1>13, <1>14, <1>15, <1>16, <1>17, <1>18, <1>19, <1>20
     DEF Next, Wq, BlitWorker, IdleEntering, Leaving, Committing, Removing

(* The work in progress.                                                   *)
LEMMA RunTypeStep ==
    ASSUME run \in RunType, d \in DevType, wq \in Queues, [Next]_vars
    PROVE  run' \in RunType
<1>0. ASSUME UNCHANGED run PROVE run' \in RunType
  BY <1>0
<1>00. NextRound \in RunType /\ (Done => run' \in RunType)
  BY ImageProp DEF Done, NextRound, RunType
<1>1. CASE Dispatch
  <2>1. /\ Head(wq).name \in {"blit", "idle", "resume", "bl"}
        /\ Head(wq).value \in Level \cup {0}
    BY <1>1, TailProp, WorkProp DEF Dispatch, WorkName
  <2> QED
    BY <1>1, <2>1 DEF Dispatch, RunType
<1>2. CASE BlitSnapshot
  <2>1. d.rect \in SUBSET Pixel
    BY DEF DevType
  <2> QED
    BY <1>2, <2>1, <1>00 DEF BlitSnapshot, RunType
<1>3. CASE BlitCheck
  BY <1>3, <1>00 DEF BlitCheck, RunType
<1>4. CASE BlitCopy
  <2> DEFINE copy == [p \in Pixel |-> IF p \in run.rect THEN d.shadow[p]
                                  ELSE Black]
  <2>1. copy \in Image
    BY DEF DevType, Image, Colour
  <2>2. [run EXCEPT !.pc = "send", !.buf = copy] \in RunType
    BY <2>1 DEF RunType
  <2>3. run' \in {[run EXCEPT !.pc = "send", !.buf = copy], NextRound}
    BY <1>4, Zenon DEF BlitCopy
  <2> HIDE DEF copy
  <2> QED
    BY <1>00, <2>2, <2>3
<1>5. CASE BlitSend
  BY <1>5, <1>00 DEF BlitSend
<1>6. CASE IdleEnter
  BY <1>6, <1>00 DEF IdleEnter, RunType
<1>7. CASE IdleEnterOff
  BY <1>7 DEF IdleEnterOff, RunType
<1>8. CASE IdleEnterBlack
  BY <1>8, <1>00 DEF IdleEnterBlack
<1>9. CASE ResumeWork
  BY <1>9, <1>00 DEF ResumeWork, RunType
<1>10. CASE BlWork
  BY <1>10, <1>00 DEF BlWork
<1>11. ASSUME NEW t \in {"wq", "com"},
              LeaveTimer(t)
       PROVE  run' \in RunType
  BY <1>11, <1>00, <1>0 DEF LeaveTimer
<1>12. CASE TimerFire \/ UpdateMark \/ Enable \/ EnableClear \/ Disable
            \/ PowerOn \/ PowerAuto
  BY <1>12, <1>0 DEF TimerFire, UpdateMark, Enable, EnableClear, Disable,
                     PowerOn, PowerAuto
<1>13. CASE DelayZero \/ NoblankWrite \/ Disconnect \/ RemoveCancel
            \/ RemoveUnplug \/ RemoveFree
  BY <1>13, <1>0 DEF DelayZero, NoblankWrite, Disconnect, RemoveCancel,
                     RemoveTimer, RemoveIdle,
                     RemoveResume, RemoveBlit, RemoveWork,
                     RemoveUnplug, RemoveFree
<1>14. ASSUME NEW t \in {"wq", "com"},
              LeaveBlit(t) \/ LeaveLight(t)
       PROVE  run' \in RunType
  BY <1>14, <1>0 DEF LeaveBlit, LeaveLight
<1>15. ASSUME NEW clip \in SUBSET Pixel, NEW image \in Image,
              Update(clip, image)
       PROVE  run' \in RunType
  BY <1>15, <1>0 DEF Update
<1>16. ASSUME NEW v \in Level,
              BlWrite(v)
       PROVE  run' \in RunType
  BY <1>16, <1>0 DEF BlWrite
<1>17. CASE UNCHANGED vars
  BY <1>17, <1>0 DEF vars
<1> QED
  BY <1>1, <1>2, <1>3, <1>4, <1>5, <1>6, <1>7, <1>8, <1>9, <1>10, <1>11,
     <1>12, <1>13, <1>14, <1>15, <1>16, <1>17
     DEF Next, Wq, BlitWorker, IdleEntering, Leaving, Committing, Removing

(* The commit in progress.                                                 *)
LEMMA ComTypeStep ==
    ASSUME com \in ComType, [Next]_vars
    PROVE  com' \in ComType
<1>0. ASSUME UNCHANGED com PROVE com' \in ComType
  BY <1>0
<1>1. ASSUME NEW t \in {"wq", "com"},
             LeaveTimer(t)
      PROVE  com' \in ComType
  BY <1>1, <1>0 DEF LeaveTimer, ComType
<1>2. ASSUME NEW clip \in SUBSET Pixel, NEW image \in Image,
             Update(clip, image)
      PROVE  com' \in ComType
  <2>1. {p \in clip : d.shadow[p] # image[p]} \in SUBSET Pixel
    OBVIOUS
  <2> QED
    BY <1>2, <2>1 DEF Update, AfterUpdate, ComType
<1>3. CASE UpdateMark
  BY <1>3 DEF UpdateMark, AfterUpdate, ComType
<1>4. CASE Enable
  BY <1>4 DEF Enable, ComType
<1>5. CASE EnableClear
  BY <1>5 DEF EnableClear, ComType
<1>6. CASE Disable
  BY <1>6 DEF Disable, ComType
<1>7. CASE Dispatch \/ BlitSnapshot \/ BlitCheck \/ BlitCopy \/ BlitSend
           \/ IdleEnter \/ IdleEnterOff
  BY <1>7, <1>0 DEF Dispatch, BlitSnapshot, BlitCheck, BlitCopy, BlitSend,
                    IdleEnter, IdleEnterOff
<1>8. CASE IdleEnterBlack \/ ResumeWork \/ BlWork \/ TimerFire \/ PowerOn
           \/ PowerAuto \/ DelayZero
  BY <1>8, <1>0 DEF IdleEnterBlack, ResumeWork, BlWork, TimerFire, PowerOn,
                    PowerAuto, DelayZero
<1>9. CASE NoblankWrite \/ Disconnect \/ RemoveCancel \/ RemoveUnplug
           \/ RemoveFree
  BY <1>9, <1>0 DEF NoblankWrite, Disconnect, RemoveCancel, RemoveTimer,
                    RemoveIdle,
                    RemoveResume, RemoveBlit, RemoveWork, RemoveUnplug,
                    RemoveFree
<1>10. ASSUME NEW t \in {"wq", "com"},
              LeaveBlit(t) \/ LeaveLight(t)
       PROVE  com' \in ComType
  BY <1>10, <1>0 DEF LeaveBlit, LeaveLight
<1>11. ASSUME NEW v \in Level,
              BlWrite(v)
       PROVE  com' \in ComType
  BY <1>11, <1>0 DEF BlWrite
<1>12. CASE UNCHANGED vars
  BY <1>12, <1>0 DEF vars
<1> QED
  BY <1>1, <1>2, <1>3, <1>4, <1>5, <1>6, <1>7, <1>8, <1>9, <1>10, <1>11,
     <1>12
     DEF Next, Wq, BlitWorker, IdleEntering, Leaving, Committing, Removing

(* The two threads of ax206_idle_leave.                                    *)
LEMMA LeaveTypeStep ==
    ASSUME leave \in LeaveType, d \in DevType, [Next]_vars
    PROVE  leave' \in LeaveType
<1>0. ASSUME UNCHANGED leave PROVE leave' \in LeaveType
  BY <1>0
<1>1. CASE ResumeWork
  <2>1. [leave EXCEPT !["wq"].pc = "blit", !["wq"].value = d.backlight]
            \in LeaveType
    BY DEF LeaveType, DevType, Thread
  <2> QED
    BY <1>1, <2>1 DEF ResumeWork
<1>2. ASSUME NEW t \in {"wq", "com"},
             LeaveBlit(t)
      PROVE  leave' \in LeaveType
  BY <1>2 DEF LeaveBlit, LeaveType
<1>3. ASSUME NEW t \in {"wq", "com"},
             LeaveLight(t)
      PROVE  leave' \in LeaveType
  BY <1>3, LevelAssumption DEF LeaveLight, LeaveType
<1>4. ASSUME NEW t \in {"wq", "com"},
             LeaveTimer(t)
      PROVE  leave' \in LeaveType
  BY <1>4 DEF LeaveTimer, LeaveType
<1>5. CASE Enable
  <2>1. [leave EXCEPT !["com"].pc = "blit", !["com"].value = d.backlight]
            \in LeaveType
    BY DEF LeaveType, DevType, Thread
  <2> QED
    BY <1>5, <2>1 DEF Enable
<1>6. CASE Dispatch \/ BlitSnapshot \/ BlitCheck \/ BlitCopy \/ BlitSend
           \/ IdleEnter \/ IdleEnterOff
  BY <1>6, <1>0 DEF Dispatch, BlitSnapshot, BlitCheck, BlitCopy, BlitSend,
                    IdleEnter, IdleEnterOff
<1>7. CASE IdleEnterBlack \/ BlWork \/ TimerFire \/ UpdateMark \/ EnableClear
           \/ Disable \/ PowerOn
  BY <1>7, <1>0 DEF IdleEnterBlack, BlWork, TimerFire, UpdateMark,
                    EnableClear, Disable, PowerOn
<1>8. CASE PowerAuto \/ DelayZero \/ NoblankWrite \/ Disconnect
           \/ RemoveCancel \/ RemoveUnplug \/ RemoveFree
  BY <1>8, <1>0 DEF PowerAuto, DelayZero, NoblankWrite, Disconnect,
                    RemoveCancel, RemoveTimer, RemoveIdle,
                    RemoveResume, RemoveBlit, RemoveWork, RemoveUnplug,
                    RemoveFree
<1>9. ASSUME NEW clip \in SUBSET Pixel, NEW image \in Image,
             Update(clip, image)
      PROVE  leave' \in LeaveType
  BY <1>9, <1>0 DEF Update
<1>10. ASSUME NEW v \in Level,
              BlWrite(v)
       PROVE  leave' \in LeaveType
  BY <1>10, <1>0 DEF BlWrite
<1>11. CASE UNCHANGED vars
  BY <1>11, <1>0 DEF vars
<1> QED
  BY <1>1, <1>2, <1>3, <1>4, <1>5, <1>6, <1>7, <1>8, <1>9, <1>10, <1>11
     DEF Next, Wq, BlitWorker, IdleEntering, Leaving, Committing, Removing

(* The panel.                                                              *)
LEMMA PanelTypeStep ==
    ASSUME /\ panel \in PanelType /\ d \in DevType /\ run \in RunType
           /\ leave \in LeaveType /\ [Next]_vars
    PROVE  panel' \in PanelType
<1>0. ASSUME UNCHANGED panel PROVE panel' \in PanelType
  BY <1>0
<1>1. CASE BlitSend
  BY <1>1, <1>0, ShownType DEF BlitSend, RunType
<1>2. CASE IdleEnterOff
  BY <1>2, <1>0, LightType DEF IdleEnterOff
<1>3. CASE IdleEnterBlack
  BY <1>3, <1>0, ShownType, ImageProp DEF IdleEnterBlack
<1>4. CASE BlWork
  BY <1>4, <1>0, LightType DEF BlWork, RunType
<1>5. ASSUME NEW t \in {"wq", "com"},
             LeaveBlit(t)
      PROVE  panel' \in PanelType
  BY <1>5, <1>0, ShownType DEF LeaveBlit, DevType
<1>6. ASSUME NEW t \in {"wq", "com"},
             LeaveLight(t)
      PROVE  panel' \in PanelType
  BY <1>6, <1>0, LightType DEF LeaveLight, LeaveType, Thread
<1>7. CASE Disconnect
  <2>1. Shown(Pixel, BlackImage) \in PanelType
    BY ShownType, ImageProp
  <2>2. [Shown(Pixel, BlackImage) EXCEPT !.light = 0] \in PanelType
    BY <2>1, Zenon DEF PanelType
  <2> QED
    BY <1>7, <1>0, <2>2 DEF Disconnect
<1>8. CASE Dispatch \/ BlitSnapshot \/ BlitCheck \/ BlitCopy \/ IdleEnter
           \/ ResumeWork \/ TimerFire
  BY <1>8, <1>0 DEF Dispatch, BlitSnapshot, BlitCheck, BlitCopy, IdleEnter,
                    ResumeWork, TimerFire
<1>9. CASE UpdateMark \/ Enable \/ EnableClear \/ Disable \/ PowerOn
           \/ PowerAuto \/ DelayZero
  BY <1>9, <1>0 DEF UpdateMark, Enable, EnableClear, Disable, PowerOn,
                    PowerAuto, DelayZero
<1>10. CASE NoblankWrite \/ RemoveCancel \/ RemoveUnplug \/ RemoveFree
  BY <1>10, <1>0 DEF NoblankWrite, RemoveCancel, RemoveTimer, RemoveIdle,
                     RemoveResume, RemoveBlit, RemoveWork, RemoveUnplug,
                     RemoveFree
<1>11. ASSUME NEW t \in {"wq", "com"},
              LeaveTimer(t)
       PROVE  panel' \in PanelType
  BY <1>11, <1>0 DEF LeaveTimer
<1>12. ASSUME NEW clip \in SUBSET Pixel, NEW image \in Image,
              Update(clip, image)
       PROVE  panel' \in PanelType
  BY <1>12, <1>0 DEF Update
<1>13. ASSUME NEW v \in Level,
              BlWrite(v)
       PROVE  panel' \in PanelType
  BY <1>13, <1>0 DEF BlWrite
<1>14. CASE UNCHANGED vars
  BY <1>14, <1>0 DEF vars
<1> QED
  BY <1>1, <1>2, <1>3, <1>4, <1>5, <1>6, <1>7, <1>8, <1>9, <1>10, <1>11,
     <1>12, <1>13, <1>14
     DEF Next, Wq, BlitWorker, IdleEntering, Leaving, Committing, Removing

(* The removal.                                                            *)
LEMMA RemTypeStep ==
    ASSUME rem \in RemType, [Next]_vars
    PROVE  rem' \in RemType
<1>0. ASSUME UNCHANGED rem PROVE rem' \in RemType
  BY <1>0
<1>1. CASE Dispatch \/ BlitSnapshot \/ BlitCheck \/ BlitCopy \/ BlitSend
           \/ IdleEnter \/ IdleEnterOff
  BY <1>1, <1>0 DEF Dispatch, BlitSnapshot, BlitCheck, BlitCopy, BlitSend,
                    IdleEnter, IdleEnterOff, RemType
<1>2. CASE IdleEnterBlack \/ ResumeWork \/ BlWork \/ TimerFire \/ UpdateMark
           \/ Enable \/ EnableClear
  BY <1>2, <1>0 DEF IdleEnterBlack, ResumeWork, BlWork, TimerFire,
                    UpdateMark, Enable, EnableClear, RemType
<1>3. CASE Disable \/ PowerOn \/ PowerAuto \/ DelayZero \/ NoblankWrite
           \/ Disconnect \/ RemoveCancel
  BY <1>3, <1>0 DEF Disable, PowerOn, PowerAuto, DelayZero, NoblankWrite,
                    Disconnect, RemoveCancel, RemoveTimer, RemoveIdle,
                    RemoveResume, RemoveBlit, RemoveWork, RemType
<1>4. CASE RemoveUnplug \/ RemoveFree
  BY <1>4, <1>0 DEF RemoveUnplug, RemoveFree, RemType
<1>5. ASSUME NEW t \in {"wq", "com"},
             LeaveBlit(t) \/ LeaveLight(t) \/ LeaveTimer(t)
      PROVE  rem' \in RemType
  BY <1>5, <1>0 DEF LeaveBlit, LeaveLight, LeaveTimer, RemType
<1>6. ASSUME NEW clip \in SUBSET Pixel, NEW image \in Image,
             Update(clip, image)
      PROVE  rem' \in RemType
  BY <1>6, <1>0 DEF Update, RemType
<1>7. ASSUME NEW v \in Level,
             BlWrite(v)
      PROVE  rem' \in RemType
  BY <1>7, <1>0 DEF BlWrite, RemType
<1>8. CASE UNCHANGED vars
  BY <1>8, <1>0 DEF vars, RemType
<1> QED
  BY <1>1, <1>2, <1>3, <1>4, <1>5, <1>6, <1>7, <1>8
     DEF Next, Wq, BlitWorker, IdleEntering, Leaving, Committing, Removing

(* The workqueue.                                                          *)
LEMMA QueuesStep ==
    ASSUME wq \in Queues, [Next]_vars
    PROVE  wq' \in Queues
<1>0. ASSUME UNCHANGED wq PROVE wq' \in Queues
  BY <1>0
<1>00. \A name \in {"blit", "idle", "resume"} :
          Queue(wq, Work(name, 0)) \in Queues
  BY QueueProp DEF WorkName
<1>1. CASE Dispatch
  BY <1>1, TailProp DEF Dispatch
<1>2. ASSUME NEW t \in {"wq", "com"},
             LeaveTimer(t)
      PROVE  wq' \in Queues
  BY <1>2, <1>00 DEF LeaveTimer, IdleTimerReset
<1>3. CASE TimerFire
  BY <1>3, <1>00 DEF TimerFire
<1>4. ASSUME NEW clip \in SUBSET Pixel, NEW image \in Image,
             Update(clip, image)
      PROVE  wq' \in Queues
  BY <1>4, <1>00 DEF Update, IdleTimerReset
<1>5. CASE UpdateMark
  BY <1>5, <1>00 DEF UpdateMark, BlitQueued
<1>6. CASE EnableClear
  BY <1>6, <1>00 DEF EnableClear, BlitQueued, IdleTimerReset
<1>7. CASE Disable
  <2>1. Cancel(wq, "idle") \in Queues
    BY CancelProp DEF WorkName
  <2>2. Queue(Cancel(wq, "idle"), Work("blit", 0)) \in Queues
    BY <2>1, QueueProp DEF WorkName
  <2> QED
    BY <1>7, <2>1, <2>2 DEF Disable
<1>8. ASSUME NEW v \in Level,
             BlWrite(v)
      PROVE  wq' \in Queues
  <2>1. /\ Work("bl", v) \in WorkType /\ Work("bl", v).name = "bl"
        /\ wq' = Append(wq, Work("bl", v))
    BY <1>8, WorkProp DEF BlWrite
  <2> QED
    BY <2>1, AppendProp
<1>9. CASE PowerOn \/ PowerAuto
  BY <1>9, <1>00 DEF PowerOn, PowerAuto, IdleTimerReset
<1>10. CASE RemoveCancel
  <2>1. \A name \in WorkName : Cancel(wq, name) \in Queues
    BY CancelProp
  <2> QED
    BY <1>10, <2>1 DEF RemoveCancel, RemoveTimer, RemoveIdle,
                       RemoveResume, RemoveBlit, RemoveWork, WorkName
<1>11. CASE BlitSnapshot \/ BlitCheck \/ BlitCopy \/ BlitSend \/ IdleEnter
            \/ IdleEnterOff \/ IdleEnterBlack
  BY <1>11, <1>0 DEF BlitSnapshot, BlitCheck, BlitCopy, BlitSend, IdleEnter,
                     IdleEnterOff, IdleEnterBlack
<1>12. CASE ResumeWork \/ BlWork \/ Enable \/ DelayZero \/ NoblankWrite
            \/ Disconnect \/ RemoveUnplug
  BY <1>12, <1>0 DEF ResumeWork, BlWork, Enable, DelayZero, NoblankWrite,
                     Disconnect, RemoveUnplug
<1>13. CASE RemoveFree
  BY <1>13, <1>0 DEF RemoveFree
<1>14. ASSUME NEW t \in {"wq", "com"},
              LeaveBlit(t) \/ LeaveLight(t)
       PROVE  wq' \in Queues
  BY <1>14, <1>0 DEF LeaveBlit, LeaveLight
<1>15. CASE UNCHANGED vars
  BY <1>15, <1>0 DEF vars
<1> QED
  BY <1>1, <1>2, <1>3, <1>4, <1>5, <1>6, <1>7, <1>8, <1>9, <1>10, <1>11,
     <1>12, <1>13, <1>14, <1>15
     DEF Next, Wq, BlitWorker, IdleEntering, Leaving, Committing, Removing

(* No step changes the system.                                             *)
LEMMA SetupFixed ==
    ASSUME [Next]_vars
    PROVE  UNCHANGED setup
<1>1. CASE Dispatch \/ BlitSnapshot \/ BlitCheck \/ BlitCopy \/ BlitSend
           \/ IdleEnter \/ IdleEnterOff
  BY <1>1, TRUE DEF Dispatch, BlitSnapshot, BlitCheck, BlitCopy, BlitSend,
                    IdleEnter, IdleEnterOff
<1>2. CASE IdleEnterBlack \/ ResumeWork \/ BlWork \/ TimerFire \/ UpdateMark
           \/ Enable \/ EnableClear
  BY <1>2, TRUE DEF IdleEnterBlack, ResumeWork, BlWork, TimerFire,
                    UpdateMark, Enable, EnableClear
<1>3. CASE Disable \/ PowerOn \/ PowerAuto \/ DelayZero \/ NoblankWrite
           \/ Disconnect \/ RemoveCancel
  BY <1>3, TRUE DEF Disable, PowerOn, PowerAuto, DelayZero, NoblankWrite,
                    Disconnect, RemoveCancel, RemoveTimer, RemoveIdle,
                    RemoveResume, RemoveBlit, RemoveWork
<1>4. CASE RemoveUnplug \/ RemoveFree
  BY <1>4, TRUE DEF RemoveUnplug, RemoveFree
<1>5. ASSUME NEW t \in {"wq", "com"},
             LeaveBlit(t) \/ LeaveLight(t) \/ LeaveTimer(t)
      PROVE  UNCHANGED setup
  BY <1>5, TRUE DEF LeaveBlit, LeaveLight, LeaveTimer
<1>6. ASSUME NEW clip \in SUBSET Pixel, NEW image \in Image,
             Update(clip, image)
      PROVE  UNCHANGED setup
  BY <1>6, TRUE DEF Update
<1>7. ASSUME NEW v \in Level,
             BlWrite(v)
      PROVE  UNCHANGED setup
  BY <1>7, TRUE DEF BlWrite
<1>8. CASE UNCHANGED vars
  BY <1>8, TRUE DEF vars
<1> QED
  BY <1>1, <1>2, <1>3, <1>4, <1>5, <1>6, <1>7, <1>8
     DEF Next, Wq, BlitWorker, IdleEntering, Leaving, Committing, Removing

(* The type invariant with what makes it inductive.                        *)
Typed ==
    /\ setup \in Setups /\ d \in DevType /\ wq \in Queues /\ run \in RunType
    /\ com \in ComType /\ leave \in LeaveType /\ panel \in PanelType
    /\ rem \in RemType

(* It holds after probe.                                                   *)
LEMMA TypedInit == Init => Typed
<1> SUFFICES ASSUME Init PROVE Typed
  OBVIOUS
<1>1. d \in DevType
  BY LevelAssumption, SetupAssumption, ImageProp, Zenon DEF Init, DevType
<1>2. wq \in Queues
  <2>1. wq = <<>> /\ <<>> \in Seq(WorkType) /\ Len(<<>>) = 0
    BY EmptySeq DEF Init
  <2> QED
    BY <2>1 DEF Queues
<1>3. run \in RunType
  BY ImageProp DEF Init, RunType
<1>4. com \in ComType
  BY DEF Init, ComType
<1>5. leave \in LeaveType
  BY LevelAssumption DEF Init, LeaveType, Thread
<1>6. panel \in PanelType
  BY LevelAssumption DEF Init, PanelType
<1> QED
  BY <1>1, <1>2, <1>3, <1>4, <1>5, <1>6 DEF Init, Typed, RemType

(* No step breaks it.                                                      *)
LEMMA TypedStep ==
    ASSUME Typed, [Next]_vars
    PROVE  Typed'
<1>1. UNCHANGED setup
  BY SetupFixed
<1>2. /\ d' \in DevType /\ wq' \in Queues /\ run' \in RunType
      /\ com' \in ComType /\ leave' \in LeaveType /\ panel' \in PanelType
      /\ rem' \in RemType
  BY DevTypeStep, QueuesStep, RunTypeStep, ComTypeStep, LeaveTypeStep,
     PanelTypeStep, RemTypeStep
     DEF Typed
<1>3. /\ DevType' = DevType /\ RunType' = RunType /\ ComType' = ComType
      /\ PanelType' = PanelType
  BY <1>1 DEF DevType, RunType, ComType, PanelType, Image, Pixel
<1> QED
  BY <1>1, <1>2, <1>3 DEF Typed

(* Type correctness: ax206_drm_flush and ax206_drm_blank never mark a      *)
(* pixel the panel does not have, and no work is pending twice.            *)
THEOREM Ax206TypeTheorem == Spec => []TypeOK
<1>1. Typed /\ [Next]_vars => Typed'
  BY TypedStep
<1>2. Typed => TypeOK
  <2> SUFFICES ASSUME Typed PROVE TypeOK
    OBVIOUS
  <2>1. /\ wq \in Seq(WorkType) /\ DOMAIN wq = 1..Len(wq)
        /\ \A i, j \in 1..Len(wq) :
              wq[i] = wq[j] /\ wq[i].name # "bl" => i = j
    BY QueueType DEF Typed
  <2> QED
    BY <2>1 DEF Typed, TypeOK, DevType, WorkType, WorkName, RunType, ComType,
                LeaveType, Thread, PanelType, RemType
<1> QED
  BY <1>1, <1>2, TypedInit, PTL DEF Spec

-----------------------------------------------------------------------------
(* What the operations do, field by field.                                 *)

(* Noting a late frame or power write changes nothing else.                *)
LEMMA LateEffect ==
    ASSUME NEW dd \in DevType
    PROVE  /\ Late(dd).shadow = dd.shadow /\ Late(dd).rect = dd.rect
           /\ Late(dd).blit_active = dd.blit_active
           /\ Late(dd).idle_active = dd.idle_active
           /\ Late(dd).blanked = dd.blanked /\ Late(dd).cleared = dd.cleared
           /\ Late(dd).timer = dd.timer /\ Late(dd).timeout = dd.timeout
           /\ Late(dd).backlight = dd.backlight
           /\ Late(dd).connected = dd.connected /\ Late(dd).direct = dd.direct
           /\ Late(dd).rearmed = dd.rearmed
           /\ Late(dd).late <=> dd.late \/ Cancelling
  BY DEF Late, DevType

(* Nor does noting that the resume work restarts the countdown.            *)
LEMMA RearmedEffect ==
    ASSUME NEW dd \in DevType
    PROVE  LET e == Rearmed(dd)
           IN  /\ e.shadow = dd.shadow /\ e.rect = dd.rect
               /\ e.blit_active = dd.blit_active
               /\ e.idle_active = dd.idle_active
               /\ e.blanked = dd.blanked /\ e.cleared = dd.cleared
               /\ e.backlight = dd.backlight
               /\ e.connected = dd.connected /\ e.direct = dd.direct
               /\ e.late = dd.late
               /\ e.rearmed <=> dd.rearmed \/ Cancelling
  BY DEF Rearmed, DevType

(* ax206_idle_timer_reset arms the timer or queues the resume work.        *)
LEMMA ResetEffect ==
    ASSUME NEW dd \in DevType, IdleTimerReset(dd)
    PROVE  /\ d'.shadow = dd.shadow /\ d'.rect = dd.rect
           /\ d'.blit_active = dd.blit_active
           /\ d'.idle_active = dd.idle_active
           /\ d'.blanked = dd.blanked /\ d'.cleared = dd.cleared
           /\ d'.backlight = dd.backlight
           /\ d'.connected = dd.connected /\ d'.direct = dd.direct
           /\ d'.late = dd.late /\ d'.rearmed = dd.rearmed
           /\ wq' \in {wq, Queue(wq, Work("resume", 0))}
           /\ ~dd.idle_active => wq' = wq
<1>1. d' \in {dd, [dd EXCEPT !.timer = TRUE]}
  BY DEF IdleTimerReset
<1>2. /\ wq' \in {wq, Queue(wq, Work("resume", 0))}
      /\ ~dd.idle_active => wq' = wq
  BY DEF IdleTimerReset
<1> QED
  BY <1>1, <1>2 DEF DevType

(* Marking a rectangle dirty keeps what was dirty and takes the blit       *)
(* token.                                                                  *)
LEMMA DirtyEffect ==
    ASSUME NEW dd \in DevType, NEW S \in SUBSET Pixel
    PROVE  LET e == MarkDirty(dd, S)
           IN  /\ e.shadow = dd.shadow /\ e.blit_active
               /\ e.rect \in SUBSET Pixel /\ dd.rect \cup S \subseteq e.rect
               /\ e.idle_active = dd.idle_active
               /\ e.blanked = dd.blanked /\ e.cleared = dd.cleared
               /\ e.timer = dd.timer /\ e.backlight = dd.backlight
               /\ e.connected = dd.connected /\ e.direct = dd.direct
               /\ e.rearmed = dd.rearmed
               /\ dd.late \/ Cancelling => e.late
<1> DEFINE H == Hull(dd.rect \cup S)
           marked == [dd EXCEPT !.rect = H, !.blit_active = TRUE]
<1>1. H \in SUBSET Pixel /\ dd.rect \cup S \subseteq H
  BY HullProp DEF DevType
<1> HIDE DEF H
<1>2. marked \in DevType
  BY <1>1, Zenon DEF DevType
<1>3. /\ marked.shadow = dd.shadow /\ marked.rect = H /\ marked.blit_active
      /\ marked.idle_active = dd.idle_active
      /\ marked.blanked = dd.blanked /\ marked.cleared = dd.cleared
      /\ marked.timer = dd.timer /\ marked.backlight = dd.backlight
      /\ marked.connected = dd.connected /\ marked.direct = dd.direct
      /\ marked.late = dd.late /\ marked.rearmed = dd.rearmed
  BY DEF DevType
<1>4. MarkDirty(dd, S) = Late(marked)
  BY DEF MarkDirty, H
<1> HIDE DEF marked
<1> QED
  BY <1>1, <1>2, <1>3, <1>4, LateEffect

(* ax206_drm_blank makes the whole black shadow dirty and ends the idle    *)
(* state.                                                                  *)
LEMMA BlankEffect ==
    ASSUME NEW dd \in DevType
    PROVE  LET e == Blank(dd)
           IN  /\ e.shadow = BlackImage /\ e.blit_active /\ e.rect = Pixel
               /\ ~e.idle_active
               /\ e.blanked = dd.blanked /\ e.cleared = dd.cleared
               /\ e.timer = dd.timer /\ e.backlight = dd.backlight
               /\ e.connected = dd.connected /\ e.direct = dd.direct
               /\ e.rearmed = dd.rearmed
               /\ dd.late \/ Cancelling => e.late
<1> DEFINE black == [dd EXCEPT !.shadow = BlackImage, !.idle_active = FALSE]
<1>1. black \in DevType
  BY ImageProp, Zenon DEF DevType
<1>2. /\ black.shadow = BlackImage /\ black.idle_active = FALSE
      /\ black.blanked = dd.blanked /\ black.cleared = dd.cleared
      /\ black.timer = dd.timer /\ black.backlight = dd.backlight
      /\ black.connected = dd.connected /\ black.direct = dd.direct
      /\ black.late = dd.late /\ black.rearmed = dd.rearmed
  BY DEF DevType
<1>3. Blank(dd) = MarkDirty(black, Pixel)
  BY DEF Blank
<1> HIDE DEF black
<1> DEFINE e == MarkDirty(black, Pixel)
<1>4. /\ e.shadow = black.shadow /\ e.blit_active
      /\ e.rect \in SUBSET Pixel /\ black.rect \cup Pixel \subseteq e.rect
      /\ e.idle_active = black.idle_active
      /\ e.blanked = black.blanked /\ e.cleared = black.cleared
      /\ e.timer = black.timer /\ e.backlight = black.backlight
      /\ e.connected = black.connected /\ e.direct = black.direct
      /\ e.rearmed = black.rearmed
      /\ black.late \/ Cancelling => e.late
  BY <1>1, DirtyEffect
<1>5. e.rect = Pixel
  BY <1>4
<1> HIDE DEF e
<1> QED
  BY <1>2, <1>3, <1>4, <1>5 DEF e

(* A thread enters ax206_idle_leave.                                       *)
LEMMA EnterEffect ==
    ASSUME leave \in LeaveType, NEW t \in Thread, NEW v
    PROVE  LET l == [leave EXCEPT ![t].pc = "blit", ![t].value = v]
           IN  /\ l[t].pc = "blit" /\ l[t].value = v
               /\ \A u \in Thread : u # t => l[u] = leave[u]
<1> DEFINE m == [leave EXCEPT ![t].pc = "blit"]
           l == [m EXCEPT ![t].value = v]
<1>1. l = [leave EXCEPT ![t].pc = "blit", ![t].value = v]
  BY DEF LeaveType
<1>2. /\ m[t] = [leave[t] EXCEPT !.pc = "blit"]
      /\ \A u \in Thread : u # t => m[u] = leave[u]
  BY DEF LeaveType
<1>3. m[t].pc = "blit"
  BY <1>2 DEF LeaveType
<1>4. /\ l[t] = [m[t] EXCEPT !.value = v]
      /\ \A u \in Thread : u # t => l[u] = m[u]
  BY DEF LeaveType
<1>5. l[t].pc = "blit" /\ l[t].value = v
  BY <1>2, <1>4 DEF LeaveType
<1> QED
  BY <1>1, <1>2, <1>4, <1>5

(* ax206_drm_pipe_update: a pixel whose shadow changes is in the clip that *)
(* is going to be marked.                                                  *)
LEMMA UpdateEffect ==
    ASSUME d \in DevType, com \in ComType,
           NEW clip \in SUBSET Pixel, NEW image \in Image, Update(clip, image)
    PROVE  /\ d'.rect = d.rect /\ d'.blit_active = d.blit_active
           /\ d'.idle_active = d.idle_active
           /\ d'.blanked = d.blanked /\ d'.cleared = d.cleared
           /\ d'.backlight = d.backlight
           /\ d'.connected = d.connected /\ d'.direct = d.direct
           /\ d.late \/ Cancelling => d'.late
           /\ wq' \in {wq, Queue(wq, Work("resume", 0))}
           /\ \A p \in Pixel :
                 \/ d'.shadow[p] = d.shadow[p]
                 \/ com'.pc = "mark" /\ p \in com'.clip
           /\ com.pc = "idle" /\ com'.pc \in {"idle", "enable", "mark"}
           /\ rem \notin {"shutdown", "freed"}
           /\ com'.open = com.open
           /\ UNCHANGED <<setup, run, leave, panel, rem>>
<1> DEFINE written == [p \in Pixel |-> IF p \in clip THEN image[p]
                                       ELSE d.shadow[p]]
           changed == {p \in clip : d.shadow[p] # image[p]}
           new == [d EXCEPT !.shadow = written]
<1>1. /\ IdleTimerReset(Late(new))
      /\ com' = [com EXCEPT !.opening = ~com.open, !.clip = changed,
                    !.pc = IF changed = {} THEN AfterUpdate(~com.open)
                           ELSE "mark"]
      /\ com.pc = "idle" /\ rem \notin {"shutdown", "freed"}
      /\ UNCHANGED <<setup, run, leave, panel, rem>>
  BY DEF Update
<1>2. written \in Image
  BY DEF Image, DevType
<1>3. \A p \in Pixel : written[p] = d.shadow[p] \/ p \in changed
  OBVIOUS
<1> HIDE DEF written, changed
<1>4. new \in DevType
  BY <1>2, Zenon DEF DevType
<1>5. /\ new.shadow = written /\ new.rect = d.rect
      /\ new.blit_active = d.blit_active
      /\ new.idle_active = d.idle_active
      /\ new.blanked = d.blanked /\ new.cleared = d.cleared
      /\ new.backlight = d.backlight
      /\ new.connected = d.connected /\ new.direct = d.direct
      /\ new.late = d.late
  BY DEF DevType
<1> HIDE DEF new
<1>6. /\ com'.clip = changed
      /\ com'.pc = IF changed = {} THEN AfterUpdate(~com.open) ELSE "mark"
      /\ com'.open = com.open
  BY <1>1 DEF ComType
<1> DEFINE noted == Late(new)
<1>7. /\ noted \in DevType
      /\ noted.shadow = new.shadow /\ noted.rect = new.rect
      /\ noted.blit_active = new.blit_active
      /\ noted.idle_active = new.idle_active
      /\ noted.blanked = new.blanked /\ noted.cleared = new.cleared
      /\ noted.backlight = new.backlight
      /\ noted.connected = new.connected /\ noted.direct = new.direct
      /\ new.late \/ Cancelling => noted.late
  BY <1>4, LateType, LateEffect
<1> HIDE DEF noted
<1>8. /\ d'.shadow = noted.shadow /\ d'.rect = noted.rect
      /\ d'.blit_active = noted.blit_active
      /\ d'.idle_active = noted.idle_active
      /\ d'.blanked = noted.blanked /\ d'.cleared = noted.cleared
      /\ d'.backlight = noted.backlight
      /\ d'.connected = noted.connected /\ d'.direct = noted.direct
      /\ d'.late = noted.late
      /\ wq' \in {wq, Queue(wq, Work("resume", 0))}
  BY <1>1, <1>7, ResetEffect DEF noted
<1> QED
  BY <1>1, <1>3, <1>5, <1>6, <1>7, <1>8 DEF AfterUpdate

(* ax206_drm_flush marks the clip and takes the blit token.                *)
LEMMA MarkEffect ==
    ASSUME d \in DevType, com \in ComType, UpdateMark
    PROVE  /\ d'.shadow = d.shadow /\ d'.blit_active
           /\ d.rect \cup com.clip \subseteq d'.rect
           /\ d'.rect \in SUBSET Pixel
           /\ d'.idle_active = d.idle_active
           /\ d'.blanked = d.blanked /\ d'.cleared = d.cleared
           /\ d'.timer = d.timer /\ d'.backlight = d.backlight
           /\ d'.connected = d.connected /\ d'.direct = d.direct
           /\ d.late \/ Cancelling => d'.late
           /\ wq' = BlitQueued(d)
           /\ com.pc = "mark" /\ com'.pc \in {"idle", "enable"}
           /\ com'.open = com.open
           /\ UNCHANGED <<setup, run, leave, panel, rem>>
<1>1. com.clip \in SUBSET Pixel
  BY DEF ComType
<1>2. /\ com.pc = "mark" /\ com'.pc \in {"idle", "enable"}
      /\ com'.open = com.open
      /\ d' = MarkDirty(d, com.clip) /\ wq' = BlitQueued(d)
      /\ UNCHANGED <<setup, run, leave, panel, rem>>
  BY DEF UpdateMark, AfterUpdate, ComType
<1> QED
  BY <1>1, <1>2, DirtyEffect

(* ax206_drm_pipe_enable leaves the idle state in the commit's thread.     *)
LEMMA EnableEffect ==
    ASSUME d \in DevType, com \in ComType, leave \in LeaveType, Enable
    PROVE  /\ d'.shadow = d.shadow /\ d'.rect = d.rect
           /\ d'.blit_active = d.blit_active /\ d'.cleared = d.cleared
           /\ d'.timer = d.timer /\ d'.backlight = d.backlight
           /\ d'.connected = d.connected /\ d'.late = d.late
           /\ d'.rearmed = d.rearmed
           /\ leave'["wq"] = leave["wq"] /\ com.pc = "enable"
           /\ com'.open = com.open
           /\ \/ /\ d.idle_active /\ d'.direct /\ ~d'.idle_active
                 /\ ~d'.blanked /\ com'.pc = "leaving"
                 /\ leave'["com"].pc = "blit"
              \/ /\ ~d.idle_active /\ com'.pc = "clear"
                 /\ UNCHANGED <<d, leave>>
           /\ UNCHANGED <<setup, wq, run, panel, rem>>
<1>1. CASE d.idle_active
  <2>1. /\ d' = [d EXCEPT !.idle_active = FALSE, !.blanked = FALSE,
                          !.direct = TRUE]
        /\ leave' = [leave EXCEPT !["com"].pc = "blit",
                                  !["com"].value = d.backlight]
        /\ com.pc = "enable" /\ com' = [com EXCEPT !.pc = "leaving"]
        /\ UNCHANGED <<setup, wq, run, panel, rem>>
    BY <1>1 DEF Enable
  <2>2. leave'["com"].pc = "blit" /\ leave'["wq"] = leave["wq"]
    BY <2>1, EnterEffect DEF Thread
  <2>3. com'.pc = "leaving" /\ com'.open = com.open
    BY <2>1 DEF ComType
  <2>4. /\ d'.shadow = d.shadow /\ d'.rect = d.rect
        /\ d'.blit_active = d.blit_active /\ d'.cleared = d.cleared
        /\ d'.timer = d.timer /\ d'.backlight = d.backlight
        /\ d'.connected = d.connected /\ d'.late = d.late
        /\ d'.rearmed = d.rearmed
        /\ d'.direct /\ ~d'.idle_active /\ ~d'.blanked
    BY <2>1 DEF DevType
  <2> QED
    BY <1>1, <2>1, <2>2, <2>3, <2>4
<1>2. CASE ~d.idle_active
  BY <1>2 DEF Enable, ComType
<1> QED
  BY <1>1, <1>2

(* ... and wipes the factory image once.                                   *)
LEMMA ClearEffect ==
    ASSUME d \in DevType, com \in ComType, EnableClear
    PROVE  /\ \/ /\ ~d.cleared /\ d.connected
                 /\ d'.shadow = BlackImage /\ d'.rect = Pixel
                 /\ d'.blit_active /\ ~d'.idle_active /\ d'.cleared
                 /\ wq' = BlitQueued(d)
              \/ /\ d.cleared \/ ~d.connected
                 /\ d'.shadow = d.shadow /\ d'.rect = d.rect
                 /\ d'.blit_active = d.blit_active
                 /\ d'.idle_active = d.idle_active /\ d'.cleared = d.cleared
                 /\ wq' \in {wq, Queue(wq, Work("resume", 0))}
           /\ d'.blanked = d.blanked /\ d'.backlight = d.backlight
           /\ d'.connected = d.connected /\ d'.direct = d.direct
           /\ d.late \/ Cancelling => d'.late
           /\ com.pc = "clear" /\ com'.pc = "idle"
           /\ UNCHANGED <<setup, run, leave, panel, rem>>
<1>1. /\ com.pc = "clear" /\ com'.pc = "idle"
      /\ UNCHANGED <<setup, run, leave, panel, rem>>
  BY DEF EnableClear, ComType
<1>2. CASE ~d.cleared /\ d.connected
  <2> DEFINE e == Blank(d)
  <2>1. /\ d' = [e EXCEPT !.cleared = TRUE, !.timer = @ \/ d.timeout]
        /\ wq' = BlitQueued(d)
    BY <1>2 DEF EnableClear
  <2>2. /\ e.shadow = BlackImage /\ e.blit_active /\ e.rect = Pixel
        /\ ~e.idle_active /\ e.blanked = d.blanked
        /\ e.backlight = d.backlight
        /\ e.connected = d.connected /\ e.direct = d.direct
        /\ d.late \/ Cancelling => e.late
    BY BlankEffect
  <2>3. e \in DevType
    BY BlankType
  <2> HIDE DEF e
  <2>4. /\ d'.shadow = e.shadow /\ d'.blit_active = e.blit_active
        /\ d'.rect = e.rect /\ d'.idle_active = e.idle_active
        /\ d'.blanked = e.blanked /\ d'.backlight = e.backlight
        /\ d'.connected = e.connected /\ d'.direct = e.direct
        /\ d'.late = e.late /\ d'.cleared
    BY <2>1, <2>3 DEF DevType
  <2> QED
    BY <1>1, <1>2, <2>1, <2>2, <2>4
<1>3. CASE ~(~d.cleared /\ d.connected)
  <2> DEFINE noted == Late(d)
  <2>1. IdleTimerReset(noted)
    BY <1>3 DEF EnableClear
  <2>2. /\ noted \in DevType
        /\ noted.shadow = d.shadow /\ noted.rect = d.rect
        /\ noted.blit_active = d.blit_active
        /\ noted.idle_active = d.idle_active
        /\ noted.blanked = d.blanked /\ noted.cleared = d.cleared
        /\ noted.backlight = d.backlight
        /\ noted.connected = d.connected /\ noted.direct = d.direct
        /\ d.late \/ Cancelling => noted.late
    BY LateType, LateEffect
  <2> HIDE DEF noted
  <2> QED
    BY <1>1, <1>3, <2>1, <2>2, ResetEffect
<1> QED
  BY <1>2, <1>3

(* ax206_drm_pipe_disable cancels the idle work and may blacken the panel. *)
LEMMA DisableEffect ==
    ASSUME d \in DevType, com \in ComType, Disable
    PROVE  /\ \/ /\ d.connected
                 /\ d'.shadow = BlackImage /\ d'.rect = Pixel
                 /\ d'.blit_active /\ ~d'.idle_active
                 /\ wq' = IF d.blit_active THEN Cancel(wq, "idle")
                          ELSE Queue(Cancel(wq, "idle"), Work("blit", 0))
              \/ /\ d'.shadow = d.shadow /\ d'.rect = d.rect
                 /\ d'.blit_active = d.blit_active
                 /\ d'.idle_active = d.idle_active
                 /\ wq' = Cancel(wq, "idle")
           /\ ~d'.timer
           /\ d'.blanked = d.blanked /\ d'.backlight = d.backlight
           /\ d'.connected = d.connected /\ d'.direct = d.direct
           /\ d'.cleared = d.cleared
           /\ d.late => d'.late
           /\ d'.rearmed = d.rearmed
           /\ com.pc = "idle" /\ com'.pc = "idle"
           /\ com.open /\ ~com'.open /\ run.name # "idle"
           /\ UNCHANGED <<setup, run, leave, panel, rem>>
<1> DEFINE stopped == [d EXCEPT !.timer = FALSE]
<1>1. /\ com.pc = "idle" /\ com'.pc = "idle"
      /\ com.open /\ ~com'.open /\ run.name # "idle"
      /\ UNCHANGED <<setup, run, leave, panel, rem>>
  BY DEF Disable, ComType
<1>2. \/ d' = stopped /\ wq' = Cancel(wq, "idle")
      \/ /\ d.connected /\ d' = Blank(stopped)
         /\ wq' = IF d.blit_active THEN Cancel(wq, "idle")
                  ELSE Queue(Cancel(wq, "idle"), Work("blit", 0))
  BY DEF Disable
<1>3. stopped \in DevType
  BY Zenon DEF DevType
<1>4. /\ stopped.shadow = d.shadow /\ stopped.rect = d.rect
      /\ stopped.blit_active = d.blit_active
      /\ stopped.idle_active = d.idle_active
      /\ stopped.blanked = d.blanked /\ stopped.cleared = d.cleared
      /\ stopped.backlight = d.backlight /\ ~stopped.timer
      /\ stopped.connected = d.connected /\ stopped.direct = d.direct
      /\ stopped.late = d.late /\ stopped.rearmed = d.rearmed
  BY DEF DevType
<1> HIDE DEF stopped
<1>5. /\ Blank(stopped).shadow = BlackImage /\ Blank(stopped).blit_active
      /\ Blank(stopped).rect = Pixel /\ ~Blank(stopped).idle_active
      /\ Blank(stopped).blanked = stopped.blanked
      /\ Blank(stopped).cleared = stopped.cleared
      /\ Blank(stopped).timer = stopped.timer
      /\ Blank(stopped).backlight = stopped.backlight
      /\ Blank(stopped).connected = stopped.connected
      /\ Blank(stopped).direct = stopped.direct
      /\ stopped.late => Blank(stopped).late
      /\ Blank(stopped).rearmed = stopped.rearmed
  BY <1>3, BlankEffect
<1>6. CASE d' = stopped /\ wq' = Cancel(wq, "idle")
  BY <1>1, <1>4, <1>6
<1>7. CASE /\ d.connected /\ d' = Blank(stopped)
           /\ wq' = IF d.blit_active THEN Cancel(wq, "idle")
                    ELSE Queue(Cancel(wq, "idle"), Work("blit", 0))
  BY <1>1, <1>4, <1>5, <1>7
<1> QED
  BY <1>2, <1>6, <1>7

(* The stores of power_control and power_autosuspend_delay_ms.             *)
LEMMA PowerEffect ==
    ASSUME d \in DevType, PowerOn \/ PowerAuto \/ DelayZero
    PROVE  /\ d'.shadow = d.shadow /\ d'.rect = d.rect
           /\ d'.blit_active = d.blit_active
           /\ d'.idle_active = d.idle_active
           /\ d'.blanked = d.blanked /\ d'.cleared = d.cleared
           /\ d'.backlight = d.backlight
           /\ d'.connected = d.connected /\ d'.direct = d.direct
           /\ d.late \/ Cancelling => d'.late
           /\ rem \notin {"shutdown", "freed"}
           /\ wq' \in {wq, Queue(wq, Work("resume", 0))}
           /\ UNCHANGED <<setup, run, com, leave, panel, rem>>
<1> DEFINE off == [d EXCEPT !.timeout = FALSE, !.timer = FALSE]
           on == [d EXCEPT !.timeout = TRUE]
<1>1. off \in DevType /\ on \in DevType
  BY Zenon DEF DevType
<1>2. /\ \/ d' = Late(off) /\ wq' \in {wq, Queue(wq, Work("resume", 0))}
         \/ IdleTimerReset(Late(on))
      /\ rem \notin {"shutdown", "freed"}
      /\ UNCHANGED <<setup, run, com, leave, panel, rem>>
  BY DEF PowerOn, PowerAuto, DelayZero, PowerUser
<1>3. \A e \in {off, on} :
         /\ e.shadow = d.shadow /\ e.rect = d.rect
         /\ e.blit_active = d.blit_active /\ e.idle_active = d.idle_active
         /\ e.blanked = d.blanked /\ e.cleared = d.cleared
         /\ e.backlight = d.backlight
         /\ e.connected = d.connected /\ e.direct = d.direct
         /\ e.late = d.late
  BY DEF DevType
<1> HIDE DEF off, on
<1>4. \A e \in {off, on} :
         /\ Late(e) \in DevType
         /\ Late(e).shadow = e.shadow /\ Late(e).rect = e.rect
         /\ Late(e).blit_active = e.blit_active
         /\ Late(e).idle_active = e.idle_active
         /\ Late(e).blanked = e.blanked /\ Late(e).cleared = e.cleared
         /\ Late(e).backlight = e.backlight
         /\ Late(e).connected = e.connected /\ Late(e).direct = e.direct
         /\ e.late \/ Cancelling => Late(e).late
  BY <1>1, LateType, LateEffect
<1>5. CASE d' = Late(off) /\ wq' \in {wq, Queue(wq, Work("resume", 0))}
  BY <1>2, <1>3, <1>4, <1>5
<1>6. CASE IdleTimerReset(Late(on))
  BY <1>2, <1>3, <1>4, <1>6, ResetEffect
<1> QED
  BY <1>2, <1>5, <1>6

(* The last step of ax206_idle_leave, in the resume work or in a commit.   *)
LEMMA CountdownEffect ==
    ASSUME d \in DevType, NEW t \in {"wq", "com"}, LeaveTimer(t)
    PROVE  /\ d'.shadow = d.shadow /\ d'.rect = d.rect
           /\ d'.blit_active = d.blit_active
           /\ d'.idle_active = d.idle_active
           /\ d'.blanked = d.blanked /\ d'.cleared = d.cleared
           /\ d'.backlight = d.backlight
           /\ d'.connected = d.connected /\ d'.direct = d.direct
           /\ t = "com" /\ (d.late \/ Cancelling) => d'.late
           /\ t = "wq" => d'.late = d.late
           /\ t = "wq" => (d'.rearmed <=> d.rearmed \/ Cancelling)
           /\ wq' \in {wq, Queue(wq, Work("resume", 0))}
           /\ ~d.idle_active => wq' = wq
<1>1. CASE t = "wq"
  <2>1. IdleTimerReset(Rearmed(d))
    BY <1>1 DEF LeaveTimer
  <2> QED
    BY <1>1, <2>1, RearmedType, RearmedEffect, ResetEffect
<1>2. CASE t = "com"
  <2>1. IdleTimerReset(Late(d))
    BY <1>2 DEF LeaveTimer
  <2> QED
    BY <1>2, <2>1, LateType, LateEffect, ResetEffect
<1> QED
  BY <1>1, <1>2

(* A step of ax206_drm_remove's cancellation.                              *)
LEMMA CancelEffect ==
    ASSUME d \in DevType, RemoveCancel
    PROVE  /\ d'.shadow = d.shadow /\ d'.rect = d.rect
           /\ d'.blit_active = d.blit_active
           /\ d'.idle_active = d.idle_active
           /\ d'.blanked = d.blanked /\ d'.cleared = d.cleared
           /\ d'.backlight = d.backlight
           /\ d'.connected = d.connected /\ d'.direct = d.direct
           /\ d'.late = d.late /\ d'.rearmed = d.rearmed
           /\ wq' = wq \/ \E name \in WorkName : wq' = Cancel(wq, name)
           /\ \/ rem = "timer" /\ rem' = "idle" /\ ~d'.timer
              \/ /\ d' = d /\ run.name # rem /\ wq' = Cancel(wq, rem)
                 /\ <<rem, rem'>> \in {<<"idle", "resume">>,
                                      <<"resume", "blit">>,
                                      <<"blit", "unplug">>}
           /\ UNCHANGED <<setup, run, com, leave, panel>>
<1>1. CASE RemoveTimer
  BY <1>1 DEF RemoveTimer, DevType
<1>2. CASE RemoveIdle \/ RemoveResume \/ RemoveBlit
  BY <1>2 DEF RemoveIdle, RemoveResume, RemoveBlit, RemoveWork, WorkName
<1> QED
  BY <1>1, <1>2 DEF RemoveCancel

-----------------------------------------------------------------------------
(* Progress of the works, of the commit and of the removal.                *)

(* Where each work can be.                                                 *)
PcInv ==
    /\ run.name = "none" => run.pc = "start"
    /\ run.name = "blit" => run.pc \in {"start", "check", "copy", "send"}
    /\ run.name = "idle" => run.pc \in {"start", "off", "black"}
    /\ run.name = "resume" => run.pc \in {"start", "leaving"}
    /\ run.name = "bl" => run.pc = "start"

(* Only the resume work and a commit that opens the pipe are inside        *)
(* ax206_idle_leave, and the commit says so.                               *)
LeaveInv ==
    /\ leave["wq"].pc # "out" <=> At("resume", "leaving")
    /\ leave["com"].pc # "out" <=> com.pc = "leaving"
    /\ com.pc = "leaving" => d.direct

(* disconnect clears the connected flag for good.                          *)
BoundInv == d.connected <=> rem = "bound"

(* The blit token, blit_active, is held exactly while the blit work is     *)
(* pending or running, never both, and a dirty rectangle has it: no damage *)
(* is left without a worker.                                               *)
TokenInv ==
    /\ d.connected => (d.blit_active <=> \/ Contains(wq, Work("blit", 0))
                                         \/ run.name = "blit")
    /\ d.connected => ~(Contains(wq, Work("blit", 0)) /\ run.name = "blit")
    /\ d.rect # {} => d.blit_active

(* An idle panel is blanked; nothing is sent to it, since the blit worker  *)
(* looked after the idle work had run, and the resume work has ended the   *)
(* idle state.  While the idle work darkens the panel only a blank can end *)
(* the idle state, and it leaves everything dirty.                         *)
IdleInv ==
    /\ d.idle_active => d.blanked
    /\ At("blit", "copy") \/ At("blit", "send") => ~d.idle_active
    /\ leave["wq"].pc # "out" => ~d.idle_active
    /\ At("idle", "off") \/ At("idle", "black") =>
           d.direct \/ (d.blanked /\ (d.idle_active \/ d.rect = Pixel))

(* Works start at the beginning and end by leaving the thread.             *)
LEMMA PcStep ==
    ASSUME Typed, PcInv, [Next]_vars
    PROVE  PcInv'
<1>0. run \in RunType
  BY DEF Typed
<1>00. ASSUME UNCHANGED run PROVE PcInv'
  BY <1>00 DEF PcInv
<1>000. Done => PcInv'
  BY <1>0 DEF Done, PcInv, RunType
<1>1. CASE Dispatch
  <2>1. Head(wq).name \in {"blit", "idle", "resume", "bl"}
    BY <1>1, TailProp, WorkProp DEF Dispatch, WorkName, Typed
  <2>2. run'.name = Head(wq).name /\ run'.pc = "start"
    BY <1>1, <1>0 DEF Dispatch, RunType, PcInv
  <2> QED
    BY <2>1, <2>2 DEF PcInv
<1>2. CASE BlitSnapshot
  BY <1>2, <1>0, <1>000 DEF BlitSnapshot, At, NextRound, PcInv, RunType
<1>3. CASE BlitCheck
  BY <1>3, <1>0, <1>000 DEF BlitCheck, At, NextRound, PcInv, RunType
<1>4. CASE BlitSend
  BY <1>4, <1>0, <1>000 DEF BlitSend, At, NextRound, PcInv, RunType
<1>5. CASE IdleEnter
  BY <1>5, <1>0, <1>000 DEF IdleEnter, At, NextRound, PcInv, RunType
<1>6. CASE IdleEnterOff
  BY <1>6, <1>0, <1>000 DEF IdleEnterOff, At, NextRound, PcInv, RunType
<1>7. CASE IdleEnterBlack
  BY <1>7, <1>0, <1>000 DEF IdleEnterBlack, At, NextRound, PcInv, RunType
<1>8. CASE ResumeWork
  BY <1>8, <1>0, <1>000 DEF ResumeWork, At, NextRound, PcInv, RunType
<1>9. CASE BlWork
  BY <1>9, <1>0, <1>000 DEF BlWork, At, NextRound, PcInv, RunType
<1>10. CASE BlitCopy
  <2>1. run'.name = "blit" /\ run'.pc \in {"send", "start"}
    BY <1>10, <1>0 DEF BlitCopy, At, NextRound, RunType
  <2> QED
    BY <2>1 DEF PcInv
<1>11. ASSUME NEW t \in {"wq", "com"},
              LeaveTimer(t)
       PROVE  PcInv'
  BY <1>11, <1>000, <1>00 DEF LeaveTimer
<1>12. CASE TimerFire \/ UpdateMark \/ Enable \/ EnableClear \/ Disable
            \/ PowerOn \/ PowerAuto
  BY <1>12, <1>00 DEF TimerFire, UpdateMark, Enable, EnableClear, Disable,
                      PowerOn, PowerAuto
<1>13. CASE DelayZero \/ NoblankWrite \/ Disconnect \/ RemoveCancel
            \/ RemoveUnplug \/ RemoveFree
  BY <1>13, <1>00 DEF DelayZero, NoblankWrite, Disconnect, RemoveCancel,
                      RemoveTimer, RemoveIdle,
                      RemoveResume, RemoveBlit, RemoveWork,
                      RemoveUnplug, RemoveFree
<1>14. ASSUME NEW t \in {"wq", "com"},
              LeaveBlit(t) \/ LeaveLight(t)
       PROVE  PcInv'
  BY <1>14, <1>00 DEF LeaveBlit, LeaveLight
<1>15. ASSUME NEW clip \in SUBSET Pixel, NEW image \in Image,
              Update(clip, image)
       PROVE  PcInv'
  BY <1>15, <1>00 DEF Update
<1>16. ASSUME NEW v \in Level,
              BlWrite(v)
       PROVE  PcInv'
  BY <1>16, <1>00 DEF BlWrite
<1>17. CASE UNCHANGED vars
  BY <1>17, <1>00 DEF vars
<1> QED
  BY <1>1, <1>2, <1>3, <1>4, <1>5, <1>6, <1>7, <1>8, <1>9, <1>10, <1>11,
     <1>12, <1>13, <1>14, <1>15, <1>16, <1>17
     DEF Next, Wq, BlitWorker, IdleEntering, Leaving, Committing, Removing

(* ax206_idle_leave is entered and left once.                              *)
LEMMA LeaveStep ==
    ASSUME Typed, PcInv, LeaveInv, [Next]_vars
    PROVE  LeaveInv'
<1>00. /\ run \in RunType /\ com \in ComType /\ leave \in LeaveType
       /\ d \in DevType
  BY DEF Typed
<1>01. ASSUME UNCHANGED <<run, leave, com, d>> PROVE LeaveInv'
  BY <1>01 DEF LeaveInv, At
<1>1. CASE Dispatch
  BY <1>1, <1>00, <1>01 DEF Dispatch, RunType, PcInv, LeaveInv, At
<1>2. CASE BlitSnapshot
  BY <1>2, <1>00, <1>01 DEF BlitSnapshot, Done, RunType, LeaveInv, At,
                            DevType
<1>3. CASE BlitCheck
  BY <1>3, <1>00, <1>01 DEF BlitCheck, NextRound, RunType, LeaveInv, At
<1>4. CASE BlitCopy
  <2>1. run'.name = "blit" /\ run.name = "blit"
    BY <1>4, <1>00 DEF BlitCopy, At, NextRound, RunType
  <2> QED
    BY <1>4, <2>1 DEF BlitCopy, LeaveInv, At
<1>5. CASE BlitSend
  BY <1>5, <1>00, <1>01 DEF BlitSend, NextRound, RunType, LeaveInv, At
<1>6. CASE IdleEnter
  BY <1>6, <1>00, <1>01 DEF IdleEnter, Done, RunType, LeaveInv, At, DevType
<1>7. CASE IdleEnterOff \/ IdleEnterBlack
  BY <1>7, <1>00, <1>01 DEF IdleEnterOff, IdleEnterBlack, Done, RunType,
                            LeaveInv, At, DevType
<1>8. CASE BlWork
  BY <1>8, <1>00, <1>01 DEF BlWork, Done, RunType, LeaveInv, At
<1>9. CASE ResumeWork
  <2>1. CASE d.idle_active
    <3>1. /\ run'.name = "resume" /\ run'.pc = "leaving"
          /\ UNCHANGED com /\ d'.direct = d.direct
      BY <1>9, <1>00, <2>1 DEF ResumeWork, At, RunType, DevType
    <3>2. leave'["wq"].pc = "blit" /\ leave'["com"] = leave["com"]
      <4>1. leave' = [leave EXCEPT !["wq"].pc = "blit",
                                   !["wq"].value = d.backlight]
        BY <1>9, <2>1 DEF ResumeWork
      <4> QED
        BY <1>00, <4>1, EnterEffect DEF Thread
    <3> QED
      BY <3>1, <3>2 DEF LeaveInv, At
  <2>2. CASE ~d.idle_active
    BY <1>9, <1>00, <1>01, <2>2 DEF ResumeWork, Done, LeaveInv, At, RunType
  <2> QED
    BY <2>1, <2>2
<1>10. ASSUME NEW t \in {"wq", "com"},
              LeaveBlit(t)
       PROVE  LeaveInv'
  <2>1. /\ \A u \in Thread : leave'[u].pc # "out" <=> leave[u].pc # "out"
        /\ UNCHANGED <<run, com, d>>
    BY <1>10, <1>00 DEF LeaveBlit, LeaveType, Thread
  <2> QED
    BY <2>1 DEF LeaveInv, At, Thread
<1>11. ASSUME NEW t \in {"wq", "com"},
              LeaveLight(t)
       PROVE  LeaveInv'
  <2>1. /\ \A u \in Thread : leave'[u].pc # "out" <=> leave[u].pc # "out"
        /\ UNCHANGED <<run, com, d>>
    BY <1>11, <1>00 DEF LeaveLight, LeaveType, Thread
  <2> QED
    BY <2>1 DEF LeaveInv, At, Thread
<1>12. ASSUME NEW t \in {"wq", "com"},
              LeaveTimer(t)
       PROVE  LeaveInv'
  <2>1. d'.direct = d.direct
    BY <1>12, <1>00, CountdownEffect DEF LeaveTimer
  <2>2. leave[t].pc = "timer" /\ leave' = [leave EXCEPT ![t].pc = "out"]
    BY <1>12 DEF LeaveTimer
  <2>3. CASE t = "wq"
    <3>1. /\ leave'["wq"].pc = "out" /\ leave'["com"] = leave["com"]
          /\ run'.name = "none" /\ UNCHANGED com
      BY <1>12, <1>00, <2>2, <2>3 DEF LeaveTimer, Done, LeaveType, Thread,
                                      RunType
    <3> QED
      BY <2>1, <3>1 DEF LeaveInv, At
  <2>4. CASE t = "com"
    <3>1. /\ leave'["com"].pc = "out" /\ leave'["wq"] = leave["wq"]
          /\ com'.pc = "clear" /\ UNCHANGED run
      BY <1>12, <1>00, <2>2, <2>4 DEF LeaveTimer, LeaveType, Thread, ComType
    <3> QED
      BY <2>1, <3>1 DEF LeaveInv, At
  <2> QED
    BY <2>3, <2>4
<1>13. CASE TimerFire
  BY <1>13, <1>00 DEF TimerFire, LeaveInv, At, DevType
<1>14. ASSUME NEW clip \in SUBSET Pixel, NEW image \in Image,
              Update(clip, image)
       PROVE  LeaveInv'
  <2>1. /\ com.pc = "idle" /\ com'.pc \in {"idle", "enable", "mark"}
        /\ UNCHANGED <<run, leave>>
    BY <1>14, <1>00 DEF Update, AfterUpdate, ComType
  <2> QED
    BY <2>1 DEF LeaveInv, At
<1>15. CASE UpdateMark
  <2>1. /\ com.pc = "mark" /\ com'.pc \in {"idle", "enable"}
        /\ UNCHANGED <<run, leave>>
    BY <1>15, <1>00 DEF UpdateMark, AfterUpdate, ComType
  <2> QED
    BY <2>1 DEF LeaveInv, At
<1>16. CASE Enable
  BY <1>16, <1>00, EnableEffect DEF LeaveInv, At
<1>17. CASE EnableClear
  <2>1. com.pc = "clear" /\ com'.pc = "idle" /\ UNCHANGED <<run, leave>>
    BY <1>17, <1>00 DEF EnableClear, ComType
  <2> QED
    BY <2>1 DEF LeaveInv, At
<1>18. CASE Disable
  <2>1. com.pc = "idle" /\ com'.pc = "idle" /\ UNCHANGED <<run, leave>>
    BY <1>18, <1>00 DEF Disable, ComType
  <2> QED
    BY <2>1 DEF LeaveInv, At
<1>19. ASSUME NEW v \in Level,
              BlWrite(v)
       PROVE  LeaveInv'
  BY <1>19, <1>00 DEF BlWrite, LeaveInv, At, DevType
<1>20. CASE PowerOn \/ DelayZero
  BY <1>20, <1>00 DEF PowerOn, DelayZero, Late, LeaveInv, At, DevType
<1>21. CASE PowerAuto
  <2>1. d'.direct = d.direct
    BY <1>21, <1>00 DEF PowerAuto, IdleTimerReset, Late, DevType
  <2> QED
    BY <1>21, <2>1 DEF PowerAuto, LeaveInv, At
<1>22. CASE NoblankWrite \/ Disconnect \/ RemoveCancel
  BY <1>22, <1>00 DEF NoblankWrite, Disconnect, RemoveCancel, RemoveTimer,
                      RemoveIdle,
                      RemoveResume, RemoveBlit, RemoveWork, LeaveInv, At,
                      DevType
<1>23. CASE RemoveUnplug \/ RemoveFree
  BY <1>23, <1>01 DEF RemoveUnplug, RemoveFree
<1>24. CASE UNCHANGED vars
  BY <1>24, <1>01 DEF vars
<1> QED
  BY <1>1, <1>2, <1>3, <1>4, <1>5, <1>6, <1>7, <1>8, <1>9, <1>10, <1>11,
     <1>12, <1>13, <1>14, <1>15, <1>16, <1>17, <1>18, <1>19, <1>20, <1>21,
     <1>22, <1>23, <1>24
     DEF Next, Wq, BlitWorker, IdleEntering, Leaving, Committing, Removing

(* Only disconnect clears the flag.                                        *)
LEMMA BoundStep ==
    ASSUME Typed, BoundInv, [Next]_vars
    PROVE  BoundInv'
<1>0. d \in DevType /\ com \in ComType /\ leave \in LeaveType
  BY DEF Typed
<1>00. ASSUME UNCHANGED <<d, rem>> PROVE BoundInv'
  BY <1>00 DEF BoundInv
<1>1. CASE BlitSnapshot
  BY <1>1, <1>0 DEF BlitSnapshot, BoundInv, DevType
<1>2. CASE IdleEnter
  BY <1>2, <1>0 DEF IdleEnter, BoundInv, DevType
<1>3. CASE ResumeWork
  BY <1>3, <1>0 DEF ResumeWork, BoundInv, DevType
<1>4. ASSUME NEW t \in {"wq", "com"},
             LeaveTimer(t)
      PROVE  BoundInv'
  BY <1>4, <1>0, CountdownEffect DEF LeaveTimer, BoundInv
<1>5. CASE TimerFire
  BY <1>5, <1>0 DEF TimerFire, BoundInv, DevType
<1>6. ASSUME NEW clip \in SUBSET Pixel, NEW image \in Image,
             Update(clip, image)
      PROVE  BoundInv'
  <2>1. d'.connected = d.connected /\ UNCHANGED rem
    BY <1>6, <1>0, UpdateEffect
  <2> QED
    BY <2>1 DEF BoundInv
<1>7. CASE UpdateMark
  BY <1>7, <1>0, MarkEffect DEF BoundInv
<1>8. CASE Enable
  <2>1. d'.connected = d.connected /\ UNCHANGED rem
    BY <1>8, <1>0, EnableEffect
  <2> QED
    BY <2>1 DEF BoundInv
<1>9. CASE EnableClear
  BY <1>9, <1>0, ClearEffect DEF BoundInv
<1>10. CASE Disable
  <2>1. d'.connected = d.connected /\ UNCHANGED rem
    BY <1>10, <1>0, DisableEffect
  <2> QED
    BY <2>1 DEF BoundInv
<1>11. ASSUME NEW v \in Level,
              BlWrite(v)
       PROVE  BoundInv'
  BY <1>11, <1>0 DEF BlWrite, BoundInv, DevType
<1>12. CASE PowerOn \/ PowerAuto \/ DelayZero
  BY <1>12, <1>0, PowerEffect DEF BoundInv
<1>13. CASE NoblankWrite \/ RemoveCancel
  BY <1>13, <1>0 DEF NoblankWrite, RemoveCancel, RemoveTimer, RemoveIdle,
                     RemoveResume, RemoveBlit, RemoveWork, BoundInv, DevType
<1>14. CASE Disconnect
  BY <1>14, <1>0 DEF Disconnect, BoundInv, DevType
<1>15. CASE RemoveUnplug \/ RemoveFree
  BY <1>15 DEF RemoveUnplug, RemoveFree, BoundInv
<1>16. CASE Dispatch \/ BlitCheck \/ BlitCopy \/ BlitSend \/ IdleEnterOff
            \/ IdleEnterBlack \/ BlWork
  BY <1>16, <1>00 DEF Dispatch, BlitCheck, BlitCopy, BlitSend, IdleEnterOff,
                      IdleEnterBlack, BlWork
<1>17. ASSUME NEW t \in {"wq", "com"},
              LeaveBlit(t) \/ LeaveLight(t)
       PROVE  BoundInv'
  BY <1>17, <1>00 DEF LeaveBlit, LeaveLight
<1>18. CASE UNCHANGED vars
  BY <1>18, <1>00 DEF vars
<1> QED
  BY <1>1, <1>2, <1>3, <1>4, <1>5, <1>6, <1>7, <1>8, <1>9, <1>10, <1>11,
     <1>12, <1>13, <1>14, <1>15, <1>16, <1>17, <1>18
     DEF Next, Wq, BlitWorker, IdleEntering, Leaving, Committing, Removing

(* The worker gives the token back only when nothing is dirty, and         *)
(* everyone who marks takes it.                                            *)
LEMMA TokenStep ==
    ASSUME Typed, LeaveInv, BoundInv, TokenInv, [Next]_vars
    PROVE  TokenInv'
<1>0. /\ d \in DevType /\ com \in ComType /\ run \in RunType
      /\ leave \in LeaveType /\ wq \in Queues /\ LeaveInv /\ BoundInv
  BY DEF Typed
<1>00. ASSUME UNCHANGED <<d, wq, run>> PROVE TokenInv'
  BY <1>00 DEF TokenInv
<1>01. ASSUME /\ d'.blit_active = d.blit_active /\ d'.rect = d.rect
              /\ d'.connected = d.connected
              /\ run'.name = "blit" <=> run.name = "blit"
              /\ wq' \in {wq, Queue(wq, Work("resume", 0)),
                         Queue(wq, Work("idle", 0))}
       PROVE  TokenInv'
  <2>1. /\ Work("resume", 0) # Work("blit", 0)
        /\ Work("idle", 0) # Work("blit", 0)
    BY DEF Work
  <2>2. \A q \in {wq, Queue(wq, Work("resume", 0)),
                  Queue(wq, Work("idle", 0))} :
           Contains(q, Work("blit", 0)) <=> Contains(wq, Work("blit", 0))
    BY <1>0, <2>1, QueueProp DEF WorkName
  <2>3. Contains(wq', Work("blit", 0)) <=> Contains(wq, Work("blit", 0))
    BY <1>01, <2>2
  <2> QED
    BY <1>01, <2>3 DEF TokenInv
<1>02. ASSUME d'.blit_active, wq' = BlitQueued(d), UNCHANGED run,
             d'.connected = d.connected
      PROVE  TokenInv'
  <2>1. Contains(Queue(wq, Work("blit", 0)), Work("blit", 0))
    BY <1>0, QueueProp DEF WorkName
  <2> QED
    BY <1>02, <2>1 DEF TokenInv, BlitQueued
<1>1. CASE Dispatch
  <2>1. /\ \A x : Contains(wq, x) <=> Contains(wq', x) \/ x = Head(wq)
        /\ Head(wq).name # "bl" => ~Contains(wq', Head(wq))
        /\ Head(wq) \in WorkType
    BY <1>1, <1>0, TailProp DEF Dispatch
  <2>2. /\ Head(wq).name = "blit" <=> Head(wq) = Work("blit", 0)
        /\ Work("blit", 0).name = "blit"
    BY <2>1, WorkProp DEF WorkName
  <2>3. /\ run.name = "none" /\ run'.name = Head(wq).name
        /\ UNCHANGED d
    BY <1>1, <1>0 DEF Dispatch, RunType
  <2> QED
    BY <2>1, <2>2, <2>3 DEF TokenInv
<1>2. CASE BlitSnapshot
  <2>1. run.name = "blit" /\ UNCHANGED wq /\ d'.connected = d.connected
    BY <1>2, <1>0 DEF BlitSnapshot, At, DevType
  <2>2. CASE d.rect = {}
    <3>1. /\ d'.rect = {} /\ ~d'.blit_active /\ run'.name = "none"
      BY <1>2, <1>0, <2>2 DEF BlitSnapshot, Done, DevType, RunType
    <3> QED
      BY <2>1, <3>1 DEF TokenInv
  <2>3. CASE d.rect # {}
    <3>1. /\ d'.rect = {} /\ d'.blit_active = d.blit_active
          /\ run'.name = "blit"
      BY <1>2, <1>0, <2>1, <2>3 DEF BlitSnapshot, DevType, RunType
    <3> QED
      BY <2>1, <3>1 DEF TokenInv
  <2> QED
    BY <2>2, <2>3
<1>3. CASE BlitCheck
  <2>1. run'.name = run.name /\ UNCHANGED <<d, wq>>
    BY <1>3, <1>0 DEF BlitCheck, NextRound, RunType
  <2> QED
    BY <2>1 DEF TokenInv
<1>4. CASE BlitCopy
  <2>1. run'.name = run.name /\ UNCHANGED <<d, wq>>
    BY <1>4, <1>0 DEF BlitCopy, NextRound, RunType
  <2> QED
    BY <2>1 DEF TokenInv
<1>5. CASE BlitSend
  <2>1. run'.name = run.name /\ UNCHANGED <<d, wq>>
    BY <1>5, <1>0 DEF BlitSend, NextRound, RunType
  <2> QED
    BY <2>1 DEF TokenInv
<1>6. CASE IdleEnterOff
  <2>1. run'.name = run.name /\ UNCHANGED <<d, wq>>
    BY <1>6, <1>0 DEF IdleEnterOff, NextRound, RunType
  <2> QED
    BY <2>1 DEF TokenInv
<1>7. CASE IdleEnterBlack \/ BlWork
  <2>1. run.name # "blit" /\ run'.name # "blit" /\ UNCHANGED <<d, wq>>
    BY <1>7, <1>0 DEF IdleEnterBlack, BlWork, At, Done, RunType
  <2> QED
    BY <2>1 DEF TokenInv
<1>8. CASE IdleEnter
  <2>1. /\ run.name # "blit" /\ run'.name # "blit" /\ UNCHANGED wq
        /\ d'.blit_active = d.blit_active /\ d'.rect = d.rect
        /\ d'.connected = d.connected
    BY <1>8, <1>0 DEF IdleEnter, At, Done, RunType, DevType
  <2> QED
    BY <2>1 DEF TokenInv
<1>9. CASE ResumeWork
  <2>1. /\ run.name # "blit" /\ run'.name # "blit" /\ UNCHANGED wq
        /\ d'.blit_active = d.blit_active /\ d'.rect = d.rect
        /\ d'.connected = d.connected
    BY <1>9, <1>0 DEF ResumeWork, At, Done, RunType, DevType
  <2> QED
    BY <2>1 DEF TokenInv
<1>10. ASSUME NEW t \in {"wq", "com"},
              LeaveTimer(t)
       PROVE  TokenInv'
  <2>1. /\ d'.blit_active = d.blit_active /\ d'.rect = d.rect
        /\ d'.connected = d.connected
        /\ wq' \in {wq, Queue(wq, Work("resume", 0))}
    BY <1>10, <1>0, CountdownEffect DEF LeaveTimer
  <2>2. leave[t].pc = "timer"
    BY <1>10 DEF LeaveTimer
  <2>3. CASE t = "wq"
    <3>1. run.name = "resume"
      BY <1>0, <2>2, <2>3 DEF LeaveInv, At
    <3>2. run'.name = "none"
      BY <1>10, <1>0, <2>3 DEF LeaveTimer, Done, RunType
    <3> QED
      BY <1>01, <2>1, <3>1, <3>2
  <2>4. CASE t = "com"
    <3>1. UNCHANGED run
      BY <1>10, <2>4 DEF LeaveTimer
    <3> QED
      BY <1>01, <2>1, <3>1
  <2> QED
    BY <2>3, <2>4
<1>11. CASE TimerFire
  <2>1. /\ d'.blit_active = d.blit_active /\ d'.rect = d.rect
        /\ d'.connected = d.connected /\ UNCHANGED run
        /\ wq' \in {wq, Queue(wq, Work("idle", 0))}
    BY <1>11, <1>0 DEF TimerFire, DevType
  <2> QED
    BY <1>01, <2>1
<1>12. ASSUME NEW clip \in SUBSET Pixel, NEW image \in Image,
              Update(clip, image)
       PROVE  TokenInv'
  <2>1. /\ d'.blit_active = d.blit_active /\ d'.rect = d.rect
        /\ d'.connected = d.connected /\ UNCHANGED run
        /\ wq' \in {wq, Queue(wq, Work("resume", 0))}
    BY <1>12, <1>0, UpdateEffect
  <2> QED
    BY <1>01, <2>1
<1>13. CASE UpdateMark
  <2>1. /\ d'.blit_active /\ wq' = BlitQueued(d)
        /\ d'.connected = d.connected /\ UNCHANGED run
    BY <1>13, <1>0, MarkEffect
  <2> QED
    BY <1>02, <2>1
<1>14. CASE Enable
  <2>1. /\ d'.blit_active = d.blit_active /\ d'.rect = d.rect
        /\ d'.connected = d.connected /\ UNCHANGED <<wq, run>>
    BY <1>14, <1>0, EnableEffect
  <2> QED
    BY <1>01, <2>1
<1>15. CASE EnableClear
  <2>1. /\ \/ d'.blit_active /\ wq' = BlitQueued(d)
           \/ /\ d'.blit_active = d.blit_active /\ d'.rect = d.rect
              /\ wq' \in {wq, Queue(wq, Work("resume", 0))}
        /\ d'.connected = d.connected /\ UNCHANGED run
    BY <1>15, <1>0, ClearEffect
  <2> QED
    BY <1>01, <1>02, <2>1
<1>16. CASE Disable
  <2> DEFINE kept == Cancel(wq, "idle")
  <2>1. /\ \/ /\ d'.blit_active
              /\ wq' = IF d.blit_active THEN kept
                       ELSE Queue(kept, Work("blit", 0))
           \/ /\ d'.blit_active = d.blit_active /\ d'.rect = d.rect
              /\ wq' = kept
        /\ d'.connected = d.connected /\ UNCHANGED run
    BY <1>16, <1>0, DisableEffect
  <2>2. /\ kept \in Queues
        /\ Contains(kept, Work("blit", 0)) <=> Contains(wq, Work("blit", 0))
    BY <1>0, CancelProp DEF WorkName, Work
  <2> HIDE DEF kept
  <2>3. Contains(Queue(kept, Work("blit", 0)), Work("blit", 0))
    BY <2>2, QueueProp DEF WorkName
  <2> QED
    BY <2>1, <2>2, <2>3 DEF TokenInv
<1>17. ASSUME NEW v \in Level,
              BlWrite(v)
       PROVE  TokenInv'
  <2>1. /\ Work("bl", v) \in WorkType /\ Work("bl", v).name = "bl"
        /\ Work("bl", v) # Work("blit", 0)
        /\ wq' = Append(wq, Work("bl", v))
    BY <1>17, WorkProp DEF BlWrite, Work
  <2>2. Contains(wq', Work("blit", 0)) <=> Contains(wq, Work("blit", 0))
    BY <1>0, <2>1, AppendProp
  <2>3. /\ d'.blit_active = d.blit_active /\ d'.rect = d.rect
        /\ d'.connected = d.connected /\ UNCHANGED run
    BY <1>17, <1>0 DEF BlWrite, DevType
  <2> QED
    BY <2>2, <2>3 DEF TokenInv
<1>18. CASE PowerOn \/ PowerAuto \/ DelayZero
  <2>1. /\ d'.blit_active = d.blit_active /\ d'.rect = d.rect
        /\ d'.connected = d.connected /\ UNCHANGED run
        /\ wq' \in {wq, Queue(wq, Work("resume", 0))}
    BY <1>18, <1>0, PowerEffect
  <2> QED
    BY <1>01, <2>1
<1>19. CASE NoblankWrite
  <2>1. /\ d'.blit_active = d.blit_active /\ d'.rect = d.rect
        /\ d'.connected = d.connected /\ UNCHANGED <<wq, run>>
    BY <1>19, <1>0 DEF NoblankWrite, DevType
  <2> QED
    BY <1>01, <2>1
<1>20. CASE Disconnect
  <2>1. /\ d'.blit_active = d.blit_active /\ d'.rect = d.rect
        /\ ~d'.connected
    BY <1>20, <1>0 DEF Disconnect, DevType
  <2> QED
    BY <2>1 DEF TokenInv
<1>21. CASE RemoveCancel
  <2>1. /\ d'.blit_active = d.blit_active /\ d'.rect = d.rect
        /\ d'.connected = d.connected /\ rem # "bound"
    BY <1>21, <1>0, CancelEffect
  <2> QED
    BY <1>0, <2>1 DEF TokenInv, BoundInv
<1>22. CASE RemoveUnplug \/ RemoveFree
  BY <1>22, <1>00 DEF RemoveUnplug, RemoveFree
<1>23. ASSUME NEW t \in {"wq", "com"},
              LeaveBlit(t) \/ LeaveLight(t)
       PROVE  TokenInv'
  BY <1>23, <1>00 DEF LeaveBlit, LeaveLight
<1>24. CASE UNCHANGED vars
  BY <1>24, <1>00 DEF vars
<1> QED
  BY <1>1, <1>2, <1>3, <1>4, <1>5, <1>6, <1>7, <1>8, <1>9, <1>10, <1>11,
     <1>12, <1>13, <1>14, <1>15, <1>16, <1>17, <1>18, <1>19, <1>20, <1>21,
     <1>22, <1>23, <1>24
     DEF Next, Wq, BlitWorker, IdleEntering, Leaving, Committing, Removing

(* The idle work, the resume work and the blit work share one thread.      *)
LEMMA IdleStep ==
    ASSUME Typed, PcInv, LeaveInv, IdleInv, [Next]_vars
    PROVE  IdleInv'
<1>0. /\ d \in DevType /\ com \in ComType /\ run \in RunType
      /\ leave \in LeaveType /\ Pixel' = Pixel
  BY SetupFixed DEF Typed, Pixel
<1>00. ASSUME UNCHANGED <<d, run, leave>> PROVE IdleInv'
  BY <1>0, <1>00 DEF IdleInv, At
<1>01. ASSUME d'.idle_active = d.idle_active, d'.blanked = d.blanked,
              d'.direct = d.direct, d.rect = Pixel => d'.rect = Pixel,
              UNCHANGED run,
              leave'["wq"].pc # "out" => leave["wq"].pc # "out"
       PROVE  IdleInv'
  BY <1>0, <1>01 DEF IdleInv, At
<1>02. ASSUME ~d'.idle_active, d'.rect = Pixel, d'.blanked = d.blanked,
              d'.direct = d.direct, UNCHANGED run
       PROVE  IdleInv'
  BY <1>0, <1>02 DEF IdleInv, At
<1>03. ASSUME run'.pc = "start", d'.idle_active = d.idle_active,
              d'.blanked = d.blanked,
              leave'["wq"].pc # "out" => leave["wq"].pc # "out"
       PROVE  IdleInv'
  BY <1>0, <1>03 DEF IdleInv, At
<1>1. CASE Dispatch
  <2>1. /\ run'.pc = "start" /\ UNCHANGED <<d, leave>>
    BY <1>1, <1>0 DEF Dispatch, RunType, PcInv
  <2> QED
    BY <1>03, <2>1
<1>2. CASE BlitSnapshot
  <2>1. /\ run'.pc \in {"start", "check"} /\ UNCHANGED leave
        /\ d'.idle_active = d.idle_active /\ d'.blanked = d.blanked
    BY <1>2, <1>0 DEF BlitSnapshot, Done, RunType, DevType
  <2> QED
    BY <2>1 DEF IdleInv, At
<1>3. CASE BlitCheck
  <2>1. /\ run'.name = "blit" /\ run'.pc \in {"start", "copy"}
        /\ run'.pc = "copy" => ~d.idle_active
        /\ UNCHANGED <<d, leave>>
    BY <1>3, <1>0 DEF BlitCheck, NextRound, At, RunType
  <2> QED
    BY <2>1 DEF IdleInv, At
<1>4. CASE BlitCopy
  <2>1. /\ run'.name = "blit" /\ At("blit", "copy") /\ UNCHANGED <<d, leave>>
    BY <1>4, <1>0 DEF BlitCopy, NextRound, At, RunType
  <2> QED
    BY <2>1 DEF IdleInv, At
<1>5. CASE BlitSend
  <2>1. run'.pc = "start" /\ UNCHANGED <<d, leave>>
    BY <1>5, <1>0 DEF BlitSend, NextRound, RunType
  <2> QED
    BY <1>03, <2>1
<1>6. CASE IdleEnter
  <2>1. run.name = "idle" /\ leave["wq"].pc = "out" /\ UNCHANGED leave
    BY <1>6, <1>0 DEF IdleEnter, At, LeaveInv
  <2>2. CASE d.idle_active
    BY <1>6, <1>0, <1>03, <2>2 DEF IdleEnter, Done, RunType
  <2>3. CASE ~d.idle_active
    <3>1. /\ run'.name = "idle" /\ d'.idle_active /\ d'.blanked
      BY <1>6, <1>0, <2>1, <2>3 DEF IdleEnter, RunType, DevType
    <3> QED
      BY <2>1, <3>1 DEF IdleInv, At
  <2> QED
    BY <2>2, <2>3
<1>7. CASE IdleEnterOff
  <2>1. /\ run'.name = "idle" /\ At("idle", "off") /\ UNCHANGED <<d, leave>>
    BY <1>7, <1>0 DEF IdleEnterOff, At, RunType
  <2> QED
    BY <1>0, <2>1 DEF IdleInv, At
<1>8. CASE IdleEnterBlack \/ BlWork
  <2>1. run'.pc = "start" /\ UNCHANGED <<d, leave>>
    BY <1>8, <1>0 DEF IdleEnterBlack, BlWork, Done, RunType
  <2> QED
    BY <1>03, <2>1
<1>9. CASE ResumeWork
  <2>1. CASE d.idle_active
    <3>1. /\ run'.name = "resume" /\ ~d'.idle_active
      BY <1>9, <1>0, <2>1 DEF ResumeWork, At, RunType, DevType
    <3> QED
      BY <3>1 DEF IdleInv, At
  <2>2. CASE ~d.idle_active
    BY <1>9, <1>0, <1>03, <2>2 DEF ResumeWork, Done, RunType
  <2> QED
    BY <2>1, <2>2
<1>10. ASSUME NEW t \in {"wq", "com"},
              LeaveBlit(t) \/ LeaveLight(t)
       PROVE  IdleInv'
  <2>1. /\ leave'["wq"].pc # "out" => leave["wq"].pc # "out"
        /\ UNCHANGED <<d, run>>
    BY <1>10, <1>0 DEF LeaveBlit, LeaveLight, LeaveType, Thread
  <2> QED
    BY <1>01, <2>1
<1>11. ASSUME NEW t \in {"wq", "com"},
              LeaveTimer(t)
       PROVE  IdleInv'
  <2>1. /\ d'.idle_active = d.idle_active /\ d'.blanked = d.blanked
        /\ d'.direct = d.direct /\ d'.rect = d.rect
    BY <1>11, <1>0, CountdownEffect DEF LeaveTimer
  <2>2. leave'["wq"].pc # "out" => leave["wq"].pc # "out"
    BY <1>11, <1>0 DEF LeaveTimer, LeaveType, Thread
  <2>3. run'.pc = "start" \/ UNCHANGED run
    BY <1>11, <1>0 DEF LeaveTimer, Done, RunType
  <2> QED
    BY <1>01, <1>03, <2>1, <2>2, <2>3
<1>12. CASE TimerFire
  <2>1. /\ d'.idle_active = d.idle_active /\ d'.blanked = d.blanked
        /\ d'.direct = d.direct
        /\ d'.rect = d.rect /\ UNCHANGED <<run, leave>>
    BY <1>12, <1>0 DEF TimerFire, DevType
  <2> QED
    BY <1>01, <2>1
<1>13. ASSUME NEW clip \in SUBSET Pixel, NEW image \in Image,
              Update(clip, image)
       PROVE  IdleInv'
  <2>1. /\ d'.idle_active = d.idle_active /\ d'.blanked = d.blanked
        /\ d'.direct = d.direct
        /\ d'.rect = d.rect /\ UNCHANGED <<run, leave>>
    BY <1>13, <1>0, UpdateEffect
  <2> QED
    BY <1>01, <2>1
<1>14. CASE UpdateMark
  <2>1. /\ d'.idle_active = d.idle_active /\ d'.blanked = d.blanked
        /\ d'.direct = d.direct
        /\ d'.rect \in SUBSET Pixel /\ d.rect \subseteq d'.rect
        /\ UNCHANGED <<run, leave>>
    BY <1>14, <1>0, MarkEffect
  <2>2. d.rect = Pixel => d'.rect = Pixel
    BY <2>1
  <2> QED
    BY <1>01, <2>1, <2>2
<1>15. CASE Enable
  <2>1. /\ \/ d'.direct /\ ~d'.idle_active
           \/ UNCHANGED d
        /\ leave'["wq"] = leave["wq"] /\ d'.rect = d.rect /\ UNCHANGED run
    BY <1>15, <1>0, EnableEffect
  <2> QED
    BY <1>01, <2>1 DEF IdleInv, At
<1>16. CASE EnableClear
  <2>1. /\ \/ ~d'.idle_active /\ d'.rect = Pixel
           \/ d'.rect = d.rect /\ d'.idle_active = d.idle_active
        /\ d'.blanked = d.blanked /\ d'.direct = d.direct
        /\ UNCHANGED <<run, leave>>
    BY <1>16, <1>0, ClearEffect
  <2> QED
    BY <1>01, <1>02, <2>1
<1>17. CASE Disable
  <2>1. /\ \/ ~d'.idle_active /\ d'.rect = Pixel
           \/ d'.rect = d.rect /\ d'.idle_active = d.idle_active
        /\ d'.blanked = d.blanked /\ d'.direct = d.direct
        /\ UNCHANGED <<run, leave>>
    BY <1>17, <1>0, DisableEffect
  <2> QED
    BY <1>01, <1>02, <2>1
<1>18. ASSUME NEW v \in Level,
              BlWrite(v)
       PROVE  IdleInv'
  <2>1. /\ d'.idle_active = d.idle_active /\ d'.blanked = d.blanked
        /\ d'.direct = d.direct
        /\ d'.rect = d.rect /\ UNCHANGED <<run, leave>>
    BY <1>18, <1>0 DEF BlWrite, DevType
  <2> QED
    BY <1>01, <2>1
<1>19. CASE PowerOn \/ PowerAuto \/ DelayZero
  <2>1. /\ d'.idle_active = d.idle_active /\ d'.blanked = d.blanked
        /\ d'.direct = d.direct
        /\ d'.rect = d.rect /\ UNCHANGED <<run, leave>>
    BY <1>19, <1>0, PowerEffect
  <2> QED
    BY <1>01, <2>1
<1>20. CASE NoblankWrite
  <2>1. /\ d'.idle_active = d.idle_active /\ d'.blanked = d.blanked
        /\ d'.direct = d.direct
        /\ d'.rect = d.rect /\ UNCHANGED <<run, leave>>
    BY <1>20, <1>0 DEF NoblankWrite, DevType
  <2> QED
    BY <1>01, <2>1
<1>21. CASE Disconnect \/ RemoveCancel
  <2>1. /\ d'.idle_active = d.idle_active /\ d'.blanked = d.blanked
        /\ d'.direct = d.direct
        /\ d'.rect = d.rect /\ UNCHANGED <<run, leave>>
    BY <1>21, <1>0, CancelEffect DEF Disconnect, DevType
  <2> QED
    BY <1>01, <2>1
<1>22. CASE RemoveUnplug \/ RemoveFree
  BY <1>22, <1>00 DEF RemoveUnplug, RemoveFree
<1>23. CASE UNCHANGED vars
  BY <1>23, <1>00 DEF vars
<1> QED
  BY <1>1, <1>2, <1>3, <1>4, <1>5, <1>6, <1>7, <1>8, <1>9, <1>10, <1>11,
     <1>12, <1>13, <1>14, <1>15, <1>16, <1>17, <1>18, <1>19, <1>20, <1>21,
     <1>22, <1>23
     DEF Next, Wq, BlitWorker, IdleEntering, Leaving, Committing, Removing

-----------------------------------------------------------------------------
(* The brightness.                                                         *)

(* Sending pixels leaves the backlight alone.                              *)
LEMMA ShownEffect ==
    ASSUME panel \in PanelType, NEW S, NEW image
    PROVE  /\ Shown(S, image).light = panel.light
           /\ \A p \in Pixel : Shown(S, image).pixel[p] =
                 IF p \in S THEN image[p] ELSE panel.pixel[p]
  BY DEF Shown, PanelType

(* The black image blackens the panel.                                     *)
LEMMA ShownBlack ==
    ASSUME panel \in PanelType
    PROVE  Shown(Pixel, BlackImage).pixel = BlackImage
<1> DEFINE shown == [p \in Pixel |-> IF p \in Pixel THEN BlackImage[p]
                                     ELSE panel.pixel[p]]
<1>1. shown = BlackImage
  BY DEF BlackImage
<1> HIDE DEF shown
<1> QED
  BY <1>1 DEF Shown, PanelType, shown

(* What the DRM child queues and cancels leaves the brightness works       *)
(* alone.                                                                  *)
LEMMA QueueKeepsBl ==
    ASSUME wq \in Queues,
           \/ wq' \in {wq, Queue(wq, Work("resume", 0)),
                       Queue(wq, Work("idle", 0)), BlitQueued(d)}
           \/ wq' \in {Cancel(wq, "idle"),
                       Queue(Cancel(wq, "idle"), Work("blit", 0))}
    PROVE  /\ NoBl(wq') <=> NoBl(wq)
           /\ \A v : LastBl(wq, v) => LastBl(wq', v)
<1>1. \A name \in {"resume", "idle", "blit"} :
         /\ NoBl(Queue(wq, Work(name, 0))) <=> NoBl(wq)
         /\ \A v : LastBl(wq, v) => LastBl(Queue(wq, Work(name, 0)), v)
  BY QueueProp DEF WorkName
<1>2. BlitQueued(d) \in {wq, Queue(wq, Work("blit", 0))}
  BY DEF BlitQueued
<1> DEFINE kept == Cancel(wq, "idle")
<1>3. /\ kept \in Queues
      /\ NoBl(kept) <=> NoBl(wq)
      /\ \A v : LastBl(wq, v) => LastBl(kept, v)
  BY CancelProp DEF WorkName
<1> HIDE DEF kept
<1>4. /\ NoBl(Queue(kept, Work("blit", 0))) <=> NoBl(kept)
      /\ \A v : LastBl(kept, v) => LastBl(Queue(kept, Work("blit", 0)), v)
  BY <1>3, QueueProp DEF WorkName
<1> QED
  BY <1>1, <1>2, <1>3, <1>4 DEF kept

(* The last brightness work pending carries the last level written.  When  *)
(* none is pending, the running one does, or the level ax206_idle_leave    *)
(* took, or the panel has it already unless it is blanked.                 *)
BrightInv ==
    /\ LastBl(wq, d.backlight)
    /\ NoBl(wq) /\ run.name = "bl" => run.value = d.backlight
    /\ NoBl(wq) /\ leave["wq"].pc \in {"blit", "light"} =>
           leave["wq"].value = d.backlight
    /\ d.connected /\ ~Fails /\ ~d.direct /\ ~d.blanked /\ NoBl(wq) =>
           \/ panel.light = d.backlight
           \/ run.name = "bl" \/ leave["wq"].pc \in {"blit", "light"}

(* A write queues its level; idling blanks first; leaving reads the level  *)
(* after clearing the blank.                                               *)
LEMMA BrightStep ==
    ASSUME Typed, LeaveInv, IdleInv, BrightInv, [Next]_vars
    PROVE  BrightInv'
<1>0. /\ d \in DevType /\ com \in ComType /\ run \in RunType
      /\ leave \in LeaveType /\ panel \in PanelType /\ wq \in Queues
      /\ Fails' = Fails
  BY SetupFixed DEF Typed, Fails
<1>00. ASSUME UNCHANGED <<d, wq, run, leave, panel>> PROVE BrightInv'
  BY <1>0, <1>00 DEF BrightInv
<1>01. ASSUME d'.backlight = d.backlight, d'.connected = d.connected,
              d'.direct = d.direct, d'.blanked = d.blanked,
              UNCHANGED <<run, leave, panel>>, NoBl(wq') <=> NoBl(wq),
              \A v : LastBl(wq, v) => LastBl(wq', v)
       PROVE  BrightInv'
  BY <1>0, <1>01 DEF BrightInv
<1>02. ASSUME d'.backlight = d.backlight, d'.connected = d.connected,
              d'.direct = d.direct, d'.blanked = d.blanked,
              run.name # "bl", run'.name # "bl",
              panel'.light = panel.light, UNCHANGED <<wq, leave>>
       PROVE  BrightInv'
  BY <1>0, <1>02 DEF BrightInv
<1>1. CASE Dispatch
  <2>1. /\ wq # <<>> /\ wq' = Tail(wq) /\ run.name = "none"
        /\ run'.name = Head(wq).name /\ run'.value = Head(wq).value
        /\ UNCHANGED <<d, leave, panel>>
    BY <1>1, <1>0 DEF Dispatch, RunType
  <2>2. /\ NoBl(wq) <=> NoBl(wq') /\ Head(wq).name # "bl"
        /\ LastBl(wq, d.backlight) =>
              /\ LastBl(wq', d.backlight)
              /\ NoBl(wq') /\ Head(wq).name = "bl" =>
                     Head(wq).value = d.backlight
    BY <1>0, <2>1, TailProp
  <2>3. leave["wq"].pc = "out"
    BY <2>1 DEF LeaveInv, At
  <2> QED
    BY <1>0, <2>1, <2>2, <2>3 DEF BrightInv
<1>2. CASE BlitSnapshot
  <2>1. /\ d'.backlight = d.backlight /\ d'.connected = d.connected
        /\ d'.direct = d.direct /\ d'.blanked = d.blanked
        /\ run.name # "bl" /\ run'.name # "bl"
        /\ UNCHANGED <<wq, leave, panel>>
    BY <1>2, <1>0 DEF BlitSnapshot, At, Done, RunType, DevType
  <2> QED
    BY <1>02, <2>1
<1>3. CASE BlitCheck
  <2>1. /\ run.name # "bl" /\ run'.name # "bl"
        /\ UNCHANGED <<d, wq, leave, panel>>
    BY <1>3, <1>0 DEF BlitCheck, At, NextRound, RunType
  <2> QED
    BY <1>02, <2>1
<1>4. CASE BlitCopy
  <2>1. /\ run.name # "bl" /\ run'.name # "bl"
        /\ UNCHANGED <<d, wq, leave, panel>>
    BY <1>4, <1>0 DEF BlitCopy, At, NextRound, RunType
  <2> QED
    BY <1>02, <2>1
<1>5. CASE BlitSend
  <2>1. /\ run.name # "bl" /\ run'.name # "bl"
        /\ panel'.light = panel.light /\ UNCHANGED <<d, wq, leave>>
    BY <1>5, <1>0, ShownEffect DEF BlitSend, At, NextRound, RunType
  <2> QED
    BY <1>02, <2>1
<1>6. CASE IdleEnter
  <2>1. /\ run.name # "bl" /\ run'.name # "bl"
        /\ d'.backlight = d.backlight /\ d'.connected = d.connected
        /\ d'.direct = d.direct
        /\ d'.blanked \/ d'.blanked = d.blanked
        /\ UNCHANGED <<wq, leave, panel>>
    BY <1>6, <1>0 DEF IdleEnter, At, Done, RunType, DevType
  <2>2. CASE d'.blanked
    BY <2>1, <2>2 DEF BrightInv
  <2>3. CASE d'.blanked = d.blanked
    BY <1>02, <2>1, <2>3
  <2> QED
    BY <2>1, <2>2, <2>3
<1>7. CASE IdleEnterOff
  <2>1. /\ run.name # "bl" /\ run'.name # "bl"
        /\ d.direct \/ d.blanked
        /\ UNCHANGED <<d, wq, leave>>
    BY <1>7, <1>0 DEF IdleEnterOff, At, IdleInv, RunType
  <2> QED
    BY <1>0, <2>1 DEF BrightInv
<1>8. CASE IdleEnterBlack
  <2>1. /\ run.name # "bl" /\ run'.name # "bl"
        /\ panel'.light = panel.light /\ UNCHANGED <<d, wq, leave>>
    BY <1>8, <1>0, ShownEffect DEF IdleEnterBlack, At, Done, RunType
  <2> QED
    BY <1>02, <2>1
<1>9. CASE ResumeWork
  <2>1. run.name # "bl" /\ run'.name # "bl" /\ UNCHANGED <<wq, panel>>
    BY <1>9, <1>0 DEF ResumeWork, At, Done, RunType
  <2>2. CASE d.idle_active
    <3>1. leave' = [leave EXCEPT !["wq"].pc = "blit",
                                 !["wq"].value = d.backlight]
      BY <1>9, <2>2 DEF ResumeWork
    <3>2. leave'["wq"].pc = "blit" /\ leave'["wq"].value = d.backlight
      BY <1>0, <3>1, EnterEffect DEF Thread
    <3>3. d'.backlight = d.backlight
      BY <1>9, <1>0, <2>2 DEF ResumeWork, DevType
    <3> QED
      BY <2>1, <3>2, <3>3 DEF BrightInv
  <2>3. CASE ~d.idle_active
    BY <1>9, <1>02, <2>1, <2>3 DEF ResumeWork
  <2> QED
    BY <2>2, <2>3
<1>10. CASE BlWork
  <2>1. /\ run.name = "bl" /\ run'.name = "none" /\ UNCHANGED <<d, wq, leave>>
    BY <1>10, <1>0 DEF BlWork, At, Done, RunType
  <2>2. d.connected /\ ~d.blanked /\ ~Fails => panel'.light = run.value
    BY <1>10, <1>0 DEF BlWork, PanelType
  <2> QED
    BY <1>0, <2>1, <2>2 DEF BrightInv
<1>11. ASSUME NEW t \in {"wq", "com"},
              LeaveBlit(t)
       PROVE  BrightInv'
  <2>1. panel'.light = panel.light /\ UNCHANGED <<d, wq, run>>
    BY <1>11, <1>0, ShownEffect DEF LeaveBlit
  <2>2. /\ leave'["wq"].pc \in {"blit", "light"} <=>
              leave["wq"].pc \in {"blit", "light"}
        /\ leave'["wq"].value = leave["wq"].value
    BY <1>11, <1>0 DEF LeaveBlit, LeaveType, Thread
  <2> QED
    BY <1>0, <2>1, <2>2 DEF BrightInv
<1>12. ASSUME NEW t \in {"wq", "com"},
              LeaveLight(t)
       PROVE  BrightInv'
  <2>1. leave[t].pc = "light" /\ UNCHANGED <<d, wq, run>>
    BY <1>12 DEF LeaveLight
  <2>2. CASE t = "wq"
    <3>1. /\ leave'["wq"].pc = "timer"
          /\ ~Fails => panel'.light = leave["wq"].value
      BY <1>12, <1>0, <2>2 DEF LeaveLight, LeaveType, Thread, PanelType
    <3> QED
      BY <1>0, <2>1, <2>2, <3>1 DEF BrightInv
  <2>3. CASE t = "com"
    <3>1. d.direct
      BY <2>1, <2>3 DEF LeaveInv
    <3>2. leave'["wq"] = leave["wq"]
      BY <1>12, <1>0, <2>3 DEF LeaveLight, LeaveType, Thread
    <3> QED
      BY <2>1, <3>1, <3>2 DEF BrightInv
  <2> QED
    BY <2>2, <2>3
<1>13. ASSUME NEW t \in {"wq", "com"},
              LeaveTimer(t)
       PROVE  BrightInv'
  <2>1. /\ d'.backlight = d.backlight /\ d'.connected = d.connected
        /\ d'.direct = d.direct /\ d'.blanked = d.blanked
        /\ wq' \in {wq, Queue(wq, Work("resume", 0))} /\ UNCHANGED panel
    BY <1>13, <1>0, CountdownEffect DEF LeaveTimer
  <2>2. /\ NoBl(wq') <=> NoBl(wq)
        /\ \A v : LastBl(wq, v) => LastBl(wq', v)
    BY <1>0, <2>1, QueueKeepsBl
  <2>3. leave[t].pc = "timer"
    BY <1>13 DEF LeaveTimer
  <2>4. CASE t = "wq"
    <3>1. leave'["wq"].pc = "out" /\ run'.name = "none"
      BY <1>13, <1>0, <2>4 DEF LeaveTimer, LeaveType, Thread, Done, RunType
    <3>2. run.name = "resume"
      BY <2>3, <2>4 DEF LeaveInv, At
    <3> QED
      BY <1>0, <2>1, <2>2, <2>3, <2>4, <3>1, <3>2 DEF BrightInv
  <2>5. CASE t = "com"
    <3>1. leave'["wq"] = leave["wq"] /\ UNCHANGED run
      BY <1>13, <1>0, <2>5 DEF LeaveTimer, LeaveType, Thread
    <3> QED
      BY <1>0, <2>1, <2>2, <3>1 DEF BrightInv
  <2> QED
    BY <2>4, <2>5
<1>14. CASE TimerFire
  <2>1. /\ d'.backlight = d.backlight /\ d'.connected = d.connected
        /\ d'.direct = d.direct /\ d'.blanked = d.blanked
        /\ UNCHANGED <<run, leave, panel>>
        /\ wq' \in {wq, Queue(wq, Work("idle", 0))}
    BY <1>14, <1>0 DEF TimerFire, DevType
  <2>2. /\ NoBl(wq') <=> NoBl(wq)
        /\ \A v : LastBl(wq, v) => LastBl(wq', v)
    BY <1>0, <2>1, QueueKeepsBl
  <2> QED
    BY <1>01, <2>1, <2>2
<1>15. ASSUME NEW clip \in SUBSET Pixel, NEW image \in Image,
              Update(clip, image)
       PROVE  BrightInv'
  <2>1. /\ d'.backlight = d.backlight /\ d'.connected = d.connected
        /\ d'.direct = d.direct /\ d'.blanked = d.blanked
        /\ UNCHANGED <<run, leave, panel>>
        /\ wq' \in {wq, Queue(wq, Work("resume", 0))}
    BY <1>15, <1>0, UpdateEffect
  <2>2. /\ NoBl(wq') <=> NoBl(wq)
        /\ \A v : LastBl(wq, v) => LastBl(wq', v)
    BY <1>0, <2>1, QueueKeepsBl
  <2> QED
    BY <1>01, <2>1, <2>2
<1>16. CASE UpdateMark
  <2>1. /\ d'.backlight = d.backlight /\ d'.connected = d.connected
        /\ d'.direct = d.direct /\ d'.blanked = d.blanked
        /\ UNCHANGED <<run, leave, panel>>
        /\ wq' = BlitQueued(d)
    BY <1>16, <1>0, MarkEffect
  <2>2. /\ NoBl(wq') <=> NoBl(wq)
        /\ \A v : LastBl(wq, v) => LastBl(wq', v)
    BY <1>0, <2>1, QueueKeepsBl
  <2> QED
    BY <1>01, <2>1, <2>2
<1>17. CASE Enable
  <2>1. /\ d'.backlight = d.backlight /\ leave'["wq"] = leave["wq"]
        /\ d'.direct \/ UNCHANGED d
        /\ UNCHANGED <<wq, run, panel>>
    BY <1>17, <1>0, EnableEffect
  <2> QED
    BY <1>0, <2>1 DEF BrightInv
<1>18. CASE EnableClear
  <2>1. /\ d'.backlight = d.backlight /\ d'.connected = d.connected
        /\ d'.direct = d.direct /\ d'.blanked = d.blanked
        /\ UNCHANGED <<run, leave, panel>>
        /\ wq' \in {wq, Queue(wq, Work("resume", 0)), BlitQueued(d)}
    BY <1>18, <1>0, ClearEffect
  <2>2. /\ NoBl(wq') <=> NoBl(wq)
        /\ \A v : LastBl(wq, v) => LastBl(wq', v)
    BY <1>0, <2>1, QueueKeepsBl
  <2> QED
    BY <1>01, <2>1, <2>2
<1>19. CASE Disable
  <2>1. /\ d'.backlight = d.backlight /\ d'.connected = d.connected
        /\ d'.direct = d.direct /\ d'.blanked = d.blanked
        /\ UNCHANGED <<run, leave, panel>>
        /\ wq' \in {Cancel(wq, "idle"),
                   Queue(Cancel(wq, "idle"), Work("blit", 0))}
    BY <1>19, <1>0, DisableEffect
  <2>2. /\ NoBl(wq') <=> NoBl(wq)
        /\ \A v : LastBl(wq, v) => LastBl(wq', v)
    BY <1>0, <2>1, QueueKeepsBl
  <2> QED
    BY <1>01, <2>1, <2>2
<1>20. ASSUME NEW v \in Level,
              BlWrite(v)
       PROVE  BrightInv'
  <2>1. /\ Work("bl", v) \in WorkType /\ Work("bl", v).name = "bl"
        /\ Work("bl", v).value = v /\ wq' = Append(wq, Work("bl", v))
    BY <1>20, WorkProp DEF BlWrite
  <2>2. ~NoBl(wq') /\ LastBl(wq', v)
    BY <1>0, <2>1, AppendProp
  <2>3. d'.backlight = v
    BY <1>20, <1>0 DEF BlWrite, DevType
  <2> QED
    BY <2>2, <2>3 DEF BrightInv
<1>21. CASE PowerOn \/ PowerAuto \/ DelayZero
  <2>1. /\ d'.backlight = d.backlight /\ d'.connected = d.connected
        /\ d'.direct = d.direct /\ d'.blanked = d.blanked
        /\ UNCHANGED <<run, leave, panel>>
        /\ wq' \in {wq, Queue(wq, Work("resume", 0))}
    BY <1>21, <1>0, PowerEffect
  <2>2. /\ NoBl(wq') <=> NoBl(wq)
        /\ \A v : LastBl(wq, v) => LastBl(wq', v)
    BY <1>0, <2>1, QueueKeepsBl
  <2> QED
    BY <1>01, <2>1, <2>2
<1>22. CASE NoblankWrite
  <2>1. /\ d'.backlight = d.backlight /\ d'.connected = d.connected
        /\ d'.direct = d.direct /\ d'.blanked = d.blanked
        /\ UNCHANGED <<run, leave, panel>>
        /\ UNCHANGED wq
    BY <1>22, <1>0 DEF NoblankWrite, DevType
  <2>2. /\ NoBl(wq') <=> NoBl(wq)
        /\ \A v : LastBl(wq, v) => LastBl(wq', v)
    BY <1>0, <2>1, QueueKeepsBl
  <2> QED
    BY <1>01, <2>1, <2>2
<1>23. CASE Disconnect
  <2>1. /\ d'.backlight = d.backlight /\ ~d'.connected
        /\ UNCHANGED <<wq, run, leave>>
    BY <1>23, <1>0 DEF Disconnect, DevType
  <2> QED
    BY <2>1 DEF BrightInv
<1>24. CASE RemoveCancel
  <2>1. /\ d'.backlight = d.backlight /\ d'.connected = d.connected
        /\ d'.direct = d.direct /\ d'.blanked = d.blanked
        /\ UNCHANGED <<run, leave, panel>>
        /\ wq' = wq \/ \E name \in WorkName : wq' = Cancel(wq, name)
    BY <1>24, <1>0, CancelEffect
  <2>2. /\ NoBl(wq') <=> NoBl(wq)
        /\ \A v : LastBl(wq, v) => LastBl(wq', v)
    BY <1>0, <2>1, CancelProp
  <2> QED
    BY <1>01, <2>1, <2>2
<1>25. CASE RemoveUnplug \/ RemoveFree
  BY <1>25, <1>00 DEF RemoveUnplug, RemoveFree
<1>26. CASE UNCHANGED vars
  BY <1>26, <1>00 DEF vars
<1> QED
  BY <1>1, <1>2, <1>3, <1>4, <1>5, <1>6, <1>7, <1>8, <1>9, <1>10, <1>11,
     <1>12, <1>13, <1>14, <1>15, <1>16, <1>17, <1>18, <1>19, <1>20, <1>21,
     <1>22, <1>23, <1>24, <1>25, <1>26
     DEF Next, Wq, BlitWorker, IdleEntering, Leaving, Committing, Removing

-----------------------------------------------------------------------------
(* The idle panel and the removal.                                         *)

(* An idle panel is dark as soon as the idle work has sent the level 0,    *)
(* and black when that work is done.                                       *)
DarkInv ==
    d.connected /\ ~Fails /\ d.idle_active /\ ~d.direct =>
        /\ ~At("idle", "off") => panel.light = 0
        /\ ~At("idle", "off") /\ ~At("idle", "black") =>
               panel.pixel = BlackImage

(* What ax206_drm_remove has cancelled stays cancelled unless a late frame *)
(* or power write brings it back, or the resume work has started the       *)
(* countdown again; the pipe is closed before the shadow is freed.         *)
Active(name) == run.name = name \/ Contains(wq, Work(name, 0))
CancelInv ==
    Cancelling \/ rem = "freed" =>
        \/ d.late
        \/ /\ d.timer \/ (rem # "idle" /\ Active("idle")) => d.rearmed
           /\ rem \notin {"idle", "resume"} => ~Active("resume")
           /\ rem \notin {"idle", "resume", "blit"} => ~Active("blit")
RemovedInv ==
    /\ CancelInv
    /\ rem = "freed" => com.pc = "idle" /\ ~com.open

(* A brightness work does not light a blanked panel.                       *)
LEMMA DarkStep ==
    ASSUME Typed, PcInv, LeaveInv, IdleInv, DarkInv, [Next]_vars
    PROVE  DarkInv'
<1>0. /\ d \in DevType /\ com \in ComType /\ run \in RunType
      /\ leave \in LeaveType /\ panel \in PanelType
      /\ Fails' = Fails /\ BlackImage' = BlackImage
  BY SetupFixed DEF Typed, Fails, BlackImage, Pixel
<1>00. ASSUME UNCHANGED <<d, run, panel>> PROVE DarkInv'
  BY <1>0, <1>00 DEF DarkInv, At
<1>01. ASSUME d'.connected = d.connected, d'.idle_active => d.idle_active,
              d'.direct = d.direct, UNCHANGED <<run, panel>>
       PROVE  DarkInv'
  BY <1>0, <1>01 DEF DarkInv, At
<1>02. ASSUME d'.connected = d.connected, d'.idle_active = d.idle_active,
              d'.direct = d.direct, run.name # "idle", run'.name # "idle",
              UNCHANGED panel
       PROVE  DarkInv'
  BY <1>0, <1>02 DEF DarkInv, At
<1>03. ASSUME ~d.idle_active \/ d.direct, d'.idle_active = d.idle_active,
              d'.direct = d.direct
       PROVE  DarkInv'
  BY <1>03 DEF DarkInv
<1>1. CASE Dispatch
  <2>1. /\ run.name = "none" /\ run'.pc = run.pc /\ UNCHANGED <<d, panel>>
    BY <1>1, <1>0 DEF Dispatch, RunType
  <2>2. run.pc = "start"
    BY <2>1 DEF PcInv
  <2> QED
    BY <1>0, <2>1, <2>2 DEF DarkInv, At
<1>2. CASE BlitSnapshot
  <2>1. /\ run.name # "idle" /\ run'.name # "idle"
        /\ d'.connected = d.connected /\ d'.idle_active = d.idle_active
        /\ d'.direct = d.direct
        /\ UNCHANGED panel
    BY <1>2, <1>0 DEF BlitSnapshot, At, Done, RunType, DevType
  <2> QED
    BY <1>02, <2>1
<1>3. CASE BlitCheck
  <2>1. /\ run.name # "idle" /\ run'.name # "idle"
        /\ UNCHANGED <<d, panel>>
    BY <1>3, <1>0 DEF BlitCheck, At, NextRound, RunType
  <2> QED
    BY <1>02, <2>1
<1>4. CASE BlitCopy
  <2>1. /\ run.name # "idle" /\ run'.name # "idle"
        /\ UNCHANGED <<d, panel>>
    BY <1>4, <1>0 DEF BlitCopy, At, NextRound, RunType
  <2> QED
    BY <1>02, <2>1
<1>5. CASE BlitSend
  <2>1. ~d.idle_active /\ UNCHANGED d
    BY <1>5, <1>0 DEF BlitSend, IdleInv
  <2> QED
    BY <1>03, <2>1
<1>6. CASE IdleEnter
  <2>1. At("idle", "start") /\ UNCHANGED panel
    BY <1>6 DEF IdleEnter
  <2>2. CASE d.idle_active
    <3>1. run'.name = "none" /\ UNCHANGED d
      BY <1>6, <1>0, <2>2 DEF IdleEnter, Done, RunType
    <3> QED
      BY <1>0, <2>1, <3>1 DEF DarkInv, At
  <2>3. CASE ~d.idle_active
    <3>1. run'.name = "idle" /\ run'.pc = "off"
      BY <1>6, <1>0, <2>1, <2>3 DEF IdleEnter, At, RunType
    <3> QED
      BY <3>1 DEF DarkInv, At
  <2> QED
    BY <2>2, <2>3
<1>7. CASE IdleEnterOff
  <2>1. /\ run'.name = "idle" /\ run'.pc = "black" /\ UNCHANGED d
        /\ ~Fails => panel'.light = 0
    BY <1>7, <1>0 DEF IdleEnterOff, At, RunType, PanelType
  <2> QED
    BY <1>0, <2>1 DEF DarkInv, At
<1>8. CASE IdleEnterBlack
  <2>1. run.name = "idle" /\ run.pc = "black" /\ UNCHANGED d
    BY <1>8 DEF IdleEnterBlack, At
  <2>2. ~Fails => panel'.pixel = BlackImage /\ panel'.light = panel.light
    BY <1>8, <1>0, ShownEffect, ShownBlack DEF IdleEnterBlack
  <2> QED
    BY <1>0, <2>1, <2>2 DEF DarkInv, At
<1>9. CASE ResumeWork
  <2>1. CASE d.idle_active
    <3>1. ~d'.idle_active
      BY <1>9, <1>0, <2>1 DEF ResumeWork, DevType
    <3> QED
      BY <3>1 DEF DarkInv
  <2>2. CASE ~d.idle_active
    BY <1>9, <1>03, <2>2 DEF ResumeWork
  <2> QED
    BY <2>1, <2>2
<1>10. CASE BlWork
  <2>1. run.name # "idle" /\ run'.name # "idle" /\ UNCHANGED d
    BY <1>10, <1>0 DEF BlWork, At, Done, RunType
  <2>2. d.idle_active /\ ~Fails => UNCHANGED panel
    BY <1>10 DEF BlWork, IdleInv
  <2> QED
    BY <1>0, <2>1, <2>2 DEF DarkInv, At
<1>11. ASSUME NEW t \in {"wq", "com"},
              LeaveBlit(t) \/ LeaveLight(t)
       PROVE  DarkInv'
  <2>1. leave[t].pc # "out" /\ UNCHANGED d
    BY <1>11 DEF LeaveBlit, LeaveLight
  <2>2. ~d.idle_active \/ d.direct
    BY <2>1 DEF LeaveInv, IdleInv
  <2> QED
    BY <1>03, <2>1, <2>2
<1>12. ASSUME NEW t \in {"wq", "com"},
              LeaveTimer(t)
       PROVE  DarkInv'
  <2>1. leave[t].pc # "out"
    BY <1>12 DEF LeaveTimer
  <2>2. ~d.idle_active \/ d.direct
    BY <2>1 DEF LeaveInv, IdleInv
  <2>3. /\ d'.connected = d.connected /\ d'.idle_active = d.idle_active
        /\ d'.direct = d.direct
    BY <1>12, <1>0, CountdownEffect DEF LeaveTimer
  <2> QED
    BY <1>03, <2>2, <2>3
<1>13. CASE TimerFire
  <2>1. /\ d'.connected = d.connected /\ d'.idle_active = d.idle_active
        /\ d'.direct = d.direct
        /\ UNCHANGED <<run, panel>>
    BY <1>13, <1>0 DEF TimerFire, DevType
  <2> QED
    BY <1>01, <2>1
<1>14. ASSUME NEW clip \in SUBSET Pixel, NEW image \in Image,
              Update(clip, image)
       PROVE  DarkInv'
  <2>1. /\ d'.connected = d.connected /\ d'.idle_active = d.idle_active
        /\ d'.direct = d.direct
        /\ UNCHANGED <<run, panel>>
    BY <1>14, <1>0, UpdateEffect
  <2> QED
    BY <1>01, <2>1
<1>15. CASE UpdateMark
  <2>1. /\ d'.connected = d.connected /\ d'.idle_active = d.idle_active
        /\ d'.direct = d.direct
        /\ UNCHANGED <<run, panel>>
    BY <1>15, <1>0, MarkEffect
  <2> QED
    BY <1>01, <2>1
<1>16. CASE Enable
  <2>1. /\ d'.direct \/ UNCHANGED d
        /\ UNCHANGED <<run, panel>>
    BY <1>16, <1>0, EnableEffect
  <2> QED
    BY <1>01, <2>1 DEF DarkInv
<1>17. CASE EnableClear
  <2>1. /\ d'.connected = d.connected
        /\ d'.idle_active => d.idle_active
        /\ d'.direct = d.direct
        /\ UNCHANGED <<run, panel>>
    BY <1>17, <1>0, ClearEffect
  <2> QED
    BY <1>01, <2>1
<1>18. CASE Disable
  <2>1. /\ d'.connected = d.connected
        /\ d'.idle_active => d.idle_active
        /\ d'.direct = d.direct
        /\ UNCHANGED <<run, panel>>
    BY <1>18, <1>0, DisableEffect
  <2> QED
    BY <1>01, <2>1
<1>19. ASSUME NEW v \in Level,
              BlWrite(v)
       PROVE  DarkInv'
  <2>1. /\ d'.connected = d.connected /\ d'.idle_active = d.idle_active
        /\ d'.direct = d.direct
        /\ UNCHANGED <<run, panel>>
    BY <1>19, <1>0 DEF BlWrite, DevType
  <2> QED
    BY <1>01, <2>1
<1>20. CASE PowerOn \/ PowerAuto \/ DelayZero
  <2>1. /\ d'.connected = d.connected /\ d'.idle_active = d.idle_active
        /\ d'.direct = d.direct
        /\ UNCHANGED <<run, panel>>
    BY <1>20, <1>0, PowerEffect
  <2> QED
    BY <1>01, <2>1
<1>21. CASE NoblankWrite
  <2>1. /\ d'.connected = d.connected /\ d'.idle_active = d.idle_active
        /\ d'.direct = d.direct
        /\ UNCHANGED <<run, panel>>
    BY <1>21, <1>0 DEF NoblankWrite, DevType
  <2> QED
    BY <1>01, <2>1
<1>22. CASE Disconnect
  <2>1. ~d'.connected
    BY <1>22, <1>0 DEF Disconnect, DevType
  <2> QED
    BY <2>1 DEF DarkInv
<1>23. CASE RemoveCancel
  <2>1. /\ d'.connected = d.connected /\ d'.idle_active = d.idle_active
        /\ d'.direct = d.direct
        /\ UNCHANGED <<run, panel>>
    BY <1>23, <1>0, CancelEffect
  <2> QED
    BY <1>01, <2>1
<1>24. CASE RemoveUnplug \/ RemoveFree
  BY <1>24, <1>00 DEF RemoveUnplug, RemoveFree
<1>25. CASE UNCHANGED vars
  BY <1>25, <1>00 DEF vars
<1> QED
  BY <1>1, <1>2, <1>3, <1>4, <1>5, <1>6, <1>7, <1>8, <1>9, <1>10, <1>11,
     <1>12, <1>13, <1>14, <1>15, <1>16, <1>17, <1>18, <1>19, <1>20, <1>21,
     <1>22, <1>23, <1>24, <1>25
     DEF Next, Wq, BlitWorker, IdleEntering, Leaving, Committing, Removing

(* Only the compositor and sysfs queue the DRM child's works again, and    *)
(* only the resume work arms the timer.                                    *)
LEMMA RemovedStep ==
    ASSUME Typed, LeaveInv, BoundInv, IdleInv, RemovedInv, [Next]_vars
    PROVE  RemovedInv'
<1>0. /\ d \in DevType /\ com \in ComType /\ run \in RunType
      /\ leave \in LeaveType /\ wq \in Queues /\ rem \in RemType
  BY DEF Typed
<1>00. ASSUME UNCHANGED <<d, wq, run, com, rem>> PROVE RemovedInv'
  BY <1>00 DEF RemovedInv, CancelInv, Cancelling, Active
<1>01. ASSUME d.late => d'.late, d'.timer => d.timer,
              d.rearmed => d'.rearmed,
              \A name \in WorkName : Active(name)' => Active(name),
              UNCHANGED rem
       PROVE  CancelInv'
  BY <1>01 DEF RemovedInv, CancelInv, Cancelling, WorkName
<1>02. ASSUME d.late \/ Cancelling => d'.late, rem # "freed", UNCHANGED rem
       PROVE  RemovedInv'
  BY <1>02 DEF RemovedInv, CancelInv, Cancelling
<1>03. ASSUME CancelInv', UNCHANGED <<com, rem>> PROVE RemovedInv'
  BY <1>03 DEF RemovedInv
<1>1. CASE Dispatch
  <2>1. /\ run.name = "none" /\ wq # <<>> /\ wq' = Tail(wq)
        /\ run'.name = Head(wq).name /\ UNCHANGED <<d, com, rem>>
    BY <1>1, <1>0 DEF Dispatch, RunType
  <2>2. /\ Head(wq) \in WorkType /\ Contains(wq, Head(wq))
        /\ \A x : Contains(wq', x) => Contains(wq, x)
    BY <1>0, <2>1, TailProp
  <2>3. Head(wq).name # "bl" =>
           Head(wq).name \in WorkName /\ Head(wq) = Work(Head(wq).name, 0)
    BY <2>2, WorkProp
  <2>4. \A name \in WorkName : Active(name)' => Active(name)
    BY <2>1, <2>2, <2>3 DEF Active, WorkName
  <2> QED
    BY <1>01, <1>03, <2>1, <2>4
<1>2. CASE BlitSnapshot
  <2>1. /\ run'.name \in {run.name, "none"} /\ UNCHANGED <<wq, com, rem>>
        /\ d' \in {[d EXCEPT !.blit_active = FALSE], [d EXCEPT !.rect = {}]}
    BY <1>2, <1>0 DEF BlitSnapshot, Done, RunType
  <2>2. \A name \in WorkName : Active(name)' => Active(name)
    BY <2>1 DEF Active, WorkName
  <2>3. d'.late = d.late /\ d'.timer = d.timer /\ d'.rearmed = d.rearmed
    BY <1>0, <2>1 DEF DevType
  <2> QED
    BY <1>01, <1>03, <2>1, <2>2, <2>3
<1>3. CASE BlitCheck \/ BlitCopy \/ BlitSend \/ IdleEnterOff
           \/ IdleEnterBlack
  <2>1. /\ run'.name \in {run.name, "none"} /\ UNCHANGED <<d, wq, com, rem>>
    BY <1>3, <1>0 DEF BlitCheck, BlitCopy, BlitSend, IdleEnterOff,
                      IdleEnterBlack, NextRound, Done, RunType
  <2>2. \A name \in WorkName : Active(name)' => Active(name)
    BY <2>1 DEF Active, WorkName
  <2> QED
    BY <1>01, <1>03, <2>1, <2>2
<1>4. CASE IdleEnter
  <2>1. /\ run'.name \in {run.name, "none"}
        /\ d'.late = d.late /\ d'.timer = d.timer /\ d'.rearmed = d.rearmed
        /\ UNCHANGED <<wq, com, rem>>
    BY <1>4, <1>0 DEF IdleEnter, At, Done, DevType, RunType
  <2>2. \A name \in WorkName : Active(name)' => Active(name)
    BY <2>1 DEF Active, WorkName
  <2> QED
    BY <1>01, <1>03, <2>1, <2>2
<1>5. CASE ResumeWork
  <2>1. /\ run'.name \in {run.name, "none"}
        /\ d'.late = d.late /\ d'.timer = d.timer /\ d'.rearmed = d.rearmed
        /\ UNCHANGED <<wq, com, rem>>
    BY <1>5, <1>0 DEF ResumeWork, At, Done, DevType, RunType
  <2>2. \A name \in WorkName : Active(name)' => Active(name)
    BY <2>1 DEF Active, WorkName
  <2> QED
    BY <1>01, <1>03, <2>1, <2>2
<1>6. CASE BlWork
  <2>1. run'.name = "none" /\ UNCHANGED <<d, wq, com, rem>>
    BY <1>6, <1>0 DEF BlWork, Done, RunType
  <2>2. \A name \in WorkName : Active(name)' => Active(name)
    BY <2>1 DEF Active, WorkName
  <2> QED
    BY <1>01, <1>03, <2>1, <2>2
<1>7. ASSUME NEW t \in {"wq", "com"},
             LeaveBlit(t) \/ LeaveLight(t)
      PROVE  RemovedInv'
  BY <1>7, <1>00 DEF LeaveBlit, LeaveLight
<1>8. ASSUME NEW t \in {"wq", "com"},
             LeaveTimer(t)
      PROVE  RemovedInv'
  <2>1. leave[t].pc = "timer" /\ UNCHANGED rem
    BY <1>8 DEF LeaveTimer
  <2>2. CASE t = "wq"
    <3>1. /\ run.name = "resume" /\ run'.name = "none" /\ ~d.idle_active
          /\ UNCHANGED com
      BY <1>8, <1>0, <2>1, <2>2 DEF LeaveTimer, LeaveInv, IdleInv, At, Done,
                                    RunType
    <3>2. /\ d'.late = d.late
          /\ d'.rearmed <=> (d.rearmed \/ Cancelling)
          /\ wq' = wq
      BY <1>8, <1>0, <2>2, <3>1, CountdownEffect
    <3>3. \A name \in WorkName : Active(name)' => Active(name)
      BY <3>1, <3>2 DEF Active, WorkName
    <3>4. rem = "freed" => d.late
      BY <3>1 DEF RemovedInv, CancelInv, Active
    <3>5. CancelInv'
      BY <2>1, <3>2, <3>3, <3>4 DEF RemovedInv, CancelInv, Cancelling,
                                    WorkName
    <3> QED
      BY <1>03, <2>1, <3>1, <3>5
  <2>3. CASE t = "com"
    <3>1. com.pc = "leaving"
      BY <2>1, <2>3 DEF LeaveInv
    <3>2. d.late \/ Cancelling => d'.late
      BY <1>8, <1>0, <2>3, CountdownEffect
    <3>3. rem # "freed"
      BY <3>1 DEF RemovedInv
    <3> QED
      BY <1>02, <2>1, <3>2, <3>3
  <2> QED
    BY <2>2, <2>3
<1>9. CASE TimerFire
  <2>1. /\ d.timer /\ ~d'.timer /\ d'.late = d.late
        /\ d'.rearmed = d.rearmed
        /\ wq' \in {wq, Queue(wq, Work("idle", 0))}
        /\ UNCHANGED <<run, com, rem>>
    BY <1>9, <1>0 DEF TimerFire, DevType
  <2>2. /\ Active("resume")' => Active("resume")
        /\ Active("blit")' => Active("blit")
    BY <1>0, <2>1, QueueProp DEF Active, WorkName, Work
  <2>3. CancelInv'
    BY <2>1, <2>2 DEF RemovedInv, CancelInv, Cancelling
  <2> QED
    BY <1>03, <2>1, <2>3
<1>10. ASSUME NEW clip \in SUBSET Pixel, NEW image \in Image,
              Update(clip, image)
       PROVE  RemovedInv'
  <2>1. /\ d.late \/ Cancelling => d'.late
        /\ rem # "freed" /\ UNCHANGED rem
    BY <1>10, <1>0, UpdateEffect
  <2> QED
    BY <1>02, <2>1
<1>11. CASE UpdateMark
  <2>1. /\ d.late \/ Cancelling => d'.late
        /\ com.pc = "mark" /\ UNCHANGED rem
    BY <1>11, <1>0, MarkEffect
  <2> QED
    BY <1>02, <2>1 DEF RemovedInv
<1>12. CASE Enable
  <2>1. /\ d'.late = d.late /\ d'.timer = d.timer /\ d'.rearmed = d.rearmed
        /\ com.pc = "enable" /\ UNCHANGED <<wq, run, rem>>
    BY <1>12, <1>0, EnableEffect
  <2>2. \A name \in WorkName : Active(name)' => Active(name)
    BY <2>1 DEF Active
  <2> QED
    BY <1>01, <2>1, <2>2 DEF RemovedInv
<1>13. CASE EnableClear
  <2>1. /\ d.late \/ Cancelling => d'.late
        /\ com.pc = "clear" /\ UNCHANGED rem
    BY <1>13, <1>0, ClearEffect
  <2> QED
    BY <1>02, <2>1 DEF RemovedInv
<1>14. CASE Disable
  <2>1. /\ d.connected \/ wq' = Cancel(wq, "idle")
        /\ d.late => d'.late
        /\ d'.rearmed = d.rearmed
        /\ ~d'.timer /\ com.open /\ UNCHANGED <<run, rem>>
    BY <1>14, <1>0, DisableEffect
  <2>2. \A x : Contains(Cancel(wq, "idle"), x) => Contains(wq, x)
    BY <1>0, CancelProp DEF WorkName
  <2>3. ~d.connected =>
           \A name \in WorkName : Active(name)' => Active(name)
    BY <2>1, <2>2 DEF Active
  <2>4. CASE rem = "bound"
    BY <2>1, <2>4 DEF RemovedInv, CancelInv, Cancelling
  <2>5. CASE rem # "bound"
    <3>1. \A name \in WorkName : Active(name)' => Active(name)
      BY <2>3, <2>5 DEF BoundInv
    <3>2. /\ d.late => d'.late
          /\ d'.timer => d.timer
          /\ d.rearmed => d'.rearmed
          /\ UNCHANGED rem
      BY <2>1
    <3>3. CancelInv'
      BY <1>01, <3>1, <3>2
    <3> QED
      BY <2>1, <3>3 DEF RemovedInv
  <2> QED
    BY <2>4, <2>5
<1>15. ASSUME NEW v \in Level,
              BlWrite(v)
       PROVE  RemovedInv'
  <2>1. rem = "bound" /\ rem' = "bound"
    BY <1>15 DEF BlWrite
  <2> QED
    BY <2>1 DEF RemovedInv, CancelInv, Cancelling
<1>16. CASE PowerOn \/ PowerAuto \/ DelayZero
  <2>1. /\ d.late \/ Cancelling => d'.late
        /\ rem # "freed" /\ UNCHANGED rem
    BY <1>16, <1>0, PowerEffect
  <2> QED
    BY <1>02, <2>1
<1>17. CASE NoblankWrite
  <2>1. /\ d'.late = d.late /\ d'.timer = d.timer /\ d'.rearmed = d.rearmed
        /\ UNCHANGED <<wq, run, com, rem>>
    BY <1>17, <1>0 DEF NoblankWrite, DevType
  <2>2. \A name \in WorkName : Active(name)' => Active(name)
    BY <2>1 DEF Active
  <2> QED
    BY <1>01, <1>03, <2>1, <2>2
<1>18. CASE Disconnect
  <2>1. rem' = "timer"
    BY <1>18 DEF Disconnect
  <2> QED
    BY <2>1 DEF RemovedInv, CancelInv, Cancelling
<1>19. CASE RemoveCancel
  <2>1. /\ d'.late = d.late /\ d'.rearmed = d.rearmed
        /\ UNCHANGED <<run, com>> /\ rem' # "freed"
        /\ \/ rem = "timer" /\ rem' = "idle" /\ ~d'.timer
           \/ /\ d' = d /\ run.name # rem /\ wq' = Cancel(wq, rem)
              /\ <<rem, rem'>> \in {<<"idle", "resume">>,
                                   <<"resume", "blit">>,
                                   <<"blit", "unplug">>}
    BY <1>19, <1>0, CancelEffect
  <2>2. CASE rem = "timer" /\ rem' = "idle" /\ ~d'.timer
    BY <2>2 DEF RemovedInv, CancelInv
  <2>3. CASE /\ d' = d /\ run.name # rem /\ wq' = Cancel(wq, rem)
             /\ <<rem, rem'>> \in {<<"idle", "resume">>,
                                  <<"resume", "blit">>,
                                  <<"blit", "unplug">>}
    <3>1. rem \in WorkName
      BY <2>3, Zenon DEF WorkName
    <3>2. \A name \in WorkName :
             Active(name)' => Active(name) /\ name # rem
      <4>1. /\ ~Contains(wq', Work(rem, 0))
            /\ \A x : Contains(wq', x) => Contains(wq, x)
        BY <1>0, <2>3, <3>1, CancelProp
      <4> QED
        BY <2>1, <2>3, <4>1 DEF Active
    <3>3. /\ Active("idle")' => Active("idle") /\ rem # "idle"
          /\ Active("resume")' => Active("resume") /\ rem # "resume"
          /\ Active("blit")' => Active("blit") /\ rem # "blit"
      BY <3>2 DEF WorkName
    <3> QED
      BY <2>1, <2>3, <3>3 DEF RemovedInv, CancelInv, Cancelling
  <2> QED
    BY <2>1, <2>2, <2>3
<1>20. CASE RemoveUnplug \/ RemoveFree
  <2>1. /\ rem \in {"unplug", "shutdown"} /\ rem' \in {"shutdown", "freed"}
        /\ rem' = "freed" => com.pc = "idle" /\ ~com.open
        /\ UNCHANGED <<d, wq, run, com>>
    BY <1>20 DEF RemoveUnplug, RemoveFree
  <2> QED
    BY <2>1 DEF RemovedInv, CancelInv, Cancelling, Active
<1>21. CASE UNCHANGED vars
  BY <1>21, <1>00 DEF vars
<1> QED
  BY <1>1, <1>2, <1>3, <1>4, <1>5, <1>6, <1>7, <1>8, <1>9, <1>10, <1>11,
     <1>12, <1>13, <1>14, <1>15, <1>16, <1>17, <1>18, <1>19, <1>20, <1>21
     DEF Next, Wq, BlitWorker, IdleEntering, Leaving, Committing, Removing

-----------------------------------------------------------------------------
(* The picture.                                                            *)

(* A pixel about to be sent: in the dirty rectangle or in the clip a       *)
(* commit is about to add to it; or in the rectangle the worker has taken. *)
Marked(p) == p \in d.rect \/ (com.pc = "mark" /\ p \in com.clip)
Taken(p) ==
    /\ run.name = "blit" /\ run.pc \in {"check", "copy", "send"}
    /\ p \in run.rect

(* A pixel the panel does not show is on its way, and what the worker      *)
(* copied is current or its pixel will be sent again.                      *)
Tracked(p) ==
    /\ \/ panel.pixel[p] = d.shadow[p]
       \/ Marked(p) \/ Taken(p) \/ leave["wq"].pc = "blit"
    /\ At("blit", "send") /\ p \in run.rect =>
           run.buf[p] = d.shadow[p] \/ Marked(p)

(* The states in which the panel must follow the shadow.                   *)
Watched ==
    d.connected /\ ~Fails /\ d.cleared /\ ~d.idle_active /\ ~d.direct

(* Every pixel is tracked.                                                 *)
ShadowInv == Watched => \A p \in Pixel : Tracked(p)

(* No step loses a pixel.                                                  *)
LEMMA TrackedStep ==
    ASSUME NEW p \in Pixel, Typed, PcInv, LeaveInv, IdleInv,
           Watched => Tracked(p), [Next]_vars
    PROVE  Watched' => Tracked(p)'
<1>0. /\ d \in DevType /\ com \in ComType /\ run \in RunType
      /\ leave \in LeaveType /\ panel \in PanelType /\ Fails' = Fails
  BY SetupFixed DEF Typed, Fails
<1>00. ASSUME UNCHANGED <<d, run, com, leave, panel>>
       PROVE  Watched' => Tracked(p)'
  BY <1>0, <1>00 DEF Watched, Tracked, Marked, Taken, At
<1>01. ASSUME d'.connected = d.connected, d'.idle_active = d.idle_active,
              d'.direct = d.direct, d'.cleared = d.cleared,
              d'.shadow = d.shadow, d'.rect = d.rect,
              UNCHANGED <<run, com, leave, panel>>
       PROVE  Watched' => Tracked(p)'
  BY <1>0, <1>01 DEF Watched, Tracked, Marked, Taken, At
<1>02. ASSUME run.name # "blit", run'.name # "blit",
              panel'.pixel = panel.pixel, UNCHANGED <<d, com, leave>>
       PROVE  Watched' => Tracked(p)'
  BY <1>0, <1>02 DEF Watched, Tracked, Marked, Taken, At
<1>1. CASE Dispatch
  <2>1. /\ run.name = "none" /\ run'.pc = run.pc
        /\ UNCHANGED <<d, com, leave, panel>>
    BY <1>1, <1>0 DEF Dispatch, RunType
  <2>2. run.pc = "start"
    BY <2>1 DEF PcInv
  <2> QED
    BY <1>0, <2>1, <2>2 DEF Watched, Tracked, Marked, Taken, At
<1>2. CASE BlitSnapshot
  <2>1. /\ At("blit", "start") /\ UNCHANGED <<com, leave, panel>>
        /\ d'.connected = d.connected /\ d'.idle_active = d.idle_active
        /\ d'.direct = d.direct /\ d'.cleared = d.cleared
        /\ d'.shadow = d.shadow
    BY <1>2, <1>0 DEF BlitSnapshot, DevType
  <2>2. CASE d.rect = {}
    <3>1. run'.name = "none" /\ d'.rect = d.rect
      BY <1>2, <1>0, <2>2 DEF BlitSnapshot, Done, RunType, DevType
    <3> QED
      BY <1>0, <2>1, <3>1 DEF Watched, Tracked, Marked, Taken, At
  <2>3. CASE d.rect # {}
    <3>1. run'.name = "blit" /\ run'.pc = "check" /\ run'.rect = d.rect
      BY <1>2, <1>0, <2>1, <2>3 DEF BlitSnapshot, At, RunType
    <3> QED
      BY <1>0, <2>1, <3>1 DEF Watched, Tracked, Marked, Taken, At
  <2> QED
    BY <2>2, <2>3
<1>3. CASE BlitCheck
  <2>1. /\ At("blit", "check") /\ UNCHANGED <<d, com, leave, panel>>
        /\ ~d.idle_active /\ d.connected =>
              /\ run'.name = "blit" /\ run'.pc = "copy"
              /\ run'.rect = run.rect
    BY <1>3, <1>0 DEF BlitCheck, At, RunType
  <2> QED
    BY <1>0, <2>1 DEF Watched, Tracked, Marked, Taken, At
<1>4. CASE BlitCopy
  <2>1. At("blit", "copy") /\ UNCHANGED <<d, com, leave, panel>>
    BY <1>4 DEF BlitCopy
  <2>2. ASSUME ~Fails
        PROVE  /\ run'.name = "blit" /\ run'.pc = "send"
               /\ run'.rect = run.rect
               /\ p \in run.rect => run'.buf[p] = d.shadow[p]
    <3> DEFINE copy == [x \in Pixel |-> IF x \in run.rect THEN d.shadow[x]
                                    ELSE Black]
    <3>1. run' = [run EXCEPT !.pc = "send", !.buf = copy]
      BY <1>4, <2>2 DEF BlitCopy
    <3>2. p \in run.rect => copy[p] = d.shadow[p]
      OBVIOUS
    <3> HIDE DEF copy
    <3> QED
      BY <1>0, <2>1, <3>1, <3>2 DEF At, RunType
  <2> QED
    BY <1>0, <2>1, <2>2 DEF Watched, Tracked, Marked, Taken, At
<1>5. CASE BlitSend
  <2>1. /\ At("blit", "send") /\ UNCHANGED <<d, com, leave>>
        /\ run'.pc = "start"
    BY <1>5, <1>0 DEF BlitSend, NextRound, RunType
  <2>2. ~Fails => panel'.pixel[p] = IF p \in run.rect THEN run.buf[p]
                                    ELSE panel.pixel[p]
    BY <1>5, <1>0, ShownEffect DEF BlitSend
  <2>3. CASE p \in run.rect
    BY <1>0, <2>1, <2>2, <2>3 DEF Watched, Tracked, Marked, Taken, At
  <2>4. CASE p \notin run.rect
    BY <1>0, <2>1, <2>2, <2>4 DEF Watched, Tracked, Marked, Taken, At
  <2> QED
    BY <2>3, <2>4
<1>6. CASE IdleEnter
  <2>1. At("idle", "start") /\ UNCHANGED <<com, leave, panel>>
    BY <1>6 DEF IdleEnter
  <2>2. CASE d.idle_active
    BY <1>6, <2>2 DEF IdleEnter, Watched
  <2>3. CASE ~d.idle_active
    <3>1. d'.idle_active
      BY <1>6, <1>0, <2>3 DEF IdleEnter, DevType
    <3> QED
      BY <3>1 DEF Watched
  <2> QED
    BY <2>2, <2>3
<1>7. CASE IdleEnterOff
  <2>1. /\ run.name # "blit" /\ run'.name # "blit"
        /\ panel'.pixel = panel.pixel /\ UNCHANGED <<d, com, leave>>
    BY <1>7, <1>0 DEF IdleEnterOff, At, RunType, PanelType
  <2> QED
    BY <1>02, <2>1
<1>8. CASE IdleEnterBlack
  <2>1. /\ At("idle", "black") /\ run'.name = "none"
        /\ UNCHANGED <<d, com, leave>>
    BY <1>8, <1>0 DEF IdleEnterBlack, Done, RunType
  <2>2. Watched => d.rect = Pixel
    BY <2>1 DEF IdleInv, Watched
  <2> QED
    BY <1>0, <2>1, <2>2 DEF Watched, Tracked, Marked, Taken, At
<1>9. CASE ResumeWork
  <2>1. CASE d.idle_active
    <3>1. leave' = [leave EXCEPT !["wq"].pc = "blit",
                                 !["wq"].value = d.backlight]
      BY <1>9, <2>1 DEF ResumeWork
    <3>2. leave'["wq"].pc = "blit"
      BY <1>0, <3>1, EnterEffect DEF Thread
    <3>3. run'.name = "resume"
      BY <1>9, <1>0, <2>1 DEF ResumeWork, At, RunType
    <3> QED
      BY <3>2, <3>3 DEF Tracked, At
  <2>2. CASE ~d.idle_active
    <3>1. /\ run.name # "blit" /\ run'.name # "blit"
          /\ UNCHANGED <<d, com, leave, panel>>
      BY <1>9, <1>0, <2>2 DEF ResumeWork, At, Done, RunType
    <3> QED
      BY <1>02, <3>1
  <2> QED
    BY <2>1, <2>2
<1>10. CASE BlWork
  <2>1. /\ run.name # "blit" /\ run'.name # "blit"
        /\ panel'.pixel = panel.pixel /\ UNCHANGED <<d, com, leave>>
    BY <1>10, <1>0 DEF BlWork, At, Done, RunType, PanelType
  <2> QED
    BY <1>02, <2>1
<1>11. ASSUME NEW t \in {"wq", "com"},
              LeaveBlit(t)
       PROVE  Watched' => Tracked(p)'
  <2>1. leave[t].pc = "blit" /\ UNCHANGED <<d, run, com>>
    BY <1>11 DEF LeaveBlit
  <2>2. CASE t = "wq"
    <3>1. ~Fails => panel'.pixel[p] = d.shadow[p]
      BY <1>11, <1>0, ShownEffect DEF LeaveBlit
    <3>2. run.name = "resume"
      BY <2>1, <2>2 DEF LeaveInv, At
    <3> QED
      BY <1>0, <2>1, <3>1, <3>2 DEF Watched, Tracked, At
  <2>3. CASE t = "com"
    BY <2>1, <2>3 DEF LeaveInv, Watched
  <2> QED
    BY <2>2, <2>3
<1>12. ASSUME NEW t \in {"wq", "com"},
              LeaveLight(t)
       PROVE  Watched' => Tracked(p)'
  <2>1. /\ leave[t].pc = "light" /\ UNCHANGED <<d, run, com>>
        /\ panel'.pixel = panel.pixel
    BY <1>12, <1>0 DEF LeaveLight, PanelType
  <2>2. leave["wq"].pc = "blit" => leave'["wq"].pc = "blit"
    BY <1>12, <1>0 DEF LeaveLight, LeaveType, Thread
  <2> QED
    BY <1>0, <2>1, <2>2 DEF Watched, Tracked, Marked, Taken, At
<1>13. ASSUME NEW t \in {"wq", "com"},
              LeaveTimer(t)
       PROVE  Watched' => Tracked(p)'
  <2>1. leave[t].pc = "timer" /\ UNCHANGED panel
    BY <1>13 DEF LeaveTimer
  <2>2. /\ d'.connected = d.connected /\ d'.idle_active = d.idle_active
        /\ d'.direct = d.direct /\ d'.cleared = d.cleared
        /\ d'.shadow = d.shadow /\ d'.rect = d.rect
    BY <1>13, <1>0, CountdownEffect DEF LeaveTimer
  <2>3. CASE t = "wq"
    <3>1. run.name = "resume" /\ leave["wq"].pc # "blit"
      BY <2>1, <2>3 DEF LeaveInv, At
    <3>2. run'.name = "none" /\ UNCHANGED com
      BY <1>13, <1>0, <2>3 DEF LeaveTimer, Done, RunType
    <3> QED
      BY <1>0, <2>1, <2>2, <3>1, <3>2 DEF Watched, Tracked, Marked, Taken, At
  <2>4. CASE t = "com"
    BY <2>1, <2>2, <2>4 DEF LeaveInv, Watched
  <2> QED
    BY <2>3, <2>4
<1>14. CASE TimerFire
  <2>1. /\ d'.connected = d.connected /\ d'.idle_active = d.idle_active
        /\ d'.direct = d.direct /\ d'.cleared = d.cleared
        /\ d'.shadow = d.shadow /\ d'.rect = d.rect
        /\ UNCHANGED <<run, com, leave, panel>>
    BY <1>14, <1>0 DEF TimerFire, DevType
  <2> QED
    BY <1>01, <2>1
<1>15. ASSUME NEW clip \in SUBSET Pixel, NEW image \in Image,
              Update(clip, image)
       PROVE  Watched' => Tracked(p)'
  <2>1. /\ d'.connected = d.connected /\ d'.idle_active = d.idle_active
        /\ d'.direct = d.direct /\ d'.cleared = d.cleared
        /\ d'.rect = d.rect /\ com.pc = "idle"
        /\ \/ d'.shadow[p] = d.shadow[p]
           \/ com'.pc = "mark" /\ p \in com'.clip
        /\ UNCHANGED <<run, leave, panel>>
    BY <1>15, <1>0, UpdateEffect
  <2> QED
    BY <1>0, <2>1 DEF Watched, Tracked, Marked, Taken, At
<1>16. CASE UpdateMark
  <2>1. /\ d'.connected = d.connected /\ d'.idle_active = d.idle_active
        /\ d'.direct = d.direct /\ d'.cleared = d.cleared
        /\ d.rect \cup com.clip \subseteq d'.rect /\ d'.shadow = d.shadow
        /\ UNCHANGED <<run, leave, panel>>
    BY <1>16, <1>0, MarkEffect
  <2>2. Marked(p) => Marked(p)'
    BY <2>1 DEF Marked
  <2> QED
    BY <1>0, <2>1, <2>2 DEF Watched, Tracked, Taken, At
<1>17. CASE Enable
  <2>1. /\ d'.direct \/ (UNCHANGED d /\ com.pc = "enable")
        /\ leave'["wq"] = leave["wq"] /\ UNCHANGED <<run, panel>>
    BY <1>17, <1>0, EnableEffect
  <2> QED
    BY <1>0, <2>1 DEF Watched, Tracked, Marked, Taken, At
<1>18. CASE EnableClear
  <2>1. /\ \/ d'.rect = Pixel
           \/ /\ d'.rect = d.rect /\ d'.idle_active = d.idle_active
              /\ d'.cleared = d.cleared /\ d'.shadow = d.shadow
        /\ d'.connected = d.connected /\ d'.direct = d.direct
        /\ com.pc = "clear"
        /\ UNCHANGED <<run, leave, panel>>
    BY <1>18, <1>0, ClearEffect
  <2> QED
    BY <1>0, <2>1 DEF Watched, Tracked, Marked, Taken, At
<1>19. CASE Disable
  <2>1. /\ \/ d'.rect = Pixel
           \/ /\ d'.rect = d.rect /\ d'.idle_active = d.idle_active
              /\ d'.shadow = d.shadow
        /\ d'.connected = d.connected /\ d'.direct = d.direct
        /\ d'.cleared = d.cleared /\ com.pc = "idle"
        /\ UNCHANGED <<run, leave, panel>>
    BY <1>19, <1>0, DisableEffect
  <2> QED
    BY <1>0, <2>1 DEF Watched, Tracked, Marked, Taken, At
<1>20. ASSUME NEW v \in Level,
              BlWrite(v)
       PROVE  Watched' => Tracked(p)'
  <2>1. /\ d'.connected = d.connected /\ d'.idle_active = d.idle_active
        /\ d'.direct = d.direct /\ d'.cleared = d.cleared
        /\ d'.shadow = d.shadow /\ d'.rect = d.rect
        /\ UNCHANGED <<run, com, leave, panel>>
    BY <1>20, <1>0 DEF BlWrite, DevType
  <2> QED
    BY <1>01, <2>1
<1>21. CASE PowerOn \/ PowerAuto \/ DelayZero
  <2>1. /\ d'.connected = d.connected /\ d'.idle_active = d.idle_active
        /\ d'.direct = d.direct /\ d'.cleared = d.cleared
        /\ d'.shadow = d.shadow /\ d'.rect = d.rect
        /\ UNCHANGED <<run, com, leave, panel>>
    BY <1>21, <1>0, PowerEffect
  <2> QED
    BY <1>01, <2>1
<1>22. CASE NoblankWrite
  <2>1. /\ d'.connected = d.connected /\ d'.idle_active = d.idle_active
        /\ d'.direct = d.direct /\ d'.cleared = d.cleared
        /\ d'.shadow = d.shadow /\ d'.rect = d.rect
        /\ UNCHANGED <<run, com, leave, panel>>
    BY <1>22, <1>0 DEF NoblankWrite, DevType
  <2> QED
    BY <1>01, <2>1
<1>23. CASE Disconnect
  <2>1. ~d'.connected
    BY <1>23, <1>0 DEF Disconnect, DevType
  <2> QED
    BY <2>1 DEF Watched
<1>24. CASE RemoveCancel
  <2>1. /\ d'.connected = d.connected /\ d'.idle_active = d.idle_active
        /\ d'.direct = d.direct /\ d'.cleared = d.cleared
        /\ d'.shadow = d.shadow /\ d'.rect = d.rect
        /\ UNCHANGED <<run, com, leave, panel>>
    BY <1>24, <1>0, CancelEffect
  <2> QED
    BY <1>01, <2>1
<1>25. CASE RemoveUnplug \/ RemoveFree
  BY <1>25, <1>00 DEF RemoveUnplug, RemoveFree
<1>26. CASE UNCHANGED vars
  BY <1>26, <1>00 DEF vars
<1> QED
  BY <1>1, <1>2, <1>3, <1>4, <1>5, <1>6, <1>7, <1>8, <1>9, <1>10, <1>11,
     <1>12, <1>13, <1>14, <1>15, <1>16, <1>17, <1>18, <1>19, <1>20, <1>21,
     <1>22, <1>23, <1>24, <1>25, <1>26
     DEF Next, Wq, BlitWorker, IdleEntering, Leaving, Committing, Removing

(* ... whichever pixel.                                                    *)
LEMMA ShadowStep ==
    ASSUME Typed, PcInv, LeaveInv, IdleInv, ShadowInv, [Next]_vars
    PROVE  ShadowInv'
<1>1. Pixel' = Pixel
  BY SetupFixed DEF Pixel
<1>2. ASSUME NEW p \in Pixel PROVE Watched' => Tracked(p)'
  <2>1. Watched => Tracked(p)
    BY DEF ShadowInv
  <2> QED
    BY <2>1, TrackedStep
<1> QED
  BY <1>1, <1>2 DEF ShadowInv

-----------------------------------------------------------------------------
(* The theorems.                                                           *)

(* The inductive invariant.                                                *)
Inv ==
    /\ Typed /\ PcInv /\ LeaveInv /\ BoundInv /\ TokenInv /\ IdleInv
    /\ ShadowInv /\ DarkInv /\ BrightInv /\ RemovedInv

(* It holds after probe.                                                   *)
LEMMA InvInit == Init => Inv
<1> SUFFICES ASSUME Init PROVE Inv
  OBVIOUS
<1>1. Typed
  BY TypedInit
<1>2. /\ wq = <<>> /\ run.name = "none" /\ run.pc = "start"
      /\ com.pc = "idle" /\ leave["wq"].pc = "out" /\ leave["com"].pc = "out"
      /\ d.connected /\ ~d.blit_active /\ d.rect = {} /\ ~d.idle_active
      /\ ~d.cleared /\ d.backlight = 1 /\ panel.light = 1 /\ rem = "bound"
  BY DEF Init
<1>3. Len(wq) = 0 /\ \A x : ~Contains(wq, x)
  BY <1>2 DEF Contains
<1>4. PcInv /\ LeaveInv /\ BoundInv /\ TokenInv /\ IdleInv
  BY <1>2, <1>3 DEF PcInv, LeaveInv, BoundInv, TokenInv, IdleInv, At
<1>5. ShadowInv /\ DarkInv /\ RemovedInv
  BY <1>2 DEF ShadowInv, Watched, DarkInv, RemovedInv, CancelInv, Cancelling
<1>6. BrightInv
  BY <1>2, <1>3 DEF BrightInv, LastBl
<1> QED
  BY <1>1, <1>4, <1>5, <1>6 DEF Inv

(* No step breaks it.                                                      *)
LEMMA InvStep ==
    ASSUME Inv, [Next]_vars
    PROVE  Inv'
<1>1. /\ Typed /\ PcInv /\ LeaveInv /\ BoundInv /\ TokenInv /\ IdleInv
      /\ ShadowInv /\ DarkInv /\ BrightInv /\ RemovedInv
  BY DEF Inv
<1>2. Typed' /\ PcInv' /\ LeaveInv' /\ BoundInv'
  BY <1>1, TypedStep, PcStep, LeaveStep, BoundStep
<1>3. TokenInv' /\ IdleInv' /\ ShadowInv'
  BY <1>1, TokenStep, IdleStep, ShadowStep
<1>4. DarkInv' /\ BrightInv' /\ RemovedInv'
  BY <1>1, DarkStep, BrightStep, RemovedStep
<1> QED
  BY <1>2, <1>3, <1>4 DEF Inv

(* It holds always.                                                        *)
LEMMA InvHolds == Spec => []Inv
<1>1. Inv /\ [Next]_vars => Inv'
  BY InvStep
<1> QED
  BY <1>1, InvInit, PTL DEF Spec

(* When all is quiet nothing is dirty, pending or leaving the idle state.  *)
LEMMA QuietProp ==
    ASSUME Inv, Quiet
    PROVE  /\ run.name = "none" /\ com.pc = "idle"
           /\ d.connected /\ ~Fails
           /\ leave["wq"].pc = "out" /\ d.rect = {} /\ NoBl(wq)
<1>1. Len(wq) = 0 /\ \A x : ~Contains(wq, x)
  BY DEF Quiet, Contains
<1>2. NoBl(wq)
  BY <1>1 DEF NoBl
<1>3. leave["wq"].pc = "out" /\ d.rect = {}
  BY <1>1 DEF Inv, Quiet, LeaveInv, At, TokenInv
<1> QED
  BY <1>2, <1>3 DEF Quiet

(* When all is quiet the panel shows the shadow buffer: no damage is lost  *)
(* by merging rectangles, by the unlocked copy, by frames dropped during   *)
(* the idle time or by a blank that ends it.                               *)
THEOREM CatchesUpTheorem == Spec => []PanelCatchesUp
<1>1. Inv => PanelCatchesUp
  <2> SUFFICES ASSUME Inv, Quiet, d.cleared, ~d.idle_active, ~d.direct
               PROVE  panel.pixel = d.shadow
    BY DEF PanelCatchesUp
  <2>1. ShadowInv /\ Watched
    BY QuietProp DEF Inv, Watched
  <2>2. ASSUME NEW p \in Pixel PROVE panel.pixel[p] = d.shadow[p]
    <3>1. Tracked(p)
      BY <2>1 DEF ShadowInv
    <3> QED
      BY <3>1, QuietProp DEF Tracked, Marked, Taken
  <2>3. /\ panel.pixel \in [Pixel -> Colour \cup {Demo}]
        /\ d.shadow \in [Pixel -> Colour]
    BY DEF Inv, Typed, PanelType, DevType, Image
  <2> QED
    BY <2>2, <2>3
<1> QED
  BY <1>1, InvHolds, PTL

(* When all is quiet an idle panel is dark and black.                      *)
THEOREM DarkTheorem == Spec => []IdleIsDark
<1>1. Inv => IdleIsDark
  BY QuietProp DEF Inv, DarkInv, IdleIsDark, At
<1> QED
  BY <1>1, InvHolds, PTL

(* When all is quiet a panel that is not blanked has the level written     *)
(* last, be it written during the idle time.                               *)
THEOREM BrightTheorem == Spec => []BrightnessKept
<1>1. Inv => BrightnessKept
  BY QuietProp DEF Inv, BrightInv, BrightnessKept
<1> QED
  BY <1>1, InvHolds, PTL

(* No work and no timer of the DRM child outlives the shadow buffer,       *)
(* unless a frame or a power write came after the removal had deleted the  *)
(* timer; the countdown alone may, when the resume work that the removal   *)
(* waits for started it again.                                             *)
THEOREM QuietTheorem == Spec => []FreedMeansQuiet
<1>1. Inv => FreedMeansQuiet
  <2> SUFFICES ASSUME Inv, rem = "freed", ~d.late,
                      NEW name \in Remaining,
                      name \in {"blit", "idle", "resume", "timer"}
               PROVE  d.rearmed /\ name \in {"idle", "timer"}
    BY DEF FreedMeansQuiet
  <2>1. /\ d.timer \/ Active("idle") => d.rearmed
        /\ ~Active("resume") /\ ~Active("blit") /\ wq \in Queues
    BY DEF Inv, RemovedInv, CancelInv, Typed
  <2>2. ASSUME NEW i \in DOMAIN wq, wq[i].name # "bl"
        PROVE  Active(wq[i].name) /\ wq[i].name \in WorkName
    <3>1. i \in 1..Len(wq) /\ wq[i] \in WorkType
      BY <2>1, QueueType
    <3>2. wq[i] = Work(wq[i].name, 0) /\ wq[i].name \in WorkName
      BY <2>2, <3>1, WorkProp
    <3>3. Contains(wq, wq[i])
      BY <3>1 DEF Contains
    <3> QED
      BY <3>2, <3>3 DEF Active
  <2>3. CASE \E i \in DOMAIN wq : name = wq[i].name
    <3>1. PICK i \in DOMAIN wq : name = wq[i].name
      BY <2>3
    <3>2. name # "bl"
      OBVIOUS
    <3>3. Active(name) /\ name \in WorkName
      BY <2>2, <3>1, <3>2
    <3> QED
      BY <2>1, <3>3 DEF WorkName
  <2>4. CASE name = run.name
    <3>1. Active(name) /\ name # "timer"
      BY <2>4 DEF Active, Inv, Typed, RunType
    <3> QED
      BY <2>1, <3>1
  <2>5. CASE d.timer /\ name = "timer"
    BY <2>1, <2>5
  <2> QED
    BY <2>3, <2>4, <2>5 DEF Remaining
<1> QED
  BY <1>1, InvHolds, PTL
=============================================================================
