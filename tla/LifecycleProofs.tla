-------------------------- MODULE LifecycleProofs --------------------------
(***************************************************************************)
(* Proofs about Lifecycle, for every set of setups, and every bound on the *)
(* probes and the calls.                                                   *)
(*                                                                         *)
(* The inductive invariant Inv has three parts.  What a part holds it took *)
(* in the order of its probe function, and with a resource whatever the    *)
(* entry points need that comes before it (OrderInv).  Until a probe ends  *)
(* it holds what its steps so far took (ProbingInv), and from then on what *)
(* it holds is on its list or left to devres (RemovingInv), so nothing     *)
(* leaks (LeakInv).  A call came through an entry point that is still held *)
(* (CallsInv), so that what it uses is held too; WindowInv is about what   *)
(* goes too early, and is there outside of the windows.  Each probe and    *)
(* remove function is shown to be Sound, and each entry point to use only  *)
(* what comes before it (UseOK), from its list of steps; the steps of the  *)
(* specification are then treated for all of them at once.                 *)
(***************************************************************************)
EXTENDS Lifecycle, SequenceTheorems, FiniteSetTheorems, TLAPS

(* The parts that the driver has.                                          *)
Known == IF setup.driver = "mpro" THEN Part ELSE Part \ {"ts"}

Resource == Part \X Name
StepType == [gets : Name \cup {"none"}, fails : {"never", "abort", "warn", "orphan"},
             undo : Seq(Name)]

(* What the i-th step of p's probe function takes, and whether it takes m  *)
(* before n.                                                               *)
G(p, i) == ProbeOf(p)[i].gets
Before(p, m, n) ==
    \E a, b \in DOMAIN ProbeOf(p) :
        a < b /\ m = G(p, a) /\ n = G(p, b) /\ m # "none" /\ n # "none"

(* The memory that lz4_level_store takes is not in a probe function.       *)
Stored(p, n) == p = "usb" /\ n = "lz4" /\ setup.lz4 = "store"

(* p has n from one of its first k steps, or from the store.               *)
Taken(p, k, n) == n # "none" /\ (Stored(p, n) \/ \E a \in 1..k : n = G(p, a))

(* What entry points use.                                                  *)
Solid(p) ==
    CASE p = "usb" -> {"mem", "wq", "touch", "bufs", "frame_buf", "lz4"}
      [] p = "drm" -> {"mem", "drvdata", "data", "kms_objects"}
      [] p = "ts"  -> {"mem", "input_dev", "input"}
      [] p = "bl"  -> {"mem", "drvdata", "class"}

(* What some entry point finds missing in one of the windows.              *)
TooEarly ==
    {<<"drm", "conv_state">>, <<"usb", "drvdata">>}
        \cup (IF setup.lz4 = "store" THEN {Lz4} ELSE {})

(* A list of resources to give back has ax206's workqueue, after the       *)
(* children if there are any, and nothing else that entry points use.      *)
Careful(p, rs) ==
    \A i \in DOMAIN rs :
        rs[i][2] \in Solid(rs[i][1]) =>
            /\ rs[i] = <<"usb", "wq">> /\ p = "usb" /\ setup.driver = "ax206"
            /\ "children" \in ToSet(held["usb"]) =>
                   \E j \in DOMAIN rs : j < i /\ rs[j] = <<"usb", "children">>

-----------------------------------------------------------------------------
(* The steps done so far are those before todo; what they took is held.    *)
Steps(p) == Len(ProbeOf(p)) - Len(todo[p])
ProbingInv(p) ==
    phase[p] = "probing" =>
        /\ todo[p] \in Seq(StepType) /\ Steps(p) \in Nat
        /\ \A i \in DOMAIN todo[p] : todo[p][i] = ProbeOf(p)[Steps(p) + i]
        /\ \A n \in ToSet(held[p]) : Taken(p, Steps(p), n)
        /\ \A a \in 1..Steps(p) : G(p, a) \in Solid(p) => G(p, a) \in ToSet(held[p])

(* Whatever devres does not give back is on the list.                      *)
RemovingInv(p) ==
    phase[p] = "removing" =>
        /\ todo[p] \in Seq(Resource) /\ Careful(p, todo[p])
        /\ \A n \in ToSet(held[p]) : n \in Managed(p) \cup {"drvdata"}
                                       \/ <<p, n>> \in ToSet(todo[p])

(* Resources are held in the order in which the probe function takes them, *)
(* and with one of them those which it needs.                              *)
OrderInv(p) ==
    /\ IsInjective(held[p])
    /\ \A n \in ToSet(held[p]) : Taken(p, Len(ProbeOf(p)), n)
    /\ \A i, j \in DOMAIN held[p] : i < j => ~Before(p, held[p][j], held[p][i])
    /\ \A m \in Solid(p), n \in ToSet(held[p]) :
           n # "drvdata" /\ Before(p, m, n) => m \in ToSet(held[p])

LeakInv(p) ==
    /\ phase[p] \in {"absent", "unbound"} => held[p] = <<>>
    /\ phase[p] \in {"absent", "unbound", "bound"} => todo[p] = <<>>
    /\ p \notin Known => phase[p] \in {"absent", "unbound"}
    /\ p # "usb" /\ phase[p] # "absent" => "children" \in ToSet(held["usb"])

(* A call came through an entry point that is still there, and uses what   *)
(* the entry point needs, the compressor's memory if it sends a frame and  *)
(* the card if it reports a touch.                                         *)
MoreOK(u, more) ==
    /\ more \subseteq {Lz4, Mdrm}
    /\ Lz4 \in more => setup.lz4 # "none" /\ <<"usb", "wq">> \in u.uses
    /\ Mdrm \in more => u.entry = <<"ts", "touch_listener">>
CallOK(c) ==
    /\ Has(c.entry)
    /\ \E u \in Uses, more \in SUBSET {Lz4, Mdrm} :
          c.entry = u.entry /\ c.uses = u.uses \cup more /\ MoreOK(u, more)

PartInv(p) == /\ LeakInv(p)
              /\ p \in Known => ProbingInv(p) /\ RemovingInv(p) /\ OrderInv(p)

Typed ==
    /\ setup \in Setups
    /\ phase \in [Part -> Phase] /\ phase["usb"] # "absent"
    /\ todo = [p \in Part |-> todo[p]]
    /\ held \in [Part -> Seq(Name)]
    /\ binds \in [Part -> 0 .. MaxBinds]

CallsInv ==
    /\ IsFiniteSet(calls) /\ Cardinality(calls) \in 0 .. MaxCalls
    /\ \A c \in calls : CallOK(c)

Good == Typed /\ \A p \in Part : PartInv(p)
Inv == Good /\ CallsInv

-----------------------------------------------------------------------------
(* What the probe and remove functions have in common.                     *)

(* A step that may end the probe gives back, with devres, what the steps   *)
(* before it took.                                                         *)
Covered(p) ==
    \A a, b \in DOMAIN ProbeOf(p) :
        a < b /\ ProbeOf(p)[b].fails \in {"abort", "orphan"} =>
            G(p, a) \in Managed(p) \cup {"drvdata", "none"}
                          \cup ToSet(ProbeOf(p)[b].undo)

(* The remove function gives back, with devres, what the probe took.       *)
Complete(p) ==
    \A a \in DOMAIN ProbeOf(p) :
        \/ G(p, a) \in Managed(p) \cup {"drvdata", "none"}
        \/ \E i \in DOMAIN RemoveOf(p) : RemoveOf(p)[i] = <<p, G(p, a)>>

(* The children are the last that the USB driver takes, ax206's workqueue  *)
(* the last before them, and the LZ4 memory depends on the parameter.      *)
LastIsChildren(p) ==
    \A a \in DOMAIN ProbeOf(p) :
        /\ G(p, a) = "children" =>
               p = "usb" /\ \A b \in DOMAIN ProbeOf(p) : a < b => G(p, b) = "none"
        /\ G(p, a) = "lz4" => p = "usb" /\ setup.lz4 = "boot"
        /\ p = "usb" /\ setup.driver = "ax206" /\ G(p, a) = "wq" =>
               \A b \in DOMAIN ProbeOf(p) : a < b => G(p, b) \in {"children", "none"}

Sound(p) ==
    /\ ProbeOf(p) \in Seq(StepType)
    /\ \A a, b \in DOMAIN ProbeOf(p) :
           G(p, a) = G(p, b) => a = b \/ G(p, a) = "none"
    /\ Covered(p) /\ Complete(p) /\ LastIsChildren(p)
    /\ \A a \in DOMAIN ProbeOf(p) :
           G(p, a) \in Solid(p) => ProbeOf(p)[a].fails # "warn"
    /\ \A a \in DOMAIN ProbeOf(p) : Careful(p, Of(p, ProbeOf(p)[a].undo))
    /\ RemoveOf(p) \in Seq(Resource) /\ Careful(p, RemoveOf(p))

(* Short tuples are sequences.                                             *)
LEMMA ShortSeqs ==
    ASSUME NEW S, NEW x \in S, NEW y \in S, NEW z \in S
    PROVE  <<>> \in Seq(S) /\ <<x>> \in Seq(S) /\ <<x, y>> \in Seq(S)
           /\ <<x, y, z>> \in Seq(S)
OBVIOUS

LEMMA NameSeqs ==
    \A x, y \in Name : /\ <<>> \in Seq(Name) /\ <<x>> \in Seq(Name)
                       /\ <<x, y>> \in Seq(Name)
BY ShortSeqs, Zenon

LEMMA StepTypes ==
    \A r \in Name \cup {"none"} :
        /\ Set(r) \in StepType /\ Must(r) \in StepType /\ Try(r) \in StepType
        /\ \A u \in Seq(Name) : MustOr(r, u) \in StepType
<1>1. \A g \in Name \cup {"none"}, f \in {"never", "abort", "warn", "orphan"},
         v \in Seq(Name) : Step(g, f, v) \in StepType
  BY Zenon DEF Step, StepType
<1>2. <<>> \in Seq(Name)
  BY EmptySeq, Zenon
<1> QED
  BY <1>1, <1>2, Zenon DEF Set, Must, MustOr, Try

LEMMA ParentType == Parent \in StepType
BY NameSeqs, Zenon DEF Parent, Step, StepType, Name

(* A list of names of a part is a list of resources.                       *)
LEMMA Resources ==
    ASSUME NEW p \in Part, NEW s \in Seq(Name)
    PROVE  Of(p, s) \in Seq(Resource) /\ Len(Of(p, s)) = Len(s)
BY DEF Of, Resource

(* mpro: the USB driver.                                                   *)
LEMMA Sound_mpro_usb_probe ==
    ASSUME setup \in Setups, setup.driver = "mpro"
    PROVE  Sound("usb")
<1> DEFINE P == ProbeOf("usb")
<1>p. P = mpro_usb_probe
  BY DEF ProbeOf
<1>r. RemoveOf("usb") = mpro_usb_disconnect
  BY DEF RemoveOf
<1>1. P \in Seq(StepType)
  <2>u. <<"children", "drvdata">> \in Seq(Name)
    BY NameSeqs DEF Name
  <2>1. /\ Must("mem") \in StepType /\ Must("dma_dev") \in StepType
        /\ Check \in StepType /\ mpro_setup_lz4 \in StepType
        /\ Must("wq") \in StepType /\ Must("touch") \in StepType
        /\ Must("sysfs") \in StepType /\ Set("drvdata") \in StepType
        /\ Set("children") \in StepType
        /\ MustOr("none", <<"children", "drvdata">>) \in StepType
    <3>1. \A n \in {"mem", "dma_dev", "wq", "touch", "sysfs", "drvdata", "children",
              "none", "lz4"} : n \in Name \cup {"none"}
      BY DEF Name
    <3> QED
      BY <3>1, StepTypes, ParentType, <2>u, Zenon DEF Check, mpro_setup_lz4
  <2>2. mpro_usb_probe \in Seq(StepType)
    BY <2>1 DEF mpro_usb_probe
  <2> QED
    BY <1>p, <2>2, Zenon
<1>2. \A a, b \in DOMAIN P : G("usb", a) = G("usb", b) =>
          a = b \/ G("usb", a) = "none"
  BY <1>p DEF G, mpro_usb_probe, mpro_setup_lz4, Step, Set, Must, MustOr, Try, Check,
     Parent
<1>3. Covered("usb")
  BY <1>p DEF Covered, ToSet, Managed, G, mpro_usb_probe, mpro_setup_lz4,
              Step, Set, Must, MustOr, Try, Check, Parent
<1>4. Complete("usb")
  BY <1>p, <1>r DEF Complete, Managed, G, mpro_usb_probe, mpro_setup_lz4,
              Step, Set, Must, MustOr, Try, Check, Parent, mpro_usb_disconnect, Of
<1>5. LastIsChildren("usb")
  BY <1>p DEF LastIsChildren, G, mpro_usb_probe, mpro_setup_lz4,
              Step, Set, Must, MustOr, Try, Check, Parent
<1>6. \A a \in DOMAIN P : G("usb", a) \in Solid("usb") => P[a].fails # "warn"
  BY <1>p DEF Solid, G, mpro_usb_probe, mpro_setup_lz4, Step, Set, Must, MustOr, Try,
     Check, Parent
<1>7. \A a \in DOMAIN P : Careful("usb", Of("usb", P[a].undo))
  <2>1. \A a \in DOMAIN mpro_usb_probe : mpro_usb_probe[a].undo \in {<<>>,
            <<"children", "drvdata">>}
    BY SMTT(60) DEF mpro_usb_probe, mpro_setup_lz4, Step, Set, Must, MustOr, Try,
       Check, Parent
  <2>2. Of("usb", <<>>) = <<>> /\ Of("usb", <<"children", "drvdata">>) = <<<<"usb",
            "children">>, <<"usb", "drvdata">>>>
    BY DEF Of
  <2>3. Careful("usb", <<>>) /\ Careful("usb", <<<<"usb", "children">>, <<"usb",
            "drvdata">>>>)
    BY DEF Careful, Solid
  <2> QED
    BY <1>p, <2>1, <2>2, <2>3
<1>8. RemoveOf("usb") \in Seq(Resource)
  <2>1. /\ <<"drm", "card">> \in Resource /\ <<"drm", "published">> \in Resource
        /\ <<"usb", "drvdata">> \in Resource
    BY DEF Resource, Part, Children, Name
  <2> QED
    BY <1>r, <2>1, ShortSeqs DEF mpro_usb_disconnect
<1>9. Careful("usb", RemoveOf("usb"))
  BY <1>r DEF Careful, Solid, mpro_usb_disconnect, Of
<1> QED
  BY <1>1, <1>2, <1>3, <1>4, <1>5, <1>6, <1>7, <1>8, <1>9, Zenon DEF Sound

(* mpro: the DRM child.                                                    *)
LEMMA Sound_mpro_drm__probe ==
    ASSUME setup \in Setups, setup.driver = "mpro"
    PROVE  Sound("drm")
<1> DEFINE P == ProbeOf("drm")
<1>p. P = mpro_drm__probe
  BY DEF ProbeOf
<1>r. RemoveOf("drm") = mpro_drm__remove
  BY DEF RemoveOf
<1>1. P \in Seq(StepType)
  <2>u. <<"conv_state">> \in Seq(Name)
    BY NameSeqs DEF Name
  <2>1. /\ Parent \in StepType /\ Must("mem") \in StepType
        /\ Set("drvdata") \in StepType /\ Must("kms") \in StepType
        /\ Must("data") \in StepType /\ Must("kms_objects") \in StepType
        /\ Try("vblank") \in StepType /\ Set("conv_state") \in StepType
        /\ MustOr("card", <<"conv_state">>) \in StepType
        /\ Set("modeset") \in StepType /\ Set("listener") \in StepType
        /\ Try("sysfs") \in StepType /\ Set("published") \in StepType
    <3>1. \A n \in {"mem", "drvdata", "kms", "data", "kms_objects", "vblank",
              "conv_state", "card", "modeset", "listener", "sysfs", "published",
              "none"} : n \in Name \cup {"none"}
      BY DEF Name
    <3> QED
      BY <3>1, StepTypes, ParentType, <2>u, Zenon DEF Check
  <2>2. mpro_drm__probe \in Seq(StepType)
    BY <2>1 DEF mpro_drm__probe
  <2> QED
    BY <1>p, <2>2, Zenon
<1>2. \A a, b \in DOMAIN P : G("drm", a) = G("drm", b) =>
          a = b \/ G("drm", a) = "none"
  BY <1>p DEF G, mpro_drm__probe, Step, Set, Must, MustOr, Try, Check, Parent
<1>3. Covered("drm")
  BY <1>p DEF Covered, ToSet, Managed, G, mpro_drm__probe,
              Step, Set, Must, MustOr, Try, Check, Parent
<1>4. Complete("drm")
  BY <1>p, <1>r DEF Complete, Managed, G, mpro_drm__probe,
              Step, Set, Must, MustOr, Try, Check, Parent, mpro_drm__remove, Of
<1>5. LastIsChildren("drm")
  BY <1>p DEF LastIsChildren, G, mpro_drm__probe,
              Step, Set, Must, MustOr, Try, Check, Parent
<1>6. \A a \in DOMAIN P : G("drm", a) \in Solid("drm") => P[a].fails # "warn"
  BY <1>p DEF Solid, G, mpro_drm__probe, Step, Set, Must, MustOr, Try, Check, Parent
<1>7. \A a \in DOMAIN P : Careful("drm", Of("drm", P[a].undo))
  <2>1. \A a \in DOMAIN mpro_drm__probe : mpro_drm__probe[a].undo \in {<<>>,
            <<"conv_state">>}
    BY SMTT(60) DEF mpro_drm__probe, Step, Set, Must, MustOr, Try, Check, Parent
  <2>2. Of("drm", <<>>) = <<>> /\ Of("drm", <<"conv_state">>) = <<<<"drm",
            "conv_state">>>>
    BY DEF Of
  <2>3. Careful("drm", <<>>) /\ Careful("drm", <<<<"drm", "conv_state">>>>)
    BY DEF Careful, Solid
  <2> QED
    BY <1>p, <2>1, <2>2, <2>3
<1>8. RemoveOf("drm") \in Seq(Resource)
  <2>1. /\ "sysfs" \in Name /\ "listener" \in Name /\ "published" \in Name
        /\ "conv_state" \in Name /\ "card" \in Name /\ "modeset" \in Name
    BY DEF Name
  <2>2. <<"sysfs", "listener", "published", "conv_state", "card",
            "modeset">> \in Seq(Name)
    BY <2>1
  <2> QED
    BY <1>r, <2>2, Resources DEF Part, Children, mpro_drm__remove
<1>9. Careful("drm", RemoveOf("drm"))
  BY <1>r DEF Careful, Solid, mpro_drm__remove, Of
<1> QED
  BY <1>1, <1>2, <1>3, <1>4, <1>5, <1>6, <1>7, <1>8, <1>9, Zenon DEF Sound

(* mpro: the touchscreen child.                                            *)
LEMMA Sound_mpro_ts__probe ==
    ASSUME setup \in Setups, setup.driver = "mpro"
    PROVE  Sound("ts")
<1> DEFINE P == ProbeOf("ts")
<1>p. P = mpro_ts__probe
  BY DEF ProbeOf
<1>r. RemoveOf("ts") = mpro_ts__remove
  BY DEF RemoveOf
<1>1. P \in Seq(StepType)
  <2>1. /\ Parent \in StepType /\ Must("mem") \in StepType
        /\ Must("input_dev") \in StepType /\ Must("input") \in StepType
        /\ Set("listener") \in StepType /\ Set("touch_listener") \in StepType
        /\ Set("drvdata") \in StepType
    <3>1. \A n \in {"mem", "input_dev", "input", "listener", "touch_listener",
              "drvdata", "none"} : n \in Name \cup {"none"}
      BY DEF Name
    <3> QED
      BY <3>1, StepTypes, ParentType, Zenon DEF Check
  <2>2. mpro_ts__probe \in Seq(StepType)
    BY <2>1 DEF mpro_ts__probe
  <2> QED
    BY <1>p, <2>2, Zenon
<1>2. \A a, b \in DOMAIN P : G("ts", a) = G("ts", b) =>
          a = b \/ G("ts", a) = "none"
  BY <1>p DEF G, mpro_ts__probe, Step, Set, Must, MustOr, Try, Check, Parent
<1>3. Covered("ts")
  BY <1>p DEF Covered, ToSet, Managed, G, mpro_ts__probe,
              Step, Set, Must, MustOr, Try, Check, Parent
<1>4. Complete("ts")
  BY <1>p, <1>r DEF Complete, Managed, G, mpro_ts__probe,
              Step, Set, Must, MustOr, Try, Check, Parent, mpro_ts__remove, Of
<1>5. LastIsChildren("ts")
  BY <1>p DEF LastIsChildren, G, mpro_ts__probe,
              Step, Set, Must, MustOr, Try, Check, Parent
<1>6. \A a \in DOMAIN P : G("ts", a) \in Solid("ts") => P[a].fails # "warn"
  BY <1>p DEF Solid, G, mpro_ts__probe, Step, Set, Must, MustOr, Try, Check, Parent
<1>7. \A a \in DOMAIN P : Careful("ts", Of("ts", P[a].undo))
  BY <1>p DEF Careful, Of, Solid, mpro_ts__probe, Step, Set, Must, MustOr, Try, Check,
     Parent
<1>8. RemoveOf("ts") \in Seq(Resource)
  <2>1. /\ "touch_listener" \in Name /\ "listener" \in Name
    BY DEF Name
  <2>2. <<"touch_listener", "listener">> \in Seq(Name)
    BY <2>1
  <2> QED
    BY <1>r, <2>2, Resources DEF Part, Children, mpro_ts__remove
<1>9. Careful("ts", RemoveOf("ts"))
  BY <1>r DEF Careful, Solid, mpro_ts__remove, Of
<1> QED
  BY <1>1, <1>2, <1>3, <1>4, <1>5, <1>6, <1>7, <1>8, <1>9, Zenon DEF Sound

(* mpro: the backlight child.                                              *)
LEMMA Sound_mpro_bl__probe ==
    ASSUME setup \in Setups, setup.driver = "mpro"
    PROVE  Sound("bl")
<1> DEFINE P == ProbeOf("bl")
<1>p. P = mpro_bl__probe
  BY DEF ProbeOf
<1>r. RemoveOf("bl") = mpro_bl__remove
  BY DEF RemoveOf
<1>1. P \in Seq(StepType)
  <2>u. <<"listener">> \in Seq(Name)
    BY NameSeqs DEF Name
  <2>1. /\ Parent \in StepType /\ Must("mem") \in StepType
        /\ Must("class") \in StepType /\ Set("drvdata") \in StepType
        /\ Set("listener") \in StepType
        /\ MustOr("sysfs", <<"listener">>) \in StepType
    <3>1. \A n \in {"mem", "class", "drvdata", "listener", "sysfs", "none"} :
              n \in Name \cup {"none"}
      BY DEF Name
    <3> QED
      BY <3>1, StepTypes, ParentType, <2>u, Zenon DEF Check
  <2>2. mpro_bl__probe \in Seq(StepType)
    BY <2>1 DEF mpro_bl__probe
  <2> QED
    BY <1>p, <2>2, Zenon
<1>2. \A a, b \in DOMAIN P : G("bl", a) = G("bl", b) =>
          a = b \/ G("bl", a) = "none"
  BY <1>p DEF G, mpro_bl__probe, Step, Set, Must, MustOr, Try, Check, Parent
<1>3. Covered("bl")
  BY <1>p DEF Covered, ToSet, Managed, G, mpro_bl__probe,
              Step, Set, Must, MustOr, Try, Check, Parent
<1>4. Complete("bl")
  BY <1>p, <1>r DEF Complete, Managed, G, mpro_bl__probe,
              Step, Set, Must, MustOr, Try, Check, Parent, mpro_bl__remove, Of
<1>5. LastIsChildren("bl")
  BY <1>p DEF LastIsChildren, G, mpro_bl__probe,
              Step, Set, Must, MustOr, Try, Check, Parent
<1>6. \A a \in DOMAIN P : G("bl", a) \in Solid("bl") => P[a].fails # "warn"
  BY <1>p DEF Solid, G, mpro_bl__probe, Step, Set, Must, MustOr, Try, Check, Parent
<1>7. \A a \in DOMAIN P : Careful("bl", Of("bl", P[a].undo))
  <2>1. \A a \in DOMAIN mpro_bl__probe : mpro_bl__probe[a].undo \in {<<>>,
            <<"listener">>}
    BY SMTT(60) DEF mpro_bl__probe, Step, Set, Must, MustOr, Try, Check, Parent
  <2>2. Of("bl", <<>>) = <<>> /\ Of("bl", <<"listener">>) = <<<<"bl", "listener">>>>
    BY DEF Of
  <2>3. Careful("bl", <<>>) /\ Careful("bl", <<<<"bl", "listener">>>>)
    BY DEF Careful, Solid
  <2> QED
    BY <1>p, <2>1, <2>2, <2>3
<1>8. RemoveOf("bl") \in Seq(Resource)
  <2>1. /\ "sysfs" \in Name /\ "listener" \in Name
    BY DEF Name
  <2>2. <<"sysfs", "listener">> \in Seq(Name)
    BY <2>1
  <2> QED
    BY <1>r, <2>2, Resources DEF Part, Children, mpro_bl__remove
<1>9. Careful("bl", RemoveOf("bl"))
  BY <1>r DEF Careful, Solid, mpro_bl__remove, Of
<1> QED
  BY <1>1, <1>2, <1>3, <1>4, <1>5, <1>6, <1>7, <1>8, <1>9, Zenon DEF Sound

(* beada: the USB driver.                                                  *)
LEMMA Sound_beada_probe ==
    ASSUME setup \in Setups, setup.driver = "beada"
    PROVE  Sound("usb")
<1> DEFINE P == ProbeOf("usb")
<1>p. P = beada_probe
  BY DEF ProbeOf
<1>r. RemoveOf("usb") = beada_disconnect
  BY DEF RemoveOf
<1>1. P \in Seq(StepType)
  <2>u. <<"children">> \in Seq(Name)
    BY NameSeqs DEF Name
  <2>1. /\ Check \in StepType /\ Must("mem") \in StepType
        /\ Must("bufs") \in StepType /\ Must("frame_buf") \in StepType
        /\ Must("wq") \in StepType /\ Try("sysfs") \in StepType
        /\ Set("drvdata") \in StepType /\ Set("children") \in StepType
        /\ MustOr("none", <<"children">>) \in StepType
    <3>1. \A n \in {"mem", "bufs", "frame_buf", "wq", "sysfs", "drvdata", "children",
              "none"} : n \in Name \cup {"none"}
      BY DEF Name
    <3> QED
      BY <3>1, StepTypes, ParentType, <2>u, Zenon DEF Check
  <2>2. beada_probe \in Seq(StepType)
    BY <2>1 DEF beada_probe
  <2> QED
    BY <1>p, <2>2, Zenon
<1>2. \A a, b \in DOMAIN P : G("usb", a) = G("usb", b) =>
          a = b \/ G("usb", a) = "none"
  BY <1>p DEF G, beada_probe, Step, Set, Must, MustOr, Try, Check, Parent
<1>3. Covered("usb")
  BY <1>p DEF Covered, ToSet, Managed, G, beada_probe,
              Step, Set, Must, MustOr, Try, Check, Parent
<1>4. Complete("usb")
  BY <1>p, <1>r DEF Complete, Managed, G, beada_probe,
              Step, Set, Must, MustOr, Try, Check, Parent, beada_disconnect, Of
<1>5. LastIsChildren("usb")
  BY <1>p DEF LastIsChildren, G, beada_probe,
              Step, Set, Must, MustOr, Try, Check, Parent
<1>6. \A a \in DOMAIN P : G("usb", a) \in Solid("usb") => P[a].fails # "warn"
  BY <1>p DEF Solid, G, beada_probe, Step, Set, Must, MustOr, Try, Check, Parent
<1>7. \A a \in DOMAIN P : Careful("usb", Of("usb", P[a].undo))
  <2>1. \A a \in DOMAIN beada_probe : beada_probe[a].undo \in {<<>>, <<"children">>}
    BY SMTT(60) DEF beada_probe, Step, Set, Must, MustOr, Try, Check, Parent
  <2>2. Of("usb", <<>>) = <<>> /\ Of("usb", <<"children">>) = <<<<"usb", "children">>>>
    BY DEF Of
  <2>3. Careful("usb", <<>>) /\ Careful("usb", <<<<"usb", "children">>>>)
    BY DEF Careful, Solid
  <2> QED
    BY <1>p, <2>1, <2>2, <2>3
<1>8. RemoveOf("usb") \in Seq(Resource)
  BY <1>r, EmptySeq DEF beada_disconnect
<1>9. Careful("usb", RemoveOf("usb"))
  BY <1>r DEF Careful, Solid, beada_disconnect, Of
<1> QED
  BY <1>1, <1>2, <1>3, <1>4, <1>5, <1>6, <1>7, <1>8, <1>9, Zenon DEF Sound

(* beada: the DRM child.                                                   *)
LEMMA Sound_beada_drm_probe ==
    ASSUME setup \in Setups, setup.driver = "beada"
    PROVE  Sound("drm")
<1> DEFINE P == ProbeOf("drm")
<1>p. P = beada_drm_probe
  BY DEF ProbeOf
<1>r. RemoveOf("drm") = beada_drm_remove
  BY DEF RemoveOf
<1>1. P \in Seq(StepType)
  <2>u. <<"listener">> \in Seq(Name)
    BY NameSeqs DEF Name
  <2>1. /\ Parent \in StepType /\ Must("mem") \in StepType
        /\ Set("drvdata") \in StepType /\ Must("data") \in StepType
        /\ Must("kms") \in StepType /\ Must("kms_objects") \in StepType
        /\ Set("listener") \in StepType
        /\ MustOr("card", <<"listener">>) \in StepType
        /\ Set("modeset") \in StepType /\ Try("sysfs") \in StepType
    <3>1. \A n \in {"mem", "drvdata", "data", "kms", "kms_objects", "listener", "card",
              "modeset", "sysfs", "none"} : n \in Name \cup {"none"}
      BY DEF Name
    <3> QED
      BY <3>1, StepTypes, ParentType, <2>u, Zenon DEF Check
  <2>2. beada_drm_probe \in Seq(StepType)
    BY <2>1 DEF beada_drm_probe
  <2> QED
    BY <1>p, <2>2, Zenon
<1>2. \A a, b \in DOMAIN P : G("drm", a) = G("drm", b) =>
          a = b \/ G("drm", a) = "none"
  BY <1>p DEF G, beada_drm_probe, Step, Set, Must, MustOr, Try, Check, Parent
<1>3. Covered("drm")
  BY <1>p DEF Covered, ToSet, Managed, G, beada_drm_probe,
              Step, Set, Must, MustOr, Try, Check, Parent
<1>4. Complete("drm")
  BY <1>p, <1>r DEF Complete, Managed, G, beada_drm_probe,
              Step, Set, Must, MustOr, Try, Check, Parent, beada_drm_remove, Of
<1>5. LastIsChildren("drm")
  BY <1>p DEF LastIsChildren, G, beada_drm_probe,
              Step, Set, Must, MustOr, Try, Check, Parent
<1>6. \A a \in DOMAIN P : G("drm", a) \in Solid("drm") => P[a].fails # "warn"
  BY <1>p DEF Solid, G, beada_drm_probe, Step, Set, Must, MustOr, Try, Check, Parent
<1>7. \A a \in DOMAIN P : Careful("drm", Of("drm", P[a].undo))
  <2>1. \A a \in DOMAIN beada_drm_probe : beada_drm_probe[a].undo \in {<<>>,
            <<"listener">>}
    BY SMTT(60) DEF beada_drm_probe, Step, Set, Must, MustOr, Try, Check, Parent
  <2>2. Of("drm", <<>>) = <<>> /\ Of("drm", <<"listener">>) = <<<<"drm", "listener">>>>
    BY DEF Of
  <2>3. Careful("drm", <<>>) /\ Careful("drm", <<<<"drm", "listener">>>>)
    BY DEF Careful, Solid
  <2> QED
    BY <1>p, <2>1, <2>2, <2>3
<1>8. RemoveOf("drm") \in Seq(Resource)
  <2>1. /\ "listener" \in Name /\ "sysfs" \in Name /\ "card" \in Name
        /\ "modeset" \in Name
    BY DEF Name
  <2>2. <<"listener", "sysfs", "card", "modeset">> \in Seq(Name)
    BY <2>1
  <2> QED
    BY <1>r, <2>2, Resources DEF Part, Children, beada_drm_remove
<1>9. Careful("drm", RemoveOf("drm"))
  BY <1>r DEF Careful, Solid, beada_drm_remove, Of
<1> QED
  BY <1>1, <1>2, <1>3, <1>4, <1>5, <1>6, <1>7, <1>8, <1>9, Zenon DEF Sound

(* beada: the backlight child.                                             *)
LEMMA Sound_beada_backlight_probe ==
    ASSUME setup \in Setups, setup.driver = "beada"
    PROVE  Sound("bl")
<1> DEFINE P == ProbeOf("bl")
<1>p. P = beada_backlight_probe
  BY DEF ProbeOf
<1>r. RemoveOf("bl") = beada_backlight_remove
  BY DEF RemoveOf
<1>1. P \in Seq(StepType)
  <2>u. <<"listener">> \in Seq(Name)
    BY NameSeqs DEF Name
  <2>1. /\ Parent \in StepType /\ Check \in StepType
        /\ Must("mem") \in StepType /\ Must("class") \in StepType
        /\ Set("drvdata") \in StepType /\ Set("listener") \in StepType
        /\ MustOr("sysfs", <<"listener">>) \in StepType
    <3>1. \A n \in {"mem", "class", "drvdata", "listener", "sysfs", "none"} :
              n \in Name \cup {"none"}
      BY DEF Name
    <3> QED
      BY <3>1, StepTypes, ParentType, <2>u, Zenon DEF Check
  <2>2. beada_backlight_probe \in Seq(StepType)
    BY <2>1 DEF beada_backlight_probe
  <2> QED
    BY <1>p, <2>2, Zenon
<1>2. \A a, b \in DOMAIN P : G("bl", a) = G("bl", b) =>
          a = b \/ G("bl", a) = "none"
  BY <1>p DEF G, beada_backlight_probe, Step, Set, Must, MustOr, Try, Check, Parent
<1>3. Covered("bl")
  BY <1>p DEF Covered, ToSet, Managed, G, beada_backlight_probe,
              Step, Set, Must, MustOr, Try, Check, Parent
<1>4. Complete("bl")
  BY <1>p, <1>r DEF Complete, Managed, G, beada_backlight_probe,
              Step, Set, Must, MustOr, Try, Check, Parent, beada_backlight_remove, Of
<1>5. LastIsChildren("bl")
  BY <1>p DEF LastIsChildren, G, beada_backlight_probe,
              Step, Set, Must, MustOr, Try, Check, Parent
<1>6. \A a \in DOMAIN P : G("bl", a) \in Solid("bl") => P[a].fails # "warn"
  BY <1>p DEF Solid, G, beada_backlight_probe, Step, Set, Must, MustOr, Try, Check,
     Parent
<1>7. \A a \in DOMAIN P : Careful("bl", Of("bl", P[a].undo))
  <2>1. \A a \in DOMAIN beada_backlight_probe :
            beada_backlight_probe[a].undo \in {<<>>, <<"listener">>}
    BY SMTT(60) DEF beada_backlight_probe, Step, Set, Must, MustOr, Try, Check, Parent
  <2>2. Of("bl", <<>>) = <<>> /\ Of("bl", <<"listener">>) = <<<<"bl", "listener">>>>
    BY DEF Of
  <2>3. Careful("bl", <<>>) /\ Careful("bl", <<<<"bl", "listener">>>>)
    BY DEF Careful, Solid
  <2> QED
    BY <1>p, <2>1, <2>2, <2>3
<1>8. RemoveOf("bl") \in Seq(Resource)
  <2>1. /\ "listener" \in Name /\ "sysfs" \in Name
    BY DEF Name
  <2>2. <<"listener", "sysfs">> \in Seq(Name)
    BY <2>1
  <2> QED
    BY <1>r, <2>2, Resources DEF Part, Children, beada_backlight_remove
<1>9. Careful("bl", RemoveOf("bl"))
  BY <1>r DEF Careful, Solid, beada_backlight_remove, Of
<1> QED
  BY <1>1, <1>2, <1>3, <1>4, <1>5, <1>6, <1>7, <1>8, <1>9, Zenon DEF Sound

(* ax206: the USB driver.                                                  *)
LEMMA Sound_ax206_probe ==
    ASSUME setup \in Setups, setup.driver = "ax206"
    PROVE  Sound("usb")
<1> DEFINE P == ProbeOf("usb")
<1>p. P = ax206_probe
  BY DEF ProbeOf
<1>r. RemoveOf("usb") = ax206_disconnect
  BY DEF RemoveOf
<1>1. P \in Seq(StepType)
  <2>u. <<"children", "wq">> \in Seq(Name)
    BY NameSeqs DEF Name
  <2>1. /\ Must("mem") \in StepType /\ Set("drvdata") \in StepType
        /\ Check \in StepType /\ Must("wq") \in StepType
        /\ Set("children") \in StepType
        /\ MustOr("none", <<"children", "wq">>) \in StepType
    <3>1. \A n \in {"mem", "drvdata", "wq", "children", "none"} : n \in Name
              \cup {"none"}
      BY DEF Name
    <3> QED
      BY <3>1, StepTypes, ParentType, <2>u, Zenon DEF Check
  <2>2. ax206_probe \in Seq(StepType)
    BY <2>1 DEF ax206_probe
  <2> QED
    BY <1>p, <2>2, Zenon
<1>2. \A a, b \in DOMAIN P : G("usb", a) = G("usb", b) =>
          a = b \/ G("usb", a) = "none"
  BY <1>p DEF G, ax206_probe, Step, Set, Must, MustOr, Try, Check, Parent
<1>3. Covered("usb")
  BY <1>p DEF Covered, ToSet, Managed, G, ax206_probe,
              Step, Set, Must, MustOr, Try, Check, Parent
<1>4. Complete("usb")
  BY <1>p, <1>r DEF Complete, Managed, G, ax206_probe,
              Step, Set, Must, MustOr, Try, Check, Parent, ax206_disconnect, Of
<1>5. LastIsChildren("usb")
  BY <1>p DEF LastIsChildren, G, ax206_probe,
              Step, Set, Must, MustOr, Try, Check, Parent
<1>6. \A a \in DOMAIN P : G("usb", a) \in Solid("usb") => P[a].fails # "warn"
  BY <1>p DEF Solid, G, ax206_probe, Step, Set, Must, MustOr, Try, Check, Parent
<1>7. \A a \in DOMAIN P : Careful("usb", Of("usb", P[a].undo))
  <2>1. \A a \in DOMAIN ax206_probe : ax206_probe[a].undo \in {<<>>, <<"children",
            "wq">>}
    BY SMTT(60) DEF ax206_probe, Step, Set, Must, MustOr, Try, Check, Parent
  <2>2. Of("usb", <<>>) = <<>> /\ Of("usb", <<"children", "wq">>) = <<<<"usb",
            "children">>, <<"usb", "wq">>>>
    BY DEF Of
  <2>3. Careful("usb", <<>>) /\ Careful("usb", <<<<"usb", "children">>, <<"usb",
            "wq">>>>)
    BY DEF Careful, Solid
  <2> QED
    BY <1>p, <2>1, <2>2, <2>3
<1>8. RemoveOf("usb") \in Seq(Resource)
  <2>1. /\ "children" \in Name /\ "wq" \in Name /\ "drvdata" \in Name
    BY DEF Name
  <2>2. <<"children", "wq", "drvdata">> \in Seq(Name)
    BY <2>1
  <2> QED
    BY <1>r, <2>2, Resources DEF Part, Children, ax206_disconnect
<1>9. Careful("usb", RemoveOf("usb"))
  BY <1>r DEF Careful, Solid, ax206_disconnect, Of
<1> QED
  BY <1>1, <1>2, <1>3, <1>4, <1>5, <1>6, <1>7, <1>8, <1>9, Zenon DEF Sound

(* ax206: the DRM child.                                                   *)
LEMMA Sound_ax206_drm_probe ==
    ASSUME setup \in Setups, setup.driver = "ax206"
    PROVE  Sound("drm")
<1> DEFINE P == ProbeOf("drm")
<1>p. P = ax206_drm_probe
  BY DEF ProbeOf
<1>r. RemoveOf("drm") = ax206_drm_remove
  BY DEF RemoveOf
<1>1. P \in Seq(StepType)
  <2>u. <<"sysfs">> \in Seq(Name)
    BY NameSeqs DEF Name
  <2>1. /\ Must("mem") \in StepType /\ Must("data") \in StepType
        /\ Must("kms") \in StepType /\ Must("kms_objects") \in StepType
        /\ Set("drvdata") \in StepType /\ Must("sysfs") \in StepType
        /\ MustOr("card", <<"sysfs">>) \in StepType
        /\ Set("modeset") \in StepType
    <3>1. \A n \in {"mem", "data", "kms", "kms_objects", "drvdata", "sysfs", "card",
              "modeset", "none"} : n \in Name \cup {"none"}
      BY DEF Name
    <3> QED
      BY <3>1, StepTypes, ParentType, <2>u, Zenon DEF Check
  <2>2. ax206_drm_probe \in Seq(StepType)
    BY <2>1 DEF ax206_drm_probe
  <2> QED
    BY <1>p, <2>2, Zenon
<1>2. \A a, b \in DOMAIN P : G("drm", a) = G("drm", b) =>
          a = b \/ G("drm", a) = "none"
  BY <1>p DEF G, ax206_drm_probe, Step, Set, Must, MustOr, Try, Check, Parent
<1>3. Covered("drm")
  BY <1>p DEF Covered, ToSet, Managed, G, ax206_drm_probe,
              Step, Set, Must, MustOr, Try, Check, Parent
<1>4. Complete("drm")
  BY <1>p, <1>r DEF Complete, Managed, G, ax206_drm_probe,
              Step, Set, Must, MustOr, Try, Check, Parent, ax206_drm_remove, Of
<1>5. LastIsChildren("drm")
  BY <1>p DEF LastIsChildren, G, ax206_drm_probe,
              Step, Set, Must, MustOr, Try, Check, Parent
<1>6. \A a \in DOMAIN P : G("drm", a) \in Solid("drm") => P[a].fails # "warn"
  BY <1>p DEF Solid, G, ax206_drm_probe, Step, Set, Must, MustOr, Try, Check, Parent
<1>7. \A a \in DOMAIN P : Careful("drm", Of("drm", P[a].undo))
  <2>1. \A a \in DOMAIN ax206_drm_probe : ax206_drm_probe[a].undo \in {<<>>,
            <<"sysfs">>}
    BY SMTT(60) DEF ax206_drm_probe, Step, Set, Must, MustOr, Try, Check, Parent
  <2>2. Of("drm", <<>>) = <<>> /\ Of("drm", <<"sysfs">>) = <<<<"drm", "sysfs">>>>
    BY DEF Of
  <2>3. Careful("drm", <<>>) /\ Careful("drm", <<<<"drm", "sysfs">>>>)
    BY DEF Careful, Solid
  <2> QED
    BY <1>p, <2>1, <2>2, <2>3
<1>8. RemoveOf("drm") \in Seq(Resource)
  <2>1. /\ "sysfs" \in Name /\ "card" \in Name /\ "modeset" \in Name
    BY DEF Name
  <2>2. <<"sysfs", "card", "modeset">> \in Seq(Name)
    BY <2>1
  <2> QED
    BY <1>r, <2>2, Resources DEF Part, Children, ax206_drm_remove
<1>9. Careful("drm", RemoveOf("drm"))
  BY <1>r DEF Careful, Solid, ax206_drm_remove, Of
<1> QED
  BY <1>1, <1>2, <1>3, <1>4, <1>5, <1>6, <1>7, <1>8, <1>9, Zenon DEF Sound

(* ax206: the backlight child.                                             *)
LEMMA Sound_ax206_bl_probe ==
    ASSUME setup \in Setups, setup.driver = "ax206"
    PROVE  Sound("bl")
<1> DEFINE P == ProbeOf("bl")
<1>p. P = ax206_bl_probe
  BY DEF ProbeOf
<1>r. RemoveOf("bl") = <<>>
  BY DEF RemoveOf
<1>1. P \in Seq(StepType)
  <2>1. /\ Must("class") \in StepType /\ Set("drvdata") \in StepType
    <3>1. \A n \in {"class", "drvdata", "none"} : n \in Name \cup {"none"}
      BY DEF Name
    <3> QED
      BY <3>1, StepTypes, ParentType, Zenon DEF Check
  <2>2. ax206_bl_probe \in Seq(StepType)
    BY <2>1 DEF ax206_bl_probe
  <2> QED
    BY <1>p, <2>2, Zenon
<1>2. \A a, b \in DOMAIN P : G("bl", a) = G("bl", b) =>
          a = b \/ G("bl", a) = "none"
  BY <1>p DEF G, ax206_bl_probe, Step, Set, Must, MustOr, Try, Check, Parent
<1>3. Covered("bl")
  BY <1>p DEF Covered, ToSet, Managed, G, ax206_bl_probe,
              Step, Set, Must, MustOr, Try, Check, Parent
<1>4. Complete("bl")
  BY <1>p, <1>r DEF Complete, Managed, G, ax206_bl_probe,
              Step, Set, Must, MustOr, Try, Check, Parent
<1>5. LastIsChildren("bl")
  BY <1>p DEF LastIsChildren, G, ax206_bl_probe,
              Step, Set, Must, MustOr, Try, Check, Parent
<1>6. \A a \in DOMAIN P : G("bl", a) \in Solid("bl") => P[a].fails # "warn"
  BY <1>p DEF Solid, G, ax206_bl_probe, Step, Set, Must, MustOr, Try, Check, Parent
<1>7. \A a \in DOMAIN P : Careful("bl", Of("bl", P[a].undo))
  BY <1>p DEF Careful, Of, Solid, ax206_bl_probe, Step, Set, Must, MustOr, Try, Check,
     Parent
<1>8. RemoveOf("bl") \in Seq(Resource)
  BY <1>r, EmptySeq
<1>9. Careful("bl", RemoveOf("bl"))
  BY <1>r DEF Careful, Solid
<1> QED
  BY <1>1, <1>2, <1>3, <1>4, <1>5, <1>6, <1>7, <1>8, <1>9, Zenon DEF Sound

(* Every probe and remove function of the three drivers.                   *)
LEMMA AllSound ==
    ASSUME setup \in Setups, NEW p \in Known
    PROVE  Sound(p)
BY SetupAssumption,
   Sound_mpro_usb_probe, Sound_mpro_drm__probe, Sound_mpro_ts__probe,
   Sound_mpro_bl__probe, Sound_beada_probe, Sound_beada_drm_probe,
   Sound_beada_backlight_probe, Sound_ax206_probe, Sound_ax206_drm_probe,
   Sound_ax206_bl_probe
   DEF Known, Part, Children

-----------------------------------------------------------------------------
(* Sequences without duplicates.                                           *)

LEMMA RemoveAtFacts ==
    ASSUME NEW S, NEW s \in Seq(S), NEW k \in DOMAIN s
    PROVE  /\ RemoveAt(s, k) \in Seq(S) /\ Len(RemoveAt(s, k)) = Len(s) - 1
           /\ \A i \in 1..(Len(s) - 1) :
                  RemoveAt(s, k)[i] = IF i < k THEN s[i] ELSE s[i + 1]
<1> DEFINE u == SubSeq(s, 1, k - 1)  v == SubSeq(s, k + 1, Len(s))
<1>0. k \in 1..Len(s) /\ Len(s) \in Nat
  OBVIOUS
<1>1. u \in Seq(S) /\ Len(u) = k - 1 /\ \A i \in 1..(k - 1) : u[i] = s[i]
  BY <1>0, SubSeqProperties
<1>2. /\ v \in Seq(S) /\ Len(v) = Len(s) - k
      /\ \A i \in 1..(Len(s) - k) : v[i] = s[i + k]
  BY <1>0, SubSeqProperties
<1>3. /\ u \o v \in Seq(S) /\ Len(u \o v) = Len(u) + Len(v)
      /\ \A i \in 1..(Len(u) + Len(v)) :
             (u \o v)[i] = IF i <= Len(u) THEN u[i] ELSE v[i - Len(u)]
  BY <1>1, <1>2, ConcatProperties
<1>4. RemoveAt(s, k) = u \o v
  BY DEF RemoveAt
<1> HIDE DEF u, v
<1>5. u \o v \in Seq(S) /\ Len(u \o v) = Len(s) - 1
  BY <1>0, <1>1, <1>2, <1>3
<1>6. ASSUME NEW i \in 1..(Len(s) - 1)
      PROVE  (u \o v)[i] = IF i < k THEN s[i] ELSE s[i + 1]
  <2>1. i \in 1..(Len(u) + Len(v))
    BY <1>0, <1>1, <1>2
  <2>2. CASE i < k
    <3>1. i <= Len(u) /\ i \in 1..(k - 1)
      BY <1>0, <1>1, <2>2
    <3> QED
      BY <1>1, <1>3, <2>1, <2>2, <3>1
  <2>3. CASE ~(i < k)
    <3>1. /\ ~(i <= Len(u)) /\ i - Len(u) \in 1..(Len(s) - k)
          /\ (i - Len(u)) + k = i + 1
      BY <1>0, <1>1, <2>3
    <3> QED
      BY <1>2, <1>3, <2>1, <2>3, <3>1
  <2> QED
    BY <2>2, <2>3
<1> QED
  BY <1>4, <1>5, <1>6

(* Taking an element out keeps the order of the others.                    *)
LEMMA Without ==
    ASSUME NEW S, NEW s \in Seq(S), IsInjective(s), NEW n
    PROVE  /\ RemoveFirst(s, n) \in Seq(S) /\ IsInjective(RemoveFirst(s, n))
           /\ ToSet(RemoveFirst(s, n)) = ToSet(s) \ {n}
           /\ \A i, j \in DOMAIN RemoveFirst(s, n) : i < j =>
                  \E a, b \in DOMAIN s : /\ a < b /\ RemoveFirst(s, n)[i] = s[a]
                                         /\ RemoveFirst(s, n)[j] = s[b]
<1>1. CASE \E k \in 1..Len(s) : s[k] = n
  <2>1. PICK k \in 1..Len(s) : s[k] = n
    BY <1>1
  <2>2. RemoveFirst(s, n) = RemoveAt(s, k)
    BY <2>1 DEF RemoveFirst, SelectInSeq, IsInjective, Min
  <2> DEFINE t == RemoveAt(s, k)
  <2>3. /\ t \in Seq(S) /\ Len(t) = Len(s) - 1
        /\ \A i \in 1..(Len(s) - 1) : t[i] = IF i < k THEN s[i] ELSE s[i + 1]
    BY RemoveAtFacts
  <2> HIDE DEF t
  <2>4. DOMAIN t = 1..(Len(s) - 1) /\ DOMAIN s = 1..Len(s) /\ Len(s) \in Nat
    BY <2>3
  <2>5. IsInjective(t)
    <3>1. SUFFICES ASSUME NEW i \in DOMAIN t, NEW j \in DOMAIN t, t[i] = t[j]
                   PROVE  i = j
      BY DEF IsInjective
    <3> DEFINE Place(x) == IF x < k THEN x ELSE x + 1
    <3>2. /\ Place(i) \in DOMAIN s /\ t[i] = s[Place(i)]
          /\ Place(j) \in DOMAIN s /\ t[j] = s[Place(j)]
      BY <2>3, <2>4, <3>1
    <3>3. Place(i) = Place(j)
      <4> HIDE DEF Place
      <4> QED
        BY <3>1, <3>2 DEF IsInjective
    <3> QED
      BY <2>4, <3>1, <3>3
  <2>6. ToSet(t) = ToSet(s) \ {n}
    <3>1. ASSUME NEW i \in 1..Len(s), s[i] # n
          PROVE  \E j \in 1..(Len(s) - 1) : t[j] = s[i]
      <4>1. CASE i < k
        BY <2>1, <2>3, <2>4, <4>1
      <4>2. CASE i > k
        <5>1. i - 1 \in 1..(Len(s) - 1) /\ ~(i - 1 < k) /\ (i - 1) + 1 = i
          BY <2>4, <4>2
        <5> QED
          BY <2>3, <5>1
      <4> QED
        BY <2>1, <3>1, <4>1, <4>2
    <3>2. ASSUME NEW j \in 1..(Len(s) - 1)
          PROVE  t[j] # n /\ \E i \in 1..Len(s) : t[j] = s[i]
      <4>1. j \in 1..Len(s) /\ j + 1 \in 1..Len(s)
        BY <2>4
      <4> QED
        BY <2>1, <2>3, <2>4, <4>1 DEF IsInjective
    <3>3. ToSet(t) \subseteq ToSet(s) \ {n}
      BY <2>4, <3>2 DEF ToSet
    <3>4. ToSet(s) \ {n} \subseteq ToSet(t)
      BY <2>4, <3>1 DEF ToSet
    <3> QED
      BY <3>3, <3>4
  <2>7. ASSUME NEW i \in DOMAIN t, NEW j \in DOMAIN t, i < j
        PROVE  \E a, b \in DOMAIN s : a < b /\ t[i] = s[a] /\ t[j] = s[b]
    <3>1. PICK a \in DOMAIN s : t[i] = s[a] /\ a = IF i < k THEN i ELSE i + 1
      BY <2>3, <2>4
    <3>2. PICK b \in DOMAIN s : t[j] = s[b] /\ b = IF j < k THEN j ELSE j + 1
      BY <2>3, <2>4
    <3>3. a < b
      BY <2>4, <2>7, <3>1, <3>2
    <3> QED
      BY <3>1, <3>2, <3>3
  <2> QED
    BY <2>2, <2>3, <2>5, <2>6, <2>7 DEF t
<1>2. CASE ~\E k \in 1..Len(s) : s[k] = n
  <2>1. RemoveFirst(s, n) = s
    BY <1>2 DEF RemoveFirst
  <2>2. n \notin ToSet(s)
    BY <1>2 DEF ToSet
  <2> QED
    BY <2>1, <2>2
<1> QED
  BY <1>1, <1>2

(* So does adding a new one at the end.                                    *)
LEMMA Added ==
    ASSUME NEW S, NEW s \in Seq(S), IsInjective(s), NEW x \in S, x \notin ToSet(s)
    PROVE  /\ Append(s, x) \in Seq(S) /\ IsInjective(Append(s, x))
           /\ ToSet(Append(s, x)) = ToSet(s) \cup {x}
           /\ \A i, j \in DOMAIN Append(s, x) : i < j =>
                  /\ i \in DOMAIN s /\ Append(s, x)[i] = s[i]
                  /\ (j \in DOMAIN s /\ Append(s, x)[j] = s[j]) \/ Append(s, x)[j] = x
<1> DEFINE t == Append(s, x)
<1>1. /\ t \in Seq(S) /\ Len(t) = Len(s) + 1 /\ t[Len(s) + 1] = x
      /\ \A i \in 1..Len(s) : t[i] = s[i]
  BY AppendProperties
<1>2. DOMAIN t = 1..(Len(s) + 1) /\ DOMAIN s = 1..Len(s) /\ Len(s) \in Nat
  BY <1>1
<1> HIDE DEF t
<1>3. IsInjective(t)
  BY <1>1, <1>2 DEF IsInjective, ToSet
<1>4. ToSet(t) = ToSet(s) \cup {x}
  <2>1. 1..(Len(s) + 1) = 1..Len(s) \cup {Len(s) + 1}
    BY <1>2
  <2> QED
    BY <1>1, <1>2, <2>1 DEF ToSet
<1>5. ASSUME NEW i \in DOMAIN t, NEW j \in DOMAIN t, i < j
      PROVE  /\ i \in DOMAIN s /\ t[i] = s[i]
             /\ (j \in DOMAIN s /\ t[j] = s[j]) \/ t[j] = x
  BY <1>1, <1>2, <1>5
<1> QED
  BY <1>1, <1>3, <1>4, <1>5 DEF t

(* Going on with the rest of a list.                                       *)
LEMMA Rest ==
    ASSUME NEW S, NEW s \in Seq(S), s # <<>>
    PROVE  /\ Head(s) \in S /\ Head(s) = s[1] /\ Tail(s) \in Seq(S)
           /\ Len(s) \in Nat \ {0} /\ 1 \in DOMAIN s
           /\ Len(Tail(s)) = Len(s) - 1 /\ DOMAIN Tail(s) = 1..(Len(s) - 1)
           /\ \A i \in 1..(Len(s) - 1) : Tail(s)[i] = s[i + 1]
           /\ ToSet(s) = {Head(s)} \cup ToSet(Tail(s))
<1>1. /\ Head(s) \in S /\ Head(s) = s[1] /\ Tail(s) \in Seq(S)
      /\ Len(s) \in Nat \ {0} /\ DOMAIN s = 1..Len(s)
      /\ Len(Tail(s)) = Len(s) - 1 /\ DOMAIN Tail(s) = 1..(Len(s) - 1)
      /\ \A i \in 1..(Len(s) - 1) : Tail(s)[i] = s[i + 1]
  BY HeadTailProperties, EmptySeq
<1>2. ASSUME NEW i \in 1..Len(s), i # 1
      PROVE  i - 1 \in 1..(Len(s) - 1) /\ (i - 1) + 1 = i
  BY <1>1, <1>2
<1>3. ASSUME NEW i \in 1..Len(s), i # 1 PROVE s[i] = Tail(s)[i - 1]
  BY <1>1, <1>2, <1>3
<1>4. ASSUME NEW i \in 1..(Len(s) - 1) PROVE i + 1 \in 1..Len(s)
  BY <1>1
<1>5. ToSet(s) = {Head(s)} \cup ToSet(Tail(s))
  <2> DEFINE t == Tail(s)
  <2> HIDE DEF t
  <2>0. DOMAIN t = 1..(Len(s) - 1) /\ \A i \in 1..(Len(s) - 1) : t[i] = s[i + 1]
    BY <1>1 DEF t
  <2>1. ASSUME NEW i \in DOMAIN s PROVE s[i] = Head(s) \/ s[i] \in ToSet(t)
    <3>1. CASE i = 1
      BY <1>1, <3>1
    <3>2. CASE i # 1
      <4>1. i - 1 \in DOMAIN t /\ s[i] = t[i - 1]
        BY <1>1, <1>2, <1>3, <2>0, <3>2 DEF t
      <4> QED
        BY <4>1 DEF ToSet
    <3> QED
      BY <3>1, <3>2
  <2>2. ASSUME NEW i \in DOMAIN t PROVE t[i] \in ToSet(s)
    BY <1>1, <1>4, <2>0 DEF ToSet
  <2>3. Head(s) \in ToSet(s)
    BY <1>1 DEF ToSet
  <2>4. ToSet(s) = {Head(s)} \cup ToSet(t)
    BY <2>1, <2>2, <2>3 DEF ToSet
  <2> QED
    BY <2>4 DEF t
<1> QED
  BY <1>1, <1>5

-----------------------------------------------------------------------------
(* The system does not change.                                             *)
LEMMA SameSetup ==
    ASSUME setup' = setup
    PROVE  /\ Known' = Known /\ Uses' = Uses /\ TooEarly' = TooEarly
           /\ \A p : ProbeOf(p)' = ProbeOf(p) /\ Managed(p)' = Managed(p)
BY DEF Known, Uses, TooEarly, ProbeOf, Managed, mpro_usb_probe, mpro_setup_lz4

LEMMA SameOrder ==
    ASSUME setup' = setup, NEW p
    PROVE  /\ \A m, n : Before(p, m, n)' <=> Before(p, m, n)
           /\ \A k, n : Taken(p, k, n)' <=> Taken(p, k, n)
           /\ \A i : G(p, i)' = G(p, i)
BY SameSetup DEF Before, Taken, Stored, G

LEMMA SetupFixed == [Next]_vars => setup' = setup
BY DEF Next, vars, PartStep, Bind, ProbeStep, ProbeWarn, ProbeFail, ProbeDone,
       Release, Released, Disconnect, Unbind, RemoveChild, StartRemove,
       UnregisterChild, Call, Return, lz4_level_store, TakeLz4, Over

(* A resource that entry points use may go when nothing that needs it is   *)
(* left.                                                                   *)
LEMMA OrderWithout ==
    ASSUME NEW p \in Part, setup' = setup, OrderInv(p), held[p] \in Seq(Name),
           NEW n, held'[p] = RemoveFirst(held[p], n),
           n \in Solid(p) => \A x \in ToSet(held[p]) :
                                 x = n \/ x = "drvdata" \/ ~Before(p, n, x)
    PROVE  OrderInv(p)' /\ held'[p] \in Seq(Name)
           /\ ToSet(held'[p]) = ToSet(held[p]) \ {n}
<1>1. /\ IsInjective(held[p])
      /\ \A x \in ToSet(held[p]) : Taken(p, Len(ProbeOf(p)), x)
      /\ \A i, j \in DOMAIN held[p] : i < j => ~Before(p, held[p][j], held[p][i])
      /\ \A m \in Solid(p), x \in ToSet(held[p]) :
             x # "drvdata" /\ Before(p, m, x) => m \in ToSet(held[p])
  BY Zenon DEF OrderInv
<1> DEFINE h == held'[p]
<1>2. /\ h \in Seq(Name) /\ IsInjective(h) /\ ToSet(h) = ToSet(held[p]) \ {n}
      /\ \A i, j \in DOMAIN h : i < j =>
             \E a, b \in DOMAIN held[p] : /\ a < b /\ h[i] = held[p][a]
                                          /\ h[j] = held[p][b]
  BY <1>1, Without
<1> HIDE DEF h
<1>3. \A i, j \in DOMAIN h : i < j => ~Before(p, h[j], h[i])
  BY <1>1, <1>2
<1>4. \A m \in Solid(p), x \in ToSet(h) :
          x # "drvdata" /\ Before(p, m, x) => m \in ToSet(h)
  BY <1>1, <1>2
<1>5. \A x \in ToSet(h) : Taken(p, Len(ProbeOf(p)), x)
  BY <1>1, <1>2
<1>6. OrderInv(p)' <=>
          /\ IsInjective(h)
          /\ \A x \in ToSet(h) : Taken(p, Len(ProbeOf(p)), x)
          /\ \A i, j \in DOMAIN h : i < j => ~Before(p, h[j], h[i])
          /\ \A m \in Solid(p), x \in ToSet(h) :
                 x # "drvdata" /\ Before(p, m, x) => m \in ToSet(h)
  BY SameOrder, SameSetup, Zenon DEF OrderInv, h
<1>7. OrderInv(p)'
  BY <1>2, <1>3, <1>4, <1>5, <1>6, Zenon
<1> QED
  BY <1>2, <1>7 DEF h

(* A resource may come when what it needs is there, and nothing that needs *)
(* it.                                                                     *)
LEMMA OrderAdded ==
    ASSUME NEW p \in Part, setup' = setup, OrderInv(p), held[p] \in Seq(Name),
           NEW n \in Name, n \notin ToSet(held[p]), held'[p] = Append(held[p], n),
           Taken(p, Len(ProbeOf(p)), n),
           \A x \in ToSet(held[p]) : ~Before(p, n, x),
           \A m \in Solid(p) : Before(p, m, n) => m \in ToSet(held[p])
    PROVE  OrderInv(p)' /\ held'[p] \in Seq(Name)
           /\ ToSet(held'[p]) = ToSet(held[p]) \cup {n}
<1>1. /\ IsInjective(held[p])
      /\ \A x \in ToSet(held[p]) : Taken(p, Len(ProbeOf(p)), x)
      /\ \A i, j \in DOMAIN held[p] : i < j => ~Before(p, held[p][j], held[p][i])
      /\ \A m \in Solid(p), x \in ToSet(held[p]) :
             x # "drvdata" /\ Before(p, m, x) => m \in ToSet(held[p])
  BY Zenon DEF OrderInv
<1> DEFINE h == held'[p]
<1>2. /\ h \in Seq(Name) /\ IsInjective(h) /\ ToSet(h) = ToSet(held[p]) \cup {n}
      /\ \A i, j \in DOMAIN h : i < j =>
             /\ i \in DOMAIN held[p] /\ h[i] = held[p][i]
             /\ (j \in DOMAIN held[p] /\ h[j] = held[p][j]) \/ h[j] = n
  BY <1>1, Added
<1> HIDE DEF h
<1>3. \A i, j \in DOMAIN h : i < j => ~Before(p, h[j], h[i])
  BY <1>1, <1>2 DEF ToSet
<1>4. \A m \in Solid(p), x \in ToSet(h) :
          x # "drvdata" /\ Before(p, m, x) => m \in ToSet(h)
  BY <1>1, <1>2
<1>5. \A x \in ToSet(h) : Taken(p, Len(ProbeOf(p)), x)
  BY <1>1, <1>2
<1>6. OrderInv(p)' <=>
          /\ IsInjective(h)
          /\ \A x \in ToSet(h) : Taken(p, Len(ProbeOf(p)), x)
          /\ \A i, j \in DOMAIN h : i < j => ~Before(p, h[j], h[i])
          /\ \A m \in Solid(p), x \in ToSet(h) :
                 x # "drvdata" /\ Before(p, m, x) => m \in ToSet(h)
  BY SameOrder, SameSetup, Zenon DEF OrderInv, h
<1>7. OrderInv(p)'
  BY <1>2, <1>3, <1>4, <1>5, <1>6, Zenon
<1> QED
  BY <1>2, <1>7 DEF h

-----------------------------------------------------------------------------
(* The steps of a probe.                                                   *)

LEMMA NextStep ==
    ASSUME NEW p \in Known, Sound(p), ProbingInv(p), phase[p] = "probing",
           todo[p] # <<>>
    PROVE  /\ Steps(p) \in Nat /\ 1..(Steps(p) + 1) \subseteq DOMAIN ProbeOf(p)
           /\ DOMAIN ProbeOf(p) = 1..Len(ProbeOf(p)) /\ Len(ProbeOf(p)) \in Nat
           /\ Head(todo[p]) = ProbeOf(p)[Steps(p) + 1] /\ Head(todo[p]) \in StepType
<1>1. /\ todo[p] \in Seq(StepType) /\ Steps(p) \in Nat
      /\ \A i \in DOMAIN todo[p] : todo[p][i] = ProbeOf(p)[Steps(p) + i]
  BY DEF ProbingInv
<1>2. /\ Head(todo[p]) = todo[p][1] /\ 1 \in DOMAIN todo[p]
      /\ Len(todo[p]) \in Nat \ {0} /\ Head(todo[p]) \in StepType
  BY <1>1, Rest
<1>3. ProbeOf(p) \in Seq(StepType)
  BY DEF Sound
<1>4. DOMAIN ProbeOf(p) = 1..Len(ProbeOf(p)) /\ Len(ProbeOf(p)) \in Nat
  BY <1>3
<1>5. Steps(p) + 1 <= Len(ProbeOf(p))
  BY <1>1, <1>2, <1>4 DEF Steps
<1> QED
  BY <1>1, <1>2, <1>4, <1>5

(* What the next step takes is not there yet, nor is anything that needs   *)
(* it, and what it needs is there.                                         *)
LEMMA Fresh ==
    ASSUME setup \in Setups, NEW p \in Known, Sound(p), ProbingInv(p),
           phase[p] = "probing", todo[p] # <<>>,
           NEW n, n = Head(todo[p]).gets, n # "none"
    PROVE  /\ n \in Name /\ n \notin ToSet(held[p])
           /\ Taken(p, Steps(p) + 1, n) /\ Taken(p, Len(ProbeOf(p)), n)
           /\ \A x \in ToSet(held[p]) : ~Before(p, n, x)
           /\ \A m \in Solid(p) : Before(p, m, n) => m \in ToSet(held[p])
<1> DEFINE k == Steps(p)
<1>1. /\ k \in Nat /\ 1..(k + 1) \subseteq DOMAIN ProbeOf(p)
      /\ DOMAIN ProbeOf(p) = 1..Len(ProbeOf(p)) /\ Len(ProbeOf(p)) \in Nat
      /\ Head(todo[p]) = ProbeOf(p)[k + 1] /\ Head(todo[p]) \in StepType
  BY NextStep
<1>2. /\ \A x \in ToSet(held[p]) : Taken(p, k, x)
      /\ \A a \in 1..k : G(p, a) \in Solid(p) => G(p, a) \in ToSet(held[p])
  BY DEF ProbingInv
<1>3. \A a, b \in DOMAIN ProbeOf(p) : G(p, a) = G(p, b) =>
          a = b \/ G(p, a) = "none"
  BY DEF Sound
<1>4. \A a \in DOMAIN ProbeOf(p) : G(p, a) = "lz4" => setup.lz4 = "boot"
  BY DEF Sound, LastIsChildren
<1> HIDE DEF k
<1>5. n = G(p, k + 1) /\ k + 1 \in DOMAIN ProbeOf(p)
  BY <1>1 DEF G
<1>6. n \in Name
  BY <1>1 DEF StepType
<1>7. ~Stored(p, n)
  BY <1>4, <1>5 DEF Stored
<1>8. ASSUME NEW a \in 1..k PROVE G(p, a) # n /\ a \in DOMAIN ProbeOf(p)
  <2>1. a \in DOMAIN ProbeOf(p) /\ a # k + 1
    BY <1>1
  <2> QED
    BY <1>3, <1>5, <2>1
<1>9. n \notin ToSet(held[p])
  BY <1>2, <1>7, <1>8 DEF Taken
<1>10. k + 1 \in 1..(k + 1) /\ k + 1 \in 1..Len(ProbeOf(p))
  BY <1>1, <1>5
<1>11. Taken(p, k + 1, n) /\ Taken(p, Len(ProbeOf(p)), n)
  BY <1>5, <1>10 DEF Taken
<1>12. ASSUME NEW x \in ToSet(held[p]), Before(p, n, x) PROVE FALSE
  <2>1. PICK a, b \in DOMAIN ProbeOf(p) : a < b /\ n = G(p, a) /\ x = G(p,
            b) /\ x # "none"
    BY <1>12 DEF Before
  <2>2. a = k + 1
    BY <1>3, <1>5, <2>1
  <2>3. CASE Stored(p, x)
    BY <1>4, <2>1, <2>3 DEF Stored
  <2>4. CASE \E c \in 1..k : x = G(p, c)
    <3>1. PICK c \in 1..k : x = G(p, c)
      BY <2>4
    <3>2. b = c
      BY <1>3, <1>8, <2>1, <3>1
    <3> QED
      BY <1>1, <2>1, <2>2, <3>1, <3>2
  <2> QED
    BY <1>2, <2>3, <2>4 DEF Taken
<1>13. ASSUME NEW m \in Solid(p), Before(p, m, n) PROVE m \in ToSet(held[p])
  <2>1. PICK a, b \in DOMAIN ProbeOf(p) : a < b /\ m = G(p, a) /\ n = G(p, b)
    BY <1>13 DEF Before
  <2>2. b = k + 1
    BY <1>3, <1>5, <2>1
  <2>3. a \in 1..k
    BY <1>1, <2>1, <2>2
  <2> QED
    BY <1>2, <2>1, <2>3
<1> QED
  BY <1>6, <1>9, <1>11, <1>12, <1>13 DEF k

(* The probe has gone a step further.                                      *)
LEMMA Advance ==
    ASSUME setup' = setup, NEW p \in Known, Sound(p), ProbingInv(p),
           phase[p] = "probing", todo[p] # <<>>, todo'[p] = Tail(todo[p]),
           \A n \in ToSet(held'[p]) : Taken(p, Steps(p) + 1, n),
           \A a \in 1..(Steps(p) + 1) : G(p, a) \in Solid(p) =>
               G(p, a) \in ToSet(held'[p])
    PROVE  ProbingInv(p)'
<1> DEFINE t == todo'[p]  k == Steps(p)  P == ProbeOf(p)
<1>1. /\ todo[p] \in Seq(StepType) /\ k \in Nat
      /\ \A i \in DOMAIN todo[p] : todo[p][i] = P[k + i]
  BY DEF ProbingInv
<1>2. /\ t \in Seq(StepType) /\ Len(t) = Len(todo[p]) - 1
      /\ Len(todo[p]) \in Nat \ {0} /\ DOMAIN t = 1..(Len(todo[p]) - 1)
      /\ DOMAIN todo[p] = 1..Len(todo[p])
      /\ \A i \in 1..(Len(todo[p]) - 1) : t[i] = todo[p][i + 1]
  BY <1>1, Rest
<1>3. Len(P) - Len(t) = k + 1
  <2>1. P \in Seq(StepType)
    BY DEF Sound
  <2>2. Len(P) \in Nat
    BY <2>1
  <2>3. k = Len(P) - Len(todo[p]) /\ Len(t) = Len(todo[p]) - 1
    BY <1>2, Zenon DEF Steps
  <2>4. Len(todo[p]) \in Nat
    BY <1>2
  <2> HIDE DEF k, t, P
  <2> QED
    BY <2>2, <2>3, <2>4
<1>4. ASSUME NEW i \in DOMAIN t PROVE t[i] = P[(k + 1) + i]
  <2>1. i + 1 \in DOMAIN todo[p] /\ k + (i + 1) = (k + 1) + i
    BY <1>1, <1>2
  <2> QED
    BY <1>1, <1>2, <2>1
<1>5. Steps(p)' = k + 1
  BY <1>3, SameSetup DEF Steps
<1>6. /\ \A n \in ToSet(held'[p]) : Taken(p, k + 1, n)
      /\ \A a \in 1..(k + 1) : G(p, a) \in Solid(p) => G(p, a) \in ToSet(held'[p])
  OBVIOUS
<1> HIDE DEF k, t, P
<1>7. ProbingInv(p)' <=>
          (phase'[p] = "probing" =>
              /\ t \in Seq(StepType) /\ Steps(p)' \in Nat
              /\ \A i \in DOMAIN t : t[i] = P[Steps(p)' + i]
              /\ \A n \in ToSet(held'[p]) : Taken(p, Steps(p)', n)
              /\ \A a \in 1..Steps(p)' : G(p, a) \in Solid(p) =>
                                            G(p, a) \in ToSet(held'[p]))
  BY SameSetup, SameOrder, Zenon DEF ProbingInv, t, P
<1>8. k + 1 \in Nat
  BY <1>1
<1> QED
  BY <1>2, <1>4, <1>5, <1>6, <1>7, <1>8

-----------------------------------------------------------------------------
(* The invariant of the parts, action by action.                           *)

LEMMA GoodFacts ==
    ASSUME Good
    PROVE  /\ setup \in Setups /\ \A p \in Known : Sound(p)
           /\ Known \subseteq Part /\ "usb" \in Known
           /\ \A p \in Part : phase[p] \notin {"absent", "unbound"} => p \in Known
           /\ \A p \in Known : /\ LeakInv(p) /\ ProbingInv(p) /\ RemovingInv(p)
                               /\ OrderInv(p)
           /\ \A p \in Part : LeakInv(p) /\ held[p] \in Seq(Name)
<1>1. setup \in Setups /\ \A p \in Part : held[p] \in Seq(Name)
  BY DEF Good, Typed
<1>2. Known \subseteq Part /\ "usb" \in Known
  BY DEF Known, Part, Children
<1>3. \A p \in Part : PartInv(p)
  BY DEF Good
<1> QED
  BY <1>1, <1>2, <1>3, AllSound DEF PartInv, LeakInv

LEMMA OrderSame ==
    ASSUME setup' = setup, NEW p, held'[p] = held[p], OrderInv(p)
    PROVE  OrderInv(p)'
BY SameSetup, SameOrder, Zenon DEF OrderInv

LEMMA CarefulSame ==
    ASSUME setup' = setup, NEW p, NEW rs, Careful(p, rs),
           p = "usb" => ("children" \in ToSet(held'["usb"]) =>
                             "children" \in ToSet(held["usb"]))
    PROVE  Careful(p, rs)'
BY DEF Careful, Solid

(* A part that the step is not about.                                      *)
LEMMA Others ==
    ASSUME setup' = setup, NEW p \in Part, PartInv(p),
           phase'[p] = phase[p], todo'[p] = todo[p], held'[p] = held[p],
           p # "usb" => ("children" \in ToSet(held["usb"]) =>
                             phase[p] = "absent" \/ "children" \in ToSet(held'["usb"]))
    PROVE  PartInv(p)'
<1>1. LeakInv(p)'
  BY SameSetup DEF PartInv, LeakInv
<1>2. ASSUME p \in Known PROVE ProbingInv(p)'
  <2>1. ProbingInv(p)
    BY <1>2 DEF PartInv
  <2>2. Steps(p)' = Steps(p)
    BY SameSetup DEF Steps
  <2> QED
    BY <2>1, <2>2, SameSetup, SameOrder, Zenon DEF ProbingInv
<1>3. ASSUME p \in Known PROVE RemovingInv(p)'
  <2>1. RemovingInv(p)
    BY <1>3 DEF PartInv
  <2>2. Careful(p, todo[p]) => Careful(p, todo[p])'
    <3>1. p = "usb" => held'["usb"] = held["usb"]
      OBVIOUS
    <3>2. Careful(p, todo'[p]) => Careful(p, todo[p])'
      BY <3>1, CarefulSame, Zenon
    <3> QED
      BY <3>2
  <2> QED
    BY <2>1, <2>2, SameSetup, Zenon DEF RemovingInv
<1>4. ASSUME p \in Known PROVE OrderInv(p)'
  BY <1>4, OrderSame DEF PartInv
<1> QED
  BY <1>1, <1>2, <1>3, <1>4, SameSetup, Zenon DEF PartInv

(* A sequence without elements.                                            *)
LEMMA NoElement ==
    ASSUME NEW S, NEW s \in Seq(S), ToSet(s) = {}
    PROVE  s = <<>>
<1>1. ASSUME NEW i \in DOMAIN s PROVE FALSE
  <2>1. s[i] \in ToSet(s)
    BY Zenon DEF ToSet
  <2> QED
    BY <2>1
<1>2. DOMAIN s = 1..Len(s) /\ Len(s) \in Nat
  OBVIOUS
<1>3. Len(s) = 0
  <2>1. ASSUME Len(s) # 0 PROVE 1 \in DOMAIN s
    BY <1>2, <2>1
  <2> QED
    BY <1>1, <2>1
<1> QED
  BY <1>3, EmptySeq

LEMMA EmptyRange == ToSet(<<>>) = {}
BY DEF ToSet

LEMMA BindStep ==
    ASSUME Good, NEW p \in Part, Bind(p)
    PROVE  Good'
<1>0. /\ setup' = setup /\ held' = held /\ phase[p] = "unbound"
      /\ phase' = [phase EXCEPT ![p] = "probing"]
      /\ todo' = [todo EXCEPT ![p] = ProbeOf(p)]
      /\ binds' = [binds EXCEPT ![p] = @ + 1] /\ binds[p] < MaxBinds
      /\ p = "usb" \/ p \in setup.loaded
  BY DEF Bind
<1>1. /\ setup \in Setups /\ phase \in [Part -> Phase] /\ phase["usb"] # "absent"
      /\ todo = [q \in Part |-> todo[q]] /\ held \in [Part -> Seq(Name)]
      /\ binds \in [Part -> 0 .. MaxBinds]
  BY DEF Good, Typed
<1>2. Typed'
  <2>1. phase' \in [Part -> Phase] /\ phase'["usb"] # "absent"
    BY <1>0, <1>1 DEF Phase
  <2>2. todo' = [q \in Part |-> todo'[q]]
    BY <1>0, <1>1
  <2>3. binds' \in [Part -> 0 .. MaxBinds]
    BY <1>0, <1>1, BoundAssumption
  <2> QED
    BY <1>0, <1>1, <2>1, <2>2, <2>3 DEF Typed
<1>3. p \in Known /\ Sound(p)
  <2>1. p \in Known
    BY <1>0, <1>1, SetupAssumption DEF Known, Part
  <2> QED
    BY <2>1, GoodFacts
<1>4. phase'[p] = "probing" /\ todo'[p] = ProbeOf(p) /\ held'[p] = <<>>
  BY <1>0, <1>1, GoodFacts DEF LeakInv
<1>5. PartInv(p)'
  <2>1. LeakInv(p)'
    BY <1>0, <1>3, <1>4, GoodFacts, SameSetup DEF LeakInv
  <2>2. ProbingInv(p)'
    <3>1. ProbeOf(p) \in Seq(StepType)
      BY <1>3 DEF Sound
    <3>2. Steps(p)' = 0
      <4>1. Steps(p)' = Len(ProbeOf(p)) - Len(ProbeOf(p))
        BY <1>0, <1>4, SameSetup, Zenon DEF Steps
      <4> QED
        BY <3>1, <4>1
    <3>3. \A i \in DOMAIN ProbeOf(p) : ProbeOf(p)[i] = ProbeOf(p)[0 + i]
      BY <3>1
    <3>4. ToSet(held'[p]) = {} /\ 1..0 = {}
      BY <1>4, EmptyRange
    <3> QED
      BY <1>0, <1>4, <3>1, <3>2, <3>3, <3>4, SameSetup DEF ProbingInv
  <2>3. RemovingInv(p)'
    BY <1>4 DEF RemovingInv
  <2>4. OrderInv(p)'
    BY <1>0, <1>3, GoodFacts, OrderSame
  <2> QED
    BY <2>1, <2>2, <2>3, <2>4 DEF PartInv
<1>6. ASSUME NEW q \in Part, q # p PROVE PartInv(q)'
  <2>1. phase'[q] = phase[q] /\ todo'[q] = todo[q] /\ held'[q] = held[q] /\ PartInv(q)
    BY <1>0, <1>1, <1>6 DEF Good
  <2> QED
    BY <1>0, <2>1, Others
<1> QED
  BY <1>2, <1>5, <1>6, Zenon DEF Good

LEMMA NotSolid == \A p \in Part : "none" \notin Solid(p)
BY DEF Solid, Part, Children

LEMMA TakenMore ==
    ASSUME NEW p, NEW k \in Nat, NEW n, Taken(p, k, n)
    PROVE  Taken(p, k + 1, n)
<1>1. 1..k \subseteq 1..(k + 1)
  OBVIOUS
<1> QED
  BY <1>1, Zenon DEF Taken

(* Taking the children makes them; none of them existed before.            *)
LEMMA ChildrenStep ==
    ASSUME Good, NEW p \in Known, phase[p] = "probing", todo[p] # <<>>,
           Head(todo[p]).gets = "children"
    PROVE  p = "usb" /\ \A q \in Part \ {p} : phase[q] = "absent"
<1>1. Sound(p) /\ ProbingInv(p) /\ setup \in Setups
  BY GoodFacts
<1>2. "children" \notin ToSet(held[p])
  BY <1>1, Fresh
<1>3. /\ Steps(p) + 1 \in DOMAIN ProbeOf(p)
      /\ Head(todo[p]) = ProbeOf(p)[Steps(p) + 1]
  <2>1. /\ Steps(p) \in Nat /\ 1..(Steps(p) + 1) \subseteq DOMAIN ProbeOf(p)
        /\ Head(todo[p]) = ProbeOf(p)[Steps(p) + 1]
    BY <1>1, NextStep
  <2>2. Steps(p) + 1 \in 1..(Steps(p) + 1)
    BY <2>1
  <2> QED
    BY <2>1, <2>2
<1>4. p = "usb"
  BY <1>1, <1>3 DEF Sound, LastIsChildren, G
<1> QED
  BY <1>2, <1>4, GoodFacts DEF LeakInv

LEMMA ProbeStepStep ==
    ASSUME Good, NEW p \in Part, ProbeStep(p)
    PROVE  Good'
<1> DEFINE s == Head(todo[p])
<1>0. /\ setup' = setup /\ binds' = binds
      /\ phase[p] = "probing" /\ todo[p] # <<>>
      /\ held' = IF s.gets = "none" THEN held
                 ELSE [held EXCEPT ![p] = Append(@, s.gets)]
      /\ phase' = IF s.gets = "children"
                  THEN [q \in Part |-> IF q = p THEN phase[p] ELSE "unbound"]
                  ELSE phase
      /\ todo' = [todo EXCEPT ![p] = Tail(@)]
  BY DEF ProbeStep
<1>1. /\ setup \in Setups /\ phase \in [Part -> Phase] /\ phase["usb"] # "absent"
      /\ todo = [q \in Part |-> todo[q]] /\ held \in [Part -> Seq(Name)]
      /\ binds \in [Part -> 0 .. MaxBinds]
  BY DEF Good, Typed
<1>2. /\ p \in Known /\ Sound(p) /\ LeakInv(p) /\ ProbingInv(p) /\ RemovingInv(p)
      /\ OrderInv(p) /\ held[p] \in Seq(Name)
  BY <1>0, GoodFacts
<1>3. /\ Steps(p) \in Nat /\ Steps(p) + 1 \in 1..(Steps(p) + 1)
      /\ \A a \in 1..(Steps(p) + 1) : a \in 1..Steps(p) \/ a = Steps(p) + 1
      /\ s = ProbeOf(p)[Steps(p) + 1]
      /\ \A x \in ToSet(held[p]) : Taken(p, Steps(p), x)
      /\ \A a \in 1..Steps(p) : G(p, a) \in Solid(p) => G(p, a) \in ToSet(held[p])
  <2>1. Steps(p) \in Nat /\ s = ProbeOf(p)[Steps(p) + 1]
    BY <1>0, <1>2, NextStep
  <2>2. /\ Steps(p) + 1 \in 1..(Steps(p) + 1)
        /\ \A a \in 1..(Steps(p) + 1) : a \in 1..Steps(p) \/ a = Steps(p) + 1
    BY <2>1
  <2>3. /\ \A x \in ToSet(held[p]) : Taken(p, Steps(p), x)
        /\ \A a \in 1..Steps(p) : G(p, a) \in Solid(p) => G(p, a) \in ToSet(held[p])
    BY <1>0, <1>2, Zenon DEF ProbingInv
  <2> QED
    BY <2>1, <2>2, <2>3
<1> HIDE DEF s
<1>4. G(p, Steps(p) + 1) = s.gets
  BY <1>3 DEF G
<1>5. /\ OrderInv(p)' /\ held'[p] \in Seq(Name)
      /\ ToSet(held'[p]) = ToSet(held[p]) \cup ({s.gets} \ {"none"})
      /\ s.gets # "none" => s.gets \in Name /\ Taken(p, Steps(p) + 1, s.gets)
  <2>1. CASE s.gets = "none"
    <3>1. held'[p] = held[p]
      BY <1>0, <2>1
    <3>2. ({s.gets} \ {"none"}) = {}
      BY <2>1
    <3> QED
      BY <1>0, <1>2, <2>1, <3>1, <3>2, OrderSame
  <2>2. CASE s.gets # "none"
    <3>1. /\ s.gets \in Name /\ s.gets \notin ToSet(held[p])
          /\ Taken(p, Steps(p) + 1, s.gets) /\ Taken(p, Len(ProbeOf(p)), s.gets)
          /\ \A x \in ToSet(held[p]) : ~Before(p, s.gets, x)
          /\ \A m \in Solid(p) : Before(p, m, s.gets) => m \in ToSet(held[p])
      BY <1>0, <1>1, <1>2, <2>2, Fresh DEF s
    <3>2. held'[p] = Append(held[p], s.gets)
      BY <1>0, <1>1, <2>2
    <3>3. /\ OrderInv(p)' /\ held'[p] \in Seq(Name)
          /\ ToSet(held'[p]) = ToSet(held[p]) \cup {s.gets}
      BY <1>0, <1>2, <3>1, <3>2, OrderAdded
    <3>4. {s.gets} \ {"none"} = {s.gets}
      BY <2>2
    <3> QED
      BY <3>1, <3>3, <3>4
  <2> QED
    BY <2>1, <2>2
<1>6. s.gets = "children" => p = "usb" /\ \A q \in Part \ {p} : phase[q] = "absent"
  BY <1>0, <1>2, ChildrenStep DEF s
<1>7. phase'[p] = phase[p] /\ todo'[p] = Tail(todo[p])
  BY <1>0, <1>1
<1>8. Typed'
  <2>1. phase' \in [Part -> Phase] /\ phase'["usb"] # "absent"
    BY <1>0, <1>1 DEF Phase, Part
  <2>2. todo' = [q \in Part |-> todo'[q]]
    BY <1>0, <1>1
  <2>3. held' \in [Part -> Seq(Name)]
    BY <1>0, <1>1, <1>5
  <2> QED
    BY <1>0, <1>1, <2>1, <2>2, <2>3 DEF Typed
<1>9. PartInv(p)'
  <2>1. LeakInv(p)'
    <3>1. "children" \in ToSet(held["usb"]) => "children" \in ToSet(held'["usb"])
      <4>1. CASE p = "usb"
        BY <1>5, <4>1
      <4>2. CASE p # "usb"
        <5>1. held'["usb"] = held["usb"]
          BY <1>0, <1>1, <4>2 DEF Part
        <5> QED
          BY <5>1
      <4> QED
        BY <4>1, <4>2
    <3> QED
      BY <1>0, <1>2, <1>7, <3>1, SameSetup DEF LeakInv
  <2>2. ProbingInv(p)'
    <3>1. \A n \in ToSet(held'[p]) : Taken(p, Steps(p) + 1, n)
      BY <1>3, <1>5, TakenMore
    <3>2. \A a \in 1..(Steps(p) + 1) : G(p, a) \in Solid(p) =>
              G(p, a) \in ToSet(held'[p])
      BY <1>3, <1>4, <1>5, NotSolid
    <3> QED
      BY <1>0, <1>2, <1>7, <3>1, <3>2, Advance
  <2>3. RemovingInv(p)'
    BY <1>0, <1>7 DEF RemovingInv
  <2> QED
    BY <1>5, <2>1, <2>2, <2>3 DEF PartInv
<1>10. ASSUME NEW q \in Part, q # p PROVE PartInv(q)'
  <2>1. todo'[q] = todo[q] /\ held'[q] = held[q] /\ PartInv(q)
    BY <1>0, <1>1, <1>10 DEF Good
  <2>2. CASE s.gets = "children"
    <3>1. /\ p = "usb" /\ phase[q] = "absent" /\ phase'[q] = "unbound"
          /\ "children" \in ToSet(held'["usb"])
      BY <1>0, <1>5, <1>6, <1>10, <2>2
    <3>2. LeakInv(q)'
      BY <2>1, <3>1, SameSetup DEF PartInv, LeakInv
    <3>3. q \in Known => OrderInv(q)'
      BY <1>0, <2>1, OrderSame DEF PartInv
    <3> QED
      BY <1>0, <3>1, <3>2, <3>3, SameSetup DEF PartInv, ProbingInv, RemovingInv
  <2>3. CASE s.gets # "children"
    <3>1. phase'[q] = phase[q]
      BY <1>0, <2>3
    <3>2. "children" \in ToSet(held["usb"]) => "children" \in ToSet(held'["usb"])
      <4>1. CASE p = "usb"
        BY <1>5, <4>1
      <4>2. CASE p # "usb"
        <5>1. held'["usb"] = held["usb"]
          BY <1>0, <1>1, <4>2 DEF Part
        <5> QED
          BY <5>1
      <4> QED
        BY <4>1, <4>2
    <3> QED
      BY <1>0, <2>1, <3>1, <3>2, Others
  <2> QED
    BY <2>2, <2>3
<1> QED
  BY <1>8, <1>9, <1>10, Zenon DEF Good

LEMMA ProbeWarnStep ==
    ASSUME Good, NEW p \in Part, ProbeWarn(p)
    PROVE  Good'
<1>0. /\ setup' = setup /\ binds' = binds /\ held' = held /\ phase' = phase
      /\ phase[p] = "probing" /\ todo[p] # <<>> /\ Head(todo[p]).fails = "warn"
      /\ todo' = [todo EXCEPT ![p] = Tail(@)]
  BY DEF ProbeWarn
<1>1. /\ setup \in Setups /\ phase \in [Part -> Phase] /\ phase["usb"] # "absent"
      /\ todo = [q \in Part |-> todo[q]] /\ held \in [Part -> Seq(Name)]
      /\ binds \in [Part -> 0 .. MaxBinds]
  BY DEF Good, Typed
<1>2. /\ p \in Known /\ Sound(p) /\ LeakInv(p) /\ ProbingInv(p) /\ RemovingInv(p)
      /\ OrderInv(p) /\ held[p] \in Seq(Name)
  BY <1>0, GoodFacts
<1>3. todo'[p] = Tail(todo[p])
  BY <1>0, <1>1
<1>4. Typed'
  <2>1. todo' = [q \in Part |-> todo'[q]]
    BY <1>0, <1>1
  <2> QED
    BY <1>0, <1>1, <2>1 DEF Typed
<1>5. PartInv(p)'
  <2>1. LeakInv(p)'
    BY <1>0, <1>2, SameSetup DEF LeakInv
  <2>2. ProbingInv(p)'
    <3>1. /\ Steps(p) \in Nat /\ Head(todo[p]) = ProbeOf(p)[Steps(p) + 1]
          /\ 1..(Steps(p) + 1) \subseteq DOMAIN ProbeOf(p)
      BY <1>0, <1>2, NextStep
    <3>2. /\ \A x \in ToSet(held[p]) : Taken(p, Steps(p), x)
          /\ \A a \in 1..Steps(p) : G(p, a) \in Solid(p) => G(p, a) \in ToSet(held[p])
      BY <1>0, <1>2, Zenon DEF ProbingInv
    <3>3. /\ Steps(p) + 1 \in 1..(Steps(p) + 1)
          /\ \A a \in 1..(Steps(p) + 1) : a \in 1..Steps(p) \/ a = Steps(p) + 1
      BY <3>1
    <3>4. G(p, Steps(p) + 1) \notin Solid(p)
      BY <1>0, <1>2, <3>1, <3>3 DEF Sound
    <3>5. \A n \in ToSet(held'[p]) : Taken(p, Steps(p) + 1, n)
      BY <1>0, <3>1, <3>2, TakenMore
    <3>6. \A a \in 1..(Steps(p) + 1) : G(p, a) \in Solid(p) =>
              G(p, a) \in ToSet(held'[p])
      BY <1>0, <3>2, <3>3, <3>4
    <3> QED
      BY <1>0, <1>2, <1>3, <3>5, <3>6, Advance
  <2>3. RemovingInv(p)'
    BY <1>0 DEF RemovingInv
  <2>4. OrderInv(p)'
    BY <1>0, <1>2, OrderSame
  <2> QED
    BY <2>1, <2>2, <2>3, <2>4 DEF PartInv
<1>6. ASSUME NEW q \in Part, q # p PROVE PartInv(q)'
  <2>1. phase'[q] = phase[q] /\ todo'[q] = todo[q] /\ held'[q] = held[q] /\ PartInv(q)
    BY <1>0, <1>1, <1>6 DEF Good
  <2> QED
    BY <1>0, <2>1, Others
<1> QED
  BY <1>4, <1>5, <1>6, Zenon DEF Good

(* A part begins to give back what it has: the list, with devres, is       *)
(* complete.                                                               *)
LEMMA StartsRemoving ==
    ASSUME Good, NEW p \in Known, setup' = setup, held' = held, binds' = binds,
           phase[p] \in {"probing", "bound"},
           phase' = [phase EXCEPT ![p] = "removing"], NEW rs \in Seq(Resource),
           todo' = [todo EXCEPT ![p] = rs], Careful(p, rs),
           \A n \in ToSet(held[p]) : n \in Managed(p) \cup {"drvdata"}
                                       \/ <<p, n>> \in ToSet(rs)
    PROVE  Good'
<1>1. /\ setup \in Setups /\ phase \in [Part -> Phase] /\ phase["usb"] # "absent"
      /\ todo = [q \in Part |-> todo[q]] /\ held \in [Part -> Seq(Name)]
      /\ binds \in [Part -> 0 .. MaxBinds]
  BY DEF Good, Typed
<1>2. p \in Part /\ LeakInv(p) /\ OrderInv(p)
  BY GoodFacts
<1>3. todo'[p] = rs /\ phase'[p] = "removing"
  BY <1>1, <1>2
<1>4. Typed'
  <2>1. phase' \in [Part -> Phase]
    BY <1>1 DEF Phase
  <2>3. phase'["usb"] # "absent"
    <3>1. phase'["usb"] \in {phase["usb"], "removing"}
      BY <1>1, <1>2
    <3> QED
      BY <1>1, <3>1
  <2>2. todo' = [q \in Part |-> todo'[q]]
    BY <1>1
  <2> QED
    BY <1>1, <2>1, <2>2, <2>3 DEF Typed
<1>5. PartInv(p)'
  <2>1. LeakInv(p)'
    BY <1>2, <1>3, SameSetup DEF LeakInv
  <2>2. ProbingInv(p)'
    BY <1>3 DEF ProbingInv
  <2>3. RemovingInv(p)'
    <3>1. Careful(p, todo'[p]) => Careful(p, todo[p])'
      BY CarefulSame, Zenon
    <3> QED
      BY <1>3, <3>1, SameSetup, Zenon DEF RemovingInv
  <2>4. OrderInv(p)'
    BY <1>2, OrderSame
  <2> QED
    BY <2>1, <2>2, <2>3, <2>4 DEF PartInv
<1>6. ASSUME NEW q \in Part, q # p PROVE PartInv(q)'
  <2>1. phase'[q] = phase[q] /\ todo'[q] = todo[q] /\ held'[q] = held[q] /\ PartInv(q)
    BY <1>1, <1>6 DEF Good
  <2> QED
    BY <2>1, Others
<1> QED
  BY <1>4, <1>5, <1>6, Zenon DEF Good

(* devres gives back the memory that lz4_level_store took.                 *)
LEMMA StoredManaged ==
    ASSUME setup \in Setups, NEW p, NEW n, Stored(p, n)
    PROVE  n \in Managed(p)
BY SetupAssumption DEF Stored, Managed

LEMMA ProbeFailStep ==
    ASSUME Good, NEW p \in Part, ProbeFail(p)
    PROVE  Good'
<1> DEFINE s == Head(todo[p])  rs == Of(p, s.undo)
<1>0. /\ setup' = setup /\ binds' = binds /\ held' = held
      /\ phase[p] = "probing" /\ todo[p] # <<>>
      /\ s.fails \in {"abort", "orphan"}
      /\ phase' = [phase EXCEPT ![p] = "removing"]
      /\ todo' = [todo EXCEPT ![p] = rs]
  BY DEF ProbeFail, Orphan
<1>1. p \in Known /\ Sound(p) /\ ProbingInv(p) /\ setup \in Setups
  BY <1>0, GoodFacts
<1>2. /\ Steps(p) \in Nat /\ 1..(Steps(p) + 1) \subseteq DOMAIN ProbeOf(p)
      /\ s = ProbeOf(p)[Steps(p) + 1] /\ s \in StepType
  BY <1>0, <1>1, NextStep
<1> HIDE DEF s
<1>3. s.undo \in Seq(Name)
  BY <1>2 DEF StepType
<1>4. Steps(p) + 1 \in DOMAIN ProbeOf(p)
  <2>1. Steps(p) + 1 \in 1..(Steps(p) + 1)
    BY <1>2
  <2> QED
    BY <1>2, <2>1
<1>5. rs \in Seq(Resource) /\ Careful(p, rs)
  BY <1>1, <1>2, <1>3, <1>4, Resources DEF Sound
<1>6. ASSUME NEW n \in ToSet(held[p])
      PROVE  n \in Managed(p) \cup {"drvdata"} \/ <<p, n>> \in ToSet(rs)
  <2>1. Taken(p, Steps(p), n)
    BY <1>0, <1>1, Zenon DEF ProbingInv
  <2>2. CASE Stored(p, n)
    BY <1>1, <2>2, StoredManaged
  <2>3. CASE \E a \in 1..Steps(p) : n = G(p, a)
    <3>1. PICK a \in 1..Steps(p) : n = G(p, a)
      BY <2>3
    <3>2. a < Steps(p) + 1 /\ a \in DOMAIN ProbeOf(p) /\ n # "none"
      BY <1>2, <2>1, <3>1 DEF Taken
    <3>3. n \in Managed(p) \cup {"drvdata"} \cup ToSet(s.undo)
      BY <1>0, <1>1, <1>2, <1>4, <3>1, <3>2 DEF Sound, Covered
    <3>4. ASSUME n \in ToSet(s.undo) PROVE <<p, n>> \in ToSet(rs)
      BY <3>4 DEF ToSet, Of
    <3> QED
      BY <3>3, <3>4
  <2> QED
    BY <2>1, <2>2, <2>3 DEF Taken
<1> HIDE DEF rs
<1> QED
  BY <1>0, <1>1, <1>5, <1>6, StartsRemoving

LEMMA StartRemoveStep ==
    ASSUME Good, NEW p \in Part, StartRemove(p)
    PROVE  Good'
<1> DEFINE rs == RemoveOf(p)
<1>0. /\ setup' = setup /\ binds' = binds /\ held' = held
      /\ phase[p] = "bound" /\ phase' = [phase EXCEPT ![p] = "removing"]
      /\ todo' = [todo EXCEPT ![p] = rs]
  BY DEF StartRemove
<1>1. p \in Known /\ Sound(p) /\ OrderInv(p) /\ setup \in Setups
  BY <1>0, GoodFacts
<1>2. rs \in Seq(Resource) /\ Careful(p, rs)
  BY <1>1 DEF Sound
<1>3. ASSUME NEW n \in ToSet(held[p])
      PROVE  n \in Managed(p) \cup {"drvdata"} \/ <<p, n>> \in ToSet(rs)
  <2>1. Taken(p, Len(ProbeOf(p)), n)
    BY <1>1, Zenon DEF OrderInv
  <2>2. CASE Stored(p, n)
    BY <1>1, <2>2, StoredManaged
  <2>3. CASE \E a \in 1..Len(ProbeOf(p)) : n = G(p, a)
    <3>1. PICK a \in 1..Len(ProbeOf(p)) : n = G(p, a)
      BY <2>3
    <3>2. ProbeOf(p) \in Seq(StepType) /\ Complete(p)
      BY <1>1 DEF Sound
    <3>3. a \in DOMAIN ProbeOf(p) /\ n # "none"
      BY <2>1, <3>1, <3>2 DEF Taken
    <3>4. \/ n \in Managed(p) \cup {"drvdata"}
          \/ \E i \in DOMAIN rs : rs[i] = <<p, n>>
      BY <3>1, <3>2, <3>3 DEF Complete
    <3> QED
      BY <3>4 DEF ToSet
  <2> QED
    BY <2>1, <2>2, <2>3 DEF Taken
<1> HIDE DEF rs
<1> QED
  BY <1>0, <1>1, <1>2, <1>3, StartsRemoving

LEMMA ProbeDoneStep ==
    ASSUME Good, NEW p \in Part, ProbeDone(p)
    PROVE  Good'
<1>0. /\ setup' = setup /\ binds' = binds /\ held' = held /\ todo' = todo
      /\ phase[p] = "probing" /\ todo[p] = <<>>
      /\ phase' = [phase EXCEPT ![p] = "bound"]
  BY DEF ProbeDone
<1>1. /\ setup \in Setups /\ phase \in [Part -> Phase] /\ phase["usb"] # "absent"
      /\ todo = [q \in Part |-> todo[q]] /\ held \in [Part -> Seq(Name)]
      /\ binds \in [Part -> 0 .. MaxBinds]
  BY DEF Good, Typed
<1>2. p \in Known /\ LeakInv(p) /\ OrderInv(p)
  BY <1>0, GoodFacts
<1>3. Typed'
  <2>1. phase' \in [Part -> Phase] /\ phase'["usb"] # "absent"
    BY <1>0, <1>1 DEF Phase
  <2> QED
    BY <1>0, <1>1, <2>1 DEF Typed
<1>4. PartInv(p)'
  <2>1. phase'[p] = "bound" /\ todo'[p] = <<>>
    BY <1>0, <1>1
  <2>2. LeakInv(p)'
    BY <1>0, <1>2, <2>1, SameSetup DEF LeakInv
  <2>3. OrderInv(p)'
    BY <1>0, <1>2, OrderSame
  <2> QED
    BY <2>1, <2>2, <2>3 DEF PartInv, ProbingInv, RemovingInv
<1>5. ASSUME NEW q \in Part, q # p PROVE PartInv(q)'
  <2>1. phase'[q] = phase[q] /\ todo'[q] = todo[q] /\ held'[q] = held[q] /\ PartInv(q)
    BY <1>0, <1>1, <1>5 DEF Good
  <2> QED
    BY <1>0, <2>1, Others
<1> QED
  BY <1>3, <1>4, <1>5, Zenon DEF Good


(* Of a part that goes no step further only what it holds may matter.      *)
LEMMA ProbingSame ==
    ASSUME setup' = setup, NEW q, phase'[q] = phase[q], todo'[q] = todo[q]
    PROVE  ProbingInv(q)' <=>
               (phase[q] = "probing" =>
                   /\ todo[q] \in Seq(StepType) /\ Steps(q) \in Nat
                   /\ \A i \in DOMAIN todo[q] : todo[q][i] = ProbeOf(q)[Steps(q) + i]
                   /\ \A n \in ToSet(held'[q]) : Taken(q, Steps(q), n)
                   /\ \A a \in 1..Steps(q) : G(q, a) \in Solid(q) =>
                                                 G(q, a) \in ToSet(held'[q]))
<1>1. Steps(q)' = Steps(q)
  BY SameSetup DEF Steps
<1> QED
  BY <1>1, SameSetup, SameOrder, Zenon DEF ProbingInv

(* A part that may have lost a resource that its entry points do not need, *)
(* or is giving back everything.                                           *)
LEMMA Loses ==
    ASSUME setup' = setup, NEW q \in Part, PartInv(q),
           phase'[q] = phase[q], todo'[q] = todo[q],
           held[q] \in Seq(Name), held'[q] \in Seq(Name),
           ToSet(held'[q]) \subseteq ToSet(held[q]),
           \A m \in Solid(q) : m \in ToSet(held[q]) => m \in ToSet(held'[q]),
           q \in Known => OrderInv(q)',
           q # "usb" => ("children" \in ToSet(held["usb"]) =>
                             phase[q] = "absent" \/ "children" \in ToSet(held'["usb"]))
    PROVE  PartInv(q)'
<1>1. LeakInv(q)'
  <2>1. held[q] = <<>> => held'[q] = <<>>
    <3>1. ASSUME held[q] = <<>> PROVE ToSet(held'[q]) = {}
      BY <3>1, EmptyRange
    <3> QED
      BY <3>1, NoElement
  <2> QED
    BY <2>1, SameSetup DEF PartInv, LeakInv
<1>2. ASSUME q \in Known PROVE ProbingInv(q)'
  <2>1. ProbingInv(q)
    BY <1>2 DEF PartInv
  <2>3. ProbingInv(q)' <=>
            (phase[q] = "probing" =>
                /\ todo[q] \in Seq(StepType) /\ Steps(q) \in Nat
                /\ \A i \in DOMAIN todo[q] : todo[q][i] = ProbeOf(q)[Steps(q) + i]
                /\ \A n \in ToSet(held'[q]) : Taken(q, Steps(q), n)
                /\ \A a \in 1..Steps(q) : G(q, a) \in Solid(q) =>
                                              G(q, a) \in ToSet(held'[q]))
    BY ProbingSame, Zenon
  <2>4. /\ \A n : n \in ToSet(held'[q]) => n \in ToSet(held[q])
        /\ \A a : G(q, a) \in Solid(q) /\ G(q, a) \in ToSet(held[q]) =>
                      G(q, a) \in ToSet(held'[q])
    OBVIOUS
  <2> QED
    BY <2>1, <2>3, <2>4, Zenon DEF ProbingInv
<1>3. ASSUME q \in Known PROVE RemovingInv(q)'
  <2>1. RemovingInv(q)
    BY <1>3 DEF PartInv
  <2>2. Careful(q, todo[q]) => Careful(q, todo[q])'
    <3>1. q = "usb" => ("children" \in ToSet(held'["usb"]) =>
                            "children" \in ToSet(held["usb"]))
      OBVIOUS
    <3>2. Careful(q, todo'[q]) => Careful(q, todo[q])'
      BY <3>1, CarefulSame, Zenon
    <3> QED
      BY <3>2
  <2>3. \A n : n \in ToSet(held'[q]) => n \in ToSet(held[q])
    OBVIOUS
  <2> QED
    BY <2>1, <2>2, <2>3, SameSetup, Zenon DEF RemovingInv
<1> QED
  BY <1>1, <1>2, <1>3, SameSetup, Zenon DEF PartInv

(* What a part that gives back resources gives back next is needed by      *)
(* nothing it still has, and only its own if entry points use it.          *)
LEMMA NextGoes ==
    ASSUME Good, NEW p \in Part, phase[p] = "removing",
           NEW q, NEW n, <<q, n>> \in NextRelease(p)
    PROVE  /\ q \in Part /\ n \in Name
           /\ n \in Solid(q) =>
                  /\ q = p
                  /\ \A x \in ToSet(held[q]) :
                         x = n \/ x = "drvdata" \/ ~Before(q, n, x)
<1>1. p \in Known /\ RemovingInv(p) /\ OrderInv(p) /\ Sound(p) /\ held[p] \in Seq(Name)
  BY GoodFacts
<1>2. /\ todo[p] \in Seq(Resource) /\ Careful(p, todo[p])
      /\ \A x \in ToSet(held[p]) : x \in Managed(p) \cup {"drvdata"}
                                       \/ <<p, x>> \in ToSet(todo[p])
  BY <1>1, Zenon DEF RemovingInv
<1>3. CASE todo[p] # <<>>
  <2>1. <<q, n>> = Head(todo[p])
    BY <1>3 DEF NextRelease
  <2>2. /\ <<q, n>> \in Resource /\ <<q, n>> = todo[p][1] /\ 1 \in DOMAIN todo[p]
        /\ DOMAIN todo[p] = 1..Len(todo[p])
    BY <1>2, <1>3, <2>1, Rest
  <2>3. q \in Part /\ n \in Name
    BY <2>2 DEF Resource
  <2>4. ASSUME n \in Solid(q)
        PROVE  /\ q = "usb" /\ n = "wq" /\ p = "usb" /\ setup.driver = "ax206"
               /\ "children" \notin ToSet(held["usb"])
    <3>1. todo[p][1][1] = q /\ todo[p][1][2] = n
      BY <2>2
    <3>2. /\ todo[p][1] = <<"usb", "wq">> /\ p = "usb" /\ setup.driver = "ax206"
          /\ "children" \in ToSet(held["usb"]) =>
                 \E j \in DOMAIN todo[p] : j < 1 /\ todo[p][j] = <<"usb", "children">>
      BY <1>2, <2>2, <2>4, <3>1, Zenon DEF Careful
    <3> QED
      BY <2>2, <3>1, <3>2
  <2>5. ASSUME n \in Solid(q), NEW x \in ToSet(held[q]), Before(q, n, x) PROVE FALSE
    <3>1. PICK a, b \in DOMAIN ProbeOf(p) :
              a < b /\ G(p, a) = "wq" /\ x = G(p, b) /\ x # "none"
      BY <2>4, <2>5 DEF Before
    <3>2. x \in {"children", "none"}
      BY <1>1, <2>4, <2>5, <3>1 DEF Sound, LastIsChildren
    <3> QED
      BY <2>4, <2>5, <3>1, <3>2
  <2> QED
    BY <2>3, <2>4, <2>5
<1>4. CASE todo[p] = <<>>
  <2>1. PICK i \in Kept(p) : <<q, n>> = <<p, held[p][i]>> /\ \A j \in Kept(p) : j <= i
    BY <1>4, Zenon DEF NextRelease
  <2>2. q = p /\ n = held[p][i] /\ i \in DOMAIN held[p] /\ n \in Name
    BY <1>1, <2>1 DEF Kept
  <2>3. ASSUME NEW x \in ToSet(held[p])
        PROVE  x = n \/ x = "drvdata" \/ ~Before(p, n, x)
    <3>1. PICK j \in DOMAIN held[p] : x = held[p][j]
      BY Zenon DEF ToSet
    <3>2. x \in Managed(p) \/ x = "drvdata"
      BY <1>2, <1>4, EmptyRange
    <3>3. CASE x \in Managed(p)
      <4>1. j <= i
        BY <2>1, <3>1, <3>3 DEF Kept
      <4>2. DOMAIN held[p] = 1..Len(held[p])
        BY <1>1
      <4>3. j = i \/ j < i
        BY <2>2, <4>1, <4>2
      <4> QED
        BY <1>1, <2>2, <3>1, <4>3 DEF OrderInv
    <3> QED
      BY <3>2, <3>3
  <2> QED
    BY <2>2, <2>3
<1> QED
  BY <1>3, <1>4

(* It gives back one resource, which nobody is using as an entry point.    *)
LEMMA ReleaseFacts ==
    ASSUME Good, NEW p \in Part, Release(p)
    PROVE  \E q \in Part, n \in Name :
               /\ <<q, n>> \in NextRelease(p) /\ ~Calling(<<q, n>>)
               /\ n = "children" => \A c \in Children : phase[c] = "absent"
               /\ held'[q] = RemoveFirst(held[q], n) /\ held'[q] \in Seq(Name)
               /\ ToSet(held'[q]) = ToSet(held[q]) \ {n}
               /\ \A x \in Part : x # q => held'[x] = held[x]
               /\ held' = [x \in Part |-> held'[x]]
<1>1. PICK r \in NextRelease(p) :
          /\ ~Calling(r)
          /\ r[2] = "children" => \A c \in Children : phase[c] = "absent"
          /\ held' = [held EXCEPT ![r[1]] = RemoveFirst(@, r[2])]
  BY Zenon DEF Release
<1>2. held \in [Part -> Seq(Name)] /\ phase[p] = "removing"
  BY DEF Good, Typed, Release
<1>3. p \in Known /\ RemovingInv(p)
  BY <1>2, GoodFacts
<1>4. todo[p] \in Seq(Resource)
  BY <1>2, <1>3, Zenon DEF RemovingInv
<1> DEFINE q == r[1]  n == r[2]
<1>5. r = <<q, n>>
  <2>1. CASE todo[p] # <<>>
    BY <1>4, <2>1, Rest DEF NextRelease, Resource
  <2>2. CASE todo[p] = <<>>
    BY <2>2 DEF NextRelease
  <2> QED
    BY <2>1, <2>2
<1> HIDE DEF q, n
<1>6. q \in Part /\ n \in Name
  BY <1>2, <1>5, NextGoes
<1>7. /\ held'[q] = RemoveFirst(held[q], n)
      /\ \A x \in Part : x # q => held'[x] = held[x]
      /\ held' = [x \in Part |-> held'[x]]
      /\ n = "children" => \A c \in Children : phase[c] = "absent"
  BY <1>1, <1>2, <1>6 DEF q, n
<1>8. held'[q] \in Seq(Name) /\ ToSet(held'[q]) = ToSet(held[q]) \ {n}
  <2>1. held[q] \in Seq(Name)
    BY <1>2, <1>6
  <2>2. IsInjective(held[q])
    <3>1. CASE q \in Known
      BY <3>1, GoodFacts, Zenon DEF OrderInv
    <3>2. CASE q \notin Known
      <4>1. held[q] = <<>>
        BY <1>6, <3>2, GoodFacts DEF LeakInv
      <4> QED
        BY <4>1 DEF IsInjective
    <3> QED
      BY <3>1, <3>2
  <2> QED
    BY <1>7, <2>1, <2>2, Without
<1> QED
  BY <1>1, <1>5, <1>6, <1>7, <1>8

LEMMA ReleaseStep ==
    ASSUME Good, NEW p \in Part, Release(p)
    PROVE  Good'
<1>1. PICK q \in Part, n \in Name :
          /\ <<q, n>> \in NextRelease(p)
          /\ n = "children" => \A c \in Children : phase[c] = "absent"
          /\ held'[q] = RemoveFirst(held[q], n) /\ held'[q] \in Seq(Name)
          /\ ToSet(held'[q]) = ToSet(held[q]) \ {n}
          /\ \A x \in Part : x # q => held'[x] = held[x]
          /\ held' = [x \in Part |-> held'[x]]
  BY ReleaseFacts, Zenon
<1>0. /\ setup' = setup /\ binds' = binds /\ phase' = phase /\ phase[p] = "removing"
      /\ todo' = [todo EXCEPT ![p] = IF @ = <<>> THEN @ ELSE Tail(@)]
  BY DEF Release
<1>2. /\ setup \in Setups /\ phase \in [Part -> Phase] /\ phase["usb"] # "absent"
      /\ todo = [x \in Part |-> todo[x]] /\ held \in [Part -> Seq(Name)]
      /\ binds \in [Part -> 0 .. MaxBinds]
  BY DEF Good, Typed
<1>3. p \in Known /\ RemovingInv(p) /\ OrderInv(p) /\ LeakInv(p) /\ held[p] \in Seq(Name)
  BY <1>0, GoodFacts
<1>4. /\ todo[p] \in Seq(Resource) /\ Careful(p, todo[p])
      /\ \A x \in ToSet(held[p]) : x \in Managed(p) \cup {"drvdata"}
                                       \/ <<p, x>> \in ToSet(todo[p])
  BY <1>0, <1>3, Zenon DEF RemovingInv
<1>6. n \in Solid(q) =>
          /\ q = p
          /\ \A x \in ToSet(held[q]) : x = n \/ x = "drvdata" \/ ~Before(q, n, x)
  BY <1>0, <1>1, NextGoes
<1>9. \A x \in Part : held'[x] \in Seq(Name) /\ ToSet(held'[x]) \subseteq ToSet(held[x])
  BY <1>1, <1>2
<1>10. \A x \in Known : OrderInv(x)'
  <2>1. ASSUME NEW x \in Known, x # q PROVE OrderInv(x)'
    BY <1>0, <1>1, <2>1, GoodFacts, OrderSame
  <2>2. ASSUME q \in Known PROVE OrderInv(q)'
    <3>1. OrderInv(q) /\ held[q] \in Seq(Name)
      BY <2>2, GoodFacts
    <3> QED
      BY <1>0, <1>6, <1>1, <3>1, OrderWithout
  <2> QED
    BY <2>1, <2>2
<1>11. \A x \in Part : x # "usb" /\ phase[x] # "absent" =>
           ("children" \in ToSet(held["usb"]) => "children" \in ToSet(held'["usb"]))
  <2>1. ASSUME NEW x \in Part, x # "usb", phase[x] # "absent" PROVE n # "children"
    BY <1>1, <2>1 DEF Part
  <2> QED
    BY <1>1, <2>1 DEF Part
<1>12. Typed'
  <2>1. todo' = [x \in Part |-> todo'[x]]
    BY <1>0, <1>2
  <2>2. held' \in [Part -> Seq(Name)]
    BY <1>1, <1>9
  <2> QED
    BY <1>0, <1>2, <2>1, <2>2 DEF Typed
<1>13. PartInv(p)'
  <2>1. LeakInv(p)'
    BY <1>0, <1>3, <1>11, SameSetup DEF LeakInv
  <2>2. ProbingInv(p)'
    BY <1>0 DEF ProbingInv
  <2>3. RemovingInv(p)'
    <3>1. CASE todo[p] = <<>>
      <4>1. todo'[p] = todo[p]
        BY <1>0, <1>2, <3>1
      <4>2. ToSet(todo[p]) = {} /\ DOMAIN todo[p] = {}
        BY <1>4, <3>1, EmptyRange
      <4>3. \A x \in ToSet(held'[p]) : x \in Managed(p) \cup {"drvdata"}
        BY <1>4, <1>9, <4>2
      <4>4. Careful(p, todo[p])'
        BY <4>1, <4>2 DEF Careful
      <4> QED
        BY <1>0, <1>4, <4>1, <4>3, <4>4, SameSetup DEF RemovingInv
    <3>2. CASE todo[p] # <<>>
      <4> DEFINE t == todo'[p]
      <4>1. /\ Head(todo[p]) = todo[p][1] /\ Tail(todo[p]) \in Seq(Resource)
            /\ Len(todo[p]) \in Nat \ {0} /\ DOMAIN todo[p] = 1..Len(todo[p])
            /\ DOMAIN Tail(todo[p]) = 1..(Len(todo[p]) - 1)
            /\ \A i \in 1..(Len(todo[p]) - 1) : Tail(todo[p])[i] = todo[p][i + 1]
            /\ ToSet(todo[p]) = {Head(todo[p])} \cup ToSet(Tail(todo[p]))
        BY <1>4, <3>2, Rest
      <4>6. t = Tail(todo[p])
        BY <1>0, <1>2, <3>2
      <4>7. <<q, n>> = Head(todo[p])
        BY <1>1, <3>2 DEF NextRelease
      <4> HIDE DEF t
      <4>2. /\ <<q, n>> = todo[p][1] /\ t \in Seq(Resource)
            /\ Len(todo[p]) \in Nat \ {0} /\ DOMAIN todo[p] = 1..Len(todo[p])
            /\ DOMAIN t = 1..(Len(todo[p]) - 1)
            /\ \A i \in 1..(Len(todo[p]) - 1) : t[i] = todo[p][i + 1]
            /\ ToSet(todo[p]) = {<<q, n>>} \cup ToSet(t)
        BY <4>1, <4>6, <4>7, Zenon
      <4>3. ASSUME NEW x \in ToSet(held'[p])
            PROVE  x \in Managed(p) \cup {"drvdata"} \/ <<p, x>> \in ToSet(t)
        <5>1. x \in ToSet(held[p])
          BY <1>9
        <5>2. <<p, x>> # <<q, n>>
          <6>1. ASSUME <<p, x>> = <<q, n>> PROVE FALSE
            <7>1. q = p /\ n = x
              BY <6>1
            <7> QED
              BY <1>1, <4>3, <7>1
          <6> QED
            BY <6>1
        <5> QED
          BY <1>4, <4>2, <5>1, <5>2
      <4>4. ASSUME NEW i \in DOMAIN t, t[i][2] \in Solid(t[i][1])
            PROVE  /\ t[i] = <<"usb", "wq">> /\ p = "usb" /\ setup.driver = "ax206"
                   /\ "children" \in ToSet(held'["usb"]) =>
                          \E j \in DOMAIN t : j < i /\ t[j] = <<"usb", "children">>
        <5>1. i + 1 \in DOMAIN todo[p] /\ t[i] = todo[p][i + 1]
          BY <4>2
        <5>2. /\ t[i] = <<"usb", "wq">> /\ p = "usb" /\ setup.driver = "ax206"
              /\ "children" \in ToSet(held["usb"]) =>
                     \E j \in DOMAIN todo[p] :
                         j < i + 1 /\ todo[p][j] = <<"usb", "children">>
          BY <1>4, <4>4, <5>1 DEF Careful
        <5>3. ASSUME "children" \in ToSet(held'["usb"])
              PROVE  \E j \in DOMAIN t : j < i /\ t[j] = <<"usb", "children">>
          <6>1. PICK j \in DOMAIN todo[p] :
                    j < i + 1 /\ todo[p][j] = <<"usb", "children">>
            BY <1>9, <5>2, <5>3
          <6>2. j # 1
            <7>1. ASSUME j = 1 PROVE FALSE
              <8>1. q = "usb" /\ n = "children"
                BY <4>2, <6>1, <7>1
              <8> QED
                BY <1>1, <5>3, <8>1
            <7> QED
              BY <7>1
          <6>3. j - 1 \in DOMAIN t /\ j - 1 < i /\ (j - 1) + 1 = j
            BY <4>2, <6>1, <6>2
          <6> QED
            BY <4>2, <6>1, <6>3
        <5> QED
          BY <5>2, <5>3
      <4>5. Careful(p, todo[p])'
        BY <1>0, <4>4 DEF Careful, Solid, t
      <4> QED
        BY <1>0, <4>2, <4>3, <4>5, SameSetup, Zenon DEF RemovingInv, t
    <3> QED
      BY <3>1, <3>2
  <2> QED
    BY <1>10, <2>1, <2>2, <2>3, SameSetup, <1>0, Zenon DEF PartInv
<1>14. ASSUME NEW x \in Part, x # p PROVE PartInv(x)'
  <2>1. phase'[x] = phase[x] /\ todo'[x] = todo[x] /\ PartInv(x) /\ held[x] \in Seq(Name)
    BY <1>0, <1>2, <1>14 DEF Good
  <2>2. \A m \in Solid(x) : m \in ToSet(held[x]) => m \in ToSet(held'[x])
    <3>1. CASE x = q
      <4>1. n \notin Solid(x)
        BY <1>6, <1>14, <3>1
      <4> QED
        BY <1>1, <3>1, <4>1
    <3>2. CASE x # q
      BY <1>1, <3>2
    <3> QED
      BY <3>1, <3>2
  <2> QED
    BY <1>0, <1>9, <1>10, <1>11, <2>1, <2>2, Loses
<1> QED
  BY <1>12, <1>13, <1>14, Zenon DEF Good

LEMMA ReleasedStep ==
    ASSUME Good, NEW p \in Part, Released(p)
    PROVE  Good'
<1>0. /\ setup' = setup /\ binds' = binds /\ todo' = todo
      /\ phase[p] = "removing" /\ todo[p] = <<>> /\ Kept(p) = {}
      /\ phase' = [phase EXCEPT ![p] = "unbound"]
      /\ held' = [held EXCEPT ![p] = RemoveFirst(@, "drvdata")]
  BY DEF Released
<1>1. /\ setup \in Setups /\ phase \in [Part -> Phase] /\ phase["usb"] # "absent"
      /\ todo = [q \in Part |-> todo[q]] /\ held \in [Part -> Seq(Name)]
      /\ binds \in [Part -> 0 .. MaxBinds]
  BY DEF Good, Typed
<1>2. p \in Known /\ RemovingInv(p) /\ OrderInv(p) /\ LeakInv(p) /\ held[p] \in Seq(Name)
  BY <1>0, GoodFacts
<1>3. /\ phase'[p] = "unbound" /\ todo'[p] = <<>>
      /\ held'[p] = RemoveFirst(held[p], "drvdata")
  BY <1>0, <1>1
<1>4. ToSet(held[p]) \subseteq {"drvdata"}
  <2>1. ASSUME NEW x \in ToSet(held[p]) PROVE x = "drvdata"
    <3>1. x \in Managed(p) \/ x = "drvdata"
      BY <1>0, <1>2, EmptyRange DEF RemovingInv
    <3>2. x \notin Managed(p)
      BY <1>0, Zenon DEF Kept, ToSet
    <3> QED
      BY <3>1, <3>2
  <2> QED
    BY <2>1
<1>5. /\ OrderInv(p)' /\ held'[p] \in Seq(Name)
      /\ ToSet(held'[p]) = ToSet(held[p]) \ {"drvdata"}
  <2>1. \A x \in ToSet(held[p]) : x = "drvdata"
    BY <1>4
  <2> QED
    BY <1>0, <1>2, <1>3, <2>1, OrderWithout
<1>6. held'[p] = <<>>
  BY <1>4, <1>5, NoElement
<1>7. p = "usb" => \A x \in Part : x # "usb" => phase[x] = "absent"
  <2>1. "children" \in ToSet(held["usb"]) => p # "usb"
    BY <1>4
  <2> QED
    BY <2>1, GoodFacts DEF LeakInv
<1>8. Typed'
  <2>1. phase' \in [Part -> Phase]
    BY <1>0, <1>1 DEF Phase
  <2>2. phase'["usb"] # "absent"
    <3>1. phase'["usb"] \in {phase["usb"], "unbound"}
      BY <1>0, <1>1
    <3> QED
      BY <1>1, <3>1
  <2>3. held' \in [Part -> Seq(Name)]
    BY <1>0, <1>1, <1>5
  <2> QED
    BY <1>0, <1>1, <2>1, <2>2, <2>3 DEF Typed
<1>9. PartInv(p)'
  <2>1. p # "usb" => held'["usb"] = held["usb"]
    BY <1>0, <1>1 DEF Part
  <2>2. LeakInv(p)'
    BY <1>0, <1>2, <1>3, <1>6, <2>1, SameSetup DEF LeakInv
  <2> QED
    BY <1>3, <1>5, <2>2 DEF PartInv, ProbingInv, RemovingInv
<1>10. ASSUME NEW q \in Part, q # p PROVE PartInv(q)'
  <2>1. phase'[q] = phase[q] /\ todo'[q] = todo[q] /\ held'[q] = held[q] /\ PartInv(q)
    BY <1>0, <1>1, <1>10 DEF Good
  <2>2. q # "usb" => phase[q] = "absent" \/ held'["usb"] = held["usb"]
    BY <1>0, <1>1, <1>7 DEF Part
  <2> QED
    BY <1>0, <2>1, <2>2, Others
<1> QED
  BY <1>8, <1>9, <1>10, Zenon DEF Good

LEMMA UnregisterChildStep ==
    ASSUME Good, NEW p \in Children, UnregisterChild(p)
    PROVE  Good'
<1>0. /\ setup' = setup /\ binds' = binds /\ held' = held /\ todo' = todo
      /\ phase[p] = "unbound" /\ phase' = [phase EXCEPT ![p] = "absent"]
      /\ p \in Part /\ p # "usb"
  BY DEF UnregisterChild, Children, Part
<1>1. /\ setup \in Setups /\ phase \in [Part -> Phase] /\ phase["usb"] # "absent"
      /\ todo = [q \in Part |-> todo[q]] /\ held \in [Part -> Seq(Name)]
      /\ binds \in [Part -> 0 .. MaxBinds]
  BY DEF Good, Typed
<1>2. LeakInv(p) /\ (p \in Known => OrderInv(p))
  BY <1>0, GoodFacts
<1>3. phase'[p] = "absent"
  BY <1>0, <1>1
<1>4. Typed'
  <2>1. phase' \in [Part -> Phase] /\ phase'["usb"] # "absent"
    BY <1>0, <1>1 DEF Phase, Part
  <2> QED
    BY <1>0, <1>1, <2>1 DEF Typed
<1>5. PartInv(p)'
  <2>1. LeakInv(p)'
    BY <1>0, <1>2, <1>3, SameSetup DEF LeakInv
  <2>2. p \in Known => OrderInv(p)'
    BY <1>0, <1>2, OrderSame
  <2> QED
    BY <1>0, <1>3, <2>1, <2>2, SameSetup DEF PartInv, ProbingInv, RemovingInv
<1>6. ASSUME NEW q \in Part, q # p PROVE PartInv(q)'
  <2>1. phase'[q] = phase[q] /\ todo'[q] = todo[q] /\ held'[q] = held[q] /\ PartInv(q)
    BY <1>0, <1>1, <1>6 DEF Good
  <2> QED
    BY <1>0, <2>1, Others
<1> QED
  BY <1>4, <1>5, <1>6, Zenon DEF Good

(* The memory for LZ4 comes last, and nothing waits for it.                *)
LEMMA StoreStep ==
    ASSUME Good, CallsInv, lz4_level_store, ~DevresRuns
    PROVE  Good'
<1>0. /\ setup' = setup /\ binds' = binds /\ todo' = todo /\ phase' = phase
      /\ setup.lz4 = "store" /\ "lz4" \notin ToSet(held["usb"])
      /\ held' = [held EXCEPT !["usb"] = Append(@, "lz4")]
  BY DEF lz4_level_store, TakeLz4, Has, Lz4
<1>1. /\ setup \in Setups /\ phase \in [Part -> Phase] /\ phase["usb"] # "absent"
      /\ todo = [q \in Part |-> todo[q]] /\ held \in [Part -> Seq(Name)]
      /\ binds \in [Part -> 0 .. MaxBinds]
  BY DEF Good, Typed
<1>2. /\ "usb" \in Known /\ "usb" \in Part /\ ProbingInv("usb") /\ RemovingInv("usb")
      /\ OrderInv("usb") /\ LeakInv("usb") /\ held["usb"] \in Seq(Name) /\ Sound("usb")
  BY GoodFacts
<1>3. phase["usb"] \notin {"absent", "unbound"}
  <2>1. PICK c \in calls : c.entry = <<"usb", "sysfs">>
    BY DEF lz4_level_store, TakeLz4, Calling
  <2>2. Has(c.entry)
    BY DEF CallsInv, CallOK
  <2>3. "sysfs" \in ToSet(held["usb"])
    BY <2>1, <2>2 DEF Has
  <2> QED
    BY <1>2, <2>3, EmptyRange DEF LeakInv
<1>4. held'["usb"] = Append(held["usb"], "lz4")
  BY <1>0, <1>1, <1>2
<1>5. Stored("usb", "lz4") /\ "lz4" \in Name
  BY <1>0 DEF Stored, Name
<1>6. \A x : ~Before("usb", "lz4", x) /\ ~Before("usb", x, "lz4")
  BY <1>0, <1>2 DEF Before, Sound, LastIsChildren
<1>7. /\ OrderInv("usb")' /\ held'["usb"] \in Seq(Name)
      /\ ToSet(held'["usb"]) = ToSet(held["usb"]) \cup {"lz4"}
  <2>1. Taken("usb", Len(ProbeOf("usb")), "lz4")
    BY <1>5 DEF Taken
  <2> QED
    BY <1>0, <1>2, <1>4, <1>5, <1>6, <2>1, OrderAdded
<1>8. Typed'
  <2>1. held' \in [Part -> Seq(Name)]
    BY <1>0, <1>1, <1>7
  <2> QED
    BY <1>0, <1>1, <2>1 DEF Typed
<1>9. PartInv("usb")'
  <2>1. LeakInv("usb")'
    BY <1>0, <1>2, <1>3, SameSetup DEF LeakInv
  <2>2. ProbingInv("usb")'
    <3>2. \A k : Taken("usb", k, "lz4")
      BY <1>5 DEF Taken
    <3>3. ProbingInv("usb")' <=>
              (phase["usb"] = "probing" =>
                  /\ todo["usb"] \in Seq(StepType) /\ Steps("usb") \in Nat
                  /\ \A i \in DOMAIN todo["usb"] :
                         todo["usb"][i] = ProbeOf("usb")[Steps("usb") + i]
                  /\ \A n \in ToSet(held'["usb"]) : Taken("usb", Steps("usb"), n)
                  /\ \A a \in 1..Steps("usb") : G("usb", a) \in Solid("usb") =>
                                            G("usb", a) \in ToSet(held'["usb"]))
      BY <1>0, ProbingSame, Zenon
    <3>4. /\ \A n : n \in ToSet(held'["usb"]) <=> n \in ToSet(held["usb"]) \/ n = "lz4"
      BY <1>7
    <3> QED
      BY <1>2, <3>2, <3>3, <3>4, Zenon DEF ProbingInv
  <2>3. RemovingInv("usb")'
    <3>1. Careful("usb", todo["usb"]) => Careful("usb", todo["usb"])'
      <4>1. "children" \in ToSet(held'["usb"]) => "children" \in ToSet(held["usb"])
        BY <1>7
      <4>2. Careful("usb", todo'["usb"]) => Careful("usb", todo["usb"])'
        BY <1>0, <4>1, CarefulSame, Zenon
      <4> QED
        BY <1>0, <4>2
    <3>2. "lz4" \in Managed("usb")
      BY <1>1, <1>5, StoredManaged
    <3>3. \A n : n \in ToSet(held'["usb"]) => n \in ToSet(held["usb"]) \/ n = "lz4"
      BY <1>7
    <3>4. RemovingInv("usb")' <=>
              (phase["usb"] = "removing" =>
                  /\ todo["usb"] \in Seq(Resource) /\ Careful("usb", todo["usb"])'
                  /\ \A n \in ToSet(held'["usb"]) :
                         n \in Managed("usb") \cup {"drvdata"}
                             \/ <<"usb", n>> \in ToSet(todo["usb"]))
      BY <1>0, SameSetup, Zenon DEF RemovingInv
    <3>5. "lz4" \in Managed("usb") \cup {"drvdata"}
      BY <3>2
    <3> QED
      BY <1>2, <3>1, <3>3, <3>4, <3>5, Zenon DEF RemovingInv
  <2> QED
    BY <1>7, <2>1, <2>2, <2>3 DEF PartInv
<1>10. ASSUME NEW q \in Part, q # "usb" PROVE PartInv(q)'
  <2>1. phase'[q] = phase[q] /\ todo'[q] = todo[q] /\ held'[q] = held[q] /\ PartInv(q)
    BY <1>0, <1>1, <1>10 DEF Good
  <2> QED
    BY <1>0, <1>7, <2>1, Others
<1> QED
  BY <1>8, <1>9, <1>10, Zenon DEF Good

(* A step that leaves the parts as they are.                               *)
LEMMA GoodSame ==
    ASSUME Good, UNCHANGED <<setup, phase, todo, held, binds>>
    PROVE  Good'
<1>1. Typed'
  BY DEF Good, Typed
<1>2. ASSUME NEW q \in Part PROVE PartInv(q)'
  BY Others DEF Good
<1> QED
  BY <1>1, <1>2, Zenon DEF Good

LEMMA GoodStep ==
    ASSUME Inv, [Next]_vars
    PROVE  Good'
<1>0. Good /\ CallsInv
  BY DEF Inv
<1>1. CASE UNCHANGED vars
  BY <1>0, <1>1, GoodSame DEF vars
<1>2. ASSUME NEW p \in Part, PartStep(p) PROVE Good'
  BY <1>0, <1>2, BindStep, ProbeStepStep, ProbeWarnStep, ProbeFailStep, ProbeDoneStep,
     ReleaseStep, ReleasedStep, Zenon DEF PartStep
<1>3. CASE Disconnect
  BY <1>0, <1>3, StartRemoveStep DEF Disconnect, Part
<1>4. ASSUME NEW c \in Children, Unbind(c) \/ RemoveChild(c) \/ UnregisterChild(c)
      PROVE  Good'
  <2>1. c \in Part
    BY DEF Part
  <2> QED
    BY <1>0, <1>4, <2>1, StartRemoveStep, UnregisterChildStep DEF Unbind, RemoveChild
<1>5. ASSUME NEW u \in Uses, Call(u) PROVE Good'
  BY <1>0, <1>5, GoodSame DEF Call
<1>6. ASSUME NEW c \in calls, Return(c) PROVE Good'
  BY <1>0, <1>6, GoodSame DEF Return
<1>7. CASE lz4_level_store
  <2>1. CASE DevresRuns
    BY <1>0, <1>7, <2>1, GoodSame DEF lz4_level_store, TakeLz4
  <2> QED
    BY <1>0, <1>7, <2>1, StoreStep
<1>8. CASE Over
  BY <1>0, <1>8, GoodSame DEF Over, vars
<1> QED
  BY <1>1, <1>2, <1>3, <1>4, <1>5, <1>6, <1>7, <1>8, Zenon DEF Next

-----------------------------------------------------------------------------
(* What entry points use.                                                  *)

(* What the entry points of mpro's USB driver need comes before them.      *)
LEMMA Order_mpro_usb_probe ==
    ASSUME setup.driver = "mpro"
    PROVE  /\ \A m \in {"mem", "wq", "touch"} : Before("usb", m, "children")
           /\ Before("usb", "mem", "sysfs")
           /\ setup.lz4 = "boot" => Before("usb", "lz4", "children")
<1>p. ProbeOf("usb") = mpro_usb_probe
  BY DEF ProbeOf
<1>1. /\ DOMAIN ProbeOf("usb") = 1..10
      /\ G("usb", 1) = "mem"
      /\ G("usb", 5) = "wq"
      /\ G("usb", 6) = "touch"
      /\ G("usb", 7) = "sysfs"
      /\ G("usb", 9) = "children"
      /\ (setup.lz4 = "boot" => G("usb", 4) = "lz4")
  BY <1>p DEF G, mpro_usb_probe, Step, Set, Must, MustOr, Try, Check,
            Parent, mpro_setup_lz4
<1> QED
  BY <1>1 DEF Before

(* What the entry points of mpro's DRM child need comes before them.       *)
LEMMA Order_mpro_drm__probe ==
    ASSUME setup.driver = "mpro"
    PROVE  /\ \A m \in {"mem", "data"}, n \in {"card", "modeset", "listener", "sysfs"} :
                  Before("drm", m, n)
           /\ Before("drm", "drvdata", "sysfs")
<1>p. ProbeOf("drm") = mpro_drm__probe
  BY DEF ProbeOf
<1>1. /\ DOMAIN ProbeOf("drm") = 1..13
      /\ G("drm", 2) = "mem"
      /\ G("drm", 3) = "drvdata"
      /\ G("drm", 5) = "data"
      /\ G("drm", 9) = "card"
      /\ G("drm", 10) = "modeset"
      /\ G("drm", 11) = "listener"
      /\ G("drm", 12) = "sysfs"
  BY <1>p DEF G, mpro_drm__probe, Step, Set, Must, MustOr, Try, Check,
            Parent
<1> QED
  BY <1>1 DEF Before

(* What the entry points of mpro's touchscreen child need comes before them.*)
LEMMA Order_mpro_ts__probe ==
    ASSUME setup.driver = "mpro"
    PROVE  /\ \A n \in {"input", "listener", "touch_listener"} : Before("ts", "mem", n)
           /\ Before("ts", "input_dev", "listener")
           /\ Before("ts", "input", "touch_listener")
<1>p. ProbeOf("ts") = mpro_ts__probe
  BY DEF ProbeOf
<1>1. /\ DOMAIN ProbeOf("ts") = 1..7
      /\ G("ts", 2) = "mem"
      /\ G("ts", 3) = "input_dev"
      /\ G("ts", 4) = "input"
      /\ G("ts", 5) = "listener"
      /\ G("ts", 6) = "touch_listener"
  BY <1>p DEF G, mpro_ts__probe, Step, Set, Must, MustOr, Try, Check,
            Parent
<1> QED
  BY <1>1 DEF Before

(* What the entry points of mpro's backlight child need comes before them. *)
LEMMA Order_mpro_bl__probe ==
    ASSUME setup.driver = "mpro"
    PROVE  /\ \A n \in {"class", "listener", "sysfs"} : Before("bl", "mem", n)
           /\ Before("bl", "drvdata", "sysfs")
<1>p. ProbeOf("bl") = mpro_bl__probe
  BY DEF ProbeOf
<1>1. /\ DOMAIN ProbeOf("bl") = 1..6
      /\ G("bl", 2) = "mem"
      /\ G("bl", 3) = "class"
      /\ G("bl", 4) = "drvdata"
      /\ G("bl", 5) = "listener"
      /\ G("bl", 6) = "sysfs"
  BY <1>p DEF G, mpro_bl__probe, Step, Set, Must, MustOr, Try, Check,
            Parent
<1> QED
  BY <1>1 DEF Before

(* What the entry points of beada's USB driver need comes before them.     *)
LEMMA Order_beada_probe ==
    ASSUME setup.driver = "beada"
    PROVE  /\ \A m \in {"mem", "bufs"} : Before("usb", m, "sysfs")
           /\ \A m \in {"mem", "bufs", "frame_buf", "wq"} : Before("usb", m, "children")
<1>p. ProbeOf("usb") = beada_probe
  BY DEF ProbeOf
<1>1. /\ DOMAIN ProbeOf("usb") = 1..11
      /\ G("usb", 2) = "mem"
      /\ G("usb", 4) = "bufs"
      /\ G("usb", 5) = "frame_buf"
      /\ G("usb", 7) = "wq"
      /\ G("usb", 8) = "sysfs"
      /\ G("usb", 10) = "children"
  BY <1>p DEF G, beada_probe, Step, Set, Must, MustOr, Try, Check,
            Parent
<1> QED
  BY <1>1 DEF Before

(* What the entry points of beada's DRM child need comes before them.      *)
LEMMA Order_beada_drm_probe ==
    ASSUME setup.driver = "beada"
    PROVE  /\ \A m \in {"mem", "data"}, n \in {"card", "modeset", "listener"} :
                  Before("drm", m, n)
           /\ \A m \in {"mem", "drvdata", "kms_objects"} : Before("drm", m, "sysfs")
<1>p. ProbeOf("drm") = beada_drm_probe
  BY DEF ProbeOf
<1>1. /\ DOMAIN ProbeOf("drm") = 1..10
      /\ G("drm", 2) = "mem"
      /\ G("drm", 3) = "drvdata"
      /\ G("drm", 4) = "data"
      /\ G("drm", 6) = "kms_objects"
      /\ G("drm", 7) = "listener"
      /\ G("drm", 8) = "card"
      /\ G("drm", 9) = "modeset"
      /\ G("drm", 10) = "sysfs"
  BY <1>p DEF G, beada_drm_probe, Step, Set, Must, MustOr, Try, Check,
            Parent
<1> QED
  BY <1>1 DEF Before

(* What the entry points of beada's backlight child need comes before them.*)
LEMMA Order_beada_backlight_probe ==
    ASSUME setup.driver = "beada"
    PROVE  /\ \A n \in {"class", "listener", "sysfs"} : Before("bl", "mem", n)
           /\ Before("bl", "class", "sysfs")
<1>p. ProbeOf("bl") = beada_backlight_probe
  BY DEF ProbeOf
<1>1. /\ DOMAIN ProbeOf("bl") = 1..7
      /\ G("bl", 3) = "mem"
      /\ G("bl", 4) = "class"
      /\ G("bl", 6) = "listener"
      /\ G("bl", 7) = "sysfs"
  BY <1>p DEF G, beada_backlight_probe, Step, Set, Must, MustOr, Try, Check,
            Parent
<1> QED
  BY <1>1 DEF Before

(* What the entry points of ax206's USB driver need comes before them.     *)
LEMMA Order_ax206_probe ==
    ASSUME setup.driver = "ax206"
    PROVE  /\ \A m \in {"mem", "wq"} : Before("usb", m, "children")
<1>p. ProbeOf("usb") = ax206_probe
  BY DEF ProbeOf
<1>1. /\ DOMAIN ProbeOf("usb") = 1..6
      /\ G("usb", 1) = "mem"
      /\ G("usb", 4) = "wq"
      /\ G("usb", 5) = "children"
  BY <1>p DEF G, ax206_probe, Step, Set, Must, MustOr, Try, Check,
            Parent
<1> QED
  BY <1>1 DEF Before

(* What the entry points of ax206's DRM child need comes before them.      *)
LEMMA Order_ax206_drm_probe ==
    ASSUME setup.driver = "ax206"
    PROVE  /\ \A m \in {"mem", "data"}, n \in {"card", "modeset"} :
                  Before("drm", m, n)
           /\ \A m \in {"mem", "drvdata"} : Before("drm", m, "sysfs")
<1>p. ProbeOf("drm") = ax206_drm_probe
  BY DEF ProbeOf
<1>1. /\ DOMAIN ProbeOf("drm") = 1..8
      /\ G("drm", 1) = "mem"
      /\ G("drm", 2) = "data"
      /\ G("drm", 5) = "drvdata"
      /\ G("drm", 6) = "sysfs"
      /\ G("drm", 7) = "card"
      /\ G("drm", 8) = "modeset"
  BY <1>p DEF G, ax206_drm_probe, Step, Set, Must, MustOr, Try, Check,
            Parent
<1> QED
  BY <1>1 DEF Before

(* An entry point is a resource of its part; what it uses is the part's    *)
(* own and comes before it, or is the USB driver's and comes before the    *)
(* children.                                                               *)
UseOK(u) ==
    /\ u = [entry |-> u.entry, uses |-> u.uses]
    /\ u.entry = <<u.entry[1], u.entry[2]>> /\ u.entry \in Resource
    /\ u.entry[2] # "drvdata" /\ u.uses \subseteq Resource
    /\ \A r \in u.uses : r = <<r[1], r[2]>>
    /\ \A r \in u.uses \ TooEarly :
           /\ r[2] \in Solid(r[1])
           /\ IF r[1] = u.entry[1] THEN Before(r[1], r[2], u.entry[2])
              ELSE r[1] = "usb" /\ Before("usb", r[2], "children")
    /\ <<"usb", "wq">> \in u.uses => u.entry[1] # "usb"

LEMMA UsesOK ==
    ASSUME NEW p \in Part, NEW n \in Name, n # "drvdata",
           NEW own \in SUBSET Name, NEW usb \in SUBSET Name,
           p = "usb" => usb = {} /\ "wq" \notin own,
           \A m \in own : <<p, m>> \in TooEarly
                \/ (m \in Solid(p) /\ Before(p, m, n)),
           \A m \in usb : m \in Solid("usb") /\ Before("usb", m, "children")
    PROVE  UseOK(Use(<<p, n>>, Its(p, own) \cup Its("usb", usb)))
<1> DEFINE u == Use(<<p, n>>, Its(p, own) \cup Its("usb", usb))
<1>1. /\ u = [entry |-> u.entry, uses |-> u.uses]
      /\ u.entry = <<p, n>> /\ u.uses = Its(p, own) \cup Its("usb", usb)
  BY DEF Use
<1> HIDE DEF u
<1>2. "usb" \in Part
  BY DEF Part
<1>3. u.entry \in Resource /\ u.entry[1] = p /\ u.entry[2] = n
  BY <1>1 DEF Resource
<1>4. u.uses \subseteq Resource
  BY <1>1, <1>2 DEF Its, Resource
<1>5. ASSUME NEW r \in u.uses
      PROVE  /\ r = <<r[1], r[2]>>
             /\ \/ r[1] = p /\ r[2] \in own
                \/ r[1] = "usb" /\ r[2] \in usb
  <2>1. CASE r \in Its(p, own)
    <3>1. PICK m \in own : r = <<p, m>>
      BY <2>1 DEF Its
    <3>2. r[1] = p /\ r[2] = m
      BY <3>1
    <3> QED
      BY <3>1, <3>2, Zenon
  <2>2. CASE r \in Its("usb", usb)
    <3>1. PICK m \in usb : r = <<"usb", m>>
      BY <2>2 DEF Its
    <3>2. r[1] = "usb" /\ r[2] = m
      BY <3>1
    <3> QED
      BY <3>1, <3>2, Zenon
  <2> QED
    BY <1>1, <2>1, <2>2
<1>6. ASSUME NEW r \in u.uses \ TooEarly
      PROVE  /\ r[2] \in Solid(r[1])
             /\ IF r[1] = p THEN Before(r[1], r[2], n)
                ELSE r[1] = "usb" /\ Before("usb", r[2], "children")
  BY <1>5, <1>6
<1>7. ASSUME <<"usb", "wq">> \in u.uses PROVE p # "usb"
  BY <1>5, <1>7
<1>8. UseOK(u)
  BY <1>1, <1>3, <1>4, <1>5, <1>6, <1>7, Zenon DEF UseOK
<1> QED
  BY <1>8 DEF u

LEMMA Uses_mpro ==
    ASSUME setup.driver = "mpro"
    PROVE  \A u \in Uses : UseOK(u)
<1>1. Uses = mproUses
  BY DEF Uses
<1>2. UseOK(Use(<<"usb", "sysfs">>, Its("usb", {"mem", "drvdata"})
          \cup Its("usb", {})))
  <2>1. /\ "usb" \in Part /\ "sysfs" \in Name
        /\ {"mem", "drvdata"} \in SUBSET Name /\ {} \in SUBSET Name
    BY DEF Part, Children, Name
  <2>2. \A m \in {"mem", "drvdata"} :
            <<"usb", m>> \in TooEarly
                \/ (m \in Solid("usb") /\ Before("usb", m, "sysfs"))
    <3>1. <<"usb", "drvdata">> \in TooEarly
      BY DEF TooEarly
    <3>2. \A m \in {"mem"} : m \in Solid("usb") /\ Before("usb", m, "sysfs")
      BY Order_mpro_usb_probe DEF Solid
    <3> SUFFICES ASSUME NEW m \in {"mem", "drvdata"}
                 PROVE  \/ <<"usb", m>> \in TooEarly
                        \/ m \in Solid("usb") /\ Before("usb", m, "sysfs")
      OBVIOUS
    <3>3. CASE m = "drvdata"
      BY <3>1, <3>3
    <3>4. CASE m # "drvdata"
      BY <3>2, <3>4
    <3> QED
      BY <3>3, <3>4
  <2>3. \A m \in {} : m \in Solid("usb") /\ Before("usb", m, "children")
    OBVIOUS
  <2> QED
    BY <2>1, <2>2, <2>3, UsesOK
<1>3. UseOK(Use(<<"drm", "card">>, Its("drm", {"mem", "data", "conv_state"})
          \cup Its("usb", {"mem", "wq"})))
  <2>1. /\ "drm" \in Part /\ "card" \in Name
        /\ {"mem", "data", "conv_state"} \in SUBSET Name /\ {"mem",
               "wq"} \in SUBSET Name
    BY DEF Part, Children, Name
  <2>2. \A m \in {"mem", "data", "conv_state"} :
            <<"drm", m>> \in TooEarly
                \/ (m \in Solid("drm") /\ Before("drm", m, "card"))
    <3>1. <<"drm", "conv_state">> \in TooEarly
      BY DEF TooEarly
    <3>2. \A m \in {"mem", "data"} : m \in Solid("drm") /\ Before("drm", m, "card")
      BY Order_mpro_drm__probe DEF Solid
    <3> SUFFICES ASSUME NEW m \in {"mem", "data", "conv_state"}
                 PROVE  \/ <<"drm", m>> \in TooEarly
                        \/ m \in Solid("drm") /\ Before("drm", m, "card")
      OBVIOUS
    <3>3. CASE m = "conv_state"
      BY <3>1, <3>3
    <3>4. CASE m # "conv_state"
      BY <3>2, <3>4
    <3> QED
      BY <3>3, <3>4
  <2>3. \A m \in {"mem", "wq"} : m \in Solid("usb") /\ Before("usb", m, "children")
    BY Order_mpro_usb_probe DEF Solid
  <2> QED
    BY <2>1, <2>2, <2>3, UsesOK
<1>4. UseOK(Use(<<"drm", "modeset">>, Its("drm", {"mem", "data"}) \cup Its("usb",
          {"mem", "wq"})))
  <2>1. /\ "drm" \in Part /\ "modeset" \in Name
        /\ {"mem", "data"} \in SUBSET Name /\ {"mem", "wq"} \in SUBSET Name
    BY DEF Part, Children, Name
  <2>2. \A m \in {"mem", "data"} :
            <<"drm", m>> \in TooEarly
                \/ (m \in Solid("drm") /\ Before("drm", m, "modeset"))
    BY Order_mpro_drm__probe DEF Solid, TooEarly
  <2>3. \A m \in {"mem", "wq"} : m \in Solid("usb") /\ Before("usb", m, "children")
    BY Order_mpro_usb_probe DEF Solid
  <2> QED
    BY <2>1, <2>2, <2>3, UsesOK
<1>5. UseOK(Use(<<"drm", "listener">>, Its("drm", {"mem", "data"}) \cup Its("usb",
          {"mem", "wq"})))
  <2>1. /\ "drm" \in Part /\ "listener" \in Name
        /\ {"mem", "data"} \in SUBSET Name /\ {"mem", "wq"} \in SUBSET Name
    BY DEF Part, Children, Name
  <2>2. \A m \in {"mem", "data"} :
            <<"drm", m>> \in TooEarly
                \/ (m \in Solid("drm") /\ Before("drm", m, "listener"))
    BY Order_mpro_drm__probe DEF Solid, TooEarly
  <2>3. \A m \in {"mem", "wq"} : m \in Solid("usb") /\ Before("usb", m, "children")
    BY Order_mpro_usb_probe DEF Solid
  <2> QED
    BY <2>1, <2>2, <2>3, UsesOK
<1>6. UseOK(Use(<<"drm", "sysfs">>, Its("drm", {"mem", "drvdata", "data"})
          \cup Its("usb", {"mem", "wq"})))
  <2>1. /\ "drm" \in Part /\ "sysfs" \in Name
        /\ {"mem", "drvdata", "data"} \in SUBSET Name /\ {"mem", "wq"} \in SUBSET Name
    BY DEF Part, Children, Name
  <2>2. \A m \in {"mem", "drvdata", "data"} :
            <<"drm", m>> \in TooEarly
                \/ (m \in Solid("drm") /\ Before("drm", m, "sysfs"))
    BY Order_mpro_drm__probe DEF Solid, TooEarly
  <2>3. \A m \in {"mem", "wq"} : m \in Solid("usb") /\ Before("usb", m, "children")
    BY Order_mpro_usb_probe DEF Solid
  <2> QED
    BY <2>1, <2>2, <2>3, UsesOK
<1>7. UseOK(Use(<<"ts", "input">>, Its("ts", {"mem"}) \cup Its("usb", {"mem",
          "touch"})))
  <2>1. /\ "ts" \in Part /\ "input" \in Name
        /\ {"mem"} \in SUBSET Name /\ {"mem", "touch"} \in SUBSET Name
    BY DEF Part, Children, Name
  <2>2. \A m \in {"mem"} :
            <<"ts", m>> \in TooEarly
                \/ (m \in Solid("ts") /\ Before("ts", m, "input"))
    BY Order_mpro_ts__probe DEF Solid, TooEarly
  <2>3. \A m \in {"mem", "touch"} : m \in Solid("usb") /\ Before("usb", m, "children")
    BY Order_mpro_usb_probe DEF Solid
  <2> QED
    BY <2>1, <2>2, <2>3, UsesOK
<1>8. UseOK(Use(<<"ts", "listener">>, Its("ts", {"mem", "input_dev"}) \cup Its("usb",
          {"mem", "touch"})))
  <2>1. /\ "ts" \in Part /\ "listener" \in Name
        /\ {"mem", "input_dev"} \in SUBSET Name /\ {"mem", "touch"} \in SUBSET Name
    BY DEF Part, Children, Name
  <2>2. \A m \in {"mem", "input_dev"} :
            <<"ts", m>> \in TooEarly
                \/ (m \in Solid("ts") /\ Before("ts", m, "listener"))
    BY Order_mpro_ts__probe DEF Solid, TooEarly
  <2>3. \A m \in {"mem", "touch"} : m \in Solid("usb") /\ Before("usb", m, "children")
    BY Order_mpro_usb_probe DEF Solid
  <2> QED
    BY <2>1, <2>2, <2>3, UsesOK
<1>9. UseOK(Use(<<"ts", "touch_listener">>, Its("ts", {"mem", "input"}) \cup Its("usb",
          {})))
  <2>1. /\ "ts" \in Part /\ "touch_listener" \in Name
        /\ {"mem", "input"} \in SUBSET Name /\ {} \in SUBSET Name
    BY DEF Part, Children, Name
  <2>2. \A m \in {"mem", "input"} :
            <<"ts", m>> \in TooEarly
                \/ (m \in Solid("ts") /\ Before("ts", m, "touch_listener"))
    BY Order_mpro_ts__probe DEF Solid, TooEarly
  <2>3. \A m \in {} : m \in Solid("usb") /\ Before("usb", m, "children")
    BY Order_mpro_usb_probe DEF Solid
  <2> QED
    BY <2>1, <2>2, <2>3, UsesOK
<1>10. UseOK(Use(<<"bl", "class">>, Its("bl", {"mem"}) \cup Its("usb", {"mem"})))
  <2>1. /\ "bl" \in Part /\ "class" \in Name
        /\ {"mem"} \in SUBSET Name /\ {"mem"} \in SUBSET Name
    BY DEF Part, Children, Name
  <2>2. \A m \in {"mem"} :
            <<"bl", m>> \in TooEarly
                \/ (m \in Solid("bl") /\ Before("bl", m, "class"))
    BY Order_mpro_bl__probe DEF Solid, TooEarly
  <2>3. \A m \in {"mem"} : m \in Solid("usb") /\ Before("usb", m, "children")
    BY Order_mpro_usb_probe DEF Solid
  <2> QED
    BY <2>1, <2>2, <2>3, UsesOK
<1>11. UseOK(Use(<<"bl", "listener">>, Its("bl", {"mem"}) \cup Its("usb", {"mem"})))
  <2>1. /\ "bl" \in Part /\ "listener" \in Name
        /\ {"mem"} \in SUBSET Name /\ {"mem"} \in SUBSET Name
    BY DEF Part, Children, Name
  <2>2. \A m \in {"mem"} :
            <<"bl", m>> \in TooEarly
                \/ (m \in Solid("bl") /\ Before("bl", m, "listener"))
    BY Order_mpro_bl__probe DEF Solid, TooEarly
  <2>3. \A m \in {"mem"} : m \in Solid("usb") /\ Before("usb", m, "children")
    BY Order_mpro_usb_probe DEF Solid
  <2> QED
    BY <2>1, <2>2, <2>3, UsesOK
<1>12. UseOK(Use(<<"bl", "sysfs">>, Its("bl", {"mem", "drvdata"}) \cup Its("usb",
           {"mem"})))
  <2>1. /\ "bl" \in Part /\ "sysfs" \in Name
        /\ {"mem", "drvdata"} \in SUBSET Name /\ {"mem"} \in SUBSET Name
    BY DEF Part, Children, Name
  <2>2. \A m \in {"mem", "drvdata"} :
            <<"bl", m>> \in TooEarly
                \/ (m \in Solid("bl") /\ Before("bl", m, "sysfs"))
    BY Order_mpro_bl__probe DEF Solid, TooEarly
  <2>3. \A m \in {"mem"} : m \in Solid("usb") /\ Before("usb", m, "children")
    BY Order_mpro_usb_probe DEF Solid
  <2> QED
    BY <2>1, <2>2, <2>3, UsesOK
<1>13. \A p : Its(p, {}) = {}
  BY DEF Its
<1> QED
  BY <1>1, <1>2, <1>3, <1>4, <1>5, <1>6, <1>7, <1>8, <1>9, <1>10, <1>11, <1>12,
     <1>13 DEF mproUses, Sender, FrameSender

LEMMA Uses_beada ==
    ASSUME setup.driver = "beada"
    PROVE  \A u \in Uses : UseOK(u)
<1>1. Uses = beadaUses
  BY DEF Uses
<1>2. UseOK(Use(<<"usb", "sysfs">>, Its("usb", {"mem", "bufs", "drvdata"})
          \cup Its("usb", {})))
  <2>1. /\ "usb" \in Part /\ "sysfs" \in Name
        /\ {"mem", "bufs", "drvdata"} \in SUBSET Name /\ {} \in SUBSET Name
    BY DEF Part, Children, Name
  <2>2. \A m \in {"mem", "bufs", "drvdata"} :
            <<"usb", m>> \in TooEarly
                \/ (m \in Solid("usb") /\ Before("usb", m, "sysfs"))
    <3>1. <<"usb", "drvdata">> \in TooEarly
      BY DEF TooEarly
    <3>2. \A m \in {"mem", "bufs"} : m \in Solid("usb") /\ Before("usb", m, "sysfs")
      BY Order_beada_probe DEF Solid
    <3> SUFFICES ASSUME NEW m \in {"mem", "bufs", "drvdata"}
                 PROVE  \/ <<"usb", m>> \in TooEarly
                        \/ m \in Solid("usb") /\ Before("usb", m, "sysfs")
      OBVIOUS
    <3>3. CASE m = "drvdata"
      BY <3>1, <3>3
    <3>4. CASE m # "drvdata"
      BY <3>2, <3>4
    <3> QED
      BY <3>3, <3>4
  <2>3. \A m \in {} : m \in Solid("usb") /\ Before("usb", m, "children")
    OBVIOUS
  <2> QED
    BY <2>1, <2>2, <2>3, UsesOK
<1>3. UseOK(Use(<<"drm", "card">>, Its("drm", {"mem", "data"}) \cup Its("usb", {"mem",
          "wq", "frame_buf"})))
  <2>1. /\ "drm" \in Part /\ "card" \in Name
        /\ {"mem", "data"} \in SUBSET Name /\ {"mem", "wq", "frame_buf"} \in SUBSET Name
    BY DEF Part, Children, Name
  <2>2. \A m \in {"mem", "data"} :
            <<"drm", m>> \in TooEarly
                \/ (m \in Solid("drm") /\ Before("drm", m, "card"))
    BY Order_beada_drm_probe DEF Solid, TooEarly
  <2>3. \A m \in {"mem", "wq", "frame_buf"} : m \in Solid("usb") /\ Before("usb", m,
            "children")
    BY Order_beada_probe DEF Solid
  <2> QED
    BY <2>1, <2>2, <2>3, UsesOK
<1>4. UseOK(Use(<<"drm", "modeset">>, Its("drm", {"mem", "data"}) \cup Its("usb",
          {"mem", "wq", "frame_buf"})))
  <2>1. /\ "drm" \in Part /\ "modeset" \in Name
        /\ {"mem", "data"} \in SUBSET Name /\ {"mem", "wq", "frame_buf"} \in SUBSET Name
    BY DEF Part, Children, Name
  <2>2. \A m \in {"mem", "data"} :
            <<"drm", m>> \in TooEarly
                \/ (m \in Solid("drm") /\ Before("drm", m, "modeset"))
    BY Order_beada_drm_probe DEF Solid, TooEarly
  <2>3. \A m \in {"mem", "wq", "frame_buf"} : m \in Solid("usb") /\ Before("usb", m,
            "children")
    BY Order_beada_probe DEF Solid
  <2> QED
    BY <2>1, <2>2, <2>3, UsesOK
<1>5. UseOK(Use(<<"drm", "listener">>, Its("drm", {"mem", "data"}) \cup Its("usb",
          {"mem", "wq", "frame_buf"})))
  <2>1. /\ "drm" \in Part /\ "listener" \in Name
        /\ {"mem", "data"} \in SUBSET Name /\ {"mem", "wq", "frame_buf"} \in SUBSET Name
    BY DEF Part, Children, Name
  <2>2. \A m \in {"mem", "data"} :
            <<"drm", m>> \in TooEarly
                \/ (m \in Solid("drm") /\ Before("drm", m, "listener"))
    BY Order_beada_drm_probe DEF Solid, TooEarly
  <2>3. \A m \in {"mem", "wq", "frame_buf"} : m \in Solid("usb") /\ Before("usb", m,
            "children")
    BY Order_beada_probe DEF Solid
  <2> QED
    BY <2>1, <2>2, <2>3, UsesOK
<1>6. UseOK(Use(<<"drm", "sysfs">>, Its("drm", {"mem", "drvdata", "kms_objects"})
          \cup Its("usb", {})))
  <2>1. /\ "drm" \in Part /\ "sysfs" \in Name
        /\ {"mem", "drvdata", "kms_objects"} \in SUBSET Name /\ {} \in SUBSET Name
    BY DEF Part, Children, Name
  <2>2. \A m \in {"mem", "drvdata", "kms_objects"} :
            <<"drm", m>> \in TooEarly
                \/ (m \in Solid("drm") /\ Before("drm", m, "sysfs"))
    BY Order_beada_drm_probe DEF Solid, TooEarly
  <2>3. \A m \in {} : m \in Solid("usb") /\ Before("usb", m, "children")
    BY Order_beada_probe DEF Solid
  <2> QED
    BY <2>1, <2>2, <2>3, UsesOK
<1>7. UseOK(Use(<<"bl", "class">>, Its("bl", {"mem"}) \cup Its("usb", {"mem", "bufs"})))
  <2>1. /\ "bl" \in Part /\ "class" \in Name
        /\ {"mem"} \in SUBSET Name /\ {"mem", "bufs"} \in SUBSET Name
    BY DEF Part, Children, Name
  <2>2. \A m \in {"mem"} :
            <<"bl", m>> \in TooEarly
                \/ (m \in Solid("bl") /\ Before("bl", m, "class"))
    BY Order_beada_backlight_probe DEF Solid, TooEarly
  <2>3. \A m \in {"mem", "bufs"} : m \in Solid("usb") /\ Before("usb", m, "children")
    BY Order_beada_probe DEF Solid
  <2> QED
    BY <2>1, <2>2, <2>3, UsesOK
<1>8. UseOK(Use(<<"bl", "listener">>, Its("bl", {"mem"}) \cup Its("usb", {"mem",
          "bufs"})))
  <2>1. /\ "bl" \in Part /\ "listener" \in Name
        /\ {"mem"} \in SUBSET Name /\ {"mem", "bufs"} \in SUBSET Name
    BY DEF Part, Children, Name
  <2>2. \A m \in {"mem"} :
            <<"bl", m>> \in TooEarly
                \/ (m \in Solid("bl") /\ Before("bl", m, "listener"))
    BY Order_beada_backlight_probe DEF Solid, TooEarly
  <2>3. \A m \in {"mem", "bufs"} : m \in Solid("usb") /\ Before("usb", m, "children")
    BY Order_beada_probe DEF Solid
  <2> QED
    BY <2>1, <2>2, <2>3, UsesOK
<1>9. UseOK(Use(<<"bl", "sysfs">>, Its("bl", {"mem", "class"}) \cup Its("usb", {"mem",
          "bufs"})))
  <2>1. /\ "bl" \in Part /\ "sysfs" \in Name
        /\ {"mem", "class"} \in SUBSET Name /\ {"mem", "bufs"} \in SUBSET Name
    BY DEF Part, Children, Name
  <2>2. \A m \in {"mem", "class"} :
            <<"bl", m>> \in TooEarly
                \/ (m \in Solid("bl") /\ Before("bl", m, "sysfs"))
    BY Order_beada_backlight_probe DEF Solid, TooEarly
  <2>3. \A m \in {"mem", "bufs"} : m \in Solid("usb") /\ Before("usb", m, "children")
    BY Order_beada_probe DEF Solid
  <2> QED
    BY <2>1, <2>2, <2>3, UsesOK
<1>10. \A p : Its(p, {}) = {}
  BY DEF Its
<1> QED
  BY <1>1, <1>2, <1>3, <1>4, <1>5, <1>6, <1>7, <1>8, <1>9, <1>10 DEF beadaUses, Sender,
     FrameSender

LEMMA Uses_ax206 ==
    ASSUME setup.driver = "ax206"
    PROVE  \A u \in Uses : UseOK(u)
<1>1. Uses = ax206Uses
  BY DEF Uses
<1>2. UseOK(Use(<<"drm", "card">>, Its("drm", {"mem", "data"}) \cup Its("usb", {"mem",
          "wq"})))
  <2>1. /\ "drm" \in Part /\ "card" \in Name
        /\ {"mem", "data"} \in SUBSET Name /\ {"mem", "wq"} \in SUBSET Name
    BY DEF Part, Children, Name
  <2>2. \A m \in {"mem", "data"} :
            <<"drm", m>> \in TooEarly
                \/ (m \in Solid("drm") /\ Before("drm", m, "card"))
    BY Order_ax206_drm_probe DEF Solid, TooEarly
  <2>3. \A m \in {"mem", "wq"} : m \in Solid("usb") /\ Before("usb", m, "children")
    BY Order_ax206_probe DEF Solid
  <2> QED
    BY <2>1, <2>2, <2>3, UsesOK
<1>3. UseOK(Use(<<"drm", "modeset">>, Its("drm", {"mem", "data"}) \cup Its("usb",
          {"mem", "wq"})))
  <2>1. /\ "drm" \in Part /\ "modeset" \in Name
        /\ {"mem", "data"} \in SUBSET Name /\ {"mem", "wq"} \in SUBSET Name
    BY DEF Part, Children, Name
  <2>2. \A m \in {"mem", "data"} :
            <<"drm", m>> \in TooEarly
                \/ (m \in Solid("drm") /\ Before("drm", m, "modeset"))
    BY Order_ax206_drm_probe DEF Solid, TooEarly
  <2>3. \A m \in {"mem", "wq"} : m \in Solid("usb") /\ Before("usb", m, "children")
    BY Order_ax206_probe DEF Solid
  <2> QED
    BY <2>1, <2>2, <2>3, UsesOK
<1>4. UseOK(Use(<<"drm", "sysfs">>, Its("drm", {"mem", "drvdata"}) \cup Its("usb",
          {"mem", "wq"})))
  <2>1. /\ "drm" \in Part /\ "sysfs" \in Name
        /\ {"mem", "drvdata"} \in SUBSET Name /\ {"mem", "wq"} \in SUBSET Name
    BY DEF Part, Children, Name
  <2>2. \A m \in {"mem", "drvdata"} :
            <<"drm", m>> \in TooEarly
                \/ (m \in Solid("drm") /\ Before("drm", m, "sysfs"))
    BY Order_ax206_drm_probe DEF Solid, TooEarly
  <2>3. \A m \in {"mem", "wq"} : m \in Solid("usb") /\ Before("usb", m, "children")
    BY Order_ax206_probe DEF Solid
  <2> QED
    BY <2>1, <2>2, <2>3, UsesOK
<1>5. UseOK(Use(<<"bl", "class">>, Its("bl", {}) \cup Its("usb", {"mem", "wq"})))
  <2>1. /\ "bl" \in Part /\ "class" \in Name
        /\ {} \in SUBSET Name /\ {"mem", "wq"} \in SUBSET Name
    BY DEF Part, Children, Name
  <2>2. \A m \in {} :
            <<"bl", m>> \in TooEarly
                \/ (m \in Solid("bl") /\ Before("bl", m, "class"))
    BY Order_ax206_probe DEF Solid, TooEarly
  <2>3. \A m \in {"mem", "wq"} : m \in Solid("usb") /\ Before("usb", m, "children")
    BY Order_ax206_probe DEF Solid
  <2> QED
    BY <2>1, <2>2, <2>3, UsesOK
<1>6. \A p : Its(p, {}) = {}
  BY DEF Its
<1> QED
  BY <1>1, <1>2, <1>3, <1>4, <1>5, <1>6 DEF ax206Uses, Sender, FrameSender
LEMMA AllUsesOK ==
    ASSUME setup \in Setups, NEW u \in Uses
    PROVE  UseOK(u)
BY SetupAssumption, Uses_mpro, Uses_beada, Uses_ax206

(* The uses that the windows are about.                                    *)
LEMMA LooseUses ==
    ASSUME setup \in Setups, NEW u \in Uses
    PROVE  /\ Lz4 \notin u.uses
           /\ <<"drm", "conv_state">> \in u.uses =>
                  setup.driver = "mpro" /\ u.entry = <<"drm", "card">>
           /\ <<"usb", "drvdata">> \in u.uses =>
                  /\ setup.driver \in {"mpro", "beada"}
                  /\ u.entry = <<"usb", "sysfs">>
           /\ u.entry = <<"ts", "touch_listener">> => setup.driver = "mpro"
<1>1. setup.driver \in {"mpro", "beada", "ax206"}
  BY SetupAssumption
<1>2. CASE setup.driver = "mpro"
  <2>1. u \in mproUses
    BY <1>2 DEF Uses
  <2> QED
    BY <1>2, <2>1 DEF mproUses, Use, Its, Sender, Lz4
<1>3. CASE setup.driver = "beada"
  <2>1. u \in beadaUses
    BY <1>3 DEF Uses
  <2> QED
    BY <1>3, <2>1 DEF beadaUses, Use, Its, FrameSender, Lz4
<1>4. CASE setup.driver = "ax206"
  <2>1. u \in ax206Uses
    BY <1>4 DEF Uses
  <2> QED
    BY <1>4, <2>1 DEF ax206Uses, Use, Its, Sender, Lz4
<1> QED
  BY <1>1, <1>2, <1>3, <1>4

-----------------------------------------------------------------------------
(* The calls.                                                              *)

LEMMA InitInv == Init => Inv
<1> SUFFICES ASSUME Init PROVE Inv
  OBVIOUS
<1>0. /\ setup \in Setups /\ calls = {}
      /\ phase = [p \in Part |-> IF p = "usb" THEN "unbound" ELSE "absent"]
      /\ todo = [p \in Part |-> <<>>] /\ held = [p \in Part |-> <<>>]
      /\ binds = [p \in Part |-> 0]
  BY DEF Init
<1>1. Typed
  <2>1. phase \in [Part -> Phase] /\ phase["usb"] # "absent"
    BY <1>0 DEF Part, Phase
  <2>2. todo = [p \in Part |-> todo[p]]
    BY <1>0
  <2>3. held \in [Part -> Seq(Name)]
    BY <1>0, EmptySeq
  <2>4. binds \in [Part -> 0 .. MaxBinds]
    BY <1>0, BoundAssumption
  <2> QED
    BY <1>0, <2>1, <2>2, <2>3, <2>4 DEF Typed
<1>2. ASSUME NEW p \in Part PROVE PartInv(p)
  <2>1. /\ phase[p] = IF p = "usb" THEN "unbound" ELSE "absent"
        /\ todo[p] = <<>> /\ held[p] = <<>>
    BY <1>0
  <2>2. LeakInv(p)
    BY <2>1 DEF LeakInv
  <2>3. OrderInv(p)
    <3>1. ToSet(held[p]) = {} /\ DOMAIN held[p] = {} /\ IsInjective(held[p])
      BY <2>1, EmptyRange DEF IsInjective
    <3> QED
      BY <3>1 DEF OrderInv
  <2> QED
    BY <2>1, <2>2, <2>3 DEF PartInv, ProbingInv, RemovingInv
<1>3. CallsInv
  BY <1>0, FS_EmptySet, BoundAssumption DEF CallsInv
<1> QED
  BY <1>1, <1>2, <1>3 DEF Inv, Good

(* The step does not take away the entry point of a call in progress.      *)
LEMMA CallsSame ==
    ASSUME CallsInv, setup' = setup, calls' = calls,
           \A c \in calls : Has(c.entry)'
    PROVE  CallsInv'
<1>1. ASSUME NEW c \in calls PROVE CallOK(c)'
  BY SameSetup DEF CallsInv, CallOK, MoreOK, Lz4, Mdrm
<1> QED
  BY <1>1 DEF CallsInv

LEMMA AppendKeeps ==
    ASSUME NEW S, NEW s \in Seq(S), NEW x
    PROVE  ToSet(s) \subseteq ToSet(Append(s, x))
<1>1. s \in Seq(S \cup {x})
  OBVIOUS
<1>2. /\ Len(Append(s, x)) = Len(s) + 1 /\ Append(s, x) \in Seq(S \cup {x})
      /\ \A i \in 1..Len(s) : Append(s, x)[i] = s[i]
  BY <1>1, AppendProperties
<1> QED
  BY <1>2 DEF ToSet

LEMMA CallFacts ==
    ASSUME Inv, NEW c \in calls
    PROVE  /\ Has(c.entry) /\ c.entry \in Resource /\ c.entry[2] # "drvdata"
           /\ c.entry = <<c.entry[1], c.entry[2]>>
<1>1. CallOK(c) /\ setup \in Setups
  BY DEF Inv, CallsInv, Good, Typed
<1>2. PICK u \in Uses : c.entry = u.entry
  BY <1>1 DEF CallOK
<1>3. UseOK(u)
  BY <1>1, AllUsesOK
<1> QED
  BY <1>1, <1>2, <1>3 DEF CallOK, UseOK

(* What a part takes or gives back.                                        *)
LEMMA HeldKeepsEntries ==
    ASSUME Inv, calls' = calls, setup' = setup,
           \A c \in calls : c.entry[2] \in ToSet(held[c.entry[1]]) =>
                                c.entry[2] \in ToSet(held'[c.entry[1]])
    PROVE  CallsInv'
<1>1. ASSUME NEW c \in calls PROVE Has(c.entry)'
  BY CallFacts DEF Has
<1> QED
  BY <1>1, CallsSame DEF Inv

LEMMA CallStep ==
    ASSUME Inv, NEW u \in Uses, Call(u)
    PROVE  CallsInv'
<1> DEFINE more == {r \in {Lz4} : mpro_lz4_should_compress(u)}
                       \cup {r \in {Mdrm} : mpro_ts__get_rotation(u)}
           c == [u EXCEPT !.uses = @ \cup more]
<1>0. /\ Has(u.entry) /\ Cardinality(calls) < MaxCalls /\ calls' = calls \cup {c}
      /\ setup' = setup /\ held' = held
  BY DEF Call
<1>1. /\ IsFiniteSet(calls) /\ Cardinality(calls) \in 0 .. MaxCalls
      /\ setup \in Setups /\ \A d \in calls : CallOK(d)
  BY DEF Inv, CallsInv, Good, Typed
<1>2. UseOK(u)
  BY <1>1, AllUsesOK
<1>3. CallOK(c)
  <2>1. c.entry = u.entry /\ c.uses = u.uses \cup more
    BY <1>2 DEF UseOK
  <2>2. ASSUME Lz4 \in more PROVE setup.lz4 # "none" /\ <<"usb", "wq">> \in u.uses
    <3>1. mpro_lz4_should_compress(u)
      BY <2>2 DEF Lz4, Mdrm
    <3>2. "lz4" \in ToSet(held["usb"]) /\ <<"usb", "wq">> \in u.uses
      BY <3>1 DEF mpro_lz4_should_compress, Has, Lz4
    <3>3. Taken("usb", Len(ProbeOf("usb")), "lz4")
      BY <3>2, GoodFacts DEF Inv, OrderInv
    <3>4. Sound("usb") /\ ProbeOf("usb") \in Seq(StepType)
      BY GoodFacts DEF Inv, Sound
    <3> QED
      BY <3>2, <3>3, <3>4 DEF Taken, Stored, Sound, LastIsChildren
  <2>3. ASSUME Mdrm \in more PROVE u.entry = <<"ts", "touch_listener">>
    BY <2>3 DEF Lz4, Mdrm, mpro_ts__get_rotation
  <2>4. more \subseteq {Lz4, Mdrm}
    OBVIOUS
  <2> HIDE DEF more, c
  <2>5. MoreOK(u, more)
    BY <2>2, <2>3, <2>4, Zenon DEF MoreOK
  <2> QED
    BY <1>0, <2>1, <2>4, <2>5 DEF CallOK
<1> HIDE DEF c
<1>4. IsFiniteSet(calls') /\ Cardinality(calls') \in 0 .. MaxCalls
  <2>1. /\ IsFiniteSet(calls \cup {c})
        /\ Cardinality(calls \cup {c}) \in {Cardinality(calls), Cardinality(calls) + 1}
    BY <1>1, FS_AddElement
  <2> QED
    BY <1>0, <1>1, <2>1, BoundAssumption
<1>5. ASSUME NEW d \in calls' PROVE CallOK(d)'
  <2>1. CallOK(d)
    BY <1>0, <1>1, <1>3
  <2> QED
    BY <1>0, <2>1, SameSetup DEF CallOK, MoreOK, Has, Lz4, Mdrm
<1> QED
  BY <1>4, <1>5 DEF CallsInv

LEMMA ReturnStep ==
    ASSUME Inv, NEW c \in calls, Return(c)
    PROVE  CallsInv'
<1>0. calls' = calls \ {c} /\ setup' = setup /\ held' = held
  BY DEF Return
<1>1. /\ IsFiniteSet(calls) /\ Cardinality(calls) \in 0 .. MaxCalls
      /\ \A d \in calls : CallOK(d)
  BY DEF Inv, CallsInv
<1>2. IsFiniteSet(calls') /\ Cardinality(calls') \in 0 .. MaxCalls
  <2>1. /\ IsFiniteSet(calls \ {c})
        /\ Cardinality(calls \ {c}) \in {Cardinality(calls), Cardinality(calls) - 1}
    BY <1>1, FS_RemoveElement
  <2>2. Cardinality(calls \ {c}) \in Nat
    BY <2>1, FS_CardinalityType
  <2> QED
    BY <1>0, <1>1, <2>1, <2>2, BoundAssumption
<1>3. ASSUME NEW d \in calls' PROVE CallOK(d)'
  <2>1. CallOK(d)
    BY <1>0, <1>1
  <2> QED
    BY <1>0, <2>1, SameSetup DEF CallOK, MoreOK, Has, Lz4, Mdrm
<1> QED
  BY <1>2, <1>3 DEF CallsInv

LEMMA CallsInvStep ==
    ASSUME Inv, [Next]_vars
    PROVE  CallsInv'
<1>0. /\ setup' = setup /\ held \in [Part -> Seq(Name)] /\ Good /\ "usb" \in Part
      /\ \A c \in calls : /\ c.entry \in Resource /\ c.entry[2] # "drvdata"
                          /\ c.entry = <<c.entry[1], c.entry[2]>>
                          /\ c.entry[1] \in Part
  BY SetupFixed, CallFacts DEF Inv, Good, Typed, Part, Resource
<1>1. ASSUME held' = held, calls' = calls PROVE CallsInv'
  BY <1>0, <1>1, HeldKeepsEntries
<1>2. ASSUME NEW p \in Part, NEW x, calls' = calls,
             held' = [held EXCEPT ![p] = Append(@, x)]
      PROVE  CallsInv'
  <2>1. ASSUME NEW q \in Part PROVE ToSet(held[q]) \subseteq ToSet(held'[q])
    <3>1. CASE q = p
      <4>1. held'[q] = Append(held[q], x) /\ held[q] \in Seq(Name)
        BY <1>0, <1>2, <3>1
      <4> QED
        BY <4>1, AppendKeeps
    <3>2. CASE q # p
      BY <1>0, <1>2, <3>2
    <3> QED
      BY <3>1, <3>2
  <2> QED
    BY <1>0, <1>2, <2>1, HeldKeepsEntries
<1>3. ASSUME NEW p \in Part, ProbeStep(p) PROVE CallsInv'
  <2>1. /\ calls' = calls
        /\ \/ held' = held
           \/ held' = [held EXCEPT ![p] = Append(@, Head(todo[p]).gets)]
    BY <1>3 DEF ProbeStep
  <2> QED
    BY <1>1, <1>2, <2>1
<1>4. ASSUME NEW p \in Part, Release(p) PROVE CallsInv'
  <2>1. PICK q \in Part, n \in Name :
            /\ ~Calling(<<q, n>>) /\ ToSet(held'[q]) = ToSet(held[q]) \ {n}
            /\ \A x \in Part : x # q => held'[x] = held[x]
    BY <1>0, <1>4, ReleaseFacts, Zenon
  <2>2. ASSUME NEW c \in calls, c.entry[2] \in ToSet(held[c.entry[1]])
        PROVE  c.entry[2] \in ToSet(held'[c.entry[1]])
    <3>1. c.entry # <<q, n>>
      BY <2>1 DEF Calling
    <3>2. CASE c.entry[1] = q
      <4>1. c.entry[2] # n
        BY <1>0, <3>1, <3>2
      <4> QED
        BY <2>1, <2>2, <3>2, <4>1
    <3>3. CASE c.entry[1] # q
      BY <1>0, <2>1, <2>2, <3>3
    <3> QED
      BY <3>2, <3>3
  <2>3. calls' = calls
    BY <1>4 DEF Release
  <2> QED
    BY <1>0, <2>2, <2>3, HeldKeepsEntries
<1>5. ASSUME NEW p \in Part, Released(p) PROVE CallsInv'
  <2>1. /\ calls' = calls /\ phase[p] = "removing"
        /\ held' = [held EXCEPT ![p] = RemoveFirst(@, "drvdata")]
    BY <1>5 DEF Released
  <2>2. OrderInv(p) /\ held[p] \in Seq(Name)
    BY <1>0, <2>1, GoodFacts
  <2>3. ToSet(held'[p]) = ToSet(held[p]) \ {"drvdata"}
    <3>1. held'[p] = RemoveFirst(held[p], "drvdata") /\ IsInjective(held[p])
      BY <1>0, <2>1, <2>2 DEF OrderInv
    <3> QED
      BY <2>2, <3>1, Without
  <2>4. \A x \in Part : x # p => held'[x] = held[x]
    BY <1>0, <2>1
  <2>5. ASSUME NEW c \in calls, c.entry[2] \in ToSet(held[c.entry[1]])
        PROVE  c.entry[2] \in ToSet(held'[c.entry[1]])
    <3>1. CASE c.entry[1] = p
      BY <1>0, <2>3, <2>5, <3>1
    <3>2. CASE c.entry[1] # p
      BY <1>0, <2>4, <2>5, <3>2
    <3> QED
      BY <3>1, <3>2
  <2> QED
    BY <1>0, <2>1, <2>5, HeldKeepsEntries
<1>6. ASSUME NEW p \in Part, PartStep(p) PROVE CallsInv'
  <2>1. CASE Bind(p) \/ ProbeWarn(p) \/ ProbeFail(p) \/ ProbeDone(p)
    BY <1>1, <2>1 DEF Bind, ProbeWarn, ProbeFail, ProbeDone
  <2> QED
    BY <1>3, <1>4, <1>5, <1>6, <2>1, Zenon DEF PartStep
<1>7. CASE UNCHANGED vars \/ Disconnect \/ Over
  BY <1>1, <1>7 DEF vars, Disconnect, StartRemove, Over
<1>8. ASSUME NEW c \in Children, Unbind(c) \/ RemoveChild(c) \/ UnregisterChild(c)
      PROVE  CallsInv'
  BY <1>1, <1>8 DEF Unbind, RemoveChild, StartRemove, UnregisterChild
<1>9. CASE lz4_level_store
  BY <1>0, <1>1, <1>2, <1>9 DEF lz4_level_store, TakeLz4
<1> QED
  BY <1>6, <1>7, <1>8, <1>9, CallStep, ReturnStep, Zenon DEF Next

-----------------------------------------------------------------------------
(* The windows.  Outside of them the driver data, the conversion state and *)
(* the card's memory are held, although nobody gives them back in order.   *)

Firm(p) == CASE p = "usb" -> {"drvdata"}
             [] p = "drm" -> {"mem", "conv_state"}
             [] OTHER -> {}

(* What p took of these it has until its own removal, and no other part    *)
(* gives it back.                                                          *)
FirmInv(p) ==
    /\ phase[p] = "probing" =>
           \A a \in 1..Steps(p) : G(p, a) \in Firm(p) => G(p, a) \in ToSet(held[p])
    /\ phase[p] = "bound" =>
           \A a \in DOMAIN ProbeOf(p) :
               G(p, a) \in Firm(p) => G(p, a) \in ToSet(held[p])
    /\ phase[p] = "removing" =>
           \A i \in DOMAIN todo[p] :
               todo[p][i][1] = p \/ todo[p][i][2] \notin Firm(todo[p][i][1])

(* beadapanel's files go before its driver data, in its removal too.       *)
FilesInv ==
    setup.driver = "beada" /\ phase["usb"] = "removing" =>
        /\ "sysfs" \in ToSet(held["usb"]) => "drvdata" \in ToSet(held["usb"])
        /\ \A i \in DOMAIN todo["usb"] : todo["usb"][i][2] # "drvdata"

(* The compressor's memory that a frame is compressed with.                *)
Lz4Inv ==
    \A c \in calls : Lz4 \in c.uses /\ setup.lz4 = "store" =>
                         Has(Lz4) \/ phase["usb"] = "removing"

WindowInv ==
    /\ stray \in BOOLEAN
    /\ \A p \in Part : FirmInv(p)
    /\ FilesInv /\ Lz4Inv

(* No step that takes one of these only warns, and the lists of what a     *)
(* part gives back leave those of the other parts alone.                   *)
LEMMA FirmSteps ==
    ASSUME setup \in Setups, NEW p \in Known
    PROVE  \A a \in DOMAIN ProbeOf(p) : G(p, a) \in Firm(p) =>
               ProbeOf(p)[a].fails # "warn"
<1>1. setup.driver \in {"mpro", "beada", "ax206"}
  BY SetupAssumption
<1>2. CASE p = "usb" /\ setup.driver = "mpro"
  <2>1. ProbeOf(p) = mpro_usb_probe
    BY <1>2 DEF ProbeOf
  <2> QED
    BY <1>2, <2>1 DEF G, Firm, mpro_usb_probe, mpro_setup_lz4, Step, Set, Must,
       MustOr, Try, Check, Parent
<1>3. CASE p = "usb" /\ setup.driver = "beada"
  <2>1. ProbeOf(p) = beada_probe
    BY <1>3 DEF ProbeOf
  <2> QED
    BY <1>3, <2>1 DEF G, Firm, beada_probe, Step, Set, Must, MustOr, Try, Check, Parent
<1>4. CASE p = "usb" /\ setup.driver = "ax206"
  <2>1. ProbeOf(p) = ax206_probe
    BY <1>4 DEF ProbeOf
  <2>2. /\ DOMAIN ax206_probe = 1..6 /\ ax206_probe[2].fails = "never"
        /\ \A a \in 1..6 : ax206_probe[a].gets = "drvdata" => a = 2
    BY DEF ax206_probe, Step, Set, Must, MustOr, Check
  <2> QED
    BY <1>4, <2>1, <2>2 DEF G, Firm
<1>5. CASE p = "drm" /\ setup.driver = "mpro"
  <2>1. ProbeOf(p) = mpro_drm__probe
    BY <1>5 DEF ProbeOf
  <2> QED
    BY <1>5, <2>1 DEF G, Firm, mpro_drm__probe, Step, Set, Must, MustOr, Try, Check,
       Parent
<1>6. CASE p = "drm" /\ setup.driver = "beada"
  <2>1. ProbeOf(p) = beada_drm_probe
    BY <1>6 DEF ProbeOf
  <2> QED
    BY <1>6, <2>1 DEF G, Firm, beada_drm_probe, Step, Set, Must, MustOr, Try, Check,
       Parent
<1>7. CASE p = "drm" /\ setup.driver = "ax206"
  <2>1. ProbeOf(p) = ax206_drm_probe
    BY <1>7 DEF ProbeOf
  <2> QED
    BY <1>7, <2>1 DEF G, Firm, ax206_drm_probe, Step, Set, Must, MustOr, Try, Check,
       Parent
<1>8. CASE p \notin {"usb", "drm"}
  BY <1>8 DEF Firm
<1> QED
  BY <1>1, <1>2, <1>3, <1>4, <1>5, <1>6, <1>7, <1>8

LEMMA OwnList ==
    ASSUME NEW p, NEW s, NEW i \in DOMAIN Of(p, s)
    PROVE  i \in DOMAIN s /\ Of(p, s)[i][1] = p /\ Of(p, s)[i][2] = s[i]
BY DEF Of

LEMMA RemovesOwn ==
    ASSUME setup \in Setups, NEW p \in Known, NEW i \in DOMAIN RemoveOf(p)
    PROVE  RemoveOf(p)[i][1] = p \/ RemoveOf(p)[i][2] \notin Firm(RemoveOf(p)[i][1])
<1>1. setup.driver \in {"mpro", "beada", "ax206"}
  BY SetupAssumption
<1>2. CASE p = "usb" /\ setup.driver = "mpro"
  <2>1. RemoveOf(p) = mpro_usb_disconnect
    BY <1>2 DEF RemoveOf
  <2>2. CASE Has(<<"drm", "published">>)
    <3>1. RemoveOf(p) = <<<<"drm", "card">>, <<"drm", "published">>,
                          <<"usb", "drvdata">>>>
      BY <2>1, <2>2 DEF mpro_usb_disconnect
    <3> QED
      BY <1>2, <3>1 DEF Firm
  <2>3. CASE ~Has(<<"drm", "published">>)
    <3>1. RemoveOf(p) = <<<<"usb", "drvdata">>>>
      BY <2>1, <2>3 DEF mpro_usb_disconnect
    <3> QED
      BY <1>2, <3>1 DEF Firm
  <2> QED
    BY <2>2, <2>3
<1>3. CASE ~(p = "usb" /\ setup.driver = "mpro")
  <2>1. \/ RemoveOf(p) = <<>>
        \/ \E s \in {<<"sysfs", "listener", "published", "conv_state", "card",
                       "modeset">>, <<"touch_listener", "listener">>,
                     <<"sysfs", "listener">>, <<"listener", "sysfs">>,
                     <<"listener", "sysfs", "card", "modeset">>,
                     <<"children", "wq", "drvdata">>,
                     <<"sysfs", "card", "modeset">>} : RemoveOf(p) = Of(p, s)
    <3>1. CASE setup.driver = "mpro"
      BY <1>3, <3>1 DEF RemoveOf, Known, Part, Children, mpro_drm__remove,
         mpro_ts__remove, mpro_bl__remove
    <3>2. CASE setup.driver = "beada"
      BY <3>2 DEF RemoveOf, Known, Part, Children, beada_disconnect,
         beada_drm_remove, beada_backlight_remove
    <3>3. CASE setup.driver = "ax206"
      BY <3>3 DEF RemoveOf, Known, Part, Children, ax206_disconnect, ax206_drm_remove
    <3> QED
      BY <1>1, <3>1, <3>2, <3>3
  <2>2. CASE RemoveOf(p) = <<>>
    BY <2>2
  <2>3. ASSUME NEW s, RemoveOf(p) = Of(p, s) PROVE RemoveOf(p)[i][1] = p
    <3>1. i \in DOMAIN Of(p, s)
      BY <2>3
    <3> QED
      BY <2>3, <3>1, OwnList
  <2> QED
    BY <2>1, <2>2, <2>3
<1> QED
  BY <1>2, <1>3

(* Nothing of a part's own changes but for what it may lose.               *)
LEMMA FirmSame ==
    ASSUME setup' = setup, NEW q, FirmInv(q), phase'[q] = phase[q],
           todo'[q] = todo[q],
           phase[q] \in {"probing", "bound"} =>
               \A n \in Firm(q) : n \in ToSet(held[q]) => n \in ToSet(held'[q])
    PROVE  FirmInv(q)'
<1>1. Steps(q)' = Steps(q) /\ ProbeOf(q)' = ProbeOf(q) /\ \A i : G(q, i)' = G(q, i)
  BY SameSetup, SameOrder DEF Steps
<1>2. \A x : Firm(x)' = Firm(x)
  BY DEF Firm
<1>3. ASSUME phase[q] = "probing", NEW a \in 1..Steps(q), G(q, a) \in Firm(q)
      PROVE  G(q, a) \in ToSet(held'[q])
  BY <1>3 DEF FirmInv
<1>4. ASSUME phase[q] = "bound", NEW a \in DOMAIN ProbeOf(q), G(q, a) \in Firm(q)
      PROVE  G(q, a) \in ToSet(held'[q])
  BY <1>4 DEF FirmInv
<1> QED
  BY <1>1, <1>2, <1>3, <1>4, Zenon DEF FirmInv

(* A step of the probe that takes what it should.                          *)
LEMMA FirmAdvance ==
    ASSUME Good, NEW p \in Part, setup' = setup, phase[p] = "probing",
           todo[p] # <<>>, phase'[p] = phase[p], todo'[p] = Tail(todo[p]), FirmInv(p),
           ToSet(held[p]) \subseteq ToSet(held'[p]),
           Head(todo[p]).gets \in Firm(p) => Head(todo[p]).gets \in ToSet(held'[p])
    PROVE  FirmInv(p)'
<1>1. p \in Known /\ Sound(p) /\ ProbingInv(p) /\ setup \in Setups
  BY GoodFacts
<1>2. /\ Steps(p) \in Nat /\ Head(todo[p]) = ProbeOf(p)[Steps(p) + 1]
  BY <1>1, NextStep
<1>3. todo[p] \in Seq(StepType)
  BY <1>1 DEF ProbingInv
<1>4. Len(todo'[p]) = Len(todo[p]) - 1 /\ Len(todo[p]) \in Nat
  BY <1>3, Rest
<1>5. ProbeOf(p) \in Seq(StepType)
  BY <1>1 DEF Sound
<1>6. Steps(p)' = Steps(p) + 1 /\ \A i : G(p, i)' = G(p, i)
  <2>1. Steps(p)' = Len(ProbeOf(p)) - Len(todo'[p])
    BY SameSetup, Zenon DEF Steps
  <2>2. Len(ProbeOf(p)) \in Nat
    BY <1>5
  <2>3. \A m, n \in Nat : m - (n - 1) = (m - n) + 1
    OBVIOUS
  <2>4. Steps(p)' = (Len(ProbeOf(p)) - Len(todo[p])) + 1
    BY <1>4, <2>1, <2>2, <2>3
  <2>5. \A i : G(p, i)' = G(p, i)
    BY SameOrder, Zenon
  <2> QED
    BY <2>4, <2>5, Zenon DEF Steps
<1>7. Firm(p)' = Firm(p)
  BY DEF Firm
<1>8. ASSUME NEW a \in 1..(Steps(p) + 1), G(p, a) \in Firm(p)
      PROVE  G(p, a) \in ToSet(held'[p])
  <2>1. CASE a = Steps(p) + 1
    BY <1>2, <1>8, <2>1 DEF G
  <2>2. CASE a # Steps(p) + 1
    <3>1. a \in 1..Steps(p)
      BY <1>2, <2>2
    <3> QED
      BY <1>8, <3>1 DEF FirmInv
  <2> QED
    BY <2>1, <2>2
<1> QED
  BY <1>6, <1>7, <1>8 DEF FirmInv

LEMMA HasLast ==
    ASSUME NEW S, NEW s \in Seq(S), NEW x
    PROVE  x \in ToSet(Append(s, x))
<1>1. s \in Seq(S \cup {x})
  OBVIOUS
<1>2. /\ Len(Append(s, x)) = Len(s) + 1 /\ Append(s, x) \in Seq(S \cup {x})
      /\ Append(s, x)[Len(s) + 1] = x /\ Len(s) \in Nat
  BY <1>1, AppendProperties
<1>3. Len(s) + 1 \in DOMAIN Append(s, x)
  BY <1>2
<1> QED
  BY <1>2, <1>3 DEF ToSet

LEMMA FirmProbeStep ==
    ASSUME Good, NEW p \in Part, ProbeStep(p), \A q \in Part : FirmInv(q)
    PROVE  \A q \in Part : FirmInv(q)'
<1> DEFINE s == Head(todo[p])
<1>0. /\ setup' = setup /\ phase[p] = "probing" /\ todo[p] # <<>>
      /\ held' = IF s.gets = "none" THEN held
                 ELSE [held EXCEPT ![p] = Append(@, s.gets)]
      /\ phase' = IF s.gets = "children"
                  THEN [q \in Part |-> IF q = p THEN phase[p] ELSE "unbound"]
                  ELSE phase
      /\ todo' = [todo EXCEPT ![p] = Tail(@)]
  BY DEF ProbeStep
<1>1. /\ phase \in [Part -> Phase] /\ todo = [q \in Part |-> todo[q]]
      /\ held \in [Part -> Seq(Name)]
  BY DEF Good, Typed
<1> HIDE DEF s
<1>2. phase'[p] = phase[p] /\ todo'[p] = Tail(todo[p])
  BY <1>0, <1>1
<1>3. /\ ToSet(held[p]) \subseteq ToSet(held'[p])
      /\ s.gets \in Firm(p) => s.gets \in ToSet(held'[p])
  <2>1. CASE s.gets = "none"
    <3>1. held' = held /\ s.gets \notin Firm(p)
      BY <1>0, <2>1 DEF Firm
    <3> QED
      BY <3>1
  <2>2. CASE s.gets # "none"
    <3>1. held'[p] = Append(held[p], s.gets) /\ held[p] \in Seq(Name)
      BY <1>0, <1>1, <2>2
    <3> QED
      BY <3>1, AppendKeeps, HasLast
  <2> QED
    BY <2>1, <2>2
<1>4. FirmInv(p)'
  BY <1>0, <1>2, <1>3, FirmAdvance DEF s
<1>5. ASSUME NEW q \in Part, q # p PROVE FirmInv(q)'
  <2>1. todo'[q] = todo[q] /\ held'[q] = held[q]
    BY <1>0, <1>1, <1>5
  <2>2. CASE s.gets = "children"
    <3>1. phase'[q] = "unbound"
      BY <1>0, <1>5, <2>2
    <3> QED
      BY <3>1 DEF FirmInv
  <2>3. CASE s.gets # "children"
    <3>1. phase'[q] = phase[q]
      BY <1>0, <2>3
    <3> QED
      BY <1>0, <2>1, <3>1, FirmSame
  <2> QED
    BY <2>2, <2>3
<1> QED
  BY <1>4, <1>5

(* A part that gives something back.                                       *)
LEMMA FirmRelease ==
    ASSUME Good, NEW p \in Part, Release(p), \A q \in Part : FirmInv(q)
    PROVE  \A q \in Part : FirmInv(q)'
<1>0. /\ setup' = setup /\ phase' = phase /\ phase[p] = "removing"
      /\ todo' = [todo EXCEPT ![p] = IF @ = <<>> THEN @ ELSE Tail(@)]
  BY DEF Release
<1>1. /\ todo = [q \in Part |-> todo[q]] /\ p \in Known /\ RemovingInv(p)
  BY <1>0, GoodFacts DEF Good, Typed
<1>2. PICK q \in Part, n \in Name :
          /\ <<q, n>> \in NextRelease(p) /\ ToSet(held'[q]) = ToSet(held[q]) \ {n}
          /\ \A x \in Part : x # q => held'[x] = held[x]
  BY ReleaseFacts, Zenon
<1>3. todo[p] \in Seq(Resource) /\ todo'[p] = IF todo[p] = <<>> THEN <<>> ELSE Tail(todo[p])
  BY <1>0, <1>1 DEF RemovingInv
<1>4. ASSUME q # p PROVE n \notin Firm(q)
  <2>1. todo[p] # <<>> /\ <<q, n>> = todo[p][1] /\ 1 \in DOMAIN todo[p]
    <3>1. CASE todo[p] = <<>>
      BY <1>2, <1>4, <3>1 DEF NextRelease
    <3>2. CASE todo[p] # <<>>
      <4>1. Head(todo[p]) = todo[p][1] /\ 1 \in DOMAIN todo[p]
        BY <1>3, <3>2, Rest
      <4> QED
        BY <1>2, <3>2, <4>1 DEF NextRelease
    <3> QED
      BY <3>1, <3>2
  <2>2. todo[p][1][1] = q /\ todo[p][1][2] = n
    BY <2>1
  <2> QED
    BY <1>0, <1>4, <2>1, <2>2 DEF FirmInv
<1>5. FirmInv(p)'
  <2>1. ASSUME NEW i \in DOMAIN todo'[p]
        PROVE  i + 1 \in DOMAIN todo[p] /\ todo'[p][i] = todo[p][i + 1]
    <3>1. todo[p] # <<>>
      BY <1>3, <2>1
    <3>2. /\ DOMAIN Tail(todo[p]) = 1..(Len(todo[p]) - 1) /\ Len(todo[p]) \in Nat
          /\ \A j \in 1..(Len(todo[p]) - 1) : Tail(todo[p])[j] = todo[p][j + 1]
          /\ DOMAIN todo[p] = 1..Len(todo[p])
      BY <1>3, <3>1, Rest
    <3> QED
      BY <1>3, <2>1, <3>1, <3>2
  <2>2. \A x : Firm(x)' = Firm(x)
    BY DEF Firm
  <2>3. phase'[p] = "removing"
    BY <1>0
  <2>4. ASSUME NEW i \in DOMAIN todo'[p]
        PROVE  todo'[p][i][1] = p \/ todo'[p][i][2] \notin Firm(todo'[p][i][1])
    BY <1>0, <2>1 DEF FirmInv
  <2> QED
    BY <2>2, <2>3, <2>4 DEF FirmInv
<1>6. ASSUME NEW x \in Part, x # p PROVE FirmInv(x)'
  <2>1. phase'[x] = phase[x] /\ todo'[x] = todo[x]
    BY <1>0, <1>1, <1>6
  <2>2. \A m \in Firm(x) : m \in ToSet(held[x]) => m \in ToSet(held'[x])
    <3>1. CASE x = q
      BY <1>2, <1>4, <1>6, <3>1
    <3>2. CASE x # q
      BY <1>2, <3>2
    <3> QED
      BY <3>1, <3>2
  <2> QED
    BY <1>0, <2>1, <2>2, FirmSame
<1> QED
  BY <1>5, <1>6

(* A part that starts to give back what is on its list.                    *)
LEMMA FirmStartsRemoving ==
    ASSUME Good, NEW p \in Part, NEW rs, setup' = setup, held' = held,
           phase' = [phase EXCEPT ![p] = "removing"],
           todo' = [todo EXCEPT ![p] = rs],
           \A i \in DOMAIN rs : rs[i][1] = p \/ rs[i][2] \notin Firm(rs[i][1]),
           \A q \in Part : FirmInv(q)
    PROVE  \A q \in Part : FirmInv(q)'
<1>1. phase \in [Part -> Phase] /\ todo = [q \in Part |-> todo[q]]
  BY DEF Good, Typed
<1>2. phase'[p] = "removing" /\ todo'[p] = rs
  BY <1>1
<1>3. \A x : Firm(x)' = Firm(x)
  BY DEF Firm
<1>4. FirmInv(p)'
  BY <1>2, <1>3 DEF FirmInv
<1>5. ASSUME NEW q \in Part, q # p PROVE FirmInv(q)'
  <2>1. phase'[q] = phase[q] /\ todo'[q] = todo[q] /\ held'[q] = held[q]
    BY <1>1, <1>5
  <2> QED
    BY <2>1, FirmSame
<1> QED
  BY <1>4, <1>5

LEMMA FirmStartRemove ==
    ASSUME Good, NEW p \in Part, StartRemove(p), \A q \in Part : FirmInv(q)
    PROVE  \A q \in Part : FirmInv(q)'
<1>0. /\ setup' = setup /\ held' = held /\ phase[p] = "bound"
      /\ phase' = [phase EXCEPT ![p] = "removing"]
      /\ todo' = [todo EXCEPT ![p] = RemoveOf(p)]
  BY DEF StartRemove
<1>1. p \in Known /\ setup \in Setups
  BY <1>0, GoodFacts
<1> QED
  BY <1>0, <1>1, RemovesOwn, FirmStartsRemoving

LEMMA FirmProbeFail ==
    ASSUME Good, NEW p \in Part, ProbeFail(p), \A q \in Part : FirmInv(q)
    PROVE  \A q \in Part : FirmInv(q)'
<1> DEFINE rs == Of(p, Head(todo[p]).undo)
<1>0. /\ setup' = setup /\ held' = held
      /\ phase' = [phase EXCEPT ![p] = "removing"]
      /\ todo' = [todo EXCEPT ![p] = rs]
  BY DEF ProbeFail
<1>1. \A i \in DOMAIN rs : rs[i][1] = p
  BY OwnList
<1> HIDE DEF rs
<1> QED
  BY <1>0, <1>1, FirmStartsRemoving

LEMMA FirmPartStep ==
    ASSUME Good, NEW p \in Part, PartStep(p), \A q \in Part : FirmInv(q)
    PROVE  \A q \in Part : FirmInv(q)'
<1>1. /\ phase \in [Part -> Phase] /\ todo = [q \in Part |-> todo[q]]
      /\ held \in [Part -> Seq(Name)] /\ setup \in Setups
  BY DEF Good, Typed
<1>2. CASE Bind(p)
  <2>0. /\ setup' = setup /\ held' = held
        /\ phase' = [phase EXCEPT ![p] = "probing"]
        /\ todo' = [todo EXCEPT ![p] = ProbeOf(p)]
    BY <1>2 DEF Bind
  <2>1. phase'[p] = "probing" /\ todo'[p] = ProbeOf(p)
    BY <1>1, <2>0
  <2>2. p \in Known
    BY <1>1, <1>2, SetupAssumption DEF Bind, Known, Part
  <2>3. ProbeOf(p) \in Seq(StepType)
    BY <2>2, GoodFacts DEF Sound
  <2>4. Steps(p)' = 0
    <3>1. Steps(p)' = Len(ProbeOf(p)) - Len(ProbeOf(p))
      BY <2>0, <2>1, SameSetup, Zenon DEF Steps
    <3> QED
      BY <2>3, <3>1
  <2>5. FirmInv(p)'
    <3>1. 1..Steps(p)' = {}
      BY <2>4
    <3> QED
      BY <2>1, <3>1 DEF FirmInv
  <2>6. ASSUME NEW q \in Part, q # p PROVE FirmInv(q)'
    <3>1. phase'[q] = phase[q] /\ todo'[q] = todo[q] /\ held'[q] = held[q]
      BY <1>1, <2>0, <2>6
    <3> QED
      BY <2>0, <3>1, FirmSame
  <2> QED
    BY <2>5, <2>6
<1>3. CASE ProbeStep(p)
  BY <1>3, FirmProbeStep
<1>4. CASE ProbeWarn(p)
  <2>0. /\ setup' = setup /\ held' = held /\ phase' = phase /\ phase[p] = "probing"
        /\ todo[p] # <<>> /\ Head(todo[p]).fails = "warn"
        /\ todo' = [todo EXCEPT ![p] = Tail(@)]
    BY <1>4 DEF ProbeWarn
  <2>1. /\ p \in Known /\ Sound(p) /\ ProbingInv(p)
    BY <2>0, GoodFacts
  <2>2. /\ Head(todo[p]) = ProbeOf(p)[Steps(p) + 1] /\ Steps(p) \in Nat
        /\ 1..(Steps(p) + 1) \subseteq DOMAIN ProbeOf(p)
    BY <2>0, <2>1, NextStep
  <2>3. Steps(p) + 1 \in DOMAIN ProbeOf(p)
    <3>1. Steps(p) + 1 \in 1..(Steps(p) + 1)
      BY <2>2
    <3> QED
      BY <2>2, <3>1
  <2>4. Head(todo[p]).gets \notin Firm(p)
    BY <1>1, <2>0, <2>1, <2>2, <2>3, FirmSteps DEF G
  <2>5. todo'[p] = Tail(todo[p])
    BY <1>1, <2>0
  <2>6. FirmInv(p)'
    BY <2>0, <2>4, <2>5, FirmAdvance
  <2>7. ASSUME NEW q \in Part, q # p PROVE FirmInv(q)'
    <3>1. todo'[q] = todo[q]
      BY <1>1, <2>0, <2>7
    <3> QED
      BY <2>0, <3>1, FirmSame
  <2> QED
    BY <2>6, <2>7
<1>5. CASE ProbeFail(p)
  BY <1>5, FirmProbeFail
<1>6. CASE ProbeDone(p)
  <2>0. /\ setup' = setup /\ held' = held /\ todo' = todo /\ phase[p] = "probing"
        /\ phase' = [phase EXCEPT ![p] = "bound"] /\ todo[p] = <<>>
    BY <1>6 DEF ProbeDone
  <2>1. phase'[p] = "bound" /\ p \in Known /\ Sound(p)
    BY <1>1, <2>0, GoodFacts
  <2>2. Steps(p) = Len(ProbeOf(p)) /\ DOMAIN ProbeOf(p) = 1..Len(ProbeOf(p))
    <3>1. ProbeOf(p) \in Seq(StepType) /\ Len(todo[p]) = 0
      BY <2>0, <2>1 DEF Sound
    <3> QED
      BY <3>1 DEF Steps
  <2>3. \A a \in DOMAIN ProbeOf(p) : G(p, a) \in Firm(p) => G(p, a) \in ToSet(held[p])
    BY <2>0, <2>2 DEF FirmInv
  <2>4. /\ ProbeOf(p)' = ProbeOf(p) /\ \A a : G(p, a)' = G(p, a)
        /\ Firm(p)' = Firm(p)
    BY <2>0, SameSetup, SameOrder DEF Firm
  <2>5. FirmInv(p)'
    BY <2>0, <2>1, <2>3, <2>4, Zenon DEF FirmInv
  <2>6. ASSUME NEW q \in Part, q # p PROVE FirmInv(q)'
    <3>1. phase'[q] = phase[q]
      BY <1>1, <2>0, <2>6
    <3> QED
      BY <2>0, <3>1, FirmSame
  <2> QED
    BY <2>5, <2>6
<1>7. CASE Release(p)
  BY <1>7, FirmRelease
<1>8. CASE Released(p)
  <2>0. /\ setup' = setup /\ todo' = todo
        /\ phase' = [phase EXCEPT ![p] = "unbound"]
        /\ held' = [held EXCEPT ![p] = RemoveFirst(@, "drvdata")]
    BY <1>8 DEF Released
  <2>1. phase'[p] = "unbound"
    BY <1>1, <2>0
  <2>2. FirmInv(p)'
    BY <2>1 DEF FirmInv
  <2>3. ASSUME NEW q \in Part, q # p PROVE FirmInv(q)'
    <3>1. phase'[q] = phase[q] /\ held'[q] = held[q]
      BY <1>1, <2>0, <2>3
    <3> QED
      BY <2>0, <3>1, FirmSame
  <2> QED
    BY <2>2, <2>3
<1> QED
  BY <1>2, <1>3, <1>4, <1>5, <1>6, <1>7, <1>8, Zenon DEF PartStep

(* A step that leaves the parts as they are, or takes for one of them.     *)
LEMMA FirmStep ==
    ASSUME Inv, [Next]_vars, \A q \in Part : FirmInv(q)
    PROVE  \A q \in Part : FirmInv(q)'
<1>1. /\ Good /\ phase \in [Part -> Phase] /\ held \in [Part -> Seq(Name)]
      /\ setup' = setup /\ \A c \in Children : c \in Part
  BY SetupFixed DEF Inv, Good, Typed, Part
<1>2. ASSUME phase' = phase, todo' = todo, held' = held
      PROVE  \A q \in Part : FirmInv(q)'
  BY <1>1, <1>2, FirmSame
<1>3. CASE UNCHANGED vars \/ Over
  BY <1>2, <1>3 DEF vars, Over
<1>4. ASSUME NEW p \in Part, PartStep(p) PROVE \A q \in Part : FirmInv(q)'
  BY <1>1, <1>4, FirmPartStep
<1>5. CASE Disconnect
  BY <1>1, <1>5, FirmStartRemove DEF Disconnect, Part
<1>6. ASSUME NEW c \in Children, Unbind(c) \/ RemoveChild(c)
      PROVE  \A q \in Part : FirmInv(q)'
  BY <1>1, <1>6, FirmStartRemove DEF Unbind, RemoveChild
<1>7. ASSUME NEW c \in Children, UnregisterChild(c)
      PROVE  \A q \in Part : FirmInv(q)'
  <2>0. /\ phase' = [phase EXCEPT ![c] = "absent"] /\ todo' = todo /\ held' = held
    BY <1>7 DEF UnregisterChild
  <2>1. phase'[c] = "absent" /\ \A q \in Part : q # c => phase'[q] = phase[q]
    BY <1>1, <2>0
  <2>2. FirmInv(c)'
    BY <2>1 DEF FirmInv
  <2>3. ASSUME NEW q \in Part, q # c PROVE FirmInv(q)'
    BY <1>1, <2>0, <2>1, <2>3, FirmSame
  <2> QED
    BY <2>2, <2>3
<1>8. ASSUME NEW u \in Uses, Call(u) PROVE \A q \in Part : FirmInv(q)'
  BY <1>2, <1>8 DEF Call
<1>9. ASSUME NEW c \in calls, Return(c) PROVE \A q \in Part : FirmInv(q)'
  BY <1>2, <1>9 DEF Return
<1>10. CASE lz4_level_store
  <2>0. /\ phase' = phase /\ todo' = todo
        /\ held' = held \/ held' = [held EXCEPT !["usb"] = Append(@, "lz4")]
    BY <1>10 DEF lz4_level_store, TakeLz4
  <2>1. ASSUME NEW q \in Part PROVE ToSet(held[q]) \subseteq ToSet(held'[q])
    <3>1. CASE held' = held \/ q # "usb"
      <4>1. held'[q] = held[q]
        BY <1>1, <2>0, <3>1
      <4> QED
        BY <4>1
    <3>2. CASE ~(held' = held \/ q # "usb")
      <4>1. held'[q] = Append(held[q], "lz4") /\ held[q] \in Seq(Name)
        BY <1>1, <2>0, <3>2
      <4> QED
        BY <4>1, AppendKeeps
    <3> QED
      BY <3>1, <3>2
  <2> QED
    BY <1>1, <2>0, <2>1, FirmSame
<1> QED
  BY <1>3, <1>4, <1>5, <1>6, <1>7, <1>8, <1>9, <1>10, Zenon DEF Next

(* What beadapanel's USB driver holds when it is removed or gives up.      *)
LEMMA BeadaFiles ==
    ASSUME setup.driver = "beada"
    PROVE  /\ DOMAIN ProbeOf("usb") = 1..11 /\ RemoveOf("usb") = <<>>
           /\ \A a \in 1..11 : G("usb", a) = "sysfs" => a = 8
           /\ \A a \in 1..11 : G("usb", a) = "drvdata" => a = 9
           /\ G("usb", 9) = "drvdata"
           /\ ProbeOf("usb")[9].fails = "never" /\ ProbeOf("usb")[10].fails = "never"
           /\ \A a \in 1..11 : ProbeOf("usb")[a].undo \in {<<>>, <<"children">>}
<1>p. ProbeOf("usb") = beada_probe /\ RemoveOf("usb") = <<>>
  BY DEF ProbeOf, RemoveOf, beada_disconnect
<1> QED
  BY <1>p DEF G, beada_probe, Step, Set, Must, MustOr, Try, Check, Parent

LEMMA FilesStep ==
    ASSUME Inv, [Next]_vars, \A q \in Part : FirmInv(q), FilesInv
    PROVE  FilesInv'
<1> SUFFICES ASSUME setup'.driver = "beada", phase'["usb"] = "removing"
             PROVE  /\ "sysfs" \in ToSet(held'["usb"]) =>
                            "drvdata" \in ToSet(held'["usb"])
                    /\ \A i \in DOMAIN todo'["usb"] : todo'["usb"][i][2] # "drvdata"
  BY DEF FilesInv
<1>0. /\ Good /\ phase \in [Part -> Phase] /\ held \in [Part -> Seq(Name)]
      /\ todo = [q \in Part |-> todo[q]] /\ setup' = setup /\ setup \in Setups
      /\ setup.driver = "beada" /\ "usb" \in Part /\ \A c \in Children : c # "usb"
  BY SetupFixed DEF Inv, Good, Typed, Part, Children
<1>1. ASSUME phase["usb"] = "removing"
      PROVE  /\ "sysfs" \in ToSet(held["usb"]) => "drvdata" \in ToSet(held["usb"])
             /\ \A i \in DOMAIN todo["usb"] : todo["usb"][i][2] # "drvdata"
  BY <1>0, <1>1 DEF FilesInv
<1>2. ASSUME phase'["usb"] = phase["usb"], todo'["usb"] = todo["usb"],
             held'["usb"] = held["usb"]
      PROVE  /\ "sysfs" \in ToSet(held'["usb"]) => "drvdata" \in ToSet(held'["usb"])
             /\ \A i \in DOMAIN todo'["usb"] : todo'["usb"][i][2] # "drvdata"
  BY <1>1, <1>2
<1>3. /\ DOMAIN ProbeOf("usb") = 1..11 /\ RemoveOf("usb") = <<>>
      /\ \A a \in 1..11 : G("usb", a) = "sysfs" => a = 8
      /\ G("usb", 9) = "drvdata"
      /\ ProbeOf("usb")[9].fails = "never" /\ ProbeOf("usb")[10].fails = "never"
      /\ \A a \in 1..11 : ProbeOf("usb")[a].undo \in {<<>>, <<"children">>}
  BY <1>0, BeadaFiles
<1>4. "drvdata" \in Firm("usb")
  BY DEF Firm
<1>5. CASE ProbeFail("usb")
  <2> DEFINE s == Head(todo["usb"])  k == Steps("usb")
  <2>0. /\ held' = held /\ phase["usb"] = "probing" /\ todo["usb"] # <<>>
        /\ s.fails \in {"abort", "orphan"} /\ todo'["usb"] = Of("usb", s.undo)
    BY <1>0, <1>5 DEF ProbeFail, Orphan
  <2>1. "usb" \in Known /\ Sound("usb") /\ ProbingInv("usb") /\ "usb" \in Known
    BY <1>0, GoodFacts
  <2>2. /\ s = ProbeOf("usb")[k + 1] /\ k \in Nat
        /\ 1..(k + 1) \subseteq DOMAIN ProbeOf("usb")
    BY <2>0, <2>1, NextStep
  <2> HIDE DEF s, k
  <2>3. k + 1 \in 1..11
    <3>1. k + 1 \in 1..(k + 1)
      BY <2>2
    <3> QED
      BY <1>3, <2>2, <3>1
  <2>4. ASSUME "sysfs" \in ToSet(held["usb"]) PROVE "drvdata" \in ToSet(held["usb"])
    <3>1. Taken("usb", k, "sysfs")
      BY <2>0, <2>1, <2>4, Zenon DEF ProbingInv, k
    <3>2. PICK a \in 1..k : "sysfs" = G("usb", a)
      BY <3>1 DEF Taken, Stored
    <3>3. a \in 1..11
      BY <2>2, <2>3, <3>2
    <3>4. 8 <= k
      BY <1>3, <2>2, <3>2, <3>3
    <3>5. s.fails # "never"
      BY <2>0
    <3>6. k + 1 # 9 /\ k + 1 # 10
      BY <1>3, <2>2, <3>5
    <3>7. 9 \in 1..k
      BY <2>2, <3>4, <3>6
    <3> QED
      BY <1>0, <1>3, <1>4, <2>0, <3>7 DEF FirmInv, k
  <2>5. s.undo \in {<<>>, <<"children">>}
    BY <1>3, <2>2, <2>3
  <2>6. ASSUME NEW i \in DOMAIN todo'["usb"] PROVE todo'["usb"][i][2] # "drvdata"
    <3>1. i \in DOMAIN s.undo /\ todo'["usb"][i][2] = s.undo[i]
      BY <2>0, <2>6, OwnList
    <3> QED
      BY <2>5, <3>1
  <2> QED
    BY <2>0, <2>4, <2>6
<1>6. ASSUME NEW p \in Part, Release(p)
      PROVE  /\ "sysfs" \in ToSet(held'["usb"]) => "drvdata" \in ToSet(held'["usb"])
             /\ \A i \in DOMAIN todo'["usb"] : todo'["usb"][i][2] # "drvdata"
  <2>0. /\ phase' = phase /\ phase[p] = "removing"
        /\ todo' = [todo EXCEPT ![p] = IF @ = <<>> THEN @ ELSE Tail(@)]
    BY <1>6 DEF Release
  <2>1. PICK q \in Part, n \in Name :
            /\ <<q, n>> \in NextRelease(p) /\ ToSet(held'[q]) = ToSet(held[q]) \ {n}
            /\ \A x \in Part : x # q => held'[x] = held[x]
    BY <1>0, <1>6, ReleaseFacts, Zenon
  <2>2. phase["usb"] = "removing" /\ p \in Known /\ RemovingInv(p)
    BY <1>0, <2>0, GoodFacts
  <2>3. todo[p] \in Seq(Resource)
    BY <2>0, <2>2 DEF RemovingInv
  <2>4. todo[p] # <<>> => /\ Head(todo[p]) = todo[p][1] /\ 1 \in DOMAIN todo[p]
                          /\ Len(todo[p]) \in Nat /\ DOMAIN todo[p] = 1..Len(todo[p])
                          /\ DOMAIN Tail(todo[p]) = 1..(Len(todo[p]) - 1)
                          /\ \A i \in 1..(Len(todo[p]) - 1) :
                                 Tail(todo[p])[i] = todo[p][i + 1]
    BY <2>3, Rest
  <2>5. ASSUME q = "usb" PROVE n # "drvdata"
    <3>1. CASE todo[p] = <<>>
      <4>1. PICK i \in Kept(p) : <<q, n>> = <<p, held[p][i]>>
        BY <2>1, <3>1 DEF NextRelease
      <4>2. p = "usb" /\ n \in Managed("usb")
        BY <2>5, <4>1 DEF Kept
      <4> QED
        BY <1>0, <4>2 DEF Managed
    <3>2. CASE todo[p] # <<>>
      <4>1. <<q, n>> = todo[p][1] /\ 1 \in DOMAIN todo[p]
        BY <2>1, <2>4, <3>2 DEF NextRelease
      <4>2. todo[p][1][1] = "usb" /\ todo[p][1][2] = n
        BY <2>5, <4>1
      <4>3. CASE p = "usb"
        BY <1>1, <2>2, <4>1, <4>2, <4>3
      <4>4. CASE p # "usb"
        BY <1>4, <2>0, <4>1, <4>2, <4>4 DEF FirmInv
      <4> QED
        BY <4>3, <4>4
    <3> QED
      BY <3>1, <3>2
  <2>6. "sysfs" \in ToSet(held'["usb"]) => "drvdata" \in ToSet(held'["usb"])
    <3>1. CASE q = "usb"
      BY <1>1, <2>1, <2>2, <2>5, <3>1
    <3>2. CASE q # "usb"
      BY <1>0, <1>1, <2>1, <2>2, <3>2
    <3> QED
      BY <3>1, <3>2
  <2>7. ASSUME NEW i \in DOMAIN todo'["usb"] PROVE todo'["usb"][i][2] # "drvdata"
    <3>1. CASE p = "usb" /\ todo["usb"] # <<>>
      <4>1. todo'["usb"] = Tail(todo["usb"])
        BY <1>0, <2>0, <3>1
      <4>2. i + 1 \in DOMAIN todo["usb"] /\ todo'["usb"][i] = todo["usb"][i + 1]
        BY <2>4, <2>7, <3>1, <4>1
      <4> QED
        BY <1>1, <2>2, <4>2
    <3>2. CASE ~(p = "usb" /\ todo["usb"] # <<>>)
      <4>1. todo'["usb"] = todo["usb"]
        BY <1>0, <2>0, <3>2
      <4> QED
        BY <1>1, <2>2, <2>7, <4>1
    <3> QED
      BY <3>1, <3>2
  <2> QED
    BY <2>6, <2>7
<1>7. ASSUME NEW p \in Part, PartStep(p)
      PROVE  /\ "sysfs" \in ToSet(held'["usb"]) => "drvdata" \in ToSet(held'["usb"])
             /\ \A i \in DOMAIN todo'["usb"] : todo'["usb"][i][2] # "drvdata"
  <2>1. CASE Release(p)
    BY <1>6, <2>1
  <2>2. CASE p # "usb" /\ (Bind(p) \/ ProbeWarn(p) \/ ProbeFail(p) \/ ProbeDone(p)
                             \/ Released(p))
    BY <1>0, <1>2, <2>2 DEF Bind, ProbeWarn, ProbeFail, ProbeDone, Released
  <2>3. CASE p # "usb" /\ ProbeStep(p)
    <3>1. p \in Known
      BY <1>0, <2>3, GoodFacts DEF ProbeStep
    <3>2. Head(todo[p]).gets # "children"
      BY <1>0, <2>3, <3>1, ChildrenStep DEF ProbeStep
    <3> QED
      BY <1>0, <1>2, <2>3, <3>2 DEF ProbeStep
  <2>4. CASE p = "usb" /\ (Bind(p) \/ ProbeStep(p) \/ ProbeWarn(p) \/ ProbeDone(p)
                             \/ Released(p))
    BY <1>0, <2>4 DEF Bind, ProbeStep, ProbeWarn, ProbeDone, Released
  <2> QED
    BY <1>5, <1>7, <2>1, <2>2, <2>3, <2>4, Zenon DEF PartStep
<1>8. CASE Disconnect
  <2>1. held' = held /\ phase["usb"] = "bound" /\ todo'["usb"] = <<>>
    BY <1>0, <1>3, <1>8 DEF Disconnect, StartRemove
  <2>2. "drvdata" \in ToSet(held["usb"])
    BY <1>0, <1>3, <1>4, <2>1 DEF FirmInv
  <2> QED
    BY <2>1, <2>2
<1>9. ASSUME NEW c \in Children, Unbind(c) \/ RemoveChild(c) \/ UnregisterChild(c)
      PROVE  /\ "sysfs" \in ToSet(held'["usb"]) => "drvdata" \in ToSet(held'["usb"])
             /\ \A i \in DOMAIN todo'["usb"] : todo'["usb"][i][2] # "drvdata"
  BY <1>0, <1>2, <1>9 DEF Unbind, RemoveChild, UnregisterChild, StartRemove
<1>10. ASSUME UNCHANGED <<phase, todo, held>>
       PROVE  /\ "sysfs" \in ToSet(held'["usb"]) => "drvdata" \in ToSet(held'["usb"])
              /\ \A i \in DOMAIN todo'["usb"] : todo'["usb"][i][2] # "drvdata"
  BY <1>2, <1>10
<1>11. ~lz4_level_store
  BY <1>0, SetupAssumption DEF lz4_level_store, TakeLz4
<1>12. ASSUME NEW u \in Uses, Call(u) PROVE UNCHANGED <<phase, todo, held>>
  BY <1>12 DEF Call
<1>13. ASSUME NEW c \in calls, Return(c) PROVE UNCHANGED <<phase, todo, held>>
  BY <1>13 DEF Return
<1>14. CASE UNCHANGED vars \/ Over
  BY <1>10, <1>14 DEF vars, Over
<1> QED
  BY <1>7, <1>8, <1>9, <1>10, <1>11, <1>12, <1>13, <1>14, Zenon DEF Next

(* A frame is compressed with memory that is there when its call begins.   *)
LEMMA Lz4Step ==
    ASSUME Inv, Inv', [Next]_vars, Lz4Inv
    PROVE  Lz4Inv'
<1> SUFFICES ASSUME NEW c \in calls', Lz4 \in c.uses, setup'.lz4 = "store",
                    phase'["usb"] # "removing"
             PROVE  Has(Lz4)'
  BY DEF Lz4Inv, Lz4
<1>0. /\ Good /\ setup' = setup /\ held \in [Part -> Seq(Name)] /\ "usb" \in Part
      /\ setup \in Setups /\ phase \in [Part -> Phase]
  BY SetupFixed DEF Inv, Good, Typed, Part
<1>1. ASSUME c \in calls, phase["usb"] # "removing" PROVE Has(Lz4)
  BY <1>0, <1>1 DEF Lz4Inv
<1>2. ASSUME c \in calls, phase'["usb"] = phase["usb"],
             "lz4" \in ToSet(held["usb"]) => "lz4" \in ToSet(held'["usb"])
      PROVE  Has(Lz4)'
  BY <1>1, <1>2 DEF Has, Lz4
<1>3. phase'["usb"] # "unbound"
  <2>1. CallOK(c)' /\ Good'
    BY DEF Inv, CallsInv
  <2>2. PICK u \in Uses', more \in SUBSET {Lz4, Mdrm} :
            c.entry = u.entry /\ c.uses = u.uses \cup more /\ MoreOK(u, more)'
    BY <2>1 DEF CallOK, Lz4, Mdrm
  <2>3. u \in Uses /\ MoreOK(u, more)
    BY <1>0, <2>2, SameSetup DEF MoreOK, Lz4, Mdrm
  <2>4. UseOK(u)
    BY <1>0, <2>3, AllUsesOK
  <2>5. Lz4 \notin u.uses
    BY <1>0, <2>3, LooseUses
  <2>6. <<"usb", "wq">> \in u.uses
    BY <2>2, <2>3, <2>5 DEF MoreOK
  <2>7. c.entry[1] \in Part \ {"usb"} /\ c.entry[2] \in ToSet(held'[c.entry[1]])
    BY <2>1, <2>2, <2>4, <2>6 DEF UseOK, Resource, CallOK, Has
  <2>8. \A p \in Part : LeakInv(p)'
    BY <2>1 DEF Good, PartInv
  <2>9. phase'[c.entry[1]] # "absent"
    BY <2>7, <2>8, EmptyRange DEF LeakInv
  <2>10. "children" \in ToSet(held'["usb"])
    BY <2>7, <2>8, <2>9 DEF LeakInv
  <2> QED
    BY <1>0, <2>8, <2>10, EmptyRange DEF LeakInv
<1>4. ASSUME NEW p \in Part, PartStep(p) PROVE Has(Lz4)'
  <2>1. CASE Release(p)
    <3>1. phase' = phase /\ calls' = calls
      BY <2>1 DEF Release
    <3>2. PICK q \in Part, n \in Name :
              /\ <<q, n>> \in NextRelease(p) /\ ToSet(held'[q]) = ToSet(held[q]) \ {n}
              /\ \A x \in Part : x # q => held'[x] = held[x]
      BY <1>0, <2>1, ReleaseFacts, Zenon
    <3>3. phase[p] = "removing"
      BY <2>1 DEF Release
    <3>4. q = "usb" => n # "lz4"
      BY <1>0, <3>1, <3>2, <3>3, NextGoes DEF Solid
    <3>5. CASE q = "usb"
      BY <1>2, <3>1, <3>2, <3>4, <3>5
    <3>6. CASE q # "usb"
      BY <1>0, <1>2, <3>1, <3>2, <3>6
    <3> QED
      BY <3>5, <3>6
  <2>2. CASE Released(p)
    <3>1. /\ p # "usb" /\ calls' = calls /\ phase'["usb"] = phase["usb"]
          /\ held'["usb"] = held["usb"]
      BY <1>0, <1>3, <2>2 DEF Released
    <3> QED
      BY <1>2, <3>1
  <2>3. CASE Bind(p) \/ ProbeWarn(p) \/ ProbeDone(p) \/ ProbeFail(p)
    <3>1. calls' = calls /\ held' = held /\ phase["usb"] # "removing"
      BY <1>0, <2>3 DEF Bind, ProbeWarn, ProbeDone, ProbeFail
    <3> QED
      BY <1>1, <3>1 DEF Has, Lz4
  <2>4. CASE ProbeStep(p)
    <3>1. /\ calls' = calls /\ phase[p] = "probing"
          /\ held' = held \/ held' = [held EXCEPT ![p] = Append(@, Head(todo[p]).gets)]
      BY <2>4 DEF ProbeStep
    <3>2. phase["usb"] # "removing"
      <4>1. CASE Head(todo[p]).gets = "children"
        <5>1. p \in Known /\ todo[p] # <<>>
          BY <1>0, <2>4, GoodFacts DEF ProbeStep
        <5>2. p = "usb"
          BY <1>0, <3>1, <4>1, <5>1, ChildrenStep
        <5> QED
          BY <3>1, <5>2
      <4>2. CASE Head(todo[p]).gets # "children"
        BY <2>4, <4>2 DEF ProbeStep
      <4> QED
        BY <4>1, <4>2
    <3>3. ToSet(held["usb"]) \subseteq ToSet(held'["usb"])
      <4>1. CASE p = "usb" /\ held' # held
        <5>1. /\ held'["usb"] = Append(held["usb"], Head(todo[p]).gets)
              /\ held["usb"] \in Seq(Name)
          BY <1>0, <3>1, <4>1
        <5> QED
          BY <5>1, AppendKeeps
      <4>2. CASE ~(p = "usb" /\ held' # held)
        <5>1. held'["usb"] = held["usb"]
          BY <1>0, <3>1, <4>2
        <5> QED
          BY <5>1
      <4> QED
        BY <4>1, <4>2
    <3> QED
      BY <1>1, <3>1, <3>2, <3>3 DEF Has, Lz4
  <2> QED
    BY <1>4, <2>1, <2>2, <2>3, <2>4, Zenon DEF PartStep
<1>5. CASE Disconnect
  BY <1>0, <1>5 DEF Disconnect, StartRemove
<1>6. ASSUME NEW x \in Children, Unbind(x) \/ RemoveChild(x) \/ UnregisterChild(x)
      PROVE  Has(Lz4)'
  <2>1. x # "usb"
    BY DEF Children
  <2> QED
    BY <1>0, <1>2, <1>6, <2>1 DEF Unbind, RemoveChild, UnregisterChild, StartRemove
<1>7. ASSUME NEW u \in Uses, Call(u) PROVE Has(Lz4)'
  <2>0. phase' = phase /\ held' = held
    BY <1>7 DEF Call
  <2>1. CASE c \in calls
    BY <1>2, <2>0, <2>1
  <2>2. CASE c \notin calls
    <3> DEFINE more == {r \in {Lz4} : mpro_lz4_should_compress(u)}
                           \cup {r \in {Mdrm} : mpro_ts__get_rotation(u)}
    <3>1. c = [u EXCEPT !.uses = @ \cup more]
      BY <1>7, <2>2 DEF Call
    <3>2. UseOK(u) /\ Lz4 \notin u.uses
      BY <1>0, AllUsesOK, LooseUses
    <3>3. c.uses = u.uses \cup more
      BY <3>1, <3>2 DEF UseOK
    <3>4. mpro_lz4_should_compress(u)
      BY <3>2, <3>3 DEF Lz4, Mdrm
    <3> QED
      BY <2>0, <3>4 DEF mpro_lz4_should_compress, Has, Lz4
  <2> QED
    BY <2>1, <2>2
<1>8. ASSUME NEW d \in calls, Return(d) PROVE Has(Lz4)'
  BY <1>2, <1>8 DEF Return
<1>9. CASE lz4_level_store
  <2>1. /\ calls' = calls /\ phase' = phase
        /\ held' = held \/ held' = [held EXCEPT !["usb"] = Append(@, "lz4")]
    BY <1>9 DEF lz4_level_store, TakeLz4
  <2>2. CASE held' = held
    BY <1>2, <2>1, <2>2
  <2>3. CASE held' # held
    <3>1. held'["usb"] = Append(held["usb"], "lz4") /\ held["usb"] \in Seq(Name)
      BY <1>0, <2>1, <2>3
    <3>2. "lz4" \in ToSet(held'["usb"])
      BY <3>1, HasLast
    <3> QED
      BY <3>2 DEF Has, Lz4
  <2> QED
    BY <2>2, <2>3
<1>10. CASE UNCHANGED vars \/ Over
  BY <1>2, <1>10 DEF vars, Over
<1> QED
  BY <1>4, <1>5, <1>6, <1>7, <1>8, <1>9, <1>10, Zenon DEF Next

LEMMA WindowInit == Init => WindowInv
<1> SUFFICES ASSUME Init PROVE WindowInv
  OBVIOUS
<1>1. \A p \in Part : phase[p] \in {"absent", "unbound"}
  BY DEF Init
<1>2. "usb" \in Part /\ calls = {} /\ stray \in BOOLEAN
  BY DEF Init, Part
<1> QED
  BY <1>1, <1>2 DEF WindowInv, FirmInv, FilesInv, Lz4Inv

LEMMA StrayStep ==
    ASSUME stray \in BOOLEAN, [Next]_vars
    PROVE  stray' \in BOOLEAN
BY DEF Next, vars, PartStep, Bind, ProbeStep, ProbeWarn, ProbeFail, ProbeDone,
       Release, Released, Disconnect, Unbind, RemoveChild, StartRemove,
       UnregisterChild, Call, Return, lz4_level_store, TakeLz4, Over

LEMMA WindowStep ==
    ASSUME Inv, Inv', WindowInv, [Next]_vars
    PROVE  WindowInv'
<1>1. /\ stray \in BOOLEAN /\ \A p \in Part : FirmInv(p)
      /\ FilesInv /\ Lz4Inv
  BY DEF WindowInv
<1>2. \A p \in Part : FirmInv(p)'
  BY <1>1, FirmStep
<1> QED
  BY <1>1, <1>2, FilesStep, Lz4Step, StrayStep DEF WindowInv

-----------------------------------------------------------------------------
(* The theorems.                                                           *)

LEMMA InvStep == Inv /\ [Next]_vars => Inv'
BY GoodStep, CallsInvStep DEF Inv

LEMMA Invariance == Spec => [](Inv /\ WindowInv)
<1>1. Init => Inv /\ WindowInv
  BY InitInv, WindowInit
<1>2. Inv /\ WindowInv /\ [Next]_vars => (Inv /\ WindowInv)'
  BY InvStep, WindowStep
<1> QED
  BY <1>1, <1>2, PTL DEF Spec

LEMMA InvTypeOK == Inv /\ WindowInv => TypeOK
<1> SUFFICES ASSUME Inv, WindowInv PROVE TypeOK
  OBVIOUS
<1>0. Good /\ CallsInv /\ stray \in BOOLEAN
  BY DEF Inv, WindowInv
<1>1. ASSUME NEW p \in Part
      PROVE  /\ phase[p] \in {"absent", "unbound", "bound"} => todo[p] = <<>>
             /\ IsInjective(held[p]) /\ ToSet(held[p]) \subseteq Name
  <2>1. LeakInv(p) /\ held[p] \in Seq(Name)
    BY <1>0, GoodFacts
  <2>2. IsInjective(held[p])
    <3>1. CASE p \in Known
      BY <1>0, <3>1, GoodFacts, Zenon DEF OrderInv
    <3>2. CASE p \notin Known
      <4>1. held[p] = <<>>
        BY <1>0, <2>1, <3>2, GoodFacts DEF LeakInv
      <4> QED
        BY <4>1 DEF IsInjective
    <3> QED
      BY <3>1, <3>2
  <2>3. ToSet(held[p]) \subseteq Name
    BY <2>1 DEF ToSet
  <2> QED
    BY <2>1, <2>2, <2>3 DEF LeakInv
<1>2. ASSUME NEW c \in calls
      PROVE  c.entry \in {u.entry : u \in Uses} /\ c.uses \subseteq Part \X Name
  <2>1. PICK u \in Uses, more \in SUBSET {Lz4, Mdrm} :
            c.entry = u.entry /\ c.uses = u.uses \cup more
    BY <1>0 DEF CallsInv, CallOK
  <2>2. u.uses \subseteq Resource
    BY <1>0, GoodFacts, AllUsesOK DEF UseOK
  <2>3. Lz4 \in Resource /\ Mdrm \in Resource
    BY DEF Lz4, Mdrm, Resource, Part, Children, Name
  <2> QED
    BY <2>1, <2>2, <2>3 DEF Resource
<1>3. /\ setup \in Setups /\ phase \in [Part -> Phase] /\ phase["usb"] # "absent"
      /\ binds \in [Part -> 0 .. MaxBinds] /\ Cardinality(calls) \in 0 .. MaxCalls
  BY <1>0 DEF Good, Typed, CallsInv
<1> QED
  BY <1>0, <1>1, <1>2, <1>3, Zenon DEF TypeOK

LEMMA InvNothingLeaks == Inv => NothingLeaks
BY GoodFacts DEF Inv, LeakInv, NothingLeaks

LEMMA InvNoUseAfterRelease == Inv /\ WindowInv => NoUseAfterRelease
<1> SUFFICES ASSUME Inv, WindowInv, NEW c \in calls, NEW r \in c.uses \ Window(c)
             PROVE  Has(r)
  BY DEF NoUseAfterRelease
<1>0. Good /\ setup \in Setups /\ CallOK(c) /\ "usb" \in Part /\ "drm" \in Part
  BY DEF Inv, Good, Typed, CallsInv, Part, Children
<1>1. PICK u \in Uses, more \in SUBSET {Lz4, Mdrm} :
          c.entry = u.entry /\ c.uses = u.uses \cup more /\ MoreOK(u, more)
  BY <1>0 DEF CallOK
<1>2. UseOK(u)
  BY <1>0, AllUsesOK
<1> DEFINE p == u.entry[1]  n == u.entry[2]
<1>3. /\ p \in Part /\ n \in Name /\ n # "drvdata" /\ n \in ToSet(held[p])
      /\ u.entry = <<p, n>>
  BY <1>0, <1>1, <1>2 DEF CallOK, Has, UseOK, Resource
<1> HIDE DEF p, n
<1>4. p \in Known /\ LeakInv(p) /\ OrderInv(p) /\ "usb" \in Known /\ OrderInv("usb")
  BY <1>0, <1>3, GoodFacts, EmptyRange DEF LeakInv
<1>5. /\ p # "usb" => "children" \in ToSet(held["usb"])
      /\ phase[p] \notin {"absent", "unbound"}
  BY <1>3, <1>4, EmptyRange DEF LeakInv
<1>6. /\ phase["usb"] \in Phase /\ phase["drm"] \in Phase /\ FirmInv("usb")
      /\ FirmInv("drm") /\ FilesInv /\ Lz4Inv
  BY <1>0 DEF Good, Typed, WindowInv
<1>7. CASE r \in u.uses \ TooEarly
  <2>1. /\ r = <<r[1], r[2]>> /\ r[2] \in Solid(r[1])
        /\ IF r[1] = p THEN Before(r[1], r[2], n)
           ELSE r[1] = "usb" /\ Before("usb", r[2], "children")
    BY <1>2, <1>7 DEF UseOK, p, n
  <2>2. CASE r[1] = p
    BY <1>3, <1>4, <2>1, <2>2 DEF OrderInv, Has
  <2>3. CASE r[1] # p
    BY <1>4, <1>5, <2>1, <2>3 DEF OrderInv, Has
  <2> QED
    BY <2>2, <2>3
<1>8. CASE r \in u.uses /\ r = <<"drm", "conv_state">>
  <2>1. setup.driver = "mpro" /\ p = "drm" /\ n = "card"
    BY <1>0, <1>3, <1>8, LooseUses
  <2>2. phase["drm"] \in {"probing", "bound"}
    BY <1>5, <1>6, <1>8, <2>1 DEF Window, Phase
  <2>3. ProbeOf("drm") = mpro_drm__probe
    BY <2>1 DEF ProbeOf
  <2>4. /\ DOMAIN ProbeOf("drm") = 1..13 /\ G("drm", 8) = "conv_state"
        /\ \A a \in 1..13 : G("drm", a) = "card" => a = 9
    BY <2>3 DEF G, mpro_drm__probe, Step, Set, Must, MustOr, Try, Check, Parent
  <2>5. "conv_state" \in Firm("drm")
    BY DEF Firm
  <2>6. CASE phase["drm"] = "bound"
    BY <1>6, <1>8, <2>4, <2>5, <2>6 DEF FirmInv, Has
  <2>7. CASE phase["drm"] = "probing"
    <3>1. ProbingInv("drm") /\ Sound("drm")
      BY <1>0, <1>4, <2>1, GoodFacts
    <3>2. /\ Steps("drm") \in Nat /\ Taken("drm", Steps("drm"), "card")
          /\ todo["drm"] \in Seq(StepType)
      BY <1>3, <2>1, <2>7, <3>1, Zenon DEF ProbingInv
    <3>3. PICK a \in 1..Steps("drm") : "card" = G("drm", a)
      BY <3>2 DEF Taken, Stored
    <3>4. Steps("drm") <= 13
      <4>1. Len(ProbeOf("drm")) = 13
        BY <2>3 DEF mpro_drm__probe
      <4>2. Len(todo["drm"]) \in Nat
        BY <3>2
      <4>3. \A m \in Nat : 13 - m <= 13
        OBVIOUS
      <4>4. 13 - Len(todo["drm"]) <= 13
        BY <4>2, <4>3
      <4> QED
        BY <4>1, <4>4, Zenon DEF Steps
    <3>5. a = 9
      BY <2>4, <3>2, <3>3, <3>4
    <3>6. 8 \in 1..Steps("drm")
      BY <3>2, <3>3, <3>5
    <3> QED
      BY <1>6, <1>8, <2>4, <2>5, <2>7, <3>6 DEF FirmInv, Has
  <2> QED
    BY <2>2, <2>6, <2>7
<1>9. CASE r \in u.uses /\ r = <<"usb", "drvdata">>
  <2>1. setup.driver \in {"mpro", "beada"} /\ p = "usb" /\ n = "sysfs"
    BY <1>0, <1>3, <1>9, LooseUses
  <2>2. \/ phase["usb"] = "bound"
        \/ phase["usb"] = "removing" /\ setup.driver = "beada"
    BY <1>5, <1>6, <1>9, <2>1 DEF Window, Phase
  <2>3. CASE phase["usb"] = "bound"
    <3>1. \E a \in DOMAIN ProbeOf("usb") : G("usb", a) = "drvdata"
      <4>1. CASE setup.driver = "mpro"
        <5>1. ProbeOf("usb") = mpro_usb_probe
          BY <4>1 DEF ProbeOf
        <5>2. DOMAIN ProbeOf("usb") = 1..10 /\ G("usb", 8) = "drvdata"
          BY <5>1 DEF G, mpro_usb_probe, mpro_setup_lz4, Step, Set, Must, MustOr, Try,
             Check, Parent
        <5> QED
          BY <5>2
      <4>2. CASE setup.driver = "beada"
        <5>1. DOMAIN ProbeOf("usb") = 1..11 /\ G("usb", 9) = "drvdata"
          BY <4>2, BeadaFiles
        <5> QED
          BY <5>1
      <4> QED
        BY <2>1, <4>1, <4>2
    <3>2. "drvdata" \in Firm("usb")
      BY DEF Firm
    <3> QED
      BY <1>6, <1>9, <2>3, <3>1, <3>2 DEF FirmInv, Has
  <2>4. CASE phase["usb"] = "removing" /\ setup.driver = "beada"
    BY <1>3, <1>6, <1>9, <2>1, <2>4 DEF FilesInv, Has
  <2> QED
    BY <2>2, <2>3, <2>4
<1>10. CASE r = Lz4
  <2>1. Lz4 \in more /\ setup.lz4 # "none" /\ <<"usb", "wq">> \in u.uses
    BY <1>0, <1>1, <1>10, LooseUses DEF MoreOK
  <2>2. CASE setup.lz4 = "store"
    BY <1>1, <1>6, <1>10, <2>1, <2>2 DEF Window, Lz4Inv
  <2>3. CASE setup.lz4 # "store"
    <3>1. setup.lz4 = "boot" /\ setup.driver = "mpro"
      BY <1>0, <2>1, <2>3, SetupAssumption
    <3>2. p # "usb"
      BY <1>2, <2>1 DEF UseOK, p
    <3>3. Before("usb", "lz4", "children") /\ "lz4" \in Solid("usb")
      BY <3>1, Order_mpro_usb_probe DEF Solid
    <3> QED
      BY <1>4, <1>5, <1>10, <3>2, <3>3 DEF OrderInv, Has, Lz4
  <2> QED
    BY <2>2, <2>3
<1>11. CASE r \in more /\ r = Mdrm
  <2>1. u.entry = <<"ts", "touch_listener">>
    BY <1>1, <1>11 DEF MoreOK
  <2>2. setup.driver = "mpro" /\ phase["drm"] = "bound"
    BY <1>0, <1>1, <1>11, <2>1, LooseUses DEF Window
  <2>3. ProbeOf("drm") = mpro_drm__probe
    BY <2>2 DEF ProbeOf
  <2>4. DOMAIN ProbeOf("drm") = 1..13 /\ G("drm", 2) = "mem"
    BY <2>3 DEF G, mpro_drm__probe, Step, Set, Must, MustOr, Try, Check, Parent
  <2>5. "mem" \in Firm("drm") /\ 2 \in 1..13
    BY DEF Firm
  <2> QED
    BY <1>6, <1>11, <2>2, <2>4, <2>5 DEF FirmInv, Has, Mdrm
<1> QED
  BY <1>1, <1>7, <1>8, <1>9, <1>10, <1>11 DEF TooEarly

(* Every part holds each resource at most once, and calls come through     *)
(* entry points that the driver has.                                       *)
THEOREM LifecycleTypeTheorem == Spec => []TypeOK
BY Invariance, InvTypeOK, PTL

(* A part whose probe failed at whichever step, and one that was removed,  *)
(* holds nothing, however often it is probed.                              *)
THEOREM NothingLeaksTheorem == Spec => []NothingLeaks
BY Invariance, InvNothingLeaks, PTL

(* No call through a sysfs file, a class device, the card or a listener    *)
(* reaches what is not yet there or already gone, but in the four windows  *)
(* that Window names: mpro's conversion state while its DRM child goes,    *)
(* memory of the compressor that a store took while mpro goes, the driver  *)
(* data behind the files of mpro (coming or going) and beadapanel (coming) *)
(* and the card that a touch follows a pointer to while it is not bound.   *)
THEOREM NoUseAfterReleaseTheorem == Spec => []NoUseAfterRelease
BY Invariance, InvNoUseAfterRelease, PTL
=============================================================================
