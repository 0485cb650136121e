------------------------------ MODULE Lifecycle ------------------------------
(***************************************************************************)
(* Probe, failed probe, disconnect and removal of the three panel drivers  *)
(* (mpro, beadapanel, ax206): which resources each part holds, the order   *)
(* in which they are taken and given back, and what the entry points that  *)
(* are published on the way (sysfs files, class devices, the DRM card,     *)
(* listeners and resume handlers) touch when somebody calls them.          *)
(*                                                                         *)
(* A part is the USB driver ("usb") or one of its MFD children.  Its probe *)
(* function is a sequence of steps, each of which takes a resource and may *)
(* fail; its remove function is a sequence of resources given back.  What  *)
(* the code leaves to devres (devm_ and drmm_ resources, Managed) the      *)
(* driver core gives back afterwards, the newest first.  Works and timers  *)
(* and their cancelling are in MproPm, MproTouch, BeadaPanel and Ax206.    *)
(***************************************************************************)
EXTENDS Naturals, FiniteSets, SequencesExt

CONSTANTS
    Setups,     \* [driver, loaded, alone, lz4] records
    MaxBinds,   \* bound: how often each part is probed
    MaxCalls    \* bound: calls in progress at the same time

ASSUME SetupAssumption ==
    \A s \in Setups :
        /\ s.driver \in {"mpro", "beada", "ax206"}
        /\ s.loaded \subseteq {"drm", "ts", "bl"}
        /\ "ts" \in s.loaded => s.driver = "mpro"
        /\ s.lz4 \in {"none", "boot", "store"}
        /\ s.lz4 # "none" => s.driver = "mpro"
ASSUME BoundAssumption == MaxBinds \in Nat /\ MaxCalls \in Nat

VARIABLES
    setup,      \* the driver, the child drivers that are loaded, whether a
                \* child may be unbound on its own, and mpro's LZ4: "none",
                \* "boot" (module parameter) or "store" (sysfs only)
    phase,      \* phase[p]: where part p is between absent and bound
    todo,       \* todo[p]: what is left of the function part p is in
    held,       \* held[p]: the resources of p, the oldest first
    binds,      \* binds[p]: the probes so far
    calls,      \* the calls in progress, each with the resources it uses
    stray       \* compressor's memory of a store that came after devres had
                \* begun to give back, and that stays on the device's list

vars == <<setup, phase, todo, held, binds, calls, stray>>

Children == {"drm", "ts", "bl"}
Part == {"usb"} \cup Children
Phase == {"absent", "unbound", "probing", "bound", "removing"}

(* What a part may hold.                                                   *)
Name ==
    {"mem", "dma_dev", "wq", "lz4", "touch", "bufs", "frame_buf", "children",
     "drvdata", "kms", "data", "kms_objects", "vblank", "conv_state", "card",
     "modeset", "published", "input_dev", "input", "class", "sysfs",
     "listener", "touch_listener"}

Has(r) == r[2] \in ToSet(held[r[1]])
Of(p, names) == [i \in DOMAIN names |-> <<p, names[i]>>]

-----------------------------------------------------------------------------
(* The steps of a probe function.                                          *)

Step(gets, fails, undo) == [gets |-> gets, fails |-> fails, undo |-> undo]
Set(r) == Step(r, "never", <<>>)
Must(r) == Step(r, "abort", <<>>)
MustOr(r, undo) == Step(r, "abort", undo)
Try(r) == Step(r, "warn", <<>>)
Check == Must("none")
Parent == Step("none", "orphan", <<>>)

mpro_setup_lz4 == IF setup.lz4 = "boot" THEN Must("lz4") ELSE Set("none")

mpro_usb_probe ==
    <<Must("mem"), Must("dma_dev"), Check, mpro_setup_lz4,
      Must("wq"), Must("touch"), Must("sysfs"), Set("drvdata"),
      Set("children"), MustOr("none", <<"children", "drvdata">>)>>

(* Only a DRM child that has finished its probe is unplugged early, by a   *)
(* pointer read here: Release passes over a card that its own part has     *)
(* unplugged since, and UnpluggedTooLate is about the memory it was in.    *)
mpro_usb_disconnect ==
    IF Has(<<"drm", "published">>)
    THEN <<<<"drm", "card">>, <<"drm", "published">>, <<"usb", "drvdata">>>>
    ELSE <<<<"usb", "drvdata">>>>

mpro_drm__probeKeepsConv ==
    <<Parent, Must("mem"), Set("drvdata"), Must("kms"), Must("data"),
      Must("kms_objects"), Try("vblank"), Set("conv_state"), Must("card"),
      Set("modeset"), Set("listener"), Try("sysfs"), Set("published")>>

mpro_drm__probe ==
    <<Parent, Must("mem"), Set("drvdata"), Must("kms"), Must("data"),
      Must("kms_objects"), Try("vblank"), Set("conv_state"),
      MustOr("card", <<"conv_state">>), Set("modeset"), Set("listener"),
      Try("sysfs"), Set("published")>>

mpro_drm__remove ==
    Of("drm", <<"sysfs", "listener", "published", "conv_state", "card",
                "modeset">>)

mpro_ts__probe ==
    <<Parent, Must("mem"), Must("input_dev"), Must("input"), Set("listener"),
      Set("touch_listener"), Set("drvdata")>>

mpro_ts__remove == Of("ts", <<"touch_listener", "listener">>)

mpro_bl__probe ==
    <<Parent, Must("mem"), Must("class"), Set("drvdata"), Set("listener"),
      MustOr("sysfs", <<"listener">>)>>

mpro_bl__remove == Of("bl", <<"sysfs", "listener">>)

beada_probe ==
    <<Check, Must("mem"), Check, Must("bufs"), Must("frame_buf"), Check,
      Must("wq"), Try("sysfs"), Set("drvdata"), Set("children"),
      MustOr("none", <<"children">>)>>

(* beada_disconnect only raises a flag and waits for the two works.        *)
beada_disconnect == <<>>

beada_drm_probe ==
    <<Parent, Must("mem"), Set("drvdata"), Must("data"), Must("kms"),
      Must("kms_objects"), Set("listener"), MustOr("card", <<"listener">>),
      Set("modeset"), Try("sysfs")>>

beada_drm_remove == Of("drm", <<"listener", "sysfs", "card", "modeset">>)

beada_backlight_probe ==
    <<Parent, Check, Must("mem"), Must("class"), Set("drvdata"),
      Set("listener"), MustOr("sysfs", <<"listener">>)>>

beada_backlight_remove == Of("bl", <<"listener", "sysfs">>)

ax206_probe ==
    <<Must("mem"), Set("drvdata"), Check, Must("wq"), Set("children"),
      MustOr("none", <<"children", "wq">>)>>

ax206_disconnectEarly == Of("usb", <<"wq", "children", "drvdata">>)
ax206_disconnect == Of("usb", <<"children", "wq", "drvdata">>)

ax206_drm_probe ==
    <<Must("mem"), Must("data"), Must("kms"), Must("kms_objects"),
      Set("drvdata"), Must("sysfs"), MustOr("card", <<"sysfs">>),
      Set("modeset")>>

ax206_drm_remove == Of("drm", <<"sysfs", "card", "modeset">>)

ax206_bl_probe == <<Must("class"), Set("drvdata")>>

ProbeOf(p) ==
    CASE setup.driver = "mpro" ->
             [usb |-> mpro_usb_probe, drm |-> mpro_drm__probe,
              ts |-> mpro_ts__probe, bl |-> mpro_bl__probe][p]
      [] setup.driver = "beada" ->
             [usb |-> beada_probe, drm |-> beada_drm_probe,
              bl |-> beada_backlight_probe][p]
      [] setup.driver = "ax206" ->
             [usb |-> ax206_probe, drm |-> ax206_drm_probe,
              bl |-> ax206_bl_probe][p]

RemoveOf(p) ==
    CASE setup.driver = "mpro" ->
             [usb |-> mpro_usb_disconnect, drm |-> mpro_drm__remove,
              ts |-> mpro_ts__remove, bl |-> mpro_bl__remove][p]
      [] setup.driver = "beada" ->
             [usb |-> beada_disconnect, drm |-> beada_drm_remove,
              bl |-> beada_backlight_remove][p]
      [] setup.driver = "ax206" ->
             [usb |-> ax206_disconnect, drm |-> ax206_drm_remove,
              bl |-> <<>>][p]

(* What devres gives back; the driver core clears drvdata at the very end. *)
Managed(p) ==
    CASE p = "usb" /\ setup.driver = "ax206" -> {"mem"}
      [] p = "usb" -> {"mem", "dma_dev", "lz4", "wq", "touch", "bufs",
                       "frame_buf", "sysfs", "children"}
      [] p = "drm" -> {"mem", "data", "kms", "kms_objects", "vblank"}
      [] p = "ts"  -> {"mem", "input_dev", "input"}
      [] p = "bl"  -> {"mem", "class"}

-----------------------------------------------------------------------------
(* The entry points, and what a call through one of them touches.          *)

Use(entry, uses) == [entry |-> entry, uses |-> uses]
Its(p, names) == {p} \X names
Sender == Its("usb", {"mem", "wq"})

mproUses ==
    {Use(<<"usb", "sysfs">>, Its("usb", {"mem", "drvdata"})),
     Use(<<"drm", "card">>,
         Its("drm", {"mem", "data", "conv_state"}) \cup Sender),
     Use(<<"drm", "modeset">>, Its("drm", {"mem", "data"}) \cup Sender),
     Use(<<"drm", "listener">>, Its("drm", {"mem", "data"}) \cup Sender),
     Use(<<"drm", "sysfs">>,
         Its("drm", {"mem", "drvdata", "data"}) \cup Sender),
     Use(<<"ts", "input">>,
         Its("ts", {"mem"}) \cup Its("usb", {"mem", "touch"})),
     Use(<<"ts", "listener">>,
         Its("ts", {"mem", "input_dev"}) \cup Its("usb", {"mem", "touch"})),
     Use(<<"ts", "touch_listener">>, Its("ts", {"mem", "input"})),
     Use(<<"bl", "class">>, Its("bl", {"mem"}) \cup Its("usb", {"mem"})),
     Use(<<"bl", "listener">>, Its("bl", {"mem"}) \cup Its("usb", {"mem"})),
     Use(<<"bl", "sysfs">>,
         Its("bl", {"mem", "drvdata"}) \cup Its("usb", {"mem"}))}

FrameSender ==
    Its("drm", {"mem", "data"}) \cup Its("usb", {"mem", "wq", "frame_buf"})

beadaUses ==
    {Use(<<"usb", "sysfs">>, Its("usb", {"mem", "bufs", "drvdata"})),
     Use(<<"drm", "card">>, FrameSender),
     Use(<<"drm", "modeset">>, FrameSender),
     Use(<<"drm", "listener">>, FrameSender),
     Use(<<"drm", "sysfs">>, Its("drm", {"mem", "drvdata", "kms_objects"})),
     Use(<<"bl", "class">>,
         Its("bl", {"mem"}) \cup Its("usb", {"mem", "bufs"})),
     Use(<<"bl", "listener">>,
         Its("bl", {"mem"}) \cup Its("usb", {"mem", "bufs"})),
     Use(<<"bl", "sysfs">>,
         Its("bl", {"mem", "class"}) \cup Its("usb", {"mem", "bufs"}))}

ax206Uses ==
    {Use(<<"drm", "card">>, Its("drm", {"mem", "data"}) \cup Sender),
     Use(<<"drm", "modeset">>, Its("drm", {"mem", "data"}) \cup Sender),
     Use(<<"drm", "sysfs">>, Its("drm", {"mem", "drvdata"}) \cup Sender),
     Use(<<"bl", "class">>, Sender)}

Uses ==
    CASE setup.driver = "mpro" -> mproUses
      [] setup.driver = "beada" -> beadaUses
      [] setup.driver = "ax206" -> ax206Uses

Calling(e) == \E c \in calls : c.entry = e

-----------------------------------------------------------------------------
TypeOK ==
    /\ setup \in Setups
    /\ phase \in [Part -> Phase] /\ phase["usb"] # "absent"
    /\ \A p \in Part :
          /\ phase[p] \in {"absent", "unbound", "bound"} => todo[p] = <<>>
          /\ IsInjective(held[p]) /\ ToSet(held[p]) \subseteq Name
    /\ binds \in [Part -> 0 .. MaxBinds]
    /\ Cardinality(calls) \in 0 .. MaxCalls
    /\ \A c \in calls : /\ c.entry \in {u.entry : u \in Uses}
                        /\ c.uses \subseteq Part \X Name
    /\ stray \in BOOLEAN

Init ==
    /\ setup \in Setups
    /\ phase = [p \in Part |-> IF p = "usb" THEN "unbound" ELSE "absent"]
    /\ todo = [p \in Part |-> <<>>]
    /\ held = [p \in Part |-> <<>>]
    /\ binds = [p \in Part |-> 0]
    /\ calls = {} /\ stray = FALSE

-----------------------------------------------------------------------------
(* The driver core matches a device with its driver, but for one that has  *)
(* managed resources before its probe.                                     *)
Bind(p) ==
    /\ phase[p] = "unbound" /\ binds[p] < MaxBinds
    /\ IF p = "usb" THEN ~stray ELSE p \in setup.loaded
    /\ phase' = [phase EXCEPT ![p] = "probing"]
    /\ todo' = [todo EXCEPT ![p] = ProbeOf(p)]
    /\ binds' = [binds EXCEPT ![p] = @ + 1]
    /\ UNCHANGED <<setup, held, calls, stray>>

(* A child that finds no data in its parent gives up.                      *)
Orphan(s) == s.fails = "orphan" /\ ~Has(<<"usb", "drvdata">>)

ProbeStep(p) ==
    /\ phase[p] = "probing" /\ todo[p] # <<>>
    /\ LET s == Head(todo[p])
       IN /\ ~Orphan(s)
          /\ held' = IF s.gets = "none" THEN held
                     ELSE [held EXCEPT ![p] = Append(@, s.gets)]
          /\ phase' = IF s.gets = "children"
                      THEN [q \in Part |->
                                IF q = p THEN phase[p] ELSE "unbound"]
                      ELSE phase
    /\ todo' = [todo EXCEPT ![p] = Tail(@)]
    /\ UNCHANGED <<setup, binds, calls, stray>>

(* A step that may fail goes on with a warning ...                         *)
ProbeWarn(p) ==
    /\ phase[p] = "probing" /\ todo[p] # <<>>
    /\ Head(todo[p]).fails = "warn"
    /\ todo' = [todo EXCEPT ![p] = Tail(@)]
    /\ UNCHANGED <<setup, phase, held, binds, calls, stray>>

(* ... or ends the probe: the function gives back what it must itself.     *)
ProbeFail(p) ==
    /\ phase[p] = "probing" /\ todo[p] # <<>>
    /\ Head(todo[p]).fails = "abort" \/ Orphan(Head(todo[p]))
    /\ phase' = [phase EXCEPT ![p] = "removing"]
    /\ todo' = [todo EXCEPT ![p] = Of(p, Head(todo[p]).undo)]
    /\ UNCHANGED <<setup, held, binds, calls, stray>>

ProbeDone(p) ==
    /\ phase[p] = "probing" /\ todo[p] = <<>>
    /\ phase' = [phase EXCEPT ![p] = "bound"]
    /\ UNCHANGED <<setup, todo, held, binds, calls, stray>>

-----------------------------------------------------------------------------
StartRemove(p) ==
    /\ phase[p] = "bound"
    /\ phase' = [phase EXCEPT ![p] = "removing"]
    /\ todo' = [todo EXCEPT ![p] = RemoveOf(p)]
    /\ UNCHANGED <<setup, held, binds, calls, stray>>

(* The panel is pulled out, or the USB driver unloaded.                    *)
Disconnect == StartRemove("usb")

(* A child driver is unloaded or unbound through sysfs.                    *)
Unbind(c) == setup.alone /\ StartRemove(c)

(* The next resource part p gives back: of its own code, then of devres.   *)
Kept(p) == {i \in DOMAIN held[p] : held[p][i] \in Managed(p)}
NextRelease(p) ==
    IF todo[p] # <<>> THEN {Head(todo[p])}
    ELSE {<<p, held[p][i]>> : i \in {i \in Kept(p) : \A j \in Kept(p) : j <= i}}

RemovingChildren ==
    phase["usb"] = "removing" /\ <<"usb", "children">> \in NextRelease("usb")

(* Unregistering an entry point waits for the calls through it, and the    *)
(* children for theirs; a resource that was never taken is passed over.    *)
Release(p) ==
    /\ phase[p] = "removing"
    /\ \E r \in NextRelease(p) :
          /\ ~Calling(r)
          /\ r[2] = "children" => \A c \in Children : phase[c] = "absent"
          /\ held' = [held EXCEPT ![r[1]] = RemoveFirst(@, r[2])]
    /\ todo' = [todo EXCEPT ![p] = IF @ = <<>> THEN @ ELSE Tail(@)]
    /\ UNCHANGED <<setup, phase, binds, calls, stray>>

(* mfd_remove_devices: a bound child is removed, then its device is.       *)
RemoveChild(c) == RemovingChildren /\ StartRemove(c)

UnregisterChild(c) ==
    /\ RemovingChildren
    /\ phase[c] = "unbound"
    /\ phase' = [phase EXCEPT ![c] = "absent"]
    /\ UNCHANGED <<setup, todo, held, binds, calls, stray>>

Released(p) ==
    /\ phase[p] = "removing" /\ todo[p] = <<>> /\ Kept(p) = {}
    /\ phase' = [phase EXCEPT ![p] = "unbound"]
    /\ held' = [held EXCEPT ![p] = RemoveFirst(@, "drvdata")]
    /\ UNCHANGED <<setup, todo, binds, calls, stray>>

-----------------------------------------------------------------------------
Lz4 == <<"usb", "lz4">>
Mdrm == <<"drm", "mem">>

(* Whether a frame is compressed is decided when the call begins.          *)
mpro_lz4_should_compress(u) == <<"usb", "wq">> \in u.uses /\ Has(Lz4)

(* A touch is turned like the picture, if there is a card when it begins.  *)
mpro_ts__get_rotation(u) ==
    u.entry = <<"ts", "touch_listener">> /\ Has(<<"drm", "published">>)

Call(u) ==
    /\ Has(u.entry) /\ ~Calling(u.entry) /\ Cardinality(calls) < MaxCalls
    /\ u.entry[2] = "modeset" => Has(<<u.entry[1], "card">>)
    /\ LET more == {r \in {Lz4} : mpro_lz4_should_compress(u)}
                     \cup {r \in {Mdrm} : mpro_ts__get_rotation(u)}
       IN calls' = calls \cup {[u EXCEPT !.uses = @ \cup more]}
    /\ UNCHANGED <<setup, phase, todo, held, binds, stray>>

Return(c) ==
    /\ calls' = calls \ {c}
    /\ UNCHANGED <<setup, phase, todo, held, binds, stray>>

(* The first lz4_level written to sysfs takes the memory, as a managed     *)
(* resource that is newer than the children.  Once the driver core has set *)
(* out to give back what the device's list holds, a new entry stays on it. *)
DevresRuns == phase["usb"] = "removing" /\ todo["usb"] = <<>>

TakeLz4 ==
    /\ Calling(<<"usb", "sysfs">>) /\ setup.lz4 = "store"
    /\ IF DevresRuns THEN stray' = TRUE /\ held' = held
       ELSE held' = [held EXCEPT !["usb"] = Append(@, "lz4")] /\ stray' = stray
    /\ UNCHANGED <<setup, phase, todo, binds, calls>>

lz4_level_storeAgain == TakeLz4
lz4_level_store == ~Has(Lz4) /\ ~stray /\ TakeLz4

-----------------------------------------------------------------------------
PartStep(p) ==
    Bind(p) \/ ProbeStep(p) \/ ProbeWarn(p) \/ ProbeFail(p) \/ ProbeDone(p)
    \/ Release(p) \/ Released(p)

Over ==
    /\ phase["usb"] = "unbound" /\ calls = {}
    /\ binds["usb"] = MaxBinds \/ stray
    /\ UNCHANGED vars

Next ==
    \/ \E p \in Part : PartStep(p)
    \/ Disconnect
    \/ \E c \in Children : Unbind(c) \/ RemoveChild(c) \/ UnregisterChild(c)
    \/ \E u \in Uses : Call(u)
    \/ \E c \in calls : Return(c)
    \/ lz4_level_store
    \/ Over

Spec == Init /\ [][Next]_vars

-----------------------------------------------------------------------------
(* A call through a published entry point only touches what is there: no   *)
(* interleaving of a probe, its failure half way, a disconnect and the     *)
(* removal of the children with a user who opened a sysfs file, flips a    *)
(* page or is about to be notified lets it reach memory, a workqueue or a  *)
(* buffer that is not yet there or already gone.  Left out are the four    *)
(* windows that the code leaves open, each only while it is: mpro's DRM    *)
(* child gives its conversion state back before it unplugs the card, the   *)
(* compressor's memory goes before the children when a store took it, the  *)
(* files of mpro and beadapanel are there before the driver data and       *)
(* mpro's also after it, and a touch follows a pointer to the card.        *)
Window(c) ==
    {r \in c.uses :
        \/ r = <<"drm", "conv_state">> /\ phase["drm"] = "removing"
        \/ r = Lz4 /\ setup.lz4 = "store" /\ phase["usb"] = "removing"
        \/ /\ r = <<"usb", "drvdata">>
           /\ \/ phase["usb"] = "probing"
              \/ phase["usb"] = "removing" /\ setup.driver = "mpro"
        \/ /\ r = Mdrm /\ c.entry = <<"ts", "touch_listener">>
           /\ phase["drm"] # "bound"}
NoUseAfterRelease == \A c \in calls : \A r \in c.uses \ Window(c) : Has(r)

(* A part whose probe failed, at whichever step, and one that was removed  *)
(* hold nothing: no listener stays on a parent's list, no entry point      *)
(* stays published, no workqueue is left behind.  What a store takes while *)
(* devres already gives back is in stray, and not counted.                 *)
NothingLeaks ==
    \A p \in Part : phase[p] \in {"absent", "unbound"} => held[p] = <<>>

-----------------------------------------------------------------------------
(* What the comments say of the removal, and the code does not keep.       *)

(* mpro_drm__remove unplugs the card first, which blocks new operations,   *)
(* so that no commit converts with a state that was given back.            *)
ConvOutlivesCommits ==
    \A c \in calls : <<"drm", "conv_state">> \in c.uses =>
                          Has(<<"drm", "conv_state">>)

(* devres gives the compressor's memory back after the children, so that   *)
(* no frame is compressed with memory that is gone.                        *)
Lz4OutlivesFrames == \A c \in calls : Lz4 \in c.uses => Has(Lz4)

(* devres gives back all of mpro's resources, the compressor's memory too. *)
DevresFreesLz4 == phase["usb"] = "unbound" => ~stray

(* mpro_usb_disconnect unplugs the card before the children are torn down: *)
(* the card that it unplugs is there.                                      *)
UnpluggedTooLate ==
    /\ setup.driver = "mpro" /\ phase["usb"] = "removing"
    /\ Len(todo["usb"]) = 3 /\ ~Has(Mdrm)
UnplugFindsCard == ~UnpluggedTooLate
=============================================================================
