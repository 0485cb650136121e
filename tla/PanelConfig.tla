---------------------------- MODULE PanelConfig ----------------------------
(***************************************************************************)
(* What the panel drivers compute from the panel they found: its model and *)
(* geometry, the DRM mode and EDID they advertise for an orientation, where *)
(* the pixels of a frame land on the panel, and the level the backlight    *)
(* gets for a brightness and a gamma.                                      *)
(*                                                                         *)
(* The orientation changes at run time, written by one or two processes.   *)
(* beadapanel: all of it, while a compositor draws (beada-drm-kms.c).      *)
(* mpro: model, mode, EDID and backlight (MproFrames has its frames).      *)
(* ax206: where the pixels go, while a compositor draws in the mode of the *)
(* probe (Ax206 has the transfer).                                         *)
(*                                                                         *)
(* A framebuffer pixel is identified by its coordinates; colours, names    *)
(* and gamma tables for colours are left out.                              *)
(***************************************************************************)
EXTENDS Integers, Sequences, FiniteSets, SequencesExt

CONSTANTS
    Setups,      \* the systems to look at, see SetupType
    Texts,       \* what is written to the gamma attribute, see GammaText
    Levels,      \* brightness levels that are asked for
    MaxStores    \* bound: writes to rotation that are not refused

Turn == [angle : 0..3, rx : BOOLEAN]
GammaText == [whole : Nat, dot : BOOLEAN, frac : Seq(0..9)]
Upright == [angle |-> 0, rx |-> FALSE]

(* The driver; what the device answers at probe; who writes rotation and   *)
(* to which values (ax206: the module parameter too); whether a compositor *)
(* draws; the greatest level of the backlight (0: it is left alone).       *)
Device == [outs : Nat, answers : 0..1, code : Nat, version : Nat, w : Nat, h : Nat]
SetupType ==
    [drv : {"beada", "mpro", "ax206"}, device : Device,
     writers : SUBSET {"a", "b"}, turns : SUBSET Turn, client : BOOLEAN, max : 0..255]

ASSUME MaxStoresAssumption == MaxStores \in Nat
ASSUME TextsAssumption == Texts \subseteq GammaText
ASSUME LevelsAssumption == Levels \subseteq Nat

VARIABLES
    setup,      \* the system: a member of Setups, never changed
    panel,      \* beada->panel, mpro->model, the size of dpf
    rotation,   \* bdev->rotation, mdrm->native_rotation, d->rotation
    size,       \* bdev->width and height, mdrm->width and height, d->lwidth and lheight
    stores,     \* writes to rotation that were not refused
    wpc,        \* where each writer is in apply_rotation
    built,      \* on each writer's stack: the orientation and size in its EDID block,
                \* or those it has yet to store
    edid,       \* those in the block that is attached to the connector
    hotplug,    \* a hotplug event that the compositor has not seen yet
    fb,         \* size of the compositor's framebuffer
    cpc,        \* where the compositor's commit is
    rot,        \* the orientation the blit was called with
    shadow,     \* bdev->shadow_buf: panel pixel -> framebuffer pixel
    lit,        \* mb->screen_on of mpro
    gamma,      \* mb->gamma_x100
    resend,     \* gamma_store has written gamma and not yet sent the level
    asked,      \* ghost: the gamma that was last accepted, as a reader of the text has it
    level,      \* mb->stored_value
    hw          \* the level the device was last sent

modeVars == <<panel, rotation, size, stores, wpc, built, edid, hotplug>>
frameVars == <<fb, cpc, rot, shadow>>
lightVars == <<lit, gamma, resend, asked, level, hw>>
vars == <<setup, panel, rotation, size, stores, wpc, built, edid, hotplug,
          fb, cpc, rot, shadow, lit, gamma, resend, asked, level, hw>>

------------------------------------------------------------------------------
(* Models.                                                                 *)

Model(w, h, wm, hm, margin) ==
    [w |-> w, h |-> h, wm |-> wm, hm |-> hm, margin |-> margin]
NoModel == Model(0, 0, 0, 0, 0)

(* beada_model_table: code, geometry.                                      *)
beada_model_table ==
    << <<0, Model(800, 480, 188, 118, 0)>>,   <<1, Model(800, 480, 121, 76, 0)>>,
       <<2, Model(480, 1280, 67, 181, 0)>>,   <<3, Model(320, 480, 70, 99, 0)>>,
       <<4, Model(480, 800, 78, 116, 0)>>,    <<10, Model(800, 480, 121, 76, 0)>>,
       <<11, Model(800, 480, 108, 65, 0)>>,   <<12, Model(800, 480, 110, 62, 0)>>,
       <<13, Model(480, 320, 62, 40, 0)>>,    <<14, Model(800, 480, 94, 56, 0)>>,
       <<15, Model(1280, 480, 161, 60, 0)>>,  <<16, Model(1280, 480, 161, 60, 0)>>,
       <<17, Model(480, 480, 73, 73, 0)>>,    <<18, Model(480, 480, 90, 90, 0)>>,
       <<19, Model(1280, 480, 190, 59, 0)>>,  <<20, Model(480, 854, 77, 140, 0)>>,
       <<21, Model(480, 1920, 69, 235, 0)>>,  <<22, Model(440, 1920, 58, 253, 0)>>,
       <<23, Model(462, 1920, 55, 226, 0)>>,  <<24, Model(480, 1920, 54, 219, 0)>>,
       <<25, Model(440, 1920, 58, 253, 0)>>,  <<26, Model(462, 1920, 55, 226, 0)>> >>
beada_model_fallback == Model(800, 480, 108, 65, 0)

(* mpro_models: screen_id, geometry; the two rows of MPRO-5 differ in      *)
(* their margin.                                                           *)
mpro_models ==
    << <<0, Model(480, 800, 0, 0, 0)>>,      <<5, Model(480, 854, 62, 110, 0)>>,
       <<5, Model(480, 854, 62, 119, 320)>>, <<4101, Model(720, 1280, 62, 110, 0)>>,
       <<772, Model(480, 800, 56, 94, 0)>>,  <<4, Model(480, 800, 53, 86, 0)>>,
       <<2820, Model(480, 800, 53, 86, 0)>>, <<260, Model(480, 800, 53, 86, 0)>>,
       <<7, Model(800, 480, 89, 148, 0)>>,   <<1027, Model(800, 800, 88, 88, 0)>>,
       <<10, Model(1024, 600, 222, 125, 0)>> >>

(* The first row of a table that passes a test.                            *)
FirstMatch(table, Test(_), default) ==
    LET i == SelectInSeq(table, Test)
    IN  IF i = 0 THEN default ELSE table[i][2]

lookup_model(code) ==
    FirstMatch(beada_model_table, LAMBDA row : row[1] = code, beada_model_fallback)

(* beada_query_device_info: a panel that does not answer GET_INFO loses    *)
(* Status-Link, and the driver scans its product string; but "%s" takes    *)
(* the comma with the model, and one conversion is never the two it asks   *)
(* for, so it falls back.                                                  *)
query_device_info(device) ==
    IF device.answers = 1 THEN lookup_model(device.code) ELSE beada_model_fallback

detect_margin(device) == IF device.code = 5 /\ device.version # 3 THEN 320 ELSE 0

get_model(device) ==
    FirstMatch(mpro_models,
               LAMBDA row : row[1] = device.code /\ row[2].margin = detect_margin(device),
               NoModel)

(* The panel a driver ends up with.  beada_find_endpoints finds Status-Link *)
(* on the second bulk-OUT endpoint, and without it the reset of Panel-Link *)
(* ends the probe; ax206 asks the device for its size.                     *)
Detected(s) ==
    CASE s.drv = "beada" -> IF s.device.outs < 2 THEN NoModel
                            ELSE IF s.client THEN Model(s.device.w, s.device.h, 1, 1, 0)
                            ELSE query_device_info(s.device)
      [] s.drv = "mpro" -> get_model(s.device)
      [] OTHER -> Model(s.device.w, s.device.h, 0, 0, 0)

(* The systems whose probe succeeds: beadapanel has both bulk-OUT          *)
(* endpoints, mpro a model, ax206 a size.  A panel of beadapanel that is   *)
(* drawn on has any size up to the longest side in the table; mpro draws   *)
(* in MproFrames.  The backlight of mpro has 256 levels; ax206 has no      *)
(* gamma.                                                                  *)
Side == 1..1920
ASSUME SetupAssumption ==
    \A s \in Setups :
        /\ s \in SetupType
        /\ s.drv = "beada" =>
               /\ s.device.outs >= 2
               /\ s.client => s.device.w \in Side /\ s.device.h \in Side
        /\ s.drv = "mpro" =>
               /\ \E i \in DOMAIN mpro_models : mpro_models[i][1] = s.device.code
               /\ ~s.client /\ s.max \in {0, 255}
        /\ s.drv = "ax206" => s.device.w > 0 /\ s.device.h > 0 /\ s.max = 0

------------------------------------------------------------------------------
(* Orientation.                                                            *)

Swaps(r) == r.angle \in {1, 3}
Size(p, r) == IF Swaps(r) THEN <<p.h, p.w>> ELSE <<p.w, p.h>>
Grid(w, h) == (0..w - 1) \X (0..h - 1)
Clamp(x, lo, hi) == IF x < lo THEN lo ELSE IF x > hi THEN hi ELSE x

(* Mutation: the two quarter turns are swapped.                            *)
RotatedSwapped(r, s, src) ==
    CASE r.angle = 0 -> s
      [] r.angle = 1 -> <<s[2], src[1] - 1 - s[1]>>
      [] r.angle = 2 -> <<src[1] - 1 - s[1], src[2] - 1 - s[2]>>
      [] r.angle = 3 -> <<src[2] - 1 - s[2], s[1]>>

(* beadapanel: where the pixel s of a picture of size src lands.           *)
Rotated(r, s, src) ==
    CASE r.angle = 0 -> s
      [] r.angle = 1 -> <<src[2] - 1 - s[2], s[1]>>
      [] r.angle = 2 -> <<src[1] - 1 - s[1], src[2] - 1 - s[2]>>
      [] r.angle = 3 -> <<s[2], src[1] - 1 - s[1]>>

(* Mutation: the coordinates are not clamped to the panel.                 *)
rotate_coordEdge(r, s, src) ==
    LET t == Rotated(r, s, src)
    IN  <<IF r.rx THEN panel.w - 1 - t[1] ELSE t[1], t[2]>>

rotate_coord(r, s, src) ==
    LET t == Rotated(r, s, src)
        x == IF r.rx THEN panel.w - 1 - t[1] ELSE t[1]
    IN  <<Clamp(x, 0, panel.w - 1), Clamp(t[2], 0, panel.h - 1)>>

(* ax206: a target outside of the panel is skipped by ax206_drm_flush.     *)
rotate_pixel(r, l) ==
    LET w == panel.w
        h == panel.h
    IN  CASE r.angle = 0 -> IF r.rx THEN <<w - 1 - l[1], l[2]>> ELSE l
          [] r.angle = 1 -> IF r.rx THEN <<l[2], l[1]>> ELSE <<h - 1 - l[2], l[1]>>
          [] r.angle = 2 -> IF r.rx THEN <<l[1], h - 1 - l[2]>>
                            ELSE <<w - 1 - l[1], h - 1 - l[2]>>
          [] r.angle = 3 -> IF r.rx THEN <<h - 1 - l[2], w - 1 - l[1]>>
                            ELSE <<l[2], w - 1 - l[1]>>

Target(r, s) ==
    IF setup.drv = "ax206" THEN rotate_pixel(r, s) ELSE rotate_coord(r, s, size)

(* A frame is drawn in raster order: where pixels share a target the last  *)
(* one stays.                                                              *)
Drawn(r) ==
    LET hit == {s \in Grid(fb[1], fb[2]) :
                  setup.drv = "ax206" => Target(r, s) \in Grid(panel.w, panel.h)}
        Latest(S) == CHOOSE s \in S : \A t \in S : t[2] < s[2] \/ (t[2] = s[2] /\ t[1] <= s[1])
    IN  [p \in DOMAIN shadow \cup {Target(r, s) : s \in hit} |->
           LET src == {s \in hit : Target(r, s) = p}
           IN  IF src = {} THEN shadow[p] ELSE Latest(src)]

(* The reference: a picture turned clockwise by quarter turns and then     *)
(* mirrored.                                                               *)
QuarterTurn(img) ==
    [w |-> img.h, h |-> img.w,
     at |-> [p \in Grid(img.h, img.w) |-> img.at[<<p[2], img.h - 1 - p[1]>>]]]
Picture(r) ==
    LET s == Size(panel, r)
        turned[n \in 0..3] ==
            IF n = 0 THEN [w |-> s[1], h |-> s[2], at |-> [p \in Grid(s[1], s[2]) |-> p]]
            ELSE QuarterTurn(turned[n - 1])
        img == turned[r.angle]
    IN  IF r.rx THEN [p \in DOMAIN img.at |-> img.at[<<img.w - 1 - p[1], p[2]>>]] ELSE img.at

------------------------------------------------------------------------------
(* Mode and EDID.  Both drivers have the same porches.                     *)

HFP == 40
HSYNC == 48
HBP == 40
VFP == 13
VSYNC == 3
VBP == 29
Refresh == 60
HBlank == HFP + HSYNC + HBP
VBlank == VFP + VSYNC + VBP
RoundDiv(x, d) == (x + d \div 2) \div d
Pixels(s, h, v) == (s[1] + h) * (s[2] + v) * Refresh

(* beada_build_mode, mpro_drm__connector_get_modes.                        *)
BuildMode(s) ==
    [hdisplay |-> s[1], hsync_start |-> s[1] + HFP, hsync_end |-> s[1] + HFP + HSYNC,
     htotal |-> s[1] + HBlank,
     vdisplay |-> s[2], vsync_start |-> s[2] + VFP, vsync_end |-> s[2] + VFP + VSYNC,
     vtotal |-> s[2] + VBlank,
     clock |-> IF setup.drv = "mpro" THEN 29729 ELSE RoundDiv(Pixels(s, HBlank, VBlank), 1000)]

Millimetres(p, r) == IF Swaps(r) THEN <<p.hm, p.wm>> ELSE <<p.wm, p.hm>>

Lo(x) == x % 256
Hi(x) == (x \div 256) % 256
(* The upper four bits of two twelve-bit numbers.                          *)
Nibbles(x, y) == ((x \div 256) % 16) * 16 + ((y \div 256) % 16)

(* Mutation: the upper bits of the width are dropped.                      *)
DetailedTimingLow(s, mm, clock) ==
    <<Lo(clock), Hi(clock), Lo(s[1]), Lo(HBlank), (HBlank \div 256) % 16,
      Lo(s[2]), Lo(VBlank), Nibbles(s[2], VBlank), Lo(HFP), Lo(HSYNC),
      (VFP % 16) * 16 + (VSYNC % 16), 0, Lo(mm[1]), Lo(mm[2]), Nibbles(mm[1], mm[2]), 0, 0, 24>>

(* write_detailed_timing: the porches fit in the low bits of byte 11.      *)
DetailedTiming(s, mm, clock) ==
    <<Lo(clock), Hi(clock), Lo(s[1]), Lo(HBlank), Nibbles(s[1], HBlank),
      Lo(s[2]), Lo(VBlank), Nibbles(s[2], VBlank), Lo(HFP), Lo(HSYNC),
      (VFP % 16) * 16 + (VSYNC % 16), 0, Lo(mm[1]), Lo(mm[2]), Nibbles(mm[1], mm[2]), 0, 0, 24>>

Fill(n, byte) == [i \in 1..n |-> byte]

RangeLimits(clock) ==
    <<0, 0, 0, 253, 0, 50, 75, 30, 80, Lo((clock \div 100) + 1), 0, 10>> \o Fill(6, 32)

(* A name of thirteen letters, the longest that fits.                      *)
NameDescriptor == <<0, 0, 0, 252, 0>> \o Fill(13, 66)

(* A sequence read as the digits of a number.                              *)
Horner(base, seq) ==
    LET upTo[n \in 0..Len(seq)] == IF n = 0 THEN 0 ELSE base * upTo[n - 1] + seq[n]
    IN  upTo[Len(seq)]

ByteSum(bytes) == Horner(1, bytes)

Block(mfg, product, p, timing, limits) ==
    LET body == <<0>> \o Fill(6, 255) \o <<0, Hi(mfg), Lo(mfg)>> \o product
                \o <<1, 35, 1, 3, 128, (p.wm + 9) \div 10, (p.hm + 9) \div 10, 120, 10>>
                \o <<238, 145, 163, 84, 76, 153, 38, 15, 80, 84>>
                \o Fill(3, 0) \o Fill(16, 1)
                \o timing \o NameDescriptor \o limits
                \o <<0, 0, 0, 16>> \o Fill(15, 0)
    IN  Append(body, (256 - (ByteSum(body) % 256)) % 256)

(* beada_edid_update for the current orientation.                          *)
BeadaEdid(p, r, s) ==
    Block(15109, <<Lo(p.w), Hi(p.w), Lo(p.w), Lo(p.h), Hi(p.w), Hi(p.h)>>, p,
          DetailedTiming(s, Millimetres(p, r), RoundDiv(Pixels(s, HBlank, VBlank), 10000)),
          RangeLimits(RoundDiv(Pixels(s, 200, 50), 10000)))

(* mpro_drm__create_edid: always the native orientation.                   *)
MproEdid(p, screen) ==
    Block(23011, <<Lo(screen), Hi(screen), Lo(screen), Hi(screen), 0, 0>>, p,
          DetailedTiming(<<p.w, p.h>>, <<p.wm, p.hm>>, 2972), RangeLimits(2972))

(* The bytes of the block that was built for an orientation and a size.    *)
EdidBlock(from) ==
    IF setup.drv = "beada" THEN BeadaEdid(panel, from.rotation, from.size)
    ELSE MproEdid(panel, setup.device.code)

(* The reference: how a reader of an EDID 1.3 block gets mode and size.    *)
Decoded(block) ==
    LET b(i) == block[55 + i]
        w == b(2) + 256 * (b(4) \div 16)
        h == b(5) + 256 * (b(7) \div 16)
        hblank == b(3) + 256 * (b(4) % 16)
        vblank == b(6) + 256 * (b(7) % 16)
        hfp == b(8) + 256 * (b(11) \div 64)
        hsync == b(9) + 256 * ((b(11) \div 16) % 4)
        vfp == (b(10) \div 16) + 16 * ((b(11) \div 4) % 4)
        vsync == (b(10) % 16) + 16 * (b(11) % 4)
    IN  [mode |-> [hdisplay |-> w, hsync_start |-> w + hfp, hsync_end |-> w + hfp + hsync,
                   htotal |-> w + hblank,
                   vdisplay |-> h, vsync_start |-> h + vfp, vsync_end |-> h + vfp + vsync,
                   vtotal |-> h + vblank, clock |-> 10 * (b(0) + 256 * b(1))],
         mm |-> <<b(12) + 256 * (b(14) \div 16), b(13) + 256 * (b(14) % 16)>>]

------------------------------------------------------------------------------
(* Backlight.                                                              *)

LeastGamma == 50
GreatestGamma == 400

(* u32 arithmetic: whole * 100, where values out of range stand for one    *)
(* another (TLC's integers have 31 bits).                                  *)
Times100(whole) ==
    LET quarter == (whole * 25) % 1073741824
    IN  IF quarter > GreatestGamma THEN 4 * GreatestGamma ELSE 4 * quarter

DigitsValue(digits) == Horner(10, digits)

(* Mutation: a single fractional digit is taken for hundredths.            *)
ParseGammaUnpadded(text) ==
    IF Len(text.frac) > 2 \/ (text.dot /\ text.frac = <<>> /\ setup.drv = "beada") THEN -1
    ELSE Times100(text.whole) + DigitsValue(text.frac)

(* parse_gamma_x100, mpro_parse_gamma_x100: -1 stands for an error.        *)
ParseGamma(text) ==
    IF Len(text.frac) > 2 \/ (text.dot /\ text.frac = <<>> /\ setup.drv = "beada") THEN -1
    ELSE Times100(text.whole)
         + DigitsValue(text.frac) * (IF Len(text.frac) = 1 THEN 10 ELSE 1)

(* The reference: the number a reader sees in the text, times 100.         *)
MeantGamma(text) ==
    text.whole * 100
    + CASE Len(text.frac) = 0 -> 0
        [] Len(text.frac) = 1 -> 10 * text.frac[1]
        [] OTHER -> 10 * text.frac[1] + text.frac[2]

(* C division rounds towards zero.                                         *)
TowardsZero(x, d) == IF x < 0 THEN -((-x) \div d) ELSE x \div d

(* The whole powers that a gamma needs.                                    *)
Exponents == 0..GreatestGamma \div 100 + 1

(* x^n / 255^(n-1), divided at every multiplication.                       *)
ScaledPowers(raw) ==
    LET power[n \in Exponents] == IF n = 0 THEN 255 ELSE (power[n - 1] * raw) \div 255
    IN  power

beada_pow_lut(raw, g) ==
    LET whole == ScaledPowers(raw)[g \div 100]
        next == (whole * raw) \div 255
    IN  IF g = 100 \/ raw \in {0, 255} THEN raw
        ELSE whole + TowardsZero((next - whole) * (g % 100), 100)

int_pow(x) ==
    LET power[n \in Exponents] == IF n = 0 THEN 1 ELSE x * power[n - 1]
    IN  power

(* mpro_pow_lut: x^n / 255^(n-1) with one division.  The runs keep gamma   *)
(* below 3.00, where the powers fit TLC's integers.                        *)
mpro_pow_lut(x, g) ==
    LET n == g \div 100
        f == g % 100
        low == IF n = 0 THEN 255 ELSE int_pow(x)[n] \div int_pow(255)[n - 1]
        high == int_pow(x)[n + 1] \div int_pow(255)[n]
    IN  IF x \in {0, 255} \/ g = 100 THEN x
        ELSE (low * (100 - f) + high * f) \div 100

(* beada_bl_send, mpro_bl__curve: the level the device is sent.            *)
DeviceLevel(raw, g) ==
    IF setup.drv = "mpro" THEN mpro_pow_lut(raw, g)
    ELSE IF g = 100 THEN raw
    ELSE (beada_pow_lut((raw * 255) \div setup.max, g) * setup.max) \div 255

------------------------------------------------------------------------------
Init ==
    /\ setup \in Setups
    /\ panel = Detected(setup)
    /\ rotation \in IF setup.drv = "ax206" THEN setup.turns ELSE {Upright}
    /\ size = Size(panel, rotation)
    /\ stores = 0
    /\ wpc = [w \in setup.writers |-> "idle"]
    /\ edid = [rotation |-> rotation, size |-> size]
    /\ built = [w \in setup.writers |-> edid]
    /\ hotplug = FALSE
    /\ fb = size
    /\ cpc = "idle"
    /\ rot = rotation
    /\ shadow = IF setup.client THEN [p \in Grid(panel.w, panel.h) |-> <<-1, -1>>] ELSE <<>>
    /\ lit = TRUE
    /\ gamma = 100
    /\ resend = FALSE
    /\ asked = 100
    /\ level = setup.max
    /\ hw = setup.max

(* A write to rotation.  beada_apply_rotation changes orientation and size *)
(* under mode_config.mutex, and does the rest after it; the others change  *)
(* the size in a step of its own, without a lock.  ax206 does not look     *)
(* whether the orientation changes.                                        *)
RotationStore(w, r) ==
    /\ wpc[w] = "idle"
    /\ stores < MaxStores
    /\ r # rotation \/ setup.drv = "ax206"
    /\ rotation' = r
    /\ stores' = stores + 1
    /\ IF setup.drv = "beada"
       THEN /\ size' = Size(panel, r)
            /\ wpc' = [wpc EXCEPT ![w] = "edid"]
            /\ UNCHANGED built
       ELSE /\ built' = [built EXCEPT ![w] = [rotation |-> r, size |-> Size(panel, r)]]
            /\ wpc' = [wpc EXCEPT ![w] = "size"]
            /\ UNCHANGED size
    /\ UNCHANGED <<setup, panel, edid, hotplug, frameVars, lightVars>>

(* mpro announces the new mode; ax206 keeps the mode of its probe.         *)
SizeStore(w) ==
    /\ wpc[w] = "size"
    /\ size' = built[w].size
    /\ wpc' = [wpc EXCEPT ![w] = IF setup.drv = "mpro" THEN "hotplug" ELSE "idle"]
    /\ UNCHANGED <<setup, panel, rotation, stores, built, edid, hotplug, frameVars, lightVars>>

EdidBuild(w) ==
    /\ wpc[w] = "edid"
    /\ built' = [built EXCEPT ![w] = [rotation |-> rotation, size |-> size]]
    /\ wpc' = [wpc EXCEPT ![w] = "publish"]
    /\ UNCHANGED <<setup, panel, rotation, size, stores, edid, hotplug, frameVars, lightVars>>

EdidPublish(w) ==
    /\ wpc[w] = "publish"
    /\ edid' = built[w]
    /\ wpc' = [wpc EXCEPT ![w] = "hotplug"]
    /\ UNCHANGED <<setup, panel, rotation, size, stores, built, hotplug, frameVars, lightVars>>

(* Mutation: no hotplug event is sent.                                     *)
HotplugForgotten(w) ==
    /\ wpc[w] = "hotplug"
    /\ wpc' = [wpc EXCEPT ![w] = "idle"]
    /\ UNCHANGED <<setup, panel, rotation, size, stores, built, edid, hotplug, frameVars, lightVars>>

Hotplug(w) ==
    /\ wpc[w] = "hotplug"
    /\ hotplug' = TRUE
    /\ wpc' = [wpc EXCEPT ![w] = "idle"]
    /\ UNCHANGED <<setup, panel, rotation, size, stores, built, edid, frameVars, lightVars>>

(* The compositor probes the connector after a hotplug event and draws     *)
(* into a framebuffer of the size of the one mode it finds.                *)
Probe ==
    /\ setup.client
    /\ hotplug
    /\ cpc = "idle"
    /\ hotplug' = FALSE
    /\ fb' = <<BuildMode(size).hdisplay, BuildMode(size).vdisplay>>
    /\ UNCHANGED <<setup, panel, rotation, size, stores, wpc, built, edid, cpc, rot, shadow, lightVars>>

(* pipe_update hands the orientation to the blit, which reads the size;    *)
(* ax206_drm_flush reads the orientation at each pixel.                    *)
UpdateStart ==
    /\ setup.client
    /\ cpc = "idle"
    /\ cpc' = "blit"
    /\ rot' = rotation
    /\ UNCHANGED <<setup, modeVars, fb, shadow, lightVars>>

Blit ==
    /\ cpc = "blit"
    /\ cpc' = "idle"
    /\ shadow' = Drawn(IF setup.drv = "ax206" THEN rotation ELSE rot)
    /\ UNCHANGED <<setup, modeVars, fb, rot, lightVars>>

(* A write to gamma: it stores the gamma without the lock, and sends the   *)
(* level again under it.  Bound: one at a time.                            *)
GammaStore(text) ==
    /\ setup.max > 0
    /\ ~resend
    /\ ParseGamma(text) \in LeastGamma..GreatestGamma
    /\ gamma' = ParseGamma(text)
    /\ asked' = MeantGamma(text)
    /\ resend' = TRUE
    /\ UNCHANGED <<setup, modeVars, frameVars, lit, level, hw>>

(* What the device is sent for a level, unless the screen is off.          *)
Sent(raw) == IF lit THEN DeviceLevel(raw, gamma) ELSE hw

GammaSend ==
    /\ resend
    /\ resend' = FALSE
    /\ hw' = Sent(level)
    /\ UNCHANGED <<setup, modeVars, frameVars, lit, gamma, asked, level>>

(* A write to brightness.                                                  *)
LevelStore(raw) ==
    /\ setup.max > 0
    /\ raw <= setup.max
    /\ level' = raw
    /\ hw' = Sent(raw)
    /\ UNCHANGED <<setup, modeVars, frameVars, lit, gamma, resend, asked>>

(* The listener of mpro: the screen goes off, and comes on again.          *)
ScreenOff ==
    /\ setup.drv = "mpro" /\ setup.max > 0
    /\ lit' = FALSE
    /\ hw' = DeviceLevel(0, gamma)
    /\ UNCHANGED <<setup, modeVars, frameVars, gamma, resend, asked, level>>

ScreenOn ==
    /\ setup.drv = "mpro" /\ setup.max > 0
    /\ lit' = TRUE
    /\ hw' = DeviceLevel(level, gamma)
    /\ UNCHANGED <<setup, modeVars, frameVars, gamma, resend, asked, level>>

Next ==
    \/ \E w \in setup.writers, r \in setup.turns : RotationStore(w, r)
    \/ \E w \in setup.writers : SizeStore(w) \/ EdidBuild(w) \/ EdidPublish(w) \/ Hotplug(w)
    \/ Probe
    \/ UpdateStart
    \/ Blit
    \/ \E text \in Texts : GammaStore(text)
    \/ GammaSend
    \/ \E raw \in Levels : LevelStore(raw)
    \/ ScreenOff
    \/ ScreenOn

Spec == Init /\ [][Next]_vars

(* A write to rotation that has begun runs to its end, and so does a       *)
(* commit; the compositor answers hotplug events: "so compositors re-probe *)
(* and pick up the new mode" (beada-drm-kms.c).  It need not draw.         *)
FairSpec ==
    /\ Spec
    /\ WF_vars(\E w \in setup.writers :
                  SizeStore(w) \/ EdidBuild(w) \/ EdidPublish(w) \/ Hotplug(w))
    /\ SF_vars(Probe)
    /\ WF_vars(Blit)

------------------------------------------------------------------------------
(* Every device that a table lists is recognised, no pixel is written      *)
(* outside of shadow_buf (a framebuffer of the old orientation included),  *)
(* and the device never gets a level above its greatest.  The size follows *)
(* the orientation, but for mpro and ax206 while it is stored.             *)
TypeOK ==
    /\ setup \in Setups
    /\ panel # NoModel
    /\ rotation \in Turn
    /\ rot \in Turn
    /\ size \in {<<panel.w, panel.h>>, <<panel.h, panel.w>>}
    /\ setup.drv = "beada" => size = Size(panel, rotation)
    /\ stores \in 0..MaxStores
    /\ wpc \in [setup.writers -> {"idle", "size", "edid", "publish", "hotplug"}]
    /\ edid.rotation \in Turn
    /\ edid.size \in {<<panel.w, panel.h>>, <<panel.h, panel.w>>}
    /\ hotplug \in BOOLEAN
    /\ cpc \in {"idle", "blit"}
    /\ setup.client => DOMAIN shadow = Grid(panel.w, panel.h)
    /\ lit \in BOOLEAN /\ resend \in BOOLEAN
    /\ gamma \in LeastGamma..GreatestGamma
    /\ level \in 0..setup.max
    /\ hw \in 0..setup.max

(* The attached block is one a reader accepts (128 bytes that sum to       *)
(* zero), and what it decodes is a mode, the clock up to its resolution,   *)
(* and a size in millimetres.                                              *)
Describes(s, mm) ==
    LET mode == BuildMode(s)
        block == EdidBlock(edid)
        seen == Decoded(block)
    IN  /\ block \in [1..128 -> 0..255]
        /\ ByteSum(block) % 256 = 0
        /\ seen.mode = [mode EXCEPT !.clock = seen.mode.clock]
        /\ mode.clock - seen.mode.clock \in -10..10
        /\ seen.mm = mm

Written == \A w \in setup.writers : wpc[w] = "idle"

(* While no write to rotation is under way the block of beadapanel         *)
(* describes the mode of get_modes and the size of the orientation: "the   *)
(* detailed timing descriptor and physical dimension fields stay in sync   *)
(* with the logical orientation" (beada-drm-edid.c), if one process writes *)
(* rotation.  The block of mpro describes the panel as it is mounted, and  *)
(* so the mode while the orientation is one of the four that do not swap   *)
(* the sides; with one writer the size follows the orientation.            *)
EdidInStep ==
    /\ setup.drv = "beada" /\ Cardinality(setup.writers) <= 1 /\ Written =>
           Describes(size, Millimetres(panel, rotation))
    /\ setup.drv = "mpro" => Describes(<<panel.w, panel.h>>, <<panel.wm, panel.hm>>)
    /\ Cardinality(setup.writers) <= 1 /\ Written => size = Size(panel, rotation)

(* Of both drivers, and of any number of writers, the documentation says   *)
(* it of every orientation: mpro_drm_edid.c exposes "physical dimensions   *)
(* and preferred timing", "The DRM mode and EDID are regenerated on        *)
(* rotation change" (README.md of beadapanel).  The block of mpro is built *)
(* once, and two writers of beadapanel publish theirs in any order.        *)
EdidFollows ==
    setup.drv # "ax206" /\ Written => Describes(size, Millimetres(panel, rotation))

(* However the writes to rotation, the commits and the hotplug events      *)
(* interleave, in the end the compositor's framebuffer has the mode of the *)
(* last write (beada_apply_rotation sends the event when all is in place). *)
ModeSettles == <>[](setup.drv = "beada" /\ setup.client => fb = size)

(* A commit that starts after the compositor has taken the mode, and that  *)
(* no rotation store overtakes, leaves the whole picture on the panel,     *)
(* turned and mirrored (rotate_coord, beada_blit_rect).  For               *)
(* ax206_rotate_pixel in the orientations that fill the panel: quarter     *)
(* turns of panels that are not square do not, but for one.                *)
PictureShown == shadow = Picture(rotation)
FillsPanel ==
    setup.drv = "ax206" =>
        panel.w = panel.h \/ ~Swaps(rot) \/ (rot.angle = 1 /\ rot.rx)
CommitShows ==
    cpc = "blit" /\ cpc' = "idle" /\ rot = rotation /\ fb = Size(panel, rotation) /\ FillsPanel
    => PictureShown'
BlitShows == [][CommitShows]_vars

(* README.md of ax206 says of the rotation attribute "takes effect on next *)
(* frame", for all eight orientations: a commit of which the orientation   *)
(* is the current one leaves the picture turned so.  The mode stays that   *)
(* of the probe, and rotate_pixel misses part of the panel.                *)
NextFrameTurns ==
    [][cpc = "blit" /\ cpc' = "idle" /\ rot = rotation => PictureShown']_vars

(* While the screen of mpro is off its backlight stays dark.  Else, once a *)
(* write to gamma is done, no request makes the backlight brighter than it *)
(* is by a higher gamma and a lower level, or darker by the opposite,      *)
(* gamma taken as a reader of the text understands it (gamma_store,        *)
(* beada_bl_send, mpro_bl__curve, mpro_bl__update).                        *)
CurveOrdered ==
    setup.max > 0 =>
        /\ ~lit => hw = 0
        /\ lit /\ ~resend =>
               \A text \in Texts, raw \in Levels :
                   raw <= setup.max /\ ParseGamma(text) \in LeastGamma..GreatestGamma =>
                       LET other == DeviceLevel(raw, ParseGamma(text))
                       IN  /\ MeantGamma(text) >= asked /\ raw <= level => other <= hw
                           /\ MeantGamma(text) <= asked /\ raw >= level => other >= hw
=============================================================================
