--------------------------- MODULE MproFramesProofs ---------------------------
(***************************************************************************)
(* Theorems about the way of a picture through the mpro DRM driver         *)
(* (MproFrames), for every size of the panel and every set of systems.     *)
(*                                                                         *)
(* They rest on what the code computes: rotate_buffer is a bijection, a    *)
(* copy puts every pixel of its clip at its place and touches nothing      *)
(* else, and a frame shows the region it was made of.  On top of it the    *)
(* picture is followed from the framebuffer into the shadow (ShadowInv)    *)
(* and from there to the panel (PanelInv).                                 *)
(***************************************************************************)
EXTENDS MproFrames, TLAPS

-----------------------------------------------------------------------------
(* Buffers that are stored row by row.                                     *)

(* Multiplication by a natural number keeps the order.                     *)
LEMMA MulMono ==
    ASSUME NEW a \in Int, NEW b \in Int, NEW w \in Nat, a <= b
    PROVE  a * w <= b * w
  OBVIOUS

(* ... and leaves room for one row between two rows.                       *)
LEMMA MulLess ==
    ASSUME NEW a \in Int, NEW b \in Int, NEW w \in Nat, a < b
    PROVE  a * w + w <= b * w
<1>1. (a + 1) * w <= b * w
  BY MulMono
<1>2. (a + 1) * w = a * w + w
  OBVIOUS
<1> QED BY <1>1, <1>2

(* Row by row indices lie in the buffer.                                   *)
LEMMA IndexBound ==
    ASSUME NEW w \in Nat, NEW h \in Nat, NEW x \in 0 .. w - 1, NEW y \in 0 .. h - 1
    PROVE  y * w + x \in 0 .. w * h - 1
<1>1. y * w + w <= h * w
  BY MulLess
<1>2. y * w \in Nat
  OBVIOUS
<1>3. h * w = w * h
  OBVIOUS
<1> QED BY <1>1, <1>2, <1>3

(* They tell pixels apart.                                                 *)
LEMMA IndexUnique ==
    ASSUME NEW w \in Nat, NEW x \in 0 .. w - 1, NEW y \in Nat,
           NEW u \in 0 .. w - 1, NEW v \in Nat, y * w + x = v * w + u
    PROVE  x = u /\ y = v
<1>0. y * w \in Int /\ v * w \in Int
  OBVIOUS
<1>1. CASE y < v
  <2>1. y * w + w <= v * w
    BY <1>1, MulLess
  <2> QED BY <1>0, <2>1
<1>2. CASE v < y
  <2>1. v * w + w <= y * w
    BY <1>2, MulLess
  <2> QED BY <1>0, <2>1
<1>3. CASE v = y
  BY <1>3, <1>0
<1> QED BY <1>1, <1>2, <1>3

(* A number is its quotient times the divisor plus its remainder.          *)
LEMMA DivMod ==
    ASSUME NEW w \in Nat \ {0}, NEW k \in Nat
    PROVE  /\ k % w \in 0 .. w - 1
           /\ k \div w \in Nat
           /\ (k \div w) * w + (k % w) = k
  OBVIOUS

(* Quotient and remainder by the width recover row and column.             *)
LEMMA IndexDivMod ==
    ASSUME NEW w \in Nat \ {0}, NEW x \in 0 .. w - 1, NEW y \in Nat
    PROVE  (y * w + x) % w = x /\ (y * w + x) \div w = y
<1> DEFINE k == y * w + x
           m == k % w
           q == k \div w
<1>1. k \in Nat
  OBVIOUS
<1>2. m \in 0 .. w - 1 /\ q \in Nat /\ q * w + m = k
  BY <1>1, DivMod
<1> HIDE DEF m, q
<1>3. q * w + m = y * w + x
  BY <1>2
<1>4. m = x /\ q = y
  BY <1>2, <1>3, IndexUnique
<1> QED BY <1>4 DEF m, q

(* The index of a w x h buffer has a column below w and a row below h.     *)
LEMMA DivBound ==
    ASSUME NEW w \in Nat \ {0}, NEW h \in Nat, NEW k \in 0 .. w * h - 1
    PROVE  k % w \in 0 .. w - 1 /\ k \div w \in 0 .. h - 1
<1>0. w * h \in Nat
  OBVIOUS
<1>00. k \in Nat
  BY <1>0
<1>1. /\ k % w \in 0 .. w - 1 /\ k \div w \in Nat
      /\ (k \div w) * w + (k % w) = k
  BY <1>00, DivMod
<1>2. CASE k \div w >= h
  <2>1. h * w <= (k \div w) * w
    BY <1>1, <1>2, MulMono
  <2>2. h * w = w * h
    OBVIOUS
  <2> QED BY <1>0, <1>1, <2>1, <2>2
<1> QED BY <1>1, <1>2

(* The rectangles a computation of clips may yield, and those with at      *)
(* least one pixel inside a w x h mode.                                    *)
RectType == [x : Int, y : Int, w : Int, h : Int]
InsideOf(r, w, h) ==
    /\ r.x \in Nat /\ r.y \in Nat /\ r.w \in Nat \ {0} /\ r.h \in Nat \ {0}
    /\ r.x + r.w <= w /\ r.y + r.h <= h

(* FrameIndex and Region for a mode of width w.                            *)
FrameIndexIn(r, w, k) == (r.y + k \div r.w) * w + r.x + (k % r.w)
RegionIn(r, w) == {FrameIndexIn(r, w, k) : k \in 0 .. r.w * r.h - 1}

(* The k-th pixel of a region that lies in the mode has its row and column *)
(* there.                                                                  *)
LEMMA FrameIndexSplit ==
    ASSUME NEW w \in Nat, NEW h \in Nat, NEW r, InsideOf(r, w, h),
           NEW k \in 0 .. r.w * r.h - 1
    PROVE  /\ r.x + (k % r.w) \in r.x .. r.x + r.w - 1
           /\ r.y + (k \div r.w) \in r.y .. r.y + r.h - 1
           /\ r.x + (k % r.w) \in 0 .. w - 1
           /\ r.y + (k \div r.w) \in 0 .. h - 1
           /\ FrameIndexIn(r, w, k) = (r.y + (k \div r.w)) * w + (r.x + (k % r.w))
<1>0. /\ r.x \in Nat /\ r.y \in Nat /\ r.w \in Nat \ {0} /\ r.h \in Nat
      /\ r.x + r.w <= w /\ r.y + r.h <= h
  BY DEF InsideOf
<1>1. k % r.w \in 0 .. r.w - 1 /\ k \div r.w \in 0 .. r.h - 1
  BY <1>0, DivBound
<1>2. (r.y + (k \div r.w)) * w \in Int
  BY <1>0, <1>1
<1>3. FrameIndexIn(r, w, k) = (r.y + (k \div r.w)) * w + (r.x + (k % r.w))
  BY <1>0, <1>1, <1>2 DEF FrameIndexIn
<1> QED BY <1>0, <1>1, <1>3

(* Such a region is part of the buffer,                                    *)
LEMMA RegionInside ==
    ASSUME NEW w \in Nat, NEW h \in Nat, NEW r, InsideOf(r, w, h)
    PROVE  RegionIn(r, w) \subseteq 0 .. w * h - 1
<1> SUFFICES ASSUME NEW k \in 0 .. r.w * r.h - 1
             PROVE  FrameIndexIn(r, w, k) \in 0 .. w * h - 1
  BY DEF RegionIn
<1>1. /\ r.x + (k % r.w) \in 0 .. w - 1 /\ r.y + (k \div r.w) \in 0 .. h - 1
      /\ FrameIndexIn(r, w, k) = (r.y + (k \div r.w)) * w + (r.x + (k % r.w))
  BY FrameIndexSplit
<1>2. (r.y + (k \div r.w)) * w + (r.x + (k % r.w)) \in 0 .. w * h - 1
  BY <1>1, IndexBound
<1> QED BY <1>1, <1>2

(* and has all the pixels of its rows and columns.                         *)
LEMMA RegionHas ==
    ASSUME NEW w \in Nat, NEW h \in Nat, NEW r, InsideOf(r, w, h),
           NEW x \in r.x .. r.x + r.w - 1, NEW y \in r.y .. r.y + r.h - 1
    PROVE  y * w + x \in RegionIn(r, w)
<1> DEFINE k == (y - r.y) * r.w + (x - r.x)
<1>0. /\ r.x \in Nat /\ r.y \in Nat /\ r.w \in Nat \ {0} /\ r.h \in Nat
  BY DEF InsideOf
<1>1. x - r.x \in 0 .. r.w - 1 /\ y - r.y \in 0 .. r.h - 1
  BY <1>0
<1>2. k \in 0 .. r.w * r.h - 1
  BY <1>0, <1>1, IndexBound
<1>3. k % r.w = x - r.x /\ k \div r.w = y - r.y
  <2>1. y - r.y \in Nat
    BY <1>1
  <2> QED BY <1>0, <1>1, <2>1, IndexDivMod
<1>4. FrameIndexIn(r, w, k) = (r.y + (k \div r.w)) * w + (r.x + (k % r.w))
  BY <1>2, FrameIndexSplit
<1>5. r.y + (k \div r.w) = y /\ r.x + (k % r.w) = x
  BY <1>0, <1>3
<1>6. FrameIndexIn(r, w, k) = y * w + x
  BY <1>4, <1>5
<1> QED BY <1>2, <1>6 DEF RegionIn

(* The rectangle of the whole mode.                                        *)
Whole(w, h) == [x |-> 0, y |-> 0, w |-> w, h |-> h]

(* Its region is the buffer, pixel by pixel.                               *)
LEMMA WholeInside ==
    ASSUME NEW w \in Nat \ {0}, NEW h \in Nat \ {0}
    PROVE  /\ InsideOf(Whole(w, h), w, h)
           /\ \A k \in 0 .. w * h - 1 : FrameIndexIn(Whole(w, h), w, k) = k
           /\ RegionIn(Whole(w, h), w) = 0 .. w * h - 1
<1> DEFINE r == Whole(w, h)
<1>1. r.x = 0 /\ r.y = 0 /\ r.w = w /\ r.h = h
  BY DEF Whole
<1>2. InsideOf(r, w, h)
  BY <1>1 DEF InsideOf
<1>3. ASSUME NEW k \in 0 .. w * h - 1
      PROVE  FrameIndexIn(r, w, k) = k
  <2>0. w * h \in Nat
    OBVIOUS
  <2>00. k \in Nat
    BY <2>0
  <2>1. /\ k % w \in 0 .. w - 1 /\ k \div w \in Nat
        /\ (k \div w) * w + (k % w) = k
    BY <2>00, DivMod
  <2>2. FrameIndexIn(r, w, k) = (0 + k \div w) * w + 0 + (k % w)
    BY <1>1 DEF FrameIndexIn
  <2>3. 0 + k \div w = k \div w /\ (k \div w) * w \in Int
    BY <2>1
  <2> QED BY <2>1, <2>2, <2>3
<1>4. RegionIn(r, w) = 0 .. w * h - 1
  BY <1>1, <1>3 DEF RegionIn
<1> QED BY <1>2, <1>3, <1>4

-----------------------------------------------------------------------------
(* Reflections and turns.                                                  *)

(* What the reflections do to a column and to a row.                       *)
MirrorX(r, w, x) == IF r.rx THEN w - 1 - x ELSE x
MirrorY(r, h, y) == IF r.ry THEN h - 1 - y ELSE y

(* Mirrored twice a column is itself again.                                *)
LEMMA MirrorXFacts ==
    ASSUME NEW r \in Rotation, NEW w \in Nat, NEW x \in 0 .. w - 1
    PROVE  MirrorX(r, w, x) \in 0 .. w - 1 /\ MirrorX(r, w, MirrorX(r, w, x)) = x
  BY DEF MirrorX

(* So is a row.                                                            *)
LEMMA MirrorYFacts ==
    ASSUME NEW r \in Rotation, NEW h \in Nat, NEW y \in 0 .. h - 1
    PROVE  MirrorY(r, h, y) \in 0 .. h - 1 /\ MirrorY(r, h, MirrorY(r, h, y)) = y
  BY DEF MirrorY

(* rotate_buffer reads the mirrored pixel.                                 *)
LEMMA SrcForm ==
    ASSUME NEW r, NEW w, NEW h, NEW x, NEW y
    PROVE  RotateSrc(r, w, h, x, y) = MirrorY(r, h, y) * w + MirrorX(r, w, x)
  BY DEF RotateSrc, MirrorX, MirrorY

(* The four turns of rotate_buffer.                                        *)
LEMMA DstForm ==
    ASSUME NEW r \in Rotation, NEW w, NEW h, NEW x, NEW y
    PROVE  /\ r.angle \in 0 .. 3
           /\ r.angle = 0 => RotateDst(r, w, h, x, y) = y * w + x
           /\ r.angle = 1 => RotateDst(r, w, h, x, y) = x * h + (h - 1 - y)
           /\ r.angle = 2 => RotateDst(r, w, h, x, y) = (h - 1 - y) * w + (w - 1 - x)
           /\ r.angle = 3 => RotateDst(r, w, h, x, y) = (w - 1 - x) * h + y
<1>1. r.angle \in 0 .. 3
  BY DEF Rotation
<1> QED BY <1>1 DEF RotateDst

(* Each of them stays in the buffer,                                       *)
LEMMA DstBound ==
    ASSUME NEW r \in Rotation, NEW w \in Nat, NEW h \in Nat,
           NEW x \in 0 .. w - 1, NEW y \in 0 .. h - 1
    PROVE  RotateDst(r, w, h, x, y) \in 0 .. w * h - 1
<1>1. r.angle \in {0, 1, 2, 3}
  BY DEF Rotation
<1>2. w - 1 - x \in 0 .. w - 1 /\ h - 1 - y \in 0 .. h - 1 /\ w * h = h * w
  OBVIOUS
<1>3. CASE r.angle = 0
  BY <1>3, DstForm, IndexBound
<1>4. CASE r.angle = 1
  <2>1. x * h + (h - 1 - y) \in 0 .. h * w - 1
    BY <1>2, IndexBound
  <2> QED BY <1>2, <1>4, <2>1, DstForm
<1>5. CASE r.angle = 2
  BY <1>2, <1>5, DstForm, IndexBound
<1>6. CASE r.angle = 3
  <2>1. (w - 1 - x) * h + y \in 0 .. h * w - 1
    BY <1>2, IndexBound
  <2> QED BY <1>2, <1>6, <2>1, DstForm
<1> QED BY <1>1, <1>3, <1>4, <1>5, <1>6

(* and moves no two pixels to the same place.                              *)
LEMMA DstUnique ==
    ASSUME NEW r \in Rotation, NEW w \in Nat, NEW h \in Nat,
           NEW x \in 0 .. w - 1, NEW y \in 0 .. h - 1,
           NEW u \in 0 .. w - 1, NEW v \in 0 .. h - 1,
           RotateDst(r, w, h, x, y) = RotateDst(r, w, h, u, v)
    PROVE  x = u /\ y = v
<1> DEFINE x1 == w - 1 - x
           y1 == h - 1 - y
           u1 == w - 1 - u
           v1 == h - 1 - v
<1>1. r.angle \in {0, 1, 2, 3}
  BY DEF Rotation
<1>2. /\ x1 \in 0 .. w - 1 /\ u1 \in 0 .. w - 1
      /\ y1 \in 0 .. h - 1 /\ v1 \in 0 .. h - 1
  OBVIOUS
<1>3. (x1 = u1 => x = u) /\ (y1 = v1 => y = v)
  OBVIOUS
<1>31. /\ r.angle = 0 => y * w + x = v * w + u
       /\ r.angle = 1 => x * h + y1 = u * h + v1
       /\ r.angle = 2 => y1 * w + x1 = v1 * w + u1
       /\ r.angle = 3 => x1 * h + y = u1 * h + v
  BY DstForm
<1>30. x \in Nat /\ u \in Nat /\ y \in Nat /\ v \in Nat
  OBVIOUS
<1> HIDE DEF x1, y1, u1, v1
<1>32. x1 \in Nat /\ u1 \in Nat /\ y1 \in Nat /\ v1 \in Nat
  BY <1>2
<1>4. CASE r.angle = 0
  BY <1>4, <1>30, <1>31, IndexUnique
<1>5. CASE r.angle = 1
  <2>1. y1 = v1 /\ x = u
    BY <1>5, <1>2, <1>30, <1>31, IndexUnique
  <2> QED BY <2>1, <1>3
<1>6. CASE r.angle = 2
  <2>1. y1 = v1 /\ x1 = u1
    BY <1>6, <1>2, <1>32, <1>31, IndexUnique
  <2> QED BY <2>1, <1>3
<1>7. CASE r.angle = 3
  <2>1. y = v /\ x1 = u1
    BY <1>7, <1>2, <1>32, <1>31, IndexUnique
  <2> QED BY <2>1, <1>3
<1> QED BY <1>1, <1>4, <1>5, <1>6, <1>7

(* The place on the panel, defined by quarter turns of the picture, is     *)
(* where rotate_buffer puts the mirrored pixel.                            *)
LEMMA PlaceIsDst ==
    ASSUME native_rotation \in Rotation, fb.w \in Nat, fb.h \in Nat,
           NEW x \in 0 .. fb.w - 1, NEW y \in 0 .. fb.h - 1
    PROVE  PlaceOf(x, y) = RotateDst(native_rotation, fb.w, fb.h,
                              MirrorX(native_rotation, fb.w, x),
                              MirrorY(native_rotation, fb.h, y))
<1> DEFINE r == native_rotation
           u == MirrorX(r, fb.w, x)
           v == MirrorY(r, fb.h, y)
           p0 == [w |-> fb.w, h |-> fb.h, x |-> u, y |-> v]
<1>1. u \in 0 .. fb.w - 1 /\ v \in 0 .. fb.h - 1
  BY MirrorXFacts, MirrorYFacts
<1>2. PlaceOf(x, y) =
        LET p == CASE r.angle = 0 -> p0
                   [] r.angle = 1 -> QuarterTurn(p0)
                   [] r.angle = 2 -> QuarterTurn(QuarterTurn(p0))
                   [] r.angle = 3 -> QuarterTurn(QuarterTurn(QuarterTurn(p0)))
        IN p.y * p.w + p.x
  BY DEF PlaceOf, MirrorX, MirrorY
<1> HIDE DEF u, v
<1>3. r.angle \in {0, 1, 2, 3}
  BY DEF Rotation
<1>4. CASE r.angle = 0
  BY <1>1, <1>2, <1>4, DstForm DEF u, v
<1>5. CASE r.angle = 1
  <2>1. PlaceOf(x, y) = u * fb.h + (fb.h - 1 - v)
    BY <1>1, <1>2, <1>5 DEF QuarterTurn
  <2> QED BY <1>5, <2>1, DstForm DEF u, v
<1>6. CASE r.angle = 2
  <2>1. PlaceOf(x, y) = (fb.h - 1 - v) * fb.w + (fb.w - 1 - u)
    BY <1>1, <1>2, <1>6 DEF QuarterTurn
  <2> QED BY <1>6, <2>1, DstForm DEF u, v
<1>7. CASE r.angle = 3
  <2>1. PlaceOf(x, y) = (fb.w - 1 - u) * fb.h + (fb.h - 1 - (fb.h - 1 - v))
    BY <1>1, <1>2, <1>7 DEF QuarterTurn
  <2>2. fb.h - 1 - (fb.h - 1 - v) = v
    BY <1>1
  <2> QED BY <1>7, <2>1, <2>2, DstForm DEF u, v
<1> QED BY <1>3, <1>4, <1>5, <1>6, <1>7

(* The plane's rotation adds nothing to the attribute.                     *)
LEMMA EffectiveIsNative ==
    ASSUME native_rotation \in Rotation
    PROVE  Effective = native_rotation
<1>1. native_rotation = [angle |-> native_rotation.angle, rx |-> native_rotation.rx,
                         ry |-> native_rotation.ry]
  BY DEF Rotation
<1>2. native_rotation.angle \in 0 .. 3 /\ native_rotation.rx \in BOOLEAN
      /\ native_rotation.ry \in BOOLEAN
  BY DEF Rotation
<1>3. (native_rotation.angle + 0) % 4 = native_rotation.angle
  BY <1>2
<1>4. /\ (native_rotation.rx # FALSE) = native_rotation.rx
      /\ (native_rotation.ry # FALSE) = native_rotation.ry
  BY <1>2
<1>5. Effective = [angle |-> (native_rotation.angle + 0) % 4,
                   rx |-> native_rotation.rx # FALSE, ry |-> native_rotation.ry # FALSE]
  BY DEF Effective, compose_rotation, Rotate0
<1> QED BY <1>1, <1>3, <1>4, <1>5, Zenon

-----------------------------------------------------------------------------
(* copy_frame.                                                             *)

(* Where copy_frame puts the loop's pixel c, and where in the framebuffer  *)
(* it takes it from.                                                       *)
Target(r, c) ==
    IF Effective = Rotate0 THEN ShadowIndex(r, c[1], c[2])
                           ELSE RotatedIndex(r, c[1], c[2])
Source(r, c) ==
    LET k == RotateSrc(Effective, r.w, r.h, c[1], c[2])
    IN IF Effective = Rotate0 THEN FbIndex(r, c[1], c[2])
                              ELSE FbIndex(r, k % width, k \div width)

(* Copied and CopyTargets in these terms.                                  *)
LEMMA CopiedForm ==
    ASSUME NEW r
    PROVE  /\ Copied(r) = [i \in Pixel |->
                 IF \E c \in Cells(r.w, r.h) : Target(r, c) = i
                 THEN fb.px[Source(r, CHOOSE c \in Cells(r.w, r.h) : Target(r, c) = i)]
                 ELSE shadow[i]]
           /\ CopyTargets(r) = {Target(r, c) : c \in Cells(r.w, r.h)}
<1>1. CASE Effective = Rotate0
  BY <1>1 DEF Copied, CopyTargets, Target, Source
<1>2. CASE Effective # Rotate0
  BY <1>2 DEF Copied, CopyTargets, Target, Source
<1> QED BY <1>1, <1>2

(* The pixels of a rectangle, as <<column, row>>.                          *)
CellsWithin(r) ==
    (r.x .. r.x + r.w - 1) \X (r.y .. r.y + r.h - 1)

(* Every pixel of the framebuffer has a place on the panel,                *)
LEMMA PlaceBound ==
    ASSUME native_rotation \in Rotation, fb.w \in Nat, fb.h \in Nat,
           NEW x \in 0 .. fb.w - 1, NEW y \in 0 .. fb.h - 1
    PROVE  PlaceOf(x, y) \in 0 .. fb.w * fb.h - 1
<1>1. /\ MirrorX(native_rotation, fb.w, x) \in 0 .. fb.w - 1
      /\ MirrorY(native_rotation, fb.h, y) \in 0 .. fb.h - 1
  BY MirrorXFacts, MirrorYFacts
<1> QED BY <1>1, PlaceIsDst, DstBound

(* no two have the same,                                                   *)
LEMMA PlaceUnique ==
    ASSUME native_rotation \in Rotation, fb.w \in Nat, fb.h \in Nat,
           NEW x \in 0 .. fb.w - 1, NEW y \in 0 .. fb.h - 1,
           NEW u \in 0 .. fb.w - 1, NEW v \in 0 .. fb.h - 1,
           PlaceOf(x, y) = PlaceOf(u, v)
    PROVE  x = u /\ y = v
<1> DEFINE r == native_rotation
           x1 == MirrorX(r, fb.w, x)
           y1 == MirrorY(r, fb.h, y)
           u1 == MirrorX(r, fb.w, u)
           v1 == MirrorY(r, fb.h, v)
<1>1. /\ x1 \in 0 .. fb.w - 1 /\ u1 \in 0 .. fb.w - 1
      /\ y1 \in 0 .. fb.h - 1 /\ v1 \in 0 .. fb.h - 1
      /\ MirrorX(r, fb.w, x1) = x /\ MirrorX(r, fb.w, u1) = u
      /\ MirrorY(r, fb.h, y1) = y /\ MirrorY(r, fb.h, v1) = v
  BY MirrorXFacts, MirrorYFacts
<1>2. RotateDst(r, fb.w, fb.h, x1, y1) = RotateDst(r, fb.w, fb.h, u1, v1)
  BY PlaceIsDst
<1> HIDE DEF x1, y1, u1, v1
<1>3. x1 = u1 /\ y1 = v1
  BY <1>1, <1>2, DstUnique
<1> QED BY <1>1, <1>3

(* and without rotation it is its index.                                   *)
LEMMA PlainPlace ==
    ASSUME native_rotation = Rotate0, fb.w \in Nat, fb.h \in Nat,
           NEW x \in 0 .. fb.w - 1, NEW y \in 0 .. fb.h - 1
    PROVE  PlaceOf(x, y) = y * fb.w + x
<1>1. Rotate0 \in Rotation /\ Rotate0.angle = 0 /\ Rotate0.rx = FALSE /\ Rotate0.ry = FALSE
  BY DEF Rotation, Rotate0
<1>2. MirrorX(Rotate0, fb.w, x) = x /\ MirrorY(Rotate0, fb.h, y) = y
  BY <1>1 DEF MirrorX, MirrorY
<1>3. PlaceOf(x, y) = RotateDst(Rotate0, fb.w, fb.h, x, y)
  BY <1>1, <1>2, PlaceIsDst
<1> QED BY <1>1, <1>3, DstForm

(* What fb_mark_dirty knows of r when it copies: it lies in the mode,      *)
(* which is that of the framebuffer, and is all of it when there is a      *)
(* rotation.                                                               *)
Copying(r) ==
    /\ native_rotation \in Rotation
    /\ width \in Nat \ {0} /\ height \in Nat \ {0}
    /\ Pixel = 0 .. width * height - 1
    /\ fb.w = width /\ fb.h = height
    /\ InsideOf(r, width, height)
    /\ native_rotation # Rotate0 => r = Whole(width, height)

(* Each turn of the loop puts a pixel of the clip at its place on the      *)
(* panel,                                                                  *)
LEMMA CopyDraws ==
    ASSUME NEW r, Copying(r), NEW c \in Cells(r.w, r.h)
    PROVE  \E d \in CellsWithin(r) :
              /\ d \in Cells(fb.w, fb.h)
              /\ Target(r, c) = PlaceOf(d[1], d[2])
              /\ Source(r, c) = d[2] * fb.w + d[1]
<1> DEFINE i == c[1]
           j == c[2]
<1>0. /\ r.x \in Nat /\ r.y \in Nat /\ r.w \in Nat \ {0} /\ r.h \in Nat \ {0}
      /\ r.x + r.w <= width /\ r.y + r.h <= height
      /\ fb.w \in Nat /\ fb.h \in Nat /\ width \in Nat /\ height \in Nat
      /\ fb.w = width /\ fb.h = height /\ native_rotation \in Rotation
  BY DEF Copying, InsideOf
<1>1. i \in 0 .. r.w - 1 /\ j \in 0 .. r.h - 1
  BY DEF Cells
<1>2. Effective = native_rotation
  BY <1>0, EffectiveIsNative
<1> HIDE DEF i, j
<1>3. CASE native_rotation = Rotate0
  <2> DEFINE d == <<r.x + i, r.y + j>>
  <2>1. /\ r.x + i \in r.x .. r.x + r.w - 1 /\ r.y + j \in r.y .. r.y + r.h - 1
        /\ r.x + i \in 0 .. fb.w - 1 /\ r.y + j \in 0 .. fb.h - 1
    BY <1>0, <1>1
  <2>2. d \in CellsWithin(r) /\ d \in Cells(fb.w, fb.h)
    BY <2>1 DEF CellsWithin, Cells
  <2>3. PlaceOf(d[1], d[2]) = (r.y + j) * fb.w + (r.x + i)
    BY <1>0, <1>3, <2>1, PlainPlace
  <2>4. (r.y + j) * fb.w \in Int
    BY <1>0, <2>1
  <2>5. (r.y + j) * fb.w + (r.x + i) = (r.y + j) * fb.w + r.x + i
    BY <1>0, <1>1, <2>4
  <2>6. /\ Target(r, c) = (r.y + j) * fb.w + r.x + i
        /\ Source(r, c) = (r.y + j) * fb.w + r.x + i
    BY <1>0, <1>2, <1>3 DEF Target, Source, ShadowIndex, FbIndex, i, j
  <2>7. d[2] * fb.w + d[1] = (r.y + j) * fb.w + (r.x + i)
    OBVIOUS
  <2>8. Target(r, c) = PlaceOf(d[1], d[2]) /\ Source(r, c) = d[2] * fb.w + d[1]
    BY <2>3, <2>5, <2>6, <2>7
  <2> QED BY <2>2, <2>8
<1>4. CASE native_rotation # Rotate0
  <2> DEFINE x == MirrorX(native_rotation, fb.w, i)
             y == MirrorY(native_rotation, fb.h, j)
             d == <<x, y>>
             k == y * width + x
  <2>1. r = Whole(width, height) /\ r.x = 0 /\ r.y = 0 /\ r.w = width /\ r.h = height
    BY <1>4 DEF Copying, Whole
  <2>2. /\ x \in 0 .. fb.w - 1 /\ y \in 0 .. fb.h - 1
        /\ MirrorX(native_rotation, fb.w, x) = i /\ MirrorY(native_rotation, fb.h, y) = j
        /\ RotateSrc(native_rotation, fb.w, fb.h, i, j) = k
    BY <1>0, <1>1, <2>1, MirrorXFacts, MirrorYFacts, SrcForm
  <2> HIDE DEF x, y
  <2>3. d \in CellsWithin(r) /\ d \in Cells(fb.w, fb.h)
    <3>1. x \in r.x .. r.x + r.w - 1 /\ y \in r.y .. r.y + r.h - 1
      BY <1>0, <2>1, <2>2
    <3> QED BY <2>2, <3>1 DEF CellsWithin, Cells
  <2>4. PlaceOf(x, y) = RotateDst(native_rotation, width, height, i, j)
    BY <1>0, <2>2, PlaceIsDst
  <2>5. Target(r, c) = 0 * width + 0 + RotateDst(native_rotation, width, height, i, j)
    BY <1>2, <1>4, <2>1 DEF Target, RotatedIndex, i, j
  <2>6. RotateDst(native_rotation, width, height, i, j) \in Int
    BY <1>0, <1>1, <2>1, DstBound
  <2>7. 0 * width = 0
    BY <1>0
  <2>8. Target(r, c) = PlaceOf(x, y)
    BY <2>4, <2>5, <2>6, <2>7
  <2>9. k % width = x /\ k \div width = y
    <3>1. y \in Nat
      BY <1>0, <2>2
    <3>2. width \in Nat \ {0}
      BY <1>0, <2>1
    <3> QED BY <1>0, <2>2, <3>1, <3>2, IndexDivMod
  <2>10. Source(r, c) = FbIndex(r, x, y)
    BY <1>0, <1>2, <1>4, <2>1, <2>2, <2>9 DEF Source, i, j
  <2>11. FbIndex(r, x, y) = (0 + y) * fb.w + 0 + x
    BY <2>1 DEF FbIndex
  <2>12. y * fb.w \in Int /\ 0 + y = y
    BY <1>0, <2>2
  <2>13. Source(r, c) = y * fb.w + x
    BY <2>2, <2>10, <2>11, <2>12
  <2> QED BY <2>3, <2>8, <2>13
<1> QED BY <1>3, <1>4

(* and each pixel of the clip is put there by one.                         *)
LEMMA CopyReaches ==
    ASSUME NEW r, Copying(r), NEW d \in CellsWithin(r)
    PROVE  /\ d \in Cells(fb.w, fb.h)
           /\ \E c \in Cells(r.w, r.h) : Target(r, c) = PlaceOf(d[1], d[2])
<1>0. /\ r.x \in Nat /\ r.y \in Nat /\ r.w \in Nat \ {0} /\ r.h \in Nat \ {0}
      /\ r.x + r.w <= width /\ r.y + r.h <= height
      /\ fb.w \in Nat /\ fb.h \in Nat /\ width \in Nat /\ height \in Nat
      /\ fb.w = width /\ fb.h = height /\ native_rotation \in Rotation
  BY DEF Copying, InsideOf
<1>1. d[1] \in r.x .. r.x + r.w - 1 /\ d[2] \in r.y .. r.y + r.h - 1 /\ d = <<d[1], d[2]>>
  BY DEF CellsWithin
<1>2. d[1] \in 0 .. fb.w - 1 /\ d[2] \in 0 .. fb.h - 1
  BY <1>0, <1>1
<1>3. d \in Cells(fb.w, fb.h)
  BY <1>1, <1>2 DEF Cells
<1>4. Effective = native_rotation
  BY <1>0, EffectiveIsNative
<1>5. CASE native_rotation = Rotate0
  <2> DEFINE c == <<d[1] - r.x, d[2] - r.y>>
  <2>1. c \in Cells(r.w, r.h)
    BY <1>0, <1>1 DEF Cells
  <2>2. Target(r, c) = (r.y + (d[2] - r.y)) * width + r.x + (d[1] - r.x)
    BY <1>4, <1>5 DEF Target, ShadowIndex
  <2>3. r.y + (d[2] - r.y) = d[2] /\ d[2] * width \in Int
    BY <1>0, <1>1
  <2>4. Target(r, c) = d[2] * width + d[1]
    BY <1>0, <1>1, <2>2, <2>3
  <2>5. PlaceOf(d[1], d[2]) = d[2] * fb.w + d[1]
    BY <1>0, <1>2, <1>5, PlainPlace
  <2> QED BY <1>0, <1>3, <2>1, <2>4, <2>5
<1>6. CASE native_rotation # Rotate0
  <2> DEFINE x == MirrorX(native_rotation, fb.w, d[1])
             y == MirrorY(native_rotation, fb.h, d[2])
             c == <<x, y>>
  <2>1. r.x = 0 /\ r.y = 0 /\ r.w = width /\ r.h = height
    BY <1>6 DEF Copying, Whole
  <2>2. x \in 0 .. fb.w - 1 /\ y \in 0 .. fb.h - 1
    BY <1>0, <1>2, MirrorXFacts, MirrorYFacts
  <2>4. PlaceOf(d[1], d[2]) = RotateDst(native_rotation, width, height, x, y)
    BY <1>0, <1>2, PlaceIsDst
  <2> HIDE DEF x, y
  <2>3. c \in Cells(r.w, r.h)
    BY <1>0, <2>1, <2>2 DEF Cells
  <2>5. Target(r, c) = 0 * width + 0 + RotateDst(native_rotation, width, height, x, y)
    BY <1>4, <1>6, <2>1 DEF Target, RotatedIndex
  <2>6. RotateDst(native_rotation, width, height, x, y) \in Int
    BY <1>0, <2>1, <2>2, DstBound
  <2>7. 0 * width = 0
    BY <1>0
  <2>8. Target(r, c) = PlaceOf(d[1], d[2])
    BY <2>4, <2>5, <2>6, <2>7
  <2> QED BY <1>3, <2>3, <2>8
<1> QED BY <1>5, <1>6

(* No access leaves the framebuffer, temp_buffer or the shadow.            *)
LEMMA CopyStays ==
    ASSUME NEW r, Copying(r)
    PROVE  CopyFits(r)
<1>0. /\ r.x \in Nat /\ r.y \in Nat /\ r.w \in Nat \ {0} /\ r.h \in Nat \ {0}
      /\ r.x + r.w <= width /\ r.y + r.h <= height
      /\ width \in Nat /\ height \in Nat
      /\ fb.w = width /\ fb.h = height /\ native_rotation \in Rotation
      /\ Pixel = 0 .. width * height - 1
  BY DEF Copying, InsideOf
<1> SUFFICES ASSUME NEW c \in Cells(r.w, r.h)
             PROVE  /\ FbIndex(r, c[1], c[2]) \in Pixel
                    /\ IF Effective = Rotate0
                         THEN ShadowIndex(r, c[1], c[2]) \in Pixel
                         ELSE /\ TempIndex(c[1], c[2]) < TempSize(r)
                              /\ RotatedIndex(r, c[1], c[2]) \in Pixel
  BY DEF CopyFits
<1> DEFINE i == c[1]
           j == c[2]
<1>1. i \in 0 .. r.w - 1 /\ j \in 0 .. r.h - 1
  BY DEF Cells
<1> HIDE DEF i, j
<1>20. r.x + i \in 0 .. width - 1 /\ r.y + j \in 0 .. height - 1
  <2>1. /\ r.x \in Nat /\ r.y \in Nat /\ r.w \in Nat /\ r.h \in Nat
        /\ r.x + r.w <= width /\ r.y + r.h <= height
        /\ width \in Nat /\ height \in Nat
    BY <1>0
  <2> QED BY <1>1, <2>1
<1>2. /\ r.x + i \in 0 .. width - 1 /\ r.y + j \in 0 .. height - 1
      /\ (r.y + j) * width \in Int
  BY <1>0, <1>20
<1>3. (r.y + j) * width + (r.x + i) \in Pixel
  BY <1>0, <1>2, IndexBound
<1>4. (r.y + j) * width + (r.x + i) = (r.y + j) * width + r.x + i
  <2> DEFINE row == (r.y + j) * width
  <2>1. row \in Int /\ r.x \in Int /\ i \in Int
    BY <1>0, <1>1, <1>2
  <2> HIDE DEF row
  <2>2. row + (r.x + i) = row + r.x + i
    BY <2>1
  <2> QED BY <2>2 DEF row
<1>5. FbIndex(r, i, j) \in Pixel /\ ShadowIndex(r, i, j) \in Pixel
  BY <1>0, <1>3, <1>4 DEF FbIndex, ShadowIndex
<1>6. Effective = native_rotation
  BY <1>0, EffectiveIsNative
<1>7. CASE native_rotation = Rotate0
  BY <1>5, <1>6, <1>7 DEF i, j
<1>8. CASE native_rotation # Rotate0
  <2>1. r.x = 0 /\ r.y = 0 /\ r.w = width /\ r.h = height
    BY <1>8 DEF Copying, Whole
  <2>2. j * width + i \in 0 .. width * height - 1
    BY <1>0, <1>1, <2>1, IndexBound
  <2>3. TempIndex(i, j) < TempSize(r)
    <3>1. width * height \in Nat
      BY <1>0
    <3> QED BY <2>1, <2>2, <3>1 DEF TempIndex, TempSize
  <2>4. RotateDst(native_rotation, width, height, i, j) \in 0 .. width * height - 1
    BY <1>0, <1>1, <2>1, DstBound
  <2>5. RotatedIndex(r, i, j) = 0 * width + 0 + RotateDst(native_rotation, width, height, i, j)
    BY <1>6, <2>1 DEF RotatedIndex
  <2>6. 0 * width = 0
    BY <1>0
  <2>7. RotatedIndex(r, i, j) \in Pixel
    BY <1>0, <2>4, <2>5, <2>6
  <2> QED BY <1>5, <1>6, <1>8, <2>3, <2>7 DEF i, j
<1> QED BY <1>7, <1>8

(* What a copy does: every pixel of the clip arrives at its place, and     *)
(* nothing else of the shadow is touched.                                  *)
LEMMA CopyPlaces ==
    ASSUME NEW r, Copying(r)
    PROVE  /\ \A d \in CellsWithin(r) :
                Copied(r)[PlaceOf(d[1], d[2])] = fb.px[d[2] * fb.w + d[1]]
           /\ \A i \in Pixel \ CopyTargets(r) : Copied(r)[i] = shadow[i]
           /\ CopyTargets(r) \subseteq RegionIn(r, width)
           /\ \A d \in Cells(fb.w, fb.h) \ CellsWithin(r) :
                PlaceOf(d[1], d[2]) \notin CopyTargets(r)
<1>0. /\ width \in Nat /\ height \in Nat /\ fb.w \in Nat /\ fb.h \in Nat
      /\ fb.w = width /\ fb.h = height /\ native_rotation \in Rotation
      /\ Pixel = 0 .. width * height - 1
      /\ InsideOf(r, width, height)
  BY DEF Copying
<1>1. \A d \in Cells(fb.w, fb.h) :
         /\ d = <<d[1], d[2]>> /\ d[1] \in 0 .. fb.w - 1 /\ d[2] \in 0 .. fb.h - 1
         /\ PlaceOf(d[1], d[2]) \in Pixel
  BY <1>0, PlaceBound DEF Cells
<1>2. ASSUME NEW c \in Cells(r.w, r.h), NEW d \in Cells(fb.w, fb.h),
             Target(r, c) = PlaceOf(d[1], d[2])
      PROVE  Source(r, c) = d[2] * fb.w + d[1] /\ d \in CellsWithin(r)
  <2>1. PICK e \in CellsWithin(r) :
              /\ e \in Cells(fb.w, fb.h)
              /\ Target(r, c) = PlaceOf(e[1], e[2])
              /\ Source(r, c) = e[2] * fb.w + e[1]
    BY CopyDraws
  <2>2. e[1] = d[1] /\ e[2] = d[2]
    <3>1. PlaceOf(e[1], e[2]) = PlaceOf(d[1], d[2])
      BY <1>2, <2>1
    <3>2. /\ e[1] \in 0 .. fb.w - 1 /\ e[2] \in 0 .. fb.h - 1
          /\ d[1] \in 0 .. fb.w - 1 /\ d[2] \in 0 .. fb.h - 1
      BY <1>1, <2>1
    <3>3. native_rotation \in Rotation /\ fb.w \in Nat /\ fb.h \in Nat
      BY <1>0
    <3> QED BY <3>1, <3>2, <3>3, PlaceUnique
  <2>3. e = d
    BY <1>1, <2>1, <2>2
  <2> QED BY <2>1, <2>3
<1>3. ASSUME NEW d \in CellsWithin(r)
      PROVE  Copied(r)[PlaceOf(d[1], d[2])] = fb.px[d[2] * fb.w + d[1]]
  <2> DEFINE p == PlaceOf(d[1], d[2])
             c == CHOOSE c \in Cells(r.w, r.h) : Target(r, c) = p
  <2>1. d \in Cells(fb.w, fb.h) /\ \E b \in Cells(r.w, r.h) : Target(r, b) = p
    BY CopyReaches
  <2>2. c \in Cells(r.w, r.h) /\ Target(r, c) = p
    BY <2>1
  <2>3. p \in Pixel
    BY <1>1, <2>1
  <2>4. Copied(r)[p] = fb.px[Source(r, c)]
    BY <2>1, <2>3, CopiedForm
  <2> HIDE DEF c
  <2>5. Source(r, c) = d[2] * fb.w + d[1]
    BY <1>2, <2>1, <2>2
  <2> QED BY <2>4, <2>5
<1>4. ASSUME NEW i \in Pixel \ CopyTargets(r)
      PROVE  Copied(r)[i] = shadow[i]
  <2>1. \A c \in Cells(r.w, r.h) : Target(r, c) # i
    <3>1. CopyTargets(r) = {Target(r, c) : c \in Cells(r.w, r.h)}
      BY CopiedForm
    <3> QED BY <3>1
  <2> QED BY <2>1, CopiedForm
<1>5. CopyTargets(r) \subseteq RegionIn(r, width)
  <2> SUFFICES ASSUME NEW c \in Cells(r.w, r.h)
               PROVE  Target(r, c) \in RegionIn(r, width)
    BY CopiedForm
  <2>1. PICK e \in CellsWithin(r) :
              /\ e \in Cells(fb.w, fb.h)
              /\ Target(r, c) = PlaceOf(e[1], e[2])
    BY CopyDraws
  <2>2. CASE native_rotation = Rotate0
    <3>1. Target(r, c) = e[2] * width + e[1]
      BY <1>0, <1>1, <2>1, <2>2, PlainPlace
    <3>2. e[1] \in r.x .. r.x + r.w - 1 /\ e[2] \in r.y .. r.y + r.h - 1
      BY DEF CellsWithin
    <3> QED BY <1>0, <3>1, <3>2, RegionHas
  <2>3. CASE native_rotation # Rotate0
    <3>1. r = Whole(width, height) /\ width \in Nat \ {0} /\ height \in Nat \ {0}
      BY <2>3 DEF Copying
    <3>2. RegionIn(r, width) = Pixel
      BY <1>0, <3>1, WholeInside
    <3> QED BY <1>1, <2>1, <3>2
  <2> QED BY <2>2, <2>3
<1>6. ASSUME NEW d \in Cells(fb.w, fb.h) \ CellsWithin(r),
             PlaceOf(d[1], d[2]) \in CopyTargets(r)
      PROVE  FALSE
  <2>1. PICK c \in Cells(r.w, r.h) : Target(r, c) = PlaceOf(d[1], d[2])
    BY <1>6, CopiedForm
  <2> QED BY <1>2, <2>1
<1> QED BY <1>3, <1>4, <1>5, <1>6

(* A copy that fits leaves colours in the shadow, whether the framebuffer  *)
(* has the size of the mode or not.                                        *)
LEMMA CopiedTyped ==
    ASSUME NEW r, NEW S, native_rotation \in Rotation, width \in Nat,
           r.w \in Nat \ {0}, r.h \in Nat \ {0}, r.w <= width, CopyFits(r),
           fb.px \in [Pixel -> S], shadow \in [Pixel -> S]
    PROVE  Copied(r) \in [Pixel -> S]
<1>1. Effective = native_rotation
  BY EffectiveIsNative
<1>2. ASSUME NEW c \in Cells(r.w, r.h)
      PROVE  Source(r, c) \in Pixel
  <2>1. CASE Effective = Rotate0
    BY <2>1 DEF CopyFits, Source
  <2>2. CASE Effective # Rotate0
    <3> DEFINE x == MirrorX(native_rotation, r.w, c[1])
               y == MirrorY(native_rotation, r.h, c[2])
               k == y * r.w + x
    <3>1. c[1] \in 0 .. r.w - 1 /\ c[2] \in 0 .. r.h - 1
      BY DEF Cells
    <3>2. x \in 0 .. r.w - 1 /\ y \in 0 .. r.h - 1
      BY <3>1, MirrorXFacts, MirrorYFacts
    <3>3. Source(r, c) = FbIndex(r, k % width, k \div width)
      BY <1>1, <2>2, SrcForm DEF Source
    <3> HIDE DEF x, y
    <3>4. \A b \in Cells(r.w, r.h) : FbIndex(r, b[1], b[2]) \in Pixel
      BY DEF CopyFits
    <3>5. <<x, y>> \in Cells(r.w, r.h)
      BY <3>2 DEF Cells
    <3>6. FbIndex(r, x, y) \in Pixel
      BY <3>4, <3>5
    <3>7. k % width = x /\ k \div width = y
      <4>1. x \in 0 .. width - 1 /\ width \in Nat \ {0} /\ y \in Nat
        BY <3>2
      <4>2. CASE r.w = width
        BY <4>1, <4>2, IndexDivMod
      <4>3. CASE r.h = 1
        <5>1. y = 0
          BY <3>2, <4>3
        <5>2. k = 0 * width + x
          BY <3>2, <4>1, <5>1
        <5>3. (0 * width + x) % width = x /\ (0 * width + x) \div width = 0
          BY <4>1, IndexDivMod
        <5> QED BY <5>1, <5>2, <5>3
      <4>4. CASE r.w # width /\ r.h # 1
        <5>1. <<r.w - 1, r.h - 1>> \in Cells(r.w, r.h)
          BY DEF Cells
        <5>2. TempIndex(r.w - 1, r.h - 1) < TempSize(r)
          BY <2>2, <5>1 DEF CopyFits
        <5>3. (r.h - 1) * width + (r.w - 1) < r.w * r.h
          BY <5>2 DEF TempIndex, TempSize
        <5>4. r.w + 1 <= width /\ r.h - 1 \in Nat /\ r.h - 1 >= 1
          BY <4>4
        <5>5. (r.w + 1) * (r.h - 1) <= width * (r.h - 1)
          BY <5>4, MulMono
        <5>6. (r.w + 1) * (r.h - 1) = r.w * r.h - r.w + r.h - 1
          OBVIOUS
        <5>7. width * (r.h - 1) = (r.h - 1) * width /\ (r.h - 1) * width \in Int
              /\ r.w * r.h \in Int
          OBVIOUS
        <5> QED BY <5>3, <5>4, <5>5, <5>6, <5>7
      <4> QED BY <4>2, <4>3, <4>4
    <3> QED BY <3>3, <3>6, <3>7
  <2> QED BY <2>1, <2>2
<1> DEFINE From(i) == IF \E c \in Cells(r.w, r.h) : Target(r, c) = i
                     THEN fb.px[Source(r, CHOOSE c \in Cells(r.w, r.h) : Target(r, c) = i)]
                     ELSE shadow[i]
<1>20. Copied(r) = [i \in Pixel |-> From(i)]
  BY CopiedForm
<1> SUFFICES ASSUME NEW i \in Pixel
             PROVE  From(i) \in S
  <2> HIDE DEF From
  <2> QED BY <1>20
<1>3. CASE \E c \in Cells(r.w, r.h) : Target(r, c) = i
  <2> DEFINE d == CHOOSE c \in Cells(r.w, r.h) : Target(r, c) = i
  <2>1. d \in Cells(r.w, r.h)
    BY <1>3
  <2> HIDE DEF d
  <2>2. fb.px[Source(r, d)] \in S
    BY <1>2, <2>1
  <2> QED BY <1>3, <2>2 DEF d
<1>4. CASE ~ \E c \in Cells(r.w, r.h) : Target(r, c) = i
  BY <1>4
<1> QED BY <1>3, <1>4

-----------------------------------------------------------------------------
(* Frames.                                                                 *)

(* The colour a frame has for the panel's pixel i, and the frame that      *)
(* mpro_send_*_frame makes of region r of a buffer.                        *)
Value(f, i) == f.px[CHOOSE k \in FrameCells(f) : PanelIndex(f, k) = i]
FrameOf(r, buf) ==
    [full |-> IsFull(r), at |-> r, fy |-> IF IsFull(r) THEN 0 ELSE FlippedY(r),
     px |-> Pixels(r, buf)]

(* The device's counting of rows from the bottom undoes the flip of        *)
(* mpro_send_partial_frame: a frame shows just its region, as it is in the *)
(* buffer.                                                                 *)
LEMMA FrameShows ==
    ASSUME NEW r, NEW buf, width \in Nat \ {0}, height \in Nat \ {0}, H \in Nat,
           Pixel = 0 .. width * height - 1, InsideOf(r, width, height),
           r = WholeRect \/ (width = W /\ height = H)
    PROVE  /\ Shows(FrameOf(r, buf)) = RegionIn(r, width)
           /\ \A i \in Shows(FrameOf(r, buf)) : Value(FrameOf(r, buf), i) = buf[i]
<1> DEFINE f == FrameOf(r, buf)
<1>1. WholeRect = Whole(width, height)
  BY DEF WholeRect, Whole
<1>2. /\ f.full = (r = WholeRect) /\ f.at = r /\ f.px = Pixels(r, buf)
      /\ f.fy = IF r = WholeRect THEN 0 ELSE FlippedY(r)
      /\ FrameCells(f) = 0 .. r.w * r.h - 1
  BY DEF FrameOf, IsFull, FrameCells
<1> HIDE DEF f
<1>3. ASSUME NEW k \in 0 .. r.w * r.h - 1
      PROVE  PanelIndex(f, k) = FrameIndexIn(r, width, k)
  <2>1. CASE r = WholeRect
    <3>1. r.w = width /\ r.h = height
      BY <1>1, <2>1 DEF Whole
    <3>2. FrameIndexIn(r, width, k) = k
      BY <1>1, <2>1, <3>1, WholeInside
    <3>3. PanelIndex(f, k) = k
      BY <1>2, <2>1 DEF PanelIndex
    <3> QED BY <3>2, <3>3
  <2>2. CASE r # WholeRect
    <3>1. PanelIndex(f, k) = (H - 1 - (H - 1 - (r.y + r.h)) - r.h + k \div r.w) * W + r.x + (k % r.w)
      BY <1>2, <2>2 DEF PanelIndex, FlippedY
    <3>2. H - 1 - (H - 1 - (r.y + r.h)) - r.h = r.y
      BY DEF InsideOf
    <3> QED BY <2>2, <3>1, <3>2 DEF FrameIndexIn
  <2> QED BY <2>1, <2>2
<1>4. Shows(f) = RegionIn(r, width)
  <2>1. {PanelIndex(f, k) : k \in FrameCells(f)} = RegionIn(r, width)
    BY <1>2, <1>3 DEF RegionIn
  <2>2. RegionIn(r, width) \subseteq Pixel
    BY RegionInside
  <2> QED BY <2>1, <2>2 DEF Shows
<1>5. ASSUME NEW i \in Shows(f)
      PROVE  Value(f, i) = buf[i]
  <2> DEFINE k == CHOOSE k \in FrameCells(f) : PanelIndex(f, k) = i
  <2>1. k \in FrameCells(f) /\ PanelIndex(f, k) = i
    BY <1>5 DEF Shows
  <2>2. Value(f, i) = Pixels(r, buf)[k]
    BY <1>2 DEF Value
  <2> HIDE DEF k
  <2>3. FrameIndex(r, k) = i
    BY <1>2, <1>3, <2>1 DEF FrameIndex, FrameIndexIn
  <2>4. i \in Pixel
    BY <1>4, RegionInside
  <2> QED BY <1>2, <2>1, <2>2, <2>3, <2>4 DEF Pixels
<1> QED BY <1>4, <1>5 DEF f

-----------------------------------------------------------------------------
(* Types.                                                                  *)

(* TypeOK with what the proofs need besides: the mode belongs to the       *)
(* rotation, and rect[t] is a rectangle of natural numbers once it is to   *)
(* be sent.                                                                *)
FbType == [w : Nat, h : Nat, px : Picture]
Label == {"out", "copy", "check", "clear", "request", "snap", "offer", "finish"}
Sending == {"request", "snap", "offer"}
TData ==
    /\ setup \in Setups /\ sleeps \in 0 .. MaxSleeps /\ drawn \in Colour
    /\ fb \in FbType /\ <<fb.w, fb.h>> \in {<<W, H>>, <<H, W>>}
    /\ shadow \in Picture /\ panel \in Picture
TMode ==
    /\ native_rotation \in Rotation
    /\ width = IF rotation_swaps_dims(native_rotation) THEN H ELSE W
    /\ height = IF rotation_swaps_dims(native_rotation) THEN W ELSE H
    /\ disable_partial \in BOOLEAN
TFlag ==
    /\ blanked \in BOOLEAN /\ pipe_on \in BOOLEAN /\ suspended \in BOOLEAN
    /\ is_idle \in BOOLEAN /\ black_live \in BOOLEAN /\ stray \subseteq Cause
    /\ data \in {"shadow", "black"} /\ event \in {"none", "state", "armed"}
    /\ core_vblank \in BOOLEAN /\ vblank_enabled \in BOOLEAN
    /\ was_enabled \in BOOLEAN
    /\ erased \subseteq Pixel /\ missed \subseteq Pixel
TThread ==
    /\ pc \in [Thread -> Label]
    /\ op \in [Thread -> Op]
    /\ src \in [Thread -> {"none", "shadow", "black"}]
    /\ rect \in [Thread -> RectType]
    /\ frame = [t \in Thread |-> frame[t]]
    /\ turned \subseteq Thread
TFrame == IsFrame(slot) /\ IsFrame(waiting) /\ \A t \in Thread : IsFrame(frame[t])
TRect == \A t \in Thread : pc[t] \in Sending => IsRect(rect[t])
TypeInv == TData /\ TMode /\ TFlag /\ TThread /\ TFrame /\ TRect

(* The mode has the panel's pixels.                                        *)
LEMMA SizeFacts ==
    ASSUME TMode
    PROVE  /\ width \in Nat \ {0} /\ height \in Nat \ {0} /\ <<width, height>> \in {<<W, H>>, <<H, W>>}
           /\ Pixel = 0 .. width * height - 1
           /\ WholeRect = Whole(width, height)
           /\ WholeRect \in RectType /\ IsRect(WholeRect) /\ NoRect \in RectType
<1>1. /\ width \in Nat \ {0} /\ height \in Nat \ {0}
      /\ <<width, height>> \in {<<W, H>>, <<H, W>>}
  BY SizeAssumption DEF TMode
<1>2. width * height = W * H
  BY <1>1, SizeAssumption
<1> QED BY <1>1, <1>2 DEF Pixel, WholeRect, Whole, RectType, IsRect, NoRect

(* A thread that moves on keeps the types of the thread variables,         *)
LEMMA GotoType ==
    ASSUME TThread, TRect, NEW t \in Thread, NEW l \in Label, Goto(t, l), NEW r \in RectType,
           rect' = [rect EXCEPT ![t] = r], l \in Sending => IsRect(r)
    PROVE  TThread' /\ TRect'
<1>1. /\ pc' \in [Thread -> Label] /\ rect' \in [Thread -> RectType]
      /\ pc'[t] = l /\ rect'[t] = r
      /\ \A u \in Thread \ {t} : pc'[u] = pc[u] /\ rect'[u] = rect[u]
  BY DEF TThread, Goto
<1>2. UNCHANGED <<op, src, frame, turned>>
  BY DEF Goto
<1>3. TRect'
  BY <1>1 DEF TRect, IsRect
<1> QED BY <1>1, <1>2, <1>3 DEF TThread

(* so does one that enters a handler,                                      *)
LEMMA BeginType ==
    ASSUME TThread, TRect, NEW t \in Thread, NEW o \in Op, NEW l \in Label, NEW r \in RectType,
           Begin(t, o, l, r), l \in Sending => IsRect(r)
    PROVE  TThread' /\ TRect'
<1>1. /\ pc' \in [Thread -> Label] /\ rect' \in [Thread -> RectType]
      /\ op' \in [Thread -> Op]
      /\ pc'[t] = l /\ rect'[t] = r
      /\ \A u \in Thread \ {t} : pc'[u] = pc[u] /\ rect'[u] = rect[u]
  BY DEF TThread, Begin
<1>2. UNCHANGED <<src, frame>> /\ turned' \subseteq Thread
  BY DEF Begin, Busy, TThread
<1>3. TRect'
  BY <1>1 DEF TRect, IsRect
<1> QED BY <1>1, <1>2, <1>3 DEF TThread

(* and one that leaves it.                                                 *)
LEMMA ReturnType ==
    ASSUME TThread, TRect, TFrame, NEW t \in Thread, Return(t), UNCHANGED <<slot, waiting, setup>>
    PROVE  TThread' /\ TRect' /\ TFrame'
<1>1. /\ pc' \in [Thread -> Label] /\ rect' \in [Thread -> RectType]
      /\ op' \in [Thread -> Op] /\ src' \in [Thread -> {"none", "shadow", "black"}]
      /\ pc'[t] = "out"
      /\ \A u \in Thread \ {t} : pc'[u] = pc[u] /\ rect'[u] = rect[u]
  BY DEF TThread, Return, Label, NoRect, Op, RectType
<1>2. frame' = [frame EXCEPT ![t] = NoFrame]
  BY DEF Return
<1>3. /\ frame' = [u \in Thread |-> frame'[u]] /\ frame'[t] = NoFrame
      /\ \A u \in Thread \ {t} : frame'[u] = frame[u]
  BY <1>2 DEF TThread
<1>4. TRect'
  BY <1>1 DEF TRect, Sending, IsRect
<1>5. TFrame'
  BY <1>3 DEF TFrame, IsFrame, Colour, IsRect
<1>6. turned' \subseteq Thread
  BY DEF Return, TThread
<1> QED BY <1>1, <1>3, <1>4, <1>5, <1>6 DEF TThread

(* A clip that is not empty once confined lies in the mode.                *)
LEMMA SafeFacts ==
    ASSUME TMode, NEW q \in RectType
    PROVE  /\ Safe(q) \in RectType
           /\ clip_valid(Safe(q)) => IsRect(Safe(q)) /\ InsideOf(Safe(q), width, height)
<1>1. width \in Nat /\ height \in Nat
  BY SizeFacts
<1>2. Safe(q) = [x |-> Greatest(q.x, 0), y |-> Greatest(q.y, 0),
                 w |-> Least(q.x + q.w, width) - Greatest(q.x, 0),
                 h |-> Least(q.y + q.h, height) - Greatest(q.y, 0)]
  BY DEF Safe, AsRect
<1>3. q.x \in Int /\ q.y \in Int /\ q.w \in Int /\ q.h \in Int
  BY DEF RectType
<1>4. /\ Greatest(q.x, 0) \in Nat /\ Greatest(q.y, 0) \in Nat
      /\ Least(q.x + q.w, width) \in Int /\ Least(q.y + q.h, height) \in Int
      /\ Least(q.x + q.w, width) <= width /\ Least(q.y + q.h, height) <= height
  BY <1>1, <1>3 DEF Greatest, Least
<1>5. Safe(q) \in RectType
  BY <1>2, <1>4 DEF RectType
<1>6. ASSUME clip_valid(Safe(q))
      PROVE  IsRect(Safe(q)) /\ InsideOf(Safe(q), width, height)
  BY <1>1, <1>2, <1>4, <1>6 DEF clip_valid, IsRect, InsideOf
<1> QED BY <1>5, <1>6

(* One lemma per action: types after it.                                   *)
LEMMA TypeFbMarkDirty ==
    ASSUME NEW t \in Thread, TypeInv, FbMarkDirty(t)
    PROVE  TypeInv'
<1>1. TData'
  <2> DEFINE r == Safe(rect[t])
  <2>1. UNCHANGED <<setup, sleeps, drawn, fb, panel>>
    BY DEF FbMarkDirty, setupVars, drawVars, mailVars
  <2>2. CASE shadow' = shadow
    BY <2>1, <2>2 DEF TypeInv, TData, Picture, Colour, FbType
  <2>3. CASE clip_valid(r) /\ CopyFits(r) /\ shadow' = Copied(r)
    <3>1. rect[t] \in RectType
      BY DEF TypeInv, TThread
    <3>2. InsideOf(r, width, height)
      BY <2>3, <3>1, SafeFacts DEF TypeInv
    <3>3. /\ native_rotation \in Rotation /\ fb.px \in [Pixel -> Colour]
          /\ shadow \in [Pixel -> Colour]
      BY DEF TypeInv, TMode, TData, FbType, Picture
    <3>4. width \in Nat /\ r.w \in Nat \ {0} /\ r.h \in Nat \ {0} /\ r.w <= width
      BY <3>2, SizeFacts DEF TypeInv, InsideOf
    <3> HIDE DEF r
    <3>5. Copied(r) \in [Pixel -> Colour]
      BY <2>3, <3>3, <3>4, CopiedTyped
    <3> QED BY <2>1, <2>3, <3>5 DEF TypeInv, TData, Picture, Colour, FbType
  <2> QED BY <2>2, <2>3 DEF FbMarkDirty
<1>2. TMode'
  BY DEF TypeInv, TMode, FbMarkDirty, setupVars, drawVars, modeVars,
         flipVars, stateVars, mailVars
<1>3. TFlag'
  <2>1. /\ UNCHANGED <<setupVars, drawVars, modeVars, data, black_live>>
        /\ UNCHANGED <<flipVars, stateVars, mailVars>>
    BY DEF FbMarkDirty
  <2>2. erased' \subseteq Pixel
    BY DEF FbMarkDirty, TypeInv, TFlag
  <2>3. CopyCause(t) \in Cause
    BY DEF CopyCause, Cause
  <2>4. stray' \subseteq Cause
    BY <2>3 DEF FbMarkDirty, TypeInv, TFlag
  <2> QED BY <2>1, <2>2, <2>4 DEF TypeInv, TFlag, setupVars, drawVars, modeVars,
                      flipVars, stateVars, mailVars
<1>4. TThread' /\ TRect'
  <2> DEFINE r == Safe(rect[t])
  <2>1. rect[t] \in RectType /\ rect \in [Thread -> RectType]
    BY DEF TypeInv, TThread
  <2>2. CASE clip_valid(r) /\ Goto(t, "request") /\ rect' = [rect EXCEPT ![t] = r]
    <3>1. r \in RectType /\ IsRect(r)
      BY <2>1, <2>2, SafeFacts DEF TypeInv
    <3> HIDE DEF r
    <3> QED BY <2>2, <3>1, GotoType DEF TypeInv, Label
  <2>3. CASE Goto(t, "finish") /\ rect' = rect
    <3>1. rect' = [rect EXCEPT ![t] = rect[t]]
      BY <2>1, <2>3
    <3> QED BY <2>1, <2>3, <3>1, GotoType DEF TypeInv, Label, Sending
  <2> QED BY <2>2, <2>3 DEF FbMarkDirty
<1>5. TFrame'
  BY DEF TypeInv, TFrame, FbMarkDirty, Goto, IsFrame, IsRect, NoFrame,
         Colour, setupVars, drawVars, modeVars, flipVars, stateVars, mailVars
<1> QED BY <1>1, <1>2, <1>3, <1>4, <1>5 DEF TypeInv

LEMMA TypeRequestUpdate ==
    ASSUME NEW t \in Thread, TypeInv, RequestUpdate(t)
    PROVE  TypeInv'
<1>1. TData'
  BY DEF TypeInv, TData, RequestUpdate, ClearData, FbType, Picture,
         Colour, setupVars, drawVars, modeVars, bufVars, flipVars, stateVars,
         mailVars
<1>2. TMode'
  BY DEF TypeInv, TMode, RequestUpdate, setupVars, drawVars, modeVars,
         bufVars, flipVars, stateVars, mailVars
<1>3. TFlag'
  BY DEF TypeInv, TFlag, RequestUpdate, ClearData, setupVars, drawVars,
         modeVars, bufVars, flipVars, stateVars, mailVars
<1>4. TThread' /\ TRect'
  <2>0. /\ pc \in [Thread -> Label] /\ rect \in [Thread -> RectType]
        /\ src \in [Thread -> {"none", "shadow", "black"}] /\ data \in {"shadow", "black"}
        /\ WholeRect \in RectType /\ IsRect(WholeRect) /\ TRect
    BY SizeFacts DEF TypeInv, TThread, TFlag
  <2>1. op' = op /\ frame' = frame /\ turned' = turned /\ pc[t] = "request"
    BY DEF RequestUpdate, At
  <2>2. CASE pc' = [pc EXCEPT ![t] = "finish"] /\ UNCHANGED <<rect, src>>
    <3>1. TRect'
      BY <2>0, <2>2 DEF TRect, Sending, IsRect
    <3> QED BY <2>0, <2>1, <2>2, <3>1 DEF TypeInv, TThread, Label
  <2>3. CASE /\ pc' = [pc EXCEPT ![t] = "snap"]
             /\ rect' = [rect EXCEPT ![t] = IF disable_partial THEN WholeRect ELSE @]
             /\ src' = [src EXCEPT ![t] = data]
    <3>1. /\ rect'[t] = WholeRect \/ rect'[t] = rect[t]
          /\ \A u \in Thread \ {t} : rect'[u] = rect[u] /\ pc'[u] = pc[u]
      BY <2>0, <2>3
    <3>2. IsRect(rect[t])
      BY <2>0, <2>1 DEF TRect, Sending
    <3>3. TRect'
      BY <2>0, <3>1, <3>2 DEF TRect, IsRect
    <3>4. rect' \in [Thread -> RectType] /\ pc' \in [Thread -> Label]
          /\ src' \in [Thread -> {"none", "shadow", "black"}]
      BY <2>0, <2>3 DEF Label
    <3> QED BY <2>1, <3>3, <3>4 DEF TypeInv, TThread
  <2> QED BY <2>2, <2>3 DEF RequestUpdate
<1>5. TFrame'
  BY DEF TypeInv, TFrame, RequestUpdate, IsFrame, IsRect, NoFrame, Colour,
         setupVars, drawVars, modeVars, bufVars, flipVars, stateVars, mailVars
<1> QED BY <1>1, <1>2, <1>3, <1>4, <1>5 DEF TypeInv

LEMMA TypeSendFrame ==
    ASSUME NEW t \in Thread, TypeInv, SendFrame(t)
    PROVE  TypeInv'
<1>1. TData'
  BY DEF TypeInv, TData, SendFrame, ClearData, FbType, Picture, Colour,
         setupVars, drawVars, modeVars, flipVars, stateVars
<1>2. TMode'
  BY DEF TypeInv, TMode, SendFrame, setupVars, drawVars, modeVars,
         flipVars, stateVars
<1>3. TFlag'
  <2>1. UNCHANGED <<blanked, pipe_on, suspended, is_idle, black_live, data, event,
                    core_vblank, vblank_enabled, was_enabled, erased>>
    BY DEF SendFrame, flipVars, stateVars
  <2>2. missed' \subseteq Pixel
    BY DEF SendFrame, TypeInv, TFlag
  <2>3. ReadCauses(t) \subseteq Cause
    BY DEF ReadCauses, Cause
  <2>4. stray' \subseteq Cause
    BY <2>3 DEF SendFrame, TypeInv, TFlag
  <2> QED BY <2>1, <2>2, <2>4 DEF TypeInv, TFlag
<1>4. TThread'
  <2>1. UNCHANGED <<op, src, rect, turned>>
    BY DEF SendFrame, Goto
  <2>2. pc' \in [Thread -> Label]
    BY DEF SendFrame, Goto, TypeInv, TThread, Label
  <2>3. frame' = [u \in Thread |-> frame'[u]]
    BY DEF SendFrame, Goto, TypeInv, TThread
  <2> QED BY <2>1, <2>2, <2>3 DEF TypeInv, TThread
<1>5. TFrame'
  <2>1. UNCHANGED <<setup, slot, waiting>>
    BY DEF SendFrame, setupVars
  <2>2. CASE frame' = frame
    BY <2>1, <2>2 DEF TypeInv, TFrame, IsFrame, IsRect, NoFrame, Colour
  <2>3. CASE ~Rejected(rect[t]) /\ frame' = [frame EXCEPT ![t] = FrameOf(rect[t], Contents(src[t]))]
    <3> DEFINE r == rect[t]
               f == FrameOf(r, Contents(src[t]))
    <3>1. IsRect(r)
      BY DEF SendFrame, At, TypeInv, TRect, Sending
    <3>2. /\ f.full \in BOOLEAN /\ f.at = r /\ f.px = Pixels(r, Contents(src[t]))
          /\ f.fy = IF IsFull(r) THEN 0 ELSE FlippedY(r)
      BY DEF FrameOf, IsFull
    <3>3. f.fy \in Nat
      <4>1. FlippedY(r) \in Int
        BY <3>1, SizeAssumption DEF FlippedY, IsRect
      <4>2. IsFull(r) \/ ~(FlippedY(r) < 0)
        BY <2>3 DEF Rejected
      <4> QED BY <3>2, <4>1, <4>2
    <3>4. Contents(src[t]) \in [Pixel -> Colour]
      <4>1. 0 \in Colour
        BY SetupAssumption DEF TypeInv, TData, Colour
      <4> QED BY <4>1 DEF Contents, AllBlack, TypeInv, TData, Picture
    <3>5. f.px \in [0 .. r.w * r.h - 1 -> Colour]
      <4>1. 0 \in Colour
        BY SetupAssumption DEF TypeInv, TData, Colour
      <4> HIDE DEF f
      <4> DEFINE b == Contents(src[t])
      <4> HIDE DEF b
      <4>2. Pixels(r, b) \in [0 .. r.w * r.h - 1 -> Colour]
        BY <3>4, <4>1 DEF Pixels, b
      <4> QED BY <3>2, <4>2 DEF b
    <3> HIDE DEF f
    <3>6. IsFrame(f)
      BY <3>1, <3>2, <3>3, <3>5 DEF IsFrame
    <3>7. frame'[t] = f /\ \A u \in Thread \ {t} : frame'[u] = frame[u]
      BY <2>3 DEF TypeInv, TThread, f
    <3>8. \A u \in Thread : IsFrame(frame'[u])
      BY <3>6, <3>7 DEF TypeInv, TFrame
    <3> QED BY <2>1, <3>8 DEF TypeInv, TFrame, IsFrame, IsRect, NoFrame, Colour
  <2> QED BY <2>2, <2>3 DEF SendFrame, Goto, FrameOf
<1>6. TRect'
  <2>1. rect' = rect /\ pc[t] = "snap" /\ pc \in [Thread -> Label]
    BY DEF SendFrame, At, TypeInv, TThread
  <2>2. \A u \in Thread \ {t} : pc'[u] = pc[u]
    BY <2>1 DEF SendFrame, Goto
  <2> QED BY <2>1, <2>2 DEF TypeInv, TRect, Sending, IsRect
<1> QED BY <1>1, <1>2, <1>3, <1>4, <1>5, <1>6 DEF TypeInv

LEMMA TypeOffer ==
    ASSUME NEW t \in Thread, TypeInv, Offer(t)
    PROVE  TypeInv'
<1>1. TData'
  BY DEF TypeInv, TData, Offer, ClearData, FbType, Picture, Colour,
         setupVars, drawVars, modeVars, bufVars, flipVars, stateVars
<1>2. TMode'
  BY DEF TypeInv, TMode, Offer, setupVars, drawVars, modeVars, bufVars,
         flipVars, stateVars
<1>3. TFlag'
  <2>0. Shows(waiting) \subseteq Pixel
    BY DEF Shows
  <2>1. missed' \subseteq Pixel
    BY <2>0 DEF Offer, TypeInv, TFlag
  <2>2. UNCHANGED <<blanked, pipe_on, suspended, is_idle, black_live, stray, data, event,
                    core_vblank, vblank_enabled, was_enabled, erased>>
    BY DEF Offer, bufVars, flipVars, stateVars
  <2> QED BY <2>1, <2>2 DEF TypeInv, TFlag
<1>4. TThread' /\ TRect'
  <2>1. Goto(t, "finish") /\ rect' = rect /\ rect \in [Thread -> RectType]
    BY DEF Offer, TypeInv, TThread
  <2>2. rect' = [rect EXCEPT ![t] = rect[t]] /\ rect[t] \in RectType
    BY <2>1
  <2> QED BY <2>1, <2>2, GotoType DEF TypeInv, Label, Sending
<1>5. TFrame'
  BY DEF TypeInv, TFrame, Offer, Goto, IsFrame, IsRect, NoFrame, Colour,
         setupVars, drawVars, modeVars, bufVars, flipVars, stateVars
<1> QED BY <1>1, <1>2, <1>3, <1>4, <1>5 DEF TypeInv

LEMMA TypeFinishUpdate ==
    ASSUME TypeInv, FinishUpdate
    PROVE  TypeInv'
<1>1. TData'
  BY DEF TypeInv, TData, FinishUpdate, ClearData, FbType, Picture, Colour,
         setupVars, drawVars, modeVars, bufVars, stateVars, mailVars
<1>2. TMode'
  BY DEF TypeInv, TMode, FinishUpdate, setupVars, drawVars, modeVars,
         bufVars, stateVars, mailVars
<1>3. TFlag'
  BY DEF TypeInv, TFlag, FinishUpdate, ClearData, setupVars, drawVars,
         modeVars, bufVars, stateVars, mailVars
<1>4. TThread' /\ TFrame' /\ TRect'
  <2>1. Return("drm") /\ UNCHANGED <<slot, waiting, setup>>
    BY DEF FinishUpdate, setupVars, drawVars, modeVars, bufVars,
           stateVars, mailVars
  <2> QED BY <2>1, ReturnType DEF TypeInv, Thread
<1> QED BY <1>1, <1>2, <1>3, <1>4 DEF TypeInv

LEMMA TypeFinishDisable ==
    ASSUME TypeInv, FinishDisable
    PROVE  TypeInv'
<1>1. TData'
  BY DEF TypeInv, TData, FinishDisable, ClearData, FbType, Picture,
         Colour, setupVars, drawVars, modeVars, mailVars
<1>2. TMode'
  BY DEF TypeInv, TMode, FinishDisable, setupVars, drawVars, modeVars, mailVars
<1>3. TFlag'
  BY DEF TypeInv, TFlag, FinishDisable, ClearData, setupVars, drawVars,
         modeVars, mailVars
<1>4. TThread' /\ TFrame' /\ TRect'
  <2>1. Return("drm") /\ UNCHANGED <<slot, waiting, setup>>
    BY DEF FinishDisable, setupVars, drawVars, modeVars, mailVars
  <2> QED BY <2>1, ReturnType DEF TypeInv, Thread
<1> QED BY <1>1, <1>2, <1>3, <1>4 DEF TypeInv

LEMMA TypeFinishEnable ==
    ASSUME TypeInv, FinishEnable
    PROVE  TypeInv'
<1>1. TData'
  BY DEF TypeInv, TData, FinishEnable, ClearData, FbType, Picture, Colour,
         setupVars, drawVars, modeVars, bufVars, stateVars, mailVars
<1>2. TMode'
  BY DEF TypeInv, TMode, FinishEnable, setupVars, drawVars, modeVars,
         bufVars, stateVars, mailVars
<1>3. TFlag'
  BY DEF TypeInv, TFlag, FinishEnable, ClearData, setupVars, drawVars,
         modeVars, bufVars, stateVars, mailVars
<1>4. TThread' /\ TFrame' /\ TRect'
  <2>1. Return("drm") /\ UNCHANGED <<slot, waiting, setup>>
    BY DEF FinishEnable, setupVars, drawVars, modeVars, bufVars,
           stateVars, mailVars
  <2> QED BY <2>1, ReturnType DEF TypeInv, Thread
<1> QED BY <1>1, <1>2, <1>3, <1>4 DEF TypeInv

LEMMA TypeScreenWake ==
    ASSUME TypeInv, ScreenWake
    PROVE  TypeInv'
<1>1. TData'
  BY DEF TypeInv, TData, ScreenWake, ClearData, FbType, Picture, Colour,
         setupVars, drawVars, modeVars, bufVars, flipVars, stateVars, mailVars
<1>2. TMode'
  BY DEF TypeInv, TMode, ScreenWake, setupVars, drawVars, modeVars,
         bufVars, flipVars, stateVars, mailVars
<1>3. TFlag'
  BY DEF TypeInv, TFlag, ScreenWake, ClearData, setupVars, drawVars,
         modeVars, bufVars, flipVars, stateVars, mailVars
<1>4. TThread' /\ TRect'
  <2>1. CASE blanked
    <3>1. Goto("wake", "finish") /\ rect' = rect /\ rect \in [Thread -> RectType]
      BY <2>1 DEF ScreenWake, TypeInv, TThread
    <3>2. rect' = [rect EXCEPT !["wake"] = rect["wake"]] /\ rect["wake"] \in RectType
      BY <3>1 DEF Thread
    <3> QED BY <3>1, <3>2, GotoType DEF TypeInv, Thread, Label, Sending
  <2>2. CASE ~blanked
    <3>1. Goto("wake", "request") /\ rect' = [rect EXCEPT !["wake"] = WholeRect]
      BY <2>2 DEF ScreenWake
    <3>2. WholeRect \in RectType /\ IsRect(WholeRect)
      BY SizeFacts DEF TypeInv
    <3> QED BY <3>1, <3>2, GotoType DEF TypeInv, Thread, Label
  <2> QED BY <2>1, <2>2
<1>5. TFrame'
  BY DEF TypeInv, TFrame, ScreenWake, Goto, IsFrame, IsRect, NoFrame,
         Colour, setupVars, drawVars, modeVars, bufVars, flipVars, stateVars,
         mailVars
<1> QED BY <1>1, <1>2, <1>3, <1>4, <1>5 DEF TypeInv

LEMMA TypeFinishWake ==
    ASSUME TypeInv, FinishWake
    PROVE  TypeInv'
<1>1. TData'
  BY DEF TypeInv, TData, FinishWake, ClearData, FbType, Picture, Colour,
         setupVars, drawVars, modeVars, bufVars, flipVars, stateVars, mailVars
<1>2. TMode'
  BY DEF TypeInv, TMode, FinishWake, setupVars, drawVars, modeVars,
         bufVars, flipVars, stateVars, mailVars
<1>3. TFlag'
  BY DEF TypeInv, TFlag, FinishWake, ClearData, setupVars, drawVars,
         modeVars, bufVars, flipVars, stateVars, mailVars
<1>4. TThread' /\ TFrame' /\ TRect'
  <2>1. Return("wake") /\ UNCHANGED <<slot, waiting, setup>>
    BY DEF FinishWake, setupVars, drawVars, modeVars, bufVars, flipVars,
           stateVars, mailVars
  <2> QED BY <2>1, ReturnType DEF TypeInv, Thread
<1> QED BY <1>1, <1>2, <1>3, <1>4 DEF TypeInv

LEMMA TypeRotationClear ==
    ASSUME TypeInv, RotationClear
    PROVE  TypeInv'
<1>1. TData'
  <2>1. UNCHANGED <<setup, drawn, fb, panel>> /\ sleeps' \in 0 .. MaxSleeps
    BY DEF RotationClear, setupVars, drawVars, mailVars, TypeInv, TData
  <2>2. shadow' \in Picture
    <3>1. AllBlack \in Picture
      <4>1. 0 \in Colour
        BY SetupAssumption DEF TypeInv, TData, Colour
      <4> QED BY <4>1 DEF AllBlack, Picture
    <3> QED BY <3>1 DEF RotationClear, ClearData, TypeInv, TData
  <2> QED BY <2>1, <2>2 DEF TypeInv, TData, Picture, Colour, FbType
<1>2. TMode'
  BY DEF TypeInv, TMode, RotationClear, setupVars, drawVars, modeVars,
         flipVars, stateVars, mailVars
<1>3. TFlag'
  BY DEF TypeInv, TFlag, RotationClear, ClearData, setupVars, drawVars,
         modeVars, flipVars, stateVars, mailVars
<1>4. TThread' /\ TRect'
  <2>1. Goto("sysfs", "request") /\ rect' = [rect EXCEPT !["sysfs"] = WholeRect]
    BY DEF RotationClear
  <2>2. WholeRect \in RectType /\ IsRect(WholeRect)
    BY SizeFacts DEF TypeInv
  <2> QED BY <2>1, <2>2, GotoType DEF TypeInv, Thread, Label
<1>5. TFrame'
  BY DEF TypeInv, TFrame, RotationClear, Goto, IsFrame, IsRect, NoFrame,
         Colour, setupVars, drawVars, modeVars, flipVars, stateVars, mailVars
<1> QED BY <1>1, <1>2, <1>3, <1>4, <1>5 DEF TypeInv

LEMMA TypeFinishRotation ==
    ASSUME TypeInv, FinishRotation
    PROVE  TypeInv'
<1>1. TData'
  BY DEF TypeInv, TData, FinishRotation, ClearData, FbType, Picture,
         Colour, setupVars, drawVars, modeVars, bufVars, flipVars, stateVars,
         mailVars
<1>2. TMode'
  BY DEF TypeInv, TMode, FinishRotation, setupVars, drawVars, modeVars,
         bufVars, flipVars, stateVars, mailVars
<1>3. TFlag'
  BY DEF TypeInv, TFlag, FinishRotation, ClearData, setupVars, drawVars,
         modeVars, bufVars, flipVars, stateVars, mailVars
<1>4. TThread' /\ TFrame' /\ TRect'
  <2>1. Return("sysfs") /\ UNCHANGED <<slot, waiting, setup>>
    BY DEF FinishRotation, setupVars, drawVars, modeVars, bufVars,
           flipVars, stateVars, mailVars
  <2> QED BY <2>1, ReturnType DEF TypeInv, Thread
<1> QED BY <1>1, <1>2, <1>3, <1>4 DEF TypeInv

LEMMA TypeFinishSuspend ==
    ASSUME TypeInv, FinishSuspend
    PROVE  TypeInv'
<1>1. TData'
  BY DEF TypeInv, TData, FinishSuspend, ClearData, FbType, Picture,
         Colour, setupVars, drawVars, modeVars, bufVars, flipVars, mailVars
<1>2. TMode'
  BY DEF TypeInv, TMode, FinishSuspend, setupVars, drawVars, modeVars,
         bufVars, flipVars, mailVars
<1>3. TFlag'
  BY DEF TypeInv, TFlag, FinishSuspend, ClearData, setupVars, drawVars,
         modeVars, bufVars, flipVars, mailVars
<1>4. TThread' /\ TFrame' /\ TRect'
  <2>1. Return("power") /\ UNCHANGED <<slot, waiting, setup>>
    BY DEF FinishSuspend, setupVars, drawVars, modeVars, bufVars,
           flipVars, mailVars
  <2> QED BY <2>1, ReturnType DEF TypeInv, Thread
<1> QED BY <1>1, <1>2, <1>3, <1>4 DEF TypeInv

LEMMA TypeFinishResume ==
    ASSUME TypeInv, FinishResume
    PROVE  TypeInv'
<1>1. TData'
  BY DEF TypeInv, TData, FinishResume, ClearData, FbType, Picture, Colour,
         setupVars, drawVars, modeVars, bufVars, stateVars, mailVars
<1>2. TMode'
  BY DEF TypeInv, TMode, FinishResume, setupVars, drawVars, modeVars,
         bufVars, stateVars, mailVars
<1>3. TFlag'
  BY DEF TypeInv, TFlag, FinishResume, ClearData, setupVars, drawVars,
         modeVars, bufVars, stateVars, mailVars
<1>4. TThread' /\ TFrame' /\ TRect'
  <2>1. Return("power") /\ UNCHANGED <<slot, waiting, setup>>
    BY DEF FinishResume, setupVars, drawVars, modeVars, bufVars,
           stateVars, mailVars
  <2> QED BY <2>1, ReturnType DEF TypeInv, Thread
<1> QED BY <1>1, <1>2, <1>3, <1>4 DEF TypeInv

LEMMA TypeDeliver ==
    ASSUME TypeInv, Deliver
    PROVE  TypeInv'
<1>1. TData'
  <2>1. UNCHANGED <<setup, sleeps, drawn, fb, shadow>>
    BY DEF Deliver, setupVars, drawVars, bufVars
  <2>2. IsFrame(slot) /\ slot # NoFrame
    BY DEF Deliver, TypeInv, TFrame
  <2> DEFINE k(i) == CHOOSE k \in FrameCells(slot) : PanelIndex(slot, k) = i
             to == [i \in Pixel |-> IF i \in Shows(slot) THEN slot.px[k(i)] ELSE panel[i]]
  <2>3. panel' = to
    BY DEF Deliver
  <2>4. ASSUME NEW i \in Shows(slot)
        PROVE  k(i) \in FrameCells(slot)
    BY DEF Shows
  <2>5. slot.px \in [FrameCells(slot) -> Colour]
    BY <2>2 DEF IsFrame, FrameCells
  <2> HIDE DEF k
  <2>6. to \in [Pixel -> Colour]
    BY <2>4, <2>5 DEF TypeInv, TData, Picture
  <2> HIDE DEF to
  <2> QED BY <2>1, <2>3, <2>6 DEF TypeInv, TData, Picture, Colour, FbType
<1>2. TMode'
  BY DEF TypeInv, TMode, Deliver, setupVars, drawVars, modeVars, bufVars,
         flipVars, stateVars, threadVars
<1>3. TFlag'
  BY DEF TypeInv, TFlag, Deliver, ClearData, setupVars, drawVars,
         modeVars, bufVars, flipVars, stateVars, threadVars
<1>4. TThread'
  BY DEF TypeInv, TThread, Deliver, setupVars, drawVars, modeVars,
         bufVars, flipVars, stateVars, threadVars
<1>5. TFrame'
  BY DEF TypeInv, TFrame, Deliver, IsFrame, IsRect, NoFrame, Colour,
         setupVars, drawVars, modeVars, bufVars, flipVars, stateVars,
         threadVars
<1>6. TRect'
  BY DEF TypeInv, TRect, Deliver, setupVars, drawVars, modeVars, bufVars,
         flipVars, stateVars, threadVars
<1> QED BY <1>1, <1>2, <1>3, <1>4, <1>5, <1>6 DEF TypeInv

LEMMA TypePipeUpdate ==
    ASSUME TypeInv, PipeUpdate
    PROVE  TypeInv'
<1>1. TData'
  <2>1. PICK c \in setup.damage :
          InFb(c) /\ Draw(c) /\ Begin("drm", "update", "copy", UpdateClip(c))
    BY DEF PipeUpdate
  <2>2. setup.commits \in Nat /\ drawn \in 0 .. setup.commits /\ fb \in FbType
    BY SetupAssumption DEF TypeInv, TData, Colour
  <2>3. drawn' \in 0 .. setup.commits
    BY <2>1, <2>2 DEF Draw
  <2>4. \A i \in Pixel : fb.px[i] \in 0 .. setup.commits
    BY <2>2 DEF FbType, Picture, Colour
  <2> DEFINE new == [i \in Pixel |->
                IF i % fb.w \in c.x1 .. c.x2 - 1 /\ i \div fb.w \in c.y1 .. c.y2 - 1
                THEN drawn' ELSE fb.px[i]]
  <2>5. new \in [Pixel -> 0 .. setup.commits]
    BY <2>3, <2>4
  <2>6. fb' = [fb EXCEPT !.px = new]
    BY <2>1 DEF Draw
  <2> HIDE DEF new
  <2>7. fb.w \in Nat /\ fb.h \in Nat /\ fb = [w |-> fb.w, h |-> fb.h, px |-> fb.px]
    BY <2>2 DEF FbType
  <2>8. fb' = [w |-> fb.w, h |-> fb.h, px |-> new]
    BY <2>6, <2>7
  <2>9. UNCHANGED <<setup, sleeps, shadow, panel>>
    BY DEF PipeUpdate, setupVars, bufVars, mailVars
  <2> QED BY <2>3, <2>5, <2>7, <2>8, <2>9
      DEF TypeInv, TData, FbType, Picture, Colour
<1>2. TMode'
  BY DEF TypeInv, TMode, PipeUpdate, setupVars, modeVars, bufVars,
         stateVars, mailVars
<1>3. TFlag'
  BY DEF TypeInv, TFlag, PipeUpdate, ClearData, setupVars, modeVars,
         bufVars, stateVars, mailVars
<1>4. TThread' /\ TRect'
  <2>1. PICK c \in setup.damage :
          InFb(c) /\ Draw(c) /\ Begin("drm", "update", "copy", UpdateClip(c))
    BY DEF PipeUpdate
  <2>2. {c.x1, c.y1, c.x2, c.y2} \subseteq Int
    BY SetupAssumption DEF TypeInv, TData
  <2>3. width \in Int /\ height \in Int
    BY SizeFacts DEF TypeInv
  <2>4. UpdateClip(c) \in RectType
    BY <2>2, <2>3 DEF UpdateClip, AsRect, WholePlane, RectType
  <2> QED BY <2>1, <2>4, BeginType DEF TypeInv, Thread, Op, Label, Sending
<1>5. TFrame'
  BY DEF TypeInv, TFrame, PipeUpdate, Begin, IsFrame, IsRect, NoFrame,
         Colour, setupVars, modeVars, bufVars, stateVars, mailVars
<1> QED BY <1>1, <1>2, <1>3, <1>4, <1>5 DEF TypeInv

LEMMA TypePipeUpdateNoDamage ==
    ASSUME TypeInv, PipeUpdateNoDamage
    PROVE  TypeInv'
<1>1. TData'
  BY DEF TypeInv, TData, PipeUpdateNoDamage, ClearData, Begin, FbType,
         Picture, Colour, setupVars, drawVars, modeVars, bufVars, stateVars,
         mailVars
<1>2. TMode'
  BY DEF TypeInv, TMode, PipeUpdateNoDamage, setupVars, drawVars,
         modeVars, bufVars, stateVars, mailVars
<1>3. TFlag'
  BY DEF TypeInv, TFlag, PipeUpdateNoDamage, ClearData, setupVars,
         drawVars, modeVars, bufVars, stateVars, mailVars
<1>4. TThread' /\ TRect'
  <2>1. Begin("drm", "update", "finish", NoRect)
    BY DEF PipeUpdateNoDamage
  <2>2. NoRect \in RectType /\ ("finish" \in Sending => IsRect(NoRect))
    BY SizeFacts DEF TypeInv, Sending
  <2> QED BY <2>1, <2>2, BeginType DEF TypeInv, Thread, Op, Label
<1>5. TFrame'
  BY DEF TypeInv, TFrame, PipeUpdateNoDamage, Begin, IsFrame, IsRect,
         NoFrame, Colour, setupVars, drawVars, modeVars, bufVars, stateVars,
         mailVars
<1> QED BY <1>1, <1>2, <1>3, <1>4, <1>5 DEF TypeInv

LEMMA TypePipeDisable ==
    ASSUME TypeInv, PipeDisable
    PROVE  TypeInv'
<1>1. TData'
  BY DEF TypeInv, TData, PipeDisable, ClearData, Begin, FbType, Picture,
         Colour, setupVars, drawVars, modeVars, mailVars
<1>2. TMode'
  BY DEF TypeInv, TMode, PipeDisable, setupVars, drawVars, modeVars, mailVars
<1>3. TFlag'
  BY DEF TypeInv, TFlag, PipeDisable, ClearData, setupVars, drawVars,
         modeVars, mailVars
<1>4. TThread' /\ TRect'
  <2>1. CASE Begin("drm", "disable", "request", WholeRect)
    <3>1. WholeRect \in RectType /\ IsRect(WholeRect)
      BY SizeFacts DEF TypeInv
    <3> QED BY <2>1, <3>1, BeginType DEF TypeInv, Thread, Op, Label
  <2>2. CASE Begin("drm", "disable", "finish", NoRect)
    <3>1. NoRect \in RectType
      BY SizeFacts DEF TypeInv
    <3> QED BY <2>2, <3>1, BeginType DEF TypeInv, Thread, Op, Label, Sending
  <2> QED BY <2>1, <2>2 DEF PipeDisable
<1>5. TFrame'
  BY DEF TypeInv, TFrame, PipeDisable, Begin, IsFrame, IsRect, NoFrame,
         Colour, setupVars, drawVars, modeVars, mailVars
<1> QED BY <1>1, <1>2, <1>3, <1>4, <1>5 DEF TypeInv

LEMMA TypePipeEnable ==
    ASSUME TypeInv, PipeEnable
    PROVE  TypeInv'
<1>1. TData'
  <2>1. UNCHANGED <<setup, sleeps, shadow, panel>>
    BY DEF PipeEnable, setupVars, bufVars, mailVars
  <2>2. CASE UNCHANGED drawVars
    BY <2>1, <2>2 DEF TypeInv, TData, drawVars, Picture, Colour, FbType
  <2>3. CASE /\ drawn < setup.commits /\ drawn' = drawn + 1
             /\ fb' = [w |-> width, h |-> height, px |-> [i \in Pixel |-> drawn']]
    <3>1. setup.commits \in Nat /\ drawn \in 0 .. setup.commits
      BY SetupAssumption DEF TypeInv, TData, Colour
    <3>2. drawn' \in 0 .. setup.commits
      BY <2>3, <3>1
    <3>3. [i \in Pixel |-> drawn'] \in [Pixel -> 0 .. setup.commits]
      BY <3>2
    <3>4. width \in Nat /\ height \in Nat /\ <<width, height>> \in {<<W, H>>, <<H, W>>}
      BY SizeFacts DEF TypeInv
    <3>5. fb' \in [w : Nat, h : Nat, px : [Pixel -> 0 .. setup.commits]]
      BY <2>3, <3>3, <3>4
    <3>6. <<fb'.w, fb'.h>> \in {<<W, H>>, <<H, W>>}
      BY <2>3, <3>4
    <3> QED BY <2>1, <3>2, <3>5, <3>6
        DEF TypeInv, TData, Picture, Colour, FbType
  <2> QED BY <2>2, <2>3 DEF PipeEnable
<1>2. TMode'
  BY DEF TypeInv, TMode, PipeEnable, setupVars, drawVars, modeVars,
         bufVars, mailVars
<1>3. TFlag'
  BY DEF TypeInv, TFlag, PipeEnable, ClearData, setupVars, drawVars,
         modeVars, bufVars, mailVars
<1>4. TThread' /\ TRect'
  <2> DEFINE r == [x |-> 0, y |-> 0, w |-> fb'.w, h |-> fb'.h]
  <2>1. Begin("drm", "enable", "copy", r)
    BY DEF PipeEnable
  <2>2. fb'.w \in Int /\ fb'.h \in Int
    BY <1>1 DEF TData, FbType
  <2>3. r \in RectType
    BY <2>2 DEF RectType
  <2> HIDE DEF r
  <2> QED BY <2>1, <2>3, BeginType DEF TypeInv, Thread, Op, Label, Sending
<1>5. TFrame'
  BY DEF TypeInv, TFrame, PipeEnable, Begin, IsFrame, IsRect, NoFrame,
         Colour, setupVars, drawVars, modeVars, bufVars, mailVars
<1> QED BY <1>1, <1>2, <1>3, <1>4, <1>5 DEF TypeInv

LEMMA TypeVblankTimer ==
    ASSUME TypeInv, VblankTimer
    PROVE  TypeInv'
<1>1. TData'
  BY DEF TypeInv, TData, VblankTimer, ClearData, FbType, Picture, Colour,
         setupVars, drawVars, modeVars, bufVars, stateVars, mailVars,
         threadVars
<1>2. TMode'
  BY DEF TypeInv, TMode, VblankTimer, setupVars, drawVars, modeVars,
         bufVars, stateVars, mailVars, threadVars
<1>3. TFlag'
  BY DEF TypeInv, TFlag, VblankTimer, ClearData, setupVars, drawVars,
         modeVars, bufVars, stateVars, mailVars, threadVars
<1>4. TThread'
  BY DEF TypeInv, TThread, VblankTimer, setupVars, drawVars, modeVars,
         bufVars, stateVars, mailVars, threadVars
<1>5. TFrame'
  BY DEF TypeInv, TFrame, VblankTimer, IsFrame, IsRect, NoFrame, Colour,
         setupVars, drawVars, modeVars, bufVars, stateVars, mailVars,
         threadVars
<1>6. TRect'
  BY DEF TypeInv, TRect, VblankTimer, setupVars, drawVars, modeVars,
         bufVars, stateVars, mailVars, threadVars
<1> QED BY <1>1, <1>2, <1>3, <1>4, <1>5, <1>6 DEF TypeInv

LEMMA TypeDisableVblank ==
    ASSUME TypeInv, DisableVblank
    PROVE  TypeInv'
<1>1. TData'
  BY DEF TypeInv, TData, DisableVblank, ClearData, FbType, Picture,
         Colour, setupVars, drawVars, modeVars, bufVars, stateVars, mailVars,
         threadVars
<1>2. TMode'
  BY DEF TypeInv, TMode, DisableVblank, setupVars, drawVars, modeVars,
         bufVars, stateVars, mailVars, threadVars
<1>3. TFlag'
  BY DEF TypeInv, TFlag, DisableVblank, ClearData, setupVars, drawVars,
         modeVars, bufVars, stateVars, mailVars, threadVars
<1>4. TThread'
  BY DEF TypeInv, TThread, DisableVblank, setupVars, drawVars, modeVars,
         bufVars, stateVars, mailVars, threadVars
<1>5. TFrame'
  BY DEF TypeInv, TFrame, DisableVblank, IsFrame, IsRect, NoFrame, Colour,
         setupVars, drawVars, modeVars, bufVars, stateVars, mailVars,
         threadVars
<1>6. TRect'
  BY DEF TypeInv, TRect, DisableVblank, setupVars, drawVars, modeVars,
         bufVars, stateVars, mailVars, threadVars
<1> QED BY <1>1, <1>2, <1>3, <1>4, <1>5, <1>6 DEF TypeInv

LEMMA TypeIdle ==
    ASSUME TypeInv, Idle
    PROVE  TypeInv'
<1>1. TData'
  BY DEF TypeInv, TData, Idle, ClearData, FbType, Picture, Colour,
         setupVars, drawVars, modeVars, bufVars, flipVars, mailVars,
         threadVars
<1>2. TMode'
  BY DEF TypeInv, TMode, Idle, setupVars, drawVars, modeVars, bufVars,
         flipVars, mailVars, threadVars
<1>3. TFlag'
  BY DEF TypeInv, TFlag, Idle, ClearData, setupVars, drawVars, modeVars,
         bufVars, flipVars, mailVars, threadVars
<1>4. TThread'
  BY DEF TypeInv, TThread, Idle, setupVars, drawVars, modeVars, bufVars,
         flipVars, mailVars, threadVars
<1>5. TFrame'
  BY DEF TypeInv, TFrame, Idle, IsFrame, IsRect, NoFrame, Colour,
         setupVars, drawVars, modeVars, bufVars, flipVars, mailVars,
         threadVars
<1>6. TRect'
  BY DEF TypeInv, TRect, Idle, setupVars, drawVars, modeVars, bufVars,
         flipVars, mailVars, threadVars
<1> QED BY <1>1, <1>2, <1>3, <1>4, <1>5, <1>6 DEF TypeInv

LEMMA TypeWake ==
    ASSUME TypeInv, Wake
    PROVE  TypeInv'
<1>1. TData'
  BY DEF TypeInv, TData, Wake, ClearData, Begin, FbType, Picture, Colour,
         setupVars, drawVars, modeVars, bufVars, flipVars, mailVars
<1>2. TMode'
  BY DEF TypeInv, TMode, Wake, setupVars, drawVars, modeVars, bufVars,
         flipVars, mailVars
<1>3. TFlag'
  BY DEF TypeInv, TFlag, Wake, ClearData, setupVars, drawVars, modeVars,
         bufVars, flipVars, mailVars
<1>4. TThread' /\ TRect'
  <2>1. Begin("wake", "wake", "check", NoRect)
    BY DEF Wake
  <2>2. NoRect \in RectType /\ ("check" \in Sending => IsRect(NoRect))
    BY SizeFacts DEF TypeInv, Sending
  <2> QED BY <2>1, <2>2, BeginType DEF TypeInv, Thread, Op, Label
<1>5. TFrame'
  BY DEF TypeInv, TFrame, Wake, Begin, IsFrame, IsRect, NoFrame, Colour,
         setupVars, drawVars, modeVars, bufVars, flipVars, mailVars
<1> QED BY <1>1, <1>2, <1>3, <1>4, <1>5 DEF TypeInv

LEMMA TypeRotationStore ==
    ASSUME TypeInv, RotationStore
    PROVE  TypeInv'
<1>1. TData'
  BY DEF TypeInv, TData, RotationStore, ClearData, Begin, FbType, Picture,
         Colour, setupVars, drawVars, bufVars, flipVars, stateVars, mailVars
<1>2. TMode'
  <2>1. PICK r \in setup.turns :
          /\ native_rotation' = r
          /\ width' = IF rotation_swaps_dims(r) THEN H ELSE W
          /\ height' = IF rotation_swaps_dims(r) THEN W ELSE H
    BY DEF RotationStore
  <2>2. r \in Rotation
    BY SetupAssumption DEF TypeInv, TData
  <2>3. disable_partial' = disable_partial
    BY DEF RotationStore
  <2> QED BY <2>1, <2>2, <2>3 DEF TypeInv, TMode, rotation_swaps_dims
<1>3. TFlag'
  BY DEF TypeInv, TFlag, RotationStore, ClearData, setupVars, drawVars,
         bufVars, flipVars, stateVars, mailVars
<1>4. TThread' /\ TRect'
  <2>1. Begin("sysfs", "rotate", "clear", NoRect)
    BY DEF RotationStore
  <2>2. NoRect \in RectType /\ ("clear" \in Sending => IsRect(NoRect))
    BY SizeFacts DEF TypeInv, Sending
  <2> QED BY <2>1, <2>2, BeginType DEF TypeInv, Thread, Op, Label
<1>5. TFrame'
  BY DEF TypeInv, TFrame, RotationStore, Begin, IsFrame, IsRect, NoFrame,
         Colour, setupVars, drawVars, bufVars, flipVars, stateVars, mailVars
<1> QED BY <1>1, <1>2, <1>3, <1>4, <1>5 DEF TypeInv

LEMMA TypeDisablePartialStore ==
    ASSUME TypeInv, DisablePartialStore
    PROVE  TypeInv'
<1>1. TData'
  BY DEF TypeInv, TData, DisablePartialStore, ClearData, FbType, Picture,
         Colour, setupVars, drawVars, bufVars, flipVars, stateVars, mailVars,
         threadVars
<1>2. TMode'
  BY DEF TypeInv, TMode, DisablePartialStore, setupVars, drawVars,
         bufVars, flipVars, stateVars, mailVars, threadVars
<1>3. TFlag'
  BY DEF TypeInv, TFlag, DisablePartialStore, ClearData, setupVars,
         drawVars, bufVars, flipVars, stateVars, mailVars, threadVars
<1>4. TThread'
  BY DEF TypeInv, TThread, DisablePartialStore, setupVars, drawVars,
         bufVars, flipVars, stateVars, mailVars, threadVars
<1>5. TFrame'
  BY DEF TypeInv, TFrame, DisablePartialStore, IsFrame, IsRect, NoFrame,
         Colour, setupVars, drawVars, bufVars, flipVars, stateVars, mailVars,
         threadVars
<1>6. TRect'
  BY DEF TypeInv, TRect, DisablePartialStore, setupVars, drawVars,
         bufVars, flipVars, stateVars, mailVars, threadVars
<1> QED BY <1>1, <1>2, <1>3, <1>4, <1>5, <1>6 DEF TypeInv

LEMMA TypeSuspend ==
    ASSUME TypeInv, Suspend
    PROVE  TypeInv'
<1>1. TData'
  <2>1. UNCHANGED <<setup, drawn, fb, panel>> /\ sleeps' \in 0 .. MaxSleeps
    BY BoundAssumption DEF Suspend, drawVars, mailVars, TypeInv, TData
  <2>2. shadow' \in Picture
    <3>1. AllBlack \in Picture
      <4>1. 0 \in Colour
        BY SetupAssumption DEF TypeInv, TData, Colour
      <4> QED BY <4>1 DEF AllBlack, Picture
    <3> QED BY <3>1 DEF Suspend, ClearData, TypeInv, TData
  <2> QED BY <2>1, <2>2 DEF TypeInv, TData, Picture, Colour, FbType
<1>2. TMode'
  BY DEF TypeInv, TMode, Suspend, drawVars, modeVars, stateVars, mailVars
<1>3. TFlag'
  BY DEF TypeInv, TFlag, Suspend, ClearData, drawVars, modeVars,
         stateVars, mailVars
<1>4. TThread' /\ TRect'
  <2>1. Begin("power", "suspend", "request", WholeRect)
    BY DEF Suspend
  <2>2. WholeRect \in RectType /\ ("request" \in Sending => IsRect(WholeRect))
    BY SizeFacts DEF TypeInv, Sending
  <2> QED BY <2>1, <2>2, BeginType DEF TypeInv, Thread, Op, Label
<1>5. TFrame'
  BY DEF TypeInv, TFrame, Suspend, Begin, IsFrame, IsRect, NoFrame,
         Colour, drawVars, modeVars, stateVars, mailVars
<1> QED BY <1>1, <1>2, <1>3, <1>4, <1>5 DEF TypeInv

LEMMA TypeResume ==
    ASSUME TypeInv, Resume
    PROVE  TypeInv'
<1>1. TData'
  BY DEF TypeInv, TData, Resume, ClearData, Begin, FbType, Picture,
         Colour, setupVars, drawVars, modeVars, bufVars, flipVars, mailVars
<1>2. TMode'
  BY DEF TypeInv, TMode, Resume, setupVars, drawVars, modeVars, bufVars,
         flipVars, mailVars
<1>3. TFlag'
  BY DEF TypeInv, TFlag, Resume, ClearData, setupVars, drawVars, modeVars,
         bufVars, flipVars, mailVars
<1>4. TThread' /\ TRect'
  <2>1. Begin("power", "resume", "request", WholeRect)
    BY DEF Resume
  <2>2. WholeRect \in RectType /\ ("request" \in Sending => IsRect(WholeRect))
    BY SizeFacts DEF TypeInv, Sending
  <2> QED BY <2>1, <2>2, BeginType DEF TypeInv, Thread, Op, Label
<1>5. TFrame'
  BY DEF TypeInv, TFrame, Resume, Begin, IsFrame, IsRect, NoFrame, Colour,
         setupVars, drawVars, modeVars, bufVars, flipVars, mailVars
<1> QED BY <1>1, <1>2, <1>3, <1>4, <1>5 DEF TypeInv

(* No step leaves the types.                                               *)
LEMMA TypeStep ==
    ASSUME TypeInv, [Next]_vars
    PROVE  TypeInv'
<1>1. ASSUME NEW t \in Thread, Step(t) PROVE TypeInv'
  BY <1>1, TypeFbMarkDirty, TypeRequestUpdate, TypeSendFrame, TypeOffer,
     TypeFinishUpdate, TypeFinishDisable, TypeFinishEnable, TypeScreenWake,
     TypeFinishWake, TypeRotationClear, TypeFinishRotation,
     TypeFinishSuspend, TypeFinishResume DEF Step
<1>2. CASE UNCHANGED vars
  BY <1>2, SMTT(60) DEF vars, TypeInv, TData, TMode, TFlag, TThread, TFrame, TRect,
              IsFrame, IsRect, FbType, Picture, Colour, NoFrame
<1> QED BY <1>1, <1>2, TypeDeliver, TypePipeUpdate, TypePipeUpdateNoDamage,
     TypePipeDisable, TypePipeEnable, TypeVblankTimer, TypeDisableVblank,
     TypeIdle, TypeWake, TypeRotationStore, TypeDisablePartialStore,
     TypeSuspend, TypeResume DEF Next

-----------------------------------------------------------------------------
(* Who is where.                                                           *)

(* Which thread is where, doing what.                                      *)
PcOk(t, o, l) ==
    /\ l = "out" <=> o = "none"
    /\ l = "copy" => t = "drm" /\ o \in {"update", "enable"}
    /\ l = "check" => t = "wake"
    /\ l = "clear" => t = "sysfs"
    /\ t = "drm" => o \in {"none", "update", "enable", "disable"}
    /\ t = "wake" => o \in {"none", "wake"}
    /\ t = "sysfs" => o \in {"none", "rotate"} /\ (o # "none" => "sysfs" \in setup.actors)
    /\ t = "power" => o \in {"none", "suspend", "resume"}

(* And only one is inside a handler unless handlers overlap.               *)
PcInv ==
    /\ \A t \in Thread : PcOk(t, op[t], pc[t])
    /\ ~setup.overlap => \A t, u \in Thread : t # u => pc[t] = "out" \/ pc[u] = "out"

(* A thread may go where PcOk lets it if it is alone or was inside before. *)
LEMMA PcMove ==
    ASSUME PcInv, NEW t \in Thread, NEW l \in Label, NEW o \in Op,
           pc \in [Thread -> Label], op \in [Thread -> Op],
           pc' = [pc EXCEPT ![t] = l], op' = [op EXCEPT ![t] = o], setup' = setup,
           PcOk(t, o, l),
           l = "out" \/ pc[t] # "out" \/ setup.overlap \/ Resting
    PROVE  PcInv'
<1>1. /\ pc'[t] = l /\ op'[t] = o
      /\ \A u \in Thread \ {t} : pc'[u] = pc[u] /\ op'[u] = op[u]
  OBVIOUS
<1>2. \A u \in Thread : PcOk(u, op[u], pc[u])
  BY DEF PcInv
<1>3. ASSUME NEW u \in Thread
      PROVE  PcOk(u, op[u], pc[u])'
  <2>1. CASE u = t
    BY <1>1, <2>1 DEF PcOk
  <2>2. CASE u # t
    BY <1>1, <1>2, <2>2 DEF PcOk
  <2> QED BY <2>1, <2>2
<1>4. ASSUME ~setup.overlap, NEW u \in Thread, NEW v \in Thread, u # v
      PROVE  pc'[u] = "out" \/ pc'[v] = "out"
  <2>1. \A a, b \in Thread : a # b => pc[a] = "out" \/ pc[b] = "out"
    BY <1>4 DEF PcInv
  <2>2. l = "out" \/ pc[t] # "out" \/ \A a \in Thread : pc[a] = "out"
    BY <1>4 DEF Resting, At
  <2> QED BY <1>1, <1>4, <2>1, <2>2
<1> QED BY <1>3, <1>4 DEF PcInv

(* Inside a handler: on to a place common to the threads;                  *)
LEMMA PcGoto ==
    ASSUME PcInv, NEW t \in Thread, NEW l \in Label \ {"out"}, pc[t] # "out",
           pc \in [Thread -> Label], op \in [Thread -> Op],
           pc' = [pc EXCEPT ![t] = l], op' = op, setup' = setup,
           l \notin {"copy", "check", "clear"}
    PROVE  PcInv'
<1>1. op' = [op EXCEPT ![t] = op[t]] /\ op[t] \in Op
  OBVIOUS
<1>2. PcOk(t, op[t], l)
  BY DEF PcInv, PcOk
<1> QED BY <1>1, <1>2, PcMove

(* back;                                                                   *)
LEMMA PcReturn ==
    ASSUME PcInv, NEW t \in Thread, Return(t),
           pc \in [Thread -> Label], op \in [Thread -> Op], setup' = setup
    PROVE  PcInv'
<1>1. PcOk(t, "none", "out")
  BY DEF PcOk
<1> QED BY <1>1, PcMove DEF Return, Label, Op

(* into a handler;                                                         *)
LEMMA PcBegin ==
    ASSUME PcInv, NEW t \in Thread, NEW o \in Op \ {"none"}, NEW l \in Label \ {"out"}, NEW r,
           Begin(t, o, l, r), MayStart(t),
           pc \in [Thread -> Label], op \in [Thread -> Op], setup' = setup, PcOk(t, o, l)
    PROVE  PcInv'
  BY PcMove DEF Begin, MayStart

(* nowhere.                                                                *)
LEMMA PcSame ==
    ASSUME PcInv, UNCHANGED <<pc, op, setup>>
    PROVE  PcInv'
  BY DEF PcInv, PcOk

(* One lemma per action: who is where after it.                            *)
LEMMA PcFbMarkDirty ==
    ASSUME NEW t \in Thread, TypeInv, PcInv, FbMarkDirty(t)
    PROVE  PcInv'
<1>1. pc \in [Thread -> Label] /\ op \in [Thread -> Op]
  BY DEF TypeInv, TThread
<1>2. setup' = setup /\ op' = op /\ pc[t] # "out"
  BY DEF FbMarkDirty, setupVars, Goto, At
<1>3. CASE pc' = [pc EXCEPT ![t] = "request"]
  BY <1>1, <1>2, <1>3, PcGoto DEF Thread, Label
<1>4. CASE pc' = [pc EXCEPT ![t] = "finish"]
  BY <1>1, <1>2, <1>4, PcGoto DEF Thread, Label
<1> QED BY <1>3, <1>4 DEF FbMarkDirty, Goto

LEMMA PcRequestUpdate ==
    ASSUME NEW t \in Thread, TypeInv, PcInv, RequestUpdate(t)
    PROVE  PcInv'
<1>1. pc \in [Thread -> Label] /\ op \in [Thread -> Op]
  BY DEF TypeInv, TThread
<1>2. setup' = setup /\ op' = op /\ pc[t] # "out"
  BY DEF RequestUpdate, setupVars, At
<1>3. CASE pc' = [pc EXCEPT ![t] = "snap"]
  BY <1>1, <1>2, <1>3, PcGoto DEF Thread, Label
<1>4. CASE pc' = [pc EXCEPT ![t] = "finish"]
  BY <1>1, <1>2, <1>4, PcGoto DEF Thread, Label
<1> QED BY <1>3, <1>4 DEF RequestUpdate

LEMMA PcSendFrame ==
    ASSUME NEW t \in Thread, TypeInv, PcInv, SendFrame(t)
    PROVE  PcInv'
<1>1. pc \in [Thread -> Label] /\ op \in [Thread -> Op]
  BY DEF TypeInv, TThread
<1>2. setup' = setup /\ op' = op /\ pc[t] # "out"
  BY DEF SendFrame, setupVars, Goto, At
<1>3. CASE pc' = [pc EXCEPT ![t] = "offer"]
  BY <1>1, <1>2, <1>3, PcGoto DEF Thread, Label
<1>4. CASE pc' = [pc EXCEPT ![t] = "finish"]
  BY <1>1, <1>2, <1>4, PcGoto DEF Thread, Label
<1> QED BY <1>3, <1>4 DEF SendFrame, Goto

LEMMA PcOffer ==
    ASSUME NEW t \in Thread, TypeInv, PcInv, Offer(t)
    PROVE  PcInv'
<1>1. pc \in [Thread -> Label] /\ op \in [Thread -> Op]
  BY DEF TypeInv, TThread
<1>2. setup' = setup /\ op' = op /\ pc[t] # "out"
  BY DEF Offer, setupVars, Goto, At
<1>3. CASE pc' = [pc EXCEPT ![t] = "finish"]
  BY <1>1, <1>2, <1>3, PcGoto DEF Thread, Label
<1> QED BY <1>3 DEF Offer, Goto

LEMMA PcFinishUpdate ==
    ASSUME TypeInv, PcInv, FinishUpdate
    PROVE  PcInv'
<1>1. pc \in [Thread -> Label] /\ op \in [Thread -> Op]
  BY DEF TypeInv, TThread
<1>2. Return("drm") /\ setup' = setup
  BY DEF FinishUpdate, setupVars
<1> QED BY <1>1, <1>2, PcReturn DEF Thread

LEMMA PcFinishDisable ==
    ASSUME TypeInv, PcInv, FinishDisable
    PROVE  PcInv'
<1>1. pc \in [Thread -> Label] /\ op \in [Thread -> Op]
  BY DEF TypeInv, TThread
<1>2. Return("drm") /\ setup' = setup
  BY DEF FinishDisable, setupVars
<1> QED BY <1>1, <1>2, PcReturn DEF Thread

LEMMA PcFinishEnable ==
    ASSUME TypeInv, PcInv, FinishEnable
    PROVE  PcInv'
<1>1. pc \in [Thread -> Label] /\ op \in [Thread -> Op]
  BY DEF TypeInv, TThread
<1>2. Return("drm") /\ setup' = setup
  BY DEF FinishEnable, setupVars
<1> QED BY <1>1, <1>2, PcReturn DEF Thread

LEMMA PcScreenWake ==
    ASSUME TypeInv, PcInv, ScreenWake
    PROVE  PcInv'
<1>1. pc \in [Thread -> Label] /\ op \in [Thread -> Op]
  BY DEF TypeInv, TThread
<1>2. setup' = setup /\ op' = op /\ pc["wake"] # "out"
  BY DEF ScreenWake, setupVars, Goto, At
<1>3. CASE pc' = [pc EXCEPT !["wake"] = "finish"]
  BY <1>1, <1>2, <1>3, PcGoto DEF Thread, Label
<1>4. CASE pc' = [pc EXCEPT !["wake"] = "request"]
  BY <1>1, <1>2, <1>4, PcGoto DEF Thread, Label
<1> QED BY <1>3, <1>4 DEF ScreenWake, Goto

LEMMA PcFinishWake ==
    ASSUME TypeInv, PcInv, FinishWake
    PROVE  PcInv'
<1>1. pc \in [Thread -> Label] /\ op \in [Thread -> Op]
  BY DEF TypeInv, TThread
<1>2. Return("wake") /\ setup' = setup
  BY DEF FinishWake, setupVars
<1> QED BY <1>1, <1>2, PcReturn DEF Thread

LEMMA PcRotationClear ==
    ASSUME TypeInv, PcInv, RotationClear
    PROVE  PcInv'
<1>1. pc \in [Thread -> Label] /\ op \in [Thread -> Op]
  BY DEF TypeInv, TThread
<1>2. setup' = setup /\ op' = op /\ pc["sysfs"] # "out"
  BY DEF RotationClear, setupVars, Goto, At
<1>3. CASE pc' = [pc EXCEPT !["sysfs"] = "request"]
  BY <1>1, <1>2, <1>3, PcGoto DEF Thread, Label
<1> QED BY <1>3 DEF RotationClear, Goto

LEMMA PcFinishRotation ==
    ASSUME TypeInv, PcInv, FinishRotation
    PROVE  PcInv'
<1>1. pc \in [Thread -> Label] /\ op \in [Thread -> Op]
  BY DEF TypeInv, TThread
<1>2. Return("sysfs") /\ setup' = setup
  BY DEF FinishRotation, setupVars
<1> QED BY <1>1, <1>2, PcReturn DEF Thread

LEMMA PcFinishSuspend ==
    ASSUME TypeInv, PcInv, FinishSuspend
    PROVE  PcInv'
<1>1. pc \in [Thread -> Label] /\ op \in [Thread -> Op]
  BY DEF TypeInv, TThread
<1>2. Return("power") /\ setup' = setup
  BY DEF FinishSuspend, setupVars
<1> QED BY <1>1, <1>2, PcReturn DEF Thread

LEMMA PcFinishResume ==
    ASSUME TypeInv, PcInv, FinishResume
    PROVE  PcInv'
<1>1. pc \in [Thread -> Label] /\ op \in [Thread -> Op]
  BY DEF TypeInv, TThread
<1>2. Return("power") /\ setup' = setup
  BY DEF FinishResume, setupVars
<1> QED BY <1>1, <1>2, PcReturn DEF Thread

LEMMA PcDeliver ==
    ASSUME TypeInv, PcInv, Deliver
    PROVE  PcInv'
  BY PcSame DEF Deliver, setupVars, threadVars

LEMMA PcPipeUpdate ==
    ASSUME TypeInv, PcInv, PipeUpdate
    PROVE  PcInv'
<1>1. pc \in [Thread -> Label] /\ op \in [Thread -> Op]
  BY DEF TypeInv, TThread
<1>2. MayStart("drm") /\ setup' = setup
  BY DEF PipeUpdate, setupVars, MayCommit
<1>3. PICK c \in setup.damage : Begin("drm", "update", "copy", UpdateClip(c))
  BY DEF PipeUpdate
<1>4. PcOk("drm", "update", "copy")
  BY DEF PcOk
<1> QED BY <1>1, <1>2, <1>3, <1>4, PcBegin DEF Thread, Op, Label

LEMMA PcPipeUpdateNoDamage ==
    ASSUME TypeInv, PcInv, PipeUpdateNoDamage
    PROVE  PcInv'
<1>1. pc \in [Thread -> Label] /\ op \in [Thread -> Op]
  BY DEF TypeInv, TThread
<1>2. MayStart("drm") /\ setup' = setup
  BY DEF PipeUpdateNoDamage, setupVars, MayCommit
<1>3. PcOk("drm", "update", "finish")
  BY DEF PcOk
<1>4. CASE Begin("drm", "update", "finish", NoRect)
  BY <1>1, <1>2, <1>3, <1>4, PcBegin DEF Thread, Op, Label
<1> QED BY <1>4 DEF PipeUpdateNoDamage

LEMMA PcPipeDisable ==
    ASSUME TypeInv, PcInv, PipeDisable
    PROVE  PcInv'
<1>1. pc \in [Thread -> Label] /\ op \in [Thread -> Op]
  BY DEF TypeInv, TThread
<1>2. MayStart("drm") /\ setup' = setup
  BY DEF PipeDisable, setupVars, MayCommit
<1>3. PcOk("drm", "disable", "request")
  BY DEF PcOk
<1>4. CASE Begin("drm", "disable", "request", WholeRect)
  BY <1>1, <1>2, <1>3, <1>4, PcBegin DEF Thread, Op, Label
<1>5. PcOk("drm", "disable", "finish")
  BY DEF PcOk
<1>6. CASE Begin("drm", "disable", "finish", NoRect)
  BY <1>1, <1>2, <1>5, <1>6, PcBegin DEF Thread, Op, Label
<1> QED BY <1>4, <1>6 DEF PipeDisable

LEMMA PcPipeEnable ==
    ASSUME TypeInv, PcInv, PipeEnable
    PROVE  PcInv'
<1>1. pc \in [Thread -> Label] /\ op \in [Thread -> Op]
  BY DEF TypeInv, TThread
<1>2. MayStart("drm") /\ setup' = setup
  BY DEF PipeEnable, setupVars, MayCommit
<1>3. PcOk("drm", "enable", "copy")
  BY DEF PcOk
<1>4. CASE Begin("drm", "enable", "copy", [x |-> 0, y |-> 0, w |-> fb'.w, h |-> fb'.h])
  BY <1>1, <1>2, <1>3, <1>4, PcBegin DEF Thread, Op, Label
<1> QED BY <1>4 DEF PipeEnable

LEMMA PcVblankTimer ==
    ASSUME TypeInv, PcInv, VblankTimer
    PROVE  PcInv'
  BY PcSame DEF VblankTimer, setupVars, threadVars

LEMMA PcDisableVblank ==
    ASSUME TypeInv, PcInv, DisableVblank
    PROVE  PcInv'
  BY PcSame DEF DisableVblank, setupVars, threadVars

LEMMA PcIdle ==
    ASSUME TypeInv, PcInv, Idle
    PROVE  PcInv'
  BY PcSame DEF Idle, setupVars, threadVars

LEMMA PcWake ==
    ASSUME TypeInv, PcInv, Wake
    PROVE  PcInv'
<1>1. pc \in [Thread -> Label] /\ op \in [Thread -> Op]
  BY DEF TypeInv, TThread
<1>2. MayStart("wake") /\ setup' = setup
  BY DEF Wake, setupVars
<1>3. PcOk("wake", "wake", "check")
  BY DEF PcOk
<1>4. CASE Begin("wake", "wake", "check", NoRect)
  BY <1>1, <1>2, <1>3, <1>4, PcBegin DEF Thread, Op, Label
<1> QED BY <1>4 DEF Wake

LEMMA PcRotationStore ==
    ASSUME TypeInv, PcInv, RotationStore
    PROVE  PcInv'
<1>1. pc \in [Thread -> Label] /\ op \in [Thread -> Op]
  BY DEF TypeInv, TThread
<1>2. MayStart("sysfs") /\ setup' = setup
  BY DEF RotationStore, setupVars
<1>3. PcOk("sysfs", "rotate", "clear")
  BY DEF PcOk, RotationStore
<1>4. CASE Begin("sysfs", "rotate", "clear", NoRect)
  BY <1>1, <1>2, <1>3, <1>4, PcBegin DEF Thread, Op, Label
<1> QED BY <1>4 DEF RotationStore

LEMMA PcDisablePartialStore ==
    ASSUME TypeInv, PcInv, DisablePartialStore
    PROVE  PcInv'
  BY PcSame DEF DisablePartialStore, setupVars, threadVars

LEMMA PcSuspend ==
    ASSUME TypeInv, PcInv, Suspend
    PROVE  PcInv'
<1>1. pc \in [Thread -> Label] /\ op \in [Thread -> Op]
  BY DEF TypeInv, TThread
<1>2. MayStart("power") /\ setup' = setup
  BY DEF Suspend
<1>3. PcOk("power", "suspend", "request")
  BY DEF PcOk
<1>4. CASE Begin("power", "suspend", "request", WholeRect)
  BY <1>1, <1>2, <1>3, <1>4, PcBegin DEF Thread, Op, Label
<1> QED BY <1>4 DEF Suspend

LEMMA PcResume ==
    ASSUME TypeInv, PcInv, Resume
    PROVE  PcInv'
<1>1. pc \in [Thread -> Label] /\ op \in [Thread -> Op]
  BY DEF TypeInv, TThread
<1>2. MayStart("power") /\ setup' = setup
  BY DEF Resume, setupVars
<1>3. PcOk("power", "resume", "request")
  BY DEF PcOk
<1>4. CASE Begin("power", "resume", "request", WholeRect)
  BY <1>1, <1>2, <1>3, <1>4, PcBegin DEF Thread, Op, Label
<1> QED BY <1>4 DEF Resume

(* No step puts two threads into handlers that may not overlap.            *)
LEMMA PcStep ==
    ASSUME TypeInv, PcInv, [Next]_vars
    PROVE  PcInv'
<1>1. ASSUME NEW t \in Thread, Step(t) PROVE PcInv'
  BY <1>1, PcFbMarkDirty, PcRequestUpdate, PcSendFrame, PcOffer,
     PcFinishUpdate, PcFinishDisable, PcFinishEnable, PcScreenWake,
     PcFinishWake, PcRotationClear, PcFinishRotation, PcFinishSuspend,
     PcFinishResume DEF Step
<1>2. CASE UNCHANGED vars
  BY <1>2, PcSame DEF vars
<1> QED BY <1>1, <1>2, PcDeliver, PcPipeUpdate, PcPipeUpdateNoDamage,
     PcPipeDisable, PcPipeEnable, PcVblankTimer, PcDisableVblank, PcIdle,
     PcWake, PcRotationStore, PcDisablePartialStore, PcSuspend, PcResume
     DEF Next

-----------------------------------------------------------------------------
(* The black buffer of pipe_disable.                                       *)

(* The flag blanked is set when the pipe is off or going off, and only     *)
(* then can the black buffer be in the place of the shadow.                *)
BlankInv ==
    /\ blanked <=> (~pipe_on \/ op["drm"] = "disable")
    /\ op["drm"] # "disable" => data = "shadow"
    /\ op["drm"] # "none" => pipe_on

(* No step breaks the bookkeeping of blanking.                             *)
LEMMA BlankStep ==
    ASSUME TypeInv, PcInv, BlankInv, [Next]_vars
    PROVE  BlankInv'
<1>0. pc \in [Thread -> Label] /\ op \in [Thread -> Op] /\ \A u \in Thread : PcOk(u, op[u], pc[u])
  BY DEF TypeInv, TThread, PcInv
<1>1. ASSUME NEW t \in Thread, FbMarkDirty(t) PROVE BlankInv'
  BY <1>0, <1>1
     DEF BlankInv, FbMarkDirty, PcOk, Goto, At, Thread, setupVars,
         drawVars, modeVars, flipVars, stateVars, mailVars
<1>2. ASSUME NEW t \in Thread, RequestUpdate(t) PROVE BlankInv'
  BY <1>0, <1>2
     DEF BlankInv, RequestUpdate, PcOk, At, Thread, setupVars, drawVars,
         modeVars, bufVars, flipVars, stateVars, mailVars
<1>3. ASSUME NEW t \in Thread, SendFrame(t) PROVE BlankInv'
  BY <1>0, <1>3
     DEF BlankInv, SendFrame, PcOk, Goto, At, Thread, setupVars, drawVars,
         modeVars, flipVars, stateVars
<1>4. ASSUME NEW t \in Thread, Offer(t) PROVE BlankInv'
  BY <1>0, <1>4
     DEF BlankInv, Offer, PcOk, Goto, At, Thread, setupVars, drawVars,
         modeVars, bufVars, flipVars, stateVars
<1>5. CASE FinishUpdate
  BY <1>0, <1>5
     DEF BlankInv, FinishUpdate, PcOk, Return, At, Thread, setupVars,
         drawVars, modeVars, bufVars, stateVars, mailVars
<1>6. CASE FinishDisable
  BY <1>0, <1>6
     DEF BlankInv, FinishDisable, PcOk, Return, At, Thread, setupVars,
         drawVars, modeVars, mailVars
<1>7. CASE FinishEnable
  BY <1>0, <1>7
     DEF BlankInv, FinishEnable, PcOk, Return, At, Thread, setupVars,
         drawVars, modeVars, bufVars, stateVars, mailVars
<1>8. CASE ScreenWake
  BY <1>0, <1>8
     DEF BlankInv, ScreenWake, PcOk, Goto, At, Thread, setupVars,
         drawVars, modeVars, bufVars, flipVars, stateVars, mailVars
<1>9. CASE FinishWake
  BY <1>0, <1>9
     DEF BlankInv, FinishWake, PcOk, Return, At, Thread, setupVars,
         drawVars, modeVars, bufVars, flipVars, stateVars, mailVars
<1>10. CASE RotationClear
  BY <1>0, <1>10
     DEF BlankInv, RotationClear, PcOk, Goto, At, Thread, setupVars,
         drawVars, modeVars, flipVars, stateVars, mailVars
<1>11. CASE FinishRotation
  BY <1>0, <1>11
     DEF BlankInv, FinishRotation, PcOk, Return, At, Thread, setupVars,
         drawVars, modeVars, bufVars, flipVars, stateVars, mailVars
<1>12. CASE FinishSuspend
  BY <1>0, <1>12
     DEF BlankInv, FinishSuspend, PcOk, Return, At, Thread, setupVars,
         drawVars, modeVars, bufVars, flipVars, mailVars
<1>13. CASE FinishResume
  BY <1>0, <1>13
     DEF BlankInv, FinishResume, PcOk, Return, At, Thread, setupVars,
         drawVars, modeVars, bufVars, stateVars, mailVars
<1>14. CASE Deliver
  BY <1>0, <1>14
     DEF BlankInv, Deliver, PcOk, Thread, setupVars, drawVars, modeVars,
         bufVars, flipVars, stateVars, threadVars
<1>15. CASE PipeUpdate
  BY <1>0, <1>15
     DEF BlankInv, PipeUpdate, PcOk, Begin, MayCommit, MayStart, At,
         Thread, setupVars, modeVars, bufVars, stateVars, mailVars
<1>16. CASE PipeUpdateNoDamage
  BY <1>0, <1>16
     DEF BlankInv, PipeUpdateNoDamage, PcOk, Begin, MayCommit, MayStart,
         At, Thread, setupVars, drawVars, modeVars, bufVars, stateVars,
         mailVars
<1>17. CASE PipeDisable
  BY <1>0, <1>17
     DEF BlankInv, PipeDisable, PcOk, Begin, MayCommit, MayStart, At,
         Thread, setupVars, drawVars, modeVars, mailVars
<1>18. CASE PipeEnable
  BY <1>0, <1>18
     DEF BlankInv, PipeEnable, PcOk, Begin, MayCommit, MayStart, At,
         Thread, setupVars, drawVars, modeVars, bufVars, mailVars
<1>19. CASE VblankTimer
  BY <1>0, <1>19
     DEF BlankInv, VblankTimer, PcOk, Thread, setupVars, drawVars,
         modeVars, bufVars, stateVars, mailVars, threadVars
<1>20. CASE DisableVblank
  BY <1>0, <1>20
     DEF BlankInv, DisableVblank, PcOk, Thread, setupVars, drawVars,
         modeVars, bufVars, stateVars, mailVars, threadVars
<1>21. CASE Idle
  BY <1>0, <1>21
     DEF BlankInv, Idle, PcOk, Thread, setupVars, drawVars, modeVars,
         bufVars, flipVars, mailVars, threadVars
<1>22. CASE Wake
  BY <1>0, <1>22
     DEF BlankInv, Wake, PcOk, Begin, MayStart, At, Thread, setupVars,
         drawVars, modeVars, bufVars, flipVars, mailVars
<1>23. CASE RotationStore
  BY <1>0, <1>23
     DEF BlankInv, RotationStore, PcOk, Begin, MayStart, At, Thread,
         setupVars, drawVars, bufVars, flipVars, stateVars, mailVars
<1>24. CASE DisablePartialStore
  BY <1>0, <1>24
     DEF BlankInv, DisablePartialStore, PcOk, MayStart, At, Thread,
         setupVars, drawVars, bufVars, flipVars, stateVars, mailVars,
         threadVars
<1>25. CASE Suspend
  BY <1>0, <1>25
     DEF BlankInv, Suspend, PcOk, Begin, MayStart, At, Thread, drawVars,
         modeVars, stateVars, mailVars
<1>26. CASE Resume
  BY <1>0, <1>26
     DEF BlankInv, Resume, PcOk, Begin, MayStart, At, Thread, setupVars,
         drawVars, modeVars, bufVars, flipVars, mailVars
<1>27. CASE UNCHANGED vars
  BY <1>27 DEF vars, BlankInv
<1> QED BY <1>1, <1>2, <1>3, <1>4, <1>5, <1>6, <1>7, <1>8, <1>9, <1>10,
     <1>11, <1>12, <1>13, <1>14, <1>15, <1>16, <1>17, <1>18, <1>19, <1>20,
     <1>21, <1>22, <1>23, <1>24, <1>25, <1>26, <1>27 DEF Next, Step

(* The black buffer is alive while mdrm->data points to it, and while any  *)
(* thread but wake_work's is about to read it.                             *)
BlackInv ==
    /\ data = "black" => black_live
    /\ \A t \in Thread \ {"wake"} :
         pc[t] = "snap" /\ src[t] = "black" => t = "drm" /\ black_live

(* Threads that are not about to read anything new keep it,                *)
LEMMA BlackMove ==
    ASSUME BlackInv, NEW t \in Thread, NEW l, l # "snap",
           pc \in [Thread -> Label], pc' = [pc EXCEPT ![t] = l],
           \A u \in Thread \ {t} : src'[u] = src[u],
           UNCHANGED <<data, black_live>>
    PROVE  BlackInv'
<1>1. pc'[t] = l /\ \A u \in Thread \ {t} : pc'[u] = pc[u]
  OBVIOUS
<1> QED BY <1>1 DEF BlackInv

(* and so does one that leaves a handler or enters one.                    *)
LEMMA BlackBegin ==
    ASSUME TypeInv, BlackInv, NEW t \in Thread, NEW o, NEW l, l # "snap", NEW r,
           Begin(t, o, l, r), UNCHANGED <<data, black_live>>
    PROVE  BlackInv'
  BY BlackMove DEF Begin, TypeInv, TThread

LEMMA BlackReturn ==
    ASSUME TypeInv, BlackInv, NEW t \in Thread, Return(t), UNCHANGED <<data, black_live>>
    PROVE  BlackInv'
<1>1. \A u \in Thread \ {t} : src'[u] = src[u]
  BY DEF Return, TypeInv, TThread
<1> QED BY <1>1, BlackMove DEF Return, TypeInv, TThread

LEMMA BlackSame ==
    ASSUME BlackInv, UNCHANGED <<pc, src, data, black_live>>
    PROVE  BlackInv'
  BY DEF BlackInv

(* No step frees the black buffer under a reader other than wake_work.     *)
LEMMA BlackStep ==
    ASSUME TypeInv, PcInv, BlankInv, BlackInv, [Next]_vars
    PROVE  BlackInv'
<1>0. /\ pc \in [Thread -> Label] /\ src \in [Thread -> {"none", "shadow", "black"}]
      /\ \A u \in Thread : PcOk(u, op[u], pc[u])
  BY DEF TypeInv, TThread, PcInv
<1>1. ASSUME NEW t \in Thread, FbMarkDirty(t) PROVE BlackInv'
  <2>1. UNCHANGED <<src, data, black_live>>
    BY <1>1 DEF FbMarkDirty, Goto
  <2>2. CASE pc' = [pc EXCEPT ![t] = "request"]
    BY <1>0, <2>1, <2>2, BlackMove
  <2>3. CASE pc' = [pc EXCEPT ![t] = "finish"]
    BY <1>0, <2>1, <2>3, BlackMove
  <2> QED BY <1>1, <2>2, <2>3 DEF FbMarkDirty, Goto
<1>2. ASSUME NEW t \in Thread, RequestUpdate(t) PROVE BlackInv'
  <2>1. UNCHANGED <<data, black_live>>
    BY <1>2 DEF RequestUpdate, bufVars
  <2>2. CASE pc' = [pc EXCEPT ![t] = "finish"] /\ src' = src
    BY <1>0, <2>1, <2>2, BlackMove
  <2>3. CASE /\ ~(blanked /\ ~Forced(t)) /\ pc' = [pc EXCEPT ![t] = "snap"]
             /\ src' = [src EXCEPT ![t] = data]
    <3>1. src'[t] = data /\ \A u \in Thread \ {t} : pc'[u] = pc[u] /\ src'[u] = src[u]
      BY <1>0, <2>3
    <3>2. data = "black" => op["drm"] = "disable" /\ blanked
      BY DEF BlankInv
    <3>3. data = "black" => t \in {"drm", "wake"}
      BY <1>0, <2>3, <3>2 DEF Forced, PcOk, Thread
    <3> QED BY <2>1, <3>1, <3>3 DEF BlackInv
  <2> QED BY <1>2, <2>2, <2>3 DEF RequestUpdate
<1>3. ASSUME NEW t \in Thread, SendFrame(t) PROVE BlackInv'
  <2>1. UNCHANGED <<src, data, black_live>>
    BY <1>3 DEF SendFrame, Goto
  <2>2. CASE pc' = [pc EXCEPT ![t] = "offer"]
    BY <1>0, <2>1, <2>2, BlackMove
  <2>3. CASE pc' = [pc EXCEPT ![t] = "finish"]
    BY <1>0, <2>1, <2>3, BlackMove
  <2> QED BY <1>3, <2>2, <2>3 DEF SendFrame, Goto
<1>4. ASSUME NEW t \in Thread, Offer(t) PROVE BlackInv'
  <2>1. UNCHANGED <<src, data, black_live>> /\ pc' = [pc EXCEPT ![t] = "finish"]
    BY <1>4 DEF Offer, Goto, bufVars
  <2> QED BY <1>0, <2>1, BlackMove
<1>5. CASE FinishDisable
  <2>1. /\ data' = "shadow" /\ pc' = [pc EXCEPT !["drm"] = "out"]
        /\ src' = [src EXCEPT !["drm"] = "none"]
    BY <1>5 DEF FinishDisable, Return
  <2>2. pc'["drm"] = "out" /\ \A u \in Thread \ {"drm"} : pc'[u] = pc[u] /\ src'[u] = src[u]
    BY <1>0, <2>1 DEF Thread
  <2> QED BY <2>1, <2>2 DEF BlackInv
<1>6. CASE PipeDisable
  <2>1. CASE data' = "black" /\ black_live' = TRUE /\ Begin("drm", "disable", "request", WholeRect)
    <3>1. pc' = [pc EXCEPT !["drm"] = "request"] /\ src' = src
      BY <2>1 DEF Begin
    <3>2. pc'["drm"] = "request" /\ \A u \in Thread \ {"drm"} : pc'[u] = pc[u]
      BY <1>0, <3>1 DEF Thread
    <3> QED BY <2>1, <3>1, <3>2 DEF BlackInv
  <2>2. CASE UNCHANGED <<data, black_live>> /\ Begin("drm", "disable", "finish", NoRect)
    BY <2>2, BlackBegin DEF Thread
  <2> QED BY <1>6, <2>1, <2>2 DEF PipeDisable
<1>7. CASE FinishUpdate
  BY <1>7, BlackReturn DEF FinishUpdate, bufVars, Thread
<1>8. CASE FinishEnable
  BY <1>8, BlackReturn DEF FinishEnable, bufVars, Thread
<1>9. CASE ScreenWake
  <2>1. UNCHANGED <<src, data, black_live>>
    BY <1>9 DEF ScreenWake, Goto, bufVars
  <2>2. CASE pc' = [pc EXCEPT !["wake"] = "finish"]
    BY <1>0, <2>1, <2>2, BlackMove DEF Thread
  <2>3. CASE pc' = [pc EXCEPT !["wake"] = "request"]
    BY <1>0, <2>1, <2>3, BlackMove DEF Thread
  <2> QED BY <1>9, <2>2, <2>3 DEF ScreenWake, Goto
<1>10. CASE FinishWake
  BY <1>10, BlackReturn DEF FinishWake, bufVars, Thread
<1>11. CASE RotationClear
  <2>1. UNCHANGED <<src, data, black_live>> /\ pc' = [pc EXCEPT !["sysfs"] = "request"]
    BY <1>11 DEF RotationClear, Goto
  <2> QED BY <1>0, <2>1, BlackMove DEF Thread
<1>12. CASE FinishRotation
  BY <1>12, BlackReturn DEF FinishRotation, bufVars, Thread
<1>13. CASE FinishSuspend
  BY <1>13, BlackReturn DEF FinishSuspend, bufVars, Thread
<1>14. CASE FinishResume
  BY <1>14, BlackReturn DEF FinishResume, bufVars, Thread
<1>15. CASE Deliver \/ VblankTimer \/ DisableVblank \/ Idle \/ DisablePartialStore
  BY <1>15, BlackSame
     DEF Deliver, VblankTimer, DisableVblank, Idle, DisablePartialStore, bufVars, threadVars
<1>16. CASE PipeUpdate
  <2>1. PICK r : Begin("drm", "update", "copy", r)
    BY <1>16 DEF PipeUpdate
  <2> QED BY <1>16, <2>1, BlackBegin DEF PipeUpdate, bufVars, Thread
<1>17. CASE PipeUpdateNoDamage
  BY <1>17, BlackBegin DEF PipeUpdateNoDamage, bufVars, Thread
<1>18. CASE PipeEnable
  <2>1. PICK r : Begin("drm", "enable", "copy", r)
    BY <1>18 DEF PipeEnable
  <2> QED BY <1>18, <2>1, BlackBegin DEF PipeEnable, bufVars, Thread
<1>19. CASE Wake
  BY <1>19, BlackBegin DEF Wake, bufVars, Thread
<1>20. CASE RotationStore
  BY <1>20, BlackBegin DEF RotationStore, bufVars, Thread
<1>21. CASE Suspend
  BY <1>21, BlackBegin DEF Suspend, Thread
<1>22. CASE Resume
  BY <1>22, BlackBegin DEF Resume, bufVars, Thread
<1>23. CASE UNCHANGED vars
  BY <1>23, BlackSame DEF vars
<1> QED BY <1>1, <1>2, <1>3, <1>4, <1>5, <1>6, <1>7, <1>8, <1>9, <1>10,
     <1>11, <1>12, <1>13, <1>14, <1>15, <1>16, <1>17, <1>18, <1>19, <1>20,
     <1>21, <1>22, <1>23 DEF Next, Step

-----------------------------------------------------------------------------
(* Copies stay in their buffers.                                           *)

(* The region lies in the mode and, where the compositor follows the mode, *)
(* is all of it when there is a rotation.                                  *)
Fitting(r) ==
    /\ InsideOf(r, width, height)
    /\ ~setup.stale /\ native_rotation # Rotate0 => r = Whole(width, height)

(* Regions on their way to the panel fit unless the mode changed meanwhile, *)
RectInv == \A t \in Thread : pc[t] \in Sending /\ t \notin turned => Fitting(rect[t])

(* a commit copies a part of its framebuffer, all of it when it lights the *)
(* pipe, and the whole mode when there is a rotation,                      *)
CopyInv ==
    At("drm", "copy") /\ "drm" \notin turned =>
      /\ ~setup.stale => FbFits
      /\ FbFits /\ (op["drm"] = "enable" \/ native_rotation # Rotate0) => rect["drm"] = WholeRect
      /\ native_rotation = Rotate0 =>
           LET r == rect["drm"] IN
           r.x >= 0 /\ r.y >= 0 /\ r.x + r.w <= fb.w /\ r.y + r.h <= fb.h

(* and no access so far has left its buffer for another reason.  A mode    *)
(* changes under a handler only where handlers overlap.                    *)
BoundsInv == RectInv /\ CopyInv /\ CopyInBounds /\ (~setup.overlap => turned = {})

(* The whole mode fits.                                                    *)
LEMMA WholeFits ==
    ASSUME TMode
    PROVE  Fitting(WholeRect)
  BY SizeFacts, WholeInside DEF Fitting

(* A thread that moves on with a region that fits keeps RectInv,           *)
LEMMA RectMove ==
    ASSUME RectInv, NEW t \in Thread, NEW l, NEW r,
           UNCHANGED <<width, height, native_rotation, setup>>,
           pc \in [Thread -> Label], rect \in [Thread -> RectType],
           pc' = [pc EXCEPT ![t] = l], rect' = [rect EXCEPT ![t] = r],
           turned' = turned \/ (l = "out" /\ turned' = turned \ {t}),
           l \in Sending /\ t \notin turned => Fitting(r)
    PROVE  RectInv'
<1>1. /\ pc'[t] = l /\ rect'[t] = r
      /\ \A u \in Thread \ {t} : pc'[u] = pc[u] /\ rect'[u] = rect[u]
  OBVIOUS
<1>2. \A q : Fitting(q)' <=> Fitting(q)
  BY DEF Fitting, InsideOf
<1> SUFFICES ASSUME NEW u \in Thread, pc'[u] \in Sending, u \notin turned'
             PROVE  Fitting(rect[u])'
  BY DEF RectInv
<1>3. CASE u = t
  BY <1>1, <1>3 DEF Fitting, InsideOf, Sending
<1>4. CASE u # t
  BY <1>1, <1>4 DEF RectInv, Fitting, InsideOf
<1> QED BY <1>3, <1>4

(* one that is not about to copy keeps CopyInv.                            *)
LEMMA CopyMove ==
    ASSUME CopyInv, NEW t \in Thread, NEW l, t # "drm" \/ l # "copy",
           UNCHANGED <<width, height, native_rotation, fb, setup>>,
           pc \in [Thread -> Label], op \in [Thread -> Op], rect \in [Thread -> RectType],
           pc' = [pc EXCEPT ![t] = l],
           turned' = turned \/ turned' = turned \ {t},
           t # "drm" => op'["drm"] = op["drm"] /\ rect'["drm"] = rect["drm"]
    PROVE  CopyInv'
<1>1. pc'[t] = l /\ (t # "drm" => pc'["drm"] = pc["drm"])
  BY DEF Thread
<1>2. CASE t = "drm"
  BY <1>1, <1>2 DEF CopyInv, At
<1>3. CASE t # "drm"
  BY <1>1, <1>3 DEF CopyInv, At, WholeRect, FbFits
<1> QED BY <1>2, <1>3

(* Nobody moves.                                                           *)
LEMMA BoundsSame ==
    ASSUME BoundsInv,
           UNCHANGED <<pc, op, rect, turned, fb, width, height, native_rotation, stray, setup>>
    PROVE  BoundsInv'
<1>1. RectInv'
  BY DEF BoundsInv, RectInv, Fitting, InsideOf
<1>2. CopyInv'
  BY DEF BoundsInv, CopyInv, At, WholeRect, FbFits
<1> QED BY <1>1, <1>2 DEF BoundsInv, CopyInBounds

(* A thread moves on without copying,                                      *)
LEMMA BoundsMove ==
    ASSUME TypeInv, BoundsInv, NEW t \in Thread, NEW l, NEW r, t # "drm" \/ l # "copy",
           UNCHANGED <<width, height, native_rotation, fb, stray, setup>>,
           pc' = [pc EXCEPT ![t] = l], rect' = [rect EXCEPT ![t] = r],
           turned' = turned \/ (l = "out" /\ turned' = turned \ {t}),
           t # "drm" => op'["drm"] = op["drm"],
           l \in Sending => r = WholeRect
    PROVE  BoundsInv'
<1>2. /\ pc \in [Thread -> Label] /\ op \in [Thread -> Op] /\ rect \in [Thread -> RectType]
      /\ Fitting(WholeRect)
  BY WholeFits DEF TypeInv, TThread
<1>3. t # "drm" => rect'["drm"] = rect["drm"]
  BY <1>2 DEF Thread
<1>4. RectInv'
  BY <1>2, RectMove DEF BoundsInv
<1>5. CopyInv'
  BY <1>2, <1>3, CopyMove DEF BoundsInv
<1> QED BY <1>4, <1>5 DEF BoundsInv, CopyInBounds

(* returns,                                                                *)
LEMMA BoundsReturn ==
    ASSUME TypeInv, BoundsInv, NEW t \in Thread, Return(t),
           UNCHANGED <<width, height, native_rotation, fb, stray, setup>>
    PROVE  BoundsInv'
<1>1. t # "drm" => op'["drm"] = op["drm"]
  BY DEF Return, TypeInv, TThread, Thread
<1> QED BY <1>1, BoundsMove DEF Return, Sending

(* or enters a handler that does not copy.                                 *)
LEMMA BoundsBegin ==
    ASSUME TypeInv, BoundsInv, NEW t \in Thread, NEW o, o # "rotate",
           NEW l \in Label \ {"copy"}, NEW r,
           Begin(t, o, l, r), l \in Sending => r = WholeRect,
           UNCHANGED <<width, height, native_rotation, fb, stray, setup>>
    PROVE  BoundsInv'
<1>1. t # "drm" => op'["drm"] = op["drm"]
  BY DEF Begin, TypeInv, TThread, Thread
<1> QED BY <1>1, BoundsMove DEF Begin

(* A commit is about to copy.                                              *)
LEMMA BoundsCopy ==
    ASSUME TypeInv, BoundsInv, NEW o, o # "rotate", NEW r, Begin("drm", o, "copy", r),
           UNCHANGED <<width, height, native_rotation, stray, setup>>,
           ~setup.stale => fb'.w = width /\ fb'.h = height,
           fb'.w = width /\ fb'.h = height /\ (o = "enable" \/ native_rotation # Rotate0)
             => r = WholeRect,
           native_rotation = Rotate0 =>
             r.x >= 0 /\ r.y >= 0 /\ r.x + r.w <= fb'.w /\ r.y + r.h <= fb'.h
    PROVE  BoundsInv'
<1>2. /\ pc \in [Thread -> Label] /\ op \in [Thread -> Op] /\ rect \in [Thread -> RectType]
      /\ turned' = turned
  BY DEF TypeInv, TThread, Begin
<1>3. RectInv'
  BY <1>2, RectMove DEF BoundsInv, Begin, Sending, Thread
<1>4. op'["drm"] = o /\ rect'["drm"] = r
  BY <1>2 DEF Begin, Thread
<1>5. CopyInv'
  BY <1>4 DEF CopyInv, WholeRect, FbFits
<1> QED BY <1>2, <1>3, <1>5 DEF BoundsInv, CopyInBounds

(* Confining the whole mode leaves it as it is.                            *)
LEMMA WholeIsSafe ==
    ASSUME TMode
    PROVE  Safe(WholeRect) = Whole(width, height)
<1> DEFINE q == WholeRect
<1>1. width \in Nat /\ height \in Nat
  BY SizeFacts
<1>2. /\ Greatest(q.x, 0) = 0 /\ Greatest(q.y, 0) = 0
      /\ Least(q.x + q.w, width) = width /\ Least(q.y + q.h, height) = height
  BY <1>1 DEF WholeRect, Greatest, Least
<1> QED BY <1>1, <1>2 DEF Safe, AsRect, Whole

(* The confined clip is one copy_frame can work on,                        *)
LEMMA SafeFits ==
    ASSUME TMode, NEW q \in RectType, clip_valid(Safe(q)), FbFits,
           native_rotation # Rotate0 => q = WholeRect
    PROVE  Fitting(Safe(q)) /\ Copying(Safe(q))
<1>1. InsideOf(Safe(q), width, height)
  BY SafeFacts
<1>2. ASSUME q = WholeRect PROVE Safe(q) = Whole(width, height)
  BY <1>2, WholeIsSafe
<1>3. native_rotation \in Rotation
  BY DEF TMode
<1> QED BY <1>1, <1>2, <1>3, SizeFacts DEF Fitting, Copying, FbFits

(* The confined clip ends where the clip ends, or before.                  *)
LEMMA ClipEnds ==
    ASSUME NEW x \in Int, NEW w \in Int, NEW m \in Int, NEW n \in Int, x + w <= n
    PROVE  Greatest(x, 0) + (Least(x + w, m) - Greatest(x, 0)) <= n
  BY DEF Greatest, Least

(* A pixel of a region that lies in a w x h buffer is one of the buffer.   *)
LEMMA InsideIndex ==
    ASSUME NEW w \in Nat, NEW h \in Nat, NEW x \in Nat, NEW y \in Nat,
           NEW rw \in Nat, NEW rh \in Nat, x + rw <= w, y + rh <= h,
           NEW i \in 0 .. rw - 1, NEW j \in 0 .. rh - 1
    PROVE  (y + j) * w + x + i \in 0 .. w * h - 1
<1>1. x + i \in 0 .. w - 1 /\ y + j \in 0 .. h - 1
  OBVIOUS
<1>2. (y + j) * w + (x + i) \in 0 .. w * h - 1
  BY <1>1, IndexBound
<1>3. (y + j) * w \in Int
  OBVIOUS
<1>4. (y + j) * w + x + i = (y + j) * w + (x + i)
  BY <1>3
<1> QED BY <1>2, <1>4

(* Without a rotation the framebuffer need not have the size of the mode.  *)
LEMMA PlainFits ==
    ASSUME TMode, TData, NEW q \in RectType, clip_valid(Safe(q)),
           native_rotation = Rotate0, q.x + q.w <= fb.w, q.y + q.h <= fb.h
    PROVE  CopyFits(Safe(q))
<1> DEFINE r == Safe(q)
<1>1. /\ InsideOf(r, width, height) /\ width \in Nat /\ height \in Nat
      /\ 0 .. width * height - 1 = Pixel
  BY SafeFacts, SizeFacts
<1>2. fb.w \in Nat /\ fb.h \in Nat
  BY DEF TData, FbType
<1>3. 0 .. fb.w * fb.h - 1 = Pixel
  <2>1. fb.w * fb.h = W * H
    BY SizeAssumption DEF TData
  <2> QED BY <2>1 DEF Pixel
<1>4. q.x \in Int /\ q.y \in Int /\ q.w \in Int /\ q.h \in Int
  BY DEF RectType
<1>5. r.x + r.w <= fb.w /\ r.y + r.h <= fb.h
  <2>1. /\ r.x = Greatest(q.x, 0) /\ r.w = Least(q.x + q.w, width) - Greatest(q.x, 0)
        /\ r.y = Greatest(q.y, 0) /\ r.h = Least(q.y + q.h, height) - Greatest(q.y, 0)
    BY DEF Safe, AsRect
  <2> HIDE DEF r
  <2>2. /\ Greatest(q.x, 0) + (Least(q.x + q.w, width) - Greatest(q.x, 0)) <= fb.w
        /\ Greatest(q.y, 0) + (Least(q.y + q.h, height) - Greatest(q.y, 0)) <= fb.h
    <3>1. width \in Int /\ height \in Int /\ fb.w \in Int /\ fb.h \in Int
      BY <1>1, <1>2
    <3> QED BY <1>4, <3>1, ClipEnds
  <2> QED BY <2>1, <2>2
<1> HIDE DEF r
<1>6. Effective = Rotate0
  BY EffectiveIsNative DEF TMode
<1>7. ASSUME NEW i \in 0 .. r.w - 1, NEW j \in 0 .. r.h - 1
      PROVE  FbIndex(r, i, j) \in Pixel /\ ShadowIndex(r, i, j) \in Pixel
  <2>1. /\ r.x \in Nat /\ r.y \in Nat /\ r.w \in Nat /\ r.h \in Nat
        /\ r.x + r.w <= width /\ r.y + r.h <= height
    BY <1>1 DEF InsideOf
  <2>2. (r.y + j) * fb.w + r.x + i \in 0 .. fb.w * fb.h - 1
    BY <1>2, <1>5, <2>1, InsideIndex
  <2>3. (r.y + j) * width + r.x + i \in 0 .. width * height - 1
    BY <1>1, <2>1, InsideIndex
  <2> QED BY <1>1, <1>3, <2>2, <2>3 DEF FbIndex, ShadowIndex
<1>8. ASSUME NEW c \in Cells(r.w, r.h)
      PROVE  c[1] \in 0 .. r.w - 1 /\ c[2] \in 0 .. r.h - 1
  BY DEF Cells
<1> QED BY <1>6, <1>7, <1>8 DEF CopyFits, r

(* One lemma per action: the bounds after it.                              *)
LEMMA BoundsFbMarkDirty ==
    ASSUME NEW t \in Thread, TypeInv, PcInv, BoundsInv, FbMarkDirty(t)
    PROVE  BoundsInv'
<1> DEFINE r == Safe(rect[t])
<1>1. UNCHANGED <<width, height, native_rotation, fb, setup, op, turned>>
  BY DEF FbMarkDirty, Goto, setupVars, drawVars, modeVars, mailVars
<1>2. /\ pc \in [Thread -> Label] /\ op \in [Thread -> Op] /\ rect \in [Thread -> RectType]
      /\ pc[t] = "copy" /\ t = "drm"
  BY DEF TypeInv, TThread, FbMarkDirty, At, PcInv, PcOk
<1>3. CASE Goto(t, "finish") /\ UNCHANGED <<rect, stray>>
  <2>1. pc' = [pc EXCEPT ![t] = "finish"] /\ rect' = rect /\ stray' = stray
    BY <1>3 DEF Goto
  <2>2. rect' = [rect EXCEPT ![t] = rect[t]]
    BY <1>2, <2>1
  <2> QED BY <1>1, <2>1, <2>2, BoundsMove DEF Sending
<1>4. CASE /\ clip_valid(r) /\ rect' = [rect EXCEPT ![t] = r] /\ Goto(t, "request")
           /\ IF CopyFits(r) THEN UNCHANGED stray ELSE stray' = stray \cup {CopyCause(t)}
  <2>1. /\ pc' = [pc EXCEPT ![t] = "request"] /\ rect' = [rect EXCEPT ![t] = r]
        /\ rect[t] \in RectType
    BY <1>2, <1>4 DEF Goto
  <2>2. ASSUME t \notin turned, FbFits PROVE Fitting(r) /\ Copying(r)
    BY <1>2, <1>4, <2>1, <2>2, SafeFits DEF BoundsInv, CopyInv, At, TypeInv
  <2>3. ASSUME t \notin turned PROVE Fitting(r)
    <3>1. CASE FbFits
      BY <2>2, <2>3, <3>1
    <3>2. CASE ~FbFits
      <4>1. setup.stale
        BY <1>2, <2>3, <3>2 DEF BoundsInv, CopyInv, At
      <4>2. InsideOf(r, width, height)
        BY <1>4, <2>1, SafeFacts DEF TypeInv
      <4> QED BY <4>1, <4>2 DEF Fitting
    <3> QED BY <3>1, <3>2
  <2>4. ASSUME t \notin turned, ~CopyFits(r) PROVE ~FbFits /\ Effective # Rotate0
    <3>1. ~FbFits
      <4> SUFFICES ASSUME FbFits PROVE FALSE
        OBVIOUS
      <4>1. Copying(r)
        BY <2>2, <2>4
      <4> HIDE DEF r
      <4> QED BY <2>4, <4>1, CopyStays
    <3>2. Effective # Rotate0
      <4> SUFFICES ASSUME native_rotation = Rotate0 PROVE FALSE
        BY EffectiveIsNative DEF TypeInv, TMode
      <4>1. LET q == rect[t] IN
              q.x >= 0 /\ q.y >= 0 /\ q.x + q.w <= fb.w /\ q.y + q.h <= fb.h
        BY <1>2, <2>4 DEF BoundsInv, CopyInv, At
      <4> QED BY <1>4, <2>1, <2>4, <4>1, PlainFits DEF TypeInv
    <3> QED BY <3>1, <3>2
  <2>5. CopyInBounds'
    BY <1>4, <2>4 DEF BoundsInv, CopyInBounds, CopyCause
  <2> HIDE DEF r
  <2>6. RectInv'
    BY <1>1, <1>2, <2>1, <2>3, RectMove DEF BoundsInv
  <2>7. CopyInv'
    BY <1>1, <1>2, <2>1, CopyMove DEF BoundsInv
  <2> QED BY <1>1, <2>5, <2>6, <2>7 DEF BoundsInv
<1> QED BY <1>3, <1>4 DEF FbMarkDirty

LEMMA BoundsRequestUpdate ==
    ASSUME NEW t \in Thread, TypeInv, PcInv, BoundsInv, RequestUpdate(t)
    PROVE  BoundsInv'
<1>1. UNCHANGED <<width, height, native_rotation, fb, stray, setup, op, turned>>
  BY DEF RequestUpdate, setupVars, drawVars, modeVars, bufVars, mailVars
<1>2. /\ pc \in [Thread -> Label] /\ op \in [Thread -> Op] /\ rect \in [Thread -> RectType]
      /\ pc[t] = "request"
  BY DEF TypeInv, TThread, RequestUpdate, At
<1>3. CASE pc' = [pc EXCEPT ![t] = "finish"] /\ rect' = rect
  <2>1. rect' = [rect EXCEPT ![t] = rect[t]]
    BY <1>2, <1>3
  <2> QED BY <1>1, <1>3, <2>1, BoundsMove DEF Sending
<1>4. CASE /\ pc' = [pc EXCEPT ![t] = "snap"]
           /\ rect' = [rect EXCEPT ![t] = IF disable_partial THEN WholeRect ELSE @]
  <2> DEFINE r == IF disable_partial THEN WholeRect ELSE rect[t]
  <2>1. rect' = [rect EXCEPT ![t] = r]
    BY <1>4
  <2>2. RectInv'
    <3>1. Fitting(WholeRect) /\ (t \notin turned => Fitting(rect[t]))
      BY <1>2, WholeFits DEF BoundsInv, RectInv, Sending, TypeInv
    <3>2. t \notin turned => Fitting(r)
      BY <3>1
    <3> HIDE DEF r
    <3> QED BY <1>1, <1>2, <1>4, <2>1, <3>2, RectMove DEF BoundsInv
  <2>3. CopyInv'
    <3>1. t # "drm" => op'["drm"] = op["drm"] /\ rect'["drm"] = rect["drm"]
      BY <1>1, <1>2, <2>1 DEF Thread
    <3> HIDE DEF r
    <3> QED BY <1>1, <1>2, <1>4, <3>1, CopyMove DEF BoundsInv
  <2> QED BY <1>1, <2>2, <2>3 DEF BoundsInv, CopyInBounds
<1> QED BY <1>3, <1>4 DEF RequestUpdate

LEMMA BoundsSendFrame ==
    ASSUME NEW t \in Thread, TypeInv, PcInv, BoundsInv, BlackInv, SendFrame(t)
    PROVE  BoundsInv'
<1> DEFINE r == rect[t]
<1>1. UNCHANGED <<width, height, native_rotation, fb, setup, op, rect, turned>>
  BY DEF SendFrame, Goto, setupVars, drawVars, modeVars
<1>2. /\ pc \in [Thread -> Label] /\ op \in [Thread -> Op] /\ rect \in [Thread -> RectType]
      /\ pc[t] = "snap"
  BY DEF TypeInv, TThread, SendFrame, At
<1>3. ASSUME t \notin turned PROVE Fitting(r) /\ Region(r) \subseteq Pixel
  <2>1. Fitting(r)
    BY <1>2, <1>3 DEF BoundsInv, RectInv, Sending
  <2>2. Region(r) \subseteq Pixel
    BY <2>1, RegionInside, SizeFacts
       DEF Fitting, TypeInv, Region, RegionIn, FrameIndex, FrameIndexIn
  <2> QED BY <2>1, <2>2
<1>4. RectInv'
  <2>1. rect' = [rect EXCEPT ![t] = r]
    BY <1>1, <1>2
  <2> HIDE DEF r
  <2>2. CASE pc' = [pc EXCEPT ![t] = "finish"]
    BY <1>1, <1>2, <2>1, <2>2, RectMove DEF BoundsInv, Sending
  <2>3. CASE pc' = [pc EXCEPT ![t] = "offer"]
    BY <1>1, <1>2, <1>3, <2>1, <2>3, RectMove DEF BoundsInv
  <2> QED BY <2>2, <2>3 DEF SendFrame, Goto
<1>5. CopyInv'
  <2>1. t # "drm" => op'["drm"] = op["drm"] /\ rect'["drm"] = rect["drm"]
    BY <1>1
  <2>2. CASE pc' = [pc EXCEPT ![t] = "finish"]
    BY <1>1, <1>2, <2>1, <2>2, CopyMove DEF BoundsInv
  <2>3. CASE pc' = [pc EXCEPT ![t] = "offer"]
    BY <1>1, <1>2, <2>1, <2>3, CopyMove DEF BoundsInv
  <2> QED BY <2>2, <2>3 DEF SendFrame, Goto
<1>6. "other" \notin ReadCauses(t)
  <2>1. Reads(r) \subseteq Region(r)
    BY DEF Reads
  <2>2. src[t] = "black" /\ ~black_live => t = "wake"
    BY <1>2 DEF BlackInv
  <2> QED BY <1>3, <2>1, <2>2 DEF ReadCauses
<1>7. CopyInBounds'
  BY <1>6 DEF SendFrame, BoundsInv, CopyInBounds
<1> QED BY <1>1, <1>4, <1>5, <1>7 DEF BoundsInv

LEMMA BoundsOffer ==
    ASSUME NEW t \in Thread, TypeInv, PcInv, BoundsInv, Offer(t)
    PROVE  BoundsInv'
<1>1. UNCHANGED <<width, height, native_rotation, fb, stray, setup, op, turned>>
  BY DEF Offer, Goto, setupVars, drawVars, modeVars, bufVars
<1>2. pc' = [pc EXCEPT ![t] = "finish"] /\ rect' = rect
  BY DEF Offer, Goto
<1>3. rect' = [rect EXCEPT ![t] = rect[t]]
  BY <1>2 DEF TypeInv, TThread
<1> QED BY <1>1, <1>2, <1>3, BoundsMove DEF Sending

LEMMA BoundsFinishUpdate ==
    ASSUME TypeInv, PcInv, BoundsInv, FinishUpdate
    PROVE  BoundsInv'
<1>1. Return("drm") /\ UNCHANGED <<width, height, native_rotation, fb, stray, setup>>
  BY DEF FinishUpdate, setupVars, drawVars, modeVars, bufVars, mailVars
<1> QED BY <1>1, BoundsReturn DEF Thread

LEMMA BoundsFinishDisable ==
    ASSUME TypeInv, PcInv, BoundsInv, FinishDisable
    PROVE  BoundsInv'
<1>1. Return("drm") /\ UNCHANGED <<width, height, native_rotation, fb, stray, setup>>
  BY DEF FinishDisable, setupVars, drawVars, modeVars, mailVars
<1> QED BY <1>1, BoundsReturn DEF Thread

LEMMA BoundsFinishEnable ==
    ASSUME TypeInv, PcInv, BoundsInv, FinishEnable
    PROVE  BoundsInv'
<1>1. Return("drm") /\ UNCHANGED <<width, height, native_rotation, fb, stray, setup>>
  BY DEF FinishEnable, setupVars, drawVars, modeVars, bufVars, mailVars
<1> QED BY <1>1, BoundsReturn DEF Thread

LEMMA BoundsScreenWake ==
    ASSUME TypeInv, PcInv, BoundsInv, ScreenWake
    PROVE  BoundsInv'
<1>1. UNCHANGED <<width, height, native_rotation, fb, stray, setup, op, turned>>
  BY DEF ScreenWake, Goto, setupVars, drawVars, modeVars, bufVars, mailVars
<1>2. CASE pc' = [pc EXCEPT !["wake"] = "finish"] /\ rect' = rect
  <2>1. rect' = [rect EXCEPT !["wake"] = rect["wake"]]
    BY <1>2 DEF TypeInv, TThread
  <2> QED BY <1>1, <1>2, <2>1, BoundsMove DEF Thread, Sending
<1>3. CASE pc' = [pc EXCEPT !["wake"] = "request"] /\ rect' = [rect EXCEPT !["wake"] = WholeRect]
  BY <1>1, <1>3, BoundsMove DEF Thread
<1> QED BY <1>2, <1>3 DEF ScreenWake, Goto

LEMMA BoundsFinishWake ==
    ASSUME TypeInv, PcInv, BoundsInv, FinishWake
    PROVE  BoundsInv'
<1>1. Return("wake") /\ UNCHANGED <<width, height, native_rotation, fb, stray, setup>>
  BY DEF FinishWake, setupVars, drawVars, modeVars, bufVars, mailVars
<1> QED BY <1>1, BoundsReturn DEF Thread

LEMMA BoundsRotationClear ==
    ASSUME TypeInv, PcInv, BoundsInv, RotationClear
    PROVE  BoundsInv'
<1>1. UNCHANGED <<width, height, native_rotation, fb, stray, setup, op, turned>>
  BY DEF RotationClear, Goto, setupVars, drawVars, modeVars, mailVars
<1>2. pc' = [pc EXCEPT !["sysfs"] = "request"] /\ rect' = [rect EXCEPT !["sysfs"] = WholeRect]
  BY DEF RotationClear, Goto
<1> QED BY <1>1, <1>2, BoundsMove DEF Thread

LEMMA BoundsFinishRotation ==
    ASSUME TypeInv, PcInv, BoundsInv, FinishRotation
    PROVE  BoundsInv'
<1>1. Return("sysfs") /\ UNCHANGED <<width, height, native_rotation, fb, stray, setup>>
  BY DEF FinishRotation, setupVars, drawVars, modeVars, bufVars, mailVars
<1> QED BY <1>1, BoundsReturn DEF Thread

LEMMA BoundsFinishSuspend ==
    ASSUME TypeInv, PcInv, BoundsInv, FinishSuspend
    PROVE  BoundsInv'
<1>1. Return("power") /\ UNCHANGED <<width, height, native_rotation, fb, stray, setup>>
  BY DEF FinishSuspend, setupVars, drawVars, modeVars, bufVars, mailVars
<1> QED BY <1>1, BoundsReturn DEF Thread

LEMMA BoundsFinishResume ==
    ASSUME TypeInv, PcInv, BoundsInv, FinishResume
    PROVE  BoundsInv'
<1>1. Return("power") /\ UNCHANGED <<width, height, native_rotation, fb, stray, setup>>
  BY DEF FinishResume, setupVars, drawVars, modeVars, bufVars, mailVars
<1> QED BY <1>1, BoundsReturn DEF Thread

LEMMA BoundsDeliver ==
    ASSUME TypeInv, PcInv, BoundsInv, Deliver
    PROVE  BoundsInv'
  BY BoundsSame DEF Deliver, setupVars, drawVars, modeVars, bufVars, threadVars

LEMMA BoundsPipeUpdate ==
    ASSUME TypeInv, PcInv, BoundsInv, PipeUpdate
    PROVE  BoundsInv'
<1>1. PICK c \in setup.damage :
        InFb(c) /\ Draw(c) /\ Begin("drm", "update", "copy", UpdateClip(c))
  BY DEF PipeUpdate
<1>2. UNCHANGED <<width, height, native_rotation, stray, setup>>
  BY DEF PipeUpdate, setupVars, modeVars, bufVars
<1>3. fb'.w = fb.w /\ fb'.h = fb.h
  <2>1. fb = [w |-> fb.w, h |-> fb.h, px |-> fb.px]
    BY DEF TypeInv, TData, FbType
  <2> DEFINE new == [i \in Pixel |->
                IF i % fb.w \in c.x1 .. c.x2 - 1 /\ i \div fb.w \in c.y1 .. c.y2 - 1
                THEN drawn' ELSE fb.px[i]]
  <2>2. fb' = [fb EXCEPT !.px = new]
    BY <1>1 DEF Draw
  <2> HIDE DEF new
  <2> QED BY <2>1, <2>2
<1>4. ~setup.stale => fb.w = width /\ fb.h = height
  BY DEF PipeUpdate, FbFits
<1>5. ASSUME native_rotation # Rotate0 PROVE UpdateClip(c) = WholeRect
  <2>1. Effective # Rotate0
    BY <1>5, EffectiveIsNative DEF TypeInv, TMode
  <2>2. width - 0 = width /\ height - 0 = height
    BY SizeFacts DEF TypeInv
  <2> QED BY <2>1, <2>2 DEF UpdateClip, AsRect, WholePlane, WholeRect
<1>6. ASSUME native_rotation = Rotate0
      PROVE  LET r == UpdateClip(c) IN
             r.x >= 0 /\ r.y >= 0 /\ r.x + r.w <= fb.w /\ r.y + r.h <= fb.h
  <2>1. Effective = Rotate0
    BY <1>6, EffectiveIsNative DEF TypeInv, TMode
  <2>2. c.x1 \in Int /\ c.y1 \in Int /\ c.x2 \in Int /\ c.y2 \in Int
    BY SetupAssumption DEF TypeInv, TData
  <2> QED BY <1>1, <2>1, <2>2 DEF UpdateClip, AsRect, InFb
<1> QED BY <1>1, <1>2, <1>3, <1>4, <1>5, <1>6, BoundsCopy

LEMMA BoundsPipeUpdateNoDamage ==
    ASSUME TypeInv, PcInv, BoundsInv, PipeUpdateNoDamage
    PROVE  BoundsInv'
<1>1. UNCHANGED <<width, height, native_rotation, fb, stray, setup>>
  BY DEF PipeUpdateNoDamage, setupVars, drawVars, modeVars, bufVars, mailVars
<1>2. CASE Begin("drm", "update", "finish", NoRect)
  BY <1>1, <1>2, BoundsBegin DEF Thread, Label, Sending
<1> QED BY <1>2 DEF PipeUpdateNoDamage

LEMMA BoundsPipeDisable ==
    ASSUME TypeInv, PcInv, BoundsInv, PipeDisable
    PROVE  BoundsInv'
<1>1. UNCHANGED <<width, height, native_rotation, fb, stray, setup>>
  BY DEF PipeDisable, setupVars, drawVars, modeVars, mailVars
<1>2. CASE Begin("drm", "disable", "request", WholeRect)
  BY <1>1, <1>2, BoundsBegin DEF Thread, Label, Sending
<1>3. CASE Begin("drm", "disable", "finish", NoRect)
  BY <1>1, <1>3, BoundsBegin DEF Thread, Label, Sending
<1> QED BY <1>2, <1>3 DEF PipeDisable

LEMMA BoundsPipeEnable ==
    ASSUME TypeInv, PcInv, BoundsInv, PipeEnable
    PROVE  BoundsInv'
<1> DEFINE r == [x |-> 0, y |-> 0, w |-> fb'.w, h |-> fb'.h]
<1>1. Begin("drm", "enable", "copy", r) /\ UNCHANGED <<width, height, native_rotation, stray, setup>>
  BY DEF PipeEnable, setupVars, modeVars, bufVars
<1>2. ~setup.stale => fb'.w = width /\ fb'.h = height
  BY DEF PipeEnable, FbFits, drawVars
<1>3. fb'.w = width /\ fb'.h = height => r = WholeRect
  BY DEF WholeRect
<1>4. fb'.w \in Nat /\ fb'.h \in Nat
  BY SizeFacts DEF PipeEnable, drawVars, TypeInv, TData, FbType
<1>5. r.x >= 0 /\ r.y >= 0 /\ r.x + r.w <= fb'.w /\ r.y + r.h <= fb'.h
  BY <1>4
<1> HIDE DEF r
<1> QED BY <1>1, <1>2, <1>3, <1>5, BoundsCopy

LEMMA BoundsVblankTimer ==
    ASSUME TypeInv, PcInv, BoundsInv, VblankTimer
    PROVE  BoundsInv'
  BY BoundsSame
     DEF VblankTimer, setupVars, drawVars, modeVars, bufVars, mailVars,
         threadVars

LEMMA BoundsDisableVblank ==
    ASSUME TypeInv, PcInv, BoundsInv, DisableVblank
    PROVE  BoundsInv'
  BY BoundsSame
     DEF DisableVblank, setupVars, drawVars, modeVars, bufVars, mailVars,
         threadVars

LEMMA BoundsIdle ==
    ASSUME TypeInv, PcInv, BoundsInv, Idle
    PROVE  BoundsInv'
  BY BoundsSame
     DEF Idle, setupVars, drawVars, modeVars, bufVars, mailVars,
         threadVars

LEMMA BoundsWake ==
    ASSUME TypeInv, PcInv, BoundsInv, Wake
    PROVE  BoundsInv'
<1>1. UNCHANGED <<width, height, native_rotation, fb, stray, setup>>
  BY DEF Wake, setupVars, drawVars, modeVars, bufVars, mailVars
<1>2. CASE Begin("wake", "wake", "check", NoRect)
  BY <1>1, <1>2, BoundsBegin DEF Thread, Label, Sending
<1> QED BY <1>2 DEF Wake

LEMMA BoundsRotationStore ==
    ASSUME TypeInv, PcInv, BoundsInv, RotationStore
    PROVE  BoundsInv'
<1>1. Begin("sysfs", "rotate", "clear", NoRect) /\ UNCHANGED <<setup, stray>>
  BY DEF RotationStore, setupVars, bufVars
<1>2. /\ pc \in [Thread -> Label] /\ turned' = {t \in Thread : pc[t] # "out"}
      /\ pc' = [pc EXCEPT !["sysfs"] = "clear"]
  BY <1>1 DEF Begin, Busy, At, TypeInv, TThread
<1>3. pc'["sysfs"] = "clear" /\ \A t \in Thread \ {"sysfs"} : pc'[t] = pc[t]
  BY <1>2 DEF Thread
<1>4. RectInv'
  BY <1>2, <1>3 DEF RectInv, Sending
<1>5. CopyInv'
  BY <1>2, <1>3 DEF CopyInv, At, Thread
<1>6. ~setup.overlap => turned' = {}
  BY <1>2 DEF RotationStore, MayStart, Resting, At
<1> QED BY <1>1, <1>4, <1>5, <1>6 DEF BoundsInv, CopyInBounds

LEMMA BoundsDisablePartialStore ==
    ASSUME TypeInv, PcInv, BoundsInv, DisablePartialStore
    PROVE  BoundsInv'
  BY BoundsSame
     DEF DisablePartialStore, setupVars, drawVars, bufVars, mailVars,
         threadVars

LEMMA BoundsSuspend ==
    ASSUME TypeInv, PcInv, BoundsInv, Suspend
    PROVE  BoundsInv'
<1>1. UNCHANGED <<width, height, native_rotation, fb, stray, setup>>
  BY DEF Suspend, drawVars, modeVars, mailVars
<1>2. CASE Begin("power", "suspend", "request", WholeRect)
  BY <1>1, <1>2, BoundsBegin DEF Thread, Label, Sending
<1> QED BY <1>2 DEF Suspend

LEMMA BoundsResume ==
    ASSUME TypeInv, PcInv, BoundsInv, Resume
    PROVE  BoundsInv'
<1>1. UNCHANGED <<width, height, native_rotation, fb, stray, setup>>
  BY DEF Resume, setupVars, drawVars, modeVars, bufVars, mailVars
<1>2. CASE Begin("power", "resume", "request", WholeRect)
  BY <1>1, <1>2, BoundsBegin DEF Thread, Label, Sending
<1> QED BY <1>2 DEF Resume

(* No step lets a copy leave its buffers.                                  *)
LEMMA BoundsStep ==
    ASSUME TypeInv, PcInv, BoundsInv, BlackInv, [Next]_vars
    PROVE  BoundsInv'
<1>1. ASSUME NEW t \in Thread, Step(t) PROVE BoundsInv'
  BY <1>1, BoundsFbMarkDirty, BoundsRequestUpdate, BoundsSendFrame,
     BoundsOffer, BoundsFinishUpdate, BoundsFinishDisable,
     BoundsFinishEnable, BoundsScreenWake, BoundsFinishWake,
     BoundsRotationClear, BoundsFinishRotation, BoundsFinishSuspend,
     BoundsFinishResume DEF Step
<1>2. CASE UNCHANGED vars
  BY <1>2, BoundsSame DEF vars
<1> QED BY <1>1, <1>2, BoundsDeliver, BoundsPipeUpdate,
     BoundsPipeUpdateNoDamage, BoundsPipeDisable, BoundsPipeEnable,
     BoundsVblankTimer, BoundsDisableVblank, BoundsIdle, BoundsWake,
     BoundsRotationStore, BoundsDisablePartialStore, BoundsSuspend,
     BoundsResume DEF Next

-----------------------------------------------------------------------------
(* The picture.                                                            *)

(* A frame waits only while another is being sent.                         *)
SlotInv == slot = NoFrame => waiting = NoFrame

(* The systems PanelShowsFramebuffer is about.                             *)
Serial == ~setup.stale /\ ~setup.overlap

(* A sender that is not putting out the black picture reads the shadow,    *)
SrcInv ==
    \A t \in Thread : pc[t] \in {"snap", "offer"} /\ op["drm"] # "disable" => src[t] = "shadow"

(* A frame that shows what the shadow has in r.                            *)
Faithful(f, r) ==
    /\ Shows(f) = RegionIn(r, width)
    /\ \A i \in Shows(f) : Value(f, i) = shadow[i]

(* and its frame shows the shadow's present contents.                      *)
FrameInv ==
    \A t \in Thread : pc[t] = "offer" /\ op["drm"] # "disable" => Faithful(frame[t], rect[t])

(* The commit in progress is going to copy pixel d; the shadow has it.     *)
Due(d) == pc["drm"] = "copy" /\ d \in CellsWithin(rect["drm"])
Drawn(d) == shadow[PlaceOf(d[1], d[2])] = fb.px[d[2] * fb.w + d[1]]

(* Every pixel of the framebuffer is in the shadow at its place, or about  *)
(* to be copied there, unless the shadow was cleared there.                *)
ShadowInv ==
    fb.w = width /\ fb.h = height /\ pc["sysfs"] # "clear" =>
      \A d \in Cells(fb.w, fb.h) :
         PlaceOf(d[1], d[2]) \in erased \/ Drawn(d) \/ Due(d)

(* What the panel's pixel p shows when the frames under way have arrived.  *)
Final(p) == IF p \in Shows(waiting) THEN Value(waiting, p)
            ELSE IF p \in Shows(slot) THEN Value(slot, p) ELSE panel[p]

(* Thread t is going to send a frame with pixel p.                         *)
ComingFrom(t, p) ==
    \/ t = "wake" /\ pc[t] = "check"
    \/ t = "drm" /\ pc[t] = "copy" /\ op[t] = "enable"
    \/ pc[t] \in Sending /\ p \in RegionIn(rect[t], width)

(* Lit, as far as the senders know.                                        *)
Lighting == pipe_on /\ ~is_idle /\ op["drm"] # "disable"

(* Every pixel of the shadow is on the panel, under way to it, or going to *)
(* be sent, unless it was cleared or its update was given up.              *)
PanelInv ==
    Lighting => \A p \in Pixel :
                   \/ p \in erased \/ p \in missed
                   \/ Final(p) = shadow[p]
                   \/ \E t \in Thread : ComingFrom(t, p)

(* All of this in the systems the property is about.                       *)
PictureInv == Serial => SrcInv /\ FrameInv /\ ShadowInv /\ PanelInv

(* No frame waits while none is sent.                                      *)
LEMMA SlotStep ==
    ASSUME SlotInv, [Next]_vars
    PROVE  SlotInv'
<1>1. ASSUME NEW t \in Thread, FbMarkDirty(t) PROVE SlotInv'
  BY <1>1 DEF SlotInv, FbMarkDirty, mailVars
<1>2. ASSUME NEW t \in Thread, RequestUpdate(t) PROVE SlotInv'
  BY <1>2 DEF SlotInv, RequestUpdate, mailVars
<1>3. ASSUME NEW t \in Thread, SendFrame(t) PROVE SlotInv'
  BY <1>3 DEF SlotInv, SendFrame
<1>4. ASSUME NEW t \in Thread, Offer(t) PROVE SlotInv'
  BY <1>4 DEF SlotInv, Offer
<1>5. CASE FinishUpdate
  BY <1>5 DEF SlotInv, FinishUpdate, mailVars
<1>6. CASE FinishDisable
  BY <1>6 DEF SlotInv, FinishDisable, mailVars
<1>7. CASE FinishEnable
  BY <1>7 DEF SlotInv, FinishEnable, mailVars
<1>8. CASE ScreenWake
  BY <1>8 DEF SlotInv, ScreenWake, mailVars
<1>9. CASE FinishWake
  BY <1>9 DEF SlotInv, FinishWake, mailVars
<1>10. CASE RotationClear
  BY <1>10 DEF SlotInv, RotationClear, mailVars
<1>11. CASE FinishRotation
  BY <1>11 DEF SlotInv, FinishRotation, mailVars
<1>12. CASE FinishSuspend
  BY <1>12 DEF SlotInv, FinishSuspend, mailVars
<1>13. CASE FinishResume
  BY <1>13 DEF SlotInv, FinishResume, mailVars
<1>14. CASE Deliver
  BY <1>14 DEF SlotInv, Deliver
<1>15. CASE PipeUpdate
  BY <1>15 DEF SlotInv, PipeUpdate, mailVars
<1>16. CASE PipeUpdateNoDamage
  BY <1>16 DEF SlotInv, PipeUpdateNoDamage, mailVars
<1>17. CASE PipeDisable
  BY <1>17 DEF SlotInv, PipeDisable, mailVars
<1>18. CASE PipeEnable
  BY <1>18 DEF SlotInv, PipeEnable, mailVars
<1>19. CASE VblankTimer
  BY <1>19 DEF SlotInv, VblankTimer, mailVars
<1>20. CASE DisableVblank
  BY <1>20 DEF SlotInv, DisableVblank, mailVars
<1>21. CASE Idle
  BY <1>21 DEF SlotInv, Idle, mailVars
<1>22. CASE Wake
  BY <1>22 DEF SlotInv, Wake, mailVars
<1>23. CASE RotationStore
  BY <1>23 DEF SlotInv, RotationStore, mailVars
<1>24. CASE DisablePartialStore
  BY <1>24 DEF SlotInv, DisablePartialStore, mailVars
<1>25. CASE Suspend
  BY <1>25 DEF SlotInv, Suspend, mailVars
<1>26. CASE Resume
  BY <1>26 DEF SlotInv, Resume, mailVars
<1>27. CASE UNCHANGED vars
  BY <1>27 DEF vars, SlotInv
<1> QED BY <1>1, <1>2, <1>3, <1>4, <1>5, <1>6, <1>7, <1>8, <1>9, <1>10,
     <1>11, <1>12, <1>13, <1>14, <1>15, <1>16, <1>17, <1>18, <1>19, <1>20,
     <1>21, <1>22, <1>23, <1>24, <1>25, <1>26, <1>27 DEF Next, Step

(* Where handlers do not overlap a thread inside one is alone,             *)
LEMMA Others ==
    ASSUME PcInv, ~setup.overlap, NEW t \in Thread, pc[t] # "out"
    PROVE  \A u \in Thread \ {t} : pc[u] = "out"
  BY DEF PcInv

(* and whatever is going to be sent is sent by it.                         *)
LEMMA Alone ==
    ASSUME NEW t \in Thread, NEW p, \A u \in Thread \ {t} : pc[u] = "out",
           \E u \in Thread : ComingFrom(u, p)
    PROVE  ComingFrom(t, p)
<1>1. PICK u \in Thread : ComingFrom(u, p)
  OBVIOUS
<1>2. pc[u] # "out"
  BY <1>1 DEF ComingFrom, Sending
<1> QED BY <1>1, <1>2

(* When it leaves the sending code there is nothing to say of senders.     *)
LEMMA Vacuous ==
    ASSUME NEW t \in Thread, NEW l, pc \in [Thread -> Label], pc' = [pc EXCEPT ![t] = l],
           \A u \in Thread \ {t} : pc[u] = "out", l \notin {"snap", "offer"}
    PROVE  SrcInv' /\ FrameInv'
<1>1. \A u \in Thread : pc'[u] \notin {"snap", "offer"}
  OBVIOUS
<1> QED BY <1>1 DEF SrcInv, FrameInv

(* The place of a pixel changes only with the mode and the rotation.       *)
LEMMA PlaceSame ==
    ASSUME native_rotation' = native_rotation, fb'.w = fb.w, fb'.h = fb.h
    PROVE  \A x, y : PlaceOf(x, y)' = PlaceOf(x, y)
  BY DEF PlaceOf

(* A step that leaves picture and shadow alone keeps ShadowInv.            *)
LEMMA ShadowSame ==
    ASSUME ShadowInv, UNCHANGED <<fb, width, height, native_rotation, erased, shadow>>,
           pc'["sysfs"] # "clear" => pc["sysfs"] # "clear",
           pc["drm"] = "copy" => pc'["drm"] = "copy" /\ rect'["drm"] = rect["drm"]
    PROVE  ShadowInv'
<1> SUFFICES ASSUME fb.w = width, fb.h = height, pc["sysfs"] # "clear",
                    NEW d \in Cells(fb.w, fb.h)
             PROVE  (PlaceOf(d[1], d[2]) \in erased \/ Drawn(d) \/ Due(d))'
  BY DEF ShadowInv, Cells
<1>1. PlaceOf(d[1], d[2])' = PlaceOf(d[1], d[2])
  BY PlaceSame
<1>2. PlaceOf(d[1], d[2]) \in erased \/ Drawn(d) \/ Due(d)
  BY DEF ShadowInv
<1>3. CASE PlaceOf(d[1], d[2]) \in erased
  BY <1>1, <1>3
<1>4. CASE Drawn(d)
  BY <1>1, <1>4 DEF Drawn
<1>5. CASE Due(d)
  BY <1>5 DEF Due, CellsWithin
<1> QED BY <1>2, <1>3, <1>4, <1>5

(* So does one that clears the shadow, which excuses every pixel.          *)
LEMMA Wiped ==
    ASSUME erased' = Pixel, fb' = fb, native_rotation' = native_rotation,
           width' = width, height' = height, TypeInv
    PROVE  ShadowInv' /\ PanelInv'
<1>1. PanelInv'
  BY DEF PanelInv
<1>2. ASSUME fb.w = width, fb.h = height, NEW d \in Cells(fb.w, fb.h)
      PROVE  PlaceOf(d[1], d[2])' \in erased'
  <2>1. /\ native_rotation \in Rotation /\ fb.w \in Nat /\ fb.h \in Nat
        /\ Pixel = 0 .. fb.w * fb.h - 1
    BY <1>2, SizeFacts DEF TypeInv, TMode
  <2>2. d[1] \in 0 .. fb.w - 1 /\ d[2] \in 0 .. fb.h - 1
    BY DEF Cells
  <2>3. PlaceOf(d[1], d[2]) \in Pixel
    BY <2>1, <2>2, PlaceBound
  <2> QED BY <2>3, PlaceSame
<1> QED BY <1>1, <1>2 DEF ShadowInv, Cells

(* A step that leaves shadow, frames and panel alone keeps PanelInv if     *)
(* whoever was going to send still is,                                     *)
LEMMA PanelSame ==
    ASSUME PanelInv, UNCHANGED <<erased, missed, shadow, panel, slot, waiting>>,
           Lighting' => Lighting,
           \A p \in Pixel : (\E t \in Thread : ComingFrom(t, p)) => (\E t \in Thread : ComingFrom(t, p))'
    PROVE  PanelInv'
<1>1. \A p \in Pixel : Final(p)' = Final(p)
  BY DEF Final
<1> QED BY <1>1 DEF PanelInv

(* for which the thread that takes it answers,                             *)
LEMMA PanelAlone ==
    ASSUME PanelInv, UNCHANGED <<erased, missed, shadow, panel, slot, waiting>>,
           Lighting' => Lighting, NEW t \in Thread,
           \A u \in Thread \ {t} : pc[u] = "out",
           \A p \in Pixel : ComingFrom(t, p) => ComingFrom(t, p)'
    PROVE  PanelInv'
  BY PanelSame, Alone

(* and so does a step after which everything is going to be sent.          *)
LEMMA PanelNew ==
    ASSUME NEW t \in Thread, \A p \in Pixel : ComingFrom(t, p)'
    PROVE  PanelInv'
  BY DEF PanelInv

(* Where a pixel of the framebuffer lies, there and on the panel.          *)
LEMMA CellFacts ==
    ASSUME TypeInv, fb.w = width, fb.h = height, NEW d \in Cells(fb.w, fb.h)
    PROVE  /\ d = <<d[1], d[2]>> /\ d[1] \in 0 .. fb.w - 1 /\ d[2] \in 0 .. fb.h - 1
           /\ fb.w \in Nat \ {0} /\ fb.h \in Nat \ {0}
           /\ native_rotation \in Rotation
           /\ PlaceOf(d[1], d[2]) \in Pixel
           /\ d[2] * fb.w + d[1] \in Pixel
           /\ (d[2] * fb.w + d[1]) % fb.w = d[1] /\ (d[2] * fb.w + d[1]) \div fb.w = d[2]
<1>1. /\ native_rotation \in Rotation /\ fb.w \in Nat \ {0} /\ fb.h \in Nat \ {0}
      /\ Pixel = 0 .. fb.w * fb.h - 1
  BY SizeFacts DEF TypeInv, TMode
<1>2. d = <<d[1], d[2]>> /\ d[1] \in 0 .. fb.w - 1 /\ d[2] \in 0 .. fb.h - 1
  BY DEF Cells
<1>3. PlaceOf(d[1], d[2]) \in Pixel
  BY <1>1, <1>2, PlaceBound
<1>4. d[2] * fb.w + d[1] \in Pixel
  BY <1>1, <1>2, IndexBound
<1>5. d[2] \in Nat
  BY <1>1, <1>2
<1>6. (d[2] * fb.w + d[1]) % fb.w = d[1] /\ (d[2] * fb.w + d[1]) \div fb.w = d[2]
  BY <1>1, <1>2, <1>5, IndexDivMod
<1> QED BY <1>1, <1>2, <1>3, <1>4, <1>6

(* Confining a clip drops no pixel of the mode.                            *)
LEMMA SafeCells ==
    ASSUME TMode, NEW q \in RectType, NEW d \in Cells(width, height)
    PROVE  d \in CellsWithin(q) <=> d \in CellsWithin(Safe(q))
<1>1. width \in Nat /\ height \in Nat
  BY SizeFacts
<1>2. d[1] \in 0 .. width - 1 /\ d[2] \in 0 .. height - 1 /\ d = <<d[1], d[2]>>
  BY DEF Cells
<1>3. q.x \in Int /\ q.y \in Int /\ q.w \in Int /\ q.h \in Int
  BY DEF RectType
<1>4. /\ Safe(q).x = Greatest(q.x, 0) /\ Safe(q).y = Greatest(q.y, 0)
      /\ Safe(q).w = Least(q.x + q.w, width) - Greatest(q.x, 0)
      /\ Safe(q).h = Least(q.y + q.h, height) - Greatest(q.y, 0)
  BY DEF Safe, AsRect
<1>5. /\ d[1] \in q.x .. q.x + q.w - 1 <=> d[1] \in Safe(q).x .. Safe(q).x + Safe(q).w - 1
      /\ d[2] \in q.y .. q.y + q.h - 1 <=> d[2] \in Safe(q).y .. Safe(q).y + Safe(q).h - 1
  BY <1>1, <1>2, <1>3, <1>4 DEF Greatest, Least
<1>6. \A r : d \in CellsWithin(r) <=> /\ d[1] \in r.x .. r.x + r.w - 1
                                      /\ d[2] \in r.y .. r.y + r.h - 1
  BY <1>2 DEF CellsWithin
<1> QED BY <1>5, <1>6

(* Timers, the idle flag and disable_partial do not touch the picture.     *)
LEMMA PictureAside ==
    ASSUME PictureInv, is_idle => is_idle',
           UNCHANGED <<setup, pc, op, rect, src, frame, width, height, native_rotation, fb,
                       erased, missed, shadow, panel, slot, waiting, pipe_on>>
    PROVE  PictureInv'
<1>0. Serial' = Serial
  BY DEF Serial
<1> SUFFICES ASSUME Serial
             PROVE  SrcInv' /\ FrameInv' /\ ShadowInv' /\ PanelInv'
  BY <1>0 DEF PictureInv
<1>1. SrcInv /\ FrameInv /\ ShadowInv /\ PanelInv
  BY DEF PictureInv
<1>2. SrcInv' /\ FrameInv'
  BY <1>1 DEF SrcInv, FrameInv, Faithful
<1>3. ShadowInv'
  BY <1>1, ShadowSame
<1>4. PanelInv'
  <2>1. \A t, p : ComingFrom(t, p)' <=> ComingFrom(t, p)
    BY DEF ComingFrom
  <2>2. Lighting' => Lighting
    BY DEF Lighting
  <2> QED BY <1>1, <2>1, <2>2, PanelSame
<1> QED BY <1>2, <1>3, <1>4

(* A handler that ends has nothing left to send.                           *)
LEMMA PictureReturn ==
    ASSUME TypeInv, PcInv, PictureInv, NEW t \in Thread, Return(t), At(t, "finish"),
           UNCHANGED <<setup, fb, width, height, native_rotation, erased, missed, shadow,
                       panel, slot, waiting>>,
           Lighting' => Lighting
    PROVE  PictureInv'
<1>0. Serial' = Serial
  BY DEF Serial
<1> SUFFICES ASSUME Serial
             PROVE  SrcInv' /\ FrameInv' /\ ShadowInv' /\ PanelInv'
  BY <1>0 DEF PictureInv
<1>1. ShadowInv /\ PanelInv
  BY DEF PictureInv
<1>2. \A u \in Thread \ {t} : pc[u] = "out"
  BY Others DEF At, Serial
<1>3. pc \in [Thread -> Label] /\ pc' = [pc EXCEPT ![t] = "out"] /\ pc[t] = "finish"
  BY DEF TypeInv, TThread, Return, At
<1>4. SrcInv' /\ FrameInv'
  <2>1. pc \in [Thread -> Label] /\ pc' = [pc EXCEPT ![t] = "out"]
    BY <1>3
  <2> QED BY <1>2, <2>1, Vacuous
<1>5. pc["drm"] # "copy" /\ pc["sysfs"] # "clear" /\ pc'["drm"] # "copy"
  BY <1>2, <1>3 DEF Thread
<1>6. ShadowInv'
  <2>1. UNCHANGED <<fb, width, height, native_rotation, erased, shadow>>
    OBVIOUS
  <2> QED BY <1>1, <1>5, <2>1, ShadowSame
<1>7. PanelInv'
  <2>1. UNCHANGED <<erased, missed, shadow, panel, slot, waiting>>
    OBVIOUS
  <2>2. \A p \in Pixel : ~ComingFrom(t, p)
    BY <1>3 DEF ComingFrom, Sending
  <2> QED BY <1>1, <1>2, <2>1, <2>2, PanelAlone
<1> QED BY <1>4, <1>6, <1>7

(* One lemma per action: the picture after it.                             *)
LEMMA PictureFbMarkDirty ==
    ASSUME NEW t \in Thread, TypeInv, PcInv, BoundsInv, BlankInv, PictureInv, FbMarkDirty(t)
    PROVE  PictureInv'
<1>0. setup' = setup /\ Serial' = Serial
  BY DEF FbMarkDirty, Serial, setupVars, drawVars
<1> SUFFICES ASSUME Serial
             PROVE  SrcInv' /\ FrameInv' /\ ShadowInv' /\ PanelInv'
  BY <1>0 DEF PictureInv
<1>00. SrcInv /\ FrameInv /\ ShadowInv /\ PanelInv
  BY DEF PictureInv
<1>01. /\ pc \in [Thread -> Label] /\ op \in [Thread -> Op] /\ rect \in [Thread -> RectType]
       /\ src \in [Thread -> {"none", "shadow", "black"}]
       /\ \A u \in Thread : PcOk(u, op[u], pc[u])
  BY DEF TypeInv, TThread, PcInv
<1>02. \A u \in Thread \ {t} : pc[u] = "out"
  BY Others DEF FbMarkDirty, At, Serial
<1> DEFINE q == rect[t]
           r == Safe(q)
<1>1. pc[t] = "copy" /\ t = "drm" /\ op' = op /\ q \in RectType
  BY <1>01 DEF FbMarkDirty, At, Goto, PcOk
<1>2. \/ /\ ~clip_valid(r) /\ pc' = [pc EXCEPT ![t] = "finish"]
         /\ UNCHANGED <<shadow, erased>>
      \/ /\ clip_valid(r) /\ pc' = [pc EXCEPT ![t] = "request"]
         /\ rect' = [rect EXCEPT ![t] = r]
         /\ CopyFits(r) => shadow' = Copied(r) /\ erased' = erased \ CopyTargets(r)
      \/ /\ clip_valid(r) /\ pc' = [pc EXCEPT ![t] = "finish"]
         /\ Effective # Rotate0 /\ shadow' = shadow
         /\ erased' = erased \cup (Region(r) \cap Pixel)
  BY DEF FbMarkDirty, Goto
<1>3. SrcInv' /\ FrameInv'
  BY <1>01, <1>02, <1>2, Vacuous
<1>4. /\ UNCHANGED <<fb, width, height, native_rotation, missed, panel, slot, waiting>>
      /\ Lighting' = Lighting
  BY <1>1
     DEF FbMarkDirty, Lighting, setupVars, drawVars, modeVars, flipVars,
         stateVars, mailVars
<1>5. /\ fb.w = width /\ fb.h = height
      /\ op["drm"] = "enable" \/ native_rotation # Rotate0 => q = WholeRect
  BY <1>1 DEF BoundsInv, CopyInv, At, FbFits, Serial
<1>6. pc["sysfs"] # "clear" /\ pc'["drm"] # "copy"
  BY <1>01, <1>02, <1>1, <1>2 DEF Thread
<1>7. CASE ~clip_valid(r)
  <2>1. UNCHANGED <<shadow, erased>>
    BY <1>2, <1>7
  <2>2. \A d \in Cells(width, height) : d \notin CellsWithin(q)
    <3>1. \A d : d \notin CellsWithin(r)
      <4>1. r.x \in Int /\ r.y \in Int /\ r.w \in Int /\ r.h \in Int
        BY <1>1, SafeFacts DEF RectType, TypeInv
      <4>2. r.w <= 0 \/ r.h <= 0
        BY <1>7, <4>1 DEF clip_valid
      <4> HIDE DEF r
      <4> QED BY <4>1, <4>2 DEF CellsWithin
    <3> QED BY <1>1, <3>1, SafeCells DEF TypeInv
  <2>3. ShadowInv'
    <3> SUFFICES ASSUME NEW d \in Cells(fb.w, fb.h)
                 PROVE  PlaceOf(d[1], d[2])' \in erased' \/ Drawn(d)'
      BY <1>4 DEF ShadowInv, Cells
    <3>1. PlaceOf(d[1], d[2])' = PlaceOf(d[1], d[2])
      BY <1>4, PlaceSame
    <3>2. PlaceOf(d[1], d[2]) \in erased \/ Drawn(d)
      BY <1>00, <1>1, <1>5, <1>6, <2>2 DEF ShadowInv, Due
    <3> QED BY <1>4, <2>1, <3>1, <3>2 DEF Drawn
  <2>4. op["drm"] # "enable"
    <3>1. ASSUME q = WholeRect PROVE clip_valid(r)
      <4>1. width \in Nat \ {0} /\ height \in Nat \ {0}
        BY SizeFacts DEF TypeInv
      <4>2. /\ Greatest(q.x, 0) = 0 /\ Greatest(q.y, 0) = 0
            /\ Least(q.x + q.w, width) = width /\ Least(q.y + q.h, height) = height
        BY <3>1, <4>1 DEF WholeRect, Greatest, Least
      <4>3. r.w = width - 0 /\ r.h = height - 0
        BY <4>2 DEF Safe, AsRect
      <4> QED BY <4>1, <4>3 DEF clip_valid
    <3> QED BY <1>5, <1>7, <3>1
  <2>5. PanelInv'
    <3>1. \A p \in Pixel : ~ComingFrom(t, p)
      BY <1>1, <2>4 DEF ComingFrom, Sending
    <3> QED BY <1>00, <1>02, <1>4, <2>1, <3>1, PanelAlone
  <2> QED BY <1>3, <2>3, <2>5
<1>8. CASE /\ clip_valid(r) /\ pc' = [pc EXCEPT ![t] = "request"]
           /\ rect' = [rect EXCEPT ![t] = r]
           /\ CopyFits(r) => shadow' = Copied(r) /\ erased' = erased \ CopyTargets(r)
  <2>1. Copying(r)
    BY <1>1, <1>5, <1>8, SafeFits DEF TypeInv, FbFits
  <2>3. CopyFits(r) => shadow' = Copied(r) /\ erased' = erased \ CopyTargets(r)
    BY <1>8
  <2>4. pc'[t] = "request" /\ rect'[t] = r
    BY <1>01, <1>8
  <2>5. \A d \in Cells(width, height) : d \in CellsWithin(q) <=> d \in CellsWithin(r)
    BY <1>1, SafeCells DEF TypeInv
  <2> HIDE DEF r
  <2>6. shadow' = Copied(r) /\ erased' = erased \ CopyTargets(r)
    BY <2>1, <2>3, CopyStays
  <2>7. /\ \A d \in CellsWithin(r) :
              Copied(r)[PlaceOf(d[1], d[2])] = fb.px[d[2] * fb.w + d[1]]
        /\ \A i \in Pixel \ CopyTargets(r) : Copied(r)[i] = shadow[i]
        /\ CopyTargets(r) \subseteq RegionIn(r, width)
        /\ \A d \in Cells(fb.w, fb.h) \ CellsWithin(r) :
              PlaceOf(d[1], d[2]) \notin CopyTargets(r)
    BY <2>1, CopyPlaces
  <2>8. ShadowInv'
    <3> SUFFICES ASSUME NEW d \in Cells(fb.w, fb.h)
                 PROVE  PlaceOf(d[1], d[2])' \in erased' \/ Drawn(d)'
      BY <1>4 DEF ShadowInv, Cells
    <3>1. PlaceOf(d[1], d[2])' = PlaceOf(d[1], d[2]) /\ PlaceOf(d[1], d[2]) \in Pixel
      BY <1>4, <1>5, PlaceSame, CellFacts
    <3>2. CASE d \in CellsWithin(r)
      BY <1>4, <2>6, <2>7, <3>1, <3>2 DEF Drawn
    <3>3. CASE d \notin CellsWithin(r)
      <4>1. PlaceOf(d[1], d[2]) \in erased \/ Drawn(d)
        BY <1>00, <1>1, <1>5, <1>6, <2>5, <3>3 DEF ShadowInv, Due
      <4>2. PlaceOf(d[1], d[2]) \notin CopyTargets(r)
        BY <2>7, <3>3
      <4> QED BY <1>4, <2>6, <2>7, <3>1, <4>1, <4>2 DEF Drawn
    <3> QED BY <3>2, <3>3
  <2>9. PanelInv'
    <3> SUFFICES ASSUME Lighting, NEW p \in Pixel, p \notin RegionIn(r, width)
                 PROVE  p \in erased' \/ p \in missed' \/ Final(p)' = shadow'[p]
      BY <1>4, <2>4 DEF PanelInv, ComingFrom, Sending
    <3>1. ASSUME op["drm"] = "enable" PROVE FALSE
      <4>1. r = Whole(width, height)
        BY <1>5, <3>1, WholeIsSafe DEF TypeInv, r
      <4>2. RegionIn(r, width) = Pixel
        BY <4>1, SizeFacts, WholeInside DEF TypeInv
      <4> QED BY <4>2
    <3>2. p \in erased \/ p \in missed \/ Final(p) = shadow[p]
      <4>1. ~ComingFrom(t, p)
        BY <1>1, <3>1 DEF ComingFrom, Sending
      <4> QED BY <1>00, <1>02, <4>1, Alone DEF PanelInv
    <3>3. p \notin CopyTargets(r)
      BY <2>7
    <3>4. Final(p)' = Final(p)
      BY <1>4 DEF Final
    <3> QED BY <1>4, <2>6, <2>7, <3>2, <3>3, <3>4
  <2> QED BY <1>3, <2>8, <2>9
<1>9. CASE /\ clip_valid(r) /\ pc' = [pc EXCEPT ![t] = "finish"]
           /\ Effective # Rotate0 /\ shadow' = shadow
           /\ erased' = erased \cup (Region(r) \cap Pixel)
  <2>1. r = Whole(width, height)
    <3>1. native_rotation # Rotate0
      BY <1>9, EffectiveIsNative DEF TypeInv, TMode
    <3> QED BY <1>5, <3>1, WholeIsSafe DEF TypeInv
  <2> HIDE DEF r
  <2>2. Region(r) = Pixel
    <3>1. Region(r) = RegionIn(r, width)
      BY DEF Region, RegionIn, FrameIndex, FrameIndexIn
    <3> QED BY <2>1, <3>1, SizeFacts, WholeInside DEF TypeInv
  <2>3. Pixel \subseteq erased'
    BY <1>9, <2>2
  <2>4. ShadowInv'
    <3> SUFFICES ASSUME NEW d \in Cells(fb.w, fb.h)
                 PROVE  PlaceOf(d[1], d[2])' \in erased' \/ Drawn(d)'
      BY <1>4 DEF ShadowInv, Cells
    <3>1. PlaceOf(d[1], d[2])' = PlaceOf(d[1], d[2]) /\ PlaceOf(d[1], d[2]) \in Pixel
      BY <1>4, <1>5, PlaceSame, CellFacts
    <3> QED BY <2>3, <3>1
  <2>5. PanelInv'
    BY <2>3 DEF PanelInv, Pixel
  <2> QED BY <1>3, <2>4, <2>5
<1> QED BY <1>2, <1>7, <1>8, <1>9

LEMMA PictureRequestUpdate ==
    ASSUME NEW t \in Thread, TypeInv, PcInv, BoundsInv, BlankInv, PictureInv, RequestUpdate(t)
    PROVE  PictureInv'
<1>0. setup' = setup /\ Serial' = Serial
  BY DEF RequestUpdate, Serial, setupVars, drawVars
<1> SUFFICES ASSUME Serial
             PROVE  SrcInv' /\ FrameInv' /\ ShadowInv' /\ PanelInv'
  BY <1>0 DEF PictureInv
<1>00. SrcInv /\ FrameInv /\ ShadowInv /\ PanelInv
  BY DEF PictureInv
<1>01. /\ pc \in [Thread -> Label] /\ op \in [Thread -> Op] /\ rect \in [Thread -> RectType]
       /\ src \in [Thread -> {"none", "shadow", "black"}]
       /\ \A u \in Thread : PcOk(u, op[u], pc[u])
  BY DEF TypeInv, TThread, PcInv
<1>02. \A u \in Thread \ {t} : pc[u] = "out"
  BY Others DEF RequestUpdate, At, Serial
<1>1. /\ op' = op /\ pc[t] = "request" /\ width' = width
      /\ \/ /\ blanked /\ ~Forced(t) /\ pc' = [pc EXCEPT ![t] = "finish"]
         \/ /\ pc' = [pc EXCEPT ![t] = "snap"]
            /\ rect' = [rect EXCEPT ![t] = IF disable_partial THEN WholeRect ELSE @]
            /\ src' = [src EXCEPT ![t] = data]
  BY DEF RequestUpdate, At, modeVars
<1>2. SrcInv' /\ FrameInv'
  <2>1. CASE pc' = [pc EXCEPT ![t] = "finish"]
    BY <1>01, <1>02, <2>1, Vacuous
  <2>2. CASE pc' = [pc EXCEPT ![t] = "snap"] /\ src' = [src EXCEPT ![t] = data]
    <3>1. \A u \in Thread : pc'[u] \notin {"snap", "offer"} \/ (u = t /\ pc'[u] = "snap")
      BY <1>01, <1>02, <2>2
    <3>2. op'["drm"] # "disable" => src'[t] = "shadow"
      BY <1>01, <1>1, <2>2 DEF BlankInv
    <3> QED BY <3>1, <3>2 DEF SrcInv, FrameInv
  <2> QED BY <1>1, <2>1, <2>2
<1>3. ShadowInv'
  <2>1. UNCHANGED <<fb, width, height, native_rotation, erased, shadow>>
    BY DEF RequestUpdate, setupVars, drawVars, modeVars, bufVars,
           flipVars, stateVars, mailVars
  <2>2. pc["drm"] # "copy" /\ pc["sysfs"] # "clear"
    BY <1>02, <1>1 DEF Thread
  <2> QED BY <1>00, <2>1, <2>2, ShadowSame
<1>4. PanelInv'
  <2>1. UNCHANGED <<erased, missed, shadow, panel, slot, waiting>> /\ Lighting' = Lighting
    BY <1>1
       DEF RequestUpdate, Lighting, setupVars, drawVars, modeVars,
           bufVars, flipVars, stateVars, mailVars
  <2>2. CASE blanked /\ ~Forced(t) /\ pc' = [pc EXCEPT ![t] = "finish"]
    <3>1. ~Lighting
      BY <2>2 DEF Lighting, BlankInv
    <3> QED BY <2>1, <3>1 DEF PanelInv
  <2>3. CASE /\ pc' = [pc EXCEPT ![t] = "snap"]
             /\ rect' = [rect EXCEPT ![t] = IF disable_partial THEN WholeRect ELSE @]
    <3>1. pc'[t] = "snap" /\ (rect'[t] = WholeRect \/ rect'[t] = rect[t])
      BY <1>01, <2>3
    <3>2. RegionIn(WholeRect, width) = Pixel
      BY SizeFacts, WholeInside DEF TypeInv
    <3>3. \A p \in Pixel : ComingFrom(t, p) => ComingFrom(t, p)'
      BY <1>1, <3>1, <3>2 DEF ComingFrom, Sending
    <3> QED BY <1>00, <1>02, <2>1, <3>3, PanelAlone
  <2> QED BY <1>1, <2>2, <2>3
<1> QED BY <1>2, <1>3, <1>4

LEMMA PictureSendFrame ==
    ASSUME NEW t \in Thread, TypeInv, PcInv, BoundsInv, BlankInv, PictureInv, SendFrame(t)
    PROVE  PictureInv'
<1>0. setup' = setup /\ Serial' = Serial
  BY DEF SendFrame, Serial, setupVars, drawVars
<1> SUFFICES ASSUME Serial
             PROVE  SrcInv' /\ FrameInv' /\ ShadowInv' /\ PanelInv'
  BY <1>0 DEF PictureInv
<1>00. SrcInv /\ FrameInv /\ ShadowInv /\ PanelInv
  BY DEF PictureInv
<1>01. /\ pc \in [Thread -> Label] /\ op \in [Thread -> Op] /\ rect \in [Thread -> RectType]
       /\ src \in [Thread -> {"none", "shadow", "black"}]
       /\ \A u \in Thread : PcOk(u, op[u], pc[u])
  BY DEF TypeInv, TThread, PcInv
<1>02. \A u \in Thread \ {t} : pc[u] = "out"
  BY Others DEF SendFrame, At, Serial
<1> DEFINE r == rect[t]
           f == FrameOf(r, Contents(src[t]))
<1>1. pc[t] = "snap" /\ UNCHANGED <<op, src, rect, width, shadow>>
  BY DEF SendFrame, At, Goto, modeVars
<1>2. \/ /\ pc' = [pc EXCEPT ![t] = "finish"] /\ frame' = frame
         /\ missed' = missed \cup (Region(r) \cap Pixel)
      \/ /\ pc' = [pc EXCEPT ![t] = "offer"] /\ missed' = missed
         /\ frame' = [frame EXCEPT ![t] = f]
  BY DEF SendFrame, Goto, FrameOf
<1>3. Fitting(r)
  BY <1>01, <1>1 DEF BoundsInv, RectInv, Serial, Sending
<1>4. Region(r) = RegionIn(r, width)
  BY DEF Region, RegionIn, FrameIndex, FrameIndexIn
<1>5. SrcInv' /\ FrameInv'
  <2>1. CASE pc' = [pc EXCEPT ![t] = "finish"]
    BY <1>01, <1>02, <2>1, Vacuous
  <2>2. CASE pc' = [pc EXCEPT ![t] = "offer"] /\ frame' = [frame EXCEPT ![t] = f]
    <3>1. \A u \in Thread : pc'[u] \notin {"snap", "offer"} \/ (u = t /\ pc'[u] = "offer")
      BY <1>01, <1>02, <2>2
    <3>2. ASSUME op'["drm"] # "disable" PROVE src'[t] = "shadow"
      BY <1>00, <1>1, <3>2 DEF SrcInv
    <3>3. ASSUME op'["drm"] # "disable" PROVE Faithful(f, r)
      <4>1. Contents(src[t]) = shadow
        BY <1>1, <3>2, <3>3 DEF Contents
      <4>2. r = WholeRect \/ (width = W /\ height = H)
        BY <1>3, SizeFacts
           DEF Fitting, Serial, TypeInv, TMode, rotation_swaps_dims, Rotate0
      <4>3. /\ width \in Nat \ {0} /\ height \in Nat \ {0} /\ H \in Nat
            /\ Pixel = 0 .. width * height - 1 /\ InsideOf(r, width, height)
        BY <1>3, SizeFacts, SizeAssumption DEF Fitting, TypeInv
      <4> HIDE DEF r
      <4>4. /\ Shows(FrameOf(r, shadow)) = RegionIn(r, width)
            /\ \A i \in Shows(FrameOf(r, shadow)) : Value(FrameOf(r, shadow), i) = shadow[i]
        BY <4>2, <4>3, FrameShows
      <4> QED BY <4>1, <4>4 DEF Faithful
    <3>4. frame'[t] = f
      BY <2>2 DEF TypeInv, TThread
    <3> HIDE DEF f
    <3> QED BY <1>1, <3>1, <3>2, <3>3, <3>4 DEF SrcInv, FrameInv, Faithful
  <2> QED BY <1>2, <2>1, <2>2
<1>6. ShadowInv'
  <2>1. UNCHANGED <<fb, width, height, native_rotation, erased, shadow>>
    BY DEF SendFrame, setupVars, drawVars, modeVars, flipVars, stateVars
  <2>2. pc["drm"] # "copy" /\ pc["sysfs"] # "clear"
    BY <1>02, <1>1 DEF Thread
  <2> QED BY <1>00, <2>1, <2>2, ShadowSame
<1>7. PanelInv'
  <2>1. UNCHANGED <<erased, shadow, panel, slot, waiting>> /\ Lighting' = Lighting
    BY <1>1
       DEF SendFrame, Lighting, setupVars, drawVars, modeVars, flipVars,
           stateVars
  <2> SUFFICES ASSUME Lighting, NEW p \in Pixel
               PROVE  \/ p \in erased' \/ p \in missed'
                      \/ Final(p)' = shadow'[p]
                      \/ \E u \in Thread : ComingFrom(u, p)'
    BY <2>1 DEF PanelInv
  <2>2. Final(p)' = Final(p)
    BY <2>1 DEF Final
  <2>3. p \in erased \/ p \in missed \/ Final(p) = shadow[p] \/ p \in RegionIn(r, width)
    <3>1. ASSUME NEW u \in Thread, ComingFrom(u, p) PROVE p \in RegionIn(r, width)
      BY <1>02, <1>1, <3>1, Alone DEF ComingFrom
    <3> QED BY <1>00, <3>1 DEF PanelInv
  <2>4. CASE p \in RegionIn(r, width)
    <3>1. CASE missed' = missed \cup (Region(r) \cap Pixel)
      BY <1>4, <2>4, <3>1
    <3>2. CASE pc' = [pc EXCEPT ![t] = "offer"]
      <4>1. pc'[t] = "offer" /\ rect'[t] = r /\ width' = width
        BY <1>01, <1>1, <3>2
      <4>2. ComingFrom(t, p)'
        BY <2>4, <4>1 DEF ComingFrom, Sending
      <4> QED BY <4>2
    <3> QED BY <1>2, <3>1, <3>2
  <2>5. missed \subseteq missed'
    BY <1>2
  <2> QED BY <2>1, <2>2, <2>3, <2>4, <2>5
<1> QED BY <1>5, <1>6, <1>7

LEMMA PictureOffer ==
    ASSUME NEW t \in Thread, TypeInv, PcInv, BoundsInv, BlankInv, SlotInv, PictureInv, Offer(t)
    PROVE  PictureInv'
<1>0. setup' = setup /\ Serial' = Serial
  BY DEF Offer, Serial, setupVars, drawVars
<1> SUFFICES ASSUME Serial
             PROVE  SrcInv' /\ FrameInv' /\ ShadowInv' /\ PanelInv'
  BY <1>0 DEF PictureInv
<1>00. SrcInv /\ FrameInv /\ ShadowInv /\ PanelInv
  BY DEF PictureInv
<1>01. /\ pc \in [Thread -> Label] /\ op \in [Thread -> Op] /\ rect \in [Thread -> RectType]
       /\ src \in [Thread -> {"none", "shadow", "black"}]
       /\ \A u \in Thread : PcOk(u, op[u], pc[u])
  BY DEF TypeInv, TThread, PcInv
<1>02. \A u \in Thread \ {t} : pc[u] = "out"
  BY Others DEF Offer, At, Serial
<1> DEFINE f == frame[t]
           r == rect[t]
<1>1. pc[t] = "offer" /\ pc' = [pc EXCEPT ![t] = "finish"] /\ op' = op
  BY DEF Offer, At, Goto
<1>2. SrcInv' /\ FrameInv'
  <2>1. pc' = [pc EXCEPT ![t] = "finish"]
    BY <1>1
  <2> QED BY <1>01, <1>02, <2>1, Vacuous
<1>3. ShadowInv'
  <2>1. UNCHANGED <<fb, width, height, native_rotation, erased, shadow>>
    BY DEF Offer, setupVars, drawVars, modeVars, bufVars, flipVars, stateVars
  <2>2. pc["drm"] # "copy" /\ pc["sysfs"] # "clear"
    BY <1>02, <1>1 DEF Thread
  <2> QED BY <1>00, <2>1, <2>2, ShadowSame
<1>4. PanelInv'
  <2>1. UNCHANGED <<erased, shadow, panel>> /\ Lighting' = Lighting
    BY <1>1
       DEF Offer, Lighting, setupVars, drawVars, modeVars, bufVars,
           flipVars, stateVars
  <2> SUFFICES ASSUME Lighting, NEW p \in Pixel
               PROVE  p \in erased' \/ p \in missed' \/ Final(p)' = shadow'[p]
    BY <2>1 DEF PanelInv
  <2>2. /\ Shows(f) = RegionIn(r, width)
        /\ \A i \in Shows(f) : Value(f, i) = shadow[i]
    BY <1>00, <1>1 DEF FrameInv, Faithful, Lighting
  <2>3. p \in erased \/ p \in missed \/ Final(p) = shadow[p] \/ p \in Shows(f)
    <3>1. ASSUME NEW u \in Thread, ComingFrom(u, p) PROVE p \in Shows(f)
      BY <1>02, <1>1, <2>2, <3>1, Alone DEF ComingFrom
    <3> QED BY <1>00, <3>1 DEF PanelInv
  <2>4. CASE slot = NoFrame
    <3>1. slot' = f /\ missed' = missed \ Shows(f) /\ waiting' = waiting /\ waiting = NoFrame
      BY <2>4 DEF Offer, Lighting, SlotInv
    <3>2. p \notin Shows(NoFrame)
      BY DEF Shows, NoFrame, FrameCells, NoRect
    <3> HIDE DEF f
    <3>3. Final(p)' = IF p \in Shows(f) THEN Value(f, p) ELSE panel[p]
      BY <2>1, <3>1, <3>2 DEF Final
    <3>4. Final(p) = panel[p]
      BY <2>4, <3>1, <3>2 DEF Final
    <3> QED BY <2>1, <2>2, <2>3, <3>1, <3>3, <3>4
  <2>5. CASE slot # NoFrame
    <3>1. /\ waiting' = f /\ slot' = slot
          /\ missed' = (missed \cup Shows(waiting)) \ Shows(f)
      BY <2>5 DEF Offer, Lighting
    <3> HIDE DEF f
    <3>2. Final(p)' = IF p \in Shows(f) THEN Value(f, p)
                      ELSE IF p \in Shows(slot) THEN Value(slot, p) ELSE panel[p]
      BY <2>1, <3>1 DEF Final
    <3>3. p \in Shows(f) \/ p \in Shows(waiting) \/ Final(p)' = Final(p)
      BY <3>2 DEF Final
    <3> QED BY <2>1, <2>2, <2>3, <3>1, <3>2, <3>3
  <2> QED BY <2>4, <2>5
<1> QED BY <1>2, <1>3, <1>4

LEMMA PictureFinishUpdate ==
    ASSUME TypeInv, PcInv, BoundsInv, BlankInv, PictureInv, FinishUpdate
    PROVE  PictureInv'
<1>1. /\ Return("drm") /\ At("drm", "finish") /\ "drm" \in Thread
      /\ UNCHANGED <<setup, fb, width, height, native_rotation, erased, missed, shadow,
                     panel, slot, waiting>>
  BY DEF FinishUpdate, Thread, setupVars, drawVars, modeVars, bufVars,
         stateVars, mailVars
<1>2. Lighting' => Lighting
  <2>1. op' = [op EXCEPT !["drm"] = "none"] /\ op \in [Thread -> Op]
    BY DEF FinishUpdate, Return, TypeInv, TThread
  <2> QED BY <2>1
      DEF FinishUpdate, Lighting, Thread, setupVars, drawVars, modeVars,
          bufVars, stateVars, mailVars
<1> QED BY <1>1, <1>2, PictureReturn

LEMMA PictureFinishDisable ==
    ASSUME TypeInv, PcInv, BoundsInv, BlankInv, PictureInv, FinishDisable
    PROVE  PictureInv'
<1>1. /\ Return("drm") /\ At("drm", "finish") /\ "drm" \in Thread
      /\ UNCHANGED <<setup, fb, width, height, native_rotation, erased, missed, shadow,
                     panel, slot, waiting>>
  BY DEF FinishDisable, Thread, setupVars, drawVars, modeVars, mailVars
<1>2. Lighting' => Lighting
  <2>1. op' = [op EXCEPT !["drm"] = "none"] /\ op \in [Thread -> Op]
    BY DEF FinishDisable, Return, TypeInv, TThread
  <2> QED BY <2>1
      DEF FinishDisable, Lighting, Thread, setupVars, drawVars, modeVars,
          mailVars
<1> QED BY <1>1, <1>2, PictureReturn

LEMMA PictureFinishEnable ==
    ASSUME TypeInv, PcInv, BoundsInv, BlankInv, PictureInv, FinishEnable
    PROVE  PictureInv'
<1>1. /\ Return("drm") /\ At("drm", "finish") /\ "drm" \in Thread
      /\ UNCHANGED <<setup, fb, width, height, native_rotation, erased, missed, shadow,
                     panel, slot, waiting>>
  BY DEF FinishEnable, Thread, setupVars, drawVars, modeVars, bufVars,
         stateVars, mailVars
<1>2. Lighting' => Lighting
  <2>1. op' = [op EXCEPT !["drm"] = "none"] /\ op \in [Thread -> Op]
    BY DEF FinishEnable, Return, TypeInv, TThread
  <2> QED BY <2>1
      DEF FinishEnable, Lighting, Thread, setupVars, drawVars, modeVars,
          bufVars, stateVars, mailVars
<1> QED BY <1>1, <1>2, PictureReturn

LEMMA PictureScreenWake ==
    ASSUME TypeInv, PcInv, BoundsInv, BlankInv, PictureInv, ScreenWake
    PROVE  PictureInv'
<1>0. setup' = setup /\ Serial' = Serial
  BY DEF ScreenWake, Serial, setupVars, drawVars
<1> SUFFICES ASSUME Serial
             PROVE  SrcInv' /\ FrameInv' /\ ShadowInv' /\ PanelInv'
  BY <1>0 DEF PictureInv
<1>00. SrcInv /\ FrameInv /\ ShadowInv /\ PanelInv
  BY DEF PictureInv
<1>01. /\ pc \in [Thread -> Label] /\ op \in [Thread -> Op] /\ rect \in [Thread -> RectType]
       /\ src \in [Thread -> {"none", "shadow", "black"}]
       /\ \A u \in Thread : PcOk(u, op[u], pc[u])
  BY DEF TypeInv, TThread, PcInv
<1>02. \A u \in Thread \ {"wake"} : pc[u] = "out"
  BY Others DEF ScreenWake, At, Thread, Serial
<1>1. /\ op' = op /\ pc["wake"] = "check"
      /\ \/ blanked /\ pc' = [pc EXCEPT !["wake"] = "finish"]
         \/ ~blanked /\ pc' = [pc EXCEPT !["wake"] = "request"] /\ rect' = [rect EXCEPT !["wake"] = WholeRect]
  BY DEF ScreenWake, Goto, At
<1>2. SrcInv' /\ FrameInv'
  BY <1>01, <1>02, <1>1, Vacuous DEF Thread
<1>3. ShadowInv'
  <2>1. UNCHANGED <<fb, width, height, native_rotation, erased, shadow>>
    BY DEF ScreenWake, setupVars, drawVars, modeVars, bufVars, flipVars,
           stateVars, mailVars
  <2>2. pc["drm"] # "copy" /\ pc["sysfs"] # "clear"
    BY <1>02 DEF Thread
  <2> QED BY <1>00, <2>1, <2>2, ShadowSame
<1>4. PanelInv'
  <2>1. CASE blanked
    <3>1. ~Lighting'
      BY <1>1, <2>1 DEF Lighting, BlankInv, ScreenWake, stateVars
    <3> QED BY <3>1 DEF PanelInv
  <2>2. CASE ~blanked
    <3>1. pc'["wake"] = "request" /\ rect'["wake"] = WholeRect /\ width' = width
      BY <1>01, <1>1, <2>2 DEF ScreenWake, Thread, modeVars
    <3>2. RegionIn(WholeRect, width) = Pixel
      BY SizeFacts, WholeInside DEF TypeInv
    <3>3. \A p \in Pixel : ComingFrom("wake", p)'
      BY <3>1, <3>2 DEF ComingFrom, Sending
    <3> QED BY <3>3, PanelNew DEF Thread
  <2> QED BY <2>1, <2>2
<1> QED BY <1>2, <1>3, <1>4

LEMMA PictureFinishWake ==
    ASSUME TypeInv, PcInv, BoundsInv, BlankInv, PictureInv, FinishWake
    PROVE  PictureInv'
<1>1. /\ Return("wake") /\ At("wake", "finish") /\ "wake" \in Thread
      /\ UNCHANGED <<setup, fb, width, height, native_rotation, erased, missed, shadow,
                     panel, slot, waiting>>
  BY DEF FinishWake, Thread, setupVars, drawVars, modeVars, bufVars,
         flipVars, stateVars, mailVars
<1>2. Lighting' => Lighting
  <2>1. op' = [op EXCEPT !["wake"] = "none"] /\ op \in [Thread -> Op]
    BY DEF FinishWake, Return, TypeInv, TThread
  <2> QED BY <2>1
      DEF FinishWake, Lighting, Thread, setupVars, drawVars, modeVars,
          bufVars, flipVars, stateVars, mailVars
<1> QED BY <1>1, <1>2, PictureReturn

LEMMA PictureRotationClear ==
    ASSUME TypeInv, PcInv, BoundsInv, BlankInv, PictureInv, RotationClear
    PROVE  PictureInv'
<1>0. setup' = setup /\ Serial' = Serial
  BY DEF RotationClear, Serial, setupVars, drawVars
<1> SUFFICES ASSUME Serial
             PROVE  SrcInv' /\ FrameInv' /\ ShadowInv' /\ PanelInv'
  BY <1>0 DEF PictureInv
<1>00. SrcInv /\ FrameInv /\ ShadowInv /\ PanelInv
  BY DEF PictureInv
<1>01. /\ pc \in [Thread -> Label] /\ op \in [Thread -> Op] /\ rect \in [Thread -> RectType]
       /\ src \in [Thread -> {"none", "shadow", "black"}]
       /\ \A u \in Thread : PcOk(u, op[u], pc[u])
  BY DEF TypeInv, TThread, PcInv
<1>02. \A u \in Thread \ {"sysfs"} : pc[u] = "out"
  BY Others DEF RotationClear, At, Thread, Serial
<1>1. pc' = [pc EXCEPT !["sysfs"] = "request"] /\ op' = op
  BY DEF RotationClear, Goto
<1>2. SrcInv' /\ FrameInv'
  <2>1. pc' = [pc EXCEPT !["sysfs"] = "request"]
    BY <1>1
  <2>2. "sysfs" \in Thread
    BY DEF Thread
  <2> QED BY <1>01, <1>02, <2>1, <2>2, Vacuous
<1>3. erased' = Pixel
  <2>1. op["drm"] = "none"
    BY <1>01, <1>02 DEF PcOk, Thread
  <2> QED BY <2>1 DEF RotationClear, ClearData, BlankInv
<1>4. UNCHANGED <<fb, native_rotation, width, height>>
  BY DEF RotationClear, setupVars, drawVars, modeVars, flipVars,
         stateVars, mailVars
<1>5. ShadowInv' /\ PanelInv'
  BY <1>3, <1>4, Wiped
<1> QED BY <1>2, <1>5

LEMMA PictureFinishRotation ==
    ASSUME TypeInv, PcInv, BoundsInv, BlankInv, PictureInv, FinishRotation
    PROVE  PictureInv'
<1>1. /\ Return("sysfs") /\ At("sysfs", "finish") /\ "sysfs" \in Thread
      /\ UNCHANGED <<setup, fb, width, height, native_rotation, erased, missed, shadow,
                     panel, slot, waiting>>
  BY DEF FinishRotation, Thread, setupVars, drawVars, modeVars, bufVars,
         flipVars, stateVars, mailVars
<1>2. Lighting' => Lighting
  <2>1. op' = [op EXCEPT !["sysfs"] = "none"] /\ op \in [Thread -> Op]
    BY DEF FinishRotation, Return, TypeInv, TThread
  <2> QED BY <2>1
      DEF FinishRotation, Lighting, Thread, setupVars, drawVars, modeVars,
          bufVars, flipVars, stateVars, mailVars
<1> QED BY <1>1, <1>2, PictureReturn

LEMMA PictureFinishSuspend ==
    ASSUME TypeInv, PcInv, BoundsInv, BlankInv, PictureInv, FinishSuspend
    PROVE  PictureInv'
<1>1. /\ Return("power") /\ At("power", "finish") /\ "power" \in Thread
      /\ UNCHANGED <<setup, fb, width, height, native_rotation, erased, missed, shadow,
                     panel, slot, waiting>>
  BY DEF FinishSuspend, Thread, setupVars, drawVars, modeVars, bufVars,
         flipVars, mailVars
<1>2. Lighting' => Lighting
  <2>1. op' = [op EXCEPT !["power"] = "none"] /\ op \in [Thread -> Op]
    BY DEF FinishSuspend, Return, TypeInv, TThread
  <2> QED BY <2>1
      DEF FinishSuspend, Lighting, Thread, setupVars, drawVars, modeVars,
          bufVars, flipVars, mailVars
<1> QED BY <1>1, <1>2, PictureReturn

LEMMA PictureFinishResume ==
    ASSUME TypeInv, PcInv, BoundsInv, BlankInv, PictureInv, FinishResume
    PROVE  PictureInv'
<1>1. /\ Return("power") /\ At("power", "finish") /\ "power" \in Thread
      /\ UNCHANGED <<setup, fb, width, height, native_rotation, erased, missed, shadow,
                     panel, slot, waiting>>
  BY DEF FinishResume, Thread, setupVars, drawVars, modeVars, bufVars,
         stateVars, mailVars
<1>2. Lighting' => Lighting
  <2>1. op' = [op EXCEPT !["power"] = "none"] /\ op \in [Thread -> Op]
    BY DEF FinishResume, Return, TypeInv, TThread
  <2> QED BY <2>1
      DEF FinishResume, Lighting, Thread, setupVars, drawVars, modeVars,
          bufVars, stateVars, mailVars
<1> QED BY <1>1, <1>2, PictureReturn

LEMMA PictureDeliver ==
    ASSUME TypeInv, PcInv, BoundsInv, BlankInv, PictureInv, Deliver
    PROVE  PictureInv'
<1>0. setup' = setup /\ Serial' = Serial
  BY DEF Deliver, Serial, setupVars, drawVars
<1> SUFFICES ASSUME Serial
             PROVE  SrcInv' /\ FrameInv' /\ ShadowInv' /\ PanelInv'
  BY <1>0 DEF PictureInv
<1>00. SrcInv /\ FrameInv /\ ShadowInv /\ PanelInv
  BY DEF PictureInv
<1>01. /\ pc \in [Thread -> Label] /\ op \in [Thread -> Op] /\ rect \in [Thread -> RectType]
       /\ src \in [Thread -> {"none", "shadow", "black"}]
       /\ \A u \in Thread : PcOk(u, op[u], pc[u])
  BY DEF TypeInv, TThread, PcInv
<1>1. UNCHANGED <<pc, op, rect, src, frame, width, height, native_rotation, fb, erased, missed,
                  shadow, pipe_on, is_idle>>
  BY DEF Deliver, setupVars, drawVars, modeVars, bufVars, flipVars,
         stateVars, threadVars
<1>2. SrcInv' /\ FrameInv'
  BY <1>00, <1>1 DEF SrcInv, FrameInv, Faithful
<1>3. ShadowInv'
  BY <1>00, <1>1, ShadowSame
<1>4. PanelInv'
  <2>1. \A t, p : ComingFrom(t, p)' <=> ComingFrom(t, p)
    BY <1>1 DEF ComingFrom
  <2>2. Lighting' => Lighting
    BY <1>1 DEF Lighting
  <2>3. ASSUME NEW p \in Pixel PROVE Final(p)' = Final(p)
    <3>1. slot' = waiting /\ waiting' = NoFrame
      BY DEF Deliver
    <3>2. p \notin Shows(NoFrame)
      BY DEF Shows, NoFrame, FrameCells, NoRect
    <3>3. panel'[p] = IF p \in Shows(slot) THEN Value(slot, p) ELSE panel[p]
      BY DEF Deliver, Value
    <3> QED BY <3>1, <3>2, <3>3 DEF Final
  <2> QED BY <1>00, <1>1, <2>1, <2>2, <2>3 DEF PanelInv
<1> QED BY <1>2, <1>3, <1>4

LEMMA PicturePipeUpdate ==
    ASSUME TypeInv, PcInv, BoundsInv, BlankInv, PictureInv, PipeUpdate
    PROVE  PictureInv'
<1>0. setup' = setup /\ Serial' = Serial
  BY DEF PipeUpdate, Serial, setupVars
<1> SUFFICES ASSUME Serial
             PROVE  SrcInv' /\ FrameInv' /\ ShadowInv' /\ PanelInv'
  BY <1>0 DEF PictureInv
<1>00. SrcInv /\ FrameInv /\ ShadowInv /\ PanelInv
  BY DEF PictureInv
<1>01. /\ pc \in [Thread -> Label] /\ op \in [Thread -> Op] /\ rect \in [Thread -> RectType]
       /\ src \in [Thread -> {"none", "shadow", "black"}]
       /\ \A u \in Thread : PcOk(u, op[u], pc[u])
  BY DEF TypeInv, TThread, PcInv
<1>02. \A u \in Thread : pc[u] = "out" /\ op[u] = "none"
  BY <1>01 DEF PipeUpdate, MayCommit, MayStart, Resting, At, Serial, PcOk
<1>03. \A t, p : t \in Thread => ~ComingFrom(t, p)
  BY <1>02 DEF ComingFrom, Sending
<1>1. (pc' = [pc EXCEPT !["drm"] = "copy"]) /\ op' = [op EXCEPT !["drm"] = "update"]
  BY DEF PipeUpdate, Begin
<1>2. SrcInv' /\ FrameInv'
  <2>1. "drm" \in Thread /\ \A u \in Thread \ {"drm"} : pc[u] = "out"
    BY <1>02 DEF Thread
  <2>2. CASE pc' = [pc EXCEPT !["drm"] = "copy"]
    BY <1>01, <2>1, <2>2, Vacuous
  <2> QED BY <1>1, <2>2
<1>3. ShadowInv'
  <2>1. PICK c \in setup.damage :
          InFb(c) /\ Draw(c) /\ Begin("drm", "update", "copy", UpdateClip(c))
    BY DEF PipeUpdate
  <2>2. /\ fb.w = width /\ fb.h = height /\ pc["sysfs"] # "clear" /\ pc["drm"] # "copy"
        /\ UNCHANGED <<width, height, native_rotation, erased, shadow>>
    BY <1>02
       DEF PipeUpdate, FbFits, Serial, Thread, setupVars, modeVars,
           bufVars, stateVars, mailVars
  <2> DEFINE inside(i) == i % fb.w \in c.x1 .. c.x2 - 1 /\ i \div fb.w \in c.y1 .. c.y2 - 1
             new == [i \in Pixel |-> IF inside(i) THEN drawn' ELSE fb.px[i]]
  <2>3. fb' = [w |-> fb.w, h |-> fb.h, px |-> new]
    <3>1. fb = [w |-> fb.w, h |-> fb.h, px |-> fb.px]
      BY DEF TypeInv, TData, FbType
    <3>2. fb' = [fb EXCEPT !.px = new]
      BY <2>1 DEF Draw
    <3> HIDE DEF new
    <3> QED BY <3>1, <3>2
  <2>4. fb'.w = fb.w /\ fb'.h = fb.h /\ fb'.px = new
    BY <2>3
  <2>5. pc'["drm"] = "copy" /\ rect'["drm"] = UpdateClip(c)
    BY <1>01, <2>1 DEF Begin, Thread
  <2> SUFFICES ASSUME NEW d \in Cells(fb.w, fb.h)
               PROVE  (PlaceOf(d[1], d[2]) \in erased \/ Drawn(d) \/ Due(d))'
    BY <2>4 DEF ShadowInv, Cells
  <2> DEFINE i == d[2] * fb.w + d[1]
  <2>6. i \in Pixel /\ i % fb.w = d[1] /\ i \div fb.w = d[2]
        /\ d = <<d[1], d[2]>> /\ d[1] \in 0 .. fb.w - 1 /\ d[2] \in 0 .. fb.h - 1
    BY <2>2, CellFacts
  <2>7. PlaceOf(d[1], d[2])' = PlaceOf(d[1], d[2])
    BY <2>2, <2>4, PlaceSame
  <2>8. CASE d[1] \in c.x1 .. c.x2 - 1 /\ d[2] \in c.y1 .. c.y2 - 1
    <3>1. d \in CellsWithin(UpdateClip(c))
      <4>1. {c.x1, c.y1, c.x2, c.y2} \subseteq Int
        BY SetupAssumption DEF TypeInv, TData
      <4>2. width \in Nat /\ height \in Nat
        BY SizeFacts DEF TypeInv
      <4>3. d[1] \in UpdateClip(c).x .. UpdateClip(c).x + UpdateClip(c).w - 1
        BY <2>2, <2>6, <2>8, <4>1, <4>2 DEF UpdateClip, AsRect, WholePlane
      <4>4. d[2] \in UpdateClip(c).y .. UpdateClip(c).y + UpdateClip(c).h - 1
        BY <2>2, <2>6, <2>8, <4>1, <4>2 DEF UpdateClip, AsRect, WholePlane
      <4> QED BY <2>6, <4>3, <4>4 DEF CellsWithin
    <3> QED BY <2>5, <3>1 DEF Due, CellsWithin
  <2>9. CASE ~(d[1] \in c.x1 .. c.x2 - 1 /\ d[2] \in c.y1 .. c.y2 - 1)
    <3>1. fb'.px[i] = fb.px[i]
      BY <2>4, <2>6, <2>9
    <3>2. PlaceOf(d[1], d[2]) \in erased \/ Drawn(d)
      BY <1>00, <2>2 DEF ShadowInv, Due
    <3>3. Drawn(d) => Drawn(d)'
      <4> HIDE DEF new
      <4>1. d[2] * fb'.w + d[1] = i
        BY <2>4
      <4> QED BY <2>2, <2>7, <3>1, <4>1 DEF Drawn
    <3> QED BY <2>2, <2>7, <3>2, <3>3
  <2> QED BY <2>8, <2>9
<1>4. PanelInv'
  <2>1. UNCHANGED <<erased, missed, shadow, panel, slot, waiting>>
    BY DEF PipeUpdate, setupVars, modeVars, bufVars, stateVars, mailVars
  <2>2. Lighting' => Lighting
    BY <1>01, <1>02, <1>1
       DEF PipeUpdate, Lighting, Thread, setupVars, modeVars, bufVars,
           stateVars, mailVars
  <2> QED BY <1>00, <1>03, <2>1, <2>2, PanelSame
<1> QED BY <1>2, <1>3, <1>4

LEMMA PicturePipeUpdateNoDamage ==
    ASSUME TypeInv, PcInv, BoundsInv, BlankInv, PictureInv, PipeUpdateNoDamage
    PROVE  PictureInv'
<1>0. setup' = setup /\ Serial' = Serial
  BY DEF PipeUpdateNoDamage, Serial, setupVars, drawVars
<1> SUFFICES ASSUME Serial
             PROVE  SrcInv' /\ FrameInv' /\ ShadowInv' /\ PanelInv'
  BY <1>0 DEF PictureInv
<1>00. SrcInv /\ FrameInv /\ ShadowInv /\ PanelInv
  BY DEF PictureInv
<1>01. /\ pc \in [Thread -> Label] /\ op \in [Thread -> Op] /\ rect \in [Thread -> RectType]
       /\ src \in [Thread -> {"none", "shadow", "black"}]
       /\ \A u \in Thread : PcOk(u, op[u], pc[u])
  BY DEF TypeInv, TThread, PcInv
<1>02. \A u \in Thread : pc[u] = "out" /\ op[u] = "none"
  BY <1>01
     DEF PipeUpdateNoDamage, MayCommit, MayStart, Resting, At, Serial,
         PcOk
<1>03. \A t, p : t \in Thread => ~ComingFrom(t, p)
  BY <1>02 DEF ComingFrom, Sending
<1>1. (pc' = [pc EXCEPT !["drm"] = "finish"]) /\ op' = [op EXCEPT !["drm"] = "update"]
  BY DEF PipeUpdateNoDamage, Begin
<1>2. SrcInv' /\ FrameInv'
  <2>1. "drm" \in Thread /\ \A u \in Thread \ {"drm"} : pc[u] = "out"
    BY <1>02 DEF Thread
  <2>2. CASE pc' = [pc EXCEPT !["drm"] = "finish"]
    BY <1>01, <2>1, <2>2, Vacuous
  <2> QED BY <1>1, <2>2
<1>3. ShadowInv'
  <2>1. UNCHANGED <<fb, width, height, native_rotation, erased, shadow>>
    BY DEF PipeUpdateNoDamage, setupVars, drawVars, modeVars, bufVars,
           stateVars, mailVars
  <2>2. pc["drm"] # "copy" /\ pc["sysfs"] # "clear"
    BY <1>02 DEF Thread
  <2> QED BY <1>00, <2>1, <2>2, ShadowSame
<1>4. PanelInv'
  <2>1. UNCHANGED <<erased, missed, shadow, panel, slot, waiting>>
    BY DEF PipeUpdateNoDamage, setupVars, drawVars, modeVars, bufVars,
           stateVars, mailVars
  <2>2. Lighting' => Lighting
    BY <1>01, <1>02, <1>1
       DEF PipeUpdateNoDamage, Lighting, Thread, setupVars, drawVars,
           modeVars, bufVars, stateVars, mailVars
  <2> QED BY <1>00, <1>03, <2>1, <2>2, PanelSame
<1> QED BY <1>2, <1>3, <1>4

LEMMA PicturePipeDisable ==
    ASSUME TypeInv, PcInv, BoundsInv, BlankInv, PictureInv, PipeDisable
    PROVE  PictureInv'
<1>0. setup' = setup /\ Serial' = Serial
  BY DEF PipeDisable, Serial, setupVars, drawVars
<1> SUFFICES ASSUME Serial
             PROVE  SrcInv' /\ FrameInv' /\ ShadowInv' /\ PanelInv'
  BY <1>0 DEF PictureInv
<1>00. SrcInv /\ FrameInv /\ ShadowInv /\ PanelInv
  BY DEF PictureInv
<1>01. /\ pc \in [Thread -> Label] /\ op \in [Thread -> Op] /\ rect \in [Thread -> RectType]
       /\ src \in [Thread -> {"none", "shadow", "black"}]
       /\ \A u \in Thread : PcOk(u, op[u], pc[u])
  BY DEF TypeInv, TThread, PcInv
<1>02. \A u \in Thread : pc[u] = "out" /\ op[u] = "none"
  BY <1>01 DEF PipeDisable, MayCommit, MayStart, Resting, At, Serial, PcOk
<1>03. \A t, p : t \in Thread => ~ComingFrom(t, p)
  BY <1>02 DEF ComingFrom, Sending
<1>1. (pc' = [pc EXCEPT !["drm"] = "request"] \/ pc' = [pc EXCEPT !["drm"] = "finish"]) /\ op' = [op EXCEPT !["drm"] = "disable"]
  BY DEF PipeDisable, Begin
<1>2. SrcInv' /\ FrameInv'
  <2>1. "drm" \in Thread /\ \A u \in Thread \ {"drm"} : pc[u] = "out"
    BY <1>02 DEF Thread
  <2>2. CASE pc' = [pc EXCEPT !["drm"] = "request"]
    BY <1>01, <2>1, <2>2, Vacuous
  <2>3. CASE pc' = [pc EXCEPT !["drm"] = "finish"]
    BY <1>01, <2>1, <2>3, Vacuous
  <2> QED BY <1>1, <2>2, <2>3
<1>3. ShadowInv'
  <2>1. UNCHANGED <<fb, width, height, native_rotation, erased, shadow>>
    BY DEF PipeDisable, setupVars, drawVars, modeVars, mailVars
  <2>2. pc["drm"] # "copy" /\ pc["sysfs"] # "clear"
    BY <1>02 DEF Thread
  <2> QED BY <1>00, <2>1, <2>2, ShadowSame
<1>4. PanelInv'
  BY <1>01, <1>1 DEF PanelInv, Lighting, Thread
<1> QED BY <1>2, <1>3, <1>4

LEMMA PicturePipeEnable ==
    ASSUME TypeInv, PcInv, BoundsInv, BlankInv, PictureInv, PipeEnable
    PROVE  PictureInv'
<1>0. setup' = setup /\ Serial' = Serial
  BY DEF PipeEnable, Serial, setupVars, drawVars
<1> SUFFICES ASSUME Serial
             PROVE  SrcInv' /\ FrameInv' /\ ShadowInv' /\ PanelInv'
  BY <1>0 DEF PictureInv
<1>00. SrcInv /\ FrameInv /\ ShadowInv /\ PanelInv
  BY DEF PictureInv
<1>01. /\ pc \in [Thread -> Label] /\ op \in [Thread -> Op] /\ rect \in [Thread -> RectType]
       /\ src \in [Thread -> {"none", "shadow", "black"}]
       /\ \A u \in Thread : PcOk(u, op[u], pc[u])
  BY DEF TypeInv, TThread, PcInv
<1>02. \A u \in Thread : pc[u] = "out" /\ op[u] = "none"
  BY <1>01 DEF PipeEnable, MayCommit, MayStart, Resting, At, Serial, PcOk
<1>03. \A t, p : t \in Thread => ~ComingFrom(t, p)
  BY <1>02 DEF ComingFrom, Sending
<1>1. (pc' = [pc EXCEPT !["drm"] = "copy"]) /\ op' = [op EXCEPT !["drm"] = "enable"]
  BY DEF PipeEnable, Begin
<1>2. SrcInv' /\ FrameInv'
  <2>1. "drm" \in Thread /\ \A u \in Thread \ {"drm"} : pc[u] = "out"
    BY <1>02 DEF Thread
  <2>2. CASE pc' = [pc EXCEPT !["drm"] = "copy"]
    BY <1>01, <2>1, <2>2, Vacuous
  <2> QED BY <1>1, <2>2
<1> DEFINE r == [x |-> 0, y |-> 0, w |-> fb'.w, h |-> fb'.h]
<1>30. pc'["drm"] = "copy" /\ rect'["drm"] = r /\ op'["drm"] = "enable"
  BY <1>01, <1>1 DEF PipeEnable, Begin, Thread
<1>3. ShadowInv'
  <2> SUFFICES ASSUME NEW d \in Cells(fb'.w, fb'.h)
               PROVE  Due(d)'
    BY DEF ShadowInv, Cells
  <2>1. fb'.w \in Nat /\ fb'.h \in Nat
    <3>1. TypeInv'
      BY TypePipeEnable
    <3> QED BY <3>1 DEF TypeInv, TData, FbType
  <2>2. r.x = 0 /\ r.y = 0 /\ r.w = fb'.w /\ r.h = fb'.h
    OBVIOUS
  <2> HIDE DEF r
  <2>3. 0 + fb'.w - 1 = fb'.w - 1 /\ 0 + fb'.h - 1 = fb'.h - 1
    BY <2>1
  <2>4. d \in CellsWithin(r)
    BY <2>2, <2>3 DEF CellsWithin, Cells
  <2> QED BY <1>30, <2>4 DEF Due, CellsWithin
<1>4. PanelInv'
  <2>1. \A p \in Pixel : ComingFrom("drm", p)'
    BY <1>30 DEF ComingFrom
  <2> QED BY <2>1, PanelNew DEF Thread
<1> QED BY <1>2, <1>3, <1>4

LEMMA PictureVblankTimer ==
    ASSUME PictureInv, VblankTimer
    PROVE  PictureInv'
  BY PictureAside
     DEF VblankTimer, setupVars, drawVars, modeVars, bufVars, stateVars,
         mailVars, threadVars

LEMMA PictureDisableVblank ==
    ASSUME PictureInv, DisableVblank
    PROVE  PictureInv'
  BY PictureAside
     DEF DisableVblank, setupVars, drawVars, modeVars, bufVars, stateVars,
         mailVars, threadVars

LEMMA PictureIdle ==
    ASSUME PictureInv, Idle
    PROVE  PictureInv'
  BY PictureAside
     DEF Idle, setupVars, drawVars, modeVars, bufVars, flipVars, mailVars,
         threadVars

LEMMA PictureWake ==
    ASSUME TypeInv, PcInv, BoundsInv, BlankInv, PictureInv, Wake
    PROVE  PictureInv'
<1>0. setup' = setup /\ Serial' = Serial
  BY DEF Wake, Serial, setupVars, drawVars
<1> SUFFICES ASSUME Serial
             PROVE  SrcInv' /\ FrameInv' /\ ShadowInv' /\ PanelInv'
  BY <1>0 DEF PictureInv
<1>00. SrcInv /\ FrameInv /\ ShadowInv /\ PanelInv
  BY DEF PictureInv
<1>01. /\ pc \in [Thread -> Label] /\ op \in [Thread -> Op] /\ rect \in [Thread -> RectType]
       /\ src \in [Thread -> {"none", "shadow", "black"}]
       /\ \A u \in Thread : PcOk(u, op[u], pc[u])
  BY DEF TypeInv, TThread, PcInv
<1>02. \A u \in Thread : pc[u] = "out" /\ op[u] = "none"
  BY <1>01 DEF Wake, MayStart, Resting, At, Serial, PcOk
<1>03. \A t, p : t \in Thread => ~ComingFrom(t, p)
  BY <1>02 DEF ComingFrom, Sending
<1>1. (pc' = [pc EXCEPT !["wake"] = "check"]) /\ op' = [op EXCEPT !["wake"] = "wake"]
  BY DEF Wake, Begin
<1>2. SrcInv' /\ FrameInv'
  <2>1. "wake" \in Thread /\ \A u \in Thread \ {"wake"} : pc[u] = "out"
    BY <1>02 DEF Thread
  <2>2. CASE pc' = [pc EXCEPT !["wake"] = "check"]
    BY <1>01, <2>1, <2>2, Vacuous
  <2> QED BY <1>1, <2>2
<1>3. ShadowInv'
  <2>1. UNCHANGED <<fb, width, height, native_rotation, erased, shadow>>
    BY DEF Wake, setupVars, drawVars, modeVars, bufVars, flipVars, mailVars
  <2>2. pc["drm"] # "copy" /\ pc["sysfs"] # "clear"
    BY <1>02 DEF Thread
  <2> QED BY <1>00, <2>1, <2>2, ShadowSame
<1>4. PanelInv'
  <2>1. \A p \in Pixel : ComingFrom("wake", p)'
    BY <1>01, <1>1 DEF ComingFrom, Thread
  <2> QED BY <2>1, PanelNew DEF Thread
<1> QED BY <1>2, <1>3, <1>4

LEMMA PictureRotationStore ==
    ASSUME TypeInv, PcInv, BoundsInv, BlankInv, PictureInv, RotationStore
    PROVE  PictureInv'
<1>0. setup' = setup /\ Serial' = Serial
  BY DEF RotationStore, Serial, setupVars, drawVars
<1> SUFFICES ASSUME Serial
             PROVE  SrcInv' /\ FrameInv' /\ ShadowInv' /\ PanelInv'
  BY <1>0 DEF PictureInv
<1>00. SrcInv /\ FrameInv /\ ShadowInv /\ PanelInv
  BY DEF PictureInv
<1>01. /\ pc \in [Thread -> Label] /\ op \in [Thread -> Op] /\ rect \in [Thread -> RectType]
       /\ src \in [Thread -> {"none", "shadow", "black"}]
       /\ \A u \in Thread : PcOk(u, op[u], pc[u])
  BY DEF TypeInv, TThread, PcInv
<1>02. \A u \in Thread : pc[u] = "out" /\ op[u] = "none"
  BY <1>01 DEF RotationStore, MayStart, Resting, At, Serial, PcOk
<1>03. \A t, p : t \in Thread => ~ComingFrom(t, p)
  BY <1>02 DEF ComingFrom, Sending
<1>1. (pc' = [pc EXCEPT !["sysfs"] = "clear"]) /\ op' = [op EXCEPT !["sysfs"] = "rotate"]
  BY DEF RotationStore, Begin
<1>2. SrcInv' /\ FrameInv'
  <2>1. "sysfs" \in Thread /\ \A u \in Thread \ {"sysfs"} : pc[u] = "out"
    BY <1>02 DEF Thread
  <2>2. CASE pc' = [pc EXCEPT !["sysfs"] = "clear"]
    BY <1>01, <2>1, <2>2, Vacuous
  <2> QED BY <1>1, <2>2
<1>3. ShadowInv'
  BY <1>01, <1>1 DEF ShadowInv, Thread
<1>4. PanelInv'
  <2>1. UNCHANGED <<erased, missed, shadow, panel, slot, waiting>>
    BY DEF RotationStore, setupVars, drawVars, bufVars, flipVars,
           stateVars, mailVars
  <2>2. Lighting' => Lighting
    BY <1>01, <1>02, <1>1
       DEF RotationStore, Lighting, Thread, setupVars, drawVars, bufVars,
           flipVars, stateVars, mailVars
  <2> QED BY <1>00, <1>03, <2>1, <2>2, PanelSame
<1> QED BY <1>2, <1>3, <1>4

LEMMA PictureDisablePartialStore ==
    ASSUME PictureInv, DisablePartialStore
    PROVE  PictureInv'
  BY PictureAside
     DEF DisablePartialStore, setupVars, drawVars, bufVars, flipVars,
         stateVars, mailVars, threadVars

LEMMA PictureSuspend ==
    ASSUME TypeInv, PcInv, BoundsInv, BlankInv, PictureInv, Suspend
    PROVE  PictureInv'
<1>0. setup' = setup /\ Serial' = Serial
  BY DEF Suspend, Serial, drawVars
<1> SUFFICES ASSUME Serial
             PROVE  SrcInv' /\ FrameInv' /\ ShadowInv' /\ PanelInv'
  BY <1>0 DEF PictureInv
<1>00. SrcInv /\ FrameInv /\ ShadowInv /\ PanelInv
  BY DEF PictureInv
<1>01. /\ pc \in [Thread -> Label] /\ op \in [Thread -> Op] /\ rect \in [Thread -> RectType]
       /\ src \in [Thread -> {"none", "shadow", "black"}]
       /\ \A u \in Thread : PcOk(u, op[u], pc[u])
  BY DEF TypeInv, TThread, PcInv
<1>02. \A u \in Thread : pc[u] = "out" /\ op[u] = "none"
  BY <1>01 DEF Suspend, MayStart, Resting, At, Serial, PcOk
<1>03. \A t, p : t \in Thread => ~ComingFrom(t, p)
  BY <1>02 DEF ComingFrom, Sending
<1>1. (pc' = [pc EXCEPT !["power"] = "request"]) /\ op' = [op EXCEPT !["power"] = "suspend"]
  BY DEF Suspend, Begin
<1>2. SrcInv' /\ FrameInv'
  <2>1. "power" \in Thread /\ \A u \in Thread \ {"power"} : pc[u] = "out"
    BY <1>02 DEF Thread
  <2>2. CASE pc' = [pc EXCEPT !["power"] = "request"]
    BY <1>01, <2>1, <2>2, Vacuous
  <2> QED BY <1>1, <2>2
<1>3. erased' = Pixel
  BY <1>02 DEF Suspend, ClearData, BlankInv, Thread
<1>4. UNCHANGED <<fb, native_rotation, width, height>>
  BY DEF Suspend, drawVars, modeVars, stateVars, mailVars
<1>5. ShadowInv' /\ PanelInv'
  BY <1>3, <1>4, Wiped
<1> QED BY <1>2, <1>5

LEMMA PictureResume ==
    ASSUME TypeInv, PcInv, BoundsInv, BlankInv, PictureInv, Resume
    PROVE  PictureInv'
<1>0. setup' = setup /\ Serial' = Serial
  BY DEF Resume, Serial, setupVars, drawVars
<1> SUFFICES ASSUME Serial
             PROVE  SrcInv' /\ FrameInv' /\ ShadowInv' /\ PanelInv'
  BY <1>0 DEF PictureInv
<1>00. SrcInv /\ FrameInv /\ ShadowInv /\ PanelInv
  BY DEF PictureInv
<1>01. /\ pc \in [Thread -> Label] /\ op \in [Thread -> Op] /\ rect \in [Thread -> RectType]
       /\ src \in [Thread -> {"none", "shadow", "black"}]
       /\ \A u \in Thread : PcOk(u, op[u], pc[u])
  BY DEF TypeInv, TThread, PcInv
<1>02. \A u \in Thread : pc[u] = "out" /\ op[u] = "none"
  BY <1>01 DEF Resume, MayStart, Resting, At, Serial, PcOk
<1>03. \A t, p : t \in Thread => ~ComingFrom(t, p)
  BY <1>02 DEF ComingFrom, Sending
<1>1. (pc' = [pc EXCEPT !["power"] = "request"]) /\ op' = [op EXCEPT !["power"] = "resume"]
  BY DEF Resume, Begin
<1>2. SrcInv' /\ FrameInv'
  <2>1. "power" \in Thread /\ \A u \in Thread \ {"power"} : pc[u] = "out"
    BY <1>02 DEF Thread
  <2>2. CASE pc' = [pc EXCEPT !["power"] = "request"]
    BY <1>01, <2>1, <2>2, Vacuous
  <2> QED BY <1>1, <2>2
<1>3. ShadowInv'
  <2>1. UNCHANGED <<fb, width, height, native_rotation, erased, shadow>>
    BY DEF Resume, setupVars, drawVars, modeVars, bufVars, flipVars, mailVars
  <2>2. pc["drm"] # "copy" /\ pc["sysfs"] # "clear"
    BY <1>02 DEF Thread
  <2> QED BY <1>00, <2>1, <2>2, ShadowSame
<1>4. PanelInv'
  <2>1. UNCHANGED <<erased, missed, shadow, panel, slot, waiting>>
    BY DEF Resume, setupVars, drawVars, modeVars, bufVars, flipVars, mailVars
  <2>2. Lighting' => Lighting
    BY <1>01, <1>02, <1>1
       DEF Resume, Lighting, Thread, setupVars, drawVars, modeVars,
           bufVars, flipVars, mailVars
  <2> QED BY <1>00, <1>03, <2>1, <2>2, PanelSame
<1> QED BY <1>2, <1>3, <1>4

(* No step loses a piece of the picture.                                   *)
LEMMA PictureStep ==
    ASSUME TypeInv, PcInv, BoundsInv, BlankInv, SlotInv, PictureInv, [Next]_vars
    PROVE  PictureInv'
<1>1. ASSUME NEW t \in Thread, Step(t) PROVE PictureInv'
  BY <1>1, PictureFbMarkDirty, PictureRequestUpdate, PictureSendFrame,
     PictureOffer, PictureFinishUpdate, PictureFinishDisable,
     PictureFinishEnable, PictureScreenWake, PictureFinishWake,
     PictureRotationClear, PictureFinishRotation, PictureFinishSuspend,
     PictureFinishResume DEF Step
<1>2. CASE UNCHANGED vars
  BY <1>2, PictureAside DEF vars
<1> QED BY <1>1, <1>2, PictureDeliver, PicturePipeUpdate,
     PicturePipeUpdateNoDamage, PicturePipeDisable, PicturePipeEnable,
     PictureVblankTimer, PictureDisableVblank, PictureIdle, PictureWake,
     PictureRotationStore, PictureDisablePartialStore, PictureSuspend,
     PictureResume DEF Next

-----------------------------------------------------------------------------
(* The theorems.                                                           *)

(* The inductive invariant.                                                *)
Inv ==
    /\ TypeInv /\ PcInv /\ BlankInv /\ BlackInv /\ BoundsInv /\ SlotInv
    /\ PictureInv

(* It holds when the pipe has been enabled: the types,                     *)
LEMMA TypeInit == Init => TypeInv
<1> SUFFICES ASSUME Init PROVE TypeInv
  OBVIOUS
<1>1. setup \in Setups /\ setup.commits \in Nat /\ setup.turns \subseteq Rotation
  BY SetupAssumption DEF Init
<1>2. 0 \in Colour /\ AllBlack \in Picture
  BY <1>1 DEF Colour, Picture, AllBlack
<1>3. TMode
  BY <1>1, SetupAssumption DEF Init, TMode
<1>4. TData
  <2>1. fb \in FbType
    BY <1>2, <1>3, SizeFacts DEF Init, FbType
  <2>2. fb.w = width /\ fb.h = height
    BY DEF Init
  <2>3. <<fb.w, fb.h>> \in {<<W, H>>, <<H, W>>}
    BY <1>3, <2>2, SizeFacts
  <2>4. sleeps \in 0 .. MaxSleeps
    BY BoundAssumption DEF Init
  <2>5. drawn \in Colour /\ shadow \in Picture /\ panel \in Picture
    BY <1>2 DEF Init
  <2> QED BY <1>1, <2>1, <2>3, <2>4, <2>5 DEF TData
<1>5. TFlag
  BY DEF Init, TFlag
<1>6. TThread
  BY DEF Init, TThread, Label, Op, RectType, NoRect
<1>7. TFrame /\ TRect
  BY DEF Init, TFrame, IsFrame, TRect, Sending
<1> QED BY <1>3, <1>4, <1>5, <1>6, <1>7 DEF TypeInv

(* the picture, which is black everywhere,                                 *)
LEMMA PictureInit ==
    ASSUME Init, TypeInv
    PROVE  PictureInv
<1>1. \A t \in Thread : pc[t] = "out"
  BY DEF Init
<1>2. SrcInv /\ FrameInv
  BY <1>1 DEF SrcInv, FrameInv
<1>3. ShadowInv
  <2> SUFFICES ASSUME fb.w = width, fb.h = height, NEW d \in Cells(fb.w, fb.h)
               PROVE  Drawn(d)
    BY DEF ShadowInv
  <2>1. PlaceOf(d[1], d[2]) \in Pixel /\ d[2] * fb.w + d[1] \in Pixel
    BY CellFacts
  <2>2. shadow = AllBlack /\ fb.px = AllBlack
    BY DEF Init
  <2> QED BY <2>1, <2>2 DEF Drawn, AllBlack
<1>4. PanelInv
  <2> SUFFICES ASSUME NEW p \in Pixel
               PROVE  Final(p) = shadow[p]
    BY DEF PanelInv
  <2>1. slot = NoFrame /\ waiting = NoFrame /\ panel = shadow
    BY DEF Init
  <2>2. p \notin Shows(NoFrame)
    BY DEF Shows, NoFrame, FrameCells, NoRect
  <2> QED BY <2>1, <2>2 DEF Final
<1> QED BY <1>2, <1>3, <1>4 DEF PictureInv

(* and the rest.                                                           *)
LEMMA InvInit == Init => Inv
<1> SUFFICES ASSUME Init PROVE Inv
  OBVIOUS
<1>1. TypeInv
  BY TypeInit
<1>2. /\ pc = [t \in Thread |-> "out"] /\ op = [t \in Thread |-> "none"]
      /\ turned = {} /\ stray = {} /\ blanked = FALSE /\ pipe_on = TRUE /\ data = "shadow"
      /\ waiting = NoFrame
  BY DEF Init
<1>3. PcInv
  BY <1>2 DEF PcInv, PcOk
<1>4. BoundsInv
  BY <1>2 DEF BoundsInv, RectInv, CopyInv, CopyInBounds, Sending, At, Thread
<1>5. BlankInv /\ BlackInv /\ SlotInv
  BY <1>2 DEF BlankInv, BlackInv, SlotInv, Thread
<1>6. PictureInv
  BY <1>1, PictureInit
<1> QED BY <1>1, <1>3, <1>4, <1>5, <1>6 DEF Inv

(* No step breaks it.                                                      *)
LEMMA InvStep ==
    ASSUME Inv, [Next]_vars
    PROVE  Inv'
<1>1. TypeInv /\ PcInv /\ BlankInv /\ BlackInv /\ BoundsInv /\ SlotInv /\ PictureInv
  BY DEF Inv
<1>2. TypeInv' /\ PcInv' /\ BoundsInv'
  BY <1>1, TypeStep, PcStep, BoundsStep
<1>3. BlankInv' /\ BlackInv' /\ SlotInv' /\ PictureInv'
  BY <1>1, BlankStep, BlackStep, SlotStep, PictureStep
<1> QED BY <1>2, <1>3 DEF Inv

(* It holds always.                                                        *)
LEMMA InvHolds == Spec => []Inv
<1>1. Inv /\ [Next]_vars => Inv'
  BY InvStep
<1> QED BY <1>1, InvInit, PTL DEF Spec

(* Every variable keeps its type in every system, stale framebuffers and   *)
(* overlapping handlers included: a copy that fits takes only pixels of    *)
(* the framebuffer, and mpro_send_partial_frame makes a frame only of a    *)
(* region whose flipped row is not negative.                               *)
THEOREM FramesTypeTheorem == Spec => []TypeOK
<1>1. Inv => TypeOK
  <2> SUFFICES ASSUME TypeInv PROVE TypeOK
    BY DEF Inv
  <2>1. /\ setup \in Setups /\ sleeps \in 0 .. MaxSleeps /\ drawn \in Colour
        /\ <<fb.w, fb.h>> \in {<<W, H>>, <<H, W>>} /\ fb.px \in Picture
        /\ shadow \in Picture /\ panel \in Picture
    BY DEF TypeInv, TData, FbType
  <2>2. /\ <<width, height>> \in {<<W, H>>, <<H, W>>}
        /\ native_rotation \in Rotation /\ disable_partial \in BOOLEAN
    BY SizeFacts DEF TypeInv, TMode
  <2>3. IsFrame(slot) /\ IsFrame(waiting) /\ \A t \in Thread : IsFrame(frame[t])
    BY DEF TypeInv, TFrame
  <2>4. /\ pc \in [Thread -> Label] /\ op \in [Thread -> Op]
        /\ src \in [Thread -> {"none", "shadow", "black"}]
    BY DEF TypeInv, TThread
  <2> QED BY <2>1, <2>2, <2>3, <2>4, Zenon DEF TypeOK, TypeInv, TFlag, TThread, Label
<1> QED BY <1>1, InvHolds, PTL

(* For every size of the panel, every damage, every rotation and every     *)
(* overlap of the handlers, copy_frame and request_update stay inside of   *)
(* the framebuffer, of temp_buffer and of a live shadow or black buffer,   *)
(* except in the three cases CopyInBounds names: the mode changed under    *)
(* the handler, a framebuffer of another size than the mode is turned, or  *)
(* wake_work sends the black buffer that pipe_disable has freed.           *)
THEOREM CopyTheorem == Spec => []CopyInBounds
<1>1. Inv => CopyInBounds
  BY DEF Inv, BoundsInv
<1> QED BY <1>1, InvHolds, PTL

(* After any sequence of commits, modesets, idle periods, rotations and    *)
(* sleeps the panel, once it is quiet and lit, shows the framebuffer,      *)
(* mirrored and turned as the rotation says, for every size of the panel.  *)
(* Excepted are what a sleep or a new rotation cleared, what was not       *)
(* copied or sent for want of memory, and what a partial update gave up;   *)
(* handlers do not overlap and the compositor follows the mode.            *)
THEOREM PictureTheorem == Spec => []PanelShowsFramebuffer
<1>1. Inv => PanelShowsFramebuffer
  <2> SUFFICES ASSUME Inv, Serial, Quiet, Lit, FbFits, NEW c \in Cells(fb.w, fb.h)
               PROVE  PlaceOf(c[1], c[2]) \in erased \cup missed
                        \/ panel[PlaceOf(c[1], c[2])] = fb.px[c[2] * fb.w + c[1]]
    BY DEF PanelShowsFramebuffer, PictureShown, Serial
  <2> DEFINE p == PlaceOf(c[1], c[2])
  <2>1. \A t \in Thread : pc[t] = "out" /\ op[t] = "none"
    BY DEF Quiet, Resting, At, Inv, PcInv, PcOk
  <2>2. fb.w = width /\ fb.h = height
    BY DEF FbFits
  <2>3. p \in Pixel
    BY <2>2, CellFacts DEF Inv
  <2>4. p \in erased \/ Drawn(c)
    BY <2>1, <2>2 DEF Inv, PictureInv, ShadowInv, Due, Thread
  <2>5. p \in erased \/ p \in missed \/ Final(p) = shadow[p]
    <3>1. Lighting
      BY <2>1 DEF Lighting, Lit, Thread
    <3>2. \A t \in Thread : ~ComingFrom(t, p)
      BY <2>1 DEF ComingFrom, Sending
    <3> HIDE DEF p
    <3> QED BY <2>3, <3>1, <3>2 DEF Inv, PictureInv, PanelInv
  <2>6. Final(p) = panel[p]
    <3>1. slot = NoFrame /\ waiting = NoFrame
      BY DEF Quiet, Inv, SlotInv
    <3>2. p \notin Shows(NoFrame)
      BY DEF Shows, NoFrame, FrameCells, NoRect
    <3> QED BY <3>1, <3>2 DEF Final
  <2> QED BY <2>4, <2>5, <2>6 DEF Drawn
<1> QED BY <1>1, InvHolds, PTL
=============================================================================
