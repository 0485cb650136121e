------------------------- MODULE PanelConfigProofs -------------------------
(***************************************************************************)
(* Proofs about PanelConfig for every set of systems and texts: the types, *)
(* the EDID block, the picture that a blit leaves on the panel, and the    *)
(* brightness curves.                                                      *)
(***************************************************************************)
EXTENDS PanelConfig, WellFoundedInduction, SequenceTheorems, FiniteSetTheorems, TLAPS

------------------------------------------------------------------------------
(* Induction.                                                              *)

(* The order of the natural numbers, as the library's induction takes it.  *)
Less == {p \in Nat \X Nat : p[1] < p[2]}

(* A set of natural numbers has a least element.                           *)
LEMMA LeastElement ==
    ASSUME NEW T, T \subseteq Nat, T # {}
    PROVE  \E x \in T : \A y \in T : x <= y
<1>1. IsWellFoundedOn(Less, Nat)
  BY NatLessThanWellFounded DEF OpToRel, Less
<1>2. PICK x \in T : \A y \in T : ~ (<<y, x>> \in Less)
  BY <1>1, WFMin
<1>3. ASSUME NEW y \in T PROVE x <= y
  <2>1. x \in Nat /\ y \in Nat /\ <<y, x>> \notin Less
    BY <1>2
  <2> QED
    BY <2>1 DEF Less
<1> QED
  BY <1>3

(* A set that contains 0 and with i also i + 1 contains 0..n.              *)
LEMMA RangeInduction ==
    ASSUME NEW n \in Nat, NEW S, 0 \in S, \A i \in 0..n - 1 : i \in S => i + 1 \in S
    PROVE  0..n \subseteq S
<1> DEFINE T == (0..n) \ S
<1> SUFFICES ASSUME T # {} PROVE FALSE
  OBVIOUS
<1>1. T \subseteq Nat
  OBVIOUS
<1>2. PICK x \in T : \A y \in T : x <= y
  BY <1>1, LeastElement
<1>3. /\ x # 0 /\ x - 1 \in 0..n - 1 /\ x - 1 \in 0..n
      /\ ~ (x <= x - 1) /\ x - 1 + 1 = x
  BY <1>1, <1>2
<1>4. x - 1 \in S
  BY <1>2, <1>3
<1> QED
  BY <1>2, <1>3, <1>4

------------------------------------------------------------------------------
(* Horner.                                                                 *)

(* f holds the values of the prefixes of seq up to length k.               *)
Partial(f, base, seq, k) ==
    f = [n \in 0..k |-> IF n = 0 THEN 0 ELSE base * f[n - 1] + seq[n]]

(* Such a function exists.                                                 *)
LEMMA PartialExists ==
    ASSUME NEW base, NEW seq, Len(seq) \in Nat
    PROVE  \E f : Partial(f, base, seq, Len(seq))
<1> DEFINE S == {k \in 0..Len(seq) : \E f : Partial(f, base, seq, k)}
<1>1. 0 \in S
  <2>1. Partial([n \in 0..0 |-> 0], base, seq, 0)
    BY DEF Partial
  <2> QED
    BY <2>1
<1>2. ASSUME NEW i \in 0..Len(seq) - 1, i \in S PROVE i + 1 \in S
  <2>1. PICK f : Partial(f, base, seq, i)
    BY <1>2
  <2> DEFINE g == [n \in 0..i + 1 |-> IF n = i + 1 THEN base * f[i] + seq[n] ELSE f[n]]
  <2>2. ASSUME NEW n \in 0..i + 1
        PROVE  g[n] = IF n = 0 THEN 0 ELSE base * g[n - 1] + seq[n]
    <3>1. CASE n = 0
      BY <2>1, <3>1 DEF Partial
    <3>2. CASE n = i + 1
      BY <3>2
    <3>3. CASE n \in 1..i
      BY <2>1, <3>3 DEF Partial
    <3> QED
      BY <3>1, <3>2, <3>3
  <2>3. Partial(g, base, seq, i + 1)
    BY <2>2 DEF Partial
  <2> QED
    BY <2>3
<1> HIDE DEF S
<1>3. 0..Len(seq) \subseteq S
  BY <1>1, <1>2, RangeInduction
<1>4. Len(seq) \in S
  BY <1>3
<1> QED
  BY <1>4 DEF S

(* It is unique, and does not look beyond its prefix.                      *)
LEMMA PartialAgree ==
    ASSUME NEW base, NEW s, NEW t, NEW k \in Nat, NEW m \in Nat, k <= m,
           \A i \in 1..k : s[i] = t[i],
           NEW f, NEW g, Partial(f, base, s, k), Partial(g, base, t, m)
    PROVE  \A n \in 0..k : f[n] = g[n]
<1> DEFINE S == {n \in 0..k : f[n] = g[n]}
<1>1. 0 \in S
  BY DEF Partial
<1>2. ASSUME NEW i \in 0..k - 1, i \in S PROVE i + 1 \in S
  <2>1. i + 1 \in 1..k /\ i + 1 \in 0..m /\ i + 1 # 0 /\ i + 1 - 1 = i
    OBVIOUS
  <2>2. f[i + 1] = base * f[i] + s[i + 1] /\ g[i + 1] = base * g[i] + t[i + 1]
    BY <2>1 DEF Partial
  <2> QED
    BY <1>2, <2>1, <2>2
<1> HIDE DEF S
<1>3. 0..k \subseteq S
  BY <1>1, <1>2, RangeInduction
<1> QED
  BY <1>3 DEF S

(* Horner is the value of the whole sequence.                              *)
LEMMA HornerIs ==
    ASSUME NEW base, NEW s, Len(s) \in Nat
    PROVE  \E f : Partial(f, base, s, Len(s)) /\ Horner(base, s) = f[Len(s)]
<1> DEFINE F == CHOOSE f : Partial(f, base, s, Len(s))
<1>1. Partial(F, base, s, Len(s))
  BY PartialExists
<1>2. Horner(base, s) = F[Len(s)]
  BY DEF Horner, Partial
<1> QED
  BY <1>1, <1>2

(* The empty sequence is worth nothing.                                    *)
LEMMA HornerEmpty ==
    ASSUME NEW base, NEW s, Len(s) = 0
    PROVE  Horner(base, s) = 0
<1>1. PICK f : Partial(f, base, s, 0) /\ Horner(base, s) = f[0]
  BY HornerIs
<1> QED
  BY <1>1 DEF Partial

(* An element appended is added to the value times the base.               *)
LEMMA HornerAppend ==
    ASSUME NEW base, NEW S, NEW s \in Seq(S), NEW x \in S
    PROVE  Horner(base, Append(s, x)) = base * Horner(base, s) + x
<1> DEFINE t == Append(s, x)
           k == Len(s)
<1>1. /\ k \in Nat /\ Len(t) = k + 1 /\ t[k + 1] = x
      /\ \A i \in 1..k : s[i] = t[i]
  BY AppendProperties
<1>2. PICK f : Partial(f, base, s, k) /\ Horner(base, s) = f[k]
  BY <1>1, HornerIs
<1> HIDE DEF t, k
<1>3. PICK g : Partial(g, base, t, k + 1) /\ Horner(base, t) = g[k + 1]
  <2>1. Len(t) \in Nat /\ Len(t) = k + 1
    BY <1>1
  <2> QED
    BY <2>1, HornerIs
<1>4. f[k] = g[k]
  <2>1. \A n \in 0..k : f[n] = g[n]
    BY <1>1, <1>2, <1>3, PartialAgree
  <2> QED
    BY <1>1, <2>1
<1>5. g[k + 1] = base * g[k] + t[k + 1]
  BY <1>1, <1>3 DEF Partial
<1> QED
  BY <1>1, <1>2, <1>3, <1>4, <1>5 DEF t

(* The value of natural numbers in a natural base is one.                  *)
LEMMA HornerNat ==
    ASSUME NEW base \in Nat, NEW s \in Seq(Nat)
    PROVE  Horner(base, s) \in Nat
<1>0. Len(s) \in Nat /\ \A i \in 1..Len(s) : s[i] \in Nat
  BY LenProperties, ElementOfSeq
<1>1. PICK f : Partial(f, base, s, Len(s)) /\ Horner(base, s) = f[Len(s)]
  BY <1>0, HornerIs
<1> DEFINE S == {n \in 0..Len(s) : f[n] \in Nat}
<1>2. 0 \in S
  BY <1>0, <1>1 DEF Partial
<1>3. ASSUME NEW i \in 0..Len(s) - 1, i \in S PROVE i + 1 \in S
  <2>1. i + 1 \in 1..Len(s) /\ i + 1 \in 0..Len(s) /\ i + 1 # 0 /\ i + 1 - 1 = i
    BY <1>0
  <2>2. f[i + 1] = base * f[i] + s[i + 1]
    BY <1>1, <2>1 DEF Partial
  <2>3. base * f[i] \in Nat /\ s[i + 1] \in Nat
    BY <1>0, <1>3, <2>1
  <2> QED
    BY <2>1, <2>2, <2>3
<1> HIDE DEF S
<1>4. 0..Len(s) \subseteq S
  BY <1>0, <1>2, <1>3, RangeInduction
<1> QED
  BY <1>0, <1>1, <1>4 DEF S

------------------------------------------------------------------------------
(* Powers.                                                                 *)

(* Both curves take the powers 0 to 5: a gamma is at most 400.             *)
LEMMA ExponentsAre == Exponents = 0..5
  BY DEF Exponents, GreatestGamma

(* The powers of both curves, without recursion.                           *)
LEMMA ScaledPowersAre ==
    ASSUME NEW raw
    PROVE  /\ ScaledPowers(raw)[0] = 255
           /\ \A n \in 0..4 :
                  ScaledPowers(raw)[n + 1] = (ScaledPowers(raw)[n] * raw) \div 255
<1> DEFINE Fits(f) ==
        f = [n \in 0..5 |-> IF n = 0 THEN 255 ELSE (f[n - 1] * raw) \div 255]
    Up(x) == (x * raw) \div 255
    w == [n \in 0..5 |-> IF n = 0 THEN 255
                         ELSE IF n = 1 THEN Up(255)
                         ELSE IF n = 2 THEN Up(Up(255))
                         ELSE IF n = 3 THEN Up(Up(Up(255)))
                         ELSE IF n = 4 THEN Up(Up(Up(Up(255))))
                         ELSE Up(Up(Up(Up(Up(255)))))]
<1>1. Fits(w)
  <2> HIDE DEF Up
  <2>1. /\ w[0] = 255 /\ w[1] = Up(w[0]) /\ w[2] = Up(w[1])
        /\ w[3] = Up(w[2]) /\ w[4] = Up(w[3]) /\ w[5] = Up(w[4])
    OBVIOUS
  <2>2. w = [n \in 0..5 |-> w[n]]
    OBVIOUS
  <2> HIDE DEF w
  <2>3. ASSUME NEW n \in 0..5 PROVE w[n] = IF n = 0 THEN 255 ELSE Up(w[n - 1])
    <3>1. n \in {0, 1, 2, 3, 4, 5}
      OBVIOUS
    <3> QED
      BY <2>1, <3>1
  <2>4. w = [n \in 0..5 |-> IF n = 0 THEN 255 ELSE Up(w[n - 1])]
    BY <2>2, <2>3
  <2> QED
    BY <2>4 DEF Up
<1> DEFINE F == CHOOSE f : Fits(f)
<1> HIDE DEF w
<1>2. Fits(F)
  BY <1>1
<1>3. ScaledPowers(raw) = F
  BY ExponentsAre DEF ScaledPowers
<1> HIDE DEF F
<1>4. F[0] = 255 /\ \A n \in 0..4 : F[n + 1] = (F[n] * raw) \div 255
  <2>1. ASSUME NEW n \in 0..4 PROVE F[n + 1] = (F[n] * raw) \div 255
    <3>1. n + 1 \in 0..5 /\ n + 1 # 0 /\ n + 1 - 1 = n
      OBVIOUS
    <3> QED
      BY <1>2, <3>1
  <2> QED
    BY <1>2, <2>1
<1> QED
  BY <1>3, <1>4

(* int_pow multiplies, exponent by exponent.                               *)
LEMMA PowersAre ==
    ASSUME NEW x
    PROVE  /\ int_pow(x)[0] = 1
           /\ \A n \in 0..4 : int_pow(x)[n + 1] = x * int_pow(x)[n]
<1> DEFINE Fits(f) == f = [n \in 0..5 |-> IF n = 0 THEN 1 ELSE x * f[n - 1]]
    Up(y) == x * y
    w == [n \in 0..5 |-> IF n = 0 THEN 1
                         ELSE IF n = 1 THEN Up(1)
                         ELSE IF n = 2 THEN Up(Up(1))
                         ELSE IF n = 3 THEN Up(Up(Up(1)))
                         ELSE IF n = 4 THEN Up(Up(Up(Up(1))))
                         ELSE Up(Up(Up(Up(Up(1)))))]
<1>1. Fits(w)
  <2> HIDE DEF Up
  <2>1. /\ w[0] = 1 /\ w[1] = Up(w[0]) /\ w[2] = Up(w[1])
        /\ w[3] = Up(w[2]) /\ w[4] = Up(w[3]) /\ w[5] = Up(w[4])
    OBVIOUS
  <2>2. w = [n \in 0..5 |-> w[n]]
    OBVIOUS
  <2> HIDE DEF w
  <2>3. ASSUME NEW n \in 0..5 PROVE w[n] = IF n = 0 THEN 1 ELSE Up(w[n - 1])
    <3>1. n \in {0, 1, 2, 3, 4, 5}
      OBVIOUS
    <3> QED
      BY <2>1, <3>1
  <2>4. w = [n \in 0..5 |-> IF n = 0 THEN 1 ELSE Up(w[n - 1])]
    BY <2>2, <2>3
  <2> QED
    BY <2>4 DEF Up
<1> DEFINE F == CHOOSE f : Fits(f)
<1> HIDE DEF w
<1>2. Fits(F)
  BY <1>1
<1>3. int_pow(x) = F
  BY ExponentsAre DEF int_pow
<1> HIDE DEF F
<1>4. F[0] = 1 /\ \A n \in 0..4 : F[n + 1] = x * F[n]
  <2>1. ASSUME NEW n \in 0..4 PROVE F[n + 1] = x * F[n]
    <3>1. n + 1 \in 0..5 /\ n + 1 # 0 /\ n + 1 - 1 = n
      OBVIOUS
    <3> QED
      BY <1>2, <3>1
  <2> QED
    BY <1>2, <2>1
<1> QED
  BY <1>3, <1>4

------------------------------------------------------------------------------
(* Detection.                                                              *)

(* What any panel has, and what those with a mode of their own have: each  *)
(* side fits twelve bits of the EDID and its length a byte.                *)
PanelType == [w : Nat \ {0}, h : Nat \ {0}, wm : Nat, hm : Nat, margin : Nat]
SmallPanel(p) == p.w <= 1920 /\ p.h <= 1920 /\ p.wm <= 255 /\ p.hm <= 255

(* The first row that passes a test is a row.                              *)
LEMMA FirstRow ==
    ASSUME NEW T, T \subseteq Nat, T # {}
    PROVE  Min(T) \in T
  BY LeastElement DEF Min

(* The rows of the tables.                                                 *)
LEMMA BeadaDomain == Len(beada_model_table) = 22
  BY DEF beada_model_table

(* Every row of beada_model_table is a panel that the EDID can describe.   *)
LEMMA BeadaRows ==
    ASSUME NEW i \in 1..22
    PROVE  beada_model_table[i][2] \in PanelType /\ SmallPanel(beada_model_table[i][2])
  BY DEF beada_model_table, Model, PanelType, SmallPanel

(* mpro_models has eleven rows.                                            *)
LEMMA MproDomain == DOMAIN mpro_models = 1..11 /\ Len(mpro_models) = 11
  BY DEF mpro_models

(* Every row of mpro_models is one too; only MPRO-5 has a margin.          *)
LEMMA MproRows ==
    ASSUME NEW i \in 1..11
    PROVE  /\ mpro_models[i][2] \in PanelType /\ SmallPanel(mpro_models[i][2])
           /\ mpro_models[i][1] # 5 => mpro_models[i][2].margin = 0
  BY DEF mpro_models, Model, PanelType, SmallPanel

(* Both variants of MPRO-5 have a row.                                     *)
LEMMA MproFive ==
    ASSUME NEW m \in {0, 320}
    PROVE  \E i \in 1..11 : mpro_models[i][1] = 5 /\ mpro_models[i][2].margin = m
<1>1. /\ mpro_models[2][1] = 5 /\ mpro_models[2][2].margin = 0
      /\ mpro_models[3][1] = 5 /\ mpro_models[3][2].margin = 320
  BY DEF mpro_models, Model
<1> QED
  BY <1>1

(* A panel of beadapanel that is drawn on.                                 *)
LEMMA DrawnPanel ==
    ASSUME NEW w \in Side, NEW h \in Side
    PROVE  Model(w, h, 1, 1, 0) \in PanelType /\ SmallPanel(Model(w, h, 1, 1, 0))
<1>1. w \in Nat \ {0} /\ w <= 1920 /\ h \in Nat \ {0} /\ h <= 1920
  BY DEF Side
<1> QED
  BY <1>1 DEF Model, PanelType, SmallPanel

(* Every system that probes has a panel.                                   *)
LEMMA DetectedPanel ==
    ASSUME NEW s \in Setups
    PROVE  /\ Detected(s) \in PanelType
           /\ s.drv # "ax206" => SmallPanel(Detected(s))
<1>1. CASE s.drv = "beada"
  <2>1. s.device.outs \in Nat /\ s.device.outs >= 2
    BY <1>1, SetupAssumption DEF SetupType, Device
  <2>2. CASE s.client
    <3>1. Detected(s) = Model(s.device.w, s.device.h, 1, 1, 0)
      BY <1>1, <2>1, <2>2 DEF Detected
    <3>2. s.device.w \in Side /\ s.device.h \in Side
      BY <1>1, <2>2, SetupAssumption
    <3> QED
      BY <3>1, <3>2, DrawnPanel
  <2>3. CASE ~s.client
    <3>1. Detected(s) = query_device_info(s.device)
      BY <1>1, <2>1, <2>3, SetupAssumption DEF Detected, SetupType, Device
    <3>2. \/ Detected(s) = beada_model_fallback
          \/ \E i \in 1..Len(beada_model_table) : Detected(s) = beada_model_table[i][2]
      <4> DEFINE T == {i \in 1..Len(beada_model_table) :
                         beada_model_table[i][1] = s.device.code}
      <4>1. CASE T = {}
        BY <3>1, <4>1 DEF query_device_info, lookup_model, FirstMatch, SelectInSeq
      <4>2. CASE T # {}
        <5>1. Min(T) \in T
          BY <4>2, FirstRow
        <5>2. \/ Detected(s) = beada_model_fallback
              \/ Detected(s) = beada_model_table[Min(T)][2]
          BY <3>1, <4>2, <5>1 DEF query_device_info, lookup_model, FirstMatch, SelectInSeq
        <5> QED
          BY <5>1, <5>2
      <4> QED
        BY <4>1, <4>2
    <3>3. beada_model_fallback \in PanelType /\ SmallPanel(beada_model_fallback)
      BY DEF beada_model_fallback, Model, PanelType, SmallPanel
    <3> QED
      BY <3>2, <3>3, BeadaDomain, BeadaRows
  <2> QED
    BY <2>2, <2>3
<1>2. CASE s.drv = "mpro"
  <2> DEFINE T == {i \in 1..Len(mpro_models) :
                                /\ mpro_models[i][1] = s.device.code
                                /\ mpro_models[i][2].margin = detect_margin(s.device)}
  <2>1. T # {}
    <3>1. PICK i \in 1..11 : mpro_models[i][1] = s.device.code
      BY <1>2, SetupAssumption, MproDomain
    <3>2. CASE s.device.code # 5
      <4>1. detect_margin(s.device) = 0
        BY <3>2 DEF detect_margin
      <4> QED
        BY <3>1, <3>2, <4>1, MproRows, MproDomain
    <3>3. CASE s.device.code = 5
      <4>1. detect_margin(s.device) \in {0, 320}
        BY DEF detect_margin
      <4> QED
        BY <3>3, <4>1, MproFive, MproDomain
    <3> QED
      BY <3>2, <3>3
  <2>2. Min(T) \in T
    <3>1. T \subseteq Nat
      OBVIOUS
    <3> HIDE DEF T
    <3> QED
      BY <2>1, <3>1, FirstRow
  <2>3. Detected(s) = mpro_models[Min(T)][2]
    <3>1. Detected(s) = get_model(s.device)
      BY <1>2 DEF Detected
    <3>2. get_model(s.device) = LET i == IF T # {} THEN Min(T) ELSE 0
                                IN  IF i = 0 THEN NoModel ELSE mpro_models[i][2]
      BY DEF get_model, FirstMatch, SelectInSeq
    <3>3. Min(T) # 0
      BY <2>2
    <3> HIDE DEF T
    <3> QED
      BY <2>1, <3>1, <3>2, <3>3
  <2> QED
    BY <2>2, <2>3, MproRows, MproDomain
<1>3. CASE s.drv = "ax206"
  <2>1. Detected(s) = Model(s.device.w, s.device.h, 0, 0, 0)
    BY <1>3 DEF Detected
  <2>2. s.device.w \in Nat \ {0} /\ s.device.h \in Nat \ {0}
    BY <1>3, SetupAssumption DEF SetupType, Device
  <2> QED
    BY <1>3, <2>1, <2>2 DEF Model, PanelType
<1> QED
  BY <1>1, <1>2, <1>3, SetupAssumption DEF SetupType

------------------------------------------------------------------------------
(* Arithmetic.                                                             *)

(* A product grows with its factors.                                       *)
LEMMA MulGrows ==
    ASSUME NEW a \in Nat, NEW b \in Nat, NEW c \in Nat, NEW d \in Nat, a <= c, b <= d
    PROVE  a * b \in Nat /\ c * d \in Nat /\ a * b <= c * d
<1>1. a * b <= a * d
  <2>1. PICK e \in Nat : d = b + e
    <3>1. d - b \in Nat /\ d = b + (d - b)
      OBVIOUS
    <3> QED
      BY <3>1
  <2>2. a * d = a * b + a * e /\ a * e \in Nat
    BY <2>1
  <2> QED
    BY <2>2
<1>2. a * d <= c * d
  <2>1. PICK e \in Nat : c = a + e
    <3>1. c - a \in Nat /\ c = a + (c - a)
      OBVIOUS
    <3> QED
      BY <3>1
  <2>2. c * d = a * d + e * d /\ e * d \in Nat
    BY <2>1
  <2> QED
    BY <2>2
<1> QED
  BY <1>1, <1>2

(* The quotient is between the bounds that products give it.               *)
LEMMA DivBetween ==
    ASSUME NEW x \in Nat, NEW d \in Nat \ {0}
    PROVE  /\ x \div d \in Nat
           /\ (x \div d) * d <= x
           /\ x < (x \div d + 1) * d
<1> DEFINE q == x \div d
<1>1. q \in Nat /\ (x % d) \in 0..d - 1 /\ q * d + (x % d) = x
  OBVIOUS
<1>2. (q + 1) * d = q * d + d
  BY <1>1
<1> QED
  BY <1>1, <1>2

(* A bound on a quotient, from above.                                      *)
LEMMA DivAtMost ==
    ASSUME NEW x \in Nat, NEW d \in Nat \ {0}, NEW q \in Nat, x <= q * d
    PROVE  x \div d <= q
<1> DEFINE k == x \div d
<1>1. k \in Nat /\ k * d <= x
  BY DivBetween
<1> HIDE DEF k
<1>2. ASSUME k >= q + 1 PROVE FALSE
  <2>1. (q + 1) * d <= k * d
    BY <1>1, <1>2, MulGrows
  <2>2. (q + 1) * d = q * d + d
    OBVIOUS
  <2> QED
    BY <1>1, <2>1, <2>2
<1> QED
  BY <1>1, <1>2 DEF k

(* A bound on a quotient, from below.                                      *)
LEMMA DivAtLeast ==
    ASSUME NEW x \in Nat, NEW d \in Nat \ {0}, NEW q \in Nat, q * d <= x
    PROVE  q <= x \div d
<1> DEFINE k == x \div d
<1>1. k \in Nat /\ x < (k + 1) * d
  BY DivBetween
<1> HIDE DEF k
<1>2. ASSUME k + 1 <= q PROVE FALSE
  <2>1. (k + 1) * d <= q * d
    BY <1>1, <1>2, MulGrows
  <2> QED
    BY <1>1, <2>1
<1> QED
  BY <1>1, <1>2 DEF k

(* A quotient grows with what is divided.                                  *)
LEMMA DivGrows ==
    ASSUME NEW x \in Nat, NEW y \in Nat, NEW d \in Nat \ {0}, x <= y
    PROVE  x \div d <= y \div d
<1> DEFINE k == x \div d
<1>1. k \in Nat /\ k * d <= x
  BY DivBetween
<1>2. k * d <= y
  BY <1>1
<1> HIDE DEF k
<1>3. k <= y \div d
  BY <1>1, <1>2, DivAtLeast
<1> QED
  BY <1>3 DEF k

------------------------------------------------------------------------------
(* The curves.  Each interpolates between the whole powers of a level; its *)
(* values are levels, grow with the level and fall with the gamma.         *)

(* What gamma % 100 may be.                                                *)
Hundredths == 0..99

(* The gammas that the parsers accept.                                     *)
Gammas == LeastGamma..GreatestGamma

(* A gamma is its whole part and its hundredths.                           *)
LEMMA GammaParts ==
    ASSUME NEW g \in Gammas
    PROVE  /\ g \in Nat /\ g >= 50
           /\ g \div 100 \in 0..4 /\ g % 100 \in Hundredths
           /\ g = 100 * (g \div 100) + (g % 100)
  BY DEF Gammas, LeastGamma, GreatestGamma, Hundredths

(* A sequence of whole powers: levels that fall.                           *)
Falling(R) == \A n \in 0..4 : R[n] \in Nat /\ R[n + 1] \in Nat /\ R[n + 1] <= R[n]

(* A falling sequence falls over any distance.                             *)
LEMMA FallsFar ==
    ASSUME NEW R, Falling(R), NEW m \in 0..4, NEW n \in 0..4, m < n
    PROVE  R[n] <= R[m + 1]
<1>1. /\ R[0] \in Nat /\ R[1] \in Nat /\ R[2] \in Nat /\ R[3] \in Nat /\ R[4] \in Nat
      /\ R[1] <= R[0] /\ R[2] <= R[1] /\ R[3] <= R[2] /\ R[4] <= R[3]
  BY DEF Falling
<1>2. m \in {0, 1, 2, 3, 4} /\ n \in {0, 1, 2, 3, 4}
  OBVIOUS
<1> QED
  BY <1>1, <1>2

(* A function of the gamma that stays between the whole powers and falls   *)
(* between them falls.                                                     *)
LEMMA CurveFalls ==
    ASSUME NEW R, Falling(R), NEW V,
           \A g \in Gammas : /\ V[g] \in Nat
                             /\ R[g \div 100 + 1] <= V[g] /\ V[g] <= R[g \div 100],
           \A g, h \in Gammas : g <= h /\ g \div 100 = h \div 100 => V[h] <= V[g],
           NEW g \in Gammas, NEW h \in Gammas, g <= h
    PROVE  V[h] <= V[g]
<1>1. CASE g \div 100 = h \div 100
  BY <1>1
<1>2. CASE g \div 100 # h \div 100
  <2>1. g \div 100 \in 0..4 /\ h \div 100 \in 0..4 /\ g \div 100 < h \div 100
    <3>1. /\ g \div 100 \in 0..4 /\ h \div 100 \in 0..4
          /\ g \in Nat /\ h \in Nat
      BY GammaParts
    <3>2. g \div 100 <= h \div 100
      BY <3>1, DivGrows
    <3> QED
      BY <1>2, <3>1, <3>2
  <2>2. R[h \div 100] <= R[g \div 100 + 1]
    BY <2>1, FallsFar
  <2>3. R[h \div 100] \in Nat /\ R[g \div 100 + 1] \in Nat
    BY <2>1 DEF Falling
  <2> QED
    BY <2>2, <2>3
<1> QED
  BY <1>1, <1>2

(* beada: w + (n - w) * f / 100 for n <= w, with C's rounding.             *)
LEMMA Rounded ==
    ASSUME NEW w \in Nat, NEW n \in Nat, n <= w, NEW f \in Hundredths
    PROVE  /\ (w - n) * f \in Nat
           /\ TowardsZero((n - w) * f, 100) = -(((w - n) * f) \div 100)
<1>1. PICK d \in Nat : d = w - n
  OBVIOUS
<1>2. d * f \in Nat
  BY MulGrows DEF Hundredths
<1>3. (n - w) * f = -(d * f) /\ (w - n) * f = d * f
  BY <1>1 DEF Hundredths
<1> DEFINE X == d * f
<1>4. TowardsZero(-X, 100) = -(X \div 100)
  <2> HIDE DEF X
  <2>1. X \in Nat
    BY <1>2 DEF X
  <2> QED
    BY <2>1 DEF TowardsZero
<1> QED
  BY <1>2, <1>3, <1>4

(* beadapanel's interpolation between the whole powers w and n.            *)
Slope(w, n, f) == w - (((w - n) * f) \div 100)

(* A slope stays between its ends, and reaches the lower one last.         *)
LEMMA SlopeBetween ==
    ASSUME NEW w \in Nat, NEW n \in Nat, n <= w, NEW f \in Hundredths
    PROVE  /\ Slope(w, n, f) \in Nat /\ n <= Slope(w, n, f) /\ Slope(w, n, f) <= w
           /\ n < w => n + 1 <= Slope(w, n, f)
<1>1. PICK d \in Nat : d = w - n
  OBVIOUS
<1>2. d * f \in Nat /\ d * f <= d * 99
  BY MulGrows DEF Hundredths
<1> DEFINE X == d * f
<1> HIDE DEF X
<1>3. X \in Nat /\ X <= d * 99
  BY <1>2 DEF X
<1>4. X \div 100 \in 0..d /\ (d > 0 => X \div 100 <= d - 1)
  BY <1>3
<1>5. Slope(w, n, f) = w - (X \div 100)
  BY <1>1 DEF Slope, X
<1> QED
  BY <1>1, <1>4, <1>5

(* It falls with the hundredths.                                           *)
LEMMA SlopeFalls ==
    ASSUME NEW w \in Nat, NEW n \in Nat, n <= w, NEW e \in Hundredths, NEW f \in Hundredths, e <= f
    PROVE  Slope(w, n, f) <= Slope(w, n, e)
<1>1. PICK d \in Nat : d = w - n
  OBVIOUS
<1>2. d * e \in Nat /\ d * f \in Nat /\ d * e <= d * f
  BY MulGrows DEF Hundredths
<1>3. (d * e) \div 100 <= (d * f) \div 100 /\ (d * e) \div 100 \in Nat /\ (d * f) \div 100 \in Nat
  BY <1>2, DivGrows, DivBetween
<1> QED
  BY <1>1, <1>3 DEF Slope

(* It grows with its ends.                                                 *)
LEMMA SlopeGrows ==
    ASSUME NEW v \in Nat, NEW m \in Nat, m <= v, NEW w \in Nat, NEW n \in Nat, n <= w,
           v <= w, m <= n, NEW f \in Hundredths
    PROVE  Slope(v, m, f) <= Slope(w, n, f)
<1>1. PICK c \in Nat, d \in Nat, k \in Nat : c = v - m /\ d = w - n /\ k = w - v
  OBVIOUS
<1>2. d <= c + k
  BY <1>1
<1>3. d * f \in Nat /\ d * f <= (c + k) * f
  BY <1>2, MulGrows DEF Hundredths
<1>4. (c + k) * f = c * f + k * f /\ c * f \in Nat /\ k * f \in Nat /\ k * f <= k * 100
  BY MulGrows DEF Hundredths
<1> DEFINE X == c * f
           Y == d * f
<1> HIDE DEF X, Y
<1>5. X \in Nat /\ Y \in Nat /\ Y <= X + k * 100
  BY <1>3, <1>4 DEF X, Y
<1>6. Y \div 100 <= (X \div 100) + k
  BY <1>5
<1>7. Slope(v, m, f) = v - (X \div 100) /\ Slope(w, n, f) = w - (Y \div 100)
  BY <1>1 DEF Slope, X, Y
<1> QED
  BY <1>1, <1>5, <1>6, <1>7

(* The whole powers of beadapanel.                                         *)
LEMMA BeadaWhole ==
    ASSUME NEW raw \in Nat, raw <= 255
    PROVE  /\ ScaledPowers(raw)[0] = 255 /\ ScaledPowers(raw)[1] = raw
           /\ Falling(ScaledPowers(raw))
<1> DEFINE R == ScaledPowers(raw)
<1>1. R[0] = 255 /\ \A n \in 0..4 : R[n + 1] = (R[n] * raw) \div 255
  BY ScaledPowersAre
<1> HIDE DEF R
<1>2. ASSUME NEW n \in 0..4, R[n] \in Nat
      PROVE  R[n + 1] \in Nat /\ R[n + 1] <= R[n]
  <2>1. R[n] * raw \in Nat /\ R[n] * raw <= R[n] * 255
    BY <1>2, MulGrows
  <2> DEFINE X == R[n] * raw
  <2>2. R[n + 1] = X \div 255
    BY <1>1
  <2> HIDE DEF X
  <2>3. X \in Nat /\ X <= R[n] * 255
    BY <2>1 DEF X
  <2> QED
    BY <1>2, <2>2, <2>3
<1>3. R[0] \in Nat /\ R[1] \in Nat /\ R[2] \in Nat /\ R[3] \in Nat /\ R[4] \in Nat
  <2>0. 0 \in 0..4 /\ 1 \in 0..4 /\ 2 \in 0..4 /\ 3 \in 0..4
        /\ 0 + 1 = 1 /\ 1 + 1 = 2 /\ 2 + 1 = 3 /\ 3 + 1 = 4
    OBVIOUS
  <2>1. R[0] \in Nat
    BY <1>1
  <2>2. R[1] \in Nat
    BY <1>2, <2>0, <2>1
  <2>3. R[2] \in Nat
    BY <1>2, <2>0, <2>2
  <2>4. R[3] \in Nat
    BY <1>2, <2>0, <2>3
  <2> QED
    BY <1>2, <2>0, <2>1, <2>2, <2>3, <2>4
<1>4. Falling(R)
  <2>1. ASSUME NEW n \in 0..4 PROVE R[n] \in Nat
    <3>1. n \in {0, 1, 2, 3, 4}
      OBVIOUS
    <3> QED
      BY <1>3, <3>1
  <2> QED
    BY <1>2, <2>1 DEF Falling
<1>5. R[1] = raw
  <2>1. R[0 + 1] = (R[0] * raw) \div 255
    BY <1>1
  <2> QED
    BY <1>1, <2>1
<1> QED
  BY <1>1, <1>4, <1>5 DEF R

(* A whole power grows with the level.                                     *)
LEMMA BeadaWholeGrows ==
    ASSUME NEW a \in Nat, NEW b \in Nat, a <= b, b <= 255, NEW n \in 0..5
    PROVE  ScaledPowers(a)[n] <= ScaledPowers(b)[n]
<1> DEFINE R == ScaledPowers(a)
           Q == ScaledPowers(b)
<1>1. /\ \A i \in 0..4 : R[i + 1] = (R[i] * a) \div 255
      /\ \A i \in 0..4 : Q[i + 1] = (Q[i] * b) \div 255
      /\ R[0] = 255 /\ Q[0] = 255
  BY ScaledPowersAre
<1>2. Falling(R) /\ Falling(Q)
  BY BeadaWhole
<1> DEFINE S == {i \in 0..5 : R[i] <= Q[i]}
<1> HIDE DEF R, Q
<1>3. 0 \in S
  BY <1>1
<1>4. ASSUME NEW i \in 0..5 - 1, i \in S PROVE i + 1 \in S
  <2>1. /\ i \in 0..4 /\ i + 1 \in 0..5 /\ R[i] <= Q[i]
        /\ R[i] \in Nat /\ Q[i] \in Nat
    BY <1>2, <1>4 DEF Falling
  <2>2. R[i] * a \in Nat /\ Q[i] * b \in Nat /\ R[i] * a <= Q[i] * b
    BY <2>1, MulGrows
  <2>3. (R[i] * a) \div 255 <= (Q[i] * b) \div 255
    BY <2>2, DivGrows
  <2> QED
    BY <1>1, <2>1, <2>3
<1> HIDE DEF S
<1>5. 0..5 \subseteq S
  BY <1>3, <1>4, RangeInduction
<1>6. R[n] <= Q[n]
  BY <1>5 DEF S
<1> QED
  BY <1>6 DEF R, Q

(* beada_pow_lut is a slope, but for 0.                                    *)
LEMMA BeadaLutIs ==
    ASSUME NEW raw \in Nat, raw <= 255, NEW g \in Gammas
    PROVE  beada_pow_lut(raw, g) =
               IF raw = 0 THEN 0
               ELSE Slope(ScaledPowers(raw)[g \div 100], ScaledPowers(raw)[g \div 100 + 1], g % 100)
<1> DEFINE R == ScaledPowers(raw)
           n == g \div 100
           f == g % 100
<1>1. n \in 0..4 /\ f \in Hundredths /\ g = 100 * n + f
  BY GammaParts
<1>2. R[n + 1] = (R[n] * raw) \div 255
  BY <1>1, ScaledPowersAre
<1>3. /\ R[n] \in Nat /\ R[n + 1] \in Nat /\ R[n + 1] <= R[n]
      /\ R[0] = 255 /\ R[1] = raw
  BY <1>1, BeadaWhole DEF Falling
<1>4. beada_pow_lut(raw, g) = IF g = 100 \/ raw \in {0, 255} THEN raw
                              ELSE R[n] + TowardsZero((R[n + 1] - R[n]) * f, 100)
  BY <1>2 DEF beada_pow_lut
<1> HIDE DEF R, n, f
<1>5. TowardsZero((R[n + 1] - R[n]) * f, 100) = -(((R[n] - R[n + 1]) * f) \div 100)
  <2>1. \A u, v \in Nat : v <= u => TowardsZero((v - u) * f, 100) = -(((u - v) * f) \div 100)
    BY <1>1, Rounded
  <2> QED
    BY <1>3, <2>1
<1>6. CASE raw = 0
  BY <1>4, <1>6
<1>7. CASE raw # 0 /\ g = 100
  <2>1. n = 1 /\ f = 0
    BY <1>1, <1>7 DEF Hundredths
  <2>2. R[1] \in Nat /\ R[2] \in Nat /\ R[n + 1] = R[2] /\ R[n] = R[1]
    BY <1>3, <2>1
  <2>3. Slope(R[n], R[n + 1], f) = raw
    <3>1. (R[1] - R[2]) * 0 = 0
      BY <2>2
    <3> QED
      BY <1>3, <2>1, <2>2, <3>1 DEF Slope
  <2> QED
    BY <1>4, <1>7, <2>3 DEF R, n, f
<1>8. CASE raw = 255
  <2>1. \A i \in 0..4 : R[i] = 255 => R[i + 1] = 255
    <3> SUFFICES ASSUME NEW i \in 0..4, R[i] = 255 PROVE R[i + 1] = 255
      OBVIOUS
    <3>1. R[i + 1] = (255 * 255) \div 255
      BY <1>8, ScaledPowersAre DEF R
    <3> QED
      BY <3>1
  <2>2. R[n] = 255 /\ R[n + 1] = 255
    <3> DEFINE S == {i \in 0..5 : R[i] = 255}
    <3>1. 0 \in S
      BY <1>3
    <3>2. \A i \in 0..5 - 1 : i \in S => i + 1 \in S
      BY <2>1
    <3> HIDE DEF S
    <3>3. 0..5 \subseteq S
      BY <3>1, <3>2, RangeInduction
    <3> QED
      BY <1>1, <3>3 DEF S
  <2>3. Slope(R[n], R[n + 1], f) = 255
    <3>1. (255 - 255) * f = 0
      BY <1>1 DEF Hundredths
    <3> QED
      BY <2>2, <3>1 DEF Slope
  <2> QED
    BY <1>4, <1>8, <2>3 DEF R, n, f
<1>9. CASE raw # 0 /\ raw # 255 /\ g # 100
  <2>1. beada_pow_lut(raw, g) = Slope(R[n], R[n + 1], f)
    <3>1. f \in Nat /\ (R[n] - R[n + 1]) * f \in Nat
      BY <1>1, <1>3, Rounded DEF Hundredths
    <3>2. ((R[n] - R[n + 1]) * f) \div 100 \in Nat
      BY <3>1, DivBetween
    <3> QED
      BY <1>3, <1>4, <1>5, <1>9, <3>2 DEF Slope
  <2> QED
    BY <1>9, <2>1 DEF R, n, f
<1> QED
  BY <1>6, <1>7, <1>8, <1>9

(* A falling sequence stays below its first element.                       *)
LEMMA BelowFirst ==
    ASSUME NEW R, Falling(R), NEW n \in 0..4
    PROVE  R[n] <= R[0] /\ R[n + 1] <= R[0]
<1>1. /\ R[0] \in Nat /\ R[1] \in Nat /\ R[n] \in Nat /\ R[n + 1] \in Nat
      /\ R[1] <= R[0] /\ R[n + 1] <= R[n]
  BY DEF Falling
<1>2. n = 0 \/ R[n] <= R[0 + 1]
  BY FallsFar
<1> QED
  BY <1>1, <1>2

(* beada_pow_lut has levels of eight bits.                                 *)
LEMMA BeadaLutRange ==
    ASSUME NEW raw \in Nat, raw <= 255, NEW g \in Gammas
    PROVE  beada_pow_lut(raw, g) \in Nat /\ beada_pow_lut(raw, g) <= 255
<1> DEFINE R == ScaledPowers(raw)
           n == g \div 100
           f == g % 100
<1>1. n \in 0..4 /\ f \in Hundredths
  BY GammaParts
<1>2. R[n] \in Nat /\ R[n + 1] \in Nat /\ R[n + 1] <= R[n] /\ R[n] <= 255
  BY <1>1, BeadaWhole, BelowFirst DEF Falling
<1>3. beada_pow_lut(raw, g) = IF raw = 0 THEN 0 ELSE Slope(R[n], R[n + 1], f)
  BY BeadaLutIs
<1> HIDE DEF R, n, f
<1>4. Slope(R[n], R[n + 1], f) \in Nat /\ Slope(R[n], R[n + 1], f) <= R[n]
  BY <1>1, <1>2, SlopeBetween
<1> QED
  BY <1>2, <1>3, <1>4

(* beada_pow_lut grows with the level.                                     *)
LEMMA BeadaLutGrows ==
    ASSUME NEW a \in Nat, NEW b \in Nat, a <= b, b <= 255, NEW g \in Gammas
    PROVE  beada_pow_lut(a, g) <= beada_pow_lut(b, g)
<1>1. CASE a = 0
  <2>1. beada_pow_lut(a, g) = 0
    BY <1>1, BeadaLutIs
  <2> QED
    BY <2>1, BeadaLutRange
<1>2. CASE a # 0
  <2> DEFINE R == ScaledPowers(a)
             Q == ScaledPowers(b)
             n == g \div 100
             f == g % 100
  <2>1. n \in 0..4 /\ f \in Hundredths
    BY GammaParts
  <2>2. /\ R[n] \in Nat /\ R[n + 1] \in Nat /\ R[n + 1] <= R[n]
        /\ Q[n] \in Nat /\ Q[n + 1] \in Nat /\ Q[n + 1] <= Q[n]
    BY <2>1, BeadaWhole DEF Falling
  <2>3. R[n] <= Q[n] /\ R[n + 1] <= Q[n + 1]
    <3>1. n \in 0..5 /\ n + 1 \in 0..5
      BY <2>1
    <3> QED
      BY <3>1, BeadaWholeGrows
  <2>4. beada_pow_lut(a, g) = Slope(R[n], R[n + 1], f)
    BY <1>2, BeadaLutIs
  <2>5. beada_pow_lut(b, g) = Slope(Q[n], Q[n + 1], f)
    BY <1>2, BeadaLutIs
  <2> HIDE DEF R, Q, n, f
  <2> QED
    BY <2>1, <2>2, <2>3, <2>4, <2>5, SlopeGrows
<1> QED
  BY <1>1, <1>2

(* beada_pow_lut falls with the gamma.                                     *)
LEMMA BeadaLutFalls ==
    ASSUME NEW raw \in Nat, raw <= 255, NEW g \in Gammas, NEW h \in Gammas, g <= h
    PROVE  beada_pow_lut(raw, h) <= beada_pow_lut(raw, g)
<1>1. CASE raw = 0
  BY <1>1, BeadaLutIs
<1>2. CASE raw # 0
  <2> DEFINE R == ScaledPowers(raw)
             V == [x \in Gammas |-> Slope(R[x \div 100], R[x \div 100 + 1], x % 100)]
  <2>1. Falling(R)
    BY BeadaWhole
  <2>2. ASSUME NEW x \in Gammas
        PROVE  /\ V[x] = Slope(R[x \div 100], R[x \div 100 + 1], x % 100)
               /\ R[x \div 100] \in Nat /\ R[x \div 100 + 1] \in Nat
               /\ R[x \div 100 + 1] <= R[x \div 100]
               /\ x % 100 \in Hundredths
    <3>1. x \div 100 \in 0..4 /\ x % 100 \in Hundredths
      BY GammaParts
    <3> QED
      BY <2>1, <3>1 DEF Falling
  <2>3. V[g] = beada_pow_lut(raw, g) /\ V[h] = beada_pow_lut(raw, h)
    BY <1>2, <2>2, BeadaLutIs
  <2> HIDE DEF V, R
  <2>4. \A x \in Gammas : /\ V[x] \in Nat
                          /\ R[x \div 100 + 1] <= V[x] /\ V[x] <= R[x \div 100]
    BY <2>2, SlopeBetween
  <2>5. \A x, y \in Gammas : x <= y /\ x \div 100 = y \div 100 => V[y] <= V[x]
    <3> SUFFICES ASSUME NEW x \in Gammas, NEW y \in Gammas, x <= y, x \div 100 = y \div 100
                 PROVE  V[y] <= V[x]
      OBVIOUS
    <3>1. x % 100 <= y % 100
      BY GammaParts
    <3>2. V[y] = Slope(R[x \div 100], R[x \div 100 + 1], y % 100)
      BY <2>2
    <3> QED
      BY <2>2, <3>1, <3>2, SlopeFalls
  <2>6. V[h] <= V[g]
    BY <2>1, <2>4, <2>5, CurveFalls
  <2> QED
    BY <2>3, <2>6
<1> QED
  BY <1>1, <1>2

(* Below 1.00 every level but the lowest and the highest gains.            *)
LEMMA BeadaLutGains ==
    ASSUME NEW raw \in Nat, raw < 255, raw # 0, NEW g \in Gammas, g < 100
    PROVE  raw + 1 <= beada_pow_lut(raw, g)
<1>1. g \div 100 = 0 /\ g % 100 \in Hundredths
  BY GammaParts
<1>2. ScaledPowers(raw)[0] = 255 /\ ScaledPowers(raw)[1] = raw
  BY BeadaWhole
<1>3. beada_pow_lut(raw, g) = Slope(255, raw, g % 100)
  BY <1>1, <1>2, BeadaLutIs
<1> QED
  BY <1>1, <1>3, SlopeBetween

(* The lowest and the highest level have no gamma.                         *)
LEMMA BeadaLutEnds ==
    ASSUME NEW g \in Gammas
    PROVE  beada_pow_lut(0, g) = 0 /\ beada_pow_lut(255, g) = 255
  BY DEF beada_pow_lut

(* 1.00 changes nothing.                                                   *)
LEMMA BeadaLutFlat ==
    ASSUME NEW raw
    PROVE  beada_pow_lut(raw, 100) = raw
  BY DEF beada_pow_lut

(* mpro: the weighted mean of two whole powers.                            *)
Mix(low, high, f) == (low * (100 - f) + high * f) \div 100

(* The mean, before the division, is between its ends.                     *)
LEMMA Weighted ==
    ASSUME NEW low \in Nat, NEW high \in Nat, high <= low, NEW f \in Hundredths
    PROVE  /\ low * (100 - f) + high * f \in Nat
           /\ low * (100 - f) + high * f = high * 100 + (low - high) * (100 - f)
           /\ high * 100 <= low * (100 - f) + high * f
           /\ low * (100 - f) + high * f <= low * 100
<1>1. PICK d \in Nat : d = low - high /\ low = high + d
  <2>1. low - high \in Nat /\ low = high + (low - high)
    OBVIOUS
  <2> QED
    BY <2>1
<1>2. PICK e \in Nat : e = 100 - f /\ e <= 100 /\ f = 100 - e
  BY DEF Hundredths
<1>3. high * f = high * 100 - high * e
  BY <1>2
<1>4. low * e = high * e + d * e
  BY <1>1, <1>2
<1>5. d * e \in Nat /\ high * e \in Nat /\ d * e <= d * 100
  BY <1>2, MulGrows
<1>6. low * (100 - f) = low * e /\ (low - high) * (100 - f) = d * e
  BY <1>1, <1>2
<1>7. low * (100 - f) + high * f = high * 100 + d * e
  BY <1>3, <1>4, <1>5, <1>6
<1> QED
  BY <1>1, <1>5, <1>6, <1>7

(* The mean is between its ends.                                           *)
LEMMA MixBetween ==
    ASSUME NEW low \in Nat, NEW high \in Nat, high <= low, NEW f \in Hundredths
    PROVE  Mix(low, high, f) \in Nat /\ high <= Mix(low, high, f) /\ Mix(low, high, f) <= low
<1> DEFINE X == low * (100 - f) + high * f
<1>1. X \in Nat /\ high * 100 <= X /\ X <= low * 100
  BY Weighted
<1>2. Mix(low, high, f) = X \div 100
  BY DEF Mix
<1> HIDE DEF X
<1> QED
  BY <1>1, <1>2, DivAtMost, DivAtLeast, DivBetween

(* It falls with the hundredths.                                           *)
LEMMA MixFalls ==
    ASSUME NEW low \in Nat, NEW high \in Nat, high <= low,
           NEW e \in Hundredths, NEW f \in Hundredths, e <= f
    PROVE  Mix(low, high, f) <= Mix(low, high, e)
<1> DEFINE X == low * (100 - f) + high * f
           Y == low * (100 - e) + high * e
<1>1. X \in Nat /\ Y \in Nat
  BY Weighted
<1>2. X <= Y
  <2>1. X = high * 100 + (low - high) * (100 - f) /\ Y = high * 100 + (low - high) * (100 - e)
    BY Weighted
  <2>2. PICK c \in Nat, d \in Nat, k \in Nat : c = 100 - f /\ d = 100 - e /\ k = low - high
    BY DEF Hundredths
  <2>3. c <= d
    BY <2>2 DEF Hundredths
  <2>4. k * c \in Nat /\ k * d \in Nat /\ k * c <= k * d
    BY <2>3, MulGrows
  <2> HIDE DEF X, Y
  <2>5. X = high * 100 + k * c /\ Y = high * 100 + k * d
    BY <2>1, <2>2
  <2> QED
    BY <2>4, <2>5
<1>3. Mix(low, high, f) = X \div 100 /\ Mix(low, high, e) = Y \div 100
  BY DEF Mix
<1> HIDE DEF X, Y
<1> QED
  BY <1>1, <1>2, <1>3, DivGrows

(* It grows with its ends.                                                 *)
LEMMA MixGrows ==
    ASSUME NEW low \in Nat, NEW high \in Nat, NEW l \in Nat, NEW h \in Nat,
           low <= l, high <= h, NEW f \in Hundredths
    PROVE  Mix(low, high, f) <= Mix(l, h, f)
<1>1. PICK e \in Nat, d \in Nat : e = 100 - f /\ d = f
  BY DEF Hundredths
<1>2. low * e \in Nat /\ l * e \in Nat /\ low * e <= l * e
  BY MulGrows
<1>3. high * d \in Nat /\ h * d \in Nat /\ high * d <= h * d
  BY MulGrows
<1> DEFINE X == low * e + high * d
           Y == l * e + h * d
<1>4. X \in Nat /\ Y \in Nat /\ X <= Y
  BY <1>2, <1>3
<1>5. Mix(low, high, f) = X \div 100 /\ Mix(l, h, f) = Y \div 100
  BY <1>1 DEF Mix
<1> HIDE DEF X, Y
<1> QED
  BY <1>4, <1>5, DivGrows

(* The whole powers of mpro.                                               *)
MproWhole(x) ==
    [n \in 0..5 |-> IF n = 0 THEN 255 ELSE int_pow(x)[n] \div int_pow(255)[n - 1]]

(* The powers of a natural number are natural numbers.                     *)
LEMMA PowersNat ==
    ASSUME NEW x \in Nat
    PROVE  \A n \in 0..5 : /\ int_pow(x)[n] \in Nat
                           /\ x > 0 => int_pow(x)[n] > 0
<1> DEFINE R == int_pow(x)
           S == {n \in 0..5 : R[n] \in Nat /\ (x > 0 => R[n] > 0)}
<1>1. R[0] = 1 /\ \A n \in 0..4 : R[n + 1] = x * R[n]
  BY PowersAre
<1> HIDE DEF R
<1>2. 0 \in S
  BY <1>1
<1>3. ASSUME NEW i \in 0..5 - 1, i \in S PROVE i + 1 \in S
  <2>1. i \in 0..4 /\ i + 1 \in 0..5 /\ R[i + 1] = x * R[i] /\ R[i] \in Nat
    BY <1>1, <1>3
  <2>2. x * R[i] \in Nat /\ (x > 0 => x * R[i] > 0)
    <3>1. ASSUME x > 0 PROVE x * R[i] >= 1 * R[i] /\ 1 * R[i] = R[i] /\ R[i] > 0
      BY <1>3, <2>1, <3>1, MulGrows
    <3> QED
      BY <2>1, <3>1
  <2> QED
    BY <2>1, <2>2
<1> HIDE DEF S
<1>4. 0..5 \subseteq S
  BY <1>2, <1>3, RangeInduction
<1> QED
  BY <1>4 DEF S, R

(* They grow with the number.                                              *)
LEMMA PowersGrow ==
    ASSUME NEW x \in Nat, NEW y \in Nat, x <= y
    PROVE  \A n \in 0..5 : int_pow(x)[n] <= int_pow(y)[n]
<1> DEFINE R == int_pow(x)
           Q == int_pow(y)
           S == {n \in 0..5 : R[n] <= Q[n]}
<1>1. /\ R[0] = 1 /\ \A n \in 0..4 : R[n + 1] = x * R[n]
      /\ Q[0] = 1 /\ \A n \in 0..4 : Q[n + 1] = y * Q[n]
  BY PowersAre
<1>2. \A n \in 0..5 : R[n] \in Nat /\ Q[n] \in Nat
  BY PowersNat
<1> HIDE DEF R, Q
<1>3. 0 \in S
  BY <1>1
<1>4. ASSUME NEW i \in 0..5 - 1, i \in S PROVE i + 1 \in S
  <2>1. i \in 0..4 /\ i \in 0..5 /\ i + 1 \in 0..5 /\ R[i] <= Q[i]
    BY <1>4
  <2>2. R[i] \in Nat /\ Q[i] \in Nat
    BY <1>2, <2>1
  <2>3. x * R[i] <= y * Q[i]
    BY <2>1, <2>2, MulGrows
  <2>4. R[i + 1] = x * R[i] /\ Q[i + 1] = y * Q[i]
    BY <1>1, <2>1
  <2> QED
    BY <2>1, <2>3, <2>4
<1> HIDE DEF S
<1>5. 0..5 \subseteq S
  BY <1>3, <1>4, RangeInduction
<1> QED
  BY <1>5 DEF S, R, Q

(* The whole powers of mpro fall, from 255.                                *)
LEMMA MproWholeFalls ==
    ASSUME NEW x \in Nat, x <= 255
    PROVE  /\ MproWhole(x)[0] = 255 /\ MproWhole(x)[1] = x
           /\ Falling(MproWhole(x))
<1> DEFINE W == MproWhole(x)
           P == int_pow(x)
           D == int_pow(255)
<1>1. /\ P[0] = 1 /\ \A n \in 0..4 : P[n + 1] = x * P[n]
      /\ D[0] = 1 /\ \A n \in 0..4 : D[n + 1] = 255 * D[n]
  BY PowersAre
<1>2. \A n \in 0..5 : P[n] \in Nat /\ D[n] \in Nat \ {0}
  BY PowersNat
<1>3. W[0] = 255 /\ \A n \in 0..4 : W[n + 1] = P[n + 1] \div D[n]
  <2> HIDE DEF P, D
  <2>1. ASSUME NEW n \in 0..4 PROVE W[n + 1] = P[n + 1] \div D[n]
    <3>1. n + 1 \in 0..5 /\ n + 1 # 0 /\ n + 1 - 1 = n
      OBVIOUS
    <3> QED
      BY <3>1 DEF MproWhole, P, D
  <2> QED
    BY <2>1 DEF MproWhole
<1> HIDE DEF W, P, D
<1>4. W[1] = x
  <2>1. W[1] = P[1] \div D[0] /\ P[1] = x * P[0]
    <3>1. 0 \in 0..4 /\ 0 + 1 = 1
      OBVIOUS
    <3> QED
      BY <1>1, <1>3, <3>1
  <2> QED
    BY <1>1, <2>1
<1>5. ASSUME NEW n \in 0..4 PROVE W[n + 1] \in Nat
  <2>1. P[n + 1] \in Nat /\ D[n] \in Nat \ {0}
    BY <1>2
  <2> QED
    BY <1>3, <2>1, DivBetween
<1>6. ASSUME NEW n \in 0..4 PROVE W[n] \in Nat /\ W[n + 1] <= W[n]
  <2>1. CASE n = 0
    BY <1>3, <1>4, <2>1
  <2>2. CASE n # 0
    <3>1. PICK m \in 0..3 : n = m + 1
      <4>1. n - 1 \in 0..3 /\ n = n - 1 + 1
        BY <2>2
      <4> QED
        BY <4>1
    <3>2. /\ m \in 0..4 /\ m + 1 \in 0..4
          /\ W[n] = P[n] \div D[m] /\ W[n + 1] = P[n + 1] \div D[n]
          /\ P[n + 1] = x * P[n] /\ D[n] = 255 * D[m]
      BY <1>1, <1>3, <3>1
    <3>3. P[n] \in Nat /\ D[m] \in Nat \ {0} /\ D[n] \in Nat \ {0} /\ P[n + 1] \in Nat
      BY <1>2, <3>2
    <3> DEFINE p == P[n]
               d == D[m]
               q == p \div d
    <3>4. q \in Nat /\ p < (q + 1) * d
      BY <3>3, DivBetween
    <3> HIDE DEF q
    <3>5. x * p <= 255 * p /\ 255 * p < (q + 1) * (255 * d)
      <4>1. p \in Nat /\ d \in Nat
        BY <3>3
      <4> HIDE DEF p, d
      <4>2. x * p <= 255 * p
        BY <4>1, MulGrows
      <4>3. (q + 1) * (255 * d) = 255 * ((q + 1) * d) /\ (q + 1) * d \in Nat
        BY <3>4, <4>1
      <4> QED
        BY <3>4, <4>1, <4>2, <4>3
    <3>6. ASSUME NEW k \in Nat, k * D[n] <= P[n + 1] PROVE k <= q
      <4>1. k * (255 * d) < (q + 1) * (255 * d)
        <5>1. k * (255 * d) <= x * p
          BY <3>2, <3>6
        <5>2. /\ k * (255 * d) \in Nat /\ x * p \in Nat /\ 255 * p \in Nat
              /\ (q + 1) * (255 * d) \in Nat
          <6>1. 255 * d \in Nat /\ p \in Nat
            BY <3>3
          <6> HIDE DEF p, d
          <6> QED
            BY <3>4, <6>1, MulGrows
        <5> DEFINE A == k * (255 * d)
                   B == x * p
                   C == 255 * p
                   E == (q + 1) * (255 * d)
        <5>3. A <= B /\ B <= C /\ C < E /\ A \in Nat /\ B \in Nat /\ C \in Nat /\ E \in Nat
          BY <3>5, <5>1, <5>2
        <5> HIDE DEF A, B, C, E
        <5>4. A < E
          BY <5>3
        <5> QED
          BY <5>4 DEF A, E
      <4>2. ASSUME q + 1 <= k PROVE FALSE
        <5>1. 255 * d \in Nat
          BY <3>3
        <5>2. (q + 1) * (255 * d) <= k * (255 * d)
          BY <3>4, <4>2, <5>1, MulGrows
        <5> QED
          BY <3>4, <4>1, <5>1, <5>2
      <4> QED
        BY <3>4, <4>2
    <3>7. W[n + 1] \in Nat /\ W[n + 1] * D[n] <= P[n + 1]
      <4>1. PICK u \in Nat, v \in Nat \ {0} : u = P[n + 1] /\ v = D[n]
        BY <3>3
      <4>2. u \div v \in Nat /\ (u \div v) * v <= u
        BY DivBetween
      <4>3. W[n + 1] = u \div v
        BY <3>2, <4>1
      <4> QED
        BY <4>1, <4>2, <4>3
    <3>8. W[n + 1] <= q
      BY <3>6, <3>7
    <3> QED
      BY <3>2, <3>4, <3>8 DEF q
  <2> QED
    BY <2>1, <2>2
<1>7. Falling(W)
  BY <1>5, <1>6 DEF Falling
<1> QED
  BY <1>3, <1>4, <1>7 DEF W

(* They grow with the level.                                               *)
LEMMA MproWholeGrows ==
    ASSUME NEW a \in Nat, NEW b \in Nat, a <= b, NEW n \in 0..5
    PROVE  MproWhole(a)[n] <= MproWhole(b)[n]
<1>1. CASE n = 0
  BY <1>1 DEF MproWhole
<1>2. CASE n # 0
  <2>1. n - 1 \in 0..5
    BY <1>2
  <2>2. /\ int_pow(a)[n] \in Nat /\ int_pow(b)[n] \in Nat /\ int_pow(a)[n] <= int_pow(b)[n]
        /\ int_pow(255)[n - 1] \in Nat \ {0}
    BY <2>1, PowersNat, PowersGrow
  <2>3. int_pow(a)[n] \div int_pow(255)[n - 1] <= int_pow(b)[n] \div int_pow(255)[n - 1]
    BY <2>2, DivGrows
  <2> QED
    BY <1>2, <2>3 DEF MproWhole
<1> QED
  BY <1>1, <1>2

(* mpro_pow_lut is a mean of two whole powers, but for 0 and 255.          *)
LEMMA MproLutIs ==
    ASSUME NEW raw \in Nat, raw <= 255, NEW g \in Gammas
    PROVE  mpro_pow_lut(raw, g) =
               IF raw \in {0, 255} THEN raw
               ELSE Mix(MproWhole(raw)[g \div 100], MproWhole(raw)[g \div 100 + 1], g % 100)
<1> DEFINE W == MproWhole(raw)
           n == g \div 100
           f == g % 100
<1>1. n \in 0..4 /\ f \in Hundredths /\ g = 100 * n + f
  BY GammaParts
<1>2. CASE raw \in {0, 255}
  BY <1>2 DEF mpro_pow_lut
<1>3. CASE raw \notin {0, 255} /\ g # 100
  <2>1. /\ W[n] = IF n = 0 THEN 255 ELSE int_pow(raw)[n] \div int_pow(255)[n - 1]
        /\ W[n + 1] = int_pow(raw)[n + 1] \div int_pow(255)[n]
    <3>1. n \in 0..5 /\ n + 1 \in 0..5 /\ n + 1 # 0 /\ n + 1 - 1 = n
      BY <1>1
    <3> HIDE DEF n
    <3> QED
      BY <3>1 DEF MproWhole
  <2>2. mpro_pow_lut(raw, g) = (W[n] * (100 - f) + W[n + 1] * f) \div 100
    <3> HIDE DEF W
    <3> QED
      BY <1>3, <2>1 DEF mpro_pow_lut
  <2> QED
    BY <1>3, <2>2 DEF Mix
<1>4. CASE raw \notin {0, 255} /\ g = 100
  <2>1. n = 1 /\ f = 0
    BY <1>1, <1>4 DEF Hundredths
  <2>2. W[1] = raw /\ W[2] \in Nat
    <3>1. W[1] = raw /\ Falling(W)
      BY MproWholeFalls
    <3>2. 1 \in 0..4 /\ 1 + 1 = 2
      OBVIOUS
    <3> HIDE DEF W
    <3> QED
      BY <3>1, <3>2 DEF Falling
  <2>3. Mix(raw, W[2], 0) = raw
    <3>1. W[2] * 0 = 0 /\ raw * (100 - 0) + 0 = raw * 100 /\ (raw * 100) \div 100 = raw
      BY <2>2
    <3> HIDE DEF W
    <3> QED
      BY <2>2, <3>1 DEF Mix
  <2>4. Mix(W[n], W[n + 1], f) = raw
    <3>1. W[n] = raw /\ W[n + 1] = W[2]
      BY <2>1, <2>2
    <3> QED
      BY <2>1, <2>3, <3>1
  <2> QED
    BY <1>4, <2>4 DEF mpro_pow_lut
<1> QED
  BY <1>2, <1>3, <1>4

(* mpro_pow_lut has levels of eight bits.                                  *)
LEMMA MproLutRange ==
    ASSUME NEW raw \in Nat, raw <= 255, NEW g \in Gammas
    PROVE  mpro_pow_lut(raw, g) \in Nat /\ mpro_pow_lut(raw, g) <= 255
<1> DEFINE R == MproWhole(raw)
           n == g \div 100
           f == g % 100
<1>1. n \in 0..4 /\ f \in Hundredths
  BY GammaParts
<1>2. R[n] \in Nat /\ R[n + 1] \in Nat /\ R[n + 1] <= R[n] /\ R[n] <= 255
  BY <1>1, MproWholeFalls, BelowFirst DEF Falling
<1>3. mpro_pow_lut(raw, g) = IF raw \in {0, 255} THEN raw ELSE Mix(R[n], R[n + 1], f)
  BY MproLutIs
<1> HIDE DEF R, n, f
<1>4. Mix(R[n], R[n + 1], f) \in Nat /\ Mix(R[n], R[n + 1], f) <= R[n]
  BY <1>1, <1>2, MixBetween
<1> QED
  BY <1>2, <1>3, <1>4

(* mpro_pow_lut grows with the level.                                      *)
LEMMA MproLutGrows ==
    ASSUME NEW a \in Nat, NEW b \in Nat, a <= b, b <= 255, NEW g \in Gammas
    PROVE  mpro_pow_lut(a, g) <= mpro_pow_lut(b, g)
<1>1. CASE a = 0
  <2>1. mpro_pow_lut(a, g) = 0
    BY <1>1, MproLutIs
  <2> QED
    BY <2>1, MproLutRange
<1>2. CASE b = 255
  <2>1. mpro_pow_lut(b, g) = 255
    BY <1>2, MproLutIs
  <2> QED
    BY <2>1, MproLutRange
<1>3. CASE a # 0 /\ b # 255
  <2> DEFINE R == MproWhole(a)
             Q == MproWhole(b)
             n == g \div 100
             f == g % 100
  <2>1. n \in 0..4 /\ f \in Hundredths
    BY GammaParts
  <2>2. R[n] \in Nat /\ R[n + 1] \in Nat /\ Q[n] \in Nat /\ Q[n + 1] \in Nat
    BY <2>1, MproWholeFalls DEF Falling
  <2>3. R[n] <= Q[n] /\ R[n + 1] <= Q[n + 1]
    <3>1. n \in 0..5 /\ n + 1 \in 0..5
      BY <2>1
    <3> QED
      BY <3>1, MproWholeGrows
  <2>4. mpro_pow_lut(a, g) = Mix(R[n], R[n + 1], f)
    BY <1>3, MproLutIs
  <2>5. mpro_pow_lut(b, g) = Mix(Q[n], Q[n + 1], f)
    BY <1>3, MproLutIs
  <2> HIDE DEF R, Q, n, f
  <2> QED
    BY <2>1, <2>2, <2>3, <2>4, <2>5, MixGrows
<1> QED
  BY <1>1, <1>2, <1>3

(* mpro_pow_lut falls with the gamma.                                      *)
LEMMA MproLutFalls ==
    ASSUME NEW raw \in Nat, raw <= 255, NEW g \in Gammas, NEW h \in Gammas, g <= h
    PROVE  mpro_pow_lut(raw, h) <= mpro_pow_lut(raw, g)
<1>1. CASE raw \in {0, 255}
  BY <1>1, MproLutIs
<1>2. CASE raw \notin {0, 255}
  <2> DEFINE R == MproWhole(raw)
             V == [x \in Gammas |-> Mix(R[x \div 100], R[x \div 100 + 1], x % 100)]
  <2>1. Falling(R)
    BY MproWholeFalls
  <2>2. ASSUME NEW x \in Gammas
        PROVE  /\ V[x] = Mix(R[x \div 100], R[x \div 100 + 1], x % 100)
               /\ R[x \div 100] \in Nat /\ R[x \div 100 + 1] \in Nat
               /\ R[x \div 100 + 1] <= R[x \div 100]
               /\ x % 100 \in Hundredths
    <3>1. x \div 100 \in 0..4 /\ x % 100 \in Hundredths
      BY GammaParts
    <3> QED
      BY <2>1, <3>1 DEF Falling
  <2>3. V[g] = mpro_pow_lut(raw, g) /\ V[h] = mpro_pow_lut(raw, h)
    BY <1>2, <2>2, MproLutIs
  <2> HIDE DEF V, R
  <2>4. \A x \in Gammas : /\ V[x] \in Nat
                          /\ R[x \div 100 + 1] <= V[x] /\ V[x] <= R[x \div 100]
    BY <2>2, MixBetween
  <2>5. \A x, y \in Gammas : x <= y /\ x \div 100 = y \div 100 => V[y] <= V[x]
    <3> SUFFICES ASSUME NEW x \in Gammas, NEW y \in Gammas, x <= y, x \div 100 = y \div 100
                 PROVE  V[y] <= V[x]
      OBVIOUS
    <3>1. x % 100 <= y % 100
      BY GammaParts
    <3>2. V[y] = Mix(R[x \div 100], R[x \div 100 + 1], y % 100)
      BY <2>2
    <3> QED
      BY <2>2, <3>1, <3>2, MixFalls
  <2>6. V[h] <= V[g]
    BY <2>1, <2>4, <2>5, CurveFalls
  <2> QED
    BY <2>3, <2>6
<1> QED
  BY <1>1, <1>2

------------------------------------------------------------------------------
(* The level that the device is sent: any greatest level.                  *)

(* A level on the scale of the curve, and back.                            *)
Up255(raw, max) == (raw * 255) \div max
Down255(x, max) == (x * max) \div 255

(* A level scaled up to eight bits fits them.                              *)
LEMMA UpRange ==
    ASSUME NEW max \in Nat \ {0}, NEW raw \in Nat, raw <= max
    PROVE  Up255(raw, max) \in Nat /\ Up255(raw, max) <= 255
<1>1. raw * 255 \in Nat /\ max * 255 = 255 * max /\ raw * 255 <= max * 255
  BY MulGrows
<1>2. raw * 255 <= 255 * max
  BY <1>1
<1> QED
  BY <1>1, <1>2, DivAtMost, DivBetween DEF Up255

(* Scaling up keeps the order.                                             *)
LEMMA UpGrows ==
    ASSUME NEW max \in Nat \ {0}, NEW a \in Nat, NEW b \in Nat, a <= b
    PROVE  Up255(a, max) <= Up255(b, max)
  BY DivGrows DEF Up255

(* A level scaled back is one of the backlight.                            *)
LEMMA DownRange ==
    ASSUME NEW max \in Nat, NEW x \in Nat, x <= 255
    PROVE  Down255(x, max) \in Nat /\ Down255(x, max) <= max
<1>1. x * max \in Nat /\ 255 * max = max * 255 /\ x * max <= 255 * max
  BY MulGrows
<1>2. x * max <= max * 255
  BY <1>1
<1> QED
  BY <1>1, <1>2, DivAtMost, DivBetween DEF Down255

(* Scaling back keeps the order.                                           *)
LEMMA DownGrows ==
    ASSUME NEW max \in Nat, NEW x \in Nat, NEW y \in Nat, x <= y
    PROVE  Down255(x, max) <= Down255(y, max)
<1>1. x * max \in Nat /\ y * max \in Nat /\ x * max <= y * max
  BY MulGrows
<1> QED
  BY <1>1, DivGrows DEF Down255

(* Up and down again never gains; with one step more on the way it never   *)
(* loses.                                                                  *)
LEMMA DownUp ==
    ASSUME NEW max \in Nat \ {0}, NEW raw \in Nat, raw <= max
    PROVE  /\ Down255(Up255(raw, max), max) <= raw
           /\ \A y \in Nat : Up255(raw, max) + 1 <= y => raw <= Down255(y, max)
<1> DEFINE x == Up255(raw, max)
<1>1. x \in Nat /\ x * max <= raw * 255 /\ raw * 255 < (x + 1) * max
  BY DivBetween DEF Up255
<1> HIDE DEF x
<1>2. x * max \in Nat /\ (x + 1) * max \in Nat
  BY <1>1, MulGrows
<1>3. Down255(x, max) <= raw
  BY <1>1, <1>2, DivAtMost DEF Down255
<1>4. ASSUME NEW y \in Nat, x + 1 <= y PROVE raw <= Down255(y, max)
  <2>1. y * max \in Nat /\ (x + 1) * max <= y * max
    BY <1>1, <1>4, MulGrows
  <2>2. raw * 255 <= y * max
    BY <1>1, <1>2, <2>1
  <2> QED
    BY <2>1, <2>2, DivAtLeast DEF Down255
<1> QED
  BY <1>3, <1>4 DEF x

(* What the assumption on the systems says of a backlight.                 *)
LEMMA SetupMax ==
    ASSUME NEW s \in Setups
    PROVE  /\ s.max \in Nat /\ s.max <= 255
           /\ s.drv = "mpro" /\ s.max > 0 => s.max = 255
           /\ s.drv \in {"beada", "mpro", "ax206"}
  BY SetupAssumption DEF SetupType

(* What the device is sent is a level of its backlight.                    *)
LEMMA LevelRange ==
    ASSUME setup \in Setups, setup.max > 0,
           NEW raw \in Nat, raw <= setup.max, NEW g \in Gammas
    PROVE  DeviceLevel(raw, g) \in Nat /\ DeviceLevel(raw, g) <= setup.max
<1>1. setup.max \in Nat \ {0} /\ (setup.drv = "mpro" => setup.max = 255)
  BY SetupMax
<1>2. CASE setup.drv = "mpro"
  BY <1>1, <1>2, MproLutRange DEF DeviceLevel
<1>3. CASE setup.drv # "mpro" /\ g = 100
  BY <1>3 DEF DeviceLevel
<1>4. CASE setup.drv # "mpro" /\ g # 100
  <2> DEFINE x == Up255(raw, setup.max)
             y == beada_pow_lut(x, g)
  <2>1. DeviceLevel(raw, g) = Down255(y, setup.max)
    BY <1>4 DEF DeviceLevel, Up255, Down255
  <2>2. y \in Nat /\ y <= 255
    <3>1. x \in Nat /\ x <= 255
      BY <1>1, UpRange
    <3> HIDE DEF x
    <3> QED
      BY <3>1, BeadaLutRange
  <2> HIDE DEF y
  <2> QED
    BY <1>1, <2>1, <2>2, DownRange
<1> QED
  BY <1>2, <1>3, <1>4

(* It grows with the level asked for.                                      *)
LEMMA LevelGrows ==
    ASSUME setup \in Setups, setup.max > 0,
           NEW a \in Nat, NEW b \in Nat, a <= b, b <= setup.max, NEW g \in Gammas
    PROVE  DeviceLevel(a, g) <= DeviceLevel(b, g)
<1>1. setup.max \in Nat \ {0} /\ (setup.drv = "mpro" => setup.max = 255)
  BY SetupMax
<1>2. CASE setup.drv = "mpro"
  <2>1. b <= 255
    BY <1>1, <1>2
  <2> QED
    BY <1>2, <2>1, MproLutGrows DEF DeviceLevel
<1>3. CASE setup.drv # "mpro" /\ g = 100
  BY <1>3 DEF DeviceLevel
<1>4. CASE setup.drv # "mpro" /\ g # 100
  <2> DEFINE x == Up255(a, setup.max)
             y == Up255(b, setup.max)
             p == beada_pow_lut(x, g)
             q == beada_pow_lut(y, g)
  <2>1. /\ DeviceLevel(a, g) = Down255(p, setup.max)
        /\ DeviceLevel(b, g) = Down255(q, setup.max)
    BY <1>4 DEF DeviceLevel, Up255, Down255
  <2>2. x \in Nat /\ y \in Nat /\ x <= y /\ y <= 255 /\ x <= 255
    <3>1. a <= setup.max
      BY <1>1
    <3> QED
      BY <1>1, <3>1, UpRange, UpGrows
  <2> HIDE DEF x, y
  <2>3. p \in Nat /\ q \in Nat /\ p <= q
    BY <2>2, BeadaLutRange, BeadaLutGrows
  <2> HIDE DEF p, q
  <2> QED
    BY <1>1, <2>1, <2>3, DownGrows
<1> QED
  BY <1>2, <1>3, <1>4

(* It falls with the gamma.                                                *)
LEMMA LevelFalls ==
    ASSUME setup \in Setups, setup.max > 0,
           NEW raw \in Nat, raw <= setup.max, NEW g \in Gammas, NEW h \in Gammas, g <= h
    PROVE  DeviceLevel(raw, h) <= DeviceLevel(raw, g)
<1> DEFINE max == setup.max
           x == Up255(raw, max)
<1>1. max \in Nat \ {0} /\ (setup.drv = "mpro" => max = 255)
  BY SetupMax
<1>2. CASE setup.drv = "mpro"
  <2>1. raw <= 255
    BY <1>1, <1>2
  <2> QED
    BY <1>2, <2>1, MproLutFalls DEF DeviceLevel
<1>3. ASSUME setup.drv # "mpro", NEW k \in Gammas
      PROVE  /\ k = 100 => DeviceLevel(raw, k) = raw
             /\ k # 100 => DeviceLevel(raw, k) = Down255(beada_pow_lut(x, k), max)
  BY <1>3 DEF DeviceLevel, Up255, Down255
<1>4. x \in Nat /\ x <= 255
  BY <1>1, UpRange
<1>5. DeviceLevel(raw, g) \in Nat /\ DeviceLevel(raw, h) \in Nat
  BY LevelRange
<1>6. Down255(x, max) <= raw /\ \A y \in Nat : x + 1 <= y => raw <= Down255(y, max)
  BY <1>1, DownUp
<1>7. x = 0 => raw = 0
  <2>1. SUFFICES ASSUME x = 0, raw >= 1 PROVE FALSE
    OBVIOUS
  <2>2. raw * 255 < (x + 1) * max
    BY <1>1, DivBetween DEF Up255
  <2>3. max <= 255
    BY SetupMax
  <2> HIDE DEF x, max
  <2> QED
    BY <1>1, <2>1, <2>2, <2>3
<1>8. x = 255 => raw <= Down255(255, max)
  <2>1. (255 * max) \div 255 = max
    BY <1>1
  <2> QED
    BY <2>1 DEF Down255
<1> HIDE DEF x
<1>9. \A k \in Gammas : beada_pow_lut(x, k) \in Nat /\ beada_pow_lut(x, k) <= 255
  BY <1>4, BeadaLutRange
<1>10. CASE setup.drv # "mpro" /\ g # 100 /\ h # 100
  <2> DEFINE p == beada_pow_lut(x, h)
             q == beada_pow_lut(x, g)
  <2>1. p \in Nat /\ q \in Nat /\ p <= q
    BY <1>4, <1>9, BeadaLutFalls
  <2>2. DeviceLevel(raw, h) = Down255(p, max) /\ DeviceLevel(raw, g) = Down255(q, max)
    BY <1>3, <1>10
  <2> HIDE DEF p, q, max
  <2> QED
    BY <1>1, <2>1, <2>2, DownGrows
<1>11. CASE setup.drv # "mpro" /\ g # 100 /\ h = 100
  <2> DEFINE q == beada_pow_lut(x, g)
  <2>1. DeviceLevel(raw, h) = raw /\ DeviceLevel(raw, g) = Down255(q, max)
    BY <1>3, <1>11
  <2>2. g < 100
    BY <1>11, GammaParts
  <2>3. CASE x = 0
    BY <1>5, <1>7, <2>1, <2>3
  <2>4. CASE x = 255
    <3>1. q = 255
      BY <2>4, BeadaLutEnds
    <3> QED
      BY <1>8, <2>1, <2>4, <3>1
  <2>5. CASE x # 0 /\ x # 255
    <3>1. x + 1 <= q
      BY <1>4, <2>2, <2>5, BeadaLutGains
    <3>2. q \in Nat
      BY <1>9
    <3> HIDE DEF q, max
    <3> QED
      BY <1>6, <2>1, <3>1, <3>2
  <2> QED
    BY <2>3, <2>4, <2>5
<1>12. CASE setup.drv # "mpro" /\ g = 100
  <2>1. CASE h = 100
    BY <1>5, <1>12, <2>1
  <2>2. CASE h # 100
    <3> DEFINE p == beada_pow_lut(x, h)
    <3>1. DeviceLevel(raw, g) = raw /\ DeviceLevel(raw, h) = Down255(p, max)
      BY <1>3, <1>12, <2>2
    <3>2. p \in Nat /\ p <= x
      <4>1. 100 \in Gammas
        BY DEF Gammas, LeastGamma, GreatestGamma
      <4>2. beada_pow_lut(x, 100) = x
        BY BeadaLutFlat
      <4>3. 100 <= h
        BY <1>12
      <4> QED
        BY <1>4, <1>9, <4>1, <4>2, <4>3, BeadaLutFalls
    <3> HIDE DEF p, max
    <3>3. Down255(p, max) <= Down255(x, max)
      BY <1>1, <1>4, <3>2, DownGrows
    <3>4. Down255(p, max) \in Nat /\ Down255(x, max) \in Nat
      <4>1. p <= 255
        BY <1>4, <3>2
      <4> QED
        BY <1>1, <1>4, <3>2, <4>1, DownRange
    <3> QED
      BY <1>6, <3>1, <3>3, <3>4
  <2> QED
    BY <2>1, <2>2
<1> QED
  BY <1>2, <1>10, <1>11, <1>12

------------------------------------------------------------------------------
(* The texts of the gamma attribute.                                       *)

(* The number a reader sees in these is not too large for the kernel's 32  *)
(* bits once it is taken times 100.                                        *)
Unwrapped(text) == text.whole <= 42949672

(* The numbers up to 2, for the digits of a fraction.                      *)
LEMMA UpToTwo ==
    ASSUME NEW k \in Nat, k <= 2
    PROVE  k = 0 \/ k = 1 \/ k = 2
  OBVIOUS

(* The value of at most two digits.                                        *)
LEMMA TwoDigits ==
    ASSUME NEW s \in Seq(0..9), Len(s) <= 2
    PROVE  DigitsValue(s) = CASE Len(s) = 0 -> 0
                              [] Len(s) = 1 -> s[1]
                              [] OTHER -> 10 * s[1] + s[2]
<1>1. Len(s) \in Nat /\ \A i \in 1..Len(s) : s[i] \in 0..9
  BY LenProperties, ElementOfSeq
<1>2. PICK f : Partial(f, 10, s, Len(s)) /\ DigitsValue(s) = f[Len(s)]
  BY <1>1, HornerIs DEF DigitsValue
<1>3. Len(s) = 0 \/ Len(s) = 1 \/ Len(s) = 2
  BY <1>1, UpToTwo
<1>4. f[0] = 0
  BY <1>1, <1>2 DEF Partial
<1>5. CASE Len(s) = 0
  BY <1>2, <1>4, <1>5
<1>6. CASE Len(s) = 1
  <2>1. f[1] = 10 * f[0] + s[1]
    BY <1>2, <1>6 DEF Partial
  <2> QED
    BY <1>1, <1>2, <1>4, <1>6, <2>1
<1>7. CASE Len(s) = 2
  <2>1. f[1] = 10 * f[0] + s[1] /\ f[2] = 10 * f[1] + s[2]
    BY <1>2, <1>7 DEF Partial
  <2>2. s[1] \in 0..9 /\ s[2] \in 0..9
    BY <1>1, <1>7
  <2> QED
    BY <1>2, <1>4, <1>7, <2>1, <2>2
<1> QED
  BY <1>3, <1>5, <1>6, <1>7

(* Below the wrap the whole part counts in full, or beyond every gamma.    *)
LEMMA Times100Is ==
    ASSUME NEW whole \in Nat, whole <= 42949672
    PROVE  /\ Times100(whole) \in Nat
           /\ Times100(whole) = whole * 100 \/ Times100(whole) > 400
<1>1. (whole * 25) % 1073741824 = whole * 25
  BY SMTT(60)
<1> QED
  BY <1>1 DEF Times100, GreatestGamma

(* What the parsers accept is what a reader of the text understands.       *)
LEMMA ParsedIsMeant ==
    ASSUME NEW text \in Texts, Unwrapped(text), ParseGamma(text) \in Gammas
    PROVE  ParseGamma(text) = MeantGamma(text)
<1> DEFINE s == text.frac
           d == DigitsValue(s)
           t == Times100(text.whole)
<1>1. text.whole \in Nat /\ s \in Seq(0..9)
  BY TextsAssumption DEF GammaText
<1>2. ParseGamma(text) # -1
  BY DEF Gammas, LeastGamma, GreatestGamma
<1>3. Len(s) <= 2 /\ ParseGamma(text) = t + d * (IF Len(s) = 1 THEN 10 ELSE 1)
  <2>1. Len(s) \in Nat
    BY <1>1, LenProperties
  <2> QED
    BY <1>2, <2>1 DEF ParseGamma
<1>4. Len(s) \in Nat /\ \A i \in 1..Len(s) : s[i] \in 0..9
  BY <1>1, LenProperties, ElementOfSeq
<1>5. d = CASE Len(s) = 0 -> 0 [] Len(s) = 1 -> s[1] [] OTHER -> 10 * s[1] + s[2]
  BY <1>1, <1>3, TwoDigits
<1>6. t \in Nat /\ (t = text.whole * 100 \/ t > 400)
  BY <1>1, Times100Is DEF Unwrapped
<1> HIDE DEF t, d
<1>7. ParseGamma(text) <= 400
  BY DEF Gammas, LeastGamma, GreatestGamma
<1> DEFINE m == d * (IF Len(s) = 1 THEN 10 ELSE 1)
<1>8. m \in Nat /\ MeantGamma(text) = text.whole * 100 + m
  <2>1. CASE Len(s) = 0
    <3>1. m = 0
      BY <1>5, <2>1
    <3> QED
      BY <2>1, <3>1 DEF MeantGamma
  <2>2. CASE Len(s) = 1
    <3>1. s[1] \in Nat /\ m = s[1] * 10 /\ s[1] * 10 = 10 * s[1] /\ 10 * s[1] \in Nat
      BY <1>4, <1>5, <2>2
    <3> HIDE DEF m
    <3> QED
      BY <2>2, <3>1 DEF MeantGamma
  <2>3. CASE Len(s) = 2
    <3>1. s[1] \in Nat /\ s[2] \in Nat /\ d = 10 * s[1] + s[2] /\ m = d * 1
      BY <1>4, <1>5, <2>3
    <3> HIDE DEF m
    <3>2. m = 10 * s[1] + s[2] /\ m \in Nat
      BY <3>1
    <3> QED
      BY <2>3, <3>2 DEF MeantGamma
  <2> QED
    BY <1>3, <1>4, <2>1, <2>2, <2>3, UpToTwo
<1>9. ParseGamma(text) = t + m
  BY <1>3
<1> DEFINE n == text.whole
<1> HIDE DEF m, n
<1>10. t + m = n * 100 + m
  <2>1. n \in Nat /\ (t = n * 100 \/ t > 400)
    BY <1>1, <1>6 DEF n
  <2>2. t + m <= 400
    BY <1>7, <1>9
  <2> QED
    BY <1>6, <1>8, <2>1, <2>2
<1> QED
  BY <1>8, <1>9, <1>10 DEF n

------------------------------------------------------------------------------
(* Pixels.                                                                 *)

(* The two sizes that the framebuffer may have: as the panel, or turned.   *)
Sides == {<<panel.w, panel.h>>, <<panel.h, panel.w>>}

(* The panel of a system that probes has positive sides.                   *)
LEMMA PanelSides ==
    ASSUME setup \in Setups, panel = Detected(setup)
    PROVE  /\ panel \in PanelType
           /\ panel.w \in Nat \ {0} /\ panel.h \in Nat \ {0}
           /\ panel.wm \in Nat /\ panel.hm \in Nat
<1>1. panel \in PanelType
  BY DetectedPanel
<1> QED
  BY <1>1 DEF PanelType

(* Every orientation has one of the two sizes.                             *)
LEMMA SizeInSides ==
    ASSUME NEW r \in Turn
    PROVE  Size(panel, r) \in Sides
  BY DEF Size, Sides

(* A pair of Sides has two positive sides.                                 *)
LEMMA SidesNat ==
    ASSUME setup \in Setups, panel = Detected(setup), NEW s \in Sides
    PROVE  /\ s = <<s[1], s[2]>>
           /\ s[1] \in Nat \ {0} /\ s[2] \in Nat \ {0}
  BY PanelSides DEF Sides

(* The pixels of a grid.                                                   *)
LEMMA InGrid ==
    ASSUME NEW w \in Nat, NEW h \in Nat, NEW p
    PROVE  p \in Grid(w, h)
               <=> /\ p = <<p[1], p[2]>>
                   /\ p[1] \in Int /\ 0 <= p[1] /\ p[1] < w
                   /\ p[2] \in Int /\ 0 <= p[2] /\ p[2] < h
  BY DEF Grid

(* clamp leaves what is in its range.                                      *)
LEMMA ClampRange ==
    ASSUME NEW x \in Int, NEW hi \in Nat
    PROVE  /\ Clamp(x, 0, hi) \in Int /\ 0 <= Clamp(x, 0, hi) /\ Clamp(x, 0, hi) <= hi
           /\ 0 <= x /\ x <= hi => Clamp(x, 0, hi) = x
  BY DEF Clamp

(* A rotated coordinate is an integer.                                     *)
LEMMA RotatedInt ==
    ASSUME NEW r \in Turn, NEW s, s[1] \in Int, s[2] \in Int,
           NEW src, src[1] \in Int, src[2] \in Int
    PROVE  Rotated(r, s, src)[1] \in Int /\ Rotated(r, s, src)[2] \in Int
<1>1. r.angle \in {0, 1, 2, 3}
  BY DEF Turn
<1> QED
  BY <1>1 DEF Rotated

(* However stale the orientation or the framebuffer, a pixel is drawn on   *)
(* the panel.                                                              *)
LEMMA TargetInPanel ==
    ASSUME setup \in Setups, panel = Detected(setup), size \in Sides, fb \in Sides,
           NEW r \in Turn, NEW s \in Grid(fb[1], fb[2]), setup.drv # "ax206"
    PROVE  Target(r, s) \in Grid(panel.w, panel.h)
<1>1. s[1] \in Int /\ s[2] \in Int
  BY SidesNat, InGrid
<1>2. size[1] \in Int /\ size[2] \in Int
  BY SidesNat
<1> DEFINE t == Rotated(r, s, size)
           x == IF r.rx THEN panel.w - 1 - t[1] ELSE t[1]
<1>3. t[1] \in Int /\ t[2] \in Int
  BY <1>1, <1>2, RotatedInt
<1>4. panel.w - 1 \in Nat /\ panel.h - 1 \in Nat /\ panel.w \in Nat /\ panel.h \in Nat
  BY PanelSides
<1>5. Target(r, s) = <<Clamp(x, 0, panel.w - 1), Clamp(t[2], 0, panel.h - 1)>>
  BY DEF Target, rotate_coord
<1> HIDE DEF t
<1>6. x \in Int
  BY <1>3, <1>4
<1> HIDE DEF x
<1> DEFINE a == Clamp(x, 0, panel.w - 1)
           b == Clamp(t[2], 0, panel.h - 1)
<1>7. /\ a \in Int /\ 0 <= a /\ a <= panel.w - 1
      /\ b \in Int /\ 0 <= b /\ b <= panel.h - 1
  BY <1>3, <1>4, <1>6, ClampRange
<1> HIDE DEF a, b
<1>8. <<a, b>> \in Grid(panel.w, panel.h)
  <2>1. a \in 0..panel.w - 1 /\ b \in 0..panel.h - 1
    BY <1>4, <1>7
  <2> QED
    BY <2>1 DEF Grid
<1> QED
  BY <1>5, <1>8 DEF a, b

(* So a blit draws the pixels of the panel, and no others.                 *)
LEMMA DrawnDomain ==
    ASSUME setup \in Setups, panel = Detected(setup), size \in Sides, fb \in Sides,
           NEW r \in Turn, DOMAIN shadow = Grid(panel.w, panel.h)
    PROVE  DOMAIN Drawn(r) = Grid(panel.w, panel.h)
<1> DEFINE hit == {s \in Grid(fb[1], fb[2]) :
                      setup.drv = "ax206" => Target(r, s) \in Grid(panel.w, panel.h)}
<1>1. \A s \in hit : Target(r, s) \in Grid(panel.w, panel.h)
  BY TargetInPanel
<1>2. DOMAIN Drawn(r) = DOMAIN shadow \cup {Target(r, s) : s \in hit}
  BY DEF Drawn
<1> HIDE DEF hit
<1> QED
  BY <1>1, <1>2

------------------------------------------------------------------------------
(* Types.                                                                  *)

(* Where a writer of rotation may be.                                      *)
WriterPlaces == {"idle", "size", "edid", "publish", "hotplug"}

(* What a built block remembers of the time it was built.                  *)
Stamp(e) == e.rotation \in Turn /\ e.size \in Sides

(* The inductive invariant behind the types.                               *)
TypeInv ==
    /\ setup \in Setups
    /\ panel = Detected(setup)
    /\ rotation \in Turn /\ rot \in Turn
    /\ size \in Sides
    /\ setup.drv = "beada" =>
           size = Size(panel, rotation) /\ \A w \in setup.writers : wpc[w] # "size"
    /\ stores \in 0..MaxStores
    /\ wpc \in [setup.writers -> WriterPlaces]
    /\ Stamp(edid)
    /\ DOMAIN built = setup.writers /\ \A w \in setup.writers : Stamp(built[w])
    /\ hotplug \in BOOLEAN
    /\ fb \in Sides
    /\ cpc \in {"idle", "blit"}
    /\ cpc = "blit" => setup.client
    /\ setup.client => DOMAIN shadow = Grid(panel.w, panel.h)
    /\ lit \in BOOLEAN /\ resend \in BOOLEAN
    /\ gamma \in Gammas
    /\ level \in Nat /\ level <= setup.max
    /\ hw \in Nat /\ hw <= setup.max
    /\ resend => setup.max > 0

(* At a brightness of 0, or at the default gamma, the device is sent what  *)
(* was asked for.                                                          *)
LEMMA LevelFlat ==
    ASSUME setup \in Setups, NEW raw \in Nat, raw <= setup.max
    PROVE  DeviceLevel(raw, 100) = raw
<1>1. CASE setup.drv = "mpro"
  <2>1. raw \in {0, 255} => DeviceLevel(raw, 100) = raw
    BY <1>1 DEF DeviceLevel, mpro_pow_lut
  <2> QED
    BY <1>1 DEF DeviceLevel, mpro_pow_lut
<1>2. CASE setup.drv # "mpro"
  BY <1>2 DEF DeviceLevel
<1> QED
  BY <1>1, <1>2

(* It has the types in it.                                                 *)
LEMMA InvTypes ==
    ASSUME TypeInv
    PROVE  TypeOK
<1> USE DEF TypeInv
<1>1. panel # NoModel
  <2>1. panel.w # 0
    BY PanelSides
  <2> QED
    BY <2>1 DEF NoModel, Model
<1>2. setup.max \in Nat
  BY SetupMax
<1>4. level \in 0..setup.max /\ hw \in 0..setup.max
  BY <1>2
<1> QED
  BY <1>1, <1>4 DEF TypeOK, WriterPlaces, Stamp, Sides, Gammas

(* It holds at first.                                                      *)
LEMMA TypeInit ==
    ASSUME Init
    PROVE  TypeInv
<1> USE DEF Init
<1>1. setup \in Setups /\ panel = Detected(setup)
  OBVIOUS
<1>2. rotation \in Turn
  <2>1. setup.turns \subseteq Turn
    BY SetupAssumption DEF SetupType
  <2>2. Upright \in Turn
    BY DEF Upright, Turn
  <2> QED
    BY <2>1, <2>2
<1>3. rot = rotation /\ size = Size(panel, rotation) /\ size \in Sides /\ fb = size
  BY <1>2, SizeInSides
<1>4. stores \in 0..MaxStores
  BY MaxStoresAssumption
<1>5. wpc \in [setup.writers -> WriterPlaces] /\ \A w \in setup.writers : wpc[w] # "size"
  BY DEF WriterPlaces
<1>6. edid.rotation = rotation /\ edid.size = size
  OBVIOUS
<1>7. DOMAIN built = setup.writers /\ \A w \in setup.writers : built[w] = edid
  OBVIOUS
<1>8. hotplug \in BOOLEAN /\ cpc = "idle"
  OBVIOUS
<1>9. setup.client => DOMAIN shadow = Grid(panel.w, panel.h)
  OBVIOUS
<1>10. gamma = 100 /\ gamma \in Gammas
  BY DEF Gammas, LeastGamma, GreatestGamma
<1>11. level \in Nat /\ level <= setup.max /\ hw \in Nat /\ hw <= setup.max
  BY SetupMax
<1>12. lit \in BOOLEAN /\ resend = FALSE
  OBVIOUS
<1> QED
  BY <1>1, <1>2, <1>3, <1>4, <1>5, <1>6, <1>7, <1>8, <1>9, <1>10, <1>11, <1>12
     DEF TypeInv, Stamp

(* What a step does to the parts of the invariant that depend on the       *)
(* system and its panel alone: nothing.                                    *)
LEMMA SameSystem ==
    ASSUME setup' = setup, panel' = panel
    PROVE  /\ Sides' = Sides
           /\ \A x, g : DeviceLevel(x, g)' = DeviceLevel(x, g)
           /\ \A e : Stamp(e)' <=> Stamp(e)
<1>1. Sides' = Sides
  BY DEF Sides
<1>2. \A x, g : DeviceLevel(x, g)' = DeviceLevel(x, g)
  BY DEF DeviceLevel, beada_pow_lut, mpro_pow_lut
<1> QED
  BY <1>1, <1>2 DEF Stamp

(* Every step keeps it.                                                    *)
LEMMA TypeStep ==
    ASSUME TypeInv, [Next]_vars
    PROVE  TypeInv'
<1> USE DEF TypeInv
<1>1. ASSUME NEW w \in setup.writers, NEW r \in setup.turns, RotationStore(w, r)
      PROVE  TypeInv'
  <2> USE <1>1 DEF RotationStore, frameVars, lightVars
  <2>1. setup' = setup /\ panel' = panel
    OBVIOUS
  <2>2. r \in Turn
    BY SetupAssumption DEF SetupType
  <2>3. /\ rotation' \in Turn
        /\ size' \in Sides
        /\ setup.drv = "beada" => size' = Size(panel, rotation')
    BY <2>2, SizeInSides
  <2>4. stores' \in 0..MaxStores
    BY MaxStoresAssumption
  <2>5. /\ wpc' \in [setup.writers -> WriterPlaces]
        /\ setup.drv = "beada" => \A v \in setup.writers : wpc'[v] # "size"
    BY DEF WriterPlaces
  <2>6. DOMAIN built' = setup.writers /\ \A v \in setup.writers : Stamp(built'[v])
    <3>1. Stamp([rotation |-> r, size |-> Size(panel, r)])
      BY <2>2, SizeInSides DEF Stamp
    <3> QED
      BY <3>1
  <2>7. Stamp(edid') /\ rot' \in Turn /\ fb' \in Sides
    OBVIOUS
  <2> QED
    BY <2>1, <2>3, <2>4, <2>5, <2>6, <2>7, SameSystem DEF Stamp
<1>11. ASSUME NEW w \in setup.writers, SizeStore(w)
       PROVE  TypeInv'
  <2> USE <1>11 DEF SizeStore, frameVars, lightVars
  <2>1. setup' = setup /\ panel' = panel
    OBVIOUS
  <2>2. setup.drv # "beada" /\ size' \in Sides
    BY DEF Stamp
  <2>3. wpc' \in [setup.writers -> WriterPlaces]
    BY DEF WriterPlaces
  <2> QED
    BY <2>1, <2>2, <2>3, SameSystem DEF Stamp
<1>2. ASSUME NEW w \in setup.writers, EdidBuild(w)
      PROVE  TypeInv'
  <2> USE <1>2 DEF EdidBuild, frameVars, lightVars
  <2>1. setup' = setup /\ panel' = panel
    OBVIOUS
  <2>2. /\ wpc' \in [setup.writers -> WriterPlaces]
        /\ setup.drv = "beada" => \A v \in setup.writers : wpc'[v] # "size"
    BY DEF WriterPlaces
  <2>3. DOMAIN built' = setup.writers /\ \A v \in setup.writers : Stamp(built'[v])
    <3>1. Stamp([rotation |-> rotation, size |-> size])
      BY DEF Stamp
    <3> QED
      BY <3>1
  <2> QED
    BY <2>1, <2>2, <2>3, SameSystem DEF Stamp
<1>3. ASSUME NEW w \in setup.writers, EdidPublish(w)
      PROVE  TypeInv'
  <2> USE <1>3 DEF EdidPublish, frameVars, lightVars
  <2>1. setup' = setup /\ panel' = panel
    OBVIOUS
  <2>2. /\ wpc' \in [setup.writers -> WriterPlaces]
        /\ setup.drv = "beada" => \A v \in setup.writers : wpc'[v] # "size"
    BY DEF WriterPlaces
  <2>3. Stamp(edid')
    BY DEF Stamp
  <2> QED
    BY <2>1, <2>2, <2>3, SameSystem DEF Stamp
<1>4. ASSUME NEW w \in setup.writers, Hotplug(w)
      PROVE  TypeInv'
  <2> USE <1>4 DEF Hotplug, frameVars, lightVars
  <2>1. setup' = setup /\ panel' = panel
    OBVIOUS
  <2>2. /\ wpc' \in [setup.writers -> WriterPlaces]
        /\ setup.drv = "beada" => \A v \in setup.writers : wpc'[v] # "size"
    BY DEF WriterPlaces
  <2> QED
    BY <2>1, <2>2, SameSystem DEF Stamp
<1>5. CASE Probe
  <2> USE <1>5 DEF Probe, lightVars
  <2>1. setup' = setup /\ panel' = panel
    OBVIOUS
  <2>2. fb' \in Sides
    <3>1. size = <<size[1], size[2]>>
      BY SidesNat
    <3>2. fb' = <<size[1], size[2]>>
      BY DEF BuildMode
    <3> QED
      BY <3>1, <3>2
  <2> QED
    BY <2>1, <2>2, SameSystem DEF Stamp
<1>6. CASE UpdateStart
  <2> USE <1>6 DEF UpdateStart, modeVars, lightVars
  <2>1. setup' = setup /\ panel' = panel
    OBVIOUS
  <2> QED
    BY <2>1, SameSystem DEF Stamp
<1>7. CASE Blit
  <2> USE <1>7 DEF Blit, modeVars, lightVars
  <2>1. setup' = setup /\ panel' = panel
    OBVIOUS
  <2>2. DOMAIN shadow' = Grid(panel.w, panel.h)
    <3>1. DOMAIN Drawn(rot) = Grid(panel.w, panel.h)
      BY DrawnDomain
    <3>2. DOMAIN Drawn(rotation) = Grid(panel.w, panel.h)
      BY DrawnDomain
    <3> QED
      BY <3>1, <3>2
  <2> QED
    BY <2>1, <2>2, SameSystem DEF Stamp
<1>8. ASSUME NEW text \in Texts, GammaStore(text)
      PROVE  TypeInv'
  <2> USE <1>8 DEF GammaStore, modeVars, frameVars
  <2>1. setup' = setup /\ panel' = panel
    OBVIOUS
  <2>2. gamma' \in Gammas /\ resend' \in BOOLEAN
    BY DEF Gammas
  <2> QED
    BY <2>1, <2>2, SameSystem DEF Stamp
<1>9. ASSUME NEW raw \in Levels, LevelStore(raw)
      PROVE  TypeInv'
  <2> USE <1>9 DEF LevelStore, modeVars, frameVars
  <2>1. setup' = setup /\ panel' = panel
    OBVIOUS
  <2>2. level' \in Nat /\ level' <= setup.max /\ level' = raw
    BY LevelsAssumption
  <2>3. hw' \in Nat /\ hw' <= setup.max
    <3>1. DeviceLevel(raw, gamma) \in Nat /\ DeviceLevel(raw, gamma) <= setup.max
      BY <2>2, LevelRange
    <3> QED
      BY <3>1 DEF Sent
  <2> QED
    BY <2>1, <2>2, <2>3, SameSystem DEF Stamp
<1>12. CASE GammaSend
  <2> USE <1>12 DEF GammaSend, modeVars, frameVars
  <2>1. setup' = setup /\ panel' = panel
    OBVIOUS
  <2>2. hw' \in Nat /\ hw' <= setup.max
    <3>1. DeviceLevel(level, gamma) \in Nat /\ DeviceLevel(level, gamma) <= setup.max
      BY LevelRange
    <3> QED
      BY <3>1 DEF Sent
  <2> QED
    BY <2>1, <2>2, SameSystem DEF Stamp
<1>13. CASE ScreenOff
  <2> USE <1>13 DEF ScreenOff, modeVars, frameVars
  <2>1. setup' = setup /\ panel' = panel
    OBVIOUS
  <2>2. hw' \in Nat /\ hw' <= setup.max
    <3>1. 0 \in Nat /\ 0 <= setup.max
      BY SetupMax
    <3> QED
      BY <3>1, LevelRange
  <2> QED
    BY <2>1, <2>2, SameSystem DEF Stamp
<1>14. CASE ScreenOn
  <2> USE <1>14 DEF ScreenOn, modeVars, frameVars
  <2>1. setup' = setup /\ panel' = panel
    OBVIOUS
  <2>2. hw' \in Nat /\ hw' <= setup.max
    BY LevelRange
  <2> QED
    BY <2>1, <2>2, SameSystem DEF Stamp
<1>10. CASE UNCHANGED vars
  <2> USE <1>10 DEF vars
  <2>1. setup' = setup /\ panel' = panel
    OBVIOUS
  <2> QED
    BY <2>1, SameSystem DEF Stamp
<1> QED
  BY <1>1, <1>2, <1>3, <1>4, <1>5, <1>6, <1>7, <1>8, <1>9, <1>10, <1>11, <1>12, <1>13, <1>14
     DEF Next

(* In every reachable state each variable has its type: no pixel is drawn  *)
(* outside of shadow_buf, and no level above the greatest is sent, for any *)
(* panel, orientation, gamma and greatest level.                           *)
THEOREM TypeCorrect == Spec => []TypeOK
<1>1. Init => TypeInv
  BY TypeInit
<1>2. TypeInv /\ [Next]_vars => TypeInv'
  BY TypeStep
<1>3. TypeInv => TypeOK
  BY InvTypes
<1> QED
  BY <1>1, <1>2, <1>3, PTL DEF Spec

------------------------------------------------------------------------------
(* The brightness curve.                                                   *)

(* The system stays the same.                                              *)
LEMMA SetupKept ==
    ASSUME [Next]_vars
    PROVE  setup' = setup /\ panel' = panel
  BY DEF Next, RotationStore, SizeStore, EdidBuild, EdidPublish, Hotplug, Probe, UpdateStart,
         Blit, GammaStore, GammaSend, LevelStore, ScreenOff, ScreenOn,
         vars, modeVars, frameVars, lightVars

(* The gamma is the one that a reader of the last accepted text has; what  *)
(* the device was sent last is the level through the curve, unless gamma   *)
(* has yet to be sent or the screen is off.                                *)
LightInv ==
    /\ asked = gamma
    /\ setup.max > 0 => (~lit => hw = 0)
    /\ setup.max > 0 /\ lit /\ ~resend => hw = DeviceLevel(level, gamma)

(* It holds at first.                                                      *)
LEMMA LightInit ==
    ASSUME Init
    PROVE  LightInv
<1>1. level \in Nat /\ level <= setup.max /\ setup \in Setups
  BY SetupMax DEF Init
<1>2. DeviceLevel(level, 100) = level
  BY <1>1, LevelFlat
<1> QED
  BY <1>2 DEF Init, LightInv

(* Every step keeps it.                                                    *)
LEMMA LightStep ==
    ASSUME \A text \in Texts : Unwrapped(text), TypeInv, LightInv, [Next]_vars
    PROVE  LightInv'
<1>1. setup' = setup /\ \A x, g : DeviceLevel(x, g)' = DeviceLevel(x, g)
  BY SetupKept, SameSystem
<1>2. ASSUME NEW text \in Texts, GammaStore(text)
      PROVE  LightInv'
  <2>1. ParseGamma(text) \in Gammas
    BY <1>2 DEF GammaStore, Gammas
  <2>2. ParseGamma(text) = MeantGamma(text)
    BY <2>1, ParsedIsMeant
  <2> QED
    BY <1>1, <1>2, <2>2 DEF GammaStore, LightInv
<1>3. CASE GammaSend
  BY <1>1, <1>3 DEF GammaSend, Sent, LightInv
<1>4. ASSUME NEW raw \in Levels, LevelStore(raw)
      PROVE  LightInv'
  BY <1>1, <1>4 DEF LevelStore, Sent, LightInv
<1>5. CASE ScreenOff
  <2>1. DeviceLevel(0, gamma) = 0
    BY <1>5 DEF ScreenOff, DeviceLevel, mpro_pow_lut
  <2> QED
    BY <1>1, <1>5, <2>1 DEF ScreenOff, LightInv
<1>6. CASE ScreenOn
  BY <1>1, <1>6 DEF ScreenOn, LightInv
<1>7. CASE UNCHANGED lightVars
  BY <1>1, <1>7 DEF lightVars, LightInv
<1>8. ASSUME \/ \E w \in setup.writers, r \in setup.turns : RotationStore(w, r)
             \/ \E w \in setup.writers :
                    SizeStore(w) \/ EdidBuild(w) \/ EdidPublish(w) \/ Hotplug(w)
             \/ Probe \/ UpdateStart \/ Blit \/ UNCHANGED vars
      PROVE  UNCHANGED lightVars
  BY <1>8 DEF RotationStore, SizeStore, EdidBuild, EdidPublish, Hotplug, Probe, UpdateStart,
              Blit, vars, lightVars
<1> QED
  BY <1>2, <1>3, <1>4, <1>5, <1>6, <1>7, <1>8 DEF Next

(* A higher gamma and a lower level are never brighter.                    *)
LEMMA Ordered ==
    ASSUME setup \in Setups, setup.max > 0,
           NEW low \in Nat, NEW high \in Nat, low <= high, high <= setup.max,
           NEW g \in Gammas, NEW more \in Gammas, g <= more
    PROVE  DeviceLevel(low, more) <= DeviceLevel(high, g)
<1>1. setup.max \in Nat /\ low <= setup.max
  BY SetupMax
<1>2. DeviceLevel(low, more) <= DeviceLevel(high, more)
  BY <1>1, LevelGrows
<1>3. DeviceLevel(high, more) <= DeviceLevel(high, g)
  BY <1>1, LevelFalls
<1>4. /\ DeviceLevel(low, more) \in Nat /\ DeviceLevel(high, more) \in Nat
      /\ DeviceLevel(high, g) \in Nat
  BY <1>1, LevelRange
<1> QED
  BY <1>2, <1>3, <1>4

(* For every level, gamma and greatest level, a higher gamma and a lower   *)
(* level never make the backlight brighter (beada_pow_lut with its         *)
(* rounding at each power, mpro_pow_lut, the scaling of beada_bl_send and  *)
(* the gamma of 1.00 that skips both), once the writes to gamma are done   *)
(* and if no text wraps around 32 bits; the dark screen of mpro is sent 0. *)
THEOREM CurveTheorem ==
    ASSUME \A text \in Texts : Unwrapped(text)
    PROVE  Spec => []CurveOrdered
<1> DEFINE Inv == TypeInv /\ LightInv
<1>1. Init => Inv
  BY TypeInit, LightInit
<1>2. Inv /\ [Next]_vars => Inv'
  BY TypeStep, LightStep
<1>3. Inv => CurveOrdered
  <2> SUFFICES ASSUME TypeInv, LightInv, setup.max > 0
               PROVE  CurveOrdered
    BY DEF CurveOrdered
  <2>1. setup \in Setups /\ setup.max \in Nat
    BY SetupMax DEF TypeInv
  <2>2. ASSUME lit, ~resend, NEW text \in Texts, NEW raw \in Levels, raw <= setup.max,
               ParseGamma(text) \in LeastGamma..GreatestGamma
        PROVE  LET other == DeviceLevel(raw, ParseGamma(text))
               IN  /\ MeantGamma(text) >= asked /\ raw <= level => other <= hw
                   /\ MeantGamma(text) <= asked /\ raw >= level => other >= hw
    <3> DEFINE g == ParseGamma(text)
    <3>1. g \in Gammas /\ g = MeantGamma(text) /\ raw \in Nat
      BY <2>2, ParsedIsMeant, LevelsAssumption DEF Gammas
    <3>2. asked = gamma /\ hw = DeviceLevel(level, gamma)
      BY <2>2 DEF LightInv
    <3>3. gamma \in Gammas /\ level \in Nat /\ level <= setup.max
      BY DEF TypeInv
    <3>4. g \in Nat /\ gamma \in Nat
      BY <3>1, <3>3, GammaParts
    <3> HIDE DEF g
    <3>5. g >= gamma /\ raw <= level => DeviceLevel(raw, g) <= DeviceLevel(level, gamma)
      BY <2>1, <3>1, <3>3, <3>4, Ordered
    <3>6. g <= gamma /\ raw >= level => DeviceLevel(level, gamma) <= DeviceLevel(raw, g)
      BY <2>1, <2>2, <3>1, <3>3, <3>4, Ordered
    <3>7. DeviceLevel(raw, g) \in Nat /\ DeviceLevel(level, gamma) \in Nat
      BY <2>1, <2>2, <3>1, <3>3, LevelRange
    <3> DEFINE other == DeviceLevel(raw, g)
    <3> HIDE DEF other
    <3>8. /\ g >= asked /\ raw <= level => other <= hw
          /\ g <= asked /\ raw >= level => other >= hw
      BY <3>2, <3>5, <3>6, <3>7 DEF other
    <3> QED
      BY <3>1, <3>8 DEF other, g
  <2> QED
    BY <2>2 DEF CurveOrdered, LightInv
<1> HIDE DEF Inv
<1> QED
  BY <1>1, <1>2, <1>3, PTL DEF Spec

------------------------------------------------------------------------------
(* The picture on the panel.                                               *)

(* Where the pixel p of a panel of w times h comes from, after n quarter   *)
(* turns; the picture that this makes of the framebuffer.                  *)
Back(w, h, n, p) ==
    CASE n = 0 -> p
      [] n = 1 -> <<p[2], w - 1 - p[1]>>
      [] n = 2 -> <<w - 1 - p[1], h - 1 - p[2]>>
      [] n = 3 -> <<h - 1 - p[2], p[1]>>
Img(w, h, n) == [w |-> w, h |-> h, at |-> [p \in Grid(w, h) |-> Back(w, h, n, p)]]

(* A quarter turn of the n-th image is the next.                           *)
LEMMA TurnImg ==
    ASSUME NEW w \in Nat, NEW h \in Nat, NEW n \in 0..2
    PROVE  QuarterTurn(Img(w, h, n)) = Img(h, w, n + 1)
<1>1. ASSUME NEW p \in Grid(h, w)
      PROVE  Img(w, h, n).at[<<p[2], h - 1 - p[1]>>] = Back(h, w, n + 1, p)
  <2>1. /\ p = <<p[1], p[2]>> /\ p[1] \in Int /\ 0 <= p[1] /\ p[1] < h
        /\ p[2] \in Int /\ 0 <= p[2] /\ p[2] < w
    BY InGrid
  <2> DEFINE q == <<p[2], h - 1 - p[1]>>
  <2>2. q \in Grid(w, h)
    <3>1. p[2] \in 0..w - 1 /\ h - 1 - p[1] \in 0..h - 1
      BY <2>1
    <3> QED
      BY <3>1 DEF Grid
  <2>3. Img(w, h, n).at[q] = Back(w, h, n, q)
    BY <2>2 DEF Img
  <2>4. q[1] = p[2] /\ q[2] = h - 1 - p[1]
    OBVIOUS
  <2> HIDE DEF q
  <2>5. CASE n = 0
    <3>1. Back(w, h, n, q) = q /\ Back(h, w, n + 1, p) = <<p[2], h - 1 - p[1]>>
      BY <2>5 DEF Back
    <3> QED
      BY <2>3, <3>1 DEF q
  <2>6. CASE n = 1
    <3>1. /\ Back(w, h, n, q) = <<q[2], w - 1 - q[1]>>
          /\ Back(h, w, n + 1, p) = <<h - 1 - p[1], w - 1 - p[2]>>
      BY <2>6 DEF Back
    <3> QED
      BY <2>3, <2>4, <3>1 DEF q
  <2>7. CASE n = 2
    <3>1. /\ Back(w, h, n, q) = <<w - 1 - q[1], h - 1 - q[2]>>
          /\ Back(h, w, n + 1, p) = <<w - 1 - p[2], p[1]>>
      BY <2>7 DEF Back
    <3>2. h - 1 - (h - 1 - p[1]) = p[1]
      BY <2>1
    <3> QED
      BY <2>3, <2>4, <3>1, <3>2 DEF q
  <2> QED
    BY <2>5, <2>6, <2>7 DEF q
<1>2. Img(w, h, n).w = w /\ Img(w, h, n).h = h
  BY DEF Img
<1>3. QuarterTurn(Img(w, h, n)) =
          [w |-> h, h |-> w,
           at |-> [p \in Grid(h, w) |-> Img(w, h, n).at[<<p[2], h - 1 - p[1]>>]]]
  BY <1>2 DEF QuarterTurn
<1>4. [p \in Grid(h, w) |-> Img(w, h, n).at[<<p[2], h - 1 - p[1]>>]]
          = [p \in Grid(h, w) |-> Back(h, w, n + 1, p)]
  BY <1>1
<1> QED
  BY <1>3, <1>4 DEF Img

(* The turns of Picture, without recursion.                                *)
TurnedFrom(first) ==
    LET turned[n \in 0..3] == IF n = 0 THEN first ELSE QuarterTurn(turned[n - 1])
    IN  turned

(* The function of the turns is the iteration.                             *)
LEMMA TurnedAre ==
    ASSUME NEW first
    PROVE  /\ TurnedFrom(first)[0] = first
           /\ \A n \in 0..2 : TurnedFrom(first)[n + 1] = QuarterTurn(TurnedFrom(first)[n])
<1> DEFINE Fits(f) == f = [n \in 0..3 |-> IF n = 0 THEN first ELSE QuarterTurn(f[n - 1])]
    w == [n \in 0..3 |-> IF n = 0 THEN first
                         ELSE IF n = 1 THEN QuarterTurn(first)
                         ELSE IF n = 2 THEN QuarterTurn(QuarterTurn(first))
                         ELSE QuarterTurn(QuarterTurn(QuarterTurn(first)))]
<1>1. Fits(w)
  <2>1. /\ w[0] = first /\ w[1] = QuarterTurn(w[0])
        /\ w[2] = QuarterTurn(w[1]) /\ w[3] = QuarterTurn(w[2])
    OBVIOUS
  <2>2. w = [n \in 0..3 |-> w[n]]
    OBVIOUS
  <2> HIDE DEF w
  <2>3. ASSUME NEW n \in 0..3 PROVE w[n] = IF n = 0 THEN first ELSE QuarterTurn(w[n - 1])
    <3>1. n \in {0, 1, 2, 3}
      OBVIOUS
    <3> QED
      BY <2>1, <3>1
  <2> QED
    BY <2>2, <2>3
<1> DEFINE F == CHOOSE f : Fits(f)
<1> HIDE DEF w
<1>2. Fits(F)
  BY <1>1
<1>3. TurnedFrom(first) = F
  BY DEF TurnedFrom
<1> HIDE DEF F
<1>4. F[0] = first
  BY <1>2
<1>5. ASSUME NEW n \in 0..2 PROVE F[n + 1] = QuarterTurn(F[n])
  <2>1. n + 1 \in 0..3 /\ n + 1 # 0 /\ n + 1 - 1 = n
    OBVIOUS
  <2> QED
    BY <1>2, <2>1
<1> QED
  BY <1>3, <1>4, <1>5

(* The framebuffer pixel that the panel pixel p shows.                     *)
Mirrored(r, p) == IF r.rx THEN <<panel.w - 1 - p[1], p[2]>> ELSE p
Source(r, p) == Back(panel.w, panel.h, r.angle, Mirrored(r, p))

(* A mirrored pixel is on the panel.                                       *)
LEMMA MirroredInGrid ==
    ASSUME panel.w \in Nat, panel.h \in Nat, NEW r, NEW p \in Grid(panel.w, panel.h)
    PROVE  Mirrored(r, p) \in Grid(panel.w, panel.h)
<1>1. /\ p = <<p[1], p[2]>> /\ p[1] \in Int /\ 0 <= p[1] /\ p[1] < panel.w
      /\ p[2] \in Int /\ 0 <= p[2] /\ p[2] < panel.h
  BY InGrid
<1>2. panel.w - 1 - p[1] \in 0..panel.w - 1 /\ p[2] \in 0..panel.h - 1
  BY <1>1
<1> QED
  BY <1>2 DEF Mirrored, Grid

(* What Picture shows on each pixel of the panel.                          *)
LEMMA PictureIs ==
    ASSUME panel.w \in Nat, panel.h \in Nat, NEW r \in Turn
    PROVE  Picture(r) = [p \in Grid(panel.w, panel.h) |-> Source(r, p)]
<1> DEFINE W == panel.w
           H == panel.h
           s == Size(panel, r)
           T == TurnedFrom([w |-> s[1], h |-> s[2], at |-> [p \in Grid(s[1], s[2]) |-> p]])
           img == T[r.angle]
<1>1. Picture(r) = IF r.rx THEN [p \in DOMAIN img.at |-> img.at[<<img.w - 1 - p[1], p[2]>>]]
                   ELSE img.at
  BY DEF Picture, TurnedFrom
<1>2. T[0] = Img(s[1], s[2], 0)
  <2>1. [p \in Grid(s[1], s[2]) |-> p] = [p \in Grid(s[1], s[2]) |-> Back(s[1], s[2], 0, p)]
    BY DEF Back
  <2>2. T[0] = [w |-> s[1], h |-> s[2], at |-> [p \in Grid(s[1], s[2]) |-> p]]
    BY TurnedAre
  <2> HIDE DEF T
  <2> QED
    BY <2>1, <2>2 DEF Img
<1>3. \A n \in 0..2 : T[n + 1] = QuarterTurn(T[n])
  BY TurnedAre
<1> HIDE DEF T
<1>4. T[1] = QuarterTurn(T[0]) /\ T[2] = QuarterTurn(T[1]) /\ T[3] = QuarterTurn(T[2])
  <2>1. 0 \in 0..2 /\ 1 \in 0..2 /\ 2 \in 0..2 /\ 0 + 1 = 1 /\ 1 + 1 = 2 /\ 2 + 1 = 3
    OBVIOUS
  <2> QED
    BY <1>3, <2>1
<1>5. \A w, h \in Nat : /\ QuarterTurn(Img(w, h, 0)) = Img(h, w, 1)
                        /\ QuarterTurn(Img(w, h, 1)) = Img(h, w, 2)
                        /\ QuarterTurn(Img(w, h, 2)) = Img(h, w, 3)
  <2>1. 0 \in 0..2 /\ 1 \in 0..2 /\ 2 \in 0..2 /\ 0 + 1 = 1 /\ 1 + 1 = 2 /\ 2 + 1 = 3
    OBVIOUS
  <2> QED
    BY <2>1, TurnImg
<1>6. img = Img(W, H, r.angle)
  <2>1. r.angle \in {0, 1, 2, 3}
    BY DEF Turn
  <2>2. CASE r.angle \in {0, 2}
    <3>1. s[1] = W /\ s[2] = H
      BY <2>2 DEF Size, Swaps
    <3> HIDE DEF s
    <3> QED
      BY <1>2, <1>4, <1>5, <2>2, <3>1
  <2>3. CASE r.angle \in {1, 3}
    <3>1. s[1] = H /\ s[2] = W
      BY <2>3 DEF Size, Swaps
    <3> HIDE DEF s
    <3> QED
      BY <1>2, <1>4, <1>5, <2>3, <3>1
  <2> QED
    BY <2>1, <2>2, <2>3
<1> HIDE DEF img
<1>7. img.w = W /\ img.at = [p \in Grid(W, H) |-> Back(W, H, r.angle, p)]
  BY <1>6 DEF Img
<1>8. CASE ~r.rx
  <2>1. \A p \in Grid(W, H) : Source(r, p) = Back(W, H, r.angle, p)
    BY <1>8 DEF Source, Mirrored
  <2> QED
    BY <1>1, <1>7, <1>8, <2>1
<1>9. CASE r.rx
  <2>1. ASSUME NEW p \in Grid(W, H)
        PROVE  img.at[<<img.w - 1 - p[1], p[2]>>] = Source(r, p)
    <3>1. Mirrored(r, p) = <<W - 1 - p[1], p[2]>> /\ Mirrored(r, p) \in Grid(W, H)
      BY <1>9, MirroredInGrid DEF Mirrored
    <3> QED
      BY <1>7, <3>1 DEF Source
  <2> QED
    BY <1>1, <1>7, <1>9, <2>1
<1> QED
  BY <1>8, <1>9

(* Where the framebuffer pixel s goes: Back in the other direction.        *)
Forth(w, h, n, s) ==
    CASE n = 0 -> s
      [] n = 1 -> <<w - 1 - s[2], s[1]>>
      [] n = 2 -> <<w - 1 - s[1], h - 1 - s[2]>>
      [] n = 3 -> <<s[2], h - 1 - s[1]>>

(* The framebuffer after n turns of a panel of w x h.                      *)
Logical(w, h, n) == IF n \in {1, 3} THEN Grid(h, w) ELSE Grid(w, h)

(* A pair of coordinates in range is a pixel.                              *)
LEMMA PairInGrid ==
    ASSUME NEW w \in Nat, NEW h \in Nat,
           NEW x \in Int, 0 <= x, x < w, NEW y \in Int, 0 <= y, y < h
    PROVE  <<x, y>> \in Grid(w, h)
<1>1. x \in 0..w - 1 /\ y \in 0..h - 1
  OBVIOUS
<1> QED
  BY <1>1 DEF Grid

(* Forth undoes Back.                                                      *)
LEMMA ForthBack ==
    ASSUME NEW w \in Nat, NEW h \in Nat, NEW n \in 0..3, NEW p \in Grid(w, h)
    PROVE  Back(w, h, n, p) \in Logical(w, h, n) /\ Forth(w, h, n, Back(w, h, n, p)) = p
<1>1. PICK x \in Int, y \in Int : p = <<x, y>> /\ 0 <= x /\ x < w /\ 0 <= y /\ y < h
  BY InGrid
<1>2. p[1] = x /\ p[2] = y
  BY <1>1
<1>3. /\ w - 1 - x \in Int /\ 0 <= w - 1 - x /\ w - 1 - x < w
      /\ h - 1 - y \in Int /\ 0 <= h - 1 - y /\ h - 1 - y < h
      /\ w - 1 - (w - 1 - x) = x /\ h - 1 - (h - 1 - y) = y
  BY <1>1
<1>4. n \in {0, 1, 2, 3}
  OBVIOUS
<1>5. CASE n = 0
  BY <1>5 DEF Back, Forth, Logical
<1>6. CASE n = 1
  <2>1. Back(w, h, n, p) = <<y, w - 1 - x>>
    BY <1>2, <1>6 DEF Back
  <2>2. <<y, w - 1 - x>> \in Grid(h, w)
    BY <1>1, <1>3, PairInGrid
  <2>3. Forth(w, h, n, <<y, w - 1 - x>>) = <<w - 1 - (w - 1 - x), y>>
    BY <1>6 DEF Forth
  <2> QED
    BY <1>1, <1>3, <1>6, <2>1, <2>2, <2>3 DEF Logical
<1>7. CASE n = 2
  <2>1. Back(w, h, n, p) = <<w - 1 - x, h - 1 - y>>
    BY <1>2, <1>7 DEF Back
  <2>2. <<w - 1 - x, h - 1 - y>> \in Grid(w, h)
    BY <1>1, <1>3, PairInGrid
  <2>3. Forth(w, h, n, <<w - 1 - x, h - 1 - y>>) = <<w - 1 - (w - 1 - x), h - 1 - (h - 1 - y)>>
    BY <1>7 DEF Forth
  <2> QED
    BY <1>1, <1>3, <1>7, <2>1, <2>2, <2>3 DEF Logical
<1>8. CASE n = 3
  <2>1. Back(w, h, n, p) = <<h - 1 - y, x>>
    BY <1>2, <1>8 DEF Back
  <2>2. <<h - 1 - y, x>> \in Grid(h, w)
    BY <1>1, <1>3, PairInGrid
  <2>3. Forth(w, h, n, <<h - 1 - y, x>>) = <<x, h - 1 - (h - 1 - y)>>
    BY <1>8 DEF Forth
  <2> QED
    BY <1>1, <1>3, <1>8, <2>1, <2>2, <2>3 DEF Logical
<1> QED
  BY <1>4, <1>5, <1>6, <1>7, <1>8

(* Back undoes Forth.                                                      *)
LEMMA BackForth ==
    ASSUME NEW w \in Nat, NEW h \in Nat, NEW n \in 0..3, NEW s \in Logical(w, h, n)
    PROVE  Forth(w, h, n, s) \in Grid(w, h) /\ Back(w, h, n, Forth(w, h, n, s)) = s
<1>1. n \in {0, 1, 2, 3}
  OBVIOUS
<1>2. CASE n \in {1, 3}
  <2>1. s \in Grid(h, w)
    BY <1>2 DEF Logical
  <2>2. PICK x \in Int, y \in Int : s = <<x, y>> /\ 0 <= x /\ x < h /\ 0 <= y /\ y < w
    BY <2>1, InGrid
  <2>3. s[1] = x /\ s[2] = y
    BY <2>2
  <2>4. /\ w - 1 - y \in Int /\ 0 <= w - 1 - y /\ w - 1 - y < w
        /\ h - 1 - x \in Int /\ 0 <= h - 1 - x /\ h - 1 - x < h
        /\ w - 1 - (w - 1 - y) = y /\ h - 1 - (h - 1 - x) = x
    BY <2>2
  <2>5. CASE n = 1
    <3>1. Forth(w, h, n, s) = <<w - 1 - y, x>>
      BY <2>3, <2>5 DEF Forth
    <3>2. <<w - 1 - y, x>> \in Grid(w, h)
      BY <2>2, <2>4, PairInGrid
    <3>3. Back(w, h, n, <<w - 1 - y, x>>) = <<x, w - 1 - (w - 1 - y)>>
      BY <2>5 DEF Back
    <3> QED
      BY <2>2, <2>4, <3>1, <3>2, <3>3
  <2>6. CASE n = 3
    <3>1. Forth(w, h, n, s) = <<y, h - 1 - x>>
      BY <2>3, <2>6 DEF Forth
    <3>2. <<y, h - 1 - x>> \in Grid(w, h)
      BY <2>2, <2>4, PairInGrid
    <3>3. Back(w, h, n, <<y, h - 1 - x>>) = <<h - 1 - (h - 1 - x), y>>
      BY <2>6 DEF Back
    <3> QED
      BY <2>2, <2>4, <3>1, <3>2, <3>3
  <2> QED
    BY <1>2, <2>5, <2>6
<1>3. CASE n = 0
  BY <1>3 DEF Back, Forth, Logical
<1>4. CASE n = 2
  <2>1. s \in Grid(w, h)
    BY <1>4 DEF Logical
  <2>2. PICK x \in Int, y \in Int : s = <<x, y>> /\ 0 <= x /\ x < w /\ 0 <= y /\ y < h
    BY <2>1, InGrid
  <2>3. s[1] = x /\ s[2] = y
    BY <2>2
  <2>4. /\ w - 1 - x \in Int /\ 0 <= w - 1 - x /\ w - 1 - x < w
        /\ h - 1 - y \in Int /\ 0 <= h - 1 - y /\ h - 1 - y < h
        /\ w - 1 - (w - 1 - x) = x /\ h - 1 - (h - 1 - y) = y
    BY <2>2
  <2>5. Forth(w, h, n, s) = <<w - 1 - x, h - 1 - y>>
    BY <1>4, <2>3 DEF Forth
  <2>6. <<w - 1 - x, h - 1 - y>> \in Grid(w, h)
    BY <2>2, <2>4, PairInGrid
  <2>7. Back(w, h, n, <<w - 1 - x, h - 1 - y>>) = <<w - 1 - (w - 1 - x), h - 1 - (h - 1 - y)>>
    BY <1>4 DEF Back
  <2> QED
    BY <2>2, <2>4, <2>5, <2>6, <2>7
<1> QED
  BY <1>1, <1>2, <1>3, <1>4

(* Mirroring twice changes nothing.                                        *)
LEMMA MirroredTwice ==
    ASSUME panel.w \in Nat, panel.h \in Nat, NEW r, NEW p \in Grid(panel.w, panel.h)
    PROVE  Mirrored(r, Mirrored(r, p)) = p
<1>1. PICK x \in Int, y \in Int : p = <<x, y>>
  BY InGrid
<1>2. panel.w - 1 - (panel.w - 1 - x) = x
  BY <1>1
<1> QED
  BY <1>1, <1>2 DEF Mirrored

(* The orientations of ax206_rotate_pixel that fill the panel.             *)
Fills(r) ==
    setup.drv = "ax206" =>
        panel.w = panel.h \/ ~Swaps(r) \/ (r.angle = 1 /\ r.rx)

(* The framebuffer's grid, by its orientation.                             *)
LEMMA LogicalIs ==
    ASSUME NEW r \in Turn
    PROVE  Grid(Size(panel, r)[1], Size(panel, r)[2]) = Logical(panel.w, panel.h, r.angle)
  BY DEF Logical, Size, Swaps

(* The driver's coordinates for a pixel are the inverse of Source.         *)
LEMMA TargetIs ==
    ASSUME panel.w \in Nat \ {0}, panel.h \in Nat \ {0}, NEW r \in Turn,
           setup.drv # "ax206" => size = Size(panel, r),
           Fills(r), NEW s \in Logical(panel.w, panel.h, r.angle)
    PROVE  Target(r, s) = Mirrored(r, Forth(panel.w, panel.h, r.angle, s))
<1> DEFINE w == panel.w
           h == panel.h
           t == Forth(w, h, r.angle, s)
<1>1. r.angle \in {0, 1, 2, 3} /\ r.angle \in 0..3 /\ r.rx \in BOOLEAN
  BY DEF Turn
<1>2. t \in Grid(w, h)
  BY <1>1, BackForth
<1>3. CASE setup.drv # "ax206"
  <2>1. Rotated(r, s, size) = t
    <3>1. CASE r.angle \in {0, 2}
      <4>1. size[1] = w /\ size[2] = h
        BY <1>3, <3>1 DEF Size, Swaps
      <4> QED
        BY <3>1, <4>1 DEF Rotated, Forth
    <3>2. CASE r.angle \in {1, 3}
      <4>1. size[1] = h /\ size[2] = w
        BY <1>3, <3>2 DEF Size, Swaps
      <4> QED
        BY <3>2, <4>1 DEF Rotated, Forth
    <3> QED
      BY <1>1, <3>1, <3>2
  <2> HIDE DEF t
  <2> DEFINE x == IF r.rx THEN w - 1 - t[1] ELSE t[1]
  <2>2. Target(r, s) = <<Clamp(x, 0, w - 1), Clamp(t[2], 0, h - 1)>>
    BY <1>3, <2>1 DEF Target, rotate_coord
  <2>3. PICK a \in Int, b \in Int : t = <<a, b>> /\ 0 <= a /\ a < w /\ 0 <= b /\ b < h
    BY <1>2, InGrid
  <2>4. x \in Int /\ 0 <= x /\ x <= w - 1 /\ t[2] \in Int /\ 0 <= t[2] /\ t[2] <= h - 1
    BY <2>3
  <2>5. Mirrored(r, t) = <<x, t[2]>>
    BY <2>3 DEF Mirrored
  <2> HIDE DEF x
  <2>6. Clamp(x, 0, w - 1) = x /\ Clamp(t[2], 0, h - 1) = t[2]
    BY <2>4 DEF Clamp
  <2>7. Target(r, s) = Mirrored(r, t)
    BY <2>2, <2>5, <2>6
  <2> QED
    BY <2>7 DEF t
<1>4. CASE setup.drv = "ax206"
  <2>1. Target(r, s) = rotate_pixel(r, s)
    BY <1>4 DEF Target
  <2>2. PICK a \in Int, b \in Int : s = <<a, b>>
    <3>1. s \in Grid(w, h) \/ s \in Grid(h, w)
      BY DEF Logical
    <3> QED
      BY <3>1, InGrid
  <2>3. s[1] = a /\ s[2] = b
    BY <2>2
  <2>4. /\ w - 1 - (w - 1 - b) = b /\ w - 1 - (w - 1 - a) = a
    BY <2>2
  <2>5. CASE r.angle = 0
    <3>1. t = s
      BY <2>5 DEF Forth
    <3> QED
      BY <2>1, <2>5, <3>1 DEF rotate_pixel, Mirrored
  <2>6. CASE r.angle = 1
    <3>1. t = <<w - 1 - b, a>>
      BY <2>3, <2>6 DEF Forth
    <3>2. CASE r.rx
      BY <2>1, <2>3, <2>4, <2>6, <3>1, <3>2 DEF rotate_pixel, Mirrored
    <3>3. CASE ~r.rx
      <4>1. w = h
        BY <1>4, <2>6, <3>3 DEF Fills, Swaps
      <4> QED
        BY <2>1, <2>3, <2>6, <3>1, <3>3, <4>1 DEF rotate_pixel, Mirrored
    <3> QED
      BY <3>2, <3>3
  <2>7. CASE r.angle = 2
    <3>1. t = <<w - 1 - a, h - 1 - b>>
      BY <2>3, <2>7 DEF Forth
    <3> QED
      BY <2>1, <2>3, <2>4, <2>7, <3>1 DEF rotate_pixel, Mirrored
  <2>8. CASE r.angle = 3
    <3>1. t = <<b, h - 1 - a>>
      BY <2>3, <2>8 DEF Forth
    <3>2. w = h
      BY <1>4, <2>8 DEF Fills, Swaps
    <3> QED
      BY <2>1, <2>3, <2>8, <3>1, <3>2 DEF rotate_pixel, Mirrored
  <2> QED
    BY <1>1, <2>5, <2>6, <2>7, <2>8
<1> QED
  BY <1>3, <1>4

(* A blit in an orientation that fills the panel, of a framebuffer of that *)
(* orientation, leaves the picture.                                        *)
LEMMA DrawnIsPicture ==
    ASSUME panel.w \in Nat \ {0}, panel.h \in Nat \ {0}, NEW r \in Turn,
           setup.drv # "ax206" => size = Size(panel, r),
           fb = Size(panel, r), Fills(r),
           DOMAIN shadow = Grid(panel.w, panel.h)
    PROVE  Drawn(r) = Picture(r)
<1> DEFINE Panel == Grid(panel.w, panel.h)
           Frame == Logical(panel.w, panel.h, r.angle)
           hit == {s \in Grid(fb[1], fb[2]) :
                     setup.drv = "ax206" => Target(r, s) \in Grid(panel.w, panel.h)}
           Latest(S) == CHOOSE s \in S : \A t \in S : t[2] < s[2] \/ (t[2] = s[2] /\ t[1] <= s[1])
           src(p) == {s \in hit : Target(r, s) = p}
<1>1. panel.w \in Nat /\ panel.h \in Nat /\ r.angle \in 0..3
  BY DEF Turn
<1>2. Grid(fb[1], fb[2]) = Frame
  BY LogicalIs
<1>3. ASSUME NEW s \in Frame
      PROVE  Target(r, s) \in Panel /\ Source(r, Target(r, s)) = s
  <2> DEFINE t == Forth(panel.w, panel.h, r.angle, s)
  <2>1. t \in Panel /\ Back(panel.w, panel.h, r.angle, t) = s
    BY <1>1, BackForth
  <2>2. Target(r, s) = Mirrored(r, t)
    BY TargetIs
  <2> HIDE DEF t
  <2>3. Mirrored(r, t) \in Panel /\ Mirrored(r, Mirrored(r, t)) = t
    BY <1>1, <2>1, MirroredInGrid, MirroredTwice
  <2> QED
    BY <2>1, <2>2, <2>3 DEF Source
<1>4. ASSUME NEW p \in Panel
      PROVE  Source(r, p) \in Frame /\ Target(r, Source(r, p)) = p
  <2>1. Mirrored(r, p) \in Panel /\ Mirrored(r, Mirrored(r, p)) = p
    BY <1>1, MirroredInGrid, MirroredTwice
  <2>2. /\ Source(r, p) \in Frame
        /\ Forth(panel.w, panel.h, r.angle, Source(r, p)) = Mirrored(r, p)
    BY <1>1, <2>1, ForthBack DEF Source
  <2>3. Target(r, Source(r, p)) = Mirrored(r, Mirrored(r, p))
    BY <2>2, TargetIs
  <2> QED
    BY <2>1, <2>2, <2>3
<1> HIDE DEF Panel, Frame
<1>5. hit = Frame
  BY <1>2, <1>3 DEF Panel
<1>6. Drawn(r) = [p \in DOMAIN shadow \cup {Target(r, s) : s \in hit} |->
                     IF src(p) = {} THEN shadow[p] ELSE Latest(src(p))]
  BY DEF Drawn
<1>7. DOMAIN shadow \cup {Target(r, s) : s \in hit} = Panel
  <2>1. \A s \in hit : Target(r, s) \in Panel
    BY <1>3, <1>5
  <2>2. DOMAIN shadow = Panel
    BY DEF Panel
  <2> HIDE DEF hit
  <2> QED
    BY <2>1, <2>2
<1>8. ASSUME NEW p \in Panel
      PROVE  (IF src(p) = {} THEN shadow[p] ELSE Latest(src(p))) = Source(r, p)
  <2>1. src(p) = {Source(r, p)}
    <3>1. \A s \in Frame : Target(r, s) = p => s = Source(r, p)
      BY <1>3
    <3>2. src(p) = {s \in Frame : Target(r, s) = p}
      BY <1>5
    <3> HIDE DEF hit, src
    <3> QED
      BY <1>4, <3>1, <3>2
  <2> DEFINE x == Source(r, p)
  <2>2. x[1] \in Int /\ x[2] \in Int
    <3>1. x \in Grid(panel.w, panel.h) \/ x \in Grid(panel.h, panel.w)
      BY <1>4 DEF Frame, Logical
    <3> QED
      BY <1>1, <3>1, InGrid
  <2> HIDE DEF x, src
  <2>3. Latest({x}) = x
    BY <2>2
  <2> HIDE DEF Latest
  <2>4. src(p) = {x}
    BY <2>1 DEF x
  <2>5. src(p) # {} /\ Latest(src(p)) = x
    BY <2>3, <2>4
  <2> QED
    BY <2>5 DEF x
<1>9. Drawn(r) = [p \in Panel |-> Source(r, p)]
  <2> HIDE DEF Latest, src, hit
  <2> QED
    BY <1>6, <1>7, <1>8
<1> QED
  BY <1>1, <1>9, PictureIs DEF Panel

(* For every panel and orientation, a commit that finds the framebuffer    *)
(* and the orientation of the last rotation store leaves the whole picture *)
(* on the panel, turned and mirrored: the clamps of rotate_coord hide no   *)
(* pixel, and no two pixels of the framebuffer share one of the panel.     *)
(* Of ax206 this is so in the orientations of FillsPanel alone.            *)
THEOREM BlitTheorem == Spec => BlitShows
<1>1. TypeInv /\ [Next]_vars => [CommitShows]_vars
  <2> SUFFICES ASSUME TypeInv, [Next]_vars, cpc = "blit", cpc' = "idle",
                      rot = rotation, fb = Size(panel, rotation), FillsPanel
               PROVE  PictureShown'
    BY DEF CommitShows
  <2>1. Blit
    BY DEF Next, RotationStore, SizeStore, EdidBuild, EdidPublish, Hotplug, Probe, UpdateStart,
           Blit, GammaStore, GammaSend, LevelStore, ScreenOff, ScreenOn,
           vars, modeVars, frameVars, lightVars
  <2>2. /\ shadow' = Drawn(rotation)
        /\ panel' = panel /\ rotation' = rotation
    BY <2>1 DEF Blit, modeVars
  <2>3. /\ panel.w \in Nat \ {0} /\ panel.h \in Nat \ {0}
        /\ rotation \in Turn
        /\ setup.drv # "ax206" => size = Size(panel, rotation)
        /\ DOMAIN shadow = Grid(panel.w, panel.h)
    <3>1. setup \in Setups /\ setup.client /\ panel = Detected(setup)
      BY <2>1 DEF TypeInv, Blit
    <3>2. setup.drv # "mpro" /\ setup.drv \in {"beada", "mpro", "ax206"}
      BY <3>1, SetupAssumption DEF SetupType
    <3> QED
      BY <3>1, <3>2, PanelSides DEF TypeInv
  <2>4. Fills(rotation)
    BY DEF FillsPanel, Fills
  <2>5. Drawn(rotation) = Picture(rotation)
    BY <2>3, <2>4, DrawnIsPicture
  <2>6. Picture(rotation)' = Picture(rotation)
    BY <2>2 DEF Picture, Size, Swaps
  <2> QED
    BY <2>2, <2>5, <2>6 DEF PictureShown
<1>2. Init => TypeInv
  BY TypeInit
<1>3. TypeInv /\ [Next]_vars => TypeInv'
  BY TypeStep
<1>4. Spec => [][CommitShows]_vars
  BY <1>1, <1>2, <1>3, PTL DEF Spec
<1> QED
  BY <1>4 DEF BlitShows

------------------------------------------------------------------------------
(* The EDID block.                                                         *)

(* Bytes, and sequences of n of them.                                      *)
Byte == 0..255

(* The places of a sequence of n.                                          *)
Upto(n) == 1..n

(* n bytes.                                                                *)
Bytes(s, n) == s \in Seq(Byte) /\ Len(s) = n

(* A name for a concatenation, so that the provers take it apart when      *)
(* told.                                                                   *)
Joins(u, s, t) == u = s \o t

(* A byte, as a range.                                                     *)
LEMMA ByteIs ==
    ASSUME NEW x
    PROVE  x \in Byte <=> x \in Nat /\ x <= 255
  BY DEF Byte

(* A run of one byte.                                                      *)
LEMMA BytesFill ==
    ASSUME NEW n \in Nat, NEW x \in Byte
    PROVE  Bytes(Fill(n, x), n)
<1>1. Fill(n, x) \in [1..n -> Byte]
  BY DEF Fill
<1>2. Fill(n, x) \in Seq(Byte)
  BY <1>1, SeqDef
<1> QED
  BY <1>1, <1>2, LenProperties DEF Bytes

(* Two runs of bytes, joined.                                              *)
LEMMA BytesConcat ==
    ASSUME NEW s, NEW t, NEW m \in Nat, NEW n \in Nat, Bytes(s, m), Bytes(t, n)
    PROVE  Bytes(s \o t, m + n)
  BY ConcatProperties DEF Bytes

(* Where each byte of a joined run is found.                               *)
LEMMA BytesPlaces ==
    ASSUME NEW s, NEW t, NEW m \in Nat, NEW n \in Nat, Bytes(s, m), Bytes(t, n),
           NEW u, Joins(u, s, t)
    PROVE  /\ \A i \in Upto(m) : u[i] = s[i]
           /\ \A i \in Upto(n) : u[m + i] = t[i]
<1>1. s \in Seq(Byte) /\ t \in Seq(Byte) /\ Len(s) = m /\ Len(t) = n
  BY DEF Bytes
<1>2. \A i \in 1..m + n : u[i] = IF i <= m THEN s[i] ELSE t[i - m]
  BY <1>1, ConcatProperties DEF Joins
<1>3. ASSUME NEW i \in Upto(m) PROVE u[i] = s[i]
  <2>1. i \in 1..m + n /\ i <= m
    BY DEF Upto
  <2> QED
    BY <1>2, <2>1
<1>4. ASSUME NEW i \in Upto(n) PROVE u[m + i] = t[i]
  <2>1. PICK j \in 1..m + n : j = m + i /\ ~ (j <= m) /\ j - m = i
    BY DEF Upto
  <2>2. u[j] = t[j - m]
    BY <1>2, <2>1
  <2> QED
    BY <2>1, <2>2
<1> QED
  BY <1>3, <1>4

(* The bytes of the first part keep their places.                          *)
LEMMA BytesFirst ==
    ASSUME NEW s, NEW t, NEW m \in Nat, NEW n \in Nat, Bytes(s, m), Bytes(t, n),
           NEW u, Joins(u, s, t), NEW i \in Upto(m)
    PROVE  u[i] = s[i]
  BY BytesPlaces

(* Short tuples of bytes.                                                  *)
LEMMA BytesThree ==
    ASSUME NEW a \in Byte, NEW b \in Byte, NEW c \in Byte
    PROVE  Bytes(<<a>>, 1) /\ Bytes(<<a, b, c>>, 3)
  BY DEF Bytes

(* A descriptor of bytes.                                                  *)
LEMMA BytesEighteen ==
    ASSUME NEW a \in Byte, NEW b \in Byte, NEW c \in Byte, NEW d \in Byte, NEW e \in Byte,
           NEW f \in Byte, NEW g \in Byte, NEW h \in Byte, NEW i \in Byte, NEW j \in Byte,
           NEW k \in Byte, NEW l \in Byte, NEW m \in Byte, NEW n \in Byte, NEW o \in Byte,
           NEW p \in Byte, NEW q \in Byte, NEW r \in Byte
    PROVE  Bytes(<<a, b, c, d, e, f, g, h, i, j, k, l, m, n, o, p, q, r>>, 18)
  BY DEF Bytes

(* The conversions to bytes.                                               *)
LEMMA LowBytes ==
    ASSUME NEW x \in Nat, NEW y \in Nat
    PROVE  Lo(x) \in Byte /\ Hi(x) \in Byte /\ Nibbles(x, y) \in Byte
<1>1. x % 256 \in Nat /\ x % 256 <= 255
  OBVIOUS
<1>2. PICK a \in Nat, b \in Nat : a = x \div 256 /\ b = y \div 256
  OBVIOUS
<1>3. a % 256 \in Nat /\ a % 256 <= 255
  OBVIOUS
<1>4. /\ (a % 16) * 16 + (b % 16) \in Nat
      /\ (a % 16) * 16 + (b % 16) <= 255
  OBVIOUS
<1> QED
  BY <1>1, <1>2, <1>3, <1>4, ByteIs DEF Lo, Hi, Nibbles

(* A number below 256 is a byte.                                           *)
LEMMA SmallBytes ==
    ASSUME NEW x \in Nat, x <= 255
    PROVE  x \in Byte
  BY ByteIs

(* The parts of a block that are the same for both drivers have their      *)
(* lengths.                                                                *)
LEMMA BytesName == Bytes(NameDescriptor, 18)
<1>1. Bytes(<<0, 0, 0, 252, 0>>, 5)
  BY SmallBytes DEF Bytes
<1>2. Bytes(Fill(13, 66), 13)
  BY BytesFill, SmallBytes
<1>3. 5 + 13 = 18
  OBVIOUS
<1>4. Bytes(<<0, 0, 0, 252, 0>> \o Fill(13, 66), 5 + 13)
  BY <1>1, <1>2, BytesConcat
<1> QED
  BY <1>3, <1>4 DEF NameDescriptor

(* The range limits descriptor is 18 bytes.                                *)
LEMMA BytesLimits ==
    ASSUME NEW clock \in Nat
    PROVE  Bytes(RangeLimits(clock), 18)
<1> DEFINE x == Lo((clock \div 100) + 1)
<1>1. x \in Byte
  <2>1. clock \div 100 + 1 \in Nat
    OBVIOUS
  <2> QED
    BY <2>1, LowBytes
<1> HIDE DEF x
<1>2. Bytes(<<0, 0, 0, 253, 0, 50, 75, 30, 80, x, 0, 10>>, 12)
  BY <1>1, SmallBytes DEF Bytes
<1>3. Bytes(Fill(6, 32), 6)
  BY BytesFill, SmallBytes
<1>4. Bytes(<<0, 0, 0, 253, 0, 50, 75, 30, 80, x, 0, 10>> \o Fill(6, 32), 12 + 6)
  BY <1>2, <1>3, BytesConcat
<1>5. 12 + 6 = 18
  OBVIOUS
<1> QED
  BY <1>4, <1>5 DEF RangeLimits, x

(* What drm_edid_block_valid asks of a block, and where its timing is.     *)
Accepted(block) == block \in [1..128 -> 0..255] /\ ByteSum(block) % 256 = 0

(* The first descriptor of the block is timing.                            *)
TimingAt(block, timing) == \A i \in 1..18 : block[54 + i] = timing[i]

(* A block has 128 bytes that sum to zero, and its detailed timing at the  *)
(* place where a reader looks for it.                                      *)
LEMMA BlockIs ==
    ASSUME NEW mfg \in Nat, NEW product, Bytes(product, 6),
           NEW p, p.wm \in Nat, p.hm \in Nat, p.wm <= 255, p.hm <= 255,
           NEW timing, Bytes(timing, 18), NEW limits, Bytes(limits, 18)
    PROVE  LET block == Block(mfg, product, p, timing, limits)
           IN  Accepted(block) /\ TimingAt(block, timing)
<1> DEFINE a1 == <<0>>
           a2 == Fill(6, 255)
           a3 == <<0, Hi(mfg), Lo(mfg)>>
           a4 == <<1, 35, 1, 3, 128, (p.wm + 9) \div 10, (p.hm + 9) \div 10, 120, 10>>
           a5 == <<238, 145, 163, 84, 76, 153, 38, 15, 80, 84>>
           a6 == Fill(3, 0)
           a7 == Fill(16, 1)
           a8 == <<0, 0, 0, 16>>
           a9 == Fill(15, 0)
           b1 == a1 \o a2
           b2 == b1 \o a3
           b3 == b2 \o product
           b4 == b3 \o a4
           b5 == b4 \o a5
           b6 == b5 \o a6
           b7 == b6 \o a7
           b8 == b7 \o timing
           b9 == b8 \o NameDescriptor
           b10 == b9 \o limits
           b11 == b10 \o a8
           body == b11 \o a9
           last == (256 - (ByteSum(body) % 256)) % 256
           block == Append(body, last)
<1>1. Block(mfg, product, p, timing, limits) = block
  BY DEF Block
<1>2. 0 \in Byte /\ 1 \in Byte /\ 255 \in Byte
  BY SmallBytes
<1>3. Bytes(a1, 1) /\ Bytes(a2, 6) /\ Bytes(a6, 3) /\ Bytes(a7, 16) /\ Bytes(a9, 15)
  BY <1>2, BytesThree, BytesFill
<1>4. Bytes(a3, 3)
  BY <1>2, BytesThree, LowBytes
<1>5. Bytes(a4, 9)
  <2>1. (p.wm + 9) \div 10 \in Byte /\ (p.hm + 9) \div 10 \in Byte
    BY ByteIs
  <2> DEFINE x == (p.wm + 9) \div 10
             y == (p.hm + 9) \div 10
  <2> HIDE DEF x, y
  <2>2. x \in Byte /\ y \in Byte
    BY <2>1 DEF x, y
  <2>3. Bytes(<<1, 35, 1, 3, 128, x, y, 120, 10>>, 9)
    BY <2>2, SmallBytes DEF Bytes
  <2> QED
    BY <2>3 DEF x, y
<1>6. Bytes(a5, 10) /\ Bytes(a8, 4)
  BY SmallBytes DEF Bytes
<1> HIDE DEF a1, a2, a3, a4, a5, a6, a7, a8, a9,
             b1, b2, b3, b4, b5, b6, b7, b8, b9, b10, b11, body, last, block
<1>7. Bytes(b1, 7)
  <2>1. Bytes(b1, 1 + 6)
    BY <1>3, BytesConcat DEF b1
  <2> QED
    BY <2>1
<1>8. Bytes(b2, 10)
  <2>1. Bytes(b2, 7 + 3)
    BY <1>4, <1>7, BytesConcat DEF b2
  <2> QED
    BY <2>1
<1>9. Bytes(b3, 16)
  <2>1. Bytes(b3, 10 + 6)
    BY <1>8, BytesConcat DEF b3
  <2> QED
    BY <2>1
<1>10. Bytes(b4, 25)
  <2>1. Bytes(b4, 16 + 9)
    BY <1>5, <1>9, BytesConcat DEF b4
  <2> QED
    BY <2>1
<1>11. Bytes(b5, 35)
  <2>1. Bytes(b5, 25 + 10)
    BY <1>6, <1>10, BytesConcat DEF b5
  <2> QED
    BY <2>1
<1>12. Bytes(b6, 38)
  <2>1. Bytes(b6, 35 + 3)
    BY <1>3, <1>11, BytesConcat DEF b6
  <2> QED
    BY <2>1
<1>13. Bytes(b7, 54)
  <2>1. Bytes(b7, 38 + 16)
    BY <1>3, <1>12, BytesConcat DEF b7
  <2> QED
    BY <2>1
<1>14. Bytes(b8, 72) /\ \A i \in Upto(18) : b8[54 + i] = timing[i]
  <2>1. 54 \in Nat /\ 18 \in Nat /\ 54 + 18 = 72
    OBVIOUS
  <2>2. Bytes(b8, 54 + 18)
    BY <1>13, <2>1, BytesConcat DEF b8
  <2>3. ASSUME NEW i \in Upto(18) PROVE b8[54 + i] = timing[i]
    <3>1. Joins(b8, b7, timing)
      BY DEF Joins, b8
    <3> QED
      BY <1>13, <2>1, <3>1, BytesPlaces
  <2> QED
    BY <2>1, <2>2, <2>3
<1>15. Bytes(b9, 90) /\ \A i \in Upto(72) : b9[i] = b8[i]
  <2>1. 72 \in Nat /\ 18 \in Nat /\ 72 + 18 = 90
    OBVIOUS
  <2>2. Bytes(b9, 72 + 18)
    BY <1>14, BytesName, <2>1, BytesConcat DEF b9
  <2>3. ASSUME NEW i \in Upto(72) PROVE b9[i] = b8[i]
    <3>1. Joins(b9, b8, NameDescriptor)
      BY DEF Joins, b9
    <3> QED
      BY <1>14, BytesName, <2>1, <3>1, BytesPlaces
  <2> QED
    BY <2>1, <2>2, <2>3
<1>16. Bytes(b10, 108) /\ \A i \in Upto(90) : b10[i] = b9[i]
  <2>1. 90 \in Nat /\ 18 \in Nat /\ 90 + 18 = 108
    OBVIOUS
  <2>2. Bytes(b10, 90 + 18)
    BY <1>15, <2>1, BytesConcat DEF b10
  <2>3. ASSUME NEW i \in Upto(90) PROVE b10[i] = b9[i]
    <3>1. Joins(b10, b9, limits)
      BY DEF Joins, b10
    <3>2. Bytes(b9, 90) /\ Bytes(limits, 18)
      BY <1>15
    <3> QED
      BY <2>1, <3>1, <3>2, BytesFirst
  <2> QED
    BY <2>1, <2>2, <2>3
<1>17. Bytes(b11, 112) /\ \A i \in Upto(108) : b11[i] = b10[i]
  <2>1. 108 \in Nat /\ 4 \in Nat /\ 108 + 4 = 112
    OBVIOUS
  <2>2. Bytes(b11, 108 + 4)
    BY <1>6, <1>16, <2>1, BytesConcat DEF b11
  <2>3. ASSUME NEW i \in Upto(108) PROVE b11[i] = b10[i]
    <3>1. Joins(b11, b10, a8)
      BY DEF Joins, b11
    <3>2. Bytes(b10, 108) /\ Bytes(a8, 4)
      BY <1>6, <1>16
    <3> QED
      BY <2>1, <3>1, <3>2, BytesFirst
  <2> QED
    BY <2>1, <2>2, <2>3
<1>18. Bytes(body, 127) /\ \A i \in Upto(112) : body[i] = b11[i]
  <2>1. 112 \in Nat /\ 15 \in Nat /\ 112 + 15 = 127
    OBVIOUS
  <2>2. Bytes(body, 112 + 15)
    BY <1>3, <1>17, <2>1, BytesConcat DEF body
  <2>3. ASSUME NEW i \in Upto(112) PROVE body[i] = b11[i]
    <3>1. Joins(body, b11, a9)
      BY DEF Joins, body
    <3>2. Bytes(b11, 112) /\ Bytes(a9, 15)
      BY <1>3, <1>17
    <3> QED
      BY <2>1, <3>1, <3>2, BytesFirst
  <2> QED
    BY <2>1, <2>2, <2>3
<1>19. ByteSum(body) \in Nat
  <2>1. body \in Seq(Nat)
    <3>1. body \in Seq(Byte)
      BY <1>18 DEF Bytes
    <3>2. Byte \subseteq Nat
      BY DEF Byte
    <3>3. body \in [1..Len(body) -> Byte] /\ Len(body) \in Nat
      BY <3>1, LenProperties
    <3>4. body \in [1..Len(body) -> Nat]
      BY <3>2, <3>3
    <3> QED
      BY <3>3, <3>4, SeqDef
  <2> QED
    BY <2>1, HornerNat DEF ByteSum
<1>20. last \in Byte /\ (1 * ByteSum(body) + last) % 256 = 0
  <2> DEFINE B == ByteSum(body)
  <2> HIDE DEF B
  <2>1. B \in Nat
    BY <1>19 DEF B
  <2>2. /\ (256 - (B % 256)) % 256 \in Nat /\ (256 - (B % 256)) % 256 <= 255
        /\ (1 * B + ((256 - (B % 256)) % 256)) % 256 = 0
    BY <2>1
  <2> QED
    BY <2>2, ByteIs DEF B, last
<1>21. body \in Seq(Byte) /\ Len(body) = 127
  BY <1>18 DEF Bytes
<1>22. ByteSum(block) % 256 = 0
  <2>1. Horner(1, Append(body, last)) = 1 * Horner(1, body) + last
    BY <1>20, <1>21, HornerAppend
  <2> QED
    BY <1>20, <2>1 DEF ByteSum, block
<1>23. /\ block \in Seq(Byte) /\ Len(block) = 128
       /\ \A i \in Upto(127) : block[i] = body[i]
  <2>1. block \in Seq(Byte) /\ Len(block) = Len(body) + 1
        /\ \A i \in 1..Len(body) : block[i] = body[i]
    <3>1. last \in Byte /\ body \in Seq(Byte)
      BY <1>20, <1>21
    <3> QED
      BY <3>1, AppendProperties DEF block
  <2>2. 1..Len(body) = Upto(127) /\ Len(body) + 1 = 128
    BY <1>21 DEF Upto
  <2>3. Len(block) = 128
    BY <2>1, <2>2
  <2>4. \A i \in Upto(127) : block[i] = body[i]
    <3> DEFINE I == 1..Len(body)
    <3>1. \A i \in I : block[i] = body[i]
      BY <2>1
    <3>2. I = Upto(127)
      BY <2>2
    <3> HIDE DEF I
    <3> QED
      BY <3>1, <3>2, ZenonT(60)
  <2> QED
    BY <2>1, <2>3, <2>4
<1>24. block \in [1..128 -> 0..255]
  <2>1. block \in [1..Len(block) -> Byte]
    BY <1>23, LenProperties
  <2> QED
    BY <1>23, <2>1, Zenon DEF Byte
<1>25. ASSUME NEW i \in 1..18 PROVE block[54 + i] = timing[i]
  <2>1. /\ 54 + i \in Upto(127) /\ 54 + i \in Upto(112) /\ 54 + i \in Upto(108)
        /\ 54 + i \in Upto(90) /\ 54 + i \in Upto(72) /\ i \in Upto(18)
    BY DEF Upto
  <2> QED
    <3> DEFINE j == 54 + i
    <3>1. /\ j \in Upto(127) /\ j \in Upto(112) /\ j \in Upto(108)
          /\ j \in Upto(90) /\ j \in Upto(72)
      BY <2>1
    <3>2. b8[j] = timing[i]
      BY <1>14, <2>1
    <3> HIDE DEF j
    <3>3. block[j] = body[j]
      BY <1>23, <3>1
    <3>4. body[j] = b11[j] /\ b11[j] = b10[j]
      BY <1>17, <1>18, <3>1
    <3>5. b10[j] = b9[j] /\ b9[j] = b8[j]
      BY <1>15, <1>16, <3>1
    <3>6. block[j] = timing[i]
      BY <3>2, <3>3, <3>4, <3>5
    <3> QED
      BY <3>6 DEF j
<1> QED
  BY <1>1, <1>22, <1>24, <1>25 DEF Accepted, TimingAt

(* What a reader of the block takes from its bytes.                        *)
LEMMA NibblesParts ==
    ASSUME NEW x \in Nat, NEW y \in Nat
    PROVE  /\ Nibbles(x, y) \div 16 = (x \div 256) % 16
           /\ Nibbles(x, y) % 16 = (y \div 256) % 16
<1>1. PICK a \in Nat, b \in Nat : a = (x \div 256) % 16 /\ b = (y \div 256) % 16 /\ b <= 15
  OBVIOUS
<1>2. (a * 16 + b) \div 16 = a /\ (a * 16 + b) % 16 = b
  BY <1>1
<1> QED
  BY <1>1, <1>2 DEF Nibbles

(* Twelve bits, in two parts.                                              *)
LEMMA TwelveBits ==
    ASSUME NEW x \in Nat, x < 4096
    PROVE  Lo(x) + 256 * ((x \div 256) % 16) = x
<1>1. PICK q \in Nat : q = x \div 256 /\ x = 256 * q + (x % 256) /\ q < 16
  OBVIOUS
<1>2. q % 16 = q
  BY <1>1
<1> QED
  BY <1>1, <1>2 DEF Lo

(* Sixteen bits, in two bytes.                                             *)
LEMMA SixteenBits ==
    ASSUME NEW x \in Nat, x < 65536
    PROVE  Lo(x) + 256 * Hi(x) = x
<1>1. PICK q \in Nat : q = x \div 256 /\ x = 256 * q + (x % 256) /\ q < 256
  OBVIOUS
<1>2. q % 256 = q
  BY <1>1
<1> QED
  BY <1>1, <1>2 DEF Lo, Hi

(* The blanking intervals, in the bits that the descriptor has for them.   *)
LEMMA Blanks ==
    /\ HBlank = 128 /\ VBlank = 45 /\ HFP = 40 /\ HSYNC = 48 /\ VFP = 13 /\ VSYNC = 3
    /\ Lo(HBlank) = 128 /\ (HBlank \div 256) % 16 = 0
    /\ Lo(VBlank) = 45 /\ (VBlank \div 256) % 16 = 0
    /\ Lo(HFP) = 40 /\ Lo(HSYNC) = 48
    /\ (VFP % 16) * 16 + (VSYNC % 16) = 211
  BY DEF HBlank, VBlank, HFP, HSYNC, HBP, VFP, VSYNC, VBP, Lo

(* The detailed timing is 18 bytes.                                        *)
LEMMA TimingBytes ==
    ASSUME NEW s, s[1] \in Nat, s[2] \in Nat, NEW mm, mm[1] \in Nat, mm[2] \in Nat,
           NEW clock \in Nat
    PROVE  Bytes(DetailedTiming(s, mm, clock), 18)
<1>1. /\ HBlank \in Nat /\ VBlank \in Nat /\ HFP \in Nat /\ HSYNC \in Nat
      /\ (VFP % 16) * 16 + (VSYNC % 16) \in Byte /\ 0 \in Byte /\ 24 \in Byte
  BY Blanks, SmallBytes
<1>2. /\ Lo(clock) \in Byte /\ Hi(clock) \in Byte /\ Lo(s[1]) \in Byte /\ Lo(s[2]) \in Byte
      /\ Lo(mm[1]) \in Byte /\ Lo(mm[2]) \in Byte /\ Nibbles(mm[1], mm[2]) \in Byte
      /\ Lo(HBlank) \in Byte /\ Lo(VBlank) \in Byte /\ Lo(HFP) \in Byte /\ Lo(HSYNC) \in Byte
      /\ Nibbles(s[1], HBlank) \in Byte /\ Nibbles(s[2], VBlank) \in Byte
  BY <1>1, LowBytes
<1> QED
  BY <1>1, <1>2, BytesEighteen DEF DetailedTiming

(* The mode whose sides are s, at a clock.                                 *)
ModeOf(s, clock) ==
    [hdisplay |-> s[1], hsync_start |-> s[1] + HFP, hsync_end |-> s[1] + HFP + HSYNC,
     htotal |-> s[1] + HBlank,
     vdisplay |-> s[2], vsync_start |-> s[2] + VFP, vsync_end |-> s[2] + VFP + VSYNC,
     vtotal |-> s[2] + VBlank, clock |-> clock]

(* A reader of the timing finds the mode and the size in millimetres.      *)
LEMMA DecodedIs ==
    ASSUME NEW s, s[1] \in Nat, s[2] \in Nat, s[1] < 4096, s[2] < 4096,
           NEW mm, mm = <<mm[1], mm[2]>>, mm[1] \in Nat, mm[2] \in Nat, mm[1] < 4096, mm[2] < 4096,
           NEW clock \in Nat, clock < 65536,
           NEW block, TimingAt(block, DetailedTiming(s, mm, clock))
    PROVE  Decoded(block) = [mode |-> ModeOf(s, 10 * clock), mm |-> mm]
<1> DEFINE b(i) == block[55 + i]
           w == b(2) + 256 * (b(4) \div 16)
           h == b(5) + 256 * (b(7) \div 16)
           hblank == b(3) + 256 * (b(4) % 16)
           vblank == b(6) + 256 * (b(7) % 16)
           hfp == b(8) + 256 * (b(11) \div 64)
           hsync == b(9) + 256 * ((b(11) \div 16) % 4)
           vfp == (b(10) \div 16) + 16 * ((b(11) \div 4) % 4)
           vsync == (b(10) % 16) + 16 * (b(11) % 4)
           c == 10 * (b(0) + 256 * b(1))
           m1 == b(12) + 256 * (b(14) \div 16)
           m2 == b(13) + 256 * (b(14) % 16)
<1>1. Decoded(block) =
          [mode |-> [hdisplay |-> w, hsync_start |-> w + hfp, hsync_end |-> w + hfp + hsync,
                     htotal |-> w + hblank,
                     vdisplay |-> h, vsync_start |-> h + vfp, vsync_end |-> h + vfp + vsync,
                     vtotal |-> h + vblank, clock |-> c],
           mm |-> <<m1, m2>>]
  BY DEF Decoded
<1> DEFINE t == DetailedTiming(s, mm, clock)
<1>2. /\ t[1] = Lo(clock) /\ t[2] = Hi(clock)
      /\ t[3] = Lo(s[1]) /\ t[4] = Lo(HBlank) /\ t[5] = Nibbles(s[1], HBlank)
      /\ t[6] = Lo(s[2]) /\ t[7] = Lo(VBlank) /\ t[8] = Nibbles(s[2], VBlank)
      /\ t[9] = Lo(HFP) /\ t[10] = Lo(HSYNC)
      /\ t[11] = (VFP % 16) * 16 + (VSYNC % 16) /\ t[12] = 0
      /\ t[13] = Lo(mm[1]) /\ t[14] = Lo(mm[2]) /\ t[15] = Nibbles(mm[1], mm[2])
  BY DEF DetailedTiming
<1> HIDE DEF t
<1>3. \A i \in 1..18 : block[54 + i] = t[i]
  BY DEF t, TimingAt
<1>4. \A i \in 0..14 : b(i) = t[i + 1]
  <2> SUFFICES ASSUME NEW i \in 0..14 PROVE b(i) = t[i + 1]
    OBVIOUS
  <2>1. PICK j \in 1..18 : j = i + 1 /\ 54 + j = 55 + i
    OBVIOUS
  <2>2. block[54 + j] = t[j]
    BY <1>3, <2>1
  <2> QED
    BY <2>1, <2>2
<1> HIDE DEF b
<1>5. /\ b(0) = t[1] /\ b(1) = t[2] /\ b(2) = t[3] /\ b(3) = t[4] /\ b(4) = t[5]
      /\ b(5) = t[6] /\ b(6) = t[7] /\ b(7) = t[8] /\ b(8) = t[9] /\ b(9) = t[10]
      /\ b(10) = t[11] /\ b(11) = t[12] /\ b(12) = t[13] /\ b(13) = t[14] /\ b(14) = t[15]
  BY <1>4
<1>6. c = 10 * clock
  BY <1>2, <1>5, SixteenBits
<1>7. w = s[1]
  BY <1>2, <1>5, Blanks, NibblesParts, TwelveBits
<1>8. h = s[2]
  BY <1>2, <1>5, Blanks, NibblesParts, TwelveBits
<1>9. hblank = HBlank
  BY <1>2, <1>5, Blanks, NibblesParts
<1>10. vblank = VBlank
  BY <1>2, <1>5, Blanks, NibblesParts
<1>11. hfp = HFP /\ hsync = HSYNC /\ vfp = VFP /\ vsync = VSYNC
  BY <1>2, <1>5, Blanks
<1>12. m1 = mm[1]
  BY <1>2, <1>5, NibblesParts, TwelveBits
<1>13. m2 = mm[2]
  BY <1>2, <1>5, NibblesParts, TwelveBits
<1> HIDE DEF c, w, h, hblank, vblank, hfp, hsync, vfp, vsync, m1, m2
<1> QED
  BY <1>1, <1>6, <1>7, <1>8, <1>9, <1>10, <1>11, <1>12, <1>13 DEF ModeOf

(* With one writer, the size is that of the orientation unless the writer  *)
(* has yet to store it; and the block that is attached to beadapanel is    *)
(* the one for the current orientation unless the writer is about to build *)
(* or publish it; the one it is about to publish is.                       *)
Now == [rotation |-> rotation, size |-> size]
EdidInv ==
    Cardinality(setup.writers) <= 1 =>
        /\ (\A w \in setup.writers : wpc[w] # "size") => size = Size(panel, rotation)
        /\ \A w \in setup.writers : wpc[w] = "size" => built[w].size = Size(panel, rotation)
        /\ setup.drv = "beada" =>
               /\ (\A w \in setup.writers : wpc[w] \in {"idle", "hotplug"}) => edid = Now
               /\ \A w \in setup.writers : wpc[w] = "publish" => built[w] = Now

(* A system with at most one writer has no two.                            *)
LEMMA OneWriter ==
    ASSUME setup \in Setups, Cardinality(setup.writers) <= 1,
           NEW v \in setup.writers, NEW w \in setup.writers
    PROVE  v = w
<1>1. setup.writers \subseteq {"a", "b"}
  BY SetupAssumption DEF SetupType
<1>2. SUFFICES ASSUME v # w PROVE FALSE
  OBVIOUS
<1>3. setup.writers = {"a", "b"}
  BY <1>1, <1>2
<1>4. Cardinality({"a"}) = 1 /\ IsFiniteSet({"a"})
  BY FS_Singleton
<1>5. Cardinality({"a"} \cup {"b"}) = Cardinality({"a"}) + 1
  BY <1>4, FS_AddElement
<1>6. {"a"} \cup {"b"} = {"a", "b"}
  OBVIOUS
<1> QED
  BY <1>3, <1>4, <1>5, <1>6

(* The invariant holds at first.                                           *)
LEMMA EdidInit ==
    ASSUME Init
    PROVE  EdidInv
<1>1. /\ edid = Now /\ size = Size(panel, rotation)
      /\ \A w \in setup.writers : wpc[w] = "idle"
  BY DEF Init, Now
<1> QED
  BY <1>1 DEF EdidInv

(* Every step keeps it.                                                    *)
LEMMA EdidStep ==
    ASSUME TypeInv, EdidInv, [Next]_vars
    PROVE  EdidInv'
<1>0. /\ setup' = setup /\ panel' = panel /\ setup \in Setups
      /\ wpc \in [setup.writers -> WriterPlaces] /\ DOMAIN built = setup.writers
      /\ setup.drv = "beada" => size = Size(panel, rotation)
  BY SetupKept DEF TypeInv
<1>1. ASSUME NEW w \in setup.writers, NEW r \in setup.turns, RotationStore(w, r)
      PROVE  EdidInv'
  <2>1. ASSUME Cardinality(setup.writers) <= 1, NEW v \in setup.writers
        PROVE  v = w
    BY <1>0, <2>1, OneWriter
  <2>2. CASE setup.drv = "beada"
    <3>1. wpc'[w] = "edid" /\ size' = Size(panel, rotation')
      BY <1>0, <1>1, <2>2 DEF RotationStore
    <3> QED
      BY <1>0, <2>1, <3>1 DEF EdidInv
  <2>3. CASE setup.drv # "beada"
    <3>1. wpc'[w] = "size" /\ built'[w].size = Size(panel, rotation')
      BY <1>0, <1>1, <2>3 DEF RotationStore
    <3> QED
      BY <1>0, <2>1, <2>3, <3>1 DEF EdidInv
  <2> QED
    BY <2>2, <2>3
<1>7. ASSUME NEW w \in setup.writers, SizeStore(w)
      PROVE  EdidInv'
  <2>1. ASSUME Cardinality(setup.writers) <= 1, NEW v \in setup.writers
        PROVE  v = w
    BY <1>0, <2>1, OneWriter
  <2>2. wpc[w] = "size" /\ setup.drv # "beada"
    BY <1>7 DEF SizeStore, TypeInv
  <2>3. wpc'[w] # "size" /\ size' = built[w].size /\ rotation' = rotation
    BY <1>0, <1>7 DEF SizeStore
  <2> QED
    BY <1>0, <2>1, <2>2, <2>3 DEF EdidInv
<1>2. ASSUME NEW w \in setup.writers, EdidBuild(w)
      PROVE  EdidInv'
  <2> USE <1>2 DEF EdidBuild, Now
  <2>1. rotation' = rotation /\ size' = size /\ Now' = Now
    OBVIOUS
  <2>2. wpc[w] = "edid" /\ wpc'[w] = "publish" /\ built'[w] = Now
    BY <1>0
  <2>3. ASSUME Cardinality(setup.writers) <= 1, NEW v \in setup.writers
        PROVE  v = w
    BY <1>0, <2>3, OneWriter
  <2> HIDE <1>2 DEF EdidBuild, Now
  <2> QED
    BY <1>0, <2>1, <2>2, <2>3 DEF EdidInv
<1>3. ASSUME NEW w \in setup.writers, EdidPublish(w)
      PROVE  EdidInv'
  <2> USE <1>3 DEF EdidPublish
  <2>1. rotation' = rotation /\ size' = size /\ Now' = Now
    BY DEF Now
  <2>2. wpc'[w] = "hotplug" /\ edid' = built[w] /\ wpc[w] = "publish"
    BY <1>0
  <2>3. ASSUME Cardinality(setup.writers) <= 1, NEW v \in setup.writers
        PROVE  v = w
    BY <1>0, <2>3, OneWriter
  <2> HIDE <1>3 DEF EdidPublish
  <2> QED
    BY <1>0, <2>1, <2>2, <2>3 DEF EdidInv
<1>4. ASSUME NEW w \in setup.writers, Hotplug(w)
      PROVE  EdidInv'
  <2> USE <1>4 DEF Hotplug
  <2>1. rotation' = rotation /\ size' = size /\ Now' = Now /\ edid' = edid
    BY DEF Now
  <2>2. wpc'[w] = "idle" /\ wpc[w] = "hotplug"
    BY <1>0
  <2>3. ASSUME Cardinality(setup.writers) <= 1, NEW v \in setup.writers
        PROVE  v = w
    BY <1>0, <2>3, OneWriter
  <2> HIDE <1>4 DEF Hotplug
  <2> QED
    BY <1>0, <2>1, <2>2, <2>3 DEF EdidInv
<1>5. CASE UNCHANGED <<rotation, size, wpc, edid, built>>
  BY <1>0, <1>5 DEF EdidInv, Now
<1>6. ASSUME Probe \/ UpdateStart \/ Blit \/ (\E text \in Texts : GammaStore(text))
             \/ GammaSend \/ (\E raw \in Levels : LevelStore(raw))
             \/ ScreenOff \/ ScreenOn \/ UNCHANGED vars
      PROVE  UNCHANGED <<rotation, size, wpc, edid, built>>
  BY <1>6 DEF Probe, UpdateStart, Blit, GammaStore, GammaSend, LevelStore, ScreenOff, ScreenOn,
              vars, modeVars
<1> QED
  BY <1>1, <1>2, <1>3, <1>4, <1>5, <1>6, <1>7 DEF Next

(* The clock of the block has the resolution of 10 kHz, and fits.          *)
LEMMA ClockFits ==
    ASSUME NEW s, s[1] \in Nat, s[2] \in Nat, s[1] <= 1920, s[2] <= 1920,
           NEW h \in Nat, NEW v \in Nat, h <= 200, v <= 50
    PROVE  LET x == Pixels(s, h, v)
           IN  /\ RoundDiv(x, 1000) \in Nat
               /\ RoundDiv(x, 10000) \in Nat /\ RoundDiv(x, 10000) < 65536
               /\ RoundDiv(x, 1000) - 10 * RoundDiv(x, 10000) \in -10..10
<1> DEFINE a == s[1] + h
           b == s[2] + v
           x == Pixels(s, h, v)
<1>1. a \in Nat /\ b \in Nat /\ a <= 2120 /\ b <= 1970
  OBVIOUS
<1>2. x = (a * b) * 60
  BY DEF Pixels, Refresh
<1> HIDE DEF a, b, x
<1>3. a * b \in Nat /\ a * b <= 2120 * 1970
  BY <1>1, MulGrows
<1> DEFINE y == a * b
<1> HIDE DEF y
<1>4. x \in Nat /\ x <= 250584000
  <2>1. y \in Nat /\ y <= 4176400 /\ x = y * 60
    BY <1>2, <1>3 DEF y
  <2> QED
    BY <2>1
<1>5. RoundDiv(x, 1000) = (x + 500) \div 1000 /\ RoundDiv(x, 10000) = (x + 5000) \div 10000
  BY DEF RoundDiv
<1>6. /\ (x + 500) \div 1000 \in Nat
      /\ (x + 5000) \div 10000 \in Nat /\ (x + 5000) \div 10000 < 65536
      /\ (x + 500) \div 1000 - 10 * ((x + 5000) \div 10000) \in -10..10
  BY <1>4
<1>7. /\ RoundDiv(x, 1000) \in Nat
      /\ RoundDiv(x, 10000) \in Nat /\ RoundDiv(x, 10000) < 65536
      /\ RoundDiv(x, 1000) - 10 * RoundDiv(x, 10000) \in -10..10
  BY <1>5, <1>6
<1> QED
  BY <1>7 DEF x

(* A block of any maker and product.                                       *)
BlockFrom(block, p, timing) ==
    \E mfg \in Nat : \E product, limits :
        /\ Bytes(product, 6) /\ Bytes(limits, 18)
        /\ block = Block(mfg, product, p, timing, limits)

(* Such a block is accepted, and holds its timing.                         *)
LEMMA BlockFromIs ==
    ASSUME NEW p, p.wm \in Nat, p.hm \in Nat, p.wm <= 255, p.hm <= 255,
           NEW timing, Bytes(timing, 18), NEW block, BlockFrom(block, p, timing)
    PROVE  Accepted(block) /\ TimingAt(block, timing)
<1>1. PICK mfg \in Nat : \E product, limits :
        /\ Bytes(product, 6) /\ Bytes(limits, 18)
        /\ block = Block(mfg, product, p, timing, limits)
  BY DEF BlockFrom
<1>2. PICK product, limits :
        /\ Bytes(product, 6) /\ Bytes(limits, 18)
        /\ block = Block(mfg, product, p, timing, limits)
  BY <1>1
<1> DEFINE other == Block(mfg, product, p, timing, limits)
<1>3. Accepted(other) /\ TimingAt(other, timing)
  BY <1>2, BlockIs
<1>4. block = other
  BY <1>2
<1> HIDE DEF other
<1> QED
  BY <1>3, <1>4, Zenon

(* What the block of a driver was built for, a reader decodes from it.     *)
LEMMA InStep ==
    ASSUME TypeInv, NEW s \in Sides,
           NEW mm \in {<<panel.wm, panel.hm>>, <<panel.hm, panel.wm>>},
           \/ /\ setup.drv = "beada" /\ edid = Now
              /\ s = size /\ mm = Millimetres(panel, rotation)
           \/ /\ setup.drv = "mpro"
              /\ s = <<panel.w, panel.h>> /\ mm = <<panel.wm, panel.hm>>
    PROVE  Describes(s, mm)
<1> DEFINE mode == BuildMode(s)
           block == EdidBlock(edid)
<1>1. /\ panel.w \in Nat /\ panel.h \in Nat /\ panel.wm \in Nat /\ panel.hm \in Nat
      /\ panel.w <= 1920 /\ panel.h <= 1920 /\ panel.wm <= 255 /\ panel.hm <= 255
  <2>1. SmallPanel(panel)
    BY DetectedPanel DEF TypeInv
  <2> QED
    BY <2>1, PanelSides DEF TypeInv, SmallPanel
<1>2. /\ s = <<s[1], s[2]>> /\ s[1] \in Nat /\ s[2] \in Nat
      /\ s[1] <= 1920 /\ s[2] <= 1920
  BY <1>1 DEF Sides
<1>3. /\ mm = <<mm[1], mm[2]>> /\ mm[1] \in Nat /\ mm[2] \in Nat
      /\ mm[1] < 4096 /\ mm[2] < 4096
  BY <1>1
<1>4. mode = ModeOf(s, mode.clock)
  BY DEF BuildMode, ModeOf
<1>5. PICK clock \in Nat :
        /\ clock < 65536
        /\ mode.clock - 10 * clock \in -10..10
        /\ BlockFrom(block, panel, DetailedTiming(s, mm, clock))
  <2>1. setup.drv \in {"beada", "mpro"}
    OBVIOUS
  <2>2. CASE setup.drv = "beada"
    <3> DEFINE clock == RoundDiv(Pixels(s, HBlank, VBlank), 10000)
               product == <<Lo(panel.w), Hi(panel.w), Lo(panel.w),
                            Lo(panel.h), Hi(panel.w), Hi(panel.h)>>
               limits == RangeLimits(RoundDiv(Pixels(s, 200, 50), 10000))
    <3>1. /\ RoundDiv(Pixels(s, HBlank, VBlank), 1000) \in Nat
          /\ clock \in Nat /\ clock < 65536
          /\ RoundDiv(Pixels(s, HBlank, VBlank), 1000) - 10 * clock \in -10..10
      <4>1. HBlank \in Nat /\ VBlank \in Nat /\ HBlank <= 200 /\ VBlank <= 50
        BY Blanks
      <4> QED
        BY <1>2, <4>1, ClockFits
    <3>2. mode.clock = RoundDiv(Pixels(s, HBlank, VBlank), 1000)
      BY <2>2 DEF BuildMode
    <3>3. Bytes(limits, 18)
      <4>1. RoundDiv(Pixels(s, 200, 50), 10000) \in Nat
        BY <1>2, ClockFits
      <4> QED
        BY <4>1, BytesLimits
    <3>4. Bytes(product, 6)
      <4>1. /\ Lo(panel.w) \in Byte /\ Hi(panel.w) \in Byte
            /\ Lo(panel.h) \in Byte /\ Hi(panel.h) \in Byte
        BY <1>1, LowBytes
      <4> QED
        BY <4>1 DEF Bytes
    <3>5. block = Block(15109, product, panel, DetailedTiming(s, mm, clock), limits)
      BY <2>2 DEF EdidBlock, BeadaEdid, Now
    <3> HIDE DEF clock, product, limits, block, mode
    <3>6. 15109 \in Nat
      OBVIOUS
    <3>7. mode.clock - 10 * clock \in -10..10
      BY <3>1, <3>2
    <3>8. BlockFrom(block, panel, DetailedTiming(s, mm, clock))
      BY <3>3, <3>4, <3>5, <3>6 DEF BlockFrom
    <3> QED
      BY <3>1, <3>7, <3>8
  <2>3. CASE setup.drv = "mpro"
    <3> DEFINE screen == setup.device.code
               product == <<Lo(screen), Hi(screen), Lo(screen), Hi(screen), 0, 0>>
               limits == RangeLimits(2972)
    <3>1. mode.clock = 29729
      BY <2>3 DEF BuildMode
    <3>2. Bytes(limits, 18)
      BY BytesLimits
    <3>3. Bytes(product, 6)
      <4>1. screen \in Nat
        BY SetupAssumption DEF TypeInv, SetupType, Device
      <4>2. Lo(screen) \in Byte /\ Hi(screen) \in Byte /\ 0 \in Byte
        BY <4>1, LowBytes, SmallBytes
      <4> QED
        BY <4>2 DEF Bytes
    <3>4. s = <<panel.w, panel.h>> /\ mm = <<panel.wm, panel.hm>>
      BY <2>3
    <3>5. block = Block(23011, product, panel, DetailedTiming(s, mm, 2972), limits)
      BY <2>3, <3>4 DEF EdidBlock, MproEdid
    <3> HIDE DEF product, limits, block, mode
    <3>6. 23011 \in Nat /\ 2972 \in Nat /\ 2972 < 65536 /\ 29729 - 10 * 2972 \in -10..10
      OBVIOUS
    <3>7. BlockFrom(block, panel, DetailedTiming(s, mm, 2972))
      BY <3>2, <3>3, <3>5, <3>6 DEF BlockFrom
    <3> QED
      BY <3>1, <3>6, <3>7
  <2> QED
    BY <2>1, <2>2, <2>3
<1> DEFINE timing == DetailedTiming(s, mm, clock)
<1> HIDE DEF block, mode
<1>6. Bytes(timing, 18)
  BY <1>2, <1>3, TimingBytes
<1>7. Accepted(block) /\ TimingAt(block, timing)
  BY <1>1, <1>5, <1>6, BlockFromIs
<1>8. Decoded(block) = [mode |-> ModeOf(s, 10 * clock), mm |-> mm]
  <2>1. s[1] < 4096 /\ s[2] < 4096
    BY <1>2
  <2>2. clock < 65536
    BY <1>5
  <2> QED
    BY <1>2, <1>3, <1>7, <2>1, <2>2, DecodedIs
<1>9. /\ Decoded(block).mode = ModeOf(s, 10 * clock)
      /\ Decoded(block).mode.clock = 10 * clock
      /\ Decoded(block).mm = mm
  BY <1>8 DEF ModeOf
<1>10. [mode EXCEPT !.clock = 10 * clock] = ModeOf(s, 10 * clock)
  BY <1>4 DEF ModeOf
<1> HIDE DEF timing
<1>11. Decoded(block).mode = [mode EXCEPT !.clock = Decoded(block).mode.clock]
  BY <1>9, <1>10
<1>12. mode.clock - Decoded(block).mode.clock \in -10..10
  BY <1>5, <1>9
<1> QED
  BY <1>7, <1>9, <1>11, <1>12 DEF Accepted, Describes, block, mode

(* For every panel, and every order of the stores and commits, the block   *)
(* attached to beadapanel after a write to rotation has run to its end     *)
(* decodes to the mode and the size of the orientation, as long as one     *)
(* process writes to it (beada_edid_update, write_detailed_timing and the  *)
(* comment at the top of beada-drm-edid.c).  That of mpro decodes to the   *)
(* mode and the size of the panel as it is mounted, whatever is written    *)
(* (mpro_drm__create_edid): after a quarter turn that is not the mode.     *)
(* With one writer the size follows the orientation in all three drivers.  *)
THEOREM EdidTheorem == Spec => []EdidInStep
<1> DEFINE Inv == TypeInv /\ EdidInv
<1>1. Init => Inv
  BY TypeInit, EdidInit
<1>2. Inv /\ [Next]_vars => Inv'
  BY TypeStep, EdidStep
<1>3. Inv => EdidInStep
  <2> SUFFICES ASSUME TypeInv, EdidInv
               PROVE  EdidInStep
    OBVIOUS
  <2>1. ASSUME setup.drv = "beada", Cardinality(setup.writers) <= 1, Written
        PROVE  Describes(size, Millimetres(panel, rotation))
    <3>1. edid = Now /\ size \in Sides
      BY <2>1 DEF EdidInv, TypeInv, Written
    <3>2. Millimetres(panel, rotation) \in {<<panel.wm, panel.hm>>, <<panel.hm, panel.wm>>}
      BY DEF Millimetres
    <3> QED
      BY <2>1, <3>1, <3>2, InStep
  <2>2. ASSUME setup.drv = "mpro"
        PROVE  Describes(<<panel.w, panel.h>>, <<panel.wm, panel.hm>>)
    <3>1. <<panel.w, panel.h>> \in Sides
      BY DEF Sides
    <3> QED
      BY <2>2, <3>1, InStep
  <2>3. ASSUME Cardinality(setup.writers) <= 1, Written
        PROVE  size = Size(panel, rotation)
    BY <2>3 DEF EdidInv, Written
  <2> QED
    BY <2>1, <2>2, <2>3 DEF EdidInStep
<1> HIDE DEF Inv
<1> QED
  BY <1>1, <1>2, <1>3, PTL DEF Spec
=============================================================================
