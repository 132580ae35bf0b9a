--------------------------- MODULE UfsProvisionProofs ---------------------------
(***************************************************************************)
(* What UfsProvision does for every number of logical units, every         *)
(* geometry and every configuration that LU_conf may ask for.              *)
(***************************************************************************)
EXTENDS UfsProvision, WellFoundedInduction, TLAPS

-------------------------------------------------------------------------------
(* Sums over the units.  A claim about all sums is proved by a smallest     *)
(* counterexample.                                                          *)

LEMMA Smallest ==
  ASSUME NEW T, T \subseteq Nat, T # {}
  PROVE  \E x \in T : \A y \in T : x <= y
<1>1. PICK x \in T : \A y \in T : <<y, x>> \notin OpToRel(<, Nat)
  BY NatLessThanWellFounded, WFMin
<1>2. \A y \in T : ~(y < x)
  BY <1>1 DEF OpToRel
<1> QED BY <1>2

LEMMA Numbers ==
  /\ NumLuns \in Nat /\ NumLuns > 0 /\ 0 \in Luns /\ NumLuns \in 0 .. NumLuns
  /\ \A k \in 1 .. NumLuns : k - 1 \in Luns /\ k - 1 \in 0 .. NumLuns
  BY ProvisionAssumption DEF Luns

\* The sums exist up to n ...
Summed(f, u, n) ==
  f = [k \in 0 .. n |-> IF k = 0 THEN 0 ELSE f[k - 1] + u[k - 1]]

Summable(u, n) == \E f : Summed(f, u, n)

LEMMA SumsExist ==
  ASSUME NEW u
  PROVE  Summable(u, NumLuns)
<1> DEFINE Bad == {n \in 0 .. NumLuns : ~Summable(u, n)}
<1>1. Bad = {}
  <2>1. SUFFICES ASSUME Bad # {} PROVE FALSE
    OBVIOUS
  <2>2. Bad \subseteq Nat
    BY Numbers
  <2>3. PICK m \in Bad : \A n \in Bad : m <= n
    BY <2>1, <2>2, Smallest
  <2>4. m # 0
    <3>1. Summed([k \in 0 .. 0 |-> 0], u, 0)
      BY DEF Summed
    <3> QED BY <3>1 DEF Summable
  <2>5. PICK f : Summed(f, u, m - 1)
    <3>1. m - 1 \in 0 .. NumLuns /\ ~(m <= m - 1)
      BY <2>4, Numbers
    <3>2. m - 1 \notin Bad
      BY <2>3, <3>1
    <3> QED BY <3>1, <3>2 DEF Summable
  <2>6. Summed([k \in 0 .. m |-> IF k = m THEN f[m - 1] + u[m - 1] ELSE f[k]], u, m)
    BY <2>2, <2>4, <2>5 DEF Summed
  <2> QED BY <2>6 DEF Summable
<1> QED BY <1>1, Numbers

\* ... so that Sums is what it is meant to be.
LEMMA SumsAre ==
  ASSUME NEW u
  PROVE  /\ Sums(u)[0] = 0
         /\ \A k \in 1 .. NumLuns : Sums(u)[k] = Sums(u)[k - 1] + u[k - 1]
<1>1. Summed(Sums(u), u, NumLuns)
  BY SumsExist DEF Summable, Summed, Sums
<1>2. \A k \in 0 .. NumLuns :
        Sums(u)[k] = IF k = 0 THEN 0 ELSE Sums(u)[k - 1] + u[k - 1]
  BY <1>1 DEF Summed
<1>3. 0 \in 0 .. NumLuns /\ \A k \in 1 .. NumLuns : k \in 0 .. NumLuns /\ k # 0
  BY Numbers
<1> QED BY <1>2, <1>3

LEMMA SumsType ==
  ASSUME NEW u \in [Luns -> Nat], NEW k \in 0 .. NumLuns
  PROVE  Sums(u)[k] \in Nat
<1> DEFINE Bad == {n \in 0 .. NumLuns : Sums(u)[n] \notin Nat}
<1>1. SUFFICES ASSUME Bad # {} PROVE FALSE
  OBVIOUS
<1>2. Bad \subseteq Nat
  BY Numbers
<1>3. PICK m \in Bad : \A n \in Bad : m <= n
  BY <1>1, <1>2, Smallest
<1>4. m # 0 /\ m \in 1 .. NumLuns
  BY SumsAre
<1>5. m - 1 \in 0 .. NumLuns /\ ~(m <= m - 1)
  BY <1>4, Numbers
<1>6. Sums(u)[m - 1] \in Nat /\ u[m - 1] \in Nat
  BY <1>3, <1>4, <1>5, Numbers
<1> QED BY <1>4, <1>6, SumsAre

\* A unit is part of the sum, and larger units make a larger one.
LEMMA SumsMonotone ==
  ASSUME NEW u \in [Luns -> Nat], NEW v \in [Luns -> Nat],
         \A l \in Luns : u[l] <= v[l],
         NEW k \in 0 .. NumLuns
  PROVE  Sums(u)[k] <= Sums(v)[k]
<1> DEFINE Bad == {n \in 0 .. NumLuns : ~(Sums(u)[n] <= Sums(v)[n])}
<1>1. SUFFICES ASSUME Bad # {} PROVE FALSE
  OBVIOUS
<1>2. Bad \subseteq Nat
  BY Numbers
<1>3. PICK m \in Bad : \A n \in Bad : m <= n
  BY <1>1, <1>2, Smallest
<1>4. m # 0 /\ m \in 1 .. NumLuns
  BY SumsAre
<1>5. m - 1 \in 0 .. NumLuns /\ ~(m <= m - 1) /\ m - 1 \in Luns
  BY <1>4, Numbers
<1>6. Sums(u)[m - 1] <= Sums(v)[m - 1]
  BY <1>3, <1>5
<1>7. /\ Sums(u)[m - 1] \in Nat /\ Sums(v)[m - 1] \in Nat
      /\ u[m - 1] \in Nat /\ v[m - 1] \in Nat /\ u[m - 1] <= v[m - 1]
  BY <1>5, SumsType
<1> QED BY <1>4, <1>6, <1>7, SumsAre

LEMMA SumsAbove ==
  ASSUME NEW u \in [Luns -> Nat], NEW l \in Luns
  PROVE  u[l] <= Sums(u)[NumLuns]
<1> DEFINE Bad == {n \in 0 .. NumLuns : l < n /\ ~(u[l] <= Sums(u)[n])}
<1>1. SUFFICES ASSUME Bad # {} PROVE FALSE
  BY Numbers DEF Luns
<1>2. Bad \subseteq Nat
  BY Numbers
<1>3. PICK m \in Bad : \A n \in Bad : m <= n
  BY <1>1, <1>2, Smallest
<1>4. m \in 1 .. NumLuns
  BY DEF Luns
<1>5. m - 1 \in 0 .. NumLuns /\ ~(m <= m - 1) /\ m - 1 \in Luns
  BY <1>4, Numbers
<1>6. l = m - 1 \/ u[l] <= Sums(u)[m - 1]
  BY <1>3, <1>5 DEF Luns
<1>7. Sums(u)[m - 1] \in Nat /\ u[m - 1] \in Nat /\ u[l] \in Nat
  BY <1>5, SumsType
<1> QED BY <1>4, <1>6, <1>7, SumsAre

\* The first unit and all the others.
LEMMA SumsSplit ==
  ASSUME NEW u \in [Luns -> Nat]
  PROVE  Sums(u)[NumLuns] = u[0] + Sums([u EXCEPT ![0] = 0])[NumLuns]
<1> DEFINE v == [u EXCEPT ![0] = 0]
           Bad == {n \in 1 .. NumLuns : Sums(u)[n] # u[0] + Sums(v)[n]}
<1>1. SUFFICES ASSUME Bad # {} PROVE FALSE
  <2>1. NumLuns \in 1 .. NumLuns
    BY Numbers
  <2> QED BY <2>1
<1>2. Bad \subseteq Nat
  BY Numbers
<1>3. PICK m \in Bad : \A n \in Bad : m <= n
  BY <1>1, <1>2, Smallest
<1>4. m \in 1 .. NumLuns
  OBVIOUS
<1>5. m - 1 \in 0 .. NumLuns /\ ~(m <= m - 1) /\ m - 1 \in Luns
  BY <1>4, Numbers
<1>6. v \in [Luns -> Nat] /\ v[0] = 0 /\ (m # 1 => v[m - 1] = u[m - 1])
  BY <1>5, Numbers
<1>7. /\ Sums(u)[m - 1] \in Nat /\ u[m - 1] \in Nat /\ u[0] \in Nat
      /\ Sums(v)[m - 1] \in Nat /\ v[m - 1] \in Nat
  BY <1>5, <1>6, SumsType, Numbers
<1>8. Sums(u)[m] = Sums(u)[m - 1] + u[m - 1] /\ Sums(v)[m] = Sums(v)[m - 1] + v[m - 1]
  BY <1>4, SumsAre
<1>9. CASE m = 1
  BY <1>6, <1>7, <1>8, <1>9, SumsAre
<1>10. CASE m # 1
  <2>1. Sums(u)[m - 1] = u[0] + Sums(v)[m - 1]
    <3>1. m - 1 \in 1 .. NumLuns
      BY <1>4, <1>10, Numbers
    <3> QED BY <1>3, <1>5, <3>1
  <2> QED BY <2>1, <1>6, <1>7, <1>8, <1>10
<1> QED BY <1>9, <1>10
-------------------------------------------------------------------------------
(* Quotients                                                               *)

LEMMA QuotientIs ==
  ASSUME NEW a \in Nat, NEW b \in Nat, b > 0
  PROVE  /\ a \div b \in Nat /\ a % b \in Nat /\ a % b < b
         /\ a = b * (a \div b) + (a % b)
  OBVIOUS

LEMMA Times ==
  ASSUME NEW x \in Nat, NEW y \in Nat
  PROVE  x * y \in Nat /\ x * (y + 1) = x * y + x
  OBVIOUS

LEMMA QuotientUnique ==
  ASSUME NEW a \in Nat, NEW b \in Nat, b > 0, NEW q \in Nat,
         b * q <= a, a < b * q + b
  PROVE  q = a \div b
<1> DEFINE d == a \div b
<1>1. d \in Nat /\ b * d <= a /\ a < b * d + b
  BY QuotientIs
<1> HIDE DEF d
<1>2. ASSUME NEW x \in Nat, NEW y \in Nat, x < y
      PROVE  b * x + b <= b * y
  <2>1. PICK z \in Nat : y = x + 1 + z
    <3>1. y - x - 1 \in Nat /\ y = x + 1 + (y - x - 1)
      BY <1>2
    <3> QED BY <3>1
  <2>2. b * y = b * x + b + b * z /\ b * z \in Nat /\ b * x \in Nat
    BY <2>1
  <2> QED BY <2>2
<1>3. b * q \in Nat /\ b * d \in Nat
  BY <1>1
<1>4. ~(q < d)
  BY <1>1, <1>2, <1>3
<1>5. ~(d < q)
  BY <1>1, <1>2, <1>3
<1> QED BY <1>1, <1>4, <1>5 DEF d

LEMMA QuotientFits ==
  ASSUME NEW a \in Nat, NEW b \in Nat, b > 0, NEW q \in Nat
  PROVE  b * q <= a /\ a < b * q + b <=> q = a \div b
<1>1. ASSUME q = a \div b PROVE b * q <= a /\ a < b * q + b
  <2>1. a = b * q + (a % b) /\ a % b \in Nat /\ a % b < b /\ b * q \in Nat
    BY <1>1, QuotientIs
  <2> QED BY <2>1
<1> QED BY <1>1, QuotientUnique

\* The quotient of the successor.
LEMMA NoCarryOut ==
  ASSUME NEW n \in Nat, NEW b \in Nat, b > 0, (n + 1) % b # 0
  PROVE  (n - (n % b)) + ((n + 1) % b) = n + 1
<1> DEFINE q == n \div b
           r == n % b
           p == (n + 1) \div b
           s == (n + 1) % b
<1>1. q \in Nat /\ r \in Nat /\ r < b /\ n = b * q + r
  BY QuotientIs
<1>2. p \in Nat /\ s \in Nat /\ s < b /\ n + 1 = b * p + s /\ s # 0
  BY QuotientIs
<1> HIDE DEF q, r, p, s
<1>3. b * p \in Nat /\ b * q \in Nat
  BY <1>1, <1>2
<1>4. b * p <= n /\ n < b * p + b
  BY <1>2, <1>3
<1>5. p = q
  BY <1>2, <1>4, QuotientUnique DEF q
<1>6. s = r + 1 /\ n - r = b * q
  BY <1>1, <1>2, <1>3, <1>5
<1>7. (n - r) + s = n + 1
  BY <1>1, <1>2, <1>3, <1>6
<1> QED BY <1>7 DEF r, s

-------------------------------------------------------------------------------
(* What LU_conf asks for                                                   *)

\* Unit l of a device that is configured as wanted.
AsAsked(t, l) ==
  [on |-> t[l].on, boot |-> t[l].boot, enhanced |-> t[l].enhanced,
   units |-> IF t[l].mb = 0 THEN (IF t[l].on THEN All - InUse(t) ELSE 0)
                            ELSE Needed(t[l])]

LEMMA GeometryIs ==
  /\ Au \in Nat /\ Au > 0
  /\ All \in Nat /\ Div(Geometry.total, Geometry.segment) = All
  /\ Geometry.factor \in Nat /\ Geometry.segment \in Nat /\ Geometry.segment # 0
  /\ Geometry.total \in Nat /\ Geometry.alloc \in Nat
  /\ All < Word /\ Geometry.segment < Word
<1>1. /\ Geometry.factor \in Nat /\ Geometry.segment \in Nat /\ Geometry.segment > 0
      /\ Geometry.total \in Nat /\ Geometry.alloc \in Nat /\ Geometry.alloc > 0
      /\ Geometry.total < Word /\ Geometry.segment < Word /\ Word \in Nat
  <2>1. /\ Word \in Nat /\ Byte \in Nat
        /\ Geometry \in GeometryDesc /\ Geometry.segment > 0 /\ Geometry.alloc > 0
    BY ProvisionAssumption
  <2> QED BY <2>1 DEF GeometryDesc
<1>2. Au \in Nat /\ Au > 0
  BY <1>1 DEF Au
<1>3. All \in Nat /\ All <= Geometry.total
  <2>1. /\ All \in Nat /\ Geometry.total % Geometry.segment \in Nat
        /\ Geometry.total = Geometry.segment * All + (Geometry.total % Geometry.segment)
    BY <1>1, QuotientIs DEF All
  <2>2. Geometry.segment = (Geometry.segment - 1) + 1 /\ Geometry.segment - 1 \in Nat
    BY <1>1
  <2>3. Geometry.segment * All = (Geometry.segment - 1) * All + All
    BY <2>1, <2>2
  <2>4. (Geometry.segment - 1) * All \in Nat
    BY <2>1, <2>2
  <2> QED BY <2>1, <2>3, <2>4
<1> QED BY <1>1, <1>2, <1>3 DEF Au, All, Div

LEMMA AskedType ==
  ASSUME NEW t \in Targets, NEW l \in Luns
  PROVE  /\ t[l] \in Wanted /\ t[l].on \in BOOLEAN /\ t[l].boot \in 0 .. 2
         /\ t[l].enhanced \in BOOLEAN /\ t[l].mb \in Nat
         /\ 2048 * t[l].mb \in Nat /\ Size(t[l]) \in Nat
         /\ t[l].enhanced => Size(t[l]) = 2048 * t[l].mb * Geometry.factor
         /\ ~t[l].enhanced => Size(t[l]) = 2048 * t[l].mb
<1>1. t[l] \in Wanted
  BY ProvisionAssumption
<1>2. /\ t[l].on \in BOOLEAN /\ t[l].boot \in 0 .. 2
      /\ t[l].enhanced \in BOOLEAN /\ t[l].mb \in Nat
  BY <1>1 DEF Wanted
<1>3. 2048 * t[l].mb \in Nat
  BY <1>2
<1>4. CASE t[l].enhanced
  <2>1. Size(t[l]) = 2048 * t[l].mb * Geometry.factor
    BY <1>4 DEF Size
  <2>2. 2048 * t[l].mb * Geometry.factor \in Nat
    BY <1>3, GeometryIs, Times
  <2> QED BY <1>1, <1>2, <1>3, <1>4, <2>1, <2>2
<1>5. CASE ~t[l].enhanced
  <2>1. Size(t[l]) = 2048 * t[l].mb
    BY <1>3, <1>5 DEF Size
  <2> QED BY <1>1, <1>2, <1>3, <1>5, <2>1
<1> QED BY <1>2, <1>4, <1>5

LEMMA NeededType ==
  ASSUME NEW t \in Targets
  PROVE  /\ [l \in Luns |-> Needed(t[l])] \in [Luns -> Nat]
         /\ \A l \in Luns : Needed(t[l]) \in Nat /\ Needed(t[l]) <= InUse(t)
         /\ InUse(t) \in Nat
<1>1. \A l \in Luns : Needed(t[l]) \in Nat
  BY AskedType, GeometryIs, QuotientIs DEF Needed
<1> DEFINE u == [l \in Luns |-> Needed(t[l])]
<1>2. u \in [Luns -> Nat]
  BY <1>1
<1>3. \A l \in Luns : u[l] <= Sums(u)[NumLuns]
  BY <1>2, SumsAbove
<1>4. Sums(u)[NumLuns] \in Nat
  BY <1>2, SumsType, Numbers
<1> QED BY <1>1, <1>2, <1>3, <1>4 DEF InUse

\* The sizes that fit are those Needed computes.
LEMMA FitsNeeded ==
  ASSUME NEW t \in Targets, NEW l \in Luns, t[l].mb # 0, NEW n \in Nat
  PROVE  (IF t[l].enhanced THEN n * Au <= Size(t[l]) /\ Size(t[l]) < (n + 1) * Au
          ELSE Size(t[l]) <= n * Au /\ n * Au < Size(t[l]) + Au)
         <=> n = Needed(t[l])
<1> DEFINE a == Size(t[l])
<1>1. a \in Nat /\ Au \in Nat /\ Au > 0
  BY AskedType, GeometryIs
<1> HIDE DEF a
<1>2. n * Au = Au * n /\ (n + 1) * Au = Au * n + Au /\ Au * n \in Nat
  BY <1>1
<1>3. CASE t[l].enhanced
  <2>1. Au * n <= a /\ a < Au * n + Au <=> n = a \div Au
    BY <1>1, QuotientFits
  <2>2. Needed(t[l]) = a \div Au
    <3>1. a \div Au \in Nat
      BY <1>1, QuotientIs
    <3> QED BY <1>3, <3>1 DEF Needed, a
  <2> QED BY <1>2, <1>3, <2>1, <2>2 DEF a
<1>4. CASE ~t[l].enhanced
  <2> DEFINE q == a \div Au
             r == a % Au
  <2>1. q \in Nat /\ r \in Nat /\ r < Au /\ a = Au * q + r
    BY <1>1, QuotientIs
  <2> HIDE DEF q, r
  <2>2. Au * q \in Nat /\ Au * (q + 1) = Au * q + Au
    BY <1>1, <2>1, Times
  <2>3. ASSUME a <= Au * n, Au * n < a + Au
        PROVE  n = q + (IF r # 0 THEN 1 ELSE 0)
    <3>1. CASE r = 0
      BY <1>1, <1>2, <2>1, <2>3, <3>1, QuotientUnique DEF q
    <3>2. CASE r # 0
      <4>1. n # 0
        BY <1>1, <2>1, <2>2, <2>3, <3>2
      <4>2. n - 1 \in Nat /\ Au * (n - 1) = Au * n - Au
        BY <1>1, <4>1
      <4>3. Au * (n - 1) <= a /\ a < Au * (n - 1) + Au
        <5>1. Au * n # a
          <6>1. ASSUME Au * n = a PROVE FALSE
            <7>1. n = q
              BY <1>1, <1>2, <6>1, QuotientUnique DEF q
            <7> QED BY <2>1, <2>2, <3>2, <6>1, <7>1
          <6> QED BY <6>1
        <5> QED BY <1>1, <1>2, <2>3, <4>2, <5>1
      <4>4. n - 1 = q
        BY <1>1, <4>2, <4>3, QuotientUnique DEF q
      <4> QED BY <3>2, <4>4, <2>1
    <3> QED BY <3>1, <3>2
  <2>4. ASSUME n = q + (IF r # 0 THEN 1 ELSE 0)
        PROVE  a <= Au * n /\ Au * n < a + Au
    BY <1>1, <2>1, <2>2, <2>4
  <2>5. Needed(t[l]) = q + (IF r # 0 THEN 1 ELSE 0)
    BY <1>4 DEF Needed, q, r, a
  <2> QED BY <1>2, <1>4, <2>3, <2>4, <2>5 DEF a
<1> QED BY <1>3, <1>4, AskedType
-------------------------------------------------------------------------------
(* Types                                                                   *)

LEMMA UnitsOfType ==
  ASSUME NEW c \in [Luns -> Configured], NEW luns
  PROVE  UnitsOf(c, luns) \in Nat
<1> DEFINE u == [l \in Luns |-> IF l \in luns THEN c[l].units ELSE 0]
<1>1. \A l \in Luns : c[l].units \in Nat
  BY ProvisionAssumption DEF Configured
<1>2. u \in [Luns -> Nat]
  BY <1>1
<1> QED BY <1>2, SumsType, Numbers DEF UnitsOf

LEMMA SizesType ==
  ASSUME NEW g \in {Geometry, Unread}, NEW mb \in Nat
  PROVE  /\ EnhancedUnits(g, mb) \in Nat /\ NormalUnits(g, mb) \in Nat
         /\ Div(g.total, g.segment) \in Nat
<1>1. g.total \in Nat /\ g.segment \in Nat /\ g.alloc \in Nat /\ g.factor \in Nat
  BY GeometryIs DEF Unread
<1>2. \A n \in Nat : n % Word \in Nat
  BY ProvisionAssumption
<1>3. AllocSectors(g) \in Nat /\ Sectors(mb) \in Nat
  BY <1>1, <1>2, Times DEF AllocSectors, Sectors
<1>4. EnhancedSectors(g, mb) \in Nat
  BY <1>1, <1>2, <1>3, Times DEF EnhancedSectors
<1>5. \A a \in Nat, b \in Nat : Div(a, b) \in Nat
  BY QuotientIs DEF Div
<1> QED BY <1>1, <1>3, <1>4, <1>5 DEF EnhancedUnits, NormalUnits

LEMMA WordIs ==
  /\ Byte \in Nat /\ Byte > 0 /\ Word \in Nat /\ Word > 0
  /\ \A n \in Int : n % Word \in 0 .. Word - 1
  /\ \A n \in Nat : n < Word => n % Word = n
  BY ProvisionAssumption

LEMMA EditedType ==
  ASSUME want \in Targets, NEW g \in {Geometry, Unread},
         NEW c \in [Luns -> Configured], NEW l \in Luns
  PROVE  EditedUnits(g, c, l) \in Int
<1>1. want[l].mb \in Nat
  BY AskedType
<1>2. \A n \in Nat : PlusOne(n) \in Int
  BY WordIs DEF PlusOne
<1>3. Rest(g, UnitsOf(c, Luns \ {l})) \in Int
  BY UnitsOfType, SizesType, WordIs DEF Rest
<1> QED BY <1>1, <1>2, <1>3, SizesType DEF EditedUnits

LEMMA StepType == TypeOK /\ [Next]_vars => TypeOK'
<1> SUFFICES ASSUME TypeOK, [Next]_vars PROVE TypeOK'
  OBVIOUS
<1> USE DEF TypeOK
<1>1. CASE Compare
  <2>1. NumLuns - 1 \in Luns /\ (retry # MaxRetries => retry + 1 \in 0 .. MaxRetries)
    BY ProvisionAssumption, Numbers DEF Luns
  <2> QED BY <1>1, <2>1 DEF Compare, Leave, device, copies
<1>2. ASSUME NEW o \in Outcomes, Ended(o) PROVE trouble' \subseteq Outcomes
  BY <1>2 DEF Ended
<1>3. ASSUME NEW o \in Outcomes, ReadDevice(o) PROVE TypeOK'
  BY <1>2, <1>3 DEF ReadDevice, CheckGoesOn, Leave, device, copies
<1>4. ASSUME NEW o \in Outcomes, ReadGeometry(o) PROVE TypeOK'
  BY <1>2, <1>4 DEF ReadGeometry, CheckGoesOn, Leave, device
<1>5. ASSUME NEW o \in Outcomes, ReadConfig(o) PROVE TypeOK'
  BY <1>2, <1>5 DEF ReadConfig, CheckGoesOn, Leave, device
<1>6. ASSUME NEW o \in Outcomes, ReadBootEn(o) PROVE TypeOK'
  BY <1>2, <1>6 DEF ReadBootEn, CheckGoesOn, Leave, device
<1>7. ASSUME NEW o \in Outcomes, Edit(o) PROVE TypeOK'
  <2>1. geo' \in {Geometry, Unread}
    BY <1>7 DEF Edit
  <2>2. lun' \in Luns
    BY <1>7, Numbers DEF Edit, Luns
  <2>3. conf' \in [Luns -> Configured]
    <3>1. EditedUnits(geo', conf, lun) % Word \in 0 .. Word - 1
      BY <2>1, EditedType, WordIs
    <3>2. [on |-> want[lun].on, boot |-> want[lun].boot,
           enhanced |-> want[lun].enhanced,
           units |-> EditedUnits(geo', conf, lun) % Word] \in Configured
      BY <3>1, AskedType DEF Configured
    <3> QED BY <1>7, <3>2 DEF Edit
  <2> QED BY <1>2, <1>7, <2>1, <2>2, <2>3 DEF Edit, device
<1>8. ASSUME NEW o \in Outcomes, WriteConfig(o) PROVE TypeOK'
  BY <1>2, <1>8 DEF WriteConfig, copies
<1>9. ASSUME NEW o \in Outcomes, EnableBoot(o) PROVE TypeOK'
  BY <1>2, <1>9 DEF EnableBoot
<1>10. CASE UNCHANGED vars
  BY <1>10 DEF vars, device, copies
<1> QED BY <1>1, <1>3, <1>4, <1>5, <1>6, <1>7, <1>8, <1>9, <1>10 DEF Next, Query

LEMMA InitType == Init => TypeOK
<1>1. Empty \in Configured
  BY WordIs DEF Empty, Configured
<1>2. /\ 0 \in 0 .. MaxRetries /\ 0 \in Luns
      /\ Targets \subseteq [Luns -> Wanted] /\ Layouts \subseteq [Luns -> Configured]
  BY ProvisionAssumption, Numbers
<1>3. Init => conf \in [Luns -> Configured] /\ dev \in [Luns -> Configured]
  BY <1>1, <1>2 DEF Init
<1> QED BY <1>2, <1>3 DEF Init, TypeOK

(* The variables keep their types, whatever LU_conf, the geometry and the   *)
(* answers of the device: in particular no more than retry_count attempts   *)
(* are made, and every size stays within a word.                            *)
THEOREM ProvisionTypeCorrect == Spec => []TypeOK
BY InitType, StepType, PTL DEF Spec
-------------------------------------------------------------------------------
(* The configuration that is asked for                                      *)

TakesRest(t, l) == t[l].mb = 0 /\ t[l].on

LEMMA AsAskedIs ==
  ASSUME TargetsFit, NEW t \in Targets, NEW l \in Luns
  PROVE  /\ TakesRest(t, l) => l = 0
         /\ AsAsked(t, l).on = t[l].on /\ AsAsked(t, l).boot = t[l].boot
         /\ AsAsked(t, l).enhanced = t[l].enhanced
         /\ AsAsked(t, l).units =
              IF TakesRest(t, l) THEN All - InUse(t) ELSE Needed(t[l])
         /\ AsAsked(t, l).units \in Nat /\ AsAsked(t, l).units < Word
         /\ InUse(t) \in Nat /\ InUse(t) < All /\ All \in Nat /\ All < Word
<1>1. /\ InUse(t) \in Nat /\ InUse(t) < All /\ All \in Nat /\ All < Word
      /\ Needed(t[l]) \in Nat /\ Needed(t[l]) <= InUse(t)
  BY GeometryIs, NeededType DEF TargetsFit, RoomLeft
<1>2. TakesRest(t, l) => l = 0
  BY DEF TargetsFit, RestIsFirst, TakesRest
<1>3. t[l].mb = 0 => Needed(t[l]) = 0
  BY DEF Needed
<1>4. AsAsked(t, l).units = IF TakesRest(t, l) THEN All - InUse(t) ELSE Needed(t[l])
  BY <1>3, AskedType DEF AsAsked, TakesRest
<1> QED BY <1>1, <1>2, <1>4, WordIs DEF AsAsked

\* Without the unit that takes the rest, what is in use is what is needed.
LEMMA OthersInUse ==
  ASSUME NEW t \in Targets, NEW c, t[0].mb = 0,
         \A l \in Luns \ {0} : c[l].units = Needed(t[l])
  PROVE  UnitsOf(c, Luns \ {0}) = InUse(t)
<1>1. Needed(t[0]) = 0
  BY DEF Needed
<1>2. [l \in Luns |-> IF l \in Luns \ {0} THEN c[l].units ELSE 0]
        = [l \in Luns |-> Needed(t[l])]
  BY <1>1
<1> QED BY <1>2 DEF UnitsOf, InUse

\* No product wraps.
LEMMA ProductsAre ==
  ASSUME TargetsFit, NEW t \in Targets, NEW l \in Luns
  PROVE  /\ AllocSectors(Geometry) = Au /\ Sectors(t[l].mb) = 2048 * t[l].mb
         /\ t[l].enhanced => EnhancedSectors(Geometry, t[l].mb) = Size(t[l])
<1>1. Au = Geometry.segment /\ Au < Word /\ Au \in Nat /\ Geometry.alloc * Geometry.segment = Au
  BY GeometryIs DEF TargetsFit, OneSegmentUnits, Au
<1>2. /\ 2048 * t[l].mb \in Nat /\ 2048 * t[l].mb < Word
      /\ Size(t[l]) \in Nat /\ Size(t[l]) < Word
  BY AskedType DEF TargetsFit, NoWrap
<1>3. Sectors(t[l].mb) = 2048 * t[l].mb
  BY <1>2, WordIs DEF Sectors
<1>4. AllocSectors(Geometry) = Au
  BY <1>1, WordIs DEF AllocSectors
<1>5. t[l].enhanced => EnhancedSectors(Geometry, t[l].mb) = Size(t[l])
  BY <1>2, <1>3, WordIs, AskedType DEF EnhancedSectors
<1> QED BY <1>3, <1>4, <1>5

LEMMA SizesNeeded ==
  ASSUME TargetsFit, NEW t \in Targets, NEW l \in Luns, t[l].mb # 0
  PROVE  /\ t[l].enhanced => EnhancedUnits(Geometry, t[l].mb) = Needed(t[l])
         /\ ~t[l].enhanced =>
              /\ LeavesRest(Geometry, t[l].mb) <=> Size(t[l]) % Au # 0
              /\ NormalUnits(Geometry, t[l].mb)
                   + (IF LeavesRest(Geometry, t[l].mb) THEN 1 ELSE 0) = Needed(t[l])
<1>1. Au # 0 /\ Au \in Nat /\ Au > 0 /\ Size(t[l]) \in Nat
  BY GeometryIs, AskedType
<1>2. CASE t[l].enhanced
  <2>1. EnhancedUnits(Geometry, t[l].mb) = Size(t[l]) \div Au
    BY <1>1, <1>2, ProductsAre DEF EnhancedUnits, Div
  <2>2. Needed(t[l]) = Size(t[l]) \div Au
    <3>1. Size(t[l]) \div Au \in Nat
      BY <1>1, QuotientIs
    <3> QED BY <1>2, <3>1 DEF Needed
  <2> QED BY <1>2, <2>1, <2>2
<1>3. CASE ~t[l].enhanced
  <2>1. Sectors(t[l].mb) = Size(t[l]) /\ AllocSectors(Geometry) = Au
    BY <1>3, ProductsAre, AskedType
  <2>2. LeavesRest(Geometry, t[l].mb) <=> Size(t[l]) % Au # 0
    BY <1>1, <2>1 DEF LeavesRest, Mod
  <2>3. NormalUnits(Geometry, t[l].mb) = Size(t[l]) \div Au
    BY <1>1, <2>1 DEF NormalUnits, Div
  <2> QED BY <1>3, <2>2, <2>3 DEF Needed
<1> QED BY <1>2, <1>3

LEMMA FitsIs ==
  ASSUME TargetsFit, TypeOK, NEW l \in Luns
  PROVE  Fits(dev[l].units, l) <=>
           dev[l].units = IF TakesRest(want, l) THEN All - UnitsOf(dev, Luns \ {l})
                                                ELSE Needed(want[l])
<1>1. dev[l].units \in Nat /\ want \in Targets
  BY WordIs DEF TypeOK, Configured
<1>2. CASE want[l].mb = 0
  <2>1. (Geometry.total \div Geometry.segment) \div Geometry.alloc = All
    <3>1. All \in Nat /\ Geometry.alloc = 1
      BY GeometryIs DEF TargetsFit, OneSegmentUnits
    <3> QED BY <3>1 DEF All
  <2> QED BY <1>2, <2>1 DEF Fits, TakesRest, Needed
<1>3. CASE want[l].mb # 0
  <2>1. ~TakesRest(want, l)
    BY <1>3 DEF TakesRest
  <2> QED BY <1>1, <1>3, <2>1, FitsNeeded DEF Fits, Au, Size
<1> QED BY <1>2, <1>3

LEMMA WantedIsAsAsked ==
  ASSUME TargetsFit, TypeOK
  PROVE  (\A l \in Luns : UnitAsWanted(l)) <=> (\A l \in Luns : dev[l] = AsAsked(want, l))
<1> DEFINE Same(l) == /\ dev[l].on = want[l].on /\ dev[l].boot = want[l].boot
                      /\ dev[l].enhanced = want[l].enhanced
<1>0. want \in Targets /\ dev \in [Luns -> Configured]
  BY DEF TypeOK
<1>1. ASSUME NEW l \in Luns
      PROVE  dev[l] = AsAsked(want, l) <=> Same(l) /\ dev[l].units = AsAsked(want, l).units
  <2>1. dev[l] \in [on: BOOLEAN, boot: 0 .. 2, enhanced: BOOLEAN, units: 0 .. Word - 1]
    BY <1>0 DEF Configured
  <2> QED BY <2>1 DEF AsAsked
<1>2. ASSUME NEW l \in Luns, ~TakesRest(want, l)
      PROVE  UnitAsWanted(l) <=> dev[l] = AsAsked(want, l)
  BY <1>0, <1>1, <1>2, FitsIs, AsAskedIs DEF UnitAsWanted
<1>3. ASSUME TakesRest(want, 0), \A l \in Luns \ {0} : dev[l] = AsAsked(want, l)
      PROVE  UnitAsWanted(0) <=> dev[0] = AsAsked(want, 0)
  <2>1. UnitsOf(dev, Luns \ {0}) = InUse(want)
    <3>1. \A l \in Luns \ {0} : dev[l].units = Needed(want[l])
      BY <1>0, <1>3, AsAskedIs
    <3> QED BY <1>0, <1>3, <3>1, OthersInUse DEF TakesRest
  <2> QED BY <1>0, <1>1, <1>3, <2>1, Numbers, FitsIs, AsAskedIs DEF UnitAsWanted
<1>4. \A l \in Luns : TakesRest(want, l) => l = 0
  BY <1>0, AsAskedIs
<1> QED BY <1>2, <1>3, <1>4, Numbers

\* What is as it was asked for passes the check ...
LEMMA AsAskedPasses ==
  ASSUME TargetsFit, want \in Targets, conf \in [Luns -> Configured],
         boot, geo = Geometry, \A l \in Luns : conf[l] = AsAsked(want, l)
  PROVE  Passes
<1> SUFFICES ASSUME NEW l \in Luns PROVE SizeFits(l)
  BY AsAskedIs DEF Passes
<1> DEFINE tail == l .. NumLuns - 1
           u == [k \in Luns |-> IF k \in tail THEN conf[k].units ELSE 0]
<1>0. InUse(want) \in Nat /\ InUse(want) < All /\ All \in Nat /\ All < Word
  BY AsAskedIs
<1>1. u \in [Luns -> Nat] /\ UnitsOf(conf, tail) = Sums(u)[NumLuns]
  BY AsAskedIs DEF UnitsOf
<1>2. CASE TakesRest(want, l)
  <2>1. l = 0 /\ tail = Luns /\ want[0].mb = 0
    BY <1>2, AsAskedIs DEF Luns, TakesRest
  <2>2. u[0] = All - InUse(want)
    BY <1>2, <2>1, AsAskedIs
  <2>3. Sums([u EXCEPT ![0] = 0])[NumLuns] = InUse(want)
    <3>1. \A k \in Luns \ {0} : conf[k].units = Needed(want[k])
      BY AsAskedIs
    <3>2. [u EXCEPT ![0] = 0] = [k \in Luns |-> IF k \in Luns \ {0} THEN conf[k].units ELSE 0]
      BY <2>1
    <3>3. UnitsOf(conf, Luns \ {0}) = InUse(want)
      BY <2>1, <3>1, OthersInUse
    <3> HIDE DEF u
    <3> QED BY <3>2, <3>3 DEF UnitsOf
  <2>4. UnitsOf(conf, tail) = All
    <3> HIDE DEF u, tail
    <3>1. Sums(u)[NumLuns] = u[0] + Sums([u EXCEPT ![0] = 0])[NumLuns]
      BY <1>1, SumsSplit
    <3> QED BY <1>0, <1>1, <2>2, <2>3, <3>1
  <2>5. Rest(geo, UnitsOf(conf, tail)) = 0
    BY <2>4, GeometryIs, WordIs DEF Rest
  <2>6. conf[l].units # 0
    BY <1>2, <2>1, AsAskedIs
  <2> QED BY <2>1, <2>5, <2>6 DEF SizeFits
<1>3. CASE ~TakesRest(want, l) /\ want[l].mb = 0
  <2>1. conf[l].units = 0
    BY <1>3, AsAskedIs DEF Needed
  <2>2. UnitsOf(conf, tail) <= InUse(want)
    <3> DEFINE v == [k \in Luns |-> Needed(want[k])]
    <3>1. \A k \in Luns : u[k] <= v[k]
      <4> SUFFICES ASSUME NEW k \in Luns PROVE u[k] <= v[k]
        OBVIOUS
      <4>1. Needed(want[k]) \in Nat /\ v[k] = Needed(want[k])
        BY NeededType
      <4>2. CASE k \in tail
        <5>1. TakesRest(want, k) => k = 0
          BY AsAskedIs
        <5>2. k = 0 => l = 0
          BY <4>2 DEF Luns
        <5>3. ~TakesRest(want, k)
          BY <1>3, <5>1, <5>2
        <5>4. conf[k].units = Needed(want[k])
          BY <5>3, AsAskedIs
        <5> QED BY <4>1, <4>2, <5>4
      <4>3. CASE k \notin tail
        BY <4>1, <4>3
      <4> QED BY <4>2, <4>3
    <3> QED BY <1>1, <3>1, NeededType, SumsMonotone, Numbers DEF InUse
  <2>3. UnitsOf(conf, tail) \in Nat
    BY UnitsOfType
  <2>4. Rest(geo, UnitsOf(conf, tail)) # 0
    <3> HIDE DEF tail
    <3> DEFINE left == All - UnitsOf(conf, tail)
    <3>1. left \in Nat /\ left < Word /\ left # 0
      BY <1>0, <2>2, <2>3, WordIs
    <3>2. Rest(geo, UnitsOf(conf, tail)) = left % Word
      BY GeometryIs DEF Rest
    <3> HIDE DEF left
    <3> QED BY <3>1, <3>2, WordIs
  <2> QED BY <1>3, <2>1, <2>4 DEF SizeFits
<1>4. CASE want[l].mb # 0
  <2>1. conf[l].units = Needed(want[l])
    BY <1>4, AsAskedIs DEF TakesRest
  <2> QED BY <1>4, <2>1, SizesNeeded DEF SizeFits
<1> QED BY <1>2, <1>3, <1>4

\* ... and what passes has the sizes that were asked for.
LEMMA PassedUnits ==
  ASSUME TargetsFit, TypeOK, Passes, geo = Geometry, conf = dev, boot = devBoot
  PROVE  devBoot /\ \A l \in Luns : want[l].mb = 0 \/ UnitAsWanted(l)
<1> SUFFICES ASSUME NEW l \in Luns, want[l].mb # 0 PROVE UnitAsWanted(l)
  BY DEF Passes
<1>1. dev[l].units = Needed(want[l])
  BY SizesNeeded DEF TypeOK, Passes, SizeFits
<1> QED BY <1>1, FitsIs DEF UnitAsWanted, Passes, TakesRest

\* What is edited is as it was asked for, when the units after it are.
LEMMA EditsAsAsked ==
  ASSUME TargetsFit, NoCarry, want \in Targets, NEW c \in [Luns -> Configured],
         NEW l \in Luns, \A k \in Luns : k > l => c[k] = AsAsked(want, k)
  PROVE  EditedUnits(Geometry, c, l) % Word = AsAsked(want, l).units
<1>0. want[l].mb \in Nat /\ want[l].boot \in Nat /\ Needed(want[l]) \in Nat
  BY AskedType, NeededType
<1>1. CASE want[l].mb # 0
  <2>0. ~TakesRest(want, l) /\ want[l].mb > 0
    BY <1>0, <1>1 DEF TakesRest
  <2>1. CASE want[l].enhanced
    <3>1. EditedUnits(Geometry, c, l) = Needed(want[l])
      BY <1>1, <2>0, <2>1, SizesNeeded DEF EditedUnits, TargetsFit, BootIsEnhanced
    <3> QED BY <1>0, <2>0, <3>1, AsAskedIs, WordIs
  <2>2. CASE ~want[l].enhanced
    <3> DEFINE n == NormalUnits(Geometry, want[l].mb)
    <3>1. ~(want[l].boot > 0)
      BY <2>0, <2>2 DEF TargetsFit, BootIsEnhanced
    <3>2. n \in Nat
      BY <1>0, SizesType
    <3>3. LeavesRest(Geometry, want[l].mb) => PlusOne(n) = n + 1
      <4>1. LeavesRest(Geometry, want[l].mb) => (n + 1) % Byte # 0
        BY <1>1, <2>0, <2>2, SizesNeeded DEF NoCarry
      <4> QED BY <3>2, <4>1, WordIs, NoCarryOut DEF PlusOne
    <3>4. EditedUnits(Geometry, c, l) = Needed(want[l])
      BY <1>1, <2>0, <2>2, <3>1, <3>2, <3>3, SizesNeeded DEF EditedUnits
    <3> QED BY <1>0, <2>0, <3>4, AsAskedIs, WordIs
  <2> QED BY <2>1, <2>2
<1>2. CASE TakesRest(want, l)
  <2>1. l = 0 /\ want[0].mb = 0 /\ ~(want[0].mb > 0) /\ want[0].on
    BY <1>2, AsAskedIs DEF TakesRest
  <2>2. UnitsOf(c, Luns \ {0}) = InUse(want)
    <3>1. \A k \in Luns \ {0} : k > 0
      BY DEF Luns
    <3>2. \A k \in Luns \ {0} : c[k].units = Needed(want[k])
      BY <2>1, <3>1, AsAskedIs
    <3> QED BY <2>1, <3>2, OthersInUse
  <2>3. EditedUnits(Geometry, c, l) = (All - InUse(want)) % Word
    BY <2>1, <2>2, GeometryIs DEF EditedUnits, Rest
  <2>4. All - InUse(want) \in Nat /\ All - InUse(want) < Word
    <3>1. InUse(want) \in Nat /\ InUse(want) < All /\ All \in Nat /\ All < Word
      BY AsAskedIs
    <3> QED BY <3>1, WordIs
  <2>5. (All - InUse(want)) % Word = All - InUse(want)
    BY <2>4, WordIs
  <2> QED BY <1>2, <2>3, <2>5, AsAskedIs
<1>3. CASE want[l].mb = 0 /\ ~want[l].on
  <2>1. EditedUnits(Geometry, c, l) = 0 /\ AsAsked(want, l).units = 0
    BY <1>3 DEF EditedUnits, AsAsked
  <2> QED BY <2>1, WordIs
<1> QED BY <1>1, <1>2, <1>3, AskedType DEF TakesRest
-------------------------------------------------------------------------------
(* The check, as long as no query is given up                               *)

\* The check compares what the device has, and does not pass when it is not
\* as wanted.
CheckInv ==
  "silent" \notin trouble =>
    /\ pc \in {"config", "bootEn", "compare", "edit", "write", "enable"} => geo = Geometry
    /\ pc \in {"bootEn", "compare"} => conf = dev
    /\ pc = "compare" => boot = devBoot
    /\ pc \in {"edit", "write"} => ~AsWanted

LEMMA DeviceStays ==
  ASSUME UNCHANGED device
  PROVE  /\ AsWanted' <=> AsWanted
         /\ \A l \in Luns : UnitAsWanted(l)' <=> UnitAsWanted(l)
<1>1. ASSUME NEW l \in Luns PROVE UnitAsWanted(l)' <=> UnitAsWanted(l)
  BY DEF UnitAsWanted, Fits, device
<1> QED BY <1>1 DEF AsWanted, device

LEMMA WantedPasses ==
  ASSUME TargetsFit, TypeOK, geo = Geometry, conf = dev, boot = devBoot, AsWanted
  PROVE  Passes
<1>1. \A l \in Luns : dev[l] = AsAsked(want, l)
  BY WantedIsAsAsked DEF AsWanted
<1> QED BY <1>1, AsAskedPasses DEF TypeOK, AsWanted

LEMMA CheckStep ==
  ASSUME TargetsFit, TypeOK, CheckInv, [Next]_vars
  PROVE  CheckInv'
<1> SUFFICES ASSUME "silent" \notin trouble'
             PROVE  /\ pc' \in {"config", "bootEn", "compare", "edit", "write", "enable"}
                         => geo' = Geometry
                    /\ pc' \in {"bootEn", "compare"} => conf' = dev'
                    /\ pc' = "compare" => boot' = devBoot'
                    /\ pc' \in {"edit", "write"} => ~AsWanted'
  BY DEF CheckInv
<1>1. CASE Compare
  <2>1. "silent" \notin trouble /\ pc = "compare" /\ UNCHANGED device /\ UNCHANGED geo
    BY <1>1 DEF Compare, copies
  <2>2. pc' = "edit" => ~Passes
    BY <1>1 DEF Compare, Leave
  <2>3. pc' \in {"edit", "done"}
    BY <1>1 DEF Compare, Leave
  <2> QED BY <2>1, <2>2, <2>3, DeviceStays, WantedPasses DEF CheckInv
<1>2. ASSUME NEW o \in Outcomes, Ended(o)
      PROVE  "silent" \notin trouble /\ o \in {"answered", "failed"}
  BY <1>2, ProvisionAssumption DEF Ended, AllOutcomes
<1>3. ASSUME NEW o \in Outcomes, ReadDevice(o) PROVE CheckInv'
  BY <1>3, <1>2 DEF ReadDevice, CheckGoesOn, Leave, CheckInv
<1>4. ASSUME NEW o \in Outcomes, ReadGeometry(o) PROVE CheckInv'
  BY <1>4, <1>2 DEF ReadGeometry, CheckGoesOn, Leave, CheckInv
<1>5. ASSUME NEW o \in Outcomes, ReadConfig(o) PROVE CheckInv'
  BY <1>5, <1>2 DEF ReadConfig, CheckGoesOn, Leave, CheckInv, device
<1>6. ASSUME NEW o \in Outcomes, ReadBootEn(o) PROVE CheckInv'
  <2>1. o = "answered" => boot' = devBoot
    BY <1>6 DEF ReadBootEn, TypeOK
  <2> QED BY <1>6, <1>2, <2>1 DEF ReadBootEn, CheckGoesOn, Leave, CheckInv, device
<1>7. ASSUME NEW o \in Outcomes, Edit(o) PROVE CheckInv'
  <2>1. "silent" \notin trouble /\ pc = "edit" /\ UNCHANGED device
    BY <1>7, <1>2 DEF Edit
  <2>2. geo' = Geometry /\ pc' \in {"edit", "write"}
    BY <1>7, <2>1 DEF Edit, CheckInv
  <2> QED BY <2>1, <2>2, DeviceStays DEF CheckInv
<1>8. ASSUME NEW o \in Outcomes, WriteConfig(o) PROVE CheckInv'
  BY <1>8, <1>2 DEF WriteConfig, CheckInv, copies
<1>9. ASSUME NEW o \in Outcomes, EnableBoot(o) PROVE CheckInv'
  BY <1>9, <1>2 DEF EnableBoot, CheckInv
<1>10. CASE UNCHANGED vars
  <2>1. UNCHANGED device /\ UNCHANGED <<geo, conf, boot, pc, trouble>>
    BY <1>10 DEF vars, copies
  <2> QED BY <2>1, DeviceStays DEF CheckInv, device
<1> QED BY <1>1, <1>3, <1>4, <1>5, <1>6, <1>7, <1>8, <1>9, <1>10 DEF Next, Query, CheckInv

LEMMA InitCheck == Init => CheckInv
  BY DEF Init, CheckInv

(* A device that is configured as LU_conf wants it is left alone, whichever *)
(* queries fail, as long as none is given up, for every LU_conf and every   *)
(* geometry the code provides for: those of TargetsFit                      *)
(* (ufs_check_config_desc, ufs_set_configuration_descriptor).               *)
THEOREM ConfiguredIsUntouched ==
  ASSUME TargetsFit
  PROVE  Spec => ConfiguredUntouched
<1> DEFINE IInv == TypeOK /\ CheckInv
           Untouched == AsWanted /\ "silent" \notin trouble' => UNCHANGED <<dev, devBoot>>
<1>1. Init => IInv
  BY InitType, InitCheck
<1>2. IInv /\ [Next]_vars => IInv'
  BY StepType, CheckStep
<1>3. IInv /\ [Next]_vars => [Untouched]_vars
  <2> SUFFICES ASSUME IInv, Next, AsWanted, "silent" \notin trouble'
               PROVE  UNCHANGED <<dev, devBoot>>
    OBVIOUS
  <2>1. ASSUME NEW o \in Outcomes, WriteConfig(o) PROVE FALSE
    BY <2>1 DEF WriteConfig, Ended, CheckInv
  <2>2. ASSUME NEW o \in Outcomes, EnableBoot(o) PROVE UNCHANGED <<dev, devBoot>>
    BY <2>2 DEF EnableBoot, AsWanted, TypeOK
  <2>3. CASE Compare
    BY <2>3 DEF Compare, device
  <2>4. ASSUME NEW o \in Outcomes,
               ReadDevice(o) \/ ReadGeometry(o) \/ ReadConfig(o) \/ ReadBootEn(o) \/ Edit(o)
        PROVE  UNCHANGED <<dev, devBoot>>
    BY <2>4 DEF ReadDevice, ReadGeometry, ReadConfig, ReadBootEn, Edit, device
  <2> QED BY <2>1, <2>2, <2>3, <2>4 DEF Next, Query
<1> QED BY <1>1, <1>2, <1>3, PTL DEF Spec, ConfiguredUntouched

-------------------------------------------------------------------------------
(* A run in which every query is answered                                   *)

Exact(c) == \A l \in Luns : c[l] = AsAsked(want, l)

\* The units behind the one that is edited are as asked for, and a retry finds
\* the device as it was written.
QuietInv ==
  trouble = {} =>
    /\ pc \in {"device", "geometry", "config", "bootEn", "compare"} =>
         retry = 0 \/ (retry = 1 /\ Exact(dev) /\ devBoot)
    /\ pc \in {"edit", "write", "enable"} => retry = 1
    /\ pc = "edit" => \A l \in Luns : l > lun => conf[l] = AsAsked(want, l)
    /\ pc = "write" => Exact(conf)
    /\ pc = "enable" => Exact(dev)
    /\ QuietRunConfigures

LEMMA ExactIsWanted ==
  ASSUME TargetsFit, TypeOK
  PROVE  AsWanted <=> devBoot /\ Exact(dev)
  BY WantedIsAsAsked DEF AsWanted, Exact

LEMMA QuietCompare ==
  ASSUME TargetsFit, MaxRetries > 0, TypeOK, CheckInv, QuietInv, trouble = {}, Compare
  PROVE  QuietInv'
<1>1. geo = Geometry /\ conf = dev /\ boot = devBoot /\ pc = "compare" /\ UNCHANGED device
  BY DEF CheckInv, Compare
<1>2. /\ UNCHANGED <<want, dev, devBoot, conf, trouble>>
      /\ AsWanted' <=> AsWanted
      /\ \A l \in Luns : UnitAsWanted(l)' <=> UnitAsWanted(l)
  BY <1>1, DeviceStays DEF device, copies, Compare
<1>3. CASE Passes \/ retry = MaxRetries
  <2>1. pc' = "done" /\ retry' = retry
    BY <1>3 DEF Compare, Leave
  <2>2. CASE retry = 0
    <3>1. Passes
      BY <1>3, <2>2
    <3>2. devBoot /\ \A l \in Luns : want[l].mb = 0 \/ UnitAsWanted(l)
      BY <1>1, <3>1, PassedUnits
    <3> QED BY <1>2, <2>1, <2>2, <3>2 DEF QuietInv, QuietRunConfigures
  <2>3. CASE retry # 0
    <3>1. retry = 1 /\ AsWanted
      BY <1>1, <2>3, ExactIsWanted DEF QuietInv
    <3> QED BY <1>2, <2>1, <3>1 DEF QuietInv, QuietRunConfigures
  <2> QED BY <2>2, <2>3
<1>4. CASE ~(Passes \/ retry = MaxRetries)
  <2>1. pc' = "edit" /\ lun' = NumLuns - 1 /\ retry' = retry + 1
    BY <1>4 DEF Compare
  <2>2. retry = 0
    BY <1>1, <1>4, ExactIsWanted, WantedPasses DEF QuietInv
  <2>3. \A l \in Luns : ~(l > NumLuns - 1)
    BY Numbers DEF Luns
  <2> QED BY <2>1, <2>2, <2>3 DEF QuietInv, QuietRunConfigures
<1> QED BY <1>3, <1>4

LEMMA QuietEdit ==
  ASSUME TargetsFit, NoCarry, TypeOK, CheckInv, QuietInv, trouble = {}, Edit("answered")
  PROVE  QuietInv'
<1>1. /\ geo' = Geometry /\ pc = "edit" /\ UNCHANGED <<want, dev, devBoot, retry>>
      /\ trouble' = {} /\ retry = 1
  BY DEF Edit, Ended, device, QuietInv
<1>2. \A l \in Luns : l > lun => conf[l] = AsAsked(want, l)
  BY <1>1 DEF QuietInv
<1>3. lun \in Luns /\ conf \in [Luns -> Configured] /\ want \in Targets
  BY DEF TypeOK
<1>4. EditedUnits(Geometry, conf, lun) % Word = AsAsked(want, lun).units
  BY <1>2, <1>3, EditsAsAsked
<1>5. conf' = [conf EXCEPT ![lun] = AsAsked(want, lun)]
  BY <1>1, <1>4 DEF Edit, AsAsked
<1>6. \A l \in Luns : l >= lun => conf'[l] = AsAsked(want, l)
  BY <1>2, <1>3, <1>5 DEF Luns
<1>7. CASE lun = 0
  <2>1. Exact(conf')
    BY <1>6, <1>7 DEF Exact, Luns
  <2> QED BY <1>1, <1>7, <2>1 DEF Edit, QuietInv, QuietRunConfigures, Exact
<1>8. CASE lun # 0
  <2>1. \A l \in Luns : l > lun - 1 => l >= lun
    BY <1>3 DEF Luns
  <2> QED BY <1>1, <1>6, <1>8, <2>1 DEF Edit, QuietInv, QuietRunConfigures
<1> QED BY <1>7, <1>8

LEMMA QuietStep ==
  ASSUME TargetsFit, NoCarry, MaxRetries > 0, TypeOK, CheckInv, QuietInv, [Next]_vars
  PROVE  QuietInv'
<1> SUFFICES ASSUME trouble' = {} PROVE QuietInv'
  BY DEF QuietInv
<1>1. CASE Compare
  BY <1>1, QuietCompare DEF Compare
<1>2. ASSUME NEW o \in Outcomes, Ended(o) PROVE trouble = {} /\ o = "answered"
  BY <1>2 DEF Ended
<1>3. ASSUME NEW o \in Outcomes,
             ReadDevice(o) \/ ReadGeometry(o) \/ ReadConfig(o) \/ ReadBootEn(o)
      PROVE  QuietInv'
  <2>1. trouble = {} /\ o = "answered"
    BY <1>2, <1>3 DEF ReadDevice, ReadGeometry, ReadConfig, ReadBootEn
  <2>2. /\ pc \in {"device", "geometry", "config", "bootEn"}
        /\ pc' \in {"geometry", "config", "bootEn", "compare"}
        /\ UNCHANGED <<want, dev, devBoot, retry>>
    BY <1>3, <2>1
    DEF ReadDevice, ReadGeometry, ReadConfig, ReadBootEn, CheckGoesOn, device
  <2> QED BY <2>1, <2>2 DEF QuietInv, QuietRunConfigures, Exact
<1>4. ASSUME NEW o \in Outcomes, Edit(o) PROVE QuietInv'
  BY <1>2, <1>4, QuietEdit DEF Edit
<1>5. ASSUME NEW o \in Outcomes, WriteConfig(o) PROVE QuietInv'
  <2>1. trouble = {} /\ o = "answered"
    BY <1>2, <1>5 DEF WriteConfig
  <2>2. dev' = conf /\ pc' = "enable" /\ pc = "write" /\ UNCHANGED <<want, retry>>
    BY <1>5, <2>1 DEF WriteConfig
  <2> QED BY <2>1, <2>2 DEF QuietInv, QuietRunConfigures, Exact
<1>6. ASSUME NEW o \in Outcomes, EnableBoot(o) PROVE QuietInv'
  <2>1. trouble = {} /\ o = "answered"
    BY <1>2, <1>6 DEF EnableBoot
  <2>2. /\ devBoot' = TRUE /\ pc' = "device" /\ pc = "enable"
        /\ UNCHANGED <<want, dev, retry>>
    BY <1>6, <2>1 DEF EnableBoot
  <2> QED BY <2>1, <2>2 DEF QuietInv, QuietRunConfigures, Exact
<1>7. CASE UNCHANGED vars
  <2>1. UNCHANGED device /\ UNCHANGED <<want, dev, devBoot, conf, pc, lun, retry, trouble>>
    BY <1>7 DEF vars, copies, device
  <2>2. QuietRunConfigures' <=> QuietRunConfigures
    BY <2>1, DeviceStays DEF QuietRunConfigures
  <2> QED BY <2>1, <2>2 DEF QuietInv, Exact
<1> QED BY <1>1, <1>3, <1>4, <1>5, <1>6, <1>7 DEF Next, Query

(* When every query is answered, at most one configuration is written.  If  *)
(* one is, the device ends exactly as wanted: the sizes that                *)
(* ufs_edit_config_desc computes pass ufs_check_config_desc, which computes *)
(* them in another way.  If none is, all units are as wanted but perhaps    *)
(* the one that takes the rest.  This is so for every LU_conf and every     *)
(* geometry with allocation units of one segment, sizes below 2 TB and no   *)
(* size that is rounded up to a multiple of 256 units (TargetsFit, NoCarry).*)
THEOREM QuietRunIsEnough ==
  ASSUME TargetsFit, NoCarry, MaxRetries > 0
  PROVE  Spec => []QuietRunConfigures
<1>1. Init => TypeOK /\ CheckInv /\ QuietInv
  BY InitType, InitCheck DEF Init, QuietInv, QuietRunConfigures
<1>2. TypeOK /\ CheckInv /\ QuietInv /\ [Next]_vars => (TypeOK /\ CheckInv /\ QuietInv)'
  BY StepType, CheckStep, QuietStep
<1>3. QuietInv => QuietRunConfigures
  BY DEF QuietInv, QuietRunConfigures
<1> QED BY <1>1, <1>2, <1>3, PTL DEF Spec

===============================================================================
