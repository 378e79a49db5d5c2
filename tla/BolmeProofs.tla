---------------------------- MODULE BolmeProofs -----------------------------
(***************************************************************************)
(* Proofs about the divider: the loop of bolme_birimi computes quotient    *)
(* and remainder for operands of every even width.                         *)
(***************************************************************************)
EXTENDS Bolme, WellFoundedInduction, TLAPS

-----------------------------------------------------------------------------
(* Powers of two *)

\* Induction, for a set of numbers: the least number that is not in it has a predecessor.
LEMMA Tumevarim ==
    ASSUME NEW T \in SUBSET Nat, 0 \in T, \A n \in T : n + 1 \in T
    PROVE  T = Nat
<1> SUFFICES ASSUME Nat \ T # {}
             PROVE  FALSE
  OBVIOUS
<1> DEFINE R == {s \in Nat \X Nat : s[1] < s[2]}
           U == Nat \ T
<1>1. OpToRel(<, Nat) = R
  BY DEF OpToRel
<1>2. IsWellFoundedOn(OpToRel(<, Nat), Nat)
  BY NatLessThanWellFounded
<1>3. IsWellFoundedOn(R, Nat)
  BY <1>1, <1>2, Zenon
<1>4. U \subseteq Nat /\ U # {}
  OBVIOUS
<1>5. ASSUME NEW x \in Nat, NEW y \in Nat, y < x
      PROVE  <<y, x>> \in R
  <2> DEFINE s == <<y, x>>
  <2>1. s \in Nat \X Nat /\ s[1] = y /\ s[2] = x
    OBVIOUS
  <2>2. s[1] < s[2]
    BY <1>5, <2>1
  <2> HIDE DEF s
  <2>3. s \in R
    BY <2>1, <2>2, Zenon
  <2> QED
    BY <2>3 DEF s
<1> HIDE DEF U, R
<1>6. PICK x \in U : \A y \in U : ~(<<y, x>> \in R)
  BY <1>3, <1>4, WFMin
<1>7. \A y \in U : ~(y < x)
  BY <1>4, <1>5, <1>6
<1>8. x \in Nat /\ x # 0 /\ x - 1 \in Nat /\ x - 1 \in T
  BY <1>4, <1>7 DEF U
<1> QED
  BY <1>6, <1>8 DEF U

\* h is IkiUs up to n.
Kismi(h, n) == h = [i \in 0 .. n |-> IF i = 0 THEN 1 ELSE 2 * h[i - 1]]

\* There is such a function for every n.
LEMMA KismiVar == \A n \in Nat : \E h : Kismi(h, n)
<1> DEFINE T == {n \in Nat : \E h : Kismi(h, n)}
<1>1. 0 \in T
  <2> DEFINE h == [i \in 0 .. 0 |-> 1]
  <2>1. Kismi(h, 0)
    BY DEF Kismi
  <2> QED
    BY <2>1
<1>2. ASSUME NEW n \in T
      PROVE  n + 1 \in T
  <2>1. n \in Nat
    OBVIOUS
  <2>2. PICK h : Kismi(h, n)
    OBVIOUS
  <2> DEFINE g == [i \in 0 .. n + 1 |-> IF i = n + 1 THEN 2 * h[n] ELSE h[i]]
  <2>3. \A i \in 0 .. n : h[i] = IF i = 0 THEN 1 ELSE 2 * h[i - 1]
    BY <2>2 DEF Kismi
  <2>4. ASSUME NEW i \in 0 .. n + 1
        PROVE  g[i] = IF i = 0 THEN 1 ELSE 2 * g[i - 1]
    <3>1. CASE i = n + 1
      <4>1. i # 0 /\ i - 1 = n /\ n \in 0 .. n + 1 /\ n # n + 1
        BY <2>1, <3>1
      <4> QED
        BY <3>1, <4>1
    <3>2. CASE i # n + 1
      <4>1. i \in 0 .. n /\ g[i] = h[i]
        BY <2>1, <3>2
      <4>2. i # 0 => i - 1 \in 0 .. n + 1 /\ i - 1 # n + 1
        BY <2>1, <3>2
      <4> QED
        BY <2>3, <4>1, <4>2
    <3> QED
      BY <3>1, <3>2
  <2>5. Kismi(g, n + 1)
    BY <2>4 DEF Kismi
  <2> QED
    BY <2>1, <2>5
<1>3. T = Nat
  <2> HIDE DEF T
  <2>1. T \in SUBSET Nat
    BY DEF T
  <2> QED
    BY <1>1, <1>2, <2>1, Tumevarim
<1> QED
  BY <1>3

\* Two of them agree where both are defined.
LEMMA KismiBir ==
    ASSUME NEW h, NEW g, NEW n \in Nat, Kismi(h, n), Kismi(g, n + 1)
    PROVE  \A i \in 0 .. n : h[i] = g[i]
<1> DEFINE T == {i \in Nat : i <= n => h[i] = g[i]}
<1>1. /\ \A i \in 0 .. n : h[i] = IF i = 0 THEN 1 ELSE 2 * h[i - 1]
      /\ \A i \in 0 .. n + 1 : g[i] = IF i = 0 THEN 1 ELSE 2 * g[i - 1]
  BY DEF Kismi
<1>2. 0 \in T
  BY <1>1
<1>3. ASSUME NEW i \in T
      PROVE  i + 1 \in T
  <2>1. CASE i + 1 <= n
    <3>1. i \in Nat /\ h[i] = g[i] /\ i + 1 \in 0 .. n /\ i + 1 \in 0 .. n + 1 /\ i + 1 # 0 /\ (i + 1) - 1 = i
      BY <2>1
    <3>2. h[i + 1] = 2 * h[i] /\ g[i + 1] = 2 * g[i]
      BY <1>1, <3>1
    <3> QED
      BY <3>1, <3>2
  <2>2. CASE ~(i + 1 <= n)
    BY <2>2
  <2> QED
    BY <2>1, <2>2
<1>4. T = Nat
  <2> HIDE DEF T
  <2>1. T \in SUBSET Nat
    BY DEF T
  <2> QED
    BY <1>2, <1>3, <2>1, Tumevarim
<1> QED
  BY <1>4

\* So the recursive definition has what it asks for.
LEMMA IkiUsTanimi == IkiUs = [n \in Nat |-> IF n = 0 THEN 1 ELSE 2 * IkiUs[n - 1]]
<1> DEFINE K(n) == CHOOSE h : Kismi(h, n)
           f == [n \in Nat |-> K(n)[n]]
           P(g) == g = [n \in Nat |-> IF n = 0 THEN 1 ELSE 2 * g[n - 1]]
<1>1. ASSUME NEW n \in Nat
      PROVE  Kismi(K(n), n)
  BY KismiVar, Zenon
<1>2. ASSUME NEW n \in Nat
      PROVE  f[n] = IF n = 0 THEN 1 ELSE 2 * f[n - 1]
  <2>1. CASE n = 0
    <3>1. Kismi(K(0), 0)
      BY <1>1
    <3> DEFINE h == K(0)
    <3> HIDE DEF h
    <3>2. h = [i \in 0 .. 0 |-> IF i = 0 THEN 1 ELSE 2 * h[i - 1]]
      BY <3>1 DEF h, Kismi
    <3>3. h[0] = 1
      BY <3>2
    <3> QED
      BY <2>1, <3>3 DEF h
  <2>2. CASE n # 0
    <3> DEFINE m == n - 1
               h == K(m)
               g == K(m + 1)
    <3>1. m \in Nat /\ n = m + 1
      BY <2>2
    <3>2. Kismi(h, m) /\ Kismi(g, m + 1)
      BY <1>1, <3>1
    <3> HIDE DEF h, g, m
    <3>3. h[m] = g[m]
      BY <3>1, <3>2, KismiBir
    <3>4. g = [i \in 0 .. m + 1 |-> IF i = 0 THEN 1 ELSE 2 * g[i - 1]]
      BY <3>2 DEF Kismi
    <3>5. g[m + 1] = 2 * g[m]
      <4>1. m + 1 \in 0 .. m + 1 /\ m + 1 # 0 /\ (m + 1) - 1 = m
        BY <3>1
      <4> QED
        BY <3>4, <4>1
    <3>6. f[n] = g[m + 1] /\ f[n - 1] = h[m]
      BY <3>1 DEF h, g, m
    <3> QED
      BY <2>2, <3>3, <3>5, <3>6
  <2> QED
    BY <2>1, <2>2
<1>3. P(f)
  <2>1. f = [n \in Nat |-> f[n]]
    OBVIOUS
  <2> HIDE DEF f
  <2> QED
    BY <1>2, <2>1
<1>4. IkiUs = CHOOSE g : P(g)
  BY DEF IkiUs
<1> HIDE DEF f, P
<1>5. P(IkiUs)
  BY <1>3, <1>4, Zenon
<1> QED
  BY <1>5 DEF P

LEMMA IkiUsAdim ==
    /\ IkiUs[0] = 1
    /\ \A n \in Nat : IkiUs[n + 1] = 2 * IkiUs[n]
<1>1. IkiUs[0] = 1
  BY IkiUsTanimi
<1>2. ASSUME NEW n \in Nat
      PROVE  IkiUs[n + 1] = 2 * IkiUs[n]
  <2>1. n + 1 \in Nat /\ n + 1 # 0 /\ (n + 1) - 1 = n
    OBVIOUS
  <2> QED
    BY <2>1, IkiUsTanimi
<1> QED
  BY <1>1, <1>2

LEMMA IkiUsTipi == \A n \in Nat : IkiUs[n] \in Nat \ {0}
<1> DEFINE T == {n \in Nat : IkiUs[n] \in Nat \ {0}}
<1>1. 0 \in T
  BY IkiUsAdim
<1>2. ASSUME NEW n \in T
      PROVE  n + 1 \in T
  BY IkiUsAdim
<1>3. T = Nat
  <2> HIDE DEF T
  <2>1. T \in SUBSET Nat
    BY DEF T
  <2> QED
    BY <1>1, <1>2, <2>1, Tumevarim
<1> QED
  BY <1>3

\* Two to the n times two to the m - n is two to the m.
LEMMA IkiUsCarpim ==
    ASSUME NEW m \in Nat
    PROVE  \A n \in 0 .. m : IkiUs[n] * IkiUs[m - n] = IkiUs[m]
<1> DEFINE T == {n \in Nat : n <= m => IkiUs[n] * IkiUs[m - n] = IkiUs[m]}
<1>1. 0 \in T
  <2>1. m - 0 = m /\ IkiUs[m] \in Nat
    BY IkiUsTipi
  <2> QED
    BY <2>1, IkiUsAdim
<1>2. ASSUME NEW n \in T
      PROVE  n + 1 \in T
  <2>1. CASE n + 1 <= m
    <3> DEFINE k == m - (n + 1)
               x == IkiUs[n]
               y == IkiUs[k]
    <3>1. n \in Nat /\ k \in Nat /\ m - n = k + 1
      BY <2>1
    <3>2. x \in Nat /\ y \in Nat
      BY <3>1, IkiUsTipi
    <3>3. IkiUs[n + 1] = 2 * x /\ IkiUs[m - n] = 2 * y
      BY <3>1, IkiUsAdim
    <3>4. x * IkiUs[m - n] = IkiUs[m]
      BY <2>1, <3>1
    <3> HIDE DEF x, y, k
    <3>5. (2 * x) * y = x * (2 * y)
      BY <3>2
    <3>6. IkiUs[n + 1] * y = IkiUs[m]
      BY <3>3, <3>4, <3>5
    <3> QED
      BY <3>1, <3>6 DEF y, k
  <2>2. CASE ~(n + 1 <= m)
    BY <2>2
  <2> QED
    BY <2>1, <2>2
<1>3. T = Nat
  <2> HIDE DEF T
  <2>1. T \in SUBSET Nat
    BY DEF T
  <2> QED
    BY <1>1, <1>2, <2>1, Tumevarim
<1> QED
  BY <1>3

-----------------------------------------------------------------------------
(* Words *)

\* The width is even, so an operand has as many pairs of bits as there are full cycles.
LEMMA Genislik ==
    /\ GENISLIK \in Nat \ {0} /\ GENISLIK = 2 * (GENISLIK \div 2)
    /\ GENISLIK \div 2 \in Nat \ {0}
    /\ SonBit \in Nat /\ SonBit >= 3 /\ 2 * (SonBit - 2) = GENISLIK
<1>1. GENISLIK \in Nat \ {0} /\ GENISLIK % 2 = 0
  BY GenislikVarsayimi
<1>2. GENISLIK = 2 * (GENISLIK \div 2) /\ GENISLIK \div 2 \in Nat \ {0}
  BY <1>1
<1> QED
  BY <1>1, <1>2 DEF SonBit

\* Words have a top bit.
LEMMA SinirTipi ==
    /\ Sinir \in Nat /\ Sinir >= 2 /\ Sinir \div 2 \in Nat
    /\ Sinir = 2 * (Sinir \div 2)
    /\ IkiUs[GENISLIK + 1] = 2 * Sinir
<1>1. GENISLIK \in Nat /\ GENISLIK - 1 \in Nat /\ GENISLIK = (GENISLIK - 1) + 1
  BY Genislik
<1> DEFINE h == IkiUs[GENISLIK - 1]
<1>2. h \in Nat \ {0}
  BY <1>1, IkiUsTipi
<1>3. Sinir = 2 * h
  BY <1>1, IkiUsAdim DEF Sinir
<1>4. IkiUs[GENISLIK + 1] = 2 * Sinir
  BY <1>1, IkiUsAdim DEF Sinir
<1> HIDE DEF h
<1>5. Sinir \div 2 = h
  BY <1>2, <1>3
<1> QED
  BY <1>2, <1>3, <1>4, <1>5

\* A word and its absolute value, which is at most half of all words for signed operands.
LEMMA BuyuklukTipi ==
    ASSUME NEW b, NEW x \in Sozcuk
    PROVE  /\ Buyukluk(b, x) \in Sozcuk
           /\ Buyukluk(b, x) = IF Isaretli(b) /\ Negatif(x) THEN Sinir - x ELSE x
           /\ Isaretli(b) => Buyukluk(b, x) <= Sinir \div 2
           /\ Buyukluk(b, x) = 0 <=> x = 0
<1>1. x \in Nat /\ x < Sinir /\ Sinir \in Nat /\ Sinir >= 2 /\ Sinir = 2 * (Sinir \div 2) /\ Sinir \div 2 \in Nat
  BY SinirTipi DEF Sozcuk
<1>2. CASE Isaretli(b) /\ Negatif(x)
  <2>1. x >= Sinir \div 2
    BY <1>2 DEF Negatif
  <2>2. (Sinir - x) % Sinir = Sinir - x
    <3> DEFINE y == Sinir - x
    <3>1. y \in Nat /\ y < Sinir
      BY <1>1, <2>1
    <3> HIDE DEF y
    <3>2. y % Sinir = y
      BY <1>1, <3>1
    <3> QED
      BY <3>2 DEF y
  <2>3. Buyukluk(b, x) = Sinir - x
    BY <1>2, <2>2 DEF Buyukluk, Eksi
  <2> QED
    BY <1>1, <1>2, <2>1, <2>3 DEF Sozcuk
<1>3. CASE ~(Isaretli(b) /\ Negatif(x))
  <2>1. Buyukluk(b, x) = x
    BY <1>3 DEF Buyukluk
  <2>2. Isaretli(b) => x <= Sinir \div 2
    BY <1>1, <1>3 DEF Negatif
  <2> QED
    BY <1>1, <1>3, <2>1, <2>2 DEF Sozcuk
<1> QED
  BY <1>2, <1>3

-----------------------------------------------------------------------------
(* One step of the division *)

\* The registers keep their widths through it.
LEMMA AdimTipi ==
    ASSUME NEW f \in 0 .. 2 * Sinir - 1, NEW b \in 0 .. 2 * Sinir - 1, bolen_r \in Sozcuk
    PROVE  /\ Adim(f, b).fark \in 0 .. 2 * Sinir - 1
           /\ Adim(f, b).bolunen \in 0 .. 2 * Sinir - 1
<1> DEFINE m == 2 * Sinir
           c == ((f % Sinir) * 2 + b \div Sinir - bolen_r) % m
           k == (b * 2) % m
<1>1. Sinir \in Nat /\ Sinir >= 2
  BY SinirTipi
<1>2. m \in Nat \ {0} /\ f \in Nat /\ b \in Nat /\ b < m /\ bolen_r \in Nat
  BY <1>1 DEF Sozcuk
<1>3. c \in 0 .. m - 1
  <2>1. f % Sinir \in Int /\ b \div Sinir \in Int
    BY <1>1, <1>2
  <2> HIDE DEF m
  <2> QED
    BY <1>2, <2>1
<1>4. (c + bolen_r) % m \in 0 .. m - 1
  <2> HIDE DEF m, c
  <2> QED
    BY <1>2, <1>3
<1>5. k \in 0 .. m - 2
  <2> DEFINE y == b * 2
  <2>3. y \in Nat /\ y < 2 * m /\ m = 2 * Sinir /\ k = y % m
    BY <1>1, <1>2
  <2>1. CASE b < Sinir
    <3>1. y < m /\ y <= m - 2
      BY <1>1, <1>2, <2>1
    <3> HIDE DEF y, k, m
    <3>2. y % m = y
      BY <1>2, <2>3, <3>1
    <3> QED
      BY <1>2, <2>3, <3>1, <3>2
  <2>2. CASE b >= Sinir
    <3>1. y >= m /\ y - m <= m - 2
      BY <1>1, <1>2, <2>2
    <3> HIDE DEF y, k, m
    <3>2. y % m = y - m
      BY <1>2, <2>3, <3>1
    <3> QED
      BY <1>2, <2>3, <3>1, <3>2
  <2> QED
    BY <1>1, <1>2, <2>1, <2>2
<1>6. k \in 0 .. m - 1 /\ k + 1 \in 0 .. m - 1
  <2> HIDE DEF k
  <2> QED
    BY <1>1, <1>5
<1>7. /\ Adim(f, b).fark \in {c, (c + bolen_r) % m}
      /\ Adim(f, b).bolunen \in {k, k + 1}
  BY DEF Adim
<1> HIDE DEF c, k, m
<1>8. /\ Adim(f, b).fark \in 0 .. m - 1 /\ Adim(f, b).bolunen \in 0 .. m - 1
  BY <1>3, <1>4, <1>6, <1>7
<1> QED
  BY <1>8 DEF m

\* What the subtraction of the divisor d makes of x, the remainder and the next bit.
LEMMA AdimFark ==
    ASSUME NEW d \in 1 .. Sinir - 1, bolen_r = d, NEW f \in 0 .. d - 1, NEW t \in {0, 1},
           NEW b \in Nat, b \div Sinir = t
    PROVE  LET x == 2 * f + t
           IN  /\ x >= d => Adim(f, b) = [fark |-> x - d, bolunen |-> ((b * 2) % (2 * Sinir)) + 1]
               /\ x < d => Adim(f, b) = [fark |-> x, bolunen |-> (b * 2) % (2 * Sinir)]
<1> DEFINE x == 2 * f + t
           m == 2 * Sinir
           c == ((f % Sinir) * 2 + b \div Sinir - bolen_r) % m
<1>1. Sinir \in Nat /\ Sinir >= 2 /\ Sinir \div 2 \in Nat /\ Sinir = 2 * (Sinir \div 2)
  BY SinirTipi
<1>2. f \in Nat /\ d \in Nat /\ f < d /\ d < Sinir /\ t \in Nat /\ t <= 1
  BY <1>1
<1>3. f % Sinir = f
  BY <1>1, <1>2
<1> DEFINE z == x - d
<1>4. c = z % m /\ m \in Nat \ {0} /\ z \in Int
  BY <1>1, <1>2, <1>3
<1>5. CASE x >= d
  <2>1. c = x - d
    <3>1. 0 <= z /\ z < m
      BY <1>1, <1>2, <1>5
    <3> HIDE DEF z, m, c
    <3>2. z % m = z
      BY <1>4, <3>1
    <3> QED
      BY <1>4, <3>2 DEF z
  <2>2. c \div 2 < Sinir \div 2
    BY <1>1, <1>2, <1>5, <2>1
  <2>3. ~Negatif(c \div 2)
    BY <1>1, <1>2, <1>5, <2>1, <2>2 DEF Negatif
  <2> QED
    BY <1>5, <2>1, <2>3 DEF Adim
<1>6. CASE x < d
  <2>1. c = x - d + m
    <3>1. z < 0 /\ -m <= z
      BY <1>1, <1>2, <1>6
    <3> HIDE DEF z, m, c
    <3>2. z % m = z + m
      BY <1>4, <3>1
    <3> QED
      BY <1>4, <3>2 DEF z
  <2>2. c \div 2 >= Sinir \div 2
    BY <1>1, <1>2, <1>6, <2>1
  <2>3. Negatif(c \div 2)
    BY <2>2 DEF Negatif
  <2>4. (c + bolen_r) % m = x
    <3>1. c + bolen_r = x + m /\ x \in Nat /\ x < m
      BY <1>1, <1>2, <1>6, <2>1
    <3> HIDE DEF x, m, c
    <3>2. (x + m) % m = x
      BY <1>4, <3>1
    <3> QED
      BY <3>1, <3>2
  <2> QED
    BY <1>1, <1>2, <1>6, <2>3, <2>4 DEF Adim
<1> QED
  BY <1>1, <1>2, <1>5, <1>6

\* The arithmetic of a step: the top one of the bits l that are left joins the remainder.
LEMMA AdimSayi ==
    ASSUME NEW d \in Nat, NEW f \in Nat, NEW q \in Nat, NEW p \in Nat \ {0}, NEW l \in 0 .. 2 * p - 1,
           NEW u \in Nat \ {0}, NEW r \in 0 .. u - 1
    PROVE  \E t \in {0, 1}, k \in 0 .. p - 1 :
              /\ l = t * p + k
              /\ (q * d + f) * (2 * p) + l = ((2 * q) * d + (2 * f + t)) * p + k
              /\ k * u + r < p * u
              /\ l * u + r = t * (p * u) + (k * u + r)
<1>1. PICK t \in {0, 1}, k \in 0 .. p - 1 : l = t * p + k
  <2>1. CASE l < p
    <3>1. l \in 0 .. p - 1 /\ l = 0 * p + l
      BY <2>1
    <3> QED
      BY <3>1
  <2>2. CASE l >= p
    <3>1. l - p \in 0 .. p - 1 /\ l = 1 * p + (l - p)
      BY <2>2
    <3> QED
      BY <3>1
  <2> QED
    BY <2>1, <2>2
<1>2. t \in Nat /\ k \in Nat /\ k + 1 <= p /\ r \in Nat /\ r < u
  BY <1>1
<1>3. (q * d + f) * (2 * p) + l = ((2 * q) * d + (2 * f + t)) * p + k
  BY <1>1, <1>2
<1>4. k * u + r < p * u
  <2>1. (k + 1) * u <= p * u
    BY <1>2
  <2>2. (k + 1) * u = k * u + u
    BY <1>2
  <2>3. k * u \in Nat /\ p * u \in Nat
    BY <1>2
  <2> QED
    BY <1>2, <2>1, <2>2, <2>3
<1>5. l * u + r = t * (p * u) + (k * u + r)
  BY <1>1, <1>2
<1> QED
  BY <1>1, <1>3, <1>4, <1>5

\* A step takes another bit of a.
LEMMA AdimBolundu ==
    ASSUME NEW d \in 1 .. Sinir - 1, bolen_r = d, NEW a \in Nat, NEW n \in 0 .. GENISLIK,
           NEW f, NEW b, Bolundu(a, d, n, f, b)
    PROVE  Bolundu(a, d, n + 1, Adim(f, b).fark, Adim(f, b).bolunen)
<1> DEFINE u == IkiUs[n]
           p == IkiUs[GENISLIK - n]
           s == Adim(f, b)
<1>1. /\ n \in Nat /\ GENISLIK - n \in Nat /\ GENISLIK \in Nat
      /\ GENISLIK + 1 - n = (GENISLIK - n) + 1 /\ GENISLIK + 1 - (n + 1) = GENISLIK - n
  BY Genislik
<1>2. u \in Nat \ {0} /\ p \in Nat \ {0}
  BY <1>1, IkiUsTipi
<1>3. IkiUs[GENISLIK + 1 - n] = 2 * p /\ IkiUs[n + 1] = 2 * u
  BY <1>1, IkiUsAdim
<1>4. u * p = Sinir /\ p * u = Sinir /\ Sinir \in Nat \ {0} /\ d \in Nat
  <2>1. u * p = Sinir
    BY <1>1, IkiUsCarpim DEF Sinir
  <2> HIDE DEF u, p
  <2> QED
    BY <1>2, <2>1, SinirTipi
<1>5. PICK q \in 0 .. u - 1, l \in 0 .. 2 * p - 1 :
          f \in 0 .. d - 1 /\ a = (q * d + f) * (2 * p) + l /\ b = l * u + q
  BY <1>3 DEF Bolundu
<1> HIDE DEF u, p
<1>6. q \in Nat /\ f \in Nat /\ f < d /\ l \in Nat
  BY <1>2, <1>4, <1>5
<1>7. PICK t \in {0, 1}, k \in 0 .. p - 1 :
          /\ (q * d + f) * (2 * p) + l = ((2 * q) * d + (2 * f + t)) * p + k
          /\ k * u + q < p * u
          /\ l * u + q = t * (p * u) + (k * u + q)
  BY <1>2, <1>4, <1>5, <1>6, AdimSayi
<1> DEFINE x == 2 * f + t
           y == k * u + q
<1>8. y \in Nat /\ y < Sinir /\ b = t * Sinir + y /\ k \in Nat /\ t \in Nat
  <2>1. k \in Nat /\ t \in Nat
    BY <1>2, <1>7
  <2>2. k * u \in Nat
    BY <1>2, <2>1
  <2>3. y < Sinir /\ b = t * Sinir + y
    BY <1>4, <1>5, <1>7
  <2> QED
    BY <1>6, <2>1, <2>2, <2>3
<1>9. b \in Nat /\ b \div Sinir = t /\ (b * 2) % (2 * Sinir) = 2 * y
  <2> DEFINE z == 2 * y
             m == 2 * Sinir
  <2>3. z \in Nat /\ z < m /\ m \in Nat \ {0}
    BY <1>4, <1>8
  <2>4. z % m = z /\ (m + z) % m = z
    <3> HIDE DEF z, m
    <3> QED
      BY <2>3
  <2> HIDE DEF y
  <2>1. CASE t = 0
    <3>1. b = y
      BY <1>4, <1>8, <2>1
    <3>2. y \div Sinir = 0
      BY <1>4, <1>8
    <3>3. (2 * y) % (2 * Sinir) = 2 * y
      BY <2>4
    <3>4. b * 2 = 2 * y
      BY <1>8, <3>1
    <3> QED
      BY <1>8, <2>1, <3>1, <3>2, <3>3, <3>4
  <2>2. CASE t = 1
    <3>1. b = Sinir + y
      BY <1>4, <1>8, <2>2
    <3>2. (Sinir + y) \div Sinir = 1
      BY <1>4, <1>8
    <3>3. b * 2 = 2 * Sinir + 2 * y
      BY <1>4, <1>8, <3>1
    <3>4. (2 * Sinir + 2 * y) % (2 * Sinir) = 2 * y
      BY <2>4
    <3> QED
      BY <1>4, <1>8, <2>2, <3>1, <3>2, <3>3, <3>4
  <2> QED
    BY <2>1, <2>2
<1>10. 2 * y = k * (2 * u) + 2 * q
  BY <1>2, <1>6, <1>8
<1>11. a = ((2 * q) * d + x) * p + k
  BY <1>5, <1>7
<1>12. x \in Nat
  BY <1>6, <1>8
<1> HIDE DEF x, y
<1>13. CASE x >= d
  <2>1. s.fark = x - d /\ s.bolunen = 2 * y + 1
    BY <1>4, <1>5, <1>9, <1>13, AdimFark DEF x
  <2>2. 2 * q + 1 \in 0 .. 2 * u - 1
    BY <1>2, <1>5, <1>6
  <2>3. x - d \in 0 .. d - 1
    BY <1>4, <1>6, <1>7, <1>12, <1>13 DEF x
  <2>4. (2 * q) * d + x = (2 * q + 1) * d + (x - d)
    BY <1>4, <1>6, <1>12
  <2>5. s.bolunen = k * (2 * u) + (2 * q + 1)
    BY <1>2, <1>6, <1>8, <1>10, <2>1
  <2>6. a = ((2 * q + 1) * d + (x - d)) * p + k
    BY <1>11, <2>4
  <2> DEFINE qq == 2 * q + 1
  <2> HIDE DEF qq, s
  <2>7. /\ qq \in 0 .. IkiUs[n + 1] - 1 /\ k \in 0 .. IkiUs[GENISLIK + 1 - (n + 1)] - 1
        /\ s.fark \in 0 .. d - 1
        /\ a = (qq * d + s.fark) * IkiUs[GENISLIK + 1 - (n + 1)] + k
        /\ s.bolunen = k * IkiUs[n + 1] + qq
    BY <1>1, <1>3, <1>7, <2>1, <2>2, <2>3, <2>5, <2>6 DEF qq, p
  <2> QED
    BY <2>7 DEF Bolundu, s
<1>14. CASE x < d
  <2>1. s.fark = x /\ s.bolunen = 2 * y
    BY <1>4, <1>5, <1>9, <1>14, AdimFark DEF x
  <2>2. 2 * q \in 0 .. 2 * u - 1
    BY <1>2, <1>5, <1>6
  <2>3. x \in 0 .. d - 1
    BY <1>4, <1>12, <1>14
  <2> DEFINE qq == 2 * q
  <2> HIDE DEF s
  <2>4. s.bolunen = k * (2 * u) + qq
    BY <1>10, <2>1
  <2> HIDE DEF qq
  <2>7. /\ qq \in 0 .. IkiUs[n + 1] - 1 /\ k \in 0 .. IkiUs[GENISLIK + 1 - (n + 1)] - 1
        /\ s.fark \in 0 .. d - 1
        /\ a = (qq * d + s.fark) * IkiUs[GENISLIK + 1 - (n + 1)] + k
        /\ s.bolunen = k * IkiUs[n + 1] + qq
    BY <1>1, <1>3, <1>7, <1>11, <2>1, <2>2, <2>3, <2>4 DEF qq, p
  <2> QED
    BY <2>7 DEF Bolundu, s
<1> QED
  BY <1>4, <1>12, <1>13, <1>14

-----------------------------------------------------------------------------
(* The invariant *)

LEMMA SozcukTipi ==
    ASSUME TipDogru
    PROVE  /\ Sinir \in Nat /\ Sinir >= 2
           /\ 0 \in Sozcuk /\ 0 \in 0 .. 2 * Sinir - 1 /\ 0 \in 0 .. SonBit
           /\ Bolunuyor => buyruk \in Bolmeler /\ buyruk.bolen \in Sozcuk /\ buyruk.bolunen \in Sozcuk
<1>1. Sinir \in Nat /\ Sinir >= 2 /\ SonBit \in Nat
  BY SinirTipi, Genislik
<1>2. ASSUME Bolunuyor
      PROVE  buyruk \in Bolmeler
  BY <1>2 DEF TipDogru, Bolunuyor
<1> QED
  BY <1>1, <1>2 DEF Sozcuk, Bolmeler

LEMMA BaslangicIInv == ASSUME Init PROVE IInv
<1>1. Sinir \in Nat /\ Sinir >= 2 /\ SonBit \in Nat
  BY SinirTipi, Genislik
<1>2. TipDogru
  <2>1. 0 \in Sozcuk /\ 0 \in 0 .. 2 * Sinir - 1 /\ 0 \in 0 .. SonBit
    BY <1>1 DEF Sozcuk
  <2> QED
    BY <2>1 DEF Init, TipDogru
<1>3. DonguDogru
  BY DEF Init, DonguDogru
<1> QED
  BY <1>2, <1>3 DEF IInv

\* The registers are cleared: after a division, and while there is none.
LEMMA TemizleIInv ==
    ASSUME TipDogru, Temizle, buyruk' \in Bolmeler \cup {DIGER}, hazir' \in BOOLEAN
    PROVE  IInv'
<1>1. TipDogru'
  BY SozcukTipi DEF Temizle, TipDogru, Sozcuk
<1>2. DonguDogru'
  BY DEF Temizle, DonguDogru
<1> QED
  BY <1>1, <1>2 DEF IInv

\* Before the first bit nothing has been divided.
LEMMA BolunduBas ==
    ASSUME NEW d \in Sozcuk, d # 0, NEW a \in Sozcuk
    PROVE  Bolundu(a, d, 0, 0, a)
<1>1. Sinir \in Nat /\ Sinir >= 2 /\ a \in Nat /\ a < Sinir /\ d \in Nat \ {0}
  BY SinirTipi DEF Sozcuk
<1>2. GENISLIK + 1 - 0 = GENISLIK + 1
  BY Genislik
<1>3. IkiUs[0] = 1 /\ IkiUs[GENISLIK + 1 - 0] = 2 * Sinir
  BY <1>2, IkiUsAdim, SinirTipi
<1>4. /\ 0 \in 0 .. IkiUs[0] - 1 /\ a \in 0 .. 2 * Sinir - 1 /\ 0 \in 0 .. d - 1
      /\ a = (0 * d + 0) * (2 * Sinir) + a /\ a = a * IkiUs[0] + 0
  BY <1>1, <1>3
<1> QED
  BY <1>3, <1>4 DEF Bolundu

LEMMA IlkCevrimIInv ==
    ASSUME IInv, IlkCevrim, buyruk' = buyruk, hazir' \in BOOLEAN
    PROVE  IInv'
<1> DEFINE a == Buyukluk(buyruk, buyruk.bolunen)
           d == Buyukluk(buyruk, buyruk.bolen)
<1>1. /\ Bolunuyor /\ cevrim_r = 0 /\ fark_r = 0
      /\ bolen_r' = d /\ bolunen_r' = a /\ cevrim_r' = 1
      /\ bolunen1_r' = bolunen1_r /\ fark_r' = fark_r /\ fark1_r' = fark1_r
  BY DEF IlkCevrim, IInv, DonguDogru
<1>2. TipDogru
  BY DEF IInv
<1>3. a \in Sozcuk /\ d \in Sozcuk /\ (d = 0 <=> buyruk.bolen = 0)
  BY <1>1, <1>2, SozcukTipi, BuyuklukTipi
<1>4. Sinir \in Nat /\ SonBit \in Nat /\ SonBit >= 3 /\ Sozcuk \subseteq 0 .. 2 * Sinir - 1
  BY SinirTipi, Genislik DEF Sozcuk
<1>5. TipDogru'
  <2> HIDE DEF a, d
  <2>1. cevrim_r' \in 0 .. SonBit /\ a \in 0 .. 2 * Sinir - 1
    BY <1>1, <1>3, <1>4
  <2> QED
    BY <1>1, <1>2, <1>3, <2>1 DEF TipDogru
<1>6. DonguDogru'
  <2>1. Bolunuyor' /\ Buyukluk(buyruk, buyruk.bolen)' = d /\ Buyukluk(buyruk, buyruk.bolunen)' = a
    BY <1>1 DEF Bolunuyor
  <2>2. buyruk.bolen # 0 => Bolundu(a, d, 0, 0, a)
    BY <1>3, BolunduBas
  <2>3. 2 * (cevrim_r' - 1) = 0 /\ cevrim_r' # SonBit /\ cevrim_r' # 0
    BY <1>1, <1>4
  <2> HIDE DEF a, d
  <2>4. buyruk.bolen # 0 => Bolundu(a, bolen_r', 2 * (cevrim_r' - 1), fark_r', bolunen_r')
    BY <1>1, <2>2, <2>3
  <2> QED
    BY <1>1, <2>1, <2>3, <2>4 DEF DonguDogru
<1> QED
  BY <1>5, <1>6 DEF IInv

LEMMA IkiAdimIInv ==
    ASSUME IInv, IkiAdim, buyruk' = buyruk, hazir' \in BOOLEAN
    PROVE  IInv'
<1> DEFINE a == Buyukluk(buyruk, buyruk.bolunen)
           d == bolen_r
           n == 2 * (cevrim_r - 1)
           bir == Adim(fark_r, bolunen_r)
           iki == Adim(bir.fark, bir.bolunen)
<1>1. /\ Bolunuyor /\ cevrim_r \in 1 .. SonBit - 1 /\ cevrim_r' = cevrim_r + 1
      /\ fark1_r' = bir.fark /\ bolunen1_r' = bir.bolunen
      /\ fark_r' = iki.fark /\ bolunen_r' = iki.bolunen /\ bolen_r' = bolen_r
  BY DEF IkiAdim
<1>2. /\ TipDogru /\ bolen_r \in Sozcuk
      /\ fark_r \in 0 .. 2 * Sinir - 1 /\ bolunen_r \in 0 .. 2 * Sinir - 1
  BY DEF IInv, TipDogru
<1>3. SonBit \in Nat /\ 2 * (SonBit - 2) = GENISLIK /\ GENISLIK \in Nat
  BY Genislik
<1>4. bir.fark \in 0 .. 2 * Sinir - 1 /\ bir.bolunen \in 0 .. 2 * Sinir - 1
  BY <1>2, AdimTipi
<1>5. iki.fark \in 0 .. 2 * Sinir - 1 /\ iki.bolunen \in 0 .. 2 * Sinir - 1
  <2> HIDE DEF bir
  <2> QED
    BY <1>2, <1>4, AdimTipi
<1>6. TipDogru'
  <2> HIDE DEF bir, iki
  <2>1. cevrim_r' \in 0 .. SonBit
    BY <1>1, <1>3
  <2> QED
    BY <1>1, <1>2, <1>4, <1>5, <2>1 DEF TipDogru
<1>7. bolen_r = Buyukluk(buyruk, buyruk.bolen)
  BY <1>1 DEF IInv, DonguDogru
<1>8. ASSUME buyruk.bolen # 0
      PROVE  IF cevrim_r' = SonBit
             THEN Bolundu(a, d, GENISLIK + 1, fark1_r', bolunen1_r')
             ELSE Bolundu(a, d, 2 * (cevrim_r' - 1), fark_r', bolunen_r')
  <2>1. Bolundu(a, d, n, fark_r, bolunen_r)
    BY <1>1, <1>3, <1>8 DEF IInv, DonguDogru
  <2>2. a \in Nat /\ d \in 1 .. Sinir - 1
    BY <1>1, <1>2, <1>7, <1>8, SozcukTipi, BuyuklukTipi DEF Sozcuk
  <2>3. n \in 0 .. GENISLIK
    BY <1>1, <1>3
  <2> HIDE DEF a, d
  <2>4. bolen_r = d
    BY DEF d
  <2> HIDE DEF n
  <2>5. Bolundu(a, d, n + 1, bir.fark, bir.bolunen)
    BY <2>1, <2>2, <2>3, <2>4, AdimBolundu
  <2> HIDE DEF bir
  <2>6. CASE cevrim_r' = SonBit
    <3>1. n + 1 = GENISLIK + 1
      BY <1>1, <1>3, <2>6 DEF n
    <3> QED
      BY <1>1, <2>5, <2>6, <3>1
  <2>7. CASE cevrim_r' # SonBit
    <3>1. n + 1 \in 0 .. GENISLIK /\ (n + 1) + 1 = 2 * (cevrim_r' - 1)
      BY <1>1, <1>3, <2>7 DEF n
    <3>2. Bolundu(a, d, (n + 1) + 1, iki.fark, iki.bolunen)
      BY <2>2, <2>4, <2>5, <3>1, AdimBolundu
    <3> QED
      BY <1>1, <2>7, <3>1, <3>2
  <2> QED
    BY <2>6, <2>7
<1>9. DonguDogru'
  <2>1. Bolunuyor' /\ Buyukluk(buyruk, buyruk.bolen)' = Buyukluk(buyruk, buyruk.bolen)
        /\ Buyukluk(buyruk, buyruk.bolunen)' = a
    BY <1>1 DEF Bolunuyor
  <2>2. cevrim_r' # 0
    BY <1>1, <1>3
  <2> HIDE DEF a, bir, iki
  <2> QED
    BY <1>1, <1>7, <1>8, <2>1, <2>2 DEF DonguDogru
<1> QED
  BY <1>6, <1>9 DEF IInv

LEMMA AdimIInv == ASSUME IInv, [Next]_vars PROVE IInv'
<1>1. TipDogru
  BY DEF IInv
<1>2. CASE Saat
  <2>1. buyruk' \in Bolmeler \cup {DIGER} /\ hazir' \in BOOLEAN
    BY <1>1, <1>2 DEF Saat, Ilerle, Dur, TipDogru
  <2>2. CASE SonCevrim \/ BosCevrim
    BY <1>1, <2>1, <2>2, TemizleIInv DEF SonCevrim, BosCevrim
  <2>3. ASSUME IlkCevrim \/ IkiAdim
        PROVE  buyruk' = buyruk
    <3>1. ~Bitti
      BY <2>3, Genislik DEF IlkCevrim, IkiAdim, Bitti
    <3> QED
      BY <1>2, <3>1 DEF Saat, Ilerle, Dur
  <2>4. CASE IlkCevrim
    BY <2>1, <2>3, <2>4, IlkCevrimIInv
  <2>5. CASE IkiAdim
    BY <2>1, <2>3, <2>5, IkiAdimIInv
  <2> QED
    BY <1>2, <2>2, <2>4, <2>5 DEF Saat, Birim
<1>3. CASE Sifirla
  BY <1>1, <1>3, TemizleIInv DEF Sifirla
<1>4. CASE UNCHANGED vars
  <2> USE <1>4 DEF vars, birim_vars
  <2>1. TipDogru'
    BY <1>1 DEF TipDogru
  <2>2. DonguDogru'
    BY DEF IInv, DonguDogru, Bolunuyor
  <2> QED
    BY <2>1, <2>2 DEF IInv
<1> QED
  BY <1>2, <1>3, <1>4 DEF Next

-----------------------------------------------------------------------------
(* The result *)

\* In the end the registers hold quotient and remainder of the absolute values.
LEMMA SonDeger ==
    ASSUME IInv, Bolunuyor, Bitti, buyruk.bolen # 0
    PROVE  LET a == Buyukluk(buyruk, buyruk.bolunen)
               d == Buyukluk(buyruk, buyruk.bolen)
               q == bolunen1_r % Sinir
               k == fark1_r % Sinir
           IN  /\ a \in Sozcuk /\ d \in Sozcuk /\ d # 0
               /\ q \in Nat /\ k \in Nat /\ q <= a /\ k <= a /\ k < d /\ a = q * d + k
<1> DEFINE a == Buyukluk(buyruk, buyruk.bolunen)
           d == Buyukluk(buyruk, buyruk.bolen)
<1>1. cevrim_r = SonBit /\ SonBit # 0
  BY Genislik DEF Bitti
<1>2. a \in Sozcuk /\ d \in Sozcuk /\ d # 0
  BY SozcukTipi, BuyuklukTipi DEF IInv
<1>3. Bolundu(a, d, GENISLIK + 1, fark1_r, bolunen1_r)
  BY <1>1 DEF IInv, DonguDogru
<1> HIDE DEF a, d
<1>4. Sinir \in Nat /\ Sinir >= 2 /\ a \in Nat /\ a < Sinir /\ d \in Nat \ {0} /\ d < Sinir
  BY <1>2, SinirTipi DEF Sozcuk
<1>5. IkiUs[GENISLIK + 1 - (GENISLIK + 1)] = 1 /\ IkiUs[GENISLIK + 1] = 2 * Sinir
  <2>1. GENISLIK + 1 - (GENISLIK + 1) = 0
    BY Genislik
  <2> QED
    BY <2>1, IkiUsAdim, SinirTipi
<1>6. PICK q \in 0 .. 2 * Sinir - 1, l \in 0 .. 0 :
          fark1_r \in 0 .. d - 1 /\ a = (q * d + fark1_r) * 1 + l /\ bolunen1_r = l * (2 * Sinir) + q
  BY <1>3, <1>5 DEF Bolundu
<1> DEFINE k == fark1_r
<1>7. q \in Nat /\ k \in Nat /\ k < d /\ a = q * d + k /\ bolunen1_r = q
  <2>1. l = 0 /\ q \in Nat /\ k \in Nat /\ k < d
    BY <1>4, <1>6
  <2>2. q * d \in Nat
    BY <1>4, <2>1
  <2>3. (q * d + k) * 1 + 0 = q * d + k
    BY <2>1, <2>2
  <2>4. 0 * (2 * Sinir) + q = q
    BY <1>4, <2>1
  <2> QED
    BY <1>6, <2>1, <2>3, <2>4
<1>8. q <= a /\ k <= a
  <2>1. q * d >= q
    BY <1>4, <1>7
  <2>2. q * d \in Nat
    BY <1>4, <1>7
  <2> QED
    BY <1>4, <1>7, <2>1, <2>2
<1>9. q % Sinir = q /\ k % Sinir = k
  <2> HIDE DEF k
  <2> QED
    BY <1>4, <1>7, <1>8
<1> QED
  BY <1>2, <1>7, <1>8, <1>9 DEF a, d

\* Negation of words is negation of numbers.
LEMMA EksiMod ==
    ASSUME NEW x \in Sozcuk
    PROVE  Eksi(x) = (-x) % Sinir /\ x = x % Sinir
<1>1. x \in Nat /\ x < Sinir /\ Sinir \in Nat \ {0}
  BY SinirTipi DEF Sozcuk
<1>2. x % Sinir = x
  BY <1>1
<1> DEFINE y == -x
           z == Sinir - x
<1>3. y \in Int /\ z = y + Sinir /\ -Sinir < y /\ y <= 0
  BY <1>1
<1> HIDE DEF y, z
<1>4. z % Sinir = y % Sinir
  BY <1>1, <1>3
<1> QED
  BY <1>2, <1>4 DEF Eksi, y, z

\* What a division is of, by sign and absolute value.
LEMMA SayiBuyukluk ==
    ASSUME NEW b, NEW x \in Sozcuk
    PROVE  LET n == Sayi(b, x)
               m == Buyukluk(b, x)
           IN  /\ n \in Int /\ m \in Nat
               /\ n = IF Isaretli(b) /\ Negatif(x) THEN -m ELSE m
               /\ Isaretli(b) /\ Negatif(x) => m # 0
               /\ n = 0 <=> x = 0
<1> DEFINE s == Isaretli(b) /\ Negatif(x)
           n == Sayi(b, x)
           m == Buyukluk(b, x)
<1>1. /\ n = IF s THEN x - Sinir ELSE x
      /\ m = IF s THEN Sinir - x ELSE x
  BY BuyuklukTipi DEF Sayi
<1>2. Sinir \in Nat /\ x \in Nat /\ x < Sinir
  BY SinirTipi DEF Sozcuk
<1>3. s => x # 0
  BY <1>2, SinirTipi DEF Negatif
<1>4. /\ n \in Int /\ m \in Nat
      /\ n = IF s THEN -m ELSE m
      /\ s => m # 0
      /\ n = 0 <=> x = 0
  <2> HIDE DEF s, n, m
  <2>1. CASE s
    BY <1>1, <1>2, <1>3, <2>1
  <2>2. CASE ~s
    BY <1>1, <1>2, <2>2
  <2> QED
    BY <2>1, <2>2
<1> QED
  BY <1>4

\* When the divider has ended its output is the result.
LEMMA SonucDogruAdim == ASSUME IInv, Bolunuyor, Bitti PROVE RiscvSonucu(buyruk, Sonuc)
<1> DEFINE b == buyruk
           a == Sayi(b, b.bolunen)
           d == Sayi(b, b.bolen)
           A == Buyukluk(b, b.bolunen)
           D == Buyukluk(b, b.bolen)
           q == bolunen1_r % Sinir
           k == fark1_r % Sinir
<1>1. /\ b \in Bolmeler /\ b.bolunen \in Sozcuk /\ b.bolen \in Sozcuk
      /\ b.islem \in {"divu", "remu", "div", "rem"}
  BY SozcukTipi DEF IInv, Bolmeler
<1>2. d = 0 <=> b.bolen = 0
  BY <1>1, SayiBuyukluk
<1>3. CASE b.bolen = 0
  <2>1. Sonuc = IF b.islem \in {"div", "divu"} THEN Sinir - 1 ELSE b.bolunen
    BY <1>1, <1>3 DEF Sonuc
  <2> QED
    BY <1>2, <1>3, <2>1 DEF RiscvSonucu
<1>4. CASE b.bolen # 0
  <2> DEFINE an == Isaretli(b) /\ Negatif(b.bolunen)
             dn == Isaretli(b) /\ Negatif(b.bolen)
             qi == IF an = dn THEN q ELSE -q
             ki == IF an THEN -k ELSE k
  <2>1. /\ A \in Sozcuk /\ D \in Sozcuk /\ D # 0
        /\ q \in Nat /\ k \in Nat /\ q <= A /\ k <= A /\ k < D /\ A = q * D + k
    BY <1>4, SonDeger
  <2>2. /\ a \in Int /\ d \in Int /\ A \in Nat /\ D \in Nat
        /\ a = IF an THEN -A ELSE A
        /\ d = IF dn THEN -D ELSE D
        /\ an => A # 0
        /\ an \in BOOLEAN /\ dn \in BOOLEAN
    BY <1>1, SayiBuyukluk
  <2>3. /\ a - qi * d = ki /\ Mutlak(ki) < Mutlak(d)
        /\ a # 0 /\ ki # 0 => (ki < 0) = (a < 0)
    <3> HIDE DEF a, d, A, D, q, k, an, dn
    <3>1. q \in Nat /\ k \in Nat /\ A \in Nat /\ D \in Nat /\ A = q * D + k /\ k < D
      BY <2>1, <2>2
    <3>2. an \in BOOLEAN /\ dn \in BOOLEAN /\ (an => A # 0)
      BY <2>2
    <3>3. a = (IF an THEN -A ELSE A) /\ d = IF dn THEN -D ELSE D
      BY <2>2
    <3>4. CASE an /\ dn
      <4>1. a = -A /\ d = -D /\ qi = q /\ ki = -k
        BY <3>3, <3>4
      <4> QED
        BY <3>1, <4>1 DEF Mutlak
    <3>5. CASE an /\ ~dn
      <4>1. a = -A /\ d = D /\ qi = -q /\ ki = -k
        BY <3>2, <3>3, <3>5
      <4> QED
        BY <3>1, <4>1 DEF Mutlak
    <3>6. CASE ~an /\ dn
      <4>1. a = A /\ d = -D /\ qi = -q /\ ki = k
        BY <3>2, <3>3, <3>6
      <4> QED
        BY <3>1, <4>1 DEF Mutlak
    <3>7. CASE ~an /\ ~dn
      <4>1. a = A /\ d = D /\ qi = q /\ ki = k
        BY <3>2, <3>3, <3>7
      <4> QED
        BY <3>1, <4>1 DEF Mutlak
    <3> QED
      BY <3>2, <3>4, <3>5, <3>6, <3>7
  <2>4. ki # 0 => a # 0
    <3> HIDE DEF a, A, q, k, an
    <3> QED
      BY <2>1, <2>2
  <2>5. /\ Sinir \in Nat /\ q \in Sozcuk /\ k \in Sozcuk /\ qi \in -Sinir .. Sinir
    <3> HIDE DEF A, D, q, k, an, dn
    <3> QED
      BY <2>1, SinirTipi DEF Sozcuk
  <2>6. Sonuc = (IF b.islem \in {"div", "divu"} THEN qi ELSE ki) % Sinir
    <3>1. /\ Eksi(q) = (-q) % Sinir /\ q = q % Sinir
          /\ Eksi(k) = (-k) % Sinir /\ k = k % Sinir
      BY <2>5, EksiMod
    <3>2. Isaretli(b) <=> b.islem \in {"div", "rem"}
      BY DEF Isaretli
    <3>3. Negatif(b.bolunen) \in BOOLEAN /\ Negatif(b.bolen) \in BOOLEAN
      BY DEF Negatif
    <3> HIDE DEF q, k
    <3>4. CASE b.islem = "divu"
      <4>1. Sonuc = q /\ qi = q
        BY <1>4, <3>2, <3>4 DEF Sonuc, q
      <4> QED
        BY <3>1, <3>4, <4>1
    <3>5. CASE b.islem = "remu"
      <4>1. Sonuc = k /\ ki = k
        BY <1>4, <3>2, <3>5 DEF Sonuc, k
      <4> QED
        BY <3>1, <3>5, <4>1
    <3>6. CASE b.islem = "div"
      <4>1. Sonuc = IF Negatif(b.bolunen) # Negatif(b.bolen) THEN Eksi(q) ELSE q
        BY <1>4, <3>6 DEF Sonuc, q
      <4>2. an = Negatif(b.bolunen) /\ dn = Negatif(b.bolen)
        BY <3>2, <3>3, <3>6
      <4> HIDE DEF an, dn
      <4>3. Sonuc = qi % Sinir
        BY <3>1, <4>1, <4>2
      <4> QED
        BY <3>6, <4>3
    <3>7. CASE b.islem = "rem"
      <4>1. Sonuc = IF Negatif(b.bolunen) THEN Eksi(k) ELSE k
        BY <1>4, <3>7 DEF Sonuc, k
      <4>2. an = Negatif(b.bolunen)
        BY <3>2, <3>3, <3>7
      <4> HIDE DEF an, dn
      <4>3. Sonuc = ki % Sinir
        BY <3>1, <4>1, <4>2
      <4> QED
        BY <3>7, <4>3
    <3> QED
      BY <1>1, <3>4, <3>5, <3>6, <3>7
  <2>7. /\ Mutlak(a - qi * d) < Mutlak(d)
        /\ a - qi * d # 0 => (a - qi * d < 0) = (a < 0)
        /\ Sonuc = (IF b.islem \in {"div", "divu"} THEN qi ELSE a - qi * d) % Sinir
    <3> HIDE DEF a, d, qi, ki
    <3> QED
      BY <2>3, <2>4, <2>6
  <2>8. d # 0
    BY <1>2, <1>4
  <2> HIDE DEF qi
  <2> QED
    BY <2>5, <2>7, <2>8 DEF RiscvSonucu
<1> QED
  BY <1>3, <1>4

-----------------------------------------------------------------------------
(* The theorems *)

\* The loop invariant of bolme_birimi, two bits a cycle, across restarts and resets.
THEOREM IInvTeoremi == Spec => []IInv
<1>1. Init => IInv
  BY BaslangicIInv
<1>2. IInv /\ [Next]_vars => IInv'
  BY AdimIInv
<1> QED
  BY <1>1, <1>2, PTL DEF Spec

\* The registers of the divider keep their widths, the shifted ones with a bit more than an
\* operand (33 of them in bolme_birimi).
THEOREM TipTeoremi == Spec => []TipDogru
<1>1. IInv => TipDogru
  BY DEF IInv
<1> QED
  BY <1>1, IInvTeoremi, PTL

\* For operands of every even width the output of the divider is the RISC-V result of the
\* instruction in execute whenever the divider says it has ended (sonuc_o and bitti_o).
THEOREM SonucDogruTeoremi == Spec => []SonucDogru
<1>1. IInv => SonucDogru
  BY SonucDogruAdim DEF SonucDogru
<1> QED
  BY <1>1, IInvTeoremi, PTL

=============================================================================
