-------------------------- MODULE Lz4FormatTheorems --------------------------
(***************************************************************************)
(* What the lengths, tokens and copies of Lz4Format cost, for all numbers  *)
(* of the format that Lz4Assumption admits.                                *)
(***************************************************************************)
EXTENDS Lz4Format, FiniteSetsExt, SequenceTheorems, WellFoundedInduction, TLAPS

-----------------------------------------------------------------------------
(* Multiplication by a natural number is monotonic.                        *)
LEMMA ProductMono ==
  ASSUME NEW a \in Nat, NEW b \in Nat, NEW m \in Nat, a <= b
  PROVE  a * m <= b * m
<1> DEFINE d == b - a
<1>1. d \in Nat /\ b = a + d
  OBVIOUS
<1>2. d * m \in Nat
  BY <1>1
<1>3. (a + d) * m = a * m + d * m
  BY <1>1
<1> QED
  BY <1>1, <1>2, <1>3

(* Quotient and remainder.                                                 *)
LEMMA QuotientRemainder ==
  ASSUME NEW m \in Nat \ {0}, NEW a \in Nat
  PROVE  /\ a \div m \in Nat /\ a % m \in 0 .. m - 1
         /\ (a \div m) * m + (a % m) = a
  OBVIOUS

(* A quotient, multiplied again, is no more than what was divided.         *)
LEMMA QuotientTimes ==
  ASSUME NEW m \in Nat \ {0}, NEW a \in Nat
  PROVE  (a \div m) \in Nat /\ (a \div m) * m \in Nat /\ (a \div m) * m <= a
<1>1. (a \div m) \in Nat /\ a % m \in Nat /\ (a \div m) * m + (a % m) = a
  BY QuotientRemainder
<1> DEFINE q == a \div m
           r == a % m
<1>2. q * m \in Nat
  BY <1>1
<1> HIDE DEF q, r
<1>3. q * m <= a
  BY <1>1, <1>2 DEF q, r
<1> QED
  BY <1>1, <1>2, <1>3 DEF q

(* An upper bound of a quotient.                                           *)
LEMMA QuotientAtMost ==
  ASSUME NEW m \in Nat \ {0}, NEW a \in Nat, NEW q \in Nat, a < (q + 1) * m
  PROVE  a \div m <= q
<1> DEFINE d == a \div m
<1>1. d \in Nat /\ d * m <= a
  BY QuotientRemainder
<1>2. (q + 1) * m \in Nat /\ d * m \in Nat
  BY <1>1
<1> HIDE DEF d
<1>3. ASSUME d > q PROVE FALSE
  <2>1. (q + 1) * m <= d * m
    BY <1>1, <1>3, ProductMono
  <2> QED
    BY <1>1, <1>2, <2>1
<1>4. d <= q
  BY <1>1, <1>3
<1> QED
  BY <1>4 DEF d

(* A lower bound of a quotient.                                            *)
LEMMA QuotientAtLeast ==
  ASSUME NEW m \in Nat \ {0}, NEW a \in Nat, NEW q \in Nat, q * m <= a
  PROVE  q <= a \div m
<1> DEFINE d == a \div m
<1>1. d \in Nat /\ a < d * m + m
  BY QuotientRemainder
<1>2. (d + 1) * m = d * m + m /\ q * m \in Nat /\ d * m \in Nat
  BY <1>1
<1> HIDE DEF d
<1>3. ASSUME d < q PROVE FALSE
  <2>1. (d + 1) * m <= q * m
    BY <1>1, <1>3, ProductMono
  <2> QED
    BY <1>1, <1>2, <2>1
<1>4. q <= d
  BY <1>1, <1>3
<1> QED
  BY <1>4 DEF d

(* Quotients of parts do not add up to more than that of the whole.        *)
LEMMA QuotientSum ==
  ASSUME NEW m \in Nat \ {0}, NEW a \in Nat, NEW b \in Nat, NEW c \in Nat, a + b <= c
  PROVE  (a \div m) + (b \div m) <= c \div m
<1> DEFINE d == a \div m
           e == b \div m
<1>1. d \in Nat /\ e \in Nat /\ d * m <= a /\ e * m <= b
  BY QuotientRemainder
<1> HIDE DEF d, e
<1>2. (d + e) * m = d * m + e * m /\ d * m \in Nat /\ e * m \in Nat
  BY <1>1
<1>3. d + e <= c \div m
  BY <1>1, <1>2, QuotientAtLeast
<1> QED
  BY <1>3 DEF d, e

(* One divisor more, one more in the quotient.                             *)
LEMMA QuotientNext ==
  ASSUME NEW m \in Nat \ {0}, NEW a \in Nat
  PROVE  (a + m) \div m = (a \div m) + 1
<1> DEFINE q == a \div m
           r == a % m
           b == a + m
<1>1. q \in Nat /\ r \in 0 .. m - 1 /\ q * m + r = a
  BY QuotientRemainder
<1> HIDE DEF q, r
<1>2. /\ (q + 1) * m = q * m + m /\ ((q + 1) + 1) * m = q * m + m + m
      /\ q * m \in Nat
  BY <1>1
<1>3. b \in Nat /\ (q + 1) * m <= b /\ b < ((q + 1) + 1) * m /\ q + 1 \in Nat
  BY <1>1, <1>2
<1> HIDE DEF b
<1>4. b \div m = q + 1
  <2>1. b \div m <= q + 1
    BY <1>3, QuotientAtMost
  <2>2. q + 1 <= b \div m
    BY <1>3, QuotientAtLeast
  <2>3. b \div m \in Nat
    BY <1>3, QuotientTimes
  <2> QED
    BY <1>3, <2>1, <2>2, <2>3
<1> QED
  BY <1>4 DEF b, q

-----------------------------------------------------------------------------
(* The numbers are what they seem.                                         *)
LEMMA Numbers ==
  /\ MASK \in Nat \ {0} /\ MAXBYTE \in Nat \ {0} /\ MASK <= MAXBYTE
  /\ MINMATCH \in Nat /\ LASTLITERALS \in Nat \ {0} /\ WILDCOPYLENGTH \in Nat \ {0}
  /\ MFLIMIT \in Nat
<1> USE Lz4Assumption
<1> DEFINE k == MASK + 1
<1>1. k \in Nat /\ 2 <= k
  OBVIOUS
<1>2. 2 * k <= k * k
  <2> HIDE DEF k
  <2> QED
    BY <1>1, ProductMono
<1>3. MAXBYTE = k * k - 1 /\ MASK = k - 1
  OBVIOUS
<1>4. k * k \in Nat
  BY <1>1
<1>5. MAXBYTE \in Nat \ {0} /\ MASK <= MAXBYTE
  <2> HIDE DEF k
  <2> QED
    BY <1>1, <1>2, <1>3, <1>4
<1> QED
  BY <1>5

(* The bytes that follow a token for the rest of a length: at most one     *)
(* more than a MAXBYTE-th of it, and no more than the length.              *)
LEMMA ExtensionCost ==
  ASSUME NEW len \in Nat
  PROVE  /\ ExtensionSize(len) \in Nat
         /\ ExtensionSize(len) <= len \div MAXBYTE + 1
         /\ ExtensionSize(len) <= len
         /\ len < MASK => ExtensionSize(len) = 0
<1> USE Lz4Assumption
<1>0. MAXBYTE \in Nat \ {0} /\ MASK \in Nat \ {0}
  BY Numbers
<1>1. CASE len < MASK
  BY <1>0, <1>1, QuotientRemainder DEF ExtensionSize
<1>2. CASE len >= MASK
  <2> DEFINE r == len - MASK
             q == r \div MAXBYTE
  <2>1. r \in Nat /\ r + MASK = len
    BY <1>0, <1>2
  <2>2. q \in Nat /\ q * MAXBYTE <= r
    <3> HIDE DEF r
    <3> QED
      BY <2>1, <1>0, QuotientTimes
  <2>3. q <= q * MAXBYTE
    <3> HIDE DEF q
    <3> QED
      BY <2>2, <1>0, ProductMono
  <2>4. q + (MASK \div MAXBYTE) <= len \div MAXBYTE
    BY <2>1, <1>0, QuotientSum
  <2>5. MASK \div MAXBYTE \in Nat /\ len \div MAXBYTE \in Nat
    BY <1>0, QuotientRemainder
  <2>6. ExtensionSize(len) = q + 1
    BY <1>0, <1>2 DEF ExtensionSize
  <2>7. q * MAXBYTE \in Nat
    BY <2>2, <1>0
  <2> HIDE DEF q, r
  <2> QED
    BY <1>0, <1>2, <2>1, <2>2, <2>3, <2>4, <2>5, <2>6, <2>7
<1> QED
  BY <1>1, <1>2, <1>0

(* A length that needs no more than a given number of bytes.               *)
LEMMA ExtensionFits ==
  ASSUME NEW len \in Nat, NEW k \in Nat, len < MASK + k * MAXBYTE
  PROVE  ExtensionSize(len) <= k
<1> USE Lz4Assumption
<1>0. MAXBYTE \in Nat \ {0} /\ MASK \in Nat \ {0} /\ k * MAXBYTE \in Nat
  BY Numbers
<1>1. CASE len < MASK
  BY <1>0, <1>1 DEF ExtensionSize
<1>2. CASE len >= MASK
  <2> DEFINE r == len - MASK
             j == k - 1
  <2>1. r \in Nat /\ r < k * MAXBYTE
    BY <1>0, <1>2
  <2>2. k > 0
    <3>1. ASSUME k = 0 PROVE FALSE
      BY <3>1, <2>1, <1>0
    <3> QED
      BY <3>1
  <2>3. j \in Nat /\ k = j + 1
    BY <2>2
  <2>4. r < (j + 1) * MAXBYTE
    BY <2>1, <2>3
  <2>5. r \div MAXBYTE <= j
    <3> HIDE DEF j, r
    <3> QED
      BY <2>1, <2>3, <2>4, <1>0, QuotientAtMost
  <2>6. ExtensionSize(len) = (r \div MAXBYTE) + 1
    BY <1>0, <1>2 DEF ExtensionSize
  <2>7. r \div MAXBYTE \in Nat
    BY <2>1, <1>0, QuotientRemainder
  <2> QED
    BY <2>3, <2>5, <2>6, <2>7
<1> QED
  BY <1>1, <1>2, <1>0

(* A longer length needs no fewer bytes.                                   *)
LEMMA ExtensionMono ==
  ASSUME NEW a \in Nat, NEW b \in Nat, a <= b
  PROVE  ExtensionSize(a) <= ExtensionSize(b)
<1> USE Lz4Assumption
<1>0. MAXBYTE \in Nat \ {0} /\ MASK \in Nat \ {0}
  BY Numbers
<1>1. CASE a < MASK
  BY <1>0, <1>1, ExtensionCost
<1>2. CASE a >= MASK
  <2> DEFINE r == a - MASK
             s == b - MASK
             d == b - a
  <2>1. r \in Nat /\ s \in Nat /\ d \in Nat /\ r + d <= s
    BY <1>0, <1>2
  <2>2. (r \div MAXBYTE) + (d \div MAXBYTE) <= s \div MAXBYTE
    <3> HIDE DEF r, s, d
    <3> QED
      BY <2>1, <1>0, QuotientSum
  <2>3. r \div MAXBYTE \in Nat /\ d \div MAXBYTE \in Nat /\ s \div MAXBYTE \in Nat
    BY <2>1, <1>0, QuotientRemainder
  <2>4. ExtensionSize(a) = (r \div MAXBYTE) + 1 /\ ExtensionSize(b) = (s \div MAXBYTE) + 1
    BY <1>0, <1>2 DEF ExtensionSize
  <2> HIDE DEF r, s, d
  <2> QED
    BY <2>2, <2>3, <2>4
<1> QED
  BY <1>1, <1>2, <1>0

-----------------------------------------------------------------------------
(* The bytes of the rest of a length.                                      *)
LEMMA ExtensionType ==
  ASSUME NEW len \in Nat
  PROVE  Extension(len) \in Seq(U8) /\ Len(Extension(len)) = ExtensionSize(len)
<1> USE Lz4Assumption
<1> DEFINE k == ExtensionSize(len)
           e(i) == IF i < k THEN MAXBYTE ELSE (len - MASK) % MAXBYTE
<1>1. k \in Nat
  BY ExtensionCost
<1>2. \A i \in 1 .. k : e(i) \in U8
  <2>1. SUFFICES ASSUME NEW i \in 1 .. k PROVE e(i) \in U8
    OBVIOUS
  <2>2. len >= MASK
    <3>1. ASSUME len < MASK PROVE FALSE
      BY <2>1, <3>1 DEF ExtensionSize
    <3> QED
      BY <3>1
  <2>3. len - MASK \in Nat
    BY <2>2
  <2>4. (len - MASK) % MAXBYTE \in 0 .. MAXBYTE - 1
    BY <2>3, Numbers, QuotientRemainder
  <2> QED
    BY <2>4, Numbers DEF U8
<1>3. Extension(len) = [i \in 1 .. k |-> e(i)]
  BY DEF Extension
<1>4. Extension(len) \in [1 .. k -> U8]
  BY <1>2, <1>3
<1> HIDE DEF k, e
<1>5. Extension(len) \in Seq(U8)
  BY <1>1, <1>4, SeqDef
<1>6. DOMAIN Extension(len) = 1 .. k
  BY <1>4
<1>7. Len(Extension(len)) = k
  BY <1>1, <1>5, <1>6, LenProperties
<1> QED
  BY <1>5, <1>7 DEF k

(* A token is a byte.                                                      *)
LEMMA TokenType ==
  ASSUME NEW a \in Nat, NEW b \in Nat
  PROVE  Token(a, b) \in U8
<1> USE Lz4Assumption
<1> DEFINE s == Short(a)
           t == Short(b)
           k == MASK + 1
<1>1. s \in 0 .. k - 1 /\ t \in 0 .. k - 1 /\ k \in Nat
  BY DEF Short
<1>2. s * k <= (k - 1) * k
  <2>1. k - 1 \in Nat /\ s \in Nat /\ s <= k - 1
    BY <1>1
  <2> HIDE DEF s, k
  <2> QED
    BY <2>1, <1>1, ProductMono
<1>3. (k - 1) * k = k * k - k /\ s * k \in Nat /\ k * k \in Nat
  BY <1>1
<1>4. Token(a, b) = s * k + t /\ MAXBYTE = k * k - 1
  BY DEF Token
<1> HIDE DEF s, t, k
<1> QED
  BY <1>1, <1>2, <1>3, <1>4 DEF U8

(* A distance takes two bytes.                                             *)
LEMMA LE16Type ==
  ASSUME NEW v \in 1 .. DISTANCE_MAX
  PROVE  LE16(v) \in Seq(U8) /\ Len(LE16(v)) = 2
<1> USE Lz4Assumption
<1> DEFINE k == MAXBYTE + 1
<1>1. k \in Nat \ {0} /\ MAXBYTE \in Nat
  BY Numbers
<1>2. v \in Nat /\ v < k * k
  <2>1. DISTANCE_MAX \in 1 .. k * k - 1
    OBVIOUS
  <2>2. k * k \in Nat
    BY <1>1
  <2> HIDE DEF k
  <2> QED
    BY <2>1, <2>2
<1>3. v % k \in 0 .. k - 1 /\ v \div k \in Nat
  BY <1>1, <1>2, QuotientRemainder
<1>4. v \div k <= MAXBYTE
  <2>1. v < (MAXBYTE + 1) * k
    BY <1>2
  <2> HIDE DEF k
  <2> QED
    BY <1>1, <1>2, <2>1, QuotientAtMost
<1>5. v % k \in U8 /\ v \div k \in U8
  BY <1>1, <1>3, <1>4 DEF U8
<1>6. LE16(v) = <<v % k, v \div k>>
  BY DEF LE16
<1> HIDE DEF k
<1> QED
  BY <1>5, <1>6

(* How far a copy in whole pieces goes.                                    *)
LEMMA WildCopyReach ==
  ASSUME NEW from \in Nat, NEW len \in Nat
  PROVE  /\ WildCopyEnd(from, len) \in Nat
         /\ WildCopyEnd(from, len) <= from + len + WILDCOPYLENGTH
         /\ len > 0 => WildCopyEnd(from, len) <= from + len + WILDCOPYLENGTH - 1
<1> DEFINE w == WILDCOPYLENGTH
           a == len + w - 1
           q == a \div w
<1>0. w \in Nat \ {0} /\ a \in Nat
  BY Numbers
<1>1. q \in Nat /\ q * w <= a
  <2> HIDE DEF w, a
  <2> QED
    BY <1>0, QuotientTimes
<1>2. q * w \in Nat
  BY <1>0, <1>1
<1>3. CASE len = 0
  BY <1>0, <1>3 DEF WildCopyEnd
<1>4. CASE len > 0
  <2>1. WildCopyEnd(from, len) = from + q * w
    BY <1>4 DEF WildCopyEnd
  <2>2. from + q * w <= from + a
    <3> HIDE DEF q, w, a
    <3> QED
      BY <1>0, <1>1, <1>2
  <2>3. from + a = from + len + w - 1
    BY <1>0
  <2> HIDE DEF q, a
  <2> QED
    BY <2>1, <2>2, <2>3, <1>0, <1>2, <1>4
<1> QED
  BY <1>3, <1>4
-----------------------------------------------------------------------------
(* The order of the natural numbers as a set of pairs.                     *)
LEMMA NaturalOrder ==
  \E R : IsWellFoundedOn(R, Nat) /\ \A a, b \in Nat : a < b => <<a, b>> \in R
<1>1. \A a, b \in Nat : a < b => <<a, b>> \in OpToRel(<, Nat)
  BY Zenon DEF OpToRel
<1> QED
  BY <1>1, NatLessThanWellFounded, Zenon

(* A set of natural numbers has a least one: induction, for this prover.   *)
LEMMA LeastNatural ==
  ASSUME NEW T, T \subseteq Nat, T # {}
  PROVE  \E x \in T : \A y \in T : x <= y
<1>1. PICK R : IsWellFoundedOn(R, Nat) /\ \A a, b \in Nat : a < b => <<a, b>> \in R
  BY NaturalOrder
<1>2. PICK x \in T : \A y \in T : ~ (<<y, x>> \in R)
  BY <1>1, WFMin
<1>3. ASSUME NEW y \in T PROVE x <= y
  <2>1. x \in Nat /\ y \in Nat
    OBVIOUS
  <2>2. ~(y < x)
    BY <1>1, <1>2, <2>1, Zenon
  <2> QED
    BY <2>1, <2>2
<1> QED
  BY <1>3

(* The greatest of a set of numbers that has a bound.                      *)
Bounded(T, b) == T # {} /\ T \subseteq Int /\ \A y \in T : y <= b

LEMMA Greatest ==
  ASSUME NEW T, NEW b \in Int, Bounded(T, b)
  PROVE  Max(T) \in T /\ \A y \in T : y <= Max(T)
<1> DEFINE U == {b - t : t \in T}
<1>1. U \subseteq Nat /\ U # {}
  <2>1. \A t \in T : b - t \in Nat
    BY DEF Bounded
  <2> QED
    BY <2>1 DEF Bounded
<1> HIDE DEF U
<1>2. PICK x \in U : \A y \in U : x <= y
  BY <1>1, LeastNatural
<1>3. PICK t \in T : x = b - t
  BY <1>2 DEF U
<1>4. \A y \in T : y <= t
  <2>1. TAKE y \in T
  <2>2. b - y \in U
    BY DEF U
  <2>3. b - t <= b - y
    BY <1>2, <1>3, <2>2
  <2> QED
    BY <2>3 DEF Bounded
<1>5. \A y \in T : t >= y
  BY <1>4 DEF Bounded
<1>6. \E z \in T : \A y \in T : z >= y
  BY <1>5
<1>7. Max(T) \in T /\ \A y \in T : Max(T) >= y
  BY <1>6 DEF Max
<1> QED
  BY <1>7 DEF Bounded

(* The smaller and the greater of two numbers.                             *)
LEMMA MinIs ==
  ASSUME NEW a \in Int, NEW b \in Int
  PROVE  Min({a, b}) = IF a <= b THEN a ELSE b
<1> DEFINE m == IF a <= b THEN a ELSE b
           P(x) == x \in {a, b} /\ \A y \in {a, b} : x <= y
<1>1. P(m)
  OBVIOUS
<1>2. \A x \in {a, b} : P(x) => x = m
  OBVIOUS
<1>3. Min({a, b}) = CHOOSE x \in {a, b} : \A y \in {a, b} : x <= y
  BY DEF Min
<1>4. Min({a, b}) \in {a, b} /\ P(Min({a, b}))
  BY <1>1, <1>3
<1> QED
  BY <1>2, <1>4

LEMMA MaxIs ==
  ASSUME NEW a \in Int, NEW b \in Int
  PROVE  Max({a, b}) = IF a >= b THEN a ELSE b
<1> DEFINE m == IF a >= b THEN a ELSE b
           P(x) == x \in {a, b} /\ \A y \in {a, b} : x >= y
<1>1. P(m)
  OBVIOUS
<1>2. \A x \in {a, b} : P(x) => x = m
  OBVIOUS
<1>3. Max({a, b}) = CHOOSE x \in {a, b} : \A y \in {a, b} : x >= y
  BY DEF Max
<1>4. Max({a, b}) \in {a, b} /\ P(Max({a, b}))
  BY <1>1, <1>3
<1> QED
  BY <1>2, <1>4

(* Remainders.                                                             *)
LEMMA RemainderUnique ==
  ASSUME NEW m \in Nat \ {0}, NEW q \in Nat, NEW r \in 0 .. m - 1, NEW a \in Nat, a = q * m + r
  PROVE  a % m = r /\ a \div m = q
<1> DEFINE d == a \div m
           e == a % m
<1>1. d \in Nat /\ e \in 0 .. m - 1 /\ d * m + e = a
  BY QuotientRemainder
<1>2. q * m \in Nat /\ d * m \in Nat /\ (q + 1) * m = q * m + m /\ (d + 1) * m = d * m + m
  BY <1>1
<1> HIDE DEF d, e
<1>3. ~(d < q)
  <2>1. d < q => (d + 1) * m <= q * m
    BY <1>1, ProductMono
  <2> QED
    BY <1>1, <1>2, <2>1
<1>4. ~(q < d)
  <2>1. q < d => (q + 1) * m <= d * m
    BY <1>1, ProductMono
  <2> QED
    BY <1>1, <1>2, <2>1
<1>5. d = q
  BY <1>1, <1>3, <1>4
<1>6. e = r
  BY <1>1, <1>2, <1>5
<1> QED
  BY <1>5, <1>6 DEF d, e

(* What the decoder reads from a token.                                    *)
LEMMA TokenRead ==
  ASSUME NEW a \in Nat, NEW b \in Nat
  PROVE  /\ Token(a, b) \div (MASK + 1) = Short(a)
         /\ Token(a, b) % (MASK + 1) = Short(b)
<1> DEFINE m == MASK + 1
           s == Short(a)
           t == Short(b)
<1>1. m \in Nat \ {0} /\ s \in Nat /\ t \in 0 .. m - 1
  BY Numbers DEF Short
<1>2. Token(a, b) = s * m + t
  BY DEF Token
<1> HIDE DEF m, s, t
<1>3. s * m + t \in Nat
  BY <1>1
<1>4. (s * m + t) % m = t /\ (s * m + t) \div m = s
  BY <1>1, <1>3, RemainderUnique
<1> QED
  BY <1>2, <1>4 DEF m, s, t

(* From j on, len bytes are the same as those `off` positions before.      *)
Periodic(s, j, off, len) == \A i \in 1 .. len : s[j + i] = s[j - off + i]

(* A match gives, byte for byte, what it was found to be equal to, also    *)
(* where it overlaps with itself.                                          *)
LEMMA OverlapRepeats ==
  ASSUME NEW s, NEW j \in Nat, NEW len \in Nat, NEW off \in 1 .. j,
         Periodic(s, j, off, len)
  PROVE  \A i \in 1 .. len : s[j + i] = s[j - off + 1 + ((i - 1) % off)]
<1> DEFINE Differs(i) == s[j + i] # s[j - off + 1 + ((i - 1) % off)]
           T == {i \in 1 .. len : Differs(i)}
<1>1. SUFFICES ASSUME T # {} PROVE FALSE
  OBVIOUS
<1>2. T \subseteq Nat
  OBVIOUS
<1>0. off \in Nat \ {0}
  OBVIOUS
<1>3. PICK x \in T : \A y \in T : x <= y
  <2> HIDE DEF T
  <2> QED
    BY <1>1, <1>2, LeastNatural
<1>4. x \in 1 .. len /\ Differs(x) /\ s[j + x] = s[j - off + x] /\ off \in Nat \ {0}
  BY <1>3 DEF Periodic
<1>5. CASE x <= off
  <2>1. (x - 1) % off = x - 1
    <3> DEFINE z == x - 1
    <3>1. z \in Nat /\ z \in 0 .. off - 1 /\ z = 0 * off + z
      BY <1>4, <1>5
    <3> HIDE DEF z, T
    <3>2. z % off = z
      BY <1>0, <3>1, RemainderUnique
    <3> QED
      BY <3>2 DEF z
  <2>2. j - off + 1 + (x - 1) = j - off + x
    BY <1>4
  <2> QED
    BY <1>4, <2>1, <2>2
<1>6. CASE x > off
  <2> DEFINE y == x - off
             q == (y - 1) \div off
             r == (y - 1) % off
  <2>1. y \in 1 .. len /\ y < x /\ y - 1 \in Nat /\ j - off + x = j + y /\ x - 1 = (y - 1) + off
    BY <1>4, <1>6
  <2>2. q \in Nat /\ r \in 0 .. off - 1 /\ q * off + r = y - 1
    <3> HIDE DEF y
    <3> QED
      BY <1>4, <2>1, QuotientRemainder
  <2>3. (x - 1) % off = r
    <3> HIDE DEF q, r, y
    <3>1. (q + 1) * off = q * off + off /\ q * off \in Nat
      BY <2>2
    <3> DEFINE z == x - 1
               k == q + 1
    <3>2. z = k * off + r /\ z \in Nat /\ k \in Nat
      BY <2>1, <2>2, <3>1, <1>4
    <3> HIDE DEF z, k, T
    <3>4. z % off = r
      <4>1. k * off + r \in Nat
        BY <3>2
      <4>2. r \in 0 .. off - 1 /\ k \in Nat
        BY <2>2, <3>2
      <4>3. (k * off + r) % off = r
        BY <1>0, <4>1, <4>2, RemainderUnique
      <4> QED
        BY <3>2, <4>3
    <3> QED
      BY <3>4 DEF z
  <2>4. y \notin T
    <3> HIDE DEF y, T
    <3>1. y \in Nat /\ x \in Nat
      BY <1>4, <2>1
    <3> QED
      BY <1>3, <2>1, <3>1
  <2>5. s[j + y] = s[j - off + 1 + r]
    BY <2>1, <2>4
  <2> QED
    BY <1>4, <2>1, <2>3, <2>5
<1> QED
  BY <1>4, <1>5, <1>6
==============================================================================
