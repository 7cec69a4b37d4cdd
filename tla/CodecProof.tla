----------------------------- MODULE CodecProof -----------------------------
(***************************************************************************)
(* Proofs about the picture codec of NlcCodec.tla: for every picture,      *)
(* every near_lvl and either front end, a line that the encoder of         *)
(* nlc_codec.cpp wrote is rebuilt by its decoder, sample for sample as the *)
(* encoder predicted it and within near_lvl of what was given.             *)
(*                                                                         *)
(* What is computed by recursion (packed text, prefix sums, a decoded      *)
(* line) is reached through UpTo, an induction over the numbers up to n    *)
(* that is proved from the well-foundedness of <, and through Recursion,   *)
(* by which such a function exists at all.                                 *)
(***************************************************************************)
EXTENDS NlcCodec, FiniteSetTheorems, FunctionTheorems, SequenceTheorems,
        WellFoundedInduction, TLAPS

-----------------------------------------------------------------------------
(* Numbers, powers of two and functions defined by recursion.              *)

\* A set of naturals that is not empty has a least element.
LEMMA LeastNatural ==
  ASSUME NEW T, T \subseteq Nat, T # {}
  PROVE  \E x \in T : \A y \in T : x <= y
<1>1. PICK x \in T : \A y \in T : ~(<<y, x>> \in OpToRel(<, Nat))
  BY NatLessThanWellFounded, WFMin
<1>2. \A y \in T : x <= y
  <2> SUFFICES ASSUME NEW y \in T, y < x PROVE FALSE
    OBVIOUS
  <2>1. <<y, x>> \in Nat \X Nat /\ <<y, x>>[1] < <<y, x>>[2]
    OBVIOUS
  <2>2. <<y, x>> \in OpToRel(<, Nat)
    BY <2>1, Zenon DEF OpToRel
  <2> QED
    BY <1>1, <2>2
<1> QED
  BY <1>2

\* A set that holds 0 and the successor of what it holds, up to n, holds all up to n.
LEMMA UpTo ==
  ASSUME NEW n \in Nat, NEW T, 0 \in T, \A x \in 1 .. n : x - 1 \in T => x \in T
  PROVE  \A x \in 0 .. n : x \in T
<1> DEFINE bad == (0 .. n) \ T
<1> SUFFICES ASSUME bad # {} PROVE FALSE
  OBVIOUS
<1>1. PICK x \in bad : \A y \in bad : x <= y
  <2>1. bad \subseteq Nat /\ bad # {}
    OBVIOUS
  <2> HIDE DEF bad
  <2> QED
    BY <2>1, LeastNatural
<1>2. x - 1 \in 0 .. n /\ x \in 1 .. n
  BY <1>1
<1> QED
  BY <1>1, <1>2

\* A power of two is a natural, and the next one is twice as large.
LEMMA TwiceAs ==
  ASSUME NEW n \in Nat
  PROVE  /\ 2 ^ n \in Nat
         /\ 2 ^ (n + 1) = 2 * 2 ^ n
<1> DEFINE S == 1 .. n
           new == n + 1
           Ax == {B \union {new} : B \in SUBSET S}
<1>1. /\ IsFiniteSet(S) /\ Cardinality(S) = n
      /\ IsFiniteSet(S \union {new}) /\ Cardinality(S \union {new}) = n + 1
  <2>1. IsFiniteSet(S) /\ Cardinality(S) = n
    BY FS_Interval
  <2>2. new \notin S
    OBVIOUS
  <2> QED
    BY <2>1, <2>2, FS_AddElement
<1>2. /\ IsFiniteSet(SUBSET S) /\ Cardinality(SUBSET S) = 2 ^ n
      /\ IsFiniteSet(SUBSET (S \union {new}))
      /\ Cardinality(SUBSET (S \union {new})) = 2 ^ (n + 1)
  BY <1>1, FS_SUBSET, Zenon
<1> HIDE DEF S
<1>0. new \notin S /\ new \in Nat
  BY DEF S
<1> HIDE DEF new
<1>3. SUBSET (S \union {new}) = (SUBSET S) \union Ax
  <2>1. ASSUME NEW B \in SUBSET (S \union {new}) PROVE B \in (SUBSET S) \union Ax
    <3>1. CASE new \in B
      <4>1. B \ {new} \in SUBSET S /\ (B \ {new}) \union {new} = B
        BY <3>1
      <4> QED
        BY <4>1
    <3> QED
      BY <3>1
  <2>2. ASSUME NEW B \in (SUBSET S) \union Ax PROVE B \in SUBSET (S \union {new})
    OBVIOUS
  <2> QED
    BY <2>1, <2>2
<1>4. (SUBSET S) \intersect Ax = {}
  BY <1>0
<1> DEFINE f == [B \in SUBSET S |-> B \union {new}]
<1>5. f \in Bijection(SUBSET S, Ax)
  <2>1. f \in [SUBSET S -> Ax]
    OBVIOUS
  <2>2. ASSUME NEW B \in SUBSET S, NEW C \in SUBSET S, f[B] = f[C] PROVE B = C
    <3>1. B \union {new} = C \union {new}
      BY <2>2
    <3> QED
      BY <3>1, <1>0
  <2>3. ASSUME NEW A \in Ax PROVE \E B \in SUBSET S : f[B] = A
    OBVIOUS
  <2> HIDE DEF f, Ax
  <2>4. f \in Injection(SUBSET S, Ax)
    BY <2>1, <2>2, Fun_IsInj, Zenon
  <2>5. f \in Surjection(SUBSET S, Ax)
    BY <2>1, <2>3, Fun_IsSurj, Zenon
  <2> QED
    BY <2>4, <2>5 DEF Bijection
<1> HIDE DEF f, Ax
<1>6. IsFiniteSet(Ax) /\ Cardinality(Ax) = 2 ^ n
  BY <1>2, <1>5, FS_Bijection, Zenon DEF ExistsBijection
<1>7. Cardinality((SUBSET S) \union Ax)
        = Cardinality(SUBSET S) + Cardinality(Ax) - Cardinality((SUBSET S) \intersect Ax)
  BY <1>2, <1>6, FS_Union, Zenon
<1>8. Cardinality((SUBSET S) \intersect Ax) = 0
  BY <1>4, FS_EmptySet, Zenon
<1>9. Cardinality(SUBSET S) \in Nat
  BY <1>2, FS_CardinalityType, Zenon
<1>10. 2 ^ n \in Nat
  BY <1>9, <1>2, Zenon
<1>11. 2 ^ (n + 1) = 2 ^ n + 2 ^ n - 0
  BY <1>2, <1>3, <1>6, <1>7, <1>8, Zenon
<1> QED
  BY <1>10, <1>11

\* A function defined by recursion up to n exists, whatever its values are.
LEMMA Recursion ==
  ASSUME NEW n \in Nat, NEW D, NEW base \in D[0], NEW step, DOMAIN step = 1 .. n,
         \A x \in 1 .. n : \A s \in D[x - 1] : step[x][s] \in D[x]
  PROVE  \E f : /\ f = [x \in 0 .. n |-> f[x]]
                /\ f[0] = base
                /\ \A x \in 1 .. n : f[x] = step[x][f[x - 1]]
                /\ \A x \in 0 .. n : f[x] \in D[x]
<1> DEFINE Good(m, f) ==
             /\ f = [x \in 0 .. m |-> f[x]]
             /\ f[0] = base
             /\ \A x \in 1 .. m : f[x] = step[x][f[x - 1]]
             /\ \A x \in 0 .. m : f[x] \in D[x]
           T == {m \in 0 .. n : \E f : Good(m, f)}
<1>1. 0 \in T
  <2> DEFINE f == [x \in 0 .. 0 |-> base]
  <2>1. Good(0, f)
    OBVIOUS
  <2> HIDE DEF Good, f
  <2> QED
    BY <2>1
<1>2. \A m \in 1 .. n : m - 1 \in T => m \in T
  <2> SUFFICES ASSUME NEW m \in 1 .. n, m - 1 \in T PROVE m \in T
    OBVIOUS
  <2>1. PICK f : Good(m - 1, f)
    OBVIOUS
  <2> DEFINE g == [x \in 0 .. m |-> IF x = m THEN step[m][f[m - 1]] ELSE f[x]]
  <2>2. \A x \in 1 .. m : g[x] = step[x][g[x - 1]]
    <3> TAKE x \in 1 .. m
    <3>1. x - 1 \in 0 .. m - 1 /\ g[x - 1] = f[x - 1]
      OBVIOUS
    <3>2. x # m => x \in 1 .. m - 1 /\ g[x] = f[x]
      OBVIOUS
    <3>3. x = m => g[x] = step[x][f[x - 1]]
      OBVIOUS
    <3>4. x # m => f[x] = step[x][f[x - 1]]
      BY <2>1, <3>2
    <3> HIDE DEF g
    <3> QED
      BY <3>1, <3>2, <3>3, <3>4
  <2>3. \A x \in 0 .. m : g[x] \in D[x]
    BY <2>1
  <2>4. g = [x \in 0 .. m |-> g[x]]
    OBVIOUS
  <2>6. g[0] = base
    BY <2>1
  <2>5. Good(m, g)
    BY <2>2, <2>3, <2>4, <2>6
  <2> HIDE DEF Good, g
  <2> QED
    BY <2>5
<1> HIDE DEF Good
<1>3. n \in T
  <2> HIDE DEF T
  <2>1. \A x \in 0 .. n : x \in T
    BY <1>1, <1>2, UpTo
  <2> QED
    BY <2>1
<1> QED
  BY <1>3 DEF Good

\* The total of a sequence of lengths is the last of its prefix sums.
LEMMA Sums ==
  ASSUME NEW n \in Nat, NEW numbers \in [1 .. n -> Nat], Len(numbers) = n
  PROVE  \E sum \in [0 .. n -> Nat] :
           /\ sum[0] = 0
           /\ \A i \in 1 .. n : sum[i] = sum[i - 1] + numbers[i]
           /\ Total(numbers) = sum[n]
<1> DEFINE Next1(f) == [i \in 0 .. n |-> IF i = 0 THEN 0 ELSE f[i - 1] + numbers[i]]
           total == CHOOSE f : f = Next1(f)
           D == [x \in 0 .. n |-> Nat]
           step == [x \in 1 .. n |-> [s \in Nat |-> s + numbers[x]]]
<1>1. \E f : f = Next1(f)
  <2>1. \A x \in 1 .. n : \A s \in D[x - 1] : step[x][s] \in D[x]
    OBVIOUS
  <2>0. 0 \in D[0]
    OBVIOUS
  <2>5. DOMAIN step = 1 .. n
    OBVIOUS
  <2>2. PICK f : /\ f = [x \in 0 .. n |-> f[x]]
                 /\ f[0] = 0
                 /\ \A x \in 1 .. n : f[x] = step[x][f[x - 1]]
                 /\ \A x \in 0 .. n : f[x] \in D[x]
    <3> HIDE DEF D, step
    <3> QED
      BY <2>1, <2>0, <2>5, Recursion
  <2>3. \A x \in 1 .. n : step[x][f[x - 1]] = f[x - 1] + numbers[x]
    <3> TAKE x \in 1 .. n
    <3>1. x - 1 \in 0 .. n /\ f[x - 1] \in Nat
      BY <2>2
    <3> QED
      BY <3>1
  <2>4. f = Next1(f)
    <3> HIDE DEF step
    <3>1. \A x \in 0 .. n : f[x] = IF x = 0 THEN 0 ELSE f[x - 1] + numbers[x]
      <4> TAKE x \in 0 .. n
      <4>1. x # 0 => x \in 1 .. n
        OBVIOUS
      <4> QED
        BY <2>2, <2>3, <4>1
    <3>2. f = [x \in 0 .. n |-> f[x]]
      BY <2>2
    <3> QED
      BY <3>1, <3>2
  <2> QED
    BY <2>4
<1>2. total = Next1(total)
  BY <1>1
<1>3. Total(numbers) = total[n]
  BY DEF Total
<1> HIDE DEF total
<1>4. \A x \in 0 .. n : total[x] \in Nat
  <2> DEFINE T == {x \in 0 .. n : total[x] \in Nat}
  <2>1. 0 \in T
    BY <1>2
  <2>2. \A x \in 1 .. n : x - 1 \in T => x \in T
    BY <1>2
  <2> HIDE DEF T
  <2>3. \A x \in 0 .. n : x \in T
    BY <2>1, <2>2, UpTo
  <2> QED
    BY <2>3 DEF T
<1>5. total \in [0 .. n -> Nat]
  BY <1>2, <1>4
<1> QED
  BY <1>2, <1>3, <1>5

-----------------------------------------------------------------------------
(* Arithmetic.                                                             *)

\* What a quotient and a remainder are.
LEMMA Divided ==
  ASSUME NEW a \in Nat, NEW b \in Nat \ {0}
  PROVE  /\ a \div b \in Nat /\ a % b \in 0 .. b - 1
         /\ a = b * (a \div b) + (a % b)
<1>1. a \div b \in Nat
  OBVIOUS
<1>2. a % b \in 0 .. b - 1
  OBVIOUS
<1>3. a = b * (a \div b) + (a % b)
  OBVIOUS
<1> QED
  BY <1>1, <1>2, <1>3

\* They are the only such pair.
LEMMA OneQuotient ==
  ASSUME NEW a \in Nat, NEW b \in Nat \ {0}, NEW q \in Int, NEW r \in 0 .. b - 1,
         a = b * q + r
  PROVE  a \div b = q /\ a % b = r
<1>1. PICK p \in Int : p = a \div b
  BY Divided
<1>2. PICK t \in 0 .. b - 1 : t = a % b
  BY Divided
<1>3. a = b * p + t
  BY <1>1, <1>2, Divided
<1>4. b * (p - q) = r - t
  BY <1>3
<1>5. CASE p - q >= 1
  <2>1. b * (p - q) >= b * 1
    BY <1>5
  <2> QED
    BY <2>1, <1>4
<1>6. CASE p - q <= -1
  <2>1. b * (p - q) <= b * (-1)
    BY <1>6
  <2> QED
    BY <2>1, <1>4
<1>7. CASE p = q
  BY <1>7, <1>1, <1>2, <1>4
<1> QED
  BY <1>5, <1>6, <1>7

\* A number is below its power of two.
LEMMA BelowPower ==
  ASSUME NEW n \in Nat
  PROVE  n < 2 ^ n
<1> DEFINE T == {x \in 0 .. n : x < 2 ^ x /\ 2 ^ x \in Nat}
<1>1. 0 \in T
  <2>1. 2 ^ 0 = 1
    OBVIOUS
  <2> QED
    BY <2>1
<1>2. \A x \in 1 .. n : x - 1 \in T => x \in T
  <2> SUFFICES ASSUME NEW x \in 1 .. n, x - 1 \in T PROVE x \in T
    OBVIOUS
  <2>1. 2 ^ x = 2 * 2 ^ (x - 1)
    <3>1. x - 1 \in Nat /\ (x - 1) + 1 = x
      OBVIOUS
    <3> QED
      BY <3>1, TwiceAs
  <2> QED
    BY <2>1
<1> HIDE DEF T
<1>3. \A x \in 0 .. n : x \in T
  BY <1>1, <1>2, UpTo
<1> QED
  BY <1>3 DEF T

\* Powers of two grow with their exponents...
LEMMA PowersGrow ==
  ASSUME NEW m \in Nat, NEW n \in Nat, m <= n
  PROVE  2 ^ m <= 2 ^ n /\ 2 ^ m \in Nat \ {0} /\ 2 ^ n \in Nat \ {0}
<1> DEFINE T == {x \in 0 .. n - m : 2 ^ m <= 2 ^ (m + x)}
<1>0. \A x \in Nat : 2 ^ x \in Nat \ {0}
  <2> TAKE x \in Nat
  <2>1. x < 2 ^ x /\ 2 ^ x \in Nat
    BY BelowPower, TwiceAs
  <2> QED
    BY <2>1
<1>1. 0 \in T
  <2>1. m + 0 = m /\ 2 ^ m \in Nat
    BY <1>0
  <2> QED
    BY <2>1
<1>2. \A x \in 1 .. n - m : x - 1 \in T => x \in T
  <2> SUFFICES ASSUME NEW x \in 1 .. n - m, x - 1 \in T PROVE x \in T
    OBVIOUS
  <2>1. 2 ^ (m + x) = 2 * 2 ^ (m + (x - 1)) /\ 2 ^ (m + (x - 1)) \in Nat
    <3>1. m + (x - 1) \in Nat /\ (m + (x - 1)) + 1 = m + x
      OBVIOUS
    <3> QED
      BY <3>1, TwiceAs
  <2> QED
    BY <2>1, <1>0
<1> HIDE DEF T
<1>3. \A x \in 0 .. n - m : x \in T
  <2>1. n - m \in Nat
    OBVIOUS
  <2> QED
    BY <1>1, <1>2, <2>1, UpTo
<1>4. n - m \in T /\ m + (n - m) = n
  BY <1>3
<1>5. 2 ^ m <= 2 ^ (m + (n - m))
  BY <1>4 DEF T
<1> QED
  BY <1>0, <1>4, <1>5

\* ... and are ordered as them.
LEMMA PowersOrdered ==
  ASSUME NEW m \in Nat, NEW n \in Nat, 2 ^ m < 2 ^ n
  PROVE  m < n
<1> SUFFICES ASSUME n <= m PROVE FALSE
  OBVIOUS
<1>1. 2 ^ n <= 2 ^ m /\ 2 ^ n \in Nat /\ 2 ^ m \in Nat
  BY PowersGrow
<1> QED
  BY <1>1

\* The width of a residual is the least in which it can be written.
LEMMA Wide ==
  ASSUME NEW u \in Nat
  PROVE  /\ BitLen(u) \in Nat
         /\ u < 2 ^ BitLen(u)
         /\ \A n \in Nat : u < 2 ^ n => BitLen(u) <= n
<1> DEFINE T == {b \in Nat : u < 2 ^ b}
<1>1. u \in T
  BY BelowPower
<1>2. PICK b \in T : \A y \in T : b <= y
  <2> HIDE DEF T
  <2>1. T \subseteq Nat
    BY DEF T
  <2> QED
    BY <1>1, <2>1, LeastNatural
<1>3. b \in 0 .. u /\ u < 2 ^ b
  BY <1>1, <1>2
<1>4. b > 0 => 2 ^ (b - 1) <= u
  <2>1. b > 0 => b - 1 \in Nat /\ ~(u < 2 ^ (b - 1))
    BY <1>2
  <2>2. b > 0 => 2 ^ (b - 1) \in Nat
    BY <2>1, PowersGrow
  <2> QED
    BY <2>1, <2>2
<1>5. /\ BitLen(u) \in 0 .. u
      /\ u < 2 ^ BitLen(u)
      /\ BitLen(u) > 0 => 2 ^ (BitLen(u) - 1) <= u
  BY <1>3, <1>4 DEF BitLen
<1>6. ASSUME NEW n \in Nat, u < 2 ^ n PROVE BitLen(u) <= n
  <2> SUFFICES ASSUME BitLen(u) > n PROVE FALSE
    BY <1>5
  <2>1. 2 ^ n <= 2 ^ (BitLen(u) - 1) /\ 2 ^ n \in Nat /\ 2 ^ (BitLen(u) - 1) \in Nat
    <3>1. BitLen(u) - 1 \in Nat /\ n <= BitLen(u) - 1
      BY <1>5
    <3> QED
      BY <3>1, PowersGrow
  <2> QED
    BY <2>1, <1>5, <1>6
<1> QED
  BY <1>5, <1>6

-----------------------------------------------------------------------------
(* Bits.                                                                   *)

Bit == {0, 1}
Text == Seq(Bit)

\* A function on 1 .. n is a sequence.
LEMMA PlainSequence ==
  ASSUME NEW S, NEW n \in Nat, NEW f \in [1 .. n -> S]
  PROVE  f \in Seq(S) /\ Len(f) = n /\ DOMAIN f = 1 .. n
<1>1. f \in Seq(S)
  BY SeqDef
<1>2. Len(f) \in Nat /\ DOMAIN f = 1 .. Len(f)
  BY <1>1, LenProperties
<1>3. DOMAIN f = 1 .. n
  OBVIOUS
<1>4. Len(f) = n
  BY <1>2, <1>3
<1> QED
  BY <1>1, <1>3, <1>4

\* The n bits of a value are a text of that length.
LEMMA BitsAreText ==
  ASSUME NEW v \in Nat, NEW n \in Nat
  PROVE  /\ Bits(v, n) \in Text /\ Len(Bits(v, n)) = n
         /\ \A i \in 1 .. n : Bits(v, n)[i] = (v \div 2 ^ (i - 1)) % 2
<1>1. \A i \in 1 .. n : (v \div 2 ^ (i - 1)) % 2 \in Bit
  <2> TAKE i \in 1 .. n
  <2>1. 2 ^ (i - 1) \in Nat \ {0}
    BY PowersGrow
  <2>2. v \div 2 ^ (i - 1) \in Nat
    BY <2>1, Divided
  <2>3. (v \div 2 ^ (i - 1)) % 2 \in 0 .. 1
    BY <2>2
  <2> QED
    BY <2>3 DEF Bit
<1>2. Bits(v, n) \in [1 .. n -> Bit]
  BY <1>1 DEF Bits
<1>3. Bits(v, n) \in Text /\ Len(Bits(v, n)) = n
  BY <1>2, PlainSequence DEF Text
<1>4. \A i \in 1 .. n : Bits(v, n)[i] = (v \div 2 ^ (i - 1)) % 2
  BY DEF Bits
<1> QED
  BY <1>3, <1>4

\* A bit more of a value.
LEMMA OneBitMore ==
  ASSUME NEW v \in Nat, NEW n \in Nat
  PROVE  /\ v % 2 ^ (n + 1) = (v % 2 ^ n) + ((v \div 2 ^ n) % 2) * 2 ^ n
         /\ v % 2 ^ n \in Nat
<1> DEFINE w == 2 ^ n
           q == v \div w
           h == q \div 2
           b == q % 2
<1>1. w \in Nat \ {0} /\ 2 ^ (n + 1) = 2 * w
  BY TwiceAs, PowersGrow
<1> HIDE DEF w
<1>2. q \in Nat /\ v % w \in 0 .. w - 1 /\ v = w * q + (v % w)
  BY <1>1, Divided
<1> HIDE DEF q
<1>3. h \in Nat /\ b \in 0 .. 1 /\ q = 2 * h + b
  BY <1>2
<1> HIDE DEF h, b
<1> DEFINE r == v % w
<1>4. v = (2 * w) * h + (r + b * w)
  <2>1. PICK t \in Nat : t = r
    BY <1>2
  <2>2. v = w * q + t
    BY <1>2, <2>1
  <2>3. w * q = (2 * w) * h + b * w
    BY <1>1, <1>3
  <2> HIDE DEF r
  <2> QED
    BY <1>1, <1>2, <1>3, <2>1, <2>2, <2>3
<1>5. (v % w) + b * w \in 0 .. 2 * w - 1
  BY <1>1, <1>2, <1>3
<1>6. v % (2 * w) = (v % w) + b * w
  <2>1. 2 * w \in Nat \ {0}
    BY <1>1
  <2> QED
    BY <2>1, <1>3, <1>4, <1>5, OneQuotient
<1>7. v % w \in Nat
  BY <1>2
<1>8. v % 2 ^ (n + 1) = (v % w) + b * w
  BY <1>1, <1>6
<1> QED
  BY <1>7, <1>8 DEF b, q, w

\* A reader finds the value whose bits it meets.
LEMMA ReadsBits ==
  ASSUME NEW bits \in Text, NEW at \in Nat \ {0}, NEW n \in Nat, NEW v \in Nat,
         \A i \in 1 .. n : BitAt(bits, at + i - 1) = (v \div 2 ^ (i - 1)) % 2
  PROVE  Read(bits, at, n) = v % 2 ^ n
<1> DEFINE Value(f) == [i \in 0 .. n |-> IF i = 0 THEN 0
                          ELSE f[i - 1] + BitAt(bits, at + i - 1) * 2 ^ (i - 1)]
           value == CHOOSE f : f = Value(f)
           f == [i \in 0 .. n |-> v % 2 ^ i]
<1>1. f = Value(f)
  <2>1. f[0] = 0
    <3>1. 2 ^ 0 = 1 /\ v % 1 = 0
      OBVIOUS
    <3> QED
      BY <3>1
  <2>2. ASSUME NEW i \in 1 .. n
        PROVE  f[i] = f[i - 1] + BitAt(bits, at + i - 1) * 2 ^ (i - 1)
    <3>1. i - 1 \in Nat /\ (i - 1) + 1 = i /\ i - 1 \in 0 .. n
      OBVIOUS
    <3>2. v % 2 ^ i = (v % 2 ^ (i - 1)) + ((v \div 2 ^ (i - 1)) % 2) * 2 ^ (i - 1)
      BY <3>1, OneBitMore
    <3> QED
      BY <3>1, <3>2
  <2>3. \A i \in 0 .. n : f[i] = Value(f)[i]
    <3> HIDE DEF f
    <3> TAKE i \in 0 .. n
    <3>1. i # 0 => i \in 1 .. n
      OBVIOUS
    <3> QED
      BY <2>1, <2>2, <3>1
  <2>4. f = [i \in 0 .. n |-> f[i]]
    OBVIOUS
  <2> QED
    BY <2>3, <2>4
<1>2. value = Value(value)
  <2> HIDE DEF f
  <2> QED
    BY <1>1
<1>3. Read(bits, at, n) = value[n]
  BY DEF Read
<1> HIDE DEF value
<1>4. \A i \in 0 .. n : value[i] = f[i]
  <2> DEFINE T == {i \in 0 .. n : value[i] = f[i]}
  <2>0. /\ value[0] = 0 /\ f[0] = 0
        /\ \A i \in 1 .. n :
             /\ value[i] = value[i - 1] + BitAt(bits, at + i - 1) * 2 ^ (i - 1)
             /\ f[i] = f[i - 1] + BitAt(bits, at + i - 1) * 2 ^ (i - 1)
    <3> HIDE DEF f
    <3>1. \A i \in 0 .. n : value[i] = Value(value)[i] /\ f[i] = Value(f)[i]
      BY <1>1, <1>2
    <3> QED
      BY <3>1
  <2> HIDE DEF f, Value
  <2>1. 0 \in T
    BY <2>0
  <2>2. \A x \in 1 .. n : x - 1 \in T => x \in T
    BY <2>0
  <2> HIDE DEF T
  <2>3. \A x \in 0 .. n : x \in T
    BY <2>1, <2>2, UpTo
  <2> QED
    BY <2>3 DEF T
<1> QED
  BY <1>3, <1>4

\* Powers of two multiply by adding their exponents.
LEMMA PowersMultiply ==
  ASSUME NEW m \in Nat, NEW n \in Nat
  PROVE  2 ^ (m + n) = 2 ^ m * 2 ^ n
<1> DEFINE T == {x \in 0 .. n : 2 ^ (m + x) = 2 ^ m * 2 ^ x}
<1>1. 0 \in T
  <2>1. m + 0 = m /\ 2 ^ 0 = 1 /\ 2 ^ m \in Nat
    BY PowersGrow
  <2> QED
    BY <2>1
<1>2. \A x \in 1 .. n : x - 1 \in T => x \in T
  <2> SUFFICES ASSUME NEW x \in 1 .. n, x - 1 \in T PROVE x \in T
    OBVIOUS
  <2> DEFINE a == 2 ^ m
             b == 2 ^ (x - 1)
  <2>1. 2 ^ (m + x) = 2 * 2 ^ (m + (x - 1)) /\ 2 ^ x = 2 * b
    <3>1. /\ m + (x - 1) \in Nat /\ (m + (x - 1)) + 1 = m + x
          /\ x - 1 \in Nat /\ (x - 1) + 1 = x
      OBVIOUS
    <3> QED
      BY <3>1, TwiceAs
  <2>2. 2 ^ (m + (x - 1)) = a * b
    OBVIOUS
  <2>3. a \in Nat /\ b \in Nat
    BY PowersGrow
  <2> HIDE DEF a, b
  <2>4. 2 * (a * b) = a * (2 * b)
    BY <2>3
  <2>5. 2 ^ (m + x) = a * 2 ^ x
    BY <2>1, <2>2, <2>4
  <2> QED
    BY <2>5 DEF a
<1> HIDE DEF T
<1>3. \A x \in 0 .. n : x \in T
  BY <1>1, <1>2, UpTo
<1> QED
  BY <1>3 DEF T

\* A run in front of a Rice code: zeros, then a one.
LEMMA UnaryBits ==
  ASSUME NEW n \in Nat
  PROVE  /\ \A i \in 1 .. n : Bits(2 ^ n, n + 1)[i] = 0
         /\ Bits(2 ^ n, n + 1)[n + 1] = 1
<1>1. 2 ^ n \in Nat \ {0}
  BY PowersGrow
<1>2. \A i \in 1 .. n + 1 : Bits(2 ^ n, n + 1)[i] = (2 ^ n \div 2 ^ (i - 1)) % 2
  BY <1>1, BitsAreText
<1>3. ASSUME NEW i \in 1 .. n PROVE (2 ^ n \div 2 ^ (i - 1)) % 2 = 0
  <2> DEFINE b == 2 ^ (i - 1)
             c == 2 ^ (n - i)
  <2>1. i - 1 \in Nat /\ n - i \in Nat /\ (n - i) + 1 \in Nat /\ (i - 1) + ((n - i) + 1) = n
    OBVIOUS
  <2>2. b \in Nat \ {0} /\ c \in Nat
    BY <2>1, PowersGrow
  <2>3. 2 ^ ((n - i) + 1) = 2 * c
    BY <2>1, TwiceAs
  <2>4. 2 ^ n = b * (2 * c)
    BY <2>1, <2>3, PowersMultiply
  <2> HIDE DEF b, c
  <2>5. 2 ^ n \div b = 2 * c
    <3>1. 2 * c \in Int /\ 0 \in 0 .. b - 1 /\ 2 ^ n = b * (2 * c) + 0
      BY <1>1, <2>2, <2>4
    <3> QED
      BY <1>1, <2>2, <3>1, OneQuotient
  <2>6. (2 * c) % 2 = 0
    BY <2>2
  <2> QED
    BY <2>5, <2>6 DEF b
<1>4. (2 ^ n \div 2 ^ ((n + 1) - 1)) % 2 = 1
  <2>1. (n + 1) - 1 = n
    OBVIOUS
  <2>2. 2 ^ n \div 2 ^ n = 1
    <3> DEFINE b == 2 ^ n
    <3> HIDE DEF b
    <3>0. b \in Nat \ {0}
      BY <1>1 DEF b
    <3>1. 1 \in Int /\ 0 \in 0 .. b - 1 /\ b = b * 1 + 0
      BY <3>0
    <3>2. b \div b = 1
      BY <3>0, <3>1, OneQuotient
    <3> QED
      BY <3>2 DEF b
  <2>3. 1 % 2 = 1
    OBVIOUS
  <2> QED
    BY <2>1, <2>2, <2>3, Zenon
<1>5. n + 1 \in 1 .. n + 1 /\ \A i \in 1 .. n : i \in 1 .. n + 1
  OBVIOUS
<1> QED
  BY <1>2, <1>3, <1>4, <1>5

\* A value below 2^n is what n bits keep of it.
LEMMA SmallRemainder ==
  ASSUME NEW v \in Nat, NEW n \in Nat, v < 2 ^ n
  PROVE  v % 2 ^ n = v
<1> DEFINE b == 2 ^ n
<1>1. b \in Nat \ {0} /\ v < b
  BY PowersGrow
<1> HIDE DEF b
<1>2. v % b = v
  <2>1. 0 \in Int /\ v \in 0 .. b - 1 /\ v = b * 0 + v
    BY <1>1
  <2> QED
    BY <1>1, <2>1, OneQuotient
<1> QED
  BY <1>2 DEF b

-----------------------------------------------------------------------------
(* Codes: what a residual is written as, and how a reader takes it.        *)

CodeOf(front, u, h) == IF front = "rice" THEN RiceBits(u, h) ELSE Bits(u, h)

Taken(front, bits, at, h) ==
  IF front = "rice" THEN ReadRice(bits, at, h) ELSE ReadPlain(bits, at, h)

\* A header says how residuals are written: it must allow each of them.
Writable(front, u, h) == u < (IF front = "rice" THEN 2 ^ EscapeBits ELSE 2 ^ h)

Meets(bits, at, text) == \A i \in 1 .. Len(text) : BitAt(bits, at + i - 1) = text[i]

\* Where a text is met, its two parts are met, one after the other.
LEMMA MeetsParts ==
  ASSUME NEW bits, NEW at \in Nat \ {0}, NEW first \in Text, NEW second \in Text,
         Meets(bits, at, first \o second)
  PROVE  /\ Meets(bits, at, first)
         /\ Meets(bits, at + Len(first), second)
<1> DEFINE m == Len(first)
           n == Len(second)
<1>1. m \in Nat /\ n \in Nat
  BY LenProperties DEF Text
<1>2. /\ Len(first \o second) = m + n
      /\ \A i \in 1 .. m + n :
           (first \o second)[i] = IF i <= m THEN first[i] ELSE second[i - m]
  BY ConcatProperties DEF Text
<1> HIDE DEF m, n
<1>3. ASSUME NEW i \in 1 .. m PROVE BitAt(bits, at + i - 1) = first[i]
  <2>1. i \in 1 .. m + n /\ i <= m
    BY <1>1
  <2> QED
    BY <1>2, <2>1 DEF Meets
<1>4. ASSUME NEW i \in 1 .. n PROVE BitAt(bits, (at + m) + i - 1) = second[i]
  <2>1. m + i \in 1 .. m + n /\ ~(m + i <= m) /\ (m + i) - m = i
    BY <1>1
  <2>2. BitAt(bits, at + (m + i) - 1) = second[i]
    BY <1>2, <2>1 DEF Meets
  <2>3. at + (m + i) - 1 = (at + m) + i - 1
    BY <1>1
  <2> QED
    BY <2>2, <2>3
<1> QED
  BY <1>3, <1>4 DEF Meets, m, n

\* A reader finds a value that was written in n bits.
LEMMA ReadsWritten ==
  ASSUME NEW bits \in Text, NEW at \in Nat \ {0}, NEW n \in Nat, NEW v \in Nat,
         Meets(bits, at, Bits(v, n))
  PROVE  Read(bits, at, n) = v % 2 ^ n
<1>1. \A i \in 1 .. n : BitAt(bits, at + i - 1) = (v \div 2 ^ (i - 1)) % 2
  BY BitsAreText DEF Meets
<1> QED
  BY <1>1, ReadsBits

\* The sizes the codec is configured with are positive.
LEMMA ConstantsArePositive ==
  /\ Top \in Nat \ {0} /\ Width \in Nat \ {0} /\ Height \in Nat \ {0} /\ Tile \in Nat \ {0}
  /\ HeaderBits \in Nat \ {0} /\ RiceLimit \in Nat \ {0} /\ EscapeBits \in Nat \ {0}
  /\ WordBits \in Nat \ {0} /\ MaxSegment \in Nat \ {0} /\ Capacity \in Nat \ {0}
  BY CodecAssumption

\* A Rice code is a text: the run and the low bits, or the run of an escape and its bits.
LEMMA RiceIsText ==
  ASSUME NEW u \in Nat, NEW k \in Nat
  PROVE  /\ RiceBits(u, k) \in Text
         /\ Len(RiceBits(u, k)) =
              IF u \div 2 ^ k < RiceLimit THEN (u \div 2 ^ k) + 1 + k
              ELSE RiceLimit + 1 + EscapeBits
<1> DEFINE run == u \div 2 ^ k
<1>1. run \in Nat
  BY PowersGrow, Divided
<1>2. RiceBits(u, k) = IF run < RiceLimit THEN Bits(2 ^ run, run + 1) \o Bits(u, k)
                       ELSE Bits(2 ^ RiceLimit, RiceLimit + 1) \o Bits(u, EscapeBits)
  BY DEF RiceBits
<1> HIDE DEF run
<1>3. ASSUME NEW n \in Nat, NEW m \in Nat
      PROVE  /\ Bits(2 ^ n, n + 1) \o Bits(u, m) \in Text
             /\ Len(Bits(2 ^ n, n + 1) \o Bits(u, m)) = n + 1 + m
  <2>1. 2 ^ n \in Nat /\ n + 1 \in Nat
    BY PowersGrow
  <2>2. /\ Bits(2 ^ n, n + 1) \in Text /\ Len(Bits(2 ^ n, n + 1)) = n + 1
        /\ Bits(u, m) \in Text /\ Len(Bits(u, m)) = m
    BY <2>1, BitsAreText
  <2> DEFINE a == Bits(2 ^ n, n + 1)
             b == Bits(u, m)
  <2> HIDE DEF a, b
  <2>3. a \in Seq(Bit) /\ b \in Seq(Bit)
    BY <2>2 DEF a, b, Text
  <2>4. a \o b \in Seq(Bit) /\ Len(a \o b) = Len(a) + Len(b)
    BY <2>3, ConcatProperties
  <2> QED
    BY <2>2, <2>4 DEF a, b, Text
<1>4. RiceLimit \in Nat /\ EscapeBits \in Nat
  BY ConstantsArePositive
<1> QED
  BY <1>1, <1>2, <1>3, <1>4 DEF run

\* So is a residual, in whichever way it is written.
LEMMA CodeIsText ==
  ASSUME NEW front, NEW u \in Nat, NEW h \in Nat
  PROVE  CodeOf(front, u, h) \in Text
  BY RiceIsText, BitsAreText DEF CodeOf

\* A reader counts the zeros of a run.
LEMMA CountsZeros ==
  ASSUME NEW bits, NEW at \in Nat \ {0}, NEW n \in 0 .. RiceLimit,
         \A i \in 0 .. n - 1 : BitAt(bits, at + i) = 0,
         n = RiceLimit \/ BitAt(bits, at + n) = 1
  PROVE  n = CHOOSE m \in 0 .. RiceLimit :
               /\ m = RiceLimit \/ BitAt(bits, at + m) = 1
               /\ \A i \in 0 .. m - 1 : BitAt(bits, at + i) = 0
<1> DEFINE P(m) == /\ m = RiceLimit \/ BitAt(bits, at + m) = 1
                   /\ \A i \in 0 .. m - 1 : BitAt(bits, at + i) = 0
<1>1. P(n)
  OBVIOUS
<1>2. ASSUME NEW m \in 0 .. RiceLimit, P(m) PROVE m = n
  <2>0. RiceLimit \in Nat
    BY ConstantsArePositive
  <2>1. ~(m < n)
    <3> SUFFICES ASSUME m < n PROVE FALSE
      OBVIOUS
    <3>1. m \in 0 .. n - 1 /\ m # RiceLimit
      BY <2>0
    <3>2. BitAt(bits, at + m) = 0 /\ BitAt(bits, at + m) = 1
      BY <1>2, <3>1
    <3> QED
      BY <3>2
  <2>2. ~(n < m)
    <3> SUFFICES ASSUME n < m PROVE FALSE
      OBVIOUS
    <3>1. n \in 0 .. m - 1 /\ n # RiceLimit
      BY <2>0
    <3>2. BitAt(bits, at + n) = 0 /\ BitAt(bits, at + n) = 1
      BY <1>2, <3>1
    <3> QED
      BY <3>2
  <2> QED
    BY <2>0, <2>1, <2>2
<1> HIDE DEF P
<1>3. n = CHOOSE m \in 0 .. RiceLimit : P(m)
  BY <1>1, <1>2
<1> QED
  BY <1>3 DEF P

\* A Rice code is read back, escaped or not, and no bit beyond it is taken.
LEMMA ReadsRice ==
  ASSUME NEW bits \in Text, NEW at \in Nat \ {0}, NEW u \in Nat, NEW k \in Nat,
         u < 2 ^ EscapeBits, Meets(bits, at, RiceBits(u, k))
  PROVE  ReadRice(bits, at, k) = <<u, Len(RiceBits(u, k))>>
<1> DEFINE run == u \div 2 ^ k
           zeros == CHOOSE m \in 0 .. RiceLimit :
                      /\ m = RiceLimit \/ BitAt(bits, at + m) = 1
                      /\ \A i \in 0 .. m - 1 : BitAt(bits, at + i) = 0
<1>0. RiceLimit \in Nat \ {0} /\ EscapeBits \in Nat /\ 2 ^ k \in Nat \ {0}
  BY ConstantsArePositive, PowersGrow
<1>1. run \in Nat /\ u = 2 ^ k * run + (u % 2 ^ k) /\ u % 2 ^ k \in Nat
  <2>1. u % 2 ^ k \in 0 .. 2 ^ k - 1
    BY <1>0, Divided
  <2>2. run \in Nat /\ u = 2 ^ k * run + (u % 2 ^ k)
    BY <1>0, Divided
  <2> QED
    BY <1>0, <2>1, <2>2
<1>2. ReadRice(bits, at, k) =
        IF zeros < RiceLimit
        THEN <<zeros * 2 ^ k + Read(bits, at + zeros + 1, k), zeros + 1 + k>>
        ELSE <<Read(bits, at + RiceLimit + 1, EscapeBits), RiceLimit + 1 + EscapeBits>>
  BY DEF ReadRice
<1>3. Len(RiceBits(u, k)) = IF run < RiceLimit THEN run + 1 + k
                            ELSE RiceLimit + 1 + EscapeBits
  BY RiceIsText
<1>4. RiceBits(u, k) = IF run < RiceLimit THEN Bits(2 ^ run, run + 1) \o Bits(u, k)
                       ELSE Bits(2 ^ RiceLimit, RiceLimit + 1) \o Bits(u, EscapeBits)
  BY DEF RiceBits
<1> HIDE DEF run
<1>5. ASSUME NEW n \in Nat, NEW m \in Nat,
             Meets(bits, at, Bits(2 ^ n, n + 1) \o Bits(u, m))
      PROVE  /\ \A i \in 0 .. n - 1 : BitAt(bits, at + i) = 0
             /\ BitAt(bits, at + n) = 1
             /\ Read(bits, at + n + 1, m) = u % 2 ^ m
  <2>1. 2 ^ n \in Nat /\ n + 1 \in Nat
    BY PowersGrow
  <2>2. /\ Bits(2 ^ n, n + 1) \in Text /\ Len(Bits(2 ^ n, n + 1)) = n + 1
        /\ Bits(u, m) \in Text
    BY <2>1, BitsAreText
  <2>3. /\ Meets(bits, at, Bits(2 ^ n, n + 1))
        /\ Meets(bits, at + (n + 1), Bits(u, m))
    BY <1>5, <2>2, MeetsParts
  <2>4. \A i \in 1 .. n + 1 : BitAt(bits, at + i - 1) = Bits(2 ^ n, n + 1)[i]
    BY <2>2, <2>3 DEF Meets
  <2>5. ASSUME NEW i \in 0 .. n - 1 PROVE BitAt(bits, at + i) = 0
    <3>1. i + 1 \in 1 .. n + 1 /\ i + 1 \in 1 .. n /\ at + (i + 1) - 1 = at + i
      OBVIOUS
    <3>2. BitAt(bits, at + (i + 1) - 1) = Bits(2 ^ n, n + 1)[i + 1]
      BY <2>4, <3>1
    <3>3. Bits(2 ^ n, n + 1)[i + 1] = 0
      BY <3>1, UnaryBits
    <3> QED
      BY <3>1, <3>2, <3>3
  <2>6. BitAt(bits, at + n) = 1
    <3>1. n + 1 \in 1 .. n + 1 /\ at + (n + 1) - 1 = at + n
      OBVIOUS
    <3>2. BitAt(bits, at + (n + 1) - 1) = Bits(2 ^ n, n + 1)[n + 1]
      BY <2>4, <3>1
    <3> QED
      BY <3>1, <3>2, UnaryBits
  <2>7. at + (n + 1) \in Nat \ {0} /\ at + (n + 1) = at + n + 1
    OBVIOUS
  <2>8. Read(bits, at + n + 1, m) = u % 2 ^ m
    BY <2>3, <2>7, ReadsWritten
  <2> QED
    BY <2>5, <2>6, <2>8
<1>6. CASE run < RiceLimit
  <2>1. /\ \A i \in 0 .. run - 1 : BitAt(bits, at + i) = 0
        /\ BitAt(bits, at + run) = 1
        /\ Read(bits, at + run + 1, k) = u % 2 ^ k
    BY <1>1, <1>4, <1>5, <1>6
  <2>2. run = zeros
    <3>1. run \in 0 .. RiceLimit
      BY <1>0, <1>1, <1>6
    <3> QED
      BY <2>1, <3>1, CountsZeros
  <2> HIDE DEF zeros
  <2>3. ReadRice(bits, at, k) = <<run * 2 ^ k + (u % 2 ^ k), run + 1 + k>>
    BY <1>2, <1>6, <2>1, <2>2
  <2>4. run * 2 ^ k + (u % 2 ^ k) = u
    BY <1>0, <1>1
  <2> QED
    BY <1>3, <1>6, <2>3, <2>4
<1>7. CASE ~(run < RiceLimit)
  <2>1. /\ \A i \in 0 .. RiceLimit - 1 : BitAt(bits, at + i) = 0
        /\ Read(bits, at + RiceLimit + 1, EscapeBits) = u % 2 ^ EscapeBits
    BY <1>0, <1>4, <1>5, <1>7
  <2>2. RiceLimit = zeros
    <3>1. RiceLimit \in 0 .. RiceLimit
      BY <1>0
    <3> QED
      BY <2>1, <3>1, CountsZeros
  <2> HIDE DEF zeros
  <2>3. u % 2 ^ EscapeBits = u
    BY <1>0, SmallRemainder
  <2>4. ~(zeros < RiceLimit)
    BY <1>0, <2>2
  <2> QED
    BY <1>2, <1>3, <1>7, <2>1, <2>3, <2>4
<1> QED
  BY <1>6, <1>7

\* Whatever way a residual is written, a reader takes it and no bit more.
LEMMA ReadsCode ==
  ASSUME NEW front, NEW bits \in Text, NEW at \in Nat \ {0}, NEW u \in Nat, NEW h \in Nat,
         Writable(front, u, h), Meets(bits, at, CodeOf(front, u, h))
  PROVE  Taken(front, bits, at, h) = <<u, Len(CodeOf(front, u, h))>>
<1>1. CASE front = "rice"
  BY <1>1, ReadsRice DEF Taken, CodeOf, Writable
<1>2. CASE front # "rice"
  <2>1. Read(bits, at, h) = u % 2 ^ h
    BY <1>2, ReadsWritten DEF CodeOf
  <2>2. u % 2 ^ h = u
    BY <1>2, SmallRemainder DEF Writable
  <2>3. Len(CodeOf(front, u, h)) = h
    BY <1>2, BitsAreText DEF CodeOf
  <2> QED
    BY <1>2, <2>1, <2>2, <2>3 DEF Taken, ReadPlain
<1> QED
  BY <1>1, <1>2

-----------------------------------------------------------------------------
(* Texts put together.                                                     *)

\* Where each part of a text starts, and that it is there.
Layout(start, n, strings, text) ==
  /\ start[1] = 0
  /\ \A i \in 1 .. n : /\ start[i] \in Nat
                       /\ start[i + 1] = start[i] + Len(strings[i])
                       /\ start[i + 1] <= Len(text)
                       /\ \A j \in 1 .. Len(strings[i]) : text[start[i] + j] = strings[i][j]
  /\ Len(text) = start[n + 1]

\* One more piece of a text.
LEMMA JoinsStep ==
  ASSUME NEW n \in Nat, NEW strings \in [1 .. n -> Text], NEW x \in 1 .. n, NEW s \in Text
  PROVE  /\ s \o strings[x] \in Text
         /\ Len(s) \in Nat /\ Len(strings[x]) \in Nat
         /\ Len(s \o strings[x]) = Len(s) + Len(strings[x])
         /\ \A i \in 1 .. Len(s) : (s \o strings[x])[i] = s[i]
         /\ \A i \in 1 .. Len(strings[x]) : (s \o strings[x])[Len(s) + i] = strings[x][i]
<1> DEFINE t == strings[x]
<1>1. t \in Seq(Bit) /\ s \in Seq(Bit)
  BY DEF Text
<1> HIDE DEF t
<1>2. Len(s) \in Nat /\ Len(t) \in Nat
  BY <1>1, LenProperties
<1>3. /\ s \o t \in Seq(Bit)
      /\ Len(s \o t) = Len(s) + Len(t)
      /\ \A i \in 1 .. Len(s) + Len(t) : (s \o t)[i] = IF i <= Len(s) THEN s[i] ELSE t[i - Len(s)]
  BY <1>1, ConcatProperties
<1>4. ASSUME NEW i \in 1 .. Len(s) PROVE (s \o t)[i] = s[i]
  <2>1. i \in 1 .. Len(s) + Len(t) /\ i <= Len(s)
    BY <1>2
  <2> QED
    BY <1>3, <2>1
<1>5. ASSUME NEW i \in 1 .. Len(t) PROVE (s \o t)[Len(s) + i] = t[i]
  <2>1. /\ Len(s) + i \in 1 .. Len(s) + Len(t) /\ ~(Len(s) + i <= Len(s))
        /\ (Len(s) + i) - Len(s) = i
    BY <1>2
  <2> QED
    BY <1>3, <2>1
<1> QED
  BY <1>2, <1>3, <1>4, <1>5 DEF t, Text

\* Pieces that are written one after the other lie where the prefix sums say.
LEMMA Joins ==
  ASSUME NEW n \in Nat, NEW strings \in [1 .. n -> Text]
  PROVE  \E start : /\ Layout(start, n, strings, Concat(strings))
                    /\ Concat(strings) \in Text
<1> DEFINE Joined1(f) == [i \in 0 .. n |-> IF i = 0 THEN <<>> ELSE f[i - 1] \o strings[i]]
           joined == CHOOSE f : f = Joined1(f)
           D == [x \in 0 .. n |-> Text]
           step == [x \in 1 .. n |-> [s \in Text |-> s \o strings[x]]]
<1>0. Len(strings) = n
  BY PlainSequence
<1>1. \E f : f = Joined1(f)
  <2> DEFINE none == <<>>
  <2>1. \A x \in 1 .. n : \A s \in D[x - 1] : step[x][s] \in D[x]
    <3> TAKE x \in 1 .. n
    <3>1. x - 1 \in 0 .. n /\ x \in 0 .. n
      OBVIOUS
    <3> TAKE s \in D[x - 1]
    <3>2. s \in Text
      BY <3>1
    <3>3. s \o strings[x] \in Text
      BY <3>2, JoinsStep
    <3> QED
      BY <3>1, <3>2, <3>3
  <2>2. none \in D[0]
    BY EmptySeq DEF Text
  <2>3. DOMAIN step = 1 .. n
    OBVIOUS
  <2>4. PICK f : /\ f = [x \in 0 .. n |-> f[x]]
                 /\ f[0] = none
                 /\ \A x \in 1 .. n : f[x] = step[x][f[x - 1]]
                 /\ \A x \in 0 .. n : f[x] \in D[x]
    <3> HIDE DEF D, step, none
    <3> QED
      BY <2>1, <2>2, <2>3, Recursion
  <2>5. \A x \in 1 .. n : step[x][f[x - 1]] = f[x - 1] \o strings[x]
    <3> TAKE x \in 1 .. n
    <3>1. x - 1 \in 0 .. n /\ f[x - 1] \in Text
      BY <2>4
    <3> QED
      BY <3>1
  <2>6. f = Joined1(f)
    <3> HIDE DEF step
    <3>1. \A x \in 0 .. n : f[x] = IF x = 0 THEN <<>> ELSE f[x - 1] \o strings[x]
      <4> TAKE x \in 0 .. n
      <4>1. x # 0 => x \in 1 .. n
        OBVIOUS
      <4> QED
        BY <2>4, <2>5, <4>1
    <3>2. f = [x \in 0 .. n |-> f[x]]
      BY <2>4
    <3> QED
      BY <3>1, <3>2
  <2> QED
    BY <2>6
<1>2. joined = Joined1(joined)
  BY <1>1
<1>3. Concat(strings) = joined[n]
  BY <1>0 DEF Concat
<1> HIDE DEF joined
<1>4. joined[0] = <<>> /\ \A x \in 1 .. n : joined[x] = joined[x - 1] \o strings[x]
  <2>1. \A i \in 0 .. n : joined[i] = IF i = 0 THEN <<>> ELSE joined[i - 1] \o strings[i]
    BY <1>2, Zenon
  <2>2. 0 \in 0 .. n /\ \A x \in 1 .. n : x \in 0 .. n /\ x # 0
    OBVIOUS
  <2> QED
    BY <2>1, <2>2, Zenon
<1> HIDE DEF Joined1
<1>8. \A x \in 0 .. n : joined[x] \in Text
  <2> DEFINE T == {x \in 0 .. n : joined[x] \in Text}
  <2>0. joined[0] \in Text
    BY <1>4, EmptySeq, Zenon DEF Text
  <2>1. 0 \in T
    BY <2>0
  <2>2. \A x \in 1 .. n : x - 1 \in T => x \in T
    <3> TAKE x \in 1 .. n
    <3>1. joined[x - 1] \in Text => joined[x] \in Text
      BY <1>4, JoinsStep, Zenon
    <3> QED
      BY <3>1
  <2> HIDE DEF T
  <2>3. \A x \in 0 .. n : x \in T
    BY <2>1, <2>2, UpTo
  <2> QED
    BY <2>3 DEF T
<1>5. ASSUME NEW x \in 1 .. n
      PROVE  /\ Len(joined[x]) = Len(joined[x - 1]) + Len(strings[x])
             /\ Len(joined[x]) \in Nat /\ Len(joined[x - 1]) \in Nat /\ Len(strings[x]) \in Nat
             /\ \A i \in 1 .. Len(joined[x - 1]) : joined[x][i] = joined[x - 1][i]
             /\ \A i \in 1 .. Len(strings[x]) :
                  joined[x][Len(joined[x - 1]) + i] = strings[x][i]
  <2>1. joined[x - 1] \in Text /\ joined[x] = joined[x - 1] \o strings[x]
    BY <1>4, <1>8
  <2>2. Len(joined[x]) \in Nat
    BY <1>8, LenProperties DEF Text
  <2> QED
    BY <2>1, <2>2, JoinsStep
<1> DEFINE T == {m \in 0 .. n :
                   \A i \in 1 .. m :
                     /\ Len(joined[i]) <= Len(joined[m])
                     /\ \A j \in 1 .. Len(strings[i]) :
                          joined[m][Len(joined[i - 1]) + j] = strings[i][j]}
<1>6. 0 \in T
  OBVIOUS
<1>7. \A m \in 1 .. n : m - 1 \in T => m \in T
  <2> SUFFICES ASSUME NEW m \in 1 .. n, m - 1 \in T PROVE m \in T
    OBVIOUS
  <2> DEFINE s == joined[m - 1]
  <2>1. /\ Len(joined[m]) = Len(s) + Len(strings[m])
        /\ Len(joined[m]) \in Nat /\ Len(s) \in Nat /\ Len(strings[m]) \in Nat
        /\ \A i \in 1 .. Len(s) : joined[m][i] = s[i]
        /\ \A i \in 1 .. Len(strings[m]) : joined[m][Len(s) + i] = strings[m][i]
    BY <1>5
  <2>2. ASSUME NEW i \in 1 .. m
        PROVE  /\ Len(joined[i]) <= Len(joined[m])
               /\ \A j \in 1 .. Len(strings[i]) :
                    joined[m][Len(joined[i - 1]) + j] = strings[i][j]
    <3>1. CASE i = m
      BY <2>1, <3>1
    <3>2. CASE i # m
      <4>1. i \in 1 .. m - 1 /\ i \in 1 .. n
        BY <3>2
      <4>2. /\ Len(joined[i]) <= Len(s)
            /\ \A j \in 1 .. Len(strings[i]) :
                 s[Len(joined[i - 1]) + j] = strings[i][j]
        BY <4>1
      <4>3. /\ Len(joined[i]) = Len(joined[i - 1]) + Len(strings[i])
            /\ Len(joined[i]) \in Nat /\ Len(joined[i - 1]) \in Nat /\ Len(strings[i]) \in Nat
        BY <1>5, <4>1
      <4> HIDE DEF s
      <4>4. ASSUME NEW j \in 1 .. Len(strings[i])
            PROVE  joined[m][Len(joined[i - 1]) + j] = strings[i][j]
        <5> DEFINE a == Len(joined[i - 1])
                   b == Len(strings[i])
                   c == Len(joined[i])
                   d == Len(s)
        <5>0. a \in Nat /\ b \in Nat /\ c \in Nat /\ d \in Nat /\ c = a + b /\ c <= d
          BY <2>1, <4>2, <4>3
        <5>1. j \in 1 .. b
          OBVIOUS
        <5>2. a + j \in 1 .. d
          <6> HIDE DEF a, b, c, d
          <6> QED
            BY <5>0, <5>1
        <5> QED
          BY <2>1, <4>2, <5>2
      <4>5. Len(joined[i]) <= Len(joined[m])
        <5> DEFINE b == Len(strings[m])
                   c == Len(joined[i])
                   d == Len(s)
                   e == Len(joined[m])
        <5>0. b \in Nat /\ c \in Nat /\ d \in Nat /\ e = d + b /\ c <= d
          BY <2>1, <4>2, <4>3
        <5> HIDE DEF b, c, d, e
        <5>1. c <= e
          BY <5>0
        <5> QED
          BY <5>1 DEF c, e
      <4> QED
        BY <4>4, <4>5
    <3> QED
      BY <3>1, <3>2
  <2> QED
    BY <2>2
<1> HIDE DEF T
<1>9. \A m \in 0 .. n : m \in T
  BY <1>6, <1>7, UpTo
<1>10. \A i \in 1 .. n :
         /\ Len(joined[i]) <= Len(joined[n])
         /\ \A j \in 1 .. Len(strings[i]) :
              joined[n][Len(joined[i - 1]) + j] = strings[i][j]
  <2>1. n \in 0 .. n
    OBVIOUS
  <2> QED
    BY <1>9, <2>1 DEF T
<1> DEFINE start == [i \in 1 .. n + 1 |-> Len(joined[i - 1])]
<1>11. Layout(start, n, strings, joined[n])
  <2>1. start[1] = 0
    <3>1. 1 \in 1 .. n + 1 /\ joined[1 - 1] = <<>>
      BY <1>4
    <3> QED
      BY <3>1, EmptySeq
  <2>2. start[n + 1] = Len(joined[n])
    <3>1. n + 1 \in 1 .. n + 1 /\ (n + 1) - 1 = n
      OBVIOUS
    <3> QED
      BY <3>1
  <2>3. ASSUME NEW i \in 1 .. n
        PROVE  start[i] = Len(joined[i - 1]) /\ start[i + 1] = Len(joined[i])
    <3>1. i \in 1 .. n + 1 /\ i + 1 \in 1 .. n + 1 /\ (i + 1) - 1 = i
      OBVIOUS
    <3> QED
      BY <3>1
  <2> HIDE DEF start
  <2>4. ASSUME NEW i \in 1 .. n
        PROVE  /\ start[i] \in Nat
               /\ start[i + 1] = start[i] + Len(strings[i])
               /\ start[i + 1] <= Len(joined[n])
               /\ \A j \in 1 .. Len(strings[i]) : joined[n][start[i] + j] = strings[i][j]
    <3>1. /\ Len(joined[i - 1]) \in Nat
          /\ Len(joined[i]) = Len(joined[i - 1]) + Len(strings[i])
      BY <1>5
    <3>2. /\ Len(joined[i]) <= Len(joined[n])
          /\ \A j \in 1 .. Len(strings[i]) :
               joined[n][Len(joined[i - 1]) + j] = strings[i][j]
      BY <1>10
    <3> QED
      BY <2>3, <3>1, <3>2, Zenon
  <2> QED
    BY <2>1, <2>2, <2>4, Zenon DEF Layout
<1> HIDE DEF start
<1>12. joined[n] \in Text
  BY <1>8
<1> QED
  BY <1>3, <1>11, <1>12

-----------------------------------------------------------------------------
(* Tiles.                                                                  *)

Residuals == 0 .. 4 * Top

HeaderOf(front, tile) == IF front = "rice" THEN RiceK(tile) ELSE Widest(tile)

\* The sum of a tile is at most what its largest residuals would give.
LEMMA SumBounded ==
  ASSUME NEW n \in Nat, NEW tile \in [1 .. n -> Residuals]
  PROVE  Total(tile) \in Nat /\ Total(tile) <= n * (4 * Top)
<1> DEFINE m == 4 * Top
<1>0. m \in Nat /\ \A i \in 1 .. n : tile[i] \in Nat /\ tile[i] <= m
  BY ConstantsArePositive DEF Residuals
<1> HIDE DEF m
<1>1. tile \in [1 .. n -> Nat] /\ Len(tile) = n
  BY <1>0, PlainSequence
<1>2. PICK sum \in [0 .. n -> Nat] :
        /\ sum[0] = 0
        /\ \A i \in 1 .. n : sum[i] = sum[i - 1] + tile[i]
        /\ Total(tile) = sum[n]
  BY <1>1, Sums
<1> DEFINE T == {x \in 0 .. n : sum[x] <= x * m}
<1>3. 0 \in T
  BY <1>0, <1>2
<1>4. \A x \in 1 .. n : x - 1 \in T => x \in T
  <2> SUFFICES ASSUME NEW x \in 1 .. n, x - 1 \in T PROVE x \in T
    OBVIOUS
  <2>1. sum[x - 1] <= (x - 1) * m /\ sum[x] = sum[x - 1] + tile[x] /\ tile[x] <= m
    BY <1>0, <1>2
  <2>2. x - 1 \in 0 .. n /\ sum[x - 1] \in Nat /\ sum[x] \in Nat /\ tile[x] \in Nat
    BY <1>0, <1>2
  <2>3. (x - 1) * m + m = x * m /\ (x - 1) * m \in Nat
    BY <1>0
  <2>4. sum[x] <= x * m
    BY <1>0, <2>1, <2>2, <2>3
  <2> QED
    BY <2>4
<1> HIDE DEF T
<1>5. \A x \in 0 .. n : x \in T
  BY <1>3, <1>4, UpTo
<1>6. n \in T
  BY <1>5
<1> QED
  BY <1>2, <1>6 DEF T, m

\* The width in front of a plain tile fits its header, and every residual fits the width.
LEMMA WidestFits ==
  ASSUME NEW n \in Nat \ {0}, NEW tile \in [1 .. n -> Residuals]
  PROVE  /\ Widest(tile) \in Nat
         /\ Widest(tile) < 2 ^ HeaderBits
         /\ \A i \in 1 .. n : tile[i] < 2 ^ Widest(tile)
<1> DEFINE widths == {BitLen(tile[i]) : i \in DOMAIN tile}
           most == 2 ^ HeaderBits - 1
           T == {m \in Nat : \A i \in DOMAIN tile : BitLen(tile[i]) <= m}
<1>0. DOMAIN tile = 1 .. n /\ \A i \in 1 .. n : tile[i] \in Nat /\ tile[i] < 2 ^ most
  <2>1. most \in Nat
    BY ConstantsArePositive, PowersGrow
  <2>2. 4 * Top < 2 ^ most
    BY ResidualAssumption
  <2>3. 2 ^ most \in Nat
    BY <2>1, PowersGrow
  <2> HIDE DEF most
  <2>4. \A i \in 1 .. n : tile[i] \in Nat /\ tile[i] <= 4 * Top
    BY ConstantsArePositive DEF Residuals
  <2> QED
    BY <2>2, <2>3, <2>4, ConstantsArePositive
<1>1. \A i \in 1 .. n : /\ BitLen(tile[i]) \in Nat
                        /\ tile[i] < 2 ^ BitLen(tile[i])
                        /\ BitLen(tile[i]) <= most
  <2>1. most \in Nat
    BY ConstantsArePositive, PowersGrow
  <2> HIDE DEF most
  <2> QED
    BY <1>0, <2>1, Wide
<1>2. most \in T
  <2>1. most \in Nat
    BY ConstantsArePositive, PowersGrow
  <2> QED
    BY <1>0, <1>1, <2>1
<1>3. PICK m \in T : \A y \in T : m <= y
  <2>1. T \subseteq Nat /\ T # {}
    BY <1>2
  <2> HIDE DEF T
  <2> QED
    BY <2>1, LeastNatural
<1>4. \E i \in 1 .. n : BitLen(tile[i]) = m
  <2> SUFFICES ASSUME \A i \in 1 .. n : BitLen(tile[i]) # m PROVE FALSE
    OBVIOUS
  <2>1. \A i \in 1 .. n : BitLen(tile[i]) <= m - 1
    BY <1>0, <1>1
  <2>2. 1 \in 1 .. n /\ m - 1 \in Nat
    BY <1>1, <2>1
  <2>3. m - 1 \in T
    BY <1>0, <2>1, <2>2
  <2> QED
    BY <1>3, <2>3
<1>5. m \in widths /\ \A i \in DOMAIN tile : BitLen(tile[i]) <= m
  BY <1>0, <1>4
<1> HIDE DEF T
<1>6. Widest(tile) \in widths /\ \A i \in DOMAIN tile : BitLen(tile[i]) <= Widest(tile)
  BY <1>5 DEF Widest
<1>7. PICK j \in 1 .. n : Widest(tile) = BitLen(tile[j])
  BY <1>0, <1>6
<1>8. Widest(tile) \in Nat /\ Widest(tile) < 2 ^ HeaderBits
  <2>1. 2 ^ HeaderBits \in Nat
    BY ConstantsArePositive, PowersGrow
  <2> QED
    BY <1>1, <1>7, <2>1
<1>9. ASSUME NEW i \in 1 .. n PROVE tile[i] < 2 ^ Widest(tile)
  <2>1. BitLen(tile[i]) <= Widest(tile) /\ BitLen(tile[i]) \in Nat
    BY <1>0, <1>1, <1>6
  <2>2. /\ 2 ^ BitLen(tile[i]) <= 2 ^ Widest(tile)
        /\ 2 ^ BitLen(tile[i]) \in Nat /\ 2 ^ Widest(tile) \in Nat
    BY <1>8, <2>1, PowersGrow
  <2>3. tile[i] < 2 ^ BitLen(tile[i]) /\ tile[i] \in Nat
    BY <1>0, <1>1
  <2> QED
    BY <2>2, <2>3
<1> QED
  BY <1>8, <1>9

\* The parameter in front of a Rice tile fits its header, and every residual can be coded.
LEMMA RiceKFits ==
  ASSUME NEW n \in Nat \ {0}, NEW tile \in [1 .. n -> Residuals]
  PROVE  /\ RiceK(tile) \in Nat
         /\ RiceK(tile) < 2 ^ HeaderBits
<1> DEFINE total == Total(tile)
           T == {k \in Nat : k = 15 \/ n * 2 ^ k >= total}
           most == 2 ^ HeaderBits - 1
<1>0. Len(tile) = n /\ total \in Nat /\ total <= n * (4 * Top)
  BY PlainSequence, SumBounded
<1> HIDE DEF total
<1>1. PICK k \in T : \A y \in T : k <= y
  <2>1. T \subseteq Nat /\ 15 \in T
    OBVIOUS
  <2> HIDE DEF T
  <2> QED
    BY <2>1, LeastNatural
<1>2. k \in 0 .. 15 /\ (k = 15 \/ n * 2 ^ k >= total)
  <2>1. 15 \in T
    OBVIOUS
  <2>2. k <= 15 /\ k \in Nat
    BY <1>1, <2>1
  <2> QED
    BY <2>2
<1>3. k > 0 => n * 2 ^ (k - 1) < total
  <2> SUFFICES ASSUME k > 0 PROVE n * 2 ^ (k - 1) < total
    OBVIOUS
  <2>1. k - 1 \in Nat /\ k - 1 \notin T
    BY <1>1, <1>2
  <2>2. 2 ^ (k - 1) \in Nat
    BY <2>1, PowersGrow
  <2> QED
    BY <1>0, <2>1, <2>2
<1> HIDE DEF T
<1>4. /\ RiceK(tile) \in 0 .. 15
      /\ RiceK(tile) > 0 => n * 2 ^ (RiceK(tile) - 1) < total
  <2> DEFINE P(j) == /\ j = 15 \/ n * 2 ^ j >= total
                     /\ j > 0 => n * 2 ^ (j - 1) < total
  <2>1. RiceK(tile) = CHOOSE j \in 0 .. 15 : P(j)
    BY <1>0 DEF RiceK, total
  <2>2. P(k)
    BY <1>2, <1>3
  <2> HIDE DEF P
  <2>3. RiceK(tile) \in 0 .. 15 /\ P(RiceK(tile))
    BY <1>2, <2>1, <2>2
  <2> QED
    BY <2>3 DEF P
<1>5. RiceK(tile) <= most
  <2> DEFINE j == RiceK(tile) - 1
             w == 2 ^ j
             v == 2 ^ most
  <2>0. most \in Nat /\ 4 * Top < v
    BY ConstantsArePositive, PowersGrow, ResidualAssumption
  <2>1. CASE RiceK(tile) = 0
    BY <2>0, <2>1
  <2>2. CASE RiceK(tile) # 0
    <3>1. j \in Nat /\ n * w < total
      BY <1>4, <2>2
    <3>2. w \in Nat /\ v \in Nat
      BY <2>0, <3>1, PowersGrow
    <3> HIDE DEF j, w, v, most
    <3>3. w < v
      <4> SUFFICES ASSUME v <= w PROVE FALSE
        BY <3>2
      <4>1. 4 * Top <= w /\ 4 * Top \in Nat
        BY <2>0, <3>2, ConstantsArePositive
      <4>2. n * (4 * Top) <= n * w
        BY <3>2, <4>1
      <4>3. n * (4 * Top) \in Nat /\ n * w \in Nat
        BY <3>2, <4>1
      <4> QED
        BY <1>0, <3>1, <4>2, <4>3
    <3>4. j < most
      BY <2>0, <3>1, <3>3, PowersOrdered DEF w, v
    <3>5. RiceK(tile) = j + 1
      BY <1>4 DEF j
    <3>6. most \in Nat
      BY <2>0
    <3> QED
      BY <3>1, <3>4, <3>5, <3>6
  <2> QED
    BY <2>1, <2>2
<1>6. 2 ^ HeaderBits \in Nat
  BY ConstantsArePositive, PowersGrow
<1> QED
  BY <1>4, <1>5, <1>6

\* The header of a tile is one its bits can hold, and one that lets every residual be read.
LEMMA HeaderFits ==
  ASSUME NEW front, NEW n \in Nat \ {0}, NEW tile \in [1 .. n -> Residuals]
  PROVE  /\ HeaderOf(front, tile) \in Nat
         /\ HeaderOf(front, tile) < 2 ^ HeaderBits
         /\ \A i \in 1 .. n : tile[i] \in Nat /\ Writable(front, tile[i], HeaderOf(front, tile))
<1>1. \A i \in 1 .. n : tile[i] \in Nat /\ tile[i] < 2 ^ EscapeBits
  <2>1. \A i \in 1 .. n : tile[i] \in Nat /\ tile[i] <= 4 * Top
    BY ConstantsArePositive DEF Residuals
  <2>2. 2 ^ EscapeBits \in Nat /\ 4 * Top \in Nat
    BY ConstantsArePositive, PowersGrow
  <2> QED
    BY <2>1, <2>2, ResidualAssumption
<1> QED
  BY <1>1, WidestFits, RiceKFits DEF HeaderOf, Writable

\* The places of the residuals of a tile, counted from the end of its header.
TilePlaces(inner, front, n, tile) ==
  /\ inner[1] = 0
  /\ \A o \in 1 .. n : inner[o] \in Nat /\ inner[o + 1] \in Nat
  /\ Len(PackTile(front, tile)) = HeaderBits + inner[n + 1]
  /\ \A bits \in Text, at \in Nat \ {0} :
       Meets(bits, at, PackTile(front, tile)) =>
         /\ Read(bits, at, HeaderBits) = HeaderOf(front, tile)
         /\ \A o \in 1 .. n :
              Taken(front, bits, at + HeaderBits + inner[o], HeaderOf(front, tile))
                = <<tile[o], inner[o + 1] - inner[o]>>

\* A tile that was packed is read again.
LEMMA TileReads ==
  ASSUME NEW front, NEW n \in Nat \ {0}, NEW tile \in [1 .. n -> Residuals]
  PROVE  /\ PackTile(front, tile) \in Text
         /\ \E inner : TilePlaces(inner, front, n, tile)
<1> DEFINE h == HeaderOf(front, tile)
           head == Bits(h, HeaderBits)
           codes == [i \in 1 .. n |-> CodeOf(front, tile[i], h)]
           body == Concat(codes)
<1>0. /\ h \in Nat /\ h < 2 ^ HeaderBits /\ HeaderBits \in Nat
      /\ \A i \in 1 .. n : tile[i] \in Nat /\ Writable(front, tile[i], h)
  BY HeaderFits, ConstantsArePositive
<1>1. PackTile(front, tile) = head \o body
  <2>1. DOMAIN tile = 1 .. n
    OBVIOUS
  <2>2. CASE front = "rice"
    <3>1. h = RiceK(tile)
      BY <2>2 DEF HeaderOf
    <3>2. codes = [i \in DOMAIN tile |-> RiceBits(tile[i], RiceK(tile))]
      BY <2>1, <2>2, <3>1 DEF CodeOf
    <3>3. PackTile(front, tile) = Bits(RiceK(tile), HeaderBits)
            \o Concat([i \in DOMAIN tile |-> RiceBits(tile[i], RiceK(tile))])
      BY <2>2, Zenon DEF PackTile
    <3> HIDE DEF codes, h
    <3> QED
      BY <3>1, <3>2, <3>3
  <2>3. CASE front # "rice"
    <3>1. h = Widest(tile)
      BY <2>3 DEF HeaderOf
    <3>2. codes = [i \in DOMAIN tile |-> Bits(tile[i], Widest(tile))]
      BY <2>1, <2>3, <3>1 DEF CodeOf
    <3>3. PackTile(front, tile) = Bits(Widest(tile), HeaderBits)
            \o Concat([i \in DOMAIN tile |-> Bits(tile[i], Widest(tile))])
      BY <2>3, Zenon DEF PackTile
    <3> HIDE DEF codes, h
    <3> QED
      BY <3>1, <3>2, <3>3
  <2> QED
    BY <2>2, <2>3
<1> HIDE DEF h
<1>2. codes \in [1 .. n -> Text]
  BY <1>0, CodeIsText
<1>3. \A i \in 1 .. n : codes[i] = CodeOf(front, tile[i], h)
  OBVIOUS
<1> HIDE DEF codes
<1>4. PICK inner : Layout(inner, n, codes, body) /\ body \in Text
  BY <1>2, Joins
<1> HIDE DEF body
<1>5. head \in Text /\ Len(head) = HeaderBits
  BY <1>0, BitsAreText
<1> HIDE DEF head
<1>6. head \o body \in Text /\ Len(head \o body) = HeaderBits + Len(body) /\ Len(body) \in Nat
  <2>1. head \in Seq(Bit) /\ body \in Seq(Bit)
    BY <1>4, <1>5 DEF Text
  <2>2. head \o body \in Seq(Bit) /\ Len(head \o body) = Len(head) + Len(body) /\ Len(body) \in Nat
    BY <2>1, ConcatProperties, LenProperties
  <2> QED
    BY <1>5, <2>2 DEF Text
<1>7. ASSUME NEW o \in 1 .. n
      PROVE  /\ inner[o] \in Nat /\ inner[o + 1] \in Nat
             /\ inner[o + 1] = inner[o] + Len(codes[o])
             /\ inner[o + 1] <= Len(body)
             /\ \A j \in 1 .. Len(codes[o]) : body[inner[o] + j] = codes[o][j]
             /\ Len(codes[o]) \in Nat
  <2>1. /\ inner[o] \in Nat
        /\ inner[o + 1] = inner[o] + Len(codes[o])
        /\ inner[o + 1] <= Len(body)
        /\ \A j \in 1 .. Len(codes[o]) : body[inner[o] + j] = codes[o][j]
    BY <1>4, Zenon DEF Layout
  <2>2. Len(codes[o]) \in Nat
    BY <1>2, LenProperties DEF Text
  <2> QED
    BY <2>1, <2>2
<1>8. ASSUME NEW bits \in Text, NEW at \in Nat \ {0}, Meets(bits, at, head \o body)
      PROVE  /\ Read(bits, at, HeaderBits) = h
             /\ \A o \in 1 .. n :
                  Taken(front, bits, at + HeaderBits + inner[o], h)
                    = <<tile[o], inner[o + 1] - inner[o]>>
  <2>1. Meets(bits, at, head) /\ Meets(bits, at + HeaderBits, body)
    BY <1>4, <1>5, <1>8, MeetsParts
  <2>2. Read(bits, at, HeaderBits) = h
    <3>1. Read(bits, at, HeaderBits) = h % 2 ^ HeaderBits
      BY <1>0, <2>1, ReadsWritten DEF head
    <3> QED
      BY <1>0, <3>1, SmallRemainder
  <2>3. ASSUME NEW o \in 1 .. n
        PROVE  Taken(front, bits, at + HeaderBits + inner[o], h)
                 = <<tile[o], inner[o + 1] - inner[o]>>
    <3> DEFINE code == CodeOf(front, tile[o], h)
               place == at + HeaderBits + inner[o]
               m == Len(code)
               start == inner[o]
               size == Len(body)
    <3>0. /\ codes[o] = code /\ m \in Nat /\ start \in Nat /\ size \in Nat
          /\ inner[o + 1] = start + m /\ start + m <= size
          /\ \A j \in 1 .. m : body[start + j] = code[j]
      BY <1>3, <1>6, <1>7
    <3>1. Meets(bits, place, code)
      <4> HIDE DEF code, m, start, size
      <4>1. ASSUME NEW j \in 1 .. m PROVE BitAt(bits, (at + HeaderBits + start) + j - 1) = code[j]
        <5>1. start + j \in 1 .. size
          BY <3>0
        <5>2. \A i \in 1 .. size : BitAt(bits, (at + HeaderBits) + i - 1) = body[i]
          BY <2>1 DEF Meets, size
        <5>3. BitAt(bits, (at + HeaderBits) + (start + j) - 1) = body[start + j]
          BY <5>1, <5>2
        <5>4. (at + HeaderBits) + (start + j) - 1 = (at + HeaderBits + start) + j - 1
          BY <1>0, <3>0
        <5> QED
          BY <3>0, <5>3, <5>4
      <4> QED
        BY <4>1 DEF Meets, m, start
    <3>2. place \in Nat \ {0}
      BY <1>0, <3>0
    <3>3. Taken(front, bits, place, h) = <<tile[o], m>>
      <4> HIDE DEF place
      <4> QED
        BY <1>0, <3>1, <3>2, ReadsCode
    <3>4. m = inner[o + 1] - inner[o]
      <4> HIDE DEF m
      <4> QED
        BY <3>0
    <3> QED
      BY <3>3, <3>4
  <2> QED
    BY <2>2, <2>3
<1>9. inner[1] = 0 /\ Len(body) = inner[n + 1]
  BY <1>4, Zenon DEF Layout
<1>10. TilePlaces(inner, front, n, tile)
  <2>1. \A o \in 1 .. n : inner[o] \in Nat /\ inner[o + 1] \in Nat
    BY <1>7
  <2>2. Len(PackTile(front, tile)) = HeaderBits + inner[n + 1]
    BY <1>1, <1>6, <1>9
  <2> QED
    BY <1>1, <1>8, <1>9, <2>1, <2>2, Zenon DEF TilePlaces, h
<1> QED
  BY <1>1, <1>6, <1>10

-----------------------------------------------------------------------------
(* A line of tiles.                                                        *)

\* A tile has at least a column.
LEMMA TileLengthIsPositive ==
  ASSUME NEW front
  PROVE  TileLength(front) \in Nat \ {0} /\ TileCount(front) \in Nat
<1>1. TileLength(front) \in Nat \ {0}
  BY ConstantsArePositive DEF TileLength
<1> DEFINE size == TileLength(front)
<1>2. Width + size - 1 \in Nat
  BY <1>1, ConstantsArePositive
<1> HIDE DEF size
<1>3. (Width + size - 1) \div size \in Nat
  BY <1>1, <1>2, Divided DEF size
<1> QED
  BY <1>1, <1>3 DEF TileCount, size

\* The columns before a tile.
PlacesBefore(front, t) == (t - 1) * TileLength(front)

\* A tile is a piece of the line, and only the last one may be short.
LEMMA TileIsPiece ==
  ASSUME NEW front, NEW line \in [Columns -> Residuals], NEW t \in 1 .. TileCount(front)
  PROVE  /\ Len(TileOf(front, line, t)) \in 1 .. TileLength(front)
         /\ TileOf(front, line, t) \in [1 .. Len(TileOf(front, line, t)) -> Residuals]
         /\ PlacesBefore(front, t) \in Nat
         /\ \A o \in 1 .. Len(TileOf(front, line, t)) :
              TileOf(front, line, t)[o] = line[PlacesBefore(front, t) + o]
         /\ \/ Len(TileOf(front, line, t)) = TileLength(front)
            \/ PlacesBefore(front, t) + Len(TileOf(front, line, t)) = Width
<1> DEFINE size == TileLength(front)
           count == TileCount(front)
           before == (t - 1) * size
           after == t * size
           last == IF after < Width THEN after ELSE Width
           n == last - before
<1>1. size \in Nat \ {0} /\ count \in Nat /\ Width \in Nat \ {0}
  BY TileLengthIsPositive, ConstantsArePositive
<1>2. count * size <= Width + size - 1
  <2> DEFINE w == Width + size - 1
  <2>1. w \in Nat
    BY <1>1
  <2>2. count = w \div size
    BY DEF TileCount
  <2> HIDE DEF w, size, count
  <2>3. w = size * (w \div size) + (w % size) /\ w % size \in Nat /\ w \div size \in Nat
    <3>1. w \div size \in Nat /\ w % size \in 0 .. size - 1 /\ w = size * (w \div size) + (w % size)
      BY <1>1, <2>1, Divided
    <3> QED
      BY <1>1, <3>1
  <2>4. size * count = count * size /\ count * size \in Nat
    BY <1>1
  <2>5. count * size <= w
    BY <1>1, <2>1, <2>2, <2>3, <2>4
  <2> QED
    BY <2>5 DEF w
<1> HIDE DEF size, count
<1>3. t \in Nat \ {0} /\ t <= count
  BY <1>1 DEF count
<1>4. after = before + size /\ before \in Nat /\ after \in Nat
  BY <1>1, <1>3
<1>5. after <= count * size /\ count * size \in Nat
  BY <1>1, <1>3
<1> HIDE DEF before, after
<1>6. before < Width
  BY <1>1, <1>2, <1>4, <1>5
<1>7. n \in 1 .. size /\ last \in Nat /\ last <= Width
  BY <1>1, <1>4, <1>6
<1>8. TileOf(front, line, t) = SubSeq(line, before + 1, last)
  BY DEF TileOf, before, after, size
<1> HIDE DEF last
<1>9. \A i \in before + 1 .. last : line[i] \in Residuals
  <2> TAKE i \in before + 1 .. last
  <2>1. i \in Columns
    BY <1>1, <1>4, <1>7 DEF Columns
  <2> QED
    BY <2>1
<1>10. /\ SubSeq(line, before + 1, last) \in Seq(Residuals)
       /\ Len(SubSeq(line, before + 1, last)) = n
       /\ \A i \in 1 .. n : SubSeq(line, before + 1, last)[i] = line[before + i]
  <2>1. before + 1 \in Int /\ last \in Int /\ before + 1 <= last /\ last - (before + 1) + 1 = n
    BY <1>4, <1>7
  <2>2. /\ SubSeq(line, before + 1, last) \in Seq(Residuals)
        /\ Len(SubSeq(line, before + 1, last)) =
             IF before + 1 <= last THEN last - (before + 1) + 1 ELSE 0
        /\ \A i \in 1 .. last - (before + 1) + 1 :
             SubSeq(line, before + 1, last)[i] = line[(before + 1) + i - 1]
    BY <1>9, <2>1, SubSeqProperties
  <2>3. \A i \in 1 .. n : (before + 1) + i - 1 = before + i
    BY <1>4
  <2> HIDE DEF n
  <2> QED
    BY <2>1, <2>2, <2>3
<1>11. TileOf(front, line, t) \in [1 .. n -> Residuals]
  <2> DEFINE tile == TileOf(front, line, t)
  <2>1. tile \in Seq(Residuals) /\ Len(tile) = n
    BY <1>8, <1>10
  <2> HIDE DEF tile
  <2>2. tile \in [1 .. n -> Residuals]
    BY <2>1, LenProperties
  <2> QED
    BY <2>2 DEF tile
<1>12. /\ before + n = last
       /\ after < Width => n = size
       /\ after >= Width => last = Width
  BY <1>1, <1>4, <1>7 DEF last
<1> HIDE DEF n
<1>13. Len(TileOf(front, line, t)) = n
  BY <1>8, <1>10
<1>14. PlacesBefore(front, t) = before
  BY DEF PlacesBefore, before, size
<1>15. n \in 1 .. TileLength(front) /\ before \in Nat
  BY <1>4, <1>7 DEF size
<1>16. \A o \in 1 .. n : TileOf(front, line, t)[o] = line[before + o]
  BY <1>8, <1>10
<1>17. n = TileLength(front) \/ before + n = Width
  <2>1. after \in Nat /\ Width \in Nat
    BY <1>1, <1>4
  <2>2. n = size \/ before + n = Width
    BY <1>12, <2>1
  <2> QED
    BY <2>2 DEF size
<1> HIDE DEF before
<1> QED
  BY <1>11, <1>13, <1>14, <1>15, <1>16, <1>17

\* The tile of a column, and the column's place in it.
TileAt(front, x) == ((x - 1) \div TileLength(front)) + 1
PlaceIn(front, x) == ((x - 1) % TileLength(front)) + 1

\* Where a column is: in which tile, at which place.
LEMMA ColumnInTile ==
  ASSUME NEW front, NEW x \in Columns
  PROVE  /\ TileAt(front, x) \in 1 .. TileCount(front)
         /\ PlaceIn(front, x) \in 1 .. TileLength(front)
         /\ x = PlacesBefore(front, TileAt(front, x)) + PlaceIn(front, x)
<1> DEFINE size == TileLength(front)
           q == (x - 1) \div size
           r == (x - 1) % size
           w == Width + size - 1
           p == w \div size
<1>1. size \in Nat \ {0} /\ x \in Nat /\ x - 1 \in Nat /\ x <= Width /\ Width \in Nat
  BY TileLengthIsPositive, ConstantsArePositive DEF Columns
<1> HIDE DEF size
<1>2. q \in Nat /\ r \in 0 .. size - 1 /\ x - 1 = size * q + r
  BY <1>1, Divided
<1>3. p \in Nat /\ w = size * p + (w % size) /\ w % size \in 0 .. size - 1
  <2>1. w \in Nat
    BY <1>1
  <2> HIDE DEF w
  <2> QED
    BY <1>1, <2>1, Divided
<1>4. TileCount(front) = p
  BY DEF TileCount, size
<1>5. q + 1 <= p
  <2> SUFFICES ASSUME p <= q PROVE FALSE
    BY <1>2, <1>3
  <2> DEFINE s == w % size
  <2>0. s \in 0 .. size - 1 /\ w = size * p + s
    BY <1>3
  <2> HIDE DEF s, p, q, r
  <2>1. size * p <= size * q /\ size * p \in Nat /\ size * q \in Nat
    BY <1>1, <1>2, <1>3
  <2>2. w <= (x - 1) + (size - 1)
    BY <1>1, <1>2, <2>0, <2>1
  <2> QED
    BY <1>1, <2>2
<1>6. TileAt(front, x) = q + 1 /\ PlaceIn(front, x) = r + 1
  BY DEF TileAt, PlaceIn, size
<1>7. x = ((q + 1) - 1) * size + (r + 1)
  <2> HIDE DEF q, r
  <2>1. size * q = ((q + 1) - 1) * size /\ size * q \in Nat
    BY <1>1, <1>2
  <2> QED
    BY <1>1, <1>2, <2>1
<1> HIDE DEF q, r, p
<1> QED
  BY <1>1, <1>2, <1>3, <1>4, <1>5, <1>6, <1>7 DEF size, PlacesBefore

\* The column before is in the same tile, or it ends the tile before.
LEMMA PlaceBefore ==
  ASSUME NEW front, NEW x \in Columns, x - 1 \in Columns
  PROVE  IF PlaceIn(front, x) = 1
         THEN /\ TileAt(front, x - 1) = TileAt(front, x) - 1
              /\ PlaceIn(front, x - 1) = TileLength(front)
         ELSE /\ TileAt(front, x - 1) = TileAt(front, x)
              /\ PlaceIn(front, x - 1) = PlaceIn(front, x) - 1
<1> DEFINE size == TileLength(front)
           q == (x - 1) \div size
           r == (x - 1) % size
           y == x - 2
<1>1. size \in Nat \ {0} /\ x \in Nat /\ x - 1 \in Nat /\ y \in Nat
  BY TileLengthIsPositive, ConstantsArePositive DEF Columns
<1>2. (x - 1) - 1 = y
  BY <1>1
<1> HIDE DEF size
<1>3. q \in Nat /\ r \in 0 .. size - 1 /\ x - 1 = size * q + r
  BY <1>1, Divided
<1>4. TileAt(front, x) = q + 1 /\ PlaceIn(front, x) = r + 1
  BY DEF TileAt, PlaceIn, size
<1>5. TileAt(front, x - 1) = (y \div size) + 1 /\ PlaceIn(front, x - 1) = (y % size) + 1
  BY <1>2 DEF TileAt, PlaceIn, size
<1>6. y = x - 2
  OBVIOUS
<1> HIDE DEF q, r, y
<1>7. CASE r = 0
  <2>1. q # 0
    BY <1>1, <1>3, <1>6, <1>7
  <2>2. q - 1 \in Nat /\ size - 1 \in 0 .. size - 1
    BY <1>1, <1>3, <2>1
  <2>3. size * (q - 1) = size * q - size /\ size * q \in Nat
    BY <1>1, <1>3
  <2>4. y = size * (q - 1) + (size - 1)
    BY <1>1, <1>3, <1>6, <1>7, <2>2, <2>3
  <2>5. y \div size = q - 1 /\ y % size = size - 1
    BY <1>1, <2>2, <2>4, OneQuotient
  <2> QED
    BY <1>1, <1>3, <1>4, <1>5, <1>7, <2>5 DEF size
<1>8. CASE r # 0
  <2>1. r - 1 \in 0 .. size - 1
    BY <1>1, <1>3, <1>8
  <2>2. y = size * q + (r - 1)
    <3>1. size * q \in Nat
      BY <1>1, <1>3
    <3> QED
      BY <1>1, <1>3, <1>6, <3>1
  <2>0. q \in Int
    BY <1>3
  <2> DEFINE s == r - 1
  <2> HIDE DEF s
  <2>3. y \div size = q /\ y % size = s
    <3>1. s \in 0 .. size - 1 /\ y = size * q + s
      BY <2>1, <2>2 DEF s
    <3> QED
      BY <1>1, <2>0, <3>1, OneQuotient
  <2> QED
    BY <1>1, <1>3, <1>4, <1>5, <1>8, <2>3 DEF s
<1> QED
  BY <1>7, <1>8

\* Where the tiles of a line start, and that they are there.
LinePlaces(starts, front, line, bits) ==
  /\ starts[1] = 0
  /\ \A t \in 1 .. TileCount(front) :
       /\ starts[t] \in Nat
       /\ starts[t + 1] = starts[t] + Len(PackTile(front, TileOf(front, line, t)))
       /\ Meets(bits, 1 + starts[t], PackTile(front, TileOf(front, line, t)))

\* A line is a text in which every tile lies behind the ones before it.
LEMMA LineIsText ==
  ASSUME NEW front, NEW line \in [Columns -> Residuals]
  PROVE  /\ PackLine(front, line) \in Text
         /\ \E starts : LinePlaces(starts, front, line, PackLine(front, line))
<1> DEFINE count == TileCount(front)
           strings == [t \in 1 .. count |-> PackTile(front, TileOf(front, line, t))]
           body == Concat(strings)
           gap == (WordBits - (Len(body) % WordBits)) % WordBits
           padding == [i \in 1 .. gap |-> 0]
           whole == body \o padding
<1>1. count \in Nat
  BY TileLengthIsPositive
<1>2. strings \in [1 .. count -> Text]
  <2> SUFFICES ASSUME NEW t \in 1 .. count
               PROVE  PackTile(front, TileOf(front, line, t)) \in Text
    OBVIOUS
  <2> DEFINE n == Len(TileOf(front, line, t))
  <2>1. n \in 1 .. TileLength(front) /\ TileOf(front, line, t) \in [1 .. n -> Residuals]
    BY TileIsPiece
  <2> HIDE DEF n
  <2>2. n \in Nat \ {0}
    BY <2>1, TileLengthIsPositive
  <2> QED
    BY <2>1, <2>2, TileReads
<1>3. PackLine(front, line) = whole
  BY DEF PackLine, Align
<1>4. \A t \in 1 .. count : strings[t] = PackTile(front, TileOf(front, line, t))
  OBVIOUS
<1> HIDE DEF strings
<1>5. PICK starts : Layout(starts, count, strings, body) /\ body \in Text
  BY <1>1, <1>2, Joins
<1> HIDE DEF body
<1>6. gap \in Nat
  <2> DEFINE n == Len(body)
             r == n % WordBits
             m == WordBits - r
  <2>1. n \in Nat /\ WordBits \in Nat \ {0}
    BY <1>5, LenProperties, ConstantsArePositive DEF Text
  <2> HIDE DEF n
  <2>2. r \in 0 .. WordBits - 1
    BY <2>1, Divided
  <2> HIDE DEF r
  <2>3. m \in Nat
    BY <2>1, <2>2
  <2> HIDE DEF m
  <2>4. m % WordBits \in 0 .. WordBits - 1
    BY <2>1, <2>3, Divided
  <2>5. m % WordBits \in Nat
    BY <2>4, <2>1
  <2> QED
    BY <2>5 DEF m, r, n
<1> HIDE DEF gap
<1>7. padding \in Text
  <2>1. padding \in [1 .. gap -> Bit]
    BY DEF Bit
  <2> HIDE DEF padding
  <2> QED
    BY <1>6, <2>1, PlainSequence DEF Text
<1> HIDE DEF padding
<1>8. /\ whole \in Text
      /\ Len(body) \in Nat /\ Len(whole) \in Nat /\ Len(body) <= Len(whole)
      /\ \A i \in 1 .. Len(body) : whole[i] = body[i]
  <2>1. body \in Seq(Bit) /\ padding \in Seq(Bit)
    BY <1>5, <1>7 DEF Text
  <2>2. /\ whole \in Seq(Bit)
        /\ Len(body) \in Nat /\ Len(padding) \in Nat
        /\ Len(whole) = Len(body) + Len(padding)
        /\ \A i \in 1 .. Len(body) + Len(padding) :
             whole[i] = IF i <= Len(body) THEN body[i] ELSE padding[i - Len(body)]
    BY <2>1, ConcatProperties, LenProperties
  <2> HIDE DEF whole
  <2>3. \A i \in 1 .. Len(body) : i \in 1 .. Len(body) + Len(padding) /\ i <= Len(body)
    BY <2>2
  <2> QED
    BY <2>2, <2>3 DEF Text
<1> HIDE DEF whole
<1>9. ASSUME NEW t \in 1 .. count
      PROVE  /\ starts[t] \in Nat
             /\ starts[t + 1] = starts[t] + Len(strings[t])
             /\ Meets(whole, 1 + starts[t], strings[t])
  <2>1. /\ starts[t] \in Nat
        /\ starts[t + 1] = starts[t] + Len(strings[t])
        /\ starts[t + 1] <= Len(body)
        /\ \A j \in 1 .. Len(strings[t]) : body[starts[t] + j] = strings[t][j]
    BY <1>5 DEF Layout
  <2>2. Len(strings[t]) \in Nat
    BY <1>2, LenProperties DEF Text
  <2>3. ASSUME NEW j \in 1 .. Len(strings[t])
        PROVE  BitAt(whole, (1 + starts[t]) + j - 1) = strings[t][j]
    <3>1. /\ (1 + starts[t]) + j - 1 = starts[t] + j /\ starts[t] + j \in 1 .. Len(body)
          /\ starts[t] + j <= Len(whole)
      BY <1>8, <2>1, <2>2
    <3> QED
      BY <1>8, <2>1, <3>1 DEF BitAt
  <2> QED
    BY <2>1, <2>3 DEF Meets
<1>10. starts[1] = 0
  BY <1>5 DEF Layout
<1>11. LinePlaces(starts, front, line, whole)
  BY <1>4, <1>9, <1>10 DEF LinePlaces
<1> QED
  BY <1>3, <1>8, <1>11

\* A prefix of a line and the next sample are the longer prefix.
LEMMA PrefixGrows ==
  ASSUME NEW f, NEW x \in Nat \ {0}
  PROVE  Append([i \in 1 .. x - 1 |-> f[i]], f[x]) = [i \in 1 .. x |-> f[i]]
<1> DEFINE S == {f[i] : i \in 1 .. x}
           s == [i \in 1 .. x - 1 |-> f[i]]
           t == [i \in 1 .. x |-> f[i]]
           v == f[x]
<1>1. s \in [1 .. x - 1 -> S] /\ t \in [1 .. x -> S] /\ v \in S /\ x - 1 \in Nat
  OBVIOUS
<1>2. (\A i \in 1 .. x - 1 : s[i] = f[i] /\ t[i] = f[i]) /\ t[x] = v
  OBVIOUS
<1> HIDE DEF S, s, t, v
<1>3. s \in Seq(S) /\ Len(s) = x - 1 /\ t \in Seq(S) /\ Len(t) = x
  BY <1>1, PlainSequence
<1>4. /\ Append(s, v) \in Seq(S)
      /\ Len(Append(s, v)) = (x - 1) + 1
      /\ \A i \in 1 .. x - 1 : Append(s, v)[i] = s[i]
      /\ Append(s, v)[(x - 1) + 1] = v
  BY <1>1, <1>3, AppendProperties
<1>5. (x - 1) + 1 = x
  OBVIOUS
<1>6. \A i \in 1 .. x : Append(s, v)[i] = t[i]
  <2> TAKE i \in 1 .. x
  <2>1. i = x \/ i \in 1 .. x - 1
    OBVIOUS
  <2> QED
    BY <1>2, <1>4, <1>5, <2>1
<1>7. Append(s, v) = t
  <2> DEFINE a == Append(s, v)
  <2>1. a \in Seq(S) /\ Len(a) = Len(t) /\ \A i \in 1 .. Len(a) : a[i] = t[i]
    BY <1>3, <1>4, <1>5, <1>6
  <2> HIDE DEF a
  <2>2. a = t
    BY <1>3, <2>1, SeqEqual
  <2> QED
    BY <2>2 DEF a
<1> QED
  BY <1>7 DEF s, t, v

\* No column has been read before the first.
LEMMA NoPrefix ==
  ASSUME NEW f
  PROVE  [i \in 1 .. 0 |-> f[i]] = <<>>
<1> DEFINE s == [i \in 1 .. 0 |-> f[i]]
<1>1. s \in [1 .. 0 -> {}]
  OBVIOUS
<1> HIDE DEF s
<1>2. s \in Seq({}) /\ Len(s) = 0
  BY <1>1, PlainSequence
<1>3. s = <<>>
  BY <1>2, EmptySeq
<1> QED
  BY <1>3 DEF s

\* A line that was packed is read again, through any front end.
LEMMA LineReads ==
  ASSUME NEW front, NEW line \in [Columns -> Residuals]
  PROVE  UnpackLine(front, PackLine(front, line)) = line
<1> DEFINE bits == PackLine(front, line)
           size == TileLength(front)
           count == TileCount(front)
           tile(t) == TileOf(front, line, t)
           inner(t) == CHOOSE f : TilePlaces(f, front, Len(tile(t)), tile(t))
<1>1. bits \in Text
  BY LineIsText
<1>2. PICK starts : LinePlaces(starts, front, line, bits)
  BY LineIsText
<1> HIDE DEF bits
<1>3. ASSUME NEW t \in 1 .. count
      PROVE  /\ Len(tile(t)) \in 1 .. size
             /\ TilePlaces(inner(t), front, Len(tile(t)), tile(t))
             /\ PlacesBefore(front, t) \in Nat
             /\ \A o \in 1 .. Len(tile(t)) : tile(t)[o] = line[PlacesBefore(front, t) + o]
             /\ Len(tile(t)) = size \/ PlacesBefore(front, t) + Len(tile(t)) = Width
  <2> DEFINE u == tile(t)
             n == Len(u)
  <2>1. n \in 1 .. size /\ u \in [1 .. n -> Residuals]
    BY TileIsPiece
  <2>2. /\ PlacesBefore(front, t) \in Nat
        /\ \A o \in 1 .. Len(tile(t)) : tile(t)[o] = line[PlacesBefore(front, t) + o]
        /\ Len(tile(t)) = size \/ PlacesBefore(front, t) + Len(tile(t)) = Width
    <3>1. PlacesBefore(front, t) \in Nat
      BY TileIsPiece
    <3>2. Len(tile(t)) = size \/ PlacesBefore(front, t) + Len(tile(t)) = Width
      BY TileIsPiece
    <3>3. ASSUME NEW o \in 1 .. Len(tile(t))
          PROVE tile(t)[o] = line[PlacesBefore(front, t) + o]
      <4>1. \A i \in 1 .. Len(TileOf(front, line, t)) :
              TileOf(front, line, t)[i] = line[PlacesBefore(front, t) + i]
        BY TileIsPiece
      <4> QED
        BY <4>1
    <3> QED
      BY <3>1, <3>2, <3>3
  <2>3. \E f : TilePlaces(f, front, n, u)
    <3> HIDE DEF n, u
    <3>1. n \in Nat \ {0}
      BY <2>1, TileLengthIsPositive
    <3> QED
      BY <2>1, <3>1, TileReads
  <2>4. TilePlaces(CHOOSE f : TilePlaces(f, front, n, u), front, n, u)
    <3> HIDE DEF n, u
    <3> QED
      BY <2>3
  <2> QED
    BY <2>1, <2>2, <2>4, Zenon
<1> DEFINE h(t) == HeaderOf(front, tile(t))
           T(x) == TileAt(front, x)
           O(x) == PlaceIn(front, x)
           begin(x) == 1 + starts[T(x)]
           place(x) == begin(x) + HeaderBits
<1>4. ASSUME NEW x \in Columns
      PROVE  /\ T(x) \in 1 .. count /\ O(x) \in 1 .. size
             /\ O(x) \in 1 .. Len(tile(T(x)))
             /\ tile(T(x))[O(x)] = line[x]
             /\ x = PlacesBefore(front, T(x)) + O(x) /\ PlacesBefore(front, T(x)) \in Nat
  <2> DEFINE t == T(x)
             o == O(x)
             b == PlacesBefore(front, t)
             n == Len(tile(t))
  <2>1. t \in 1 .. count /\ o \in 1 .. size /\ x = b + o
    BY ColumnInTile
  <2> HIDE DEF t, o
  <2>2. n \in 1 .. size /\ b \in Nat /\ (n = size \/ b + n = Width)
    BY <1>3, <2>1
  <2>3. \A i \in 1 .. n : tile(t)[i] = line[b + i]
    BY <1>3, <2>1
  <2>4. size \in Nat /\ x \in 1 .. Width /\ Width \in Nat
    BY TileLengthIsPositive, ConstantsArePositive DEF Columns
  <2> HIDE DEF n, b
  <2>5. o \in 1 .. n
    BY <2>1, <2>2, <2>4
  <2>6. tile(t)[o] = line[x]
    BY <2>1, <2>3, <2>5
  <2> QED
    BY <2>1, <2>2, <2>5, <2>6 DEF t, o, b, n
<1>5. ASSUME NEW x \in Columns
      PROVE  /\ begin(x) \in Nat \ {0} /\ place(x) \in Nat \ {0}
             /\ inner(T(x))[1] = 0
             /\ inner(T(x))[O(x)] \in Nat /\ inner(T(x))[O(x) + 1] \in Nat
             /\ Read(bits, begin(x), HeaderBits) = h(T(x))
             /\ Taken(front, bits, place(x) + inner(T(x))[O(x)], h(T(x)))
                  = <<line[x], inner(T(x))[O(x) + 1] - inner(T(x))[O(x)]>>
  <2> DEFINE t == T(x)
             o == O(x)
             u == tile(t)
             f == inner(t)
  <2>1. t \in 1 .. count /\ o \in 1 .. Len(u) /\ u[o] = line[x]
    BY <1>4
  <2> HIDE DEF t, o
  <2>2. TilePlaces(f, front, Len(u), u)
    BY <1>3, <2>1
  <2>3. starts[t] \in Nat /\ Meets(bits, 1 + starts[t], PackTile(front, u))
    BY <1>2, <2>1 DEF LinePlaces
  <2> HIDE DEF f, u
  <2> DEFINE s == 1 + starts[t]
  <2>4. s \in Nat \ {0} /\ s + HeaderBits \in Nat \ {0}
    BY <2>3, ConstantsArePositive
  <2>5. Meets(bits, s, PackTile(front, u))
    BY <2>3
  <2> HIDE DEF s
  <2>6. /\ Read(bits, s, HeaderBits) = HeaderOf(front, u)
        /\ \A i \in 1 .. Len(u) :
             Taken(front, bits, s + HeaderBits + f[i], HeaderOf(front, u))
               = <<u[i], f[i + 1] - f[i]>>
    BY <1>1, <2>2, <2>4, <2>5 DEF TilePlaces
  <2>7. f[1] = 0 /\ f[o] \in Nat /\ f[o + 1] \in Nat
    BY <2>1, <2>2 DEF TilePlaces
  <2>8. Taken(front, bits, s + HeaderBits + f[o], HeaderOf(front, u)) = <<line[x], f[o + 1] - f[o]>>
    BY <2>1, <2>6
  <2> QED
    BY <2>4, <2>6, <2>7, <2>8 DEF s, f, u, o, t
<1> DEFINE after(x) == place(x) + inner(T(x))[O(x) + 1]
           prefix(x) == [i \in 1 .. x |-> line[i]]
           E == [x \in 0 .. Width |->
                   IF x = 0 THEN [line |-> <<>>, at |-> 1, header |-> 0]
                   ELSE [line |-> prefix(x), at |-> after(x), header |-> h(T(x))]]
<1>6. ASSUME NEW x \in Columns
      PROVE  /\ E[x - 1].line = prefix(x - 1)
             /\ O(x) = 1 => E[x - 1].at = begin(x)
             /\ O(x) # 1 => E[x - 1].at = place(x) + inner(T(x))[O(x)] /\ E[x - 1].header = h(T(x))
  <2>0. x \in Nat /\ x - 1 \in 0 .. Width /\ (x # 1 => x - 1 \in Columns /\ x - 1 # 0)
    BY ConstantsArePositive DEF Columns
  <2>1. CASE x = 1
    <3>1. E[x - 1] = [line |-> <<>>, at |-> 1, header |-> 0]
      BY <2>0, <2>1
    <3>2. prefix(x - 1) = <<>>
      BY <2>1, NoPrefix
    <3>3. O(x) = 1 /\ T(x) = 1
      <4> DEFINE t == T(x)
                 o == O(x)
      <4>1. /\ 1 = PlacesBefore(front, t) + o
            /\ PlacesBefore(front, t) \in Nat /\ o \in 1 .. size /\ t \in 1 .. count
        BY <1>4, <2>1
      <4>2. size \in Nat \ {0} /\ count \in Nat
        BY TileLengthIsPositive
      <4> HIDE DEF t, o, size, count
      <4>3. PlacesBefore(front, t) = 0 /\ o = 1 /\ t \in Nat \ {0}
        BY <4>1, <4>2
      <4>4. (t - 1) * size = 0
        BY <4>3 DEF PlacesBefore, size
      <4>5. t = 1
        BY <4>2, <4>3, <4>4
      <4> QED
        BY <4>3, <4>5 DEF t, o
    <3>4. begin(x) = 1
      BY <1>2, <3>3 DEF LinePlaces
    <3> DEFINE e == E[x - 1]
               p == prefix(x - 1)
               b == begin(x)
               o == O(x)
    <3>5. e = [line |-> <<>>, at |-> 1, header |-> 0] /\ p = <<>> /\ o = 1 /\ b = 1
      BY <3>1, <3>2, <3>3, <3>4
    <3> HIDE DEF e, p, b, o
    <3>6. e.line = p /\ e.at = b
      BY <3>5
    <3> QED
      BY <3>5, <3>6 DEF e, p, b, o
  <2>2. CASE x # 1
    <3> DEFINE y == x - 1
    <3>1. y \in Columns /\ y # 0 /\ y \in 0 .. Width
      BY <2>0, <2>2
    <3>2. IF O(x) = 1 THEN T(y) = T(x) - 1 /\ O(y) = size ELSE T(y) = T(x) /\ O(y) = O(x) - 1
      BY <3>1, PlaceBefore
    <3> HIDE DEF y
    <3>3. E[y] = [line |-> prefix(y), at |-> after(y), header |-> h(T(y))]
      BY <3>1
    <3> HIDE DEF E
    <3>4. CASE O(x) = 1
      <4> DEFINE t == T(x)
                 s == T(y)
                 u == tile(s)
      <4>1. t \in 1 .. count /\ s \in 1 .. count /\ s = t - 1 /\ O(y) = size /\ O(y) \in 1 .. Len(u)
            /\ O(x) \in 1 .. size
        BY <1>4, <3>1, <3>2, <3>4
      <4>2. Len(u) \in 1 .. size /\ TilePlaces(inner(s), front, Len(u), u)
        BY <1>3, <4>1
      <4>3. starts[s + 1] = starts[s] + Len(PackTile(front, u)) /\ starts[s] \in Nat
        BY <1>2, <4>1 DEF LinePlaces
      <4>0. size \in Nat /\ HeaderBits \in Nat
        BY TileLengthIsPositive, ConstantsArePositive
      <4> HIDE DEF u
      <4>4. Len(u) = size
        BY <4>0, <4>1, <4>2
      <4>5. Len(PackTile(front, u)) = HeaderBits + inner(s)[size + 1]
        BY <4>2, <4>4 DEF TilePlaces
      <4>6. inner(s)[size + 1] \in Nat
        BY <1>5, <3>1, <4>1
      <4>7. s + 1 = t
        BY <4>1
      <4>8. starts[t] = starts[s] + HeaderBits + inner(s)[size + 1]
        BY <4>0, <4>3, <4>5, <4>6, <4>7
      <4>9. after(y) = 1 + starts[t]
        <5>1. after(y) = (1 + starts[s]) + HeaderBits + inner(s)[size + 1]
          BY <4>1
        <5> HIDE DEF after, s, t
        <5> QED
          BY <4>0, <4>3, <4>6, <4>8, <5>1
      <4> QED
        BY <3>3, <3>4, <4>9 DEF y
    <3>5. CASE O(x) # 1
      <4>1. T(y) = T(x) /\ O(y) + 1 = O(x)
        BY <1>4, <3>2, <3>5
      <4>2. after(y) = place(x) + inner(T(x))[O(x)]
        BY <4>1
      <4> QED
        BY <3>3, <3>5, <4>1, <4>2 DEF y
    <3> QED
      BY <3>4, <3>5
  <2> QED
    BY <2>1, <2>2
<1>7. ASSUME NEW x \in Columns
      PROVE  UnpackStep(front, bits, E[x - 1], x) = E[x]
  <2> DEFINE before == E[x - 1]
             opens == (x - 1) % TileLength(front) = 0
             header == IF opens THEN Read(bits, before.at, HeaderBits) ELSE before.header
             at == IF opens THEN before.at + HeaderBits ELSE before.at
             f == inner(T(x))
             o == O(x)
             taken == Taken(front, bits, at, header)
             p == place(x)
             b == begin(x)
             v == h(T(x))
             q == prefix(x - 1)
             r == prefix(x)
  <2>1. opens <=> o = 1
    <3> DEFINE z == (x - 1) % size
    <3>1. o = z + 1
      BY DEF PlaceIn
    <3>2. z \in 0 .. size - 1 /\ size \in Nat
      <4>1. x - 1 \in Nat /\ size \in Nat \ {0}
        BY TileLengthIsPositive, ConstantsArePositive DEF Columns
      <4> HIDE DEF size
      <4> QED
        BY <4>1, Divided
    <3>3. opens <=> z = 0
      OBVIOUS
    <3> HIDE DEF z, opens, o, size
    <3> QED
      BY <3>1, <3>2, <3>3
  <2>2. /\ before.line = q
        /\ o = 1 => before.at = b
        /\ o # 1 => before.at = p + f[o] /\ before.header = v
    BY <1>6
  <2>3. /\ b \in Nat \ {0} /\ p \in Nat \ {0} /\ f[1] = 0
        /\ f[o] \in Nat /\ f[o + 1] \in Nat
        /\ Read(bits, b, HeaderBits) = v
        /\ Taken(front, bits, p + f[o], v) = <<line[x], f[o + 1] - f[o]>>
    BY <1>5
  <2>4. p = b + HeaderBits /\ HeaderBits \in Nat
    BY ConstantsArePositive
  <2>5. UnpackStep(front, bits, before, x) =
          [line |-> Append(before.line, taken[1]), at |-> at + taken[2], header |-> header]
    BY DEF UnpackStep, Taken
  <2>6. Append(q, line[x]) = r
    <3>1. x \in Nat \ {0}
      BY ConstantsArePositive DEF Columns
    <3> QED
      BY <3>1, PrefixGrows
  <2>7. E[x] = [line |-> r, at |-> p + f[o + 1], header |-> v]
    <3>1. x \in 0 .. Width /\ x # 0
      BY ConstantsArePositive DEF Columns
    <3> QED
      BY <3>1
  <2> HIDE DEF p, b, v, q, r, f, o, before, opens, E
  <2>8. header = v /\ at = p + f[o]
    <3>1. CASE opens
      <4>1. f[o] = 0 /\ before.at = b
        BY <2>1, <2>2, <2>3, <3>1
      <4>2. header = v
        BY <2>3, <3>1, <4>1
      <4>3. at = b + HeaderBits
        BY <3>1, <4>1
      <4>4. b + HeaderBits = p + f[o]
        BY <2>3, <2>4, <4>1
      <4> QED
        BY <4>2, <4>3, <4>4
    <3>2. CASE ~opens
      BY <2>1, <2>2, <3>2
    <3> QED
      BY <3>1, <3>2
  <2> HIDE DEF at, header
  <2>9. taken = <<line[x], f[o + 1] - f[o]>>
    BY <2>3, <2>8
  <2>10. Append(before.line, taken[1]) = r
    BY <2>2, <2>6, <2>9
  <2>11. at + taken[2] = p + f[o + 1]
    <3> DEFINE i == f[o]
               j == f[o + 1]
    <3>1. taken[2] = j - i /\ at = p + i
      BY <2>8, <2>9
    <3>2. i \in Nat /\ j \in Nat /\ p \in Nat
      BY <2>3
    <3> HIDE DEF i, j, taken
    <3>3. at + taken[2] = p + j
      BY <3>1, <3>2
    <3> QED
      BY <3>3 DEF j
  <2> HIDE DEF taken
  <2> QED
    BY <2>5, <2>7, <2>8, <2>10, <2>11, Zenon DEF before
<1>8. E[Width].line = line
  <2>1. Width \in 0 .. Width /\ Width # 0
    BY ConstantsArePositive
  <2>2. E[Width].line = prefix(Width)
    BY <2>1
  <2>3. prefix(Width) = line
    BY DEF Columns
  <2> QED
    BY <2>2, <2>3
<1>9. UnpackLine(front, bits) = line
  <2> DEFINE Unpacked(g) == [x \in 0 .. Width |->
                IF x = 0 THEN [line |-> <<>>, at |-> 1, header |-> 0]
                ELSE UnpackStep(front, bits, g[x - 1], x)]
             found == CHOOSE g : g = Unpacked(g)
             zero == [line |-> <<>>, at |-> 1, header |-> 0]
  <2>0. E[0] = zero /\ E = [x \in 0 .. Width |-> E[x]]
    BY ConstantsArePositive
  <2>1. UnpackLine(front, bits) = found[Width].line
    BY Zenon DEF UnpackLine
  <2> HIDE DEF E, zero
  <2>2. E = Unpacked(E)
    <3>1. \A x \in 0 .. Width : x # 0 => x \in Columns
      BY ConstantsArePositive DEF Columns
    <3>2. \A x \in 0 .. Width : E[x] = Unpacked(E)[x]
      <4> TAKE x \in 0 .. Width
      <4>1. CASE x = 0
        BY <2>0, <4>1 DEF zero
      <4>2. CASE x # 0
        BY <1>7, <3>1, <4>2
      <4> QED
        BY <4>1, <4>2
    <3> QED
      BY <2>0, <3>2
  <2>3. found = Unpacked(found)
    BY <2>2
  <2> HIDE DEF found
  <2>4. /\ found[0] = zero
        /\ \A x \in 1 .. Width : found[x] = UnpackStep(front, bits, found[x - 1], x)
        /\ \A x \in 1 .. Width : E[x] = UnpackStep(front, bits, E[x - 1], x)
    <3>1. \A x \in 0 .. Width : found[x] = Unpacked(found)[x]
      BY <2>3
    <3>2. 0 \in 0 .. Width /\ \A x \in 1 .. Width : x \in 0 .. Width /\ x # 0
      BY ConstantsArePositive
    <3>3. \A x \in 1 .. Width : E[x] = UnpackStep(front, bits, E[x - 1], x)
      BY <1>7 DEF Columns
    <3> QED
      BY <3>1, <3>2, <3>3 DEF zero
  <2> DEFINE S == {x \in 0 .. Width : found[x] = E[x]}
  <2>5. 0 \in S
    BY <2>0, <2>4, ConstantsArePositive
  <2>6. \A x \in 1 .. Width : x - 1 \in S => x \in S
    BY <2>4, ConstantsArePositive
  <2> HIDE DEF S
  <2>7. \A x \in 0 .. Width : x \in S
    BY <2>5, <2>6, UpTo, ConstantsArePositive
  <2>8. Width \in S
    BY <2>7, ConstantsArePositive
  <2> QED
    BY <1>8, <2>1, <2>8 DEF S
<1> QED
  BY <1>9 DEF bits

-----------------------------------------------------------------------------
(* A sample: its range, its prediction, its residual.                      *)

PlaneRange(p) == Lowest(p) .. Top

\* The range of a plane is not empty and holds the value a prediction starts from.
LEMMA RangeOfPlane ==
  ASSUME NEW p
  PROVE  /\ Lowest(p) \in Int /\ 0 - Top <= Lowest(p) /\ Lowest(p) <= 0
         /\ 0 \in PlaneRange(p) /\ Top \in Nat
<1>1. Top \in Nat \ {0}
  BY ConstantsArePositive
<1> QED
  BY <1>1 DEF Lowest, PlaneRange

\* A colour is transformed into the ranges of its planes (nlc_codec.cpp, forward transform).
LEMMA ColourRange ==
  ASSUME NEW pixel \in (0 .. Top) \X (0 .. Top) \X (0 .. Top), NEW p \in Planes
  PROVE  ToYCoCg(pixel)[p] \in PlaneRange(p)
<1> DEFINE r == pixel[1]
           g == pixel[2]
           b == pixel[3]
           co == r - b
           t == b + (co \div 2)
           cg == g - t
           l == t + (cg \div 2)
<1>1. r \in 0 .. Top /\ g \in 0 .. Top /\ b \in 0 .. Top /\ Top \in Nat
  BY ConstantsArePositive
<1>2. ToYCoCg(pixel) = <<l, co, cg>>
  BY DEF ToYCoCg
<1> HIDE DEF r, g, b
<1>3. co \in (0 - Top) .. Top /\ t \in 0 .. Top
  BY <1>1
<1> HIDE DEF t
<1>4. cg \in (0 - Top) .. Top /\ l \in 0 .. Top
  BY <1>1, <1>3
<1> HIDE DEF co, cg, l
<1>5. p = 1 \/ p = 2 \/ p = 3
  BY DEF Planes
<1>6. -Top = 0 - Top
  BY <1>1
<1> QED
  BY <1>2, <1>3, <1>4, <1>5, <1>6 DEF PlaneRange, Lowest

\* The halves are floors both ways: the colours come back.
LEMMA ColourBack ==
  ASSUME NEW pixel \in (0 .. Top) \X (0 .. Top) \X (0 .. Top)
  PROVE  FromYCoCg(ToYCoCg(pixel)) = pixel
<1> DEFINE r == pixel[1]
           g == pixel[2]
           b == pixel[3]
           co == r - b
           t == b + (co \div 2)
           cg == g - t
           l == t + (cg \div 2)
           ycc == <<l, co, cg>>
           t1 == ycc[1] - (ycc[3] \div 2)
           b1 == t1 - (ycc[2] \div 2)
<1>1. r \in 0 .. Top /\ g \in 0 .. Top /\ b \in 0 .. Top /\ Top \in Nat /\ pixel = <<r, g, b>>
  BY ConstantsArePositive
<1>2. ToYCoCg(pixel) = ycc
  BY DEF ToYCoCg
<1> HIDE DEF r, g, b
<1>3. t1 = t /\ b1 = b /\ b1 + co = r /\ cg + t1 = g
  BY <1>1
<1>4. FromYCoCg(ycc) = <<b1 + co, cg + t1, b1>>
  BY DEF FromYCoCg
<1> HIDE DEF t1, b1, co, cg, ycc
<1> QED
  BY <1>1, <1>2, <1>3, <1>4

\* A prediction is in the range of its neighbours (the median edge detector).
LEMMA PredictInRange ==
  ASSUME NEW lo \in Int, NEW hi \in Int, NEW left \in lo .. hi, NEW above \in lo .. hi,
         NEW corner \in lo .. hi
  PROVE  Predict(left, above, corner) \in lo .. hi
  BY DEF Predict

\* So is the prediction of a sample from the row above and what is left of it.
LEMMA PredictionInRange ==
  ASSUME NEW p, NEW x \in Columns, NEW row, \A i \in 1 .. x - 1 : row[i] \in PlaneRange(p),
         NEW before \in [Columns -> PlaneRange(p)], NEW first \in BOOLEAN
  PROVE  Prediction(row, before, x, first) \in PlaneRange(p)
<1> DEFINE left == IF x > 1 THEN row[x - 1] ELSE IF first THEN 0 ELSE before[x]
           above == IF first THEN left ELSE before[x]
           corner == IF x > 1 /\ ~first THEN before[x - 1] ELSE above
<1>1. 0 \in PlaneRange(p)
  BY RangeOfPlane
<1>2. x > 1 => x - 1 \in 1 .. x - 1 /\ x - 1 \in Columns
  BY ConstantsArePositive DEF Columns
<1>3. left \in PlaneRange(p)
  BY <1>1, <1>2
<1> HIDE DEF left
<1>4. above \in PlaneRange(p)
  BY <1>3
<1> HIDE DEF above
<1>5. corner \in PlaneRange(p)
  BY <1>2, <1>4
<1>6. Prediction(row, before, x, first) = Predict(left, above, corner)
  BY Zenon DEF Prediction, left, above, corner
<1> HIDE DEF corner
<1>7. Predict(left, above, corner) \in Lowest(p) .. Top
  BY <1>3, <1>4, <1>5, RangeOfPlane, PredictInRange DEF PlaneRange
<1> QED
  BY <1>6, <1>7 DEF PlaneRange

\* A quantized difference is rebuilt within k, and its size is bounded by the difference.
LEMMA QuantIsNear ==
  ASSUME NEW e \in Int, NEW k \in Nat
  PROVE  /\ Quant(e, k) \in Int
         /\ Magnitude(Quant(e, k)) <= Magnitude(e)
         /\ Dequant(Quant(e, k), k) \in Int
         /\ 0 - k <= e - Dequant(Quant(e, k), k) /\ e - Dequant(Quant(e, k), k) <= k
<1> DEFINE a == Magnitude(e)
           d == 2 * k + 1
           m == (a + k) \div d
           r == (a + k) % d
           z == m * d
           q == IF e > 0 THEN m ELSE -m
<1>1. a \in Nat /\ d \in Nat \ {0} /\ a + k \in Nat /\ (e > 0 => a = e) /\ (~(e > 0) => a = -e)
  BY DEF Magnitude
<1>2. Quant(e, k) = q
  BY DEF Quant
<1>3. Dequant(q, k) = q * d
  BY DEF Dequant
<1>0. d = 2 * k + 1
  OBVIOUS
<1> HIDE DEF a, d
<1>4. m \in Nat /\ r \in 0 .. d - 1 /\ a + k = d * m + r
  <2> DEFINE n == a + k
  <2>1. n \in Nat
    BY <1>1
  <2> HIDE DEF n
  <2>2. n \div d \in Nat /\ n % d \in 0 .. d - 1 /\ n = d * (n \div d) + (n % d)
    BY <1>1, <2>1, Divided
  <2> QED
    BY <2>2 DEF n
<1> HIDE DEF m, r
<1>5. z \in Nat /\ a + k = z + r
  BY <1>1, <1>4
<1>6. m <= a
  <2> SUFFICES ASSUME a + 1 <= m PROVE FALSE
    BY <1>1, <1>4
  <2>1. (a + 1) * d <= m * d
    BY <1>1, <1>4
  <2>2. (a + 1) * d = a * d + d /\ a * d \in Nat
    BY <1>1
  <2>3. a <= a * d
    BY <1>1
  <2> QED
    BY <1>0, <1>1, <1>4, <1>5, <2>1, <2>2, <2>3
<1>7. q \in Int /\ Magnitude(q) <= a
  BY <1>1, <1>4, <1>6 DEF Magnitude
<1>8. q * d = IF e > 0 THEN z ELSE -z
  BY <1>1, <1>4
<1> HIDE DEF z
<1>9. q * d \in Int /\ 0 - k <= e - q * d /\ e - q * d <= k
  <2> DEFINE w == q * d
  <2>1. w = IF e > 0 THEN z ELSE -z
    BY <1>8
  <2> HIDE DEF w, q
  <2>2. w \in Int /\ 0 - k <= e - w /\ e - w <= k
    BY <1>0, <1>1, <1>4, <1>5, <2>1
  <2> QED
    BY <2>2 DEF w
<1> HIDE DEF q
<1> QED
  BY <1>2, <1>3, <1>7, <1>9 DEF a

\* A folded residual is unfolded to what it was.
LEMMA ZigzagBack ==
  ASSUME NEW v \in Int
  PROVE  /\ Zigzag(v) \in Nat
         /\ Zigzag(v) <= 2 * Magnitude(v)
         /\ UnZigzag(Zigzag(v)) = v
<1>1. CASE v >= 0
  <2> DEFINE u == 2 * v
  <2>1. Zigzag(v) = u
    BY <1>1 DEF Zigzag
  <2>2. u % 2 = 0 /\ u \div 2 = v /\ u \in Nat
    BY <1>1
  <2> HIDE DEF u
  <2>3. UnZigzag(u) = v
    BY <2>2 DEF UnZigzag
  <2> QED
    BY <1>1, <2>1, <2>2, <2>3 DEF Magnitude, u
<1>2. CASE ~(v >= 0)
  <2> DEFINE u == 2 * (-v) - 1
  <2>1. Zigzag(v) = u
    BY <1>2 DEF Zigzag
  <2>2. u % 2 = 1 /\ (u + 1) \div 2 = -v /\ u \in Nat
    BY <1>2
  <2> HIDE DEF u
  <2>3. UnZigzag(u) = v
    BY <2>2 DEF UnZigzag
  <2> QED
    BY <1>2, <2>1, <2>2, <2>3 DEF Magnitude, u
<1> QED
  BY <1>1, <1>2

\* A sample is rebuilt in its range and within near_lvl, from a residual that can be packed.
LEMMA SampleIsNear ==
  ASSUME NEW p, NEW k \in Nat, NEW s \in PlaneRange(p), NEW g \in PlaneRange(p)
  PROVE  /\ Rebuild(g, Quant(s - g, k), k, p) \in PlaneRange(p)
         /\ Magnitude(Rebuild(g, Quant(s - g, k), k, p) - s) <= k
         /\ Zigzag(Quant(s - g, k)) \in Residuals
         /\ UnZigzag(Zigzag(Quant(s - g, k))) = Quant(s - g, k)
<1> DEFINE e == s - g
           q == Quant(e, k)
           w == Dequant(q, k)
           lo == Lowest(p)
<1>1. lo \in Int /\ 0 - Top <= lo /\ lo <= 0 /\ Top \in Nat /\ s \in lo .. Top /\ g \in lo .. Top
  BY RangeOfPlane DEF PlaneRange
<1> HIDE DEF lo
<1>2. e \in Int
  BY <1>1
<1>3. Magnitude(e) <= 2 * Top
  BY <1>1 DEF Magnitude
<1>8. e = s - g
  OBVIOUS
<1> HIDE DEF e
<1>4. /\ q \in Int /\ Magnitude(q) <= Magnitude(e) /\ w \in Int
      /\ 0 - k <= e - w /\ e - w <= k
  BY <1>2, QuantIsNear
<1> HIDE DEF q
<1>5. Zigzag(q) \in Nat /\ Zigzag(q) <= 2 * Magnitude(q) /\ UnZigzag(Zigzag(q)) = q
  BY <1>4, ZigzagBack
<1> HIDE DEF w
<1>6. Clamp(g + w, lo, Top) \in lo .. Top
  BY <1>1, <1>4 DEF Clamp
<1>7. Magnitude(Clamp(g + w, lo, Top) - s) <= k
  BY <1>1, <1>4, <1>8 DEF Clamp, Magnitude
<1>9. Zigzag(q) \in Residuals
  <2>1. Magnitude(q) \in Int /\ Magnitude(e) \in Int
    BY <1>2, <1>4 DEF Magnitude
  <2> QED
    BY <1>1, <1>3, <1>4, <1>5, <2>1 DEF Residuals
<1>10. Rebuild(g, q, k, p) = Clamp(g + w, lo, Top)
  BY DEF Rebuild, w, lo
<1> QED
  BY <1>5, <1>6, <1>7, <1>9, <1>10 DEF q, e, lo, PlaneRange

\* A line is rebuilt in range and within near_lvl, and its decoder rebuilds the same.
LEMMA LineIsNear ==
  ASSUME NEW p, NEW k \in Nat, NEW samples \in [Columns -> PlaneRange(p)],
         NEW before \in [Columns -> PlaneRange(p)], NEW first \in BOOLEAN
  PROVE  LET coded == EncodeLine(samples, before, first, k, p)
         IN  /\ coded \in [Columns -> PlaneRange(p) \X Residuals]
             /\ \A x \in Columns : Magnitude(coded[x][1] - samples[x]) <= k
             /\ DecodeLine([x \in Columns |-> coded[x][2]], before, first, k, p)
                  = [x \in Columns |-> coded[x][1]]
<1> DEFINE P == PlaneRange(p) \X Residuals
           row(x, s) == [i \in 1 .. x - 1 |-> s[i][1]]
           guess(x, s) == Prediction(row(x, s), before, x, first)
           error(x, s) == Quant(samples[x] - guess(x, s), k)
           code(x, s) == <<Rebuild(guess(x, s), error(x, s), k, p), Zigzag(error(x, s))>>
           Coded1(f) == [x \in 0 .. Width |->
                           IF x = 0 THEN <<>> ELSE Append(f[x - 1], code(x, f[x - 1]))]
           found == CHOOSE f : f = Coded1(f)
<1>0. Width \in Nat /\ Columns = 1 .. Width
  BY ConstantsArePositive DEF Columns
<1>1. EncodeLine(samples, before, first, k, p) = found[Width]
  BY Zenon DEF EncodeLine
<1>2. ASSUME NEW x \in Columns, NEW s, \A i \in 1 .. x - 1 : s[i] \in P
      PROVE  /\ code(x, s) \in P
             /\ Magnitude(code(x, s)[1] - samples[x]) <= k
             /\ UnZigzag(code(x, s)[2]) = error(x, s)
  <2> DEFINE r == row(x, s)
             g == Prediction(r, before, x, first)
  <2>1. \A i \in 1 .. x - 1 : r[i] \in PlaneRange(p)
    BY <1>2
  <2> HIDE DEF r
  <2>2. g \in PlaneRange(p)
    BY <2>1, PredictionInRange
  <2> HIDE DEF g
  <2> DEFINE q == Quant(samples[x] - g, k)
             v == Rebuild(g, q, k, p)
  <2>3. /\ v \in PlaneRange(p)
        /\ Magnitude(v - samples[x]) <= k
        /\ Zigzag(q) \in Residuals
        /\ UnZigzag(Zigzag(q)) = q
    BY <2>2, SampleIsNear
  <2>4. code(x, s) = <<v, Zigzag(q)>> /\ error(x, s) = q
    BY DEF g, r
  <2> HIDE DEF q, v, code, error
  <2> QED
    BY <2>3, <2>4
<1> HIDE DEF row, guess, error
<1>3. \E f : f = Coded1(f)
  <2> DEFINE none == <<>>
             D == [x \in 0 .. Width |-> [1 .. x -> P]]
             step == [x \in 1 .. Width |-> [s \in [1 .. x - 1 -> P] |-> Append(s, code(x, s))]]
  <2>1. \A x \in 1 .. Width : \A s \in D[x - 1] : step[x][s] \in D[x]
    <3> TAKE x \in 1 .. Width
    <3>1. /\ x - 1 \in 0 .. Width /\ x \in 0 .. Width /\ x - 1 \in Nat
          /\ (x - 1) + 1 = x /\ x \in Columns
          /\ x \in Nat
      BY <1>0
    <3> TAKE s \in D[x - 1]
    <3>2. s \in [1 .. x - 1 -> P]
      BY <3>1
    <3> DEFINE v == code(x, s)
               a == Append(s, v)
    <3>3. v \in P
      <4>1. \A i \in 1 .. x - 1 : s[i] \in P
        BY <3>2
      <4> HIDE DEF P, code
      <4> QED
        BY <1>2, <3>1, <4>1
    <3>4. step[x][s] = a
      BY <3>2
    <3> HIDE DEF v, P, code
    <3>5. s \in Seq(P) /\ Len(s) = x - 1
      BY <3>1, <3>2, PlainSequence
    <3>6. a \in Seq(P) /\ Len(a) = x
      BY <3>1, <3>3, <3>5, AppendProperties
    <3> HIDE DEF a
    <3>7. a \in [1 .. x -> P]
      BY <3>6, LenProperties
    <3>8. D[x] = [1 .. x -> P]
      BY <3>1
    <3> HIDE DEF D, step
    <3> QED
      BY <3>4, <3>7, <3>8
  <2>2. none \in D[0]
    <3>1. none \in Seq(P) /\ Len(none) = 0
      BY EmptySeq
    <3> HIDE DEF none, P
    <3>2. none \in [1 .. 0 -> P]
      BY <3>1, LenProperties
    <3> QED
      BY <1>0, <3>2
  <2>3. DOMAIN step = 1 .. Width
    OBVIOUS
  <2>4. PICK f : /\ f = [x \in 0 .. Width |-> f[x]]
                 /\ f[0] = none
                 /\ \A x \in 1 .. Width : f[x] = step[x][f[x - 1]]
                 /\ \A x \in 0 .. Width : f[x] \in D[x]
    <3> HIDE DEF D, step, none
    <3> QED
      <4>1. Width \in Nat
        BY <1>0
      <4> QED
        BY <4>1, <2>1, <2>2, <2>3, Recursion
  <2>5. \A x \in 1 .. Width : step[x][f[x - 1]] = Append(f[x - 1], code(x, f[x - 1]))
    <3> TAKE x \in 1 .. Width
    <3>1. x - 1 \in 0 .. Width
      BY <1>0
    <3>2. f[x - 1] \in [1 .. x - 1 -> P]
      BY <2>4, <3>1
    <3> HIDE DEF code
    <3> QED
      BY <3>2
  <2>6. \A x \in 0 .. Width : f[x] = Coded1(f)[x]
    <3> HIDE DEF D, step, code
    <3> TAKE x \in 0 .. Width
    <3>1. x # 0 => x \in 1 .. Width
      BY <1>0
    <3> QED
      BY <2>4, <2>5, <3>1
  <2>7. f = Coded1(f)
    <3> HIDE DEF code
    <3> QED
      BY <2>4, <2>6
  <2> QED
    BY <2>7
<1>4. /\ found[0] = <<>>
      /\ \A x \in 1 .. Width : found[x] = Append(found[x - 1], code(x, found[x - 1]))
  <2>1. found = Coded1(found)
    BY <1>3
  <2> HIDE DEF found, code
  <2>2. \A x \in 0 .. Width : found[x] = Coded1(found)[x]
    BY <2>1
  <2>3. 0 \in 0 .. Width /\ \A x \in 1 .. Width : x \in 0 .. Width /\ x # 0
    BY <1>0
  <2> QED
    BY <2>2, <2>3
<1> HIDE DEF found
<1> DEFINE L == [x \in Columns |-> code(x, found[x - 1])]
           prefix(x) == [i \in 1 .. x |-> L[i]]
<1>5. \A x \in 0 .. Width : found[x] = prefix(x)
  <2> DEFINE T == {x \in 0 .. Width : found[x] = prefix(x)}
  <2>1. 0 \in T
    <3>1. prefix(0) = <<>>
      BY NoPrefix
    <3> QED
      BY <1>0, <1>4, <3>1
  <2>2. \A x \in 1 .. Width : x - 1 \in T => x \in T
    <3> TAKE x \in 1 .. Width
    <3> HAVE x - 1 \in T
    <3>1. L[x] = code(x, found[x - 1]) /\ x \in Nat \ {0} /\ x \in 0 .. Width
      BY <1>0
    <3> HIDE DEF L, code
    <3>2. Append(prefix(x - 1), L[x]) = prefix(x)
      BY <3>1, PrefixGrows
    <3>3. found[x] = Append(prefix(x - 1), L[x])
      BY <1>4, <3>1
    <3> QED
      BY <3>1, <3>2, <3>3
  <2> HIDE DEF T
  <2>3. \A x \in 0 .. Width : x \in T
    BY <1>0, <2>1, <2>2, UpTo
  <2> QED
    BY <2>3 DEF T
<1>6. \A x \in Columns : L[x] = code(x, prefix(x - 1))
  <2> TAKE x \in Columns
  <2>1. x - 1 \in 0 .. Width
    BY <1>0
  <2>2. found[x - 1] = prefix(x - 1)
    BY <1>5, <2>1
  <2> QED
    BY <2>2
<1>7. found[Width] = L
  BY <1>0, <1>5
<1>8. \A x \in Columns : L[x] \in P
  <2> DEFINE T == {x \in 0 .. Width : \A i \in 1 .. x : L[i] \in P}
  <2>1. 0 \in T
    BY <1>0
  <2>2. \A x \in 1 .. Width : x - 1 \in T => x \in T
    <3> TAKE x \in 1 .. Width
    <3> HAVE x - 1 \in T
    <3> DEFINE s == prefix(x - 1)
    <3>1. x \in Columns /\ x \in 0 .. Width /\ \A i \in 1 .. x : i = x \/ i \in 1 .. x - 1
      BY <1>0
    <3>2. \A i \in 1 .. x - 1 : L[i] \in P /\ s[i] = L[i]
      OBVIOUS
    <3>3. L[x] = code(x, s)
      BY <1>6, <3>1
    <3> HIDE DEF s, code, L, P
    <3>4. code(x, s) \in P
      <4>1. \A i \in 1 .. x - 1 : s[i] \in P
        BY <3>2
      <4> QED
        BY <1>2, <3>1, <4>1
    <3> QED
      BY <3>1, <3>2, <3>3, <3>4
  <2> HIDE DEF T
  <2>3. \A x \in 0 .. Width : x \in T
    BY <1>0, <2>1, <2>2, UpTo
  <2>4. Width \in T
    BY <1>0, <2>3
  <2> HIDE DEF P, L
  <2> QED
    BY <1>0, <2>4 DEF T
<1>9. ASSUME NEW x \in Columns
      PROVE  /\ Magnitude(L[x][1] - samples[x]) <= k
             /\ UnZigzag(L[x][2]) = error(x, prefix(x - 1))
             /\ L[x][1] = Rebuild(guess(x, prefix(x - 1)), error(x, prefix(x - 1)), k, p)
  <2> DEFINE s == prefix(x - 1)
  <2>1. L[x] = code(x, s)
    BY <1>6
  <2>2. \A i \in 1 .. x - 1 : i \in Columns /\ s[i] = L[i]
    BY <1>0
  <2>5. code(x, s)[1] = Rebuild(guess(x, s), error(x, s), k, p)
    OBVIOUS
  <2> HIDE DEF s, code, L, P
  <2>3. \A i \in 1 .. x - 1 : s[i] \in P
    BY <1>8, <2>2
  <2>4. Magnitude(code(x, s)[1] - samples[x]) <= k /\ UnZigzag(code(x, s)[2]) = error(x, s)
    BY <1>2, <2>3
  <2> QED
    BY <2>1, <2>4, <2>5 DEF s
<1> DEFINE V == [x \in Columns |-> L[x][1]]
           U == [x \in Columns |-> L[x][2]]
           E == [x \in 0 .. Width |-> [i \in 1 .. x |-> V[i]]]
           add(f, x) == Append(f[x - 1], Rebuild(Prediction(f[x - 1], before, x, first),
                                                 UnZigzag(U[x]), k, p))
           Decoded1(f) == [x \in 0 .. Width |-> IF x = 0 THEN <<>> ELSE add(f, x)]
           read == CHOOSE f : f = Decoded1(f)
<1>10. \A x \in 1 .. Width : E[x] = add(E, x)
  <2> TAKE x \in 1 .. Width
  <2> DEFINE s == prefix(x - 1)
             v == E[x - 1]
  <2>1. x \in Nat \ {0} /\ x \in Columns /\ x - 1 \in 0 .. Width /\ x \in 0 .. Width
    BY <1>0
  <2>2. v = [i \in 1 .. x - 1 |-> V[i]] /\ E[x] = [i \in 1 .. x |-> V[i]]
    BY <2>1
  <2>3. row(x, s) = v
    <3>1. \A i \in 1 .. x - 1 : i \in Columns
      BY <1>0
    <3> HIDE DEF L
    <3>2. \A i \in 1 .. x - 1 : s[i][1] = V[i]
      BY <3>1
    <3> HIDE DEF s, V
    <3>3. row(x, s) = [i \in 1 .. x - 1 |-> s[i][1]]
      BY DEF row
    <3> QED
      BY <2>2, <3>2, <3>3
  <2>4. guess(x, s) = Prediction(v, before, x, first)
    <3> HIDE DEF v, s
    <3> QED
      BY <2>3 DEF guess
  <2>5. V[x] = L[x][1] /\ U[x] = L[x][2]
    BY <2>1
  <2>6. V[x] = Rebuild(Prediction(v, before, x, first), UnZigzag(U[x]), k, p)
    <3> HIDE DEF V, U, v, L
    <3> QED
      BY <1>9, <2>1, <2>4, <2>5
  <2>7. Append([i \in 1 .. x - 1 |-> V[i]], V[x]) = [i \in 1 .. x |-> V[i]]
    <3> HIDE DEF V
    <3> QED
      BY <2>1, PrefixGrows
  <2> HIDE DEF V, U
  <2> QED
    BY <2>2, <2>6, <2>7
<1>11. E[0] = <<>> /\ E = [x \in 0 .. Width |-> E[x]] /\ E[Width] = V
  <2> HIDE DEF L
  <2>1. 0 \in 0 .. Width /\ Width \in 0 .. Width
    BY <1>0
  <2>2. [i \in 1 .. 0 |-> V[i]] = <<>>
    BY NoPrefix
  <2> QED
    BY <1>0, <2>1, <2>2
<1> HIDE DEF E, V, U
<1>12. DecodeLine(U, before, first, k, p) = read[Width]
  BY Zenon DEF DecodeLine
<1>13. read[Width] = V
  <2>1. E = Decoded1(E)
    <3>1. \A x \in 0 .. Width : E[x] = Decoded1(E)[x]
      <4> HIDE DEF add
      <4> TAKE x \in 0 .. Width
      <4>1. x # 0 => x \in 1 .. Width
        BY <1>0
      <4> QED
        BY <1>10, <1>11, <4>1
    <3> HIDE DEF add
    <3> QED
      BY <1>11, <3>1
  <2>2. read = Decoded1(read)
    BY <2>1
  <2> HIDE DEF read
  <2>3. /\ read[0] = <<>>
        /\ \A x \in 1 .. Width : read[x] = add(read, x)
    <3> HIDE DEF add
    <3>1. \A x \in 0 .. Width : read[x] = Decoded1(read)[x]
      BY <2>2
    <3>2. 0 \in 0 .. Width /\ \A x \in 1 .. Width : x \in 0 .. Width /\ x # 0
      BY <1>0
    <3> QED
      BY <3>1, <3>2
  <2> DEFINE T == {x \in 0 .. Width : read[x] = E[x]}
  <2>4. 0 \in T
    BY <1>0, <1>11, <2>3
  <2>5. \A x \in 1 .. Width : x - 1 \in T => x \in T
    <3> TAKE x \in 1 .. Width
    <3> HAVE x - 1 \in T
    <3>1. read[x - 1] = E[x - 1]
      OBVIOUS
    <3>2. add(read, x) = add(E, x)
      BY <3>1
    <3> HIDE DEF add
    <3>3. read[x] = E[x] /\ x \in 0 .. Width
      BY <1>0, <1>10, <2>3, <3>2
    <3> QED
      BY <3>3
  <2> HIDE DEF T
  <2>6. \A x \in 0 .. Width : x \in T
    BY <1>0, <2>4, <2>5, UpTo
  <2>7. Width \in T
    BY <1>0, <2>6
  <2> QED
    BY <1>11, <2>7 DEF T
<1>14. L \in [Columns -> P]
  <2>1. L = [x \in Columns |-> L[x]]
    OBVIOUS
  <2> HIDE DEF L, P
  <2> QED
    BY <1>8, <2>1
<1>15. \A x \in Columns : Magnitude(L[x][1] - samples[x]) <= k
  BY <1>9
<1>16. EncodeLine(samples, before, first, k, p) = L
  BY <1>1, <1>7
<1>17. DecodeLine([x \in Columns |-> L[x][2]], before, first, k, p) = [x \in Columns |-> L[x][1]]
  BY <1>12, <1>13 DEF U, V
<1> HIDE DEF L
<1> QED
  BY <1>14, <1>15, <1>16, <1>17

-----------------------------------------------------------------------------
(* The record of a line: three segments and their lengths.                 *)

\* A piece of a sequence, and what is left when its head is dropped.
LEMMA PieceOfSequence ==
  ASSUME NEW S, NEW s \in Seq(S), NEW m \in Nat, NEW n \in Nat, m + n <= Len(s)
  PROVE  /\ SubSeq(s, m + 1, m + n) \in [1 .. n -> S]
         /\ Len(SubSeq(s, m + 1, m + n)) = n
         /\ \A i \in 1 .. n : SubSeq(s, m + 1, m + n)[i] = s[m + i]
<1> DEFINE a == m + 1
           b == m + n
           u == SubSeq(s, a, b)
<1>0. Len(s) \in Nat
  BY LenProperties
<1>1. \A i \in a .. b : s[i] \in S
  <2> TAKE i \in a .. b
  <2>1. i \in 1 .. Len(s)
    BY <1>0
  <2> QED
    BY <2>1, ElementOfSeq
<1>2. a \in Int /\ b \in Int /\ b - a + 1 = n /\ (a <= b <=> n # 0)
  OBVIOUS
<1>4. \A i \in 1 .. n : a + i - 1 = m + i
  OBVIOUS
<1> HIDE DEF a, b
<1>3. /\ u \in Seq(S)
      /\ Len(u) = IF a <= b THEN b - a + 1 ELSE 0
      /\ \A i \in 1 .. b - a + 1 : u[i] = s[a + i - 1]
  BY <1>1, <1>2, SubSeqProperties
<1> HIDE DEF u
<1>5. u \in Seq(S) /\ Len(u) = n /\ \A i \in 1 .. n : u[i] = s[m + i]
  BY <1>2, <1>3, <1>4
<1>6. u \in [1 .. n -> S]
  BY <1>5, LenProperties
<1> QED
  BY <1>5, <1>6 DEF u, a, b

\* A decoder finds the three segments of a line behind the lengths written in front of them.
LEMMA SegmentIsFound ==
  ASSUME NEW parts \in [Planes -> Text], NEW record, NEW p \in Planes,
         record.lengths = [q \in Planes |-> Len(parts[q])], record.bits = Concat(parts)
  PROVE  Segment(record, p) = parts[p]
<1> DEFINE bits == record.bits
           lengths == record.lengths
           len(q) == Len(parts[q])
           first == SubSeq(lengths, 1, p - 1)
<1>1. PICK start : Layout(start, 3, parts, bits) /\ bits \in Text
  BY Joins DEF Planes
<1>2. \A q \in Planes : len(q) \in Nat /\ lengths[q] = len(q)
  BY LenProperties DEF Text
<1>3. lengths \in Seq(Nat) /\ Len(lengths) = 3
  <2> DEFINE n == 3
  <2>1. n \in Nat /\ lengths \in [1 .. n -> Nat]
    BY <1>2 DEF Planes
  <2> HIDE DEF lengths, n
  <2>2. lengths \in Seq(Nat) /\ Len(lengths) = n
    BY <2>1, PlainSequence
  <2> QED
    BY <2>2 DEF n
<1>4. p \in 1 .. 3 /\ p - 1 \in Nat
  BY DEF Planes
<1>5. /\ Len(first) = p - 1 /\ first \in [1 .. p - 1 -> Nat]
      /\ \A i \in 1 .. p - 1 : first[i] = lengths[i]
  <2> DEFINE n == p - 1
             z == 0
  <2>1. n \in Nat /\ z \in Nat /\ z + n <= 3
    BY <1>4
  <2>3. z + 1 = 1 /\ z + n = n /\ \A i \in 1 .. n : z + i = i
    BY <1>4
  <2> HIDE DEF n, z, lengths
  <2>2. /\ SubSeq(lengths, z + 1, z + n) \in [1 .. n -> Nat]
        /\ Len(SubSeq(lengths, z + 1, z + n)) = n
        /\ \A i \in 1 .. n : SubSeq(lengths, z + 1, z + n)[i] = lengths[z + i]
    <3>1. SubSeq(lengths, z + 1, z + n) \in [1 .. n -> Nat]
      BY <1>3, <2>1, PieceOfSequence
    <3>2. Len(SubSeq(lengths, z + 1, z + n)) = n
      BY <1>3, <2>1, PieceOfSequence
    <3>3. ASSUME NEW i \in 1 .. n
          PROVE  SubSeq(lengths, z + 1, z + n)[i] = lengths[z + i]
      BY <1>3, <2>1, PieceOfSequence
    <3> QED
      BY <3>1, <3>2, <3>3
  <2>4. /\ SubSeq(lengths, 1, n) \in [1 .. n -> Nat]
        /\ Len(SubSeq(lengths, 1, n)) = n
        /\ \A i \in 1 .. n : SubSeq(lengths, 1, n)[i] = lengths[i]
    BY <2>2, <2>3
  <2> QED
    BY <2>4 DEF n
<1> HIDE DEF first, lengths
<1>6. PICK sum \in [0 .. p - 1 -> Nat] :
        /\ sum[0] = 0
        /\ \A i \in 1 .. p - 1 : sum[i] = sum[i - 1] + first[i]
        /\ Total(first) = sum[p - 1]
  BY <1>4, <1>5, Sums
<1>7. /\ start[1] = 0
      /\ \A q \in 1 .. 3 : start[q + 1] = start[q] + len(q)
      /\ start[p] \in Nat /\ start[p] + len(p) <= Len(bits)
      /\ \A j \in 1 .. len(p) : bits[start[p] + j] = parts[p][j]
  <2>1. /\ start[1] = 0
        /\ \A i \in 1 .. 3 : /\ start[i] \in Nat
                             /\ start[i + 1] = start[i] + Len(parts[i])
                             /\ start[i + 1] <= Len(bits)
                             /\ \A j \in 1 .. Len(parts[i]) : bits[start[i] + j] = parts[i][j]
    BY <1>1, Zenon DEF Layout
  <2> HIDE DEF bits
  <2>2. p \in 1 .. 3
    BY <1>4
  <2> QED
    BY <2>1, <2>2
<1>8. \A i \in 1 .. p - 1 : first[i] = len(i)
  <2> HIDE DEF len
  <2>1. \A i \in 1 .. p - 1 : i \in Planes
    BY <1>4 DEF Planes
  <2> QED
    BY <1>2, <1>5, <2>1
<1> HIDE DEF len
<1>9. sum[p - 1] = start[p]
  <2>1. CASE p = 1
    BY <1>6, <1>7, <2>1
  <2>2. CASE p = 2
    <3>1. sum[1] = sum[0] + first[1] /\ first[1] = len(1)
      BY <1>6, <1>8, <2>2
    <3>2. start[2] = start[1] + len(1)
      BY <1>7
    <3> QED
      BY <1>6, <1>7, <2>2, <3>1, <3>2
  <2>3. CASE p = 3
    <3>1. /\ sum[1] = sum[0] + first[1] /\ first[1] = len(1)
          /\ sum[2] = sum[1] + first[2] /\ first[2] = len(2)
      BY <1>6, <1>8, <2>3
    <3>2. start[2] = start[1] + len(1) /\ start[3] = start[2] + len(2)
      BY <1>7
    <3> QED
      BY <1>6, <1>7, <2>3, <3>1, <3>2
  <2> QED
    BY <1>4, <2>1, <2>2, <2>3
<1> DEFINE m == start[p]
           n == len(p)
           piece == SubSeq(bits, m + 1, m + n)
<1>10. Segment(record, p) = piece
  <2>1. Total(SubSeq(record.lengths, 1, p - 1)) = m
    BY <1>6, <1>9 DEF first, lengths
  <2>2. record.lengths[p] = n
    BY <1>2 DEF lengths
  <2> QED
    BY <2>1, <2>2, Zenon DEF Segment
<1>11. m \in Nat /\ n \in Nat /\ m + n <= Len(bits)
  BY <1>2, <1>7
<1>12. parts[p] \in Seq(Bit) /\ Len(parts[p]) = n /\ \A j \in 1 .. n : bits[m + j] = parts[p][j]
  BY <1>7 DEF Text, len
<1> HIDE DEF m, n, bits
<1>13. piece \in [1 .. n -> Bit] /\ Len(piece) = n /\ \A i \in 1 .. n : piece[i] = bits[m + i]
  <2>1. bits \in Seq(Bit)
    BY <1>1 DEF Text
  <2>2. Len(piece) = n
    BY <1>11, <2>1, PieceOfSequence
  <2>3. piece \in [1 .. n -> Bit]
    BY <1>11, <2>1, PieceOfSequence
  <2>4. ASSUME NEW i \in 1 .. n PROVE piece[i] = bits[m + i]
    BY <1>11, <2>1, PieceOfSequence
  <2> QED
    BY <2>2, <2>3, <2>4
<1> HIDE DEF piece
<1>14. piece = parts[p]
  <2> DEFINE w == parts[p]
  <2>1. w \in [1 .. n -> Bit]
    BY <1>12, LenProperties
  <2>2. \A i \in 1 .. n : piece[i] = w[i]
    BY <1>12, <1>13
  <2> HIDE DEF w
  <2>3. piece = w
    BY <1>13, <2>1, <2>2
  <2> QED
    BY <2>3 DEF w
<1> QED
  BY <1>10, <1>14

-----------------------------------------------------------------------------
(* The invariant of the codec.                                             *)

\* The rows of a plane hold samples of its range.
Row(p) == [Columns -> PlaneRange(p)]

\* The row a line is predicted from.
RowBefore(rows, y) == IF y = 1 THEN BlankRow ELSE rows[y - 1]

\* A segment holds residuals from which a decoder rebuilds the row, near the samples.
LineOf(front, k, before, first, samples, p, row, segment) ==
  \E residuals \in [Columns -> Residuals] :
    /\ segment = PackLine(front, residuals)
    /\ DecodeLine(residuals, before, first, k, p) = row
    /\ \A x \in Columns : Magnitude(row[x] - samples[x]) <= k

OptionsHold ==
  /\ coding \in {"idle", "planes", "encoded", "refused", "decoded"}
  /\ near \in Nears \union {0}
  /\ pack \in Packs \union {"tiled"}
  /\ failed \subseteq Planes
  /\ coding # "idle" => picture \in [Rows -> [Columns -> Pixels]]
  /\ coding = "idle" => rebuilt = NoRows /\ segments = NoRows /\ failed = {}

RowsHold ==
  /\ DOMAIN rebuilt = Planes /\ rebuilt = [p \in Planes |-> rebuilt[p]]
  /\ \A p \in Planes : rebuilt[p] \in Seq(Row(p)) /\ Len(rebuilt[p]) <= Height

SegmentsHold ==
  /\ segments = [p \in Planes |-> segments[p]]
  /\ \A p \in Planes :
       /\ segments[p] \in Seq(Text)
       /\ Len(segments[p]) = Len(rebuilt[p])
       /\ \A y \in 1 .. Len(rebuilt[p]) : Len(segments[p][y]) <= MaxSegment

LinesHold ==
  \A p \in Planes : \A y \in 1 .. Len(rebuilt[p]) :
    LineOf(pack, near, RowBefore(rebuilt[p], y), y = 1, Samples(p, y), p, rebuilt[p][y],
           segments[p][y])

FrameHolds ==
  IF coding \in {"encoded", "decoded"}
  THEN /\ encoded = [y \in Rows |-> LineRecord(y)]
       /\ Written(encoded) <= Capacity
       /\ \A p \in Planes : Len(rebuilt[p]) = Height
  ELSE encoded = <<>>

DecoderHolds ==
  /\ decoded = [p \in Planes |-> decoded[p]]
  /\ coding \notin {"encoded", "decoded"} => decoded = NoRows
  /\ Len(decoded[1]) <= Height
  /\ coding = "encoded" => Len(decoded[1]) < Height
  /\ \A p \in Planes :
       /\ decoded[p] \in Seq(Row(p))
       /\ Len(decoded[p]) = Len(decoded[1])
       /\ \A y \in 1 .. Len(decoded[p]) : decoded[p][y] = rebuilt[p][y]

CodecInv ==
  OptionsHold /\ RowsHold /\ SegmentsHold /\ LinesHold /\ FrameHolds /\ DecoderHolds

\* A frame without lines takes no room.
LEMMA NothingWritten == Written(<<>>) = 0
<1> DEFINE frame == <<>>
           numbers == [y \in DOMAIN frame |-> RecordBits(frame[y])]
           n == 0
<1>1. frame \in Seq(Nat) /\ Len(frame) = n
  BY EmptySeq
<1>2. DOMAIN frame = 1 .. n
  BY <1>1, LenProperties
<1>3. n \in Nat /\ numbers \in [1 .. n -> Nat]
  BY <1>2
<1>4. Written(frame) = Total(numbers)
  BY DEF Written
<1> HIDE DEF numbers
<1>5. \A i \in 1 .. n : FALSE
  OBVIOUS
<1>6. 0 = n
  OBVIOUS
<1> HIDE DEF n
<1>7. Len(numbers) = n
  BY <1>3, PlainSequence
<1>8. PICK sum \in [0 .. n -> Nat] : sum[0] = 0 /\ Total(numbers) = sum[n]
  BY <1>3, <1>7, Sums
<1>9. Total(numbers) = 0
  BY <1>6, <1>8
<1> QED
  BY <1>4, <1>9

\* Before a frame is coded no plane has rows.
LEMMA NoRowsYet ==
  /\ NoRows = [p \in Planes |-> NoRows[p]]
  /\ \A p \in Planes : Len(NoRows[p]) = 0 /\ \A S : NoRows[p] \in Seq(S)
<1>1. ASSUME NEW p \in Planes
      PROVE  Len(NoRows[p]) = 0 /\ \A S : NoRows[p] \in Seq(S)
  <2> DEFINE none == <<>>
  <2>1. Len(none) = 0 /\ \A S : none \in Seq(S)
    BY EmptySeq
  <2>2. NoRows[p] = none
    BY Zenon DEF NoRows
  <2> HIDE DEF none
  <2> QED
    BY <2>1, <2>2
<1>2. NoRows = [p \in Planes |-> NoRows[p]]
  BY Zenon DEF NoRows
<1> QED
  BY <1>1, <1>2

\* The samples the encoder starts from are in the ranges of their planes.
LEMMA SamplesInRange ==
  ASSUME NEW p \in Planes, NEW y \in Rows, picture \in [Rows -> [Columns -> Pixels]]
  PROVE  /\ Samples(p, y) \in Row(p)
         /\ \A x \in Columns : /\ picture[y][x] \in (0 .. Top) \X (0 .. Top) \X (0 .. Top)
                               /\ Samples(p, y)[x] = ToYCoCg(picture[y][x])[p]
<1>1. \A x \in Columns : picture[y][x] \in (0 .. Top) \X (0 .. Top) \X (0 .. Top)
  <2> TAKE x \in Columns
  <2>1. picture[y][x] \in Pixels
    OBVIOUS
  <2> QED
    BY <2>1, CodecAssumption
<1>2. \A x \in Columns : ToYCoCg(picture[y][x])[p] \in PlaneRange(p)
  BY <1>1, ColourRange
<1> QED
  BY <1>1, <1>2 DEF Samples, Row

\* So is the row above the first.
LEMMA BlankRowIsRow ==
  ASSUME NEW p
  PROVE  BlankRow \in Row(p)
  BY RangeOfPlane DEF BlankRow, Row

\* The last row of a plane is the one before the next.
LEMMA RowsGrow ==
  ASSUME NEW p, NEW rows \in Seq(Row(p)), NEW row \in Row(p)
  PROVE  /\ Len(rows) \in Nat
         /\ LastOf(rows) = RowBefore(rows, Len(rows) + 1)
         /\ LastOf(rows) \in Row(p)
         /\ Append(rows, row) \in Seq(Row(p))
         /\ Len(Append(rows, row)) = Len(rows) + 1
         /\ Append(rows, row)[Len(rows) + 1] = row
         /\ \A y \in 1 .. Len(rows) : Append(rows, row)[y] = rows[y]
         /\ \A y \in 1 .. Len(rows) + 1 : RowBefore(Append(rows, row), y) = RowBefore(rows, y)
<1> DEFINE n == Len(rows)
           longer == Append(rows, row)
<1>1. n \in Nat
  BY LenProperties
<1>2. /\ longer \in Seq(Row(p)) /\ Len(longer) = n + 1 /\ longer[n + 1] = row
      /\ \A y \in 1 .. n : longer[y] = rows[y]
  BY AppendProperties
<1>3. (rows = <<>>) <=> (n = 0)
  BY EmptySeq
<1> HIDE DEF n, longer
<1>4. LastOf(rows) = RowBefore(rows, n + 1)
  <2>1. CASE n = 0
    BY <1>3, <2>1 DEF LastOf, RowBefore
  <2>2. CASE n # 0
    <3>1. n + 1 # 1 /\ (n + 1) - 1 = n
      BY <1>1, <2>2
    <3>2. LastOf(rows) = rows[n]
      BY <1>3, <2>2 DEF LastOf, n
    <3> QED
      BY <3>1, <3>2 DEF RowBefore
  <2> QED
    BY <2>1, <2>2
<1>5. LastOf(rows) \in Row(p)
  <2>1. CASE n = 0
    BY <1>3, <2>1, BlankRowIsRow DEF LastOf
  <2>2. CASE n # 0
    <3>1. n \in 1 .. Len(rows)
      BY <1>1, <2>2 DEF n
    <3>2. rows[n] \in Row(p)
      BY <3>1, ElementOfSeq
    <3>3. LastOf(rows) = rows[n]
      BY <1>3, <2>2 DEF LastOf, n
    <3> QED
      BY <3>2, <3>3
  <2> QED
    BY <2>1, <2>2
<1>6. \A y \in 1 .. n + 1 : RowBefore(longer, y) = RowBefore(rows, y)
  <2> TAKE y \in 1 .. n + 1
  <2>1. y # 1 => y - 1 \in 1 .. n
    BY <1>1
  <2> QED
    BY <1>2, <2>1 DEF RowBefore
<1> QED
  BY <1>1, <1>2, <1>4, <1>5, <1>6 DEF n, longer

\* The invariant holds of a codec that has coded nothing.
LEMMA CodecStarts == CodecInit => CodecInv
<1> SUFFICES ASSUME CodecInit PROVE CodecInv
  OBVIOUS
<1> USE NoRowsYet DEF CodecInit
<1>1. OptionsHold
  BY DEF OptionsHold
<1>2. RowsHold
  BY ConstantsArePositive DEF RowsHold
<1>3. SegmentsHold
  BY DEF SegmentsHold
<1>4. LinesHold
  BY DEF LinesHold
<1>5. FrameHolds
  BY DEF FrameHolds
<1>6. DecoderHolds
  BY ConstantsArePositive DEF DecoderHolds, Planes
<1> QED
  BY <1>1, <1>2, <1>3, <1>4, <1>5, <1>6 DEF CodecInv

\* Taking up a picture keeps it.
LEMMA EncodeFrameKeeps ==
  ASSUME CodecInv, EncodeFrame
  PROVE  CodecInv'
<1>1. /\ coding = "idle" /\ coding' = "planes"
      /\ picture' \in [Rows -> [Columns -> Pixels]] /\ near' \in Nears /\ pack' \in Packs
      /\ UNCHANGED <<rebuilt, segments, failed, encoded, decoded>>
      /\ rebuilt = NoRows /\ failed = {}
  BY DEF EncodeFrame, CodecInv, OptionsHold
<1>2. OptionsHold'
  BY <1>1 DEF OptionsHold
<1>3. RowsHold'
  BY <1>1 DEF CodecInv, RowsHold
<1>4. SegmentsHold'
  BY <1>1 DEF CodecInv, SegmentsHold
<1>5. LinesHold'
  <2>1. \A p \in Planes : 1 .. Len(rebuilt[p])' = {}
    BY <1>1, NoRowsYet
  <2> QED
    BY <2>1 DEF LinesHold
<1>6. FrameHolds'
  BY <1>1 DEF CodecInv, FrameHolds
<1>7. DecoderHolds'
  BY <1>1 DEF CodecInv, DecoderHolds
<1> QED
  BY <1>2, <1>3, <1>4, <1>5, <1>6, <1>7 DEF CodecInv

\* Coding a row of a plane, or refusing it because its segment is too long, keeps it.
LEMMA EncodeRowKeeps ==
  ASSUME CodecInv, NEW p \in Planes, EncodeRow(p)
  PROVE  CodecInv'
<1> DEFINE rows == rebuilt[p]
           texts == segments[p]
           y == Len(rows) + 1
           before == LastOf(rows)
           coded == EncodeLine(Samples(p, y), before, y = 1, near, p)
           residuals == [x \in Columns |-> coded[x][2]]
           row == [x \in Columns |-> coded[x][1]]
           segment == PackLine(pack, residuals)
<1>1. /\ coding = "planes" /\ Len(rows) < Height
      /\ UNCHANGED <<coding, picture, near, pack, encoded, decoded>>
  BY DEF EncodeRow
<1>2. \/ failed' = failed \union {p} /\ UNCHANGED <<rebuilt, segments>>
      \/ /\ ~(Len(segment) > MaxSegment)
         /\ rebuilt' = [rebuilt EXCEPT ![p] = Append(@, row)]
         /\ segments' = [segments EXCEPT ![p] = Append(@, segment)]
         /\ failed' = failed
  BY Zenon DEF EncodeRow, Coded
<1>3. /\ near \in Nat
      /\ picture \in [Rows -> [Columns -> Pixels]]
      /\ rows \in Seq(Row(p)) /\ texts \in Seq(Text) /\ Len(texts) = Len(rows)
  BY <1>1, CodecAssumption DEF CodecInv, OptionsHold, RowsHold, SegmentsHold
<1>4. y \in Rows /\ Len(rows) \in Nat
  <2>1. Len(rows) \in Nat
    BY <1>3, LenProperties
  <2> QED
    BY <1>1, <2>1, ConstantsArePositive DEF Rows
<1>5. Samples(p, y) \in Row(p)
  <2> HIDE DEF y
  <2> QED
    BY <1>3, <1>4, SamplesInRange
<1>6. before \in Row(p) /\ before = RowBefore(rows, y)
  BY <1>3, BlankRowIsRow, RowsGrow
<1>7. OptionsHold'
  BY <1>1, <1>2 DEF CodecInv, OptionsHold
<1>8. FrameHolds'
  BY <1>1 DEF CodecInv, FrameHolds
<1>9. DecoderHolds'
  <2>1. decoded = NoRows
    BY <1>1 DEF CodecInv, DecoderHolds
  <2>2. \A q \in Planes : 1 .. Len(decoded[q]) = {}
    BY <2>1, NoRowsYet
  <2> HIDE DEF row, segment
  <2>3. DOMAIN decoded = Planes /\ decoded' = decoded /\ coding' = coding
    BY <1>1 DEF CodecInv, DecoderHolds
  <2>4. \A q \in Planes : 1 .. Len(decoded'[q]) = {}
    BY <2>2, <2>3
  <2> QED
    BY <1>1, <2>3, <2>4 DEF CodecInv, DecoderHolds
<1>10. CASE failed' = failed \union {p} /\ UNCHANGED <<rebuilt, segments>>
  <2>1. RowsHold'
    BY <1>10 DEF CodecInv, RowsHold
  <2>2. SegmentsHold'
    BY <1>10 DEF CodecInv, SegmentsHold
  <2>3. LinesHold'
    BY <1>1, <1>10 DEF CodecInv, LinesHold, Samples
  <2> QED
    BY <1>7, <1>8, <1>9, <2>1, <2>2, <2>3 DEF CodecInv
<1>11. CASE /\ ~(Len(segment) > MaxSegment)
            /\ rebuilt' = [rebuilt EXCEPT ![p] = Append(@, row)]
            /\ segments' = [segments EXCEPT ![p] = Append(@, segment)]
            /\ failed' = failed
  <2> DEFINE samples == Samples(p, y)
             first == y = 1
  <2>1. /\ coded \in [Columns -> PlaneRange(p) \X Residuals]
        /\ \A x \in Columns : Magnitude(coded[x][1] - samples[x]) <= near
        /\ DecodeLine(residuals, before, first, near, p) = row
    <3> HIDE DEF samples, before, y
    <3>1. samples \in [Columns -> PlaneRange(p)] /\ before \in [Columns -> PlaneRange(p)]
      BY <1>5, <1>6 DEF Row, samples
    <3>2. first \in BOOLEAN
      OBVIOUS
    <3> DEFINE k == near
    <3>3. coded = EncodeLine(samples, before, first, k, p)
      BY DEF samples
    <3>4. k \in Nat
      BY <1>3
    <3> HIDE DEF first, k
    <3> DEFINE c == EncodeLine(samples, before, first, k, p)
    <3>5. c \in [Columns -> PlaneRange(p) \X Residuals]
      BY <3>1, <3>2, <3>4, LineIsNear
    <3>6. ASSUME NEW x \in Columns PROVE Magnitude(c[x][1] - samples[x]) <= k
      BY <3>1, <3>2, <3>4, LineIsNear
    <3>7. DecodeLine([x \in Columns |-> c[x][2]], before, first, k, p)
            = [x \in Columns |-> c[x][1]]
      BY <3>1, <3>2, <3>4, LineIsNear
    <3>8. coded = c
      BY <3>3
    <3> HIDE DEF coded, c
    <3> QED
      BY <3>5, <3>6, <3>7, <3>8 DEF k
  <2>2. /\ residuals \in [Columns -> Residuals] /\ row \in Row(p)
        /\ \A x \in Columns : row[x] = coded[x][1]
    BY <2>1 DEF Row
  <2> HIDE DEF residuals, row
  <2>3. segment \in Text
    BY <2>2, LineIsText
  <2> HIDE DEF before, samples
  <2>4. LineOf(pack, near, before, first, samples, p, row, segment)
    <3>1. \A x \in Columns : Magnitude(row[x] - samples[x]) <= near
      BY <2>1, <2>2
    <3> HIDE DEF first
    <3> QED
      BY <2>1, <2>2, <3>1, Zenon DEF LineOf, segment
  <2>5. Len(segment) <= MaxSegment
    <3>1. Len(segment) \in Nat
      BY <2>3, LenProperties DEF Text
    <3> HIDE DEF segment
    <3> QED
      BY <1>11, <3>1, ConstantsArePositive
  <2> HIDE DEF segment
  <2> DEFINE longer == Append(rows, row)
             more == Append(texts, segment)
  <2>6. /\ rebuilt' = [q \in Planes |-> IF q = p THEN longer ELSE rebuilt[q]]
        /\ segments' = [q \in Planes |-> IF q = p THEN more ELSE segments[q]]
    <3>1. DOMAIN rebuilt = Planes /\ DOMAIN segments = Planes
      <4>1. rebuilt = [q \in Planes |-> rebuilt[q]] /\ segments = [q \in Planes |-> segments[q]]
        BY DEF CodecInv, RowsHold, SegmentsHold
      <4> QED
        BY <4>1
    <3> QED
      BY <1>11, <3>1
  <2>7. /\ longer \in Seq(Row(p)) /\ Len(longer) = y /\ longer[y] = row
        /\ \A i \in 1 .. Len(rows) : longer[i] = rows[i]
        /\ \A i \in 1 .. y : RowBefore(longer, i) = RowBefore(rows, i)
    <3> HIDE DEF rows
    <3> QED
      BY <1>3, <2>2, RowsGrow
  <2>8. /\ more \in Seq(Text) /\ Len(more) = y /\ more[y] = segment
        /\ \A i \in 1 .. Len(rows) : more[i] = texts[i]
    <3> HIDE DEF rows, texts
    <3> QED
      BY <1>3, <2>3, AppendProperties
  <2> HIDE DEF longer, more
  <2>9. \A q \in Planes : q # p => rebuilt'[q] = rebuilt[q] /\ segments'[q] = segments[q]
    BY <2>6
  <2>10. rebuilt'[p] = longer /\ segments'[p] = more
    BY <2>6
  <2>11. RowsHold'
    <3>1. y <= Height
      BY <1>1, <1>4, ConstantsArePositive
    <3>2. rebuilt' = [q \in Planes |-> rebuilt'[q]]
      BY <2>6
    <3>3. \A q \in Planes : q # p => rebuilt'[q] \in Seq(Row(q)) /\ Len(rebuilt'[q]) <= Height
      BY <2>9 DEF CodecInv, RowsHold
    <3>4. rebuilt'[p] \in Seq(Row(p)) /\ Len(rebuilt'[p]) <= Height
      BY <2>7, <2>10, <3>1
    <3> HIDE DEF y
    <3> QED
      BY <3>2, <3>3, <3>4 DEF RowsHold
  <2>12. \A i \in 1 .. y : i = y \/ i \in 1 .. Len(rows)
    BY <1>4
  <2>13. SegmentsHold'
    <3>1. segments' = [q \in Planes |-> segments'[q]]
      BY <2>6
    <3>2. ASSUME NEW q \in Planes
          PROVE  /\ segments'[q] \in Seq(Text)
                 /\ Len(segments'[q]) = Len(rebuilt'[q])
                 /\ \A i \in 1 .. Len(rebuilt'[q]) : Len(segments'[q][i]) <= MaxSegment
      <4>1. CASE q # p
        BY <2>9, <4>1 DEF CodecInv, SegmentsHold
      <4>2. CASE q = p
        <5>1. \A i \in 1 .. Len(rows) : Len(texts[i]) <= MaxSegment
          BY DEF CodecInv, SegmentsHold
        <5> HIDE DEF y, rows, texts
        <5>2. \A i \in 1 .. y : Len(more[i]) <= MaxSegment
          BY <2>5, <2>8, <2>12, <5>1
        <5> QED
          BY <2>7, <2>8, <2>10, <4>2, <5>2
      <4> QED
        BY <4>1, <4>2
    <3> QED
      BY <3>1, <3>2 DEF SegmentsHold
  <2>14. LinesHold'
    <3>0. near' = near /\ pack' = pack /\ picture' = picture
      BY <1>1
    <3>1. ASSUME NEW q \in Planes, NEW i \in 1 .. Len(rebuilt'[q])
          PROVE  LineOf(pack, near, RowBefore(rebuilt'[q], i), i = 1, Samples(q, i), q,
                        rebuilt'[q][i], segments'[q][i])
      <4>1. CASE q # p
        <5>1. rebuilt'[q] = rebuilt[q] /\ segments'[q] = segments[q] /\ i \in 1 .. Len(rebuilt[q])
          BY <2>9, <4>1
        <5> QED
          BY <5>1 DEF CodecInv, LinesHold
      <4>2. CASE q = p /\ i = y
        <5>1. /\ RowBefore(rebuilt'[q], i) = before
              /\ Samples(q, i) = samples /\ rebuilt'[q][i] = row /\ segments'[q][i] = segment
          <6>1. RowBefore(longer, y) = RowBefore(rows, y)
            <7>1. y \in 1 .. y
              BY <1>4
            <7> HIDE DEF y
            <7> QED
              BY <2>7, <7>1
          <6>2. Samples(q, i) = samples
            BY <4>2 DEF samples
          <6> HIDE DEF y, rows
          <6> QED
            BY <1>6, <2>7, <2>8, <2>10, <4>2, <6>1, <6>2
        <5>2. (i = 1) = first
          BY <4>2
        <5> HIDE DEF first
        <5>3. q = p
          BY <4>2
        <5> QED
          BY <2>4, <5>1, <5>2, <5>3
      <4>3. CASE q = p /\ i # y
        <5>1. i \in 1 .. y /\ i \in 1 .. Len(rows)
          <6>1. i \in 1 .. y
            BY <2>7, <2>10, <4>3
          <6> QED
            BY <2>12, <4>3, <6>1
        <5>2. LineOf(pack, near, RowBefore(rows, i), i = 1, Samples(p, i), p, rows[i], texts[i])
          BY <5>1 DEF CodecInv, LinesHold
        <5>3. /\ RowBefore(rebuilt'[p], i) = RowBefore(rows, i)
              /\ rebuilt'[p][i] = rows[i] /\ segments'[p][i] = texts[i]
          <6> HIDE DEF y, rows, texts
          <6> QED
            BY <2>7, <2>8, <2>10, <5>1
        <5>4. q = p
          BY <4>3
        <5> QED
          BY <5>2, <5>3, <5>4
      <4> QED
        BY <4>1, <4>2, <4>3
    <3>2. \A q \in Planes : \A i \in 1 .. Len(rebuilt'[q]) : Samples(q, i)' = Samples(q, i)
      BY <3>0 DEF Samples
    <3> QED
      BY <3>0, <3>1, <3>2 DEF LinesHold
  <2> QED
    BY <1>7, <1>8, <1>9, <2>11, <2>13, <2>14 DEF CodecInv
<1> QED
  BY <1>2, <1>10, <1>11

\* Putting the lines together, or refusing a frame that is too large, keeps it.
LEMMA AssembleKeeps ==
  ASSUME CodecInv, Assemble
  PROVE  CodecInv'
<1>1. /\ coding = "planes" /\ Joined
      /\ UNCHANGED <<picture, near, pack, rebuilt, segments, failed, decoded>>
  BY DEF Assemble
<1>2. \/ /\ failed = {} /\ Written([y \in Rows |-> LineRecord(y)]) <= Capacity
         /\ encoded' = [y \in Rows |-> LineRecord(y)] /\ coding' = "encoded"
      \/ encoded' = <<>> /\ coding' = "refused"
  BY Zenon DEF Assemble
<1>3. OptionsHold'
  BY <1>1, <1>2 DEF CodecInv, OptionsHold
<1>4. RowsHold'
  BY <1>1 DEF CodecInv, RowsHold
<1>5. SegmentsHold'
  BY <1>1 DEF CodecInv, SegmentsHold
<1>6. LinesHold'
  BY <1>1 DEF CodecInv, LinesHold, Samples
<1>7. FrameHolds'
  <2>1. CASE /\ failed = {} /\ Written([y \in Rows |-> LineRecord(y)]) <= Capacity
             /\ encoded' = [y \in Rows |-> LineRecord(y)] /\ coding' = "encoded"
    <3>1. \A y \in Rows : LineRecord(y)' = LineRecord(y)
      BY <1>1 DEF LineRecord
    <3>2. encoded' = [y \in Rows |-> LineRecord(y)'] /\ Written(encoded') <= Capacity
      BY <2>1, <3>1
    <3>3. \A p \in Planes : Len(rebuilt'[p]) = Height
      BY <1>1, <2>1 DEF Joined
    <3> QED
      BY <2>1, <3>2, <3>3 DEF FrameHolds
  <2>2. CASE encoded' = <<>> /\ coding' = "refused"
    BY <2>2 DEF FrameHolds
  <2> QED
    BY <1>2, <2>1, <2>2
<1>8. DecoderHolds'
  <2>1. decoded = NoRows /\ decoded' = decoded /\ rebuilt' = rebuilt /\ Len(decoded[1]) = 0
    BY <1>1, NoRowsYet DEF CodecInv, DecoderHolds, Planes
  <2>2. 0 < Height
    BY ConstantsArePositive
  <2> QED
    BY <2>1, <2>2 DEF CodecInv, DecoderHolds
<1> QED
  BY <1>3, <1>4, <1>5, <1>6, <1>7, <1>8 DEF CodecInv

\* A segment of an encoded line is decoded to the row the encoder rebuilt.
LEMMA RowIsDecoded ==
  ASSUME CodecInv, coding = "encoded", NEW y \in Rows, NEW p \in Planes
  PROVE  DecodeLine(UnpackLine(pack, Segment(encoded[y], p)), RowBefore(rebuilt[p], y), y = 1,
                    near, p)
           = rebuilt[p][y]
<1> DEFINE parts == [q \in Planes |-> segments[q][y]]
           record == encoded[y]
           first == y = 1
<1>1. y \in 1 .. Len(rebuilt[p]) /\ \A q \in Planes : y \in 1 .. Len(segments[q])
  BY DEF CodecInv, FrameHolds, SegmentsHold, Rows
<1>2. parts \in [Planes -> Text]
  <2>1. \A q \in Planes : segments[q][y] \in Text
    <3> TAKE q \in Planes
    <3>1. segments[q] \in Seq(Text)
      BY DEF CodecInv, SegmentsHold
    <3> QED
      BY <1>1, <3>1, ElementOfSeq
  <2> QED
    BY <2>1
<1>3. /\ record.lengths = [q \in Planes |-> Len(parts[q])]
      /\ record.bits = Concat(parts)
  <2>1. record = LineRecord(y)
    BY DEF CodecInv, FrameHolds
  <2>2. LineRecord(y) = [lengths |-> [q \in Planes |-> Len(segments[q][y])], bits |-> Concat(parts)]
    BY DEF LineRecord
  <2>3. [q \in Planes |-> Len(segments[q][y])] = [q \in Planes |-> Len(parts[q])]
    OBVIOUS
  <2> HIDE DEF parts, record
  <2> QED
    BY <2>1, <2>2, <2>3
<1>4. parts[p] = segments[p][y]
  OBVIOUS
<1> HIDE DEF parts, record
<1>5. Segment(record, p) = segments[p][y]
  BY <1>2, <1>3, <1>4, SegmentIsFound
<1>6. LineOf(pack, near, RowBefore(rebuilt[p], y), first, Samples(p, y), p, rebuilt[p][y],
             segments[p][y])
  BY <1>1 DEF CodecInv, LinesHold
<1> HIDE DEF first
<1>7. PICK residuals \in [Columns -> Residuals] :
        /\ segments[p][y] = PackLine(pack, residuals)
        /\ DecodeLine(residuals, RowBefore(rebuilt[p], y), first, near, p) = rebuilt[p][y]
  BY <1>6, Zenon DEF LineOf
<1>8. UnpackLine(pack, PackLine(pack, residuals)) = residuals
  BY LineReads
<1> QED
  BY <1>5, <1>7, <1>8 DEF record, first

\* Decoding a line keeps it: the rows are those the encoder rebuilt.
LEMMA DecodeRowKeeps ==
  ASSUME CodecInv, DecodeRow
  PROVE  CodecInv'
<1> DEFINE y == Len(decoded[1]) + 1
<1>1. /\ coding = "encoded"
      /\ UNCHANGED <<picture, near, pack, rebuilt, segments, failed, encoded>>
      /\ coding' = IF y = Height THEN "decoded" ELSE "encoded"
  BY DEF DecodeRow
<1>2. decoded' = [p \in Planes |-> Append(decoded[p],
                    DecodeLine(UnpackLine(pack, Segment(encoded[y], p)), LastOf(decoded[p]),
                               y = 1, near, p))]
  BY Zenon DEF DecodeRow
<1>3. Len(decoded[1]) \in Nat /\ Len(decoded[1]) < Height
  <2>1. decoded[1] \in Seq(Row(1)) /\ Len(decoded[1]) < Height
    BY <1>1 DEF CodecInv, DecoderHolds, Planes
  <2> QED
    BY <2>1, LenProperties
<1>4. y \in Rows /\ y \in Nat \ {0} /\ y <= Height
  BY <1>3, ConstantsArePositive DEF Rows
<1> DEFINE n == Len(decoded[1])
<1>5. ASSUME NEW p \in Planes
      PROVE  /\ decoded'[p] \in Seq(Row(p)) /\ Len(decoded'[p]) = y
             /\ \A i \in 1 .. y : decoded'[p][i] = rebuilt[p][i]
  <2> DEFINE rows == decoded[p]
             row == rebuilt[p][y]
             longer == Append(rows, row)
  <2>1. /\ rows \in Seq(Row(p)) /\ Len(rows) = n
        /\ \A i \in 1 .. n : rows[i] = rebuilt[p][i]
    BY DEF CodecInv, DecoderHolds
  <2>2. row \in Row(p)
    <3>1. rebuilt[p] \in Seq(Row(p)) /\ y \in 1 .. Len(rebuilt[p])
      BY <1>1, <1>4 DEF CodecInv, RowsHold, FrameHolds, Rows
    <3> HIDE DEF y
    <3> QED
      BY <3>1, ElementOfSeq
  <2>3. LastOf(rows) = RowBefore(rebuilt[p], y)
    <3>1. LastOf(rows) = RowBefore(rows, y)
      <4> HIDE DEF rows, row
      <4> QED
        BY <2>1, <2>2, RowsGrow
    <3>2. y # 1 => y - 1 \in 1 .. n
      BY <1>3
    <3> HIDE DEF y, rows, n
    <3> QED
      BY <2>1, <3>1, <3>2 DEF RowBefore
  <2>4. DecodeLine(UnpackLine(pack, Segment(encoded[y], p)), LastOf(rows), y = 1, near, p) = row
    BY <1>1, <1>4, <2>3, RowIsDecoded
  <2>5. decoded'[p] = longer
    BY <1>2, <2>4
  <2> HIDE DEF rows, row
  <2>6. /\ longer \in Seq(Row(p)) /\ Len(longer) = y /\ longer[y] = row
        /\ \A i \in 1 .. n : longer[i] = rows[i]
    BY <2>1, <2>2, RowsGrow
  <2> HIDE DEF longer
  <2>7. \A i \in 1 .. y : i = y \/ i \in 1 .. n
    BY <1>3
  <2> HIDE DEF y, n
  <2> QED
    BY <2>1, <2>5, <2>6, <2>7 DEF row
<1>6. decoded' = [p \in Planes |-> decoded'[p]]
  BY <1>2
<1> HIDE DEF y, n
<1>7. OptionsHold'
  BY <1>1 DEF CodecInv, OptionsHold
<1>8. RowsHold'
  BY <1>1 DEF CodecInv, RowsHold
<1>9. SegmentsHold'
  BY <1>1 DEF CodecInv, SegmentsHold
<1>10. LinesHold'
  BY <1>1 DEF CodecInv, LinesHold, Samples
<1>11. FrameHolds'
  <2>1. \A i \in Rows : LineRecord(i)' = LineRecord(i)
    BY <1>1 DEF LineRecord
  <2> QED
    BY <1>1, <2>1 DEF CodecInv, FrameHolds
<1>12. DecoderHolds'
  <2>1. Len(decoded'[1]) = y
    BY <1>5 DEF Planes
  <2>2. coding' = "encoded" => y < Height
    BY <1>1, <1>4, ConstantsArePositive
  <2>3. coding' \in {"encoded", "decoded"} /\ rebuilt' = rebuilt
    BY <1>1
  <2> QED
    BY <1>4, <1>5, <1>6, <2>1, <2>2, <2>3 DEF DecoderHolds
<1> QED
  BY <1>7, <1>8, <1>9, <1>10, <1>11, <1>12 DEF CodecInv

\* Every step keeps the invariant.
LEMMA CodecStep == CodecInv /\ [CodecNext]_codecVars => CodecInv'
<1> SUFFICES ASSUME CodecInv, [CodecNext]_codecVars PROVE CodecInv'
  OBVIOUS
<1>1. CASE EncodeFrame
  BY <1>1, EncodeFrameKeeps
<1>2. ASSUME NEW p \in Planes, EncodeRow(p) PROVE CodecInv'
  BY <1>2, EncodeRowKeeps
<1>3. CASE Assemble
  BY <1>3, AssembleKeeps
<1>4. CASE DecodeRow
  BY <1>4, DecodeRowKeeps
<1>5. CASE NextFrame
  <2>1. CodecInit'
    BY <1>5 DEF NextFrame, CodecInit
  <2>2. CodecInit' => CodecInv'
    BY CodecStarts, PTL
  <2> QED
    BY <2>1, <2>2
<1>6. CASE UNCHANGED codecVars
  <2> USE <1>6 DEF codecVars
  <2>1. OptionsHold'
    BY DEF CodecInv, OptionsHold
  <2>2. RowsHold'
    BY DEF CodecInv, RowsHold
  <2>3. SegmentsHold'
    BY DEF CodecInv, SegmentsHold
  <2>4. LinesHold'
    BY DEF CodecInv, LinesHold, Samples
  <2>5. FrameHolds'
    <3>1. \A y \in Rows : LineRecord(y)' = LineRecord(y)
      BY DEF LineRecord
    <3> QED
      BY <3>1 DEF CodecInv, FrameHolds
  <2>6. DecoderHolds'
    BY DEF CodecInv, DecoderHolds
  <2> QED
    BY <2>1, <2>2, <2>3, <2>4, <2>5, <2>6 DEF CodecInv
<1> QED
  BY <1>1, <1>2, <1>3, <1>4, <1>5, <1>6 DEF CodecNext

\* The invariant gives the types...
LEMMA CodecInvGivesTypes == CodecInv => CodecTypeOK
<1> SUFFICES ASSUME CodecInv PROVE CodecTypeOK
  OBVIOUS
<1>1. \A p \in Planes : Len(rebuilt[p]) <= Height /\ Len(decoded[p]) <= Height
  BY DEF CodecInv, RowsHold, DecoderHolds
<1> QED
  BY <1>1 DEF CodecInv, OptionsHold, CodecTypeOK

\* ... and the round trip, from the planes back to the colours.
LEMMA CodecInvGivesRoundTrip == CodecInv => RoundTrip
<1> SUFFICES ASSUME CodecInv PROVE RoundTrip
  OBVIOUS
<1>1. \A p \in Planes :
        /\ DOMAIN decoded[p] = 1 .. Len(decoded[p]) /\ DOMAIN rebuilt[p] = 1 .. Len(rebuilt[p])
        /\ Len(rebuilt[p]) \in Nat /\ Len(rebuilt[p]) <= Height
        /\ Len(decoded[p]) = Len(decoded[1])
  <2> TAKE p \in Planes
  <2>1. decoded[p] \in Seq(Row(p)) /\ rebuilt[p] \in Seq(Row(p))
    BY DEF CodecInv, RowsHold, DecoderHolds
  <2> QED
    BY <2>1, LenProperties DEF CodecInv, RowsHold, DecoderHolds
<1>2. InStep
  BY <1>1 DEF InStep, CodecInv, DecoderHolds
<1>3. NearlyLossless
  <2> SUFFICES ASSUME NEW p \in Planes, NEW y \in DOMAIN rebuilt[p], NEW x \in Columns
               PROVE  Magnitude(rebuilt[p][y][x] - Samples(p, y)[x]) <= near
    BY Zenon DEF NearlyLossless
  <2>1. LineOf(pack, near, RowBefore(rebuilt[p], y), y = 1, Samples(p, y), p, rebuilt[p][y],
               segments[p][y])
    BY <1>1 DEF CodecInv, LinesHold
  <2> QED
    BY <2>1, Zenon DEF LineOf
<1>4. Lossless
  <2> SUFFICES ASSUME near = 0, NEW y \in DOMAIN decoded[1], NEW x \in Columns
               PROVE  Shown(y, x) = picture[y][x]
    BY DEF Lossless
  <2> DEFINE pixel == picture[y][x]
             ycc == ToYCoCg(pixel)
  <2>1. coding \in {"encoded", "decoded"} /\ y \in 1 .. Len(decoded[1]) /\ Len(decoded[1]) <= Height
    <3>1. y \in 1 .. Len(decoded[1])
      BY <1>1 DEF Planes
    <3>2. decoded = NoRows => 1 .. Len(decoded[1]) = {}
      BY NoRowsYet DEF Planes
    <3> QED
      BY <3>1, <3>2 DEF CodecInv, DecoderHolds
  <2>2. picture \in [Rows -> [Columns -> Pixels]] /\ y \in Rows
    <3>1. Len(decoded[1]) \in Nat
      <4>1. decoded[1] \in Seq(Row(1))
        BY DEF CodecInv, DecoderHolds, Planes
      <4> QED
        BY <4>1, LenProperties
    <3> QED
      BY <2>1, <3>1, ConstantsArePositive DEF CodecInv, OptionsHold, Rows
  <2>3. pixel \in (0 .. Top) \X (0 .. Top) \X (0 .. Top)
    <3>1. 1 \in Planes
      BY DEF Planes
    <3> QED
      BY <2>2, <3>1, SamplesInRange
  <2>4. ASSUME NEW p \in Planes PROVE decoded[p][y][x] = ycc[p]
    <3>1. y \in 1 .. Len(decoded[p]) /\ y \in 1 .. Len(rebuilt[p])
      BY <1>1, <2>1, <2>2 DEF CodecInv, FrameHolds, Rows
    <3>2. decoded[p][y] = rebuilt[p][y]
      BY <3>1 DEF CodecInv, DecoderHolds
    <3>3. Magnitude(rebuilt[p][y][x] - Samples(p, y)[x]) <= near
      BY <1>1, <1>3, <3>1 DEF NearlyLossless
    <3>4. Samples(p, y)[x] = ycc[p] /\ Samples(p, y)[x] \in PlaneRange(p)
      BY <2>2, SamplesInRange DEF Row
    <3>5. rebuilt[p][y][x] \in PlaneRange(p)
      <4>1. rebuilt[p] \in Seq(Row(p))
        BY DEF CodecInv, RowsHold
      <4>2. rebuilt[p][y] \in Row(p)
        BY <3>1, <4>1, ElementOfSeq
      <4> QED
        BY <4>2 DEF Row
    <3> DEFINE v == rebuilt[p][y][x]
               s == Samples(p, y)[x]
    <3>6. v \in Int /\ s \in Int /\ Magnitude(v - s) <= 0
      BY <3>3, <3>4, <3>5, RangeOfPlane DEF PlaneRange
    <3>7. s = ycc[p] /\ decoded[p][y][x] = v
      BY <3>2, <3>4
    <3> HIDE DEF v, s, ycc
    <3>8. v = s
      BY <3>6 DEF Magnitude
    <3> QED
      BY <3>7, <3>8
  <2>5. FromYCoCg(<<decoded[1][y][x], decoded[2][y][x], decoded[3][y][x]>>) = pixel
    <3>1. ycc = <<ycc[1], ycc[2], ycc[3]>>
      BY DEF ToYCoCg
    <3>2. <<decoded[1][y][x], decoded[2][y][x], decoded[3][y][x]>> = ycc
      <4> HIDE DEF ycc
      <4> QED
        BY <2>4, <3>1 DEF Planes
    <3> QED
      BY <2>3, <3>2, ColourBack
  <2>6. Shown(y, x) = [c \in 1 .. 3 |-> Clamp(pixel[c], 0, Top)]
    BY <2>5 DEF Shown
  <2> HIDE DEF pixel, ycc
  <2>7. \A c \in 1 .. 3 : pixel[c] \in 0 .. Top /\ Clamp(pixel[c], 0, Top) = pixel[c]
    <3>1. pixel[1] \in 0 .. Top /\ pixel[2] \in 0 .. Top /\ pixel[3] \in 0 .. Top
      BY <2>3
    <3>2. \A v \in 0 .. Top : Clamp(v, 0, Top) = v
      BY ConstantsArePositive DEF Clamp
    <3> QED
      BY <3>1, <3>2
  <2>8. [c \in 1 .. 3 |-> pixel[c]] = pixel
    BY <2>3
  <2> QED
    BY <2>6, <2>7, <2>8 DEF pixel
<1>5. EncodedFits
  <2>1. CASE coding \in {"encoded", "decoded"}
    <3>1. encoded = [y \in Rows |-> LineRecord(y)] /\ Written(encoded) <= Capacity
      BY <2>1 DEF CodecInv, FrameHolds
    <3>2. ASSUME NEW y \in DOMAIN encoded, NEW p \in Planes
          PROVE  encoded[y].lengths[p] <= MaxSegment
      <4>1. encoded[y] = LineRecord(y) /\ y \in Rows
        BY <3>1
      <4>2. encoded[y].lengths[p] = Len(segments[p][y])
        BY <4>1 DEF LineRecord
      <4>3. y \in 1 .. Len(rebuilt[p])
        BY <2>1, <4>1 DEF CodecInv, FrameHolds, Rows
      <4> QED
        BY <4>2, <4>3 DEF CodecInv, SegmentsHold
    <3> QED
      BY <3>1, <3>2 DEF EncodedFits
  <2>2. CASE coding \notin {"encoded", "decoded"}
    <3>1. encoded = <<>>
      BY <2>2 DEF CodecInv, FrameHolds
    <3>2. Written(encoded) = 0
      BY <3>1, NothingWritten, Zenon
    <3>3. DOMAIN encoded = {}
      <4>1. encoded \in Seq({}) /\ Len(encoded) = 0
        BY <3>1, EmptySeq
      <4>2. DOMAIN encoded = 1 .. 0
        BY <4>1, LenProperties
      <4> QED
        BY <4>2
    <3> QED
      BY <3>2, <3>3, ConstantsArePositive DEF EncodedFits
  <2> QED
    BY <2>1, <2>2
<1> QED
  BY <1>2, <1>3, <1>4, <1>5 DEF RoundTrip

\* The strengthening that every step of encoder and decoder keeps: a segment is the packed
\* text of residuals from which the row is rebuilt, the rebuilt rows are in the range of their
\* plane and near the samples, the records hold those segments, and what was decoded so far
\* are those rows (nlc_encode and nlc_decode of nlc_codec.cpp).
THEOREM CodecInvariant == CodecSpec => []CodecInv
  BY CodecStarts, CodecStep, PTL DEF CodecSpec

\* The rows the decoder shows of an encoded frame are, in every plane, those the encoder
\* rebuilt, within near_lvl of the picture, and the picture itself when near_lvl is 0,
\* whatever the picture, the sizes and the packing; and a frame that is handed out fits
\* (nlc_encode and nlc_decode of nlc_codec.cpp).
THEOREM RoundTripHolds == CodecSpec => []RoundTrip
  BY CodecInvariant, CodecInvGivesRoundTrip, PTL

\* The state of the codec is well formed: rows, segments and records are where the stages of
\* the encoder and of the decoder expect them.
THEOREM CodecTypes == CodecSpec => []CodecTypeOK
  BY CodecInvariant, CodecInvGivesTypes, PTL
=============================================================================
