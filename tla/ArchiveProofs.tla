---------------------------- MODULE ArchiveProofs ----------------------------
(***************************************************************************)
(* Theorems about ArchiveWriter, about ArchiveRoundTrip, in which its      *)
(* archives are read back, and about the formats and queries both use, for *)
(* every set of keys, every packets and lengths of their data, every       *)
(* command line, and any number of runs, failures and kills; and, first,   *)
(* what the offset codec computes, for every list of offsets.              *)
(***************************************************************************)
EXTENDS ArchiveRoundTrip, SequenceFacts, FiniteSetTheorems, FunctionTheorems
-----------------------------------------------------------------------------
(* The recursive functions of the codec follow their definitions.          *)
LEMMA RadixValue ==
  /\ Radix \in [0..Width -> Nat \ {0}]
  /\ \A i \in 0..Width : Radix[i] = IF i = 0 THEN 1 ELSE 2 * Base * Radix[i - 1]
<1>. DEFINE Follows(f) == f = [i \in 0..Width |-> IF i = 0 THEN 1 ELSE 2 * Base * f[i - 1]]
            advance == [p \in (0..Width) \X (Nat \ {0}) |-> 2 * Base * p[2]]
<1>1. \A i \in 1..Width : \A v \in Nat \ {0} :
        advance[<<i, v>>] = 2 * Base * v /\ advance[<<i, v>>] \in Nat \ {0}
  BY BaseAssumption, WidthAssumption
<1>. HIDE DEF advance
<1>2. PICK f \in [0..Width -> Nat \ {0}] : \A i \in 0..Width :
        f[i] = IF i = 0 THEN 1 ELSE advance[<<i, f[i - 1]>>]
  <2>. DEFINE V == Nat \ {0}
              one == 1
              n == Width
  <2>1. one \in V /\ n \in Nat
    BY WidthAssumption
  <2>2. \A i \in 1..n : \A v \in V : advance[<<i, v>>] \in V
    BY <1>1
  <2>. HIDE DEF V, one, n
  <2>3. PICK f \in [0..n -> V] : Counts(f, n, one, advance)
    BY <2>1, <2>2, CountExists
  <2>. QED
    BY <2>3 DEF Counts, V, one, n
<1>3. ASSUME NEW i \in 0..Width
      PROVE  f[i] = IF i = 0 THEN 1 ELSE 2 * Base * f[i - 1]
  <2>1. i # 0 => i \in 1..Width /\ i - 1 \in 0..Width
    BY WidthAssumption
  <2>2. f[i] = IF i = 0 THEN 1 ELSE advance[<<i, f[i - 1]>>]
    BY <1>2
  <2>3. i # 0 => advance[<<i, f[i - 1]>>] = 2 * Base * f[i - 1]
    BY <1>1, <1>2, <2>1
  <2>. QED
    BY <2>2, <2>3
<1>4. Follows(f)
  BY <1>2, <1>3
<1>5. Radix = CHOOSE g : Follows(g)
  BY DEF Radix
<1>. HIDE DEF Follows
<1>6. Follows(Radix)
  BY <1>4, <1>5
<1>7. \A i \in 0..Width : Radix[i] = IF i = 0 THEN 1 ELSE 2 * Base * Radix[i - 1]
  BY <1>6 DEF Follows
<1>8. \A i \in 0..Width : Radix[i] \in Nat \ {0}
  <2>. DEFINE S == {i \in 0..Width : Radix[i] \in Nat \ {0}}
  <2>1. 0 \in S
    BY <1>7, WidthAssumption
  <2>2. ASSUME NEW i \in 0..Width - 1, i \in S
        PROVE  i + 1 \in S
    <3>1. i + 1 \in 0..Width /\ (i + 1) - 1 = i /\ i + 1 # 0
      BY WidthAssumption
    <3>2. Radix[i + 1] = 2 * Base * Radix[i]
      BY <1>7, <3>1
    <3>. QED
      BY <2>2, <3>1, <3>2, BaseAssumption
  <2>. HIDE DEF S
  <2>3. \A i \in 0..Width : i \in S
    BY <2>1, <2>2, WidthAssumption, CountInduction
  <2>. QED
    BY <2>3 DEF S
<1>. QED
  BY <1>6, <1>7, <1>8 DEF Follows

(* A number modulo the next power is its part below this one and a digit. *)
LEMMA DigitOf ==
  ASSUME NEW n \in Nat, NEW a \in Nat \ {0}, NEW b \in Nat \ {0}
  PROVE  b * a \in Nat \ {0} /\ n % (b * a) = (n % a) + (((n \div a) % b) * a)
<1>. DEFINE q == n \div a
            r == n % a
            p == q \div b
            d == q % b
<1>1. q \in Nat /\ r \in 0..a - 1 /\ n = a * q + r
  BY DivMod
<1>2. p \in Nat /\ d \in 0..b - 1 /\ q = b * p + d
  BY <1>1, DivMod
<1>. HIDE DEF q, r, p, d
<1>3. n = (b * a) * p + (r + d * a)
  <2>1. n = a * (b * p + d) + r
    BY <1>1, <1>2
  <2>2. a * (b * p + d) = (b * a) * p + d * a
    BY <1>1, <1>2
  <2>3. (b * a) * p \in Int /\ d * a \in Int
    BY <1>1, <1>2
  <2>. QED
    BY <1>1, <1>2, <2>1, <2>2, <2>3
<1>4. r + d * a \in 0..b * a - 1 /\ b * a \in Nat \ {0}
  <2>1. d * a <= (b - 1) * a
    BY <1>2
  <2>2. (b - 1) * a = b * a - a
    BY <1>2
  <2>3. d * a \in Nat /\ b * a \in Nat \ {0}
    BY <1>2
  <2>. QED
    BY <1>1, <1>2, <2>1, <2>2, <2>3
<1>5. n % (b * a) = r + d * a
  <2>. DEFINE m == b * a
              s == r + d * a
  <2>1. m \in Nat \ {0} /\ s \in 0..m - 1 /\ n = m * p + s /\ p \in Nat
    BY <1>2, <1>3, <1>4
  <2>. HIDE DEF m, s
  <2>2. n % m = s
    BY <2>1, DivModUnique
  <2>. QED
    BY <2>2 DEF m, s
<1>. QED
  BY <1>4, <1>5 DEF r, d, q
(* to_le_bytes gives Width bytes. *)
LEMMA LittleEndianType ==
  ASSUME NEW n \in Nat
  PROVE  /\ LittleEndian(n) \in Seq(Nat) /\ Len(LittleEndian(n)) = Width
         /\ \A i \in 1..Width :
              LittleEndian(n)[i] = (n \div Radix[i - 1]) % (2 * Base)
<1>1. ASSUME NEW i \in 1..Width
      PROVE  (n \div Radix[i - 1]) % (2 * Base) \in Nat
  <2>1. Radix[i - 1] \in Nat \ {0}
    BY RadixValue, WidthAssumption
  <2>. DEFINE a == Radix[i - 1]
              b == 2 * Base
              q == n \div a
  <2>2. a \in Nat \ {0} /\ b \in Nat \ {0}
    BY <2>1, BaseAssumption
  <2>. HIDE DEF a, b
  <2>3. q \in Nat
    BY <2>2, DivMod
  <2>. HIDE DEF q
  <2>4. q % b \in 0..b - 1
    BY <2>2, <2>3, DivMod
  <2>. QED
    BY <2>2, <2>4 DEF q, a, b
<1>2. LittleEndian(n) \in [1..Width -> Nat]
  BY <1>1 DEF LittleEndian
<1>3. \A i \in 1..Width : LittleEndian(n)[i] = (n \div Radix[i - 1]) % (2 * Base)
  BY DEF LittleEndian
<1>. HIDE DEF LittleEndian
<1>4. LittleEndian(n) \in Seq(Nat) /\ Len(LittleEndian(n)) = Width
  BY <1>2, WidthAssumption, SeqDef
<1>. QED
  BY <1>3, <1>4

(* from_le_bytes undoes to_le_bytes on what a u64 can hold. *)
LEMMA LittleEndianRoundTrip ==
  ASSUME NEW n \in Nat, n < Radix[Width]
  PROVE  FromLittleEndian(LittleEndian(n)) = n
<1>. DEFINE bytes == LittleEndian(n)
            Follows(f) == f = [i \in 0..Width |->
                                 IF i = 0 THEN 0 ELSE f[i - 1] + bytes[i] * Radix[i - 1]]
            sum == CHOOSE f : Follows(f)
            good == [i \in 0..Width |-> n % Radix[i]]
<1>1. Radix[0] = 1 /\ \A i \in 0..Width : Radix[i] \in Nat \ {0}
  BY RadixValue, WidthAssumption
<1>2. ASSUME NEW i \in 1..Width
      PROVE  n % Radix[i] = (n % Radix[i - 1]) + bytes[i] * Radix[i - 1]
  <2>1. Radix[i] = (2 * Base) * Radix[i - 1]
    BY RadixValue, WidthAssumption
  <2>2. Radix[i - 1] \in Nat \ {0} /\ 2 * Base \in Nat \ {0}
    BY <1>1, WidthAssumption, BaseAssumption
  <2>3. bytes[i] = (n \div Radix[i - 1]) % (2 * Base)
    BY LittleEndianType
  <2>. DEFINE b == 2 * Base
  <2>. HIDE DEF bytes, b
  <2>4. n % (b * Radix[i - 1]) = (n % Radix[i - 1]) + (((n \div Radix[i - 1]) % b) * Radix[i - 1])
    BY <2>2, DigitOf DEF b
  <2>. QED
    BY <2>1, <2>3, <2>4 DEF b
<1>. HIDE DEF bytes
<1>3. n % Radix[0] = 0
  BY <1>1
<1>4. Follows(good)
  <2>1. ASSUME NEW i \in 0..Width
        PROVE  good[i] = IF i = 0 THEN 0 ELSE good[i - 1] + bytes[i] * Radix[i - 1]
    <3>1. i # 0 => i \in 1..Width /\ i - 1 \in 0..Width
      BY WidthAssumption
    <3>. QED
      BY <1>2, <1>3, <3>1
  <2>. HIDE DEF good
  <2>2. good = [i \in 0..Width |-> good[i]]
    BY DEF good
  <2>. QED
    BY <2>1, <2>2
<1>5. Follows(sum)
  <2>. HIDE DEF Follows
  <2>. QED
    BY <1>4
<1>6. \A i \in 0..Width : sum[i] = good[i]
  <2>. DEFINE S == {i \in 0..Width : sum[i] = good[i]}
  <2>1. ASSUME NEW i \in 0..Width
        PROVE  /\ sum[i] = IF i = 0 THEN 0 ELSE sum[i - 1] + bytes[i] * Radix[i - 1]
               /\ good[i] = IF i = 0 THEN 0 ELSE good[i - 1] + bytes[i] * Radix[i - 1]
    <3>. HIDE DEF sum, good
    <3>. QED
      BY <1>4, <1>5
  <2>. HIDE DEF sum, good
  <2>2. 0 \in S
    BY <2>1, WidthAssumption
  <2>3. ASSUME NEW i \in 0..Width - 1, i \in S
        PROVE  i + 1 \in S
    <3>1. i + 1 \in 0..Width /\ (i + 1) - 1 = i /\ i + 1 # 0
      BY WidthAssumption
    <3>. QED
      BY <2>1, <2>3, <3>1
  <2>. HIDE DEF S
  <2>4. \A i \in 0..Width : i \in S
    BY <2>2, <2>3, WidthAssumption, CountInduction
  <2>. QED
    BY <2>4 DEF S
<1>7. FromLittleEndian(bytes) = sum[Width]
  BY DEF FromLittleEndian
<1>8. good[Width] = n
  <2>1. n \div Radix[Width] = 0 /\ n % Radix[Width] = n
    BY <1>1, WidthAssumption, DivModUnique
  <2>. QED
    BY <2>1, WidthAssumption
<1>. HIDE DEF sum, good
<1>. QED
  BY <1>6, <1>7, <1>8, WidthAssumption DEF bytes

(* A number of more than one digit has fewer without its last. *)
LEMMA FewerDigits ==
  ASSUME NEW n \in Nat
  PROVE  /\ n % Base \in 0..Base - 1 /\ n = Base * (n \div Base) + (n % Base)
         /\ n >= Base => n \div Base \in Nat \ {0} /\ n \div Base < n
         /\ n < Base => n \div Base = 0
<1>. DEFINE b == Base
            q == n \div b
            r == n % b
<1>1. b \in Nat /\ b >= 2
  BY BaseAssumption
<1>. HIDE DEF b
<1>2. q \in Nat /\ r \in 0..b - 1 /\ n = b * q + r
  <2>1. b \in Nat \ {0}
    BY <1>1
  <2>. QED
    BY <2>1, DivMod
<1>. HIDE DEF q, r
<1>3. n >= b => q # 0
  BY <1>1, <1>2
<1>4. n < b => q = 0
  BY <1>1, <1>2
<1>5. q # 0 => q < n
  BY <1>1, <1>2
<1>. QED
  BY <1>2, <1>3, <1>4, <1>5 DEF b, q, r

(* The equation of leb128::write, and that it writes at least one byte. *)
LEMMA Leb128Value ==
  ASSUME NEW n \in Nat
  PROVE  /\ Leb128[n] = IF n < Base THEN <<n>>
                        ELSE <<Base + (n % Base)>> \o Leb128[n \div Base]
         /\ Leb128[n] \in Seq(Nat) /\ Leb128[n] # <<>>
<1>. DEFINE Follows(f) == f = [m \in Nat |-> IF m < Base THEN <<m>>
                                 ELSE <<Base + (m % Base)>> \o f[m \div Base]]
            V == Seq(Nat)
            mu == [m \in Nat |-> m]
            ends == {m \in Nat : m < Base}
            next == [m \in Nat |-> m \div Base]
            base == [m \in Nat |-> <<m>>]
            advance == [p \in Nat \X V |-> <<Base + (p[1] % Base)>> \o p[2]]
<1>1. ASSUME NEW m \in Nat \ ends
      PROVE  m \div Base \in Nat /\ m \div Base < m /\ <<Base + (m % Base)>> \in V
  <2>1. m \in Nat /\ m >= Base
    BY BaseAssumption
  <2>2. m % Base \in Nat /\ m \div Base \in Nat /\ m \div Base < m
    BY <2>1, FewerDigits, BaseAssumption
  <2>3. Base + (m % Base) \in Nat
    BY <2>2, BaseAssumption
  <2>. QED
    BY <2>2, <2>3
<1>2. ASSUME NEW m \in Nat \ ends, NEW v \in V
      PROVE  /\ advance[<<m, v>>] = <<Base + (m % Base)>> \o v
             /\ advance[<<m, v>>] \in V
  BY <1>1, ConcatProperties
<1>3. PICK f \in [Nat -> V] : Descends(f, Nat, ends, next, base, advance)
  <2>1. /\ \A x \in Nat : mu[x] \in Nat
        /\ \A x \in Nat \ ends : next[x] \in Nat /\ mu[next[x]] < mu[x]
        /\ \A x \in Nat \cap ends : base[x] \in V
    BY <1>1
  <2>. HIDE DEF mu, ends, next, base, advance, V
  <2>. QED
    BY <1>2, <2>1, DescentTyped
<1>4. ASSUME NEW m \in Nat
      PROVE  f[m] = IF m < Base THEN <<m>> ELSE <<Base + (m % Base)>> \o f[m \div Base]
  <2>1. f[m] = IF m \in ends THEN base[m] ELSE advance[<<m, f[next[m]]>>]
    BY <1>3 DEF Descends
  <2>2. m \in ends => m < Base /\ base[m] = <<m>>
    OBVIOUS
  <2>3. m \notin ends => ~(m < Base) /\ advance[<<m, f[next[m]]>>] = <<Base + (m % Base)>> \o f[m \div Base]
    <3>1. m \notin ends => next[m] = m \div Base /\ f[m \div Base] \in V
      BY <1>1, <1>3
    <3>2. m \notin ends => ~(m < Base)
      OBVIOUS
    <3>. HIDE DEF next, advance, ends
    <3>. QED
      BY <1>2, <3>1, <3>2
  <2>. HIDE DEF ends, base, next, advance
  <2>. QED
    BY <2>1, <2>2, <2>3
<1>5. Follows(f)
  BY <1>3, <1>4
<1>6. Leb128 = CHOOSE g : Follows(g)
  BY DEF Leb128
<1>7. Follows(Leb128)
  <2>. HIDE DEF Follows
  <2>. QED
    BY <1>5, <1>6
<1>8. \A m \in Nat : Leb128[m] = IF m < Base THEN <<m>>
                                 ELSE <<Base + (m % Base)>> \o Leb128[m \div Base]
  BY <1>7
<1>. DEFINE S == {m \in Nat : Leb128[m] \in V /\ Leb128[m] # <<>>}
<1>9. ASSUME NEW m \in Nat, \A k \in 0..m - 1 : k \in S
      PROVE  m \in S
  <2>1. CASE m < Base
    <3>1. Leb128[m] = <<m>>
      BY <1>8, <2>1, Zenon
    <3>2. <<m>> \in V /\ <<m>> # <<>>
      OBVIOUS
    <3>. QED
      BY <3>1, <3>2, Zenon
  <2>2. CASE ~(m < Base)
    <3>1. m \in Nat \ ends
      BY <2>2
    <3>2. m \div Base \in 0..m - 1
      BY <1>1, <3>1
    <3>3. Leb128[m \div Base] \in V
      BY <1>9, <3>2
    <3>4. Leb128[m] = <<Base + (m % Base)>> \o Leb128[m \div Base]
      BY <1>8, <2>2
    <3>5. <<Base + (m % Base)>> \in V /\ Len(<<Base + (m % Base)>>) = 1
      BY <1>1, <3>1
    <3>. DEFINE a == <<Base + (m % Base)>>
                c == Leb128[m \div Base]
    <3>. HIDE DEF a, c
    <3>6. a \in V /\ c \in V /\ Len(a) = 1 /\ Leb128[m] = a \o c
      BY <3>3, <3>4, <3>5 DEF a, c
    <3>7. a \o c \in V /\ Len(a \o c) = 1 + Len(c) /\ Len(c) \in Nat
      BY <3>6, ConcatProperties, LenProperties, ZenonT(30)
    <3>8. a \o c # <<>>
      BY <3>7, EmptySeq
    <3>. QED
      BY <3>6, <3>7, <3>8
  <2>. QED
    BY <2>1, <2>2
<1>10. Nat \subseteq S
  <2>. HIDE DEF S
  <2>. QED
    BY <1>9, CourseInduction
<1>. HIDE DEF Follows
<1>. QED
  BY <1>8, <1>10

(* The code of a number with more than one digit, taken apart. *)
LEMMA LongCode ==
  ASSUME NEW n \in Nat, n >= Base
  PROVE  LET code == Leb128[n]
             more == Leb128[n \div Base]
         IN /\ n \div Base \in Nat \ {0} /\ n \div Base < n
            /\ code = <<Base + (n % Base)>> \o more
            /\ more \in Seq(Nat) /\ Len(more) \in Nat /\ Len(code) = Len(more) + 1
            /\ Base + (n % Base) \in Nat /\ Base + (n % Base) >= Base
<1>1. /\ n % Base \in 0..Base - 1 /\ n \div Base \in Nat \ {0} /\ n \div Base < n
      /\ Base \in Nat
  BY FewerDigits, BaseAssumption
<1>2. Leb128[n] = <<Base + (n % Base)>> \o Leb128[n \div Base]
  <2>1. ~(n < Base)
    BY <1>1
  <2>. QED
    BY <2>1, Leb128Value
<1>. DEFINE more == Leb128[n \div Base]
            x == Base + (n % Base)
<1>3. more \in Seq(Nat) /\ Len(more) \in Nat
  BY <1>1, Leb128Value, LenProperties
<1>4. x \in Nat /\ x >= Base
  BY <1>1
<1>. HIDE DEF more, x
<1>5. Len(<<x>> \o more) = Len(more) + 1
  BY <1>3, <1>4, OneBefore
<1>. QED
  BY <1>1, <1>2, <1>3, <1>4, <1>5 DEF more, x

(* leb128_bytes_len counts the bytes that were written. *)
LEMMA Leb128LenIsLength ==
  ASSUME NEW n \in Nat
  PROVE  Leb128Len(n) = Len(Leb128[n])
<1>. DEFINE Follows(f) == f = [v \in Nat |-> IF v = 0 THEN 0 ELSE 1 + f[v \div Base]]
            digits == CHOOSE f : Follows(f)
            good == [v \in Nat |-> IF v = 0 THEN 0 ELSE Len(Leb128[v])]
<1>1. ASSUME NEW v \in Nat, v # 0, v < Base
      PROVE  Len(Leb128[v]) = 1 /\ v \div Base = 0
  <2>1. Leb128[v] = <<v>> /\ v \div Base = 0
    BY <1>1, Leb128Value, FewerDigits
  <2>. QED
    BY <2>1
<1>2. ASSUME NEW v \in Nat, v # 0, ~(v < Base)
      PROVE  /\ v \div Base \in Nat \ {0} /\ v \div Base < v
             /\ Len(Leb128[v]) = 1 + Len(Leb128[v \div Base])
  <2>1. v >= Base
    BY <1>2, BaseAssumption
  <2>2. /\ v \div Base \in Nat \ {0} /\ v \div Base < v
        /\ Len(Leb128[v \div Base]) \in Nat
        /\ Len(Leb128[v]) = Len(Leb128[v \div Base]) + 1
    BY <2>1, LongCode, Zenon
  <2>. HIDE DEF good
  <2>. QED
    BY <2>2
<1>3. ASSUME NEW v \in Nat
      PROVE  good[v] = IF v = 0 THEN 0 ELSE 1 + good[v \div Base]
  <2>1. CASE v = 0
    BY <2>1
  <2>2. CASE v # 0 /\ v < Base
    <3>1. v \div Base = 0 /\ good[0] = 0 /\ good[v] = 1
      BY <1>1, <2>2
    <3>2. good[v \div Base] = 0
      BY <3>1, Zenon
    <3>. HIDE DEF good
    <3>. QED
      BY <2>2, <3>1, <3>2
  <2>3. CASE v # 0 /\ ~(v < Base)
    <3>. DEFINE q == v \div Base
    <3>1. q \in Nat \ {0} /\ Len(Leb128[v]) = 1 + Len(Leb128[q])
      BY <1>2, <2>3
    <3>. HIDE DEF q
    <3>2. good[v] = Len(Leb128[v]) /\ good[q] = Len(Leb128[q])
      BY <2>3, <3>1
    <3>. HIDE DEF good
    <3>. QED
      BY <2>3, <3>1, <3>2 DEF q
  <2>. QED
    BY <2>1, <2>2, <2>3
<1>4. Follows(good)
  <2>1. good = [v \in Nat |-> good[v]]
    OBVIOUS
  <2>. HIDE DEF good
  <2>. QED
    BY <1>3, <2>1
<1>5. Follows(digits)
  <2>. HIDE DEF Follows
  <2>. QED
    BY <1>4
<1>6. \A v \in Nat : digits[v] = IF v = 0 THEN 0 ELSE 1 + digits[v \div Base]
  <2>. HIDE DEF digits
  <2>. QED
    BY <1>5
<1>. HIDE DEF digits, good
<1>. DEFINE S == {v \in Nat : digits[v] = good[v]}
<1>7. ASSUME NEW m \in Nat, \A k \in 0..m - 1 : k \in S
      PROVE  m \in S
  <2>1. CASE m = 0
    BY <1>3, <1>6, <2>1
  <2>2. CASE m # 0
    <3>1. m \div Base \in 0..m - 1
      BY <1>1, <1>2, <2>2
    <3>2. digits[m \div Base] = good[m \div Base]
      BY <1>7, <3>1
    <3>. QED
      BY <1>3, <1>6, <2>2, <3>2
  <2>. QED
    BY <2>1, <2>2
<1>8. digits[n] = good[n]
  <2>. HIDE DEF S
  <2>1. Nat \subseteq S
    BY <1>7, CourseInduction
  <2>. QED
    BY <2>1 DEF S
<1>9. Leb128Len(n) = IF n = 0 THEN 1 ELSE digits[n]
  BY DEF Leb128Len, digits
<1>10. n = 0 => Len(Leb128[n]) = 1
  <2>1. n = 0 => n < Base
    BY BaseAssumption
  <2>2. n = 0 => Leb128[n] = <<n>>
    BY <2>1, Leb128Value, Zenon
  <2>3. Len(<<n>>) = 1
    OBVIOUS
  <2>. QED
    BY <2>2, <2>3, Zenon
<1>. QED
  BY <1>8, <1>9, <1>10 DEF good

(* The equation of leb128::read. *)
LEMMA ReadLeb128Value ==
  ASSUME NEW bytes \in Seq(Nat)
  PROVE  ReadLeb128[bytes] =
           IF bytes = <<>> THEN Malformed
           ELSE IF Head(bytes) < Base THEN Head(bytes)
           ELSE LET more == ReadLeb128[Tail(bytes)]
                IN IF more = Malformed THEN Malformed ELSE Head(bytes) - Base + Base * more
<1>. DEFINE V == Int
            D == Seq(Nat)
            Value(s, more) == IF more = Malformed THEN Malformed ELSE Head(s) - Base + Base * more
            Follows(f) == f = [s \in D |-> IF s = <<>> THEN Malformed
                                           ELSE IF Head(s) < Base THEN Head(s)
                                           ELSE Value(s, f[Tail(s)])]
            mu == [s \in D |-> Len(s)]
            ends == {s \in D : s = <<>> \/ Head(s) < Base}
            next == [s \in D |-> Tail(s)]
            base == [s \in D |-> IF s = <<>> THEN Malformed ELSE Head(s)]
            advance == [p \in D \X V |-> Value(p[1], p[2])]
<1>1. ASSUME NEW s \in D, s # <<>>
      PROVE  Head(s) \in Nat /\ Tail(s) \in D /\ Len(Tail(s)) < Len(s)
  <2>1. Head(s) \in Nat /\ Tail(s) \in D /\ Len(Tail(s)) = Len(s) - 1 /\ Len(s) \in Nat
    BY <1>1, HeadTailProperties, LenProperties
  <2>. QED
    BY <2>1
<1>2. ASSUME NEW s \in D \ ends, NEW v \in V
      PROVE  advance[<<s, v>>] = Value(s, v) /\ advance[<<s, v>>] \in V
  <2>1. advance[<<s, v>>] = Value(s, v)
    BY Zenon
  <2>2. Head(s) \in Nat
    BY <1>1
  <2>3. Value(s, v) \in V
    BY <2>2, BaseAssumption DEF Malformed
  <2>. QED
    BY <2>1, <2>3
<1>3. PICK f \in [D -> V] : Descends(f, D, ends, next, base, advance)
  <2>1. \A x \in D : mu[x] \in Nat
    BY LenProperties
  <2>2. \A x \in D \ ends : next[x] \in D /\ mu[next[x]] < mu[x]
    BY <1>1
  <2>3. \A x \in D \cap ends : base[x] \in V
    BY <1>1 DEF Malformed
  <2>. HIDE DEF mu, ends, next, base, advance, V, D
  <2>. QED
    BY <1>2, <2>1, <2>2, <2>3, DescentTyped
<1>4. ASSUME NEW s \in D
      PROVE  f[s] = IF s = <<>> THEN Malformed
                    ELSE IF Head(s) < Base THEN Head(s) ELSE Value(s, f[Tail(s)])
  <2>1. f[s] = IF s \in ends THEN base[s] ELSE advance[<<s, f[next[s]]>>]
    BY <1>3 DEF Descends
  <2>2. (s \in ends <=> s = <<>> \/ Head(s) < Base) /\ next[s] = Tail(s)
    OBVIOUS
  <2>3. base[s] = IF s = <<>> THEN Malformed ELSE Head(s)
    OBVIOUS
  <2>4. s \notin ends => f[Tail(s)] \in V
    BY <1>1, <1>3, <2>2
  <2>5. s \notin ends => advance[<<s, f[next[s]]>>] = Value(s, f[Tail(s)])
    <3>. HIDE DEF ends, base, advance, next, Value, V, D
    <3>. QED
      BY <1>2, <2>2, <2>4
  <2>. HIDE DEF ends, base, advance, next, Value
  <2>. QED
    BY <2>1, <2>2, <2>3, <2>5
<1>. HIDE DEF Value
<1>5. Follows(f)
  BY <1>3, <1>4
<1>6. ReadLeb128 = CHOOSE g : Follows(g)
  BY DEF ReadLeb128, Value
<1>7. Follows(ReadLeb128)
  <2>. HIDE DEF Follows
  <2>. QED
    BY <1>5, <1>6
<1>8. ReadLeb128[bytes] =
        IF bytes = <<>> THEN Malformed
        ELSE IF Head(bytes) < Base THEN Head(bytes) ELSE Value(bytes, ReadLeb128[Tail(bytes)])
  BY <1>7
<1>. HIDE DEF Follows
<1>. QED
  BY <1>8, Zenon DEF Value

(* What was written is read back, whatever follows it. *)
LEMMA ReadsWhatWasWritten ==
  ASSUME NEW n \in Nat, NEW rest \in Seq(Nat)
  PROVE  ReadLeb128[Leb128[n] \o rest] = n
<1>. DEFINE S == {m \in Nat : ReadLeb128[Leb128[m] \o rest] = m}
<1>1. ASSUME NEW m \in Nat, \A k \in 0..m - 1 : k \in S
      PROVE  m \in S
  <2>1. CASE m < Base
    <3>1. Leb128[m] = <<m>>
      BY <2>1, Leb128Value, Zenon
    <3>2. <<m>> \o rest \in Seq(Nat) /\ <<m>> \o rest # <<>> /\ Head(<<m>> \o rest) = m
      BY OneBefore
    <3>. DEFINE s == <<m>> \o rest
    <3>. HIDE DEF s
    <3>3. ReadLeb128[s] = m
      BY <2>1, <3>2, ReadLeb128Value, Zenon DEF s
    <3>. QED
      BY <3>1, <3>3, Zenon DEF s
  <2>2. CASE ~(m < Base)
    <3>. DEFINE q == m \div Base
                x == Base + (m % Base)
                more == Leb128[q]
                s == <<x>> \o (more \o rest)
    <3>1. m >= Base
      BY <2>2, BaseAssumption
    <3>2. /\ q \in Nat /\ q < m /\ Leb128[m] = <<x>> \o more /\ more \in Seq(Nat)
          /\ x \in Nat /\ x >= Base
      BY <3>1, LongCode, Zenon
    <3>3. x - Base + Base * q = m
      BY FewerDigits, BaseAssumption, SMTT(30)
    <3>. HIDE DEF q, x
    <3>4. more \o rest \in Seq(Nat) /\ <<x>> \in Seq(Nat)
      BY <3>2, ConcatProperties
    <3>5. Leb128[m] \o rest = s
      <4>1. (<<x>> \o more) \o rest = <<x>> \o (more \o rest)
        <5>. HIDE DEF more
        <5>. QED
          BY <3>2, <3>4, ConcatAssociative
      <4>. QED
        BY <3>2, <4>1, Zenon
    <3>. HIDE DEF more
    <3>6. s \in Seq(Nat) /\ s # <<>> /\ Head(s) = x /\ Tail(s) = more \o rest
      BY <3>2, <3>4, OneBefore, SMTT(30)
    <3>7. ReadLeb128[more \o rest] = q
      <4>1. q \in 0..m - 1
        BY <3>2
      <4>. QED
        BY <1>1, <4>1 DEF more
    <3>8. q # Malformed /\ ~(x < Base)
      BY <3>2, BaseAssumption DEF Malformed
    <3>. HIDE DEF s
    <3>9. ReadLeb128[s] = x - Base + Base * q
      BY <3>6, <3>7, <3>8, ReadLeb128Value, Zenon
    <3>. QED
      BY <3>3, <3>5, <3>9, Zenon
  <2>. QED
    BY <2>1, <2>2
<1>. HIDE DEF S
<1>2. Nat \subseteq S
  BY <1>1, CourseInduction
<1>. QED
  BY <1>2 DEF S

(* A code cut short is an error, not another number. *)
LEMMA CutCodeIsMalformed ==
  ASSUME NEW n \in Nat, NEW cut \in Nat, cut < Len(Leb128[n])
  PROVE  ReadLeb128[SubSeq(Leb128[n], 1, cut)] = Malformed
<1>1. ReadLeb128[<<>>] = Malformed
  <2>. DEFINE e == <<>>
  <2>1. e \in Seq(Nat) /\ e = <<>>
    OBVIOUS
  <2>. HIDE DEF e
  <2>2. ReadLeb128[e] = Malformed
    BY <2>1, ReadLeb128Value, Zenon
  <2>. QED
    BY <2>1, <2>2, Zenon
<1>. DEFINE S == {m \in Nat : \A c \in Nat :
                    c < Len(Leb128[m]) => ReadLeb128[SubSeq(Leb128[m], 1, c)] = Malformed}
<1>2. ASSUME NEW m \in Nat, \A k \in 0..m - 1 : k \in S
      PROVE  m \in S
  <2>. SUFFICES ASSUME NEW c \in Nat, c < Len(Leb128[m])
                PROVE  ReadLeb128[SubSeq(Leb128[m], 1, c)] = Malformed
    OBVIOUS
  <2>1. CASE c = 0
    <3>1. SubSeq(Leb128[m], 1, 0) = <<>>
      BY SubSeqEmpty
    <3>. QED
      BY <1>1, <2>1, <3>1, Zenon
  <2>2. CASE c # 0
    <3>1. ~(m < Base)
      <4>. SUFFICES ASSUME m < Base
                    PROVE  FALSE
        OBVIOUS
      <4>1. Leb128[m] = <<m>>
        BY Leb128Value, Zenon
      <4>2. Len(<<m>>) = 1
        OBVIOUS
      <4>3. Len(Leb128[m]) = 1
        BY <4>1, <4>2, Zenon
      <4>. QED
        BY <2>2, <4>3
    <3>. DEFINE q == m \div Base
                x == Base + (m % Base)
                more == Leb128[q]
    <3>2. m >= Base
      BY <3>1, BaseAssumption
    <3>3. /\ q \in Nat /\ q < m /\ Leb128[m] = <<x>> \o more /\ more \in Seq(Nat)
          /\ Len(more) \in Nat /\ Len(Leb128[m]) = Len(more) + 1
          /\ x \in Nat /\ x >= Base
      BY <3>2, LongCode, Zenon
    <3>4. q \in 0..m - 1
      BY <3>3
    <3>5. c - 1 \in Nat /\ c - 1 < Len(more) /\ c \in 1..Len(more) + 1
      BY <2>2, <3>3
    <3>6. ReadLeb128[SubSeq(more, 1, c - 1)] = Malformed
      BY <1>2, <3>4, <3>5
    <3>. DEFINE t == SubSeq(more, 1, c - 1)
                s == <<x>> \o t
    <3>. HIDE DEF q, x, more
    <3>7. t \in Seq(Nat)
      BY <3>3, <3>5, SubSeqProperties, ElementOfSeq, SMTT(30)
    <3>8. SubSeq(Leb128[m], 1, c) = s
      <4>1. SubSeq(<<x>> \o more, 1, c) = <<x>> \o SubSeq(more, 1, c - 1)
        BY <3>3, <3>5, OneBefore
      <4>. QED
        BY <3>3, <4>1, Zenon
    <3>. HIDE DEF t
    <3>9. s \in Seq(Nat) /\ s # <<>> /\ Head(s) = x /\ Tail(s) = t
      BY <3>3, <3>7, OneBefore, SMTT(30)
    <3>10. ReadLeb128[t] = Malformed
      BY <3>6 DEF t
    <3>11. ~(x < Base)
      BY <3>3, BaseAssumption
    <3>. HIDE DEF s
    <3>12. ReadLeb128[s] = Malformed
      BY <3>9, <3>10, <3>11, ReadLeb128Value, Zenon
    <3>. QED
      BY <3>8, <3>12, Zenon
  <2>. QED
    BY <2>1, <2>2
<1>. HIDE DEF S
<1>3. Nat \subseteq S
  BY <1>2, CourseInduction
<1>. QED
  BY <1>3 DEF S

(* The deltas of an offset list: f[i] is the code of the first i of them.  *)
Deltas(f, off) ==
  \A i \in 0..Len(off) :
    f[i] = IF i < 2 THEN <<>> ELSE f[i - 1] \o Leb128[off[i] - off[i - 1]]

Ascends(off) == \A i, j \in DOMAIN off : i < j => off[i] < off[j]

(* Offsets that ascend have distances that can be written. *)
LEMMA Distances ==
  ASSUME NEW off \in Seq(Nat), Ascends(off), NEW i \in 2..Len(off)
  PROVE  /\ off[i] - off[i - 1] \in Nat /\ off[i - 1] \in Nat /\ off[i] \in Nat
         /\ Leb128[off[i] - off[i - 1]] \in Seq(Nat)
<1>1. i \in DOMAIN off /\ i - 1 \in DOMAIN off /\ i - 1 < i
  BY LenProperties
<1>2. off[i] \in Nat /\ off[i - 1] \in Nat
  BY <1>1, ElementOfSeq, LenProperties
<1>3. off[i - 1] < off[i]
  BY <1>1 DEF Ascends
<1>4. off[i] - off[i - 1] \in Nat
  BY <1>2, <1>3
<1>. QED
  BY <1>2, <1>4, Leb128Value

(* What encode_offsets writes: the first offset, and all the distances. *)
LEMMA EncodeOffsetsValue ==
  ASSUME NEW off \in Seq(Nat), off # <<>>, Ascends(off)
  PROVE  \E f \in [0..Len(off) -> Seq(Nat)] :
           Deltas(f, off) /\ EncodeOffsets(off) = LittleEndian(off[1]) \o f[Len(off)]
<1>. DEFINE n == Len(off)
            V == Seq(Nat)
            More(i, v) == IF i < 2 THEN <<>> ELSE v \o Leb128[off[i] - off[i - 1]]
            Follows(f) == f = [i \in 0..n |->
                                 IF i < 2 THEN <<>> ELSE f[i - 1] \o Leb128[off[i] - off[i - 1]]]
            deltas == CHOOSE f : Follows(f)
            advance == [p \in (1..n) \X V |-> More(p[1], p[2])]
            none == <<>>
<1>1. n \in Nat /\ none \in V
  BY LenProperties
<1>2. ASSUME NEW i \in 1..n, NEW v \in V
      PROVE  advance[<<i, v>>] = More(i, v) /\ advance[<<i, v>>] \in V
  <2>1. advance[<<i, v>>] = More(i, v)
    BY Zenon
  <2>2. CASE i < 2
    <3>1. More(i, v) = none
      BY <2>2
    <3>. QED
      BY <1>1, <2>1, <3>1, Zenon
  <2>3. CASE ~(i < 2)
    <3>1. i \in 2..Len(off)
      BY <1>1, <2>3
    <3>. DEFINE code == Leb128[off[i] - off[i - 1]]
    <3>2. code \in Seq(Nat)
      BY <3>1, Distances, Zenon
    <3>3. More(i, v) = v \o code
      BY <2>3
    <3>. HIDE DEF code, More, advance
    <3>4. v \o code \in V
      BY <3>2, ConcatProperties
    <3>. QED
      BY <2>1, <3>3, <3>4, Zenon
  <2>. QED
    BY <2>2, <2>3
<1>3. PICK f \in [0..n -> V] : Counts(f, n, none, advance)
  <2>. HIDE DEF n, V, advance, none, More
  <2>. QED
    BY <1>1, <1>2, CountExists
<1>4. ASSUME NEW i \in 0..n
      PROVE  f[i] = IF i < 2 THEN <<>> ELSE f[i - 1] \o Leb128[off[i] - off[i - 1]]
  <2>1. f[i] = IF i = 0 THEN none ELSE advance[<<i, f[i - 1]>>]
    BY <1>3 DEF Counts
  <2>2. CASE i = 0
    BY <2>1, <2>2
  <2>3. CASE i # 0
    <3>1. i \in 1..n /\ f[i - 1] \in V
      <4>1. i \in 1..n /\ i - 1 \in 0..n
        BY <1>1, <2>3
      <4>. HIDE DEF n, V
      <4>. QED
        BY <1>3, <4>1
    <3>2. advance[<<i, f[i - 1]>>] = More(i, f[i - 1])
      BY <1>2, <3>1, Zenon
    <3>. HIDE DEF advance, none
    <3>. QED
      BY <2>1, <2>3, <3>2
  <2>. QED
    BY <2>2, <2>3
<1>5. Follows(f)
  <2>1. f = [i \in 0..n |-> f[i]]
    BY <1>3
  <2>. QED
    BY <1>4, <2>1
<1>6. Follows(deltas)
  <2>. HIDE DEF Follows
  <2>. QED
    BY <1>5
<1>7. EncodeOffsets(off) = LittleEndian(off[1]) \o deltas[n]
  BY DEF EncodeOffsets
<1>8. /\ deltas = [i \in 0..n |-> deltas[i]]
      /\ \A i \in 0..n : deltas[i] = More(i, deltas[i - 1])
  <2>. HIDE DEF deltas
  <2>. QED
    BY <1>6
<1>. HIDE DEF deltas, Follows
<1>9. \A i \in 0..n : deltas[i] \in V
  <2>. DEFINE S == {i \in 0..n : deltas[i] \in V}
  <2>1. 0 \in S
    <3>1. 0 \in 0..n /\ More(0, deltas[0 - 1]) = none
      BY <1>1
    <3>. HIDE DEF More, none
    <3>. QED
      BY <1>1, <1>8, <3>1
  <2>2. ASSUME NEW i \in 0..n - 1, i \in S
        PROVE  i + 1 \in S
    <3>1. i + 1 \in 1..n /\ i + 1 \in 0..n /\ (i + 1) - 1 = i
      BY <1>1
    <3>. HIDE DEF More, advance
    <3>2. More(i + 1, deltas[i]) \in V
      <4>1. advance[<<i + 1, deltas[i]>>] = More(i + 1, deltas[i]) /\ advance[<<i + 1, deltas[i]>>] \in V
        BY <1>2, <2>2, <3>1
      <4>. QED
        BY <4>1
    <3>3. deltas[i + 1] = More(i + 1, deltas[(i + 1) - 1])
      BY <1>8, <3>1
    <3>4. deltas[i + 1] = More(i + 1, deltas[i])
      BY <3>1, <3>3
    <3>. QED
      BY <3>1, <3>2, <3>4
  <2>. HIDE DEF S
  <2>3. \A i \in 0..n : i \in S
    BY <1>1, <2>1, <2>2, CountInduction
  <2>. QED
    BY <2>3 DEF S
<1>10. deltas \in [0..n -> V]
  <2>. HIDE DEF V, n
  <2>. QED
    BY <1>8, <1>9
<1>11. Deltas(deltas, off)
  BY <1>8 DEF Deltas
<1>. QED
  BY <1>7, <1>10, <1>11

(* The code is bytes. *)
LEMMA EncodeOffsetsType ==
  ASSUME NEW off \in Seq(Nat), off # <<>>, Ascends(off)
  PROVE  EncodeOffsets(off) \in Seq(Nat)
<1>1. off[1] \in Nat /\ Len(off) \in 0..Len(off)
  BY LenProperties, EmptySeq, ElementOfSeq
<1>2. PICK f \in [0..Len(off) -> Seq(Nat)] :
        EncodeOffsets(off) = LittleEndian(off[1]) \o f[Len(off)]
  BY EncodeOffsetsValue
<1>. DEFINE first == LittleEndian(off[1])
            more == f[Len(off)]
<1>3. first \in Seq(Nat) /\ more \in Seq(Nat) /\ EncodeOffsets(off) = first \o more
  BY <1>1, <1>2, LittleEndianType
<1>. HIDE DEF first, more
<1>. QED
  BY <1>3, ConcatProperties

(* The code of a list begins with the codes of its first offsets.          *)
Grows(f, i, j) == \E t \in Seq(Nat) : f[j] = f[i] \o t

LEMMA DeltasGrow ==
  ASSUME NEW off \in Seq(Nat), Ascends(off), NEW f \in [0..Len(off) -> Seq(Nat)],
         Deltas(f, off), NEW i \in 1..Len(off), NEW j \in i..Len(off)
  PROVE  Grows(f, i, j)
<1>. DEFINE n == Len(off) - i
            S == {d \in 0..n : \E t \in Seq(Nat) : f[i + d] = f[i] \o t}
<1>1. n \in Nat /\ Len(off) \in Nat
  BY LenProperties
<1>2. 0 \in S
  <2>1. i + 0 = i /\ i \in 0..Len(off) /\ 0 \in 0..n
    BY <1>1
  <2>. DEFINE v == f[i]
              e == <<>>
  <2>2. v \in Seq(Nat) /\ e \in Seq(Nat)
    BY <2>1
  <2>. HIDE DEF v
  <2>3. v \o <<>> = v
    BY <2>2, ConcatEmptySeq
  <2>4. f[i + 0] = f[i] \o e
    BY <2>1, <2>3 DEF v
  <2>. HIDE DEF e, n
  <2>. QED
    BY <2>1, <2>2, <2>4
<1>3. ASSUME NEW d \in 0..n - 1, d \in S
      PROVE  d + 1 \in S
  <2>1. PICK t \in Seq(Nat) : f[i + d] = f[i] \o t
    BY <1>3
  <2>. DEFINE k == i + d + 1
              code == Leb128[off[k] - off[k - 1]]
              v == f[i]
  <2>2. /\ k \in 2..Len(off) /\ k \in 0..Len(off) /\ ~(k < 2) /\ k - 1 = i + d /\ i + (d + 1) = k
        /\ i \in 0..Len(off) /\ d + 1 \in 0..n
    BY <1>1
  <2>. HIDE DEF k, n
  <2>3. code \in Seq(Nat)
    BY <2>2, Distances, Zenon
  <2>4. f[k] = f[k - 1] \o code
    BY <2>2 DEF Deltas
  <2>5. v \in Seq(Nat)
    BY <2>2
  <2>6. f[k] = (v \o t) \o code
    BY <2>1, <2>2, <2>4, Zenon
  <2>. HIDE DEF code, v
  <2>7. (v \o t) \o code = v \o (t \o code) /\ t \o code \in Seq(Nat)
    <3>1. Grouped(v, t, code)
      BY <2>3, <2>5, Regroup
    <3>2. t \o code \in Seq(Nat)
      BY <2>3, ConcatProperties
    <3>. QED
      BY <3>1, <3>2, Zenon DEF Grouped
  <2>8. f[i + (d + 1)] = f[i] \o (t \o code)
    BY <2>2, <2>6, <2>7, Zenon DEF v
  <2>. QED
    BY <2>2, <2>7, <2>8
<1>4. j - i \in 0..n /\ i + (j - i) = j
  BY <1>1
<1>. HIDE DEF S, n
<1>5. \A d \in 0..n : d \in S
  BY <1>1, <1>2, <1>3, CountInduction
<1>6. j - i \in S
  BY <1>4, <1>5
<1>. QED
  BY <1>4, <1>6 DEF S, Grows

(* The list around the code of the k-th distance. *)
Around(first, f, off, k) ==
  LET code == Leb128[off[k + 1] - off[k]]
  IN /\ code \in Seq(Nat)
     /\ Len(first \o f[k]) = Len(first) + Len(f[k])
     /\ Len(f[k + 1]) = Len(f[k]) + Len(code)
     /\ \E t \in Seq(Nat) : first \o f[Len(off)] = (first \o f[k]) \o (code \o t)

LEMMA ListAround ==
  ASSUME NEW off \in Seq(Nat), Ascends(off), NEW f \in [0..Len(off) -> Seq(Nat)],
         Deltas(f, off), NEW first \in Seq(Nat), NEW k \in 1..Len(off) - 1
  PROVE  Around(first, f, off, k)
<1>. DEFINE code == Leb128[off[k + 1] - off[k]]
            v == f[k]
            w == f[k + 1]
            all == f[Len(off)]
<1>1. /\ k + 1 \in 2..Len(off) /\ k + 1 \in 1..Len(off) /\ k + 1 \in 0..Len(off)
      /\ (k + 1) - 1 = k /\ ~(k + 1 < 2) /\ k \in 0..Len(off)
      /\ Len(off) \in k + 1..Len(off) /\ Len(off) \in 0..Len(off)
  BY LenProperties
<1>2. code \in Seq(Nat)
  <2>1. Leb128[off[k + 1] - off[(k + 1) - 1]] \in Seq(Nat)
    BY <1>1, Distances, Zenon
  <2>. QED
    BY <1>1, <2>1
<1>3. w = v \o code
  <2>1. f[k + 1] = f[(k + 1) - 1] \o Leb128[off[k + 1] - off[(k + 1) - 1]]
    BY <1>1 DEF Deltas
  <2>. QED
    BY <1>1, <2>1
<1>4. PICK t \in Seq(Nat) : all = w \o t
  <2>1. Grows(f, k + 1, Len(off))
    BY <1>1, DeltasGrow
  <2>. QED
    BY <2>1 DEF Grows
<1>5. v \in Seq(Nat) /\ w \in Seq(Nat)
  BY <1>1
<1>. HIDE DEF code, v, w, all
<1>6. Len(first \o v) = Len(first) + Len(v)
  BY <1>5, ConcatProperties
<1>7. Len(w) = Len(v) + Len(code)
  BY <1>2, <1>3, <1>5, ConcatProperties
<1>8. first \o all = (first \o v) \o (code \o t)
  <2>1. code \o t \in Seq(Nat)
    BY <1>2, ConcatProperties
  <2>2. Grouped(v, code, t) /\ Grouped(first, v, code \o t)
    BY <1>2, <1>5, <2>1, Regroup
  <2>. QED
    BY <1>3, <1>4, <2>2, Zenon DEF Grouped
<1>. QED
  BY <1>2, <1>6, <1>7, <1>8 DEF Around, code, v, w, all

(* Where the loop of decode_offsets stands after k offsets. *)
After(f, off, k) == [pos |-> Width + Len(f[k]), offsets |-> SubSeq(off, 1, k)]

(* A round of it takes the next offset if its code lies before the cut,    *)
(* and otherwise stays where it is.                                        *)
LEMMA NextOffsetRound ==
  ASSUME NEW off \in Seq(Nat), Ascends(off), NEW f \in [0..Len(off) -> Seq(Nat)],
         Deltas(f, off), NEW first \in Seq(Nat), Len(first) = Width,
         NEW cut \in Nat, cut <= Len(first \o f[Len(off)]), NEW k \in 1..Len(off)
  PROVE  LET bytes == SubSeq(first \o f[Len(off)], 1, cut)
         IN NextOffset(bytes, After(f, off, k))
              = IF k < Len(off) /\ Width + Len(f[k + 1]) <= cut
                THEN After(f, off, k + 1) ELSE After(f, off, k)
<1>. DEFINE list == first \o f[Len(off)]
            bytes == SubSeq(list, 1, cut)
            at == After(f, off, k)
            left == SubSeq(bytes, at.pos + 1, Len(bytes))
            pos == Width + Len(f[k])
<1>1. /\ k \in 0..Len(off) /\ Len(off) \in 0..Len(off)
      /\ Width \in Nat /\ Len(off) \in Nat
  BY LenProperties, WidthAssumption
<1>2. f[k] \in Seq(Nat) /\ f[Len(off)] \in Seq(Nat)
  BY <1>1
<1>3. list \in Seq(Nat) /\ Len(list) = Width + Len(f[Len(off)])
  BY <1>2, ConcatProperties, ZenonT(30)
<1>4. Len(bytes) = cut
  <2>. HIDE DEF list
  <2>1. cut <= Len(list) /\ Len(list) \in Nat /\ list \in Seq(Nat)
    BY <1>3, LenProperties DEF list
  <2>2. \A i \in 1..cut : list[i] \in Nat
    <3>. SUFFICES ASSUME NEW i \in 1..cut
                  PROVE  list[i] \in Nat
      OBVIOUS
    <3>1. i \in 1..Len(list)
      BY <2>1
    <3>. QED
      BY <2>1, <3>1, ElementOfSeq, Zenon
  <2>3. Len(bytes) = IF 1 <= cut THEN cut - 1 + 1 ELSE 0
    BY <2>2, SubSeqProperties
  <2>. QED
    BY <2>3
<1>5. at.pos = pos /\ pos \in Nat /\ at.offsets = SubSeq(off, 1, k)
  BY <1>1, <1>2, LenProperties DEF After
<1>6. left = SubSeq(bytes, pos + 1, cut)
  BY <1>4, <1>5
<1>7. NextOffset(bytes, at) =
        IF ReadLeb128[left] = Malformed THEN at
        ELSE [pos     |-> at.pos + Leb128Len(ReadLeb128[left]),
              offsets |-> Append(at.offsets, at.offsets[Len(at.offsets)] + ReadLeb128[left])]
  BY DEF NextOffset
<1>8. CASE cut < pos
  <2>. DEFINE e == <<>>
  <2>1. left = e
    <3>. HIDE DEF bytes, pos
    <3>. QED
      BY <1>5, <1>6, <1>8, SubSeqEmpty
  <2>2. e \in Seq(Nat) /\ e = <<>>
    OBVIOUS
  <2>. HIDE DEF e, left
  <2>3. ReadLeb128[left] = Malformed
    BY <2>1, <2>2, ReadLeb128Value, Zenon
  <2>4. ~(k < Len(off) /\ Width + Len(f[k + 1]) <= cut)
    <3>. SUFFICES ASSUME k < Len(off)
                  PROVE  ~(Width + Len(f[k + 1]) <= cut)
      OBVIOUS
    <3>1. k \in 1..Len(off) - 1
      BY <1>1
    <3>2. /\ Len(f[k + 1]) = Len(f[k]) + Len(Leb128[off[k + 1] - off[k]])
          /\ Leb128[off[k + 1] - off[k]] \in Seq(Nat)
      <4>1. Around(first, f, off, k)
        BY <3>1, ListAround
      <4>. QED
        BY <4>1 DEF Around
    <3>3. Len(Leb128[off[k + 1] - off[k]]) \in Nat /\ Len(f[k]) \in Nat
      BY <1>2, <3>2, LenProperties
    <3>. QED
      BY <1>1, <1>8, <3>2, <3>3
  <2>. HIDE DEF at, bytes
  <2>. QED
    BY <1>7, <2>3, <2>4 DEF at, bytes, list
<1>9. CASE cut >= pos /\ k = Len(off)
  <2>1. cut = pos
    <3>1. cut <= Len(list) /\ Len(list) = pos
      BY <1>3, <1>9
    <3>. QED
      BY <1>5, <1>9, <3>1
  <2>. DEFINE e == <<>>
  <2>2. left = e
    <3>. HIDE DEF bytes, pos
    <3>. QED
      BY <1>5, <1>6, <2>1, SubSeqEmpty
  <2>3. e \in Seq(Nat) /\ e = <<>>
    OBVIOUS
  <2>. HIDE DEF e, left
  <2>4. ReadLeb128[left] = Malformed
    BY <2>2, <2>3, ReadLeb128Value, Zenon
  <2>5. ~(k < Len(off))
    BY <1>1, <1>9
  <2>. HIDE DEF at, bytes
  <2>. QED
    BY <1>7, <2>4, <2>5 DEF at, bytes, list
<1>10. CASE cut >= pos /\ k # Len(off)
  <2>. DEFINE h == first \o f[k]
              d == off[k + 1] - off[k]
              code == Leb128[d]
  <2>1. k \in 1..Len(off) - 1 /\ k < Len(off) /\ k + 1 \in 2..Len(off) /\ (k + 1) - 1 = k
    BY <1>1, <1>10
  <2>0. Around(first, f, off, k)
    BY <2>1, ListAround
  <2>2. PICK t \in Seq(Nat) : list = h \o (code \o t)
    BY <2>0 DEF Around
  <2>3. /\ code \in Seq(Nat) /\ Len(h) = pos
        /\ Len(f[k + 1]) = Len(f[k]) + Len(code)
    <3>1. /\ code \in Seq(Nat) /\ Len(h) = Len(first) + Len(f[k])
          /\ Len(f[k + 1]) = Len(f[k]) + Len(code)
      BY <2>0 DEF Around
    <3>. HIDE DEF code, h
    <3>. QED
      BY <3>1
  <2>4. h \in Seq(Nat)
    BY <1>2, ConcatProperties
  <2>5. d \in Nat /\ off[k] \in Nat /\ off[k + 1] \in Nat
    <3>1. /\ off[k + 1] - off[(k + 1) - 1] \in Nat
          /\ off[(k + 1) - 1] \in Nat /\ off[k + 1] \in Nat
      BY <2>1, Distances
    <3>. QED
      BY <2>1, <3>1
  <2>6. /\ cut < pos + Len(code) => left = SubSeq(code, 1, cut - pos)
        /\ cut >= pos + Len(code) => \E rest \in Seq(Nat) : left = code \o rest
    <3>1. left = SubSeq(SubSeq(h \o (code \o t), 1, cut), Len(h) + 1, cut)
      BY <1>6, <2>2, <2>3
    <3>2. Len(h) <= cut /\ cut <= Len(h \o (code \o t))
      <4>1. cut <= Len(list)
        OBVIOUS
      <4>. QED
        BY <1>10, <2>2, <2>3, <4>1
    <3>. HIDE DEF h, code, left, pos
    <3>. DEFINE rem == SubSeq(SubSeq(h \o (code \o t), 1, cut), Len(h) + 1, cut)
    <3>3. CutFalls(Nat, h, code, t, cut)
      BY <2>3, <2>4, <3>2, CutAfter
    <3>4. /\ cut < Len(h) + Len(code) => rem = SubSeq(code, 1, cut - Len(h))
          /\ cut >= Len(h) + Len(code) => \E rest \in Seq(Nat) : rem = code \o rest
      BY <3>3 DEF CutFalls
    <3>. HIDE DEF rem
    <3>5. left = rem
      BY <3>1 DEF rem
    <3>. QED
      BY <2>3, <3>4, <3>5
  <2>7. Len(code) \in Nat
    BY <2>3, LenProperties
  <2>8. CASE cut < pos + Len(code)
    <3>1. cut - pos \in Nat /\ cut - pos < Len(code)
      <4>. HIDE DEF code, pos
      <4>. QED
        BY <1>5, <1>10, <2>7, <2>8
    <3>. HIDE DEF d, pos, left
    <3>2. ReadLeb128[left] = Malformed
      BY <2>5, <2>6, <2>8, <3>1, CutCodeIsMalformed
    <3>3. ~(Width + Len(f[k + 1]) <= cut)
      <4>1. Len(f[k]) \in Nat
        BY <1>2, LenProperties
      <4>. HIDE DEF code
      <4>. QED
        BY <1>1, <2>3, <2>7, <2>8, <4>1 DEF pos
    <3>. HIDE DEF at, bytes
    <3>. QED
      BY <1>7, <3>2, <3>3 DEF at, bytes, list
  <2>9. CASE cut >= pos + Len(code)
    <3>1. PICK rest \in Seq(Nat) : left = code \o rest
      BY <2>6, <2>9
    <3>. HIDE DEF left, d
    <3>2. ReadLeb128[left] = d
      BY <2>5, <3>1, ReadsWhatWasWritten, Zenon
    <3>3. d # Malformed /\ Leb128Len(d) = Len(code)
      BY <2>5, Leb128LenIsLength DEF Malformed
    <3>4. Width + Len(f[k + 1]) <= cut
      <4>1. Len(f[k]) \in Nat
        BY <1>2, LenProperties
      <4>. HIDE DEF code
      <4>. QED
        BY <1>1, <2>3, <2>7, <2>9, <4>1
    <3>5. NextOffset(bytes, at) =
            [pos |-> at.pos + Len(code),
             offsets |-> Append(at.offsets, at.offsets[Len(at.offsets)] + d)]
      <4>. HIDE DEF at, bytes, code
      <4>. QED
        BY <1>7, <3>2, <3>3
    <3>6. at.pos + Len(code) = Width + Len(f[k + 1])
      <4>1. Len(f[k]) \in Nat
        BY <1>2, LenProperties
      <4>. HIDE DEF code, at
      <4>. QED
        BY <1>1, <1>5, <2>3, <2>7, <4>1
    <3>7. Append(at.offsets, at.offsets[Len(at.offsets)] + d) = SubSeq(off, 1, k + 1)
      <4>. DEFINE some == SubSeq(off, 1, k)
      <4>1. /\ some \in Seq(Nat) /\ Len(some) = k /\ some[k] = off[k]
        <5>1. \A i \in 1..k : off[i] \in Nat
          BY <1>1, ElementOfSeq
        <5>. QED
          BY <1>1, <5>1, SubSeqProperties
      <4>2. off[k] + d = off[k + 1]
        BY <2>5, SMTT(30) DEF d
      <4>3. SubSeq(off, 1, k + 1) = SubSeq(off, 1, k) \o <<off[k + 1]>>
        <5>1. k \in Nat /\ 1 \in 1..Len(off) /\ k + 1 \in 1..Len(off)
          BY <1>1, <2>1
        <5>. QED
          BY <5>1, LastOfSubSeq
      <4>4. Append(some, off[k + 1]) = some \o <<off[k + 1]>>
        <5>. HIDE DEF some
        <5>. QED
          BY <2>5, <4>1, AppendIsConcat
      <4>5. at.offsets = some /\ at.offsets[Len(at.offsets)] + d = off[k + 1]
        <5>. HIDE DEF at, some
        <5>1. at.offsets = some
          BY <1>5 DEF some
        <5>. QED
          BY <4>1, <4>2, <5>1
      <4>. HIDE DEF at, some
      <4>. QED
        BY <4>3, <4>4, <4>5 DEF some
    <3>8. NextOffset(bytes, at) = After(f, off, k + 1)
      <4>. HIDE DEF at, bytes, code
      <4>. QED
        BY <3>5, <3>6, <3>7 DEF After
    <3>. HIDE DEF at, bytes
    <3>. QED
      BY <2>1, <3>4, <3>8 DEF at, bytes, list
  <2>. QED
    BY <1>5, <2>7, <2>8, <2>9, SMTT(30)
<1>. QED
  BY <1>5, <1>8, <1>9, <1>10

(* The loop of decode_offsets, round by round.                             *)
Loops(bytes, count, start) ==
  \E at : /\ at[0] = start
          /\ \A i \in 1..count : at[i] = NextOffset(bytes, at[i - 1])
          /\ DecodeOffsets(bytes, count) = at[count - 1].offsets

LEMMA DecodeLoop ==
  ASSUME NEW bytes, NEW count \in Nat \ {0}, ~(Len(bytes) < Width), NEW V, NEW start \in V,
         start = [pos |-> Width, offsets |-> <<FromLittleEndian(SubSeq(bytes, 1, Width))>>],
         \A v \in V : NextOffset(bytes, v) \in V
  PROVE  Loops(bytes, count, start)
<1>. DEFINE begin == [pos |-> Width, offsets |-> <<FromLittleEndian(SubSeq(bytes, 1, Width))>>]
            Follows(f) == f = [i \in 0..count |->
                                 IF i = 0 THEN begin ELSE NextOffset(bytes, f[i - 1])]
            at == CHOOSE f : Follows(f)
            advance == [p \in (1..count) \X V |-> NextOffset(bytes, p[2])]
<1>1. ASSUME NEW i \in 1..count, NEW v \in V
      PROVE  advance[<<i, v>>] = NextOffset(bytes, v) /\ advance[<<i, v>>] \in V
  <2>1. advance[<<i, v>>] = NextOffset(bytes, v)
    BY Zenon
  <2>. QED
    BY <2>1
<1>2. PICK f \in [0..count -> V] : Counts(f, count, start, advance)
  <2>. HIDE DEF advance
  <2>. QED
    BY <1>1, CountExists
<1>3. Follows(f)
  <2>1. f = [i \in 0..count |-> f[i]]
    BY <1>2
  <2>2. ASSUME NEW i \in 0..count
        PROVE  f[i] = IF i = 0 THEN begin ELSE NextOffset(bytes, f[i - 1])
    <3>1. f[i] = IF i = 0 THEN start ELSE advance[<<i, f[i - 1]>>]
      BY <1>2 DEF Counts
    <3>2. i # 0 => i \in 1..count /\ f[i - 1] \in V
      <4>1. i # 0 => i \in 1..count /\ i - 1 \in 0..count
        OBVIOUS
      <4>. QED
        BY <1>2, <4>1
    <3>3. i # 0 => advance[<<i, f[i - 1]>>] = NextOffset(bytes, f[i - 1])
      BY <1>1, <3>2
    <3>. HIDE DEF advance
    <3>. QED
      BY <3>1, <3>3
  <2>. HIDE DEF begin
  <2>. QED
    BY <2>1, <2>2
<1>4. Follows(at)
  <2>. HIDE DEF Follows
  <2>. QED
    BY <1>3
<1>5. DecodeOffsets(bytes, count) = at[count - 1].offsets
  <2>1. DecodeOffsets(bytes, count) =
          IF count = 0 \/ Len(bytes) < Width THEN <<>> ELSE at[count - 1].offsets
    BY DEF DecodeOffsets
  <2>. QED
    BY <2>1
<1>. HIDE DEF at, begin
<1>6. \A i \in 0..count : at[i] = IF i = 0 THEN begin ELSE NextOffset(bytes, at[i - 1])
  BY <1>4
<1>7. at[0] = start
  BY <1>6 DEF begin
<1>8. \A i \in 1..count : at[i] = NextOffset(bytes, at[i - 1])
  BY <1>6
<1>. QED
  BY <1>5, <1>7, <1>8 DEF Loops

(* The part of a cut list that holds the first offset. *)
LEMMA FirstOffset ==
  ASSUME NEW n \in Nat, n < Radix[Width], NEW more \in Seq(Nat),
         NEW cut \in Nat, Width <= cut, cut <= Len(LittleEndian(n) \o more)
  PROVE  FromLittleEndian(SubSeq(SubSeq(LittleEndian(n) \o more, 1, cut), 1, Width)) = n
<1>. DEFINE le == LittleEndian(n)
            list == le \o more
            b == SubSeq(list, 1, cut)
            v == SubSeq(b, 1, Width)
<1>1. le \in Seq(Nat) /\ Len(le) = Width /\ Width \in Nat
  BY LittleEndianType, WidthAssumption
<1>2. FromLittleEndian(le) = n
  BY LittleEndianRoundTrip
<1>. HIDE DEF le
<1>3. /\ list \in Seq(Nat) /\ Len(list) \in Nat
      /\ \A i \in 1..Width : list[i] = le[i]
  <2>1. /\ list \in Seq(Nat) /\ Len(list) = Len(le) + Len(more) /\ Len(more) \in Nat
        /\ \A i \in 1..Len(le) + Len(more) : list[i] = IF i <= Len(le) THEN le[i] ELSE more[i - Len(le)]
    BY <1>1, ConcatProperties, LenProperties
  <2>. HIDE DEF list
  <2>. QED
    BY <1>1, <2>1
<1>4. cut <= Len(list)
  BY DEF le
<1>. HIDE DEF list
<1>5. b \in Seq(Nat) /\ Len(b) = cut /\ \A i \in 1..cut : b[i] = list[i]
  BY <1>3, <1>4, SubSeqProperties, ElementOfSeq
<1>. HIDE DEF b
<1>6. v \in Seq(Nat) /\ Len(v) = Width /\ \A i \in 1..Width : v[i] = b[i]
  BY <1>1, <1>5, SubSeqProperties, ElementOfSeq
<1>. HIDE DEF v
<1>7. v = le
  <2>1. ASSUME NEW i \in 1..Width
        PROVE  v[i] = le[i]
    <3>1. i \in 1..cut
      BY <1>1
    <3>2. b[i] = list[i]
      BY <1>5, <3>1
    <3>. QED
      BY <1>3, <1>6, <3>2
  <2>. QED
    BY <1>1, <1>6, <2>1, SeqEqual
<1>8. FromLittleEndian(v) = n
  BY <1>2, <1>7, Zenon
<1>. QED
  BY <1>8 DEF v, b, list, le

(* What is decoded of a list that is cut off: the offsets whose codes lie  *)
(* before the cut, at most as many as were asked for.                      *)
LEMMA DecodesPrefix ==
  ASSUME NEW off \in Seq(Nat), off # <<>>, Ascends(off), off[1] < Radix[Width],
         NEW cut \in Nat, cut <= Len(EncodeOffsets(off)), NEW count \in 0..Len(off)
  PROVE  \E k \in 0..count :
           /\ DecodeOffsets(SubSeq(EncodeOffsets(off), 1, cut), count) = SubSeq(off, 1, k)
           /\ cut = Len(EncodeOffsets(off)) => k = count
<1>. DEFINE n == Len(off)
            first == LittleEndian(off[1])
<1>1. n \in Nat /\ n # 0 /\ off[1] \in Nat
  BY LenProperties, EmptySeq, ElementOfSeq
<1>2. PICK f \in [0..n -> Seq(Nat)] :
        Deltas(f, off) /\ EncodeOffsets(off) = first \o f[n]
  BY EncodeOffsetsValue
<1>. DEFINE list == first \o f[n]
            bytes == SubSeq(list, 1, cut)
            St(k) == After(f, off, k)
            Further(k) == k < n /\ Width + Len(f[k + 1]) <= cut
<1>3. first \in Seq(Nat) /\ Len(first) = Width /\ Width \in Nat
  BY <1>1, LittleEndianType, WidthAssumption
<1>4. f[n] \in Seq(Nat) /\ Len(f[n]) \in Nat
  <2>1. f[n] \in Seq(Nat)
    BY <1>1, <1>2
  <2>. QED
    BY <2>1, LenProperties
<1>5. list \in Seq(Nat) /\ Len(list) = Width + Len(f[n]) /\ cut <= Len(list)
  <2>1. list \in Seq(Nat) /\ Len(list) = Len(first) + Len(f[n])
    <3>. HIDE DEF first
    <3>. QED
      BY <1>3, <1>4, ConcatProperties
  <2>2. EncodeOffsets(off) = list
    BY <1>2
  <2>. HIDE DEF list, first
  <2>. QED
    BY <1>3, <2>1, <2>2
<1>6. Len(bytes) = cut
  <2>. HIDE DEF list
  <2>1. \A i \in 1..cut : list[i] \in Nat
    <3>. SUFFICES ASSUME NEW i \in 1..cut
                  PROVE  list[i] \in Nat
      OBVIOUS
    <3>1. i \in 1..Len(list)
      BY <1>4, <1>5, <1>3
    <3>. QED
      BY <1>5, <3>1, ElementOfSeq
  <2>2. Len(bytes) = IF 1 <= cut THEN cut - 1 + 1 ELSE 0
    BY <2>1, SubSeqProperties
  <2>. QED
    BY <2>2
<1>7. CASE count = 0 \/ cut < Width
  <2>1. DecodeOffsets(bytes, count) = <<>>
    <3>. HIDE DEF bytes
    <3>. QED
      BY <1>6, <1>7 DEF DecodeOffsets
  <2>2. SubSeq(off, 1, 0) = <<>>
    BY SubSeqEmpty
  <2>3. cut = Len(list) => 0 = count
    <3>. HIDE DEF list
    <3>. QED
      BY <1>3, <1>4, <1>5, <1>7
  <2>4. 0 \in 0..count
    OBVIOUS
  <2>. HIDE DEF list
  <2>5. DecodeOffsets(SubSeq(EncodeOffsets(off), 1, cut), count) = SubSeq(off, 1, 0)
    BY <1>2, <2>1, <2>2 DEF list
  <2>6. cut = Len(EncodeOffsets(off)) => 0 = count
    BY <1>2, <2>3 DEF list
  <2>. QED
    BY <2>4, <2>5, <2>6
<1>8. CASE count # 0 /\ ~(cut < Width)
  <2>. DEFINE V == {St(k) : k \in 1..n}
              start == St(1)
  <2>1. ASSUME NEW k \in 1..n
        PROVE  /\ NextOffset(bytes, St(k)) = IF Further(k) THEN St(k + 1) ELSE St(k)
               /\ Further(k) => k + 1 \in 1..n
    <3>1. cut <= Len(first \o f[Len(off)])
      BY <1>5
    <3>2. NextOffset(bytes, St(k)) = IF Further(k) THEN St(k + 1) ELSE St(k)
      <4>. HIDE DEF first
      <4>. QED
        BY <1>2, <1>3, <3>1, NextOffsetRound, ZenonT(30)
    <3>3. Further(k) => k + 1 \in 1..n
      BY <1>1
    <3>. QED
      BY <3>2, <3>3
  <2>2. \A v \in V : NextOffset(bytes, v) \in V
    <3>. SUFFICES ASSUME NEW k \in 1..n
                  PROVE  NextOffset(bytes, St(k)) \in V
      OBVIOUS
    <3>1. NextOffset(bytes, St(k)) = IF Further(k) THEN St(k + 1) ELSE St(k)
      BY <2>1
    <3>2. Further(k) => k + 1 \in 1..n
      BY <2>1
    <3>. HIDE DEF bytes, Further, St
    <3>. QED
      BY <3>1, <3>2
  <2>3. start = [pos |-> Width, offsets |-> <<FromLittleEndian(SubSeq(bytes, 1, Width))>>]
    <3>1. FromLittleEndian(SubSeq(bytes, 1, Width)) = off[1]
      <4>1. Width <= cut
        BY <1>3, <1>8
      <4>. QED
        BY <1>1, <1>4, <1>5, <4>1, FirstOffset
    <3>2. f[1] = <<>> /\ Len(f[1]) = 0
      <4>1. 1 \in 0..Len(off) /\ 1 < 2 /\ Len(<<>>) = 0
        BY <1>1
      <4>2. f[1] = IF 1 < 2 THEN <<>> ELSE f[1 - 1] \o Leb128[off[1] - off[1 - 1]]
        BY <1>2, <4>1, Zenon DEF Deltas
      <4>. QED
        BY <4>1, <4>2, Zenon
    <3>3. SubSeq(off, 1, 1) = <<off[1]>>
      <4>1. SubSeq(off, 1, 0 + 1) = SubSeq(off, 1, 0) \o <<off[0 + 1]>>
        <5>1. 0 \in Nat /\ 1 \in 1..Len(off) /\ 0 + 1 \in 1..Len(off)
          BY <1>1
        <5>. QED
          BY <5>1, LastOfSubSeq
      <4>2. SubSeq(off, 1, 0) = <<>>
        BY SubSeqEmpty
      <4>3. <<>> \o <<off[1]>> = <<off[1]>>
        <5>1. <<off[1]>> \in Seq(Nat)
          BY <1>1
        <5>. QED
          BY <5>1, ConcatEmptySeq
      <4>4. 0 + 1 = 1
        OBVIOUS
      <4>. QED
        BY <4>1, <4>2, <4>3, <4>4, Zenon
    <3>4. Width + Len(f[1]) = Width
      BY <1>3, <3>2
    <3>. HIDE DEF bytes
    <3>. QED
      BY <3>1, <3>3, <3>4 DEF After
  <2>4. start \in V /\ count \in Nat \ {0} /\ ~(Len(bytes) < Width)
    <3>1. 1 \in 1..n
      BY <1>1
    <3>2. ~(Len(bytes) < Width)
      <4>. HIDE DEF bytes
      <4>. QED
        BY <1>6, <1>8
    <3>. HIDE DEF bytes, St
    <3>. QED
      BY <1>8, <3>1, <3>2
  <2>. HIDE DEF bytes, start, V
  <2>5. PICK at : /\ at[0] = start
                  /\ \A i \in 1..count : at[i] = NextOffset(bytes, at[i - 1])
                  /\ DecodeOffsets(bytes, count) = at[count - 1].offsets
    <3>1. Loops(bytes, count, start)
      BY <2>2, <2>3, <2>4, DecodeLoop
    <3>. QED
      BY <3>1 DEF Loops
  <2>. DEFINE Stands(i, k) == at[i] = St(k) /\ (k = i + 1 \/ ~Further(k))
              S == {i \in 0..count - 1 : \E k \in 1..i + 1 : Stands(i, k)}
              last == count - 1
  <2>. HIDE DEF St, Further
  <2>6. 0 \in S
    <3>1. Stands(0, 1) /\ 1 \in 1..0 + 1 /\ 0 \in 0..count - 1
      BY <1>8, <2>5 DEF start
    <3>. HIDE DEF Stands
    <3>. QED
      BY <3>1
  <2>7. ASSUME NEW i \in 0..last - 1, i \in S
        PROVE  i + 1 \in S
    <3>1. PICK k \in 1..i + 1 : Stands(i, k)
      BY <2>7
    <3>2. /\ i + 1 \in 1..count /\ i + 1 \in 0..count - 1 /\ (i + 1) - 1 = i
          /\ k \in 1..n /\ k \in 1..(i + 1) + 1
      BY <1>1
    <3>3. at[i + 1] = NextOffset(bytes, at[i])
      BY <2>5, <3>2
    <3>4. CASE Further(k)
      <4>1. k = i + 1
        BY <3>1, <3>4
      <4>2. at[i + 1] = St(k + 1) /\ k + 1 = (i + 1) + 1
        BY <2>1, <3>1, <3>2, <3>3, <3>4, <4>1
      <4>3. Stands(i + 1, k + 1) /\ k + 1 \in 1..(i + 1) + 1
        BY <4>1, <4>2
      <4>. HIDE DEF Stands
      <4>. QED
        BY <3>2, <4>3
    <3>5. CASE ~Further(k)
      <4>1. Stands(i + 1, k)
        BY <2>1, <3>1, <3>2, <3>3, <3>5
      <4>. HIDE DEF Stands
      <4>. QED
        BY <3>2, <4>1
    <3>. QED
      BY <3>4, <3>5
  <2>8. last \in S
    <3>1. last \in Nat
      BY <1>8
    <3>. HIDE DEF S, last
    <3>2. \A i \in 0..last : i \in S
      BY <2>6, <2>7, <3>1, CountInduction
    <3>. QED
      BY <3>1, <3>2
  <2>9. PICK k \in 1..last + 1 : Stands(last, k)
    BY <2>8
  <2>10. k \in 1..count /\ k \in 1..n /\ k \in 0..count /\ count <= n
    BY <1>1, <1>8
  <2>11. DecodeOffsets(bytes, count) = SubSeq(off, 1, k)
    <3>1. at[count - 1] = St(k)
      BY <2>9
    <3>2. St(k).offsets = SubSeq(off, 1, k)
      BY DEF St, After
    <3>. QED
      BY <2>5, <3>1, <3>2
  <2>12. ASSUME cut = Len(list), k # count
         PROVE  FALSE
    <3>1. k < n /\ k + 1 \in 1..n /\ n \in k + 1..n /\ ~Further(k)
      BY <1>1, <2>9, <2>10, <2>12
    <3>2. PICK t \in Seq(Nat) : f[n] = f[k + 1] \o t
      <4>1. Grows(f, k + 1, n)
        BY <1>2, <3>1, DeltasGrow
      <4>. QED
        BY <4>1 DEF Grows
    <3>3. f[k + 1] \in Seq(Nat)
      <4>1. k + 1 \in 0..n
        BY <3>1
      <4>. HIDE DEF n
      <4>. QED
        BY <1>2, <4>1
    <3>4. Len(f[n]) = Len(f[k + 1]) + Len(t) /\ Len(t) \in Nat /\ Len(f[k + 1]) \in Nat
      BY <3>2, <3>3, ConcatProperties, LenProperties
    <3>. HIDE DEF list, n
    <3>5. Width + Len(f[k + 1]) <= cut
      BY <1>3, <1>5, <2>12, <3>4
    <3>. QED
      BY <3>1, <3>5 DEF Further
  <2>13. bytes = SubSeq(EncodeOffsets(off), 1, cut) /\ Len(list) = Len(EncodeOffsets(off))
    BY <1>2 DEF bytes
  <2>. HIDE DEF list
  <2>. QED
    BY <2>10, <2>11, <2>12, <2>13
<1>. QED
  BY <1>7, <1>8
-----------------------------------------------------------------------------

(* OffsetsAscend is not inductive: the offset added is file_pos, which     *)
(* must lie beyond every offset taken before, of this flow at least.       *)
BeforePosition ==
  stage = "packets" =>
    \A key \in Key : flows[key] # Absent =>
      \A i \in DOMAIN flows[key].packet_offsets : flows[key].packet_offsets[i] < file_pos

AscendInv == TypeOK /\ OffsetsAscend /\ BeforePosition

(* A flow with one packet more: the offsets taken before, and file_pos.    *)
LEMMA TrackedFlow ==
  ASSUME AscendInv, stage = "packets", NEW key \in Key, NEW pkt \in Packet
  PROVE  LET flow == Tracked(flows[key], pkt)
             offsets == flow.packet_offsets
         IN /\ flow \in ArchiveFlow
            /\ \A i, j \in DOMAIN offsets : i < j => offsets[i] < offsets[j]
            /\ \A i \in DOMAIN offsets : offsets[i] <= file_pos
<1>. DEFINE flow == Tracked(flows[key], pkt)
            offsets == flow.packet_offsets
<1>1. file_pos \in Nat /\ next_flow_id \in Nat \ {0} /\ flows[key] \in ArchiveFlow \cup {Absent}
  BY DEF AscendInv, TypeOK
<1>2. CASE flows[key] = Absent
  <2>1. flow = [flow_id |-> next_flow_id, five_tuple |-> FiveTupleOf(pkt),
                packet_offsets |-> <<file_pos>>]
    BY <1>2 DEF Tracked
  <2>2. <<file_pos>> \in Seq(Nat)
    BY <1>1
  <2>3. flow \in ArchiveFlow
    BY <1>1, <2>1, <2>2 DEF ArchiveFlow
  <2>4. offsets = <<file_pos>>
    BY <2>1
  <2>. QED
    BY <1>1, <2>3, <2>4
<1>3. CASE flows[key] # Absent
  <2>. DEFINE before == flows[key].packet_offsets
  <2>1. /\ flows[key] \in ArchiveFlow /\ before \in Seq(Nat)
        /\ \A i, j \in DOMAIN before : i < j => before[i] < before[j]
        /\ \A i \in DOMAIN before : before[i] < file_pos
    BY <1>1, <1>3 DEF AscendInv, OffsetsAscend, BeforePosition, ArchiveFlow
  <2>2. flow = [flows[key] EXCEPT !.packet_offsets = Append(before, file_pos)]
    BY <1>3 DEF Tracked
  <2>. HIDE DEF before
  <2>3. offsets = Append(before, file_pos) /\ Append(before, file_pos) \in Seq(Nat)
    BY <1>1, <2>1, <2>2, AppendProperties DEF ArchiveFlow
  <2>4. flow \in ArchiveFlow
    BY <2>1, <2>2, <2>3 DEF ArchiveFlow
  <2>. HIDE DEF flow
  <2>5. /\ Len(before) \in Nat /\ DOMAIN before = 1..Len(before)
        /\ DOMAIN offsets = 1..Len(before) + 1
        /\ \A i \in 1..Len(before) : offsets[i] = before[i] /\ before[i] \in Nat
        /\ offsets[Len(before) + 1] = file_pos
    <3>1. Len(before) \in Nat /\ DOMAIN before = 1..Len(before)
      BY <2>1, LenProperties
    <3>2. \A i \in 1..Len(before) : before[i] \in Nat
      BY <2>1, ElementOfSeq
    <3>3. /\ Len(Append(before, file_pos)) = Len(before) + 1
          /\ \A i \in 1..Len(before) : Append(before, file_pos)[i] = before[i]
          /\ Append(before, file_pos)[Len(before) + 1] = file_pos
      BY <1>1, <2>1, AppendProperties
    <3>4. DOMAIN Append(before, file_pos) = 1..Len(before) + 1
      BY <2>3, <3>3, LenProperties
    <3>. QED
      BY <2>3, <3>1, <3>2, <3>3, <3>4
  <2>6. \A i \in 1..Len(before) : offsets[i] < file_pos
    BY <2>1, <2>5
  <2>7. \A i, j \in 1..Len(before) : i < j => offsets[i] < offsets[j]
    BY <2>1, <2>5
  <2>. HIDE DEF offsets
  <2>8. \A i \in DOMAIN offsets : i \in 1..Len(before) \/ i = Len(before) + 1
    BY <2>5
  <2>9. \A i \in DOMAIN offsets : offsets[i] <= file_pos
    BY <1>1, <2>5, <2>6, <2>8
  <2>10. ASSUME NEW i \in DOMAIN offsets, NEW j \in DOMAIN offsets, i < j
         PROVE  offsets[i] < offsets[j]
    <3>1. i \in 1..Len(before)
      BY <2>5, <2>8, <2>10
    <3>. QED
      BY <2>5, <2>6, <2>7, <2>8, <2>10, <3>1
  <2>. QED
    BY <2>4, <2>9, <2>10 DEF flow, offsets
<1>. QED
  BY <1>2, <1>3

(* write_packet keeps the invariant: the frame it writes moves file_pos    *)
(* past the offset it took.                                                *)
LEMMA WritePacketAscendInv ==
  ASSUME AscendInv, NEW pkt \in Packet, NEW key \in KeysOf(pkt), WritePacket(key, pkt)
  PROVE  AscendInv'
<1>. DEFINE flow == Tracked(flows[key], pkt)
<1>1. key \in Key /\ DataLen(pkt) \in Nat
  BY PacketsAssumption
<1>2. /\ stage = "packets" /\ stage' = "packets" /\ flows' = [flows EXCEPT ![key] = flow]
      /\ file_pos' = file_pos + FrameSize(pkt)
      /\ next_flow_id' \in {next_flow_id, next_flow_id + 1}
  BY DEF WritePacket
<1>3. /\ flow \in ArchiveFlow
      /\ \A i, j \in DOMAIN flow.packet_offsets :
           i < j => flow.packet_offsets[i] < flow.packet_offsets[j]
      /\ \A i \in DOMAIN flow.packet_offsets : flow.packet_offsets[i] <= file_pos
  BY <1>1, <1>2, TrackedFlow
<1>. HIDE DEF flow
<1>4. file_pos \in Nat /\ file_pos' \in Nat /\ file_pos < file_pos'
  BY <1>1, <1>2 DEF AscendInv, TypeOK, FrameSize
<1>5. TypeOK'
  BY <1>1, <1>2, <1>3, <1>4 DEF AscendInv, TypeOK
<1>6. ASSUME NEW k \in Key, flows'[k] # Absent
      PROVE  LET offsets == flows'[k].packet_offsets
             IN /\ \A i, j \in DOMAIN offsets : i < j => offsets[i] < offsets[j]
                /\ \A i \in DOMAIN offsets : offsets[i] < file_pos'
  <2>1. CASE k = key
    <3>1. flows'[k] = flow
      BY <1>1, <1>2, <2>1 DEF AscendInv, TypeOK
    <3>2. \A i \in DOMAIN flow.packet_offsets : flow.packet_offsets[i] \in Nat
      BY <1>3, ElementOfSeq, LenProperties DEF ArchiveFlow
    <3>. QED
      BY <1>3, <1>4, <3>1, <3>2
  <2>2. CASE k # key
    <3>1. flows'[k] = flows[k] /\ flows[k] # Absent /\ flows[k] \in ArchiveFlow
      BY <1>2, <1>6, <2>2 DEF AscendInv, TypeOK
    <3>2. \A i \in DOMAIN flows[k].packet_offsets : flows[k].packet_offsets[i] \in Nat
      BY <3>1, ElementOfSeq, LenProperties DEF ArchiveFlow
    <3>. QED
      BY <1>2, <1>4, <3>1, <3>2 DEF AscendInv, OffsetsAscend, BeforePosition
  <2>. QED
    BY <2>1, <2>2
<1>7. OffsetsAscend' /\ BeforePosition'
  BY <1>6 DEF OffsetsAscend, BeforePosition
<1>. QED
  BY <1>5, <1>7 DEF AscendInv

(* A new archive has no flows, and its header before the first packet.     *)
LEMMA CreatedAscendInv ==
  /\ Init => AscendInv
  /\ Created => AscendInv'
<1>1. Len(Header) = 1
  BY DEF Header
<1>. QED
  BY <1>1 DEF Init, Created, NoFlows, AscendInv, TypeOK, OffsetsAscend, BeforePosition

(* finalize, failures and kills leave the flows alone, and end the taking  *)
(* of packets.                                                             *)
LEMMA NextAscendInv == AscendInv /\ [Next]_vars => AscendInv'
<1>. SUFFICES ASSUME AscendInv, [Next]_vars
              PROVE  AscendInv'
  OBVIOUS
<1>1. ASSUME NEW pkt \in Packet, NEW key \in KeysOf(pkt), WritePacket(key, pkt)
      PROVE  AscendInv'
  BY <1>1, WritePacketAscendInv
<1>2. ASSUME UNCHANGED <<flows, next_flow_id>>, stage' # "packets"
      PROVE  AscendInv'
  BY <1>2 DEF AscendInv, TypeOK, OffsetsAscend, BeforePosition
<1>3. CASE WriteOffsetLists \/ WriteFlowTable \/ WriteSecondaryIndexes
  BY <1>2, <1>3 DEF WriteOffsetLists, WriteFlowTable, WriteSecondaryIndexes
<1>4. CASE WriteFooter \/ Rename \/ Fails \/ Crash
  BY <1>2, <1>4 DEF WriteFooter, Rename, Fails, Crash
<1>5. CASE Restart
  BY <1>5, CreatedAscendInv DEF Restart
<1>6. CASE Finished \/ UNCHANGED vars
  BY <1>6 DEF Finished, vars, AscendInv, TypeOK, OffsetsAscend, BeforePosition
<1>. QED
  BY <1>1, <1>3, <1>4, <1>5, <1>6 DEF Next

(* The types of the writer's tables, for every input. *)
THEOREM ArchiveWriterTypeOK == Spec => []TypeOK
<1>1. AscendInv => TypeOK
  BY DEF AscendInv
<1>. QED
  BY <1>1, CreatedAscendInv, NextAscendInv, PTL DEF Spec

(* The offsets of each flow ascend strictly, through any number of runs:   *)
(* the subtraction in encode_offsets (archive/mod.rs), which has no        *)
(* check of its own, never goes below zero.                                *)
THEOREM OffsetsAscendAlways == Spec => []OffsetsAscend
<1>1. AscendInv => OffsetsAscend
  BY DEF AscendInv
<1>. QED
  BY <1>1, CreatedAscendInv, NextAscendInv, PTL DEF Spec
-----------------------------------------------------------------------------
(* file_pos is a u64 (archive/writer.rs): no frame starts beyond what the  *)
(* fixed-width first offset of a list can hold.                            *)
PositionFits == stage = "packets" => file_pos < Radix[Width]

(* The invariant that gives the codec's lemmas what they ask for, together *)
(* with AscendInv.                                                         *)
FirstFits ==
  \A key \in Key : flows[key] # Absent =>
    /\ flows[key].packet_offsets # <<>>
    /\ flows[key].packet_offsets[1] < Radix[Width]

(* The first offset of a new flow is file_pos; later ones come behind it. *)
LEMMA WritePacketFirstFits ==
  ASSUME AscendInv, FirstFits, PositionFits,
         NEW pkt \in Packet, NEW key \in KeysOf(pkt), WritePacket(key, pkt)
  PROVE  FirstFits'
<1>. DEFINE flow == Tracked(flows[key], pkt)
            new == flow.packet_offsets
<1>1. key \in Key
  BY PacketsAssumption
<1>2. stage = "packets" /\ flows' = [flows EXCEPT ![key] = flow] /\ file_pos < Radix[Width]
  BY DEF WritePacket, PositionFits
<1>3. file_pos \in Nat /\ flows \in [Key -> ArchiveFlow \cup {Absent}]
  BY <1>2 DEF AscendInv, TypeOK
<1>4. new # <<>> /\ new[1] < Radix[Width]
  <2>1. CASE flows[key] = Absent
    <3>1. new = <<file_pos>>
      BY <2>1 DEF Tracked
    <3>. HIDE DEF new
    <3>. QED
      BY <1>2, <3>1
  <2>2. CASE flows[key] # Absent
    <3>. DEFINE old == flows[key].packet_offsets
    <3>1. flows[key] \in ArchiveFlow /\ old \in Seq(Nat)
      BY <1>1, <1>3, <2>2 DEF ArchiveFlow
    <3>2. new = Append(old, file_pos)
      BY <2>2, <3>1 DEF Tracked, ArchiveFlow
    <3>3. old # <<>> /\ old[1] < Radix[Width]
      BY <1>1, <2>2 DEF FirstFits
    <3>. HIDE DEF new, old
    <3>4. Len(old) \in Nat /\ Len(old) # 0
      BY <3>1, <3>3, LenProperties, EmptySeq
    <3>5. /\ Append(old, file_pos) \in Seq(Nat)
          /\ Len(Append(old, file_pos)) = Len(old) + 1
          /\ Append(old, file_pos)[1] = old[1]
      BY <1>3, <3>1, <3>4, AppendProperties
    <3>. QED
      BY <3>2, <3>3, <3>4, <3>5, EmptySeq
  <2>. QED
    BY <2>1, <2>2
<1>5. \A k \in Key : flows'[k] = IF k = key THEN flow ELSE flows[k]
  BY <1>2, <1>3
<1>. HIDE DEF flow
<1>. QED
  BY <1>4, <1>5 DEF FirstFits

(* Nothing else takes an offset. *)
LEMMA NextFirstFits ==
  AscendInv /\ FirstFits /\ PositionFits /\ [Next]_vars => FirstFits'
<1>. SUFFICES ASSUME AscendInv, FirstFits, PositionFits, [Next]_vars
              PROVE  FirstFits'
  OBVIOUS
<1>1. ASSUME NEW pkt \in Packet, NEW key \in KeysOf(pkt), WritePacket(key, pkt)
      PROVE  FirstFits'
  BY <1>1, WritePacketFirstFits
<1>2. ASSUME UNCHANGED flows
      PROVE  FirstFits'
  BY <1>2 DEF FirstFits
<1>3. CASE WriteOffsetLists \/ WriteFlowTable \/ WriteSecondaryIndexes
  BY <1>2, <1>3 DEF WriteOffsetLists, WriteFlowTable, WriteSecondaryIndexes
<1>4. CASE WriteFooter \/ Rename \/ Fails \/ Crash
  BY <1>2, <1>4 DEF WriteFooter, Rename, Fails, Crash
<1>5. CASE Restart
  BY <1>5 DEF Restart, Created, NoFlows, FirstFits
<1>6. CASE Finished \/ UNCHANGED vars
  BY <1>2, <1>6 DEF Finished, vars
<1>. QED
  BY <1>1, <1>3, <1>4, <1>5, <1>6 DEF Next

(* The promise for one flow, from the lemmas about the codec. *)
LEMMA CutsKeepPrefix == AscendInv /\ FirstFits => TruncationKeepsPrefix
<1>. SUFFICES ASSUME AscendInv, FirstFits, NEW key \in Key, flows[key] # Absent
              PROVE  LET offsets == flows[key].packet_offsets
                         bytes   == Encoded(flows[key])
                     IN /\ \A cut \in 0..Len(bytes) :
                             IsPrefix(DecodeOffsets(SubSeq(bytes, 1, cut), Len(offsets)), offsets)
                        /\ \A count \in 0..Len(offsets) :
                             DecodeOffsets(bytes, count) = SubSeq(offsets, 1, count)
  BY DEF TruncationKeepsPrefix
<1>. DEFINE off == flows[key].packet_offsets
            bytes == EncodeOffsets(off)
<1>1. /\ off \in Seq(Nat) /\ off # <<>> /\ Ascends(off) /\ off[1] < Radix[Width]
      /\ bytes = Encoded(flows[key])
  BY DEF AscendInv, TypeOK, ArchiveFlow, OffsetsAscend, FirstFits, Ascends, Encoded
<1>. HIDE DEF off
<1>2. bytes \in Seq(Nat) /\ Len(bytes) \in Nat /\ Len(off) \in Nat
  BY <1>1, EncodeOffsetsType, LenProperties
<1>3. ASSUME NEW cut \in 0..Len(bytes)
      PROVE  IsPrefix(DecodeOffsets(SubSeq(bytes, 1, cut), Len(off)), off)
  <2>1. cut \in Nat /\ cut <= Len(EncodeOffsets(off)) /\ Len(off) \in 0..Len(off)
    BY <1>2
  <2>2. PICK k \in 0..Len(off) :
          DecodeOffsets(SubSeq(bytes, 1, cut), Len(off)) = SubSeq(off, 1, k)
    BY <1>1, <2>1, DecodesPrefix
  <2>3. IsPrefix(SubSeq(off, 1, k), off)
    BY <1>1, SubSeqIsPrefix
  <2>. HIDE DEF bytes
  <2>. QED
    BY <2>2, <2>3
<1>4. ASSUME NEW count \in 0..Len(off)
      PROVE  DecodeOffsets(bytes, count) = SubSeq(off, 1, count)
  <2>. DEFINE all == Len(bytes)
  <2>1. all \in Nat /\ all <= Len(EncodeOffsets(off)) /\ all = Len(EncodeOffsets(off))
    BY <1>2
  <2>2. SubSeq(bytes, 1, all) = bytes
    BY <1>2, SubSeqFull
  <2>. HIDE DEF all
  <2>3. DecodeOffsets(SubSeq(bytes, 1, all), count) = SubSeq(off, 1, count)
    BY <1>1, <2>1, DecodesPrefix
  <2>. HIDE DEF bytes
  <2>. QED
    BY <2>2, <2>3
<1>. HIDE DEF bytes
<1>. QED
  BY <1>1, <1>3, <1>4 DEF off

(* An offset list cut off anywhere decodes to its first offsets and to no  *)
(* wrong one: whatever the bases and widths of the code, the packets, and  *)
(* however many of them, as long as a position fits the first field.       *)
THEOREM TruncationKeepsPrefixAlways ==
  Spec /\ []PositionFits => []TruncationKeepsPrefix
<1>1. Init => FirstFits
  BY DEF Init, NoFlows, FirstFits
<1>. QED
  BY <1>1, CreatedAscendInv, NextAscendInv, NextFirstFits, CutsKeepPrefix, PTL DEF Spec
-----------------------------------------------------------------------------
(* The archive, region by region.  What the temporary file will hold once  *)
(* it is flushed.                                                          *)
content == written \o buffer

Regions ==
  [is : {"footer"}, flow_packet_offset : Nat, flow_table_offset : Nat, flow_table_size : Nat,
   secondary_index_offset : Nat, secondary_index_size : Nat]

Finalizing == {"table", "index", "footer", "rename"}

(* file_pos is where the file ends, until the last region that is noted.   *)
FileInv ==
  /\ IsSequence(written) /\ IsSequence(buffer)
  /\ stage \in {"packets", "table", "index"} => file_pos = Len(content)
  /\ regions \in Regions

(* Flows are numbered from 1 on, without gaps. *)
IdsInv ==
  /\ \A key \in Key : flows[key] # Absent => flows[key].flow_id \in 1..next_flow_id - 1
  /\ \A j, k \in Key : /\ flows[j] # Absent /\ flows[k] # Absent
                       /\ flows[j].flow_id = flows[k].flow_id
                       => j = k
  /\ \A id \in 1..next_flow_id - 1 :
       \E key \in Key : flows[key] # Absent /\ flows[key].flow_id = id

(* The frames of a flow's packets are at its offsets. *)
FlowIn(file, flow, packets) ==
  /\ Len(flow.packet_offsets) = Len(packets)
  /\ \A i \in 1..Len(packets) :
       packets[i] \in Packet /\ HasAt(file, flow.packet_offsets[i], Frame(packets[i]))

FramesIn(file) ==
  \A key \in Key : IF flows[key] = Absent THEN given[key] = <<>>
                   ELSE FlowIn(file, flows[key], given[key])

FramesThere == stage \in {"packets"} \cup Finalizing => FramesIn(content)

GivenInv == given \in [Key -> Seq(Packet)]

(* A frame takes as many cells as write_packet counts. *)
LEMMA FrameCells ==
  ASSUME NEW pkt \in Packet
  PROVE  /\ IsSequence(Frame(pkt)) /\ Len(Frame(pkt)) = FrameSize(pkt)
         /\ FrameSize(pkt) \in Nat \ {0}
         /\ Frame(pkt)[1] = [is |-> "frame", pkt |-> pkt]
<1>. DEFINE head == <<[is |-> "frame", pkt |-> pkt]>>
            n == DataLen(pkt)
            data == [i \in 1..n |-> [is |-> "data"]]
<1>1. n \in Nat
  BY PacketsAssumption
<1>2. IsSequence(head) /\ Len(head) = 1 /\ head[1] = [is |-> "frame", pkt |-> pkt]
  <2>1. head \in Seq({[is |-> "frame", pkt |-> pkt]})
    OBVIOUS
  <2>. QED
    BY <2>1, SeqIsSequence
<1>3. IsSequence(data) /\ Len(data) = n
  <2>1. \A i \in 1..n : data[i] = [is |-> "data"]
    OBVIOUS
  <2>2. data = [i \in 1..n |-> data[i]]
    OBVIOUS
  <2>. HIDE DEF data, n
  <2>. QED
    BY <1>1, <2>2, SequenceByValue
<1>4. Frame(pkt) = head \o data /\ FrameSize(pkt) = 1 + n
  BY DEF Frame, FrameSize
<1>. HIDE DEF head, data, n
<1>5. /\ IsSequence(head \o data) /\ Len(head \o data) = 1 + n
      /\ (head \o data)[1] = head[1]
  <2>1. 1 \in 1..Len(head)
    BY <1>2
  <2>2. \A i \in 1..Len(head) : (head \o data)[i] = head[i]
    BY <1>2, <1>3, SequenceConcat
  <2>3. IsSequence(head \o data) /\ Len(head \o data) = Len(head) + Len(data)
    BY <1>2, <1>3, SequenceConcat
  <2>. QED
    BY <1>2, <1>3, <2>1, <2>2, <2>3
<1>. QED
  BY <1>1, <1>2, <1>4, <1>5

(* Everything written goes behind what there is. *)
LEMMA WritesAppend ==
  ASSUME IsSequence(written), IsSequence(buffer), NEW cells, IsSequence(cells),
         Write(cells) \/ WriteAndFlush(cells)
  PROVE  /\ IsSequence(written') /\ IsSequence(buffer') /\ IsSequence(content)
         /\ content' = content \o cells /\ Len(content') = Len(content) + Len(cells)
<1>. DEFINE w == written
            b == buffer
<1>1. /\ IsSequence(w \o b) /\ IsSequence(b \o cells)
      /\ IsSequence((w \o b) \o cells) /\ Len((w \o b) \o cells) = Len(w \o b) + Len(cells)
  BY SequenceConcat
<1>2. IsSequence(<<>>) /\ (w \o b \o cells) \o <<>> = (w \o b) \o cells
  <2>1. <<>> \in Seq({})
    BY EmptySeq
  <2>2. IsSequence(<<>>)
    BY <2>1, SeqIsSequence
  <2>3. ((w \o b) \o cells) \o <<>> = (w \o b) \o cells
    <3>. DEFINE u == (w \o b) \o cells
                U == {u[i] : i \in 1..Len(u)}
    <3>1. u \in Seq(U)
      BY <1>1, SequenceOfItsElements
    <3>. HIDE DEF u, U
    <3>2. u \o <<>> = u
      BY <3>1, ConcatEmptySeq
    <3>. QED
      BY <3>2 DEF u
  <2>. QED
    BY <2>2, <2>3
<1>3. w \o (b \o cells) = (w \o b) \o cells
  BY SequencesRegroup DEF Grouped
<1>4. content = w \o b
  BY DEF content
<1>5. content' = written' \o buffer'
  BY DEF content
<1>6. CASE written' = w /\ buffer' = b \o cells
  <2>1. content' = content \o cells
    BY <1>3, <1>4, <1>5, <1>6, Zenon
  <2>. QED
    BY <1>1, <1>4, <1>6, <2>1
<1>7. CASE written' = w \o b /\ buffer' = cells
  <2>1. content' = content \o cells
    BY <1>4, <1>5, <1>7, Zenon
  <2>. QED
    BY <1>1, <1>4, <1>7, <2>1
<1>8. CASE written' = w \o b \o cells /\ buffer' = <<>>
  <2>1. content' = content \o cells
    BY <1>2, <1>4, <1>5, <1>8, Zenon
  <2>. QED
    BY <1>1, <1>2, <1>4, <1>8, <2>1
<1>. QED
  BY <1>6, <1>7, <1>8 DEF Write, WriteAndFlush

(* The frames of a flow stay where they are when more is written. *)
LEMMA FlowStaysIn ==
  ASSUME NEW file, IsSequence(file), NEW more, IsSequence(more), NEW flow, NEW packets,
         FlowIn(file, flow, packets)
  PROVE  FlowIn(file \o more, flow, packets)
<1>1. ASSUME NEW i \in 1..Len(packets)
      PROVE  packets[i] \in Packet /\ HasAt(file \o more, flow.packet_offsets[i], Frame(packets[i]))
  <2>1. packets[i] \in Packet /\ HasAt(file, flow.packet_offsets[i], Frame(packets[i]))
    BY DEF FlowIn
  <2>2. IsSequence(Frame(packets[i]))
    BY <2>1, FrameCells
  <2>. QED
    BY <2>1, <2>2, StillHas
<1>. QED
  BY <1>1 DEF FlowIn

(* A frame appended where the flow's next offset is. *)
LEMMA FlowTakesFrame ==
  ASSUME NEW file, IsSequence(file), NEW pkt \in Packet,
         NEW offsets \in Seq(Nat), NEW packets \in Seq(Packet), Len(offsets) = Len(packets),
         \A i \in 1..Len(packets) : HasAt(file, offsets[i], Frame(packets[i])),
         NEW flow, flow.packet_offsets = Append(offsets, Len(file))
  PROVE  FlowIn(file \o Frame(pkt), flow, Append(packets, pkt))
<1>. DEFINE n == Len(packets)
            more == Frame(pkt)
            pos == Len(file)
<1>1. n \in Nat /\ IsSequence(more) /\ pos \in Nat
  BY LenProperties, FrameCells DEF IsSequence
<1>2. /\ Len(Append(packets, pkt)) = n + 1
      /\ Append(packets, pkt)[n + 1] = pkt
      /\ \A i \in 1..n : Append(packets, pkt)[i] = packets[i] /\ packets[i] \in Packet
  BY AppendProperties, ElementOfSeq
<1>3. /\ Len(Append(offsets, pos)) = n + 1
      /\ Append(offsets, pos)[n + 1] = pos
      /\ \A i \in 1..n : Append(offsets, pos)[i] = offsets[i]
  BY <1>1, AppendProperties
<1>. DEFINE all == Append(packets, pkt)
            offs == Append(offsets, pos)
<1>4. ASSUME NEW i \in 1..n
      PROVE  all[i] \in Packet /\ HasAt(file \o more, offs[i], Frame(all[i]))
  <2>1. HasAt(file, offsets[i], Frame(packets[i])) /\ IsSequence(Frame(packets[i]))
    BY <1>2, FrameCells
  <2>2. HasAt(file \o more, offsets[i], Frame(packets[i]))
    BY <1>1, <2>1, StillHas
  <2>. QED
    BY <1>2, <1>3, <2>2
<1>5. all[n + 1] \in Packet /\ HasAt(file \o more, offs[n + 1], Frame(all[n + 1]))
  BY <1>1, <1>2, <1>3, HasWhatIsAppended
<1>6. ASSUME NEW i \in 1..Len(all)
      PROVE  all[i] \in Packet /\ HasAt(file \o more, flow.packet_offsets[i], Frame(all[i]))
  <2>1. i \in 1..n \/ i = n + 1
    BY <1>1, <1>2
  <2>. HIDE DEF all, offs, more, n
  <2>2. flow.packet_offsets = offs
    BY DEF offs
  <2>. QED
    BY <1>4, <1>5, <2>1, <2>2
<1>. QED
  BY <1>2, <1>3, <1>6 DEF FlowIn

(* The flow table's part of a packet: ids go on without gaps.              *)
LEMMA WritePacketIds ==
  ASSUME AscendInv, IdsInv, NEW pkt \in Packet, NEW key \in KeysOf(pkt), WritePacket(key, pkt)
  PROVE  IdsInv'
<1>. DEFINE flow == Tracked(flows[key], pkt)
            id == next_flow_id
<1>1. /\ key \in Key /\ stage = "packets" /\ id \in Nat \ {0}
      /\ \A k \in Key : flows[k] # Absent => flows[k] \in ArchiveFlow
      /\ flows' = [flows EXCEPT ![key] = flow] /\ DOMAIN flows = Key
      /\ next_flow_id' = IF flows[key] = Absent THEN id + 1 ELSE id
  BY PacketsAssumption DEF WritePacket, AscendInv, TypeOK
<1>2. flow # Absent
  <2>1. flow \in ArchiveFlow
    BY <1>1, TrackedFlow
  <2>. QED
    BY <2>1, AbsentAssumption
<1>3. flow.flow_id = IF flows[key] = Absent THEN id ELSE flows[key].flow_id
  <2>1. CASE flows[key] = Absent
    BY <2>1 DEF Tracked
  <2>2. CASE flows[key] # Absent
    <3>1. flows[key] \in ArchiveFlow
      BY <1>1, <2>2
    <3>. QED
      BY <2>2, <3>1 DEF Tracked, ArchiveFlow
  <2>. QED
    BY <2>1, <2>2
<1>. HIDE DEF flow
<1>4. \A k \in Key : flows'[k] = IF k = key THEN flow ELSE flows[k]
  BY <1>1
<1>5. /\ \A k \in Key : flows[k] # Absent => flows[k].flow_id \in 1..id - 1
      /\ \A j, k \in Key : /\ flows[j] # Absent /\ flows[k] # Absent
                           /\ flows[j].flow_id = flows[k].flow_id
                           => j = k
      /\ \A n \in 1..id - 1 : \E k \in Key : flows[k] # Absent /\ flows[k].flow_id = n
  BY DEF IdsInv
<1>. DEFINE next == next_flow_id'
<1>6. CASE flows[key] = Absent
  <2>1. next = id + 1 /\ flow.flow_id = id
    BY <1>1, <1>3, <1>6
  <2>. HIDE DEF id, next
  <2>2. ASSUME NEW k \in Key, flows'[k] # Absent
        PROVE  flows'[k].flow_id \in 1..next - 1
    BY <1>1, <1>4, <1>5, <2>1, <2>2
  <2>3. ASSUME NEW j \in Key, NEW k \in Key, flows'[j] # Absent, flows'[k] # Absent,
               flows'[j].flow_id = flows'[k].flow_id
        PROVE  j = k
    <3>1. CASE j = key /\ k # key
      <4>1. flows'[j].flow_id = id /\ flows[k] # Absent /\ flows'[k].flow_id = flows[k].flow_id
        BY <1>4, <2>1, <2>3, <3>1
      <4>2. flows[k].flow_id \in 1..id - 1
        BY <1>5, <4>1
      <4>. QED
        BY <1>1, <2>3, <4>1, <4>2
    <3>2. CASE j # key /\ k = key
      <4>1. flows'[k].flow_id = id /\ flows[j] # Absent /\ flows'[j].flow_id = flows[j].flow_id
        BY <1>4, <2>1, <2>3, <3>2
      <4>2. flows[j].flow_id \in 1..id - 1
        BY <1>5, <4>1
      <4>. QED
        BY <1>1, <2>3, <4>1, <4>2
    <3>3. CASE j # key /\ k # key
      BY <1>4, <1>5, <2>3, <3>3
    <3>. QED
      BY <3>1, <3>2, <3>3
  <2>4. ASSUME NEW n \in 1..next - 1
        PROVE  \E k \in Key : flows'[k] # Absent /\ flows'[k].flow_id = n
    <3>1. CASE n = id
      BY <1>1, <1>2, <1>4, <2>1, <3>1
    <3>2. CASE n # id
      <4>1. n \in 1..id - 1
        BY <1>1, <2>1, <3>2
      <4>2. PICK k \in Key : flows[k] # Absent /\ flows[k].flow_id = n
        BY <1>5, <4>1
      <4>3. flows'[k] = flows[k]
        BY <1>4, <1>6, <4>2
      <4>. QED
        BY <4>2, <4>3
    <3>. QED
      BY <3>1, <3>2
  <2>. QED
    BY <2>2, <2>3, <2>4 DEF IdsInv, next
<1>7. CASE flows[key] # Absent
  <2>1. next = id /\ flow.flow_id = flows[key].flow_id
    BY <1>1, <1>3, <1>7
  <2>. HIDE DEF id, next
  <2>2. \A k \in Key : /\ flows'[k] # Absent <=> flows[k] # Absent
                       /\ flows[k] # Absent => flows'[k].flow_id = flows[k].flow_id
    BY <1>2, <1>4, <1>7, <2>1
  <2>3. \A k \in Key : flows'[k] # Absent => flows'[k].flow_id \in 1..next - 1
    BY <1>5, <2>1, <2>2
  <2>4. ASSUME NEW j \in Key, NEW k \in Key, flows'[j] # Absent, flows'[k] # Absent,
               flows'[j].flow_id = flows'[k].flow_id
        PROVE  j = k
    BY <1>5, <2>2, <2>4
  <2>5. ASSUME NEW n \in 1..next - 1
        PROVE  \E k \in Key : flows'[k] # Absent /\ flows'[k].flow_id = n
    <3>1. PICK k \in Key : flows[k] # Absent /\ flows[k].flow_id = n
      BY <1>5, <2>1
    <3>. QED
      BY <2>2, <3>1
  <2>. QED
    BY <2>3, <2>4, <2>5 DEF IdsInv, next
<1>. QED
  BY <1>6, <1>7

(* The packet's frame is at its flow's new offset, and the others stay.    *)
LEMMA WritePacketFrames ==
  ASSUME AscendInv, FileInv, GivenInv, FramesThere,
         NEW pkt \in Packet, NEW key \in KeysOf(pkt), WritePacket(key, pkt)
  PROVE  FileInv' /\ GivenInv' /\ FramesThere'
<1>. DEFINE flow == Tracked(flows[key], pkt)
            cells == Frame(pkt)
<1>1. /\ key \in Key /\ stage = "packets"
      /\ \A k \in Key : flows[k] # Absent => flows[k] \in ArchiveFlow
      /\ flows' = [flows EXCEPT ![key] = flow] /\ DOMAIN flows = Key
      /\ given \in [Key -> Seq(Packet)] /\ given' = [given EXCEPT ![key] = Append(@, pkt)]
      /\ Write(cells) /\ file_pos' = file_pos + FrameSize(pkt)
      /\ stage' = stage /\ regions' = regions
  BY PacketsAssumption DEF WritePacket, AscendInv, TypeOK, GivenInv
<1>2. IsSequence(written) /\ IsSequence(buffer) /\ file_pos = Len(content) /\ regions \in Regions
  BY <1>1 DEF FileInv
<1>3. IsSequence(cells) /\ Len(cells) = FrameSize(pkt)
  BY FrameCells
<1>. HIDE DEF cells
<1>4. /\ IsSequence(written') /\ IsSequence(buffer') /\ IsSequence(content)
      /\ content' = content \o cells /\ Len(content') = Len(content) + Len(cells)
  BY <1>1, <1>2, <1>3, WritesAppend
<1>5. FileInv'
  BY <1>1, <1>2, <1>3, <1>4 DEF FileInv
<1>6. GivenInv' /\ \A k \in Key :
        given'[k] = IF k = key THEN Append(given[key], pkt) ELSE given[k]
  <2>1. \A s \in Seq(Packet) : Append(s, pkt) \in Seq(Packet)
    BY AppendProperties
  <2>. QED
    BY <1>1, <2>1 DEF GivenInv
<1>7. flow # Absent
  <2>1. flow \in ArchiveFlow
    BY <1>1, TrackedFlow
  <2>. QED
    BY <2>1, AbsentAssumption
<1>8. FlowIn(content \o cells, flow, Append(given[key], pkt))
  <2>1. CASE flows[key] = Absent
    <3>1. given[key] = <<>> /\ flow.packet_offsets = <<file_pos>>
      BY <1>1, <2>1 DEF FramesThere, FramesIn, Tracked
    <3>2. <<>> \in Seq(Nat) /\ <<>> \in Seq(Packet) /\ Len(<<>>) = 0
      BY EmptySeq, LenProperties
    <3>3. Append(<<>>, file_pos) = <<file_pos>> /\ \A i \in 1..0 : FALSE
      OBVIOUS
    <3>4. flow.packet_offsets = Append(<<>>, Len(content))
      BY <1>2, <3>1, <3>3
    <3>. DEFINE none == <<>>
    <3>6. \A i \in 1..Len(none) : HasAt(content, none[i], Frame(none[i]))
      BY <3>2
    <3>7. none \in Seq(Nat) /\ none \in Seq(Packet) /\ Len(none) = Len(none)
      BY <3>2
    <3>8. flow.packet_offsets = Append(none, Len(content))
      BY <3>4
    <3>. HIDE DEF flow, none
    <3>5. FlowIn(content \o Frame(pkt), flow, Append(none, pkt))
      BY <1>4, <3>6, <3>7, <3>8, FlowTakesFrame
    <3>. QED
      BY <3>1, <3>5 DEF cells, none
  <2>2. CASE flows[key] # Absent
    <3>. DEFINE offsets == flows[key].packet_offsets
                packets == given[key]
    <3>1. flows[key] \in ArchiveFlow /\ offsets \in Seq(Nat) /\ packets \in Seq(Packet)
      BY <1>1, <2>2 DEF ArchiveFlow
    <3>2. FlowIn(content, flows[key], given[key])
      BY <1>1, <2>2 DEF FramesThere, FramesIn
    <3>3. /\ Len(offsets) = Len(packets)
          /\ \A i \in 1..Len(packets) : HasAt(content, offsets[i], Frame(packets[i]))
      BY <3>2 DEF FlowIn
    <3>4. flow.packet_offsets = Append(offsets, Len(content))
      BY <1>2, <2>2, <3>1 DEF Tracked, ArchiveFlow
    <3>. HIDE DEF offsets, packets, flow
    <3>5. FlowIn(content \o Frame(pkt), flow, Append(packets, pkt))
      BY <1>4, <3>1, <3>3, <3>4, FlowTakesFrame
    <3>. QED
      BY <3>5 DEF cells, packets
  <2>. QED
    BY <2>1, <2>2
<1>. HIDE DEF flow
<1>9. ASSUME NEW k \in Key
      PROVE  IF flows'[k] = Absent THEN given'[k] = <<>> ELSE FlowIn(content', flows'[k], given'[k])
  <2>1. CASE k = key
    <3>1. flows'[k] = flow /\ given'[k] = Append(given[key], pkt)
      BY <1>1, <1>6, <2>1
    <3>. QED
      BY <1>4, <1>7, <1>8, <3>1
  <2>2. CASE k # key
    <3>1. flows'[k] = flows[k] /\ given'[k] = given[k]
      BY <1>1, <1>6, <2>2
    <3>2. IF flows[k] = Absent THEN given[k] = <<>> ELSE FlowIn(content, flows[k], given[k])
      BY <1>1 DEF FramesThere, FramesIn
    <3>3. flows[k] # Absent => FlowIn(content \o cells, flows[k], given[k])
      BY <1>3, <1>4, <3>2, FlowStaysIn
    <3>. QED
      BY <1>4, <3>1, <3>2, <3>3
  <2>. QED
    BY <2>1, <2>2
<1>. QED
  BY <1>5, <1>6, <1>9 DEF FramesThere, FramesIn
-----------------------------------------------------------------------------
(* t has the elements of S, the lesser ones first. *)
Lists(t, S) ==
  /\ t \in Seq(S) /\ \A x \in S : \E i \in 1..Len(t) : t[i] = x
  /\ \A i, j \in 1..Len(t) : i < j => t[i] < t[j]

Rank(S, x) == Cardinality({y \in S : y < x})

(* Who has as many below him is the same. *)
LEMMA RanksAscend ==
  ASSUME NEW S, IsFiniteSet(S), S \subseteq Int, NEW x \in S, NEW y \in S
  PROVE  /\ Rank(S, x) \in 0..Cardinality(S) - 1
         /\ x < y => Rank(S, x) < Rank(S, y)
<1>. DEFINE A == {z \in S : z < x}
            B == {z \in S : z < y}
<1>1. /\ IsFiniteSet(A) /\ Cardinality(A) <= Cardinality(S)
      /\ Cardinality(S) = Cardinality(A) => S = A
  <2>1. A \in SUBSET S
    OBVIOUS
  <2>. HIDE DEF A
  <2>. QED
    BY <2>1, FS_Subset
<1>2. x \notin A
  OBVIOUS
<1>3. Cardinality(A) \in Nat /\ Cardinality(S) \in Nat
  BY <1>1, FS_CardinalityType
<1>4. x < y => IsFiniteSet(B) /\ A \in SUBSET B /\ x \in B
  <2>1. B \in SUBSET S
    OBVIOUS
  <2>2. IsFiniteSet(B)
    BY <2>1, FS_Subset
  <2>3. ASSUME x < y, NEW z \in A
        PROVE  z \in B
    <3>1. x \in Int /\ y \in Int /\ z \in Int /\ z < x
      OBVIOUS
    <3>. QED
      BY <2>3, <3>1
  <2>4. x < y => x \in B
    OBVIOUS
  <2>. HIDE DEF A, B
  <2>. QED
    BY <2>2, <2>3, <2>4
<1>. HIDE DEF A, B
<1>5. ASSUME x < y
      PROVE  Cardinality(A) < Cardinality(B)
  <2>1. /\ Cardinality(A) <= Cardinality(B)
        /\ Cardinality(B) = Cardinality(A) => B = A
    BY <1>4, <1>5, FS_Subset
  <2>2. Cardinality(B) \in Nat
    BY <1>4, <1>5, FS_CardinalityType
  <2>. QED
    BY <1>2, <1>3, <1>4, <1>5, <2>1, <2>2
<1>6. Cardinality(A) \in 0..Cardinality(S) - 1
  BY <1>1, <1>2, <1>3
<1>7. Rank(S, x) = Cardinality(A) /\ Rank(S, y) = Cardinality(B)
  BY DEF Rank, A, B
<1>. QED
  BY <1>5, <1>6, <1>7

(* Ascending is right. *)
LEMMA AscendingLists ==
  ASSUME NEW S, IsFiniteSet(S), S \subseteq Int
  PROVE  Lists(Ascending(S), S) /\ Len(Ascending(S)) = Cardinality(S)
<1>. DEFINE n == Cardinality(S)
            R == 0..n - 1
            r == [x \in S |-> Rank(S, x)]
            t == Ascending(S)
<1>1. n \in Nat /\ IsFiniteSet(R) /\ Cardinality(R) = n
  <2>1. n \in Nat
    BY FS_CardinalityType
  <2>. HIDE DEF n
  <2>2. IsFiniteSet(0..n - 1) /\ Cardinality(0..n - 1) = n
    BY <2>1, FS_Interval
  <2>. QED
    BY <2>1, <2>2
<1>2. /\ \A x \in S : Rank(S, x) \in R
      /\ \A x, y \in S : x < y => Rank(S, x) < Rank(S, y)
  BY RanksAscend
<1>. HIDE DEF n
<1>3. r \in [S -> R] /\ \A x \in S : r[x] = Rank(S, x)
  BY <1>2
<1>4. \A x, y \in S : r[x] = r[y] => x = y
  <2>1. ASSUME NEW x \in S, NEW y \in S, r[x] = r[y]
        PROVE  x = y
    <3>1. Rank(S, x) = Rank(S, y) /\ Rank(S, x) \in Int /\ x \in Int /\ y \in Int
      BY <1>1, <1>2, <1>3, <2>1
    <3>2. ~(x < y) /\ ~(y < x)
      BY <1>2, <3>1
    <3>. QED
      BY <3>1, <3>2
  <2>. QED
    BY <2>1
<1>. HIDE DEF r
<1>5. r \in Injection(S, R)
  BY <1>3, <1>4 DEF Injection, IsInjective
<1>6. r \in Surjection(S, R)
  <2>. HIDE DEF R
  <2>. QED
    BY <1>1, <1>5, FS_Injection DEF n
<1>7. \A k \in R : \E x \in S : Rank(S, x) = k
  BY <1>3, <1>6 DEF Surjection
<1>8. ASSUME NEW i \in 1..n
      PROVE  t[i] \in S /\ Rank(S, t[i]) = i - 1
  <2>. DEFINE P(x) == Rank(S, x) = i - 1
              c == CHOOSE x \in S : P(x)
  <2>1. i - 1 \in R
    BY <1>1
  <2>2. \E x \in S : P(x)
    BY <1>7, <2>1
  <2>3. c \in S /\ P(c)
    <3>. HIDE DEF P
    <3>. QED
      BY <2>2
  <2>4. t = [j \in 1..n |-> CHOOSE x \in S : Rank(S, x) = j - 1]
    BY DEF Ascending, Rank, n
  <2>5. t[i] = c
    BY <2>4
  <2>. QED
    BY <2>3, <2>5
<1>9. IsSequence(t) /\ DOMAIN t = 1..n /\ Len(t) = n
  <2>1. t = [i \in 1..n |-> t[i]]
    <3>. DEFINE c(j) == CHOOSE x \in S : Rank(S, x) = j - 1
    <3>1. t = [j \in 1..n |-> c(j)]
      BY DEF Ascending, Rank, n
    <3>. HIDE DEF c, t
    <3>. QED
      BY <3>1
  <2>. HIDE DEF t
  <2>. QED
    BY <1>1, <2>1, SequenceByValue
<1>. HIDE DEF t
<1>10. t \in Seq(S)
  <2>1. t \in [1..n -> S]
    BY <1>8, <1>9 DEF IsSequence
  <2>. QED
    BY <1>1, <2>1, SeqDef
<1>11. ASSUME NEW x \in S
       PROVE  \E i \in 1..n : t[i] = x
  <2>1. Rank(S, x) + 1 \in 1..n /\ (Rank(S, x) + 1) - 1 = Rank(S, x)
    BY <1>1, <1>2
  <2>2. t[Rank(S, x) + 1] \in S /\ Rank(S, t[Rank(S, x) + 1]) = Rank(S, x)
    BY <1>8, <2>1
  <2>3. t[Rank(S, x) + 1] = x
    BY <1>3, <1>4, <2>2
  <2>. QED
    BY <2>1, <2>3
<1>12. ASSUME NEW i \in 1..n, NEW j \in 1..n, i < j
       PROVE  t[i] < t[j]
  <2>1. /\ t[i] \in S /\ t[j] \in S /\ t[i] \in Int /\ t[j] \in Int
        /\ Rank(S, t[i]) = i - 1 /\ Rank(S, t[j]) = j - 1
    BY <1>8
  <2>2. t[i] # t[j] /\ ~(t[j] < t[i])
    BY <1>1, <1>2, <1>12, <2>1
  <2>. QED
    BY <2>1, <2>2
<1>. QED
  BY <1>9, <1>10, <1>11, <1>12 DEF Lists, t, n

(* And there is no other way to list them. *)
LEMMA ListedOnce ==
  ASSUME NEW S, S \subseteq Int, NEW t, Lists(t, S)
  PROVE  IsFiniteSet(S) /\ Ascending(S) = t
<1>. DEFINE n == Len(t)
<1>1. /\ n \in Nat /\ t = [i \in 1..n |-> t[i]]
      /\ \A i \in 1..n : t[i] \in S /\ t[i] \in Int
      /\ \A x \in S : \E i \in 1..n : t[i] = x
      /\ \A i, j \in 1..n : i < j => t[i] < t[j]
  BY SeqIsSequence, ElementOfSeq DEF Lists, IsSequence
<1>. HIDE DEF n
<1>2. ASSUME NEW m \in 0..n, NEW U, U \subseteq S,
             \A i \in 1..m : t[i] \in U, \A x \in U : \E i \in 1..m : t[i] = x
      PROVE  IsFiniteSet(U) /\ Cardinality(U) = m
  <2>. DEFINE f == [i \in 1..m |-> t[i]]
  <2>1. f \in [1..m -> U] /\ m \in Nat /\ \A i \in 1..m : f[i] = t[i] /\ i \in 1..n
    BY <1>1, <1>2
  <2>. HIDE DEF f
  <2>2. \A i, j \in 1..m : f[i] = f[j] => i = j
    <3>1. ASSUME NEW i \in 1..m, NEW j \in 1..m, f[i] = f[j]
          PROVE  i = j
      <4>1. i \in 1..n /\ j \in 1..n /\ t[i] = t[j] /\ t[i] \in Int
        BY <1>1, <2>1, <3>1
      <4>2. ~(i < j) /\ ~(j < i)
        BY <1>1, <4>1
      <4>. QED
        BY <2>1, <4>1, <4>2
    <3>. QED
      BY <3>1
  <2>3. \A x \in U : \E i \in 1..m : f[i] = x
    BY <1>2, <2>1
  <2>4. f \in Bijection(1..m, U)
    BY <2>1, <2>2, <2>3 DEF Bijection, Injection, IsInjective, Surjection
  <2>5. ExistsBijection(1..m, U)
    BY <2>4 DEF ExistsBijection
  <2>6. Cardinality(U) = m
    BY <2>1, <2>5, FS_CountingElements
  <2>7. IsFiniteSet(U)
    BY <2>1, <2>5, FS_NatBijection
  <2>. QED
    BY <2>6, <2>7
<1>3. IsFiniteSet(S) /\ Cardinality(S) = n
  <2>1. n \in 0..n
    BY <1>1
  <2>. QED
    BY <1>1, <1>2, <2>1
<1>4. ASSUME NEW i \in 1..n
      PROVE  Rank(S, t[i]) = i - 1
  <2>. DEFINE U == {y \in S : y < t[i]}
  <2>1. i - 1 \in 0..n /\ U \subseteq S
    BY <1>1
  <2>2. \A k \in 1..i - 1 : k \in 1..n /\ k < i
    BY <1>1
  <2>3. \A k \in 1..i - 1 : t[k] \in U
    BY <1>1, <2>2
  <2>4. ASSUME NEW x \in U
        PROVE  \E k \in 1..i - 1 : t[k] = x
    <3>1. PICK k \in 1..n : t[k] = x
      BY <1>1
    <3>2. t[k] < t[i] /\ t[k] \in Int /\ t[i] \in Int
      BY <1>1, <3>1
    <3>3. ~(i < k) /\ k # i
      BY <1>1, <3>2
    <3>4. k \in 1..i - 1
      BY <1>1, <3>3
    <3>. QED
      BY <3>1, <3>4
  <2>. HIDE DEF U
  <2>5. Cardinality(U) = i - 1
    BY <1>2, <2>1, <2>3, <2>4
  <2>. QED
    BY <2>5 DEF Rank, U
<1>5. \A x, y \in S : Rank(S, x) = Rank(S, y) => x = y
  <2>1. ASSUME NEW x \in S, NEW y \in S, Rank(S, x) = Rank(S, y)
        PROVE  x = y
    <3>1. PICK i \in 1..n : t[i] = x
      BY <1>1
    <3>2. PICK j \in 1..n : t[j] = y
      BY <1>1
    <3>3. i - 1 = j - 1
      BY <1>4, <2>1, <3>1, <3>2
    <3>. QED
      BY <1>1, <3>1, <3>2, <3>3
  <2>. QED
    BY <2>1
<1>6. ASSUME NEW i \in 1..n
      PROVE  (CHOOSE x \in S : Rank(S, x) = i - 1) = t[i]
  <2>. DEFINE P(x) == Rank(S, x) = i - 1
              c == CHOOSE x \in S : P(x)
  <2>1. t[i] \in S /\ P(t[i])
    BY <1>1, <1>4
  <2>2. c \in S /\ P(c)
    <3>. HIDE DEF P
    <3>. QED
      BY <2>1
  <2>. HIDE DEF c
  <2>3. c = t[i]
    BY <1>5, <2>1, <2>2
  <2>. QED
    BY <2>3 DEF c
<1>7. Ascending(S) = [i \in 1..n |-> CHOOSE x \in S : Rank(S, x) = i - 1]
  BY <1>3 DEF Ascending, Rank
<1>. HIDE DEF Rank
<1>8. Ascending(S) = [i \in 1..n |-> t[i]]
  BY <1>6, <1>7
<1>. QED
  BY <1>1, <1>3, <1>8

(* Numbers from 1 on are in their places. *)
LEMMA AscendingInterval ==
  ASSUME NEW n \in Nat
  PROVE  Ascending(1..n) = [i \in 1..n |-> i]
<1>. DEFINE S == 1..n
            t == [i \in 1..n |-> i]
<1>1. \A i \in 1..n : t[i] = i
  OBVIOUS
<1>2. t \in [1..n -> S]
  OBVIOUS
<1>. HIDE DEF t
<1>3. t \in Seq(S) /\ Len(t) = n
  <2>1. t \in Seq(S)
    BY <1>2, SeqDef
  <2>2. DOMAIN t = 1..n /\ DOMAIN t = 1..Len(t) /\ Len(t) \in Nat
    BY <1>2, <2>1, LenProperties
  <2>. QED
    BY <2>1, <2>2
<1>4. Lists(t, S)
  BY <1>1, <1>3 DEF Lists
<1>5. Ascending(S) = t
  <2>1. S \subseteq Int
    OBVIOUS
  <2>. HIDE DEF S
  <2>. QED
    BY <1>4, <2>1, ListedOnce
<1>. QED
  BY <1>5 DEF S, t

(* A greater one goes last. *)
LEMMA ListsOneMore ==
  ASSUME NEW S, S \subseteq Int, NEW t, Lists(t, S), NEW x \in Int, \A y \in S : y < x
  PROVE  Lists(t \o <<x>>, S \cup {x})
<1>. DEFINE n == Len(t)
            u == t \o <<x>>
            U == S \cup {x}
<1>1. /\ n \in Nat /\ t \in Seq(S) /\ \A i \in 1..n : t[i] \in S
      /\ \A y \in S : \E i \in 1..n : t[i] = y
      /\ \A i, j \in 1..n : i < j => t[i] < t[j]
  BY LenProperties, ElementOfSeq DEF Lists
<1>2. u \in Seq(U) /\ Len(u) = n + 1 /\ u[n + 1] = x /\ \A i \in 1..n : u[i] = t[i]
  <2>1. t \in [1..n -> S]
    BY <1>1, LenProperties
  <2>2. S \subseteq U /\ x \in U
    OBVIOUS
  <2>. HIDE DEF U, n
  <2>3. t \in [1..n -> U]
    BY <2>1, <2>2
  <2>4. t \in Seq(U)
    BY <1>1, <2>3, SeqDef
  <2>5. <<x>> \in Seq(U) /\ Len(<<x>>) = 1 /\ <<x>>[1] = x
    BY <2>2
  <2>6. Len(t) = n
    BY DEF n
  <2>. DEFINE last == <<x>>
  <2>. HIDE DEF last
  <2>7. /\ t \o last \in Seq(U) /\ Len(t \o last) = n + 1
        /\ \A i \in 1..n + 1 : (t \o last)[i] = IF i <= n THEN t[i] ELSE last[i - n]
    BY <2>4, <2>5, <2>6, ConcatProperties DEF last
  <2>8. n + 1 \in 1..n + 1 /\ ~(n + 1 <= n) /\ (n + 1) - n = 1
        /\ \A i \in 1..n : i \in 1..n + 1 /\ i <= n
    BY <1>1
  <2>9. (t \o last)[n + 1] = x
    BY <2>5, <2>7, <2>8 DEF last
  <2>10. \A i \in 1..n : (t \o last)[i] = t[i]
    BY <2>7, <2>8
  <2>. QED
    BY <2>7, <2>9, <2>10 DEF last
<1>. HIDE DEF u, n
<1>3. ASSUME NEW y \in U
      PROVE  \E i \in 1..n + 1 : u[i] = y
  <2>1. CASE y \in S
    <3>1. PICK i \in 1..n : t[i] = y
      BY <1>1, <2>1
    <3>2. i \in 1..n + 1 /\ u[i] = y
      BY <1>1, <1>2, <3>1
    <3>. QED
      BY <3>2
  <2>2. CASE y = x
    <3>1. n + 1 \in 1..n + 1
      BY <1>1
    <3>. QED
      BY <1>2, <2>2, <3>1
  <2>. QED
    BY <2>1, <2>2
<1>4. ASSUME NEW i \in 1..n + 1, NEW j \in 1..n + 1, i < j
      PROVE  u[i] < u[j]
  <2>1. i \in 1..n /\ u[i] = t[i] /\ t[i] \in S
    BY <1>1, <1>2, <1>4
  <2>2. CASE j = n + 1
    BY <1>2, <2>1, <2>2
  <2>3. CASE j # n + 1
    <3>1. j \in 1..n
      BY <1>1, <2>3
    <3>. QED
      BY <1>1, <1>2, <1>4, <2>1, <3>1
  <2>. QED
    BY <2>2, <2>3
<1>5. \A i, j \in 1..n + 1 : i < j => u[i] < u[j]
  BY <1>4
<1>. QED
  BY <1>2, <1>3, <1>5 DEF Lists, u

(* The numbers of a set picked in order are the set in ascending order.    *)
LEMMA PickedAscend ==
  ASSUME NEW n \in Nat, NEW H, H \subseteq 1..n,
         NEW parts, parts = [i \in 1..n |-> IF i \in H THEN <<i>> ELSE <<>>]
  PROVE  FlattenSeq(parts) = Ascending(H)
<1>1. \A i \in 1..n : parts[i] = IF i \in H THEN <<i>> ELSE <<>>
  BY Zenon
<1>2. \A i \in 1..n : parts[i] \in Seq(Int)
  BY <1>1
<1>3. PICK f \in [0..n -> Seq(Int)] : Flattens(parts, n, f)
  BY <1>2, FlattenByParts
<1>4. /\ f[0] = <<>> /\ f[n] = FlattenSeq([j \in 1..n |-> parts[j]])
      /\ \A m \in 0..n - 1 : f[m + 1] = f[m] \o parts[m + 1]
  <2>1. n \in 0..n
    OBVIOUS
  <2>. QED
    BY <1>3, <2>1 DEF Flattens
<1>. DEFINE U(m) == H \cap 1..m
            G == {m \in 0..n : Lists(f[m], U(m))}
<1>5. 0 \in G
  <2>1. U(0) = {} /\ Len(<<>>) = 0 /\ 0 \in 0..n
    OBVIOUS
  <2>2. Lists(<<>>, {})
    BY EmptySeq DEF Lists
  <2>. QED
    BY <1>4, <2>1, <2>2
<1>6. ASSUME NEW m \in 0..n - 1, Lists(f[m], U(m))
      PROVE  Lists(f[m + 1], U(m + 1))
  <2>1. /\ m \in Nat /\ m \in 0..n /\ m + 1 \in 1..n /\ m + 1 \in Int
        /\ U(m) \subseteq Int /\ \A y \in U(m) : y < m + 1
    OBVIOUS
  <2>2. f[m + 1] = f[m] \o parts[m + 1] /\ f[m] \in Seq(Int)
    BY <1>3, <1>4, <2>1
  <2>3. CASE m + 1 \in H
    <3>1. U(m + 1) = U(m) \cup {m + 1}
      BY <2>1, <2>3
    <3>2. parts[m + 1] = <<m + 1>>
      BY <1>1, <2>1, <2>3
    <3>. HIDE DEF U
    <3>3. Lists(f[m] \o <<m + 1>>, U(m) \cup {m + 1})
      BY <1>6, <2>1, ListsOneMore
    <3>. QED
      BY <2>2, <3>1, <3>2, <3>3, Zenon
  <2>4. CASE m + 1 \notin H
    <3>1. U(m + 1) = U(m)
      BY <2>1, <2>4
    <3>2. parts[m + 1] = <<>>
      BY <1>1, <2>1, <2>4
    <3>3. f[m] \o <<>> = f[m]
      BY <2>2, ConcatEmptySeq
    <3>. QED
      BY <1>6, <2>2, <3>1, <3>2, <3>3, Zenon
  <2>. QED
    BY <2>3, <2>4
<1>. HIDE DEF U
<1>7. \A m \in 0..n - 1 : m \in G => m + 1 \in G
  <2>1. ASSUME NEW m \in 0..n - 1, m \in G
        PROVE  m + 1 \in G
    <3>1. Lists(f[m], U(m))
      BY <2>1, Zenon
    <3>2. Lists(f[m + 1], U(m + 1))
      BY <1>6, <3>1
    <3>3. m + 1 \in 0..n
      OBVIOUS
    <3>. QED
      BY <3>2, <3>3, Zenon
  <2>. QED
    BY <2>1
<1>. HIDE DEF G
<1>8. n \in G
  <2>1. \A m \in 0..n : m \in G
    BY <1>5, <1>7, CountInduction
  <2>. QED
    BY <2>1
<1>9. Lists(f[n], H)
  <2>1. U(n) = H
    BY DEF U
  <2>. QED
    BY <1>8, <2>1 DEF G
<1>10. Ascending(H) = f[n]
  <2>1. H \subseteq Int
    OBVIOUS
  <2>. QED
    BY <1>9, <2>1, ListedOnce
<1>11. [j \in 1..n |-> parts[j]] = parts
  OBVIOUS
<1>. QED
  BY <1>4, <1>10, <1>11
-----------------------------------------------------------------------------
(* The flows in order: that with id i is the i-th. *)
InOrder(s, n) ==
  /\ n \in Nat /\ IsSequence(s) /\ Len(s) = n /\ DOMAIN s = 1..n
  /\ \A i \in 1..n : \E key \in Key : /\ flows[key] # Absent
                                      /\ flows[key].flow_id = i /\ s[i] = flows[key]
  /\ \A key \in Key : flows[key] # Absent =>
       flows[key].flow_id \in 1..n /\ s[flows[key].flow_id] = flows[key]

LEMMA FlowsInOrder ==
  ASSUME TypeOK, IdsInv
  PROVE  InOrder(SortedFlows, next_flow_id - 1)
<1>. DEFINE n == next_flow_id - 1
            values == {flows[k] : k \in Key} \ {Absent}
            ids == {flow.flow_id : flow \in values}
            s == [i \in 1..n |-> CHOOSE flow \in values : flow.flow_id = i]
<1>1. /\ n \in Nat
      /\ \A key \in Key : flows[key] # Absent => flows[key].flow_id \in 1..n
      /\ \A j, k \in Key : /\ flows[j] # Absent /\ flows[k] # Absent
                           /\ flows[j].flow_id = flows[k].flow_id
                           => j = k
      /\ \A id \in 1..n : \E key \in Key : flows[key] # Absent /\ flows[key].flow_id = id
  BY DEF TypeOK, IdsInv
<1>. HIDE DEF n
<1>2. /\ \A flow \in values : \E k \in Key : flow = flows[k] /\ flows[k] # Absent
      /\ \A k \in Key : flows[k] # Absent => flows[k] \in values
  OBVIOUS
<1>3. ids = 1..n
  <2>1. ASSUME NEW id \in ids
        PROVE  id \in 1..n
    <3>1. PICK flow \in values : id = flow.flow_id
      OBVIOUS
    <3>2. PICK k \in Key : flow = flows[k] /\ flows[k] # Absent
      BY <1>2
    <3>. QED
      BY <1>1, <3>1, <3>2
  <2>2. ASSUME NEW id \in 1..n
        PROVE  id \in ids
    <3>1. PICK k \in Key : flows[k] # Absent /\ flows[k].flow_id = id
      BY <1>1
    <3>2. flows[k] \in values
      BY <1>2, <3>1
    <3>. HIDE DEF values
    <3>. QED
      BY <3>1, <3>2
  <2>. HIDE DEF ids
  <2>. QED
    BY <2>1, <2>2
<1>4. SortedFlows = s
  <2>1. SortedFlows = [i \in DOMAIN Ascending(ids) |->
                         CHOOSE flow \in values : flow.flow_id = Ascending(ids)[i]]
    BY DEF SortedFlows
  <2>2. Ascending(ids) = [i \in 1..n |-> i]
    BY <1>1, <1>3, AscendingInterval, Zenon
  <2>. HIDE DEF ids, values
  <2>3. DOMAIN Ascending(ids) = 1..n /\ \A i \in 1..n : Ascending(ids)[i] = i
    BY <2>2
  <2>. QED
    BY <2>1, <2>3
<1>5. ASSUME NEW k \in Key, flows[k] # Absent
      PROVE  s[flows[k].flow_id] = flows[k]
  <2>. DEFINE P(flow) == flow.flow_id = flows[k].flow_id
              c == CHOOSE flow \in values : P(flow)
  <2>1. flows[k] \in values /\ P(flows[k]) /\ flows[k].flow_id \in 1..n
    BY <1>1, <1>2, <1>5
  <2>2. c \in values /\ P(c)
    <3>. HIDE DEF values, P
    <3>. QED
      BY <2>1
  <2>3. PICK j \in Key : c = flows[j] /\ flows[j] # Absent
    <3>. HIDE DEF c
    <3>. QED
      BY <1>2, <2>2
  <2>4. s[flows[k].flow_id] = c
    <3>. HIDE DEF values
    <3>. QED
      BY <2>1
  <2>. HIDE DEF c
  <2>5. flows[j].flow_id = flows[k].flow_id
    BY <2>2, <2>3
  <2>6. j = k
    BY <1>1, <1>5, <2>3, <2>5
  <2>. QED
    BY <2>3, <2>4, <2>6
<1>6. s = [i \in 1..n |-> s[i]]
  OBVIOUS
<1>. HIDE DEF s
<1>7. IsSequence(s) /\ Len(s) = n /\ DOMAIN s = 1..n
  BY <1>1, <1>6, SequenceByValue
<1>8. ASSUME NEW i \in 1..n
      PROVE  \E key \in Key : flows[key] # Absent /\ flows[key].flow_id = i /\ s[i] = flows[key]
  <2>1. PICK k \in Key : flows[k] # Absent /\ flows[k].flow_id = i
    BY <1>1
  <2>. QED
    BY <1>5, <2>1
<1>9. InOrder(s, n)
  BY <1>1, <1>5, <1>7, <1>8 DEF InOrder
<1>. QED
  BY <1>4, <1>9 DEF n
-----------------------------------------------------------------------------
(* Numbers as cells, and back. *)
LEMMA NumberCells ==
  ASSUME NEW s, IsSequence(s)
  PROVE  /\ IsSequence(Numbers(s)) /\ Len(Numbers(s)) = Len(s) /\ Unnumbered(Numbers(s)) = s
         /\ \A i \in 1..Len(s) : Numbers(s)[i] = [is |-> "num", n |-> s[i]]
<1>. DEFINE m == Len(s)
            t == Numbers(s)
            u == Unnumbered(t)
<1>1. m \in Nat /\ DOMAIN s = 1..m /\ s = [i \in 1..m |-> s[i]]
  BY SequenceOfItsElements DEF IsSequence
<1>. HIDE DEF m
<1>2. t = [i \in 1..m |-> t[i]] /\ \A i \in 1..m : t[i] = [is |-> "num", n |-> s[i]]
  BY <1>1 DEF Numbers
<1>. HIDE DEF t
<1>3. IsSequence(t) /\ Len(t) = m /\ DOMAIN t = 1..m
  BY <1>1, <1>2, SequenceByValue
<1>4. u = [i \in 1..m |-> t[i].n]
  BY <1>3 DEF Unnumbered
<1>5. \A i \in 1..m : t[i].n = s[i]
  BY <1>2
<1>6. u = s
  BY <1>1, <1>4, <1>5
<1>. QED
  BY <1>2, <1>3, <1>6 DEF t, m

(* Where a list is among numbers, its cells are among theirs. *)
LEMMA NumbersAt ==
  ASSUME NEW s, IsSequence(s), NEW t, IsSequence(t), NEW pos, HasAt(s, pos, t)
  PROVE  HasAt(Numbers(s), pos, Numbers(t))
<1>1. /\ Len(s) \in Nat /\ Len(t) \in Nat /\ pos \in Nat /\ pos + Len(t) <= Len(s)
      /\ \A i \in 1..Len(t) : s[pos + i] = t[i]
  BY DEF IsSequence, HasAt
<1>2. /\ Len(Numbers(s)) = Len(s) /\ Len(Numbers(t)) = Len(t)
      /\ \A i \in 1..Len(s) : Numbers(s)[i] = [is |-> "num", n |-> s[i]]
      /\ \A i \in 1..Len(t) : Numbers(t)[i] = [is |-> "num", n |-> t[i]]
  BY NumberCells
<1>3. ASSUME NEW i \in 1..Len(t)
      PROVE  Numbers(s)[pos + i] = Numbers(t)[i]
  <2>1. pos + i \in 1..Len(s)
    BY <1>1
  <2>. QED
    BY <1>1, <1>2, <2>1
<1>. QED
  BY <1>1, <1>2, <1>3 DEF HasAt

-----------------------------------------------------------------------------
(* What a function makes of finitely many is finitely many. *)
LEMMA ImageIsFinite ==
  ASSUME NEW S, IsFiniteSet(S), NEW f, f = [x \in S |-> f[x]]
  PROVE  IsFiniteSet({f[x] : x \in S}) /\ Cardinality({f[x] : x \in S}) <= Cardinality(S)
<1>. DEFINE T == {f[x] : x \in S}
<1>1. f \in Surjection(S, T)
  <2>1. f \in [S -> T]
    OBVIOUS
  <2>2. \A t \in T : \E x \in S : f[x] = t
    OBVIOUS
  <2>. QED
    BY <2>1, <2>2 DEF Surjection
<1>. QED
  BY <1>1, FS_Surjection

KeysIn(pairs) == {p[1] : p \in pairs}
IdsIn(pairs, key) == {p[2] : p \in {q \in pairs : q[1] = key}}

(* The ids of a key are those of its pairs, in order. *)
LEMMA IdsAreListed ==
  ASSUME NEW pairs, IsFiniteSet(pairs), pairs \subseteq Nat \X Nat, NEW key
  PROVE  Lists(IdsOf(pairs, key), IdsIn(pairs, key)) /\ IdsOf(pairs, key) \in Seq(Nat)
<1>. DEFINE S == {q \in pairs : q[1] = key}
            f == [p \in S |-> p[2]]
            T == IdsIn(pairs, key)
<1>1. IsFiniteSet(S)
  <2>1. S \in SUBSET pairs
    OBVIOUS
  <2>. QED
    BY <2>1, FS_Subset
<1>2. IsFiniteSet({f[p] : p \in S})
  <2>1. f = [p \in S |-> f[p]]
    OBVIOUS
  <2>. HIDE DEF f, S
  <2>. QED
    BY <1>1, <2>1, ImageIsFinite
<1>3. {f[p] : p \in S} = T
  BY DEF IdsIn
<1>4. IsFiniteSet(T)
  BY <1>2, <1>3, Zenon
<1>5. T \subseteq Nat
  <2>1. \A q \in pairs : q[2] \in Nat
    OBVIOUS
  <2>. QED
    BY <2>1 DEF IdsIn
<1>6. IdsOf(pairs, key) = Ascending(T)
  BY DEF IdsOf, IdsIn
<1>. HIDE DEF T
<1>7. T \subseteq Int
  BY <1>5
<1>8. Lists(Ascending(T), T)
  BY <1>4, <1>7, AscendingLists
<1>9. Ascending(T) \in Seq(Nat)
  <2>. DEFINE t == Ascending(T)
  <2>1. t \in Seq(T)
    BY <1>8 DEF Lists
  <2>. HIDE DEF t
  <2>2. t \in [1..Len(t) -> T] /\ Len(t) \in Nat
    BY <2>1, LenProperties
  <2>3. t \in [1..Len(t) -> Nat]
    BY <1>5, <2>2
  <2>4. t \in Seq(Nat)
    BY <2>2, <2>3, SeqDef
  <2>. QED
    BY <2>4 DEF t
<1>. QED
  BY <1>6, <1>8, <1>9 DEF T

(* And the keys. *)
LEMMA KeysAreListed ==
  ASSUME NEW pairs, IsFiniteSet(pairs), pairs \subseteq Nat \X Nat
  PROVE  /\ Lists(Ascending(KeysIn(pairs)), KeysIn(pairs)) /\ KeysIn(pairs) \subseteq Nat
         /\ Len(Ascending(KeysIn(pairs))) <= Cardinality(pairs)
<1>. DEFINE f == [p \in pairs |-> p[1]]
            T == KeysIn(pairs)
<1>1. IsFiniteSet({f[p] : p \in pairs}) /\ Cardinality({f[p] : p \in pairs}) <= Cardinality(pairs)
  <2>1. f = [p \in pairs |-> f[p]]
    OBVIOUS
  <2>. HIDE DEF f
  <2>. QED
    BY <2>1, ImageIsFinite
<1>2. {f[p] : p \in pairs} = T
  BY DEF KeysIn
<1>3. IsFiniteSet(T) /\ Cardinality(T) <= Cardinality(pairs)
  BY <1>1, <1>2, Zenon
<1>4. T \subseteq Nat
  <2>1. \A q \in pairs : q[1] \in Nat
    OBVIOUS
  <2>. QED
    BY <2>1 DEF KeysIn
<1>. HIDE DEF T
<1>5. T \subseteq Int
  BY <1>4
<1>6. Lists(Ascending(T), T) /\ Len(Ascending(T)) = Cardinality(T)
  BY <1>3, <1>5, AscendingLists
<1>. QED
  BY <1>3, <1>4, <1>6 DEF T

(* In a region, e tells where the part of a key ends, and so where that of *)
(* the next one starts: the key, how many ids it has, and the ids.         *)
PartAt(region, pos, next, key, ids) ==
  /\ next = pos + 2 + Len(ids) /\ next <= Len(region) + 1
  /\ region[pos] = key /\ region[pos + 1] = Len(ids)
  /\ SubSeq(region, pos + 2, next - 1) = ids

Laid(region, keys, pairs, e) ==
  /\ IsSequence(region) /\ Len(region) # 0
  /\ region[1] \in Nat /\ Len(keys) <= region[1]
  /\ e \in [0..Len(keys) -> Nat] /\ e[0] = 2 /\ e[Len(keys)] = Len(region) + 1
  /\ \A i \in 1..Len(keys) : PartAt(region, e[i - 1], e[i], keys[i], IdsOf(pairs, keys[i]))

LEMMA PartIsAt ==
  ASSUME NEW region, IsSequence(region), NEW pos \in Nat, NEW key, NEW ids \in Seq(Nat),
         HasAt(region, pos, <<key, Len(ids)>> \o ids), key \in Nat
  PROVE  PartAt(region, pos + 1, pos + 1 + 2 + Len(ids), key, ids)
<1>. DEFINE n == Len(ids)
            head == <<key, n>>
<1>1. n \in Nat /\ IsSequence(ids)
  BY LenProperties, SeqIsSequence
<1>. HIDE DEF n
<1>2. head \in Seq(Nat) /\ Len(head) = 2 /\ head[1] = key /\ head[2] = n
  BY <1>1
<1>. HIDE DEF head
<1>3. IsSequence(head)
  BY <1>2, SeqIsSequence
<1>4. /\ IsSequence(head \o ids) /\ Len(head \o ids) = 2 + n
      /\ \A i \in 1..2 : (head \o ids)[i] = head[i]
      /\ \A i \in 1..n : (head \o ids)[2 + i] = ids[i]
  <2>. DEFINE cells == head \o ids
  <2>1. /\ IsSequence(cells) /\ Len(cells) = Len(head) + Len(ids)
        /\ \A i \in 1..Len(head) : cells[i] = head[i]
        /\ \A i \in 1..Len(ids) : cells[Len(head) + i] = ids[i]
    BY <1>1, <1>3, SequenceConcat
  <2>2. Len(head) = 2 /\ Len(ids) = n
    BY <1>2 DEF n
  <2>. HIDE DEF cells
  <2>3. /\ IsSequence(cells) /\ Len(cells) = 2 + n
        /\ \A i \in 1..2 : cells[i] = head[i]
        /\ \A i \in 1..n : cells[2 + i] = ids[i]
    BY <2>1, <2>2
  <2>. QED
    BY <2>3 DEF cells
<1>5. HasAt(region, pos, head \o ids)
  BY DEF head, n
<1>. DEFINE cells == head \o ids
<1>. HIDE DEF cells
<1>6. /\ pos + (2 + n) <= Len(region) /\ Len(region) \in Nat
      /\ \A i \in 1..2 + n : region[pos + i] = cells[i]
  BY <1>4, <1>5 DEF HasAt, IsSequence, cells
<1>7. region[pos + 1] = key /\ region[pos + 2] = n
  <2>1. 1 \in 1..2 + n /\ 2 \in 1..2 + n /\ 1 \in 1..2 /\ 2 \in 1..2
    BY <1>1
  <2>. QED
    BY <1>2, <1>4, <1>6, <2>1 DEF cells
<1>8. HasAt(region, pos + 2, ids)
  <2>1. ASSUME NEW i \in 1..n
        PROVE  region[(pos + 2) + i] = ids[i]
    <3>1. 2 + i \in 1..2 + n /\ pos + (2 + i) = (pos + 2) + i
      BY <1>1
    <3>2. region[pos + (2 + i)] = cells[2 + i]
      BY <1>6, <3>1
    <3>3. cells[2 + i] = ids[i]
      BY <1>4 DEF cells
    <3>. QED
      BY <3>1, <3>2, <3>3
  <2>2. pos + 2 \in Nat /\ (pos + 2) + n <= Len(region)
    BY <1>1, <1>6
  <2>. QED
    BY <2>1, <2>2 DEF HasAt, n
<1>9. SubSeq(region, (pos + 2) + 1, (pos + 2) + n) = ids
  BY <1>1, <1>8, SliceOfWhatItHas DEF n
<1>10. (pos + 2) + 1 = (pos + 1) + 2 /\ (pos + 2) + n = (pos + 1 + 2 + n) - 1
       /\ pos + 1 + 1 = pos + 2 /\ pos + 1 + 2 + n = (pos + 1) + 2 + n
       /\ pos + 1 + 2 + n <= Len(region) + 1
  BY <1>1, <1>6
<1>11. SubSeq(region, (pos + 1) + 2, (pos + 1 + 2 + n) - 1) = ids
  BY <1>9, <1>10
<1>. QED
  BY <1>7, <1>10, <1>11 DEF PartAt, n

LEMMA IndexLaid ==
  ASSUME NEW pairs, IsFiniteSet(pairs), pairs \subseteq Nat \X Nat
  PROVE  /\ EncodeIndex(pairs) \in Seq(Nat)
         /\ \E e : Laid(EncodeIndex(pairs), Ascending(KeysIn(pairs)), pairs, e)
<1>. DEFINE keys == Ascending(KeysIn(pairs))
            m == Len(keys)
            c == Cardinality(pairs)
            Part(i) == <<keys[i], Len(IdsOf(pairs, keys[i]))>> \o IdsOf(pairs, keys[i])
            parts == [i \in 1..m |-> Part(i)]
            flat == FlattenSeq(parts)
            region == <<c>> \o flat
            e == [i \in 0..m |-> 2 + Len(FlattenSeq([j \in 1..i |-> parts[j]]))]
<1>1. /\ Lists(keys, KeysIn(pairs)) /\ KeysIn(pairs) \subseteq Nat /\ m <= c /\ c \in Nat
  BY KeysAreListed, FS_CardinalityType
<1>2. m \in Nat /\ DOMAIN keys = 1..m /\ \A i \in 1..m : keys[i] \in Nat
  BY <1>1, LenProperties, ElementOfSeq DEF Lists
<1>3. EncodeIndex(pairs) = region
  <2>1. EncodeIndex(pairs) = <<c>> \o FlattenSeq([i \in DOMAIN keys |-> Part(i)])
    BY DEF EncodeIndex, KeysIn
  <2>. HIDE DEF keys, Part, c
  <2>. QED
    BY <1>2, <2>1
<1>. HIDE DEF keys, m, c
<1>4. ASSUME NEW i \in 1..m
      PROVE  /\ IdsOf(pairs, keys[i]) \in Seq(Nat)
             /\ Part(i) \in Seq(Nat) /\ Len(Part(i)) = 2 + Len(IdsOf(pairs, keys[i]))
             /\ parts[i] = Part(i)
  <2>1. PICK ids : ids = IdsOf(pairs, keys[i])
    OBVIOUS
  <2>2. ids \in Seq(Nat)
    BY <2>1, IdsAreListed
  <2>3. keys[i] \in Nat /\ Len(ids) \in Nat
    BY <1>2, <2>2, LenProperties
  <2>. DEFINE head == <<keys[i], Len(ids)>>
  <2>4. head \in Seq(Nat) /\ Len(head) = 2
    BY <2>3
  <2>. HIDE DEF head
  <2>5. head \o ids \in Seq(Nat) /\ Len(head \o ids) = 2 + Len(ids)
    <3>1. head \o ids \in Seq(Nat) /\ Len(head \o ids) = Len(head) + Len(ids)
      BY <2>2, <2>4, ConcatProperties
    <3>. QED
      BY <2>4, <3>1
  <2>6. Part(i) = head \o ids
    BY <2>1 DEF head
  <2>. HIDE DEF Part
  <2>. QED
    BY <2>1, <2>2, <2>5, <2>6
<1>5. parts = [i \in 1..m |-> parts[i]] /\ \A i \in 1..m : parts[i] \in Seq(Nat)
  <2>1. parts = [i \in 1..m |-> parts[i]]
    OBVIOUS
  <2>2. ASSUME NEW i \in 1..m
        PROVE  parts[i] \in Seq(Nat)
    <3>. HIDE DEF parts, Part
    <3>. QED
      BY <1>4
  <2>. QED
    BY <2>1, <2>2
<1>. HIDE DEF parts, Part
<1>6. flat \in Seq(Nat) /\ IsSequence(flat) /\ Len(flat) \in Nat
  BY <1>2, <1>5, FlattenType, SeqIsSequence, LenProperties
<1>7. PICK f \in [0..m -> Seq(Nat)] : Flattens(parts, m, f)
  BY <1>2, <1>5, FlattenByParts
<1>8. /\ f[0] = <<>> /\ \A i \in 0..m : f[i] = FlattenSeq([j \in 1..i |-> parts[j]])
      /\ \A i \in 0..m - 1 : f[i + 1] = f[i] \o parts[i + 1]
      /\ \A i \in 0..m : Len(f[i]) \in Nat
  BY <1>7, LenProperties DEF Flattens
<1>9. /\ e \in [0..m -> Nat] /\ \A i \in 0..m : e[i] = 2 + Len(f[i])
  <2>1. /\ e = [i \in 0..m |-> e[i]]
        /\ \A i \in 0..m : e[i] = 2 + Len(FlattenSeq([j \in 1..i |-> parts[j]]))
    OBVIOUS
  <2>. HIDE DEF e
  <2>2. \A i \in 0..m : e[i] = 2 + Len(f[i])
    BY <1>8, <2>1
  <2>3. \A i \in 0..m : e[i] \in Nat
    BY <1>8, <2>2
  <2>. QED
    BY <2>1, <2>2, <2>3
<1>10. e[0] = 2 /\ e[m] = 2 + Len(flat)
  <2>1. 0 \in 0..m /\ m \in 0..m /\ Len(<<>>) = 0
    BY <1>2
  <2>2. f[m] = flat
    BY <1>2, <1>5, <1>8, <2>1
  <2>. HIDE DEF e
  <2>. QED
    BY <1>8, <1>9, <2>1, <2>2
<1>. HIDE DEF e, flat
<1>11. /\ IsSequence(region) /\ region \in Seq(Nat) /\ Len(region) = 1 + Len(flat)
       /\ region[1] = c /\ HasAt(region, 1, flat)
  <2>1. <<c>> \in Seq(Nat) /\ Len(<<c>>) = 1 /\ <<c>>[1] = c
    BY <1>1
  <2>. DEFINE head == <<c>>
  <2>. HIDE DEF head
  <2>2. IsSequence(head) /\ Len(head) = 1 /\ head[1] = c /\ head \in Seq(Nat)
    BY <2>1, SeqIsSequence DEF head
  <2>3. /\ IsSequence(head \o flat) /\ Len(head \o flat) = 1 + Len(flat)
        /\ (head \o flat)[1] = head[1]
    <3>. DEFINE cells == head \o flat
    <3>1. /\ IsSequence(cells) /\ Len(cells) = Len(head) + Len(flat)
          /\ \A i \in 1..Len(head) : cells[i] = head[i]
      BY <1>6, <2>2, SequenceConcat
    <3>. HIDE DEF cells
    <3>2. 1 \in 1..Len(head)
      BY <2>2
    <3>3. IsSequence(cells) /\ Len(cells) = 1 + Len(flat) /\ cells[1] = head[1]
      BY <2>2, <3>1, <3>2
    <3>. QED
      BY <3>3 DEF cells
  <2>5. HasAt(head \o flat, 1, flat)
    <3>1. HasAt(head \o flat, Len(head), flat)
      BY <1>6, <2>2, HasWhatIsAppended
    <3>. QED
      BY <2>2, <3>1
  <2>6. head \o flat \in Seq(Nat)
    BY <1>6, <2>2, ConcatProperties
  <2>. QED
    BY <2>2, <2>3, <2>5, <2>6 DEF head
<1>. HIDE DEF region
<1>12. ASSUME NEW i \in 1..m
       PROVE  PartAt(region, e[i - 1], e[i], keys[i], IdsOf(pairs, keys[i]))
  <2>1. i - 1 \in 0..m /\ i \in 0..m /\ i - 1 \in 0..m - 1 /\ (i - 1) + 1 = i
    BY <1>2
  <2>2. PICK ids : ids = IdsOf(pairs, keys[i])
    OBVIOUS
  <2>3. /\ ids \in Seq(Nat) /\ keys[i] \in Nat /\ Len(ids) \in Nat
        /\ parts[i] = <<keys[i], Len(ids)>> \o ids /\ parts[i] \in Seq(Nat)
        /\ Len(parts[i]) = 2 + Len(ids)
    BY <1>2, <1>4, <2>2, LenProperties DEF Part
  <2>4. HasAt(flat, Len(f[i - 1]), parts[i])
    <3>1. HasAt(FlattenSeq(parts), Len(FlattenSeq([j \in 1..i - 1 |-> parts[j]])), parts[i])
      BY <1>2, <1>5, FlattenHasParts
    <3>. QED
      BY <1>8, <2>1, <3>1 DEF flat
  <2>5. IsSequence(parts[i])
    BY <2>3, SeqIsSequence
  <2>6. HasAt(region, 1 + Len(f[i - 1]), parts[i])
    BY <1>6, <1>11, <2>4, <2>5, HasAtWithin
  <2>7. Len(f[i - 1]) \in Nat /\ f[i] = f[i - 1] \o parts[i]
    BY <1>8, <2>1
  <2>8. Len(f[i]) = Len(f[i - 1]) + Len(parts[i])
    <3>1. f[i - 1] \in Seq(Nat)
      BY <1>7, <2>1
    <3>. QED
      BY <2>3, <2>7, <3>1, ConcatProperties
  <2>9. PICK pos \in Nat : pos = 1 + Len(f[i - 1])
    BY <2>7
  <2>10. e[i - 1] = pos + 1 /\ e[i] = pos + 1 + 2 + Len(ids)
    <3>1. e[i - 1] = 2 + Len(f[i - 1]) /\ e[i] = 2 + Len(f[i])
      BY <1>9, <2>1
    <3>2. Len(f[i - 1]) \in Nat
      BY <2>7
    <3>3. Len(f[i]) = Len(f[i - 1]) + (2 + Len(ids)) /\ Len(ids) \in Nat
      BY <2>3, <2>8
    <3>4. PICK a \in Nat, b \in Nat : a = Len(f[i - 1]) /\ b = Len(ids)
      BY <3>2, <3>3
    <3>5. e[i - 1] = 2 + a /\ e[i] = 2 + (a + (2 + b)) /\ pos = 1 + a
      BY <2>9, <3>1, <3>3, <3>4, Zenon
    <3>6. 2 + a = pos + 1 /\ 2 + (a + (2 + b)) = pos + 1 + 2 + b
      BY <3>5
    <3>. QED
      BY <3>4, <3>5, <3>6, Zenon
  <2>11. PartAt(region, pos + 1, pos + 1 + 2 + Len(ids), keys[i], ids)
    BY <1>11, <2>3, <2>6, <2>9, PartIsAt
  <2>. QED
    BY <2>2, <2>10, <2>11
<1>13. Laid(region, keys, pairs, e)
  <2>1. Len(region) # 0 /\ region[1] \in Nat /\ m <= region[1]
    BY <1>1, <1>6, <1>11
  <2>2. e[m] = Len(region) + 1
    BY <1>6, <1>10, <1>11
  <2>. QED
    BY <1>9, <1>10, <1>11, <1>12, <2>1, <2>2 DEF Laid, m
<1>. QED
  BY <1>3, <1>11, <1>13 DEF keys

(* From the place of a key the scan goes to the place of the next one, and *)
(* behind the last one it stays.                                           *)
LEMMA NextPart ==
  ASSUME NEW region, IsSequence(region), NEW pos \in Nat, NEW next, NEW key, NEW ids \in Seq(Nat),
         PartAt(region, pos, next, key, ids)
  PROVE  HoldsIds(region, pos) /\ IdsEnd(region, pos) = next /\ NextKey(region, pos) = next
<1>1. Len(ids) \in Nat /\ Len(region) \in Nat
  BY LenProperties DEF IsSequence
<1>2. /\ next = pos + 2 + Len(ids) /\ next <= Len(region) + 1 /\ region[pos + 1] = Len(ids)
  BY DEF PartAt
<1>3. PICK n \in Nat, r \in Nat : n = Len(ids) /\ r = Len(region)
  BY <1>1
<1>4. IdsEnd(region, pos) = next
  BY <1>2 DEF IdsEnd
<1>5. next <= r + 1 /\ next = pos + 2 + n
  BY <1>2, <1>3
<1>6. pos + 1 <= r
  BY <1>5
<1>7. HoldsIds(region, pos)
  BY <1>3, <1>4, <1>5, <1>6 DEF HoldsIds
<1>. QED
  BY <1>4, <1>7 DEF NextKey

LEMMA NoNextPart ==
  ASSUME NEW region, IsSequence(region), NEW pos, pos = Len(region) + 1
  PROVE  ~HoldsIds(region, pos) /\ NextKey(region, pos) = pos
<1>1. ~(pos + 1 <= Len(region))
  BY DEF IsSequence
<1>. QED
  BY <1>1 DEF HoldsIds, NextKey

(* So the scan comes by every key.                                         *)
Scans(region, at) ==
  at = [i \in 0..region[1] |-> IF i = 0 THEN 2 ELSE NextKey(region, at[i - 1])]

LEMMA ScanComesBy ==
  ASSUME NEW pairs, IsFiniteSet(pairs), pairs \subseteq Nat \X Nat,
         NEW region, NEW keys, NEW e, Laid(region, keys, pairs, e), Len(keys) \in Nat
  PROVE  /\ \E at : Scans(region, at)
         /\ \A at : Scans(region, at) =>
              \A i \in 0..region[1] : at[i] = IF i <= Len(keys) THEN e[i] ELSE e[Len(keys)]
<1>. DEFINE m == Len(keys)
            c == region[1]
            g == [i \in 0..c |-> IF i <= m THEN e[i] ELSE e[m]]
<1>1. /\ IsSequence(region) /\ c \in Nat /\ m \in Nat /\ m <= c
      /\ e \in [0..m -> Nat] /\ e[0] = 2 /\ e[m] = Len(region) + 1
      /\ \A i \in 1..m : PartAt(region, e[i - 1], e[i], keys[i], IdsOf(pairs, keys[i]))
  BY DEF Laid
<1>. HIDE DEF m, c
<1>2. ASSUME NEW i \in 1..m
      PROVE  NextKey(region, e[i - 1]) = e[i]
  <2>1. i - 1 \in 0..m /\ IdsOf(pairs, keys[i]) \in Seq(Nat)
    <3>1. i - 1 \in 0..m
      BY <1>1
    <3>2. \A k : IdsOf(pairs, k) \in Seq(Nat)
      BY IdsAreListed
    <3>. QED
      BY <3>1, <3>2
  <2>2. PICK pos \in Nat : pos = e[i - 1]
    BY <1>1, <2>1
  <2>. QED
    BY <1>1, <2>1, <2>2, NextPart
<1>3. NextKey(region, e[m]) = e[m]
  BY <1>1, NoNextPart
<1>4. \A i \in 0..c : g[i] = IF i <= m THEN e[i] ELSE e[m]
  OBVIOUS
<1>5. g = [i \in 0..c |-> g[i]]
  OBVIOUS
<1>. HIDE DEF g
<1>6. ASSUME NEW i \in 0..c
      PROVE  g[i] = IF i = 0 THEN 2 ELSE NextKey(region, g[i - 1])
  <2>1. CASE i = 0
    BY <1>1, <1>4, <2>1
  <2>2. CASE i # 0 /\ i <= m
    <3>1. i \in 1..m /\ i - 1 \in 0..c /\ i - 1 <= m
      BY <1>1, <2>2
    <3>2. g[i] = e[i] /\ g[i - 1] = e[i - 1]
      BY <1>4, <2>2, <3>1
    <3>. QED
      BY <1>2, <2>2, <3>1, <3>2
  <2>3. CASE ~(i <= m)
    <3>1. i # 0 /\ i - 1 \in 0..c /\ (i - 1 <= m => i - 1 = m)
      BY <1>1, <2>3
    <3>2. g[i] = e[m] /\ g[i - 1] = e[m]
      BY <1>4, <2>3, <3>1
    <3>. QED
      BY <1>3, <3>1, <3>2
  <2>. QED
    BY <2>1, <2>2, <2>3
<1>7. Scans(region, g)
  BY <1>5, <1>6 DEF Scans, c
<1>8. ASSUME NEW at, Scans(region, at)
      PROVE  \A i \in 0..c : at[i] = g[i]
  <2>. DEFINE S == {i \in 0..c : at[i] = g[i]}
  <2>1. \A i \in 0..c : at[i] = IF i = 0 THEN 2 ELSE NextKey(region, at[i - 1])
    BY <1>8 DEF Scans, c
  <2>2. 0 \in S
    BY <1>1, <1>6, <2>1
  <2>3. ASSUME NEW i \in 0..c - 1, i \in S
        PROVE  i + 1 \in S
    <3>1. i + 1 \in 0..c /\ i + 1 # 0 /\ (i + 1) - 1 = i
      BY <1>1
    <3>2. at[i] = g[i]
      BY <2>3
    <3>3. at[i + 1] = NextKey(region, at[i]) /\ g[i + 1] = NextKey(region, g[i])
      <4>1. at[i + 1] = NextKey(region, at[(i + 1) - 1])
        BY <2>1, <3>1
      <4>2. g[i + 1] = NextKey(region, g[(i + 1) - 1])
        BY <1>6, <3>1
      <4>. QED
        BY <3>1, <4>1, <4>2
    <3>. QED
      BY <3>1, <3>2, <3>3
  <2>. HIDE DEF S
  <2>4. \A i \in 0..c : i \in S
    BY <1>1, <2>2, <2>3, CountInduction
  <2>. QED
    BY <2>4 DEF S
<1>9. ASSUME NEW at, Scans(region, at), NEW i \in 0..c
      PROVE  at[i] = IF i <= m THEN e[i] ELSE e[m]
  BY <1>4, <1>8, <1>9
<1>. QED
  BY <1>7, <1>9 DEF c, m

(* And finds the ids of the key looked for. *)
LEMMA ScanFinds ==
  ASSUME NEW pairs, IsFiniteSet(pairs), pairs \subseteq Nat \X Nat,
         NEW region, NEW keys, NEW e, Laid(region, keys, pairs, e),
         Lists(keys, KeysIn(pairs)), NEW key
  PROVE  ScanIndex(region, key) = IF key \in KeysIn(pairs) THEN IdsOf(pairs, key) ELSE <<>>
<1>. DEFINE m == Len(keys)
            c == region[1]
            Follows(f) == f = [i \in 0..c |-> IF i = 0 THEN 2 ELSE NextKey(region, f[i - 1])]
            at == CHOOSE f : Follows(f)
            hits == {i \in 0..c - 1 : HoldsIds(region, at[i]) /\ region[at[i]] = key}
            pos == at[Min(hits)]
            found == SubSeq(region, pos + 2, IdsEnd(region, pos) - 1)
<1>1. /\ IsSequence(region) /\ Len(region) # 0 /\ c \in Nat /\ m <= c
      /\ e \in [0..m -> Nat] /\ e[m] = Len(region) + 1
      /\ \A i \in 1..m : PartAt(region, e[i - 1], e[i], keys[i], IdsOf(pairs, keys[i]))
  BY DEF Laid
<1>2. /\ m \in Nat /\ \A i \in 1..m : keys[i] \in KeysIn(pairs) /\ keys[i] \in Nat
      /\ \A k \in KeysIn(pairs) : \E i \in 1..m : keys[i] = k
      /\ \A i, j \in 1..m : i < j => keys[i] < keys[j]
  BY KeysAreListed, LenProperties, ElementOfSeq DEF Lists
<1>3. ScanIndex(region, key) = IF region = <<>> \/ hits = {} THEN <<>> ELSE found
  BY Zenon DEF ScanIndex
<1>4. region # <<>>
  BY <1>1, EmptySeq
<1>5. /\ \E f : Scans(region, f)
      /\ \A f : Scans(region, f) => \A i \in 0..c : f[i] = IF i <= m THEN e[i] ELSE e[m]
  BY <1>2, ScanComesBy
<1>6. Follows(at)
  <2>1. \E f : Follows(f)
    BY <1>5 DEF Scans
  <2>. HIDE DEF Follows
  <2>. QED
    BY <2>1
<1>7. \A i \in 0..c : at[i] = IF i <= m THEN e[i] ELSE e[m]
  <2>1. Scans(region, at)
    BY <1>6 DEF Scans
  <2>. HIDE DEF at
  <2>. QED
    BY <1>5, <2>1
<1>. HIDE DEF at, m, c
<1>8. ASSUME NEW i \in 0..c - 1, i < m
      PROVE  /\ i + 1 \in 1..m /\ HoldsIds(region, at[i]) /\ region[at[i]] = keys[i + 1]
             /\ SubSeq(region, at[i] + 2, IdsEnd(region, at[i]) - 1) = IdsOf(pairs, keys[i + 1])
  <2>1. i \in 0..c /\ i <= m /\ i + 1 \in 1..m /\ (i + 1) - 1 = i /\ i \in 0..m
    BY <1>1, <1>2, <1>8
  <2>2. PICK p \in Nat : p = at[i] /\ p = e[i]
    BY <1>1, <1>7, <2>1
  <2>3. PICK ids \in Seq(Nat) : ids = IdsOf(pairs, keys[i + 1])
    BY IdsAreListed
  <2>4. PartAt(region, p, e[i + 1], keys[i + 1], ids)
    <3>1. PartAt(region, e[(i + 1) - 1], e[i + 1], keys[i + 1], IdsOf(pairs, keys[i + 1]))
      BY <1>1, <2>1
    <3>. QED
      BY <2>1, <2>2, <2>3, <3>1
  <2>5. HoldsIds(region, p) /\ IdsEnd(region, p) = e[i + 1]
    BY <1>1, <2>4, NextPart
  <2>6. region[p] = keys[i + 1] /\ SubSeq(region, p + 2, e[i + 1] - 1) = ids
    BY <2>4 DEF PartAt
  <2>. QED
    BY <2>1, <2>2, <2>3, <2>5, <2>6
<1>9. ASSUME NEW i \in 0..c - 1, ~(i < m)
      PROVE  ~HoldsIds(region, at[i])
  <2>1. i \in 0..c /\ (i <= m => i = m)
    BY <1>1, <1>2, <1>9
  <2>2. at[i] = Len(region) + 1
    BY <1>1, <1>7, <2>1
  <2>. QED
    BY <1>1, <2>2, NoNextPart
<1>10. ASSUME key \notin KeysIn(pairs)
       PROVE  hits = {}
  BY <1>2, <1>8, <1>9, <1>10
<1>11. ASSUME NEW k \in 1..m, keys[k] = key
       PROVE  hits = {k - 1} /\ found = IdsOf(pairs, key)
  <2>1. k - 1 \in 0..c - 1 /\ k - 1 < m /\ (k - 1) + 1 = k
    BY <1>1, <1>2
  <2>2. k - 1 \in hits
    BY <1>8, <1>11, <2>1
  <2>3. ASSUME NEW i \in hits
        PROVE  i = k - 1
    <3>1. i \in 0..c - 1 /\ HoldsIds(region, at[i]) /\ region[at[i]] = key
      OBVIOUS
    <3>2. i < m
      BY <1>9, <3>1
    <3>3. i + 1 \in 1..m /\ keys[i + 1] = key
      BY <1>8, <3>1, <3>2
    <3>4. ~(i + 1 < k) /\ ~(k < i + 1)
      BY <1>2, <1>11, <3>3
    <3>. QED
      BY <3>1, <3>3, <3>4
  <2>. HIDE DEF hits
  <2>4. hits = {k - 1}
    BY <2>2, <2>3
  <2>5. Min(hits) = k - 1
    <3>1. k - 1 \in Int
      BY <2>1
    <3>2. PICK h : h = k - 1
      OBVIOUS
    <3>3. Min({h}) = h
      BY <3>1, <3>2 DEF Min
    <3>. QED
      BY <2>4, <3>2, <3>3
  <2>6. found = IdsOf(pairs, keys[k])
    <3>1. pos = at[k - 1]
      BY <2>5
    <3>2. SubSeq(region, at[k - 1] + 2, IdsEnd(region, at[k - 1]) - 1) = IdsOf(pairs, keys[(k - 1) + 1])
      BY <1>8, <2>1
    <3>. HIDE DEF pos
    <3>. QED
      BY <2>1, <3>1, <3>2
  <2>. QED
    BY <1>11, <2>4, <2>6
<1>. HIDE DEF found
<1>12. CASE key \notin KeysIn(pairs)
  BY <1>3, <1>10, <1>12
<1>13. CASE key \in KeysIn(pairs)
  <2>1. PICK k \in 1..m : keys[k] = key
    BY <1>2, <1>13
  <2>2. hits # {} /\ found = IdsOf(pairs, key)
    BY <1>11, <2>1
  <2>. QED
    BY <1>3, <1>4, <1>13, <2>2
<1>. QED
  BY <1>12, <1>13

(* So a coded index answers with the ids of the key. *)
LEMMA IndexAnswers ==
  ASSUME NEW pairs, IsFiniteSet(pairs), pairs \subseteq Nat \X Nat, NEW key
  PROVE  ScanIndex(EncodeIndex(pairs), key) = Ascending(IdsIn(pairs, key))
<1>. DEFINE keys == Ascending(KeysIn(pairs))
<1>1. PICK region, e : region = EncodeIndex(pairs) /\ Laid(region, keys, pairs, e)
  BY IndexLaid
<1>2. Lists(keys, KeysIn(pairs))
  BY KeysAreListed
<1>. HIDE DEF keys
<1>3. ScanIndex(region, key) = IF key \in KeysIn(pairs) THEN IdsOf(pairs, key) ELSE <<>>
  BY <1>1, <1>2, ScanFinds
<1>4. IdsOf(pairs, key) = Ascending(IdsIn(pairs, key))
  BY DEF IdsOf, IdsIn
<1>5. key \notin KeysIn(pairs) => Ascending(IdsIn(pairs, key)) = <<>>
  <2>1. ASSUME key \notin KeysIn(pairs)
        PROVE  IdsIn(pairs, key) = {}
    BY <2>1 DEF IdsIn, KeysIn
  <2>2. Lists(<<>>, {})
    BY EmptySeq DEF Lists
  <2>3. Ascending({}) = <<>>
    BY <2>2, ListedOnce
  <2>. QED
    BY <2>1, <2>3
<1>. QED
  BY <1>1, <1>3, <1>4, <1>5
-----------------------------------------------------------------------------
(* A flow table: the id of the i-th entry is i, and its fields are numbers. *)
FieldsAreNumbers(e) ==
  /\ e.flow_id \in Nat /\ e.src_ip \in Nat /\ e.dst_ip \in Nat
  /\ e.src_port \in Nat /\ e.dst_port \in Nat /\ e.protocol \in Nat

IsTable(entries) ==
  /\ IsSequence(entries)
  /\ \A i \in 1..Len(entries) : entries[i].flow_id = i /\ FieldsAreNumbers(entries[i])

(* The scan of a flow table gives the ids of its hits in order. *)
LEMMA ScannedIds ==
  ASSUME NEW entries, IsTable(entries), NEW hits, hits \subseteq DOMAIN entries
  PROVE  IdsWhere(entries, hits) = Ascending(hits)
<1>. DEFINE n == Len(entries)
            parts == [i \in 1..n |-> IF i \in hits THEN <<i>> ELSE <<>>]
            ids == [i \in DOMAIN entries |-> IF i \in hits THEN <<entries[i].flow_id>> ELSE <<>>]
<1>1. n \in Nat /\ DOMAIN entries = 1..n /\ \A i \in 1..n : entries[i].flow_id = i
  BY SequenceOfItsElements DEF IsTable, IsSequence
<1>. HIDE DEF n
<1>2. ids = parts
  BY <1>1
<1>3. FlattenSeq(parts) = Ascending(hits)
  BY <1>1, PickedAscend
<1>. HIDE DEF ids, parts
<1>4. IdsWhere(entries, hits) = FlattenSeq(ids)
  BY DEF IdsWhere, ids
<1>. QED
  BY <1>2, <1>3, <1>4

(* The pairs of a flow table. *)
LEMMA PairsAreFinite ==
  ASSUME NEW entries, IsTable(entries)
  PROVE  /\ IsFiniteSet(IpPairs(entries)) /\ IpPairs(entries) \subseteq Nat \X Nat
         /\ IsFiniteSet(PortPairs(entries)) /\ PortPairs(entries) \subseteq Nat \X Nat
         /\ IsFiniteSet(ProtoPairs(entries)) /\ ProtoPairs(entries) \subseteq Nat \X Nat
<1>. DEFINE n == Len(entries)
            I == 1..n
            srcIp == [i \in I |-> <<entries[i].src_ip, entries[i].flow_id>>]
            dstIp == [i \in I |-> <<entries[i].dst_ip, entries[i].flow_id>>]
            srcPort == [i \in I |-> <<entries[i].src_port, entries[i].flow_id>>]
            dstPort == [i \in I |-> <<entries[i].dst_port, entries[i].flow_id>>]
            proto == [i \in I |-> <<entries[i].protocol, entries[i].flow_id>>]
            Image(f) == {f[i] : i \in I}
<1>1. /\ n \in Nat /\ DOMAIN entries = I /\ \A i \in I : FieldsAreNumbers(entries[i])
  BY SequenceOfItsElements DEF IsTable, IsSequence
<1>2. IsFiniteSet(I)
  BY <1>1, FS_Interval
<1>3. ToSet(entries) = {entries[i] : i \in I}
  BY <1>1 DEF ToSet
<1>. HIDE DEF n
<1>4. IpPairs(entries) = Image(srcIp) \cup Image(dstIp)
  BY <1>3 DEF IpPairs
<1>5. PortPairs(entries) = Image(srcPort) \cup Image(dstPort)
  BY <1>3 DEF PortPairs
<1>6. ProtoPairs(entries) = Image(proto)
  BY <1>3 DEF ProtoPairs
<1>7. /\ srcIp \in [I -> Nat \X Nat] /\ dstIp \in [I -> Nat \X Nat]
      /\ srcPort \in [I -> Nat \X Nat] /\ dstPort \in [I -> Nat \X Nat]
      /\ proto \in [I -> Nat \X Nat]
  BY <1>1 DEF FieldsAreNumbers
<1>. HIDE DEF srcIp, dstIp, srcPort, dstPort, proto, I
<1>8. ASSUME NEW f \in [I -> Nat \X Nat]
      PROVE  IsFiniteSet(Image(f)) /\ Image(f) \subseteq Nat \X Nat
  <2>1. f = [i \in I |-> f[i]] /\ \A i \in I : f[i] \in Nat \X Nat
    OBVIOUS
  <2>2. IsFiniteSet(Image(f))
    BY <1>2, <2>1, ImageIsFinite
  <2>. QED
    BY <2>1, <2>2
<1>9. /\ IsFiniteSet(Image(srcIp)) /\ Image(srcIp) \subseteq Nat \X Nat
      /\ IsFiniteSet(Image(dstIp)) /\ Image(dstIp) \subseteq Nat \X Nat
      /\ IsFiniteSet(Image(srcPort)) /\ Image(srcPort) \subseteq Nat \X Nat
      /\ IsFiniteSet(Image(dstPort)) /\ Image(dstPort) \subseteq Nat \X Nat
      /\ IsFiniteSet(Image(proto)) /\ Image(proto) \subseteq Nat \X Nat
  <2>. HIDE DEF Image
  <2>. QED
    BY <1>7, <1>8
<1>. HIDE DEF Image
<1>10. /\ IsFiniteSet(Image(srcIp) \cup Image(dstIp))
       /\ IsFiniteSet(Image(srcPort) \cup Image(dstPort))
  BY <1>9, FS_Union
<1>. QED
  BY <1>4, <1>5, <1>6, <1>9, <1>10

LEMMA IdOfPair ==
  ASSUME NEW pairs, pairs \subseteq Nat \X Nat, NEW key, NEW id
  PROVE  id \in IdsIn(pairs, key) <=> <<key, id>> \in pairs
<1>1. ASSUME id \in IdsIn(pairs, key)
      PROVE  <<key, id>> \in pairs
  <2>1. PICK p \in pairs : p[1] = key /\ p[2] = id
    BY <1>1 DEF IdsIn
  <2>2. p = <<p[1], p[2]>>
    OBVIOUS
  <2>. QED
    BY <2>1, <2>2
<1>2. ASSUME <<key, id>> \in pairs
      PROVE  id \in IdsIn(pairs, key)
  <2>1. PICK p \in pairs : p = <<key, id>>
    BY <1>2
  <2>2. p[1] = key /\ p[2] = id
    BY <2>1
  <2>. QED
    BY <2>2 DEF IdsIn
<1>. QED
  BY <1>1, <1>2

(* Who is indexed under a key is who is found when the table is scanned.   *)
LEMMA IndexedAreHits ==
  ASSUME NEW entries, IsTable(entries), NEW key
  PROVE  /\ IdsIn(IpPairs(entries), key)
              = {i \in DOMAIN entries : key \in {entries[i].src_ip, entries[i].dst_ip}}
         /\ IdsIn(PortPairs(entries), key)
              = {i \in DOMAIN entries : key \in {entries[i].src_port, entries[i].dst_port}}
         /\ IdsIn(ProtoPairs(entries), key)
              = {i \in DOMAIN entries : entries[i].protocol = key}
<1>1. \A i \in DOMAIN entries : entries[i].flow_id = i
  BY SequenceOfItsElements DEF IsTable
<1>2. ToSet(entries) = {entries[i] : i \in DOMAIN entries}
  BY DEF ToSet
<1>. DEFINE Ip(i) == key \in {entries[i].src_ip, entries[i].dst_ip}
            Port(i) == key \in {entries[i].src_port, entries[i].dst_port}
<1>3. ASSUME NEW id
      PROVE  <<key, id>> \in IpPairs(entries)
               <=> \E i \in DOMAIN entries : Ip(i) /\ entries[i].flow_id = id
  <2>1. <<key, id>> \in IpPairs(entries)
          <=> \E e \in ToSet(entries) : \/ <<key, id>> = <<e.src_ip, e.flow_id>>
                                       \/ <<key, id>> = <<e.dst_ip, e.flow_id>>
    BY DEF IpPairs
  <2>. QED
    BY <1>2, <2>1
<1>4. ASSUME NEW id
      PROVE  <<key, id>> \in PortPairs(entries)
               <=> \E i \in DOMAIN entries : Port(i) /\ entries[i].flow_id = id
  <2>1. <<key, id>> \in PortPairs(entries)
          <=> \E e \in ToSet(entries) : \/ <<key, id>> = <<e.src_port, e.flow_id>>
                                       \/ <<key, id>> = <<e.dst_port, e.flow_id>>
    BY DEF PortPairs
  <2>. QED
    BY <1>2, <2>1
<1>5. ASSUME NEW id
      PROVE  <<key, id>> \in ProtoPairs(entries)
               <=> \E i \in DOMAIN entries : entries[i].protocol = key /\ entries[i].flow_id = id
  <2>1. <<key, id>> \in ProtoPairs(entries)
          <=> \E e \in ToSet(entries) : <<key, id>> = <<e.protocol, e.flow_id>>
    BY DEF ProtoPairs
  <2>. QED
    BY <1>2, <2>1
<1>9. /\ IpPairs(entries) \subseteq Nat \X Nat /\ PortPairs(entries) \subseteq Nat \X Nat
      /\ ProtoPairs(entries) \subseteq Nat \X Nat
  BY PairsAreFinite
<1>6. \A id : id \in IdsIn(IpPairs(entries), key) <=> id \in DOMAIN entries /\ Ip(id)
  <2>1. \A id : id \in IdsIn(IpPairs(entries), key) <=> <<key, id>> \in IpPairs(entries)
    BY <1>9, IdOfPair
  <2>. HIDE DEF Ip
  <2>2. \A id : (\E i \in DOMAIN entries : Ip(i) /\ entries[i].flow_id = id)
                  <=> id \in DOMAIN entries /\ Ip(id)
    BY <1>1
  <2>. QED
    BY <1>3, <2>1, <2>2, Zenon
<1>7. \A id : id \in IdsIn(PortPairs(entries), key) <=> id \in DOMAIN entries /\ Port(id)
  <2>1. \A id : id \in IdsIn(PortPairs(entries), key) <=> <<key, id>> \in PortPairs(entries)
    BY <1>9, IdOfPair
  <2>. HIDE DEF Port
  <2>2. \A id : (\E i \in DOMAIN entries : Port(i) /\ entries[i].flow_id = id)
                  <=> id \in DOMAIN entries /\ Port(id)
    BY <1>1
  <2>. QED
    BY <1>4, <2>1, <2>2, Zenon
<1>8. \A id : id \in IdsIn(ProtoPairs(entries), key)
                <=> id \in DOMAIN entries /\ entries[id].protocol = key
  <2>1. \A id : id \in IdsIn(ProtoPairs(entries), key) <=> <<key, id>> \in ProtoPairs(entries)
    BY <1>9, IdOfPair
  <2>2. \A id : (\E i \in DOMAIN entries : entries[i].protocol = key /\ entries[i].flow_id = id)
                  <=> id \in DOMAIN entries /\ entries[id].protocol = key
    BY <1>1
  <2>. QED
    BY <1>5, <2>1, <2>2, Zenon
<1>. QED
  BY <1>6, <1>7, <1>8

LEMMA IndexesAsScans ==
  ASSUME NEW entries, IsTable(entries), NEW key
  PROVE  /\ ScanIndex(EncodeIndex(IpPairs(entries)), key) = ScanIp(entries, key)
         /\ ScanIndex(EncodeIndex(PortPairs(entries)), key) = ScanPort(entries, key)
         /\ ScanIndex(EncodeIndex(ProtoPairs(entries)), key) = ScanProto(entries, key)
<1>1. /\ ScanIndex(EncodeIndex(IpPairs(entries)), key) = Ascending(IdsIn(IpPairs(entries), key))
      /\ ScanIndex(EncodeIndex(PortPairs(entries)), key)
           = Ascending(IdsIn(PortPairs(entries), key))
      /\ ScanIndex(EncodeIndex(ProtoPairs(entries)), key)
           = Ascending(IdsIn(ProtoPairs(entries), key))
  BY PairsAreFinite, IndexAnswers
<1>. DEFINE ip == {i \in DOMAIN entries : key \in {entries[i].src_ip, entries[i].dst_ip}}
            port == {i \in DOMAIN entries : key \in {entries[i].src_port, entries[i].dst_port}}
            proto == {i \in DOMAIN entries : entries[i].protocol = key}
<1>2. /\ IdsIn(IpPairs(entries), key) = ip /\ IdsIn(PortPairs(entries), key) = port
      /\ IdsIn(ProtoPairs(entries), key) = proto
  BY IndexedAreHits
<1>3. /\ ScanIp(entries, key) = IdsWhere(entries, ip)
      /\ ScanPort(entries, key) = IdsWhere(entries, port)
      /\ ScanProto(entries, key) = IdsWhere(entries, proto)
  BY DEF ScanIp, ScanPort, ScanProto
<1>4. ip \subseteq DOMAIN entries /\ port \subseteq DOMAIN entries /\ proto \subseteq DOMAIN entries
  OBVIOUS
<1>. HIDE DEF ip, port, proto
<1>5. /\ IdsWhere(entries, ip) = Ascending(ip) /\ IdsWhere(entries, port) = Ascending(port)
      /\ IdsWhere(entries, proto) = Ascending(proto)
  BY <1>4, ScannedIds
<1>. QED
  BY <1>1, <1>2, <1>3, <1>5

(* The three regions are read where the header of the indexes says.        *)
RegionsOf(data, a, b, c) ==
  /\ IsSequence(data)
  /\ Region(data, 0, Len(a)) = a /\ Region(data, Len(a), Len(b)) = b
  /\ Region(data, Len(a) + Len(b), Len(c)) = c

LEMMA RegionsAreRead ==
  ASSUME NEW a, IsSequence(a), NEW b, IsSequence(b), NEW c, IsSequence(c)
  PROVE  RegionsOf(a \o b \o c, a, b, c)
<1>. DEFINE ab == a \o b
            data == ab \o c
<1>1. Len(a) \in Nat /\ Len(b) \in Nat /\ Len(c) \in Nat
  BY DEF IsSequence
<1>2. IsSequence(ab) /\ Len(ab) = Len(a) + Len(b) /\ \A i \in 1..Len(a) : ab[i] = a[i]
  BY SequenceConcat
<1>3. HasAt(ab, Len(a), b)
  BY HasWhatIsAppended
<1>4. data = ab \o c
  OBVIOUS
<1>. HIDE DEF ab, data
<1>5. HasAt(ab, 0, a)
  BY <1>1, <1>2 DEF HasAt
<1>6. IsSequence(data) /\ HasAt(data, Len(ab), c)
  BY <1>2, <1>4, SequenceConcat, HasWhatIsAppended
<1>7. HasAt(data, 0, a)
  BY <1>2, <1>4, <1>5, StillHas
<1>8. HasAt(data, Len(a), b)
  BY <1>2, <1>3, <1>4, StillHas
<1>9. HasAt(data, Len(a) + Len(b), c)
  BY <1>2, <1>6
<1>10. Region(data, 0, Len(a)) = a
  <2>1. SubSeq(data, 0 + 1, 0 + Len(a)) = a
    BY <1>6, <1>7, SliceOfWhatItHas
  <2>. QED
    BY <2>1 DEF Region
<1>11. Region(data, Len(a), Len(b)) = b
  BY <1>6, <1>8, SliceOfWhatItHas DEF Region
<1>12. Region(data, Len(a) + Len(b), Len(c)) = c
  BY <1>6, <1>9, SliceOfWhatItHas DEF Region
<1>13. RegionsOf(data, a, b, c)
  BY <1>6, <1>10, <1>11, <1>12 DEF RegionsOf
<1>. QED
  BY <1>13 DEF data, ab

LEMMA BuiltIndexes ==
  ASSUME NEW entries, IsTable(entries), NEW idx, idx = BuildIndexes(entries)
  PROVE  /\ IsSequence(idx.data) /\ idx = [idx EXCEPT !.data = idx.data]
         /\ \A key : /\ LookupIp(idx, key) = ScanIp(entries, key)
                     /\ LookupPort(idx, key) = ScanPort(entries, key)
                     /\ LookupProto(idx, key) = ScanProto(entries, key)
<1>1. PICK a, b, c : /\ a = EncodeIndex(IpPairs(entries)) /\ b = EncodeIndex(PortPairs(entries))
                     /\ c = EncodeIndex(ProtoPairs(entries))
  OBVIOUS
<1>2. a \in Seq(Nat) /\ b \in Seq(Nat) /\ c \in Seq(Nat)
  BY <1>1, PairsAreFinite, IndexLaid
<1>3. IsSequence(a) /\ IsSequence(b) /\ IsSequence(c)
  BY <1>2, SeqIsSequence
<1>4. PICK data : data = a \o b \o c
  OBVIOUS
<1>5. RegionsOf(data, a, b, c)
  BY <1>3, <1>4, RegionsAreRead
<1>6. idx = [ip_off    |-> 0,               ip_size    |-> Len(a),
             port_off  |-> Len(a),          port_size  |-> Len(b),
             proto_off |-> Len(a) + Len(b), proto_size |-> Len(c),
             data      |-> data]
  BY <1>1, <1>4, Zenon DEF BuildIndexes
<1>7. /\ idx.ip_off = 0 /\ idx.ip_size = Len(a) /\ idx.port_off = Len(a)
      /\ idx.port_size = Len(b) /\ idx.proto_off = Len(a) + Len(b)
      /\ idx.proto_size = Len(c) /\ idx.data = data
      /\ idx = [idx EXCEPT !.data = idx.data]
  BY <1>6
<1>8. \A key : /\ LookupIp(idx, key) = ScanIndex(a, key)
               /\ LookupPort(idx, key) = ScanIndex(b, key)
               /\ LookupProto(idx, key) = ScanIndex(c, key)
  BY <1>5, <1>7, Zenon DEF RegionsOf, LookupIp, LookupPort, LookupProto
<1>. QED
  BY <1>1, <1>5, <1>7, <1>8, IndexesAsScans DEF RegionsOf

(* What is written for the indexes reads as the indexes. *)
LEMMA IndexIsParsed ==
  ASSUME NEW idx, IsSequence(idx.data), idx = [idx EXCEPT !.data = idx.data]
  PROVE  /\ IsSequence(IndexCells(idx)) /\ Len(IndexCells(idx)) \in Nat \ {0}
         /\ ParseIndex(IndexCells(idx)) = idx
<1>. DEFINE data == idx.data
            bare == [idx EXCEPT !.data = <<>>]
            c == [is |-> "index", header |-> bare]
            head == <<c>>
            nums == Numbers(data)
            cells == head \o nums
<1>1. IsSequence(nums) /\ Unnumbered(nums) = data /\ Len(nums) \in Nat
  BY NumberCells DEF IsSequence
<1>2. IndexCells(idx) = cells
  BY DEF IndexCells
<1>3. [bare EXCEPT !.data = data] = idx
  BY Zenon
<1>4. c.header = bare
  OBVIOUS
<1>. HIDE DEF c, nums, bare, data
<1>5. IsSequence(head) /\ Len(head) = 1 /\ head[1] = c
  <2>1. head \in Seq({c}) /\ Len(head) = 1 /\ head[1] = c
    OBVIOUS
  <2>. QED
    BY <2>1, SeqIsSequence
<1>. HIDE DEF head
<1>6. /\ IsSequence(cells) /\ Len(cells) = 1 + Len(nums) /\ cells[1] = c
      /\ HasAt(cells, 1, nums)
  <2>1. /\ IsSequence(cells) /\ Len(cells) = Len(head) + Len(nums)
        /\ \A i \in 1..Len(head) : cells[i] = head[i]
    BY <1>1, <1>5, SequenceConcat
  <2>2. HasAt(cells, Len(head), nums)
    BY <1>1, <1>5, HasWhatIsAppended
  <2>3. 1 \in 1..Len(head)
    BY <1>5
  <2>. HIDE DEF cells
  <2>. QED
    BY <1>5, <2>1, <2>2, <2>3
<1>. HIDE DEF cells
<1>7. SubSeq(cells, 2, Len(cells)) = nums
  <2>1. SubSeq(cells, 1 + 1, 1 + Len(nums)) = nums
    BY <1>1, <1>6, SliceOfWhatItHas
  <2>. QED
    BY <1>6, <2>1
<1>8. ParseIndex(cells) = [bare EXCEPT !.data = data]
  BY <1>1, <1>4, <1>6, <1>7, Zenon DEF ParseIndex
<1>9. Len(cells) \in Nat \ {0}
  BY <1>1, <1>6
<1>. QED
  BY <1>2, <1>3, <1>6, <1>8, <1>9
LEMMA TableIsIndexed ==
  ASSUME NEW entries, IsTable(entries), NEW cells, cells = IndexCells(BuildIndexes(entries))
  PROVE  /\ IsSequence(cells) /\ Len(cells) # 0
         /\ ParseIndex(cells) = BuildIndexes(entries)
<1>1. PICK idx : idx = BuildIndexes(entries)
  OBVIOUS
<1>2. IsSequence(idx.data) /\ idx = [idx EXCEPT !.data = idx.data]
  BY <1>1, BuiltIndexes
<1>3. IsSequence(IndexCells(idx)) /\ Len(IndexCells(idx)) # 0 /\ ParseIndex(IndexCells(idx)) = idx
  BY <1>2, IndexIsParsed
<1>. QED
  BY <1>1, <1>3, Zenon
-----------------------------------------------------------------------------
(* A flow's offset list is where the flow table will say. *)
ListIn(file, flow, list) ==
  /\ Encoded(flow) \in Seq(Nat)
  /\ list[2] = Len(Encoded(flow))
  /\ HasAt(file, list[1], Numbers(Encoded(flow)))

ListsIn(file) == \A i \in DOMAIN SortedFlows : ListIn(file, SortedFlows[i], lists[i])

TableIn(file) ==
  regions.flow_table_size = Len(FlowTable) /\ HasAt(file, regions.flow_table_offset, FlowTable)

RegionsThere ==
  /\ stage \in Finalizing => ListsIn(content)
  /\ stage \in Finalizing \ {"table"} => TableIn(content)
  /\ stage = "rename" => Len(written) # 0 /\ buffer = <<>> /\ written[Len(written)] = regions

(* The flow table has one entry for each flow. *)
LEMMA FlowTableCells ==
  ASSUME TypeOK, IdsInv
  PROVE  /\ IsSequence(FlowTable) /\ DOMAIN FlowTable = DOMAIN SortedFlows
         /\ \A i \in DOMAIN SortedFlows :
              FlowTable[i] = EntryCell(SortedFlows[i], lists[i][1], lists[i][2])
<1>. DEFINE n == next_flow_id - 1
            t == FlowTable
<1>1. n \in Nat /\ DOMAIN SortedFlows = 1..n
  BY FlowsInOrder DEF InOrder
<1>. HIDE DEF n
<1>2. /\ t = [i \in 1..n |-> t[i]]
      /\ \A i \in 1..n : t[i] = EntryCell(SortedFlows[i], lists[i][1], lists[i][2])
  BY <1>1 DEF FlowTable
<1>. HIDE DEF t
<1>3. IsSequence(t) /\ DOMAIN t = 1..n
  BY <1>1, <1>2, SequenceByValue
<1>. QED
  BY <1>1, <1>2, <1>3 DEF t

(* What flow_to_entry puts into an entry that the reader goes by. *)
LEMMA EntryFields ==
  ASSUME NEW flow, NEW pos, NEW size
  PROVE  LET entry == EntryCell(flow, pos, size)
         IN /\ entry.flow_id = flow.flow_id
            /\ entry.offset_list_offset = pos /\ entry.offset_list_size = size
            /\ entry.packet_count = Len(flow.packet_offsets)
<1>. DEFINE ft == IF flow.five_tuple = Absent THEN NoTuple ELSE flow.five_tuple
<1>1. EntryCell(flow, pos, size) =
        [is |-> "entry", flow_id |-> flow.flow_id, protocol |-> ft.protocol,
         src_ip |-> ft.src_ip, dst_ip |-> ft.dst_ip,
         src_port |-> ft.src_port, dst_port |-> ft.dst_port,
         offset_list_offset |-> pos, offset_list_size |-> size,
         packet_count |-> Len(flow.packet_offsets)]
  BY DEF EntryCell
<1>. HIDE DEF ft
<1>. QED
  BY <1>1

(* And is a table of numbers, the id of the i-th flow being i. *)
LEMMA EntryNumbers ==
  ASSUME NEW flow \in ArchiveFlow, NEW pos, NEW size
  PROVE  FieldsAreNumbers(EntryCell(flow, pos, size))
<1>. DEFINE ft == IF flow.five_tuple = Absent THEN NoTuple ELSE flow.five_tuple
<1>1. flow.flow_id \in Nat /\ flow.five_tuple \in FiveTuple \cup {Absent}
  BY PacketsAssumption DEF ArchiveFlow
<1>2. ft \in FiveTuple
  BY <1>1 DEF NoTuple, FiveTuple
<1>3. EntryCell(flow, pos, size) =
        [is |-> "entry", flow_id |-> flow.flow_id, protocol |-> ft.protocol,
         src_ip |-> ft.src_ip, dst_ip |-> ft.dst_ip,
         src_port |-> ft.src_port, dst_port |-> ft.dst_port,
         offset_list_offset |-> pos, offset_list_size |-> size,
         packet_count |-> Len(flow.packet_offsets)]
  BY DEF EntryCell
<1>. HIDE DEF ft
<1>4. /\ ft.protocol \in Nat /\ ft.src_ip \in Nat /\ ft.dst_ip \in Nat
      /\ ft.src_port \in Nat /\ ft.dst_port \in Nat
  BY <1>2 DEF FiveTuple
<1>. QED
  BY <1>1, <1>3, <1>4 DEF FieldsAreNumbers

LEMMA FlowTableIsTable ==
  ASSUME TypeOK, IdsInv
  PROVE  IsTable(FlowTable)
<1>1. PICK table : table = FlowTable
  OBVIOUS
<1>. DEFINE n == next_flow_id - 1
<1>2. InOrder(SortedFlows, n)
  BY FlowsInOrder
<1>3. n \in Nat /\ DOMAIN SortedFlows = 1..n
  BY <1>2 DEF InOrder
<1>4. /\ IsSequence(table) /\ DOMAIN table = 1..n
      /\ \A i \in 1..n : table[i] = EntryCell(SortedFlows[i], lists[i][1], lists[i][2])
  BY <1>1, <1>3, FlowTableCells
<1>5. Len(table) = n
  <2>1. DOMAIN table = 1..Len(table) /\ Len(table) \in Nat
    BY <1>4 DEF IsSequence
  <2>. HIDE DEF n
  <2>. QED
    BY <1>3, <1>4, <2>1
<1>6. ASSUME NEW i \in 1..n
      PROVE  table[i].flow_id = i /\ FieldsAreNumbers(table[i])
  <2>1. PICK key \in Key : /\ flows[key] # Absent /\ flows[key].flow_id = i
                           /\ SortedFlows[i] = flows[key]
    BY <1>2 DEF InOrder
  <2>2. PICK flow \in ArchiveFlow : flow = SortedFlows[i] /\ flow.flow_id = i
    BY <2>1 DEF TypeOK
  <2>3. table[i] = EntryCell(flow, lists[i][1], lists[i][2])
    BY <1>4, <2>2
  <2>. QED
    BY <2>2, <2>3, EntryFields, EntryNumbers
<1>. QED
  BY <1>1, <1>4, <1>5, <1>6 DEF IsTable

(* What is there stays there. *)
LEMMA RegionsStay ==
  ASSUME TypeOK, IdsInv, NEW file, IsSequence(file), NEW more, IsSequence(more)
  PROVE  /\ FramesIn(file) => FramesIn(file \o more)
         /\ ListsIn(file) => ListsIn(file \o more)
         /\ TableIn(file) => TableIn(file \o more)
<1>1. ASSUME FramesIn(file)
      PROVE  FramesIn(file \o more)
  BY <1>1, FlowStaysIn DEF FramesIn
<1>2. ASSUME ListsIn(file), NEW i \in DOMAIN SortedFlows
      PROVE  ListIn(file \o more, SortedFlows[i], lists[i])
  <2>. DEFINE code == Encoded(SortedFlows[i])
  <2>1. /\ code \in Seq(Nat) /\ lists[i][2] = Len(code)
        /\ HasAt(file, lists[i][1], Numbers(code))
    BY <1>2 DEF ListsIn, ListIn
  <2>. HIDE DEF code
  <2>2. IsSequence(Numbers(code))
    BY <2>1, SeqIsSequence, NumberCells
  <2>3. HasAt(file \o more, lists[i][1], Numbers(code))
    BY <2>1, <2>2, StillHas
  <2>. QED
    BY <2>1, <2>3 DEF ListIn, code
<1>3. ASSUME TableIn(file)
      PROVE  TableIn(file \o more)
  <2>1. IsSequence(FlowTable)
    BY FlowTableCells
  <2>. QED
    BY <1>3, <2>1, StillHas DEF TableIn
<1>. QED
  BY <1>1, <1>2, <1>3 DEF ListsIn

(* As long as the flows and the packets given are the same. *)
LEMMA SameFlows ==
  ASSUME UNCHANGED <<flows, given>>, NEW file
  PROVE  /\ SortedFlows' = SortedFlows
         /\ FramesIn(file) => (FramesIn(file))'
<1>1. flows' = flows /\ given' = given
  OBVIOUS
<1>2. SortedFlows' = SortedFlows
  BY <1>1 DEF SortedFlows
<1>3. FramesIn(file) => (FramesIn(file))'
  BY <1>1 DEF FramesIn
<1>. QED
  BY <1>2, <1>3

(* The first write of finalize: every list is where its position says.     *)
LEMMA OffsetListsThere ==
  ASSUME AscendInv, FirstFits, FileInv, IdsInv, FramesThere, WriteOffsetLists
  PROVE  FileInv' /\ FramesThere' /\ RegionsThere'
<1>. DEFINE n == next_flow_id - 1
            s == SortedFlows
            parts == [i \in DOMAIN s |-> Encoded(s[i])]
            region == FlattenSeq(parts)
            cells == Numbers(region)
<1>1. /\ stage = "packets" /\ stage' = "table"
      /\ Write(cells) /\ file_pos' = file_pos + Len(region)
      /\ lists' = [i \in DOMAIN s |-> <<file_pos + ListStart(i), Len(Encoded(s[i]))>>]
      /\ regions' = [regions EXCEPT !.flow_packet_offset = file_pos]
      /\ UNCHANGED <<flows, given>>
  BY DEF WriteOffsetLists
<1>2. InOrder(s, n)
  BY FlowsInOrder DEF AscendInv
<1>3. n \in Nat /\ DOMAIN s = 1..n
  BY <1>2 DEF InOrder
<1>4. ASSUME NEW i \in 1..n
      PROVE  parts[i] = Encoded(s[i]) /\ parts[i] \in Seq(Nat)
  <2>1. PICK key \in Key : flows[key] # Absent /\ s[i] = flows[key]
    BY <1>2 DEF InOrder
  <2>. DEFINE off == flows[key].packet_offsets
  <2>2. off \in Seq(Nat) /\ off # <<>> /\ Ascends(off)
    BY <2>1 DEF AscendInv, TypeOK, ArchiveFlow, OffsetsAscend, FirstFits, Ascends
  <2>3. parts[i] = EncodeOffsets(off) /\ parts[i] = Encoded(s[i])
    BY <1>3, <2>1 DEF Encoded
  <2>. HIDE DEF off, parts
  <2>. QED
    BY <2>2, <2>3, EncodeOffsetsType
<1>5. parts = [i \in 1..n |-> parts[i]]
  BY <1>3
<1>6. \A i \in 1..n : ListStart(i) = Len(FlattenSeq([j \in 1..i - 1 |-> parts[j]]))
  <2>1. ASSUME NEW i \in 1..n
        PROVE  ListStart(i) = Len(FlattenSeq([j \in 1..i - 1 |-> parts[j]]))
    <3>1. \A j \in 1..i - 1 : j \in 1..n
      BY <1>3
    <3>2. [j \in 1..i - 1 |-> Encoded(s[j])] = [j \in 1..i - 1 |-> parts[j]]
      BY <1>4, <3>1
    <3>. HIDE DEF parts
    <3>. QED
      BY <3>2 DEF ListStart
  <2>. QED
    BY <2>1
<1>. HIDE DEF parts
<1>7. region \in Seq(Nat) /\ IsSequence(region)
  <2>1. region \in Seq(Nat)
    BY <1>3, <1>4, <1>5, FlattenType
  <2>. QED
    BY <2>1, SeqIsSequence
<1>8. \A i \in 1..n : HasAt(region, ListStart(i), parts[i])
  <2>1. ASSUME NEW i \in 1..n
        PROVE  HasAt(region, ListStart(i), parts[i])
    <3>1. HasAt(region, Len(FlattenSeq([j \in 1..i - 1 |-> parts[j]])), parts[i])
      <4>1. \A j \in 1..n : parts[j] \in Seq(Nat)
        BY <1>4
      <4>. QED
        BY <1>3, <1>5, <4>1, FlattenHasParts
    <3>. HIDE DEF region
    <3>. QED
      BY <1>6, <3>1
  <2>. QED
    BY <2>1
<1>. HIDE DEF region
<1>9. IsSequence(cells) /\ Len(cells) = Len(region)
  BY <1>7, NumberCells
<1>10. /\ IsSequence(written) /\ IsSequence(buffer)
       /\ file_pos = Len(content) /\ regions \in Regions
  BY <1>1 DEF FileInv
<1>11. /\ IsSequence(written') /\ IsSequence(buffer') /\ IsSequence(content)
       /\ content' = content \o cells /\ Len(content') = Len(content) + Len(cells)
  <2>. HIDE DEF cells
  <2>. QED
    BY <1>1, <1>9, <1>10, WritesAppend
<1>12. FileInv'
  <2>1. file_pos \in Nat
    BY <1>10, <1>11 DEF IsSequence
  <2>2. regions' \in Regions
    BY <1>1, <1>10, <2>1 DEF Regions
  <2>. HIDE DEF cells
  <2>. QED
    BY <1>1, <1>9, <1>10, <1>11, <2>2 DEF FileInv
<1>. HIDE DEF cells
<1>13. PICK file : file = content \o cells
  OBVIOUS
<1>14. FramesThere'
  <2>1. FramesIn(content)
    BY <1>1 DEF FramesThere
  <2>2. FramesIn(file)
    BY <1>9, <1>11, <1>13, <2>1, RegionsStay DEF AscendInv
  <2>3. (FramesIn(file))'
    BY <1>1, <2>2, SameFlows
  <2>. QED
    BY <1>11, <1>13, <2>3 DEF FramesThere, FramesIn
<1>15. ASSUME NEW i \in 1..n
       PROVE  ListIn(file, s[i], lists'[i])
  <2>. DEFINE pos == Len(content)
  <2>1. lists'[i] = <<pos + ListStart(i), Len(Encoded(s[i]))>>
    BY <1>1, <1>3, <1>10
  <2>2. IsSequence(parts[i]) /\ parts[i] \in Seq(Nat) /\ parts[i] = Encoded(s[i])
    BY <1>4, SeqIsSequence
  <2>3. HasAt(cells, ListStart(i), Numbers(parts[i]))
    BY <1>7, <1>8, <2>2, NumbersAt DEF cells
  <2>4. HasAt(file, pos, cells)
    BY <1>9, <1>11, <1>13, HasWhatIsAppended
  <2>5. IsSequence(file) /\ IsSequence(Numbers(parts[i]))
    BY <1>9, <1>11, <1>13, <2>2, SequenceConcat, NumberCells
  <2>. HIDE DEF pos
  <2>6. HasAt(file, pos + ListStart(i), Numbers(parts[i]))
    BY <1>9, <2>3, <2>4, <2>5, HasAtWithin
  <2>. QED
    BY <2>1, <2>2, <2>6 DEF ListIn
<1>16. (ListsIn(content))'
  <2>1. SortedFlows' = s
    BY <1>1, SameFlows
  <2>2. content' = file
    BY <1>11, <1>13
  <2>. QED
    BY <1>3, <1>15, <2>1, <2>2 DEF ListsIn, ListIn, Encoded
<1>. QED
  BY <1>1, <1>12, <1>14, <1>16 DEF RegionsThere, Finalizing

(* A later region goes behind the earlier ones. *)
SameTable(r, s) ==
  r.flow_table_offset = s.flow_table_offset /\ r.flow_table_size = s.flow_table_size

LEMMA CarryOver ==
  ASSUME TypeOK, IdsInv, UNCHANGED <<flows, given, lists>>, IsSequence(content),
         NEW cells, IsSequence(cells), content' = content \o cells
  PROVE  /\ FramesIn(content) => (FramesIn(content))'
         /\ ListsIn(content) => (ListsIn(content))'
         /\ SameTable(regions', regions) /\ TableIn(content) => (TableIn(content))'
<1>1. PICK file : file = content \o cells
  OBVIOUS
<1>2. content' = file
  BY <1>1
<1>3. /\ FramesIn(content) => FramesIn(file)
      /\ ListsIn(content) => ListsIn(file)
      /\ TableIn(content) => TableIn(file)
  BY <1>1, RegionsStay
<1>4. flows' = flows /\ given' = given /\ lists' = lists
  OBVIOUS
<1>5. SortedFlows' = SortedFlows
  BY <1>4 DEF SortedFlows
<1>6. FlowTable' = FlowTable
  BY <1>4, <1>5 DEF FlowTable
<1>7. FramesIn(file) => (FramesIn(content))'
  BY <1>2, <1>4 DEF FramesIn
<1>8. ListsIn(file) => (ListsIn(content))'
  BY <1>2, <1>4, <1>5 DEF ListsIn
<1>9. SameTable(regions', regions) /\ TableIn(file) => (TableIn(content))'
  BY <1>2, <1>6 DEF TableIn, SameTable
<1>. QED
  BY <1>3, <1>7, <1>8, <1>9

LEMMA FlowTableThere ==
  ASSUME AscendInv, FileInv, IdsInv, FramesThere, RegionsThere, WriteFlowTable
  PROVE  FileInv' /\ FramesThere' /\ RegionsThere'
<1>1. /\ stage = "table" /\ stage' \in {"index", "footer"}
      /\ WriteAndFlush(FlowTable) /\ file_pos' = file_pos + Len(FlowTable)
      /\ regions' = [regions EXCEPT !.flow_table_offset = file_pos,
                                    !.flow_table_size = Len(FlowTable)]
      /\ UNCHANGED <<flows, given, lists>>
  BY DEF WriteFlowTable
<1>2. PICK cells : cells = FlowTable
  OBVIOUS
<1>3. IsSequence(cells) /\ Len(cells) \in Nat
  BY <1>2, FlowTableCells DEF AscendInv, IsSequence
<1>4. /\ IsSequence(written) /\ IsSequence(buffer)
      /\ file_pos = Len(content) /\ regions \in Regions
  BY <1>1 DEF FileInv
<1>5. /\ IsSequence(written') /\ IsSequence(buffer') /\ IsSequence(content)
      /\ content' = content \o cells /\ Len(content') = Len(content) + Len(cells)
  BY <1>1, <1>2, <1>3, <1>4, WritesAppend
<1>6. FileInv'
  <2>1. file_pos \in Nat
    BY <1>4, <1>5 DEF IsSequence
  <2>2. regions' \in Regions
    BY <1>1, <1>2, <1>3, <1>4, <2>1 DEF Regions
  <2>. QED
    BY <1>1, <1>2, <1>4, <1>5, <2>2 DEF FileInv
<1>7. (FramesIn(content))' /\ (ListsIn(content))'
  <2>1. FramesIn(content) /\ ListsIn(content)
    BY <1>1 DEF FramesThere, RegionsThere, Finalizing
  <2>. QED
    BY <1>1, <1>3, <1>5, <2>1, CarryOver DEF AscendInv
<1>8. (TableIn(content))'
  <2>1. flows' = flows /\ lists' = lists
    BY <1>1
  <2>2. SortedFlows' = SortedFlows
    BY <2>1 DEF SortedFlows
  <2>3. FlowTable' = cells
    BY <1>2, <2>1, <2>2 DEF FlowTable
  <2>4. regions'.flow_table_size = Len(cells) /\ regions'.flow_table_offset = Len(content)
    BY <1>1, <1>2, <1>4 DEF Regions
  <2>5. HasAt(content \o cells, Len(content), cells)
    BY <1>3, <1>5, HasWhatIsAppended
  <2>. QED
    BY <1>5, <2>3, <2>4, <2>5 DEF TableIn
<1>. QED
  BY <1>1, <1>6, <1>7, <1>8 DEF FramesThere, RegionsThere

LEMMA IndexesThere ==
  ASSUME AscendInv, FileInv, IdsInv, FramesThere, RegionsThere, WriteSecondaryIndexes
  PROVE  FileInv' /\ FramesThere' /\ RegionsThere'
<1>1. PICK cells : cells = IndexCells(BuildIndexes(FlowTable))
  OBVIOUS
<1>2. /\ stage = "index" /\ stage' = "footer"
      /\ WriteAndFlush(cells) /\ file_pos' = file_pos + Len(cells)
      /\ regions' = [regions EXCEPT !.secondary_index_offset = file_pos,
                                    !.secondary_index_size = Len(cells)]
      /\ UNCHANGED <<flows, given, lists>>
  BY <1>1 DEF WriteSecondaryIndexes
<1>3. IsSequence(cells) /\ Len(cells) \in Nat
  <2>1. PICK entries : entries = FlowTable
    OBVIOUS
  <2>2. IsTable(entries)
    BY <2>1, FlowTableIsTable DEF AscendInv
  <2>. QED
    BY <1>1, <2>1, <2>2, TableIsIndexed DEF IsSequence
<1>4. /\ IsSequence(written) /\ IsSequence(buffer)
      /\ file_pos = Len(content) /\ regions \in Regions
  BY <1>2 DEF FileInv
<1>5. /\ IsSequence(written') /\ IsSequence(buffer') /\ IsSequence(content)
      /\ content' = content \o cells /\ Len(content') = Len(content) + Len(cells)
  BY <1>2, <1>3, <1>4, WritesAppend
<1>6. FileInv' /\ SameTable(regions', regions)
  <2>1. file_pos \in Nat
    BY <1>4, <1>5 DEF IsSequence
  <2>2. regions' \in Regions /\ SameTable(regions', regions)
    BY <1>2, <1>3, <1>4, <2>1 DEF Regions, SameTable
  <2>. QED
    BY <1>2, <1>4, <1>5, <2>2 DEF FileInv
<1>7. (FramesIn(content))' /\ (ListsIn(content))' /\ (TableIn(content))'
  <2>1. FramesIn(content) /\ ListsIn(content) /\ TableIn(content)
    BY <1>2 DEF FramesThere, RegionsThere, Finalizing
  <2>. QED
    BY <1>2, <1>3, <1>5, <1>6, <2>1, CarryOver DEF AscendInv
<1>. QED
  BY <1>2, <1>6, <1>7 DEF FramesThere, RegionsThere

LEMMA FooterThere ==
  ASSUME AscendInv, FileInv, IdsInv, FramesThere, RegionsThere, WriteFooter
  PROVE  FileInv' /\ FramesThere' /\ RegionsThere'
<1>1. PICK cells : cells = <<regions>>
  OBVIOUS
<1>2. /\ stage = "footer" /\ stage' = "rename" /\ WriteAndFlush(cells)
      /\ regions' = regions /\ UNCHANGED <<flows, given, lists>>
  BY <1>1 DEF WriteFooter
<1>3. IsSequence(cells) /\ Len(cells) = 1 /\ cells[1] = regions
  <2>. DEFINE r == regions
  <2>1. <<r>> \in Seq({r}) /\ Len(<<r>>) = 1 /\ <<r>>[1] = r
    OBVIOUS
  <2>2. IsSequence(<<r>>)
    BY <2>1, SeqIsSequence
  <2>. QED
    BY <1>1, <2>1, <2>2
<1>4. IsSequence(written) /\ IsSequence(buffer) /\ regions \in Regions
  BY DEF FileInv
<1>5. /\ IsSequence(written') /\ IsSequence(buffer') /\ IsSequence(content)
      /\ content' = content \o cells /\ Len(content') = Len(content) + Len(cells)
  BY <1>2, <1>3, <1>4, WritesAppend
<1>6. FileInv'
  BY <1>2, <1>4, <1>5 DEF FileInv
<1>7. (FramesIn(content))' /\ (ListsIn(content))' /\ (TableIn(content))'
  <2>1. FramesIn(content) /\ ListsIn(content) /\ TableIn(content)
    BY <1>2 DEF FramesThere, RegionsThere, Finalizing
  <2>. QED
    BY <1>2, <1>3, <1>5, <2>1, CarryOver DEF AscendInv, SameTable
<1>8. Len(written') # 0 /\ buffer' = <<>> /\ written'[Len(written')] = regions
  <2>1. written' = content \o cells /\ buffer' = <<>>
    BY <1>2 DEF WriteAndFlush, content
  <2>2. Len(content) \in Nat /\ Len(content \o cells) = Len(content) + 1
        /\ \A i \in 1..1 : (content \o cells)[Len(content) + i] = cells[i]
    BY <1>3, <1>5, SequenceConcat DEF IsSequence
  <2>3. 1 \in 1..1
    OBVIOUS
  <2>4. (content \o cells)[Len(content) + 1] = regions
    BY <1>3, <2>2, <2>3
  <2>. QED
    BY <2>1, <2>2, <2>4
<1>. QED
  BY <1>2, <1>6, <1>7, <1>8 DEF FramesThere, RegionsThere

-----------------------------------------------------------------------------
(* What the reader makes of what is there: a frame first. *)
LEMMA FrameReads ==
  ASSUME NEW opened, NEW file, file = opened.file, IsSequence(file), NEW pkt \in Packet,
         NEW pos, HasAt(file, pos, Frame(pkt))
  PROVE  ReadFrame(opened, pos) = pkt
<1>1. /\ Len(Frame(pkt)) = 1 + DataLen(pkt) /\ DataLen(pkt) \in Nat
      /\ Frame(pkt)[1] = [is |-> "frame", pkt |-> pkt]
  BY FrameCells, PacketsAssumption DEF FrameSize
<1>2. /\ pos \in Nat /\ pos + (1 + DataLen(pkt)) <= Len(file) /\ Len(file) \in Nat
      /\ file[pos + 1] = [is |-> "frame", pkt |-> pkt]
  BY <1>1 DEF HasAt, IsSequence
<1>3. ~(pos + 1 > Len(file)) /\ ~(pos + 1 + DataLen(pkt) > Len(file))
  BY <1>1, <1>2
<1>4. file[pos + 1].is = "frame" /\ file[pos + 1].pkt = pkt
  BY <1>2
<1>. QED
  BY <1>3, <1>4 DEF ReadFrame

(* If each offset of a flow reads as its packet, extract and pipe give     *)
(* the packets.                                                            *)
LEMMA FlowReads ==
  ASSUME NEW opened, NEW entry, NEW packets \in Seq(Packet), NEW offsets \in Seq(Nat),
         Len(offsets) = Len(packets), GetPacketOffsets(opened, entry) = offsets,
         \A i \in 1..Len(packets) : ReadFrame(opened, offsets[i]) = packets[i]
  PROVE  ExtractedFlow(opened, entry) = packets /\ PipedFlow(opened, entry) = packets
<1>. DEFINE n == Len(packets)
            bad == {i \in DOMAIN offsets : ReadFrame(opened, offsets[i]) = Absent}
<1>1. /\ n \in Nat /\ DOMAIN offsets = 1..n /\ packets = [i \in 1..n |-> packets[i]]
      /\ Absent \notin Packet
  BY LenProperties, AbsentAssumption
<1>2. ASSUME NEW i \in 1..n
      PROVE  ReadFrame(opened, offsets[i]) = packets[i] /\ packets[i] # Absent
  BY <1>1, ElementOfSeq
<1>3. bad = {}
  BY <1>1, <1>2
<1>4. ExtractedFlow(opened, entry) = packets
  <2>1. ExtractedFlow(opened, entry) =
          [i \in 1..(IF bad = {} THEN Len(offsets) ELSE Min(bad) - 1) |->
             ReadFrame(opened, offsets[i])]
    BY DEF ExtractedFlow
  <2>. HIDE DEF bad
  <2>2. ExtractedFlow(opened, entry) = [i \in 1..n |-> ReadFrame(opened, offsets[i])]
    BY <1>3, <2>1
  <2>3. [i \in 1..n |-> ReadFrame(opened, offsets[i])] = [i \in 1..n |-> packets[i]]
    BY <1>2
  <2>. QED
    BY <1>1, <2>2, <2>3
<1>5. PipedFlow(opened, entry) = packets
  <2>. DEFINE parts == [i \in DOMAIN offsets |-> IF ReadFrame(opened, offsets[i]) = Absent
                                                 THEN <<>> ELSE <<ReadFrame(opened, offsets[i])>>]
  <2>1. PipedFlow(opened, entry) = FlattenSeq(parts)
    BY DEF PipedFlow
  <2>2. parts = [i \in 1..n |-> <<packets[i]>>]
    <3>1. \A i \in 1..n : /\ ReadFrame(opened, offsets[i]) # Absent
                          /\ <<ReadFrame(opened, offsets[i])>> = <<packets[i]>>
      BY <1>2
    <3>2. \A i \in 1..n : parts[i] = <<packets[i]>>
      BY <1>1, <3>1
    <3>. QED
      BY <1>1, <3>2
  <2>. HIDE DEF parts
  <2>3. FlattenSeq(parts) = packets
    BY <2>2, FlattenOnes
  <2>. QED
    BY <2>1, <2>3
<1>. QED
  BY <1>4, <1>5

(* The list of an entry decodes to the offsets that were encoded. *)
LEMMA ListReads ==
  ASSUME NEW opened, NEW file, file = opened.file, IsSequence(file),
         NEW entry, NEW bytes \in Seq(Nat), NEW offsets,
         entry.offset_list_size = Len(bytes),
         HasAt(file, entry.offset_list_offset, Numbers(bytes)),
         DecodeOffsets(bytes, entry.packet_count) = offsets
  PROVE  GetPacketOffsets(opened, entry) = offsets
<1>. DEFINE pos == entry.offset_list_offset
            cells == Numbers(bytes)
<1>1. IsSequence(bytes)
  BY SeqIsSequence
<1>2. IsSequence(cells) /\ Len(cells) = Len(bytes) /\ Unnumbered(cells) = bytes
  BY <1>1, NumberCells
<1>3. pos \in Nat /\ pos + Len(cells) <= Len(file) /\ Len(file) \in Nat /\ Len(bytes) \in Nat
  BY <1>1 DEF HasAt, IsSequence
<1>. HIDE DEF cells, pos
<1>4. SubSeq(file, pos + 1, pos + Len(cells)) = cells
  BY <1>2, SliceOfWhatItHas DEF cells, pos
<1>5. Slice(file, pos, Len(bytes)) = cells
  BY <1>2, <1>4 DEF Slice
<1>6. ~(pos + Len(bytes) > Len(file))
  BY <1>2, <1>3
<1>7. Unnumbered(Slice(file, pos, Len(bytes))) = bytes
  BY <1>2, <1>5
<1>. QED
  BY <1>6, <1>7 DEF GetPacketOffsets, pos

(* Numbered from 1 on, every entry is the one that get_flow finds. *)
LEMMA EntryOfId ==
  ASSUME NEW opened, NEW n \in Nat, DOMAIN opened.entries = 1..n,
         \A k \in 1..n : opened.entries[k].flow_id = k, NEW i \in 1..n
  PROVE  GetFlow(opened, opened.entries[i].flow_id) = opened.entries[i]
<1>. DEFINE same == {k \in DOMAIN opened.entries : opened.entries[k].flow_id = i}
<1>1. same = {i}
  OBVIOUS
<1>2. GetFlow(opened, i) = IF same = {} THEN Absent ELSE opened.entries[Min(same)]
  BY DEF GetFlow
<1>. HIDE DEF same
<1>3. Min(same) = i
  <2>. DEFINE P(x) == \A y \in {i} : x <= y
              c == CHOOSE x \in {i} : P(x)
  <2>1. Min({i}) = c
    BY DEF Min
  <2>2. i \in {i} /\ P(i)
    OBVIOUS
  <2>3. c \in {i}
    <3>. HIDE DEF P
    <3>. QED
      BY <2>2
  <2>. HIDE DEF c
  <2>4. c = i
    BY <2>3
  <2>. QED
    BY <1>1, <2>1, <2>4
<1>. QED
  BY <1>1, <1>2, <1>3

(* An archive is opened: its flow table is what lies where the footer      *)
(* says.                                                                   *)
LEMMA TableReads ==
  ASSUME NEW file, IsSequence(file), Len(file) # 0,
         NEW footer \in Regions, file[Len(file)] = footer, NEW table, IsSequence(table),
         footer.flow_table_size = Len(table), HasAt(file, footer.flow_table_offset, table)
  PROVE  Opens(file) /\ Open(file).file = file /\ Open(file).entries = table
<1>. DEFINE off == footer.flow_table_offset
<1>1. footer.is = "footer" /\ off + Len(table) <= Len(file)
  BY DEF Regions, HasAt
<1>2. file # <<>>
  <2>1. Len(<<>>) = 0
    OBVIOUS
  <2>. QED
    BY <2>1
<1>3. Opens(file)
  BY <1>1, <1>2 DEF Opens
<1>4. Slice(file, off, Len(table)) = table
  BY SliceOfWhatItHas DEF Slice
<1>5. PICK index : Open(file) = [file |-> file, entries |-> Slice(file, off, Len(table)), index |-> index]
  BY <1>3 DEF Open
<1>. QED
  BY <1>3, <1>4, <1>5

(* The groups with packets are as many as the flows. *)
LEMMA GroupsAreFlows ==
  ASSUME IdsInv, next_flow_id \in Nat \ {0}, NEW live,
         live = {key \in Key : flows[key] # Absent}
  PROVE  Cardinality(live) = next_flow_id - 1
<1>. DEFINE n == next_flow_id - 1
            f == [key \in live |-> flows[key].flow_id]
<1>1. n \in Nat
  OBVIOUS
<1>2. /\ \A key \in live : f[key] \in 1..n
      /\ \A j, k \in live : f[j] = f[k] => j = k
      /\ \A id \in 1..n : \E key \in live : f[key] = id
  BY DEF IdsInv
<1>3. f = [key \in live |-> f[key]]
  OBVIOUS
<1>. HIDE DEF f, n
<1>4. f \in [live -> 1..n]
  BY <1>2, <1>3
<1>5. f \in Bijection(live, 1..n)
  BY <1>2, <1>4, Fun_IsBij
<1>6. ExistsBijection(1..n, live)
  <2>1. ExistsBijection(live, 1..n)
    BY <1>5 DEF ExistsBijection
  <2>. QED
    BY <2>1, Fun_ExistsBijSymmetric
<1>7. IsFiniteSet(1..n) /\ Cardinality(1..n) = n
  BY <1>1, FS_Interval
<1>8. Cardinality(live) = n
  BY <1>6, <1>7, FS_Bijection
<1>. QED
  BY <1>8 DEF n

(* What ArchiveIsWhole promises of a file. *)
WholeIn(file, packets) ==
  LET opened  == Open(file)
      entries == opened.entries
      out(i)  == ExtractedFlow(opened, entries[i])
  IN /\ Opens(file)
     /\ {out(i) : i \in DOMAIN entries} = {packets[key] : key \in Key} \ {<<>>}
     /\ Len(entries) = Cardinality({key \in Key : packets[key] # <<>>})
     /\ \A i \in DOMAIN entries :
          /\ out(i) = PipedFlow(opened, entries[i])
          /\ GetFlow(opened, entries[i].flow_id) = entries[i]

(* The flow of a group, read back through its entry. *)
LEMMA FlowIsRead ==
  ASSUME AscendInv, FirstFits, IdsInv, GivenInv, NEW file, IsSequence(file),
         FramesIn(file), ListsIn(file), NEW opened, opened.file = file,
         NEW key \in Key, flows[key] # Absent, NEW i \in DOMAIN SortedFlows,
         SortedFlows[i] = flows[key], NEW entry, entry = FlowTable[i]
  PROVE  /\ ExtractedFlow(opened, entry) = given[key] /\ PipedFlow(opened, entry) = given[key]
         /\ entry.flow_id = flows[key].flow_id /\ given[key] # <<>>
<1>1. PICK flow : flow = flows[key]
  OBVIOUS
<1>2. PICK packets : packets = given[key]
  OBVIOUS
<1>. DEFINE offsets == flow.packet_offsets
            bytes == Encoded(flow)
<1>3. offsets \in Seq(Nat) /\ offsets # <<>> /\ packets \in Seq(Packet)
  BY <1>1, <1>2 DEF AscendInv, TypeOK, ArchiveFlow, FirstFits, GivenInv
<1>4. /\ Len(offsets) = Len(packets)
      /\ \A j \in 1..Len(packets) : packets[j] \in Packet /\ HasAt(file, offsets[j], Frame(packets[j]))
  <2>1. FlowIn(file, flow, packets)
    BY <1>1, <1>2 DEF FramesIn
  <2>. QED
    BY <2>1 DEF FlowIn
<1>5. /\ entry.flow_id = flow.flow_id
      /\ entry.offset_list_offset = lists[i][1] /\ entry.offset_list_size = lists[i][2]
      /\ entry.packet_count = Len(offsets)
  <2>1. entry = EntryCell(flow, lists[i][1], lists[i][2])
    BY <1>1, FlowTableCells DEF AscendInv
  <2>. QED
    BY <2>1, EntryFields
<1>6. /\ bytes \in Seq(Nat) /\ lists[i][2] = Len(bytes)
      /\ HasAt(file, lists[i][1], Numbers(bytes))
  <2>1. ListIn(file, flow, lists[i])
    BY <1>1 DEF ListsIn
  <2>. QED
    BY <2>1 DEF ListIn
<1>7. DecodeOffsets(bytes, Len(offsets)) = offsets
  <2>1. TruncationKeepsPrefix
    BY CutsKeepPrefix
  <2>2. flow \in {flows[k] : k \in Key} \ {Absent}
    BY <1>1
  <2>3. \A count \in 0..Len(offsets) : DecodeOffsets(bytes, count) = SubSeq(offsets, 1, count)
    BY <2>1, <2>2 DEF TruncationKeepsPrefix
  <2>4. Len(offsets) \in 0..Len(offsets)
    BY <1>3, LenProperties
  <2>5. SubSeq(offsets, 1, Len(offsets)) = offsets
    BY <1>3, SubSeqFull
  <2>. QED
    BY <2>3, <2>4, <2>5
<1>. HIDE DEF bytes, offsets
<1>8. GetPacketOffsets(opened, entry) = offsets
  BY <1>5, <1>6, <1>7, ListReads
<1>9. \A j \in 1..Len(packets) : ReadFrame(opened, offsets[j]) = packets[j]
  BY <1>4, FrameReads
<1>10. ExtractedFlow(opened, entry) = packets /\ PipedFlow(opened, entry) = packets
  BY <1>3, <1>4, <1>8, <1>9, FlowReads
<1>11. packets # <<>>
  <2>1. Len(offsets) # 0
    BY <1>3, EmptySeq
  <2>. QED
    BY <1>4, <2>1
<1>. QED
  BY <1>1, <1>2, <1>5, <1>10, <1>11

(* So the file that is renamed is whole. *)
LEMMA RenamesWhole ==
  ASSUME AscendInv, FirstFits, FileInv, GivenInv, IdsInv, FramesThere, RegionsThere,
         stage = "rename"
  PROVE  WholeIn(written, given)
<1>1. PICK file : file = written
  OBVIOUS
<1>2. PICK table : table = FlowTable
  OBVIOUS
<1>3. PICK opened : opened = Open(file)
  OBVIOUS
<1>. DEFINE n == next_flow_id - 1
<1>4. IsSequence(file) /\ content = file /\ Len(file) # 0 /\ file[Len(file)] = regions
  <2>1. buffer = <<>> /\ IsSequence(file) /\ Len(file) # 0 /\ file[Len(file)] = regions
    BY <1>1 DEF RegionsThere, FileInv
  <2>2. file \o <<>> = file
    BY <2>1, SequenceOfItsElements, ConcatEmptySeq
  <2>. QED
    BY <1>1, <2>1, <2>2 DEF content
<1>5. FramesIn(file) /\ ListsIn(file) /\ TableIn(file)
  BY <1>4 DEF FramesThere, RegionsThere, Finalizing
<1>6. /\ n \in Nat /\ IsSequence(table) /\ DOMAIN table = 1..n /\ Len(table) = n
      /\ DOMAIN SortedFlows = 1..n
  <2>1. n \in Nat /\ DOMAIN SortedFlows = 1..n
    BY FlowsInOrder DEF AscendInv, InOrder
  <2>2. IsSequence(table) /\ DOMAIN table = 1..n
    BY <1>2, <2>1, FlowTableCells DEF AscendInv
  <2>3. DOMAIN table = 1..Len(table) /\ Len(table) \in Nat
    BY <2>2 DEF IsSequence
  <2>. HIDE DEF n
  <2>. QED
    BY <2>1, <2>2, <2>3
<1>7. Opens(file) /\ opened.file = file /\ opened.entries = table
  <2>1. regions \in Regions /\ regions.flow_table_size = Len(table)
        /\ HasAt(file, regions.flow_table_offset, table)
    BY <1>2, <1>5 DEF FileInv, TableIn
  <2>. QED
    BY <1>3, <1>4, <1>6, <2>1, TableReads
<1>8. InOrder(SortedFlows, n)
  BY FlowsInOrder DEF AscendInv
<1>. HIDE DEF n
<1>9. ASSUME NEW key \in Key, flows[key] # Absent, NEW i \in 1..n, SortedFlows[i] = flows[key]
      PROVE  /\ ExtractedFlow(opened, table[i]) = given[key]
             /\ PipedFlow(opened, table[i]) = given[key]
             /\ table[i].flow_id = flows[key].flow_id /\ given[key] # <<>>
  BY <1>2, <1>4, <1>5, <1>6, <1>7, <1>9, FlowIsRead
<1>10. ASSUME NEW i \in 1..n
       PROVE  \E key \in Key : /\ flows[key] # Absent /\ flows[key].flow_id = i
                               /\ SortedFlows[i] = flows[key]
  BY <1>8 DEF InOrder
<1>11. ASSUME NEW key \in Key, flows[key] # Absent
       PROVE  flows[key].flow_id \in 1..n /\ SortedFlows[flows[key].flow_id] = flows[key]
  BY <1>8, <1>11 DEF InOrder
<1>12. \A key \in Key : flows[key] = Absent => given[key] = <<>>
  BY <1>5 DEF FramesIn
<1>. DEFINE out(i) == ExtractedFlow(opened, table[i])
<1>13. ASSUME NEW i \in 1..n
       PROVE  /\ out(i) # <<>> /\ \E key \in Key : out(i) = given[key]
              /\ out(i) = PipedFlow(opened, table[i]) /\ table[i].flow_id = i
  <2>1. PICK key \in Key : /\ flows[key] # Absent /\ flows[key].flow_id = i
                           /\ SortedFlows[i] = flows[key]
    BY <1>10
  <2>. QED
    BY <1>9, <2>1
<1>14. ASSUME NEW key \in Key
       PROVE  given[key] = <<>> \/ \E i \in 1..n : out(i) = given[key]
  <2>1. CASE flows[key] = Absent
    BY <1>12, <2>1
  <2>2. CASE flows[key] # Absent
    BY <1>9, <1>11, <2>2
  <2>. QED
    BY <2>1, <2>2
<1>. HIDE DEF out
<1>15. {out(i) : i \in 1..n} = {given[key] : key \in Key} \ {<<>>}
  BY <1>13, <1>14
<1>16. n = Cardinality({key \in Key : given[key] # <<>>})
  <2>. DEFINE live == {key \in Key : flows[key] # Absent}
  <2>1. ASSUME NEW key \in Key
        PROVE  flows[key] # Absent <=> given[key] # <<>>
    BY <1>9, <1>11, <1>12
  <2>2. {key \in Key : given[key] # <<>>} = live
    BY <2>1
  <2>3. next_flow_id \in Nat \ {0}
    BY DEF AscendInv, TypeOK
  <2>4. Cardinality(live) = n
    BY <2>3, GroupsAreFlows DEF n
  <2>. HIDE DEF live
  <2>. QED
    BY <2>2, <2>4
<1>17. \A i \in 1..n : GetFlow(opened, table[i].flow_id) = table[i]
  <2>1. DOMAIN opened.entries = 1..n /\ \A k \in 1..n : opened.entries[k].flow_id = k
    BY <1>6, <1>7, <1>13
  <2>2. \A i \in 1..n : GetFlow(opened, opened.entries[i].flow_id) = opened.entries[i]
    BY <1>6, <2>1, EntryOfId
  <2>. QED
    BY <1>7, <2>2
<1>18. {ExtractedFlow(opened, table[i]) : i \in DOMAIN table}
         = {given[key] : key \in Key} \ {<<>>}
  BY <1>6, <1>15 DEF out
<1>19. \A i \in DOMAIN table : /\ ExtractedFlow(opened, table[i]) = PipedFlow(opened, table[i])
                              /\ GetFlow(opened, table[i].flow_id) = table[i]
  BY <1>6, <1>13, <1>17 DEF out
<1>20. Len(table) = Cardinality({key \in Key : given[key] # <<>>})
  BY <1>6, <1>16
<1>21. opened = Open(file) /\ table = Open(file).entries
  BY <1>3, <1>7
<1>22. WholeIn(file, given)
  BY <1>7, <1>18, <1>19, <1>20, <1>21, Zenon DEF WholeIn
<1>. QED
  BY <1>1, <1>22

(* What is in the file is what the regions, the flow table and the packets *)
(* given say, at every stage of a run.                                     *)
ContentInv == FileInv /\ GivenInv /\ IdsInv /\ FramesThere /\ RegionsThere

(* A new archive holds its header. *)
LEMMA CreatedContent ==
  /\ Init => ContentInv
  /\ Created => ContentInv'
<1>1. IsSequence(Header) /\ IsSequence(<<>>) /\ <<>> \o Header = Header /\ Len(Header) = 1
  <2>. DEFINE S == {[is |-> "header"]}
              e == <<>>
  <2>1. Header \in Seq(S) /\ Len(Header) = 1
    BY DEF Header
  <2>2. e \in Seq(S)
    OBVIOUS
  <2>. HIDE DEF S, e
  <2>3. IsSequence(Header) /\ IsSequence(e)
    BY <2>1, <2>2, SeqIsSequence
  <2>4. <<>> \o Header = Header
    BY <2>1, ConcatEmptySeq
  <2>. QED
    BY <2>1, <2>3, <2>4 DEF e
<1>2. NoRegions \in Regions
  BY DEF NoRegions, Regions
<1>3. NothingGiven \in [Key -> Seq(Packet)]
  <2>1. <<>> \in Seq(Packet)
    BY EmptySeq
  <2>. QED
    BY <2>1 DEF NothingGiven
<1>4. \A key \in Key : NoFlows[key] = Absent /\ NothingGiven[key] = <<>>
  BY DEF NoFlows, NothingGiven
<1>5. ASSUME Init
      PROVE  ContentInv
  <2>1. /\ flows = NoFlows /\ next_flow_id = 1 /\ file_pos = Len(Header)
        /\ written = <<>> /\ buffer = Header /\ stage = "packets"
        /\ regions = NoRegions /\ given = NothingGiven
    BY <1>5 DEF Init
  <2>2. content = Header
    BY <1>1, <2>1 DEF content
  <2>3. FileInv
    BY <1>1, <1>2, <2>1, <2>2 DEF FileInv
  <2>4. GivenInv /\ IdsInv
    BY <1>3, <1>4, <2>1 DEF GivenInv, IdsInv
  <2>5. FramesThere
    BY <1>4, <2>1 DEF FramesThere, FramesIn
  <2>6. RegionsThere
    BY <2>1 DEF RegionsThere, Finalizing
  <2>. QED
    BY <2>3, <2>4, <2>5, <2>6 DEF ContentInv
<1>6. ASSUME Created
      PROVE  ContentInv'
  <2>1. /\ flows' = NoFlows /\ next_flow_id' = 1 /\ file_pos' = Len(Header)
        /\ written' = <<>> /\ buffer' = Header /\ stage' = "packets"
        /\ regions' = NoRegions /\ given' = NothingGiven
    BY <1>6 DEF Created
  <2>2. content' = Header
    BY <1>1, <2>1 DEF content
  <2>3. FileInv'
    BY <1>1, <1>2, <2>1, <2>2 DEF FileInv
  <2>4. GivenInv' /\ IdsInv'
    BY <1>3, <1>4, <2>1 DEF GivenInv, IdsInv
  <2>5. FramesThere'
    BY <1>4, <2>1 DEF FramesThere, FramesIn
  <2>6. RegionsThere'
    BY <2>1 DEF RegionsThere, Finalizing
  <2>. QED
    BY <2>3, <2>4, <2>5, <2>6 DEF ContentInv
<1>. QED
  BY <1>5, <1>6

(* Each step of a run keeps it; a run that ended asks nothing of the file  *)
(* any more.                                                               *)
LEMMA NextContent ==
  AscendInv /\ FirstFits /\ ContentInv /\ [Next]_vars => ContentInv'
<1>. SUFFICES ASSUME AscendInv, FirstFits, ContentInv, [Next]_vars
              PROVE  ContentInv'
  OBVIOUS
<1>1. FileInv /\ GivenInv /\ IdsInv /\ FramesThere /\ RegionsThere
  BY DEF ContentInv
<1>2. ASSUME UNCHANGED <<flows, next_flow_id, given>>
      PROVE  IdsInv' /\ GivenInv'
  BY <1>1, <1>2 DEF IdsInv, GivenInv
<1>3. ASSUME NEW pkt \in Packet, NEW key \in KeysOf(pkt), WritePacket(key, pkt)
      PROVE  ContentInv'
  <2>1. FileInv' /\ GivenInv' /\ FramesThere'
    BY <1>1, <1>3, WritePacketFrames
  <2>2. IdsInv'
    BY <1>1, <1>3, WritePacketIds
  <2>3. stage' = "packets"
    BY <1>3 DEF WritePacket
  <2>4. RegionsThere'
    BY <2>3 DEF RegionsThere, Finalizing
  <2>. QED
    BY <2>1, <2>2, <2>4 DEF ContentInv
<1>4. CASE WriteOffsetLists
  <2>1. FileInv' /\ FramesThere' /\ RegionsThere'
    BY <1>1, <1>4, OffsetListsThere
  <2>2. IdsInv' /\ GivenInv'
    BY <1>2, <1>4 DEF WriteOffsetLists
  <2>. QED
    BY <2>1, <2>2 DEF ContentInv
<1>5. CASE WriteFlowTable
  <2>1. FileInv' /\ FramesThere' /\ RegionsThere'
    BY <1>1, <1>5, FlowTableThere
  <2>2. IdsInv' /\ GivenInv'
    BY <1>2, <1>5 DEF WriteFlowTable
  <2>. QED
    BY <2>1, <2>2 DEF ContentInv
<1>6. CASE WriteSecondaryIndexes
  <2>1. FileInv' /\ FramesThere' /\ RegionsThere'
    BY <1>1, <1>6, IndexesThere
  <2>2. IdsInv' /\ GivenInv'
    BY <1>2, <1>6 DEF WriteSecondaryIndexes
  <2>. QED
    BY <2>1, <2>2 DEF ContentInv
<1>7. CASE WriteFooter
  <2>1. FileInv' /\ FramesThere' /\ RegionsThere'
    BY <1>1, <1>7, FooterThere
  <2>2. IdsInv' /\ GivenInv'
    BY <1>2, <1>7 DEF WriteFooter
  <2>. QED
    BY <2>1, <2>2 DEF ContentInv
<1>8. ASSUME Rename \/ Fails \/ Crash
      PROVE  ContentInv'
  <2>1. /\ stage' \in {"done", "failed"} /\ UNCHANGED <<flows, next_flow_id, given, regions>>
        /\ \/ UNCHANGED <<written, buffer>>
           \/ written' = written \o buffer /\ buffer' = <<>>
           \/ written' = written /\ buffer' = <<>>
    BY <1>8 DEF Rename, Fails, Crash, fileVars
  <2>2. IsSequence(written') /\ IsSequence(buffer')
    <3>1. <<>> \in Seq({})
      BY EmptySeq
    <3>2. IsSequence(<<>>) /\ IsSequence(written) /\ IsSequence(buffer)
      BY <1>1, <3>1, SeqIsSequence DEF FileInv
    <3>3. IsSequence(written \o buffer)
      BY <3>2, SequenceConcat
    <3>. QED
      BY <2>1, <3>2, <3>3
  <2>3. FileInv'
    BY <1>1, <2>1, <2>2 DEF FileInv
  <2>4. FramesThere' /\ RegionsThere'
    BY <2>1 DEF FramesThere, RegionsThere, Finalizing
  <2>. QED
    BY <1>2, <2>1, <2>3, <2>4 DEF ContentInv
<1>9. CASE Restart
  BY <1>9, CreatedContent DEF Restart
<1>10. CASE Finished \/ UNCHANGED vars
  <2>1. /\ flows' = flows /\ next_flow_id' = next_flow_id /\ given' = given /\ lists' = lists
        /\ regions' = regions /\ stage' = stage /\ file_pos' = file_pos
        /\ written' = written /\ buffer' = buffer
    BY <1>10 DEF Finished, vars
  <2>2. content' = content /\ SortedFlows' = SortedFlows
    BY <2>1 DEF content, SortedFlows
  <2>3. FlowTable' = FlowTable
    BY <2>1, <2>2 DEF FlowTable
  <2>4. FileInv'
    BY <1>1, <2>1, <2>2 DEF FileInv
  <2>5. FramesThere'
    BY <1>1, <2>1, <2>2 DEF FramesThere, FramesIn
  <2>6. RegionsThere'
    BY <1>1, <2>1, <2>2, <2>3 DEF RegionsThere, ListsIn, TableIn
  <2>. QED
    BY <1>2, <2>1, <2>4, <2>5, <2>6 DEF ContentInv
<1>. QED
  BY <1>3, <1>4, <1>5, <1>6, <1>7, <1>8, <1>9, <1>10 DEF Next

(* Only Rename changes what is under the final name. *)
LEMMA NextArchiveIsWhole ==
  AscendInv /\ FirstFits /\ ContentInv /\ ArchiveIsWhole /\ [Next]_vars => ArchiveIsWhole'
<1>. SUFFICES ASSUME AscendInv, FirstFits, ContentInv, ArchiveIsWhole, [Next]_vars
              PROVE  ArchiveIsWhole'
  OBVIOUS
<1>1. ArchiveIsWhole = (final # NoArchive => WholeIn(final, published))
  BY DEF ArchiveIsWhole, Opened, WholeIn
<1>2. ArchiveIsWhole' = (final' # NoArchive => WholeIn(final', published'))
  BY DEF ArchiveIsWhole, Opened, WholeIn
<1>3. CASE Rename
  <2>1. stage = "rename" /\ final' = written /\ published' = given
    BY <1>3 DEF Rename
  <2>2. WholeIn(written, given)
    BY <2>1, RenamesWhole DEF ContentInv
  <2>. QED
    BY <1>2, <2>1, <2>2
<1>4. ASSUME UNCHANGED <<final, published>>
      PROVE  ArchiveIsWhole'
  BY <1>1, <1>2, <1>4
<1>5. ASSUME NEW pkt \in Packet, NEW key \in KeysOf(pkt), WritePacket(key, pkt)
      PROVE  ArchiveIsWhole'
  BY <1>4, <1>5 DEF WritePacket
<1>6. CASE WriteOffsetLists \/ WriteFlowTable \/ WriteSecondaryIndexes \/ WriteFooter
  BY <1>4, <1>6 DEF WriteOffsetLists, WriteFlowTable, WriteSecondaryIndexes, WriteFooter
<1>7. CASE Fails \/ Crash \/ Restart
  BY <1>4, <1>7 DEF Fails, Crash, Restart
<1>8. CASE Finished \/ UNCHANGED vars
  BY <1>4, <1>8 DEF Finished, vars
<1>. QED
  BY <1>3, <1>5, <1>6, <1>7, <1>8 DEF Next

(* Whatever fails or is killed, in whichever run: what is under the final  *)
(* name opens, holds the packets of each group of the run that published   *)
(* it, all of them and in order, as one flow each, and extract, pipe and   *)
(* the lookup of a flow by its id agree on them.                           *)
THEOREM ArchiveIsWholeAlways == Spec /\ []PositionFits => []ArchiveIsWhole
<1>1. Init => FirstFits /\ ArchiveIsWhole
  BY DEF Init, NoFlows, FirstFits, ArchiveIsWhole
<1>. QED
  BY <1>1, CreatedAscendInv, NextAscendInv, NextFirstFits, CreatedContent, NextContent,
     NextArchiveIsWhole, PTL DEF Spec
-----------------------------------------------------------------------------
(* The indexes are where the footer will say, once they are written.       *)
IndexIn(file) ==
  regions.secondary_index_offset # 0 =>
    LET cells == IndexCells(BuildIndexes(FlowTable))
    IN /\ regions.secondary_index_size = Len(cells)
       /\ HasAt(file, regions.secondary_index_offset, cells)

IndexThere ==
  /\ stage \in {"packets", "table", "index"} => regions.secondary_index_offset = 0
  /\ stage \in {"footer", "rename"} => IndexIn(content)

LEMMA NextIndexThere ==
  AscendInv /\ ContentInv /\ IndexThere /\ [Next]_vars => IndexThere'
<1>. SUFFICES ASSUME AscendInv, ContentInv, IndexThere, [Next]_vars
              PROVE  IndexThere'
  OBVIOUS
<1>1. FileInv /\ IdsInv /\ regions \in Regions
  BY DEF ContentInv, FileInv
<1>2. ASSUME NEW pkt \in Packet, NEW key \in KeysOf(pkt), WritePacket(key, pkt)
      PROVE  IndexThere'
  BY <1>2 DEF IndexThere, WritePacket
<1>3. CASE WriteOffsetLists
  <2>1. /\ stage = "packets" /\ stage' = "table"
        /\ regions' = [regions EXCEPT !.flow_packet_offset = file_pos]
    BY <1>3 DEF WriteOffsetLists
  <2>2. regions'.secondary_index_offset = regions.secondary_index_offset
    BY <1>1, <2>1 DEF Regions
  <2>. QED
    BY <2>1, <2>2 DEF IndexThere
<1>4. CASE WriteFlowTable
  <2>1. /\ stage = "table" /\ stage' \in {"index", "footer"}
        /\ regions' = [regions EXCEPT !.flow_table_offset = file_pos,
                                      !.flow_table_size = Len(FlowTable)]
    BY <1>4 DEF WriteFlowTable
  <2>2. regions'.secondary_index_offset = regions.secondary_index_offset
    <3>. DEFINE size == Len(FlowTable)
    <3>. HIDE DEF size
    <3>1. regions' = [regions EXCEPT !.flow_table_offset = file_pos, !.flow_table_size = size]
      BY <2>1 DEF size
    <3>. QED
      BY <1>1, <3>1 DEF Regions
  <2>. QED
    BY <2>1, <2>2 DEF IndexThere, IndexIn
<1>5. CASE WriteSecondaryIndexes
  <2>1. PICK cells : cells = IndexCells(BuildIndexes(FlowTable))
    OBVIOUS
  <2>2. /\ stage = "index" /\ stage' = "footer" /\ WriteAndFlush(cells)
        /\ regions' = [regions EXCEPT !.secondary_index_offset = file_pos,
                                      !.secondary_index_size = Len(cells)]
        /\ flows' = flows /\ lists' = lists
    BY <1>5, <2>1 DEF WriteSecondaryIndexes
  <2>3. IsSequence(cells) /\ Len(cells) \in Nat
    <3>1. PICK entries : entries = FlowTable
      OBVIOUS
    <3>2. IsTable(entries)
      BY <1>1, <3>1, FlowTableIsTable DEF AscendInv
    <3>. QED
      BY <2>1, <3>1, <3>2, TableIsIndexed DEF IsSequence
  <2>4. IsSequence(written) /\ IsSequence(buffer) /\ file_pos = Len(content)
    BY <1>1, <2>2 DEF FileInv
  <2>5. IsSequence(content) /\ content' = content \o cells
    BY <2>2, <2>3, <2>4, WritesAppend
  <2>6. FlowTable' = FlowTable
    <3>1. SortedFlows' = SortedFlows
      BY <2>2 DEF SortedFlows
    <3>. QED
      BY <2>2, <3>1 DEF FlowTable
  <2>7. /\ regions'.secondary_index_offset = Len(content)
        /\ regions'.secondary_index_size = Len(cells)
    BY <1>1, <2>2, <2>4 DEF Regions
  <2>8. HasAt(content', Len(content), cells)
    BY <2>3, <2>5, HasWhatIsAppended
  <2>9. (IndexIn(content))'
    BY <2>1, <2>6, <2>7, <2>8 DEF IndexIn
  <2>. QED
    BY <2>2, <2>9 DEF IndexThere
<1>6. CASE WriteFooter
  <2>1. PICK cells : cells = <<regions>>
    OBVIOUS
  <2>2. /\ stage = "footer" /\ stage' = "rename" /\ WriteAndFlush(cells)
        /\ regions' = regions /\ flows' = flows /\ lists' = lists
    BY <1>6, <2>1 DEF WriteFooter
  <2>3. IsSequence(cells)
    <3>. DEFINE r == regions
    <3>1. <<r>> \in Seq({r})
      OBVIOUS
    <3>. QED
      BY <2>1, <3>1, SeqIsSequence
  <2>4. IsSequence(content) /\ content' = content \o cells
    BY <1>1, <2>2, <2>3, WritesAppend DEF FileInv
  <2>5. FlowTable' = FlowTable
    <3>1. SortedFlows' = SortedFlows
      BY <2>2 DEF SortedFlows
    <3>. QED
      BY <2>2, <3>1 DEF FlowTable
  <2>6. (IndexIn(content))'
    <3>1. PICK index : index = IndexCells(BuildIndexes(FlowTable))
      OBVIOUS
    <3>2. IsSequence(index)
      <4>1. PICK entries : entries = FlowTable
        OBVIOUS
      <4>2. IsTable(entries)
        BY <1>1, <4>1, FlowTableIsTable DEF AscendInv
      <4>. QED
        BY <3>1, <4>1, <4>2, TableIsIndexed
    <3>3. ASSUME regions.secondary_index_offset # 0
          PROVE  /\ regions.secondary_index_size = Len(index)
                 /\ HasAt(content', regions.secondary_index_offset, index)
      <4>1. /\ regions.secondary_index_size = Len(index)
            /\ HasAt(content, regions.secondary_index_offset, index)
        BY <2>2, <3>1, <3>3 DEF IndexThere, IndexIn
      <4>2. HasAt(content \o cells, regions.secondary_index_offset, index)
        BY <2>3, <2>4, <3>2, <4>1, StillHas
      <4>. QED
        BY <2>4, <4>1, <4>2
    <3>. QED
      BY <2>2, <2>5, <3>1, <3>3 DEF IndexIn
  <2>. QED
    BY <2>2, <2>6 DEF IndexThere
<1>7. CASE Rename \/ Fails \/ Crash
  BY <1>7 DEF Rename, Fails, Crash, IndexThere
<1>8. CASE Restart
  <2>1. stage' = "packets" /\ regions' = NoRegions
    BY <1>8 DEF Restart, Created
  <2>. QED
    BY <2>1 DEF IndexThere, NoRegions
<1>9. CASE Finished \/ UNCHANGED vars
  <2>1. /\ flows' = flows /\ lists' = lists /\ regions' = regions /\ stage' = stage
        /\ written' = written /\ buffer' = buffer
    BY <1>9 DEF Finished, vars
  <2>2. content' = content /\ SortedFlows' = SortedFlows
    BY <2>1 DEF content, SortedFlows
  <2>3. FlowTable' = FlowTable
    BY <2>1, <2>2 DEF FlowTable
  <2>. QED
    BY <2>1, <2>2, <2>3 DEF IndexThere, IndexIn
<1>. QED
  BY <1>2, <1>3, <1>4, <1>5, <1>6, <1>7, <1>8, <1>9 DEF Next

(* What IndexAnswersAsScan promises of a file. *)
AnswersIn(file) ==
  LET opened == Open(file)
  IN /\ opened.file = file /\ IsTable(opened.entries)
     /\ \A key : /\ FindByIp(opened, key) = ScanIp(opened.entries, key)
                 /\ FindByPort(opened, key) = ScanPort(opened.entries, key)
                 /\ FindByProtocol(opened, key) = ScanProto(opened.entries, key)

(* The indexes are opened, if there are any: those of the flow table.      *)
LEMMA IndexReads ==
  ASSUME NEW file, IsSequence(file), Opens(file),
         NEW footer, file[Len(file)] = footer, NEW entries, IsTable(entries),
         footer.secondary_index_offset # 0 =>
           LET cells == IndexCells(BuildIndexes(entries))
           IN /\ footer.secondary_index_size = Len(cells)
              /\ HasAt(file, footer.secondary_index_offset, cells)
  PROVE  Open(file).index \in {Absent, BuildIndexes(entries)}
<1>. DEFINE off == footer.secondary_index_offset
            size == footer.secondary_index_size
<1>1. PICK cells : cells = IndexCells(BuildIndexes(entries))
  OBVIOUS
<1>2. IsSequence(cells) /\ Len(cells) # 0 /\ ParseIndex(cells) = BuildIndexes(entries)
  BY <1>1, TableIsIndexed
<1>. DEFINE index == IF off = 0 \/ size = 0 \/ off + size > Len(file) THEN Absent
                     ELSE ParseIndex(Slice(file, off, size))
            table == Slice(file, footer.flow_table_offset, footer.flow_table_size)
<1>3. Open(file) = [file |-> file, entries |-> table, index |-> index]
  BY DEF Open
<1>4. ASSUME off # 0
      PROVE  Slice(file, off, size) = cells
  <2>1. size = Len(cells) /\ HasAt(file, off, cells)
    BY <1>1, <1>4
  <2>. HIDE DEF off, size
  <2>2. SubSeq(file, off + 1, off + Len(cells)) = cells
    BY <1>2, <2>1, SliceOfWhatItHas
  <2>. QED
    BY <2>1, <2>2 DEF Slice
<1>5. index \in {Absent, BuildIndexes(entries)}
  <2>. HIDE DEF off, size
  <2>. QED
    BY <1>2, <1>4
<1>. HIDE DEF index, table
<1>. QED
  BY <1>3, <1>5

(* So the file that is renamed answers as its flow table does.             *)
LEMMA RenamesAnswering ==
  ASSUME AscendInv, ContentInv, IndexThere, stage = "rename"
  PROVE  AnswersIn(written)
<1>1. PICK file : file = written
  OBVIOUS
<1>2. PICK entries : entries = FlowTable
  OBVIOUS
<1>3. PICK opened : opened = Open(file)
  OBVIOUS
<1>4. IsTable(entries) /\ IsSequence(entries)
  BY <1>2, FlowTableIsTable DEF AscendInv, ContentInv, IsTable
<1>5. IsSequence(file) /\ content = file /\ Len(file) # 0 /\ file[Len(file)] = regions
  <2>1. buffer = <<>> /\ IsSequence(file) /\ Len(file) # 0 /\ file[Len(file)] = regions
    BY <1>1 DEF ContentInv, RegionsThere, FileInv
  <2>2. file \o <<>> = file
    BY <2>1, SequenceOfItsElements, ConcatEmptySeq
  <2>. QED
    BY <1>1, <2>1, <2>2 DEF content
<1>6. Opens(file) /\ opened.entries = entries /\ opened.file = file
  <2>1. regions \in Regions /\ regions.flow_table_size = Len(entries)
        /\ HasAt(file, regions.flow_table_offset, entries)
    BY <1>2, <1>5 DEF ContentInv, FileInv, RegionsThere, Finalizing, TableIn
  <2>. QED
    BY <1>3, <1>4, <1>5, <2>1, TableReads
<1>7. opened.index \in {Absent, BuildIndexes(entries)}
  <2>1. PICK footer : footer = regions
    OBVIOUS
  <2>2. footer.secondary_index_offset # 0 =>
          LET cells == IndexCells(BuildIndexes(entries))
          IN /\ footer.secondary_index_size = Len(cells)
             /\ HasAt(file, footer.secondary_index_offset, cells)
    BY <1>2, <1>5, <2>1 DEF IndexThere, IndexIn
  <2>. QED
    BY <1>3, <1>4, <1>5, <1>6, <2>1, <2>2, IndexReads
<1>8. ASSUME NEW key
      PROVE  /\ FindByIp(opened, key) = ScanIp(opened.entries, key)
             /\ FindByPort(opened, key) = ScanPort(opened.entries, key)
             /\ FindByProtocol(opened, key) = ScanProto(opened.entries, key)
  <2>1. CASE opened.index = Absent
    BY <2>1, Zenon DEF FindByIp, FindByPort, FindByProtocol
  <2>2. CASE opened.index # Absent
    <3>1. PICK idx : idx = opened.index /\ idx = BuildIndexes(entries)
      BY <1>7, <2>2
    <3>2. /\ LookupIp(idx, key) = ScanIp(entries, key)
          /\ LookupPort(idx, key) = ScanPort(entries, key)
          /\ LookupProto(idx, key) = ScanProto(entries, key)
      BY <1>4, <3>1, BuiltIndexes
    <3>. QED
      BY <1>6, <2>2, <3>1, <3>2, Zenon DEF FindByIp, FindByPort, FindByProtocol
  <2>. QED
    BY <2>1, <2>2
<1>. QED
  BY <1>1, <1>3, <1>4, <1>6, <1>8 DEF AnswersIn

(* Nothing else changes what is under the final name. *)
FinalAnswers == Opens(final) => AnswersIn(final)

LEMMA NextFinalAnswers ==
  AscendInv /\ ContentInv /\ IndexThere /\ FinalAnswers /\ [Next]_vars => FinalAnswers'
<1>. SUFFICES ASSUME AscendInv, ContentInv, IndexThere, FinalAnswers, [Next]_vars
              PROVE  FinalAnswers'
  OBVIOUS
<1>1. FinalAnswers' = (Opens(final') => AnswersIn(final'))
  BY DEF FinalAnswers, AnswersIn
<1>2. ASSUME final' = final
      PROVE  FinalAnswers'
  BY <1>1, <1>2 DEF FinalAnswers
<1>3. CASE Rename
  <2>1. stage = "rename" /\ final' = written
    BY <1>3 DEF Rename
  <2>2. AnswersIn(written)
    BY <2>1, RenamesAnswering
  <2>. QED
    BY <1>1, <2>1, <2>2
<1>4. ASSUME NEW pkt \in Packet, NEW key \in KeysOf(pkt), WritePacket(key, pkt)
      PROVE  FinalAnswers'
  BY <1>2, <1>4 DEF WritePacket
<1>5. CASE WriteOffsetLists \/ WriteFlowTable \/ WriteSecondaryIndexes \/ WriteFooter
  BY <1>2, <1>5 DEF WriteOffsetLists, WriteFlowTable, WriteSecondaryIndexes, WriteFooter
<1>6. CASE Fails \/ Crash \/ Restart
  BY <1>2, <1>6 DEF Fails, Crash, Restart
<1>7. CASE Finished \/ UNCHANGED vars
  BY <1>2, <1>7 DEF Finished, vars
<1>. QED
  BY <1>3, <1>4, <1>5, <1>6, <1>7 DEF Next

LEMMA CreatedIndexThere == Init => IndexThere /\ FinalAnswers
BY DEF Init, NoRegions, IndexThere, FinalAnswers, NoArchive, Opens

LEMMA AnswersForEveryKey == FinalAnswers => IndexAnswersAsScan
<1>. SUFFICES ASSUME FinalAnswers, Opens(final)
              PROVE  IndexAnswersAsScan
  BY DEF IndexAnswersAsScan
<1>1. \A key : /\ FindByIp(Opened, key) = ScanIp(Opened.entries, key)
               /\ FindByPort(Opened, key) = ScanPort(Opened.entries, key)
               /\ FindByProtocol(Opened, key) = ScanProto(Opened.entries, key)
  BY DEF FinalAnswers, AnswersIn, Opened
<1>. QED
  BY <1>1, Zenon DEF IndexAnswersAsScan

(* The indexes of an archive under its final name answer each question as  *)
(* the scan of its flow table does that they stand for: for an address, a  *)
(* port or a protocol that flows have, and for one that no flow has.       *)
THEOREM IndexAnswersAsScanAlways == Spec /\ []PositionFits => []IndexAnswersAsScan
<1>1. Init => FirstFits
  BY DEF Init, NoFlows, FirstFits
<1>. QED
  BY <1>1, CreatedAscendInv, NextAscendInv, NextFirstFits, CreatedContent, NextContent,
     CreatedIndexThere, NextIndexThere, NextFinalAnswers, AnswersForEveryKey, PTL DEF Spec
-----------------------------------------------------------------------------
(* Of a list in ascending order, those of a set are kept in that order.    *)
LEMMA RetainedAscend ==
  ASSUME NEW S, S \subseteq Int, NEW t, Lists(t, S), NEW T
  PROVE  Lists(Retained(t, T), S \cap T)
<1>. DEFINE n == Len(t)
            parts == [i \in 1..n |-> IF t[i] \in T THEN <<t[i]>> ELSE <<>>]
            U(m) == {t[i] : i \in 1..m} \cap T
<1>1. /\ n \in Nat /\ DOMAIN t = 1..n
      /\ \A i \in 1..n : t[i] \in S /\ t[i] \in Int
      /\ \A x \in S : \E i \in 1..n : t[i] = x
      /\ \A i, j \in 1..n : i < j => t[i] < t[j]
  BY LenProperties, ElementOfSeq DEF Lists
<1>. HIDE DEF n
<1>2. \A i \in 1..n : parts[i] = IF t[i] \in T THEN <<t[i]>> ELSE <<>>
  OBVIOUS
<1>3. Retained(t, T) = FlattenSeq(parts)
  BY <1>1 DEF Retained
<1>4. parts = [i \in 1..n |-> parts[i]]
  OBVIOUS
<1>. HIDE DEF parts
<1>5. ASSUME NEW i \in 1..n
      PROVE  parts[i] \in Seq(Int)
  <2>1. t[i] \in Int /\ <<t[i]>> \in Seq(Int) /\ <<>> \in Seq(Int)
    BY <1>1
  <2>. QED
    BY <1>2, <2>1
<1>6. PICK f \in [0..n -> Seq(Int)] : Flattens(parts, n, f)
  BY <1>1, <1>5, FlattenByParts
<1>7. /\ f[0] = <<>> /\ f[n] = FlattenSeq([j \in 1..n |-> parts[j]])
      /\ \A m \in 0..n - 1 : f[m + 1] = f[m] \o parts[m + 1]
  <2>1. n \in 0..n
    BY <1>1
  <2>. QED
    BY <1>6, <2>1 DEF Flattens
<1>. DEFINE G == {m \in 0..n : Lists(f[m], U(m))}
<1>8. 0 \in G
  <2>1. U(0) = {} /\ Len(<<>>) = 0 /\ 0 \in 0..n
    BY <1>1
  <2>2. Lists(<<>>, {})
    BY EmptySeq DEF Lists
  <2>. QED
    BY <1>7, <2>1, <2>2
<1>9. ASSUME NEW m \in 0..n - 1, Lists(f[m], U(m))
      PROVE  Lists(f[m + 1], U(m + 1))
  <2>1. /\ m \in Nat /\ m \in 0..n /\ m + 1 \in 1..n
        /\ \A i \in 1..m : i \in 1..n /\ i < m + 1
        /\ \A i \in 1..m + 1 : i \in 1..m \/ i = m + 1
        /\ \A i \in 1..m : i \in 1..m + 1
        /\ m + 1 \in 1..m + 1
    BY <1>1
  <2>2. f[m + 1] = f[m] \o parts[m + 1] /\ f[m] \in Seq(Int)
    BY <1>6, <1>7, <2>1
  <2>3. t[m + 1] \in Int /\ U(m) \subseteq Int /\ \A y \in U(m) : y < t[m + 1]
    BY <1>1, <2>1
  <2>4. {t[i] : i \in 1..m + 1} = {t[i] : i \in 1..m} \cup {t[m + 1]}
    BY <2>1
  <2>5. CASE t[m + 1] \in T
    <3>1. U(m + 1) = U(m) \cup {t[m + 1]}
      BY <2>4, <2>5
    <3>2. parts[m + 1] = <<t[m + 1]>>
      BY <1>2, <2>1, <2>5
    <3>. HIDE DEF U
    <3>3. Lists(f[m] \o <<t[m + 1]>>, U(m) \cup {t[m + 1]})
      BY <1>9, <2>3, ListsOneMore
    <3>. QED
      BY <2>2, <3>1, <3>2, <3>3, Zenon
  <2>6. CASE t[m + 1] \notin T
    <3>1. U(m + 1) = U(m)
      BY <2>4, <2>6
    <3>2. parts[m + 1] = <<>>
      BY <1>2, <2>1, <2>6
    <3>3. f[m] \o <<>> = f[m]
      BY <2>2, ConcatEmptySeq
    <3>. QED
      BY <1>9, <2>2, <3>1, <3>2, <3>3, Zenon
  <2>. QED
    BY <2>5, <2>6
<1>. HIDE DEF U
<1>10. \A m \in 0..n - 1 : m \in G => m + 1 \in G
  <2>1. ASSUME NEW m \in 0..n - 1, m \in G
        PROVE  m + 1 \in G
    <3>1. Lists(f[m], U(m))
      BY <2>1, Zenon
    <3>2. Lists(f[m + 1], U(m + 1))
      BY <1>9, <3>1
    <3>3. m + 1 \in 0..n
      BY <1>1
    <3>. QED
      BY <3>2, <3>3, Zenon
  <2>. QED
    BY <2>1
<1>. HIDE DEF G
<1>11. n \in G
  <2>1. \A m \in 0..n : m \in G
    BY <1>1, <1>8, <1>10, CountInduction
  <2>. QED
    BY <1>1, <2>1
<1>12. Lists(f[n], S \cap T)
  <2>1. U(n) = S \cap T
    BY <1>1 DEF U
  <2>. QED
    BY <1>11, <2>1 DEF G
<1>. QED
  BY <1>3, <1>4, <1>7, <1>12

(* The ids of a flow table, and what a question about them gives. *)
LEMMA TableIds ==
  ASSUME NEW entries, IsTable(entries), NEW W
  PROVE  /\ ToSet(Ids(entries)) = DOMAIN entries /\ DOMAIN entries \subseteq Int
         /\ Lists(Retained(Ids(entries), W), DOMAIN entries \cap W)
<1>. DEFINE n == Len(entries)
            ids == Ids(entries)
<1>1. n \in Nat /\ DOMAIN entries = 1..n /\ \A i \in 1..n : entries[i].flow_id = i
  BY SequenceOfItsElements DEF IsTable, IsSequence
<1>. HIDE DEF n
<1>2. ids = [i \in 1..n |-> i]
  BY <1>1 DEF Ids
<1>3. ToSet(ids) = 1..n
  BY <1>2 DEF ToSet
<1>4. ids \in Seq(1..n) /\ Len(ids) = n
  <2>1. ids \in [1..n -> 1..n]
    BY <1>2
  <2>. HIDE DEF ids
  <2>2. ids \in Seq(1..n)
    BY <1>1, <2>1, SeqDef
  <2>. QED
    BY <1>1, <2>1, <2>2, LenProperties
<1>5. Lists(ids, 1..n)
  <2>1. \A i \in 1..n : ids[i] = i
    BY <1>2
  <2>. HIDE DEF ids
  <2>. QED
    BY <1>1, <1>4, <2>1 DEF Lists
<1>. HIDE DEF ids
<1>6. 1..n \subseteq Int
  OBVIOUS
<1>7. Lists(Retained(ids, W), (1..n) \cap W)
  BY <1>5, <1>6, RetainedAscend
<1>. QED
  BY <1>1, <1>3, <1>6, <1>7 DEF ids

(* The elements of a list that is in ascending order. *)
LEMMA ListedSet ==
  ASSUME NEW S, NEW t, Lists(t, S)
  PROVE  ToSet(t) = S /\ (t = <<>> <=> S = {})
<1>1. /\ t \in Seq(S) /\ Len(t) \in Nat /\ DOMAIN t = 1..Len(t)
      /\ \A i \in 1..Len(t) : t[i] \in S
      /\ \A x \in S : \E i \in 1..Len(t) : t[i] = x
  BY LenProperties, ElementOfSeq DEF Lists
<1>2. ToSet(t) = {t[i] : i \in 1..Len(t)}
  BY <1>1 DEF ToSet
<1>3. t = <<>> <=> Len(t) = 0
  BY <1>1, EmptySeq
<1>. QED
  BY <1>1, <1>2, <1>3
-----------------------------------------------------------------------------
(* The reader has the archive open, whose indexes answer as the table.     *)
ReaderInv == reader # Absent => reader = Open(reader.file) /\ AnswersIn(reader.file)

(* Filters are applied to an archive that was opened, and not beyond the   *)
(* last one; before, nothing is open or applied.                           *)
CommandInv ==
  /\ applied \in Nat /\ (applied = 0 => target_flows = <<>>)
  /\ step = "idle" => reader = Absent /\ applied = 0
  /\ step = "filtering" =>
       /\ reader # Absent
       /\ command.filters \in Seq(Filter) /\ applied <= Len(command.filters)

(* What holds while a command line is carried out. *)
QueryInv == ReaderInv /\ CommandInv /\ FiltersIntersect

(* What a filter finds, through the index or without, are in order the     *)
(* flows that the scan of the table finds.                                 *)
LEMMA FilterFinds ==
  ASSUME ReaderInv, reader # Absent, NEW filter \in Filter
  PROVE  /\ IsTable(reader.entries) /\ Found(filter) \subseteq DOMAIN reader.entries
         /\ Lists(Find(filter), Found(filter))
<1>1. PICK entries : entries = reader.entries
  OBVIOUS
<1>2. PICK value : value = filter.value
  OBVIOUS
<1>. DEFINE D == DOMAIN entries
            ip == {i \in D : value \in {entries[i].src_ip, entries[i].dst_ip}}
            port == {i \in D : value \in {entries[i].src_port, entries[i].dst_port}}
            proto == {i \in D : entries[i].protocol = value}
<1>3. /\ IsTable(entries)
      /\ FindByIp(reader, value) = ScanIp(entries, value)
      /\ FindByPort(reader, value) = ScanPort(entries, value)
      /\ FindByProtocol(reader, value) = ScanProto(entries, value)
  BY <1>1, Zenon DEF ReaderInv, AnswersIn
<1>4. ASSUME NEW hits, hits \subseteq D
      PROVE  Lists(IdsWhere(entries, hits), hits)
  <2>1. IdsWhere(entries, hits) = Ascending(hits)
    BY <1>3, <1>4, ScannedIds
  <2>2. \E n \in Nat : D = 1..n
    BY <1>3 DEF IsTable, IsSequence
  <2>3. IsFiniteSet(D) /\ D \subseteq Int
    BY <2>2, FS_Interval
  <2>4. IsFiniteSet(hits) /\ hits \subseteq Int
    BY <1>4, <2>3, FS_Subset
  <2>. QED
    BY <2>1, <2>4, AscendingLists
<1>5. /\ ScanIp(entries, value) = IdsWhere(entries, ip)
      /\ ScanPort(entries, value) = IdsWhere(entries, port)
      /\ ScanProto(entries, value) = IdsWhere(entries, proto)
  BY DEF ScanIp, ScanPort, ScanProto
<1>6. ip \subseteq D /\ port \subseteq D /\ proto \subseteq D
  OBVIOUS
<1>. HIDE DEF ip, port, proto, D
<1>7. /\ Lists(ScanIp(entries, value), ip) /\ ToSet(ScanIp(entries, value)) = ip
      /\ Lists(ScanPort(entries, value), port) /\ ToSet(ScanPort(entries, value)) = port
      /\ Lists(ScanProto(entries, value), proto) /\ ToSet(ScanProto(entries, value)) = proto
  BY <1>4, <1>5, <1>6, ListedSet
<1>8. filter.by \in {"ip", "port", "proto"}
  BY DEF Filter
<1>9. CASE filter.by = "ip"
  <2>1. Find(filter) = ScanIp(entries, value) /\ Found(filter) = ToSet(ScanIp(entries, value))
    BY <1>1, <1>2, <1>3, <1>9 DEF Find, Found
  <2>. QED
    BY <1>1, <1>3, <1>6, <1>7, <2>1 DEF D
<1>10. CASE filter.by = "port"
  <2>1. Find(filter) = ScanPort(entries, value) /\ Found(filter) = ToSet(ScanPort(entries, value))
    BY <1>1, <1>2, <1>3, <1>10 DEF Find, Found
  <2>. QED
    BY <1>1, <1>3, <1>6, <1>7, <2>1 DEF D
<1>11. CASE filter.by = "proto"
  <2>1. Find(filter) = ScanProto(entries, value) /\ Found(filter) = ToSet(ScanProto(entries, value))
    BY <1>1, <1>2, <1>3, <1>11 DEF Find, Found
  <2>. QED
    BY <1>1, <1>3, <1>6, <1>7, <2>1 DEF D
<1>. QED
  BY <1>8, <1>9, <1>10, <1>11

(* One filter more. *)
LEMMA ApplyFilterIntersects ==
  ASSUME QueryInv, ApplyFilter
  PROVE  QueryInv'
<1>1. /\ step = "filtering" /\ applied < Len(command.filters)
      /\ applied' = applied + 1
      /\ target_flows' = Combined(target_flows, Find(command.filters[applied + 1]))
      /\ reader' = reader /\ command' = command /\ step' = step
  BY DEF ApplyFilter
<1>2. PICK m \in Nat : m = applied
  BY DEF QueryInv, CommandInv
<1>3. PICK filter : filter = command.filters[m + 1]
  OBVIOUS
<1>4. /\ reader # Absent /\ command.filters \in Seq(Filter)
      /\ m + 1 <= Len(command.filters) /\ filter \in Filter
  <2>1. reader # Absent /\ command.filters \in Seq(Filter) /\ Len(command.filters) \in Nat
    BY <1>1, LenProperties DEF QueryInv, CommandInv
  <2>2. m + 1 \in 1..Len(command.filters)
    BY <1>1, <1>2, <2>1
  <2>. QED
    BY <1>3, <2>1, <2>2, ElementOfSeq
<1>5. ReaderInv'
  BY <1>1 DEF QueryInv, ReaderInv, AnswersIn
<1>6. CommandInv'
  <2>1. applied' \in Nat /\ applied' # 0 /\ applied' <= Len(command.filters)
    BY <1>1, <1>2, <1>4
  <2>. QED
    BY <1>1, <1>4, <2>1 DEF CommandInv
<1>7. PICK entries : entries = reader.entries
  OBVIOUS
<1>8. PICK H : H = Found(filter)
  OBVIOUS
<1>9. PICK found : found = Find(filter)
  OBVIOUS
<1>10. IsTable(entries) /\ H \subseteq DOMAIN entries /\ Lists(found, H)
  BY <1>4, <1>7, <1>8, <1>9, FilterFinds DEF QueryInv
<1>. DEFINE W(n) == Wanted(n)
            D == DOMAIN entries
<1>11. /\ ToSet(Ids(entries)) = D /\ D \subseteq Int
       /\ \A n : Lists(Retained(Ids(entries), W(n)), D \cap W(n))
  BY <1>10, TableIds
<1>12. \A n : W(n) = {id \in D : \A i \in 1..n : id \in Found(command.filters[i])}
  BY <1>7, <1>11 DEF Wanted
<1>13. W(m + 1) = W(m) \cap H
  <2>1. 1..m + 1 = (1..m) \cup {m + 1}
    OBVIOUS
  <2>. QED
    BY <1>3, <1>8, <1>12, <2>1
<1>14. W(0) = D
  <2>1. 1..0 = {}
    OBVIOUS
  <2>. QED
    BY <1>12, <2>1
<1>15. \A n : W(n) \subseteq D /\ D \cap W(n) = W(n)
  BY <1>12
<1>. HIDE DEF W, D
<1>16. ASSUME \A n \in 1..m + 1 : W(n) # {}
       PROVE  target_flows' = Retained(Ids(entries), W(m + 1))
  <2>1. Lists(Retained(Ids(entries), W(m + 1)), W(m + 1)) /\ W(m + 1) \subseteq Int
    BY <1>11, <1>15
  <2>2. target_flows' = Combined(target_flows, found)
    BY <1>1, <1>2, <1>3, <1>9
  <2>3. Lists(target_flows', W(m + 1))
    <3>1. CASE m = 0
      <4>1. target_flows' = found
        BY <1>2, <2>2, <3>1 DEF QueryInv, CommandInv, Combined
      <4>2. W(0 + 1) = H
        BY <1>10, <1>13, <1>14, <3>1 DEF D
      <4>. QED
        BY <1>10, <3>1, <4>1, <4>2
    <3>2. CASE m # 0
      <4>1. m \in 1..m + 1 /\ \A n \in 1..m : n \in 1..m + 1
        BY <3>2
      <4>2. target_flows = Retained(Ids(entries), W(m))
        <5>1. FiltersIntersect /\ applied > 0
          BY <1>2, <3>2 DEF QueryInv
        <5>2. \A n \in 1..applied : Wanted(n) # {}
          BY <1>2, <1>16, <4>1 DEF W
        <5>. QED
          BY <1>2, <1>7, <5>1, <5>2 DEF FiltersIntersect, W
      <4>3. Lists(target_flows, W(m)) /\ W(m) # {} /\ W(m) \subseteq Int
        BY <1>11, <1>15, <1>16, <4>1, <4>2
      <4>4. target_flows # <<>> /\ ToSet(found) = H
        BY <1>10, <4>3, ListedSet
      <4>5. target_flows' = Retained(target_flows, H)
        BY <2>2, <4>4 DEF Combined
      <4>6. Lists(Retained(target_flows, H), W(m) \cap H)
        BY <4>3, RetainedAscend
      <4>. QED
        BY <1>13, <4>5, <4>6
    <3>. QED
      BY <3>1, <3>2
  <2>4. PICK w, s, t : w = W(m + 1) /\ s = target_flows' /\ t = Retained(Ids(entries), W(m + 1))
    OBVIOUS
  <2>5. w \subseteq Int /\ Lists(s, w) /\ Lists(t, w)
    BY <2>1, <2>3, <2>4
  <2>6. Ascending(w) = s /\ Ascending(w) = t
    BY <2>5, ListedOnce
  <2>. QED
    BY <2>4, <2>6
<1>17. \A n : Wanted(n)' = W(n)
  BY <1>1 DEF Wanted, Found, W
<1>18. FiltersIntersect'
  <2>1. FiltersIntersect' =
          ((m + 1 > 0 /\ \A n \in 1..m + 1 : Wanted(n)' # {}) =>
             target_flows' = Retained(Ids(entries), Wanted(m + 1)'))
    BY <1>1, <1>2, <1>7 DEF FiltersIntersect
  <2>. QED
    BY <1>16, <1>17, <2>1
<1>. QED
  BY <1>5, <1>6, <1>18 DEF QueryInv
-----------------------------------------------------------------------------
(* The archiver takes its steps, or waits. *)
LEMMA WriterSteps ==
  /\ RoundTripInit => Init
  /\ [RoundTripNext]_roundTripVars => [Next]_vars
BY DEF RoundTripInit, RoundTripNext, WriterStep, OpenArchive, ReaderStep, Over, roundTripVars

(* Nothing is asked of an archive at first. *)
LEMMA QueryStarts == RoundTripInit => QueryInv
<1>. SUFFICES ASSUME RoundTripInit
              PROVE  QueryInv
  OBVIOUS
<1>1. /\ reader = Absent /\ applied = 0 /\ target_flows = <<>> /\ step = "idle"
  BY DEF RoundTripInit, NotStarted
<1>. QED
  BY <1>1 DEF QueryInv, ReaderInv, CommandInv, FiltersIntersect

(* Each mode starts with a step of its own. *)
LEMMA StepOfMode ==
  ASSUME NEW mode \in DOMAIN Steps
  PROVE  /\ Steps[mode] \in {"filtering", "extracting one", "piping", "listing"}
         /\ Steps[mode] = "filtering" => mode = "filters"
         /\ Steps[mode] = "extracting one" => mode = "flow"
         /\ Steps[mode] = "piping" => mode = "pipe"
         /\ Steps[mode] = "listing" => mode = "list"
<1>1. /\ DOMAIN Steps = {"filters", "flow", "pipe", "list"}
      /\ Steps["filters"] = "filtering" /\ Steps["flow"] = "extracting one"
      /\ Steps["pipe"] = "piping" /\ Steps["list"] = "listing"
  BY DEF Steps
<1>. QED
  BY <1>1

(* The archive that is opened is the one under the final name. *)
LEMMA OpenArchiveQueryInv ==
  ASSUME QueryInv, FinalAnswers, OpenArchive
  PROVE  QueryInv'
<1>1. /\ stage = "done" /\ step = "idle" /\ applied' = applied /\ target_flows' = target_flows
      /\ command' \in Commands /\ reader' = Open(final)
      /\ step' = IF reader' = Absent THEN "error" ELSE Steps[command'.mode]
  BY DEF OpenArchive, Start
<1>2. applied = 0 /\ target_flows = <<>>
  BY <1>1 DEF QueryInv, CommandInv
<1>3. ASSUME reader' # Absent
      PROVE  AnswersIn(final) /\ reader'.file = final
  <2>1. Opens(final)
    BY <1>1, <1>3 DEF Open
  <2>2. AnswersIn(final)
    BY <2>1 DEF FinalAnswers
  <2>. QED
    BY <1>1, <2>2 DEF AnswersIn
<1>4. ReaderInv'
  BY <1>1, <1>3 DEF ReaderInv, AnswersIn
<1>5. CommandInv'
  <2>1. PICK mode \in DOMAIN Steps : mode = command'.mode
    BY <1>1, CommandsAssumption
  <2>2. step' # "idle"
    <3>1. Steps[mode] # "idle"
      BY StepOfMode
    <3>. QED
      BY <1>1, <2>1, <3>1
  <2>3. ASSUME step' = "filtering"
        PROVE  reader' # Absent /\ command'.filters \in Seq(Filter)
    <3>1. reader' # Absent /\ Steps[mode] = "filtering"
      BY <1>1, <2>1, <2>3
    <3>2. command'.mode = "filters"
      BY <2>1, <3>1, StepOfMode
    <3>. QED
      BY <1>1, <3>1, <3>2, CommandsAssumption
  <2>4. ASSUME step' = "filtering"
        PROVE  applied' <= Len(command'.filters)
    BY <1>1, <1>2, <2>3, <2>4, LenProperties
  <2>. QED
    BY <1>1, <1>2, <2>2, <2>3, <2>4 DEF CommandInv
<1>6. FiltersIntersect'
  BY <1>1, <1>2 DEF FiltersIntersect
<1>. QED
  BY <1>4, <1>5, <1>6 DEF QueryInv

(* Filters are applied in one step only; those after it, which write, leave *)
(* alone what was found.                                                   *)
LEMMA NextQueryInv ==
  QueryInv /\ FinalAnswers /\ [RoundTripNext]_roundTripVars => QueryInv'
<1>. SUFFICES ASSUME QueryInv, FinalAnswers, [RoundTripNext]_roundTripVars
              PROVE  QueryInv'
  OBVIOUS
<1>1. ASSUME UNCHANGED <<reader, command, applied, target_flows>>,
             step' = step \/ step' \notin {"idle", "filtering"}
      PROVE  QueryInv'
  <2>1. ReaderInv'
    BY <1>1 DEF QueryInv, ReaderInv, AnswersIn
  <2>2. CommandInv'
    BY <1>1 DEF QueryInv, CommandInv
  <2>3. \A n : Wanted(n)' = Wanted(n)
    BY <1>1 DEF Wanted, Found
  <2>4. FiltersIntersect'
    BY <1>1, <2>3 DEF QueryInv, FiltersIntersect
  <2>. QED
    BY <2>1, <2>2, <2>4 DEF QueryInv
<1>2. CASE OpenArchive
  BY <1>2, OpenArchiveQueryInv
<1>3. CASE ApplyFilter
  BY <1>3, ApplyFilterIntersects
<1>4. CASE FiltersDone \/ ExtractFlow \/ ExtractFails \/ ExtractionDone
  BY <1>1, <1>4 DEF FiltersDone, ExtractFlow, ExtractFails, ExtractionDone
<1>5. CASE ExtractOne
  BY <1>1, <1>5 DEF ExtractOne
<1>6. CASE ListFlows \/ PipeFlow \/ PipeFails \/ PipeDone
  BY <1>1, <1>6 DEF ListFlows, PipeFlow, PipeFails, PipeDone
<1>7. CASE WriterStep \/ Over \/ UNCHANGED roundTripVars
  BY <1>1, <1>7 DEF WriterStep, Over, extractVars, roundTripVars
<1>. QED
  BY <1>2, <1>3, <1>4, <1>5, <1>6, <1>7 DEF RoundTripNext, ReaderStep, Step

(* However many filters are applied to an archive, written in whatever     *)
(* run and found through its indexes or without them: as long as none      *)
(* leaves nothing, what is left are the flows that pass all of them, each  *)
(* once, in the order of the flow table.                                   *)
THEOREM FiltersIntersectAlways == RoundTripSpec /\ []PositionFits => []FiltersIntersect
<1>1. Init => FirstFits
  BY DEF Init, NoFlows, FirstFits
<1>2. QueryInv => FiltersIntersect
  BY DEF QueryInv
<1>3. Init => FinalAnswers
  BY CreatedIndexThere
<1>. QED
  BY <1>1, <1>2, WriterSteps, CreatedAscendInv, NextAscendInv, NextFirstFits, CreatedContent,
     NextContent, CreatedIndexThere, NextIndexThere, NextFinalAnswers, QueryStarts, NextQueryInv,
     PTL DEF RoundTripSpec
-----------------------------------------------------------------------------
(* What was extracted on a disk that works are groups of the archive that  *)
(* is open.                                                                *)
FilesInv ==
  /\ step = "idle" => files = <<>>
  /\ step \in {"filtering", "extracting", "extracting one"} => reader # Absent
  /\ ~disk_fails => \A id \in DOMAIN files : files[id] \in Contents(reader.file)

(* get_flow gives an entry of the flow table. *)
LEMMA EntryIsFound ==
  ASSUME ReaderInv, reader # Absent, NEW id, GetFlow(reader, id) # Absent
  PROVE  /\ Opens(reader.file)
         /\ ExtractedFlow(reader, GetFlow(reader, id)) \in Contents(reader.file)
<1>1. PICK opened, file : opened = reader /\ file = reader.file
  OBVIOUS
<1>2. opened # Absent /\ opened = Open(file) /\ AnswersIn(file) /\ IsTable(opened.entries)
  BY <1>1 DEF ReaderInv, AnswersIn
<1>3. Opens(file)
  BY <1>2 DEF Open
<1>. DEFINE same == {i \in DOMAIN opened.entries : opened.entries[i].flow_id = id}
<1>4. same # {} /\ GetFlow(opened, id) = opened.entries[Min(same)]
  BY <1>1 DEF GetFlow
<1>5. Min(same) \in DOMAIN opened.entries
  <2>1. same \subseteq Nat /\ same \subseteq DOMAIN opened.entries
    BY <1>2 DEF IsTable, IsSequence
  <2>. HIDE DEF same
  <2>. DEFINE P(x) == \A y \in same : x <= y
              c == CHOOSE x \in same : P(x)
  <2>2. \E x \in same : P(x)
    BY <1>4, <2>1, LeastNatural
  <2>3. c \in same
    <3>. HIDE DEF P
    <3>. QED
      BY <2>2
  <2>4. Min(same) = c
    BY DEF Min
  <2>. HIDE DEF c
  <2>. QED
    BY <2>1, <2>3, <2>4
<1>. HIDE DEF same
<1>6. PICK i \in DOMAIN opened.entries : GetFlow(opened, id) = opened.entries[i]
  BY <1>4, <1>5
<1>7. Contents(file) = {ExtractedFlow(opened, opened.entries[k]) : k \in DOMAIN opened.entries}
  BY <1>2, <1>3 DEF Contents
<1>8. ExtractedFlow(opened, GetFlow(opened, id)) \in Contents(file)
  BY <1>6, <1>7
<1>. QED
  BY <1>1, <1>3, <1>8

(* A file that is written to a disk that works holds such a group. *)
LEMMA FileIsWritten ==
  ASSUME ReaderInv, reader # Absent, FilesInv, NEW id, GetFlow(reader, id) # Absent,
         NEW contents \in Written(GetFlow(reader, id)), files' = WithFile(id, contents),
         reader' = reader, disk_fails' = disk_fails
  PROVE  ~disk_fails' => \A f \in DOMAIN files' : files'[f] \in Contents(reader'.file)
<1>. SUFFICES ASSUME ~disk_fails, NEW f \in DOMAIN files'
              PROVE  files'[f] \in Contents(reader.file)
  OBVIOUS
<1>1. files' = [g \in DOMAIN files \cup {id} |-> IF g = id THEN contents ELSE files[g]]
  BY DEF WithFile
<1>2. contents \in Contents(reader.file)
  BY EntryIsFound DEF Written
<1>3. \A g \in DOMAIN files : files[g] \in Contents(reader.file)
  BY DEF FilesInv
<1>. QED
  BY <1>1, <1>2, <1>3

(* No step leaves anything else in a file. *)
LEMMA NextFilesInv ==
  QueryInv /\ FilesInv /\ [RoundTripNext]_roundTripVars => FilesInv'
<1>. SUFFICES ASSUME QueryInv, FilesInv, [RoundTripNext]_roundTripVars
              PROVE  FilesInv'
  OBVIOUS
<1>1. ASSUME UNCHANGED <<reader, disk_fails, files>>,
             step' = step \/ step' \notin {"idle", "filtering", "extracting", "extracting one"}
             \/ (step = "filtering" /\ step' = "extracting")
      PROVE  FilesInv'
  BY <1>1 DEF FilesInv
<1>2. CASE OpenArchive
  <2>1. /\ step = "idle" /\ files' = files /\ reader' = Open(final) /\ command' \in Commands
        /\ step' = IF reader' = Absent THEN "error" ELSE Steps[command'.mode]
    BY <1>2 DEF OpenArchive, Start
  <2>2. files' = <<>>
    BY <2>1 DEF FilesInv
  <2>3. step' # "idle"
    <3>1. PICK mode \in DOMAIN Steps : mode = command'.mode
      BY <2>1, CommandsAssumption
    <3>2. Steps[mode] # "idle"
      BY StepOfMode
    <3>. QED
      BY <2>1, <3>1, <3>2
  <2>4. step' # "error" => reader' # Absent
    BY <2>1
  <2>5. DOMAIN files' = {}
    BY <2>2
  <2>6. ~disk_fails' => \A f \in DOMAIN files' : files'[f] \in Contents(reader'.file)
    BY <2>5
  <2>. QED
    BY <2>3, <2>4, <2>6 DEF FilesInv
<1>3. CASE ExtractFlow \/ ExtractFails
  <2>1. /\ step = "extracting" /\ reader' = reader /\ disk_fails' = disk_fails
        /\ step' \in {"extracting", "error"} /\ reader # Absent
    BY <1>3 DEF ExtractFlow, ExtractFails, FilesInv
  <2>2. \/ files' = files
        \/ \E id : /\ GetFlow(reader, id) # Absent
                   /\ \E contents \in Written(GetFlow(reader, id)) : files' = WithFile(id, contents)
    BY <1>3, Zenon DEF ExtractFlow, ExtractFails
  <2>3. ~disk_fails' => \A f \in DOMAIN files' : files'[f] \in Contents(reader'.file)
    <3>1. CASE files' = files
      BY <2>1, <3>1 DEF FilesInv
    <3>2. CASE files' # files
      BY <2>1, <2>2, <3>2, FileIsWritten DEF QueryInv
    <3>. QED
      BY <3>1, <3>2
  <2>. QED
    BY <2>1, <2>3 DEF FilesInv
<1>4. CASE ExtractOne
  <2>1. /\ step = "extracting one" /\ reader' = reader /\ disk_fails' = disk_fails
        /\ step' \in {"ok", "error"} /\ reader # Absent
    BY <1>4 DEF ExtractOne, FilesInv
  <2>2. \/ files' = files
        \/ \E id : /\ GetFlow(reader, id) # Absent
                   /\ \E contents \in Written(GetFlow(reader, id)) : files' = WithFile(id, contents)
    BY <1>4, Zenon DEF ExtractOne
  <2>3. ~disk_fails' => \A f \in DOMAIN files' : files'[f] \in Contents(reader'.file)
    <3>1. CASE files' = files
      BY <2>1, <3>1 DEF FilesInv
    <3>2. CASE files' # files
      BY <2>1, <2>2, <3>2, FileIsWritten DEF QueryInv
    <3>. QED
      BY <3>1, <3>2
  <2>. QED
    BY <2>1, <2>3 DEF FilesInv
<1>5. CASE ApplyFilter \/ FiltersDone \/ ExtractionDone
  BY <1>1, <1>5 DEF ApplyFilter, FiltersDone, ExtractionDone
<1>6. CASE ListFlows \/ PipeFlow \/ PipeFails \/ PipeDone
  BY <1>1, <1>6 DEF ListFlows, PipeFlow, PipeFails, PipeDone
<1>7. CASE WriterStep \/ Over \/ UNCHANGED roundTripVars
  BY <1>1, <1>7 DEF WriterStep, Over, extractVars, roundTripVars
<1>. QED
  BY <1>2, <1>3, <1>4, <1>5, <1>6, <1>7 DEF RoundTripNext, ReaderStep, Step
-----------------------------------------------------------------------------
(* The promise starts with no archive, nothing open and nothing taken.     *)
LEMMA PromiseStarts == RoundTripInit => Promise!Init
<1>. SUFFICES ASSUME RoundTripInit
              PROVE  Promise!Init
  OBVIOUS
<1>1. /\ reader = Absent /\ disk_fails = FALSE /\ files = <<>>
      /\ stage = "packets" /\ final = NoArchive /\ given = [k \in Key |-> <<>>]
  BY DEF RoundTripInit, NotStarted, Init, NothingGiven
<1>2. {files[id] : id \in DOMAIN files} = {}
  BY <1>1
<1>. QED
  BY <1>1, <1>2 DEF Promise!Init

(* A packet is taken in, the rename publishes, a failure or a kill gives    *)
(* up, another run begins again; all else the writer does is unseen.       *)
LEMMA WriterKeepsPromise ==
  ASSUME AscendInv, FirstFits, ContentInv, Next, UNCHANGED extractVars
  PROVE  [Promise!Next]_(Promise!vars)
<1>1. UNCHANGED <<reader, disk_fails, files>>
  BY DEF extractVars
<1>2. ASSUME NEW pkt \in Packet, NEW key \in KeysOf(pkt), WritePacket(key, pkt)
      PROVE  Promise!Next
  <2>1. /\ stage = "packets" /\ stage' = stage /\ final' = final
        /\ given' = [given EXCEPT ![key] = Append(@, pkt)] /\ key \in Key
    BY <1>2, PacketsAssumption DEF WritePacket
  <2>2. Promise!Take(key, pkt)
    BY <1>1, <2>1 DEF Promise!Take
  <2>. QED
    BY <2>1, <2>2 DEF Promise!Next
<1>3. CASE WriteOffsetLists \/ WriteFlowTable \/ WriteSecondaryIndexes \/ WriteFooter
  <2>1. /\ stage \notin {"done", "failed"} /\ stage' \notin {"done", "failed"}
        /\ given' = given /\ final' = final
    BY <1>3 DEF WriteOffsetLists, WriteFlowTable, WriteSecondaryIndexes, WriteFooter
  <2>. QED
    BY <1>1, <2>1 DEF Promise!vars
<1>4. CASE Rename
  <2>1. stage = "rename" /\ stage' = "done" /\ given' = given /\ final' = written
    BY <1>4 DEF Rename
  <2>2. WholeIn(written, given)
    BY <2>1, RenamesWhole DEF ContentInv
  <2>3. Opens(written) /\ Contents(written) = {given[key] : key \in Key} \ {<<>>}
    BY <2>2 DEF WholeIn, Contents
  <2>4. written # NoArchive
    BY <2>3 DEF Opens, NoArchive
  <2>5. Promise!Publish
    BY <1>1, <2>1, <2>3, <2>4 DEF Promise!Publish
  <2>. QED
    BY <2>5 DEF Promise!Next
<1>5. CASE Fails \/ Crash
  <2>1. /\ stage \notin {"done", "failed"} /\ stage' = "failed"
        /\ given' = given /\ final' = final
    BY <1>5 DEF Fails, Crash
  <2>2. Promise!GiveUp
    BY <1>1, <2>1 DEF Promise!GiveUp
  <2>. QED
    BY <2>2 DEF Promise!Next
<1>6. CASE Restart
  <2>1. /\ stage \in {"done", "failed"} /\ stage' = "packets" /\ final' = final
        /\ given' = [key \in Key |-> <<>>]
    BY <1>6 DEF Restart, Created, NothingGiven
  <2>2. Promise!Again
    BY <1>1, <2>1 DEF Promise!Again
  <2>. QED
    BY <2>2 DEF Promise!Next
<1>7. CASE Finished
  BY <1>1, <1>7 DEF Finished, vars, Promise!vars
<1>. QED
  BY <1>2, <1>3, <1>4, <1>5, <1>6, <1>7 DEF Next

(* The archive is opened, files are taken out; all else is unseen. *)
LEMMA NextKeepsPromise ==
  /\ AscendInv /\ FirstFits /\ ContentInv /\ QueryInv /\ FilesInv /\ FilesInv'
  /\ [RoundTripNext]_roundTripVars
  => [Promise!Next]_(Promise!vars)
<1>. SUFFICES ASSUME AscendInv, FirstFits, ContentInv, QueryInv, FilesInv, FilesInv',
                     [RoundTripNext]_roundTripVars
              PROVE  [Promise!Next]_(Promise!vars)
  OBVIOUS
<1>1. CASE WriterStep
  BY <1>1, WriterKeepsPromise DEF WriterStep
<1>2. CASE OpenArchive
  <2>1. /\ step = "idle" /\ files' = files /\ reader' = Open(final)
        /\ given' = given /\ final' = final /\ stage' = stage
    BY <1>2 DEF OpenArchive, Start, vars
  <2>2. reader = Absent /\ files = <<>>
    BY <2>1 DEF QueryInv, CommandInv, FilesInv
  <2>3. {files[id] : id \in DOMAIN files} = {} /\ {files'[id] : id \in DOMAIN files'} = {}
    BY <2>1, <2>2
  <2>4. CASE reader' = Absent
    BY <2>1, <2>2, <2>3, <2>4 DEF Promise!vars
  <2>5. CASE reader' # Absent
    <3>1. Opens(final) /\ reader'.file = final
      BY <2>1, <2>5 DEF Open
    <3>2. final # NoArchive
      BY <3>1 DEF Opens, NoArchive
    <3>3. Promise!OpenArchive
      BY <2>1, <2>2, <2>3, <2>5, <3>1, <3>2 DEF Promise!OpenArchive
    <3>. QED
      BY <3>3 DEF Promise!Next
  <2>. QED
    BY <2>4, <2>5
<1>3. CASE ReaderStep
  <2>1. /\ reader' = reader /\ disk_fails' = disk_fails
        /\ given' = given /\ final' = final /\ stage' = stage
        /\ files' = files \/ step \in {"extracting", "extracting one"}
    <3>1. given' = given /\ final' = final /\ stage' = stage /\ Step
      BY <1>3 DEF ReaderStep, vars
    <3>2. CASE ApplyFilter \/ FiltersDone \/ ExtractFlow \/ ExtractFails \/ ExtractionDone
      BY <3>1, <3>2 DEF ApplyFilter, FiltersDone, ExtractFlow, ExtractFails, ExtractionDone
    <3>3. CASE ExtractOne \/ ListFlows \/ PipeFlow \/ PipeFails \/ PipeDone
      BY <3>1, <3>3 DEF ExtractOne, ListFlows, PipeFlow, PipeFails, PipeDone
    <3>. QED
      BY <3>1, <3>2, <3>3 DEF Step
  <2>2. CASE files' = files
    BY <2>1, <2>2 DEF Promise!vars
  <2>3. CASE disk_fails
    BY <2>1, <2>3 DEF Promise!vars
  <2>4. CASE files' # files /\ ~disk_fails
    <3>1. reader # Absent /\ reader = Open(reader.file)
      BY <2>1, <2>4 DEF FilesInv, QueryInv, ReaderInv
    <3>2. Opens(reader.file)
      BY <3>1 DEF Open
    <3>3. reader.file # NoArchive
      BY <3>2 DEF Opens, NoArchive
    <3>4. {files'[id] : id \in DOMAIN files'} \subseteq Contents(reader.file)
      BY <2>1, <2>4 DEF FilesInv
    <3>5. Promise!TakeOut
      BY <2>1, <2>4, <3>1, <3>3, <3>4 DEF Promise!TakeOut
    <3>. QED
      BY <3>5 DEF Promise!Next
  <2>. QED
    BY <2>2, <2>3, <2>4
<1>4. CASE Over \/ UNCHANGED roundTripVars
  <2>1. UNCHANGED <<given, final, stage, reader, disk_fails, files>>
    BY <1>4 DEF Over, roundTripVars, vars, extractVars
  <2>. QED
    BY <2>1 DEF Promise!vars
<1>. QED
  BY <1>1, <1>2, <1>3, <1>4 DEF RoundTripNext

(* Archiver and reader together keep the promise: the packets handed over  *)
(* become an archive in one step or not at all, and what is taken out of   *)
(* the one that is open are whole groups of it, whatever fails, is killed  *)
(* or is run again.                                                        *)
THEOREM ArchiveKeepsPromise == RoundTripSpec /\ []PositionFits => ArchivePromiseKept
<1>1. Init => FirstFits
  BY DEF Init, NoFlows, FirstFits
<1>2. RoundTripInit => FilesInv
  BY DEF RoundTripInit, NotStarted, FilesInv
<1>. QED
  BY <1>1, <1>2, WriterSteps, CreatedAscendInv, NextAscendInv, NextFirstFits, CreatedContent,
     NextContent, CreatedIndexThere, NextIndexThere, NextFinalAnswers, QueryStarts, NextQueryInv,
     NextFilesInv, PromiseStarts, NextKeepsPromise,
     PTL DEF RoundTripSpec, ArchivePromiseKept, Promise!Spec
-----------------------------------------------------------------------------
(* A group has the packets handed on under its key, and its flow the       *)
(* five-tuple of the first of them.                                        *)
TuplesInv ==
  \A key \in Key :
    /\ \A j \in 1..Len(given[key]) : key \in KeysOf(given[key][j])
    /\ flows[key] # Absent => flows[key].five_tuple = FiveTupleOf(given[key][1])

(* A new flow starts with the first packet of its group. *)
LEMMA WritePacketTuples ==
  ASSUME AscendInv, FirstFits, GivenInv, FramesThere, TuplesInv,
         NEW pkt \in Packet, NEW key \in KeysOf(pkt), WritePacket(key, pkt)
  PROVE  TuplesInv'
<1>. DEFINE flow == Tracked(flows[key], pkt)
<1>1. /\ key \in Key /\ stage = "packets"
      /\ \A k \in Key : flows[k] # Absent => flows[k] \in ArchiveFlow
      /\ flows' = [flows EXCEPT ![key] = flow] /\ DOMAIN flows = Key
      /\ given \in [Key -> Seq(Packet)] /\ given' = [given EXCEPT ![key] = Append(@, pkt)]
  BY PacketsAssumption DEF WritePacket, AscendInv, TypeOK, GivenInv
<1>2. PICK packets \in Seq(Packet) : packets = given[key]
  BY <1>1
<1>3. /\ Len(packets) \in Nat /\ Len(Append(packets, pkt)) = Len(packets) + 1
      /\ Append(packets, pkt)[Len(packets) + 1] = pkt
      /\ \A j \in 1..Len(packets) : Append(packets, pkt)[j] = packets[j]
  BY LenProperties, AppendProperties
<1>4. /\ given'[key] = Append(packets, pkt) /\ flows'[key] = flow
      /\ \A k \in Key : k # key => given'[k] = given[k] /\ flows'[k] = flows[k]
  BY <1>1, <1>2
<1>5. \A j \in 1..Len(packets) + 1 : key \in KeysOf(Append(packets, pkt)[j])
  <2>1. \A j \in 1..Len(packets) : key \in KeysOf(packets[j])
    BY <1>1, <1>2 DEF TuplesInv
  <2>2. \A j \in 1..Len(packets) + 1 : j \in 1..Len(packets) \/ j = Len(packets) + 1
    BY <1>3
  <2>. QED
    BY <1>3, <2>1, <2>2
<1>6. flow.five_tuple = FiveTupleOf(Append(packets, pkt)[1])
  <2>1. CASE flows[key] = Absent
    <3>1. given[key] = <<>> /\ flow.five_tuple = FiveTupleOf(pkt)
      BY <1>1, <2>1 DEF FramesThere, FramesIn, Tracked
    <3>2. Len(packets) = 0
      BY <1>2, <3>1
    <3>. QED
      BY <1>3, <3>1, <3>2
  <2>2. CASE flows[key] # Absent
    <3>1. PICK old \in ArchiveFlow : old = flows[key]
      BY <1>1, <2>2
    <3>2. flow.five_tuple = old.five_tuple
      BY <2>2, <3>1 DEF Tracked, ArchiveFlow
    <3>3. old.five_tuple = FiveTupleOf(packets[1])
      BY <1>1, <1>2, <2>2, <3>1 DEF TuplesInv
    <3>4. Len(old.packet_offsets) = Len(packets)
      BY <1>1, <1>2, <2>2, <3>1 DEF FramesThere, FramesIn, FlowIn
    <3>5. old.packet_offsets # <<>> /\ old.packet_offsets \in Seq(Nat)
      BY <1>1, <2>2, <3>1 DEF FirstFits, ArchiveFlow
    <3>6. Len(packets) # 0
      BY <3>4, <3>5, EmptySeq
    <3>7. 1 \in 1..Len(packets)
      BY <1>3, <3>6
    <3>8. Append(packets, pkt)[1] = packets[1]
      BY <1>3, <3>7
    <3>. QED
      BY <3>2, <3>3, <3>8
  <2>. QED
    BY <2>1, <2>2
<1>. HIDE DEF flow
<1>7. ASSUME NEW k \in Key
      PROVE  /\ \A j \in 1..Len(given'[k]) : k \in KeysOf(given'[k][j])
             /\ flows'[k] # Absent => flows'[k].five_tuple = FiveTupleOf(given'[k][1])
  <2>1. CASE k = key
    BY <1>3, <1>4, <1>5, <1>6, <2>1
  <2>2. CASE k # key
    BY <1>4, <2>2 DEF TuplesInv
  <2>. QED
    BY <2>1, <2>2
<1>. QED
  BY <1>7 DEF TuplesInv

(* Nothing else adds to a group. *)
LEMMA NextTuples ==
  AscendInv /\ FirstFits /\ ContentInv /\ TuplesInv /\ [Next]_vars => TuplesInv'
<1>. SUFFICES ASSUME AscendInv, FirstFits, ContentInv, TuplesInv, [Next]_vars
              PROVE  TuplesInv'
  OBVIOUS
<1>1. ASSUME UNCHANGED <<flows, given>>
      PROVE  TuplesInv'
  BY <1>1 DEF TuplesInv
<1>2. ASSUME NEW pkt \in Packet, NEW key \in KeysOf(pkt), WritePacket(key, pkt)
      PROVE  TuplesInv'
  BY <1>2, WritePacketTuples DEF ContentInv
<1>3. CASE WriteOffsetLists \/ WriteFlowTable \/ WriteSecondaryIndexes \/ WriteFooter
  BY <1>1, <1>3 DEF WriteOffsetLists, WriteFlowTable, WriteSecondaryIndexes, WriteFooter
<1>4. CASE Rename \/ Fails \/ Crash
  BY <1>1, <1>4 DEF Rename, Fails, Crash
<1>5. CASE Restart
  <2>1. flows' = NoFlows /\ given' = NothingGiven
    BY <1>5 DEF Restart, Created
  <2>2. \A k \in Key : flows'[k] = Absent /\ Len(given'[k]) = 0
    BY <2>1 DEF NoFlows, NothingGiven
  <2>. QED
    BY <2>2 DEF TuplesInv
<1>6. CASE Finished \/ UNCHANGED vars
  BY <1>1, <1>6 DEF Finished, vars
<1>. QED
  BY <1>2, <1>3, <1>4, <1>5, <1>6 DEF Next

(* There are no groups at first. *)
LEMMA CreatedTuples == Init => TuplesInv
<1>. SUFFICES ASSUME Init
              PROVE  TuplesInv
  OBVIOUS
<1>1. \A k \in Key : flows[k] = Absent /\ Len(given[k]) = 0
  BY DEF Init, NoFlows, NothingGiven
<1>. QED
  BY <1>1 DEF TuplesInv
-----------------------------------------------------------------------------
(* What flow_to_entry copies of a five-tuple. *)
HasTuple(entry, ft) ==
  LET t == IF ft = Absent THEN NoTuple ELSE ft
  IN /\ entry.protocol = t.protocol
     /\ entry.src_ip = t.src_ip /\ entry.dst_ip = t.dst_ip
     /\ entry.src_port = t.src_port /\ entry.dst_port = t.dst_port

(* An entry has the five-tuple of its flow. *)
LEMMA EntryHasTuple ==
  ASSUME NEW flow, NEW pos, NEW size
  PROVE  HasTuple(EntryCell(flow, pos, size), flow.five_tuple)
<1>. DEFINE ft == IF flow.five_tuple = Absent THEN NoTuple ELSE flow.five_tuple
<1>1. EntryCell(flow, pos, size) =
        [is |-> "entry", flow_id |-> flow.flow_id, protocol |-> ft.protocol,
         src_ip |-> ft.src_ip, dst_ip |-> ft.dst_ip,
         src_port |-> ft.src_port, dst_port |-> ft.dst_port,
         offset_list_offset |-> pos, offset_list_size |-> size,
         packet_count |-> Len(flow.packet_offsets)]
  BY DEF EntryCell
<1>2. PICK entry : entry = EntryCell(flow, pos, size)
  OBVIOUS
<1>3. /\ entry.protocol = ft.protocol
      /\ entry.src_ip = ft.src_ip /\ entry.dst_ip = ft.dst_ip
      /\ entry.src_port = ft.src_port /\ entry.dst_port = ft.dst_port
  <2>. HIDE DEF ft
  <2>. QED
    BY <1>1, <1>2
<1>4. HasTuple(entry, flow.five_tuple)
  BY <1>3, Zenon DEF HasTuple
<1>. QED
  BY <1>2, <1>4

(* An entry is never taken for none. *)
LEMMA EntryIsThere ==
  ASSUME NEW flow \in ArchiveFlow, NEW pos \in Nat, NEW size \in Nat
  PROVE  EntryCell(flow, pos, size) # Absent
<1>. DEFINE ft == IF flow.five_tuple = Absent THEN NoTuple ELSE flow.five_tuple
<1>1. /\ flow.flow_id \in Nat /\ flow.packet_offsets \in Seq(Nat)
      /\ flow.five_tuple \in FiveTuple \cup {Absent}
  BY PacketsAssumption DEF ArchiveFlow
<1>2. ft \in FiveTuple
  BY <1>1 DEF NoTuple, FiveTuple
<1>3. PICK count \in Nat : count = Len(flow.packet_offsets)
  BY <1>1, LenProperties
<1>4. EntryCell(flow, pos, size) =
        [is |-> "entry", flow_id |-> flow.flow_id, protocol |-> ft.protocol,
         src_ip |-> ft.src_ip, dst_ip |-> ft.dst_ip,
         src_port |-> ft.src_port, dst_port |-> ft.dst_port,
         offset_list_offset |-> pos, offset_list_size |-> size,
         packet_count |-> count]
  BY <1>3 DEF EntryCell
<1>. HIDE DEF ft
<1>5. /\ ft.protocol \in Nat /\ ft.src_ip \in Nat /\ ft.dst_ip \in Nat
      /\ ft.src_port \in Nat /\ ft.dst_port \in Nat
  BY <1>2 DEF FiveTuple
<1>6. EntryCell(flow, pos, size) \in FlowEntry
  BY <1>1, <1>4, <1>5 DEF FlowEntry
<1>. QED
  BY <1>6, AbsentAssumption

(* An entry of an archive is that of a group of packets. *)
IsOf(opened, entry, packets) ==
  /\ entry # Absent
  /\ ExtractedFlow(opened, entry) = packets /\ PipedFlow(opened, entry) = packets
  /\ entry.packet_count = Len(packets)
  /\ HasTuple(entry, FiveTupleOf(packets[1]))

(* The groups that have packets. *)
WithPackets(packets) == {key \in Key : packets[key] # <<>>}

(* The entries of an archive and the groups it was written from, one for   *)
(* one.                                                                    *)
GroupsIn(file, packets) ==
  LET opened == Open(file)
  IN /\ Opens(file) /\ opened.file = file /\ IsTable(opened.entries)
     /\ \E owner \in Bijection(DOMAIN opened.entries, WithPackets(packets)) :
          \A i \in DOMAIN opened.entries :
            IsOf(opened, opened.entries[i], packets[owner[i]])
     /\ \A key \in WithPackets(packets) :
          /\ packets[key] \in Seq(Packet)
          /\ \A j \in 1..Len(packets[key]) : key \in KeysOf(packets[key][j])

(* The file that is renamed has an entry for each group. *)
LEMMA RenamesGroups ==
  ASSUME AscendInv, FirstFits, ContentInv, TuplesInv, stage = "rename"
  PROVE  GroupsIn(written, given)
<1>1. PICK file : file = written
  OBVIOUS
<1>2. PICK table : table = FlowTable
  OBVIOUS
<1>3. PICK opened : opened = Open(file)
  OBVIOUS
<1>. DEFINE n == next_flow_id - 1
            live == WithPackets(given)
<1>4. IsSequence(file) /\ content = file /\ Len(file) # 0 /\ file[Len(file)] = regions
  <2>1. buffer = <<>> /\ IsSequence(file) /\ Len(file) # 0 /\ file[Len(file)] = regions
    BY <1>1 DEF ContentInv, RegionsThere, FileInv
  <2>2. file \o <<>> = file
    BY <2>1, SequenceOfItsElements, ConcatEmptySeq
  <2>. QED
    BY <1>1, <2>1, <2>2 DEF content
<1>5. FramesIn(file) /\ ListsIn(file) /\ TableIn(file)
  BY <1>4 DEF ContentInv, FramesThere, RegionsThere, Finalizing
<1>6. IsTable(table) /\ IsSequence(table)
  BY <1>2, FlowTableIsTable DEF AscendInv, ContentInv, IsTable
<1>7. InOrder(SortedFlows, n)
  BY FlowsInOrder DEF AscendInv, ContentInv
<1>8. /\ DOMAIN table = 1..n /\ DOMAIN SortedFlows = 1..n
      /\ \A i \in 1..n : table[i] = EntryCell(SortedFlows[i], lists[i][1], lists[i][2])
  <2>1. DOMAIN SortedFlows = 1..n
    BY <1>7 DEF InOrder
  <2>. QED
    BY <1>2, <2>1, FlowTableCells DEF AscendInv, ContentInv
<1>9. Opens(file) /\ opened.file = file /\ opened.entries = table
  <2>1. regions \in Regions /\ regions.flow_table_size = Len(table)
        /\ HasAt(file, regions.flow_table_offset, table)
    BY <1>2, <1>5 DEF ContentInv, FileInv, TableIn
  <2>. QED
    BY <1>3, <1>4, <1>6, <2>1, TableReads
<1>. HIDE DEF n
<1>10. ASSUME NEW key \in Key, flows[key] # Absent, NEW i \in 1..n, SortedFlows[i] = flows[key]
       PROVE  IsOf(opened, table[i], given[key]) /\ key \in live
  <2>1. PICK entry : entry = table[i]
    OBVIOUS
  <2>2. PICK packets : packets = given[key]
    OBVIOUS
  <2>3. PICK flow : flow = flows[key]
    OBVIOUS
  <2>4. /\ ExtractedFlow(opened, entry) = packets /\ PipedFlow(opened, entry) = packets
        /\ packets # <<>>
    BY <1>2, <1>4, <1>5, <1>8, <1>9, <1>10, <2>1, <2>2, FlowIsRead DEF ContentInv
  <2>5. entry = EntryCell(flow, lists[i][1], lists[i][2])
    BY <1>8, <1>10, <2>1, <2>3
  <2>6. entry.packet_count = Len(packets)
    <3>1. Len(flow.packet_offsets) = Len(packets)
      BY <1>5, <1>10, <2>2, <2>3 DEF FramesIn, FlowIn
    <3>. QED
      BY <2>5, <3>1, EntryFields
  <2>7. HasTuple(entry, FiveTupleOf(packets[1]))
    <3>1. flow.five_tuple = FiveTupleOf(packets[1])
      BY <1>10, <2>2, <2>3 DEF TuplesInv
    <3>. QED
      BY <2>5, <3>1, EntryHasTuple
  <2>8. entry # Absent
    <3>1. flow \in ArchiveFlow
      BY <1>10, <2>3 DEF AscendInv, TypeOK
    <3>2. PICK list : list = lists[i]
      OBVIOUS
    <3>3. list[1] \in Nat /\ list[2] \in Nat
      <4>1. ListIn(file, flow, list)
        BY <1>5, <1>8, <1>10, <2>3, <3>2 DEF ListsIn
      <4>. QED
        BY <4>1, LenProperties DEF ListIn, HasAt
    <3>. QED
      BY <2>5, <3>1, <3>2, <3>3, EntryIsThere
  <2>9. IsOf(opened, entry, packets)
    BY <2>4, <2>6, <2>7, <2>8 DEF IsOf
  <2>. QED
    BY <2>1, <2>2, <2>4, <2>9 DEF WithPackets
<1>11. ASSUME NEW i \in 1..n
       PROVE  \E key \in Key : /\ flows[key] # Absent /\ flows[key].flow_id = i
                               /\ SortedFlows[i] = flows[key]
  BY <1>7 DEF InOrder
<1>12. ASSUME NEW key \in live
       PROVE  /\ flows[key] # Absent /\ flows[key].flow_id \in 1..n
              /\ SortedFlows[flows[key].flow_id] = flows[key]
  <2>1. key \in Key /\ flows[key] # Absent
    BY <1>5 DEF FramesIn, WithPackets
  <2>. QED
    BY <1>7, <2>1 DEF InOrder
<1>. DEFINE Own(i, key) == flows[key] # Absent /\ flows[key].flow_id = i
            owner == [i \in 1..n |-> CHOOSE key \in Key : Own(i, key)]
<1>13. ASSUME NEW i \in 1..n
       PROVE  /\ owner[i] \in live /\ flows[owner[i]].flow_id = i
              /\ IsOf(opened, table[i], given[owner[i]])
  <2>1. PICK key \in Key : key = owner[i] /\ Own(i, key)
    BY <1>11
  <2>2. SortedFlows[i] = flows[key]
    BY <1>7, <2>1 DEF InOrder
  <2>. QED
    BY <1>10, <2>1, <2>2
<1>14. owner \in [1..n -> live]
  <2>1. owner = [i \in 1..n |-> owner[i]]
    OBVIOUS
  <2>. HIDE DEF owner, live
  <2>. QED
    BY <1>13, <2>1
<1>15. \A i, j \in 1..n : owner[i] = owner[j] => i = j
  BY <1>13
<1>16. \A key \in live : \E i \in 1..n : owner[i] = key
  <2>. SUFFICES ASSUME NEW key \in live
                PROVE  \E i \in 1..n : owner[i] = key
    OBVIOUS
  <2>1. PICK i \in 1..n : i = flows[key].flow_id
    BY <1>12
  <2>2. owner[i] \in live /\ flows[owner[i]].flow_id = i
    BY <1>13
  <2>3. flows[owner[i]] # Absent /\ flows[key] # Absent
    BY <1>12, <2>2
  <2>. HIDE DEF owner
  <2>4. owner[i] = key
    BY <2>1, <2>2, <2>3 DEF ContentInv, IdsInv, WithPackets
  <2>. QED
    BY <2>4
<1>. HIDE DEF owner, live
<1>17. owner \in Bijection(1..n, live)
  BY <1>14, <1>15, <1>16, Fun_IsBij
<1>18. ASSUME NEW key \in live
       PROVE  /\ given[key] \in Seq(Packet)
              /\ \A j \in 1..Len(given[key]) : key \in KeysOf(given[key][j])
  BY DEF ContentInv, GivenInv, TuplesInv, live, WithPackets
<1>19. /\ opened = Open(file) /\ DOMAIN opened.entries = 1..n /\ IsTable(opened.entries)
       /\ \A i \in 1..n : IsOf(opened, opened.entries[i], given[owner[i]])
  BY <1>3, <1>6, <1>8, <1>9, <1>13
<1>20. GroupsIn(file, given)
  BY <1>9, <1>17, <1>18, <1>19 DEF GroupsIn, live
<1>. QED
  BY <1>1, <1>20

(* The archive under the final name is that of the groups it was published *)
(* for.                                                                    *)
FinalGroups == final # NoArchive => GroupsIn(final, published)

(* Only a rename changes what is under the final name. *)
LEMMA NextFinalGroups ==
  AscendInv /\ FirstFits /\ ContentInv /\ TuplesInv /\ FinalGroups /\ [Next]_vars => FinalGroups'
<1>. SUFFICES ASSUME AscendInv, FirstFits, ContentInv, TuplesInv, FinalGroups, [Next]_vars
              PROVE  FinalGroups'
  OBVIOUS
<1>1. FinalGroups' = (final' # NoArchive => GroupsIn(final', published'))
  BY DEF FinalGroups
<1>2. ASSUME UNCHANGED <<final, published>>
      PROVE  FinalGroups'
  BY <1>1, <1>2 DEF FinalGroups
<1>3. CASE Rename
  <2>1. stage = "rename" /\ final' = written /\ published' = given
    BY <1>3 DEF Rename
  <2>2. GroupsIn(written, given)
    BY <2>1, RenamesGroups
  <2>. QED
    BY <1>1, <2>1, <2>2
<1>4. ASSUME NEW pkt \in Packet, NEW key \in KeysOf(pkt), WritePacket(key, pkt)
      PROVE  FinalGroups'
  BY <1>2, <1>4 DEF WritePacket
<1>5. CASE WriteOffsetLists \/ WriteFlowTable \/ WriteSecondaryIndexes \/ WriteFooter
  BY <1>2, <1>5 DEF WriteOffsetLists, WriteFlowTable, WriteSecondaryIndexes, WriteFooter
<1>6. CASE Fails \/ Crash \/ Restart
  BY <1>2, <1>6 DEF Fails, Crash, Restart
<1>7. CASE Finished \/ UNCHANGED vars
  BY <1>2, <1>7 DEF Finished, vars
<1>. QED
  BY <1>3, <1>4, <1>5, <1>6, <1>7 DEF Next
-----------------------------------------------------------------------------
(* A flow that is known, and what its file may hold. *)
IsFile(id, contents) ==
  /\ reader # Absent /\ GetFlow(reader, id) # Absent
  /\ contents \in Written(GetFlow(reader, id))

FilesAreOfFlows == \A id \in DOMAIN files : IsFile(id, files[id])

(* The flows among the first n that are known. *)
Known(n) == {id \in {target_flows[i] : i \in 1..n} : GetFlow(reader, id) # Absent}

(* All filters are applied, and the first n flows left dealt with. *)
FilteredSoFar(n) ==
  /\ n \in Nat /\ applied = Len(command.filters) /\ target_flows # <<>>
  /\ DOMAIN files = Known(n)

(* The first n flows of the table were printed. *)
PipedSoFar(n) ==
  /\ n \in Nat /\ IsSequence(stdout) /\ Len(stdout) = n
  /\ \A i \in 1..n : stdout[i] = PipedFlow(reader, reader.entries[i])

(* What --list-flows prints. *)
Rows ==
  [i \in DOMAIN reader.entries |->
     [flow_id |-> reader.entries[i].flow_id, packets |-> reader.entries[i].packet_count]]

(* How far each mode is. *)
ProgressInv ==
  /\ step \in {"idle", "filtering"} => files = <<>> /\ stdout = <<>> /\ extracted = 0
  /\ step = "filtering" => command.mode = "filters"
  /\ step = "extracting" => command.mode = "filters" /\ FilteredSoFar(extracted)
  /\ step = "extracting one" => command.mode = "flow"
  /\ step = "piping" => command.mode = "pipe" /\ PipedSoFar(extracted)
  /\ step = "listing" => command.mode = "list"
  /\ step = "ok" =>
       \/ command.mode = "filters" /\ FilteredSoFar(Len(target_flows))
       \/ command.mode = "flow" /\ command.id \in DOMAIN files
       \/ command.mode = "pipe" /\ PipedSoFar(Len(reader.entries))
       \/ command.mode = "list" /\ stdout = Rows

(* The archive that is open is the one under the final name: the archiver  *)
(* is not run again.                                                       *)
OpenInv ==
  /\ step = "idle" => reader = Absent
  /\ step \notin {"idle", "error"} => reader # Absent
  /\ reader # Absent => reader.file = final
  /\ step # "idle" => command \in Commands

(* What holds of the files and the output while a command is carried out. *)
OutputInv == OpenInv /\ FilesAreOfFlows /\ ProgressInv

(* Nothing is written at first. *)
LEMMA OutputStarts == RoundTripInit => OutputInv
<1>. SUFFICES ASSUME RoundTripInit
              PROVE  OutputInv
  OBVIOUS
<1>1. /\ reader = Absent /\ step = "idle" /\ files = <<>> /\ stdout = <<>> /\ extracted = 0
  BY DEF RoundTripInit, NotStarted
<1>2. DOMAIN files = {}
  BY <1>1
<1>. QED
  BY <1>1, <1>2 DEF OutputInv, OpenInv, FilesAreOfFlows, ProgressInv

(* Where the reader stays, so does what is known of the flows. *)
LEMMA FilesStay ==
  ASSUME UNCHANGED <<reader, disk_fails>>
  PROVE  /\ \A id, contents : IsFile(id, contents)' <=> IsFile(id, contents)
         /\ Rows' = Rows
         /\ target_flows' = target_flows => \A n : Known(n)' = Known(n)
BY DEF IsFile, Written, Rows, Known

(* Each mode starts with nothing written. *)
LEMMA OpenArchiveOutput ==
  ASSUME QueryInv, FinalAnswers, OutputInv, OpenArchive
  PROVE  OutputInv'
<1>1. /\ step = "idle" /\ final' = final /\ reader' = Open(final) /\ command' \in Commands
      /\ step' = IF reader' = Absent THEN "error" ELSE Steps[command'.mode]
      /\ UNCHANGED <<applied, target_flows, extracted, files, stdout>>
  BY DEF OpenArchive, Start, vars
<1>2. files = <<>> /\ stdout = <<>> /\ extracted = 0 /\ DOMAIN files = {}
  BY <1>1 DEF OutputInv, ProgressInv
<1>3. reader' # Absent => reader'.file = final
  <2>1. reader' # Absent => Opens(final)
    BY <1>1 DEF Open
  <2>. QED
    BY <1>1, <2>1 DEF FinalAnswers, AnswersIn
<1>4. PICK mode \in DOMAIN Steps : mode = command'.mode
  BY <1>1, CommandsAssumption
<1>5. /\ step' \in {"error", "filtering", "extracting one", "piping", "listing"}
      /\ step' = "filtering" => mode = "filters"
      /\ step' = "extracting one" => mode = "flow"
      /\ step' = "piping" => mode = "pipe"
      /\ step' = "listing" => mode = "list"
      /\ reader' = Absent => step' = "error"
  BY <1>1, <1>4, StepOfMode
<1>6. OpenInv'
  BY <1>1, <1>3, <1>5 DEF OpenInv
<1>7. FilesAreOfFlows'
  BY <1>1, <1>2 DEF FilesAreOfFlows
<1>8. PipedSoFar(extracted)'
  <2>1. IsSequence(stdout') /\ Len(stdout') = 0 /\ extracted' = 0
    <3>1. IsSequence(<<>>) /\ Len(<<>>) = 0
      BY DEF IsSequence
    <3>. QED
      BY <1>1, <1>2, <3>1
  <2>2. 0 \in Nat /\ \A i \in 1..0 : FALSE
    OBVIOUS
  <2>. QED
    BY <2>1, <2>2 DEF PipedSoFar
<1>9. ProgressInv'
  BY <1>1, <1>2, <1>4, <1>5, <1>8 DEF ProgressInv
<1>. QED
  BY <1>6, <1>7, <1>9 DEF OutputInv

(* One flow more has its file. *)
LEMMA WrittenFile ==
  ASSUME OutputInv, UNCHANGED <<reader, disk_fails>>, NEW id,
         reader # Absent, GetFlow(reader, id) # Absent,
         NEW contents \in Written(GetFlow(reader, id)), files' = WithFile(id, contents)
  PROVE  DOMAIN files' = DOMAIN files \cup {id} /\ FilesAreOfFlows'
<1>1. files' = [g \in DOMAIN files \cup {id} |-> IF g = id THEN contents ELSE files[g]]
  BY DEF WithFile
<1>2. \A g \in DOMAIN files : IsFile(g, files[g])
  BY DEF OutputInv, FilesAreOfFlows
<1>3. IsFile(id, contents)
  BY DEF IsFile
<1>4. \A g \in DOMAIN files' : IsFile(g, files'[g])
  BY <1>1, <1>2, <1>3
<1>5. \A g, c : IsFile(g, c)' <=> IsFile(g, c)
  BY FilesStay
<1>6. FilesAreOfFlows' = \A g \in DOMAIN files' : IsFile(g, files'[g])
  BY <1>5 DEF FilesAreOfFlows, IsFile, Written
<1>. QED
  BY <1>1, <1>4, <1>6

(* A flow of the list gets its file, or none when it is not known or the   *)
(* disk fails.                                                             *)
LEMMA ExtractFlowOutput ==
  ASSUME OutputInv, ExtractFlow \/ ExtractFails, final' = final
  PROVE  OutputInv'
<1>1. /\ step = "extracting" /\ extracted < Len(target_flows)
      /\ UNCHANGED <<reader, command, disk_fails, applied, target_flows, stdout>>
      /\ step' = "error" \/ (step' = "extracting" /\ extracted' = extracted + 1)
  BY DEF ExtractFlow, ExtractFails
<1>2. PICK n \in Nat : n = extracted
  BY <1>1 DEF OutputInv, ProgressInv, FilteredSoFar
<1>3. PICK id : id = target_flows[n + 1]
  OBVIOUS
<1>4. \/ files' = files /\ (GetFlow(reader, id) = Absent \/ step' = "error")
      \/ /\ GetFlow(reader, id) # Absent
         /\ \E contents \in Written(GetFlow(reader, id)) : files' = WithFile(id, contents)
  BY <1>2, <1>3, Zenon DEF ExtractFlow, ExtractFails
<1>5. OpenInv'
  BY <1>1 DEF OutputInv, OpenInv
<1>6. FilesAreOfFlows'
  <2>1. CASE files' = files
    <3>1. \A g, c : IsFile(g, c)' <=> IsFile(g, c)
      BY <1>1, FilesStay
    <3>2. \A g \in DOMAIN files' : IsFile(g, files'[g])
      BY <2>1 DEF OutputInv, FilesAreOfFlows
    <3>. QED
      BY <1>1, <2>1, <3>2 DEF FilesAreOfFlows, IsFile, Written
  <2>2. CASE files' # files
    BY <1>1, <1>4, <2>2, WrittenFile DEF OutputInv, OpenInv
  <2>. QED
    BY <2>1, <2>2
<1>7. ASSUME step' = "extracting"
      PROVE  FilteredSoFar(extracted)'
  <2>1. /\ FilteredSoFar(n) /\ n + 1 \in Nat /\ extracted' = n + 1
        /\ DOMAIN files = Known(n)
    BY <1>1, <1>2, <1>7 DEF OutputInv, ProgressInv, FilteredSoFar
  <2>2. {target_flows[i] : i \in 1..n + 1} = {target_flows[i] : i \in 1..n} \cup {id}
    <3>1. 1..n + 1 = (1..n) \cup {n + 1}
      BY <1>2
    <3>. QED
      BY <1>3, <3>1
  <2>3. DOMAIN files' = Known(n + 1)
    <3>1. CASE files' = files /\ GetFlow(reader, id) = Absent
      BY <2>1, <2>2, <3>1 DEF Known
    <3>2. CASE GetFlow(reader, id) # Absent
      <4>1. DOMAIN files' = DOMAIN files \cup {id}
        BY <1>1, <1>4, <1>7, <3>2, WrittenFile DEF OutputInv, OpenInv
      <4>. QED
        BY <2>1, <2>2, <3>2, <4>1 DEF Known
    <3>. QED
      BY <1>4, <1>7, <3>1, <3>2
  <2>4. \A m : Known(m)' = Known(m)
    BY <1>1, FilesStay
  <2>5. FilteredSoFar(extracted)' =
          (/\ extracted' \in Nat /\ applied' = Len(command'.filters) /\ target_flows' # <<>>
           /\ DOMAIN files' = Known(extracted'))
    BY <1>1, <2>4 DEF FilteredSoFar, Known
  <2>. QED
    BY <1>1, <2>1, <2>3, <2>5 DEF FilteredSoFar
<1>8. ProgressInv'
  BY <1>1, <1>7 DEF OutputInv, ProgressInv
<1>. QED
  BY <1>5, <1>6, <1>8 DEF OutputInv

(* --extract ends with the file of its flow, or with an error. *)
LEMMA ExtractOneOutput ==
  ASSUME OutputInv, ExtractOne, final' = final
  PROVE  OutputInv'
<1>1. /\ step = "extracting one" /\ step' \in {"ok", "error"}
      /\ UNCHANGED <<reader, command, disk_fails, applied, target_flows, extracted, stdout>>
  BY DEF ExtractOne
<1>2. PICK id : id = command.id
  OBVIOUS
<1>3. \/ files' = files /\ step' = "error"
      \/ /\ GetFlow(reader, id) # Absent
         /\ \E contents \in Written(GetFlow(reader, id)) : files' = WithFile(id, contents)
  BY <1>2, Zenon DEF ExtractOne
<1>4. OpenInv'
  BY <1>1 DEF OutputInv, OpenInv
<1>5. FilesAreOfFlows' /\ (step' = "ok" => id \in DOMAIN files')
  <2>1. CASE files' = files /\ step' = "error"
    <3>1. \A g \in DOMAIN files' : IsFile(g, files'[g])
      BY <2>1 DEF OutputInv, FilesAreOfFlows
    <3>. QED
      BY <1>1, <2>1, <3>1 DEF FilesAreOfFlows, IsFile, Written
  <2>2. CASE ~(files' = files /\ step' = "error")
    <3>1. FilesAreOfFlows' /\ DOMAIN files' = DOMAIN files \cup {id}
      BY <1>1, <1>3, <2>2, WrittenFile DEF OutputInv, OpenInv
    <3>. QED
      BY <3>1
  <2>. QED
    BY <2>1, <2>2
<1>6. ProgressInv'
  BY <1>1, <1>2, <1>5 DEF OutputInv, ProgressInv
<1>. QED
  BY <1>4, <1>5, <1>6 DEF OutputInv

(* One flow more is in the pipe. *)
LEMMA PipeFlowOutput ==
  ASSUME OutputInv, PipeFlow, final' = final
  PROVE  OutputInv'
<1>1. /\ step = "piping" /\ extracted' = extracted + 1
      /\ UNCHANGED <<reader, command, disk_fails, applied, target_flows, step, files>>
  BY DEF PipeFlow
<1>2. PICK n \in Nat : n = extracted
  BY <1>1 DEF OutputInv, ProgressInv, PipedSoFar
<1>3. PICK flow : flow = PipedFlow(reader, reader.entries[n + 1])
  OBVIOUS
<1>4. PICK s : s = stdout
  OBVIOUS
<1>5. /\ stdout' = Append(s, flow) /\ IsSequence(s) /\ Len(s) = n
      /\ \A i \in 1..n : s[i] = PipedFlow(reader, reader.entries[i])
  BY <1>1, <1>2, <1>3, <1>4 DEF PipeFlow, OutputInv, ProgressInv, PipedSoFar
<1>6. /\ IsSequence(Append(s, flow)) /\ Len(Append(s, flow)) = n + 1
      /\ Append(s, flow)[n + 1] = flow
      /\ \A i \in 1..n : Append(s, flow)[i] = s[i]
  <2>. DEFINE S == {s[i] : i \in 1..Len(s)} \cup {flow}
  <2>1. s \in Seq(S) /\ flow \in S
    <3>1. s \in Seq({s[i] : i \in 1..Len(s)})
      BY <1>5, SequenceOfItsElements
    <3>. QED
      BY <3>1
  <2>. HIDE DEF S
  <2>2. Append(s, flow) \in Seq(S)
    BY <2>1, AppendProperties
  <2>3. PICK t : t = Append(s, flow)
    OBVIOUS
  <2>4. /\ Len(t) = Len(s) + 1 /\ t[Len(s) + 1] = flow
        /\ \A i \in 1..Len(s) : t[i] = s[i]
    BY <2>1, <2>3, AppendProperties
  <2>5. IsSequence(t)
    BY <2>2, <2>3, SeqIsSequence
  <2>6. Len(t) = n + 1 /\ t[n + 1] = flow /\ \A i \in 1..n : t[i] = s[i]
    BY <1>5, <2>4
  <2>. QED
    BY <2>3, <2>5, <2>6
<1>7. PipedSoFar(extracted)'
  <2>1. \A i \in 1..n + 1 : i \in 1..n \/ i = n + 1
    BY <1>2
  <2>2. \A i \in 1..n + 1 : stdout'[i] = PipedFlow(reader, reader.entries[i])
    BY <1>3, <1>5, <1>6, <2>1
  <2>3. n + 1 \in Nat /\ extracted' = n + 1
    BY <1>1, <1>2
  <2>. QED
    BY <1>1, <1>5, <1>6, <2>2, <2>3 DEF PipedSoFar
<1>8. OpenInv'
  BY <1>1 DEF OutputInv, OpenInv
<1>9. FilesAreOfFlows'
  BY <1>1 DEF OutputInv, FilesAreOfFlows, IsFile, Written
<1>10. ProgressInv'
  BY <1>1, <1>7 DEF OutputInv, ProgressInv
<1>. QED
  BY <1>8, <1>9, <1>10 DEF OutputInv

(* Every step keeps what is known of the files and of the output. *)
LEMMA NextOutput ==
  QueryInv /\ FinalAnswers /\ OutputInv /\ [RoundTripNext]_roundTripVars => OutputInv'
<1>. SUFFICES ASSUME QueryInv, FinalAnswers, OutputInv, [RoundTripNext]_roundTripVars
              PROVE  OutputInv'
  OBVIOUS
<1>1. ASSUME UNCHANGED <<reader, disk_fails, files>>
      PROVE  FilesAreOfFlows'
  BY <1>1 DEF OutputInv, FilesAreOfFlows, IsFile, Written
<1>2. CASE OpenArchive
  BY <1>2, OpenArchiveOutput
<1>3. CASE WriterStep
  <2>1. step = "idle" /\ UNCHANGED extractVars
    BY <1>3 DEF WriterStep
  <2>2. OpenInv' /\ ProgressInv'
    BY <2>1 DEF extractVars, OutputInv, OpenInv, ProgressInv
  <2>. QED
    BY <1>1, <2>1, <2>2 DEF extractVars, OutputInv
<1>4. CASE Over \/ UNCHANGED roundTripVars
  <2>1. UNCHANGED extractVars /\ final' = final
    BY <1>4 DEF Over, roundTripVars, vars
  <2>2. OpenInv'
    BY <2>1 DEF extractVars, OutputInv, OpenInv
  <2>3. ProgressInv'
    BY <2>1 DEF extractVars, OutputInv, ProgressInv, FilteredSoFar, Known, PipedSoFar, Rows
  <2>. QED
    BY <1>1, <2>1, <2>2, <2>3 DEF extractVars, OutputInv
<1>5. CASE ReaderStep
  <2>1. Step /\ final' = final
    BY <1>5 DEF ReaderStep, vars
  <2>2. CASE ApplyFilter
    <3>1. /\ step = "filtering" /\ UNCHANGED <<reader, command, disk_fails, step>>
          /\ UNCHANGED <<extracted, files, stdout>>
      BY <2>2 DEF ApplyFilter
    <3>. QED
      BY <1>1, <2>1, <3>1 DEF OutputInv, OpenInv, ProgressInv
  <2>3. CASE FiltersDone
    <3>1. /\ step = "filtering" /\ applied = Len(command.filters)
          /\ step' = "error" \/ (step' = "extracting" /\ target_flows # <<>>)
          /\ UNCHANGED <<reader, command, disk_fails, applied, target_flows>>
          /\ UNCHANGED <<extracted, files, stdout>>
      BY <2>3 DEF FiltersDone
    <3>2. command.mode = "filters" /\ files = <<>> /\ extracted = 0
      BY <3>1 DEF OutputInv, ProgressInv
    <3>3. Known(0) = {} /\ DOMAIN <<>> = {}
      <4>1. 1..0 = {}
        OBVIOUS
      <4>. QED
        BY <4>1 DEF Known
    <3>4. target_flows # <<>> => FilteredSoFar(extracted)'
      BY <3>1, <3>2, <3>3 DEF FilteredSoFar, Known
    <3>5. ProgressInv'
      BY <3>1, <3>2, <3>4 DEF ProgressInv
    <3>. QED
      BY <1>1, <2>1, <3>1, <3>5 DEF OutputInv, OpenInv
  <2>4. CASE ExtractFlow \/ ExtractFails
    BY <2>1, <2>4, ExtractFlowOutput
  <2>5. CASE ExtractionDone
    <3>1. /\ step = "extracting" /\ extracted = Len(target_flows) /\ step' = "ok"
          /\ UNCHANGED <<reader, command, disk_fails, applied, target_flows>>
          /\ UNCHANGED <<extracted, files, stdout>>
      BY <2>5 DEF ExtractionDone
    <3>2. command.mode = "filters" /\ FilteredSoFar(Len(target_flows))
      BY <3>1 DEF OutputInv, ProgressInv
    <3>3. FilteredSoFar(Len(target_flows))'
      BY <3>1, <3>2 DEF FilteredSoFar, Known
    <3>4. ProgressInv'
      BY <3>1, <3>2, <3>3 DEF ProgressInv
    <3>. QED
      BY <1>1, <2>1, <3>1, <3>4 DEF OutputInv, OpenInv
  <2>6. CASE ExtractOne
    BY <2>1, <2>6, ExtractOneOutput
  <2>7. CASE ListFlows
    <3>1. /\ step = "listing" /\ step' = "ok" /\ stdout' = Rows
          /\ UNCHANGED <<reader, command, disk_fails, files>>
      BY <2>7 DEF ListFlows, Rows
    <3>2. ProgressInv'
      BY <3>1 DEF OutputInv, ProgressInv, Rows
    <3>. QED
      BY <1>1, <2>1, <3>1, <3>2 DEF OutputInv, OpenInv
  <2>8. CASE PipeFlow
    BY <2>1, <2>8, PipeFlowOutput
  <2>9. CASE PipeFails
    <3>1. step = "piping" /\ step' = "error" /\ UNCHANGED <<reader, command, disk_fails, files>>
      BY <2>9 DEF PipeFails
    <3>2. ProgressInv'
      BY <3>1 DEF ProgressInv
    <3>. QED
      BY <1>1, <2>1, <3>1, <3>2 DEF OutputInv, OpenInv
  <2>10. CASE PipeDone
    <3>1. /\ step = "piping" /\ extracted = Len(reader.entries) /\ step' = "ok"
          /\ UNCHANGED <<reader, command, disk_fails, files, stdout>>
      BY <2>10 DEF PipeDone
    <3>2. command.mode = "pipe" /\ PipedSoFar(Len(reader.entries))
      BY <3>1 DEF OutputInv, ProgressInv
    <3>3. PipedSoFar(Len(reader.entries))'
      BY <3>1, <3>2 DEF PipedSoFar
    <3>4. ProgressInv'
      BY <3>1, <3>2, <3>3 DEF ProgressInv
    <3>. QED
      BY <1>1, <2>1, <3>1, <3>4 DEF OutputInv, OpenInv
  <2>. QED
    BY <2>1, <2>2, <2>3, <2>4, <2>5, <2>6, <2>7, <2>8, <2>9, <2>10 DEF Step
<1>. QED
  BY <1>2, <1>3, <1>4, <1>5 DEF RoundTripNext
-----------------------------------------------------------------------------
(* An entry passes a filter. *)
Passed(entry, filter) ==
  CASE filter.by = "ip"    -> filter.value \in {entry.src_ip, entry.dst_ip}
    [] filter.by = "port"  -> filter.value \in {entry.src_port, entry.dst_port}
    [] filter.by = "proto" -> entry.protocol = filter.value

(* The scan of the table finds the entries that pass. *)
LEMMA FoundPassed ==
  ASSUME NEW entries, entries = reader.entries, IsTable(entries), NEW filter \in Filter
  PROVE  Found(filter) = {i \in DOMAIN entries : Passed(entries[i], filter)}
<1>1. PICK value : value = filter.value
  OBVIOUS
<1>. DEFINE D == DOMAIN entries
            ip == {i \in D : value \in {entries[i].src_ip, entries[i].dst_ip}}
            port == {i \in D : value \in {entries[i].src_port, entries[i].dst_port}}
            proto == {i \in D : entries[i].protocol = value}
<1>2. ASSUME NEW hits, hits \subseteq D
      PROVE  ToSet(IdsWhere(entries, hits)) = hits
  <2>1. IdsWhere(entries, hits) = Ascending(hits)
    BY <1>2, ScannedIds
  <2>2. \E n \in Nat : D = 1..n
    BY DEF IsTable, IsSequence
  <2>3. IsFiniteSet(D) /\ D \subseteq Int
    BY <2>2, FS_Interval
  <2>4. IsFiniteSet(hits) /\ hits \subseteq Int
    BY <1>2, <2>3, FS_Subset
  <2>5. Lists(Ascending(hits), hits)
    BY <2>4, AscendingLists
  <2>. QED
    BY <2>1, <2>5, ListedSet
<1>3. /\ ScanIp(entries, value) = IdsWhere(entries, ip)
      /\ ScanPort(entries, value) = IdsWhere(entries, port)
      /\ ScanProto(entries, value) = IdsWhere(entries, proto)
  BY DEF ScanIp, ScanPort, ScanProto
<1>4. ip \subseteq D /\ port \subseteq D /\ proto \subseteq D
  OBVIOUS
<1>. HIDE DEF ip, port, proto, D
<1>5. /\ ToSet(ScanIp(entries, value)) = ip /\ ToSet(ScanPort(entries, value)) = port
      /\ ToSet(ScanProto(entries, value)) = proto
  BY <1>2, <1>3, <1>4
<1>6. filter.by \in {"ip", "port", "proto"}
  BY DEF Filter
<1>7. CASE filter.by = "ip"
  <2>1. Found(filter) = ToSet(ScanIp(entries, value))
    BY <1>1, <1>7 DEF Found
  <2>. QED
    BY <1>1, <1>5, <1>7, <2>1 DEF Passed, ip, D
<1>8. CASE filter.by = "port"
  <2>1. Found(filter) = ToSet(ScanPort(entries, value))
    BY <1>1, <1>8 DEF Found
  <2>. QED
    BY <1>1, <1>5, <1>8, <2>1 DEF Passed, port, D
<1>9. CASE filter.by = "proto"
  <2>1. Found(filter) = ToSet(ScanProto(entries, value))
    BY <1>1, <1>9 DEF Found
  <2>. QED
    BY <1>1, <1>5, <1>9, <2>1 DEF Passed, proto, D
<1>. QED
  BY <1>6, <1>7, <1>8, <1>9

(* By session, the entry of a group passes the filters that are meant for  *)
(* any of its packets: the first one stands for all.                       *)
LEMMA PassedIsMeant ==
  ASSUME BySession, NEW filter \in Filter, filter.value # 0, NEW key \in Key,
         NEW packets \in Seq(Packet), packets # <<>>,
         \A j \in 1..Len(packets) : key \in KeysOf(packets[j]),
         NEW entry, HasTuple(entry, FiveTupleOf(packets[1]))
  PROVE  Passed(entry, filter) <=> \E j \in DOMAIN packets : Meant(filter, packets[j])
<1>1. /\ DOMAIN packets = 1..Len(packets) /\ 1 \in 1..Len(packets)
      /\ \A j \in 1..Len(packets) : packets[j] \in Packet
  BY LenProperties, EmptySeq, ElementOfSeq
<1>2. PICK first \in Packet : first = packets[1]
  BY <1>1
<1>3. PICK ft : ft = FiveTupleOf(first)
  OBVIOUS
<1>4. ft \in FiveTuple \cup {Absent} /\ HasTuple(entry, ft)
  BY <1>2, <1>3, PacketsAssumption
<1>5. filter.by \in {"ip", "port", "proto"}
  BY DEF Filter
<1>6. Passed(entry, filter) <=> Meant(filter, first)
  <2>1. CASE ft = Absent
    <3>1. /\ entry.protocol = 0 /\ entry.src_ip = 0 /\ entry.dst_ip = 0
          /\ entry.src_port = 0 /\ entry.dst_port = 0
      BY <1>4, <2>1 DEF HasTuple, NoTuple
    <3>2. ~Passed(entry, filter)
      BY <1>5, <3>1 DEF Passed
    <3>3. ~Meant(filter, first)
      BY <1>3, <2>1 DEF Meant
    <3>. QED
      BY <3>2, <3>3
  <2>2. CASE ft # Absent
    <3>1. /\ entry.protocol = ft.protocol /\ entry.src_ip = ft.src_ip /\ entry.dst_ip = ft.dst_ip
          /\ entry.src_port = ft.src_port /\ entry.dst_port = ft.dst_port
      BY <1>4, <2>2 DEF HasTuple
    <3>. QED
      BY <1>3, <1>5, <2>2, <3>1 DEF Passed, Meant
  <2>. QED
    BY <2>1, <2>2
<1>7. ASSUME NEW j \in 1..Len(packets), Meant(filter, packets[j])
      PROVE  Meant(filter, first)
  <2>1. PICK other \in Packet : other = packets[j]
    BY <1>1
  <2>2. PICK oft : oft = FiveTupleOf(other)
    OBVIOUS
  <2>3. KeysOf(other) \cap KeysOf(first) # {}
    BY <1>1, <1>2, <2>1
  <2>4. SameEnds(oft, ft)
    BY <1>3, <2>2, <2>3 DEF BySession
  <2>5. Meant(filter, other) <=>
          (/\ oft # Absent
           /\ CASE filter.by = "ip"    -> filter.value \in {oft.src_ip, oft.dst_ip}
                [] filter.by = "port"  -> filter.value \in {oft.src_port, oft.dst_port}
                [] filter.by = "proto" -> filter.value = oft.protocol)
    BY <2>2 DEF Meant
  <2>6. Meant(filter, first) <=>
          (/\ ft # Absent
           /\ CASE filter.by = "ip"    -> filter.value \in {ft.src_ip, ft.dst_ip}
                [] filter.by = "port"  -> filter.value \in {ft.src_port, ft.dst_port}
                [] filter.by = "proto" -> filter.value = ft.protocol)
    BY <1>3 DEF Meant
  <2>7. /\ oft # Absent /\ ft # Absent /\ oft.protocol = ft.protocol
        /\ {oft.src_ip, oft.dst_ip} = {ft.src_ip, ft.dst_ip}
        /\ {oft.src_port, oft.dst_port} = {ft.src_port, ft.dst_port}
    BY <1>7, <2>1, <2>4, <2>5 DEF SameEnds
  <2>. QED
    BY <1>5, <1>7, <2>1, <2>5, <2>6, <2>7
<1>. QED
  BY <1>1, <1>2, <1>6, <1>7
-----------------------------------------------------------------------------
(* The groups that the entries of the open archive are of. *)
Stands(owner) ==
  /\ IsTable(reader.entries)
  /\ owner \in Bijection(DOMAIN reader.entries, WithPackets(published))
  /\ \A i \in DOMAIN reader.entries :
       IsOf(reader, reader.entries[i], published[owner[i]])

(* The packets of a group have its key. *)
GroupsAreKeyed ==
  \A key \in WithPackets(published) :
    /\ published[key] \in Seq(Packet)
    /\ \A j \in 1..Len(published[key]) : key \in KeysOf(published[key][j])

(* An archive that opens has an entry for each group. *)
LEMMA OpenGroups ==
  ASSUME QueryInv, OutputInv, FinalGroups, reader # Absent
  PROVE  GroupsAreKeyed /\ \E owner : Stands(owner)
<1>1. PICK file, opened : file = final /\ opened = Open(file)
  OBVIOUS
<1>2. reader = opened
  BY <1>1 DEF QueryInv, ReaderInv, OutputInv, OpenInv
<1>3. file # NoArchive
  <2>1. Opens(file)
    BY <1>1, <1>2 DEF Open
  <2>. QED
    BY <2>1 DEF Opens, NoArchive
<1>4. GroupsIn(file, published)
  BY <1>1, <1>3 DEF FinalGroups
<1>5. PICK owner \in Bijection(DOMAIN opened.entries, WithPackets(published)) :
        \A i \in DOMAIN opened.entries :
          IsOf(opened, opened.entries[i], published[owner[i]])
  BY <1>1, <1>4 DEF GroupsIn
<1>6. IsTable(opened.entries) /\ GroupsAreKeyed
  BY <1>1, <1>4 DEF GroupsIn, GroupsAreKeyed
<1>7. Stands(owner)
  BY <1>2, <1>5, <1>6 DEF Stands
<1>. QED
  BY <1>6, <1>7

(* A flow that get_flow knows is the entry at its place in the table. *)
LEMMA KnownFlow ==
  ASSUME NEW opened, IsTable(opened.entries), NEW id
  PROVE  /\ GetFlow(opened, id) # Absent => id \in DOMAIN opened.entries
         /\ id \in DOMAIN opened.entries => GetFlow(opened, id) = opened.entries[id]
<1>1. PICK n \in Nat : /\ DOMAIN opened.entries = 1..n
                       /\ \A i \in 1..n : opened.entries[i].flow_id = i
  BY SequenceOfItsElements DEF IsTable, IsSequence
<1>2. ASSUME id \in 1..n
      PROVE  GetFlow(opened, id) = opened.entries[id]
  BY <1>1, <1>2, EntryOfId
<1>3. ASSUME id \notin 1..n
      PROVE  GetFlow(opened, id) = Absent
  <2>1. {i \in DOMAIN opened.entries : opened.entries[i].flow_id = id} = {}
    BY <1>1, <1>3
  <2>. QED
    BY <2>1 DEF GetFlow
<1>. QED
  BY <1>1, <1>2, <1>3

(* What is written of a flow is of its group: all of it on a disk that     *)
(* works.                                                                  *)
LEMMA WrittenGroup ==
  ASSUME NEW owner, Stands(owner), GroupsAreKeyed, NEW id, NEW contents, IsFile(id, contents)
  PROVE  /\ id \in DOMAIN reader.entries /\ owner[id] \in WithPackets(published)
         /\ contents \in Prefixes(published[owner[id]])
         /\ ~disk_fails => contents = published[owner[id]]
<1>1. PICK opened : opened = reader
  OBVIOUS
<1>2. id \in DOMAIN opened.entries /\ GetFlow(opened, id) = opened.entries[id]
  BY <1>1, KnownFlow DEF Stands, IsFile
<1>3. PICK entry : entry = opened.entries[id]
  OBVIOUS
<1>4. PICK packets : packets = published[owner[id]]
  OBVIOUS
<1>5. ExtractedFlow(opened, entry) = packets
  BY <1>1, <1>2, <1>3, <1>4 DEF Stands, IsOf
<1>6. owner[id] \in WithPackets(published)
  BY <1>1, <1>2, Fun_BijectionProperties DEF Stands
<1>7. packets \in Seq(Packet)
  BY <1>4, <1>6 DEF GroupsAreKeyed
<1>8. packets \in Prefixes(packets)
  <2>1. SubSeq(packets, 1, Len(packets)) = packets /\ Len(packets) \in 0..Len(packets)
    BY <1>7, SubSeqFull, LenProperties
  <2>. QED
    BY <2>1 DEF Prefixes
<1>9. contents \in IF disk_fails THEN Prefixes(packets) ELSE {packets}
  BY <1>1, <1>2, <1>3, <1>5 DEF IsFile, Written
<1>. QED
  BY <1>1, <1>2, <1>4, <1>6, <1>8, <1>9

(* The groups of some entries, and what was written of them. *)
GroupsOf(owner, ids) == {owner[i] : i \in ids}
PacketsOf(owner, ids) == {published[owner[i]] : i \in ids}

(* Every group has its entry, and one only. *)
LEMMA EachGroupHasAnEntry ==
  ASSUME NEW owner, Stands(owner), NEW ids \in SUBSET DOMAIN reader.entries, NEW keys,
         keys = GroupsOf(owner, ids)
  PROVE  /\ IsFiniteSet(ids) /\ Cardinality(ids) = Cardinality(keys)
         /\ PacketsOf(owner, ids) = OutOf(keys)
<1>1. PICK D, live : D = DOMAIN reader.entries /\ live = WithPackets(published)
  OBVIOUS
<1>2. /\ owner \in [D -> live]
      /\ \A i, j \in D : owner[i] = owner[j] => i = j
  BY <1>1, Fun_BijectionProperties DEF Stands
<1>3. IsFiniteSet(D)
  <2>1. \E n \in Nat : D = 1..n
    BY <1>1 DEF Stands, IsTable, IsSequence
  <2>. QED
    BY <2>1, FS_Interval
<1>4. IsFiniteSet(ids)
  BY <1>1, <1>3, FS_Subset
<1>. DEFINE f == [i \in ids |-> owner[i]]
<1>5. f \in [ids -> keys] /\ \A i, j \in ids : f[i] = f[j] => i = j
  BY <1>1, <1>2 DEF GroupsOf
<1>6. \A key \in keys : \E i \in ids : f[i] = key
  BY DEF GroupsOf
<1>. HIDE DEF f
<1>7. f \in Bijection(ids, keys)
  BY <1>5, <1>6, Fun_IsBij
<1>8. Cardinality(keys) = Cardinality(ids)
  BY <1>4, <1>7, FS_Bijection DEF ExistsBijection
<1>9. \A key \in keys : published[key] # <<>>
  BY <1>1, <1>2 DEF WithPackets, GroupsOf
<1>10. PacketsOf(owner, ids) = OutOf(keys)
  BY <1>9 DEF OutOf, GroupsOf, PacketsOf
<1>. QED
  BY <1>4, <1>8, <1>10

(* The entries are those of all groups. *)
LEMMA AllGroups ==
  ASSUME NEW owner, Stands(owner)
  PROVE  /\ Len(reader.entries) = Cardinality(WithPackets(published))
         /\ PacketsOf(owner, 1..Len(reader.entries)) = OutOf(Key)
         /\ DOMAIN reader.entries = 1..Len(reader.entries)
<1>1. PICK entries : entries = reader.entries
  OBVIOUS
<1>2. Len(entries) \in Nat /\ DOMAIN entries = 1..Len(entries)
  BY <1>1, SequenceOfItsElements DEF Stands, IsTable, IsSequence
<1>3. GroupsOf(owner, DOMAIN entries) = WithPackets(published)
  <2>1. /\ owner \in [DOMAIN entries -> WithPackets(published)]
        /\ \A t \in WithPackets(published) : \E s \in DOMAIN entries : owner[s] = t
    BY <1>1, Fun_BijectionProperties DEF Stands
  <2>. QED
    BY <2>1 DEF GroupsOf
<1>4. /\ Cardinality(DOMAIN entries) = Cardinality(WithPackets(published))
      /\ PacketsOf(owner, DOMAIN entries) = OutOf(WithPackets(published))
  <2>1. PICK ids, keys : ids = DOMAIN entries /\ keys = WithPackets(published)
    OBVIOUS
  <2>2. ids \in SUBSET DOMAIN reader.entries /\ keys = GroupsOf(owner, ids)
    BY <1>1, <1>3, <2>1
  <2>3. /\ Cardinality(ids) = Cardinality(keys)
        /\ PacketsOf(owner, ids) = OutOf(keys)
    BY <2>2, EachGroupHasAnEntry
  <2>. QED
    BY <2>1, <2>3
<1>5. Cardinality(1..Len(entries)) = Len(entries)
  <2>1. PICK n \in Nat : n = Len(entries)
    BY <1>2
  <2>2. Cardinality(1..n) = n
    BY FS_Interval
  <2>. QED
    BY <2>1, <2>2
<1>6. OutOf(WithPackets(published)) = OutOf(Key)
  BY DEF OutOf, WithPackets
<1>. QED
  BY <1>1, <1>2, <1>4, <1>5, <1>6
-----------------------------------------------------------------------------
(* --pipe prints the packets of every group. *)
LEMMA PipedGroups ==
  ASSUME NEW owner, Stands(owner), PipedSoFar(Len(reader.entries))
  PROVE  /\ ToSet(stdout) = OutOf(Key)
         /\ Len(stdout) = Cardinality(WithPackets(published))
<1>1. PICK n : n = Len(reader.entries)
  OBVIOUS
<1>2. /\ n = Cardinality(WithPackets(published)) /\ DOMAIN reader.entries = 1..n
      /\ PacketsOf(owner, 1..n) = OutOf(Key)
  BY <1>1, AllGroups
<1>3. \A i \in 1..n : PipedFlow(reader, reader.entries[i]) = published[owner[i]]
  BY <1>2 DEF Stands, IsOf
<1>4. /\ n \in Nat /\ IsSequence(stdout) /\ Len(stdout) = n
      /\ \A i \in 1..n : stdout[i] = published[owner[i]]
  BY <1>1, <1>3 DEF PipedSoFar
<1>5. DOMAIN stdout = 1..n
  BY <1>4, SequenceOfItsElements DEF IsSequence
<1>6. ToSet(stdout) = PacketsOf(owner, 1..n)
  BY <1>4, <1>5 DEF ToSet, PacketsOf
<1>. QED
  BY <1>2, <1>4, <1>6

(* --list-flows prints the number of packets of every group. *)
LEMMA ListedGroups ==
  ASSUME NEW owner, Stands(owner), stdout = Rows
  PROVE  /\ Len(stdout) = Cardinality(WithPackets(published))
         /\ {stdout[i].packets : i \in DOMAIN stdout} = {Len(out) : out \in OutOf(Key)}
<1>1. PICK n : n = Len(reader.entries)
  OBVIOUS
<1>2. /\ n = Cardinality(WithPackets(published)) /\ DOMAIN reader.entries = 1..n
      /\ PacketsOf(owner, 1..n) = OutOf(Key)
  BY <1>1, AllGroups
<1>3. n \in Nat
  BY <1>1, SequenceOfItsElements DEF Stands, IsTable, IsSequence
<1>4. \A i \in 1..n : reader.entries[i].packet_count = Len(published[owner[i]])
  BY <1>2 DEF Stands, IsOf
<1>. DEFINE row(i) == [flow_id |-> reader.entries[i].flow_id,
                       packets |-> reader.entries[i].packet_count]
<1>5. stdout = [i \in 1..n |-> row(i)]
  BY <1>2 DEF Rows
<1>6. \A i \in 1..n : row(i).packets = Len(published[owner[i]])
  BY <1>4
<1>. HIDE DEF row
<1>7. DOMAIN stdout = 1..n /\ \A i \in 1..n : stdout[i].packets = Len(published[owner[i]])
  BY <1>5, <1>6
<1>8. Len(stdout) = n
  BY <1>3, <1>7
<1>9. {stdout[i].packets : i \in DOMAIN stdout} = {Len(published[owner[i]]) : i \in 1..n}
  BY <1>7
<1>10. {Len(published[owner[i]]) : i \in 1..n} = {Len(out) : out \in OutOf(Key)}
  <2>1. OutOf(Key) = {published[owner[i]] : i \in 1..n}
    BY <1>2 DEF PacketsOf
  <2>. QED
    BY <2>1
<1>. QED
  BY <1>2, <1>8, <1>9, <1>10
-----------------------------------------------------------------------------
(* The entries that pass the first n filters are those of the groups that  *)
(* they are meant for.                                                     *)
LEMMA WantedAreMeant ==
  ASSUME BySession, NEW owner, Stands(owner), GroupsAreKeyed,
         command.filters \in Seq(Filter),
         \A i \in DOMAIN command.filters : command.filters[i].value # 0,
         NEW n \in 0..Len(command.filters)
  PROVE  /\ Wanted(n) \subseteq DOMAIN reader.entries
         /\ MeantGroups(n) = GroupsOf(owner, Wanted(n))
<1>1. PICK entries, D : entries = reader.entries /\ D = DOMAIN entries
  OBVIOUS
<1>2. PICK filters : filters = command.filters
  OBVIOUS
<1>3. \A i \in 1..n : filters[i] \in Filter /\ filters[i].value # 0
  <2>1. filters \in Seq(Filter)
    BY <1>2
  <2>2. DOMAIN filters = 1..Len(filters) /\ Len(filters) \in Nat
        /\ \A i \in 1..Len(filters) : filters[i] \in Filter
    BY <2>1, LenProperties, ElementOfSeq
  <2>3. \A i \in 1..n : i \in 1..Len(filters)
    BY <1>2, <2>2
  <2>. QED
    BY <1>2, <2>2, <2>3
<1>4. IsTable(entries) /\ ToSet(Ids(entries)) = D
  BY <1>1, TableIds DEF Stands
<1>5. \A i \in 1..n : Found(filters[i]) = {id \in D : Passed(entries[id], filters[i])}
  BY <1>1, <1>3, <1>4, FoundPassed
<1>6. Wanted(n) = {id \in D : \A i \in 1..n : Passed(entries[id], filters[i])}
  <2>1. Wanted(n) = {id \in D : \A i \in 1..n : id \in Found(filters[i])}
    BY <1>1, <1>2, <1>4 DEF Wanted
  <2>. QED
    BY <1>5, <2>1
<1>7. /\ \A id \in D : owner[id] \in WithPackets(published)
      /\ \A key \in WithPackets(published) : \E id \in D : owner[id] = key
  BY <1>1, Fun_BijectionProperties DEF Stands
<1>. DEFINE For(key, i) ==
              \E j \in DOMAIN published[key] : Meant(filters[i], published[key][j])
<1>8. ASSUME NEW id \in D, NEW i \in 1..n
      PROVE  Passed(entries[id], filters[i]) <=> For(owner[id], i)
  <2>1. PICK key \in WithPackets(published) : key = owner[id]
    BY <1>7
  <2>2. PICK packets : packets = published[key]
    OBVIOUS
  <2>3. PICK entry : entry = entries[id]
    OBVIOUS
  <2>4. PICK filter \in Filter : filter = filters[i] /\ filter.value # 0
    BY <1>3
  <2>5. /\ key \in Key /\ packets \in Seq(Packet) /\ packets # <<>>
        /\ \A j \in 1..Len(packets) : key \in KeysOf(packets[j])
    BY <2>2 DEF GroupsAreKeyed, WithPackets
  <2>6. HasTuple(entry, FiveTupleOf(packets[1]))
    BY <1>1, <2>1, <2>2, <2>3 DEF Stands, IsOf
  <2>7. Passed(entry, filter) <=> \E j \in DOMAIN packets : Meant(filter, packets[j])
    BY <2>4, <2>5, <2>6, PassedIsMeant
  <2>. QED
    BY <2>1, <2>2, <2>3, <2>4, <2>7
<1>9. MeantGroups(n) = {key \in WithPackets(published) : \A i \in 1..n : For(key, i)}
  BY <1>2 DEF MeantGroups, WithPackets
<1>. HIDE DEF For
<1>10. \A id \in D : owner[id] \in MeantGroups(n) <=> id \in Wanted(n)
  BY <1>6, <1>7, <1>8, <1>9
<1>11. MeantGroups(n) = GroupsOf(owner, Wanted(n))
  <2>1. \A id \in Wanted(n) : id \in D
    BY <1>6
  <2>2. \A key \in MeantGroups(n) : key \in WithPackets(published)
    BY <1>9
  <2>. QED
    BY <1>7, <1>10, <2>1, <2>2 DEF GroupsOf
<1>. QED
  BY <1>1, <1>6, <1>11

(* The filters leave the flows that pass them all, and every one of them   *)
(* gets its file.                                                          *)
LEMMA FilteredGroups ==
  ASSUME BySession, QueryInv, NEW owner, Stands(owner), GroupsAreKeyed,
         command.filters \in Seq(Filter), FilesAreOfFlows, FilteredSoFar(Len(target_flows)),
         ~disk_fails, Meaningful
  PROVE  LET keys == MeantGroups(Len(command.filters))
         IN /\ {files[id] : id \in DOMAIN files} = OutOf(keys)
            /\ Cardinality(DOMAIN files) = Cardinality(keys)
<1>1. PICK entries, D : entries = reader.entries /\ D = DOMAIN entries
  OBVIOUS
<1>2. PICK m \in Nat : m = Len(command.filters) /\ DOMAIN command.filters = 1..m
  BY LenProperties
<1>3. PICK W : W = Wanted(m)
  OBVIOUS
<1>4. PICK keys : keys = MeantGroups(m)
  OBVIOUS
<1>5. PICK t : t = target_flows
  OBVIOUS
<1>6. ASSUME NEW n \in 0..m
      PROVE  Wanted(n) \subseteq D /\ MeantGroups(n) = GroupsOf(owner, Wanted(n))
  BY <1>1, <1>2, WantedAreMeant DEF Meaningful
<1>7. W \subseteq D /\ keys = GroupsOf(owner, W)
  BY <1>3, <1>4, <1>6
<1>8. m \in 1..m /\ applied = m
  <2>1. applied = m /\ target_flows # <<>>
    BY <1>2 DEF FilteredSoFar
  <2>2. m # 0
    BY <2>1 DEF QueryInv, CommandInv
  <2>. QED
    BY <2>1, <2>2
<1>9. t = Retained(Ids(entries), W)
  <2>1. ASSUME NEW n \in 1..m
        PROVE  Wanted(n) # {}
    <3>1. MeantGroups(n) # {}
      BY <1>2 DEF Meaningful
    <3>2. MeantGroups(n) = GroupsOf(owner, Wanted(n))
      BY <1>6
    <3>. QED
      BY <3>1, <3>2 DEF GroupsOf
  <2>. QED
    BY <1>1, <1>3, <1>5, <1>8, <2>1 DEF QueryInv, FiltersIntersect
<1>10. Lists(t, W)
  <2>1. IsTable(entries)
    BY <1>1 DEF Stands
  <2>2. Lists(t, D \cap W)
    BY <1>1, <1>9, <2>1, TableIds
  <2>3. D \cap W = W
    BY <1>7
  <2>. QED
    BY <2>2, <2>3
<1>11. {t[i] : i \in 1..Len(t)} = W
  <2>1. ToSet(t) = W
    BY <1>10, ListedSet
  <2>2. DOMAIN t = 1..Len(t)
    BY <1>10, LenProperties DEF Lists
  <2>. QED
    BY <2>1, <2>2 DEF ToSet
<1>12. DOMAIN files = W
  <2>1. DOMAIN files = {id \in W : GetFlow(reader, id) # Absent}
    BY <1>5, <1>11 DEF FilteredSoFar, Known
  <2>2. ASSUME NEW id \in W
        PROVE  GetFlow(reader, id) # Absent
    <3>1. id \in DOMAIN reader.entries
      BY <1>1, <1>7
    <3>2. GetFlow(reader, id) = reader.entries[id]
      BY <3>1, KnownFlow DEF Stands
    <3>3. IsOf(reader, reader.entries[id], published[owner[id]])
      BY <3>1 DEF Stands
    <3>. QED
      BY <3>2, <3>3 DEF IsOf
  <2>. QED
    BY <2>1, <2>2
<1>13. \A id \in W : files[id] = published[owner[id]]
  BY <1>12, WrittenGroup DEF FilesAreOfFlows
<1>14. {files[id] : id \in DOMAIN files} = PacketsOf(owner, W)
  BY <1>12, <1>13 DEF PacketsOf
<1>15. Cardinality(W) = Cardinality(keys) /\ PacketsOf(owner, W) = OutOf(keys)
  BY <1>1, <1>7, EachGroupHasAnEntry
<1>16. /\ {files[id] : id \in DOMAIN files} = OutOf(keys)
       /\ Cardinality(DOMAIN files) = Cardinality(keys)
  BY <1>12, <1>14, <1>15
<1>. QED
  BY <1>2, <1>4, <1>16

(* What the inductive invariants say of the files and the output. *)
LEMMA OutputIsTheGroups ==
  ASSUME BySession, QueryInv, OutputInv, FinalGroups
  PROVE  FilesAreTheFlows
<1>1. ASSUME NEW id \in DOMAIN files
      PROVE  \E key \in Key : files[id] \in Prefixes(published[key])
  <2>1. IsFile(id, files[id])
    BY DEF OutputInv, FilesAreOfFlows
  <2>2. reader # Absent
    BY <2>1 DEF IsFile
  <2>3. PICK owner : Stands(owner) /\ GroupsAreKeyed
    BY <2>2, OpenGroups
  <2>4. owner[id] \in WithPackets(published) /\ files[id] \in Prefixes(published[owner[id]])
    BY <2>1, <2>3, WrittenGroup
  <2>. QED
    BY <2>4 DEF WithPackets
<1>2. ASSUME step = "ok", ~disk_fails
      PROVE  CASE command.mode = "filters" ->
              Meaningful =>
                LET keys == MeantGroups(Len(command.filters))
                IN /\ {files[id] : id \in DOMAIN files} = OutOf(keys)
                   /\ Cardinality(DOMAIN files) = Cardinality(keys)
         [] command.mode = "flow" -> \E key \in Key : files[command.id] = published[key]
         [] command.mode = "pipe" ->
              /\ ToSet(stdout) = OutOf(Key)
              /\ Len(stdout) = Cardinality({key \in Key : published[key] # <<>>})
         [] command.mode = "list" ->
              /\ Len(stdout) = Cardinality({key \in Key : published[key] # <<>>})
              /\ {stdout[i].packets : i \in DOMAIN stdout} = {Len(out) : out \in OutOf(Key)}
  <2>1. command \in Commands /\ reader # Absent
    BY <1>2 DEF OutputInv, OpenInv
  <2>2. PICK owner : Stands(owner) /\ GroupsAreKeyed
    BY <2>1, OpenGroups
  <2>3. {key \in Key : published[key] # <<>>} = WithPackets(published)
    BY DEF WithPackets
  <2>4. \/ command.mode = "filters" /\ FilteredSoFar(Len(target_flows))
        \/ command.mode = "flow" /\ command.id \in DOMAIN files
        \/ command.mode = "pipe" /\ PipedSoFar(Len(reader.entries))
        \/ command.mode = "list" /\ stdout = Rows
    BY <1>2 DEF OutputInv, ProgressInv
  <2>5. CASE command.mode = "filters" /\ FilteredSoFar(Len(target_flows))
    <3>1. command.filters \in Seq(Filter)
      BY <2>1, <2>5, CommandsAssumption
    <3>2. FilesAreOfFlows
      BY DEF OutputInv
    <3>3. Meaningful =>
            LET keys == MeantGroups(Len(command.filters))
            IN /\ {files[id] : id \in DOMAIN files} = OutOf(keys)
               /\ Cardinality(DOMAIN files) = Cardinality(keys)
      BY <1>2, <2>2, <2>5, <3>1, <3>2, FilteredGroups
    <3>. QED
      BY <2>5, <3>3
  <2>6. CASE command.mode = "flow" /\ command.id \in DOMAIN files
    <3>1. PICK id \in DOMAIN files : id = command.id
      BY <2>6
    <3>2. IsFile(id, files[id])
      BY DEF OutputInv, FilesAreOfFlows
    <3>3. owner[id] \in WithPackets(published) /\ files[id] = published[owner[id]]
      BY <1>2, <2>2, <3>2, WrittenGroup
    <3>4. \E key \in Key : files[command.id] = published[key]
      BY <3>1, <3>3 DEF WithPackets
    <3>. QED
      BY <2>6, <3>4
  <2>7. CASE command.mode = "pipe" /\ PipedSoFar(Len(reader.entries))
    <3>1. ToSet(stdout) = OutOf(Key) /\ Len(stdout) = Cardinality(WithPackets(published))
      BY <2>2, <2>7, PipedGroups
    <3>. QED
      BY <2>3, <2>7, <3>1
  <2>8. CASE command.mode = "list" /\ stdout = Rows
    <3>1. /\ Len(stdout) = Cardinality(WithPackets(published))
          /\ {stdout[i].packets : i \in DOMAIN stdout} = {Len(out) : out \in OutOf(Key)}
      BY <2>2, <2>8, ListedGroups
    <3>. QED
      BY <2>3, <2>8, <3>1
  <2>. QED
    BY <2>4, <2>5, <2>6, <2>7, <2>8
<1>. QED
  BY <1>1, <1>2 DEF FilesAreTheFlows

(* End to end: when the packets that share a key are of one conversation,  *)
(* a run that reports success on a disk that works has extracted exactly   *)
(* the groups the filters are meant for, each with all its packets in the  *)
(* order of the capture, and --pipe and --list-flows give every group; a   *)
(* disk that fails leaves nothing but first packets of a group.            *)
THEOREM FilesAreTheFlowsAlways ==
  ASSUME BySession
  PROVE  RoundTripSpec /\ []PositionFits => []FilesAreTheFlows
<1>1. Init => FirstFits /\ FinalGroups
  BY DEF Init, NoFlows, FirstFits, FinalGroups
<1>2. QueryInv /\ OutputInv /\ FinalGroups => FilesAreTheFlows
  BY OutputIsTheGroups
<1>. QED
  BY <1>1, <1>2, WriterSteps, CreatedAscendInv, NextAscendInv, NextFirstFits, CreatedContent,
     NextContent, CreatedIndexThere, NextIndexThere, NextFinalAnswers, QueryStarts, NextQueryInv,
     CreatedTuples, NextTuples, NextFinalGroups, OutputStarts, NextOutput, PTL DEF RoundTripSpec
=============================================================================
