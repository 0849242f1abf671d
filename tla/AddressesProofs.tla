---------------------------- MODULE AddressesProofs ----------------------------
(***************************************************************************)
(* Theorems about Addresses, for route files of any length and any words.  *)
(***************************************************************************)
EXTENDS Addresses, FiniteSetTheorems, SequenceTheorems, WellFoundedInduction, TLAPS

-----------------------------------------------------------------------------
(* Natural numbers *)

LEMMA Smallest ==
  ASSUME NEW T \in SUBSET Nat, T # {}
  PROVE  \E x \in T : \A y \in T : x <= y
<1>1. IsWellFoundedOn(OpToRel(<, Nat), Nat)
  BY NatLessThanWellFounded
<1>2. PICK x \in T : \A y \in T : << y, x >> \notin OpToRel(<, Nat)
  BY <1>1, WFMin
<1>3. \A y \in T : ~(y < x)
  BY <1>2 DEF OpToRel
<1> QED
  BY <1>3

LEMMA Largest ==
  ASSUME NEW n \in Nat, NEW T \in SUBSET (0 .. n), T # {}
  PROVE  \E x \in T : \A y \in T : y <= x
<1> DEFINE Gap == {n - x : x \in T}
<1>1. Gap \in SUBSET Nat /\ Gap # {}
  <2>1. \A x \in T : x \in 0 .. n /\ n - x \in Nat
    OBVIOUS
  <2>2. PICK x \in T : TRUE
    OBVIOUS
  <2>3. n - x \in Gap
    BY <2>2
  <2> QED
    BY <2>1, <2>3
<1>2. PICK g \in Gap : \A h \in Gap : g <= h
  BY <1>1, Smallest
<1>3. PICK x \in T : g = n - x
  BY <1>2
<1>4. \A y \in T : n - x <= n - y
  BY <1>2, <1>3
<1>5. \A y \in T : y <= x
  BY <1>4
<1> QED
  BY <1>5

LEMMA Greatest ==
  ASSUME NEW n \in Nat, NEW T \in SUBSET (0 .. n), T # {}
  PROVE  Max(T) \in T /\ \A y \in T : y <= Max(T)
<1>1. \E x \in T : \A y \in T : y <= x
  BY Largest
<1> QED
  BY <1>1 DEF Max

LEMMA Tenth ==
  ASSUME NEW n \in Nat
  PROVE  /\ n \div 10 \in Nat /\ n % 10 \in 0 .. 9
         /\ n = 10 * (n \div 10) + (n % 10)
         /\ n >= 10 => n \div 10 < n /\ n \div 10 >= 1
<1> DEFINE q == n \div 10
           r == n % 10
<1>1. q \in Int /\ r \in 0 .. 9
  OBVIOUS
<1>2. n = 10 * q + r
  OBVIOUS
<1> HIDE DEF q, r
<1>3. q \in Nat
  BY <1>1, <1>2
<1>4. n >= 10 => q < n /\ q >= 1
  BY <1>1, <1>2
<1> QED
  BY <1>1, <1>2, <1>3, <1>4 DEF q, r

-----------------------------------------------------------------------------
(* Digits and numbers *)

LEMMA DigitSet ==
  /\ Range(Digits) = {"0", "1", "2", "3", "4", "5", "6", "7", "8", "9"}
  /\ \A d \in 0 .. 9 : d + 1 \in DOMAIN Digits /\ Digits[d + 1] \in Range(Digits)
  /\ \A d \in 0 .. 9 : Digits[d + 1] = "0" <=> d = 0
<1>1. DOMAIN Digits = 1 .. 10
  BY DEF Digits
<1>2. /\ Digits[1] = "0" /\ Digits[2] = "1" /\ Digits[3] = "2" /\ Digits[4] = "3"
      /\ Digits[5] = "4" /\ Digits[6] = "5" /\ Digits[7] = "6" /\ Digits[8] = "7"
      /\ Digits[9] = "8" /\ Digits[10] = "9"
  BY DEF Digits
<1>3. \A i \in 1 .. 10 : i \in {1, 2, 3, 4, 5, 6, 7, 8, 9, 10}
  OBVIOUS
<1>4. Range(Digits) = {Digits[i] : i \in 1 .. 10}
  BY <1>1 DEF Range
<1>5. Range(Digits) = {"0", "1", "2", "3", "4", "5", "6", "7", "8", "9"}
  BY <1>2, <1>3, <1>4
<1>6. ASSUME NEW d \in 0 .. 9
      PROVE  /\ d + 1 \in 1 .. 10
             /\ Digits[d + 1] = "0" <=> d = 0
  <2>1. d + 1 \in 1 .. 10
    OBVIOUS
  <2>2. d # 0 => d + 1 \in {2, 3, 4, 5, 6, 7, 8, 9, 10}
    OBVIOUS
  <2> QED
    BY <1>2, <2>1, <2>2
<1> QED
  BY <1>1, <1>4, <1>5, <1>6

LEMMA DigitValues ==
  ASSUME NEW d \in Range(Digits)
  PROVE  DigitValue(d) \in 0 .. 9
<1>1. DOMAIN Digits = 1 .. 10
  BY DEF Digits
<1>2. \E i \in DOMAIN Digits : Digits[i] = d
  BY DEF Range
<1>3. (CHOOSE i \in DOMAIN Digits : Digits[i] = d) \in 1 .. 10
  BY <1>1, <1>2
<1> QED
  BY <1>3 DEF DigitValue

LEMMA WildNoDigit == \A d \in Range(Digits) : d \notin Wild
BY DigitSet DEF Wild

LEMMA Numbers == \E top \in Nat : top >= 9 /\ Number = 0 .. top
<1>1. PICK top : top = 65535
  BY SMT
<1>2. top \in Nat /\ top >= 9 /\ Number = 0 .. top
  BY <1>1, SMT DEF Number
<1> QED
  BY <1>2

\* printf's %u: Decimal is the function its definition describes.
LEMMA DecimalDefined ==
  \A n \in Number :
    Decimal[n] = IF n < 10 THEN << Digits[n + 1] >>
                 ELSE Append(Decimal[n \div 10], Digits[(n % 10) + 1])
<1> DEFINE body(f, n) == IF n < 10 THEN << Digits[n + 1] >>
                         ELSE Append(f[n \div 10], Digits[(n % 10) + 1])
           Approx(k, f) == f = [n \in 0 .. k |-> f[n]] /\ \A n \in 0 .. k : f[n] = body(f, n)
           Missing == {k \in Nat : ~\E f : Approx(k, f)}
<1>1. Missing = {}
  <2> SUFFICES ASSUME Missing # {}
               PROVE  FALSE
    OBVIOUS
  <2>1. PICK k \in Missing : \A j \in Missing : k <= j
    BY Smallest
  <2>2. k \in Nat
    BY <2>1
  <2>3. CASE k = 0
    <3> DEFINE g == [n \in 0 .. 0 |-> << Digits[n + 1] >>]
    <3>1. g = [n \in 0 .. 0 |-> g[n]]
      OBVIOUS
    <3>2. \A n \in 0 .. 0 : g[n] = body(g, n)
      OBVIOUS
    <3>3. Approx(0, g)
      BY <3>1, <3>2
    <3> QED
      BY <2>1, <2>3, <3>3
  <2>4. CASE k # 0
    <3>1. k - 1 \in Nat /\ k - 1 \notin Missing
      BY <2>1, <2>2, <2>4
    <3>2. PICK f : Approx(k - 1, f)
      BY <3>1
    <3> DEFINE g == [n \in 0 .. k |-> IF n = k THEN body(f, k) ELSE f[n]]
    <3>3. g = [n \in 0 .. k |-> g[n]]
      OBVIOUS
    <3>4. ASSUME NEW n \in 0 .. k
          PROVE  g[n] = body(g, n)
      <4>1. g[n] = body(f, n)
        <5>1. CASE n = k
          BY <5>1
        <5>2. CASE n # k
          <6>1. n \in 0 .. k - 1
            BY <2>2, <5>2
          <6>2. g[n] = f[n]
            BY <5>2
          <6> QED
            BY <3>2, <6>1, <6>2
        <5> QED
          BY <5>1, <5>2
      <4>2. n >= 10 => f[n \div 10] = g[n \div 10]
        <5>1. n \in Nat /\ n <= k
          BY <2>2
        <5>2. n >= 10 => n \div 10 \in Nat /\ n \div 10 < n
          BY <5>1, Tenth
        <5>3. n >= 10 => n \div 10 \in 0 .. k /\ n \div 10 # k
          BY <2>2, <5>1, <5>2
        <5> QED
          BY <5>3
      <4>3. ~(n < 10) => n >= 10
        BY <2>2
      <4> QED
        BY <4>1, <4>2, <4>3
    <3> HIDE DEF g
    <3>5. Approx(k, g)
      BY <3>3, <3>4
    <3> QED
      BY <2>1, <3>5
  <2> QED
    BY <2>3, <2>4
<1>2. PICK top \in Nat : Number = 0 .. top
  BY Numbers
<1>3. \E f : f = [n \in Number |-> body(f, n)]
  <2>1. PICK f : Approx(top, f)
    <3> HIDE DEF Approx
    <3> QED
      BY <1>1
  <2> HIDE DEF body
  <2>2. f = [n \in Number |-> f[n]]
    BY <1>2, <2>1
  <2>3. \A n \in Number : f[n] = body(f, n)
    BY <1>2, <2>1
  <2>4. [n \in Number |-> f[n]] = [n \in Number |-> body(f, n)]
    BY <2>3
  <2> QED
    BY <2>2, <2>4
<1>4. Decimal = CHOOSE d : d = [n \in Number |-> body(d, n)]
  BY DEF Decimal
<1>5. Decimal = [n \in Number |-> body(Decimal, n)]
  BY <1>3, <1>4
<1> HIDE DEF body
<1>6. \A n \in Number : Decimal[n] = body(Decimal, n)
  BY <1>5
<1> QED
  BY <1>6 DEF body

LEMMA Decimals ==
  \A n \in Number :
    /\ Decimal[n] \in Seq(Range(Digits)) /\ Len(Decimal[n]) >= 1
    /\ n < 10 => Decimal[n] = << Digits[n + 1] >>
    /\ n >= 10 => Len(Decimal[n]) >= 2
<1> DEFINE Good(n) == Decimal[n] \in Seq(Range(Digits)) /\ Len(Decimal[n]) >= 1
           Bad == {n \in Number : ~Good(n)}
<1>0. \A n \in Number : n \in Nat
  BY Numbers
<1>1. ASSUME NEW n \in Number, n < 10
      PROVE  Decimal[n] = << Digits[n + 1] >> /\ Good(n)
  <2>1. Decimal[n] = << Digits[n + 1] >>
    BY <1>1, DecimalDefined
  <2>2. Digits[n + 1] \in Range(Digits)
    BY <1>1, <1>0, DigitSet
  <2> QED
    BY <2>1, <2>2
<1>2. ASSUME NEW n \in Number, n >= 10, Good(n \div 10)
      PROVE  Good(n) /\ Len(Decimal[n]) >= 2
  <2>1. Decimal[n] = Append(Decimal[n \div 10], Digits[(n % 10) + 1])
    <3>1. n \in Nat
      BY <1>0
    <3>2. ~(n < 10)
      BY <1>2, <3>1
    <3> QED
      BY <3>2, DecimalDefined
  <2>2. Digits[(n % 10) + 1] \in Range(Digits)
    BY <1>0, Tenth, DigitSet
  <2> QED
    BY <1>2, <2>1, <2>2
<1>3. \A n \in Number : n >= 10 => n \div 10 \in Number /\ n \div 10 < n
  <2> SUFFICES ASSUME NEW n \in Number, n >= 10
               PROVE  n \div 10 \in Number /\ n \div 10 < n
    OBVIOUS
  <2>1. PICK top \in Nat : Number = 0 .. top
    BY Numbers
  <2>2. n \in Nat /\ n <= top
    BY <2>1
  <2>3. n \div 10 \in Nat /\ n \div 10 < n
    BY <2>2, Tenth
  <2> QED
    BY <2>1, <2>2, <2>3
<1>4. Bad = {}
  <2> SUFFICES ASSUME Bad # {}
               PROVE  FALSE
    OBVIOUS
  <2> HIDE DEF Good
  <2>1. Bad \in SUBSET Nat
    BY <1>0
  <2>2. PICK n \in Bad : \A m \in Bad : n <= m
    BY <2>1, Smallest
  <2>3. n \in Nat /\ n >= 10
    BY <1>1, <2>1, <2>2
  <2>4. n \div 10 \in Number /\ n \div 10 < n /\ n \div 10 \in Nat
    BY <1>3, <2>2, <2>3, Tenth
  <2>5. Good(n \div 10)
    BY <2>2, <2>3, <2>4
  <2> QED
    BY <1>2, <2>2, <2>3, <2>5
<1> HIDE DEF Good
<1>5. \A n \in Number : Good(n)
  BY <1>4
<1>6. \A n \in Number : n >= 10 => Len(Decimal[n]) >= 2
  BY <1>2, <1>3, <1>5
<1> QED
  BY <1>1, <1>5, <1>6 DEF Good

\* atoi, read digit by digit, yields a number of 16 bits.
LEMMA Values ==
  ASSUME NEW part \in Seq(Range(Digits))
  PROVE  Value(part) \in Number /\ (part = << >> => Value(part) = 0)
<1> DEFINE n == Len(part)
           digit(i) == DigitValue(part[i])
           body(f, i) == IF i = 0 THEN 0 ELSE (10 * f[i - 1] + digit(i)) % 65536
           Approx(k, f) == /\ f \in [0 .. k -> Number]
                           /\ \A i \in 0 .. k : f[i] = body(f, i)
           Missing == {k \in Nat : k <= n /\ ~\E f : Approx(k, f)}
<1>0. n \in Nat /\ part \in [1 .. n -> Range(Digits)]
  OBVIOUS
<1>1. \A i \in 1 .. n : digit(i) \in 0 .. 9
  BY <1>0, DigitValues
<1> HIDE DEF digit, n, body
<1>2. 0 \in Number /\ \A x \in Number : x \in Nat
  BY Numbers
<1>3. \A x \in Nat : x % 65536 \in Number
  BY SMT DEF Number
<1>4. Missing = {}
  <2> SUFFICES ASSUME Missing # {}
               PROVE  FALSE
    OBVIOUS
  <2>1. PICK k \in Missing : \A j \in Missing : k <= j
    BY Smallest
  <2>2. k \in Nat /\ k <= n
    BY <2>1
  <2>3. CASE k = 0
    <3> DEFINE g == [i \in 0 .. 0 |-> 0]
    <3>1. g \in [0 .. 0 -> Number] /\ \A i \in 0 .. 0 : g[i] = 0 /\ i = 0
      BY <1>2
    <3> HIDE DEF g
    <3>2. Approx(0, g)
      BY <3>1 DEF body
    <3> QED
      BY <2>1, <2>3, <3>2
  <2>4. CASE k # 0
    <3>a. k - 1 \in Nat /\ k - 1 <= n /\ ~(k <= k - 1)
      BY <2>2, <2>4, <1>0
    <3>1. k - 1 \in Nat /\ k - 1 <= n /\ k - 1 \notin Missing
      <4> HIDE DEF Missing
      <4> QED
        BY <2>1, <3>a
    <3>2. PICK f : Approx(k - 1, f)
      BY <3>1
    <3> DEFINE g == [i \in 0 .. k |-> IF i = k THEN body(f, k) ELSE f[i]]
    <3>3. body(f, k) \in Number
      <4>1. k - 1 \in 0 .. k - 1 /\ k \in 1 .. n
        BY <2>2, <2>4, <3>1, <1>0
      <4>a. digit(k) \in Nat
        BY <4>1, <1>1
      <4>b. f[k - 1] \in Number
        BY <4>1, <3>2
      <4>2. f[k - 1] \in Nat /\ digit(k) \in Nat
        BY <4>a, <4>b, <1>2
      <4>3. 10 * f[k - 1] + digit(k) \in Nat
        BY <4>2, SMT
      <4> QED
        BY <4>3, <1>3, <2>4 DEF body
    <3>4. \A i \in 0 .. k : i # k => i \in 0 .. k - 1
      BY <2>2
    <3>5. g \in [0 .. k -> Number]
      BY <3>2, <3>3, <3>4
    <3>6. g[k] = body(f, k) /\ \A i \in 0 .. k - 1 : g[i] = f[i]
      BY <2>2
    <3> HIDE DEF g
    <3>7. ASSUME NEW i \in 0 .. k
          PROVE  g[i] = body(g, i)
      <4>1. g[i] = body(f, i)
        <5>1. i = k => g[i] = body(f, i)
          BY <3>6
        <5>2. i # k => g[i] = body(f, i)
          BY <3>2, <3>4, <3>6
        <5> QED
          BY <5>1, <5>2
      <4>2. i # 0 => g[i - 1] = f[i - 1]
        BY <2>2, <3>6
      <4> QED
        BY <4>1, <4>2 DEF body
    <3>8. Approx(k, g)
      BY <3>5, <3>7
    <3> QED
      BY <2>1, <2>2, <3>8
  <2> QED
    BY <2>3, <2>4
<1>5. PICK f : Approx(n, f)
  <2> HIDE DEF Approx
  <2> QED
    BY <1>4, <1>0
<1>6. f = [i \in 0 .. n |-> body(f, i)]
  BY <1>5
<1> DEFINE u == CHOOSE g : g = [i \in 0 .. n |-> body(g, i)]
<1>7. u = [i \in 0 .. n |-> body(u, i)]
  BY <1>6
<1>8. Value(part) = u[n]
  BY SMT DEF Value, n, digit, body
<1> HIDE DEF u
<1>9. \A i \in 0 .. n : u[i] = body(u, i)
  BY <1>7
<1>10. u[0] = 0
  BY <1>9, <1>0 DEF body
<1>11. u[n] \in Number
  <2> DEFINE Bad == {i \in 0 .. n : u[i] \notin Number}
  <2> SUFFICES ASSUME Bad # {}
               PROVE  FALSE
    BY <1>0
  <2>1. Bad \in SUBSET Nat
    OBVIOUS
  <2>2. PICK i \in Bad : \A j \in Bad : i <= j
    BY <2>1, Smallest
  <2>3. i \in Nat /\ i <= n /\ i # 0 /\ u[i] \notin Number
    BY <1>10, <1>2, <1>0, <2>2
  <2>4. i - 1 \in 0 .. n /\ i \in 1 .. n /\ ~(i <= i - 1)
    BY <2>3, <1>0
  <2>a. digit(i) \in Nat
    BY <2>4, <1>1
  <2>b. u[i - 1] \in Number
    BY <2>2, <2>4
  <2>5. u[i - 1] \in Nat /\ digit(i) \in Nat
    BY <2>a, <2>b, <1>2
  <2>6. 10 * u[i - 1] + digit(i) \in Nat
    BY <2>5, SMT
  <2>7. u[i] = (10 * u[i - 1] + digit(i)) % 65536
    BY <1>9, <2>3, <2>4, SMT DEF body
  <2> QED
    BY <2>6, <2>7, <2>3, <1>3
<1> QED
  BY <1>8, <1>10, <1>11 DEF n

-----------------------------------------------------------------------------
(* CompareBit *)

LEMMA AnythingFits ==
  ASSUME NEW n \in Number, NEW part \in Part, StartsWith("*", part)
  PROVE  CompareBit(n, part)
<1>1. 1 \in DOMAIN part /\ part[1] = "*" /\ \A i \in 1 .. 1 - 1 : FALSE
  BY DEF StartsWith, Part
<1>2. 1 <= Len(Decimal[n]) + 1
  BY Decimals
<1> QED
  BY <1>1, <1>2 DEF CompareBit

LEMMA StarFits ==
  ASSUME NEW n \in Number
  PROVE  CompareBit(n, Star)
<1>1. Star \in Part /\ StartsWith("*", Star)
  BY DEF Star, Part, Char, Wild, StartsWith
<1> QED
  BY <1>1, AnythingFits

LEMMA ZeroFits ==
  ASSUME NEW n \in Number
  PROVE  CompareBit(n, Zero) <=> n = 0
<1> DEFINE d == Decimal[n]
<1>1. d \in Seq(Range(Digits)) /\ Len(d) >= 1 /\ n \in Nat
  BY Decimals, Numbers
<1>2. /\ n < 10 => d = << Digits[n + 1] >>
      /\ n >= 10 => Len(d) >= 2
  BY Decimals
<1>3. CompareBit(n, Zero) <=> Len(d) = 1 /\ d[1] = "0"
  <2> HIDE DEF d
  <2>1. DOMAIN Zero = {1} /\ Zero[1] = "0" /\ Len(Zero) = 1
    BY DEF Zero
  <2>2. Fits(d[1], "0") <=> d[1] = "0"
    BY DEF Fits
  <2>3. CompareBit(n, Zero) <=>
          \/ \E k \in DOMAIN Zero :
               Zero[k] = "*" /\ k <= Len(d) + 1 /\ \A i \in 1 .. k - 1 : Fits(d[i], Zero[i])
          \/ Len(d) = Len(Zero) /\ \A i \in DOMAIN Zero : Fits(d[i], Zero[i])
    BY DEF CompareBit, d
  <2> QED
    BY <2>1, <2>2, <2>3
<1>4. CASE n < 10
  <2>1. n \in 0 .. 9
    BY <1>1, <1>4
  <2>2. Digits[n + 1] = "0" <=> n = 0
    BY <2>1, DigitSet
  <2>3. d = << Digits[n + 1] >>
    BY <1>1, <1>2, <1>4
  <2> HIDE DEF d
  <2>4. Len(d) = 1 /\ d[1] = Digits[n + 1]
    BY <2>3
  <2>5. Len(d) = 1 /\ d[1] = "0" <=> n = 0
    BY <2>2, <2>4
  <2> QED
    BY <1>3, <2>5, Zenon
<1>5. CASE n >= 10
  <2> HIDE DEF d
  <2>2. Len(d) >= 2 /\ Len(d) \in Nat
    BY <1>1, <1>2, <1>5
  <2>3. n # 0
    BY <1>1, <1>5
  <2>4. \A x \in Nat : x >= 2 => x # 1
    OBVIOUS
  <2>1. Len(d) # 1
    BY <2>2, <2>4, Zenon
  <2> QED
    BY <1>3, <2>1, <2>3, Zenon
<1> HIDE DEF d
<1> QED
  BY <1>1, <1>4, <1>5

\* CompareBit finds what the manual says of a part without "?" that has at most
\* one "*", at its end.
LEMMA AsDocumented ==
  ASSUME NEW n \in Number, NEW part \in Part,
         \A c \in DOMAIN part : part[c] # "?" /\ (part[c] = "*" => c = Len(part))
  PROVE  CompareBit(n, part) <=> Documented(Decimal[n], part)
<1> DEFINE d == Decimal[n]
           l == Len(part)
           m == Len(d)
<1>1. /\ d \in Seq(Range(Digits)) /\ m \in Nat
      /\ part \in Seq(Char) /\ l \in Nat /\ DOMAIN part = 1 .. l
  BY Decimals DEF Part
<1>2. CompareBit(n, part) <=>
        \/ \E k \in 1 .. l :
             part[k] = "*" /\ k <= m + 1 /\ \A i \in 1 .. k - 1 : Fits(d[i], part[i])
        \/ m = l /\ \A i \in 1 .. l : Fits(d[i], part[i])
  BY <1>1 DEF CompareBit
<1>3. Documented(d, part) <=>
        \E from \in [1 .. l + 1 -> 1 .. m + 1] :
          /\ from[1] = 1 /\ from[l + 1] = m + 1
          /\ \A c \in 1 .. l :
               CASE part[c] = "*" -> from[c + 1] >= from[c]
                 [] part[c] = "?" -> from[c + 1] \in {from[c], from[c] + 1}
                 [] OTHER -> from[c + 1] = from[c] + 1 /\ part[c] \in {"#", d[from[c]]}
  BY DEF Documented
<1>4. \A i \in 1 .. l : part[i] \notin {"*", "?"} =>
        (Fits(d[i], part[i]) <=> part[i] \in {"#", d[i]})
  BY DEF Fits
<1>5. \A c \in 1 .. l : part[c] # "?" /\ (part[c] = "*" => c = l)
  BY <1>1
<1>6. ASSUME NEW k \in 1 .. l, part[k] = "*"
      PROVE  k = l /\ \A i \in 1 .. l : i # l => part[i] # "*"
  BY <1>5, <1>6
<1>7. ASSUME NEW from \in [1 .. l + 1 -> 1 .. m + 1], from[1] = 1,
             NEW e \in 0 .. l,
             \A c \in 1 .. e : from[c + 1] = from[c] + 1
      PROVE  \A c \in 1 .. e + 1 : from[c] = c
  <2> DEFINE Bad == {c \in 1 .. e + 1 : from[c] # c}
  <2> SUFFICES ASSUME Bad # {}
               PROVE  FALSE
    OBVIOUS
  <2>1. Bad \in SUBSET Nat
    OBVIOUS
  <2>2. PICK c \in Bad : \A b \in Bad : c <= b
    BY <2>1, Smallest
  <2>3. c \in Nat /\ c >= 2 /\ c <= e + 1 /\ from[c] # c
    BY <1>1, <1>7, <2>2
  <2>4. c - 1 \in 1 .. e /\ c - 1 \in 1 .. e + 1 /\ c - 1 \notin Bad
    BY <1>1, <2>2, <2>3
  <2>5. from[c - 1] = c - 1 /\ from[c - 1 + 1] = c - 1 + 1
    BY <1>7, <2>4
  <2> QED
    BY <2>3, <2>5
<1> HIDE DEF d, l, m
<1>8. CASE l >= 1 /\ part[l] = "*"
  <2>1. CompareBit(n, part) <=> l <= m + 1 /\ \A i \in 1 .. l - 1 : Fits(d[i], part[i])
    <3>1. ~(m = l /\ \A i \in 1 .. l : Fits(d[i], part[i])) \/ \A i \in 1 .. l - 1 : Fits(d[i], part[i])
      BY <1>1, <1>8
    <3>2. l \in 1 .. l
      BY <1>1, <1>8
    <3>3. \A k \in 1 .. l : part[k] = "*" => k = l
      BY <1>5
    <3> QED
      BY <1>1, <1>2, <1>8, <3>1, <3>2, <3>3
  <2>2. ASSUME l <= m + 1, \A i \in 1 .. l - 1 : Fits(d[i], part[i])
        PROVE  Documented(d, part)
    <3> DEFINE from == [c \in 1 .. l + 1 |-> IF c = l + 1 THEN m + 1 ELSE c]
    <3>1. from \in [1 .. l + 1 -> 1 .. m + 1]
      BY <1>1, <2>2
    <3>2. from[l + 1] = m + 1 /\ \A c \in 1 .. l : from[c] = c
      BY <1>1
    <3> HIDE DEF from
    <3>3. from[1] = 1
      BY <1>1, <1>8, <3>2
    <3>4. ASSUME NEW c \in 1 .. l, c # l
          PROVE  /\ from[c + 1] = from[c] + 1 /\ part[c] \in {"#", d[from[c]]}
                 /\ part[c] # "*"
      <4>1. c + 1 \in 1 .. l /\ c \in 1 .. l - 1
        BY <1>1, <3>4
      <4> QED
        BY <1>4, <1>5, <2>2, <3>2, <3>4, <4>1
    <3>5. from[l + 1] >= from[l]
      BY <1>1, <1>8, <2>2, <3>2
    <3>6. \A c \in 1 .. l :
               CASE part[c] = "*" -> from[c + 1] >= from[c]
                 [] part[c] = "?" -> from[c + 1] \in {from[c], from[c] + 1}
                 [] OTHER -> from[c + 1] = from[c] + 1 /\ part[c] \in {"#", d[from[c]]}
      BY <1>5, <1>8, <3>4, <3>5
    <3> QED
      BY <1>3, <3>1, <3>2, <3>3, <3>6
  <2>3. ASSUME Documented(d, part)
        PROVE  l <= m + 1 /\ \A i \in 1 .. l - 1 : Fits(d[i], part[i])
    <3>1. PICK from \in [1 .. l + 1 -> 1 .. m + 1] :
          /\ from[1] = 1 /\ from[l + 1] = m + 1
          /\ \A c \in 1 .. l :
               CASE part[c] = "*" -> from[c + 1] >= from[c]
                 [] part[c] = "?" -> from[c + 1] \in {from[c], from[c] + 1}
                 [] OTHER -> from[c + 1] = from[c] + 1 /\ part[c] \in {"#", d[from[c]]}
      BY <1>3, <2>3
    <3>2. \A c \in 1 .. l : c # l => part[c] # "*" /\ part[c] # "?"
      BY <1>5
    <3>3. \A c \in 1 .. l : c # l =>
            from[c + 1] = from[c] + 1 /\ part[c] \in {"#", d[from[c]]}
      BY <3>1, <3>2
    <3>4. l - 1 \in 0 .. l /\ \A c \in 1 .. l - 1 : c \in 1 .. l /\ c # l
      BY <1>1, <1>8
    <3>5. \A c \in 1 .. l - 1 + 1 : from[c] = c
      BY <1>7, <3>1, <3>3, <3>4
    <3>6. from[l] = l /\ l \in 1 .. l + 1
      BY <1>1, <1>8, <3>5
    <3>7. l <= m + 1
      BY <1>1, <3>1, <3>6
    <3>8. \A c \in 1 .. l - 1 : from[c] = c /\ c \in 1 .. l - 1 + 1
      BY <1>1, <3>5
    <3> QED
      BY <1>4, <3>2, <3>3, <3>4, <3>7, <3>8
  <2> QED
    BY <2>1, <2>2, <2>3 DEF d
<1>9. CASE ~(l >= 1 /\ part[l] = "*")
  <2>1. \A c \in 1 .. l : part[c] \notin {"*", "?"}
    BY <1>1, <1>5, <1>9
  <2>2. CompareBit(n, part) <=> m = l /\ \A i \in 1 .. l : part[i] \in {"#", d[i]}
    BY <1>2, <1>4, <2>1
  <2>3. ASSUME m = l, \A i \in 1 .. l : part[i] \in {"#", d[i]}
        PROVE  Documented(d, part)
    <3> DEFINE from == [c \in 1 .. l + 1 |-> c]
    <3>1. from \in [1 .. l + 1 -> 1 .. m + 1] /\ \A c \in 1 .. l + 1 : from[c] = c
      BY <1>1, <2>3
    <3> HIDE DEF from
    <3>2. from[1] = 1 /\ from[l + 1] = m + 1
      BY <1>1, <2>3, <3>1
    <3>3. \A c \in 1 .. l : from[c + 1] = from[c] + 1 /\ from[c] = c
      BY <1>1, <3>1
    <3> QED
      BY <1>3, <2>1, <2>3, <3>1, <3>2, <3>3
  <2>4. ASSUME Documented(d, part)
        PROVE  m = l /\ \A i \in 1 .. l : part[i] \in {"#", d[i]}
    <3>1. PICK from \in [1 .. l + 1 -> 1 .. m + 1] :
          /\ from[1] = 1 /\ from[l + 1] = m + 1
          /\ \A c \in 1 .. l : from[c + 1] = from[c] + 1 /\ part[c] \in {"#", d[from[c]]}
      BY <1>3, <2>1, <2>4
    <3>4. l \in 0 .. l
      BY <1>1
    <3>2. \A c \in 1 .. l + 1 : from[c] = c
      BY <1>7, <3>1, <3>4
    <3>3. l + 1 \in 1 .. l + 1 /\ \A i \in 1 .. l : i \in 1 .. l + 1
      BY <1>1
    <3> QED
      BY <1>1, <3>1, <3>2, <3>3
  <2> QED
    BY <2>2, <2>3, <2>4 DEF d
<1> QED
  BY <1>8, <1>9

-----------------------------------------------------------------------------
(* The parts of a word *)

LEMMA Cardinalities ==
  /\ Cardinality({}) = 0
  /\ \A x : Cardinality({x}) = 1
  /\ \A x, y : x # y => Cardinality({x, y}) = 2
  /\ \A x, y, z : x # y /\ x # z /\ y # z => Cardinality({x, y, z}) = 3
<1>1. Cardinality({}) = 0
  BY FS_EmptySet
<1>2. ASSUME NEW x
      PROVE  IsFiniteSet({x}) /\ Cardinality({x}) = 1
  BY FS_Singleton
<1>3. ASSUME NEW x, NEW y, x # y
      PROVE  IsFiniteSet({x, y}) /\ Cardinality({x, y}) = 2
  <2>1. {x} \cup {y} = {x, y} /\ y \notin {x}
    BY <1>3
  <2>2. /\ IsFiniteSet({x} \cup {y})
        /\ Cardinality({x} \cup {y}) = IF y \in {x} THEN Cardinality({x}) ELSE Cardinality({x}) + 1
    BY <1>2, FS_AddElement, Zenon
  <2>3. IsFiniteSet({x, y}) /\ Cardinality({x, y}) = Cardinality({x}) + 1
    BY <2>1, <2>2, Zenon
  <2>4. Cardinality({x}) = 1
    BY <1>2
  <2> QED
    BY <2>3, <2>4
<1>4. ASSUME NEW x, NEW y, NEW z, x # y, x # z, y # z
      PROVE  Cardinality({x, y, z}) = 3
  <2>1. {x, y} \cup {z} = {x, y, z} /\ z \notin {x, y}
    BY <1>4
  <2>2. IsFiniteSet({x, y}) /\ Cardinality({x, y}) = 2
    BY <1>3, <1>4
  <2>3. Cardinality({x, y} \cup {z}) =
          IF z \in {x, y} THEN Cardinality({x, y}) ELSE Cardinality({x, y}) + 1
    BY <2>2, FS_AddElement, Zenon
  <2>4. Cardinality({x, y, z}) = Cardinality({x, y}) + 1
    BY <2>1, <2>3, Zenon
  <2> QED
    BY <2>2, <2>4
<1>5. \A x : Cardinality({x}) = 1
  BY <1>2, Zenon
<1>6. \A x, y : x # y => Cardinality({x, y}) = 2
  BY <1>3, Zenon
<1>7. \A x, y, z : x # y /\ x # z /\ y # z => Cardinality({x, y, z}) = 3
  BY <1>4, Zenon
<1> QED
  BY <1>1, <1>5, <1>6, <1>7, Zenon

LEMMA SeparatorSets ==
  ASSUME NEW s \in SUBSET {":", "/", "."}
  PROVE  /\ s \in {{}, {":"}, {"/"}, {"."}, {":", "/"}, {":", "."}, {"/", "."},
                   {":", "/", "."}}
         /\ s \cap {":"} = IF ":" \in s THEN {":"} ELSE {}
         /\ s \cap {":", "/"} = IF ":" \in s THEN IF "/" \in s THEN {":", "/"} ELSE {":"}
                                ELSE IF "/" \in s THEN {"/"} ELSE {}
<1>1. CASE ":" \in s /\ "/" \in s /\ "." \in s
  BY <1>1
<1>2. CASE ":" \in s /\ "/" \in s /\ "." \notin s
  BY <1>2
<1>3. CASE ":" \in s /\ "/" \notin s /\ "." \in s
  BY <1>3
<1>4. CASE ":" \in s /\ "/" \notin s /\ "." \notin s
  BY <1>4
<1>5. CASE ":" \notin s /\ "/" \in s /\ "." \in s
  BY <1>5
<1>6. CASE ":" \notin s /\ "/" \in s /\ "." \notin s
  BY <1>6
<1>7. CASE ":" \notin s /\ "/" \notin s /\ "." \in s
  BY <1>7
<1>8. CASE ":" \notin s /\ "/" \notin s /\ "." \notin s
  BY <1>8
<1> QED
  BY <1>1, <1>2, <1>3, <1>4, <1>5, <1>6, <1>7, <1>8

\* Where the parts of a word are, for each set of separators.
LEMMA Layout ==
  ASSUME NEW w \in Word, Len(w.parts) = Cardinality(w.seps) + 1
  PROVE  /\ w.parts \in Seq(Part) /\ w.seps \in SUBSET {":", "/", "."}
         /\ w.seps = {} => Len(w.parts) = 1 /\ NodeOf(w) = w.parts[1]
         /\ w.seps = {":"} =>
              Len(w.parts) = 2 /\ Before(w, ":") = w.parts[1] /\ NodeOf(w) = w.parts[2]
         /\ w.seps = {"/"} =>
              Len(w.parts) = 2 /\ Before(w, "/") = w.parts[1] /\ NodeOf(w) = w.parts[2]
         /\ w.seps = {"."} =>
              Len(w.parts) = 2 /\ NodeOf(w) = w.parts[1] /\ PointOf(w) = w.parts[2]
         /\ w.seps = {":", "/"} =>
              /\ Len(w.parts) = 3 /\ Before(w, ":") = w.parts[1]
              /\ Before(w, "/") = w.parts[2] /\ NodeOf(w) = w.parts[3]
         /\ w.seps = {":", "."} =>
              /\ Len(w.parts) = 3 /\ Before(w, ":") = w.parts[1]
              /\ NodeOf(w) = w.parts[2] /\ PointOf(w) = w.parts[3]
         /\ w.seps = {"/", "."} =>
              /\ Len(w.parts) = 3 /\ Before(w, "/") = w.parts[1]
              /\ NodeOf(w) = w.parts[2] /\ PointOf(w) = w.parts[3]
         /\ w.seps = {":", "/", "."} =>
              /\ Len(w.parts) = 4 /\ Before(w, ":") = w.parts[1]
              /\ Before(w, "/") = w.parts[2]
              /\ NodeOf(w) = w.parts[3] /\ PointOf(w) = w.parts[4]
<1> DEFINE s == w.seps
           ps == w.parts
           colon == Place(w, ":")
           slash == Place(w, "/")
<1>1. s \in SUBSET {":", "/", "."} /\ ps \in Seq(Part)
  BY DEF Word
<1>2. /\ colon = Cardinality(s \cap {":"})
      /\ slash = Cardinality(s \cap {":", "/"})
  BY DEF Place
<1>3. /\ ":" \in s => Before(w, ":") = ps[colon]
      /\ "/" \in s => Before(w, "/") = ps[slash]
      /\ NodeOf(w) = ps[slash + 1]
      /\ "." \in s => PointOf(w) = ps[Len(ps)]
  BY DEF Before, NodeOf, PointOf, Last
<1>4. Len(ps) = Cardinality(s) + 1
  OBVIOUS
<1> HIDE DEF s, ps, colon, slash
<1>c. Cardinality({":", "/"}) = 2 /\ Cardinality({":", "/", "."}) = 3
  <2>1. ":" # "/" /\ ":" # "." /\ "/" # "."
    OBVIOUS
  <2>2. \A x, y : x # y => Cardinality({x, y}) = 2
    BY Cardinalities
  <2>3. \A x, y, z : x # y /\ x # z /\ y # z => Cardinality({x, y, z}) = 3
    BY Cardinalities
  <2>4. Cardinality({":", "/"}) = 2
    BY <2>1, <2>2, Zenon
  <2>5. Cardinality({":", "/", "."}) = 3
    BY <2>1, <2>3, Zenon
  <2> QED
    BY <2>4, <2>5
<1>5. s = {} => Len(ps) = 1 /\ NodeOf(w) = ps[1]
  <2> SUFFICES ASSUME s = {}
               PROVE  Len(ps) = 1 /\ NodeOf(w) = ps[1]
    OBVIOUS
  <2>1. s \cap {":", "/"} = {}
    OBVIOUS
  <2>2. slash = 0 /\ Cardinality(s) = 0
    BY <1>2, <2>1, Cardinalities
  <2> QED
    BY <1>3, <1>4, <2>2
<1>6. s = {":"} => Len(ps) = 2 /\ Before(w, ":") = ps[1] /\ NodeOf(w) = ps[2]
  <2> SUFFICES ASSUME s = {":"}
               PROVE  Len(ps) = 2 /\ Before(w, ":") = ps[1] /\ NodeOf(w) = ps[2]
    OBVIOUS
  <2>1. s \cap {":"} = {":"} /\ s \cap {":", "/"} = {":"}
    OBVIOUS
  <2>2. colon = 1 /\ slash = 1 /\ Cardinality(s) = 1
    BY <1>2, <2>1, Cardinalities
  <2>3. ":" \in s
    OBVIOUS
  <2> QED
    BY <1>3, <1>4, <2>2, <2>3
<1>7. s = {"/"} => Len(ps) = 2 /\ Before(w, "/") = ps[1] /\ NodeOf(w) = ps[2]
  <2> SUFFICES ASSUME s = {"/"}
               PROVE  Len(ps) = 2 /\ Before(w, "/") = ps[1] /\ NodeOf(w) = ps[2]
    OBVIOUS
  <2>1. s \cap {":", "/"} = {"/"}
    OBVIOUS
  <2>2. slash = 1 /\ Cardinality(s) = 1
    BY <1>2, <2>1, Cardinalities
  <2>3. "/" \in s
    OBVIOUS
  <2> QED
    BY <1>3, <1>4, <2>2, <2>3
<1>8. s = {"."} => Len(ps) = 2 /\ NodeOf(w) = ps[1] /\ PointOf(w) = ps[2]
  <2> SUFFICES ASSUME s = {"."}
               PROVE  Len(ps) = 2 /\ NodeOf(w) = ps[1] /\ PointOf(w) = ps[2]
    OBVIOUS
  <2>1. s \cap {":", "/"} = {}
    OBVIOUS
  <2>2. slash = 0 /\ Cardinality(s) = 1
    BY <1>2, <2>1, Cardinalities
  <2>3. "." \in s
    OBVIOUS
  <2> QED
    BY <1>3, <1>4, <2>2, <2>3
<1>9. s = {":", "/"} => /\ Len(ps) = 3 /\ Before(w, ":") = ps[1]
                        /\ Before(w, "/") = ps[2] /\ NodeOf(w) = ps[3]
  <2> SUFFICES ASSUME s = {":", "/"}
               PROVE  /\ Len(ps) = 3 /\ Before(w, ":") = ps[1]
                        /\ Before(w, "/") = ps[2] /\ NodeOf(w) = ps[3]
    OBVIOUS
  <2>1. s \cap {":"} = {":"} /\ s \cap {":", "/"} = {":", "/"}
    OBVIOUS
  <2>2. colon = 1 /\ slash = 2 /\ Cardinality(s) = 2
    BY <1>2, <1>c, <2>1, Cardinalities
  <2>3. ":" \in s /\ "/" \in s
    OBVIOUS
  <2> QED
    BY <1>3, <1>4, <2>2, <2>3
<1>10. s = {":", "."} => /\ Len(ps) = 3 /\ Before(w, ":") = ps[1]
                         /\ NodeOf(w) = ps[2] /\ PointOf(w) = ps[3]
  <2> SUFFICES ASSUME s = {":", "."}
               PROVE  /\ Len(ps) = 3 /\ Before(w, ":") = ps[1]
                         /\ NodeOf(w) = ps[2] /\ PointOf(w) = ps[3]
    OBVIOUS
  <2>1. s \cap {":"} = {":"} /\ s \cap {":", "/"} = {":"}
    OBVIOUS
  <2>2. colon = 1 /\ slash = 1 /\ Cardinality(s) = 2
    BY <1>2, <2>1, Cardinalities
  <2>3. ":" \in s /\ "." \in s
    OBVIOUS
  <2> QED
    BY <1>3, <1>4, <2>2, <2>3
<1>11. s = {"/", "."} => /\ Len(ps) = 3 /\ Before(w, "/") = ps[1]
                         /\ NodeOf(w) = ps[2] /\ PointOf(w) = ps[3]
  <2> SUFFICES ASSUME s = {"/", "."}
               PROVE  /\ Len(ps) = 3 /\ Before(w, "/") = ps[1]
                         /\ NodeOf(w) = ps[2] /\ PointOf(w) = ps[3]
    OBVIOUS
  <2>1. s \cap {":", "/"} = {"/"}
    OBVIOUS
  <2>2. slash = 1 /\ Cardinality(s) = 2
    BY <1>2, <2>1, Cardinalities
  <2>3. "/" \in s /\ "." \in s
    OBVIOUS
  <2> QED
    BY <1>3, <1>4, <2>2, <2>3
<1>12. s = {":", "/", "."} => /\ Len(ps) = 4 /\ Before(w, ":") = ps[1]
                              /\ Before(w, "/") = ps[2]
                              /\ NodeOf(w) = ps[3] /\ PointOf(w) = ps[4]
  <2> SUFFICES ASSUME s = {":", "/", "."}
               PROVE  /\ Len(ps) = 4 /\ Before(w, ":") = ps[1]
                              /\ Before(w, "/") = ps[2]
                              /\ NodeOf(w) = ps[3] /\ PointOf(w) = ps[4]
    OBVIOUS
  <2>1. s \cap {":"} = {":"} /\ s \cap {":", "/"} = {":", "/"}
    OBVIOUS
  <2>2. colon = 1 /\ slash = 2 /\ Cardinality(s) = 3
    BY <1>2, <1>c, <2>1, Cardinalities
  <2>3. ":" \in s /\ "/" \in s /\ "." \in s
    OBVIOUS
  <2> QED
    BY <1>3, <1>4, <2>2, <2>3
<1> QED
  BY <1>1, <1>5, <1>6, <1>7, <1>8, <1>9, <1>10, <1>11, <1>12 DEF s, ps

\* Each part of an address is a part of the word, or missing.
LEMMA PartsOfWord ==
  ASSUME NEW w \in Word, Len(w.parts) = Cardinality(w.seps) + 1
  PROVE  /\ Len(w.parts) \in 1 .. 4 /\ DOMAIN w.parts = 1 .. Len(w.parts)
         /\ \A i \in DOMAIN w.parts : w.parts[i] \in Part
         /\ \E i \in DOMAIN w.parts : NodeOf(w) = w.parts[i]
         /\ IF ":" \in w.seps THEN \E i \in DOMAIN w.parts : Before(w, ":") = w.parts[i]
            ELSE Before(w, ":") = << >>
         /\ IF "/" \in w.seps THEN \E i \in DOMAIN w.parts : Before(w, "/") = w.parts[i]
            ELSE Before(w, "/") = << >>
         /\ IF "." \in w.seps THEN \E i \in DOMAIN w.parts : PointOf(w) = w.parts[i]
            ELSE PointOf(w) = << >>
<1> DEFINE s == w.seps
           ps == w.parts
           l == Len(ps)
           b(sep) == Before(w, sep)
           node == NodeOf(w)
           point == PointOf(w)
<1>1. ps \in Seq(Part) /\ s \in SUBSET {":", "/", "."}
  BY Layout
<1>2. DOMAIN ps = 1 .. l /\ l \in Nat /\ \A i \in DOMAIN ps : ps[i] \in Part
  BY <1>1
<1>3. /\ ":" \notin s => b(":") = << >>
      /\ "/" \notin s => b("/") = << >>
      /\ "." \notin s => point = << >>
  BY DEF Before, PointOf
<1>4. /\ s = {} => l = 1 /\ node = ps[1]
      /\ s = {":"} => l = 2 /\ b(":") = ps[1] /\ node = ps[2]
      /\ s = {"/"} => l = 2 /\ b("/") = ps[1] /\ node = ps[2]
      /\ s = {"."} => l = 2 /\ node = ps[1] /\ point = ps[2]
      /\ s = {":", "/"} => l = 3 /\ b(":") = ps[1] /\ b("/") = ps[2] /\ node = ps[3]
      /\ s = {":", "."} => l = 3 /\ b(":") = ps[1] /\ node = ps[2] /\ point = ps[3]
      /\ s = {"/", "."} => l = 3 /\ b("/") = ps[1] /\ node = ps[2] /\ point = ps[3]
      /\ s = {":", "/", "."} =>
           l = 4 /\ b(":") = ps[1] /\ b("/") = ps[2] /\ node = ps[3] /\ point = ps[4]
  BY Layout
<1> HIDE DEF s, ps, l, b, node, point
<1>5. /\ l = 1 => 1 \in DOMAIN ps
      /\ l = 2 => 1 \in DOMAIN ps /\ 2 \in DOMAIN ps
      /\ l = 3 => 1 \in DOMAIN ps /\ 2 \in DOMAIN ps /\ 3 \in DOMAIN ps
      /\ l = 4 => 1 \in DOMAIN ps /\ 2 \in DOMAIN ps /\ 3 \in DOMAIN ps /\ 4 \in DOMAIN ps
  BY <1>2
<1>6. s \in {{}, {":"}, {"/"}, {"."}, {":", "/"}, {":", "."}, {"/", "."}, {":", "/", "."}}
  BY <1>1, SeparatorSets
<1>7. l \in {1, 2, 3, 4} /\ \E i \in DOMAIN ps : node = ps[i]
  BY <1>4, <1>5, <1>6
<1>8. IF ":" \in s THEN \E i \in DOMAIN ps : b(":") = ps[i] ELSE b(":") = << >>
  BY <1>3, <1>4, <1>5, <1>6
<1>9. IF "/" \in s THEN \E i \in DOMAIN ps : b("/") = ps[i] ELSE b("/") = << >>
  BY <1>3, <1>4, <1>5, <1>6
<1>10. IF "." \in s THEN \E i \in DOMAIN ps : point = ps[i] ELSE point = << >>
  BY <1>3, <1>4, <1>5, <1>6
<1>11. l \in 1 .. 4
  BY <1>7
<1> QED
  BY <1>2, <1>7, <1>8, <1>9, <1>10, <1>11 DEF s, ps, l, b, node, point

LEMMA PartTypes ==
  ASSUME NEW w \in Word, Len(w.parts) = Cardinality(w.seps) + 1
  PROVE  /\ Before(w, ":") \in Part /\ Before(w, "/") \in Part
         /\ NodeOf(w) \in Part /\ PointOf(w) \in Part
<1>1. << >> \in Part
  BY DEF Part
<1> QED
  BY <1>1, PartsOfWord

LEMMA DigitsOnly ==
  ASSUME NEW part \in Part, ~HasWildcards(part)
  PROVE  part \in Seq(Range(Digits)) /\ ~EndsWild(part) /\ ~StartsWith("*", part)
<1>1. part \in Seq(Char) /\ DOMAIN part = 1 .. Len(part) /\ Len(part) \in Nat
  BY DEF Part
<1>2. \A i \in 1 .. Len(part) : part[i] \in Char /\ part[i] \notin Wild
  BY <1>1 DEF HasWildcards
<1>3. \A i \in 1 .. Len(part) : part[i] \in Range(Digits)
  BY <1>2 DEF Char
<1>4. part \in Seq(Range(Digits))
  BY <1>1, <1>3
<1>5. part # << >> => Len(part) \in 1 .. Len(part) /\ 1 \in 1 .. Len(part)
  BY <1>1
<1>6. "*" \in Wild
  BY DEF Wild
<1>7. ~EndsWild(part)
  BY <1>2, <1>5 DEF EndsWild, Last
<1>8. ~StartsWith("*", part)
  BY <1>1, <1>2, <1>5, <1>6 DEF StartsWith
<1> QED
  BY <1>4, <1>7, <1>8

\* What is cut off a word at its end; nothing when it is all digits.
LEMMA StrippedWord ==
  ASSUME NEW w \in Word, Len(w.parts) = Cardinality(w.seps) + 1
  PROVE  /\ Stripped(w) \in Word
         /\ Stripped(w).seps = w.seps /\ Len(Stripped(w).parts) = Len(w.parts)
         /\ (\A i \in DOMAIN w.parts : ~HasWildcards(w.parts[i])) => Stripped(w) = w
<1> DEFINE ps == w.parts
           last == Len(ps)
           part == ps[last]
           l == Len(part)
           digits == {i \in DOMAIN part : part[i] \notin Wild}
           end == IF digits = {} THEN 0 ELSE Max(digits)
           cut == SubSeq(part, 1, end)
<1>1. /\ w \in [except : BOOLEAN, seps : SUBSET {":", "/", "."}, parts : Seq(Part),
                domain : Domain]
      /\ ps \in Seq(Part) /\ last \in 1 .. 4 /\ DOMAIN ps = 1 .. last
  BY PartsOfWord DEF Word
<1>2. part \in Part
  BY <1>1
<1>3. part \in Seq(Char) /\ l \in Nat /\ DOMAIN part = 1 .. l
  BY <1>2 DEF Part
<1>4. Stripped(w) = IF w.domain # "" THEN w
                    ELSE [w EXCEPT !.parts = [ps EXCEPT ![last] = cut]]
  BY DEF Stripped
<1> HIDE DEF ps, last, part, l
<1>5. end \in 0 .. l
  <2>1. digits \in SUBSET (0 .. l)
    BY <1>3
  <2> HIDE DEF digits
  <2>2. digits # {} => Max(digits) \in 0 .. l
    BY <2>1, <1>3, Greatest
  <2> QED
    BY <2>2, <1>3
<1>6. cut \in Part
  <2> HIDE DEF end
  <2>1. end \in Int /\ \A i \in 1 .. end : part[i] \in Char
    BY <1>3, <1>5
  <2> QED
    BY <2>1, SubSeqProperties DEF Part
<1>7. DOMAIN part = {} \/ HasWildcards(part) \/ (digits = 1 .. l /\ l \in 1 .. l)
  BY <1>3 DEF HasWildcards
<1>8. HasWildcards(part) \/ cut = part
  <2>1. ASSUME l = 0
        PROVE  cut = part
    <3>1. end = l
      BY <1>5, <2>1
    <3> HIDE DEF end
    <3> QED
      BY <1>3, <3>1, SubSeqFull DEF l
  <2>2. ASSUME digits = 1 .. l, l \in 1 .. l
        PROVE  cut = part
    <3>1. 1 .. l \in SUBSET (0 .. l) /\ 1 .. l # {}
      BY <1>3, <2>2
    <3>2. Max(1 .. l) \in 1 .. l /\ \A y \in 1 .. l : y <= Max(1 .. l)
      BY <1>3, <3>1, Greatest
    <3>4. \A x \in 1 .. l : (\A y \in 1 .. l : y <= x) => x = l
      BY <2>2
    <3>5. Max(digits) = l /\ digits # {}
      <4> HIDE DEF digits
      <4> QED
        BY <2>2, <3>1, <3>2, <3>4, Zenon
    <3>3. end = l
      <4> HIDE DEF digits
      <4> QED
        BY <3>5
    <3> HIDE DEF end
    <3> QED
      BY <1>3, <3>3, SubSeqFull DEF l
  <2>3. DOMAIN part = {} => l = 0
    BY <1>3
  <2> HIDE DEF cut, digits
  <2> QED
    BY <1>7, <2>1, <2>2, <2>3
<1> HIDE DEF cut, end, digits
<1> DEFINE new == [ps EXCEPT ![last] = cut]
<1>9. new \in Seq(Part) /\ Len(new) = last
  BY <1>1, <1>6 DEF last
<1>10. (\A i \in DOMAIN ps : ~HasWildcards(ps[i])) => new = ps
  <2>1. last \in DOMAIN ps
    BY <1>1
  <2> SUFFICES ASSUME \A i \in DOMAIN ps : ~HasWildcards(ps[i])
               PROVE  new = ps
    OBVIOUS
  <2>2. cut = ps[last]
    BY <1>8, <2>1 DEF part
  <2> QED
    BY <1>1, <2>2
<1> HIDE DEF new
<1>11. [w EXCEPT !.parts = new] \in
         [except : BOOLEAN, seps : SUBSET {":", "/", "."}, parts : Seq(Part), domain : Domain]
  BY <1>1, <1>9
<1>12. [w EXCEPT !.parts = new].seps = w.seps /\ [w EXCEPT !.parts = new].parts = new
  BY <1>1
<1>13. new = ps => [w EXCEPT !.parts = new] = w
  BY <1>1 DEF ps
<1>14. Stripped(w) \in Word
  BY <1>1, <1>4, <1>11 DEF Word, new
<1>15. Stripped(w).seps = w.seps /\ Len(Stripped(w).parts) = Len(w.parts)
  BY <1>4, <1>9, <1>12 DEF new, last, ps
<1> QED
  BY <1>4, <1>10, <1>13, <1>14, <1>15 DEF new, ps

LEMMA QualifiedAddress ==
  ASSUME NEW w \in Word, Len(w.parts) = Cardinality(w.seps) + 1,
         NEW m \in Address, Readable(w, m)
  PROVE  Qualified(w, m) \in Address
<1> DEFINE s == Stripped(w)
<1>1. s \in Word /\ s.seps = w.seps /\ Len(s.parts) = Cardinality(s.seps) + 1
  BY StrippedWord
<1>2. /\ s.parts \in Seq(Part) /\ Len(s.parts) = Len(w.parts)
      /\ DOMAIN s.parts = 1 .. Len(s.parts) /\ DOMAIN w.parts = 1 .. Len(w.parts)
  BY <1>1, StrippedWord, PartsOfWord DEF Word
<1>3. \A i \in DOMAIN s.parts : s.parts[i] \in Part /\ ~HasWildcards(s.parts[i])
  BY <1>1, <1>2, PartsOfWord DEF Readable
<1>4. \A i \in DOMAIN s.parts : Value(s.parts[i]) \in Number
  BY <1>3, DigitsOnly, Values
<1>5. Value(<< >>) \in Number
  <2>1. << >> \in Seq(Range(Digits))
    OBVIOUS
  <2> QED
    BY <2>1, Values
<1> HIDE DEF s
<1>6. /\ ":" \in w.seps => Value(Before(s, ":")) \in Number
      /\ "/" \in w.seps => Value(Before(s, "/")) \in Number
      /\ Value(NodeOf(s)) \in Number /\ Value(PointOf(s)) \in Number
  BY <1>1, <1>4, <1>5, PartsOfWord
<1>7. /\ m.zone \in Number /\ m.net \in Number /\ m.domain \in Domain /\ w.domain \in Domain
  BY DEF Address, Word
<1>8. Qualified(w, m) =
        [zone |-> IF ":" \in w.seps THEN Value(Before(s, ":")) ELSE m.zone,
         net |-> IF "/" \in w.seps THEN Value(Before(s, "/")) ELSE m.net,
         node |-> Value(NodeOf(s)), point |-> Value(PointOf(s)),
         domain |-> IF w.domain = "" /\ ~NoMain(m) THEN m.domain ELSE w.domain]
  BY DEF Qualified, s
<1>9. /\ (IF ":" \in w.seps THEN Value(Before(s, ":")) ELSE m.zone) \in Number
      /\ (IF "/" \in w.seps THEN Value(Before(s, "/")) ELSE m.net) \in Number
      /\ (IF w.domain = "" /\ ~NoMain(m) THEN m.domain ELSE w.domain) \in Domain
  BY <1>6, <1>7
<1> DEFINE zone == IF ":" \in w.seps THEN Value(Before(s, ":")) ELSE m.zone
           net == IF "/" \in w.seps THEN Value(Before(s, "/")) ELSE m.net
           node == Value(NodeOf(s))
           point == Value(PointOf(s))
           name == IF w.domain = "" /\ ~NoMain(m) THEN m.domain ELSE w.domain
<1>10. /\ zone \in Number /\ net \in Number /\ node \in Number /\ point \in Number
       /\ name \in Domain
  BY <1>6, <1>9
<1>11. Qualified(w, m) =
         [zone |-> zone, net |-> net, node |-> node, point |-> point, domain |-> name]
  BY <1>8
<1> HIDE DEF zone, net, node, point, name
<1> QED
  BY <1>10, <1>11 DEF Address

-----------------------------------------------------------------------------
(* SplitWildcardedAddress *)

LEMMA Constants ==
  /\ Star \in Part /\ Star # << >> /\ StartsWith("*", Star) /\ Zero \in Part /\ Zero # << >>
  /\ << >> \in Part /\ NoPattern \in Pattern
<1>1. "*" \in Char /\ "0" \in Char
  BY DigitSet DEF Char, Wild
<1>2. Star \in Part /\ Zero \in Part /\ << >> \in Part
  BY <1>1 DEF Star, Zero, Part
<1> QED
  BY <1>2 DEF Star, Zero, StartsWith, Pattern, NoPattern

LEMMA SaidPattern ==
  ASSUME NEW w \in Word, Len(w.parts) = Cardinality(w.seps) + 1, NEW junk \in BOOLEAN
  PROVE  Said(w, junk) \in Pattern
<1> DEFINE last == IF w.seps = {":"} THEN w.parts[2] ELSE NodeOf(w)
           wild == IF w.seps = {} THEN HasWildcards(last)
                   ELSE EndsWild(last) \/ (last = << >> /\ junk)
           point == IF "." \in w.seps THEN PointOf(w) ELSE IF wild THEN Star ELSE << >>
           node == IF wild THEN Star ELSE << >>
<1>1. last \in Part
  BY Layout, PartTypes
<1>2. w.seps = {":"} => w.parts[1] \in Part
  BY Layout, PartTypes
<1>3. point \in Part /\ node \in Part
  BY PartTypes, Constants
<1>4. Before(w, ":") \in Part /\ Before(w, "/") \in Part
  BY PartTypes
<1>5. \/ Given(w, junk) = [zone |-> Star, net |-> Star, node |-> Star, point |-> Star]
      \/ /\ w.seps = {":"}
         /\ Given(w, junk) =
              [zone |-> w.parts[1], net |-> last, node |-> node, point |-> point]
      \/ Given(w, junk) =
           [zone |-> Before(w, ":"), net |-> Before(w, "/"), node |-> last, point |-> point]
  BY DEF Given
<1> HIDE DEF last, wild, point, node
<1>6. Given(w, junk) \in Pattern
  BY <1>1, <1>2, <1>3, <1>4, <1>5, Constants DEF Pattern
<1>7. << >> \in Part
  BY Constants
<1> QED
  BY <1>6, <1>7 DEF Said, Pattern

\* What SplitWildcardedAddress stores has four parts, none of them empty.
LEMMA SplitComplete ==
  ASSUME NEW w \in Word, Len(w.parts) = Cardinality(w.seps) + 1, NEW junk \in BOOLEAN,
         NEW before, before = NoPattern \/ Complete(before), Splits(w, before, junk)
  PROVE  Complete(Split(w, before, junk)) /\ Split(w, before, junk) # NoPattern
<1> DEFINE g == Said(w, junk)
           all == g = NoPattern
           pointOnly == g.zone = << >> /\ g.net = << >> /\ g.point # << >>
           zone == IF g.zone # << >> THEN g.zone ELSE IF all THEN Star ELSE before.zone
           net == IF g.net # << >> THEN g.net
                  ELSE IF all \/ g.zone # << >> THEN Star ELSE before.net
           node == IF g.node # << >> THEN g.node ELSE IF pointOnly THEN before.node ELSE Star
           point == IF g.point # << >> THEN g.point
                    ELSE IF g.node # << >> THEN Zero ELSE Star
<1>1. g \in Pattern
  BY SaidPattern
<1>2. /\ g.zone \in Part /\ g.net \in Part /\ g.node \in Part /\ g.point \in Part
  BY <1>1 DEF Pattern
<1>3. g.zone = << >> /\ ~all => before # NoPattern
  BY DEF Splits
<1>4. before # NoPattern =>
        /\ before.zone \in Part /\ before.net \in Part /\ before.node \in Part
        /\ before.zone # << >> /\ before.net # << >> /\ before.node # << >>
  BY DEF Complete, Pattern
<1>5. all => g.point = << >>
  BY DEF NoPattern
<1>6. Split(w, before, junk) = [zone |-> zone, net |-> net, node |-> node, point |-> point]
  BY DEF Split
<1> HIDE DEF g, all
<1>7. zone \in Part /\ zone # << >>
  BY <1>2, <1>3, <1>4, Constants
<1>8. net \in Part /\ net # << >>
  BY <1>2, <1>3, <1>4, Constants
<1>9. node \in Part /\ node # << >>
  BY <1>2, <1>3, <1>4, <1>5, Constants
<1>10. point \in Part /\ point # << >>
  BY <1>2, Constants
<1> HIDE DEF zone, net, node, point
<1>11. Complete([zone |-> zone, net |-> net, node |-> node, point |-> point])
  BY <1>7, <1>8, <1>9, <1>10 DEF Complete, Pattern
<1>12. [zone |-> zone, net |-> net, node |-> node, point |-> point] # NoPattern
  BY <1>7 DEF NoPattern
<1> QED
  BY <1>6, <1>11, <1>12

LEMMA PrintedComplete ==
  ASSUME NEW a \in Address
  PROVE  /\ Complete(Printed(a)) /\ Printed(a) # NoPattern
         /\ \A part \in {"zone", "net", "node"} : ~HasWildcards(Printed(a)[part])
<1>1. a.zone \in Number /\ a.net \in Number /\ a.node \in Number /\ a.point \in Number
  BY DEF Address
<1>2. ASSUME NEW n \in Number
      PROVE  Decimal[n] \in Part /\ Decimal[n] # << >> /\ ~HasWildcards(Decimal[n])
  <2>1. Decimal[n] \in Seq(Range(Digits)) /\ Len(Decimal[n]) >= 1
    BY Decimals
  <2>2. \A i \in DOMAIN Decimal[n] : Decimal[n][i] \in Range(Digits)
    BY <2>1
  <2>3. ~HasWildcards(Decimal[n])
    BY <2>2, WildNoDigit DEF HasWildcards
  <2>4. \A d \in Range(Digits) : d \in Char
    BY DEF Char
  <2>5. Decimal[n] \in Part
    BY <2>1, <2>4 DEF Part
  <2>6. Decimal[n] # << >>
    BY <2>1
  <2> QED
    BY <2>3, <2>5, <2>6
<1>3. /\ Decimal[a.zone] \in Part /\ Decimal[a.net] \in Part
      /\ Decimal[a.node] \in Part /\ Decimal[a.point] \in Part
      /\ Decimal[a.zone] # << >> /\ Decimal[a.net] # << >>
      /\ Decimal[a.node] # << >> /\ Decimal[a.point] # << >>
      /\ ~HasWildcards(Decimal[a.zone]) /\ ~HasWildcards(Decimal[a.net])
      /\ ~HasWildcards(Decimal[a.node])
  BY <1>1, <1>2
<1> QED
  BY <1>3 DEF Printed, Complete, Pattern, NoPattern

\* The two parsers agree on a plain word.
LEMMA PlainReading ==
  ASSUME NEW w \in Word, Len(w.parts) = Cardinality(w.seps) + 1, NEW junk \in BOOLEAN,
         Plain(w), w.seps \notin {{":"}, {":", "."}},
         NEW m \in Address, NEW before,
         {":", "/"} \subseteq w.seps \/ before = Printed(m)
  PROVE  Splits(w, before, junk) /\ Split(w, before, junk) = Printed(Qualified(w, m))
<1> DEFINE z == Before(w, ":")
           n == Before(w, "/")
           o == NodeOf(w)
           p == PointOf(w)
           s == w.seps
           IsPlain(part) == /\ part # << >> /\ ~HasWildcards(part)
                            /\ Decimal[Value(part)] = part
<1>1. \A i \in DOMAIN w.parts : IsPlain(w.parts[i])
  BY DEF Plain
<1> HIDE DEF IsPlain
<1>2. /\ IF ":" \in s THEN IsPlain(z) ELSE z = << >>
      /\ IF "/" \in s THEN IsPlain(n) ELSE n = << >>
      /\ IF "." \in s THEN IsPlain(p) ELSE p = << >>
      /\ IsPlain(o)
  BY <1>1, PartsOfWord
<1>3. o \in Part /\ s \in SUBSET {":", "/", "."} /\ s # {":"} /\ s # {":", "."}
  BY PartTypes, Layout
<1>4. o # << >> /\ ~HasWildcards(o) /\ ~EndsWild(o) /\ ~StartsWith("*", o)
  BY <1>2, <1>3, DigitsOnly DEF IsPlain
<1>5. Stripped(w) = w
  BY <1>1, StrippedWord DEF IsPlain
<1>6. Said(w, junk) = [zone |-> z, net |-> n, node |-> o, point |-> p]
  <2>1. Given(w, junk) = [zone |-> z, net |-> n, node |-> o,
                          point |-> IF "." \in s THEN PointOf(w) ELSE << >>]
    BY <1>3, <1>4 DEF Given
  <2>2. (IF "." \in s THEN PointOf(w) ELSE << >>) = p
    BY <1>2
  <2>3. Given(w, junk) = [zone |-> z, net |-> n, node |-> o, point |-> p]
    BY <2>1, <2>2
  <2> HIDE DEF z, n, o, p
  <2> QED
    BY <1>4, <2>3 DEF Said
<1>7. /\ s \in {{}, {"/"}, {"."}, {":", "/"}, {"/", "."}, {":", "/", "."}}
  BY <1>3, SeparatorSets
<1>8. /\ Qualified(w, m).zone = IF ":" \in s THEN Value(z) ELSE m.zone
      /\ Qualified(w, m).net = IF "/" \in s THEN Value(n) ELSE m.net
      /\ Qualified(w, m).node = Value(o) /\ Qualified(w, m).point = Value(p)
  BY <1>5 DEF Qualified
<1>9. Value(<< >>) = 0 /\ Decimal[0] = Zero
  <2>1. << >> \in Seq(Range(Digits)) /\ 0 \in Number
    BY Numbers
  <2>2. Decimal[0] = << Digits[0 + 1] >>
    BY <2>1, Decimals
  <2>3. Digits[0 + 1] = "0"
    BY DigitSet
  <2> QED
    BY <2>1, <2>2, <2>3, Values DEF Zero
<1>10. {":", "/"} \subseteq s \/ before # NoPattern
  BY PrintedComplete
<1>11. {":", "/"} \subseteq s \/
         /\ ~HasWildcards(before["zone"]) /\ ~HasWildcards(before["net"])
         /\ ~HasWildcards(before["node"])
  BY PrintedComplete
<1>12. z = << >> => ~({":", "/"} \subseteq s)
  BY <1>2 DEF IsPlain
<1> DEFINE g == [zone |-> z, net |-> n, node |-> o, point |-> p]
<1>13. g # NoPattern /\ g.zone = z /\ g.net = n /\ g.node = o /\ g.point = p
  BY <1>4 DEF NoPattern
<1>14. z # << >> => n # << >>
  BY <1>2, <1>7 DEF IsPlain
<1>15. Needed(w) # {} => ~({":", "/"} \subseteq s)
  BY <1>7 DEF Needed
<1>16. \A part \in Needed(w) : part \in {"zone", "net", "node"}
  BY DEF Needed
<1> HIDE DEF z, n, o, p, g
<1>17. Resolves(w, before)
  BY <1>10, <1>11, <1>15, <1>16 DEF Resolves
<1>18. Splits(w, before, junk)
  BY <1>6, <1>10, <1>12, <1>13, <1>14, <1>17, <1>3 DEF Splits, s, g
<1>19. \/ {":", "/"} \subseteq s
       \/ before.zone = Decimal[m.zone] /\ before.net = Decimal[m.net]
  BY DEF Printed
<1>20. Split(w, before, junk) =
         [zone |-> IF z # << >> THEN z ELSE before.zone,
          net |-> IF n # << >> THEN n ELSE before.net,
          node |-> o, point |-> IF p # << >> THEN p ELSE Zero]
  BY <1>4, <1>6, <1>13, <1>14 DEF Split, g
<1>21. (IF z # << >> THEN z ELSE before.zone) = Decimal[Qualified(w, m).zone]
  BY <1>2, <1>7, <1>8, <1>19 DEF IsPlain
<1>22. (IF n # << >> THEN n ELSE before.net) = Decimal[Qualified(w, m).net]
  BY <1>2, <1>7, <1>8, <1>19 DEF IsPlain
<1>23. o = Decimal[Qualified(w, m).node]
  BY <1>2, <1>8 DEF IsPlain
<1>24. (IF p # << >> THEN p ELSE Zero) = Decimal[Qualified(w, m).point]
  BY <1>2, <1>8, <1>9 DEF IsPlain
<1>25. Split(w, before, junk) = Printed(Qualified(w, m))
  BY <1>20, <1>21, <1>22, <1>23, <1>24 DEF Printed
<1> QED
  BY <1>18, <1>25

\* The entry of a proper word, completed from the one before it, matches what the
\* word means.
LEMMA Entry ==
  ASSUME NEW w \in Word, Len(w.parts) = Cardinality(w.seps) + 1, NEW junk \in BOOLEAN,
         NEW before, before = NoPattern \/ Complete(before), Splits(w, before, junk),
         Proper(w), NEW a \in Address, NEW item, item.word = w,
         NEW entry,
         entry = IF item.assumed /\ "." \notin w.seps
                 THEN [Split(w, before, junk) EXCEPT !.point = Star]
                 ELSE Split(w, before, junk)
  PROVE  CompareAddress(a, entry) <=> Means(item, before, a)
<1> DEFINE z == Before(w, ":")
           n == Before(w, "/")
           o == NodeOf(w)
           pt == PointOf(w)
           s == w.seps
           p == Split(w, before, junk)
           starts == StartsWith("*", o)
           whole == [zone |-> Star, net |-> Star, node |-> Star, point |-> Star]
<1>1. a.zone \in Number /\ a.net \in Number /\ a.node \in Number /\ a.point \in Number
  BY DEF Address
<1>2. p \in Pattern
  BY SplitComplete DEF Complete
<1>3. /\ entry.zone = p.zone /\ entry.net = p.net /\ entry.node = p.node
      /\ entry.point = IF item.assumed /\ "." \notin s THEN Star ELSE p.point
  BY <1>2 DEF Pattern
<1>4. /\ CompareBit(a.zone, Star) /\ CompareBit(a.net, Star) /\ CompareBit(a.node, Star)
      /\ CompareBit(a.point, Star) /\ (CompareBit(a.point, Zero) <=> a.point = 0)
  BY <1>1, StarFits, ZeroFits
<1>5. CompareAddress(a, entry) <=>
        /\ CompareBit(a.zone, p.zone) /\ CompareBit(a.net, p.net)
        /\ CompareBit(a.node, p.node)
        /\ (item.assumed /\ "." \notin s) \/ CompareBit(a.point, p.point)
  BY <1>3, <1>4 DEF CompareAddress
<1>6. starts => CompareBit(a.node, o)
  BY <1>1, PartTypes, AnythingFits
<1>7. s \in SUBSET {":", "/", "."} /\ s # {":", "."}
  BY Layout DEF Splits
<1>8. /\ IF ":" \in s THEN z # << >> ELSE z = << >>
      /\ IF "/" \in s THEN n # << >> ELSE n = << >>
      /\ IF "." \in s THEN pt # << >> ELSE pt = << >>
      /\ o # << >> /\ o \in Part
  BY PartsOfWord, PartTypes DEF Proper
<1>9. EndsWild(o) => HasWildcards(o)
  <2>1. o # << >> => Len(o) \in DOMAIN o
    BY <1>8 DEF Part
  <2> QED
    BY <1>8, <2>1 DEF EndsWild, HasWildcards, Last
<1>10. CASE s = {} /\ starts
  <2>1. Given(w, junk) = whole
    BY <1>10 DEF Given
  <2>2. Said(w, junk) = [zone |-> Star, net |-> Star, node |-> << >>, point |-> Star]
    BY <2>1, Constants DEF Said
  <2>3. p = whole
    BY <2>2, Constants DEF Split, NoPattern
  <2>4. p.zone = Star /\ p.net = Star /\ p.node = Star /\ p.point = Star
    BY <2>3
  <2>5. CompareAddress(a, entry)
    BY <1>4, <1>5, <2>4
  <2>6. Means(item, before, a)
    BY <1>10 DEF Means
  <2> QED
    BY <2>5, <2>6
<1>11. CASE s = {":"}
  <2>1. w.parts[1] = z /\ w.parts[2] = o
    BY <1>11, Layout
  <2>2. /\ Said(w, junk).zone = z /\ Said(w, junk).net = o /\ Said(w, junk).node = << >>
        /\ Said(w, junk).point \in {Star, << >>}
    BY <1>11, <2>1, Constants DEF Said, Given
  <2>3. z # << >>
    BY <1>8, <1>11
  <2>4. p.zone = z /\ p.net = o /\ p.node = Star /\ p.point = Star
    BY <1>8, <2>2, <2>3, Constants DEF Split, NoPattern
  <2>5. CompareAddress(a, entry) <=> CompareBit(a.zone, z) /\ CompareBit(a.net, o)
    BY <1>4, <1>5, <2>4
  <2>6. Means(item, before, a) <=> CompareBit(a.zone, z) /\ CompareBit(a.net, o)
    BY <1>11, <2>1 DEF Means
  <2> QED
    BY <2>5, <2>6
<1>12. CASE s # {":"} /\ ~(s = {} /\ starts)
  <2> DEFINE wild == IF s = {} THEN HasWildcards(o) ELSE EndsWild(o) \/ (o = << >> /\ junk)
             point == IF "." \in s THEN pt ELSE IF wild THEN Star ELSE << >>
  <2>1. Given(w, junk) = [zone |-> z, net |-> n, node |-> o, point |-> point]
    BY <1>12 DEF Given
  <2>2. wild <=> EndsWild(o)
    BY <1>8, <1>9, <1>12 DEF Proper
  <2>3. starts /\ "." \notin s => EndsWild(o)
    BY <1>7, <1>12, SeparatorSets DEF Proper
  <2>4. s = {"."} => ~starts
    BY DEF Proper
  <2>5. s \in {{}, {"/"}, {"."}, {":", "/"}, {"/", "."}, {":", "/", "."}}
    BY <1>7, <1>12, SeparatorSets
  <2> HIDE DEF z, n, o, pt, s, wild
  <2>6. /\ Said(w, junk).zone = z /\ Said(w, junk).net = n
        /\ Said(w, junk).node = IF starts THEN << >> ELSE o
        /\ Said(w, junk).point = point
    BY <2>1 DEF Said
  <2>7. z # << >> => n # << >>
    BY <1>8, <2>5
  <2>8. z = << >> /\ n = << >> => ~starts
    BY <1>8, <1>12, <2>4, <2>5
  <2>9. p.zone = IF ":" \in s THEN z ELSE before.zone
    BY <1>8, <2>6, <2>7, <2>8 DEF Split, NoPattern
  <2>10. p.net = IF "/" \in s THEN n ELSE before.net
    BY <1>8, <2>6, <2>7, <2>8 DEF Split, NoPattern
  <2>11. p.node = IF starts THEN Star ELSE o
    BY <1>8, <2>6, <2>7, <2>8 DEF Split, NoPattern
  <2>12. p.point = IF "." \in s THEN pt ELSE IF EndsWild(o) THEN Star ELSE Zero
    BY <1>8, <2>2, <2>3, <2>6, Constants DEF Split
  <2>13. CompareBit(a.node, p.node) <=> CompareBit(a.node, o)
    BY <1>4, <1>6, <2>11
  <2>14. (item.assumed /\ "." \notin s) \/ CompareBit(a.point, p.point) <=>
           IF "." \in s THEN CompareBit(a.point, pt)
           ELSE EndsWild(o) \/ item.assumed \/ a.point = 0
    BY <1>4, <2>12
  <2>15. Means(item, before, a) <=>
           /\ CompareBit(a.zone, IF ":" \in s THEN z ELSE before.zone)
           /\ CompareBit(a.net, IF "/" \in s THEN n ELSE before.net)
           /\ CompareBit(a.node, o)
           /\ IF "." \in s THEN CompareBit(a.point, pt)
              ELSE EndsWild(o) \/ item.assumed \/ a.point = 0
    <3>1. ":" \in s => w.parts[1] = z
      BY <2>5, Layout DEF s, z
    <3> QED
      BY <1>12, <3>1 DEF Means, s, z, n, o, pt
  <2> QED
    BY <1>5, <2>9, <2>10, <2>13, <2>14, <2>15
<1> QED
  BY <1>10, <1>11, <1>12

-----------------------------------------------------------------------------
(* Our own addresses *)

LEMMA WordFacts ==
  ASSUME NEW w \in Words
  PROVE  w \in Word /\ Len(w.parts) = Cardinality(w.seps) + 1
BY AddressesAssumption DEF AddressesAssumption

LEMMA NobodyAddress == Nobody \in Address /\ NoMain(Nobody)
<1>1. 65535 \in Number
  BY SMT DEF Number
<1>3. PICK x : x = 65535
  BY SMT
<1>4. x \in Number /\ Nobody = [zone |-> x, net |-> x, node |-> x, point |-> x, domain |-> ""]
  BY <1>1, <1>3, SMT DEF Nobody
<1>2. Nobody \in Address
  BY <1>4, DomainAssumption DEF DomainAssumption, Address
<1> QED
  BY <1>2 DEF NoMain, SamePlace

\* What the address before the i-th of ours is.
LEMMA Prior ==
  ASSUME own \in Seq(Own), NEW i \in 1 .. Len(own) + 1
  PROVE  /\ PriorOf(i) \in 0 .. i - 1
         /\ PriorOf(i) = 0 => i = 1
         /\ \A k \in 1 .. i - 1 : ~own[k].isMain => ~own[PriorOf(i)].isMain /\ k <= PriorOf(i)
         /\ (\A k \in 1 .. i - 1 : own[k].isMain) /\ PriorOf(i) # 0 => own[PriorOf(i)].isMain
<1> DEFINE earlier == {j \in 1 .. i - 1 : ~own[j].isMain}
           mains == {0} \cup {j \in 1 .. i - 1 : own[j].isMain}
<1>1. i \in Nat /\ i - 1 \in Nat
  BY DEF Own
<1>2. earlier \in SUBSET (0 .. i - 1) /\ mains \in SUBSET (0 .. i - 1) /\ mains # {}
  BY <1>1
<1>3. PriorOf(i) = IF earlier # {} THEN Max(earlier) ELSE Max(mains)
  BY DEF PriorOf
<1>4. earlier # {} => Max(earlier) \in earlier /\ \A y \in earlier : y <= Max(earlier)
  <2> HIDE DEF earlier
  <2> QED
    BY <1>1, <1>2, Greatest
<1>5. Max(mains) \in mains /\ \A y \in mains : y <= Max(mains)
  <2> HIDE DEF mains
  <2> QED
    BY <1>1, <1>2, Greatest
<1>6. CASE earlier # {}
  <2>1. PriorOf(i) \in earlier /\ \A y \in earlier : y <= PriorOf(i)
    BY <1>3, <1>4, <1>6
  <2>2. PriorOf(i) \in 1 .. i - 1 /\ ~own[PriorOf(i)].isMain
    BY <2>1
  <2>3. PriorOf(i) \in 0 .. i - 1 /\ PriorOf(i) # 0
    BY <1>1, <2>2
  <2>4. \A k \in 1 .. i - 1 : ~own[k].isMain => k <= PriorOf(i)
    BY <2>1
  <2> QED
    BY <2>2, <2>3, <2>4
<1>7. CASE earlier = {}
  <2>1. \A k \in 1 .. i - 1 : own[k].isMain
    BY <1>7
  <2>2. PriorOf(i) = Max(mains) /\ PriorOf(i) \in 0 .. i - 1
    BY <1>2, <1>3, <1>5, <1>7
  <2>3. PriorOf(i) # 0 => own[PriorOf(i)].isMain
    BY <1>5, <2>2
  <2>4. PriorOf(i) = 0 => i = 1
    <3> SUFFICES ASSUME PriorOf(i) = 0, i # 1
                 PROVE  FALSE
      OBVIOUS
    <3>1. 1 \in 1 .. i - 1
      BY <1>1
    <3>2. 1 \in mains
      BY <2>1, <3>1
    <3>3. 1 <= 0
      BY <1>5, <2>2, <3>2
    <3> QED
      BY <3>3
  <2> QED
    BY <2>1, <2>2, <2>3, <2>4
<1> QED
  BY <1>6, <1>7

LEMMA PriorSame ==
  ASSUME NEW i \in Nat, \A j \in 1 .. i - 1 : own'[j] = own[j]
  PROVE  PriorOf(i)' = PriorOf(i)
<1>1. {j \in 1 .. i - 1 : ~own'[j].isMain} = {j \in 1 .. i - 1 : ~own[j].isMain}
  OBVIOUS
<1>2. {j \in 1 .. i - 1 : own'[j].isMain} = {j \in 1 .. i - 1 : own[j].isMain}
  OBVIOUS
<1> QED
  BY <1>1, <1>2 DEF PriorOf

LEMMA OwnFrame ==
  ASSUME OwnInv, UNCHANGED << inited, main, akas, own >>
  PROVE  OwnInv'
<1>1. own' = own /\ main' = main /\ akas' = akas /\ inited' = inited
  OBVIOUS
<1>2. LastStored' /\ OwnOnce'
  BY <1>1 DEF OwnInv, LastStored, OwnOnce, Ours
<1>3. OwnReadings'
  BY <1>1 DEF OwnInv, OwnReadings, PriorOf
<1> QED
  BY <1>1, <1>2, <1>3 DEF OwnInv

\* An address of ours comes to the end of the list of words.
LEMMA OwnAppended ==
  ASSUME OwnInv, NEW e \in Own, own' = Append(own, e), NEW m \in Address,
         Readable(e.word, m), e.address = Qualified(e.word, m),
         \/ NoMain(m)
         \/ PriorOf(Len(own) + 1) > 0 /\ ~own[PriorOf(Len(own) + 1)].known
              => m = own[PriorOf(Len(own) + 1)].address,
         NoMain(m) \/ Len(own) > 0
  PROVE  /\ own' \in Seq(Own) /\ Len(own') = Len(own) + 1
         /\ own'[Len(own) + 1] = e /\ \A i \in 1 .. Len(own) : own'[i] = own[i]
         /\ OwnReadings'
<1> DEFINE n == Len(own)
<1>1. own \in Seq(Own) /\ n \in Nat /\ OwnReadings /\ DOMAIN own = 1 .. n
  BY DEF OwnInv
<1>2. /\ own' \in Seq(Own) /\ Len(own') = n + 1 /\ DOMAIN own' = 1 .. n + 1
      /\ own'[n + 1] = e /\ \A i \in 1 .. n : own'[i] = own[i]
  BY <1>1
<1>3. ASSUME NEW i \in 1 .. n + 1
      PROVE  PriorOf(i)' = PriorOf(i) /\ PriorOf(i) \in 0 .. i - 1
  <2>1. i \in Nat /\ \A j \in 1 .. i - 1 : j \in 1 .. n
    BY <1>1
  <2> QED
    BY <1>1, <1>2, <2>1, PriorSame, Prior
<1> DEFINE before(i) == IF PriorOf(i) = 0 THEN NoPattern ELSE Printed(own[PriorOf(i)].address)
           after(i) == IF PriorOf(i)' = 0 THEN NoPattern
                       ELSE Printed(own'[PriorOf(i)'].address)
           Agrees(w, b, address) == Splits(w, b, FALSE) /\ Split(w, b, FALSE) = Printed(address)
<1>4. ASSUME NEW i \in 1 .. n,
             Plain(own[i].word), own[i].word.seps \notin {{":"}, {":", "."}},
             PriorOf(i) > 0 => ~own[PriorOf(i)].known
      PROVE  Agrees(own[i].word, before(i), own[i].address)
  BY <1>1, <1>4 DEF OwnReadings
<1>5. ASSUME Plain(e.word), e.word.seps \notin {{":"}, {":", "."}},
             PriorOf(n + 1) > 0 => ~own[PriorOf(n + 1)].known
      PROVE  Agrees(e.word, before(n + 1), e.address)
  <2>1. e.word \in Word /\ Len(e.word.parts) = Cardinality(e.word.seps) + 1
    BY WordFacts DEF Own
  <2>2. NoMain(m) => {":", "/"} \subseteq e.word.seps
    BY DEF Readable
  <2>3. n > 0 => PriorOf(n + 1) > 0
    BY <1>1, Prior
  <2>4. {":", "/"} \subseteq e.word.seps \/ before(n + 1) = Printed(m)
    <3> SUFFICES ASSUME ~NoMain(m)
                 PROVE  before(n + 1) = Printed(m)
      BY <2>2
    <3>1. PriorOf(n + 1) > 0
      BY <2>3
    <3>2. PriorOf(n + 1) # 0
      BY <3>1
    <3> QED
      BY <1>5, <3>1, <3>2
  <2> HIDE DEF before
  <2> QED
    BY <1>5, <2>1, <2>4, PlainReading
<1>6. ASSUME NEW i \in 1 .. n + 1,
             Plain(own'[i].word), own'[i].word.seps \notin {{":"}, {":", "."}},
             PriorOf(i)' > 0 => ~own'[PriorOf(i)'].known
      PROVE  Agrees(own'[i].word, after(i), own'[i].address)
  <2>1. PriorOf(i)' = PriorOf(i) /\ PriorOf(i) \in 0 .. i - 1
    BY <1>3
  <2>2. PriorOf(i) # 0 => own'[PriorOf(i)] = own[PriorOf(i)] /\ PriorOf(i) > 0
    BY <1>1, <1>2, <2>1
  <2>3. after(i) = before(i)
    BY <2>1, <2>2
  <2>4. PriorOf(i) > 0 => ~own[PriorOf(i)].known
    BY <1>6, <2>1, <2>2
  <2> HIDE DEF before, after, Agrees
  <2>5. CASE i \in 1 .. n
    <3>1. own'[i] = own[i]
      BY <1>2, <2>5
    <3>2. Agrees(own[i].word, before(i), own[i].address)
      BY <1>4, <1>6, <2>4, <2>5, <3>1
    <3> QED
      BY <2>3, <3>1, <3>2
  <2>6. CASE i = n + 1
    <3>1. own'[i] = e
      BY <1>2, <2>6
    <3>2. Agrees(e.word, before(n + 1), e.address)
      BY <1>5, <1>6, <2>4, <2>6, <3>1
    <3>3. before(i) = before(n + 1)
      BY <2>6
    <3>4. own'[i].word = e.word /\ own'[i].address = e.address /\ after(i) = before(n + 1)
      BY <2>3, <3>1, <3>3
    <3> QED
      BY <3>2, <3>4, Zenon
  <2> QED
    BY <1>1, <2>5, <2>6
<1>7. OwnReadings'
  BY <1>2, <1>6 DEF OwnReadings
<1> QED
  BY <1>2, <1>7

LEMMA SameSystemSymmetric == \A a, b : SameSystem(a, b) <=> SameSystem(b, a)
BY DEF SameSystem, SamePlace

\* The greatest of the words that are no MAIN.
LEMMA LastOther ==
  ASSUME own \in Seq(Own), NEW others, others = {i \in DOMAIN own : ~own[i].isMain},
         others # {}
  PROVE  /\ Max(others) \in others /\ Max(others) = PriorOf(Len(own) + 1)
         /\ Max(others) \in 1 .. Len(own)
<1> DEFINE n == Len(own)
<1>1. n \in Nat /\ DOMAIN own = 1 .. n /\ others \in SUBSET (0 .. n)
  OBVIOUS
<1>2. Max(others) \in others
  BY <1>1, Greatest
<1> DEFINE k == Max(others)
           l == PriorOf(n + 1)
<1>3. k \in 1 .. n /\ ~own[k].isMain /\ \A y \in others : y <= k
  BY <1>1, <1>2, Greatest
<1>4. n + 1 \in 1 .. n + 1 /\ k \in 1 .. n + 1 - 1
  BY <1>1, <1>3
<1>5. l \in 0 .. n + 1 - 1 /\ ~own[l].isMain /\ k <= l
  BY <1>3, <1>4, Prior
<1> HIDE DEF n, k, l
<1>6. l \in 1 .. n
  BY <1>1, <1>3, <1>5
<1>7. l <= k
  BY <1>1, <1>3, <1>5, <1>6
<1>8. k = l
  BY <1>3, <1>5, <1>6, <1>7
<1> QED
  BY <1>2, <1>3, <1>8 DEF n, k, l

LEMMA MainStored ==
  ASSUME OwnInv, ~inited, NEW w \in Words, Qualifies(w, main), command = "MAIN",
         inited' = TRUE, main' = Qualified(w, main), akas' = akas,
         own' = Append(own, [word |-> w, address |-> main', known |-> IsLocalAKA(main'),
                             isMain |-> command = "MAIN"])
  PROVE  OwnInv'
<1> DEFINE n == Len(own)
           e == [word |-> w, address |-> main', known |-> IsLocalAKA(main'), isMain |-> TRUE]
<1>1. /\ own \in Seq(Own) /\ n \in Nat /\ DOMAIN own = 1 .. n
      /\ main = Nobody /\ main \in Address /\ akas \in Seq(Address)
      /\ \A i \in 1 .. n : ~own[i].isMain
      /\ LastStored
  BY DEF OwnInv
<1>2. Readable(w, main) /\ NoMain(main)
  BY <1>1, NobodyAddress DEF Qualifies
<1>3. main' \in Address
  BY <1>1, <1>2, WordFacts, QualifiedAddress
<1>4. e \in Own /\ own' = Append(own, e)
  <2>1. IsLocalAKA(main') \in BOOLEAN
    BY DEF IsLocalAKA
  <2> QED
    BY <1>3, <2>1 DEF Own
<1>5. e.word = w /\ e.address = main' /\ e.isMain
  OBVIOUS
<1> HIDE DEF e
<1>6. /\ own' \in Seq(Own) /\ Len(own') = n + 1
      /\ own'[n + 1] = e /\ \A i \in 1 .. n : own'[i] = own[i]
      /\ OwnReadings'
  BY <1>1, <1>2, <1>4, <1>5, OwnAppended
<1>7. DOMAIN own' = 1 .. n + 1
  BY <1>6
<1>8. \A i \in 1 .. n + 1 : own'[i].isMain <=> i = n + 1
  BY <1>1, <1>5, <1>6
<1>9. LastStored'
  <2> DEFINE others == {i \in DOMAIN own : ~own[i].isMain}
             new == {i \in DOMAIN own' : ~own'[i].isMain}
  <2>1. new = others
    BY <1>1, <1>6, <1>7, <1>8
  <2>2. others # {} => Max(others) \in 1 .. n
    BY <1>1, LastOther
  <2>3. IF others = {} THEN akas = << >>
        ELSE ~own[Max(others)].known => akas # << >> /\ Last(akas) = own[Max(others)].address
    BY <1>1 DEF LastStored
  <2>4. IF new = {} THEN akas = << >>
        ELSE ~own'[Max(new)].known => akas # << >> /\ Last(akas) = own'[Max(new)].address
    BY <1>6, <2>1, <2>2, <2>3
  <2> QED
    BY <2>4 DEF LastStored
<1>10. OwnOnce'
  <2> SUFFICES ASSUME own'[1].isMain
               PROVE  \A i, j \in DOMAIN Ours' : i < j => ~SameSystem(Ours'[i], Ours'[j])
    BY DEF OwnOnce
  <2>1. n = 0
    <3>1. 1 \in 1 .. n + 1
      BY <1>1
    <3> QED
      BY <1>1, <1>8, <3>1
  <2>2. {i \in DOMAIN own : ~own[i].isMain} = {}
    BY <1>1, <2>1
  <2>3. akas = << >>
    BY <1>1, <2>2 DEF LastStored
  <2>4. Ours' = << main' >>
    BY <2>3 DEF Ours
  <2> QED
    BY <2>4
<1>11. /\ inited' <=> \E i \in DOMAIN own' : own'[i].isMain
       /\ ~inited' => main' = Nobody
       /\ \A i, j \in DOMAIN own' : own'[i].isMain /\ own'[j].isMain => i = j
       /\ \A i \in DOMAIN own' : own'[i].isMain => own'[i].address = main'
  BY <1>1, <1>5, <1>6, <1>7, <1>8
<1> QED
  BY <1>1, <1>3, <1>6, <1>9, <1>10, <1>11 DEF OwnInv

LEMMA AKAStored ==
  ASSUME OwnInv, NEW w \in Words, Qualifies(w, GetLastAKA), command = "AKA",
         inited' = inited, main' = main, StoreAKA(Qualified(w, GetLastAKA)),
         Noted(w, Qualified(w, GetLastAKA))
  PROVE  OwnInv'
<1> DEFINE n == Len(own)
           m == GetLastAKA
           a == Qualified(w, m)
           e == [word |-> w, address |-> a, known |-> IsLocalAKA(a), isMain |-> FALSE]
           others == {i \in DOMAIN own : ~own[i].isMain}
<1>1. /\ own \in Seq(Own) /\ n \in Nat /\ DOMAIN own = 1 .. n
      /\ main \in Address /\ akas \in Seq(Address)
      /\ inited <=> \E i \in DOMAIN own : own[i].isMain
      /\ ~inited => main = Nobody
      /\ \A i \in DOMAIN own : own[i].isMain => own[i].address = main
  BY DEF OwnInv
<1>2. IF others = {} THEN akas = << >>
      ELSE ~own[Max(others)].known => akas # << >> /\ Last(akas) = own[Max(others)].address
  BY DEF OwnInv, LastStored
<1>3. m = IF ~inited \/ akas = << >> THEN main ELSE Last(akas)
  BY DEF GetLastAKA
<1>4. m \in Address /\ Readable(w, m)
  <2>1. akas # << >> => Last(akas) \in Address
    BY <1>1 DEF Last
  <2> QED
    BY <1>1, <1>3, <2>1 DEF Qualifies
<1> HIDE DEF m
<1>5. a \in Address
  BY <1>4, WordFacts, QualifiedAddress
<1>6. akas' = (IF IsLocalAKA(a) THEN akas ELSE Append(akas, a)) /\ IsLocalAKA(a) \in BOOLEAN
  BY DEF StoreAKA, IsLocalAKA, m
<1>7. own' = Append(own, e)
  BY DEF Noted, m
<1>8. e \in Own /\ e.word = w /\ e.address = a /\ ~e.isMain /\ e.known = IsLocalAKA(a)
  BY <1>5, <1>6 DEF Own
<1> HIDE DEF a, e
<1>9. NoMain(m) \/ (inited /\ n > 0)
  <2>1. ~inited => NoMain(m)
    BY <1>1, <1>3, NobodyAddress
  <2>2. inited => n > 0
    BY <1>1
  <2> QED
    BY <2>1, <2>2
<1>10. \/ NoMain(m)
       \/ PriorOf(n + 1) > 0 /\ ~own[PriorOf(n + 1)].known => m = own[PriorOf(n + 1)].address
  <2> SUFFICES ASSUME ~NoMain(m), PriorOf(n + 1) > 0, ~own[PriorOf(n + 1)].known
               PROVE  m = own[PriorOf(n + 1)].address
    OBVIOUS
  <2>1. inited
    BY <1>9
  <2>2. CASE others = {}
    <3>1. m = main
      BY <1>2, <1>3, <2>2
    <3>2. \A k \in 1 .. n + 1 - 1 : own[k].isMain
      BY <1>1, <2>2
    <3>3. n + 1 \in 1 .. n + 1
      BY <1>1
    <3>4. PriorOf(n + 1) \in 0 .. n + 1 - 1 /\ PriorOf(n + 1) # 0
      BY <1>1, <3>3, Prior
    <3>5. own[PriorOf(n + 1)].isMain
      BY <1>1, <3>2, <3>3, <3>4, Prior
    <3>6. PriorOf(n + 1) \in 1 .. n
      BY <1>1, <3>4
    <3> QED
      BY <1>1, <3>1, <3>5, <3>6
  <2>3. CASE others # {}
    <3>1. Max(others) = PriorOf(n + 1)
      BY <1>1, <2>3, LastOther
    <3>2. akas # << >> /\ Last(akas) = own[PriorOf(n + 1)].address
      BY <1>2, <2>3, <3>1
    <3> QED
      BY <1>3, <2>1, <3>2
  <2> QED
    BY <2>2, <2>3
<1>11. /\ own' \in Seq(Own) /\ Len(own') = n + 1
       /\ own'[n + 1] = e /\ \A i \in 1 .. n : own'[i] = own[i]
       /\ OwnReadings'
  <2>1. Readable(e.word, m) /\ e.address = Qualified(e.word, m)
    BY <1>4, <1>8 DEF a
  <2>2. NoMain(m) \/ n > 0
    BY <1>9
  <2> HIDE DEF n
  <2> QED
    BY <1>4, <1>7, <1>8, <1>10, <2>1, <2>2, OwnAppended DEF n
<1>12. DOMAIN own' = 1 .. n + 1
  BY <1>11
<1>13. \A i \in 1 .. n + 1 : own'[i].isMain <=> i \in 1 .. n /\ own[i].isMain
  BY <1>1, <1>8, <1>11
<1>14. akas' \in Seq(Address)
  BY <1>1, <1>5, <1>6
<1>15. LastStored'
  <2> DEFINE new == {i \in DOMAIN own' : ~own'[i].isMain}
  <2>1. n + 1 \in new /\ new \in SUBSET (0 .. n + 1) /\ n + 1 \in Nat
    BY <1>1, <1>12, <1>13
  <2>2. Max(new) \in new /\ \A y \in new : y <= Max(new)
    <3> HIDE DEF new, n
    <3> QED
      BY <2>1, Greatest
  <2>3. Max(new) = n + 1
    <3>1. Max(new) \in 0 .. n + 1 /\ n + 1 <= Max(new)
      <4> HIDE DEF new, n
      <4> QED
        BY <2>1, <2>2
    <3> HIDE DEF new, n
    <3> QED
      BY <2>1, <3>1
  <2>4. ~own'[n + 1].known => akas' # << >> /\ Last(akas') = own'[n + 1].address
    <3> SUFFICES ASSUME ~own'[n + 1].known
                 PROVE  akas' # << >> /\ Last(akas') = own'[n + 1].address
      OBVIOUS
    <3>1. akas' = Append(akas, a)
      BY <1>6, <1>8, <1>11
    <3>2. own'[n + 1].address = a
      BY <1>8, <1>11
    <3> QED
      BY <1>1, <1>5, <3>1, <3>2 DEF Last
  <2>5. new # {}
    BY <2>1
  <2> QED
    BY <2>3, <2>4, <2>5 DEF LastStored
<1>16. OwnOnce'
  <2> SUFFICES ASSUME own'[1].isMain
               PROVE  \A i, j \in DOMAIN Ours' : i < j => ~SameSystem(Ours'[i], Ours'[j])
    BY DEF OwnOnce
  <2>1. own # << >> /\ own[1].isMain
    <3>1. 1 \in 1 .. n + 1
      BY <1>1
    <3> QED
      BY <1>1, <1>13, <3>1
  <2>2. \A i, j \in DOMAIN Ours : i < j => ~SameSystem(Ours[i], Ours[j])
    BY <2>1 DEF OwnInv, OwnOnce
  <2>3. inited
    BY <1>1, <2>1
  <2>4. Ours \in Seq(Address) /\ Ours' = << main >> \o akas'
    BY <1>1 DEF Ours
  <2>5. CASE IsLocalAKA(a)
    <3>1. Ours' = Ours
      BY <1>6, <2>4, <2>5 DEF Ours
    <3> QED
      BY <2>2, <3>1
  <2>6. CASE ~IsLocalAKA(a)
    <3>1. \A i \in DOMAIN Ours : ~SameSystem(Ours[i], a)
      BY <2>3, <2>6 DEF IsLocalAKA
    <3>2. Ours' = Append(Ours, a)
      <4>1. akas' = Append(akas, a)
        BY <1>6, <2>6
      <4> QED
        BY <1>1, <1>5, <2>4, <4>1 DEF Ours
    <3> DEFINE k == Len(Ours)
    <3>7. \A s \in Seq(Address) :
             /\ Len(s) \in Nat /\ DOMAIN s = 1 .. Len(s)
             /\ DOMAIN Append(s, a) = 1 .. Len(s) + 1 /\ Append(s, a)[Len(s) + 1] = a
             /\ \A i \in 1 .. Len(s) : Append(s, a)[i] = s[i]
      BY <1>5
    <3>8. k \in Nat /\ DOMAIN Ours = 1 .. k /\ DOMAIN Ours' = 1 .. k + 1
      BY <2>4, <3>2, <3>7, Zenon
    <3>9. Ours'[k + 1] = a /\ \A i \in 1 .. k : Ours'[i] = Ours[i]
      BY <2>4, <3>2, <3>7, Zenon
    <3>3. /\ k \in Nat /\ DOMAIN Ours = 1 .. k /\ DOMAIN Ours' = 1 .. k + 1
          /\ Ours'[k + 1] = a /\ \A i \in 1 .. k : Ours'[i] = Ours[i]
      BY <3>8, <3>9
    <3> HIDE DEF k
    <3> TAKE i, j \in DOMAIN Ours'
    <3> HAVE i < j
    <3>4. i \in 1 .. k
      BY <3>3
    <3>5. CASE j \in 1 .. k
      BY <2>2, <3>3, <3>4, <3>5
    <3>6. CASE j = k + 1
      BY <3>1, <3>3, <3>4, <3>6
    <3> QED
      BY <3>3, <3>5, <3>6
  <2> QED
    BY <2>5, <2>6
<1>17. /\ inited' <=> \E i \in DOMAIN own' : own'[i].isMain
       /\ ~inited' => main' = Nobody
       /\ \A i, j \in DOMAIN own' : own'[i].isMain /\ own'[j].isMain => i = j
       /\ \A i \in DOMAIN own' : own'[i].isMain => own'[i].address = main'
  <2>1. \A i, j \in DOMAIN own : own[i].isMain /\ own[j].isMain => i = j
    BY DEF OwnInv
  <2>2. \A i \in 1 .. n : i \in 1 .. n + 1
    BY <1>1
  <2>3. inited' <=> \E i \in DOMAIN own' : own'[i].isMain
    BY <1>1, <1>12, <1>13, <2>2
  <2> QED
    BY <1>1, <1>11, <1>12, <1>13, <2>1, <2>2, <2>3
<1> QED
  BY <1>1, <1>11, <1>14, <1>15, <1>16, <1>17 DEF OwnInv

LEMMA OwnInit == Init => OwnInv
<1> SUFFICES ASSUME Init
             PROVE  OwnInv
  OBVIOUS
<1>1. ~inited /\ inited \in BOOLEAN /\ main = Nobody /\ akas = << >> /\ own = << >>
  BY DEF Init
<1>3. DOMAIN own = {} /\ akas \in Seq(Address) /\ own \in Seq(Own)
  BY <1>1
<1>2. LastStored /\ OwnOnce /\ OwnReadings
  BY <1>1, <1>3 DEF LastStored, OwnOnce, OwnReadings
<1> QED
  BY <1>1, <1>2, <1>3, NobodyAddress DEF OwnInv

LEMMA OwnStep == OwnInv /\ [Next]_vars => OwnInv'
<1> SUFFICES ASSUME OwnInv, [Next]_vars
             PROVE  OwnInv'
  OBVIOUS
<1>1. ASSUME NEW w \in Words, MainWord(w)
      PROVE  OwnInv'
  <2>1. CASE QualifyUndefined(w, main)
    BY <1>1, <2>1, OwnFrame DEF MainWord
  <2>2. CASE ~QualifyUndefined(w, main) /\ ~(Qualifies(w, main) /\ ~inited)
    BY <1>1, <2>2, OwnFrame DEF MainWord
  <2>3. CASE ~QualifyUndefined(w, main) /\ Qualifies(w, main) /\ ~inited
    <3>1. /\ inited' = TRUE /\ main' = Qualified(w, main) /\ akas' = akas
          /\ command = "MAIN" /\ Noted(w, main')
      BY <1>1, <2>3 DEF MainWord
    <3> QED
      BY <2>3, <3>1, MainStored DEF Noted
  <2> QED
    BY <2>1, <2>2, <2>3
<1>2. ASSUME NEW w \in Words, AKAWord(w)
      PROVE  OwnInv'
  <2>1. CASE QualifyUndefined(w, GetLastAKA) \/ ~Qualifies(w, GetLastAKA)
    BY <1>2, <2>1, OwnFrame DEF AKAWord
  <2>2. CASE ~QualifyUndefined(w, GetLastAKA) /\ Qualifies(w, GetLastAKA)
    <3>1. /\ inited' = inited /\ main' = main /\ command = "AKA"
          /\ StoreAKA(Qualified(w, GetLastAKA)) /\ Noted(w, Qualified(w, GetLastAKA))
      BY <1>2, <2>2 DEF AKAWord
    <3> QED
      BY <2>2, <3>1, AKAStored
  <2> QED
    BY <2>1, <2>2
<1>3. CASE UNCHANGED << inited, main, akas, own >>
  BY <1>3, OwnFrame
<1>4. CASE StartOwn \/ StartPassword \/ StartPacket2 \/ StartSentence \/ Assume
  BY <1>3, <1>4 DEF StartOwn, StartPassword, StartPacket2, StartSentence, Assume, Start
<1>5. CASE Packet2Except \/ \E s \in Secrets : Secret(s)
  BY <1>3, <1>5 DEF Packet2Except, Secret
<1>6. ASSUME NEW w \in Words, NEW junk \in BOOLEAN,
             PasswordWord(w, junk) \/ Packet2Word(w, junk)
      PROVE  OwnInv'
  BY <1>3, <1>6 DEF PasswordWord, Packet2Word
<1>7. ASSUME NEW w \in Words, NEW junk \in BOOLEAN, Waypoint(w, junk) \/ RouteWord(w, junk)
      PROVE  OwnInv'
  BY <1>3, <1>7 DEF Waypoint, RouteWord
<1>8. CASE UNCHANGED vars
  BY <1>3, <1>8 DEF vars, configVars
<1> QED
  BY <1>1, <1>2, <1>4, <1>5, <1>6, <1>7, <1>8 DEF Next

-----------------------------------------------------------------------------
(* The lists *)

LEMMA PreviousComplete ==
  ASSUME ListInv, NEW k \in Kind
  PROVE  previous[k] = NoPattern \/ Complete(previous[k])
<1>1. CASE begins[k]
  BY <1>1 DEF ListInv, PreviousInv
<1>2. CASE ~begins[k]
  <2>1. lists[k] # << >> /\ previous[k] = Last(lists[k]).parsed /\ lists[k] \in Seq(Item)
    BY <1>2 DEF ListInv, PreviousInv
  <2>2. Len(lists[k]) \in DOMAIN lists[k]
    BY <2>1
  <2>3. lists[k][Len(lists[k])].parsed = NoPattern \/ Complete(lists[k][Len(lists[k])].parsed)
    BY <2>2 DEF ListInv
  <2> QED
    BY <2>1, <2>3 DEF Last
<1> QED
  BY <1>1, <1>2

\* What makes an entry of a list right, before being what it was completed from.
EntryRight(item, before) ==
  item.pattern # NoPattern /\ Proper(item.word) =>
    \A a \in Systems : CompareAddress(a, item.pattern) <=> Means(item, before, a)

LEMMA EntriesRight ==
  EntriesAsWritten <=>
    \A k \in Kind : lists[k] # << >> =>
      EntryRight(lists[k][Len(lists[k])], BeforeOf(k, Len(lists[k])))
BY DEF EntriesAsWritten, EntryRight

\* The item Listed appends.
NewItem(kind, w, p, entry, reverse) ==
  [word |-> w, parsed |-> p, pattern |-> entry, reverse |-> reverse,
   secret |-> IF kind = "password" THEN secret ELSE "",
   first |-> begins[kind], assumed |-> kind = "route" /\ "points" \in assumed]

LEMMA ItemAppended ==
  ASSUME ListInv, NEW kind \in Kind, NEW w \in Words, NEW p, p = NoPattern \/ Complete(p),
         NEW entry \in Pattern, NEW reverse \in BOOLEAN,
         Listed(kind, w, p, entry, reverse),
         EntryRight(NewItem(kind, w, p, entry, reverse), previous[kind])
  PROVE  /\ previous' \in [Kind -> Pattern] /\ begins' \in [Kind -> BOOLEAN]
         /\ lists' \in [Kind -> Seq(Item)]
         /\ \A k \in Kind : \A i \in DOMAIN lists'[k] :
              lists'[k][i].parsed # NoPattern => Complete(lists'[k][i].parsed)
         /\ \A k \in Kind :
              IF begins'[k] THEN previous'[k] = NoPattern
              ELSE lists'[k] # << >> /\ previous'[k] = Last(lists'[k]).parsed
         /\ ~begins'[kind] /\ \A k \in Kind : k # kind => begins'[k] = begins[k]
         /\ \A k \in Kind : k # kind => lists'[k] = lists[k]
         /\ lists'[kind] = Append(lists[kind], NewItem(kind, w, p, entry, reverse))
         /\ EntriesAsWritten'
<1> DEFINE e == NewItem(kind, w, p, entry, reverse)
           n == Len(lists[kind])
<1>1. /\ previous \in [Kind -> Pattern] /\ begins \in [Kind -> BOOLEAN]
      /\ lists \in [Kind -> Seq(Item)] /\ secret \in Secrets \cup {""}
      /\ \A k \in Kind : \A i \in DOMAIN lists[k] :
           lists[k][i].parsed # NoPattern => Complete(lists[k][i].parsed)
      /\ \A k \in Kind :
           IF begins[k] THEN previous[k] = NoPattern
           ELSE lists[k] # << >> /\ previous[k] = Last(lists[k]).parsed
      /\ EntriesAsWritten
  BY DEF ListInv, PreviousInv
<1>2. p \in Pattern
  BY Constants DEF Complete
<1>3. e \in Item /\ e.parsed = p /\ e.first = begins[kind]
  <2>1. (IF kind = "password" THEN secret ELSE "") \in Secrets \cup {""}
    BY <1>1
  <2>2. begins[kind] \in BOOLEAN /\ (kind = "route" /\ "points" \in assumed) \in BOOLEAN
    BY <1>1
  <2>3. w \in Word
    BY WordFacts
  <2> QED
    BY <1>2, <2>1, <2>2, <2>3 DEF NewItem, Item
<1>4. /\ previous' = [previous EXCEPT ![kind] = p]
      /\ begins' = [begins EXCEPT ![kind] = FALSE]
      /\ lists' = [lists EXCEPT ![kind] = Append(lists[kind], e)]
  BY DEF Listed, NewItem
<1> HIDE DEF e
<1>5. /\ lists[kind] \in Seq(Item) /\ n \in Nat /\ DOMAIN lists[kind] = 1 .. n
      /\ Append(lists[kind], e) \in Seq(Item) /\ Len(Append(lists[kind], e)) = n + 1
      /\ DOMAIN Append(lists[kind], e) = 1 .. n + 1
      /\ Append(lists[kind], e)[n + 1] = e
      /\ \A i \in 1 .. n : Append(lists[kind], e)[i] = lists[kind][i]
  <2>1. lists[kind] \in Seq(Item)
    BY <1>1
  <2> QED
    BY <1>3, <2>1
<1> DEFINE new == Append(lists[kind], e)
<1>6. lists'[kind] = new /\ \A k \in Kind : k # kind => lists'[k] = lists[k]
  BY <1>1, <1>4
<1> HIDE DEF new, n
<1>7. /\ previous' \in [Kind -> Pattern] /\ begins' \in [Kind -> BOOLEAN]
      /\ lists' \in [Kind -> Seq(Item)]
  BY <1>1, <1>2, <1>4, <1>5 DEF new
<1>8. /\ ~begins'[kind] /\ previous'[kind] = p
      /\ \A k \in Kind : k # kind => begins'[k] = begins[k] /\ previous'[k] = previous[k]
  BY <1>1, <1>4
<1>9. ASSUME NEW k \in Kind, NEW i \in DOMAIN lists'[k], lists'[k][i].parsed # NoPattern
      PROVE  Complete(lists'[k][i].parsed)
  <2>1. CASE k # kind
    BY <1>1, <1>6, <1>9, <2>1
  <2>2. CASE k = kind /\ i \in 1 .. n
    <3>1. lists'[k][i] = lists[k][i] /\ i \in DOMAIN lists[k]
      BY <1>5, <1>6, <2>2 DEF new
    <3> QED
      BY <1>1, <1>9, <3>1
  <2>3. CASE k = kind /\ i = n + 1
    <3>1. lists'[k][i].parsed = p
      BY <1>3, <1>5, <1>6, <2>3 DEF new
    <3> QED
      BY <1>9, <3>1
  <2>4. k = kind => i \in 1 .. n + 1
    BY <1>5, <1>6 DEF new
  <2> QED
    BY <1>5, <2>1, <2>2, <2>3, <2>4
<1>10. Last(new) = e /\ new # << >> /\ Len(new) = n + 1
  <2>1. new \in Seq(Item) /\ Len(new) = n + 1 /\ new[n + 1] = e /\ n \in Nat
    BY <1>5 DEF new
  <2> QED
    BY <2>1 DEF Last
<1> PICK m \in Nat : m = n
  BY <1>5
<1>11. ASSUME NEW k \in Kind
       PROVE  IF begins'[k] THEN previous'[k] = NoPattern
              ELSE lists'[k] # << >> /\ previous'[k] = Last(lists'[k]).parsed
  <2>1. CASE k # kind
    BY <1>1, <1>6, <1>8, <2>1
  <2>2. CASE k = kind
    BY <1>3, <1>6, <1>8, <1>10, <2>2
  <2> QED
    BY <2>1, <2>2
<1>12. BeforeOf(kind, m + 1)' = previous[kind]
  <2>1. BeforeOf(kind, m + 1)' =
          IF m + 1 = 1 \/ lists'[kind][m + 1].first THEN NoPattern
          ELSE lists'[kind][m + 1 - 1].parsed
    BY DEF BeforeOf
  <2>2. lists'[kind][m + 1].first = begins[kind]
    BY <1>3, <1>5, <1>6 DEF new
  <2>3. CASE begins[kind]
    BY <1>1, <2>1, <2>2, <2>3
  <2>4. CASE ~begins[kind]
    <3>1. lists[kind] # << >> /\ previous[kind] = Last(lists[kind]).parsed
      BY <1>1, <2>4
    <3>2. n \in 1 .. n /\ m + 1 - 1 = n /\ m + 1 # 1
      BY <1>5, <3>1
    <3>3. lists'[kind][n] = Last(lists[kind])
      BY <1>5, <1>6, <3>2 DEF new, Last, n
    <3> QED
      BY <2>1, <2>2, <2>4, <3>1, <3>2, <3>3
  <2> QED
    BY <2>3, <2>4
<1>13. EntriesAsWritten'
  <2>1. ASSUME NEW k \in Kind, lists'[k] # << >>
        PROVE  EntryRight(lists'[k][Len(lists'[k])], BeforeOf(k, Len(lists[k]))')
    <3>1. CASE k = kind
      <4>1. lists'[k][Len(lists'[k])] = e /\ Len(lists'[k]) = n + 1
        BY <1>5, <1>6, <1>10, <3>1 DEF new
      <4>2. BeforeOf(k, Len(lists[k]))' = previous[kind]
        <5>1. Len(lists[k])' = m + 1
          BY <4>1
        <5>2. BeforeOf(k, Len(lists[k]))' = BeforeOf(k, m + 1)'
          BY <5>1 DEF BeforeOf
        <5> QED
          BY <1>12, <3>1, <5>2
      <4> QED
        BY <4>1, <4>2 DEF e
    <3>2. CASE k # kind
      <4>1. lists'[k] = lists[k]
        BY <1>6, <3>2
      <4>2. BeforeOf(k, Len(lists[k]))' = BeforeOf(k, Len(lists[k]))
        BY <4>1 DEF BeforeOf
      <4>3. EntryRight(lists[k][Len(lists[k])], BeforeOf(k, Len(lists[k])))
        BY <1>1, <2>1, <4>1, EntriesRight
      <4> QED
        BY <4>1, <4>2, <4>3
    <3> QED
      BY <3>1, <3>2
  <2> QED
    BY <2>1 DEF EntriesAsWritten, EntryRight
<1> QED
  BY <1>4, <1>6, <1>7, <1>8, <1>9, <1>11, <1>13 DEF new, e

\* What becomes of a word is right, or nothing does.
LEMMA ParsedRight ==
  ASSUME ListInv, NEW kind \in Kind, NEW w \in Words, NEW junk \in BOOLEAN, NEW p,
         p = Parsed(w, kind, junk)
  PROVE  /\ p = NoPattern \/ Complete(p)
         /\ \A entry, reverse :
              entry = NoPattern \/ entry = (IF kind = "route" THEN Assumed(w, p) ELSE p) =>
                /\ entry \in Pattern
                /\ EntryRight(NewItem(kind, w, p, entry, reverse), previous[kind])
<1> DEFINE before == previous[kind]
           right == IF kind = "route" THEN Assumed(w, p) ELSE p
           split == Split(w, before, junk)
<1>1. w \in Word /\ Len(w.parts) = Cardinality(w.seps) + 1
  BY WordFacts
<1>2. before = NoPattern \/ Complete(before)
  BY PreviousComplete
<1>3. CASE ~Splits(w, before, junk)
  <2>1. p = NoPattern /\ right = NoPattern
    BY <1>3 DEF Parsed, Assumed
  <2>2. \A item : item.pattern = NoPattern => EntryRight(item, before)
    BY DEF EntryRight
  <2> QED
    BY <2>1, <2>2, Constants DEF NewItem
<1>4. CASE Splits(w, before, junk)
  <2>1. p = split
    BY <1>4 DEF Parsed
  <2>2. Complete(p) /\ p # NoPattern /\ p \in Pattern
    BY <1>1, <1>2, <1>4, <2>1, SplitComplete DEF Complete
  <2>3. [p EXCEPT !.point = Star] \in Pattern
    BY <2>2, Constants DEF Pattern
  <2>4. right \in Pattern
    BY <2>2, <2>3 DEF Assumed
  <2>5. ASSUME NEW entry, NEW reverse, entry = right
        PROVE  EntryRight(NewItem(kind, w, p, entry, reverse), before)
    <3> DEFINE item == NewItem(kind, w, p, entry, reverse)
    <3>1. /\ item.word = w /\ item.pattern = entry
          /\ item.assumed <=> kind = "route" /\ "points" \in assumed
      BY DEF NewItem
    <3> HIDE DEF item
    <3>2. ASSUME Proper(w), NEW a \in Systems
          PROVE  CompareAddress(a, item.pattern) <=> Means(item, before, a)
      <4>1. a \in Address
        BY AddressesAssumption DEF AddressesAssumption
      <4>2. w.domain \notin Dotted
        BY <3>2 DEF Proper
      <4>3. entry = IF item.assumed /\ "." \notin w.seps
                    THEN [split EXCEPT !.point = Star] ELSE split
        BY <2>1, <2>2, <2>5, <3>1, <4>2 DEF Assumed
      <4> HIDE DEF before
      <4> QED
        BY <1>1, <1>2, <1>4, <3>1, <3>2, <4>1, <4>3, Entry
    <3> QED
      BY <3>1, <3>2 DEF EntryRight, item
  <2>6. \A entry, reverse :
          entry = NoPattern => EntryRight(NewItem(kind, w, p, entry, reverse), before)
    BY DEF EntryRight, NewItem
  <2> HIDE DEF right
  <2> QED
    BY <2>2, <2>4, <2>5, <2>6, Constants DEF right
<1> QED
  BY <1>3, <1>4

ListTypes ==
  /\ outcome \in {"reading", "fatal", "undefined"}
  /\ via \in [inited : BOOLEAN, system : Address]
  /\ except \in BOOLEAN /\ secret \in Secrets \cup {""}

LEMMA ListsSame ==
  ASSUME ListInv, lists' = lists, via' = via \/ via'.system = Nobody
  PROVE  EntriesAsWritten' /\ WaypointReadings'
<1>1. EntriesAsWritten'
  BY DEF ListInv, EntriesAsWritten, BeforeOf
<1>2. WaypointReadings'
  BY DEF ListInv, WaypointReadings
<1> QED
  BY <1>1, <1>2

LEMMA ListFrame ==
  ASSUME ListInv, ListTypes', UNCHANGED << lists, via, previous, begins >>
  PROVE  ListInv'
<1>1. EntriesAsWritten' /\ WaypointReadings'
  BY ListsSame
<1>2. PreviousInv'
  BY DEF ListInv, PreviousInv
<1>3. /\ previous' \in [Kind -> Pattern] /\ begins' \in [Kind -> BOOLEAN]
      /\ lists' \in [Kind -> Seq(Item)]
      /\ \A k \in Kind : \A i \in DOMAIN lists'[k] :
           lists'[k][i].parsed # NoPattern => Complete(lists'[k][i].parsed)
  BY DEF ListInv
<1> QED
  BY <1>1, <1>2, <1>3 DEF ListInv, ListTypes

\* A list begins anew: the next word has none before it.
LEMMA ListReset ==
  ASSUME ListInv, ListTypes', NEW kind \in Kind, lists' = lists,
         previous' = [previous EXCEPT ![kind] = NoPattern],
         begins' = [begins EXCEPT ![kind] = TRUE],
         \/ kind # "route" /\ via' = via
         \/ kind = "route" /\ via'.system = Nobody
  PROVE  ListInv'
<1>1. EntriesAsWritten' /\ WaypointReadings'
  BY ListsSame
<1>2. /\ previous \in [Kind -> Pattern] /\ begins \in [Kind -> BOOLEAN]
      /\ lists \in [Kind -> Seq(Item)]
      /\ \A k \in Kind : \A i \in DOMAIN lists[k] :
           lists[k][i].parsed # NoPattern => Complete(lists[k][i].parsed)
      /\ PreviousInv
  BY DEF ListInv
<1>3. previous' \in [Kind -> Pattern] /\ begins' \in [Kind -> BOOLEAN]
  BY <1>2, Constants
<1>4. \A k \in Kind : IF begins'[k] THEN previous'[k] = NoPattern
                      ELSE lists'[k] # << >> /\ previous'[k] = Last(lists'[k]).parsed
  BY <1>2 DEF PreviousInv
<1>5. "route" \in Kind
  BY DEF Kind
<1>6. /\ ~via'.inited => begins'["route"]
      /\ via'.inited /\ begins'["route"] => via'.system = Nobody
  BY <1>2, <1>5 DEF PreviousInv
<1>7. PreviousInv'
  BY <1>4, <1>6 DEF PreviousInv
<1> QED
  BY <1>1, <1>2, <1>3, <1>7 DEF ListInv, ListTypes

\* A word comes to the list of a password or of PACKET2.
LEMMA ListGrown ==
  ASSUME ListInv, ListTypes', NEW kind \in {"packet2", "password"}, NEW w \in Words,
         NEW junk \in BOOLEAN, NEW p, p = Parsed(w, kind, junk), NEW reverse \in BOOLEAN,
         Listed(kind, w, p, p, reverse), via' = via
  PROVE  ListInv'
<1>1. kind \in Kind /\ kind # "route" /\ "route" \in Kind
  BY DEF Kind
<1>2. p = NoPattern \/ Complete(p)
  BY <1>1, ParsedRight
<1>3. /\ p \in Pattern
      /\ EntryRight(NewItem(kind, w, p, p, reverse), previous[kind])
  BY <1>1, ParsedRight
<1>4. /\ previous' \in [Kind -> Pattern] /\ begins' \in [Kind -> BOOLEAN]
      /\ lists' \in [Kind -> Seq(Item)]
      /\ \A k \in Kind : \A i \in DOMAIN lists'[k] :
           lists'[k][i].parsed # NoPattern => Complete(lists'[k][i].parsed)
      /\ \A k \in Kind :
           IF begins'[k] THEN previous'[k] = NoPattern
           ELSE lists'[k] # << >> /\ previous'[k] = Last(lists'[k]).parsed
      /\ \A k \in Kind : k # kind => begins'[k] = begins[k] /\ lists'[k] = lists[k]
      /\ EntriesAsWritten'
  BY <1>1, <1>2, <1>3, ItemAppended
<1>5. PreviousInv'
  BY <1>1, <1>4 DEF ListInv, PreviousInv
<1>6. WaypointReadings'
  <2>1. lists'["route"] = lists["route"]
    BY <1>1, <1>4
  <2> QED
    BY <2>1 DEF ListInv, WaypointReadings
<1> QED
  BY <1>4, <1>5, <1>6 DEF ListInv, ListTypes

\* A word comes to the list of the sentences.
LEMMA RouteGrown ==
  ASSUME ListInv, ListTypes', NEW w \in Words, NEW junk \in BOOLEAN,
         NEW p, p = Parsed(w, "route", junk), NEW entry,
         entry = NoPattern \/ entry = Assumed(w, p),
         Listed("route", w, p, entry, FALSE), via'.inited,
         \/ via' = via
         \/ /\ ~via.inited
            /\ Plain(w) /\ via'.system # Nobody => p = Printed(via'.system)
  PROVE  ListInv'
<1> DEFINE item == NewItem("route", w, p, entry, FALSE)
<1>1. "route" \in Kind
  BY DEF Kind
<1>2. p = NoPattern \/ Complete(p)
  BY <1>1, ParsedRight
<1>3. /\ entry \in Pattern
      /\ EntryRight(NewItem("route", w, p, entry, FALSE), previous["route"])
  BY <1>1, ParsedRight
<1>4. /\ previous' \in [Kind -> Pattern] /\ begins' \in [Kind -> BOOLEAN]
      /\ lists' \in [Kind -> Seq(Item)]
      /\ \A k \in Kind : \A i \in DOMAIN lists'[k] :
           lists'[k][i].parsed # NoPattern => Complete(lists'[k][i].parsed)
      /\ \A k \in Kind :
           IF begins'[k] THEN previous'[k] = NoPattern
           ELSE lists'[k] # << >> /\ previous'[k] = Last(lists'[k]).parsed
      /\ ~begins'["route"]
      /\ lists'["route"] = Append(lists["route"], item)
      /\ EntriesAsWritten'
  BY <1>1, <1>2, <1>3, ItemAppended
<1>5. PreviousInv'
  BY <1>4 DEF PreviousInv
<1>6. /\ item.word = w /\ item.parsed = p /\ item.first = begins["route"]
  BY DEF NewItem
<1> DEFINE list == lists["route"]
           n == Len(list)
           new == lists'["route"]
<1>7. list \in Seq(Item) /\ new \in Seq(Item)
  BY <1>1, <1>4 DEF ListInv
<1> HIDE DEF item, list, new
<1>8. new = Append(list, item)
  BY <1>4 DEF new, list
<1>9. /\ n \in Nat /\ DOMAIN list = 1 .. n /\ Len(new) = n + 1 /\ DOMAIN new = 1 .. n + 1
      /\ new[n + 1] = item /\ \A i \in 1 .. n : new[i] = list[i]
  BY <1>7, <1>8
<1>10. \A i \in 1 .. n :
         LET it == list[i]
             latest == it.first /\ \A j \in 1 .. n : list[j].first => j <= i
         IN via.system # Nobody /\ latest /\ Plain(it.word) => it.parsed = Printed(via.system)
  BY <1>9 DEF ListInv, WaypointReadings, list
<1>11. /\ ~via.inited => begins["route"]
       /\ via.inited /\ begins["route"] => via.system = Nobody
  BY DEF ListInv, PreviousInv
<1> HIDE DEF n
<1>12. ASSUME NEW i \in 1 .. n + 1, via'.system # Nobody, Plain(new[i].word),
              new[i].first, \A j \in 1 .. n + 1 : new[j].first => j <= i
       PROVE  new[i].parsed = Printed(via'.system)
  <2>1. CASE via' = via
    <3>1. begins["route"] => via.system = Nobody
      BY <1>11, <2>1
    <3>2. ~new[n + 1].first
      BY <1>6, <1>9, <1>12, <2>1, <3>1
    <3>3. i # n + 1
      BY <1>12, <3>2
    <3>4. i \in 1 .. n
      BY <1>9, <3>3
    <3>5. \A j \in 1 .. n : list[j].first => j <= i
      BY <1>9, <1>12
    <3>6. new[i] = list[i]
      BY <1>9, <3>4
    <3> QED
      BY <1>10, <1>12, <2>1, <3>4, <3>5, <3>6
  <2>2. CASE ~via.inited /\ (Plain(w) /\ via'.system # Nobody => p = Printed(via'.system))
    <3>1. new[n + 1].first
      BY <1>6, <1>9, <1>11, <2>2
    <3>2. n + 1 <= i
      BY <1>9, <1>12, <3>1
    <3>3. i = n + 1
      BY <1>9, <3>2
    <3> QED
      BY <1>6, <1>9, <1>12, <2>2, <3>3
  <2> QED
    BY <2>1, <2>2
<1>13. WaypointReadings'
  BY <1>9, <1>12 DEF WaypointReadings, new
<1> QED
  BY <1>4, <1>5, <1>13 DEF ListInv, ListTypes

LEMMA ListInit == Init => ListInv
<1> SUFFICES ASSUME Init
             PROVE  ListInv
  OBVIOUS
<1>1. /\ outcome = "reading" /\ via = [inited |-> TRUE, system |-> Nobody]
      /\ previous = [k \in Kind |-> NoPattern] /\ lists = [k \in Kind |-> << >>]
      /\ secret = "" /\ begins = [k \in Kind |-> TRUE]
  BY DEF Init
<1>2. except \in BOOLEAN
  BY DEF Init
<1>3. lists \in [Kind -> Seq(Item)] /\ \A k \in Kind : lists[k] = << >>
  <2>1. << >> \in Seq(Item)
    OBVIOUS
  <2> QED
    BY <1>1, <2>1
<1>4. "route" \in Kind
  BY DEF Kind
<1>5. PreviousInv
  BY <1>1 DEF PreviousInv
<1>6. EntriesAsWritten /\ WaypointReadings
  BY <1>3, <1>4 DEF EntriesAsWritten, WaypointReadings
<1>7. \A k \in Kind : \A i \in DOMAIN lists[k] : FALSE
  BY <1>3
<1>8. previous \in [Kind -> Pattern] /\ begins \in [Kind -> BOOLEAN]
  BY <1>1, Constants
<1> QED
  BY <1>1, <1>2, <1>3, <1>5, <1>6, <1>7, <1>8, NobodyAddress DEF ListInv

LEMMA ListStep == ListInv /\ [Next]_vars => ListInv'
<1> SUFFICES ASSUME ListInv, [Next]_vars
             PROVE  ListInv'
  OBVIOUS
<1>0. ListTypes
  BY DEF ListInv, ListTypes
<1> DEFINE Frame == UNCHANGED << lists, via, previous, begins >>
<1>1. CASE Frame /\ UNCHANGED << outcome, except, secret >>
  BY <1>0, <1>1, ListFrame DEF ListTypes
<1>2. CASE StartOwn \/ Assume
  BY <1>1, <1>2 DEF StartOwn, Assume, Start
<1>3. CASE StartPassword
  <2>1. Frame /\ UNCHANGED << outcome, except >> /\ secret' = ""
    BY <1>3 DEF StartPassword, Start
  <2> QED
    BY <1>0, <2>1, ListFrame DEF ListTypes
<1>4. CASE StartPacket2
  <2>1. Frame /\ UNCHANGED << outcome, secret >> /\ except' \in BOOLEAN
    BY <1>4 DEF StartPacket2, Start
  <2> QED
    BY <1>0, <2>1, ListFrame DEF ListTypes
<1>5. CASE StartSentence
  <2>1. PICK direct \in BOOLEAN : via' = [inited |-> direct, system |-> Nobody]
    BY <1>5 DEF StartSentence
  <2>2. /\ UNCHANGED << lists, outcome, except, secret >>
        /\ previous' = [previous EXCEPT !["route"] = NoPattern]
        /\ begins' = [begins EXCEPT !["route"] = TRUE]
    BY <1>5 DEF StartSentence, Start
  <2>3. via' \in [inited : BOOLEAN, system : Address] /\ via'.system = Nobody
    BY <2>1, NobodyAddress
  <2>4. ListTypes'
    BY <1>0, <2>2, <2>3 DEF ListTypes
  <2>5. "route" \in Kind
    BY DEF Kind
  <2> QED
    BY <2>2, <2>3, <2>4, <2>5, ListReset
<1>6. CASE Packet2Except
  <2>1. Frame /\ UNCHANGED << outcome, secret >> /\ except' \in BOOLEAN
    BY <1>6 DEF Packet2Except, NothingListed
  <2> QED
    BY <1>0, <2>1, ListFrame DEF ListTypes
<1>7. ASSUME NEW w \in Words, MainWord(w) \/ AKAWord(w)
      PROVE  ListInv'
  <2>1. Frame /\ UNCHANGED << except, secret >>
    BY <1>7 DEF MainWord, AKAWord
  <2>2. outcome' \in {"reading", "fatal", "undefined"}
    BY <1>0, <1>7 DEF MainWord, AKAWord, ListTypes
  <2> QED
    BY <1>0, <2>1, <2>2, ListFrame DEF ListTypes
<1>8. ASSUME NEW s \in Secrets, Secret(s)
      PROVE  ListInv'
  <2>1. UNCHANGED << lists, via, except >>
    BY <1>8 DEF Secret
  <2>2. CASE s \in TooLong
    <3>1. outcome' = "fatal" /\ UNCHANGED << secret, previous, begins >>
      BY <1>8, <2>2 DEF Secret
    <3> QED
      BY <1>0, <2>1, <3>1, ListFrame DEF ListTypes
  <2>3. CASE s \notin TooLong
    <3>1. /\ secret' = s /\ outcome' = outcome
          /\ previous' = [previous EXCEPT !["password"] = NoPattern]
          /\ begins' = [begins EXCEPT !["password"] = TRUE]
      BY <1>8, <2>3 DEF Secret, ResetPoint
    <3>2. ListTypes'
      BY <1>0, <2>1, <3>1 DEF ListTypes
    <3>3. "password" \in Kind /\ "password" # "route"
      BY DEF Kind
    <3> QED
      BY <2>1, <3>1, <3>2, <3>3, ListReset
  <2> QED
    BY <2>2, <2>3
<1>9. ASSUME NEW w \in Words, NEW junk \in BOOLEAN, PasswordWord(w, junk)
      PROVE  ListInv'
  <2>1. UNCHANGED << via, except, secret >>
    BY <1>9 DEF PasswordWord
  <2>2. CASE Splits(w, previous["password"], junk)
    <3> DEFINE p == Split(w, previous["password"], junk)
    <3>1. Listed("password", w, p, p, w.except) /\ outcome' = outcome
      BY <1>9, <2>2 DEF PasswordWord
    <3>2. p = Parsed(w, "password", junk)
      BY <2>2 DEF Parsed
    <3>3. ListTypes'
      BY <1>0, <2>1, <3>1 DEF ListTypes
    <3>4. w.except \in BOOLEAN
      BY WordFacts DEF Word
    <3> HIDE DEF p
    <3> QED
      BY <2>1, <3>1, <3>2, <3>3, <3>4, ListGrown
  <2>3. CASE ~Splits(w, previous["password"], junk)
    <3>1. Frame /\ outcome' \in {"undefined", "fatal"}
      BY <1>9, <2>3 DEF PasswordWord, NothingListed
    <3> QED
      BY <1>0, <2>1, <3>1, ListFrame DEF ListTypes
  <2> QED
    BY <2>2, <2>3
<1>10. ASSUME NEW w \in Words, NEW junk \in BOOLEAN, Packet2Word(w, junk)
       PROVE  ListInv'
  <2> DEFINE p == Parsed(w, "packet2", junk)
  <2>1. UNCHANGED << via, except, secret >>
    BY <1>10 DEF Packet2Word
  <2>2. \/ /\ previous' = previous /\ begins' = begins /\ lists' = lists
           /\ outcome' = outcome \/ outcome' = "undefined"
        \/ Listed("packet2", w, p, p, except) /\ outcome' = outcome
    BY <1>10 DEF Packet2Word, NothingListed
  <2>3. outcome' \in {"reading", "fatal", "undefined"}
    BY <1>0, <2>2 DEF ListTypes
  <2>4. ListTypes'
    BY <1>0, <2>1, <2>3 DEF ListTypes
  <2>5. CASE UNCHANGED << previous, begins, lists >>
    BY <2>1, <2>4, <2>5, ListFrame
  <2>6. CASE Listed("packet2", w, p, p, except)
    <3>1. except \in BOOLEAN
      BY <1>0 DEF ListTypes
    <3> QED
      BY <2>1, <2>4, <2>6, <3>1, ListGrown
  <2> QED
    BY <2>2, <2>5, <2>6
<1>11. ASSUME NEW w \in Words, NEW junk \in BOOLEAN, RouteWord(w, junk)
       PROVE  ListInv'
  <2> DEFINE p == Parsed(w, "route", junk)
  <2>1. UNCHANGED << via, except, secret >> /\ via.inited
    BY <1>11 DEF RouteWord
  <2>2. \/ /\ previous' = previous /\ begins' = begins /\ lists' = lists
           /\ outcome' = "undefined"
        \/ Listed("route", w, p, Assumed(w, p), FALSE) /\ outcome' = outcome
    BY <1>11 DEF RouteWord, NothingListed
  <2>3. outcome' \in {"reading", "fatal", "undefined"}
    BY <1>0, <2>2 DEF ListTypes
  <2>4. ListTypes'
    BY <1>0, <2>1, <2>3 DEF ListTypes
  <2>5. CASE UNCHANGED << previous, begins, lists >>
    BY <2>1, <2>4, <2>5, ListFrame
  <2>6. CASE Listed("route", w, p, Assumed(w, p), FALSE)
    BY <2>1, <2>4, <2>6, RouteGrown
  <2> QED
    BY <2>2, <2>5, <2>6
<1>12. ASSUME NEW w \in Words, NEW junk \in BOOLEAN, Waypoint(w, junk)
       PROVE  ListInv'
  <2> DEFINE p == Parsed(w, "route", junk)
             entry == IF "waypoints" \in assumed THEN Assumed(w, p) ELSE NoPattern
  <2>1. UNCHANGED << except, secret >> /\ ~via.inited
    BY <1>12 DEF Waypoint
  <2>2. CASE Qualifies(w, Nobody)
    <3>1. /\ via' = [inited |-> TRUE, system |-> Qualified(w, Nobody)]
          /\ Listed("route", w, p, entry, FALSE) /\ outcome' = outcome
      BY <1>12, <2>2 DEF Waypoint
    <3>2. Readable(w, Nobody) /\ {":", "/"} \subseteq w.seps
      BY <2>2, NobodyAddress DEF Qualifies, Readable
    <3>3. Qualified(w, Nobody) \in Address
      BY <3>2, NobodyAddress, WordFacts, QualifiedAddress
    <3>4. via' \in [inited : BOOLEAN, system : Address] /\ via'.inited
      BY <3>1, <3>3
    <3>5. ListTypes'
      BY <1>0, <2>1, <3>1, <3>4 DEF ListTypes
    <3>6. Plain(w) => p = Printed(via'.system)
      <4> SUFFICES ASSUME Plain(w)
                   PROVE  p = Printed(via'.system)
        OBVIOUS
      <4>1. w.seps \notin {{":"}, {":", "."}}
        BY <3>2
      <4>2. /\ Splits(w, previous["route"], junk)
            /\ Split(w, previous["route"], junk) = Printed(Qualified(w, Nobody))
        BY <3>2, <4>1, NobodyAddress, WordFacts, PlainReading
      <4> QED
        BY <3>1, <4>2 DEF Parsed
    <3>7. entry = NoPattern \/ entry = Assumed(w, p)
      OBVIOUS
    <3> HIDE DEF p, entry
    <3>8. p = Parsed(w, "route", junk)
      BY DEF p
    <3> QED
      BY <2>1, <3>1, <3>4, <3>5, <3>6, <3>7, <3>8, RouteGrown
  <2>3. CASE ~Qualifies(w, Nobody)
    <3>1. Frame /\ outcome' \in {"undefined", "fatal"}
      BY <1>12, <2>3 DEF Waypoint, NothingListed
    <3> QED
      BY <1>0, <2>1, <3>1, ListFrame DEF ListTypes
  <2> QED
    BY <2>2, <2>3
<1>13. CASE UNCHANGED vars
  BY <1>1, <1>13 DEF vars, configVars
<1> QED
  BY <1>2, <1>3, <1>4, <1>5, <1>6, <1>7, <1>8, <1>9, <1>10, <1>11, <1>12, <1>13 DEF Next

-----------------------------------------------------------------------------
(* Theorems *)

LEMMA Invariants == Spec => [](OwnInv /\ ListInv)
BY OwnInit, ListInit, OwnStep, ListStep, PTL DEF Spec

LEMMA TypesFollow == OwnInv /\ ListInv => AddressesTypeOK
<1> SUFFICES ASSUME OwnInv, ListInv
             PROVE  AddressesTypeOK
  OBVIOUS
<1>1. main \in Address /\ \A i \in DOMAIN akas : akas[i] \in Address
  BY DEF OwnInv
<1>2. ASSUME NEW k \in Kind, NEW i \in DOMAIN lists[k], lists[k][i].parsed # NoPattern,
             NEW part \in DOMAIN lists[k][i].parsed
      PROVE  /\ lists[k][i].parsed[part] # << >>
             /\ Range(lists[k][i].parsed[part]) \subseteq Range(Digits) \cup Wild
  <2> DEFINE p == lists[k][i].parsed
  <2>1. Complete(p)
    BY <1>2 DEF ListInv
  <2> HIDE DEF p
  <2>2. p \in Pattern /\ \A x \in DOMAIN p : p[x] # << >>
    BY <2>1 DEF Complete
  <2>3. part \in {"zone", "net", "node", "point"}
    BY <1>2, <2>2 DEF Pattern, p
  <2>4. p[part] \in Part
    BY <2>2, <2>3 DEF Pattern
  <2>5. \A j \in DOMAIN p[part] : p[part][j] \in Range(Digits) \cup Wild
    BY <2>4 DEF Part, Char
  <2>6. Range(p[part]) \subseteq Range(Digits) \cup Wild
    BY <2>5, Zenon DEF Range
  <2> QED
    BY <1>2, <2>2, <2>6 DEF p
<1>3. outcome \in {"reading", "fatal", "undefined"}
  BY DEF ListInv
<1> QED
  BY <1>1, <1>2, <1>3 DEF AddressesTypeOK

\* The type invariant: our addresses have numbers of 16 bits, and every address
\* SplitWildcardedAddress stores is complete, each part digits and wildcards.
THEOREM AddressesTyped == Spec => []AddressesTypeOK
BY Invariants, TypesFollow, PTL

\* None of our addresses is there twice, in whatever way the words of MAIN and AKA
\* leave out what the address before them has (StoreAKA, GetLastAKA of akas.cpp).
THEOREM OursOnce == Spec => []OwnOnce
<1>1. OwnInv => OwnOnce
  BY DEF OwnInv
<1> QED
  BY <1>1, Invariants, PTL

\* GetFullQualifiedAddress and SplitWildcardedAddress agree on every plain word,
\* of ours and of a waypoint, though each completes it from a state of its own.
THEOREM ReadingsTheSame == Spec => []ReadingsAgree
<1>1. OwnInv /\ ListInv => ReadingsAgree
  BY DEF OwnInv, ListInv, ReadingsAgree
<1> QED
  BY <1>1, Invariants, PTL

\* An entry of a list matches what its word means, completed from the word before
\* it, whatever words and whatever systems there are.
THEOREM EntriesMatch == Spec => []EntriesAsWritten
<1>1. ListInv => EntriesAsWritten
  BY DEF ListInv
<1> QED
  BY <1>1, Invariants, PTL

LEMMA WildcardsFollow == ListInv => WildcardsAsDocumented
<1> SUFFICES ASSUME ListInv, NEW k \in Kind, NEW i \in DOMAIN lists[k],
                    \A c \in DOMAIN lists[k][i].pattern.node :
                      /\ lists[k][i].pattern.node[c] # "?"
                      /\ lists[k][i].pattern.node[c] = "*" => c = Len(lists[k][i].pattern.node),
                    NEW a \in Systems
             PROVE  CompareBit(a.node, lists[k][i].pattern.node) <=>
                      Documented(Decimal[a.node], lists[k][i].pattern.node)
  BY DEF WildcardsAsDocumented
<1>1. lists[k][i] \in Item
  <2>1. lists[k] \in Seq(Item)
    BY DEF ListInv
  <2> QED
    BY <2>1
<1>2. lists[k][i].pattern.node \in Part
  BY <1>1 DEF Item, Pattern
<1>3. a.node \in Number
  BY AddressesAssumption DEF AddressesAssumption, Address
<1> QED
  BY <1>2, <1>3, AsDocumented

\* CompareBit does what the manual says of "*" and "#", for every number and every
\* part without "?" whose only "*" comes last.
THEOREM WildcardsMatch == Spec => []WildcardsAsDocumented
BY Invariants, WildcardsFollow, PTL

=============================================================================
