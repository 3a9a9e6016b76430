------------------------------ MODULE EntryProofs ------------------------------
(***************************************************************************)
(* Safety of the ways to enter entropy, for every value of their           *)
(* constants: number bases, draws that select words, cards.  What the code *)
(* computes digit by digit or draw by draw is written with functions on    *)
(* 0..n; the section on recursion shows that such a function exists and    *)
(* is reached step by step, and each use of it first unfolds its function  *)
(* that way (PowerBuilt, EntropyCollected, DrawsCollected, CleanSpelled).  *)
(*   - Bases: the places of the digits follow one another and fill the     *)
(*     entropy, so cutting a number into digits and putting it together    *)
(*     again is exact; a sync is then described by what it leaves, and     *)
(*     BasesInv adds that a base is the source while the checkbox is on.   *)
(*   - Draws: spacing a text anew loses no draw, and the text of fewer     *)
(*     draws is its beginning, so the caret stays inside; a picked word is *)
(*     kept only by the comparison that proves it fits.  A deletion takes  *)
(*     a draw, or leaves the caret behind a draw further left.  The number *)
(*     of some draws is less than the product of their radixes, so it      *)
(*     divides back into their values.                                     *)
(*   - Cards: each of the three passes of an update leaves a choice that   *)
(*     can be completed, whatever the pass before it left.                 *)
(***************************************************************************)
EXTENDS NumberBases, DirectDraws, CardDeal, TLAPS, FiniteSetTheorems, WellFoundedInduction

-----------------------------------------------------------------------------
(* Extremes of sets of natural numbers *)

LEMMA RelationLess ==
    ASSUME NEW j \in Nat, NEW k \in Nat, j < k
    PROVE  <<j, k>> \in OpToRel(<, Nat)
BY DEF OpToRel

LEMMA HasLeast ==
    ASSUME NEW S \in SUBSET Nat, S # {}
    PROVE  \E k \in S : \A j \in S : k <= j
<1>1. PICK k \in S : \A j \in S : ~(<<j, k>> \in OpToRel(<, Nat))
  BY NatLessThanWellFounded, WFMin
<1>2. ASSUME NEW j \in S PROVE k <= j
  <2>1. ~(j < k)
    BY <1>1, RelationLess
  <2>. QED
    BY <2>1
<1>. QED
  BY <1>2

\* A bounded set has a largest element: its least bound is one of its own.
LEMMA HasLargest ==
    ASSUME NEW S \in SUBSET Nat, S # {}, NEW b \in Nat, \A n \in S : n <= b
    PROVE  \E m \in S : \A n \in S : n <= m
<1>. DEFINE Bounds == {u \in Nat : \A n \in S : n <= u}
<1>1. PICK u \in Bounds : \A v \in Bounds : u <= v
  BY HasLeast
<1>2. CASE u \in S
  BY <1>2
<1>3. CASE u \notin S
  <2>1. \A n \in S : n <= u - 1
    BY <1>3
  <2>2. PICK n \in S : TRUE
    OBVIOUS
  <2>3. u - 1 \in Bounds
    BY <2>1, <2>2
  <2>4. u <= u - 1
    BY <1>1, <2>3
  <2>. QED
    BY <2>4
<1>. QED
  BY <1>2, <1>3

-----------------------------------------------------------------------------
(* Sequences *)

LEMMA AppendTyped ==
    ASSUME NEW S, NEW s \in Seq(S), NEW x \in S
    PROVE  /\ Append(s, x) \in Seq(S) /\ Len(Append(s, x)) = Len(s) + 1
           /\ Append(s, x)[Len(s) + 1] = x
OBVIOUS

LEMMA AppendKeeps ==
    ASSUME NEW S, NEW s \in Seq(S), NEW x \in S, NEW i \in 1..Len(s)
    PROVE  Append(s, x)[i] = s[i]
OBVIOUS

LEMMA OneThenTwo ==
    ASSUME NEW S, NEW one \in Seq(S), Len(one) = 1, NEW x \in S,
           NEW two \in Seq(S), Len(two) = 2, two[1] = one[1], two[2] = x
    PROVE  Append(one, x) = two /\ SubSeq(two, 1, 1) = one
<1>1. Len(one) + 1 = 2 /\ 1 \in 1..Len(one)
  OBVIOUS
<1>2. /\ Append(one, x) \in Seq(S) /\ Len(Append(one, x)) = 2
      /\ Append(one, x)[2] = x /\ Append(one, x)[1] = one[1]
  <2>1. /\ Append(one, x) \in Seq(S) /\ Len(Append(one, x)) = Len(one) + 1
        /\ Append(one, x)[Len(one) + 1] = x
    BY AppendTyped, Zenon
  <2>2. Append(one, x)[1] = one[1]
    BY <1>1, AppendKeeps, Zenon
  <2>. QED
    BY <1>1, <2>1, <2>2, Zenon
<1>3. Append(one, x) = two
  BY <1>2
<1>4. SubSeq(two, 1, 1) = one
  OBVIOUS
<1>. QED
  BY <1>3, <1>4

LEMMA PairAsSequence ==
    ASSUME NEW r, NEW s
    PROVE  /\ Len(<<r, s>>) = 2 /\ SubSeq(<<r, s>>, 1, 1) = <<r>>
           /\ Len(<<r>>) = 1 /\ Append(<<r>>, s) = <<r, s>>
<1>1. /\ <<r>> \in Seq({r, s}) /\ Len(<<r>>) = 1 /\ <<r>>[1] = r
      /\ <<r, s>> \in Seq({r, s}) /\ Len(<<r, s>>) = 2 /\ <<r, s>>[1] = r /\ <<r, s>>[2] = s
  OBVIOUS
<1>2. Append(<<r>>, s) = <<r, s>> /\ SubSeq(<<r, s>>, 1, 1) = <<r>>
  BY <1>1, OneThenTwo
<1>. QED
  BY <1>1, <1>2

-----------------------------------------------------------------------------
(* Induction and recursion over 0..n *)

LEMMA UpTo ==
    ASSUME NEW n \in Nat, NEW S, 0 \in S, \A i \in 1..n : i - 1 \in S => i \in S
    PROVE  0..n \subseteq S
<1>. SUFFICES ASSUME (0..n) \ S # {} PROVE FALSE
  OBVIOUS
<1>1. PICK k \in (0..n) \ S : \A j \in (0..n) \ S : k <= j
  <2>1. (0..n) \ S \in SUBSET Nat
    OBVIOUS
  <2>. QED
    BY <2>1, HasLeast
<1>2. k \in 1..n /\ k - 1 \in 0..n
  BY <1>1
<1>3. k - 1 \in S
  BY <1>1, <1>2
<1>. QED
  BY <1>1, <1>2, <1>3

SameSteps(f, g, n) ==
    f[0] = g[0] /\ \A i \in 1..n : f[i - 1] = g[i - 1] => f[i] = g[i]

LEMMA StepsAgree ==
    ASSUME NEW n \in Nat, NEW f, NEW g, SameSteps(f, g, n)
    PROVE  \A i \in 0..n : f[i] = g[i]
<1>. USE DEF SameSteps
<1>. DEFINE S == {i \in 0..n : f[i] = g[i]}
<1>1. 0 \in S /\ \A i \in 1..n : i - 1 \in S => i \in S
  OBVIOUS
<1>. HIDE DEF S
<1>2. 0..n \subseteq S
  BY <1>1, UpTo
<1>. QED
  BY <1>2 DEF S

StepFunctions(V, n) == [V \X (1..n) -> V]
BuiltBy(f, V, b, F, n) ==
    /\ f \in [0..n -> V] /\ f[0] = b
    /\ \A i \in 1..n : f[i] = F[<<f[i - 1], i>>]

\* What is built step by step from b exists.
LEMMA StepsExist ==
    ASSUME NEW n \in Nat, NEW V, NEW b \in V, NEW F \in StepFunctions(V, n)
    PROVE  \E f : BuiltBy(f, V, b, F, n)
<1>. USE DEF StepFunctions
<1>. DEFINE Built(f, k) == f[0] = b /\ \A i \in 1..k : f[i] = F[<<f[i - 1], i>>]
            S == {k \in 0..n : \E f \in [0..k -> V] : Built(f, k)}
<1>1. 0 \in S
  <2>. DEFINE f == [i \in 0..0 |-> b]
  <2>1. f \in [0..0 -> V] /\ Built(f, 0)
    OBVIOUS
  <2>. HIDE DEF f, Built
  <2>. QED
    BY <2>1
<1>2. ASSUME NEW k \in 1..n, k - 1 \in S PROVE k \in S
  <2>1. PICK f \in [0..(k - 1) -> V] : Built(f, k - 1)
    BY <1>2
  <2>. DEFINE g == [i \in 0..k |-> IF i = k THEN F[<<f[k - 1], k>>] ELSE f[i]]
  <2>2. k - 1 \in 0..(k - 1) /\ f[k - 1] \in V
    OBVIOUS
  <2>3. F[<<f[k - 1], k>>] \in V
    BY <2>2
  <2>4. g \in [0..k -> V]
    BY <2>3
  <2>5. Built(g, k)
    <3>1. g[0] = b
      BY <2>1
    <3>2. ASSUME NEW i \in 1..k PROVE g[i] = F[<<g[i - 1], i>>]
      <4>1. g[i - 1] = f[i - 1]
        OBVIOUS
      <4>2. CASE i = k
        <5>1. g[k] = F[<<f[k - 1], k>>]
          OBVIOUS
        <5>. QED
          BY <4>1, <4>2, <5>1
      <4>3. CASE i # k
        <5>1. i \in 1..(k - 1)
          BY <4>3
        <5>2. g[i] = f[i]
          BY <4>3
        <5>3. f[i] = F[<<f[i - 1], i>>]
          BY <2>1, <5>1
        <5>. QED
          BY <4>1, <5>2, <5>3
      <4>. QED
        BY <4>2, <4>3
    <3>. QED
      BY <3>1, <3>2
  <2>. HIDE DEF g, Built
  <2>. QED
    BY <2>4, <2>5
<1>. HIDE DEF S
<1>3. n \in S
  BY <1>1, <1>2, UpTo
<1>. QED
  BY <1>3 DEF S, BuiltBy

-----------------------------------------------------------------------------
(* Number bases: powers of two *)

PowersUpTo(u, k) == u[0] = 1 /\ \A i \in 1..k : u[i] = 2 * u[i - 1]

\* A power is reached by doubling.
LEMMA PowerBuilt ==
    ASSUME NEW k \in Nat
    PROVE  \E u : /\ u \in [0..k -> Nat \ {0}] /\ PowersUpTo(u, k)
                  /\ Pow2(k) = u[k]
<1>. DEFINE V == Nat \ {0}
            F == [p \in V \X (1..k) |-> 2 * p[1]]
            Fixed(f) == f = [i \in 0..k |-> IF i = 0 THEN 1 ELSE 2 * f[i - 1]]
            upTo == CHOOSE f : Fixed(f)
<1>1. Pow2(k) = upTo[k]
  BY Zenon DEF Pow2
<1>2. F \in StepFunctions(V, k) /\ 1 \in V
  BY DEF StepFunctions
<1>3. PICK u : BuiltBy(u, V, 1, F, k)
  <2>. HIDE DEF V, F
  <2>. QED
    BY <1>2, StepsExist
<1>4. u \in [0..k -> V] /\ u[0] = 1 /\ \A i \in 1..k : u[i] = F[<<u[i - 1], i>>]
  BY <1>3, Zenon DEF BuiltBy
<1>5. \A i \in 1..k : u[i] = 2 * u[i - 1]
  <2>1. TAKE i \in 1..k
  <2>2. i - 1 \in 0..k
    OBVIOUS
  <2>3. u[i - 1] \in V
    BY <1>4, <2>2
  <2>. QED
    BY <1>4, <2>3
<1>6. Fixed(u)
  <2>. HIDE DEF F, V
  <2>1. u = [i \in 0..k |-> u[i]]
    BY <1>4
  <2>2. \A i \in 0..k : u[i] = IF i = 0 THEN 1 ELSE 2 * u[i - 1]
    BY <1>4, <1>5
  <2>. QED
    BY <2>1, <2>2
<1>7. Fixed(upTo)
  <2>. HIDE DEF Fixed
  <2>. QED
    BY <1>6, Zenon
<1>8. \A i \in 0..k : upTo[i] = u[i]
  <2>1. upTo[0] = 1 /\ \A i \in 1..k : upTo[i] = 2 * upTo[i - 1]
    <3>. HIDE DEF upTo
    <3>. QED
      BY <1>7
  <2>. HIDE DEF upTo
  <2>2. SameSteps(upTo, u, k)
    BY <1>4, <1>5, <2>1 DEF SameSteps
  <2>. QED
    BY <2>2, StepsAgree
<1>. QED
  <2>. HIDE DEF upTo
  <2>1. PowersUpTo(u, k)
    BY <1>4, <1>5 DEF PowersUpTo
  <2>2. Pow2(k) = u[k]
    BY <1>1, <1>8
  <2>. QED
    BY <1>4, <2>1, <2>2, Zenon

LEMMA PowerOfSuccessor ==
    Pow2(0) = 1 /\ \A k \in Nat : Pow2(k) \in Nat \ {0} /\ Pow2(k + 1) = 2 * Pow2(k)
<1>1. Pow2(0) = 1
  BY PowerBuilt DEF PowersUpTo
<1>2. ASSUME NEW k \in Nat PROVE Pow2(k) \in Nat \ {0} /\ Pow2(k + 1) = 2 * Pow2(k)
  <2>1. PICK u : /\ u \in [0..k -> Nat \ {0}] /\ PowersUpTo(u, k) /\ Pow2(k) = u[k]
    BY PowerBuilt
  <2>2. PICK w : /\ w \in [0..(k + 1) -> Nat \ {0}] /\ PowersUpTo(w, k + 1)
                 /\ Pow2(k + 1) = w[k + 1]
    <3>1. k + 1 \in Nat
      OBVIOUS
    <3>. QED
      BY <3>1, PowerBuilt
  <2>3. SameSteps(w, u, k)
    BY <2>1, <2>2 DEF SameSteps, PowersUpTo
  <2>4. w[k] = u[k]
    BY <2>3, StepsAgree
  <2>5. w[k + 1] = 2 * w[k]
    BY <2>2 DEF PowersUpTo
  <2>. QED
    BY <2>1, <2>2, <2>4, <2>5
<1>. QED
  BY <1>1, <1>2

LEMMA PowerOfSum ==
    ASSUME NEW a \in Nat, NEW b \in Nat
    PROVE  Pow2(a + b) = Pow2(a) * Pow2(b)
<1>. DEFINE S == {k \in 0..b : Pow2(a + k) = Pow2(a) * Pow2(k)}
<1>1. 0 \in S
  BY PowerOfSuccessor
<1>2. ASSUME NEW k \in 1..b, k - 1 \in S PROVE k \in S
  <2>1. /\ Pow2(a + (k - 1)) \in Nat /\ Pow2(a + (k - 1) + 1) = 2 * Pow2(a + (k - 1))
        /\ Pow2(k - 1) \in Nat /\ Pow2((k - 1) + 1) = 2 * Pow2(k - 1) /\ Pow2(a) \in Nat
    BY PowerOfSuccessor
  <2>2. (k - 1) + 1 = k /\ a + (k - 1) + 1 = a + k
    OBVIOUS
  <2>3. Pow2(a + k) = 2 * Pow2(a + (k - 1)) /\ Pow2(k) = 2 * Pow2(k - 1)
    BY <2>1, <2>2
  <2>4. Pow2(a + (k - 1)) = Pow2(a) * Pow2(k - 1)
    BY <1>2
  <2>. QED
    BY <2>1, <2>3, <2>4
<1>. HIDE DEF S
<1>3. b \in S
  BY <1>1, <1>2, UpTo
<1>. QED
  BY <1>3 DEF S

-----------------------------------------------------------------------------
(* Number bases: the places of the digits *)

\* The places of the digits follow one another and fill the entropy.
LEMMA DigitPlaces ==
    ASSUME NumberBasesAssumption, NEW f \in Formats, NEW n \in Nat
    PROVE  /\ Digits(f, n) \in Nat
           /\ Digits(f, n) = 0 => n = 0
           /\ \A i \in 1..Digits(f, n) :
                /\ Width(f, n, i) \in Nat /\ Before(f, n, i) \in Nat
                /\ Before(f, n, i) + Width(f, n, i) <= n
                /\ i = 1 => Before(f, n, i) = 0
                /\ i > 1 => Before(f, n, i) = Before(f, n, i - 1) + Width(f, n, i - 1)
                /\ i = Digits(f, n) => Before(f, n, i) + Width(f, n, i) = n
<1>. DEFINE B == BitsPerDigit[f]
            F == n \div B
            R == n % B
<1>1. B \in Nat \ {0}
  BY DEF NumberBasesAssumption
<1>2. F \in Nat /\ R \in 0..(B - 1) /\ n = F * B + R
  <2>. HIDE DEF B
  <2>. QED
    BY <1>1
<1>3. FullDigits(f, n) = F /\ RemainderBits(f, n) = R
  BY DEF FullDigits, RemainderBits
<1>4. \A i \in 1..F : /\ (i - 1) * B \in Nat /\ (i - 1) * B + B = i * B /\ i * B <= F * B
  <2>. HIDE DEF B, F, R
  <2>1. TAKE i \in 1..F
  <2>2. F * B = i * B + (F - i) * B /\ (F - i) * B \in Nat /\ i * B \in Nat
    BY <1>1, <1>2
  <2>3. (i - 1) * B \in Nat /\ (i - 1) * B + B = i * B
    BY <1>1, <1>2
  <2>. QED
    BY <2>2, <2>3, <1>1, <1>2
<1>5. F * B \in Nat /\ (F = 0 => F * B = 0)
  <2>. HIDE DEF B, F, R
  <2>. QED
    BY <1>1, <1>2
\* The digits of full width.
<1>6. \A i \in 1..F : /\ Width(f, n, i) = B /\ Before(f, n, i) = (i - 1) * B
                      /\ Before(f, n, i) + Width(f, n, i) = i * B
  <2>1. TAKE i \in 1..F
  <2>2. Width(f, n, i) = B /\ Before(f, n, i) = (i - 1) * B
    BY <1>2, <1>3 DEF Width, Before
  <2>. HIDE DEF B, F, R
  <2>. QED
    BY <1>4, <2>2
<1>7. \A i \in 1..F : /\ Width(f, n, i) \in Nat /\ Before(f, n, i) \in Nat
                      /\ Before(f, n, i) + Width(f, n, i) <= n
                      /\ i = 1 => Before(f, n, i) = 0
                      /\ i > 1 => Before(f, n, i) = Before(f, n, i - 1) + Width(f, n, i - 1)
                      /\ i = F => Before(f, n, i) + Width(f, n, i) = F * B
  <2>. HIDE DEF B, F, R
  <2>1. TAKE i \in 1..F
  <2>2. i > 1 => Before(f, n, i) = Before(f, n, i - 1) + Width(f, n, i - 1)
    <3>. SUFFICES ASSUME i > 1
         PROVE  Before(f, n, i) = Before(f, n, i - 1) + Width(f, n, i - 1)
      OBVIOUS
    <3>1. i - 1 \in 1..F
      BY <1>2
    <3>. QED
      BY <1>6, <3>1
  <2>3. Before(f, n, i) + Width(f, n, i) <= n
    <3>1. n >= F * B /\ i * B <= F * B /\ i * B \in Nat
      BY <1>1, <1>2, <1>4, <1>5
    <3>. QED
      BY <1>2, <1>5, <1>6, <3>1
  <2>4. i = 1 => Before(f, n, i) = 0
    BY <1>1, <1>6
  <2>. QED
    BY <1>1, <1>4, <1>6, <2>2, <2>3, <2>4
<1>8. ASSUME NEW i \in Nat, i > F, i - 1 >= 1, i - 1 <= F
      PROVE  Before(f, n, i - 1) + Width(f, n, i - 1) = F * B
  <2>. HIDE DEF B, F, R
  <2>1. i - 1 = F /\ i - 1 \in 1..F
    BY <1>2, <1>8
  <2>. QED
    BY <1>7, <2>1
<1>9. CASE f \in BinaryRemainder
  <2>1. Digits(f, n) = F + R
    BY <1>3, <1>9 DEF Digits
  <2>2. \A i \in (F + 1)..(F + R) : /\ Width(f, n, i) = 1
                                    /\ Before(f, n, i) = F * B + (i - 1 - F)
    <3>1. TAKE i \in (F + 1)..(F + R)
    <3>2. ~(i <= FullDigits(f, n))
      <4>. HIDE DEF F, R
      <4>. QED
        BY <1>2, <1>3
    <3>. QED
      BY <1>3, <1>9, <3>2 DEF Width, Before
  <2>. HIDE DEF B, F, R
  <2>3. ASSUME NEW i \in 1..(F + R)
        PROVE  /\ Width(f, n, i) \in Nat /\ Before(f, n, i) \in Nat
               /\ Before(f, n, i) + Width(f, n, i) <= n
               /\ i = 1 => Before(f, n, i) = 0
               /\ i > 1 => Before(f, n, i) = Before(f, n, i - 1) + Width(f, n, i - 1)
               /\ i = F + R => Before(f, n, i) + Width(f, n, i) = n
    <3>1. CASE i <= F
      <4>1. i \in 1..F /\ (i = F + R => R = 0 /\ i = F)
        BY <1>2, <3>1
      <4>2. R = 0 => F * B = n
        BY <1>2, <1>5
      <4>. QED
        BY <1>7, <4>1, <4>2
    <3>2. CASE i > F
      <4>1. Width(f, n, i) = 1 /\ Before(f, n, i) = F * B + (i - 1 - F)
        BY <2>2, <3>2, <1>2
      <4>2. i = 1 => F = 0
        BY <1>2, <3>2
      <4>3. i > 1 => Before(f, n, i - 1) + Width(f, n, i - 1) = F * B + (i - 1 - F)
        <5>. SUFFICES ASSUME i > 1
             PROVE  Before(f, n, i - 1) + Width(f, n, i - 1) = F * B + (i - 1 - F)
          OBVIOUS
        <5>1. CASE i - 1 <= F
          <6>1. Before(f, n, i - 1) + Width(f, n, i - 1) = F * B /\ i - 1 - F = 0
            BY <1>2, <1>8, <3>2, <5>1
          <6>. QED
            BY <1>5, <6>1
        <5>2. CASE i - 1 > F
          <6>1. Width(f, n, i - 1) = 1 /\ Before(f, n, i - 1) = F * B + ((i - 1) - 1 - F)
            BY <2>2, <5>2, <1>2
          <6>. QED
            BY <1>2, <1>5, <6>1
        <5>. QED
          BY <1>2, <5>1, <5>2
      <4>4. i = 1 => Before(f, n, i) = 0
        BY <1>5, <4>1, <4>2
      <4>5. Before(f, n, i) \in Nat
        BY <1>2, <1>5, <3>2, <4>1
      <4>6. /\ Before(f, n, i) + Width(f, n, i) <= n
            /\ i = F + R => Before(f, n, i) + Width(f, n, i) = n
        BY <1>2, <1>5, <4>1
      <4>7. i > 1 => Before(f, n, i) = Before(f, n, i - 1) + Width(f, n, i - 1)
        BY <4>1, <4>3
      <4>8. Width(f, n, i) \in Nat
        BY <4>1
      <4>. QED
        BY <4>4, <4>5, <4>6, <4>7, <4>8
    <3>. QED
      BY <1>2, <3>1, <3>2
  <2>4. F + R \in Nat /\ (F + R = 0 => n = 0)
    BY <1>1, <1>2, <1>5
  <2>. QED
    BY <2>1, <2>3, <2>4
<1>10. CASE f \notin BinaryRemainder
  <2>. DEFINE D == IF R = 0 THEN F ELSE F + 1
  <2>1. Digits(f, n) = D
    <3>1. Digits(f, n) = F + (IF R = 0 THEN 0 ELSE 1)
      BY <1>3, <1>10 DEF Digits
    <3>. HIDE DEF B, F, R
    <3>. QED
      BY <1>2, <3>1
  <2>2. Width(f, n, F + 1) = R /\ Before(f, n, F + 1) = F * B
    <3>0. ~(F + 1 <= FullDigits(f, n))
      <4>. HIDE DEF F, R
      <4>. QED
        BY <1>2, <1>3
    <3>1. Width(f, n, F + 1) = R /\ Before(f, n, F + 1) = F * B + ((F + 1) - 1 - F)
      BY <1>3, <1>10, <3>0 DEF Width, Before
    <3>. HIDE DEF B, F, R
    <3>. QED
      BY <1>2, <1>5, <3>1
  <2>. HIDE DEF B, F, R
  <2>3. ASSUME NEW i \in 1..D
        PROVE  /\ Width(f, n, i) \in Nat /\ Before(f, n, i) \in Nat
               /\ Before(f, n, i) + Width(f, n, i) <= n
               /\ i = 1 => Before(f, n, i) = 0
               /\ i > 1 => Before(f, n, i) = Before(f, n, i - 1) + Width(f, n, i - 1)
               /\ i = D => Before(f, n, i) + Width(f, n, i) = n
    <3>1. CASE i <= F
      <4>1. i \in 1..F /\ (i = D => R = 0 /\ i = F)
        BY <1>2, <3>1
      <4>2. R = 0 => F * B = n
        BY <1>2, <1>5
      <4>. QED
        BY <1>7, <4>1, <4>2
    <3>2. CASE i > F
      <4>1. i = F + 1 /\ i = D /\ (i = 1 => F = 0)
        BY <1>2, <3>2
      <4>2. i > 1 => Before(f, n, i - 1) + Width(f, n, i - 1) = F * B
        BY <1>2, <1>8, <4>1
      <4>. QED
        BY <1>2, <1>5, <2>2, <4>1, <4>2
    <3>. QED
      BY <1>2, <3>1, <3>2
  <2>4. D \in Nat /\ (D = 0 => n = 0)
    BY <1>1, <1>2, <1>5
  <2>. HIDE DEF D
  <2>. QED
    BY <2>1, <2>3, <2>4
<1>. QED
  BY <1>9, <1>10

\* The bits up to the end of digit i.
End(f, n, i) == IF i = 0 THEN 0 ELSE Before(f, n, i) + Width(f, n, i)

LEMMA EndsMeet ==
    ASSUME NumberBasesAssumption, NEW f \in Formats, NEW n \in Nat
    PROVE  /\ Digits(f, n) \in Nat /\ End(f, n, 0) = 0 /\ End(f, n, Digits(f, n)) = n
           /\ \A i \in 1..Digits(f, n) :
                /\ Width(f, n, i) \in Nat /\ End(f, n, i - 1) \in Nat /\ End(f, n, i) \in Nat
                /\ Before(f, n, i) = End(f, n, i - 1)
                /\ End(f, n, i) = End(f, n, i - 1) + Width(f, n, i)
                /\ End(f, n, i) <= n
<1>. DEFINE D == Digits(f, n)
<1>1. /\ D \in Nat
      /\ D = 0 => n = 0
      /\ \A i \in 1..D :
           /\ Width(f, n, i) \in Nat /\ Before(f, n, i) \in Nat
           /\ Before(f, n, i) + Width(f, n, i) <= n
           /\ i = 1 => Before(f, n, i) = 0
           /\ i > 1 => Before(f, n, i) = Before(f, n, i - 1) + Width(f, n, i - 1)
           /\ i = D => Before(f, n, i) + Width(f, n, i) = n
  BY DigitPlaces
<1>. HIDE DEF D
<1>2. End(f, n, 0) = 0 /\ End(f, n, D) = n
  BY <1>1 DEF End
<1>3. ASSUME NEW i \in 1..D
      PROVE  /\ Width(f, n, i) \in Nat /\ End(f, n, i - 1) \in Nat /\ End(f, n, i) \in Nat
             /\ Before(f, n, i) = End(f, n, i - 1)
             /\ End(f, n, i) = End(f, n, i - 1) + Width(f, n, i)
             /\ End(f, n, i) <= n
  <2>1. End(f, n, i) = Before(f, n, i) + Width(f, n, i)
    BY DEF End
  <2>2. Before(f, n, i) = End(f, n, i - 1)
    <3>1. CASE i = 1
      BY <1>1, <1>2, <3>1
    <3>2. CASE i > 1
      BY <1>1, <3>2 DEF End
    <3>. QED
      BY <3>1, <3>2
  <2>. QED
    BY <1>1, <2>1, <2>2
<1>. QED
  BY <1>1, <1>2, <1>3 DEF D

-----------------------------------------------------------------------------
(* Number bases: texts and their entropy *)

Wide(f, n, t) == \A i \in 1..Len(t) : Width(f, n, i) \in Nat
SumsUpTo(u, f, n, t) ==
    /\ u[0] = 0
    /\ \A i \in 1..Len(t) : u[i] = u[i - 1] * Pow2(Width(f, n, i)) + t[i]

\* The entropy of a text is collected digit by digit.
LEMMA EntropyCollected ==
    ASSUME NEW f, NEW n, NEW t \in Seq(Nat), Wide(f, n, t)
    PROVE  \E u : /\ u \in [0..Len(t) -> Nat] /\ SumsUpTo(u, f, n, t)
                  /\ EntropyOf(f, n, t) = u[Len(t)]
<1>. DEFINE k == Len(t)
            step(q, i) == q * Pow2(Width(f, n, i)) + t[i]
            F == [p \in Nat \X (1..k) |-> step(p[1], p[2])]
            Fixed(g) == g = [i \in 0..k |-> IF i = 0 THEN 0 ELSE step(g[i - 1], i)]
            upTo == CHOOSE g : Fixed(g)
<1>1. EntropyOf(f, n, t) = upTo[k]
  BY Zenon DEF EntropyOf
<1>2. k \in Nat
  OBVIOUS
<1>3. \A q \in Nat, i \in 1..k : step(q, i) \in Nat
  <2>1. TAKE q \in Nat, i \in 1..k
  <2>2. t[i] \in Nat
    OBVIOUS
  <2>3. Pow2(Width(f, n, i)) \in Nat
    BY PowerOfSuccessor DEF Wide
  <2>. QED
    BY <2>2, <2>3, SMTT(30)
<1>4. F \in StepFunctions(Nat, k)
  <2>. HIDE DEF step
  <2>. QED
    BY <1>3 DEF StepFunctions
<1>5. PICK u : BuiltBy(u, Nat, 0, F, k)
  <2>. HIDE DEF F, k
  <2>. QED
    BY <1>2, <1>4, StepsExist
<1>6. u \in [0..k -> Nat] /\ u[0] = 0 /\ \A i \in 1..k : u[i] = F[<<u[i - 1], i>>]
  BY <1>5, Zenon DEF BuiltBy
<1>7. \A i \in 1..k : u[i] = step(u[i - 1], i)
  <2>1. TAKE i \in 1..k
  <2>2. i - 1 \in 0..k
    BY <1>2
  <2>3. u[i - 1] \in Nat
    BY <1>6, <2>2
  <2>. HIDE DEF step, k
  <2>. QED
    BY <1>6, <2>3
<1>8. Fixed(u)
  <2>1. u = [i \in 0..k |-> u[i]]
    BY <1>6
  <2>2. \A i \in 0..k : u[i] = IF i = 0 THEN 0 ELSE step(u[i - 1], i)
    <3>. HIDE DEF step, k
    <3>. QED
      BY <1>2, <1>6, <1>7
  <2>. HIDE DEF k, step
  <2>. QED
    BY <2>1, <2>2
<1>9. Fixed(upTo)
  <2>. HIDE DEF Fixed
  <2>. QED
    BY <1>8, Zenon
<1>10. \A i \in 0..k : upTo[i] = u[i]
  <2>1. upTo[0] = 0 /\ \A i \in 1..k : upTo[i] = step(upTo[i - 1], i)
    <3>. HIDE DEF upTo, step, k
    <3>. QED
      BY <1>2, <1>9
  <2>. HIDE DEF upTo, step, Fixed, k
  <2>2. \A i \in 1..k : upTo[i - 1] = u[i - 1] => upTo[i] = u[i]
    BY <1>7, <2>1
  <2>3. SameSteps(upTo, u, k)
    BY <1>6, <2>1, <2>2 DEF SameSteps
  <2>. QED
    BY <1>2, <2>3, StepsAgree
<1>11. EntropyOf(f, n, t) = u[k] /\ SumsUpTo(u, f, n, t)
  <2>1. k \in 0..k
    BY <1>2
  <2>2. SumsUpTo(u, f, n, t)
    BY <1>6, <1>7, Zenon DEF SumsUpTo
  <2>. HIDE DEF upTo
  <2>. QED
    BY <1>1, <1>10, <2>1, <2>2, Zenon
<1>. QED
  BY <1>6, <1>11, Zenon

\* The entropy of a complete text has the bits of its seed length.
LEMMA EntropyFits ==
    ASSUME NumberBasesAssumption, NEW f \in Formats, NEW n \in Nat, NEW t \in Seq(Nat),
           Ready(f, n, t)
    PROVE  EntropyOf(f, n, t) \in 0..(Pow2(n) - 1)
<1>. DEFINE D == Digits(f, n)
<1>1. /\ D \in Nat /\ End(f, n, 0) = 0 /\ End(f, n, D) = n
      /\ \A i \in 1..D :
           /\ Width(f, n, i) \in Nat /\ End(f, n, i - 1) \in Nat /\ End(f, n, i) \in Nat
           /\ End(f, n, i) = End(f, n, i - 1) + Width(f, n, i)
  BY EndsMeet
<1>2. Len(t) = D /\ \A i \in 1..D : t[i] \in Nat /\ t[i] < Pow2(Width(f, n, i))
  BY DEF Ready
<1>. HIDE DEF D
<1>3. PICK u : /\ u \in [0..Len(t) -> Nat] /\ SumsUpTo(u, f, n, t)
               /\ EntropyOf(f, n, t) = u[Len(t)]
  <2>1. Wide(f, n, t)
    BY <1>1, <1>2 DEF Wide
  <2>. QED
    BY <2>1, EntropyCollected, Zenon
<1>. DEFINE S == {i \in 0..D : u[i] \in 0..(Pow2(End(f, n, i)) - 1)}
<1>4. 0 \in S
  <2>1. D \in Nat /\ u[0] = 0 /\ Pow2(End(f, n, 0)) = 1
    BY <1>1, <1>3, PowerOfSuccessor DEF SumsUpTo
  <2>. QED
    BY <2>1
<1>5. ASSUME NEW i \in 1..D, i - 1 \in S PROVE i \in S
  <2>. DEFINE W == Pow2(Width(f, n, i))
              P == Pow2(End(f, n, i - 1))
  <2>1. W \in Nat \ {0} /\ P \in Nat \ {0}
    BY <1>1, PowerOfSuccessor
  <2>2. Pow2(End(f, n, i)) = P * W
    BY <1>1, PowerOfSum
  <2>3. u[i - 1] \in 0..(P - 1) /\ t[i] \in 0..(W - 1)
    BY <1>2, <1>5, <2>1
  <2>4. u[i] = u[i - 1] * W + t[i]
    BY <1>2, <1>3 DEF SumsUpTo
  <2>. HIDE DEF W, P
  <2>5. u[i - 1] * W + t[i] \in 0..(P * W - 1)
    <3>. DEFINE a == u[i - 1]
                c == t[i]
    <3>. SUFFICES a * W + c \in 0..(P * W - 1)
      OBVIOUS
    <3>1. a \in 0..(P - 1) /\ c \in 0..(W - 1)
      BY <2>3
    <3>. HIDE DEF a, c
    <3>. QED
      BY <2>1, <3>1
  <2>. QED
    BY <2>2, <2>4, <2>5
<1>. HIDE DEF S
<1>6. D \in S
  <2>1. D \in Nat
    BY <1>1
  <2>2. 0..D \subseteq S
    BY <2>1, <1>4, <1>5, UpTo
  <2>. QED
    BY <2>1, <2>2
<1>. QED
  BY <1>1, <1>2, <1>3, <1>6 DEF S

LEMMA DivisionTwice ==
    ASSUME NEW v \in Nat, NEW P \in Nat \ {0}, NEW W \in Nat \ {0}
    PROVE  (v \div P) \div W = v \div (P * W)
  OBVIOUS

\* Cutting an entropy into the digits of any base loses nothing.
LEMMA ConversionExact ==
    ASSUME NumberBasesAssumption, NEW f \in Formats, NEW n \in Nat, NEW v \in 0..(Pow2(n) - 1)
    PROVE  /\ ValueFromBytes(f, n, v) \in Seq(Nat)
           /\ Ready(f, n, ValueFromBytes(f, n, v))
           /\ EntropyOf(f, n, ValueFromBytes(f, n, v)) = v
<1>. DEFINE D == Digits(f, n)
            t == ValueFromBytes(f, n, v)
<1>1. /\ D \in Nat /\ End(f, n, 0) = 0 /\ End(f, n, D) = n
      /\ \A i \in 1..D :
           /\ Width(f, n, i) \in Nat /\ End(f, n, i - 1) \in Nat /\ End(f, n, i) \in Nat
           /\ Before(f, n, i) = End(f, n, i - 1)
           /\ End(f, n, i) = End(f, n, i - 1) + Width(f, n, i)
           /\ End(f, n, i) <= n
  BY EndsMeet
<1>2. v \in Nat
  BY PowerOfSuccessor
<1>3. \A i \in 1..D : /\ t[i] = (v \div Pow2(n - End(f, n, i))) % Pow2(Width(f, n, i))
                      /\ t[i] \in 0..(Pow2(Width(f, n, i)) - 1)
  <2>1. TAKE i \in 1..D
  <2>2. n - Before(f, n, i) - Width(f, n, i) = n - End(f, n, i) /\ n - End(f, n, i) \in Nat
    BY <1>1
  <2>3. t[i] = (v \div Pow2(n - End(f, n, i))) % Pow2(Width(f, n, i))
    BY <2>2 DEF ValueFromBytes
  <2>. HIDE DEF t
  <2>4. Pow2(n - End(f, n, i)) \in Nat \ {0} /\ Pow2(Width(f, n, i)) \in Nat \ {0}
    BY <1>1, <2>2, PowerOfSuccessor
  <2>5. v \div Pow2(n - End(f, n, i)) \in Nat
    BY <1>2, <2>4
  <2>. QED
    BY <2>3, <2>4, <2>5
<1>4. t \in Seq(Nat) /\ Len(t) = D
  <2>1. t = [i \in 1..D |-> t[i]]
    BY Zenon DEF ValueFromBytes
  <2>2. \A i \in 1..D : t[i] \in Nat
    <3>. HIDE DEF t, D
    <3>1. \A i \in 1..D : Pow2(Width(f, n, i)) \in Nat
      BY <1>1, PowerOfSuccessor
    <3>. QED
      BY <1>3, <3>1
  <2>. HIDE DEF t, D
  <2>. QED
    BY <1>1, <2>1, <2>2
<1>5. Ready(f, n, t)
  <2>. HIDE DEF t
  <2>1. \A i \in 1..D : t[i] < Pow2(Width(f, n, i))
    <3>1. TAKE i \in 1..D
    <3>2. Pow2(Width(f, n, i)) \in Nat
      BY <1>1, PowerOfSuccessor
    <3>. QED
      BY <1>3, <3>2
  <2>. QED
    BY <1>4, <2>1 DEF Ready
<1>. HIDE DEF t, D
<1>6. PICK u : u \in [0..Len(t) -> Nat] /\ SumsUpTo(u, f, n, t) /\ EntropyOf(f, n, t) = u[Len(t)]
  <2>1. Wide(f, n, t)
    BY <1>1, <1>4 DEF Wide
  <2>. QED
    BY <1>4, <2>1, EntropyCollected, Zenon
<1>. DEFINE S == {i \in 0..D : u[i] = v \div Pow2(n - End(f, n, i))}
<1>7. 0 \in S
  <2>1. u[0] = 0 /\ n - End(f, n, 0) = n /\ Pow2(n) \in Nat \ {0}
    BY <1>1, <1>6, PowerOfSuccessor DEF SumsUpTo
  <2>2. v \div Pow2(n) = 0
    BY <1>2, <2>1
  <2>. QED
    BY <1>1, <2>1, <2>2
<1>8. ASSUME NEW i \in 1..D, i - 1 \in S PROVE i \in S
  <2>. DEFINE W == Pow2(Width(f, n, i))
              P == Pow2(n - End(f, n, i))
              q == v \div P
  <2>1. W \in Nat \ {0} /\ P \in Nat \ {0}
    <3>1. Width(f, n, i) \in Nat /\ n - End(f, n, i) \in Nat
      BY <1>1
    <3>. QED
      BY <3>1, PowerOfSuccessor
  <2>2. Pow2(n - End(f, n, i - 1)) = P * W
    <3>1. n - End(f, n, i - 1) = (n - End(f, n, i)) + Width(f, n, i)
          /\ n - End(f, n, i) \in Nat /\ Width(f, n, i) \in Nat
      BY <1>1, SMTT(30)
    <3>. QED
      BY <3>1, PowerOfSum
  <2>3. u[i - 1] = v \div (P * W)
    BY <1>8, <2>2
  <2>4. t[i] = q % W
    BY <1>3
  <2>5. u[i] = u[i - 1] * W + t[i]
    BY <1>4, <1>6 DEF SumsUpTo
  <2>. HIDE DEF W, P
  <2>6. v \div (P * W) = q \div W
    BY <1>2, <2>1, DivisionTwice
  <2>7. q \in Nat
    BY <1>2, <2>1
  <2>8. u[i] = (q \div W) * W + (q % W)
    BY <2>3, <2>4, <2>5, <2>6
  <2>. HIDE DEF q
  <2>9. (q \div W) * W + (q % W) = q
    BY <2>1, <2>7
  <2>. QED
    BY <2>8, <2>9 DEF q, P
<1>. HIDE DEF S
<1>9. D \in S
  <2>1. D \in Nat
    BY <1>1
  <2>2. 0..D \subseteq S
    BY <2>1, <1>7, <1>8, UpTo
  <2>. QED
    BY <2>1, <2>2
<1>10. v \div Pow2(n - End(f, n, D)) = v
  <2>1. Pow2(n - End(f, n, D)) = 1
    BY <1>1, PowerOfSuccessor
  <2>. QED
    BY <1>2, <2>1
<1>. QED
  <2>1. EntropyOf(f, n, t) = v
    BY <1>4, <1>6, <1>9, <1>10 DEF S
  <2>. QED
    BY <1>4, <1>5, <2>1 DEF t

-----------------------------------------------------------------------------
(* Number bases: the texts kept in step *)

\* While the checkbox is on some base is the source.
SyncHasSource == sync => source # NoSource

BasesInv == NumberBasesTypeOK /\ SyncedAgree /\ SyncHasSource

LEMMA BasesInvInit ==
    ASSUME NumberBasesAssumption, NumberBasesInit
    PROVE  BasesInv
<1>1. NumberBasesTypeOK
  <2>1. <<>> \in Seq(Nat)
    OBVIOUS
  <2>2. fields \in [Formats -> Seq(Nat)]
    BY <2>1 DEF NumberBasesInit
  <2>. QED
    BY <2>2 DEF NumberBasesAssumption, NumberBasesInit, NumberBasesTypeOK
<1>. QED
  BY <1>1 DEF NumberBasesInit, BasesInv, SyncedAgree, SyncHasSource

Flag(b) == b \in BOOLEAN

\* What a sync leaves: the typed texts it was given, or, from a complete text
\* of the source, every base rewritten to one entropy.
SyncLeaves(f, n, fs, on, edit) ==
    /\ fields' \in [Formats -> Seq(Nat)] /\ sync' = on
    /\ source' \in Formats \cup {NoSource}
    /\ source' = IF on /\ edit THEN f ELSE source
    /\ synced' \in BOOLEAN /\ status' \in BOOLEAN
    /\ fields' = fs \/ (synced' /\ on /\ (edit \/ source = NoSource \/ source = f))
    /\ synced' => \/ fields' = fs /\ ~edit /\ synced
                  \/ \E v \in 0..(Pow2(n) - 1) : \A g \in Formats :
                       Ready(g, n, fields'[g]) /\ EntropyOf(g, n, fields'[g]) = v

LEMMA SyncEffect ==
    ASSUME NumberBasesAssumption, NumberBasesTypeOK, NEW f \in Formats, NEW n \in SeedBits,
           NEW fs \in [Formats -> Seq(Nat)], NEW on, NEW edit, Flag(on), Flag(edit),
           SyncNumberBases(f, n, fs, on, edit)
    PROVE  SyncLeaves(f, n, fs, on, edit)
<1>. DEFINE src == IF edit \/ source = NoSource THEN f ELSE source
            ok == on /\ src = f /\ Ready(f, n, fs[f])
            v == EntropyOf(f, n, fs[f])
<1>1. /\ sync' = on
      /\ source' = IF on /\ edit THEN f ELSE source
      /\ fields' = IF ok THEN [g \in Formats |-> ValueFromBytes(g, n, v)] ELSE fs
      /\ synced' = IF on /\ src # f THEN synced ELSE ok
      /\ status' = synced'
  BY Zenon DEF SyncNumberBases
<1>2. ok \in BOOLEAN
  BY DEF Ready
<1>3. n \in Nat /\ fs[f] \in Seq(Nat)
  BY DEF NumberBasesAssumption
<1>. source \in Formats \cup {NoSource} /\ synced \in BOOLEAN
  BY DEF NumberBasesTypeOK
<1>. on \in BOOLEAN /\ edit \in BOOLEAN
  BY DEF Flag
<1>. USE DEF SyncLeaves
<1>4. CASE ok
  <2>1. v \in 0..(Pow2(n) - 1)
    BY <1>3, <1>4, EntropyFits
  <2>. HIDE DEF v
  <2>2. \A g \in Formats : /\ ValueFromBytes(g, n, v) \in Seq(Nat)
                           /\ Ready(g, n, ValueFromBytes(g, n, v))
                           /\ EntropyOf(g, n, ValueFromBytes(g, n, v)) = v
    BY <1>3, <2>1, ConversionExact
  <2>3. /\ fields' \in [Formats -> Seq(Nat)]
        /\ \A g \in Formats : Ready(g, n, fields'[g]) /\ EntropyOf(g, n, fields'[g]) = v
    BY <1>1, <1>4, <2>2
  <2>4. synced' = TRUE
    BY <1>1, <1>4
  <2>. QED
    BY <1>1, <1>4, <2>1, <2>3, <2>4
<1>5. CASE ~ok
  <2>. HIDE DEF ok, v
  <2>1. fields' = fs /\ (synced' => on /\ src # f /\ synced)
    BY <1>1, <1>2, <1>5
  <2>. QED
    BY <1>1, <1>2, <2>1
<1>. QED
  BY <1>4, <1>5

\* A sync keeps the invariant when the texts are those there were, or an edit's.
LEMMA SyncKeepsInv ==
    ASSUME NumberBasesAssumption, BasesInv, NEW f \in Formats, NEW n \in SeedBits,
           NEW fs \in [Formats -> Seq(Nat)], NEW on, NEW edit, Flag(on), Flag(edit),
           SyncNumberBases(f, n, fs, on, edit),
           edit = TRUE \/ (fs = fields /\ on = sync), format' \in Formats, bits' \in SeedBits
    PROVE  BasesInv'
<1>1. SyncLeaves(f, n, fs, on, edit)
  BY SyncEffect, Zenon DEF BasesInv
<1>2. NumberBasesTypeOK'
  BY <1>1 DEF NumberBasesTypeOK, SyncLeaves, Flag
<1>3. SyncedAgree'
  <2>. SUFFICES ASSUME synced'
       PROVE  \E m \in SeedBits : \E v \in 0..(Pow2(m) - 1) : \A g \in Formats :
                Ready(g, m, fields'[g]) /\ EntropyOf(g, m, fields'[g]) = v
    BY Zenon DEF SyncedAgree
  <2>1. CASE fields' = fields /\ synced
    BY <2>1 DEF BasesInv, SyncedAgree
  <2>2. CASE \E v \in 0..(Pow2(n) - 1) : \A g \in Formats :
               Ready(g, n, fields'[g]) /\ EntropyOf(g, n, fields'[g]) = v
    BY <2>2, Zenon
  <2>. QED
    BY <1>1, <2>1, <2>2, Zenon DEF SyncLeaves
<1>4. SyncHasSource'
  <2>1. sync' = on /\ source' = IF on /\ edit THEN f ELSE source
    BY <1>1, Zenon DEF SyncLeaves
  <2>. QED
    BY <2>1 DEF BasesInv, SyncHasSource, NumberBasesAssumption, Flag
<1>. QED
  BY <1>2, <1>3, <1>4 DEF BasesInv

\* The syncs of the actions: what each is given.
LEMMA BasesCases ==
    ASSUME NumberBasesAssumption, NumberBasesTypeOK, NumberBasesNext
    PROVE  \/ /\ \E on : \E fs \in [Formats -> Seq(Nat)] :
                   /\ Flag(on) /\ SyncNumberBases(format, bits, fs, on, TRUE)
                   /\ \A f \in Formats : f # format => fs[f] = fields[f]
              /\ UNCHANGED <<format, bits>>
           \/ /\ format' \in Formats /\ bits' \in SeedBits
              /\ SyncNumberBases(format', bits', fields, sync, FALSE)
           \/ WipeNumberBases
<1>1. /\ format \in Formats /\ bits \in SeedBits /\ fields \in [Formats -> Seq(Nat)]
      /\ sync \in BOOLEAN /\ Flag(sync)
  BY DEF NumberBasesTypeOK, Flag
<1>2. CASE \E t \in Texts[format] : EditField(t)
  <2>1. PICK t \in Texts[format] : EditField(t)
    BY <1>2
  <2>. DEFINE fs == [fields EXCEPT ![format] = t]
  <2>2. t \in Seq(Nat)
    BY <1>1 DEF NumberBasesAssumption
  <2>3. fs \in [Formats -> Seq(Nat)] /\ \A f \in Formats : f # format => fs[f] = fields[f]
    BY <1>1, <2>2
  <2>4. SyncNumberBases(format, bits, fs, sync, TRUE) /\ UNCHANGED <<format, bits>>
    BY <2>1, Zenon DEF EditField
  <2>. HIDE DEF fs
  <2>. QED
    BY <1>1, <2>3, <2>4, Zenon
<1>3. CASE ToggleSync
  <2>1. SyncNumberBases(format, bits, fields, ~sync, TRUE) /\ UNCHANGED <<format, bits>>
    BY <1>3, Zenon DEF ToggleSync
  <2>2. Flag(~sync)
    BY <1>1 DEF Flag
  <2>. QED
    BY <1>1, <2>1, <2>2, Zenon
<1>4. CASE \E f \in Formats : SelectFormat(f)
  <2>1. PICK f \in Formats : SelectFormat(f)
    BY <1>4
  <2>2. format' = f /\ bits' = bits /\ SyncNumberBases(f, bits, fields, sync, FALSE)
    BY <2>1, Zenon DEF SelectFormat
  <2>. QED
    BY <1>1, <2>2, Zenon
<1>5. CASE \E n \in SeedBits : Redraw(n)
  <2>1. PICK n \in SeedBits : Redraw(n)
    BY <1>5
  <2>2. format' = format /\ bits' = n /\ SyncNumberBases(format, n, fields, sync, FALSE)
    BY <2>1, Zenon DEF Redraw
  <2>. QED
    BY <1>1, <2>2, Zenon
<1>. QED
  BY <1>2, <1>3, <1>4, <1>5, Zenon DEF NumberBasesNext

LEMMA BasesInvNext ==
    ASSUME NumberBasesAssumption, BasesInv, [NumberBasesNext]_nbVars
    PROVE  BasesInv'
<1>1. NumberBasesTypeOK /\ format \in Formats /\ bits \in SeedBits
      /\ fields \in [Formats -> Seq(Nat)] /\ sync \in BOOLEAN
      /\ Flag(sync) /\ Flag(TRUE) /\ Flag(FALSE)
  BY DEF BasesInv, NumberBasesTypeOK, Flag
<1>2. CASE /\ \E on : \E fs \in [Formats -> Seq(Nat)] :
                /\ Flag(on) /\ SyncNumberBases(format, bits, fs, on, TRUE)
                /\ \A f \in Formats : f # format => fs[f] = fields[f]
           /\ UNCHANGED <<format, bits>>
  <2>1. PICK on, fs :
          fs \in [Formats -> Seq(Nat)] /\ Flag(on) /\ SyncNumberBases(format, bits, fs, on, TRUE)
    BY <1>2, Zenon
  <2>2. format' \in Formats /\ bits' \in SeedBits
    BY <1>1, <1>2
  <2>. QED
    BY <1>1, <2>1, <2>2, SyncKeepsInv, Zenon
<1>3. CASE /\ format' \in Formats /\ bits' \in SeedBits
           /\ SyncNumberBases(format', bits', fields, sync, FALSE)
  BY <1>1, <1>3, SyncKeepsInv, Zenon
<1>4. CASE WipeNumberBases
  <2>1. <<>> \in Seq(Nat)
    OBVIOUS
  <2>2. fields' \in [Formats -> Seq(Nat)]
    BY <1>4, <2>1 DEF WipeNumberBases
  <2>3. NumberBasesTypeOK'
    BY <1>4, <2>2 DEF WipeNumberBases, NumberBasesTypeOK, NumberBasesAssumption
  <2>. QED
    BY <1>4, <2>3 DEF WipeNumberBases, BasesInv, SyncedAgree, SyncHasSource
<1>5. CASE UNCHANGED nbVars
  BY <1>5 DEF nbVars, BasesInv, NumberBasesTypeOK, SyncedAgree, SyncHasSource
<1>. QED
  BY <1>1, <1>2, <1>3, <1>4, <1>5, BasesCases, Zenon

LEMMA BasesInvariant == NumberBasesSpec => []BasesInv
<1>1. NumberBasesInit => BasesInv
  BY BasesInvInit, NumberBasesAssumption
<1>2. BasesInv /\ [NumberBasesNext]_nbVars => BasesInv'
  BY BasesInvNext, NumberBasesAssumption
<1>. QED
  BY <1>1, <1>2, PTL DEF NumberBasesSpec

\* A complete text of the base on screen survives every conversion and back.
LEMMA ConversionsKeep ==
    ASSUME NumberBasesAssumption, NumberBasesTypeOK
    PROVE  ConversionsKeepEntropy
<1>. DEFINE v == EntropyOf(format, bits, fields[format])
<1>. SUFFICES ASSUME Ready(format, bits, fields[format])
     PROVE  \A f \in Formats : /\ Ready(f, bits, ValueFromBytes(f, bits, v))
                               /\ EntropyOf(f, bits, ValueFromBytes(f, bits, v)) = v
  BY Zenon DEF ConversionsKeepEntropy
<1>1. format \in Formats /\ bits \in Nat /\ fields[format] \in Seq(Nat)
  BY DEF NumberBasesTypeOK, NumberBasesAssumption
<1>2. v \in 0..(Pow2(bits) - 1)
  BY <1>1, EntropyFits
<1>. HIDE DEF v
<1>. QED
  BY <1>1, <1>2, ConversionExact

\* One step rewrites a field out of sight only from the source.
OnlySource ==
    \A f \in Formats : fields'[f] # fields[f] =>
        \/ f = format' /\ UNCHANGED <<format, bits>>
        \/ synced' /\ source' = format' /\ (source' = source \/ UNCHANGED <<format, bits>>)
        \/ WipeNumberBases

LEMMA SourceRewrites ==
    ASSUME NumberBasesAssumption, BasesInv, [NumberBasesNext]_nbVars
    PROVE  [OnlySource]_nbVars
<1>1. NumberBasesTypeOK /\ format \in Formats /\ bits \in SeedBits
      /\ fields \in [Formats -> Seq(Nat)] /\ sync \in BOOLEAN
      /\ Flag(sync) /\ Flag(TRUE) /\ Flag(FALSE)
  BY DEF BasesInv, NumberBasesTypeOK, Flag
\* An edit, or the checkbox, makes the base on screen the source.
<1>2. CASE /\ \E on : \E fs \in [Formats -> Seq(Nat)] :
                /\ Flag(on) /\ SyncNumberBases(format, bits, fs, on, TRUE)
                /\ \A f \in Formats : f # format => fs[f] = fields[f]
           /\ UNCHANGED <<format, bits>>
  <2>1. PICK on, fs :
          /\ fs \in [Formats -> Seq(Nat)]
          /\ Flag(on) /\ SyncNumberBases(format, bits, fs, on, TRUE)
          /\ \A f \in Formats : f # format => fs[f] = fields[f]
    BY <1>2, Zenon
  <2>2. SyncLeaves(format, bits, fs, on, TRUE)
    BY <1>1, <2>1, SyncEffect, Zenon
  <2>3. fields' = fs \/ (synced' /\ on /\ source' = format)
    BY <2>2 DEF SyncLeaves
  <2>. QED
    BY <1>2, <2>1, <2>3 DEF OnlySource
\* Showing another base or length rewrites only from the source there was.
<1>3. CASE /\ format' \in Formats /\ bits' \in SeedBits
           /\ SyncNumberBases(format', bits', fields, sync, FALSE)
  <2>1. SyncLeaves(format', bits', fields, sync, FALSE)
    BY <1>1, <1>3, SyncEffect, Zenon
  <2>2. /\ source' = source
        /\ fields' = fields \/ (synced' /\ sync /\ (source = NoSource \/ source = format'))
    BY <2>1 DEF SyncLeaves
  <2>. QED
    BY <2>2 DEF OnlySource, BasesInv, SyncHasSource
<1>4. CASE WipeNumberBases
  BY <1>4, Zenon DEF OnlySource
<1>. QED
  BY <1>1, <1>2, <1>3, <1>4, BasesCases, Zenon

\* The fields stay texts of digits and the source a base, or none
\* (hodlSyncNumberBases).
THEOREM BasesTyped == NumberBasesSpec => []NumberBasesTypeOK
<1>1. BasesInv => NumberBasesTypeOK
  BY DEF BasesInv
<1>. QED
  BY <1>1, BasesInvariant, PTL

\* Bases said to be in step hold one entropy, for every set of bases and every
\* seed length, whatever bits remain for the last digits (hodlSyncNumberBases).
THEOREM SyncedBasesAgree == NumberBasesSpec => []SyncedAgree
<1>1. BasesInv => SyncedAgree
  BY DEF BasesInv
<1>. QED
  BY <1>1, BasesInvariant, PTL

\* No conversion between bases loses entropy, full last digit or not
\* (hodlNumberBaseEntropy, hodlNumberBaseValueFromBytes).
THEOREM ConversionsAreExact == NumberBasesSpec => []ConversionsKeepEntropy
<1>1. BasesInv => ConversionsKeepEntropy
  BY ConversionsKeep, NumberBasesAssumption DEF BasesInv
<1>. QED
  BY <1>1, BasesInvariant, PTL

\* Only the base edited last rewrites the others, however the panel is drawn
\* again in between (hodlRestoreKey, hodlSetSeedLength).
THEOREM OnlyEditedBaseRewrites == NumberBasesSpec => OnlySourceRewrites
<1>1. BasesInv /\ [NumberBasesNext]_nbVars
        => [ \A f \in Formats : fields'[f] # fields[f] =>
               \/ f = format' /\ UNCHANGED <<format, bits>>
               \/ synced' /\ source' = format' /\ (source' = source \/ UNCHANGED <<format, bits>>)
               \/ WipeNumberBases ]_nbVars
  BY SourceRewrites, NumberBasesAssumption DEF OnlySource
<1>. QED
  BY <1>1, BasesInvariant, PTL DEF NumberBasesSpec, OnlySourceRewrites

-----------------------------------------------------------------------------
(* Draws and the text they stand in *)

DrawsUpTo(u, t) ==
    /\ u[0] = <<>>
    /\ \A i \in 1..Len(t) :
         u[i] = IF t[i] = Blank THEN u[i - 1] ELSE Append(u[i - 1], t[i])

\* The draws of a text are collected character by character.
LEMMA DrawsCollected ==
    ASSUME NEW D, NEW t \in Seq(D \cup {Blank})
    PROVE  \E u \in [0..Len(t) -> Seq(D)] : DrawsUpTo(u, t) /\ Draws(t) = u[Len(t)]
<1>. DEFINE n == Len(t)
            V == Seq(D)
            step(q, i) == IF t[i] = Blank THEN q ELSE Append(q, t[i])
            F == [p \in V \X (1..n) |-> step(p[1], p[2])]
            Fixed(f) == f = [i \in 0..n |-> IF i = 0 THEN <<>> ELSE step(f[i - 1], i)]
            upTo == CHOOSE f : Fixed(f)
<1>1. Draws(t) = upTo[n]
  BY Zenon DEF Draws
<1>2. n \in Nat /\ <<>> \in V
  OBVIOUS
<1>3. \A q \in V, i \in 1..n : step(q, i) \in V
  <2>1. TAKE q \in V, i \in 1..n
  <2>2. t[i] \in D \cup {Blank}
    OBVIOUS
  <2>. QED
    BY <2>2, AppendTyped
<1>4. F \in StepFunctions(V, n)
  <2>. HIDE DEF V, step
  <2>. QED
    BY <1>3 DEF StepFunctions
<1>5. PICK u : BuiltBy(u, V, <<>>, F, n)
  <2>. HIDE DEF V, F, n
  <2>. QED
    BY <1>2, <1>4, StepsExist
<1>6. u \in [0..n -> V] /\ u[0] = <<>> /\ \A i \in 1..n : u[i] = F[<<u[i - 1], i>>]
  BY <1>5, Zenon DEF BuiltBy
<1>7. \A i \in 1..n : u[i - 1] \in V /\ u[i] = step(u[i - 1], i)
  <2>1. TAKE i \in 1..n
  <2>2. i - 1 \in 0..n
    BY <1>2
  <2>3. u[i - 1] \in V
    BY <1>6, <2>2
  <2>. HIDE DEF V, step, n
  <2>. QED
    BY <1>6, <2>3
<1>8. Fixed(u)
  <2>1. u = [i \in 0..n |-> u[i]]
    BY <1>6
  <2>2. \A i \in 0..n : u[i] = IF i = 0 THEN <<>> ELSE step(u[i - 1], i)
    <3>. HIDE DEF step, V, n
    <3>. QED
      BY <1>2, <1>6, <1>7
  <2>. HIDE DEF V, n, step
  <2>. QED
    BY <2>1, <2>2
<1>9. Fixed(upTo)
  <2>. HIDE DEF Fixed
  <2>. QED
    BY <1>8, Zenon
<1>10. \A i \in 0..n : upTo[i] = u[i]
  <2>1. upTo[0] = <<>> /\ \A i \in 1..n : upTo[i] = step(upTo[i - 1], i)
    <3>. HIDE DEF upTo, step, n, V
    <3>. QED
      BY <1>2, <1>9
  <2>. HIDE DEF upTo, step, V, Fixed, n
  <2>2. \A i \in 1..n : upTo[i - 1] = u[i - 1] => upTo[i] = u[i]
    BY <1>7, <2>1
  <2>3. SameSteps(upTo, u, n)
    BY <1>6, <2>1, <2>2 DEF SameSteps
  <2>. QED
    BY <1>2, <2>3, StepsAgree
<1>11. Draws(t) = u[n] /\ DrawsUpTo(u, t)
  <2>1. n \in 0..n
    BY <1>2
  <2>. HIDE DEF upTo
  <2>. QED
    BY <1>1, <1>6, <1>7, <1>10, <2>1 DEF DrawsUpTo
<1>. QED
  BY <1>11, <1>6

LEMMA DrawsTyped ==
    ASSUME NEW D, NEW t \in Seq(D \cup {Blank})
    PROVE  Draws(t) \in Seq(D)
<1>1. PICK u \in [0..Len(t) -> Seq(D)] : Draws(t) = u[Len(t)]
  BY DrawsCollected
<1>2. Len(t) \in 0..Len(t)
  OBVIOUS
<1>. QED
  BY <1>1, <1>2

LEMMA DrawsOfNothing == Draws(<<>>) = <<>>
<1>1. <<>> \in Seq({} \cup {Blank}) /\ Len(<<>>) = 0
  OBVIOUS
<1>2. PICK u \in [0..Len(<<>>) -> Seq({})] : DrawsUpTo(u, <<>>) /\ Draws(<<>>) = u[Len(<<>>)]
  BY <1>1, DrawsCollected, Zenon
<1>. QED
  BY <1>1, <1>2 DEF DrawsUpTo

SameUpTo(s, t, k) == k <= Len(s) /\ k <= Len(t) /\ \A i \in 1..k : s[i] = t[i]

\* As far as two texts are the same, so are their draws.
LEMMA DrawsOfSameStart ==
    ASSUME NEW s, Len(s) \in Nat, NEW t, Len(t) \in Nat,
           NEW k \in Nat, SameUpTo(s, t, k),
           NEW u, DrawsUpTo(u, s), NEW w, DrawsUpTo(w, t)
    PROVE  u[k] = w[k]
<1>1. u[0] = w[0]
  BY DEF DrawsUpTo
<1>2. ASSUME NEW i \in 1..k, u[i - 1] = w[i - 1] PROVE u[i] = w[i]
  <2>1. i \in 1..Len(s) /\ i \in 1..Len(t) /\ s[i] = t[i]
    BY DEF SameUpTo
  <2>2. u[i] = IF s[i] = Blank THEN u[i - 1] ELSE Append(u[i - 1], s[i])
    BY <2>1 DEF DrawsUpTo
  <2>3. w[i] = IF t[i] = Blank THEN w[i - 1] ELSE Append(w[i - 1], t[i])
    BY <2>1 DEF DrawsUpTo
  <2>. QED
    BY <1>2, <2>1, <2>2, <2>3, Zenon
<1>3. SameSteps(u, w, k)
  BY <1>1, <1>2 DEF SameSteps
<1>4. \A i \in 0..k : u[i] = w[i]
  BY <1>3, StepsAgree
<1>. QED
  BY <1>4

\* A text has no fewer draws than its beginning.
LEMMA DrawsOfPrefix ==
    ASSUME NEW D, NEW t \in Seq(D \cup {Blank}), NEW k \in 0..Len(t)
    PROVE  Len(Draws(SubSeq(t, 1, k))) \in 0..Len(Draws(t))
<1>. DEFINE s == SubSeq(t, 1, k)
<1>1. s \in Seq(D \cup {Blank}) /\ Len(s) = k /\ \A i \in 1..k : s[i] = t[i]
  OBVIOUS
<1>. HIDE DEF s
<1>2. PICK u \in [0..Len(t) -> Seq(D)] : DrawsUpTo(u, t) /\ Draws(t) = u[Len(t)]
  BY DrawsCollected
<1>3. PICK w \in [0..Len(s) -> Seq(D)] : DrawsUpTo(w, s) /\ Draws(s) = w[Len(s)]
  BY <1>1, DrawsCollected
<1>4. Draws(s) = u[k]
  <2>1. k \in Nat /\ SameUpTo(s, t, k) /\ Len(s) \in Nat /\ Len(t) \in Nat
    BY <1>1 DEF SameUpTo
  <2>2. w[k] = u[k]
    BY <1>2, <1>3, <2>1, DrawsOfSameStart
  <2>. QED
    BY <1>1, <1>3, <2>2
<1>. DEFINE S == {i \in 0..(Len(t) - k) : Len(u[k]) <= Len(u[k + i])}
            rest == Len(t) - k
<1>5. \A i \in 0..Len(t) : u[i] \in Seq(D) /\ Len(u[i]) \in Nat
  OBVIOUS
<1>6. 0 \in S
  BY <1>5
<1>7. ASSUME NEW i \in 1..rest, i - 1 \in S PROVE i \in S
  <2>1. k + i \in 1..Len(t) /\ k + i \in 0..Len(t) /\ k + (i - 1) \in 0..Len(t) /\ k + (i - 1) = (k + i) - 1
    OBVIOUS
  <2>2. Len(u[k]) <= Len(u[k + (i - 1)])
    BY <1>7
  <2>3. u[k + i] = IF t[k + i] = Blank THEN u[(k + i) - 1] ELSE Append(u[(k + i) - 1], t[k + i])
    BY <1>2, <2>1, Zenon DEF DrawsUpTo
  <2>4. Len(u[k + (i - 1)]) <= Len(u[k + i])
    <3>1. CASE t[k + i] = Blank
      BY <1>5, <2>1, <2>3, <3>1
    <3>2. CASE t[k + i] # Blank
      <4>1. t[k + i] \in D
        BY <2>1, <3>2
      <4>2. Len(u[k + i]) = Len(u[(k + i) - 1]) + 1
        BY <1>5, <2>1, <2>3, <3>2, <4>1, AppendTyped
      <4>. QED
        BY <1>5, <2>1, <4>2
    <3>. QED
      BY <3>1, <3>2
  <2>. QED
    BY <1>5, <2>1, <2>2, <2>4
<1>8. rest \in Nat /\ 0..rest \subseteq S
  <2>1. rest \in Nat
    OBVIOUS
  <2>. HIDE DEF S, rest
  <2>. QED
    BY <1>6, <1>7, <2>1, UpTo
<1>9. Len(u[k]) <= Len(u[Len(t)])
  <2>1. k + rest = Len(t)
    OBVIOUS
  <2>2. rest \in S
    <3>. HIDE DEF rest, S
    <3>. QED
      BY <1>8
  <2>. QED
    BY <2>1, <2>2
<1>. QED
  BY <1>2, <1>4, <1>5, <1>9 DEF s

LEMMA DrawsOfAppend ==
    ASSUME NEW D, NEW t \in Seq(D \cup {Blank}), NEW x \in D \cup {Blank}
    PROVE  Draws(Append(t, x)) = IF x = Blank THEN Draws(t) ELSE Append(Draws(t), x)
<1>. DEFINE s == Append(t, x)
            n == Len(t)
<1>1. /\ s \in Seq(D \cup {Blank}) /\ Len(s) = n + 1 /\ s[n + 1] = x
      /\ \A i \in 1..n : s[i] = t[i]
  OBVIOUS
<1>. HIDE DEF s
<1>2. PICK u \in [0..Len(t) -> Seq(D)] : DrawsUpTo(u, t) /\ Draws(t) = u[Len(t)]
  BY DrawsCollected
<1>3. PICK w \in [0..Len(s) -> Seq(D)] : DrawsUpTo(w, s) /\ Draws(s) = w[Len(s)]
  BY <1>1, DrawsCollected
<1>4. /\ n \in Nat /\ Len(s) \in Nat /\ Len(t) \in Nat /\ SameUpTo(s, t, n)
      /\ n + 1 \in 1..Len(s) /\ (n + 1) - 1 = n
  BY <1>1 DEF SameUpTo
<1>. HIDE DEF n
<1>5. w[n] = u[n]
  BY <1>2, <1>3, <1>4, DrawsOfSameStart
<1>6. w[n + 1] = IF s[n + 1] = Blank THEN w[(n + 1) - 1] ELSE Append(w[(n + 1) - 1], s[n + 1])
  BY <1>3, <1>4, Zenon DEF DrawsUpTo
<1>7. Draws(s) = w[n + 1] /\ Draws(t) = u[n]
  BY <1>1, <1>2, <1>3 DEF n
<1>8. Draws(s) = IF x = Blank THEN Draws(t) ELSE Append(Draws(t), x)
  BY <1>1, <1>4, <1>5, <1>6, <1>7, Zenon
<1>. QED
  BY <1>8 DEF s

LEMMA ConcatPiece ==
    ASSUME NEW S, NEW q \in Seq(S), NEW x \in S, NEW y \in S
    PROVE  q \o <<x>> = Append(q, x) /\ q \o <<x, y>> = Append(Append(q, x), y)
<1>1. q \o <<x>> = Append(q, x)
  OBVIOUS
<1>2. /\ Append(q, x) \in Seq(S) /\ Len(Append(q, x)) = Len(q) + 1
      /\ Append(q, x)[Len(q) + 1] = x /\ \A i \in 1..Len(q) : Append(q, x)[i] = q[i]
  OBVIOUS
<1>. DEFINE a == Append(q, x)
<1>. HIDE DEF a
<1>3. /\ Append(a, y) \in Seq(S) /\ Len(Append(a, y)) = Len(a) + 1
      /\ Append(a, y)[Len(a) + 1] = y /\ \A i \in 1..Len(a) : Append(a, y)[i] = a[i]
  BY <1>2 DEF a
<1>4. /\ q \o <<x, y>> \in Seq(S) /\ Len(q \o <<x, y>>) = Len(q) + 2
      /\ (q \o <<x, y>>)[Len(q) + 1] = x /\ (q \o <<x, y>>)[Len(q) + 2] = y
      /\ \A i \in 1..Len(q) : (q \o <<x, y>>)[i] = q[i]
  OBVIOUS
<1>5. q \o <<x, y>> = Append(a, y)
  BY <1>2, <1>3, <1>4 DEF a
<1>. QED
  BY <1>1, <1>5 DEF a

LEMMA SubSeqGrows ==
    ASSUME NEW S, NEW q \in Seq(S), NEW i \in 1..Len(q)
    PROVE  SubSeq(q, 1, i) = Append(SubSeq(q, 1, i - 1), q[i])
OBVIOUS

LEMMA FrontTyped ==
    ASSUME NEW S, NEW q \in Seq(S)
    PROVE  Front(q) \in Seq(S)
<1>1. CASE Len(q) = 0
  <2>1. SubSeq(q, 1, Len(q) - 1) = <<>>
    BY <1>1
  <2>. QED
    BY <2>1 DEF Front
<1>2. CASE Len(q) # 0
  BY <1>2 DEF Front
<1>. QED
  BY <1>1, <1>2

Piece(m, l, draws, i) ==
    IF SeparatorBefore(m, l, draws, i) THEN <<Blank, draws[i]>> ELSE <<draws[i]>>
SpelledUpTo(u, D, m, l, draws) ==
    /\ u \in [0..Len(draws) -> Seq(D \cup {Blank})] /\ u[0] = <<>>
    /\ \A i \in 1..Len(draws) : u[i] = u[i - 1] \o Piece(m, l, draws, i)

LEMMA ConcatTyped ==
    ASSUME NEW S, NEW s \in Seq(S), NEW t \in Seq(S)
    PROVE  s \o t \in Seq(S) /\ Len(s \o t) = Len(s) + Len(t)
OBVIOUS

LEMMA ConcatBegins ==
    ASSUME NEW S, NEW s \in Seq(S), NEW t \in Seq(S)
    PROVE  \A i \in 1..Len(s) : (s \o t)[i] = s[i]
OBVIOUS

LEMMA ConcatAppend ==
    ASSUME NEW S, NEW a \in Seq(S), NEW b \in Seq(S), NEW x \in S
    PROVE  a \o Append(b, x) = Append(a \o b, x)
OBVIOUS

\* The draws of two texts in a row.
LEMMA DrawsOfConcat ==
    ASSUME NEW D, NEW s \in Seq(D \cup {Blank}), NEW t \in Seq(D \cup {Blank})
    PROVE  Draws(s \o t) = Draws(s) \o Draws(t)
<1>. DEFINE n == Len(t)
            S == {i \in 0..n : Draws(s \o SubSeq(t, 1, i)) = Draws(s) \o Draws(SubSeq(t, 1, i))}
<1>1. Draws(s) \in Seq(D)
  BY DrawsTyped
<1>2. 0 \in S
  <2>1. SubSeq(t, 1, 0) = <<>> /\ s \o <<>> = s /\ Draws(s) \o <<>> = Draws(s) /\ 0 \in 0..n
    BY <1>1
  <2>. QED
    BY <2>1, DrawsOfNothing
<1>3. ASSUME NEW i \in 1..n, i - 1 \in S PROVE i \in S
  <2>. DEFINE p == SubSeq(t, 1, i - 1)
              x == t[i]
  <2>1. /\ p \in Seq(D \cup {Blank}) /\ x \in D \cup {Blank}
        /\ Draws(s \o p) = Draws(s) \o Draws(p)
    BY <1>3
  <2>2. SubSeq(t, 1, i) = Append(p, x)
    BY SubSeqGrows
  <2>. HIDE DEF p, x
  <2>3. Draws(p) \in Seq(D)
    BY <2>1, DrawsTyped
  <2>4. s \o p \in Seq(D \cup {Blank})
    BY <2>1, ConcatTyped
  <2>5. s \o Append(p, x) = Append(s \o p, x)
    BY <2>1, ConcatAppend
  <2>6. Draws(Append(s \o p, x)) = IF x = Blank THEN Draws(s \o p) ELSE Append(Draws(s \o p), x)
    BY <2>1, <2>4, DrawsOfAppend
  <2>7. Draws(Append(p, x)) = IF x = Blank THEN Draws(p) ELSE Append(Draws(p), x)
    BY <2>1, DrawsOfAppend
  <2>8. x # Blank => Draws(s) \o Append(Draws(p), x) = Append(Draws(s) \o Draws(p), x)
    BY <1>1, <2>1, <2>3, ConcatAppend
  <2>9. Draws(s \o SubSeq(t, 1, i)) = Draws(s) \o Draws(SubSeq(t, 1, i))
    BY <2>1, <2>2, <2>5, <2>6, <2>7, <2>8, Zenon
  <2>. QED
    BY <2>9
<1>4. n \in Nat /\ n \in 0..n /\ SubSeq(t, 1, n) = t
  OBVIOUS
<1>5. n \in S
  <2>. HIDE DEF S, n
  <2>1. 0..n \subseteq S
    BY <1>2, <1>3, <1>4, UpTo
  <2>. QED
    BY <1>4, <2>1
<1>. QED
  BY <1>4, <1>5

LEMMA SplitAt ==
    ASSUME NEW S, NEW t \in Seq(S), NEW k \in 0..Len(t)
    PROVE  /\ SubSeq(t, 1, k) \in Seq(S) /\ Len(SubSeq(t, 1, k)) = k
           /\ SubSeq(t, k + 1, Len(t)) \in Seq(S) /\ Len(SubSeq(t, k + 1, Len(t))) = Len(t) - k
           /\ SubSeq(t, 1, k) \o SubSeq(t, k + 1, Len(t)) = t
           /\ \A i \in 1..k : SubSeq(t, 1, k)[i] = t[i]
<1>1. /\ SubSeq(t, 1, k) \in Seq(S) /\ Len(SubSeq(t, 1, k)) = k
      /\ \A i \in 1..k : SubSeq(t, 1, k)[i] = t[i]
  OBVIOUS
<1>2. /\ SubSeq(t, k + 1, Len(t)) \in Seq(S) /\ Len(SubSeq(t, k + 1, Len(t))) = Len(t) - k
      /\ \A i \in 1..(Len(t) - k) : SubSeq(t, k + 1, Len(t))[i] = t[k + i]
  OBVIOUS
<1>3. SubSeq(t, 1, k) \o SubSeq(t, k + 1, Len(t)) = t
  <2>. DEFINE p == SubSeq(t, 1, k)
              q == SubSeq(t, k + 1, Len(t))
  <2>1. /\ p \in Seq(S) /\ Len(p) = k /\ \A i \in 1..k : p[i] = t[i]
        /\ q \in Seq(S) /\ Len(q) = Len(t) - k /\ \A i \in 1..(Len(t) - k) : q[i] = t[k + i]
    BY <1>1, <1>2
  <2>. HIDE DEF p, q
  <2>. DEFINE w == p \o q
  <2>2. /\ w \in Seq(S) /\ Len(w) = Len(t)
        /\ \A i \in 1..k : w[i] = p[i]
        /\ \A i \in 1..(Len(t) - k) : w[k + i] = q[i]
    BY <2>1
  <2>. HIDE DEF w
  <2>3. ASSUME NEW i \in 1..Len(t) PROVE w[i] = t[i]
    <3>1. CASE i <= k
      BY <2>1, <2>2, <3>1
    <3>2. CASE i > k
      <4>1. PICK j \in 1..(Len(t) - k) : k + j = i
        <5>1. i - k \in 1..(Len(t) - k) /\ k + (i - k) = i
          BY <3>2
        <5>. QED
          BY <5>1
      <4>2. w[k + j] = q[j] /\ q[j] = t[k + j]
        BY <2>1, <2>2
      <4>. QED
        BY <4>1, <4>2
    <3>. QED
      BY <3>1, <3>2
  <2>4. w = t
    BY <2>2, <2>3
  <2>. QED
    BY <2>4 DEF w, p, q
<1>. QED
  BY <1>1, <1>2, <1>3

LEMMA PieceTyped ==
    ASSUME NEW D, NEW draws \in Seq(D), NEW i \in 1..Len(draws), NEW m, NEW l
    PROVE  Piece(m, l, draws, i) \in Seq(D \cup {Blank})
<1>1. draws[i] \in D
  OBVIOUS
<1>2. \A x \in D : <<x>> \in Seq(D \cup {Blank}) /\ <<Blank, x>> \in Seq(D \cup {Blank})
  OBVIOUS
<1>. QED
  BY <1>1, <1>2 DEF Piece

\* The text is put together draw by draw.
LEMMA CleanSpelled ==
    ASSUME NEW D, NEW draws \in Seq(D), NEW m, NEW l
    PROVE  \E u : SpelledUpTo(u, D, m, l, draws) /\ Clean(m, l, draws) = u[Len(draws)]
<1>. DEFINE n == Len(draws)
            V == Seq(D \cup {Blank})
            step(q, i) == q \o Piece(m, l, draws, i)
            F == [p \in V \X (1..n) |-> step(p[1], p[2])]
            Fixed(f) == f = [i \in 0..n |-> IF i = 0 THEN <<>> ELSE step(f[i - 1], i)]
            upTo == CHOOSE f : Fixed(f)
<1>1. Clean(m, l, draws) = upTo[n]
  BY Zenon DEF Clean, Piece
<1>2. n \in Nat /\ <<>> \in V
  OBVIOUS
<1>3. \A q \in V, i \in 1..n : step(q, i) \in V
  BY PieceTyped, ConcatTyped
<1>4. F \in StepFunctions(V, n)
  <2>. HIDE DEF V, step
  <2>. QED
    BY <1>3 DEF StepFunctions
<1>5. PICK u : BuiltBy(u, V, <<>>, F, n)
  <2>. HIDE DEF V, F, n
  <2>. QED
    BY <1>2, <1>4, StepsExist
<1>6. u \in [0..n -> V] /\ u[0] = <<>> /\ \A i \in 1..n : u[i] = F[<<u[i - 1], i>>]
  BY <1>5, Zenon DEF BuiltBy
<1>7. \A i \in 1..n : u[i - 1] \in V /\ u[i] = step(u[i - 1], i)
  <2>1. TAKE i \in 1..n
  <2>2. i - 1 \in 0..n
    BY <1>2
  <2>3. u[i - 1] \in V
    BY <1>6, <2>2
  <2>. HIDE DEF V, step, n
  <2>. QED
    BY <1>6, <2>3
<1>8. Fixed(u)
  <2>1. u = [i \in 0..n |-> u[i]]
    BY <1>6
  <2>2. \A i \in 0..n : u[i] = IF i = 0 THEN <<>> ELSE step(u[i - 1], i)
    <3>. HIDE DEF step, V, n
    <3>. QED
      BY <1>2, <1>6, <1>7
  <2>. HIDE DEF V, n, step
  <2>. QED
    BY <2>1, <2>2
<1>9. Fixed(upTo)
  <2>. HIDE DEF Fixed
  <2>. QED
    BY <1>8, Zenon
<1>10. \A i \in 0..n : upTo[i] = u[i]
  <2>1. upTo[0] = <<>> /\ \A i \in 1..n : upTo[i] = step(upTo[i - 1], i)
    <3>. HIDE DEF upTo, step, n, V
    <3>. QED
      BY <1>2, <1>9
  <2>. HIDE DEF upTo, step, V, Fixed, n
  <2>2. \A i \in 1..n : upTo[i - 1] = u[i - 1] => upTo[i] = u[i]
    BY <1>7, <2>1
  <2>3. SameSteps(upTo, u, n)
    BY <1>6, <2>1, <2>2 DEF SameSteps
  <2>. QED
    BY <1>2, <2>3, StepsAgree
<1>11. Clean(m, l, draws) = u[n] /\ SpelledUpTo(u, D, m, l, draws)
  <2>1. n \in 0..n
    BY <1>2
  <2>. HIDE DEF upTo
  <2>. QED
    BY <1>1, <1>6, <1>7, <1>10, <2>1 DEF SpelledUpTo
<1>. QED
  BY <1>11, <1>6

LEMMA CleanTyped ==
    ASSUME NEW D, NEW draws \in Seq(D), NEW m, NEW l
    PROVE  Clean(m, l, draws) \in Seq(D \cup {Blank})
<1>1. PICK u : SpelledUpTo(u, D, m, l, draws) /\ Clean(m, l, draws) = u[Len(draws)]
  BY CleanSpelled
<1>2. Len(draws) \in 0..Len(draws)
  OBVIOUS
<1>. QED
  BY <1>1, <1>2 DEF SpelledUpTo

LEMMA CleanOfNothing == ASSUME NEW m, NEW l PROVE Clean(m, l, <<>>) = <<>>
<1>1. <<>> \in Seq({}) /\ Len(<<>>) = 0
  OBVIOUS
<1>2. PICK u : SpelledUpTo(u, {}, m, l, <<>>) /\ Clean(m, l, <<>>) = u[Len(<<>>)]
  BY <1>1, CleanSpelled, Zenon
<1>. QED
  BY <1>1, <1>2 DEF SpelledUpTo

\* Putting a text in order neither loses, adds nor moves a draw.
LEMMA DrawsOfClean ==
    ASSUME NEW D, Blank \notin D, NEW draws \in Seq(D), NEW m, NEW l
    PROVE  Draws(Clean(m, l, draws)) = draws
<1>. DEFINE n == Len(draws)
<1>1. PICK u : SpelledUpTo(u, D, m, l, draws) /\ Clean(m, l, draws) = u[n]
  BY CleanSpelled
<1>. DEFINE S == {i \in 0..n : Draws(u[i]) = SubSeq(draws, 1, i)}
<1>2. 0 \in S
  <2>1. u[0] = <<>>
    BY <1>1, Zenon DEF SpelledUpTo
  <2>2. SubSeq(draws, 1, 0) = <<>> /\ 0 \in 0..n
    OBVIOUS
  <2>3. Draws(u[0]) = SubSeq(draws, 1, 0)
    BY <2>1, <2>2, DrawsOfNothing, Zenon
  <2>. QED
    BY <2>2, <2>3
<1>3. ASSUME NEW i \in 1..n, i - 1 \in S PROVE i \in S
  <2>. DEFINE q == u[i - 1]
              x == draws[i]
  <2>1. q \in Seq(D \cup {Blank}) /\ x \in D
    <3>1. i - 1 \in 0..n
      OBVIOUS
    <3>2. x \in D
      OBVIOUS
    <3>3. u \in [0..n -> Seq(D \cup {Blank})]
      BY <1>1, Zenon DEF SpelledUpTo
    <3>. QED
      BY <3>1, <3>2, <3>3
  <2>2. u[i] = q \o Piece(m, l, draws, i)
    BY <1>1, Zenon DEF SpelledUpTo
  <2>3. Piece(m, l, draws, i) = <<Blank, x>> \/ Piece(m, l, draws, i) = <<x>>
    BY DEF Piece
  <2>4. Draws(q) = SubSeq(draws, 1, i - 1)
    BY <1>3
  <2>. HIDE DEF q, x
  <2>5. x # Blank /\ x \in D \cup {Blank} /\ Blank \in D \cup {Blank}
    BY <2>1
  <2>6. q \o <<Blank, x>> = Append(Append(q, Blank), x) /\ q \o <<x>> = Append(q, x)
    BY <2>1, <2>5, ConcatPiece
  <2>7. Draws(Append(q, Blank)) = Draws(q) /\ Append(q, Blank) \in Seq(D \cup {Blank})
    BY <2>1, <2>5, DrawsOfAppend, AppendTyped
  <2>8. /\ Draws(Append(q, x)) = Append(Draws(q), x)
        /\ Draws(Append(Append(q, Blank), x)) = Append(Draws(q), x)
    BY <2>1, <2>5, <2>7, DrawsOfAppend, ZenonT(30)
  <2>9. Draws(u[i]) = Append(Draws(q), x)
    BY <2>2, <2>3, <2>6, <2>8
  <2>10. SubSeq(draws, 1, i) = Append(SubSeq(draws, 1, i - 1), x)
    BY SubSeqGrows DEF x
  <2>11. Draws(u[i]) = SubSeq(draws, 1, i)
    BY <2>4, <2>9, <2>10
  <2>. QED
    BY <2>11
<1>4. n \in S
  <2>1. n \in Nat /\ n \in 0..n
    OBVIOUS
  <2>. HIDE DEF S, n
  <2>2. 0..n \subseteq S
    BY <1>2, <1>3, <2>1, UpTo
  <2>. QED
    BY <2>1, <2>2
<1>5. SubSeq(draws, 1, n) = draws
  OBVIOUS
<1>. QED
  BY <1>1, <1>4, <1>5

LEMMA SubSeqOfStart ==
    ASSUME NEW S, NEW q \in Seq(S), NEW k \in 0..Len(q), NEW j \in Int, j <= k
    PROVE  SubSeq(SubSeq(q, 1, k), 1, j) = SubSeq(q, 1, j)
<1>. DEFINE p == SubSeq(q, 1, k)
<1>1. p \in Seq(S) /\ Len(p) = k /\ \A i \in 1..k : p[i] = q[i]
  OBVIOUS
<1>. HIDE DEF p
<1>2. CASE j <= 0
  <2>1. SubSeq(p, 1, j) = <<>> /\ SubSeq(q, 1, j) = <<>>
    BY <1>1, <1>2
  <2>. QED
    BY <2>1 DEF p
<1>3. CASE j > 0
  <2>1. j \in 1..Len(p) /\ j \in 1..Len(q)
    BY <1>1, <1>3
  <2>2. /\ SubSeq(p, 1, j) \in Seq(S) /\ Len(SubSeq(p, 1, j)) = j
        /\ \A i \in 1..j : SubSeq(p, 1, j)[i] = p[i]
    BY <1>1, <2>1
  <2>3. /\ SubSeq(q, 1, j) \in Seq(S) /\ Len(SubSeq(q, 1, j)) = j
        /\ \A i \in 1..j : SubSeq(q, 1, j)[i] = q[i]
    BY <2>1
  <2>4. \A i \in 1..j : p[i] = q[i]
    BY <1>1, <2>1
  <2>5. SubSeq(p, 1, j) = SubSeq(q, 1, j)
    BY <2>2, <2>3, <2>4
  <2>. QED
    BY <2>5 DEF p
<1>. QED
  BY <1>2, <1>3

\* A blank depends on the draws before it only.
LEMMA SeparatorOfStart ==
    ASSUME NEW D, NEW draws \in Seq(D), NEW k \in 0..Len(draws), NEW i \in 1..k,
           NEW m \in Methods, NEW l
    PROVE  Piece(m, l, SubSeq(draws, 1, k), i) = Piece(m, l, draws, i)
<1>. DEFINE s == SubSeq(draws, 1, k)
<1>1. s[i] = draws[i]
  OBVIOUS
<1>2. SubSeq(s, 1, i - 1) = SubSeq(draws, 1, i - 1) /\ SubSeq(s, 1, i - 2) = SubSeq(draws, 1, i - 2)
  BY SubSeqOfStart
<1>. HIDE DEF s
<1>3. SeparatorBefore(m, l, s, i) = SeparatorBefore(m, l, draws, i)
  BY <1>2, Zenon DEF SeparatorBefore
<1>. QED
  BY <1>1, <1>3, Zenon DEF Piece, s

\* The text t is the text q with a draw after it, behind a blank or not.
Spells(D, q, x, t) ==
    /\ q \in Seq(D \cup {Blank}) /\ x \in D
    /\ t = Append(q, x) \/ t = Append(Append(q, Blank), x)

\* The step that spells a draw appends the draw, behind a blank or not.
LEMMA SpelledStep ==
    ASSUME NEW D, NEW draws \in Seq(D), NEW i \in 1..Len(draws), NEW m, NEW l,
           NEW u, SpelledUpTo(u, D, m, l, draws)
    PROVE  Spells(D, u[i - 1], draws[i], u[i])
<1>. DEFINE q == u[i - 1]
            x == draws[i]
<1>1. q \in Seq(D \cup {Blank}) /\ x \in D
  <2>1. i - 1 \in 0..Len(draws) /\ x \in D
    OBVIOUS
  <2>2. u \in [0..Len(draws) -> Seq(D \cup {Blank})]
    BY Zenon DEF SpelledUpTo
  <2>. QED
    BY <2>1, <2>2
<1>2. u[i] = q \o Piece(m, l, draws, i)
  BY Zenon DEF SpelledUpTo
<1>3. Piece(m, l, draws, i) = <<Blank, x>> \/ Piece(m, l, draws, i) = <<x>>
  BY DEF Piece
<1>. HIDE DEF q, x
<1>4. x \in D \cup {Blank} /\ Blank \in D \cup {Blank}
  BY <1>1
<1>5. q \o <<Blank, x>> = Append(Append(q, Blank), x) /\ q \o <<x>> = Append(q, x)
  BY <1>1, <1>4, ConcatPiece
<1>6. u[i] = Append(q, x) \/ u[i] = Append(Append(q, Blank), x)
  BY <1>2, <1>3, <1>5, Zenon
<1>. QED
  BY <1>1, <1>6 DEF q, x, Spells

LEMMA SameAsItself ==
    ASSUME NEW S, NEW s \in Seq(S)
    PROVE  SameUpTo(s, s, Len(s))
BY DEF SameUpTo

LEMMA SameAppended ==
    ASSUME NEW S, NEW s \in Seq(S), NEW k \in Nat, NEW t \in Seq(S), SameUpTo(s, t, k), NEW x \in S
    PROVE  SameUpTo(s, Append(t, x), k)
BY DEF SameUpTo

\* The text of the first draws is the beginning of the text of all.
LEMMA CleanOfStart ==
    ASSUME NEW D, NEW draws \in Seq(D), NEW k \in 0..Len(draws), NEW m \in Methods, NEW l
    PROVE  LET c == Clean(m, l, SubSeq(draws, 1, k)) IN
           SameUpTo(c, Clean(m, l, draws), Len(c))
<1>. DEFINE s == SubSeq(draws, 1, k)
            rest == Len(draws) - k
<1>1. s \in Seq(D) /\ Len(s) = k /\ \A i \in 1..k : Piece(m, l, s, i) = Piece(m, l, draws, i)
  BY SeparatorOfStart
<1>. HIDE DEF s
<1>2. PICK u : SpelledUpTo(u, D, m, l, draws) /\ Clean(m, l, draws) = u[Len(draws)]
  BY CleanSpelled
<1>3. PICK w : SpelledUpTo(w, D, m, l, s) /\ Clean(m, l, s) = w[Len(s)]
  BY <1>1, CleanSpelled
<1>4. w[k] = u[k]
  <2>1. ASSUME NEW i \in 1..k PROVE w[i - 1] = u[i - 1] => w[i] = u[i]
    <3>1. i \in 1..Len(s) /\ i \in 1..Len(draws)
      BY <1>1
    <3>2. w[i] = w[i - 1] \o Piece(m, l, s, i) /\ u[i] = u[i - 1] \o Piece(m, l, draws, i)
      BY <1>2, <1>3, <3>1, Zenon DEF SpelledUpTo
    <3>. QED
      BY <1>1, <3>2, Zenon
  <2>2. w[0] = u[0]
    BY <1>2, <1>3, Zenon DEF SpelledUpTo
  <2>3. SameSteps(w, u, k)
    BY <2>1, <2>2, Zenon DEF SameSteps
  <2>4. k \in Nat /\ k \in 0..k
    OBVIOUS
  <2>. QED
    BY <2>3, <2>4, StepsAgree
<1>. DEFINE c == u[k]
            S == {i \in 0..rest : SameUpTo(c, u[k + i], Len(c))}
<1>5. c \in Seq(D \cup {Blank}) /\ Len(c) \in Nat
  <2>1. u \in [0..Len(draws) -> Seq(D \cup {Blank})] /\ k \in 0..Len(draws)
    BY <1>2, Zenon DEF SpelledUpTo
  <2>. QED
    BY <2>1
<1>6. 0 \in S
  <2>1. SameUpTo(c, c, Len(c))
    BY <1>5, SameAsItself
  <2>2. 0 \in 0..rest /\ k + 0 = k
    OBVIOUS
  <2>. QED
    BY <2>1, <2>2
<1>7. ASSUME NEW i \in 1..rest, i - 1 \in S PROVE i \in S
  <2>. DEFINE j == k + i
              q == u[j - 1]
              x == draws[j]
  <2>1. j \in 1..Len(draws) /\ k + (i - 1) = j - 1 /\ i \in 0..rest
    OBVIOUS
  <2>2. SameUpTo(c, q, Len(c))
    BY <1>7, <2>1
  <2>. HIDE DEF j
  <2>3. Spells(D, q, x, u[j])
    <3>1. SpelledUpTo(u, D, m, l, draws)
      BY <1>2
    <3>. QED
      BY <2>1, <3>1, SpelledStep
  <2>. HIDE DEF q, x, c
  <2>4. /\ q \in Seq(D \cup {Blank}) /\ x \in D \cup {Blank} /\ Blank \in D \cup {Blank}
        /\ u[j] = Append(q, x) \/ u[j] = Append(Append(q, Blank), x)
    BY <2>3 DEF Spells
  <2>5. SameUpTo(c, Append(q, x), Len(c)) /\ SameUpTo(c, Append(q, Blank), Len(c))
    BY <1>5, <2>2, <2>4, SameAppended
  <2>6. Append(q, Blank) \in Seq(D \cup {Blank})
    BY <2>4, AppendTyped
  <2>7. SameUpTo(c, Append(Append(q, Blank), x), Len(c))
    BY <1>5, <2>4, <2>5, <2>6, SameAppended
  <2>8. SameUpTo(c, u[j], Len(c))
    BY <2>4, <2>5, <2>7, Zenon
  <2>. QED
    BY <2>1, <2>8 DEF j
<1>8. rest \in Nat /\ rest \in 0..rest /\ k + rest = Len(draws)
  OBVIOUS
<1>9. rest \in S
  <2>. HIDE DEF S, rest
  <2>1. 0..rest \subseteq S
    BY <1>6, <1>7, <1>8, UpTo
  <2>. QED
    BY <1>8, <2>1
<1>10. SameUpTo(c, u[Len(draws)], Len(c))
  <2>. HIDE DEF c
  <2>. QED
    BY <1>8, <1>9
<1>11. Clean(m, l, s) = c
  BY <1>1, <1>3, <1>4
<1>. HIDE DEF c
<1>12. LET a == Clean(m, l, s) IN SameUpTo(a, Clean(m, l, draws), Len(a))
  BY <1>2, <1>10, <1>11, Zenon
<1>. QED
  BY <1>12 DEF s

\* The text of the first draws is no longer than that of all.
LEMMA CleanOfPrefix ==
    ASSUME NEW D, NEW draws \in Seq(D), NEW k \in 0..Len(draws), NEW m \in Methods, NEW l
    PROVE  Len(Clean(m, l, SubSeq(draws, 1, k))) \in 0..Len(Clean(m, l, draws))
<1>. DEFINE c == Clean(m, l, SubSeq(draws, 1, k))
<1>1. SubSeq(draws, 1, k) \in Seq(D)
  OBVIOUS
<1>2. c \in Seq(D \cup {Blank}) /\ Clean(m, l, draws) \in Seq(D \cup {Blank})
  BY <1>1, CleanTyped
<1>3. SameUpTo(c, Clean(m, l, draws), Len(c))
  BY CleanOfStart, Zenon
<1>. HIDE DEF c
<1>4. Len(c) \in 0..Len(Clean(m, l, draws))
  BY <1>2, <1>3 DEF SameUpTo
<1>. QED
  BY <1>4 DEF c

EndsIn(D, t, x) == \E e \in Seq(D \cup {Blank}) : t = Append(e, x)

\* A text that is in order ends in its last draw.
LEMMA CleanEnds ==
    ASSUME NEW D, NEW draws \in Seq(D), Len(draws) > 0, NEW m, NEW l
    PROVE  EndsIn(D, Clean(m, l, draws), draws[Len(draws)])
<1>. DEFINE n == Len(draws)
<1>1. PICK u : SpelledUpTo(u, D, m, l, draws) /\ Clean(m, l, draws) = u[n]
  BY CleanSpelled
<1>2. n \in 1..Len(draws)
  OBVIOUS
<1>3. Spells(D, u[n - 1], draws[n], u[n])
  <2>. HIDE DEF n
  <2>. QED
    BY <1>1, <1>2, SpelledStep
<1>. DEFINE q == u[n - 1]
            x == draws[n]
<1>. HIDE DEF q, x, n
<1>4. /\ q \in Seq(D \cup {Blank}) /\ Blank \in D \cup {Blank}
      /\ u[n] = Append(q, x) \/ u[n] = Append(Append(q, Blank), x)
  BY <1>3 DEF Spells, q, x
<1>5. Append(q, Blank) \in Seq(D \cup {Blank})
  BY <1>4, AppendTyped
<1>6. EndsIn(D, u[n], x)
  BY <1>4, <1>5, Zenon DEF EndsIn
<1>7. EndsIn(D, Clean(m, l, draws), x)
  BY <1>1, <1>6, Zenon
<1>. QED
  BY <1>7 DEF x, n

\* The place right behind a draw is not behind the place it was found from: of
\* a text that is in order, the draws before an offset are spelled before it.
LEMMA SpelledBefore ==
    ASSUME NEW D, Blank \notin D, NEW draws \in Seq(D), NEW m \in Methods, NEW l,
           NEW f \in 0..Len(Clean(m, l, draws)),
           NEW k, k = Len(Draws(SubSeq(Clean(m, l, draws), 1, f)))
    PROVE  k \in 0..Len(draws) /\ Len(Clean(m, l, SubSeq(draws, 1, k))) \in 0..f
<1>. DEFINE t == Clean(m, l, draws)
            s == SubSeq(draws, 1, k)
            c == Clean(m, l, s)
<1>1. t \in Seq(D \cup {Blank}) /\ Draws(t) = draws
  BY CleanTyped, DrawsOfClean
<1>. HIDE DEF t
<1>2. k = Len(Draws(SubSeq(t, 1, f))) /\ f \in 0..Len(t)
  BY DEF t
<1>3. k \in 0..Len(draws)
  BY <1>1, <1>2, DrawsOfPrefix
<1>4. s \in Seq(D) /\ Len(s) = k
  BY <1>3
<1>5. c \in Seq(D \cup {Blank}) /\ Draws(c) = s
  <2>. HIDE DEF s
  <2>. QED
    BY <1>4, CleanTyped, DrawsOfClean
<1>6. SameUpTo(c, t, Len(c))
  BY <1>3, CleanOfStart, Zenon DEF t
<1>7. CASE k = 0
  <2>1. s = <<>>
    BY <1>4, <1>7
  <2>2. c = <<>>
    BY <2>1, CleanOfNothing
  <2>3. Len(c) \in 0..f
    BY <1>2, <2>2
  <2>. QED
    BY <1>3, <2>3
<1>8. CASE k > 0
  <2>. HIDE DEF s
  <2>. DEFINE x == s[Len(s)]
  <2>0. EndsIn(D, c, x)
    BY <1>4, <1>8, CleanEnds
  <2>1. PICK e \in Seq(D \cup {Blank}) : c = Append(e, x)
    BY <2>0, Zenon DEF EndsIn
  <2>2. x \in D
    BY <1>4, <1>8
  <2>. HIDE DEF c, x
  <2>3. Draws(c) = Append(Draws(e), x)
    <3>1. x \in D \cup {Blank} /\ x # Blank
      BY <2>2
    <3>. QED
      BY <2>1, <3>1, DrawsOfAppend
  <2>4. Draws(e) \in Seq(D)
    BY DrawsTyped
  <2>5. Len(Draws(e)) + 1 = k /\ Len(Draws(e)) \in Nat
    BY <1>4, <1>5, <2>2, <2>3, <2>4, AppendTyped
  <2>6. /\ Len(e) \in Nat /\ Len(c) = Len(e) + 1 /\ Len(t) \in Nat
        /\ \A i \in 1..Len(e) : c[i] = e[i]
    BY <1>1, <2>1, <2>2
  <2>7. ASSUME f < Len(c) PROVE FALSE
    <3>1. f \in 0..Len(e)
      BY <1>2, <2>6, <2>7
    <3>2. \A i \in 1..f : e[i] = t[i]
      <4>1. TAKE i \in 1..f
      <4>2. i \in 1..Len(e) /\ i \in 1..Len(c)
        BY <2>6, <3>1
      <4>3. c[i] = t[i] /\ c[i] = e[i]
        BY <1>6, <2>6, <4>2 DEF SameUpTo
      <4>. QED
        BY <4>3
    <3>3. SubSeq(e, 1, f) = SubSeq(t, 1, f)
      BY <1>1, <1>2, <3>1, <3>2
    <3>4. Len(Draws(SubSeq(e, 1, f))) \in 0..Len(Draws(e))
      BY <3>1, DrawsOfPrefix
    <3>5. Len(Draws(SubSeq(e, 1, f))) = k
      BY <1>2, <3>3, Zenon
    <3>. HIDE DEF s
    <3>6. k \in 0..Len(Draws(e))
      BY <3>4, <3>5, Zenon
    <3>. QED
      BY <2>5, <3>6
  <2>8. Len(c) \in 0..f
    BY <1>2, <2>6, <2>7
  <2>. QED
    BY <1>3, <2>8 DEF c, s
<1>. QED
  BY <1>3, <1>7, <1>8

\* Every blank of a text stands before a draw.
BlanksLead(t) == \A i \in 1..Len(t) : t[i] = Blank => i < Len(t) /\ t[i + 1] # Blank

LEMMA BlanksLeadAppended ==
    ASSUME NEW S, NEW q \in Seq(S), BlanksLead(q), NEW x \in S, x # Blank, Blank \in S
    PROVE  BlanksLead(Append(q, x)) /\ BlanksLead(Append(Append(q, Blank), x))
<1>. DEFINE n == Len(q)
            a == Append(q, x)
            b == Append(Append(q, Blank), x)
<1>1. /\ n \in Nat /\ Len(a) = n + 1 /\ a[n + 1] = x /\ \A i \in 1..n : a[i] = q[i]
  OBVIOUS
<1>2. Len(b) = n + 2 /\ b[n + 1] = Blank /\ b[n + 2] = x /\ \A i \in 1..n : b[i] = q[i]
  <2>. DEFINE p == Append(q, Blank)
  <2>1. /\ p \in Seq(S) /\ Len(p) = n + 1 /\ p[n + 1] = Blank
        /\ \A i \in 1..n : p[i] = q[i]
    OBVIOUS
  <2>. HIDE DEF p
  <2>2. Len(Append(p, x)) = n + 2 /\ Append(p, x)[n + 2] = x
        /\ \A i \in 1..(n + 1) : Append(p, x)[i] = p[i]
    BY <1>1, <2>1
  <2>3. n + 1 \in 1..(n + 1) /\ \A i \in 1..n : i \in 1..(n + 1)
    BY <1>1
  <2>4. Len(Append(p, x)) = n + 2 /\ Append(p, x)[n + 1] = Blank /\ Append(p, x)[n + 2] = x
        /\ \A i \in 1..n : Append(p, x)[i] = q[i]
    BY <2>1, <2>2, <2>3
  <2>. QED
    BY <2>4 DEF p
<1>3. \A i \in 1..n : q[i] = Blank => i < n /\ q[i + 1] # Blank
  BY DEF BlanksLead
<1>. HIDE DEF a, b, n
<1>4. ASSUME NEW i \in 1..Len(a), a[i] = Blank PROVE i < Len(a) /\ a[i + 1] # Blank
  <2>1. i \in 1..n
    BY <1>1, <1>4
  <2>2. i < n /\ q[i + 1] # Blank
    BY <1>1, <1>3, <1>4, <2>1
  <2>3. i + 1 \in 1..n
    BY <1>1, <2>1, <2>2
  <2>4. a[i + 1] = q[i + 1]
    BY <1>1, <2>3
  <2>. QED
    BY <1>1, <2>2, <2>4
<1>5. ASSUME NEW i \in 1..Len(b), b[i] = Blank PROVE i < Len(b) /\ b[i + 1] # Blank
  <2>1. CASE i = n + 1
    BY <1>1, <1>2, <2>1
  <2>2. CASE i \in 1..n
    <3>1. i < n /\ q[i + 1] # Blank
      BY <1>2, <1>3, <1>5, <2>2
    <3>2. i + 1 \in 1..n
      BY <1>1, <2>2, <3>1
    <3>3. b[i + 1] = q[i + 1]
      BY <1>2, <3>2
    <3>. QED
      BY <1>1, <1>2, <3>1, <3>3
  <2>. QED
    BY <1>1, <1>2, <1>5, <2>1, <2>2
<1>6. BlanksLead(a) /\ BlanksLead(b)
  BY <1>4, <1>5 DEF BlanksLead
<1>. QED
  BY <1>6 DEF a, b

LEMMA CleanBlanksLead ==
    ASSUME NEW D, Blank \notin D, NEW draws \in Seq(D), NEW m, NEW l
    PROVE  BlanksLead(Clean(m, l, draws))
<1>. DEFINE n == Len(draws)
<1>1. PICK u : SpelledUpTo(u, D, m, l, draws) /\ Clean(m, l, draws) = u[n]
  BY CleanSpelled
<1>. DEFINE S == {i \in 0..n : BlanksLead(u[i])}
<1>2. 0 \in S
  <2>1. u[0] = <<>>
    BY <1>1, Zenon DEF SpelledUpTo
  <2>2. BlanksLead(<<>>)
    BY DEF BlanksLead
  <2>3. 0 \in 0..n
    OBVIOUS
  <2>. QED
    BY <2>1, <2>2, <2>3
<1>3. ASSUME NEW i \in 1..n, i - 1 \in S PROVE i \in S
  <2>. DEFINE q == u[i - 1]
              x == draws[i]
  <2>1. Spells(D, q, x, u[i])
    BY <1>1, SpelledStep
  <2>2. BlanksLead(q)
    BY <1>3
  <2>. HIDE DEF q, x
  <2>3. /\ q \in Seq(D \cup {Blank}) /\ x \in D \cup {Blank} /\ x # Blank /\ Blank \in D \cup {Blank}
        /\ u[i] = Append(q, x) \/ u[i] = Append(Append(q, Blank), x)
    BY <2>1 DEF Spells
  <2>4. BlanksLead(Append(q, x)) /\ BlanksLead(Append(Append(q, Blank), x))
    BY <2>2, <2>3, BlanksLeadAppended
  <2>5. BlanksLead(u[i])
    BY <2>3, <2>4, Zenon
  <2>. QED
    BY <2>5
<1>4. n \in Nat /\ n \in 0..n
  OBVIOUS
<1>5. n \in S
  <2>. HIDE DEF S, n
  <2>1. 0..n \subseteq S
    BY <1>2, <1>3, <1>4, UpTo
  <2>. QED
    BY <1>4, <2>1
<1>. QED
  BY <1>1, <1>5

\* A text of a method: its draws and blanks.
TextsOf(m) == Seq(Alphabet[m] \cup {Blank})

\* Whatever was edited, the text is in order again, the caret in it, and a word
\* that is still picked completes the words of the new text.
LEMMA SanitizeFits ==
    ASSUME NEW m \in Methods, NEW l, NEW raw \in TextsOf(m), NEW c \in 0..Len(raw), NEW pick,
           Sanitize(m, l, raw, c, pick)
    PROVE  /\ text' \in TextsOf(m) /\ caret' \in 0..Len(text')
           /\ text' = Clean(m, l, Draws(text'))
           /\ picked' \in {pick, NoPick}
           /\ picked' # NoPick =>
                /\ Complete(m, l, Draws(text'))
                /\ picked' \in Candidates(l, Words(m, l, Draws(text')))
<1>. DEFINE D == Alphabet[m]
            draws == Draws(raw)
            clean == Clean(m, l, draws)
            followed == Len(Draws(SubSeq(raw, 1, c)))
<1>1. /\ text' = clean
      /\ caret' = IF raw = clean THEN c ELSE Len(Clean(m, l, SubSeq(draws, 1, followed)))
      /\ picked' = KeptPick(m, l, draws, pick)
  BY Zenon DEF Sanitize, CaretBehind
<1>2. raw \in Seq(D \cup {Blank}) /\ Blank \notin D
  BY DirectDrawsAssumption DEF TextsOf
<1>. HIDE DEF D
<1>3. draws \in Seq(D)
  BY <1>2, DrawsTyped
<1>4. clean \in Seq(D \cup {Blank}) /\ Draws(clean) = draws
  <2>. HIDE DEF draws
  <2>. QED
    BY <1>2, <1>3, CleanTyped, DrawsOfClean
<1>5. followed \in 0..Len(draws)
  BY <1>2, DrawsOfPrefix
<1>6. caret' \in 0..Len(text')
  <2>. HIDE DEF draws, followed
  <2>1. Len(Clean(m, l, SubSeq(draws, 1, followed))) \in 0..Len(clean)
    BY <1>3, <1>5, CleanOfPrefix
  <2>. HIDE DEF clean
  <2>. QED
    BY <1>1, <2>1
<1>7. text' \in TextsOf(m)
  BY <1>1, <1>4 DEF TextsOf, D
<1>8. picked' \in {pick, NoPick}
  BY <1>1 DEF KeptPick
<1>9. picked' # NoPick =>
        Complete(m, l, draws) /\ picked' \in Candidates(l, Words(m, l, draws))
  BY <1>1, Zenon DEF KeptPick
<1>. QED
  BY <1>1, <1>4, <1>6, <1>7, <1>8, <1>9

\* The text is in order.
Spaced == text = Clean(method, length, Draws(text))

DrawsInv == DirectDrawsTypeOK /\ PickedWordFits /\ Spaced

LEMMA Sanitize_Inv ==
    ASSUME DrawsInv, NEW l \in Lengths, NEW raw \in TextsOf(method), NEW c \in 0..Len(raw),
           NEW pick \in Nat \cup {NoPick}, Sanitize(method, l, raw, c, pick),
           method' = method, length' = l
    PROVE  DrawsInv'
<1>1. method \in Methods
  BY DEF DrawsInv, DirectDrawsTypeOK
<1>2. /\ text' \in TextsOf(method) /\ caret' \in 0..Len(text')
      /\ picked' \in {pick, NoPick}
  BY <1>1, SanitizeFits
<1>0. Spaced'
  BY <1>1, SanitizeFits, Zenon DEF Spaced
<1>3. picked' # NoPick =>
        /\ Complete(method, l, Draws(text'))
        /\ picked' \in Candidates(l, Words(method, l, Draws(text')))
  BY <1>1, SanitizeFits, Zenon
<1>4. PickedWordFits'
  BY <1>3, Zenon DEF PickedWordFits
<1>5. DirectDrawsTypeOK'
  BY <1>1, <1>2 DEF DirectDrawsTypeOK, TextsOf
<1>. QED
  BY <1>0, <1>4, <1>5 DEF DrawsInv

LEMMA Replace_Inv ==
    ASSUME DrawsInv, NEW from \in 0..Len(text), NEW to \in from..Len(text),
           NEW insert \in TextsOf(method), Replace(from, to, insert), UNCHANGED <<method, length>>
    PROVE  DrawsInv'
<1>. DEFINE T == Alphabet[method] \cup {Blank}
            raw == Edited(from, to, insert)
            c == from + Len(insert)
<1>1. text \in Seq(T) /\ insert \in Seq(T)
  BY DEF DrawsInv, DirectDrawsTypeOK, TextsOf
<1>. HIDE DEF T
<1>2. /\ SubSeq(text, 1, from) \in Seq(T) /\ Len(SubSeq(text, 1, from)) = from
      /\ SubSeq(text, to + 1, Len(text)) \in Seq(T)
  BY <1>1
<1>3. raw \in Seq(T) /\ c \in 0..Len(raw)
  <2>. DEFINE p == SubSeq(text, 1, from)
              q == SubSeq(text, to + 1, Len(text))
  <2>1. p \in Seq(T) /\ Len(p) = from /\ q \in Seq(T)
    BY <1>2
  <2>. HIDE DEF p, q
  <2>2. p \o insert \in Seq(T) /\ Len(p \o insert) = c
    BY <1>1, <2>1, ConcatTyped
  <2>3. (p \o insert) \o q \in Seq(T) /\ Len((p \o insert) \o q) = c + Len(q) /\ Len(q) \in Nat
    BY <2>1, <2>2, ConcatTyped
  <2>4. c \in Nat
    BY <1>1
  <2>5. raw = (p \o insert) \o q
    BY Zenon DEF p, q, Edited
  <2>. HIDE DEF raw, c
  <2>. QED
    BY <2>3, <2>4, <2>5
<1>4. Sanitize(method, length, raw, c, picked)
  BY Zenon DEF Replace
<1>. HIDE DEF raw, c
<1>5. raw \in TextsOf(method) /\ length \in Lengths /\ picked \in Nat \cup {NoPick}
  BY <1>3 DEF DrawsInv, DirectDrawsTypeOK, TextsOf, T
<1>. QED
  BY <1>3, <1>4, <1>5, Sanitize_Inv

LEMMA DirectDrawsNext_Inv == DrawsInv /\ [DirectDrawsNext]_ddVars => DrawsInv'
<1>. SUFFICES ASSUME DrawsInv, [DirectDrawsNext]_ddVars PROVE DrawsInv'
  OBVIOUS
<1>0. /\ method \in Methods /\ length \in Lengths
      /\ text \in TextsOf(method) /\ Len(text) \in Nat /\ caret \in 0..Len(text)
      /\ picked \in Nat \cup {NoPick}
  BY DEF DrawsInv, DirectDrawsTypeOK, TextsOf
<1>00. /\ <<>> \in TextsOf(method)
       /\ \A x \in Alphabet[method] : <<x>> \in TextsOf(method)
  BY DEF TextsOf
<1>1. ASSUME NEW x \in Alphabet[method], TypeDraw(x) \/ TapKey(x) PROVE DrawsInv'
  <2>1. Replace(caret, caret, <<x>>) /\ UNCHANGED <<method, length>>
    BY <1>1, Zenon DEF TypeDraw, TapKey
  <2>2. caret \in 0..Len(text) /\ caret \in caret..Len(text)
    BY <1>0
  <2>. QED
    BY <1>00, <2>1, <2>2, Replace_Inv
<1>2. CASE Backspace
  <2>. DEFINE from == BackspaceFrom
  <2>1. caret > 0 /\ Replace(from, caret, <<>>) /\ UNCHANGED <<method, length>>
    BY <1>2, Zenon DEF Backspace
  <2>2. from \in 0..Len(text) /\ caret \in from..Len(text)
    BY <1>0, <2>1 DEF BackspaceFrom
  <2>. HIDE DEF from
  <2>. QED
    BY <1>00, <2>1, <2>2, Replace_Inv
<1>3. CASE DeleteForward
  <2>. DEFINE to == DeleteTo
  <2>1. caret < Len(text) /\ Replace(caret, to, <<>>) /\ UNCHANGED <<method, length>>
    BY <1>3, Zenon DEF DeleteForward
  <2>2. caret \in 0..Len(text) /\ to \in caret..Len(text)
    BY <1>0, <2>1 DEF DeleteTo
  <2>. HIDE DEF to
  <2>. QED
    BY <1>00, <2>1, <2>2, Replace_Inv
<1>4. CASE UndoDraw
  <2>. DEFINE raw == Clean(method, length, Front(Draws(text)))
              D == Alphabet[method]
  <2>1. Sanitize(method, length, raw, Len(raw), picked) /\ UNCHANGED <<method, length>>
    BY <1>4, Zenon DEF UndoDraw
  <2>2. Draws(text) \in Seq(D)
    BY <1>0, DrawsTyped DEF TextsOf
  <2>3. Front(Draws(text)) \in Seq(D)
    BY <2>2, FrontTyped
  <2>4. raw \in TextsOf(method)
    BY <2>3, CleanTyped DEF TextsOf
  <2>. HIDE DEF raw
  <2>5. Len(raw) \in 0..Len(raw)
    BY <2>4 DEF TextsOf
  <2>. QED
    BY <1>0, <2>1, <2>4, <2>5, Sanitize_Inv
<1>5. ASSUME NEW c \in 0..Len(text), MoveCaret(c) PROVE DrawsInv'
  BY <1>5 DEF MoveCaret, DrawsInv, DirectDrawsTypeOK, PickedWordFits, Spaced
<1>6. ASSUME NEW l \in Lengths, SetDrawLength(l) PROVE DrawsInv'
  <2>1. Sanitize(method, l, text, Len(text), NoPick) /\ method' = method /\ length' = l
    BY <1>6 DEF SetDrawLength
  <2>2. Len(text) \in 0..Len(text)
    BY <1>0
  <2>. QED
    BY <1>0, <2>1, <2>2, Sanitize_Inv
<1>7. ASSUME NEW w \in Nat \cup {NoPick}, PickLastWord(w) PROVE DrawsInv'
  <2>1. /\ Complete(method, length, Draws(text))
        /\ w \in Candidates(length, Words(method, length, Draws(text))) \cup {NoPick}
        /\ picked' = w /\ UNCHANGED <<method, length, text, caret>>
    BY <1>7 DEF PickLastWord
  <2>2. PickedWordFits'
    BY <2>1 DEF PickedWordFits
  <2>3. DirectDrawsTypeOK'
    BY <2>1 DEF DrawsInv, DirectDrawsTypeOK
  <2>4. Spaced'
    BY <2>1 DEF DrawsInv, Spaced
  <2>. QED
    BY <2>2, <2>3, <2>4 DEF DrawsInv
<1>8. CASE UNCHANGED ddVars
  BY <1>8 DEF ddVars, DrawsInv, DirectDrawsTypeOK, PickedWordFits, Spaced
<1>9. ASSUME NEW w \in 0..(Options[length] * Checks[length] - 1) PROVE w \in Nat
  OBVIOUS
<1>. QED
  BY <1>1, <1>2, <1>3, <1>4, <1>5, <1>6, <1>7, <1>8, <1>9 DEF DirectDrawsNext

LEMMA DirectDrawsInit_Inv == DirectDrawsInit => DrawsInv
<1>. SUFFICES ASSUME DirectDrawsInit PROVE DrawsInv
  OBVIOUS
<1>1. \A S : <<>> \in Seq(S) /\ Len(<<>>) = 0
  OBVIOUS
<1>2. text \in Seq(Alphabet[method] \cup {Blank}) /\ caret \in 0..Len(text)
  BY <1>1 DEF DirectDrawsInit
<1>3. Spaced
  <2>1. text = <<>> /\ Draws(<<>>) = <<>>
    BY DrawsOfNothing DEF DirectDrawsInit
  <2>2. Clean(method, length, <<>>) = <<>>
    BY CleanOfNothing
  <2>. QED
    BY <2>1, <2>2 DEF Spaced
<1>. QED
  BY <1>2, <1>3 DEF DirectDrawsInit, DrawsInv, DirectDrawsTypeOK, PickedWordFits

LEMMA DrawsInvariant == DirectDrawsSpec => []DrawsInv
BY DirectDrawsInit_Inv, DirectDrawsNext_Inv, PTL DEF DirectDrawsSpec

\* What deleting a stretch of the text leaves: fewer draws if a draw stood in
\* it, and otherwise the same draws, with the caret no further than before it.
LEMMA DeletedStretch ==
    ASSUME method \in Methods, text \in TextsOf(method), Spaced,
           NEW from \in 0..Len(text), NEW to \in (from + 1)..Len(text)
    PROVE  LET raw  == Edited(from, to, <<>>)
               kept == Draws(SubSeq(text, 1, from))
               was  == Draws(SubSeq(text, 1, to))
           IN  /\ Len(was) # Len(kept) => Clean(method, length, Draws(raw)) # text
               /\ was = kept => CaretBehind(method, length, raw, from) \in 0..from
<1>. DEFINE D == Alphabet[method]
            p == SubSeq(text, 1, from)
            q == SubSeq(text, to + 1, Len(text))
            b == SubSeq(text, 1, to)
            raw == Edited(from, to, <<>>)
            kept == Draws(p)
            was == Draws(b)
            rest == Draws(q)
            all == Draws(text)
            left == Draws(raw)
<1>1. text \in Seq(D \cup {Blank}) /\ Blank \notin D
  BY DirectDrawsAssumption DEF TextsOf
<1>. HIDE DEF D
<1>2. to \in 0..Len(text) /\ from < to /\ from \in Nat /\ Len(text) \in Nat
  BY <1>1
<1>3. /\ p \in Seq(D \cup {Blank}) /\ Len(p) = from
      /\ b \in Seq(D \cup {Blank}) /\ q \in Seq(D \cup {Blank})
      /\ Len(q) = Len(text) - to /\ b \o q = text
  BY <1>1, <1>2, SplitAt
<1>4. raw = p \o q
  <2>1. p \o <<>> = p
    <3>. HIDE DEF p
    <3>. QED
      BY <1>3
  <2>2. raw = (p \o <<>>) \o q
    BY Zenon DEF Edited
  <2>. QED
    BY <2>1, <2>2, Zenon
<1>. HIDE DEF p, q, b, raw
<1>5. raw \in Seq(D \cup {Blank}) /\ Len(raw) = from + (Len(text) - to) /\ SubSeq(raw, 1, from) = p
  <2>1. raw \in Seq(D \cup {Blank}) /\ Len(raw) = from + (Len(text) - to)
    BY <1>3, <1>4, ConcatTyped
  <2>2. SubSeq(p \o q, 1, from) = p
    <3>1. /\ p \o q \in Seq(D \cup {Blank}) /\ Len(p \o q) = Len(p) + Len(q)
          /\ \A i \in 1..Len(p) : (p \o q)[i] = p[i]
      BY <1>3, ConcatTyped, ConcatBegins
    <3>. DEFINE w == p \o q
    <3>. HIDE DEF w
    <3>2. /\ w \in Seq(D \cup {Blank}) /\ from \in 0..Len(w)
          /\ \A i \in 1..from : w[i] = p[i]
      BY <1>2, <1>3, <3>1 DEF w
    <3>3. SubSeq(w, 1, from) = p
      BY <1>2, <1>3, <3>2
    <3>. QED
      BY <3>3 DEF w
  <2>. QED
    BY <1>4, <2>1, <2>2
<1>6. all = was \o rest /\ left = kept \o rest
  BY <1>3, <1>4, DrawsOfConcat
<1>7. kept \in Seq(D) /\ was \in Seq(D) /\ rest \in Seq(D) /\ left \in Seq(D) /\ all \in Seq(D)
  BY <1>1, <1>3, <1>5, DrawsTyped
<1>8. text = Clean(method, length, all)
  BY DEF Spaced
<1>. HIDE DEF kept, was, rest, left, all
<1>9. ASSUME Len(was) # Len(kept), Clean(method, length, left) = text PROVE FALSE
  <2>1. Draws(Clean(method, length, left)) = left
    BY <1>1, <1>7, DrawsOfClean
  <2>2. left = all
    BY <1>9, <2>1 DEF all
  <2>3. /\ Len(all) = Len(was) + Len(rest) /\ Len(left) = Len(kept) + Len(rest)
        /\ Len(was) \in Nat /\ Len(kept) \in Nat /\ Len(rest) \in Nat
    BY <1>6, <1>7, ConcatTyped
  <2>. QED
    BY <1>9, <2>2, <2>3
<1>10. ASSUME was = kept PROVE CaretBehind(method, length, raw, from) \in 0..from
  <2>. DEFINE k == Len(Draws(SubSeq(raw, 1, from)))
  <2>1. left = all
    BY <1>6, <1>10
  <2>2. raw # Clean(method, length, left)
    <3>1. Len(raw) # Len(text)
      BY <1>2, <1>5
    <3>. QED
      BY <1>8, <2>1, <3>1
  <2>3. CaretBehind(method, length, raw, from) = Len(Clean(method, length, SubSeq(left, 1, k)))
    BY <2>2, Zenon DEF CaretBehind, left
  <2>4. k = Len(Draws(SubSeq(text, 1, from)))
    BY <1>5 DEF p
  <2>. HIDE DEF k
  <2>5. Len(Clean(method, length, SubSeq(all, 1, k))) \in 0..from
    <3>1. from \in 0..Len(Clean(method, length, all))
      BY <1>8
    <3>2. k = Len(Draws(SubSeq(Clean(method, length, all), 1, from)))
      BY <1>8, <2>4
    <3>. QED
      BY <1>1, <1>7, <3>1, <3>2, SpelledBefore
  <2>. QED
    BY <2>1, <2>3, <2>5
<1>11. /\ Len(was) # Len(kept) => Clean(method, length, left) # text
       /\ was = kept => CaretBehind(method, length, raw, from) \in 0..from
  BY <1>9, <1>10
<1>. QED
  BY <1>11, Zenon DEF p, b, raw, kept, was, left

\* The draws up to a character: one more than before it, or as many at a blank.
LEMMA DrawsOfNextCharacter ==
    ASSUME NEW D, Blank \notin D, NEW t \in Seq(D \cup {Blank}), NEW i \in 1..Len(t)
    PROVE  LET before == Draws(SubSeq(t, 1, i - 1))
               upTo   == Draws(SubSeq(t, 1, i))
           IN  /\ t[i] = Blank => upTo = before
               /\ t[i] # Blank => Len(upTo) = Len(before) + 1
               /\ Len(before) \in Nat
<1>. DEFINE p == SubSeq(t, 1, i - 1)
            x == t[i]
<1>1. p \in Seq(D \cup {Blank}) /\ x \in D \cup {Blank}
  OBVIOUS
<1>2. SubSeq(t, 1, i) = Append(p, x)
  BY SubSeqGrows
<1>. HIDE DEF p, x
<1>3. Draws(p) \in Seq(D)
  BY <1>1, DrawsTyped
<1>4. Draws(Append(p, x)) = IF x = Blank THEN Draws(p) ELSE Append(Draws(p), x)
  BY <1>1, DrawsOfAppend
<1>5. x # Blank => Len(Append(Draws(p), x)) = Len(Draws(p)) + 1
  BY <1>1, <1>3, AppendTyped
<1>6. Len(Draws(p)) \in Nat
  BY <1>3
<1>7. LET before == Draws(p)
          upTo   == Draws(Append(p, x))
      IN  /\ x = Blank => upTo = before
          /\ x # Blank => Len(upTo) = Len(before) + 1
          /\ Len(before) \in Nat
  BY <1>4, <1>5, <1>6, Zenon
<1>. QED
  BY <1>2, <1>7, Zenon DEF p, x

LEMMA DrawsOfDeletes ==
    ASSUME DrawsInv
    PROVE  DeletesTakeEffect
<1>. DEFINE D == Alphabet[method]
            n == Len(text)
            upTo(i) == Draws(SubSeq(text, 1, i))
<1>1. /\ method \in Methods /\ text \in TextsOf(method) /\ Spaced /\ caret \in 0..n /\ n \in Nat
      /\ text \in Seq(D \cup {Blank}) /\ Blank \notin D
  BY DirectDrawsAssumption DEF DrawsInv, DirectDrawsTypeOK, TextsOf
<1>2. ASSUME NEW from \in 0..n, NEW to \in (from + 1)..n,
             \/ Len(upTo(to)) # Len(upTo(from))
             \/ upTo(to) = upTo(from) /\ from < caret
      PROVE  Deleted(from, to) # <<text, caret>>
  <2>. DEFINE raw == Edited(from, to, <<>>)
              clean == Clean(method, length, Draws(raw))
              c == CaretBehind(method, length, raw, from)
  <2>1. /\ Len(upTo(to)) # Len(upTo(from)) => clean # text
        /\ upTo(to) = upTo(from) => c \in 0..from
    BY <1>1, DeletedStretch
  <2>2. Deleted(from, to) = <<clean, c>>
    BY Zenon DEF Deleted
  <2>. HIDE DEF clean, c
  <2>3. clean # text \/ c # caret
    <3>. HIDE DEF upTo
    <3>1. CASE Len(upTo(to)) # Len(upTo(from))
      BY <2>1, <3>1
    <3>2. CASE upTo(to) = upTo(from) /\ from < caret
      <4>1. c \in 0..from
        BY <2>1, <3>2
      <4>. HIDE DEF n
      <4>2. c # caret
        BY <1>1, <3>2, <4>1
      <4>. QED
        BY <4>2
    <3>. QED
      BY <1>2, <3>1, <3>2
  <2>. QED
    BY <2>2, <2>3
<1>3. \A i \in 1..n : /\ text[i] = Blank => upTo(i) = upTo(i - 1)
                      /\ text[i] # Blank => Len(upTo(i)) = Len(upTo(i - 1)) + 1
                      /\ Len(upTo(i - 1)) \in Nat
  <2>. HIDE DEF D
  <2>1. TAKE i \in 1..n
  <2>. QED
    BY <1>1, DrawsOfNextCharacter, Zenon
<1>4. \A i \in 1..n : text[i] = Blank => i < n /\ text[i + 1] # Blank
  <2>1. Draws(text) \in Seq(D)
    <3>. HIDE DEF D
    <3>. QED
      BY <1>1, DrawsTyped
  <2>2. BlanksLead(Clean(method, length, Draws(text)))
    <3>. HIDE DEF D
    <3>. QED
      BY <1>1, <2>1, CleanBlanksLead
  <2>3. BlanksLead(text)
    BY <1>1, <2>2 DEF Spaced
  <2>. QED
    BY <2>3 DEF BlanksLead
<1>. HIDE DEF D, n, upTo
\* Either one character goes, and the caret was behind it, or a blank and the
\* draw before it.
<1>5. ASSUME caret > 0 PROVE Deleted(BackspaceFrom, caret) # <<text, caret>>
  <2>1. caret \in 1..n /\ caret - 1 \in 0..n /\ caret \in ((caret - 1) + 1)..n /\ caret - 1 < caret
    BY <1>1, <1>5
  <2>2. CASE BackspaceFrom = caret - 1
    <3>1. \/ Len(upTo(caret)) # Len(upTo(caret - 1))
          \/ upTo(caret) = upTo(caret - 1)
      BY <1>3, <2>1
    <3>2. Deleted(caret - 1, caret) # <<text, caret>>
      BY <1>2, <2>1, <3>1
    <3>. QED
      BY <2>2, <3>2
  <2>3. CASE caret > 1 /\ text[caret] = Blank /\ BackspaceFrom = caret - 2
    <3>. DEFINE from == caret - 2
    <3>1. /\ from \in 0..n /\ caret \in (from + 1)..n /\ from < caret
          /\ caret - 1 \in 1..n /\ (caret - 1) - 1 = from
      BY <1>1, <2>3
    <3>2. upTo(caret) = upTo(caret - 1)
      BY <1>3, <2>1, <2>3
    <3>3. \/ Len(upTo(caret - 1)) = Len(upTo(from)) + 1 /\ Len(upTo(from)) \in Nat
          \/ upTo(caret - 1) = upTo(from)
      BY <1>3, <3>1
    <3>. HIDE DEF from
    <3>4. \/ Len(upTo(caret)) # Len(upTo(from))
          \/ upTo(caret) = upTo(from) /\ from < caret
      BY <3>1, <3>2, <3>3
    <3>5. Deleted(from, caret) # <<text, caret>>
      BY <1>2, <3>1, <3>4
    <3>. QED
      BY <2>3, <3>5 DEF from
  <2>. QED
    BY <2>2, <2>3 DEF BackspaceFrom
\* In a text that is in order a draw stands behind every blank.
<1>6. ASSUME method # "bitbox", caret < n PROVE Deleted(caret, DeleteTo) # <<text, caret>>
  <2>. DEFINE i == caret + 1
  <2>1. i \in 1..n /\ i - 1 = caret /\ i \in (caret + 1)..n /\ caret \in 0..n
    BY <1>1, <1>6
  <2>2. CASE text[i] # Blank
    <3>1. DeleteTo = i
      BY <2>2 DEF DeleteTo
    <3>2. Len(upTo(i)) # Len(upTo(caret))
      BY <1>3, <2>1, <2>2
    <3>. HIDE DEF i
    <3>3. Deleted(caret, i) # <<text, caret>>
      BY <1>2, <2>1, <3>2
    <3>. QED
      BY <3>1, <3>3
  <2>3. CASE text[i] = Blank
    <3>. DEFINE j == caret + 2
    <3>1. i < n /\ text[j] # Blank
      BY <1>1, <1>4, <2>1, <2>3
    <3>2. DeleteTo = j
      BY <1>6, <2>3, <3>1 DEF DeleteTo, n
    <3>3. j \in 1..n /\ j - 1 = i /\ j \in (caret + 1)..n
      BY <1>1, <2>1, <3>1
    <3>4. upTo(i) = upTo(caret)
      BY <1>3, <2>1, <2>3
    <3>. HIDE DEF i
    <3>5. Len(upTo(j)) = Len(upTo(i)) + 1 /\ Len(upTo(i)) \in Nat
      BY <1>3, <3>1, <3>3
    <3>. HIDE DEF j
    <3>6. Len(upTo(j)) # Len(upTo(caret))
      BY <3>4, <3>5
    <3>7. Deleted(caret, j) # <<text, caret>>
      BY <1>2, <2>1, <3>3, <3>6
    <3>. QED
      BY <3>2, <3>7
  <2>. QED
    BY <2>2, <2>3
<1>. QED
  BY <1>5, <1>6 DEF DeletesTakeEffect, n

\* The text stays one of its method's draws and the caret inside it
\* (hodlSanitizeDiceInput).
THEOREM DrawsTextTyped == DirectDrawsSpec => []DirectDrawsTypeOK
<1>1. DrawsInv => DirectDrawsTypeOK
  BY DEF DrawsInv
<1>. QED
  BY <1>1, DrawsInvariant, PTL

\* A picked last word never outlives the words it was picked for, whatever is
\* typed, tapped, deleted or chosen in between (hodlUpdateDice).
THEOREM PickedWordStaysFit == DirectDrawsSpec => []PickedWordFits
<1>1. DrawsInv => PickedWordFits
  BY DEF DrawsInv
<1>. QED
  BY <1>1, DrawsInvariant, PTL

\* Backspace, and Delete in the methods that handle blanks, never get stuck at a
\* blank that spacing the text anew puts back (hodlHandleGroupedSeparatorDelete,
\* hodlSanitizeDPlusInput).
THEOREM DeletesAlwaysTakeEffect == DirectDrawsSpec => []DeletesTakeEffect
<1>1. DrawsInv => DeletesTakeEffect
  BY DrawsOfDeletes
<1>. QED
  BY <1>1, DrawsInvariant, PTL

-----------------------------------------------------------------------------
(* Draws: the numbers they make *)

LEMMA ValuesCounted ==
    ASSUME NEW step \in DOMAIN StepValue, NEW n \in Nat \ {0},
           {StepValue[step][x] : x \in DOMAIN StepValue[step]} = 0..n - 1
    PROVE  /\ Radix[step] = n
           /\ \A x \in DOMAIN StepValue[step] : StepValue[step][x] \in 0..Radix[step] - 1
<1>1. Cardinality(0..n - 1) = n
  BY FS_Interval
<1>. QED
  BY <1>1 DEF Radix

\* Two values, as of a coin.
LEMMA TwoSides ==
    ASSUME NEW n \in Nat, n >= 2
    PROVE  /\ {(IF x > n \div 2 THEN 1 ELSE 0) : x \in 1..n} = 0..1
           /\ {(IF x <= n \div 2 THEN 0 ELSE 1) : x \in 1..n} = 0..1
<1>1. n \div 2 \in 1..n - 1
  OBVIOUS
<1>2. 1 \in 1..n /\ n \in 1..n /\ n > n \div 2 /\ ~(1 > n \div 2) /\ 0..1 = {0, 1}
  BY <1>1
<1>3. {(IF x > n \div 2 THEN 1 ELSE 0) : x \in 1..n} = {0, 1}
  BY <1>2
<1>4. {(IF x <= n \div 2 THEN 0 ELSE 1) : x \in 1..n} = {0, 1}
  BY <1>1, <1>2
<1>. QED
  BY <1>2, <1>3, <1>4

\* The value of a draw is less than the radix of its step.
LEMMA RadixTyped ==
    ASSUME NEW step \in DOMAIN StepValue
    PROVE  /\ Radix[step] \in Nat \ {0}
           /\ \A x \in DOMAIN StepValue[step] : StepValue[step][x] \in 0..Radix[step] - 1
<1>0. /\ D8 \in Nat /\ D8 >= 2 /\ Faces \in Nat /\ Faces >= 2 /\ D8 \in Nat \ {0}
      /\ D16 \in Nat \ {0} /\ Ranks \in Nat \ {0} /\ LowRanks \in Nat \ {0} /\ LowFaces \in Nat \ {0}
  BY DirectDrawsAssumption
<1>. DEFINE Values(s) == {StepValue[s][x] : x \in DOMAIN StepValue[s]}
<1>1. ASSUME NEW n \in Nat \ {0} PROVE {x - 1 : x \in 1..n} = 0..n - 1 /\ {x : x \in 0..n - 1} = 0..n - 1
  <2>1. \A y \in 0..n - 1 : y + 1 \in 1..n /\ y = (y + 1) - 1
    BY <1>1
  <2>. QED
    BY <2>1
<1>11. ASSUME NEW n \in Nat \ {0}, Values(step) = 0..n - 1
       PROVE  /\ Radix[step] \in Nat \ {0}
              /\ \A x \in DOMAIN StepValue[step] : StepValue[step][x] \in 0..Radix[step] - 1
  BY <1>11, ValuesCounted
<1>12. ASSUME Values(step) = 0..1
       PROVE  /\ Radix[step] \in Nat \ {0}
              /\ \A x \in DOMAIN StepValue[step] : StepValue[step][x] \in 0..Radix[step] - 1
  <2>1. 2 \in Nat \ {0} /\ 2 - 1 = 1
    OBVIOUS
  <2>2. Values(step) = 0..2 - 1
    BY <1>12, <2>1
  <2>. QED
    BY <1>11, <2>1, <2>2, Zenon
<1>2. CASE step = "d8"
  <2>1. Values("d8") = {x - 1 : x \in 1..D8}
    BY DEF StepValue
  <2>2. D8 \in Nat \ {0}
    BY <1>0, Zenon
  <2>3. {x - 1 : x \in 1..D8} = 0..D8 - 1
    BY <1>1, <2>2
  <2>4. Values(step) = 0..D8 - 1
    BY <1>2, <2>1, <2>3, Zenon
  <2>. QED
    BY <1>11, <2>2, <2>4
<1>3. CASE step = "d16"
  <2>1. Values("d16") = {x : x \in 0..D16 - 1}
    BY DEF StepValue
  <2>2. D16 \in Nat \ {0}
    BY <1>0, Zenon
  <2>3. {x : x \in 0..D16 - 1} = 0..D16 - 1
    BY <1>1, <2>2
  <2>4. Values(step) = 0..D16 - 1
    BY <1>3, <2>1, <2>3, Zenon
  <2>. QED
    BY <1>11, <2>2, <2>4
<1>4. CASE step = "coin"
  <2>1. Values("coin") = {(IF x > D8 \div 2 THEN 1 ELSE 0) : x \in 1..D8}
    BY DEF StepValue
  <2>2. {(IF x > D8 \div 2 THEN 1 ELSE 0) : x \in 1..D8} = 0..1
    BY <1>0, TwoSides
  <2>3. Values(step) = 0..1
    BY <1>4, <2>1, <2>2, Zenon
  <2>. QED
    BY <2>3, <1>12
<1>5. CASE step = "ranks"
  <2>1. Values("ranks") = {x : x \in 0..Ranks - 1}
    BY DEF StepValue
  <2>2. Ranks \in Nat \ {0}
    BY <1>0, Zenon
  <2>3. {x : x \in 0..Ranks - 1} = 0..Ranks - 1
    BY <1>1, <2>2
  <2>4. Values(step) = 0..Ranks - 1
    BY <1>5, <2>1, <2>3, Zenon
  <2>. QED
    BY <1>11, <2>2, <2>4
<1>6. CASE step = "low"
  <2>1. Values("low") = {x : x \in 0..LowRanks - 1}
    BY DEF StepValue
  <2>2. LowRanks \in Nat \ {0}
    BY <1>0, Zenon
  <2>3. {x : x \in 0..LowRanks - 1} = 0..LowRanks - 1
    BY <1>1, <2>2
  <2>4. Values(step) = 0..LowRanks - 1
    BY <1>6, <2>1, <2>3, Zenon
  <2>. QED
    BY <1>11, <2>2, <2>4
<1>7. CASE step = "two"
  <2>1. Values("two") = {x : x \in 0..1}
    BY DEF StepValue
  <2>2. {x : x \in 0..1} = 0..1
    OBVIOUS
  <2>3. Values(step) = 0..1
    BY <1>7, <2>1, <2>2, Zenon
  <2>. QED
    BY <2>3, <1>12
<1>8. CASE step = "die"
  <2>1. Values("die") = {x - 1 : x \in 1..LowFaces}
    BY DEF StepValue
  <2>2. LowFaces \in Nat \ {0}
    BY <1>0, Zenon
  <2>3. {x - 1 : x \in 1..LowFaces} = 0..LowFaces - 1
    BY <1>1, <2>2
  <2>4. Values(step) = 0..LowFaces - 1
    BY <1>8, <2>1, <2>3, Zenon
  <2>. QED
    BY <1>11, <2>2, <2>4
<1>9. CASE step = "flip"
  <2>1. Values("flip") = {(IF x <= Faces \div 2 THEN 0 ELSE 1) : x \in 1..Faces}
    BY DEF StepValue
  <2>2. {(IF x <= Faces \div 2 THEN 0 ELSE 1) : x \in 1..Faces} = 0..1
    BY <1>0, TwoSides
  <2>3. Values(step) = 0..1
    BY <1>9, <2>1, <2>2, Zenon
  <2>. QED
    BY <2>3, <1>12
<1>10. step \in {"d8", "d16", "coin", "ranks", "low", "two", "die", "flip"}
  BY DEF StepValue
<1>. QED
  BY <1>2, <1>3, <1>4, <1>5, <1>6, <1>7, <1>8, <1>9, <1>10

ProductsUpTo(u, steps) ==
    /\ u \in [0..Len(steps) -> Nat \ {0}] /\ u[0] = 1
    /\ \A i \in 1..Len(steps) : u[i] = u[i - 1] * Radix[steps[i]]

LEMMA Times == ASSUME NEW a \in Nat \ {0}, NEW b \in Nat \ {0} PROVE a * b \in Nat \ {0}
OBVIOUS

LEMMA ProductBuilt ==
    ASSUME NEW steps \in Seq(DOMAIN StepValue)
    PROVE  \E u : ProductsUpTo(u, steps) /\ Product(steps) = u[Len(steps)]
<1>. DEFINE n == Len(steps)
            V == Nat \ {0}
            r == [i \in 1..n |-> Radix[steps[i]]]
            F == [p \in V \X (1..n) |-> p[1] * r[p[2]]]
            Fixed(f) == f = [i \in 0..n |-> IF i = 0 THEN 1 ELSE f[i - 1] * Radix[steps[i]]]
            upTo == CHOOSE f : Fixed(f)
<1>1. Product(steps) = upTo[n]
  BY Zenon DEF Product
<1>2. n \in Nat /\ \A i \in 1..n : steps[i] \in DOMAIN StepValue
  OBVIOUS
<1>20. 1 \in V
  OBVIOUS
<1>3. \A i \in 1..n : r[i] \in V /\ r[i] = Radix[steps[i]]
  BY <1>2, RadixTyped
<1>4. F \in StepFunctions(V, n)
  <2>1. \A p \in V \X (1..n) : p[1] * r[p[2]] \in V
    <3>. HIDE DEF r, n
    <3>. QED
      BY <1>3, Times
  <2>. HIDE DEF r, V, n
  <2>. QED
    BY <2>1 DEF StepFunctions
<1>5. PICK u : BuiltBy(u, V, 1, F, n)
  <2>. HIDE DEF F, n, V
  <2>. QED
    BY <1>2, <1>20, <1>4, StepsExist
<1>6. u \in [0..n -> V] /\ u[0] = 1 /\ \A i \in 1..n : u[i] = F[<<u[i - 1], i>>]
  BY <1>5, Zenon DEF BuiltBy
<1>7. \A i \in 1..n : u[i] = u[i - 1] * Radix[steps[i]]
  <2>1. TAKE i \in 1..n
  <2>2. u[i - 1] \in V
    BY <1>2, <1>6
  <2>3. u[i] = u[i - 1] * r[i]
    <3>. HIDE DEF n, V, r
    <3>. QED
      BY <1>6, <2>2
  <2>. QED
    BY <1>3, <2>3
<1>8. Fixed(u)
  <2>1. u = [i \in 0..n |-> u[i]]
    BY <1>6
  <2>2. \A i \in 0..n : u[i] = IF i = 0 THEN 1 ELSE u[i - 1] * Radix[steps[i]]
    BY <1>2, <1>6, <1>7
  <2>. QED
    BY <2>1, <2>2
<1>9. Fixed(upTo)
  <2>. HIDE DEF Fixed
  <2>. QED
    BY <1>8, Zenon
<1>10. \A i \in 0..n : upTo[i] = u[i]
  <2>1. upTo[0] = 1 /\ \A i \in 1..n : upTo[i] = upTo[i - 1] * Radix[steps[i]]
    <3>. HIDE DEF upTo, n
    <3>. QED
      BY <1>2, <1>9
  <2>. HIDE DEF upTo, Fixed, n
  <2>2. \A i \in 1..n : upTo[i - 1] = u[i - 1] => upTo[i] = u[i]
    BY <1>7, <2>1, Zenon
  <2>3. SameSteps(upTo, u, n)
    BY <1>6, <2>1, <2>2 DEF SameSteps
  <2>. QED
    BY <1>2, <2>3, StepsAgree
<1>11. Product(steps) = u[n] /\ ProductsUpTo(u, steps)
  <2>1. n \in 0..n
    BY <1>2
  <2>. HIDE DEF upTo
  <2>. QED
    BY <1>1, <1>6, <1>7, <1>10, <2>1 DEF ProductsUpTo
<1>. QED
  BY <1>11

LEMMA ProductTyped ==
    ASSUME NEW steps \in Seq(DOMAIN StepValue)
    PROVE  Product(steps) \in Nat \ {0} /\ (Len(steps) = 0 => Product(steps) = 1)
<1>1. PICK u : ProductsUpTo(u, steps) /\ Product(steps) = u[Len(steps)]
  BY ProductBuilt
<1>2. Len(steps) \in 0..Len(steps)
  OBVIOUS
<1>. QED
  BY <1>1, <1>2 DEF ProductsUpTo

LEMMA ProductOfOneMore ==
    ASSUME NEW s \in Seq(DOMAIN StepValue), NEW t \in Seq(DOMAIN StepValue),
           Len(t) = Len(s) + 1, \A i \in 1..Len(s) : t[i] = s[i]
    PROVE  Product(t) = Product(s) * Radix[t[Len(t)]]
<1>1. PICK u : ProductsUpTo(u, s) /\ Product(s) = u[Len(s)]
  BY ProductBuilt
<1>2. PICK w : ProductsUpTo(w, t) /\ Product(t) = w[Len(t)]
  BY ProductBuilt
<1>. DEFINE n == Len(s)
<1>3. n \in Nat /\ n + 1 \in 1..Len(t)
  OBVIOUS
<1>4. SameSteps(w, u, n)
  <2>1. w[0] = u[0]
    BY <1>1, <1>2 DEF ProductsUpTo
  <2>2. ASSUME NEW i \in 1..n, w[i - 1] = u[i - 1] PROVE w[i] = u[i]
    <3>1. i \in 1..Len(s) /\ i \in 1..Len(t) /\ t[i] = s[i]
      OBVIOUS
    <3>2. u[i] = u[i - 1] * Radix[s[i]]
      BY <1>1, <3>1, Zenon DEF ProductsUpTo
    <3>3. w[i] = w[i - 1] * Radix[t[i]]
      BY <1>2, <3>1, Zenon DEF ProductsUpTo
    <3>. QED
      BY <2>2, <3>1, <3>2, <3>3, Zenon
  <2>. QED
    BY <2>1, <2>2 DEF SameSteps
<1>5. w[n] = u[n]
  <2>. HIDE DEF n
  <2>. QED
    BY <1>3, <1>4, StepsAgree
<1>6. w[n + 1] = w[(n + 1) - 1] * Radix[t[n + 1]]
  BY <1>2, <1>3, Zenon DEF ProductsUpTo
<1>7. (n + 1) - 1 = n /\ n + 1 = Len(t)
  BY <1>3
<1>. QED
  BY <1>1, <1>2, <1>5, <1>6, <1>7, Zenon

\* Values that draws of some steps may have.
Valued(steps, values) ==
    /\ steps \in Seq(DOMAIN StepValue) /\ values \in Seq(Nat) /\ Len(values) = Len(steps)
    /\ \A i \in 1..Len(steps) : values[i] < Radix[steps[i]]
MixedUpTo(u, steps, values) ==
    /\ u \in [0..Len(values) -> Nat] /\ u[0] = 0
    /\ \A i \in 1..Len(values) : u[i] = u[i - 1] * Radix[steps[i]] + values[i]

LEMMA MixedTyped == ASSUME NEW a \in Nat, NEW b \in Nat, NEW c \in Nat PROVE a * b + c \in Nat
OBVIOUS

LEMMA MixedBuilt ==
    ASSUME NEW steps, NEW values, Valued(steps, values)
    PROVE  \E u : MixedUpTo(u, steps, values) /\ Mixed(steps, values) = u[Len(values)]
<1>. DEFINE n == Len(values)
            r == [i \in 1..n |-> Radix[steps[i]]]
            F == [p \in Nat \X (1..n) |-> p[1] * r[p[2]] + values[p[2]]]
            Fixed(f) == f = [i \in 0..n |-> IF i = 0 THEN 0 ELSE (f[i - 1] * Radix[steps[i]]) + values[i]]
            upTo == CHOOSE f : Fixed(f)
<1>1. Mixed(steps, values) = upTo[n]
  BY Zenon DEF Mixed
<1>2. n \in Nat /\ (\A i \in 1..n : steps[i] \in DOMAIN StepValue /\ values[i] \in Nat) /\ 0 \in Nat
  BY DEF Valued
<1>3. \A i \in 1..n : r[i] \in Nat /\ r[i] = Radix[steps[i]]
  BY <1>2, RadixTyped
<1>4. F \in StepFunctions(Nat, n)
  <2>1. \A p \in Nat \X (1..n) : p[1] * r[p[2]] + values[p[2]] \in Nat
    <3>. HIDE DEF r, n
    <3>. QED
      BY <1>2, <1>3, MixedTyped
  <2>. HIDE DEF r, n
  <2>. QED
    BY <2>1 DEF StepFunctions
<1>5. PICK u : BuiltBy(u, Nat, 0, F, n)
  <2>. HIDE DEF F, n
  <2>. QED
    BY <1>2, <1>4, StepsExist
<1>6. u \in [0..n -> Nat] /\ u[0] = 0 /\ \A i \in 1..n : u[i] = F[<<u[i - 1], i>>]
  BY <1>5, Zenon DEF BuiltBy
<1>7. \A i \in 1..n : u[i] = (u[i - 1] * Radix[steps[i]]) + values[i]
  <2>1. TAKE i \in 1..n
  <2>2. u[i - 1] \in Nat
    <3>1. i - 1 \in 0..n
      BY <1>2
    <3>. HIDE DEF n
    <3>. QED
      BY <1>6, <3>1
  <2>3. u[i] = u[i - 1] * r[i] + values[i]
    <3>. HIDE DEF n, r
    <3>. QED
      BY <1>6, <2>2
  <2>. QED
    BY <1>3, <2>3
<1>8. Fixed(u)
  <2>1. u = [i \in 0..n |-> u[i]]
    BY <1>6
  <2>2. \A i \in 0..n : u[i] = IF i = 0 THEN 0 ELSE (u[i - 1] * Radix[steps[i]]) + values[i]
    BY <1>2, <1>6, <1>7
  <2>. QED
    BY <2>1, <2>2
<1>9. Fixed(upTo)
  <2>. HIDE DEF Fixed
  <2>. QED
    BY <1>8, Zenon
<1>10. \A i \in 0..n : upTo[i] = u[i]
  <2>1. upTo[0] = 0 /\ \A i \in 1..n : upTo[i] = (upTo[i - 1] * Radix[steps[i]]) + values[i]
    <3>. HIDE DEF upTo, n
    <3>. QED
      BY <1>2, <1>9
  <2>. HIDE DEF upTo, Fixed, n
  <2>2. \A i \in 1..n : upTo[i - 1] = u[i - 1] => upTo[i] = u[i]
    BY <1>7, <2>1, Zenon
  <2>3. SameSteps(upTo, u, n)
    BY <1>6, <2>1, <2>2 DEF SameSteps
  <2>. QED
    BY <1>2, <2>3, StepsAgree
<1>11. Mixed(steps, values) = u[n] /\ MixedUpTo(u, steps, values)
  <2>1. n \in 0..n
    BY <1>2
  <2>. HIDE DEF upTo
  <2>. QED
    BY <1>1, <1>6, <1>7, <1>10, <2>1 DEF MixedUpTo
<1>. QED
  BY <1>11

\* One more value of radix r behind a number h: h is what is left of it.
LEMMA OneMoreValue ==
    ASSUME NEW h \in Nat, NEW r \in Nat \ {0}, NEW v \in 0..r - 1
    PROVE  (h * r + v) \div r = h /\ (h * r + v) % r = v
OBVIOUS

LEMMA DividedFurther ==
    ASSUME NEW h \in Nat, NEW r \in Nat \ {0}, NEW v \in 0..r - 1, NEW P \in Nat \ {0}
    PROVE  (h * r + v) \div (P * r) = h \div P
<1>1. h * r + v \in Nat
  BY MixedTyped
<1>2. ((h * r + v) \div r) \div P = (h * r + v) \div (r * P)
  BY <1>1, DivisionTwice
<1>3. r * P = P * r
  OBVIOUS
<1>4. (h * r + v) \div r = h
  BY OneMoreValue
<1>. QED
  BY <1>2, <1>3, <1>4, Zenon

LEMMA MixedBounded ==
    ASSUME NEW h \in Nat, NEW P \in Nat \ {0}, h < P, NEW r \in Nat \ {0}, NEW v \in 0..r - 1
    PROVE  h * r + v < P * r
<1>1. (h + 1) * r <= P * r
  OBVIOUS
<1>2. h * r + v < (h + 1) * r
  OBVIOUS
<1>3. h * r + v \in Nat /\ (h + 1) * r \in Nat /\ P * r \in Nat
  BY MixedTyped, Times
<1>. QED
  BY <1>1, <1>2, <1>3

LEMMA PartTyped ==
    ASSUME NEW S, NEW s \in Seq(S), NEW a \in 1..Len(s) + 1, NEW b \in a - 1..Len(s)
    PROVE  /\ SubSeq(s, a, b) \in Seq(S) /\ Len(SubSeq(s, a, b)) = b - a + 1
           /\ \A i \in 1..b - a + 1 : SubSeq(s, a, b)[i] = s[a + i - 1]
OBVIOUS

\* One step more multiplies by its radix.
LEMMA ProductOfPart ==
    ASSUME NEW steps \in Seq(DOMAIN StepValue),
           NEW j \in 0..Len(steps), NEW i \in j + 1..Len(steps)
    PROVE  /\ Product(SubSeq(steps, j + 1, i)) = Product(SubSeq(steps, j + 1, i - 1)) * Radix[steps[i]]
           /\ Product(SubSeq(steps, j + 1, i - 1)) \in Nat \ {0}
           /\ Radix[steps[i]] \in Nat \ {0}
<1>. DEFINE s == SubSeq(steps, j + 1, i - 1)
            t == SubSeq(steps, j + 1, i)
<1>1. /\ j + 1 \in 1..Len(steps) + 1 /\ i - 1 \in (j + 1) - 1..Len(steps) /\ i \in (j + 1) - 1..Len(steps)
      /\ (i - 1) - (j + 1) + 1 = i - 1 - j /\ i - (j + 1) + 1 = i - j
  OBVIOUS
<1>2. /\ s \in Seq(DOMAIN StepValue) /\ Len(s) = i - 1 - j
      /\ \A k \in 1..i - 1 - j : s[k] = steps[j + 1 + k - 1]
  BY <1>1, PartTyped
<1>3. /\ t \in Seq(DOMAIN StepValue) /\ Len(t) = i - j
      /\ \A k \in 1..i - j : t[k] = steps[j + 1 + k - 1]
  <2>1. /\ t \in Seq(DOMAIN StepValue) /\ Len(t) = i - (j + 1) + 1
        /\ \A k \in 1..i - (j + 1) + 1 : t[k] = steps[j + 1 + k - 1]
    BY <1>1, PartTyped
  <2>. HIDE DEF t
  <2>. QED
    BY <1>1, <2>1
<1>. HIDE DEF s, t
<1>4. i - j \in 1..i - j /\ j + 1 + (i - j) - 1 = i
  <2>1. i \in Int /\ j \in Int /\ j + 1 <= i
    OBVIOUS
  <2>. QED
    BY <2>1
<1>5. t[Len(t)] = steps[i]
  BY <1>3, <1>4
<1>6. Len(t) = Len(s) + 1 /\ \A k \in 1..Len(s) : t[k] = s[k]
  BY <1>2, <1>3
<1>7. Product(t) = Product(s) * Radix[t[Len(t)]]
  BY <1>2, <1>3, <1>6, ProductOfOneMore
<1>8. Product(s) \in Nat \ {0}
  BY <1>2, ProductTyped
<1>9. Radix[steps[i]] \in Nat \ {0}
  <2>1. steps[i] \in DOMAIN StepValue
    OBVIOUS
  <2>. QED
    BY <2>1, RadixTyped
<1>. QED
  BY <1>5, <1>7, <1>8, <1>9, Zenon DEF s, t

LEMMA ProductOfNoPart ==
    ASSUME NEW steps \in Seq(DOMAIN StepValue), NEW j \in 0..Len(steps)
    PROVE  Product(SubSeq(steps, j + 1, j)) = 1
<1>1. /\ SubSeq(steps, j + 1, j) \in Seq(DOMAIN StepValue)
      /\ Len(SubSeq(steps, j + 1, j)) = 0
  OBVIOUS
<1>. QED
  BY <1>1, ProductTyped

\* After i values the number is the one after j, followed by what lies between.
LEMMA MixedDivides ==
    ASSUME NEW steps, NEW values, Valued(steps, values),
           NEW u, MixedUpTo(u, steps, values), NEW j \in 0..Len(steps)
    PROVE  \A i \in j..Len(steps) : u[i] \div Product(SubSeq(steps, j + 1, i)) = u[j]
<1>. DEFINE n == Len(steps)
            S == {k \in 0..n - j : u[j + k] \div Product(SubSeq(steps, j + 1, j + k)) = u[j]}
<1>1. n \in Nat /\ n - j \in Nat /\ Len(values) = n /\ steps \in Seq(DOMAIN StepValue)
  BY DEF Valued
<1>2. \A i \in 0..n : u[i] \in Nat
  BY <1>1 DEF MixedUpTo
<1>3. 0 \in S
  <2>1. j + 0 = j /\ 0 \in 0..n - j /\ \A a \in Nat : a \div 1 = a
    BY <1>1
  <2>2. Product(SubSeq(steps, j + 1, j)) = 1
    BY <1>1, ProductOfNoPart
  <2>3. u[j] \in Nat
    BY <1>2
  <2>. QED
    BY <2>1, <2>2, <2>3
<1>4. ASSUME NEW k \in 1..n - j, k - 1 \in S PROVE k \in S
  <2>. DEFINE i == j + k
              P == Product(SubSeq(steps, j + 1, i - 1))
              r == Radix[steps[i]]
              h == u[i - 1]
              v == values[i]
  <2>1. i \in j + 1..n /\ i \in 1..n /\ i - 1 \in 0..n /\ j + (k - 1) = i - 1
    BY <1>1
  <2>2. Product(SubSeq(steps, j + 1, i)) = P * r /\ P \in Nat \ {0} /\ r \in Nat \ {0}
    <3>. HIDE DEF i
    <3>. QED
      BY <1>1, <2>1, ProductOfPart
  <2>3. h \in Nat
    <3>. HIDE DEF i
    <3>. QED
      BY <1>2, <2>1
  <2>4. v \in 0..r - 1
    <3>1. v \in Nat /\ v < r
      <4>. HIDE DEF i
      <4>. QED
        BY <1>1, <2>1, SMTT(30) DEF Valued
    <3>. HIDE DEF v, r
    <3>. QED
      BY <2>2, <3>1
  <2>5. u[i] = h * r + v
    <3>. HIDE DEF i
    <3>. QED
      BY <1>1, <2>1, Zenon DEF MixedUpTo
  <2>6. h \div P = u[j]
    BY <1>4, <2>1
  <2>. HIDE DEF P, r, h, v
  <2>7. (h * r + v) \div (P * r) = h \div P
    BY <2>2, <2>3, <2>4, DividedFurther
  <2>8. u[i] \div Product(SubSeq(steps, j + 1, i)) = u[j]
    BY <2>2, <2>5, <2>6, <2>7, Zenon
  <2>9. k \in 0..n - j
    BY <1>1
  <2>. QED
    BY <2>8, <2>9
<1>5. 0..n - j \subseteq S
  <2>. HIDE DEF S, n
  <2>. QED
    BY <1>1, <1>3, <1>4, UpTo
<1>6. ASSUME NEW i \in j..n PROVE u[i] \div Product(SubSeq(steps, j + 1, i)) = u[j]
  <2>1. i - j \in 0..n - j /\ j + (i - j) = i
    BY <1>1
  <2>2. i - j \in S
    <3>. HIDE DEF S
    <3>. QED
      BY <1>5, <2>1
  <2>. QED
    BY <2>1, <2>2
<1>. QED
  BY <1>6

\* The number is below the number of transcripts.
LEMMA MixedBelow ==
    ASSUME NEW steps, NEW values, Valued(steps, values)
    PROVE  Mixed(steps, values) \in 0..Product(steps) - 1
<1>. DEFINE n == Len(steps)
<1>1. PICK u : MixedUpTo(u, steps, values) /\ Mixed(steps, values) = u[Len(values)]
  BY MixedBuilt
<1>2. n \in Nat /\ Len(values) = n /\ steps \in Seq(DOMAIN StepValue)
  BY DEF Valued
<1>3. PICK w : ProductsUpTo(w, steps) /\ Product(steps) = w[n]
  BY <1>2, ProductBuilt
<1>. DEFINE S == {i \in 0..n : u[i] < w[i]}
<1>4. \A i \in 0..n : u[i] \in Nat /\ w[i] \in Nat \ {0}
  BY <1>1, <1>2, <1>3 DEF MixedUpTo, ProductsUpTo
<1>5. 0 \in S
  <2>1. u[0] = 0 /\ w[0] = 1
    BY <1>1, <1>3 DEF MixedUpTo, ProductsUpTo
  <2>. QED
    BY <1>2, <2>1
<1>6. ASSUME NEW i \in 1..n, i - 1 \in S PROVE i \in S
  <2>. DEFINE P == w[i - 1]
              r == Radix[steps[i]]
              h == u[i - 1]
              v == values[i]
  <2>1. i \in 0..n /\ i - 1 \in 0..n
    BY <1>2
  <2>2. h \in Nat /\ P \in Nat \ {0}
    <3>. HIDE DEF n
    <3>. QED
      BY <1>4, <2>1
  <2>3. steps[i] \in DOMAIN StepValue /\ v \in Nat /\ v < r
    BY <1>2 DEF Valued
  <2>4. r \in Nat \ {0}
    BY <2>3, RadixTyped
  <2>5. u[i] = h * r + v /\ w[i] = P * r
    BY <1>1, <1>2, <1>3, Zenon DEF MixedUpTo, ProductsUpTo
  <2>6. h < P
    BY <1>6
  <2>. HIDE DEF P, r, h, v
  <2>7. v \in 0..r - 1
    BY <2>3, <2>4
  <2>8. h * r + v < P * r
    BY <2>2, <2>4, <2>6, <2>7, MixedBounded
  <2>. HIDE DEF n
  <2>. QED
    BY <2>1, <2>5, <2>8
<1>7. n \in S
  <2>1. n \in 0..n
    BY <1>2
  <2>. HIDE DEF S, n
  <2>2. 0..n \subseteq S
    BY <1>2, <1>5, <1>6, UpTo
  <2>. QED
    BY <2>1, <2>2
<1>8. u[n] < w[n] /\ u[n] \in Nat /\ w[n] \in Nat
  BY <1>4, <1>7
<1>. HIDE DEF n
<1>. QED
  BY <1>1, <1>2, <1>3, <1>8

\* Every value can be read back from the number.
LEMMA MixedRecovers ==
    ASSUME NEW steps, NEW values, Valued(steps, values),
           NEW j \in 1..Len(steps)
    PROVE  ValuesOf(steps, Mixed(steps, values))[j] = values[j]
<1>. DEFINE n == Len(steps)
            r == Radix[steps[j]]
<1>1. PICK u : MixedUpTo(u, steps, values) /\ Mixed(steps, values) = u[Len(values)]
  BY MixedBuilt
<1>2. n \in Nat /\ Len(values) = n /\ steps \in Seq(DOMAIN StepValue) /\ j \in DOMAIN steps
  BY DEF Valued
<1>3. ValuesOf(steps, u[n])[j] = (u[n] \div Product(SubSeq(steps, j + 1, n))) % r
  BY <1>2, Zenon DEF ValuesOf
<1>4. u[n] \div Product(SubSeq(steps, j + 1, n)) = u[j]
  <2>1. j \in 0..n /\ n \in j..n
    BY <1>2
  <2>. HIDE DEF n
  <2>. QED
    BY <1>1, <2>1, MixedDivides DEF n
<1>5. u[j] = u[j - 1] * r + values[j]
  BY <1>1, <1>2, Zenon DEF MixedUpTo
<1>6. u[j - 1] \in Nat
  <2>1. j - 1 \in 0..n
    BY <1>2
  <2>. QED
    BY <1>1, <1>2, <2>1 DEF MixedUpTo
<1>7. values[j] \in Nat /\ values[j] < r /\ steps[j] \in DOMAIN StepValue
  BY <1>2 DEF Valued
<1>8. r \in Nat \ {0}
  BY <1>7, RadixTyped
<1>. HIDE DEF r
<1>9. values[j] \in 0..r - 1
  BY <1>7, <1>8
<1>10. u[j] % r = values[j]
  <2>1. (u[j - 1] * r + values[j]) % r = values[j]
    BY <1>6, <1>8, <1>9, OneMoreValue
  <2>. QED
    BY <1>5, <2>1, Zenon
<1>. QED
  BY <1>1, <1>2, <1>3, <1>4, <1>10, Zenon

-----------------------------------------------------------------------------
(* Draws: what a complete transcript selects *)

\* The places of the words' draws and of the final draws, w words of g draws.
LEMMA PlaceOfDraw ==
    ASSUME NEW p \in Nat \ {0}, NEW g \in Nat \ {0}, NEW i \in Nat \ {0}
    PROVE  /\ (i - 1) \div g \in Nat /\ ((i - 1) % g) + 1 \in 1..g
           /\ i = ((i - 1) \div g) * g + ((i - 1) % g) + 1
           /\ i <= p * g <=> ((i - 1) \div g) + 1 <= p
<1>. DEFINE q == (i - 1) \div g
            r == (i - 1) % g
<1>1. i - 1 \in Nat
  OBVIOUS
<1>2. q \in Nat /\ r \in 0..g - 1 /\ i - 1 = q * g + r
  BY <1>1
<1>. HIDE DEF q, r
<1>3. r + 1 \in 1..g /\ i = q * g + r + 1
  <2>1. q * g \in Nat
    BY <1>2, MixedTyped
  <2>. QED
    BY <1>2, <2>1
<1>4. CASE q + 1 <= p
  <2>1. (q + 1) * g <= p * g /\ (q + 1) * g = q * g + g /\ q * g \in Nat /\ p * g \in Nat
    BY <1>2, <1>4
  <2>2. i <= p * g
    <3>. DEFINE a == q * g
                b == (q + 1) * g
                c == p * g
    <3>1. b <= c /\ b = a + g /\ a \in Nat /\ c \in Nat /\ r + 1 <= g /\ r \in Nat /\ i = a + r + 1
      BY <1>2, <1>3, <2>1
    <3>. HIDE DEF a, b, c
    <3>2. i <= c
      BY <3>1
    <3>. QED
      BY <3>2 DEF c
  <2>. QED
    BY <1>2, <1>3, <1>4, <2>2 DEF q, r
<1>5. CASE ~(q + 1 <= p)
  <2>1. p * g <= q * g /\ q * g \in Nat /\ p * g \in Nat
    BY <1>2, <1>5
  <2>2. ~(i <= p * g)
    BY <1>2, <1>3, <2>1
  <2>. QED
    BY <1>2, <1>3, <1>5, <2>2 DEF q, r
<1>. QED
  BY <1>4, <1>5

LEMMA TimesTyped == ASSUME NEW a \in Nat, NEW b \in Nat PROVE a * b \in Nat
OBVIOUS

LEMMA NextPlace ==
    ASSUME NEW a \in Nat, NEW g \in Nat, NEW p \in Nat, a + 1 <= p
    PROVE  a * g + g <= p * g
<1>1. (a + 1) * g <= p * g
  OBVIOUS
<1>2. (a + 1) * g = a * g + g
  OBVIOUS
<1>. QED
  BY <1>1, <1>2

InPlace(i0, g, j) == (((i0 + j) - 1) % g) + 1 = j
LEMMA PlaceInWord ==
    ASSUME NEW g \in Nat \ {0}, NEW q \in Nat, NEW j \in 1..g, NEW i0, i0 = q * g
    PROVE  InPlace(i0, g, j)
<1>1. j - 1 \in 0..g - 1 /\ q * g \in Nat /\ (i0 + j) - 1 = q * g + (j - 1)
  OBVIOUS
<1>2. (q * g + (j - 1)) % g = j - 1
  BY <1>1, OneMoreValue
<1>. QED
  BY <1>1, <1>2 DEF InPlace

LEMMA ConcatAt ==
    ASSUME NEW S, NEW s \in Seq(S), NEW t \in Seq(S)
    PROVE  /\ \A i \in 1..Len(s) : (s \o t)[i] = s[i]
           /\ \A i \in 1..Len(t) : (s \o t)[Len(s) + i] = t[i]
OBVIOUS

\* The steps are those of the words, one word after another, and then the final ones.
StepsLaid(steps, W, F, p, g) ==
    /\ p \in Nat \ {0} /\ g \in Nat \ {0} /\ p * g \in Nat
    /\ W \in Seq(DOMAIN StepValue) /\ F \in Seq(DOMAIN StepValue)
    /\ steps \in Seq(DOMAIN StepValue) /\ Len(steps) = p * g + Len(F)
    /\ \A i \in 1..p * g : steps[i] = W[((i - 1) % g) + 1]
    /\ \A i \in 1..Len(F) : steps[p * g + i] = F[i]

LEMMA StepsStand ==
    ASSUME NEW m \in Methods, NEW l \in Lengths
    PROVE  StepsLaid(Steps[m][l], WordSteps[m], FinalSteps[m][l], Partial[l], Group(m))
<1>. DEFINE steps == Steps[m][l]
            W == WordSteps[m]
            F == FinalSteps[m][l]
            p == Partial[l]
            g == Group(m)
            before == p * g
            first == [i \in 1..before |-> W[((i - 1) % g) + 1]]
<1>1. W \in Seq(DOMAIN StepValue) /\ W # <<>> /\ F \in Seq(DOMAIN StepValue) /\ p \in Nat \ {0}
  BY DirectDrawsAssumption
<1>2. g = Len(W)
  BY DEF Group
<1>3. g \in Nat \ {0}
  <2>. HIDE DEF W, g
  <2>. QED
    BY <1>1, <1>2
<1>4. steps = first \o F
  BY Zenon DEF Steps
<1>. HIDE DEF W, F, p, g
<1>5. before \in Nat
  BY <1>1, <1>3, MixedTyped
<1>6. \A i \in 1..before : W[((i - 1) % g) + 1] \in DOMAIN StepValue
  <2>1. TAKE i \in 1..before
  <2>2. i \in Nat \ {0}
    BY <1>5
  <2>3. ((i - 1) % g) + 1 \in 1..g
    BY <1>1, <1>3, <2>2, PlaceOfDraw
  <2>. QED
    BY <1>1, <1>2, <2>3
<1>7. first \in Seq(DOMAIN StepValue) /\ Len(first) = before /\ \A i \in 1..before : first[i] = W[((i - 1) % g) + 1]
  <2>. HIDE DEF before
  <2>. QED
    BY <1>5, <1>6
<1>. HIDE DEF first, before
<1>8. /\ first \o F \in Seq(DOMAIN StepValue) /\ Len(first \o F) = before + Len(F)
      /\ \A i \in 1..before : (first \o F)[i] = first[i]
      /\ \A i \in 1..Len(F) : (first \o F)[before + i] = F[i]
  <2>1. /\ \A i \in 1..Len(first) : (first \o F)[i] = first[i]
        /\ \A i \in 1..Len(F) : (first \o F)[Len(first) + i] = F[i]
    BY <1>1, <1>7, ConcatAt
  <2>2. first \o F \in Seq(DOMAIN StepValue) /\ Len(first \o F) = Len(first) + Len(F)
    <3>. DEFINE S == DOMAIN StepValue
    <3>1. first \in Seq(S) /\ F \in Seq(S)
      BY <1>1, <1>7
    <3>. HIDE DEF S
    <3>2. first \o F \in Seq(S) /\ Len(first \o F) = Len(first) + Len(F)
      BY <3>1, ConcatTyped
    <3>. QED
      BY <3>2 DEF S
  <2>. QED
    BY <1>7, <2>1, <2>2, Zenon
<1>. QED
  <2>. HIDE DEF steps
  <2>1. StepsLaid(steps, W, F, p, g)
    BY <1>1, <1>3, <1>4, <1>5, <1>7, <1>8 DEF before, StepsLaid
  <2>. QED
    BY <2>1 DEF steps, W, F, p, g

CountedUpTo(u, D, l, draws) ==
    LET steps == Steps["bitbox"][l] IN
    /\ u \in [0..Len(draws) -> Seq(D)] /\ u[0] = <<>>
    /\ \A i \in 1..Len(draws) :
         u[i] = IF Len(u[i - 1]) < Len(steps) /\ Fits(steps[Len(u[i - 1]) + 1], draws[i])
                THEN Append(u[i - 1], draws[i]) ELSE u[i - 1]

\* The draws that count are collected draw by draw.
LEMMA CountedBuilt ==
    ASSUME NEW D, NEW draws \in Seq(D), NEW l
    PROVE  \E u : CountedUpTo(u, D, l, draws) /\ Counted(l, draws) = u[Len(draws)]
<1>. DEFINE n == Len(draws)
            steps == Steps["bitbox"][l]
            V == Seq(D)
            step(q, i) == IF Len(q) < Len(steps) /\ Fits(steps[Len(q) + 1], draws[i])
                          THEN Append(q, draws[i]) ELSE q
            F == [p \in V \X (1..n) |-> step(p[1], p[2])]
            Fixed(f) == f = [i \in 0..n |-> IF i = 0 THEN <<>> ELSE step(f[i - 1], i)]
            upTo == CHOOSE f : Fixed(f)
<1>1. Counted(l, draws) = upTo[n]
  BY Zenon DEF Counted
<1>2. n \in Nat /\ <<>> \in V
  OBVIOUS
<1>3. \A q \in V, i \in 1..n : step(q, i) \in V
  <2>1. TAKE q \in V, i \in 1..n
  <2>2. draws[i] \in D
    OBVIOUS
  <2>3. Append(q, draws[i]) \in V
    BY <2>2, AppendTyped
  <2>. QED
    BY <2>3, Zenon
<1>4. F \in StepFunctions(V, n)
  <2>. HIDE DEF V, step
  <2>. QED
    BY <1>3 DEF StepFunctions
<1>5. PICK u : BuiltBy(u, V, <<>>, F, n)
  <2>. HIDE DEF V, F, n
  <2>. QED
    BY <1>2, <1>4, StepsExist
<1>6. u \in [0..n -> V] /\ u[0] = <<>> /\ \A i \in 1..n : u[i] = F[<<u[i - 1], i>>]
  BY <1>5, Zenon DEF BuiltBy
<1>7. \A i \in 1..n : u[i - 1] \in V /\ u[i] = step(u[i - 1], i)
  <2>1. TAKE i \in 1..n
  <2>2. i - 1 \in 0..n
    BY <1>2
  <2>3. u[i - 1] \in V
    BY <1>6, <2>2
  <2>. HIDE DEF V, step, n
  <2>. QED
    BY <1>6, <2>3
<1>8. Fixed(u)
  <2>1. u = [i \in 0..n |-> u[i]]
    BY <1>6
  <2>2. \A i \in 0..n : u[i] = IF i = 0 THEN <<>> ELSE step(u[i - 1], i)
    <3>. HIDE DEF step, V, n
    <3>. QED
      BY <1>2, <1>6, <1>7
  <2>. HIDE DEF V, n, step
  <2>. QED
    BY <2>1, <2>2
<1>9. Fixed(upTo)
  <2>. HIDE DEF Fixed
  <2>. QED
    BY <1>8, Zenon
<1>10. \A i \in 0..n : upTo[i] = u[i]
  <2>1. upTo[0] = <<>> /\ \A i \in 1..n : upTo[i] = step(upTo[i - 1], i)
    <3>. HIDE DEF upTo, step, n, V
    <3>. QED
      BY <1>2, <1>9
  <2>. HIDE DEF upTo, step, V, Fixed, n
  <2>2. \A i \in 1..n : upTo[i - 1] = u[i - 1] => upTo[i] = u[i]
    BY <1>7, <2>1
  <2>3. SameSteps(upTo, u, n)
    BY <1>6, <2>1, <2>2 DEF SameSteps
  <2>. QED
    BY <1>2, <2>3, StepsAgree
<1>11. Counted(l, draws) = u[n]
  <2>1. n \in 0..n
    BY <1>2
  <2>. HIDE DEF upTo
  <2>. QED
    BY <1>1, <1>10, <2>1
<1>12. CountedUpTo(u, D, l, draws)
  BY <1>6, <1>7, Zenon DEF CountedUpTo
<1>. QED
  BY <1>11, <1>12

\* Every draw that counts fits the step of its place.
LEMMA CountedFit ==
    ASSUME "bitbox" \in Methods, NEW l \in Lengths, NEW D, NEW draws \in Seq(D)
    PROVE  LET counted == Counted(l, draws)
               steps == Steps["bitbox"][l]
           IN  /\ counted \in Seq(D) /\ Len(counted) <= Len(steps)
               /\ \A j \in 1..Len(counted) : Fits(steps[j], counted[j])
<1>. DEFINE n == Len(draws)
            steps == Steps["bitbox"][l]
            Good(q) == Len(q) <= Len(steps) /\ \A j \in 1..Len(q) : Fits(steps[j], q[j])
<1>1. PICK u : CountedUpTo(u, D, l, draws) /\ Counted(l, draws) = u[n]
  BY CountedBuilt
<1>2. n \in Nat /\ Len(steps) \in Nat
  <2>1. steps \in Seq(DOMAIN StepValue)
    BY StepsStand, Zenon DEF StepsLaid
  <2>. HIDE DEF steps
  <2>. QED
    BY <2>1
<1>3. u \in [0..n -> Seq(D)] /\ u[0] = <<>>
  BY <1>1, Zenon DEF CountedUpTo
<1>4. \A i \in 1..n : u[i] = IF Len(u[i - 1]) < Len(steps) /\ Fits(steps[Len(u[i - 1]) + 1], draws[i])
                            THEN Append(u[i - 1], draws[i]) ELSE u[i - 1]
  BY <1>1, Zenon DEF CountedUpTo
<1>. HIDE DEF steps
<1>. DEFINE S == {i \in 0..n : Good(u[i])}
<1>5. 0 \in S
  BY <1>2, <1>3
<1>6. ASSUME NEW i \in 1..n, i - 1 \in S PROVE i \in S
  <2>. DEFINE q == u[i - 1]
              x == draws[i]
  <2>1. i - 1 \in 0..n /\ i \in 0..n /\ x \in D
    BY <1>2
  <2>2. q \in Seq(D)
    <3>. HIDE DEF n
    <3>. QED
      BY <1>3, <2>1
  <2>3. Good(q)
    BY <1>6
  <2>4. u[i] = IF Len(q) < Len(steps) /\ Fits(steps[Len(q) + 1], x) THEN Append(q, x) ELSE q
    BY <1>4
  <2>. HIDE DEF q, x
  <2>5. CASE Len(q) < Len(steps) /\ Fits(steps[Len(q) + 1], x)
    <3>. DEFINE p == Append(q, x)
    <3>1. p \in Seq(D) /\ Len(p) = Len(q) + 1 /\ p[Len(q) + 1] = x /\ \A j \in 1..Len(q) : p[j] = q[j]
      BY <2>1, <2>2, AppendTyped, AppendKeeps
    <3>2. Len(q) \in Nat
      BY <2>2
    <3>. HIDE DEF p
    <3>3. Good(p)
      <4>1. Len(p) <= Len(steps)
        BY <1>2, <2>5, <3>1, <3>2
      <4>2. ASSUME NEW j \in 1..Len(p) PROVE Fits(steps[j], p[j])
        <5>1. CASE j = Len(q) + 1
          BY <2>5, <3>1, <5>1, Zenon
        <5>2. CASE j # Len(q) + 1
          <6>1. j \in 1..Len(q)
            BY <3>1, <3>2, <5>2
          <6>. QED
            BY <2>3, <3>1, <6>1
        <5>. QED
          BY <5>1, <5>2
      <4>. QED
        BY <4>1, <4>2
    <3>4. u[i] = p
      BY <2>4, <2>5, Zenon DEF p
    <3>. QED
      BY <2>1, <3>3, <3>4
  <2>6. CASE ~(Len(q) < Len(steps) /\ Fits(steps[Len(q) + 1], x))
    <3>1. u[i] = q
      BY <2>4, <2>6, Zenon
    <3>. QED
      BY <2>1, <2>3, <3>1
  <2>. QED
    BY <2>5, <2>6
<1>7. n \in S
  <2>1. n \in 0..n
    BY <1>2
  <2>. HIDE DEF S, n
  <2>2. 0..n \subseteq S
    BY <1>2, <1>5, <1>6, UpTo
  <2>. QED
    BY <2>1, <2>2
<1>8. n \in 0..n /\ u[n] \in Seq(D)
  <2>1. n \in 0..n
    BY <1>2
  <2>. HIDE DEF n
  <2>. QED
    BY <1>3, <2>1
<1>. HIDE DEF n
<1>. QED
  BY <1>1, <1>7, <1>8 DEF steps

\* A complete transcript has a draw for each step, and it fits.
LEMMA CompleteFits ==
    ASSUME NEW m \in Methods, NEW l \in Lengths, NEW D, NEW draws \in Seq(D),
           Complete(m, l, draws)
    PROVE  /\ Drawn(m, l, draws) \in Seq(D) /\ Len(Drawn(m, l, draws)) = Len(Steps[m][l])
           /\ \A i \in 1..Len(Steps[m][l]) : Fits(Steps[m][l][i], Drawn(m, l, draws)[i])
<1>. DEFINE steps == Steps[m][l]
            drawn == Drawn(m, l, draws)
<1>1. Len(drawn) = Len(steps) /\ (m = "bitbox" \/ Invalid(m, l, draws) = 0)
  BY Zenon DEF Complete
<1>2. CASE m = "bitbox"
  <2>1. drawn = Counted(l, draws)
    BY <1>2, Zenon DEF Drawn
  <2>2. /\ Counted(l, draws) \in Seq(D)
        /\ \A j \in 1..Len(Counted(l, draws)) : Fits(steps[j], Counted(l, draws)[j])
    BY <1>2, CountedFit
  <2>. HIDE DEF drawn, steps
  <2>. QED
    BY <1>1, <2>1, <2>2 DEF drawn, steps
<1>3. CASE m # "bitbox"
  <2>. DEFINE wrong == {i \in DOMAIN draws : i > Len(steps) \/ ~Fits(steps[i], draws[i])}
  <2>1. drawn = draws /\ Cardinality(wrong) = 0
    BY <1>1, <1>3, Zenon DEF Drawn, Invalid
  <2>2. IsFiniteSet(DOMAIN draws) /\ wrong \subseteq DOMAIN draws /\ DOMAIN draws = 1..Len(draws)
    BY FS_Interval
  <2>3. IsFiniteSet(wrong)
    BY <2>2, FS_Subset
  <2>4. wrong = {}
    <3>. HIDE DEF wrong
    <3>. QED
      BY <2>1, <2>3, FS_EmptySet
  <2>. HIDE DEF steps
  <2>5. \A i \in 1..Len(draws) : Fits(steps[i], draws[i])
    BY <2>2, <2>4
  <2>. QED
    BY <1>1, <2>1, <2>5 DEF steps
<1>. QED
  BY <1>2, <1>3

\* The values of the draws from the one after i0, by steps that stand there.
ValuesAt(m, l, draws, i0, part) ==
    [j \in DOMAIN part |-> StepValue[part[j]][Drawn(m, l, draws)[i0 + j]]]
StandsAt(m, l, i0, part) ==
    /\ i0 \in Nat /\ part \in Seq(DOMAIN StepValue)
    /\ \A j \in 1..Len(part) : i0 + j \in 1..Len(Steps[m][l]) /\ Steps[m][l][i0 + j] = part[j]

LEMMA ValuesFit ==
    ASSUME NEW m \in Methods, NEW l \in Lengths, NEW D, NEW draws \in Seq(D),
           Complete(m, l, draws), NEW i0, NEW part, StandsAt(m, l, i0, part)
    PROVE  Valued(part, ValuesAt(m, l, draws, i0, part))
<1>. DEFINE drawn == Drawn(m, l, draws)
            steps == Steps[m][l]
            values == ValuesAt(m, l, draws, i0, part)
<1>1. \A i \in 1..Len(steps) : Fits(steps[i], drawn[i])
  BY CompleteFits
<1>2. part \in Seq(DOMAIN StepValue)
  BY DEF StandsAt
<1>3. DOMAIN part = 1..Len(part) /\ Len(part) \in Nat /\ \A j \in 1..Len(part) : part[j] \in DOMAIN StepValue
  BY <1>2
<1>4. values = [j \in DOMAIN part |-> StepValue[part[j]][drawn[i0 + j]]]
  BY Zenon DEF ValuesAt
<1>. HIDE DEF drawn, steps, values
<1>5. \A j \in 1..Len(part) : values[j] = StepValue[part[j]][drawn[i0 + j]]
  BY <1>3, <1>4, Zenon
<1>6. ASSUME NEW j \in 1..Len(part) PROVE values[j] \in Nat /\ values[j] < Radix[part[j]]
  <2>1. drawn[i0 + j] \in DOMAIN StepValue[part[j]]
    BY <1>1, Zenon DEF Fits, steps, StandsAt
  <2>2. /\ StepValue[part[j]][drawn[i0 + j]] \in 0..Radix[part[j]] - 1
        /\ Radix[part[j]] \in Nat \ {0}
    BY <1>3, <2>1, RadixTyped
  <2>3. values[j] = StepValue[part[j]][drawn[i0 + j]]
    BY <1>5
  <2>. QED
    BY <2>2, <2>3
<1>7. values = [j \in 1..Len(part) |-> values[j]]
  BY <1>3, <1>4, <1>5, Zenon
<1>8. values \in Seq(Nat) /\ Len(values) = Len(part)
  BY <1>3, <1>6, <1>7
<1>9. Valued(part, values)
  BY <1>2, <1>6, <1>8 DEF Valued
<1>. QED
  BY <1>9 DEF values

\* The steps of word w stand behind those of the words before it.
LEMMA WordStands ==
    ASSUME NEW m \in Methods, NEW l \in Lengths, NEW w \in 1..Partial[l]
    PROVE  StandsAt(m, l, (w - 1) * Group(m), WordSteps[m])
<1>. DEFINE W == WordSteps[m]
            g == Group(m)
            p == Partial[l]
            steps == Steps[m][l]
            F == FinalSteps[m][l]
            i0 == (w - 1) * g
            all == p * g
<1>1. /\ p \in Nat \ {0} /\ g \in Nat \ {0} /\ W \in Seq(DOMAIN StepValue)
      /\ Len(steps) = all + Len(F) /\ F \in Seq(DOMAIN StepValue) /\ all \in Nat
      /\ \A i \in 1..all : steps[i] = W[((i - 1) % g) + 1]
  <2>1. StepsLaid(steps, W, F, p, g)
    BY StepsStand, Zenon
  <2>. QED
    BY <2>1, Zenon DEF StepsLaid
<1>2. Len(W) = g /\ Len(F) \in Nat
  BY <1>1 DEF Group
<1>3. w - 1 \in Nat /\ (w - 1) + 1 <= p
  BY <1>1
<1>. HIDE DEF W, g, p, F, steps
<1>4. i0 \in Nat /\ i0 + g <= all
  <2>. DEFINE a == w - 1
  <2>1. a \in Nat /\ a + 1 <= p /\ g \in Nat /\ p \in Nat
    BY <1>1, <1>3
  <2>. HIDE DEF a
  <2>2. a * g \in Nat /\ a * g + g <= p * g
    BY <2>1, TimesTyped, NextPlace
  <2>. QED
    BY <2>2 DEF a
<1>5. ASSUME NEW j \in 1..g PROVE i0 + j \in 1..Len(steps) /\ steps[i0 + j] = W[j]
  <2>1. (((i0 + j) - 1) % g) + 1 = j
    <3>. DEFINE q == w - 1
    <3>1. q \in Nat /\ i0 = q * g
      BY <1>3
    <3>2. g \in Nat \ {0} /\ j \in 1..g
      BY <1>1, Zenon
    <3>. HIDE DEF q, i0
    <3>3. InPlace(i0, g, j)
      BY <3>1, <3>2, PlaceInWord, Zenon
    <3>. QED
      BY <3>3, Zenon DEF InPlace
  <2>. HIDE DEF i0, all
  <2>2. i0 + j \in 1..all /\ i0 + j \in 1..Len(steps)
    BY <1>1, <1>2, <1>4
  <2>3. steps[i0 + j] = W[(((i0 + j) - 1) % g) + 1]
    BY <1>1, <2>2, Zenon
  <2>. QED
    BY <2>1, <2>2, <2>3, Zenon
<1>. HIDE DEF i0
<1>6. StandsAt(m, l, i0, W)
  BY <1>1, <1>2, <1>4, <1>5, Zenon DEF StandsAt, steps
<1>. QED
  BY <1>6 DEF i0, W, g

LEMMA FinalStand ==
    ASSUME NEW m \in Methods, NEW l \in Lengths
    PROVE  StandsAt(m, l, Partial[l] * Group(m), FinalSteps[m][l])
<1>. DEFINE F == FinalSteps[m][l]
            steps == Steps[m][l]
            i0 == Partial[l] * Group(m)
<1>1. /\ i0 \in Nat /\ F \in Seq(DOMAIN StepValue) /\ Len(steps) = i0 + Len(F)
      /\ \A j \in 1..Len(F) : steps[i0 + j] = F[j]
  <2>1. StepsLaid(steps, WordSteps[m], F, Partial[l], Group(m))
    BY StepsStand, Zenon
  <2>. QED
    BY <2>1, Zenon DEF StepsLaid
<1>. HIDE DEF F, steps, i0
<1>2. Len(F) \in Nat
  BY <1>1
<1>3. \A j \in 1..Len(F) : i0 + j \in 1..Len(steps)
  BY <1>1, <1>2
<1>4. StandsAt(m, l, i0, F)
  BY <1>1, <1>3, Zenon DEF StandsAt, steps
<1>. QED
  BY <1>4 DEF F, i0

\* A draw of a word is read back from that word, and one behind the words from
\* the final index.
LEMMA DrawReadBack ==
    ASSUME method \in Methods, length \in Lengths,
           NEW D, NEW draws \in Seq(D), Complete(method, length, draws),
           NEW i \in 1..Len(Steps[method][length])
    PROVE  ReadBack(Words(method, length, draws), FinalIndex(method, length, draws), i)
             = StepValue[Steps[method][length][i]][Drawn(method, length, draws)[i]]
<1>. DEFINE m == method
            l == length
            W == WordSteps[m]
            F == FinalSteps[m][l]
            g == Group(m)
            p == Partial[l]
            steps == Steps[m][l]
            drawn == Drawn(m, l, draws)
            words == Words(m, l, draws)
            last == FinalIndex(m, l, draws)
            q == (i - 1) \div g
            j == ((i - 1) % g) + 1
<1>1. /\ p \in Nat \ {0} /\ g \in Nat \ {0} /\ W \in Seq(DOMAIN StepValue)
      /\ Len(steps) = p * g + Len(F) /\ F \in Seq(DOMAIN StepValue) /\ p * g \in Nat
      /\ \A k \in 1..p * g : steps[k] = W[((k - 1) % g) + 1]
      /\ \A k \in 1..Len(F) : steps[p * g + k] = F[k]
  <2>1. StepsLaid(steps, W, F, p, g)
    BY StepsStand, Zenon
  <2>. QED
    BY <2>1, Zenon DEF StepsLaid
<1>2. Len(W) = g /\ Len(F) \in Nat /\ i \in Nat \ {0} /\ DOMAIN W = 1..g /\ DOMAIN F = 1..Len(F)
  BY <1>1 DEF Group
<1>3. q \in Nat /\ j \in 1..g /\ i = q * g + j /\ (i <= p * g <=> q + 1 <= p)
  <2>1. i = q * g + ((i - 1) % g) + 1 /\ q \in Nat /\ j \in 1..g /\ (i <= p * g <=> q + 1 <= p)
    BY <1>1, <1>2, PlaceOfDraw
  <2>2. (i - 1) % g \in Nat
    BY <1>1, <1>2
  <2>3. q * g \in Nat
    <3>. HIDE DEF q, g
    <3>. QED
      BY <1>1, <2>1, TimesTyped
  <2>. DEFINE a == q * g
              b == (i - 1) % g
  <2>4. i = a + b + 1 /\ a \in Nat /\ b \in Nat
    BY <2>1, <2>2, <2>3
  <2>. HIDE DEF a, b
  <2>5. i = a + (b + 1)
    BY <2>4
  <2>. QED
    BY <2>1, <2>5 DEF a, b
<1>4. CASE q + 1 <= p
  <2>1. ReadBack(words, last, i) = ValuesOf(W, words[q + 1])[j]
    BY <1>4, Zenon DEF ReadBack
  <2>2. q + 1 \in 1..p
    <3>. HIDE DEF q, p
    <3>. QED
      BY <1>1, <1>3, <1>4
  <2>. DEFINE i0 == ((q + 1) - 1) * g
              values == ValuesAt(m, l, draws, i0, W)
  <2>3. words[q + 1] = Mixed(W, values)
    BY <2>2, Zenon DEF Words, ValueAfter, ValuesAt
  <2>4. Valued(W, values)
    <3>1. StandsAt(m, l, i0, W)
      BY <2>2, WordStands, Zenon
    <3>. HIDE DEF i0, W
    <3>. QED
      BY <3>1, ValuesFit
  <2>5. j \in 1..Len(W)
    <3>. HIDE DEF W, g
    <3>. QED
      BY <1>2, <1>3
  <2>6. ValuesOf(W, Mixed(W, values))[j] = values[j]
    <3>. HIDE DEF W, j, values
    <3>. QED
      BY <2>4, <2>5, MixedRecovers
  <2>7. values[j] = StepValue[W[j]][drawn[i0 + j]]
    <3>1. j \in DOMAIN W
      <4>. HIDE DEF W, j, g
      <4>. QED
        BY <1>2, <1>3
    <3>. HIDE DEF j, q, i0, W
    <3>. QED
      BY <3>1, Zenon DEF ValuesAt
  <2>8. i0 + j = i
    <3>1. (q + 1) - 1 = q
      BY <1>3
    <3>. HIDE DEF q, g, j
    <3>. QED
      BY <1>3, <3>1, Zenon
  <2>9. steps[i] = W[j]
    <3>1. i \in 1..p * g
      BY <1>1, <1>2, <1>3, <1>4
    <3>. QED
      BY <1>1, <3>1, Zenon
  <2>. HIDE DEF words, last, drawn, steps, W, g, q, j, i0, values
  <2>10. ReadBack(words, last, i) = StepValue[steps[i]][drawn[i]]
    BY <2>1, <2>3, <2>6, <2>7, <2>8, <2>9, Zenon
  <2>. QED
    BY <2>10, Zenon DEF words, last, drawn, steps
<1>5. CASE ~(q + 1 <= p)
  <2>. DEFINE k == i - p * g
  <2>1. ReadBack(words, last, i) = ValuesOf(F, last)[k]
    BY <1>5, Zenon DEF ReadBack
  <2>2. k \in 1..Len(F) /\ p * g + k = i
    <3>1. ~(i <= p * g)
      BY <1>3, <1>5, Zenon
    <3>. DEFINE b == p * g
    <3>2. b \in Nat /\ ~(i <= b) /\ i \in 1..Len(steps) /\ Len(steps) = b + Len(F)
      BY <1>1, <3>1
    <3>. HIDE DEF b, steps, F
    <3>3. i - b \in 1..Len(F) /\ b + (i - b) = i
      BY <1>2, <3>2
    <3>. QED
      BY <3>3 DEF b
  <2>. DEFINE values == ValuesAt(m, l, draws, p * g, F)
  <2>3. last = Mixed(F, values)
    BY Zenon DEF FinalIndex, ValueAfter, ValuesAt
  <2>4. Valued(F, values)
    <3>1. StandsAt(m, l, p * g, F)
      BY FinalStand, Zenon
    <3>. QED
      BY <3>1, ValuesFit, Zenon
  <2>. HIDE DEF k
  <2>5. ValuesOf(F, Mixed(F, values))[k] = values[k]
    <3>. HIDE DEF F, values
    <3>. QED
      BY <2>2, <2>4, MixedRecovers
  <2>6. values[k] = StepValue[F[k]][drawn[p * g + k]]
    <3>1. k \in DOMAIN F
      <4>. HIDE DEF F
      <4>. QED
        BY <1>2, <2>2
    <3>. HIDE DEF F
    <3>. QED
      BY <3>1, Zenon DEF ValuesAt
  <2>7. steps[i] = F[k]
    BY <1>1, <2>2, Zenon
  <2>. HIDE DEF words, last, drawn, steps, F, values
  <2>8. ReadBack(words, last, i) = StepValue[steps[i]][drawn[i]]
    BY <2>1, <2>2, <2>3, <2>5, <2>6, <2>7, Zenon
  <2>. QED
    BY <2>8, Zenon DEF words, last, drawn, steps
<1>. QED
  BY <1>4, <1>5

LEMMA SelectionRecovers ==
    ASSUME DirectDrawsTypeOK PROVE SelectionRecoversDraws
<1>. DEFINE draws == Draws(text)
            drawn == Drawn(method, length, draws)
            words == Words(method, length, draws)
            last == FinalIndex(method, length, draws)
            D == Alphabet[method]
<1>1. method \in Methods /\ length \in Lengths /\ draws \in Seq(D)
  <2>1. method \in Methods /\ length \in Lengths /\ text \in Seq(D \cup {Blank})
    BY DEF DirectDrawsTypeOK
  <2>. QED
    BY <2>1, DrawsTyped
<1>. HIDE DEF draws, D
<1>. SUFFICES ASSUME Complete(method, length, draws)
              PROVE  /\ \A i \in DOMAIN drawn :
                          ReadBack(words, last, i) = StepValue[Steps[method][length][i]][drawn[i]]
                     /\ method # "bitbox" => FinalWord(method, length, draws) \in Candidates(length, words)
  BY Zenon DEF SelectionRecoversDraws, draws
<1>2. drawn \in Seq(D) /\ Len(drawn) = Len(Steps[method][length])
  BY <1>1, CompleteFits
<1>3. \A i \in 1..Len(Steps[method][length]) :
        ReadBack(words, last, i) = StepValue[Steps[method][length][i]][drawn[i]]
  BY <1>1, DrawReadBack
<1>4. ASSUME NEW i \in DOMAIN drawn
      PROVE  ReadBack(words, last, i) = StepValue[Steps[method][length][i]][drawn[i]]
  <2>1. i \in 1..Len(Steps[method][length])
    <3>. HIDE DEF drawn
    <3>. QED
      BY <1>2
  <2>. QED
    BY <1>3, <2>1, Zenon
<1>5. ASSUME method # "bitbox" PROVE FinalWord(method, length, draws) \in Candidates(length, words)
  <2>. DEFINE F == FinalSteps[method][length]
  <2>. DEFINE i0 == Partial[length] * Group(method)
              values == ValuesAt(method, length, draws, i0, F)
  <2>1. last = Mixed(F, values)
    BY Zenon DEF FinalIndex, ValueAfter, ValuesAt
  <2>2. Valued(F, values)
    <3>1. StandsAt(method, length, i0, F)
      BY <1>1, FinalStand, Zenon
    <3>. QED
      BY <1>1, <3>1, ValuesFit, Zenon
  <2>3. Mixed(F, values) \in 0..Product(F) - 1
    <3>. HIDE DEF F, values
    <3>. QED
      BY <2>2, MixedBelow
  <2>4. Product(F) = Options[length]
    BY <1>1, <1>5, DirectDrawsAssumption
  <2>5. last \in 0..Options[length] - 1
    BY <2>1, <2>3, <2>4, Zenon
  <2>6. FinalWord(method, length, draws) = Candidate(length, words, last)
    BY Zenon DEF FinalWord
  <2>. HIDE DEF last, words
  <2>. QED
    BY <2>5, <2>6, Zenon DEF Candidates
<1>. QED
  BY <1>4, <1>5

\* From the words and the last word's index that a complete transcript selects,
\* the value of every draw can be read back (hodlDPlusRolls, hodlParseDirectCards,
\* hodlBitBoxRolls): no two transcripts of different values select the same seed.
THEOREM TranscriptsReadBack == DirectDrawsSpec => []SelectionRecoversDraws
<1>1. DrawsInv => SelectionRecoversDraws
  BY SelectionRecovers DEF DrawsInv
<1>. QED
  BY <1>1, DrawsInvariant, PTL

-----------------------------------------------------------------------------
(* The deck of cards *)

LEMMA DeckFinite == IsFiniteSet(Deck)
BY CardDealAssumption, FS_Product DEF Deck

LEMMA TheOnlyIsTheOne ==
    ASSUME NEW S, IsFiniteSet(S), NEW otherwise
    PROVE  TheOnly(S, otherwise) = otherwise \/ S = {TheOnly(S, otherwise)}
<1>1. CASE Cardinality(S) = 1
  <2>1. PICK x : S = {x}
    BY <1>1, FS_Singleton
  <2>. QED
    BY <1>1, <2>1 DEF TheOnly
<1>2. CASE Cardinality(S) # 1
  BY <1>2 DEF TheOnly
<1>. QED
  BY <1>1, <1>2

LEMMA SuitsAndRanksTyped ==
    ASSUME NEW cards \in SUBSET Deck, NEW s, NEW r
    PROVE  SuitsOf(cards, r) \subseteq Suits /\ RanksOf(cards, s) \subseteq Ranks13
<1>1. \A c \in cards : c[1] \in Ranks13 /\ c[2] \in Suits
  BY DEF Deck
<1>. QED
  BY <1>1 DEF SuitsOf, RanksOf

\* The suits and ranks of some cards are those of one of them.
LEMMA SuitsAndRanks ==
    ASSUME NEW cards \in SUBSET Deck
    PROVE  \A s, r :
             /\ s \in SuitsOf(cards, NoChoice) <=> \E q : <<q, s>> \in cards
             /\ r \in RanksOf(cards, NoChoice) <=> \E q : <<r, q>> \in cards
             /\ r # NoChoice => (s \in SuitsOf(cards, r) <=> <<r, s>> \in cards)
             /\ s # NoChoice => (r \in RanksOf(cards, s) <=> <<r, s>> \in cards)
<1>1. \A c \in cards : c = <<c[1], c[2]>>
  BY DEF Deck
<1>. TAKE s, r
<1>2. /\ s \in SuitsOf(cards, NoChoice) <=> \E q : <<q, s>> \in cards
      /\ r \in RanksOf(cards, NoChoice) <=> \E q : <<r, q>> \in cards
  BY <1>1 DEF SuitsOf, RanksOf
<1>3. /\ r # NoChoice => (s \in SuitsOf(cards, r) <=> <<r, s>> \in cards)
      /\ s # NoChoice => (r \in RanksOf(cards, s) <=> <<r, s>> \in cards)
  BY <1>1 DEF SuitsOf, RanksOf
<1>. QED
  BY <1>2, <1>3

LEMMA TheOnlySuitOrRank ==
    ASSUME NEW cards \in SUBSET Deck
    PROVE  \A s, r, otherwise :
             /\ \/ TheOnly(SuitsOf(cards, r), otherwise) = otherwise
                \/ SuitsOf(cards, r) = {TheOnly(SuitsOf(cards, r), otherwise)}
             /\ \/ TheOnly(RanksOf(cards, s), otherwise) = otherwise
                \/ RanksOf(cards, s) = {TheOnly(RanksOf(cards, s), otherwise)}
<1>1. TAKE s, r, otherwise
<1>2. IsFiniteSet(SuitsOf(cards, r)) /\ IsFiniteSet(RanksOf(cards, s))
  BY SuitsAndRanksTyped, CardDealAssumption, FS_Subset
<1>. QED
  BY <1>2, TheOnlyIsTheOne

\* Whatever was chosen, what is left of the choice can be completed.
LEMMA SelectionCompletable ==
    ASSUME NEW cards \in SUBSET Deck, NEW s, NEW r
    PROVE  LET sel == Selection(cards, s, r) IN
           /\ sel.s # NoChoice => sel.s \in SuitsOf(cards, sel.r)
           /\ sel.r # NoChoice => sel.r \in RanksOf(cards, sel.s)
<1>. DEFINE s1 == IF s \in SuitsOf(cards, NoChoice) THEN s ELSE NoChoice
            r1 == IF r \in RanksOf(cards, NoChoice) THEN r ELSE NoChoice
            dealt == s1 # NoChoice /\ r1 # NoChoice /\ <<r1, s1>> \notin cards
            s2 == IF dealt \/ s1 = NoChoice THEN TheOnly(SuitsOf(cards, NoChoice), NoChoice) ELSE s1
            r2 == IF dealt \/ r1 = NoChoice THEN TheOnly(RanksOf(cards, NoChoice), NoChoice) ELSE r1
            r3 == IF s2 # NoChoice /\ r2 = NoChoice THEN TheOnly(RanksOf(cards, s2), r2) ELSE r2
            s3 == IF r3 # NoChoice /\ s2 = NoChoice THEN TheOnly(SuitsOf(cards, r3), s2) ELSE s2
<1>1. Selection(cards, s, r) = [s |-> s3, r |-> r3]
  BY Zenon DEF Selection
<1>2. s2 # NoChoice /\ r2 # NoChoice => <<r2, s2>> \in cards
  <2>. SUFFICES ASSUME s2 # NoChoice, r2 # NoChoice PROVE <<r2, s2>> \in cards
    OBVIOUS
  <2>1. (r2 = r1 /\ ~dealt) \/ RanksOf(cards, NoChoice) = {r2}
    BY TheOnlySuitOrRank
  <2>2. (s2 = s1 /\ ~dealt) \/ SuitsOf(cards, NoChoice) = {s2}
    BY TheOnlySuitOrRank
  <2>3. s2 \in SuitsOf(cards, NoChoice) /\ r2 \in RanksOf(cards, NoChoice)
    BY TheOnlySuitOrRank
  <2>4. CASE s2 = s1 /\ r2 = r1 /\ ~dealt
    BY <2>4
  <2>. HIDE DEF s2, r2, dealt, s1, r1
  <2>5. CASE RanksOf(cards, NoChoice) = {r2}
    <3>1. PICK q : <<q, s2>> \in cards
      BY <2>3, SuitsAndRanks
    <3>2. q \in RanksOf(cards, NoChoice)
      BY <3>1, SuitsAndRanks
    <3>. QED
      BY <2>5, <3>1, <3>2
  <2>6. CASE SuitsOf(cards, NoChoice) = {s2}
    <3>1. PICK q : <<r2, q>> \in cards
      BY <2>3, SuitsAndRanks
    <3>2. q \in SuitsOf(cards, NoChoice)
      BY <3>1, SuitsAndRanks
    <3>. QED
      BY <2>6, <3>1, <3>2
  <2>. QED
    BY <2>1, <2>2, <2>4, <2>5, <2>6
<1>3. /\ s2 # NoChoice => s2 \in SuitsOf(cards, NoChoice)
      /\ r2 # NoChoice => r2 \in RanksOf(cards, NoChoice)
  BY TheOnlySuitOrRank
<1>. HIDE DEF s2, r2
<1>4. /\ r3 # NoChoice /\ s2 # NoChoice => <<r3, s2>> \in cards
      /\ r3 # NoChoice => r3 \in RanksOf(cards, NoChoice)
  <2>1. CASE r3 = r2
    BY <1>2, <1>3, <2>1
  <2>2. CASE r3 # r2
    <3>1. r2 = NoChoice /\ s2 # NoChoice /\ r3 \in RanksOf(cards, s2)
      BY <2>2, TheOnlySuitOrRank
    <3>2. <<r3, s2>> \in cards
      BY <3>1, SuitsAndRanks
    <3>. QED
      BY <3>2, SuitsAndRanks
  <2>. QED
    BY <2>1, <2>2
<1>. HIDE DEF r3
<1>5. /\ r3 # NoChoice /\ s3 # NoChoice => <<r3, s3>> \in cards
      /\ s3 # NoChoice => s3 \in SuitsOf(cards, NoChoice)
  <2>1. CASE s3 = s2
    BY <1>3, <1>4, <2>1
  <2>2. CASE s3 # s2
    <3>1. s2 = NoChoice /\ r3 # NoChoice /\ s3 \in SuitsOf(cards, r3)
      BY <2>2, TheOnlySuitOrRank
    <3>2. <<r3, s3>> \in cards
      BY <3>1, SuitsAndRanks
    <3>. QED
      BY <3>2, SuitsAndRanks
  <2>. QED
    BY <2>1, <2>2
<1>. HIDE DEF s3
<1>6. s3 # NoChoice => s3 \in SuitsOf(cards, r3)
  BY <1>5, SuitsAndRanks
<1>7. r3 # NoChoice => r3 \in RanksOf(cards, s3)
  BY <1>4, <1>5, SuitsAndRanks
<1>. QED
  BY <1>1, <1>6, <1>7

CardTexts == Seq(Deck \cup {<<r>> : r \in Ranks13})
CardChoices ==
    [tokens : CardTexts, s : Suits \cup {NoChoice}, r : Ranks13 \cup {NoChoice}]

LEMMA SelectionTyped ==
    ASSUME NEW cards \in SUBSET Deck, NEW s, NEW r
    PROVE  /\ Selection(cards, s, r).s \in Suits \cup {NoChoice}
           /\ Selection(cards, s, r).r \in Ranks13 \cup {NoChoice}
<1>. DEFINE sel == Selection(cards, s, r)
<1>1. /\ sel.s # NoChoice => sel.s \in SuitsOf(cards, sel.r)
      /\ sel.r # NoChoice => sel.r \in RanksOf(cards, sel.s)
  BY SelectionCompletable, Zenon
<1>. HIDE DEF sel
<1>2. SuitsOf(cards, sel.r) \subseteq Suits /\ RanksOf(cards, sel.s) \subseteq Ranks13
  BY SuitsAndRanksTyped
<1>3. sel.s \in Suits \cup {NoChoice} /\ sel.r \in Ranks13 \cup {NoChoice}
  BY <1>1, <1>2
<1>. QED
  BY <1>3 DEF sel

\* A pass deals a card and lets the choice go, or leaves one that can be
\* completed.
LEMMA CommitCompletable ==
    ASSUME NEW first, NEW u, NEW typing
    PROVE  LET done == Commit(first, u, typing)
               cards == Available(first, done.tokens)
           IN  /\ done.s # NoChoice => done.s \in SuitsOf(cards, done.r)
               /\ done.r # NoChoice => done.r \in RanksOf(cards, done.s)
<1>. DEFINE sel == Selection(Available(first, u.tokens), u.s, u.r)
            deals == <<sel.r, sel.s>> \in Available(first, u.tokens) /\ NoneInvalid(first, u.tokens, typing)
<1>1. CASE deals
  <2>1. Commit(first, u, typing) =
          [tokens |-> Append(u.tokens, <<sel.r, sel.s>>), s |-> NoChoice, r |-> NoChoice]
    BY <1>1, Zenon DEF Commit
  <2>. QED
    BY <2>1
<1>2. CASE ~deals
  <2>1. Commit(first, u, typing) = [tokens |-> u.tokens, s |-> sel.s, r |-> sel.r]
    BY <1>2, Zenon DEF Commit
  <2>2. Available(first, u.tokens) \in SUBSET Deck
    BY DEF Available
  <2>. QED
    BY <2>1, <2>2, SelectionCompletable
<1>. QED
  BY <1>1, <1>2

LEMMA CommitTyped ==
    ASSUME NEW first, NEW u \in CardChoices, NEW typing
    PROVE  Commit(first, u, typing) \in CardChoices
<1>. DEFINE sel == Selection(Available(first, u.tokens), u.s, u.r)
            deals == <<sel.r, sel.s>> \in Available(first, u.tokens) /\ NoneInvalid(first, u.tokens, typing)
<1>0. Available(first, u.tokens) \in SUBSET Deck
  BY DEF Available
<1>1. CASE deals
  <2>1. Commit(first, u, typing) =
          [tokens |-> Append(u.tokens, <<sel.r, sel.s>>), s |-> NoChoice, r |-> NoChoice]
    BY <1>1, Zenon DEF Commit
  <2>2. <<sel.r, sel.s>> \in Deck \cup {<<r>> : r \in Ranks13}
    BY <1>0, <1>1
  <2>3. u.tokens \in CardTexts
    BY DEF CardChoices
  <2>4. Append(u.tokens, <<sel.r, sel.s>>) \in CardTexts
    BY <2>2, <2>3, Zenon, AppendTyped DEF CardTexts
  <2>. QED
    BY <2>1, <2>4 DEF CardChoices
<1>2. CASE ~deals
  <2>1. Commit(first, u, typing) = [tokens |-> u.tokens, s |-> sel.s, r |-> sel.r]
    BY <1>2, Zenon DEF Commit
  <2>. QED
    BY <1>0, <2>1, SelectionTyped DEF CardChoices
<1>. QED
  BY <1>1, <1>2

\* hodlUpdateCards makes three passes, the last of which leaves the choice.
LEMMA UpdateIsThreePasses ==
    ASSUME NEW first, NEW ts, NEW s, NEW r, NEW typing, UpdateCards(first, ts, s, r, typing)
    PROVE  LET u1 == Commit(first, [tokens |-> ts, s |-> s, r |-> r], typing)
               u2 == Commit(first, u1, typing)
               done == Commit(first, u2, typing)
           IN  /\ tokens' = done.tokens /\ suit' = done.s /\ rank' = done.r
               /\ atEnd' = typing
<1>. DEFINE u0 == [tokens |-> ts, s |-> s, r |-> r]
            u1 == Commit(first, u0, typing)
            u2 == Commit(first, u1, typing)
            u3 == Commit(first, u2, typing)
            Passes(f) == f = [pass \in 0..3 |-> IF pass = 0 THEN u0
                                                ELSE Commit(first, f[pass - 1], typing)]
            witness == [pass \in 0..3 |-> IF pass = 0 THEN u0 ELSE IF pass = 1 THEN u1
                                          ELSE IF pass = 2 THEN u2 ELSE u3]
            after == CHOOSE f : Passes(f)
<1>1. /\ tokens' = after[3].tokens /\ suit' = after[3].s /\ rank' = after[3].r
      /\ atEnd' = typing
  BY Zenon DEF UpdateCards
<1>2. Passes(witness)
  <2>. HIDE DEF u0, u1, u2, u3
  <2>1. \A pass \in 0..3 : pass = 0 \/ pass = 1 \/ pass = 2 \/ pass = 3
    OBVIOUS
  <2>2. witness[0] = u0 /\ witness[1] = u1 /\ witness[2] = u2 /\ witness[3] = u3
    OBVIOUS
  <2>3. u1 = Commit(first, u0, typing) /\ u2 = Commit(first, u1, typing) /\ u3 = Commit(first, u2, typing)
    BY DEF u1, u2, u3
  <2>. HIDE DEF witness
  <2>4. \A pass \in 0..3 :
          witness[pass] = IF pass = 0 THEN u0 ELSE Commit(first, witness[pass - 1], typing)
    BY <2>1, <2>2, <2>3
  <2>5. witness = [pass \in 0..3 |-> witness[pass]]
    BY DEF witness
  <2>. QED
    BY <2>4, <2>5
<1>3. Passes(after)
  <2>. HIDE DEF Passes, witness
  <2>. QED
    BY <1>2, Zenon
<1>4. after[0] = u0 /\ after[1] = u1 /\ after[2] = u2 /\ after[3] = u3
  <2>. HIDE DEF after, u0
  <2>1. /\ after[0] = u0 /\ after[1] = Commit(first, after[0], typing)
        /\ after[2] = Commit(first, after[1], typing) /\ after[3] = Commit(first, after[2], typing)
    BY <1>3
  <2>. QED
    BY <2>1
<1>. HIDE DEF after
<1>. QED
  BY <1>1, <1>4

LEMMA UpdateCards_Type ==
    ASSUME NEW first, NEW ts \in CardTexts, NEW s \in Suits \cup {NoChoice},
           NEW r \in Ranks13 \cup {NoChoice}, NEW typing \in BOOLEAN,
           UpdateCards(first, ts, s, r, typing)
    PROVE  /\ tokens' \in CardTexts /\ suit' \in Suits \cup {NoChoice}
           /\ rank' \in Ranks13 \cup {NoChoice} /\ atEnd' \in BOOLEAN
<1>. DEFINE u0 == [tokens |-> ts, s |-> s, r |-> r]
            u1 == Commit(first, u0, typing)
            u2 == Commit(first, u1, typing)
            u3 == Commit(first, u2, typing)
<1>1. u0 \in CardChoices
  BY DEF CardChoices
<1>2. u1 \in CardChoices
  BY <1>1, CommitTyped
<1>3. u2 \in CardChoices
  BY <1>2, CommitTyped
<1>4. u3 \in CardChoices
  BY <1>3, CommitTyped
<1>5. tokens' = u3.tokens /\ suit' = u3.s /\ rank' = u3.r /\ atEnd' = typing
  BY UpdateIsThreePasses
<1>. HIDE DEF u3
<1>. QED
  BY <1>4, <1>5 DEF CardChoices

LEMMA UpdateCards_Completable ==
    ASSUME NEW first, NEW ts, NEW s, NEW r, NEW typing,
           UpdateCards(first, ts, s, r, typing), firstDeal' = first
    PROVE  ChoiceCompletable'
<1>. DEFINE u1 == Commit(first, [tokens |-> ts, s |-> s, r |-> r], typing)
            u2 == Commit(first, u1, typing)
            u3 == Commit(first, u2, typing)
<1>1. tokens' = u3.tokens /\ suit' = u3.s /\ rank' = u3.r
  BY UpdateIsThreePasses
<1>2. LET cards == Available(first, u3.tokens) IN
      /\ u3.s # NoChoice => u3.s \in SuitsOf(cards, u3.r)
      /\ u3.r # NoChoice => u3.r \in RanksOf(cards, u3.s)
  BY CommitCompletable
<1>. HIDE DEF u3
<1>. QED
  BY <1>1, <1>2 DEF ChoiceCompletable

LEMMA CardTextEnds ==
    ASSUME NEW ts \in CardTexts, ts # <<>>
    PROVE  /\ Front(ts) \in CardTexts /\ Last(ts) \in Deck \cup {<<r>> : r \in Ranks13}
           /\ ~IsCard(Last(ts)) => \A s \in Suits : Append(Last(ts), s) \in Deck
           /\ IsCard(Last(ts)) => Front(Last(ts)) \in {<<r>> : r \in Ranks13}
<1>. DEFINE Tokens == Deck \cup {<<r>> : r \in Ranks13}
<1>0. ts \in Seq(Tokens) /\ Len(ts) \in Nat \ {0}
  BY DEF CardTexts
<1>1. Front(ts) \in Seq(Tokens) /\ Last(ts) \in Tokens
  <2>. HIDE DEF Tokens
  <2>. QED
    BY <1>0 DEF Front, Last
<1>2. CASE Last(ts) \in Deck
  <2>1. PICK r \in Ranks13, s \in Suits : Last(ts) = <<r, s>>
    BY <1>2 DEF Deck
  <2>2. Len(<<r, s>>) = 2 /\ SubSeq(<<r, s>>, 1, 1) = <<r>>
    BY PairAsSequence
  <2>. QED
    BY <1>1, <2>1, <2>2 DEF IsCard, Front, CardTexts
<1>3. CASE Last(ts) \in {<<r>> : r \in Ranks13}
  <2>1. PICK r \in Ranks13 : Last(ts) = <<r>>
    BY <1>3
  <2>2. Len(<<r>>) = 1 /\ \A s \in Suits : Append(<<r>>, s) = <<r, s>>
    BY PairAsSequence
  <2>. QED
    BY <1>1, <2>1, <2>2 DEF IsCard, Deck, CardTexts
<1>. QED
  BY <1>1, <1>2, <1>3

CardInv == CardDealTypeOK /\ ChoiceCompletable

LEMMA InputCards_Inv ==
    ASSUME CardInv, NEW ts \in CardTexts, NEW typing \in BOOLEAN, InputCards(ts, typing)
    PROVE  CardInv'
<1>1. UpdateCards(firstDeal, ts, NoChoice, NoChoice, typing) /\ firstDeal' = firstDeal
  BY DEF InputCards
<1>2. ChoiceCompletable'
  BY <1>1, UpdateCards_Completable
<1>3. /\ tokens' \in CardTexts /\ suit' \in Suits \cup {NoChoice}
      /\ rank' \in Ranks13 \cup {NoChoice} /\ atEnd' \in BOOLEAN
  BY <1>1, UpdateCards_Type
<1>. QED
  BY <1>1, <1>2, <1>3 DEF CardInv, CardDealTypeOK, CardTexts

LEMMA CardDealNext_Inv == CardInv /\ [CardDealNext]_cdVars => CardInv'
<1>. SUFFICES ASSUME CardInv, [CardDealNext]_cdVars PROVE CardInv'
  OBVIOUS
<1>0. /\ tokens \in CardTexts /\ suit \in Suits \cup {NoChoice}
      /\ rank \in Ranks13 \cup {NoChoice} /\ firstDeal \in FirstDeals
  BY DEF CardInv, CardDealTypeOK, CardTexts
<1>1. ASSUME NEW s \in Suits, TapSuit(s) PROVE CardInv'
  <2>. DEFINE chosen == IF suit = s THEN NoChoice ELSE s
  <2>1. UpdateCards(firstDeal, tokens, chosen, rank, FALSE) /\ firstDeal' = firstDeal
    BY <1>1, Zenon DEF TapSuit
  <2>2. chosen \in Suits \cup {NoChoice}
    OBVIOUS
  <2>. HIDE DEF chosen
  <2>3. ChoiceCompletable'
    BY <2>1, UpdateCards_Completable
  <2>4. /\ tokens' \in CardTexts /\ suit' \in Suits \cup {NoChoice}
        /\ rank' \in Ranks13 \cup {NoChoice} /\ atEnd' \in BOOLEAN
    BY <1>0, <2>1, <2>2, UpdateCards_Type
  <2>. QED
    BY <1>0, <2>1, <2>3, <2>4 DEF CardInv, CardDealTypeOK, CardTexts
<1>2. ASSUME NEW r \in Ranks13, TapRank(r) PROVE CardInv'
  <2>. DEFINE chosen == IF rank = r THEN NoChoice ELSE r
  <2>1. UpdateCards(firstDeal, tokens, suit, chosen, FALSE) /\ firstDeal' = firstDeal
    BY <1>2, Zenon DEF TapRank
  <2>2. chosen \in Ranks13 \cup {NoChoice}
    OBVIOUS
  <2>. HIDE DEF chosen
  <2>3. ChoiceCompletable'
    BY <2>1, UpdateCards_Completable
  <2>4. /\ tokens' \in CardTexts /\ suit' \in Suits \cup {NoChoice}
        /\ rank' \in Ranks13 \cup {NoChoice} /\ atEnd' \in BOOLEAN
    BY <1>0, <2>1, <2>2, UpdateCards_Type
  <2>. QED
    BY <1>0, <2>1, <2>3, <2>4 DEF CardInv, CardDealTypeOK, CardTexts
<1>3. ASSUME NEW r \in Ranks13, TypeRank(r) PROVE CardInv'
  <2>1. Append(tokens, <<r>>) \in CardTexts
    BY <1>0, AppendTyped DEF CardTexts
  <2>2. InputCards(Append(tokens, <<r>>), TRUE)
    BY <1>3 DEF TypeRank
  <2>. QED
    BY <2>1, <2>2, InputCards_Inv
<1>4. ASSUME NEW s \in Suits, TypeSuit(s) PROVE CardInv'
  <2>. DEFINE ts == Append(Front(tokens), Append(Last(tokens), s))
  <2>1. tokens # <<>> /\ ~IsCard(Last(tokens)) /\ InputCards(ts, TRUE)
    BY <1>4 DEF TypeSuit
  <2>2. Front(tokens) \in CardTexts /\ Append(Last(tokens), s) \in Deck
    BY <1>0, <2>1, CardTextEnds
  <2>3. ts \in CardTexts
    BY <2>2, AppendTyped DEF CardTexts
  <2>. HIDE DEF ts
  <2>. QED
    BY <2>1, <2>3, InputCards_Inv
<1>5. CASE DeleteCharacter
  <2>. DEFINE ts == IF IsCard(Last(tokens)) THEN Append(Front(tokens), Front(Last(tokens)))
                    ELSE Front(tokens)
  <2>1. tokens # <<>> /\ InputCards(ts, TRUE)
    BY <1>5, Zenon DEF DeleteCharacter
  <2>2. /\ Front(tokens) \in CardTexts
        /\ IsCard(Last(tokens)) => Front(Last(tokens)) \in Deck \cup {<<r>> : r \in Ranks13}
    BY <1>0, <2>1, CardTextEnds
  <2>3. ts \in CardTexts
    BY <2>2, AppendTyped DEF CardTexts
  <2>. HIDE DEF ts
  <2>. QED
    BY <2>1, <2>3, InputCards_Inv
<1>6. CASE UndoCard
  <2>1. Front(tokens) \in CardTexts /\ InputCards(Front(tokens), TRUE)
    BY <1>0, <1>6, CardTextEnds DEF UndoCard
  <2>. QED
    BY <2>1, InputCards_Inv
<1>7. CASE LeaveCards
  BY <1>7 DEF LeaveCards, CardInv, CardDealTypeOK, ChoiceCompletable
<1>8. ASSUME NEW n \in FirstDeals, RedrawCards(n) PROVE CardInv'
  <2>1. UpdateCards(n, tokens, NoChoice, NoChoice, FALSE) /\ firstDeal' = n
    BY <1>8 DEF RedrawCards
  <2>2. ChoiceCompletable'
    BY <2>1, UpdateCards_Completable
  <2>3. /\ tokens' \in CardTexts /\ suit' \in Suits \cup {NoChoice}
        /\ rank' \in Ranks13 \cup {NoChoice} /\ atEnd' \in BOOLEAN
    BY <1>0, <2>1, UpdateCards_Type
  <2>. QED
    BY <2>1, <2>2, <2>3 DEF CardInv, CardDealTypeOK, CardTexts
<1>9. CASE UNCHANGED cdVars
  BY <1>9 DEF cdVars, CardInv, CardDealTypeOK, ChoiceCompletable
<1>. QED
  BY <1>1, <1>2, <1>3, <1>4, <1>5, <1>6, <1>7, <1>8, <1>9 DEF CardDealNext

LEMMA CardDealInit_Inv == CardDealInit => CardInv
<1>. SUFFICES ASSUME CardDealInit PROVE CardInv
  OBVIOUS
<1>1. tokens \in Seq(Deck \cup {<<r>> : r \in Ranks13})
  <2>1. \A S : <<>> \in Seq(S)
    OBVIOUS
  <2>. QED
    BY <2>1, Zenon DEF CardDealInit
<1>2. ChoiceCompletable
  BY Zenon DEF CardDealInit, ChoiceCompletable
<1>. QED
  BY <1>1, <1>2 DEF CardDealInit, CardInv, CardDealTypeOK

LEMMA CardInvariant == CardDealSpec => []CardInv
BY CardDealInit_Inv, CardDealNext_Inv, PTL DEF CardDealSpec

\* What is dealt are cards of the deck, whole or waiting for their suit
\* (hodlUpdateCards).
THEOREM CardsTyped == CardDealSpec => []CardDealTypeOK
<1>1. CardInv => CardDealTypeOK
  BY DEF CardInv
<1>. QED
  BY <1>1, CardInvariant, PTL

\* The keys never hold a choice that no card is left for, for every deck and
\* every length of the first deal (hodlUpdateCards).
THEOREM ChoiceStaysCompletable == CardDealSpec => []ChoiceCompletable
<1>1. CardInv => ChoiceCompletable
  BY DEF CardInv
<1>. QED
  BY <1>1, CardInvariant, PTL
=============================================================================
