---------------------------- MODULE FramesProofs ----------------------------
(***************************************************************************)
(* Frames of every number, length and content: what build_packet() makes   *)
(* is accepted, what is split is put together again, and what a source     *)
(* sends is handled, recorded and redacted as it should be, whichever cell *)
(* of a datagram is damaged.                                               *)
(*                                                                         *)
(* Checksum, SplitFrames, FlattenSeq and Capture are recursive functions.  *)
(* That there is a function that satisfies such a definition, and what it  *)
(* computes, is shown by induction over a set of numbers, and that by the  *)
(* least number outside of the set.                                        *)
(***************************************************************************)
EXTENDS Capture, SequenceTheorems, WellFoundedInduction, TLAPS

\* The order of the numbers.
Below == {p \in Nat \X Nat : p[1] < p[2]}

\* Every set of numbers has a least one.
LEMMA BelowIsWellFounded == IsWellFoundedOn(Below, Nat)
  <1> DEFINE R == OpToRel(<, Nat)
  <1>1. R = Below
    BY DEF OpToRel, Below
  <1>2. IsWellFoundedOn(R, Nat)
    BY NatLessThanWellFounded
  <1> HIDE DEF R
  <1> QED
    BY <1>1, <1>2

\* Induction over the numbers, for a set of them.
LEMMA Induction ==
    ASSUME NEW T, 0 \in T, \A k \in Nat : k \in T => k + 1 \in T
    PROVE  \A k \in Nat : k \in T
  <1>1. SUFFICES ASSUME Nat \ T # {} PROVE FALSE
    OBVIOUS
  <1>2. PICK x \in Nat \ T : \A y \in Nat \ T : ~ (<<y, x>> \in Below)
    <2>1. Nat \ T \subseteq Nat
      OBVIOUS
    <2> QED
      BY <1>1, <2>1, BelowIsWellFounded, WFMin, Zenon
  <1>3. x \in Nat /\ x # 0 /\ x \notin T
    BY <1>2
  <1>4. x - 1 \in Nat /\ x = (x - 1) + 1 /\ <<x - 1, x>> \in Below
    BY <1>3 DEF Below
  <1>5. x - 1 \notin T
    BY <1>3, <1>4, Zenon
  <1> QED
    BY <1>2, <1>4, <1>5, Zenon

\* f starts with x0 and takes step[i] from its value at i - 1 to that at i.
StepsFrom(f, X, x0, step, n) ==
    /\ f \in [0..n -> X] /\ f[0] = x0
    /\ \A i \in 1..n : f[i] = step[i][f[i - 1]]

\* There is such a function for any steps.
LEMMA Recursion ==
    ASSUME NEW X, NEW x0 \in X, NEW step \in [Nat -> [X -> X]], NEW n \in Nat
    PROVE  \E f : StepsFrom(f, X, x0, step, n)
  <1> DEFINE Steps(f, k) == f[0] = x0 /\ \A i \in 1..k : f[i] = step[i][f[i - 1]]
             T == {k \in Nat : \E f \in [0..k -> X] : Steps(f, k)}
  <1>1. 0 \in T
    <2> DEFINE f == [i \in 0..0 |-> x0]
    <2>1. f \in [0..0 -> X] /\ Steps(f, 0)
      OBVIOUS
    <2> QED
      BY <2>1
  <1>2. ASSUME NEW k \in Nat, k \in T PROVE k + 1 \in T
    <2>1. PICK f \in [0..k -> X] : Steps(f, k)
      BY <1>2
    <2> DEFINE g == [i \in 0..(k + 1) |-> IF i = k + 1 THEN step[k + 1][f[k]] ELSE f[i]]
    <2>2. f[k] \in X /\ k + 1 \in Nat
      OBVIOUS
    <2>3. step[k + 1][f[k]] \in X
      BY <2>2
    <2>4. g \in [0..(k + 1) -> X]
      BY <2>3
    <2>5. g[0] = x0
      BY <2>1
    <2>6. ASSUME NEW i \in 1..(k + 1) PROVE g[i] = step[i][g[i - 1]]
      <3>1. CASE i = k + 1
        <4>1. g[i] = step[k + 1][f[k]] /\ g[i - 1] = f[k]
          BY <3>1
        <4> QED
          BY <3>1, <4>1
      <3>2. CASE i # k + 1
        <4>1. i \in 1..k /\ g[i] = f[i] /\ g[i - 1] = f[i - 1]
          BY <3>2
        <4> QED
          BY <2>1, <4>1
      <3> QED
        BY <3>1, <3>2
    <2>7. Steps(g, k + 1)
      BY <2>5, <2>6
    <2> HIDE DEF g
    <2> QED
      BY <2>2, <2>4, <2>7
  <1> HIDE DEF T
  <1>3. n \in T
    BY <1>1, <1>2, Induction
  <1> QED
    BY <1>3 DEF T, StepsFrom

\* A value that a recursive definition chooses is one that satisfies it, if there is one.
LEMMA SumOf ==
    ASSUME NEW cells \in Seq(Nat)
    PROVE  \E f \in [0..Len(cells) -> Nat] :
              /\ f[0] = 0
              /\ \A i \in 1..Len(cells) : f[i] = f[i - 1] + cells[i]
              /\ Checksum(cells) = f[Len(cells)] % Modulus
  <1> DEFINE n == Len(cells)
             step == [i \in Nat |-> [x \in Nat |-> IF i \in 1..n THEN x + cells[i] ELSE x]]
             Sums(f) == f = [i \in 0..n |-> IF i = 0 THEN 0 ELSE f[i - 1] + cells[i]]
             F == CHOOSE f : Sums(f)
  <1>1. step \in [Nat -> [Nat -> Nat]] /\ n \in Nat /\ 0 \in Nat
    OBVIOUS
  <1>2. PICK f \in [0..n -> Nat] : f[0] = 0 /\ \A i \in 1..n : f[i] = step[i][f[i - 1]]
    <2> HIDE DEF step, n
    <2>1. \E f : StepsFrom(f, Nat, 0, step, n)
      BY <1>1, Recursion, Zenon
    <2> QED
      BY <2>1 DEF StepsFrom
  <1>3. ASSUME NEW i \in 1..n PROVE f[i] = f[i - 1] + cells[i]
    <2>1. i \in Nat /\ f[i - 1] \in Nat
      OBVIOUS
    <2> QED
      BY <1>2, <2>1
  <1>4. Sums(f)
    BY <1>2, <1>3
  <1>5. Sums(F)
    BY <1>4, Zenon
  <1>6. Checksum(cells) = F[n] % Modulus
    BY DEF Checksum
  <1> HIDE DEF F
  <1>7. F[0] = 0 /\ \A i \in 1..n : F[i] = F[i - 1] + cells[i]
    <2>1. ASSUME NEW g, g = [i \in 0..n |-> IF i = 0 THEN 0 ELSE F[i - 1] + cells[i]]
          PROVE  g[0] = 0 /\ \A i \in 1..n : g[i] = F[i - 1] + cells[i]
      BY <1>1, <2>1
    <2> QED
      BY <1>5, <2>1, Zenon
  <1> DEFINE T == {k \in Nat : k <= n => F[k] \in Nat}
  <1>8. 0 \in T
    BY <1>7
  <1>9. ASSUME NEW k \in Nat, k \in T PROVE k + 1 \in T
    <2>1. SUFFICES ASSUME k + 1 <= n PROVE F[k + 1] \in Nat
      OBVIOUS
    <2>2. k + 1 \in 1..n /\ (k + 1) - 1 = k /\ cells[k + 1] \in Nat
      BY <1>1, <2>1
    <2>3. F[k + 1] = F[k] + cells[k + 1]
      BY <1>7, <2>2
    <2>4. F[k] \in Nat
      BY <1>9, <2>1
    <2> QED
      BY <2>2, <2>3, <2>4
  <1> HIDE DEF T
  <1>10. \A k \in Nat : k \in T
    BY <1>8, <1>9, Induction
  <1>11. F \in [0..n -> Nat]
    <2>1. F = [i \in 0..n |-> F[i]]
      BY <1>5
    <2>2. \A i \in 0..n : F[i] \in Nat
      BY <1>1, <1>10 DEF T
    <2> QED
      BY <2>1, <2>2
  <1> QED
    BY <1>6, <1>7, <1>11

\* Two sequences put together keep their elements.
LEMMA Joined ==
    ASSUME NEW Cell, NEW s \in Seq(Cell), NEW t \in Seq(Cell)
    PROVE  /\ Len(s) \in Nat /\ Len(t) \in Nat
           /\ s \o t \in Seq(Cell) /\ Len(s \o t) = Len(s) + Len(t)
           /\ \A i \in 1..Len(s) : (s \o t)[i] = s[i]
           /\ \A i \in 1..Len(t) : (s \o t)[Len(s) + i] = t[i]
  OBVIOUS

\* A slice that covers all of a sequence in another one is that sequence.
LEMMA SliceIs ==
    ASSUME NEW Cell, NEW data \in Seq(Cell), NEW s \in Seq(Cell), NEW from \in Nat \ {0},
           NEW to, to = from + Len(s) - 1,
           \A i \in 1..Len(s) : data[from + i - 1] = s[i]
    PROVE  SubSeq(data, from, to) = s
  <1>0. Len(s) \in Nat /\ to \in Int /\ to - from + 1 = Len(s)
    OBVIOUS
  <1>1. ASSUME NEW i \in from..to PROVE data[i] \in Cell
    <2>1. i - from + 1 \in 1..Len(s) /\ from + (i - from + 1) - 1 = i
      BY <1>0
    <2>2. s[i - from + 1] \in Cell
      BY <2>1, ElementOfSeq
    <2>3. data[from + (i - from + 1) - 1] = s[i - from + 1]
      BY <2>1, Zenon
    <2> QED
      BY <2>1, <2>2, <2>3, Zenon
  <1>2. /\ SubSeq(data, from, to) \in Seq(Cell)
        /\ Len(SubSeq(data, from, to)) = IF from <= to THEN to - from + 1 ELSE 0
        /\ \A i \in 1..(to - from + 1) : SubSeq(data, from, to)[i] = data[from + i - 1]
    <2>1. from \in Int /\ to \in Int
      BY <1>0
    <2> QED
      BY <1>1, <2>1, SubSeqProperties
  <1>3. Len(SubSeq(data, from, to)) = Len(s)
    BY <1>0, <1>2
  <1>4. \A i \in 1..Len(SubSeq(data, from, to)) : SubSeq(data, from, to)[i] = s[i]
    BY <1>0, <1>2, <1>3, Zenon
  <1> QED
    BY <1>2, <1>3, <1>4, SeqEqual, Zenon

\* A checksum is a number.
LEMMA ChecksumIsNat ==
    ASSUME NEW cells \in Seq(Nat)
    PROVE  Checksum(cells) \in Nat
  <1>1. PICK f \in [0..Len(cells) -> Nat] : Checksum(cells) = f[Len(cells)] % Modulus
    BY SumOf
  <1>2. Len(cells) \in Nat /\ f[Len(cells)] \in Nat
    OBVIOUS
  <1> QED
    BY <1>1, <1>2, EnvelopeAssumption

\* A remainder is what a multiple of the divisor leaves.
LEMMA Remainder ==
    ASSUME NEW m \in Nat, m > 1, NEW x \in Nat
    PROVE  \E q \in Int : x - m * q = x % m
  <1>1. x - m * (x \div m) = x % m /\ (x \div m) \in Int
    OBVIOUS
  <1> QED
    BY <1>1

\* No multiple of the modulus but zero is smaller than it.
LEMMA NoUnit ==
    ASSUME NEW m \in Nat, m > 1, NEW d \in Int, m * d < m, m * d > 0 - m
    PROVE  m * d = 0
  <1>1. CASE d >= 1
    <2>1. m * d >= m
      BY <1>1
    <2> QED
      BY <2>1
  <1>2. CASE d <= 0 - 1
    <2>1. m * d <= 0 - m
      BY <1>2
    <2> QED
      BY <2>1
  <1>3. CASE d = 0
    BY <1>3
  <1> QED
    BY <1>1, <1>2, <1>3

Rem(x) == x % Modulus

\* What adds up to the same with numbers of other remainders has other remainders.
LEMMA OtherRemainder ==
    ASSUME NEW x \in Nat, NEW y \in Nat, NEW a \in Nat, NEW b \in Nat,
           x + a = y + b, Rem(a) # Rem(b)
    PROVE  Rem(x) # Rem(y)
  <1>0. SUFFICES ASSUME Rem(x) = Rem(y) PROVE Rem(a) = Rem(b)
    OBVIOUS
  <1> DEFINE M == Modulus
  <1>1. M \in Nat /\ M > 1
    BY EnvelopeAssumption, CellsAssumption
  <1> HIDE DEF M
  <1>2. PICK p \in Int : x - M * p = x % M
    BY <1>1, Remainder
  <1>3. PICK q \in Int : y - M * q = y % M
    BY <1>1, Remainder
  <1>4. PICK r \in Int : a - M * r = a % M
    BY <1>1, Remainder
  <1>5. PICK s \in Int : b - M * s = b % M
    BY <1>1, Remainder
  <1>6. x % M = y % M
    BY <1>0 DEF M, Rem
  <1>7. a % M \in 0..(M - 1) /\ b % M \in 0..(M - 1)
    BY <1>1
  <1> DEFINE d == ((q - p) - r) + s
             u == M * p
             v == M * q
             w == M * r
             z == M * s
  <1>8. d \in Int /\ M * d = ((v - u) - w) + z
    BY <1>1
  <1>9. u \in Int /\ v \in Int /\ w \in Int /\ z \in Int
    BY <1>1
  <1>10. x - u = y - v /\ a - w = a % M /\ b - z = b % M
    BY <1>2, <1>3, <1>4, <1>5, <1>6
  <1> HIDE DEF d, u, v, w, z
  <1>11. M * d = (a % M) - (b % M)
    BY <1>8, <1>9, <1>10
  <1> DEFINE e == M * d
             f == a % M
             g == b % M
  <1>12. e < M /\ e > 0 - M
    BY <1>1, <1>7, <1>11
  <1>13. e = 0
    BY <1>1, <1>8, <1>12, NoUnit
  <1> QED
    BY <1>7, <1>11, <1>13 DEF M, Rem

\* The checksum tells that a cell was changed.
LEMMA ChecksumTells ==
    ASSUME NEW s \in Seq(Nat), NEW t \in Seq(Nat), Len(s) = Len(t),
           NEW k \in 1..Len(s), t[k] % Modulus # s[k] % Modulus,
           \A i \in 1..Len(s) : i # k => t[i] = s[i]
    PROVE  Checksum(t) # Checksum(s)
  <1> DEFINE n == Len(s)
             a == s[k]
             b == t[k]
  <1>1. PICK f \in [0..n -> Nat] : /\ f[0] = 0
                                  /\ \A i \in 1..n : f[i] = f[i - 1] + s[i]
                                  /\ Checksum(s) = f[n] % Modulus
    BY SumOf
  <1>2. PICK g \in [0..n -> Nat] : /\ g[0] = 0
                                  /\ \A i \in 1..n : g[i] = g[i - 1] + t[i]
                                  /\ Checksum(t) = g[n] % Modulus
    BY SumOf
  <1>3. n \in Nat /\ k \in 1..n /\ k \in Nat
    OBVIOUS
  <1>4. \A i \in 1..n : s[i] \in Nat /\ t[i] \in Nat
    OBVIOUS
  <1>5. a \in Nat /\ b \in Nat /\ s[k] = a /\ t[k] = b /\ b % Modulus # a % Modulus
    BY <1>3, <1>4
  <1> HIDE DEF n, a, b
  <1> DEFINE T == {j \in Nat : j <= n => /\ j < k => g[j] = f[j]
                                         /\ j >= k => g[j] + a = f[j] + b}
  <1>6. 0 \in T
    BY <1>1, <1>2, <1>3
  <1>7. ASSUME NEW j \in Nat, j \in T PROVE j + 1 \in T
    <2>1. SUFFICES ASSUME j + 1 <= n
                   PROVE  /\ j + 1 < k => g[j + 1] = f[j + 1]
                          /\ j + 1 >= k => g[j + 1] + a = f[j + 1] + b
      OBVIOUS
    <2>2. j + 1 \in 1..n /\ (j + 1) - 1 = j /\ j \in 0..n
      BY <1>3, <2>1
    <2>3. f[j + 1] = f[j] + s[j + 1] /\ g[j + 1] = g[j] + t[j + 1]
      BY <1>1, <1>2, <2>2
    <2>4. f[j] \in Nat /\ g[j] \in Nat /\ s[j + 1] \in Nat /\ t[j + 1] \in Nat
      BY <1>3, <1>4, <2>2
    <2>5. /\ j < k => g[j] = f[j]
          /\ j >= k => g[j] + a = f[j] + b
      BY <1>3, <1>7, <2>1
    <2>6. j + 1 # k => t[j + 1] = s[j + 1]
      BY <2>2 DEF n
    <2>7. CASE j + 1 < k
      <3>1. g[j] = f[j] /\ t[j + 1] = s[j + 1] /\ ~ (j + 1 >= k)
        BY <1>3, <2>5, <2>6, <2>7
      <3> QED
        BY <2>3, <3>1
    <2>8. CASE j + 1 = k
      <3>0. s[j + 1] = a /\ t[j + 1] = b
        BY <1>5, <2>8, Zenon
      <3>1. g[j] = f[j] /\ s[j + 1] = a /\ t[j + 1] = b /\ ~ (j + 1 < k)
        BY <1>3, <2>5, <2>8, <3>0
      <3>2. ASSUME NEW x \in Nat PROVE (x + b) + a = (x + a) + b
        BY <1>5
      <3>3. g[j + 1] + a = f[j + 1] + b
        BY <2>3, <2>4, <3>1, <3>2
      <3> QED
        BY <3>1, <3>3
    <2>9. CASE j + 1 > k
      <3>1. g[j] + a = f[j] + b /\ t[j + 1] = s[j + 1] /\ ~ (j + 1 < k)
        BY <1>3, <2>5, <2>6, <2>9
      <3>2. ASSUME NEW x \in Nat, NEW y \in Nat, NEW c \in Nat, y + a = x + b
            PROVE  (y + c) + a = (x + c) + b
        BY <1>5, <3>2
      <3>3. g[j + 1] + a = f[j + 1] + b
        BY <2>3, <2>4, <3>1, <3>2
      <3> QED
        BY <3>1, <3>3
    <2> QED
      BY <1>3, <2>7, <2>8, <2>9
  <1> HIDE DEF T
  <1>8. n \in T
    BY <1>3, <1>6, <1>7, Induction
  <1>9. f[n] \in Nat /\ g[n] \in Nat /\ n <= n /\ ~(n < k)
    BY <1>3
  <1>10. g[n] + a = f[n] + b
    BY <1>8, <1>9 DEF T
  <1>11. a \in Nat /\ b \in Nat /\ Rem(b) # Rem(a)
    BY <1>5 DEF Rem
  <1>12. Rem(g[n]) # Rem(f[n])
    <2> DEFINE x == g[n]
               y == f[n]
    <2>1. x \in Nat /\ y \in Nat /\ x + a = y + b
      BY <1>9, <1>10
    <2>2. Rem(a) # Rem(b)
      BY <1>11
    <2> HIDE DEF x, y
    <2>3. Rem(x) # Rem(y)
      BY <1>11, <2>1, <2>2, OtherRemainder
    <2> QED
      BY <2>3 DEF x, y
  <1>13. Checksum(s) = Rem(f[n]) /\ Checksum(t) = Rem(g[n])
    BY <1>1, <1>2 DEF n, Rem
  <1> QED
    BY <1>12, <1>13, Zenon

-----------------------------------------------------------------------------
(* Sequences put together.                                                 *)

\* f puts the members of s together, one after another.
Flattens(f, s, Cell) ==
    /\ f \in [0..Len(s) -> Seq(Cell)] /\ f[0] = <<>>
    /\ \A i \in 1..Len(s) : f[i] = f[i - 1] \o s[i]

\* FlattenSeq puts the members together one by one.
LEMMA FlattenOf ==
    ASSUME NEW Cell, NEW s \in Seq(Seq(Cell))
    PROVE  \E f : Flattens(f, s, Cell) /\ FlattenSeq(s) = f[Len(s)]
  <1> DEFINE n == Len(s)
             X == Seq(Cell)
             step == [i \in Nat |-> [x \in X |-> IF i \in 1..n THEN x \o s[i] ELSE x]]
             Flat(f) == f = [i \in 1..n |-> IF i = 1 THEN s[i] ELSE f[i - 1] \o s[i]]
             F == CHOOSE f : Flat(f)
  <1>1. n \in Nat /\ <<>> \in X /\ \A i \in 1..n : s[i] \in X
    OBVIOUS
  <1>2. step \in [Nat -> [X -> X]]
    <2>1. ASSUME NEW i \in 1..n, NEW x \in X PROVE x \o s[i] \in X
      BY <1>1, ConcatProperties
    <2> HIDE DEF X, n
    <2> QED
      BY <2>1
  <1>3. PICK f : StepsFrom(f, X, <<>>, step, n)
    <2> HIDE DEF X, n, step
    <2> QED
      BY <1>1, <1>2, Recursion, Zenon
  <1>4. f \in [0..n -> X] /\ f[0] = <<>>
    BY <1>3 DEF StepsFrom
  <1>5. ASSUME NEW i \in 1..n PROVE f[i] = f[i - 1] \o s[i]
    <2>1. i \in Nat /\ i - 1 \in 0..n
      BY <1>1
    <2>2. f[i - 1] \in X
      BY <1>4, <2>1
    <2>3. f[i] = step[i][f[i - 1]]
      BY <1>3 DEF StepsFrom
    <2> HIDE DEF X, n
    <2> QED
      BY <2>1, <2>2, <2>3
  <1>6. Flattens(f, s, Cell)
    BY <1>4, <1>5 DEF Flattens
  <1>7. CASE n = 0
    <2>1. s = <<>>
      BY <1>7
    <2>2. FlattenSeq(s) = s
      BY <1>7 DEF FlattenSeq
    <2> QED
      BY <1>4, <1>6, <1>7, <2>1, <2>2
  <1>8. CASE n # 0
    <2>1. FlattenSeq(s) = F[n]
      BY <1>8 DEF FlattenSeq
    <2> DEFINE h == [i \in 1..n |-> f[i]]
    <2>2. f[1] = s[1]
      <3>1. 1 \in 1..n /\ 1 - 1 = 0
        BY <1>1, <1>8
      <3>2. f[1] = f[0] \o s[1]
        BY <1>5, <3>1
      <3>3. s[1] \in Seq(Cell)
        BY <1>1, <3>1
      <3> QED
        BY <1>4, <3>2, <3>3, ConcatEmptySeq
    <2>3. ASSUME NEW i \in 1..n PROVE h[i] = IF i = 1 THEN s[i] ELSE h[i - 1] \o s[i]
      <3>1. h[i] = f[i]
        OBVIOUS
      <3>2. i # 1 => h[i - 1] = f[i - 1]
        BY <1>1
      <3> HIDE DEF h
      <3> QED
        BY <1>5, <2>2, <3>1, <3>2
    <2>4. Flat(h)
      BY <2>3
    <2>5. Flat(F)
      BY <2>4, Zenon
    <2> HIDE DEF F
    <2>6. \A i \in 1..n : F[i] = IF i = 1 THEN s[i] ELSE F[i - 1] \o s[i]
      <3>1. ASSUME NEW g, g = [i \in 1..n |-> IF i = 1 THEN s[i] ELSE F[i - 1] \o s[i]]
            PROVE  \A i \in 1..n : g[i] = IF i = 1 THEN s[i] ELSE F[i - 1] \o s[i]
        BY <3>1, Zenon
      <3> QED
        BY <2>5, <3>1, Zenon
    <2> DEFINE T == {k \in Nat : k + 1 <= n => F[k + 1] = f[k + 1]}
    <2>7. 0 \in T
      BY <1>1, <1>8, <2>2, <2>6
    <2>8. ASSUME NEW k \in Nat, k \in T PROVE k + 1 \in T
      <3>1. SUFFICES ASSUME (k + 1) + 1 <= n PROVE F[(k + 1) + 1] = f[(k + 1) + 1]
        OBVIOUS
      <3> DEFINE j == (k + 1) + 1
      <3>2. j \in 1..n /\ j # 1 /\ j - 1 = k + 1 /\ k + 1 <= n
        BY <1>1, <3>1
      <3>3. F[k + 1] = f[k + 1]
        BY <2>8, <3>2
      <3> HIDE DEF j, n
      <3>4. F[j] = F[j - 1] \o s[j] /\ f[j] = f[j - 1] \o s[j]
        BY <1>5, <2>6, <3>2
      <3>5. F[j - 1] = f[j - 1]
        BY <3>2, <3>3
      <3> QED
        BY <3>4, <3>5 DEF j
    <2> HIDE DEF T
    <2>9. n - 1 \in Nat /\ (n - 1) + 1 = n
      BY <1>1, <1>8
    <2>10. n - 1 \in T
      BY <2>7, <2>8, <2>9, Induction
    <2>11. F[n] = f[n]
      BY <2>9, <2>10 DEF T
    <2> QED
      BY <1>6, <2>1, <2>11
  <1> QED
    BY <1>7, <1>8

\* The result does not depend on how it is reached: two functions that put the same
\* members together agree.
LEMMA FlattenPrefix ==
    ASSUME NEW Cell, NEW s \in Seq(Seq(Cell)), NEW t \in Seq(Seq(Cell)),
           NEW f, Flattens(f, s, Cell), NEW g, Flattens(g, t, Cell),
           NEW m \in Nat, m <= Len(s), m <= Len(t), \A i \in 1..m : s[i] = t[i]
    PROVE  f[m] = g[m]
  <1> DEFINE T == {k \in Nat : k <= m => f[k] = g[k]}
  <1>1. 0 \in T
    BY DEF Flattens
  <1>2. ASSUME NEW k \in Nat, k \in T PROVE k + 1 \in T
    <2>1. SUFFICES ASSUME k + 1 <= m PROVE f[k + 1] = g[k + 1]
      OBVIOUS
    <2>2. /\ k + 1 \in 1..m /\ k + 1 \in 1..Len(s) /\ k + 1 \in 1..Len(t)
          /\ (k + 1) - 1 = k /\ k <= m
      BY <2>1
    <2>3. f[k + 1] = f[k] \o s[k + 1] /\ g[k + 1] = g[k] \o t[k + 1]
      BY <2>2 DEF Flattens
    <2>4. f[k] = g[k] /\ s[k + 1] = t[k + 1]
      BY <1>2, <2>2
    <2> QED
      BY <2>3, <2>4
  <1> HIDE DEF T
  <1>3. m \in T
    BY <1>1, <1>2, Induction
  <1> QED
    BY <1>3 DEF T

\* Putting sequences together associates.
LEMMA Associates ==
    /\ \A S : \A a, b, c \in Seq(S) : (a \o b) \o c = a \o (b \o c)
    /\ \A a, b, c \in Seq(Nat) : (a \o b) \o c = a \o (b \o c)
  BY ConcatAssociative

\* What is put together is a sequence of what the members are made of.
LEMMA FlattenType ==
    ASSUME NEW Cell, NEW s \in Seq(Seq(Cell))
    PROVE  FlattenSeq(s) \in Seq(Cell)
  <1>1. PICK f : Flattens(f, s, Cell) /\ FlattenSeq(s) = f[Len(s)]
    BY FlattenOf
  <1>2. Len(s) \in 0..Len(s)
    OBVIOUS
  <1> QED
    BY <1>1, <1>2 DEF Flattens

\* The members of two sequences put together are those of the one, then the other.
LEMMA FlattenConcat ==
    ASSUME NEW Cell, NEW s \in Seq(Seq(Cell)), NEW t \in Seq(Seq(Cell))
    PROVE  FlattenSeq(s \o t) = FlattenSeq(s) \o FlattenSeq(t)
  <1> DEFINE u == s \o t
             X == Seq(Cell)
             n == Len(s)
             m == Len(t)
  <1>1. /\ n \in Nat /\ m \in Nat /\ u \in Seq(X) /\ Len(u) = n + m
        /\ \A i \in 1..n : u[i] = s[i]
        /\ \A i \in 1..m : u[n + i] = t[i] /\ t[i] \in X
    OBVIOUS
  <1> HIDE DEF u, X
  <1>2. PICK f : Flattens(f, s, Cell) /\ FlattenSeq(s) = f[Len(s)]
    BY FlattenOf
  <1>3. PICK g : Flattens(g, t, Cell) /\ FlattenSeq(t) = g[Len(t)]
    BY FlattenOf
  <1>4. PICK h : Flattens(h, u, Cell) /\ FlattenSeq(u) = h[Len(u)]
    BY <1>1, FlattenOf DEF X
  <1>5. f[n] = h[n]
    <2>1. /\ Len(s) \in Nat /\ Len(s) <= Len(s) /\ Len(s) <= Len(u)
          /\ u \in Seq(Seq(Cell)) /\ \A i \in 1..Len(s) : s[i] = u[i]
      BY <1>1 DEF X
    <2>2. f[Len(s)] = h[Len(s)]
      BY <1>2, <1>4, <2>1, FlattenPrefix
    <2> QED
      BY <2>2
  <1>6. f[n] \in X /\ g \in [0..m -> X] /\ g[0] = <<>>
    <2>1. f \in [0..n -> X] /\ g \in [0..m -> X] /\ g[0] = <<>>
      BY <1>2, <1>3 DEF Flattens, X
    <2>2. n \in 0..n
      BY <1>1
    <2> HIDE DEF n, m
    <2> QED
      BY <2>1, <2>2
  <1>7. \A i \in 1..m : g[i] = g[i - 1] \o t[i]
    BY <1>3 DEF Flattens
  <1>8. \A i \in 1..(n + m) : h[i] = h[i - 1] \o u[i]
    BY <1>1, <1>4 DEF Flattens
  <1> HIDE DEF n, m
  <1> DEFINE T == {k \in Nat : k <= m => h[n + k] = f[n] \o g[k]}
  <1>9. 0 \in T
    <2>1. f[n] \o <<>> = f[n]
      BY <1>6, ConcatEmptySeq DEF X
    <2>2. n + 0 = n
      BY <1>1
    <2> QED
      BY <1>5, <1>6, <2>1, <2>2
  <1>10. ASSUME NEW k \in Nat, k \in T PROVE k + 1 \in T
    <2>0. k + 1 \in Nat
      OBVIOUS
    <2>1. SUFFICES ASSUME k + 1 <= m PROVE h[n + (k + 1)] = f[n] \o g[k + 1]
      BY <2>0, Zenon
    <2>2. /\ k + 1 \in 1..m /\ n + (k + 1) \in 1..(n + m) /\ k \in 0..m /\ k <= m
          /\ (n + (k + 1)) - 1 = n + k /\ (k + 1) - 1 = k
      BY <1>1, <2>1
    <2>3. h[n + (k + 1)] = h[n + k] \o t[k + 1] /\ g[k + 1] = g[k] \o t[k + 1]
      BY <1>1, <1>7, <1>8, <2>2
    <2>4. h[n + k] = f[n] \o g[k]
      BY <1>10, <2>2
    <2>5. g[k] \in X /\ t[k + 1] \in X
      BY <1>1, <1>6, <2>2
    <2>6. (f[n] \o g[k]) \o t[k + 1] = f[n] \o (g[k] \o t[k + 1])
      <3>1. f[n] \in Seq(Cell) /\ g[k] \in Seq(Cell) /\ t[k + 1] \in Seq(Cell)
        BY <1>6, <2>5 DEF X
      <3>2. \A a, b, c \in Seq(Cell) : (a \o b) \o c = a \o (b \o c)
        BY Associates
      <3> QED
        BY <3>1, <3>2, Zenon
    <2> QED
      BY <2>3, <2>4, <2>6
  <1> HIDE DEF T
  <1>11. m \in T
    BY <1>1, <1>9, <1>10, Induction
  <1>12. h[n + m] = f[n] \o g[m]
    <2>1. m <= m
      BY <1>1
    <2> QED
      BY <1>11, <2>1, Zenon DEF T
  <1> QED
    BY <1>1, <1>2, <1>3, <1>4, <1>12 DEF n, m, u

\* A single member is itself.
LEMMA FlattenOne ==
    ASSUME NEW Cell, NEW x \in Seq(Cell)
    PROVE  FlattenSeq(<<x>>) = x
  <1> DEFINE s == <<x>>
  <1>1. s \in Seq(Seq(Cell)) /\ Len(s) = 1 /\ s[1] = x
    OBVIOUS
  <1> HIDE DEF s
  <1>2. PICK f : Flattens(f, s, Cell) /\ FlattenSeq(s) = f[Len(s)]
    BY <1>1, FlattenOf
  <1>3. f[0] = <<>> /\ \A i \in 1..1 : f[i] = f[i - 1] \o s[i]
    BY <1>1, <1>2 DEF Flattens
  <1>4. 1 \in 1..1 /\ 1 - 1 = 0
    OBVIOUS
  <1>5. f[1] = <<>> \o x
    BY <1>1, <1>3, <1>4
  <1> QED
    BY <1>1, <1>2, <1>5, ConcatEmptySeq DEF s

\* Empty members add nothing.
LEMMA EmptyStretch ==
    ASSUME NEW Cell, NEW t \in Seq(Seq(Cell)), NEW g, Flattens(g, t, Cell),
           NEW a \in 0..Len(t), NEW b \in 0..Len(t), a <= b,
           \A i \in (a + 1)..b : t[i] = <<>>
    PROVE  g[b] = g[a]
  <1> DEFINE m == Len(t)
             X == Seq(Cell)
             T == {k \in Nat : a + k <= b => g[a + k] = g[a]}
  <1>1. m \in Nat /\ a \in 0..m /\ b \in 0..m
    OBVIOUS
  <1>2. g \in [0..m -> X] /\ \A i \in 1..m : g[i] = g[i - 1] \o t[i]
    BY DEF Flattens
  <1> HIDE DEF m, X
  <1>3. 0 \in T
    BY <1>1
  <1>4. ASSUME NEW k \in Nat, k \in T PROVE k + 1 \in T
    <2>1. SUFFICES ASSUME a + (k + 1) <= b PROVE g[a + (k + 1)] = g[a]
      OBVIOUS
    <2>2. /\ a + (k + 1) \in 1..m /\ a + (k + 1) \in (a + 1)..b /\ a + k \in 0..m
          /\ a + k <= b /\ (a + (k + 1)) - 1 = a + k
      BY <1>1, <2>1
    <2>3. g[a + (k + 1)] = g[a + k] \o <<>> /\ g[a + k] \in X
      BY <1>2, <2>2
    <2>4. g[a + (k + 1)] = g[a + k]
      BY <2>3, ConcatEmptySeq DEF X
    <2> QED
      BY <1>4, <2>2, <2>4
  <1> HIDE DEF T
  <1>5. b - a \in Nat /\ a + (b - a) = b
    BY <1>1
  <1>6. b - a \in T
    BY <1>3, <1>4, <1>5, Induction
  <1> QED
    BY <1>1, <1>5, <1>6 DEF T

\* at picks members of t for those of s, in order; 0 stands for none.  What is picked is
\* the same, and what is not picked is empty.
Picks(at, s, t) ==
    /\ at \in [1..Len(s) -> 0..Len(t)]
    /\ \A i \in 1..Len(s) : s[i] = IF at[i] = 0 THEN <<>> ELSE t[at[i]]
    /\ \A i \in 1..Len(s) : \A j \in 1..Len(s) :
          i < j /\ at[i] # 0 /\ at[j] # 0 => at[i] < at[j]
    /\ \A x \in 1..Len(t) : (\A i \in 1..Len(s) : at[i] # x) => t[x] = <<>>

\* The two come to the same.
LEMMA FlattenPicks ==
    ASSUME NEW Cell, NEW s \in Seq(Seq(Cell)), NEW t \in Seq(Seq(Cell)), NEW at, Picks(at, s, t)
    PROVE  FlattenSeq(t) = FlattenSeq(s)
  <1> DEFINE m == Len(s)
             n == Len(t)
             X == Seq(Cell)
  <1>1. PICK f : Flattens(f, s, Cell) /\ FlattenSeq(s) = f[Len(s)]
    BY FlattenOf
  <1>2. PICK g : Flattens(g, t, Cell) /\ FlattenSeq(t) = g[Len(t)]
    BY FlattenOf
  <1>3. /\ m \in Nat /\ n \in Nat
        /\ f \in [0..m -> X] /\ f[0] = <<>> /\ \A i \in 1..m : f[i] = f[i - 1] \o s[i]
        /\ g \in [0..n -> X] /\ g[0] = <<>> /\ \A i \in 1..n : g[i] = g[i - 1] \o t[i]
    <2>1. m \in Nat /\ n \in Nat
      OBVIOUS
    <2>2. f \in [0..m -> X] /\ f[0] = <<>> /\ \A i \in 1..m : f[i] = f[i - 1] \o s[i]
      BY <1>1 DEF Flattens
    <2>3. g \in [0..n -> X] /\ g[0] = <<>> /\ \A i \in 1..n : g[i] = g[i - 1] \o t[i]
      BY <1>2 DEF Flattens
    <2> QED
      BY <2>1, <2>2, <2>3
  <1>4. /\ at \in [1..m -> 0..n]
        /\ \A i \in 1..m : s[i] = IF at[i] = 0 THEN <<>> ELSE t[at[i]]
        /\ \A i \in 1..m : \A j \in 1..m : i < j /\ at[i] # 0 /\ at[j] # 0 => at[i] < at[j]
        /\ \A x \in 1..n : (\A i \in 1..m : at[i] # x) => t[x] = <<>>
    BY DEF Picks
  <1>5. ASSUME NEW a \in 0..n, NEW b \in 0..n, a <= b, \A x \in (a + 1)..b : t[x] = <<>>
        PROVE  g[b] = g[a]
    BY <1>2, <1>5, EmptyStretch
  <1> HIDE DEF m, n, X
  <1> DEFINE Upto(i, e) == /\ e \in 0..n /\ f[i] = g[e]
                           /\ \A k \in 1..i : at[k] <= e
                           /\ e = 0 \/ \E k \in 1..i : at[k] = e
             T == {i \in Nat : i <= m => \E e : Upto(i, e)}
  <1>6. 0 \in T
    <2>1. 0 \in 0..n /\ f[0] = g[0] /\ 1..0 = {}
      BY <1>3
    <2>2. Upto(0, 0)
      BY <2>1
    <2> QED
      BY <2>2
  <1>7. ASSUME NEW i \in Nat, i \in T PROVE i + 1 \in T
    <2>1. SUFFICES ASSUME i + 1 <= m PROVE \E e : Upto(i + 1, e)
      OBVIOUS
    <2>2. i + 1 \in 1..m /\ (i + 1) - 1 = i /\ i <= m /\ i \in 0..m /\ \A k \in 1..i : k \in 1..m
      BY <1>3, <2>1
    <2>3. PICK e : Upto(i, e)
      BY <1>7, <2>2
    <2>4. f[i + 1] = f[i] \o s[i + 1] /\ f[i] \in X /\ e \in 0..n /\ at[i + 1] \in 0..n
      BY <1>3, <1>4, <2>2, <2>3
    <2>5. \A k \in 1..(i + 1) : k \in 1..i \/ k = i + 1
      BY <2>2
    <2>6. CASE at[i + 1] = 0
      <3>1. f[i + 1] = f[i]
        BY <1>4, <2>2, <2>4, <2>6, ConcatEmptySeq DEF X
      <3>2. \A k \in 1..(i + 1) : at[k] <= e
        BY <2>3, <2>4, <2>5, <2>6
      <3>3. e = 0 \/ \E k \in 1..(i + 1) : at[k] = e
        BY <2>2, <2>3
      <3>4. Upto(i + 1, e)
        BY <2>3, <2>4, <3>1, <3>2, <3>3
      <3> QED
        BY <3>4
    <2>7. CASE at[i + 1] # 0
      <3> DEFINE y == at[i + 1]
      <3>1. y \in 1..n /\ y - 1 \in 0..n /\ s[i + 1] = t[y]
        BY <1>3, <1>4, <2>2, <2>4, <2>7
      <3>2. e < y
        <4>1. CASE e = 0
          BY <1>3, <3>1, <4>1
        <4>2. CASE e # 0
          <5>1. PICK k \in 1..i : at[k] = e
            BY <2>3, <4>2
          <5>2. k \in 1..m /\ k < i + 1
            BY <2>2, <5>1
          <5> QED
            BY <1>4, <2>2, <2>7, <4>2, <5>1, <5>2
        <4> QED
          BY <4>1, <4>2
      <3>3. ASSUME NEW x \in (e + 1)..(y - 1) PROVE t[x] = <<>>
        <4>1. x \in 1..n /\ x > e /\ x < y
          BY <1>3, <2>4, <3>1
        <4>2. ASSUME NEW k \in 1..m PROVE at[k] # x
          <5>1. CASE k \in 1..i
            <6>1. at[k] <= e /\ at[k] \in 0..n
              BY <1>4, <2>3, <5>1
            <6> QED
              BY <1>3, <2>4, <4>1, <6>1
          <5>2. CASE k = i + 1
            BY <1>3, <3>1, <4>1, <5>2
          <5>3. CASE k > i + 1
            <6>1. at[k] # 0 => y < at[k]
              BY <1>4, <2>2, <2>7, <5>3
            <6> QED
              BY <1>3, <1>4, <3>1, <4>1, <6>1
          <5> QED
            BY <1>3, <2>2, <5>1, <5>2, <5>3
        <4> QED
          BY <1>4, <4>1, <4>2
      <3> HIDE DEF y
      <3>4. e <= y - 1
        BY <1>3, <2>4, <3>1, <3>2
      <3>5. g[y - 1] = g[e]
        BY <1>5, <2>4, <3>1, <3>3, <3>4
      <3>6. g[y] = f[i + 1]
        BY <1>3, <2>3, <2>4, <3>1, <3>5
      <3>7. \A k \in 1..(i + 1) : at[k] <= y
        <4>1. ASSUME NEW k \in 1..i PROVE at[k] <= y
          <5>1. at[k] <= e /\ at[k] \in 0..n
            BY <1>4, <2>2, <2>3
          <5> QED
            BY <1>3, <2>4, <3>1, <3>2, <5>1
        <4> QED
          BY <1>3, <2>5, <3>1, <4>1 DEF y
      <3>8. \E k \in 1..(i + 1) : at[k] = y
        BY <2>2 DEF y
      <3>9. Upto(i + 1, y)
        BY <1>3, <3>1, <3>6, <3>7, <3>8
      <3> QED
        BY <3>9
    <2> QED
      BY <2>6, <2>7
  <1> HIDE DEF T
  <1>8. m \in T
    BY <1>3, <1>6, <1>7, Induction
  <1>9. PICK e : Upto(m, e)
    BY <1>3, <1>8 DEF T
  <1>10. ASSUME NEW x \in (e + 1)..n PROVE t[x] = <<>>
    <2>1. x \in 1..n /\ x > e
      BY <1>3, <1>9
    <2>2. \A k \in 1..m : at[k] # x
      BY <1>3, <1>4, <1>9, <2>1
    <2> QED
      BY <1>4, <2>1, <2>2
  <1>11. g[n] = g[e]
    BY <1>3, <1>5, <1>9, <1>10
  <1> QED
    BY <1>1, <1>2, <1>9, <1>11 DEF m, n

-----------------------------------------------------------------------------
(* How a datagram is split.                                                *)

DeclaredAt(data, i) == IF i + 1 <= Len(data) THEN data[i + 1] ELSE 0

\* Where the frame behind the one at i starts; 0 if there is none.
NextAt(data, i) ==
    IF Splits(data, i, DeclaredAt(data, i)) THEN i + DeclaredAt(data, i) ELSE 0

PieceAt(data, i) ==
    SubSeq(data, i, IF NextAt(data, i) = 0 THEN Len(data) ELSE NextAt(data, i) - 1)

\* F[i] are the pieces from i on: the one at i, and those of the place it points to.
Follows(F, Piece, n, next, piece) ==
    /\ F \in [1..n -> Seq(Piece)]
    /\ \A i \in 1..n : F[i] = IF next[i] = 0 THEN <<piece[i]>> ELSE <<piece[i]>> \o F[next[i]]

\* Induction from n down to 1.
LEMMA Descent ==
    ASSUME NEW n \in Nat, NEW T,
           \A i \in 1..n : (\A j \in (i + 1)..n : j \in T) => i \in T
    PROVE  \A i \in 1..n : i \in T
  <1> DEFINE S == {k \in Nat : \A i \in 1..n : i > n - k => i \in T}
  <1>1. 0 \in S
    OBVIOUS
  <1>2. ASSUME NEW k \in Nat, k \in S PROVE k + 1 \in S
    <2>1. SUFFICES ASSUME NEW i \in 1..n, i > n - (k + 1) PROVE i \in T
      OBVIOUS
    <2>2. ASSUME NEW j \in (i + 1)..n PROVE j \in T
      <3>1. j \in 1..n /\ j > n - k
        BY <2>1
      <3> QED
        BY <1>2, <3>1
    <2> QED
      BY <2>2
  <1> HIDE DEF S
  <1>3. n \in S
    BY <1>1, <1>2, Induction
  <1> QED
    BY <1>3 DEF S

\* There is such a function for places that only point further on.
LEMMA Following ==
    ASSUME NEW Piece, NEW n \in Nat, NEW next \in [1..n -> 0..n],
           \A i \in 1..n : next[i] = 0 \/ next[i] > i, NEW piece \in [1..n -> Piece]
    PROVE  \E F : Follows(F, Piece, n, next, piece)
  <1> DEFINE X == Seq(Piece)
             At(h, i) == IF next[i] = 0 THEN <<piece[i]>> ELSE <<piece[i]>> \o h[next[i]]
             Holds(h, i) == \A j \in i..n : h[j] = At(h, j)
             T == {k \in Nat : k <= n => \E h \in [1..n -> X] : Holds(h, n + 1 - k)}
  <1>1. ASSUME NEW h \in [1..n -> X], NEW i \in 1..n PROVE At(h, i) \in X
    <2>1. <<piece[i]>> \in X
      OBVIOUS
    <2>2. CASE next[i] = 0
      BY <2>1, <2>2
    <2>3. CASE next[i] # 0
      <3>1. h[next[i]] \in X
        BY <2>3
      <3> HIDE DEF X
      <3>2. <<piece[i]>> \o h[next[i]] \in X
        BY <2>1, <3>1, ConcatProperties DEF X
      <3> QED
        BY <2>3, <3>2
    <2> QED
      BY <2>2, <2>3
  <1>2. 0 \in T
    <2> DEFINE h == [i \in 1..n |-> <<>>]
    <2>1. h \in [1..n -> X] /\ \A j \in (n + 1 - 0)..n : FALSE
      OBVIOUS
    <2> QED
      BY <2>1
  <1>3. ASSUME NEW k \in Nat, k \in T PROVE k + 1 \in T
    <2>1. SUFFICES ASSUME k + 1 <= n PROVE \E h \in [1..n -> X] : Holds(h, n + 1 - (k + 1))
      OBVIOUS
    <2>2. PICK h \in [1..n -> X] : Holds(h, n + 1 - k)
      BY <1>3, <2>1
    <2> DEFINE p == n - k
               v == At(h, p)
               g == [h EXCEPT ![p] = v]
    <2>3. p \in 1..n /\ n + 1 - (k + 1) = p /\ n + 1 - k = p + 1
      BY <2>1
    <2>4. v \in X
      BY <1>1, <2>3
    <2>5. next \in [1..n -> 0..n]
      OBVIOUS
    <2> HIDE DEF X, p, v
    <2>6. g \in [1..n -> X] /\ g[p] = v /\ \A j \in 1..n : j # p => g[j] = h[j]
      BY <2>3, <2>4
    <2> HIDE DEF g
    <2>7. ASSUME NEW j \in p..n PROVE g[j] = At(g, j) /\ g[j] = At(h, j)
      <3>1. j \in 1..n /\ (next[j] # 0 => next[j] \in 1..n /\ next[j] # p)
        BY <2>3
      <3>2. next[j] # 0 => g[next[j]] = h[next[j]]
        BY <2>6, <3>1
      <3>3. At(g, j) = At(h, j)
        BY <3>2
      <3>4. CASE j = p
        <4>1. g[j] = At(h, j)
          BY <2>6, <3>4 DEF v
        <4> QED
          BY <3>3, <4>1
      <3>5. CASE j # p
        <4>1. j \in (p + 1)..n /\ g[j] = h[j]
          BY <2>3, <2>6, <3>1, <3>5
        <4>2. h[j] = At(h, j)
          BY <2>2, <2>3, <4>1
        <4> QED
          BY <3>3, <4>1, <4>2
      <3> QED
        BY <3>4, <3>5
    <2>8. Holds(g, p)
      BY <2>7
    <2> QED
      BY <2>3, <2>6, <2>8
  <1> HIDE DEF T
  <1>4. n \in T
    BY <1>2, <1>3, Induction
  <1>5. PICK h \in [1..n -> X] : Holds(h, n + 1 - n)
    <2>1. n <= n
      OBVIOUS
    <2> HIDE DEF Holds
    <2> QED
      BY <1>4, <2>1, Zenon DEF T
  <1>6. n + 1 - n = 1
    OBVIOUS
  <1>7. \A j \in 1..n : h[j] = At(h, j)
    BY <1>5, <1>6
  <1>8. Follows(h, Piece, n, next, piece)
    BY <1>7 DEF Follows
  <1> QED
    BY <1>8

\* F[i] are the pieces of data from i on.
PiecesOf(F, data) ==
    /\ F \in [1..Len(data) -> Seq(Seq(Nat))]
    /\ \A i \in 1..Len(data) :
          F[i] = IF NextAt(data, i) = 0 THEN <<PieceAt(data, i)>>
                 ELSE <<PieceAt(data, i)>> \o F[NextAt(data, i)]

\* A piece ends behind its start, and so does the next one start behind it.
LEMMA PieceIs ==
    ASSUME NEW data \in Seq(Nat), NEW i \in 1..Len(data)
    PROVE  LET next == NextAt(data, i)
               last == IF next = 0 THEN Len(data) ELSE next - 1
           IN  /\ next \in 0..Len(data) /\ (next = 0 \/ next > i) /\ last \in i..Len(data)
               /\ PieceAt(data, i) = SubSeq(data, i, last)
               /\ PieceAt(data, i) \in Seq(Nat) /\ Len(PieceAt(data, i)) = last - i + 1
               /\ \A k \in 1..(last - i + 1) : PieceAt(data, i)[k] = data[i + k - 1]
  <1> DEFINE next == NextAt(data, i)
             last == IF next = 0 THEN Len(data) ELSE next - 1
             d == DeclaredAt(data, i)
  <1>1. Len(data) \in Nat /\ \A k \in 1..Len(data) : data[k] \in Nat
    OBVIOUS
  <1>2. d \in Nat
    BY <1>1 DEF DeclaredAt
  <1>3. next = IF d >= 7 /\ i + d <= Len(data) /\ data[i + d] = HEADER THEN i + d ELSE 0
    BY DEF NextAt, Splits, ENVELOPE_SIZE
  <1> HIDE DEF next, d
  <1>4. next \in 0..Len(data) /\ (next = 0 \/ next > i)
    BY <1>1, <1>2, <1>3
  <1>5. last \in i..Len(data) /\ i \in Int /\ last \in Int /\ i <= last
    BY <1>1, <1>4
  <1>6. PieceAt(data, i) = SubSeq(data, i, last)
    BY DEF PieceAt, next
  <1> HIDE DEF last
  <1>7. \A k \in i..last : data[k] \in Nat
    BY <1>1, <1>5
  <1>8. /\ SubSeq(data, i, last) \in Seq(Nat) /\ Len(SubSeq(data, i, last)) = last - i + 1
        /\ \A k \in 1..(last - i + 1) : SubSeq(data, i, last)[k] = data[i + k - 1]
    BY <1>5, <1>7, SubSeqProperties
  <1> QED
    BY <1>4, <1>5, <1>6, <1>8 DEF last, next

\* SplitFrames takes the pieces one by one, each where the one before points to.
LEMMA SplitOf ==
    ASSUME NEW data \in Seq(Nat), data # <<>>
    PROVE  \E F : PiecesOf(F, data) /\ SplitFrames(data) = F[1]
  <1> DEFINE n == Len(data)
             Piece == Seq(Nat)
             next == [i \in 1..n |-> NextAt(data, i)]
             piece == [i \in 1..n |-> PieceAt(data, i)]
             D(i) == IF i + 1 <= Len(data) THEN data[i + 1] ELSE 0
             Froms(F) == F = [i \in 1..Len(data) |->
                                IF Splits(data, i, D(i))
                                THEN <<SubSeq(data, i, i + D(i) - 1)>> \o F[i + D(i)]
                                ELSE <<SubSeq(data, i, Len(data))>>]
             From == CHOOSE F : Froms(F)
  <1>1. n \in Nat /\ 1 \in 1..n
    BY EmptySeq
  <1>2. ASSUME NEW i \in 1..n
        PROVE  /\ next[i] \in 0..n /\ (next[i] = 0 \/ next[i] > i) /\ piece[i] \in Piece
    BY PieceIs
  <1>3. next \in [1..n -> 0..n] /\ piece \in [1..n -> Piece]
    BY <1>2
  <1>4. PICK G : Follows(G, Piece, n, next, piece)
    <2> HIDE DEF n, next, piece, Piece
    <2> QED
      BY <1>1, <1>2, <1>3, Following
  <1> DEFINE Here(F, i) == IF NextAt(data, i) = 0 THEN <<PieceAt(data, i)>>
                            ELSE <<PieceAt(data, i)>> \o F[NextAt(data, i)]
             Said(F, i) == IF Splits(data, i, D(i))
                            THEN <<SubSeq(data, i, i + D(i) - 1)>> \o F[i + D(i)]
                            ELSE <<SubSeq(data, i, Len(data))>>
  <1>5. ASSUME NEW F, NEW i \in 1..n PROVE Here(F, i) = Said(F, i)
    <2>1. D(i) = DeclaredAt(data, i)
      BY DEF DeclaredAt
    <2>2. D(i) \in Nat
      OBVIOUS
    <2> HIDE DEF D
    <2>3. CASE Splits(data, i, D(i))
      <3>1. D(i) >= 7
        BY <2>3 DEF Splits, ENVELOPE_SIZE
      <3>2. NextAt(data, i) = i + D(i) /\ i + D(i) # 0
        BY <2>1, <2>2, <2>3, <3>1 DEF NextAt
      <3>3. PieceAt(data, i) = SubSeq(data, i, i + D(i) - 1)
        <4>1. PieceAt(data, i) = SubSeq(data, i, IF NextAt(data, i) = 0 THEN Len(data)
                                                 ELSE NextAt(data, i) - 1)
          BY DEF PieceAt
        <4>2. (IF NextAt(data, i) = 0 THEN Len(data) ELSE NextAt(data, i) - 1) = i + D(i) - 1
          BY <2>2, <3>2
        <4> QED
          BY <4>1, <4>2
      <3> QED
        BY <2>3, <3>2, <3>3
    <2>4. CASE ~ Splits(data, i, D(i))
      <3>1. NextAt(data, i) = 0
        BY <2>1, <2>4 DEF NextAt
      <3>2. PieceAt(data, i) = SubSeq(data, i, Len(data))
        BY <3>1 DEF PieceAt
      <3> QED
        BY <2>4, <3>1, <3>2
    <2> QED
      BY <2>3, <2>4
  <1> HIDE DEF Here
  <1>6. G \in [1..n -> Seq(Piece)] /\ \A i \in 1..n : G[i] = Here(G, i)
    BY <1>4 DEF Follows, Here
  <1> HIDE DEF Said
  <1>7. G = [i \in 1..n |-> Said(G, i)]
    <2>1. \A i \in 1..n : G[i] = Said(G, i)
      BY <1>5, <1>6, Zenon
    <2> QED
      BY <1>6, <2>1
  <1>8. From = [i \in 1..n |-> Said(From, i)]
    <2>1. Froms(G)
      BY <1>7 DEF Said
    <2>2. Froms(From)
      BY <2>1, Zenon
    <2> HIDE DEF From
    <2> QED
      BY <2>2 DEF Said
  <1> HIDE DEF From, n
  <1>9. ASSUME NEW i \in 1..n PROVE From[i] = Here(From, i)
    <2>1. ASSUME NEW g, g = [j \in 1..n |-> Said(From, j)] PROVE g[i] = Said(From, i)
      BY <2>1, Zenon
    <2> QED
      BY <1>5, <1>8, <2>1, Zenon
  <1> DEFINE T == {i \in 1..n : From[i] = G[i]}
  <1>10. ASSUME NEW i \in 1..n, \A j \in (i + 1)..n : j \in T PROVE i \in T
    <2>1. NextAt(data, i) = 0 \/ NextAt(data, i) \in (i + 1)..n
      BY <1>1, <1>2
    <2>2. NextAt(data, i) # 0 => From[NextAt(data, i)] = G[NextAt(data, i)]
      BY <1>10, <2>1
    <2>3. Here(From, i) = Here(G, i)
      BY <2>2 DEF Here
    <2> QED
      BY <1>6, <1>9, <2>3
  <1> HIDE DEF T
  <1>11. 1 \in T
    BY <1>1, <1>10, Descent
  <1>12. From[1] = G[1]
    BY <1>11 DEF T
  <1>13. SplitFrames(data) = From[1]
    BY DEF SplitFrames, From
  <1>14. PiecesOf(G, data)
    BY <1>6 DEF PiecesOf, Here, n
  <1> QED
    BY <1>12, <1>13, <1>14

\* Splitting a datagram loses nothing: the pieces, none of them empty, put together are
\* the datagram, whatever it holds (protocol.py:42-52).
THEOREM NothingIsLost ==
    ASSUME NEW data \in Seq(Nat), data # <<>>
    PROVE  /\ SplitFrames(data) \in Seq(Seq(Nat) \ {<<>>})
           /\ FlattenSeq(SplitFrames(data)) = data
  <1> DEFINE n == Len(data)
             X == Seq(Nat)
             Y == Seq(Nat) \ {<<>>}
             Rest(i) == SubSeq(data, i, n)
  <1>1. n \in Nat /\ 1 \in 1..n
    BY EmptySeq
  <1>2. PICK F : PiecesOf(F, data) /\ SplitFrames(data) = F[1]
    BY SplitOf
  <1> DEFINE T == {i \in 1..n : F[i] \in Seq(Y) /\ FlattenSeq(F[i]) = Rest(i)}
  <1>3. ASSUME NEW i \in 1..n, \A j \in (i + 1)..n : j \in T PROVE i \in T
    <2> DEFINE next == NextAt(data, i)
               last == IF next = 0 THEN n ELSE next - 1
               piece == PieceAt(data, i)
    <2>1. /\ next \in 0..n /\ (next = 0 \/ next > i) /\ last \in i..n
          /\ piece = SubSeq(data, i, last) /\ piece \in X /\ Len(piece) = last - i + 1
      BY PieceIs
    <2>2. F[i] = IF next = 0 THEN <<piece>> ELSE <<piece>> \o F[next]
      BY <1>2 DEF PiecesOf
    <2> HIDE DEF next, piece, n
    <2>3. piece \in Y
      <3>1. Len(piece) > 0
        BY <1>1, <2>1
      <3> QED
        BY <2>1, <3>1
    <2>4. <<piece>> \in Seq(Y) /\ <<piece>> \in Seq(Seq(Nat))
      BY <2>1, <2>3
    <2>5. FlattenSeq(<<piece>>) = piece
      BY <2>1, FlattenOne
    <2>6. CASE next = 0
      BY <2>1, <2>2, <2>4, <2>5, <2>6
    <2>7. CASE next # 0
      <3>1. next \in (i + 1)..n /\ last = next - 1
        BY <1>1, <2>1, <2>7
      <3>2. F[next] \in Seq(Y) /\ FlattenSeq(F[next]) = Rest(next)
        BY <1>3, <3>1
      <3>3. F[next] \in Seq(Seq(Nat))
        BY <3>2, SeqMonotonic
      <3>4. FlattenSeq(F[i]) = piece \o Rest(next)
        BY <2>2, <2>4, <2>5, <2>7, <3>2, <3>3, FlattenConcat
      <3>5. piece \o Rest(next) = Rest(i)
        <4>1. /\ i \in 1..Len(data) + 1 /\ last \in i - 1..Len(data) /\ n \in last..Len(data)
              /\ last + 1 = next
          BY <1>1, <2>1, <3>1 DEF n
        <4>2. SubSeq(data, i, last) \o SubSeq(data, last + 1, n) = SubSeq(data, i, n)
          BY <4>1, ConcatAdjacentSubSeq
        <4> QED
          BY <2>1, <4>1, <4>2
      <3>6. F[i] \in Seq(Y)
        <4> HIDE DEF Y
        <4>1. <<piece>> \o F[next] \in Seq(Y)
          BY <2>4, <3>2, ConcatProperties
        <4> QED
          BY <2>2, <2>7, <4>1
      <3> QED
        BY <3>4, <3>5, <3>6
    <2> QED
      BY <2>6, <2>7
  <1> HIDE DEF T
  <1>4. 1 \in T
    BY <1>1, <1>3, Descent
  <1>5. Rest(1) = data
    BY SubSeqFull
  <1> QED
    BY <1>2, <1>4, <1>5 DEF T

\* A datagram whose first frame points nowhere is one piece.
LEMMA NotSplit ==
    ASSUME NEW data \in Seq(Nat), data # <<>>, NextAt(data, 1) = 0
    PROVE  SplitFrames(data) = <<data>>
  <1>1. 1 \in 1..Len(data)
    BY EmptySeq
  <1>2. PICK F : PiecesOf(F, data) /\ SplitFrames(data) = F[1]
    BY SplitOf
  <1>3. F[1] = <<PieceAt(data, 1)>>
    BY <1>1, <1>2 DEF PiecesOf
  <1>4. PieceAt(data, 1) = data
    BY SubSeqFull DEF PieceAt
  <1> QED
    BY <1>2, <1>3, <1>4

\* Behind another sequence, a datagram is split as it is on its own.
LEMMA SplitBehind ==
    ASSUME NEW f \in Seq(Nat), NEW tail \in Seq(Nat), NEW F, NEW G,
           PiecesOf(F, f \o tail), PiecesOf(G, tail), tail # <<>>
    PROVE  F[Len(f) + 1] = G[1]
  <1> DEFINE data == f \o tail
             l == Len(f)
             n == Len(tail)
  <1>1. /\ l \in Nat /\ n \in Nat /\ 1 \in 1..n /\ data \in Seq(Nat) /\ Len(data) = l + n
        /\ \A i \in 1..n : data[l + i] = tail[i]
    BY EmptySeq
  <1>2. ASSUME NEW i \in 1..n
        PROVE  /\ PieceAt(data, l + i) = PieceAt(tail, i)
               /\ NextAt(data, l + i) = IF NextAt(tail, i) = 0 THEN 0 ELSE l + NextAt(tail, i)
    <2> DEFINE d == DeclaredAt(tail, i)
    <2>1. DeclaredAt(data, l + i) = d
      <3>1. (l + i) + 1 <= Len(data) <=> i + 1 <= n
        BY <1>1
      <3>2. i + 1 <= n => data[(l + i) + 1] = tail[i + 1]
        <4>1. (l + i) + 1 = l + (i + 1)
          BY <1>1
        <4>2. i + 1 <= n => i + 1 \in 1..n
          BY <1>1
        <4> QED
          BY <1>1, <4>1, <4>2
      <3> HIDE DEF data, l
      <3> QED
        BY <3>1, <3>2 DEF DeclaredAt
    <2>2. d \in Nat
      BY DEF DeclaredAt
    <2> HIDE DEF d
    <2>3. Splits(data, l + i, d) <=> Splits(tail, i, d)
      <3>1. (l + i) + d <= Len(data) <=> i + d <= n
        BY <1>1, <2>2
      <3>2. d >= 7 /\ i + d <= n => data[(l + i) + d] = tail[i + d]
        <4>1. (l + i) + d = l + (i + d)
          BY <1>1, <2>2
        <4>2. i + d <= n => i + d \in 1..n
          BY <1>1, <2>2
        <4> QED
          BY <1>1, <4>1, <4>2
      <3> HIDE DEF data, l
      <3> QED
        BY <3>1, <3>2 DEF Splits, ENVELOPE_SIZE
    <2>4. NextAt(tail, i) = (IF Splits(tail, i, d) THEN i + d ELSE 0)
      BY DEF NextAt, d
    <2>5. NextAt(data, l + i) = (IF Splits(tail, i, d) THEN (l + i) + d ELSE 0)
      BY <2>1, <2>3 DEF NextAt
    <2>6. Splits(tail, i, d) => d >= 7
      BY DEF Splits, ENVELOPE_SIZE
    <2>7. NextAt(data, l + i) = IF NextAt(tail, i) = 0 THEN 0 ELSE l + NextAt(tail, i)
      <3> HIDE DEF data, l
      <3> QED
        BY <1>1, <2>2, <2>4, <2>5, <2>6
    <2> DEFINE last == IF NextAt(tail, i) = 0 THEN n ELSE NextAt(tail, i) - 1
    <2>8. last \in i..n /\ PieceAt(tail, i) = SubSeq(tail, i, last)
      BY PieceIs
    <2>9. PieceAt(data, l + i) = SubSeq(data, l + i, l + last)
      <3>1. (IF NextAt(data, l + i) = 0 THEN Len(data) ELSE NextAt(data, l + i) - 1) = l + last
        <4>1. NextAt(tail, i) \in Nat
          BY PieceIs
        <4> HIDE DEF data, l
        <4> QED
          BY <1>1, <2>7, <4>1
      <3> QED
        BY <3>1 DEF PieceAt
    <2>10. SubSeq(data, l + i, l + last) = SubSeq(tail, i, last)
      <3>1. /\ l + i \in Len(f) + 1..Len(f) + Len(tail)
            /\ l + last \in Len(f) + 1..Len(f) + Len(tail)
            /\ (l + i) - Len(f) = i /\ (l + last) - Len(f) = last
        BY <1>1, <2>8
      <3>2. ASSUME NEW a \in Len(f) + 1..Len(f) + Len(tail),
                   NEW b \in Len(f) + 1..Len(f) + Len(tail)
            PROVE  SubSeq(data, a, b) = SubSeq(tail, a - Len(f), b - Len(f))
        BY SubSeqOfConcat2
      <3>3. SubSeq(data, l + i, l + last) = SubSeq(tail, (l + i) - Len(f), (l + last) - Len(f))
        BY <3>1, <3>2, Zenon
      <3> QED
        BY <3>1, <3>3, Zenon
    <2> HIDE DEF last
    <2>11. PieceAt(data, l + i) = PieceAt(tail, i)
      BY <2>8, <2>9, <2>10, Zenon
    <2> QED
      BY <2>7, <2>11, Zenon
  <1>3. /\ \A i \in 1..n : F[l + i] = IF NextAt(data, l + i) = 0 THEN <<PieceAt(data, l + i)>>
                                      ELSE <<PieceAt(data, l + i)>> \o F[NextAt(data, l + i)]
        /\ \A i \in 1..n : G[i] = IF NextAt(tail, i) = 0 THEN <<PieceAt(tail, i)>>
                                  ELSE <<PieceAt(tail, i)>> \o G[NextAt(tail, i)]
    <2>1. \A i \in 1..n : l + i \in 1..Len(data)
      BY <1>1
    <2> HIDE DEF l
    <2> QED
      BY <2>1 DEF PiecesOf
  <1> DEFINE T == {i \in 1..n : F[l + i] = G[i]}
  <1>4. ASSUME NEW i \in 1..n, \A j \in (i + 1)..n : j \in T PROVE i \in T
    <2> DEFINE next == NextAt(tail, i)
    <2>1. next = 0 \/ next \in (i + 1)..n
      BY PieceIs
    <2>2. next # 0 => F[l + next] = G[next]
      BY <1>4, <2>1
    <2>3. next # 0 => l + next # 0
      BY <1>1, <2>1
    <2> HIDE DEF next, data, l
    <2>4. F[l + i] = IF next = 0 THEN <<PieceAt(tail, i)>> ELSE <<PieceAt(tail, i)>> \o F[l + next]
      BY <1>2, <1>3, <2>3 DEF next
    <2>5. G[i] = IF next = 0 THEN <<PieceAt(tail, i)>> ELSE <<PieceAt(tail, i)>> \o G[next]
      BY <1>3 DEF next
    <2> QED
      BY <2>2, <2>4, <2>5
  <1> HIDE DEF T
  <1>5. 1 \in T
    BY <1>1, <1>4, Descent
  <1> QED
    BY <1>5 DEF T

\* A frame with another behind it is split off.
LEMMA SplitFirst ==
    ASSUME NEW f \in Seq(Nat), NEW tail \in Seq(Nat), Len(f) >= ENVELOPE_SIZE,
           Declared(f) = Len(f), tail # <<>>, tail[1] = HEADER
    PROVE  SplitFrames(f \o tail) = <<f>> \o SplitFrames(tail)
  <1> DEFINE data == f \o tail
             l == Len(f)
  <1>1. /\ l \in Nat /\ Len(tail) \in Nat /\ Len(tail) > 0 /\ data \in Seq(Nat)
        /\ Len(data) = l + Len(tail) /\ l >= 7
        /\ \A i \in 1..l : data[i] = f[i]
        /\ \A i \in 1..Len(tail) : data[l + i] = tail[i]
    BY EmptySeq DEF ENVELOPE_SIZE
  <1>2. data[2] = l /\ data[1 + l] = HEADER
    BY <1>1 DEF Declared
  <1> HIDE DEF data, l
  <1>3. 1 \in 1..Len(data) /\ data # <<>>
    BY <1>1
  <1>4. NextAt(data, 1) = l + 1
    <2>1. DeclaredAt(data, 1) = l
      BY <1>1, <1>2 DEF DeclaredAt
    <2>2. Splits(data, 1, l)
      BY <1>1, <1>2 DEF Splits, ENVELOPE_SIZE
    <2> QED
      BY <1>1, <2>1, <2>2 DEF NextAt
  <1>5. PieceAt(data, 1) = f
    <2>1. PieceAt(data, 1) = SubSeq(data, 1, l)
      BY <1>1, <1>4 DEF PieceAt
    <2>2. SubSeq(data, 1, l) = f
      <3>1. 1 \in Nat \ {0} /\ l = 1 + Len(f) - 1 /\ \A i \in 1..Len(f) : data[1 + i - 1] = f[i]
        BY <1>1 DEF l
      <3> QED
        BY <1>1, <3>1, SliceIs
    <2> QED
      BY <2>1, <2>2
  <1>6. PICK F : PiecesOf(F, data) /\ SplitFrames(data) = F[1]
    BY <1>1, <1>3, SplitOf
  <1>7. PICK G : PiecesOf(G, tail) /\ SplitFrames(tail) = G[1]
    BY SplitOf
  <1>8. F[l + 1] = G[1]
    BY <1>6, <1>7, SplitBehind DEF data, l
  <1>9. F[1] = <<f>> \o F[l + 1]
    <2>1. F[1] = IF NextAt(data, 1) = 0 THEN <<PieceAt(data, 1)>>
                 ELSE <<PieceAt(data, 1)>> \o F[NextAt(data, 1)]
      BY <1>3, <1>6 DEF PiecesOf
    <2>2. l + 1 # 0
      BY <1>1
    <2> QED
      BY <1>4, <1>5, <2>1, <2>2
  <1> QED
    BY <1>6, <1>7, <1>8, <1>9 DEF data

\* Frames that say how long they are, each but the first with its header in place, and a
\* last piece of any kind that is not split itself, are taken apart as they were put
\* together (protocol.py:42-52).
THEOREM FramesAreSplit ==
    ASSUME NEW frames \in Seq(Seq(Nat)), NEW last \in Seq(Nat), last # <<>>,
           \A i \in 1..Len(frames) : /\ Len(frames[i]) >= ENVELOPE_SIZE
                                     /\ Declared(frames[i]) = Len(frames[i])
                                     /\ i > 1 => frames[i][1] = HEADER,
           frames # <<>> => last[1] = HEADER,
           SplitFrames(last) = <<last>>
    PROVE  SplitFrames(FlattenSeq(frames) \o last) = Append(frames, last)
  <1> DEFINE n == Len(frames)
             X == Seq(Nat)
             From(i) == SubSeq(frames, i, n)
             data(i) == FlattenSeq(From(i)) \o last
             Starts(i) == /\ data(i) \in X /\ data(i) # <<>>
                          /\ i > 1 => data(i)[1] = HEADER
                          /\ SplitFrames(data(i)) = From(i) \o <<last>>
             T == {i \in 1..(n + 1) : Starts(i)}
  <1>1. n \in Nat /\ \A i \in 1..n : frames[i] \in X
    OBVIOUS
  <1>2. n + 1 \in T
    <2>1. From(n + 1) = <<>>
      BY <1>1, SubSeqEmpty
    <2>2. FlattenSeq(<<>>) = <<>>
      BY DEF FlattenSeq
    <2>3. data(n + 1) = last
      BY <2>1, <2>2, ConcatEmptySeq
    <2>4. From(n + 1) \o <<last>> = <<last>>
      <3>1. <<last>> \in Seq(X)
        OBVIOUS
      <3> HIDE DEF X, From
      <3> QED
        BY <2>1, <3>1, ConcatEmptySeq
    <2>5. n + 1 > 1 => last[1] = HEADER
      BY <1>1
    <2>6. SplitFrames(last) = <<last>> /\ last \in X /\ last # <<>>
      OBVIOUS
    <2> HIDE DEF From, data, n
    <2>7. Starts(n + 1)
      BY <2>3, <2>4, <2>5, <2>6, Zenon
    <2> HIDE DEF Starts
    <2> QED
      BY <1>1, <2>7
  <1>3. ASSUME NEW i \in 1..n, i + 1 \in T PROVE i \in T
    <2> DEFINE f == frames[i]
    <2>1. From(i) = <<f>> \o From(i + 1)
      BY <1>1, SubSeqRecursiveFirst
    <2>2. From(i + 1) \in Seq(X) /\ <<f>> \in Seq(X)
      BY <1>1
    <2>3. FlattenSeq(From(i)) = f \o FlattenSeq(From(i + 1))
      <3>1. FlattenSeq(<<f>>) = f
        BY <1>1, FlattenOne
      <3> HIDE DEF From, f
      <3> QED
        BY <2>1, <2>2, <3>1, FlattenConcat
    <2>4. f \in X /\ FlattenSeq(From(i + 1)) \in X
      BY <1>1, <2>2, FlattenType
    <2>5. data(i) = f \o data(i + 1)
      <3> DEFINE g == FlattenSeq(From(i + 1))
      <3> HIDE DEF From, f, g
      <3>1. (f \o g) \o last = f \o (g \o last)
        BY <2>4, Associates, Zenon DEF g
      <3> QED
        BY <2>3, <3>1 DEF g
    <2>6. /\ data(i + 1) \in X /\ data(i + 1) # <<>> /\ data(i + 1)[1] = HEADER
          /\ SplitFrames(data(i + 1)) = From(i + 1) \o <<last>>
      <3>1. i + 1 > 1
        BY <1>1
      <3> HIDE DEF data, From, X
      <3> QED
        BY <1>3, <3>1
    <2>7. Len(f) >= ENVELOPE_SIZE /\ Declared(f) = Len(f) /\ (i > 1 => f[1] = HEADER)
      OBVIOUS
    <2> HIDE DEF data, From, f
    <2>8. SplitFrames(data(i)) = <<f>> \o SplitFrames(data(i + 1))
      BY <2>4, <2>5, <2>6, <2>7, SplitFirst
    <2>9. SplitFrames(data(i)) = From(i) \o <<last>>
      <3>1. <<last>> \in Seq(X)
        OBVIOUS
      <3> HIDE DEF X
      <3>3. (<<f>> \o From(i + 1)) \o <<last>> = <<f>> \o (From(i + 1) \o <<last>>)
        BY <2>2, <3>1, Associates
      <3> QED
        BY <2>1, <2>6, <2>8, <3>3
    <2>10. data(i) \in X /\ data(i) # <<>> /\ (i > 1 => data(i)[1] = HEADER)
      <3>1. Len(f) > 0 /\ 1 \in 1..Len(f)
        BY <2>4, <2>7 DEF ENVELOPE_SIZE
      <3>2. f \o data(i + 1) \in X /\ f \o data(i + 1) # <<>> /\ (f \o data(i + 1))[1] = f[1]
        BY <2>4, <2>6, <3>1
      <3> QED
        BY <2>5, <2>7, <3>2
    <2> QED
      BY <1>1, <2>9, <2>10
  <1> DEFINE S == {k \in Nat : k <= n => n + 1 - k \in T}
  <1> HIDE DEF T
  <1>4. 0 \in S
    BY <1>1, <1>2
  <1>5. ASSUME NEW k \in Nat, k \in S PROVE k + 1 \in S
    <2>1. SUFFICES ASSUME k + 1 <= n PROVE n + 1 - (k + 1) \in T
      OBVIOUS
    <2>2. n - k \in 1..n /\ (n - k) + 1 = n + 1 - k /\ n + 1 - (k + 1) = n - k /\ k <= n
      BY <1>1, <2>1
    <2> HIDE DEF n
    <2> QED
      BY <1>3, <1>5, <2>2
  <1> HIDE DEF S
  <1>6. n \in S
    BY <1>1, <1>4, <1>5, Induction
  <1>7. 1 \in T
    <2>1. n <= n /\ n + 1 - n = 1
      BY <1>1
    <2> HIDE DEF n
    <2> QED
      BY <1>6, <2>1 DEF S
  <1>8. SplitFrames(data(1)) = From(1) \o <<last>>
    BY <1>7 DEF T
  <1>9. From(1) = frames /\ Append(frames, last) = frames \o <<last>>
    BY SubSeqFull, AppendIsConcat
  <1> QED
    BY <1>8, <1>9

-----------------------------------------------------------------------------
(* What is built is accepted.                                              *)

\* Frames as build_packet() makes them.
Whole(f) ==
    /\ f \in Seq(Nat) /\ Len(f) >= ENVELOPE_SIZE
    /\ f[1] = HEADER /\ Declared(f) = Len(f)
    /\ f[Len(f) - 1] = Checksum(SubSeq(f, 1, Len(f) - 2)) /\ f[Len(f)] = TAIL

\* A frame with these fields.
Carries(f, ser, cmd, payload) ==
    /\ f[3] = ser /\ f[HeadCells] = cmd
    /\ SubSeq(f, HeadCells + 1, Len(f) - 2) = payload

\* build_packet() makes a whole frame, of the fields it was given.
LEMMA BuiltIsWhole ==
    ASSUME NEW ser \in Nat, NEW password \in Nat, NEW cmd \in Nat, NEW payload \in Seq(Nat),
           NEW f, f = BuildPacket(ser, password, cmd, payload)
    PROVE  Whole(f) /\ Carries(f, ser, cmd, payload)
  <1> DEFINE head == Head5(ser, password, cmd, payload)
             body == Body(ser, password, cmd, payload)
             c == Checksum(body)
             end == <<c, TAIL>>
             n == Len(payload)
  <1>1. n \in Nat
    OBVIOUS
  <1>2. /\ head \in Seq(Nat) /\ Len(head) = 5 /\ head[1] = HEADER /\ head[2] = 7 + n
        /\ head[3] = ser /\ head[5] = cmd
    BY <1>1, EnvelopeAssumption DEF Head5, ENVELOPE_SIZE
  <1>3. body = head \o payload /\ f = body \o end
    BY DEF Body, BuildPacket
  <1> HIDE DEF head, body
  <1>4. /\ body \in Seq(Nat) /\ Len(body) = 5 + n
        /\ \A i \in 1..5 : body[i] = head[i]
        /\ \A i \in 1..n : body[5 + i] = payload[i]
    <2>0. head \in Seq(Nat) /\ payload \in Seq(Nat)
      BY <1>2
    <2>1. /\ head \o payload \in Seq(Nat) /\ Len(head \o payload) = Len(head) + Len(payload)
          /\ \A i \in 1..Len(head) : (head \o payload)[i] = head[i]
          /\ \A i \in 1..Len(payload) : (head \o payload)[Len(head) + i] = payload[i]
      BY <2>0, Joined
    <2>2. Len(head) = 5 /\ Len(payload) = n
      BY <1>2
    <2> HIDE DEF n
    <2> QED
      BY <1>3, <2>1, <2>2, Zenon
  <1>5. c \in Nat
    BY <1>4, ChecksumIsNat
  <1> HIDE DEF c
  <1>6. end \in Seq(Nat) /\ Len(end) = 2 /\ end[1] = c /\ end[2] = TAIL
    BY <1>5, EnvelopeAssumption
  <1> HIDE DEF end, n
  <1>7. /\ f \in Seq(Nat) /\ Len(f) = (5 + n) + 2
        /\ \A i \in 1..(5 + n) : f[i] = body[i]
        /\ \A i \in 1..2 : f[(5 + n) + i] = end[i]
    <2>1. /\ body \o end \in Seq(Nat) /\ Len(body \o end) = Len(body) + Len(end)
          /\ \A i \in 1..Len(body) : (body \o end)[i] = body[i]
          /\ \A i \in 1..Len(end) : (body \o end)[Len(body) + i] = end[i]
      <3>1. body \in Seq(Nat) /\ end \in Seq(Nat)
        BY <1>4, <1>6
      <3> QED
        BY <3>1, Joined
    <2> QED
      BY <1>3, <1>4, <1>6, <2>1, Zenon
  <1>8. ASSUME NEW i \in 1..5 PROVE f[i] = head[i]
    <2>1. i \in 1..(5 + n)
      BY <1>1
    <2>2. f[i] = body[i]
      BY <1>7, <2>1
    <2> QED
      BY <1>4, <2>2
  <1>9. Len(f) - 1 = (5 + n) + 1 /\ Len(f) - 2 = 5 + n /\ Len(f) >= 7
    BY <1>1, <1>7
  <1>10. SubSeq(f, 1, Len(f) - 2) = body
    <2>1. /\ 1 \in Nat \ {0} /\ Len(f) - 2 = 1 + Len(body) - 1
          /\ \A i \in 1..Len(body) : f[1 + i - 1] = body[i]
      BY <1>1, <1>4, <1>7, <1>9
    <2> QED
      BY <1>4, <1>7, <2>1, SliceIs
  <1>11. SubSeq(f, 6, Len(f) - 2) = payload
    <2>1. \A i \in 1..Len(payload) : f[6 + i - 1] = payload[i]
      <3>1. ASSUME NEW i \in 1..n PROVE f[6 + i - 1] = payload[i]
        <4>1. 6 + i - 1 = 5 + i /\ 5 + i \in 1..(5 + n)
          BY <1>1
        <4> QED
          BY <1>4, <1>7, <4>1
      <3> QED
        BY <3>1 DEF n
    <2>2. 6 \in Nat \ {0} /\ Len(f) - 2 = 6 + Len(payload) - 1
      BY <1>1, <1>9 DEF n
    <2> QED
      BY <1>7, <2>1, <2>2, SliceIs
  <1>12. f[1] = HEADER /\ f[2] = Len(f) /\ f[3] = ser /\ f[5] = cmd
    BY <1>1, <1>2, <1>7, <1>8
  <1>13. f[Len(f) - 1] = c /\ f[Len(f)] = TAIL
    <2>1. 1 \in 1..2 /\ 2 \in 1..2
      OBVIOUS
    <2>2. f[(5 + n) + 1] = c /\ f[(5 + n) + 2] = TAIL
      BY <1>6, <1>7, <2>1, Zenon
    <2> QED
      BY <1>7, <1>9, <2>2, Zenon
  <1>14. Whole(f)
    BY <1>7, <1>9, <1>10, <1>12, <1>13 DEF Whole, ENVELOPE_SIZE, Declared, c
  <1> QED
    BY <1>11, <1>12, <1>14 DEF HeadCells, Carries

\* A whole frame is one whatever follows it in the datagram.
LEMMA WholeStays ==
    ASSUME NEW f, Whole(f), NEW behind \in Seq(Nat)
    PROVE  LET data == f \o behind
           IN  /\ data \in Seq(Nat) /\ IsFrame(data) /\ TailAndChecksum(data)
               /\ data[3] = f[3] /\ data[HeadCells] = f[HeadCells]
               /\ Packet(data) = [command |-> f[HeadCells], device_serial |-> f[3],
                                  data |-> SubSeq(f, HeadCells + 1, Len(f) - 2)]
  <1> DEFINE data == f \o behind
             l == Len(f)
  <1>1. /\ f \in Seq(Nat) /\ l \in Nat /\ l >= 7
        /\ f[1] = HEADER /\ f[2] = l
        /\ f[l - 1] = Checksum(SubSeq(f, 1, l - 2)) /\ f[l] = TAIL
    BY DEF Whole, ENVELOPE_SIZE, Declared
  <1>2. /\ data \in Seq(Nat) /\ Len(behind) \in Nat /\ Len(data) = l + Len(behind)
        /\ \A i \in 1..l : data[i] = f[i]
    BY <1>1, Joined
  <1>3. \A a \in 1..l, b \in 1..l : SubSeq(data, a, b) = SubSeq(f, a, b)
    BY <1>1, SubSeqOfConcat1
  <1> HIDE DEF data, l
  <1>4. data[1] = HEADER /\ data[2] = l /\ data[3] = f[3] /\ data[5] = f[5]
    <2>1. 1 \in 1..l /\ 2 \in 1..l /\ 3 \in 1..l /\ 5 \in 1..l
      BY <1>1
    <2> QED
      BY <1>1, <1>2, <2>1, Zenon
  <1>5. EndOf(data) = l
    BY <1>1, <1>2, <1>4 DEF EndOf, Declared, ENVELOPE_SIZE
  <1>6. SubSeq(data, 1, l - 2) = SubSeq(f, 1, l - 2) /\ SubSeq(data, 6, l - 2) = SubSeq(f, 6, l - 2)
    <2>1. 1 \in 1..l /\ l - 2 \in 1..l /\ 6 \in 1..l
      BY <1>1
    <2> QED
      BY <1>3, <2>1, Zenon
  <1>7. TailAndChecksum(data)
    <2>1. l \in 1..l /\ l - 1 \in 1..l
      BY <1>1
    <2>2. data[l] = TAIL /\ data[l - 1] = Checksum(SubSeq(data, 1, l - 2))
      BY <1>1, <1>2, <1>6, <2>1, Zenon
    <2> QED
      BY <1>5, <2>2 DEF TailAndChecksum
  <1>8. IsFrame(data)
    BY <1>1, <1>2, <1>4 DEF IsFrame, ENVELOPE_SIZE
  <1>9. Packet(data) = [command |-> f[5], device_serial |-> f[3], data |-> SubSeq(f, 6, l - 2)]
    <2>1. 5 + 1 = 6 /\ HeadCells = 5
      BY DEF HeadCells
    <2> QED
      BY <1>4, <1>5, <1>6, <2>1 DEF Packet
  <1>10. HeadCells = 5 /\ HeadCells + 1 = 6
    BY DEF HeadCells
  <1> QED
    BY <1>2, <1>4, <1>7, <1>8, <1>9, <1>10 DEF data, l

\* A frame that build_packet() makes of a known command is accepted, and its handler sees
\* the command, serial and payload it was built from, whatever the payload and whatever
\* bytes trail it in the datagram (protocol.py:55-85 against data_types.py:327-358).
THEOREM BuiltIsAccepted ==
    ASSUME NEW ser \in Nat, NEW password \in Nat, NEW cmd \in Nat, cmd \in Commands,
           NEW payload \in Seq(Nat), NEW junk \in Seq(Nat)
    PROVE  LET data == BuildPacket(ser, password, cmd, payload) \o junk
           IN  /\ Accepted(data)
               /\ Packet(data) = [command |-> cmd, device_serial |-> ser, data |-> payload]
  <1> DEFINE f == BuildPacket(ser, password, cmd, payload)
             data == f \o junk
  <1>0. f = BuildPacket(ser, password, cmd, payload)
    OBVIOUS
  <1> HIDE DEF f
  <1>1. Whole(f) /\ Carries(f, ser, cmd, payload)
    BY <1>0, BuiltIsWhole, Zenon
  <1>2. /\ IsFrame(data) /\ TailAndChecksum(data) /\ data[HeadCells] = f[HeadCells]
        /\ Packet(data) = [command |-> f[HeadCells], device_serial |-> f[3],
                           data |-> SubSeq(f, HeadCells + 1, Len(f) - 2)]
    BY <1>1, WholeStays
  <1>3. Accepted(data)
    BY <1>1, <1>2 DEF Accepted, Carries
  <1> QED
    BY <1>1, <1>2, <1>3 DEF f, Carries

-----------------------------------------------------------------------------
(* What becomes of the frames of a datagram.                               *)

\* A piece that comes through as the frame f, and one that does not come through.
Holds(p, f) ==
    /\ p \in Seq(Nat) /\ IsFrame(p) /\ TailAndChecksum(p) /\ IsFrame(f) /\ TailAndChecksum(f)
    /\ p[3] = f[3] /\ p[HeadCells] = f[HeadCells] /\ Packet(p) = Packet(f)
Bad(p) == ~ (IsFrame(p) /\ TailAndChecksum(p))

\* A whole frame comes through, whatever follows it.
LEMMA WholeHolds ==
    ASSUME NEW f, Whole(f), NEW behind \in Seq(Nat)
    PROVE  Holds(f \o behind, f)
  <1> DEFINE p == f \o behind
             packet == [command |-> f[HeadCells], device_serial |-> f[3],
                        data |-> SubSeq(f, HeadCells + 1, Len(f) - 2)]
  <1>1. /\ p \in Seq(Nat) /\ IsFrame(p) /\ TailAndChecksum(p)
        /\ p[3] = f[3] /\ p[HeadCells] = f[HeadCells] /\ Packet(p) = packet
    BY WholeStays
  <1>2. f \o <<>> = f /\ <<>> \in Seq(Nat)
    BY ConcatEmptySeq DEF Whole
  <1> HIDE DEF packet
  <1>3. IsFrame(f \o <<>>) /\ TailAndChecksum(f \o <<>>) /\ Packet(f \o <<>>) = packet
    BY <1>2, WholeStays DEF packet
  <1> HIDE DEF p
  <1>4. IsFrame(f) /\ TailAndChecksum(f) /\ Packet(f) = packet
    BY <1>2, <1>3
  <1> QED
    BY <1>1, <1>4 DEF Holds, p

\* What sources send are whole frames.
LEMMA SendableIsWhole ==
    ASSUME NEW f \in Sendable
    PROVE  Whole(f) /\ Len(f) < HEADER
  <1> DEFINE payload == SubSeq(f, HeadCells + 1, Len(f) - 2)
  <1>1. /\ f \in Seq(Nat) /\ Len(f) >= 7 /\ Len(f) < HEADER
        /\ f = BuildPacket(f[3], f[4], f[HeadCells], payload)
    BY SendableAssumption DEF ENVELOPE_SIZE
  <1>2. f[3] \in Nat /\ f[4] \in Nat /\ f[HeadCells] \in Nat
    BY <1>1 DEF HeadCells
  <1>3. payload \in Seq(Nat)
    <2>1. \A i \in 6..(Len(f) - 2) : f[i] \in Nat
      BY <1>1
    <2>2. 6 \in Int /\ Len(f) - 2 \in Int /\ HeadCells + 1 = 6
      BY <1>1 DEF HeadCells
    <2>3. SubSeq(f, 6, Len(f) - 2) \in Seq(Nat)
      BY <2>1, <2>2, SubSeqProperties
    <2> QED
      BY <2>2, <2>3
  <1> HIDE DEF payload
  <1> QED
    BY <1>1, <1>2, <1>3, BuiltIsWhole, Zenon

\* What a change of one cell leaves as it was.
LEMMA HitIs ==
    ASSUME NEW f, Whole(f), NEW k \in 1..Len(f), NEW v \in Nat
    PROVE  /\ Hit(f, k, v) \in Seq(Nat) /\ Len(Hit(f, k, v)) = Len(f)
           /\ Hit(f, k, v)[k] = v
           /\ \A i \in 1..Len(f) : i # k => Hit(f, k, v)[i] = f[i]
  <1>1. f \in Seq(Nat)
    BY DEF Whole
  <1>2. /\ [f EXCEPT ![k] = v] \in Seq(Nat)
        /\ Len([f EXCEPT ![k] = v]) = Len(f)
        /\ \A j \in 1..Len(f) : [f EXCEPT ![k] = v][j] = IF j = k THEN v ELSE f[j]
    BY <1>1, ExceptSeq
  <1> QED
    BY <1>2 DEF Hit

\* The first cells of a sequence.
LEMMA FirstCells ==
    ASSUME NEW s \in Seq(Nat), NEW m \in Nat, m <= Len(s)
    PROVE  /\ SubSeq(s, 1, m) \in Seq(Nat) /\ Len(SubSeq(s, 1, m)) = m
           /\ \A i \in 1..m : SubSeq(s, 1, m)[i] = s[i]
  <1>1. 1 \in Int /\ m \in Int /\ \A i \in 1..m : s[i] \in Nat
    OBVIOUS
  <1>2. /\ SubSeq(s, 1, m) \in Seq(Nat) /\ Len(SubSeq(s, 1, m)) = IF 1 <= m THEN m - 1 + 1 ELSE 0
        /\ \A i \in 1..(m - 1 + 1) : SubSeq(s, 1, m)[i] = s[1 + i - 1]
    BY <1>1, SubSeqProperties
  <1>3. m - 1 + 1 = m /\ (~ (1 <= m) => m = 0) /\ \A i \in 1..m : 1 + i - 1 = i
    OBVIOUS
  <1> QED
    BY <1>2, <1>3

\* A frame of which one cell other than the length was changed does not come through:
\* by its header, its tail or its checksum, which tells if the rest was changed.
LEMMA HitIsBad ==
    ASSUME NEW f, Whole(f), NEW k \in 1..Len(f), k # 2, NEW behind \in Seq(Nat),
           NEW v \in Nat, v % Modulus # f[k] % Modulus,
           NEW p, p = Hit(f, k, v) \o behind
    PROVE  Bad(p)
  <1> DEFINE h == Hit(f, k, v)
             l == Len(f)
             m == l - 2
  <1>1. /\ f \in Seq(Nat) /\ l \in Nat /\ l >= 7
        /\ m \in Nat /\ m <= l /\ l - 2 = m /\ l - 1 = m + 1
        /\ f[1] = HEADER /\ f[2] = l
        /\ f[l - 1] = Checksum(SubSeq(f, 1, m)) /\ f[l] = TAIL
    BY DEF Whole, ENVELOPE_SIZE, Declared
  <1>2. h \in Seq(Nat) /\ Len(h) = l /\ h[k] = v /\ \A i \in 1..l : i # k => h[i] = f[i]
    BY HitIs
  <1>3. p = h \o behind /\ k \in 1..l /\ k # 2 /\ v # f[k]
    OBVIOUS
  <1>3a. /\ SubSeq(f, 1, m) \in Seq(Nat) /\ Len(SubSeq(f, 1, m)) = m
         /\ \A i \in 1..m : SubSeq(f, 1, m)[i] = f[i]
    BY <1>1, FirstCells
  <1> HIDE DEF h, l, m
  <1>4. /\ p \in Seq(Nat) /\ Len(behind) \in Nat /\ Len(p) = l + Len(behind)
        /\ p[k] = v
        /\ \A i \in 1..l : i # k => p[i] = f[i]
        /\ \A i \in 1..Len(behind) : p[l + i] = behind[i]
    <2>1. h \in Seq(Nat)
      BY <1>2
    <2>2. /\ Len(behind) \in Nat
          /\ h \o behind \in Seq(Nat) /\ Len(h \o behind) = Len(h) + Len(behind)
          /\ \A i \in 1..Len(h) : (h \o behind)[i] = h[i]
          /\ \A i \in 1..Len(behind) : (h \o behind)[Len(h) + i] = behind[i]
      BY <2>1, Joined
    <2> QED
      BY <1>2, <1>3, <2>2, Zenon
  <1>5. /\ SubSeq(p, 1, m) \in Seq(Nat) /\ Len(SubSeq(p, 1, m)) = m
        /\ \A i \in 1..m : SubSeq(p, 1, m)[i] = p[i]
    <2>1. m <= Len(p)
      BY <1>1, <1>4
    <2> QED
      BY <1>1, <1>4, <2>1, FirstCells
  \* The cells up to the checksum, with k among them.
  <1>6. ASSUME k <= m, EndOf(p) = l PROVE ~ TailAndChecksum(p)
    <2> DEFINE s == SubSeq(f, 1, m)
               t == SubSeq(p, 1, m)
    <2>1. s \in Seq(Nat) /\ Len(s) = m /\ \A i \in 1..m : s[i] = f[i]
      BY <1>3a
    <2>2. t \in Seq(Nat) /\ Len(t) = m /\ \A i \in 1..m : t[i] = p[i]
      BY <1>5
    <2> HIDE DEF s, t
    <2>3. k \in 1..m /\ \A i \in 1..m : i \in 1..l
      BY <1>1, <1>3, <1>6
    <2>4. t[k] % Modulus # s[k] % Modulus
      <3>1. t[k] = p[k] /\ s[k] = f[k]
        BY <2>1, <2>2, <2>3, Zenon
      <3>2. t[k] = v /\ v % Modulus # f[k] % Modulus
        BY <1>4, <3>1
      <3> QED
        BY <3>1, <3>2, Zenon
    <2>5. \A i \in 1..m : i # k => t[i] = s[i]
      BY <1>4, <2>1, <2>2, <2>3, Zenon
    <2>6. k \in 1..Len(s) /\ Len(s) = Len(t) /\ \A i \in 1..Len(s) : i # k => t[i] = s[i]
      BY <2>1, <2>2, <2>3, <2>5, Zenon
    <2>7. Checksum(t) # Checksum(s)
      BY <2>1, <2>2, <2>4, <2>6, ChecksumTells
    <2>8. p[l - 1] = f[l - 1]
      <3>1. l - 1 \in 1..l /\ l - 1 # k
        BY <1>1, <1>6, <2>3
      <3> QED
        BY <1>4, <3>1
    <2> QED
      BY <1>1, <1>6, <2>7, <2>8 DEF TailAndChecksum, s, t
  <1>7. CASE k = 1
    <2>1. p[1] # HEADER
      BY <1>1, <1>3, <1>4, <1>7
    <2> QED
      BY <2>1 DEF Bad, IsFrame
  <1>8. CASE k >= 3
    <2>1. EndOf(p) = l
      <3>1. 2 \in 1..l /\ 2 # k /\ l <= Len(p)
        BY <1>1, <1>3, <1>4, <1>8
      <3>2. p[2] = l
        BY <1>1, <1>4, <3>1
      <3> QED
        BY <1>1, <3>1, <3>2 DEF EndOf, Declared, ENVELOPE_SIZE
    <2>2. CASE k <= m
      BY <1>6, <2>1, <2>2 DEF Bad
    <2>3. CASE k = l
      <3>1. p[l] # TAIL
        BY <1>1, <1>3, <1>4, <2>3
      <3> QED
        BY <2>1, <3>1 DEF Bad, TailAndChecksum
    <2>4. CASE k = l - 1
      <3> DEFINE c == Checksum(SubSeq(f, 1, m))
      <3>1. p[l - 1] # c
        BY <1>1, <1>3, <1>4, <2>4
      <3>2. SubSeq(p, 1, m) = SubSeq(f, 1, m)
        <4>1. \A i \in 1..m : i \in 1..l /\ i # k
          BY <1>1, <2>4
        <4>2. \A i \in 1..m : p[i] = f[i]
          BY <1>4, <4>1, Zenon
        <4> DEFINE s == SubSeq(f, 1, m)
                   t == SubSeq(p, 1, m)
        <4>3. /\ s \in Seq(Nat) /\ t \in Seq(Nat) /\ Len(t) = Len(s)
              /\ \A i \in 1..Len(t) : t[i] = s[i]
          BY <1>3a, <1>5, <4>2, Zenon
        <4> HIDE DEF s, t
        <4>4. t = s
          BY <4>3, SeqEqual
        <4> QED
          BY <4>4 DEF s, t
      <3>3. Checksum(SubSeq(p, 1, m)) = c
        BY <3>2
      <3> HIDE DEF c
      <3>4. p[l - 1] # Checksum(SubSeq(p, 1, m))
        BY <3>1, <3>3
      <3> QED
        BY <1>1, <2>1, <3>4 DEF Bad, TailAndChecksum
    <2>5. k <= m \/ k = l \/ k = l - 1
      BY <1>1, <1>3
    <2> QED
      BY <2>2, <2>3, <2>4, <2>5
  <1>9. k = 1 \/ k >= 3
    BY <1>1, <1>3
  <1> QED
    BY <1>7, <1>8, <1>9

Damaged(d, i) == d # None /\ d.frame = i

\* TakenAlong, of the damage d to one of n frames.
Behind(d, n) ==
    IF d # None /\ (d.cell = 2 \/ (d.cell = 1 /\ d.frame > 1)) THEN (d.frame + 1)..n ELSE {}

\* at says of each piece which frame it is, 0 if none: a piece that is none does not come
\* through, and the frames that are none of the pieces are lost to the damage.
Among(pieces, frames, d, at) ==
    /\ pieces \in Seq(Seq(Nat)) /\ at \in [1..Len(pieces) -> 0..Len(frames)]
    /\ \A i \in 1..Len(pieces) :
          IF at[i] = 0 THEN Bad(pieces[i])
          ELSE ~ Damaged(d, at[i]) /\ Holds(pieces[i], frames[at[i]])
    /\ \A i \in 1..Len(pieces) : \A j \in 1..Len(pieces) :
          i < j /\ at[i] # 0 /\ at[j] # 0 => at[i] < at[j]
    /\ \A m \in 1..Len(frames) : \/ Damaged(d, m) \/ m \in Behind(d, Len(frames))
                                 \/ \E i \in 1..Len(pieces) : at[i] = m

\* What follows the m-th of the frames as they arrive: junk, or the next frame.
LEMMA WhatFollows ==
    ASSUME NEW hit \in Seq(Seq(Nat)), NEW junk \in Junk, NEW m \in 1..Len(hit),
           \A i \in 1..Len(hit) : Len(hit[i]) >= ENVELOPE_SIZE
    PROVE  LET behind == FlattenSeq(SubSeq(hit, m + 1, Len(hit))) \o junk
           IN  /\ behind \in Seq(Nat)
               /\ FlattenSeq(hit) \o junk
                    = FlattenSeq(SubSeq(hit, 1, m - 1)) \o (hit[m] \o behind)
               /\ m = Len(hit) => behind \in Seq(Nat \ {HEADER, TAIL})
               /\ m < Len(hit) => /\ Len(behind) >= 2
                                  /\ behind[1] = hit[m + 1][1] /\ behind[2] = hit[m + 1][2]
  <1> DEFINE n == Len(hit)
             X == Seq(Nat)
             after == SubSeq(hit, m + 1, n)
             before == SubSeq(hit, 1, m - 1)
             a == FlattenSeq(before)
             h == hit[m]
             b == FlattenSeq(after)
             behind == b \o junk
  <1>1. n \in Nat /\ m \in 1..n /\ h \in X /\ after \in Seq(X) /\ before \in Seq(X)
    OBVIOUS
  <1>2. junk \in Seq(Nat \ {HEADER, TAIL}) /\ junk \in X
    <2>1. junk \in Seq(Nat \ {HEADER, TAIL}) /\ Nat \ {HEADER, TAIL} \subseteq Nat
      BY JunkAssumption
    <2> QED
      BY <2>1, SeqMonotonic
  <1>3. a \in X /\ b \in X
    BY <1>1, FlattenType
  <1>4. behind \in X
    BY <1>2, <1>3, ConcatProperties
  <1>5. FlattenSeq(hit) = (a \o h) \o b
    <2>1. hit = (before \o <<h>>) \o after
      <3>1. SubSeq(hit, 1, m) = before \o <<h>>
        BY <1>1, SubSeqRecursiveSecond
      <3>2. SubSeq(hit, 1, m) \o after = SubSeq(hit, 1, n)
        BY <1>1, ConcatAdjacentSubSeq
      <3>3. SubSeq(hit, 1, n) = hit
        BY SubSeqFull
      <3> HIDE DEF before, after, h, n
      <3> QED
        BY <3>1, <3>2, <3>3
    <2>2. <<h>> \in Seq(X) /\ FlattenSeq(<<h>>) = h
      BY <1>1, FlattenOne
    <2> HIDE DEF before, after, h, X
    <2>3. before \o <<h>> \in Seq(X)
      BY <1>1, <2>2, ConcatProperties
    <2>4. FlattenSeq((before \o <<h>>) \o after) = FlattenSeq(before \o <<h>>) \o b
      BY <1>1, <2>3, FlattenConcat DEF X
    <2>5. FlattenSeq(before \o <<h>>) = a \o h
      BY <1>1, <2>2, FlattenConcat DEF X
    <2> QED
      BY <2>1, <2>4, <2>5
  <1>6. ((a \o h) \o b) \o junk = a \o (h \o behind)
    <2> HIDE DEF a, b, h
    <2>1. a \o h \in X /\ b \o junk \in X
      BY <1>1, <1>2, <1>3, ConcatProperties
    <2>2. ((a \o h) \o b) \o junk = (a \o h) \o (b \o junk)
      BY <1>2, <1>3, <2>1, Associates, Zenon
    <2>3. (a \o h) \o (b \o junk) = a \o (h \o (b \o junk))
      BY <1>1, <1>3, <2>1, Associates, Zenon
    <2> QED
      BY <2>2, <2>3, Zenon
  <1>7. ASSUME m = n PROVE behind \in Seq(Nat \ {HEADER, TAIL})
    <2>1. after = <<>>
      BY <1>1, <1>7, SubSeqEmpty
    <2>2. b = <<>>
      BY <2>1 DEF FlattenSeq
    <2>3. behind = junk
      BY <1>2, <2>2, ConcatEmptySeq
    <2> QED
      BY <1>2, <2>3
  <1>8. ASSUME m < n
        PROVE  Len(behind) >= 2 /\ behind[1] = hit[m + 1][1] /\ behind[2] = hit[m + 1][2]
    <2> DEFINE g == hit[m + 1]
               c == FlattenSeq(SubSeq(hit, m + 2, n))
    <2>1. m + 1 \in 1..n /\ n \in (m + 1)..n /\ (m + 1) + 1 = m + 2
      BY <1>1, <1>8
    <2>2. g \in X /\ Len(g) >= 7 /\ SubSeq(hit, m + 2, n) \in Seq(X)
      BY <2>1 DEF ENVELOPE_SIZE
    <2>3. after = <<g>> \o SubSeq(hit, m + 2, n)
      BY <2>1, SubSeqRecursiveFirst
    <2>4. FlattenSeq(<<g>>) = g /\ <<g>> \in Seq(X)
      BY <2>2, FlattenOne
    <2>5. b = g \o c
      <3> HIDE DEF after, g
      <3> QED
        BY <2>2, <2>3, <2>4, FlattenConcat
    <2>6. c \in X
      BY <2>2, FlattenType
    <2> HIDE DEF g, b, c
    <2>7. /\ Len(b) \in Nat /\ Len(b) >= 2 /\ b[1] = g[1] /\ b[2] = g[2]
      <3>1. g \o c \in X /\ Len(g \o c) = Len(g) + Len(c) /\ \A i \in 1..Len(g) : (g \o c)[i] = g[i]
        BY <2>2, <2>6, Joined
      <3>2. Len(c) \in Nat /\ 1 \in 1..Len(g) /\ 2 \in 1..Len(g)
        BY <2>2, <2>6
      <3> QED
        BY <2>2, <2>5, <3>1, <3>2
    <2>8. /\ Len(behind) = Len(b) + Len(junk) /\ Len(junk) \in Nat
          /\ \A i \in 1..Len(b) : behind[i] = b[i]
      BY <1>2, <1>3, Joined DEF b
    <2>9. 1 \in 1..Len(b) /\ 2 \in 1..Len(b)
      BY <2>7
    <2> HIDE DEF behind
    <2> QED
      BY <2>7, <2>8, <2>9 DEF g
  <1> QED
    BY <1>4, <1>5, <1>6, <1>7, <1>8

\* A piece that says where it ends is not split unless a header stands there.
LEMMA LastPiece ==
    ASSUME NEW h \in Seq(Nat), Len(h) >= ENVELOPE_SIZE, NEW behind \in Seq(Nat),
           h[2] = Len(h), Len(behind) >= 1 => behind[1] # HEADER
    PROVE  /\ h \o behind \in Seq(Nat) /\ h \o behind # <<>> /\ (h \o behind)[1] = h[1]
           /\ SplitFrames(h \o behind) = <<h \o behind>>
  <1> DEFINE p == h \o behind
             l == Len(h)
  <1>1. /\ l \in Nat /\ l >= 7 /\ Len(behind) \in Nat
        /\ p \in Seq(Nat) /\ Len(p) = l + Len(behind)
        /\ \A i \in 1..l : p[i] = h[i]
        /\ \A i \in 1..Len(behind) : p[l + i] = behind[i]
    BY Joined DEF ENVELOPE_SIZE
  <1> HIDE DEF p, l
  <1>2. 1 \in 1..l /\ 2 \in 1..l /\ p # <<>> /\ 2 <= Len(p)
    BY <1>1
  <1>3. p[1] = h[1] /\ p[2] = l
    BY <1>1, <1>2 DEF l
  <1>4. DeclaredAt(p, 1) = l
    BY <1>2, <1>3 DEF DeclaredAt
  <1>5. ~ Splits(p, 1, l)
    <2>1. SUFFICES ASSUME 1 + l <= Len(p) PROVE p[1 + l] # HEADER
      BY DEF Splits
    <2>2. Len(behind) >= 1 /\ 1 \in 1..Len(behind) /\ 1 + l = l + 1
      BY <1>1, <2>1
    <2> QED
      BY <1>1, <2>2
  <1>6. NextAt(p, 1) = 0
    BY <1>4, <1>5 DEF NextAt
  <1>7. SplitFrames(p) = <<p>>
    BY <1>1, <1>2, <1>6, NotSplit
  <1> QED
    BY <1>1, <1>2, <1>3, <1>7 DEF p

\* The frames as they arrive, one of them perhaps with a cell changed.
Arrives(hit, frames, d) ==
    /\ hit \in Seq(Seq(Nat)) /\ Len(hit) = Len(frames)
    /\ \A i \in 1..Len(frames) :
          hit[i] = IF Damaged(d, i) THEN Hit(frames[i], d.cell, d.value) ELSE frames[i]

\* Damage is to one of the cells of one of the frames, and a checksum can tell.
DamageOf(d, frames) ==
    d = None \/ (/\ d # None /\ d.frame \in 1..Len(frames)
                 /\ d.cell \in 1..Len(frames[d.frame])
                 /\ d.value \in Nat
                 /\ d.value % Modulus # frames[d.frame][d.cell] % Modulus)

\* What a piece of the datagram can be told by: its header and its length.
LEMMA ArrivesAs ==
    ASSUME NEW frames \in Seq(Sendable), NEW d, DamageOf(d, frames), NEW hit,
           Arrives(hit, frames, d), NEW i \in 1..Len(frames)
    PROVE  /\ hit[i] \in Seq(Nat) /\ Len(hit[i]) >= ENVELOPE_SIZE /\ Whole(frames[i])
           /\ Len(hit[i]) < HEADER /\ Len(hit[i]) \in Nat
           /\ hit[i][1] = HEADER <=> ~ (Damaged(d, i) /\ d.cell = 1)
           /\ ~ (Damaged(d, i) /\ d.cell = 2) => hit[i][2] = Len(hit[i])
  <1> DEFINE f == frames[i]
  <1>1. f \in Sendable
    OBVIOUS
  <1>2. Whole(f) /\ Len(f) < HEADER
    BY <1>1, SendableIsWhole
  <1>3. /\ f \in Seq(Nat) /\ Len(f) >= 7 /\ Len(f) \in Nat /\ f[1] = HEADER /\ f[2] = Len(f)
        /\ 1 \in 1..Len(f) /\ 2 \in 1..Len(f)
    BY <1>2 DEF Whole, ENVELOPE_SIZE, Declared
  <1>4. hit[i] = IF Damaged(d, i) THEN Hit(f, d.cell, d.value) ELSE f
    BY DEF Arrives
  <1> HIDE DEF f
  <1>5. CASE ~ Damaged(d, i)
    BY <1>2, <1>3, <1>4, <1>5 DEF f, ENVELOPE_SIZE
  <1>6. CASE Damaged(d, i)
    <2> DEFINE k == d.cell
               v == d.value
    <2>1. k \in 1..Len(f) /\ v \in Nat /\ v # f[k]
      BY <1>6 DEF DamageOf, Damaged, f
    <2> HIDE DEF k, v
    <2>2. /\ Hit(f, k, v) \in Seq(Nat) /\ Len(Hit(f, k, v)) = Len(f)
          /\ Hit(f, k, v)[k] = v
          /\ \A c \in 1..Len(f) : c # k => Hit(f, k, v)[c] = f[c]
      BY <1>2, <2>1, HitIs
    <2>3. hit[i] = Hit(f, k, v)
      BY <1>4, <1>6 DEF k, v
    <2>4. hit[i][1] = HEADER <=> k # 1
      BY <1>3, <2>1, <2>2, <2>3
    <2>5. k # 2 => hit[i][2] = Len(f)
      BY <1>3, <2>2, <2>3
    <2>6. hit[i] \in Seq(Nat) /\ Len(hit[i]) = Len(f)
      BY <2>2, <2>3
    <2> QED
      BY <1>2, <1>3, <1>6, <2>4, <2>5, <2>6 DEF f, k, ENVELOPE_SIZE
  <1> QED
    BY <1>5, <1>6

\* A piece that begins with the i-th frame as it arrives.
PieceFor(p, d, i, f) == IF Damaged(d, i) THEN Bad(p) ELSE Holds(p, f)

\* A piece comes through just if the frame it begins with is not the damaged one.
LEMMA PieceComesOut ==
    ASSUME NEW frames \in Seq(Sendable), NEW d, DamageOf(d, frames), NEW hit,
           Arrives(hit, frames, d), NEW i \in 1..Len(frames), NEW behind \in Seq(Nat),
           ~ (Damaged(d, i) /\ d.cell = 2), NEW p, p = hit[i] \o behind
    PROVE  PieceFor(p, d, i, frames[i])
  <1> DEFINE f == frames[i]
  <1>1. Whole(f)
    BY ArrivesAs
  <1>2. hit[i] = IF Damaged(d, i) THEN Hit(f, d.cell, d.value) ELSE f
    BY DEF Arrives
  <1>3. Damaged(d, i) => /\ d.cell \in 1..Len(f) /\ d.value \in Nat
                         /\ d.value % Modulus # f[d.cell] % Modulus
    BY DEF DamageOf, Damaged
  <1> HIDE DEF f
  <1>4. CASE Damaged(d, i)
    <2> DEFINE k == d.cell
               v == d.value
    <2>1. k \in 1..Len(f) /\ k # 2 /\ v \in Nat /\ v % Modulus # f[k] % Modulus
      BY <1>3, <1>4
    <2>1a. p = Hit(f, k, v) \o behind
      BY <1>2, <1>4
    <2> HIDE DEF k, v
    <2>2. Bad(p)
      BY <1>1, <2>1, <2>1a, HitIsBad
    <2> QED
      BY <1>4, <2>2 DEF PieceFor
  <1>5. CASE ~ Damaged(d, i)
    <2>1. p = f \o behind
      BY <1>2, <1>5
    <2>2. Holds(p, f)
      BY <1>1, <2>1, WholeHolds
    <2> QED
      BY <1>5, <2>2 DEF PieceFor, f
  <1> QED
    BY <1>4, <1>5

\* A datagram of frames, one of them perhaps with a cell other than the length changed,
\* and of what follows them, is split into those frames; a damaged header takes those
\* behind it along.
LEMMA SplitSent ==
    ASSUME NEW frames \in Seq(Sendable), frames # <<>>, NEW junk \in Junk,
           NEW d, DamageOf(d, frames), d # None => d.cell # 2, NEW hit, Arrives(hit, frames, d)
    PROVE  \E at : Among(SplitFrames(FlattenSeq(hit) \o junk), frames, d, at)
  <1> DEFINE n == Len(frames)
             m == IF d = None THEN n
                  ELSE IF d.cell = 1 /\ d.frame > 1 THEN d.frame - 1
                  ELSE n
             before == SubSeq(hit, 1, m - 1)
             behind == FlattenSeq(SubSeq(hit, m + 1, Len(hit))) \o junk
             last == hit[m] \o behind
             P == Append(before, last)
             At(i) == Damaged(d, i)
  <1>1. /\ n \in Nat /\ n >= 1 /\ hit \in Seq(Seq(Nat)) /\ Len(hit) = n
    BY EmptySeq DEF Arrives
  <1>2. \A i \in 1..n : At(i) <=> d # None /\ d.frame = i
    BY DEF Damaged
  <1>3. d # None => d.frame \in 1..n
    BY DEF DamageOf
  <1> HIDE DEF n
  <1>4. \A i \in 1..n : ~ (At(i) /\ d.cell = 2)
    BY <1>2
  \* How far the frames are told apart.
  <1>5. m \in 1..n
    BY <1>1, <1>3
  <1>6. \A i \in 2..m : ~ (At(i) /\ d.cell = 1)
    BY <1>1, <1>2, <1>3
  <1>7. m < n => At(m + 1) /\ d.cell = 1
    BY <1>1, <1>2, <1>3
  <1>9. \A i \in (m + 1)..n : At(i) \/ i \in Behind(d, n)
    BY <1>1, <1>2, <1>3 DEF Behind
  <1> HIDE DEF m, At
  <1>10. \A i \in 1..n :
           /\ hit[i] \in Seq(Nat) /\ Len(hit[i]) >= ENVELOPE_SIZE
           /\ Len(hit[i]) < HEADER /\ Len(hit[i]) \in Nat
           /\ hit[i][1] = HEADER <=> ~ (At(i) /\ d.cell = 1)
           /\ hit[i][2] = Len(hit[i])
    BY <1>4, ArrivesAs DEF n, At
  <1>11. /\ behind \in Seq(Nat)
         /\ FlattenSeq(hit) \o junk = FlattenSeq(before) \o last
         /\ m = n => behind \in Seq(Nat \ {HEADER, TAIL})
         /\ m < n => /\ Len(behind) >= 2
                     /\ behind[1] = hit[m + 1][1] /\ behind[2] = hit[m + 1][2]
    <2>1. m \in 1..Len(hit) /\ \A i \in 1..Len(hit) : Len(hit[i]) >= ENVELOPE_SIZE
      BY <1>1, <1>5, <1>10
    <2> QED
      BY <1>1, <2>1, WhatFollows
  <1>12. before \in Seq(Seq(Nat)) /\ Len(before) = m - 1 /\ \A i \in 1..(m - 1) : before[i] = hit[i]
    BY <1>1, <1>5
  <1>13. Len(behind) \in Nat /\ HEADER \in Nat 
    BY <1>11, EnvelopeAssumption
  <1> HIDE DEF behind, before
  <1>14. \A i \in 1..Len(behind) : m = n => behind[i] # HEADER /\ behind[i] # TAIL
    <2>1. SUFFICES ASSUME m = n, NEW i \in 1..Len(behind) PROVE behind[i] \in Nat \ {HEADER, TAIL}
      OBVIOUS
    <2>2. behind \in Seq(Nat \ {HEADER, TAIL})
      BY <1>11, <2>1
    <2> QED
      BY <2>2, ElementOfSeq
  \* The piece that is last.
  <1>15. ASSUME Len(behind) >= 1 PROVE behind[1] # HEADER
    <2>1. CASE m = n
      BY <1>13, <1>14, <1>15, <2>1
    <2>2. CASE m < n
      <3>1. m + 1 \in 1..n /\ At(m + 1) /\ d.cell = 1
        BY <1>1, <1>5, <1>7, <2>2
      <3> QED
        BY <1>10, <1>11, <2>2, <3>1
    <2> QED
      BY <1>1, <1>5, <2>1, <2>2
  <1>16. /\ last \in Seq(Nat) /\ last # <<>> /\ last[1] = hit[m][1]
         /\ SplitFrames(last) = <<last>>
    <2>1. hit[m] \in Seq(Nat) /\ Len(hit[m]) >= ENVELOPE_SIZE /\ hit[m][2] = Len(hit[m])
      BY <1>5, <1>10
    <2> QED
      BY <1>11, <1>15, <2>1, LastPiece
  <1> HIDE DEF last
  \* The datagram is split into them.
  <1>17. SplitFrames(FlattenSeq(hit) \o junk) = P
    <2>1. \A i \in 1..Len(before) : /\ Len(before[i]) >= ENVELOPE_SIZE
                                    /\ Declared(before[i]) = Len(before[i])
                                    /\ i > 1 => before[i][1] = HEADER
      <3>1. SUFFICES ASSUME NEW i \in 1..(m - 1)
                     PROVE  /\ Len(hit[i]) >= ENVELOPE_SIZE /\ Declared(hit[i]) = Len(hit[i])
                            /\ i > 1 => hit[i][1] = HEADER
        BY <1>12
      <3>2. i \in 1..n /\ (i > 1 => i \in 2..m)
        BY <1>1, <1>5
      <3> QED
        BY <1>6, <1>10, <3>2 DEF Declared
    <2>2. before # <<>> => last[1] = HEADER
      <3>1. SUFFICES ASSUME before # <<>> PROVE hit[m][1] = HEADER
        BY <1>16
      <3>2. m \in 2..m
        BY <1>5, <1>12, <3>1, EmptySeq
      <3> QED
        BY <1>5, <1>6, <1>10, <3>2
    <2> QED
      BY <1>11, <1>12, <1>16, <2>1, <2>2, FramesAreSplit
  <1>18. /\ P \in Seq(Seq(Nat)) /\ Len(P) = m /\ P[m] = last
         /\ \A i \in 1..(m - 1) : P[i] = hit[i]
    BY <1>5, <1>12, <1>16
  <1> HIDE DEF P
  <1>19. ASSUME NEW i \in 1..m PROVE PieceFor(P[i], d, i, frames[i])
    <2>1. i \in 1..Len(frames) /\ ~ (Damaged(d, i) /\ d.cell = 2)
      BY <1>1, <1>4, <1>5 DEF n, At
    <2>2. CASE i = m
      <3>1. P[i] = hit[i] \o behind
        BY <1>18, <2>2 DEF last
      <3> QED
        BY <1>11, <2>1, <3>1, PieceComesOut
    <2>3. CASE i < m
      <3>1. i \in 1..(m - 1)
        BY <1>5, <2>3
      <3>2. hit[i] \in Seq(Nat) /\ P[i] = hit[i]
        BY <1>10, <1>18, <2>1, <3>1 DEF n
      <3>3. hit[i] \o <<>> = hit[i] /\ <<>> \in Seq(Nat)
        BY <3>2, ConcatEmptySeq
      <3>4. P[i] = hit[i] \o <<>>
        BY <3>2, <3>3
      <3> QED
        BY <2>1, <3>3, <3>4, PieceComesOut
    <2> QED
      BY <1>5, <2>2, <2>3
  <1> DEFINE at == [i \in 1..m |-> IF At(i) THEN 0 ELSE i]
  <1>20. at \in [1..m -> 0..n] /\ \A i \in 1..m : at[i] = IF At(i) THEN 0 ELSE i
    BY <1>1, <1>5
  <1> HIDE DEF at
  <1>21. ASSUME NEW i \in 1..m
         PROVE  IF at[i] = 0 THEN Bad(P[i]) ELSE ~ Damaged(d, at[i]) /\ Holds(P[i], frames[at[i]])
    <2>1. at[i] = 0 <=> At(i)
      BY <1>5, <1>20
    <2> QED
      BY <1>19, <1>20, <2>1 DEF PieceFor, At
  <1>22. ASSUME NEW i \in 1..n PROVE At(i) \/ i \in Behind(d, n) \/ \E k \in 1..m : at[k] = i
    <2>1. i \in 1..m \/ i \in (m + 1)..n
      BY <1>1, <1>5
    <2> QED
      BY <1>9, <1>20, <2>1
  <1>23. Among(P, frames, d, at)
    <2>1. \A i \in 1..m : \A k \in 1..m : i < k /\ at[i] # 0 /\ at[k] # 0 => at[i] < at[k]
      BY <1>5, <1>20
    <2> QED
      BY <1>18, <1>20, <1>21, <1>22, <2>1 DEF Among, At, n
  <1> QED
    BY <1>17, <1>23

-----------------------------------------------------------------------------
(* A damaged length.                                                       *)

\* The frames arrive in data, the length of one of them damaged, and nothing else in it
\* passes for a frame.
LengthHit(frames, d, hit, junk, data) ==
    /\ frames \in Seq(Sendable) /\ frames # <<>> /\ junk \in Junk
    /\ DamageOf(d, frames) /\ d # None /\ d.cell = 2 /\ Arrives(hit, frames, d)
    /\ data = FlattenSeq(hit) \o junk /\ data \in Seq(Nat)
    /\ NoOtherRunPasses(hit, d.frame, data)

\* Where the m-th frame starts, and what stands there.
StandsAt(frames, hit, data, m) ==
    /\ Start(hit, m) \in Nat /\ Start(hit, m) >= 1 /\ (m = 1 => Start(hit, m) = 1)
    /\ Len(hit[m]) \in Nat /\ Len(hit[m]) >= 7 /\ hit[m] \in Seq(Nat)
    /\ Start(hit, m) + Len(hit[m]) - 1 <= Len(data)
    /\ \A k \in 1..Len(hit[m]) : data[Start(hit, m) + k - 1] = hit[m][k]
    /\ m < Len(frames) => Start(hit, m + 1) = Start(hit, m) + Len(hit[m])

LEMMA StartIs ==
    ASSUME NEW frames, NEW d, NEW hit, NEW junk, NEW data,
           LengthHit(frames, d, hit, junk, data), NEW m \in 1..Len(frames)
    PROVE  StandsAt(frames, hit, data, m)
  <1> DEFINE n == Len(frames)
             X == Seq(Nat)
             before == SubSeq(hit, 1, m - 1)
             behind == FlattenSeq(SubSeq(hit, m + 1, Len(hit))) \o junk
             a == FlattenSeq(before)
             h == hit[m]
  <1>1. /\ frames \in Seq(Sendable) /\ junk \in Junk /\ DamageOf(d, frames)
        /\ Arrives(hit, frames, d) /\ data = FlattenSeq(hit) \o junk
    BY DEF LengthHit
  <1>2. hit \in Seq(X) /\ Len(hit) = n /\ n \in Nat /\ m \in 1..n
    BY <1>1 DEF Arrives
  <1>3. \A i \in 1..n : hit[i] \in X /\ Len(hit[i]) >= ENVELOPE_SIZE
    BY <1>1, ArrivesAs
  <1>4. h \in X /\ Len(h) \in Nat /\ Len(h) >= 7
    BY <1>2, <1>3 DEF ENVELOPE_SIZE
  <1>5. behind \in X /\ FlattenSeq(hit) \o junk = a \o (h \o behind)
    <2>1. m \in 1..Len(hit) /\ \A i \in 1..Len(hit) : Len(hit[i]) >= ENVELOPE_SIZE
      BY <1>2, <1>3
    <2> QED
      BY <1>1, <1>2, <2>1, WhatFollows
  <1>6. before \in Seq(X) /\ a \in X
    <2>1. before \in Seq(X)
      BY <1>2
    <2> QED
      BY <2>1, FlattenType
  <1>7. Start(hit, m) = Len(a) + 1
    BY DEF Start
  <1>8. m = 1 => a = <<>>
    <2>1. SUFFICES ASSUME m = 1 PROVE a = <<>>
      OBVIOUS
    <2>2. before = <<>>
      BY <1>2, <2>1, SubSeqEmpty
    <2> QED
      BY <2>2 DEF FlattenSeq
  <1>9. m < n => FlattenSeq(SubSeq(hit, 1, (m + 1) - 1)) = a \o h
    <2>0. (m + 1) - 1 = m
      BY <1>2
    <2>1. SUFFICES ASSUME m < n PROVE FlattenSeq(SubSeq(hit, 1, m)) = a \o h
      BY <2>0, Zenon
    <2>2. SubSeq(hit, 1, m) = before \o <<h>>
      BY <1>2, SubSeqRecursiveSecond
    <2>3. <<h>> \in Seq(X) /\ FlattenSeq(<<h>>) = h
      BY <1>4, FlattenOne
    <2> HIDE DEF before, h
    <2>4. FlattenSeq(before \o <<h>>) = a \o h
      BY <1>6, <2>3, FlattenConcat
    <2> QED
      BY <2>2, <2>4
  <1>10. m < n => Start(hit, m + 1) = Len(a \o h) + 1
    BY <1>9 DEF Start
  <1> HIDE DEF n, before, behind, a, h
  <1>11. /\ Len(a) \in Nat /\ Len(a \o h) = Len(a) + Len(h)
         /\ Len(behind) \in Nat /\ h \o behind \in X /\ Len(h \o behind) = Len(h) + Len(behind)
         /\ \A k \in 1..Len(h) : (h \o behind)[k] = h[k]
    BY <1>4, <1>5, <1>6, Joined
  <1>12. /\ Len(data) = Len(a) + Len(h \o behind)
         /\ \A k \in 1..Len(h \o behind) : data[Len(a) + k] = (h \o behind)[k]
    BY <1>1, <1>5, <1>6, <1>11, Joined
  <1>13. ASSUME NEW k \in 1..Len(h) PROVE data[Start(hit, m) + k - 1] = h[k]
    <2>1. k \in 1..Len(h \o behind) /\ Start(hit, m) + k - 1 = Len(a) + k
      BY <1>4, <1>7, <1>11
    <2> QED
      BY <1>11, <1>12, <2>1
  <1>14. m = 1 => Len(a) = 0
    BY <1>8
  <1>15. /\ Start(hit, m) \in Nat /\ Start(hit, m) >= 1 /\ (m = 1 => Start(hit, m) = 1)
         /\ Start(hit, m) + Len(h) - 1 <= Len(data)
         /\ m < n => Start(hit, m + 1) = Start(hit, m) + Len(h)
    BY <1>4, <1>7, <1>10, <1>11, <1>12, <1>14
  <1> QED
    BY <1>4, <1>13, <1>15 DEF StandsAt, n, h

\* Later frames start further on.
LEMMA StartsRise ==
    ASSUME NEW frames, NEW d, NEW hit, NEW junk, NEW data,
           LengthHit(frames, d, hit, junk, data), NEW m \in 1..Len(frames)
    PROVE  \A k \in 1..Len(frames) : m < k => Start(hit, m) < Start(hit, k)
  <1> DEFINE n == Len(frames)
             T == {j \in Nat : m + 1 + j <= n => Start(hit, m) < Start(hit, m + 1 + j)}
  <1>1. n \in Nat /\ m \in 1..n
    BY DEF LengthHit
  <1>2. \A k \in 1..n : /\ Start(hit, k) \in Nat /\ Len(hit[k]) \in Nat /\ Len(hit[k]) >= 7
                        /\ k < n => Start(hit, k + 1) = Start(hit, k) + Len(hit[k])
    BY StartIs DEF StandsAt
  <1> HIDE DEF n
  <1>3. 0 \in T
    BY <1>1, <1>2
  <1>4. ASSUME NEW j \in Nat, j \in T PROVE j + 1 \in T
    <2>1. SUFFICES ASSUME m + 1 + (j + 1) <= n
                   PROVE  Start(hit, m) < Start(hit, m + 1 + (j + 1))
      OBVIOUS
    <2> DEFINE k == m + 1 + j
    <2>2. k \in 1..n /\ k < n /\ m + 1 + (j + 1) = k + 1 /\ k <= n
      BY <1>1, <2>1
    <2>3. Start(hit, m) < Start(hit, k)
      BY <1>4, <2>2
    <2> HIDE DEF k
    <2>4. /\ Start(hit, k) \in Nat /\ Len(hit[k]) \in Nat /\ Len(hit[k]) >= 7
          /\ Start(hit, k + 1) = Start(hit, k) + Len(hit[k])
      BY <1>2, <2>2
    <2>5. Start(hit, m) \in Nat
      BY <1>1, <1>2
    <2> QED
      BY <2>2, <2>3, <2>4, <2>5
  <1> HIDE DEF T
  <1>5. \A j \in Nat : j \in T
    <2>1. ASSUME NEW j \in Nat PROVE j \in T
      BY <1>3, <1>4, Induction
    <2> QED
      BY <2>1
  <1>6. ASSUME NEW k \in 1..n, m < k PROVE Start(hit, m) < Start(hit, k)
    <2>1. k - m - 1 \in Nat /\ m + 1 + (k - m - 1) = k /\ k <= n
      BY <1>1, <1>6
    <2>2. k - m - 1 \in T
      BY <1>5, <2>1
    <2> QED
      BY <2>1, <2>2 DEF T
  <1> QED
    BY <1>6 DEF n

\* x says which frame starts at i, 0 if none that is not damaged.
Starts(frames, d, hit, i, x) ==
    /\ x \in 0..Len(frames)
    /\ x # 0 => ~ Damaged(d, x) /\ Start(hit, x) = i
    /\ x = 0 => \A m \in 1..Len(frames) : Start(hit, m) = i => Damaged(d, m)

\* Of the piece at i, whose frame it is; a frame is followed by the one behind it.
LEMMA PlaceIs ==
    ASSUME NEW frames, NEW d, NEW hit, NEW junk, NEW data,
           LengthHit(frames, d, hit, junk, data), NEW i \in 1..Len(data), NEW x,
           Starts(frames, d, hit, i, x)
    PROVE  /\ IF x = 0 THEN Bad(PieceAt(data, i)) ELSE Holds(PieceAt(data, i), frames[x])
           /\ x # 0 /\ x < d.frame => /\ x + 1 \in 1..Len(frames) /\ NextAt(data, i) # 0
                                      /\ NextAt(data, i) = Start(hit, x + 1)
  <1> DEFINE n == Len(frames)
             next == NextAt(data, i)
             last == IF next = 0 THEN Len(data) ELSE next - 1
             piece == PieceAt(data, i)
  <1>1. /\ data \in Seq(Nat) /\ frames \in Seq(Sendable) /\ n \in Nat
        /\ DamageOf(d, frames) /\ d # None /\ d.cell = 2 /\ Arrives(hit, frames, d)
        /\ NoOtherRunPasses(hit, d.frame, data)
    BY DEF LengthHit
  <1>1a. frames \in Seq(Sendable) /\ DamageOf(d, frames) /\ Arrives(hit, frames, d)
    BY <1>1
  <1>2. /\ next \in 0..Len(data) /\ (next = 0 \/ next > i) /\ last \in i..Len(data)
        /\ piece = SubSeq(data, i, last) /\ piece \in Seq(Nat)
    BY <1>1, PieceIs
  <1>3. d.frame \in 1..n /\ Len(hit) = n /\ DOMAIN hit = 1..n /\ \A m : Damaged(d, m) <=> m = d.frame
    BY <1>1 DEF DamageOf, Arrives, Damaged
  <1>4. x \in 0..n
    BY DEF Starts
  <1>5. next = IF Splits(data, i, DeclaredAt(data, i)) THEN i + DeclaredAt(data, i) ELSE 0
    BY DEF NextAt
  <1> HIDE DEF n, next, last, piece
  <1>6. CASE x = 0
    <2>1. ~ \E m \in DOMAIN hit \ {d.frame} : i = Start(hit, m)
      BY <1>3, <1>6 DEF Starts, n
    <2>2. ~ (IsFrame(SubSeq(data, i, last)) /\ TailAndChecksum(SubSeq(data, i, last)))
      BY <1>1, <1>2, <2>1 DEF NoOtherRunPasses
    <2> QED
      BY <1>2, <1>6, <2>2 DEF Bad, piece
  <1>7. CASE x # 0
    <2> DEFINE f == frames[x]
               l == Len(f)
               behind == SubSeq(data, i + l, last)
    <2>1. x \in 1..n /\ x # d.frame /\ Start(hit, x) = i
      BY <1>3, <1>4, <1>7 DEF Starts
    <2>2. hit[x] = f
      BY <1>1, <1>3, <2>1 DEF Arrives, n
    <2>3. /\ Start(hit, x) \in Nat /\ Start(hit, x) >= 1 /\ (x = 1 => Start(hit, x) = 1)
          /\ Len(hit[x]) \in Nat /\ Len(hit[x]) >= 7 /\ hit[x] \in Seq(Nat)
          /\ Start(hit, x) + Len(hit[x]) - 1 <= Len(data)
          /\ \A k \in 1..Len(hit[x]) : data[Start(hit, x) + k - 1] = hit[x][k]
          /\ x < n => Start(hit, x + 1) = Start(hit, x) + Len(hit[x])
      <3>1. x \in 1..Len(frames)
        BY <2>1 DEF n
      <3>2. StandsAt(frames, hit, data, x)
        BY <3>1, StartIs
      <3> QED
        BY <3>2, Zenon DEF StandsAt, n
    <2>4. Whole(f) /\ hit[x][2] = Len(hit[x])
      <3>1. x \in 1..Len(frames) /\ ~ (Damaged(d, x) /\ d.cell = 2)
        BY <1>3, <2>1 DEF n
      <3> QED
        BY <1>1a, <3>1, ArrivesAs
    <2> HIDE DEF f
    <2>5. /\ l \in Nat /\ l >= 7 /\ f \in Seq(Nat) /\ i + l - 1 <= Len(data) /\ f[2] = l
          /\ \A k \in 1..l : data[i + k - 1] = f[k]
          /\ x < n => Start(hit, x + 1) = i + l
      BY <2>1, <2>2, <2>3, <2>4
    <2> HIDE DEF l
    <2>6. DeclaredAt(data, i) = l
      <3>1. 2 \in 1..l /\ i + 2 - 1 = i + 1 /\ i + 1 <= Len(data)
        BY <1>1, <2>5
      <3>2. data[i + 1] = l
        BY <2>5, <3>1
      <3> QED
        BY <3>1, <3>2 DEF DeclaredAt
    <2>7. next = IF i + l <= Len(data) /\ data[i + l] = HEADER THEN i + l ELSE 0
      BY <1>5, <2>5, <2>6 DEF Splits, ENVELOPE_SIZE
    <2>8. last >= i + l - 1 /\ last \in Nat
      <3>1. last = IF next = 0 THEN Len(data) ELSE next - 1
        BY DEF last
      <3>2. next = 0 \/ next = i + l
        BY <2>7
      <3>3. i \in Nat /\ Len(data) \in Nat /\ i + l # 0
        BY <1>1, <2>5
      <3> QED
        BY <2>5, <3>1, <3>2, <3>3
    <2>9. piece = f \o behind /\ behind \in Seq(Nat)
      <3>1. SubSeq(data, i, i + l - 1) = f
        <4>1. i \in Nat \ {0} /\ i + l - 1 = i + Len(f) - 1
          BY <1>1 DEF l
        <4>2. \A k \in 1..Len(f) : data[i + k - 1] = f[k]
          BY <2>5 DEF l
        <4> QED
          BY <1>1, <2>5, <4>1, <4>2, SliceIs
      <3>2. SubSeq(data, i, i + l - 1) \o SubSeq(data, (i + l - 1) + 1, last) = SubSeq(data, i, last)
        <4>1. /\ i \in 1..Len(data) + 1 /\ i + l - 1 \in i - 1..Len(data)
              /\ last \in (i + l - 1)..Len(data)
          BY <1>1, <1>2, <2>5, <2>8
        <4> QED
          BY <1>1, <4>1, ConcatAdjacentSubSeq
      <3>3. (i + l - 1) + 1 = i + l
        BY <1>1, <2>5
      <3>4. behind \in Seq(Nat)
        <4>1. i + l \in Int /\ last \in Int /\ \A k \in (i + l)..last : data[k] \in Nat
          BY <1>1, <1>2, <2>5, <2>8
        <4> QED
          BY <4>1, SubSeqProperties
      <3> QED
        BY <1>2, <3>1, <3>2, <3>3, <3>4
    <2> HIDE DEF behind
    <2>10. Holds(piece, f)
      BY <2>4, <2>9, WholeHolds
    <2>11. ASSUME x < d.frame PROVE x + 1 \in 1..n /\ next # 0 /\ next = Start(hit, x + 1)
      <3>1. x + 1 \in 1..n /\ x < n
        BY <1>1, <1>3, <2>1, <2>11
      <3>2. hit[x + 1][1] = HEADER
        <4> DEFINE y == x + 1
        <4>1. y \in 1..Len(frames) /\ ~ (Damaged(d, y) /\ d.cell = 1)
          BY <1>1, <3>1 DEF n
        <4> HIDE DEF y
        <4>2. hit[y][1] = HEADER
          BY <1>1a, <4>1, ArrivesAs
        <4> QED
          BY <4>2 DEF y
      <3> DEFINE y == x + 1
      <3>3. /\ Start(hit, y) \in Nat /\ Start(hit, y) >= 1 /\ (y = 1 => Start(hit, y) = 1)
            /\ Len(hit[y]) \in Nat /\ Len(hit[y]) >= 7 /\ hit[y] \in Seq(Nat)
            /\ Start(hit, y) + Len(hit[y]) - 1 <= Len(data)
            /\ \A k \in 1..Len(hit[y]) : data[Start(hit, y) + k - 1] = hit[y][k]
            /\ y < n => Start(hit, y + 1) = Start(hit, y) + Len(hit[y])
        <4>1. y \in 1..Len(frames)
          BY <3>1 DEF n
        <4> HIDE DEF y
        <4>2. StandsAt(frames, hit, data, y)
          BY <4>1, StartIs
        <4> QED
          BY <4>2, Zenon DEF StandsAt, n
      <3>4. Start(hit, y) = i + l
        BY <2>5, <3>1
      <3> HIDE DEF y
      <3>5. i + l <= Len(data) /\ i + l + 1 - 1 = i + l /\ 1 \in 1..Len(hit[y])
        <4> DEFINE c == i + l
                   e == Len(hit[y])
        <4>0. e \in Nat /\ e >= 7 /\ Start(hit, y) + e - 1 <= Len(data)
          BY <3>3, Zenon
        <4>1. e \in Nat /\ e >= 7 /\ c + e - 1 <= Len(data)
          BY <3>4, <4>0, Zenon
        <4>1a. c \in Nat /\ Len(data) \in Nat
          BY <1>1, <2>5
        <4> HIDE DEF c, e
        <4>2. c <= Len(data) /\ c + 1 - 1 = c /\ 1 \in 1..e
          BY <4>1, <4>1a
        <4> QED
          BY <4>2 DEF c, e
      <3>6. data[Start(hit, y) + 1 - 1] = hit[y][1]
        BY <3>3, <3>5
      <3>7. data[i + l] = HEADER
        BY <3>2, <3>4, <3>5, <3>6 DEF y
      <3>8. next = i + l
        BY <2>7, <3>5, <3>7
      <3>9. i + l # 0
        BY <1>1, <2>5
      <3> QED
        BY <3>1, <3>4, <3>8, <3>9 DEF y
    <2> QED
      BY <1>7, <2>10, <2>11 DEF f, n, next, piece
  <1> QED
    BY <1>6, <1>7

\* What at says of the pieces from i on.
AmongFrom(pieces, frames, d, hit, i, at) ==
    /\ pieces \in Seq(Seq(Nat)) /\ at \in [1..Len(pieces) -> 0..Len(frames)]
    /\ \A j \in 1..Len(pieces) :
          IF at[j] = 0 THEN Bad(pieces[j])
          ELSE ~ Damaged(d, at[j]) /\ Holds(pieces[j], frames[at[j]]) /\ Start(hit, at[j]) >= i
    /\ \A j \in 1..Len(pieces) : \A k \in 1..Len(pieces) :
          j < k /\ at[j] # 0 /\ at[k] # 0 => at[j] < at[k]
    /\ \A m \in 1..(d.frame - 1) :
          (\E k \in 1..m : Start(hit, k) = i) => \E j \in 1..Len(pieces) : at[j] = m

\* From a place that is no frame's, or behind which no frame follows.
LEMMA AmongLast ==
    ASSUME NEW frames, NEW d, NEW hit, NEW junk, NEW data,
           LengthHit(frames, d, hit, junk, data), NEW i \in 1..Len(data), NEW x,
           Starts(frames, d, hit, i, x), NextAt(data, i) = 0
    PROVE  AmongFrom(<<PieceAt(data, i)>>, frames, d, hit, i, <<x>>)
  <1> DEFINE piece == PieceAt(data, i)
             n == Len(frames)
  <1>1. data \in Seq(Nat) /\ n \in Nat /\ d.frame \in 1..n /\ \A m : Damaged(d, m) <=> m = d.frame
    BY DEF LengthHit, DamageOf, Damaged
  <1>2. piece \in Seq(Nat)
    BY <1>1, PieceIs
  <1>3. /\ IF x = 0 THEN Bad(piece) ELSE Holds(piece, frames[x])
        /\ ~ (x # 0 /\ x < d.frame)
    BY PlaceIs
  <1>4. x \in 0..n /\ (x # 0 => ~ Damaged(d, x) /\ Start(hit, x) = i)
    BY DEF Starts
  <1>5. ASSUME NEW m \in 1..(d.frame - 1), NEW k \in 1..m, Start(hit, k) = i PROVE FALSE
    <2>1. k \in 1..n /\ k < d.frame /\ ~ Damaged(d, k)
      BY <1>1
    <2>2. x # 0
      BY <1>5, <2>1 DEF Starts
    <2>3. x > k
      BY <1>1, <1>3, <1>4, <2>1, <2>2
    <2>4. x \in 1..n /\ Start(hit, k) < Start(hit, x)
      BY <1>1, <1>4, <2>1, <2>2, <2>3, StartsRise
    <2>5. Start(hit, k) \in Nat /\ Start(hit, x) = i
      BY <1>4, <2>1, <2>2, StartIs DEF StandsAt
    <2> QED
      BY <1>1, <1>5, <2>4, <2>5
  <1> HIDE DEF piece, n
  <1>6. <<piece>> \in Seq(Seq(Nat)) /\ Len(<<piece>>) = 1 /\ <<piece>>[1] = piece /\ <<x>>[1] = x
    BY <1>2
  <1>7. <<x>> \in [1..1 -> 0..n]
    BY <1>4
  <1>8. x # 0 => Start(hit, x) >= i
    BY <1>1, <1>4
  <1> QED
    BY <1>3, <1>4, <1>5, <1>6, <1>7, <1>8 DEF AmongFrom, n, piece

\* From a place behind which another piece follows.
LEMMA AmongNext ==
    ASSUME NEW frames, NEW d, NEW hit, NEW junk, NEW data,
           LengthHit(frames, d, hit, junk, data), NEW i \in 1..Len(data), NEW x,
           Starts(frames, d, hit, i, x), NextAt(data, i) # 0, NEW rests, NEW ats,
           AmongFrom(rests, frames, d, hit, NextAt(data, i), ats)
    PROVE  \E at : AmongFrom(<<PieceAt(data, i)>> \o rests, frames, d, hit, i, at)
  <1> DEFINE piece == PieceAt(data, i)
             next == NextAt(data, i)
             n == Len(frames)
             q == Len(rests)
             pieces == <<piece>> \o rests
             at == [j \in 1..(q + 1) |-> IF j = 1 THEN x ELSE ats[j - 1]]
  <1>1. data \in Seq(Nat) /\ n \in Nat /\ d.frame \in 1..n /\ \A m : Damaged(d, m) <=> m = d.frame
    BY DEF LengthHit, DamageOf, Damaged
  <1>2. piece \in Seq(Nat) /\ next \in Nat /\ next > i
    BY <1>1, PieceIs
  <1>3. /\ IF x = 0 THEN Bad(piece) ELSE Holds(piece, frames[x])
        /\ x # 0 /\ x < d.frame => x + 1 \in 1..n /\ next = Start(hit, x + 1)
    BY PlaceIs
  <1>4. x \in 0..n /\ (x # 0 => ~ Damaged(d, x) /\ Start(hit, x) = i)
    BY DEF Starts
  <1>5. /\ rests \in Seq(Seq(Nat)) /\ q \in Nat /\ ats \in [1..q -> 0..n]
        /\ \A j \in 1..q :
              IF ats[j] = 0 THEN Bad(rests[j])
              ELSE ~ Damaged(d, ats[j]) /\ Holds(rests[j], frames[ats[j]])
                   /\ Start(hit, ats[j]) >= next
        /\ \A j \in 1..q : \A k \in 1..q : j < k /\ ats[j] # 0 /\ ats[k] # 0 => ats[j] < ats[k]
        /\ \A m \in 1..(d.frame - 1) :
              (\E k \in 1..m : Start(hit, k) = next) => \E j \in 1..q : ats[j] = m
    BY DEF AmongFrom
  <1>6. \A m \in 1..n : Start(hit, m) \in Nat
    BY StartIs DEF StandsAt
  <1> HIDE DEF piece, next, n, q
  <1>7. /\ pieces \in Seq(Seq(Nat)) /\ Len(pieces) = q + 1 /\ pieces[1] = piece
        /\ \A j \in 1..q : pieces[j + 1] = rests[j]
    <2>1. <<piece>> \in Seq(Seq(Nat)) /\ Len(<<piece>>) = 1 /\ <<piece>>[1] = piece /\ 1 \in 1..1
      BY <1>2
    <2>2. /\ pieces \in Seq(Seq(Nat)) /\ Len(pieces) = Len(<<piece>>) + Len(rests)
          /\ \A j \in 1..Len(<<piece>>) : pieces[j] = <<piece>>[j]
          /\ \A j \in 1..Len(rests) : pieces[Len(<<piece>>) + j] = rests[j]
      BY <1>5, <2>1, Joined
    <2>3. \A j \in 1..q : 1 + j = j + 1
      BY <1>5
    <2> QED
      BY <1>5, <2>1, <2>2, <2>3 DEF q
  <1> HIDE DEF pieces
  <1>8. /\ at \in [1..(q + 1) -> 0..n] /\ at[1] = x
        /\ \A j \in 2..(q + 1) : at[j] = ats[j - 1] /\ j - 1 \in 1..q /\ (j - 1) + 1 = j
    <2>1. \A j \in 2..(q + 1) : j \in 1..(q + 1) /\ j # 1 /\ j - 1 \in 1..q /\ (j - 1) + 1 = j
      BY <1>5
    <2>2. \A j \in 1..(q + 1) : j = 1 \/ j \in 2..(q + 1)
      BY <1>5
    <2>3. 1 \in 1..(q + 1)
      BY <1>5
    <2> QED
      BY <1>4, <1>5, <2>1, <2>2, <2>3
  <1>9. \A j \in 1..(q + 1) : j = 1 \/ j \in 2..(q + 1)
    BY <1>5
  <1> HIDE DEF at
  <1>10. ASSUME NEW j \in 1..(q + 1)
         PROVE  IF at[j] = 0 THEN Bad(pieces[j])
                ELSE ~ Damaged(d, at[j]) /\ Holds(pieces[j], frames[at[j]]) /\ Start(hit, at[j]) >= i
    <2>1. CASE j = 1
      <3>1. x # 0 => Start(hit, x) >= i
        BY <1>1, <1>4
      <3> QED
        BY <1>3, <1>4, <1>7, <1>8, <2>1, <3>1
    <2>2. CASE j \in 2..(q + 1)
      <3> DEFINE k == j - 1
      <3>1. at[j] = ats[k] /\ pieces[j] = rests[k] /\ k \in 1..q
        BY <1>7, <1>8, <2>2
      <3> HIDE DEF k
      <3>2. ats[k] # 0 => ats[k] \in 1..n
        BY <1>1, <1>5, <3>1
      <3>3. ats[k] # 0 => Start(hit, ats[k]) >= i
        <4>1. SUFFICES ASSUME ats[k] # 0 PROVE Start(hit, ats[k]) >= i
          OBVIOUS
        <4>2. Start(hit, ats[k]) \in Nat /\ Start(hit, ats[k]) >= next
          BY <1>5, <1>6, <3>1, <3>2, <4>1
        <4> QED
          BY <1>1, <1>2, <4>2
      <3> QED
        BY <1>5, <3>1, <3>3
    <2> QED
      BY <1>9, <2>1, <2>2
  <1>11. ASSUME NEW j \in 1..(q + 1), NEW k \in 1..(q + 1), j < k, at[j] # 0, at[k] # 0
         PROVE  at[j] < at[k]
    <2>1. k \in 2..(q + 1) /\ at[k] = ats[k - 1] /\ k - 1 \in 1..q
      BY <1>5, <1>8, <1>9, <1>11
    <2>2. CASE j = 1
      <3> DEFINE y == at[k]
      <3>1. x \in 1..n /\ at[j] = x /\ Start(hit, x) = i
        BY <1>1, <1>4, <1>8, <1>11, <2>2
      <3>2. y \in 1..n /\ Start(hit, y) >= next
        BY <1>1, <1>5, <1>8, <1>11, <2>1
      <3> HIDE DEF y
      <3>3. Start(hit, x) \in Nat /\ Start(hit, y) \in Nat /\ Start(hit, x) < Start(hit, y)
        BY <1>2, <1>6, <3>1, <3>2
      <3>4. ~ (y < x) /\ y # x
        <4>1. y < x => Start(hit, y) < Start(hit, x)
          BY <3>1, <3>2, StartsRise DEF n
        <4> QED
          BY <3>3, <4>1
      <3> QED
        BY <1>1, <3>1, <3>2, <3>4 DEF y
    <2>3. CASE j # 1
      <3>1. j \in 2..(q + 1) /\ at[j] = ats[j - 1] /\ j - 1 \in 1..q /\ j - 1 < k - 1
        BY <1>5, <1>8, <1>9, <1>11, <2>3
      <3> QED
        BY <1>5, <1>11, <2>1, <3>1
    <2> QED
      BY <2>2, <2>3
  <1>12. ASSUME NEW m \in 1..(d.frame - 1), NEW k \in 1..m, Start(hit, k) = i
         PROVE  \E j \in 1..(q + 1) : at[j] = m
    <2>1. k \in 1..n /\ k < d.frame /\ ~ Damaged(d, k) /\ k \in Nat /\ m \in Nat /\ m \in 1..n
      BY <1>1
    <2>2. x # 0
      BY <1>12, <2>1 DEF Starts, n
    <2>3. x \in 1..n /\ Start(hit, x) = Start(hit, k) /\ Start(hit, k) \in Nat
      BY <1>1, <1>4, <1>6, <1>12, <2>1, <2>2
    <2>4. x = k
      <3>1. (x < k => Start(hit, x) < Start(hit, k)) /\ (k < x => Start(hit, k) < Start(hit, x))
        BY <2>1, <2>3, StartsRise DEF n
      <3> QED
        BY <1>1, <2>1, <2>3, <3>1
    <2>5. CASE m = k
      <3>1. 1 \in 1..(q + 1) /\ at[1] = m
        BY <1>5, <1>8, <2>4, <2>5
      <3> QED
        BY <3>1
    <2>6. CASE m # k
      <3>1. k + 1 \in 1..m /\ Start(hit, k + 1) = next
        BY <1>3, <2>1, <2>2, <2>4, <2>6
      <3>2. PICK j \in 1..q : ats[j] = m
        BY <1>5, <3>1
      <3>3. j + 1 \in 2..(q + 1) /\ j + 1 \in 1..(q + 1) /\ (j + 1) - 1 = j
        BY <1>5
      <3> QED
        BY <1>8, <3>2, <3>3
    <2> QED
      BY <2>5, <2>6
  <1>13. AmongFrom(pieces, frames, d, hit, i, at)
    BY <1>7, <1>8, <1>10, <1>11, <1>12 DEF AmongFrom, n
  <1> QED
    BY <1>13 DEF pieces, piece

\* A datagram of frames, the length of one of them damaged, is split into the frames
\* before it; what comes through of the rest are frames behind it.
LEMMA SplitLength ==
    ASSUME NEW frames, NEW d, NEW hit, NEW junk, NEW data,
           LengthHit(frames, d, hit, junk, data)
    PROVE  \E at : Among(SplitFrames(data), frames, d, at)
  <1> DEFINE N == Len(data)
             n == Len(frames)
  <1>1. /\ data \in Seq(Nat) /\ N \in Nat /\ n \in Nat /\ n >= 1 /\ d # None /\ d.cell = 2
        /\ d.frame \in 1..n /\ \A m : Damaged(d, m) <=> m = d.frame
    <2>1. frames \in Seq(Sendable) /\ frames # <<>>
      BY DEF LengthHit
    <2> QED
      BY <2>1, EmptySeq DEF LengthHit, DamageOf, Damaged
  <1>2. Start(hit, 1) = 1 /\ N >= 7
    <2>1. 1 \in 1..n
      BY <1>1
    <2> QED
      BY <1>1, <2>1, StartIs DEF StandsAt
  <1>3. PICK F : PiecesOf(F, data) /\ SplitFrames(data) = F[1]
    <2>1. data # <<>>
      BY <1>2
    <2> QED
      BY <1>1, <2>1, SplitOf
  <1> DEFINE T == {i \in 1..N : \E at : AmongFrom(F[i], frames, d, hit, i, at)}
  <1>4. ASSUME NEW i \in 1..N, \A j \in (i + 1)..N : j \in T PROVE i \in T
    <2>1. PICK x : Starts(frames, d, hit, i, x)
      <3>1. CASE \E m \in 1..n : Start(hit, m) = i /\ ~ Damaged(d, m)
        <4>1. PICK m \in 1..n : Start(hit, m) = i /\ ~ Damaged(d, m)
          BY <3>1
        <4>2. m \in 0..n /\ m # 0
          BY <1>1
        <4> QED
          BY <4>1, <4>2 DEF Starts
      <3>2. CASE ~ \E m \in 1..n : Start(hit, m) = i /\ ~ Damaged(d, m)
        <4>1. 0 \in 0..n
          BY <1>1
        <4> QED
          BY <3>2, <4>1 DEF Starts
      <3> QED
        BY <3>1, <3>2
    <2>2. F[i] = IF NextAt(data, i) = 0 THEN <<PieceAt(data, i)>>
                 ELSE <<PieceAt(data, i)>> \o F[NextAt(data, i)]
      BY <1>3 DEF PiecesOf
    <2>3. CASE NextAt(data, i) = 0
      <3>1. AmongFrom(<<PieceAt(data, i)>>, frames, d, hit, i, <<x>>)
        BY <2>1, <2>3, AmongLast
      <3>2. F[i] = <<PieceAt(data, i)>>
        BY <2>2, <2>3
      <3> QED
        BY <3>1, <3>2
    <2>4. CASE NextAt(data, i) # 0
      <3>1. NextAt(data, i) \in (i + 1)..N
        BY <1>1, <2>4, PieceIs
      <3>2. PICK ats : AmongFrom(F[NextAt(data, i)], frames, d, hit, NextAt(data, i), ats)
        BY <1>4, <3>1
      <3>3. F[i] = <<PieceAt(data, i)>> \o F[NextAt(data, i)]
        BY <2>2, <2>4
      <3>4. \E at : AmongFrom(<<PieceAt(data, i)>> \o F[NextAt(data, i)], frames, d, hit, i, at)
        BY <2>1, <2>4, <3>2, AmongNext
      <3> QED
        BY <3>3, <3>4
    <2> QED
      BY <2>3, <2>4
  <1> HIDE DEF T
  <1>5. 1 \in T
    <2>1. 1 \in 1..N
      BY <1>1, <1>2
    <2> HIDE DEF N
    <2> QED
      BY <1>1, <1>4, <2>1, Descent
  <1>6. PICK at : AmongFrom(F[1], frames, d, hit, 1, at)
    BY <1>5 DEF T
  <1>7. ASSUME NEW m \in 1..n
        PROVE  \/ Damaged(d, m) \/ m \in Behind(d, n)
               \/ \E j \in 1..Len(F[1]) : at[j] = m
    <2>1. CASE m = d.frame
      BY <1>1, <2>1
    <2>2. CASE m > d.frame
      BY <1>1, <2>2 DEF Behind
    <2>3. CASE m < d.frame
      <3>1. m \in 1..(d.frame - 1) /\ 1 \in 1..m
        BY <1>1, <2>3
      <3> QED
        BY <1>2, <1>6, <3>1 DEF AmongFrom
    <2> QED
      BY <1>1, <2>1, <2>2, <2>3
  <1>8. Among(F[1], frames, d, at)
    BY <1>6, <1>7 DEF AmongFrom, Among
  <1> QED
    BY <1>3, <1>8

-----------------------------------------------------------------------------
(* What the capture tool makes of the pieces of a datagram.                *)

Shown == Seq(Nat) \cup {REDACTED}

Records ==
    [frame : {FALSE}, shown : Shown]
      \cup [frame : {TRUE}, valid : BOOLEAN, cmd : Nat, serial : Nat, shown : Shown,
            extra : Shown]

\* What Capture carries from piece to piece.
Caps ==
    {c \in [records : Seq(Records), cut : SUBSET Sources,
            serial : (Nat \ {0}) \cup {None}, port : TargetPorts \cup {None}] :
        c.serial = None <=> c.port = None}

Taken(cap, src, piece) ==
    IF IsFrame(piece) THEN ARecord(cap, src, piece) ELSE NotAFrame(cap, src, piece)

\* The record of a piece.
RecordOf(r, piece) ==
    /\ r \in Records
    /\ r.frame <=> IsFrame(piece)
    /\ IsFrame(piece) => /\ r.valid <=> Valid(piece)
                         /\ r.cmd = piece[HeadCells] /\ r.serial = piece[3]

\* Of the sources, only the one of the datagram is touched.
OthersKept(cut, new, src) == \A s \in Sources \ {src} : s \in new <=> s \in cut

\* What is shown of a frame.
LEMMA ShownIs ==
    ASSUME NEW p \in Seq(Nat), IsFrame(p)
    PROVE  Payload(p) \in Shown /\ Extra(p) \in Shown
  <1> DEFINE e == End(p)
  <1>1. Len(p) \in Nat /\ Len(p) >= 7 /\ HeadCells = 5
    BY DEF IsFrame, ENVELOPE_SIZE, HeadCells
  <1>2. e \in Nat /\ e <= Len(p)
    BY <1>1 DEF End, Declared, ENVELOPE_SIZE
  <1> HIDE DEF e
  <1>3. SubSeq(p, HeadCells + 1, e - 2) \in Seq(Nat)
    <2>1. 6 \in Int /\ e - 2 \in Int /\ HeadCells + 1 = 6
      BY <1>1, <1>2
    <2>2. \A i \in 6..(e - 2) : p[i] \in Nat
      BY <1>1, <1>2
    <2>3. SubSeq(p, 6, e - 2) \in Seq(Nat)
      BY <2>1, <2>2, SubSeqProperties
    <2> QED
      BY <2>1, <2>3
  <1>4. SubSeq(p, e + 1, Len(p)) \in Seq(Nat)
    <2>1. e + 1 \in Int /\ Len(p) \in Int
      BY <1>1, <1>2
    <2>2. \A i \in (e + 1)..Len(p) : p[i] \in Nat
      BY <1>1, <1>2
    <2> QED
      BY <2>1, <2>2, SubSeqProperties
  <1>5. Payload(p) \in Shown
    BY <1>3 DEF Payload, Shown, e
  <1>6. ASSUME NEW extra \in Seq(Nat) PROVE redact(extra) \in Shown
    BY DEF redact, Shown
  <1>7. Extra(p) \in Shown
    BY <1>4, <1>6 DEF Extra, Shown, e
  <1> QED
    BY <1>5, <1>7

\* The tool's test is the one that DataPacket makes.
LEMMA ValidIsTest ==
    ASSUME NEW p \in Seq(Nat), IsFrame(p)
    PROVE  Valid(p) <=> TailAndChecksum(p)
  <1>1. Len(p) \in Nat /\ Len(p) >= 7 /\ Declared(p) \in Nat
    BY DEF IsFrame, ENVELOPE_SIZE, Declared
  <1>2. End(p) = EndOf(p)
    BY <1>1 DEF End, EndOf, ENVELOPE_SIZE
  <1> QED
    BY <1>2 DEF Valid, TailAndChecksum

\* What a frame makes of what Capture carries.
LEMMA TakenFrame ==
    ASSUME NEW c \in Caps, NEW src \in Sources, NEW p \in Seq(Nat), IsFrame(p)
    PROVE  /\ Taken(c, src, p) \in Caps
           /\ \E r : /\ RecordOf(r, p)
                     /\ Taken(c, src, p).records = Append(c.records, r)
           /\ OthersKept(c.cut, Taken(c, src, p).cut, src)
           /\ p[HeadCells] = WIFI_CONFIG_EVENT /\ Declared(p) > Len(p)
                => src \in Taken(c, src, p).cut
  <1> DEFINE wifi == p[HeadCells] = WIFI_CONFIG_EVENT
             learns == Learns(c, src, p)
             long == wifi /\ Declared(p) > Len(p)
             r == [frame |-> TRUE, valid |-> Valid(p), cmd |-> p[HeadCells], serial |-> p[3],
                   shown |-> Payload(p), extra |-> Extra(p)]
             cut == IF long THEN c.cut \cup {src} ELSE c.cut \ {src}
             ser == IF learns THEN p[3] ELSE c.serial
             por == IF learns THEN src.port ELSE c.port
             new == Taken(c, src, p)
  <1>1. /\ c.records \in Seq(Records) /\ c.cut \subseteq Sources
        /\ c.serial \in (Nat \ {0}) \cup {None} /\ c.port \in TargetPorts \cup {None}
        /\ c.serial = None <=> c.port = None
        /\ c = [records |-> c.records, cut |-> c.cut, serial |-> c.serial, port |-> c.port]
    BY DEF Caps
  <1>2. Len(p) >= 7 /\ Len(p) \in Nat /\ p[3] \in Nat /\ p[5] \in Nat
    BY DEF IsFrame, ENVELOPE_SIZE
  <1>3. Payload(p) \in Shown /\ Extra(p) \in Shown
    BY ShownIs
  <1>4. Valid(p) \in BOOLEAN
    BY DEF Valid
  <1>5. r \in Records
    BY <1>2, <1>3, <1>4 DEF Records, HeadCells
  <1>6. RecordOf(r, p)
    <2>1. r.frame /\ (r.valid <=> Valid(p)) /\ r.cmd = p[HeadCells] /\ r.serial = p[3]
      OBVIOUS
    <2> HIDE DEF r
    <2> QED
      BY <1>5, <2>1 DEF RecordOf
  <1>7. new = [records |-> Append(c.records, r), cut |-> cut, serial |-> ser, port |-> por]
    <2>1. new = ARecord(c, src, p)
      BY DEF Taken
    <2>2. ARecord(c, src, p) =
            [[[[c EXCEPT !.records = Append(c.records, r)] EXCEPT !.cut = cut]
                EXCEPT !.serial = ser] EXCEPT !.port = por]
      BY DEF ARecord
    <2> HIDE DEF r, cut, ser, por, new
    <2> QED
      BY <1>1, <2>1, <2>2
  <1>8. Append(c.records, r) \in Seq(Records)
    BY <1>1, <1>5
  <1>9. cut \subseteq Sources
    BY <1>1
  <1>10. learns => src.port \in TargetPorts /\ p[3] # 0
    BY DEF Learns, TargetPorts
  <1>11. OthersKept(c.cut, cut, src) /\ (long => src \in cut)
    BY DEF OthersKept
  <1> HIDE DEF r, cut, learns, new
  <1>12. /\ ser \in (Nat \ {0}) \cup {None} /\ por \in TargetPorts \cup {None}
         /\ ser = None <=> por = None
    BY <1>1, <1>2, <1>10, NoneAssumption
  <1> HIDE DEF ser, por
  <1>13. new \in Caps
    BY <1>7, <1>8, <1>9, <1>12 DEF Caps
  <1>14. new.records = Append(c.records, r) /\ new.cut = cut
    BY <1>7
  <1> QED
    BY <1>6, <1>11, <1>13, <1>14 DEF new

\* What a piece that is no frame makes of it.
LEMMA TakenOther ==
    ASSUME NEW c \in Caps, NEW src \in Sources, NEW p \in Seq(Nat), ~ IsFrame(p)
    PROVE  /\ Taken(c, src, p) \in Caps
           /\ \E r : /\ RecordOf(r, p)
                     /\ Taken(c, src, p).records = Append(c.records, r)
                     /\ src \in c.cut => r.shown = REDACTED
           /\ OthersKept(c.cut, Taken(c, src, p).cut, src)
  <1> DEFINE r == [frame |-> FALSE,
                   shown |-> IF src \in c.cut THEN REDACTED ELSE redact(p)]
             cut == c.cut \ {src}
             new == Taken(c, src, p)
  <1>1. /\ c.records \in Seq(Records) /\ c.cut \subseteq Sources
        /\ c.serial \in (Nat \ {0}) \cup {None} /\ c.port \in TargetPorts \cup {None}
        /\ c.serial = None <=> c.port = None
        /\ c = [records |-> c.records, cut |-> c.cut, serial |-> c.serial, port |-> c.port]
    BY DEF Caps
  <1>2. redact(p) \in Shown
    BY DEF redact, Shown
  <1>3. r \in Records
    BY <1>2 DEF Records, Shown
  <1>4. RecordOf(r, p)
    <2>1. ~ r.frame
      OBVIOUS
    <2> HIDE DEF r
    <2> QED
      BY <1>3, <2>1 DEF RecordOf
  <1>5. src \in c.cut => r.shown = REDACTED
    OBVIOUS
  <1>6. new = [records |-> Append(c.records, r), cut |-> cut, serial |-> c.serial, port |-> c.port]
    <2>1. new = NotAFrame(c, src, p)
      BY DEF Taken
    <2>2. NotAFrame(c, src, p) =
            [[c EXCEPT !.records = Append(c.records, r)] EXCEPT !.cut = cut]
      BY DEF NotAFrame
    <2> HIDE DEF r, cut, new
    <2> QED
      BY <1>1, <2>1, <2>2
  <1>7. Append(c.records, r) \in Seq(Records)
    BY <1>1, <1>3
  <1>8. cut \subseteq Sources
    BY <1>1
  <1>9. OthersKept(c.cut, cut, src)
    BY DEF OthersKept
  <1> HIDE DEF r, cut, new
  <1>10. new \in Caps
    BY <1>1, <1>6, <1>7, <1>8 DEF Caps
  <1>11. new.records = Append(c.records, r) /\ new.cut = cut
    BY <1>6
  <1> QED
    BY <1>4, <1>5, <1>9, <1>10, <1>11 DEF new

\* Capture takes the pieces of a datagram one by one, as they come.
Takes(F, src, pieces, c0) ==
    /\ F \in [0..Len(pieces) -> Caps] /\ F[0] = c0
    /\ \A i \in 1..Len(pieces) : F[i] = Taken(F[i - 1], src, pieces[i])

\* What it holds before the first one.
Before == [records |-> <<>>, cut |-> wifi_cut, serial |-> serial, port |-> port]

\* Capture leaves what its steps come to.
LEMMA AfterOf ==
    ASSUME NEW src \in Sources, NEW datagram, SplitFrames(datagram) \in Seq(Seq(Nat)),
           Before \in Caps, Capture(src, datagram)
    PROVE  \E F : /\ Takes(F, src, SplitFrames(datagram), Before)
                  /\ records' = F[Len(SplitFrames(datagram))].records
                  /\ wifi_cut' = F[Len(SplitFrames(datagram))].cut
                  /\ serial' = F[Len(SplitFrames(datagram))].serial
                  /\ port' = F[Len(SplitFrames(datagram))].port
  <1> DEFINE pieces == SplitFrames(datagram)
             n == Len(pieces)
             c0 == Before
             step == [i \in Nat |->
                        [c \in Caps |-> IF i \in 1..n THEN Taken(c, src, pieces[i]) ELSE c]]
             After(f) == f = [i \in 0..n |->
                                IF i = 0 THEN [records |-> <<>>, cut |-> wifi_cut,
                                               serial |-> serial, port |-> port]
                                ELSE IF IsFrame(pieces[i]) THEN ARecord(f[i - 1], src, pieces[i])
                                ELSE NotAFrame(f[i - 1], src, pieces[i])]
             Same(f, g) == f = [i \in 0..n |-> IF i = 0 THEN c0
                                               ELSE Taken(g[i - 1], src, pieces[i])]
             F == CHOOSE f : After(f)
  <1>1. n \in Nat /\ c0 \in Caps /\ \A i \in 1..n : pieces[i] \in Seq(Nat)
    OBVIOUS
  <1>2. /\ records' = F[n].records /\ wifi_cut' = F[n].cut
        /\ serial' = F[n].serial /\ port' = F[n].port
    BY DEF Capture
  <1>3. \A f : After(f) <=> Same(f, f)
    BY DEF Taken, Before
  <1> HIDE DEF F, c0, pieces, n
  <1>4. step \in [Nat -> [Caps -> Caps]]
    <2>1. ASSUME NEW i \in 1..n, NEW c \in Caps PROVE Taken(c, src, pieces[i]) \in Caps
      <3>1. pieces[i] \in Seq(Nat)
        BY <1>1
      <3> QED
        BY <3>1, TakenFrame, TakenOther
    <2> QED
      BY <2>1
  <1>5. PICK f \in [0..n -> Caps] : f[0] = c0 /\ \A i \in 1..n : f[i] = step[i][f[i - 1]]
    <2> HIDE DEF step
    <2>1. \E f : StepsFrom(f, Caps, c0, step, n)
      BY <1>1, <1>4, Recursion, Zenon
    <2> QED
      BY <2>1 DEF StepsFrom
  <1>6. ASSUME NEW i \in 1..n PROVE f[i] = Taken(f[i - 1], src, pieces[i])
    <2>1. i \in Nat /\ f[i - 1] \in Caps
      BY <1>1
    <2> QED
      BY <1>5, <2>1
  <1>7. Same(f, f)
    BY <1>5, <1>6
  <1>8. Same(F, F)
    <2>1. After(f)
      BY <1>3, <1>7, Zenon
    <2>2. After(F)
      BY <2>1, Zenon DEF F
    <2> QED
      BY <1>3, <2>2, Zenon
  <1>9. F[0] = c0 /\ \A i \in 1..n : F[i] = Taken(F[i - 1], src, pieces[i])
    <2>1. ASSUME NEW g, Same(g, F)
          PROVE  g[0] = c0 /\ \A i \in 1..n : g[i] = Taken(F[i - 1], src, pieces[i])
      BY <1>1, <2>1
    <2> QED
      BY <1>8, <2>1, Zenon
  <1> DEFINE T == {k \in Nat : k <= n => F[k] \in Caps}
  <1>10. 0 \in T
    BY <1>1, <1>9
  <1>11. ASSUME NEW k \in Nat, k \in T PROVE k + 1 \in T
    <2>1. SUFFICES ASSUME k + 1 <= n PROVE F[k + 1] \in Caps
      OBVIOUS
    <2>2. k + 1 \in 1..n /\ (k + 1) - 1 = k /\ pieces[k + 1] \in Seq(Nat)
      BY <1>1, <2>1
    <2>3. F[k + 1] = Taken(F[k], src, pieces[k + 1])
      BY <1>9, <2>2
    <2>4. F[k] \in Caps
      BY <1>1, <1>11, <2>1
    <2> QED
      BY <2>2, <2>3, <2>4, TakenFrame, TakenOther
  <1> HIDE DEF T
  <1>12. \A k \in Nat : k \in T
    BY <1>10, <1>11, Induction
  <1>13. F \in [0..n -> Caps]
    <2>1. F = [i \in 0..n |-> F[i]]
      BY <1>8
    <2>2. \A i \in 0..n : F[i] \in Caps
      BY <1>1, <1>12 DEF T
    <2> QED
      BY <2>1, <2>2
  <1>14. Takes(F, src, pieces, c0)
    BY <1>9, <1>13 DEF Takes, n
  <1> QED
    BY <1>2, <1>14, Zenon DEF pieces, n, c0

\* What is recorded of the pieces, one record for each.
RecordsOf(recs, pieces) ==
    /\ recs \in Seq(Records) /\ Len(recs) = Len(pieces)
    /\ \A i \in 1..Len(pieces) : RecordOf(recs[i], pieces[i])

\* After the pieces there is a record of each, and the types hold.
LEMMA Recorded ==
    ASSUME NEW src \in Sources, NEW pieces \in Seq(Seq(Nat)), NEW c0 \in Caps,
           c0.records = <<>>, NEW F, Takes(F, src, pieces, c0)
    PROVE  /\ F[Len(pieces)] \in Caps
           /\ RecordsOf(F[Len(pieces)].records, pieces)
           /\ OthersKept(c0.cut, F[Len(pieces)].cut, src)
  <1> DEFINE n == Len(pieces)
             Done(c, k) == /\ Len(c.records) = k
                           /\ \A i \in 1..k : RecordOf(c.records[i], pieces[i])
                           /\ OthersKept(c0.cut, c.cut, src)
             T == {k \in Nat : k <= n => Done(F[k], k)}
  <1>1. n \in Nat /\ \A i \in 1..n : pieces[i] \in Seq(Nat)
    OBVIOUS
  <1>2. /\ F \in [0..n -> Caps] /\ F[0] = c0
        /\ \A i \in 1..n : F[i] = Taken(F[i - 1], src, pieces[i])
    BY DEF Takes
  <1> HIDE DEF n
  <1>3. 0 \in T
    BY <1>2 DEF OthersKept
  <1>4. ASSUME NEW k \in Nat, k \in T PROVE k + 1 \in T
    <2>1. SUFFICES ASSUME k + 1 <= n PROVE Done(F[k + 1], k + 1)
      OBVIOUS
    <2> DEFINE c == F[k]
               p == pieces[k + 1]
               new == F[k + 1]
    <2>2. k + 1 \in 1..n /\ (k + 1) - 1 = k /\ k \in 0..n /\ k <= n
      BY <1>1, <2>1
    <2>3. c \in Caps /\ p \in Seq(Nat) /\ new = Taken(c, src, p)
      BY <1>1, <1>2, <2>2
    <2>4. Done(c, k)
      BY <1>4, <2>2
    <2> HIDE DEF c, new, p
    <2>5. /\ \E r : RecordOf(r, p) /\ new.records = Append(c.records, r)
          /\ OthersKept(c.cut, new.cut, src)
      BY <2>3, TakenFrame, TakenOther
    <2>6. PICK r : RecordOf(r, p) /\ new.records = Append(c.records, r)
      BY <2>5
    <2>7. c.records \in Seq(Records) /\ r \in Records
      BY <2>3, <2>6 DEF Caps, RecordOf
    <2>8. /\ Len(new.records) = k + 1 /\ new.records[k + 1] = r
          /\ \A i \in 1..k : new.records[i] = c.records[i]
      BY <2>4, <2>6, <2>7
    <2>9. ASSUME NEW i \in 1..(k + 1) PROVE RecordOf(new.records[i], pieces[i])
      <3>1. CASE i = k + 1
        BY <2>6, <2>8, <3>1 DEF p
      <3>2. CASE i # k + 1
        <4>1. i \in 1..k
          BY <3>2
        <4> QED
          BY <2>4, <2>8, <4>1
      <3> QED
        BY <3>1, <3>2
    <2>10. OthersKept(c0.cut, new.cut, src)
      BY <2>4, <2>5 DEF OthersKept
    <2> QED
      BY <2>8, <2>9, <2>10 DEF new
  <1> HIDE DEF T
  <1>5. n \in T
    BY <1>1, <1>3, <1>4, Induction
  <1>6. Done(F[n], n)
    BY <1>1, <1>5 DEF T
  <1>7. F[n] \in Caps /\ F[n].records \in Seq(Records)
    BY <1>1, <1>2 DEF Caps
  <1> QED
    BY <1>6, <1>7 DEF RecordsOf, n

\* Capture's state and what it records, of a datagram that is split into these pieces.
LEMMA Captured ==
    ASSUME NEW src \in Sources, NEW datagram, SplitFrames(datagram) \in Seq(Seq(Nat)),
           TypeOK, Capture(src, datagram)
    PROVE  /\ serial' \in (Nat \ {0}) \cup {None} /\ port' \in TargetPorts \cup {None}
           /\ serial' = None <=> port' = None
           /\ wifi_cut' \subseteq Sources /\ OthersKept(wifi_cut, wifi_cut', src)
           /\ RecordsOf(records', SplitFrames(datagram))
  <1> DEFINE pieces == SplitFrames(datagram)
             n == Len(pieces)
  <1>1. Before \in Caps
    BY DEF TypeOK, Caps, Before
  <1>2. PICK F : /\ Takes(F, src, pieces, Before)
                 /\ records' = F[n].records /\ wifi_cut' = F[n].cut
                 /\ serial' = F[n].serial /\ port' = F[n].port
    BY <1>1, AfterOf
  <1>3. Before.records = <<>> /\ Before.cut = wifi_cut
    BY DEF Before
  <1> HIDE DEF pieces
  <1>4. pieces \in Seq(Seq(Nat))
    BY DEF pieces
  <1>5. /\ F[n] \in Caps /\ RecordsOf(F[n].records, pieces)
        /\ OthersKept(Before.cut, F[n].cut, src)
    BY <1>1, <1>2, <1>3, <1>4, Recorded
  <1> QED
    BY <1>2, <1>3, <1>5 DEF Caps, pieces

\* The same of a datagram that is not split: it is told by its one piece.
LEMMA CapturedOne ==
    ASSUME NEW src \in Sources, NEW p \in Seq(Nat), SplitFrames(p) = <<p>>,
           TypeOK, Capture(src, p)
    PROVE  /\ IsFrame(p) /\ p[HeadCells] = WIFI_CONFIG_EVENT /\ Declared(p) > Len(p)
                => src \in wifi_cut'
           /\ ~ IsFrame(p) /\ src \in wifi_cut
                => \A i \in DOMAIN records' : records'[i].shown = REDACTED
  <1>1. Before \in Caps /\ Before.records = <<>> /\ Before.cut = wifi_cut
    BY DEF TypeOK, Caps, Before
  <1>2. SplitFrames(p) \in Seq(Seq(Nat)) /\ Len(SplitFrames(p)) = 1 /\ SplitFrames(p)[1] = p
    OBVIOUS
  <1>3. PICK F : /\ Takes(F, src, SplitFrames(p), Before)
                 /\ records' = F[1].records /\ wifi_cut' = F[1].cut
    BY <1>1, <1>2, AfterOf
  <1>4. F[1] = Taken(Before, src, p)
    <2>1. F[0] = Before /\ \A i \in 1..1 : F[i] = Taken(F[i - 1], src, SplitFrames(p)[i])
      BY <1>2, <1>3 DEF Takes
    <2>2. 1 \in 1..1 /\ 1 - 1 = 0
      OBVIOUS
    <2> QED
      BY <1>2, <2>1, <2>2
  <1>5. CASE IsFrame(p)
    BY <1>1, <1>3, <1>4, <1>5, TakenFrame
  <1>6. CASE ~ IsFrame(p)
    <2>1. PICK r : /\ Taken(Before, src, p).records = Append(<<>>, r)
                   /\ src \in wifi_cut => r.shown = REDACTED
      BY <1>1, <1>6, TakenOther
    <2>2. records' = <<r>>
      BY <1>3, <1>4, <2>1
    <2> QED
      BY <1>6, <2>1, <2>2
  <1> QED
    BY <1>5, <1>6

-----------------------------------------------------------------------------
(* What is handled, and what is called valid.                              *)

\* The frames that the damage d takes along: those that are none of the m pieces.
LostOf(d, n, m, at) == {j \in Behind(d, n) : \A i \in 1..m : at[i] # j}

Comes(d, i, lost) == ~ Damaged(d, i) /\ i \notin lost

\* s is what the pieces give, t what the frames that come through give, where u is what
\* each of the frames would.
Outcome(Cell, frames, pieces, d, at, s, t, u) ==
    /\ frames \in Seq(Sendable) /\ Among(pieces, frames, d, at)
    /\ s \in Seq(Seq(Cell)) /\ Len(s) = Len(pieces)
    /\ t \in Seq(Seq(Cell)) /\ Len(t) = Len(frames)
    /\ \A i \in 1..Len(pieces) : s[i] = IF at[i] = 0 THEN <<>> ELSE u[at[i]]
    /\ \A i \in 1..Len(frames) :
          t[i] = IF Comes(d, i, LostOf(d, Len(frames), Len(pieces), at)) THEN u[i] ELSE <<>>

\* What Among says of each piece.
LEMMA AmongMeans ==
    ASSUME NEW pieces, NEW frames \in Seq(Sendable), NEW d, NEW at,
           Among(pieces, frames, d, at)
    PROVE  \A i \in 1..Len(pieces) :
              /\ at[i] = 0 => Bad(pieces[i])
              /\ at[i] # 0 => at[i] \in 1..Len(frames) /\ Holds(pieces[i], frames[at[i]])
  <1>1. SUFFICES ASSUME NEW i \in 1..Len(pieces)
                 PROVE  /\ at[i] = 0 => Bad(pieces[i])
                        /\ at[i] # 0 => /\ at[i] \in 1..Len(frames)
                                        /\ Holds(pieces[i], frames[at[i]])
    OBVIOUS
  <1>2. IF at[i] = 0 THEN Bad(pieces[i]) ELSE Holds(pieces[i], frames[at[i]])
    BY Zenon DEF Among
  <1>3. at[i] \in 0..Len(frames) /\ Len(frames) \in Nat
    <2>1. at \in [1..Len(pieces) -> 0..Len(frames)]
      BY Zenon DEF Among
    <2> QED
      BY <2>1
  <1> QED
    BY <1>2, <1>3

\* The two are the same.
LEMMA SameOutcome ==
    ASSUME NEW Cell, NEW frames, NEW pieces, NEW d, NEW at, NEW s, NEW t, NEW u,
           Outcome(Cell, frames, pieces, d, at, s, t, u)
    PROVE  FlattenSeq(t) = FlattenSeq(s)
  <1> DEFINE n == Len(frames)
             m == Len(pieces)
             lost == LostOf(d, n, m, at)
  <1>1. /\ n \in Nat /\ m \in Nat
        /\ s \in Seq(Seq(Cell)) /\ Len(s) = m /\ t \in Seq(Seq(Cell)) /\ Len(t) = n
        /\ \A i \in 1..m : s[i] = IF at[i] = 0 THEN <<>> ELSE u[at[i]]
        /\ \A i \in 1..n : t[i] = IF Comes(d, i, lost) THEN u[i] ELSE <<>>
    BY DEF Outcome, Among
  <1>2. /\ at \in [1..m -> 0..n]
        /\ \A i \in 1..m : at[i] # 0 => ~ Damaged(d, at[i])
        /\ \A i \in 1..m : \A j \in 1..m : i < j /\ at[i] # 0 /\ at[j] # 0 => at[i] < at[j]
        /\ \A x \in 1..n : \/ Damaged(d, x) \/ x \in Behind(d, n) \/ \E i \in 1..m : at[i] = x
    BY DEF Outcome, Among
  <1> HIDE DEF n, m
  <1>3. \A x \in lost : \A i \in 1..m : at[i] # x
    BY DEF LostOf
  <1>4. \A x \in Behind(d, n) : (\A i \in 1..m : at[i] # x) => x \in lost
    BY DEF LostOf
  <1> HIDE DEF lost
  <1>5. ASSUME NEW i \in 1..m PROVE s[i] = IF at[i] = 0 THEN <<>> ELSE t[at[i]]
    <2>1. CASE at[i] = 0
      BY <1>1, <2>1
    <2>2. CASE at[i] # 0
      <3>1. at[i] \in 1..n /\ at[i] \notin lost /\ ~ Damaged(d, at[i])
        BY <1>1, <1>2, <1>3, <2>2
      <3>2. Comes(d, at[i], lost)
        BY <3>1 DEF Comes
      <3> QED
        BY <1>1, <2>2, <3>1, <3>2
    <2> QED
      BY <2>1, <2>2
  <1>6. ASSUME NEW x \in 1..n, \A i \in 1..m : at[i] # x PROVE t[x] = <<>>
    <2>1. ~ Comes(d, x, lost)
      BY <1>2, <1>4, <1>6 DEF Comes
    <2> QED
      BY <1>1, <2>1
  <1>7. Picks(at, s, t)
    BY <1>1, <1>2, <1>5, <1>6 DEF Picks
  <1> QED
    BY <1>1, <1>7, FlattenPicks

\* A function on the first numbers is a sequence.
LEMMA MadeOf ==
    ASSUME NEW X, NEW n \in Nat, NEW f \in [1..n -> X]
    PROVE  f \in Seq(X) /\ Len(f) = n /\ DOMAIN f = 1..n
  BY IsASeq

\* What is heard of a piece that comes through, and of one that does not.
LEMMA HeardOf ==
    ASSUME NEW p \in Seq(Nat), NEW f
    PROVE  /\ Heard(p) \in Seq({Packet(x) : x \in Seq(Nat)})
           /\ Holds(p, f) => Heard(p) = Heard(f)
           /\ Bad(p) => Heard(p) = <<>>
  <1>1. Heard(p) \in Seq({Packet(x) : x \in Seq(Nat)})
    <2> DEFINE Cell == {Packet(x) : x \in Seq(Nat)}
    <2>1. Packet(p) \in Cell
      OBVIOUS
    <2> HIDE DEF Cell
    <2>2. <<Packet(p)>> \in Seq(Cell) /\ <<>> \in Seq(Cell)
      BY <2>1
    <2>3. Heard(p) \in Seq(Cell)
      BY <2>2 DEF Heard
    <2> QED
      BY <2>3 DEF Cell
  <1>2. Holds(p, f) => Heard(p) = Heard(f)
    <2>1. SUFFICES ASSUME Holds(p, f) PROVE Heard(p) = Heard(f)
      OBVIOUS
    <2>2. Accepted(p) <=> Accepted(f)
      BY <2>1 DEF Holds, Accepted
    <2>3. Packet(p) = Packet(f)
      BY <2>1 DEF Holds
    <2> QED
      BY <2>2, <2>3 DEF Heard
  <1>3. Bad(p) => Heard(p) = <<>>
    BY DEF Bad, Heard, Accepted
  <1> QED
    BY <1>1, <1>2, <1>3

\* The listener hands on what comes through.
LEMMA HandledIs ==
    ASSUME NEW frames \in Seq(Sendable), NEW d, NEW datagram, NEW at,
           Among(SplitFrames(datagram), frames, d, at), Listen(datagram)
    PROVE  LET lost == LostOf(d, Len(frames), Len(SplitFrames(datagram)), at)
           IN  handled' = FlattenSeq([i \in DOMAIN frames |->
                             IF Comes(d, i, lost) THEN Heard(frames[i]) ELSE <<>>])
  <1> DEFINE pieces == SplitFrames(datagram)
             Cell == {Packet(x) : x \in Seq(Nat)}
             X == Seq(Cell)
             n == Len(frames)
             m == Len(pieces)
             lost == LostOf(d, n, m, at)
             s == [i \in 1..m |-> Heard(pieces[i])]
             u == [i \in 1..n |-> Heard(frames[i])]
             t == [i \in 1..n |-> IF Comes(d, i, lost) THEN Heard(frames[i]) ELSE <<>>]
  <1>1. /\ n \in Nat /\ m \in Nat /\ DOMAIN pieces = 1..m /\ DOMAIN frames = 1..n
        /\ \A i \in 1..m : pieces[i] \in Seq(Nat)
        /\ \A i \in 1..n : frames[i] \in Sendable
    BY DEF Among
  <1>2. handled' = FlattenSeq(s)
    BY <1>1 DEF Listen
  <1>3. \A i \in 1..n : frames[i] \in Seq(Nat)
    BY <1>1, SendableAssumption
  <1>4. \A i \in 1..m : /\ at[i] = 0 => Bad(pieces[i])
                        /\ at[i] # 0 => at[i] \in 1..n /\ Holds(pieces[i], frames[at[i]])
    BY AmongMeans
  <1> HIDE DEF pieces, n, m, lost
  <1>5. ASSUME NEW i \in 1..m
        PROVE  /\ Heard(pieces[i]) \in X
               /\ at[i] = 0 => Heard(pieces[i]) = <<>>
               /\ at[i] # 0 => /\ at[i] \in 1..n
                               /\ Heard(pieces[i]) = Heard(frames[at[i]])
    <2>1. pieces[i] \in Seq(Nat)
      BY <1>1
    <2> QED
      BY <1>4, <2>1, HeardOf
  <1>6. ASSUME NEW i \in 1..n PROVE Heard(frames[i]) \in X
    BY <1>3, HeardOf
  <1> HIDE DEF Cell
  <1>7. <<>> \in X
    OBVIOUS
  <1> HIDE DEF X
  <1>8. s \in [1..m -> X] /\ u \in [1..n -> X] /\ t \in [1..n -> X]
    BY <1>5, <1>6, <1>7
  <1>9. \A i \in 1..m : s[i] = IF at[i] = 0 THEN <<>> ELSE u[at[i]]
    BY <1>1, <1>5
  <1>10. \A i \in 1..n : t[i] = IF Comes(d, i, lost) THEN u[i] ELSE <<>>
    OBVIOUS
  <1>11. handled' = FlattenSeq(s)
    BY <1>2
  <1>12. t = [i \in DOMAIN frames |-> IF Comes(d, i, lost) THEN Heard(frames[i]) ELSE <<>>]
    BY <1>1
  <1> HIDE DEF s, t, u
  <1>13. s \in Seq(X) /\ Len(s) = m /\ t \in Seq(X) /\ Len(t) = n
    BY <1>1, <1>8, MadeOf
  <1>14. FlattenSeq(t) = FlattenSeq(s)
    <2>1. n = Len(frames) /\ m = Len(pieces) /\ Among(pieces, frames, d, at)
      BY DEF n, m, pieces
    <2>2. s \in Seq(Seq(Cell)) /\ t \in Seq(Seq(Cell))
      BY <1>13 DEF X
    <2>3. Outcome(Cell, frames, pieces, d, at, s, t, u)
      BY <1>9, <1>10, <1>13, <2>1, <2>2 DEF Outcome, lost
    <2> QED
      BY <2>3, SameOutcome, SMT
  <1> QED
    BY <1>11, <1>12, <1>14 DEF lost, n, m, pieces

\* The record of a piece that comes through, and of one that does not.
LEMMA ValidRecordOf ==
    ASSUME NEW r, NEW p \in Seq(Nat), RecordOf(r, p), NEW f
    PROVE  /\ ValidRecord(r) \in Seq(Nat \X Nat)
           /\ Holds(p, f) => ValidRecord(r) = <<SerialAndCommand(f)>>
           /\ Bad(p) => ValidRecord(r) = <<>>
  <1>1. CASE IsFrame(p) /\ TailAndChecksum(p)
    <2>1. r.frame /\ r.valid /\ r.cmd = p[HeadCells] /\ r.serial = p[3]
      BY <1>1, ValidIsTest DEF RecordOf
    <2>2. p[HeadCells] \in Nat /\ p[3] \in Nat
      BY <1>1 DEF IsFrame, ENVELOPE_SIZE, HeadCells
    <2>3. ValidRecord(r) = <<<<p[3], p[HeadCells]>>>>
      BY <2>1 DEF ValidRecord
    <2> QED
      BY <1>1, <2>2, <2>3 DEF Holds, Bad, SerialAndCommand
  <1>2. CASE ~ (IsFrame(p) /\ TailAndChecksum(p))
    <2>1. ~ (r.frame /\ r.valid)
      BY <1>2, ValidIsTest DEF RecordOf
    <2>2. ValidRecord(r) = <<>>
      BY <2>1 DEF ValidRecord
    <2> QED
      BY <1>2, <2>2 DEF Holds
  <1> QED
    BY <1>1, <1>2

\* The tool calls those frames valid.
LEMMA ValidAre ==
    ASSUME NEW frames \in Seq(Sendable), NEW d, NEW pieces, NEW recs, NEW at,
           Among(pieces, frames, d, at), RecordsOf(recs, pieces)
    PROVE  LET lost == LostOf(d, Len(frames), Len(pieces), at)
           IN  FlattenSeq([i \in DOMAIN recs |-> ValidRecord(recs[i])])
                 = FlattenSeq([i \in DOMAIN frames |->
                       IF Comes(d, i, lost) THEN <<SerialAndCommand(frames[i])>> ELSE <<>>])
  <1> DEFINE Cell == Nat \X Nat
             X == Seq(Cell)
             n == Len(frames)
             m == Len(pieces)
             lost == LostOf(d, n, m, at)
             s == [i \in 1..m |-> ValidRecord(recs[i])]
             u == [i \in 1..n |-> <<SerialAndCommand(frames[i])>>]
             t == [i \in 1..n |-> IF Comes(d, i, lost) THEN <<SerialAndCommand(frames[i])>>
                                  ELSE <<>>]
  <1>1. /\ n \in Nat /\ m \in Nat /\ DOMAIN frames = 1..n
        /\ \A i \in 1..m : pieces[i] \in Seq(Nat)
        /\ \A i \in 1..n : frames[i] \in Sendable
    BY DEF Among
  <1>2. DOMAIN recs = 1..m /\ \A i \in 1..m : RecordOf(recs[i], pieces[i])
    BY DEF RecordsOf
  <1>3. \A i \in 1..m : /\ at[i] = 0 => Bad(pieces[i])
                        /\ at[i] # 0 => at[i] \in 1..n /\ Holds(pieces[i], frames[at[i]])
    BY AmongMeans
  <1> HIDE DEF n, m, lost
  <1>4. ASSUME NEW i \in 1..n PROVE <<SerialAndCommand(frames[i])>> \in X
    <2>1. frames[i] \in Seq(Nat) /\ Len(frames[i]) >= 7
      BY <1>1, SendableAssumption DEF ENVELOPE_SIZE
    <2>2. frames[i][3] \in Nat /\ frames[i][5] \in Nat
      BY <2>1
    <2>3. SerialAndCommand(frames[i]) \in Cell
      BY <2>2 DEF SerialAndCommand, HeadCells
    <2> HIDE DEF Cell
    <2> QED
      BY <2>3
  <1>5. ASSUME NEW i \in 1..m
        PROVE  /\ ValidRecord(recs[i]) \in X
               /\ at[i] = 0 => ValidRecord(recs[i]) = <<>>
               /\ at[i] # 0 => /\ at[i] \in 1..n
                               /\ ValidRecord(recs[i]) = <<SerialAndCommand(frames[at[i]])>>
    <2>1. pieces[i] \in Seq(Nat) /\ RecordOf(recs[i], pieces[i])
      BY <1>1, <1>2
    <2> QED
      BY <1>3, <2>1, ValidRecordOf
  <1> HIDE DEF Cell
  <1>6. <<>> \in X
    OBVIOUS
  <1> HIDE DEF X
  <1>7. s \in [1..m -> X] /\ u \in [1..n -> X] /\ t \in [1..n -> X]
    BY <1>4, <1>5, <1>6
  <1>8. \A i \in 1..m : s[i] = IF at[i] = 0 THEN <<>> ELSE u[at[i]]
    BY <1>1, <1>5
  <1>9. \A i \in 1..n : t[i] = IF Comes(d, i, lost) THEN u[i] ELSE <<>>
    OBVIOUS
  <1>10. s = [i \in DOMAIN recs |-> ValidRecord(recs[i])]
    BY <1>2
  <1>11. t = [i \in DOMAIN frames |->
                IF Comes(d, i, lost) THEN <<SerialAndCommand(frames[i])>> ELSE <<>>]
    BY <1>1
  <1> HIDE DEF s, t, u
  <1>12. s \in Seq(X) /\ Len(s) = m /\ t \in Seq(X) /\ Len(t) = n
    BY <1>1, <1>7, MadeOf
  <1>13. FlattenSeq(t) = FlattenSeq(s)
    <2>1. n = Len(frames) /\ m = Len(pieces) /\ Among(pieces, frames, d, at)
      BY DEF n, m
    <2>2. s \in Seq(Seq(Cell)) /\ t \in Seq(Seq(Cell))
      BY <1>12 DEF X
    <2>3. Outcome(Cell, frames, pieces, d, at, s, t, u)
      BY <1>8, <1>9, <1>12, <2>1, <2>2 DEF Outcome, lost
    <2> QED
      BY <2>3, SameOutcome, SMT
  <1> QED
    BY <1>10, <1>11, <1>13 DEF lost, n, m

-----------------------------------------------------------------------------
(* The steps.                                                              *)

\* What is yet to come of a reply holds no header, so that it is told from a frame.
RestOK ==
    /\ rest \in [Sources -> Seq(Nat)]
    /\ \A s \in Sources : \A i \in 1..Len(rest[s]) : rest[s][i] # HEADER

IInv == TypeOK /\ RestOK

\* Both properties, of a datagram whose pieces come out.
LEMMA ArriveDetails ==
    ASSUME NEW frames \in Seq(Sendable), NEW d, NEW src \in Sources, NEW datagram, TypeOK,
           NEW at, Among(SplitFrames(datagram), frames, d, at), Arrive(src, datagram),
           sent' = frames, damage' = d
    PROVE  FramesArrive' /\ ValidIsIntact'
  <1> DEFINE pieces == SplitFrames(datagram)
             lost == LostOf(d, Len(frames), Len(pieces), at)
  <1>1. Capture(src, datagram) /\ Listen(datagram)
    BY DEF Arrive
  <1>2. lost \in SUBSET TakenAlong'
    BY DEF LostOf, Behind, TakenAlong
  <1>3. \A i : Comes(d, i, lost) <=> ComesThrough(i, lost)'
    BY DEF Comes, ComesThrough, Damaged
  <1>4. handled' = FlattenSeq([i \in DOMAIN frames |->
                      IF Comes(d, i, lost) THEN Heard(frames[i]) ELSE <<>>])
    BY <1>1, HandledIs
  <1>5. FlattenSeq([i \in DOMAIN records' |-> ValidRecord(records'[i])])
          = FlattenSeq([i \in DOMAIN frames |->
                IF Comes(d, i, lost) THEN <<SerialAndCommand(frames[i])>> ELSE <<>>])
    <2>1. pieces \in Seq(Seq(Nat))
      BY DEF Among
    <2>2. RecordsOf(records', pieces)
      BY <1>1, <2>1, Captured
    <2> QED
      BY <2>2, ValidAre
  <1> HIDE DEF lost
  <1>6. FramesArrive'
    BY <1>2, <1>3, <1>4 DEF FramesArrive
  <1>7. ValidIsIntact'
    BY <1>2, <1>3, <1>5 DEF ValidIsIntact
  <1> QED
    BY <1>6, <1>7

\* Both properties, of what a source sends.
LEMMA SendDetails ==
    ASSUME IInv, NEW src \in Sources, Send(src)
    PROVE  /\ FramesArrive' /\ ValidIsIntact'
           /\ \E datagram : /\ SplitFrames(datagram) \in Seq(Seq(Nat))
                            /\ Capture(src, datagram)
  <1>1. PICK frames \in SeqOf(Sendable, MaxFrames) \ {<<>>}, junk \in Junk :
            /\ sent' = frames
            /\ \/ damage' = None /\ Arrive(src, FlattenSeq(frames) \o junk)
               \/ \E n \in DOMAIN frames : \E k \in DOMAIN frames[n], v \in Values :
                     /\ Damage(frames, junk, n, k, v)
                     /\ damage' = [frame |-> n, cell |-> k, value |-> v]
                     /\ Arrive(src, FlattenSeq([frames EXCEPT ![n] = Hit(@, k, v)]) \o junk)
    BY DEF Send
  <1>2. frames \in Seq(Sendable) /\ frames # <<>>
    <2>1. PICK m \in 0..MaxFrames : frames \in [1..m -> Sendable]
      BY DEF SeqOf
    <2>2. m \in Nat
      BY MaxFramesAssumption
    <2> QED
      BY <2>1, <2>2, MadeOf
  <1>3. \A i \in 1..Len(frames) : /\ frames[i] \in Seq(Nat) /\ Whole(frames[i])
                                  /\ DOMAIN frames[i] = 1..Len(frames[i])
    BY <1>2, SendableIsWhole, SendableAssumption
  <1>4. ASSUME NEW d, damage' = d, NEW hit, Arrive(src, FlattenSeq(hit) \o junk),
               \E at : Among(SplitFrames(FlattenSeq(hit) \o junk), frames, d, at)
        PROVE  /\ FramesArrive' /\ ValidIsIntact'
               /\ \E datagram : /\ SplitFrames(datagram) \in Seq(Seq(Nat))
                                /\ Capture(src, datagram)
    <2> DEFINE datagram == FlattenSeq(hit) \o junk
    <2>1. PICK at : Among(SplitFrames(datagram), frames, d, at)
      BY <1>4
    <2>2. TypeOK /\ Arrive(src, datagram) /\ sent' = frames
      BY <1>1, <1>4 DEF IInv
    <2> HIDE DEF datagram
    <2>3. FramesArrive' /\ ValidIsIntact'
      BY <1>2, <1>4, <2>1, <2>2, ArriveDetails
    <2>4. SplitFrames(datagram) \in Seq(Seq(Nat)) /\ Capture(src, datagram)
      BY <2>1, <2>2 DEF Among, Arrive
    <2> QED
      BY <2>3, <2>4
  <1>5. CASE damage' = None /\ Arrive(src, FlattenSeq(frames) \o junk)
    <2>1. DamageOf(None, frames)
      BY DEF DamageOf
    <2>2. Arrives(frames, frames, None)
      <3>1. frames \in Seq(Seq(Nat))
        BY <1>2, <1>3
      <3> QED
        BY <3>1 DEF Arrives, Damaged
    <2>3. \E at : Among(SplitFrames(FlattenSeq(frames) \o junk), frames, None, at)
      BY <1>1, <1>2, <2>1, <2>2, SplitSent
    <2> QED
      BY <1>4, <1>5, <2>3
  <1>6. ASSUME NEW n \in DOMAIN frames, NEW k \in DOMAIN frames[n], NEW v \in Values,
               Damage(frames, junk, n, k, v),
               damage' = [frame |-> n, cell |-> k, value |-> v],
               Arrive(src, FlattenSeq([frames EXCEPT ![n] = Hit(@, k, v)]) \o junk)
        PROVE  /\ FramesArrive' /\ ValidIsIntact'
               /\ \E datagram : /\ SplitFrames(datagram) \in Seq(Seq(Nat))
                                /\ Capture(src, datagram)
    <2> DEFINE d == [frame |-> n, cell |-> k, value |-> v]
               hit == [frames EXCEPT ![n] = Hit(@, k, v)]
               data == FlattenSeq(hit) \o junk
    <2>1. /\ n \in 1..Len(frames) /\ k \in 1..Len(frames[n]) /\ n \in Nat /\ k \in Nat
          /\ v \in Nat /\ frames[n] \in Seq(Nat) /\ Whole(frames[n]) /\ junk \in Junk
      BY <1>1, <1>2, <1>3, ValuesAssumption
    <2>2. d # None
      BY <2>1, NoneAssumption
    <2>3. d.frame = n /\ d.cell = k /\ d.value = v
      OBVIOUS
    <2>4. DamageOf(d, frames)
      BY <1>6, <2>1, <2>2, <2>3 DEF DamageOf, Damage
    <2>5. Hit(frames[n], k, v) \in Seq(Nat)
      BY <2>1, HitIs
    <2>6. Arrives(hit, frames, d)
      <3>1. frames \in Seq(Seq(Nat)) /\ hit = [frames EXCEPT ![n] = Hit(frames[n], k, v)]
        BY <1>2, <1>3
      <3>2. /\ hit \in Seq(Seq(Nat)) /\ Len(hit) = Len(frames)
            /\ \A i \in 1..Len(frames) :
                  hit[i] = IF i = n THEN Hit(frames[n], k, v) ELSE frames[i]
        BY <2>1, <2>5, <3>1, ExceptSeq
      <3>3. \A i : Damaged(d, i) <=> i = n
        BY <2>2, <2>3 DEF Damaged
      <3> HIDE DEF hit, d
      <3> QED
        BY <2>3, <3>2, <3>3 DEF Arrives
    <2>7. damage' = d /\ Arrive(src, data)
      BY <1>6
    <2>8. k = 2 => NoOtherRunPasses(hit, n, data)
      BY <1>6 DEF Damage
    <2> HIDE DEF d, hit
    <2>9. data \in Seq(Nat)
      <3>1. FlattenSeq(hit) \in Seq(Nat)
        BY <2>6, FlattenType DEF Arrives
      <3>2. junk \in Seq(Nat)
        BY <2>1, JunkAssumption
      <3> QED
        BY <3>1, <3>2
    <2>10. \E at : Among(SplitFrames(data), frames, d, at)
      <3>1. CASE k = 2
        <4>1. LengthHit(frames, d, hit, junk, data)
          BY <1>2, <2>1, <2>2, <2>3, <2>4, <2>6, <2>8, <2>9, <3>1 DEF LengthHit
        <4> QED
          BY <4>1, SplitLength
      <3>2. CASE k # 2
        BY <1>2, <2>1, <2>3, <2>4, <2>6, <3>2, SplitSent
      <3> QED
        BY <3>1, <3>2
    <2> QED
      BY <1>4, <2>7, <2>10
  <1> QED
    BY <1>1, <1>5, <1>6

\* Nothing is asked of a datagram that brought no whole frame.
LEMMA NothingSent ==
    ASSUME sent' = <<>>, damage' = None, handled' = <<>>,
           records' = <<>> \/ \E r : records' = <<r>> /\ ValidRecord(r) = <<>>
    PROVE  FramesArrive' /\ ValidIsIntact'
  <1>1. FlattenSeq(<<>>) = <<>>
    BY DEF FlattenSeq
  <1>2. {} \in SUBSET TakenAlong'
    OBVIOUS
  <1>3. FlattenSeq([i \in DOMAIN records' |-> ValidRecord(records'[i])]) = <<>>
    <2>1. CASE records' = <<>>
      <3>1. [i \in DOMAIN records' |-> ValidRecord(records'[i])] = <<>>
        BY <2>1
      <3> QED
        BY <1>1, <3>1
    <2>2. CASE \E r : records' = <<r>> /\ ValidRecord(r) = <<>>
      <3>1. [i \in DOMAIN records' |-> ValidRecord(records'[i])] = <<<<>>>>
        BY <2>2
      <3>2. <<>> \in Seq(Nat)
        OBVIOUS
      <3>3. FlattenSeq(<<<<>>>>) = <<>>
        BY <3>2, FlattenOne
      <3> QED
        BY <3>1, <3>3
    <2> QED
      BY <2>1, <2>2
  <1>4. [i \in DOMAIN sent' |-> IF ComesThrough(i, {})' THEN Heard(sent'[i]) ELSE <<>>] = <<>>
    OBVIOUS
  <1>5. [i \in DOMAIN sent' |->
           IF ComesThrough(i, {})' THEN <<SerialAndCommand(sent'[i])>> ELSE <<>>] = <<>>
    OBVIOUS
  <1>6. FramesArrive'
    BY <1>1, <1>2, <1>4 DEF FramesArrive
  <1>7. ValidIsIntact'
    BY <1>1, <1>2, <1>3, <1>5 DEF ValidIsIntact
  <1> QED
    BY <1>6, <1>7

\* A datagram that is a piece of its own, and is not accepted, brings no frame.
LEMMA OnePieceArrives ==
    ASSUME NEW src \in Sources, NEW p \in Seq(Nat), NextAt(p, 1) = 0, p # <<>>, Bad(p),
           TypeOK, Arrive(src, p), sent' = <<>>, damage' = None
    PROVE  /\ FramesArrive' /\ ValidIsIntact'
           /\ SplitFrames(p) = <<p>> /\ SplitFrames(p) \in Seq(Seq(Nat)) /\ Capture(src, p)
  <1>1. SplitFrames(p) = <<p>>
    BY NotSplit
  <1>2. SplitFrames(p) \in Seq(Seq(Nat)) /\ Len(SplitFrames(p)) = 1 /\ SplitFrames(p)[1] = p
    BY <1>1
  <1>3. Capture(src, p) /\ Listen(p)
    BY DEF Arrive
  <1>4. handled' = <<>>
    <2>1. handled' = FlattenSeq([i \in DOMAIN SplitFrames(p) |-> Heard(SplitFrames(p)[i])])
      BY <1>3 DEF Listen
    <2>2. Heard(p) = <<>>
      BY HeardOf
    <2>3. [i \in DOMAIN SplitFrames(p) |-> Heard(SplitFrames(p)[i])] = <<<<>>>>
      BY <1>1, <2>2
    <2>4. <<>> \in Seq(Nat)
      OBVIOUS
    <2>5. FlattenSeq(<<<<>>>>) = <<>>
      BY <2>4, FlattenOne
    <2> QED
      BY <2>1, <2>3, <2>5
  <1>5. \E r : records' = <<r>> /\ ValidRecord(r) = <<>>
    <2>1. RecordsOf(records', SplitFrames(p))
      BY <1>2, <1>3, Captured
    <2>2. records' \in Seq(Records) /\ Len(records') = 1 /\ RecordOf(records'[1], p)
      BY <1>2, <2>1 DEF RecordsOf
    <2>3. ValidRecord(records'[1]) = <<>>
      BY <2>2, ValidRecordOf
    <2>4. records' = <<records'[1]>>
      BY <2>2
    <2> QED
      BY <2>3, <2>4
  <1>6. FramesArrive' /\ ValidIsIntact'
    BY <1>4, <1>5, NothingSent
  <1> QED
    BY <1>1, <1>2, <1>3, <1>6

\* What Capture leaves of the types, once it is known who owes a remainder.
LEMMA TypeStep ==
    ASSUME TypeOK, NEW src \in Sources, NEW datagram,
           SplitFrames(datagram) \in Seq(Seq(Nat)), Capture(src, datagram),
           rest \in [Sources -> Seq(Nat)], NEW x, rest' = [rest EXCEPT ![src] = x],
           x # <<>> => src \in wifi_cut'
    PROVE  TypeOK'
  <1>1. /\ serial' \in (Nat \ {0}) \cup {None} /\ port' \in TargetPorts \cup {None}
        /\ serial' = None <=> port' = None
        /\ wifi_cut' \subseteq Sources /\ OthersKept(wifi_cut, wifi_cut', src)
    BY Captured
  <1>2. ASSUME NEW s \in Sources, rest'[s] # <<>> PROVE s \in wifi_cut'
    <2>1. CASE s = src
      BY <1>2, <2>1
    <2>2. CASE s # src
      <3>1. s \in wifi_cut
        BY <1>2, <2>2 DEF TypeOK
      <3> QED
        BY <1>1, <2>2, <3>1 DEF OthersKept
    <2> QED
      BY <2>1, <2>2
  <1> QED
    BY <1>1, <1>2 DEF TypeOK

\* What a source has yet to send is set without a header.
LEMMA RestStep ==
    ASSUME RestOK, NEW src \in Sources, NEW x \in Seq(Nat),
           \A i \in 1..Len(x) : x[i] # HEADER, rest' = [rest EXCEPT ![src] = x]
    PROVE  RestOK'
  <1>1. rest' \in [Sources -> Seq(Nat)]
    BY DEF RestOK
  <1>2. ASSUME NEW s \in Sources, NEW i \in 1..Len(rest'[s]) PROVE rest'[s][i] # HEADER
    <2>1. CASE s = src
      BY <1>2, <2>1 DEF RestOK
    <2>2. CASE s # src
      <3>1. rest'[s] = rest[s]
        BY <2>2 DEF RestOK
      <3> QED
        BY <1>2, <3>1 DEF RestOK
    <2> QED
      BY <2>1, <2>2
  <1> QED
    BY <1>1, <1>2 DEF RestOK

\* What a step Settle keeps.
LEMMA SettleStep ==
    ASSUME IInv, Settle
    PROVE  IInv' /\ FramesArrive' /\ ValidIsIntact'
  <1>1. FramesArrive' /\ ValidIsIntact'
    BY NothingSent DEF Settle
  <1>2. UNCHANGED <<serial, port, wifi_cut, rest>>
    BY DEF Settle
  <1> QED
    BY <1>1, <1>2 DEF IInv, TypeOK, RestOK

\* What a step Send keeps.
LEMMA SendStep ==
    ASSUME IInv, NEW src \in Sources, Send(src)
    PROVE  IInv' /\ FramesArrive' /\ ValidIsIntact'
  <1>1. FramesArrive' /\ ValidIsIntact'
    BY SendDetails
  <1>2. PICK datagram : SplitFrames(datagram) \in Seq(Seq(Nat)) /\ Capture(src, datagram)
    BY SendDetails
  <1>3. rest[src] = <<>> /\ rest' = rest
    BY DEF Send
  <1>4. rest \in [Sources -> Seq(Nat)] /\ TypeOK /\ RestOK
    BY DEF IInv, RestOK
  <1>5. rest' = [rest EXCEPT ![src] = <<>>]
    BY <1>3, <1>4
  <1>6. TypeOK'
    BY <1>2, <1>4, <1>5, TypeStep
  <1>7. RestOK'
    BY <1>3, <1>4 DEF RestOK
  <1> QED
    BY <1>1, <1>6, <1>7 DEF IInv

\* What is sent of a reply that is cut short, and what is left of it.
LEMMA CutIs ==
    ASSUME NEW f \in Sendable, NEW k \in ENVELOPE_SIZE..(Len(f) - 1),
           f[HeadCells] = WIFI_CONFIG_EVENT, NoneLooksWhole(f, k),
           NEW p, p = SubSeq(f, 1, k), NEW x, x = SubSeq(f, k + 1, Len(f))
    PROVE  /\ p \in Seq(Nat) /\ p # <<>> /\ NextAt(p, 1) = 0 /\ Bad(p)
           /\ IsFrame(p) /\ p[HeadCells] = WIFI_CONFIG_EVENT /\ Declared(p) > Len(p)
           /\ x \in Seq(Nat) /\ \A i \in 1..Len(x) : x[i] # HEADER
  <1> DEFINE l == Len(f)
  <1>1. Whole(f)
    BY SendableIsWhole
  <1>2. /\ f \in Seq(Nat) /\ l \in Nat /\ f[1] = HEADER /\ f[2] = l /\ k \in 7..(l - 1)
        /\ k \in Nat /\ k <= l /\ f[5] = WIFI_CONFIG_EVENT
    BY <1>1 DEF Whole, ENVELOPE_SIZE, Declared, HeadCells
  <1>3. p \in Seq(Nat) /\ Len(p) = k /\ \A i \in 1..k : p[i] = f[i]
    BY <1>2, FirstCells
  <1>4. /\ x \in Seq(Nat) /\ Len(x) = l - (k + 1) + 1
        /\ \A i \in 1..(l - (k + 1) + 1) : x[i] = f[(k + 1) + i - 1]
    <2>1. k + 1 \in Int /\ l \in Int /\ k + 1 <= l
      BY <1>2
    <2>2. \A i \in (k + 1)..l : i \in 1..l
      BY <1>2
    <2>3. \A i \in (k + 1)..l : f[i] \in Nat
      BY <1>2, <2>2, ElementOfSeq
    <2> QED
      BY <2>1, <2>3, SubSeqProperties
  <1>5. ~ TailAndChecksum(p) /\ \A i \in (k + 1)..l : f[i] # HEADER
    BY DEF NoneLooksWhole
  <1> HIDE DEF l
  <1>6. ASSUME NEW i \in 1..Len(x) PROVE x[i] # HEADER
    <2>1. i \in 1..(l - (k + 1) + 1) /\ (k + 1) + i - 1 \in (k + 1)..l
      BY <1>2, <1>4
    <2> QED
      BY <1>4, <1>5, <2>1
  <1>7. p[1] = HEADER /\ p[2] = l /\ p[5] = WIFI_CONFIG_EVENT /\ l > k /\ k >= 7
    BY <1>2, <1>3
  <1>8. p # <<>> /\ IsFrame(p) /\ p[HeadCells] = WIFI_CONFIG_EVENT /\ Declared(p) > Len(p)
    <2>1. Len(p) >= 7 /\ Len(p) # 0 /\ l > Len(p)
      BY <1>2, <1>3, <1>7
    <2>2. p # <<>>
      BY <2>1
    <2> QED
      BY <1>7, <2>1, <2>2 DEF IsFrame, HeadCells, Declared, ENVELOPE_SIZE
  <1>9. NextAt(p, 1) = 0
    <2>1. DeclaredAt(p, 1) = l
      BY <1>2, <1>3, <1>7 DEF DeclaredAt
    <2>2. ~ Splits(p, 1, l)
      BY <1>2, <1>3, <1>7 DEF Splits
    <2> QED
      BY <2>1, <2>2 DEF NextAt
  <1> QED
    BY <1>3, <1>4, <1>5, <1>6, <1>8, <1>9 DEF Bad

\* What a step Cut keeps.
LEMMA CutStep ==
    ASSUME IInv, NEW src \in Sources, Cut(src)
    PROVE  IInv' /\ FramesArrive' /\ ValidIsIntact'
  <1>1. PICK f \in Sendable : \E k \in ENVELOPE_SIZE..(Len(f) - 1) :
            /\ f[HeadCells] = WIFI_CONFIG_EVENT
            /\ NoneLooksWhole(f, k)
            /\ rest' = [rest EXCEPT ![src] = SubSeq(f, k + 1, Len(f))]
            /\ Arrive(src, SubSeq(f, 1, k))
    BY DEF Cut
  <1>2. PICK k \in ENVELOPE_SIZE..(Len(f) - 1) :
            /\ f[HeadCells] = WIFI_CONFIG_EVENT
            /\ NoneLooksWhole(f, k)
            /\ rest' = [rest EXCEPT ![src] = SubSeq(f, k + 1, Len(f))]
            /\ Arrive(src, SubSeq(f, 1, k))
    BY <1>1
  <1> DEFINE p == SubSeq(f, 1, k)
             x == SubSeq(f, k + 1, Len(f))
  <1>3. /\ p \in Seq(Nat) /\ p # <<>> /\ NextAt(p, 1) = 0 /\ Bad(p)
        /\ IsFrame(p) /\ p[HeadCells] = WIFI_CONFIG_EVENT /\ Declared(p) > Len(p)
        /\ x \in Seq(Nat) /\ \A i \in 1..Len(x) : x[i] # HEADER
    BY <1>2, CutIs
  <1>4. /\ TypeOK /\ RestOK /\ rest \in [Sources -> Seq(Nat)]
        /\ sent' = <<>> /\ damage' = None
        /\ rest' = [rest EXCEPT ![src] = x] /\ Arrive(src, p)
    BY <1>2 DEF IInv, RestOK, Cut
  <1> HIDE DEF p, x
  <1>5. /\ FramesArrive' /\ ValidIsIntact'
        /\ SplitFrames(p) = <<p>> /\ SplitFrames(p) \in Seq(Seq(Nat)) /\ Capture(src, p)
    BY <1>3, <1>4, OnePieceArrives
  <1>6. src \in wifi_cut'
    BY <1>3, <1>4, <1>5, CapturedOne
  <1>7. TypeOK'
    BY <1>4, <1>5, <1>6, TypeStep
  <1>8. RestOK'
    BY <1>3, <1>4, RestStep
  <1> QED
    BY <1>5, <1>7, <1>8 DEF IInv

\* What a step SendRest keeps, and that it shows nothing.
LEMMA SendRestStep ==
    ASSUME IInv, NEW src \in Sources, SendRest(src)
    PROVE  /\ IInv' /\ FramesArrive' /\ ValidIsIntact'
           /\ \A i \in DOMAIN records' : records'[i].shown = REDACTED
  <1> DEFINE p == rest[src]
  <1>1. /\ TypeOK /\ RestOK /\ rest \in [Sources -> Seq(Nat)] /\ src \in wifi_cut
        /\ p \in Seq(Nat) /\ p # <<>> /\ \A i \in 1..Len(p) : p[i] # HEADER
        /\ sent' = <<>> /\ damage' = None
        /\ rest' = [rest EXCEPT ![src] = <<>>] /\ Arrive(src, p)
    BY DEF IInv, RestOK, TypeOK, SendRest
  <1> HIDE DEF p
  <1>2. 1 \in 1..Len(p) /\ Len(p) \in Nat
    BY <1>1, EmptySeq
  <1>3. ~ IsFrame(p) /\ Bad(p)
    BY <1>1, <1>2 DEF IsFrame, Bad
  <1>4. NextAt(p, 1) = 0
    <2> DEFINE d == DeclaredAt(p, 1)
    <2>1. d \in Nat
      BY <1>1, <1>2 DEF DeclaredAt
    <2> HIDE DEF d
    <2>2. ~ Splits(p, 1, d)
      <3>1. SUFFICES ASSUME 1 + d <= Len(p) PROVE p[1 + d] # HEADER
        BY DEF Splits
      <3>2. 1 + d \in 1..Len(p)
        BY <1>2, <2>1, <3>1
      <3> QED
        BY <1>1, <3>2
    <2> QED
      BY <2>2 DEF NextAt, d
  <1>5. /\ FramesArrive' /\ ValidIsIntact'
        /\ SplitFrames(p) = <<p>> /\ SplitFrames(p) \in Seq(Seq(Nat)) /\ Capture(src, p)
    BY <1>1, <1>3, <1>4, OnePieceArrives
  <1>6. \A i \in DOMAIN records' : records'[i].shown = REDACTED
    BY <1>1, <1>3, <1>5, CapturedOne
  <1>7. TypeOK'
    BY <1>1, <1>5, TypeStep
  <1>8. RestOK'
    <2>1. <<>> \in Seq(Nat) /\ \A i \in 1..Len(<<>>) : <<>>[i] # HEADER
      OBVIOUS
    <2> QED
      BY <1>1, <2>1, RestStep
  <1> QED
    BY <1>5, <1>6, <1>7, <1>8 DEF IInv

-----------------------------------------------------------------------------
(* The theorems about the specification.                                   *)

\* The initial states.
LEMMA Initially == Init => IInv /\ FramesArrive /\ ValidIsIntact
  <1> SUFFICES ASSUME Init PROVE IInv /\ FramesArrive /\ ValidIsIntact
    OBVIOUS
  <1>1. IInv
    <2>1. \A s \in Sources : rest[s] = <<>>
      BY DEF Init
    <2>2. RestOK
      BY <2>1 DEF Init, RestOK
    <2> QED
      BY <2>1, <2>2 DEF Init, IInv, TypeOK
  <1>2. FlattenSeq(<<>>) = <<>>
    BY DEF FlattenSeq
  <1>3. FramesArrive
    <2>1. [i \in DOMAIN sent |-> IF ComesThrough(i, {}) THEN Heard(sent[i]) ELSE <<>>] = <<>>
      BY DEF Init
    <2>2. {} \in SUBSET TakenAlong /\ handled = <<>>
      BY DEF Init
    <2> QED
      BY <1>2, <2>1, <2>2 DEF FramesArrive
  <1>4. ValidIsIntact
    <2>1. [i \in DOMAIN sent |->
             IF ComesThrough(i, {}) THEN <<SerialAndCommand(sent[i])>> ELSE <<>>] = <<>>
      BY DEF Init
    <2>2. {} \in SUBSET TakenAlong
      OBVIOUS
    <2>3. [i \in DOMAIN records |-> ValidRecord(records[i])] = <<>>
      BY DEF Init
    <2> QED
      BY <1>2, <2>1, <2>2, <2>3 DEF ValidIsIntact
  <1> QED
    BY <1>1, <1>3, <1>4

\* Every step.
LEMMA StepKeeps ==
    IInv /\ FramesArrive /\ ValidIsIntact /\ [Next]_vars
      => IInv' /\ FramesArrive' /\ ValidIsIntact'
  <1> SUFFICES ASSUME IInv, FramesArrive, ValidIsIntact, [Next]_vars
               PROVE  IInv' /\ FramesArrive' /\ ValidIsIntact'
    OBVIOUS
  <1>1. CASE Settle
    BY <1>1, SettleStep
  <1>2. ASSUME NEW src \in Sources, Send(src) PROVE IInv' /\ FramesArrive' /\ ValidIsIntact'
    BY <1>2, SendStep
  <1>3. ASSUME NEW src \in Sources, Cut(src) PROVE IInv' /\ FramesArrive' /\ ValidIsIntact'
    BY <1>3, CutStep
  <1>4. ASSUME NEW src \in Sources, SendRest(src)
        PROVE  IInv' /\ FramesArrive' /\ ValidIsIntact'
    BY <1>4, SendRestStep
  <1>5. CASE UNCHANGED vars
    <2>1. IInv'
      BY <1>5 DEF vars, IInv, TypeOK, RestOK
    <2>2. FramesArrive'
      BY <1>5 DEF vars, FramesArrive, TakenAlong, ComesThrough
    <2>3. ValidIsIntact'
      BY <1>5 DEF vars, ValidIsIntact, TakenAlong, ComesThrough
    <2> QED
      BY <2>1, <2>2, <2>3
  <1> QED
    BY <1>1, <1>2, <1>3, <1>4, <1>5 DEF Next

\* Whatever sources send, and however it arrives: a serial is learned with its port, and
\* whoever owes a remainder is remembered (tools/capture.py:71-114).
THEOREM CaptureTypes == Spec => []TypeOK
  <1>1. IInv /\ FramesArrive /\ ValidIsIntact => TypeOK
    BY DEF IInv
  <1> QED
    BY Initially, StepKeeps, <1>1, PTL DEF Spec

\* For frames of any number, length and content, and damage to any cell: the listener
\* handles every frame that is not damaged itself, in order and with its payload, and no
\* other, but for those that a damaged envelope takes along (protocol.py:42-52,
\* data_types.py:327-358).
THEOREM FramesAlwaysArrive == Spec => []FramesArrive
  BY Initially, StepKeeps, PTL DEF Spec

\* The same of what the capture tool records as valid (tools/capture.py:85-114).
THEOREM ValidIsAlwaysIntact == Spec => []ValidIsIntact
  BY Initially, StepKeeps, PTL DEF Spec

\* Whatever other sources send between the two parts of a Wi-Fi reply that was cut short,
\* nothing of the second one is shown (tools/capture.py:73-80).
THEOREM RemainderStaysRedacted == Spec => RemainderIsRedacted
  <1>1. ASSUME IInv, [Next]_vars, NEW s \in Sources, rest[s] # <<>>, rest'[s] = <<>>
        PROVE  \A i \in DOMAIN records' : records'[i].shown = REDACTED
    <2>1. rest \in [Sources -> Seq(Nat)]
      BY <1>1 DEF IInv, RestOK
    <2>2. CASE Settle \/ UNCHANGED vars
      BY <1>1, <2>2 DEF Settle, vars
    <2>3. ASSUME NEW src \in Sources, Send(src) PROVE FALSE
      BY <1>1, <2>3 DEF Send
    <2>4. ASSUME NEW src \in Sources, Cut(src) PROVE FALSE
      <3>1. rest[src] = <<>> /\ \E x : rest' = [rest EXCEPT ![src] = x]
        BY <2>4 DEF Cut
      <3>2. s # src
        BY <1>1, <3>1
      <3>3. rest'[s] = rest[s]
        BY <2>1, <3>1, <3>2
      <3> QED
        BY <1>1, <3>3
    <2>5. ASSUME NEW src \in Sources, SendRest(src)
          PROVE  \A i \in DOMAIN records' : records'[i].shown = REDACTED
      BY <1>1, <2>5, SendRestStep
    <2> QED
      BY <1>1, <2>2, <2>3, <2>4, <2>5 DEF Next
  <1>2. IInv /\ [Next]_vars =>
          [\A s \in Sources : rest[s] # <<>> /\ rest'[s] = <<>> =>
              \A i \in DOMAIN records' : records'[i].shown = REDACTED]_vars
    BY <1>1
  <1>3. IInv /\ FramesArrive /\ ValidIsIntact => IInv
    OBVIOUS
  <1> QED
    BY Initially, StepKeeps, <1>2, <1>3, PTL DEF Spec, RemainderIsRedacted
=============================================================================
