------------------------- MODULE PolicyQueue_proofs -------------------------
(***************************************************************************)
(* The pending set is dispatched in the order that the policies document,   *)
(* for every set of tasks, every batch size and every width of the scores   *)
(* and members that holds the submission times, and weighted fair queuing   *)
(* is fair.                                                                 *)
(*                                                                          *)
(* The argument about the order has three parts: zero-padded numbers sort   *)
(* as the numbers do, scores and members together are a linear order that   *)
(* extends the documented one, and a dispatch takes an initial segment of   *)
(* that order.                                                              *)
(***************************************************************************)
EXTENDS PolicyQueue, FiniteSetTheorems, FunctionTheorems, SequenceTheorems, TLAPS

-----------------------------------------------------------------------------
(***************************************************************************)
(* Induction, with sets instead of predicates.                              *)
(***************************************************************************)
LEMMA SmallestNat ==
  ASSUME NEW S \in SUBSET Nat, S # {}
  PROVE  \E m \in S : \A n \in S : m <= n
<1> DEFINE R == {ss \in Nat \X Nat : ss[1] < ss[2]}
<1>1. IsWellFoundedOn(R, Nat)
  BY NatLessThanWellFounded DEF OpToRel
<1> HIDE DEF R
<1>2. PICK m \in S : \A n \in S : <<n, m>> \notin R
  BY <1>1, WFMin
<1>3. ASSUME NEW n \in S PROVE m <= n
  <2>1. m \in Nat /\ n \in Nat /\ ~(n < m)
    BY <1>2 DEF R
  <2> QED
    BY <2>1
<1> QED
  BY <1>3

LEMMA Induction ==
  ASSUME NEW S \in SUBSET Nat, 0 \in S, \A n \in S : n + 1 \in S
  PROVE  S = Nat
<1> SUFFICES ASSUME Nat \ S # {} PROVE FALSE
  OBVIOUS
<1>1. PICK m \in Nat \ S : \A n \in Nat \ S : m <= n
  BY SmallestNat
<1>2. m - 1 \in Nat /\ m - 1 \in S
  BY <1>1
<1>3. m - 1 + 1 \in S
  BY <1>2
<1> QED
  BY <1>1, <1>3

\* A nonempty finite set of integers has a largest member.
LEMMA LargestMember ==
  ASSUME NEW S \in SUBSET Int, IsFiniteSet(S), S # {}
  PROVE  \E m \in S : \A n \in S : n <= m
<1> DEFINE Bad == {T \in SUBSET S : T # {} /\ ~\E m \in T : \A n \in T : n <= m}
           Sizes == {c \in Nat : \E T \in Bad : Cardinality(T) = c}
<1>1. \A T \in SUBSET S : IsFiniteSet(T) /\ Cardinality(T) \in Nat
  BY FS_Subset, FS_CardinalityType
<1> SUFFICES ASSUME Bad # {} PROVE FALSE
  OBVIOUS
<1>2. PICK c \in Sizes : \A d \in Sizes : c <= d
  <2>1. Sizes # {} /\ Sizes \in SUBSET Nat
    BY <1>1
  <2> HIDE DEF Sizes
  <2> QED
    BY <2>1, SmallestNat
<1>3. PICK T \in Bad : Cardinality(T) = c
  BY <1>2
<1>4. PICK x \in T : TRUE
  BY <1>3
<1> DEFINE U == T \ {x}
<1>5. U \in SUBSET S /\ Cardinality(U) = c - 1 /\ c \in Nat
  BY <1>1, <1>2, <1>3, FS_RemoveElement
<1>6. U \notin Bad
  <2> SUFFICES ASSUME U \in Bad PROVE FALSE
    OBVIOUS
  <2>1. Cardinality(U) \in Sizes
    BY <1>1, <1>5
  <2>2. c <= Cardinality(U)
    BY <1>2, <2>1
  <2> QED
    BY <1>5, <2>2
<1>7. CASE U = {}
  BY <1>3, <1>4, <1>7
<1>8. CASE U # {}
  <2>1. PICK m \in U : \A n \in U : n <= m
    BY <1>5, <1>6, <1>8
  <2>2. m \in Int /\ x \in Int /\ m \in T /\ x \in T /\ T \subseteq Int
    BY <1>3, <1>4
  <2>3. CASE x <= m
    BY <1>3, <2>1, <2>2, <2>3
  <2>4. CASE m < x
    <3>1. \A n \in T : n <= x
      BY <2>1, <2>2, <2>4
    <3> QED
      BY <1>3, <2>2, <3>1
  <2> QED
    BY <2>2, <2>3, <2>4
<1> QED
  BY <1>7, <1>8

-----------------------------------------------------------------------------
(***************************************************************************)
(* Powers of the base.                                                      *)
(***************************************************************************)
LEMMA BaseNat == Base \in Nat /\ Base > 1 /\ Width \in Nat
BY ScoreAssumption

\* The first values of Power.
Prefix(g, n) ==
  /\ g \in [0 .. n -> Nat]
  /\ \A i \in 0 .. n : g[i] = IF i = 0 THEN 1 ELSE Base * g[i - 1]

LEMMA PrefixesExist == \A n \in Nat : \E g : Prefix(g, n)
<1> DEFINE S == {n \in Nat : \E g : Prefix(g, n)}
<1>1. 0 \in S
  <2>1. Prefix([i \in 0 .. 0 |-> 1], 0)
    BY DEF Prefix
  <2> QED
    BY <2>1
<1>2. ASSUME NEW n \in S PROVE n + 1 \in S
  <2>1. PICK g : Prefix(g, n)
    OBVIOUS
  <2> DEFINE h == [i \in 0 .. n + 1 |-> IF i = n + 1 THEN Base * g[n] ELSE g[i]]
  <2>2. n \in Nat /\ \A i \in 0 .. n : g[i] \in Nat
    BY <2>1 DEF Prefix
  <2>3. Base * g[n] \in Nat
    BY <2>2, BaseNat
  <2>4. h \in [0 .. n + 1 -> Nat]
    BY <2>2, <2>3
  <2>5. ASSUME NEW i \in 0 .. n + 1
        PROVE  h[i] = IF i = 0 THEN 1 ELSE Base * h[i - 1]
    <3>1. CASE i = n + 1
      BY <2>2, <3>1
    <3>2. CASE i # n + 1
      <4>1. i \in 0 .. n /\ (i # 0 => i - 1 \in 0 .. n)
        BY <2>2, <3>2
      <4> QED
        BY <2>1, <2>2, <3>2, <4>1 DEF Prefix
    <3> QED
      BY <3>1, <3>2
  <2>6. Prefix(h, n + 1)
    BY <2>4, <2>5 DEF Prefix
  <2> QED
    BY <2>2, <2>6
<1>3. S = Nat
  <2> HIDE DEF S
  <2>1. S \in SUBSET Nat
    BY DEF S
  <2> QED
    BY <1>1, <1>2, <2>1, Induction
<1> QED
  BY <1>3

LEMMA PrefixesAgree ==
  ASSUME NEW n \in Nat, NEW m \in Nat, n <= m, NEW g, Prefix(g, n), NEW h, Prefix(h, m)
  PROVE  g[n] = h[n]
<1> DEFINE S == {i \in Nat : i <= n => g[i] = h[i]}
<1>1. 0 \in S
  BY DEF Prefix
<1>2. ASSUME NEW i \in S PROVE i + 1 \in S
  <2>1. CASE i + 1 <= n
    <3>1. i \in Nat /\ i + 1 \in 0 .. n /\ i + 1 \in 0 .. m /\ i + 1 # 0 /\ i + 1 - 1 = i
      BY <2>1
    <3>2. g[i + 1] = Base * g[i] /\ h[i + 1] = Base * h[i]
      BY <3>1 DEF Prefix
    <3> QED
      BY <2>1, <3>1, <3>2
  <2> QED
    BY <2>1
<1>3. S = Nat
  <2> HIDE DEF S
  <2>1. S \in SUBSET Nat
    BY DEF S
  <2> QED
    BY <1>1, <1>2, <2>1, Induction
<1> QED
  BY <1>3

LEMMA PowerLaw ==
  /\ Power[0] = 1
  /\ \A i \in Nat : Power[i] \in Nat /\ Power[i + 1] = Base * Power[i]
<1> DEFINE pre == [n \in Nat |-> CHOOSE g : Prefix(g, n)]
           f == [n \in Nat |-> pre[n][n]]
<1>1. \A n \in Nat : Prefix(pre[n], n)
  BY PrefixesExist
<1> HIDE DEF pre
<1>2. ASSUME NEW i \in Nat PROVE f[i] \in Nat /\ f[i] = IF i = 0 THEN 1 ELSE Base * f[i - 1]
  <2>1. Prefix(pre[i], i)
    BY <1>1
  <2>2. CASE i = 0
    BY <2>1, <2>2 DEF Prefix
  <2>3. CASE i # 0
    <3>1. i - 1 \in Nat /\ i - 1 <= i /\ Prefix(pre[i - 1], i - 1)
      BY <1>1, <2>3
    <3>2. pre[i - 1][i - 1] = pre[i][i - 1]
      BY <2>1, <3>1, PrefixesAgree
    <3>3. pre[i][i] = Base * pre[i][i - 1] /\ pre[i][i] \in Nat
      BY <2>1, <2>3 DEF Prefix
    <3> QED
      BY <2>3, <3>1, <3>2, <3>3
  <2> QED
    BY <2>2, <2>3
<1>3. f = [i \in Nat |-> IF i = 0 THEN 1 ELSE Base * f[i - 1]]
  BY <1>2
<1>4. \E h : h = [i \in Nat |-> IF i = 0 THEN 1 ELSE Base * h[i - 1]]
  <2> HIDE DEF f
  <2> QED
    BY <1>3
<1>5. Power = [i \in Nat |-> IF i = 0 THEN 1 ELSE Base * Power[i - 1]]
  BY <1>4 DEF Power
<1> HIDE DEF f
<1>6. Power[0] = 1 /\ \A i \in Nat : Power[i + 1] = Base * Power[i]
  <2>1. Power[0] = 1
    BY <1>5
  <2>2. ASSUME NEW i \in Nat PROVE Power[i + 1] = Base * Power[i]
    <3>1. i + 1 \in Nat /\ i + 1 # 0 /\ i + 1 - 1 = i
      OBVIOUS
    <3>2. Power[i + 1] = IF i + 1 = 0 THEN 1 ELSE Base * Power[i + 1 - 1]
      BY <1>5, <3>1
    <3> QED
      BY <3>1, <3>2
  <2> QED
    BY <2>1, <2>2
<1> DEFINE S == {i \in Nat : Power[i] \in Nat}
<1>7. S = Nat
  <2>1. S \in SUBSET Nat /\ 0 \in S /\ \A i \in S : i + 1 \in S
    BY <1>6, BaseNat
  <2> HIDE DEF S
  <2> QED
    BY <2>1, Induction
<1> QED
  BY <1>6, <1>7

LEMMA PowerMonotone ==
  ASSUME NEW i \in Nat, NEW j \in Nat, i <= j
  PROVE  Power[i] <= Power[j] /\ Power[i] > 0
<1> DEFINE P == {k \in Nat : Power[k] > 0}
           S == {k \in Nat : Power[i] <= Power[i + k]}
<1>1. P = Nat
  <2>1. P \in SUBSET Nat /\ 0 \in P
    BY PowerLaw
  <2>2. ASSUME NEW k \in P PROVE k + 1 \in P
    <3>1. k \in Nat /\ Power[k] \in Nat /\ Power[k] > 0 /\ Power[k + 1] = Base * Power[k]
      BY PowerLaw
    <3>2. Base * Power[k] > 0
      BY <3>1, BaseNat
    <3> QED
      BY <3>1, <3>2
  <2> HIDE DEF P
  <2> QED
    BY <2>1, <2>2, Induction
<1>2. S = Nat
  <2>1. S \in SUBSET Nat /\ 0 \in S
    BY PowerLaw
  <2>2. ASSUME NEW k \in S PROVE k + 1 \in S
    <3>1. /\ k \in Nat /\ i + k \in Nat /\ Power[i] \in Nat /\ Power[i + k] \in Nat
          /\ Power[i] <= Power[i + k] /\ Power[i + k + 1] = Base * Power[i + k]
      BY PowerLaw
    <3>2. Power[i + k] <= Base * Power[i + k]
      BY <3>1, BaseNat
    <3>3. i + k + 1 = i + (k + 1) /\ Base * Power[i + k] \in Nat
      BY <3>1, BaseNat
    <3> QED
      BY <3>1, <3>2, <3>3
  <2> HIDE DEF S
  <2> QED
    BY <2>1, <2>2, Induction
<1>3. j - i \in Nat /\ i + (j - i) = j
  OBVIOUS
<1>4. j - i \in S
  BY <1>2, <1>3
<1> QED
  BY <1>1, <1>3, <1>4

-----------------------------------------------------------------------------
(***************************************************************************)
(* Digits.                                                                  *)
(***************************************************************************)
\* Without its lower digits, a number is its next digit after the higher ones.
LEMMA DigitSplits ==
  ASSUME NEW n \in Nat, NEW i \in Nat
  PROVE  /\ n \div Power[i] \in Nat
         /\ n \div Power[i + 1] \in Nat
         /\ Digit(n, i) \in Nat
         /\ n \div Power[i] = (Base * (n \div Power[i + 1])) + Digit(n, i)
<1> DEFINE p == Power[i]
           q == n \div p
<1>1. p \in Nat /\ p > 0 /\ Power[i + 1] = Base * p
  BY PowerLaw, PowerMonotone
<1> HIDE DEF p
<1>2. q \in Nat
  BY <1>1
<1>3. n \div (Base * p) = q \div Base
  BY <1>1, BaseNat
<1> HIDE DEF q
<1>4. q \div Base \in Nat /\ q % Base \in Nat /\ q = (Base * (q \div Base)) + (q % Base)
  BY <1>2, BaseNat
<1>5. Digit(n, i) = q % Base
  BY DEF Digit, p, q
<1> QED
  BY <1>1, <1>2, <1>3, <1>4, <1>5 DEF q, p

\* The first digit in which two numbers differ decides which is smaller.
LEMMA DigitsDecide ==
  ASSUME NEW a \in Nat, NEW b \in Nat, a < b, NEW w \in Nat, b < Power[w]
  PROVE  \E i \in 0 .. w - 1 :
           /\ Digit(a, i) < Digit(b, i)
           /\ \A j \in i + 1 .. w - 1 : Digit(a, j) = Digit(b, j)
<1> DEFINE Same(k) == a \div Power[k] = b \div Power[k]
           S == {k \in Nat : k <= w /\ \A j \in k .. w : Same(j)}
<1>1. w \in S
  <2>1. Power[w] \in Nat /\ Power[w] > 0
    BY PowerLaw, PowerMonotone
  <2>2. a \div Power[w] = 0 /\ b \div Power[w] = 0
    BY <2>1
  <2> QED
    BY <2>2
<1>2. PICK k \in S : \A l \in S : k <= l
  <2>1. S \in SUBSET Nat /\ S # {}
    BY <1>1
  <2> HIDE DEF S
  <2> QED
    BY <2>1, SmallestNat
<1>3. k # 0
  <2>1. a \div Power[0] = a /\ b \div Power[0] = b
    BY PowerLaw
  <2> QED
    BY <2>1
<1> DEFINE i == k - 1
<1>4. i \in 0 .. w - 1 /\ i + 1 = k /\ i \in Nat /\ i \notin S
  BY <1>2, <1>3
<1>5. ~Same(i) /\ \A j \in i + 1 .. w : Same(j)
  <2>1. \A j \in k .. w : Same(j)
    BY <1>2
  <2>2. ASSUME Same(i) PROVE FALSE
    <3>1. \A j \in i .. w : j = i \/ j \in k .. w
      BY <1>4
    <3>2. i \in S
      BY <1>4, <2>1, <2>2, <3>1
    <3> QED
      BY <1>4, <3>2
  <2> QED
    BY <1>4, <2>1, <2>2
<1>6. Digit(a, i) # Digit(b, i)
  BY <1>4, <1>5, DigitSplits
<1> HIDE DEF i, S
<1>7. ~(Digit(b, i) < Digit(a, i))
  <2> DEFINE p == Power[i]
             q == a \div p
             r == b \div p
  <2>1. p \in Nat /\ p > 0
    BY <1>4, PowerLaw, PowerMonotone
  <2>2. a \div p <= b \div p
    <3> HIDE DEF p
    <3> QED
      BY <2>1
  <2>3. /\ q \in Nat /\ q = (Base * (a \div Power[i + 1])) + Digit(a, i) /\ Digit(a, i) \in Nat
        /\ r \in Nat /\ r = (Base * (b \div Power[i + 1])) + Digit(b, i) /\ Digit(b, i) \in Nat
        /\ a \div Power[i + 1] \in Nat
    BY <1>4, DigitSplits
  <2>4. a \div Power[i + 1] = b \div Power[i + 1]
    BY <1>4, <1>5
  <2>5. Base * (a \div Power[i + 1]) \in Int
    BY <2>3, BaseNat
  <2> QED
    BY <2>2, <2>3, <2>4, <2>5
<1>8. Digit(a, i) \in Nat /\ Digit(b, i) \in Nat
  BY <1>4, DigitSplits
<1>9. ASSUME NEW j \in i + 1 .. w - 1 PROVE Digit(a, j) = Digit(b, j)
  <2>1. j \in Nat /\ Same(j) /\ Same(j + 1)
    BY <1>4, <1>5
  <2> QED
    BY <2>1 DEF Digit
<1> QED
  BY <1>4, <1>6, <1>7, <1>8, <1>9

-----------------------------------------------------------------------------
(***************************************************************************)
(* Members.                                                                 *)
(***************************************************************************)
LEMMA TaskFields ==
  ASSUME NEW t \in Task
  PROVE  /\ t.id \in Nat /\ t.submitted \in Nat /\ t.submitted < Power[Width]
         /\ t.submitted > 0 /\ t.submitted < BandWidth /\ BandWidth \in Nat
         /\ t.priority \in Nat /\ t.priority <= MaxPriority /\ MaxPriority \in Nat
         /\ t.deadline \in Nat /\ t.deadline < NoDeadlineScore /\ NoDeadlineScore \in Nat
         /\ t.exec \in Nat
BY ScoreAssumption

\* The padding is as wide as the longest number.
LEMMA MemberShape ==
  ASSUME NEW t \in Task
  PROVE  /\ Member[t] \in [1 .. Width + 1 -> Nat]
         /\ \A i \in 1 .. Width : Member[t][i] = Digit(t.submitted, Width - i)
         /\ Member[t][Width + 1] = t.id
<1> DEFINE n == t.submitted
           Fits(l) == n < Power[l] /\ (l > Width => n >= Power[l - 1])
           len == CHOOSE l \in Width .. (Width + n) : Fits(l)
           digits == [i \in 1 .. Width |-> Digit(n, Width - i)]
<1>1. n \in Nat /\ n < Power[Width] /\ Width \in Nat /\ t.id \in Nat
  BY TaskFields, BaseNat
<1>2. Width \in Width .. (Width + n) /\ Fits(Width)
  BY <1>1
<1>3. ASSUME NEW l \in Width .. (Width + n), Fits(l) PROVE l = Width
  <2> SUFFICES ASSUME l > Width PROVE FALSE
    BY <1>1
  <2>1. l - 1 \in Nat /\ Width <= l - 1 /\ n >= Power[l - 1]
    BY <1>1, <1>3
  <2>2. Power[Width] <= Power[l - 1] /\ Power[Width] \in Nat /\ Power[l - 1] \in Nat
    BY <1>1, <2>1, PowerMonotone, PowerLaw
  <2> QED
    BY <1>1, <2>1, <2>2
<1> HIDE DEF Fits
<1>4. len = Width
  BY <1>2, <1>3
<1>5. Member[t] = [i \in 1 .. len |-> Digit(n, len - i)] \o <<t.id>>
  BY DEF Member, MemberFor, Fits
<1> HIDE DEF len
<1>6. Member[t] = digits \o <<t.id>>
  BY <1>4, <1>5
<1>7. ASSUME NEW i \in 1 .. Width PROVE Digit(n, Width - i) \in Nat
  <2>1. Width - i \in Nat
    BY <1>1
  <2> QED
    BY <1>1, <2>1, DigitSplits
<1>8. digits \in Seq(Nat) /\ Len(digits) = Width
  BY <1>1, <1>7
<1>9. \A i \in 1 .. Width : digits[i] = Digit(n, Width - i)
  OBVIOUS
<1> HIDE DEF digits
<1>10. <<t.id>> \in Seq(Nat) /\ Len(<<t.id>>) = 1 /\ <<t.id>>[1] = t.id
  BY <1>1
<1>11. /\ digits \o <<t.id>> \in Seq(Nat)
       /\ Len(digits \o <<t.id>>) = Width + 1
       /\ \A i \in 1 .. Width + 1 : (digits \o <<t.id>>)[i] =
                                       IF i <= Width THEN digits[i] ELSE <<t.id>>[i - Width]
  BY <1>1, <1>8, <1>10, ConcatProperties
<1>12. Width + 1 \in 1 .. Width + 1 /\ ~(Width + 1 <= Width) /\ Width + 1 - Width = 1
  BY <1>1
<1>13. (digits \o <<t.id>>)[Width + 1] = t.id
  BY <1>10, <1>11, <1>12
<1>14. digits \o <<t.id>> \in [1 .. Width + 1 -> Nat]
  <2> DEFINE m == digits \o <<t.id>>
  <2>1. m \in Seq(Nat) /\ Len(m) = Width + 1
    BY <1>11
  <2> HIDE DEF m
  <2>2. m \in [1 .. Len(m) -> Nat]
    BY <2>1, LenProperties, ElementOfSeq
  <2>3. m \in [1 .. Width + 1 -> Nat]
    BY <2>1, <2>2
  <2> QED
    BY <2>3 DEF m
<1>15. \A i \in 1 .. Width : (digits \o <<t.id>>)[i] = Digit(n, Width - i)
  BY <1>1, <1>9, <1>11
<1> QED
  BY <1>6, <1>13, <1>14, <1>15

\* Members sort by submission time, then by ID.
LEMMA MembersSort ==
  ASSUME NEW t \in Task, NEW u \in Task, Earlier(t, u)
  PROVE  MemberLess(Member[t], Member[u])
<1> DEFINE a == Member[t]
           b == Member[u]
<1>1. /\ a \in [1 .. Width + 1 -> Nat] /\ b \in [1 .. Width + 1 -> Nat]
      /\ \A i \in 1 .. Width : a[i] = Digit(t.submitted, Width - i) /\ b[i] = Digit(u.submitted, Width - i)
      /\ a[Width + 1] = t.id /\ b[Width + 1] = u.id
  BY MemberShape
<1>2. Width \in Nat /\ t.submitted \in Nat /\ u.submitted \in Nat /\ u.submitted < Power[Width]
  BY TaskFields, BaseNat
<1> HIDE DEF a, b
<1> DEFINE Decides(i) == a[i] < b[i] /\ \A j \in 1 .. (i - 1) : a[j] = b[j]
<1> SUFFICES \E i \in 1 .. Width + 1 : Decides(i)
  BY <1>1 DEF MemberLess, a, b
<1>3. CASE t.submitted < u.submitted
  <2>1. PICK k \in 0 .. Width - 1 :
               /\ Digit(t.submitted, k) < Digit(u.submitted, k)
               /\ \A j \in k + 1 .. Width - 1 : Digit(t.submitted, j) = Digit(u.submitted, j)
    BY <1>2, <1>3, DigitsDecide
  <2> DEFINE i == Width - k
  <2>2. i \in 1 .. Width /\ i \in 1 .. Width + 1 /\ Width - i = k
    BY <1>2
  <2>3. a[i] < b[i]
    BY <1>1, <2>1, <2>2
  <2>4. ASSUME NEW j \in 1 .. (i - 1) PROVE a[j] = b[j]
    <3>1. j \in 1 .. Width /\ Width - j \in k + 1 .. Width - 1
      BY <1>2
    <3> QED
      BY <1>1, <2>1, <3>1
  <2> QED
    BY <2>2, <2>3, <2>4
<1>4. CASE t.submitted = u.submitted /\ t.id < u.id
  <2>1. PICK m \in 1 .. Width + 1 : m = Width + 1
    BY <1>2
  <2>2. a[m] < b[m]
    BY <1>1, <1>4, <2>1
  <2>3. \A j \in 1 .. (m - 1) : j \in 1 .. Width
    BY <1>2, <2>1
  <2>4. \A j \in 1 .. (m - 1) : a[j] = b[j]
    BY <1>1, <1>4, <2>3
  <2> QED
    BY <2>2, <2>4
<1> QED
  BY <1>3, <1>4 DEF Earlier

\* Byte order is a strict order.
LEMMA MemberLessIrreflexive ==
  ASSUME NEW n \in Nat, NEW a \in [1 .. n -> Nat]
  PROVE  ~MemberLess(a, a)
BY DEF MemberLess

LEMMA MemberLessTransitive ==
  ASSUME NEW n \in Nat, NEW a \in [1 .. n -> Nat], NEW b \in [1 .. n -> Nat], NEW c \in [1 .. n -> Nat],
         MemberLess(a, b), MemberLess(b, c)
  PROVE  MemberLess(a, c)
<1>1. PICK i \in 1 .. n : a[i] < b[i] /\ \A j \in 1 .. (i - 1) : a[j] = b[j]
  BY DEF MemberLess
<1>2. PICK k \in 1 .. n : b[k] < c[k] /\ \A j \in 1 .. (k - 1) : b[j] = c[j]
  BY DEF MemberLess
<1> DEFINE First(m) == m \in 1 .. n /\ a[m] < c[m] /\ \A j \in 1 .. (m - 1) : a[j] = c[j]
<1>3. CASE i < k
  <2>1. i \in 1 .. (k - 1) /\ b[i] = c[i]
    BY <1>2, <1>3
  <2>2. \A j \in 1 .. (i - 1) : j \in 1 .. (k - 1)
    BY <1>3
  <2>3. First(i)
    BY <1>1, <1>2, <2>1, <2>2
  <2> QED
    BY <2>3 DEF MemberLess
<1>4. CASE k < i
  <2>1. k \in 1 .. (i - 1) /\ a[k] = b[k]
    BY <1>1, <1>4
  <2>2. \A j \in 1 .. (k - 1) : j \in 1 .. (i - 1)
    BY <1>4
  <2>3. First(k)
    BY <1>1, <1>2, <2>1, <2>2
  <2> QED
    BY <2>3 DEF MemberLess
<1>5. CASE k = i
  <2>1. First(i)
    BY <1>1, <1>2, <1>5
  <2> QED
    BY <2>1 DEF MemberLess
<1> QED
  BY <1>3, <1>4, <1>5

-----------------------------------------------------------------------------
(***************************************************************************)
(* The inductive invariant: what the scores of pending tasks and the tags   *)
(* of admit calls under way are.                                            *)
(***************************************************************************)
SavedState == [vtime : Int, finish : [Tenant -> Int]]

Call == [task : Task, tag : Int]

OrderInv ==
  /\ policy \in Names
  /\ virtualTime \in Int
  /\ lastFinish \in [Tenant -> Int]
  /\ saved = NoState \/ saved \in SavedState
  /\ flushing = NoState \/ flushing \in SavedState
  /\ ranked \subseteq Call
  /\ Pending \subseteq Task
  /\ pending \in [Pending -> Int]
  /\ unnotified \subseteq Int /\ IsFiniteSet(unnotified)
  /\ policy # "wfq" => /\ \A t \in Pending : pending[t] = Score(t)
                       /\ \A r \in ranked : r.tag = Score(r.task)

-----------------------------------------------------------------------------
(***************************************************************************)
(* The order of the pending set.                                            *)
(***************************************************************************)
LEMMA EarlierTotal ==
  ASSUME NEW t \in Task, NEW u \in Task, t # u
  PROVE  Earlier(t, u) \/ Earlier(u, t)
<1>1. t.id # u.id
  BY ScoreAssumption
<1> QED
  BY <1>1, TaskFields DEF Earlier

LEMMA PendingFacts ==
  ASSUME OrderInv, NEW t \in Pending
  PROVE  /\ t \in Task /\ pending[t] \in Int /\ Member[t] \in [1 .. Width + 1 -> Nat]
         /\ Width + 1 \in Nat
BY MemberShape, BaseNat DEF OrderInv

LEMMA PrecedesMeans ==
  ASSUME NEW t, NEW u
  PROVE  Precedes(t, u) <=> \/ pending[t] < pending[u]
                            \/ pending[t] = pending[u] /\ MemberLess(Member[t], Member[u])
BY DEF Precedes, Less, KeyOf

LEMMA PrecedesIrreflexive ==
  ASSUME OrderInv, NEW t \in Pending
  PROVE  ~Precedes(t, t)
BY PendingFacts, PrecedesMeans, MemberLessIrreflexive

LEMMA PrecedesTransitive ==
  ASSUME OrderInv, NEW t \in Pending, NEW u \in Pending, NEW v \in Pending,
         Precedes(t, u), Precedes(u, v)
  PROVE  Precedes(t, v)
<1>1. /\ pending[t] \in Int /\ pending[u] \in Int /\ pending[v] \in Int /\ Width + 1 \in Nat
      /\ Member[t] \in [1 .. Width + 1 -> Nat] /\ Member[u] \in [1 .. Width + 1 -> Nat]
      /\ Member[v] \in [1 .. Width + 1 -> Nat]
  BY PendingFacts
<1>2. CASE pending[t] < pending[u] \/ pending[u] < pending[v]
  BY <1>1, <1>2, PrecedesMeans
<1>3. CASE ~(pending[t] < pending[u]) /\ ~(pending[u] < pending[v])
  <2>1. /\ pending[t] = pending[u] /\ MemberLess(Member[t], Member[u])
        /\ pending[u] = pending[v] /\ MemberLess(Member[u], Member[v])
    BY <1>3, PrecedesMeans
  <2>2. MemberLess(Member[t], Member[v])
    BY <1>1, <2>1, MemberLessTransitive
  <2> QED
    BY <2>1, <2>2, PrecedesMeans
<1> QED
  BY <1>2, <1>3

LEMMA PrecedesTotal ==
  ASSUME OrderInv, NEW t \in Pending, NEW u \in Pending, t # u
  PROVE  Precedes(t, u) \/ Precedes(u, t)
<1>1. t \in Task /\ u \in Task /\ pending[t] \in Int /\ pending[u] \in Int
  BY PendingFacts
<1>2. CASE pending[t] = pending[u]
  <2>1. MemberLess(Member[t], Member[u]) \/ MemberLess(Member[u], Member[t])
    BY <1>1, EarlierTotal, MembersSort
  <2> QED
    BY <1>2, <2>1, PrecedesMeans
<1>3. CASE pending[t] # pending[u]
  BY <1>1, <1>3, PrecedesMeans
<1> QED
  BY <1>2, <1>3

\* The packed scores and members sort as the policies document.
LEMMA RightfulPrecedes ==
  ASSUME OrderInv, policy # "wfq", NEW t \in Pending, NEW u \in Pending, Rightful(t, u)
  PROVE  Precedes(t, u)
<1>1. t \in Task /\ u \in Task /\ pending[t] = Score(t) /\ pending[u] = Score(u)
  BY DEF OrderInv
<1>2. /\ t.submitted \in Nat /\ t.submitted < BandWidth
      /\ u.submitted \in Nat /\ u.submitted < BandWidth /\ u.submitted > 0 /\ BandWidth \in Nat
      /\ t.priority \in Nat /\ t.priority <= MaxPriority
      /\ u.priority \in Nat /\ u.priority <= MaxPriority /\ MaxPriority \in Nat
      /\ t.deadline \in Nat /\ t.deadline < NoDeadlineScore
      /\ u.deadline \in Nat /\ u.deadline < NoDeadlineScore /\ NoDeadlineScore \in Nat
  BY <1>1, TaskFields
<1>3. ASSUME Earlier(t, u) PROVE MemberLess(Member[t], Member[u]) /\ t.submitted <= u.submitted
  BY <1>1, <1>2, <1>3, MembersSort DEF Earlier
<1>4. CASE policy = "fifo"
  <2>1. Earlier(t, u) /\ pending[t] = t.submitted /\ pending[u] = u.submitted
    BY <1>1, <1>4 DEF Rightful, Score, FifoScore
  <2> QED
    BY <1>2, <1>3, <2>1, PrecedesMeans
<1>5. CASE policy = "priority"
  <2> DEFINE x == MaxPriority - t.priority
             y == MaxPriority - u.priority
  <2>1. /\ Outranks(t, u) /\ x \in Nat /\ y \in Nat
        /\ pending[t] = (x * BandWidth) + t.submitted
        /\ pending[u] = (y * BandWidth) + u.submitted
    BY <1>1, <1>2, <1>5 DEF Rightful, Score, PriorityScore
  <2>2. CASE t.priority > u.priority
    <3>1. y >= x + 1
      BY <1>2, <2>2
    <3> HIDE DEF x, y
    <3>2. (y * BandWidth) >= (x * BandWidth) + BandWidth
      <4>1. (x + 1) * BandWidth = (x * BandWidth) + BandWidth
        BY <1>2, <2>1
      <4>2. (y * BandWidth) >= (x + 1) * BandWidth
        BY <1>2, <2>1, <3>1
      <4> QED
        BY <4>1, <4>2
    <3>3. x * BandWidth \in Nat /\ y * BandWidth \in Nat
      BY <1>2, <2>1
    <3>4. pending[t] < pending[u]
      BY <1>2, <2>1, <3>2, <3>3
    <3> QED
      BY <3>4, PrecedesMeans
  <2>3. CASE t.priority = u.priority /\ Earlier(t, u)
    <3>1. x = y /\ x * BandWidth \in Nat
      BY <1>2, <2>1, <2>3
    <3> HIDE DEF x, y
    <3>2. pending[t] <= pending[u] /\ pending[t] \in Int /\ pending[u] \in Int
      BY <1>2, <1>3, <2>1, <2>3, <3>1
    <3> QED
      BY <1>3, <2>3, <3>2, PrecedesMeans
  <2> QED
    BY <2>1, <2>2, <2>3 DEF Outranks
<1>6. CASE policy = "edf"
  <2>1. /\ DueBefore(t, u)
        /\ pending[t] = IF t.deadline = 0 THEN NoDeadlineScore ELSE t.deadline
        /\ pending[u] = IF u.deadline = 0 THEN NoDeadlineScore ELSE u.deadline
    BY <1>1, <1>6 DEF Rightful, Score, EdfScore
  <2>2. CASE t.deadline # 0 /\ u.deadline = 0
    BY <1>2, <2>1, <2>2, PrecedesMeans
  <2>3. CASE t.deadline # 0 /\ u.deadline # 0 /\ t.deadline < u.deadline
    BY <1>2, <2>1, <2>3, PrecedesMeans
  <2>4. CASE t.deadline = u.deadline /\ Earlier(t, u)
    BY <1>3, <2>1, <2>4, PrecedesMeans
  <2> QED
    BY <2>1, <2>2, <2>3, <2>4 DEF DueBefore
<1> QED
  BY <1>4, <1>5, <1>6 DEF OrderInv, Names

\* Of two tasks one comes first.
LEMMA RightfulTotal ==
  ASSUME OrderInv, policy # "wfq", NEW t \in Pending, NEW u \in Pending, t # u
  PROVE  Rightful(t, u) \/ Rightful(u, t)
<1>1. t \in Task /\ u \in Task
  BY DEF OrderInv
<1>2. Earlier(t, u) \/ Earlier(u, t)
  BY <1>1, EarlierTotal
<1>3. CASE policy = "fifo"
  BY <1>2, <1>3 DEF Rightful
<1>4. CASE policy = "priority"
  <2>1. Outranks(t, u) \/ Outranks(u, t)
    BY <1>1, <1>2, TaskFields DEF Outranks
  <2> QED
    BY <1>4, <2>1 DEF Rightful
<1>5. CASE policy = "edf"
  <2>1. DueBefore(t, u) \/ DueBefore(u, t)
    BY <1>1, <1>2, TaskFields DEF DueBefore
  <2> QED
    BY <1>5, <2>1 DEF Rightful
<1> QED
  BY <1>3, <1>4, <1>5 DEF OrderInv, Names

-----------------------------------------------------------------------------
(***************************************************************************)
(* A dispatch takes an initial segment.                                     *)
(***************************************************************************)
Ahead(t) == {u \in Pending : Precedes(u, t)}

LEMMA PendingFinite ==
  ASSUME OrderInv
  PROVE  /\ IsFiniteSet(Pending) /\ Cardinality(Pending) \in Nat
         /\ \A S \in SUBSET Pending : IsFiniteSet(S) /\ Cardinality(S) \in Nat
                                      /\ Cardinality(S) <= Cardinality(Pending)
                                      /\ (Cardinality(S) = Cardinality(Pending) => S = Pending)
<1>1. IsFiniteSet(Task) /\ Pending \in SUBSET Task
  BY ScoreAssumption DEF OrderInv
<1>2. IsFiniteSet(Pending)
  BY <1>1, FS_Subset
<1> QED
  BY <1>2, FS_Subset, FS_CardinalityType

LEMMA RankGrows ==
  ASSUME OrderInv, NEW t \in Pending, NEW u \in Pending, Precedes(t, u)
  PROVE  ZRank(t) < ZRank(u)
<1>1. Ahead(t) \in SUBSET Ahead(u)
  BY PrecedesTransitive DEF Ahead
<1>2. t \in Ahead(u) /\ t \notin Ahead(t)
  BY PrecedesIrreflexive DEF Ahead
<1>3. IsFiniteSet(Ahead(u)) /\ Cardinality(Ahead(u)) \in Nat /\ Cardinality(Ahead(t)) \in Nat
  BY PendingFinite DEF Ahead
<1>4. /\ Cardinality(Ahead(t)) <= Cardinality(Ahead(u))
      /\ Cardinality(Ahead(u)) = Cardinality(Ahead(t)) => Ahead(u) = Ahead(t)
  BY <1>1, <1>3, FS_Subset
<1>5. Cardinality(Ahead(t)) < Cardinality(Ahead(u))
  BY <1>2, <1>3, <1>4
<1> QED
  BY <1>5 DEF ZRank, Ahead

LEMMA RankBounded ==
  ASSUME OrderInv, NEW t \in Pending
  PROVE  ZRank(t) \in 0 .. Cardinality(Pending) - 1
<1>1. Ahead(t) \in SUBSET Pending /\ Ahead(t) # Pending
  BY PrecedesIrreflexive DEF Ahead
<1>2. /\ Cardinality(Pending) \in Nat /\ Cardinality(Ahead(t)) \in Nat
      /\ Cardinality(Ahead(t)) <= Cardinality(Pending)
      /\ Cardinality(Ahead(t)) # Cardinality(Pending)
  BY <1>1, PendingFinite
<1>3. ZRank(t) = Cardinality(Ahead(t))
  BY DEF ZRank, Ahead
<1> QED
  BY <1>2, <1>3

\* No two tasks have the same position, and there is one at every position.
LEMMA RankInjective ==
  ASSUME OrderInv, NEW t \in Pending, NEW u \in Pending, ZRank(t) = ZRank(u)
  PROVE  t = u
<1> SUFFICES ASSUME t # u PROVE FALSE
  OBVIOUS
<1>1. ZRank(t) < ZRank(u) \/ ZRank(u) < ZRank(t)
  BY PrecedesTotal, RankGrows
<1>2. ZRank(t) \in Int /\ ZRank(u) \in Int
  BY RankBounded
<1> QED
  BY <1>1, <1>2

LEMMA RankCovers ==
  ASSUME OrderInv, NEW r \in 0 .. Cardinality(Pending) - 1
  PROVE  \E t \in Pending : ZRank(t) = r
<1> DEFINE n == Cardinality(Pending)
           R == 0 .. n - 1
           f == [t \in Pending |-> ZRank(t)]
<1>1. n \in Nat /\ IsFiniteSet(Pending)
  BY PendingFinite
<1>2. f \in [Pending -> R]
  BY RankBounded
<1>3. f \in Injection(Pending, R)
  BY <1>2, RankInjective DEF Injection, IsInjective
<1>4. IsFiniteSet(R) /\ Cardinality(R) = n
  <2>1. 0 \in Int /\ n - 1 \in Int
    BY <1>1
  <2>2. IsFiniteSet(R) /\ Cardinality(R) = IF 0 > n - 1 THEN 0 ELSE n - 1 - 0 + 1
    BY <2>1, FS_Interval
  <2> QED
    BY <1>1, <2>2
<1> HIDE DEF f, R
<1>5. f \in Surjection(Pending, R)
  BY <1>3, <1>4, FS_Injection
<1>6. PICK t \in Pending : f[t] = r
  BY <1>5 DEF Surjection, R
<1> QED
  BY <1>6 DEF f

LEMMA BatchSizesNat ==
  ASSUME OrderInv, NEW n \in BatchSizes
  PROVE  n \in Nat /\ n <= Cardinality(Pending)
BY PendingFinite, WeightAssumption DEF BatchSizes

\* A batch holds the task of every position below its size, in order.
LEMMA BatchAt ==
  ASSUME OrderInv, NEW n \in BatchSizes, NEW i \in 1 .. n
  PROVE  Batch(n)[i] \in Pending /\ ZRank(Batch(n)[i]) = i - 1
<1>1. i - 1 \in 0 .. Cardinality(Pending) - 1
  BY BatchSizesNat, PendingFinite
<1>2. \E t \in Pending : ZRank(t) = i - 1
  BY <1>1, RankCovers
<1>3. Batch(n)[i] = CHOOSE t \in Pending : ZRank(t) = i - 1
  BY DEF Batch
<1> QED
  BY <1>2, <1>3

LEMMA BatchMembers ==
  ASSUME OrderInv, NEW n \in BatchSizes
  PROVE  Range(Batch(n)) = {t \in Pending : ZRank(t) < n}
<1> DEFINE batch == Batch(n)
<1>1. \A i \in 1 .. n : batch[i] \in Pending /\ ZRank(batch[i]) = i - 1
  BY BatchAt
<1>2. DOMAIN batch = 1 .. n
  BY DEF Batch
<1> HIDE DEF batch
<1>3. ASSUME NEW t \in Range(batch) PROVE t \in Pending /\ ZRank(t) < n
  <2>1. PICK i \in 1 .. n : t = batch[i]
    BY <1>2 DEF Range
  <2> QED
    BY <1>1, <2>1, BatchSizesNat
<1>4. ASSUME NEW t \in Pending, ZRank(t) < n PROVE t \in Range(batch)
  <2> DEFINE i == ZRank(t) + 1
  <2>1. i \in 1 .. n /\ i - 1 = ZRank(t)
    BY <1>4, BatchSizesNat, RankBounded, PendingFinite
  <2>2. batch[i] = t
    BY <1>1, <2>1, RankInjective
  <2> QED
    BY <1>2, <2>1, <2>2 DEF Range
<1>5. Range(batch) = {t \in Pending : ZRank(t) < n}
  BY <1>3, <1>4
<1> QED
  BY <1>5 DEF batch

LEMMA BatchFirst ==
  ASSUME OrderInv, NEW n \in BatchSizes, NEW t \in Range(Batch(n)), NEW u \in Pending \ Range(Batch(n))
  PROVE  Rightful(t, u)
<1>1. t \in Pending /\ ZRank(t) < n /\ ~(ZRank(u) < n) /\ t # u
  BY BatchMembers
<1>2. ZRank(t) \in Int /\ ZRank(u) \in Int /\ n \in Int
  BY <1>1, RankBounded, BatchSizesNat
<1>3. ~Precedes(u, t)
  BY <1>1, <1>2, RankGrows
<1>4. CASE policy = "wfq"
  <2>1. pending[t] \in Int /\ pending[u] \in Int /\ ~(pending[u] < pending[t])
    BY <1>1, <1>3, PendingFacts, PrecedesMeans
  <2> QED
    BY <1>4, <2>1 DEF Rightful
<1>5. CASE policy # "wfq"
  BY <1>1, <1>3, <1>5, RightfulTotal, RightfulPrecedes
<1> QED
  BY <1>4, <1>5

-----------------------------------------------------------------------------
(***************************************************************************)
(* The scores are numbers.                                                  *)
(***************************************************************************)
LEMMA CostNat ==
  ASSUME NEW t \in Task
  PROVE  Cost(t) \in Nat
<1> DEFINE w == Weight(t.tenant)
           c == IF t.exec = 0 THEN 1 ELSE t.exec
<1>1. w \in Nat /\ w > 0 /\ Scale \in Nat /\ c \in Nat
  BY WeightAssumption, TaskFields DEF Weight
<1> HIDE DEF w, c
<1>2. c * Scale \in Nat
  BY <1>1
<1>3. (c * Scale) \div w \in Nat
  <2> DEFINE x == c * Scale
  <2> HIDE DEF x
  <2>1. x \in Nat
    BY <1>2 DEF x
  <2>2. x \div w \in Nat
    BY <1>1, <2>1
  <2> QED
    BY <2>2 DEF x
<1> QED
  BY <1>3 DEF Cost, w, c

LEMMA FinishInt ==
  ASSUME OrderInv, NEW t \in Task
  PROVE  t.tenant \in Tenant /\ Finish(t) \in Int
<1>1. t.tenant \in Tenant
  BY DEF Tenant
<1>2. virtualTime \in Int /\ lastFinish[t.tenant] \in Int
  BY <1>1 DEF OrderInv
<1> QED
  BY <1>1, <1>2, CostNat DEF Finish, Start, MaxOf

LEMMA ScoreInt ==
  ASSUME OrderInv, NEW t \in Task
  PROVE  Score(t) \in Int
<1>1. CASE policy = "fifo"
  BY <1>1, TaskFields DEF Score, FifoScore
<1>2. CASE policy = "priority"
  <2>1. (MaxPriority - t.priority) \in Nat /\ BandWidth \in Nat /\ t.submitted \in Nat
    BY TaskFields
  <2>2. (MaxPriority - t.priority) * BandWidth \in Nat
    BY <2>1
  <2> QED
    BY <1>2, <2>1, <2>2 DEF Score, PriorityScore
<1>3. CASE policy = "edf"
  BY <1>3, TaskFields DEF Score, EdfScore
<1>4. CASE policy = "wfq"
  BY <1>4, FinishInt DEF Score
<1> QED
  BY <1>1, <1>2, <1>3, <1>4 DEF OrderInv, Names

LEMMA ChargeTyped ==
  ASSUME OrderInv, NEW t \in Task, Charge(t)
  PROVE  virtualTime' \in Int /\ lastFinish' \in [Tenant -> Int]
BY FinishInt DEF OrderInv, Charge

-----------------------------------------------------------------------------
(***************************************************************************)
(* Each step keeps the invariant.                                           *)
(***************************************************************************)
\* The score of a stateless policy does not change.
LEMMA ScoreFixed ==
  ASSUME OrderInv, policy' = policy, policy # "wfq", NEW t
  PROVE  Score(t)' = Score(t)
BY DEF OrderInv, Names, Score, FifoScore, PriorityScore, EdfScore

\* A step that does not touch the pending set.
LEMMA QueueSameOrder ==
  ASSUME OrderInv, UNCHANGED <<policy, pending>>,
         virtualTime' \in Int, lastFinish' \in [Tenant -> Int],
         saved' = NoState \/ saved' \in SavedState,
         flushing' = NoState \/ flushing' \in SavedState,
         ranked' \subseteq Call,
         policy # "wfq" => \A r \in ranked' : r.tag = Score(r.task),
         unnotified' \subseteq Int, IsFiniteSet(unnotified')
  PROVE  OrderInv'
<1>1. Pending' = Pending
  BY DEF Pending
<1>2. policy' # "wfq" => /\ \A t \in Pending : pending[t] = Score(t)'
                         /\ \A r \in ranked' : r.tag = Score(r.task)'
  BY ScoreFixed DEF OrderInv
<1> QED
  BY <1>1, <1>2 DEF OrderInv, SavedState, Call

LEMMA RankOrder ==
  ASSUME OrderInv, NEW t \in Task, Rank(t)
  PROVE  OrderInv'
<1> DEFINE c == [task |-> t, tag |-> Score(t)]
<1>1. /\ ranked' = ranked \cup {c} /\ Charge(t)
      /\ UNCHANGED <<policy, flushing, saved, pending, unnotified>>
  BY DEF Rank
<1>2. c \in Call /\ c.tag = Score(c.task)
  BY ScoreInt DEF Call
<1>3. virtualTime' \in Int /\ lastFinish' \in [Tenant -> Int]
  BY <1>1, ChargeTyped
<1> HIDE DEF c
<1> QED
  BY <1>1, <1>2, <1>3, QueueSameOrder DEF OrderInv

LEMMA AdmitOrder ==
  ASSUME OrderInv, NEW r \in ranked, Admit(r)
  PROVE  OrderInv'
<1> DEFINE t == r.task
           P == Pending \cup {t}
<1>1. /\ pending' = [u \in P |-> IF u = t THEN r.tag ELSE pending[u]]
      /\ ranked' = ranked \ {r}
      /\ UNCHANGED <<policy, virtualTime, lastFinish, flushing, saved, unnotified>>
  BY DEF Admit, policyState
<1>2. t \in Task /\ r.tag \in Int /\ (policy # "wfq" => r.tag = Score(t))
  BY DEF OrderInv, Call
<1>3. Pending' = P /\ P \subseteq Task
  BY <1>1, <1>2 DEF Pending, OrderInv
<1>4. pending' \in [P -> Int]
  BY <1>1, <1>2 DEF OrderInv
<1>5. ASSUME policy # "wfq", NEW u \in P PROVE pending'[u] = Score(u)'
  <2>1. pending'[u] = Score(u)
    BY <1>1, <1>2, <1>5 DEF OrderInv
  <2> QED
    BY <1>1, <1>5, <2>1, ScoreFixed
<1>6. ASSUME policy # "wfq", NEW c \in ranked' PROVE c.tag = Score(c.task)'
  BY <1>1, <1>6, ScoreFixed DEF OrderInv
<1> HIDE DEF P, t
<1> QED
  BY <1>1, <1>3, <1>4, <1>5, <1>6 DEF OrderInv, SavedState, Call

LEMMA WastedOrder ==
  ASSUME OrderInv, NEW r \in ranked, Wasted(r)
  PROVE  OrderInv'
BY QueueSameOrder DEF Wasted, OrderInv, policyState

\* What a dispatch pops is gone, and the rest keeps its scores.
LEMMA PoppedOrder ==
  ASSUME OrderInv, NEW n \in BatchSizes, Popped(Batch(n)), unnotified' \subseteq Int, IsFiniteSet(unnotified')
  PROVE  OrderInv'
<1> DEFINE P == Pending \ Range(Batch(n))
<1>1. /\ pending' = [t \in P |-> pending[t]]
      /\ UNCHANGED <<policy, virtualTime, lastFinish, ranked, flushing, saved>>
  BY DEF Popped, policyState
<1>2. Pending' = P /\ P \subseteq Pending
  BY <1>1 DEF Pending
<1>3. pending' \in [P -> Int]
  BY <1>1 DEF OrderInv
<1>4. ASSUME policy # "wfq", NEW t \in P PROVE pending'[t] = Score(t)'
  BY <1>1, <1>4, ScoreFixed DEF OrderInv
<1>5. ASSUME policy # "wfq", NEW r \in ranked PROVE r.tag = Score(r.task)'
  BY <1>1, <1>5, ScoreFixed DEF OrderInv
<1> HIDE DEF P
<1> QED
  BY <1>1, <1>2, <1>3, <1>4, <1>5 DEF OrderInv, SavedState, Call

LEMMA DispatchOrder ==
  ASSUME OrderInv, Dispatch
  PROVE  OrderInv'
<1>0. PICK n \in BatchSizes : Popped(Batch(n)) /\ unnotified' = {pending[t] : t \in Range(Batch(n))}
  BY DEF Dispatch
<1> DEFINE B == Range(Batch(n))
           S == {pending[t] : t \in B}
           f == [t \in B |-> pending[t]]
<1>1. B \in SUBSET Pending /\ IsFiniteSet(B)
  BY BatchMembers, PendingFinite
<1> HIDE DEF B
<1>2. S \subseteq Int
  BY <1>1 DEF OrderInv
<1>3. f \in Surjection(B, S)
  BY DEF Surjection
<1> HIDE DEF f, S
<1>4. IsFiniteSet(S)
  BY <1>1, <1>3, FS_Surjection
<1>5. unnotified' = S /\ Popped(Batch(n))
  BY <1>0 DEF S, B
<1> QED
  BY <1>2, <1>4, <1>5, PoppedOrder

LEMMA NotifyOrder ==
  ASSUME OrderInv, Notify
  PROVE  OrderInv'
<1> DEFINE S == unnotified \cup {virtualTime}
<1>1. S \in SUBSET Int /\ IsFiniteSet(S) /\ S # {}
  BY FS_AddElement DEF OrderInv
<1>2. \E m \in S : \A n \in S : n <= m
  <2> HIDE DEF S
  <2> QED
    BY <1>1, LargestMember
<1>3. Notified \in S
  BY <1>2 DEF Notified, Largest
<1>4. virtualTime' \in Int
  BY <1>1, <1>3 DEF Notify, OrderInv
<1>5. unnotified' \subseteq Int /\ IsFiniteSet(unnotified')
  BY FS_EmptySet DEF Notify
<1> QED
  BY <1>4, <1>5, QueueSameOrder DEF Notify, OrderInv

LEMMA TakeStateOrder ==
  ASSUME OrderInv, TakeState
  PROVE  OrderInv'
<1>1. flushing' \in SavedState
  BY DEF OrderInv, TakeState, State, SavedState
<1> QED
  BY <1>1, QueueSameOrder DEF TakeState, OrderInv, policyState

LEMMA RestartOrder ==
  ASSUME OrderInv, Restart
  PROVE  OrderInv'
<1>1. Restored \in SavedState
  BY DEF OrderInv, Restored, SavedState
<1>2. virtualTime' \in Int /\ lastFinish' \in [Tenant -> Int]
  BY <1>1 DEF Restart, SavedState
<1>3. unnotified' \subseteq Int /\ IsFiniteSet(unnotified')
  BY FS_EmptySet DEF Restart
<1>4. saved' = NoState \/ saved' \in SavedState
  BY DEF Restart, OrderInv
<1>5. ranked' = {} /\ flushing' = NoState /\ UNCHANGED <<policy, pending>>
  BY DEF Restart
<1> QED
  BY <1>2, <1>3, <1>4, <1>5, QueueSameOrder

LEMMA InitOrder == Init => OrderInv
<1> SUFFICES ASSUME Init PROVE OrderInv
  OBVIOUS
<1>1. Pending = {} /\ pending \in [Pending -> Int]
  BY DEF Init, Pending
<1>2. IsFiniteSet(unnotified) /\ unnotified = {}
  BY FS_EmptySet DEF Init
<1>3. lastFinish \in [Tenant -> Int] /\ virtualTime \in Int
  BY DEF Init
<1> QED
  BY <1>1, <1>2, <1>3 DEF Init, OrderInv

LEMMA NextOrder == OrderInv /\ [Next]_vars => OrderInv'
<1> SUFFICES ASSUME OrderInv, [Next]_vars PROVE OrderInv'
  OBVIOUS
<1>1. ASSUME NEW t \in Task, Rank(t) PROVE OrderInv'
  BY <1>1, RankOrder
<1>2. ASSUME NEW r \in ranked, Admit(r) \/ AdmitRefused(r) \/ AdmitLost(r) PROVE OrderInv'
  BY <1>2, AdmitOrder, WastedOrder DEF AdmitRefused, AdmitLost
<1>3. CASE Dispatch
  BY <1>3, DispatchOrder
<1>4. CASE DispatchLost
  BY <1>4, PoppedOrder DEF DispatchLost, OrderInv
<1>5. CASE Notify
  BY <1>5, NotifyOrder
<1>6. CASE TakeState
  BY <1>6, TakeStateOrder
<1>9. CASE SaveState
  BY <1>9, QueueSameOrder DEF SaveState, OrderInv, policyState
<1>7. CASE Restart
  BY <1>7, RestartOrder
<1>8. CASE UNCHANGED vars
  BY <1>8, QueueSameOrder DEF vars, OrderInv
<1> QED
  BY <1>1, <1>2, <1>3, <1>4, <1>5, <1>6, <1>7, <1>8, <1>9 DEF Next, Finished

LEMMA OrderInvariant == Spec => []OrderInv
BY InitOrder, NextOrder, PTL DEF Spec

-----------------------------------------------------------------------------
(***************************************************************************)
(* Dispatches.                                                              *)
(***************************************************************************)
InOrder ==
  \A t \in dispatched' \ dispatched, u \in Pending \cap DOMAIN pending' : Rightful(t, u)

LEMMA PoppedInOrder ==
  ASSUME OrderInv, NEW n \in BatchSizes, Popped(Batch(n))
  PROVE  InOrder
<1>1. dispatched' = dispatched \cup Range(Batch(n)) /\ DOMAIN pending' = Pending \ Range(Batch(n))
  BY DEF Popped
<1>2. ASSUME NEW t \in dispatched' \ dispatched, NEW u \in Pending \cap DOMAIN pending'
      PROVE  Rightful(t, u)
  BY <1>1, BatchFirst
<1> QED
  BY <1>2 DEF InOrder

\* A dispatch of any size takes no task while one that its policy documents as
\* earlier stays behind, for any number of tasks, with lost replies, wasted
\* admissions and restarts at any moment (priority.go, edf.go, policy.go).
THEOREM QueueKeepsOrder == Spec => DispatchesInOrder
<1>1. OrderInv /\ [Next]_vars => [InOrder]_vars
  <2> SUFFICES ASSUME OrderInv, [Next]_vars PROVE InOrder \/ UNCHANGED vars
    OBVIOUS
  <2>1. CASE Dispatch \/ DispatchLost
    BY <2>1, PoppedInOrder DEF Dispatch, DispatchLost
  <2>2. CASE ~(Dispatch \/ DispatchLost)
    <3>1. dispatched' = dispatched
      BY <2>2 DEF Next, Rank, Admit, AdmitRefused, AdmitLost, Wasted, Notify, TakeState,
                  SaveState, Restart, Finished, vars
    <3> QED
      BY <3>1 DEF InOrder
  <2> QED
    BY <2>1, <2>2
<1> QED
  BY <1>1, OrderInvariant, PTL DEF Spec, DispatchesInOrder, InOrder
-----------------------------------------------------------------------------
(***************************************************************************)
(* Weighted fair queuing is fair: for every set of tasks, weights, batch    *)
(* size and number of faults, the service that two waiting tenants get per  *)
(* weight differs by no more than FairShare allows.                         *)
(*                                                                          *)
(* The argument compares, for every tenant, its last tag less its pending   *)
(* work with the clock of the dispatched tags; it is made for one task at a *)
(* time, and a batch is one task after the other.                           *)
(***************************************************************************)

-----------------------------------------------------------------------------
(***************************************************************************)
(* Sums.                                                                    *)
(***************************************************************************)
\* g[i] is the sum of the first i values of f.
Sums(g, f, n) ==
  /\ g \in [0 .. n -> Int]
  /\ g[0] = 0
  /\ \A i \in 1 .. n : g[i] = g[i - 1] + f[i]

LEMMA SumsExist ==
  ASSUME NEW n \in Nat, NEW f \in [1 .. n -> Int]
  PROVE  \E g : Sums(g, f, n)
<1> DEFINE S == {m \in Nat : m <= n => \E g : Sums(g, f, m)}
<1>1. 0 \in S
  <2>1. Sums([i \in 0 .. 0 |-> 0], f, 0)
    BY DEF Sums
  <2> QED
    BY <2>1
<1>2. ASSUME NEW m \in S PROVE m + 1 \in S
  <2> SUFFICES ASSUME m + 1 <= n PROVE \E g : Sums(g, f, m + 1)
    OBVIOUS
  <2>1. PICK g : Sums(g, f, m)
    OBVIOUS
  <2> DEFINE h == [i \in 0 .. m + 1 |-> IF i = m + 1 THEN g[m] + f[m + 1] ELSE g[i]]
  <2>2. m \in Nat /\ (\A i \in 0 .. m : g[i] \in Int) /\ f[m + 1] \in Int
    BY <2>1 DEF Sums
  <2>3. h \in [0 .. m + 1 -> Int] /\ h[0] = 0
    BY <2>1, <2>2 DEF Sums
  <2>4. ASSUME NEW i \in 1 .. m + 1 PROVE h[i] = h[i - 1] + f[i]
    <3>1. CASE i = m + 1
      BY <2>2, <3>1
    <3>2. CASE i # m + 1
      <4>1. i \in 1 .. m /\ i - 1 \in 0 .. m
        BY <2>2, <3>2
      <4> QED
        BY <2>1, <2>2, <3>2, <4>1 DEF Sums
    <3> QED
      BY <3>1, <3>2
  <2>5. Sums(h, f, m + 1)
    BY <2>3, <2>4 DEF Sums
  <2> QED
    BY <2>5
<1>3. S = Nat
  <2> HIDE DEF S
  <2>1. S \in SUBSET Nat
    BY DEF S
  <2> QED
    BY <1>1, <1>2, <2>1, Induction
<1>4. n \in S
  BY <1>3
<1> QED
  BY <1>4

\* Total is the last of them.
LEMMA TotalSums ==
  ASSUME NEW n \in Nat, NEW f \in [1 .. n -> Int]
  PROVE  \E g : Sums(g, f, n) /\ Total(f, n) = g[n]
<1> DEFINE Law(g) == g = [i \in 0 .. n |-> IF i = 0 THEN 0 ELSE g[i - 1] + f[i]]
           sum == CHOOSE g : Law(g)
<1>1. \E g : Law(g)
  <2>1. PICK g : Sums(g, f, n)
    BY SumsExist
  <2>2. \A i \in 0 .. n : i = 0 \/ i \in 1 .. n
    OBVIOUS
  <2>3. Law(g)
    BY <2>1, <2>2 DEF Sums
  <2> QED
    BY <2>3
<1>2. Law(sum)
  BY <1>1
<1>3. Total(f, n) = sum[n]
  BY DEF Total
<1> HIDE DEF sum
<1>4. sum[0] = 0 /\ \A i \in 1 .. n : sum[i] = sum[i - 1] + f[i]
  BY <1>2
<1> DEFINE S == {i \in Nat : i <= n => sum[i] \in Int}
<1>5. 0 \in S
  BY <1>4
<1>6. ASSUME NEW i \in S PROVE i + 1 \in S
  <2>1. CASE i + 1 <= n
    <3>1. i + 1 \in 1 .. n /\ i + 1 - 1 = i /\ sum[i] \in Int
      BY <2>1
    <3>2. sum[i + 1] = sum[i] + f[i + 1] /\ f[i + 1] \in Int
      BY <1>4, <3>1
    <3> QED
      BY <3>1, <3>2
  <2> QED
    BY <2>1
<1>7. S = Nat
  <2> HIDE DEF S
  <2>1. S \in SUBSET Nat
    BY DEF S
  <2> QED
    BY <1>5, <1>6, <2>1, Induction
<1>8. sum \in [0 .. n -> Int]
  <2>1. \A i \in 0 .. n : sum[i] \in Int
    BY <1>7
  <2>2. \E F : sum = [i \in 0 .. n |-> F[i]]
    <3>1. sum = [i \in 0 .. n |-> sum[i]]
      BY <1>2
    <3> QED
      BY <3>1
  <2> HIDE DEF Law
  <2> QED
    BY <2>1, <2>2
<1> QED
  BY <1>3, <1>4, <1>8 DEF Sums

LEMMA TotalInt ==
  ASSUME NEW n \in Nat, NEW f \in [1 .. n -> Int]
  PROVE  Total(f, n) \in Int
<1>1. PICK g : Sums(g, f, n) /\ Total(f, n) = g[n]
  BY TotalSums
<1> QED
  BY <1>1 DEF Sums

LEMMA TotalMonotone ==
  ASSUME NEW n \in Nat, NEW f \in [1 .. n -> Int], NEW h \in [1 .. n -> Int],
         \A i \in 1 .. n : f[i] <= h[i]
  PROVE  Total(f, n) <= Total(h, n)
<1>1. PICK x : Sums(x, f, n) /\ Total(f, n) = x[n]
  BY TotalSums
<1>2. PICK y : Sums(y, h, n) /\ Total(h, n) = y[n]
  BY TotalSums
<1> DEFINE S == {i \in Nat : i <= n => x[i] <= y[i]}
<1>3. 0 \in S
  BY <1>1, <1>2 DEF Sums
<1>4. ASSUME NEW i \in S PROVE i + 1 \in S
  <2>1. CASE i + 1 <= n
    <3>1. i \in Nat /\ i + 1 \in 1 .. n /\ i + 1 - 1 = i /\ i \in 0 .. n /\ x[i] <= y[i]
      BY <2>1
    <3>2. x[i + 1] = x[i] + f[i + 1] /\ y[i + 1] = y[i] + h[i + 1] /\ x[i] \in Int /\ y[i] \in Int
      BY <1>1, <1>2, <3>1 DEF Sums
    <3>3. f[i + 1] \in Int /\ h[i + 1] \in Int /\ f[i + 1] <= h[i + 1]
      BY <3>1
    <3> QED
      BY <3>1, <3>2, <3>3
  <2> QED
    BY <2>1
<1>5. S = Nat
  <2> HIDE DEF S
  <2>1. S \in SUBSET Nat
    BY DEF S
  <2> QED
    BY <1>3, <1>4, <2>1, Induction
<1> QED
  BY <1>1, <1>2, <1>5

\* Changing one of the summands changes the sum by as much.
LEMMA TotalChange ==
  ASSUME NEW n \in Nat, NEW f \in [1 .. n -> Int], NEW h \in [1 .. n -> Int], NEW z \in 1 .. n,
         \A i \in 1 .. n : i # z => f[i] = h[i]
  PROVE  Total(h, n) = Total(f, n) + (h[z] - f[z])
<1>1. PICK x : Sums(x, f, n) /\ Total(f, n) = x[n]
  BY TotalSums
<1>2. PICK y : Sums(y, h, n) /\ Total(h, n) = y[n]
  BY TotalSums
<1> DEFINE Off(i) == IF i < z THEN 0 ELSE h[z] - f[z]
           S == {i \in Nat : i <= n => y[i] = x[i] + Off(i)}
<1>3. 0 \in S
  BY <1>1, <1>2 DEF Sums
<1>4. ASSUME NEW i \in S PROVE i + 1 \in S
  <2>1. CASE i + 1 <= n
    <3>1. i \in Nat /\ i + 1 \in 1 .. n /\ i + 1 - 1 = i /\ i \in 0 .. n /\ y[i] = x[i] + Off(i)
      BY <2>1
    <3>2. x[i + 1] = x[i] + f[i + 1] /\ x[i] \in Int
      BY <1>1, <3>1 DEF Sums
    <3>3. y[i + 1] = y[i] + h[i + 1] /\ y[i] \in Int
      BY <1>2, <3>1 DEF Sums
    <3>4. f[i + 1] \in Int /\ h[i + 1] \in Int /\ f[z] \in Int /\ h[z] \in Int
      BY <3>1
    <3>5. CASE i + 1 = z
      <4>1. Off(i) = 0 /\ Off(i + 1) = h[i + 1] - f[i + 1]
        BY <3>1, <3>5
      <4> HIDE DEF Off
      <4>2. y[i + 1] = x[i + 1] + Off(i + 1)
        BY <3>1, <3>2, <3>4, <3>3, <4>1
      <4> QED
        BY <3>1, <4>2
    <3>6. CASE i + 1 # z
      <4>1. f[i + 1] = h[i + 1] /\ Off(i + 1) = Off(i)
        BY <3>1, <3>6
      <4> QED
        BY <3>1, <3>2, <3>4, <3>3, <4>1
    <3> QED
      BY <3>5, <3>6
  <2> QED
    BY <2>1
<1>5. S = Nat
  <2> HIDE DEF S
  <2>1. S \in SUBSET Nat
    BY DEF S
  <2> QED
    BY <1>3, <1>4, <2>1, Induction
<1>6. y[n] = x[n] + Off(n)
  BY <1>5
<1> QED
  BY <1>1, <1>2, <1>6

-----------------------------------------------------------------------------
(***************************************************************************)
(* The work in a set of tasks: the sum of their costs, along some listing   *)
(* of all tasks.                                                            *)
(***************************************************************************)
Count == Cardinality(Task)

Listing == CHOOSE e : e \in Bijection(1 .. Count, Task)

Share(S) == [i \in 1 .. Count |-> IF Listing[i] \in S THEN Cost(Listing[i]) ELSE 0]

Work(S) == Total(Share(S), Count)

LEMMA ListingTasks ==
  /\ Count \in Nat
  /\ \A i \in 1 .. Count : Listing[i] \in Task
  /\ \A t \in Task : \E i \in 1 .. Count : Listing[i] = t
  /\ \A i, j \in 1 .. Count : Listing[i] = Listing[j] => i = j
<1>1. Count \in Nat /\ ExistsBijection(1 .. Count, Task)
  BY ScoreAssumption, FS_CardinalityType DEF Count
<1>2. Listing \in Bijection(1 .. Count, Task)
  BY <1>1 DEF ExistsBijection, Listing
<1> QED
  BY <1>1, <1>2 DEF Bijection, Injection, Surjection, IsInjective

LEMMA ShareTyped ==
  ASSUME NEW S
  PROVE  Share(S) \in [1 .. Count -> Int] /\ \A i \in 1 .. Count : Share(S)[i] >= 0
<1>1. \A i \in 1 .. Count : Cost(Listing[i]) \in Nat
  BY ListingTasks, CostNat
<1> QED
  BY <1>1 DEF Share

LEMMA WorkMonotone ==
  ASSUME NEW S, NEW T, S \subseteq T
  PROVE  Work(S) <= Work(T)
<1>1. ASSUME NEW i \in 1 .. Count PROVE Share(S)[i] <= Share(T)[i]
  <2>1. Cost(Listing[i]) \in Nat
    BY ListingTasks, CostNat
  <2> QED
    BY <2>1 DEF Share
<1> QED
  BY <1>1, ListingTasks, ShareTyped, TotalMonotone DEF Work

LEMMA WorkEmpty == Work({}) = 0
<1>1. PICK g : Sums(g, Share({}), Count) /\ Work({}) = g[Count]
  BY ListingTasks, ShareTyped, TotalSums DEF Work
<1>2. \A i \in 1 .. Count : Share({})[i] = 0
  BY DEF Share
<1> DEFINE S == {i \in Nat : i <= Count => g[i] = 0}
<1>3. 0 \in S
  BY <1>1 DEF Sums
<1>4. ASSUME NEW i \in S PROVE i + 1 \in S
  <2>1. CASE i + 1 <= Count
    <3>1. i + 1 \in 1 .. Count /\ i + 1 - 1 = i /\ g[i] = 0
      BY <2>1, ListingTasks
    <3>2. g[i + 1] = g[i] + Share({})[i + 1]
      BY <1>1, <3>1 DEF Sums
    <3>3. g[i + 1] = 0
      BY <1>2, <3>1, <3>2
    <3> QED
      BY <3>3
  <2> QED
    BY <2>1
<1>5. S = Nat
  <2> HIDE DEF S
  <2>1. S \in SUBSET Nat
    BY DEF S
  <2> QED
    BY <1>3, <1>4, <2>1, Induction
<1> QED
  BY <1>1, <1>5, ListingTasks

LEMMA WorkNat ==
  ASSUME NEW S
  PROVE  Work(S) \in Nat
<1>1. Work(S) \in Int
  BY ListingTasks, ShareTyped, TotalInt DEF Work
<1>2. Work({}) <= Work(S)
  BY WorkMonotone
<1> QED
  BY <1>1, <1>2, WorkEmpty

LEMMA WorkAdd ==
  ASSUME NEW S, NEW t \in Task, t \notin S
  PROVE  Work(S \cup {t}) = Work(S) + Cost(t)
<1>1. PICK z \in 1 .. Count : Listing[z] = t
  BY ListingTasks
<1> DEFINE f == Share(S)
           h == Share(S \cup {t})
<1>2. f[z] = 0 /\ h[z] = Cost(t)
  BY <1>1 DEF Share
<1>3. ASSUME NEW i \in 1 .. Count, i # z PROVE f[i] = h[i]
  <2>1. Listing[i] # t
    BY <1>1, <1>3, ListingTasks
  <2> QED
    BY <2>1 DEF Share
<1>4. f \in [1 .. Count -> Int] /\ h \in [1 .. Count -> Int]
  BY ShareTyped
<1>5. Work(S) = Total(f, Count) /\ Work(S \cup {t}) = Total(h, Count)
  BY DEF Work
<1> HIDE DEF f, h
<1>6. Total(h, Count) = Total(f, Count) + (h[z] - f[z])
  <2>1. Count \in Nat /\ \A i \in 1 .. Count : i # z => f[i] = h[i]
    BY <1>3, ListingTasks
  <2> QED
    BY <1>4, <2>1, TotalChange
<1> QED
  BY <1>2, <1>5, <1>6, CostNat

LEMMA WorkRemove ==
  ASSUME NEW S, NEW t \in Task, t \in S
  PROVE  Work(S) = Work(S \ {t}) + Cost(t)
<1>1. (S \ {t}) \cup {t} = S
  OBVIOUS
<1>2. Work((S \ {t}) \cup {t}) = Work(S \ {t}) + Cost(t)
  BY WorkAdd
<1> QED
  BY <1>1, <1>2

-----------------------------------------------------------------------------
(***************************************************************************)
(* The largest of a set of numbers.                                         *)
(***************************************************************************)
LEMMA LargestOf ==
  ASSUME NEW S \in SUBSET Int, IsFiniteSet(S), S # {}
  PROVE  Largest(S) \in S /\ \A n \in S : n <= Largest(S)
BY LargestMember DEF Largest

LEMMA LargestAdd ==
  ASSUME NEW S \in SUBSET Int, IsFiniteSet(S), S # {}, NEW x \in Int
  PROVE  Largest(S \cup {x}) = MaxOf(Largest(S), x)
<1> DEFINE T == S \cup {x}
<1>1. T \in SUBSET Int /\ IsFiniteSet(T) /\ T # {}
  BY FS_AddElement
<1>2. Largest(T) \in T /\ \A n \in T : n <= Largest(T)
  <2> HIDE DEF T
  <2> QED
    BY <1>1, LargestOf
<1>3. Largest(S) \in S /\ \A n \in S : n <= Largest(S)
  BY LargestOf
<1>4. /\ Largest(S) \in Int /\ Largest(T) \in Int
      /\ Largest(S) <= Largest(T) /\ x <= Largest(T)
      /\ Largest(T) = x \/ Largest(T) <= Largest(S)
  BY <1>2, <1>3
<1> QED
  BY <1>4 DEF MaxOf

LEMMA LargestCostBounds ==
  ASSUME NEW k \in Tenant
  PROVE  /\ LargestCost(k) \in Nat
         /\ \A t \in Task : t.tenant = k => Cost(t) <= LargestCost(k)
<1> DEFINE B == {u \in Task : u.tenant = k}
           S == {Cost(t) : t \in B}
           f == [t \in B |-> Cost(t)]
<1>1. IsFiniteSet(B) /\ B # {} /\ B \subseteq Task
  BY ScoreAssumption, FS_Subset DEF Tenant
<1>2. S \subseteq Nat /\ S # {}
  BY <1>1, CostNat
<1>3. f \in Surjection(B, S)
  BY DEF Surjection
<1>4. IsFiniteSet(S)
  <2> HIDE DEF f, S, B
  <2> QED
    BY <1>1, <1>3, FS_Surjection
<1>5. Largest(S) \in S /\ \A n \in S : n <= Largest(S)
  <2>1. S \in SUBSET Int
    BY <1>2
  <2> HIDE DEF S
  <2> QED
    BY <1>2, <1>4, <2>1, LargestOf
<1>6. LargestCost(k) = Largest(S)
  BY DEF LargestCost
<1> QED
  BY <1>2, <1>5, <1>6

-----------------------------------------------------------------------------
(***************************************************************************)
(* One tenant.  Q is its pending tasks with the tags F, l its last tag and  *)
(* C the clock.  Its level is where its tags would be had they only counted *)
(* the tasks that left.  The credit b bounds how far charges for nothing    *)
(* lift the level above the clock, the debt m how far a late clock or lost  *)
(* tags leave it behind; both are paid from its drift d.                    *)
(***************************************************************************)
Begun(F, t) == F[t] - Cost(t)

\* The tasks with a later tag than u, and those that begin at x or later.
After(Q, F, u) == {w \in Q : F[w] > F[u]}
From(Q, F, x) == {w \in Q : Begun(F, w) >= x}

Level(Q, l) == l - Work(Q)

TagTypes(k, Q, F, l, C, m, b, d) ==
  /\ k \in Tenant
  /\ Q \in SUBSET Task
  /\ \A u \in Q : u.tenant = k /\ F[u] \in Int
  /\ l \in Int /\ C \in Int /\ m \in Nat /\ b \in Nat /\ d \in Int

\* The level is not ahead of the clock, but for the credit.
NotAhead(Q, l, C, b) == Level(Q, l) <= C + b

\* The same once the tags up to that of u have left.
Reaches(Q, F, l, C, b) ==
  \A u \in Q : l <= MaxOf(F[u], C) + Work(After(Q, F, u)) + b

\* The work that begins with u or later fits between u and the last tag.
Packed(Q, F, l, m) ==
  \A u \in Q : Work(From(Q, F, Begun(F, u))) <= (l - Begun(F, u)) + m

\* The level of a waiting tenant is at most one task behind the clock.
NotBehind(k, Q, l, C, m) ==
  Q # {} => /\ C <= Level(Q, l) + LargestCost(k) + m
            /\ C <= l + m

Tagged(k, Q, F, l, C, m, b, d) ==
  /\ TagTypes(k, Q, F, l, C, m, b, d)
  /\ b + m <= d
  /\ NotAhead(Q, l, C, b)
  /\ Reaches(Q, F, l, C, b)
  /\ Packed(Q, F, l, m)
  /\ NotBehind(k, Q, l, C, m)

LEMMA TagFacts ==
  ASSUME NEW k, NEW Q, NEW F, NEW l, NEW C, NEW m, NEW b, NEW d,
         TagTypes(k, Q, F, l, C, m, b, d)
  PROVE  /\ k \in Tenant /\ LargestCost(k) \in Nat /\ Work(Q) \in Nat
         /\ l \in Int /\ C \in Int /\ m \in Nat /\ b \in Nat /\ d \in Int
         /\ Level(Q, l) \in Int
         /\ \A u \in Q : /\ u \in Task /\ u.tenant = k /\ F[u] \in Int
                         /\ Cost(u) \in Nat /\ Cost(u) <= LargestCost(k)
                         /\ Begun(F, u) \in Int
                         /\ MaxOf(F[u], C) \in Int
                         /\ Work(After(Q, F, u)) \in Nat
                         /\ Work(From(Q, F, Begun(F, u))) \in Nat
<1>1. k \in Tenant /\ LargestCost(k) \in Nat /\ Work(Q) \in Nat
  BY LargestCostBounds, WorkNat DEF TagTypes
<1>2. Level(Q, l) \in Int
  BY <1>1 DEF Level, TagTypes
<1>3. ASSUME NEW u \in Q
      PROVE  /\ u \in Task /\ u.tenant = k /\ F[u] \in Int
             /\ Cost(u) \in Nat /\ Cost(u) <= LargestCost(k)
             /\ Begun(F, u) \in Int
             /\ MaxOf(F[u], C) \in Int
  <2>1. u \in Task /\ u.tenant = k /\ F[u] \in Int /\ C \in Int
    BY DEF TagTypes
  <2>2. Cost(u) \in Nat /\ Cost(u) <= LargestCost(k)
    BY <1>1, <2>1, CostNat, LargestCostBounds
  <2> QED
    BY <2>1, <2>2 DEF Begun, MaxOf
<1> QED
  BY <1>1, <1>2, <1>3, WorkNat DEF TagTypes

\* Some pending task begins first.
LEMMA FirstBegun ==
  ASSUME NEW Q \in SUBSET Task, Q # {}, NEW F, \A u \in Q : F[u] \in Int
  PROVE  \E u \in Q : \A w \in Q : Begun(F, u) <= Begun(F, w)
<1> DEFINE N == {0 - Begun(F, u) : u \in Q}
           f == [u \in Q |-> 0 - Begun(F, u)]
<1>1. \A u \in Q : Begun(F, u) \in Int
  BY CostNat DEF Begun
<1>2. N \subseteq Int /\ N # {}
  BY <1>1
<1>3. f \in Surjection(Q, N)
  BY DEF Surjection
<1>4. IsFiniteSet(Q)
  BY ScoreAssumption, FS_Subset
<1>5. IsFiniteSet(N)
  <2> HIDE DEF f, N
  <2> QED
    BY <1>3, <1>4, FS_Surjection
<1>6. PICK x \in N : \A y \in N : y <= x
  <2>1. N \in SUBSET Int
    BY <1>2
  <2> HIDE DEF N
  <2> QED
    BY <1>2, <1>5, <2>1, LargestMember
<1>7. PICK u \in Q : x = 0 - Begun(F, u)
  BY <1>6
<1>8. ASSUME NEW w \in Q PROVE Begun(F, u) <= Begun(F, w)
  <2>1. 0 - Begun(F, w) <= 0 - Begun(F, u)
    BY <1>6, <1>7
  <2> QED
    BY <1>1, <2>1
<1> QED
  BY <1>8

\* Packed, from any point on.
LEMMA PackedFrom ==
  ASSUME NEW k, NEW Q, NEW F, NEW l, NEW C, NEW m, NEW b, NEW d,
         Tagged(k, Q, F, l, C, m, b, d), NEW x \in Int, From(Q, F, x) # {}
  PROVE  Work(From(Q, F, x)) <= (l - x) + m
<1> DEFINE R == From(Q, F, x)
<1>1. TagTypes(k, Q, F, l, C, m, b, d) /\ Packed(Q, F, l, m)
  BY DEF Tagged
<1>2. R \in SUBSET Task /\ R \subseteq Q /\ \A u \in R : F[u] \in Int
  BY <1>1 DEF TagTypes, From
<1>3. PICK u \in R : \A w \in R : Begun(F, u) <= Begun(F, w)
  <2> HIDE DEF R
  <2>1. R # {}
    BY DEF R
  <2> QED
    BY <1>2, <2>1, FirstBegun
<1>4. u \in Q /\ Begun(F, u) >= x /\ Begun(F, u) \in Int /\ l \in Int /\ m \in Nat
  BY <1>1, <1>3, TagFacts DEF From
<1>5. R \subseteq From(Q, F, Begun(F, u))
  <2> SUFFICES ASSUME NEW w \in R PROVE w \in From(Q, F, Begun(F, u))
    OBVIOUS
  <2>1. w \in Q /\ Begun(F, u) <= Begun(F, w) /\ Begun(F, w) \in Int
    BY <1>1, <1>2, <1>3, TagFacts
  <2> QED
    BY <1>4, <2>1 DEF From
<1>6. Work(R) <= Work(From(Q, F, Begun(F, u))) /\ Work(R) \in Nat
  BY <1>5, WorkMonotone, WorkNat
<1>7. /\ Work(From(Q, F, Begun(F, u))) <= (l - Begun(F, u)) + m
      /\ Work(From(Q, F, Begun(F, u))) \in Nat
  BY <1>1, <1>4, WorkNat DEF Packed
<1> HIDE DEF R
<1>8. Work(R) <= (l - x) + m
  BY <1>4, <1>6, <1>7
<1> QED
  BY <1>8 DEF R

\* Only the tags of the pending tasks count.
LEMMA TaggedAgree ==
  ASSUME NEW k, NEW Q, NEW F, NEW G, NEW l, NEW C, NEW m, NEW b, NEW d,
         Tagged(k, Q, F, l, C, m, b, d), \A u \in Q : G[u] = F[u]
  PROVE  Tagged(k, Q, G, l, C, m, b, d)
<1>1. \A u \in Q : Begun(G, u) = Begun(F, u)
  BY DEF Begun
<1>2. \A u \in Q : After(Q, G, u) = After(Q, F, u) /\ From(Q, G, Begun(G, u)) = From(Q, F, Begun(F, u))
  BY <1>1 DEF After, From
<1>3. TagTypes(k, Q, G, l, C, m, b, d)
  BY DEF Tagged, TagTypes
<1>4. Reaches(Q, G, l, C, b)
  BY <1>2 DEF Tagged, Reaches
<1>5. Packed(Q, G, l, m)
  BY <1>1, <1>2 DEF Tagged, Packed
<1> QED
  BY <1>3, <1>4, <1>5 DEF Tagged

(***************************************************************************)
(* The task with the smallest tag leaves, whoever's it is.                  *)
(***************************************************************************)
LEMMA TaggedPop ==
  ASSUME NEW k, NEW Q, NEW F, NEW l, NEW C, NEW m, NEW b, NEW d,
         Tagged(k, Q, F, l, C, m, b, d),
         NEW t \in Task, NEW x \in Int, t \in Q => F[t] = x, \A u \in Q : x <= F[u]
  PROVE  Tagged(k, Q \ {t}, F, l, MaxOf(C, x), m, b, d)
<1> DEFINE R == Q \ {t}
           D == MaxOf(C, x)
<1>1. TagTypes(k, Q, F, l, C, m, b, d)
  BY DEF Tagged
<1>2. D \in Int /\ C <= D /\ x <= D /\ (D = C \/ D = x)
  BY <1>1 DEF MaxOf, TagTypes
<1>3. TagTypes(k, R, F, l, D, m, b, d)
  BY <1>1, <1>2 DEF TagTypes
<1>4. NotAhead(R, l, D, b)
  <2>1. CASE t \in Q
    <3>1. l <= MaxOf(F[t], C) + Work(After(Q, F, t)) + b
      BY <2>1 DEF Tagged, Reaches
    <3>2. MaxOf(F[t], C) = D
      BY <1>1, <2>1 DEF MaxOf, TagTypes
    <3>3. After(Q, F, t) \subseteq R
      BY <1>1, <2>1 DEF After, TagTypes
    <3>4. Work(After(Q, F, t)) <= Work(R) /\ Work(After(Q, F, t)) \in Nat /\ Work(R) \in Nat
      BY <3>3, WorkMonotone, WorkNat
    <3> HIDE DEF R, D
    <3> QED
      BY <1>2, <1>3, <3>1, <3>2, <3>4, TagFacts DEF NotAhead, Level
  <2>2. CASE t \notin Q
    <3>1. R = Q /\ NotAhead(Q, l, C, b)
      BY <2>2 DEF Tagged
    <3> HIDE DEF R, D
    <3> QED
      BY <1>1, <1>2, <3>1, TagFacts DEF NotAhead
  <2> QED
    BY <2>1, <2>2
<1>5. Reaches(R, F, l, D, b)
  <2> SUFFICES ASSUME NEW u \in R PROVE l <= MaxOf(F[u], D) + Work(After(R, F, u)) + b
    BY DEF Reaches
  <2>1. u \in Q /\ l <= MaxOf(F[u], C) + Work(After(Q, F, u)) + b
    BY DEF Tagged, Reaches
  <2>2. F[u] \in Int /\ MaxOf(F[u], C) \in Int /\ l \in Int /\ b \in Int /\ C \in Int
    BY <1>1, <2>1, TagFacts
  <2>3. MaxOf(F[u], C) <= MaxOf(F[u], D) /\ MaxOf(F[u], D) \in Int
    <3> HIDE DEF D
    <3> QED
      BY <1>2, <2>2 DEF MaxOf
  <2>4. After(R, F, u) = After(Q, F, u)
    BY <1>1, <2>1, <2>2 DEF After, TagTypes
  <2>5. Work(After(Q, F, u)) \in Nat
    BY WorkNat
  <2> HIDE DEF D, R
  <2> QED
    BY <2>1, <2>2, <2>3, <2>4, <2>5
<1>6. Packed(R, F, l, m)
  <2> SUFFICES ASSUME NEW u \in R
               PROVE  Work(From(R, F, Begun(F, u))) <= (l - Begun(F, u)) + m
    BY DEF Packed
  <2>1. u \in Q /\ Work(From(Q, F, Begun(F, u))) <= (l - Begun(F, u)) + m
    BY DEF Tagged, Packed
  <2>2. From(R, F, Begun(F, u)) \subseteq From(Q, F, Begun(F, u))
    BY DEF From
  <2>3. /\ Work(From(R, F, Begun(F, u))) <= Work(From(Q, F, Begun(F, u)))
        /\ Work(From(R, F, Begun(F, u))) \in Nat /\ Work(From(Q, F, Begun(F, u))) \in Nat
    BY <2>2, WorkMonotone, WorkNat
  <2>4. l \in Int /\ m \in Int /\ Begun(F, u) \in Int
    BY <1>1, <2>1, TagFacts
  <2> QED
    BY <2>1, <2>3, <2>4
<1>7. NotBehind(k, R, l, D, m)
  <2> SUFFICES ASSUME R # {} PROVE D <= Level(R, l) + LargestCost(k) + m /\ D <= l + m
    BY DEF NotBehind
  <2>1. CASE D = C
    <3>1. C <= Level(Q, l) + LargestCost(k) + m /\ C <= l + m
      BY DEF Tagged, NotBehind
    <3>2. Work(R) <= Work(Q) /\ Work(R) \in Nat /\ Work(Q) \in Nat
      BY WorkMonotone, WorkNat
    <3> HIDE DEF R, D
    <3> QED
      BY <1>1, <2>1, <3>1, <3>2, TagFacts DEF Level
  <2>2. CASE D = x
    <3>1. PICK u \in R : \A w \in R : Begun(F, u) <= Begun(F, w)
      BY <1>1, FirstBegun DEF TagTypes
    <3>2. R = From(R, F, Begun(F, u))
      <4>1. \A w \in R : Begun(F, w) >= Begun(F, u)
        BY <1>3, <3>1, TagFacts
      <4> QED
        BY <4>1 DEF From
    <3>3. Work(R) <= (l - Begun(F, u)) + m /\ Work(R) \in Nat
      <4> HIDE DEF R
      <4> QED
        BY <1>6, <3>1, <3>2, WorkNat DEF Packed
    <3>4. x <= F[u] /\ Begun(F, u) = F[u] - Cost(u)
      BY DEF Begun
    <3>5. Cost(u) <= Work(R)
      <4>1. Work(R) = Work(R \ {u}) + Cost(u) /\ Work(R \ {u}) \in Nat
        BY <1>1, WorkRemove, WorkNat DEF TagTypes
      <4>2. Cost(u) \in Nat
        BY <1>1, TagFacts
      <4> HIDE DEF R
      <4> QED
        BY <4>1, <4>2
    <3>6. /\ F[u] \in Int /\ Cost(u) \in Nat /\ Cost(u) <= LargestCost(k) /\ LargestCost(k) \in Nat
          /\ l \in Int /\ m \in Int
      BY <1>1, TagFacts
    <3> HIDE DEF R, D
    <3> QED
      BY <2>2, <3>3, <3>4, <3>5, <3>6 DEF Level
  <2> QED
    BY <1>2, <2>1, <2>2
<1> HIDE DEF R, D
<1>8. Tagged(k, R, F, l, D, m, b, d)
  BY <1>3, <1>4, <1>5, <1>6, <1>7 DEF Tagged
<1> QED
  BY <1>8 DEF R, D

(***************************************************************************)
(* A waiting tenant gets one more task, ranked with the virtual time v: a   *)
(* tag that jumps to v pays off debt.                                       *)
(***************************************************************************)
LEMMA TaggedAdmit ==
  ASSUME NEW k, NEW Q, NEW F, NEW l, NEW C, NEW m, NEW b, NEW d,
         Tagged(k, Q, F, l, C, m, b, d), Q # {},
         NEW t \in Task, t \notin Q, t.tenant = k, NEW v \in Int, v <= C,
         NEW s, s = MaxOf(v, l),
         NEW G, G[t] = s + Cost(t), \A u \in Q : G[u] = F[u]
  PROVE  Tagged(k, Q \cup {t}, G, s + Cost(t), C, m - (s - l), b, d)
<1> DEFINE R == Q \cup {t}
           c == Cost(t)
           j == s - l
<1>1. TagTypes(k, Q, F, l, C, m, b, d)
  BY DEF Tagged
<1>2. /\ l \in Int /\ C \in Int /\ m \in Nat /\ b \in Nat /\ d \in Int
      /\ Work(Q) \in Nat /\ LargestCost(k) \in Nat /\ Level(Q, l) \in Int
  BY <1>1, TagFacts
<1>3. c \in Nat
  BY CostNat
<1>4. C <= Level(Q, l) + LargestCost(k) + m /\ C <= l + m
  BY DEF Tagged, NotBehind
<1>5. s \in Int /\ l <= s /\ v <= s /\ (s = l \/ s = v)
  BY <1>2 DEF MaxOf
<1> HIDE DEF c
<1>6. j \in Nat /\ m - j \in Nat /\ s <= l + m
  BY <1>2, <1>4, <1>5
<1>7. TagTypes(k, R, G, s + c, C, m - j, b, d)
  BY <1>1, <1>3, <1>5, <1>6 DEF TagTypes, c
<1>8. Work(R) = Work(Q) + c /\ Level(R, s + c) = s - Work(Q)
  <2>1. Work(R) = Work(Q) + c
    BY WorkAdd DEF c
  <2> HIDE DEF R
  <2> QED
    BY <1>2, <1>3, <1>5, <2>1 DEF Level
<1>9. NotAhead(R, s + c, C, b)
  <2>1. l - Work(Q) <= C + b
    BY DEF Tagged, NotAhead, Level
  <2>2. s - Work(Q) <= C + b
    BY <1>2, <1>5, <2>1
  <2> QED
    BY <1>8, <2>2 DEF NotAhead
<1>10. Reaches(R, G, s + c, C, b)
  <2> SUFFICES ASSUME NEW u \in R PROVE s + c <= MaxOf(G[u], C) + Work(After(R, G, u)) + b
    BY DEF Reaches
  <2>1. G[u] \in Int /\ Work(After(R, G, u)) \in Nat /\ G[t] = s + c
    BY <1>7, TagFacts DEF c
  <2>2. MaxOf(G[u], C) \in Int /\ G[u] <= MaxOf(G[u], C) /\ C <= MaxOf(G[u], C)
    BY <1>2, <2>1 DEF MaxOf
  <2>3. CASE s + c <= G[u]
    BY <1>2, <1>3, <1>5, <2>1, <2>2, <2>3
  <2>4. CASE G[u] < s + c
    <3>1. u \in Q /\ u # t /\ G[u] = F[u]
      BY <1>3, <1>5, <2>1, <2>4
    <3>2. l <= MaxOf(F[u], C) + Work(After(Q, F, u)) + b /\ Work(After(Q, F, u)) \in Nat
      BY <3>1, WorkNat DEF Tagged, Reaches
    <3>3. After(R, G, u) = After(Q, F, u) \cup {t} /\ t \notin After(Q, F, u)
      BY <1>3, <1>5, <2>1, <2>4, <3>1 DEF After
    <3>4. Work(After(R, G, u)) = Work(After(Q, F, u)) + c
      BY <3>3, WorkAdd DEF c
    <3> QED
      BY <1>2, <1>3, <1>5, <2>1, <2>2, <3>1, <3>2, <3>4
  <2> QED
    BY <1>3, <1>5, <2>1, <2>3, <2>4
<1>11. Packed(R, G, s + c, m - j)
  <2> SUFFICES ASSUME NEW u \in R
               PROVE  Work(From(R, G, Begun(G, u))) <= ((s + c) - Begun(G, u)) + (m - j)
    BY DEF Packed
  <2> DEFINE x == Begun(G, u)
  <2>1. x \in Int /\ \A w \in Q : Begun(G, w) = Begun(F, w)
    BY <1>7, TagFacts DEF Begun
  <2>2. (u = t => x = s) /\ (u # t => u \in Q /\ x = Begun(F, u))
    BY <1>3, <1>5 DEF Begun, c
  <2> HIDE DEF x
  <2>3. From(R, G, x) \subseteq From(Q, F, x) \cup {t} /\ t \notin From(Q, F, x)
    BY <2>1 DEF From
  <2>4. Work(From(R, G, x)) <= Work(From(Q, F, x)) + c
    <3>1. Work(From(Q, F, x) \cup {t}) = Work(From(Q, F, x)) + c
      BY <2>3, WorkAdd DEF c
    <3>2. Work(From(R, G, x)) <= Work(From(Q, F, x) \cup {t})
      BY <2>3, WorkMonotone
    <3> QED
      BY <3>1, <3>2
  <2>5. Work(From(Q, F, x)) <= (l - x) + m
    <3>1. CASE From(Q, F, x) # {}
      BY <2>1, <3>1, PackedFrom
    <3>2. CASE From(Q, F, x) = {}
      <4>1. u = t
        BY <2>1, <2>2, <3>2 DEF From
      <4> QED
        BY <1>2, <1>5, <1>6, <2>2, <3>2, <4>1, WorkEmpty
    <3> QED
      BY <3>1, <3>2
  <2>6. Work(From(R, G, x)) <= ((s + c) - x) + (m - j)
    BY <1>2, <1>3, <1>5, <1>6, <2>1, <2>4, <2>5, WorkNat
  <2> QED
    BY <2>6 DEF x
<1>12. NotBehind(k, R, s + c, C, m - j)
  <2>1. C <= (s - Work(Q)) + LargestCost(k) + (m - j) /\ C <= s + c + (m - j)
    BY <1>2, <1>3, <1>4, <1>5 DEF Level
  <2> QED
    BY <1>8, <2>1 DEF NotBehind
<1> HIDE DEF R, j
<1>13. Tagged(k, R, G, s + c, C, m - j, b, d)
  <2>1. b + (m - j) <= d
    <3>1. b + m <= d
      BY DEF Tagged
    <3> QED
      BY <1>2, <1>6, <3>1
  <2> QED
    BY <1>7, <1>9, <1>10, <1>11, <1>12, <2>1 DEF Tagged
<1> QED
  BY <1>13 DEF R, c, j

(***************************************************************************)
(* The first task of a tenant: its debt is how late the virtual time is.    *)
(***************************************************************************)
LEMMA TaggedFirst ==
  ASSUME NEW k, NEW F, NEW l, NEW C, NEW m, NEW b, NEW d,
         Tagged(k, {}, F, l, C, m, b, d),
         NEW t \in Task, t.tenant = k, NEW v \in Int, v <= C,
         NEW s, s = MaxOf(v, l),
         NEW G, G[t] = s + Cost(t)
  PROVE  Tagged(k, {t}, G, s + Cost(t), C, C - v, b, d + (C - v))
<1> DEFINE R == {t}
           c == Cost(t)
<1>1. TagTypes(k, {}, F, l, C, m, b, d)
  BY DEF Tagged
<1>2. l \in Int /\ C \in Int /\ m \in Nat /\ b \in Nat /\ d \in Int /\ LargestCost(k) \in Nat
  BY <1>1, TagFacts
<1>3. c \in Nat
  BY CostNat
<1>4. s \in Int /\ l <= s /\ v <= s /\ (s = l \/ s = v)
  BY <1>2 DEF MaxOf
<1>5. b + m <= d /\ l <= C + b
  <2>1. Level({}, l) = l
    BY <1>2, WorkEmpty DEF Level
  <2> QED
    BY <2>1 DEF Tagged, NotAhead
<1>6. C - v \in Nat
  BY <1>2
<1> HIDE DEF c
<1>7. TagTypes(k, R, G, s + c, C, C - v, b, d + (C - v))
  BY <1>1, <1>2, <1>3, <1>4, <1>6 DEF TagTypes, c
<1>8. Work(R) = c
  <2>1. R = {} \cup {t}
    OBVIOUS
  <2>2. Work({} \cup {t}) = Work({}) + c
    BY WorkAdd DEF c
  <2> QED
    BY <1>3, <2>1, <2>2, WorkEmpty
<1>9. Level(R, s + c) = s
  BY <1>3, <1>4, <1>8 DEF Level
<1>10. NotAhead(R, s + c, C, b)
  <2>1. s <= C + b
    BY <1>2, <1>4, <1>5
  <2> QED
    BY <1>9, <2>1 DEF NotAhead
<1>11. Reaches(R, G, s + c, C, b)
  <2>1. s + c <= MaxOf(s + c, C) + Work(After(R, G, t)) + b
    BY <1>2, <1>3, <1>4, WorkNat DEF MaxOf
  <2> QED
    BY <2>1 DEF Reaches, c
<1>12. Packed(R, G, s + c, C - v)
  <2>1. Begun(G, t) = s
    BY <1>3, <1>4 DEF Begun, c
  <2>2. Work(From(R, G, s)) <= c
    BY <1>8, WorkMonotone DEF From
  <2>3. Work(From(R, G, s)) <= ((s + c) - s) + (C - v)
    BY <1>3, <1>4, <1>6, <2>2, WorkNat
  <2> QED
    BY <2>1, <2>3 DEF Packed
<1>13. NotBehind(k, R, s + c, C, C - v)
  <2>1. C <= s + LargestCost(k) + (C - v) /\ C <= s + c + (C - v)
    BY <1>2, <1>3, <1>4
  <2> QED
    BY <1>9, <2>1 DEF NotBehind
<1> HIDE DEF R
<1>14. Tagged(k, R, G, s + c, C, C - v, b, d + (C - v))
  <2>1. b + (C - v) <= d + (C - v)
    BY <1>2, <1>5
  <2> QED
    BY <1>7, <1>10, <1>11, <1>12, <1>13, <2>1 DEF Tagged
<1> QED
  BY <1>14 DEF R, c

(***************************************************************************)
(* A charge for nothing is credit; what it pays off depends on whether the  *)
(* tenant waits.                                                            *)
(***************************************************************************)
Paid(Q, s, l) == IF Q = {} THEN 0 ELSE s - l

LEMMA TaggedWasted ==
  ASSUME NEW k, NEW Q, NEW F, NEW l, NEW C, NEW m, NEW b, NEW d,
         Tagged(k, Q, F, l, C, m, b, d),
         NEW c \in Nat, NEW v \in Int, v <= C,
         NEW s, s = MaxOf(v, l)
  PROVE  Tagged(k, Q, F, s + c, C, m - Paid(Q, s, l), b + c, d + c)
<1> DEFINE j == Paid(Q, s, l)
<1>1. TagTypes(k, Q, F, l, C, m, b, d)
  BY DEF Tagged
<1>2. /\ l \in Int /\ C \in Int /\ m \in Nat /\ b \in Nat /\ d \in Int
      /\ Work(Q) \in Nat /\ LargestCost(k) \in Nat /\ Level(Q, l) \in Int
  BY <1>1, TagFacts
<1>3. s \in Int /\ l <= s /\ v <= s /\ (s = l \/ s = v)
  BY <1>2 DEF MaxOf
<1>4. Q # {} => C <= Level(Q, l) + LargestCost(k) + m /\ C <= l + m /\ j = s - l
  BY DEF Tagged, NotBehind, Paid
<1>5. j \in Nat /\ m - j \in Nat
  BY <1>2, <1>3, <1>4 DEF Paid
<1> HIDE DEF j
<1>6. TagTypes(k, Q, F, s + c, C, m - j, b + c, d + c)
  BY <1>1, <1>3, <1>5 DEF TagTypes
<1>7. NotAhead(Q, s + c, C, b + c)
  <2>1. l - Work(Q) <= C + b
    BY DEF Tagged, NotAhead, Level
  <2>2. (s + c) - Work(Q) <= C + (b + c)
    BY <1>2, <1>3, <2>1
  <2> QED
    BY <2>2 DEF NotAhead, Level
<1>8. Reaches(Q, F, s + c, C, b + c)
  <2> SUFFICES ASSUME NEW u \in Q PROVE s + c <= MaxOf(F[u], C) + Work(After(Q, F, u)) + (b + c)
    BY DEF Reaches
  <2>1. l <= MaxOf(F[u], C) + Work(After(Q, F, u)) + b
    BY DEF Tagged, Reaches
  <2>2. F[u] \in Int /\ MaxOf(F[u], C) \in Int /\ Work(After(Q, F, u)) \in Nat
    BY <1>1, TagFacts
  <2>3. C <= MaxOf(F[u], C)
    BY <1>2, <2>2 DEF MaxOf
  <2> QED
    BY <1>2, <1>3, <2>1, <2>2, <2>3
<1>9. Packed(Q, F, s + c, m - j)
  <2> SUFFICES ASSUME NEW u \in Q
               PROVE  Work(From(Q, F, Begun(F, u))) <= ((s + c) - Begun(F, u)) + (m - j)
    BY DEF Packed
  <2>1. Work(From(Q, F, Begun(F, u))) <= (l - Begun(F, u)) + m
    BY DEF Tagged, Packed
  <2>2. Begun(F, u) \in Int /\ Work(From(Q, F, Begun(F, u))) \in Nat
    BY <1>1, TagFacts
  <2> QED
    BY <1>2, <1>3, <1>4, <2>1, <2>2
<1>10. NotBehind(k, Q, s + c, C, m - j)
  <2> SUFFICES ASSUME Q # {}
               PROVE  C <= Level(Q, s + c) + LargestCost(k) + (m - j) /\ C <= s + c + (m - j)
    BY DEF NotBehind
  <2> QED
    BY <1>2, <1>3, <1>4 DEF Level
<1>11. b + c + (m - j) <= d + c
  <2>1. b + m <= d
    BY DEF Tagged
  <2> QED
    BY <1>2, <1>5, <2>1
<1>12. Tagged(k, Q, F, s + c, C, m - j, b + c, d + c)
  BY <1>6, <1>7, <1>8, <1>9, <1>10, <1>11 DEF Tagged
<1> QED
  BY <1>12 DEF j

\* Tags lost in a restart are debt.
LEMMA TaggedLost ==
  ASSUME NEW k, NEW Q, NEW F, NEW l, NEW C, NEW m, NEW b, NEW d,
         Tagged(k, Q, F, l, C, m, b, d), NEW x \in Nat
  PROVE  Tagged(k, Q, F, l - x, C, m + x, b, d + x)
<1>1. TagTypes(k, Q, F, l, C, m, b, d)
  BY DEF Tagged
<1>2. /\ l \in Int /\ C \in Int /\ m \in Nat /\ b \in Nat /\ d \in Int
      /\ Work(Q) \in Nat /\ LargestCost(k) \in Nat /\ Level(Q, l) \in Int
  BY <1>1, TagFacts
<1>3. TagTypes(k, Q, F, l - x, C, m + x, b, d + x)
  BY <1>1, <1>2 DEF TagTypes
<1>4. NotAhead(Q, l - x, C, b)
  BY <1>2 DEF Tagged, NotAhead, Level
<1>5. Reaches(Q, F, l - x, C, b)
  <2> SUFFICES ASSUME NEW u \in Q PROVE l - x <= MaxOf(F[u], C) + Work(After(Q, F, u)) + b
    BY DEF Reaches
  <2>1. l <= MaxOf(F[u], C) + Work(After(Q, F, u)) + b
    BY DEF Tagged, Reaches
  <2>2. MaxOf(F[u], C) \in Int /\ Work(After(Q, F, u)) \in Nat
    BY <1>1, TagFacts
  <2> QED
    BY <1>2, <2>1, <2>2
<1>6. Packed(Q, F, l - x, m + x)
  <2> SUFFICES ASSUME NEW u \in Q
               PROVE  Work(From(Q, F, Begun(F, u))) <= ((l - x) - Begun(F, u)) + (m + x)
    BY DEF Packed
  <2>1. Work(From(Q, F, Begun(F, u))) <= (l - Begun(F, u)) + m
    BY DEF Tagged, Packed
  <2>2. Begun(F, u) \in Int /\ Work(From(Q, F, Begun(F, u))) \in Nat
    BY <1>1, TagFacts
  <2> QED
    BY <1>2, <2>1, <2>2
<1>7. NotBehind(k, Q, l - x, C, m + x)
  BY <1>2 DEF Tagged, NotBehind, Level
<1>8. b + (m + x) <= d + x
  BY <1>2 DEF Tagged
<1> QED
  BY <1>3, <1>4, <1>5, <1>6, <1>7, <1>8 DEF Tagged

(***************************************************************************)
(* A waiting tenant gets a task whose tag is not its last: the work comes   *)
(* without a move of the tags, and is debt.                                 *)
(***************************************************************************)
LEMMA TaggedLate ==
  ASSUME NEW k, NEW Q, NEW F, NEW l, NEW C, NEW m, NEW b, NEW d,
         Tagged(k, Q, F, l, C, m, b, d), Q # {},
         NEW t \in Task, t \notin Q, t.tenant = k,
         NEW G, G[t] \in Int, G[t] <= l, \A u \in Q : G[u] = F[u]
  PROVE  Tagged(k, Q \cup {t}, G, l, C, m + Cost(t), b, d + Cost(t))
<1> DEFINE R == Q \cup {t}
           c == Cost(t)
           f == G[t]
<1>1. TagTypes(k, Q, F, l, C, m, b, d)
  BY DEF Tagged
<1>2. /\ l \in Int /\ C \in Int /\ m \in Nat /\ b \in Nat /\ d \in Int
      /\ Work(Q) \in Nat /\ LargestCost(k) \in Nat /\ Level(Q, l) \in Int
  BY <1>1, TagFacts
<1>3. c \in Nat /\ f \in Int /\ f <= l
  BY CostNat
<1>4. TagTypes(k, R, G, l, C, m + c, b, d + c)
  BY <1>1, <1>3 DEF TagTypes
<1>5. Work(R) = Work(Q) + c /\ Level(R, l) = Level(Q, l) - c
  <2>1. Work(R) = Work(Q) + c
    BY WorkAdd
  <2> HIDE DEF R, c
  <2> QED
    BY <1>2, <1>3, <2>1 DEF Level
<1>6. Tagged(k, Q, G, l, C, m, b, d)
  BY TaggedAgree
<1> HIDE DEF c, f
<1>7. NotAhead(R, l, C, b)
  BY <1>2, <1>3, <1>5 DEF Tagged, NotAhead
<1>8. ASSUME NEW u \in Q PROVE l <= MaxOf(G[u], C) + Work(After(R, G, u)) + b
  <2>1. l <= MaxOf(G[u], C) + Work(After(Q, G, u)) + b
    BY <1>6 DEF Tagged, Reaches
  <2>2. After(Q, G, u) \subseteq After(R, G, u) /\ After(R, G, u) \in SUBSET Task
    BY <1>4 DEF After, TagTypes
  <2>3. Work(After(Q, G, u)) <= Work(After(R, G, u))
    BY <2>2, WorkMonotone
  <2>4. MaxOf(G[u], C) \in Int /\ Work(After(R, G, u)) \in Nat
    BY <1>4, TagFacts
  <2>5. Work(After(Q, G, u)) \in Nat
    BY <2>2, WorkNat
  <2> QED
    BY <1>2, <2>1, <2>3, <2>4, <2>5
<1>9. l <= MaxOf(f, C) + Work(After(R, G, t)) + b
  <2> DEFINE S == {u \in Q : G[u] <= f}
             N == {G[u] : u \in S}
             h == [u \in S |-> G[u]]
  <2>1. After(R, G, t) = {w \in Q : G[w] > f}
    BY <1>3 DEF After, f
  <2>2. MaxOf(f, C) \in Int /\ f <= MaxOf(f, C) /\ C <= MaxOf(f, C) /\ Work(After(R, G, t)) \in Nat
    BY <1>2, <1>3, <1>4, TagFacts DEF MaxOf, f
  <2>3. \A u \in Q : G[u] \in Int
    BY <1>4 DEF TagTypes
  <2>4. CASE S = {}
    <3>1. After(R, G, t) = Q
      BY <1>3, <2>1, <2>3, <2>4
    <3>2. l - Work(Q) <= C + b
      BY DEF Tagged, NotAhead, Level
    <3> QED
      BY <1>2, <2>2, <3>1, <3>2
  <2>5. CASE S # {}
    <3>1. IsFiniteSet(S)
      BY <1>1, ScoreAssumption, FS_Subset DEF TagTypes
    <3>2. h \in Surjection(S, N)
      BY DEF Surjection
    <3>3. IsFiniteSet(N)
      <4> HIDE DEF h, N, S
      <4> QED
        BY <3>1, <3>2, FS_Surjection
    <3>4. N \in SUBSET Int /\ N # {}
      BY <2>3, <2>5
    <3>5. PICK x \in N : \A y \in N : y <= x
      <4> HIDE DEF N
      <4> QED
        BY <3>3, <3>4, LargestMember
    <3>6. PICK u \in S : x = G[u]
      BY <3>5
    <3>7. u \in Q /\ G[u] <= f /\ \A w \in Q : G[w] <= f => G[w] <= G[u]
      BY <3>5, <3>6
    <3>8. After(Q, G, u) = After(R, G, t)
      BY <1>3, <2>1, <2>3, <3>7 DEF After
    <3>9. l <= MaxOf(G[u], C) + Work(After(Q, G, u)) + b
      BY <1>6, <3>7 DEF Tagged, Reaches
    <3>10. MaxOf(G[u], C) <= MaxOf(f, C) /\ MaxOf(G[u], C) \in Int
      BY <1>2, <1>3, <2>3, <3>7 DEF MaxOf
    <3> QED
      BY <1>2, <2>2, <3>8, <3>9, <3>10
  <2> QED
    BY <2>4, <2>5
<1>10. Reaches(R, G, l, C, b)
  BY <1>8, <1>9 DEF Reaches, f
<1>11. ASSUME NEW x \in Int, x <= l PROVE Work(From(R, G, x)) <= (l - x) + (m + c)
  <2>1. From(Q, G, x) \in SUBSET Task /\ From(R, G, x) \subseteq From(Q, G, x) \cup {t}
    BY <1>1 DEF From, TagTypes
  <2>2. Work(From(Q, G, x)) \in Nat /\ Work(From(R, G, x)) \in Nat
    <3>1. From(R, G, x) \in SUBSET Task
      BY <2>1
    <3> QED
      BY <2>1, <3>1, WorkNat
  <2>3. Work(From(Q, G, x) \cup {t}) = Work(From(Q, G, x)) + c
    <3>1. t \notin From(Q, G, x)
      BY DEF From
    <3> QED
      BY <2>1, <3>1, WorkAdd DEF c
  <2>4. Work(From(R, G, x)) <= Work(From(Q, G, x) \cup {t})
    BY <2>1, WorkMonotone
  <2>5. Work(From(Q, G, x)) <= (l - x) + m
    <3>1. CASE From(Q, G, x) = {}
      BY <1>2, <3>1, WorkEmpty, <1>11
    <3>2. CASE From(Q, G, x) # {}
      BY <1>6, <3>2, PackedFrom
    <3> QED
      BY <3>1, <3>2
  <2> QED
    BY <1>2, <1>3, <1>11, <2>2, <2>3, <2>4, <2>5
<1>12. Packed(R, G, l, m + c)
  <2> SUFFICES ASSUME NEW u \in R
               PROVE  Work(From(R, G, Begun(G, u))) <= (l - Begun(G, u)) + (m + c)
    BY DEF Packed
  <2>1. Begun(G, u) \in Int /\ Work(From(R, G, Begun(G, u))) \in Nat
    BY <1>4, TagFacts
  <2>2. CASE Begun(G, u) <= l
    BY <1>11, <2>1, <2>2
  <2>3. CASE ~(Begun(G, u) <= l)
    <3>1. u \in Q
      BY <1>2, <1>3, <2>3 DEF Begun, c, f
    <3>2. Work(From(Q, G, Begun(G, u))) <= (l - Begun(G, u)) + m
      BY <1>6, <3>1 DEF Tagged, Packed
    <3>3. From(R, G, Begun(G, u)) = From(Q, G, Begun(G, u))
      <4>1. Begun(G, t) <= l /\ Begun(G, t) \in Int
        BY <1>2, <1>3 DEF Begun, c, f
      <4> QED
        BY <1>2, <2>1, <2>3, <4>1 DEF From
    <3> QED
      BY <1>2, <1>3, <2>1, <3>2, <3>3
  <2> QED
    BY <2>2, <2>3
<1>13. NotBehind(k, R, l, C, m + c)
  <2>1. C <= Level(Q, l) + LargestCost(k) + m /\ C <= l + m
    BY DEF Tagged, NotBehind
  <2> QED
    BY <1>2, <1>3, <1>5, <2>1 DEF NotBehind
<1>14. b + (m + c) <= d + c
  BY <1>2, <1>3 DEF Tagged
<1>15. Tagged(k, R, G, l, C, m + c, b, d + c)
  BY <1>4, <1>7, <1>10, <1>12, <1>13, <1>14 DEF Tagged
<1> QED
  BY <1>15 DEF R, c

\* The first task of a tenant, with a tag that is not its last: its debt is
\* how late the tag starts.
LEMMA TaggedLateFirst ==
  ASSUME NEW k, NEW F, NEW l, NEW C, NEW m, NEW b, NEW d,
         Tagged(k, {}, F, l, C, m, b, d),
         NEW t \in Task, t.tenant = k,
         NEW G, G[t] \in Int, G[t] <= l,
         NEW y, y = MaxOf(C - (G[t] - Cost(t)), 0)
  PROVE  Tagged(k, {t}, G, l, C, y, b, d + y)
<1> DEFINE R == {t}
           c == Cost(t)
           f == G[t]
<1>1. TagTypes(k, {}, F, l, C, m, b, d)
  BY DEF Tagged
<1>2. l \in Int /\ C \in Int /\ m \in Nat /\ b \in Nat /\ d \in Int /\ LargestCost(k) \in Nat
  BY <1>1, TagFacts
<1>3. c \in Nat /\ f \in Int /\ f <= l /\ c <= LargestCost(k)
  BY <1>1, CostNat, LargestCostBounds DEF TagTypes
<1>4. y \in Nat /\ C <= (f - c) + y
  BY <1>2, <1>3 DEF MaxOf
<1>5. b + m <= d /\ l <= C + b
  <2>1. Level({}, l) = l
    BY <1>2, WorkEmpty DEF Level
  <2> QED
    BY <2>1 DEF Tagged, NotAhead
<1> HIDE DEF c, f
<1>6. TagTypes(k, R, G, l, C, y, b, d + y)
  BY <1>1, <1>2, <1>3, <1>4 DEF TagTypes, f
<1>7. Work(R) = c
  <2>1. R = {} \cup {t}
    OBVIOUS
  <2>2. Work({} \cup {t}) = Work({}) + c
    BY WorkAdd DEF c
  <2> QED
    BY <1>3, <2>1, <2>2, WorkEmpty
<1>8. Level(R, l) = l - c
  BY <1>7 DEF Level
<1>9. NotAhead(R, l, C, b)
  BY <1>2, <1>3, <1>5, <1>8 DEF NotAhead
<1>10. Reaches(R, G, l, C, b)
  <2>1. l <= MaxOf(f, C) + Work(After(R, G, t)) + b
    <3>1. Work(After(R, G, t)) \in Nat
      BY <1>6, TagFacts
    <3>2. C <= MaxOf(f, C) /\ MaxOf(f, C) \in Int
      BY <1>2, <1>3 DEF MaxOf
    <3> QED
      BY <1>2, <1>5, <3>1, <3>2
  <2> QED
    BY <2>1 DEF Reaches, f
<1>11. Packed(R, G, l, y)
  <2>1. Begun(G, t) = f - c
    BY DEF Begun, f, c
  <2>2. Work(From(R, G, f - c)) <= c /\ Work(From(R, G, f - c)) \in Nat
    <3>1. R \in SUBSET Task /\ From(R, G, f - c) \subseteq R
      BY DEF From
    <3> QED
      BY <1>7, <3>1, WorkMonotone, WorkNat
  <2>3. Work(From(R, G, f - c)) <= (l - (f - c)) + y
    BY <1>2, <1>3, <1>4, <2>2
  <2> QED
    BY <2>1, <2>3 DEF Packed
<1>12. NotBehind(k, R, l, C, y)
  BY <1>2, <1>3, <1>4, <1>8 DEF NotBehind
<1>13. b + y <= d + y
  BY <1>2, <1>4, <1>5
<1> HIDE DEF R
<1>14. Tagged(k, R, G, l, C, y, b, d + y)
  BY <1>6, <1>9, <1>10, <1>11, <1>12, <1>13 DEF Tagged
<1> QED
  BY <1>14 DEF R

-----------------------------------------------------------------------------
(***************************************************************************)
(* All tenants.  What is pending is P with the tags F; l, m, b and d give   *)
(* the last tag, debt, credit and drift of every tenant.                    *)
(***************************************************************************)
Of(P, k) == {t \in P : t.tenant = k}

\* The first tenant of the pair is x ahead of the second: within the bound,
\* and while both wait no further than their levels are apart.
Even(p, P, x, l, m, b, d) ==
  /\ x <= LargestCost(p[1]) + LargestCost(p[2]) + d[p[1]] + d[p[2]]
  /\ Of(P, p[1]) # {} /\ Of(P, p[2]) # {} =>
       x + Level(Of(P, p[2]), l[p[2]]) + b[p[1]] + m[p[2]]
         <= Level(Of(P, p[1]), l[p[1]]) + LargestCost(p[1]) + d[p[1]] + d[p[2]]

Fair(P, F, l, C, a, d, m, b) ==
  /\ P \in SUBSET Task
  /\ m \in [Tenant -> Nat] /\ b \in [Tenant -> Nat]
  /\ a \in [Pairs -> Int]
  /\ \A k \in Tenant : Tagged(k, Of(P, k), F, l[k], C, m[k], b[k], d[k])
  /\ \A p \in Pairs : Even(p, P, a[p], l, m, b, d)

LEMMA PairTenants ==
  ASSUME NEW p \in Pairs
  PROVE  p[1] \in Tenant /\ p[2] \in Tenant /\ p[1] # p[2] /\ Range(p) = {p[1], p[2]}
<1>1. p \in Tenant \X Tenant /\ p[1] # p[2]
  BY DEF Pairs
<1>2. DOMAIN p = {1, 2}
  BY <1>1
<1> QED
  BY <1>1, <1>2 DEF Range

LEMMA FairFacts ==
  ASSUME NEW P, NEW F, NEW l, NEW C, NEW a, NEW d, NEW m, NEW b,
         Fair(P, F, l, C, a, d, m, b), NEW k \in Tenant
  PROVE  /\ Tagged(k, Of(P, k), F, l[k], C, m[k], b[k], d[k])
         /\ l[k] \in Int /\ C \in Int /\ m[k] \in Nat /\ b[k] \in Nat /\ d[k] \in Nat
         /\ LargestCost(k) \in Nat /\ Level(Of(P, k), l[k]) \in Int
         /\ b[k] + m[k] <= d[k]
         /\ Level(Of(P, k), l[k]) <= C + b[k]
         /\ Of(P, k) # {} => C <= Level(Of(P, k), l[k]) + LargestCost(k) + m[k]
<1>1. Tagged(k, Of(P, k), F, l[k], C, m[k], b[k], d[k])
  BY DEF Fair
<1>2. TagTypes(k, Of(P, k), F, l[k], C, m[k], b[k], d[k])
  BY <1>1 DEF Tagged
<1>3. /\ l[k] \in Int /\ C \in Int /\ m[k] \in Nat /\ b[k] \in Nat /\ d[k] \in Int
      /\ LargestCost(k) \in Nat /\ Level(Of(P, k), l[k]) \in Int
  BY <1>2, TagFacts
<1>4. b[k] + m[k] <= d[k]
  BY <1>1 DEF Tagged
<1>5. d[k] \in Nat
  BY <1>3, <1>4
<1> QED
  BY <1>1, <1>3, <1>4, <1>5 DEF Tagged, NotAhead, NotBehind

\* A pair that starts to be compared is even.
LEMMA FreshEven ==
  ASSUME NEW P, NEW F, NEW l, NEW C, NEW d, NEW m, NEW b, NEW p \in Pairs,
         \A k \in Tenant : Tagged(k, Of(P, k), F, l[k], C, m[k], b[k], d[k])
  PROVE  Even(p, P, 0, l, m, b, d)
<1> DEFINE j == p[1]
           k == p[2]
<1>1. j \in Tenant /\ k \in Tenant
  BY PairTenants
<1>2. ASSUME NEW i \in Tenant
      PROVE  /\ l[i] \in Int /\ C \in Int /\ m[i] \in Nat /\ b[i] \in Nat /\ d[i] \in Int
             /\ LargestCost(i) \in Nat /\ Level(Of(P, i), l[i]) \in Int
             /\ b[i] + m[i] <= d[i] /\ Level(Of(P, i), l[i]) <= C + b[i]
             /\ Of(P, i) # {} => C <= Level(Of(P, i), l[i]) + LargestCost(i) + m[i]
  <2>1. Tagged(i, Of(P, i), F, l[i], C, m[i], b[i], d[i])
    OBVIOUS
  <2>2. TagTypes(i, Of(P, i), F, l[i], C, m[i], b[i], d[i])
    BY <2>1 DEF Tagged
  <2>3. /\ l[i] \in Int /\ C \in Int /\ m[i] \in Nat /\ b[i] \in Nat /\ d[i] \in Int
        /\ LargestCost(i) \in Nat /\ Level(Of(P, i), l[i]) \in Int
    BY <2>2, TagFacts
  <2> QED
    BY <2>1, <2>3 DEF Tagged, NotAhead, NotBehind
<1> HIDE DEF j, k
<1>3. 0 <= LargestCost(j) + LargestCost(k) + d[j] + d[k]
  BY <1>1, <1>2
<1>4. ASSUME Of(P, j) # {}, Of(P, k) # {}
      PROVE  0 + Level(Of(P, k), l[k]) + b[j] + m[k]
               <= Level(Of(P, j), l[j]) + LargestCost(j) + d[j] + d[k]
  BY <1>1, <1>2, <1>4
<1> QED
  BY <1>3, <1>4 DEF Even, j, k

(***************************************************************************)
(* The task with the smallest tag leaves.                                   *)
(***************************************************************************)
LEMMA FairPop ==
  ASSUME NEW P, NEW F, NEW l, NEW C, NEW a, NEW d, NEW m, NEW b,
         Fair(P, F, l, C, a, d, m, b),
         NEW t \in P, \A u \in P : F[t] <= F[u],
         NEW e, e = [p \in Pairs |-> a[p] + Service(P, t, p)]
  PROVE  Fair(P \ {t}, F, l, MaxOf(C, F[t]), e, d, m, b)
<1> DEFINE R == P \ {t}
           D == MaxOf(C, F[t])
           c == Cost(t)
<1>1. t \in Task /\ t.tenant \in Tenant /\ c \in Nat /\ F[t] \in Int
  <2>1. t \in Task /\ t.tenant \in Tenant
    BY DEF Fair, Tenant
  <2>2. Tagged(t.tenant, Of(P, t.tenant), F, l[t.tenant], C, m[t.tenant], b[t.tenant], d[t.tenant])
    BY <2>1, FairFacts
  <2> QED
    BY <2>1, <2>2, CostNat DEF Tagged, TagTypes, Of
<1>2. ASSUME NEW k \in Tenant
      PROVE  Tagged(k, Of(R, k), F, l[k], D, m[k], b[k], d[k])
  <2>1. Tagged(k, Of(P, k), F, l[k], C, m[k], b[k], d[k])
    BY FairFacts
  <2>2. Of(R, k) = Of(P, k) \ {t}
    BY DEF Of
  <2>3. \A u \in Of(P, k) : F[t] <= F[u]
    BY DEF Of
  <2>4. Tagged(k, Of(P, k) \ {t}, F, l[k], D, m[k], b[k], d[k])
    BY <1>1, <2>1, <2>3, TaggedPop
  <2> QED
    BY <2>2, <2>4
<1>3. ASSUME NEW k \in Tenant
      PROVE  Level(Of(R, k), l[k]) = Level(Of(P, k), l[k]) + (IF t.tenant = k THEN c ELSE 0)
  <2>1. Of(R, k) = Of(P, k) \ {t} /\ (t \in Of(P, k) <=> t.tenant = k)
    BY DEF Of
  <2>2. CASE t.tenant = k
    <3>1. Work(Of(P, k)) = Work(Of(R, k)) + c
      BY <1>1, <2>1, <2>2, WorkRemove
    <3> QED
      BY <1>1, <2>2, <3>1, WorkNat, FairFacts DEF Level
  <2>3. CASE t.tenant # k
    <3>1. Of(R, k) = Of(P, k) /\ Level(Of(P, k), l[k]) \in Int
      BY <2>1, <2>3, FairFacts
    <3> HIDE DEF R
    <3> QED
      BY <2>3, <3>1
  <2> QED
    BY <2>2, <2>3
<1>4. ASSUME NEW p \in Pairs PROVE e[p] \in Int /\ Even(p, R, e[p], l, m, b, d)
  <2> DEFINE j == p[1]
             k == p[2]
             Both == Of(P, j) # {} /\ Of(P, k) # {}
             g == IF Both THEN CASE t.tenant = j -> c [] t.tenant = k -> 0 - c [] OTHER -> 0
                          ELSE 0
  <2>1. j \in Tenant /\ k \in Tenant /\ j # k
    BY PairTenants
  <2>2. Service(P, t, p) = g
    <3>1. (\A i \in Range(p) : \E u \in P : u.tenant = i) <=> Both
      BY PairTenants DEF Of
    <3> HIDE DEF Both
    <3> QED
      BY <3>1 DEF Service
  <2>3. e[p] = a[p] + g /\ a[p] \in Int /\ g \in Int
    BY <1>1, <2>2 DEF Fair
  <2>4. Even(p, P, a[p], l, m, b, d)
    BY DEF Fair
  <2>5. Of(R, j) \subseteq Of(P, j) /\ Of(R, k) \subseteq Of(P, k)
    BY DEF Of
  <2>6. /\ Tagged(j, Of(R, j), F, l[j], D, m[j], b[j], d[j])
        /\ Tagged(k, Of(R, k), F, l[k], D, m[k], b[k], d[k])
    BY <1>2, <2>1
  <2>7. TagTypes(j, Of(R, j), F, l[j], D, m[j], b[j], d[j])
    BY <2>6 DEF Tagged
  <2>8. TagTypes(k, Of(R, k), F, l[k], D, m[k], b[k], d[k])
    BY <2>6 DEF Tagged
  <2>9. /\ LargestCost(j) \in Nat /\ LargestCost(k) \in Nat /\ D \in Int
        /\ m[k] \in Nat /\ b[j] \in Nat /\ d[j] \in Int /\ d[k] \in Int
        /\ Level(Of(P, j), l[j]) \in Int /\ Level(Of(P, k), l[k]) \in Int
        /\ Level(Of(R, j), l[j]) \in Int /\ Level(Of(R, k), l[k]) \in Int
    BY <2>1, <2>7, <2>8, TagFacts, FairFacts
  <2>10. /\ Level(Of(R, j), l[j]) = Level(Of(P, j), l[j]) + (IF t.tenant = j THEN c ELSE 0)
         /\ Level(Of(R, k), l[k]) = Level(Of(P, k), l[k]) + (IF t.tenant = k THEN c ELSE 0)
    BY <1>3, <2>1
  <2>11. Level(Of(R, j), l[j]) <= D + b[j]
    BY <2>6 DEF Tagged, NotAhead
  <2>12. Of(R, k) # {} => D <= Level(Of(R, k), l[k]) + LargestCost(k) + m[k]
    BY <2>6 DEF Tagged, NotBehind
  <2>13. t.tenant = j /\ Of(P, k) # {} => Of(R, k) # {}
    BY <2>1 DEF Of
  <2>14. /\ a[p] <= LargestCost(j) + LargestCost(k) + d[j] + d[k]
         /\ Both => a[p] + Level(Of(P, k), l[k]) + b[j] + m[k]
                      <= Level(Of(P, j), l[j]) + LargestCost(j) + d[j] + d[k]
    BY <2>4 DEF Even
  <2> HIDE DEF R, D, c, j, k
  <2>15. Both => e[p] + Level(Of(R, k), l[k]) + b[j] + m[k]
                   <= Level(Of(R, j), l[j]) + LargestCost(j) + d[j] + d[k]
    BY <1>1, <2>1, <2>3, <2>9, <2>10, <2>14 DEF c
  <2>16. e[p] <= LargestCost(j) + LargestCost(k) + d[j] + d[k]
    <3>1. CASE Both /\ t.tenant = j
      BY <2>3, <2>9, <2>11, <2>12, <2>13, <2>15, <3>1
    <3>2. CASE ~(Both /\ t.tenant = j)
      <4>1. g <= 0
        <5> HIDE DEF Both
        <5>1. 0 - c <= 0 /\ 0 <= 0
          BY <1>1
        <5>2. CASE ~Both
          BY <5>1, <5>2
        <5>3. CASE Both /\ t.tenant # j
          BY <5>1, <5>3
        <5> QED
          BY <3>2, <5>2, <5>3
      <4> HIDE DEF g
      <4> QED
        BY <2>3, <2>9, <2>14, <4>1
    <3> QED
      BY <3>1, <3>2
  <2>17. Of(R, j) # {} /\ Of(R, k) # {} => Both
    BY <2>5
  <2>18. e[p] \in Int
    <3> HIDE DEF g
    <3> QED
      BY <2>3
  <2> HIDE DEF Both, g
  <2> QED
    BY <2>15, <2>16, <2>17, <2>18 DEF Even, j, k
<1>5. R \in SUBSET Task /\ m \in [Tenant -> Nat] /\ b \in [Tenant -> Nat] /\ e \in [Pairs -> Int]
  BY <1>4 DEF Fair
<1> HIDE DEF R, D
<1>6. Fair(R, F, l, D, e, d, m, b)
  BY <1>2, <1>4, <1>5 DEF Fair
<1> QED
  BY <1>6 DEF R, D

-----------------------------------------------------------------------------
(***************************************************************************)
(* A batch, one task after the other.                                       *)
(***************************************************************************)
\* What is left after i tasks, and the clock then.
Rest(n, i) == Pending \ {Batch(n)[j] : j \in 1 .. i}
ClockAt(n, i) == Largest({clock} \cup {pending[Batch(n)[j]] : j \in 1 .. i})

\* The next task of a batch has the smallest tag of those left.
LEMMA BatchNext ==
  ASSUME OrderInv, NEW n \in BatchSizes, NEW i \in Nat, i + 1 \in 1 .. n
  PROVE  /\ Batch(n)[i + 1] \in Rest(n, i)
         /\ \A u \in Rest(n, i) : pending[Batch(n)[i + 1]] <= pending[u]
         /\ Rest(n, i + 1) = Rest(n, i) \ {Batch(n)[i + 1]}
<1> DEFINE t == Batch(n)[i + 1]
<1>1. t \in Pending /\ ZRank(t) = i
  BY BatchAt
<1>2. ASSUME NEW j \in 1 .. i PROVE Batch(n)[j] \in Pending /\ ZRank(Batch(n)[j]) = j - 1
  <2>1. j \in 1 .. n
    BY BatchSizesNat
  <2> QED
    BY <2>1, BatchAt
<1> HIDE DEF t
<1>3. t \in Rest(n, i)
  <2> SUFFICES ASSUME NEW j \in 1 .. i, t = Batch(n)[j] PROVE FALSE
    BY <1>1 DEF Rest
  <2> QED
    BY <1>1, <1>2
<1>4. ASSUME NEW u \in Rest(n, i) PROVE pending[t] <= pending[u]
  <2>1. u \in Pending /\ ZRank(u) \in Nat /\ \A j \in 1 .. i : u # Batch(n)[j]
    BY RankBounded DEF Rest
  <2>2. ~(ZRank(u) < i)
    <3> SUFFICES ASSUME ZRank(u) < i PROVE FALSE
      OBVIOUS
    <3> DEFINE j == ZRank(u) + 1
    <3>1. j \in 1 .. i /\ j - 1 = ZRank(u)
      BY <2>1
    <3> HIDE DEF j
    <3>2. ZRank(Batch(n)[j]) = ZRank(u) /\ Batch(n)[j] \in Pending
      BY <1>2, <3>1
    <3>3. Batch(n)[j] = u
      BY <2>1, <3>2, RankInjective
    <3> QED
      BY <2>1, <3>1, <3>3
  <2>3. ~Precedes(u, t)
    BY <1>1, <2>1, <2>2, RankGrows
  <2> QED
    BY <1>1, <2>1, <2>3, PrecedesMeans, PendingFacts
<1>5. Rest(n, i + 1) = Rest(n, i) \ {t}
  <2>1. 1 .. (i + 1) = (1 .. i) \cup {i + 1}
    OBVIOUS
  <2> QED
    BY <2>1 DEF Rest, t
<1> QED
  BY <1>3, <1>4, <1>5 DEF t

LEMMA ClockNext ==
  ASSUME OrderInv, clock \in Int, NEW n \in BatchSizes, NEW i \in Nat, i + 1 \in 1 .. n
  PROVE  ClockAt(n, i + 1) = MaxOf(ClockAt(n, i), pending[Batch(n)[i + 1]])
<1> DEFINE T == {pending[Batch(n)[j]] : j \in 1 .. i}
           S == {clock} \cup T
           x == pending[Batch(n)[i + 1]]
           f == [j \in 1 .. i |-> pending[Batch(n)[j]]]
<1>1. ASSUME NEW j \in 1 .. n PROVE pending[Batch(n)[j]] \in Int
  BY BatchAt, PendingFacts
<1>2. T \subseteq Int /\ x \in Int
  BY <1>1, BatchSizesNat
<1>3. f \in Surjection(1 .. i, T)
  BY DEF Surjection
<1>4. IsFiniteSet(T)
  <2>1. IsFiniteSet(1 .. i)
    BY FS_Interval
  <2> HIDE DEF f, T
  <2> QED
    BY <1>3, <2>1, FS_Surjection
<1>5. S \in SUBSET Int /\ IsFiniteSet(S) /\ S # {}
  <2>1. S = T \cup {clock}
    OBVIOUS
  <2> HIDE DEF T
  <2> QED
    BY <1>2, <1>4, <2>1, FS_AddElement
<1>6. 1 .. (i + 1) = (1 .. i) \cup {i + 1}
  OBVIOUS
<1>7. ClockAt(n, i + 1) = Largest(S \cup {x}) /\ ClockAt(n, i) = Largest(S)
  <2>1. {pending[Batch(n)[j]] : j \in 1 .. (i + 1)} = T \cup {x}
    BY <1>6
  <2>2. {clock} \cup (T \cup {x}) = S \cup {x}
    OBVIOUS
  <2> HIDE DEF T, x
  <2> QED
    BY <2>1, <2>2 DEF ClockAt, T
<1> HIDE DEF S, x
<1>8. Largest(S \cup {x}) = MaxOf(Largest(S), x)
  BY <1>2, <1>5, LargestAdd
<1> QED
  BY <1>7, <1>8 DEF x

LEMMA FairBatch ==
  ASSUME OrderInv, NEW l, NEW m, NEW b, NEW n \in BatchSizes,
         Fair(Pending, pending, l, clock, ahead, drift, m, b), clock \in Int
  PROVE  Fair(Pending \ Range(Batch(n)), pending, l,
              Largest({clock} \cup {pending[t] : t \in Range(Batch(n))}),
              [p \in Pairs |-> ahead[p] + Served(Batch(n), p)], drift, m, b)
<1> DEFINE batch == Batch(n)
           Svc(p) == [i \in 1 .. n |-> Service(Left(batch, i), batch[i], p)]
           sums == [p \in Pairs |-> CHOOSE g : Sums(g, Svc(p), n) /\ Total(Svc(p), n) = g[n]]
           At(i) == [p \in Pairs |-> ahead[p] + sums[p][i]]
           Holds(i) == Fair(Rest(n, i), pending, l, ClockAt(n, i), At(i), drift, m, b)
           S == {i \in Nat : i <= n => Holds(i)}
<1>1. n \in Nat /\ DOMAIN batch = 1 .. n /\ Len(batch) = n
  BY BatchSizesNat DEF Batch
<1>2. ASSUME NEW p \in Pairs PROVE Svc(p) \in [1 .. n -> Int]
  <2> SUFFICES ASSUME NEW i \in 1 .. n PROVE Service(Left(batch, i), batch[i], p) \in Int
    OBVIOUS
  <2>1. batch[i] \in Task
    BY BatchAt, PendingFacts
  <2> QED
    BY <2>1, CostNat DEF Service
<1>3. ASSUME NEW p \in Pairs
      PROVE  Sums(sums[p], Svc(p), n) /\ Total(Svc(p), n) = sums[p][n]
  <2> HIDE DEF Svc
  <2>1. \E g : Sums(g, Svc(p), n) /\ Total(Svc(p), n) = g[n]
    BY <1>1, <1>2, TotalSums
  <2> QED
    BY <2>1
<1> HIDE DEF sums
<1>4. ASSUME NEW p \in Pairs
      PROVE  /\ ahead[p] \in Int /\ sums[p][0] = 0
             /\ \A i \in 0 .. n : sums[p][i] \in Int
             /\ \A i \in 1 .. n : sums[p][i] = sums[p][i - 1] + Svc(p)[i]
  <2> HIDE DEF Svc
  <2>1. Sums(sums[p], Svc(p), n)
    BY <1>3
  <2>2. ahead[p] \in Int
    BY DEF Fair
  <2> QED
    BY <2>1, <2>2 DEF Sums
<1>5. 0 \in S
  <2>1. Rest(n, 0) = Pending
    BY DEF Rest
  <2>2. ClockAt(n, 0) = clock
    <3>1. {clock} \cup {pending[Batch(n)[j]] : j \in 1 .. 0} = {clock}
      OBVIOUS
    <3>2. ClockAt(n, 0) = Largest({clock})
      BY <3>1 DEF ClockAt
    <3>3. Largest({clock}) \in {clock}
      BY FS_Singleton, LargestOf
    <3> QED
      BY <3>2, <3>3
  <2>3. At(0) = ahead
    <3>1. \A p \in Pairs : ahead[p] + sums[p][0] = ahead[p]
      BY <1>4
    <3>2. ahead \in [Pairs -> Int]
      BY DEF Fair
    <3> QED
      BY <3>1, <3>2
  <2> HIDE DEF At
  <2> QED
    BY <2>1, <2>2, <2>3
<1>6. ASSUME NEW i \in S PROVE i + 1 \in S
  <2> SUFFICES ASSUME i + 1 <= n PROVE Holds(i + 1)
    OBVIOUS
  <2> DEFINE t == batch[i + 1]
             e == [p \in Pairs |-> At(i)[p] + Service(Rest(n, i), t, p)]
  <2>1. i \in Nat /\ i + 1 \in 1 .. n /\ Holds(i) /\ i + 1 - 1 = i
    BY <1>1
  <2>2. /\ t \in Rest(n, i) /\ \A u \in Rest(n, i) : pending[t] <= pending[u]
        /\ Rest(n, i + 1) = Rest(n, i) \ {t}
    BY <2>1, BatchNext
  <2>3. ClockAt(n, i + 1) = MaxOf(ClockAt(n, i), pending[t])
    BY <2>1, ClockNext
  <2>4. e = At(i + 1)
    <3> SUFFICES ASSUME NEW p \in Pairs
                 PROVE  At(i)[p] + Service(Rest(n, i), t, p) = ahead[p] + sums[p][i + 1]
      OBVIOUS
    <3>1. Left(batch, i + 1) = Rest(n, i)
      BY <2>1 DEF Left, Rest
    <3>2. Svc(p)[i + 1] = Service(Rest(n, i), t, p) /\ Svc(p)[i + 1] \in Int
      BY <1>2, <2>1, <3>1
    <3> HIDE DEF Svc, t
    <3>3. sums[p][i + 1] = sums[p][i] + Svc(p)[i + 1] /\ sums[p][i] \in Int
      BY <1>1, <1>4, <2>1
    <3>4. At(i)[p] = ahead[p] + sums[p][i]
      OBVIOUS
    <3> QED
      BY <1>4, <3>2, <3>3, <3>4
  <2> HIDE DEF At, batch, t
  <2>5. Fair(Rest(n, i) \ {t}, pending, l, MaxOf(ClockAt(n, i), pending[t]), e, drift, m, b)
    BY <2>1, <2>2, FairPop
  <2> HIDE DEF e
  <2> QED
    BY <2>2, <2>3, <2>4, <2>5
<1>7. S = Nat
  <2> HIDE DEF S
  <2>1. S \in SUBSET Nat
    BY DEF S
  <2> QED
    BY <1>5, <1>6, <2>1, Induction
<1>8. Holds(n)
  BY <1>1, <1>7
<1>9. Rest(n, n) = Pending \ Range(batch)
  BY <1>1 DEF Rest, Range
<1>10. ClockAt(n, n) = Largest({clock} \cup {pending[t] : t \in Range(batch)})
  <2>1. {pending[Batch(n)[j]] : j \in 1 .. n} = {pending[t] : t \in Range(batch)}
    BY <1>1 DEF Range
  <2> QED
    BY <2>1 DEF ClockAt
<1>11. At(n) = [p \in Pairs |-> ahead[p] + Served(batch, p)]
  <2> SUFFICES ASSUME NEW p \in Pairs PROVE sums[p][n] = Served(batch, p)
    OBVIOUS
  <2>1. Served(batch, p) = Total(Svc(p), n)
    BY <1>1 DEF Served
  <2> HIDE DEF Svc
  <2> QED
    BY <1>3, <2>1
<1> HIDE DEF At, S
<1> QED
  BY <1>8, <1>9, <1>10, <1>11

-----------------------------------------------------------------------------
(***************************************************************************)
(* Admissions, charges and restarts.  A tenant's step from Q with l, m, b,  *)
(* d to R with x, y, z, w keeps its pairs even if it moves the level by no  *)
(* more than the debt, the credit and the drift account for.                *)
(***************************************************************************)
Kept(Q, l, m, b, d, R, x, y, z, w) ==
  /\ d <= w
  /\ R # {} => /\ Q # {}
               /\ (Level(R, x) + y) - w <= (Level(Q, l) + m) - d
               /\ (Level(Q, l) - b) + d <= (Level(R, x) - z) + w

LEMMA FairKept ==
  ASSUME NEW P, NEW F, NEW l, NEW C, NEW a, NEW d, NEW m, NEW b,
         Fair(P, F, l, C, a, d, m, b),
         NEW R \in SUBSET Task, NEW G, NEW x, NEW w,
         NEW y \in [Tenant -> Nat], NEW z \in [Tenant -> Nat],
         \A k \in Tenant : Tagged(k, Of(R, k), G, x[k], C, y[k], z[k], w[k]),
         \A k \in Tenant : Kept(Of(P, k), l[k], m[k], b[k], d[k], Of(R, k), x[k], y[k], z[k], w[k])
  PROVE  Fair(R, G, x, C, a, w, y, z)
<1>1. ASSUME NEW p \in Pairs PROVE Even(p, R, a[p], x, y, z, w)
  <2>1. p[1] \in Tenant /\ p[2] \in Tenant
    BY PairTenants
  <2>2. Even(p, P, a[p], l, m, b, d) /\ a[p] \in Int
    BY DEF Fair
  <2>3. ASSUME NEW i \in Tenant
        PROVE  /\ Level(Of(P, i), l[i]) \in Int /\ LargestCost(i) \in Nat
               /\ m[i] \in Nat /\ b[i] \in Nat /\ d[i] \in Nat
               /\ Level(Of(R, i), x[i]) \in Int /\ y[i] \in Nat /\ z[i] \in Nat /\ w[i] \in Int
    <3>1. TagTypes(i, Of(R, i), G, x[i], C, y[i], z[i], w[i])
      BY DEF Tagged
    <3>2. Level(Of(R, i), x[i]) \in Int /\ y[i] \in Nat /\ z[i] \in Nat /\ w[i] \in Int
      BY <3>1, TagFacts
    <3> QED
      BY <3>2, FairFacts
  <2>4. /\ Kept(Of(P, p[1]), l[p[1]], m[p[1]], b[p[1]], d[p[1]],
                Of(R, p[1]), x[p[1]], y[p[1]], z[p[1]], w[p[1]])
        /\ Kept(Of(P, p[2]), l[p[2]], m[p[2]], b[p[2]], d[p[2]],
                Of(R, p[2]), x[p[2]], y[p[2]], z[p[2]], w[p[2]])
    BY <2>1
  <2> QED
    BY <2>1, <2>2, <2>3, <2>4 DEF Even, Kept
<1>2. a \in [Pairs -> Int]
  BY DEF Fair
<1> QED
  BY <1>1, <1>2 DEF Fair

\* The step of one tenant.
Moves(P, F, l, C, a, d, m, b, k, R, G, x, y, z, w) ==
  /\ Fair(P, F, l, C, a, d, m, b)
  /\ l \in [Tenant -> Int] /\ d \in [Tenant -> Int]
  /\ k \in Tenant /\ R \in SUBSET Task
  /\ \A i \in Tenant : i # k => Of(R, i) = Of(P, i)
  /\ \A u \in P : G[u] = F[u]
  /\ Tagged(k, Of(R, k), G, x, C, y, z, w)
  /\ Kept(Of(P, k), l[k], m[k], b[k], d[k], Of(R, k), x, y, z, w)

LEMMA FairOne ==
  ASSUME NEW P, NEW F, NEW l, NEW C, NEW a, NEW d, NEW m, NEW b, NEW k, NEW R, NEW G,
         NEW x, NEW y, NEW z, NEW w, Moves(P, F, l, C, a, d, m, b, k, R, G, x, y, z, w)
  PROVE  Fair(R, G, [l EXCEPT ![k] = x], C, a, [d EXCEPT ![k] = w],
              [m EXCEPT ![k] = y], [b EXCEPT ![k] = z])
<1> USE DEF Moves
<1> DEFINE L == [l EXCEPT ![k] = x]
           D == [d EXCEPT ![k] = w]
           M == [m EXCEPT ![k] = y]
           B == [b EXCEPT ![k] = z]
<1>1. m \in [Tenant -> Nat] /\ b \in [Tenant -> Nat]
  BY DEF Fair
<1>2. y \in Nat /\ z \in Nat
  BY DEF Tagged, TagTypes
<1>3. M \in [Tenant -> Nat] /\ B \in [Tenant -> Nat]
  BY <1>1, <1>2
<1>4. /\ L[k] = x /\ D[k] = w /\ M[k] = y /\ B[k] = z
      /\ \A i \in Tenant : i # k => L[i] = l[i] /\ D[i] = d[i] /\ M[i] = m[i] /\ B[i] = b[i]
  BY <1>1
<1> HIDE DEF L, D, M, B
<1>5. ASSUME NEW i \in Tenant
      PROVE  /\ Tagged(i, Of(R, i), G, L[i], C, M[i], B[i], D[i])
             /\ Kept(Of(P, i), l[i], m[i], b[i], d[i], Of(R, i), L[i], M[i], B[i], D[i])
  <2>1. CASE i = k
    BY <1>4, <2>1
  <2>2. CASE i # k
    <3>1. Tagged(i, Of(P, i), F, l[i], C, m[i], b[i], d[i])
      BY FairFacts
    <3>2. \A u \in Of(P, i) : G[u] = F[u]
      BY DEF Of
    <3>3. Tagged(i, Of(P, i), G, l[i], C, m[i], b[i], d[i])
      BY <3>1, <3>2, TaggedAgree
    <3>4. Of(R, i) = Of(P, i) /\ L[i] = l[i] /\ D[i] = d[i] /\ M[i] = m[i] /\ B[i] = b[i]
      BY <1>4, <2>2
    <3>5. /\ Level(Of(P, i), l[i]) \in Int /\ m[i] \in Nat /\ b[i] \in Nat /\ d[i] \in Nat
      BY FairFacts
    <3> QED
      BY <3>3, <3>4, <3>5 DEF Kept
  <2> QED
    BY <2>1, <2>2
<1>6. Fair(R, G, L, C, a, D, M, B)
  BY <1>3, <1>5, FairKept
<1> QED
  BY <1>6 DEF L, D, M, B

\* A tenant that waits gets another task.
Joins(P, F, l, C, a, d, m, b, t, k, G) ==
  /\ Fair(P, F, l, C, a, d, m, b)
  /\ l \in [Tenant -> Int] /\ d \in [Tenant -> Int]
  /\ t \in Task /\ t \notin P /\ k = t.tenant /\ Of(P, k) # {}
  /\ \A u \in P : G[u] = F[u]

LEMMA FairMore ==
  ASSUME NEW P, NEW F, NEW l, NEW C, NEW a, NEW d, NEW m, NEW b, NEW t, NEW k, NEW G,
         Joins(P, F, l, C, a, d, m, b, t, k, G),
         NEW v \in Int, v <= C, NEW s, s = MaxOf(v, l[k]), G[t] = s + Cost(t)
  PROVE  \E y, z : Fair(P \cup {t}, G, [l EXCEPT ![k] = s + Cost(t)], C, a, d, y, z)
<1> USE DEF Joins
<1> DEFINE R == P \cup {t}
           j == s - l[k]
<1>1. k \in Tenant /\ Cost(t) \in Nat /\ R \in SUBSET Task
  BY CostNat DEF Tenant, Fair
<1>2. s \in Int /\ l[k] <= s /\ l[k] \in Int /\ m[k] \in Nat /\ b[k] \in Nat /\ d[k] \in Nat /\ Level(Of(P, k), l[k]) \in Int
  BY <1>1, FairFacts DEF MaxOf
<1>3. Of(R, k) = Of(P, k) \cup {t} /\ t \notin Of(P, k) /\ \A i \in Tenant : i # k => Of(R, i) = Of(P, i)
  BY DEF Of
<1>4. Tagged(k, Of(R, k), G, s + Cost(t), C, m[k] - j, b[k], d[k])
  <2>1. Tagged(k, Of(P, k), F, l[k], C, m[k], b[k], d[k])
    BY <1>1, FairFacts
  <2>2. \A u \in Of(P, k) : G[u] = F[u]
    BY DEF Of
  <2>3. Tagged(k, Of(P, k) \cup {t}, G, s + Cost(t), C, m[k] - (s - l[k]), b[k], d[k])
    BY <1>3, <2>1, <2>2, TaggedAdmit
  <2> HIDE DEF R
  <2> QED
    BY <1>3, <2>3
<1>5. Level(Of(R, k), s + Cost(t)) = Level(Of(P, k), l[k]) + j
  <2>1. Of(P, k) \in SUBSET Task
    BY <1>1 DEF Of, R
  <2>2. Work(Of(R, k)) = Work(Of(P, k)) + Cost(t) /\ Work(Of(P, k)) \in Nat
    BY <1>3, <2>1, WorkAdd, WorkNat
  <2> HIDE DEF R
  <2> QED
    BY <1>1, <1>2, <2>2 DEF Level
<1>9. j \in Nat
  BY <1>2
<1> HIDE DEF R, j
<1>6. Kept(Of(P, k), l[k], m[k], b[k], d[k], Of(R, k), s + Cost(t), m[k] - j, b[k], d[k])
  <2>1. (Level(Of(P, k), l[k]) + j + (m[k] - j)) - d[k] <= (Level(Of(P, k), l[k]) + m[k]) - d[k]
    BY <1>2, <1>9
  <2>2. (Level(Of(P, k), l[k]) - b[k]) + d[k] <= ((Level(Of(P, k), l[k]) + j) - b[k]) + d[k]
    BY <1>2, <1>9
  <2> QED
    BY <1>2, <1>5, <2>1, <2>2 DEF Kept
<1>7. [d EXCEPT ![k] = d[k]] = d
  OBVIOUS
<1>8. Fair(R, G, [l EXCEPT ![k] = s + Cost(t)], C, a, [d EXCEPT ![k] = d[k]],
           [m EXCEPT ![k] = m[k] - j], [b EXCEPT ![k] = b[k]])
  <2>1. \A u \in P : G[u] = F[u]
    OBVIOUS
  <2>2. Moves(P, F, l, C, a, d, m, b, k, R, G, s + Cost(t), m[k] - j, b[k], d[k])
    BY <1>1, <1>3, <1>4, <1>6, <2>1 DEF Moves
  <2> QED
    BY <2>2, FairOne
<1>10. Fair(R, G, [l EXCEPT ![k] = s + Cost(t)], C, a, d, [m EXCEPT ![k] = m[k] - j], [b EXCEPT ![k] = b[k]])
  BY <1>7, <1>8
<1> QED
  BY <1>10 DEF R

\* A task whose tag is not its tenant's last.
LEMMA FairLate ==
  ASSUME NEW P, NEW F, NEW l, NEW C, NEW a, NEW d, NEW m, NEW b, NEW t, NEW k, NEW G,
         Joins(P, F, l, C, a, d, m, b, t, k, G), G[t] \in Int, G[t] <= l[k]
  PROVE  \E y, z : Fair(P \cup {t}, G, l, C, a, [d EXCEPT ![k] = d[k] + Cost(t)], y, z)
<1> USE DEF Joins
<1> DEFINE R == P \cup {t}
           c == Cost(t)
<1>1. k \in Tenant /\ c \in Nat /\ R \in SUBSET Task
  BY CostNat DEF Tenant, Fair
<1>2. l[k] \in Int /\ m[k] \in Nat /\ b[k] \in Nat /\ d[k] \in Nat /\ Level(Of(P, k), l[k]) \in Int
  BY <1>1, FairFacts
<1>3. Of(R, k) = Of(P, k) \cup {t} /\ t \notin Of(P, k) /\ \A i \in Tenant : i # k => Of(R, i) = Of(P, i)
  BY DEF Of
<1>4. Tagged(k, Of(R, k), G, l[k], C, m[k] + c, b[k], d[k] + c)
  <2>1. Tagged(k, Of(P, k), F, l[k], C, m[k], b[k], d[k])
    BY <1>1, FairFacts
  <2>2. \A u \in Of(P, k) : G[u] = F[u]
    BY DEF Of
  <2> QED
    BY <1>3, <2>1, <2>2, TaggedLate
<1>5. Level(Of(R, k), l[k]) = Level(Of(P, k), l[k]) - c
  <2>1. Of(P, k) \in SUBSET Task
    BY <1>1 DEF Of, R
  <2>2. Work(Of(R, k)) = Work(Of(P, k)) + c /\ Work(Of(P, k)) \in Nat
    BY <1>3, <2>1, WorkAdd, WorkNat
  <2> HIDE DEF R, c
  <2> QED
    BY <1>1, <1>2, <2>2 DEF Level
<1> HIDE DEF R, c
<1>6. Kept(Of(P, k), l[k], m[k], b[k], d[k], Of(R, k), l[k], m[k] + c, b[k], d[k] + c)
  BY <1>1, <1>2, <1>5 DEF Kept
<1>7. [l EXCEPT ![k] = l[k]] = l
  OBVIOUS
<1>8. Fair(R, G, [l EXCEPT ![k] = l[k]], C, a, [d EXCEPT ![k] = d[k] + c],
           [m EXCEPT ![k] = m[k] + c], [b EXCEPT ![k] = b[k]])
  <2>1. \A u \in P : G[u] = F[u]
    OBVIOUS
  <2>2. Moves(P, F, l, C, a, d, m, b, k, R, G, l[k], m[k] + c, b[k], d[k] + c)
    BY <1>1, <1>3, <1>4, <1>6, <2>1 DEF Moves
  <2> QED
    BY <2>2, FairOne
<1>9. Fair(R, G, l, C, a, [d EXCEPT ![k] = d[k] + c], [m EXCEPT ![k] = m[k] + c], [b EXCEPT ![k] = b[k]])
  BY <1>7, <1>8
<1> QED
  BY <1>9 DEF R, c

\* A tenant that had nothing pending gets t with the debt y: the service of
\* its pairs is counted from here.
Opens(P, F, t, G, a, A) ==
  /\ t \in Task /\ Of(P, t.tenant) = {}
  /\ \A u \in P : G[u] = F[u]
  /\ A \in [Pairs -> Int]
  /\ \A p \in Pairs : t.tenant \in Range(p) => A[p] = 0
  /\ \A p \in Pairs : t.tenant \notin Range(p) => A[p] = a[p]

LEMMA FairFirst ==
  ASSUME NEW P, NEW F, NEW l \in [Tenant -> Int], NEW C, NEW a, NEW d \in [Tenant -> Int], NEW m, NEW b,
         Fair(P, F, l, C, a, d, m, b),
         NEW t, NEW G, NEW A, Opens(P, F, t, G, a, A), NEW k, k = t.tenant,
         NEW x, NEW y, Tagged(k, {t}, G, x, C, y, b[k], d[k] + y)
  PROVE  Fair(P \cup {t}, G, [l EXCEPT ![k] = x], C, A, [d EXCEPT ![k] = d[k] + y],
              [m EXCEPT ![k] = y], b)
<1> USE DEF Opens
<1> DEFINE R == P \cup {t}
           L == [l EXCEPT ![k] = x]
           M == [m EXCEPT ![k] = y]
           D == [d EXCEPT ![k] = d[k] + y]
<1>1. k \in Tenant /\ y \in Nat
  BY DEF Tenant, Tagged, TagTypes
<1>2. m \in [Tenant -> Nat] /\ b \in [Tenant -> Nat] /\ a \in [Pairs -> Int]
  BY DEF Fair
<1>3. Of(R, k) = {t} /\ \A i \in Tenant : i # k => Of(R, i) = Of(P, i)
  BY DEF Of
<1>4. /\ L[k] = x /\ M[k] = y /\ D[k] = d[k] + y
      /\ \A i \in Tenant : i # k => L[i] = l[i] /\ M[i] = m[i] /\ D[i] = d[i]
  BY <1>1, <1>2
<1>5. M \in [Tenant -> Nat]
  BY <1>1, <1>2
<1>6. ASSUME NEW i \in Tenant PROVE Tagged(i, Of(R, i), G, L[i], C, M[i], b[i], D[i])
  <2> HIDE DEF L, M, D, R
  <2>1. CASE i = k
    BY <1>3, <1>4, <2>1
  <2>2. CASE i # k
    <3>1. Tagged(i, Of(P, i), F, l[i], C, m[i], b[i], d[i])
      BY FairFacts
    <3>2. \A u \in Of(P, i) : G[u] = F[u]
      BY DEF Of
    <3>3. Tagged(i, Of(P, i), G, l[i], C, m[i], b[i], d[i])
      BY <3>1, <3>2, TaggedAgree
    <3> QED
      BY <1>3, <1>4, <2>2, <3>3
  <2> QED
    BY <2>1, <2>2
<1>7. ASSUME NEW p \in Pairs PROVE Even(p, R, A[p], L, M, b, D)
  <2> HIDE DEF L, M, D, R
  <2>1. CASE k \in Range(p)
    <3>1. Even(p, R, 0, L, M, b, D)
      BY <1>6, FreshEven
    <3> QED
      BY <2>1, <3>1
  <2>2. CASE k \notin Range(p)
    <3>1. A[p] = a[p] /\ p[1] \in Tenant /\ p[2] \in Tenant /\ p[1] # k /\ p[2] # k
      BY <2>2, PairTenants
    <3>2. Even(p, P, a[p], l, m, b, d)
      BY DEF Fair
    <3> QED
      BY <1>3, <1>4, <3>1, <3>2 DEF Even
  <2> QED
    BY <2>1, <2>2
<1>8. R \in SUBSET Task
  BY DEF Fair
<1> HIDE DEF L, M, D, R
<1>9. Fair(R, G, L, C, A, D, M, b)
  BY <1>2, <1>5, <1>6, <1>7, <1>8 DEF Fair
<1> QED
  BY <1>9 DEF R, L, M, D

LEMMA FairWasted ==
  ASSUME NEW P, NEW F, NEW l \in [Tenant -> Int], NEW C, NEW a, NEW d \in [Tenant -> Int], NEW m, NEW b,
         Fair(P, F, l, C, a, d, m, b),
         NEW k \in Tenant, NEW c \in Nat,
         NEW v \in Int, v <= C, NEW s, s = MaxOf(v, l[k])
  PROVE  \E y, z : Fair(P, F, [l EXCEPT ![k] = s + c], C, a, [d EXCEPT ![k] = d[k] + c], y, z)
<1> DEFINE j == Paid(Of(P, k), s, l[k])
<1>1. P \in SUBSET Task /\ Of(P, k) \in SUBSET Task
  BY DEF Fair, Of
<1>2. /\ s \in Int /\ l[k] <= s /\ l[k] \in Int /\ m[k] \in Nat /\ b[k] \in Nat /\ d[k] \in Nat
      /\ Level(Of(P, k), l[k]) \in Int /\ Work(Of(P, k)) \in Nat
  BY <1>1, FairFacts, WorkNat DEF MaxOf
<1>3. Tagged(k, Of(P, k), F, s + c, C, m[k] - j, b[k] + c, d[k] + c)
  BY FairFacts, TaggedWasted
<1>4. Of(P, k) # {} => j = s - l[k]
  BY DEF Paid
<1> HIDE DEF j
<1>5. Kept(Of(P, k), l[k], m[k], b[k], d[k], Of(P, k), s + c, m[k] - j, b[k] + c, d[k] + c)
  BY <1>2, <1>4 DEF Kept, Level
<1>6. Fair(P, F, [l EXCEPT ![k] = s + c], C, a, [d EXCEPT ![k] = d[k] + c],
           [m EXCEPT ![k] = m[k] - j], [b EXCEPT ![k] = b[k] + c])
  <2> DEFINE x == s + c
             y == m[k] - j
             z == b[k] + c
             w == d[k] + c
  <2>1. Moves(P, F, l, C, a, d, m, b, k, P, F, x, y, z, w)
    BY <1>1, <1>3, <1>5 DEF Moves
  <2> HIDE DEF x, y, z, w
  <2>2. Fair(P, F, [l EXCEPT ![k] = x], C, a, [d EXCEPT ![k] = w], [m EXCEPT ![k] = y], [b EXCEPT ![k] = z])
    BY <2>1, FairOne
  <2> QED
    BY <2>2 DEF x, y, z, w
<1> QED
  BY <1>6
\* A restart: the last charge is for nothing, then the tag moves to r.
Debt(Q, l, m, s, c, r) == (m - Paid(Q, s, l)) + MaxOf((s + c) - r, 0)
Credit(b, s, c, r) == (b + c) + MaxOf(r - (s + c), 0)

LEMMA TaggedRestart ==
  ASSUME NEW k, NEW Q, NEW F, NEW l, NEW C, NEW m, NEW b, NEW d,
         Tagged(k, Q, F, l, C, m, b, d),
         NEW c \in Nat, NEW v \in Int, v <= C,
         NEW s, s = MaxOf(v, l), NEW r \in Int,
         NEW w, w = (d + c) + Distance(s + c, r)
  PROVE  /\ Tagged(k, Q, F, r, C, Debt(Q, l, m, s, c, r), Credit(b, s, c, r), w)
         /\ Kept(Q, l, m, b, d, Q, r, Debt(Q, l, m, s, c, r), Credit(b, s, c, r), w)
<1> DEFINE f == s + c
           n == m - Paid(Q, s, l)
<1>1. Tagged(k, Q, F, f, C, n, b + c, d + c)
  BY TaggedWasted
<1>2. TagTypes(k, Q, F, l, C, m, b, d) /\ TagTypes(k, Q, F, f, C, n, b + c, d + c)
  BY <1>1 DEF Tagged
<1>3. /\ l \in Int /\ C \in Int /\ m \in Nat /\ b \in Nat /\ d \in Int /\ Work(Q) \in Nat
      /\ f \in Int /\ n \in Nat /\ s \in Int /\ l <= s
  BY <1>2, TagFacts DEF MaxOf
<1>4. Q # {} => n = m - (s - l)
  BY DEF Paid
<1> HIDE DEF n
<1>5. CASE r <= f
  <2>1. Tagged(k, Q, F, f - (f - r), C, n + (f - r), b + c, (d + c) + (f - r))
    <3>1. f - r \in Nat
      BY <1>3, <1>5
    <3> HIDE DEF f
    <3> QED
      BY <1>1, <3>1, TaggedLost
  <2>2. f - (f - r) = r /\ w = (d + c) + (f - r)
    BY <1>3, <1>5 DEF Distance
  <2>3. Debt(Q, l, m, s, c, r) = n + (f - r) /\ Credit(b, s, c, r) = b + c
    BY <1>3, <1>5 DEF Debt, Credit, MaxOf, n
  <2>4. Kept(Q, l, m, b, d, Q, r, n + (f - r), b + c, w)
    BY <1>3, <1>4, <1>5, <2>2 DEF Kept, Level
  <2> HIDE DEF f
  <2> QED
    BY <2>1, <2>2, <2>3, <2>4
<1>6. CASE ~(r <= f)
  <2> DEFINE u == IF C < f THEN C ELSE f
             e == r - f
  <2>1. u \in Int /\ u <= C /\ f = MaxOf(u, f) /\ e \in Nat /\ f + e = r
    BY <1>3, <1>6 DEF MaxOf
  <2>2. Tagged(k, Q, F, f + e, C, n - Paid(Q, f, f), (b + c) + e, (d + c) + e)
    <3> HIDE DEF u, e, f
    <3> QED
      BY <1>1, <2>1, TaggedWasted
  <2>3. n - Paid(Q, f, f) = n /\ w = (d + c) + e
    BY <1>3, <1>6 DEF Paid, Distance
  <2>4. Debt(Q, l, m, s, c, r) = n /\ Credit(b, s, c, r) = (b + c) + e
    BY <1>3, <1>6 DEF Debt, Credit, MaxOf, n
  <2>5. Kept(Q, l, m, b, d, Q, r, n, (b + c) + e, w)
    BY <1>3, <1>4, <1>6, <2>3 DEF Kept, Level
  <2> HIDE DEF e, f
  <2> QED
    BY <2>1, <2>2, <2>3, <2>4, <2>5
<1> QED
  BY <1>5, <1>6

Resets(l, d, C, v, c, f, r, D) ==
  /\ l \in [Tenant -> Int] /\ d \in [Tenant -> Int] /\ c \in [Tenant -> Nat]
  /\ v \in [Tenant -> Int] /\ r \in [Tenant -> Int]
  /\ \A k \in Tenant : /\ v[k] <= C /\ f[k] = MaxOf(v[k], l[k]) + c[k]
                        /\ D[k] = (d[k] + c[k]) + Distance(f[k], r[k])

LEMMA FairRestart ==
  ASSUME NEW P, NEW F, NEW l, NEW C, NEW a, NEW d, NEW m, NEW b, NEW v, NEW c, NEW f, NEW r, NEW D,
         Fair(P, F, l, C, a, d, m, b), Resets(l, d, C, v, c, f, r, D)
  PROVE  \E y, z : Fair(P, F, r, C, a, D, y, z)
<1> USE DEF Resets
<1> DEFINE s(k) == MaxOf(v[k], l[k])
           y == [k \in Tenant |-> Debt(Of(P, k), l[k], m[k], s(k), c[k], r[k])]
           z == [k \in Tenant |-> Credit(b[k], s(k), c[k], r[k])]
<1>1. ASSUME NEW k \in Tenant
      PROVE  /\ Tagged(k, Of(P, k), F, r[k], C, y[k], z[k], D[k])
             /\ Kept(Of(P, k), l[k], m[k], b[k], d[k], Of(P, k), r[k], y[k], z[k], D[k])
             /\ y[k] \in Nat /\ z[k] \in Nat
  <2>1. Tagged(k, Of(P, k), F, l[k], C, m[k], b[k], d[k])
    BY FairFacts
  <2>2. c[k] \in Nat /\ v[k] \in Int /\ v[k] <= C /\ r[k] \in Int
    OBVIOUS
  <2>3. D[k] = (d[k] + c[k]) + Distance(s(k) + c[k], r[k])
    OBVIOUS
  <2>4. y[k] = Debt(Of(P, k), l[k], m[k], s(k), c[k], r[k]) /\ z[k] = Credit(b[k], s(k), c[k], r[k])
    OBVIOUS
  <2>5. s(k) = MaxOf(v[k], l[k])
    OBVIOUS
  <2> HIDE DEF s, y, z
  <2>6. /\ Tagged(k, Of(P, k), F, r[k], C, y[k], z[k], D[k])
        /\ Kept(Of(P, k), l[k], m[k], b[k], d[k], Of(P, k), r[k], y[k], z[k], D[k])
    BY <2>1, <2>2, <2>3, <2>4, <2>5, TaggedRestart
  <2> QED
    BY <2>6 DEF Tagged, TagTypes
<1>2. y \in [Tenant -> Nat] /\ z \in [Tenant -> Nat]
  <2>1. \A k \in Tenant : y[k] \in Nat /\ z[k] \in Nat
    BY <1>1
  <2> QED
    BY <2>1
<1>3. P \in SUBSET Task
  BY DEF Fair
<1> HIDE DEF y, z
<1>4. Fair(P, F, r, C, a, D, y, z)
  BY <1>1, <1>2, <1>3, FairKept
<1> QED
  BY <1>4
-----------------------------------------------------------------------------
(***************************************************************************)
(* The inductive invariant.  The virtual time, what is to be notified and   *)
(* what a restart may restore are no later than the clock; the tags of the  *)
(* calls under way are at most their tenant's last one, and no two alike;   *)
(* and for some debts and credits the queue is fair, counting for a tenant  *)
(* whose last call is under way the tag g before it.                        *)
(***************************************************************************)
Behind ==
  /\ 0 <= clock /\ virtualTime <= clock
  /\ \A x \in unnotified : x <= clock
  /\ saved # NoState => saved.vtime <= clock
  /\ flushing # NoState => flushing.vtime <= clock

Apart ==
  /\ \A r \in ranked : r.tag <= lastFinish[r.task.tenant]
  /\ \A r, q \in ranked : r.task.tenant = q.task.tenant /\ r.tag = q.tag => r = q

Chained(g) ==
  /\ g \in [Tenant -> Int]
  /\ \A r \in ranked :
       LET k == r.task.tenant
       IN  IF r.tag = lastFinish[k]
             THEN g[k] <= Begin(r) /\ (Begin(r) = g[k] \/ Begin(r) <= clock)
             ELSE r.tag <= g[k]
  /\ \A k \in Tenant :
       (\A r \in ranked : r.task.tenant = k => r.tag # lastFinish[k]) => g[k] = lastFinish[k]

FairState ==
  \E g, m, b : Chained(g) /\ Fair(Pending, pending, g, clock, ahead, drift, m, b)

FairInv ==
  /\ OrderInv
  /\ clock \in Int
  /\ drift \in [Tenant -> Int]
  /\ policy = "wfq" => Behind /\ Apart /\ FairState

LEMMA RestoredTyped ==
  ASSUME OrderInv
  PROVE  Restored.vtime \in Int /\ Restored.finish \in [Tenant -> Int]
BY DEF OrderInv, Restored, SavedState

LEMMA InitFair == Init => FairInv
<1> SUFFICES ASSUME Init PROVE FairInv
  OBVIOUS
<1> DEFINE z == [k \in Tenant |-> 0]
<1>1. OrderInv
  BY InitOrder
<1>2. /\ Pending = {} /\ lastFinish = z /\ drift = z /\ clock = 0 /\ ahead = [p \in Pairs |-> 0]
      /\ ranked = {}
  BY DEF Init, Pending
<1>3. clock \in Int /\ drift \in [Tenant -> Int]
  BY <1>2
<1>4. Behind /\ Apart
  BY DEF Init, Behind, Apart
<1>5. ASSUME NEW k \in Tenant PROVE Tagged(k, Of({}, k), pending, 0, 0, 0, 0, 0)
  <2>1. Of({}, k) = {}
    BY DEF Of
  <2>2. Tagged(k, {}, pending, 0, 0, 0, 0, 0)
    BY WorkEmpty DEF Tagged, TagTypes, NotAhead, Reaches, Packed, NotBehind, Level
  <2> QED
    BY <2>1, <2>2
<1>6. ASSUME NEW p \in Pairs PROVE Even(p, {}, 0, z, z, z, z)
  <2>1. p[1] \in Tenant /\ p[2] \in Tenant
    BY PairTenants
  <2>2. Of({}, p[1]) = {} /\ z[p[1]] = 0 /\ z[p[2]] = 0
    BY <2>1 DEF Of
  <2>3. LargestCost(p[1]) \in Nat /\ LargestCost(p[2]) \in Nat
    BY <2>1, LargestCostBounds
  <2> QED
    BY <2>2, <2>3 DEF Even
<1>7. Fair({}, pending, z, 0, [p \in Pairs |-> 0], z, z, z)
  BY <1>5, <1>6 DEF Fair
<1>8. Chained(z)
  BY <1>2 DEF Chained
<1>9. FairState
  BY <1>2, <1>7, <1>8 DEF FairState
<1> QED
  BY <1>1, <1>3, <1>4, <1>9 DEF FairInv

\* The last call of a tenant starts at its tag g or at a virtual time v that
\* is no later than the clock; a tenant without one has been charged nothing.
Origin(k) == lastFinish[k] - LastCharge(k)
Instant(k) == IF clock < Origin(k) THEN clock ELSE Origin(k)

LEMMA CallFacts ==
  ASSUME FairInv, policy = "wfq", NEW r \in ranked
  PROVE  /\ r.task \in Task /\ r.tag \in Int /\ r.task.tenant \in Tenant
         /\ Cost(r.task) \in Nat /\ Cost(r.task) > 0 /\ Begin(r) \in Int
         /\ lastFinish[r.task.tenant] \in Int /\ r.tag <= lastFinish[r.task.tenant]
         /\ IsLast(r) <=> r.tag = lastFinish[r.task.tenant]
         /\ IsLast(r) => LastCharge(r.task.tenant) = Cost(r.task) /\ Begin(r) = Origin(r.task.tenant)
<1> DEFINE k == r.task.tenant
           last == {q \in ranked : q.task.tenant = k /\ IsLast(q)}
<1>1. r.task \in Task /\ r.tag \in Int
  BY DEF FairInv, OrderInv, Call
<1>2. k \in Tenant /\ Cost(r.task) \in Nat /\ Cost(r.task) > 0
  BY <1>1, CostNat, CostAssumption DEF Tenant
<1>3. lastFinish[k] \in Int /\ r.tag <= lastFinish[k] /\ Begin(r) \in Int
  BY <1>1, <1>2 DEF FairInv, OrderInv, Apart, Begin
<1>4. IsLast(r) <=> r.tag = lastFinish[k]
  BY DEF IsLast
<1>5. ASSUME IsLast(r) PROVE LastCharge(k) = Cost(r.task) /\ Begin(r) = Origin(k)
  <2>1. last = {r}
    BY <1>5 DEF IsLast, FairInv, Apart
  <2>2. (CHOOSE q \in last : TRUE) = r
    BY <2>1
  <2>3. LastCharge(k) = Cost(r.task)
    BY <2>1, <2>2 DEF LastCharge
  <2> QED
    BY <1>4, <1>5, <2>3 DEF Begin, Origin
<1> QED
  BY <1>1, <1>2, <1>3, <1>4, <1>5

LEMMA OriginFacts ==
  ASSUME FairInv, policy = "wfq", NEW g, Chained(g), NEW k \in Tenant
  PROVE  /\ LastCharge(k) \in Nat /\ g[k] \in Int /\ lastFinish[k] \in Int
         /\ Instant(k) \in Int /\ Instant(k) <= clock
         /\ lastFinish[k] = MaxOf(Instant(k), g[k]) + LastCharge(k)
         /\ MaxOf(Instant(k), g[k]) = Origin(k)
<1> DEFINE last == {q \in ranked : q.task.tenant = k /\ IsLast(q)}
<1>1. g[k] \in Int /\ lastFinish[k] \in Int /\ clock \in Int
  BY DEF Chained, FairInv, OrderInv
<1>2. CASE last = {}
  <2>1. LastCharge(k) = 0
    BY <1>2 DEF LastCharge
  <2>2. g[k] = lastFinish[k]
    BY <1>2 DEF Chained, IsLast
  <2> QED
    BY <1>1, <2>1, <2>2 DEF Instant, Origin, MaxOf
<1>3. CASE last # {}
  <2>1. PICK r \in ranked : r.task.tenant = k /\ IsLast(r)
    BY <1>3
  <2>2. LastCharge(k) = Cost(r.task) /\ Begin(r) = Origin(k) /\ Cost(r.task) \in Nat
        /\ r.tag = lastFinish[k] /\ Begin(r) \in Int
    BY <2>1, CallFacts
  <2>3. g[k] <= Begin(r) /\ (Begin(r) = g[k] \/ Begin(r) <= clock)
    BY <2>1, <2>2 DEF Chained
  <2>4. Origin(k) \in Int /\ lastFinish[k] = Origin(k) + LastCharge(k)
    BY <1>1, <2>2 DEF Origin
  <2>5. Instant(k) \in Int /\ Instant(k) <= clock /\ MaxOf(Instant(k), g[k]) = Origin(k)
    BY <1>1, <2>2, <2>3, <2>4 DEF Instant, MaxOf
  <2> QED
    BY <1>1, <2>2, <2>4, <2>5
<1> QED
  BY <1>2, <1>3

\* The tag that wfq gives a task.
LEMMA RankFacts ==
  ASSUME FairInv, policy = "wfq", NEW t \in Task
  PROVE  /\ t.tenant \in Tenant /\ Cost(t) \in Nat /\ Cost(t) > 0
         /\ virtualTime \in Int /\ virtualTime <= clock /\ lastFinish \in [Tenant -> Int]
         /\ Score(t) = MaxOf(virtualTime, lastFinish[t.tenant]) + Cost(t)
         /\ Finish(t) = Score(t) /\ Score(t) \in Int /\ lastFinish[t.tenant] < Score(t)
<1>1. t.tenant \in Tenant /\ Cost(t) \in Nat /\ Cost(t) > 0
  BY CostNat, CostAssumption DEF Tenant
<1>2. virtualTime \in Int /\ virtualTime <= clock /\ lastFinish \in [Tenant -> Int]
  BY DEF FairInv, OrderInv, Behind
<1>3. Finish(t) = MaxOf(virtualTime, lastFinish[t.tenant]) + Cost(t) /\ Score(t) = Finish(t)
  BY DEF Finish, Start, Score
<1>4. Finish(t) \in Int /\ lastFinish[t.tenant] < Finish(t)
  BY <1>1, <1>2, <1>3 DEF MaxOf
<1> QED
  BY <1>1, <1>2, <1>3, <1>4

\* Rank: the call that it overtakes is charged for nothing.
LEMMA RankFair ==
  ASSUME FairInv, policy = "wfq", NEW t \in Task, Rank(t)
  PROVE  Apart' /\ FairState'
<1> DEFINE k == t.tenant
           c == LastCharge(k)
           n == [task |-> t, tag |-> Score(t)]
<1>1. /\ lastFinish' = [lastFinish EXCEPT ![k] = Score(t)] /\ ranked' = ranked \cup {n}
      /\ drift' = [drift EXCEPT ![k] = drift[k] + c]
      /\ UNCHANGED <<pending, clock, ahead>>
  BY RankFacts DEF Rank, Charge
<1>2. /\ k \in Tenant /\ Cost(t) \in Nat /\ Cost(t) > 0 /\ virtualTime \in Int /\ virtualTime <= clock
      /\ lastFinish \in [Tenant -> Int] /\ Score(t) \in Int /\ lastFinish[k] < Score(t)
      /\ Score(t) = MaxOf(virtualTime, lastFinish[k]) + Cost(t)
  BY RankFacts
<1>3. PICK g, m, b : Chained(g) /\ Fair(Pending, pending, g, clock, ahead, drift, m, b)
  BY DEF FairInv, FairState
<1>h. PICK h : h = [g EXCEPT ![k] = lastFinish[k]]
  OBVIOUS
<1>4. /\ c \in Nat /\ Instant(k) \in Int /\ Instant(k) <= clock
      /\ lastFinish[k] = MaxOf(Instant(k), g[k]) + c /\ g \in [Tenant -> Int]
  BY <1>2, <1>3, OriginFacts DEF Chained
<1>5. drift \in [Tenant -> Int]
  BY DEF FairInv
<1>6. PICK y, z : Fair(Pending, pending, h, clock, ahead, [drift EXCEPT ![k] = drift[k] + c], y, z)
  <2> HIDE DEF c, k
  <2>1. \E y, z : Fair(Pending, pending, [g EXCEPT ![k] = MaxOf(Instant(k), g[k]) + c], clock, ahead,
                       [drift EXCEPT ![k] = drift[k] + c], y, z)
    BY <1>2, <1>3, <1>4, <1>5, FairWasted
  <2> QED
    BY <1>4, <1>h, <2>1 DEF k
<1>7. n.task = t /\ n.tag = Score(t) /\ Begin(n) = MaxOf(virtualTime, lastFinish[k])
  <2>1. MaxOf(virtualTime, lastFinish[k]) \in Int
    BY <1>2 DEF MaxOf
  <2> QED
    BY <1>2, <2>1 DEF Begin
<1> HIDE DEF n, c
<1>8. ASSUME NEW r \in ranked
      PROVE  /\ r.task.tenant \in Tenant /\ r.tag \in Int /\ r.tag <= lastFinish[r.task.tenant]
             /\ r.task.tenant = k => r.tag < lastFinish'[k] /\ r.tag <= h[k]
             /\ r.task.tenant # k => lastFinish'[r.task.tenant] = lastFinish[r.task.tenant]
                                     /\ h[r.task.tenant] = g[r.task.tenant]
  BY <1>1, <1>2, <1>4, <1>h, CallFacts
<1>9. /\ lastFinish'[k] = Score(t) /\ h[k] = lastFinish[k] /\ h \in [Tenant -> Int]
      /\ \A i \in Tenant : i # k => lastFinish'[i] = lastFinish[i] /\ h[i] = g[i]
  BY <1>1, <1>2, <1>4, <1>h
<1>10. Apart'
  <2>1. ASSUME NEW r \in ranked' PROVE r.tag <= lastFinish'[r.task.tenant]
    <3>1. CASE r \in ranked
      BY <1>2, <1>8, <1>9, <3>1
    <3>2. CASE r = n
      BY <1>2, <1>7, <1>9, <3>2
    <3> QED
      BY <1>1, <3>1, <3>2
  <2>2. ASSUME NEW r \in ranked', NEW q \in ranked', r.task.tenant = q.task.tenant, r.tag = q.tag
        PROVE  r = q
    <3>1. CASE r \in ranked /\ q \in ranked
      BY <2>2, <3>1 DEF FairInv, Apart
    <3>2. CASE r = n /\ q \in ranked
      BY <1>2, <1>7, <1>8, <1>9, <2>2, <3>2
    <3>3. CASE q = n /\ r \in ranked
      BY <1>2, <1>7, <1>8, <1>9, <2>2, <3>3
    <3> QED
      BY <1>1, <3>1, <3>2, <3>3
  <2> QED
    BY <2>1, <2>2 DEF Apart
<1>11. Chained(h)'
  <2>1. ASSUME NEW r \in ranked'
        PROVE  IF r.tag = lastFinish'[r.task.tenant]
                 THEN h[r.task.tenant] <= Begin(r) /\ (Begin(r) = h[r.task.tenant] \/ Begin(r) <= clock)
                 ELSE r.tag <= h[r.task.tenant]
    <3>1. CASE r \in ranked /\ r.task.tenant = k
      BY <1>2, <1>8, <1>9, <3>1
    <3>2. CASE r \in ranked /\ r.task.tenant # k
      BY <1>3, <1>8, <3>2 DEF Chained
    <3>3. CASE r = n
      <4>1. h[k] <= Begin(n) /\ (Begin(n) = h[k] \/ Begin(n) <= clock)
        BY <1>2, <1>7, <1>9 DEF MaxOf
      <4> QED
        BY <1>7, <1>9, <3>3, <4>1
    <3> QED
      BY <1>1, <3>1, <3>2, <3>3
  <2>2. ASSUME NEW i \in Tenant, \A r \in ranked' : r.task.tenant = i => r.tag # lastFinish'[i]
        PROVE  h[i] = lastFinish'[i]
    <3>1. i # k
      BY <1>1, <1>7, <1>9, <2>2
    <3>2. \A r \in ranked : r.task.tenant = i => r.tag # lastFinish[i]
      BY <1>1, <1>9, <2>2, <3>1
    <3>3. g[i] = lastFinish[i]
      BY <1>3, <3>2 DEF Chained
    <3> QED
      BY <1>9, <3>1, <3>3
  <2>3. \A r \in ranked' : Begin(r)' = Begin(r)
    BY DEF Begin
  <2> QED
    BY <1>1, <1>9, <2>1, <2>2, <2>3 DEF Chained
<1>12. Pending' = Pending
  BY <1>1 DEF Pending
<1>13. Fair(Pending', pending', h, clock', ahead', drift', y, z)
  BY <1>1, <1>6, <1>12
<1>14. FairState'
  BY <1>11, <1>13 DEF FairState
<1> QED
  BY <1>10, <1>14
\* A call ends: the tags of the others stay chained.
LEMMA ApartFewer ==
  ASSUME Apart, ranked' \subseteq ranked, UNCHANGED lastFinish
  PROVE  Apart'
BY DEF Apart

LEMMA ChainedLater ==
  ASSUME FairInv, policy = "wfq", NEW g, Chained(g),
         UNCHANGED <<ranked, lastFinish>>, clock' \in Int, clock <= clock'
  PROVE  Chained(g)'
<1>1. ASSUME NEW r \in ranked
      PROVE  /\ Begin(r)' = Begin(r) /\ Begin(r) \in Int
             /\ Begin(r) <= clock => Begin(r) <= clock'
  <2>1. clock \in Int /\ Begin(r) \in Int
    BY CallFacts DEF FairInv
  <2> QED
    BY <2>1 DEF Begin
<1> QED
  BY <1>1 DEF Chained

LEMMA ChainedWithout ==
  ASSUME FairInv, policy = "wfq", NEW g, Chained(g), NEW r \in ranked, ~IsLast(r),
         ranked' = ranked \ {r}, UNCHANGED <<lastFinish, clock>>
  PROVE  Chained(g)' /\ r.tag <= g[r.task.tenant]
<1>1. r.tag # lastFinish[r.task.tenant]
  BY CallFacts
<1>2. \A q \in ranked : Begin(q)' = Begin(q)
  BY DEF Begin
<1>3. ASSUME NEW k \in Tenant, \A q \in ranked' : q.task.tenant = k => q.tag # lastFinish'[k]
      PROVE  g[k] = lastFinish'[k]
  <2>1. \A q \in ranked : q.task.tenant = k => q.tag # lastFinish[k]
    BY <1>1, <1>3
  <2> QED
    BY <2>1 DEF Chained
<1> QED
  BY <1>1, <1>2, <1>3 DEF Chained

LEMMA ChainedPast ==
  ASSUME FairInv, policy = "wfq", NEW g, Chained(g), NEW r \in ranked, IsLast(r),
         NEW h, h = [g EXCEPT ![r.task.tenant] = lastFinish[r.task.tenant]],
         ranked' = ranked \ {r}, UNCHANGED <<lastFinish, clock>>
  PROVE  Chained(h)'
<1> DEFINE k == r.task.tenant
<1>1. k \in Tenant /\ lastFinish[k] \in Int /\ r.tag = lastFinish[k]
  BY CallFacts
<1>2. g \in [Tenant -> Int]
  BY DEF Chained
<1>3. h \in [Tenant -> Int] /\ h[k] = lastFinish[k] /\ \A i \in Tenant : i # k => h[i] = g[i]
  BY <1>1, <1>2
<1>4. \A q \in ranked : Begin(q)' = Begin(q)
  BY DEF Begin
<1>5. ASSUME NEW q \in ranked'
      PROVE  IF q.tag = lastFinish'[q.task.tenant]
               THEN h[q.task.tenant] <= Begin(q) /\ (Begin(q) = h[q.task.tenant] \/ Begin(q) <= clock)
               ELSE q.tag <= h[q.task.tenant]
  <2>1. q \in ranked /\ q # r /\ q.task.tenant \in Tenant
    BY CallFacts
  <2>2. CASE q.task.tenant = k
    <3>1. q.tag <= lastFinish[k] /\ q.tag # lastFinish[k]
      BY <1>1, <2>1, <2>2 DEF FairInv, Apart
    <3> QED
      BY <1>3, <2>2, <3>1
  <2>3. CASE q.task.tenant # k
    BY <1>3, <2>1, <2>3 DEF Chained
  <2> QED
    BY <2>2, <2>3
<1>6. ASSUME NEW i \in Tenant, \A q \in ranked' : q.task.tenant = i => q.tag # lastFinish'[i]
      PROVE  h[i] = lastFinish'[i]
  <2>1. CASE i = k
    BY <1>3, <2>1
  <2>2. CASE i # k
    <3>1. \A q \in ranked : q.task.tenant = i => q.tag # lastFinish[i]
      BY <1>6, <2>2
    <3> QED
      BY <1>3, <2>2, <3>1 DEF Chained
  <2> QED
    BY <2>1, <2>2
<1> HIDE DEF k
<1> QED
  BY <1>3, <1>4, <1>5, <1>6 DEF Chained

\* A call that adds nothing.
LEMMA WastedFair ==
  ASSUME FairInv, policy = "wfq", NEW r \in ranked, Wasted(r)
  PROVE  Apart' /\ FairState'
<1> DEFINE k == r.task.tenant
           c == Cost(r.task)
<1>1. /\ ranked' = ranked \ {r} /\ UNCHANGED <<lastFinish, pending, clock, ahead>>
      /\ drift' = [drift EXCEPT ![k] = drift[k] + (IF IsLast(r) THEN c ELSE 0)]
  BY DEF Wasted, policyState
<1>2. Apart'
  BY <1>1, ApartFewer DEF FairInv
<1>3. PICK g, m, b : Chained(g) /\ Fair(Pending, pending, g, clock, ahead, drift, m, b)
  BY DEF FairInv, FairState
<1>4. Pending' = Pending
  BY <1>1 DEF Pending
<1>5. drift \in [Tenant -> Int] /\ k \in Tenant
  BY CallFacts DEF FairInv
<1>6. CASE ~IsLast(r)
  <2>1. Chained(g)'
    BY <1>1, <1>3, <1>6, ChainedWithout
  <2>2. drift' = drift
    <3>1. drift[k] + 0 = drift[k]
      BY <1>5
    <3> QED
      BY <1>1, <1>5, <1>6, <3>1
  <2>3. Fair(Pending', pending', g, clock', ahead', drift', m, b)
    BY <1>1, <1>3, <1>4, <2>2
  <2> QED
    BY <1>2, <2>1, <2>3 DEF FairState
<1>7. CASE IsLast(r)
  <2>1. PICK h : h = [g EXCEPT ![k] = lastFinish[k]]
    OBVIOUS
  <2>2. Chained(h)'
    BY <1>1, <1>3, <1>7, <2>1, ChainedPast
  <2>3. /\ c \in Nat /\ Instant(k) \in Int /\ Instant(k) <= clock
        /\ lastFinish[k] = MaxOf(Instant(k), g[k]) + c /\ g \in [Tenant -> Int]
    BY <1>3, <1>5, <1>7, CallFacts, OriginFacts DEF Chained
  <2>4. PICK y, z : Fair(Pending, pending, h, clock, ahead, [drift EXCEPT ![k] = drift[k] + c], y, z)
    <3> HIDE DEF c, k
    <3>1. \E y, z : Fair(Pending, pending, [g EXCEPT ![k] = MaxOf(Instant(k), g[k]) + c], clock, ahead,
                         [drift EXCEPT ![k] = drift[k] + c], y, z)
      BY <1>3, <1>5, <2>3, FairWasted
    <3> QED
      BY <2>1, <2>3, <3>1 DEF k
  <2>5. Fair(Pending', pending', h, clock', ahead', drift', y, z)
    BY <1>1, <1>4, <1>7, <2>4
  <2> QED
    BY <1>2, <2>2, <2>5 DEF FairState
<1> QED
  BY <1>6, <1>7
\* What a call that lands does to the queue.
LEMMA LandFacts ==
  ASSUME FairInv, policy = "wfq", NEW r \in ranked, Admit(r), NEW k, k = r.task.tenant
  PROVE  /\ r.task \in Task /\ r.task \notin Pending /\ k \in Tenant
         /\ ranked' = ranked \ {r} /\ UNCHANGED <<lastFinish, clock>>
         /\ drift \in [Tenant -> Int] /\ drift' = [drift EXCEPT ![k] = drift[k] + Lateness(r)]
         /\ Pending' = Pending \cup {r.task}
         /\ pending'[r.task] = r.tag /\ \A u \in Pending : pending'[u] = pending[u]
         /\ Backlogged(k) <=> Of(Pending, k) # {}
         /\ ahead \in [Pairs -> Int]
         /\ Backlogged(k) => ahead' = ahead
         /\ ~Backlogged(k) => Opens(Pending, pending, r.task, pending', ahead, ahead')
<1> DEFINE t == r.task
<1>1. /\ t \notin Pending /\ ranked' = ranked \ {r} /\ UNCHANGED <<lastFinish, clock>>
      /\ pending' = [u \in Pending \cup {t} |-> IF u = t THEN r.tag ELSE pending[u]]
      /\ ahead' = [p \in Pairs |-> IF ~Backlogged(k) /\ k \in Range(p) THEN 0 ELSE ahead[p]]
      /\ drift' = [drift EXCEPT ![k] = drift[k] + Lateness(r)]
  BY DEF Admit, Known, policyState
<1>2. t \in Task /\ k \in Tenant /\ drift \in [Tenant -> Int]
  BY CallFacts DEF FairInv
<1>3. Pending' = Pending \cup {t}
  BY <1>1 DEF Pending
<1>4. pending'[t] = r.tag /\ \A u \in Pending : pending'[u] = pending[u]
  BY <1>1
<1>5. Backlogged(k) <=> Of(Pending, k) # {}
  BY DEF Backlogged, Of
<1>6. ahead \in [Pairs -> Int]
  BY DEF FairInv, FairState, Fair
<1>7. Backlogged(k) => ahead' = ahead
  BY <1>1, <1>6
<1>8. ASSUME ~Backlogged(k) PROVE Opens(Pending, pending, t, pending', ahead, ahead')
  <2>1. /\ ahead' \in [Pairs -> Int]
        /\ \A p \in Pairs : k \in Range(p) => ahead'[p] = 0
        /\ \A p \in Pairs : k \notin Range(p) => ahead'[p] = ahead[p]
    BY <1>1, <1>6, <1>8
  <2> QED
    BY <1>2, <1>4, <1>5, <1>8, <2>1 DEF Opens
<1> QED
  BY <1>1, <1>2, <1>3, <1>4, <1>5, <1>6, <1>7, <1>8

\* The last call of a tenant lands.
LEMMA AdmitLastFair ==
  ASSUME FairInv, policy = "wfq", NEW r \in ranked, Admit(r), IsLast(r)
  PROVE  FairState'
<1>k. PICK k : k = r.task.tenant
  OBVIOUS
<1>t. PICK t : t = r.task
  OBVIOUS
<1>1. /\ t \in Task /\ t \notin Pending /\ k \in Tenant /\ k = t.tenant
      /\ ranked' = ranked \ {r} /\ UNCHANGED <<lastFinish, clock>>
      /\ drift \in [Tenant -> Int] /\ drift' = [drift EXCEPT ![k] = drift[k] + Lateness(r)]
      /\ Pending' = Pending \cup {t}
      /\ pending'[t] = r.tag /\ \A u \in Pending : pending'[u] = pending[u]
      /\ Backlogged(k) <=> Of(Pending, k) # {}
      /\ Backlogged(k) => ahead' = ahead
      /\ ~Backlogged(k) => Opens(Pending, pending, t, pending', ahead, ahead')
  BY <1>k, <1>t, LandFacts
<1>2. PICK g, m, b : Chained(g) /\ Fair(Pending, pending, g, clock, ahead, drift, m, b)
  BY DEF FairInv, FairState
<1>3. PICK h : h = [g EXCEPT ![k] = lastFinish[k]]
  OBVIOUS
<1>4. Chained(h)'
  BY <1>1, <1>2, <1>3, <1>k, ChainedPast
<1>5. /\ r.tag = lastFinish[k] /\ Cost(t) \in Nat /\ Cost(t) = LastCharge(k)
      /\ Begin(r) = Origin(k) /\ Begin(r) \in Int /\ r.tag \in Int
  BY <1>k, <1>t, CallFacts
<1>6. /\ Instant(k) \in Int /\ Instant(k) <= clock /\ g[k] \in Int /\ g \in [Tenant -> Int]
      /\ lastFinish[k] = MaxOf(Instant(k), g[k]) + Cost(t)
      /\ MaxOf(Instant(k), g[k]) = Origin(k)
  <2>1. g \in [Tenant -> Int]
    BY <1>2 DEF Chained
  <2> QED
    BY <1>1, <1>2, <1>5, <2>1, OriginFacts
<1>7. PICK s, v : s = MaxOf(v, g[k]) /\ v = Instant(k)
  OBVIOUS
<1>8. v \in Int /\ v <= clock /\ lastFinish[k] = s + Cost(t) /\ pending'[t] = s + Cost(t)
  BY <1>1, <1>5, <1>6, <1>7
<1>9. CASE Backlogged(k)
  <2>1. Lateness(r) = 0
    BY <1>9, <1>k DEF Lateness
  <2>2. drift' = drift
    <3>1. drift[k] + 0 = drift[k]
      BY <1>1
    <3> QED
      BY <1>1, <2>1, <3>1
  <2>3. PICK y, z : Fair(Pending \cup {t}, pending', [g EXCEPT ![k] = s + Cost(t)], clock, ahead, drift, y, z)
    <3>1. Joins(Pending, pending, g, clock, ahead, drift, m, b, t, k, pending')
      BY <1>1, <1>2, <1>6, <1>9 DEF Joins
    <3> QED
      BY <1>7, <1>8, <3>1, FairMore
  <2>4. Fair(Pending', pending', h, clock', ahead', drift', y, z)
    BY <1>1, <1>3, <1>8, <1>9, <2>2, <2>3
  <2> QED
    BY <1>4, <2>4 DEF FairState
<1>10. CASE ~Backlogged(k)
  <2>1. PICK y : y = clock - v
    OBVIOUS
  <2>2. Lateness(r) = y
    <3>1. Lateness(r) = MaxOf(clock - Begin(r), 0) /\ clock \in Int
      BY <1>10, <1>k DEF Lateness, FairInv
    <3> QED
      BY <1>5, <1>7, <2>1, <3>1 DEF Instant, MaxOf
  <2>3. Tagged(k, {t}, pending', s + Cost(t), clock, clock - v, b[k], drift[k] + (clock - v))
    <3>1. Of(Pending, k) = {}
      BY <1>1, <1>10
    <3>2. Tagged(k, Of(Pending, k), pending, g[k], clock, m[k], b[k], drift[k])
      BY <1>1, <1>2, FairFacts
    <3>3. Tagged(k, {}, pending, g[k], clock, m[k], b[k], drift[k])
      BY <3>1, <3>2
    <3> QED
      BY <1>1, <1>7, <1>8, <3>3, TaggedFirst
  <2>4. Opens(Pending, pending, t, pending', ahead, ahead')
    BY <1>1, <1>10
  <2>5. PICK x : x = s + Cost(t)
    OBVIOUS
  <2>6. Tagged(k, {t}, pending', x, clock, y, b[k], drift[k] + y)
    BY <2>1, <2>3, <2>5
  <2>7. Fair(Pending \cup {t}, pending', [g EXCEPT ![k] = x], clock, ahead',
             [drift EXCEPT ![k] = drift[k] + y], [m EXCEPT ![k] = y], b)
    BY <1>1, <1>2, <1>6, <2>4, <2>6, FairFirst
  <2>8. PICK n : n = [m EXCEPT ![k] = y]
    OBVIOUS
  <2>9. Fair(Pending', pending', h, clock', ahead', drift', n, b)
    BY <1>1, <1>3, <1>8, <2>2, <2>5, <2>7, <2>8
  <2> QED
    BY <1>4, <2>9 DEF FairState
<1> QED
  BY <1>9, <1>10

\* An overtaken call lands.
LEMMA AdmitLateFair ==
  ASSUME FairInv, policy = "wfq", NEW r \in ranked, Admit(r), ~IsLast(r)
  PROVE  FairState'
<1>k. PICK k : k = r.task.tenant
  OBVIOUS
<1>t. PICK t : t = r.task
  OBVIOUS
<1>1. /\ t \in Task /\ t \notin Pending /\ k \in Tenant /\ k = t.tenant
      /\ ranked' = ranked \ {r} /\ UNCHANGED <<lastFinish, clock>>
      /\ drift \in [Tenant -> Int] /\ drift' = [drift EXCEPT ![k] = drift[k] + Lateness(r)]
      /\ Pending' = Pending \cup {t}
      /\ pending'[t] = r.tag /\ \A u \in Pending : pending'[u] = pending[u]
      /\ Backlogged(k) <=> Of(Pending, k) # {}
      /\ Backlogged(k) => ahead' = ahead
      /\ ~Backlogged(k) => Opens(Pending, pending, t, pending', ahead, ahead')
  BY <1>k, <1>t, LandFacts
<1>2. PICK g, m, b : Chained(g) /\ Fair(Pending, pending, g, clock, ahead, drift, m, b)
  BY DEF FairInv, FairState
<1>3. Chained(g)' /\ r.tag <= g[k] /\ r.tag \in Int /\ g \in [Tenant -> Int]
  BY <1>1, <1>2, <1>k, ChainedWithout, CallFacts DEF Chained
<1>4. CASE Backlogged(k)
  <2>1. Lateness(r) = Cost(t)
    BY <1>4, <1>k, <1>t DEF Lateness
  <2>2. PICK y, z : Fair(Pending \cup {t}, pending', g, clock, ahead,
                         [drift EXCEPT ![k] = drift[k] + Cost(t)], y, z)
    <3>1. Joins(Pending, pending, g, clock, ahead, drift, m, b, t, k, pending')
      BY <1>1, <1>2, <1>3, <1>4 DEF Joins
    <3>2. pending'[t] \in Int /\ pending'[t] <= g[k]
      BY <1>1, <1>3
    <3> QED
      BY <3>1, <3>2, FairLate
  <2>3. Fair(Pending', pending', g, clock', ahead', drift', y, z)
    BY <1>1, <1>4, <2>1, <2>2
  <2> QED
    BY <1>3, <2>3 DEF FairState
<1>5. CASE ~Backlogged(k)
  <2>1. PICK y : y = MaxOf(clock - (r.tag - Cost(t)), 0)
    OBVIOUS
  <2>2. Lateness(r) = y
    BY <1>5, <1>k, <1>t, <2>1 DEF Lateness, Begin
  <2>3. Tagged(k, {t}, pending', g[k], clock, y, b[k], drift[k] + y)
    <3>1. Of(Pending, k) = {}
      BY <1>1, <1>5
    <3>2. Tagged(k, Of(Pending, k), pending, g[k], clock, m[k], b[k], drift[k])
      BY <1>1, <1>2, FairFacts
    <3>3. Tagged(k, {}, pending, g[k], clock, m[k], b[k], drift[k])
      BY <3>1, <3>2
    <3>4. pending'[t] \in Int /\ pending'[t] <= g[k] /\ y = MaxOf(clock - (pending'[t] - Cost(t)), 0)
      BY <1>1, <1>3, <2>1
    <3> QED
      BY <1>1, <3>3, <3>4, TaggedLateFirst
  <2>4. Opens(Pending, pending, t, pending', ahead, ahead')
    BY <1>1, <1>5
  <2>5. Fair(Pending \cup {t}, pending', [g EXCEPT ![k] = g[k]], clock, ahead',
             [drift EXCEPT ![k] = drift[k] + y], [m EXCEPT ![k] = y], b)
    BY <1>1, <1>2, <1>3, <2>3, <2>4, FairFirst
  <2>6. [g EXCEPT ![k] = g[k]] = g
    BY <1>3
  <2>7. PICK n : n = [m EXCEPT ![k] = y]
    OBVIOUS
  <2>8. Fair(Pending', pending', g, clock', ahead', drift', n, b)
    BY <1>1, <2>2, <2>5, <2>6, <2>7
  <2> QED
    BY <1>3, <2>8 DEF FairState
<1> QED
  BY <1>4, <1>5

LEMMA AdmitFair ==
  ASSUME FairInv, policy = "wfq", NEW r \in ranked, Admit(r)
  PROVE  Apart' /\ FairState'
<1>1. Apart'
  BY LandFacts, ApartFewer DEF FairInv
<1> QED
  BY <1>1, AdmitLastFair, AdmitLateFair

LEMMA RestartFair ==
  ASSUME FairInv, policy = "wfq", Restart
  PROVE  Apart' /\ FairState'
<1> DEFINE c == [k \in Tenant |-> LastCharge(k)]
           v == [k \in Tenant |-> Instant(k)]
<1>1. /\ UNCHANGED <<pending, clock, ahead>> /\ lastFinish' = Restored.finish /\ ranked' = {}
      /\ drift' = [k \in Tenant |-> drift[k] + LastCharge(k) + Distance(lastFinish[k], Restored.finish[k])]
  BY DEF Restart
<1>2. PICK f : f = Restored.finish
  OBVIOUS
<1>3. f \in [Tenant -> Int] /\ lastFinish \in [Tenant -> Int] /\ drift \in [Tenant -> Int]
  BY <1>2, RestoredTyped DEF FairInv, OrderInv
<1>4. PICK g, m, b : Chained(g) /\ Fair(Pending, pending, g, clock, ahead, drift, m, b)
  BY DEF FairInv, FairState
<1>5. ASSUME NEW k \in Tenant
      PROVE  /\ c[k] \in Nat /\ v[k] \in Int /\ v[k] <= clock
             /\ lastFinish[k] = MaxOf(v[k], g[k]) + c[k]
  <2>1. c[k] = LastCharge(k) /\ v[k] = Instant(k)
    OBVIOUS
  <2> HIDE DEF c, v
  <2> QED
    BY <1>4, <2>1, OriginFacts
<1>6. c \in [Tenant -> Nat] /\ v \in [Tenant -> Int]
  <2>1. \A k \in Tenant : LastCharge(k) \in Nat /\ Instant(k) \in Int
    BY <1>4, OriginFacts
  <2> QED
    BY <2>1
<1>7. \A k \in Tenant : drift'[k] = (drift[k] + c[k]) + Distance(lastFinish[k], f[k])
  BY <1>1, <1>2
<1>8. g \in [Tenant -> Int]
  BY <1>4 DEF Chained
<1> HIDE DEF c, v
<1>9. PICK y, z : Fair(Pending, pending, f, clock, ahead, drift', y, z)
  <2>1. Resets(g, drift, clock, v, c, lastFinish, f, drift')
    BY <1>3, <1>5, <1>6, <1>7, <1>8 DEF Resets
  <2> QED
    BY <1>4, <2>1, FairRestart
<1>10. Pending' = Pending
  BY <1>1 DEF Pending
<1>11. Fair(Pending', pending', f, clock', ahead', drift', y, z)
  BY <1>1, <1>9, <1>10
<1>12. Chained(f)'
  BY <1>1, <1>2, <1>3 DEF Chained
<1>13. Apart'
  BY <1>1 DEF Apart
<1> QED
  BY <1>11, <1>12, <1>13 DEF FairState
\* The clock after a batch.
LEMMA BatchClock ==
  ASSUME FairInv, NEW n \in BatchSizes
  PROVE  LET B == Range(Batch(n))
             D == Largest({clock} \cup {pending[t] : t \in B})
         IN  D \in Int /\ clock <= D /\ \A t \in B : pending[t] <= D
<1> DEFINE B == Range(Batch(n))
           T == {pending[t] : t \in B}
           S == {clock} \cup T
           f == [t \in B |-> pending[t]]
<1>1. B \in SUBSET Pending /\ IsFiniteSet(B)
  BY BatchMembers, PendingFinite DEF FairInv
<1> HIDE DEF B
<1>2. T \subseteq Int /\ clock \in Int
  BY <1>1 DEF FairInv, OrderInv
<1>3. f \in Surjection(B, T)
  BY DEF Surjection
<1>4. IsFiniteSet(T)
  <2> HIDE DEF f, T
  <2> QED
    BY <1>1, <1>3, FS_Surjection
<1>5. S \in SUBSET Int /\ IsFiniteSet(S) /\ S # {}
  <2>1. S = T \cup {clock}
    OBVIOUS
  <2> HIDE DEF T
  <2> QED
    BY <1>2, <1>4, <2>1, FS_AddElement
<1>6. Largest(S) \in S /\ \A x \in S : x <= Largest(S)
  <2> HIDE DEF S
  <2> QED
    BY <1>5, LargestOf
<1>7. Largest(S) \in Int /\ clock <= Largest(S) /\ \A t \in B : pending[t] <= Largest(S)
  BY <1>5, <1>6
<1> QED
  BY <1>7 DEF B

LEMMA PoppedFair ==
  ASSUME FairInv, policy = "wfq", NEW n \in BatchSizes, Popped(Batch(n)),
         unnotified' \subseteq unnotified \cup {pending[t] : t \in Range(Batch(n))}
  PROVE  Behind' /\ Apart' /\ FairState' /\ clock' \in Int
<1> DEFINE B == Range(Batch(n))
           D == Largest({clock} \cup {pending[t] : t \in B})
           A == [p \in Pairs |-> ahead[p] + Served(Batch(n), p)]
<1>1. /\ pending' = [t \in Pending \ B |-> pending[t]] /\ ahead' = A /\ clock' = D
      /\ UNCHANGED <<virtualTime, lastFinish, ranked, flushing, saved, drift>>
  BY DEF Popped, policyState
<1>2. D \in Int /\ clock <= D /\ \A t \in B : pending[t] <= D
  BY BatchClock
<1>3. PICK g, m, b : Chained(g) /\ Fair(Pending, pending, g, clock, ahead, drift, m, b)
  BY DEF FairInv, FairState
<1>4. Fair(Pending \ B, pending, g, D, A, drift, m, b)
  BY <1>3, FairBatch DEF FairInv
<1>5. Pending' = Pending \ B /\ \A t \in Pending \ B : pending'[t] = pending[t]
  BY <1>1 DEF Pending
<1> HIDE DEF A, D
<1>6. Fair(Pending', pending', g, clock', ahead', drift', m, b)
  <2>1. ASSUME NEW k \in Tenant
        PROVE  Tagged(k, Of(Pending \ B, k), pending', g[k], D, m[k], b[k], drift[k])
    <3>1. Tagged(k, Of(Pending \ B, k), pending, g[k], D, m[k], b[k], drift[k])
      BY <1>4 DEF Fair
    <3>2. \A u \in Of(Pending \ B, k) : pending'[u] = pending[u]
      BY <1>5 DEF Of
    <3> QED
      BY <3>1, <3>2, TaggedAgree
  <2>2. Fair(Pending \ B, pending', g, D, A, drift, m, b)
    BY <1>4, <2>1 DEF Fair
  <2> QED
    BY <1>1, <1>5, <2>2
<1>7. Behind'
  <2>1. /\ clock \in Int /\ virtualTime \in Int /\ unnotified \subseteq Int
        /\ saved # NoState => saved.vtime \in Int
        /\ flushing # NoState => flushing.vtime \in Int
    BY DEF FairInv, OrderInv, SavedState
  <2>2. \A x \in unnotified' : x <= D
    <3> SUFFICES ASSUME NEW x \in unnotified' PROVE x <= D
      OBVIOUS
    <3>1. CASE x \in unnotified
      <4>1. x <= clock /\ x \in Int
        BY <2>1, <3>1 DEF FairInv, Behind
      <4> QED
        BY <1>2, <2>1, <4>1
    <3>2. CASE x \in {pending[t] : t \in B}
      BY <1>2, <3>2
    <3> QED
      BY <3>1, <3>2
  <2> QED
    BY <1>1, <1>2, <2>1, <2>2 DEF FairInv, Behind
<1>8. Chained(g)'
  BY <1>1, <1>2, <1>3, ChainedLater
<1>9. Apart'
  BY <1>1, ApartFewer DEF FairInv
<1> QED
  BY <1>1, <1>2, <1>6, <1>7, <1>8, <1>9 DEF FairState

\* A step that leaves the queue and the tags alone.
LEMMA QueueSameFair ==
  ASSUME FairInv, policy = "wfq",
         UNCHANGED <<lastFinish, ranked, pending, clock, ahead, drift>>
  PROVE  Apart' /\ FairState'
<1>1. PICK g, m, b : Chained(g) /\ Fair(Pending, pending, g, clock, ahead, drift, m, b)
  BY DEF FairInv, FairState
<1>2. clock' \in Int /\ clock <= clock'
  BY DEF FairInv
<1>3. Chained(g)'
  BY <1>1, <1>2, ChainedLater
<1>4. Pending' = Pending
  BY DEF Pending
<1>5. Fair(Pending', pending', g, clock', ahead', drift', m, b)
  BY <1>1, <1>4
<1>6. Apart'
  BY ApartFewer DEF FairInv
<1> QED
  BY <1>3, <1>5, <1>6 DEF FairState

LEMMA NotifyBehind ==
  ASSUME FairInv, policy = "wfq", Notify
  PROVE  Behind'
<1> DEFINE S == unnotified \cup {virtualTime}
<1>1. S \in SUBSET Int /\ IsFiniteSet(S) /\ S # {} /\ \A x \in S : x <= clock
  BY FS_AddElement DEF FairInv, OrderInv, Behind
<1>2. Largest(S) \in S
  <2> HIDE DEF S
  <2> QED
    BY <1>1, LargestOf
<1>3. virtualTime' = Largest(S) /\ unnotified' = {} /\ UNCHANGED <<flushing, saved, clock>>
  BY DEF Notify, Notified, measures
<1>4. virtualTime' <= clock
  BY <1>1, <1>2, <1>3
<1> QED
  BY <1>3, <1>4 DEF FairInv, Behind

LEMMA RestartBehind ==
  ASSUME FairInv, policy = "wfq", Restart
  PROVE  Behind'
<1>1. /\ virtualTime' = Restored.vtime /\ unnotified' = {} /\ flushing' = NoState
      /\ saved' \in {saved, flushing} /\ UNCHANGED clock
  BY DEF Restart
<1>2. Restored.vtime <= clock
  BY DEF FairInv, Behind, Restored
<1> QED
  BY <1>1, <1>2 DEF FairInv, Behind

LEMMA NextFair == FairInv /\ [Next]_vars => FairInv'
<1> SUFFICES ASSUME FairInv, [Next]_vars PROVE FairInv'
  OBVIOUS
<1> USE DEF AdmitRefused, AdmitLost
<1>1. OrderInv'
  BY NextOrder DEF FairInv
<1>2. policy' = policy
  BY DEF Next, Rank, Admit, Wasted, Dispatch, DispatchLost, Popped, Notify, TakeState, SaveState,
         Restart, Finished, vars
<1>3. CASE policy # "wfq"
  <2>1. clock' = clock
    BY <1>3 DEF Next, Rank, Admit, Wasted, Dispatch, DispatchLost, Popped, Notify, TakeState, SaveState,
                Restart, Finished, vars, measures
  <2>2. \A r \in ranked : ~IsLast(r) /\ Lateness(r) = 0
    BY <1>3 DEF IsLast, Lateness
  <2>3. \A k \in Tenant : LastCharge(k) = 0
    <3> SUFFICES ASSUME NEW k \in Tenant PROVE LastCharge(k) = 0
      OBVIOUS
    <3>1. {r \in ranked : r.task.tenant = k /\ IsLast(r)} = {}
      BY <2>2
    <3> QED
      BY <3>1 DEF LastCharge
  <2>4. /\ drift \in [Tenant -> Int] /\ \A t \in Task : t.tenant \in Tenant
        /\ \A r \in ranked : r.task.tenant \in Tenant
    BY DEF FairInv, OrderInv, Call, Tenant
  <2>5. drift' \in [Tenant -> Int]
    <3>1. ASSUME NEW t \in Task, Rank(t) PROVE drift' \in [Tenant -> Int]
      BY <2>3, <2>4, <3>1 DEF Rank
    <3>2. ASSUME NEW r \in ranked, Admit(r) PROVE drift' \in [Tenant -> Int]
      BY <2>2, <2>4, <3>2 DEF Admit
    <3>3. ASSUME NEW r \in ranked, Wasted(r) PROVE drift' \in [Tenant -> Int]
      BY <2>2, <2>4, <3>3 DEF Wasted
    <3>4. CASE Restart
      <4>1. drift' = [k \in Tenant |-> drift[k] + LastCharge(k) + 0]
        BY <1>3, <3>4 DEF Restart
      <4> QED
        BY <2>3, <2>4, <4>1
    <3>5. CASE drift' = drift
      BY <2>4, <3>5
    <3> QED
      BY <3>1, <3>2, <3>3, <3>4, <3>5
         DEF Next, Dispatch, DispatchLost, Popped, Notify, TakeState, SaveState, Finished, vars, measures
  <2> QED
    BY <1>1, <1>2, <1>3, <2>1, <2>5 DEF FairInv
<1>4. CASE policy = "wfq"
  <2> SUFFICES Behind' /\ Apart' /\ FairState' /\ clock' \in Int /\ drift' \in [Tenant -> Int]
    BY <1>1 DEF FairInv
  <2>1. clock \in Int /\ drift \in [Tenant -> Int] /\ Behind
    BY <1>4 DEF FairInv
  <2>2. ASSUME NEW t \in Task, Rank(t)
        PROVE  Behind' /\ Apart' /\ FairState' /\ clock' \in Int /\ drift' \in [Tenant -> Int]
    <3>1. Apart' /\ FairState'
      BY <1>4, <2>2, RankFair
    <3>2. UNCHANGED <<virtualTime, unnotified, saved, flushing, clock>>
      BY <2>2 DEF Rank, Charge
    <3>3. drift' \in [Tenant -> Int]
      <4>1. t.tenant \in Tenant
        BY DEF Tenant
      <4>2. LastCharge(t.tenant) \in Nat
        BY <1>4, <4>1, OriginFacts DEF FairInv, FairState
      <4> QED
        BY <2>1, <2>2, <4>1, <4>2 DEF Rank
    <3> QED
      BY <2>1, <3>1, <3>2, <3>3 DEF Behind
  <2>3. ASSUME NEW r \in ranked, Admit(r)
        PROVE  Behind' /\ Apart' /\ FairState' /\ clock' \in Int /\ drift' \in [Tenant -> Int]
    <3>1. Apart' /\ FairState'
      BY <1>4, <2>3, AdmitFair
    <3>2. UNCHANGED <<virtualTime, unnotified, saved, flushing, clock>>
      BY <2>3 DEF Admit, policyState
    <3>3. drift' \in [Tenant -> Int]
      <4>1. Lateness(r) \in Int
        BY <1>4, <2>1, CallFacts DEF Lateness, MaxOf
      <4>2. /\ r.task.tenant \in Tenant
            /\ drift' = [drift EXCEPT ![r.task.tenant] = drift[r.task.tenant] + Lateness(r)]
        BY <1>4, <2>3, LandFacts
      <4> QED
        BY <2>1, <4>1, <4>2
    <3> QED
      BY <2>1, <3>1, <3>2, <3>3 DEF Behind
  <2>4. ASSUME NEW r \in ranked, Wasted(r)
        PROVE  Behind' /\ Apart' /\ FairState' /\ clock' \in Int /\ drift' \in [Tenant -> Int]
    <3>1. Apart' /\ FairState'
      BY <1>4, <2>4, WastedFair
    <3>2. UNCHANGED <<virtualTime, unnotified, saved, flushing, clock>>
      BY <2>4 DEF Wasted, policyState
    <3>3. drift' \in [Tenant -> Int]
      BY <1>4, <2>1, <2>4, CallFacts DEF Wasted
    <3> QED
      BY <2>1, <3>1, <3>2, <3>3 DEF Behind
  <2>5. CASE Dispatch
    <3>1. PICK n \in BatchSizes : Popped(Batch(n)) /\ unnotified' = {pending[t] : t \in Range(Batch(n))}
      BY <2>5 DEF Dispatch
    <3> QED
      BY <1>4, <2>1, <3>1, PoppedFair DEF Popped
  <2>6. CASE DispatchLost
    <3>1. PICK n \in BatchSizes : Popped(Batch(n)) /\ unnotified' = unnotified
      BY <2>6 DEF DispatchLost
    <3> QED
      BY <1>4, <2>1, <3>1, PoppedFair DEF Popped
  <2>7. CASE Notify
    <3>1. UNCHANGED <<lastFinish, ranked, pending, clock, ahead, drift>>
      BY <2>7 DEF Notify, measures
    <3> QED
      BY <1>4, <2>1, <2>7, <3>1, NotifyBehind, QueueSameFair
  <2>8. CASE TakeState \/ SaveState
    <3>1. UNCHANGED <<virtualTime, unnotified, lastFinish, ranked, pending, clock, ahead, drift>>
      BY <2>8 DEF TakeState, SaveState, policyState, measures
    <3>2. Behind'
      BY <2>1, <2>8, <3>1 DEF Behind, TakeState, SaveState, State
    <3> QED
      BY <1>4, <2>1, <3>1, <3>2, QueueSameFair
  <2>9. CASE Restart
    <3>1. drift' \in [Tenant -> Int] /\ clock' = clock
      <4>1. \A k \in Tenant : LastCharge(k) \in Nat /\ lastFinish[k] \in Int
        BY <1>4, OriginFacts DEF FairInv, FairState
      <4>2. Restored.finish \in [Tenant -> Int]
        BY RestoredTyped DEF FairInv
      <4>3. ASSUME NEW k \in Tenant
            PROVE  drift[k] + LastCharge(k) + Distance(lastFinish[k], Restored.finish[k]) \in Int
        BY <2>1, <4>1, <4>2 DEF Distance
      <4> QED
        BY <1>4, <2>9, <4>3 DEF Restart
    <3> QED
      BY <1>4, <2>1, <2>9, <3>1, RestartFair, RestartBehind
  <2>10. CASE UNCHANGED vars
    <3>1. UNCHANGED <<virtualTime, unnotified, lastFinish, ranked, flushing, saved, pending, clock, ahead, drift>>
      BY <2>10 DEF vars, measures
    <3>2. Behind'
      BY <2>1, <3>1 DEF Behind
    <3> QED
      BY <1>4, <2>1, <3>1, <3>2, QueueSameFair
  <2> QED
    BY <2>2, <2>3, <2>4, <2>5, <2>6, <2>7, <2>8, <2>9, <2>10 DEF Next, Finished
<1> QED
  BY <1>3, <1>4

\* For any tasks, weights, batch size and number of calls under way, lost calls,
\* duplicates and restarts, with ranks, admissions, dispatches and saves in any
\* order, the service per weight of two waiting tenants differs by at most one
\* task of each and their own drift (wfq.go, engine.go).
THEOREM QueueIsFair == Spec => []FairShare
<1>1. FairInv => FairShare
  <2> SUFFICES ASSUME FairInv, policy = "wfq", NEW p \in Pairs
               PROVE  ahead[p] <= LargestCost(p[1]) + LargestCost(p[2]) + drift[p[1]] + drift[p[2]]
    BY DEF FairShare
  <2>1. PICK g, m, b : Fair(Pending, pending, g, clock, ahead, drift, m, b)
    BY DEF FairInv, FairState
  <2> QED
    BY <2>1 DEF Fair, Even
<1> QED
  BY <1>1, InitFair, NextFair, PTL DEF Spec
=============================================================================
