--------------------------- MODULE ExchangeProofs ---------------------------
(***************************************************************************)
(* Theorems about the bodies and entries of one exchange, for requests in  *)
(* any frames, responses with any headers and bodies, and any epochs.      *)
(***************************************************************************)
EXTENDS Exchange, SequenceTheorems, WellFoundedInduction, TLAPS

Byte == 0..255

-----------------------------------------------------------------------------
(* Recursive functions on 0..n: that there is one, and what it keeps.      *)

\* What holds at 0 and from each number to the next holds up to n: otherwise
\* there were a least number at which it does not.
LEMMA Upto ==
  ASSUME NEW n \in Nat, NEW G, 0 \in G, \A k \in 1..n : k - 1 \in G => k \in G
  PROVE  \A k \in 0..n : k \in G
<1> DEFINE T == {k \in 0..n : k \notin G}
<1>1. SUFFICES ASSUME T # {} PROVE FALSE
  OBVIOUS
<1>2. T \in SUBSET Nat
  OBVIOUS
<1>3. \E x \in T : \A y \in T : ~(<<y, x>> \in OpToRel(<, Nat))
  BY <1>1, <1>2, NatLessThanWellFounded, WFMin
<1>4. PICK x \in T : \A y \in T : ~(y < x)
  BY <1>2, <1>3 DEF OpToRel
<1>5. x # 0
  OBVIOUS
<1>6. x - 1 \in 0..n /\ x - 1 < x /\ x \in 1..n
  BY <1>5
<1> QED
  BY <1>4, <1>6

LEMMA Stays ==
  ASSUME NEW S, NEW n \in Nat, NEW c, c[0] \in S,
         \A k \in 1..n : c[k - 1] \in S => c[k] \in S
  PROVE  \A k \in 0..n : c[k] \in S
<1> DEFINE G == {k \in 0..n : c[k] \in S}
<1>1. 0 \in G /\ \A k \in 1..n : k - 1 \in G => k \in G
  OBVIOUS
<1>2. \A k \in 0..n : k \in G
  <2> HIDE DEF G
  <2> QED BY <1>1, Upto
<1> QED
  BY <1>2

\* Steps g of a function from S to S have a course q from any start.
Course(q, n, start, g) == q[0] = start /\ \A k \in 1..n : q[k] = g[k][q[k - 1]]

LEMMA CourseExists ==
  ASSUME NEW S, NEW n \in Nat, NEW start \in S, NEW g \in [1..n -> [S -> S]]
  PROVE  \E q \in [0..n -> S] : Course(q, n, start, g)
<1> DEFINE Good == {m \in 0..n : \E q \in [0..m -> S] : Course(q, m, start, g)}
<1>1. 0 \in Good
  <2> DEFINE q == [k \in 0..0 |-> start]
  <2>1. q \in [0..0 -> S] /\ Course(q, 0, start, g)
    BY DEF Course
  <2> QED BY <2>1
<1>2. \A m \in 1..n : m - 1 \in Good => m \in Good
  <2> TAKE m \in 1..n
  <2> HAVE m - 1 \in Good
  <2>1. PICK q \in [0..(m - 1) -> S] : Course(q, m - 1, start, g)
    OBVIOUS
  <2> DEFINE r == [k \in 0..m |-> IF k = m THEN g[m][q[m - 1]] ELSE q[k]]
  <2>2. r \in [0..m -> S]
    OBVIOUS
  <2>3. Course(r, m, start, g)
    <3>1. r[0] = start
      BY <2>1 DEF Course
    <3>2. ASSUME NEW k \in 1..m PROVE r[k] = g[k][r[k - 1]]
      <4>1. k - 1 \in 0..m /\ k - 1 # m /\ r[k - 1] = q[k - 1] /\ k \in 0..m
        OBVIOUS
      <4>2. CASE k = m
        BY <4>1, <4>2
      <4>3. CASE k # m
        <5>1. k \in 1..(m - 1)
          BY <4>3
        <5> QED BY <2>1, <4>1, <4>3, <5>1 DEF Course
      <4> QED BY <4>2, <4>3
    <3> QED BY <3>1, <3>2 DEF Course
  <2> QED BY <2>2, <2>3
<1>3. n \in Good
  <2> HIDE DEF Good
  <2>1. n \in 0..n
    OBVIOUS
  <2> QED BY <1>1, <1>2, <2>1, Upto
<1> QED
  BY <1>3
-----------------------------------------------------------------------------
(* Integers and their bytes.                                               *)

LEMMA Divided ==
  \A x \in Nat : x \div 256 \in Nat /\ x % 256 \in Byte /\ x = 256 * (x \div 256) + (x % 256)
BY DEF Byte

\* Each shift leaves the quotient.
LEMMA Shifts ==
  ASSUME NEW n \in Nat, NEW x \in Nat
  PROVE  /\ Shifted(n, x)[0] = x
         /\ \A k \in 0..n : Shifted(n, x)[k] \in Nat
         /\ \A k \in 1..n : Shifted(n, x)[k] = Shifted(n, x)[k - 1] \div 256
<1> DEFINE c == Shifted(n, x)
           Is(q) == q = [k \in 0..n |-> IF k = 0 THEN x ELSE q[k - 1] \div 256]
           g == [k \in 1..n |-> [y \in Nat |-> y \div 256]]
<1>1. PICK q \in [0..n -> Nat] : Course(q, n, x, g)
  <2>1. g \in [1..n -> [Nat -> Nat]]
    BY Divided
  <2> HIDE DEF g
  <2> QED BY <2>1, CourseExists
<1>2. Is(q)
  <2>1. \A k \in 1..n : q[k] = q[k - 1] \div 256
    <3> TAKE k \in 1..n
    <3>1. q[k - 1] \in Nat
      OBVIOUS
    <3> QED BY <1>1, <3>1 DEF Course
  <2>2. q[0] = x
    BY <1>1 DEF Course
  <2>3. \A k \in 0..n : q[k] = IF k = 0 THEN x ELSE q[k - 1] \div 256
    BY <2>1, <2>2
  <2>4. q = [k \in 0..n |-> q[k]]
    OBVIOUS
  <2> QED BY <2>3, <2>4
<1>3. Is(c)
  BY <1>2 DEF Shifted
<1> HIDE DEF c
<1>4. c[0] = x /\ \A k \in 1..n : c[k] = c[k - 1] \div 256
  <2>1. 0 \in 0..n /\ \A k \in 1..n : k \in 0..n /\ k # 0
    OBVIOUS
  <2>2. \A k \in 0..n : c[k] = IF k = 0 THEN x ELSE c[k - 1] \div 256
    BY <1>3
  <2> QED BY <2>1, <2>2
<1>5. \A k \in 0..n : c[k] \in Nat
  <2>1. c[0] \in Nat /\ \A k \in 1..n : c[k - 1] \in Nat => c[k] \in Nat
    BY <1>4, Divided
  <2> QED BY <2>1, Stays
<1> QED
  BY <1>4, <1>5 DEF c

\* Le has n bytes.
LEMMA LeIsText ==
  ASSUME NEW n \in Nat, NEW x \in Nat
  PROVE  /\ Le(n, x) \in Text /\ Len(Le(n, x)) = n
         /\ \A i \in 1..n : Le(n, x)[i] = Shifted(n, x)[i - 1] % 256
<1>1. \A i \in 1..n : Shifted(n, x)[i - 1] \in Nat
  BY Shifts
<1>2. \A i \in 1..n : Shifted(n, x)[i - 1] % 256 \in 0..255
  BY <1>1, Divided DEF Byte
<1>3. Le(n, x) \in [1..n -> 0..255]
  BY <1>2 DEF Le
<1> QED
  BY <1>3 DEF Text, Le

\* What is smaller fits as well.
LEMMA FitsLess ==
  ASSUME NEW n \in Nat, NEW y, Fits(n, y), NEW x \in Nat, x <= y
  PROVE  Fits(n, x)
<1> DEFINE s == Shifted(n, x)
           t == Shifted(n, y)
           G == {k \in 0..n : s[k] <= t[k]}
<1>1. y \in Nat /\ t[n] = 0
  BY DEF Fits
<1>2. s[0] = x /\ \A k \in 1..n : s[k - 1] \in Nat /\ s[k] = s[k - 1] \div 256
  BY Shifts
<1>3. t[0] = y /\ \A k \in 1..n : t[k - 1] \in Nat /\ t[k] = t[k - 1] \div 256
  BY <1>1, Shifts
<1>4. s[n] \in Nat /\ n \in 0..n
  BY Shifts
<1> HIDE DEF s, t
<1>5. \A u, v \in Nat : u <= v => u \div 256 <= v \div 256
  OBVIOUS
<1>6. 0 \in G /\ \A k \in 1..n : k - 1 \in G => k \in G
  BY <1>2, <1>3, <1>5
<1>7. n \in G
  <2> HIDE DEF G
  <2> QED BY <1>4, <1>6, Upto
<1> QED
  BY <1>1, <1>4, <1>7 DEF Fits, s, t

\* FromLe adds up the bytes, the last one first.
LEMMA Values ==
  ASSUME NEW b \in Text
  PROVE  \E v : /\ v[0] = 0 /\ v[Len(b)] = FromLe(b)
                /\ \A k \in 0..Len(b) : v[k] \in Nat
                /\ \A k \in 1..Len(b) : v[k] = b[Len(b) - k + 1] + 256 * v[k - 1]
<1> DEFINE n == Len(b)
           Is(q) == q = [k \in 0..n |-> IF k = 0 THEN 0 ELSE b[n - k + 1] + 256 * q[k - 1]]
           g == [k \in 1..n |-> [y \in Nat |-> b[n - k + 1] + 256 * y]]
<1>1. n \in Nat /\ \A k \in 1..n : b[n - k + 1] \in Nat
  <2>1. n \in Nat /\ b \in [1..n -> 0..255]
    BY LenProperties DEF Text
  <2> HIDE DEF n
  <2>2. \A k \in 1..n : n - k + 1 \in 1..n
    BY <2>1
  <2>3. \A k \in 1..n : b[n - k + 1] \in 0..255
    BY <2>1, <2>2
  <2>4. 0..255 \subseteq Nat
    OBVIOUS
  <2> QED BY <2>1, <2>3, <2>4
<1>2. PICK q \in [0..n -> Nat] : Course(q, n, 0, g)
  <2>1. g \in [1..n -> [Nat -> Nat]]
    BY <1>1
  <2> HIDE DEF g
  <2> QED BY <1>1, <2>1, CourseExists
<1>3. q[0] = 0 /\ \A k \in 1..n : q[k] = b[n - k + 1] + 256 * q[k - 1]
  <2> HIDE DEF n
  <2>1. \A k \in 1..n : q[k - 1] \in Nat
    BY <1>1
  <2> QED BY <1>1, <1>2, <2>1 DEF Course
<1>4. Is(q)
  <2>1. q = [k \in 0..n |-> q[k]]
    OBVIOUS
  <2>2. \A k \in 0..n : q[k] = IF k = 0 THEN 0 ELSE b[n - k + 1] + 256 * q[k - 1]
    BY <1>1, <1>3
  <2> QED BY <2>1, <2>2
<1> DEFINE v == CHOOSE w : Is(w)
<1>5. Is(v) /\ v[n] = FromLe(b)
  BY <1>4 DEF FromLe
<1> HIDE DEF v
<1>6. \A k \in 0..n : v[k] = IF k = 0 THEN 0 ELSE b[n - k + 1] + 256 * v[k - 1]
  BY <1>5
<1>7. v[0] = 0 /\ \A k \in 1..n : v[k] = b[n - k + 1] + 256 * v[k - 1]
  BY <1>1, <1>6
<1>8. \A k \in 0..n : v[k] \in Nat
  <2> HIDE DEF n
  <2>1. v[0] \in Nat /\ \A k \in 1..n : v[k - 1] \in Nat => v[k] \in Nat
    <3>1. \A k \in 1..n : v[k - 1] \in Nat => b[n - k + 1] + 256 * v[k - 1] \in Nat
      BY <1>1
    <3> QED BY <1>7, <3>1
  <2> QED BY <1>1, <2>1, Stays
<1> QED
  BY <1>5, <1>7, <1>8

\* An integer that fits is read back as it was.
LEMMA RoundTrip ==
  ASSUME NEW n \in Nat, NEW x, Fits(n, x)
  PROVE  FromLe(Le(n, x)) = x
<1> DEFINE s == Shifted(n, x)
           b == Le(n, x)
<1>1. x \in Nat /\ s[n] = 0
  BY DEF Fits
<1>2. s[0] = x /\ \A k \in 1..n : s[k] = s[k - 1] \div 256
  BY <1>1, Shifts
<1>3. b \in Text /\ Len(b) = n /\ \A i \in 1..n : b[i] = s[i - 1] % 256
  BY <1>1, LeIsText
<1>4. \A k \in 0..n : s[k] \in Nat
  BY <1>1, Shifts
<1> HIDE DEF s, b
<1>5. PICK v : /\ v[0] = 0 /\ v[n] = FromLe(b)
               /\ \A k \in 1..n : v[k] = b[n - k + 1] + 256 * v[k - 1]
  <2>1. PICK v : /\ v[0] = 0 /\ v[Len(b)] = FromLe(b)
                 /\ \A k \in 0..Len(b) : v[k] \in Nat
                 /\ \A k \in 1..Len(b) : v[k] = b[Len(b) - k + 1] + 256 * v[k - 1]
    BY <1>3, Values
  <2>2. Len(b) = n
    BY <1>3
  <2> QED BY <2>1, <2>2
<1> DEFINE G == {k \in 0..n : v[k] = s[n - k]}
<1>6. 0 \in G
  BY <1>1, <1>5
<1>7. \A k \in 1..n : k - 1 \in G => k \in G
  <2> TAKE k \in 1..n
  <2> HAVE k - 1 \in G
  <2>1. v[k - 1] = s[n - k + 1] /\ n - k + 1 \in 1..n /\ n - k \in 0..n
    OBVIOUS
  <2>2. b[n - k + 1] = s[n - k] % 256 /\ s[n - k + 1] = s[n - k] \div 256
    BY <1>2, <1>3, <2>1
  <2>3. s[n - k] = 256 * (s[n - k] \div 256) + (s[n - k] % 256)
    BY <1>4, <2>1, Divided
  <2> HIDE DEF G
  <2>4. v[k] = s[n - k]
    <3>1. v[k] = b[n - k + 1] + 256 * v[k - 1]
      BY <1>5
    <3>2. v[k] = (s[n - k] % 256) + 256 * (s[n - k] \div 256)
      BY <2>1, <2>2, <3>1
    <3>3. s[n - k] % 256 \in Int /\ s[n - k] \div 256 \in Int
      BY <1>4, <2>1, Divided DEF Byte
    <3> QED BY <2>3, <3>2, <3>3
  <2> QED BY <2>4 DEF G
<1>8. n \in G
  <2>1. n \in 0..n
    OBVIOUS
  <2> HIDE DEF G
  <2> QED BY <1>6, <1>7, <2>1, Upto
<1>9. v[n] = s[0]
  BY <1>8
<1> QED
  BY <1>2, <1>5, <1>9 DEF b
-----------------------------------------------------------------------------
(* Texts within texts.                                                     *)

\* The text w is in s after the first p bytes.
At(s, p, w) == p \in Nat /\ p + Len(w) <= Len(s) /\ \A j \in 1..Len(w) : s[p + j] = w[j]

LEMMA Joined ==
  ASSUME NEW s \in Text, NEW t \in Text
  PROVE  /\ s \o t \in Text /\ Len(s) \in Nat /\ Len(t) \in Nat
         /\ Len(s \o t) = Len(s) + Len(t)
         /\ \A j \in 1..Len(s) : (s \o t)[j] = s[j]
         /\ \A j \in 1..Len(t) : (s \o t)[Len(s) + j] = t[j]
<1>1. /\ s \o t \in Text /\ Len(s \o t) = Len(s) + Len(t)
      /\ \A i \in 1..(Len(s) + Len(t)) : (s \o t)[i] = IF i <= Len(s) THEN s[i] ELSE t[i - Len(s)]
  BY ConcatProperties DEF Text
<1> DEFINE u == s \o t
           m == Len(s)
           n == Len(t)
<1>2. m \in Nat /\ n \in Nat
  BY LenProperties DEF Text
<1>3. /\ Len(u) = m + n
      /\ \A i \in 1..(m + n) : u[i] = IF i <= m THEN s[i] ELSE t[i - m]
  BY <1>1
<1> HIDE DEF u, m, n
<1>4. \A j \in 1..m : u[j] = s[j]
  BY <1>2, <1>3
<1>5. ASSUME NEW j \in 1..n PROVE u[m + j] = t[j]
  <2>1. m + j \in 1..(m + n) /\ ~(m + j <= m) /\ (m + j) - m = j
    BY <1>2
  <2> QED BY <1>3, <2>1
<1> QED
  BY <1>1, <1>2, <1>4, <1>5 DEF u, m, n

LEMMA AtEnd ==
  ASSUME NEW s \in Text, NEW w \in Text
  PROVE  At(s \o w, Len(s), w)
BY Joined DEF At

LEMMA AtLeft ==
  ASSUME NEW s \in Text, NEW t \in Text, NEW w \in Text, NEW p, At(s, p, w)
  PROVE  At(s \o t, p, w)
<1> DEFINE u == s \o t
<1>1. /\ p \in Nat /\ p + Len(w) <= Len(s) /\ \A j \in 1..Len(w) : s[p + j] = w[j]
  BY DEF At
<1>2. /\ Len(s) \in Nat /\ Len(t) \in Nat /\ Len(u) = Len(s) + Len(t)
      /\ \A j \in 1..Len(s) : u[j] = s[j]
  BY Joined
<1>3. Len(w) \in Nat
  BY Joined
<1> HIDE DEF u
<1>4. \A j \in 1..Len(w) : u[p + j] = w[j]
  <2> TAKE j \in 1..Len(w)
  <2>1. p + j \in 1..Len(s)
    BY <1>1, <1>2, <1>3
  <2> QED BY <1>1, <1>2, <2>1
<1>5. At(u, p, w)
  BY <1>1, <1>2, <1>3, <1>4 DEF At
<1> QED
  BY <1>5 DEF u

\* A part of a part.
LEMMA AtWithin ==
  ASSUME NEW s \in Text, NEW w \in Text, NEW u \in Text, NEW p, At(s, p, w), NEW q, At(w, q, u)
  PROVE  At(s, p + q, u)
<1>1. /\ p \in Nat /\ p + Len(w) <= Len(s) /\ \A j \in 1..Len(w) : s[p + j] = w[j]
      /\ q \in Nat /\ q + Len(u) <= Len(w) /\ \A j \in 1..Len(u) : w[q + j] = u[j]
  BY DEF At
<1>2. Len(s) \in Nat /\ Len(w) \in Nat /\ Len(u) \in Nat
  BY Joined
<1>3. \A j \in 1..Len(u) : s[(p + q) + j] = u[j]
  <2> TAKE j \in 1..Len(u)
  <2>1. q + j \in 1..Len(w) /\ (p + q) + j = p + (q + j)
    BY <1>1, <1>2
  <2> QED BY <1>1, <2>1
<1> QED
  BY <1>1, <1>2, <1>3 DEF At

\* What is in s is read from s.
LEMMA AtRead ==
  ASSUME NEW s \in Text, NEW w \in Text, NEW p, At(s, p, w)
  PROVE  SubSeq(s, p + 1, p + Len(w)) = w
<1> DEFINE n == Len(w)
           r == SubSeq(s, p + 1, p + n)
<1>1. p \in Nat /\ p + n <= Len(s) /\ \A j \in 1..n : s[p + j] = w[j]
  BY DEF At
<1>2. n \in Nat /\ Len(s) \in Nat /\ \A i \in 1..Len(s) : s[i] \in 0..255
  BY Joined, ElementOfSeq DEF Text
<1>3. w \in Seq(0..255)
  BY DEF Text
<1> HIDE DEF n
<1>4. /\ r \in Seq(0..255)
      /\ Len(r) = IF p + 1 <= p + n THEN (p + n) - (p + 1) + 1 ELSE 0
      /\ \A i \in 1..((p + n) - (p + 1) + 1) : r[i] = s[(p + 1) + i - 1]
  <2>1. \A i \in (p + 1)..(p + n) : s[i] \in 0..255
    BY <1>1, <1>2
  <2>2. p + 1 \in Int /\ p + n \in Int
    BY <1>1, <1>2
  <2> QED BY <2>1, <2>2, SubSeqProperties
<1> HIDE DEF r
<1>5. Len(r) = n /\ \A i \in 1..n : r[i] = w[i]
  <2>1. (p + n) - (p + 1) + 1 = n /\ \A i \in 1..n : (p + 1) + i - 1 = p + i
    BY <1>1, <1>2
  <2>2. Len(r) = n
    BY <1>1, <1>2, <1>4
  <2>3. \A i \in 1..n : r[i] = s[p + i]
    BY <1>4, <2>1
  <2> QED BY <1>1, <2>2, <2>3
<1>6. r = w
  BY <1>3, <1>4, <1>5, SeqEqual DEF n
<1> QED
  BY <1>6 DEF r, n

\* The first n bytes of a text, and what is in them.
LEMMA Prefix ==
  ASSUME NEW s \in Text, NEW n \in 0..Len(s)
  PROVE  /\ SubSeq(s, 1, n) \in Text /\ Len(SubSeq(s, 1, n)) = n
         /\ \A j \in 1..n : SubSeq(s, 1, n)[j] = s[j]
<1>1. Len(s) \in Nat /\ \A i \in 1..Len(s) : s[i] \in 0..255
  BY Joined, ElementOfSeq DEF Text
<1>2. /\ SubSeq(s, 1, n) \in Seq(0..255)
      /\ Len(SubSeq(s, 1, n)) = IF 1 <= n THEN n - 1 + 1 ELSE 0
      /\ \A i \in 1..(n - 1 + 1) : SubSeq(s, 1, n)[i] = s[1 + i - 1]
  <2>1. n \in Int /\ 1 \in Int /\ \A i \in 1..n : s[i] \in 0..255
    BY <1>1
  <2> QED BY <2>1, SubSeqProperties
<1> DEFINE r == SubSeq(s, 1, n)
<1> HIDE DEF r
<1>3. r \in Seq(0..255) /\ Len(r) = n /\ \A j \in 1..n : r[j] = s[j]
  BY <1>1, <1>2 DEF r
<1> QED
  BY <1>3 DEF r, Text

LEMMA AtPrefix ==
  ASSUME NEW s \in Text, NEW n \in 0..Len(s), NEW w \in Text, NEW p, At(s, p, w), p + Len(w) <= n
  PROVE  At(SubSeq(s, 1, n), p, w)
<1> DEFINE r == SubSeq(s, 1, n)
<1>1. Len(r) = n /\ \A j \in 1..n : r[j] = s[j]
  BY Prefix
<1>2. Len(w) \in Nat
  BY Joined
<1> HIDE DEF r
<1>3. At(r, p, w)
  BY <1>1, <1>2 DEF At
<1> QED
  BY <1>3 DEF r
-----------------------------------------------------------------------------
(* The encoding of an entry.                                               *)

Header == Text \X Text

Size(h) == 8 + Len(h[1]) + Len(h[2])

LEMMA HeaderSize ==
  ASSUME NEW h \in Header
  PROVE  h[1] \in Text /\ h[2] \in Text /\ Len(h[1]) \in Nat /\ Len(h[2]) \in Nat /\ Size(h) \in Nat
<1>1. h[1] \in Text /\ h[2] \in Text
  BY DEF Header
<1> QED
  <2>1. Len(h[1]) \in Nat /\ Len(h[2]) \in Nat
    BY <1>1, LenProperties DEF Text
  <2>2. \A m, n \in Nat : 8 + m + n \in Nat
    OBVIOUS
  <2> QED BY <1>1, <2>1, <2>2 DEF Size

LEMMA Sizes ==
  ASSUME NEW hs \in Seq(Header)
  PROVE  /\ HeaderSizes(hs)[0] = 0
         /\ \A i \in 0..Len(hs) : HeaderSizes(hs)[i] \in Nat
         /\ \A i \in 1..Len(hs) : HeaderSizes(hs)[i] = HeaderSizes(hs)[i - 1] + Size(hs[i])
<1> DEFINE n == Len(hs)
           c == HeaderSizes(hs)
           Is(q) == q = [i \in 0..n |-> IF i = 0 THEN 0
                                        ELSE q[i - 1] + 4 + Len(hs[i][1]) + 4 + Len(hs[i][2])]
           g == [i \in 1..n |-> [y \in Nat |-> y + Size(hs[i])]]
<1>1. n \in Nat /\ \A i \in 1..n : hs[i] \in Header
  BY ElementOfSeq, LenProperties
<1>2. \A i \in 1..n : /\ Size(hs[i]) \in Nat
                      /\ \A y \in Nat : y + 4 + Len(hs[i][1]) + 4 + Len(hs[i][2]) = y + Size(hs[i])
  <2> TAKE i \in 1..n
  <2>1. Len(hs[i][1]) \in Nat /\ Len(hs[i][2]) \in Nat
    <3>1. hs[i] \in Header
      BY <1>1
    <3> QED BY <3>1, HeaderSize
  <2>2. \A m, k \in Nat : /\ 8 + m + k \in Nat
                         /\ \A y \in Nat : y + 4 + m + 4 + k = y + (8 + m + k)
    OBVIOUS
  <2> QED BY <2>1, <2>2 DEF Size
<1>3. PICK q \in [0..n -> Nat] : Course(q, n, 0, g)
  <2>1. \A i \in 1..n : \A y \in Nat : y + Size(hs[i]) \in Nat
    <3> TAKE i \in 1..n
    <3>1. Size(hs[i]) \in Nat
      BY <1>2
    <3> QED BY <3>1
  <2>2. g \in [1..n -> [Nat -> Nat]]
    BY <2>1
  <2> HIDE DEF g
  <2> QED BY <1>1, <2>2, CourseExists
<1> HIDE DEF n
<1>4. Is(q)
  <2>1. q[0] = 0 /\ \A i \in 1..n : q[i - 1] \in Nat /\ q[i] = q[i - 1] + Size(hs[i])
    <3>1. \A i \in 1..n : q[i - 1] \in Nat
      BY <1>1
    <3> QED BY <1>1, <1>3, <3>1 DEF Course
  <2>2. \A i \in 0..n : q[i] = IF i = 0 THEN 0
                               ELSE q[i - 1] + 4 + Len(hs[i][1]) + 4 + Len(hs[i][2])
    <3> TAKE i \in 0..n
    <3>1. CASE i = 0
      BY <2>1, <3>1
    <3>2. CASE i # 0
      <4>1. i \in 1..n
        BY <1>1, <3>2
      <4> QED BY <1>2, <2>1, <3>2, <4>1
    <3> QED BY <3>1, <3>2
  <2>3. q = [i \in 0..n |-> q[i]]
    OBVIOUS
  <2> QED BY <2>2, <2>3
<1>5. Is(c)
  BY <1>4 DEF HeaderSizes, n
<1> HIDE DEF c
<1>6. /\ c[0] = 0
      /\ \A i \in 1..n : c[i] = c[i - 1] + 4 + Len(hs[i][1]) + 4 + Len(hs[i][2])
  <2>1. 0 \in 0..n /\ \A i \in 1..n : i \in 0..n /\ i # 0
    BY <1>1
  <2>2. \A i \in 0..n : c[i] = IF i = 0 THEN 0
                               ELSE c[i - 1] + 4 + Len(hs[i][1]) + 4 + Len(hs[i][2])
    BY <1>5
  <2> QED BY <2>1, <2>2
<1>7. \A i \in 0..n : c[i] \in Nat
  <2>1. \A i \in 1..n : c[i - 1] \in Nat => c[i] \in Nat
    <3> TAKE i \in 1..n
    <3> HAVE c[i - 1] \in Nat
    <3>1. Size(hs[i]) \in Nat /\ c[i] = c[i - 1] + Size(hs[i])
      BY <1>2, <1>6
    <3> QED BY <3>1
  <2>2. c[0] \in Nat
    BY <1>6
  <2> QED BY <1>1, <2>1, <2>2, Stays
<1>8. \A i \in 1..n : c[i] = c[i - 1] + Size(hs[i])
  <2> TAKE i \in 1..n
  <2>1. c[i - 1] \in Nat
    BY <1>1, <1>7
  <2> QED BY <1>2, <1>6, <2>1
<1> QED
  BY <1>6, <1>7, <1>8 DEF c, n

\* FlattenSeq joins one text after the other.
LEMMA Flattens ==
  ASSUME NEW q \in Seq(Text)
  PROVE  \E f : /\ f[0] = <<>> /\ f[Len(q)] = FlattenSeq(q)
                /\ \A i \in 0..Len(q) : f[i] \in Text
                /\ \A i \in 1..Len(q) : f[i] = f[i - 1] \o q[i]
<1> DEFINE n == Len(q)
           Is(f) == f = [i \in 1..n |-> IF i = 1 THEN q[i] ELSE f[i - 1] \o q[i]]
           g == [i \in 1..n |-> [y \in Text |-> y \o q[i]]]
<1>1. n \in Nat /\ \A i \in 1..n : q[i] \in Text
  BY ElementOfSeq, LenProperties
<1>2. <<>> \in Text /\ \A w \in Text : <<>> \o w = w
  BY ConcatEmptySeq DEF Text
<1>3. PICK s \in [0..n -> Text] : Course(s, n, <<>>, g)
  <2>1. g \in [1..n -> [Text -> Text]]
    BY <1>1, Joined
  <2> HIDE DEF g
  <2> QED BY <1>1, <1>2, <2>1, CourseExists
<1> HIDE DEF n
<1>4. s[0] = <<>> /\ \A i \in 1..n : s[i] = s[i - 1] \o q[i]
  <2>1. \A i \in 1..n : s[i - 1] \in Text
    BY <1>1
  <2> QED BY <1>3, <2>1 DEF Course
<1> DEFINE t == [i \in 1..n |-> s[i]]
           c == CHOOSE f : Is(f)
<1>5. Is(t)
  <2>1. \A i \in 1..n : t[i] = IF i = 1 THEN q[i] ELSE t[i - 1] \o q[i]
    <3> TAKE i \in 1..n
    <3>1. CASE i = 1
      BY <1>1, <1>2, <1>4, <3>1
    <3>2. CASE i # 1
      <4>1. i - 1 \in 1..n
        BY <1>1, <3>2
      <4> QED BY <1>4, <3>2, <4>1
    <3> QED BY <3>1, <3>2
  <2>2. t = [i \in 1..n |-> t[i]]
    OBVIOUS
  <2> HIDE DEF t
  <2> QED BY <2>1, <2>2
<1>6. Is(c)
  BY <1>5
<1>7. n # 0 => FlattenSeq(q) = c[n]
  BY DEF FlattenSeq, n
<1> HIDE DEF c, t
<1> DEFINE f == [i \in 0..n |-> IF i = 0 THEN <<>> ELSE c[i]]
<1>8. /\ f[0] = <<>>
      /\ \A i \in 1..n : f[i] = f[i - 1] \o q[i]
  <2>1. f[0] = <<>>
    BY <1>1
  <2>2. ASSUME NEW i \in 1..n PROVE f[i] = f[i - 1] \o q[i]
    <3>1. c[i] = IF i = 1 THEN q[i] ELSE c[i - 1] \o q[i]
      BY <1>6
    <3>2. f[i] = c[i] /\ f[i - 1] = IF i = 1 THEN <<>> ELSE c[i - 1]
      BY <1>1
    <3>3. <<>> \o q[i] = q[i]
      BY <1>1, <1>2
    <3> QED BY <3>1, <3>2, <3>3
  <2> QED BY <2>1, <2>2
<1>9. f[n] = FlattenSeq(q)
  <2>1. CASE n = 0
    <3>1. q = <<>> /\ FlattenSeq(q) = q
      BY <2>1, EmptySeq DEF FlattenSeq, n
    <3> QED BY <1>8, <2>1, <3>1
  <2>2. CASE n # 0
    <3>1. n \in 0..n
      BY <1>1
    <3> QED BY <1>7, <2>2, <3>1
  <2> QED BY <2>1, <2>2
<1> HIDE DEF f
<1>10. \A i \in 0..n : f[i] \in Text
  <2>1. f[0] \in Text /\ \A i \in 1..n : f[i - 1] \in Text => f[i] \in Text
    BY <1>1, <1>2, <1>8, Joined
  <2> QED BY <1>1, <2>1, Stays
<1> QED
  BY <1>8, <1>9, <1>10 DEF n

\* A header is its two lengths and its two texts.
LEMMA HeaderAt ==
  ASSUME NEW h \in Header
  PROVE  LET b == HeaderBytes(h) IN
         /\ b \in Text /\ Len(b) = Size(h)
         /\ At(b, 0, Le(4, Len(h[1]))) /\ At(b, 4, h[1])
         /\ At(b, 4 + Len(h[1]), Le(4, Len(h[2]))) /\ At(b, 8 + Len(h[1]), h[2])
<1> DEFINE m == Len(h[1])
           n == Len(h[2])
           u == Le(4, m)
           v == Le(4, n)
           x == u \o h[1]
           y == x \o v
           z == y \o h[2]
<1>1. h[1] \in Text /\ h[2] \in Text /\ m \in Nat /\ n \in Nat /\ Size(h) = 8 + m + n
  BY HeaderSize DEF Size
<1>2. u \in Text /\ Len(u) = 4 /\ v \in Text /\ Len(v) = 4
  <2> HIDE DEF m, n
  <2> QED BY <1>1, LeIsText
<1> HIDE DEF u, v
<1>3. x \in Text /\ Len(x) = 4 + m /\ At(x, 0, u) /\ At(x, 4, h[1])
  <2>1. x \in Text /\ Len(x) = Len(u) + Len(h[1])
    BY <1>1, <1>2, Joined
  <2>2. At(x, 4, h[1])
    BY <1>1, <1>2, AtEnd
  <2>3. At(x, 0, u)
    <3>1. At(u, 0, u)
      BY <1>2 DEF At
    <3> QED BY <1>1, <1>2, <3>1, AtLeft
  <2> QED BY <1>2, <2>1, <2>2, <2>3
<1> HIDE DEF x
<1>4. y \in Text /\ Len(y) = 8 + m /\ At(y, 0, u) /\ At(y, 4, h[1]) /\ At(y, 4 + m, v)
  <2>1. y \in Text /\ Len(y) = 8 + m
    <3>1. y \in Text /\ Len(y) = Len(x) + Len(v)
      BY <1>2, <1>3, Joined
    <3> QED BY <1>1, <1>2, <1>3, <3>1
  <2>2. At(y, 4 + m, v)
    BY <1>2, <1>3, AtEnd
  <2>3. At(y, 0, u) /\ At(y, 4, h[1])
    BY <1>1, <1>2, <1>3, AtLeft
  <2> QED BY <2>1, <2>2, <2>3
<1> HIDE DEF y
<1>5. /\ z \in Text /\ Len(z) = 8 + m + n /\ At(z, 0, u) /\ At(z, 4, h[1])
      /\ At(z, 4 + m, v) /\ At(z, 8 + m, h[2])
  <2>1. z \in Text /\ Len(z) = 8 + m + n
    <3>1. z \in Text /\ Len(z) = Len(y) + Len(h[2])
      BY <1>1, <1>4, Joined
    <3> QED BY <1>4, <3>1
  <2>2. At(z, 8 + m, h[2])
    BY <1>1, <1>4, AtEnd
  <2>3. At(z, 0, u) /\ At(z, 4, h[1]) /\ At(z, 4 + m, v)
    BY <1>1, <1>2, <1>4, AtLeft
  <2> QED BY <2>1, <2>2, <2>3
<1>6. HeaderBytes(h) = z
  BY DEF HeaderBytes, z, y, x, u, v
<1> HIDE DEF z
<1> QED
  BY <1>1, <1>5, <1>6 DEF u, v

\* Each header follows those before it.
LEMMA HeadersAt ==
  ASSUME NEW hs \in Seq(Header),
         NEW b, b = FlattenSeq([i \in 1..Len(hs) |-> HeaderBytes(hs[i])])
  PROVE  /\ b \in Text /\ Len(b) = HeaderSizes(hs)[Len(hs)]
         /\ \A i \in 1..Len(hs) : At(b, HeaderSizes(hs)[i - 1], HeaderBytes(hs[i]))
<1> DEFINE n == Len(hs)
           s == HeaderSizes(hs)
           q == [i \in 1..n |-> HeaderBytes(hs[i])]
<1>1. n \in Nat /\ \A i \in 1..n : hs[i] \in Header
  BY ElementOfSeq, LenProperties
<1>2. \A i \in 1..n : HeaderBytes(hs[i]) \in Text /\ Len(HeaderBytes(hs[i])) = Size(hs[i])
  BY <1>1, HeaderAt
<1>3. q \in Seq(Text) /\ Len(q) = n /\ \A i \in 1..n : q[i] = HeaderBytes(hs[i])
  <2> HIDE DEF n
  <2>1. q \in [1..n -> Text]
    BY <1>2
  <2> QED BY <1>1, <2>1
<1>4. s[0] = 0 /\ (\A i \in 0..n : s[i] \in Nat) /\ \A i \in 1..n : s[i] = s[i - 1] + Size(hs[i])
  BY Sizes
<1> HIDE DEF q
<1>5. PICK f : /\ f[0] = <<>> /\ f[Len(q)] = FlattenSeq(q)
               /\ \A i \in 0..Len(q) : f[i] \in Text
               /\ \A i \in 1..Len(q) : f[i] = f[i - 1] \o q[i]
  BY <1>3, Flattens
<1>6. /\ f[0] = <<>> /\ f[n] = b /\ \A i \in 0..n : f[i] \in Text
  BY <1>3, <1>5 DEF q
<1>7. \A i \in 1..n : f[i] = f[i - 1] \o HeaderBytes(hs[i])
  BY <1>3, <1>5
<1> DEFINE G == {k \in 0..n : /\ Len(f[k]) = s[k]
                              /\ \A i \in 1..k : At(f[k], s[i - 1], HeaderBytes(hs[i]))}
<1> HIDE DEF s, n
<1>8. 0 \in G
  BY <1>1, <1>4, <1>6
<1>9. ASSUME NEW k \in 1..n, k - 1 \in G PROVE k \in G
  <2> DEFINE w == HeaderBytes(hs[k])
  <2>1. /\ Len(f[k - 1]) = s[k - 1] /\ k - 1 \in 0..n /\ k \in 0..n
        /\ \A i \in 1..(k - 1) : At(f[k - 1], s[i - 1], HeaderBytes(hs[i]))
    BY <1>1, <1>9
  <2>2. f[k] = f[k - 1] \o w /\ f[k - 1] \in Text /\ w \in Text /\ Len(w) = Size(hs[k])
    BY <1>2, <1>6, <1>7, <2>1
  <2> HIDE DEF w
  <2>3. Len(f[k]) = s[k]
    <3>1. Len(f[k]) = Len(f[k - 1]) + Len(w)
      BY <2>2, Joined
    <3> QED BY <1>4, <2>1, <2>2, <3>1
  <2>4. At(f[k], s[k - 1], w)
    <3>1. At(f[k - 1] \o w, Len(f[k - 1]), w)
      BY <2>2, AtEnd
    <3> QED BY <2>1, <2>2, <3>1
  <2>5. ASSUME NEW i \in 1..(k - 1) PROVE At(f[k], s[i - 1], HeaderBytes(hs[i]))
    <3>1. HeaderBytes(hs[i]) \in Text /\ At(f[k - 1], s[i - 1], HeaderBytes(hs[i]))
      BY <1>1, <1>2, <2>1
    <3>2. At(f[k - 1] \o w, s[i - 1], HeaderBytes(hs[i]))
      BY <2>2, <3>1, AtLeft
    <3> QED BY <2>2, <3>2
  <2>6. \A i \in 1..k : i = k \/ i \in 1..(k - 1)
    OBVIOUS
  <2> QED BY <2>1, <2>3, <2>4, <2>5, <2>6 DEF w
<1>10. n \in G
  <2>1. n \in 0..n /\ \A k \in 1..n : k - 1 \in G => k \in G
    BY <1>1, <1>9
  <2> HIDE DEF G
  <2> QED BY <1>1, <1>8, <2>1, Upto
<1> QED
  BY <1>6, <1>10 DEF s, n

\* A body is its length, its bytes and the flag for trailers.
LEMMA BodyAt ==
  ASSUME NEW body, body.data \in Text, Fits(8, Len(body.data))
  PROVE  /\ BodyBytes(body) \in Text /\ Len(BodyBytes(body)) = 9 + Len(body.data)
         /\ FromBytes(BodyBytes(body)) = Body(body.data, None)
<1> DEFINE w == body.data
           d == Len(w)
           u == Le(8, d)
           x == u \o w
           y == x \o <<0>>
<1>1. w \in Text /\ d \in Nat /\ <<0>> \in Text /\ Len(<<0>>) = 1
  BY LenProperties DEF Text
<1>2. u \in Text /\ Len(u) = 8 /\ FromLe(u) = d
  <2>1. Fits(8, d) /\ 8 \in Nat
    OBVIOUS
  <2> HIDE DEF d
  <2> QED BY <1>1, <2>1, LeIsText, RoundTrip
<1> HIDE DEF u
<1>3. x \in Text /\ Len(x) = 8 + d /\ At(x, 0, u) /\ At(x, 8, w)
  <2>1. x \in Text /\ Len(x) = Len(u) + Len(w)
    BY <1>1, <1>2, Joined
  <2>2. At(x, 8, w)
    BY <1>1, <1>2, AtEnd
  <2>3. At(x, 0, u)
    <3>1. At(u, 0, u)
      BY <1>2 DEF At
    <3> QED BY <1>1, <1>2, <3>1, AtLeft
  <2> QED BY <1>2, <2>1, <2>2, <2>3
<1> HIDE DEF x
<1>4. y \in Text /\ Len(y) = 9 + d /\ At(y, 0, u) /\ At(y, 8, w)
  <2>1. y \in Text /\ Len(y) = Len(x) + Len(<<0>>)
    BY <1>1, <1>3, Joined
  <2>2. At(y, 0, u) /\ At(y, 8, w)
    BY <1>1, <1>2, <1>3, AtLeft
  <2>3. Len(y) = 9 + d
    BY <1>1, <1>3, <2>1
  <2> QED BY <2>1, <2>2, <2>3
<1>5. BodyBytes(body) = y
  BY DEF BodyBytes, y, x, u
<1> HIDE DEF y
<1>6. SubSeq(y, 1, 8) = u /\ SubSeq(y, 9, 8 + d) = w
  <2>1. SubSeq(y, 0 + 1, 0 + Len(u)) = u
    BY <1>2, <1>4, AtRead
  <2>2. SubSeq(y, 8 + 1, 8 + Len(w)) = w
    BY <1>1, <1>4, AtRead
  <2>3. 0 + 1 = 1 /\ 0 + 8 = 8 /\ 8 + 1 = 9
    OBVIOUS
  <2> QED BY <1>2, <2>1, <2>2, <2>3
<1>7. FromBytes(y) = Body(w, None)
  BY <1>2, <1>6 DEF FromBytes
<1> QED
  BY <1>4, <1>5, <1>7

\* What can be encoded: the integers in it fit.
Entry == [status: 0..999, headers: Seq(Header),
          body: [data: Text, trailers: Seq(STRING) \union {None}], epoch: Epochs]

Fitting(r) ==
  /\ Fits(2, r.status) /\ Fits(4, Len(r.headers)) /\ Fits(8, 9 + Len(r.body.data))
  /\ Fits(8, r.epoch)
  /\ \A i \in 1..Len(r.headers) : Fits(4, Len(r.headers[i][1])) /\ Fits(4, Len(r.headers[i][2]))

\* Where the parts of an encoding are.
HeadersEndAt(r) == 6 + HeaderSizes(r.headers)[Len(r.headers)]

Laid(b, r) ==
  LET e == HeadersEndAt(r)
      d == Len(BodyBytes(r.body))
  IN  /\ b \in Text /\ Len(b) = e + 8 + d + 8
      /\ At(b, 0, Le(2, r.status)) /\ At(b, 2, Le(4, Len(r.headers)))
      /\ \A i \in 1..Len(r.headers) :
           At(b, 6 + HeaderSizes(r.headers)[i - 1], HeaderBytes(r.headers[i]))
      /\ At(b, e, Le(8, d)) /\ At(b, e + 8, BodyBytes(r.body))
      /\ At(b, e + 8 + d, Le(8, r.epoch))

LEMMA EncodingAt ==
  ASSUME NEW r \in Entry, Fitting(r)
  PROVE  Laid(Encoding(r), r)
<1> DEFINE n == Len(r.headers)
           h == FlattenSeq([i \in 1..n |-> HeaderBytes(r.headers[i])])
           s == HeaderSizes(r.headers)
           w == BodyBytes(r.body)
           d == Len(w)
           b1 == Le(2, r.status)
           b2 == Le(4, n)
           b3 == Le(8, d)
           b4 == Le(8, r.epoch)
           c1 == b1 \o b2
           c2 == c1 \o h
           c3 == c2 \o b3
           c4 == c3 \o w
           c5 == c4 \o b4
<1>1. r.headers \in Seq(Header) /\ r.body.data \in Text /\ r.status \in Nat /\ r.epoch \in Nat
  <2>1. r.headers \in Seq(Header) /\ r.body \in [data: Text, trailers: Seq(STRING) \union {None}]
    BY DEF Entry
  <2>2. r.body.data \in Text
    BY <2>1
  <2>3. r.status \in Nat /\ r.epoch \in Nat
    BY DEF Fitting, Fits
  <2> QED BY <2>1, <2>2, <2>3
<1>2. n \in Nat /\ d \in Nat /\ w \in Text
  <2>1. Fits(8, Len(r.body.data))
    <3>1. Len(r.body.data) \in Nat /\ Fits(8, 9 + Len(r.body.data))
      BY <1>1, LenProperties DEF Fitting, Text
    <3>2. 9 + Len(r.body.data) \in Nat /\ Len(r.body.data) <= 9 + Len(r.body.data)
      BY <3>1
    <3> QED BY <3>1, <3>2, FitsLess
  <2>2. w \in Text /\ Len(w) = 9 + Len(r.body.data)
    BY <1>1, <2>1, BodyAt
  <2> HIDE DEF w
  <2> QED BY <1>1, <2>2, LenProperties DEF Text
<1>3. h \in Text /\ Len(h) = s[n] /\ \A i \in 1..n : At(h, s[i - 1], HeaderBytes(r.headers[i]))
  BY <1>1, HeadersAt
<1>4. s[n] \in Nat /\ \A i \in 1..n : HeaderBytes(r.headers[i]) \in Text
  <2>1. \A i \in 1..n : r.headers[i] \in Header
    BY <1>1, ElementOfSeq
  <2>2. \A i \in 0..n : s[i] \in Nat
    BY <1>1, Sizes
  <2> QED BY <1>2, <2>1, <2>2, HeaderAt
<1>5. /\ b1 \in Text /\ Len(b1) = 2 /\ b2 \in Text /\ Len(b2) = 4
      /\ b3 \in Text /\ Len(b3) = 8 /\ b4 \in Text /\ Len(b4) = 8
  <2> HIDE DEF n, d
  <2> QED BY <1>1, <1>2, LeIsText
<1>6. Encoding(r) = c5
  BY DEF Encoding
<1>7. Len(r.headers) = n
  OBVIOUS
<1> HIDE DEF b1, b2, b3, b4, h, w, s, n
<1>8. c1 \in Text /\ Len(c1) = 6 /\ At(c1, 0, b1) /\ At(c1, 2, b2)
  <2>1. c1 \in Text /\ Len(c1) = Len(b1) + Len(b2) /\ At(c1, Len(b1), b2)
    BY <1>5, Joined, AtEnd
  <2>2. At(b1, 0, b1)
    BY <1>5 DEF At
  <2>3. At(c1, 0, b1)
    BY <1>5, <2>2, AtLeft
  <2> QED BY <1>5, <2>1, <2>3
<1> HIDE DEF c1
<1>9. c2 \in Text /\ Len(c2) = 6 + s[n] /\ At(c2, 0, b1) /\ At(c2, 2, b2) /\ At(c2, 6, h)
  <2>1. c2 \in Text /\ Len(c2) = Len(c1) + Len(h) /\ At(c2, Len(c1), h)
    BY <1>3, <1>8, Joined, AtEnd
  <2>2. At(c2, 0, b1) /\ At(c2, 2, b2)
    BY <1>3, <1>5, <1>8, AtLeft
  <2> QED BY <1>3, <1>8, <2>1, <2>2
<1> HIDE DEF c2
<1> DEFINE e == 6 + s[n]
<1>10. e \in Nat
  BY <1>4
<1>11. /\ c3 \in Text /\ Len(c3) = e + 8
       /\ At(c3, 0, b1) /\ At(c3, 2, b2) /\ At(c3, 6, h) /\ At(c3, e, b3)
  <2>1. c3 \in Text /\ Len(c3) = Len(c2) + Len(b3) /\ At(c3, Len(c2), b3)
    BY <1>5, <1>9, Joined, AtEnd
  <2>2. At(c3, 0, b1) /\ At(c3, 2, b2) /\ At(c3, 6, h)
    BY <1>3, <1>5, <1>9, AtLeft
  <2> QED BY <1>5, <1>9, <2>1, <2>2
<1> HIDE DEF c3, e, d
<1>12. /\ c4 \in Text /\ Len(c4) = e + 8 + d
       /\ At(c4, 0, b1) /\ At(c4, 2, b2) /\ At(c4, 6, h) /\ At(c4, e, b3) /\ At(c4, e + 8, w)
  <2>1. c4 \in Text /\ Len(c4) = Len(c3) + Len(w) /\ At(c4, Len(c3), w)
    BY <1>2, <1>11, Joined, AtEnd
  <2>2. At(c4, 0, b1) /\ At(c4, 2, b2) /\ At(c4, 6, h) /\ At(c4, e, b3)
    BY <1>2, <1>3, <1>5, <1>11, AtLeft
  <2> QED BY <1>11, <2>1, <2>2 DEF d
<1> HIDE DEF c4
<1>13. /\ c5 \in Text /\ Len(c5) = e + 8 + d + 8
       /\ At(c5, 0, b1) /\ At(c5, 2, b2) /\ At(c5, 6, h) /\ At(c5, e, b3) /\ At(c5, e + 8, w)
       /\ At(c5, e + 8 + d, b4)
  <2>1. c5 \in Text /\ Len(c5) = Len(c4) + Len(b4) /\ At(c5, Len(c4), b4)
    BY <1>5, <1>12, Joined, AtEnd
  <2>2. At(c5, 0, b1) /\ At(c5, 2, b2) /\ At(c5, 6, h) /\ At(c5, e, b3) /\ At(c5, e + 8, w)
    BY <1>2, <1>3, <1>5, <1>12, AtLeft
  <2> QED BY <1>5, <1>12, <2>1, <2>2
<1> HIDE DEF c5
<1>14. \A i \in 1..n : At(c5, 6 + s[i - 1], HeaderBytes(r.headers[i]))
  BY <1>3, <1>4, <1>13, AtWithin
<1>15. /\ e = HeadersEndAt(r) /\ d = Len(BodyBytes(r.body)) /\ w = BodyBytes(r.body)
       /\ b1 = Le(2, r.status) /\ b2 = Le(4, Len(r.headers)) /\ b4 = Le(8, r.epoch)
       /\ b3 = Le(8, Len(BodyBytes(r.body))) /\ n = Len(r.headers) /\ s = HeaderSizes(r.headers)
  BY DEF e, HeadersEndAt, d, w, b1, b2, b3, b4, n, s
<1>16. Laid(c5, r)
  BY <1>13, <1>14, <1>15 DEF Laid
<1> QED
  BY <1>6, <1>16
-----------------------------------------------------------------------------
(* The inductive invariant.                                                *)

\* No name is repeated.
Distinct(hs) == \A i, j \in 1..Len(hs) : hs[i][1] = hs[j][1] => i = j

\* What can be read back unchanged.
Storable(r) ==
  r \in Entry /\ Fitting(r) /\ r.body.trailers = None /\ Distinct(r.headers)

\* The headers tell the right length, if they tell one.
Told(headers, n) ==
  \A i \in 1..Len(headers) : headers[i][1] = ContentLength => headers[i][2] = Decimal(n)

\* The body is that of an origin's answer, and there is room for a header more
\* and for a body twice as long.
CanGrow(r) ==
  /\ \E answer \in OriginAnswers : r.body.data = answer.data
  /\ Fits(4, Len(r.headers) + 1) /\ Fits(8, 2 * Len(r.body.data) + 9)

Before  == {"collect", "forward", "awaiting"}
Reading == {"status", "count", "headers", "body", "epoch", "ok", "end", "err"}

RequestInv ==
  /\ frames \in Seq(DataFrames \union TrailerFrames)
  /\ arrived \in Text /\ redirects \in Nat
  /\ collected \in [data: Text, trailers: Seq(STRING) \union {None}]
  /\ collected.data = arrived
  /\ stage = "awaiting" =>
       IF sent = None THEN arrived = <<>> \/ redirects > 0 ELSE sent = arrived

StoredInv ==
  /\ stage \in Before \union {"replace", "encode", "panicked"} =>
       bytes = <<>> /\ pos = 0 /\ left = 0 /\ decoded = Nothing /\ out = <<>>
  /\ stage \in {"replace", "encode"} \union Reading => Storable(response)
  /\ stage = "replace" => CanGrow(response)

Record(status, headers, body, epoch) ==
  [status |-> status, headers |-> headers, body |-> body, epoch |-> epoch]

\* What has been read, and how far.
Progress(r) ==
  LET n == Len(r.headers)
      e == HeadersEndAt(r)
  IN  /\ stage = "status" => pos = 0 /\ decoded = Nothing
      /\ stage = "count"  => pos = 2 /\ decoded = Record(r.status, <<>>, None, None)
      /\ stage = "headers" =>
           /\ left \in 0..n /\ pos = 6 + HeaderSizes(r.headers)[n - left]
           /\ decoded = Record(r.status, SubSeq(r.headers, 1, n - left), None, None)
      /\ stage = "body" => pos = e /\ decoded = Record(r.status, r.headers, None, None)
      /\ stage = "epoch" =>
           /\ pos = e + 8 + Len(BodyBytes(r.body))
           /\ decoded = Record(r.status, r.headers, r.body, None)
      /\ stage \in {"ok", "end"} =>
           /\ Len(bytes) = Len(Encoding(r))
           /\ \/ out = <<>> /\ decoded = Record(r.status, r.headers, r.body, r.epoch)
              \/ out = <<r.body.data>> /\ decoded = Record(r.status, r.headers, Empty, r.epoch)
      /\ stage \notin {"ok", "end"} => out = <<>>
      /\ stage = "end" => decoded.body.data = <<>>
      /\ stage = "err" => Len(bytes) < Len(Encoding(r))

ReadingInv ==
  stage \in Reading =>
    /\ Len(bytes) <= Len(Encoding(response))
    /\ bytes = SubSeq(Encoding(response), 1, Len(bytes))
    /\ Progress(response)

\* Every origin that says how long its body is says so rightly.
LengthsRight == \A answer \in OriginAnswers : Told(answer.headers, Len(answer.data))

ToldInv ==
  LengthsRight /\ stage \in {"replace", "encode"} =>
    Told(response.headers, Len(response.body.data))

Inv == TypeOK /\ RequestInv /\ StoredInv /\ ReadingInv /\ ToldInv
-----------------------------------------------------------------------------
(* What the response's headers and body become.                            *)

\* What insert makes of a list: its members are those of the list and h, and
\* no name is repeated if none was.
LEMMA InsertedIn ==
  ASSUME NEW S, S \subseteq Header, NEW hs \in Seq(S), NEW h \in S
  PROVE  /\ Inserted(hs, h) \in Seq(S)
         /\ Len(Inserted(hs, h)) \in Nat /\ Len(Inserted(hs, h)) <= Len(hs) + 1
         /\ Distinct(hs) => Distinct(Inserted(hs, h))
<1> DEFINE n == Len(hs)
           r == Inserted(hs, h)
<1>1. n \in Nat /\ \A i \in 1..n : hs[i] \in S
  BY LenProperties, ElementOfSeq
<1>2. CASE \E i \in 1..n : hs[i][1] = h[1]
  <2>1. r = [i \in 1..n |-> IF hs[i][1] = h[1] THEN h ELSE hs[i]]
    BY <1>2 DEF Inserted
  <2>2. r \in [1..n -> S]
    BY <1>1, <2>1
  <2> HIDE DEF r
  <2>3. r \in Seq(S) /\ Len(r) = n
    BY <1>1, <2>2, LenProperties
  <2>4. \A i \in 1..n : r[i][1] = hs[i][1]
    BY <2>1
  <2>5. Distinct(hs) => Distinct(r)
    BY <2>3, <2>4 DEF Distinct
  <2> QED BY <1>1, <2>3, <2>5 DEF r
<1>3. CASE \A i \in 1..n : hs[i][1] # h[1]
  <2>1. r = Append(hs, h)
    BY <1>3 DEF Inserted
  <2> HIDE DEF r
  <2>2. /\ r \in Seq(S) /\ Len(r) = n + 1
        /\ \A i \in 1..n : r[i] = hs[i]
        /\ r[n + 1] = h
    BY <2>1, AppendProperties
  <2>3. ASSUME Distinct(hs), NEW i \in 1..(n + 1), NEW j \in 1..(n + 1), r[i][1] = r[j][1]
        PROVE  i = j
    <3>1. i \in 1..n \/ i = n + 1
      BY <1>1
    <3>2. j \in 1..n \/ j = n + 1
      BY <1>1
    <3>3. CASE i \in 1..n /\ j \in 1..n
      BY <2>2, <2>3, <3>3 DEF Distinct
    <3>4. CASE i \in 1..n /\ j = n + 1
      BY <1>3, <2>2, <2>3, <3>4
    <3>5. CASE i = n + 1 /\ j \in 1..n
      BY <1>3, <2>2, <2>3, <3>5
    <3> QED BY <3>1, <3>2, <3>3, <3>4, <3>5
  <2>4. Distinct(hs) => Distinct(r)
    BY <2>2, <2>3 DEF Distinct
  <2> QED BY <1>1, <2>2, <2>4 DEF r
<1> QED
  BY <1>2, <1>3

\* A name that is new comes last.
LEMMA InsertedLast ==
  ASSUME NEW hs \in Seq(Header), Distinct(hs), NEW k \in 1..Len(hs)
  PROVE  Inserted(SubSeq(hs, 1, k - 1), hs[k]) = SubSeq(hs, 1, k)
<1> DEFINE u == SubSeq(hs, 1, k - 1)
           v == SubSeq(hs, 1, k)
<1>1. Len(hs) \in Nat /\ \A i \in 1..Len(hs) : hs[i] \in Header
  BY LenProperties, ElementOfSeq
<1>2. u \in Seq(Header) /\ Len(u) = k - 1 /\ \A i \in 1..(k - 1) : u[i] = hs[i]
  BY <1>1, SubSeqProperties
<1>3. v \in Seq(Header) /\ Len(v) = k /\ \A i \in 1..k : v[i] = hs[i]
  BY <1>1, SubSeqProperties
<1> HIDE DEF u, v
<1>4. \A i \in 1..Len(u) : u[i][1] # hs[k][1]
  <2> SUFFICES ASSUME NEW i \in 1..Len(u), u[i][1] = hs[k][1]
               PROVE  FALSE
    OBVIOUS
  <2>1. i \in 1..Len(hs) /\ i # k /\ hs[i][1] = hs[k][1]
    BY <1>1, <1>2
  <2> QED BY <2>1 DEF Distinct
<1>5. Inserted(u, hs[k]) = Append(u, hs[k])
  BY <1>4 DEF Inserted
<1>6. /\ Append(u, hs[k]) \in Seq(Header) /\ Len(Append(u, hs[k])) = k
      /\ \A i \in 1..(k - 1) : Append(u, hs[k])[i] = u[i]
      /\ Append(u, hs[k])[k] = hs[k]
  <2>1. hs[k] \in Header
    BY <1>1
  <2>2. Len(u) + 1 = k
    BY <1>2
  <2> QED BY <1>2, <2>1, <2>2, AppendProperties
<1>7. \A i \in 1..k : Append(u, hs[k])[i] = v[i]
  <2> TAKE i \in 1..k
  <2>1. i = k \/ i \in 1..(k - 1)
    OBVIOUS
  <2> QED BY <1>2, <1>3, <1>6, <2>1
<1>8. Append(u, hs[k]) = v
  BY <1>3, <1>6, <1>7, SeqEqual
<1> QED
  BY <1>5, <1>8 DEF u, v

\* The headers of a response are among the origin's, no name is repeated, and
\* there are no more of them.
LEMMA Kept ==
  ASSUME NEW S, S \subseteq Header, NEW hs \in Seq(S)
  PROVE  /\ ResponseHeaders(hs) \in Seq(S) /\ Distinct(ResponseHeaders(hs))
         /\ Len(ResponseHeaders(hs)) \in Nat /\ Len(ResponseHeaders(hs)) <= Len(hs)
<1> DEFINE n == Len(hs)
           Is(q) == q = [i \in 0..n |-> IF i = 0 THEN <<>> ELSE Inserted(q[i - 1], hs[i])]
           g == [i \in 1..n |-> [y \in Seq(S) |-> Inserted(y, hs[i])]]
<1>1. n \in Nat /\ \A i \in 1..n : hs[i] \in S
  BY LenProperties, ElementOfSeq
<1>2. PICK q \in [0..n -> Seq(S)] : Course(q, n, <<>>, g)
  <2>1. <<>> \in Seq(S)
    BY EmptySeq
  <2>2. g \in [1..n -> [Seq(S) -> Seq(S)]]
    BY <1>1, InsertedIn
  <2> HIDE DEF g
  <2> QED BY <1>1, <2>1, <2>2, CourseExists
<1>3. Is(q)
  <2>1. \A i \in 1..n : q[i] = Inserted(q[i - 1], hs[i])
    <3> TAKE i \in 1..n
    <3>1. q[i - 1] \in Seq(S)
      BY <1>1
    <3> QED BY <1>2, <3>1 DEF Course
  <2>2. q[0] = <<>>
    BY <1>2 DEF Course
  <2>3. \A i \in 0..n : q[i] = IF i = 0 THEN <<>> ELSE Inserted(q[i - 1], hs[i])
    BY <2>1, <2>2
  <2>4. q = [i \in 0..n |-> q[i]]
    OBVIOUS
  <2> QED BY <2>3, <2>4
<1> DEFINE c == CHOOSE f : Is(f)
<1>4. Is(c)
  BY <1>3
<1>5. ResponseHeaders(hs) = c[n]
  BY DEF ResponseHeaders
<1> HIDE DEF c
<1>6. c[0] = <<>> /\ \A i \in 1..n : c[i] = Inserted(c[i - 1], hs[i])
  <2>1. 0 \in 0..n /\ \A i \in 1..n : i \in 0..n /\ i # 0
    BY <1>1
  <2>2. \A i \in 0..n : c[i] = IF i = 0 THEN <<>> ELSE Inserted(c[i - 1], hs[i])
    BY <1>4
  <2> QED BY <2>1, <2>2
<1> DEFINE G == {i \in 0..n : c[i] \in Seq(S) /\ Distinct(c[i]) /\ Len(c[i]) <= i}
<1>7. \A i \in 0..n : i \in G
  <2>1. 0 \in G
    <3>1. <<>> \in Seq(S) /\ Len(<<>>) = 0
      BY EmptySeq
    <3>2. Distinct(<<>>)
      BY DEF Distinct
    <3>3. 0 \in 0..n /\ 0 <= 0
      BY <1>1
    <3>4. c[0] \in Seq(S) /\ Distinct(c[0]) /\ Len(c[0]) <= 0
      BY <1>6, <3>1, <3>2
    <3> QED BY <3>3, <3>4
  <2>2. \A i \in 1..n : i - 1 \in G => i \in G
    <3> TAKE i \in 1..n
    <3> HAVE i - 1 \in G
    <3>1. c[i - 1] \in Seq(S) /\ Distinct(c[i - 1]) /\ Len(c[i - 1]) <= i - 1
      OBVIOUS
    <3>2. c[i] = Inserted(c[i - 1], hs[i]) /\ hs[i] \in S
      BY <1>1, <1>6
    <3>3. /\ c[i] \in Seq(S) /\ Distinct(c[i])
          /\ Len(c[i]) \in Nat /\ Len(c[i]) <= Len(c[i - 1]) + 1
      BY <3>1, <3>2, InsertedIn
    <3>4. Len(c[i - 1]) \in Nat
      BY <3>1, LenProperties
    <3>5. Len(c[i]) <= i
      BY <3>1, <3>3, <3>4
    <3> QED BY <1>1, <3>3, <3>5
  <2> HIDE DEF G
  <2> QED BY <1>1, <2>1, <2>2, Upto
<1>8. c[n] \in Seq(S) /\ Distinct(c[n]) /\ Len(c[n]) <= n
  BY <1>1, <1>7
<1> QED
  BY <1>5, <1>8, LenProperties

\* A body whose bytes are replaced, one or two for each.
LEMMA ReplacedIsText ==
  ASSUME NEW w \in Text
  PROVE  Replaced(w) \in Text /\ Len(Replaced(w)) \in 0..(2 * Len(w))
<1> DEFINE n == Len(w)
           q == [i \in 1..n |-> IF w[i] = Find THEN <<Find, Find>> ELSE <<w[i]>>]
<1>1. n \in Nat /\ \A i \in 1..n : w[i] \in 0..255
  BY LenProperties, ElementOfSeq DEF Text
<1>2. Find \in 0..255
  BY ExchangeAssumption
<1>3. \A i \in 1..n : q[i] \in Text /\ Len(q[i]) \in 0..2
  <2>1. \A b \in 0..255 : /\ <<b>> \in Seq(0..255) /\ Len(<<b>>) = 1
                          /\ <<b, b>> \in Seq(0..255) /\ Len(<<b, b>>) = 2
    OBVIOUS
  <2>2. \A i \in 1..n : q[i] = IF w[i] = Find THEN <<Find, Find>> ELSE <<w[i]>>
    OBVIOUS
  <2> HIDE DEF q
  <2> TAKE i \in 1..n
  <2>3. w[i] \in 0..255
    BY <1>1
  <2>4. CASE w[i] = Find
    <3>1. q[i] = <<Find, Find>>
      BY <2>2, <2>4
    <3> QED BY <1>2, <2>1, <3>1 DEF Text
  <2>5. CASE w[i] # Find
    <3>1. q[i] = <<w[i]>>
      BY <2>2, <2>5
    <3> QED BY <2>1, <2>3, <3>1 DEF Text
  <2> QED BY <2>4, <2>5
<1>4. q \in Seq(Text) /\ Len(q) = n
  <2>1. q \in [1..n -> Text]
    BY <1>3
  <2> HIDE DEF q
  <2> QED BY <1>1, <2>1, LenProperties
<1>5. Replaced(w) = FlattenSeq(q)
  BY DEF Replaced
<1> HIDE DEF q
<1>6. PICK f : /\ f[0] = <<>> /\ f[Len(q)] = FlattenSeq(q)
               /\ \A i \in 0..Len(q) : f[i] \in Text
               /\ \A i \in 1..Len(q) : f[i] = f[i - 1] \o q[i]
  BY <1>4, Flattens
<1> DEFINE G == {i \in 0..n : Len(f[i]) \in 0..(2 * i)}
<1>7. \A i \in 0..n : i \in G
  <2>1. 0 \in G
    BY <1>1, <1>6
  <2>2. \A i \in 1..n : i - 1 \in G => i \in G
    <3> TAKE i \in 1..n
    <3> HAVE i - 1 \in G
    <3>1. f[i - 1] \in Text /\ Len(f[i - 1]) \in 0..(2 * (i - 1))
      BY <1>1, <1>4, <1>6
    <3>2. f[i] = f[i - 1] \o q[i] /\ q[i] \in Text /\ Len(q[i]) \in 0..2
      BY <1>3, <1>4, <1>6
    <3>3. Len(f[i]) = Len(f[i - 1]) + Len(q[i])
      BY <3>1, <3>2, Joined
    <3>4. \A x \in 0..(2 * (i - 1)), y \in 0..2 : x + y \in 0..(2 * i)
      OBVIOUS
    <3>5. Len(f[i]) \in 0..(2 * i)
      BY <3>1, <3>2, <3>3, <3>4
    <3> QED BY <1>1, <3>5
  <2> HIDE DEF G
  <2> QED BY <1>1, <2>1, <2>2, Upto
<1>8. n \in 0..n
  BY <1>1
<1> QED
  BY <1>4, <1>5, <1>6, <1>7, <1>8
-----------------------------------------------------------------------------
(* Reading an entry back.                                                  *)

\* What lies before the end of a prefix is read from it.
LEMMA ReadAt ==
  ASSUME NEW e \in Text, NEW m \in 0..Len(e), NEW w \in Text, NEW p, At(e, p, w), p + Len(w) <= m
  PROVE  SubSeq(SubSeq(e, 1, m), p + 1, p + Len(w)) = w
<1>1. SubSeq(e, 1, m) \in Text
  BY Prefix
<1>2. At(SubSeq(e, 1, m), p, w)
  BY AtPrefix
<1> QED
  BY <1>1, <1>2, AtRead

LEMMA NumberAt ==
  ASSUME NEW e \in Text, NEW m \in 0..Len(e), NEW n \in Nat, NEW x, Fits(n, x),
         NEW p, At(e, p, Le(n, x)), p + n <= m
  PROVE  FromLe(SubSeq(SubSeq(e, 1, m), p + 1, p + n)) = x
<1>1. Le(n, x) \in Text /\ Len(Le(n, x)) = n
  BY LeIsText DEF Fits
<1>2. SubSeq(SubSeq(e, 1, m), p + 1, p + n) = Le(n, x)
  BY <1>1, ReadAt
<1> QED
  BY <1>2, RoundTrip

\* What holds while an entry is read.
Underway ==
  /\ Storable(response) /\ Laid(Encoding(response), response)
  /\ Len(bytes) \in 0..Len(Encoding(response))
  /\ bytes = SubSeq(Encoding(response), 1, Len(bytes))

LEMMA ReadingIsUnderway ==
  ASSUME TypeOK, StoredInv, ReadingInv, stage \in Reading
  PROVE  Underway /\ Progress(response)
<1>1. Storable(response) /\ Progress(response)
  BY DEF StoredInv, ReadingInv
<1>2. Laid(Encoding(response), response)
  BY <1>1, EncodingAt DEF Storable
<1>3. Len(bytes) \in Nat /\ Len(Encoding(response)) \in Nat
  BY <1>2, LenProperties DEF Laid, TypeOK, Text
<1>4. /\ Len(bytes) <= Len(Encoding(response))
      /\ bytes = SubSeq(Encoding(response), 1, Len(bytes))
  BY DEF ReadingInv
<1> QED
  BY <1>1, <1>2, <1>3, <1>4 DEF Underway

\* A field that is there and fits is read as what was written.
LEMMA NumberHere ==
  ASSUME Underway, pos \in Nat, NEW skip \in Nat, NEW n \in Nat, NEW x, Fits(n, x),
         At(Encoding(response), pos + skip, Le(n, x)), pos + skip + n <= Len(bytes)
  PROVE  Number(skip, n) = x
<1> DEFINE e == Encoding(response)
           m == Len(bytes)
<1>1. e \in Text /\ m \in 0..Len(e) /\ bytes = SubSeq(e, 1, m)
  BY DEF Underway, Laid
<1>2. FromLe(SubSeq(SubSeq(e, 1, m), pos + skip + 1, pos + skip + n)) = x
  <2> HIDE DEF e, m
  <2> DEFINE p == pos + skip
  <2>1. At(e, p, Le(n, x)) /\ p + n <= m
    BY DEF e, m
  <2> HIDE DEF p
  <2>2. FromLe(SubSeq(SubSeq(e, 1, m), p + 1, p + n)) = x
    BY <1>1, <2>1, NumberAt
  <2> QED BY <2>2 DEF p
<1> QED
  BY <1>1, <1>2 DEF Number, Field

LEMMA FieldHere ==
  ASSUME Underway, pos \in Nat, NEW skip \in Nat, NEW w \in Text,
         At(Encoding(response), pos + skip, w), pos + skip + Len(w) <= Len(bytes)
  PROVE  Field(skip, Len(w)) = w
<1> DEFINE e == Encoding(response)
           m == Len(bytes)
<1>1. e \in Text /\ m \in 0..Len(e) /\ bytes = SubSeq(e, 1, m)
  BY DEF Underway, Laid
<1>2. SubSeq(SubSeq(e, 1, m), pos + skip + 1, pos + skip + Len(w)) = w
  <2> HIDE DEF e, m
  <2> DEFINE p == pos + skip
  <2>1. At(e, p, w) /\ p + Len(w) <= m
    BY DEF e, m
  <2> HIDE DEF p
  <2>2. SubSeq(SubSeq(e, 1, m), p + 1, p + Len(w)) = w
    BY <1>1, <2>1, ReadAt
  <2> QED BY <2>2 DEF p
<1> QED
  BY <1>1, <1>2 DEF Field
\* The header that is read next, and where it is.
NextHeader == response.headers[Len(response.headers) - left + 1]

LEMMA HeaderIsHere ==
  ASSUME Underway, Progress(response), stage = "headers", left > 0
  PROVE  LET n == Len(response.headers)
             e == Encoding(response)
             h == NextHeader
         IN  /\ n \in Nat /\ n - left + 1 \in 1..n /\ h \in Header
             /\ Fits(4, Len(h[1])) /\ Fits(4, Len(h[2]))
             /\ pos \in Nat /\ pos + Size(h) < Len(e)
             /\ pos + Size(h) = 6 + HeaderSizes(response.headers)[n - left + 1]
             /\ At(e, pos, Le(4, Len(h[1]))) /\ At(e, pos + 4, h[1])
             /\ At(e, pos + 4 + Len(h[1]), Le(4, Len(h[2])))
             /\ At(e, pos + 8 + Len(h[1]), h[2])
<1> DEFINE hs == response.headers
           n == Len(hs)
           e == Encoding(response)
           s == HeaderSizes(hs)
           k == n - left + 1
           h == hs[k]
           d == Len(BodyBytes(response.body))
<1>1. hs \in Seq(Header) /\ Fitting(response)
  BY DEF Underway, Storable, Entry
<1>2. n \in Nat /\ left \in 0..n /\ pos = 6 + s[n - left]
  BY <1>1, LenProperties DEF Progress
<1>3. k \in 1..n /\ k - 1 = n - left /\ n \in 0..n /\ n - left \in 0..n
  BY <1>2
<1>4. h \in Header
  BY <1>1, <1>2, <1>3, ElementOfSeq
<1>5. Fits(4, Len(h[1])) /\ Fits(4, Len(h[2]))
  BY <1>1, <1>3 DEF Fitting
<1>6. s[k - 1] \in Nat /\ s[k] = s[k - 1] + Size(h) /\ s[k] \in Nat
  BY <1>1, <1>2, <1>3, Sizes
<1>7. e \in Text /\ At(e, 6 + s[k - 1], HeaderBytes(h))
  BY <1>3 DEF Underway, Laid
<1>8. Len(e) = 6 + s[n] + 8 + d + 8 /\ d \in Nat /\ s[n] \in Nat
  <2>1. Len(e) = 6 + s[n] + 8 + d + 8 /\ At(e, 6 + s[n] + 8, BodyBytes(response.body))
    BY DEF Underway, Laid, HeadersEndAt
  <2>2. response.body.data \in Text /\ Fits(8, 9 + Len(response.body.data))
    BY <1>1 DEF Underway, Storable, Entry, Fitting
  <2>3. Len(response.body.data) \in Nat /\ Fits(8, Len(response.body.data))
    <3>1. Len(response.body.data) \in Nat
      BY <2>2, LenProperties DEF Text
    <3>2. /\ 9 + Len(response.body.data) \in Nat
          /\ Len(response.body.data) <= 9 + Len(response.body.data)
      BY <3>1
    <3> QED BY <2>2, <3>1, <3>2, FitsLess
  <2>4. BodyBytes(response.body) \in Text
    BY <2>2, <2>3, BodyAt
  <2>5. d \in Nat
    BY <2>4, LenProperties DEF Text
  <2>6. s[n] \in Nat
    BY <1>1, <1>3, Sizes
  <2> QED BY <2>1, <2>5, <2>6
<1>9. /\ HeaderBytes(h) \in Text /\ Len(HeaderBytes(h)) = Size(h)
      /\ At(HeaderBytes(h), 0, Le(4, Len(h[1]))) /\ At(HeaderBytes(h), 4, h[1])
      /\ At(HeaderBytes(h), 4 + Len(h[1]), Le(4, Len(h[2])))
      /\ At(HeaderBytes(h), 8 + Len(h[1]), h[2])
  BY <1>4, HeaderAt
<1>10. /\ h[1] \in Text /\ h[2] \in Text /\ Len(h[1]) \in Nat /\ Len(h[2]) \in Nat
       /\ Size(h) \in Nat
  BY <1>4, HeaderSize
<1>11. /\ pos \in Nat /\ pos = 6 + s[k - 1] /\ pos + Size(h) = 6 + s[k]
  <2>1. pos = 6 + s[k - 1]
    BY <1>2, <1>3
  <2>2. \A a, b \in Nat : 6 + a \in Nat /\ (6 + a) + b = 6 + (a + b)
    OBVIOUS
  <2> HIDE DEF h, s, k
  <2> QED BY <1>6, <1>10, <2>1, <2>2
<1>12. Le(4, Len(h[1])) \in Text /\ Le(4, Len(h[2])) \in Text
  <2> HIDE DEF h
  <2>1. 4 \in Nat
    OBVIOUS
  <2> QED BY <1>10, <2>1, LeIsText
<1>13. NextHeader = h
  BY DEF NextHeader
<1> HIDE DEF h, e, d, s, n
<1>14. /\ At(e, pos + 0, Le(4, Len(h[1]))) /\ At(e, pos + 4, h[1])
       /\ At(e, pos + (4 + Len(h[1])), Le(4, Len(h[2])))
       /\ At(e, pos + (8 + Len(h[1])), h[2])
  BY <1>7, <1>9, <1>10, <1>11, <1>12, AtWithin
<1>15. pos + 0 = pos /\ pos + (4 + Len(h[1])) = pos + 4 + Len(h[1])
       /\ pos + (8 + Len(h[1])) = pos + 8 + Len(h[1])
  <2>1. \A a, b \in Nat : a + 0 = a /\ a + (4 + b) = a + 4 + b /\ a + (8 + b) = a + 8 + b
    OBVIOUS
  <2> QED BY <1>10, <1>11, <2>1
<1>16. s[k] <= s[n]
  <2>1. pos + Size(h) <= Len(e)
    BY <1>7, <1>9, <1>11 DEF At
  <2> DEFINE G == {i \in 0..n : i < k \/ s[k] <= s[i]}
  <2>2. \A i \in 0..n : i \in G
    <3>1. 0 \in G
      BY <1>2, <1>3 DEF n
    <3>2. \A i \in 1..n : i - 1 \in G => i \in G
      <4> TAKE i \in 1..n
      <4> HAVE i - 1 \in G
      <4>1. s[i] = s[i - 1] + Size(hs[i]) /\ s[i - 1] \in Nat
        BY <1>1, <1>2, Sizes DEF s, n
      <4>2. Size(hs[i]) \in Nat
        BY <1>1, <1>2, ElementOfSeq, HeaderSize DEF n
      <4>3. CASE i - 1 >= k
        <5>1. s[k] <= s[i - 1]
          BY <1>2, <1>3, <4>3
        <5> QED BY <1>2, <1>6, <4>1, <4>2, <5>1
      <4>4. CASE i = k
        BY <1>6, <4>4
      <4>5. CASE i < k
        BY <4>5
      <4> QED BY <1>2, <1>3, <4>3, <4>4, <4>5
    <3> HIDE DEF G
    <3> QED BY <1>2, <3>1, <3>2, Upto
  <2>3. n \in G
    BY <1>3, <2>2
  <2> QED BY <1>2, <1>3, <2>3
<1>17. pos + Size(h) < Len(e)
  BY <1>6, <1>8, <1>11, <1>16
<1> QED
  BY <1>2, <1>3, <1>4, <1>5, <1>11, <1>13, <1>14, <1>15, <1>17 DEF e, n, s

\* All of it is there exactly if reading it succeeds, and then it is read.
LEMMA HeaderIsRead ==
  ASSUME Underway, Progress(response), stage = "headers", left > 0
  PROVE  LET h == NextHeader IN
         /\ ~HeaderAvailable => Len(bytes) < Len(Encoding(response))
         /\ HeaderAvailable =>
              /\ pos + Size(h) <= Len(bytes) /\ pos + 8 + NameLen + ValueLen = pos + Size(h)
              /\ <<Field(4, NameLen), Field(8 + NameLen, ValueLen)>> = h
<1> DEFINE e == Encoding(response)
           h == NextHeader
           m == Len(h[1])
           n == Len(h[2])
<1>1. h \in Header /\ Fits(4, m) /\ Fits(4, n)
  BY HeaderIsHere
<1>2. pos \in Nat /\ pos + Size(h) < Len(e)
  BY HeaderIsHere
<1>3. /\ At(e, pos, Le(4, m)) /\ At(e, pos + 4, h[1])
      /\ At(e, pos + 4 + m, Le(4, n)) /\ At(e, pos + 8 + m, h[2])
  BY HeaderIsHere
<1>4. Len(bytes) \in Nat /\ Len(e) \in Nat
  BY LenProperties DEF Underway, Laid, Text
<1>5. h[1] \in Text /\ h[2] \in Text /\ m \in Nat /\ n \in Nat
  BY <1>1, HeaderSize
<1>6. Size(h) = 8 + m + n
  BY DEF Size
<1>7. h = <<h[1], h[2]>>
  BY <1>1 DEF Header
<1> HIDE DEF e, h, m, n
<1>8. Available(4) => NameLen = m
  <2>1. pos + 0 = pos
    BY <1>2
  <2>2. Available(4) => pos + 0 + 4 <= Len(bytes)
    BY <2>1 DEF Available
  <2>3. 0 \in Nat /\ 4 \in Nat /\ At(e, pos + 0, Le(4, m))
    BY <1>3, <2>1
  <2> QED BY <1>1, <1>2, <2>2, <2>3, NumberHere DEF NameLen, e
<1>9. Available(8 + m) => Number(4 + m, 4) = n
  <2>1. pos + (4 + m) = pos + 4 + m /\ pos + (8 + m) = pos + (4 + m) + 4
    BY <1>2, <1>5
  <2>2. Available(8 + m) => pos + (4 + m) + 4 <= Len(bytes)
    BY <2>1 DEF Available
  <2>3. 4 + m \in Nat /\ 4 \in Nat /\ At(e, pos + (4 + m), Le(4, n))
    BY <1>3, <1>5, <2>1
  <2> QED BY <1>1, <1>2, <2>2, <2>3, NumberHere DEF e
<1>10. ASSUME HeaderAvailable
       PROVE  /\ NameLen = m /\ ValueLen = n /\ pos + 8 + m + n <= Len(bytes)
  <2>1. NameLen = m
    BY <1>8, <1>10 DEF HeaderAvailable
  <2>2. Available(8 + m) /\ ValueLen = n
    BY <1>9, <1>10, <2>1 DEF HeaderAvailable, ValueLen
  <2>3. Available(8 + m + n)
    BY <1>10, <2>1, <2>2 DEF HeaderAvailable
  <2>4. pos + (8 + m + n) = pos + 8 + m + n
    BY <1>2, <1>5
  <2> QED BY <2>1, <2>2, <2>3, <2>4 DEF Available
<1>11. ASSUME HeaderAvailable PROVE Field(4, m) = h[1] /\ Field(8 + m, n) = h[2]
  <2>1. pos + 4 + m <= Len(bytes) /\ pos + (8 + m) + n <= Len(bytes)
    BY <1>2, <1>4, <1>5, <1>10, <1>11
  <2>2. pos + 8 + m = pos + (8 + m) /\ 8 + m \in Nat /\ 4 \in Nat
    BY <1>2, <1>5
  <2>3. Field(4, m) = h[1]
    BY <1>2, <1>3, <1>5, <2>1, <2>2, FieldHere DEF e, m
  <2>4. Field(8 + m, n) = h[2]
    <3>1. At(e, pos + (8 + m), h[2])
      BY <1>3, <2>2
    <3> DEFINE skip == 8 + m
    <3>2. skip \in Nat /\ At(e, pos + skip, h[2]) /\ pos + skip + n <= Len(bytes)
      BY <2>1, <2>2, <3>1
    <3> HIDE DEF skip
    <3>3. Field(skip, n) = h[2]
      BY <1>2, <1>5, <3>2, FieldHere DEF e, n
    <3> QED BY <3>3 DEF skip
  <2> QED BY <2>3, <2>4
<1>12. ASSUME ~HeaderAvailable PROVE Len(bytes) < Len(e)
  <2>1. CASE ~Available(4)
    BY <1>2, <1>4, <1>5, <1>6, <2>1 DEF Available
  <2>2. CASE Available(4) /\ ~Available(8 + m)
    BY <1>2, <1>4, <1>5, <1>6, <2>2 DEF Available
  <2>3. CASE Available(4) /\ Available(8 + m)
    <3>1. NameLen = m /\ ValueLen = n
      BY <1>8, <1>9, <2>3 DEF ValueLen
    <3>2. ~Available(8 + m + n)
      BY <1>12, <2>3, <3>1 DEF HeaderAvailable
    <3> QED BY <1>2, <1>4, <1>5, <1>6, <3>2 DEF Available
  <2> QED BY <2>1, <2>2, <2>3
<1>13. ASSUME HeaderAvailable
       PROVE  pos + Size(h) <= Len(bytes) /\ pos + 8 + NameLen + ValueLen = pos + Size(h)
  BY <1>2, <1>5, <1>6, <1>10, <1>13
<1>14. ASSUME HeaderAvailable
       PROVE  <<Field(4, NameLen), Field(8 + NameLen, ValueLen)>> = h
  BY <1>7, <1>10, <1>11, <1>14
<1> QED
  BY <1>12, <1>13, <1>14 DEF e, h
\* The parts of the entry that is read.
LEMMA Parts ==
  ASSUME Underway
  PROVE  LET r == response
             b == Encoding(r)
             e == HeadersEndAt(r)
             w == BodyBytes(r.body)
         IN  /\ e \in Nat /\ Len(w) \in Nat /\ Len(b) = e + 8 + Len(w) + 8 /\ Len(b) \in Nat
             /\ 6 <= e /\ w \in Text /\ FromBytes(w) = r.body
             /\ Fits(2, r.status) /\ Fits(4, Len(r.headers)) /\ Fits(8, Len(w)) /\ Fits(8, r.epoch)
             /\ At(b, 0, Le(2, r.status)) /\ At(b, 2, Le(4, Len(r.headers)))
             /\ At(b, e, Le(8, Len(w))) /\ At(b, e + 8, w) /\ At(b, e + 8 + Len(w), Le(8, r.epoch))
<1> DEFINE r == response
           b == Encoding(r)
           e == HeadersEndAt(r)
           w == BodyBytes(r.body)
<1>1. r \in Entry /\ Fitting(r) /\ r.body.trailers = None /\ Laid(b, r)
  BY DEF Underway, Storable
<1>2. r.headers \in Seq(Header) /\ r.body \in [data: Text, trailers: Seq(STRING) \union {None}]
  BY <1>1 DEF Entry
<1>3. Len(r.headers) \in 0..Len(r.headers) /\ HeaderSizes(r.headers)[Len(r.headers)] \in Nat
  <2>1. Len(r.headers) \in Nat
    BY <1>2, LenProperties
  <2>2. Len(r.headers) \in 0..Len(r.headers)
    BY <2>1
  <2> QED BY <1>2, <2>2, Sizes
<1>4. e \in Nat /\ 6 <= e
  BY <1>3 DEF HeadersEndAt
<1>5. r.body.data \in Text /\ r.body = Body(r.body.data, None)
  BY <1>1, <1>2 DEF Body
<1>6. Fits(8, Len(r.body.data)) /\ Fits(8, 9 + Len(r.body.data))
  <2>1. Len(r.body.data) \in Nat /\ Fits(8, 9 + Len(r.body.data))
    BY <1>1, <1>5, LenProperties DEF Text, Fitting
  <2>2. 9 + Len(r.body.data) \in Nat /\ Len(r.body.data) <= 9 + Len(r.body.data)
    BY <2>1
  <2> QED BY <2>1, <2>2, FitsLess
<1>7. w \in Text /\ Len(w) = 9 + Len(r.body.data) /\ FromBytes(w) = r.body
  BY <1>5, <1>6, BodyAt
<1>8. Fits(8, Len(w)) /\ Len(w) \in Nat
  BY <1>6, <1>7 DEF Fits
<1>9. /\ b \in Text /\ Len(b) = e + 8 + Len(w) + 8
      /\ At(b, 0, Le(2, r.status)) /\ At(b, 2, Le(4, Len(r.headers)))
      /\ At(b, e, Le(8, Len(w))) /\ At(b, e + 8, w) /\ At(b, e + 8 + Len(w), Le(8, r.epoch))
  BY <1>1 DEF Laid
<1>10. Len(b) \in Nat
  BY <1>9, LenProperties DEF Text
<1>11. Fits(2, r.status) /\ Fits(4, Len(r.headers)) /\ Fits(8, r.epoch)
  BY <1>1 DEF Fitting
<1> QED
  BY <1>4, <1>7, <1>8, <1>9, <1>10, <1>11

\* What each step of decode reads.
LEMMA StatusIsRead ==
  ASSUME Underway, Progress(response), stage = "status"
  PROVE  /\ pos = 0 /\ (~Available(2) => Len(bytes) < Len(Encoding(response)))
         /\ Available(2) => Number(0, 2) = response.status
<1>1. pos = 0
  BY DEF Progress
<1>2. Len(bytes) \in Nat
  BY DEF Underway
<1>3. ~Available(2) => Len(bytes) < Len(Encoding(response))
  BY <1>1, <1>2, Parts DEF Available
<1>4. Available(2) => Number(0, 2) = response.status
  <2>1. Fits(2, response.status) /\ At(Encoding(response), 0, Le(2, response.status))
    BY Parts
  <2>2. pos + 0 = 0 /\ 2 \in Nat /\ 0 \in Nat /\ pos \in Nat
    BY <1>1
  <2>3. At(Encoding(response), pos + 0, Le(2, response.status))
    BY <2>1, <2>2
  <2>4. Available(2) => pos + 0 + 2 <= Len(bytes)
    BY <1>1 DEF Available
  <2> QED BY <2>1, <2>2, <2>3, <2>4, NumberHere
<1> QED
  BY <1>1, <1>3, <1>4

LEMMA CountIsRead ==
  ASSUME Underway, Progress(response), stage = "count"
  PROVE  /\ pos = 2 /\ (~Available(4) => Len(bytes) < Len(Encoding(response)))
         /\ Available(4) => Number(0, 4) = Len(response.headers)
<1>1. pos = 2
  BY DEF Progress
<1>2. Len(bytes) \in Nat
  BY DEF Underway
<1>3. ~Available(4) => Len(bytes) < Len(Encoding(response))
  BY <1>1, <1>2, Parts DEF Available
<1>4. Available(4) => Number(0, 4) = Len(response.headers)
  <2>1. /\ Fits(4, Len(response.headers))
        /\ At(Encoding(response), 2, Le(4, Len(response.headers)))
    BY Parts
  <2>2. pos + 0 = 2 /\ 4 \in Nat /\ 0 \in Nat /\ pos \in Nat
    BY <1>1
  <2>3. At(Encoding(response), pos + 0, Le(4, Len(response.headers)))
    BY <2>1, <2>2
  <2>4. Available(4) => pos + 0 + 4 <= Len(bytes)
    BY <1>1 DEF Available
  <2> QED BY <2>1, <2>2, <2>3, <2>4, NumberHere
<1> QED
  BY <1>1, <1>3, <1>4

LEMMA BodyIsRead ==
  ASSUME Underway, Progress(response), stage = "body"
  PROVE  LET d == Len(BodyBytes(response.body)) IN
         /\ pos = HeadersEndAt(response)
         /\ ~BodyAvailable => Len(bytes) < Len(Encoding(response))
         /\ BodyAvailable => /\ Number(0, 8) = d /\ pos + 8 + d <= Len(bytes)
                             /\ FromBytes(Field(8, Number(0, 8))) = response.body
<1> DEFINE w == BodyBytes(response.body)
           d == Len(w)
           e == HeadersEndAt(response)
           b == Encoding(response)
<1>1. pos = e /\ e \in Nat /\ d \in Nat /\ w \in Text /\ Len(b) = e + 8 + d + 8
  BY Parts DEF Progress
<1>2. Len(bytes) \in Nat
  BY DEF Underway
<1>3. Fits(8, d) /\ At(b, e, Le(8, d)) /\ At(b, e + 8, w) /\ FromBytes(w) = response.body
  BY Parts
<1>4. Available(8) => Number(0, 8) = d
  <2> HIDE DEF e, d, b
  <2>1. pos + 0 = e /\ 8 \in Nat /\ 0 \in Nat /\ pos \in Nat
    BY <1>1
  <2>2. At(b, pos + 0, Le(8, d))
    BY <1>3, <2>1
  <2>3. Available(8) => pos + 0 + 8 <= Len(bytes)
    BY <1>1 DEF Available
  <2> QED BY <1>3, <2>1, <2>2, <2>3, NumberHere DEF b
<1>5. ASSUME BodyAvailable PROVE Number(0, 8) = d /\ pos + 8 + d <= Len(bytes)
  <2> HIDE DEF e, d
  <2>1. Number(0, 8) = d
    BY <1>4, <1>5 DEF BodyAvailable
  <2>2. Available(8 + d)
    BY <1>5, <2>1 DEF BodyAvailable
  <2> QED BY <1>1, <2>1, <2>2 DEF Available
<1>6. ASSUME BodyAvailable PROVE FromBytes(Field(8, Number(0, 8))) = response.body
  <2> HIDE DEF w, e, b
  <2>1. At(b, pos + 8, w) /\ pos + 8 + Len(w) <= Len(bytes) /\ pos \in Nat /\ 8 \in Nat
    BY <1>1, <1>3, <1>5, <1>6
  <2>2. Field(8, Len(w)) = w
    BY <1>1, <2>1, FieldHere DEF b
  <2> QED BY <1>3, <1>5, <1>6, <2>2
<1>7. ASSUME ~BodyAvailable PROVE Len(bytes) < Len(b)
  <2> HIDE DEF e, d, b
  <2>1. CASE ~Available(8)
    BY <1>1, <1>2, <2>1 DEF Available
  <2>2. CASE Available(8) /\ ~Available(8 + d)
    BY <1>1, <1>2, <2>2 DEF Available
  <2> QED BY <1>4, <1>7, <2>1, <2>2 DEF BodyAvailable
<1> QED
  BY <1>1, <1>5, <1>6, <1>7

LEMMA EpochIsRead ==
  ASSUME Underway, Progress(response), stage = "epoch"
  PROVE  /\ pos \in Nat /\ pos + 8 = Len(Encoding(response))
         /\ ~Available(8) => Len(bytes) < Len(Encoding(response))
         /\ Available(8) => /\ Number(0, 8) = response.epoch
                            /\ Len(bytes) = Len(Encoding(response))
<1> DEFINE d == Len(BodyBytes(response.body))
           e == HeadersEndAt(response)
           b == Encoding(response)
<1>1. pos = e + 8 + d /\ e \in Nat /\ d \in Nat /\ Len(b) = e + 8 + d + 8
  BY Parts DEF Progress
<1>2. Len(bytes) \in 0..Len(b)
  BY DEF Underway
<1>3. Fits(8, response.epoch) /\ At(b, e + 8 + d, Le(8, response.epoch))
  BY Parts
<1> HIDE DEF d, e
<1>4. Available(8) => Number(0, 8) = response.epoch
  <2>1. pos + 0 = e + 8 + d /\ 8 \in Nat /\ 0 \in Nat /\ pos \in Nat
    BY <1>1
  <2>2. At(b, pos + 0, Le(8, response.epoch))
    BY <1>3, <2>1
  <2>3. Available(8) => pos + 0 + 8 <= Len(bytes)
    BY <1>1 DEF Available
  <2> QED BY <1>3, <2>1, <2>2, <2>3, NumberHere
<1> QED
  <2> HIDE DEF b
  <2>1. pos \in Nat /\ pos + 8 = Len(b)
    BY <1>1
  <2>2. (~Available(8) => Len(bytes) < Len(b)) /\ (Available(8) => Len(bytes) = Len(b))
    BY <1>2, <2>1 DEF Available
  <2> QED BY <1>4, <2>1, <2>2 DEF b
-----------------------------------------------------------------------------
(* Every step keeps the invariant.                                         *)

\* A status has two bytes.
LEMMA StatusFits ==
  ASSUME NEW x \in 0..999
  PROVE  Fits(2, x)
<1> DEFINE n == 2
           s == Shifted(n, x)
<1>1. n \in Nat /\ n = 2 /\ x \in Nat
  OBVIOUS
<1> HIDE DEF n
<1>2. /\ s[0] = x /\ \A k \in 0..n : s[k] \in Nat
      /\ \A k \in 1..n : s[k] = s[k - 1] \div 256
  BY <1>1, Shifts
<1> HIDE DEF s
<1>3. s[1] = s[0] \div 256
  <2>1. 1 \in 1..n /\ 1 - 1 = 0
    BY <1>1
  <2> QED BY <1>2, <2>1
<1>4. s[2] = s[1] \div 256
  <2>1. 2 \in 1..n /\ 2 - 1 = 1
    BY <1>1
  <2> QED BY <1>2, <2>1
<1>5. \A y \in 0..999 : y \div 256 \in 0..3
  OBVIOUS
<1>6. \A y \in 0..3 : y \div 256 = 0
  OBVIOUS
<1>7. s[n] = 0
  BY <1>1, <1>2, <1>3, <1>4, <1>5, <1>6
<1> QED
  <2>1. Fits(n, x)
    BY <1>1, <1>7 DEF Fits, s
  <2> QED BY <1>1, <2>1

\* The lengths of the parts of an origin's answer fit, also of what is made of it.
LEMMA AnswerFits ==
  ASSUME NEW answer \in OriginAnswers, NEW epoch \in Epochs, NEW r,
         r = [status |-> answer.status, headers |-> ResponseHeaders(answer.headers),
              body |-> ResponseBody(answer), epoch |-> epoch]
  PROVE  /\ Storable(r) /\ CanGrow(r)
         /\ LengthsRight => Told(r.headers, Len(r.body.data))
<1> DEFINE n == Len(answer.data)
           S == {h \in Header : Fits(4, Len(h[1])) /\ Fits(4, Len(h[2]))}
           T == {h \in S : h[1] = ContentLength => h[2] = Decimal(n)}
           hs == answer.headers
           rs == ResponseHeaders(hs)
<1>1. /\ answer \in [status: 0..999, headers: Seq(Text \X Text), data: Text,
                     trailers: Seq(STRING) \union {None}]
      /\ Encodable(answer) /\ Fits(8, epoch)
  BY ExchangeAssumption
<1>2. answer.status \in 0..999 /\ hs \in Seq(Header) /\ answer.data \in Text
  BY <1>1 DEF Header
<1>3. /\ Fits(4, Len(hs) + 1) /\ Fits(8, 2 * n + 9)
      /\ \A i \in 1..Len(hs), j \in 1..2 : Fits(4, Len(hs[i][j]))
  BY <1>1 DEF Encodable
<1>4. Len(hs) \in Nat /\ n \in Nat /\ \A i \in 1..Len(hs) : hs[i] \in Header
  BY <1>2, LenProperties, ElementOfSeq DEF Text
<1>5. hs \in Seq(S)
  <2>1. 1 \in 1..2 /\ 2 \in 1..2
    OBVIOUS
  <2>2. \A i \in 1..Len(hs) : hs[i] \in S
    BY <1>3, <1>4, <2>1
  <2> HIDE DEF S
  <2> QED BY <1>2, <2>2, LenProperties
<1>6. S \subseteq Header /\ T \subseteq Header
  OBVIOUS
<1>7. rs \in Seq(S) /\ Distinct(rs) /\ Len(rs) \in Nat /\ Len(rs) <= Len(hs)
  <2> HIDE DEF S
  <2> QED BY <1>5, <1>6, Kept
<1>8. \A i \in 1..Len(rs) : Fits(4, Len(rs[i][1])) /\ Fits(4, Len(rs[i][2]))
  <2>1. \A i \in 1..Len(rs) : rs[i] \in S
    <3> HIDE DEF S
    <3> QED BY <1>7, ElementOfSeq
  <2> QED BY <2>1
<1>9. rs \in Seq(Header)
  <2>1. \A i \in 1..Len(rs) : rs[i] \in S
    <3> HIDE DEF S
    <3> QED BY <1>7, ElementOfSeq
  <2> HIDE DEF S
  <2> QED BY <1>6, <1>7, <2>1, LenProperties
<1>10. Fits(4, Len(rs) + 1) /\ Fits(4, Len(rs))
  <2> DEFINE x == Len(rs) + 1
             y == Len(hs) + 1
  <2>1. x \in Nat /\ x <= y /\ Len(rs) <= y /\ 4 \in Nat
    BY <1>4, <1>7
  <2>2. Fits(4, y)
    BY <1>3
  <2> HIDE DEF x, y
  <2>3. Fits(4, x) /\ Fits(4, Len(rs))
    BY <1>7, <2>1, <2>2, FitsLess
  <2> QED BY <2>3 DEF x
<1>11. Fits(8, 9 + n) /\ Fits(2, answer.status)
  <2>1. 9 + n \in Nat /\ 9 + n <= 2 * n + 9 /\ 8 \in Nat
    BY <1>4
  <2>2. Fits(8, 9 + n)
    BY <1>3, <2>1, FitsLess
  <2>3. Fits(2, answer.status)
    BY <1>2, StatusFits
  <2> QED BY <2>2, <2>3
<1>12. /\ r.status = answer.status /\ r.headers = rs /\ r.epoch = epoch
       /\ r.body = [data |-> answer.data, trailers |-> None]
  BY DEF ResponseBody, Body
<1>13. r \in Entry
  <2>1. r.body \in [data: Text, trailers: Seq(STRING) \union {None}]
    BY <1>2, <1>12
  <2> HIDE DEF rs
  <2> QED BY <1>2, <1>9, <1>12, <2>1 DEF Entry
<1>14. r.body.data = answer.data /\ r.body.trailers = None
  BY <1>12
<1>15. Fitting(r)
  <2> HIDE DEF rs
  <2> QED BY <1>1, <1>8, <1>10, <1>11, <1>12, <1>14 DEF Fitting
<1>16. CanGrow(r)
  <2> HIDE DEF rs
  <2> QED BY <1>3, <1>10, <1>12, <1>14 DEF CanGrow
<1>17. ASSUME LengthsRight PROVE Told(rs, n)
  <2>1. \A i \in 1..Len(hs) : hs[i] \in T
    <3>1. \A i \in 1..Len(hs) : hs[i] \in S
      <4> HIDE DEF S
      <4> QED BY <1>5, ElementOfSeq
    <3>2. \A i \in 1..Len(hs) : hs[i][1] = ContentLength => hs[i][2] = Decimal(n)
      BY <1>17 DEF LengthsRight, Told
    <3> HIDE DEF S
    <3> QED BY <3>1, <3>2
  <2>2. rs \in Seq(T)
    <3> HIDE DEF T, S
    <3>1. hs \in Seq(T)
      BY <1>2, <2>1, LenProperties
    <3> QED BY <1>6, <3>1, Kept
  <2>3. \A i \in 1..Len(rs) : rs[i] \in T
    <3> HIDE DEF T
    <3> QED BY <2>2, ElementOfSeq
  <2> HIDE DEF rs, n
  <2> QED BY <2>3 DEF Told
<1> QED
  <2> HIDE DEF rs, n
  <2>1. Storable(r)
    BY <1>7, <1>12, <1>13, <1>14, <1>15 DEF Storable
  <2>2. LengthsRight => Told(r.headers, Len(r.body.data))
    BY <1>12, <1>14, <1>17 DEF n
  <2> QED BY <1>16, <2>1, <2>2
\* A body that is replaced, and the header with its length, still fit.
LEMMA ReplacedFits ==
  ASSUME NEW r, Storable(r), CanGrow(r), NEW x,
         x = [r EXCEPT !.body.data = Replaced(@),
                !.headers = Inserted(@, <<ContentLength, Decimal(Len(Replaced(r.body.data)))>>)]
  PROVE  Storable(x) /\ Told(x.headers, Len(x.body.data))
<1> DEFINE w == Replaced(r.body.data)
           n == Len(w)
           h == <<ContentLength, Decimal(n)>>
           S == {y \in Header : Fits(4, Len(y[1])) /\ Fits(4, Len(y[2]))}
           hs == r.headers
           rs == Inserted(hs, h)
<1>1. /\ r \in Entry /\ Fitting(r) /\ r.body.trailers = None /\ Distinct(hs)
      /\ Fits(4, Len(hs) + 1) /\ Fits(8, 2 * Len(r.body.data) + 9)
  BY DEF Storable, CanGrow
<1>2. PICK answer \in OriginAnswers : r.body.data = answer.data
  BY DEF CanGrow
<1>3. hs \in Seq(Header) /\ r.body \in [data: Text, trailers: Seq(STRING) \union {None}]
  BY <1>1 DEF Entry
<1>4. r.body.data \in Text
  BY <1>3
<1>5. w \in Text /\ n \in 0..(2 * Len(r.body.data)) /\ Len(r.body.data) \in Nat
  BY <1>4, ReplacedIsText, LenProperties DEF Text
<1>6. Decimal(n) \in Text /\ Fits(4, Len(Decimal(n)))
  <2> HIDE DEF n
  <2>1. n \in 0..(2 * Len(answer.data))
    BY <1>2, <1>5
  <2> QED BY <2>1, ExchangeAssumption
<1>7. h \in S
  <2> HIDE DEF n
  <2>1. ContentLength \in Text /\ Fits(4, Len(ContentLength))
    BY ExchangeAssumption
  <2> QED BY <1>6, <2>1 DEF Header
<1>8. hs \in Seq(S)
  <2>1. Len(hs) \in Nat /\ \A i \in 1..Len(hs) : hs[i] \in Header
    BY <1>3, LenProperties, ElementOfSeq
  <2>2. \A i \in 1..Len(hs) : Fits(4, Len(hs[i][1])) /\ Fits(4, Len(hs[i][2]))
    BY <1>1 DEF Fitting
  <2>3. \A i \in 1..Len(hs) : hs[i] \in S
    BY <2>1, <2>2
  <2> HIDE DEF S
  <2> QED BY <1>3, <2>3, LenProperties
<1>9. S \subseteq Header
  OBVIOUS
<1>10. rs \in Seq(S) /\ Len(rs) \in Nat /\ Len(rs) <= Len(hs) + 1 /\ Distinct(rs)
  <2> HIDE DEF S, h, hs
  <2> QED BY <1>1, <1>7, <1>8, <1>9, InsertedIn
<1>11. \A i \in 1..Len(rs) : rs[i] \in S
  <2> HIDE DEF S, rs
  <2> QED BY <1>10, ElementOfSeq
<1>12. rs \in Seq(Header)
  <2> HIDE DEF S, rs
  <2> QED BY <1>9, <1>10, <1>11, LenProperties
<1>13. \A i \in 1..Len(rs) : Fits(4, Len(rs[i][1])) /\ Fits(4, Len(rs[i][2]))
  <2> HIDE DEF rs
  <2> QED BY <1>11
<1>14. Fits(4, Len(rs))
  <2>1. 4 \in Nat
    OBVIOUS
  <2> HIDE DEF rs
  <2> QED BY <1>1, <1>10, <2>1, FitsLess
<1>15. Fits(8, 9 + n)
  <2> HIDE DEF n
  <2>1. 9 + n \in Nat /\ 9 + n <= 2 * Len(r.body.data) + 9 /\ 8 \in Nat
    BY <1>5
  <2> QED BY <1>1, <2>1, FitsLess
<1>16. \A i \in 1..Len(rs) : rs[i][1] = ContentLength => rs[i][2] = Decimal(n)
  <2>1. h[1] = ContentLength /\ h[2] = Decimal(n)
    OBVIOUS
  <2>2. Len(hs) \in Nat
    BY <1>3, LenProperties
  <2> HIDE DEF h, n, hs
  <2>3. CASE \E i \in 1..Len(hs) : hs[i][1] = h[1]
    <3>1. rs = [i \in 1..Len(hs) |-> IF hs[i][1] = h[1] THEN h ELSE hs[i]]
      BY <2>3 DEF Inserted
    <3> HIDE DEF rs
    <3>2. Len(rs) = Len(hs)
      BY <2>2, <3>1, <1>12, LenProperties
    <3> QED BY <2>1, <3>1, <3>2
  <2>4. CASE \A i \in 1..Len(hs) : hs[i][1] # h[1]
    <3>1. rs = Append(hs, h)
      BY <2>4 DEF Inserted
    <3>2. h \in Header
      BY <1>7, <1>9
    <3> HIDE DEF rs
    <3>3. /\ Len(rs) = Len(hs) + 1 /\ rs[Len(hs) + 1] = h
          /\ \A i \in 1..Len(hs) : rs[i] = hs[i]
      BY <1>3, <3>1, <3>2, AppendProperties DEF hs
    <3> QED BY <2>1, <2>2, <2>4, <3>3
  <2> QED BY <2>3, <2>4
<1>17. /\ x.status = r.status /\ x.epoch = r.epoch /\ x.headers = rs
       /\ x.body.data = w /\ x.body.trailers = None
       /\ x.body = [data |-> w, trailers |-> None]
       /\ x = [status |-> r.status, headers |-> rs, body |-> x.body, epoch |-> r.epoch]
  <2> HIDE DEF w, rs
  <2>1. /\ r = [status |-> r.status, headers |-> r.headers, body |-> r.body, epoch |-> r.epoch]
        /\ r.body = [data |-> r.body.data, trailers |-> r.body.trailers]
    BY <1>1, <1>3 DEF Entry
  <2> QED BY <1>1, <2>1 DEF w, rs
<1>18. x \in Entry
  <2> HIDE DEF w, rs
  <2>1. x.body \in [data: Text, trailers: Seq(STRING) \union {None}]
    BY <1>5, <1>17
  <2>2. r.status \in 0..999 /\ r.epoch \in Epochs
    BY <1>1 DEF Entry
  <2> QED BY <1>12, <1>17, <2>1, <2>2 DEF Entry
<1>19. Fitting(x)
  <2> HIDE DEF w, rs
  <2>1. Fits(2, r.status) /\ Fits(8, r.epoch)
    BY <1>1 DEF Fitting
  <2> QED BY <1>13, <1>14, <1>15, <1>17, <2>1 DEF Fitting
<1> HIDE DEF w, rs
<1>20. Storable(x)
  BY <1>10, <1>17, <1>18, <1>19 DEF Storable
<1>21. Told(x.headers, Len(x.body.data))
  BY <1>16, <1>17 DEF Told
<1> QED
  BY <1>20, <1>21
\* The request is collected and sent.
LEMMA RequestNext ==
  ASSUME RequestInv, [Next]_vars
  PROVE  RequestInv'
<1>1. CASE Collect
  <2> DEFINE f == Head(frames)
  <2>1. /\ f \in DataFrames \union TrailerFrames
        /\ Tail(frames) \in Seq(DataFrames \union TrailerFrames)
    BY <1>1, HeadTailProperties DEF RequestInv, Collect
  <2>2. arrived \in Seq(0..255) /\ collected.data = arrived /\ redirects \in Nat
        /\ collected \in [data: Text, trailers: Seq(STRING) \union {None}]
    BY DEF RequestInv, Text
  <2>3. /\ frames' = Tail(frames) /\ collected' = PushFrame(collected, f)
        /\ arrived' = arrived \o (IF "data" \in DOMAIN f THEN f.data ELSE <<>>)
        /\ stage' = "collect" /\ redirects' = redirects
    BY <1>1 DEF Collect, codecVars
  <2> HIDE DEF f
  <2>4. CASE f \in DataFrames
    <3>1. "data" \in DOMAIN f /\ f.data \in Text
      BY <2>4 DEF DataFrames
    <3>2. arrived' = arrived \o f.data /\ collected' = [collected EXCEPT !.data = @ \o f.data]
      BY <2>3, <3>1 DEF PushFrame
    <3>3. arrived' \in Text
      BY <2>2, <3>1, <3>2, Joined DEF Text
    <3>4. /\ collected' \in [data: Text, trailers: Seq(STRING) \union {None}]
          /\ collected'.data = arrived'
      BY <2>2, <3>2, <3>3
    <3> QED BY <2>1, <2>2, <2>3, <3>3, <3>4 DEF RequestInv
  <2>5. CASE f \in TrailerFrames
    <3>1. "data" \notin DOMAIN f /\ f.trailers \in Seq(STRING)
      BY <2>5 DEF TrailerFrames
    <3>2. arrived' = arrived \o <<>>
      BY <2>3, <3>1
    <3>3. arrived' = arrived
      BY <2>2, <3>2, ConcatEmptySeq
    <3>4. collected' = [collected EXCEPT
            !.trailers = IF @ = None THEN f.trailers ELSE @ \o f.trailers]
      BY <2>3, <3>1 DEF PushFrame
    <3>5. (IF collected.trailers = None THEN f.trailers ELSE collected.trailers \o f.trailers)
            \in Seq(STRING)
      BY <2>2, <3>1, ConcatProperties
    <3>6. /\ collected' \in [data: Text, trailers: Seq(STRING) \union {None}]
          /\ collected'.data = collected.data
      BY <2>2, <3>4, <3>5
    <3> QED BY <2>1, <2>2, <2>3, <3>3, <3>6 DEF RequestInv, Text
  <2> QED BY <2>1, <2>4, <2>5
<1>2. CASE Send
  BY <1>2, ExchangeAssumption DEF Send, RequestInv
<1>3. CASE Redirect
  <2>1. /\ redirects' = redirects + 1 /\ redirects' > 0 /\ stage' = stage /\ stage = "awaiting"
        /\ UNCHANGED <<frames, arrived, collected>>
    BY <1>3 DEF Redirect, RequestInv, codecVars
  <2>2. IF sent' = None THEN redirects' > 0 ELSE sent' = arrived
    BY <1>3, <2>1 DEF Redirect, RequestInv
  <2> QED BY <2>1, <2>2 DEF RequestInv
<1>4. CASE Answer
  <2>1. /\ frames' = frames /\ arrived' = <<>> /\ redirects' = 0 /\ stage' = "replace"
        /\ collected' = [data |-> <<>>, trailers |-> None]
    BY <1>4 DEF Answer, Empty, Body
  <2>2. <<>> \in Text
    BY EmptySeq DEF Text
  <2>3. collected' \in [data: Text, trailers: Seq(STRING) \union {None}]
    BY <2>1, <2>2
  <2> QED BY <2>1, <2>2, <2>3 DEF RequestInv
<1>5. CASE CodecNext /\ UNCHANGED exchangeVars
  <2>1. stage' # "awaiting"
    BY <1>5 DEF CodecNext, Encode, ReadStatus, ReadCount, ReadHeader, HeadersEnd, ReadBody,
                ReadEpoch, ReadFails
  <2> QED BY <1>5, <2>1 DEF exchangeVars, RequestInv
<1>6. CASE PollData
  BY <1>6 DEF PollData, RequestInv
<1>7. CASE CollectEnds \/ CollectFails \/ SendFails \/ KeepBody \/ ReplaceBodyPanics \/ PollEnd
  BY <1>7 DEF CollectEnds, CollectFails, SendFails, KeepBody, ReplaceBodyPanics, PollEnd,
              exchangeVars, RequestInv
<1>8. CASE ReplaceBody
  BY <1>8 DEF ReplaceBody, exchangeVars, RequestInv
<1>9. CASE UNCHANGED vars
  BY <1>9 DEF vars, codecVars, exchangeVars, RequestInv
<1> QED
  BY <1>1, <1>2, <1>3, <1>4, <1>5, <1>6, <1>7, <1>8, <1>9 DEF Next

\* What is stored can be written, and is read back as it is.
LEMMA StoredNext ==
  ASSUME StoredInv, [Next]_vars
  PROVE  StoredInv' /\ (ToldInv => ToldInv')
<1>1. CASE Answer
  <2>1. PICK answer \in OriginAnswers, epoch \in Epochs :
          response' = [status |-> answer.status, headers |-> ResponseHeaders(answer.headers),
                       body |-> ResponseBody(answer), epoch |-> epoch]
    BY <1>1 DEF Answer
  <2>2. /\ Storable(response') /\ CanGrow(response')
        /\ LengthsRight => Told(response'.headers, Len(response'.body.data))
    BY <2>1, AnswerFits
  <2>3. /\ stage = "awaiting" /\ stage' = "replace" /\ bytes' = bytes /\ pos' = pos
        /\ left' = left /\ decoded' = decoded /\ out' = out
    BY <1>1 DEF Answer
  <2>4. bytes' = <<>> /\ pos' = 0 /\ left' = 0 /\ decoded' = Nothing /\ out' = <<>>
    BY <2>3 DEF StoredInv, Before
  <2> QED BY <2>2, <2>3, <2>4 DEF StoredInv, ToldInv, Reading
<1>2. CASE ReplaceBody
  <2>1. /\ stage = "replace" /\ stage' = "encode" /\ bytes' = bytes /\ pos' = pos
        /\ left' = left /\ decoded' = decoded /\ out' = out
    BY <1>2 DEF ReplaceBody, exchangeVars
  <2>2. Storable(response) /\ CanGrow(response)
    BY <2>1 DEF StoredInv
  <2>3. response' = [response EXCEPT
          !.body.data = Replaced(@),
          !.headers = Inserted(@, <<ContentLength, Decimal(Len(Replaced(response.body.data)))>>)]
    BY <1>2 DEF ReplaceBody
  <2>4. Storable(response') /\ Told(response'.headers, Len(response'.body.data))
    BY <2>2, <2>3, ReplacedFits
  <2>5. bytes' = <<>> /\ pos' = 0 /\ left' = 0 /\ decoded' = Nothing /\ out' = <<>>
    BY <2>1 DEF StoredInv
  <2> QED BY <2>1, <2>4, <2>5 DEF StoredInv, ToldInv, Reading
<1>3. CASE KeepBody
  <2>1. /\ stage = "replace" /\ stage' = "encode" /\ response' = response /\ bytes' = bytes
        /\ pos' = pos /\ left' = left /\ decoded' = decoded /\ out' = out
    BY <1>3 DEF KeepBody, exchangeVars
  <2> QED BY <2>1 DEF StoredInv, ToldInv, Reading
<1>4. CASE Collect
  <2>1. UNCHANGED <<response, bytes, pos, stage, left, decoded, out>>
    BY <1>4 DEF Collect, codecVars
  <2> QED BY <2>1 DEF StoredInv, ToldInv
<1>5. CASE Send
  <2>1. UNCHANGED <<response, bytes, pos, left, decoded, out>>
        /\ stage = "forward" /\ stage' = "awaiting"
    BY <1>5 DEF Send
  <2> QED BY <2>1 DEF StoredInv, ToldInv, Before, Reading
<1>6. CASE Redirect
  <2>1. UNCHANGED <<response, bytes, pos, stage, left, decoded, out>>
    BY <1>6 DEF Redirect, codecVars
  <2> QED BY <2>1 DEF StoredInv, ToldInv
<1>7. CASE CollectEnds \/ CollectFails \/ SendFails \/ ReplaceBodyPanics
  <2>1. /\ UNCHANGED <<response, bytes, pos, left, decoded, out>>
        /\ stage \in {"collect", "awaiting", "replace"} /\ stage' \in {"forward", "panicked"}
    BY <1>7 DEF CollectEnds, CollectFails, SendFails, ReplaceBodyPanics, exchangeVars
  <2> QED BY <2>1 DEF StoredInv, ToldInv, Before, Reading
<1>8. CASE CodecNext \/ PollData \/ PollEnd
  <2>1. /\ response' = response /\ stage \in {"encode"} \union Reading /\ stage' \in Reading
    BY <1>8 DEF CodecNext, Encode, ReadStatus, ReadCount, ReadHeader, HeadersEnd, ReadBody,
                ReadEpoch, ReadFails, Short, PollData, PollEnd, Reading
  <2> QED BY <2>1 DEF StoredInv, ToldInv, Before, Reading
<1>9. CASE UNCHANGED vars
  <2>1. UNCHANGED <<response, bytes, pos, stage, left, decoded, out>>
    BY <1>9 DEF vars, codecVars, exchangeVars
  <2> QED BY <2>1 DEF StoredInv, ToldInv
<1> QED
  BY <1>1, <1>2, <1>3, <1>4, <1>5, <1>6, <1>7, <1>8, <1>9 DEF Next
\* The steps of decode.
LEMMA DecodeNext ==
  ASSUME TypeOK, StoredInv, ReadingInv, CodecNext, UNCHANGED exchangeVars
  PROVE  /\ ReadingInv' /\ stage' \in Reading
         /\ bytes' \in Text /\ pos' \in 0..Len(bytes') /\ left' \in Nat
         /\ DOMAIN decoded' = DOMAIN Nothing
<1> DEFINE r == response
           n == Len(r.headers)
<1>1. response' = response /\ out' = out
  BY DEF CodecNext, Encode, ReadStatus, ReadCount, ReadHeader, HeadersEnd, ReadBody, ReadEpoch,
         ReadFails, exchangeVars
<1>2. bytes \in Text /\ pos \in 0..Len(bytes) /\ left \in Nat /\ DOMAIN decoded = DOMAIN Nothing
      /\ Len(bytes) \in Nat
  BY LenProperties DEF TypeOK, Text
<1>3. DOMAIN Nothing = {"status", "headers", "body", "epoch"}
  BY DEF Nothing
<1>4. \A a, b, c, d : DOMAIN Record(a, b, c, d) = {"status", "headers", "body", "epoch"}
  BY DEF Record
<1>5. Nothing = Record(None, <<>>, None, None)
  BY DEF Nothing, Record
<1>6. CASE Encode
  <2>1. /\ stage = "encode" /\ stage' = "status" /\ pos' = pos /\ left' = left
        /\ decoded' = decoded
    BY <1>6 DEF Encode
  <2>2. /\ Storable(r) /\ pos = 0 /\ decoded = Nothing /\ out = <<>>
    BY <2>1 DEF StoredInv
  <2>3. Encoding(r) \in Text
    BY <2>2, EncodingAt DEF Storable, Laid
  <2>4. PICK m \in 0..Len(Encoding(r)) : bytes' = SubSeq(Encoding(r), 1, m)
    BY <1>6 DEF Encode
  <2>5. bytes' \in Text /\ Len(bytes') = m
    BY <2>3, <2>4, Prefix
  <2>6. Len(bytes') <= Len(Encoding(r)) /\ Len(bytes') \in Nat
    BY <2>3, <2>4, <2>5, LenProperties DEF Text
  <2>7. Progress(response)'
    BY <1>1, <2>1, <2>2 DEF Progress
  <2>8. ReadingInv'
    BY <1>1, <2>4, <2>5, <2>6, <2>7 DEF ReadingInv
  <2> QED BY <1>2, <2>1, <2>2, <2>5, <2>6, <2>8 DEF Reading
<1>7. ASSUME stage \in Reading
      PROVE  /\ Underway /\ Progress(r) /\ Len(bytes) <= Len(Encoding(r))
             /\ bytes = SubSeq(Encoding(r), 1, Len(bytes))
  BY <1>7, ReadingIsUnderway DEF Underway
<1>8. ASSUME stage \in Reading, bytes' = bytes, stage' \in Reading, Progress(response)'
      PROVE  ReadingInv'
  BY <1>1, <1>7, <1>8 DEF ReadingInv
<1>9. CASE ReadStatus
  <2>1. /\ stage = "status" /\ Available(2) /\ pos' = pos + 2 /\ stage' = "count"
        /\ decoded' = [decoded EXCEPT !.status = Number(0, 2)]
        /\ bytes' = bytes /\ left' = left
    BY <1>9 DEF ReadStatus
  <2>2. Underway /\ Progress(r) /\ stage \in Reading /\ stage' \in Reading
    BY <1>7, <2>1 DEF Reading
  <2>3. pos = 0 /\ Number(0, 2) = r.status
    BY <2>1, <2>2, StatusIsRead
  <2>4. decoded = Nothing /\ out = <<>>
    BY <2>1, <2>2 DEF Progress
  <2>5. decoded' = Record(r.status, <<>>, None, None)
    BY <2>1, <2>3, <2>4 DEF Nothing, Record
  <2>6. Progress(response)'
    BY <1>1, <2>1, <2>3, <2>4, <2>5 DEF Progress
  <2>7. pos' \in 0..Len(bytes')
    BY <1>2, <2>1, <2>3 DEF Available
  <2> QED BY <1>2, <1>3, <1>4, <1>8, <2>1, <2>2, <2>5, <2>6, <2>7
<1>10. CASE ReadCount
  <2>1. /\ stage = "count" /\ Available(4) /\ pos' = pos + 4 /\ stage' = "headers"
        /\ left' = Number(0, 4) /\ bytes' = bytes /\ decoded' = decoded
    BY <1>10 DEF ReadCount
  <2>2. Underway /\ Progress(r) /\ stage \in Reading /\ stage' \in Reading
    BY <1>7, <2>1 DEF Reading
  <2>3. pos = 2 /\ left' = n
    BY <2>1, <2>2, CountIsRead
  <2>4. decoded' = Record(r.status, <<>>, None, None) /\ out' = <<>>
    BY <1>1, <2>1, <2>2 DEF Progress
  <2>5. r.headers \in Seq(Header)
    BY <2>2 DEF Underway, Storable, Entry
  <2>6. n \in Nat /\ n - n = 0 /\ n \in 0..n
    BY <2>5, LenProperties
  <2>7. SubSeq(r.headers, 1, 0) = <<>> /\ HeaderSizes(r.headers)[0] = 0
    BY <2>5, Sizes, SubSeqEmpty
  <2>8. pos' = 6 + HeaderSizes(r.headers)[n - left']
    BY <2>1, <2>3, <2>6, <2>7
  <2>9. decoded' = Record(r.status, SubSeq(r.headers, 1, n - left'), None, None)
    BY <2>3, <2>4, <2>6, <2>7
  <2>10. Progress(response)'
    BY <1>1, <2>1, <2>3, <2>4, <2>6, <2>8, <2>9 DEF Progress
  <2>11. pos' \in 0..Len(bytes')
    BY <1>2, <2>1, <2>3 DEF Available
  <2> QED BY <1>2, <1>3, <1>4, <1>8, <2>1, <2>2, <2>3, <2>4, <2>6, <2>10, <2>11
<1>11. CASE ReadHeader
  <2>1. /\ stage = "headers" /\ left > 0 /\ HeaderAvailable /\ stage' = "headers"
        /\ decoded' = [decoded EXCEPT
             !.headers = Inserted(@, <<Field(4, NameLen), Field(8 + NameLen, ValueLen)>>)]
        /\ pos' = pos + 8 + NameLen + ValueLen /\ left' = left - 1 /\ bytes' = bytes
    BY <1>11 DEF ReadHeader
  <2>2. Underway /\ Progress(r) /\ stage \in Reading /\ stage' \in Reading
    BY <1>7, <2>1 DEF Reading
  <2>3. /\ left \in 0..n /\ decoded = Record(r.status, SubSeq(r.headers, 1, n - left), None, None)
        /\ out = <<>>
    BY <2>1, <2>2 DEF Progress
  <2>4. /\ n \in Nat /\ n - left + 1 \in 1..n /\ NextHeader \in Header /\ pos \in Nat
        /\ pos + Size(NextHeader) = 6 + HeaderSizes(r.headers)[n - left + 1]
    BY <2>1, <2>2, HeaderIsHere
  <2>5. /\ pos + Size(NextHeader) <= Len(bytes)
        /\ pos' = pos + Size(NextHeader)
        /\ <<Field(4, NameLen), Field(8 + NameLen, ValueLen)>> = NextHeader
    BY <2>1, <2>2, HeaderIsRead
  <2>6. r.headers \in Seq(Header) /\ Distinct(r.headers)
    BY <2>2 DEF Underway, Storable, Entry
  <2>7. n - left' = n - left + 1 /\ (n - left + 1) - 1 = n - left /\ left' \in 0..n
    BY <2>1, <2>3, <2>4
  <2>8. Inserted(SubSeq(r.headers, 1, n - left), NextHeader) = SubSeq(r.headers, 1, n - left')
    <3> DEFINE k == n - left + 1
    <3>1. k \in 1..n /\ k - 1 = n - left /\ NextHeader = r.headers[k] /\ n - left' = k
      BY <2>4, <2>7 DEF NextHeader
    <3> HIDE DEF k
    <3>2. Inserted(SubSeq(r.headers, 1, k - 1), r.headers[k]) = SubSeq(r.headers, 1, k)
      BY <2>6, <3>1, InsertedLast
    <3> QED BY <3>1, <3>2
  <2>9. decoded' = Record(r.status, SubSeq(r.headers, 1, n - left'), None, None)
    <3>1. decoded' = [decoded EXCEPT !.headers = Inserted(@, NextHeader)]
      BY <2>1, <2>5
    <3>2. decoded' = Record(r.status,
                          Inserted(SubSeq(r.headers, 1, n - left), NextHeader), None, None)
      BY <2>3, <3>1 DEF Record
    <3> QED BY <2>8, <3>2
  <2>10. pos' = 6 + HeaderSizes(r.headers)[n - left']
    BY <2>4, <2>5, <2>7
  <2>11. Progress(response)'
    BY <1>1, <2>1, <2>3, <2>7, <2>9, <2>10 DEF Progress
  <2>12. pos' \in 0..Len(bytes') /\ left' \in Nat
    <3>1. Size(NextHeader) \in Nat
      BY <2>4, HeaderSize
    <3> QED BY <1>2, <2>1, <2>4, <2>5, <2>7, <3>1
  <2> QED BY <1>2, <1>3, <1>4, <1>8, <2>1, <2>2, <2>9, <2>11, <2>12
<1>12. CASE HeadersEnd
  <2>1. /\ stage = "headers" /\ left = 0 /\ stage' = "body"
        /\ UNCHANGED <<bytes, pos, left, decoded>>
    BY <1>12 DEF HeadersEnd
  <2>2. Underway /\ Progress(r) /\ stage \in Reading /\ stage' \in Reading
    BY <1>7, <2>1 DEF Reading
  <2>3. r.headers \in Seq(Header)
    BY <2>2 DEF Underway, Storable, Entry
  <2>4. n \in Nat /\ n - left = n
    BY <2>1, <2>3, LenProperties
  <2>5. SubSeq(r.headers, 1, n) = r.headers
    BY <2>3, SubSeqFull
  <2>6. /\ pos = 6 + HeaderSizes(r.headers)[n] /\ out = <<>>
        /\ decoded = Record(r.status, r.headers, None, None)
    BY <2>1, <2>2, <2>4, <2>5 DEF Progress
  <2>7. Progress(response)'
    BY <1>1, <2>1, <2>6 DEF Progress, HeadersEndAt
  <2> QED BY <1>2, <1>8, <2>1, <2>2, <2>7
<1>13. CASE ReadBody
  <2>1. /\ stage = "body" /\ BodyAvailable /\ stage' = "epoch"
        /\ decoded' = [decoded EXCEPT !.body = FromBytes(Field(8, Number(0, 8)))]
        /\ pos' = pos + 8 + Number(0, 8) /\ bytes' = bytes /\ left' = left
    BY <1>13 DEF ReadBody
  <2>2. Underway /\ Progress(r) /\ stage \in Reading /\ stage' \in Reading
    BY <1>7, <2>1 DEF Reading
  <2>3. decoded = Record(r.status, r.headers, None, None) /\ out = <<>>
    BY <2>1, <2>2 DEF Progress
  <2>4. /\ pos = HeadersEndAt(r) /\ Number(0, 8) = Len(BodyBytes(r.body))
        /\ pos + 8 + Len(BodyBytes(r.body)) <= Len(bytes)
        /\ FromBytes(Field(8, Number(0, 8))) = r.body
    BY <2>1, <2>2, BodyIsRead
  <2>5. decoded' = Record(r.status, r.headers, r.body, None)
    BY <2>1, <2>3, <2>4 DEF Record
  <2>6. pos' = HeadersEndAt(r) + 8 + Len(BodyBytes(r.body))
    BY <2>1, <2>4
  <2>7. Progress(response)'
    BY <1>1, <2>1, <2>3, <2>5, <2>6 DEF Progress
  <2>8. Len(BodyBytes(r.body)) \in Nat
    BY <2>2, Parts
  <2>9. pos' \in 0..Len(bytes')
    BY <1>2, <2>1, <2>4, <2>8
  <2> QED BY <1>2, <1>3, <1>4, <1>8, <2>1, <2>2, <2>5, <2>7, <2>9
<1>14. CASE ReadEpoch
  <2>1. /\ stage = "epoch" /\ Available(8) /\ stage' = "ok"
        /\ decoded' = [decoded EXCEPT !.epoch = Number(0, 8)]
        /\ pos' = pos + 8 /\ bytes' = bytes /\ left' = left
    BY <1>14 DEF ReadEpoch
  <2>2. Underway /\ Progress(r) /\ stage \in Reading /\ stage' \in Reading
    BY <1>7, <2>1 DEF Reading
  <2>3. decoded = Record(r.status, r.headers, r.body, None) /\ out = <<>>
    BY <2>1, <2>2 DEF Progress
  <2>4. Number(0, 8) = r.epoch /\ Len(bytes) = Len(Encoding(r))
    BY <2>1, <2>2, EpochIsRead
  <2>5. decoded' = Record(r.status, r.headers, r.body, r.epoch)
    BY <2>1, <2>3, <2>4 DEF Record
  <2>6. Progress(response)'
    BY <1>1, <2>1, <2>3, <2>4, <2>5 DEF Progress
  <2>7. pos' \in 0..Len(bytes')
    BY <1>2, <2>1 DEF Available
  <2> QED BY <1>2, <1>3, <1>4, <1>8, <2>1, <2>2, <2>5, <2>6, <2>7
<1>15. CASE ReadFails
  <2>1. /\ Short /\ stage' = "err" /\ UNCHANGED <<bytes, pos, left, decoded>>
    BY <1>15 DEF ReadFails
  <2>2. stage \in Reading /\ stage \notin {"ok", "end", "err"} /\ stage' \in Reading
    BY <2>1 DEF Short, Reading
  <2>3. Underway /\ Progress(r)
    BY <1>7, <2>2
  <2>4. Len(bytes) < Len(Encoding(r))
    BY <2>1, <2>3, StatusIsRead, CountIsRead, HeaderIsRead, BodyIsRead, EpochIsRead DEF Short
  <2>5. out = <<>>
    BY <2>2, <2>3 DEF Progress
  <2>6. Progress(response)'
    BY <1>1, <2>1, <2>4, <2>5 DEF Progress
  <2> QED BY <1>2, <1>8, <2>1, <2>2, <2>6
<1> QED
  BY <1>6, <1>9, <1>10, <1>11, <1>12, <1>13, <1>14, <1>15 DEF CodecNext
LEMMA InvNext == Inv /\ [Next]_vars => Inv'
<1> SUFFICES ASSUME Inv, [Next]_vars PROVE Inv'
  OBVIOUS
<1>1. RequestInv' /\ StoredInv' /\ ToldInv'
  BY RequestNext, StoredNext DEF Inv
<1>2. /\ bytes \in Text /\ pos \in 0..Len(bytes) /\ left \in Nat /\ DOMAIN decoded = DOMAIN Nothing
      /\ stage \in Before \union {"replace", "encode", "panicked"} \union Reading
  BY DEF Inv, TypeOK, Text, Before, Reading
<1>3. /\ ReadingInv' /\ stage' \in Before \union {"replace", "encode", "panicked"} \union Reading
      /\ bytes' \in Text /\ pos' \in 0..Len(bytes') /\ left' \in Nat
      /\ DOMAIN decoded' = DOMAIN Nothing
  <2>1. CASE CodecNext /\ UNCHANGED exchangeVars
    BY <2>1, DecodeNext DEF Inv
  <2>2. CASE PollData
    <3>1. /\ stage = "ok" /\ decoded.body.data # <<>> /\ out' = Append(out, decoded.body.data)
          /\ decoded' = [decoded EXCEPT !.body.data = <<>>]
          /\ UNCHANGED <<response, bytes, pos, stage, left>>
      BY <2>2 DEF PollData
    <3>2. Progress(response) /\ Storable(response)
      BY <3>1, ReadingIsUnderway DEF Inv, Underway, Reading
    <3>3. decoded.body.data = <<>> \/ out = <<>>
      BY <3>1, <3>2 DEF Progress, Record, Empty, Body
    <3>4. /\ out = <<>>
          /\ decoded = Record(response.status, response.headers, response.body, response.epoch)
      BY <3>1, <3>2 DEF Progress, Record, Empty, Body
    <3>5. out' = <<response.body.data>>
      <4>1. decoded.body.data = response.body.data
        BY <3>4 DEF Record
      <4> QED BY <3>1, <3>4, <4>1
    <3>6. response.body = [data |-> response.body.data, trailers |-> None]
      BY <3>2 DEF Storable, Entry
    <3>7. decoded' = Record(response.status, response.headers, Empty, response.epoch)
      <4>1. decoded.body = response.body
        BY <3>4 DEF Record
      <4>2. [decoded.body EXCEPT !.data = <<>>] = Empty
        BY <3>6, <4>1 DEF Empty, Body
      <4>3. decoded' = [decoded EXCEPT !.body = [decoded.body EXCEPT !.data = <<>>]]
        BY <3>1
      <4>4. decoded' = [decoded EXCEPT !.body = Empty]
        BY <4>2, <4>3
      <4> QED BY <3>4, <4>4 DEF Record
    <3>8. Len(bytes) = Len(Encoding(response))
      BY <3>1, <3>2 DEF Progress
    <3>9. Progress(response)'
      BY <3>1, <3>5, <3>7, <3>8 DEF Progress
    <3>10. ReadingInv'
      BY <3>1, <3>9 DEF Inv, ReadingInv, Reading
    <3>11. DOMAIN decoded' = DOMAIN Nothing
      BY <3>7 DEF Record, Nothing
    <3> QED BY <1>2, <3>1, <3>10, <3>11
  <2>3. CASE PollEnd
    <3>1. /\ stage = "ok" /\ stage' = "end" /\ decoded.body.data = <<>>
          /\ UNCHANGED <<response, bytes, pos, left, decoded, out>>
      BY <2>3 DEF PollEnd, exchangeVars
    <3>2. Progress(response)
      BY <3>1, ReadingIsUnderway DEF Inv, Reading
    <3>3. Progress(response)'
      BY <3>1, <3>2 DEF Progress
    <3>4. ReadingInv'
      BY <3>1, <3>3 DEF Inv, ReadingInv, Reading
    <3> QED BY <1>2, <3>1, <3>4 DEF Reading
  <2>4. CASE \/ Collect \/ CollectEnds \/ CollectFails \/ Send \/ Redirect \/ SendFails
             \/ Answer \/ KeepBody \/ ReplaceBody \/ ReplaceBodyPanics
    <3>1. /\ stage \in Before \union {"replace"}
          /\ stage' \in Before \union {"replace", "encode", "panicked"}
          /\ UNCHANGED <<bytes, pos, left, decoded>>
      BY <2>4 DEF Collect, CollectEnds, CollectFails, Send, Redirect, SendFails, Answer, KeepBody,
                  ReplaceBody, ReplaceBodyPanics, codecVars, Before
    <3>2. ReadingInv'
      BY <3>1 DEF ReadingInv, Before, Reading
    <3> QED BY <1>2, <3>1, <3>2
  <2>5. CASE UNCHANGED vars
    <3>1. UNCHANGED <<response, bytes, pos, stage, left, decoded, out>>
      BY <2>5 DEF vars, codecVars, exchangeVars
    <3>2. ReadingInv'
      BY <3>1 DEF Inv, ReadingInv, Progress
    <3> QED BY <1>2, <3>1, <3>2
  <2> QED BY <2>1, <2>2, <2>3, <2>4, <2>5 DEF Next
<1>4. TypeOK'
  <2>1. {collected'.data, arrived'} \subseteq Seq(0..255) /\ redirects' \in Nat
    BY <1>1 DEF RequestInv, Text
  <2>2. stage' \in {"encode", "ok"} => response'.status \in 0..999 /\ response'.epoch \in Epochs
    BY <1>1 DEF StoredInv, Storable, Entry, Reading
  <2>3. stage' \in {"collect", "forward", "awaiting", "replace", "encode", "status", "count",
                    "headers", "body", "epoch", "ok", "err", "end", "panicked"}
    BY <1>3 DEF Before, Reading
  <2> QED BY <1>3, <2>1, <2>2, <2>3 DEF TypeOK, Text
<1> QED
  BY <1>1, <1>3, <1>4 DEF Inv

LEMMA InvInit == Init => Inv
<1> SUFFICES ASSUME Init PROVE Inv
  OBVIOUS
<1>1. /\ stage = "collect" /\ bytes = <<>> /\ pos = 0 /\ left = 0 /\ decoded = Nothing
      /\ arrived = <<>> /\ redirects = 0 /\ out = <<>>
      /\ collected = [data |-> <<>>, trailers |-> None]
  BY DEF Init, Empty, Body
<1>2. <<>> \in Seq(0..255) /\ Len(<<>>) = 0
  BY EmptySeq
<1>3. frames \in Seq(DataFrames \union TrailerFrames)
  BY ExchangeAssumption DEF Init
<1>4. TypeOK
  BY <1>1, <1>2 DEF TypeOK
<1>5. RequestInv
  BY <1>1, <1>2, <1>3 DEF RequestInv, Text
<1>6. StoredInv /\ ReadingInv /\ ToldInv
  BY <1>1 DEF StoredInv, ReadingInv, ToldInv, Reading
<1> QED
  BY <1>4, <1>5, <1>6 DEF Inv

LEMMA Invariant == Spec => []Inv
BY InvInit, InvNext, PTL DEF Spec

\* Of no frames and of one.
LEMMA FlattenNone == FlattenSeq(<<>>) = <<>>
<1>1. <<>> \in Seq(Text) /\ Len(<<>>) = 0
  BY EmptySeq
<1>2. PICK f : f[0] = <<>> /\ f[Len(<<>>)] = FlattenSeq(<<>>)
  BY <1>1, Flattens
<1> QED
  BY <1>1, <1>2

LEMMA FlattenOne ==
  ASSUME NEW w \in Text
  PROVE  FlattenSeq(<<w>>) = w
<1> DEFINE q == <<w>>
<1>1. q \in Seq(Text) /\ Len(q) = 1 /\ q[1] = w
  OBVIOUS
<1> HIDE DEF q
<1>2. PICK f : /\ f[0] = <<>> /\ f[Len(q)] = FlattenSeq(q)
               /\ \A i \in 0..Len(q) : f[i] \in Text
               /\ \A i \in 1..Len(q) : f[i] = f[i - 1] \o q[i]
  BY <1>1, Flattens
<1>3. f[1] = f[0] \o w
  <2>1. 1 \in 1..Len(q) /\ 1 - 1 = 0
    BY <1>1
  <2> QED BY <1>1, <1>2, <2>1
<1>4. <<>> \o w = w
  BY ConcatEmptySeq DEF Text
<1> QED
  BY <1>1, <1>2, <1>3, <1>4 DEF q
-----------------------------------------------------------------------------
(* What the runs check.                                                    *)

\* The variables of an exchange keep their types, whatever the frames, the
\* answers and the bytes that are read back.
THEOREM ExchangeType == Spec => []TypeOK
<1>1. Inv => TypeOK
  BY DEF Inv
<1> QED
  BY <1>1, Invariant, PTL

\* decode (src/config/cache.rs) gives back what encode was given: status,
\* headers in their order, body and epoch, for every entry that is stored.
THEOREM DecodeInvertsEncode == Spec => []SameFromDisk
<1>1. Inv => SameFromDisk
  <2> SUFFICES ASSUME Inv, stage = "ok"
               PROVE  /\ <<decoded.status, decoded.headers, decoded.epoch>>
                           = <<response.status, response.headers, response.epoch>>
                      /\ FlattenSeq(out) \o decoded.body.data = response.body.data
    BY DEF SameFromDisk
  <2>1. Progress(response) /\ Storable(response)
    BY ReadingIsUnderway DEF Inv, Underway, Reading
  <2>2. response.body.data \in Seq(0..255)
    BY <2>1 DEF Storable, Entry, Text
  <2>3. CASE /\ out = <<>>
             /\ decoded = Record(response.status, response.headers, response.body, response.epoch)
    <3>1. decoded.body.data = response.body.data
      BY <2>3 DEF Record
    <3>2. FlattenSeq(out) = <<>>
      BY <2>3, FlattenNone
    <3> QED BY <2>2, <2>3, <3>1, <3>2, ConcatEmptySeq DEF Record
  <2>4. CASE /\ out = <<response.body.data>>
             /\ decoded = Record(response.status, response.headers, Empty, response.epoch)
    <3>1. decoded.body.data = <<>>
      BY <2>4 DEF Record, Empty, Body
    <3>2. FlattenSeq(out) = response.body.data
      BY <2>2, <2>4, FlattenOne DEF Text
    <3> QED BY <2>2, <2>4, <3>1, <3>2, ConcatEmptySeq DEF Record
  <2> QED BY <2>1, <2>3, <2>4 DEF Progress
<1> QED
  BY <1>1, Invariant, PTL

\* decode ends with an entry exactly if every byte of its encoding is there:
\* no cut, at whatever byte, passes for an entry.
THEOREM CutsAreNoticed == Spec => []OnlyWholeIsDecoded
<1>1. Inv => OnlyWholeIsDecoded
  <2> SUFFICES ASSUME Inv PROVE (stage = "ok" => Whole) /\ (stage = "err" => ~Whole)
    BY DEF OnlyWholeIsDecoded
  <2>1. ASSUME stage = "ok" PROVE Whole
    BY <2>1, ReadingIsUnderway DEF Inv, Reading, Progress, Whole
  <2>2. ASSUME stage = "err" PROVE ~Whole
    <3>1. Underway /\ Len(bytes) < Len(Encoding(response))
      BY <2>2, ReadingIsUnderway DEF Inv, Reading, Progress
    <3>2. Len(bytes) \in Nat /\ Len(Encoding(response)) \in Nat
      BY <3>1, Parts DEF Underway
    <3> QED BY <3>1, <3>2 DEF Whole
  <2> QED BY <2>1, <2>2
<1> QED
  BY <1>1, Invariant, PTL

\* estimated_size is the length of what encode writes, for every entry.
THEOREM EstimateIsTheLength == Spec => []EstimateIsExact
<1>1. Inv => EstimateIsExact
  <2> SUFFICES ASSUME Inv, stage = "encode"
               PROVE  EstimatedSize(response) = Len(Encoding(response))
    BY DEF EstimateIsExact
  <2> DEFINE r == response
             d == Len(BodyBytes(r.body))
             s == HeaderSizes(r.headers)[Len(r.headers)]
  <2>1. Storable(r)
    BY DEF Inv, StoredInv
  <2>2. Laid(Encoding(r), r)
    BY <2>1, EncodingAt DEF Storable
  <2>3. Len(Encoding(r)) = 6 + s + 8 + d + 8
    BY <2>2 DEF Laid, HeadersEndAt
  <2>4. EstimatedSize(r) = 2 + 4 + s + 8 + d + 8
    BY DEF EstimatedSize
  <2> QED BY <2>3, <2>4
<1> QED
  BY <1>1, Invariant, PTL

\* The data of a request's frames is sent on whole and in order, in whatever
\* frames it came (push_frame, Forward), and only a redirect may leave it out,
\* all of it; and a client gets the response's.
THEOREM WholeBodies == Spec => []BodiesGoThrough
<1>1. Inv => BodiesGoThrough
  <2> SUFFICES ASSUME Inv
               PROVE  /\ stage = "awaiting" =>
                           IF sent = None THEN arrived = <<>> \/ redirects > 0 ELSE sent = arrived
                      /\ stage = "end" => FlattenSeq(out) = response.body.data
    BY DEF BodiesGoThrough
  <2>1. stage = "awaiting" =>
          IF sent = None THEN arrived = <<>> \/ redirects > 0 ELSE sent = arrived
    BY DEF Inv, RequestInv
  <2>2. ASSUME stage = "end" PROVE FlattenSeq(out) = response.body.data
    <3>1. Progress(response) /\ Storable(response)
      BY <2>2, ReadingIsUnderway DEF Inv, Underway, Reading
    <3>2. response.body.data \in Text /\ decoded.body.data = <<>>
      BY <2>2, <3>1 DEF Storable, Entry, Progress
    <3>3. CASE /\ out = <<>>
               /\ decoded = Record(response.status, response.headers, response.body, response.epoch)
      <4>1. response.body.data = <<>>
        BY <3>2, <3>3 DEF Record
      <4> QED BY <3>3, <4>1, FlattenNone
    <3>4. CASE out = <<response.body.data>>
      BY <3>2, <3>4, FlattenOne
    <3> QED BY <2>2, <3>1, <3>3, <3>4 DEF Progress
  <2> QED BY <2>1, <2>2
<1> QED
  BY <1>1, Invariant, PTL

\* If every origin that states a length states the right one, then so does
\* every response that is stored or sent, replaced (ReplaceBody) or not.
THEOREM LengthsStayRight == LengthsRight => (Spec => []LengthTells)
<1> SUFFICES ASSUME LengthsRight PROVE Spec => []LengthTells
  OBVIOUS
<1>1. Inv => LengthTells
  <2> SUFFICES ASSUME Inv, stage = "encode", NEW i \in DOMAIN response.headers,
                      response.headers[i][1] = ContentLength
               PROVE  response.headers[i][2] = Decimal(Len(response.body.data))
    BY DEF LengthTells
  <2>1. Told(response.headers, Len(response.body.data)) /\ Storable(response)
    BY DEF Inv, ToldInv, StoredInv
  <2>2. i \in 1..Len(response.headers)
    BY <2>1 DEF Storable, Entry
  <2> QED BY <2>1, <2>2 DEF Told
<1> QED
  BY <1>1, Invariant, PTL
=============================================================================
