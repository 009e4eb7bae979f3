--------------------------- MODULE WildcardProofs ---------------------------
(***************************************************************************)
(* Theorems about contains_wildcard, for texts and patterns of any length. *)
(***************************************************************************)
EXTENDS MCWildcard, SequenceTheorems, FiniteSetTheorems, WellFoundedInduction, TLAPS

Text == Seq(STRING)

\* A set of natural numbers that is not empty has a least member.
LEMMA Least ==
  ASSUME NEW S, S \subseteq Nat, S # {}
  PROVE  Min(S) \in S /\ \A y \in S : Min(S) <= y
<1>1. \E x \in S : \A y \in S : ~(<<y, x>> \in OpToRel(<, Nat))
  BY NatLessThanWellFounded, WFMin
<1>2. \E x \in S : \A y \in S : x <= y
  <2>1. PICK x \in S : \A y \in S : ~(y < x)
    BY <1>1 DEF OpToRel
  <2>2. \A y \in S : x <= y
    BY <2>1
  <2> QED BY <2>2
<1> QED
  BY <1>2 DEF Min

\* What holds at 0 and from each number to the next holds up to n.
LEMMA Upto ==
  ASSUME NEW n \in Nat, NEW G, 0 \in G, \A k \in 1..n : k - 1 \in G => k \in G
  PROVE  \A k \in 0..n : k \in G
<1> DEFINE T == {k \in 0..n : k \notin G}
<1>1. SUFFICES ASSUME T # {} PROVE FALSE
  OBVIOUS
<1>2. Min(T) \in T /\ \A y \in T : Min(T) <= y
  <2>1. T \subseteq Nat
    OBVIOUS
  <2> HIDE DEF T
  <2> QED BY <1>1, <2>1, Least
<1>3. Min(T) # 0
  BY <1>2
<1>4. Min(T) - 1 \in 0..n /\ Min(T) \in 1..n /\ ~(Min(T) <= Min(T) - 1)
  BY <1>2, <1>3
<1> QED
  BY <1>2, <1>4

\* Where the search may be.
Place == Nat \union {Nowhere}

\* A search ends behind an occurrence, the first one from where it starts.
LEMMA Advances ==
  ASSUME NEW t \in Text, NEW pos \in Place, NEW part \in Text
  PROVE  /\ Advance(t, pos, part) \in Place
         /\ \A p \in pos..Len(t) : pos # Nowhere /\ OccursAt(t, p, part) =>
              Advance(t, pos, part) # Nowhere /\ Advance(t, pos, part) <= p + Len(part)
<1> DEFINE S == Occurrences(t, pos, part)
<1>1. Len(t) \in Nat /\ Len(part) \in Nat
  BY LenProperties DEF Text
<1>2. CASE pos = Nowhere \/ S = {}
  <2>1. Advance(t, pos, part) = Nowhere
    BY <1>2 DEF Advance
  <2>2. \A p \in pos..Len(t) : pos # Nowhere /\ OccursAt(t, p, part) => FALSE
    BY <1>2 DEF Occurrences
  <2> QED BY <2>1, <2>2 DEF Place
<1>3. CASE pos # Nowhere /\ S # {}
  <2>1. S \subseteq Nat
    BY <1>3 DEF Occurrences, Place
  <2>2. Min(S) \in S /\ \A y \in S : Min(S) <= y
    <3> HIDE DEF S
    <3> QED BY <1>3, <2>1, Least
  <2>3. Advance(t, pos, part) = Min(S) + Len(part)
    BY <1>3 DEF Advance
  <2>4. \A p \in pos..Len(t) : OccursAt(t, p, part) => p \in S
    BY DEF Occurrences
  <2> HIDE DEF S
  <2>5. Min(S) \in Nat /\ Min(S) + Len(part) \in Nat
    <3>1. Min(S) \in Nat
      BY <2>1, <2>2
    <3> HIDE DEF S
    <3>2. \A a, b \in Nat : a + b \in Nat
      OBVIOUS
    <3> QED BY <1>1, <3>1, <3>2
  <2>6. Advance(t, pos, part) # Nowhere
    BY <2>3, <2>5 DEF Nowhere
  <2>7. ASSUME NEW p \in pos..Len(t), OccursAt(t, p, part)
        PROVE  Min(S) + Len(part) <= p + Len(part)
    <3>1. p \in S /\ p \in Nat
      BY <2>1, <2>4, <2>7
    <3>2. Min(S) <= p
      BY <2>2, <3>1
    <3> QED BY <1>1, <2>5, <3>1, <3>2
  <2> QED BY <2>3, <2>5, <2>6, <2>7 DEF Place
<1> QED
  BY <1>2, <1>3

\* The loop: it starts behind the first part and goes on part by part.
LEMMA PositionsOf ==
  ASSUME NEW t \in Text, NEW ps \in Seq(Text), ps # <<>>
  PROVE  LET pos == Positions(t, ps) IN
         /\ pos[0] = Len(ps[1]) /\ \A i \in 0..Len(ps) : pos[i] \in Place
         /\ \A i \in 1..Len(ps) :
              pos[i] = IF Searched(ps, i) THEN Advance(t, pos[i - 1], ps[i]) ELSE pos[i - 1]
<1> DEFINE n == Len(ps)
           pos == Positions(t, ps)
           step(i, y) == IF Searched(ps, i) THEN Advance(t, y, ps[i]) ELSE y
           Is(q) == q = [i \in 0..n |-> IF i = 0 THEN Len(ps[1]) ELSE step(i, q[i - 1])]
           Good == {m \in 0..n :
                      \E q \in [0..m -> Place] :
                        q[0] = Len(ps[1]) /\ \A i \in 1..m : q[i] = step(i, q[i - 1])}
<1>1. n \in Nat /\ 1 \in 1..n /\ \A i \in 1..n : ps[i] \in Text
  <2>1. n \in Nat /\ n # 0
    BY LenProperties, EmptySeq
  <2> QED BY <2>1, ElementOfSeq
<1>2. Len(ps[1]) \in Place
  <2>1. Len(ps[1]) \in Nat
    BY <1>1, LenProperties DEF Text
  <2> QED BY <2>1 DEF Place
<1>3. \A i \in 1..n, y \in Place : step(i, y) \in Place
  BY <1>1, Advances
<1>4. 0 \in Good
  <2> DEFINE q == [k \in 0..0 |-> Len(ps[1])]
  <2>1. q \in [0..0 -> Place] /\ q[0] = Len(ps[1])
    BY <1>2
  <2>2. \A i \in 1..0 : q[i] = step(i, q[i - 1])
    OBVIOUS
  <2> HIDE DEF q, step
  <2> QED BY <1>1, <2>1, <2>2
<1>5. \A m \in 1..n : m - 1 \in Good => m \in Good
  <2> TAKE m \in 1..n
  <2> HAVE m - 1 \in Good
  <2>1. PICK q \in [0..(m - 1) -> Place] :
          q[0] = Len(ps[1]) /\ \A i \in 1..(m - 1) : q[i] = step(i, q[i - 1])
    OBVIOUS
  <2> HIDE DEF step
  <2> DEFINE r == [i \in 0..m |-> IF i = m THEN step(m, q[m - 1]) ELSE q[i]]
  <2>2. r \in [0..m -> Place]
    <3>1. step(m, q[m - 1]) \in Place
      BY <1>3
    <3> QED BY <3>1
  <2>3. r[0] = Len(ps[1])
    BY <2>1
  <2>4. ASSUME NEW i \in 1..m PROVE r[i] = step(i, r[i - 1])
    <3>1. i - 1 \in 0..m /\ i - 1 # m /\ r[i - 1] = q[i - 1] /\ i \in 0..m
      OBVIOUS
    <3>2. CASE i = m
      BY <3>1, <3>2
    <3>3. CASE i # m
      <4>1. i \in 1..(m - 1)
        BY <3>3
      <4> QED BY <2>1, <3>1, <3>3, <4>1
    <3> QED BY <3>2, <3>3
  <2> HIDE DEF r
  <2>5. \E f \in [0..m -> Place] :
          f[0] = Len(ps[1]) /\ \A i \in 1..m : f[i] = step(i, f[i - 1])
    BY <2>2, <2>3, <2>4
  <2>6. m \in 0..n
    BY <1>1
  <2> QED BY <2>5, <2>6
<1>6. n \in Good
  <2> HIDE DEF Good
  <2>1. n \in 0..n
    BY <1>1
  <2> QED BY <1>1, <1>4, <1>5, <2>1, Upto
<1>7. PICK q \in [0..n -> Place] :
        q[0] = Len(ps[1]) /\ \A i \in 1..n : q[i] = step(i, q[i - 1])
  BY <1>6
<1>8. Is(q)
  <2> HIDE DEF step
  <2>1. \A i \in 0..n : q[i] = IF i = 0 THEN Len(ps[1]) ELSE step(i, q[i - 1])
    BY <1>7
  <2>2. q = [i \in 0..n |-> q[i]]
    OBVIOUS
  <2> QED BY <2>1, <2>2
<1>9. Is(pos)
  BY <1>8 DEF Positions
<1> HIDE DEF pos
<1>10. pos[0] = Len(ps[1]) /\ \A i \in 1..n : pos[i] = step(i, pos[i - 1])
  <2> HIDE DEF step
  <2>1. 0 \in 0..n /\ \A i \in 1..n : i \in 0..n /\ i # 0
    BY <1>1
  <2>2. \A i \in 0..n : pos[i] = IF i = 0 THEN Len(ps[1]) ELSE step(i, pos[i - 1])
    BY <1>9
  <2> QED BY <2>1, <2>2
<1>11. \A i \in 0..n : pos[i] \in Place
  <2> HIDE DEF step
  <2> DEFINE G == {i \in 0..n : pos[i] \in Place}
  <2>1. 0 \in G
    BY <1>1, <1>2, <1>10
  <2>2. \A i \in 1..n : i - 1 \in G => i \in G
    BY <1>3, <1>10
  <2>3. \A i \in 0..n : i \in G
    <3> HIDE DEF G
    <3> QED BY <1>1, <2>1, <2>2, Upto
  <2> QED BY <2>3
<1> QED
  BY <1>10, <1>11 DEF pos

\* An occurrence, character by character.
LEMMA Occurs ==
  ASSUME NEW t \in Text, NEW s \in Text, NEW p \in Nat
  PROVE  OccursAt(t, p, s) <=>
           p + Len(s) <= Len(t) /\ \A j \in 1..Len(s) : t[p + j] = s[j]
<1> DEFINE n == Len(s)
           r == SubSeq(t, p + 1, p + n)
<1>1. n \in Nat /\ Len(t) \in Nat /\ s \in Seq(STRING) /\ t \in Seq(STRING)
  BY LenProperties DEF Text
<1>2. ASSUME p + n <= Len(t)
      PROVE  r = s <=> \A j \in 1..n : t[p + j] = s[j]
  <2>1. r \in Seq(STRING) /\ Len(r) = n /\ \A j \in 1..n : r[j] = t[p + j]
    <3>1. \A i \in (p + 1)..(p + n) : t[i] \in STRING
      BY <1>1, <1>2, ElementOfSeq
    <3>2. /\ r \in Seq(STRING)
          /\ Len(r) = IF p + 1 <= p + n THEN p + n - (p + 1) + 1 ELSE 0
          /\ \A i \in 1..(p + n - (p + 1) + 1) : r[i] = t[p + 1 + i - 1]
      <4> DEFINE a == p + 1
                 b == p + n
      <4>1. a \in Int /\ b \in Int /\ \A i \in a..b : t[i] \in STRING
        BY <1>1, <3>1
      <4>2. a \in 1..(Len(t) + 1) /\ b \in (a - 1)..Len(t)
        BY <1>1, <1>2
      <4> HIDE DEF a, b
      <4>3. /\ SubSeq(t, a, b) \in Seq(STRING)
            /\ Len(SubSeq(t, a, b)) = IF a <= b THEN b - a + 1 ELSE 0
            /\ \A i \in 1..(b - a + 1) : SubSeq(t, a, b)[i] = t[a + i - 1]
        BY <1>1, <4>1, <4>2, SubSeqProperties
      <4> QED BY <4>3 DEF a, b
    <3> HIDE DEF r
    <3>3. Len(r) = n /\ p + n - (p + 1) + 1 = n
      BY <1>1, <3>2
    <3>4. \A j \in 1..n : p + 1 + j - 1 = p + j
      BY <1>1
    <3> QED BY <3>2, <3>3, <3>4
  <2> HIDE DEF r
  <2>2. (\A j \in 1..n : r[j] = s[j]) => r = s
    BY <1>1, <2>1, SeqEqual
  <2> QED BY <2>1, <2>2
<1> QED
  BY <1>2 DEF OccursAt

\* Prefix and suffix are occurrences at the start and at the end.
LEMMA Starts ==
  ASSUME NEW t \in Text, NEW s \in Text
  PROVE  IsPrefix(s, t) <=> OccursAt(t, 0, s)
<1>1. Len(s) \in Nat /\ SubSeq(s, 1, Len(s)) = s
  BY LenProperties, SubSeqFull DEF Text
<1>2. 0 + Len(s) = Len(s) /\ 0 + 1 = 1
  BY <1>1
<1> QED
  BY <1>1, <1>2 DEF IsPrefix, OccursAt

LEMMA Finishes ==
  ASSUME NEW t \in Text, NEW s \in Text
  PROVE  IsSuffix(s, t) <=> Len(s) <= Len(t) /\ OccursAt(t, Len(t) - Len(s), s)
<1> DEFINE m == Len(s)
           n == Len(t)
           u == Reverse(s)
           v == Reverse(t)
<1>1. m \in Nat /\ n \in Nat /\ (\A j \in 1..m : s[j] \in STRING) /\ \A j \in 1..n : t[j] \in STRING
  BY LenProperties, ElementOfSeq DEF Text
<1>2. u \in Text /\ Len(u) = m /\ \A j \in 1..m : u[j] = s[(m - j) + 1]
  <2>1. u = [j \in 1..m |-> s[(m - j) + 1]]
    BY DEF Reverse
  <2>2. \A j \in 1..m : (m - j) + 1 \in 1..m
    BY <1>1
  <2> HIDE DEF u, m
  <2>3. u \in [1..m -> STRING]
    BY <1>1, <2>1, <2>2
  <2> QED BY <1>1, <2>1, <2>3, LenProperties DEF Text
<1>3. v \in Text /\ Len(v) = n /\ \A j \in 1..n : v[j] = t[(n - j) + 1]
  <2>1. v = [j \in 1..n |-> t[(n - j) + 1]]
    BY DEF Reverse
  <2>2. \A j \in 1..n : (n - j) + 1 \in 1..n
    BY <1>1
  <2> HIDE DEF v, n
  <2>3. v \in [1..n -> STRING]
    BY <1>1, <2>1, <2>2
  <2> QED BY <1>1, <2>1, <2>3, LenProperties DEF Text
<1> HIDE DEF u, v, m, n
<1>4. IsSuffix(s, t) <=> m <= n /\ \A j \in 1..m : v[j] = u[j]
  <2>1. IsSuffix(s, t) <=> OccursAt(v, 0, u)
    BY <1>2, <1>3, Starts DEF IsSuffix, u, v
  <2>2. 0 \in Nat /\ 0 + m = m /\ \A j \in 1..m : 0 + j = j
    BY <1>1
  <2>3. OccursAt(v, 0, u) <=> 0 + m <= n /\ \A j \in 1..m : v[0 + j] = u[j]
    BY <1>2, <1>3, <2>2, Occurs
  <2> QED BY <2>1, <2>2, <2>3
<1>5. ASSUME m <= n
      PROVE  (\A j \in 1..m : v[j] = u[j]) <=> OccursAt(t, n - m, s)
  <2> DEFINE p == n - m
  <2>1. p \in Nat /\ p + m = n
    BY <1>1, <1>5
  <2>2. \A j \in 1..m : (m - j) + 1 \in 1..m /\ (n - j) + 1 = p + ((m - j) + 1) /\ j \in 1..n
    BY <1>1, <1>5
  <2>3. \A i \in 1..m : \E j \in 1..m : i = (m - j) + 1
    <3> TAKE i \in 1..m
    <3>1. (m - i) + 1 \in 1..m /\ i = (m - ((m - i) + 1)) + 1
      BY <1>1
    <3> QED BY <3>1
  <2> HIDE DEF p
  <2>4. OccursAt(t, p, s) <=> \A i \in 1..m : t[p + i] = s[i]
    BY <1>1, <2>1, Occurs DEF m, n
  <2>5. \A j \in 1..m : v[j] = t[p + ((m - j) + 1)] /\ u[j] = s[(m - j) + 1]
    <3> TAKE j \in 1..m
    <3>1. (n - j) + 1 = p + ((m - j) + 1) /\ j \in 1..n
      BY <2>2
    <3>2. v[j] = t[(n - j) + 1]
      BY <1>3, <3>1
    <3> QED BY <1>2, <3>1, <3>2
  <2>6. (\A j \in 1..m : v[j] = u[j]) <=> \A i \in 1..m : t[p + i] = s[i]
    <3>1. ASSUME \A j \in 1..m : v[j] = u[j], NEW i \in 1..m PROVE t[p + i] = s[i]
      <4>1. PICK j \in 1..m : i = (m - j) + 1
        BY <2>3
      <4> QED BY <2>5, <3>1, <4>1
    <3>2. ASSUME \A i \in 1..m : t[p + i] = s[i], NEW j \in 1..m PROVE v[j] = u[j]
      BY <2>2, <2>5, <3>2
    <3> QED BY <3>1, <3>2
  <2> QED BY <2>4, <2>6 DEF p
<1> QED
  BY <1>4, <1>5 DEF m, n
-----------------------------------------------------------------------------
\* A text that matches is accepted: searching each part at its first place
\* never gets behind the place where the match has it.
LEMMA Accepted ==
  ASSUME NEW t \in Text, NEW ps \in Seq(Text), ps # <<>>, Matches(t, ps)
  PROVE  ContainsWildcard(t, ps)
<1> DEFINE n == Len(ps)
           pos == Positions(t, ps)
<1>1. n \in Nat \ {0} /\ \A i \in 1..n : ps[i] \in Text /\ Len(ps[i]) \in Nat
  BY LenProperties, EmptySeq, ElementOfSeq DEF Text
<1>2. Len(t) \in Nat
  BY LenProperties DEF Text
<1>3. PICK at \in [1..n -> 0..Len(t)] :
        /\ \A i \in 1..n : OccursAt(t, at[i], ps[i])
        /\ at[1] = 0 /\ at[n] + Len(ps[n]) = Len(t)
        /\ \A i \in 1..(n - 1) : at[i] + Len(ps[i]) <= at[i + 1]
  BY DEF Matches
<1>4. OccursAt(t, 0, ps[1]) /\ ps[1] \in Text /\ ps[n] \in Text /\ 1 \in 1..n
  BY <1>1, <1>3
<1>5. CASE n = 1
  <2>1. OccursAt(t, 0, ps[1]) /\ 0 + Len(ps[1]) = Len(t)
    BY <1>3, <1>4, <1>5
  <2>2. SubSeq(t, 1, Len(t)) = ps[1]
    <3>1. SubSeq(t, 0 + 1, 0 + Len(ps[1])) = ps[1]
      BY <2>1 DEF OccursAt
    <3> QED BY <2>1, <3>1
  <2>3. t = ps[1]
    BY <2>2, SubSeqFull DEF Text
  <2> QED BY <1>5, <2>3 DEF ContainsWildcard
<1>6. CASE n # 1
  <2>1. IsPrefix(ps[1], t)
    BY <1>4, Starts
  <2>2. EndFits(t, ps)
    <3>1. at[n] \in 0..Len(t) /\ Len(ps[n]) \in Nat /\ OccursAt(t, at[n], ps[n])
      BY <1>1, <1>3
    <3>2. Len(ps[n]) <= Len(t) /\ at[n] = Len(t) - Len(ps[n])
      <4>1. \A a, b, c \in Nat : a + b = c => b <= c /\ a = c - b
        OBVIOUS
      <4>2. at[n] \in Nat /\ at[n] + Len(ps[n]) = Len(t)
        BY <1>3, <3>1
      <4> HIDE DEF n
      <4> QED BY <1>2, <3>1, <4>1, <4>2
    <3>3. IsSuffix(ps[n], t)
      BY <1>4, <3>1, <3>2, Finishes
    <3> QED BY <3>3 DEF EndFits
  <2>3. /\ pos[0] = Len(ps[1]) /\ \A i \in 0..n : pos[i] \in Place
        /\ \A i \in 1..n :
             pos[i] = IF Searched(ps, i) THEN Advance(t, pos[i - 1], ps[i]) ELSE pos[i - 1]
    BY PositionsOf
  <2> HIDE DEF pos
  <2> DEFINE Fine(i) == pos[i] # Nowhere /\ pos[i] <= at[i] + Len(ps[i])
             G == {i \in 0..n : i = 0 \/ Fine(i)}
  <2>4. \A i \in 0..n : i \in G
    <3>1. 0 \in G
      BY <1>1
    <3>2. \A i \in 1..n : i - 1 \in G => i \in G
      <4> TAKE i \in 1..n
      <4> HAVE i - 1 \in G
      <4>1. CASE i = 1
        <5>1. {j \in 1..(1 - 1) : ps[j] # <<>>} = {}
          OBVIOUS
        <5>2. ~Searched(ps, 1)
          BY <5>1, FS_EmptySet DEF Searched
        <5>3. pos[1] = Len(ps[1])
          <6>1. 1 - 1 = 0
            OBVIOUS
          <6> QED BY <1>4, <2>3, <5>2, <6>1
        <5>4. Fine(1)
          BY <1>1, <1>3, <1>4, <5>3 DEF Nowhere
        <5> QED BY <4>1, <5>4
      <4>2. CASE i # 1
        <5>1. i - 1 \in 1..(n - 1) /\ i - 1 \in 1..n /\ (i - 1) + 1 = i /\ i - 1 # 0
          BY <1>1, <4>2
        <5>2. pos[i - 1] # Nowhere /\ pos[i - 1] <= at[i - 1] + Len(ps[i - 1])
          BY <5>1
        <5>3. at[i - 1] + Len(ps[i - 1]) <= at[i] /\ OccursAt(t, at[i], ps[i])
          BY <1>3, <5>1
        <5>4. /\ pos[i - 1] \in Nat /\ at[i] \in 0..Len(t) /\ at[i - 1] \in Nat
              /\ Len(ps[i - 1]) \in Nat /\ Len(ps[i]) \in Nat
          <6>1. i - 1 \in 0..n
            BY <5>1
          <6>2. pos[i - 1] \in Nat
            BY <2>3, <5>2, <6>1 DEF Place
          <6> QED BY <1>1, <1>3, <5>1, <6>2
        <5>5. pos[i - 1] <= at[i] /\ at[i] \in pos[i - 1]..Len(t)
          BY <1>2, <5>2, <5>3, <5>4
        <5>6. CASE Searched(ps, i)
          <6>1. pos[i] = Advance(t, pos[i - 1], ps[i])
            BY <2>3, <5>6
          <6>2. pos[i - 1] \in Place /\ ps[i] \in Text
            BY <1>1, <5>4 DEF Place
          <6>3. /\ Advance(t, pos[i - 1], ps[i]) # Nowhere
                /\ Advance(t, pos[i - 1], ps[i]) <= at[i] + Len(ps[i])
            BY <5>2, <5>3, <5>5, <6>2, Advances
          <6> QED BY <6>1, <6>3
        <5>7. CASE ~Searched(ps, i)
          <6>1. pos[i] = pos[i - 1]
            BY <2>3, <5>7
          <6>2. pos[i - 1] <= at[i] + Len(ps[i])
            BY <5>4, <5>5
          <6> QED BY <5>2, <6>1, <6>2
        <5> QED BY <5>6, <5>7
      <4> QED BY <4>1, <4>2
    <3> HIDE DEF G
    <3> QED BY <1>1, <3>1, <3>2, Upto
  <2>5. pos[n] # Nowhere
    BY <1>1, <2>4
  <2> QED BY <1>6, <2>1, <2>2, <2>5 DEF ContainsWildcard, pos
<1> QED
  BY <1>5, <1>6

\* A pattern without stars, or with one at its start or end only, is decided
\* exactly.
LEMMA EndsMatch ==
  ASSUME NEW t \in Text, NEW ps \in Seq(Text), ps # <<>>, ContainsWildcard(t, ps),
         Len(ps) = 1 \/ (Len(ps) = 2 /\ <<>> \in {ps[1], ps[2]})
  PROVE  Matches(t, ps)
<1>1. Len(t) \in Nat /\ \A i \in 1..Len(ps) : ps[i] \in Text /\ Len(ps[i]) \in Nat
  BY LenProperties, ElementOfSeq DEF Text
<1>2. CASE Len(ps) = 1
  <2>1. t = ps[1]
    BY <1>2 DEF ContainsWildcard
  <2> DEFINE at == [i \in 1..1 |-> 0]
  <2>2. at \in [1..1 -> 0..Len(t)] /\ at[1] = 0 /\ 0 + Len(t) = Len(t)
    BY <1>1
  <2>3. OccursAt(t, 0, t)
    <3>1. SubSeq(t, 1, Len(t)) = t
      BY SubSeqFull DEF Text
    <3>2. 0 + 1 = 1 /\ 0 + Len(t) = Len(t) /\ Len(t) <= Len(t)
      BY <1>1
    <3> QED BY <3>1, <3>2 DEF OccursAt
  <2> HIDE DEF at
  <2>4. /\ \A i \in 1..1 : OccursAt(t, at[i], ps[i])
        /\ at[1] + Len(ps[1]) = Len(t)
        /\ \A i \in 1..(1 - 1) : at[i] + Len(ps[i]) <= at[i + 1]
    BY <1>1, <2>1, <2>2, <2>3
  <2> QED BY <1>2, <2>2, <2>4 DEF Matches
<1>3. CASE Len(ps) = 2 /\ <<>> \in {ps[1], ps[2]}
  <2>1. IsPrefix(ps[1], t) /\ IsSuffix(ps[2], t)
    BY <1>3 DEF ContainsWildcard, EndFits
  <2>2. /\ ps[1] \in Text /\ ps[2] \in Text /\ Len(ps[1]) \in Nat /\ Len(ps[2]) \in Nat
    BY <1>1, <1>3
  <2> DEFINE p == Len(t) - Len(ps[2])
             at == [i \in 1..2 |-> IF i = 1 THEN 0 ELSE p]
  <2>3. OccursAt(t, 0, ps[1]) /\ Len(ps[2]) <= Len(t) /\ OccursAt(t, p, ps[2])
    BY <2>1, <2>2, Starts, Finishes
  <2>4. Len(ps[1]) <= p
    <3>1. Len(<<>>) = 0
      OBVIOUS
    <3>2. Len(ps[1]) = 0 \/ Len(ps[2]) = 0
      BY <1>3, <3>1
    <3>3. 0 + Len(ps[1]) <= Len(t)
      BY <2>3 DEF OccursAt
    <3>4. \A a, b, c \in Nat : 0 + a <= c /\ b <= c /\ (a = 0 \/ b = 0) => a <= c - b
      OBVIOUS
    <3> QED BY <1>1, <2>2, <2>3, <3>2, <3>3, <3>4
  <2>5. p \in 0..Len(t) /\ p + Len(ps[2]) = Len(t)
    BY <1>1, <2>2, <2>3
  <2> HIDE DEF p
  <2>6. at \in [1..2 -> 0..Len(t)] /\ at[1] = 0 /\ at[2] = p
    BY <1>1, <2>5
  <2> HIDE DEF at
  <2>7. \A i \in 1..2 : OccursAt(t, at[i], ps[i])
    BY <2>3, <2>6
  <2>8. \A i \in 1..(2 - 1) : at[i] + Len(ps[i]) <= at[i + 1]
    <3>1. 0 + Len(ps[1]) <= p
      BY <2>2, <2>4
    <3>2. at[1] + Len(ps[1]) <= at[1 + 1]
      BY <2>6, <3>1
    <3>3. \A i \in 1..(2 - 1) : i = 1
      OBVIOUS
    <3> QED BY <3>2, <3>3
  <2> QED BY <1>3, <2>5, <2>6, <2>7, <2>8 DEF Matches
<1> QED
  BY <1>2, <1>3
-----------------------------------------------------------------------------
\* The verdict is that of contains_wildcard on a text and a pattern.
Judged ==
  /\ text \in Text /\ parts \in Seq(Text) /\ parts # <<>>
  /\ verdict = "accepted" => ContainsWildcard(text, parts)
  /\ verdict = "rejected" => ~ContainsWildcard(text, parts)

LEMMA Judges == Spec => []Judged
<1>1. Init => Judged
  BY WildcardAssumption DEF Init, Judged, Text
<1>2. Judged /\ [Evaluate]_<<text, parts, verdict>> => Judged'
  <2> SUFFICES ASSUME Judged, [Evaluate]_<<text, parts, verdict>> PROVE Judged'
    OBVIOUS
  <2>1. CASE Evaluate
    <3>1. text' = text /\ parts' = parts
      BY <2>1 DEF Evaluate
    <3>2. verdict' = IF ContainsWildcard(text, parts) THEN "accepted" ELSE "rejected"
      BY <2>1 DEF Evaluate
    <3> QED BY <3>1, <3>2 DEF Judged
  <2>2. CASE UNCHANGED <<text, parts, verdict>>
    BY <2>2 DEF Judged
  <2> QED BY <2>1, <2>2
<1> QED
  BY <1>1, <1>2, PTL DEF Spec

\* contains_wildcard (src/config/conditions.rs) rejects no text that matches,
\* whatever the text and however many stars the pattern has.
THEOREM MatchesAreAccepted == Spec => []MatchesAccepted
<1>1. Judged => MatchesAccepted
  BY Accepted DEF Judged, MatchesAccepted
<1> QED
  BY <1>1, Judges, PTL

\* Literals, prefixes `x*` and suffixes `*x` of any length are decided exactly.
THEOREM EndsAreDecided == Spec => []EndsAreExact
<1>1. Judged => EndsAreExact
  BY EndsMatch DEF Judged, EndsAreExact
<1> QED
  BY <1>1, Judges, PTL
=============================================================================
