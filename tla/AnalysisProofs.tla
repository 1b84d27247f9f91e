--------------------------- MODULE AnalysisProofs ---------------------------
(***************************************************************************)
(* Theorems about Analysis.                                                *)
(*                                                                         *)
(* The answers (Answered): an answer is what the operators of the source   *)
(* make of the question.  From it, opposite comparisons differ, every rule *)
(* of the catalogue has its key, and the flash windows are exact.          *)
(*                                                                         *)
(* The check (Inspected, JudgedByRules): from the metadata pass on every   *)
(* stream keeps its measurements, blank unless they are of a complete      *)
(* decode.  From it, no rule passes without frames, and no part of a track *)
(* is measured.  Beside it (Watched, Reported), the trackers of an         *)
(* analyzer know the stretches of the frames so far: what is reported are  *)
(* the maximal runs.                                                       *)
(*                                                                         *)
(* Lost data (ContainerKept, JudgedByFindings): the walk through each      *)
(* container notices what is declared and not there (Walking, Misses), no  *)
(* later step takes that back, and the rules and the verdict show it.      *)
(*                                                                         *)
(* Two algorithms, for inputs of any length: the clock of a transport      *)
(* stream is unwrapped (ClockUnwraps), the edits between two transcripts   *)
(* are the fewest (CheapestCell).                                          *)
(*                                                                         *)
(* What a recursive function or a list makes of an input of any length is  *)
(* proved by the least number for which it would fail (LeastNumber, UpTo). *)
(***************************************************************************)
EXTENDS Analysis, FiniteSetTheorems, WellFoundedInduction, TLAPS

-----------------------------------------------------------------------------
(* Recursive functions over numbers.                                       *)

\* A set of numbers that is not empty has a least one.
LEMMA LeastNumber ==
  ASSUME NEW S \in SUBSET Nat, S # {}
  PROVE  \E n \in S : \A m \in S : n <= m
<1> DEFINE Less == {x \in Nat \X Nat : x[1] < x[2]}
<1>1. IsWellFoundedOn(Less, Nat)
  BY NatLessThanWellFounded DEF OpToRel
<1>2. PICK n \in S : \A m \in S : ~ (<<m, n>> \in Less)
  <2> HIDE DEF Less
  <2> QED
    BY <1>1, WFMin
<1>3. ASSUME NEW m \in S PROVE n <= m
  <2>1. m < n => <<m, n>> \in Less
    OBVIOUS
  <2> QED
    BY <1>2, <2>1
<1> QED
  BY <1>3

\* What holds of 0 and passes from each number to the next holds of all up to n.
LEMMA UpTo ==
  ASSUME NEW S, NEW n \in Nat, 0 \in S, \A i \in 1 .. n : i - 1 \in S => i \in S
  PROVE  \A i \in 0 .. n : i \in S
<1> DEFINE bad == (0 .. n) \ S
<1> SUFFICES ASSUME bad # {} PROVE FALSE
  OBVIOUS
<1>1. PICK m \in bad : \A k \in bad : m <= k
  <2>1. bad \in SUBSET Nat
    OBVIOUS
  <2> HIDE DEF bad
  <2> QED
    BY <2>1, LeastNumber
<1>2. m \in 1 .. n /\ m - 1 \in 0 .. n /\ m - 1 \notin bad
  BY <1>1
<1> QED
  BY <1>1, <1>2

\* A function that makes the next value of Vals from a number and a value of Vals.
StepsIn(step, n, Vals) == \A i \in 1 .. n : \A v \in Vals : step[<<i, v>>] \in Vals

\* The values that it makes one after the other.
StepsTo(g, step, base, n, Vals) ==
  /\ g = [i \in 0 .. n |-> g[i]] /\ g[0] = base
  /\ \A i \in 0 .. n : g[i] \in Vals
  /\ \A i \in 1 .. n : g[i] = step[<<i, g[i - 1]>>]

\* Values that follow from each other by such a function exist.
LEMMA StepsExist ==
  ASSUME NEW Vals, NEW base \in Vals, NEW n \in Nat, NEW step, StepsIn(step, n, Vals)
  PROVE  \E g : StepsTo(g, step, base, n, Vals)
<1> DEFINE S == {m \in 0 .. n : \E g : StepsTo(g, step, base, m, Vals)}
<1>1. 0 \in S
  <2> DEFINE g == [i \in 0 .. 0 |-> base]
  <2>1. StepsTo(g, step, base, 0, Vals)
    BY DEF StepsTo
  <2> HIDE DEF g
  <2> QED
    BY <2>1
<1>2. ASSUME NEW m \in 1 .. n, m - 1 \in S PROVE m \in S
  <2>1. PICK h : StepsTo(h, step, base, m - 1, Vals)
    BY <1>2
  <2> DEFINE g == [i \in 0 .. m |-> IF i = m THEN step[<<m, h[m - 1]>>] ELSE h[i]]
  <2>2. h[m - 1] \in Vals
    BY <2>1 DEF StepsTo
  <2>3. \A i \in 0 .. m - 1 : g[i] = h[i] /\ h[i] \in Vals
    BY <2>1 DEF StepsTo
  <2>4. g[m] = step[<<m, h[m - 1]>>] /\ g[m] \in Vals
    BY <2>2 DEF StepsIn
  <2>5. \A i \in 0 .. m : i = m \/ i \in 0 .. m - 1
    OBVIOUS
  <2>6. g = [i \in 0 .. m |-> g[i]]
    OBVIOUS
  <2>7. g[0] = base
    BY <2>1 DEF StepsTo
  <2> HIDE DEF g
  <2>8. ASSUME NEW i \in 1 .. m PROVE g[i] = step[<<i, g[i - 1]>>]
    <3>1. g[i - 1] = h[i - 1]
      BY <2>3
    <3>2. CASE i = m
      BY <2>4, <3>1, <3>2
    <3>3. CASE i # m
      <4>1. i \in 1 .. m - 1
        BY <3>3
      <4>2. h[i] = step[<<i, h[i - 1]>>]
        BY <2>1, <4>1 DEF StepsTo
      <4>3. g[i] = h[i]
        BY <2>3, <4>1
      <4> QED
        BY <3>1, <4>2, <4>3
    <3> QED
      BY <3>2, <3>3
  <2>9. \A i \in 0 .. m : g[i] \in Vals
    BY <2>3, <2>4, <2>5
  <2>10. StepsTo(g, step, base, m, Vals)
    BY <2>6, <2>7, <2>8, <2>9 DEF StepsTo
  <2> QED
    BY <2>10
<1>3. \A i \in 0 .. n : i \in S
  <2> HIDE DEF S
  <2> QED
    BY <1>1, <1>2, UpTo
<1> QED
  BY <1>3

-----------------------------------------------------------------------------
(* Lists.                                                                  *)

\* Only looks at the elements one by one.
LEMMA OnlySteps ==
  ASSUME NEW Q, NEW q \in Seq(Q), NEW I
  PROVE  \E g : /\ Only(q, I) = g[Len(q)] /\ g[0] = <<>>
                /\ \A i \in 1 .. Len(q) : g[i] = IF i \in I THEN Append(g[i - 1], q[i]) ELSE g[i - 1]
<1> DEFINE n == Len(q)
           Made(g) == g = [i \in 0 .. n |-> IF i = 0 THEN <<>>
                                            ELSE IF i \in I THEN Append(g[i - 1], q[i]) ELSE g[i - 1]]
           step == [x \in (1 .. n) \X Seq(Q) |-> IF x[1] \in I THEN Append(x[2], q[x[1]]) ELSE x[2]]
<1>1. n \in Nat /\ <<>> \in Seq(Q) /\ \A i \in 1 .. n : q[i] \in Q
  OBVIOUS
<1>2. StepsIn(step, n, Seq(Q))
  BY <1>1 DEF StepsIn
<1>3. \A i \in 1 .. n : \A v \in Seq(Q) : step[<<i, v>>] = IF i \in I THEN Append(v, q[i]) ELSE v
  OBVIOUS
<1>4. \E g : Made(g)
  <2>1. PICK g : StepsTo(g, step, <<>>, n, Seq(Q))
    <3> HIDE DEF step, n
    <3> QED
      BY <1>1, <1>2, StepsExist
  <2> HIDE DEF step
  <2>2. ASSUME NEW i \in 0 .. n
        PROVE  g[i] = IF i = 0 THEN <<>> ELSE IF i \in I THEN Append(g[i - 1], q[i]) ELSE g[i - 1]
    <3>1. CASE i = 0
      BY <2>1, <3>1 DEF StepsTo
    <3>2. CASE i # 0
      <4>1. i \in 1 .. n /\ g[i - 1] \in Seq(Q)
        BY <1>1, <2>1, <3>2 DEF StepsTo
      <4> QED
        BY <1>3, <2>1, <3>2, <4>1 DEF StepsTo
    <3> QED
      BY <3>1, <3>2
  <2>3. Made(g)
    BY <2>1, <2>2 DEF StepsTo
  <2> QED
    BY <2>3
<1> DEFINE f == CHOOSE g : Made(g)
<1>5. Made(f)
  BY <1>4
<1>6. Only(q, I) = f[n]
  BY DEF Only
<1>7. f[0] = <<>> /\ \A i \in 1 .. n : f[i] = IF i \in I THEN Append(f[i - 1], q[i]) ELSE f[i - 1]
  <2>1. n \in Nat /\ Made(f)
    BY <1>1, <1>5
  <2> HIDE DEF f, n
  <2>2. f[0] = <<>>
    BY <2>1
  <2>3. ASSUME NEW i \in 1 .. n
        PROVE  f[i] = IF i \in I THEN Append(f[i - 1], q[i]) ELSE f[i - 1]
    <3>1. i \in 0 .. n /\ i # 0
      BY <2>1
    <3> QED
      BY <2>1, <3>1
  <2> QED
    BY <2>2, <2>3
<1> QED
  BY <1>6, <1>7

\* Only keeps exactly the elements at the places that it is given, and none twice.
LEMMA OnlyPicks ==
  ASSUME NEW Q, NEW q \in Seq(Q), NEW I \in SUBSET (1 .. Len(q))
  PROVE  /\ Only(q, I) \in Seq(Q)
         /\ \A k \in 1 .. Len(Only(q, I)) : \E i \in I : Only(q, I)[k] = q[i]
         /\ \A i \in I : \E k \in 1 .. Len(Only(q, I)) : Only(q, I)[k] = q[i]
         /\ (\A i, j \in I : q[i] = q[j] => i = j) =>
              \A k, l \in 1 .. Len(Only(q, I)) : Only(q, I)[k] = Only(q, I)[l] => k = l
<1> DEFINE n == Len(q)
           Picked(s, m) == \A k \in 1 .. Len(s) : \E i \in I : i <= m /\ s[k] = q[i]
           Kept(s, m) == \A i \in I : i <= m => \E k \in 1 .. Len(s) : s[k] = q[i]
           Once(s)    == (\A i, j \in I : q[i] = q[j] => i = j) =>
                           \A k, l \in 1 .. Len(s) : s[k] = s[l] => k = l
<1>1. PICK g : /\ Only(q, I) = g[n] /\ g[0] = <<>>
               /\ \A i \in 1 .. n : g[i] = IF i \in I THEN Append(g[i - 1], q[i]) ELSE g[i - 1]
  BY OnlySteps
<1> DEFINE S == {m \in 0 .. n : g[m] \in Seq(Q) /\ Picked(g[m], m) /\ Kept(g[m], m) /\ Once(g[m])}
<1>2. n \in Nat /\ \A i \in 1 .. n : q[i] \in Q
  OBVIOUS
<1>3. 0 \in S
  <2>1. g[0] = <<>> /\ Len(g[0]) = 0 /\ g[0] \in Seq(Q)
    BY <1>1
  <2>2. \A i \in I : ~ (i <= 0)
    OBVIOUS
  <2>3. Picked(g[0], 0) /\ Kept(g[0], 0) /\ Once(g[0])
    BY <2>1, <2>2
  <2>4. 0 \in 0 .. n
    BY <1>2
  <2> HIDE DEF Picked, Kept, Once, n
  <2> QED
    BY <2>1, <2>3, <2>4
<1>4. ASSUME NEW m \in 1 .. n, m - 1 \in S PROVE m \in S
  <2>1. g[m - 1] \in Seq(Q) /\ Picked(g[m - 1], m - 1) /\ Kept(g[m - 1], m - 1) /\ Once(g[m - 1])
    BY <1>4
  <2>2. CASE m \notin I
    <3>1. g[m] = g[m - 1]
      BY <1>1, <2>2
    <3>2. \A i \in I : i <= m => i <= m - 1
      BY <2>2
    <3>3. Picked(g[m], m)
      BY <2>1, <3>1
    <3>4. Kept(g[m], m)
      BY <2>1, <3>1, <3>2
    <3>5. Once(g[m])
      BY <2>1, <3>1
    <3> HIDE DEF Picked, Kept, Once
    <3> QED
      BY <1>2, <2>1, <3>1, <3>3, <3>4, <3>5
  <2>3. CASE m \in I
    <3> DEFINE s == g[m - 1]
               t == g[m]
    <3>1. t = Append(s, q[m])
      BY <1>1, <2>3
    <3>2. /\ t \in Seq(Q) /\ Len(t) = Len(s) + 1 /\ t[Len(t)] = q[m] /\ Len(s) \in Nat
          /\ \A k \in 1 .. Len(s) : t[k] = s[k]
      <4>1. s \in Seq(Q) /\ q[m] \in Q
        BY <1>2, <2>1
      <4> HIDE DEF s, t
      <4> QED
        BY <3>1, <4>1
    <3>3. Picked(s, m - 1) /\ Kept(s, m - 1) /\ Once(s)
      BY <2>1
    <3> HIDE DEF s, t
    <3>4. \A x \in 1 .. Len(t) : x = Len(t) \/ x \in 1 .. Len(s)
      BY <3>2
    <3>5. Picked(t, m)
      <4> SUFFICES ASSUME NEW k \in 1 .. Len(t) PROVE \E i \in I : i <= m /\ t[k] = q[i]
        OBVIOUS
      <4>1. CASE k = Len(t)
        BY <2>3, <3>2, <4>1
      <4>2. CASE k \in 1 .. Len(s)
        <5>1. PICK i \in I : i <= m - 1 /\ s[k] = q[i]
          BY <3>3, <4>2
        <5>2. i \in Int /\ m \in Int /\ t[k] = s[k]
          BY <1>2, <3>2, <4>2
        <5>3. i <= m /\ t[k] = q[i]
          BY <5>1, <5>2
        <5> QED
          BY <5>3
      <4> QED
        BY <3>4, <4>1, <4>2
    <3>6. Kept(t, m)
      <4> SUFFICES ASSUME NEW i \in I, i <= m PROVE \E k \in 1 .. Len(t) : t[k] = q[i]
        OBVIOUS
      <4>1. CASE i = m
        BY <3>2, <4>1
      <4>2. CASE i # m
        <5>1. i <= m - 1
          BY <4>2
        <5>2. PICK k \in 1 .. Len(s) : s[k] = q[i]
          BY <3>3, <5>1
        <5> QED
          BY <3>2, <5>2
      <4> QED
        BY <4>1, <4>2
    <3>7. Once(t)
      <4> SUFFICES ASSUME \A i, j \in I : q[i] = q[j] => i = j,
                          NEW k \in 1 .. Len(t), NEW l \in 1 .. Len(t), t[k] = t[l]
                   PROVE  k = l
        OBVIOUS
      <4>1. ASSUME NEW x \in 1 .. Len(s) PROVE t[x] # t[Len(t)]
        <5>1. PICK i \in I : i <= m - 1 /\ s[x] = q[i]
          BY <3>3
        <5> QED
          BY <2>3, <3>2, <5>1
      <4>2. \A x, y \in 1 .. Len(s) : s[x] = s[y] => x = y
        BY <3>3
      <4> QED
        BY <3>2, <3>4, <4>1, <4>2
    <3> QED
      BY <3>2, <3>5, <3>6, <3>7 DEF t
  <2> QED
    BY <2>2, <2>3
<1>5. n \in S
  <2>1. n \in Nat
    BY <1>2
  <2> HIDE DEF S, n
  <2>2. \A i \in 0 .. n : i \in S
    BY <1>3, <1>4, <2>1, UpTo
  <2> QED
    BY <2>1, <2>2
<1>6. Picked(g[n], n) /\ Kept(g[n], n) /\ Once(g[n]) /\ g[n] \in Seq(Q)
  BY <1>5
<1>7. \A i \in I : i <= n
  OBVIOUS
<1> QED
  BY <1>1, <1>6, <1>7

\* An insertion adds the element and loses none.
LEMMA InsertAtKeeps ==
  ASSUME NEW Q, NEW s \in Seq(Q), NEW m \in Q, NEW j \in 1 .. Len(s) + 1
  PROVE  /\ InsertAt(s, j, m) \in Seq(Q)
         /\ \A k \in 1 .. Len(InsertAt(s, j, m)) :
              InsertAt(s, j, m)[k] = m \/ \E i \in 1 .. Len(s) : InsertAt(s, j, m)[k] = s[i]
         /\ \E k \in 1 .. Len(InsertAt(s, j, m)) : InsertAt(s, j, m)[k] = m
         /\ \A i \in 1 .. Len(s) : \E k \in 1 .. Len(InsertAt(s, j, m)) : InsertAt(s, j, m)[k] = s[i]
<1> DEFINE n == Len(s)
           a == SubSeq(s, 1, j - 1)
           b == SubSeq(s, j, n)
           t == InsertAt(s, j, m)
<1>1. n \in Nat /\ \A i \in 1 .. n : s[i] \in Q
  OBVIOUS
<1>2. a \in Seq(Q) /\ Len(a) = j - 1 /\ \A i \in 1 .. j - 1 : a[i] = s[i]
  BY <1>1
<1>3. b \in Seq(Q) /\ Len(b) = n - j + 1 /\ \A i \in 1 .. n - j + 1 : b[i] = s[i + j - 1]
  BY <1>1
<1>4. t = (a \o <<m>>) \o b
  BY DEF InsertAt
<1>5. /\ t \in Seq(Q) /\ Len(t) = n + 1
      /\ \A k \in 1 .. n + 1 : t[k] = IF k < j THEN s[k] ELSE IF k = j THEN m ELSE s[k - 1]
  <2> HIDE DEF a, b, t, n
  <2> DEFINE c == a \o <<m>>
  <2>1. c \in Seq(Q) /\ Len(c) = j /\ c[j] = m /\ \A i \in 1 .. j - 1 : c[i] = s[i]
    BY <1>1, <1>2
  <2> HIDE DEF c
  <2>2. t \in Seq(Q) /\ Len(t) = n + 1
    BY <1>1, <1>3, <1>4, <2>1 DEF c, n
  <2>3. ASSUME NEW k \in 1 .. n + 1
        PROVE  t[k] = IF k < j THEN s[k] ELSE IF k = j THEN m ELSE s[k - 1]
    <3>1. j \in Int /\ n \in Int /\ k \in Int /\ t = c \o b
      BY <1>1, <1>4 DEF c
    <3>2. CASE k <= j
      <4>1. t[k] = c[k]
        BY <1>3, <2>1, <3>1, <3>2
      <4>2. k = j \/ (k < j /\ k \in 1 .. j - 1)
        BY <3>1, <3>2
      <4> QED
        BY <2>1, <3>1, <4>1, <4>2
    <3>3. CASE k > j
      <4>1. t[k] = b[k - j]
        BY <1>3, <2>1, <3>1, <3>3
      <4>2. PICK l \in 1 .. n - j + 1 : l = k - j /\ l + j - 1 = k - 1
        BY <3>1, <3>3
      <4>3. b[l] = s[l + j - 1]
        BY <1>3
      <4>4. t[k] = s[k - 1]
        BY <4>1, <4>2, <4>3
      <4>5. ~ (k < j) /\ k # j
        BY <3>1, <3>3
      <4> QED
        BY <4>4, <4>5
    <3>4. k <= j \/ k > j
      BY <3>1
    <3> QED
      BY <3>2, <3>3, <3>4
  <2> QED
    BY <2>2, <2>3
<1>6. ASSUME NEW k \in 1 .. n + 1 PROVE t[k] = m \/ \E i \in 1 .. n : t[k] = s[i]
  <2> HIDE DEF t, n
  <2>1. CASE k = j
    BY <1>5, <2>1
  <2>2. CASE k < j
    <3>1. k \in 1 .. n /\ t[k] = s[k]
      BY <1>1, <1>5, <2>2 DEF n
    <3> QED
      BY <3>1
  <2>3. CASE k > j
    <3>1. k - 1 \in 1 .. n /\ t[k] = s[k - 1]
      BY <1>1, <1>5, <2>3
    <3> QED
      BY <3>1
  <2>4. k = j \/ k < j \/ k > j
    BY <1>1
  <2> QED
    BY <2>1, <2>2, <2>3, <2>4
<1>7. j \in 1 .. n + 1 /\ t[j] = m
  BY <1>1, <1>5
<1>8. ASSUME NEW i \in 1 .. n PROVE \E k \in 1 .. n + 1 : t[k] = s[i]
  <2> HIDE DEF t, n
  <2>1. CASE i < j
    <3>1. i \in 1 .. n + 1 /\ t[i] = s[i]
      BY <1>1, <1>5, <2>1
    <3> QED
      BY <3>1
  <2>2. CASE ~ (i < j)
    <3>1. i + 1 \in 1 .. n + 1 /\ t[i + 1] = s[i]
      BY <1>1, <1>5, <2>2
    <3> QED
      BY <3>1
  <2> QED
    BY <2>1, <2>2
<1> HIDE DEF t
<1>9. /\ t \in Seq(Q)
      /\ \A k \in 1 .. Len(t) : t[k] = m \/ \E i \in 1 .. Len(s) : t[k] = s[i]
      /\ \E k \in 1 .. Len(t) : t[k] = m
      /\ \A i \in 1 .. Len(s) : \E k \in 1 .. Len(t) : t[k] = s[i]
  BY <1>5, <1>6, <1>7, <1>8
<1> QED
  BY <1>9 DEF t

\* ByStream inserts the elements one by one.
LEMMA ByStreamSteps ==
  ASSUME NEW Q, NEW q \in Seq(Q)
  PROVE  \E g : /\ ByStream(q) = g[Len(q)] /\ g[0] = <<>>
                /\ \A i \in 1 .. Len(q) : g[i - 1] \in Seq(Q) =>
                     \E j \in 1 .. Len(g[i - 1]) + 1 : g[i] = InsertAt(g[i - 1], j, q[i])
<1> DEFINE n == Len(q)
           behind(s, m) == Cardinality({i \in DOMAIN s : s[i].stream <= m.stream})
           Made(g) == g = [i \in 0 .. n |-> IF i = 0 THEN <<>>
                                            ELSE InsertAt(g[i - 1], behind(g[i - 1], q[i]) + 1, q[i])]
           step == [x \in (1 .. n) \X Seq(Q) |-> InsertAt(x[2], behind(x[2], q[x[1]]) + 1, q[x[1]])]
<1>1. n \in Nat /\ <<>> \in Seq(Q) /\ \A i \in 1 .. n : q[i] \in Q
  OBVIOUS
<1>2. \A s \in Seq(Q), m \in Q : behind(s, m) + 1 \in 1 .. Len(s) + 1
  <2> SUFFICES ASSUME NEW s \in Seq(Q), NEW m \in Q PROVE behind(s, m) \in 0 .. Len(s)
    OBVIOUS
  <2>1. DOMAIN s = 1 .. Len(s) /\ Len(s) \in Nat
    OBVIOUS
  <2>2. IsFiniteSet(1 .. Len(s)) /\ Cardinality(1 .. Len(s)) = Len(s)
    <3> DEFINE l == Len(s)
    <3>1. l \in Nat /\ 1 \in Int /\ l \in Int
      BY <2>1
    <3> HIDE DEF l
    <3>2. IsFiniteSet(1 .. l) /\ Cardinality(1 .. l) = IF 1 > l THEN 0 ELSE l - 1 + 1
      BY <3>1, FS_Interval
    <3>3. IsFiniteSet(1 .. l) /\ Cardinality(1 .. l) = l
      BY <3>1, <3>2
    <3> QED
      BY <3>3 DEF l
  <2> DEFINE S == {i \in DOMAIN s : s[i].stream <= m.stream}
  <2>3. S \subseteq 1 .. Len(s)
    BY <2>1
  <2> HIDE DEF S
  <2>4. IsFiniteSet(S) /\ Cardinality(S) <= Len(s)
    BY <2>2, <2>3, FS_Subset
  <2>5. Cardinality(S) \in Nat
    BY <2>4, FS_CardinalityType
  <2> QED
    BY <2>1, <2>4, <2>5 DEF S
<1> HIDE DEF behind
<1>3. \A i \in 1 .. n : \A v \in Seq(Q) : step[<<i, v>>] = InsertAt(v, behind(v, q[i]) + 1, q[i])
  OBVIOUS
<1>4. StepsIn(step, n, Seq(Q))
  <2> SUFFICES ASSUME NEW i \in 1 .. n, NEW v \in Seq(Q) PROVE step[<<i, v>>] \in Seq(Q)
    BY DEF StepsIn
  <2> HIDE DEF step
  <2>1. q[i] \in Q /\ behind(v, q[i]) + 1 \in 1 .. Len(v) + 1
    BY <1>1, <1>2
  <2> QED
    BY <1>3, <2>1, InsertAtKeeps
<1>5. \E g : Made(g)
  <2>1. PICK g : StepsTo(g, step, <<>>, n, Seq(Q))
    <3> HIDE DEF step, n
    <3> QED
      BY <1>1, <1>4, StepsExist
  <2> HIDE DEF step
  <2>2. ASSUME NEW i \in 0 .. n
        PROVE  g[i] = IF i = 0 THEN <<>> ELSE InsertAt(g[i - 1], behind(g[i - 1], q[i]) + 1, q[i])
    <3>1. CASE i = 0
      BY <2>1, <3>1 DEF StepsTo
    <3>2. CASE i # 0
      <4>1. i \in 1 .. n /\ g[i - 1] \in Seq(Q)
        BY <1>1, <2>1, <3>2 DEF StepsTo
      <4> QED
        BY <1>3, <2>1, <3>2, <4>1 DEF StepsTo
    <3> QED
      BY <3>1, <3>2
  <2>3. Made(g)
    BY <2>1, <2>2 DEF StepsTo
  <2> QED
    BY <2>3
<1> DEFINE f == CHOOSE g : Made(g)
<1>6. Made(f)
  BY <1>5
<1>7. ByStream(q) = f[n]
  BY DEF ByStream, behind
<1>8. n \in Nat /\ Made(f)
  BY <1>1, <1>6
<1> HIDE DEF f, n
<1>9. f[0] = <<>>
  BY <1>8
<1>10. ASSUME NEW i \in 1 .. n, f[i - 1] \in Seq(Q)
       PROVE  \E j \in 1 .. Len(f[i - 1]) + 1 : f[i] = InsertAt(f[i - 1], j, q[i])
  <2>1. i \in 0 .. n /\ i # 0
    BY <1>8
  <2>2. f[i] = InsertAt(f[i - 1], behind(f[i - 1], q[i]) + 1, q[i])
    BY <1>8, <2>1
  <2>3. behind(f[i - 1], q[i]) + 1 \in 1 .. Len(f[i - 1]) + 1
    BY <1>1, <1>2, <1>10
  <2> QED
    BY <2>2, <2>3
<1> QED
  BY <1>7, <1>9, <1>10 DEF n

\* ByStream keeps the elements.
LEMMA ByStreamKeeps ==
  ASSUME NEW Q, NEW q \in Seq(Q)
  PROVE  /\ ByStream(q) \in Seq(Q)
         /\ \A k \in 1 .. Len(ByStream(q)) : \E i \in 1 .. Len(q) : ByStream(q)[k] = q[i]
         /\ \A i \in 1 .. Len(q) : \E k \in 1 .. Len(ByStream(q)) : ByStream(q)[k] = q[i]
<1> DEFINE n == Len(q)
           Picked(s, m) == \A k \in 1 .. Len(s) : \E i \in 1 .. m : s[k] = q[i]
           Kept(s, m) == \A i \in 1 .. m : \E k \in 1 .. Len(s) : s[k] = q[i]
<1>1. PICK g : /\ ByStream(q) = g[n] /\ g[0] = <<>>
               /\ \A i \in 1 .. n : g[i - 1] \in Seq(Q) =>
                    \E j \in 1 .. Len(g[i - 1]) + 1 : g[i] = InsertAt(g[i - 1], j, q[i])
  BY ByStreamSteps
<1> DEFINE S == {m \in 0 .. n : g[m] \in Seq(Q) /\ Picked(g[m], m) /\ Kept(g[m], m)}
<1>2. n \in Nat /\ \A i \in 1 .. n : q[i] \in Q
  OBVIOUS
<1> HIDE DEF n
<1>3. 0 \in S
  <2>1. g[0] \in Seq(Q) /\ Len(g[0]) = 0
    BY <1>1
  <2>2. Picked(g[0], 0) /\ Kept(g[0], 0)
    BY <2>1
  <2>3. 0 \in 0 .. n
    BY <1>2
  <2> HIDE DEF Picked, Kept
  <2> QED
    BY <2>1, <2>2, <2>3
<1>4. ASSUME NEW m \in 1 .. n, m - 1 \in S PROVE m \in S
  <2> DEFINE s == g[m - 1]
             t == g[m]
  <2>1. s \in Seq(Q) /\ Picked(s, m - 1) /\ Kept(s, m - 1)
    BY <1>4
  <2>2. PICK j \in 1 .. Len(s) + 1 : t = InsertAt(s, j, q[m])
    BY <1>1, <2>1
  <2>3. q[m] \in Q
    BY <1>2
  <2> HIDE DEF s, t
  <2>4. /\ t \in Seq(Q)
        /\ \A k \in 1 .. Len(t) : t[k] = q[m] \/ \E i \in 1 .. Len(s) : t[k] = s[i]
        /\ \E k \in 1 .. Len(t) : t[k] = q[m]
        /\ \A i \in 1 .. Len(s) : \E k \in 1 .. Len(t) : t[k] = s[i]
    <3> DEFINE e == q[m]
    <3>1. s \in Seq(Q) /\ e \in Q /\ t = InsertAt(s, j, e)
      BY <2>1, <2>2, <2>3
    <3> HIDE DEF e
    <3>2. /\ t \in Seq(Q)
          /\ \A k \in 1 .. Len(t) : t[k] = e \/ \E i \in 1 .. Len(s) : t[k] = s[i]
          /\ \E k \in 1 .. Len(t) : t[k] = e
          /\ \A i \in 1 .. Len(s) : \E k \in 1 .. Len(t) : t[k] = s[i]
      BY ONLY <3>1, InsertAtKeeps
    <3> QED
      BY <3>2 DEF e
  <2>5. m \in Int /\ m \in 1 .. m /\ \A i \in 1 .. m - 1 : i \in 1 .. m
    BY <1>2
  <2>6. Picked(t, m)
    <3> SUFFICES ASSUME NEW k \in 1 .. Len(t), t[k] # q[m] PROVE \E i \in 1 .. m : t[k] = q[i]
      BY <2>5
    <3>1. PICK i \in 1 .. Len(s) : t[k] = s[i]
      BY <2>4
    <3>2. PICK l \in 1 .. m - 1 : s[i] = q[l]
      BY <2>1
    <3> QED
      BY <2>5, <3>1, <3>2
  <2>7. Kept(t, m)
    <3> SUFFICES ASSUME NEW i \in 1 .. m PROVE \E k \in 1 .. Len(t) : t[k] = q[i]
      OBVIOUS
    <3>1. CASE i = m
      BY <2>4, <3>1
    <3>2. CASE i # m
      <4>1. i \in 1 .. m - 1
        BY <2>5, <3>2
      <4>2. PICK l \in 1 .. Len(s) : s[l] = q[i]
        BY <2>1, <4>1
      <4> QED
        BY <2>4, <4>2
    <3> QED
      BY <3>1, <3>2
  <2>8. m \in 0 .. n
    BY <1>2
  <2> HIDE DEF Picked, Kept
  <2> QED
    BY <2>4, <2>6, <2>7, <2>8 DEF t
<1>5. n \in S
  <2> HIDE DEF S
  <2>1. \A i \in 0 .. n : i \in S
    BY <1>2, <1>3, <1>4, UpTo
  <2> QED
    BY <1>2, <2>1
<1>6. g[n] \in Seq(Q) /\ Picked(g[n], n) /\ Kept(g[n], n)
  BY <1>5
<1> QED
  BY <1>1, <1>6 DEF n

-----------------------------------------------------------------------------
(* User-defined rules.                                                     *)

\* A comparison and its opposite never agree on a reading if there is an operand of its type.
LEMMA OppositesDiffer ==
  ASSUME NEW rule, NEW reading,
         {"op", "operands", "tolerance"} \subseteq DOMAIN rule, rule.op \in Ops, IsList(rule.operands),
         \A o \in Range(rule.operands) : o.type = "number" => o.value \in Int,
         reading.type = "number" => reading.value \in Int,
         \E i \in DOMAIN rule.operands : rule.operands[i].type = reading.type,
         rule.op \in Ordering => reading.type = "number"
  PROVE  Holds(rule, reading) # Holds([rule EXCEPT !.op = Opposite[rule.op]], reading)
<1> DEFINE q == rule.operands
           I == {i \in DOMAIN q : q[i].type = reading.type}
           same == Only(q, I)
           other == [rule EXCEPT !.op = Opposite[rule.op]]
<1>1. /\ other.operands = rule.operands /\ other.tolerance = rule.tolerance
      /\ other.op = Opposite[rule.op]
  OBVIOUS
<1>2. q \in Seq(Range(q)) /\ DOMAIN q = 1 .. Len(q) /\ I \in SUBSET (1 .. Len(q)) /\ I # {}
  BY DEF IsList
<1>3. /\ same \in Seq(Range(q))
      /\ \A k \in 1 .. Len(same) : \E i \in I : same[k] = q[i]
      /\ \A i \in I : \E k \in 1 .. Len(same) : same[k] = q[i]
  <2> HIDE DEF q, I
  <2> QED
    BY <1>2, OnlyPicks
<1>4. same # <<>> /\ 1 \in 1 .. Len(same)
  <2> HIDE DEF same, q, I
  <2>1. Len(same) \in Nat /\ (same = <<>> => Len(same) = 0)
    BY <1>3
  <2>2. \E k : k \in 1 .. Len(same)
    BY <1>2, <1>3
  <2> QED
    BY <2>1, <2>2
<1>5. PICK i \in I : same[1] = q[i]
  BY <1>3, <1>4
<1>6. q[i] \in Range(q) /\ q[i].type = reading.type
  BY DEF Range
<1>7. reading.type = "number" => reading.value \in Int /\ same[1].value \in Int
  BY <1>5, <1>6
<1> DEFINE m == reading.value
           number == reading.type = "number"
           near(o) == IF number THEN Distance(m, o.value) <= rule.tolerance ELSE m = o.value
           anyOf == \E k \in DOMAIN same : near(same[k])
           says(op) == CASE op = "one_of"  -> anyOf
                         [] op = "none_of" -> ~anyOf
                         [] op = "eq"      -> IF number THEN same # <<>> /\ near(same[1]) ELSE anyOf
                         [] op = "ne"      -> IF number THEN same # <<>> /\ ~near(same[1]) ELSE ~anyOf
                         [] op = "lt"      -> number /\ same # <<>> /\ m < same[1].value
                         [] op = "le"      -> number /\ same # <<>> /\ m <= same[1].value
                         [] op = "gt"      -> number /\ same # <<>> /\ m > same[1].value
                         [] op = "ge"      -> number /\ same # <<>> /\ m >= same[1].value
<1>8. Holds(rule, reading) = says(rule.op)
  BY DEF Holds
<1>9. Holds(other, reading) = says(Opposite[rule.op])
  BY <1>1 DEF Holds
<1>10. says(rule.op) # says(Opposite[rule.op])
  <2> DEFINE w == same[1].value
  <2>1. rule.op \in {"lt", "le", "gt", "ge"} => number /\ m \in Int /\ w \in Int
    BY <1>7 DEF Ordering
  <2>2. same # <<>>
    BY <1>4
  <2> HIDE DEF same, near, anyOf, number, m
  <2>3. CASE rule.op = "one_of"
    <3>1. Opposite[rule.op] = "none_of"
      BY <2>3 DEF Opposite
    <3>2. says("one_of") # says("none_of")
      BY <2>1, <2>2, <2>3
    <3> QED
      BY <2>3, <3>1, <3>2
  <2>4. CASE rule.op = "none_of"
    <3>1. Opposite[rule.op] = "one_of"
      BY <2>4 DEF Opposite
    <3>2. says("none_of") # says("one_of")
      BY <2>1, <2>2, <2>4
    <3> QED
      BY <2>4, <3>1, <3>2
  <2>5. CASE rule.op = "eq"
    <3>1. Opposite[rule.op] = "ne"
      BY <2>5 DEF Opposite
    <3>2. says("eq") # says("ne")
      BY <2>1, <2>2, <2>5
    <3> QED
      BY <2>5, <3>1, <3>2
  <2>6. CASE rule.op = "ne"
    <3>1. Opposite[rule.op] = "eq"
      BY <2>6 DEF Opposite
    <3>2. says("ne") # says("eq")
      BY <2>1, <2>2, <2>6
    <3> QED
      BY <2>6, <3>1, <3>2
  <2>7. CASE rule.op = "lt"
    <3>1. Opposite[rule.op] = "ge"
      BY <2>7 DEF Opposite
    <3>2. number /\ m \in Int /\ w \in Int /\ same # <<>>
      BY <2>1, <2>2, <2>7
    <3>3. says("lt") = (m < w)
      BY <3>2
    <3>4. says("ge") = (m >= w)
      BY <3>2
    <3>5. (m < w) # (m >= w)
      BY <3>2
    <3> QED
      BY <2>7, <3>1, <3>3, <3>4, <3>5
  <2>8. CASE rule.op = "ge"
    <3>1. Opposite[rule.op] = "lt"
      BY <2>8 DEF Opposite
    <3>2. number /\ m \in Int /\ w \in Int /\ same # <<>>
      BY <2>1, <2>2, <2>8
    <3>3. says("ge") = (m >= w)
      BY <3>2
    <3>4. says("lt") = (m < w)
      BY <3>2
    <3>5. (m >= w) # (m < w)
      BY <3>2
    <3> QED
      BY <2>8, <3>1, <3>3, <3>4, <3>5
  <2>9. CASE rule.op = "le"
    <3>1. Opposite[rule.op] = "gt"
      BY <2>9 DEF Opposite
    <3>2. number /\ m \in Int /\ w \in Int /\ same # <<>>
      BY <2>1, <2>2, <2>9
    <3>3. says("le") = (m <= w)
      BY <3>2
    <3>4. says("gt") = (m > w)
      BY <3>2
    <3>5. (m <= w) # (m > w)
      BY <3>2
    <3> QED
      BY <2>9, <3>1, <3>3, <3>4, <3>5
  <2>10. CASE rule.op = "gt"
    <3>1. Opposite[rule.op] = "le"
      BY <2>10 DEF Opposite
    <3>2. number /\ m \in Int /\ w \in Int /\ same # <<>>
      BY <2>1, <2>2, <2>10
    <3>3. says("gt") = (m > w)
      BY <3>2
    <3>4. says("le") = (m <= w)
      BY <3>2
    <3>5. (m > w) # (m <= w)
      BY <3>2
    <3> QED
      BY <2>10, <3>1, <3>3, <3>4, <3>5
  <2> HIDE DEF says
  <2> QED
    BY <2>3, <2>4, <2>5, <2>6, <2>7, <2>8, <2>9, <2>10 DEF Ops, Ordering, SetOps
<1> QED
  BY <1>8, <1>9, <1>10

\* An accepted rule has an operand of the type of its metric, and orders numbers only.
LEMMA AcceptedDecides ==
  ASSUME NEW rule \in CustomRulesAsked, NEW reading \in Readings,
         AcceptsCustom(rule), {reading.type} = MetricKind(rule.scope, rule.metric)
  PROVE  Holds(rule, reading) # Holds([rule EXCEPT !.op = Opposite[rule.op]], reading)
<1>1. PICK kind \in MetricKind(rule.scope, rule.metric) :
        /\ rule.operands # <<>> /\ (rule.op \in Ordering => kind = "number")
        /\ \A i \in DOMAIN rule.operands : rule.operands[i].type = kind
  BY DEF AcceptsCustom
<1>2. kind = reading.type
  BY <1>1
<1>3. /\ {"op", "operands", "tolerance"} \subseteq DOMAIN rule /\ rule.op \in Ops /\ IsList(rule.operands)
      /\ \A o \in Range(rule.operands) : o.type = "number" => o.value \in Int
      /\ reading.type = "number" => reading.value \in Int
  BY AnalysisAssumption
<1>4. 1 \in DOMAIN rule.operands
  <2>1. rule.operands \in Seq(Range(rule.operands))
    BY <1>3 DEF IsList
  <2> QED
    BY <1>1, <2>1
<1>5. \E i \in DOMAIN rule.operands : rule.operands[i].type = reading.type
  BY <1>1, <1>2, <1>4
<1>6. rule.op \in Ordering => reading.type = "number"
  BY <1>1, <1>2
<1> QED
  BY <1>3, <1>5, <1>6, OppositesDiffer

-----------------------------------------------------------------------------
(* The rules of a profile and their keys.                                  *)

Distinct(q) == \A i, j \in 1 .. Len(q) : q[i] = q[j] => i = j

\* Two lists without a repetition and without a common element have none together.
LEMMA JoinedDistinct ==
  ASSUME NEW A, NEW B, NEW x \in Seq(A), NEW y \in Seq(B), Distinct(x), Distinct(y), A \cap B = {}
  PROVE  x \o y \in Seq(A \cup B) /\ Distinct(x \o y)
<1> DEFINE z == x \o y
           n == Len(x)
           l == Len(y)
<1>1. /\ z \in Seq(A \cup B) /\ n \in Nat /\ l \in Nat /\ Len(z) = n + l
      /\ \A i \in 1 .. n : z[i] = x[i] /\ x[i] \in A
      /\ \A i \in 1 .. l : y[i] \in B
  OBVIOUS
<1>2. ASSUME NEW i \in 1 .. n + l, ~ (i <= n) PROVE i - n \in 1 .. l /\ z[i] = y[i - n]
  BY <1>2
<1>3. ASSUME NEW i \in 1 .. n + l, NEW j \in 1 .. n + l, z[i] = z[j] PROVE i = j
  <2> HIDE DEF z, n, l
  <2>1. CASE i <= n /\ j <= n
    <3>1. i \in 1 .. n /\ j \in 1 .. n
      BY <1>1, <2>1
    <3> QED
      BY <1>1, <1>3, <3>1 DEF Distinct, n
  <2>2. CASE ~ (i <= n) /\ ~ (j <= n)
    <3>1. i - n \in 1 .. l /\ j - n \in 1 .. l /\ y[i - n] = y[j - n]
      BY <1>2, <1>3, <2>2
    <3>2. i - n = j - n
      BY <3>1 DEF Distinct, l
    <3> QED
      BY <1>1, <3>2
  <2>3. CASE i <= n /\ ~ (j <= n)
    <3>1. i \in 1 .. n /\ j - n \in 1 .. l
      BY <1>1, <1>2, <2>3
    <3>2. z[i] \in A /\ z[j] \in B
      BY <1>1, <1>2, <2>3, <3>1
    <3> QED
      BY <1>3, <3>2
  <2>4. CASE ~ (i <= n) /\ j <= n
    <3>1. j \in 1 .. n /\ i - n \in 1 .. l
      BY <1>1, <1>2, <2>4
    <3>2. z[j] \in A /\ z[i] \in B
      BY <1>1, <1>2, <2>4, <3>1
    <3> QED
      BY <1>3, <3>2
  <2> QED
    BY <2>1, <2>2, <2>3, <2>4
<1> QED
  BY <1>1, <1>3 DEF Distinct

\* The ids of a group that a parsed profile configures.
Configured(group, order, parsed) ==
  {id \in {group} \X Range(order) : group \in DOMAIN parsed /\ id[2] \in DOMAIN parsed[group]}

\* The built-in rules of a group are among these, without a repetition.
LEMMA GroupIds ==
  ASSUME NEW group, NEW order, IsList(order), Distinct(order), NEW parsed
  PROVE  /\ BuildGroup(group, order, parsed) \in Seq(Configured(group, order, parsed))
         /\ Distinct(BuildGroup(group, order, parsed))
<1> DEFINE names == IF group \in DOMAIN parsed THEN DOMAIN parsed[group] ELSE {}
           I == {i \in DOMAIN order : order[i] \in names}
           chosen == Only(order, I)
           b == BuildGroup(group, order, parsed)
<1>1. order \in Seq(Range(order)) /\ DOMAIN order = 1 .. Len(order) /\ I \in SUBSET (1 .. Len(order))
  BY DEF IsList
<1>2. /\ chosen \in Seq(Range(order))
      /\ \A k \in 1 .. Len(chosen) : \E i \in I : chosen[k] = order[i]
      /\ (\A i, j \in I : order[i] = order[j] => i = j) =>
           \A k, l \in 1 .. Len(chosen) : chosen[k] = chosen[l] => k = l
  <2> HIDE DEF I
  <2> QED
    BY <1>1, OnlyPicks
<1>3. \A i, j \in I : order[i] = order[j] => i = j
  BY <1>1 DEF Distinct
<1>4. b = [i \in 1 .. Len(chosen) |-> <<group, chosen[i]>>] /\ Len(chosen) \in Nat
  BY <1>2 DEF BuildGroup
<1>5. \A i \in 1 .. Len(chosen) : chosen[i] \in Range(order) /\ chosen[i] \in names
  <2>1. \A i \in I : order[i] \in Range(order) /\ order[i] \in names
    BY DEF Range
  <2> HIDE DEF I, names, chosen
  <2> QED
    BY <1>2, <2>1
<1>6. \A i \in 1 .. Len(chosen) : <<group, chosen[i]>> \in Configured(group, order, parsed)
  <2> HIDE DEF I, chosen
  <2> QED
    BY <1>5 DEF Configured
<1> HIDE DEF b, chosen, I, names
<1>7. b \in Seq(Configured(group, order, parsed)) /\ Len(b) = Len(chosen)
  BY <1>4, <1>6
<1>8. Distinct(b)
  BY <1>2, <1>3, <1>4, <1>7 DEF Distinct
<1> QED
  BY <1>7, <1>8 DEF b

\* The orders of the build functions repeat no rule.
LEMMA OrdersDistinct ==
  /\ IsList(ContainerBuild) /\ Distinct(ContainerBuild)
  /\ IsList(VideoBuild) /\ Distinct(VideoBuild)
  /\ IsList(AudioBuild) /\ Distinct(AudioBuild)
  /\ IsList(SubtitleBuild) /\ Distinct(SubtitleBuild)
  /\ IsList(VoiceBuild) /\ Distinct(VoiceBuild)
<1>1. IsList(ContainerBuild) /\ Distinct(ContainerBuild)
  BY DEF IsList, Range, ContainerBuild, Distinct
<1>2. IsList(VideoBuild) /\ Distinct(VideoBuild)
  BY DEF IsList, Range, VideoBuild, Distinct
<1>3. IsList(AudioBuild) /\ Distinct(AudioBuild)
  BY DEF IsList, Range, AudioBuild, Distinct
<1>4. IsList(SubtitleBuild) /\ Distinct(SubtitleBuild)
  BY DEF IsList, Range, SubtitleBuild, Distinct
<1>5. IsList(VoiceBuild) /\ Distinct(VoiceBuild)
  BY DEF IsList, Range, VoiceBuild, Distinct
<1> QED
  BY <1>1, <1>2, <1>3, <1>4, <1>5

\* The ids of a list of user-defined rules.
CustomIds(custom) == {custom[i].id : i \in DOMAIN custom}

\* All rules that run for a profile without plugins.
RuleIds(parsed, custom) ==
  Configured("container", ContainerBuild, parsed) \cup Configured("video", VideoBuild, parsed)
  \cup Configured("audio", AudioBuild, parsed) \cup Configured("subtitle", SubtitleBuild, parsed)
  \cup Configured("voice", VoiceBuild, parsed) \cup CustomIds(custom)

\* A list that the parser accepts has ids of one prefix, each once.
LEMMA CustomListIds ==
  ASSUME NEW custom, IsList(custom), AcceptsCustomList(custom)
  PROVE  /\ [i \in DOMAIN custom |-> custom[i].id] \in Seq(CustomIds(custom))
         /\ Distinct([i \in DOMAIN custom |-> custom[i].id])
         /\ \A id \in CustomIds(custom) : id[1] = "custom"
<1>1. custom \in Seq(Range(custom)) /\ DOMAIN custom = 1 .. Len(custom) /\ Len(custom) \in Nat
  BY DEF IsList
<1>2. \A i \in DOMAIN custom : custom[i].id[1] = "custom" /\ \A j \in 1 .. i - 1 : custom[j].id # custom[i].id
  BY DEF AcceptsCustomList
<1>3. ASSUME NEW i \in DOMAIN custom, NEW j \in DOMAIN custom, custom[i].id = custom[j].id
      PROVE  i = j
  <2>1. CASE i < j
    <3>1. i \in 1 .. j - 1
      BY <1>1, <2>1
    <3> QED
      BY <1>2, <1>3, <3>1
  <2>2. CASE j < i
    <3>1. j \in 1 .. i - 1
      BY <1>1, <2>2
    <3> QED
      BY <1>2, <1>3, <3>1
  <2> QED
    BY <1>1, <2>1, <2>2
<1>4. [i \in DOMAIN custom |-> custom[i].id] \in Seq(CustomIds(custom))
  BY <1>1 DEF CustomIds
<1> QED
  BY <1>1, <1>2, <1>3, <1>4 DEF CustomIds, Distinct

\* No rule runs twice, and every id has the prefix of its list.
LEMMA RulesDistinct ==
  ASSUME NEW parsed, NEW custom, IsList(custom), AcceptsCustomList(custom)
  PROVE  /\ BuildRules(parsed, custom) \in Seq(RuleIds(parsed, custom))
         /\ Distinct(BuildRules(parsed, custom))
<1> DEFINE A1 == Configured("container", ContainerBuild, parsed)
           A2 == Configured("video", VideoBuild, parsed)
           A3 == Configured("audio", AudioBuild, parsed)
           A4 == Configured("subtitle", SubtitleBuild, parsed)
           A5 == Configured("voice", VoiceBuild, parsed)
           A6 == CustomIds(custom)
           b1 == BuildGroup("container", ContainerBuild, parsed)
           b2 == BuildGroup("video", VideoBuild, parsed)
           b3 == BuildGroup("audio", AudioBuild, parsed)
           b4 == BuildGroup("subtitle", SubtitleBuild, parsed)
           b5 == BuildGroup("voice", VoiceBuild, parsed)
           b6 == [i \in DOMAIN custom |-> custom[i].id]
<1>1. /\ \A id \in A1 : id[1] = "container"
      /\ \A id \in A2 : id[1] = "video"
      /\ \A id \in A3 : id[1] = "audio"
      /\ \A id \in A4 : id[1] = "subtitle"
      /\ \A id \in A5 : id[1] = "voice"
  BY DEF Configured
<1>2. \A id \in A6 : id[1] = "custom"
  BY CustomListIds
<1>3. /\ b1 \in Seq(A1) /\ Distinct(b1)
      /\ b2 \in Seq(A2) /\ Distinct(b2)
      /\ b3 \in Seq(A3) /\ Distinct(b3)
      /\ b4 \in Seq(A4) /\ Distinct(b4)
      /\ b5 \in Seq(A5) /\ Distinct(b5)
  BY GroupIds, OrdersDistinct
<1>4. b6 \in Seq(A6) /\ Distinct(b6)
  BY CustomListIds
<1> HIDE DEF A1, A2, A3, A4, A5, A6, b1, b2, b3, b4, b5, b6
<1>5. b1 \o b2 \in Seq(A1 \cup A2) /\ Distinct(b1 \o b2)
  BY <1>1, <1>3, JoinedDistinct
<1>6. b1 \o b2 \o b3 \in Seq(A1 \cup A2 \cup A3) /\ Distinct(b1 \o b2 \o b3)
  <2>1. (A1 \cup A2) \cap A3 = {}
    BY <1>1
  <2> QED
    BY <1>3, <1>5, <2>1, JoinedDistinct
<1>7. b1 \o b2 \o b3 \o b4 \in Seq(A1 \cup A2 \cup A3 \cup A4) /\ Distinct(b1 \o b2 \o b3 \o b4)
  <2>1. (A1 \cup A2 \cup A3) \cap A4 = {}
    BY <1>1
  <2> QED
    BY <1>3, <1>6, <2>1, JoinedDistinct
<1>8. /\ b1 \o b2 \o b3 \o b4 \o b5 \in Seq(A1 \cup A2 \cup A3 \cup A4 \cup A5)
      /\ Distinct(b1 \o b2 \o b3 \o b4 \o b5)
  <2>1. (A1 \cup A2 \cup A3 \cup A4) \cap A5 = {}
    BY <1>1
  <2> QED
    BY <1>3, <1>7, <2>1, JoinedDistinct
<1>9. /\ b1 \o b2 \o b3 \o b4 \o b5 \o b6 \in Seq(A1 \cup A2 \cup A3 \cup A4 \cup A5 \cup A6)
      /\ Distinct(b1 \o b2 \o b3 \o b4 \o b5 \o b6)
  <2>1. (A1 \cup A2 \cup A3 \cup A4 \cup A5) \cap A6 = {}
    BY <1>1, <1>2
  <2> QED
    BY <1>4, <1>8, <2>1, JoinedDistinct
<1> QED
  BY <1>9 DEF BuildRules, RuleIds, A1, A2, A3, A4, A5, A6, b1, b2, b3, b4, b5, b6

\* The key of the cache has a part for every rule that runs.
LEMMA RulesHaveKeys ==
  ASSUME NEW parsed, NEW custom, IsList(custom), AcceptsCustomList(custom),
         NEW id \in RuleIds(parsed, custom)
  PROVE  ConfigHash(parsed, custom, id) # {}
<1>1. ASSUME NEW g \in DOMAIN HashTable, NEW order, Range(order) \subseteq HashTable[g],
             id \in Configured(g, order, parsed)
      PROVE  ConfigHash(parsed, custom, id) # {}
  <2>1. /\ id[1] = g /\ id[2] \in Range(order)
        /\ g \in DOMAIN parsed /\ id[2] \in DOMAIN parsed[g]
    BY <1>1 DEF Configured
  <2>2. id[1] \in DOMAIN HashTable /\ id[2] \in HashTable[id[1]]
    BY <1>1, <2>1
  <2> HIDE DEF HashTable
  <2> QED
    BY <2>1, <2>2 DEF ConfigHash
<1>2. /\ "container" \in DOMAIN HashTable /\ Range(ContainerBuild) \subseteq HashTable["container"]
      /\ "video" \in DOMAIN HashTable /\ Range(VideoBuild) \subseteq HashTable["video"]
      /\ "audio" \in DOMAIN HashTable /\ Range(AudioBuild) \subseteq HashTable["audio"]
      /\ "subtitle" \in DOMAIN HashTable /\ Range(SubtitleBuild) \subseteq HashTable["subtitle"]
      /\ "voice" \in DOMAIN HashTable /\ Range(VoiceBuild) \subseteq HashTable["voice"]
      /\ "custom" \notin DOMAIN HashTable
  BY DEF HashTable, Range, ContainerBuild, VideoBuild, AudioBuild, SubtitleBuild, VoiceBuild
<1>3. CASE id \in CustomIds(custom)
  <2>1. id[1] = "custom"
    BY <1>3, CustomListIds
  <2>2. {i \in DOMAIN custom : custom[i].id = id} # {}
    BY <1>3 DEF CustomIds
  <2> QED
    BY <1>2, <2>1, <2>2 DEF ConfigHash
<1> QED
  BY <1>1, <1>2, <1>3 DEF RuleIds

\* Every id that runs without plugins has a prefix that plugins may not use.
LEMMA RulesReserved ==
  ASSUME NEW parsed, NEW custom, IsList(custom), AcceptsCustomList(custom),
         NEW id \in RuleIds(parsed, custom)
  PROVE  id[1] \in ReservedPrefixes
<1>1. ASSUME NEW g, NEW order, id \in Configured(g, order, parsed) PROVE id[1] = g
  BY <1>1 DEF Configured
<1>2. id \in CustomIds(custom) => id[1] = "custom"
  BY CustomListIds
<1> QED
  BY <1>1, <1>2 DEF RuleIds, ReservedPrefixes

\* The rules of an accepted profile with those of its plugins: no id is there twice, and each
\* of the catalogue has its part of the key.
LEMMA AllRulesKeyed ==
  ASSUME NEW p, NEW custom, NEW plugins, IsList(custom), IsList(plugins),
         AcceptsCustomList(custom), AcceptsPlugins(plugins)
  PROVE  /\ Distinct(BuildRules(p, custom) \o plugins)
         /\ BuildRules(p, custom) \o plugins \in Seq(RuleIds(p, custom) \cup Range(plugins))
         /\ \A id \in RuleIds(p, custom) \cup Range(plugins) :
              id[1] \in ReservedPrefixes => ConfigHash(p, custom, id) # {}
<1> DEFINE rules == BuildRules(p, custom)
           ids == RuleIds(p, custom)
<1>1. rules \in Seq(ids) /\ Distinct(rules)
  BY RulesDistinct
<1>2. plugins \in Seq(Range(plugins)) /\ DOMAIN plugins = 1 .. Len(plugins) /\ Len(plugins) \in Nat
  BY DEF IsList
<1>3. \A i \in DOMAIN plugins : /\ plugins[i][1] \notin ReservedPrefixes
                                /\ \A j \in 1 .. i - 1 : plugins[j] # plugins[i]
  BY DEF AcceptsPlugins, ValidPluginId
<1>4. \A id \in Range(plugins) : id[1] \notin ReservedPrefixes
  BY <1>3 DEF Range
<1>5. Distinct(plugins)
  <2>1. ASSUME NEW i \in DOMAIN plugins, NEW j \in DOMAIN plugins, plugins[i] = plugins[j], i < j
        PROVE  FALSE
    <3>1. i \in 1 .. j - 1
      BY <1>2, <2>1
    <3> QED
      BY <1>3, <2>1, <3>1
  <2>2. \A i, j \in DOMAIN plugins : i = j \/ i < j \/ j < i
    BY <1>2
  <2> QED
    BY <1>2, <2>1, <2>2 DEF Distinct
<1>6. \A id \in ids : id[1] \in ReservedPrefixes /\ ConfigHash(p, custom, id) # {}
  BY RulesReserved, RulesHaveKeys
<1> HIDE DEF rules, ids
<1>7. ids \cap Range(plugins) = {}
  BY <1>4, <1>6
<1>8. rules \o plugins \in Seq(ids \cup Range(plugins)) /\ Distinct(rules \o plugins)
  BY <1>1, <1>2, <1>5, <1>7, JoinedDistinct
<1> QED
  BY <1>4, <1>6, <1>8 DEF rules, ids

-----------------------------------------------------------------------------
(* The answers.                                                            *)

\* What there is of an answer: that of the question that was asked.
CustomAnswered ==
  \E rule \in CustomRulesAsked, reading \in Readings :
    /\ {reading.type} = MetricKind(rule.scope, rule.metric)
    /\ question = {[about |-> "custom", rule |-> rule, reading |-> reading]}
    /\ answer = IF AcceptsCustom(rule) THEN {Holds(rule, reading)} ELSE {}

KeyedRules(p, custom, plugins) ==
  LET built == BuildRules(p, custom) \o plugins
  IN  [i \in DOMAIN built |-> [id |-> built[i], hash |-> ConfigHash(p, custom, built[i])]]

ProfileAnswered ==
  \E doc \in Documents, custom \in CustomLists, plugins \in PluginLists :
    /\ question = {[about |-> "profile"]}
    /\ answer = IF AcceptsCustomList(custom) /\ AcceptsPlugins(plugins)
                THEN {KeyedRules(p, custom, plugins) : p \in ParseProfile(doc)} ELSE {}

FlashesAnswered ==
  \E times \in FlashTimes, limit \in FlashLimits :
    /\ question = {[about |-> "flashes", times |-> times, limit |-> limit]}
    /\ answer = {FlashWindows(times, limit)}

Answered == question = {} \/ CustomAnswered \/ ProfileAnswered \/ FlashesAnswered

\* Every step keeps the answer of its question, or makes the next.
LEMMA AnsweredInvariance == AnalysisSpec => []Answered
<1>1. AnalysisInit => Answered
  BY DEF AnalysisInit, Answered
<1>2. Answered /\ [AnalysisNext]_vars => Answered'
  <2> SUFFICES ASSUME Answered, [AnalysisNext]_vars PROVE Answered'
    OBVIOUS
  <2>1. ASSUME question' = question, answer' = answer PROVE Answered'
    BY <2>1 DEF Answered, CustomAnswered, ProfileAnswered, FlashesAnswered
  <2>2. CASE Look
    BY <2>1, <2>2 DEF Look, asked
  <2>3. CASE Judge
    BY <2>1, <2>3 DEF Judge, asked
  <2>4. CASE AskProfile
    <3>1. ProfileAnswered'
      BY <2>4 DEF AskProfile, Asks, ProfileAnswered, KeyedRules
    <3> QED
      BY <3>1 DEF Answered
  <2>5. CASE AskCustom
    <3>1. CustomAnswered'
      BY <2>5 DEF AskCustom, Asks, CustomAnswered
    <3> QED
      BY <3>1 DEF Answered
  <2>6. CASE AskFlashes
    <3>1. FlashesAnswered'
      BY <2>6 DEF AskFlashes, Asks, FlashesAnswered
    <3> QED
      BY <3>1 DEF Answered
  <2>7. CASE Forget
    BY <2>7 DEF Forget, Answered
  <2>8. CASE UNCHANGED vars
    BY <2>1, <2>8 DEF vars
  <2> QED
    BY <2>2, <2>3, <2>4, <2>5, <2>6, <2>7, <2>8 DEF AnalysisNext
<1> QED
  BY <1>1, <1>2, PTL DEF AnalysisSpec

\* Whatever rules are asked about: an accepted rule never says of a value what the rule with
\* the opposite comparison says (CustomRule in rules/src/custom.rs).
THEOREM OppositeRulesDiffer == AnalysisSpec => []OperandsDecide
<1>1. Answered => OperandsDecide
  <2> SUFFICES ASSUME Answered, NEW q \in About("custom"), NEW a \in answer
               PROVE  a # Holds([q.rule EXCEPT !.op = Opposite[q.rule.op]], q.reading)
    BY DEF OperandsDecide
  <2>1. q \in question /\ q.about = "custom"
    BY DEF About
  <2>2. CASE CustomAnswered
    <3>1. PICK rule \in CustomRulesAsked, reading \in Readings :
            /\ {reading.type} = MetricKind(rule.scope, rule.metric)
            /\ question = {[about |-> "custom", rule |-> rule, reading |-> reading]}
            /\ answer = IF AcceptsCustom(rule) THEN {Holds(rule, reading)} ELSE {}
      BY <2>2 DEF CustomAnswered
    <3>2. q.rule = rule /\ q.reading = reading
      BY <2>1, <3>1
    <3>3. AcceptsCustom(rule) /\ a = Holds(rule, reading)
      BY <3>1
    <3> QED
      BY <3>1, <3>2, <3>3, AcceptedDecides
  <2>3. ~ ProfileAnswered /\ ~ FlashesAnswered
    <3>1. ~ ProfileAnswered
      <4> SUFFICES ASSUME ProfileAnswered PROVE FALSE
        OBVIOUS
      <4>1. q = [about |-> "profile"]
        BY <2>1 DEF ProfileAnswered
      <4> QED
        BY <2>1, <4>1
    <3>2. ~ FlashesAnswered
      <4> SUFFICES ASSUME FlashesAnswered PROVE FALSE
        OBVIOUS
      <4>1. PICK times \in FlashTimes, limit \in FlashLimits :
              question = {[about |-> "flashes", times |-> times, limit |-> limit]}
        BY DEF FlashesAnswered
      <4>2. q.about = "flashes"
        BY <2>1, <4>1
      <4> QED
        BY <2>1, <4>2
    <3> QED
      BY <3>1, <3>2
  <2> QED
    BY <2>1, <2>2, <2>3 DEF Answered
<1> QED
  BY <1>1, AnsweredInvariance, PTL

\* Whatever profiles, user-defined rules and plugins are parsed: the build functions and the
\* table of the cache agree, and no id is there twice (build_rules, config_hash).
THEOREM RulesAreKeyed == AnalysisSpec => []EveryRuleHasItsKey
<1>1. Answered => EveryRuleHasItsKey
  <2> SUFFICES ASSUME Answered, About("profile") # {}, NEW run \in answer
               PROVE  /\ \A i, j \in DOMAIN run : run[i].id = run[j].id => i = j
                      /\ \A i \in DOMAIN run : run[i].id[1] \in ReservedPrefixes => run[i].hash # {}
    BY DEF EveryRuleHasItsKey
  <2>1. PICK q \in question : q.about = "profile"
    BY DEF About
  <2>2. CASE ProfileAnswered
    <3>1. PICK doc \in Documents, custom \in CustomLists, plugins \in PluginLists :
            answer = IF AcceptsCustomList(custom) /\ AcceptsPlugins(plugins)
                     THEN {KeyedRules(p, custom, plugins) : p \in ParseProfile(doc)} ELSE {}
      BY <2>2 DEF ProfileAnswered
    <3>2. AcceptsCustomList(custom) /\ AcceptsPlugins(plugins)
      BY <3>1
    <3>3. PICK p \in ParseProfile(doc) : run = KeyedRules(p, custom, plugins)
      BY <3>1, <3>2
    <3>4. IsList(custom) /\ IsList(plugins)
      BY AnalysisAssumption
    <3> DEFINE built == BuildRules(p, custom) \o plugins
               ids == RuleIds(p, custom) \cup Range(plugins)
    <3>5. /\ Distinct(built) /\ built \in Seq(ids)
          /\ \A id \in ids : id[1] \in ReservedPrefixes => ConfigHash(p, custom, id) # {}
      BY <3>2, <3>4, AllRulesKeyed
    <3>6. run = [i \in DOMAIN built |-> [id |-> built[i], hash |-> ConfigHash(p, custom, built[i])]]
      BY <3>3 DEF KeyedRules
    <3> HIDE DEF built, ids
    <3>7. DOMAIN built = 1 .. Len(built) /\ \A i \in DOMAIN built : built[i] \in ids
      BY <3>5
    <3>8. /\ DOMAIN run = DOMAIN built
          /\ \A i \in DOMAIN run : run[i].id = built[i] /\ run[i].hash = ConfigHash(p, custom, built[i])
      BY <3>6
    <3> QED
      BY <3>5, <3>7, <3>8 DEF Distinct
  <2>3. ~ CustomAnswered /\ ~ FlashesAnswered
    <3>1. ~ CustomAnswered
      <4> SUFFICES ASSUME CustomAnswered PROVE FALSE
        OBVIOUS
      <4>1. PICK rule \in CustomRulesAsked, reading \in Readings :
              question = {[about |-> "custom", rule |-> rule, reading |-> reading]}
        BY DEF CustomAnswered
      <4>2. q.about = "custom"
        BY <2>1, <4>1
      <4> QED
        BY <2>1, <4>2
    <3>2. ~ FlashesAnswered
      <4> SUFFICES ASSUME FlashesAnswered PROVE FALSE
        OBVIOUS
      <4>1. PICK times \in FlashTimes, limit \in FlashLimits :
              question = {[about |-> "flashes", times |-> times, limit |-> limit]}
        BY DEF FlashesAnswered
      <4>2. q.about = "flashes"
        BY <2>1, <4>1
      <4> QED
        BY <2>1, <4>2
    <3> QED
      BY <3>1, <3>2
  <2> QED
    BY <2>1, <2>2, <2>3 DEF Answered
<1> QED
  BY <1>1, AnsweredInvariance, PTL

-----------------------------------------------------------------------------
(* Lists of measurements.                                                  *)

\* A sequence is a list of its own elements.
LEMMA SequenceIsList ==
  ASSUME NEW Q, NEW q \in Seq(Q)
  PROVE  IsList(q) /\ Range(q) = {q[i] : i \in 1 .. Len(q)}
BY DEF IsList, Range

\* Two lists in a row have the elements of both.
LEMMA JoinedLists ==
  ASSUME NEW x, NEW y, IsList(x), IsList(y)
  PROVE  IsList(x \o y) /\ Range(x \o y) = Range(x) \cup Range(y)
<1> DEFINE z == x \o y
           n == Len(x)
           l == Len(y)
<1>1. x \in Seq(Range(x)) /\ y \in Seq(Range(y))
  BY DEF IsList
<1>2. /\ z \in Seq(Range(x) \cup Range(y)) /\ n \in Nat /\ l \in Nat /\ Len(z) = n + l
      /\ \A i \in 1 .. n : z[i] = x[i]
      /\ \A i \in 1 .. l : z[n + i] = y[i]
  BY <1>1
<1>3. Range(x) = {x[i] : i \in 1 .. n} /\ Range(y) = {y[i] : i \in 1 .. l}
  BY <1>1, SequenceIsList
<1>4. IsList(z) /\ Range(z) = {z[i] : i \in 1 .. n + l}
  BY <1>2, SequenceIsList
<1> HIDE DEF z, n, l
<1>5. ASSUME NEW e \in Range(x) \cup Range(y) PROVE e \in Range(z)
  <2>1. CASE e \in Range(x)
    <3>1. PICK i \in 1 .. n : e = x[i]
      BY <1>3, <2>1
    <3>2. i \in 1 .. n + l /\ e = z[i]
      BY <1>2, <3>1
    <3> QED
      BY <1>4, <3>2
  <2>2. CASE e \in Range(y)
    <3>1. PICK i \in 1 .. l : e = y[i]
      BY <1>3, <2>2
    <3>2. n + i \in 1 .. n + l /\ e = z[n + i]
      BY <1>2, <3>1
    <3> QED
      BY <1>4, <3>2
  <2> QED
    BY <2>1, <2>2
<1>6. Range(z) \subseteq Range(x) \cup Range(y)
  BY <1>2, <1>4
<1> QED
  BY <1>4, <1>5, <1>6 DEF z

\* A longer list has one element more.
LEMMA LongerList ==
  ASSUME NEW q, NEW e, IsList(q)
  PROVE  IsList(Append(q, e)) /\ Range(Append(q, e)) = Range(q) \cup {e}
<1> DEFINE z == Append(q, e)
           n == Len(q)
<1>1. q \in Seq(Range(q))
  BY DEF IsList
<1>2. /\ z \in Seq(Range(q) \cup {e}) /\ n \in Nat /\ Len(z) = n + 1
      /\ \A i \in 1 .. n : z[i] = q[i]
      /\ z[n + 1] = e
  BY <1>1
<1>3. Range(q) = {q[i] : i \in 1 .. n}
  BY <1>1, SequenceIsList
<1>4. IsList(z) /\ Range(z) = {z[i] : i \in 1 .. n + 1}
  BY <1>2, SequenceIsList
<1> HIDE DEF z, n
<1>5. Range(q) \subseteq Range(z)
  <2> SUFFICES ASSUME NEW v \in Range(q) PROVE v \in Range(z)
    OBVIOUS
  <2>1. PICK i \in 1 .. n : v = q[i]
    BY <1>3
  <2>2. i \in 1 .. n + 1 /\ v = z[i]
    BY <1>2, <2>1
  <2> QED
    BY <1>4, <2>2
<1>6. e \in Range(z)
  <2>1. n + 1 \in 1 .. n + 1
    BY <1>2
  <2> QED
    BY <1>2, <1>4, <2>1
<1>7. Range(z) \subseteq Range(q) \cup {e}
  BY <1>2, <1>4
<1> QED
  BY <1>4, <1>5, <1>6, <1>7 DEF z

\* Sorting keeps the elements.
LEMMA SortedList ==
  ASSUME NEW q, IsList(q)
  PROVE  IsList(ByStream(q)) /\ Range(ByStream(q)) = Range(q)
<1> DEFINE s == ByStream(q)
<1>1. q \in Seq(Range(q))
  BY DEF IsList
<1>2. /\ s \in Seq(Range(q))
      /\ \A k \in 1 .. Len(s) : \E i \in 1 .. Len(q) : s[k] = q[i]
      /\ \A i \in 1 .. Len(q) : \E k \in 1 .. Len(s) : s[k] = q[i]
  BY <1>1, ByStreamKeeps
<1>3. Range(q) = {q[i] : i \in 1 .. Len(q)}
  BY <1>1, SequenceIsList
<1> HIDE DEF s
<1>4. IsList(s) /\ Range(s) = {s[i] : i \in 1 .. Len(s)}
  BY <1>2, SequenceIsList
<1>5. Range(s) = Range(q)
  BY <1>2, <1>3, <1>4
<1> QED
  BY <1>4, <1>5 DEF s

\* Without drops the measurements of the streams, and no others.
LEMMA WithoutStreams ==
  ASSUME NEW q, NEW S, IsList(q)
  PROVE  IsList(Without(q, S)) /\ Range(Without(q, S)) = {m \in Range(q) : m.stream \notin S}
<1> DEFINE I == {i \in DOMAIN q : q[i].stream \notin S}
           s == Only(q, I)
<1>1. q \in Seq(Range(q)) /\ DOMAIN q = 1 .. Len(q)
  BY DEF IsList
<1>2. I \in SUBSET (1 .. Len(q))
  BY <1>1
<1>3. /\ s \in Seq(Range(q))
      /\ \A k \in 1 .. Len(s) : \E i \in I : s[k] = q[i]
      /\ \A i \in I : \E k \in 1 .. Len(s) : s[k] = q[i]
  <2> HIDE DEF I
  <2> QED
    BY <1>1, <1>2, OnlyPicks
<1>4. {q[i] : i \in I} = {m \in Range(q) : m.stream \notin S}
  BY <1>1 DEF Range
<1>5. Without(q, S) = s
  BY DEF Without
<1> HIDE DEF s, I
<1>6. IsList(s) /\ Range(s) = {s[i] : i \in 1 .. Len(s)}
  BY <1>3, SequenceIsList
<1>7. Range(s) = {q[i] : i \in I}
  BY <1>3, <1>6
<1> QED
  BY <1>4, <1>5, <1>6, <1>7

-----------------------------------------------------------------------------
(* Measurements without a decode.                                          *)

VideoFields == {"stream", "frames", "errors", "dead", "perceptual"}
AudioFields == {"stream", "frames", "errors"}

\* Nothing was measured of the frames.
BlankVideo(m) == m.frames \subseteq {0} /\ m.dead = {} /\ m.perceptual = {}
BlankAudio(m) == m.frames \subseteq {0}

VideoList(q) == IsList(q) /\ \A m \in Range(q) : VideoFields \subseteq DOMAIN m
AudioList(q) == IsList(q) /\ \A m \in Range(q) : AudioFields \subseteq DOMAIN m /\ m.stream \in Nat

\* What every step of the inspection changes or keeps.
InspectionFields == {"streams", "container", "video", "audio", "subtitle", "voice"}

\* The metadata pass measures no frame.
LEMMA MetadataIsBlank ==
  ASSUME NEW f \in Files, InspectFile(f) # {}
  PROVE  /\ InspectionFields \subseteq DOMAIN Metadata(f)
         /\ VideoList(Metadata(f).video) /\ \A m \in Range(Metadata(f).video) : BlankVideo(m)
         /\ AudioList(Metadata(f).audio) /\ \A m \in Range(Metadata(f).audio) : BlankAudio(m)
<1>1. Metadata(f) \in InspectFile(f)
  BY DEF Metadata
<1>2. PICK c \in ProbeFile(f) : Metadata(f) = BuildInspection(c, f.length)
  BY <1>1 DEF InspectFile
<1>3. IsList(c.streams) /\ \A i \in DOMAIN c.streams : "index" \in DOMAIN c.streams[i]
  BY InspectAssumption
<1> DEFINE streams == NumberedStreams(c)
           of(kind) == OfKind(streams, kind)
           videos == BlankVideos(of("video"))
           audios == BlankAudios(of("audio"))
<1>4. InspectionFields \subseteq DOMAIN Metadata(f) /\ Metadata(f).video = videos /\ Metadata(f).audio = audios
  BY <1>2 DEF BuildInspection, InspectionFields
<1>5. /\ IsList(streams) /\ streams \in Seq(Range(streams)) /\ DOMAIN streams = 1 .. Len(streams)
      /\ \A i \in DOMAIN streams : streams[i].index \in Nat
  <2>1. c.streams \in Seq(Range(c.streams)) /\ DOMAIN c.streams = 1 .. Len(c.streams) /\ Len(c.streams) \in Nat
    BY <1>3 DEF IsList
  <2>2. \A i \in DOMAIN streams : streams[i].index = i - 1
    BY <1>3 DEF NumberedStreams
  <2>3. DOMAIN streams = 1 .. Len(c.streams) /\ \A i \in 1 .. Len(c.streams) : streams[i] \in Range(streams)
    BY <2>1 DEF Range, NumberedStreams
  <2>4. streams = [i \in 1 .. Len(c.streams) |-> streams[i]]
    BY <2>1 DEF NumberedStreams
  <2> HIDE DEF streams
  <2>5. streams \in Seq(Range(streams)) /\ Len(streams) = Len(c.streams)
    BY <2>1, <2>3, <2>4
  <2> QED
    BY <2>1, <2>2, <2>3, <2>5 DEF IsList
<1> HIDE DEF streams
<1>6. ASSUME NEW kind
      PROVE  /\ of(kind) \in Seq(Range(streams))
             /\ \A k \in DOMAIN of(kind) : of(kind)[k].index \in Nat
  <2> DEFINE I == {i \in DOMAIN streams : streams[i].kind = kind}
  <2>1. I \in SUBSET (1 .. Len(streams))
    BY <1>5
  <2>2. /\ Only(streams, I) \in Seq(Range(streams))
        /\ \A k \in 1 .. Len(Only(streams, I)) : \E i \in I : Only(streams, I)[k] = streams[i]
    <3> HIDE DEF I
    <3> QED
      BY <1>5, <2>1, OnlyPicks
  <2>3. \A i \in I : streams[i].index \in Nat
    BY <1>5
  <2>4. of(kind) = Only(streams, I)
    BY DEF OfKind
  <2> HIDE DEF I, of
  <2> QED
    BY <2>2, <2>3, <2>4
<1> HIDE DEF of
<1>7. VideoList(videos) /\ \A m \in Range(videos) : BlankVideo(m)
  <2>1. \A i \in DOMAIN videos : VideoFields \subseteq DOMAIN videos[i] /\ BlankVideo(videos[i])
    BY DEF BlankVideos, NoVideoMeasure, VideoFields, BlankVideo
  <2>2. DOMAIN videos = 1 .. Len(of("video")) /\ Len(of("video")) \in Nat
    BY <1>6 DEF BlankVideos
  <2>3. IsList(videos)
    <3>1. \A i \in 1 .. Len(of("video")) : videos[i] \in Range(videos)
      BY <2>2 DEF Range
    <3>2. videos = [i \in 1 .. Len(of("video")) |-> videos[i]]
      BY <2>2 DEF BlankVideos
    <3> HIDE DEF videos
    <3> QED
      BY <2>2, <3>1, <3>2 DEF IsList
  <2> HIDE DEF videos
  <2> QED
    BY <2>1, <2>3 DEF VideoList, Range
<1>8. AudioList(audios) /\ \A m \in Range(audios) : BlankAudio(m)
  <2>1. \A i \in DOMAIN audios : AudioFields \subseteq DOMAIN audios[i] /\ BlankAudio(audios[i])
                                 /\ audios[i].stream \in Nat
    BY <1>6 DEF BlankAudios, NoAudioMeasure, AudioFields, BlankAudio
  <2>2. DOMAIN audios = 1 .. Len(of("audio")) /\ Len(of("audio")) \in Nat
    BY <1>6 DEF BlankAudios
  <2>3. IsList(audios)
    <3>1. \A i \in 1 .. Len(of("audio")) : audios[i] \in Range(audios)
      BY <2>2 DEF Range
    <3>2. audios = [i \in 1 .. Len(of("audio")) |-> audios[i]]
      BY <2>2 DEF BlankAudios
    <3> HIDE DEF audios
    <3> QED
      BY <2>2, <3>1, <3>2 DEF IsList
  <2> HIDE DEF audios
  <2> QED
    BY <2>1, <2>3 DEF AudioList, Range
<1> QED
  BY <1>4, <1>7, <1>8

\* The measurements of the stream of a rule are among those of the inspection.
LEMMA MeasuredStream ==
  ASSUME NEW list, NEW ctx, NEW kind, NEW m \in MeasuredFor(list, ctx, kind)
  PROVE  m \in Range(list) /\ \E s \in PrimaryStream(ctx, kind) : s.index = m.stream
BY DEF MeasuredFor, Range

\* The rules about frames do not pass on blank measurements.
LEMMA BlankVideoNeverPasses ==
  ASSUME NEW ctx, \A m \in VideoMeasurement(ctx) : BlankVideo(m),
         NEW name \in Range(VideoBuild), VideoDecodeNeed(name) # "none", NEW cfg
  PROVE  ~ IsPass(VideoRule(name, cfg, ctx))
<1>1. ~ VideoDecoded(ctx)
  BY DEF VideoDecoded, BlankVideo, Frames
<1>2. UNION {m.dead : m \in VideoMeasurement(ctx)} = {}
  BY DEF BlankVideo
<1>3. Perceptual(ctx) = {}
  BY DEF BlankVideo, Perceptual
<1>4. ~ IsPass(Inconclusive)
  BY DEF IsPass, Inconclusive, Info
<1>5. /\ BlackFrames(cfg, ctx) = Inconclusive /\ FreezeFrames(cfg, ctx) = Inconclusive
      /\ DuplicateFrames(cfg, ctx) = Inconclusive /\ CorruptFrames(cfg, ctx) = Inconclusive
      /\ LumaRange(cfg, ctx) = Inconclusive /\ Photosensitivity(cfg, ctx) = Inconclusive
  BY <1>1 DEF BlackFrames, FreezeFrames, DuplicateFrames, CorruptFrames, LumaRange, Photosensitivity, SegmentRule, Needs
<1>6. DeadPixels(cfg, ctx) = Inconclusive
  BY <1>2 DEF DeadPixels, Needs
<1>7. /\ Blockiness(cfg, ctx) = Inconclusive /\ Blur(cfg, ctx) = Inconclusive
      /\ Noise(cfg, ctx) = Inconclusive
  BY <1>3 DEF Blockiness, Blur, Noise, Needs
<1>8. name \in {"black_frames", "freeze_frames", "duplicate_frames", "corrupt_frames", "luma_range",
                "photosensitivity", "dead_pixels", "blockiness", "blur", "noise"}
  BY DEF VideoBuild, Range, VideoDecodeNeed
<1> QED
  BY <1>4, <1>5, <1>6, <1>7, <1>8 DEF VideoRule

\* Nor do the rules about samples.
LEMMA BlankAudioNeverPasses ==
  ASSUME NEW ctx, \A m \in MeasuredFor(ctx.audio, ctx, "audio") : BlankAudio(m),
         NEW name \in Range(AudioBuild), AudioDecodeNeed(name) # "none", NEW cfg
  PROVE  ~ IsPass(AudioRule(name, cfg, ctx))
<1>1. AudioMeasurement(ctx) = {}
  BY DEF AudioMeasurement, BlankAudio, Frames
<1>2. ~ IsPass(Inconclusive)
  BY DEF IsPass, Inconclusive, Info
<1>3. /\ Silence(cfg, ctx) = Inconclusive /\ Clipping(cfg, ctx) = Inconclusive
      /\ Peak(cfg, ctx) = Inconclusive /\ TruePeak(cfg, ctx) = Inconclusive
      /\ Loudness(cfg, ctx) = Inconclusive /\ Phase(cfg, ctx) = Inconclusive
      /\ DcOffset(cfg, ctx) = Inconclusive
  BY <1>1 DEF Silence, Clipping, Peak, TruePeak, DbRule, Loudness, Phase, DcOffset, Needs
<1>4. name \in {"silence", "clipping", "peak", "true_peak", "loudness", "phase", "dc_offset"}
  BY DEF AudioBuild, Range, AudioDecodeNeed
<1> QED
  BY <1>2, <1>3, <1>4 DEF AudioRule

\* Given up, the video measurements say so.
LEMMA GivenUpVideo ==
  ASSUME NEW q, NEW failed, VideoList(q), \A m \in Range(q) : BlankVideo(m)
  PROVE  /\ VideoList(IncompleteVideo(q, failed))
         /\ \A m \in Range(IncompleteVideo(q, failed)) : BlankVideo(m)
<1> DEFINE r == IncompleteVideo(q, failed)
<1>1. q \in Seq(Range(q)) /\ DOMAIN q = 1 .. Len(q) /\ Len(q) \in Nat
  BY DEF VideoList, IsList
<1>2. ASSUME NEW i \in DOMAIN q PROVE VideoFields \subseteq DOMAIN r[i] /\ BlankVideo(r[i])
  <2>1. VideoFields \subseteq DOMAIN q[i] /\ BlankVideo(q[i])
    BY DEF VideoList, Range
  <2>2. r[i] = [q[i] EXCEPT !.frames = {0}, !.errors = IF failed THEN @ + 1 ELSE @]
    BY DEF IncompleteVideo
  <2> HIDE DEF r
  <2> QED
    BY <2>1, <2>2 DEF VideoFields, BlankVideo
<1>3. DOMAIN r = 1 .. Len(q) /\ r = [i \in 1 .. Len(q) |-> r[i]]
  BY <1>1 DEF IncompleteVideo
<1> HIDE DEF r
<1>4. IsList(r)
  BY <1>1, <1>3 DEF IsList, Range
<1>5. VideoList(r) /\ \A m \in Range(r) : BlankVideo(m)
  BY <1>1, <1>2, <1>3, <1>4 DEF VideoList, Range
<1> QED
  BY <1>5 DEF r

\* Given up, the audio measurements have no frames, and the same streams.
LEMMA GivenUpAudio ==
  ASSUME NEW q, NEW failed, NEW first, AudioList(q), \A m \in Range(q) : BlankAudio(m)
  PROVE  /\ AudioList(IncompleteAudio(q, first, failed))
         /\ \A m \in Range(IncompleteAudio(q, first, failed)) : BlankAudio(m)
         /\ {m.stream : m \in Range(IncompleteAudio(q, first, failed))} = {m.stream : m \in Range(q)}
<1> DEFINE r == IncompleteAudio(q, first, failed)
<1>1. q \in Seq(Range(q)) /\ DOMAIN q = 1 .. Len(q) /\ Len(q) \in Nat
  BY DEF AudioList, IsList
<1>2. ASSUME NEW i \in DOMAIN q
      PROVE  AudioFields \subseteq DOMAIN r[i] /\ BlankAudio(r[i]) /\ r[i].stream \in Nat /\ r[i].stream = q[i].stream
  <2>1. AudioFields \subseteq DOMAIN q[i] /\ BlankAudio(q[i]) /\ q[i].stream \in Nat
    BY DEF AudioList, Range
  <2>2. r[i] = q[i] \/ r[i] = [q[i] EXCEPT !.frames = {0}, !.errors = @ + 1]
    BY DEF IncompleteAudio
  <2> HIDE DEF r
  <2> QED
    BY <2>1, <2>2 DEF AudioFields, BlankAudio
<1>3. DOMAIN r = 1 .. Len(q) /\ r = [i \in 1 .. Len(q) |-> r[i]]
  BY <1>1 DEF IncompleteAudio
<1> HIDE DEF r
<1>4. IsList(r)
  BY <1>1, <1>3 DEF IsList, Range
<1>5. AudioList(r) /\ \A m \in Range(r) : BlankAudio(m)
  BY <1>1, <1>2, <1>3, <1>4 DEF AudioList, Range
<1>6. {m.stream : m \in Range(r)} = {r[i].stream : i \in 1 .. Len(q)}
  BY <1>3 DEF Range
<1>7. {m.stream : m \in Range(q)} = {q[i].stream : i \in 1 .. Len(q)}
  BY <1>1 DEF Range
<1>8. {r[i].stream : i \in 1 .. Len(q)} = {q[i].stream : i \in 1 .. Len(q)}
  BY <1>1, <1>2
<1> QED
  BY <1>5, <1>6, <1>7, <1>8 DEF r

\* The first audio stream is one of the audio streams.
LEMMA FirstOfStreams ==
  ASSUME NEW q, AudioList(q), q # <<>>
  PROVE  Bottom({q[i].stream : i \in DOMAIN q}) \in {m.stream : m \in Range(q)}
<1> DEFINE S == {q[i].stream : i \in DOMAIN q}
<1>1. q \in Seq(Range(q)) /\ DOMAIN q = 1 .. Len(q) /\ Len(q) \in Nat
  BY DEF AudioList, IsList
<1>2. 1 \in DOMAIN q
  BY <1>1
<1>3. S \in SUBSET Nat /\ S # {}
  BY <1>2 DEF AudioList, Range
<1>4. S = {m.stream : m \in Range(q)}
  BY DEF Range
<1> HIDE DEF S
<1>5. \E n \in S : \A m \in S : n <= m
  BY <1>3, LeastNumber
<1>6. Bottom(S) \in S
  BY <1>5 DEF Bottom
<1> QED
  BY <1>4, <1>6 DEF S

\* A pushed frame is counted.
LEMMA PushCounts ==
  ASSUME NEW a, NEW frame, "count" \in DOMAIN a
  PROVE  "count" \in DOMAIN AnalyzerPush(a, frame) /\ AnalyzerPush(a, frame).count = a.count + 1
BY DEF AnalyzerPush

-----------------------------------------------------------------------------
(* The inspection.                                                         *)

\* The stages in which a file is read, those before a frame is measured and those of the
\* decode, and those after the sound.
BeforeFrames == {"video", "packets", "flush", "finish"}
BeforeSound  == BeforeFrames \cup {"audio", "samples"}
AfterSound   == {"voice", "rules", "judged"}
Opened       == BeforeSound \cup AfterSound

StreamsIn(q) == {m.stream : m \in Range(q)}

\* The source is a track of the file, under the stream that it counts for.
Chosen == \E c \in ChooseTrack(TheFile, Found.streams) :
            /\ source.stream = c.stream /\ source.track = c.track
            /\ source.expected = TheFile.tracks[c.track].samples

\* The streams stay as the metadata pass found them, and every one its measurements.
Reading ==
  stage \in Opened =>
    /\ TheFile \in Files /\ InspectFile(TheFile) # {}
    /\ InspectionFields \subseteq DOMAIN Found /\ Found.streams = Metadata(TheFile).streams
    /\ VideoList(Found.video) /\ AudioList(Found.audio)
    /\ StreamsIn(Found.audio) = StreamsIn(Metadata(TheFile).audio)

\* The analyzer counts the frames that it got, of the chosen track; after the packets all that
\* the container promised were read.
Counted ==
  /\ stage \in {"idle", "video"} => shown = <<>>
  /\ stage \in {"packets", "flush", "finish"} =>
       /\ Chosen /\ IsList(shown)
       /\ \A a \in analyzer : "count" \in DOMAIN a /\ a.count = Len(shown)
  /\ stage \in {"flush", "finish"} => EnoughPackets(seen)

\* Only the measurements of a complete decode of the chosen track are of frames.
VideoMeasured ==
  stage \in Opened =>
    \A m \in Range(Found.video) :
      BlankVideo(m) \/ /\ stage \notin BeforeFrames /\ m.stream = source.stream /\ shown # <<>>
                       /\ Chosen /\ EnoughPackets(seen)

\* Only those of the first stream are of samples.
AudioMeasured ==
  /\ stage \in Opened =>
       \A m \in Range(Found.audio) :
         BlankAudio(m) \/ (stage \in AfterSound /\ m.stream = FirstAudio /\ heard # <<>>)
  /\ stage = "samples" => Found.audio # <<>>

Inspected ==
  /\ stage \in Opened \cup {"idle", "failed"}
  /\ Reading /\ Counted /\ VideoMeasured /\ AudioMeasured

\* The results are those of a profile on what was found.
JudgedByRules == Judged => \E profile \in Profiles : results = RunRules(profile)

\* The first audio stream depends on the streams that were found only.
LEMMA FirstAudioOf == FirstAudio = Bottom(StreamsIn(Found.audio))
BY DEF FirstAudio, StreamsIn, Range

\* Nothing but the file and what was found decides what they are.
LEMMA SameFile ==
  /\ file' = file => TheFile' = TheFile
  /\ inspection' = inspection => Found' = Found
  /\ \A f : file' = {f} => TheFile' = f
  /\ \A i : inspection' = {i} => Found' = i
BY DEF TheFile, Found

\* The step that gives up the video keeps the invariant.
LEMMA VideoGivenUp ==
  ASSUME Inspected, stage \in BeforeFrames, NEW failed \in BOOLEAN, GiveUpVideo(failed)
  PROVE  Inspected' /\ stage' = "audio"
<1> DEFINE g == [Found EXCEPT !.video = IncompleteVideo(@, failed)]
<1>1. stage' = "audio" /\ Found' = g /\ TheFile' = TheFile
  BY SameFile DEF GiveUpVideo
<1>2. stage \in Opened /\ stage \notin AfterSound
  BY DEF Opened, BeforeSound, BeforeFrames, AfterSound
<1>3. /\ TheFile \in Files /\ InspectFile(TheFile) # {}
      /\ InspectionFields \subseteq DOMAIN Found /\ Found.streams = Metadata(TheFile).streams
      /\ VideoList(Found.video) /\ AudioList(Found.audio)
      /\ StreamsIn(Found.audio) = StreamsIn(Metadata(TheFile).audio)
      /\ \A m \in Range(Found.video) : BlankVideo(m)
      /\ \A m \in Range(Found.audio) : BlankAudio(m)
  BY <1>2 DEF Inspected, Reading, VideoMeasured, AudioMeasured
<1>4. /\ InspectionFields \subseteq DOMAIN g /\ g.streams = Found.streams /\ g.audio = Found.audio
      /\ g.video = IncompleteVideo(Found.video, failed)
  BY <1>3 DEF InspectionFields
<1>5. VideoList(g.video) /\ \A m \in Range(g.video) : BlankVideo(m)
  BY <1>3, <1>4, GivenUpVideo
<1> HIDE DEF g
<1>6. Reading'
  BY <1>1, <1>3, <1>4, <1>5 DEF Reading
<1>7. Counted'
  BY <1>1 DEF Counted
<1>8. VideoMeasured'
  BY <1>1, <1>5 DEF VideoMeasured
<1>9. AudioMeasured'
  BY <1>1, <1>3, <1>4 DEF AudioMeasured
<1>10. stage' \in Opened \cup {"idle", "failed"}
  BY <1>1 DEF Opened, BeforeSound
<1> QED
  BY <1>1, <1>6, <1>7, <1>8, <1>9, <1>10 DEF Inspected

\* So does the step that gives up the sound.
LEMMA AudioGivenUp ==
  ASSUME Inspected, stage \in {"audio", "samples"}, NEW failed \in BOOLEAN, GiveUpAudio(failed)
  PROVE  Inspected' /\ stage' = "voice"
<1> DEFINE g == [Found EXCEPT !.audio = IncompleteAudio(@, FirstAudio, failed)]
<1>1. /\ stage' = "voice" /\ Found' = g /\ TheFile' = TheFile
      /\ source' = source /\ shown' = shown /\ seen' = seen
  BY SameFile DEF GiveUpAudio
<1>2. stage \in Opened /\ stage \notin AfterSound
  BY DEF Opened, BeforeSound, BeforeFrames, AfterSound
<1>3. /\ TheFile \in Files /\ InspectFile(TheFile) # {}
      /\ InspectionFields \subseteq DOMAIN Found /\ Found.streams = Metadata(TheFile).streams
      /\ VideoList(Found.video) /\ AudioList(Found.audio)
      /\ StreamsIn(Found.audio) = StreamsIn(Metadata(TheFile).audio)
      /\ \A m \in Range(Found.audio) : BlankAudio(m)
  <2>1. Reading /\ AudioMeasured
    BY DEF Inspected
  <2> QED
    BY <1>2, <2>1 DEF Reading, AudioMeasured
<1>4. /\ InspectionFields \subseteq DOMAIN g /\ g.streams = Found.streams /\ g.video = Found.video
      /\ g.audio = IncompleteAudio(Found.audio, FirstAudio, failed)
  BY <1>3 DEF InspectionFields
<1>5. /\ AudioList(g.audio) /\ \A m \in Range(g.audio) : BlankAudio(m)
      /\ StreamsIn(g.audio) = StreamsIn(Found.audio)
  <2> DEFINE q == IncompleteAudio(Found.audio, FirstAudio, failed)
  <2>1. /\ AudioList(q) /\ \A m \in Range(q) : BlankAudio(m)
        /\ {m.stream : m \in Range(q)} = {m.stream : m \in Range(Found.audio)}
    BY <1>3, GivenUpAudio
  <2> HIDE DEF q
  <2>2. g.audio = q
    BY <1>4 DEF q
  <2> HIDE DEF g
  <2> QED
    BY <2>1, <2>2 DEF StreamsIn
<1> HIDE DEF g
<1>6. Reading'
  BY <1>1, <1>3, <1>4, <1>5 DEF Reading
<1>7. Counted'
  BY <1>1 DEF Counted
<1>8. VideoMeasured'
  <2>1. \A m \in Range(Found.video) :
          BlankVideo(m) \/ (m.stream = source.stream /\ shown # <<>> /\ Chosen /\ EnoughPackets(seen))
    BY <1>2 DEF Inspected, VideoMeasured
  <2>2. Chosen' = Chosen /\ EnoughPackets(seen)' = EnoughPackets(seen)
    BY <1>1, <1>4 DEF Chosen, EnoughPackets
  <2>3. stage' \notin BeforeFrames
    BY <1>1 DEF BeforeFrames
  <2> QED
    BY <1>1, <1>4, <2>1, <2>2, <2>3 DEF VideoMeasured
<1>9. AudioMeasured'
  BY <1>1, <1>5 DEF AudioMeasured
<1>10. stage' \in Opened \cup {"idle", "failed"}
  BY <1>1 DEF Opened, AfterSound
<1> QED
  BY <1>1, <1>6, <1>7, <1>8, <1>9, <1>10 DEF Inspected

\* A step before the frames are measured that leaves what was found.
LEMMA FramesStep ==
  ASSUME Inspected, stage \in BeforeFrames, stage' \in BeforeFrames, file' = file, inspection' = inspection, Counted'
  PROVE  Inspected'
<1>1. Found' = Found /\ TheFile' = TheFile
  BY SameFile
<1>2. stage \in Opened /\ stage' \in Opened /\ stage \notin AfterSound /\ stage' # "samples"
  BY DEF Opened, BeforeSound, BeforeFrames, AfterSound
<1>3. /\ Reading /\ \A m \in Range(Found.video) : BlankVideo(m)
      /\ \A m \in Range(Found.audio) : BlankAudio(m)
  BY <1>2 DEF Inspected, VideoMeasured, AudioMeasured
<1>4. Reading'
  BY <1>1, <1>2, <1>3 DEF Reading
<1>5. VideoMeasured' /\ AudioMeasured'
  BY <1>1, <1>2, <1>3 DEF VideoMeasured, AudioMeasured
<1> QED
  BY <1>2, <1>4, <1>5 DEF Inspected

\* A step to a later stage that leaves what was found.
LEMMA LaterStep ==
  ASSUME Inspected, stage \in Opened, stage' \in {"audio", "samples"} \cup AfterSound,
         file' = file, inspection' = inspection, source' = source, seen' = seen, shown' = shown,
         stage \in AfterSound => stage' \in AfterSound /\ heard' = heard,
         stage' = "samples" => Found.audio # <<>>
  PROVE  Inspected'
<1>1. Found' = Found /\ TheFile' = TheFile
  BY SameFile
<1>2. /\ stage' \in Opened /\ stage' \notin BeforeFrames
      /\ stage' \notin {"idle", "video", "packets", "flush", "finish"}
  BY DEF Opened, BeforeSound, BeforeFrames, AfterSound
<1>3. Reading'
  BY <1>1, <1>2 DEF Inspected, Reading
<1>4. Counted'
  BY <1>2 DEF Counted
<1>5. VideoMeasured'
  <2>1. \A m \in Range(Found.video) :
          BlankVideo(m) \/ (m.stream = source.stream /\ shown # <<>> /\ Chosen /\ EnoughPackets(seen))
    BY DEF Inspected, VideoMeasured
  <2>2. Chosen' = Chosen /\ EnoughPackets(seen)' = EnoughPackets(seen)
    BY <1>1 DEF Chosen, EnoughPackets
  <2> QED
    BY <1>1, <1>2, <2>1, <2>2 DEF VideoMeasured
<1>6. AudioMeasured'
  <2>1. FirstAudio' = FirstAudio
    BY <1>1, FirstAudioOf DEF FirstAudio
  <2>2. \A m \in Range(Found.audio) :
          BlankAudio(m) \/ (stage \in AfterSound /\ m.stream = FirstAudio /\ heard # <<>>)
    BY DEF Inspected, AudioMeasured
  <2> QED
    BY <1>1, <2>1, <2>2 DEF AudioMeasured
<1> QED
  BY <1>2, <1>3, <1>4, <1>5, <1>6 DEF Inspected

\* A frame that passes the analyzer is counted and shown.
LEMMA Pushed ==
  ASSUME NEW frame, Push(frame), IsList(shown),
         \A a \in analyzer : "count" \in DOMAIN a /\ a.count = Len(shown)
  PROVE  IsList(shown') /\ \A a \in analyzer' : "count" \in DOMAIN a /\ a.count = Len(shown')
<1> DEFINE entry(a) == [at |-> FrameTime(a, frame), for |-> FrameDuration(a, FrameTime(a, frame)), picture |-> frame]
<1>1. PICK a \in analyzer : analyzer' = {AnalyzerPush(a, frame)} /\ shown' = Append(shown, entry(a))
  BY DEF Push
<1> DEFINE e == entry(a)
<1> HIDE DEF entry
<1>2. "count" \in DOMAIN AnalyzerPush(a, frame) /\ AnalyzerPush(a, frame).count = Len(shown) + 1
  BY <1>1, PushCounts
<1>3. IsList(Append(shown, e))
  BY LongerList
<1>4. Len(Append(shown, e)) = Len(shown) + 1
  <2>1. shown \in Seq(Range(shown) \cup {e})
    BY DEF IsList
  <2> QED
    BY <2>1
<1> QED
  BY <1>1, <1>2, <1>3, <1>4

\* The metadata pass opens a file.
LEMMA OpenedByMetadata ==
  ASSUME Inspected, InspectMetadata
  PROVE  Inspected' /\ stage' # "judged"
<1>1. PICK f \in Files :
        /\ file' = {f}
        /\ inspection' = IF InspectFile(f) = {} THEN {} ELSE {Metadata(f)}
        /\ stage' = IF inspection' = {} THEN "failed" ELSE "video"
  BY DEF InspectMetadata
<1>2. CASE InspectFile(f) = {}
  <2>1. stage' = "failed"
    BY <1>1, <1>2
  <2>2. stage' \notin Opened /\ stage' \notin {"packets", "flush", "finish", "idle", "video", "samples"}
    BY <2>1 DEF Opened, BeforeSound, BeforeFrames, AfterSound
  <2> QED
    BY <2>1, <2>2 DEF Inspected, Reading, Counted, VideoMeasured, AudioMeasured
<1>3. CASE InspectFile(f) # {}
  <2>1. stage' = "video" /\ TheFile' = f /\ Found' = Metadata(f)
    BY <1>1, <1>3, SameFile
  <2>2. /\ InspectionFields \subseteq DOMAIN Metadata(f)
        /\ VideoList(Metadata(f).video) /\ \A m \in Range(Metadata(f).video) : BlankVideo(m)
        /\ AudioList(Metadata(f).audio) /\ \A m \in Range(Metadata(f).audio) : BlankAudio(m)
    BY <1>3, MetadataIsBlank
  <2>3. Reading'
    BY <1>3, <2>1, <2>2 DEF Reading
  <2>4. Counted'
    <3>1. stage = "idle" /\ shown' = shown
      BY DEF InspectMetadata
    <3> QED
      BY <2>1, <3>1 DEF Inspected, Counted
  <2>5. VideoMeasured' /\ AudioMeasured'
    BY <2>1, <2>2 DEF VideoMeasured, AudioMeasured
  <2>6. stage' \in Opened
    BY <2>1 DEF Opened, BeforeSound, BeforeFrames
  <2> QED
    BY <2>1, <2>3, <2>4, <2>5, <2>6 DEF Inspected
<1> QED
  BY <1>2, <1>3

\* Opening the video, or none.
LEMMA OpenedVideo ==
  ASSUME Inspected, OpenVideo
  PROVE  Inspected' /\ stage' # "judged"
<1>1. stage = "video" /\ stage \in BeforeFrames /\ stage \in Opened /\ stage \notin AfterSound /\ shown = <<>>
  BY DEF OpenVideo, Opened, BeforeSound, BeforeFrames, AfterSound, Inspected, Counted
<1> DEFINE chosen == ChooseTrack(TheFile, Found.streams)
           SourceOf(c) == [track |-> c.track, codec |-> TheFile.tracks[c.track].codec,
                           expected |-> TheFile.tracks[c.track].samples, stream |-> c.stream]
<1>2. CASE Found.video = <<>>
  <2>1. stage' = "audio" /\ UNCHANGED <<file, inspection, source, seen, held, analyzer, shown, ear, heard>>
    BY <1>2 DEF OpenVideo
  <2> QED
    BY <1>1, <2>1, LaterStep
<1>3. CASE GiveUpVideo(FALSE) \/ GiveUpVideo(TRUE)
  BY <1>1, <1>3, VideoGivenUp
<1>4. CASE \E c \in chosen :
             /\ stage' = "packets"
             /\ source' = SourceOf(c)
             /\ analyzer' = {NewAnalyzer(NominalRate(Found, c.stream))}
             /\ UNCHANGED <<file, inspection, seen, held, shown, ear, heard>>
  <2>1. PICK c \in chosen :
          /\ stage' = "packets"
          /\ source' = SourceOf(c)
          /\ analyzer' = {NewAnalyzer(NominalRate(Found, c.stream))}
          /\ UNCHANGED <<file, inspection, seen, held, shown, ear, heard>>
    BY <1>4
  <2>2. TheFile' = TheFile /\ Found' = Found
    BY <2>1, SameFile
  <2>3. source'.stream = c.stream /\ source'.track = c.track /\ source'.expected = TheFile.tracks[c.track].samples
    BY <2>1
  <2>4. Chosen'
    BY <2>2, <2>3 DEF Chosen
  <2>5. shown' = <<>> /\ IsList(<<>>) /\ Len(<<>>) = 0
    <3>1. <<>> \in Seq({})
      OBVIOUS
    <3> QED
      BY <1>1, <2>1, <3>1, SequenceIsList
  <2>6. \A a \in analyzer' : "count" \in DOMAIN a /\ a.count = 0
    BY <2>1 DEF NewAnalyzer
  <2>7. Counted'
    BY <2>1, <2>4, <2>5, <2>6 DEF Counted
  <2>8. stage' \in BeforeFrames
    BY <2>1 DEF BeforeFrames
  <2> QED
    BY <1>1, <2>1, <2>7, <2>8, FramesStep
<1>5. \/ Found.video = <<>> \/ GiveUpVideo(FALSE) \/ GiveUpVideo(TRUE)
      \/ \E c \in chosen :
             /\ stage' = "packets"
             /\ source' = SourceOf(c)
             /\ analyzer' = {NewAnalyzer(NominalRate(Found, c.stream))}
             /\ UNCHANGED <<file, inspection, seen, held, shown, ear, heard>>
  BY DEF OpenVideo
<1> QED
  BY <1>2, <1>3, <1>4, <1>5

\* A packet, with a frame or without.
LEMMA PacketRead ==
  ASSUME Inspected, ReadPacket \/ ReadSilentPacket
  PROVE  Inspected' /\ stage' # "judged"
<1>1. /\ stage = "packets" /\ file' = file /\ inspection' = inspection /\ source' = source /\ seen' = seen + 1
      /\ stage' = IF source.expected # {} /\ EnoughPackets(seen + 1) THEN "flush" ELSE "packets"
  BY DEF ReadPacket, ReadSilentPacket
<1>2. stage \in BeforeFrames /\ stage' \in BeforeFrames /\ stage' \in {"packets", "flush"}
  BY <1>1 DEF BeforeFrames
<1>3. Chosen /\ IsList(shown) /\ \A a \in analyzer : "count" \in DOMAIN a /\ a.count = Len(shown)
  BY <1>1 DEF Inspected, Counted
<1>4. IsList(shown)' /\ \A a \in analyzer' : "count" \in DOMAIN a /\ a.count = Len(shown')
  <2>1. \/ \E frame : Push(frame)
        \/ analyzer' = analyzer /\ shown' = shown
    BY DEF ReadPacket, ReadSilentPacket
  <2>2. CASE \E frame : Push(frame)
    BY <1>3, <2>2, Pushed
  <2>3. CASE analyzer' = analyzer /\ shown' = shown
    BY <1>3, <2>3
  <2> QED
    BY <2>1, <2>2, <2>3
<1>5. Chosen'
  BY <1>1, <1>3, SameFile DEF Chosen
<1>6. stage' = "flush" => EnoughPackets(seen)'
  <2>1. EnoughPackets(seen)' <=> EnoughPackets(seen + 1)
    BY <1>1 DEF EnoughPackets
  <2> QED
    BY <1>1, <2>1
<1>7. Counted'
  BY <1>2, <1>4, <1>5, <1>6 DEF Counted
<1> QED
  BY <1>1, <1>2, <1>7, FramesStep

\* The end of the packets, and that of the decoder.
LEMMA PacketsEnded ==
  ASSUME Inspected, EndOfPackets \/ FlushDecoder
  PROVE  Inspected' /\ stage' # "judged"
<1>1. stage \in BeforeFrames
  BY DEF EndOfPackets, FlushDecoder, BeforeFrames
<1>2. CASE GiveUpVideo(TRUE)
  BY <1>1, <1>2, VideoGivenUp
<1>3. CASE EndOfPackets /\ ~ GiveUpVideo(TRUE)
  <2>1. /\ stage = "packets" /\ EnoughPackets(seen) /\ stage' = "flush"
        /\ UNCHANGED <<file, inspection, source, seen, held, analyzer, shown, ear, heard>>
    BY <1>3 DEF EndOfPackets
  <2>2. Chosen /\ IsList(shown) /\ \A a \in analyzer : "count" \in DOMAIN a /\ a.count = Len(shown)
    BY <2>1 DEF Inspected, Counted
  <2>3. Chosen' /\ EnoughPackets(seen)'
    BY <2>1, <2>2, SameFile DEF Chosen, EnoughPackets
  <2>4. Counted'
    BY <2>1, <2>2, <2>3 DEF Counted
  <2>5. stage' \in BeforeFrames
    BY <2>1 DEF BeforeFrames
  <2> QED
    BY <1>1, <2>1, <2>4, <2>5, FramesStep
<1>4. CASE FlushDecoder
  <2>1. /\ stage = "flush" /\ stage' = "finish" /\ UNCHANGED <<file, inspection, source, seen, ear, heard>>
        /\ (analyzer' = analyzer /\ shown' = shown) \/ Push(Head(held))
    BY <1>4 DEF FlushDecoder
  <2>2. /\ Chosen /\ IsList(shown) /\ EnoughPackets(seen)
        /\ \A a \in analyzer : "count" \in DOMAIN a /\ a.count = Len(shown)
    BY <2>1 DEF Inspected, Counted
  <2>3. IsList(shown)' /\ \A a \in analyzer' : "count" \in DOMAIN a /\ a.count = Len(shown')
    <3>1. CASE Push(Head(held))
      BY <2>2, <3>1, Pushed
    <3>2. CASE analyzer' = analyzer /\ shown' = shown
      BY <2>2, <3>2
    <3> QED
      BY <2>1, <3>1, <3>2
  <2>4. Chosen' /\ EnoughPackets(seen)'
    BY <2>1, <2>2, SameFile DEF Chosen, EnoughPackets
  <2>5. Counted'
    BY <2>1, <2>3, <2>4 DEF Counted
  <2>6. stage' \in BeforeFrames
    BY <2>1 DEF BeforeFrames
  <2> QED
    BY <1>1, <2>1, <2>5, <2>6, FramesStep
<1> QED
  BY <1>2, <1>3, <1>4

\* The measurements of the frames take the place of those of their stream.
LEMMA VideoFinished ==
  ASSUME Inspected, FinishVideo
  PROVE  Inspected' /\ stage' # "judged"
<1>1. stage = "finish" /\ stage \in BeforeFrames /\ stage \in Opened /\ stage \notin AfterSound
  BY DEF FinishVideo, Opened, BeforeSound, BeforeFrames, AfterSound
<1>2. CASE GiveUpVideo(FALSE)
  BY <1>1, <1>2, VideoGivenUp
<1>3. CASE ~ GiveUpVideo(FALSE)
  <2> DEFINE put(a, colors, hdrs) ==
               LET entry == [AnalyzerFinish(a, Wide) EXCEPT !.stream = source.stream, !.colorspace = colors, !.hdr = hdrs]
               IN  /\ a.count # 0
                   /\ inspection' = {[Found EXCEPT !.video = ByStream(Append(Without(@, {source.stream}), entry))]}
                   /\ stage' = "audio"
                   /\ UNCHANGED <<file, source, seen, held, analyzer, shown, ear, heard>>
  <2>0. PICK a \in analyzer : \E colors, hdrs : put(a, colors, hdrs)
    BY <1>3 DEF FinishVideo
  <2>1. PICK colors, hdrs : put(a, colors, hdrs)
    BY <2>0
  <2> DEFINE entry == [AnalyzerFinish(a, Wide) EXCEPT !.stream = source.stream, !.colorspace = colors, !.hdr = hdrs]
             kept == Without(Found.video, {source.stream})
             new == ByStream(Append(kept, entry))
             g == [Found EXCEPT !.video = new]
  <2>2. Found' = g /\ TheFile' = TheFile /\ stage' = "audio"
    BY <2>1, SameFile
  <2>3. /\ TheFile \in Files /\ InspectFile(TheFile) # {}
        /\ InspectionFields \subseteq DOMAIN Found /\ Found.streams = Metadata(TheFile).streams
        /\ VideoList(Found.video) /\ AudioList(Found.audio)
        /\ StreamsIn(Found.audio) = StreamsIn(Metadata(TheFile).audio)
        /\ \A m \in Range(Found.video) : BlankVideo(m)
        /\ \A m \in Range(Found.audio) : BlankAudio(m)
    BY <1>1 DEF Inspected, Reading, VideoMeasured, AudioMeasured
  <2>4. Chosen /\ EnoughPackets(seen) /\ shown # <<>>
    <3>1. Chosen /\ EnoughPackets(seen) /\ a.count = Len(shown)
      BY <1>1 DEF Inspected, Counted
    <3> QED
      BY <2>1, <3>1
  <2>5. VideoFields \subseteq DOMAIN entry /\ entry.stream = source.stream
    BY DEF AnalyzerFinish, VideoFields
  <2> HIDE DEF entry
  <2>6. VideoList(new) /\ \A m \in Range(new) : BlankVideo(m) \/ m = entry
    <3>1. IsList(Found.video) /\ \A m \in Range(Found.video) : VideoFields \subseteq DOMAIN m
      BY <2>3 DEF VideoList
    <3>2. IsList(kept) /\ Range(kept) = {m \in Range(Found.video) : m.stream \notin {source.stream}}
      BY <3>1, WithoutStreams
    <3> HIDE DEF kept, new
    <3>3. IsList(Append(kept, entry)) /\ Range(Append(kept, entry)) = Range(kept) \cup {entry}
      BY <3>2, LongerList
    <3>4. IsList(new) /\ Range(new) = Range(kept) \cup {entry}
      BY <3>3, SortedList DEF new
    <3> QED
      BY <2>3, <2>5, <3>1, <3>2, <3>4 DEF VideoList
  <2> HIDE DEF new
  <2>7. /\ InspectionFields \subseteq DOMAIN g /\ g.streams = Found.streams /\ g.audio = Found.audio
        /\ g.video = new
    BY <2>3 DEF InspectionFields
  <2> HIDE DEF g
  <2>8. Reading'
    BY <2>2, <2>3, <2>6, <2>7 DEF Reading
  <2>9. Counted'
    BY <2>2 DEF Counted
  <2>10. VideoMeasured'
    <3>1. source' = source /\ seen' = seen /\ shown' = shown
      BY <2>1
    <3>2. Chosen' /\ EnoughPackets(seen)'
      BY <2>2, <2>4, <2>7, <3>1 DEF Chosen, EnoughPackets
    <3>3. stage' \notin BeforeFrames
      BY <2>2 DEF BeforeFrames
    <3> QED
      BY <2>2, <2>4, <2>5, <2>6, <2>7, <3>1, <3>2, <3>3 DEF VideoMeasured
  <2>11. AudioMeasured'
    BY <2>2, <2>3, <2>7 DEF AudioMeasured
  <2>12. stage' \in Opened
    BY <2>2 DEF Opened, BeforeSound
  <2> QED
    BY <2>2, <2>8, <2>9, <2>10, <2>11, <2>12 DEF Inspected
<1> QED
  BY <1>2, <1>3

\* Opening the sound, or none.
LEMMA OpenedAudio ==
  ASSUME Inspected, OpenAudio
  PROVE  Inspected' /\ stage' # "judged"
<1>1. stage = "audio" /\ stage \in Opened /\ stage \notin AfterSound
  BY DEF OpenAudio, Opened, BeforeSound, BeforeFrames, AfterSound
<1>2. CASE GiveUpAudio(FALSE) \/ GiveUpAudio(TRUE)
  BY <1>1, <1>2, AudioGivenUp
<1>3. CASE Found.audio = <<>>
  <2>1. stage' = "voice" /\ UNCHANGED <<file, inspection, source, seen, held, analyzer, shown, ear, heard>>
    BY <1>3 DEF OpenAudio
  <2>2. stage' \in AfterSound
    BY <2>1 DEF AfterSound
  <2> QED
    BY <1>1, <2>1, <2>2, LaterStep
<1>4. CASE Found.audio # <<>> /\ ~ GiveUpAudio(FALSE) /\ ~ GiveUpAudio(TRUE)
  <2>1. stage' = "samples" /\ UNCHANGED <<file, inspection, source, seen, held, analyzer, shown, heard>>
    BY <1>4 DEF OpenAudio
  <2> QED
    BY <1>1, <1>4, <2>1, LaterStep
<1> QED
  BY <1>2, <1>3, <1>4

\* The measurements of the samples take the place of those of their stream.
LEMMA AudioFinished ==
  ASSUME Inspected, FinishAudio
  PROVE  Inspected' /\ stage' # "judged"
<1>1. stage = "samples" /\ stage \in Opened /\ stage \notin AfterSound
  BY DEF FinishAudio, Opened, BeforeSound, BeforeFrames, AfterSound
<1>2. CASE heard = <<>>
  BY <1>1, <1>2, AudioGivenUp DEF FinishAudio
<1>3. CASE heard # <<>>
  <2>1. PICK a \in ear :
          LET entry == [AudioFinish(a) EXCEPT !.stream = FirstAudio]
          IN  inspection' = {[Found EXCEPT !.audio = ByStream(Append(Without(@, {FirstAudio}), entry))]}
    BY <1>3 DEF FinishAudio
  <2>2. stage' = "voice" /\ UNCHANGED <<file, source, seen, held, analyzer, shown, ear, heard>>
    BY <1>3 DEF FinishAudio
  <2> DEFINE entry == [AudioFinish(a) EXCEPT !.stream = FirstAudio]
             kept == Without(Found.audio, {FirstAudio})
             new == ByStream(Append(kept, entry))
             g == [Found EXCEPT !.audio = new]
  <2>3. Found' = g /\ TheFile' = TheFile
    BY <2>1, <2>2, SameFile
  <2>4. /\ TheFile \in Files /\ InspectFile(TheFile) # {}
        /\ InspectionFields \subseteq DOMAIN Found /\ Found.streams = Metadata(TheFile).streams
        /\ VideoList(Found.video) /\ AudioList(Found.audio) /\ Found.audio # <<>>
        /\ StreamsIn(Found.audio) = StreamsIn(Metadata(TheFile).audio)
        /\ \A m \in Range(Found.audio) : BlankAudio(m)
    BY <1>1 DEF Inspected, Reading, AudioMeasured
  <2>5. FirstAudio \in StreamsIn(Found.audio)
    BY <2>4, FirstOfStreams DEF FirstAudio, StreamsIn
  <2>6. AudioFields \subseteq DOMAIN entry /\ entry.stream = FirstAudio
    BY DEF AudioFinish, AudioFields
  <2>7. FirstAudio \in Nat
    BY <2>4, <2>5 DEF AudioList, StreamsIn
  <2> HIDE DEF entry
  <2>8. /\ AudioList(new) /\ \A m \in Range(new) : BlankAudio(m) \/ m = entry
        /\ StreamsIn(new) = StreamsIn(Found.audio)
    <3>1. IsList(Found.audio) /\ \A m \in Range(Found.audio) : AudioFields \subseteq DOMAIN m /\ m.stream \in Nat
      BY <2>4 DEF AudioList
    <3>2. IsList(kept) /\ Range(kept) = {m \in Range(Found.audio) : m.stream \notin {FirstAudio}}
      BY <3>1, WithoutStreams
    <3> HIDE DEF kept, new
    <3>3. IsList(Append(kept, entry)) /\ Range(Append(kept, entry)) = Range(kept) \cup {entry}
      BY <3>2, LongerList
    <3>4. IsList(new) /\ Range(new) = Range(kept) \cup {entry}
      BY <3>3, SortedList DEF new
    <3>5. AudioList(new) /\ \A m \in Range(new) : BlankAudio(m) \/ m = entry
      BY <2>4, <2>6, <2>7, <3>1, <3>2, <3>4 DEF AudioList
    <3>6. StreamsIn(new) = StreamsIn(Found.audio)
      BY <2>5, <2>6, <3>2, <3>4 DEF StreamsIn
    <3> QED
      BY <3>5, <3>6
  <2> HIDE DEF new
  <2>9. /\ InspectionFields \subseteq DOMAIN g /\ g.streams = Found.streams /\ g.video = Found.video
        /\ g.audio = new
    BY <2>4 DEF InspectionFields
  <2> HIDE DEF g
  <2>10. Reading'
    BY <2>3, <2>4, <2>8, <2>9 DEF Reading
  <2>11. Counted'
    BY <2>2 DEF Counted
  <2>12. VideoMeasured'
    <3>1. \A m \in Range(Found.video) :
            BlankVideo(m) \/ (m.stream = source.stream /\ shown # <<>> /\ Chosen /\ EnoughPackets(seen))
      BY <1>1 DEF Inspected, VideoMeasured
    <3>2. Chosen' = Chosen /\ EnoughPackets(seen)' = EnoughPackets(seen)
      BY <2>2, <2>3, <2>9 DEF Chosen, EnoughPackets
    <3>3. stage' \notin BeforeFrames
      BY <2>2 DEF BeforeFrames
    <3> QED
      BY <2>2, <2>3, <2>9, <3>1, <3>2, <3>3 DEF VideoMeasured
  <2>13. AudioMeasured'
    <3>1. FirstAudio' = FirstAudio
      <4>1. FirstAudio = Bottom(StreamsIn(Found.audio))
        BY FirstAudioOf
      <4>2. FirstAudio' = Bottom(StreamsIn(Found'.audio))
        BY DEF FirstAudio, StreamsIn, Range
      <4> QED
        BY <2>3, <2>8, <2>9, <4>1, <4>2
    <3>2. stage' \in AfterSound
      BY <2>2 DEF AfterSound
    <3> QED
      BY <1>3, <2>2, <2>3, <2>6, <2>8, <2>9, <3>1, <3>2 DEF AudioMeasured
  <2>14. stage' \in Opened
    BY <2>2 DEF Opened, AfterSound
  <2> QED
    BY <2>2, <2>10, <2>11, <2>12, <2>13, <2>14 DEF Inspected
<1> QED
  BY <1>2, <1>3

\* Stream by stream: the decoded measurements, and of the others those of the metadata.
LEMMA Merged ==
  ASSUME NEW metadata, NEW decoded, IsList(metadata), IsList(decoded)
  PROVE  /\ IsList(MergeByStream(metadata, decoded))
         /\ Range(MergeByStream(metadata, decoded)) =
              {m \in Range(metadata) : m.stream \notin StreamsIn(decoded)} \cup Range(decoded)
<1> DEFINE streams == {decoded[i].stream : i \in DOMAIN decoded}
           kept == Without(metadata, streams)
<1>1. streams = StreamsIn(decoded)
  BY DEF StreamsIn, Range
<1>2. IsList(kept) /\ Range(kept) = {m \in Range(metadata) : m.stream \notin streams}
  <2> HIDE DEF streams
  <2> QED
    BY WithoutStreams
<1>3. MergeByStream(metadata, decoded) = ByStream(kept \o decoded)
  BY DEF MergeByStream
<1> HIDE DEF kept, streams
<1>4. IsList(kept \o decoded) /\ Range(kept \o decoded) = Range(kept) \cup Range(decoded)
  BY <1>2, JoinedLists
<1> QED
  BY <1>1, <1>2, <1>3, <1>4, SortedList

\* Voice analysis and the merge with the metadata change no measurement of frames.
LEMMA MergedFound ==
  ASSUME Inspected, AnalyzeAndMerge
  PROVE  Inspected' /\ stage' # "judged"
<1>1. stage = "voice" /\ stage \in Opened /\ stage \in AfterSound /\ stage \notin BeforeFrames
  BY DEF AnalyzeAndMerge, Opened, BeforeSound, BeforeFrames, AfterSound
<1>2. stage' = "rules" /\ UNCHANGED <<file, source, seen, held, analyzer, shown, ear, heard>>
  BY DEF AnalyzeAndMerge
<1>3. PICK voice : inspection' = {MergeInspections(Metadata(TheFile), [Found EXCEPT !.voice = voice])}
  BY DEF AnalyzeAndMerge
<1> DEFINE meta == Metadata(TheFile)
           decoded == [Found EXCEPT !.voice = voice]
           g == MergeInspections(meta, decoded)
<1>4. Found' = g /\ TheFile' = TheFile
  BY <1>2, <1>3, SameFile
<1>5. /\ TheFile \in Files /\ InspectFile(TheFile) # {}
      /\ InspectionFields \subseteq DOMAIN Found /\ Found.streams = meta.streams
      /\ VideoList(Found.video) /\ AudioList(Found.audio)
      /\ StreamsIn(Found.audio) = StreamsIn(meta.audio)
  BY <1>1 DEF Inspected, Reading
<1>6. /\ InspectionFields \subseteq DOMAIN meta
      /\ VideoList(meta.video) /\ \A m \in Range(meta.video) : BlankVideo(m)
      /\ AudioList(meta.audio) /\ \A m \in Range(meta.audio) : BlankAudio(m)
  BY <1>5, MetadataIsBlank
<1>7. decoded.streams = Found.streams /\ decoded.video = Found.video /\ decoded.audio = Found.audio
  BY <1>5 DEF InspectionFields
<1> HIDE DEF meta, decoded
<1>8. /\ InspectionFields \subseteq DOMAIN g /\ g.streams = Found.streams
      /\ g.video = MergeByStream(meta.video, Found.video) /\ g.audio = MergeByStream(meta.audio, Found.audio)
  BY <1>5, <1>6, <1>7 DEF MergeInspections, InspectionFields
<1> HIDE DEF g
<1>9. VideoList(g.video) /\ \A m \in Range(g.video) : BlankVideo(m) \/ m \in Range(Found.video)
  <2>1. /\ IsList(meta.video) /\ IsList(Found.video)
        /\ \A m \in Range(meta.video) \cup Range(Found.video) : VideoFields \subseteq DOMAIN m
    BY <1>5, <1>6 DEF VideoList
  <2>2. /\ IsList(g.video)
        /\ Range(g.video) = {m \in Range(meta.video) : m.stream \notin StreamsIn(Found.video)} \cup Range(Found.video)
    BY <1>8, <2>1, Merged
  <2> QED
    BY <1>6, <2>1, <2>2 DEF VideoList
<1>10. /\ AudioList(g.audio) /\ \A m \in Range(g.audio) : BlankAudio(m) \/ m \in Range(Found.audio)
       /\ StreamsIn(g.audio) = StreamsIn(Found.audio)
  <2>1. /\ IsList(meta.audio) /\ IsList(Found.audio)
        /\ \A m \in Range(meta.audio) \cup Range(Found.audio) : AudioFields \subseteq DOMAIN m /\ m.stream \in Nat
    BY <1>5, <1>6 DEF AudioList
  <2>2. /\ IsList(g.audio)
        /\ Range(g.audio) = {m \in Range(meta.audio) : m.stream \notin StreamsIn(Found.audio)} \cup Range(Found.audio)
    BY <1>8, <2>1, Merged
  <2>3. {m \in Range(meta.audio) : m.stream \notin StreamsIn(Found.audio)} = {}
    BY <1>5 DEF StreamsIn
  <2>4. Range(g.audio) = Range(Found.audio)
    BY <2>2, <2>3
  <2> QED
    BY <1>6, <2>1, <2>2, <2>4 DEF AudioList, StreamsIn
<1>11. Reading'
  <2>1. /\ InspectionFields \subseteq DOMAIN g /\ g.streams = Metadata(TheFile).streams
        /\ VideoList(g.video) /\ AudioList(g.audio)
        /\ StreamsIn(g.audio) = StreamsIn(Metadata(TheFile).audio)
    BY <1>5, <1>8, <1>9, <1>10 DEF meta
  <2> QED
    BY <1>4, <1>5, <2>1 DEF Reading
<1>12. Counted'
  BY <1>2 DEF Counted
<1>13. VideoMeasured'
  <2>1. \A m \in Range(Found.video) :
          BlankVideo(m) \/ (m.stream = source.stream /\ shown # <<>> /\ Chosen /\ EnoughPackets(seen))
    BY <1>1 DEF Inspected, VideoMeasured
  <2>2. Chosen' = Chosen /\ EnoughPackets(seen)' = EnoughPackets(seen)
    BY <1>2, <1>4, <1>8 DEF Chosen, EnoughPackets
  <2>3. stage' \notin BeforeFrames
    BY <1>2 DEF BeforeFrames
  <2> QED
    BY <1>2, <1>4, <1>9, <2>1, <2>2, <2>3 DEF VideoMeasured
<1>14. AudioMeasured'
  <2>1. FirstAudio' = FirstAudio
    <3>1. FirstAudio = Bottom(StreamsIn(Found.audio))
      BY FirstAudioOf
    <3>2. FirstAudio' = Bottom(StreamsIn(Found'.audio))
      BY DEF FirstAudio, StreamsIn, Range
    <3> QED
      BY <1>4, <1>10, <3>1, <3>2
  <2>2. \A m \in Range(Found.audio) : BlankAudio(m) \/ (m.stream = FirstAudio /\ heard # <<>>)
    BY <1>1 DEF Inspected, AudioMeasured
  <2>3. stage' \in AfterSound
    BY <1>2 DEF AfterSound
  <2> QED
    BY <1>2, <1>4, <1>10, <2>1, <2>2, <2>3 DEF AudioMeasured
<1>15. stage' \in Opened
  BY <1>2 DEF Opened, AfterSound
<1> QED
  BY <1>2, <1>11, <1>12, <1>13, <1>14, <1>15 DEF Inspected

\* Every step of the inspection keeps the invariant, and none judges.
LEMMA InspectionStep ==
  ASSUME Inspected, InspectNext
  PROVE  Inspected' /\ stage' # "judged"
<1>1. CASE InspectMetadata
  BY <1>1, OpenedByMetadata
<1>2. CASE SkipDecode
  <2>1. /\ stage = "video" /\ stage' = "rules"
        /\ UNCHANGED <<file, inspection, source, seen, held, analyzer, shown, ear, heard>>
    BY <1>2 DEF SkipDecode
  <2>2. stage \in Opened /\ stage \notin AfterSound /\ stage' \in AfterSound
    BY <2>1 DEF Opened, BeforeSound, BeforeFrames, AfterSound
  <2> QED
    BY <2>1, <2>2, LaterStep
<1>3. CASE OpenVideo
  BY <1>3, OpenedVideo
<1>4. CASE DemuxFails
  <2>1. stage \in BeforeFrames /\ GiveUpVideo(TRUE)
    BY <1>4 DEF DemuxFails, BeforeFrames
  <2> QED
    BY <2>1, VideoGivenUp
<1>5. CASE ReadPacket \/ ReadSilentPacket
  BY <1>5, PacketRead
<1>6. CASE DecodeFails
  <2>1. stage \in BeforeFrames /\ \E failed \in BOOLEAN : GiveUpVideo(failed)
    BY <1>6 DEF DecodeFails, BeforeFrames
  <2> QED
    BY <2>1, VideoGivenUp
<1>7. CASE EndOfPackets \/ FlushDecoder
  BY <1>7, PacketsEnded
<1>8. CASE FinishVideo
  BY <1>8, VideoFinished
<1>9. CASE OpenAudio
  BY <1>9, OpenedAudio
<1>10. CASE DecodeSamples
  <2>1. stage = "samples" /\ UNCHANGED <<file, stage, inspection, source, seen, held, analyzer, shown>>
    BY <1>10 DEF DecodeSamples
  <2>2. stage \in Opened /\ stage \notin AfterSound /\ Found.audio # <<>>
    BY <2>1 DEF Opened, BeforeSound, BeforeFrames, AfterSound, Inspected, AudioMeasured
  <2> QED
    BY <2>1, <2>2, LaterStep
<1>11. CASE SamplesFail
  <2>1. stage \in {"audio", "samples"} /\ \E failed \in BOOLEAN : GiveUpAudio(failed)
    BY <1>11 DEF SamplesFail
  <2> QED
    BY <2>1, AudioGivenUp
<1>12. CASE FinishAudio
  BY <1>12, AudioFinished
<1>13. CASE AnalyzeAndMerge
  BY <1>13, MergedFound
<1>14. CASE NextAsset
  <2>1. stage' = "idle" /\ shown' = <<>>
    BY <1>14 DEF NextAsset
  <2>2. stage' \notin Opened /\ stage' \notin {"packets", "flush", "finish", "samples"}
    BY <2>1 DEF Opened, BeforeSound, BeforeFrames, AfterSound
  <2> QED
    BY <2>1, <2>2 DEF Inspected, Reading, Counted, VideoMeasured, AudioMeasured
<1> QED
  BY <1>1, <1>2, <1>3, <1>4, <1>5, <1>6, <1>7, <1>8, <1>9, <1>10, <1>11, <1>12, <1>13, <1>14 DEF InspectNext

\* What was found is only what was measured, and what was judged is what was found.
THEOREM Invariance == AnalysisSpec => [](Inspected /\ JudgedByRules)
<1>1. AnalysisInit => Inspected /\ JudgedByRules
  <2> SUFFICES ASSUME AnalysisInit PROVE Inspected /\ JudgedByRules
    OBVIOUS
  <2>1. stage = "idle" /\ shown = <<>>
    BY DEF AnalysisInit, InspectInit
  <2>2. stage \notin Opened /\ stage \notin {"packets", "flush", "finish", "samples", "judged"}
    BY <2>1 DEF Opened, BeforeSound, BeforeFrames, AfterSound
  <2> QED
    BY <2>1, <2>2 DEF Inspected, Reading, Counted, VideoMeasured, AudioMeasured, JudgedByRules, Judged
<1>2. Inspected /\ JudgedByRules /\ [AnalysisNext]_vars => (Inspected /\ JudgedByRules)'
  <2> SUFFICES ASSUME Inspected, JudgedByRules, [AnalysisNext]_vars
               PROVE  Inspected' /\ JudgedByRules'
    OBVIOUS
  <2>1. file' = file /\ inspection' = inspection => \A profile : RunRules(profile)' = RunRules(profile)
    BY DEF RunRules, Context, TheFile, Found
  <2>2. ASSUME UNCHANGED <<inspectVars, results>> PROVE Inspected' /\ JudgedByRules'
    <3>1. UNCHANGED <<file, stage, inspection, source, seen, held, analyzer, shown, ear, heard, results>>
      BY <2>2 DEF inspectVars
    <3>2. TheFile' = TheFile /\ Found' = Found
      BY <3>1, SameFile
    <3>3. FirstAudio' = FirstAudio /\ Chosen' = Chosen /\ EnoughPackets(seen)' = EnoughPackets(seen)
      BY <3>1, <3>2 DEF FirstAudio, Chosen, EnoughPackets
    <3>4. Inspected'
      BY <3>1, <3>2, <3>3 DEF Inspected, Reading, Counted, VideoMeasured, AudioMeasured
    <3>5. JudgedByRules'
      BY <2>1, <3>1 DEF JudgedByRules, Judged
    <3> QED
      BY <3>4, <3>5
  <2>3. CASE Look
    <3>1. Inspected' /\ stage' # "judged"
      BY <2>3, InspectionStep DEF Look
    <3> QED
      BY <3>1 DEF JudgedByRules, Judged
  <2>4. CASE Judge
    <3>1. /\ stage = "rules" /\ stage' = "judged"
          /\ UNCHANGED <<file, inspection, source, seen, shown, heard>>
          /\ \E profile \in Profiles : results' = RunRules(profile)
      BY <2>4 DEF Judge
    <3>2. stage \in Opened /\ stage' \in AfterSound
      BY <3>1 DEF Opened, AfterSound
    <3>3. Inspected'
      BY <3>1, <3>2, LaterStep
    <3>4. JudgedByRules'
      BY <2>1, <3>1 DEF JudgedByRules
    <3> QED
      BY <3>3, <3>4
  <2>5. CASE AskProfile \/ AskCustom \/ AskFlashes \/ Forget
    BY <2>2, <2>5 DEF AskProfile, AskCustom, AskFlashes, Forget, Asks
  <2>6. CASE UNCHANGED vars
    BY <2>2, <2>6 DEF vars
  <2> QED
    BY <2>3, <2>4, <2>5, <2>6 DEF AnalysisNext
<1> QED
  BY <1>1, <1>2, PTL DEF AnalysisSpec

\* Whatever files, pictures and profiles there are: frames count for one stream only, and only
\* if as many packets were read as the tables of the file count samples of the track that they
\* come from (decode in decode/src/lib.rs).
THEOREM MeasuredTracksAreWhole == AnalysisSpec => []PartialDecodeNeverCounts
<1>1. Inspected => PartialDecodeNeverCounts
  <2> SUFFICES ASSUME Inspected, stage \in {"audio", "samples", "voice", "rules", "judged"},
                      NEW i \in DOMAIN Found.video, Frames(Found.video[i]) > 0
               PROVE  /\ Found.video[i].stream = source.stream
                      /\ \A n \in TheFile.tracks[source.track].samples : seen >= n
    BY DEF PartialDecodeNeverCounts
  <2>1. stage \in Opened
    BY DEF Opened, BeforeSound, AfterSound
  <2> DEFINE m == Found.video[i]
  <2>2. m \in Range(Found.video)
    BY DEF Range
  <2>3. ~ BlankVideo(m)
    BY DEF BlankVideo, Frames
  <2>4. m.stream = source.stream /\ Chosen /\ EnoughPackets(seen)
    BY <2>1, <2>2, <2>3 DEF Inspected, VideoMeasured
  <2>5. source.expected = TheFile.tracks[source.track].samples
    BY <2>4 DEF Chosen
  <2> QED
    BY <2>4, <2>5 DEF EnoughPackets
<1> QED
  BY <1>1, Invariance, PTL

\* The metadata pass numbers the streams by their places.
LEMMA StreamsNumbered ==
  ASSUME NEW f \in Files, InspectFile(f) # {}
  PROVE  \A i \in DOMAIN Metadata(f).streams : i \in Nat /\ Metadata(f).streams[i].index = i - 1
<1>1. Metadata(f) \in InspectFile(f)
  BY DEF Metadata
<1>2. PICK c \in ProbeFile(f) : Metadata(f) = BuildInspection(c, f.length)
  BY <1>1 DEF InspectFile
<1>3. IsList(c.streams) /\ \A i \in DOMAIN c.streams : "index" \in DOMAIN c.streams[i]
  BY InspectAssumption
<1>4. Metadata(f).streams = NumberedStreams(c)
  BY <1>2 DEF BuildInspection
<1>5. DOMAIN c.streams \subseteq Nat
  BY <1>3 DEF IsList
<1> QED
  BY <1>3, <1>4, <1>5 DEF NumberedStreams

\* Among tracks that are counted there is a first one.
LEMMA FirstTrack ==
  ASSUME NEW q, IsList(q), NEW S \in SUBSET DOMAIN q, S # {}
  PROVE  FirstOf(S) \in S
<1>1. S \in SUBSET Nat
  BY DEF IsList
<1> QED
  BY <1>1, LeastNumber, Zenon DEF FirstOf

\* The stream under which a track counts is the one that names it.
NamedByItsStream(f, streams, c) ==
  \E s \in Range(streams) : s.index = c.stream /\ s.native = {f.tracks[c.track].id}

\* So it is if the demuxer lists the track that the metadata pass prefers.
LEMMA PreferredIsOwn ==
  ASSUME NEW f, IsList(f.tracks), NEW streams, \A i \in DOMAIN streams : i \in Nat,
         PreferredTracks(f, streams) # {}, NEW c \in ChooseTrack(f, streams)
  PROVE  NamedByItsStream(f, streams, c)
<1> DEFINE I == {i \in DOMAIN streams : /\ streams[i].kind = "video" /\ streams[i].codec \in {"av1", "vp9"}
                                        /\ streams[i].native # {}}
           named == PreferredTracks(f, streams)
           n == FirstOf(named)
<1>1. n \in named
  <2>1. named \in SUBSET DOMAIN f.tracks
    BY DEF PreferredTracks, DecodableTracks
  <2> QED
    BY <2>1, FirstTrack
<1>2. PICK p \in PreferredVideo(streams) : p.native = {f.tracks[n].id}
  BY <1>1 DEF PreferredTracks
<1>3. PICK s \in PreferredVideo(streams) : c = [track |-> n, stream |-> s.index]
  <2>1. DecodableTracks(f) # {}
    BY DEF PreferredTracks
  <2> HIDE DEF n
  <2> QED
    BY <2>1 DEF ChooseTrack, n
<1>4. PICK i \in I : p = streams[i] /\ \A k \in I : i <= k
  BY <1>2 DEF PreferredVideo
<1>5. PICK j \in I : s = streams[j] /\ \A k \in I : j <= k
  BY <1>3 DEF PreferredVideo
<1>6. i = j
  BY <1>4, <1>5
<1> HIDE DEF n
<1> QED
  BY <1>2, <1>3, <1>4, <1>5, <1>6 DEF NamedByItsStream, Range

\* The built-in rules of a group have names of its build function.
LEMMA RuleNames ==
  ASSUME NEW profile, NEW i \in DOMAIN BuildRules(profile, Custom)
  PROVE  LET id == BuildRules(profile, Custom)[i]
         IN  /\ id[1] = "video" => id[2] \in Range(VideoBuild)
             /\ id[1] = "audio" => id[2] \in Range(AudioBuild)
<1> DEFINE ids == BuildRules(profile, Custom)
<1>1. ids \in Seq(RuleIds(profile, Custom))
  BY RulesDistinct, AnalysisAssumption
<1> HIDE DEF ids
<1>2. ids[i] \in RuleIds(profile, Custom)
  BY <1>1 DEF ids
<1>3. \A id \in CustomIds(Custom) : id[1] = "custom"
  BY CustomListIds, AnalysisAssumption
<1> QED
  BY <1>2, <1>3 DEF RuleIds, Configured, ids

\* A stream that has the number under which the frames count is the one whose track they are of.
LEMMA OwnTrack ==
  ASSUME Inspected, stage \in Opened, Chosen, PreferredTracks(TheFile, Found.streams) # {},
         NEW ctx, ctx.streams = Found.streams, NEW s \in PrimaryStream(ctx, "video"), s.index = source.stream
  PROVE  s.native = {TheFile.tracks[source.track].id}
<1>1. TheFile \in Files /\ InspectFile(TheFile) # {} /\ Found.streams = Metadata(TheFile).streams
  BY DEF Inspected, Reading
<1>2. \A i \in DOMAIN Found.streams : i \in Nat /\ Found.streams[i].index = i - 1
  BY <1>1, StreamsNumbered
<1>3. PICK c \in ChooseTrack(TheFile, Found.streams) : source.stream = c.stream /\ source.track = c.track
  BY DEF Chosen
<1>4. IsList(TheFile.tracks)
  BY <1>1, FilesAssumption
<1>5. PICK p \in Range(Found.streams) : p.index = c.stream /\ p.native = {TheFile.tracks[c.track].id}
  <2>1. NamedByItsStream(TheFile, Found.streams, c)
    BY <1>2, <1>3, <1>4, PreferredIsOwn
  <2> QED
    BY <2>1 DEF NamedByItsStream
<1>6. PICK i \in DOMAIN Found.streams : p = Found.streams[i]
  BY <1>5 DEF Range
<1>7. PICK j \in DOMAIN Found.streams : s = Found.streams[j]
  BY DEF PrimaryStream
<1>8. i = j
  BY <1>2, <1>3, <1>5, <1>6, <1>7
<1> QED
  BY <1>3, <1>5, <1>6, <1>7, <1>8

\* Whatever files, pictures, sounds and profiles there are: a rule about frames or samples
\* passes only if some were decoded that count for its own stream, and, wherever the demuxer
\* lists the track that the metadata pass preferred, of that stream's own track
\* (QcEngine.check in engine.rs, choose in decode/src/lib.rs).
THEOREM NoPassWithoutFrames == AnalysisSpec => []NoPassWithoutDecode
<1>1. Inspected /\ JudgedByRules => NoPassWithoutDecode
  <2> SUFFICES ASSUME Inspected, JudgedByRules, Judged PROVE NoPassWithoutDecode
    BY DEF NoPassWithoutDecode
  <2>1. stage = "judged" /\ stage \in Opened
    BY DEF Judged, Opened, AfterSound
  <2>2. PICK profile \in Profiles : results = RunRules(profile)
    BY DEF JudgedByRules
  <2> DEFINE ids == BuildRules(profile, Custom)
             ctx == Context
  <2>3. /\ DOMAIN results = DOMAIN ids
        /\ \A i \in DOMAIN results : /\ results[i].id = ids[i]
                                     /\ results[i].statuses = RuleResult(profile, ids[i], ctx)
    BY <2>2 DEF RunRules
  <2>4. ctx.video = Found.video /\ ctx.audio = Found.audio /\ ctx.streams = Found.streams
    BY DEF Context
  <2> HIDE DEF ids, ctx
  <2>5. ASSUME NEW id, NEW i \in DOMAIN results, results[i].id = id, IsPass(ResultOf(id))
        PROVE  IsPass(results[i].statuses)
    BY <2>5 DEF ResultOf, IsPass
  <2>6. ASSUME NEW id \in FrameRules("video"), IsPass(ResultOf(id))
        PROVE  /\ shown # <<>>
               /\ \E s \in PrimaryStream(ctx, "video") :
                    /\ s.index = source.stream
                    /\ PreferredTracks(TheFile, Found.streams) # {} => s.native = {TheFile.tracks[source.track].id}
    <3>1. PICK i \in DOMAIN results : /\ results[i].id = id /\ id[1] = "video"
                                      /\ VideoDecodeNeed(id[2]) # "none"
      BY <2>6 DEF FrameRules
    <3>2. id[2] \in Range(VideoBuild) /\ id = ids[i]
      BY <2>3, <3>1, RuleNames DEF ids
    <3>3. IsPass(VideoRule(id[2], profile[id[1]][id[2]], ctx))
      <4>1. RuleResult(profile, id, ctx) = VideoRule(id[2], profile[id[1]][id[2]], ctx)
        BY <3>1 DEF RuleResult
      <4> QED
        BY <2>3, <2>5, <2>6, <3>1, <3>2, <4>1
    <3>4. PICK m \in VideoMeasurement(ctx) : ~ BlankVideo(m)
      BY <3>1, <3>2, <3>3, BlankVideoNeverPasses
    <3>5. m \in Range(Found.video) /\ \E s \in PrimaryStream(ctx, "video") : s.index = m.stream
      BY <2>4, <3>4, MeasuredStream DEF VideoMeasurement
    <3>6. m.stream = source.stream /\ shown # <<>> /\ Chosen
      BY <2>1, <3>4, <3>5 DEF Inspected, VideoMeasured
    <3>7. PICK s \in PrimaryStream(ctx, "video") : s.index = source.stream
      BY <3>5, <3>6
    <3>8. ASSUME PreferredTracks(TheFile, Found.streams) # {} PROVE s.native = {TheFile.tracks[source.track].id}
      BY <2>1, <2>4, <3>6, <3>7, <3>8, OwnTrack
    <3> QED
      BY <3>6, <3>7, <3>8
  <2>7. ASSUME NEW id \in FrameRules("audio"), IsPass(ResultOf(id))
        PROVE  heard # <<>> /\ \E s \in PrimaryStream(ctx, "audio") : s.index = FirstAudio
    <3>1. PICK i \in DOMAIN results : /\ results[i].id = id /\ id[1] = "audio"
                                      /\ AudioDecodeNeed(id[2]) # "none"
      BY <2>7 DEF FrameRules
    <3>2. id[2] \in Range(AudioBuild) /\ id = ids[i]
      BY <2>3, <3>1, RuleNames DEF ids
    <3>3. IsPass(AudioRule(id[2], profile[id[1]][id[2]], ctx))
      <4>1. RuleResult(profile, id, ctx) = AudioRule(id[2], profile[id[1]][id[2]], ctx)
        BY <3>1 DEF RuleResult
      <4> QED
        BY <2>3, <2>5, <2>7, <3>1, <3>2, <4>1
    <3>4. PICK m \in MeasuredFor(ctx.audio, ctx, "audio") : ~ BlankAudio(m)
      BY <3>1, <3>2, <3>3, BlankAudioNeverPasses
    <3>5. m \in Range(Found.audio) /\ \E s \in PrimaryStream(ctx, "audio") : s.index = m.stream
      BY <2>4, <3>4, MeasuredStream
    <3>6. m.stream = FirstAudio /\ heard # <<>>
      BY <2>1, <3>4, <3>5 DEF Inspected, AudioMeasured
    <3> QED
      BY <3>5, <3>6
  <2> QED
    BY <2>6, <2>7 DEF NoPassWithoutDecode, ctx
<1> QED
  BY <1>1, Invariance, PTL

-----------------------------------------------------------------------------
(* Windows of flashes.                                                     *)

\* Times in order.
Ascending(t) == t \in Seq(Int) /\ \A i, j \in 1 .. Len(t) : i <= j => t[i] <= t[j]

\* A window spans transitions, more than twice the limit, and starts no later than any of them
\* that is less than a second before the k-th.
Spanned(w, t, k, limit) ==
  \A n \in 1 .. Len(w) : \E a, b \in 1 .. k :
    /\ a <= b /\ w[n] = <<t[a], t[b]>> /\ b - a + 1 > 2 * limit
    /\ \A j \in 1 .. a - 1 : t[k] - t[j] >= Second

Apart(w) == \A n \in 1 .. Len(w) - 1 : w[n][2] < w[n + 1][1]

\* Every burst of the first k transitions is inside of a window.
Covered(w, t, k, limit) ==
  \A i, j \in 1 .. k : (i <= j /\ t[j] - t[i] < Second /\ j - i + 1 > 2 * limit) =>
    \E n \in 1 .. Len(w) : w[n][1] <= t[i] /\ t[j] <= w[n][2]

WindowsOf(w, t, k, limit) ==
  w \in Seq(Int \X Int) /\ Spanned(w, t, k, limit) /\ Apart(w) /\ Covered(w, t, k, limit)

\* There is a first transition less than a second before each.
LEMMA BurstStarts ==
  ASSUME NEW t, Ascending(t), NEW k \in 1 .. Len(t)
  PROVE  /\ BurstStart(t, k) \in 1 .. k /\ t[k] - t[BurstStart(t, k)] < Second
         /\ \A j \in 1 .. BurstStart(t, k) - 1 : t[k] - t[j] >= Second
<1> DEFINE S == {i \in 1 .. k : t[k] - t[i] < Second}
           Fits(i) == t[k] - t[i] < Second /\ \A j \in 1 .. i - 1 : t[k] - t[j] >= Second
<1>1. \A i \in 1 .. k : t[i] \in Int
  BY DEF Ascending
<1>2. k \in S
  BY <1>1 DEF Second
<1>3. S \in SUBSET Nat
  OBVIOUS
<1>4. PICK n \in S : \A m \in S : n <= m
  <2> HIDE DEF S
  <2> QED
    BY <1>2, <1>3, LeastNumber
<1>5. n \in 1 .. k /\ Fits(n)
  <2>1. ASSUME NEW j \in 1 .. n - 1 PROVE t[k] - t[j] >= Second
    <3>1. j \in 1 .. k /\ j \notin S
      BY <1>4, <2>1
    <3> QED
      BY <1>1, <3>1 DEF Second
  <2> QED
    BY <1>4, <2>1
<1>6. BurstStart(t, k) = CHOOSE i \in 1 .. k : Fits(i)
  BY DEF BurstStart
<1> HIDE DEF Fits
<1>7. BurstStart(t, k) \in 1 .. k /\ Fits(BurstStart(t, k))
  BY <1>5, <1>6
<1> QED
  BY <1>7 DEF Fits

\* The windows after one transition more.
LEMMA TransitionAdded ==
  ASSUME NEW t, Ascending(t), NEW k \in 1 .. Len(t), NEW limit \in Nat, NEW w, WindowsOf(w, t, k - 1, limit)
  PROVE  WindowsOf(AddTransition(w, t, k, limit), t, k, limit)
<1> DEFINE f == BurstStart(t, k)
           l == Len(w)
           v == AddTransition(w, t, k, limit)
<1>1. f \in 1 .. k /\ t[k] - t[f] < Second /\ \A j \in 1 .. f - 1 : t[k] - t[j] >= Second
  BY BurstStarts
<1>2. /\ k \in Nat /\ \A i \in 1 .. k : t[i] \in Int
      /\ \A i, j \in 1 .. k : i <= j => t[i] <= t[j]
  BY DEF Ascending
<1>3. /\ w \in Seq(Int \X Int) /\ l \in Nat
      /\ \A n \in 1 .. l : \E a, b \in 1 .. k - 1 :
           /\ a <= b /\ w[n] = <<t[a], t[b]>> /\ b - a + 1 > 2 * limit
           /\ \A j \in 1 .. a - 1 : t[k - 1] - t[j] >= Second
      /\ \A n \in 1 .. l - 1 : w[n][2] < w[n + 1][1]
      /\ \A i, j \in 1 .. k - 1 : (i <= j /\ t[j] - t[i] < Second /\ j - i + 1 > 2 * limit) =>
           \E n \in 1 .. l : w[n][1] <= t[i] /\ t[j] <= w[n][2]
  <2>1. Spanned(w, t, k - 1, limit) /\ Apart(w) /\ Covered(w, t, k - 1, limit) /\ w \in Seq(Int \X Int)
    BY DEF WindowsOf
  <2>2. l \in Nat
    BY <2>1
  <2>3. \A n \in 1 .. l : \E a, b \in 1 .. k - 1 :
          /\ a <= b /\ w[n] = <<t[a], t[b]>> /\ b - a + 1 > 2 * limit
          /\ \A j \in 1 .. a - 1 : t[k - 1] - t[j] >= Second
    BY <2>1, Zenon DEF Spanned
  <2>4. \A n \in 1 .. l - 1 : w[n][2] < w[n + 1][1]
    BY <2>1, Zenon DEF Apart
  <2>5. \A i, j \in 1 .. k - 1 : (i <= j /\ t[j] - t[i] < Second /\ j - i + 1 > 2 * limit) =>
          \E n \in 1 .. l : w[n][1] <= t[i] /\ t[j] <= w[n][2]
    BY <2>1, Zenon DEF Covered
  <2> QED
    BY <2>1, <2>2, <2>3, <2>4, <2>5, Zenon
<1>4. v = IF k - f + 1 <= 2 * limit THEN w
          ELSE IF w # <<>> /\ t[f] <= w[l][2]
          THEN [w EXCEPT ![l] = <<@[1], t[k]>>]
          ELSE Append(w, <<t[f], t[k]>>)
  BY DEF AddTransition
<1> HIDE DEF f, l, v
<1>5. Second \in Int
  BY DEF Second
\* The old windows start no later than any transition less than a second before the k-th.
<1>6. ASSUME NEW n \in 1 .. l
      PROVE  \E a, b \in 1 .. k - 1 :
               /\ a <= b /\ w[n] = <<t[a], t[b]>> /\ b - a + 1 > 2 * limit
               /\ \A j \in 1 .. a - 1 : t[k] - t[j] >= Second
               /\ a <= f /\ t[a] <= t[f]
  <2>1. PICK a \in 1 .. k - 1, b \in 1 .. k - 1 :
          /\ a <= b /\ w[n] = <<t[a], t[b]>> /\ b - a + 1 > 2 * limit
          /\ \A j \in 1 .. a - 1 : t[k - 1] - t[j] >= Second
    BY <1>3
  <2>2. k - 1 \in 1 .. k /\ k \in 1 .. k /\ t[k - 1] <= t[k] /\ t[k - 1] \in Int /\ t[k] \in Int
    <3>1. k - 1 \in 1 .. k /\ k \in 1 .. k /\ k - 1 <= k
      BY <1>2
    <3> QED
      BY <1>2, <3>1
  <2>3. ASSUME NEW j \in 1 .. a - 1 PROVE t[k] - t[j] >= Second
    <3>1. j \in 1 .. k /\ t[j] \in Int
      BY <1>2
    <3>2. t[k - 1] - t[j] >= Second
      BY <2>1
    <3> QED
      BY <1>5, <2>2, <3>1, <3>2
  <2>4. a <= f
    <3>1. f \in 1 .. a - 1 => t[k] - t[f] >= Second
      BY <2>3
    <3>2. t[f] \in Int
      BY <1>1, <1>2
    <3>3. f \notin 1 .. a - 1
      BY <1>1, <1>5, <2>2, <3>1, <3>2
    <3> QED
      BY <1>1, <3>3
  <2>5. t[a] <= t[f]
    <3>1. a \in 1 .. k
      OBVIOUS
    <3> QED
      BY <1>1, <1>2, <2>4, <3>1
  <2> QED
    BY <2>1, <2>3, <2>4, <2>5
\* A burst that ends with the k-th transition starts with the first or later.
<1>7. ASSUME NEW i \in 1 .. k, t[k] - t[i] < Second, k - i + 1 > 2 * limit
      PROVE  f <= i /\ t[f] <= t[i] /\ k - f + 1 > 2 * limit
  <2>1. i \notin 1 .. f - 1
    <3>1. t[k] \in Int /\ t[i] \in Int
      BY <1>2
    <3> QED
      BY <1>1, <1>5, <1>7, <3>1
  <2>2. f <= i
    BY <1>1, <2>1
  <2> QED
    BY <1>1, <1>2, <1>7, <2>2
<1>8. ASSUME NEW i \in 1 .. k, NEW j \in 1 .. k, i <= j, j # k
      PROVE  i \in 1 .. k - 1 /\ j \in 1 .. k - 1
  BY <1>2, <1>8
<1>9. CASE k - f + 1 <= 2 * limit
  <2>1. v = w
    BY <1>4, <1>9
  <2>2. Spanned(v, t, k, limit)
    <3>1. 1 .. k - 1 \subseteq 1 .. k
      BY <1>2
    <3> QED
      BY <1>6, <2>1, <3>1 DEF Spanned, l
  <2>3. Covered(v, t, k, limit)
    <3> SUFFICES ASSUME NEW i \in 1 .. k, NEW j \in 1 .. k, i <= j, t[j] - t[i] < Second, j - i + 1 > 2 * limit
                 PROVE  \E n \in 1 .. Len(w) : w[n][1] <= t[i] /\ t[j] <= w[n][2]
      BY <2>1 DEF Covered
    <3>1. j # k
      <4>1. ~ (k - f + 1 > 2 * limit)
        BY <1>1, <1>2, <1>9
      <4> QED
        BY <1>7, <4>1
    <3> QED
      BY <1>3, <1>8, <3>1 DEF l
  <2>4. w \in Seq(Int \X Int) /\ Apart(w)
    BY <1>3 DEF Apart, l
  <2>5. WindowsOf(v, t, k, limit)
    BY <2>1, <2>2, <2>3, <2>4 DEF WindowsOf
  <2> QED
    BY <2>5 DEF v
<1>10. ASSUME k - f + 1 > 2 * limit, w # <<>>, t[f] <= w[l][2]
       PROVE  WindowsOf(v, t, k, limit)
  <2>1. l \in 1 .. l
    BY <1>3, <1>10 DEF l
  <2>2. PICK a \in 1 .. k - 1, b \in 1 .. k - 1 :
          /\ a <= b /\ w[l] = <<t[a], t[b]>> /\ b - a + 1 > 2 * limit
          /\ \A j \in 1 .. a - 1 : t[k] - t[j] >= Second
          /\ a <= f /\ t[a] <= t[f]
    BY <1>6, <2>1
  <2>3. /\ a \in 1 .. k /\ b \in 1 .. k /\ k \in 1 .. k /\ a <= k /\ b <= k
        /\ t[a] \in Int /\ t[b] \in Int /\ t[k] \in Int /\ t[b] <= t[k]
    <3>1. a \in 1 .. k /\ b \in 1 .. k /\ k \in 1 .. k /\ a <= k /\ b <= k
      BY <1>2
    <3> QED
      BY <1>2, <3>1
  <2>4. v = [w EXCEPT ![l] = <<w[l][1], t[k]>>]
    <3>1. ~ (k - f + 1 <= 2 * limit)
      BY <1>1, <1>2, <1>10
    <3> QED
      BY <1>4, <1>10, <3>1
  <2>5. w[l][1] = t[a] /\ w[l][2] = t[b]
    BY <2>2
  <2>6. /\ v \in Seq(Int \X Int) /\ Len(v) = l /\ v[l] = <<t[a], t[k]>>
        /\ \A n \in 1 .. l : n # l => v[n] = w[n]
    <3> DEFINE last == <<t[a], t[k]>>
    <3>1. w \in Seq(Int \X Int) /\ l = Len(w) /\ last \in Int \X Int /\ v = [w EXCEPT ![l] = last]
      BY <1>3, <2>3, <2>4, <2>5 DEF l
    <3> HIDE DEF last
    <3>2. v \in Seq(Int \X Int) /\ Len(v) = l /\ v[l] = last
          /\ \A n \in 1 .. l : n # l => v[n] = w[n]
      BY <2>1, <3>1
    <3> QED
      BY <3>2 DEF last
  <2>7. Spanned(v, t, k, limit)
    <3> SUFFICES ASSUME NEW n \in 1 .. l
                 PROVE  \E c, d \in 1 .. k : /\ c <= d /\ v[n] = <<t[c], t[d]>> /\ d - c + 1 > 2 * limit
                                             /\ \A j \in 1 .. c - 1 : t[k] - t[j] >= Second
      BY <2>6 DEF Spanned
    <3>1. CASE n = l
      <4>1. k - a + 1 > 2 * limit
        BY <1>1, <1>2, <1>10, <2>2
      <4> QED
        BY <2>2, <2>3, <2>6, <3>1, <4>1
    <3>2. CASE n # l
      <4>1. 1 .. k - 1 \subseteq 1 .. k
        BY <1>2
      <4> QED
        BY <1>6, <2>6, <3>2, <4>1
    <3> QED
      BY <3>1, <3>2
  <2>8. Apart(v)
    <3> SUFFICES ASSUME NEW n \in 1 .. l - 1 PROVE v[n][2] < v[n + 1][1]
      BY <2>6 DEF Apart
    <3>1. n \in 1 .. l /\ n # l /\ n + 1 \in 1 .. l
      BY <1>3
    <3>2. v[n] = w[n] /\ w[n][2] < w[n + 1][1]
      BY <1>3, <2>6, <3>1
    <3>3. v[n + 1][1] = w[n + 1][1]
      <4>1. CASE n + 1 = l
        <5>1. v[l][1] = t[a]
          BY <2>6
        <5> QED
          BY <2>5, <4>1, <5>1
      <4>2. CASE n + 1 # l
        BY <2>6, <3>1, <4>2
      <4> QED
        BY <4>1, <4>2
    <3> QED
      BY <3>2, <3>3
  <2>9. Covered(v, t, k, limit)
    <3> SUFFICES ASSUME NEW i \in 1 .. k, NEW j \in 1 .. k, i <= j, t[j] - t[i] < Second, j - i + 1 > 2 * limit
                 PROVE  \E n \in 1 .. l : v[n][1] <= t[i] /\ t[j] <= v[n][2]
      BY <2>6 DEF Covered
    <3>0. t[i] \in Int /\ t[j] \in Int
      BY <1>2
    <3>1. CASE j = k
      <4>1. t[f] <= t[i] /\ t[f] \in Int
        BY <1>1, <1>2, <1>7, <3>1
      <4>2. v[l][1] = t[a] /\ v[l][2] = t[k]
        BY <2>6
      <4>3. v[l][1] <= t[i] /\ t[j] <= v[l][2]
        BY <2>2, <2>3, <3>0, <3>1, <4>1, <4>2
      <4> QED
        BY <2>1, <4>3
    <3>2. CASE j # k
      <4>1. PICK n \in 1 .. l : w[n][1] <= t[i] /\ t[j] <= w[n][2]
        BY <1>3, <1>8, <3>2
      <4>2. v[n][1] <= t[i] /\ t[j] <= v[n][2]
        <5>1. CASE n = l
          <6>1. v[n][1] = t[a] /\ v[n][2] = t[k]
            <7>1. v[l] = <<t[a], t[k]>>
              BY <2>6
            <7> QED
              BY <5>1, <7>1
          <6>2. t[a] <= t[i] /\ t[j] <= t[b]
            BY <2>5, <4>1, <5>1
          <6>3. t[j] <= t[k]
            <7> DEFINE x == t[j]
                       y == t[b]
                       z == t[k]
            <7>1. x \in Int /\ y \in Int /\ z \in Int
              BY <2>3, <3>0
            <7>2. x <= y /\ y <= z
              BY <2>3, <6>2
            <7> HIDE DEF x, y, z
            <7>3. x <= z
              BY <7>1, <7>2
            <7> QED
              BY <7>3 DEF x, z
          <6> QED
            BY <6>1, <6>2, <6>3
        <5>2. CASE n # l
          <6>1. v[n] = w[n]
            BY <2>6, <5>2
          <6> QED
            BY <4>1, <6>1
        <5> QED
          BY <5>1, <5>2
      <4> QED
        BY <4>2
    <3> QED
      BY <3>1, <3>2
  <2> QED
    BY <2>6, <2>7, <2>8, <2>9 DEF WindowsOf
<1>11. ASSUME k - f + 1 > 2 * limit, w = <<>> \/ ~ (t[f] <= w[l][2])
       PROVE  WindowsOf(v, t, k, limit)
  <2>1. v = Append(w, <<t[f], t[k]>>)
    <3>1. ~ (k - f + 1 <= 2 * limit)
      BY <1>1, <1>2, <1>11
    <3> QED
      BY <1>4, <1>11, <3>1
  <2>2. t[f] \in Int /\ t[k] \in Int /\ k \in 1 .. k
    BY <1>1, <1>2
  <2>3. /\ v \in Seq(Int \X Int) /\ Len(v) = l + 1 /\ v[l + 1] = <<t[f], t[k]>>
        /\ \A n \in 1 .. l : v[n] = w[n]
    BY <1>3, <2>1, <2>2 DEF l
  <2>4. \A n \in 1 .. l + 1 : n = l + 1 \/ n \in 1 .. l
    BY <1>3
  <2>5. Spanned(v, t, k, limit)
    <3> SUFFICES ASSUME NEW n \in 1 .. l + 1
                 PROVE  \E c, d \in 1 .. k : /\ c <= d /\ v[n] = <<t[c], t[d]>> /\ d - c + 1 > 2 * limit
                                             /\ \A j \in 1 .. c - 1 : t[k] - t[j] >= Second
      BY <2>3 DEF Spanned
    <3>1. CASE n = l + 1
      <4>1. f <= k
        BY <1>1
      <4> QED
        BY <1>1, <1>11, <2>2, <2>3, <3>1, <4>1
    <3>2. CASE n \in 1 .. l
      <4>1. 1 .. k - 1 \subseteq 1 .. k
        BY <1>2
      <4> QED
        BY <1>6, <2>3, <3>2, <4>1
    <3> QED
      BY <2>4, <3>1, <3>2
  <2>6. Apart(v)
    <3> SUFFICES ASSUME NEW n \in 1 .. l PROVE v[n][2] < v[n + 1][1]
      BY <1>3, <2>3 DEF Apart
    <3>1. CASE n = l
      <4>1. w # <<>> /\ w[l] \in Int \X Int
        BY <1>3, <3>1 DEF l
      <4>2. w[l][2] \in Int /\ ~ (t[f] <= w[l][2])
        BY <1>11, <4>1
      <4>3. w[l][2] < t[f]
        BY <2>2, <4>2
      <4>4. v[n] = w[l] /\ v[n + 1][1] = t[f]
        BY <2>3, <3>1
      <4> QED
        BY <4>3, <4>4
    <3>2. CASE n # l
      <4>1. n \in 1 .. l - 1 /\ n + 1 \in 1 .. l
        <5>1. l \in Nat
          BY <1>3
        <5> QED
          BY <3>2, <5>1
      <4> QED
        BY <1>3, <2>3, <4>1
    <3> QED
      BY <3>1, <3>2
  <2>7. Covered(v, t, k, limit)
    <3> SUFFICES ASSUME NEW i \in 1 .. k, NEW j \in 1 .. k, i <= j, t[j] - t[i] < Second, j - i + 1 > 2 * limit
                 PROVE  \E n \in 1 .. l + 1 : v[n][1] <= t[i] /\ t[j] <= v[n][2]
      BY <2>3 DEF Covered
    <3>1. CASE j = k
      <4>1. t[f] <= t[i]
        BY <1>7, <3>1
      <4>2. v[l + 1][1] <= t[i] /\ t[j] <= v[l + 1][2]
        BY <2>2, <2>3, <3>1, <4>1
      <4>3. l + 1 \in 1 .. l + 1
        BY <1>3
      <4> QED
        BY <4>2, <4>3
    <3>2. CASE j # k
      <4>1. PICK n \in 1 .. l : w[n][1] <= t[i] /\ t[j] <= w[n][2]
        BY <1>3, <1>8, <3>2
      <4>2. n \in 1 .. l + 1 /\ v[n] = w[n]
        BY <1>3, <2>3
      <4> QED
        BY <4>1, <4>2
    <3> QED
      BY <3>1, <3>2
  <2> QED
    BY <2>3, <2>5, <2>6, <2>7 DEF WindowsOf
<1>12. \/ k - f + 1 <= 2 * limit \/ k - f + 1 > 2 * limit
  BY <1>1, <1>2
<1> QED
  BY <1>9, <1>10, <1>11, <1>12 DEF v

\* Windows are pairs of times.
LEMMA WindowsArePairs ==
  ASSUME NEW t, Ascending(t), NEW k \in 1 .. Len(t), NEW limit \in Nat, NEW w \in Seq(Int \X Int)
  PROVE  AddTransition(w, t, k, limit) \in Seq(Int \X Int)
<1> DEFINE f == BurstStart(t, k)
           l == Len(w)
<1>1. t[f] \in Int /\ t[k] \in Int
  <2>1. f \in 1 .. k
    BY BurstStarts
  <2>2. Len(t) \in Nat /\ \A i \in 1 .. Len(t) : t[i] \in Int
    BY DEF Ascending
  <2> HIDE DEF f
  <2>3. f \in 1 .. Len(t)
    BY <2>1, <2>2
  <2> QED
    BY <2>2, <2>3
<1>2. AddTransition(w, t, k, limit) \in
        {w, [w EXCEPT ![l] = <<w[l][1], t[k]>>], Append(w, <<t[f], t[k]>>)}
      /\ (AddTransition(w, t, k, limit) = [w EXCEPT ![l] = <<w[l][1], t[k]>>] =>
            w # <<>> \/ AddTransition(w, t, k, limit) = w)
  BY DEF AddTransition
<1> HIDE DEF f
<1>3. w # <<>> => [w EXCEPT ![l] = <<w[l][1], t[k]>>] \in Seq(Int \X Int)
  <2> SUFFICES ASSUME w # <<>> PROVE [w EXCEPT ![l] = <<w[l][1], t[k]>>] \in Seq(Int \X Int)
    OBVIOUS
  <2>1. w[l] \in Int \X Int
    OBVIOUS
  <2> DEFINE e == <<w[l][1], t[k]>>
  <2>2. e \in Int \X Int
    BY <1>1, <2>1
  <2>3. l \in 1 .. Len(w)
    OBVIOUS
  <2> HIDE DEF l, e
  <2>4. [w EXCEPT ![l] = e] \in Seq(Int \X Int)
    BY <2>2, <2>3
  <2> QED
    BY <2>4 DEF e
<1>4. Append(w, <<t[f], t[k]>>) \in Seq(Int \X Int)
  BY <1>1
<1> QED
  BY <1>2, <1>3, <1>4

\* FlashWindows takes the transitions one by one.
LEMMA WindowSteps ==
  ASSUME NEW t, Ascending(t), NEW limit \in Nat
  PROVE  \E W : /\ FlashWindows(t, limit) = W[Len(t)] /\ W[0] = <<>>
                /\ \A k \in 1 .. Len(t) : W[k] = AddTransition(W[k - 1], t, k, limit)
<1> DEFINE n == Len(t)
           Vals == Seq(Int \X Int)
           Made(W) == W = [k \in 0 .. n |-> IF k = 0 THEN <<>> ELSE AddTransition(W[k - 1], t, k, limit)]
           step == [x \in (1 .. n) \X Vals |-> AddTransition(x[2], t, x[1], limit)]
<1>1. n \in Nat /\ <<>> \in Vals
  BY DEF Ascending
<1>2. StepsIn(step, n, Vals)
  BY WindowsArePairs DEF StepsIn
<1>3. \A k \in 1 .. n : \A v \in Vals : step[<<k, v>>] = AddTransition(v, t, k, limit)
  OBVIOUS
<1>4. \E W : Made(W)
  <2>1. PICK W : StepsTo(W, step, <<>>, n, Vals)
    <3> HIDE DEF step, n, Vals
    <3> QED
      BY <1>1, <1>2, StepsExist
  <2> HIDE DEF step
  <2>2. ASSUME NEW k \in 0 .. n
        PROVE  W[k] = IF k = 0 THEN <<>> ELSE AddTransition(W[k - 1], t, k, limit)
    <3>1. CASE k = 0
      BY <2>1, <3>1 DEF StepsTo
    <3>2. CASE k # 0
      <4>1. k \in 1 .. n /\ W[k - 1] \in Vals
        BY <1>1, <2>1, <3>2 DEF StepsTo
      <4> QED
        BY <1>3, <2>1, <3>2, <4>1 DEF StepsTo
    <3> QED
      BY <3>1, <3>2
  <2>3. Made(W)
    BY <2>1, <2>2 DEF StepsTo
  <2> QED
    BY <2>3
<1> DEFINE w == CHOOSE W : Made(W)
<1>5. Made(w)
  BY <1>4
<1>6. FlashWindows(t, limit) = w[n]
  BY DEF FlashWindows
<1>7. w[0] = <<>> /\ \A k \in 1 .. n : w[k] = AddTransition(w[k - 1], t, k, limit)
  <2>1. n \in Nat /\ Made(w)
    BY <1>1, <1>5
  <2> HIDE DEF w, n
  <2>2. w[0] = <<>>
    BY <2>1
  <2>3. ASSUME NEW k \in 1 .. n PROVE w[k] = AddTransition(w[k - 1], t, k, limit)
    <3>1. k \in 0 .. n /\ k # 0
      BY <2>1
    <3> QED
      BY <2>1, <3>1
  <2> QED
    BY <2>2, <2>3
<1> QED
  BY <1>6, <1>7

\* The windows of all transitions.
LEMMA WindowsFound ==
  ASSUME NEW t, Ascending(t), NEW limit \in Nat
  PROVE  WindowsOf(FlashWindows(t, limit), t, Len(t), limit)
<1> DEFINE n == Len(t)
<1>1. PICK W : /\ FlashWindows(t, limit) = W[n] /\ W[0] = <<>>
               /\ \A k \in 1 .. n : W[k] = AddTransition(W[k - 1], t, k, limit)
  BY WindowSteps
<1> DEFINE S == {k \in 0 .. n : WindowsOf(W[k], t, k, limit)}
<1>2. n \in Nat
  BY DEF Ascending
<1>3. 0 \in S
  <2>1. WindowsOf(<<>>, t, 0, limit)
    BY DEF WindowsOf, Spanned, Apart, Covered
  <2> QED
    BY <1>1, <1>2, <2>1
<1>4. ASSUME NEW k \in 1 .. n, k - 1 \in S PROVE k \in S
  <2>1. WindowsOf(W[k - 1], t, k - 1, limit)
    BY <1>4
  <2>2. WindowsOf(W[k], t, k, limit)
    BY <1>1, <2>1, TransitionAdded
  <2> QED
    BY <2>2
<1>5. n \in S
  <2> HIDE DEF S, n
  <2>1. \A k \in 0 .. n : k \in S
    BY <1>2, <1>3, <1>4, UpTo
  <2> QED
    BY <1>2, <2>1
<1> QED
  BY <1>1, <1>5

\* Whatever transitions there are: the windows are apart, each has too many, and every burst
\* is inside of one (flash_hazard_windows in rules/src/video.rs).
THEOREM FlashWindowsAreExact == AnalysisSpec => []FlashWindowsExact
<1>1. Answered => FlashWindowsExact
  <2> SUFFICES ASSUME Answered, NEW q \in About("flashes"), NEW w \in answer
               PROVE  LET t == q.times
                          inside(a, b) == Cardinality({k \in DOMAIN t : a <= t[k] /\ t[k] <= b})
                      IN  /\ \A i \in 1 .. Len(w) - 1 : w[i][2] < w[i + 1][1]
                          /\ \A i \in DOMAIN w : inside(w[i][1], w[i][2]) > 2 * q.limit
                          /\ \A i, k \in DOMAIN t :
                               (i <= k /\ t[k] - t[i] < Second /\ k - i + 1 > 2 * q.limit) =>
                                 \E n \in DOMAIN w : w[n][1] <= t[i] /\ t[k] <= w[n][2]
    BY DEF FlashWindowsExact
  <2>1. q \in question /\ q.about = "flashes"
    BY DEF About
  <2>2. FlashesAnswered
    <3>1. ~ CustomAnswered
      <4> SUFFICES ASSUME CustomAnswered PROVE FALSE
        OBVIOUS
      <4>1. PICK rule \in CustomRulesAsked, reading \in Readings :
              question = {[about |-> "custom", rule |-> rule, reading |-> reading]}
        BY DEF CustomAnswered
      <4>2. q.about = "custom"
        BY <2>1, <4>1
      <4> QED
        BY <2>1, <4>2
    <3>2. ~ ProfileAnswered
      <4> SUFFICES ASSUME ProfileAnswered PROVE FALSE
        OBVIOUS
      <4>1. q = [about |-> "profile"]
        BY <2>1 DEF ProfileAnswered
      <4> QED
        BY <2>1, <4>1
    <3> QED
      BY <2>1, <3>1, <3>2 DEF Answered
  <2>3. PICK times \in FlashTimes, limit \in FlashLimits :
          /\ question = {[about |-> "flashes", times |-> times, limit |-> limit]}
          /\ answer = {FlashWindows(times, limit)}
    BY <2>2 DEF FlashesAnswered
  <2> DEFINE t == q.times
             l == q.limit
  <2>4. t = times /\ l = limit /\ w = FlashWindows(t, l)
    BY <2>1, <2>3
  <2>5. Ascending(t) /\ l \in Nat
    BY <2>3, <2>4, AnalysisAssumption DEF Ascending
  <2>6. WindowsOf(w, t, Len(t), l)
    BY <2>4, <2>5, WindowsFound
  <2> HIDE DEF t, l
  <2>7. DOMAIN t = 1 .. Len(t) /\ DOMAIN w = 1 .. Len(w) /\ Len(t) \in Nat
    BY <2>5, <2>6 DEF Ascending, WindowsOf
  <2>8. ASSUME NEW i \in DOMAIN w
        PROVE  Cardinality({k \in DOMAIN t : w[i][1] <= t[k] /\ t[k] <= w[i][2]}) > 2 * l
    <3>1. PICK a \in 1 .. Len(t), b \in 1 .. Len(t) : a <= b /\ w[i] = <<t[a], t[b]>> /\ b - a + 1 > 2 * l
      BY <2>6, <2>7 DEF WindowsOf, Spanned
    <3>2. w[i][1] = t[a] /\ w[i][2] = t[b]
      BY <3>1
    <3> DEFINE K == {k \in DOMAIN t : w[i][1] <= t[k] /\ t[k] <= w[i][2]}
    <3>3. a .. b \subseteq K
      <4> SUFFICES ASSUME NEW k \in a .. b PROVE k \in K
        OBVIOUS
      <4>1. k \in 1 .. Len(t) /\ a <= k /\ k <= b
        BY <2>7
      <4>2. t[a] <= t[k] /\ t[k] <= t[b]
        BY <2>5, <4>1 DEF Ascending
      <4> QED
        BY <2>7, <3>2, <4>1, <4>2
    <3>4. a \in Int /\ b \in Int
      BY <2>7
    <3>5. IsFiniteSet(a .. b) /\ Cardinality(a .. b) = b - a + 1
      <4>1. IsFiniteSet(a .. b) /\ Cardinality(a .. b) = IF a > b THEN 0 ELSE b - a + 1
        BY <3>4, FS_Interval
      <4> QED
        BY <3>1, <3>4, <4>1
    <3>6. IsFiniteSet(K)
      <4> DEFINE n == Len(t)
      <4>1. n \in Int /\ 1 \in Int
        BY <2>7
      <4> HIDE DEF n
      <4>2. IsFiniteSet(1 .. n)
        BY <4>1, FS_Interval
      <4>3. K \subseteq 1 .. n
        BY <2>7 DEF n
      <4> QED
        BY <4>2, <4>3, FS_Subset
    <3> HIDE DEF K
    <3>7. Cardinality(a .. b) <= Cardinality(K)
      BY <3>3, <3>6, FS_Subset
    <3>8. Cardinality(K) \in Nat /\ l \in Nat
      BY <2>5, <3>6, FS_CardinalityType
    <3>9. Cardinality(K) > 2 * l
      BY <3>1, <3>4, <3>5, <3>7, <3>8
    <3> QED
      BY <3>9 DEF K
  <2>9. \A i \in 1 .. Len(w) - 1 : w[i][2] < w[i + 1][1]
    BY <2>6 DEF WindowsOf, Apart
  <2>10. \A i, k \in DOMAIN t :
           (i <= k /\ t[k] - t[i] < Second /\ k - i + 1 > 2 * l) =>
             \E n \in DOMAIN w : w[n][1] <= t[i] /\ t[k] <= w[n][2]
    BY <2>6, <2>7 DEF WindowsOf, Covered
  <2> QED
    BY <2>8, <2>9, <2>10 DEF t, l
<1> QED
  BY <1>1, AnsweredInvariance, PTL

-----------------------------------------------------------------------------
(* Segments.                                                               *)

\* The frames in Q before frame n that belong together: the next one on either side is not
\* in Q.  At n itself a run is still open.
Closed(Q, n) ==
  {r \in (1 .. n) \X (1 .. n) :
     /\ r[1] <= r[2] /\ r[2] < n
     /\ \A k \in r[1] .. r[2] : k \in Q
     /\ r[1] - 1 \notin Q /\ r[2] + 1 \notin Q}

EndsOf(to, r) == {to[k] : k \in r[1] .. r[2]}

\* The stretches of the runs R that have a length.
Stretches(R, from, to) ==
  {x \in {<<from[r[1]], Top(EndsOf(to, r))>> : r \in R} : x[1] < x[2]}

\* The open range of a tracker after frame n: from the start of the run to its latest end.
OpenRun(t, Q, n, from, to, l, e) ==
  /\ l - 1 \notin Q /\ \A k \in l .. n : k \in Q
  /\ t.open = {<<from[l], e>>} /\ from[l] <= e
  /\ \A k \in l .. n : to[k] <= e
  /\ e = from[l] \/ \E k \in l .. n : e = to[k]

\* What a tracker knows after n frames, of which those in Q qualified.
Tracked(t, Q, n, from, to) ==
  /\ {"open", "ranges"} = DOMAIN t /\ IsList(t.ranges)
  /\ Q \subseteq 1 .. n
  /\ Range(t.ranges) = Stretches(Closed(Q, n), from, to)
  /\ IF n \in Q THEN \E l \in 1 .. n, e \in Int : OpenRun(t, Q, n, from, to, l, e) ELSE t.open = {}

\* Times are numbers, and no frame starts behind both its own end and the one before.
Timed(n, from, to) ==
  \A k \in 1 .. n : /\ from[k] \in Int /\ to[k] \in Int
                    /\ from[k] <= to[k] \/ (k > 1 /\ from[k] <= to[k - 1])

\* Numbers with an upper bound have a greatest one.
LEMMA TopOf ==
  ASSUME NEW S \in SUBSET Int, S # {}, NEW e \in Int, \A x \in S : x <= e
  PROVE  Top(S) \in S /\ \A x \in S : x <= Top(S)
<1> DEFINE D == {e - x : x \in S}
<1>1. D \in SUBSET Nat /\ D # {}
  <2>1. \A x \in S : e - x \in Nat
    OBVIOUS
  <2> QED
    BY <2>1
<1>2. PICK d \in D : \A c \in D : d <= c
  <2> HIDE DEF D
  <2> QED
    BY <1>1, LeastNumber
<1>3. PICK x \in S : d = e - x
  BY <1>2
<1>4. \A y \in S : y <= x
  <2> SUFFICES ASSUME NEW y \in S PROVE y <= x
    OBVIOUS
  <2>1. e - y \in D
    OBVIOUS
  <2>2. e - x <= e - y
    BY <1>2, <1>3, <2>1
  <2> QED
    BY <2>2
<1> QED
  BY <1>4 DEF Top

\* The ends of a run are numbers with an upper bound: the greatest one is the only one.
LEMMA TopIs ==
  ASSUME NEW S \in SUBSET Int, NEW e \in S, \A x \in S : x <= e
  PROVE  Top(S) = e
<1>1. Top(S) \in S /\ \A x \in S : x <= Top(S)
  BY TopOf
<1>2. Top(S) \in Int /\ e \in Int /\ Top(S) <= e /\ e <= Top(S)
  BY <1>1
<1> QED
  BY <1>2

\* The runs that a frame behind n leaves closed.
LEMMA ClosedStays ==
  ASSUME NEW n \in Nat, NEW Q \in SUBSET (1 .. n)
  PROVE  Closed(Q \cup {n + 1}, n + 1) = Closed(Q, n)
<1> DEFINE P == Q \cup {n + 1}
<1>1. ASSUME NEW r \in (1 .. n + 1) \X (1 .. n + 1), r[1] <= r[2], r[2] < n + 1, r[2] + 1 \notin P
      PROVE  r \in (1 .. n) \X (1 .. n) /\ r[2] < n
  BY <1>1
<1>2. ASSUME NEW r \in (1 .. n) \X (1 .. n), r[1] <= r[2], r[2] < n
      PROVE  /\ (\A k \in r[1] .. r[2] : k \in P) <=> (\A k \in r[1] .. r[2] : k \in Q)
             /\ r[1] - 1 \notin P <=> r[1] - 1 \notin Q
             /\ r[2] + 1 \notin P <=> r[2] + 1 \notin Q
  BY <1>2
<1>3. ASSUME NEW r \in (1 .. n) \X (1 .. n)
      PROVE  r \in (1 .. n + 1) \X (1 .. n + 1) /\ (r[2] < n => r[2] < n + 1)
  OBVIOUS
<1> HIDE DEF P
<1>4. \A r : r \in Closed(P, n + 1) => r \in Closed(Q, n)
  BY <1>1, <1>2 DEF Closed
<1>5. \A r : r \in Closed(Q, n) => r \in Closed(P, n + 1)
  BY <1>2, <1>3 DEF Closed
<1> QED
  BY <1>4, <1>5 DEF P

\* A frame behind n that does not qualify closes the run that ends at n, if there is one.
LEMMA ClosedBy ==
  ASSUME NEW n \in Nat, NEW Q \in SUBSET (1 .. n)
  PROVE  /\ n \notin Q => Closed(Q, n + 1) = Closed(Q, n)
         /\ \A l \in 1 .. n : (l - 1 \notin Q /\ \A k \in l .. n : k \in Q) =>
              Closed(Q, n + 1) = Closed(Q, n) \cup {<<l, n>>}
<1>1. ASSUME NEW r \in Closed(Q, n) PROVE r \in Closed(Q, n + 1)
  BY DEF Closed
<1>2. ASSUME NEW r \in Closed(Q, n + 1), r[2] # n PROVE r \in Closed(Q, n)
  BY <1>2 DEF Closed
<1>3. ASSUME NEW r \in Closed(Q, n + 1) PROVE r[2] = n => n \in Q
  BY DEF Closed
<1>4. ASSUME NEW l \in 1 .. n, l - 1 \notin Q, \A k \in l .. n : k \in Q
      PROVE  Closed(Q, n + 1) = Closed(Q, n) \cup {<<l, n>>}
  <2>1. <<l, n>> \in Closed(Q, n + 1)
    <3>1. <<l, n>> \in (1 .. n + 1) \X (1 .. n + 1) /\ n + 1 \notin Q
      OBVIOUS
    <3> QED
      BY <1>4, <3>1 DEF Closed
  <2>2. ASSUME NEW r \in Closed(Q, n + 1), r[2] = n PROVE r = <<l, n>>
    <3>1. /\ r \in (1 .. n + 1) \X (1 .. n + 1) /\ r[1] <= n
          /\ \A k \in r[1] .. n : k \in Q
          /\ r[1] - 1 \notin Q
      BY <2>2 DEF Closed
    <3>2. ~ (r[1] < l)
      BY <1>4, <3>1
    <3>3. ~ (l < r[1])
      BY <1>4, <3>1
    <3> QED
      BY <2>2, <3>1, <3>2, <3>3
  <2> QED
    BY <1>1, <1>2, <2>1, <2>2
<1> QED
  BY <1>1, <1>2, <1>3, <1>4

\* A qualifying frame opens a run or belongs to the open one.
LEMMA TrackedOn ==
  ASSUME NEW n \in Nat, NEW t, NEW Q, NEW from, NEW to, Tracked(t, Q, n, from, to), Timed(n + 1, from, to)
  PROVE  Tracked(Track(t, from[n + 1], to[n + 1], TRUE), Q \cup {n + 1}, n + 1, from, to)
<1> DEFINE u == Track(t, from[n + 1], to[n + 1], TRUE)
           P == Q \cup {n + 1}
           m == Greatest(from[n + 1], to[n + 1])
<1>1. Q \in SUBSET (1 .. n) /\ DOMAIN t = {"open", "ranges"}
  BY DEF Tracked
<1>2. from[n + 1] \in Int /\ to[n + 1] \in Int /\ (from[n + 1] <= to[n + 1] \/ (n > 0 /\ from[n + 1] <= to[n]))
  BY DEF Timed
<1>3. m \in Int /\ from[n + 1] <= m /\ to[n + 1] <= m /\ (m = from[n + 1] \/ m = to[n + 1])
  BY <1>2 DEF Greatest
<1>4. /\ DOMAIN u = {"open", "ranges"} /\ u.ranges = t.ranges
      /\ u.open = IF t.open = {} THEN {<<from[n + 1], m>>} ELSE {<<r[1], Greatest(r[2], m)>> : r \in t.open}
  BY <1>1 DEF Track
<1>5. P \subseteq 1 .. n + 1 /\ n + 1 \in P
  BY <1>1
<1>6. Range(u.ranges) = Stretches(Closed(P, n + 1), from, to) /\ IsList(u.ranges)
  BY <1>1, <1>4, ClosedStays DEF Tracked
<1> HIDE DEF u, m
<1>7. \E l \in 1 .. n + 1, e \in Int : OpenRun(u, P, n + 1, from, to, l, e)
  <2>1. CASE n \notin Q
    <3>1. u.open = {<<from[n + 1], m>>}
      BY <1>4, <2>1 DEF Tracked
    <3>2. n \notin P /\ \A k \in n + 1 .. n + 1 : k = n + 1
      BY <2>1
    <3>3. OpenRun(u, P, n + 1, from, to, n + 1, m)
      BY <1>3, <1>5, <3>1, <3>2 DEF OpenRun
    <3>4. n + 1 \in 1 .. n + 1
      OBVIOUS
    <3> QED
      BY <1>3, <3>3, <3>4
  <2>2. CASE n \in Q
    <3>1. PICK l \in 1 .. n, e \in Int : OpenRun(t, Q, n, from, to, l, e)
      BY <2>2 DEF Tracked
    <3> DEFINE g == Greatest(e, m)
    <3>2. g \in Int /\ e <= g /\ m <= g /\ (g = e \/ (g = m /\ e < m))
      BY <1>3 DEF Greatest
    <3>3. u.open = {<<from[l], g>>}
      BY <1>4, <3>1 DEF OpenRun
    <3>4. from[l] \in Int /\ \A k \in l .. n + 1 : to[k] \in Int
      BY DEF Timed
    <3>5. \A k \in l .. n + 1 : k \in l .. n \/ k = n + 1
      OBVIOUS
    <3>6. n \in l .. n /\ n + 1 \in l .. n + 1 /\ \A k \in l .. n : k \in l .. n + 1
      OBVIOUS
    <3> HIDE DEF g
    <3>7. \A k \in l .. n + 1 : to[k] <= g
      BY <1>3, <3>1, <3>2, <3>4, <3>5 DEF OpenRun
    <3>8. g = from[l] \/ \E k \in l .. n + 1 : g = to[k]
      <4>1. CASE g = e
        BY <3>1, <3>6, <4>1 DEF OpenRun
      <4>2. CASE g = m /\ e < m
        <5>1. to[n] <= e
          BY <3>1, <3>6 DEF OpenRun
        <5>2. m = to[n + 1]
          BY <1>2, <1>3, <3>4, <3>6, <4>2, <5>1
        <5> QED
          BY <3>6, <4>2, <5>2
      <4> QED
        BY <3>2, <4>1, <4>2
    <3>9. l - 1 \notin P /\ \A k \in l .. n + 1 : k \in P
      BY <3>1, <3>5 DEF OpenRun
    <3>10. from[l] <= g
      BY <3>1, <3>2, <3>4 DEF OpenRun
    <3>11. OpenRun(u, P, n + 1, from, to, l, g) /\ l \in 1 .. n + 1
      BY <3>3, <3>7, <3>8, <3>9, <3>10 DEF OpenRun
    <3> QED
      BY <3>2, <3>11
  <2> QED
    BY <2>1, <2>2
<1>8. Tracked(u, P, n + 1, from, to)
  BY <1>4, <1>5, <1>6, <1>7 DEF Tracked
<1> QED
  BY <1>8 DEF u

\* A frame that does not qualify, or the end, closes the open run.
LEMMA TrackedOff ==
  ASSUME NEW n \in Nat, NEW t, NEW Q, NEW from, NEW to, Tracked(t, Q, n, from, to), Timed(n, from, to)
  PROVE  Tracked(Flush(t), Q, n + 1, from, to)
<1> DEFINE u == Flush(t)
<1>1. Q \in SUBSET (1 .. n) /\ IsList(t.ranges)
  BY DEF Tracked
<1>2. Q \subseteq 1 .. n + 1 /\ n + 1 \notin Q
  BY <1>1
<1>3. DOMAIN u = {"open", "ranges"} /\ u.open = {}
  BY DEF Flush
<1>4. u.ranges = IF \E r \in t.open : r[1] < r[2] THEN Append(t.ranges, CHOOSE r \in t.open : TRUE) ELSE t.ranges
  BY DEF Flush
<1> HIDE DEF u
<1>5. IsList(u.ranges) /\ Range(u.ranges) = Stretches(Closed(Q, n + 1), from, to)
  <2>1. CASE n \notin Q
    <3>1. u.ranges = t.ranges /\ Closed(Q, n + 1) = Closed(Q, n)
      BY <1>1, <1>4, <2>1, ClosedBy DEF Tracked
    <3> QED
      BY <3>1 DEF Tracked
  <2>2. CASE n \in Q
    <3>1. PICK l \in 1 .. n, e \in Int : OpenRun(t, Q, n, from, to, l, e)
      BY <2>2 DEF Tracked
    <3> DEFINE E == EndsOf(to, <<l, n>>)
               old == Stretches(Closed(Q, n), from, to)
    <3>2. Stretches(Closed(Q, n + 1), from, to) = old \cup Stretches({<<l, n>>}, from, to)
      <4>1. Closed(Q, n + 1) = Closed(Q, n) \cup {<<l, n>>}
        BY <1>1, <3>1, ClosedBy DEF OpenRun
      <4>2. \A R, r : Stretches(R \cup {r}, from, to) = Stretches(R, from, to) \cup Stretches({r}, from, to)
        BY DEF Stretches
      <4>3. Stretches(Closed(Q, n) \cup {<<l, n>>}, from, to) = old \cup Stretches({<<l, n>>}, from, to)
        BY <4>2, Zenon
      <4> QED
        BY <4>1, <4>3
    <3>3. Range(t.ranges) = old
      BY DEF Tracked
    <3>4. E = {to[k] : k \in l .. n} /\ E \in SUBSET Int /\ from[l] \in Int /\ from[l] <= e
      BY <3>1 DEF EndsOf, OpenRun, Timed
    <3>5. \A x \in E : x <= e
      BY <3>1, <3>4 DEF OpenRun
    <3>6. Stretches({<<l, n>>}, from, to) = {x \in {<<from[l], Top(E)>>} : x[1] < x[2]}
      BY DEF Stretches
    <3> HIDE DEF E, old
    <3>7. CASE from[l] < e
      <4>1. e \in E
        BY <3>1, <3>4, <3>7 DEF OpenRun
      <4>2. Top(E) = e
        BY <3>4, <3>5, <4>1, TopIs
      <4>3. Stretches({<<l, n>>}, from, to) = {<<from[l], e>>}
        BY <3>6, <3>7, <4>2
      <4>4. u.ranges = Append(t.ranges, <<from[l], e>>)
        <5>1. t.open = {<<from[l], e>>}
          BY <3>1 DEF OpenRun
        <5>2. \E r \in t.open : r[1] < r[2]
          BY <3>7, <5>1
        <5>3. (CHOOSE r \in t.open : TRUE) = <<from[l], e>>
          <6>1. (CHOOSE r \in t.open : TRUE) \in t.open
            BY <5>1
          <6> QED
            BY <5>1, <6>1
        <5> QED
          BY <1>4, <5>2, <5>3
      <4>5. IsList(u.ranges) /\ Range(u.ranges) = Range(t.ranges) \cup {<<from[l], e>>}
        BY <1>1, <4>4, LongerList
      <4> QED
        BY <3>2, <3>3, <4>3, <4>5
    <3>8. CASE ~ (from[l] < e)
      <4>1. E # {}
        <5>1. n \in l .. n
          OBVIOUS
        <5> QED
          BY <3>4, <5>1
      <4>2. Top(E) \in E /\ Top(E) <= e /\ Top(E) \in Int
        BY <3>4, <3>5, <4>1, TopOf
      <4>3. ~ (from[l] < Top(E))
        BY <3>4, <3>8, <4>2
      <4>4. Stretches({<<l, n>>}, from, to) = {}
        BY <3>6, <4>3
      <4>5. u.ranges = t.ranges
        <5>1. t.open = {<<from[l], e>>}
          BY <3>1 DEF OpenRun
        <5> QED
          BY <1>4, <3>8, <5>1
      <4> QED
        BY <1>1, <3>2, <3>3, <4>4, <4>5
    <3> QED
      BY <3>7, <3>8
  <2> QED
    BY <2>1, <2>2
<1>6. Tracked(u, Q, n + 1, from, to)
  BY <1>2, <1>3, <1>5 DEF Tracked
<1> QED
  BY <1>6 DEF u

\* Only the times of the frames so far matter.
LEMMA TrackedSame ==
  ASSUME NEW n \in Nat, NEW t, NEW Q, NEW from, NEW to, NEW from2, NEW to2,
         Tracked(t, Q, n, from, to), \A k \in 1 .. n : from2[k] = from[k] /\ to2[k] = to[k]
  PROVE  Tracked(t, Q, n, from2, to2)
<1>1. Q \in SUBSET (1 .. n)
  BY DEF Tracked
<1>2. ASSUME NEW r \in Closed(Q, n) PROVE from2[r[1]] = from[r[1]] /\ EndsOf(to2, r) = EndsOf(to, r)
  <2>1. r[1] \in 1 .. n /\ \A k \in r[1] .. r[2] : k \in 1 .. n
    BY DEF Closed
  <2>2. \A k \in r[1] .. r[2] : to2[k] = to[k]
    BY <2>1
  <2> QED
    BY <2>1, <2>2 DEF EndsOf
<1>3. Stretches(Closed(Q, n), from2, to2) = Stretches(Closed(Q, n), from, to)
  BY <1>2 DEF Stretches
<1>4. ASSUME n \in Q PROVE \E l \in 1 .. n, e \in Int : OpenRun(t, Q, n, from2, to2, l, e)
  <2>1. PICK l \in 1 .. n, e \in Int : OpenRun(t, Q, n, from, to, l, e)
    BY <1>4 DEF Tracked
  <2>2. from2[l] = from[l] /\ \A k \in l .. n : to2[k] = to[k]
    OBVIOUS
  <2>3. OpenRun(t, Q, n, from2, to2, l, e)
    BY <2>1, <2>2 DEF OpenRun
  <2> QED
    BY <2>3
<1> QED
  BY <1>3, <1>4 DEF Tracked

\* The frames that are black, and those that look like the one before.
Blacks(s) == {k \in 1 .. Len(s) : \A c \in DOMAIN s[k].picture.luma : s[k].picture.luma[c] <= BlackLevel}
Still(s, k) == LooksFrozen([luma |-> s[k - 1].picture.luma], s[k].picture.luma)
Frozen(s) == {k \in 1 .. Len(s) : k > 1 /\ Still(s, k)}

\* Where a black and where a frozen stretch begins that begins with a frame, and its end.
Starts(s) == [k \in 1 .. Len(s) |-> s[k].at]
Before(s) == [k \in 1 .. Len(s) |-> IF k = 1 THEN s[1].at ELSE s[k - 1].at]
Stops(s)  == [k \in 1 .. Len(s) |-> s[k].at + s[k].for]

\* A plane of levels.
Plane(q) == IsList(q) /\ q # <<>> /\ \A v \in Range(q) : v \in Nat /\ v <= 255

\* A list of analyzed frames.
FrameList(s) ==
  IsList(s) /\ \A k \in 1 .. Len(s) : s[k].at \in Int /\ s[k].for \in Nat /\ Plane(s[k].picture.luma)

\* An analyzer knows the last frame, and the stretches of all frames.
Followed(a, s) ==
  /\ {"nominal", "previous", "black", "freeze"} \subseteq DOMAIN a
  /\ a.previous = IF s = <<>> THEN {}
                  ELSE {[at |-> s[Len(s)].at, for |-> s[Len(s)].for, luma |-> s[Len(s)].picture.luma]}
  /\ Tracked(a.black, Blacks(s), Len(s), Starts(s), Stops(s))
  /\ Tracked(a.freeze, Frozen(s), Len(s), Before(s), Stops(s))

\* The levels of a plane stay below a limit if the highest does.
LEMMA TopLevel ==
  ASSUME NEW q, Plane(q)
  PROVE  Top(Levels(q)) <= BlackLevel <=> \A c \in DOMAIN q : q[c] <= BlackLevel
<1>1. q \in Seq(Range(q)) /\ q # <<>> /\ \A v \in Range(q) : v \in Nat /\ v <= 255
  BY DEF Plane, IsList
<1>2. DOMAIN q = 1 .. Len(q) /\ Len(q) \in Nat /\ 1 \in DOMAIN q /\ Levels(q) = Range(q)
  BY <1>1 DEF Levels, Range
<1>3. Levels(q) \in SUBSET Int /\ Levels(q) # {} /\ \A x \in Levels(q) : x <= 255
  <2>1. q[1] \in Range(q)
    BY <1>2 DEF Range
  <2> QED
    BY <1>1, <1>2, <2>1
<1>4. Top(Levels(q)) \in Levels(q) /\ \A x \in Levels(q) : x <= Top(Levels(q))
  <2>1. \A S \in SUBSET Int : S # {} /\ (\A x \in S : x <= 255) => Top(S) \in S /\ \A x \in S : x <= Top(S)
    <3>1. 255 \in Int
      OBVIOUS
    <3> QED
      BY <3>1, TopOf, Zenon
  <2> QED
    BY <1>3, <2>1, Zenon
<1>5. Top(Levels(q)) \in Int /\ BlackLevel \in Int
  BY <1>3, <1>4 DEF BlackLevel
<1> DEFINE t == Top(Levels(q))
<1>6. \A c \in DOMAIN q : q[c] \in Levels(q) /\ q[c] \in Int
  BY <1>3 DEF Levels
<1>7. \E c \in DOMAIN q : t = q[c]
  <2>1. \A x \in Levels(q) : \E c \in DOMAIN q : x = q[c]
    BY DEF Levels
  <2> HIDE DEF t
  <2> QED
    BY <1>4, <2>1 DEF t
<1>8. \A c \in DOMAIN q : q[c] <= t
  BY <1>4, <1>6
<1> HIDE DEF t
<1>9. t \in Int /\ BlackLevel \in Int
  BY <1>5 DEF t
<1>10. t <= BlackLevel <=> \A c \in DOMAIN q : q[c] <= BlackLevel
  BY <1>6, <1>7, <1>8, <1>9
<1> QED
  BY <1>10 DEF t

\* Times are numbers and durations are not negative.
LEMMA FrameTimes ==
  ASSUME NEW s, FrameList(s), NEW a, Followed(a, s), NEW frame, frame.pts \in SUBSET Int
  PROVE  FrameTime(a, frame) \in Int /\ FrameDuration(a, FrameTime(a, frame)) \in Nat
<1> DEFINE n == Len(s)
           last == [at |-> s[n].at, for |-> s[n].for, luma |-> s[n].picture.luma]
           at == FrameTime(a, frame)
<1>1. a.previous = {} \/ (a.previous = {last} /\ last.at \in Int /\ last.for \in Nat)
  <2>1. CASE s = <<>>
    BY <2>1 DEF Followed
  <2>2. CASE s # <<>>
    <3>1. s \in Seq(Range(s))
      BY DEF FrameList, IsList
    <3>2. n \in 1 .. Len(s)
      BY <2>2, <3>1
    <3> QED
      BY <2>2, <3>2 DEF FrameList, Followed
  <2> QED
    BY <2>1, <2>2
<1> HIDE DEF last
<1>2. at \in Int
  <2>1. CASE \E t \in frame.pts : t >= 0
    BY <2>1 DEF FrameTime
  <2>2. CASE ~ (\E t \in frame.pts : t >= 0) /\ a.previous # {}
    <3>1. at = CHOOSE t \in {p.at + p.for : p \in a.previous} : TRUE
      BY <2>2 DEF FrameTime
    <3>2. {p.at + p.for : p \in a.previous} = {last.at + last.for}
      BY <1>1, <2>2
    <3>3. at = last.at + last.for
      BY <3>1, <3>2
    <3> QED
      BY <1>1, <2>2, <3>3
  <2>3. CASE ~ (\E t \in frame.pts : t >= 0) /\ a.previous = {}
    BY <2>3 DEF FrameTime
  <2> QED
    BY <2>1, <2>2, <2>3
<1> HIDE DEF at
<1>3. FrameDuration(a, at) \in Nat
  <2> DEFINE nominal == {(1000000 + r \div 2) \div r : r \in {x \in a.nominal : x \in 1 .. FastestRate}}
             since == {at - p.at : p \in {q \in a.previous : q.at <= at}}
  <2>1. nominal \subseteq Nat
    <3>1. \A k \in Nat : \A r \in 1 .. k : (1000000 + r \div 2) \div r \in Nat
      OBVIOUS
    <3>2. FastestRate \in Nat
      BY DEF FastestRate
    <3> QED
      BY <3>1, <3>2
  <2>2. since \subseteq Nat
    BY <1>1, <1>2
  <2>3. FrameDuration(a, at) = IF nominal # {} THEN CHOOSE d \in nominal : TRUE
                               ELSE IF since # {} THEN CHOOSE d \in since : TRUE ELSE 1
    BY DEF FrameDuration
  <2> HIDE DEF nominal, since
  <2>4. CASE nominal # {}
    BY <2>1, <2>3, <2>4
  <2>5. CASE nominal = {} /\ since # {}
    BY <2>2, <2>3, <2>5
  <2>6. CASE nominal = {} /\ since = {}
    BY <2>3, <2>6
  <2> QED
    BY <2>4, <2>5, <2>6
<1> QED
  BY <1>2, <1>3 DEF at

\* What a pushed frame does to the trackers of an analyzer.
Advanced(a, frame, at, for, b) ==
  /\ {"nominal", "previous", "black", "freeze"} \subseteq DOMAIN b
  /\ b.previous = {[at |-> at, for |-> for, luma |-> frame.luma]}
  /\ b.black = Track(a.black, at, at + for, Top(Levels(frame.luma)) <= BlackLevel)
  /\ a.previous = {} => b.freeze = a.freeze
  /\ \A p : a.previous = {p} => b.freeze = Track(a.freeze, p.at, at + for, LooksFrozen(p, frame.luma))

\* A push advances the analyzer by the frame.
LEMMA PushTracks ==
  ASSUME NEW a, {"nominal", "previous", "black", "freeze"} \subseteq DOMAIN a, NEW frame, NEW at, NEW for,
         at = FrameTime(a, frame), for = FrameDuration(a, at), NEW b, b = AnalyzerPush(a, frame)
  PROVE  Advanced(a, frame, at, for, b)
<1>1. "nominal" \in DOMAIN b /\ "previous" \in DOMAIN b /\ "black" \in DOMAIN b /\ "freeze" \in DOMAIN b
  BY Zenon DEF AnalyzerPush
<1>2. b.previous = {[at |-> at, for |-> for, luma |-> frame.luma]}
  BY SMT DEF AnalyzerPush
<1>3. b.black = Track(a.black, at, at + for, Top(Levels(frame.luma)) <= BlackLevel)
  BY SMT DEF AnalyzerPush
<1>4. a.previous = {} => b.freeze = a.freeze
  BY SMT DEF AnalyzerPush
<1>5. ASSUME NEW p, a.previous = {p}
      PROVE  b.freeze = Track(a.freeze, p.at, at + for, LooksFrozen(p, frame.luma))
  BY <1>5, SMT DEF AnalyzerPush
<1> QED
  BY <1>1, <1>2, <1>3, <1>4, <1>5 DEF Advanced

\* A longer list has the same frames, and one more.
LEMMA OneMore ==
  ASSUME NEW s, NEW e, IsList(s)
  PROVE  /\ Len(s) \in Nat /\ Len(Append(s, e)) = Len(s) + 1 /\ Append(s, e) # <<>>
         /\ \A k \in 1 .. Len(s) : Append(s, e)[k] = s[k]
         /\ Append(s, e)[Len(s) + 1] = e
<1>1. s \in Seq(Range(s) \cup {e})
  BY DEF IsList
<1> QED
  BY <1>1

\* The frames of a list have times in order, so far as it matters.
LEMMA TimesAreTimed ==
  ASSUME NEW s, FrameList(s)
  PROVE  Timed(Len(s), Starts(s), Stops(s)) /\ Timed(Len(s), Before(s), Stops(s))
<1> DEFINE n == Len(s)
<1>1. n \in Nat
  <2>1. s \in Seq(Range(s))
    BY DEF FrameList, IsList
  <2> QED
    BY <2>1
<1>2. \A k \in 1 .. n : s[k].at \in Int /\ s[k].for \in Nat
  BY DEF FrameList
<1>3. \A k \in 1 .. n : /\ Starts(s)[k] = s[k].at /\ Stops(s)[k] = s[k].at + s[k].for
                        /\ Before(s)[k] = IF k = 1 THEN s[1].at ELSE s[k - 1].at
  BY DEF Starts, Stops, Before
<1> HIDE DEF n
<1>4. ASSUME NEW k \in 1 .. n
      PROVE  /\ Starts(s)[k] \in Int /\ Stops(s)[k] \in Int /\ Before(s)[k] \in Int
             /\ Starts(s)[k] <= Stops(s)[k]
             /\ Before(s)[k] <= Stops(s)[k] \/ (k > 1 /\ Before(s)[k] <= Stops(s)[k - 1])
  <2>1. CASE k = 1
    BY <1>2, <1>3, <2>1
  <2>2. CASE k # 1
    <3>1. k - 1 \in 1 .. n /\ k > 1
      BY <1>1, <2>2
    <3>2. Before(s)[k] = s[k - 1].at /\ Stops(s)[k - 1] = s[k - 1].at + s[k - 1].for
      BY <1>3, <2>2, <3>1
    <3> QED
      BY <1>2, <1>3, <3>1, <3>2
  <2> QED
    BY <2>1, <2>2
<1> QED
  BY <1>4 DEF Timed, n

\* The frame that is pushed joins those that the analyzer follows.
LEMMA FrameFollowed ==
  ASSUME NEW s, FrameList(s), NEW a, Followed(a, s), NEW frame, frame.pts \in SUBSET Int, Plane(frame.luma),
         NEW e, e.at = FrameTime(a, frame), e.for = FrameDuration(a, e.at), e.picture.luma = frame.luma
  PROVE  FrameList(Append(s, e)) /\ Followed(AnalyzerPush(a, frame), Append(s, e))
<1> DEFINE n == Len(s)
           u == Append(s, e)
           b == AnalyzerPush(a, frame)
           at == e.at
           for == e.for
           luma == frame.luma
<1>1. /\ n \in Nat /\ Len(u) = n + 1 /\ u # <<>> /\ u[n + 1] = e
      /\ \A k \in 1 .. n : u[k] = s[k]
      /\ n = 0 <=> s = <<>>
  <2>1. s \in Seq(Range(s))
    BY DEF FrameList, IsList
  <2> QED
    BY <2>1, OneMore DEF FrameList
<1>2. at \in Int /\ for \in Nat
  BY FrameTimes
<1>3. /\ {"nominal", "previous", "black", "freeze"} \subseteq DOMAIN b
      /\ b.previous = {[at |-> at, for |-> for, luma |-> luma]}
      /\ b.black = Track(a.black, at, at + for, Top(Levels(luma)) <= BlackLevel)
      /\ a.previous = {} => b.freeze = a.freeze
      /\ \A p : a.previous = {p} => b.freeze = Track(a.freeze, p.at, at + for, LooksFrozen(p, luma))
  <2>1. {"nominal", "previous", "black", "freeze"} \subseteq DOMAIN a
    BY DEF Followed
  <2>2. b = AnalyzerPush(a, frame)
    OBVIOUS
  <2>3. at = FrameTime(a, frame) /\ for = FrameDuration(a, at)
    OBVIOUS
  <2> HIDE DEF b, at, for, luma
  <2>4. Advanced(a, frame, at, for, b)
    BY <2>1, <2>2, <2>3, PushTracks
  <2> QED
    BY <2>4 DEF luma, Advanced
<1> HIDE DEF b
<1>4. FrameList(u)
  <2>1. IsList(u)
    BY LongerList DEF FrameList
  <2>2. \A k \in 1 .. n + 1 : k \in 1 .. n \/ k = n + 1
    BY <1>1
  <2> QED
    BY <1>1, <1>2, <2>1, <2>2 DEF FrameList
<1>5. \A k \in 1 .. n + 1 : u[k].at \in Int /\ u[k].for \in Nat
  BY <1>1, <1>4 DEF FrameList
<1>6. /\ Timed(n + 1, Starts(u), Stops(u)) /\ Timed(n + 1, Before(u), Stops(u))
      /\ Starts(u)[n + 1] = at /\ Stops(u)[n + 1] = at + for
  <2>1. Timed(n + 1, Starts(u), Stops(u)) /\ Timed(n + 1, Before(u), Stops(u))
    BY <1>1, <1>4, TimesAreTimed
  <2>2. n + 1 \in 1 .. Len(u)
    BY <1>1
  <2> HIDE DEF u, n
  <2> QED
    BY <1>1, <2>1, <2>2 DEF Starts, Stops
<1>7. \A k \in 1 .. n : /\ Starts(u)[k] = Starts(s)[k] /\ Stops(u)[k] = Stops(s)[k]
                        /\ Before(u)[k] = Before(s)[k]
  BY <1>1 DEF Starts, Stops, Before
<1>8. /\ Tracked(a.black, Blacks(s), n, Starts(u), Stops(u))
      /\ Tracked(a.freeze, Frozen(s), n, Before(u), Stops(u))
  BY <1>1, <1>7, TrackedSame DEF Followed
<1>9. \A t, start, end : Track(t, start, end, FALSE) = Flush(t)
  BY DEF Track
<1> HIDE DEF u, n
<1>10. ASSUME NEW from, NEW to, Timed(n + 1, from, to), NEW t, NEW Q, Tracked(t, Q, n, from, to),
              NEW q \in BOOLEAN
       PROVE  Tracked(Track(t, from[n + 1], to[n + 1], q), IF q THEN Q \cup {n + 1} ELSE Q, n + 1, from, to)
  <2>1. Timed(n, from, to)
    BY <1>1, <1>10 DEF Timed
  <2>2. CASE q
    BY <1>1, <1>10, <2>2, TrackedOn
  <2>3. CASE ~ q
    BY <1>1, <1>9, <1>10, <2>1, <2>3, TrackedOff
  <2> QED
    BY <2>2, <2>3
<1>11. Tracked(b.black, Blacks(u), n + 1, Starts(u), Stops(u))
  <2> DEFINE q == Top(Levels(luma)) <= BlackLevel
  <2>1. q <=> \A c \in DOMAIN luma : luma[c] <= BlackLevel
    BY TopLevel
  <2>2. Blacks(u) = IF q THEN Blacks(s) \cup {n + 1} ELSE Blacks(s)
    <3> HIDE DEF q
    <3>1. \A k \in 1 .. n + 1 : k \in 1 .. n \/ k = n + 1
      BY <1>1
    <3>2. ASSUME NEW k \in 1 .. n PROVE k \in Blacks(u) <=> k \in Blacks(s)
      BY <1>1 DEF Blacks, n
    <3>3. n + 1 \in Blacks(u) <=> q
      BY <1>1, <2>1 DEF Blacks
    <3>4. Blacks(u) \subseteq 1 .. n + 1 /\ Blacks(s) \subseteq 1 .. n /\ n + 1 \notin Blacks(s)
      BY <1>1 DEF Blacks, n
    <3>5. n \in Nat
      BY <1>1
    <3> QED
      BY <3>1, <3>2, <3>3, <3>4, <3>5
  <2>3. q \in BOOLEAN
    OBVIOUS
  <2>4. b.black = Track(a.black, Starts(u)[n + 1], Stops(u)[n + 1], q)
    BY <1>3, <1>6
  <2> HIDE DEF q
  <2> QED
    BY <1>6, <1>8, <1>10, <2>2, <2>3, <2>4
<1>12. Tracked(b.freeze, Frozen(u), n + 1, Before(u), Stops(u))
  <2>1. ASSUME NEW k \in 1 .. n PROVE k \in Frozen(u) <=> k \in Frozen(s)
    <3>1. u[k] = s[k] /\ (k > 1 => u[k - 1] = s[k - 1])
      BY <1>1
    <3> QED
      BY <1>1, <3>1 DEF Frozen, Still, n
  <2>2. Frozen(u) \subseteq 1 .. n + 1 /\ Frozen(s) \subseteq 1 .. n /\ n + 1 \notin Frozen(s)
    BY <1>1 DEF Frozen, n
  <2>3. CASE n = 0
    <3>1. b.freeze = a.freeze
      BY <1>1, <1>3, <2>3 DEF Followed
    <3>2. Frozen(u) = {} /\ Frozen(s) = {}
      BY <1>1, <2>3 DEF Frozen, n
    <3>3. Closed({}, 1) = Closed({}, 0)
      BY DEF Closed
    <3>4. Tracked(a.freeze, {}, 0, Before(u), Stops(u))
      BY <1>8, <2>3, <3>2
    <3>5. Tracked(a.freeze, {}, 1, Before(u), Stops(u))
      BY <3>3, <3>4 DEF Tracked
    <3> QED
      BY <2>3, <3>1, <3>2, <3>5
  <2>4. CASE n # 0
    <3> DEFINE p == [at |-> s[n].at, for |-> s[n].for, luma |-> s[n].picture.luma]
               q == LooksFrozen(p, luma)
    <3>1. a.previous = {p}
      BY <1>1, <2>4 DEF Followed, n
    <3>2. b.freeze = Track(a.freeze, p.at, at + for, q)
      BY <1>3, <3>1
    <3>3. p.at = Before(u)[n + 1]
      BY <1>1, <2>4 DEF Before
    <3>4. q \in BOOLEAN /\ (q <=> LooksFrozen([luma |-> s[n].picture.luma], luma))
      BY DEF LooksFrozen
    <3> HIDE DEF p, q
    <3>5. n + 1 \in Frozen(u) <=> q
      <4>1. n + 1 > 1 /\ n + 1 \in 1 .. Len(u) /\ n + 1 - 1 = n /\ u[n] = s[n] /\ u[n + 1].picture.luma = luma
        BY <1>1, <2>4
      <4>2. n + 1 \in Frozen(u) <=> Still(u, n + 1)
        BY <4>1 DEF Frozen
      <4>3. Still(u, n + 1) = LooksFrozen([luma |-> s[n].picture.luma], luma)
        <5>1. u[(n + 1) - 1].picture.luma = s[n].picture.luma /\ u[n + 1].picture.luma = luma
          <6>1. (n + 1) - 1 = n
            BY <1>1
          <6> QED
            BY <4>1, <6>1
        <5>2. Still(u, n + 1) = LooksFrozen([luma |-> u[(n + 1) - 1].picture.luma], u[n + 1].picture.luma)
          BY Zenon DEF Still
        <5> HIDE DEF luma
        <5> QED
          BY <5>1, <5>2, Zenon
      <4> QED
        BY <3>4, <4>2, <4>3
    <3>6. Frozen(u) = IF q THEN Frozen(s) \cup {n + 1} ELSE Frozen(s)
      <4>1. \A k \in 1 .. n + 1 : k \in 1 .. n \/ k = n + 1
        BY <1>1
      <4> QED
        BY <2>1, <2>2, <3>5, <4>1
    <3>7. b.freeze = Track(a.freeze, Before(u)[n + 1], Stops(u)[n + 1], q)
      BY <1>6, <3>2, <3>3
    <3> QED
      BY <1>6, <1>8, <1>10, <3>4, <3>6, <3>7
  <2> QED
    BY <2>3, <2>4
<1>13. b.previous = {[at |-> u[n + 1].at, for |-> u[n + 1].for, luma |-> u[n + 1].picture.luma]}
  BY <1>1, <1>3
<1> QED
  BY <1>1, <1>3, <1>4, <1>11, <1>12, <1>13 DEF Followed, u, b
\* The measurements have exactly the stretches of the frames.
Exact(m, s) ==
  /\ Range(m.blackRanges) = Stretches(Closed(Blacks(s), Len(s) + 1), Starts(s), Stops(s))
  /\ Range(m.freezeRanges) = Stretches(Closed(Frozen(s), Len(s) + 1), Before(s), Stops(s))

\* What the decoder makes of a packet.
Sound(frame) == frame.pts \in SUBSET Int /\ Plane(frame.luma)

\* While frames come, the analyzer follows those that were shown.
Watched ==
  /\ stage \in {"idle", "video"} => held = <<>>
  /\ stage \in {"packets", "flush", "finish"} =>
       /\ FrameList(shown) /\ IsList(held) /\ \A frame \in Range(held) : Sound(frame)
       /\ \A a \in analyzer : Followed(a, shown)

\* Then the chosen stream has measurements, and these the stretches of the frames.
Reported ==
  (stage \in {"audio", "samples"} \cup AfterSound /\ shown # <<>>) =>
    /\ IsList(shown)
    /\ source.stream \in StreamsIn(Found.video)
    /\ \A m \in Range(Found.video) : m.stream = source.stream => Exact(m, shown)

\* A new analyzer follows no frames.
LEMMA NewFollowed ==
  ASSUME NEW nominal
  PROVE  Followed(NewAnalyzer(nominal), <<>>) /\ FrameList(<<>>)
<1> DEFINE a == NewAnalyzer(nominal)
<1>1. Len(<<>>) = 0 /\ IsList(<<>>) /\ Range(<<>>) = {}
  <2>1. <<>> \in Seq({}) /\ Len(<<>>) = 0
    OBVIOUS
  <2>2. IsList(<<>>) /\ Range(<<>>) = {<<>>[k] : k \in 1 .. Len(<<>>)}
    BY <2>1, SequenceIsList
  <2>3. \A k : k \notin 1 .. 0
    OBVIOUS
  <2> QED
    BY <2>1, <2>2, <2>3
<1>2. /\ {"nominal", "previous", "black", "freeze"} \subseteq DOMAIN a
      /\ a.previous = {} /\ a.black = NewTracker /\ a.freeze = NewTracker
  BY DEF NewAnalyzer
<1> HIDE DEF a
<1>3. Blacks(<<>>) = {} /\ Frozen(<<>>) = {}
  BY <1>1 DEF Blacks, Frozen
<1>4. \A from, to : Tracked(NewTracker, {}, 0, from, to)
  <2>1. \A from, to : Stretches(Closed({}, 0), from, to) = {}
    BY DEF Stretches, Closed
  <2> QED
    BY <1>1, <2>1 DEF Tracked, NewTracker
<1>5. Followed(a, <<>>)
  BY <1>1, <1>2, <1>3, <1>4 DEF Followed
<1>6. FrameList(<<>>)
  BY <1>1 DEF FrameList
<1> QED
  BY <1>5, <1>6 DEF a

\* A frame that passes the analyzer is followed.
LEMMA PushFollowed ==
  ASSUME NEW frame, Push(frame), Sound(frame), FrameList(shown), \A a \in analyzer : Followed(a, shown)
  PROVE  FrameList(shown') /\ \A a \in analyzer' : Followed(a, shown')
<1> DEFINE entry(a) == [at |-> FrameTime(a, frame), for |-> FrameDuration(a, FrameTime(a, frame)), picture |-> frame]
<1>1. PICK a \in analyzer : analyzer' = {AnalyzerPush(a, frame)} /\ shown' = Append(shown, entry(a))
  BY DEF Push
<1> DEFINE e == entry(a)
<1>2. e.at = FrameTime(a, frame) /\ e.for = FrameDuration(a, e.at) /\ e.picture.luma = frame.luma
  OBVIOUS
<1>3. shown' = Append(shown, e)
  BY <1>1
<1> HIDE DEF e
<1>4. FrameList(Append(shown, e)) /\ Followed(AnalyzerPush(a, frame), Append(shown, e))
  BY <1>1, <1>2, FrameFollowed DEF Sound
<1> QED
  BY <1>1, <1>3, <1>4

\* The time of the next frame is a number, or none.
LEMMA NextTime ==
  ASSUME FrameList(shown), IsList(held), \A frame \in Range(held) : Sound(frame), NEW pts \in NextTimes
  PROVE  pts \in SUBSET Int
<1> DEFINE last == IF shown = <<>> /\ held = <<>> THEN {0}
                   ELSE IF held # <<>> THEN held[Len(held)].pts ELSE {shown[Len(shown)].at}
<1>1. last \in SUBSET Int
  <2>1. CASE held # <<>>
    <3>1. held \in Seq(Range(held))
      BY DEF IsList
    <3>2. held[Len(held)] \in Range(held)
      BY <2>1, <3>1
    <3> QED
      BY <2>1, <3>2 DEF Sound
  <2>2. CASE held = <<>> /\ shown # <<>>
    <3>1. shown \in Seq(Range(shown))
      BY DEF FrameList, IsList
    <3>2. Len(shown) \in 1 .. Len(shown)
      BY <2>2, <3>1
    <3> QED
      BY <2>2, <3>2 DEF FrameList
  <2>3. CASE held = <<>> /\ shown = <<>>
    BY <2>3
  <2> QED
    BY <2>1, <2>2, <2>3
<1>2. pts \in {{}} \cup {{t + g} : t \in last, g \in Gaps}
  BY DEF NextTimes
<1>3. Gaps \subseteq Int
  BY InspectAssumption
<1> HIDE DEF last
<1> QED
  BY <1>1, <1>2, <1>3

\* The pictures are planes.
LEMMA PicturesArePlanes ==
  ASSUME NEW picture \in Pictures
  PROVE  Plane(picture.luma)
<1>1. IsList(picture.luma) /\ picture.luma # <<>> /\ Range(picture.luma) \subseteq 0 .. 255
  BY InspectAssumption
<1>2. \A v \in 0 .. 255 : v \in Nat /\ v <= 255
  OBVIOUS
<1> QED
  BY <1>1, <1>2 DEF Plane

\* The first of the frames that are kept back, and the others.
LEMMA Queued ==
  ASSUME NEW queue, IsList(queue), queue # <<>>
  PROVE  Head(queue) \in Range(queue) /\ IsList(Tail(queue)) /\ Range(Tail(queue)) \subseteq Range(queue)
<1>1. queue \in Seq(Range(queue))
  BY DEF IsList
<1>2. Head(queue) \in Range(queue) /\ Tail(queue) \in Seq(Range(queue))
  BY <1>1
<1>3. IsList(Tail(queue)) /\ Range(Tail(queue)) = {Tail(queue)[k] : k \in 1 .. Len(Tail(queue))}
  BY <1>2, SequenceIsList
<1>4. \A k \in 1 .. Len(Tail(queue)) : Tail(queue)[k] \in Range(queue)
  BY <1>2
<1> QED
  BY <1>2, <1>3, <1>4

\* The frames that a packet brings, or that the decoder kept back, are followed.
LEMMA PacketWatched ==
  ASSUME Watched, stage = "packets", ReadPacket
  PROVE  FrameList(shown') /\ IsList(held') /\ (\A frame \in Range(held') : Sound(frame))
         /\ \A a \in analyzer' : Followed(a, shown')
<1>1. /\ FrameList(shown) /\ IsList(held) /\ \A frame \in Range(held) : Sound(frame)
      /\ \A a \in analyzer : Followed(a, shown)
  BY DEF Watched
<1>2. PICK picture \in Pictures, pts \in NextTimes :
        LET frame == [luma |-> picture.luma, red |-> picture.red, block |-> picture.block, blur |-> picture.blur,
                      noise |-> picture.noise, pts |-> pts]
            queue == Append(held, frame)
        IN  \/ /\ held' = Tail(queue) /\ Push(Head(queue))
            \/ /\ source.codec = "av1" /\ held = <<>>
               /\ held' = queue /\ UNCHANGED <<analyzer, shown>>
  BY DEF ReadPacket
<1> DEFINE frame == [luma |-> picture.luma, red |-> picture.red, block |-> picture.block, blur |-> picture.blur,
                     noise |-> picture.noise, pts |-> pts]
           queue == Append(held, frame)
<1>3. \/ held' = Tail(queue) /\ Push(Head(queue))
      \/ held' = queue /\ analyzer' = analyzer /\ shown' = shown
  BY <1>2
<1>4. Sound(frame)
  <2>1. pts \in SUBSET Int
    BY <1>1, NextTime
  <2>2. Plane(picture.luma)
    BY PicturesArePlanes
  <2> QED
    BY <2>1, <2>2 DEF Sound
<1> HIDE DEF frame
<1>5. IsList(queue) /\ Range(queue) = Range(held) \cup {frame}
  BY <1>1, LongerList
<1>6. queue # <<>>
  BY <1>1, OneMore
<1>7. \A f \in Range(queue) : Sound(f)
  BY <1>1, <1>4, <1>5
<1> HIDE DEF queue
<1>8. Head(queue) \in Range(queue) /\ IsList(Tail(queue)) /\ Range(Tail(queue)) \subseteq Range(queue)
  BY <1>5, <1>6, Queued
<1>9. CASE held' = Tail(queue) /\ Push(Head(queue))
  <2>1. FrameList(shown') /\ \A a \in analyzer' : Followed(a, shown')
    BY <1>1, <1>7, <1>8, <1>9, PushFollowed
  <2> QED
    BY <1>7, <1>8, <1>9, <2>1
<1>10. CASE held' = queue /\ analyzer' = analyzer /\ shown' = shown
  BY <1>1, <1>5, <1>7, <1>10
<1> QED
  BY <1>3, <1>9, <1>10

\* Every step of the inspection keeps the frames followed.
LEMMA WatchedStep ==
  ASSUME Inspected, Watched, InspectNext
  PROVE  Watched'
<1>1. ASSUME stage' \notin {"idle", "video", "packets", "flush", "finish"} PROVE Watched'
  BY <1>1 DEF Watched
<1>2. ASSUME stage \in {"packets", "flush", "finish"}, stage' \in {"packets", "flush", "finish"},
             UNCHANGED <<held, analyzer, shown>>
      PROVE  Watched'
  BY <1>2 DEF Watched
<1>3. ASSUME NEW failed \in BOOLEAN, GiveUpVideo(failed) PROVE Watched'
  BY <1>1, <1>3 DEF GiveUpVideo
<1>4. ASSUME NEW failed \in BOOLEAN, GiveUpAudio(failed) PROVE Watched'
  BY <1>1, <1>4 DEF GiveUpAudio
<1>5. CASE InspectMetadata
  <2>1. stage = "idle" /\ held' = held /\ stage' \in {"failed", "video"}
    BY <1>5 DEF InspectMetadata
  <2> QED
    BY <2>1 DEF Watched
<1>6. CASE SkipDecode
  BY <1>1, <1>6 DEF SkipDecode
<1>7. CASE OpenVideo
  <2>1. stage = "video" /\ shown = <<>> /\ held = <<>>
    BY <1>7 DEF OpenVideo, Inspected, Counted, Watched
  <2>2. CASE stage' = "audio"
    BY <1>1, <2>2
  <2>3. CASE GiveUpVideo(FALSE) \/ GiveUpVideo(TRUE)
    BY <1>3, <2>3
  <2>4. CASE stage' = "packets" /\ \E nominal : analyzer' = {NewAnalyzer(nominal)} /\ UNCHANGED <<held, shown>>
    <3>1. PICK nominal : analyzer' = {NewAnalyzer(nominal)}
      BY <2>4
    <3>2. shown' = <<>> /\ held' = <<>>
      BY <2>1, <2>4
    <3>3. \A frame \in Range(<<>>) : Sound(frame)
      BY DEF Range
    <3> QED
      BY <2>4, <3>1, <3>2, <3>3, NewFollowed DEF Watched, FrameList
  <2> QED
    BY <1>7, <2>2, <2>3, <2>4 DEF OpenVideo
<1>8. CASE DemuxFails
  BY <1>3, <1>8 DEF DemuxFails
<1>9. CASE ReadPacket
  <2>1. stage = "packets" /\ stage' \in {"packets", "flush"}
    BY <1>9 DEF ReadPacket
  <2> QED
    BY <1>9, <2>1, PacketWatched DEF Watched
<1>10. CASE ReadSilentPacket
  BY <1>2, <1>10 DEF ReadSilentPacket
<1>11. CASE DecodeFails
  BY <1>3, <1>11 DEF DecodeFails
<1>12. CASE EndOfPackets
  BY <1>2, <1>3, <1>12 DEF EndOfPackets
<1>13. CASE FlushDecoder
  <2>1. /\ stage = "flush" /\ stage' = "finish" /\ held' = <<>>
        /\ IF held = <<>> THEN UNCHANGED <<analyzer, shown>> ELSE Push(Head(held))
    BY <1>13 DEF FlushDecoder
  <2>2. /\ FrameList(shown) /\ IsList(held) /\ \A frame \in Range(held) : Sound(frame)
        /\ \A a \in analyzer : Followed(a, shown)
    BY <2>1 DEF Watched
  <2>3. FrameList(shown') /\ \A a \in analyzer' : Followed(a, shown')
    <3>1. CASE held = <<>>
      BY <2>1, <2>2, <3>1
    <3>2. CASE held # <<>>
      BY <2>1, <2>2, <3>2, Queued, PushFollowed
    <3> QED
      BY <3>1, <3>2
  <2>4. IsList(<<>>) /\ \A frame \in Range(<<>>) : Sound(frame)
    BY NewFollowed DEF FrameList, Range
  <2> QED
    BY <2>1, <2>3, <2>4 DEF Watched
<1>14. CASE FinishVideo
  <2>1. GiveUpVideo(FALSE) \/ stage' = "audio"
    BY <1>14, Zenon DEF FinishVideo
  <2> QED
    BY <1>1, <1>3, <2>1
<1>15. CASE OpenAudio
  BY <1>1, <1>4, <1>15 DEF OpenAudio
<1>16. CASE DecodeSamples
  BY <1>1, <1>16 DEF DecodeSamples
<1>17. CASE SamplesFail
  BY <1>4, <1>17 DEF SamplesFail
<1>18. CASE FinishAudio
  BY <1>1, <1>4, <1>18 DEF FinishAudio
<1>19. CASE AnalyzeAndMerge
  BY <1>1, <1>19 DEF AnalyzeAndMerge
<1>20. CASE NextAsset
  BY <1>20 DEF NextAsset, Watched
<1> QED
  BY <1>5, <1>6, <1>7, <1>8, <1>9, <1>10, <1>11, <1>12, <1>13, <1>14, <1>15, <1>16, <1>17, <1>18, <1>19, <1>20
     DEF InspectNext

\* The end of the stream closes the last stretch, and the measurements have them all.
LEMMA StretchesFinished ==
  ASSUME NEW a, NEW s, FrameList(s), Followed(a, s), NEW wide
  PROVE  Exact(AnalyzerFinish(a, wide), s)
<1>1. Len(s) \in Nat
  <2>1. s \in Seq(Range(s))
    BY DEF FrameList, IsList
  <2> QED
    BY <2>1
<1>2. Timed(Len(s), Starts(s), Stops(s)) /\ Timed(Len(s), Before(s), Stops(s))
  BY TimesAreTimed
<1>3. /\ Tracked(Flush(a.black), Blacks(s), Len(s) + 1, Starts(s), Stops(s))
      /\ Tracked(Flush(a.freeze), Frozen(s), Len(s) + 1, Before(s), Stops(s))
  BY <1>1, <1>2, TrackedOff DEF Followed
<1>4. /\ AnalyzerFinish(a, wide).blackRanges = Flush(a.black).ranges
      /\ AnalyzerFinish(a, wide).freezeRanges = Flush(a.freeze).ranges
  BY DEF AnalyzerFinish
<1> QED
  BY <1>3, <1>4 DEF Exact, Tracked

\* The measurements that replace those of the chosen stream are exact.
LEMMA StretchesReported ==
  ASSUME Inspected, Watched, FinishVideo, ~ GiveUpVideo(FALSE)
  PROVE  Reported'
<1>1. stage = "finish" /\ stage \in BeforeFrames /\ stage \in Opened
  BY Zenon DEF FinishVideo, Opened, BeforeSound, BeforeFrames
<1> DEFINE put(a, colors, hdrs) ==
             LET entry == [AnalyzerFinish(a, Wide) EXCEPT !.stream = source.stream, !.colorspace = colors, !.hdr = hdrs]
             IN  /\ a.count # 0
                 /\ inspection' = {[Found EXCEPT !.video = ByStream(Append(Without(@, {source.stream}), entry))]}
                 /\ stage' = "audio"
                 /\ UNCHANGED <<file, source, seen, held, analyzer, shown, ear, heard>>
<1>2. PICK a \in analyzer : \E colors, hdrs : put(a, colors, hdrs)
  BY Zenon DEF FinishVideo
<1>3. PICK colors, hdrs : put(a, colors, hdrs)
  BY <1>2, Zenon
<1> DEFINE m == AnalyzerFinish(a, Wide)
           entry == [m EXCEPT !.stream = source.stream, !.colorspace = colors, !.hdr = hdrs]
           kept == Without(Found.video, {source.stream})
           new == ByStream(Append(kept, entry))
           g == [Found EXCEPT !.video = new]
<1>4. Found' = g /\ source' = source /\ shown' = shown
  BY <1>3, SameFile
<1>5. InspectionFields \subseteq DOMAIN Found /\ VideoList(Found.video)
  BY <1>1 DEF Inspected, Reading
<1>6. entry.stream = source.stream /\ entry.blackRanges = m.blackRanges /\ entry.freezeRanges = m.freezeRanges
  BY DEF AnalyzerFinish
<1> HIDE DEF entry, m
<1>7. Exact(entry, shown) /\ IsList(shown)
  <2>1. FrameList(shown) /\ Followed(a, shown)
    BY <1>1 DEF Watched
  <2>2. Exact(m, shown)
    BY <2>1, StretchesFinished DEF m
  <2> QED
    BY <1>6, <2>1, <2>2 DEF Exact, FrameList
<1>8. Range(new) = {v \in Range(Found.video) : v.stream \notin {source.stream}} \cup {entry}
  <2>1. IsList(kept) /\ Range(kept) = {v \in Range(Found.video) : v.stream \notin {source.stream}}
    BY <1>5, WithoutStreams DEF VideoList
  <2> HIDE DEF kept, new
  <2>2. IsList(Append(kept, entry)) /\ Range(Append(kept, entry)) = Range(kept) \cup {entry}
    BY <2>1, LongerList
  <2> QED
    BY <2>1, <2>2, SortedList DEF new
<1> HIDE DEF new
<1>9. g.video = new
  BY <1>5 DEF InspectionFields
<1> HIDE DEF g
<1> QED
  BY <1>4, <1>6, <1>7, <1>8, <1>9 DEF Reported, StreamsIn

\* Every step of the inspection keeps the reported stretches exact.
LEMMA ReportedStep ==
  ASSUME Inspected, Watched, Reported, InspectNext
  PROVE  Reported'
<1> DEFINE Measured == {"audio", "samples"} \cup AfterSound
<1>1. ASSUME stage' \notin Measured \/ shown' = <<>> PROVE Reported'
  BY <1>1 DEF Reported
<1>2. ASSUME stage \in Measured, source' = source, shown' = shown, Found'.video = Found.video PROVE Reported'
  BY <1>2 DEF Reported, StreamsIn
<1>3. ASSUME NEW failed \in BOOLEAN, GiveUpVideo(failed) PROVE Reported'
  BY <1>1, <1>3 DEF GiveUpVideo
<1>4. stage \in Opened => InspectionFields \subseteq DOMAIN Found
  BY DEF Inspected, Reading
<1>5. Measured \subseteq Opened
  BY DEF Opened, BeforeSound
<1>6. ASSUME NEW failed \in BOOLEAN, stage \in Measured, GiveUpAudio(failed) PROVE Reported'
  <2>1. /\ Found' = [Found EXCEPT !.audio = IncompleteAudio(@, FirstAudio, failed)]
        /\ source' = source /\ shown' = shown
    BY <1>6, SameFile DEF GiveUpAudio
  <2>2. Found'.video = Found.video
    BY <1>4, <1>5, <1>6, <2>1 DEF InspectionFields
  <2> QED
    BY <1>2, <1>6, <2>1, <2>2
<1>7. "audio" \in Measured /\ "samples" \in Measured /\ "voice" \in Measured
  BY DEF AfterSound
<1>8. \A s \in {"idle", "failed", "video", "packets", "flush", "finish"} : s \notin Measured
  BY DEF AfterSound
<1> HIDE DEF Measured
<1>9. CASE InspectMetadata
  BY <1>1, <1>8, <1>9 DEF InspectMetadata
<1>10. CASE SkipDecode
  <2>1. shown' = <<>>
    BY <1>10 DEF SkipDecode, Inspected, Counted
  <2> QED
    BY <1>1, <2>1
<1>11. CASE OpenVideo
  <2>1. shown = <<>>
    BY <1>11 DEF OpenVideo, Inspected, Counted
  <2>2. shown' = <<>>
    BY <1>11, <2>1 DEF OpenVideo, GiveUpVideo
  <2> QED
    BY <1>1, <2>2
<1>12. CASE DemuxFails
  BY <1>3, <1>12 DEF DemuxFails
<1>13. CASE ReadPacket \/ ReadSilentPacket
  <2>1. stage' \in {"packets", "flush"}
    BY <1>13 DEF ReadPacket, ReadSilentPacket
  <2> QED
    BY <1>1, <1>8, <2>1
<1>14. CASE DecodeFails
  BY <1>3, <1>14 DEF DecodeFails
<1>15. CASE EndOfPackets
  BY <1>1, <1>3, <1>8, <1>15 DEF EndOfPackets
<1>16. CASE FlushDecoder
  BY <1>1, <1>8, <1>16 DEF FlushDecoder
<1>17. CASE FinishVideo
  BY <1>3, <1>17, StretchesReported
<1>18. CASE OpenAudio
  <2>1. stage = "audio"
    BY <1>18 DEF OpenAudio
  <2>2. CASE GiveUpAudio(FALSE) \/ GiveUpAudio(TRUE)
    BY <1>6, <1>7, <2>1, <2>2
  <2>3. CASE UNCHANGED <<inspection, source, shown>>
    BY <1>2, <1>7, <2>1, <2>3, SameFile
  <2> QED
    BY <1>18, <2>2, <2>3 DEF OpenAudio
<1>19. CASE DecodeSamples
  <2>1. stage = "samples" /\ UNCHANGED <<inspection, source, shown>>
    BY <1>19 DEF DecodeSamples
  <2> QED
    BY <1>2, <1>7, <2>1, SameFile
<1>20. CASE SamplesFail
  BY <1>6, <1>7, <1>20 DEF SamplesFail
<1>21. CASE FinishAudio
  <2>1. stage = "samples"
    BY <1>21 DEF FinishAudio
  <2>2. CASE GiveUpAudio(TRUE)
    BY <1>6, <1>7, <2>1, <2>2
  <2>3. CASE ~ GiveUpAudio(TRUE)
    <3>1. PICK audio : inspection' = {[Found EXCEPT !.audio = audio]}
      BY <1>21, <2>3, Zenon DEF FinishAudio
    <3>2. source' = source /\ shown' = shown
      BY <1>21, <2>3, Zenon DEF FinishAudio
    <3>3. Found' = [Found EXCEPT !.audio = audio]
      BY <3>1, SameFile
    <3>4. Found'.video = Found.video
      BY <1>4, <1>5, <1>7, <2>1, <3>3 DEF InspectionFields
    <3> QED
      BY <1>2, <1>7, <2>1, <3>2, <3>4
  <2> QED
    BY <2>2, <2>3
<1>22. CASE AnalyzeAndMerge
  <2>1. stage = "voice" /\ UNCHANGED <<file, source, shown>>
    BY <1>22 DEF AnalyzeAndMerge
  <2>2. stage \in Opened
    BY <2>1 DEF Opened, AfterSound
  <2>3. PICK voice : inspection' = {MergeInspections(Metadata(TheFile), [Found EXCEPT !.voice = voice])}
    BY <1>22 DEF AnalyzeAndMerge
  <2> DEFINE meta == Metadata(TheFile)
             decoded == [Found EXCEPT !.voice = voice]
             g == MergeInspections(meta, decoded)
  <2>4. Found' = g
    BY <2>3, SameFile
  <2>5. /\ VideoList(Found.video) /\ IsList(meta.video)
        /\ InspectionFields \subseteq DOMAIN Found /\ InspectionFields \subseteq DOMAIN meta
    BY <2>2, MetadataIsBlank DEF Inspected, Reading, VideoList
  <2>6. decoded.video = Found.video
    BY <2>5 DEF InspectionFields
  <2> HIDE DEF meta, decoded
  <2>7. g.video = MergeByStream(meta.video, Found.video)
    BY <2>5, <2>6 DEF MergeInspections, InspectionFields
  <2> HIDE DEF g
  <2>8. Range(g.video) = {m \in Range(meta.video) : m.stream \notin StreamsIn(Found.video)} \cup Range(Found.video)
    BY <2>5, <2>7, Merged DEF VideoList
  <2>9. shown # <<>> => /\ IsList(shown)
                        /\ source.stream \in StreamsIn(Found.video)
                        /\ \A m \in Range(Found.video) : m.stream = source.stream => Exact(m, shown)
    BY <2>1 DEF Reported, AfterSound
  <2> QED
    BY <2>1, <2>4, <2>8, <2>9 DEF Reported, StreamsIn
<1>23. CASE NextAsset
  BY <1>1, <1>23 DEF NextAsset
<1> QED
  BY <1>9, <1>10, <1>11, <1>12, <1>13, <1>14, <1>15, <1>16, <1>17, <1>18, <1>19, <1>20, <1>21, <1>22, <1>23
     DEF InspectNext

\* The frames are followed, and their stretches reported.
THEOREM StretchesInvariance == AnalysisSpec => [](Watched /\ Reported)
<1>1. AnalysisInit => Watched /\ Reported
  BY DEF AnalysisInit, InspectInit, Watched, Reported, AfterSound
<1>2. Inspected /\ Watched /\ Reported /\ [AnalysisNext]_vars => (Watched /\ Reported)'
  <2> SUFFICES ASSUME Inspected, Watched, Reported, [AnalysisNext]_vars
               PROVE  Watched' /\ Reported'
    OBVIOUS
  <2>1. ASSUME UNCHANGED inspectVars PROVE Watched' /\ Reported'
    <3>1. UNCHANGED <<file, stage, inspection, source, seen, held, analyzer, shown, ear, heard>>
      BY <2>1 DEF inspectVars
    <3>2. Found' = Found
      BY <3>1, SameFile
    <3> QED
      BY <3>1, <3>2 DEF Watched, Reported
  <2>2. CASE Look
    BY <2>2, WatchedStep, ReportedStep DEF Look
  <2>3. CASE Judge
    <3>1. /\ stage = "rules" /\ stage' = "judged"
          /\ UNCHANGED <<file, inspection, source, seen, held, analyzer, shown, ear, heard>>
      BY <2>3 DEF Judge
    <3>2. Found' = Found
      BY <3>1, SameFile
    <3> QED
      BY <3>1, <3>2 DEF Watched, Reported, AfterSound
  <2>4. CASE AskProfile \/ AskCustom \/ AskFlashes \/ Forget
    BY <2>1, <2>4 DEF AskProfile, AskCustom, AskFlashes, Asks, Forget
  <2>5. CASE UNCHANGED vars
    BY <2>1, <2>5 DEF vars
  <2> QED
    BY <2>2, <2>3, <2>4, <2>5 DEF AnalysisNext
<1>3. AnalysisSpec => []Inspected
  BY Invariance, PTL
<1> QED
  BY <1>1, <1>2, <1>3, PTL DEF AnalysisSpec

\* The runs that are closed after the last frame are the maximal ones.
LEMMA RunsClosed ==
  ASSUME NEW n \in Nat, NEW Q \in SUBSET (1 .. n)
  PROVE  Closed(Q, n + 1) =
           {r \in (1 .. n) \X (1 .. n) :
              /\ r[1] <= r[2] /\ \A k \in r[1] .. r[2] : k \in Q
              /\ r[1] = 1 \/ r[1] - 1 \notin Q
              /\ r[2] = n \/ r[2] + 1 \notin Q}
<1> DEFINE M == {r \in (1 .. n) \X (1 .. n) :
                   /\ r[1] <= r[2] /\ \A k \in r[1] .. r[2] : k \in Q
                   /\ r[1] = 1 \/ r[1] - 1 \notin Q
                   /\ r[2] = n \/ r[2] + 1 \notin Q}
<1>1. ASSUME NEW r \in Closed(Q, n + 1) PROVE r \in M
  <2>1. /\ r \in (1 .. n + 1) \X (1 .. n + 1) /\ r[1] <= r[2] /\ r[2] < n + 1
        /\ \A k \in r[1] .. r[2] : k \in Q
        /\ r[1] - 1 \notin Q /\ r[2] + 1 \notin Q
    BY DEF Closed
  <2>2. r \in (1 .. n) \X (1 .. n)
    BY <2>1
  <2> QED
    BY <2>1, <2>2
<1>2. ASSUME NEW r \in M PROVE r \in Closed(Q, n + 1)
  <2>1. /\ r \in (1 .. n) \X (1 .. n) /\ r[1] <= r[2]
        /\ \A k \in r[1] .. r[2] : k \in Q
        /\ r[1] = 1 \/ r[1] - 1 \notin Q
        /\ r[2] = n \/ r[2] + 1 \notin Q
    OBVIOUS
  <2>2. r \in (1 .. n + 1) \X (1 .. n + 1) /\ r[2] < n + 1
    BY <2>1
  <2>3. r[1] - 1 \notin Q /\ r[2] + 1 \notin Q
    BY <2>1
  <2> QED
    BY <2>1, <2>2, <2>3 DEF Closed
<1> HIDE DEF M
<1>3. Closed(Q, n + 1) = M
  BY <1>1, <1>2
<1> QED
  BY <1>3 DEF M

\* The reported stretches are those of the maximal runs, as the property states it.
THEOREM SegmentsAreExact == AnalysisSpec => []SegmentsExact
<1>1. Inspected /\ Watched /\ Reported => SegmentsExact
  <2> SUFFICES ASSUME Inspected, Reported, Judged, shown # <<>>
               PROVE  LET m == CHOOSE v \in {Found.video[i] : i \in DOMAIN Found.video} : v.stream = source.stream
                          black(k) == \A c \in DOMAIN shown[k].picture.luma : shown[k].picture.luma[c] <= BlackLevel
                          frozen(k) == k > 1 /\ LooksFrozen([luma |-> shown[k - 1].picture.luma], shown[k].picture.luma)
                          long(S) == {x \in S : x[1] < x[2]}
                      IN  /\ Range(m.blackRanges) = long({<<shown[r[1]].at, Top(Ends(r))>> : r \in Runs(black)})
                          /\ Range(m.freezeRanges) = long({<<shown[r[1] - 1].at, Top(Ends(r))>> : r \in Runs(frozen)})
    BY DEF SegmentsExact
  <2> DEFINE m == CHOOSE v \in {Found.video[i] : i \in DOMAIN Found.video} : v.stream = source.stream
             n == Len(shown)
             black(k) == \A c \in DOMAIN shown[k].picture.luma : shown[k].picture.luma[c] <= BlackLevel
             frozen(k) == k > 1 /\ LooksFrozen([luma |-> shown[k - 1].picture.luma], shown[k].picture.luma)
             long(S) == {x \in S : x[1] < x[2]}
  <2>1. Exact(m, shown) /\ IsList(shown)
    <3>1. /\ IsList(shown)
          /\ source.stream \in StreamsIn(Found.video)
          /\ \A v \in Range(Found.video) : v.stream = source.stream => Exact(v, shown)
      BY DEF Reported, Judged, AfterSound
    <3>2. {Found.video[i] : i \in DOMAIN Found.video} = Range(Found.video)
      BY DEF Range
    <3>3. \E v \in {Found.video[i] : i \in DOMAIN Found.video} : v.stream = source.stream
      BY <3>1, <3>2 DEF StreamsIn
    <3>4. m \in Range(Found.video) /\ m.stream = source.stream
      BY <3>2, <3>3
    <3> QED
      BY <3>1, <3>4
  <2>2. n \in Nat
    <3>1. shown \in Seq(Range(shown))
      BY <2>1 DEF IsList
    <3> QED
      BY <3>1
  <2> HIDE DEF m
  <2>3. \A r : r \in (1 .. n) \X (1 .. n) => EndsOf(Stops(shown), r) = Ends(r)
    <3> SUFFICES ASSUME NEW r \in (1 .. n) \X (1 .. n) PROVE EndsOf(Stops(shown), r) = Ends(r)
      OBVIOUS
    <3>1. \A k \in r[1] .. r[2] : Stops(shown)[k] = shown[k].at + shown[k].for
      BY <2>2 DEF Stops
    <3> QED
      BY <3>1 DEF EndsOf, Ends
  <2>4. Range(m.blackRanges) = long({<<shown[r[1]].at, Top(Ends(r))>> : r \in Runs(black)})
    <3>1. Closed(Blacks(shown), n + 1) = Runs(black)
      <4>1. Blacks(shown) \in SUBSET (1 .. n) /\ \A k \in 1 .. n : k \in Blacks(shown) <=> black(k)
        BY DEF Blacks
      <4> HIDE DEF black
      <4>2. Runs(black) = {r \in (1 .. n) \X (1 .. n) :
                             /\ r[1] <= r[2] /\ \A k \in r[1] .. r[2] : black(k)
                             /\ r[1] = 1 \/ ~black(r[1] - 1)
                             /\ r[2] = n \/ ~black(r[2] + 1)}
        BY DEF Runs
      <4>3. ASSUME NEW r \in (1 .. n) \X (1 .. n)
            PROVE  /\ (\A k \in r[1] .. r[2] : black(k)) <=> (\A k \in r[1] .. r[2] : k \in Blacks(shown))
                   /\ r[1] # 1 => (black(r[1] - 1) <=> r[1] - 1 \in Blacks(shown))
                   /\ r[2] # n => (black(r[2] + 1) <=> r[2] + 1 \in Blacks(shown))
        BY <2>2, <4>1
      <4> HIDE DEF n
      <4> QED
        BY <2>2, <4>1, <4>2, <4>3, RunsClosed
    <3>2. \A r \in Runs(black) : r \in (1 .. n) \X (1 .. n)
      BY DEF Runs
    <3>3. \A r \in Runs(black) : Starts(shown)[r[1]] = shown[r[1]].at
      BY <3>2 DEF Starts
    <3>4. Range(m.blackRanges) = Stretches(Runs(black), Starts(shown), Stops(shown))
      BY <2>1, <3>1 DEF Exact
    <3> QED
      BY <2>3, <3>2, <3>3, <3>4 DEF Stretches
  <2>5. Range(m.freezeRanges) = long({<<shown[r[1] - 1].at, Top(Ends(r))>> : r \in Runs(frozen)})
    <3>1. Closed(Frozen(shown), n + 1) = Runs(frozen)
      <4>1. Frozen(shown) \in SUBSET (1 .. n) /\ \A k \in 1 .. n : k \in Frozen(shown) <=> frozen(k)
        BY DEF Frozen, Still
      <4> HIDE DEF frozen
      <4>2. Runs(frozen) = {r \in (1 .. n) \X (1 .. n) :
                              /\ r[1] <= r[2] /\ \A k \in r[1] .. r[2] : frozen(k)
                              /\ r[1] = 1 \/ ~frozen(r[1] - 1)
                              /\ r[2] = n \/ ~frozen(r[2] + 1)}
        BY DEF Runs
      <4>3. ASSUME NEW r \in (1 .. n) \X (1 .. n)
            PROVE  /\ (\A k \in r[1] .. r[2] : frozen(k)) <=> (\A k \in r[1] .. r[2] : k \in Frozen(shown))
                   /\ r[1] # 1 => (frozen(r[1] - 1) <=> r[1] - 1 \in Frozen(shown))
                   /\ r[2] # n => (frozen(r[2] + 1) <=> r[2] + 1 \in Frozen(shown))
        BY <2>2, <4>1
      <4> HIDE DEF n
      <4> QED
        BY <2>2, <4>1, <4>2, <4>3, RunsClosed
    <3>2. \A r \in Runs(frozen) : r \in (1 .. n) \X (1 .. n) /\ r[1] # 1
      <4> SUFFICES ASSUME NEW r \in Runs(frozen) PROVE r \in (1 .. n) \X (1 .. n) /\ r[1] # 1
        OBVIOUS
      <4>1. r \in (1 .. n) \X (1 .. n) /\ r[1] <= r[2] /\ \A k \in r[1] .. r[2] : frozen(k)
        BY DEF Runs
      <4>2. frozen(r[1])
        BY <4>1
      <4> QED
        BY <4>1, <4>2
    <3>3. \A r \in Runs(frozen) : Before(shown)[r[1]] = shown[r[1] - 1].at
      BY <3>2 DEF Before
    <3>4. Range(m.freezeRanges) = Stretches(Runs(frozen), Before(shown), Stops(shown))
      BY <2>1, <3>1 DEF Exact
    <3> QED
      BY <2>3, <3>2, <3>3, <3>4 DEF Stretches
  <2> QED
    BY <2>4, <2>5 DEF m
<1> QED
  BY <1>1, Invariance, StretchesInvariance, PTL

-----------------------------------------------------------------------------
(* Lost data.                                                              *)

\* A walk through a Matroska file that noticed that something is missing.
Misses(w) == "truncated" \in DOMAIN w /\ w.truncated

\* No element of a cluster takes the notice back.
LEMMA ElementMisses ==
  ASSUME NEW w, Misses(w), NEW e, NEW limit, NEW length
  PROVE  Misses(ScanElement(w, e, limit, length))
<1> DEFINE end == EndOf(e, w.pos, limit)
           there == [w EXCEPT !.pos = end.at, !.truncated = @ \/ end.clipped]
<1>1. Misses(BadHeader(w, length))
  BY DEF Misses, BadHeader
<1>2. Misses([w EXCEPT !.broken = TRUE, !.stopped = TRUE])
  BY DEF Misses
<1>3. Misses(there)
  BY DEF Misses
<1> HIDE DEF there, end
<1>4. Misses([there EXCEPT !.cluster = IF end.clipped THEN 0 ELSE e.time])
  BY <1>3 DEF Misses
<1>5. Misses(Account(there, e))
  BY <1>3 DEF Misses, Account
<1> QED
  BY <1>1, <1>2, <1>3, <1>4, <1>5 DEF ScanElement, there, end

\* The elements of a cluster are looked at one by one, up to its end.
ClusterStart(w, c, end) == [w EXCEPT !.pos = @ + c.header, !.cluster = 0, !.truncated = @ \/ end.clipped]

ClusterScanned(g, w, c, end, length, result) ==
  /\ g[0] = ClusterStart(w, c, end)
  /\ \A i \in 1 .. Len(c.elements) : g[i] = ScanElement(g[i - 1], c.elements[i], end.at, length)
  /\ result = g[Len(c.elements)] \/ result = [g[Len(c.elements)] EXCEPT !.pos = end.at]

\* Such steps there are for every cluster, and the scan is what the last one leaves.
LEMMA ScanSteps ==
  ASSUME NEW w, NEW c, IsList(c.elements), NEW limit, NEW length
  PROVE  \E g : ClusterScanned(g, w, c, EndOf(c, w.pos, limit), length, ScanCluster(w, c, limit, length))
<1> DEFINE end == EndOf(c, w.pos, limit)
           to == end.at
           start == ClusterStart(w, c, end)
           Made(h, m) == h = [n \in 0 .. m |-> IF n = 0 THEN start ELSE ScanElement(h[n - 1], c.elements[n], to, length)]
           S == {m \in Nat : \E h : Made(h, m)}
           len == Len(c.elements)
           f == CHOOSE h : Made(h, len)
<1>1. len \in Nat
  BY DEF IsList
<1>2. ScanCluster(w, c, limit, length) = IF c.size = {} \/ f[len].stopped THEN f[len] ELSE [f[len] EXCEPT !.pos = to]
  BY Zenon DEF ScanCluster, ClusterStart
<1> HIDE DEF len, start, to
<1>3. 0 \in S
  <2>1. Made([n \in 0 .. 0 |-> start], 0)
    OBVIOUS
  <2> QED
    BY <2>1
<1>4. ASSUME NEW m \in 1 .. len, m - 1 \in S PROVE m \in S
  <2>1. PICK h : Made(h, m - 1)
    BY <1>4
  <2> DEFINE g == [n \in 0 .. m |-> IF n = m THEN ScanElement(h[m - 1], c.elements[m], to, length) ELSE h[n]]
  <2>2. \A n \in 0 .. m - 1 : g[n] = h[n]
    BY <1>1
  <2>3. ASSUME NEW n \in 0 .. m
        PROVE  g[n] = IF n = 0 THEN start ELSE ScanElement(g[n - 1], c.elements[n], to, length)
    <3>1. CASE n = m
      BY <1>1, <2>2, <3>1
    <3>2. CASE n # m
      BY <1>1, <2>1, <2>2, <3>2
    <3> QED
      BY <3>1, <3>2
  <2>4. Made(g, m)
    BY <2>3
  <2> HIDE DEF g
  <2>5. \E k : Made(k, m)
    BY <2>4, Zenon
  <2> QED
    BY <1>1, <2>5
<1>5. len \in S
  <2> HIDE DEF S
  <2> QED
    BY <1>1, <1>3, <1>4, UpTo
<1>6. Made(f, len)
  BY <1>5
<1>7. f[0] = start /\ \A i \in 1 .. len : f[i] = ScanElement(f[i - 1], c.elements[i], to, length)
  <2> HIDE DEF f
  <2>1. f[0] = start
    BY <1>1, <1>6
  <2>2. ASSUME NEW i \in 1 .. len PROVE f[i] = ScanElement(f[i - 1], c.elements[i], to, length)
    <3>1. i \in 0 .. len /\ i # 0
      BY <1>1
    <3> QED
      BY <1>6, <3>1
  <2> QED
    BY <2>1, <2>2
<1> HIDE DEF f
<1>8. ScanCluster(w, c, limit, length) = f[len] \/ ScanCluster(w, c, limit, length) = [f[len] EXCEPT !.pos = to]
  BY <1>2, Zenon
<1> QED
  BY <1>7, <1>8, Zenon DEF ClusterScanned, len, start, to

\* Nor does a whole cluster.
LEMMA ClusterMisses ==
  ASSUME NEW w, Misses(w), NEW c, IsList(c.elements), NEW limit, NEW length
  PROVE  Misses(ScanCluster(w, c, limit, length))
<1> DEFINE end == EndOf(c, w.pos, limit)
<1>1. PICK g : ClusterScanned(g, w, c, end, length, ScanCluster(w, c, limit, length))
  BY ScanSteps
<1> HIDE DEF end
<1>2. Misses(ClusterStart(w, c, end))
  BY DEF Misses, ClusterStart
<1>3. Misses(g[0]) /\ \A i \in 1 .. Len(c.elements) : g[i] = ScanElement(g[i - 1], c.elements[i], end.at, length)
  BY <1>1, <1>2, Zenon DEF ClusterScanned
<1> DEFINE len == Len(c.elements)
           S == {i \in 0 .. len : Misses(g[i])}
<1>4. len \in Nat
  BY DEF IsList
<1> HIDE DEF len
<1>5. 0 \in S
  BY <1>3, <1>4
<1>6. ASSUME NEW i \in 1 .. len, i - 1 \in S PROVE i \in S
  BY <1>3, <1>4, <1>6, ElementMisses DEF len
<1>7. len \in S
  <2> HIDE DEF S
  <2> QED
    BY <1>4, <1>5, <1>6, UpTo
<1>8. Misses(g[len])
  BY <1>7
<1>9. Misses([g[len] EXCEPT !.pos = end.at])
  BY <1>8 DEF Misses
<1> QED
  BY <1>1, <1>8, <1>9, Zenon DEF ClusterScanned, len

\* What is missing stays noticed, whatever element comes next.
LEMMA WalkMisses ==
  ASSUME NEW w, Misses(w), NEW e, e.id = "cluster" => IsList(e.elements), NEW limit, NEW length
  PROVE  Misses(WalkElement(w, e, limit, length))
<1> DEFINE end == EndOf(e, w.pos, limit)
           there == [w EXCEPT !.pos = end.at, !.truncated = @ \/ end.clipped]
<1>1. Misses(BadHeader(w, length)) /\ Misses([w EXCEPT !.broken = TRUE, !.stopped = TRUE])
  BY DEF Misses, BadHeader
<1>2. e.id = "cluster" => Misses(ScanCluster(w, e, limit, length))
  BY ClusterMisses
<1>3. Misses(there)
  BY DEF Misses
<1> HIDE DEF there, end
<1>4. Misses(HandleInfo(there, e, end.clipped))
  BY <1>3 DEF Misses, HandleInfo
<1>5. ASSUME NEW room PROVE Misses(HandleTracks(there, e, room))
  <2>1. \A a : Misses([there EXCEPT !.notes = a])
    BY <1>3 DEF Misses
  <2>2. \A a, b, c : Misses([there EXCEPT !.tracksSeen = a, !.tracks = b, !.notes = c])
    BY <1>3 DEF Misses
  <2> QED
    BY <2>1, <2>2, Zenon DEF HandleTracks
<1>6. \A a : Misses([there EXCEPT !.timecode = a])
  BY <1>3 DEF Misses
<1> QED
  BY <1>1, <1>2, <1>3, <1>4, <1>5, <1>6 DEF WalkElement, there, end

\* The elements of a segment are looked at one by one.
SegmentStart(s, start, end) == [NoWalk EXCEPT !.pos = start + s.header, !.truncated = end.clipped]

Walked(g, s, start, end, length) ==
  /\ g[0] = SegmentStart(s, start, end)
  /\ \A i \in 1 .. Len(s.elements) : g[i] = WalkElement(g[i - 1], s.elements[i], end.at, length)

\* Such steps there are for every segment, and the walk is what the last one leaves.
LEMMA WalkSteps ==
  ASSUME NEW s, IsList(s.elements), NEW start, NEW length
  PROVE  \E g : /\ Walked(g, s, start, EndOf(s, start, length), length)
                /\ WalkSegment(length, start, s) = g[Len(s.elements)]
<1> DEFINE end == EndOf(s, start, length)
           to == end.at
           body == SegmentStart(s, start, end)
           Made(h, m) == h = [n \in 0 .. m |-> IF n = 0 THEN body ELSE WalkElement(h[n - 1], s.elements[n], to, length)]
           S == {m \in Nat : \E h : Made(h, m)}
           len == Len(s.elements)
           f == CHOOSE h : Made(h, len)
<1>1. len \in Nat
  BY DEF IsList
<1>2. WalkSegment(length, start, s) = f[len]
  BY Zenon DEF WalkSegment, SegmentStart
<1> HIDE DEF len, body, to
<1>3. 0 \in S
  <2>1. Made([n \in 0 .. 0 |-> body], 0)
    OBVIOUS
  <2> QED
    BY <2>1
<1>4. ASSUME NEW m \in 1 .. len, m - 1 \in S PROVE m \in S
  <2>1. PICK h : Made(h, m - 1)
    BY <1>4
  <2> DEFINE g == [n \in 0 .. m |-> IF n = m THEN WalkElement(h[m - 1], s.elements[m], to, length) ELSE h[n]]
  <2>2. \A n \in 0 .. m - 1 : g[n] = h[n]
    BY <1>1
  <2>3. ASSUME NEW n \in 0 .. m
        PROVE  g[n] = IF n = 0 THEN body ELSE WalkElement(g[n - 1], s.elements[n], to, length)
    <3>1. CASE n = m
      BY <1>1, <2>2, <3>1
    <3>2. CASE n # m
      BY <1>1, <2>1, <2>2, <3>2
    <3> QED
      BY <3>1, <3>2
  <2>4. Made(g, m)
    BY <2>3
  <2> HIDE DEF g
  <2>5. \E k : Made(k, m)
    BY <2>4, Zenon
  <2> QED
    BY <1>1, <2>5
<1>5. len \in S
  <2> HIDE DEF S
  <2> QED
    BY <1>1, <1>3, <1>4, UpTo
<1>6. Made(f, len)
  BY <1>5
<1>7. f[0] = body /\ \A i \in 1 .. len : f[i] = WalkElement(f[i - 1], s.elements[i], to, length)
  <2> HIDE DEF f
  <2>1. f[0] = body
    BY <1>1, <1>6
  <2>2. ASSUME NEW i \in 1 .. len PROVE f[i] = WalkElement(f[i - 1], s.elements[i], to, length)
    <3>1. i \in 0 .. len /\ i # 0
      BY <1>1
    <3> QED
      BY <1>6, <3>1
  <2> QED
    BY <2>1, <2>2
<1> HIDE DEF f
<1> QED
  BY <1>2, <1>7, Zenon DEF Walked, len, body, to

\* A segment that ends behind the end of the file is missed from its first element on.
LEMMA SegmentMisses ==
  ASSUME NEW s, IsList(s.elements), \A e \in Range(s.elements) : e.id = "cluster" => IsList(e.elements),
         NEW start, NEW length, EndOf(s, start, length).clipped
  PROVE  Misses(WalkSegment(length, start, s))
<1> DEFINE end == EndOf(s, start, length)
           len == Len(s.elements)
<1>1. PICK g : Walked(g, s, start, end, length) /\ WalkSegment(length, start, s) = g[len]
  BY WalkSteps
<1>2. Misses(SegmentStart(s, start, end))
  BY DEF Misses, SegmentStart, NoWalk
<1>3. len \in Nat /\ \A i \in 1 .. len : s.elements[i] \in Range(s.elements)
  BY DEF IsList, Range
<1> HIDE DEF end
<1>4. Misses(g[0]) /\ \A i \in 1 .. len : g[i] = WalkElement(g[i - 1], s.elements[i], end.at, length)
  BY <1>1, <1>2, Zenon DEF Walked
<1> HIDE DEF len
<1> DEFINE S == {i \in 0 .. len : Misses(g[i])}
<1>5. 0 \in S
  BY <1>3, <1>4
<1>6. ASSUME NEW i \in 1 .. len, i - 1 \in S PROVE i \in S
  BY <1>3, <1>4, <1>6, WalkMisses
<1>7. len \in S
  <2> HIDE DEF S
  <2> QED
    BY <1>3, <1>5, <1>6, UpTo
<1> QED
  BY <1>1, <1>7

\* What is missing leaves the mark of corruption.
LEMMA MatroskaMarked ==
  ASSUME NEW w, Misses(w), NEW c \in BuildMatroska(w)
  PROVE  c.validity = "corrupt"
<1>1. Corrupt.validity = "corrupt"
  BY DEF Corrupt, NewContainer
<1>2. ASSUME NEW d, NEW gaps PROVE MatroskaContainer(w, d, gaps).validity = "corrupt"
  BY DEF MatroskaContainer, NewContainer, Misses
<1>3. c = Corrupt \/ \E d, gaps : c = MatroskaContainer(w, d, gaps)
  BY Zenon DEF BuildMatroska
<1> QED
  BY <1>1, <1>2, <1>3

\* A segment that declares more than there is leaves the mark of corruption.
LEMMA MatroskaSeen ==
  ASSUME NEW f \in Files, f.magic = "mkv", MatroskaLost(f), NEW c \in ProbeMatroska(f)
  PROVE  c.validity = "corrupt"
<1>1. /\ f.length \in Nat /\ f.head \subseteq Nat
      /\ \A s \in f.segment : /\ s.header \in Nat /\ s.size \subseteq Nat /\ IsList(s.elements)
                              /\ \A e \in Range(s.elements) : e.id = "cluster" => IsList(e.elements)
  BY FilesAssumption
<1>2. Corrupt.validity = "corrupt"
  BY DEF Corrupt, NewContainer
<1>3. ASSUME NEW h \in f.head, NEW s \in f.segment, c \in BuildMatroska(WalkSegment(f.length, h, s))
      PROVE  c.validity = "corrupt"
  <2>1. PICK n \in s.size : h + s.header + n > f.length
    BY DEF MatroskaLost
  <2>2. EndOf(s, h, f.length).clipped
    <3> DEFINE declared == {h + s.header + k : k \in s.size}
               within == {d \in declared : d <= f.length}
    <3>1. h + s.header + n \in declared /\ ~ (h + s.header + n <= f.length)
      BY <1>1, <2>1
    <3>2. declared # within
      BY <3>1
    <3> QED
      BY <3>2, Zenon DEF EndOf
  <2>3. Misses(WalkSegment(f.length, h, s))
    BY <1>1, <2>2, SegmentMisses
  <2> QED
    BY <1>3, <2>3, MatroskaMarked
<1>4. c = Corrupt \/ \E p \in f.head \X f.segment : c \in BuildMatroska(WalkSegment(f.length, p[1], p[2]))
  BY Zenon DEF ProbeMatroska
<1> QED
  BY <1>2, <1>3, <1>4

\* The places of things that follow each other: first, and each behind the one before.
Places(f, first, sizes, n) ==
  f = [i \in 1 .. n + 1 |-> IF i = 1 THEN first ELSE f[i - 1] + sizes[i - 1]]

\* Such places there are, each a number.
LEMMA PlacesExist ==
  ASSUME NEW n \in Nat, NEW first \in Nat, NEW sizes \in [1 .. n -> Nat]
  PROVE  \E f \in [1 .. n + 1 -> Nat] : Places(f, first, sizes, n)
<1> DEFINE step == [x \in (1 .. n) \X Nat |-> x[2] + sizes[x[1]]]
<1>1. \A i \in 1 .. n : \A v \in Nat : step[<<i, v>>] = v + sizes[i]
  OBVIOUS
<1> HIDE DEF step
<1>2. StepsIn(step, n, Nat)
  <2>1. \A i \in 1 .. n : \A v \in Nat : v + sizes[i] \in Nat
    OBVIOUS
  <2> QED
    BY <1>1, <2>1 DEF StepsIn
<1>3. PICK g : StepsTo(g, step, first, n, Nat)
  BY <1>2, StepsExist
<1> DEFINE f == [i \in 1 .. n + 1 |-> g[i - 1]]
<1>4. ASSUME NEW i \in 1 .. n + 1 PROVE f[i] \in Nat /\ f[i] = IF i = 1 THEN first ELSE f[i - 1] + sizes[i - 1]
  <2>1. i - 1 \in 0 .. n /\ g[i - 1] \in Nat
    BY <1>3 DEF StepsTo
  <2>2. CASE i = 1
    BY <1>3, <2>1, <2>2 DEF StepsTo
  <2>3. CASE i # 1
    <3>1. i - 1 \in 1 .. n /\ (i - 1) - 1 \in 0 .. n /\ i - 1 \in 1 .. n + 1
      BY <2>3
    <3>2. g[i - 1] = step[<<i - 1, g[(i - 1) - 1]>>] /\ g[(i - 1) - 1] \in Nat
      BY <1>3, <3>1 DEF StepsTo
    <3> QED
      BY <1>1, <2>1, <2>3, <3>1, <3>2
  <2> QED
    BY <2>2, <2>3
<1>5. f = [i \in 1 .. n + 1 |-> f[i]]
  OBVIOUS
<1> HIDE DEF f
<1>6. f \in [1 .. n + 1 -> Nat]
  BY <1>4, <1>5
<1>7. Places(f, first, sizes, n)
  BY <1>4, <1>5 DEF Places
<1> QED
  BY <1>6, <1>7

\* Each chunk begins at a place in the file.
LEMMA ChunkPlaces ==
  ASSUME NEW q, IsList(q), \A c \in Range(q) : c.size \in Nat
  PROVE  \A i \in 1 .. Len(q) : ChunkStarts(q)[i] \in Nat
<1> DEFINE n == Len(q)
           Made(f) == f = [i \in 1 .. n + 1 |-> IF i = 1 THEN 12 ELSE f[i - 1] + 8 + q[i - 1].size + (q[i - 1].size % 2)]
           f0 == CHOOSE f : Made(f)
           sizes == [i \in 1 .. n |-> 8 + q[i].size + (q[i].size % 2)]
<1>1. n \in Nat /\ \A i \in 1 .. n : q[i].size \in Nat
  BY DEF IsList, Range
<1>2. ChunkStarts(q) = f0
  BY Zenon DEF ChunkStarts
<1> HIDE DEF n
<1>3. \E f : Made(f)
  <2>1. sizes \in [1 .. n -> Nat]
    BY <1>1
  <2>2. PICK f \in [1 .. n + 1 -> Nat] : Places(f, 12, sizes, n)
    <3> HIDE DEF sizes
    <3> QED
      BY <1>1, <2>1, PlacesExist
  <2>3. ASSUME NEW i \in 1 .. n + 1
        PROVE  f[i] = IF i = 1 THEN 12 ELSE f[i - 1] + 8 + q[i - 1].size + (q[i - 1].size % 2)
    <3>1. f[i] = IF i = 1 THEN 12 ELSE f[i - 1] + sizes[i - 1]
      BY <2>2 DEF Places
    <3>2. CASE i # 1
      <4>1. i - 1 \in 1 .. n /\ i - 1 \in 1 .. n + 1
        BY <1>1, <3>2
      <4>2. q[i - 1].size \in Nat
        BY <1>1, <4>1
      <4>3. sizes[i - 1] = 8 + q[i - 1].size + (q[i - 1].size % 2)
        BY <4>1
      <4> HIDE DEF sizes
      <4>4. f[i - 1] \in Nat
        BY <4>1
      <4> DEFINE size == q[i - 1].size
      <4>5. f[i] = f[i - 1] + (8 + size + (size % 2))
        BY <3>1, <3>2, <4>3
      <4>6. size \in Nat /\ size % 2 \in Nat
        BY <4>2
      <4> HIDE DEF size
      <4>7. f[i] = f[i - 1] + 8 + size + (size % 2)
        BY <4>4, <4>5, <4>6
      <4> QED
        BY <3>2, <4>7 DEF size
    <3> QED
      BY <3>1, <3>2
  <2>4. Made(f)
    BY <2>3
  <2> QED
    BY <2>4
<1>4. Made(f0)
  BY <1>3
<1> HIDE DEF f0
<1> DEFINE S == {i \in 0 .. n : f0[i + 1] \in Nat}
<1>5. 0 \in S
  BY <1>1, <1>4
<1>6. ASSUME NEW i \in 1 .. n, i - 1 \in S PROVE i \in S
  <2>1. i + 1 \in 1 .. n + 1 /\ i + 1 # 1 /\ (i + 1) - 1 = i /\ (i - 1) + 1 = i /\ i \in 0 .. n
    BY <1>1
  <2>2. f0[i] \in Nat /\ q[i].size \in Nat
    BY <1>1, <1>6, <2>1
  <2>3. f0[i + 1] = f0[i] + 8 + q[i].size + (q[i].size % 2)
    BY <1>4, <2>1
  <2>4. f0[i + 1] \in Nat
    BY <2>2, <2>3
  <2> QED
    BY <2>1, <2>4
<1>7. \A i \in 0 .. n : i \in S
  <2> HIDE DEF S
  <2> QED
    BY <1>1, <1>5, <1>6, UpTo
<1>8. ASSUME NEW i \in 1 .. n PROVE f0[i] \in Nat
  <2>1. i - 1 \in 0 .. n /\ (i - 1) + 1 = i
    BY <1>1
  <2> QED
    BY <1>7, <2>1
<1> QED
  BY <1>2, <1>8 DEF n

\* A WAV file that declares more sound than there is leaves the mark of corruption.
LEMMA WavSeen ==
  ASSUME NEW f \in Files, f.magic = "wav", WavLost(f), NEW c \in ProbeWav(f)
  PROVE  c.validity = "corrupt"
<1>1. /\ f.length \in Nat /\ IsList(f.chunks)
      /\ \A k \in Range(f.chunks) : k.size \in Nat /\ k.declared \subseteq Nat
  BY FilesAssumption
<1>2. Corrupt.validity = "corrupt"
  BY DEF Corrupt, NewContainer
<1>3. PICK i \in DOMAIN f.chunks :
        /\ f.chunks[i].id = "data" /\ \A k \in 1 .. i - 1 : f.chunks[k].id # "data"
        /\ \E n \in f.chunks[i].declared : ChunkStarts(f.chunks)[i] + 8 + n > f.length
  BY DEF WavLost
<1> DEFINE sound == {k \in ChunksUntil(f, "data") : f.chunks[k].id = "data"}
           available(k) == f.length - ChunkStarts(f.chunks)[k] - 8
<1>4. DOMAIN f.chunks = 1 .. Len(f.chunks) /\ Len(f.chunks) \in Nat
  BY <1>1 DEF IsList
<1>5. Over(f.chunks[i].declared, available(i))
  <2>1. PICK n \in f.chunks[i].declared : ChunkStarts(f.chunks)[i] + 8 + n > f.length
    BY <1>3
  <2>2. n \in Nat /\ ChunkStarts(f.chunks)[i] \in Nat
    BY <1>1, <1>4, ChunkPlaces DEF Range
  <2> QED
    BY <1>1, <2>1, <2>2 DEF Over
<1>6. ASSUME sound # {} PROVE (CHOOSE k \in sound : TRUE) = i
  <2>1. ASSUME NEW k \in sound PROVE k = i
    <3>1. k \in 1 .. Len(f.chunks) /\ f.chunks[k].id = "data" /\ \A j \in 1 .. k - 1 : f.chunks[j].id # "data"
      BY <1>4 DEF ChunksUntil
    <3> QED
      BY <1>3, <1>4, <3>1
  <2> HIDE DEF sound
  <2> QED
    BY <1>6, <2>1
<1>7. WavData(f.chunks[i].declared, available(i)).truncated
  <2>1. WavData(f.chunks[i].declared, available(i)).truncated = Over(f.chunks[i].declared, available(i))
    BY DEF WavData
  <2> QED
    BY <1>5, <2>1
<1> DEFINE format == FormatChunk(f, "fmt", "data")
           fm == CHOOSE x \in format : TRUE
           k0 == CHOOSE x \in sound : TRUE
           data == WavData(f.chunks[k0].declared, available(k0))
           frame == fm.channels * ((fm.bits + 7) \div 8)
           duration == {((data.bytes \div frame) * 1000) \div fm.rate}
           stream == OneAudioStream(PcmCodec(fm.tag = "float", fm.bits, FALSE), fm.channels, fm.rate,
                                    OrElse(fm.valid, {fm.bits}), {fm.rate * fm.channels * fm.bits}, duration)
           read == {[x EXCEPT !.validity = IF data.truncated THEN "corrupt" ELSE "ok",
                              !.malformed = IF data.bytes % frame # 0 THEN {"partial frame"} ELSE {}] :
                      x \in AudioContainer(stream, duration)}
<1>8. ProbeWav(f) = IF BadFormat(f, "fmt", "data", 16) \/ format = {} THEN {Corrupt}
                    ELSE IF fm.tag \notin {"integer", "float"} THEN {}
                    ELSE IF 0 \in {fm.channels, fm.rate, fm.bits} \/ sound = {} THEN {Corrupt}
                    ELSE read
  BY Zenon DEF ProbeWav
<1>9. ASSUME sound # {}, c \in read PROVE c.validity = "corrupt"
  <2>1. data.truncated
    BY <1>6, <1>7, <1>9
  <2> HIDE DEF data, stream, duration, frame
  <2>2. PICK x \in AudioContainer(stream, duration) :
          c = [x EXCEPT !.validity = IF data.truncated THEN "corrupt" ELSE "ok",
                        !.malformed = IF data.bytes % frame # 0 THEN {"partial frame"} ELSE {}]
    BY <1>9
  <2>3. "validity" \in DOMAIN x
    BY DEF AudioContainer, NewContainer
  <2> QED
    BY <2>1, <2>2, <2>3
<1> HIDE DEF sound, read, fm, format
<1> QED
  BY <1>2, <1>8, <1>9

\* The boxes of an MP4 file begin where the one before ends.
LEMMA BoxPlaces ==
  ASSUME NEW b, IsList(b), \A x \in Range(b) : x.size \in Nat
  PROVE  /\ BoxStarts(b)[1] = 0
         /\ \A i \in 1 .. Len(b) : BoxStarts(b)[i] \in Nat /\ BoxStarts(b)[i + 1] = BoxStarts(b)[i] + b[i].size
<1> DEFINE n == Len(b)
           Made(f) == f = [i \in 1 .. n + 1 |-> IF i = 1 THEN 0 ELSE f[i - 1] + b[i - 1].size]
           f0 == CHOOSE f : Made(f)
           sizes == [i \in 1 .. n |-> b[i].size]
<1>1. n \in Nat /\ \A i \in 1 .. n : b[i].size \in Nat
  BY DEF IsList, Range
<1>2. BoxStarts(b) = f0
  BY Zenon DEF BoxStarts
<1> HIDE DEF n
<1>3. \E f : Made(f)
  <2>1. sizes \in [1 .. n -> Nat]
    BY <1>1
  <2>2. PICK f \in [1 .. n + 1 -> Nat] : Places(f, 0, sizes, n)
    <3> HIDE DEF sizes
    <3> QED
      BY <1>1, <2>1, PlacesExist
  <2>3. ASSUME NEW i \in 1 .. n + 1
        PROVE  f[i] = IF i = 1 THEN 0 ELSE f[i - 1] + b[i - 1].size
    <3>1. f[i] = IF i = 1 THEN 0 ELSE f[i - 1] + sizes[i - 1]
      BY <2>2 DEF Places
    <3>2. CASE i # 1
      <4>1. i - 1 \in 1 .. n
        BY <1>1, <3>2
      <4>2. sizes[i - 1] = b[i - 1].size
        BY <4>1
      <4> HIDE DEF sizes
      <4> QED
        BY <3>1, <3>2, <4>2
    <3> QED
      BY <3>1, <3>2
  <2>4. Made(f)
    BY <2>3
  <2> QED
    BY <2>4
<1>4. Made(f0)
  BY <1>3
<1> HIDE DEF f0
<1>5. f0[1] = 0
  BY <1>1, <1>4
<1>6. ASSUME NEW i \in 1 .. n PROVE f0[i + 1] = f0[i] + b[i].size
  <2>1. i + 1 \in 1 .. n + 1 /\ i + 1 # 1 /\ (i + 1) - 1 = i
    BY <1>1
  <2> QED
    BY <1>4, <2>1
<1> DEFINE S == {i \in 0 .. n : f0[i + 1] \in Nat}
<1>7. 0 \in S
  BY <1>1, <1>5
<1>8. ASSUME NEW i \in 1 .. n, i - 1 \in S PROVE i \in S
  <2>1. (i - 1) + 1 = i /\ i \in 0 .. n
    BY <1>1
  <2>2. f0[i] \in Nat /\ b[i].size \in Nat
    BY <1>1, <1>8, <2>1
  <2> QED
    BY <1>6, <2>1, <2>2
<1>9. \A i \in 0 .. n : i \in S
  <2> HIDE DEF S
  <2> QED
    BY <1>1, <1>7, <1>8, UpTo
<1>10. ASSUME NEW i \in 1 .. n PROVE f0[i] \in Nat
  <2>1. i - 1 \in 0 .. n /\ (i - 1) + 1 = i
    BY <1>1
  <2> QED
    BY <1>9, <2>1
<1> QED
  BY <1>2, <1>5, <1>6, <1>10 DEF n

\* The boxes that the reader looks at, from the first one on.
WalkedTo(b) == Least(Len(b), MaxTopLevelBoxes)

LEMMA WalkedBoxes ==
  ASSUME NEW b, IsList(b)
  PROVE  /\ WalkedTo(b) \in Nat /\ WalkedTo(b) <= Len(b)
         /\ {n \in DOMAIN b : n <= MaxTopLevelBoxes} = 1 .. WalkedTo(b)
<1>1. MaxTopLevelBoxes \in Nat
  BY IsoAssumption
<1>2. Len(b) \in Nat /\ DOMAIN b = 1 .. Len(b)
  BY DEF IsList
<1> QED
  BY <1>1, <1>2 DEF WalkedTo, Least

\* They are looked at one by one.
LEMMA TopSteps ==
  ASSUME NEW movie, IsList(movie.boxes)
  PROVE  \E g : /\ g[0] = NoTop /\ WalkTopLevel(movie) = g[WalkedTo(movie.boxes)]
                /\ \A i \in 1 .. WalkedTo(movie.boxes) : g[i] = WalkBox(movie.length, g[i - 1], movie.boxes[i])
<1> DEFINE Made(h, m) == h = [n \in 0 .. m |-> IF n = 0 THEN NoTop ELSE WalkBox(movie.length, h[n - 1], movie.boxes[n])]
           S == {m \in Nat : \E h : Made(h, m)}
           len == WalkedTo(movie.boxes)
           f == CHOOSE h : Made(h, len)
<1>1. len \in Nat
  BY WalkedBoxes
<1>2. WalkTopLevel(movie) = f[len]
  BY Zenon DEF WalkTopLevel, WalkedTo
<1> HIDE DEF len
<1>3. 0 \in S
  <2>1. Made([n \in 0 .. 0 |-> NoTop], 0)
    OBVIOUS
  <2> QED
    BY <2>1
<1>4. ASSUME NEW m \in 1 .. len, m - 1 \in S PROVE m \in S
  <2>1. PICK h : Made(h, m - 1)
    BY <1>4
  <2> DEFINE g == [n \in 0 .. m |-> IF n = m THEN WalkBox(movie.length, h[m - 1], movie.boxes[m]) ELSE h[n]]
  <2>2. \A n \in 0 .. m - 1 : g[n] = h[n]
    BY <1>1
  <2>3. ASSUME NEW n \in 0 .. m
        PROVE  g[n] = IF n = 0 THEN NoTop ELSE WalkBox(movie.length, g[n - 1], movie.boxes[n])
    <3>1. CASE n = m
      BY <1>1, <2>2, <3>1
    <3>2. CASE n # m
      BY <1>1, <2>1, <2>2, <3>2
    <3> QED
      BY <3>1, <3>2
  <2>4. Made(g, m)
    BY <2>3
  <2> HIDE DEF g
  <2>5. \E k : Made(k, m)
    BY <2>4, Zenon
  <2> QED
    BY <1>1, <2>5
<1>5. len \in S
  <2> HIDE DEF S
  <2> QED
    BY <1>1, <1>3, <1>4, UpTo
<1>6. Made(f, len)
  BY <1>5
<1>7. f[0] = NoTop /\ \A i \in 1 .. len : f[i] = WalkBox(movie.length, f[i - 1], movie.boxes[i])
  <2> HIDE DEF f
  <2>1. f[0] = NoTop
    BY <1>1, <1>6
  <2>2. ASSUME NEW i \in 1 .. len PROVE f[i] = WalkBox(movie.length, f[i - 1], movie.boxes[i])
    <3>1. i \in 0 .. len /\ i # 0
      BY <1>1
    <3> QED
      BY <1>6, <3>1
  <2> QED
    BY <2>1, <2>2
<1> HIDE DEF f
<1> QED
  BY <1>2, <1>7, Zenon DEF len

\* The first moov among the first n boxes, read as a whole.
FirstMoov(b, n) == {i \in 1 .. n : b[i].kind = "moov" /\ \A k \in 1 .. i - 1 : b[k].kind # "moov"}

WholeMoov(b, n) == {[content |-> b[i].moov, room |-> b[i].size - HeaderOf(b[i])] : i \in FirstMoov(b, n)}

\* One box more is the first moov only if none was before it.
LEMMA NextMoov ==
  ASSUME NEW b, NEW n \in Nat \ {0}
  PROVE  WholeMoov(b, n) = IF b[n].kind = "moov" /\ WholeMoov(b, n - 1) = {}
                           THEN {[content |-> b[n].moov, room |-> b[n].size - HeaderOf(b[n])]}
                           ELSE WholeMoov(b, n - 1)
<1> DEFINE M == {i \in 1 .. n - 1 : b[i].kind = "moov"}
           made(i) == [content |-> b[i].moov, room |-> b[i].size - HeaderOf(b[i])]
<1>1. ASSUME M # {} PROVE FirstMoov(b, n - 1) # {}
  <2>1. M \in SUBSET Nat
    OBVIOUS
  <2>2. PICK i \in M : \A k \in M : i <= k
    <3> HIDE DEF M
    <3> QED
      BY <1>1, <2>1, LeastNumber
  <2>3. i \in FirstMoov(b, n - 1)
    BY <2>2 DEF FirstMoov
  <2> QED
    BY <2>3
<1>2. FirstMoov(b, n - 1) # {} => M # {}
  BY DEF FirstMoov
<1>3. FirstMoov(b, n) = FirstMoov(b, n - 1) \cup (IF b[n].kind = "moov" /\ M = {} THEN {n} ELSE {})
  BY DEF FirstMoov
<1>4. \A k : WholeMoov(b, k) = {made(i) : i \in FirstMoov(b, k)}
  BY DEF WholeMoov
<1>5. WholeMoov(b, n - 1) = {} <=> M = {}
  <2> HIDE DEF made, M
  <2>1. \A i \in FirstMoov(b, n - 1) : made(i) \in WholeMoov(b, n - 1)
    BY <1>4
  <2>2. FirstMoov(b, n - 1) = {} => WholeMoov(b, n - 1) = {}
    BY <1>4
  <2> QED
    BY <1>1, <1>2, <2>1, <2>2
<1> HIDE DEF made, M
<1>6. CASE b[n].kind = "moov" /\ M = {}
  <2>1. FirstMoov(b, n) = {n}
    BY <1>2, <1>3, <1>6
  <2>2. WholeMoov(b, n) = {made(n)}
    BY <1>4, <2>1
  <2> QED
    BY <1>5, <1>6, <2>2 DEF made
<1>7. CASE ~ (b[n].kind = "moov" /\ M = {})
  <2>1. FirstMoov(b, n) = FirstMoov(b, n - 1)
    BY <1>3, <1>7
  <2> QED
    BY <1>4, <1>5, <1>7, <2>1
<1> QED
  BY <1>6, <1>7

\* After n boxes, a walk that noticed nothing has come to the end of the last one, or stopped
\* before one whose header is not there.
Unnoticed(top, b, starts, length, n) ==
  \E k \in 1 .. n + 1 :
    /\ \A j \in 1 .. k : starts[j] <= length
    /\ top.moov = WholeMoov(b, k - 1)
    /\ \/ k = n + 1 /\ ~ top.stopped /\ top.pos = starts[k]
       \/ /\ k <= n /\ top.stopped /\ starts[k] + HeaderOf(b[k]) > length
          /\ \A j \in k + 1 .. n + 1 : starts[j] > length

TopFields == {"pos", "stopped", "corrupt", "tooLarge", "moov", "moof"}

\* A cut box is noticed, or there was none to notice.
Walking(top, b, starts, length, n) ==
  /\ TopFields \subseteq DOMAIN top
  /\ top.corrupt \/ top.tooLarge \/ Unnoticed(top, b, starts, length, n)

\* A box that is looked at keeps to that.
LEMMA BoxWalked ==
  ASSUME NEW b, NEW starts, NEW length \in Nat, NEW n \in Nat \ {0},
         starts[n] \in Nat, b[n].size \in Nat, starts[n + 1] = starts[n] + b[n].size, b[n].size >= HeaderOf(b[n]),
         NEW top, Walking(top, b, starts, length, n - 1)
  PROVE  Walking(WalkBox(length, top, b[n]), b, starts, length, n)
<1> DEFINE box == b[n]
           header == HeaderOf(box)
           end == Least(top.pos + box.size, length)
           room == Greatest(0, end - top.pos - header)
           reads == box.kind = "moov" /\ top.moov = {}
           next == WalkBox(length, top, box)
           on == [top EXCEPT !.pos = end, !.corrupt = @ \/ top.pos + box.size > length, !.moof = @ \/ box.kind = "moof",
                             !.moov = IF reads THEN {[content |-> box.moov, room |-> room]} ELSE @]
           halted == [top EXCEPT !.stopped = TRUE]
           large == [top EXCEPT !.tooLarge = TRUE, !.stopped = TRUE]
<1>1. header \in {8, 16} /\ ~ (box.size < header)
  BY DEF HeaderOf
<1>2. next = IF top.stopped \/ length - top.pos < header THEN halted
             ELSE IF box.size < header THEN [top EXCEPT !.corrupt = TRUE, !.stopped = TRUE]
             ELSE IF reads /\ room > MaxBuffered THEN large
             ELSE on
  <2>1. ~ (box.size = 0 /\ ~ box.large)
    BY <1>1
  <2> QED
    BY <2>1, Zenon DEF WalkBox
<1>3. TopFields \subseteq DOMAIN next
  BY <1>2 DEF Walking, TopFields
<1>4. ASSUME top.corrupt PROVE next.corrupt
  BY <1>2, <1>4 DEF Walking, TopFields
<1>5. ASSUME top.tooLarge PROVE next.tooLarge
  BY <1>2, <1>5 DEF Walking, TopFields
<1>6. ASSUME Unnoticed(top, b, starts, length, n - 1), ~ top.stopped
      PROVE  next.corrupt \/ next.tooLarge \/ Unnoticed(next, b, starts, length, n)
  <2>1. /\ \A j \in 1 .. n : starts[j] <= length
        /\ top.moov = WholeMoov(b, n - 1) /\ top.pos = starts[n]
    BY <1>6 DEF Unnoticed
  <2>2. CASE length - top.pos < header
    <3>1. next = halted /\ halted.stopped /\ halted.moov = top.moov
      BY <1>2, <2>2 DEF Walking, TopFields
    <3>2. starts[n] + HeaderOf(b[n]) > length
      BY <1>1, <2>1, <2>2
    <3>3. starts[n + 1] > length
      BY <1>1, <3>2
    <3> HIDE DEF halted, next
    <3>4. n \in 1 .. n + 1 /\ n <= n /\ \A j \in n + 1 .. n + 1 : starts[j] > length
      BY <3>3
    <3> QED
      BY <2>1, <3>1, <3>2, <3>4 DEF Unnoticed
  <2>3. CASE ~ (length - top.pos < header) /\ reads /\ room > MaxBuffered
    <3>1. next = large
      BY <1>1, <1>2, <1>6, <2>3, Zenon
    <3>2. large.tooLarge
      BY DEF Walking, TopFields
    <3> QED
      BY <3>1, <3>2
  <2>4. CASE ~ (length - top.pos < header) /\ ~ (reads /\ room > MaxBuffered)
    <3>1. next = on
      BY <1>1, <1>2, <1>6, <2>4
    <3>2. /\ on.pos = end /\ on.stopped = top.stopped
          /\ on.corrupt <=> (top.corrupt \/ top.pos + box.size > length)
          /\ on.moov = IF reads THEN {[content |-> box.moov, room |-> room]} ELSE top.moov
      BY DEF Walking, TopFields
    <3> HIDE DEF on, next
    <3>3. CASE starts[n + 1] > length
      BY <2>1, <3>1, <3>2, <3>3
    <3>4. CASE ~ (starts[n + 1] > length)
      <4>1. end = starts[n + 1] /\ room = box.size - header
        BY <1>1, <2>1, <3>4 DEF Least, Greatest
      <4> HIDE DEF end, room
      <4>2. on.moov = WholeMoov(b, n)
        BY <2>1, <3>2, <4>1, NextMoov, Zenon
      <4>3. n + 1 \in 1 .. n + 1 /\ (n + 1) - 1 = n /\ \A j \in 1 .. n + 1 : starts[j] <= length
        <5>1. starts[n + 1] <= length
          BY <3>4
        <5> QED
          BY <2>1, <5>1
      <4> QED
        BY <1>6, <3>1, <3>2, <4>1, <4>2, <4>3 DEF Unnoticed
    <3> QED
      BY <3>3, <3>4
  <2> QED
    BY <2>2, <2>3, <2>4
<1>7. ASSUME Unnoticed(top, b, starts, length, n - 1), top.stopped
      PROVE  Unnoticed(next, b, starts, length, n)
  <2>1. PICK k \in 1 .. n :
          /\ \A j \in 1 .. k : starts[j] <= length
          /\ top.moov = WholeMoov(b, k - 1)
          /\ k <= n - 1 /\ starts[k] + HeaderOf(b[k]) > length /\ \A j \in k + 1 .. n : starts[j] > length
    BY <1>7 DEF Unnoticed
  <2>2. next = halted /\ halted.stopped /\ halted.moov = top.moov
    BY <1>2, <1>7 DEF Walking, TopFields
  <2> HIDE DEF next, halted
  <2>3. starts[n] > length
    BY <2>1
  <2>4. starts[n + 1] > length
    BY <2>3
  <2>5. k \in 1 .. n + 1 /\ k <= n /\ \A j \in k + 1 .. n + 1 : starts[j] > length
    BY <2>1, <2>4
  <2> QED
    BY <2>1, <2>2, <2>5 DEF Unnoticed
<1> QED
  BY <1>3, <1>4, <1>5, <1>6, <1>7 DEF Walking

\* A place behind the end of the file marks the container that it is read into.
LEMMA MoovMarked ==
  ASSUME NEW length, NEW corrupt, NEW moov, NEW room, NEW c \in ReadMoov(length, corrupt, moov, room),
         \/ corrupt
         \/ \E t \in Range(ReadTraks(moov, room)) :
              Class(t).class = "supported" /\ \E place \in Range(t.offsets) : place >= length
  PROVE  c.validity = "corrupt"
<1> DEFINE traks == ReadTraks(moov, room)
           built == [i \in DOMAIN traks |-> BuildTrack(length, traks[i])]
<1>1. corrupt \/ \E i \in DOMAIN built : built[i].corrupt
  <2>1. CASE corrupt
    BY <2>1
  <2>2. CASE ~ corrupt
    <3>1. PICK t \in Range(traks) : Class(t).class = "supported" /\ \E place \in Range(t.offsets) : place >= length
      BY <2>2
    <3>2. PICK i \in DOMAIN traks : t = traks[i]
      BY DEF Range
    <3>3. \E k \in DOMAIN t.offsets : t.offsets[k] >= length
      BY <3>1 DEF Range
    <3>4. \A class, m : class.class = "supported" => FinishTrack(length, t, class, m).corrupt
      <4>1. \A class, m : FinishTrack(length, t, class, m).corrupt =
                            (\/ class.class = "supported" /\ \E k \in DOMAIN t.offsets : t.offsets[k] >= length
                             \/ \E q \in m.cues : q.corrupt)
        BY DEF FinishTrack
      <4> QED
        BY <3>3, <4>1
    <3>5. BuildTrack(length, t).corrupt
      BY <3>1, <3>4, Zenon DEF BuildTrack
    <3> HIDE DEF traks
    <3>6. i \in DOMAIN built /\ built[i].corrupt
      BY <3>2, <3>5
    <3> QED
      BY <3>6
  <2> QED
    BY <2>1, <2>2
<1>2. \E mvhd, more : c = IsoContainer(corrupt, mvhd, traks, built, more)
  BY Zenon DEF ReadMoov
<1> HIDE DEF traks, built
<1>3. ASSUME NEW mvhd, NEW more PROVE IsoContainer(corrupt, mvhd, traks, built, more).validity = "corrupt"
  BY <1>1 DEF IsoContainer, NewContainer
<1> QED
  BY <1>2, <1>3

\* The walk of the top level notices a box that is cut, or reads the moov as a whole.
LEMMA TopWalked ==
  ASSUME NEW f, f.length \in Nat, IsList(f.boxes), \A x \in Range(f.boxes) : x.size \in Nat,
         \A n \in 1 .. WalkedTo(f.boxes) : f.boxes[n].size >= HeaderOf(f.boxes[n])
  PROVE  Walking(WalkTopLevel(f), f.boxes, BoxStarts(f.boxes), f.length, WalkedTo(f.boxes))
<1> DEFINE b == f.boxes
           starts == BoxStarts(b)
           len == WalkedTo(b)
<1>1. PICK g : /\ g[0] = NoTop /\ WalkTopLevel(f) = g[len]
               /\ \A i \in 1 .. len : g[i] = WalkBox(f.length, g[i - 1], b[i])
  BY TopSteps
<1>2. /\ len \in Nat /\ starts[1] = 0
      /\ \A i \in 1 .. len : /\ starts[i] \in Nat /\ starts[i + 1] = starts[i] + b[i].size
                             /\ b[i].size \in Nat /\ b[i].size >= HeaderOf(b[i])
  <2>1. len \in Nat /\ len <= Len(b) /\ Len(b) \in Nat /\ DOMAIN b = 1 .. Len(b)
    BY WalkedBoxes DEF IsList
  <2>2. \A i \in 1 .. len : i \in 1 .. Len(b)
    <3> HIDE DEF b, len
    <3> QED
      BY <2>1
  <2> QED
    BY <2>1, <2>2, BoxPlaces DEF Range
<1> HIDE DEF b, starts, len
<1> DEFINE S == {i \in 0 .. len : Walking(g[i], b, starts, f.length, i)}
<1>3. 0 \in S
  <2>1. TopFields \subseteq DOMAIN NoTop /\ ~ NoTop.stopped /\ NoTop.pos = 0 /\ NoTop.moov = {}
    BY DEF TopFields, NoTop
  <2>2. WholeMoov(b, 0) = {}
    BY DEF WholeMoov, FirstMoov
  <2>3. 1 \in 1 .. 0 + 1 /\ 1 - 1 = 0 /\ 1 = 0 + 1 /\ \A j \in 1 .. 1 : starts[j] <= f.length
    BY <1>2
  <2>4. Unnoticed(NoTop, b, starts, f.length, 0)
    BY <1>2, <2>1, <2>2, <2>3 DEF Unnoticed
  <2> QED
    BY <1>1, <1>2, <2>1, <2>4 DEF Walking
<1>4. ASSUME NEW i \in 1 .. len, i - 1 \in S PROVE i \in S
  <2>1. i \in Nat \ {0} /\ i \in 0 .. len
    BY <1>2
  <2>2. Walking(g[i - 1], b, starts, f.length, i - 1)
    BY <1>4
  <2>3. /\ starts[i] \in Nat /\ b[i].size \in Nat /\ starts[i + 1] = starts[i] + b[i].size
        /\ b[i].size >= HeaderOf(b[i])
    BY <1>2
  <2>4. Walking(WalkBox(f.length, g[i - 1], b[i]), b, starts, f.length, i)
    BY <2>1, <2>2, <2>3, BoxWalked
  <2>5. Walking(g[i], b, starts, f.length, i)
    BY <1>1, <2>4
  <2> QED
    BY <2>1, <2>5
<1>5. len \in S
  <2>1. len \in Nat
    BY <1>2
  <2> HIDE DEF S
  <2>2. \A i \in 0 .. len : i \in S
    BY <2>1, <1>3, <1>4, UpTo
  <2> QED
    BY <2>1, <2>2
<1> QED
  BY <1>1, <1>5 DEF b, starts, len

\* An MP4 file that declares more than there is, in what its reader walks, leaves the mark of
\* corruption.
LEMMA IsoSeen ==
  ASSUME NEW f \in Files, f.magic = "mp4", IsoLost(f), NEW c \in ProbeIso(f)
  PROVE  c.validity = "corrupt"
<1> DEFINE b == f.boxes
           starts == BoxStarts(b)
           len == WalkedTo(b)
           top == WalkTopLevel(f)
           first == {n \in 1 .. len : b[n].kind = "moov" /\ \A k \in 1 .. n - 1 : b[k].kind # "moov"}
           far(t) == Class(t).class = "supported" /\ \E place \in Range(t.offsets) : place >= f.length
           tracks(n) == Range(ReadTraks(b[n].moov, b[n].size - HeaderOf(b[n])))
<1>1. f.length \in Nat /\ IsList(b) /\ \A x \in Range(b) : x.size \in Nat
  BY FilesAssumption
<1>2. {n \in DOMAIN b : n <= MaxTopLevelBoxes} = 1 .. len
  BY <1>1, WalkedBoxes
<1>3. /\ \A n \in 1 .. len : b[n].size >= HeaderOf(b[n])
      /\ \/ \E n \in 1 .. len : starts[n] + HeaderOf(b[n]) <= f.length /\ f.length < starts[n + 1]
         \/ \E t \in UNION {tracks(n) : n \in first} : far(t)
  <2> HIDE DEF len
  <2> QED
    BY <1>2, Zenon DEF IsoLost
<1>4. Corrupt.validity = "corrupt"
  BY DEF Corrupt, NewContainer
<1>5. Walking(top, b, starts, f.length, len)
  BY <1>1, <1>3, TopWalked
<1>6. /\ len \in Nat
      /\ \A i \in 1 .. len : starts[i] \in Nat /\ b[i].size \in Nat /\ starts[i + 1] = starts[i] + b[i].size
  <2>1. len \in Nat /\ \A i \in 1 .. len : i \in 1 .. Len(b)
    <3>1. len \in Nat /\ len <= Len(b) /\ Len(b) \in Nat
      BY <1>1, WalkedBoxes DEF IsList
    <3> HIDE DEF b, len
    <3> QED
      BY <3>1
  <2>2. \A i \in 1 .. len : b[i] \in Range(b)
    BY <1>1, <2>1 DEF Range, IsList
  <2>3. \A i \in 1 .. len : starts[i] \in Nat /\ starts[i + 1] = starts[i] + b[i].size
    BY <1>1, <2>1, BoxPlaces
  <2> HIDE DEF b, starts, len
  <2> QED
    BY <1>1, <2>1, <2>2, <2>3
<1>7. c = Corrupt \/ (~ top.tooLarge /\ \E m \in top.moov : c \in ReadMoov(f.length, top.corrupt, m.content, m.room))
  BY Zenon DEF ProbeIso, ReadTop
<1>8. CASE top.corrupt \/ top.tooLarge
  BY <1>4, <1>7, <1>8, MoovMarked
<1>9. CASE ~ top.corrupt /\ ~ top.tooLarge
  <2>1. Unnoticed(top, b, starts, f.length, len)
    BY <1>5, <1>9 DEF Walking
  <2> HIDE DEF b, starts, len, top
  <2>2. PICK k \in 1 .. len + 1 :
          /\ \A j \in 1 .. k : starts[j] <= f.length
          /\ top.moov = WholeMoov(b, k - 1)
          /\ \/ k = len + 1
             \/ k <= len /\ starts[k] + HeaderOf(b[k]) > f.length /\ \A j \in k + 1 .. len + 1 : starts[j] > f.length
    BY <2>1 DEF Unnoticed
  <2>3. ASSUME NEW n \in 1 .. len, starts[n] + HeaderOf(b[n]) <= f.length, f.length < starts[n + 1] PROVE FALSE
    <3>1. HeaderOf(b[n]) \in {8, 16}
      BY DEF HeaderOf
    <3> DEFINE here == starts[n]
               there == starts[n + 1]
    <3>2. here \in Nat /\ b[n].size \in Nat /\ there = here + b[n].size /\ f.length \in Nat
      BY <1>1, <1>6
    <3> HIDE DEF here, there
    <3>3. here <= f.length /\ there \in Nat /\ ~ (there <= f.length)
      BY <2>3, <3>1, <3>2 DEF here, there
    <3>4. n + 1 \notin 1 .. k
      BY <2>2, <3>3 DEF there
    <3>5. k # len + 1
      BY <1>6, <3>4
    <3>6. n \notin k + 1 .. len + 1
      BY <2>2, <3>2, <3>3, <3>5 DEF here
    <3>7. n = k
      BY <1>6, <3>4, <3>6
    <3> QED
      BY <2>2, <2>3, <3>1, <3>2, <3>5, <3>7 DEF here
  <2>4. PICK n \in first : \E t \in tracks(n) : far(t)
    <3> HIDE DEF far, tracks, first
    <3> QED
      BY <1>3, <1>6, <2>3
  <2>5. ASSUME NEW m \in top.moov PROVE m.content = b[n].moov /\ m.room = b[n].size - HeaderOf(b[n])
    <3>1. PICK i \in FirstMoov(b, k - 1) : m = [content |-> b[i].moov, room |-> b[i].size - HeaderOf(b[i])]
      BY <2>2 DEF WholeMoov
    <3>2. i = n
      BY <1>6, <2>2, <3>1 DEF FirstMoov
    <3> QED
      BY <3>1, <3>2
  <2>6. c = Corrupt \/ c \in ReadMoov(f.length, top.corrupt, b[n].moov, b[n].size - HeaderOf(b[n]))
    BY <1>7, <2>5
  <2>7. \E t \in Range(ReadTraks(b[n].moov, b[n].size - HeaderOf(b[n]))) :
          Class(t).class = "supported" /\ \E place \in Range(t.offsets) : place >= f.length
    BY <2>4
  <2> QED
    BY <1>4, <2>6, <2>7, MoovMarked
<1> QED
  BY <1>8, <1>9

\* The reader of the file that its first bytes tell leaves the mark, and so has the inspection.
LEMMA LossInspected ==
  ASSUME NEW f \in Files, Lost(f), InspectFile(f) # {}
  PROVE  Metadata(f).container.validity = "corrupt"
<1>1. Metadata(f) \in InspectFile(f)
  BY DEF Metadata
<1>2. PICK c \in ProbeFile(f) : Metadata(f) = BuildInspection(c, f.length)
  BY <1>1 DEF InspectFile
<1>3. Metadata(f).container.validity = c.validity
  <2>1. BuildInspection(c, f.length).container.validity = c.validity
    BY DEF BuildInspection
  <2> QED
    BY <1>2, <2>1
<1>4. \A kind \in Sniff(f.magic, f.length) : kind = f.magic
  BY DEF Sniff
<1>5. /\ f.magic = "mp4" => c \in ProbeIso(f)
      /\ f.magic = "mkv" => c \in ProbeMatroska(f)
      /\ f.magic = "wav" => c \in ProbeWav(f)
  BY <1>4 DEF ProbeFile
<1> QED
  BY <1>3, <1>5, IsoSeen, MatroskaSeen, WavSeen DEF Lost

\* What the metadata pass says of the container stays as it is, whatever is decoded.
ContainerKept == stage \in Opened => Found.container = Metadata(TheFile).container

\* The verdict is that of the findings.
JudgedByFindings == Judged => verdict = V!Decide(FailOn, Findings(results))

\* No step of the decode touches what was said of the container.
LEMMA ContainerStep ==
  ASSUME Inspected, ContainerKept, InspectNext
  PROVE  ContainerKept'
<1>1. stage \in Opened =>
        Found.container = Metadata(TheFile).container /\ InspectionFields \subseteq DOMAIN Found
  BY DEF ContainerKept, Inspected, Reading
<1>2. \A s \in {"video", "packets", "flush", "finish", "audio", "samples", "voice", "rules"} : s \in Opened
  BY DEF Opened, BeforeSound, BeforeFrames, AfterSound
<1>3. "idle" \notin Opened /\ "failed" \notin Opened
  BY DEF Opened, BeforeSound, BeforeFrames, AfterSound
<1>4. ASSUME stage \in Opened, UNCHANGED <<file, inspection>> PROVE ContainerKept'
  BY <1>1, <1>4, SameFile DEF ContainerKept
<1>5. ASSUME stage \in Opened, file' = file, NEW video, inspection' = {[Found EXCEPT !.video = video]} PROVE ContainerKept'
  <2>1. TheFile' = TheFile /\ Found' = [Found EXCEPT !.video = video]
    BY <1>5, SameFile
  <2>2. [Found EXCEPT !.video = video].container = Found.container
    BY <1>1, <1>5 DEF InspectionFields
  <2> QED
    BY <1>1, <1>5, <2>1, <2>2 DEF ContainerKept
<1>6. ASSUME stage \in Opened, file' = file, NEW audio, inspection' = {[Found EXCEPT !.audio = audio]} PROVE ContainerKept'
  <2>1. TheFile' = TheFile /\ Found' = [Found EXCEPT !.audio = audio]
    BY <1>6, SameFile
  <2>2. [Found EXCEPT !.audio = audio].container = Found.container
    BY <1>1, <1>6 DEF InspectionFields
  <2> QED
    BY <1>1, <1>6, <2>1, <2>2 DEF ContainerKept
<1>7. ASSUME NEW failed \in BOOLEAN, stage \in Opened, GiveUpVideo(failed) PROVE ContainerKept'
  <2>1. \E video : inspection' = {[Found EXCEPT !.video = video]}
    BY <1>7, Zenon DEF GiveUpVideo
  <2>2. file' = file
    BY <1>7 DEF GiveUpVideo
  <2> QED
    BY <1>5, <1>7, <2>1, <2>2
<1>8. ASSUME NEW failed \in BOOLEAN, stage \in Opened, GiveUpAudio(failed) PROVE ContainerKept'
  <2>1. \E audio : inspection' = {[Found EXCEPT !.audio = audio]}
    BY <1>8, Zenon DEF GiveUpAudio
  <2>2. file' = file
    BY <1>8 DEF GiveUpAudio
  <2> QED
    BY <1>6, <1>8, <2>1, <2>2
<1>9. CASE InspectMetadata
  <2>1. PICK f \in Files :
          /\ file' = {f}
          /\ inspection' = IF InspectFile(f) = {} THEN {} ELSE {Metadata(f)}
          /\ stage' = IF inspection' = {} THEN "failed" ELSE "video"
    BY <1>9 DEF InspectMetadata
  <2>2. CASE InspectFile(f) = {}
    BY <1>3, <2>1, <2>2 DEF ContainerKept
  <2>3. CASE InspectFile(f) # {}
    <3>1. TheFile' = f /\ Found' = Metadata(f)
      BY <2>1, <2>3, SameFile
    <3> QED
      BY <3>1 DEF ContainerKept
  <2> QED
    BY <2>2, <2>3
<1>10. CASE SkipDecode
  BY <1>2, <1>4, <1>10 DEF SkipDecode
<1>11. CASE OpenVideo
  BY <1>2, <1>4, <1>7, <1>11 DEF OpenVideo
<1>12. CASE DemuxFails
  BY <1>2, <1>7, <1>12 DEF DemuxFails
<1>13. CASE ReadPacket \/ ReadSilentPacket
  BY <1>2, <1>4, <1>13 DEF ReadPacket, ReadSilentPacket
<1>14. CASE DecodeFails
  BY <1>2, <1>7, <1>14 DEF DecodeFails
<1>15. CASE EndOfPackets
  BY <1>2, <1>4, <1>7, <1>15 DEF EndOfPackets
<1>16. CASE FlushDecoder
  BY <1>2, <1>4, <1>16 DEF FlushDecoder
<1>17. CASE FinishVideo
  <2>1. stage \in Opened
    BY <1>2, <1>17 DEF FinishVideo
  <2>2. CASE GiveUpVideo(FALSE)
    BY <1>7, <2>1, <2>2
  <2>3. CASE ~ GiveUpVideo(FALSE)
    <3>1. file' = file /\ \E video : inspection' = {[Found EXCEPT !.video = video]}
      BY <1>17, <2>3, Zenon DEF FinishVideo
    <3> QED
      BY <1>5, <2>1, <3>1
  <2> QED
    BY <2>2, <2>3
<1>18. CASE OpenAudio
  BY <1>2, <1>4, <1>8, <1>18 DEF OpenAudio
<1>19. CASE DecodeSamples
  BY <1>2, <1>4, <1>19 DEF DecodeSamples
<1>20. CASE SamplesFail
  BY <1>2, <1>8, <1>20 DEF SamplesFail
<1>21. CASE FinishAudio
  <2>1. stage \in Opened
    BY <1>2, <1>21 DEF FinishAudio
  <2>2. CASE GiveUpAudio(TRUE)
    BY <1>8, <2>1, <2>2
  <2>3. CASE ~ GiveUpAudio(TRUE)
    <3>1. file' = file /\ \E audio : inspection' = {[Found EXCEPT !.audio = audio]}
      BY <1>21, <2>3, Zenon DEF FinishAudio
    <3> QED
      BY <1>6, <2>1, <3>1
  <2> QED
    BY <2>2, <2>3
<1>22. CASE AnalyzeAndMerge
  <2>1. stage \in Opened /\ file' = file
    BY <1>2, <1>22 DEF AnalyzeAndMerge
  <2>2. PICK voice : inspection' = {MergeInspections(Metadata(TheFile), [Found EXCEPT !.voice = voice])}
    BY <1>22 DEF AnalyzeAndMerge
  <2> DEFINE meta == Metadata(TheFile)
             decoded == [Found EXCEPT !.voice = voice]
             g == MergeInspections(meta, decoded)
  <2>3. TheFile' = TheFile /\ Found' = g
    BY <2>1, <2>2, SameFile
  <2>4. InspectionFields \subseteq DOMAIN meta
    BY <2>1, MetadataIsBlank DEF Inspected, Reading
  <2>5. decoded.container = Found.container
    BY <1>1, <2>1 DEF InspectionFields
  <2> HIDE DEF decoded, meta
  <2>6. g.container = decoded.container
    BY <2>4 DEF MergeInspections, InspectionFields
  <2> HIDE DEF g
  <2> QED
    BY <1>1, <2>1, <2>3, <2>5, <2>6 DEF ContainerKept
<1>23. CASE NextAsset
  BY <1>3, <1>23 DEF NextAsset, ContainerKept
<1> QED
  BY <1>9, <1>10, <1>11, <1>12, <1>13, <1>14, <1>15, <1>16, <1>17, <1>18, <1>19, <1>20, <1>21, <1>22, <1>23
     DEF InspectNext

\* What is judged is what the metadata pass said of the container, and by its findings.
LEMMA JudgedContainer == AnalysisSpec => [](ContainerKept /\ JudgedByFindings)
<1>1. AnalysisInit => ContainerKept /\ JudgedByFindings
  BY DEF AnalysisInit, InspectInit, ContainerKept, JudgedByFindings, Judged, Opened, BeforeSound, BeforeFrames, AfterSound
<1>2. Inspected /\ ContainerKept /\ JudgedByFindings /\ [AnalysisNext]_vars => (ContainerKept /\ JudgedByFindings)'
  <2> SUFFICES ASSUME Inspected, ContainerKept, JudgedByFindings, [AnalysisNext]_vars
               PROVE  ContainerKept' /\ JudgedByFindings'
    OBVIOUS
  <2>1. ASSUME UNCHANGED <<inspectVars, results, verdict>> PROVE ContainerKept' /\ JudgedByFindings'
    <3>1. UNCHANGED <<file, stage, inspection, results, verdict>>
      BY <2>1 DEF inspectVars
    <3>2. TheFile' = TheFile /\ Found' = Found /\ Findings(results)' = Findings(results)
      BY <3>1, SameFile DEF Findings
    <3>3. V!Decide(FailOn, Findings(results))' = V!Decide(FailOn, Findings(results))
      BY <3>2
    <3> QED
      BY <3>1, <3>2, <3>3 DEF ContainerKept, JudgedByFindings, Judged
  <2>2. CASE Look
    <3>1. InspectNext
      BY <2>2 DEF Look
    <3>2. ContainerKept' /\ stage' # "judged"
      BY <3>1, ContainerStep, InspectionStep
    <3> QED
      BY <3>2 DEF JudgedByFindings, Judged
  <2>3. CASE Judge
    <3>1. /\ stage = "rules" /\ stage' = "judged" /\ UNCHANGED <<file, inspection>>
          /\ verdict' = V!Decide(FailOn, Findings(results'))
      BY <2>3 DEF Judge
    <3>2. stage \in Opened /\ TheFile' = TheFile /\ Found' = Found
      BY <3>1, SameFile DEF Opened, AfterSound
    <3> QED
      BY <3>1, <3>2 DEF ContainerKept, JudgedByFindings
  <2>4. CASE AskProfile \/ AskCustom \/ AskFlashes \/ Forget
    BY <2>1, <2>4 DEF AskProfile, AskCustom, AskFlashes, Asks, Forget
  <2>5. CASE UNCHANGED vars
    BY <2>1, <2>5 DEF vars
  <2> QED
    BY <2>2, <2>3, <2>4, <2>5 DEF AnalysisNext
<1>3. AnalysisSpec => []Inspected
  BY Invariance, PTL
<1> QED
  BY <1>1, <1>2, <1>3, PTL DEF AnalysisSpec

\* The decision on findings of which one fails as an error.
LEMMA ErrorFails ==
  ASSUME NEW found, NEW x \in found, x.status = "fail", x.severity = "error", FailOn # "critical"
  PROVE  V!Decide(FailOn, found) = "fail"
<1>1. V!Reaches(x, FailOn)
  BY PolicyAssumption DEF V!Reaches, V!Grade, V!Severity
<1> QED
  BY <1>1 DEF V!Decide

\* Whatever files there are: one of which data is lost is not read, or fails as not readable,
\* whatever the decode finds, and the asset with it (walk_top_level in probe/src/iso_bmff.rs,
\* scan in matroska.rs, probe_wav in audio_files.rs, Readable in rules/src/container.rs).
THEOREM LostDataIsSeen == AnalysisSpec => []LostDataShows
<1>1. Inspected /\ JudgedByRules /\ ContainerKept /\ JudgedByFindings => LostDataShows
  <2> DEFINE readable == <<"container", "readable">>
  <2> SUFFICES ASSUME Inspected, JudgedByRules, ContainerKept, JudgedByFindings, Judged, Lost(TheFile),
                      NEW n \in DOMAIN results, results[n].id = readable
               PROVE  ResultOf(readable) = Failure /\ (FailOn # "critical" => verdict = "fail")
    BY DEF LostDataShows
  <2>1. stage \in Opened
    BY DEF Judged, Opened, AfterSound
  <2>2. Found.container.validity = "corrupt"
    BY <2>1, LossInspected DEF Inspected, Reading, ContainerKept
  <2>3. PICK profile \in Profiles : results = RunRules(profile)
    BY DEF JudgedByRules
  <2> DEFINE ctx == Context
  <2>4. \A i \in DOMAIN results : results[i].statuses = RuleResult(profile, results[i].id, ctx)
    BY <2>3 DEF RunRules
  <2>5. ctx.container = Found.container
    BY DEF Context
  <2> HIDE DEF ctx
  <2>6. RuleResult(profile, readable, ctx) = Failure
    <3>1. RuleResult(profile, readable, ctx) = ContainerRule("readable", profile["container"]["readable"], ctx)
      BY DEF RuleResult
    <3>2. \A cfg : ContainerRule("readable", cfg, ctx) = Readable(cfg, ctx)
      BY DEF ContainerRule
    <3>3. \A cfg : Readable(cfg, ctx) = Failure
      BY <2>2, <2>5 DEF Readable, Scanned, Needs, FailIf
    <3> QED
      BY <3>1, <3>2, <3>3
  <2>7. \A i \in DOMAIN results : results[i].id = readable => results[i].statuses = Failure
    BY <2>4, <2>6
  <2>8. ResultOf(readable) = Failure
    BY <2>7 DEF ResultOf
  <2>9. ASSUME FailOn # "critical" PROVE verdict = "fail"
    <3> DEFINE x == [rule |-> n, status |-> "fail", severity |-> "error"]
    <3>1. "fail" \in results[n].statuses
      BY <2>7 DEF Failure
    <3>2. x \in {[rule |-> n, status |-> s, severity |-> IF s = "pass" THEN "info" ELSE "error"] : s \in results[n].statuses}
      BY <3>1
    <3>3. x \in Findings(results)
      BY <3>2, Zenon DEF Findings
    <3>4. V!Decide(FailOn, Findings(results)) = "fail"
      BY <2>9, <3>3, ErrorFails
    <3> QED
      BY <3>4 DEF JudgedByFindings
  <2> QED
    BY <2>8, <2>9
<1> QED
  BY <1>1, Invariance, JudgedContainer, PTL

-----------------------------------------------------------------------------
(* The clock of a transport stream.                                        *)

\* A number is its rounds and a rest of less than a round,
LEMMA Division ==
  ASSUME NEW w \in Nat \ {0}, NEW x \in Int
  PROVE  x \div w \in Int /\ x % w \in 0 .. w - 1 /\ x = (x \div w) * w + (x % w)
OBVIOUS

\* and the only one: rounds more or less leave the rest as it is.
LEMMA SameRest ==
  ASSUME NEW w \in Nat \ {0}, NEW x \in Int, NEW q \in Int
  PROVE  (x - q * w) % w = x % w
<1> DEFINE p == x \div w
           r == x % w
           y == x - q * w
           s == y \div w
           t == y % w
<1>1. p \in Int /\ r \in Int /\ 0 <= r /\ r < w /\ x = p * w + r
  BY Division
<1>2. y \in Int
  OBVIOUS
<1>3. s \in Int /\ t \in Int /\ 0 <= t /\ t < w /\ y = s * w + t
  BY <1>2, Division
<1>4. y = x - q * w
  OBVIOUS
<1> HIDE DEF p, r, y, s, t
<1> DEFINE turn == p - q - s
<1>5. turn \in Int /\ turn * w = t - r
  BY <1>1, <1>3, <1>4
<1> HIDE DEF turn
<1>6. turn = 0
  <2>1. turn >= 1 => turn * w >= w
    BY <1>5
  <2>2. turn <= -1 => turn * w <= -w
    BY <1>5
  <2> QED
    BY <1>1, <1>3, <1>5, <2>1, <2>2
<1>7. t = r
  BY <1>1, <1>3, <1>5, <1>6
<1> QED
  BY <1>7 DEF t, r, y

\* Of two readings less than half a round apart, the step between them is what is appended.
LEMMA NearestTime ==
  ASSUME NEW last \in Int, NEW here \in Int, last % Wrap = here % Wrap,
         NEW next \in Int, 2 * Distance(here, next) < Wrap,
         NEW times \in Seq(Int), times # <<>>, times[Len(times)] = last
  PROVE  Unwrapped(times, next % Wrap) = Append(times, last + (next - here))
<1> DEFINE half == Wrap \div 2
           d == (next % Wrap) - (here % Wrap)
           step == IF d < -half THEN d + Wrap ELSE IF d > half THEN d - Wrap ELSE d
<1>1. Wrap \in Nat \ {0}
  BY TsAssumption
<1>2. Unwrapped(times, next % Wrap) = Append(times, last + step)
  BY DEF Unwrapped
<1> DEFINE q == here \div Wrap
           p == next \div Wrap
           a == here % Wrap
           b == next % Wrap
<1>3. q \in Int /\ a \in 0 .. Wrap - 1 /\ here = q * Wrap + a
  BY <1>1, Division
<1>4. p \in Int /\ b \in 0 .. Wrap - 1 /\ next = p * Wrap + b
  BY <1>1, Division
<1>5. next - here = (p - q) * Wrap + d
  <2> HIDE DEF p, q, a, b
  <2>1. next - here = (p - q) * Wrap + (b - a)
    BY <1>1, <1>3, <1>4
  <2> QED
    BY <2>1 DEF a, b
<1>6. d \in Int /\ -Wrap < d /\ d < Wrap
  <2> HIDE DEF p, q, a, b
  <2>1. b - a \in Int /\ -Wrap < b - a /\ b - a < Wrap
    BY <1>1, <1>3, <1>4
  <2> QED
    BY <2>1 DEF a, b
<1>7. half \in Int /\ 2 * half <= Wrap /\ Wrap < 2 * half + 2
  BY <1>1
<1>8. 2 * (next - here) < Wrap /\ 2 * (here - next) < Wrap
  BY <1>1 DEF Distance
<1> DEFINE turn == p - q
<1> HIDE DEF d, half
<1>9. turn \in Int /\ next - here = turn * Wrap + d
  BY <1>3, <1>4, <1>5
<1> HIDE DEF turn
<1>10. turn \in {-1, 0, 1}
  <2>1. CASE turn >= 2
    <3>1. turn * Wrap >= 2 * Wrap
      BY <1>1, <1>9, <2>1
    <3> QED
      BY <1>1, <1>6, <1>8, <1>9, <3>1
  <2>2. CASE turn <= -2
    <3>1. turn * Wrap <= (-2) * Wrap
      BY <1>1, <1>9, <2>2
    <3> QED
      BY <1>1, <1>6, <1>8, <1>9, <3>1
  <2> QED
    BY <1>9, <2>1, <2>2
<1>11. step = next - here
  <2>1. CASE turn = 0
    <3>1. next - here = d
      BY <1>1, <1>6, <1>9, <2>1
    <3> QED
      BY <1>1, <1>6, <1>7, <1>8, <3>1
  <2>2. CASE turn = 1
    <3>1. next - here = Wrap + d
      BY <1>1, <1>6, <1>9, <2>2
    <3> QED
      BY <1>1, <1>6, <1>7, <1>8, <3>1
  <2>3. CASE turn = -1
    <3>1. next - here = d - Wrap
      BY <1>1, <1>6, <1>9, <2>3
    <3> QED
      BY <1>1, <1>6, <1>7, <1>8, <3>1
  <2> QED
    BY <1>10, <2>1, <2>2, <2>3
<1> QED
  BY <1>2, <1>11

\* The readings of a clock, one after the other.
Unwraps(g, clock) ==
  /\ g[0] = <<>>
  /\ \A i \in 1 .. Len(clock) : g[i] = Unwrapped(g[i - 1], clock[i] % Wrap)

\* No two readings are half a round of the counter apart.
Slow(clock) == \A i \in 1 .. Len(clock) - 1 : 2 * Distance(clock[i], clock[i + 1]) < Wrap

\* The whole rounds before the first reading.
Rounds(clock) == (clock[1] \div Wrap) * Wrap

\* The readings of a slow clock give its own times, less the rounds before the first.
LEMMA ClockUnwraps ==
  ASSUME NEW clock \in Seq(Int), Slow(clock), NEW g, Unwraps(g, clock)
  PROVE  g[Len(clock)] = [k \in 1 .. Len(clock) |-> clock[k] - Rounds(clock)]
<1> DEFINE len == Len(clock)
           rounds == Rounds(clock)
           S == {i \in 0 .. len : g[i] = [k \in 1 .. i |-> clock[k] - rounds]}
<1>1. Wrap \in Nat \ {0}
  BY TsAssumption
<1>2. len \in Nat /\ \A k \in 1 .. len : clock[k] \in Int
  OBVIOUS
<1>3. ASSUME clock # <<>> PROVE rounds \in Int /\ clock[1] - rounds = clock[1] % Wrap
  <2> DEFINE q == clock[1] \div Wrap
             a == clock[1] % Wrap
  <2>1. clock[1] \in Int
    BY <1>2, <1>3
  <2>2. q \in Int /\ a \in 0 .. Wrap - 1 /\ clock[1] = q * Wrap + a
    BY <1>1, <2>1, Division
  <2>3. rounds = q * Wrap
    BY DEF Rounds
  <2> HIDE DEF q, a, rounds
  <2>4. rounds \in Int /\ clock[1] - rounds = a
    BY <1>1, <2>1, <2>2, <2>3
  <2> QED
    BY <2>4 DEF a
<1>4. ASSUME NEW k \in 1 .. len PROVE (clock[k] - rounds) % Wrap = clock[k] % Wrap
  <2>1. clock[1] \in Int /\ clock[k] \in Int
    BY <1>2
  <2>2. clock[1] \div Wrap \in Int
    BY <1>1, <2>1, Division
  <2> QED
    BY <1>1, <2>1, <2>2, SameRest DEF Rounds
<1>5. 0 \in S
  <2>1. [k \in 1 .. 0 |-> clock[k] - rounds] = <<>>
    OBVIOUS
  <2> QED
    BY <1>2, <2>1 DEF Unwraps
<1>6. ASSUME NEW i \in 1 .. len, i - 1 \in S PROVE i \in S
  <2> HIDE DEF rounds
  <2>1. g[i] = Unwrapped(g[i - 1], clock[i] % Wrap) /\ i \in 0 .. len
    BY <1>2 DEF Unwraps
  <2>2. CASE i = 1
    <3>1. g[0] = <<>> /\ clock # <<>>
      BY <1>2 DEF Unwraps
    <3>2. g[1] = <<clock[1] % Wrap>>
      BY <2>1, <2>2, <3>1 DEF Unwrapped
    <3>3. [k \in 1 .. 1 |-> clock[k] - rounds] = <<clock[1] - rounds>>
      OBVIOUS
    <3> QED
      BY <1>3, <2>1, <2>2, <3>1, <3>2, <3>3
  <2>3. CASE i # 1
    <3> DEFINE times == g[i - 1]
               last == clock[i - 1] - rounds
    <3>1. i - 1 \in 1 .. len /\ i - 1 \in 1 .. len - 1 /\ (i - 1) + 1 = i /\ i - 1 \in 0 .. len
      BY <1>2, <2>3
    <3>2. times = [k \in 1 .. i - 1 |-> clock[k] - rounds]
      BY <1>6
    <3>3. rounds \in Int
      BY <1>2, <1>3
    <3>4. times \in Seq(Int) /\ times # <<>> /\ Len(times) = i - 1 /\ times[Len(times)] = last /\ last \in Int
      <4>1. \A k \in 1 .. i - 1 : clock[k] - rounds \in Int
        BY <1>2, <3>1, <3>3
      <4> HIDE DEF times
      <4>2. times \in [1 .. i - 1 -> Int] /\ times[i - 1] = last
        BY <3>1, <3>2, <4>1
      <4>3. times \in Seq(Int) /\ Len(times) = i - 1
        BY <3>1, <4>2
      <4> QED
        BY <3>1, <4>1, <4>2, <4>3
    <3>5. 2 * Distance(clock[i - 1], clock[i]) < Wrap
      BY <3>1 DEF Slow
    <3>6. last % Wrap = clock[i - 1] % Wrap
      BY <1>4, <3>1
    <3> HIDE DEF times
    <3>7. Unwrapped(times, clock[i] % Wrap) = Append(times, last + (clock[i] - clock[i - 1]))
      BY <1>2, <3>1, <3>4, <3>5, <3>6, NearestTime
    <3>8. last + (clock[i] - clock[i - 1]) = clock[i] - rounds
      BY <1>2, <3>1, <3>3
    <3>9. Append(times, clock[i] - rounds) = [k \in 1 .. i |-> clock[k] - rounds]
      BY <1>2, <3>1, <3>2, <3>3, <3>4
    <3> QED
      BY <2>1, <3>7, <3>8, <3>9 DEF times
  <2> QED
    BY <2>2, <2>3
<1>7. len \in S
  <2> HIDE DEF S, len, rounds
  <2>1. \A i \in 0 .. len : i \in S
    BY <1>2, <1>5, <1>6, UpTo
  <2> QED
    BY <1>2, <2>1
<1> QED
  BY <1>7

\* Times that are shifted as a whole have the same jumps, shifted.
LEMMA JumpsShift ==
  ASSUME NEW clock \in Seq(Int), NEW shift \in Int,
         NEW times, times = [k \in 1 .. Len(clock) |-> clock[k] - shift]
  PROVE  TsJumps(times) = {<<s[1] - shift, s[2] - shift>> : s \in TsJumps(clock)}
<1> DEFINE len == Len(clock)
           less(s) == <<s[1] - shift, s[2] - shift>>
           skips(m, q) == {s \in Range(Steps(q)) : s[2] - s[1] >= 20 * TicksPerMs /\ 2 * (s[2] - s[1]) > 3 * m}
           back(q) == {<<s[2], s[1]>> : s \in {x \in Range(Steps(q)) : x[2] < x[1]}}
           median(q) == CHOOSE x \in OrElse(TsMedian(q), {0}) : TRUE
<1>1. len \in Nat /\ \A k \in 1 .. len : clock[k] \in Int /\ times[k] = clock[k] - shift
  OBVIOUS
<1>2. Len(times) = len
  BY <1>1
<1>3. \A q : TsJumps(q) = skips(median(q), q) \cup back(q)
  BY Zenon DEF TsJumps
<1>4. /\ Steps(times) = [k \in 1 .. len - 1 |-> less(Steps(clock)[k])]
      /\ Steps(clock) = [k \in 1 .. len - 1 |-> <<clock[k], clock[k + 1]>>]
  BY <1>1, <1>2 DEF Steps
<1>5. \A k \in 1 .. len - 1 : Steps(times)[k][2] - Steps(times)[k][1] = Steps(clock)[k][2] - Steps(clock)[k][1]
  BY <1>1, <1>4
<1>6. TsMedian(times) = TsMedian(clock)
  <2>1. [k \in DOMAIN Steps(times) |-> Steps(times)[k][2] - Steps(times)[k][1]] =
        [k \in DOMAIN Steps(clock) |-> Steps(clock)[k][2] - Steps(clock)[k][1]]
    BY <1>4, <1>5
  <2> QED
    BY <2>1, Zenon DEF TsMedian
<1> DEFINE here == Range(Steps(clock))
           there == Range(Steps(times))
           long(s, m) == s[2] - s[1] >= 20 * TicksPerMs /\ 2 * (s[2] - s[1]) > 3 * m
           turned(s) == <<s[2], s[1]>>
<1>7. there = {less(s) : s \in here}
  <2> HIDE DEF less
  <2>1. DOMAIN Steps(times) = DOMAIN Steps(clock) /\ \A k \in DOMAIN Steps(clock) : Steps(times)[k] = less(Steps(clock)[k])
    BY <1>4
  <2> QED
    BY <2>1 DEF Range
<1>8. \A s \in here : s[1] \in Int /\ s[2] \in Int
  BY <1>1, <1>4 DEF Range
<1>9. \A s \in here : less(s)[1] = s[1] - shift /\ less(s)[2] = s[2] - shift /\ less(turned(s)) = turned(less(s))
  OBVIOUS
<1>10. \A s \in here : less(s)[2] - less(s)[1] = s[2] - s[1] /\ (less(s)[2] < less(s)[1] <=> s[2] < s[1])
  <2> HIDE DEF here, less, turned
  <2> QED
    BY <1>8, <1>9
<1>11. \A m : skips(m, times) = {less(s) : s \in skips(m, clock)}
  <2>1. \A m, s : s \in here => (long(less(s), m) <=> long(s, m))
    <3> HIDE DEF less, here
    <3> QED
      BY <1>10
  <2>2. \A m : skips(m, times) = {s \in there : long(s, m)} /\ skips(m, clock) = {s \in here : long(s, m)}
    OBVIOUS
  <2> HIDE DEF skips, long, here, there, less
  <2>3. ASSUME NEW m PROVE {s \in there : long(s, m)} = {less(s) : s \in {x \in here : long(x, m)}}
    BY <1>7, <2>1
  <2> QED
    BY <2>2, <2>3
<1>12. back(times) = {less(s) : s \in back(clock)}
  <2> DEFINE Falls(q) == {x \in q : x[2] < x[1]}
  <2>1. back(times) = {turned(s) : s \in Falls(there)} /\ back(clock) = {turned(s) : s \in Falls(here)}
    OBVIOUS
  <2>2. Falls(there) = {less(s) : s \in Falls(here)}
    <3> HIDE DEF here, there, less
    <3> QED
      BY <1>7, <1>10
  <2>3. \A s \in Falls(here) : less(turned(s)) = turned(less(s))
    BY <1>9
  <2> HIDE DEF back, Falls, turned, less, here, there
  <2> QED
    BY <2>1, <2>2, <2>3
<1>13. median(times) = median(clock)
  BY <1>6
<1> HIDE DEF less, skips, back, median
<1>14. TsJumps(times) = {less(s) : s \in TsJumps(clock)}
  <2> DEFINE m == median(clock)
             S == skips(m, clock)
             T == back(clock)
  <2>1. TsJumps(times) = skips(m, times) \cup back(times)
    BY <1>3, <1>13
  <2>2. TsJumps(times) = {less(s) : s \in S} \cup {less(s) : s \in T}
    BY <1>11, <1>12, <2>1
  <2>3. TsJumps(clock) = S \cup T
    BY <1>3
  <2> HIDE DEF S, T
  <2> QED
    BY <2>2, <2>3
<1> QED
  BY <1>14 DEF less

\* Whatever the readings of a clock: if no two that follow each other are half a round of the
\* counter apart, the jumps that are found are those of the clock itself (TsTrack::push and gaps in
\* probe/src/mpegts.rs).  That the counter begins anew is none.
THEOREM WrapIsNoJump ==
  ASSUME NEW clock \in Seq(Int), Slow(clock), NEW g, Unwraps(g, clock), clock # <<>>
  PROVE  TsJumps(g[Len(clock)]) = {<<s[1] - Rounds(clock), s[2] - Rounds(clock)>> : s \in TsJumps(clock)}
<1>1. Rounds(clock) \in Int
  <2>1. clock[1] \in Int
    OBVIOUS
  <2>2. Wrap \in Nat \ {0}
    BY TsAssumption
  <2>3. clock[1] \div Wrap \in Int
    BY <2>1, <2>2, Division
  <2> QED
    BY <2>2, <2>3 DEF Rounds
<1> QED
  BY <1>1, ClockUnwraps, JumpsShift

-----------------------------------------------------------------------------
(* The cheapest alignment.                                                 *)

Cells == [s : Nat, d : Nat, i : Nat]

\* The best of three cells costs what the cheapest way costs.
LEMMA CheapestCost ==
  ASSUME NEW diag \in Cells, NEW up \in Cells, NEW left \in Cells, NEW same \in BOOLEAN
  PROVE  LET c == Cheapest(diag, up, left, same)
             over == Cost(diag) + (IF same THEN 0 ELSE 1)
         IN  /\ c \in Cells
             /\ Cost(c) <= over /\ Cost(c) <= Cost(up) + 1 /\ Cost(c) <= Cost(left) + 1
             /\ Cost(c) \in {over, Cost(up) + 1, Cost(left) + 1}
<1> DEFINE diagonal == IF same THEN diag ELSE [diag EXCEPT !.s = @ + 1]
           delete   == [up EXCEPT !.d = @ + 1]
           insert   == [left EXCEPT !.i = @ + 1]
           better(a, b) == IF Cost(b) < Cost(a) THEN b ELSE a
           c == better(better(diagonal, delete), insert)
<1>1. Cheapest(diag, up, left, same) = c
  BY DEF Cheapest
<1>2. /\ diagonal \in Cells /\ Cost(diagonal) = Cost(diag) + (IF same THEN 0 ELSE 1)
      /\ delete \in Cells /\ Cost(delete) = Cost(up) + 1
      /\ insert \in Cells /\ Cost(insert) = Cost(left) + 1
  BY DEF Cells, Cost
<1>3. \A x \in Cells : Cost(x) \in Nat
  BY DEF Cells, Cost
<1> HIDE DEF diagonal, delete, insert
<1>4. c \in {diagonal, delete, insert}
  OBVIOUS
<1>5. Cost(c) <= Cost(diagonal) /\ Cost(c) <= Cost(delete) /\ Cost(c) <= Cost(insert)
  BY <1>2, <1>3
<1> HIDE DEF c
<1> QED
  BY <1>1, <1>2, <1>4, <1>5

\* A row is filled cell by cell.
LEMMA RowFilled ==
  ASSUME NEW r, NEW h, Len(h) \in Nat, NEW k \in Nat \ {0}, NEW previous \in [0 .. Len(h) -> Cells]
  PROVE  /\ EditRow(previous, k, r, h) \in [0 .. Len(h) -> Cells]
         /\ EditRow(previous, k, r, h)[0] = Cell(0, k, 0)
         /\ \A n \in 1 .. Len(h) : EditRow(previous, k, r, h)[n] =
              Cheapest(previous[n - 1], previous[n], EditRow(previous, k, r, h)[n - 1], r[k] = h[n])
<1> DEFINE m == Len(h)
           next(n, c) == Cheapest(previous[n - 1], previous[n], c, r[k] = h[n])
           Made(f) == f = [n \in 0 .. m |-> IF n = 0 THEN Cell(0, k, 0) ELSE next(n, f[n - 1])]
           row == CHOOSE f : Made(f)
           step == [x \in (1 .. m) \X Cells |-> next(x[1], x[2])]
<1>1. EditRow(previous, k, r, h) = row
  BY Zenon DEF EditRow
<1>2. \A n \in 1 .. m, c \in Cells : next(n, c) \in Cells /\ step[<<n, c>>] = next(n, c)
  <2> SUFFICES ASSUME NEW n \in 1 .. m, NEW c \in Cells
               PROVE  next(n, c) \in Cells /\ step[<<n, c>>] = next(n, c)
    OBVIOUS
  <2>1. previous[n - 1] \in Cells /\ previous[n] \in Cells /\ (r[k] = h[n]) \in BOOLEAN
    OBVIOUS
  <2>2. next(n, c) \in Cells
    BY <2>1, CheapestCost
  <2> QED
    BY <2>2
<1>3. Cell(0, k, 0) \in Cells
  BY DEF Cell, Cells
<1> HIDE DEF next, m, step
<1>4. PICK g : StepsTo(g, step, Cell(0, k, 0), m, Cells)
  <2>1. StepsIn(step, m, Cells)
    BY <1>2 DEF StepsIn
  <2>2. m \in Nat
    BY DEF m
  <2> QED
    BY <1>3, <2>1, <2>2, StepsExist
<1>5. /\ m \in Nat /\ g = [n \in 0 .. m |-> g[n]] /\ g[0] = Cell(0, k, 0)
      /\ \A n \in 0 .. m : g[n] \in Cells
      /\ \A n \in 1 .. m : g[n] = next(n, g[n - 1])
  <2>1. m \in Nat
    BY DEF m
  <2>2. \A n \in 1 .. m : n - 1 \in 0 .. m
    BY <2>1
  <2> QED
    BY <1>2, <1>4, <2>1, <2>2 DEF StepsTo
<1>6. Made(g)
  <2>1. \A n \in 0 .. m : g[n] = IF n = 0 THEN Cell(0, k, 0) ELSE next(n, g[n - 1])
    BY <1>5
  <2> QED
    BY <1>5, <2>1
<1>7. Made(row)
  BY <1>6
<1> HIDE DEF row
<1>8. row[0] = Cell(0, k, 0) /\ \A n \in 1 .. m : row[n] = next(n, row[n - 1])
  <2>1. row[0] = Cell(0, k, 0)
    BY <1>5, <1>7
  <2>2. ASSUME NEW n \in 1 .. m PROVE row[n] = next(n, row[n - 1])
    <3>1. n \in 0 .. m /\ n # 0
      BY <1>5
    <3> QED
      BY <1>7, <3>1
  <2> QED
    BY <2>1, <2>2
<1> DEFINE S == {n \in 0 .. m : row[n] \in Cells}
<1>9. 0 \in S
  BY <1>3, <1>5, <1>8
<1>10. ASSUME NEW n \in 1 .. m, n - 1 \in S PROVE n \in S
  <2>1. n \in 0 .. m /\ row[n - 1] \in Cells
    BY <1>5, <1>10
  <2> QED
    BY <1>2, <1>8, <2>1
<1>11. \A n \in 0 .. m : row[n] \in Cells
  <2> HIDE DEF S
  <2>1. \A n \in 0 .. m : n \in S
    BY <1>5, <1>9, <1>10, UpTo
  <2> QED
    BY <2>1 DEF S
<1>12. row \in [0 .. m -> Cells]
  <2>1. row = [n \in 0 .. m |-> row[n]]
    BY <1>7, <1>8, <1>5
  <2> QED
    BY <1>11, <2>1
<1> QED
  BY <1>1, <1>8, <1>12 DEF m, next

\* The cells of two texts: t[i][j] counts for the first i words of one and the first j of the other.
Filled(t, r, h) ==
  /\ \A i \in 0 .. Len(r) : t[i] \in [0 .. Len(h) -> Cells]
  /\ \A j \in 0 .. Len(h) : t[0][j] = Cell(0, 0, j)
  /\ \A i \in 1 .. Len(r) :
       /\ t[i][0] = Cell(0, i, 0)
       /\ \A j \in 1 .. Len(h) : t[i][j] = Cheapest(t[i - 1][j - 1], t[i - 1][j], t[i][j - 1], r[i] = h[j])

\* They are filled row by row, and the last one is what is counted.
LEMMA TableFilled ==
  ASSUME NEW r, NEW h, Len(r) \in Nat, Len(h) \in Nat
  PROVE  \E t : Filled(t, r, h) /\ EditCounts(r, h) = t[Len(r)][Len(h)]
<1> DEFINE n == Len(r)
           m == Len(h)
           first == [j \in 0 .. m |-> Cell(0, 0, j)]
           Rows == [0 .. m -> Cells]
           Made(f) == f = [k \in 0 .. n |-> IF k = 0 THEN first ELSE EditRow(f[k - 1], k, r, h)]
           t == CHOOSE f : Made(f)
           step == [x \in (1 .. n) \X Rows |-> EditRow(x[2], x[1], r, h)]
<1>1. EditCounts(r, h) = t[n][m]
  BY Zenon DEF EditCounts
<1>2. first \in Rows
  BY DEF Cells, Cell
<1>3. \A k \in 1 .. n, row \in Rows : EditRow(row, k, r, h) \in Rows /\ step[<<k, row>>] = EditRow(row, k, r, h)
  <2> SUFFICES ASSUME NEW k \in 1 .. n, NEW row \in Rows
               PROVE  EditRow(row, k, r, h) \in Rows /\ step[<<k, row>>] = EditRow(row, k, r, h)
    OBVIOUS
  <2>1. k \in Nat \ {0}
    OBVIOUS
  <2>2. EditRow(row, k, r, h) \in Rows
    BY <2>1, RowFilled
  <2>3. step[<<k, row>>] = EditRow(row, k, r, h)
    <3> HIDE DEF Rows
    <3> QED
      OBVIOUS
  <2> QED
    BY <2>2, <2>3
<1>4. n \in Nat /\ m \in Nat
  OBVIOUS
<1>5. \A j \in 0 .. m : first[j] = Cell(0, 0, j)
  OBVIOUS
<1> HIDE DEF n, m, first, Rows, step
<1>6. PICK g : StepsTo(g, step, first, n, Rows)
  <2>1. StepsIn(step, n, Rows)
    BY <1>3 DEF StepsIn
  <2> QED
    BY <1>2, <1>4, <2>1, StepsExist
<1>7. /\ g = [k \in 0 .. n |-> g[k]] /\ g[0] = first
      /\ \A k \in 0 .. n : g[k] \in Rows
      /\ \A k \in 1 .. n : g[k] = EditRow(g[k - 1], k, r, h)
  <2>1. \A k \in 1 .. n : k - 1 \in 0 .. n
    BY <1>4
  <2>2. /\ g = [k \in 0 .. n |-> g[k]] /\ g[0] = first
        /\ \A k \in 0 .. n : g[k] \in Rows
        /\ \A k \in 1 .. n : g[k] = step[<<k, g[k - 1]>>]
    BY <1>6 DEF StepsTo
  <2>3. ASSUME NEW k \in 1 .. n PROVE g[k] = EditRow(g[k - 1], k, r, h)
    <3>1. g[k - 1] \in Rows
      BY <2>1, <2>2
    <3> QED
      BY <1>3, <2>2, <3>1
  <2> QED
    BY <2>2, <2>3
<1>8. Made(g)
  <2>1. ASSUME NEW k \in 0 .. n PROVE g[k] = IF k = 0 THEN first ELSE EditRow(g[k - 1], k, r, h)
    <3>1. CASE k = 0
      BY <1>7, <3>1
    <3>2. CASE k # 0
      <4>1. k \in 1 .. n
        BY <1>4, <3>2
      <4> QED
        BY <1>7, <3>2, <4>1
    <3> QED
      BY <3>1, <3>2
  <2> QED
    BY <1>7, <2>1
<1>9. Made(t)
  BY <1>8
<1> HIDE DEF t
<1>10. t[0] = first
  BY <1>4, <1>9
<1>11. ASSUME NEW k \in 1 .. n PROVE t[k] = EditRow(t[k - 1], k, r, h)
  <2>1. k \in 0 .. n /\ k # 0
    BY <1>4
  <2> QED
    BY <1>9, <2>1
<1> DEFINE S == {k \in 0 .. n : t[k] \in Rows}
<1>12. 0 \in S
  BY <1>2, <1>4, <1>10
<1>13. ASSUME NEW k \in 1 .. n, k - 1 \in S PROVE k \in S
  <2>1. k \in 0 .. n /\ t[k - 1] \in Rows
    BY <1>4, <1>13
  <2> QED
    BY <1>3, <1>11, <2>1
<1>14. \A k \in 0 .. n : t[k] \in Rows
  <2> HIDE DEF S
  <2>1. \A k \in 0 .. n : k \in S
    BY <1>4, <1>12, <1>13, UpTo
  <2> QED
    BY <2>1 DEF S
<1>15. ASSUME NEW k \in 1 .. n
       PROVE  /\ t[k][0] = Cell(0, k, 0)
              /\ \A j \in 1 .. m : t[k][j] = Cheapest(t[k - 1][j - 1], t[k - 1][j], t[k][j - 1], r[k] = h[j])
  <2>1. k \in Nat \ {0} /\ k - 1 \in 0 .. n
    BY <1>4
  <2>2. t[k - 1] \in [0 .. Len(h) -> Cells]
    BY <1>14, <2>1 DEF Rows, m
  <2> QED
    BY <1>11, <2>1, <2>2, RowFilled DEF m
<1> QED
  BY <1>1, <1>5, <1>10, <1>14, <1>15 DEF Filled, n, m, Rows

\* The alignments of the first i words of one text and the first j of the other.
Pairings(i, j) == {A \in SUBSET ((1 .. i) \X (1 .. j)) : Rise(A)}

Wrong(A, r, h) == {x \in A : r[x[1]] # h[x[2]]}

PairingCost(A, r, h, i, j) == Cardinality(Wrong(A, r, h)) + (i - Cardinality(A)) + (j - Cardinality(A))

\* All that is counted is finite.
LEMMA PairingsFinite ==
  ASSUME NEW i \in Nat, NEW j \in Nat, NEW A \in Pairings(i, j), NEW r, NEW h
  PROVE  /\ IsFiniteSet(A) /\ Cardinality(A) \in Nat
         /\ IsFiniteSet(Wrong(A, r, h)) /\ Cardinality(Wrong(A, r, h)) \in Nat
<1>1. IsFiniteSet((1 .. i) \X (1 .. j))
  <2>1. IsFiniteSet(1 .. i) /\ IsFiniteSet(1 .. j)
    BY FS_Interval
  <2> QED
    BY <2>1, FS_Product
<1>2. IsFiniteSet(A)
  BY <1>1, FS_Subset DEF Pairings
<1>3. IsFiniteSet(Wrong(A, r, h))
  BY <1>2, FS_Subset DEF Wrong
<1> QED
  BY <1>2, <1>3, FS_CardinalityType

\* Pairing the next two words costs one if they differ.
LEMMA PairNext ==
  ASSUME NEW i \in Nat \ {0}, NEW j \in Nat \ {0}, NEW r, NEW h, NEW B \in Pairings(i - 1, j - 1)
  PROVE  /\ B \cup {<<i, j>>} \in Pairings(i, j)
         /\ PairingCost(B \cup {<<i, j>>}, r, h, i, j) =
              PairingCost(B, r, h, i - 1, j - 1) + (IF r[i] = h[j] THEN 0 ELSE 1)
<1> DEFINE last == <<i, j>>
           A == B \cup {last}
<1>1. \A x \in B : x \in (1 .. i - 1) \X (1 .. j - 1)
  BY DEF Pairings
<1>2. last \notin B
  BY <1>1
<1>3. A \in Pairings(i, j)
  <2>1. A \in SUBSET ((1 .. i) \X (1 .. j))
    BY <1>1
  <2>2. ASSUME NEW x \in A, NEW y \in A, x # y PROVE (x[1] < y[1] /\ x[2] < y[2]) \/ (y[1] < x[1] /\ y[2] < x[2])
    <3>1. CASE x \in B /\ y \in B
      BY <2>2, <3>1 DEF Pairings, Rise
    <3>2. CASE x \in B /\ y = last
      BY <1>1, <3>2
    <3>3. CASE x = last /\ y \in B
      BY <1>1, <3>3
    <3> QED
      BY <2>2, <3>1, <3>2, <3>3
  <2> QED
    BY <2>1, <2>2 DEF Pairings, Rise
<1>4. /\ IsFiniteSet(B) /\ Cardinality(B) \in Nat
      /\ IsFiniteSet(Wrong(B, r, h)) /\ Cardinality(Wrong(B, r, h)) \in Nat
  BY PairingsFinite
<1>5. Cardinality(A) = Cardinality(B) + 1
  BY <1>2, <1>4, FS_AddElement
<1>6. Cardinality(Wrong(A, r, h)) = Cardinality(Wrong(B, r, h)) + (IF r[i] = h[j] THEN 0 ELSE 1)
  <2>1. CASE r[i] = h[j]
    <3>1. Wrong(A, r, h) = Wrong(B, r, h)
      BY <2>1 DEF Wrong
    <3> QED
      BY <1>4, <2>1, <3>1
  <2>2. CASE r[i] # h[j]
    <3>1. Wrong(A, r, h) = Wrong(B, r, h) \cup {last} /\ last \notin Wrong(B, r, h)
      BY <1>2, <2>2 DEF Wrong
    <3> QED
      BY <1>4, <2>2, <3>1, FS_AddElement
  <2> QED
    BY <2>1, <2>2
<1> HIDE DEF A
<1>7. PairingCost(A, r, h, i, j) = PairingCost(B, r, h, i - 1, j - 1) + (IF r[i] = h[j] THEN 0 ELSE 1)
  BY <1>4, <1>5, <1>6 DEF PairingCost
<1> QED
  BY <1>3, <1>7 DEF A

\* A word that is left out costs one.
LEMMA LeaveNext ==
  ASSUME NEW i \in Nat, NEW j \in Nat, NEW r, NEW h, NEW A \in Pairings(i, j)
  PROVE  /\ A \in Pairings(i + 1, j) /\ PairingCost(A, r, h, i + 1, j) = PairingCost(A, r, h, i, j) + 1
         /\ A \in Pairings(i, j + 1) /\ PairingCost(A, r, h, i, j + 1) = PairingCost(A, r, h, i, j) + 1
<1>1. Cardinality(A) \in Nat /\ Cardinality(Wrong(A, r, h)) \in Nat
  BY PairingsFinite
<1>2. A \in SUBSET ((1 .. i + 1) \X (1 .. j)) /\ A \in SUBSET ((1 .. i) \X (1 .. j + 1)) /\ Rise(A)
  BY DEF Pairings
<1> QED
  BY <1>1, <1>2 DEF Pairings, PairingCost

\* There is no other way: an alignment pairs the last two words, or leaves one of them out.
LEMMA LastPaired ==
  ASSUME NEW i \in Nat \ {0}, NEW j \in Nat \ {0}, NEW A \in Pairings(i, j)
  PROVE  \/ <<i, j>> \in A /\ A \ {<<i, j>>} \in Pairings(i - 1, j - 1)
         \/ A \in Pairings(i - 1, j)
         \/ A \in Pairings(i, j - 1)
<1> DEFINE last == <<i, j>>
<1>1. /\ \A x \in A : x \in (1 .. i) \X (1 .. j)
      /\ \A x, y \in A : x # y => (x[1] < y[1] /\ x[2] < y[2]) \/ (y[1] < x[1] /\ y[2] < x[2])
  BY DEF Pairings, Rise
<1>2. CASE last \in A
  <2>1. ASSUME NEW x \in A \ {last} PROVE x \in (1 .. i - 1) \X (1 .. j - 1)
    <3>1. x \in (1 .. i) \X (1 .. j) /\ ((x[1] < last[1] /\ x[2] < last[2]) \/ (last[1] < x[1] /\ last[2] < x[2]))
      BY <1>1, <1>2
    <3> QED
      BY <3>1
  <2>2. A \ {last} \in Pairings(i - 1, j - 1)
    BY <1>1, <2>1 DEF Pairings, Rise
  <2> QED
    BY <1>2, <2>2
<1>3. CASE last \notin A
  <2>1. CASE \E x \in A : x[1] = i
    <3>1. PICK x \in A : x[1] = i
      BY <2>1
    <3>2. ASSUME NEW y \in A PROVE y \in (1 .. i) \X (1 .. j - 1)
      <4>1. y \in (1 .. i) \X (1 .. j) /\ x \in (1 .. i) \X (1 .. j)
        BY <1>1
      <4>2. y[2] # j
        <5>1. SUFFICES ASSUME y[2] = j PROVE FALSE
          OBVIOUS
        <5>2. x # y
          <6>1. x = y => y = last
            BY <3>1, <4>1, <5>1
          <6> QED
            BY <1>3, <6>1
        <5>3. (x[1] < y[1] /\ x[2] < y[2]) \/ (y[1] < x[1] /\ y[2] < x[2])
          BY <1>1, <5>2
        <5> QED
          BY <3>1, <4>1, <5>1, <5>3
      <4> QED
        BY <4>1, <4>2
    <3>3. A \in Pairings(i, j - 1)
      BY <3>2 DEF Pairings
    <3> QED
      BY <3>3
  <2>2. CASE ~ \E x \in A : x[1] = i
    <3>1. ASSUME NEW y \in A PROVE y \in (1 .. i - 1) \X (1 .. j)
      <4>1. y \in (1 .. i) \X (1 .. j) /\ y[1] # i
        BY <1>1, <2>2
      <4> QED
        BY <4>1
    <3>2. A \in Pairings(i - 1, j)
      BY <3>1 DEF Pairings
    <3> QED
      BY <3>2
  <2> QED
    BY <2>1, <2>2
<1> QED
  BY <1>2, <1>3

\* A cell that counts the cheapest alignment.
CheapestCell(c, r, h, i, j) ==
  /\ c \in Cells
  /\ \A A \in Pairings(i, j) : Cost(c) <= PairingCost(A, r, h, i, j)
  /\ \E A \in Pairings(i, j) : Cost(c) = PairingCost(A, r, h, i, j)

\* At the edges nothing can be paired.
LEMMA EdgeExact ==
  ASSUME NEW r, NEW h, NEW i \in Nat, NEW j \in Nat, i = 0 \/ j = 0
  PROVE  CheapestCell(Cell(0, i, j), r, h, i, j)
<1>1. \A A \in Pairings(i, j) : A = {}
  <2>1. (1 .. i) \X (1 .. j) = {}
    OBVIOUS
  <2> QED
    BY <2>1 DEF Pairings
<1>2. {} \in Pairings(i, j)
  BY DEF Pairings, Rise
<1>3. PairingCost({}, r, h, i, j) = i + j
  <2>1. Wrong({}, r, h) = {}
    BY DEF Wrong
  <2>2. Cardinality({}) = 0
    BY FS_EmptySet
  <2> QED
    BY <2>1, <2>2 DEF PairingCost
<1>4. Cell(0, i, j) \in Cells /\ Cost(Cell(0, i, j)) = i + j
  BY DEF Cell, Cells, Cost
<1>5. \A A \in Pairings(i, j) : PairingCost(A, r, h, i, j) = i + j
  BY <1>1, <1>3
<1> DEFINE c == Cell(0, i, j)
<1>6. CheapestCell(c, r, h, i, j)
  <2> HIDE DEF c
  <2> QED
    BY <1>2, <1>4, <1>5 DEF CheapestCell, c
<1> QED
  BY <1>6

\* From three exact neighbours the next cell is exact.
LEMMA NextExact ==
  ASSUME NEW r, NEW h, NEW i \in Nat \ {0}, NEW j \in Nat \ {0}, NEW diag, NEW up, NEW left,
         CheapestCell(diag, r, h, i - 1, j - 1), CheapestCell(up, r, h, i - 1, j), CheapestCell(left, r, h, i, j - 1)
  PROVE  CheapestCell(Cheapest(diag, up, left, r[i] = h[j]), r, h, i, j)
<1> DEFINE c == Cheapest(diag, up, left, r[i] = h[j])
           differ == IF r[i] = h[j] THEN 0 ELSE 1
           last == <<i, j>>
<1>1. diag \in Cells /\ up \in Cells /\ left \in Cells
  BY DEF CheapestCell
<1>2. Cost(diag) \in Nat /\ Cost(up) \in Nat /\ Cost(left) \in Nat
  BY <1>1 DEF Cells, Cost
<1>3. /\ c \in Cells
      /\ Cost(c) <= Cost(diag) + differ /\ Cost(c) <= Cost(up) + 1 /\ Cost(c) <= Cost(left) + 1
      /\ Cost(c) \in {Cost(diag) + differ, Cost(up) + 1, Cost(left) + 1}
  <2>1. (r[i] = h[j]) \in BOOLEAN
    OBVIOUS
  <2> QED
    BY <1>1, <2>1, CheapestCost
<1>4. Cost(c) \in Nat
  BY <1>3 DEF Cells, Cost
<1> HIDE DEF c
<1>5. i - 1 \in Nat /\ j - 1 \in Nat /\ i \in Nat /\ j \in Nat /\ (i - 1) + 1 = i /\ (j - 1) + 1 = j
  OBVIOUS
<1>6. \A B \in Pairings(i - 1, j - 1) :
        /\ B \cup {last} \in Pairings(i, j)
        /\ PairingCost(B \cup {last}, r, h, i, j) = PairingCost(B, r, h, i - 1, j - 1) + differ
  BY PairNext
<1>7. \A A \in Pairings(i - 1, j) :
        A \in Pairings(i, j) /\ PairingCost(A, r, h, i, j) = PairingCost(A, r, h, i - 1, j) + 1
  BY <1>5, LeaveNext
<1>8. \A A \in Pairings(i, j - 1) :
        A \in Pairings(i, j) /\ PairingCost(A, r, h, i, j) = PairingCost(A, r, h, i, j - 1) + 1
  BY <1>5, LeaveNext
<1>9. \A p, q \in Nat : \A A \in Pairings(p, q) : PairingCost(A, r, h, p, q) \in Int
  BY PairingsFinite DEF PairingCost
<1>10. ASSUME NEW A \in Pairings(i, j) PROVE Cost(c) <= PairingCost(A, r, h, i, j)
  <2>1. CASE last \in A /\ A \ {last} \in Pairings(i - 1, j - 1)
    <3> DEFINE B == A \ {last}
    <3>1. B \cup {last} = A
      BY <2>1
    <3>2. Cost(diag) <= PairingCost(B, r, h, i - 1, j - 1)
      BY <2>1 DEF CheapestCell
    <3>3. PairingCost(A, r, h, i, j) = PairingCost(B, r, h, i - 1, j - 1) + differ
      BY <1>6, <2>1, <3>1
    <3>4. PairingCost(B, r, h, i - 1, j - 1) \in Int
      BY <1>5, <1>9, <2>1
    <3> HIDE DEF B
    <3> QED
      BY <1>2, <1>3, <1>4, <3>2, <3>3, <3>4
  <2>2. CASE A \in Pairings(i - 1, j)
    <3>1. Cost(up) <= PairingCost(A, r, h, i - 1, j) /\ PairingCost(A, r, h, i - 1, j) \in Int
      BY <1>5, <1>9, <2>2 DEF CheapestCell
    <3> QED
      BY <1>2, <1>3, <1>4, <1>7, <2>2, <3>1
  <2>3. CASE A \in Pairings(i, j - 1)
    <3>1. Cost(left) <= PairingCost(A, r, h, i, j - 1) /\ PairingCost(A, r, h, i, j - 1) \in Int
      BY <1>5, <1>9, <2>3 DEF CheapestCell
    <3> QED
      BY <1>2, <1>3, <1>4, <1>8, <2>3, <3>1
  <2> QED
    BY <2>1, <2>2, <2>3, LastPaired
<1>11. \E A \in Pairings(i, j) : Cost(c) = PairingCost(A, r, h, i, j)
  <2>1. CASE Cost(c) = Cost(diag) + differ
    <3>1. PICK B \in Pairings(i - 1, j - 1) : Cost(diag) = PairingCost(B, r, h, i - 1, j - 1)
      BY DEF CheapestCell
    <3> QED
      BY <1>6, <2>1, <3>1
  <2>2. CASE Cost(c) = Cost(up) + 1
    <3>1. PICK A \in Pairings(i - 1, j) : Cost(up) = PairingCost(A, r, h, i - 1, j)
      BY DEF CheapestCell
    <3> QED
      BY <1>7, <2>2, <3>1
  <2>3. CASE Cost(c) = Cost(left) + 1
    <3>1. PICK A \in Pairings(i, j - 1) : Cost(left) = PairingCost(A, r, h, i, j - 1)
      BY DEF CheapestCell
    <3> QED
      BY <1>8, <2>3, <3>1
  <2> QED
    BY <1>3, <2>1, <2>2, <2>3
<1> QED
  BY <1>3, <1>10, <1>11 DEF CheapestCell, c

\* Whatever the texts: the edits that are counted are those of the cheapest of all alignments
\* (edit_counts in decode/src/transcript.rs).
THEOREM EditsAreCheapest ==
  ASSUME NEW r, NEW h, IsList(r), IsList(h)
  PROVE  {Cost(EditCounts(r, h))} = Smallest({CostOf(A, r, h) : A \in Alignments(r, h)})
<1> DEFINE n == Len(r)
           m == Len(h)
<1>1. n \in Nat /\ m \in Nat /\ DOMAIN r = 1 .. n /\ DOMAIN h = 1 .. m
  BY DEF IsList
<1>2. PICK t : Filled(t, r, h) /\ EditCounts(r, h) = t[n][m]
  BY <1>1, TableFilled
<1> HIDE DEF n, m
<1> DEFINE S == {i \in 0 .. n : \A j \in 0 .. m : CheapestCell(t[i][j], r, h, i, j)}
<1>3. \A j \in 0 .. m : t[0][j] = Cell(0, 0, j)
  BY <1>2 DEF Filled, n, m
<1>4. \A i \in 1 .. n :
        /\ t[i][0] = Cell(0, i, 0)
        /\ \A j \in 1 .. m : t[i][j] = Cheapest(t[i - 1][j - 1], t[i - 1][j], t[i][j - 1], r[i] = h[j])
  BY <1>2 DEF Filled, n, m
<1>5. 0 \in S
  <2>1. ASSUME NEW j \in 0 .. m PROVE CheapestCell(t[0][j], r, h, 0, j)
    BY <1>1, <1>3, EdgeExact
  <2> QED
    BY <1>1, <2>1
<1>6. ASSUME NEW i \in 1 .. n, i - 1 \in S PROVE i \in S
  <2> DEFINE T == {j \in 0 .. m : CheapestCell(t[i][j], r, h, i, j)}
  <2>1. \A j \in 0 .. m : CheapestCell(t[i - 1][j], r, h, i - 1, j)
    BY <1>6
  <2>2. i \in Nat \ {0} /\ i \in Nat /\ i \in 0 .. n
    BY <1>1
  <2>3. 0 \in T
    <3>1. CheapestCell(t[i][0], r, h, i, 0)
      BY <1>4, <2>2, EdgeExact
    <3> QED
      BY <1>1, <3>1
  <2>4. ASSUME NEW j \in 1 .. m, j - 1 \in T PROVE j \in T
    <3>1. j \in Nat \ {0} /\ j \in 0 .. m /\ j - 1 \in 0 .. m
      BY <1>1
    <3>2. CheapestCell(t[i][j - 1], r, h, i, j - 1)
      BY <2>4
    <3>3. CheapestCell(t[i - 1][j - 1], r, h, i - 1, j - 1) /\ CheapestCell(t[i - 1][j], r, h, i - 1, j)
      BY <2>1, <3>1
    <3>4. CheapestCell(t[i][j], r, h, i, j)
      BY <1>4, <2>2, <3>1, <3>2, <3>3, NextExact
    <3> QED
      BY <3>1, <3>4
  <2>5. \A j \in 0 .. m : j \in T
    <3> HIDE DEF T
    <3> QED
      BY <1>1, <2>3, <2>4, UpTo
  <2> QED
    BY <2>2, <2>5
<1>7. n \in S
  <2> HIDE DEF S
  <2>1. \A i \in 0 .. n : i \in S
    BY <1>1, <1>5, <1>6, UpTo
  <2> QED
    BY <1>1, <2>1
<1>8. CheapestCell(t[n][m], r, h, n, m)
  BY <1>1, <1>7
<1> DEFINE c == EditCounts(r, h)
           Costs == {CostOf(A, r, h) : A \in Alignments(r, h)}
<1>9. Alignments(r, h) = Pairings(n, m)
  BY <1>1 DEF Alignments, Pairings
<1>10. \A A : CostOf(A, r, h) = PairingCost(A, r, h, n, m)
  BY DEF CostOf, PairingCost, Wrong, n, m
<1> HIDE DEF c
<1>11. Cost(c) \in Nat /\ Cost(c) \in Costs /\ \A x \in Costs : Cost(c) <= x
  <2>1. c \in Cells
    BY <1>2, <1>8 DEF CheapestCell, c
  <2> QED
    BY <1>2, <1>8, <1>9, <1>10, <2>1 DEF CheapestCell, c, Cells, Cost
<1>12. \A x \in Costs : x \in Int
  BY <1>1, <1>9, <1>10, PairingsFinite DEF PairingCost
<1> HIDE DEF Costs
<1>13. Smallest(Costs) = {Cost(c)}
  BY <1>11, <1>12 DEF Smallest
<1> QED
  BY <1>13 DEF c, Costs
=============================================================================
