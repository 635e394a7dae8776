------------------------------ MODULE IpcProofs ------------------------------
(***************************************************************************)
(* What the command buffer's operators and translate_ipc compute: reading  *)
(* a message gives back what was written, and a handle that is translated  *)
(* names the same object at its new place.                                 *)
(***************************************************************************)
EXTENDS Ipc, SequenceTheorems, FiniteSetTheorems, TLAPS

-----------------------------------------------------------------------------
(* Induction on sets of numbers *)

\* Every non-empty set of natural numbers has a least element.
LEMMA LeastNumber ==
    ASSUME NEW T \in SUBSET Nat, T # {}
    PROVE  \E x \in T : \A y \in T : x <= y
<1>1. \E x \in T : \A y \in T : ~(<<y, x>> \in OpToRel(<, Nat))
  BY NatLessThanWellFounded, WFMin, Zenon
<1>2. PICK x \in T : \A y \in T : ~(<<y, x>> \in OpToRel(<, Nat))
  BY <1>1
<1>3. ASSUME NEW y \in T PROVE x <= y
  <2>1. ~(y < x)
    BY <1>2 DEF OpToRel
  <2>2. QED
    BY <2>1
<1>4. QED
  BY <1>3

\* A set of numbers that has 0, and the successor of every member, has them all.
LEMMA SetInduction ==
    ASSUME NEW T \in SUBSET Nat, 0 \in T, \A n \in T : n + 1 \in T
    PROVE  T = Nat
<1>1. SUFFICES ASSUME Nat \ T # {} PROVE FALSE
  OBVIOUS
<1>2. PICK x \in Nat \ T : \A y \in Nat \ T : x <= y
  BY <1>1, LeastNumber
<1>3. x - 1 \in Nat \ T
  <2>1. x - 1 \in Nat
    BY <1>2
  <2>2. QED
    BY <2>1, <1>2
<1>4. QED
  BY <1>2, <1>3

-----------------------------------------------------------------------------
(* Lists of words *)

\* The partial concatenations of the sequences of cs.
Partial(S, cs, f) ==
    /\ f \in [0..Len(cs) -> Seq(S)]
    /\ f[0] = <<>>
    /\ \A n \in 1..Len(cs) : f[n] = f[n - 1] \o cs[n]

LEMMA PartialExists ==
    ASSUME NEW S, NEW cs \in Seq(Seq(S))
    PROVE  \E f : Partial(S, cs, f)
<1> DEFINE Upto(f, m) == /\ f \in [0..m -> Seq(S)]
                         /\ f[0] = <<>>
                         /\ \A n \in 1..m : f[n] = f[n - 1] \o cs[n]
           T == {m \in Nat : m <= Len(cs) => \E f : Upto(f, m)}
<1>0. Len(cs) \in Nat /\ \A n \in 1..Len(cs) : cs[n] \in Seq(S)
  OBVIOUS
<1>1. 0 \in T
  <2>1. Upto([n \in 0..0 |-> <<>>], 0)
    <3>1. <<>> \in Seq(S)
      OBVIOUS
    <3>2. QED
      BY <3>1
  <2> HIDE DEF Upto
  <2>2. QED
    BY <2>1
<1>2. ASSUME NEW m \in T PROVE m + 1 \in T
  <2>1. SUFFICES ASSUME m + 1 <= Len(cs) PROVE \E f : Upto(f, m + 1)
    <3> HIDE DEF Upto
    <3>1. QED
      OBVIOUS
  <2>2. m \in Nat /\ m <= Len(cs) /\ m + 1 \in 1..Len(cs)
    BY <2>1, <1>0
  <2>3. PICK f : Upto(f, m)
    <3> HIDE DEF Upto
    <3>1. QED
      BY <2>2
  <2>5. f[m] \in Seq(S) /\ cs[m + 1] \in Seq(S)
    BY <2>2, <2>3, <1>0
  <2>6. PICK x \in Seq(S) : x = f[m] \o cs[m + 1]
    <3>1. f[m] \o cs[m + 1] \in Seq(S)
      BY <2>5, ConcatProperties, Zenon
    <3>2. QED
      BY <3>1
  <2>4. PICK g : g = [n \in 0..(m + 1) |-> IF n = m + 1 THEN x ELSE f[n]]
    OBVIOUS
  <2>7. \A n \in 0..m : g[n] = f[n] /\ f[n] \in Seq(S)
    BY <2>2, <2>3, <2>4
  <2>a. g[m + 1] = x
    BY <2>2, <2>4
  <2>8. g[m + 1] = f[m] \o cs[m + 1]
    BY <2>a, <2>6
  <2>9. g \in [0..(m + 1) -> Seq(S)]
    <3>1. \A n \in 0..(m + 1) : (IF n = m + 1 THEN x ELSE f[n]) \in Seq(S)
      BY <2>2, <2>6, <2>7
    <3>2. QED
      BY <2>4, <3>1
  <2>10. ASSUME NEW n \in 1..(m + 1) PROVE g[n] = g[n - 1] \o cs[n]
    <3>1. CASE n = m + 1
      <4>1. n - 1 = m /\ m \in 0..m
        BY <3>1, <2>2
      <4>2. QED
        BY <4>1, <3>1, <2>7, <2>8
    <3>2. CASE n # m + 1
      <4>1. n \in 1..m /\ n \in 0..m /\ n - 1 \in 0..m
        BY <3>2, <2>2
      <4>2. QED
        BY <4>1, <2>3, <2>7
    <3>3. QED
      BY <3>1, <3>2
  <2>11. g[0] = <<>>
    BY <2>2, <2>3, <2>7
  <2>12. Upto(g, m + 1)
    BY <2>9, <2>10, <2>11
  <2>13. QED
    BY <2>12
<1>3. T = Nat
  <2>1. T \in SUBSET Nat
    OBVIOUS
  <2> HIDE DEF T
  <2>2. QED
    BY <2>1, <1>1, <1>2, SetInduction
<1>4. \E f : Upto(f, Len(cs))
  <2> HIDE DEF Upto
  <2>1. QED
    BY <1>0, <1>3
<1>5. QED
  BY <1>4 DEF Partial

\* FlattenSeq is the last of the partial concatenations.
LEMMA FlattenPartial ==
    ASSUME NEW S, NEW cs \in Seq(Seq(S)), NEW f, Partial(S, cs, f)
    PROVE  FlattenSeq(cs) = f[Len(cs)]
<1> DEFINE N == Len(cs)
           Step(g, i) == IF i = 1 THEN cs[i] ELSE g[i - 1] \o cs[i]
<1>0. N \in Nat /\ \A n \in 1..N : cs[n] \in Seq(S)
  OBVIOUS
<1>1. CASE N = 0
  <2>1. cs = <<>>
    BY <1>1
  <2>2. QED
    BY <2>1, <1>1 DEF FlattenSeq, Partial
<1>2. CASE N # 0
  <2>1. \A n \in 1..N : f[n] = Step(f, n)
    <3>1. f[1] = cs[1]
      <4>1. f[1] = f[0] \o cs[1] /\ f[0] = <<>> /\ cs[1] \in Seq(S)
        <5>1. 1 \in 1..N /\ 1 - 1 = 0
          BY <1>0, <1>2
        <5>2. QED
          BY <1>0, <5>1 DEF Partial
      <4>2. QED
        BY <4>1
    <3>2. QED
      BY <3>1 DEF Partial
  <2>2. \A n \in 1..N : f[n] \in Seq(S)
    BY <1>0 DEF Partial
  <2>3. PICK h : h = [n \in 1..N |-> f[n]]
    OBVIOUS
  <2>4. h = [n \in 1..N |-> Step(h, n)]
    <3>1. \A n \in 1..N : Step(h, n) = Step(f, n)
      <4>1. ASSUME NEW n \in 1..N, n # 1 PROVE h[n - 1] = f[n - 1]
        BY <1>0, <2>3, <4>1
      <4>2. QED
        BY <4>1
    <3> HIDE DEF Step
    <3>2. \A n \in 1..N : f[n] = Step(h, n)
      BY <3>1, <2>1
    <3>3. QED
      BY <3>2, <2>3
  <2>5. FlattenSeq(cs) = (CHOOSE g : g = [i \in 1..N |-> Step(g, i)])[N]
    BY <1>2 DEF FlattenSeq
  <2>6. PICK g : g = [i \in 1..N |-> Step(g, i)] /\ FlattenSeq(cs) = g[N]
    <3> HIDE DEF Step
    <3>1. QED
      BY <2>4, <2>5, Zenon
  <2>7. \A i \in 1..N : g[i] = Step(g, i)
    <3> HIDE DEF Step
    <3>1. QED
      BY <2>6, Zenon
  <2>8. DEFINE T == {m \in Nat : m + 1 \in 1..N => g[m + 1] = f[m + 1]}
  <2>9. 0 \in T
    BY <2>1, <2>7
  <2>10. ASSUME NEW m \in T PROVE m + 1 \in T
    <3>1. SUFFICES ASSUME (m + 1) + 1 \in 1..N PROVE g[(m + 1) + 1] = f[(m + 1) + 1]
      OBVIOUS
    <3>2. m \in Nat /\ m + 1 \in 1..N /\ (m + 1) + 1 # 1 /\ ((m + 1) + 1) - 1 = m + 1
      BY <1>0, <3>1
    <3>3. g[m + 1] = f[m + 1]
      BY <3>2
    <3>4. QED
      BY <3>1, <3>2, <3>3, <2>1, <2>7
  <2>11. T = Nat
    <3>1. T \in SUBSET Nat
      OBVIOUS
    <3> HIDE DEF T
    <3>2. QED
      BY <3>1, <2>9, <2>10, SetInduction
  <2>12. N - 1 \in T
    <3> HIDE DEF T
    <3>1. QED
      BY <1>0, <1>2, <2>11
  <2>13. QED
    <3>1. (N - 1) + 1 \in 1..N /\ (N - 1) + 1 = N
      BY <1>0, <1>2
    <3>2. QED
      BY <2>6, <2>12, <3>1
<1>3. QED
  BY <1>1, <1>2

\* The words of c are in w, after the first k.
Holds(w, k, c) == \A j \in 1..Len(c) : w[k + j] = c[j]

\* What a concatenation holds.
LEMMA ConcatWords ==
    ASSUME NEW S, NEW a \in Seq(S), NEW b \in Seq(S)
    PROVE  /\ a \o b \in Seq(S)
           /\ Len(a) \in Nat /\ Len(b) \in Nat /\ Len(a \o b) = Len(a) + Len(b)
           /\ Holds(a \o b, 0, a) /\ Holds(a \o b, Len(a), b)
<1>1. /\ a \o b \in Seq(S)
      /\ Len(a) \in Nat /\ Len(b) \in Nat /\ Len(a \o b) = Len(a) + Len(b)
      /\ \A i \in 1..(Len(a) + Len(b)) : (a \o b)[i] = IF i <= Len(a) THEN a[i] ELSE b[i - Len(a)]
  OBVIOUS
<1>2. \A j \in 1..Len(a) : (a \o b)[0 + j] = a[j]
  <2> TAKE j \in 1..Len(a)
  <2>1. 0 + j = j /\ j \in 1..(Len(a) + Len(b)) /\ j <= Len(a)
    BY <1>1
  <2>2. QED
    BY <2>1, <1>1
<1>3. \A j \in 1..Len(b) : (a \o b)[Len(a) + j] = b[j]
  <2> TAKE j \in 1..Len(b)
  <2>1. Len(a) + j \in 1..(Len(a) + Len(b)) /\ ~(Len(a) + j <= Len(a)) /\ (Len(a) + j) - Len(a) = j
    BY <1>1
  <2>2. QED
    BY <2>1, <1>1
<1>4. QED
  BY <1>1, <1>2, <1>3 DEF Holds

\* What is held by something held is held.
LEMMA HoldsWithin ==
    ASSUME NEW w, NEW v, NEW c, NEW k \in Nat, NEW i \in Nat, Len(v) \in Nat, Len(c) \in Nat,
           Holds(w, k, v), Holds(v, i, c), i + Len(c) <= Len(v)
    PROVE  Holds(w, k + i, c)
<1> SUFFICES ASSUME NEW j \in 1..Len(c) PROVE w[(k + i) + j] = c[j]
  BY DEF Holds
<1>1. i + j \in 1..Len(v) /\ k + (i + j) = (k + i) + j
  OBVIOUS
<1>2. w[k + (i + j)] = v[i + j] /\ v[i + j] = c[j]
  BY <1>1 DEF Holds
<1>3. QED
  BY <1>1, <1>2

\* Each partial concatenation continues the one before it.
LEMMA PartialStep ==
    ASSUME NEW S, NEW cs \in Seq(Seq(S)), NEW f, Partial(S, cs, f)
    PROVE  \A n \in 1..Len(cs) :
               /\ Len(f[n - 1]) \in Nat /\ Len(cs[n]) \in Nat
               /\ Len(f[n]) = Len(f[n - 1]) + Len(cs[n])
               /\ Holds(f[n], 0, f[n - 1]) /\ Holds(f[n], Len(f[n - 1]), cs[n])
<1> TAKE n \in 1..Len(cs)
<1>1. n - 1 \in 0..Len(cs)
  OBVIOUS
<1>2. f[n - 1] \in Seq(S) /\ f[n] = f[n - 1] \o cs[n]
  BY <1>1, Zenon DEF Partial
<1>3. cs[n] \in Seq(S)
  OBVIOUS
<1>4. /\ Len(f[n - 1]) \in Nat /\ Len(cs[n]) \in Nat
      /\ Len(f[n - 1] \o cs[n]) = Len(f[n - 1]) + Len(cs[n])
      /\ Holds(f[n - 1] \o cs[n], 0, f[n - 1]) /\ Holds(f[n - 1] \o cs[n], Len(f[n - 1]), cs[n])
  BY <1>2, <1>3, ConcatWords
<1>5. QED
  BY <1>2, <1>4, Zenon

\* The whole begins with every partial concatenation, which holds at least one word for
\* each of its sequences if these are not empty.
LEMMA PartialPrefix ==
    ASSUME NEW S, NEW cs \in Seq(Seq(S)), NEW f, Partial(S, cs, f),
           \A n \in 1..Len(cs) : Len(cs[n]) >= 1
    PROVE  \A N : N = Len(cs) =>
               /\ Len(f[0]) = 0 /\ f[N] \in Seq(S) /\ Len(f[N]) \in Nat /\ Len(f[N]) >= N
               /\ \A n \in 1..N : /\ Len(f[n - 1]) \in Nat /\ Len(f[n - 1]) < Len(f[N])
                                  /\ Len(f[n - 1]) + Len(cs[n]) = Len(f[n])
                                  /\ Len(f[n]) <= Len(f[N])
                                  /\ Holds(f[N], Len(f[n - 1]), cs[n])
<1> TAKE N
<1> HAVE N = Len(cs)
<1>0. N \in Nat
  OBVIOUS
<1>1. \A n \in 0..N : f[n] \in Seq(S)
  BY Zenon DEF Partial
<1>2. \A n \in 0..N : Len(f[n]) \in Nat
  <2>1. \A s \in Seq(S) : Len(s) \in Nat
    OBVIOUS
  <2>2. QED
    BY <1>1, <2>1, Zenon
<1>3. \A n \in 1..N :
         /\ Len(f[n - 1]) \in Nat /\ Len(cs[n]) \in Nat
         /\ Len(f[n]) = Len(f[n - 1]) + Len(cs[n])
         /\ Holds(f[n], 0, f[n - 1]) /\ Holds(f[n], Len(f[n - 1]), cs[n])
  BY PartialStep
<1>4. \A n \in 1..N : Len(cs[n]) >= 1
  OBVIOUS
<1> DEFINE Before(k) == \A n \in 0..N : n + k <= N =>
                            Len(f[n]) + k <= Len(f[n + k]) /\ Holds(f[n + k], 0, f[n])
           T == {k \in Nat : Before(k)}
<1>5. 0 \in T
  <2>1. \A n \in 0..N : n + 0 = n /\ Len(f[n]) + 0 <= Len(f[n])
    BY <1>0, <1>2
  <2>2. \A n \in 0..N : Holds(f[n], 0, f[n])
    <3> TAKE n \in 0..N
    <3>1. \A j \in 1..Len(f[n]) : 0 + j = j
      BY <1>2
    <3>2. QED
      BY <3>1 DEF Holds
  <2>3. Before(0)
    BY <2>1, <2>2
  <2>4. QED
    BY <2>3
<1>6. ASSUME NEW k \in T PROVE k + 1 \in T
  <2>1. k \in Nat /\ Before(k)
    OBVIOUS
  <2>2. ASSUME NEW n \in 0..N, n + (k + 1) <= N
        PROVE  Len(f[n]) + (k + 1) <= Len(f[n + (k + 1)]) /\ Holds(f[n + (k + 1)], 0, f[n])
    <3>1. n + k <= N /\ n + (k + 1) \in 1..N /\ (n + (k + 1)) - 1 = n + k /\ n + k \in 0..N
      BY <1>0, <2>1, <2>2
    <3>2. Len(f[n]) + k <= Len(f[n + k]) /\ Holds(f[n + k], 0, f[n])
      BY <2>1, <3>1
    <3>3. PICK m \in 1..N : m = n + (k + 1)
      BY <3>1
    <3>4. m - 1 = n + k
      BY <3>1, <3>3
    <3>5. /\ Len(f[m]) = Len(f[n + k]) + Len(cs[m]) /\ Len(cs[m]) \in Nat
          /\ Len(cs[m]) >= 1 /\ Holds(f[m], 0, f[n + k])
      BY <1>3, <1>4, <3>4
    <3>6. Len(f[n + k]) \in Nat /\ Len(f[n]) \in Nat
      BY <1>2, <3>1
    <3> HIDE DEF Before, T
    <3>7. \A a, b, c, d \in Nat : a + k <= b /\ c = b + d /\ d >= 1 => a + (k + 1) <= c
      BY <2>1
    <3>8. Len(f[m]) \in Nat
      BY <1>2, <3>1, <3>3
    <3>9. Len(f[n]) + (k + 1) <= Len(f[m])
      BY <3>2, <3>5, <3>6, <3>7, <3>8
    <3>10. Holds(f[m], 0, f[n])
      <4>1. 0 + Len(f[n]) <= Len(f[n + k]) /\ 0 + 0 = 0 /\ 0 \in Nat
        BY <2>1, <3>2, <3>6
      <4>2. Holds(f[m], 0 + 0, f[n])
        BY <4>1, <3>2, <3>5, <3>6, HoldsWithin, Zenon
      <4>3. QED
        BY <4>1, <4>2, Zenon
    <3>11. QED
      BY <3>3, <3>9, <3>10, Zenon
  <2>3. Before(k + 1)
    BY <2>2
  <2>4. QED
    <3>1. k + 1 \in Nat
      BY <2>1
    <3> HIDE DEF Before
    <3>2. QED
      BY <2>3, <3>1
<1>7. T = Nat
  <2>1. T \in SUBSET Nat
    OBVIOUS
  <2> HIDE DEF T
  <2>2. QED
    BY <2>1, <1>5, <1>6, SetInduction
<1>8. \A n \in 0..N : Len(f[n]) + (N - n) <= Len(f[N]) /\ Holds(f[N], 0, f[n])
  <2> TAKE n \in 0..N
  <2>1. N - n \in Nat /\ n + (N - n) = N /\ n + (N - n) <= N
    BY <1>0
  <2>2. Before(N - n)
    BY <2>1, <1>7
  <2>3. QED
    BY <2>1, <2>2
<1> HIDE DEF Before, T
<1>9. Len(f[0]) = 0 /\ 0 \in 0..N /\ N \in 0..N
  <2>1. 0 \in 0..N /\ N \in 0..N
    BY <1>0
  <2>2. f[0] = <<>>
    BY DEF Partial
  <2>3. QED
    BY <2>1, <2>2
<1>10. f[N] \in Seq(S) /\ Len(f[N]) \in Nat /\ Len(f[N]) >= N
  <2>1. f[N] \in Seq(S) /\ Len(f[N]) \in Nat /\ Len(f[0]) + (N - 0) <= Len(f[N])
    BY <1>1, <1>2, <1>8, <1>9, Zenon
  <2>2. QED
    BY <1>0, <1>9, <2>1
<1>11. ASSUME NEW n \in 1..N
       PROVE  /\ Len(f[n - 1]) \in Nat /\ Len(f[n - 1]) < Len(f[N])
              /\ Len(f[n - 1]) + Len(cs[n]) = Len(f[n])
              /\ Len(f[n]) <= Len(f[N])
              /\ Holds(f[N], Len(f[n - 1]), cs[n])
  <2>1. n - 1 \in 0..N /\ n \in 0..N /\ N - n \in Nat /\ N - (n - 1) \in Nat /\ N - (n - 1) >= 1
    BY <1>0
  <2>2. /\ Len(f[n - 1]) \in Nat /\ Len(cs[n]) \in Nat /\ Len(f[n]) \in Nat
        /\ Len(f[n]) = Len(f[n - 1]) + Len(cs[n])
        /\ Holds(f[n], Len(f[n - 1]), cs[n])
    BY <1>2, <1>3, <2>1, Zenon
  <2>3. /\ Len(f[n]) + (N - n) <= Len(f[N]) /\ Len(f[n - 1]) + (N - (n - 1)) <= Len(f[N])
        /\ Holds(f[N], 0, f[n])
    BY <1>8, <2>1, Zenon
  <2>4. \A a, b, x, d, e \in Nat : a + d <= x /\ b + e <= x /\ e >= 1 => b < x /\ a <= x
    OBVIOUS
  <2>5. Len(f[n - 1]) < Len(f[N]) /\ Len(f[n]) <= Len(f[N])
    BY <1>10, <2>1, <2>2, <2>3, <2>4, Zenon
  <2>6. Holds(f[N], 0 + Len(f[n - 1]), cs[n])
    <3>1. Len(f[n - 1]) + Len(cs[n]) <= Len(f[n]) /\ 0 \in Nat
      BY <2>2
    <3>2. QED
      BY <2>2, <2>3, <3>1, HoldsWithin, Zenon
  <2>7. 0 + Len(f[n - 1]) = Len(f[n - 1])
    BY <2>2
  <2>8. QED
    BY <2>2, <2>5, <2>6, <2>7
<1>12. QED
  BY <1>9, <1>10, <1>11

-----------------------------------------------------------------------------
(* Reading *)

\* The words of one parameter, with nothing missing and nothing left.
Whole(c) == Len(c) >= 2 /\ ParamSize(c, 1) = Len(c)

\* read_translate sees what is in front of it, wherever that is.
LEMMA SameParam ==
    ASSUME NEW c \in Seq(Nat), Whole(c), NEW b, NEW k \in Nat, Holds(b, k, c)
    PROVE  ParamAt(b, k + 1) = ParamAt(c, 1) /\ ParamSize(b, k + 1) = Len(c)
<1>1. Len(c) \in Nat /\ Len(c) >= 2 /\ \A j \in 1..Len(c) : c[j] \in Nat
  BY DEF Whole
<1>2. b[k + 1] = c[1] /\ c[1] \in Nat
  BY <1>1 DEF Holds
<1>3. ParamSize(b, k + 1) = ParamSize(c, 1)
  BY <1>2 DEF ParamSize
<1>4. ASSUME IsHandles(c[1])
      PROVE  \A i \in 1..((c[1] \div CountBit) + 1) : b[(k + 1) + i] = c[1 + i]
  <2>1. (c[1] \div CountBit) + 2 = Len(c)
    BY <1>4 DEF Whole, ParamSize
  <2>2. c[1] \div CountBit \in Nat
    BY <1>2 DEF CountBit
  <2> TAKE i \in 1..((c[1] \div CountBit) + 1)
  <2> HIDE DEF CountBit
  <2>3. 1 + i \in 1..Len(c) /\ k + (1 + i) = (k + 1) + i
    BY <2>1, <2>2
  <2>4. QED
    BY <2>3 DEF Holds
<1>5. ParamAt(b, k + 1) = ParamAt(c, 1)
  <2>1. CASE ~IsHandles(c[1])
    BY <2>1, <1>2 DEF ParamAt
  <2>2. CASE IsHandles(c[1])
    <3>1. PICK d : d = c[1]
      OBVIOUS
    <3> DEFINE I == 1..((d \div CountBit) + 1)
               calling == (d \div 32) % 2 = 1
    <3>2. [i \in I |-> IF calling THEN CurrentProcess ELSE b[(k + 1) + i]]
          = [i \in I |-> IF calling THEN CurrentProcess ELSE c[1 + i]]
      <4>1. \A i \in I : b[(k + 1) + i] = c[1 + i]
        BY <1>4, <2>2, <3>1
      <4> HIDE DEF I, calling
      <4>2. QED
        BY <4>1
    <3>3. ParamAt(b, k + 1) = HandleParam((d \div 16) % 2 = 1, calling,
              [i \in I |-> IF calling THEN CurrentProcess ELSE b[(k + 1) + i]])
      BY <2>2, <1>2, <3>1 DEF ParamAt
    <3>4. ParamAt(c, 1) = HandleParam((d \div 16) % 2 = 1, calling,
              [i \in I |-> IF calling THEN CurrentProcess ELSE c[1 + i]])
      BY <2>2, <3>1 DEF ParamAt
    <3>5. QED
      BY <3>2, <3>3, <3>4, Zenon
  <2>3. QED
    BY <2>1, <2>2
<1>6. QED
  BY <1>3, <1>5 DEF Whole

\* The definition of Places.
LEMMA PlacesEquation ==
    ASSUME NEW b, NEW start, NEW end, NEW M \in Nat, M = end - start
    PROVE  \A n \in 0..M : Places(b, start, end)[n] =
               IF n = 0 THEN start
               ELSE Places(b, start, end)[n - 1] + ParamSize(b, Places(b, start, end)[n - 1])
<1> DEFINE Step(f, n) == IF n = 0 THEN start ELSE f[n - 1] + ParamSize(b, f[n - 1])
           T == {m \in Nat : \E f : f = [n \in 0..m |-> Step(f, n)]}
           P == Places(b, start, end)
<1>1. 0 \in T
  <2>1. [n \in 0..0 |-> start] = [n \in 0..0 |-> Step([k \in 0..0 |-> start], n)]
    OBVIOUS
  <2>2. QED
    BY <2>1
<1>2. ASSUME NEW m \in T PROVE m + 1 \in T
  <2>1. m \in Nat
    OBVIOUS
  <2>2. PICK f : f = [n \in 0..m |-> Step(f, n)]
    OBVIOUS
  <2>3. PICK g : g = [n \in 0..(m + 1) |-> Step(f, n)]
    OBVIOUS
  <2>4. \A n \in 0..m : g[n] = f[n]
    <3> HIDE DEF Step
    <3>1. \A n \in 0..m : g[n] = Step(f, n)
      BY <2>1, <2>3
    <3>2. \A n \in 0..m : f[n] = Step(f, n)
      BY <2>2, Zenon
    <3>3. QED
      BY <3>1, <3>2
  <2>5. \A n \in 0..(m + 1) : Step(g, n) = Step(f, n)
    <3>1. ASSUME NEW n \in 0..(m + 1), n # 0 PROVE g[n - 1] = f[n - 1]
      <4>1. n - 1 \in 0..m
        BY <2>1, <3>1
      <4>2. QED
        BY <2>4, <4>1
    <3>2. QED
      BY <3>1
  <2>6. g = [n \in 0..(m + 1) |-> Step(g, n)]
    <3> HIDE DEF Step
    <3>1. QED
      BY <2>3, <2>5
  <2>7. QED
    <3> HIDE DEF Step
    <3>1. QED
      BY <2>1, <2>6
<1>3. T = Nat
  <2>1. T \in SUBSET Nat
    OBVIOUS
  <2> HIDE DEF T
  <2>2. QED
    BY <2>1, <1>1, <1>2, SetInduction
<1>4. \E f : f = [n \in 0..M |-> Step(f, n)]
  <2> HIDE DEF Step
  <2>1. QED
    BY <1>3
<1>5. P = CHOOSE f : f = [n \in 0..M |-> Step(f, n)]
  BY DEF Places
<1>6. P = [n \in 0..M |-> Step(P, n)]
  <2> HIDE DEF Step, P
  <2>1. QED
    BY <1>4, <1>5, Zenon
<1>7. \A n \in 0..M : P[n] = Step(P, n)
  <2> HIDE DEF Step, P
  <2>1. QED
    BY <1>6, Zenon
<1>8. QED
  BY <1>7

\* Parameters that were written one after the other are read one after the other.
LEMMA ReadParams ==
    ASSUME NEW cs \in Seq(Seq(Nat)), \A n \in 1..Len(cs) : Whole(cs[n]),
           NEW b, NEW k \in Nat, Holds(b, k, FlattenSeq(cs))
    PROVE  /\ FlattenSeq(cs) \in Seq(Nat) /\ Len(FlattenSeq(cs)) \in Nat
           /\ Params(b, k + 1, (k + 1) + Len(FlattenSeq(cs))) =
                  [n \in 1..Len(cs) |-> ParamAt(cs[n], 1)]
<1>1. PICK f : Partial(Nat, cs, f)
  BY PartialExists
<1>2. PICK N \in Nat : N = Len(cs)
  OBVIOUS
<1>3. FlattenSeq(cs) = f[N]
  BY <1>1, <1>2, FlattenPartial
<1>4. \A n \in 1..N : cs[n] \in Seq(Nat) /\ Len(cs[n]) \in Nat /\ Len(cs[n]) >= 2 /\ Whole(cs[n])
  BY <1>2 DEF Whole
<1>5. /\ Len(f[0]) = 0 /\ f[N] \in Seq(Nat) /\ Len(f[N]) \in Nat /\ Len(f[N]) >= N
      /\ \A n \in 1..N : /\ Len(f[n - 1]) \in Nat /\ Len(f[n - 1]) < Len(f[N])
                         /\ Len(f[n - 1]) + Len(cs[n]) = Len(f[n])
                         /\ Len(f[n]) <= Len(f[N])
                         /\ Holds(f[N], Len(f[n - 1]), cs[n])
  <2>1. \A n \in 1..Len(cs) : Len(cs[n]) >= 1
    BY <1>2, <1>4
  <2>2. \A L : L = Len(cs) =>
               /\ Len(f[0]) = 0 /\ f[L] \in Seq(Nat) /\ Len(f[L]) \in Nat /\ Len(f[L]) >= L
               /\ \A n \in 1..L : /\ Len(f[n - 1]) \in Nat /\ Len(f[n - 1]) < Len(f[L])
                                  /\ Len(f[n - 1]) + Len(cs[n]) = Len(f[n])
                                  /\ Len(f[n]) <= Len(f[L])
                                  /\ Holds(f[L], Len(f[n - 1]), cs[n])
    BY <2>1, <1>1, PartialPrefix, Zenon
  <2>3. QED
    BY <2>2, <1>2, Zenon
<1>6. PICK M \in Nat : M = Len(f[N])
  BY <1>5
<1> DEFINE end == (k + 1) + M
<1>7. M = end - (k + 1)
  OBVIOUS
<1>8. PICK at : at = Places(b, k + 1, end)
  OBVIOUS
<1>9. \A n \in 0..M : at[n] = IF n = 0 THEN k + 1 ELSE at[n - 1] + ParamSize(b, at[n - 1])
  BY <1>7, <1>8, PlacesEquation
<1>10. ASSUME NEW n \in 1..N
       PROVE  /\ ParamAt(b, (k + Len(f[n - 1])) + 1) = ParamAt(cs[n], 1)
              /\ ParamSize(b, (k + Len(f[n - 1])) + 1) = Len(cs[n])
  <2>1. /\ Len(f[n - 1]) \in Nat /\ Len(f[n - 1]) + Len(cs[n]) <= Len(f[N])
        /\ Holds(f[N], Len(f[n - 1]), cs[n]) /\ Holds(b, k, f[N])
    BY <1>3, <1>5
  <2>2. Holds(b, k + Len(f[n - 1]), cs[n])
    BY <2>1, <1>4, <1>5, HoldsWithin
  <2>3. cs[n] \in Seq(Nat) /\ Whole(cs[n]) /\ k + Len(f[n - 1]) \in Nat
    BY <2>1, <1>4
  <2>4. QED
    BY <2>2, <2>3, SameParam, Zenon
<1>11. \A n \in 0..N : n \in 0..M
  BY <1>5, <1>6
<1> DEFINE T == {n \in Nat : n <= N => at[n] = (k + Len(f[n])) + 1}
<1>12. 0 \in T
  <2>1. at[0] = k + 1
    BY <1>9
  <2>2. (k + Len(f[0])) + 1 = k + 1
    BY <1>5
  <2>3. QED
    BY <2>1, <2>2
<1>13. ASSUME NEW n \in T PROVE n + 1 \in T
  <2>1. SUFFICES ASSUME n + 1 <= N PROVE at[n + 1] = (k + Len(f[n + 1])) + 1
    OBVIOUS
  <2>2. n \in Nat /\ n <= N /\ n + 1 \in 1..N /\ (n + 1) - 1 = n /\ n + 1 # 0
    BY <1>2, <2>1
  <2>3. n + 1 \in 0..M
    BY <1>11, <2>2
  <2>4. at[n] = (k + Len(f[n])) + 1
    BY <2>2
  <2>5. at[n + 1] = at[n] + ParamSize(b, at[n])
    BY <1>9, <2>2, <2>3
  <2>6. ParamSize(b, at[n]) = Len(cs[n + 1])
    BY <1>10, <2>2, <2>4
  <2>7. Len(f[n]) \in Nat /\ Len(cs[n + 1]) \in Nat /\ Len(f[n]) + Len(cs[n + 1]) = Len(f[n + 1])
    BY <1>4, <1>5, <2>2
  <2>8. \A x, y \in Nat : ((k + x) + 1) + y = (k + (x + y)) + 1
    OBVIOUS
  <2> HIDE DEF T
  <2>9. QED
    BY <2>4, <2>5, <2>6, <2>7, <2>8
<1>14. T = Nat
  <2>1. T \in SUBSET Nat
    OBVIOUS
  <2> HIDE DEF T
  <2>2. QED
    BY <2>1, <1>12, <1>13, SetInduction
<1>15. \A n \in 0..N : at[n] = (k + Len(f[n])) + 1
  BY <1>2, <1>14
<1> DEFINE Count(n) == at[n] >= end /\ \A m \in 0..(n - 1) : at[m] < end
<1>16. \A m \in 0..(N - 1) : at[m] < end
  <2> TAKE m \in 0..(N - 1)
  <2>1. m + 1 \in 1..N /\ (m + 1) - 1 = m /\ m \in 0..N
    BY <1>2
  <2>2. Len(f[m]) \in Nat /\ Len(f[m]) < M
    BY <2>1, <1>5, <1>6
  <2>3. QED
    BY <2>1, <2>2, <1>15
<1>17. Count(N)
  <2>1. at[N] = (k + M) + 1 /\ N \in 0..N
    BY <1>2, <1>6, <1>15
  <2>2. QED
    BY <2>1, <1>16
<1>18. ASSUME NEW n \in 0..M, Count(n) PROVE n = N
  <2>1. CASE n < N
    <3>1. n \in 0..(N - 1)
      BY <2>1
    <3>2. at[n] < end /\ at[n] >= end
      BY <3>1, <1>16, <1>18
    <3>3. n + 1 \in 1..N /\ (n + 1) - 1 = n /\ n \in 0..N
      BY <2>1, <1>2
    <3>4. Len(f[n]) \in Nat /\ at[n] = (k + Len(f[n])) + 1
      BY <3>3, <1>5, <1>15
    <3>5. at[n] \in Nat
      BY <3>4
    <3>6. QED
      BY <3>2, <3>5
  <2>2. CASE n > N
    <3>1. N \in 0..(n - 1) /\ at[N] = (k + M) + 1
      BY <2>2, <1>2, <1>6, <1>15
    <3>2. QED
      BY <3>1, <1>18
  <2>3. QED
    BY <2>1, <2>2, <1>2
<1>19. (CHOOSE n \in 0..M : Count(n)) = N
  <2>1. N \in 0..M
    BY <1>2, <1>11
  <2> HIDE DEF Count
  <2>2. QED
    BY <2>1, <1>17, <1>18
<1>20. Params(b, k + 1, end) = [n \in 1..N |-> ParamAt(b, at[n - 1])]
  <2>1. Params(b, k + 1, end) = [n \in 1..(CHOOSE n \in 0..(end - (k + 1)) : Count(n)) |-> ParamAt(b, at[n - 1])]
    BY <1>8 DEF Params
  <2> HIDE DEF Count, end
  <2>2. QED
    BY <2>1, <1>7, <1>19
<1>21. \A n \in 1..N : ParamAt(b, at[n - 1]) = ParamAt(cs[n], 1)
  <2> TAKE n \in 1..N
  <2>1. n - 1 \in 0..N
    BY <1>2
  <2>2. at[n - 1] = (k + Len(f[n - 1])) + 1
    BY <2>1, <1>15
  <2>3. QED
    BY <2>2, <1>10
<1>22. QED
  BY <1>2, <1>3, <1>5, <1>6, <1>20, <1>21

\* Writing leaves a buffer of the same length that begins with the message.
LEMMA OverWords ==
    ASSUME NEW b \in Seq(Nat), NEW w \in Seq(Nat)
    PROVE  /\ Over(b, w) \in Seq(Nat) /\ Holds(Over(b, w), 0, w)
           /\ Len(w) <= Len(b) => Len(Over(b, w)) = Len(b)
           /\ Len(w) <= Len(Over(b, w))
<1>1. Len(w) \in Nat /\ Len(b) \in Nat
  OBVIOUS
<1>2. PICK r : r = SubSeq(b, Len(w) + 1, Len(b))
  OBVIOUS
<1>3. r \in Seq(Nat) /\ Len(r) = IF Len(w) + 1 <= Len(b) THEN Len(b) - Len(w) ELSE 0
  BY <1>1, <1>2
<1>4. /\ w \o r \in Seq(Nat) /\ Len(r) \in Nat /\ Len(w \o r) = Len(w) + Len(r)
      /\ Holds(w \o r, 0, w)
  BY <1>3, ConcatWords
<1>5. Over(b, w) = w \o r
  BY <1>2 DEF Over
<1>6. QED
  BY <1>1, <1>3, <1>4, <1>5

\* A part that a sequence holds is its subsequence.
LEMMA HoldsSubSeq ==
    ASSUME NEW S, NEW w \in Seq(S), NEW c \in Seq(S), NEW k \in Nat, Holds(w, k, c),
           k + Len(c) <= Len(w)
    PROVE  SubSeq(w, k + 1, k + Len(c)) = c
<1>1. Len(c) \in Nat /\ Len(w) \in Nat
  OBVIOUS
<1>2. PICK m \in Nat : m = k + 1
  OBVIOUS
<1>3. PICK n \in Nat : n = k + Len(c)
  BY <1>1
<1>4. SubSeq(w, m, n) = [i \in 1..(1 + n - m) |-> w[i + m - 1]]
  BY <1>1, <1>2, <1>3
<1>5. 1 + n - m = Len(c) /\ \A i \in 1..Len(c) : i + m - 1 = k + i
  BY <1>1, <1>2, <1>3
<1>6. \A i \in 1..Len(c) : w[i + m - 1] = c[i]
  BY <1>5 DEF Holds
<1>7. c = [i \in 1..Len(c) |-> c[i]]
  OBVIOUS
<1>8. [i \in 1..(1 + n - m) |-> w[i + m - 1]] = [i \in 1..Len(c) |-> c[i]]
  BY <1>5, <1>6
<1>9. QED
  BY <1>2, <1>3, <1>4, <1>7, <1>8

\* IPCHeaderCode::from takes apart what drop() put together.
LEMMA HeaderRoundTrip ==
    ASSUME NEW id \in Nat, NEW normal \in 0..63, NEW translate \in 0..63
    PROVE  /\ Header(id, normal, translate) \in Nat
           /\ HeaderCode(Header(id, normal, translate)) =
                  [command |-> id, normal |-> normal, translate |-> translate]
<1>1. 2^16 = 65536 /\ 2^6 = 64
  OBVIOUS
<1>2. PICK w : w = id * 65536 + normal * 64 + translate
  OBVIOUS
<1>3. w \in Nat
  BY <1>2
<1>4. w \div 65536 = id
  BY <1>2
<1>5. (w \div 64) % 64 = normal
  <2>1. w \div 64 = id * 1024 + normal
    BY <1>2
  <2>2. (id * 1024 + normal) % 64 = normal
    OBVIOUS
  <2>3. QED
    BY <2>1, <2>2
<1>6. w % 64 = translate
  BY <1>2
<1>7. Header(id, normal, translate) = w
  BY <1>1, <1>2 DEF Header
<1>8. HeaderCode(w) = [command |-> w \div 65536, normal |-> (w \div 64) % 64, translate |-> w % 64]
  BY <1>1 DEF HeaderCode
<1>9. QED
  BY <1>3, <1>4, <1>5, <1>6, <1>7, <1>8

\* The parts of a message, in the words w.
Lies(w, command, result, normals, t) ==
    /\ Len(w) = ((1 + Len(result)) + Len(normals)) + Len(t)
    /\ w[1] = Header(command, Len(normals), Len(t))
    /\ Holds(w, 1, result)
    /\ Holds(w, 1 + Len(result), normals)
    /\ Holds(w, (1 + Len(result)) + Len(normals), t)

\* Where the parts of a message are.
LEMMA MessageWords ==
    ASSUME NEW command \in Nat, NEW result \in Seq(Nat), NEW normals \in Seq(Nat),
           NEW cs, NEW t \in Seq(Nat), t = FlattenSeq(cs),
           Len(normals) < 64, Len(t) < 64
    PROVE  /\ Message(command, result, normals, cs) \in Seq(Nat)
           /\ Lies(Message(command, result, normals, cs), command, result, normals, t)
<1>1. Len(result) \in Nat /\ Len(normals) \in Nat /\ Len(t) \in Nat
  OBVIOUS
<1>2. PICK h \in Nat : h = Header(command, Len(normals), Len(t))
  <2>1. Len(normals) \in 0..63 /\ Len(t) \in 0..63
    <3>1. \A n \in Nat : n < 64 => n \in 0..63
      OBVIOUS
    <3>2. QED
      BY <1>1, <3>1, Zenon
  <2>2. QED
    BY <2>1, HeaderRoundTrip
<1>3. PICK a1 \in Seq(Nat) : a1 = <<h>>
  <2>1. <<h>> \in Seq(Nat)
    OBVIOUS
  <2>2. QED
    BY <2>1, Zenon
<1>4. Len(a1) = 1 /\ a1[1] = h
  BY <1>3
<1>5. PICK a2 \in Seq(Nat) : a2 = a1 \o result
  BY ConcatWords
<1>6. Len(a2) = 1 + Len(result) /\ Holds(a2, 0, a1) /\ Holds(a2, 1, result)
  BY <1>4, <1>5, ConcatWords
<1>7. PICK a3 \in Seq(Nat) : a3 = a2 \o normals
  BY ConcatWords
<1>8. Len(a3) = Len(a2) + Len(normals) /\ Holds(a3, 0, a2) /\ Holds(a3, Len(a2), normals)
  BY <1>7, ConcatWords
<1>9. PICK w \in Seq(Nat) : w = a3 \o t
  BY ConcatWords
<1>10. Len(w) = Len(a3) + Len(t) /\ Holds(w, 0, a3) /\ Holds(w, Len(a3), t)
  BY <1>9, ConcatWords
<1>11. w = Message(command, result, normals, cs)
  BY <1>2, <1>3, <1>5, <1>7, <1>9 DEF Message
<1>12. Len(a2) \in Nat /\ Len(a3) \in Nat
  OBVIOUS
<1>a. 0 \in Nat /\ 1 \in Nat
  OBVIOUS
<1>13. Holds(w, 0 + 0, a2) /\ Holds(w, 0 + Len(a2), normals)
  <2>1. 0 + Len(a2) <= Len(a3) /\ Len(a2) + Len(normals) <= Len(a3)
    BY <1>1, <1>8, <1>12
  <2>2. Holds(w, 0 + 0, a2)
    BY <1>a, <1>8, <1>10, <1>12, <2>1, HoldsWithin, Zenon
  <2>3. Holds(w, 0 + Len(a2), normals)
    BY <1>a, <1>1, <1>8, <1>10, <1>12, <2>1, HoldsWithin, Zenon
  <2>4. QED
    BY <2>2, <2>3
<1>14. 0 + 0 = 0 /\ 0 + Len(a2) = Len(a2) /\ 0 + 1 = 1
  BY <1>12
<1>15. Holds(w, 0 + 0, a1) /\ Holds(w, 0 + 1, result)
  <2>1. 0 + Len(a1) <= Len(a2) /\ 1 + Len(result) <= Len(a2) /\ Len(a1) \in Nat
    BY <1>1, <1>4, <1>6
  <2>2. Holds(w, 0, a2)
    BY <1>13, <1>14
  <2>3. Holds(w, 0 + 0, a1)
    BY <1>a, <1>6, <1>12, <2>1, <2>2, HoldsWithin, Zenon
  <2>4. Holds(w, 0 + 1, result)
    BY <1>a, <1>1, <1>6, <1>12, <2>1, <2>2, HoldsWithin, Zenon
  <2>5. QED
    BY <2>3, <2>4
<1>16. w[1] = h
  <2>1. Holds(w, 0, a1)
    BY <1>14, <1>15
  <2>2. QED
    BY <2>1, <1>4 DEF Holds
<1>17. QED
  BY <1>2, <1>6, <1>8, <1>10, <1>11, <1>13, <1>14, <1>15, <1>16 DEF Lies

\* What the reader of a buffer gets; size is the number of words of the parameters.
ReadsAs(b, reply, command, result, normals, params, size) ==
    /\ b \in Seq(Nat)
    /\ Read(b, reply) = [command |-> command, result |-> result, normals |-> normals,
                         params |-> params]
    /\ HeaderCode(b[1]) = [command |-> command, normal |-> Len(normals), translate |-> size]

\* The same, and the buffer has kept its length.
Delivered(o, b, reply, command, result, normals, params, size) ==
    /\ ReadsAs(o, reply, command, result, normals, params, size)
    /\ ((1 + Len(result)) + Len(normals)) + size <= Len(b) => Len(o) = Len(b)

Heads(cs) == [n \in 1..Len(cs) |-> ParamAt(cs[n], 1)]

HasResult(result, reply) == Len(result) = IF reply THEN 1 ELSE 0
AllWhole(cs) == \A n \in 1..Len(cs) : Whole(cs[n])

\* A buffer that begins with a message reads as that message.
LEMMA ReadMessage ==
    ASSUME NEW command \in Nat, NEW result \in Seq(Nat), NEW normals \in Seq(Nat),
           NEW cs \in Seq(Seq(Nat)), AllWhole(cs),
           Len(normals) < 64, Len(FlattenSeq(cs)) < 64,
           NEW reply, HasResult(result, reply),
           NEW b \in Seq(Nat)
    PROVE  Delivered(Over(b, Message(command, result, normals, cs)), b, reply, command,
                     result, normals, Heads(cs), Len(FlattenSeq(cs)))
<1>1. PICK t \in Seq(Nat) : t = FlattenSeq(cs)
  <2>2. PICK f : Partial(Nat, cs, f)
    BY PartialExists
  <2>3. FlattenSeq(cs) = f[Len(cs)]
    BY <2>2, FlattenPartial
  <2>4. Len(cs) \in 0..Len(cs)
    OBVIOUS
  <2>5. f[Len(cs)] \in Seq(Nat)
    BY <2>2, <2>4, Zenon DEF Partial
  <2>6. QED
    BY <2>3, <2>5
<1>2. PICK w \in Seq(Nat) :
               /\ w = Message(command, result, normals, cs)
               /\ Lies(w, command, result, normals, t)
  <2>1. Len(t) < 64
    BY <1>1
  <2>2. QED
    BY <1>1, <2>1, MessageWords, Zenon
<1>3. PICK o \in Seq(Nat) : o = Over(b, w)
  BY OverWords
<1>4. /\ Holds(o, 0, w) /\ Len(w) <= Len(o)
      /\ Len(w) <= Len(b) => Len(o) = Len(b)
  BY <1>3, OverWords
<1>5. PICK r \in Nat : r = Len(result)
  OBVIOUS
<1>6. PICK n \in 0..63 : n = Len(normals)
  <2>1. \A x \in Nat : x < 64 => x \in 0..63
    OBVIOUS
  <2>2. Len(normals) \in Nat
    OBVIOUS
  <2>3. QED
    BY <2>1, <2>2
<1>7. PICK m \in 0..63 : m = Len(t)
  <2>1. \A x \in Nat : x < 64 => x \in 0..63
    OBVIOUS
  <2>2. Len(t) \in Nat
    OBVIOUS
  <2>3. QED
    BY <1>1, <2>1, <2>2
<1>8. Len(w) = ((1 + r) + n) + m /\ Len(w) \in Nat /\ Len(o) \in Nat
  BY <1>2, <1>5, <1>6, <1>7 DEF Lies
<1>a. PICK M \in Nat : M = Len(w) /\ M = ((1 + r) + n) + m
  BY <1>8
<1>b. PICK L \in Nat : L = Len(o) /\ M <= L
  BY <1>4, <1>8, <1>a
<1>c. /\ 1 + r <= M /\ (1 + r) + n <= M /\ ((1 + r) + n) + m <= M
      /\ 1 + r <= L /\ (1 + r) + n <= L
      /\ 0 \in Nat /\ 1 \in Nat /\ 1 + r \in Nat /\ (1 + r) + n \in Nat
      /\ n \in Nat /\ m \in Nat
  <2>1. n \in Nat /\ m \in Nat
    OBVIOUS
  <2>2. \A x, y, z, u, v \in Nat : u = ((1 + x) + y) + z /\ u <= v =>
           /\ 1 + x <= u /\ (1 + x) + y <= u /\ ((1 + x) + y) + z <= u
           /\ 1 + x <= v /\ (1 + x) + y <= v
           /\ 0 \in Nat /\ 1 \in Nat /\ 1 + x \in Nat /\ (1 + x) + y \in Nat
    OBVIOUS
  <2>3. QED
    BY <1>a, <1>b, <2>1, <2>2, Zenon
<1>9. 0 + 1 = 1 /\ 0 + (1 + r) = 1 + r /\ 0 + ((1 + r) + n) = (1 + r) + n
  OBVIOUS
<1>10. Holds(o, 1, result) /\ Holds(o, 1 + r, normals) /\ Holds(o, (1 + r) + n, t)
  <2>1. /\ 1 + Len(result) <= Len(w) /\ (1 + r) + Len(normals) <= Len(w)
        /\ ((1 + r) + n) + Len(t) <= Len(w)
        /\ 0 \in Nat /\ 1 \in Nat /\ 1 + r \in Nat /\ (1 + r) + n \in Nat
        /\ Len(result) \in Nat /\ Len(normals) \in Nat /\ Len(t) \in Nat
    BY <1>5, <1>6, <1>7, <1>a, <1>c, Zenon
  <2>2. Holds(w, 1, result) /\ Holds(w, 1 + r, normals) /\ Holds(w, (1 + r) + n, t)
    BY <1>2, <1>5, <1>6, Zenon DEF Lies
  <2>3. Holds(o, 0 + 1, result)
    BY <1>4, <1>8, <2>1, <2>2, HoldsWithin, Zenon
  <2>4. Holds(o, 0 + (1 + r), normals)
    BY <1>4, <1>8, <2>1, <2>2, HoldsWithin, Zenon
  <2>5. Holds(o, 0 + ((1 + r) + n), t)
    BY <1>4, <1>8, <2>1, <2>2, HoldsWithin, Zenon
  <2>6. QED
    BY <1>9, <2>3, <2>4, <2>5, Zenon
<1>11. o[1] = Header(command, n, m)
  <2>1. 0 + 1 = 1 /\ 1 \in 1..Len(w)
    BY <1>8
  <2>2. o[1] = w[1]
    BY <1>4, <2>1 DEF Holds
  <2>3. QED
    BY <1>2, <1>6, <1>7, <2>2, Zenon DEF Lies
<1>12. HeaderCode(o[1]) = [command |-> command, normal |-> n, translate |-> m]
  <2>1. HeaderCode(Header(command, n, m)) = [command |-> command, normal |-> n, translate |-> m]
    BY HeaderRoundTrip
  <2>2. QED
    BY <2>1, <1>11, Zenon
<1>13. PICK first \in Nat : first = IF reply THEN 3 ELSE 2
  OBVIOUS
<1>14. first = 2 + r
  BY <1>5, <1>13 DEF HasResult
<1>15. SubSeq(o, 2, first - 1) = result
  <2>1. 2 = 1 + 1 /\ first - 1 = 1 + Len(result) /\ 1 + Len(result) <= Len(o)
    <3>1. 2 = 1 + 1 /\ first - 1 = 1 + r
      BY <1>14
    <3>2. QED
      BY <3>1, <1>5, <1>b, <1>c
  <2>2. SubSeq(o, 1 + 1, 1 + Len(result)) = result
    BY <1>10, <2>1, HoldsSubSeq
  <2>3. QED
    BY <2>1, <2>2
<1>16. SubSeq(o, first, (first + n) - 1) = normals
  <2>1. /\ first = (1 + r) + 1 /\ (first + n) - 1 = (1 + r) + Len(normals)
        /\ (1 + r) + Len(normals) <= Len(o) /\ 1 + r \in Nat
    <3>1. first = (1 + r) + 1 /\ (first + n) - 1 = (1 + r) + n
      BY <1>14
    <3>2. QED
      BY <3>1, <1>6, <1>b, <1>c
  <2>2. SubSeq(o, (1 + r) + 1, (1 + r) + Len(normals)) = normals
    BY <1>10, <2>1, HoldsSubSeq
  <2>3. QED
    BY <2>1, <2>2
<1>17. Params(o, first + n, (first + n) + m) = [i \in 1..Len(cs) |-> ParamAt(cs[i], 1)]
  <2>1. first + n = ((1 + r) + n) + 1 /\ (1 + r) + n \in Nat
    BY <1>14
  <2>2. Holds(o, (1 + r) + n, FlattenSeq(cs))
    BY <1>1, <1>10
  <2>3. Params(o, ((1 + r) + n) + 1, (((1 + r) + n) + 1) + Len(FlattenSeq(cs)))
          = [i \in 1..Len(cs) |-> ParamAt(cs[i], 1)]
    BY <2>1, <2>2, ReadParams DEF AllWhole
  <2>4. QED
    BY <1>1, <1>7, <2>1, <2>3
<1>18. Read(o, reply) = [command |-> HeaderCode(o[1]).command,
                         result |-> SubSeq(o, 2, first - 1),
                         normals |-> SubSeq(o, first, (first + HeaderCode(o[1]).normal) - 1),
                         params |-> Params(o, first + HeaderCode(o[1]).normal,
                                       (first + HeaderCode(o[1]).normal) + HeaderCode(o[1]).translate)]
  BY <1>13 DEF Read
<1>19. Read(o, reply) = [command |-> command, result |-> result, normals |-> normals,
                         params |-> [i \in 1..Len(cs) |-> ParamAt(cs[i], 1)]]
  <2>1. /\ HeaderCode(o[1]).command = command /\ HeaderCode(o[1]).normal = n
        /\ HeaderCode(o[1]).translate = m
    BY <1>12
  <2>2. QED
    BY <2>1, <1>15, <1>16, <1>17, <1>18, Zenon
<1>20. o = Over(b, Message(command, result, normals, cs))
  BY <1>2, <1>3
<1>21. ((1 + Len(result)) + Len(normals)) + Len(FlattenSeq(cs)) <= Len(b) => Len(o) = Len(b)
  BY <1>1, <1>2, <1>4 DEF Lies
<1>22. ReadsAs(o, reply, command, result, normals, Heads(cs), Len(FlattenSeq(cs)))
  BY <1>1, <1>6, <1>7, <1>12, <1>19, Zenon DEF ReadsAs, Heads
<1>23. QED
  BY <1>20, <1>21, <1>22, Zenon DEF Delivered

-----------------------------------------------------------------------------
(* Parameters *)

Param == [moved : BOOLEAN, calling : BOOLEAN, handles : Seq(Nat)]

\* What is read of a parameter: the handle of the calling process is put in its place.
Seen(p) == HandleParam(p.moved, p.calling,
               IF p.calling THEN [i \in 1..Len(p.handles) |-> CurrentProcess] ELSE p.handles)

DescriptorOf(n, x, y) == n * CountBit + 32 * y + 16 * x
Describes(d, n, x, y) ==
    /\ d \in Nat /\ IsHandles(d) /\ d \div CountBit = n
    /\ (d \div 16) % 2 = x /\ (d \div 32) % 2 = y

\* A descriptor tells how many handles follow and what is to be done with them.
LEMMA Descriptor ==
    ASSUME NEW n \in Nat, NEW x \in 0..1, NEW y \in 0..1
    PROVE  Describes(DescriptorOf(n, x, y), n, x, y)
<1>1. CountBit = 67108864
  BY DEF CountBit
<1>a. PICK d : d = DescriptorOf(n, x, y)
  OBVIOUS
<1>2. PICK z \in 0..3 : d = n * 67108864 + z * 16 /\ z = 2 * y + x
  BY <1>1, <1>a DEF DescriptorOf
<1>3. d \in Nat /\ d % 8 = 0 /\ d \div 67108864 = n
  BY <1>2
<1>4. d \div 16 = n * 4194304 + z
  BY <1>2
<1>5. (n * 4194304 + z) % 2 = z % 2
  OBVIOUS
<1>6. d \div 32 = n * 2097152 + y
  BY <1>2
<1>7. (n * 2097152 + y) % 2 = y % 2
  OBVIOUS
<1>8. z % 2 = x /\ y % 2 = y
  BY <1>2
<1>9. QED
  BY <1>a, <1>1, <1>3, <1>4, <1>5, <1>6, <1>7, <1>8 DEF IsHandles, Describes

\* The words of a parameter read as the parameter.
LEMMA WordsOfParam ==
    ASSUME NEW p \in Param, Len(p.handles) >= 1
    PROVE  /\ TranslateWords(p) \in Seq(Nat) /\ Len(TranslateWords(p)) = 1 + Len(p.handles)
           /\ Whole(TranslateWords(p)) /\ ParamAt(TranslateWords(p), 1) = Seen(p)
<1>1. PICK hs \in Seq(Nat) : hs = p.handles
  BY DEF Param
<1>2. p.moved \in BOOLEAN /\ p.calling \in BOOLEAN
  BY DEF Param
<1>3. PICK n \in Nat : n = Len(hs) - 1 /\ Len(hs) = n + 1
  <2>1. Len(hs) \in Nat /\ Len(hs) >= 1
    BY <1>1
  <2>2. QED
    BY <2>1
<1>a. PICK x \in 0..1 : x = IF p.moved THEN 1 ELSE 0
  OBVIOUS
<1>b. PICK y \in 0..1 : y = IF p.calling THEN 1 ELSE 0
  OBVIOUS
<1>4. PICK d : d = DescriptorOf(n, x, y)
  OBVIOUS
<1>c. d \in Nat /\ IsHandles(d) /\ d \div CountBit = n /\ (d \div 16) % 2 = x /\ (d \div 32) % 2 = y
  <2>1. Describes(d, n, x, y)
    BY <1>4, Descriptor, Zenon
  <2>2. QED
    BY <2>1 DEF Describes
<1>d. d = n * CountBit + (IF p.calling THEN 32 ELSE 0) + (IF p.moved THEN 16 ELSE 0)
  <2>1. 32 * y = (IF p.calling THEN 32 ELSE 0) /\ 16 * x = (IF p.moved THEN 16 ELSE 0)
    BY <1>a, <1>b
  <2>2. QED
    BY <2>1, <1>4 DEF DescriptorOf
<1>5. /\ d \in Nat /\ IsHandles(d) /\ d \div CountBit = n
      /\ ((d \div 16) % 2 = 1) = p.moved /\ ((d \div 32) % 2 = 1) = p.calling
  <2>1. (x = 1) = p.moved
    BY <1>2, <1>a
  <2>2. (y = 1) = p.calling
    BY <1>2, <1>b
  <2>3. QED
    BY <1>c, <2>1, <2>2
<1>6. PICK a \in Seq(Nat) : a = <<d>>
  <2>1. <<d>> \in Seq(Nat)
    BY <1>5
  <2>2. QED
    BY <2>1, Zenon
<1>7. Len(a) = 1 /\ a[1] = d
  BY <1>6
<1>8. PICK c \in Seq(Nat) : c = a \o hs
  BY ConcatWords
<1>9. Len(c) = 1 + Len(hs) /\ Holds(c, 0, a) /\ Holds(c, 1, hs)
  BY <1>7, <1>8, ConcatWords
<1>10. TranslateWords(p) = c
  BY <1>1, <1>3, <1>d, <1>6, <1>8 DEF TranslateWords
<1>11. c[1] = d
  <2>1. 1 \in 1..Len(a) /\ 0 + 1 = 1
    BY <1>7
  <2>2. QED
    BY <2>1, <1>7, <1>9 DEF Holds
<1>12. ParamSize(c, 1) = n + 2
  BY <1>5, <1>11 DEF ParamSize
<1>13. Whole(c)
  BY <1>3, <1>9, <1>12 DEF Whole
<1>14. ParamAt(c, 1) = Seen(p)
  <2>1. ParamAt(c, 1) = HandleParam(p.moved, p.calling,
            [i \in 1..(n + 1) |-> IF p.calling THEN CurrentProcess ELSE c[1 + i]])
    BY <1>5, <1>11 DEF ParamAt
  <2>2. \A i \in 1..(n + 1) : c[1 + i] = hs[i]
    BY <1>3, <1>9 DEF Holds
  <2>3. hs = [i \in 1..(n + 1) |-> hs[i]]
    BY <1>3
  <2>4. CASE p.calling
    BY <2>1, <2>4, <1>1, <1>3 DEF Seen
  <2>5. CASE ~p.calling
    <3>1. [i \in 1..(n + 1) |-> IF p.calling THEN CurrentProcess ELSE c[1 + i]]
            = [i \in 1..(n + 1) |-> hs[i]]
      BY <2>2, <2>5
    <3>2. QED
      BY <3>1, <2>1, <2>3, <2>5, <1>1 DEF Seen
  <2>6. QED
    BY <2>4, <2>5
<1>15. QED
  BY <1>1, <1>9, <1>10, <1>13, <1>14

\* The reader gets what the writer wrote: every command, every list of normal parameters
\* and of parameters with handles that the header can count comes back, wherever the
\* parameters end up and whatever the buffer held before.
THEOREM ReadWritten ==
    ASSUME NEW command \in Nat, NEW result \in Seq(Nat), NEW normals \in Seq(Nat),
           NEW ps \in Seq(Param), \A n \in 1..Len(ps) : Len(ps[n].handles) >= 1,
           NEW words, words = FlattenSeq([n \in 1..Len(ps) |-> TranslateWords(ps[n])]),
           Len(normals) < 64, Len(words) < 64,
           NEW reply, HasResult(result, reply),
           NEW b \in Seq(Nat)
    PROVE  Delivered(Over(b, Written(command, result, normals, ps)), b, reply, command,
                     result, normals, [n \in 1..Len(ps) |-> Seen(ps[n])], Len(words))
<1>1. PICK cs : cs = [n \in 1..Len(ps) |-> TranslateWords(ps[n])]
  OBVIOUS
<1>2. PICK N \in Nat : N = Len(ps)
  OBVIOUS
<1>3. \A n \in 1..N : /\ TranslateWords(ps[n]) \in Seq(Nat) /\ Whole(TranslateWords(ps[n]))
                      /\ ParamAt(TranslateWords(ps[n]), 1) = Seen(ps[n])
  <2> TAKE n \in 1..N
  <2>1. ps[n] \in Param /\ Len(ps[n].handles) >= 1
    BY <1>2
  <2>2. QED
    BY <2>1, WordsOfParam
<1>4. \A n \in 1..N : cs[n] = TranslateWords(ps[n])
  BY <1>1, <1>2
<1>5. cs \in Seq(Seq(Nat)) /\ Len(cs) = N
  BY <1>1, <1>2, <1>3
<1>6. AllWhole(cs)
  BY <1>3, <1>4, <1>5 DEF AllWhole
<1>7. [n \in 1..Len(cs) |-> ParamAt(cs[n], 1)] = [n \in 1..Len(ps) |-> Seen(ps[n])]
  BY <1>2, <1>3, <1>4, <1>5
<1>8. Written(command, result, normals, ps) = Message(command, result, normals, cs)
  BY <1>1 DEF Written
<1>9. FlattenSeq(cs) = words
  BY <1>1
<1>10. Len(FlattenSeq(cs)) < 64
  BY <1>9
<1>11. Delivered(Over(b, Message(command, result, normals, cs)), b, reply, command,
                 result, normals, Heads(cs), Len(FlattenSeq(cs)))
  BY <1>5, <1>6, <1>10, ReadMessage
<1>12. QED
  BY <1>7, <1>8, <1>9, <1>11, Zenon DEF Heads

-----------------------------------------------------------------------------
(* Translation *)

\* The states translate_handle goes through for the handles of a parameter.
HandleRun(f, st, handles, moved, p, q) ==
    /\ f[0] = [table |-> st.table, drawn |-> st.drawn, handles |-> <<>>]
    /\ \A n \in 1..Len(handles) : f[n] = TranslateHandle(f[n - 1], handles[n], moved, p, q)

LEMMA TranslateHandlesEquation ==
    ASSUME NEW st, NEW handles \in Seq(Nat), NEW moved, NEW p, NEW q
    PROVE  \E f : HandleRun(f, st, handles, moved, p, q) /\ TranslateHandles(st, handles, moved, p, q) = f[Len(handles)]
<1> DEFINE Step(f, n) == IF n = 0 THEN [table |-> st.table, drawn |-> st.drawn, handles |-> <<>>]
                         ELSE TranslateHandle(f[n - 1], handles[n], moved, p, q)
           T == {m \in Nat : \E f : f = [n \in 0..m |-> Step(f, n)]}
<1>0. PICK M \in Nat : M = Len(handles)
  OBVIOUS
<1>1. 0 \in T
  <2>1. PICK z : z = [n \in 0..0 |-> [table |-> st.table, drawn |-> st.drawn, handles |-> <<>>]]
    OBVIOUS
  <2>2. z = [n \in 0..0 |-> Step(z, n)]
    BY <2>1
  <2>3. QED
    <3> HIDE DEF Step
    <3>1. QED
      BY <2>2
<1>2. ASSUME NEW m \in T PROVE m + 1 \in T
  <2>1. m \in Nat
    OBVIOUS
  <2>2. PICK f : f = [n \in 0..m |-> Step(f, n)]
    OBVIOUS
  <2>3. PICK g : g = [n \in 0..(m + 1) |-> Step(f, n)]
    OBVIOUS
  <2>4. \A n \in 0..m : g[n] = f[n]
    <3> HIDE DEF Step
    <3>1. \A n \in 0..m : g[n] = Step(f, n)
      BY <2>1, <2>3
    <3>2. \A n \in 0..m : f[n] = Step(f, n)
      BY <2>2, Zenon
    <3>3. QED
      BY <3>1, <3>2
  <2>5. \A n \in 0..(m + 1) : Step(g, n) = Step(f, n)
    <3>1. ASSUME NEW n \in 0..(m + 1), n # 0 PROVE g[n - 1] = f[n - 1]
      <4>1. n - 1 \in 0..m
        BY <2>1, <3>1
      <4>2. QED
        BY <2>4, <4>1
    <3>2. QED
      BY <3>1
  <2>6. g = [n \in 0..(m + 1) |-> Step(g, n)]
    <3> HIDE DEF Step
    <3>1. QED
      BY <2>3, <2>5
  <2>7. QED
    <3> HIDE DEF Step
    <3>1. QED
      BY <2>1, <2>6
<1>3. T = Nat
  <2>1. T \in SUBSET Nat
    OBVIOUS
  <2> HIDE DEF T
  <2>2. QED
    BY <2>1, <1>1, <1>2, SetInduction
<1>4. \E f : f = [n \in 0..M |-> Step(f, n)]
  <2> HIDE DEF Step
  <2>1. QED
    BY <1>3
<1>5. PICK P : P = CHOOSE f : f = [n \in 0..M |-> Step(f, n)]
  OBVIOUS
<1>6. P = [n \in 0..M |-> Step(P, n)]
  <2> HIDE DEF Step
  <2>1. QED
    BY <1>4, <1>5, Zenon
<1>7. \A n \in 0..M : P[n] = Step(P, n)
  <2> HIDE DEF Step
  <2>1. QED
    BY <1>6, Zenon
<1>8. TranslateHandles(st, handles, moved, p, q) = P[Len(handles)]
  BY <1>0, <1>5 DEF TranslateHandles
<1>9. HandleRun(P, st, handles, moved, p, q)
  BY <1>0, <1>7 DEF HandleRun
<1>10. QED
  BY <1>8, <1>9

\* The states translate_ipc goes through for the parameters of a message.
ParamRun(f, params, p, q) ==
    /\ f[0] = [table |-> table, drawn |-> drawn, params |-> <<>>]
    /\ \A n \in 1..Len(params) : f[n] = TranslateParam(f[n - 1], params[n], p, q)

LEMMA TranslateParamsEquation ==
    ASSUME NEW params \in Seq(Param), NEW p, NEW q
    PROVE  \E f : ParamRun(f, params, p, q) /\ TranslateParams(params, p, q) = f[Len(params)]
<1> DEFINE Step(f, n) == IF n = 0 THEN [table |-> table, drawn |-> drawn, params |-> <<>>]
                         ELSE TranslateParam(f[n - 1], params[n], p, q)
           T == {m \in Nat : \E f : f = [n \in 0..m |-> Step(f, n)]}
<1>0. PICK M \in Nat : M = Len(params)
  OBVIOUS
<1>1. 0 \in T
  <2>1. PICK z : z = [n \in 0..0 |-> [table |-> table, drawn |-> drawn, params |-> <<>>]]
    OBVIOUS
  <2>2. z = [n \in 0..0 |-> Step(z, n)]
    BY <2>1
  <2>3. QED
    <3> HIDE DEF Step
    <3>1. QED
      BY <2>2
<1>2. ASSUME NEW m \in T PROVE m + 1 \in T
  <2>1. m \in Nat
    OBVIOUS
  <2>2. PICK f : f = [n \in 0..m |-> Step(f, n)]
    OBVIOUS
  <2>3. PICK g : g = [n \in 0..(m + 1) |-> Step(f, n)]
    OBVIOUS
  <2>4. \A n \in 0..m : g[n] = f[n]
    <3> HIDE DEF Step
    <3>1. \A n \in 0..m : g[n] = Step(f, n)
      BY <2>1, <2>3
    <3>2. \A n \in 0..m : f[n] = Step(f, n)
      BY <2>2, Zenon
    <3>3. QED
      BY <3>1, <3>2
  <2>5. \A n \in 0..(m + 1) : Step(g, n) = Step(f, n)
    <3>1. ASSUME NEW n \in 0..(m + 1), n # 0 PROVE g[n - 1] = f[n - 1]
      <4>1. n - 1 \in 0..m
        BY <2>1, <3>1
      <4>2. QED
        BY <2>4, <4>1
    <3>2. QED
      BY <3>1
  <2>6. g = [n \in 0..(m + 1) |-> Step(g, n)]
    <3> HIDE DEF Step
    <3>1. QED
      BY <2>3, <2>5
  <2>7. QED
    <3> HIDE DEF Step
    <3>1. QED
      BY <2>1, <2>6
<1>3. T = Nat
  <2>1. T \in SUBSET Nat
    OBVIOUS
  <2> HIDE DEF T
  <2>2. QED
    BY <2>1, <1>1, <1>2, SetInduction
<1>4. \E f : f = [n \in 0..M |-> Step(f, n)]
  <2> HIDE DEF Step
  <2>1. QED
    BY <1>3
<1>5. PICK P : P = CHOOSE f : f = [n \in 0..M |-> Step(f, n)]
  OBVIOUS
<1>6. P = [n \in 0..M |-> Step(P, n)]
  <2> HIDE DEF Step
  <2>1. QED
    BY <1>4, <1>5, Zenon
<1>7. \A n \in 0..M : P[n] = Step(P, n)
  <2> HIDE DEF Step
  <2>1. QED
    BY <1>6, Zenon
<1>8. TranslateParams(params, p, q) = P[Len(params)]
  BY <1>0, <1>5 DEF TranslateParams
<1>9. ParamRun(P, params, p, q)
  BY <1>0, <1>7 DEF ParamRun
<1>10. QED
  BY <1>8, <1>9

-----------------------------------------------------------------------------
(* Messages of few parameters *)

LEMMA ListNone == ASSUME NEW S PROVE <<>> \in Seq(S) /\ Len(<<>>) = 0
  OBVIOUS

LEMMA ListOne ==
    ASSUME NEW S, NEW x \in S
    PROVE  \E s \in Seq(S) : s = <<x>> /\ Len(s) = 1 /\ s[1] = x
<1>1. <<x>> \in Seq(S) /\ Len(<<x>>) = 1 /\ <<x>>[1] = x
  OBVIOUS
<1>2. QED
  BY <1>1, Zenon

LEMMA ListTwo ==
    ASSUME NEW S, NEW x, NEW y, x \in S, y \in S
    PROVE  \E s \in Seq(S) : s = <<x, y>> /\ Len(s) = 2 /\ s[1] = x /\ s[2] = y
<1>1. <<x, y>> \in Seq(S) /\ Len(<<x, y>>) = 2 /\ <<x, y>>[1] = x /\ <<x, y>>[2] = y
  OBVIOUS
<1>2. QED
  BY <1>1, Zenon

LEMMA ListThree ==
    ASSUME NEW S, NEW x, NEW y, NEW z, x \in S, y \in S, z \in S
    PROVE  \E s \in Seq(S) : s = <<x, y, z>> /\ Len(s) = 3 /\ s[1] = x /\ s[2] = y /\ s[3] = z
<1>1. /\ <<x, y, z>> \in Seq(S) /\ Len(<<x, y, z>>) = 3
      /\ <<x, y, z>>[1] = x /\ <<x, y, z>>[2] = y /\ <<x, y, z>>[3] = z
  OBVIOUS
<1>2. QED
  BY <1>1, Zenon

LEMMA FlattenNone == FlattenSeq(<<>>) = <<>>
  BY DEF FlattenSeq

LEMMA FlattenOne ==
    ASSUME NEW u \in Seq(Nat)
    PROVE  FlattenSeq(<<u>>) = u
<1>1. PICK cs \in Seq(Seq(Nat)) : cs = <<u>> /\ Len(cs) = 1 /\ cs[1] = u
  BY ListOne, Zenon
<1>2. Len(cs) = 1 /\ cs[1] = u
  BY <1>1
<1>3. PICK f : Partial(Nat, cs, f)
  BY PartialExists
<1>4. FlattenSeq(cs) = f[1]
  BY <1>2, <1>3, FlattenPartial
<1>a. 1 \in 1..Len(cs) /\ 1 - 1 = 0
  BY <1>2
<1>5. f[0] = <<>> /\ f[1] = f[0] \o u
  BY <1>2, <1>3, <1>a, Zenon DEF Partial
<1>6. <<>> \o u = u
  OBVIOUS
<1>7. QED
  BY <1>1, <1>4, <1>5, <1>6, Zenon

LEMMA FlattenTwo ==
    ASSUME NEW u \in Seq(Nat), NEW v \in Seq(Nat)
    PROVE  FlattenSeq(<<u, v>>) = u \o v
<1>1. PICK cs \in Seq(Seq(Nat)) : cs = <<u, v>> /\ Len(cs) = 2 /\ cs[1] = u /\ cs[2] = v
  <2>1. \E s \in Seq(Seq(Nat)) : s = <<u, v>> /\ Len(s) = 2 /\ s[1] = u /\ s[2] = v
    BY ListTwo
  <2>2. QED
    BY <2>1, Zenon
<1>2. Len(cs) = 2 /\ cs[1] = u /\ cs[2] = v
  BY <1>1
<1>3. PICK f : Partial(Nat, cs, f)
  BY PartialExists
<1>4. FlattenSeq(cs) = f[2]
  BY <1>2, <1>3, FlattenPartial
<1>a. 1 \in 1..Len(cs) /\ 2 \in 1..Len(cs) /\ 1 - 1 = 0 /\ 2 - 1 = 1
  BY <1>2
<1>5. f[0] = <<>> /\ f[1] = f[0] \o u /\ f[2] = f[1] \o v
  BY <1>2, <1>3, <1>a, Zenon DEF Partial
<1>6. <<>> \o u = u
  OBVIOUS
<1>7. QED
  BY <1>1, <1>4, <1>5, <1>6, Zenon

LEMMA FlattenThree ==
    ASSUME NEW u \in Seq(Nat), NEW v \in Seq(Nat), NEW w \in Seq(Nat)
    PROVE  FlattenSeq(<<u, v, w>>) = (u \o v) \o w
<1>1. PICK cs \in Seq(Seq(Nat)) : cs = <<u, v, w>> /\ Len(cs) = 3 /\ cs[1] = u /\ cs[2] = v /\ cs[3] = w
  <2>1. \E s \in Seq(Seq(Nat)) : s = <<u, v, w>> /\ Len(s) = 3 /\ s[1] = u /\ s[2] = v /\ s[3] = w
    BY ListThree
  <2>2. QED
    BY <2>1, Zenon
<1>2. Len(cs) = 3 /\ cs[1] = u /\ cs[2] = v /\ cs[3] = w
  BY <1>1
<1>3. PICK f : Partial(Nat, cs, f)
  BY PartialExists
<1>4. FlattenSeq(cs) = f[3]
  BY <1>2, <1>3, FlattenPartial
<1>a. 1 \in 1..Len(cs) /\ 2 \in 1..Len(cs) /\ 3 \in 1..Len(cs) /\ 1 - 1 = 0 /\ 2 - 1 = 1 /\ 3 - 1 = 2
  BY <1>2
<1>5. f[0] = <<>> /\ f[1] = f[0] \o u /\ f[2] = f[1] \o v /\ f[3] = f[2] \o w
  BY <1>2, <1>3, <1>a, Zenon DEF Partial
<1>6. <<>> \o u = u
  OBVIOUS
<1>7. QED
  BY <1>1, <1>4, <1>5, <1>6, Zenon

\* A message without translate parameters.
LEMMA WrittenNone ==
    ASSUME NEW command \in Nat, NEW result \in Seq(Nat), NEW normals \in Seq(Nat),
           Len(normals) < 64, NEW reply, HasResult(result, reply), NEW b \in Seq(Nat)
    PROVE  Delivered(Over(b, Written(command, result, normals, <<>>)), b, reply, command,
                     result, normals, <<>>, 0)
<1>1. PICK ps \in Seq(Param) : ps = <<>>
  BY ListNone, Zenon
<1>2. Len(ps) = 0 /\ \A n \in 1..Len(ps) : Len(ps[n].handles) >= 1
  BY <1>1
<1>3. [n \in 1..Len(ps) |-> TranslateWords(ps[n])] = <<>> /\ [n \in 1..Len(ps) |-> Seen(ps[n])] = <<>>
  BY <1>2
<1>4. PICK words : words = FlattenSeq([n \in 1..Len(ps) |-> TranslateWords(ps[n])]) /\ words = <<>>
  BY <1>3, FlattenNone
<1>5. Len(words) = 0 /\ Len(words) < 64
  BY <1>4
<1>6. Delivered(Over(b, Written(command, result, normals, ps)), b, reply, command,
                result, normals, [n \in 1..Len(ps) |-> Seen(ps[n])], Len(words))
  BY <1>2, <1>4, <1>5, ReadWritten
<1>7. QED
  BY <1>1, <1>3, <1>5, <1>6, Zenon

\* A message with one translate parameter.
LEMMA WrittenOne ==
    ASSUME NEW command \in Nat, NEW result \in Seq(Nat), NEW normals \in Seq(Nat),
           Len(normals) < 64, NEW reply, HasResult(result, reply), NEW b \in Seq(Nat),
           NEW x \in Param, Len(x.handles) \in 1..60
    PROVE  Delivered(Over(b, Written(command, result, normals, <<x>>)), b, reply, command,
                     result, normals, <<Seen(x)>>, 1 + Len(x.handles))
<1>1. PICK ps \in Seq(Param) : ps = <<x>> /\ Len(ps) = 1 /\ ps[1] = x
  BY ListOne, Zenon
<1>b. PICK k \in 1..60 : k = Len(x.handles)
  OBVIOUS
<1>d. k >= 1 /\ 1 + k < 64
  OBVIOUS
<1>c. Len(x.handles) >= 1
  BY <1>b, <1>d, Zenon
<1>2. Len(ps) = 1 /\ ps[1] = x /\ \A n \in 1..Len(ps) : Len(ps[n].handles) >= 1
  BY <1>1, <1>c
<1>a. TranslateWords(x) \in Seq(Nat) /\ Len(TranslateWords(x)) = 1 + Len(x.handles)
  BY <1>c, WordsOfParam, Zenon
<1>3. /\ [n \in 1..Len(ps) |-> TranslateWords(ps[n])] = <<TranslateWords(x)>>
      /\ [n \in 1..Len(ps) |-> Seen(ps[n])] = <<Seen(x)>>
  BY <1>2
<1>4. PICK words : /\ words = FlattenSeq([n \in 1..Len(ps) |-> TranslateWords(ps[n])])
                   /\ words = TranslateWords(x)
  BY <1>3, <1>a, FlattenOne
<1>5. Len(words) = 1 + Len(x.handles) /\ Len(words) < 64
  BY <1>4, <1>a, <1>b, <1>d, Zenon
<1>6. Delivered(Over(b, Written(command, result, normals, ps)), b, reply, command,
                result, normals, [n \in 1..Len(ps) |-> Seen(ps[n])], Len(words))
  BY <1>2, <1>4, <1>5, ReadWritten
<1>7. QED
  BY <1>1, <1>3, <1>5, <1>6, Zenon

-----------------------------------------------------------------------------
(* What translate_ipc does with messages of few parameters *)

IpcTypes == drawn \in [Process -> Nat] /\ ipcData \in [Process -> Seq(Nat)]

\* A message is put in q's ipc_data.
Delivers(q, reply, command, result, normals, params, size) ==
    \E o : /\ ipcData' = [ipcData EXCEPT ![q] = o]
           /\ Delivered(o, ipcData[q], reply, command, result, normals, params, size)

\* A message that can be read.
Readable(p, reply, command, result, normals, params) ==
    /\ command \in Nat /\ result \in Seq(Nat) /\ normals \in Seq(Nat)
    /\ Len(normals) < 64 /\ HasResult(result, reply)
    /\ \E size : ReadsAs(ipcData[p], reply, command, result, normals, params, size)

\* translate_ipc puts its results where they belong.
Ends(done, q, command, result, normals) ==
    /\ table' = done.table /\ drawn' = done.drawn
    /\ ipcData' = [ipcData EXCEPT ![q] =
           Over(ipcData[q], Written(command, result, normals, done.params))]

LEMMA TranslateRead ==
    ASSUME NEW p, NEW q, NEW reply, NEW command, NEW result, NEW normals, NEW params,
           TranslateIpc(p, q, reply), Readable(p, reply, command, result, normals, params),
           NEW done, done = TranslateParams(params, p, q)
    PROVE  Ends(done, q, command, result, normals)
<1>1. PICK m : m = Read(ipcData[p], reply)
  OBVIOUS
<1>2. m = [command |-> command, result |-> result, normals |-> normals, params |-> params]
  BY <1>1, Zenon DEF Readable, ReadsAs
<1>3. m.command = command /\ m.result = result /\ m.normals = normals /\ m.params = params
  BY <1>2
<1>4. PICK d : /\ d = TranslateParams(m.params, p, q)
               /\ table' = d.table /\ drawn' = d.drawn
               /\ ipcData' = [ipcData EXCEPT ![q] =
                      Over(ipcData[q], Written(m.command, m.result, m.normals, d.params))]
  BY <1>1, Zenon DEF TranslateIpc
<1>5. d = done
  BY <1>3, <1>4, Zenon
<1>6. QED
  BY <1>3, <1>4, <1>5, Zenon DEF Ends

LEMMA TranslateNone ==
    ASSUME NEW p \in Process, NEW q \in Process, NEW reply, NEW command, NEW result, NEW normals,
           IpcTypes, TranslateIpc(p, q, reply),
           Readable(p, reply, command, result, normals, <<>>)
    PROVE  /\ table' = table /\ drawn' = drawn
           /\ Delivers(q, reply, command, result, normals, <<>>, 0)
<1>1. PICK ps \in Seq(Param) : ps = <<>> /\ Len(ps) = 0
  BY ListNone, Zenon
<1>2. PICK f : ParamRun(f, ps, p, q) /\ TranslateParams(ps, p, q) = f[Len(ps)]
  BY TranslateParamsEquation
<1>3. PICK done : done = TranslateParams(ps, p, q)
  OBVIOUS
<1>4. done = [table |-> table, drawn |-> drawn, params |-> <<>>]
  BY <1>1, <1>2, <1>3, Zenon DEF ParamRun
<1>5. done.table = table /\ done.drawn = drawn /\ done.params = <<>>
  BY <1>4
<1>6. /\ table' = done.table /\ drawn' = done.drawn
      /\ ipcData' = [ipcData EXCEPT ![q] =
             Over(ipcData[q], Written(command, result, normals, done.params))]
  <2>1. Readable(p, reply, command, result, normals, ps)
    BY <1>1, Zenon
  <2>2. Ends(done, q, command, result, normals)
    BY <1>3, <2>1, TranslateRead
  <2>3. QED
    BY <2>2 DEF Ends
<1>7. ipcData[q] \in Seq(Nat)
  BY DEF IpcTypes
<1>8. Delivered(Over(ipcData[q], Written(command, result, normals, <<>>)), ipcData[q], reply,
                command, result, normals, <<>>, 0)
  BY <1>7, WrittenNone, Zenon DEF Readable
<1>9. QED
  BY <1>5, <1>6, <1>8, Zenon DEF Delivers

\* One handle, translated from the tables as they are.
Translated(h, moved, p, q) ==
    TranslateHandle([table |-> table, drawn |-> drawn, handles |-> <<>>], h, moved, p, q)

Into(h, moved, p, q) ==
    InsertHandle(IF moved THEN RemoveHandle(table, p, h) ELSE table, drawn, q, table[p][h])

LEMMA TranslatedOne ==
    ASSUME NEW h, NEW moved, NEW p \in Process, NEW q \in Process, IpcTypes
    PROVE  /\ h \notin DOMAIN table[p] => Translated(h, moved, p, q) =
                   [table |-> table, drawn |-> drawn, handles |-> <<NoHandle>>]
           /\ h \in DOMAIN table[p] => Translated(h, moved, p, q) =
                   [table |-> Into(h, moved, p, q).table, drawn |-> Into(h, moved, p, q).drawn,
                    handles |-> <<drawn[q] + 1>>]
<1>1. PICK st : st = [table |-> table, drawn |-> drawn, handles |-> <<>>]
  OBVIOUS
<1>2. st.table = table /\ st.drawn = drawn /\ st.handles = <<>>
  BY <1>1
<1>3. Translated(h, moved, p, q) = TranslateHandle(st, h, moved, p, q)
  BY <1>1, Zenon DEF Translated
<1>4. CASE h \notin DOMAIN table[p]
  <2>1. Translated(h, moved, p, q) = [st EXCEPT !.handles = Append(st.handles, NoHandle)]
    BY <1>2, <1>3, <1>4 DEF TranslateHandle
  <2>2. Append(st.handles, NoHandle) = <<NoHandle>>
    BY <1>2
  <2>3. QED
    BY <1>1, <1>4, <2>1, <2>2
<1>5. CASE h \in DOMAIN table[p]
  <2>0. PICK in : in = Into(h, moved, p, q)
    OBVIOUS
  <2>1. in = InsertHandle(IF moved THEN RemoveHandle(table, p, h) ELSE table, drawn, q, table[p][h])
    BY <2>0 DEF Into
  <2>2. Translated(h, moved, p, q) = [table |-> in.table, drawn |-> in.drawn,
                                      handles |-> Append(st.handles, in.drawn[q])]
    BY <1>2, <1>3, <1>5, <2>1, Zenon DEF TranslateHandle
  <2>3. in.drawn = [drawn EXCEPT ![q] = @ + 1]
    BY <2>1 DEF InsertHandle
  <2>4. in.drawn[q] = drawn[q] + 1
    BY <2>3 DEF IpcTypes
  <2>5. Append(st.handles, in.drawn[q]) = <<drawn[q] + 1>>
    BY <1>2, <2>4
  <2>6. QED
    BY <1>5, <2>0, <2>2, <2>5, Zenon
<1>6. QED
  BY <1>4, <1>5, Zenon

\* What is done with a message of one handle.
Passes(done, q, reply, command, result, normals, moved, calling) ==
    /\ table' = done.table /\ drawn' = done.drawn
    /\ Delivers(q, reply, command, result, normals,
                <<Seen(HandleParam(moved, calling, done.handles))>>, 2)

LEMMA TranslateOne ==
    ASSUME NEW p \in Process, NEW q \in Process, NEW reply, NEW command, NEW result, NEW normals,
           NEW moved \in BOOLEAN, NEW calling \in BOOLEAN, NEW h \in Nat,
           IpcTypes, TranslateIpc(p, q, reply),
           Readable(p, reply, command, result, normals, <<HandleParam(moved, calling, <<h>>)>>)
    PROVE  Passes(Translated(h, moved, p, q), q, reply, command, result, normals, moved, calling)
<1>1. PICK hs \in Seq(Nat) : hs = <<h>> /\ Len(hs) = 1 /\ hs[1] = h
  BY ListOne, Zenon
<1>2. PICK x \in Param : x = HandleParam(moved, calling, hs)
  BY DEF HandleParam, Param
<1>3. x.moved = moved /\ x.calling = calling /\ x.handles = hs
  BY <1>2 DEF HandleParam
<1>4. PICK ps \in Seq(Param) : ps = <<x>> /\ Len(ps) = 1 /\ ps[1] = x
  BY ListOne, Zenon
<1>5. PICK f : ParamRun(f, ps, p, q) /\ TranslateParams(ps, p, q) = f[Len(ps)]
  BY TranslateParamsEquation
<1>6. PICK st : st = [table |-> table, drawn |-> drawn, params |-> <<>>]
  OBVIOUS
<1>7. st.table = table /\ st.drawn = drawn /\ st.params = <<>>
  BY <1>6
<1>8. f[1] = TranslateParam(st, x, p, q)
  <2>1. 1 \in 1..Len(ps) /\ 1 - 1 = 0
    BY <1>4
  <2>2. QED
    BY <1>4, <1>5, <1>6, <2>1, Zenon DEF ParamRun
<1>9. PICK g : HandleRun(g, st, hs, moved, p, q) /\ TranslateHandles(st, hs, moved, p, q) = g[Len(hs)]
  BY TranslateHandlesEquation
<1>10. PICK done : done = Translated(h, moved, p, q)
  OBVIOUS
<1>11. TranslateHandles(st, hs, moved, p, q) = done
  <2>1. 1 \in 1..Len(hs) /\ 1 - 1 = 0
    BY <1>1
  <2>2. g[1] = TranslateHandle([table |-> table, drawn |-> drawn, handles |-> <<>>], h, moved, p, q)
    BY <1>1, <1>7, <1>9, <2>1, Zenon DEF HandleRun
  <2>3. QED
    BY <1>1, <1>9, <1>10, <2>2, Zenon DEF Translated
<1>12. PICK y : y = HandleParam(moved, calling, done.handles)
  OBVIOUS
<1>13. f[1] = [table |-> done.table, drawn |-> done.drawn, params |-> <<y>>]
  <2>1. x.handles # <<>>
    BY <1>1, <1>3
  <2>2. f[1] = [table |-> done.table, drawn |-> done.drawn, params |-> Append(st.params, y)]
    BY <1>3, <1>8, <1>11, <1>12, <2>1, Zenon DEF TranslateParam
  <2>3. Append(st.params, y) = <<y>>
    BY <1>7
  <2>4. QED
    BY <2>2, <2>3, Zenon
<1>14. PICK all : all = TranslateParams(ps, p, q)
  OBVIOUS
<1>15. all.table = done.table /\ all.drawn = done.drawn /\ all.params = <<y>>
  BY <1>4, <1>5, <1>13, <1>14
<1>16. Readable(p, reply, command, result, normals, ps)
  BY <1>1, <1>2, <1>4, Zenon
<1>17. /\ table' = all.table /\ drawn' = all.drawn
       /\ ipcData' = [ipcData EXCEPT ![q] =
              Over(ipcData[q], Written(command, result, normals, all.params))]
  <2>1. Ends(all, q, command, result, normals)
    BY <1>14, <1>16, TranslateRead
  <2>2. QED
    BY <2>1 DEF Ends
<1>18. PICK hs2 \in Seq(Nat) : hs2 = done.handles /\ Len(hs2) = 1
  <2>1. done.handles = <<NoHandle>> \/ done.handles = <<drawn[q] + 1>>
    <3>1. CASE h \in DOMAIN table[p]
      <4>1. done = [table |-> Into(h, moved, p, q).table, drawn |-> Into(h, moved, p, q).drawn,
                    handles |-> <<drawn[q] + 1>>]
        BY <1>10, <3>1, TranslatedOne, Zenon
      <4>2. QED
        BY <4>1
    <3>2. CASE h \notin DOMAIN table[p]
      <4>1. done = [table |-> table, drawn |-> drawn, handles |-> <<NoHandle>>]
        BY <1>10, <3>2, TranslatedOne, Zenon
      <4>2. QED
        BY <4>1
    <3>3. QED
      BY <3>1, <3>2
  <2>2. NoHandle \in Nat /\ drawn[q] + 1 \in Nat
    BY DEF NoHandle, IpcTypes
  <2>3. QED
    BY <2>1, <2>2, ListOne, Zenon
<1>19. y \in Param /\ y.handles = hs2
  BY <1>12, <1>18 DEF HandleParam, Param
<1>20. Len(y.handles) \in 1..60 /\ 1 + Len(y.handles) = 2
  <2>1. 1 \in 1..60 /\ 1 + 1 = 2
    OBVIOUS
  <2>2. QED
    BY <1>18, <1>19, <2>1, Zenon
<1>21. ipcData[q] \in Seq(Nat)
  BY DEF IpcTypes
<1>22. Delivered(Over(ipcData[q], Written(command, result, normals, <<y>>)), ipcData[q], reply,
                 command, result, normals, <<Seen(y)>>, 2)
  BY <1>19, <1>20, <1>21, WrittenOne, Zenon DEF Readable
<1>23. QED
  BY <1>10, <1>12, <1>15, <1>17, <1>22, Zenon DEF Delivers, Passes

=============================================================================
