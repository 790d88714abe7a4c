-------------------------- MODULE EngineShellProofs --------------------------
(***************************************************************************)
(* The gates of K04DEngine, for statements of any length made of any       *)
(* comments, literals, words, blanks and semicolons.                       *)
(***************************************************************************)
EXTENDS EngineShell, FiniteSetTheorems, WellFoundedInduction, TLAPS

-----------------------------------------------------------------------------
(* Induction over an interval, with a set for the predicate.               *)

(* A set of naturals that is not empty has a least element.                *)
LEMMA Least ==
  ASSUME NEW T \in SUBSET Nat, T # {}
  PROVE  \E x \in T : \A y \in T : x <= y
<1>a. IsWellFoundedOn(OpToRel(<,Nat), Nat)
  BY NatLessThanWellFounded, Zenon
<1>r. PICK R : R = OpToRel(<,Nat)
  BY Zenon
<1>1. IsWellFoundedOn(R, Nat)
  BY <1>a, <1>r, Zenon
<1>2. PICK x \in T : \A y \in T : ~ (<<y, x>> \in R)
  BY <1>1, WFMin, Zenon
<1>3. \A y \in T : ~ (y < x)
  BY <1>2, <1>r DEF OpToRel
<1> QED
  BY <1>3

(* What holds at 0 and passes from each number below n to the next holds   *)
(* up to n.                                                                *)
LEMMA UpTo ==
  ASSUME NEW n \in Nat, NEW T, 0 \in T, \A k \in Nat : k < n /\ k \in T => k + 1 \in T
  PROVE  \A k \in 0 .. n : k \in T
<1> DEFINE Bad == {k \in Nat : k <= n /\ k \notin T}
<1>1. ASSUME Bad # {} PROVE FALSE
  <2>1. PICK k \in Bad : \A j \in Bad : k <= j
    BY <1>1, Least
  <2>2. k # 0 /\ k - 1 \in Nat /\ k - 1 < n /\ k - 1 \notin Bad
    BY <2>1
  <2>3. k - 1 \in T
    BY <2>2
  <2>4. (k - 1) + 1 \in T
    BY <2>2, <2>3
  <2> QED
    BY <2>1, <2>4
<1> QED
  BY <1>1

(* The same from a number s upwards.                                       *)
LEMMA From ==
  ASSUME NEW s \in Nat, NEW n \in Nat, NEW T, s \in T,
         \A k \in Nat : s <= k /\ k < n /\ k \in T => k + 1 \in T
  PROVE  \A k \in s .. n : k \in T
<1> DEFINE U == {k \in Nat : k >= s => k \in T}
<1>1. 0 \in U
  <2>1. 0 >= s => s = 0
    OBVIOUS
  <2> QED
    BY <2>1
<1>2. ASSUME NEW k \in Nat, k < n, k \in U PROVE k + 1 \in U
  <2>1. CASE k >= s
    BY <1>2, <2>1
  <2>2. CASE ~ (k >= s)
    <3>1. k + 1 >= s => k + 1 = s
      BY <2>2
    <3> QED
      BY <3>1
  <2> QED
    BY <2>1, <2>2
<1>3. \A k \in 0 .. n : k \in U
  <2> HIDE DEF U
  <2> QED
    BY <1>1, <1>2, UpTo
<1> QED
  BY <1>3

-----------------------------------------------------------------------------
(* The two recursive functions.                                            *)

(* strip_comments: each state is one character's reading of the one before.*)
LEMMA ReadingSteps ==
  ASSUME NEW sql, Len(sql) \in Nat, NEW R, R = Reading(sql)
  PROVE  /\ R[0] = Start
         /\ \A i \in 1 .. Len(sql) : R[i] = ReadChar(R[i - 1], sql[i], Ahead(sql, i))
<1> DEFINE n == Len(sql)
           Steps(g, k) == g = [i \in 0 .. k |->
                                 IF i = 0 THEN Start ELSE ReadChar(g[i - 1], sql[i], Ahead(sql, i))]
           Good == {k \in 0 .. n : \E g : Steps(g, k)}
<1>0. n \in Nat
  OBVIOUS
<1> HIDE DEF n
<1>1. 0 \in Good
  <2>1. Steps([i \in 0 .. 0 |-> Start], 0)
    OBVIOUS
  <2>2. \E g : Steps(g, 0)
    BY <2>1, Zenon
  <2>3. 0 \in 0 .. n
    BY <1>0
  <2> QED
    BY <2>2, <2>3, Zenon
<1>2. ASSUME NEW k \in Nat, k < n, k \in Good PROVE k + 1 \in Good
  <2>1. PICK g : Steps(g, k)
    BY <1>2
  <2> DEFINE h == [i \in 0 .. k + 1 |->
                     IF i = k + 1 THEN ReadChar(g[k], sql[k + 1], Ahead(sql, k + 1)) ELSE g[i]]
  <2>2. \A i \in 0 .. k :
           g[i] = IF i = 0 THEN Start ELSE ReadChar(g[i - 1], sql[i], Ahead(sql, i))
    BY <2>1
  <2>3. ASSUME NEW i \in 0 .. k + 1
        PROVE  h[i] = IF i = 0 THEN Start ELSE ReadChar(h[i - 1], sql[i], Ahead(sql, i))
    <3>1. CASE i = k + 1
      <4>1. k \in 0 .. k + 1 /\ k # k + 1 /\ k + 1 \in 0 .. k + 1 /\ (k + 1) - 1 = k /\ k + 1 # 0
        BY <1>2
      <4>2. h[k] = g[k] /\ h[k + 1] = ReadChar(g[k], sql[k + 1], Ahead(sql, k + 1))
        BY <4>1
      <4> QED
        BY <3>1, <4>1, <4>2
    <3>2. CASE i # k + 1
      <4>1. i \in 0 .. k /\ (i # 0 => i - 1 \in 0 .. k + 1 /\ i - 1 # k + 1)
        BY <1>2, <3>2
      <4>2. h[i] = g[i] /\ (i # 0 => h[i - 1] = g[i - 1])
        BY <3>2, <4>1
      <4> QED
        BY <2>2, <4>1, <4>2
    <3> QED
      BY <3>1, <3>2
  <2>4. h = [i \in 0 .. k + 1 |-> h[i]]
    OBVIOUS
  <2> HIDE DEF h
  <2>5. Steps(h, k + 1)
    BY <2>3, <2>4
  <2>6. k + 1 \in 0 .. n
    BY <1>0, <1>2
  <2> QED
    BY <2>5, <2>6
<1>3. n \in Good
  <2> HIDE DEF Good
  <2>1. \A k \in 0 .. n : k \in Good
    BY <1>0, <1>1, <1>2, UpTo
  <2> QED
    BY <1>0, <2>1
<1>4. \E g : Steps(g, n)
  BY <1>3
<1>5. R = CHOOSE g : Steps(g, n)
  BY Zenon DEF Reading, n
<1>6. Steps(R, n)
  BY <1>4, <1>5
<1>7. R = [i \in 0 .. n |-> IF i = 0 THEN Start ELSE ReadChar(R[i - 1], sql[i], Ahead(sql, i))]
  BY <1>6
<1>8. R[0] = Start /\ \A i \in 1 .. n : R[i] = ReadChar(R[i - 1], sql[i], Ahead(sql, i))
  BY <1>0, <1>7
<1> QED
  BY <1>8 DEF n

(* Concatenation, as an operator the provers leave alone.                  *)
Cat(s, t) == s \o t

(* S[n] is the first n of the parts, one after the other.                  *)
Joint(S, parts) ==
  /\ S[0] = <<>>
  /\ \A n \in 1 .. Len(parts) : S[n] = Cat(S[n - 1], parts[n])

(* There is such a function, and it is what FlattenSeq computes.           *)
LEMMA Flattened ==
  ASSUME NEW C, NEW parts \in Seq(Seq(C))
  PROVE  \E S : Joint(S, parts) /\ S[Len(parts)] = FlattenSeq(parts)
<1> DEFINE n == Len(parts)
           Steps(g, k) == g[0] = <<>> /\ \A i \in 1 .. k : g[i] = Cat(g[i - 1], parts[i])
           Good == {k \in 0 .. n : \E g : Steps(g, k)}
<1>0. n \in Nat /\ \A i \in 1 .. n : parts[i] \in Seq(C)
  OBVIOUS
<1> HIDE DEF n
<1>1. 0 \in Good
  <2>1. Steps([i \in 0 .. 0 |-> <<>>], 0)
    OBVIOUS
  <2>2. \E g : Steps(g, 0)
    BY <2>1, Zenon
  <2>3. 0 \in 0 .. n
    BY <1>0
  <2> QED
    BY <2>2, <2>3, Zenon
<1>2. ASSUME NEW k \in Nat, k < n, k \in Good PROVE k + 1 \in Good
  <2>1. PICK g : Steps(g, k)
    BY <1>2
  <2> DEFINE h == [i \in 0 .. k + 1 |-> IF i = k + 1 THEN Cat(g[k], parts[k + 1]) ELSE g[i]]
  <2>2. h[0] = <<>>
    BY <2>1
  <2>3. ASSUME NEW i \in 1 .. k + 1 PROVE h[i] = Cat(h[i - 1], parts[i])
    <3>1. CASE i = k + 1
      BY <1>2, <3>1
    <3>2. CASE i # k + 1
      <4>1. i \in 1 .. k /\ i - 1 \in 0 .. k + 1 /\ i - 1 # k + 1 /\ i \in 0 .. k + 1
        BY <1>2, <3>2
      <4>2. h[i] = g[i] /\ h[i - 1] = g[i - 1]
        BY <3>2, <4>1
      <4> QED
        BY <2>1, <4>1, <4>2
    <3> QED
      BY <3>1, <3>2
  <2> HIDE DEF h
  <2>4. Steps(h, k + 1)
    BY <2>2, <2>3
  <2>5. k + 1 \in 0 .. n
    BY <1>0, <1>2
  <2> QED
    BY <2>4, <2>5
<1>3. n \in Good
  <2> HIDE DEF Good
  <2>1. \A k \in 0 .. n : k \in Good
    BY <1>0, <1>1, <1>2, UpTo
  <2> QED
    BY <1>0, <2>1
<1>4. PICK S : Steps(S, n)
  BY <1>3
<1>5. Joint(S, parts)
  BY <1>4 DEF Joint, n
<1>6. CASE n = 0
  <2>1. FlattenSeq(parts) = parts
    BY <1>6, Zenon DEF FlattenSeq, n
  <2>2. parts = <<>>
    BY <1>6 DEF n
  <2> QED
    BY <1>4, <1>5, <1>6, <2>1, <2>2 DEF n
<1>7. CASE n # 0
  <2> DEFINE Flat(f) == f = [i \in 1 .. n |-> IF i = 1 THEN parts[i] ELSE Cat(f[i - 1], parts[i])]
             T == [i \in 1 .. n |-> S[i]]
  <2>1. S[1] = parts[1]
    <3>1. 1 \in 1 .. n
      BY <1>0, <1>7
    <3>2. S[1] = Cat(<<>>, parts[1]) /\ parts[1] \in Seq(C)
      BY <1>0, <1>4, <3>1
    <3> QED
      BY <3>2 DEF Cat
  <2>2. ASSUME NEW i \in 1 .. n PROVE T[i] = IF i = 1 THEN parts[i] ELSE Cat(T[i - 1], parts[i])
    <3>1. CASE i = 1
      BY <1>0, <2>1, <3>1
    <3>2. CASE i # 1
      <4>1. i - 1 \in 1 .. n /\ S[i] = Cat(S[i - 1], parts[i])
        BY <1>0, <1>4, <3>2
      <4> QED
        BY <3>2, <4>1
    <3> QED
      BY <3>1, <3>2
  <2>3. T = [i \in 1 .. n |-> T[i]]
    OBVIOUS
  <2>4. Flat(T)
    <3> HIDE DEF T
    <3> QED
      BY <2>2, <2>3
  <2>5. FlattenSeq(parts) = (CHOOSE f : Flat(f))[n]
    BY <1>7, Zenon DEF FlattenSeq, Cat, n
  <2>6. PICK f : f = CHOOSE g : Flat(g)
    OBVIOUS
  <2>7. Flat(f)
    <3> HIDE DEF T
    <3> QED
      BY <2>4, <2>6
  <2>8. \A i \in 1 .. n : f[i] = IF i = 1 THEN parts[i] ELSE Cat(f[i - 1], parts[i])
    BY <2>7
  <2> DEFINE Same == {k \in 0 .. n : k # 0 => f[k] = S[k]}
  <2>9. 0 \in Same
    BY <1>0
  <2>10. ASSUME NEW k \in Nat, k < n, k \in Same PROVE k + 1 \in Same
    <3>1. k + 1 \in 1 .. n /\ k + 1 \in 0 .. n /\ (k + 1) - 1 = k
      BY <1>0, <2>10
    <3>2. CASE k = 0
      BY <2>1, <2>8, <3>1, <3>2
    <3>3. CASE k # 0
      BY <1>4, <2>8, <2>10, <3>1, <3>3
    <3> QED
      BY <3>2, <3>3
  <2>11. n \in Same
    <3> HIDE DEF Same
    <3>1. \A k \in 0 .. n : k \in Same
      BY <1>0, <2>9, <2>10, UpTo
    <3> QED
      BY <1>0, <3>1
  <2>12. f[n] = S[n]
    BY <1>7, <2>11
  <2>13. FlattenSeq(parts) = f[n]
    BY <2>5, <2>6
  <2> QED
    BY <1>5, <2>12, <2>13 DEF n
<1> QED
  BY <1>6, <1>7

(* u is s and then t.                                                      *)
Adds(s, t, u) ==
  /\ Len(s) \in Nat /\ Len(t) \in Nat /\ Len(u) \in Nat /\ Len(u) = Len(s) + Len(t)
  /\ \A i \in 1 .. Len(s) : u[i] = s[i]
  /\ \A j \in 1 .. Len(t) : u[Len(s) + j] = t[j]

(* Where the parts are in the whole: the n-th begins after the first n - 1,*)
(* and every character of the whole belongs to a part.                     *)
Laid(S, parts) ==
  /\ \A n \in 0 .. Len(parts) : Len(S[n]) \in Nat
  /\ \A n \in 1 .. Len(parts) : Len(S[n]) = Len(S[n - 1]) + Len(parts[n])
  /\ \A n \in 0 .. Len(parts) : \A m \in 0 .. Len(parts) : n <= m => Len(S[n]) <= Len(S[m])
  /\ \A n \in 1 .. Len(parts) : \A j \in 1 .. Len(parts[n]) :
       S[Len(parts)][Len(S[n - 1]) + j] = parts[n][j]
  /\ \A x \in 1 .. Len(S[Len(parts)]) : \E n \in 1 .. Len(parts) :
       \E j \in 1 .. Len(parts[n]) : x = Len(S[n - 1]) + j

(* The parts are laid out so in what FlattenSeq makes of them.             *)
LEMMA Places ==
  ASSUME NEW C, NEW parts \in Seq(Seq(C)), NEW S, Joint(S, parts)
  PROVE  /\ \A n \in 0 .. Len(parts) : S[n] \in Seq(C)
         /\ Laid(S, parts)
<1>0. PICK N \in Nat : N = Len(parts)
  OBVIOUS
<1>1. /\ S[0] = <<>> /\ \A n \in 1 .. N : parts[n] \in Seq(C) /\ S[n] = Cat(S[n - 1], parts[n])
  BY <1>0 DEF Joint
<1>2. \A n \in 0 .. N : S[n] \in Seq(C)
  <2> DEFINE T == {n \in 0 .. N : S[n] \in Seq(C)}
  <2>1. 0 \in T
    <3>1. <<>> \in Seq(C) /\ 0 \in 0 .. N
      BY <1>0
    <3> QED
      BY <1>1, <3>1
  <2>2. ASSUME NEW k \in Nat, k < N, k \in T PROVE k + 1 \in T
    <3>1. k + 1 \in 1 .. N /\ (k + 1) - 1 = k /\ k + 1 \in 0 .. N
      BY <1>0, <2>2
    <3>2. S[k + 1] = Cat(S[k], parts[k + 1]) /\ parts[k + 1] \in Seq(C) /\ S[k] \in Seq(C)
      BY <1>1, <2>2, <3>1
    <3>3. Cat(S[k], parts[k + 1]) \in Seq(C)
      BY <3>2 DEF Cat
    <3> QED
      BY <3>1, <3>2, <3>3
  <2>3. \A n \in 0 .. N : n \in T
    <3> HIDE DEF T
    <3> QED
      BY <1>0, <2>1, <2>2, UpTo
  <2> QED
    BY <2>3
<1>3. \A n \in 1 .. N : Adds(S[n - 1], parts[n], S[n])
  <2>1. ASSUME NEW s \in Seq(C), NEW t \in Seq(C) PROVE Adds(s, t, Cat(s, t))
    BY DEF Adds, Cat
  <2>2. \A n \in 1 .. N : S[n - 1] \in Seq(C)
    BY <1>0, <1>2
  <2> QED
    BY <1>1, <2>1, <2>2
<1>4. \A n \in 0 .. N : Len(S[n]) \in Nat
  BY <1>2
<1>5. ASSUME NEW n \in 0 .. N
      PROVE  /\ \A m \in 0 .. N : n <= m => Len(S[n]) <= Len(S[m])
             /\ Len(S[n]) <= Len(S[N]) /\ \A i \in 1 .. Len(S[n]) : S[N][i] = S[n][i]
  <2> DEFINE T == {m \in 0 .. N : m >= n => /\ Len(S[n]) <= Len(S[m])
                                            /\ \A i \in 1 .. Len(S[n]) : S[m][i] = S[n][i]}
  <2>1. 0 \in T
    BY <1>0, <1>4
  <2>2. ASSUME NEW k \in Nat, k < N, k \in T PROVE k + 1 \in T
    <3>1. k + 1 \in 1 .. N /\ (k + 1) - 1 = k /\ k + 1 \in 0 .. N /\ k \in 0 .. N
      BY <1>0, <2>2
    <3>2. /\ Len(S[k + 1]) = Len(S[k]) + Len(parts[k + 1]) /\ Len(parts[k + 1]) \in Nat
          /\ \A i \in 1 .. Len(S[k]) : S[k + 1][i] = S[k][i]
      <4>1. Adds(S[k], parts[k + 1], S[k + 1])
        BY <1>3, <3>1
      <4> QED
        BY <4>1 DEF Adds
    <3>3. Len(S[k]) \in Nat /\ Len(S[n]) \in Nat /\ Len(S[k + 1]) \in Nat
      BY <1>4, <3>1
    <3>4. CASE k >= n
      <4>1. Len(S[n]) <= Len(S[k]) /\ \A i \in 1 .. Len(S[n]) : S[k][i] = S[n][i]
        BY <2>2, <3>4
      <4>2. Len(S[n]) <= Len(S[k + 1])
        <5>1. PICK a \in Nat, b \in Nat, c \in Nat, d \in Nat :
                 a = Len(S[n]) /\ b = Len(S[k]) /\ c = Len(S[k + 1]) /\ d = Len(parts[k + 1])
          BY <3>2, <3>3
        <5>2. c = b + d /\ a <= b
          BY <3>2, <4>1, <5>1
        <5>3. a <= c
          BY <5>2
        <5> QED
          BY <5>1, <5>3
      <4>3. ASSUME NEW i \in 1 .. Len(S[n]) PROVE S[k + 1][i] = S[n][i]
        <5>1. i \in 1 .. Len(S[k])
          BY <3>3, <4>1
        <5> QED
          BY <3>2, <4>1, <5>1
      <4> QED
        BY <3>1, <4>2, <4>3
    <3>5. CASE ~ (k >= n)
      <4>1. k + 1 >= n => k + 1 = n
        BY <1>0, <3>5
      <4> QED
        BY <3>1, <3>3, <4>1
    <3> QED
      BY <3>4, <3>5
  <2>3. \A m \in 0 .. N : m \in T
    <3> HIDE DEF T
    <3> QED
      BY <1>0, <2>1, <2>2, UpTo
  <2>4. N \in T /\ N >= n
    BY <1>0, <2>3
  <2>5. \A m \in 0 .. N : n <= m => Len(S[n]) <= Len(S[m])
    BY <2>3
  <2> QED
    BY <2>4, <2>5
<1>6. ASSUME NEW n \in 1 .. N, NEW j \in 1 .. Len(parts[n])
      PROVE  S[N][Len(S[n - 1]) + j] = parts[n][j]
  <2>1. PICK s, t, u : s = S[n - 1] /\ t = parts[n] /\ u = S[n]
    OBVIOUS
  <2>2. Adds(s, t, u)
    BY <1>3, <2>1
  <2>3. PICK a \in Nat, b \in Nat, c \in Nat : a = Len(s) /\ b = Len(u) /\ c = Len(t) /\ b = a + c
    BY <2>2 DEF Adds
  <2>4. j \in 1 .. c /\ n \in 0 .. N
    BY <1>0, <2>1, <2>3
  <2>5. a + j \in 1 .. b
    BY <2>3, <2>4
  <2>6. S[N][a + j] = u[a + j]
    BY <1>5, <2>1, <2>3, <2>4, <2>5
  <2>7. u[a + j] = t[j]
    BY <2>2, <2>3, <2>4 DEF Adds
  <2> QED
    BY <2>1, <2>3, <2>6, <2>7
<1>7. ASSUME NEW x \in 1 .. Len(S[N])
      PROVE  \E n \in 1 .. N : \E j \in 1 .. Len(parts[n]) : x = Len(S[n - 1]) + j
  <2> DEFINE In(n) == \E j \in 1 .. Len(parts[n]) : x = Len(S[n - 1]) + j
             T == {m \in 0 .. N : x <= Len(S[m]) => \E n \in 1 .. N : In(n)}
  <2>0. x \in Nat /\ x >= 1
    BY <1>0, <1>4
  <2>1. 0 \in T
    <3>1. Len(S[0]) = 0
      BY <1>1
    <3> QED
      BY <1>0, <2>0, <3>1
  <2>2. ASSUME NEW k \in Nat, k < N, k \in T PROVE k + 1 \in T
    <3>1. k + 1 \in 1 .. N /\ (k + 1) - 1 = k /\ k + 1 \in 0 .. N /\ k \in 0 .. N
      BY <1>0, <2>2
    <3>2. /\ Len(S[k + 1]) = Len(S[k]) + Len(parts[k + 1]) /\ Len(parts[k + 1]) \in Nat
          /\ Len(S[k]) \in Nat /\ Len(S[k + 1]) \in Nat
      <4>1. Adds(S[k], parts[k + 1], S[k + 1])
        BY <1>3, <3>1
      <4> QED
        BY <4>1 DEF Adds
    <3>3. ASSUME x <= Len(S[k + 1]) PROVE \E n \in 1 .. N : In(n)
      <4>1. CASE x <= Len(S[k])
        BY <2>2, <4>1
      <4>2. CASE ~ (x <= Len(S[k]))
        <5>1. /\ x - Len(S[k]) \in 1 .. Len(parts[k + 1])
              /\ x = Len(S[k]) + (x - Len(S[k]))
          <6>1. PICK a \in Nat, b \in Nat, c \in Nat :
                   a = Len(S[k]) /\ b = Len(S[k + 1]) /\ c = Len(parts[k + 1])
            BY <3>2
          <6>2. b = a + c /\ x <= b /\ ~ (x <= a)
            BY <3>2, <3>3, <4>2, <6>1
          <6>3. x - a \in 1 .. c /\ x = a + (x - a)
            BY <2>0, <6>2
          <6> QED
            BY <6>1, <6>3
        <5>2. In(k + 1)
          BY <3>1, <5>1
        <5> QED
          BY <3>1, <5>2
      <4> QED
        BY <4>1, <4>2
    <3> HIDE DEF In
    <3> QED
      BY <3>1, <3>3
  <2>3. \A m \in 0 .. N : m \in T
    <3> HIDE DEF T
    <3> QED
      BY <1>0, <2>1, <2>2, UpTo
  <2>4. N \in T /\ x <= Len(S[N])
    BY <1>0, <1>4, <2>3
  <2> HIDE DEF In
  <2>5. \E n \in 1 .. N : In(n)
    BY <2>4
  <2> QED
    BY <2>5 DEF In
<1> QED
  BY <1>0, <1>2, <1>3, <1>4, <1>5, <1>6, <1>7 DEF Adds, Laid

-----------------------------------------------------------------------------
(* The reader of strip_comments, character by character.                   *)

(* The reader in code, a comment or a literal, and the same with the next  *)
(* character already consumed.                                             *)
In(at, depth, out) == [at |-> at, depth |-> depth, skip |-> FALSE, out |-> out]
Past(at, depth, out) == [at |-> at, depth |-> depth, skip |-> TRUE, out |-> out]
Code(out) == In("code", 0, out)

(* The second character of a delimiter is passed over.                     *)
LEMMA Skips ==
  ASSUME NEW a, NEW d, NEW o, NEW ch, NEW nx
  PROVE  ReadChar(Past(a, d, o), ch, nx) = In(a, d, o)
BY DEF ReadChar, In, Past

(* In code, a character that begins no comment or literal is copied.       *)
LEMMA InCode ==
  ASSUME NEW o, NEW ch, NEW nx
  PROVE  /\ ch \notin {"/", "-", "'"} => ReadChar(Code(o), ch, nx) = Code(Append(o, ch))
         /\ ReadChar(Code(o), "'", nx) = In("string", 0, Append(o, "'"))
         /\ ReadChar(Code(o), "-", "-") = Past("line", 0, Append(o, " "))
         /\ ReadChar(Code(o), "/", "*") = Past("block", 1, Append(o, " "))
BY DEF ReadChar, In, Past, Code

(* In a line comment, up to the end of the line.                           *)
LEMMA InLine ==
  ASSUME NEW o, NEW ch, NEW nx
  PROVE  /\ ch = "\n" => ReadChar(In("line", 0, o), ch, nx) = Code(Append(o, ch))
         /\ ch # "\n" => ReadChar(In("line", 0, o), ch, nx) = In("line", 0, o)
BY DEF ReadChar, In, Code

(* In a literal, up to its quote.                                          *)
LEMMA InString ==
  ASSUME NEW o, NEW ch, NEW nx
  PROVE  /\ ch # "'" => ReadChar(In("string", 0, o), ch, nx) = In("string", 0, Append(o, ch))
         /\ ch = "'" /\ nx # "'" => ReadChar(In("string", 0, o), ch, nx) = Code(Append(o, ch))
BY DEF ReadChar, In, Code

(* In a block comment, up or down with its delimiters.                     *)
LEMMA InBlock ==
  ASSUME NEW d \in Nat, NEW o, NEW ch, NEW nx
  PROVE  /\ ch = "/" /\ nx = "*" =>
              ReadChar(In("block", d, o), ch, nx) = Past("block", d + 1, o)
         /\ ch = "*" /\ nx = "/" /\ d # 1 =>
              ReadChar(In("block", d, o), ch, nx) = Past("block", d - 1, o)
         /\ ch = "*" /\ nx = "/" /\ d = 1 =>
              ReadChar(In("block", d, o), ch, nx) = Past("code", 0, o)
         /\ ~ (ch = "/" /\ nx = "*") /\ ~ (ch = "*" /\ nx = "/") =>
              ReadChar(In("block", d, o), ch, nx) = In("block", d, o)
<1>1. PICK s : s = In("block", d, o)
  OBVIOUS
<1>2. ~ s.skip /\ s.at = "block" /\ s.depth = d /\ s = In("block", d, o)
  BY <1>1 DEF In
<1>3. ReadChar(s, ch, nx) =
        IF ch = "/" /\ nx = "*" THEN [s EXCEPT !.depth = @ + 1, !.skip = TRUE]
        ELSE IF ch = "*" /\ nx = "/"
        THEN [s EXCEPT !.at = IF s.depth = 1 THEN "code" ELSE "block",
                       !.depth = @ - 1, !.skip = TRUE]
        ELSE s
  BY <1>2 DEF ReadChar
<1>4. ASSUME ch = "/", nx = "*" PROVE ReadChar(s, ch, nx) = Past("block", d + 1, o)
  BY <1>1, <1>3, <1>4 DEF In, Past
<1>a. ASSUME NEW a, NEW e
      PROVE  [s EXCEPT !.at = a, !.depth = e, !.skip = TRUE] = Past(a, e, o)
  <2>1. PICK s1 : s1 = [s EXCEPT !.skip = TRUE]
    OBVIOUS
  <2>2. PICK s2 : s2 = [s1 EXCEPT !.depth = e]
    OBVIOUS
  <2>3. s1 = Past("block", d, o)
    BY <1>1, <2>1 DEF In, Past
  <2>4. s2 = Past("block", e, o)
    BY <2>2, <2>3 DEF Past
  <2>5. [s2 EXCEPT !.at = a] = Past(a, e, o)
    <3>1. PICK b : b = TRUE
      OBVIOUS
    <3>2. s2 = [at |-> "block", depth |-> e, skip |-> b, out |-> o]
      BY <2>4, <3>1 DEF Past
    <3>3. [s2 EXCEPT !.at = a] = [at |-> a, depth |-> e, skip |-> b, out |-> o]
      BY <3>2
    <3> QED
      BY <3>1, <3>3 DEF Past
  <2>6. [s EXCEPT !.at = a, !.depth = e, !.skip = TRUE] = [s2 EXCEPT !.at = a]
    BY <1>1, <2>1, <2>2 DEF In
  <2> QED
    BY <2>5, <2>6
<1>b. ASSUME ch = "*", nx = "/"
      PROVE  ReadChar(s, ch, nx) = Past(IF d = 1 THEN "code" ELSE "block", d - 1, o)
  <2>1. PICK a, e : a = (IF d = 1 THEN "code" ELSE "block") /\ e = d - 1
    OBVIOUS
  <2>2. [s EXCEPT !.at = IF s.depth = 1 THEN "code" ELSE "block", !.depth = @ - 1, !.skip = TRUE]
        = [s EXCEPT !.at = a, !.depth = e, !.skip = TRUE]
    BY <1>2, <2>1
  <2>3. ~ (ch = "/")
    BY <1>b
  <2>4. ReadChar(s, ch, nx) = [s EXCEPT !.at = a, !.depth = e, !.skip = TRUE]
    BY <1>b, <1>3, <2>2, <2>3
  <2> QED
    BY <1>a, <2>1, <2>4
<1>5. ASSUME ch = "*", nx = "/", d # 1 PROVE ReadChar(s, ch, nx) = Past("block", d - 1, o)
  BY <1>b, <1>5
<1>6. ASSUME ch = "*", nx = "/", d = 1 PROVE ReadChar(s, ch, nx) = Past("code", 0, o)
  BY <1>b, <1>6
<1>7. ASSUME ~ (ch = "/" /\ nx = "*"), ~ (ch = "*" /\ nx = "/") PROVE ReadChar(s, ch, nx) = s
  BY <1>3, <1>7
<1> QED
  BY <1>1, <1>4, <1>5, <1>6, <1>7

-----------------------------------------------------------------------------
(* The pieces.                                                             *)

(* Q[j] is the state after j characters of the text, which nx follows.     *)
Reads(Q, text, nx) ==
  \A j \in 1 .. Len(text) :
    Q[j] = ReadChar(Q[j - 1], text[j], IF j < Len(text) THEN text[j + 1] ELSE nx)

(* A word, a blank or a semicolon.                                         *)
LEMMA CharRead ==
  ASSUME NEW ch, ch \notin {"/", "-", "'"}, NEW text, text = <<ch>>, NEW Q, NEW nx,
         Reads(Q, text, nx), NEW o, Q[0] = Code(o)
  PROVE  Q[1] = Code(Append(o, ch))
<1>1. Len(text) = 1 /\ text[1] = ch /\ 1 \in 1 .. 1 /\ 1 - 1 = 0 /\ ~ (1 < 1)
  OBVIOUS
<1>2. Q[1] = ReadChar(Q[0], ch, nx)
  BY <1>1 DEF Reads
<1> QED
  BY <1>2, InCode

(* A line comment is read as a blank and the end of its line.              *)
LEMMA LineRead ==
  ASSUME NEW text, LineComment(text), NEW Q, NEW nx, Reads(Q, text, nx), NEW o, Q[0] = Code(o)
  PROVE  Q[Len(text)] = Code(Append(Append(o, " "), "\n"))
<1>0. PICK n \in Nat : n = Len(text) /\ n >= 3
  BY DEF LineComment
<1>1. text[1] = "-" /\ text[2] = "-" /\ \A i \in 3 .. n : text[i] = "\n" <=> i = n
  BY <1>0 DEF LineComment
<1>2. \A j \in 1 .. n : Q[j] = ReadChar(Q[j - 1], text[j], IF j < n THEN text[j + 1] ELSE nx)
  BY <1>0 DEF Reads
<1>3. PICK p : p = Append(o, " ")
  OBVIOUS
<1>4. Q[1] = Past("line", 0, p)
  <2>1. 1 \in 1 .. n /\ 1 - 1 = 0 /\ 1 < n /\ 1 + 1 = 2
    BY <1>0
  <2>2. Q[1] = ReadChar(Q[0], "-", "-")
    BY <1>1, <1>2, <2>1
  <2> QED
    BY <1>3, <2>2, InCode
<1>5. Q[2] = In("line", 0, p)
  <2>1. 2 \in 1 .. n /\ 2 - 1 = 1
    BY <1>0
  <2>2. PICK x : Q[2] = ReadChar(Q[1], text[2], x)
    BY <1>2, <2>1
  <2> QED
    BY <1>4, <2>2, Skips
<1>6. ASSUME NEW j \in 3 .. n, Q[j - 1] = In("line", 0, p)
      PROVE  /\ j = n => Q[j] = Code(Append(p, "\n"))
             /\ j # n => Q[j] = In("line", 0, p)
  <2>1. j \in 1 .. n
    BY <1>0
  <2>2. PICK x : Q[j] = ReadChar(In("line", 0, p), text[j], x)
    BY <1>2, <1>6, <2>1
  <2>3. text[j] = "\n" <=> j = n
    BY <1>1
  <2> QED
    BY <2>2, <2>3, InLine
<1> DEFINE T == {k \in Nat : Q[k] = In("line", 0, p)}
<1>7. 2 \in T
  BY <1>5
<1>8. ASSUME NEW k \in Nat, 2 <= k, k < n - 1, k \in T PROVE k + 1 \in T
  <2>1. k + 1 \in 3 .. n /\ (k + 1) - 1 = k /\ k + 1 # n
    BY <1>0, <1>8
  <2>2. Q[k] = In("line", 0, p)
    BY <1>8
  <2>3. Q[k + 1] = In("line", 0, p)
    BY <1>6, <2>1, <2>2
  <2> QED
    BY <2>3
<1>9. n - 1 \in T
  <2> HIDE DEF T
  <2>1. n - 1 \in Nat /\ n - 1 \in 2 .. n - 1
    BY <1>0
  <2>2. \A k \in 2 .. n - 1 : k \in T
    BY <1>7, <1>8, <2>1, From
  <2> QED
    BY <2>1, <2>2
<1>10. Q[n - 1] = In("line", 0, p)
  BY <1>9
<1>11. n \in 3 .. n
  BY <1>0
<1>12. Q[n] = Code(Append(p, "\n"))
  BY <1>6, <1>10, <1>11
<1> QED
  BY <1>0, <1>3, <1>12

(* o and the first k of t, which grows with k to o and t.                  *)
With(o, t, k) == Cat(o, SubSeq(t, 1, k))

Grows(o, t) ==
  /\ With(o, t, 0) = o /\ With(o, t, Len(t)) = Cat(o, t)
  /\ \A k \in 0 .. Len(t) - 1 : Append(With(o, t, k), t[k + 1]) = With(o, t, k + 1)

(* The beginnings of a sequence.                                           *)
LEMMA Beginnings ==
  ASSUME NEW C, NEW o \in Seq(C), NEW t \in Seq(C)
  PROVE  Grows(o, t)
BY DEF Grows, With, Cat

(* One sequence after another.                                             *)
LEMMA CatAdds ==
  ASSUME NEW C, NEW s \in Seq(C), NEW t \in Seq(C)
  PROVE  Cat(s, t) \in Seq(C) /\ Adds(s, t, Cat(s, t))
BY DEF Adds, Cat

(* The characters of a literal.                                            *)
LEMMA LiteralText ==
  ASSUME NEW C, "'" \in C, NEW body \in Seq(C), NEW text, text = <<"'">> \o body \o <<"'">>
  PROVE  /\ text \in Seq(C) /\ Len(text) = Len(body) + 2
         /\ text[1] = "'" /\ text[Len(body) + 2] = "'"
         /\ \A i \in 1 .. Len(body) : text[i + 1] = body[i]
<1>1. PICK q : q = "'"
  OBVIOUS
<1>2. PICK s : s = <<q>>
  OBVIOUS
<1>3. s \in Seq(C) /\ Len(s) = 1 /\ s[1] = q
  BY <1>1, <1>2
<1>4. PICK u : u = s \o body
  OBVIOUS
<1>5. u \in Seq(C) /\ Adds(s, body, u)
  <2>1. u = Cat(s, body)
    BY <1>4 DEF Cat
  <2> QED
    BY <1>3, <2>1, CatAdds, Zenon
<1>6. text = u \o s
  BY <1>1, <1>2, <1>4
<1>7. text \in Seq(C) /\ Adds(u, s, text)
  <2>1. text = Cat(u, s)
    BY <1>6 DEF Cat
  <2> QED
    BY <1>3, <1>5, <2>1, CatAdds, Zenon
<1>8. PICK m \in Nat : m = Len(body)
  OBVIOUS
<1>9. Len(u) = m + 1 /\ u[1] = q /\ \A i \in 1 .. m : u[1 + i] = body[i]
  BY <1>3, <1>5, <1>8 DEF Adds
<1>10. Len(text) = (m + 1) + 1 /\ text[(m + 1) + 1] = s[1] /\ \A i \in 1 .. m + 1 : text[i] = u[i]
  BY <1>3, <1>7, <1>8, <1>9 DEF Adds
<1>11. /\ (m + 1) + 1 = m + 2 /\ 1 \in 1 .. m + 1
       /\ \A i \in 1 .. m : i + 1 \in 1 .. m + 1 /\ i + 1 = 1 + i
  BY <1>8
<1>12. text[1] = q /\ text[m + 2] = q /\ \A i \in 1 .. m : text[i + 1] = body[i]
  BY <1>3, <1>9, <1>10, <1>11
<1> QED
  BY <1>1, <1>7, <1>8, <1>10, <1>11, <1>12

(* A literal without a quote in it is copied, if no quote follows it.      *)
LEMMA LiteralRead ==
  ASSUME NEW C, "'" \in C, NEW body \in Seq(C), NEW text, text = <<"'">> \o body \o <<"'">>,
         \A i \in 1 .. Len(body) : body[i] # "'",
         NEW Q, NEW nx, nx # "'", Reads(Q, text, nx), NEW o \in Seq(C), Q[0] = Code(o)
  PROVE  Q[Len(text)] = Code(Cat(o, text))
<1>0. PICK m \in Nat, n \in Nat : m = Len(body) /\ n = Len(text) /\ n = m + 2
  BY LiteralText
<1>1. /\ text \in Seq(C) /\ text[1] = "'" /\ text[n] = "'"
      /\ \A i \in 2 .. n - 1 : text[i] # "'"
  <2>1. text \in Seq(C) /\ text[1] = "'" /\ text[n] = "'"
    BY <1>0, LiteralText
  <2>2. ASSUME NEW i \in 2 .. n - 1 PROVE text[i] # "'"
    <3>1. i - 1 \in 1 .. m /\ (i - 1) + 1 = i
      BY <1>0
    <3>2. text[(i - 1) + 1] = body[i - 1] /\ body[i - 1] # "'"
      BY <1>0, <3>1, LiteralText
    <3> QED
      BY <3>1, <3>2
  <2> QED
    BY <2>1, <2>2
<1>2. \A j \in 1 .. n : Q[j] = ReadChar(Q[j - 1], text[j], IF j < n THEN text[j + 1] ELSE nx)
  BY <1>0 DEF Reads
<1> DEFINE P(k) == With(o, text, k)
<1>3. /\ P(0) = o /\ P(n) = Cat(o, text)
      /\ \A k \in 0 .. n - 1 : Append(P(k), text[k + 1]) = P(k + 1)
  <2>1. text \in Seq(C) /\ n = Len(text)
    BY <1>0, <1>1
  <2>2. Grows(o, text)
    BY <2>1, Beginnings, Zenon
  <2> QED
    BY <2>1, <2>2 DEF Grows
<1> HIDE DEF P
<1>4. Q[1] = In("string", 0, P(1))
  <2>1. 1 \in 1 .. n /\ 1 - 1 = 0 /\ 0 \in 0 .. n - 1 /\ 0 + 1 = 1
    BY <1>0
  <2>2. PICK x : Q[1] = ReadChar(Q[0], "'", x)
    BY <1>1, <1>2, <2>1
  <2>3. Q[1] = In("string", 0, Append(o, "'"))
    BY <2>2, InCode
  <2>4. Append(o, "'") = P(1)
    BY <1>1, <1>3, <2>1
  <2> QED
    BY <2>3, <2>4
<1>5. ASSUME NEW k \in 1 .. n - 1, Q[k] = In("string", 0, P(k))
      PROVE  /\ k + 1 = n => Q[k + 1] = Code(P(k + 1))
             /\ k + 1 # n => Q[k + 1] = In("string", 0, P(k + 1))
  <2>1. k + 1 \in 1 .. n /\ (k + 1) - 1 = k /\ k \in 0 .. n - 1 /\ k + 1 \in 2 .. n
    BY <1>0
  <2>2. PICK x : x = IF k + 1 < n THEN text[(k + 1) + 1] ELSE nx
    OBVIOUS
  <2>3. PICK ch : ch = text[k + 1]
    OBVIOUS
  <2>4. Q[k + 1] = ReadChar(In("string", 0, P(k)), ch, x)
    BY <1>2, <1>5, <2>1, <2>2, <2>3
  <2>5. Append(P(k), ch) = P(k + 1)
    BY <1>3, <2>1, <2>3
  <2>6. CASE k + 1 = n
    <3>1. ch = "'" /\ x = nx
      BY <1>0, <1>1, <2>2, <2>3, <2>6
    <3> QED
      BY <2>4, <2>5, <2>6, <3>1, InString
  <2>7. CASE k + 1 # n
    <3>1. ch # "'"
      BY <1>0, <1>1, <2>1, <2>3, <2>7
    <3> QED
      BY <2>4, <2>5, <2>7, <3>1, InString
  <2> QED
    BY <2>6, <2>7
<1> DEFINE T == {k \in Nat : Q[k] = In("string", 0, P(k))}
<1>6. 1 \in T
  BY <1>4
<1>7. ASSUME NEW k \in Nat, 1 <= k, k < n - 1, k \in T PROVE k + 1 \in T
  <2>1. k \in 1 .. n - 1 /\ k + 1 # n /\ Q[k] = In("string", 0, P(k))
    BY <1>0, <1>7
  <2>2. Q[k + 1] = In("string", 0, P(k + 1))
    BY <1>5, <2>1
  <2> QED
    BY <2>2
<1>8. n - 1 \in T
  <2> HIDE DEF T
  <2>1. n - 1 \in Nat /\ n - 1 \in 1 .. n - 1
    BY <1>0
  <2>2. \A k \in 1 .. n - 1 : k \in T
    BY <1>6, <1>7, <2>1, From
  <2> QED
    BY <2>1, <2>2
<1>9. Q[n - 1] = In("string", 0, P(n - 1)) /\ n - 1 \in 1 .. n - 1 /\ (n - 1) + 1 = n
  BY <1>0, <1>8
<1>10. Q[n] = Code(P(n))
  BY <1>5, <1>9
<1> QED
  BY <1>0, <1>3, <1>10

(* How many members of S are at most k.                                    *)
Count(S, k) == Cardinality(S \cap (1 .. k))

(* The members of a set up to k, counted one number at a time.             *)
LEMMA Counting ==
  ASSUME NEW S, NEW k \in Nat
  PROVE  /\ Count(S, 0) = 0 /\ Count(S, k) \in Nat
         /\ k + 1 \in S => Count(S, k + 1) = Count(S, k) + 1
         /\ k + 1 \notin S => Count(S, k + 1) = Count(S, k)
<1> DEFINE T == S \cap (1 .. k)
           U == S \cap (1 .. k + 1)
<1>1. IsFiniteSet(T)
  <2>1. IsFiniteSet(1 .. k) /\ T \subseteq 1 .. k
    BY FS_Interval
  <2> QED
    BY <2>1, FS_Subset, Zenon
<1>2. S \cap (1 .. 0) = {}
  OBVIOUS
<1>3. Count(S, 0) = 0
  BY <1>2, FS_EmptySet, Zenon DEF Count
<1>4. Count(S, k) \in Nat
  BY <1>1, FS_CardinalityType, Zenon DEF Count
<1>5. ASSUME k + 1 \in S PROVE Count(S, k + 1) = Count(S, k) + 1
  <2>1. U = T \cup {k + 1} /\ k + 1 \notin T
    BY <1>5
  <2>2. Cardinality(T \cup {k + 1}) = Cardinality(T) + 1
    BY <1>1, <2>1, FS_AddElement, Zenon
  <2> QED
    BY <2>1, <2>2, Zenon DEF Count
<1>6. ASSUME k + 1 \notin S PROVE Count(S, k + 1) = Count(S, k)
  <2>1. U = T
    BY <1>6
  <2> QED
    BY <2>1, Zenon DEF Count
<1> QED
  BY <1>3, <1>4, <1>5, <1>6

(* A block comment is read as one blank, whatever is nested in it.         *)
LEMMA BlockRead ==
  ASSUME NEW text, Len(text) \in Nat,
         NEW opens \in SUBSET Opening(text), NEW closes \in SUBSET Closing(text),
         Nested(text, opens, closes),
         NEW Q, NEW nx, Reads(Q, text, nx), NEW o, Q[0] = Code(o)
  PROVE  Q[Len(text)] = Code(Append(o, " "))
<1>0. PICK n \in Nat : n = Len(text)
  OBVIOUS
<1>p. PICK p : p = Append(o, " ")
  OBVIOUS
<1>r. \A j \in 1 .. n : Q[j] = ReadChar(Q[j - 1], text[j], IF j < n THEN text[j + 1] ELSE nx)
  BY <1>0 DEF Reads
<1>o. \A i \in opens : i \in 1 .. n - 1 /\ text[i] = "/" /\ text[i + 1] = "*"
  BY <1>0 DEF Opening
<1>c. \A i \in closes : i \in 1 .. n - 1 /\ text[i] = "*" /\ text[i + 1] = "/"
  BY <1>0 DEF Closing
<1>d. \A i \in opens : i \notin closes
  BY <1>o, <1>c
<1>l. /\ 1 \in opens /\ n - 1 \in closes
      /\ \A i \in 1 .. n - 2 : Count(closes, i) < Count(opens, i)
      /\ Cardinality(closes) = Cardinality(opens)
  BY <1>0 DEF Nested, Count
<1>m. ASSUME NEW i \in 1 .. n - 1, i \in Opening(text) \cup Closing(text)
      PROVE  i \notin opens \cup closes <=> i - 1 \in opens \cup closes
  BY <1>m DEF Nested
<1>k. \A i \in 1 .. n - 1 :
        /\ i \in Opening(text) <=> text[i] = "/" /\ text[i + 1] = "*"
        /\ i \in Closing(text) <=> text[i] = "*" /\ text[i + 1] = "/"
  BY <1>0 DEF Opening, Closing
<1>n. n >= 4
  <2>1. n - 1 # 1 /\ n - 1 >= 1
    BY <1>c, <1>d, <1>l
  <2>2. CASE n = 3
    <3>1. 2 \in closes /\ 2 \in 1 .. n - 1 /\ 2 - 1 = 1
      BY <1>l, <2>2
    <3> QED
      BY <1>l, <1>m, <3>1
  <2> QED
    BY <2>1, <2>2
<1> DEFINE D(i) == Count(opens, i) - Count(closes, i)
<1>t. \A i \in Nat : Count(opens, i) \in Nat /\ Count(closes, i) \in Nat /\ D(i) \in Int
  BY Counting
<1>e. ASSUME NEW i \in Nat
      PROVE  /\ i + 1 \in opens => D(i + 1) = D(i) + 1
             /\ i + 1 \in closes => D(i + 1) = D(i) - 1
             /\ i + 1 \notin opens \cup closes => D(i + 1) = D(i)
  <2>1. i + 1 \in Nat
    OBVIOUS
  <2>2. PICK a \in Nat, b \in Nat, a1 \in Nat, b1 \in Nat :
          /\ a = Count(opens, i) /\ b = Count(closes, i)
          /\ a1 = Count(opens, i + 1) /\ b1 = Count(closes, i + 1)
    BY <1>t, <2>1
  <2>3. /\ i + 1 \in opens => a1 = a + 1
        /\ i + 1 \notin opens => a1 = a
        /\ i + 1 \in closes => b1 = b + 1
        /\ i + 1 \notin closes => b1 = b
    BY <2>2, Counting
  <2>4. D(i) = a - b /\ D(i + 1) = a1 - b1
    BY <2>2
  <2> HIDE DEF D
  <2> QED
    BY <1>d, <2>3, <2>4
<1>z. D(0) = 0 /\ D(n - 1) = 0
  <2>1. Count(opens, 0) = 0 /\ Count(closes, 0) = 0
    BY Counting, Zenon
  <2>2. opens \cap (1 .. n - 1) = opens /\ closes \cap (1 .. n - 1) = closes
    BY <1>o, <1>c
  <2>3. Count(opens, n - 1) = Count(closes, n - 1)
    BY <1>l, <2>2, Zenon DEF Count
  <2>4. n - 1 \in Nat
    BY <1>n
  <2>5. \A a \in Nat : a - a = 0
    OBVIOUS
  <2> QED
    BY <1>t, <2>1, <2>3, <2>4, <2>5
<1>g. \A i \in 1 .. n - 2 : D(i) \in Nat /\ D(i) >= 1
  <2>1. ASSUME NEW i \in 1 .. n - 2 PROVE D(i) \in Nat /\ D(i) >= 1
    <3>0. i \in Nat
      OBVIOUS
    <3>1. PICK a \in Nat, b \in Nat : a = Count(opens, i) /\ b = Count(closes, i)
      BY <1>t, <3>0
    <3>2. b < a
      BY <1>l, <3>1
    <3>3. a - b \in Nat /\ a - b >= 1
      BY <3>2
    <3> QED
      BY <3>1, <3>3
  <2> QED
    BY <2>1
<1> HIDE DEF D
<1> DEFINE Seen(i) == /\ i \in opens \cup closes => Q[i] = Past("block", D(i), p)
                      /\ i \notin opens \cup closes => Q[i] = In("block", D(i), p)
<1>1. Seen(1)
  <2>1. 1 \in 1 .. n /\ 1 - 1 = 0 /\ 1 < n /\ 1 + 1 = 2 /\ 0 + 1 = 1
    BY <1>n
  <2>2. text[1] = "/" /\ text[2] = "*"
    BY <1>l, <1>o, <2>1
  <2>3. Q[1] = ReadChar(Q[0], "/", "*")
    BY <1>r, <2>1, <2>2
  <2>4. Q[1] = Past("block", 1, p)
    BY <1>p, <2>3, InCode
  <2>5. D(1) = 1
    BY <1>e, <1>l, <1>z, <2>1
  <2> QED
    BY <1>l, <2>4, <2>5
<1>2. ASSUME NEW i \in Nat, 1 <= i, i < n - 2, Seen(i) PROVE Seen(i + 1)
  <2>1. /\ i + 1 \in 1 .. n - 1 /\ i + 1 \in 1 .. n /\ (i + 1) - 1 = i /\ i + 1 < n
        /\ i \in 1 .. n - 2 /\ i + 1 \in 1 .. n - 2
    BY <1>n, <1>2
  <2>2. PICK ch, x : ch = text[i + 1] /\ x = text[(i + 1) + 1]
    OBVIOUS
  <2>3. Q[i + 1] = ReadChar(Q[i], ch, x)
    BY <1>r, <2>1, <2>2
  <2>4. PICK d \in Nat, e \in Nat : d = D(i) /\ e = D(i + 1) /\ d >= 1 /\ e >= 1
    BY <1>g, <2>1
  <2>5. CASE i \in opens \cup closes
    <3>1. Q[i + 1] = In("block", d, p)
      BY <1>2, <2>3, <2>4, <2>5, Skips
    <3>2. i + 1 \notin opens \cup closes
      <4>1. i + 1 \in opens \cup closes => i + 1 \in Opening(text) \cup Closing(text)
        OBVIOUS
      <4> QED
        BY <1>m, <2>1, <2>5, <4>1
    <3>3. e = d
      BY <1>e, <2>4, <3>2
    <3> QED
      BY <2>4, <3>1, <3>2, <3>3
  <2>6. CASE i \notin opens \cup closes
    <3>0. Q[i] = In("block", d, p)
      BY <1>2, <2>4, <2>6
    <3>1. CASE i + 1 \in opens
      <4>1. ch = "/" /\ x = "*" /\ e = d + 1
        BY <1>e, <1>o, <2>2, <2>4, <3>1
      <4>2. Q[i + 1] = Past("block", d + 1, p)
        BY <2>3, <3>0, <4>1, InBlock
      <4> QED
        BY <2>4, <3>1, <4>1, <4>2
    <3>2. CASE i + 1 \in closes
      <4>1. ch = "*" /\ x = "/" /\ e = d - 1
        BY <1>e, <1>c, <2>2, <2>4, <3>2
      <4>2. d # 1
        BY <2>4, <4>1
      <4>3. Q[i + 1] = Past("block", d - 1, p)
        BY <2>3, <3>0, <4>1, <4>2, InBlock
      <4> QED
        BY <2>4, <3>2, <4>1, <4>3
    <3>3. CASE i + 1 \notin opens \cup closes
      <4>1. ~ (ch = "/" /\ x = "*") /\ ~ (ch = "*" /\ x = "/")
        BY <1>k, <1>m, <2>1, <2>2, <2>6, <3>3
      <4>2. e = d
        BY <1>e, <2>4, <3>3
      <4>3. Q[i + 1] = In("block", d, p)
        BY <2>3, <3>0, <4>1, InBlock
      <4> QED
        BY <2>4, <3>3, <4>2, <4>3
    <3> QED
      BY <3>1, <3>2, <3>3
  <2> QED
    BY <2>5, <2>6
<1>3. Seen(n - 2)
  <2> DEFINE T == {i \in Nat : Seen(i)}
  <2> HIDE DEF Seen
  <2>1. 1 \in T
    BY <1>1
  <2>2. \A i \in Nat : 1 <= i /\ i < n - 2 /\ i \in T => i + 1 \in T
    BY <1>2
  <2>3. n - 2 \in Nat /\ n - 2 \in 1 .. n - 2
    BY <1>n
  <2>4. n - 2 \in T
    <3> HIDE DEF T
    <3>1. \A i \in 1 .. n - 2 : i \in T
      BY <2>1, <2>2, <2>3, From
    <3> QED
      BY <2>3, <3>1
  <2> QED
    BY <2>4
<1>4. /\ n - 1 \in 1 .. n - 1 /\ n - 1 \in 1 .. n /\ (n - 1) - 1 = n - 2 /\ n - 1 < n
      /\ n - 2 \in Nat /\ (n - 2) + 1 = n - 1 /\ n - 2 \in 1 .. n - 2
  BY <1>n
<1>5. n - 2 \notin opens \cup closes
  <2>1. n - 1 \in Opening(text) \cup Closing(text)
    BY <1>l
  <2> QED
    BY <1>l, <1>m, <1>4, <2>1
<1>6. D(n - 2) = 1
  <2>1. PICK d \in Nat : d = D(n - 2)
    BY <1>g, <1>4
  <2>2. D(n - 1) = d - 1
    BY <1>e, <1>l, <1>4, <2>1
  <2> QED
    BY <1>z, <2>1, <2>2
<1>7. Q[n - 2] = In("block", 1, p)
  BY <1>3, <1>5, <1>6
<1>8. Q[n - 1] = Past("code", 0, p)
  <2>1. text[n - 1] = "*" /\ text[(n - 1) + 1] = "/"
    BY <1>c, <1>l
  <2>2. Q[n - 1] = ReadChar(Q[n - 2], "*", "/")
    BY <1>r, <1>4, <2>1
  <2> QED
    BY <1>7, <2>2, InBlock
<1>9. Q[n] = In("code", 0, p)
  <2>1. n \in 1 .. n
    BY <1>n
  <2>2. PICK x : Q[n] = ReadChar(Q[n - 1], text[n], x)
    BY <1>r, <2>1
  <2> QED
    BY <1>8, <2>2, Skips
<1> QED
  BY <1>0, <1>p, <1>9 DEF Code

(* What strip_comments makes of a piece.                                   *)
Shown(x) ==
  IF x.kind # "comment" THEN x.text
  ELSE IF LineComment(x.text) THEN <<" ", "\n">> ELSE <<" ">>

(* A piece of each kind.                                                   *)
IsLexed(x) ==
  \/ x.kind = "verb" /\ x.text = <<"V">>
  \/ x.kind = "word" /\ x.text = <<"w">>
  \/ x.kind = "paren" /\ x.text = <<"(">>
  \/ x.kind = "semicolon" /\ x.text = <<";">>
  \/ x.kind = "blank" /\ \E ch \in Blank : x.text = <<ch>>
  \/ x.kind = "comment" /\ (LineComment(x.text) \/ BlockComment(x.text))
  \/ x.kind = "literal" /\ x.body \in Seq(Chars) /\ x.text = <<"'">> \o x.body \o <<"'">>

(* Every piece is one of them.                                             *)
LEMMA Lexed ==
  ASSUME NEW x \in Pieces
  PROVE  IsLexed(x)
BY PiecesAreLexed, Zenon DEF IsLexed

(* The characters that matter are characters.                              *)
LEMMA SomeChars == {"V", "w", "(", ";", " ", "\n", "'"} \subseteq Chars
BY CharsAssumption DEF Blank

(* A sequence of one character.                                            *)
LEMMA Single ==
  ASSUME NEW C, NEW ch \in C, NEW t, t = <<ch>>
  PROVE  t \in Seq(C) /\ Len(t) = 1 /\ t[1] = ch /\ \A j \in 1 .. Len(t) : j = 1
OBVIOUS

(* The same with two characters.                                           *)
LEMMA Pair ==
  ASSUME NEW C, NEW ch \in C, NEW dh \in C, NEW t, t = <<ch, dh>>
  PROVE  /\ t \in Seq(C) /\ Len(t) = 2 /\ Len(t) >= 1 /\ t[1] = ch /\ t[2] = dh
         /\ \A j \in 1 .. Len(t) : j = 1 \/ j = 2
OBVIOUS

(* What the text of a piece tells about its kind.                          *)
Telling(x) ==
  /\ x.text \in Seq(Chars) /\ Len(x.text) >= 1
  /\ x.text[1] = "'" => x.kind = "literal"

(* A piece begins with a quote only if it is a literal.                    *)
LEMMA TextTells ==
  ASSUME NEW x, IsLexed(x)
  PROVE  Telling(x)
<1>0. PICK t, k : t = x.text /\ k = x.kind
  OBVIOUS
<1>1. ASSUME NEW ch \in Chars, ch # "'", t = <<ch>> PROVE Telling(x)
  <2>1. t \in Seq(Chars) /\ Len(t) = 1 /\ t[1] = ch
    BY <1>1
  <2> QED
    BY <1>0, <1>1, <2>1 DEF Telling
<1>2. ASSUME k \in {"verb", "word", "paren", "semicolon", "blank"} PROVE Telling(x)
  <2>1. \E ch \in {"V", "w", "(", ";", " ", "\n"} : t = <<ch>>
    BY <1>0, <1>2 DEF IsLexed, Blank
  <2>2. PICK ch \in {"V", "w", "(", ";", " ", "\n"} : t = <<ch>>
    BY <2>1, Zenon
  <2>3. ch \in Chars /\ ch # "'"
    BY SomeChars
  <2> QED
    BY <1>1, <2>2, <2>3
<1>3. ASSUME LineComment(t) PROVE Telling(x)
  <2>1. t \in Seq(Chars)
    BY <1>3, Zenon DEF LineComment
  <2>2. Len(t) >= 3 /\ t[1] = "-"
    BY <1>3, Zenon DEF LineComment
  <2>3. Len(t) >= 1
    BY <2>1, <2>2
  <2> QED
    BY <1>0, <2>1, <2>2, <2>3 DEF Telling
<1>4. ASSUME BlockComment(t) PROVE Telling(x)
  <2>1. t \in Seq(Chars)
    BY <1>4, Zenon DEF BlockComment
  <2>2. PICK opens \in SUBSET Opening(t), closes \in SUBSET Closing(t) : Nested(t, opens, closes)
    BY <1>4, Zenon DEF BlockComment
  <2>3. 1 \in Opening(t)
    BY <2>2, Zenon DEF Nested
  <2>4. t[1] = "/" /\ Len(t) >= 1
    BY <2>1, <2>3 DEF Opening
  <2> QED
    BY <1>0, <2>1, <2>4 DEF Telling
<1>5. ASSUME k = "literal" PROVE Telling(x)
  <2>1. x.body \in Seq(Chars) /\ t = <<"'">> \o x.body \o <<"'">>
    BY <1>0, <1>5 DEF IsLexed
  <2>2. "'" \in Chars
    BY SomeChars
  <2>3. t \in Seq(Chars) /\ Len(t) = Len(x.body) + 2
    BY <2>1, <2>2, LiteralText
  <2>4. Len(t) >= 1
    BY <2>1, <2>3
  <2> QED
    BY <1>0, <1>5, <2>3, <2>4 DEF Telling
<1>6. k \in {"verb", "word", "paren", "semicolon", "blank", "literal"} \/ LineComment(t) \/ BlockComment(t)
  BY <1>0, Zenon DEF IsLexed
<1> QED
  BY <1>2, <1>3, <1>4, <1>5, <1>6

(* What a piece is shown as, and what that tells about its kind.           *)
Shows(x) ==
  /\ Shown(x) \in Seq(Chars) /\ Len(Shown(x)) >= 1
  /\ x.kind = "verb" => Len(Shown(x)) = 1 /\ Shown(x)[1] = "V"
  /\ x.kind = "semicolon" => Len(Shown(x)) = 1 /\ Shown(x)[1] = ";"
  /\ x.kind \in Blanks => \A j \in 1 .. Len(Shown(x)) : Shown(x)[j] \in Blank
  /\ x.kind = "literal" =>
       /\ Shown(x)[1] = "'"
       /\ \A j \in 2 .. Len(Shown(x)) : Shown(x)[j] = "'" \/ Shown(x)[j] \in ToSet(x.body)
  /\ Shown(x)[1] \in Blank => x.kind \in Blanks
  /\ \A j \in 1 .. Len(Shown(x)) : /\ Shown(x)[j] = "V" => x.kind \in {"verb", "literal"}
                                   /\ Shown(x)[j] = ";" => x.kind \in {"semicolon", "literal"}

(* Only comments and blanks are shown as blanks, and so on.                *)
LEMMA ShownTells ==
  ASSUME NEW x, IsLexed(x)
  PROVE  Shows(x)
<1>0. PICK t, k : t = Shown(x) /\ k = x.kind
  OBVIOUS
<1>1. ASSUME NEW ch \in Chars, t = <<ch>>, k # "literal",
             k = "verb" <=> ch = "V", k = "semicolon" <=> ch = ";", k \in Blanks <=> ch \in Blank
      PROVE  Shows(x)
  <2>1. t \in Seq(Chars) /\ Len(t) = 1 /\ t[1] = ch /\ \A j \in 1 .. Len(t) : j = 1
    BY <1>1, Single, Zenon
  <2>2. Len(t) >= 1
    BY <2>1
  <2> QED
    BY <1>0, <1>1, <2>1, <2>2 DEF Shows
<1>2. ASSUME k \in {"verb", "word", "paren", "semicolon", "blank"} PROVE Shows(x)
  <2>1. t = x.text
    BY <1>0, <1>2 DEF Shown
  <2>2. \E ch \in {"V", "w", "(", ";", " ", "\n"} :
          /\ t = <<ch>>
          /\ k = "verb" <=> ch = "V"
          /\ k = "semicolon" <=> ch = ";"
          /\ k \in Blanks <=> ch \in Blank
    BY <1>0, <1>2, <2>1 DEF IsLexed, Blank, Blanks
  <2>3. PICK ch \in {"V", "w", "(", ";", " ", "\n"} :
          /\ t = <<ch>>
          /\ k = "verb" <=> ch = "V"
          /\ k = "semicolon" <=> ch = ";"
          /\ k \in Blanks <=> ch \in Blank
    BY <2>2, Zenon
  <2>4. ch \in Chars /\ k # "literal"
    BY <1>2, SomeChars
  <2> QED
    BY <1>1, <2>3, <2>4
<1>3. ASSUME k = "comment" PROVE Shows(x)
  <2>1. t = <<" ", "\n">> \/ t = <<" ">>
    BY <1>0, <1>3 DEF Shown
  <2>2. CASE t = <<" ">>
    <3>1. /\ " " \in Chars /\ k # "literal" /\ k # "verb" /\ k # "semicolon" /\ k \in Blanks
          /\ " " # "V" /\ " " # ";" /\ " " \in Blank
      BY <1>3, SomeChars DEF Blanks, Blank
    <3> QED
      BY <1>1, <2>2, <3>1
  <2>3. CASE t = <<" ", "\n">>
    <3>1. " " \in Chars /\ "\n" \in Chars
      BY SomeChars
    <3>2. /\ t \in Seq(Chars) /\ Len(t) = 2 /\ Len(t) >= 1 /\ t[1] = " " /\ t[2] = "\n"
          /\ \A j \in 1 .. Len(t) : j = 1 \/ j = 2
      BY <2>3, <3>1, Pair, Zenon
    <3>3. \A j \in 1 .. Len(t) : t[j] \in Blank /\ t[j] # "V" /\ t[j] # ";"
      BY <3>2 DEF Blank
    <3> QED
      BY <1>0, <1>3, <3>2, <3>3 DEF Shows, Blanks
  <2> QED
    BY <2>1, <2>2, <2>3
<1>4. ASSUME k = "literal" PROVE Shows(x)
  <2>0. PICK b : b = x.body
    OBVIOUS
  <2>1. b \in Seq(Chars) /\ t = <<"'">> \o b \o <<"'">>
    BY <1>0, <1>4, <2>0 DEF IsLexed, Shown
  <2>2. "'" \in Chars
    BY SomeChars
  <2>3. PICK m \in Nat : m = Len(b)
    BY <2>1
  <2>4. /\ t \in Seq(Chars) /\ Len(t) = m + 2 /\ t[1] = "'" /\ t[m + 2] = "'"
        /\ \A i \in 1 .. m : t[i + 1] = b[i]
    BY <2>1, <2>2, <2>3, LiteralText
  <2>5. ASSUME NEW j \in 2 .. Len(t) PROVE t[j] = "'" \/ t[j] \in ToSet(b)
    <3>1. j = m + 2 \/ (j - 1 \in 1 .. m /\ (j - 1) + 1 = j)
      BY <2>4
    <3>2. \A i \in 1 .. m : b[i] \in ToSet(b)
      <4>1. DOMAIN b = 1 .. m
        BY <2>1, <2>3
      <4> QED
        BY <4>1, Zenon DEF ToSet
    <3> QED
      BY <2>4, <3>1, <3>2
  <2>6. Len(t) >= 1
    BY <2>4
  <2>7. k \notin Blanks /\ "'" \notin Blank
    BY <1>4 DEF Blanks, Blank
  <2> QED
    BY <1>0, <1>4, <2>0, <2>4, <2>5, <2>6, <2>7 DEF Shows
<1>5. k \in {"verb", "word", "paren", "semicolon", "blank", "literal", "comment"}
  BY <1>0 DEF IsLexed
<1> QED
  BY <1>2, <1>3, <1>4, <1>5

(* One character after a sequence.                                         *)
LEMMA CatChar ==
  ASSUME NEW C, NEW o \in Seq(C), NEW c \in C
  PROVE  Cat(o, <<c>>) = Append(o, c)
BY DEF Cat

(* No literal with a quote in it or after it.                              *)
Free(x, nx) == x.kind = "literal" => nx # "'" /\ "'" \notin ToSet(x.body)

(* A piece is read as what it is shown as, unless it is a literal with a   *)
(* quote in it or after it.                                                *)
LEMMA PieceRead ==
  ASSUME NEW x, IsLexed(x), NEW Q, NEW nx, NEW o \in Seq(Chars), Q[0] = Code(o),
         NEW text, text = x.text, Reads(Q, text, nx),
         Free(x, nx)
  PROVE  Q[Len(text)] = Code(Cat(o, Shown(x)))
<1>0. PICK k, b : k = x.kind /\ b = x.body
  OBVIOUS
<1>1. ASSUME k \in {"verb", "word", "paren", "semicolon", "blank"}
      PROVE  Q[Len(text)] = Code(Cat(o, Shown(x)))
  <2>1. \E ch \in {"V", "w", "(", ";", " ", "\n"} : text = <<ch>>
    BY <1>0, <1>1 DEF IsLexed, Blank
  <2>2. PICK ch \in {"V", "w", "(", ";", " ", "\n"} : text = <<ch>>
    BY <2>1, Zenon
  <2>3. ch \notin {"/", "-", "'"} /\ ch \in Chars
    BY SomeChars
  <2>4. Len(text) = 1
    BY <2>2, <2>3, Single, Zenon
  <2>5. Q[1] = Code(Append(o, ch))
    BY <2>2, <2>3, CharRead
  <2>6. Shown(x) = <<ch>>
    BY <1>0, <1>1, <2>2 DEF Shown
  <2>7. Cat(o, <<ch>>) = Append(o, ch)
    BY <2>3, CatChar, Zenon
  <2> QED
    BY <2>4, <2>5, <2>6, <2>7
<1>2. ASSUME k = "comment", LineComment(text)
      PROVE  Q[Len(text)] = Code(Cat(o, Shown(x)))
  <2>1. Q[Len(text)] = Code(Append(Append(o, " "), "\n"))
    BY <1>2, LineRead
  <2>2. Shown(x) = <<" ", "\n">>
    BY <1>0, <1>2 DEF Shown
  <2>3. " " \in Chars /\ "\n" \in Chars
    BY SomeChars
  <2>4. Cat(o, <<" ", "\n">>) = Append(Append(o, " "), "\n")
    <3>1. ASSUME NEW c \in Chars, NEW d \in Chars
          PROVE  Cat(o, <<c, d>>) = Append(Append(o, c), d)
      BY DEF Cat
    <3> QED
      BY <2>3, <3>1
  <2> QED
    BY <2>1, <2>2, <2>4
<1>3. ASSUME k = "comment", ~ LineComment(text)
      PROVE  Q[Len(text)] = Code(Cat(o, Shown(x)))
  <2>1. BlockComment(text)
    BY <1>0, <1>3 DEF IsLexed
  <2>2. PICK opens \in SUBSET Opening(text), closes \in SUBSET Closing(text) :
           Nested(text, opens, closes)
    BY <2>1, Zenon DEF BlockComment
  <2>3. text \in Seq(Chars)
    BY <2>1, Zenon DEF BlockComment
  <2>4. Len(text) \in Nat
    BY <2>3
  <2>5. Q[Len(text)] = Code(Append(o, " "))
    BY <2>2, <2>4, BlockRead
  <2>6. Shown(x) = <<" ">>
    BY <1>0, <1>3 DEF Shown
  <2>7. " " \in Chars
    BY SomeChars
  <2>8. Cat(o, <<" ">>) = Append(o, " ")
    BY <2>7, CatChar, Zenon
  <2> QED
    BY <2>5, <2>6, <2>8
<1>4. ASSUME k = "literal" PROVE Q[Len(text)] = Code(Cat(o, Shown(x)))
  <2>1. b \in Seq(Chars) /\ text = <<"'">> \o b \o <<"'">>
    BY <1>0, <1>4 DEF IsLexed
  <2>2. nx # "'" /\ "'" \notin ToSet(b)
    BY <1>0, <1>4 DEF Free
  <2>3. \A i \in 1 .. Len(b) : b[i] # "'"
    <3>1. DOMAIN b = 1 .. Len(b)
      BY <2>1
    <3> QED
      BY <2>2, <3>1, Zenon DEF ToSet
  <2>4. "'" \in Chars
    BY SomeChars
  <2>5. Q[Len(text)] = Code(Cat(o, text))
    BY <2>1, <2>2, <2>3, <2>4, LiteralRead
  <2>6. Shown(x) = text
    BY <1>0, <1>4 DEF Shown
  <2> QED
    BY <2>5, <2>6
<1>5. k \in {"verb", "word", "paren", "semicolon", "blank", "literal", "comment"}
  BY <1>0 DEF IsLexed
<1> QED
  BY <1>1, <1>2, <1>3, <1>4, <1>5

(* The pieces as they are typed and as they are shown.                     *)
Texts(pieces) == [i \in DOMAIN pieces |-> pieces[i].text]
Views(pieces) == [i \in DOMAIN pieces |-> Shown(pieces[i])]

(* O[n] is what the first n pieces are shown as.                           *)
Placed(O, pieces) ==
  /\ Len(O[0]) = 0
  /\ \A n \in 0 .. Len(pieces) : O[n] \in Seq(Chars)
  /\ \A n \in 1 .. Len(pieces) : Len(O[n]) = Len(O[n - 1]) + Len(Shown(pieces[n]))
  /\ \A n \in 0 .. Len(pieces) : \A m \in 0 .. Len(pieces) : n <= m => Len(O[n]) <= Len(O[m])
  /\ \A n \in 1 .. Len(pieces) : \A j \in 1 .. Len(Shown(pieces[n])) :
       O[Len(pieces)][Len(O[n - 1]) + j] = Shown(pieces[n])[j]
  /\ \A x \in 1 .. Len(O[Len(pieces)]) : \E n \in 1 .. Len(pieces) :
       \E j \in 1 .. Len(Shown(pieces[n])) : x = Len(O[n - 1]) + j

(* strip_comments shows a statement piece by piece.                        *)
LEMMA Stripped ==
  ASSUME NEW pieces \in Seq(Pieces), ~ HasQuoteInLiteral(pieces)
  PROVE  \E O : /\ Placed(O, pieces)
                /\ O[Len(pieces)] = strip_comments(Text(pieces))
<1>n. PICK N \in Nat : N = Len(pieces)
  OBVIOUS
<1>0. PICK texts, views :
        /\ N = Len(pieces) /\ DOMAIN pieces = 1 .. N
        /\ texts = Texts(pieces) /\ views = Views(pieces)
  BY <1>n
<1>1. \A i \in 1 .. N : IsLexed(pieces[i])
  <2>1. \A i \in 1 .. N : pieces[i] \in Pieces
    BY <1>0
  <2> QED
    BY <2>1, Lexed, Zenon
<1>2. \A i \in 1 .. N : Telling(pieces[i]) /\ Shows(pieces[i])
  BY <1>1, TextTells, ShownTells, Zenon
<1>3. /\ \A i \in 1 .. N : texts[i] = pieces[i].text
      /\ \A i \in 1 .. N : views[i] = Shown(pieces[i])
  BY <1>0 DEF Texts, Views
<1>4. texts \in Seq(Seq(Chars)) /\ Len(texts) = N
  <2>1. texts = [i \in 1 .. N |-> pieces[i].text]
    BY <1>0, Zenon DEF Texts
  <2>2. \A i \in 1 .. N : texts[i] \in Seq(Chars)
    BY <1>2, <1>3 DEF Telling
  <2>3. texts = [i \in 1 .. N |-> texts[i]]
    BY <2>1
  <2> QED
    BY <1>0, <2>2, <2>3
<1>5. views \in Seq(Seq(Chars)) /\ Len(views) = N
  <2>1. views = [i \in 1 .. N |-> Shown(pieces[i])]
    BY <1>0, Zenon DEF Views
  <2>2. \A i \in 1 .. N : views[i] \in Seq(Chars)
    BY <1>2, <1>3 DEF Shows
  <2>3. views = [i \in 1 .. N |-> views[i]]
    BY <2>1
  <2> QED
    BY <1>0, <2>2, <2>3
<1>6. PICK S : Joint(S, texts) /\ S[Len(texts)] = FlattenSeq(texts)
  BY <1>4, Flattened, Zenon
<1>7. PICK O : Joint(O, views) /\ O[Len(views)] = FlattenSeq(views)
  BY <1>5, Flattened, Zenon
<1>8. PICK sql : sql = S[N] /\ sql = Text(pieces)
  BY <1>0, <1>4, <1>6 DEF Text, Texts
<1>9. (\A n \in 0 .. Len(texts) : S[n] \in Seq(Chars)) /\ Laid(S, texts)
  BY <1>4, <1>6, Places, Zenon
<1>10. (\A n \in 0 .. Len(views) : O[n] \in Seq(Chars)) /\ Laid(O, views)
  BY <1>5, <1>7, Places, Zenon
<1> DEFINE L(n) == Len(S[n])
<1>11. /\ \A n \in 0 .. N : L(n) \in Nat /\ O[n] \in Seq(Chars)
       /\ \A n \in 1 .. N : L(n) = L(n - 1) + Len(texts[n])
       /\ \A n \in 0 .. N : \A m \in 0 .. N : n <= m => L(n) <= L(m)
       /\ \A n \in 1 .. N : \A j \in 1 .. Len(texts[n]) : sql[L(n - 1) + j] = texts[n][j]
       /\ Len(sql) = L(N)
  BY <1>4, <1>5, <1>8, <1>9, <1>10 DEF Laid
<1>12. L(0) = 0 /\ O[0] = <<>> /\ \A n \in 1 .. N : O[n] = Cat(O[n - 1], views[n])
  BY <1>4, <1>5, <1>6, <1>7 DEF Joint
<1>t. \A n \in 1 .. N : Len(texts[n]) \in Nat /\ Len(texts[n]) >= 1
  BY <1>2, <1>3 DEF Telling
<1> HIDE DEF L
<1>13. PICK R : R = Reading(sql)
  OBVIOUS
<1>14. /\ R[0] = Start
       /\ \A i \in 1 .. Len(sql) : R[i] = ReadChar(R[i - 1], sql[i], Ahead(sql, i))
  <2>1. Len(sql) \in Nat
    BY <1>0, <1>11
  <2> QED
    BY <1>13, <2>1, ReadingSteps, Zenon
<1> DEFINE T == {n \in 0 .. N : R[L(n)] = Code(O[n])}
<1>15. 0 \in T
  <2>1. Start = Code(<<>>)
    BY DEF Start, Code, In
  <2> QED
    BY <1>0, <1>12, <1>14, <2>1
<1>16. ASSUME NEW n \in Nat, n < N, n \in T PROVE n + 1 \in T
  <2>1. n + 1 \in 1 .. N /\ (n + 1) - 1 = n /\ n \in 0 .. N /\ n + 1 \in 0 .. N
    BY <1>0, <1>16
  <2>2. PICK x, text, o : x = pieces[n + 1] /\ text = texts[n + 1] /\ o = O[n]
    OBVIOUS
  <2>3. PICK a \in Nat, b \in Nat, c \in Nat, z \in Nat :
          /\ a = L(n) /\ b = L(n + 1) /\ c = Len(text) /\ z = Len(sql)
          /\ b = a + c /\ b <= z /\ c >= 1
    <3>1. L(n) \in Nat /\ L(n + 1) \in Nat /\ L(N) \in Nat /\ Len(sql) = L(N)
      BY <1>11, <1>16, <2>1
    <3>2. L(n + 1) = L((n + 1) - 1) + Len(texts[n + 1])
      BY <1>11, <2>1
    <3>3. N \in 0 .. N /\ n + 1 <= N
      BY <2>1
    <3>4. L(n + 1) <= L(N)
      BY <1>11, <2>1, <3>3
    <3>5. Len(text) \in Nat /\ Len(text) >= 1
      BY <1>t, <2>1, <2>2
    <3>6. L(n + 1) = L(n) + Len(text)
      BY <2>1, <2>2, <3>2
    <3> QED
      BY <3>1, <3>4, <3>5, <3>6
  <2>4. \A j \in 1 .. c : sql[a + j] = text[j]
    BY <1>11, <2>1, <2>2, <2>3
  <2>5. PICK nx : nx = Ahead(sql, b)
    OBVIOUS
  <2> DEFINE Q == [j \in 0 .. c |-> R[a + j]]
  <2>6. Reads(Q, text, nx)
    <3>1. ASSUME NEW j \in 1 .. c
          PROVE  Q[j] = ReadChar(Q[j - 1], text[j], IF j < c THEN text[j + 1] ELSE nx)
      <4>0. j \in Nat /\ j >= 1 /\ j <= c /\ a + c <= z
        BY <2>3
      <4>1. /\ a + j \in 1 .. z /\ (a + j) - 1 = a + (j - 1) /\ j \in 0 .. c /\ j - 1 \in 0 .. c
            /\ (a + j) + 1 = a + (j + 1)
        BY <4>0
      <4>2. R[a + j] = ReadChar(R[a + (j - 1)], text[j], Ahead(sql, a + j))
        BY <1>14, <2>3, <2>4, <4>1
      <4>3. Ahead(sql, a + j) = IF j < c THEN text[j + 1] ELSE nx
        <5>1. CASE j < c
          <6>1. a + j < z /\ j + 1 \in 1 .. c
            BY <2>3, <5>1
          <6> QED
            BY <2>3, <2>4, <4>1, <5>1, <6>1 DEF Ahead
        <5>2. CASE ~ (j < c)
          <6>1. a + j = b
            BY <2>3, <5>2
          <6> QED
            BY <2>5, <5>2, <6>1
        <5> QED
          BY <5>1, <5>2
      <4>4. Q[j] = R[a + j] /\ Q[j - 1] = R[a + (j - 1)]
        BY <4>1
      <4> HIDE DEF Q
      <4> QED
        BY <4>2, <4>3, <4>4
    <3> HIDE DEF Q
    <3> QED
      BY <2>3, <3>1 DEF Reads
  <2>7. Q[0] = Code(o) /\ Q[c] = R[b]
    <3>1. 0 \in 0 .. c /\ c \in 0 .. c /\ a + 0 = a /\ R[a] = Code(O[n])
      BY <1>16, <2>3
    <3> QED
      BY <2>2, <2>3, <3>1
  <2>8. ASSUME x.kind = "literal" PROVE nx # "'" /\ "'" \notin ToSet(x.body)
    <3>1. "'" \notin ToSet(x.body)
      BY <1>0, <2>1, <2>2, <2>8 DEF HasQuoteInLiteral, HasLiteral
    <3>2. CASE n + 1 = N
      <4>1. ~ (b < z)
        BY <1>11, <2>3, <3>2
      <4>2. nx = "end"
        BY <2>3, <2>5, <4>1 DEF Ahead
      <4> QED
        BY <3>1, <4>2
    <3>3. CASE n + 1 # N
      <4>1. n + 2 \in 1 .. N /\ n + 2 \in 2 .. N /\ (n + 2) - 1 = n + 1 /\ n + 2 \in 0 .. N
        BY <1>0, <2>1, <3>3
      <4>2. pieces[n + 2].kind # "literal"
        BY <1>0, <2>2, <2>8, <4>1 DEF HasQuoteInLiteral
      <4>3. texts[n + 2][1] # "'"
        BY <1>2, <1>3, <4>1, <4>2 DEF Telling
      <4>4. PICK e \in Nat, d \in Nat : d = Len(texts[n + 2]) /\ e = L(n + 2) /\ d >= 1
        BY <1>11, <1>t, <4>1
      <4>5. e = b + d /\ e <= z /\ 1 \in 1 .. d
        <5>1. L(n + 2) = L((n + 2) - 1) + Len(texts[n + 2])
          BY <1>11, <4>1
        <5>2. e = b + d
          BY <2>3, <4>1, <4>4, <5>1
        <5>3. N \in 0 .. N /\ n + 2 <= N
          BY <4>1
        <5>4. L(n + 2) <= L(N)
          BY <1>11, <4>1, <5>3
        <5>5. e <= z
          BY <1>11, <2>3, <4>4, <5>4
        <5>6. 1 \in 1 .. d
          BY <4>4
        <5> QED
          BY <5>2, <5>5, <5>6
      <4>6. sql[b + 1] = texts[n + 2][1]
        <5>1. \A j \in 1 .. d : sql[L(n + 1) + j] = texts[n + 2][j]
          BY <1>11, <4>1, <4>4
        <5> QED
          BY <2>3, <4>5, <5>1
      <4>7. b < z
        BY <4>4, <4>5
      <4>8. nx = sql[b + 1]
        BY <2>3, <2>5, <4>7 DEF Ahead
      <4> QED
        BY <3>1, <4>3, <4>6, <4>8
    <3> QED
      BY <3>2, <3>3
  <2>f. Free(x, nx)
    BY <2>8 DEF Free
  <2>9. IsLexed(x) /\ o \in Seq(Chars) /\ text = x.text
    BY <1>1, <1>3, <1>11, <2>1, <2>2
  <2>10. Q[Len(text)] = Code(Cat(o, Shown(x)))
    <3>1. PICK q : q = Q
      OBVIOUS
    <3> HIDE DEF Q
    <3>2. Reads(q, text, nx) /\ q[0] = Code(o)
      BY <2>6, <2>7, <3>1
    <3>3. q[Len(text)] = Code(Cat(o, Shown(x)))
      BY <2>f, <2>9, <3>2, PieceRead, ZenonT(60)
    <3> QED
      BY <3>1, <3>3
  <2>11. O[n + 1] = Cat(o, Shown(x))
    BY <1>3, <1>12, <2>1, <2>2
  <2>12. R[L(n + 1)] = Code(O[n + 1])
    <3> HIDE DEF Q
    <3> QED
      BY <2>3, <2>7, <2>10, <2>11
  <2> QED
    BY <2>1, <2>12
<1>17. N \in T
  <2> HIDE DEF T
  <2>1. \A n \in 0 .. N : n \in T
    BY <1>0, <1>15, <1>16, UpTo
  <2> QED
    BY <1>0, <2>1
<1>18. R[Len(sql)] = Code(O[N])
  BY <1>11, <1>17
<1>19. strip_comments(sql) = O[N]
  <2>1. strip_comments(sql) = R[Len(sql)].out
    BY <1>13, Zenon DEF strip_comments
  <2>2. Code(O[N]).out = O[N]
    BY DEF Code, In
  <2> QED
    BY <1>18, <2>1, <2>2
<1>20. Placed(O, pieces)
  <2>1. Len(O[0]) = 0
    BY <1>12
  <2>2. \A n \in 1 .. N : views[n] = Shown(pieces[n])
    BY <1>3
  <2>3. /\ \A n \in 0 .. N : O[n] \in Seq(Chars)
        /\ \A n \in 1 .. N : Len(O[n]) = Len(O[n - 1]) + Len(views[n])
        /\ \A n \in 0 .. N : \A m \in 0 .. N : n <= m => Len(O[n]) <= Len(O[m])
    BY <1>5, <1>10 DEF Laid
  <2>4. \A n \in 1 .. N : \A j \in 1 .. Len(views[n]) : O[N][Len(O[n - 1]) + j] = views[n][j]
    BY <1>5, <1>10, Zenon DEF Laid
  <2>5. \A x \in 1 .. Len(O[N]) : \E n \in 1 .. N :
          \E j \in 1 .. Len(views[n]) : x = Len(O[n - 1]) + j
    BY <1>5, <1>10, Zenon DEF Laid
  <2>6. \A n \in 1 .. N : Len(O[n]) = Len(O[n - 1]) + Len(Shown(pieces[n]))
    BY <2>2, <2>3
  <2>7. \A n \in 1 .. N : \A j \in 1 .. Len(Shown(pieces[n])) :
          O[N][Len(O[n - 1]) + j] = Shown(pieces[n])[j]
    BY <2>2, <2>4
  <2>8. \A x \in 1 .. Len(O[N]) : \E n \in 1 .. N :
          \E j \in 1 .. Len(Shown(pieces[n])) : x = Len(O[n - 1]) + j
    BY <2>2, <2>5
  <2>9. N = Len(pieces)
    BY <1>0
  <2> QED
    BY <2>1, <2>3, <2>6, <2>7, <2>8, <2>9, Zenon DEF Placed
<1> QED
  BY <1>0, <1>7, <1>8, <1>19, <1>20

(* What reject_unsafe_ddl looks for in the text without comments.          *)
Finds(clean, i, p) ==
  /\ clean[i] = "V"
  /\ i < Len(clean) => clean[i + 1] \in Blank \cup {";"}
  /\ p <= i /\ (p > 1 => clean[p - 1] = ";")
  /\ \A k \in p .. i - 1 : clean[k] \in Blank

(* At some place and after some beginning of a statement.                  *)
Unsafe(clean) == \E i \in DOMAIN clean, p \in DOMAIN clean : Finds(clean, i, p)

(* A statement and its shown text, as functions of the pieces' numbers: L  *)
(* where each piece ends, W and V its length and characters, K and B its   *)
(* kind and body.                                                          *)
Outline(N, clean, L, W, V) ==
  /\ N \in Nat /\ Len(clean) \in Nat /\ DOMAIN clean = 1 .. Len(clean)
  /\ L[0] = 0 /\ L[N] = Len(clean)
  /\ \A n \in 0 .. N : L[n] \in Nat
  /\ \A n \in 1 .. N : W[n] \in Nat /\ W[n] >= 1 /\ L[n] = L[n - 1] + W[n]
  /\ \A n \in 0 .. N : \A m \in 0 .. N : n <= m => L[n] <= L[m]
  /\ \A n \in 1 .. N : \A j \in 1 .. W[n] : clean[L[n - 1] + j] = V[n][j]
  /\ \A x \in 1 .. Len(clean) : \E n \in 1 .. N : \E j \in 1 .. W[n] : x = L[n - 1] + j

(* What the characters of the pieces tell about their kinds.               *)
Tells(N, W, V, K, B) ==
  /\ \A n \in 1 .. N : K[n] = "verb" => W[n] = 1 /\ V[n][1] = "V"
  /\ \A n \in 1 .. N : K[n] = "semicolon" => W[n] = 1 /\ V[n][1] = ";"
  /\ \A n \in 1 .. N : K[n] \in Blanks => \A j \in 1 .. W[n] : V[n][j] \in Blank
  /\ \A n \in 1 .. N : K[n] = "literal" => V[n][1] = "'"
  /\ \A n \in 1 .. N : K[n] = "literal" =>
       \A j \in 2 .. W[n] : V[n][j] = "'" \/ V[n][j] \in ToSet(B[n])
  /\ \A n \in 1 .. N : V[n][1] \in Blank => K[n] \in Blanks
  /\ \A n \in 1 .. N : \A j \in 1 .. W[n] : V[n][j] = "V" => K[n] \in {"verb", "literal"}
  /\ \A n \in 1 .. N : \A j \in 1 .. W[n] : V[n][j] = ";" => K[n] \in {"semicolon", "literal"}

(* There are such functions for these pieces.                              *)
Drawn(pieces, clean) ==
  \E L, W, V, K, B :
    /\ Outline(Len(pieces), clean, L, W, V)
    /\ Tells(Len(pieces), W, V, K, B)
    /\ \A n \in 1 .. Len(pieces) : K[n] = pieces[n].kind /\ B[n] = pieces[n].body

(* Every statement has such functions.                                     *)
LEMMA Outlined ==
  ASSUME NEW pieces \in Seq(Pieces), NEW O, Placed(O, pieces)
  PROVE  Drawn(pieces, O[Len(pieces)])
<1>n. PICK N \in Nat : N = Len(pieces)
  OBVIOUS
<1>0. PICK clean : N = Len(pieces) /\ clean = O[N]
  BY <1>n
<1>1. PICK L, W, V, K, B :
        /\ L = [n \in 0 .. N |-> Len(O[n])]
        /\ W = [n \in 1 .. N |-> Len(Shown(pieces[n]))]
        /\ V = [n \in 1 .. N |-> Shown(pieces[n])]
        /\ K = [n \in 1 .. N |-> pieces[n].kind]
        /\ B = [n \in 1 .. N |-> pieces[n].body]
  OBVIOUS
<1>2. /\ \A n \in 0 .. N : L[n] = Len(O[n])
      /\ \A n \in 1 .. N : L[n] = Len(O[n]) /\ L[n - 1] = Len(O[n - 1])
      /\ \A n \in 1 .. N : /\ W[n] = Len(Shown(pieces[n])) /\ V[n] = Shown(pieces[n])
                           /\ K[n] = pieces[n].kind /\ B[n] = pieces[n].body
  BY <1>1
<1>3. \A n \in 1 .. N : Shows(pieces[n])
  BY <1>0, Lexed, ShownTells
<1>4. \A n \in 0 .. N : O[n] \in Seq(Chars)
  BY <1>0 DEF Placed
<1>5. \A n \in 0 .. N : L[n] \in Nat
  BY <1>2, <1>4
<1>6. clean \in Seq(Chars) /\ L[0] = 0 /\ L[N] = Len(clean)
  <2>1. N \in 0 .. N /\ 0 \in 0 .. N /\ Len(O[0]) = 0
    BY <1>0 DEF Placed
  <2> QED
    BY <1>0, <1>2, <1>4, <2>1
<1>7. \A n \in 1 .. N : W[n] \in Nat /\ W[n] >= 1
  <2>1. ASSUME NEW n \in 1 .. N PROVE W[n] \in Nat /\ W[n] >= 1
    <3>1. V[n] \in Seq(Chars) /\ Len(V[n]) >= 1 /\ W[n] = Len(V[n])
      BY <1>2, <1>3 DEF Shows
    <3> QED
      BY <3>1
  <2> QED
    BY <2>1
<1>8. \A n \in 1 .. N : L[n] = L[n - 1] + W[n]
  BY <1>0, <1>2 DEF Placed
<1>9. \A n \in 0 .. N : \A m \in 0 .. N : n <= m => L[n] <= L[m]
  BY <1>0, <1>2 DEF Placed
<1>10. \A n \in 1 .. N : \A j \in 1 .. W[n] : clean[L[n - 1] + j] = V[n][j]
  <2>1. \A n \in 1 .. N : \A j \in 1 .. Len(Shown(pieces[n])) :
          clean[Len(O[n - 1]) + j] = Shown(pieces[n])[j]
    BY <1>0, Zenon DEF Placed
  <2> QED
    BY <1>2, <2>1
<1>11. \A x \in 1 .. Len(clean) : \E n \in 1 .. N : \E j \in 1 .. W[n] : x = L[n - 1] + j
  <2>1. \A x \in 1 .. Len(clean) : \E n \in 1 .. N :
          \E j \in 1 .. Len(Shown(pieces[n])) : x = Len(O[n - 1]) + j
    BY <1>0, Zenon DEF Placed
  <2>2. ASSUME NEW x \in 1 .. Len(clean)
        PROVE  \E n \in 1 .. N : \E j \in 1 .. W[n] : x = L[n - 1] + j
    <3>1. PICK n \in 1 .. N : \E j \in 1 .. Len(Shown(pieces[n])) : x = Len(O[n - 1]) + j
      BY <2>1, Zenon
    <3>2. W[n] = Len(Shown(pieces[n])) /\ L[n - 1] = Len(O[n - 1])
      BY <1>2
    <3> QED
      BY <3>1, <3>2, Zenon
  <2> QED
    BY <2>2, Zenon
<1>12. Outline(N, clean, L, W, V)
  <2>1. Len(clean) \in Nat /\ DOMAIN clean = 1 .. Len(clean)
    BY <1>6
  <2> QED
    BY <1>0, <1>5, <1>6, <1>7, <1>8, <1>9, <1>10, <1>11, <2>1 DEF Outline
<1>13. Tells(N, W, V, K, B)
  <2>1. ASSUME NEW n \in 1 .. N
        PROVE  /\ K[n] = "verb" => W[n] = 1 /\ V[n][1] = "V"
               /\ K[n] = "semicolon" => W[n] = 1 /\ V[n][1] = ";"
               /\ K[n] \in Blanks => \A j \in 1 .. W[n] : V[n][j] \in Blank
               /\ K[n] = "literal" => V[n][1] = "'"
               /\ K[n] = "literal" =>
                    \A j \in 2 .. W[n] : V[n][j] = "'" \/ V[n][j] \in ToSet(B[n])
               /\ V[n][1] \in Blank => K[n] \in Blanks
               /\ \A j \in 1 .. W[n] : V[n][j] = "V" => K[n] \in {"verb", "literal"}
               /\ \A j \in 1 .. W[n] : V[n][j] = ";" => K[n] \in {"semicolon", "literal"}
    <3>1. PICK x : x = pieces[n]
      OBVIOUS
    <3>2. /\ W[n] = Len(Shown(x)) /\ V[n] = Shown(x) /\ K[n] = x.kind /\ B[n] = x.body
          /\ Shows(x)
      BY <1>2, <1>3, <3>1
    <3> QED
      BY <3>2 DEF Shows
  <2> QED
    BY <2>1 DEF Tells
<1> QED
  BY <1>0, <1>2, <1>12, <1>13 DEF Drawn

(* Starts of Delimited, in the outline.                                    *)
Starts(N, K, i, p) ==
  /\ i \in 1 .. N /\ p \in 1 .. N /\ p <= i
  /\ K[i] = "verb"
  /\ i < N => K[i + 1] \in Blanks \cup {"semicolon"}
  /\ p > 1 => K[p - 1] = "semicolon"
  /\ \A k \in p .. i - 1 : K[k] \in Blanks

(* A statement that begins with a word the guard does not allow is found.  *)
LEMMA Found ==
  ASSUME NEW N, NEW clean, NEW L, NEW W, NEW V, NEW K, NEW B,
         Outline(N, clean, L, W, V), Tells(N, W, V, K, B),
         NEW i, NEW p, Starts(N, K, i, p)
  PROVE  Unsafe(clean)
<1>0. N \in Nat
  BY DEF Outline
<1>1. /\ L[0] = 0 /\ L[N] = Len(clean) /\ Len(clean) \in Nat
      /\ \A n \in 0 .. N : L[n] \in Nat
      /\ \A n \in 1 .. N : L[n] = L[n - 1] + W[n]
      /\ \A n \in 0 .. N : \A m \in 0 .. N : n <= m => L[n] <= L[m]
      /\ \A n \in 1 .. N : \A j \in 1 .. W[n] : clean[L[n - 1] + j] = V[n][j]
      /\ \A x \in 1 .. Len(clean) : \E n \in 1 .. N : \E j \in 1 .. W[n] : x = L[n - 1] + j
  BY DEF Outline
<1>3. \A n \in 1 .. N : W[n] \in Nat /\ W[n] >= 1
  BY DEF Outline
<1>4. \A n \in 1 .. N :
        /\ K[n] = "verb" => W[n] = 1 /\ V[n][1] = "V"
        /\ K[n] = "semicolon" => W[n] = 1 /\ V[n][1] = ";"
        /\ K[n] \in Blanks => \A j \in 1 .. W[n] : V[n][j] \in Blank
  BY DEF Tells
<1>5. /\ i \in 1 .. N /\ p \in 1 .. N /\ p <= i
      /\ K[i] = "verb"
      /\ i < N => K[i + 1] \in Blanks \cup {"semicolon"}
      /\ p > 1 => K[p - 1] = "semicolon"
      /\ \A k \in p .. i - 1 : K[k] \in Blanks
  BY DEF Starts
<1>6. /\ i \in Nat /\ p \in Nat /\ p <= i /\ i - 1 \in 0 .. N /\ p - 1 \in 0 .. N
      /\ i \in 0 .. N /\ N \in 0 .. N
  BY <1>0, <1>5
<1>7. PICK a \in Nat, b \in Nat, c \in Nat : a = L[i - 1] /\ b = L[p - 1] /\ c = Len(clean)
  BY <1>1, <1>6
<1>8. L[i] = a + 1 /\ a + 1 <= c /\ b <= a
  <2>1. W[i] = 1
    BY <1>4, <1>5
  <2>2. L[i] = L[i - 1] + W[i]
    BY <1>1, <1>5
  <2>3. L[i] = a + 1
    BY <1>7, <2>1, <2>2
  <2>4. L[i] <= c
    BY <1>0, <1>1, <1>6, <1>7
  <2>5. p - 1 <= i - 1
    BY <1>6
  <2>6. b <= a
    BY <1>1, <1>6, <1>7, <2>5
  <2> QED
    BY <2>3, <2>4, <2>6
<1>9. clean[a + 1] = "V"
  <2>0. 1 \in 1 .. 1
    OBVIOUS
  <2>1. W[i] = 1 /\ V[i][1] = "V"
    BY <1>4, <1>5
  <2>2. \A j \in 1 .. W[i] : clean[a + j] = V[i][j]
    BY <1>1, <1>5, <1>7
  <2> QED
    BY <2>0, <2>1, <2>2
<1>10. ASSUME a + 1 < c PROVE clean[(a + 1) + 1] \in Blank \cup {";"}
  <2>1. i < N
    BY <1>0, <1>1, <1>6, <1>7, <1>8, <1>10
  <2>2. i + 1 \in 1 .. N /\ (i + 1) - 1 = i
    BY <1>0, <1>6, <2>1
  <2>3. 1 \in 1 .. W[i + 1]
    BY <1>3, <2>2
  <2>4. \A j \in 1 .. W[i + 1] : clean[L[i] + j] = V[i + 1][j]
    BY <1>1, <2>2
  <2>5. clean[(a + 1) + 1] = V[i + 1][1]
    BY <1>8, <2>3, <2>4
  <2>6. K[i + 1] \in Blanks \/ K[i + 1] = "semicolon"
    BY <1>5, <2>1
  <2>7. V[i + 1][1] \in Blank \cup {";"}
    BY <1>4, <2>2, <2>3, <2>6
  <2> QED
    BY <2>5, <2>7
<1>11. ASSUME b + 1 > 1 PROVE clean[(b + 1) - 1] = ";"
  <2>1. p > 1
    BY <1>1, <1>6, <1>7, <1>11
  <2>2. p - 1 \in 1 .. N /\ (p - 1) - 1 \in 0 .. N
    BY <1>0, <1>6, <2>1
  <2>3. PICK d \in Nat : d = L[(p - 1) - 1]
    BY <1>1, <2>2
  <2>4. W[p - 1] = 1 /\ V[p - 1][1] = ";"
    BY <1>4, <1>5, <2>1, <2>2
  <2>5. b = d + 1
    BY <1>1, <1>7, <2>2, <2>3, <2>4
  <2>6. \A j \in 1 .. W[p - 1] : clean[d + j] = V[p - 1][j]
    BY <1>1, <2>2, <2>3
  <2>7. clean[d + 1] = ";"
    <3>0. 1 \in 1 .. 1
      OBVIOUS
    <3>1. 1 \in 1 .. W[p - 1]
      BY <2>4, <3>0, Zenon
    <3> QED
      BY <2>4, <2>6, <3>1
  <2>8. (b + 1) - 1 = d + 1
    BY <2>5
  <2> QED
    BY <2>7, <2>8
<1>12. ASSUME NEW x \in b + 1 .. (a + 1) - 1 PROVE clean[x] \in Blank
  <2>1. x \in 1 .. c /\ x > b /\ x <= a
    BY <1>8
  <2>2. PICK n \in 1 .. N : \E j \in 1 .. W[n] : x = L[n - 1] + j
    BY <1>1, <1>7, <2>1
  <2>3. PICK j \in 1 .. W[n] : x = L[n - 1] + j
    BY <2>2
  <2>4. n \in 0 .. N /\ n - 1 \in 0 .. N
    BY <1>0
  <2>5. PICK d \in Nat, e \in Nat, w \in Nat : d = L[n - 1] /\ e = L[n] /\ w = W[n]
    BY <1>1, <1>3, <2>4
  <2>6. e = d + w /\ x = d + j /\ j \in 1 .. w
    BY <1>1, <2>3, <2>5
  <2>7. x > d /\ x <= e
    BY <2>5, <2>6
  <2>8. n < i
    <3>1. CASE i <= n
      <4>1. i - 1 <= n - 1
        BY <1>6, <3>1
      <4>2. a <= d
        BY <1>1, <1>6, <1>7, <2>4, <2>5, <4>1
      <4> QED
        BY <2>1, <2>7, <4>2
    <3> QED
      BY <1>6, <3>1
  <2>9. p <= n
    <3>1. CASE n < p
      <4>1. n <= p - 1
        BY <1>6, <3>1
      <4>2. e <= b
        BY <1>1, <1>6, <1>7, <2>4, <2>5, <4>1
      <4> QED
        BY <2>1, <2>7, <4>2
    <3> QED
      BY <1>6, <3>1
  <2>10. n \in p .. i - 1
    BY <1>6, <2>8, <2>9
  <2>11. K[n] \in Blanks
    BY <1>5, <2>10
  <2>12. V[n][j] \in Blank
    BY <1>4, <2>3, <2>11
  <2>13. clean[x] = V[n][j]
    BY <1>1, <2>3
  <2> QED
    BY <2>12, <2>13
<1>13. a + 1 \in 1 .. c /\ b + 1 \in 1 .. c /\ b + 1 <= a + 1
  BY <1>8
<1>14. DOMAIN clean = 1 .. c
  BY <1>7 DEF Outline
<1>15. PICK x \in 1 .. c, q \in 1 .. c : x = a + 1 /\ q = b + 1
  BY <1>13
<1>16. Finds(clean, x, q)
  <2>1. clean[x] = "V" /\ q <= x
    BY <1>9, <1>13, <1>15
  <2>2. x < Len(clean) => clean[x + 1] \in Blank \cup {";"}
    BY <1>7, <1>10, <1>15
  <2>3. q > 1 => clean[q - 1] = ";"
    BY <1>11, <1>15
  <2>4. \A k \in q .. x - 1 : clean[k] \in Blank
    BY <1>12, <1>15
  <2> QED
    BY <2>1, <2>2, <2>3, <2>4 DEF Finds
<1> QED
  BY <1>14, <1>15, <1>16, Zenon DEF Unsafe

(* No literal has a ";" in it.                                             *)
NoSemicolon(N, K, B) == \A n \in 1 .. N : K[n] = "literal" => ";" \notin ToSet(B[n])

(* Such a place in the text.                                               *)
FindsIn(clean, i, p) == i \in DOMAIN clean /\ p \in DOMAIN clean /\ Finds(clean, i, p)

(* What is found begins a statement, if no literal has a ";" in it.        *)
LEMMA FoundStarts ==
  ASSUME NEW N, NEW clean, NEW L, NEW W, NEW V, NEW K, NEW B,
         Outline(N, clean, L, W, V), Tells(N, W, V, K, B),
         NoSemicolon(N, K, B), NEW x, NEW q, FindsIn(clean, x, q)
  PROVE  \E i, p : Starts(N, K, i, p)
<1>0. PICK c \in Nat : c = Len(clean) /\ DOMAIN clean = 1 .. c /\ N \in Nat
  BY DEF Outline
<1>1. /\ L[0] = 0 /\ L[N] = c
      /\ \A n \in 0 .. N : L[n] \in Nat
      /\ \A n \in 0 .. N : \A m \in 0 .. N : n <= m => L[n] <= L[m]
  BY <1>0 DEF Outline
<1>2. \A n \in 1 .. N : W[n] \in Nat /\ W[n] >= 1 /\ L[n] = L[n - 1] + W[n]
  BY DEF Outline
<1>3. \A n \in 1 .. N : \A j \in 1 .. W[n] : clean[L[n - 1] + j] = V[n][j]
  BY DEF Outline
<1>4. \A y \in 1 .. c : \E n \in 1 .. N : \E j \in 1 .. W[n] : y = L[n - 1] + j
  BY <1>0 DEF Outline
<1>5. /\ x \in 1 .. c /\ q \in 1 .. c /\ q <= x
      /\ clean[x] = "V"
      /\ x < c => clean[x + 1] \in Blank \cup {";"}
      /\ q > 1 => clean[q - 1] = ";"
      /\ \A k \in q .. x - 1 : clean[k] \in Blank
  BY <1>0 DEF FindsIn, Finds
<1>n. x \in Nat /\ q \in Nat /\ q >= 1 /\ x <= c /\ q <= x
  <2>1. x \in 1 .. c /\ q \in 1 .. c /\ q <= x
    BY <1>5
  <2> QED
    BY <2>1
<1>6. PICK i \in 1 .. N : \E j \in 1 .. W[i] : x = L[i - 1] + j
  BY <1>4, <1>5
<1>7. PICK j \in 1 .. W[i] : x = L[i - 1] + j
  BY <1>6
<1>8. i - 1 \in 0 .. N /\ i \in 0 .. N /\ i \in Nat
  BY <1>0
<1>9. PICK a \in Nat, w \in Nat : a = L[i - 1] /\ w = W[i] /\ w >= 1 /\ L[i] = a + w
  BY <1>1, <1>2, <1>8
<1>10. j \in 1 .. w /\ x = a + j /\ V[i][j] = "V" /\ \A k \in 1 .. w : clean[a + k] = V[i][k]
  BY <1>3, <1>5, <1>7, <1>9
<1>t. j \in 1 .. w /\ x = a + j
  BY <1>10
<1>11. K[i] # "literal"
  <2> SUFFICES ASSUME K[i] = "literal" PROVE FALSE
    OBVIOUS
  <2>1. V[i][1] = "'" /\ \A k \in 2 .. w : V[i][k] = "'" \/ V[i][k] \in ToSet(B[i])
    BY <1>9 DEF Tells
  <2>2. j # 1
    BY <1>10, <2>1
  <2>3. CASE q <= a + 1
    <3>1. a + 1 \in q .. x - 1
      BY <1>n, <1>t, <2>2, <2>3
    <3>2. clean[a + 1] \in Blank
      BY <1>5, <3>1
    <3>3. clean[a + 1] = V[i][1]
      BY <1>9, <1>10
    <3> QED
      BY <2>1, <3>2, <3>3 DEF Blank
  <2>4. CASE ~ (q <= a + 1)
    <3>1. PICK k \in 1 .. w : q - 1 = a + k /\ q > 1
      <4>1. q - 1 - a \in 1 .. w /\ q - 1 = a + (q - 1 - a) /\ q > 1
        BY <1>n, <1>9, <1>t, <2>4
      <4> QED
        BY <4>1
    <3>2. V[i][k] = ";"
      BY <1>5, <1>10, <3>1
    <3>3. k # 1
      BY <2>1, <3>2
    <3>4. k \in 2 .. w
      BY <3>3
    <3>5. V[i][k] \in ToSet(B[i])
      BY <2>1, <3>2, <3>4
    <3> QED
      BY <3>2, <3>5 DEF NoSemicolon
  <2> QED
    BY <2>3, <2>4
<1>12. K[i] = "verb"
  <2>1. K[i] \in {"verb", "literal"}
    BY <1>9, <1>10 DEF Tells
  <2> QED
    BY <1>11, <2>1
<1>13. w = 1 /\ j = 1 /\ x = a + 1 /\ L[i] = x
  <2>1. W[i] = 1
    BY <1>12 DEF Tells
  <2> QED
    BY <1>9, <1>10, <2>1
<1>14. ASSUME i < N PROVE K[i + 1] \in Blanks \cup {"semicolon"}
  <2>1. i + 1 \in 1 .. N /\ (i + 1) - 1 = i /\ i + 1 \in 0 .. N /\ N \in 0 .. N /\ i + 1 <= N
    BY <1>0, <1>8, <1>14
  <2>2. PICK v \in Nat, b \in Nat : v = W[i + 1] /\ v >= 1 /\ b = L[i + 1] /\ b = x + v /\ b <= c
    <3>1. W[i + 1] \in Nat /\ W[i + 1] >= 1 /\ L[i + 1] = L[(i + 1) - 1] + W[i + 1]
      BY <1>2, <2>1
    <3>2. L[i + 1] \in Nat /\ L[i + 1] <= L[N]
      BY <1>1, <2>1
    <3>3. L[i + 1] = x + W[i + 1] /\ L[i + 1] <= c
      BY <1>1, <1>13, <2>1, <3>1, <3>2
    <3> QED
      BY <3>1, <3>2, <3>3
  <2>3. x < c /\ 1 \in 1 .. v
    BY <1>n, <2>2
  <2>4. \A k \in 1 .. v : clean[x + k] = V[i + 1][k]
    BY <1>3, <1>13, <2>1, <2>2
  <2>5. V[i + 1][1] \in Blank \cup {";"}
    BY <1>5, <2>3, <2>4
  <2>6. CASE V[i + 1][1] \in Blank
    BY <2>1, <2>6 DEF Tells
  <2>7. CASE V[i + 1][1] = ";"
    <3>1. K[i + 1] \in {"semicolon", "literal"}
      BY <2>1, <2>2, <2>3, <2>7 DEF Tells
    <3>2. K[i + 1] = "literal" => V[i + 1][1] = "'"
      BY <2>1 DEF Tells
    <3> QED
      BY <2>7, <3>1, <3>2
  <2> QED
    BY <2>5, <2>6, <2>7
<1>15. ASSUME NEW p \in 1 .. i, L[p - 1] = q - 1 PROVE \A k \in p .. i - 1 : K[k] \in Blanks
  <2> SUFFICES ASSUME NEW k \in p .. i - 1 PROVE K[k] \in Blanks
    OBVIOUS
  <2>1. /\ k \in 1 .. N /\ k - 1 \in 0 .. N /\ k \in 0 .. N /\ p - 1 \in 0 .. N
        /\ p - 1 <= k - 1 /\ k <= i - 1
    BY <1>0, <1>8
  <2>2. PICK d \in Nat, e \in Nat, v \in Nat :
          d = L[k - 1] /\ e = L[k] /\ v = W[k] /\ v >= 1 /\ e = d + v
    BY <1>1, <1>2, <2>1
  <2>3. q - 1 <= d /\ e <= a
    BY <1>1, <1>8, <1>9, <1>15, <2>1, <2>2
  <2>4. d + 1 \in q .. x - 1 /\ 1 \in 1 .. v
    BY <1>n, <1>13, <2>2, <2>3
  <2>5. clean[d + 1] \in Blank
    BY <1>5, <2>4
  <2>6. \A y \in 1 .. v : clean[d + y] = V[k][y]
    BY <1>3, <2>1, <2>2
  <2>7. V[k][1] \in Blank
    BY <2>4, <2>5, <2>6
  <2> QED
    BY <2>1, <2>7 DEF Tells
<1>16. CASE q = 1
  <2>1. 1 \in 1 .. i /\ 1 - 1 = 0 /\ q - 1 = 0
    BY <1>8, <1>16
  <2>2. \A k \in 1 .. i - 1 : K[k] \in Blanks
    BY <1>1, <1>15, <2>1
  <2>3. Starts(N, K, i, 1)
    BY <1>0, <1>8, <1>12, <1>14, <2>2 DEF Starts
  <2> QED
    BY <2>3
<1>17. CASE q # 1
  <2>1. q > 1 /\ q - 1 \in 1 .. c
    BY <1>n, <1>17
  <2>2. PICK n \in 1 .. N : \E k \in 1 .. W[n] : q - 1 = L[n - 1] + k
    BY <1>4, <2>1
  <2>3. PICK k \in 1 .. W[n] : q - 1 = L[n - 1] + k
    BY <2>2
  <2>4. V[n][k] = ";"
    BY <1>3, <1>5, <2>1, <2>3
  <2>5. K[n] # "literal"
    <3> SUFFICES ASSUME K[n] = "literal" PROVE FALSE
      OBVIOUS
    <3>1. V[n][1] = "'" /\ \A y \in 2 .. W[n] : V[n][y] = "'" \/ V[n][y] \in ToSet(B[n])
      BY DEF Tells
    <3>2. k # 1
      BY <2>4, <3>1
    <3>3. k \in 2 .. W[n]
      BY <1>2, <3>2
    <3>4. V[n][k] \in ToSet(B[n])
      BY <2>4, <3>1, <3>3
    <3> QED
      BY <2>4, <3>4 DEF NoSemicolon
  <2>6. K[n] = "semicolon"
    <3>1. K[n] \in {"semicolon", "literal"}
      BY <2>4 DEF Tells
    <3> QED
      BY <2>5, <3>1
  <2>7. W[n] = 1
    BY <2>6 DEF Tells
  <2>8. n \in Nat /\ n - 1 \in 0 .. N /\ n \in 0 .. N
    BY <1>0
  <2>9. L[n] = q - 1
    <3>1. PICK d \in Nat : d = L[n - 1]
      BY <1>1, <2>8
    <3>2. k = 1 /\ L[n] = d + 1 /\ q - 1 = d + k
      BY <1>2, <2>3, <2>7, <3>1
    <3> QED
      BY <3>2
  <2>10. n < i
    <3>1. CASE i <= n
      <4>1. L[i] <= L[n]
        BY <1>1, <1>8, <2>8, <3>1
      <4>2. x <= q - 1
        BY <1>13, <2>9, <4>1
      <4> QED
        BY <1>n, <4>2
    <3> QED
      BY <1>8, <2>8, <3>1
  <2>11. n + 1 \in 1 .. i /\ n + 1 \in 1 .. N /\ n + 1 <= i /\ (n + 1) - 1 = n
    BY <1>0, <1>8, <2>8, <2>10
  <2>12. \A y \in n + 1 .. i - 1 : K[y] \in Blanks
    BY <1>15, <2>9, <2>11
  <2>13. Starts(N, K, i, n + 1)
    BY <1>12, <1>14, <2>6, <2>11, <2>12 DEF Starts
  <2> QED
    BY <2>13
<1> QED
  BY <1>16, <1>17

-----------------------------------------------------------------------------
(* The guard against what the pieces mean.                                 *)

(* reject_unsafe_ddl looks at the text without comments.                   *)
LEMMA Rejects ==
  ASSUME NEW sql
  PROVE  reject_unsafe_ddl(sql) <=> Unsafe(strip_comments(sql))
BY Zenon DEF reject_unsafe_ddl, Unsafe, Finds

(* A disallowed word begins a statement and is a word to the guard too.    *)
Delimited(pieces) ==
  \E i \in DOMAIN pieces :
    /\ pieces[i].kind = "verb"
    /\ i < Len(pieces) => pieces[i + 1].kind \in Blanks \cup {"semicolon"}
    /\ \E p \in 1 .. i :
         /\ p > 1 => pieces[p - 1].kind = "semicolon"
         /\ \A k \in p .. i - 1 : pieces[k].kind \in Blanks

(* It is unless a "(" or a literal is right behind it.                     *)
LEMMA DelimitedVerb ==
  ASSUME NEW pieces \in Seq(Pieces)
  PROVE  Delimited(pieces) <=> \E i \in DOMAIN pieces : VerbFirst(pieces, i) /\ ~ RunsOn(pieces, i)
<1>1. \A n \in DOMAIN pieces :
        pieces[n].kind \in {"verb", "word", "paren", "semicolon", "blank", "comment", "literal"}
  <2>1. ASSUME NEW n \in DOMAIN pieces
        PROVE  pieces[n].kind \in {"verb", "word", "paren", "semicolon", "blank", "comment", "literal"}
    <3>1. IsLexed(pieces[n])
      BY Lexed
    <3> QED
      BY <3>1 DEF IsLexed
  <2> QED
    BY <2>1
<1>2. PICK N \in Nat : N = Len(pieces) /\ DOMAIN pieces = 1 .. N
  OBVIOUS
<1>3. ASSUME NEW i \in 1 .. N
      PROVE  (i < N => pieces[i + 1].kind \in Blanks \cup {"semicolon"}) <=>
             /\ i < N => pieces[i + 1].kind \notin {"verb", "word"}
             /\ ~ (i < N /\ pieces[i + 1].kind \in {"literal", "paren"})
  <2>1. CASE i < N
    <3>1. i + 1 \in DOMAIN pieces
      BY <1>2, <2>1
    <3> QED
      BY <1>1, <2>1, <3>1 DEF Blanks
  <2> QED
    BY <2>1
<1> QED
  BY <1>2, <1>3, Zenon DEF Delimited, VerbFirst, BeginsStatement, RunsOn

(* The pieces that begin a statement with such a word.                     *)
LEMMA StartsAt ==
  ASSUME NEW pieces \in Seq(Pieces), NEW K, \A n \in 1 .. Len(pieces) : K[n] = pieces[n].kind
  PROVE  Delimited(pieces) <=> \E i, p : Starts(Len(pieces), K, i, p)
<1>0. PICK N \in Nat : N = Len(pieces) /\ DOMAIN pieces = 1 .. N
  OBVIOUS
<1>1. \A n \in 1 .. N : K[n] = pieces[n].kind
  BY <1>0
<1>2. ASSUME Delimited(pieces) PROVE \E i, p : Starts(N, K, i, p)
  <2>1. PICK i \in 1 .. N :
          /\ pieces[i].kind = "verb"
          /\ i < N => pieces[i + 1].kind \in Blanks \cup {"semicolon"}
          /\ \E p \in 1 .. i :
               /\ p > 1 => pieces[p - 1].kind = "semicolon"
               /\ \A k \in p .. i - 1 : pieces[k].kind \in Blanks
    BY <1>0, <1>2 DEF Delimited
  <2>2. PICK p \in 1 .. i :
          /\ p > 1 => pieces[p - 1].kind = "semicolon"
          /\ \A k \in p .. i - 1 : pieces[k].kind \in Blanks
    BY <2>1
  <2>3. /\ p \in 1 .. N /\ p <= i /\ (p > 1 => p - 1 \in 1 .. N) /\ (i < N => i + 1 \in 1 .. N)
        /\ \A k \in p .. i - 1 : k \in 1 .. N
    BY <1>0
  <2>4. Starts(N, K, i, p)
    BY <1>1, <2>1, <2>2, <2>3 DEF Starts
  <2> QED
    BY <2>4
<1>3. ASSUME NEW i, NEW p, Starts(N, K, i, p) PROVE Delimited(pieces)
  <2>1. /\ i \in 1 .. N /\ p \in 1 .. N /\ p <= i
        /\ K[i] = "verb"
        /\ i < N => K[i + 1] \in Blanks \cup {"semicolon"}
        /\ p > 1 => K[p - 1] = "semicolon"
        /\ \A k \in p .. i - 1 : K[k] \in Blanks
    BY <1>3 DEF Starts
  <2>2. /\ p \in 1 .. i /\ (p > 1 => p - 1 \in 1 .. N) /\ (i < N => i + 1 \in 1 .. N)
        /\ \A k \in p .. i - 1 : k \in 1 .. N
    BY <1>0, <2>1
  <2>3. /\ pieces[i].kind = "verb"
        /\ i < N => pieces[i + 1].kind \in Blanks \cup {"semicolon"}
        /\ p > 1 => pieces[p - 1].kind = "semicolon"
        /\ \A k \in p .. i - 1 : pieces[k].kind \in Blanks
    BY <1>1, <2>1, <2>2
  <2> QED
    BY <1>0, <2>1, <2>2, <2>3 DEF Delimited
<1> QED
  BY <1>0, <1>2, <1>3

(* What the guard lets through and what it turns away.                     *)
LEMMA Guard ==
  ASSUME NEW pieces \in Seq(Pieces), ~ HasQuoteInLiteral(pieces)
  PROVE  /\ Delimited(pieces) => reject_unsafe_ddl(Text(pieces))
         /\ reject_unsafe_ddl(Text(pieces)) /\ ~ HasLiteral(pieces, ";") => Delimited(pieces)
<1>1. PICK O : Placed(O, pieces) /\ O[Len(pieces)] = strip_comments(Text(pieces))
  BY Stripped, Zenon
<1>2. PICK N, clean :
        /\ N \in Nat /\ N = Len(pieces) /\ DOMAIN pieces = 1 .. N
        /\ clean = O[Len(pieces)] /\ clean = strip_comments(Text(pieces))
  BY <1>1
<1>3. PICK L, W, V, K, B :
        /\ Outline(N, clean, L, W, V)
        /\ Tells(N, W, V, K, B)
        /\ \A n \in 1 .. N : K[n] = pieces[n].kind /\ B[n] = pieces[n].body
  <2>1. Drawn(pieces, clean)
    BY <1>1, <1>2, Outlined, Zenon
  <2> QED
    BY <1>2, <2>1 DEF Drawn
<1>4. reject_unsafe_ddl(Text(pieces)) <=> Unsafe(clean)
  BY <1>2, Rejects, Zenon
<1>5. Delimited(pieces) <=> \E i, p : Starts(N, K, i, p)
  BY <1>2, <1>3, StartsAt, Zenon
<1>6. (\E i, p : Starts(N, K, i, p)) => Unsafe(clean)
  BY <1>3, Found, Zenon
<1>7. ASSUME ~ HasLiteral(pieces, ";"), Unsafe(clean) PROVE \E i, p : Starts(N, K, i, p)
  <2>1. NoSemicolon(N, K, B)
    BY <1>2, <1>3, <1>7, Zenon DEF NoSemicolon, HasLiteral
  <2>2. \E x, q : FindsIn(clean, x, q)
    BY <1>7, Zenon DEF Unsafe, FindsIn
  <2> QED
    BY <1>3, <2>1, <2>2, FoundStarts, Zenon
<1> QED
  BY <1>4, <1>5, <1>6, <1>7, Zenon

-----------------------------------------------------------------------------
(* The gates of query.                                                     *)

(* The last statement has the outcome its pieces and its bundle give it.   *)
Gated ==
  /\ typed \in Seq(Pieces)
  /\ last # None => /\ last.pieces \in Seq(Pieces)
                    /\ last.outcome = Outcome(last.pieces, last.bundle)

(* What was typed and run is always of that form.                          *)
LEMMA GatedInvariant == Spec => []Gated
<1>1. Init => Gated
  <2>1. <<>> \in Seq(Pieces)
    OBVIOUS
  <2> QED
    BY <2>1, Zenon DEF Init, Gated
<1>2. ASSUME Gated, [Next]_vars PROVE Gated'
  <2>1. CASE \E filled \in Configs : new_with_config(filled)
    BY <1>2, <2>1, Zenon DEF Gated, new_with_config
  <2>2. CASE \E b \in Bundles : inject_contract_bundle(b)
    BY <1>2, <2>2, Zenon DEF Gated, inject_contract_bundle
  <2>3. CASE \E t \in Tables : register_table(t)
    BY <1>2, <2>3, Zenon DEF Gated, register_table
  <2>4. CASE \E piece \in Pieces : Type(piece)
    <3>1. PICK piece \in Pieces : Type(piece)
      BY <2>4
    <3>2. typed' = Append(typed, piece) /\ last' = None /\ typed \in Seq(Pieces)
      BY <1>2, <3>1, Zenon DEF Gated, Type
    <3>3. Append(typed, piece) \in Seq(Pieces)
      BY <3>2
    <3> QED
      BY <3>2, <3>3, Zenon DEF Gated
  <2>5. CASE query
    <3>1. PICK v : v = Outcome(typed, contract_bundle)
      OBVIOUS
    <3>2. /\ last' = [pieces |-> typed, bundle |-> contract_bundle, outcome |-> v]
          /\ typed' = <<>> /\ typed \in Seq(Pieces)
      BY <1>2, <2>5, <3>1 DEF Gated, query
    <3>3. last'.pieces = typed /\ last'.bundle = contract_bundle /\ last'.outcome = v
      BY <3>2
    <3>4. <<>> \in Seq(Pieces)
      OBVIOUS
    <3> QED
      BY <3>1, <3>2, <3>3, <3>4, Zenon DEF Gated
  <2>6. CASE UNCHANGED vars
    BY <1>2, <2>6, Zenon DEF Gated, vars
  <2> QED
    BY <1>2, <2>1, <2>2, <2>3, <2>4, <2>5, <2>6 DEF Next
<1> QED
  BY <1>1, <1>2, PTL DEF Spec

(* INV-1 and rule (d), for every statement: nothing runs without a bundle, *)
(* and nothing whose first token is a disallowed word passes               *)
(* reject_unsafe_ddl, however many comments, literals and semicolons are   *)
(* around it and whatever is nested in them, unless a "(" or a literal     *)
(* follows that word without a blank.                                      *)
THEOREM NothingUnguarded == Spec => []NothingUnguardedRuns
<1>1. ASSUME Gated PROVE NothingUnguardedRuns
  <2> SUFFICES ASSUME last # None, last.outcome = "ran"
               PROVE  /\ last.bundle # None
                      /\ ~ HasQuoteInLiteral(last.pieces) =>
                           \A i \in DOMAIN last.pieces :
                             VerbFirst(last.pieces, i) => RunsOn(last.pieces, i)
    BY DEF NothingUnguardedRuns
  <2>1. PICK ps, b : ps = last.pieces /\ b = last.bundle
    OBVIOUS
  <2>2. ps \in Seq(Pieces) /\ Outcome(ps, b) = "ran"
    BY <1>1, <2>1, Zenon DEF Gated
  <2>3. b # None /\ ~ reject_unsafe_ddl(Text(ps))
    BY <2>2 DEF Outcome
  <2>4. ~ HasQuoteInLiteral(ps) => \A i \in DOMAIN ps : VerbFirst(ps, i) => RunsOn(ps, i)
    <3>1. ~ HasQuoteInLiteral(ps) => ~ Delimited(ps)
      BY <2>2, <2>3, Guard, Zenon
    <3> QED
      BY <2>2, <3>1, DelimitedVerb, Zenon
  <2> QED
    BY <2>1, <2>3, <2>4
<1> QED
  BY <1>1, GatedInvariant, PTL

(* What reject_unsafe_ddl turns away begins a statement with a disallowed  *)
(* word, or has a literal with a ";" or a quote in it.                     *)
THEOREM OnlyUnsafe == Spec => []OnlyUnsafeTurnedAway
<1>1. ASSUME Gated PROVE OnlyUnsafeTurnedAway
  <2> SUFFICES ASSUME last # None, last.outcome = "UnsafeDdlRejected"
               PROVE  \/ StartsWithVerb(last.pieces)
                      \/ HasLiteral(last.pieces, ";") \/ HasQuoteInLiteral(last.pieces)
    BY DEF OnlyUnsafeTurnedAway
  <2>1. PICK ps, b : ps = last.pieces /\ b = last.bundle
    OBVIOUS
  <2>2. ps \in Seq(Pieces) /\ Outcome(ps, b) = "UnsafeDdlRejected"
    BY <1>1, <2>1, Zenon DEF Gated
  <2>3. reject_unsafe_ddl(Text(ps))
    BY <2>2 DEF Outcome
  <2>4. StartsWithVerb(ps) \/ HasLiteral(ps, ";") \/ HasQuoteInLiteral(ps)
    <3>1. Delimited(ps) \/ HasLiteral(ps, ";") \/ HasQuoteInLiteral(ps)
      BY <2>2, <2>3, Guard, Zenon
    <3> QED
      BY <2>2, <3>1, DelimitedVerb, Zenon DEF StartsWithVerb
  <2> QED
    BY <2>1, <2>4
<1> QED
  BY <1>1, GatedInvariant, PTL
=============================================================================
