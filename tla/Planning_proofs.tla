--------------------------- MODULE Planning_proofs ---------------------------
(***************************************************************************)
(* A plan from the orchestrator's answer to its waves, for any number of   *)
(* steps, any graph, and scopes of any length over any characters: what    *)
(* the loops of the validator and of the wave builder do, what the text of *)
(* a write scope says about the files it allows, and the two together.     *)
(*                                                                         *)
(* Facts about recursive functions go by induction on the natural numbers, *)
(* which is proved here from the least element of a set of them.           *)
(***************************************************************************)
EXTENDS Planning, SequenceTheorems, WellFoundedInduction, TLAPS

-----------------------------------------------------------------------------
(* Induction, from the well-foundedness of the natural numbers.             *)

LEMMA Least ==
    ASSUME NEW S \in SUBSET Nat, S # {}
    PROVE  \E m \in S : \A k \in S : m <= k
<1> DEFINE R == OpToRel(<, Nat)
<1>1. IsWellFoundedOn(R, Nat)
  BY NatLessThanWellFounded
<1>2. \A x, y \in Nat : y < x => <<y, x>> \in R
  BY DEF OpToRel
<1> HIDE DEF R
<1>3. PICK x \in S : \A y \in S : ~(<<y, x>> \in R)
  BY <1>1, WFMin
<1>4. ASSUME NEW k \in S PROVE x <= k
  <2>1. x \in Nat /\ k \in Nat /\ ~(k < x)
    BY <1>2, <1>3
  <2> QED
    BY <2>1
<1> QED
  BY <1>4

LEMMA Induction ==
    ASSUME NEW S \in SUBSET Nat, 0 \in S, \A n \in S : n + 1 \in S
    PROVE  S = Nat
<1> SUFFICES ASSUME Nat \ S # {} PROVE FALSE
  OBVIOUS
<1>1. PICK m \in Nat \ S : \A k \in Nat \ S : m <= k
  BY Least
<1>2. m # 0 /\ m - 1 \in Nat
  BY <1>1
<1>3. m - 1 \in S
  BY <1>1, <1>2
<1> QED
  BY <1>1, <1>2, <1>3

\* Up to a bound.
LEMMA InductionTo ==
    ASSUME NEW n \in Nat, NEW S, S \subseteq 0..n, 0 \in S,
           \A k \in S : k < n => k + 1 \in S
    PROVE  S = 0..n
<1> DEFINE T == S \cup {k \in Nat : k > n}
<1>1. T \in SUBSET Nat
  <2>1. \A k \in T : k \in Nat
    OBVIOUS
  <2> QED
    BY <2>1
<1>2. ASSUME NEW k \in T PROVE k + 1 \in T
  <2>1. CASE k \in S
    BY <2>1
  <2>2. CASE k \notin S
    BY <2>2
  <2> QED
    BY <2>1, <2>2
<1>3. 0 \in T
  OBVIOUS
<1>4. T = Nat
  <2> HIDE DEF T
  <2> QED
    BY <1>1, <1>2, <1>3, Induction
<1>5. ASSUME NEW k \in 0..n PROVE k \in S
  <2>1. k \in T /\ ~(k > n)
    BY <1>4
  <2> QED
    BY <2>1
<1> QED
  BY <1>5

LEMMA Greatest ==
    ASSUME NEW n \in Nat, NEW S, S \subseteq 0..n, S # {}
    PROVE  \E m \in S : \A k \in S : k <= m
<1> DEFINE T == {k \in Nat : n - k \in S}
<1>1. T # {}
  <2>1. PICK k \in S : TRUE
    OBVIOUS
  <2>2. k \in 0..n /\ n - k \in Nat /\ n - (n - k) = k
    BY <2>1
  <2> QED
    BY <2>1, <2>2
<1>2. PICK m \in T : \A k \in T : m <= k
  <2>1. T \in SUBSET Nat
    OBVIOUS
  <2> HIDE DEF T
  <2> QED
    BY <1>1, <2>1, Least
<1>3. ASSUME NEW k \in S PROVE k <= n - m
  <2>1. k \in 0..n /\ n - k \in Nat /\ n - (n - k) = k
    OBVIOUS
  <2>2. n - k \in T
    BY <2>1
  <2>3. m <= n - k /\ m \in Nat
    BY <1>2, <2>2
  <2> QED
    BY <2>1, <2>3
<1>4. n - m \in S
  BY <1>2
<1> QED
  BY <1>3, <1>4

\* A function is defined by recursion on its argument.
Iterates(f, n, X, b, step) ==
    /\ f \in [0..n -> X] /\ f[0] = b
    /\ \A k \in 1..n : f[k] = step[<<k, f[k - 1]>>]

LEMMA Recursion ==
    ASSUME NEW n \in Nat, NEW X, NEW b \in X, NEW step \in [(1..n) \X X -> X]
    PROVE  \E f : Iterates(f, n, X, b, step)
<1> DEFINE Goes(f, m) == /\ f \in [0..m -> X] /\ f[0] = b
                         /\ \A k \in 1..m : f[k] = step[<<k, f[k - 1]>>]
           S == {m \in 0..n : \E f : Goes(f, m)}
<1>1. 0 \in S
  <2>1. Goes([k \in 0..0 |-> b], 0)
    OBVIOUS
  <2> HIDE DEF Goes
  <2> QED
    BY <2>1
<1>2. ASSUME NEW m \in S, m < n PROVE m + 1 \in S
  <2>1. PICK f : Goes(f, m)
    BY DEF S
  <2> DEFINE g == [k \in 0..(m + 1) |-> IF k <= m THEN f[k] ELSE step[<<m + 1, f[m]>>]]
  <2>2. Goes(g, m + 1)
    <3>1. g \in [0..(m + 1) -> X] /\ g[0] = b
      BY <1>2, <2>1
    <3>2. ASSUME NEW k \in 1..(m + 1) PROVE g[k] = step[<<k, g[k - 1]>>]
      <4>1. CASE k <= m
        BY <2>1, <4>1
      <4>2. CASE k = m + 1
        <5>1. g[k] = step[<<m + 1, f[m]>>] /\ g[m] = f[m]
          BY <4>2, <1>2, <2>1
        <5>2. k - 1 = m
          BY <4>2, <1>2
        <5> QED
          BY <5>1, <5>2, <4>2
      <4> QED
        BY <4>1, <4>2, <1>2
    <3> HIDE DEF g
    <3> QED
      BY <3>1, <3>2
  <2> HIDE DEF g, Goes
  <2> QED
    BY <2>2, <1>2
<1>3. S = 0..n
  <2>1. S \subseteq 0..n
    OBVIOUS
  <2> HIDE DEF S
  <2> QED
    BY <1>1, <1>2, <2>1, InductionTo
<1>4. PICK f : Goes(f, n)
  <2> HIDE DEF Goes
  <2> QED
    BY <1>3
<1> QED
  BY <1>4 DEF Iterates

-----------------------------------------------------------------------------
(* Paths and their text.                                                    *)

Char == Characters \cup {"/"}
Chars == Seq(Char)
Paths == Seq(Chars)

Joins(f, p) ==
    f = [k \in 0..Len(p) |-> IF k = 0 THEN <<>>
                             ELSE IF k = 1 THEN p[1]
                             ELSE f[k - 1] \o <<"/">> \o p[k]]

LEMMA Slash ==
    /\ <<>> \in Chars /\ <<"/">> \in Chars /\ Len(<<"/">>) = 1 /\ <<"/">>[1] = "/"
    /\ \A s, t \in Chars : s \o t \in Chars
<1>1. <<>> \in Chars /\ <<"/">> \in Chars
  BY DEF Chars, Char
<1>2. \A s, t \in Chars : s \o t \in Chars
  BY ConcatProperties DEF Chars
<1> QED
  BY <1>1, <1>2

LEMMA JoinExists == ASSUME NEW p \in Paths PROVE \E f : Joins(f, p)
<1> DEFINE n == Len(p)
           step == [x \in (1..n) \X Chars |->
                       IF x[1] = 1 THEN p[1] ELSE x[2] \o <<"/">> \o p[x[1]]]
<1>1. n \in Nat /\ \A k \in 1..n : p[k] \in Chars
  BY DEF Paths
<1>2. step \in [(1..n) \X Chars -> Chars]
  <2>1. ASSUME NEW k \in 1..n, NEW t \in Chars
        PROVE  (IF k = 1 THEN p[1] ELSE t \o <<"/">> \o p[k]) \in Chars
    <3>1. p[1] \in Chars /\ p[k] \in Chars
      BY <1>1
    <3>2. t \o <<"/">> \in Chars
      BY Slash
    <3>3. t \o <<"/">> \o p[k] \in Chars
      BY Slash, <3>1, <3>2
    <3> QED
      BY <3>1, <3>3
  <2> QED
    BY <2>1
<1>2a. \E f : Iterates(f, n, Chars, <<>>, step)
  <2>1. <<>> \in Chars
    BY Slash
  <2> HIDE DEF step, n
  <2> QED
    BY <1>1, <1>2, <2>1, Recursion
<1>3. PICK f \in [0..n -> Chars] :
          f[0] = <<>> /\ \A k \in 1..n : f[k] = step[<<k, f[k - 1]>>]
  <2> HIDE DEF step, n
  <2> QED
    BY <1>2a DEF Iterates
<1>5. ASSUME NEW k \in 0..n
      PROVE  f[k] = IF k = 0 THEN <<>>
                    ELSE IF k = 1 THEN p[1]
                    ELSE f[k - 1] \o <<"/">> \o p[k]
  <2>1. CASE k = 0
    BY <1>3, <2>1
  <2>2. CASE k # 0
    <3>1. k \in 1..n /\ k - 1 \in 0..n /\ f[k - 1] \in Chars
      BY <1>1, <2>2
    <3>2. f[k] = step[<<k, f[k - 1]>>]
      BY <1>3, <3>1
    <3>3. <<k, f[k - 1]>> \in (1..n) \X Chars
      BY <3>1
    <3> QED
      BY <3>1, <3>2, <3>3, <2>2
  <2> QED
    BY <2>1, <2>2
<1>6. f = [k \in 0..n |-> IF k = 0 THEN <<>>
                          ELSE IF k = 1 THEN p[1]
                          ELSE f[k - 1] \o <<"/">> \o p[k]]
  <2>1. DOMAIN f = 0..n
    OBVIOUS
  <2> QED
    BY <1>5, <2>1
<1> QED
  BY <1>6 DEF Joins

LEMMA TextJoins ==
    ASSUME NEW p \in Paths
    PROVE  \E f : Joins(f, p) /\ Text(p) = f[Len(p)]
<1> DEFINE f == CHOOSE g : Joins(g, p)
<1>1. Joins(f, p)
  BY JoinExists
<1>2. Text(p) = f[Len(p)]
  BY DEF Text, Joins
<1> QED
  BY <1>1, <1>2

LEMMA JoinStep ==
    ASSUME NEW p \in Paths, NEW f, Joins(f, p)
    PROVE  f[0] = <<>> /\ \A k \in 1..Len(p) : f[k] = IF k = 1 THEN p[1]
                                               ELSE f[k - 1] \o <<"/">> \o p[k]
<1>1. Len(p) \in Nat
  BY DEF Paths
<1> QED
  BY <1>1 DEF Joins

LEMMA JoinTyped ==
    ASSUME NEW p \in Paths, NEW f, Joins(f, p)
    PROVE  \A k \in 0..Len(p) : f[k] \in Chars
<1> DEFINE n == Len(p)
           S == {k \in 0..n : f[k] \in Chars}
<1>1. n \in Nat /\ \A k \in 1..n : p[k] \in Chars
  BY DEF Paths
<1>2. f[0] = <<>> /\ \A k \in 1..n : f[k] = IF k = 1 THEN p[1]
                                            ELSE f[k - 1] \o <<"/">> \o p[k]
  BY JoinStep
<1>3. 0 \in S
  BY <1>1, <1>2, Slash
<1>4. ASSUME NEW k \in S, k < n PROVE k + 1 \in S
  <2>1. k + 1 \in 1..n /\ f[k] \in Chars /\ (k + 1) - 1 = k
    BY <1>1, <1>4
  <2>2. p[k + 1] \in Chars
    BY <1>1, <2>1
  <2>3. f[k] \o <<"/">> \in Chars
    BY <2>1, Slash
  <2>4. f[k] \o <<"/">> \o p[k + 1] \in Chars
    BY <2>2, <2>3, Slash
  <2>5. f[k + 1] \in Chars
    BY <1>2, <2>1, <2>2, <2>4
  <2> QED
    BY <2>1, <2>5
<1>5. S \subseteq 0..n
  OBVIOUS
<1>6. S = 0..n
  <2> HIDE DEF S, n
  <2> QED
    BY <1>1, <1>3, <1>4, <1>5, InductionTo
<1> QED
  BY <1>6

\* The text of a path's first segments, each with its slash.
Dirs(d, p) ==
    /\ d \in [0..Len(p) -> Chars] /\ d[0] = <<>>
    /\ \A k \in 1..Len(p) : d[k] = d[k - 1] \o p[k] \o <<"/">>

LEMMA TextDirs ==
    ASSUME NEW p \in Paths
    PROVE  \E d : /\ Dirs(d, p)
                  /\ Text(p) \in Chars
                  /\ p = <<>> => Text(p) = <<>>
                  /\ p # <<>> => Text(p) \o <<"/">> = d[Len(p)]
<1> DEFINE n == Len(p)
<1>1. n \in Nat /\ \A k \in 1..n : p[k] \in Chars
  BY DEF Paths
<1>2. PICK f : Joins(f, p) /\ Text(p) = f[n]
  BY TextJoins
<1>3. f[0] = <<>> /\ \A k \in 1..n : f[k] = IF k = 1 THEN p[1]
                                            ELSE f[k - 1] \o <<"/">> \o p[k]
  BY <1>2, JoinStep
<1>4. \A k \in 0..n : f[k] \in Chars
  BY <1>2, JoinTyped
<1> DEFINE d == [k \in 0..n |-> IF k = 0 THEN <<>> ELSE f[k] \o <<"/">>]
<1>5. d \in [0..n -> Chars] /\ d[0] = <<>>
  BY <1>1, <1>4, Slash
<1>6. ASSUME NEW k \in 1..n PROVE d[k] = d[k - 1] \o p[k] \o <<"/">>
  <2>1. CASE k = 1
    <3>1. p[1] \in Chars /\ <<>> \o p[1] = p[1]
      BY <1>1, <2>1, ConcatEmptySeq DEF Chars
    <3>2. f[1] = p[1]
      BY <1>3, <2>1
    <3>3. 1 \in 0..n /\ 0 \in 0..n
      BY <1>1, <2>1
    <3>4. d[1] = f[1] \o <<"/">>
      BY <3>3
    <3>5. d[0] = <<>>
      BY <3>3
    <3>6. k - 1 = 0
      BY <2>1
    <3> HIDE DEF d
    <3> QED
      BY <3>1, <3>2, <3>4, <3>5, <3>6, <2>1
  <2>2. CASE k # 1
    <3>1. k \in 0..n /\ k - 1 \in 0..n /\ k # 0 /\ k - 1 # 0
      BY <1>1, <2>2
    <3>2. d[k] = f[k] \o <<"/">> /\ d[k - 1] = f[k - 1] \o <<"/">>
      BY <3>1
    <3>3. f[k] = f[k - 1] \o <<"/">> \o p[k]
      BY <1>3, <2>2
    <3> QED
      BY <3>2, <3>3
  <2> QED
    BY <2>1, <2>2
<1>7. Dirs(d, p)
  BY <1>5, <1>6 DEF Dirs
<1>8. Text(p) \in Chars
  BY <1>1, <1>2, <1>4
<1>9. p = <<>> => Text(p) = <<>>
  BY <1>2, <1>3
<1>10. p # <<>> => Text(p) \o <<"/">> = d[n]
  <2> SUFFICES ASSUME p # <<>> PROVE Text(p) \o <<"/">> = d[n]
    OBVIOUS
  <2>1. n # 0
    BY DEF Paths
  <2> QED
    BY <1>1, <1>2, <2>1
<1> QED
  BY <1>7, <1>8, <1>9, <1>10

Starts(s, t) == Len(s) <= Len(t) /\ \A i \in 1..Len(s) : s[i] = t[i]

LEMMA StartsOrder ==
    /\ \A s \in Chars : Starts(s, s)
    /\ \A s, t, u \in Chars : Starts(s, t) /\ Starts(t, u) => Starts(s, u)
    /\ \A s, t, u \in Chars : Starts(s, u) /\ Starts(t, u)
                              => Starts(s, t) \/ Starts(t, s)
    /\ \A s, t \in Chars : Starts(s, s \o t)
<1>1. \A s \in Chars : Len(s) \in Nat
  BY DEF Chars
<1>2. \A s, t, u \in Chars : Starts(s, t) /\ Starts(t, u) => Starts(s, u)
  BY <1>1 DEF Starts
<1>3. \A s, t, u \in Chars : Starts(s, u) /\ Starts(t, u) => Starts(s, t) \/ Starts(t, s)
  BY <1>1 DEF Starts
<1>4. \A s, t \in Chars : Starts(s, s \o t)
  BY ConcatProperties DEF Starts, Chars
<1> QED
  BY <1>1, <1>2, <1>3, <1>4 DEF Starts

\* What a directory's text consists of.
\* A text of b characters, then a segment, then a slash.
Closes(x, b, a) ==
    /\ Len(x) = b + Len(a) + 1 /\ x[Len(x)] = "/"
    /\ \A i \in 1..Len(a) : x[b + i] = a[i]

LEMMA DirStep ==
    ASSUME NEW p \in Paths, NEW d, Dirs(d, p), NEW k \in Nat, k < Len(p),
           NEW l \in Nat, l = k + 1
    PROVE  /\ d[k] \in Chars /\ d[l] \in Chars /\ p[l] \in Chars
           /\ Len(d[k]) \in Nat /\ Len(d[l]) \in Nat /\ Len(p[l]) \in Nat
           /\ Starts(d[k], d[l]) /\ Len(d[k]) < Len(d[l])
           /\ Closes(d[l], Len(d[k]), p[l])
<1>1. /\ Len(p) \in Nat /\ p[l] \in Chars /\ k \in 0..Len(p)
      /\ l \in 0..Len(p) /\ l \in 1..Len(p) /\ l - 1 = k
  BY DEF Paths
<1>2. d[l] \in Chars /\ d[k] \in Chars
  BY <1>1 DEF Dirs
<1> DEFINE s == d[k]  t == p[l]  u == s \o t
<1>3. s \in Chars /\ t \in Chars /\ d[l] = u \o <<"/">>
  BY <1>1, <1>2 DEF Dirs
<1> HIDE DEF s, t
<1>4. Len(s) \in Nat /\ Len(t) \in Nat
  BY <1>3 DEF Chars
<1>5. /\ u \in Chars /\ Len(u) = Len(s) + Len(t)
      /\ \A i \in 1..Len(s) : u[i] = s[i]
      /\ \A i \in 1..Len(t) : u[Len(s) + i] = t[i]
  BY <1>3, <1>4, ConcatProperties DEF Chars
<1> HIDE DEF u
<1>6. /\ Len(d[l]) = Len(u) + 1
      /\ \A i \in 1..Len(u) : d[l][i] = u[i]
      /\ d[l][Len(u) + 1] = "/"
  <2>1. <<"/">> \in Chars /\ Len(<<"/">>) = 1 /\ <<"/">>[1] = "/"
    BY Slash
  <2>2. /\ Len(u \o <<"/">>) = Len(u) + 1
        /\ \A i \in 1..(Len(u) + 1) :
              (u \o <<"/">>)[i] = IF i <= Len(u) THEN u[i] ELSE <<"/">>[i - Len(u)]
    BY <1>5, <2>1, ConcatProperties DEF Chars
  <2>3. Len(u) \in Nat
    BY <1>4, <1>5
  <2> QED
    BY <1>3, <2>1, <2>2, <2>3
<1>7. Starts(s, d[l])
  BY <1>4, <1>5, <1>6 DEF Starts
<1>8. \A i \in 1..Len(t) : d[l][Len(s) + i] = t[i]
  BY <1>4, <1>5, <1>6
<1> QED
  <2>1. Len(d[l]) \in Nat /\ Len(d[l]) = Len(s) + Len(t) + 1
    BY <1>4, <1>5, <1>6
  <2>2. d[l][Len(d[l])] = "/"
    BY <1>5, <1>6, <2>1
  <2>3. Len(s) < Len(d[l])
    BY <1>4, <2>1
  <2> QED
    BY <1>1, <1>2, <1>4, <1>7, <1>8, <2>3, <2>1, <2>2 DEF s, t, Closes

LEMMA DirGrows ==
    ASSUME NEW p \in Paths, NEW d, Dirs(d, p), NEW j \in 0..Len(p)
    PROVE  \A k \in j..Len(p) : Starts(d[j], d[k])
<1> DEFINE n == Len(p)
           S == {m \in 0..(n - j) : Starts(d[j], d[j + m])}
<1>1. n \in Nat /\ n - j \in Nat /\ j \in Nat /\ \A k \in 0..n : d[k] \in Chars
  BY DEF Paths, Dirs
<1>2. 0 \in S
  BY <1>1, StartsOrder
<1>3. ASSUME NEW m \in S, m < n - j PROVE m + 1 \in S
  <2>1. /\ j + (m + 1) = (j + m) + 1 /\ j + m \in 0..n /\ j + m \in Nat
        /\ j + (m + 1) \in 0..n /\ j + m < n
    BY <1>1, <1>3
  <2>2. Starts(d[j + m], d[j + (m + 1)])
    BY <2>1, DirStep
  <2>3. Starts(d[j], d[j + m])
    OBVIOUS
  <2>4. Starts(d[j], d[j + (m + 1)])
    BY <1>1, <2>1, <2>2, <2>3, StartsOrder
  <2> QED
    BY <1>1, <1>3, <2>4
<1>4. S \subseteq 0..(n - j)
  OBVIOUS
<1>5. S = 0..(n - j)
  <2> HIDE DEF S, n
  <2> QED
    BY <1>1, <1>2, <1>3, <1>4, InductionTo
<1>6. ASSUME NEW k \in j..n PROVE Starts(d[j], d[k])
  <2>1. k - j \in 0..(n - j) /\ j + (k - j) = k
    BY <1>1
  <2>2. k - j \in S
    BY <1>5, <2>1
  <2> QED
    BY <2>1, <2>2
<1> QED
  BY <1>6

LEMMA SameDirs ==
    ASSUME NEW p \in Paths, NEW q \in Paths, NEW d, NEW e, Dirs(d, p), Dirs(e, q),
           NEW m \in Nat, m <= Len(p), m <= Len(q), \A i \in 1..m : p[i] = q[i]
    PROVE  d[m] = e[m]
<1> DEFINE S == {k \in 0..m : d[k] = e[k]}
<1>1. Len(p) \in Nat /\ Len(q) \in Nat
  BY DEF Paths
<1>2. 0 \in S
  BY DEF Dirs
<1>3. ASSUME NEW k \in S, k < m PROVE k + 1 \in S
  <2>1. k + 1 \in 1..m /\ (k + 1) - 1 = k /\ k + 1 \in 1..Len(p) /\ k + 1 \in 1..Len(q)
    BY <1>1, <1>3
  <2>2. d[k + 1] = d[k] \o p[k + 1] \o <<"/">> /\ e[k + 1] = e[k] \o q[k + 1] \o <<"/">>
    BY <2>1 DEF Dirs
  <2>3. p[k + 1] = q[k + 1] /\ d[k] = e[k]
    BY <2>1
  <2>4. d[k + 1] = e[k + 1]
    BY <2>2, <2>3
  <2> QED
    BY <2>1, <2>4
<1>4. S \subseteq 0..m
  OBVIOUS
<1>5. S = 0..m
  <2> HIDE DEF S
  <2> QED
    BY <1>2, <1>3, <1>4, InductionTo
<1> QED
  BY <1>5

\* Paths as they are written: no segment is empty or holds a slash.
PlainPaths == Seq(Seq(Characters) \ {<<>>})

LEMMA PlainIsPath ==
    ASSUME NEW p \in PlainPaths
    PROVE  /\ p \in Paths /\ Len(p) \in Nat /\ DOMAIN p = 1..Len(p)
           /\ \A k \in 1..Len(p) :
                 /\ p[k] \in Seq(Characters) /\ p[k] \in Chars
                 /\ Len(p[k]) \in Nat /\ Len(p[k]) > 0
                 /\ \A j \in 1..Len(p[k]) : p[k][j] \in Characters /\ p[k][j] # "/"
<1>1. \A s \in Seq(Characters) : s \in Chars
  BY SeqMonotonic DEF Chars, Char
<1>2. p \in Paths
  BY <1>1, SeqMonotonic DEF PlainPaths, Paths
<1>3. ASSUME NEW k \in 1..Len(p)
      PROVE  /\ p[k] \in Seq(Characters) /\ p[k] \in Chars
             /\ Len(p[k]) \in Nat /\ Len(p[k]) > 0
             /\ \A j \in 1..Len(p[k]) : p[k][j] \in Characters /\ p[k][j] # "/"
  <2>1. p[k] \in Seq(Characters) /\ p[k] # <<>>
    BY DEF PlainPaths
  <2> QED
    BY <1>1, <2>1, ScopeAssumption
<1> QED
  BY <1>2, <1>3 DEF PlainPaths

\* Two segments that end at the first slash of the same text are the same.
LEMMA SameSegment ==
    ASSUME NEW a \in Seq(Characters), NEW c \in Seq(Characters), NEW b \in Nat,
           NEW x \in Chars, NEW y \in Chars, NEW z \in Chars,
           Starts(x, z), Starts(y, z),
           Closes(x, b, a), Closes(y, b, c)
    PROVE  a = c
<1> USE DEF Closes
<1>1. Len(a) \in Nat /\ Len(c) \in Nat
  OBVIOUS
<1>2. \A i \in Nat : i >= 1 /\ i <= Len(x) /\ i <= Len(y) => x[i] = y[i]
  BY <1>1 DEF Starts
<1>3. ~(Len(a) < Len(c))
  <2> SUFFICES ASSUME Len(a) < Len(c) PROVE FALSE
    OBVIOUS
  <2>1. y[b + (Len(a) + 1)] = c[Len(a) + 1] /\ c[Len(a) + 1] \in Characters
    BY <1>1
  <2>2. b + (Len(a) + 1) = Len(x)
    BY <1>1
  <2>3. x[Len(x)] = y[Len(x)]
    BY <1>1, <1>2
  <2> QED
    BY <2>1, <2>2, <2>3, ScopeAssumption
<1>4. ~(Len(c) < Len(a))
  <2> SUFFICES ASSUME Len(c) < Len(a) PROVE FALSE
    OBVIOUS
  <2>1. x[b + (Len(c) + 1)] = a[Len(c) + 1] /\ a[Len(c) + 1] \in Characters
    BY <1>1
  <2>2. b + (Len(c) + 1) = Len(y)
    BY <1>1
  <2>3. x[Len(y)] = y[Len(y)]
    BY <1>1, <1>2
  <2> QED
    BY <2>1, <2>2, <2>3, ScopeAssumption
<1>5. Len(a) = Len(c)
  BY <1>1, <1>3, <1>4
<1>6. ASSUME NEW i \in 1..Len(a) PROVE a[i] = c[i]
  <2>1. x[b + i] = a[i] /\ y[b + i] = c[i]
    BY <1>5
  <2>2. x[b + i] = y[b + i]
    BY <1>1, <1>2, <1>5
  <2> QED
    BY <2>1, <2>2
<1> QED
  BY <1>5, <1>6, SeqEqual

\* The text of a plain path determines its segments.
LEMMA DirsInjective ==
    ASSUME NEW p \in PlainPaths, NEW q \in PlainPaths, NEW d, NEW e,
           Dirs(d, p), Dirs(e, q), Starts(d[Len(p)], e[Len(q)])
    PROVE  Starts(p, q)
<1> DEFINE n == Len(p)  m == Len(q)
           S == {k \in 0..n : k <= m /\ \A i \in 1..k : p[i] = q[i]}
<1>1. /\ n \in Nat /\ m \in Nat /\ p \in Paths /\ q \in Paths
      /\ \A k \in 0..n : d[k] \in Chars
      /\ \A k \in 0..m : e[k] \in Chars
      /\ \A k \in 0..n : Len(d[k]) \in Nat
      /\ \A k \in 0..m : Len(e[k]) \in Nat
  <2>1. n \in Nat /\ m \in Nat /\ p \in Paths /\ q \in Paths
    BY PlainIsPath
  <2>2. (\A k \in 0..n : d[k] \in Chars) /\ (\A k \in 0..m : e[k] \in Chars)
    BY DEF Dirs
  <2> QED
    BY <2>1, <2>2 DEF Chars
<1>2. 0 \in S
  BY <1>1
<1>3. ASSUME NEW k \in S, k < n PROVE k + 1 \in S
  <2>0. PICK l \in Nat : l = k + 1
    OBVIOUS
  <2>1. k \in Nat /\ k <= m /\ k <= n /\ \A i \in 1..k : p[i] = q[i]
    BY <1>1
  <2>2. d[k] = e[k]
    BY <1>1, <2>1, SameDirs
  <2>3. l \in 1..n /\ l - 1 = k /\ n \in l..n /\ l \in 0..n
    BY <1>1, <1>3, <2>0
  <2>4. Starts(d[l], e[m])
    <3>1. Starts(d[l], d[n])
      BY <1>1, <2>3, DirGrows
    <3> QED
      BY <1>1, <2>3, <3>1, StartsOrder
  <2>5. Closes(d[l], Len(d[k]), p[l])
    BY <1>1, <1>3, <2>0, <2>1, DirStep
  <2>6. p[l] \in Seq(Characters) /\ Len(p[l]) \in Nat
    BY <2>3, PlainIsPath
  <2>7. k # m
    <3>1. Len(d[l]) <= Len(e[m])
      BY <2>4 DEF Starts
    <3>2. Len(d[k]) \in Nat /\ Len(d[l]) \in Nat
      BY <1>1, <2>1, <2>3
    <3>3. Len(d[k]) < Len(d[l])
      BY <1>1, <1>3, <2>0, <2>1, DirStep
    <3> HIDE DEF S, n, m
    <3>4. k = m => Len(d[k]) = Len(e[m])
      BY <2>2
    <3>5. ~(Len(d[k]) = Len(e[m]))
      BY <3>1, <3>2, <3>3
    <3> QED
      BY <3>4, <3>5
  <2>8. l \in 1..m /\ m \in l..m /\ l \in 0..m /\ k < m
    BY <1>1, <2>0, <2>1, <2>7
  <2>9. Closes(e[l], Len(d[k]), q[l])
    BY <1>1, <2>1, <2>2, <2>0, <2>8, DirStep
  <2>10. Starts(e[l], e[m])
    BY <1>1, <2>8, DirGrows
  <2>11. q[l] \in Seq(Characters)
    BY <2>8, PlainIsPath
  <2>12. /\ Len(d[k]) \in Nat /\ d[l] \in Chars /\ e[l] \in Chars /\ e[m] \in Chars
    BY <1>1, <2>1, <2>3, <2>8
  <2>13. p[l] = q[l]
    <3> HIDE DEF S, n, m
    <3> QED
      BY <2>4, <2>5, <2>6, <2>9, <2>10, <2>11, <2>12, SameSegment
  <2>14. \A i \in 1..l : p[i] = q[i]
    BY <2>0, <2>1, <2>13
  <2> QED
    BY <2>0, <2>3, <2>8, <2>14
<1>4. S \subseteq 0..n
  OBVIOUS
<1>5. S = 0..n
  <2> HIDE DEF S, n
  <2> QED
    BY <1>1, <1>2, <1>3, <1>4, InductionTo
<1> QED
  BY <1>1, <1>5 DEF Starts

-----------------------------------------------------------------------------
(* What prefixes of paths are as text.                                      *)

\* A path below another begins with the other's text and a slash.
LEMMA TextBelow ==
    ASSUME NEW p \in Paths, NEW q \in Paths, p # <<>>, Starts(p, q), Len(p) # Len(q)
    PROVE  Starts(Text(p) \o <<"/">>, Text(q))
<1>1. PICK d : Dirs(d, p) /\ Text(p) \o <<"/">> = d[Len(p)]
  BY TextDirs
<1>2. Len(p) \in Nat /\ Len(q) \in Nat /\ Len(p) < Len(q) /\ q # <<>>
  BY DEF Starts, Paths
<1>3. PICK e : Dirs(e, q) /\ Text(q) \in Chars /\ Text(q) \o <<"/">> = e[Len(q)]
  BY <1>2, TextDirs
<1> DEFINE n == Len(p)  m == Len(q)
<1>4. d[n] = e[n]
  BY <1>1, <1>2, <1>3, SameDirs DEF Starts
<1>5a. PICK l \in Nat : l = n + 1
  BY <1>2
<1>5. /\ n \in 0..m /\ l \in 1..m /\ m \in l..m /\ l - 1 = n
      /\ l \in 0..m /\ m \in 0..m
  BY <1>2, <1>5a
<1>6. /\ Starts(e[n], e[l]) /\ Len(e[n]) < Len(e[l])
      /\ Len(e[n]) \in Nat /\ Len(e[l]) \in Nat
  BY <1>2, <1>3, <1>5a, DirStep
<1>7. Starts(e[l], e[m])
  BY <1>3, <1>5, DirGrows
<1>8. /\ e[n] \in Chars /\ e[l] \in Chars /\ e[m] \in Chars
      /\ Len(e[m]) \in Nat
  <2>1. e[n] \in Chars /\ e[l] \in Chars /\ e[m] \in Chars
    BY <1>3, <1>5 DEF Dirs
  <2> HIDE DEF n, m
  <2> QED
    BY <2>1 DEF Chars
<1>9. Starts(e[n], e[m]) /\ Len(e[n]) < Len(e[m])
  <2>1. Starts(e[n], e[m])
    BY <1>6, <1>7, <1>8, StartsOrder
  <2> HIDE DEF n, m
  <2>2. Len(e[l]) <= Len(e[m])
    BY <1>7 DEF Starts
  <2>4. Len(e[n]) < Len(e[m])
    BY <1>6, <1>8, <2>2
  <2> QED
    BY <2>1, <2>4
<1>10. /\ Len(e[m]) = Len(Text(q)) + 1 /\ Len(Text(q)) \in Nat
       /\ \A i \in 1..Len(Text(q)) : e[m][i] = Text(q)[i]
  BY <1>3, Slash, ConcatProperties DEF Chars
<1> QED
  BY <1>1, <1>4, <1>8, <1>9, <1>10 DEF Starts

\* And only a path below another does.
LEMMA BelowOnly ==
    ASSUME NEW p \in PlainPaths, NEW q \in PlainPaths, p # <<>>, q # <<>>,
           Text(p) = Text(q) \/ Starts(Text(p) \o <<"/">>, Text(q))
    PROVE  Starts(p, q)
<1>1. p \in Paths /\ q \in Paths
  BY PlainIsPath
<1>2. PICK d : Dirs(d, p) /\ Text(p) \in Chars /\ Text(p) \o <<"/">> = d[Len(p)]
  BY <1>1, TextDirs
<1>3. PICK e : Dirs(e, q) /\ Text(q) \in Chars /\ Text(q) \o <<"/">> = e[Len(q)]
  BY <1>1, TextDirs
<1>4. d[Len(p)] \in Chars /\ e[Len(q)] \in Chars
  BY <1>2, <1>3, Slash
<1>5. Starts(d[Len(p)], e[Len(q)])
  <2>1. CASE Text(p) = Text(q)
    BY <1>2, <1>3, <1>4, <2>1, StartsOrder
  <2>2. CASE Starts(Text(p) \o <<"/">>, Text(q))
    <3>1. Starts(Text(q), e[Len(q)])
      <4>1. <<"/">> \in Chars
        BY Slash
      <4>2. Starts(Text(q), Text(q) \o <<"/">>)
        BY <1>3, <4>1, StartsOrder
      <4> QED
        BY <1>3, <4>2
    <3> QED
      BY <1>2, <1>3, <1>4, <2>2, <3>1, StartsOrder
  <2> QED
    BY <2>1, <2>2
<1> QED
  BY <1>2, <1>3, <1>5, DirsInjective

-----------------------------------------------------------------------------
(* The segments a spelling names.                                           *)

Blank == {<<>>, <<".">>}
Keeps(f, s) ==
    f = [k \in 0..Len(s) |-> IF k = 0 THEN <<>>
                             ELSE IF s[k] \in Blank THEN f[k - 1]
                             ELSE Append(f[k - 1], s[k])]
Keeping(f, s) ==
    /\ f \in [0..Len(s) -> Seq(Segments)] /\ f[0] = <<>>
    /\ \A k \in 1..Len(s) :
          f[k] = IF s[k] \in Blank THEN f[k - 1] ELSE Append(f[k - 1], s[k])

LEMMA KeepExists == ASSUME NEW s \in Seq(Segments) PROVE \E f : Keeps(f, s)
<1> DEFINE n == Len(s)  X == Seq(Segments)
           step == [x \in (1..n) \X X |->
                       IF s[x[1]] \in Blank THEN x[2] ELSE Append(x[2], s[x[1]])]
<1>1. n \in Nat /\ <<>> \in X /\ \A k \in 1..n : s[k] \in Segments
  OBVIOUS
<1>2. step \in [(1..n) \X X -> X]
  <2>1. ASSUME NEW k \in 1..n, NEW t \in X
        PROVE  (IF s[k] \in Blank THEN t ELSE Append(t, s[k])) \in X
    BY <1>1
  <2> QED
    BY <2>1
<1>3. \E f : Iterates(f, n, X, <<>>, step)
  <2> HIDE DEF step, n, X
  <2> QED
    BY <1>1, <1>2, Recursion
<1>4. PICK f \in [0..n -> X] :
          f[0] = <<>> /\ \A k \in 1..n : f[k] = step[<<k, f[k - 1]>>]
  <2> HIDE DEF step, n, X
  <2> QED
    BY <1>3 DEF Iterates
<1>5. ASSUME NEW k \in 0..n
      PROVE  f[k] = IF k = 0 THEN <<>>
                    ELSE IF s[k] \in Blank THEN f[k - 1]
                    ELSE Append(f[k - 1], s[k])
  <2>1. CASE k = 0
    BY <1>4, <2>1
  <2>2. CASE k # 0
    <3>1. k \in 1..n /\ k - 1 \in 0..n /\ f[k - 1] \in X
      BY <1>1, <2>2
    <3>2. f[k] = step[<<k, f[k - 1]>>]
      BY <1>4, <3>1
    <3>3. <<k, f[k - 1]>> \in (1..n) \X X
      BY <3>1
    <3> QED
      BY <3>1, <3>2, <3>3, <2>2
  <2> QED
    BY <2>1, <2>2
<1>6. f = [k \in 0..n |-> IF k = 0 THEN <<>>
                          ELSE IF s[k] \in Blank THEN f[k - 1]
                          ELSE Append(f[k - 1], s[k])]
  <2>1. DOMAIN f = 0..n
    OBVIOUS
  <2> QED
    BY <1>5, <2>1
<1> QED
  BY <1>6 DEF Keeps

LEMMA KeepStep ==
    ASSUME NEW s \in Seq(Segments), NEW f, Keeps(f, s)
    PROVE  /\ f = [k \in 0..Len(s) |-> f[k]] /\ f[0] = <<>>
           /\ \A k \in 1..Len(s) :
                 f[k] = IF s[k] \in Blank THEN f[k - 1] ELSE Append(f[k - 1], s[k])
<1>1. Len(s) \in Nat
  OBVIOUS
<1>2. /\ f[0] = <<>>
      /\ \A k \in 1..Len(s) :
            f[k] = IF s[k] \in Blank THEN f[k - 1] ELSE Append(f[k - 1], s[k])
  <2>1. \A k \in 0..Len(s) : f[k] = IF k = 0 THEN <<>>
                                    ELSE IF s[k] \in Blank THEN f[k - 1]
                                    ELSE Append(f[k - 1], s[k])
    BY Zenon DEF Keeps
  <2>2. f[0] = <<>>
    BY <1>1, <2>1
  <2>3. \A k \in 1..Len(s) : k \in 0..Len(s) /\ k # 0
    BY <1>1
  <2> QED
    BY <2>1, <2>2, <2>3
<1>3. f = [k \in 0..Len(s) |-> f[k]]
  BY DEF Keeps
<1> QED
  BY <1>2, <1>3

LEMMA NamedKeeps ==
    ASSUME NEW s \in Seq(Segments)
    PROVE  \E f : Keeping(f, s) /\ Named(s) = f[Len(s)]
<1> DEFINE f == CHOOSE g : Keeps(g, s)
           n == Len(s)
           S == {k \in 0..n : f[k] \in Seq(Segments)}
<1>1. Keeps(f, s)
  BY KeepExists
<1>2. Named(s) = f[Len(s)]
  BY DEF Named, Keeps, Blank
<1> HIDE DEF f
<1>3. n \in Nat
  OBVIOUS
<1>4. /\ f[0] = <<>>
      /\ \A k \in 1..n : f[k] = IF s[k] \in Blank THEN f[k - 1] ELSE Append(f[k - 1], s[k])
  BY <1>1, KeepStep
<1>5. 0 \in S
  <2>1. f[0] \in Seq(Segments)
    BY <1>4
  <2> QED
    BY <1>3, <2>1
<1>6. ASSUME NEW k \in S, k < n PROVE k + 1 \in S
  <2>1. k + 1 \in 1..n /\ f[k] \in Seq(Segments) /\ (k + 1) - 1 = k
    BY <1>3, <1>6
  <2>2. s[k + 1] \in Segments
    BY <2>1
  <2>3. f[k + 1] = IF s[k + 1] \in Blank THEN f[k] ELSE Append(f[k], s[k + 1])
    BY <1>4, <2>1
  <2>4. f[k + 1] \in Seq(Segments)
    BY <2>1, <2>2, <2>3
  <2> QED
    BY <2>1, <2>4
<1>7. S \subseteq 0..n
  OBVIOUS
<1>8. S = 0..n
  <2> HIDE DEF S, n
  <2> QED
    BY <1>3, <1>5, <1>6, <1>7, InductionTo
<1>9. \A k \in 0..n : f[k] \in Seq(Segments)
  BY <1>8
<1>10. f = [k \in 0..n |-> f[k]]
  BY <1>1, KeepStep
<1>11. f \in [0..n -> Seq(Segments)]
  BY <1>9, <1>10
<1> QED
  BY <1>2, <1>4, <1>11 DEF Keeping

\* The named segments are those that are not blank.
LEMMA NamedMembers ==
    ASSUME NEW s \in Seq(Segments)
    PROVE  /\ Named(s) \in Seq(Segments) /\ Len(Named(s)) <= Len(s)
           /\ \A j \in 1..Len(Named(s)) :
                 \E i \in 1..Len(s) : s[i] \notin Blank /\ Named(s)[j] = s[i]
           /\ \A i \in 1..Len(s) : s[i] \notin Blank =>
                 \E j \in 1..Len(Named(s)) : Named(s)[j] = s[i]
<1>1. PICK f : Keeping(f, s) /\ Named(s) = f[Len(s)]
  BY NamedKeeps
<1> DEFINE n == Len(s)
           Good(k) == /\ Len(f[k]) <= k
                      /\ \A j \in 1..Len(f[k]) :
                            \E i \in 1..k : s[i] \notin Blank /\ f[k][j] = s[i]
                      /\ \A i \in 1..k : s[i] \notin Blank =>
                            \E j \in 1..Len(f[k]) : f[k][j] = s[i]
           S == {k \in 0..n : Good(k)}
<1>2. n \in Nat /\ f[0] = <<>>
  BY <1>1 DEF Keeping
<1>3. 0 \in S
  BY <1>2
<1>4. ASSUME NEW k \in S, k < n PROVE k + 1 \in S
  <2>1. PICK l \in Nat : l = k + 1
    BY <1>2
  <2>2. l \in 1..n /\ l - 1 = k /\ k \in 0..n /\ l \in 0..n
    BY <1>2, <1>4, <2>1
  <2>3. f[l] = IF s[l] \in Blank THEN f[k] ELSE Append(f[k], s[l])
    BY <1>1, <2>2 DEF Keeping
  <2>4. f[k] \in Seq(Segments) /\ Len(f[k]) \in Nat /\ s[l] \in Segments
    BY <1>1, <2>2 DEF Keeping
  <2>5. Good(k)
    OBVIOUS
  <2>6. CASE s[l] \in Blank
    <3>1. f[l] = f[k]
      BY <2>3, <2>6
    <3>2. Good(l)
      BY <2>1, <2>2, <2>4, <2>5, <2>6, <3>1
    <3> QED
      BY <2>1, <2>2, <3>2
  <2>7. CASE s[l] \notin Blank
    <3>1. PICK t \in Seq(Segments) : t = f[k]
      BY <2>4
    <3>2. /\ Len(t) \in Nat /\ Len(f[l]) = Len(t) + 1
          /\ \A j \in 1..Len(t) : f[l][j] = t[j]
          /\ f[l][Len(t) + 1] = s[l]
      BY <2>3, <2>4, <2>7, <3>1
    <3>3. Len(t) <= k
      BY <2>5, <3>1
    <3>4. Len(f[l]) <= l
      BY <2>1, <2>2, <3>2, <3>3
    <3>5. ASSUME NEW j \in 1..Len(f[l])
          PROVE  \E i \in 1..l : s[i] \notin Blank /\ f[l][j] = s[i]
      <4>1. CASE j = Len(t) + 1
        BY <2>2, <2>7, <3>2, <4>1
      <4>2. CASE j # Len(t) + 1
        <5>1. j \in 1..Len(t) /\ f[l][j] = t[j]
          BY <3>2, <4>2
        <5>2. \E i \in 1..k : s[i] \notin Blank /\ t[j] = s[i]
          BY <2>5, <3>1, <5>1
        <5> QED
          BY <2>1, <2>2, <5>1, <5>2
      <4> QED
        BY <4>1, <4>2
    <3>6. ASSUME NEW i \in 1..l, s[i] \notin Blank
          PROVE  \E j \in 1..Len(f[l]) : f[l][j] = s[i]
      <4>1. CASE i = l
        <5>1. Len(t) + 1 \in 1..Len(f[l])
          BY <3>2
        <5> QED
          BY <3>2, <4>1, <5>1
      <4>2. CASE i # l
        <5>1. i \in 1..k
          BY <2>1, <2>2, <4>2
        <5>2. PICK j \in 1..Len(t) : t[j] = s[i]
          BY <2>5, <3>1, <3>6, <5>1
        <5>3. j \in 1..Len(f[l]) /\ f[l][j] = s[i]
          BY <3>2, <5>2
        <5> QED
          BY <5>3
      <4> QED
        BY <4>1, <4>2
    <3>7. Good(l)
      BY <3>4, <3>5, <3>6
    <3> QED
      BY <2>1, <2>2, <3>7
  <2> QED
    BY <2>6, <2>7
<1>5. S \subseteq 0..n
  OBVIOUS
<1>6. S = 0..n
  <2> HIDE DEF S, n
  <2> QED
    BY <1>2, <1>3, <1>4, <1>5, InductionTo
<1>7. Good(n)
  <2> HIDE DEF Good
  <2> QED
    BY <1>2, <1>6
<1>8. f[n] \in Seq(Segments)
  BY <1>1, <1>2 DEF Keeping
<1> QED
  BY <1>1, <1>7, <1>8

\* Leading "." segments name nothing.
LEMMA NamedSuffix ==
    ASSUME NEW s \in Seq(Segments), NEW first \in 1..Len(s),
           \A i \in 1..(first - 1) : s[i] = <<".">>
    PROVE  Named(SubSeq(s, first, Len(s))) = Named(s)
<1> DEFINE n == Len(s)  t == SubSeq(s, first, n)  b == first - 1  m == n - b
<1>1. /\ n \in Nat /\ b \in Nat /\ b \in 0..n /\ first \in Nat /\ m \in Nat /\ b + m = n
      /\ t \in Seq(Segments) /\ Len(t) = m
      /\ \A k \in 1..m : t[k] = s[b + k]
  <2>1. n \in Nat /\ first \in Nat /\ first <= n /\ first >= 1
    OBVIOUS
  <2>2. /\ t \in Seq(Segments) /\ Len(t) = n - first + 1
        /\ \A k \in 1..(n - first + 1) : t[k] = s[first + k - 1]
    <3>1. \A i \in first..n : s[i] \in Segments
      BY <2>1
    <3> QED
      BY <2>1, <3>1, SubSeqProperties
  <2>3. n - first + 1 = m /\ m \in Nat /\ b \in Nat /\ b + m = n /\ b \in 0..n
    BY <2>1
  <2>4. ASSUME NEW k \in 1..m PROVE t[k] = s[b + k]
    <3>1. first + k - 1 = b + k
      BY <2>1, <2>3
    <3>2. t[k] = s[first + k - 1]
      BY <2>2, <2>3
    <3> HIDE DEF b, t
    <3> QED
      BY <3>1, <3>2
  <2> QED
    BY <2>1, <2>2, <2>3, <2>4
<1>2. PICK f : Keeping(f, s) /\ Named(s) = f[n]
  BY NamedKeeps
<1>3. PICK g : Keeping(g, t) /\ Named(t) = g[Len(t)]
  BY <1>1, NamedKeeps
<1> DEFINE S == {k \in 0..b : f[k] = <<>>}
           T == {k \in 0..m : g[k] = f[b + k]}
<1>4. 0 \in S
  BY <1>1, <1>2 DEF Keeping
<1>5. ASSUME NEW k \in S, k < b PROVE k + 1 \in S
  <2>1. k + 1 \in 1..b /\ k + 1 \in 1..n /\ (k + 1) - 1 = k /\ k + 1 \in 1..(first - 1)
    BY <1>1, <1>5
  <2>2. s[k + 1] \in Blank
    BY <2>1 DEF Blank
  <2>3. f[k + 1] = f[k]
    BY <1>2, <2>1, <2>2 DEF Keeping
  <2> QED
    BY <2>1, <2>3
<1>6. S = 0..b
  <2>1. S \subseteq 0..b
    OBVIOUS
  <2> HIDE DEF S, b
  <2> QED
    BY <1>1, <1>4, <1>5, <2>1, InductionTo
<1>7. f[b] = <<>>
  BY <1>1, <1>6
<1>8. 0 \in T
  <2>1. g[0] = <<>> /\ b + 0 = b
    BY <1>1, <1>3 DEF Keeping
  <2> QED
    BY <1>1, <1>7, <2>1
<1>9. ASSUME NEW k \in T, k < m PROVE k + 1 \in T
  <2>1. /\ k + 1 \in 1..m /\ (k + 1) - 1 = k /\ b + (k + 1) \in 1..n
        /\ (b + (k + 1)) - 1 = b + k /\ k + 1 \in 1..Len(t)
    BY <1>1, <1>9
  <2>2. g[k + 1] = IF t[k + 1] \in Blank THEN g[k] ELSE Append(g[k], t[k + 1])
    BY <1>3, <2>1 DEF Keeping
  <2>3. f[b + (k + 1)] = IF s[b + (k + 1)] \in Blank THEN f[b + k]
                         ELSE Append(f[b + k], s[b + (k + 1)])
    BY <1>2, <2>1 DEF Keeping
  <2>4. t[k + 1] = s[b + (k + 1)] /\ g[k] = f[b + k]
    BY <1>1, <2>1
  <2>5. g[k + 1] = f[b + (k + 1)]
    BY <2>2, <2>3, <2>4
  <2> QED
    BY <2>1, <2>5
<1>10. T = 0..m
  <2>1. T \subseteq 0..m
    OBVIOUS
  <2> HIDE DEF T, m
  <2> QED
    BY <1>1, <1>8, <1>9, <2>1, InductionTo
<1>11. g[m] = f[n]
  <2>1. m \in T
    BY <1>1, <1>10
  <2>2. b + m = n
    BY <1>1
  <2> QED
    BY <2>1, <2>2
<1> QED
  BY <1>1, <1>2, <1>3, <1>11

LEMMA PartsAreNamed ==
    ASSUME NEW raw \in Seq(Segments), raw # <<>>
    PROVE  Parts(raw) = Named(raw)
<1> DEFINE n == Len(raw)
           kept == {k \in 1..n : \A i \in 1..(k - 1) : raw[i] = <<".">>}
           first == CHOOSE k \in kept : \A i \in kept : i <= k
<1>1. n \in Nat /\ n >= 1
  OBVIOUS
<1>2. 1 \in kept /\ kept \subseteq 0..n
  BY <1>1
<1>3. \E k \in kept : \A i \in kept : i <= k
  <2> HIDE DEF kept, n
  <2> QED
    BY <1>1, <1>2, Greatest
<1>4. first \in kept
  <2> HIDE DEF kept
  <2> QED
    BY <1>3
<1>5. Stripped(raw) = SubSeq(raw, first, n)
  BY DEF Stripped
<1> HIDE DEF first
<1>6. first \in 1..n /\ \A i \in 1..(first - 1) : raw[i] = <<".">>
  BY <1>4
<1> QED
  BY <1>5, <1>6, NamedSuffix DEF Parts

LEMMA RawIsSequence ==
    /\ \A raw \in Raw : raw \in Seq(Segments) /\ raw # <<>> /\ Len(raw) <= MaxSegments
    /\ \A file \in Files : file \in Paths /\ file # <<>>
    /\ \A q \in Seq(Names) : q # <<>> /\ Len(q) <= MaxDepth => q \in Files
<1>1. ASSUME NEW S, NEW n \in Nat, NEW s \in BoundedSeq(S, n)
      PROVE  s \in Seq(S) /\ Len(s) <= n
  <2>1. PICK m \in 0..n : s \in [1..m -> S]
    BY <1>1 DEF BoundedSeq, SeqOf
  <2> QED
    BY <2>1
<1>2. ASSUME NEW S, NEW n \in Nat, NEW s \in Seq(S), Len(s) <= n
      PROVE  s \in BoundedSeq(S, n)
  <2>1. s \in [1..Len(s) -> S] /\ Len(s) \in 0..n
    BY <1>2
  <2> QED
    BY <2>1 DEF BoundedSeq, SeqOf
<1>3. \A p \in Seq(Names) : p \in Paths
  <2>1. Names \subseteq Chars
    BY ScopeAssumption, SeqMonotonic DEF Chars, Char
  <2> QED
    BY <2>1, SeqMonotonic DEF Paths
<1>4. MaxSegments \in Nat /\ MaxDepth \in Nat
  BY ScopeAssumption
<1> QED
  BY <1>1, <1>2, <1>3, <1>4 DEF Raw, Files

\* What an accepted scope is made of.
LEMMA AcceptedParts ==
    ASSUME NEW raw \in Raw, Accepted(raw)
    PROVE  /\ Parts(raw) = Named(raw) /\ Named(raw) # <<>>
           /\ Named(raw) \in PlainPaths /\ Len(Named(raw)) <= MaxSegments
           /\ \A j \in 1..Len(Named(raw)) :
                 /\ Named(raw)[j] \in Segments \ {<<>>, <<".">>, <<".", ".">>}
                 /\ \E i \in 1..Len(raw) : Named(raw)[j] = raw[i]
           /\ \A i \in 1..Len(raw) :
                 \/ raw[i] = <<>> \/ raw[i] = <<".">>
                 \/ \E j \in 1..Len(Named(raw)) : Named(raw)[j] = raw[i]
<1> DEFINE p == Named(raw)
<1>1. raw \in Seq(Segments) /\ raw # <<>> /\ Len(raw) <= MaxSegments
  BY RawIsSequence
<1>2. Parts(raw) = p
  BY <1>1, PartsAreNamed
<1>3. p # <<>>
  BY <1>2 DEF Accepted
<1>4. /\ p \in Seq(Segments) /\ Len(p) <= Len(raw)
      /\ \A j \in 1..Len(p) :
            \E i \in 1..Len(raw) : raw[i] \notin Blank /\ p[j] = raw[i]
      /\ \A i \in 1..Len(raw) : raw[i] \notin Blank =>
            \E j \in 1..Len(p) : p[j] = raw[i]
  BY <1>1, NamedMembers
<1> HIDE DEF p
<1>5. ASSUME NEW j \in 1..Len(p)
      PROVE  /\ p[j] \in Segments \ {<<>>, <<".">>, <<".", ".">>}
             /\ \E i \in 1..Len(raw) : p[j] = raw[i]
  <2>1. PICK i \in 1..Len(raw) : raw[i] \notin Blank /\ p[j] = raw[i]
    BY <1>4
  <2>2. raw[i] \in Segments /\ i \in DOMAIN raw
    BY <1>1
  <2>3. raw[i] # <<".", ".">>
    BY <2>2, Zenon DEF Accepted
  <2> QED
    BY <2>1, <2>2, <2>3 DEF Blank
<1>6. \A i \in 1..Len(raw) :
         raw[i] = <<>> \/ raw[i] = <<".">> \/ \E j \in 1..Len(p) : p[j] = raw[i]
  BY <1>4 DEF Blank
<1>7. Len(p) <= MaxSegments
  <2>1. Len(p) \in Nat /\ Len(raw) \in Nat /\ MaxSegments \in Nat
    BY <1>1, <1>4, ScopeAssumption
  <2> QED
    BY <1>1, <1>4, <2>1
<1>8. p \in PlainPaths
  <2>1. \A j \in 1..Len(p) : p[j] \in Seq(Characters) \ {<<>>}
    BY <1>5, ScopeAssumption
  <2>2. p \in [1..Len(p) -> Seq(Characters) \ {<<>>}] /\ Len(p) \in Nat
    BY <1>4, <2>1
  <2> QED
    BY <2>2 DEF PlainPaths
<1> QED
  BY <1>2, <1>3, <1>5, <1>6, <1>7, <1>8 DEF p

-----------------------------------------------------------------------------
(* The text of a scope and its literal prefix.                              *)

LEMMA PlainText ==
    ASSUME NEW p \in PlainPaths, p # <<>>
    PROVE  /\ Text(p) \in Chars /\ Len(Text(p)) \in Nat /\ Len(Text(p)) > 0
           /\ Text(p)[Len(Text(p))] # "/"
<1> DEFINE n == Len(p)  t == Text(p)
<1>1. p \in Paths /\ n \in Nat
  BY PlainIsPath
<1>2. PICK d : Dirs(d, p) /\ t \in Chars /\ t \o <<"/">> = d[n]
  BY <1>1, TextDirs
<1>3. PICK k \in Nat : n = k + 1
  <2>1. n # 0
    BY <1>1 DEF Paths
  <2>2. n - 1 \in Nat /\ n = (n - 1) + 1
    BY <1>1, <2>1
  <2> QED
    BY <2>2
<1>4. /\ Len(d[k]) \in Nat /\ Closes(d[n], Len(d[k]), p[n])
  BY <1>1, <1>2, <1>3, DirStep
<1>5. Len(p[n]) \in Nat /\ Len(p[n]) > 0 /\ p[n][Len(p[n])] # "/"
  <2>1. n \in 1..Len(p)
    BY <1>1, <1>3
  <2>2. Len(p[n]) \in Nat /\ Len(p[n]) > 0 /\ \A j \in 1..Len(p[n]) : p[n][j] # "/"
    BY <2>1, PlainIsPath
  <2> QED
    BY <2>2
<1> DEFINE u == d[n]  s == p[n]  b == Len(d[k])
<1>6. /\ Len(u) = Len(t) + 1 /\ Len(t) \in Nat
      /\ \A i \in 1..Len(t) : u[i] = t[i]
  BY <1>2, Slash, ConcatProperties DEF Chars
<1>7. /\ b \in Nat /\ Len(s) \in Nat /\ Len(s) > 0 /\ s[Len(s)] # "/"
      /\ Len(u) = b + Len(s) + 1 /\ \A i \in 1..Len(s) : u[b + i] = s[i]
  BY <1>4, <1>5 DEF Closes
<1> HIDE DEF u, s, b, t
<1>8. Len(t) = b + Len(s) /\ u[b + Len(s)] = s[Len(s)]
  BY <1>6, <1>7
<1>9. Len(t) > 0 /\ t[Len(t)] # "/"
  BY <1>6, <1>7, <1>8
<1> QED
  BY <1>2, <1>6, <1>9 DEF t

\* A text holds a wildcard just when one of its segments does.
LEMMA TextStars ==
    ASSUME NEW p \in PlainPaths, p # <<>>
    PROVE  (\E i \in 1..Len(Text(p)) : Text(p)[i] = "*")
           <=> \E k \in 1..Len(p) : \E j \in 1..Len(p[k]) : p[k][j] = "*"
<1> DEFINE n == Len(p)  t == Text(p)
           Star(k) == \E c \in 1..k : \E j \in 1..Len(p[c]) : p[c][j] = "*"
<1>1. p \in Paths /\ n \in Nat
  BY PlainIsPath
<1>2. PICK d : Dirs(d, p) /\ t \in Chars /\ t \o <<"/">> = d[n]
  BY <1>1, TextDirs
<1>3. /\ Len(d[n]) = Len(t) + 1 /\ Len(t) \in Nat
      /\ \A i \in 1..Len(t) : d[n][i] = t[i]
  BY <1>2, Slash, ConcatProperties DEF Chars
<1>4. ASSUME NEW c \in 1..n, NEW j \in 1..Len(p[c]), p[c][j] = "*"
      PROVE  \E i \in 1..Len(t) : t[i] = "*"
  <2>1. PICK k \in Nat : c = k + 1
    <3>1. c - 1 \in Nat /\ c = (c - 1) + 1
      BY <1>1
    <3> QED
      BY <3>1
  <2>2. c \in Nat /\ k < n /\ c \in 0..n /\ n \in c..n
    BY <1>1, <2>1
  <2>3. Len(d[k]) \in Nat /\ Len(d[c]) \in Nat /\ Closes(d[c], Len(d[k]), p[c])
    BY <1>1, <1>2, <2>1, <2>2, DirStep
  <2>4. Starts(d[c], d[n])
    BY <1>1, <1>2, <2>2, DirGrows
  <2>5. Len(p[c]) \in Nat /\ j \in Nat /\ j >= 1 /\ j <= Len(p[c])
    BY PlainIsPath
  <2> DEFINE x == d[c]  b == Len(d[k])  s == p[c]  y == d[n]
  <2>6. /\ b \in Nat /\ Len(x) \in Nat /\ Len(s) \in Nat /\ Len(x) = b + Len(s) + 1
        /\ x[b + j] = s[j] /\ s[j] = "*"
    BY <1>4, <2>3, <2>5 DEF Closes
  <2>7. Len(y) = Len(t) + 1 /\ \A i \in 1..Len(t) : y[i] = t[i]
    BY <1>3
  <2>8. Len(x) <= Len(y) /\ \A i \in 1..Len(x) : x[i] = y[i]
    BY <2>4 DEF Starts
  <2> HIDE DEF x, b, s, y, t
  <2>9. b + j \in 1..Len(x) /\ b + j \in 1..Len(t)
    BY <1>3, <2>5, <2>6, <2>7, <2>8 DEF s
  <2>10. t[b + j] = "*"
    BY <2>6, <2>7, <2>8, <2>9
  <2> QED
    BY <2>9, <2>10
<1>5. ASSUME NEW i \in 1..Len(t), t[i] = "*" PROVE Star(n)
  <2> DEFINE S == {k \in 0..n : \A a \in 1..Len(d[k]) : d[k][a] = "*" => Star(k)}
  <2>1. 0 \in S
    BY <1>1, <1>2 DEF Dirs
  <2>2. ASSUME NEW k \in S, k < n PROVE k + 1 \in S
    <3>1. PICK l \in Nat : l = k + 1
      OBVIOUS
    <3>2. k \in Nat /\ l \in 0..n /\ l \in 1..n /\ k \in 0..n /\ l - 1 = k
      BY <1>1, <2>2, <3>1
    <3>3. /\ Len(d[k]) \in Nat /\ Len(d[l]) \in Nat /\ Starts(d[k], d[l])
          /\ Closes(d[l], Len(d[k]), p[l])
      BY <1>1, <1>2, <2>2, <3>1, <3>2, DirStep
    <3>4. Len(p[l]) \in Nat
      BY <3>2, PlainIsPath
    <3>5. ASSUME NEW a \in 1..Len(d[l]), d[l][a] = "*" PROVE Star(l)
      <4> DEFINE x == d[l]  z == d[k]  b == Len(z)  s == p[l]
      <4>1. /\ b \in Nat /\ Len(x) \in Nat /\ Len(s) \in Nat /\ Len(x) = b + Len(s) + 1
            /\ x[Len(x)] = "/" /\ \A j \in 1..Len(s) : x[b + j] = s[j]
        BY <3>3, <3>4 DEF Closes
      <4>2. \A j \in 1..b : z[j] = x[j]
        BY <3>3 DEF Starts
      <4>3. a \in 1..Len(x) /\ x[a] = "*"
        BY <3>5
      <4>4. CASE a <= b
        <5>1. a \in 1..Len(d[k]) /\ d[k][a] = "*"
          BY <4>1, <4>2, <4>3, <4>4
        <5>2. Star(k)
          BY <5>1
        <5>3. 1..k \subseteq 1..l
          BY <3>1, <3>2
        <5> QED
          BY <5>2, <5>3
      <4>5. CASE a > b
        <5>1. PICK j \in Nat : a = b + j
          <6>1. a - b \in Nat /\ a = b + (a - b)
            BY <4>1, <4>3, <4>5
          <6> QED
            BY <6>1
        <5>2. "/" # "*"
          OBVIOUS
        <5>3. a # Len(x)
          BY <4>1, <4>3, <5>2
        <5> HIDE DEF x, s, b
        <5>4. j \in 1..Len(s)
          <6>1. b \in Nat /\ Len(x) \in Nat /\ Len(s) \in Nat /\ Len(x) = b + Len(s) + 1
            BY <4>1
          <6>2. b + j > b /\ b + j <= Len(x) /\ b + j # Len(x)
            BY <4>3, <4>5, <5>1, <5>3, <6>1
          <6> QED
            BY <6>1, <6>2
        <5>5. s[j] = "*"
          BY <4>1, <4>3, <5>1, <5>4
        <5> QED
          BY <3>2, <5>4, <5>5 DEF s
      <4> QED
        BY <4>1, <4>3, <4>4, <4>5
    <3> HIDE DEF Star
    <3> QED
      BY <3>1, <3>2, <3>5
  <2>3. S \subseteq 0..n
    OBVIOUS
  <2>4. S = 0..n
    <3> HIDE DEF S, n
    <3> QED
      BY <1>1, <2>1, <2>2, <2>3, InductionTo
  <2>5. i \in 1..Len(d[n]) /\ d[n][i] = "*"
    BY <1>3, <1>5
  <2>6. n \in S
    BY <1>1, <2>4
  <2> QED
    BY <2>5, <2>6
<1> QED
  BY <1>4, <1>5

LEMMA LiteralText ==
    ASSUME NEW raw \in Raw, Accepted(raw)
    PROVE  Literal(raw) <=> \A i \in 1..Len(Text(Parts(raw))) : Text(Parts(raw))[i] # "*"
<1> DEFINE p == Named(raw)
<1>1. /\ Parts(raw) = p /\ p # <<>> /\ p \in PlainPaths
      /\ \A j \in 1..Len(p) : \E i \in 1..Len(raw) : p[j] = raw[i]
      /\ \A i \in 1..Len(raw) :
            raw[i] = <<>> \/ raw[i] = <<".">> \/ \E j \in 1..Len(p) : p[j] = raw[i]
  BY AcceptedParts
<1>2. raw \in Seq(Segments) /\ \A i \in 1..Len(raw) : raw[i] \in Seq(Characters)
  BY RawIsSequence, ScopeAssumption
<1>3. Literal(raw) <=> \A i \in 1..Len(raw) : \A j \in 1..Len(raw[i]) : raw[i][j] # "*"
  <2>1. DOMAIN raw = 1..Len(raw)
    BY <1>2
  <2>2. \A i \in 1..Len(raw) : DOMAIN raw[i] = 1..Len(raw[i])
    BY <1>2
  <2> QED
    BY <2>1, <2>2 DEF Literal
<1> HIDE DEF p
<1>4. (\A i \in 1..Len(raw) : \A j \in 1..Len(raw[i]) : raw[i][j] # "*")
      <=> \A k \in 1..Len(p) : \A j \in 1..Len(p[k]) : p[k][j] # "*"
  <2>1. \A j \in 1..Len(<<>>) : <<>>[j] # "*"
    OBVIOUS
  <2>2. \A j \in 1..Len(<<".">>) : <<".">>[j] # "*"
    OBVIOUS
  <2>3. ASSUME \A k \in 1..Len(p) : \A j \in 1..Len(p[k]) : p[k][j] # "*",
               NEW i \in 1..Len(raw), NEW j \in 1..Len(raw[i])
        PROVE  raw[i][j] # "*"
    <3>1. CASE raw[i] = <<>>
      BY <2>1, <3>1
    <3>2. CASE raw[i] = <<".">>
      BY <2>2, <3>2
    <3>3. CASE \E k \in 1..Len(p) : p[k] = raw[i]
      BY <2>3, <3>3
    <3> QED
      BY <1>1, <3>1, <3>2, <3>3
  <2>4. ASSUME \A i \in 1..Len(raw) : \A j \in 1..Len(raw[i]) : raw[i][j] # "*",
               NEW k \in 1..Len(p), NEW j \in 1..Len(p[k])
        PROVE  p[k][j] # "*"
    <3>1. PICK i \in 1..Len(raw) : p[k] = raw[i]
      BY <1>1
    <3> QED
      BY <2>4, <3>1
  <2> QED
    BY <2>3, <2>4
<1>5. (\E i \in 1..Len(Text(p)) : Text(p)[i] = "*")
      <=> \E k \in 1..Len(p) : \E j \in 1..Len(p[k]) : p[k][j] = "*"
  BY <1>1, TextStars
<1> QED
  BY <1>1, <1>3, <1>4, <1>5

\* Where the text of a pattern stops being literal.
FirstStar(t) ==
    CHOOSE i \in DOMAIN t : t[i] = "*" /\ \A j \in 1..(i - 1) : t[j] # "*"

LEMMA FirstStarExists ==
    ASSUME NEW t \in Chars, NEW s \in 1..Len(t), t[s] = "*"
    PROVE  /\ FirstStar(t) \in 1..Len(t) /\ t[FirstStar(t)] = "*"
           /\ \A j \in 1..(FirstStar(t) - 1) : t[j] # "*"
<1> DEFINE S == {i \in 1..Len(t) : t[i] = "*"}
<1>1. Len(t) \in Nat /\ DOMAIN t = 1..Len(t)
  BY DEF Chars
<1>2. S \in SUBSET Nat /\ S # {}
  <2>1. \A i \in S : i \in Nat
    BY <1>1
  <2>2. s \in S
    OBVIOUS
  <2> QED
    BY <2>1, <2>2
<1>3. PICK m \in S : \A k \in S : m <= k
  <2> HIDE DEF S
  <2> QED
    BY <1>2, Least
<1>4. ASSUME NEW j \in 1..(m - 1) PROVE t[j] # "*"
  <2>1. m \in Nat /\ m <= Len(t) /\ j \in 1..Len(t) /\ ~(m <= j)
    BY <1>1
  <2> QED
    BY <1>3, <2>1
<1>5. \E i \in DOMAIN t : t[i] = "*" /\ \A j \in 1..(i - 1) : t[j] # "*"
  BY <1>1, <1>4
<1> QED
  BY <1>1, <1>5 DEF FirstStar

\* What _scope_prefix keeps of a text: all of it when there is no wildcard, and
\* no more than what comes before the first otherwise.
LEMMA PrefixIs ==
    ASSUME NEW p \in PlainPaths, p # <<>>
    PROVE  LET t == Text(p)  x == Prefix(p) IN
           /\ x.wildcard <=> \E i \in 1..Len(t) : t[i] = "*"
           /\ x.universal <=> x.wildcard /\ x.value = <<>>
           /\ x.value \in Chars
           /\ ~x.wildcard => x.value = t
           /\ x.wildcard => Starts(x.value, SubSeq(t, 1, FirstStar(t) - 1))
<1> DEFINE t == Text(p)
           wild == {i \in DOMAIN t : t[i] = "*"}
           literal == {i \in DOMAIN t : \A j \in 1..i : t[j] # "*"}
           ends == {i \in literal : t[i] # "/"}
           last == IF ends = {} THEN 0 ELSE CHOOSE i \in ends : \A j \in ends : j <= i
           value == SubSeq(t, 1, last)
<1>1. Prefix(p) = [wildcard |-> wild # {}, value |-> value,
                   universal |-> wild # {} /\ value = <<>>]
  BY DEF Prefix
<1>2. /\ t \in Chars /\ Len(t) \in Nat /\ Len(t) > 0 /\ t[Len(t)] # "/"
      /\ DOMAIN t = 1..Len(t) /\ \A i \in 1..Len(t) : t[i] \in Char
  BY PlainText DEF Chars
<1> HIDE DEF t
<1>3. wild # {} <=> \E i \in 1..Len(t) : t[i] = "*"
  BY <1>2
<1>4. ends # {} => \E i \in ends : \A j \in ends : j <= i
  <2>1. ends \subseteq 0..Len(t)
    BY <1>2
  <2> HIDE DEF ends
  <2> QED
    BY <1>2, <2>1, Greatest
<1>5. /\ last \in 0..Len(t) /\ (last # 0 => last \in literal)
      /\ \A j \in ends : j <= last
  <2>1. CASE ends = {}
    BY <1>2, <2>1
  <2>2. CASE ends # {}
    <3> DEFINE c == CHOOSE i \in ends : \A j \in ends : j <= i
    <3>1. c \in ends /\ \A j \in ends : j <= c
      <4> HIDE DEF ends
      <4> QED
        BY <1>4, <2>2
    <3>2. last = c
      BY <2>2
    <3> HIDE DEF c, last
    <3> QED
      BY <1>2, <3>1, <3>2
  <2> QED
    BY <2>1, <2>2
<1> HIDE DEF last
<1>6. /\ value \in Chars /\ Len(value) = last
      /\ \A i \in 1..last : value[i] = t[i]
  <2>1. 1 \in Int /\ last \in Int /\ \A i \in 1..last : t[i] \in Char
    BY <1>2, <1>5
  <2>2. /\ SubSeq(t, 1, last) \in Seq(Char)
        /\ Len(SubSeq(t, 1, last)) = IF 1 <= last THEN last - 1 + 1 ELSE 0
        /\ \A i \in 1..(last - 1 + 1) : SubSeq(t, 1, last)[i] = t[1 + i - 1]
    BY <2>1, SubSeqProperties
  <2> QED
    BY <1>5, <2>1, <2>2 DEF Chars
<1> HIDE DEF value
<1>7. ASSUME wild = {} PROVE value = t
  <2>1. Len(t) \in ends
    BY <1>2, <1>7
  <2>2. last = Len(t)
    <3>1. Len(t) <= last
      <4> HIDE DEF ends
      <4> QED
        BY <1>5, <2>1
    <3>2. last \in 0..Len(t)
      BY <1>5
    <3>3. Len(t) \in Nat
      BY <1>2
    <3> HIDE DEF ends, literal, wild
    <3> QED
      BY <3>1, <3>2, <3>3
  <2> QED
    BY <1>2, <1>6, <2>2, SeqEqual DEF Chars
<1>8. ASSUME wild # {} PROVE Starts(value, SubSeq(t, 1, FirstStar(t) - 1))
  <2> DEFINE f == FirstStar(t)
  <2>1. f \in 1..Len(t) /\ t[f] = "*"
    <3>1. PICK s \in 1..Len(t) : t[s] = "*"
      BY <1>3, <1>8
    <3> QED
      BY <1>2, <3>1, FirstStarExists
  <2> HIDE DEF f
  <2>2. last <= f - 1
    <3>1. last \in Nat /\ f \in Nat /\ f >= 1
      BY <1>2, <1>5, <2>1
    <3>2. ASSUME last >= f PROVE FALSE
      <4>1. last # 0 /\ f \in 1..last
        BY <3>1, <3>2
      <4>2. \A j \in 1..last : t[j] # "*"
        BY <1>5, <4>1
      <4> QED
        BY <2>1, <4>1, <4>2
    <3> QED
      BY <3>1, <3>2
  <2>3. /\ Len(SubSeq(t, 1, f - 1)) = f - 1
        /\ \A i \in 1..(f - 1) : SubSeq(t, 1, f - 1)[i] = t[i]
    <3>1. f \in Nat /\ f >= 1 /\ f - 1 \in Int /\ 1 \in Int
          /\ \A i \in 1..(f - 1) : t[i] \in Char
      BY <1>2, <2>1
    <3>2. /\ Len(SubSeq(t, 1, f - 1)) = IF 1 <= f - 1 THEN f - 1 - 1 + 1 ELSE 0
          /\ \A i \in 1..(f - 1 - 1 + 1) : SubSeq(t, 1, f - 1)[i] = t[1 + i - 1]
      BY <3>1, SubSeqProperties
    <3> QED
      BY <3>1, <3>2
  <2>4. Starts(value, SubSeq(t, 1, f - 1))
    BY <1>2, <1>5, <1>6, <2>1, <2>2, <2>3 DEF Starts
  <2> QED
    BY <2>4 DEF f
<1> HIDE DEF wild
<1>9. /\ Prefix(p).wildcard = (wild # {}) /\ Prefix(p).value = value
      /\ Prefix(p).universal = (wild # {} /\ value = <<>>)
  BY <1>1
<1> QED
  BY <1>3, <1>6, <1>7, <1>8, <1>9 DEF t

LEMMA PrefixStarts ==
    ASSUME NEW X, NEW s \in Seq(X), NEW t \in Seq(X)
    PROVE  IsPrefix(s, t) <=> Starts(s, t)
<1>1. Len(s) \in Nat /\ Len(t) \in Nat
  OBVIOUS
<1>2. SubSeq(s, 1, Len(s)) = s
  BY SubSeqFull
<1>3. ASSUME Len(s) <= Len(t)
      PROVE  /\ SubSeq(t, 1, Len(s)) \in Seq(X) /\ Len(SubSeq(t, 1, Len(s))) = Len(s)
             /\ \A i \in 1..Len(s) : SubSeq(t, 1, Len(s))[i] = t[i]
  <2>1. 1 \in Int /\ Len(s) \in Int /\ \A i \in 1..Len(s) : t[i] \in X
    BY <1>1, <1>3
  <2>2. /\ SubSeq(t, 1, Len(s)) \in Seq(X)
        /\ Len(SubSeq(t, 1, Len(s))) = IF 1 <= Len(s) THEN Len(s) - 1 + 1 ELSE 0
        /\ \A i \in 1..(Len(s) - 1 + 1) : SubSeq(t, 1, Len(s))[i] = t[1 + i - 1]
    BY <2>1, SubSeqProperties
  <2> QED
    BY <1>1, <2>2
<1>4. ASSUME Len(s) <= Len(t)
      PROVE  SubSeq(t, 1, Len(s)) = s <=> \A i \in 1..Len(s) : s[i] = t[i]
  <2>1. ASSUME \A i \in 1..Len(s) : s[i] = t[i] PROVE SubSeq(t, 1, Len(s)) = s
    <3> DEFINE u == SubSeq(t, 1, Len(s))
    <3>1. u \in Seq(X) /\ Len(u) = Len(s) /\ \A i \in 1..Len(u) : u[i] = s[i]
      BY <1>3, <1>4, <2>1
    <3> HIDE DEF u
    <3>2. u = s
      BY <3>1, SeqEqual
    <3> QED
      BY <3>2 DEF u
  <2> QED
    BY <1>3, <1>4, <2>1
<1> QED
  BY <1>2, <1>4 DEF IsPrefix, Starts

\* The prefix of a scope begins the text of every file the scope allows.
LEMMA AllowedBegins ==
    ASSUME NEW raw \in Raw, Accepted(raw), NEW file \in Files, Allows(raw, file)
    PROVE  /\ Prefix(Parts(raw)).value \in Chars
           /\ Starts(Prefix(Parts(raw)).value, Text(file))
           /\ Prefix(Parts(raw)).wildcard <=> ~Literal(raw)
           /\ Literal(raw) => /\ Starts(Named(raw), file)
                              /\ Prefix(Parts(raw)).value = Text(Named(raw))
<1> DEFINE p == Named(raw)  t == Text(p)  x == Prefix(p)
<1>1. Parts(raw) = p /\ p # <<>> /\ p \in PlainPaths /\ p \in Paths
  BY AcceptedParts, PlainIsPath
<1>2. file \in Paths /\ file # <<>>
  BY RawIsSequence
<1>3. t \in Chars /\ Text(file) \in Chars
  BY <1>1, <1>2, PlainText, TextDirs
<1>4. /\ x.wildcard <=> \E i \in 1..Len(t) : t[i] = "*"
      /\ x.value \in Chars
      /\ ~x.wildcard => x.value = t
      /\ x.wildcard => Starts(x.value, SubSeq(t, 1, FirstStar(t) - 1))
  BY <1>1, PrefixIs
<1>5. x.wildcard <=> ~Literal(raw)
  BY <1>1, <1>4, LiteralText
<1>6. ASSUME Literal(raw) PROVE Starts(p, file) /\ Starts(x.value, Text(file))
  <2>1. IsPrefix(p, file)
    BY <1>6 DEF Allows
  <2>2. Starts(p, file)
    BY <1>1, <1>2, <2>1, PrefixStarts DEF Paths
  <2>3. x.value = t
    BY <1>4, <1>5, <1>6
  <2>4. CASE Len(p) = Len(file)
    <3>1. p = file
      BY <1>1, <1>2, <2>2, <2>4, SeqEqual DEF Starts, Paths
    <3> QED
      BY <1>3, <2>2, <2>3, <3>1, StartsOrder
  <2>5. CASE Len(p) # Len(file)
    <3>1. Starts(t \o <<"/">>, Text(file))
      BY <1>1, <1>2, <2>2, <2>5, TextBelow
    <3>2. <<"/">> \in Chars
      BY Slash
    <3>3. Starts(t, t \o <<"/">>) /\ t \o <<"/">> \in Chars
      BY <1>3, <3>2, Slash, StartsOrder
    <3> QED
      BY <1>3, <2>2, <2>3, <3>1, <3>3, StartsOrder
  <2> QED
    BY <2>4, <2>5
<1>7. ASSUME ~Literal(raw) PROVE Starts(x.value, Text(file))
  <2> DEFINE f == FirstStar(t)  begin == SubSeq(t, 1, f - 1)
  <2>1. IsPrefix(begin, Text(file))
    BY <1>7 DEF Allows, FirstStar
  <2>2. f \in 1..Len(t)
    <3>1. PICK s \in 1..Len(t) : t[s] = "*"
      BY <1>4, <1>5, <1>7
    <3> QED
      BY <1>3, <3>1, FirstStarExists
  <2>3. begin \in Chars
    <3>1. Len(t) \in Nat /\ \A i \in 1..Len(t) : t[i] \in Char
      BY <1>3 DEF Chars
    <3> HIDE DEF f
    <3>2. 1 \in Int /\ f - 1 \in Int /\ \A i \in 1..(f - 1) : t[i] \in Char
      BY <2>2, <3>1
    <3> QED
      BY <3>2, SubSeqProperties DEF Chars
  <2>4. Starts(begin, Text(file))
    <3> HIDE DEF begin
    <3> QED
      BY <1>3, <2>1, <2>3, PrefixStarts DEF Chars
  <2>5. Starts(x.value, begin)
    BY <1>4, <1>5, <1>7
  <2> QED
    BY <1>3, <1>4, <2>3, <2>4, <2>5, StartsOrder
<1> QED
  BY <1>1, <1>4, <1>5, <1>6, <1>7

LEMMA SharedFilesOverlap ==
    ASSUME NEW l \in Raw, NEW r \in Raw, Accepted(l), Accepted(r),
           NEW file \in Files, Allows(l, file), Allows(r, file)
    PROVE  Overlap(l, r)
<1> DEFINE p == Prefix(Parts(l))  q == Prefix(Parts(r))
<1>1. p.value \in Chars /\ q.value \in Chars
  BY AllowedBegins
<1>2. Starts(p.value, q.value) \/ Starts(q.value, p.value)
  <2>1. file \in Paths
    BY RawIsSequence
  <2>2. Text(file) \in Chars
    BY <2>1, TextDirs
  <2>3. Starts(p.value, Text(file)) /\ Starts(q.value, Text(file))
    BY AllowedBegins
  <2> QED
    BY <1>1, <2>2, <2>3, StartsOrder
<1>3. IsPrefix(p.value, q.value) \/ IsPrefix(q.value, p.value)
  BY <1>1, <1>2, PrefixStarts DEF Chars
<1>4. CASE p.wildcard \/ q.wildcard
  BY <1>3, <1>4 DEF Overlap, PrefixesOverlap
<1>5. CASE ~(p.wildcard \/ q.wildcard)
  <2> DEFINE m == Named(l)  n == Named(r)
  <2>1. Literal(l) /\ Literal(r)
    BY <1>5, AllowedBegins
  <2>2. /\ p.value = Text(m) /\ q.value = Text(n)
        /\ Starts(m, file) /\ Starts(n, file)
    BY <2>1, AllowedBegins
  <2>3. m \in Paths /\ n \in Paths /\ m # <<>> /\ n # <<>> /\ file \in Paths
    BY AcceptedParts, PlainIsPath, RawIsSequence
  <2> HIDE DEF m, n
  <2>4. Starts(m, n) \/ Starts(n, m)
    BY <2>2, <2>3 DEF Starts, Paths
  <2>5. CASE Len(m) = Len(n)
    <3>1. m = n
      BY <2>3, <2>4, <2>5, SeqEqual DEF Starts, Paths
    <3> QED
      BY <2>2, <3>1 DEF Overlap, PrefixesOverlap
  <2>6. CASE Len(m) # Len(n)
    <3>1. \/ Starts(Text(m) \o <<"/">>, Text(n))
          \/ Starts(Text(n) \o <<"/">>, Text(m))
      BY <2>3, <2>4, <2>6, TextBelow
    <3>2. Below(p.value, q.value) \/ Below(q.value, p.value)
      <4>1. <<"/">> \in Chars
        BY Slash
      <4>2. Text(m) \o <<"/">> \in Chars /\ Text(n) \o <<"/">> \in Chars
        BY <1>1, <2>2, <4>1, Slash
      <4> QED
        BY <1>1, <2>2, <3>1, <4>2, PrefixStarts DEF Below, Chars
    <3> QED
      BY <3>2 DEF Overlap, PrefixesOverlap
  <2> QED
    BY <2>5, <2>6
<1> QED
  BY <1>4, <1>5

\* Everything a literal scope names can be the name of a file.
LEMMA NamedIsFile ==
    ASSUME NEW raw \in Raw, Accepted(raw), Literal(raw)
    PROVE  Named(raw) \in Files
<1> DEFINE p == Named(raw)
<1>1. /\ p \in PlainPaths /\ p # <<>> /\ Len(p) <= MaxSegments
      /\ \A j \in 1..Len(p) : /\ p[j] \in Segments \ {<<>>, <<".">>, <<".", ".">>}
                              /\ \E i \in 1..Len(raw) : p[j] = raw[i]
  BY AcceptedParts
<1>2. Len(p) \in Nat /\ MaxSegments \in Nat /\ MaxDepth \in Nat
  BY <1>1, PlainIsPath, ScopeAssumption
<1>3. raw \in Seq(Segments)
  BY RawIsSequence
<1> HIDE DEF p
<1>4. ASSUME NEW j \in 1..Len(p) PROVE p[j] \in Names
  <2>1. PICK i \in 1..Len(raw) : p[j] = raw[i]
    BY <1>1
  <2>2. \A k \in DOMAIN raw[i] : raw[i][k] # "*"
    BY <1>3, <2>1 DEF Literal
  <2> QED
    BY <1>1, <2>1, <2>2, FileAssumption
<1>5. p \in Seq(Names)
  <2>1. p \in [1..Len(p) -> Names]
    BY <1>1, <1>4, LenProperties DEF PlainPaths
  <2> QED
    BY <1>2, <2>1
<1>6. Len(p) <= MaxDepth
  BY <1>1, <1>2, FileAssumption
<1> QED
  BY <1>1, <1>5, <1>6, RawIsSequence DEF p

LEMMA LiteralOverlapShares ==
    ASSUME NEW l \in Raw, NEW r \in Raw, Accepted(l), Accepted(r),
           Literal(l), Literal(r), Overlap(l, r)
    PROVE  \E file \in Files : Allows(l, file) /\ Allows(r, file)
<1> DEFINE m == Named(l)  n == Named(r)  p == Prefix(Parts(l))  q == Prefix(Parts(r))
<1>1. /\ Parts(l) = m /\ Parts(r) = n /\ m # <<>> /\ n # <<>>
      /\ m \in PlainPaths /\ n \in PlainPaths
  BY AcceptedParts
<1>2. ~p.wildcard /\ ~q.wildcard
  <2>1. /\ p.wildcard <=> \E i \in 1..Len(Text(m)) : Text(m)[i] = "*"
        /\ q.wildcard <=> \E i \in 1..Len(Text(n)) : Text(n)[i] = "*"
    BY <1>1, PrefixIs
  <2> QED
    BY <1>1, <2>1, LiteralText
<1>3. /\ p.value = Text(m) /\ q.value = Text(n) /\ ~p.universal /\ ~q.universal
      /\ p.value \in Chars /\ q.value \in Chars
  BY <1>1, <1>2, PrefixIs
<1> HIDE DEF m, n, p, q
<1>4. \/ p.value = q.value \/ Below(p.value, q.value) \/ Below(q.value, p.value)
  BY <1>2, <1>3 DEF Overlap, PrefixesOverlap, p, q
<1>5. Starts(m, n) \/ Starts(n, m)
  <2>1. <<"/">> \in Chars
    BY Slash
  <2>2. Text(m) \o <<"/">> \in Chars /\ Text(n) \o <<"/">> \in Chars
    BY <1>3, <2>1, Slash
  <2>3. \/ Text(m) = Text(n)
        \/ Starts(Text(m) \o <<"/">>, Text(n))
        \/ Starts(Text(n) \o <<"/">>, Text(m))
    BY <1>3, <1>4, <2>2, PrefixStarts DEF Below, Chars
  <2> QED
    BY <1>1, <2>3, BelowOnly
<1>6. m \in Files /\ n \in Files
  BY NamedIsFile DEF m, n
<1>7. /\ m \in Seq(Chars) /\ n \in Seq(Chars)
  BY <1>1, PlainIsPath DEF Paths
<1>8. CASE Starts(m, n)
  <2>1. IsPrefix(m, n) /\ IsPrefix(n, n)
    BY <1>7, <1>8, PrefixStarts DEF Starts
  <2>2. Allows(l, n) /\ Allows(r, n)
    BY <2>1 DEF Allows, m, n
  <2> QED
    BY <1>6, <2>2
<1>9. CASE Starts(n, m)
  <2>1. IsPrefix(n, m) /\ IsPrefix(m, m)
    BY <1>7, <1>9, PrefixStarts DEF Starts
  <2>2. Allows(l, m) /\ Allows(r, m)
    BY <2>1 DEF Allows, m, n
  <2> QED
    BY <1>6, <2>2
<1> QED
  BY <1>5, <1>8, <1>9

-----------------------------------------------------------------------------
(* The depth-first search decides exactly whether the plan is acyclic.      *)

\* The call stack is a path along dependencies, and a visited step's
\* dependencies are visited.
SearchShape ==
    /\ \A i \in 1..(Len(stack) - 1) : stack[i + 1] \in dependsOn[stack[i]]
    /\ \A S \in SUBSET Steps : Deadlocked(S, dependsOn) => S \cap visited = {}

SearchInv == SearchTypeOK /\ SearchShape /\ AcceptedIsAcyclic /\ RejectedIsCyclic

\* A stack that is a path and whose top depends on one of its members holds a
\* cycle.
LEMMA PathClosesCycle ==
    ASSUME SearchTypeOK, SearchShape, stack # <<>>,
           NEW k \in 1..Len(stack), stack[k] \in dependsOn[stack[Len(stack)]]
    PROVE  ~Acyclic(dependsOn)
<1> DEFINE S == {stack[i] : i \in k..Len(stack)}
<1>1. S \subseteq Steps /\ S # {}
  BY DEF SearchTypeOK
<1>2. ASSUME NEW s \in S PROVE dependsOn[s] \cap S # {}
  <2>1. PICK i \in k..Len(stack) : s = stack[i]
    OBVIOUS
  <2>2. CASE i = Len(stack)
    BY <2>1, <2>2
  <2>3. CASE i # Len(stack)
    <3>1. i \in 1..(Len(stack) - 1) /\ i + 1 \in k..Len(stack)
      BY <2>3 DEF SearchTypeOK
    <3> QED
      BY <2>1, <3>1 DEF SearchShape
  <2> QED
    BY <2>2, <2>3
<1> QED
  BY <1>1, <1>2 DEF Acyclic, Deadlocked

LEMMA SearchInitInv == SearchInit => SearchInv
  BY DEF SearchInit, SearchInv, SearchTypeOK, SearchShape, AcceptedIsAcyclic, RejectedIsCyclic

LEMMA StackEnds ==
    ASSUME SearchTypeOK, stack # <<>>
    PROVE  /\ Len(stack) \in Nat \ {0}
           /\ Last(stack) = stack[Len(stack)]
           /\ Last(stack) \in Steps
           /\ Front(stack) \in Seq(Steps)
           /\ Len(Front(stack)) = Len(stack) - 1
           /\ \A i \in 1..(Len(stack) - 1) : Front(stack)[i] = stack[i]
<1>1. Len(stack) \in Nat \ {0}
  BY DEF SearchTypeOK
<1>2. Front(stack) = [i \in 1..(Len(stack) - 1) |-> stack[i]]
  BY <1>1 DEF Front, SearchTypeOK
<1> QED
  BY <1>1, <1>2 DEF Last, SearchTypeOK

LEMMA SearchNextInv == SearchInv /\ [SearchNext]_searchVars => SearchInv'
<1> SUFFICES ASSUME SearchInv, [SearchNext]_searchVars PROVE SearchInv'
  OBVIOUS
<1> USE DEF SearchInv
<1>1. CASE RejectSelfLoop
  <2>1. PICK s \in Steps : s \in dependsOn[s]
    BY <1>1 DEF RejectSelfLoop
  <2>2. Deadlocked({s}, dependsOn)
    BY <2>1 DEF Deadlocked
  <2>3. ~Acyclic(dependsOn)
    BY <2>2 DEF Acyclic
  <2> QED
    BY <1>1, <2>3 DEF RejectSelfLoop, SearchTypeOK, SearchShape, AcceptedIsAcyclic,
                      RejectedIsCyclic
<1>2. ASSUME NEW s \in Steps, Start(s) PROVE SearchInv'
  BY <1>2 DEF Start, Searching, SearchTypeOK, SearchShape, AcceptedIsAcyclic,
              RejectedIsCyclic
<1>3. ASSUME NEW d \in Steps, Descend(d) PROVE SearchInv'
  <2>1. d \in dependsOn[stack[Len(stack)]]
    BY <1>3, StackEnds DEF Descend, Unseen
  <2>2. SearchTypeOK'
    BY <1>3 DEF Descend, SearchTypeOK
  <2>3. SearchShape'
    BY <1>3, <2>1, StackEnds DEF Descend, SearchShape, SearchTypeOK
  <2> QED
    BY <1>3, <2>2, <2>3 DEF Descend, Searching, AcceptedIsAcyclic, RejectedIsCyclic
\* The dependency being visited is on the stack, and the stack is a path.
<1>4. CASE Reject
  <2>1. PICK k \in DOMAIN stack : stack[k] \in dependsOn[Last(stack)]
    BY <1>4 DEF Reject, Unseen, Visiting
  <2>2. ~Acyclic(dependsOn)
    BY <1>4, <2>1, StackEnds, PathClosesCycle DEF Reject, SearchTypeOK
  <2> QED
    BY <1>4, <2>2 DEF Reject, Searching, SearchTypeOK, SearchShape, AcceptedIsAcyclic,
                      RejectedIsCyclic
\* A step whose dependencies are visited is in no set of mutually waiting steps.
<1>5. CASE Return
  <2>1. SearchTypeOK'
    BY <1>5, StackEnds DEF Return, SearchTypeOK
  <2>2. ASSUME NEW S \in SUBSET Steps, Deadlocked(S, dependsOn)
        PROVE  Last(stack) \notin S
    BY <1>5, <2>2 DEF Return, Unseen, SearchShape, Deadlocked
  <2>3. SearchShape'
    BY <1>5, <2>2, StackEnds DEF Return, SearchShape
  <2> QED
    BY <1>5, <2>1, <2>3 DEF Return, Searching, AcceptedIsAcyclic, RejectedIsCyclic
<1>6. CASE Accept
  <2>1. Acyclic(dependsOn)
    BY <1>6 DEF Accept, SearchShape, Acyclic, Deadlocked
  <2> QED
    BY <1>6, <2>1 DEF Accept, Searching, SearchTypeOK, SearchShape, AcceptedIsAcyclic,
                      RejectedIsCyclic
<1>7. CASE UNCHANGED searchVars
  BY <1>7 DEF searchVars, SearchTypeOK, SearchShape, AcceptedIsAcyclic, RejectedIsCyclic
<1> QED
  BY <1>1, <1>2, <1>3, <1>4, <1>5, <1>6, <1>7 DEF SearchNext

\* The search of validate_dependency_graph keeps its invariant for any plan:
\* it accepts only acyclic plans and rejects only cyclic ones.
THEOREM SearchCorrect == SearchSpec => []SearchInv
  BY SearchInitInv, SearchNextInv, PTL DEF SearchSpec

-----------------------------------------------------------------------------
(* The wave builder, for any plan and any overlapping scopes.               *)

InWaves(s) == \E i \in DOMAIN waves : s \in waves[i]

\* The steps are split into the closed waves and the remaining ones.
Partition ==
    /\ remaining = Steps \ completed
    /\ \A s \in Steps : s \in completed <=> InWaves(s)
    /\ \A i, j \in DOMAIN waves : i # j => waves[i] \cap waves[j] = {}
    /\ result = "built" => remaining = {}

\* The open wave so far: independent steps that are ready.
OpenWave ==
    /\ \A s \in selected : s \in remaining /\ dependsOn[s] \subseteq completed
    /\ \A s, t \in selected : <<s, t>> \notin overlap

\* Why the inner loop passed over a step.
Greedy ==
    \A s \in remaining : s < next =>
        \/ s \in selected
        \/ ~(dependsOn[s] \subseteq completed)
        \/ \E t \in selected : t < s /\ <<s, t>> \in overlap

SelectedBefore == \A s \in selected : s < next

\* Why a remaining step is not in the last closed wave.
Waits ==
    Len(waves) > 0 => \A s \in remaining :
        \/ ~(dependsOn[s] \subseteq completed)
        \/ dependsOn[s] \cap waves[Len(waves)] # {}
        \/ \E t \in waves[Len(waves)] : t < s /\ <<s, t>> \in overlap

WavesInv ==
    /\ WavesTypeOK /\ Partition /\ OpenWave /\ Greedy /\ SelectedBefore /\ Waits
    /\ DependenciesFirst /\ NoOverlapInWave /\ CycleIsReal /\ NoNeedlessDelay

LEMMA WavesInitInv == WavesInit => WavesInv
  BY NumStepsAssumption
  DEF WavesInit, WavesInv, WavesTypeOK, Partition, InWaves, OpenWave, Greedy,
      SelectedBefore, Waits, DependenciesFirst, NoOverlapInWave, CycleIsReal,
      NoNeedlessDelay, Steps

LEMMA ConsiderInv == WavesInv /\ Consider => WavesInv'
<1> SUFFICES ASSUME WavesInv, Consider PROVE WavesInv'
  OBVIOUS
<1> USE NumStepsAssumption DEF WavesInv
<1>1. WavesTypeOK'
  BY DEF Consider, WavesTypeOK, Steps
<1>2. OpenWave'
  <2>1. \A s, t \in Steps : <<s, t>> \in overlap => <<t, s>> \in overlap /\ s # t
    BY DEF WavesTypeOK, Overlaps
  <2> QED
    BY <2>1 DEF Consider, WavesTypeOK, OpenWave, Ready, Fits, Steps
<1>3. Greedy'
  <2> SUFFICES ASSUME NEW s \in remaining, s < next + 1
               PROVE  \/ s \in selected'
                      \/ ~(dependsOn[s] \subseteq completed)
                      \/ \E t \in selected' : t < s /\ <<s, t>> \in overlap
    BY DEF Consider, Greedy
  <2>1. s \in Nat /\ next \in Nat /\ selected \subseteq selected'
    BY DEF Consider, WavesTypeOK, Steps
  <2>2. CASE s < next
    BY <2>1, <2>2 DEF Greedy
  <2>3. CASE s = next
    BY <2>1, <2>3 DEF Consider, Ready, Fits, SelectedBefore
  <2> QED
    BY <2>1, <2>2, <2>3
<1>4. SelectedBefore'
  BY DEF Consider, WavesTypeOK, SelectedBefore, Steps
<1>5. Partition' /\ Waits'
  BY DEF Consider, Partition, InWaves, Waits
<1>6. DependenciesFirst' /\ NoOverlapInWave' /\ CycleIsReal' /\ NoNeedlessDelay'
  BY DEF Consider, DependenciesFirst, NoOverlapInWave, CycleIsReal, NoNeedlessDelay
<1> QED
  BY <1>1, <1>2, <1>3, <1>4, <1>5, <1>6

LEMMA CloseWaveInv == WavesInv /\ CloseWave => WavesInv'
<1> SUFFICES ASSUME WavesInv, CloseWave PROVE WavesInv'
  OBVIOUS
<1> USE NumStepsAssumption DEF WavesInv
<1> DEFINE n == Len(waves)
<1>1. /\ n \in Nat /\ Len(waves') = n + 1
      /\ DOMAIN waves = 1..n /\ DOMAIN waves' = 1..(n + 1)
      /\ waves'[n + 1] = selected
      /\ \A i \in 1..n : waves'[i] = waves[i]
  BY DEF CloseWave, WavesTypeOK
<1>2. WavesTypeOK'
  BY DEF CloseWave, WavesTypeOK, Steps
<1>3. selected \subseteq remaining /\ remaining \cap completed = {}
  BY DEF OpenWave, Partition
<1>4. Partition'
  <2>1. \A s \in Steps : s \in completed' <=> InWaves(s)'
    BY <1>1 DEF CloseWave, Partition, InWaves
  <2>2. \A i \in 1..n : waves[i] \subseteq completed
    BY <1>1 DEF Partition, InWaves, WavesTypeOK
  <2>3. \A i, j \in DOMAIN waves' : i # j => waves'[i] \cap waves'[j] = {}
    BY <1>1, <1>3, <2>2 DEF Partition
  <2> QED
    BY <2>1, <2>3 DEF CloseWave, Partition, WavesTypeOK
<1>5. OpenWave' /\ Greedy' /\ SelectedBefore'
  BY <1>2 DEF CloseWave, OpenWave, Greedy, SelectedBefore, Steps, WavesTypeOK
\* A remaining step was passed over for a reason, and a dependency that is
\* completed only now is in the wave just closed.
<1>6. Waits'
  <2> SUFFICES ASSUME NEW s \in remaining \ selected,
                      dependsOn[s] \subseteq completed \cup selected,
                      dependsOn[s] \cap selected = {}
               PROVE  \E t \in selected : t < s /\ <<s, t>> \in overlap
    BY <1>1 DEF Waits, CloseWave
  <2> QED
    BY DEF CloseWave, Greedy, WavesTypeOK, Steps
<1>7. DependenciesFirst'
  <2>1. ASSUME NEW s \in selected, NEW d \in dependsOn[s]
        PROVE  \E j \in 1..n : d \in waves[j]
    BY <1>1, <2>1 DEF OpenWave, Partition, InWaves, WavesTypeOK
  <2> QED
    BY <1>1, <2>1 DEF DependenciesFirst, CloseWave
<1>8. NoOverlapInWave'
  <2> SUFFICES ASSUME NEW i \in DOMAIN waves', NEW s \in waves'[i],
                      NEW t \in waves'[i]
               PROVE  <<s, t>> \notin overlap
    BY DEF NoOverlapInWave, CloseWave
  <2>1. CASE i = n + 1
    BY <1>1, <2>1 DEF OpenWave
  <2>2. CASE i # n + 1
    BY <1>1, <2>2 DEF NoOverlapInWave
  <2> QED
    BY <2>1, <2>2
<1>9. NoNeedlessDelay'
  <2>1. ASSUME n > 0, NEW s \in selected
        PROVE  \/ dependsOn[s] \cap waves[n] # {}
               \/ \E t \in waves[n] : t < s /\ <<s, t>> \in overlap
    BY <1>3, <2>1 DEF Waits, OpenWave
  <2>2. ASSUME NEW i \in DOMAIN waves', i > 1, NEW s \in waves'[i]
        PROVE  \/ dependsOn'[s] \cap waves'[i - 1] # {}
               \/ \E t \in waves'[i - 1] : t < s /\ <<s, t>> \in overlap'
    <3>1. CASE i = n + 1
      <4>1. i - 1 = n /\ n > 0 /\ n \in 1..n
        <5>1. n \in Nat /\ i = n + 1 /\ i > 1
          BY <1>1, <2>2, <3>1
        <5> HIDE DEF n
        <5> QED
          BY <5>1
      <4>3. s \in selected
        BY <1>1, <2>2, <3>1
      <4>2. waves'[i - 1] = waves[n] /\ dependsOn' = dependsOn /\ overlap' = overlap
        BY <1>1, <4>1 DEF CloseWave
      <4> QED
        BY <2>1, <4>1, <4>2, <4>3
    <3>2. CASE i # n + 1
      <4>1. i \in DOMAIN waves /\ i - 1 \in 1..n /\ i \in 1..n
        BY <1>1, <2>2, <3>2
      <4>2. waves'[i] = waves[i] /\ waves'[i - 1] = waves[i - 1]
        BY <1>1, <4>1
      <4>3. dependsOn' = dependsOn /\ overlap' = overlap
        BY DEF CloseWave
      <4> QED
        BY <2>2, <4>1, <4>2, <4>3 DEF NoNeedlessDelay
    <3> QED
      BY <3>1, <3>2
  <2> QED
    BY <2>2 DEF NoNeedlessDelay
<1>10. CycleIsReal'
  BY DEF CycleIsReal, CloseWave
<1> QED
  BY <1>2, <1>4, <1>5, <1>6, <1>7, <1>8, <1>9, <1>10

\* The parts that do not mention the result.
LEMMA OtherPartsFramed ==
    WavesInv /\ UNCHANGED <<dependsOn, overlap, remaining, completed, waves, next,
                           selected>>
    => /\ OpenWave' /\ Greedy' /\ SelectedBefore' /\ Waits'
       /\ DependenciesFirst' /\ NoOverlapInWave' /\ NoNeedlessDelay'
<1> SUFFICES ASSUME WavesInv,
                    UNCHANGED <<dependsOn, overlap, remaining, completed, waves,
                                next, selected>>
             PROVE  /\ OpenWave' /\ Greedy' /\ SelectedBefore' /\ Waits'
                    /\ DependenciesFirst' /\ NoOverlapInWave' /\ NoNeedlessDelay'
  OBVIOUS
<1>1. OpenWave' /\ Greedy' /\ SelectedBefore' /\ Waits'
  BY DEF WavesInv, OpenWave, Greedy, SelectedBefore, Waits
<1>2. DependenciesFirst' /\ NoOverlapInWave' /\ NoNeedlessDelay'
  BY DEF WavesInv, DependenciesFirst, NoOverlapInWave, NoNeedlessDelay
<1> QED
  BY <1>1, <1>2

\* Nothing was selected: every remaining step waits for a remaining one.
LEMMA FindCycleInv == WavesInv /\ FindCycle => WavesInv'
<1> SUFFICES ASSUME WavesInv, FindCycle PROVE WavesInv'
  OBVIOUS
<1> USE NumStepsAssumption DEF WavesInv
<1>1. Deadlocked(remaining, dependsOn)
  <2>1. ASSUME NEW s \in remaining PROVE dependsOn[s] \cap remaining # {}
    <3>1. s < next
      BY DEF FindCycle, WavesTypeOK, Steps
    <3>2. ~(dependsOn[s] \subseteq completed)
      BY <3>1 DEF FindCycle, Greedy
    <3> QED
      BY <3>2 DEF Partition, WavesTypeOK, Plans
  <2> QED
    BY <2>1 DEF FindCycle, Deadlocked
<1>2. ~Acyclic(dependsOn)
  BY <1>1 DEF Acyclic, WavesTypeOK
<1>3. CycleIsReal'
  BY <1>2 DEF FindCycle, CycleIsReal
<1>4. Partition'
  BY DEF FindCycle, Partition, InWaves
<1> QED
  BY <1>3, <1>4, OtherPartsFramed DEF FindCycle, WavesTypeOK

LEMMA FinishInv == WavesInv /\ Finish => WavesInv'
<1> SUFFICES ASSUME WavesInv, Finish PROVE WavesInv'
  OBVIOUS
<1> USE DEF WavesInv
<1>1. CycleIsReal'
  BY DEF Finish, CycleIsReal
<1>2. Partition'
  BY DEF Finish, Partition, InWaves
<1> QED
  BY <1>1, <1>2, OtherPartsFramed DEF Finish, WavesTypeOK

LEMMA WavesNextInv == WavesInv /\ [WavesNext]_wavesVars => WavesInv'
<1> SUFFICES ASSUME WavesInv, [WavesNext]_wavesVars PROVE WavesInv'
  OBVIOUS
<1>1. CASE UNCHANGED wavesVars
  <2>1. WavesTypeOK' /\ Partition' /\ OpenWave' /\ Greedy' /\ SelectedBefore'
    BY <1>1 DEF wavesVars, WavesInv, WavesTypeOK, Partition, InWaves, OpenWave, Greedy,
        SelectedBefore
  <2>2. Waits' /\ DependenciesFirst' /\ NoOverlapInWave'
    BY <1>1 DEF wavesVars, WavesInv, Waits, DependenciesFirst, NoOverlapInWave
  <2>3. CycleIsReal' /\ NoNeedlessDelay'
    BY <1>1 DEF wavesVars, WavesInv, CycleIsReal, NoNeedlessDelay
  <2> QED
    BY <2>1, <2>2, <2>3 DEF WavesInv
<1> QED
  BY <1>1, ConsiderInv, CloseWaveInv, FindCycleInv, FinishInv DEF WavesNext

\* build_execution_waves keeps its invariant for any plan, cyclic or not, and
\* any symmetric relation of overlapping scopes: dependencies come first, no
\* wave holds an overlap, no step is put off without need, and the builder
\* gives up only on a cycle.
THEOREM WavesCorrect == WavesSpec => []WavesInv
  BY WavesInitInv, WavesNextInv, PTL DEF WavesSpec

-----------------------------------------------------------------------------
(* The whole: real scopes, the search, the waves.                           *)

\* The execution runs the waves one after the other and waits for each.
NoEmptyWave == \A i \in DOMAIN waves : waves[i] # {}

OverlapsOfScopes ==
    overlap = {pair \in Steps \X Steps :
                  pair[1] # pair[2] /\ ScopesOverlap(scopes[pair[1]], scopes[pair[2]])}

PlanningInv ==
    /\ scopes \in [Steps -> SUBSET Raw]
    /\ verdict = "refused" \/ SearchInv
    /\ verdict \in {"accepted", "rejected"} => Normalized
    /\ result = "waiting" => /\ remaining = Steps /\ completed = {} /\ waves = <<>>
                             /\ next = 1 /\ selected = {} /\ overlap = {}
    /\ result # "waiting" => verdict = "accepted" /\ OverlapsOfScopes /\ WavesInv /\ NoEmptyWave

LEMMA PlanningInit == Init => PlanningInv
<1> SUFFICES ASSUME Init PROVE PlanningInv
  OBVIOUS
<1>1. SearchInv
  BY SearchInitInv DEF Init
<1>2. scopes \in [Steps -> SUBSET Raw]
  BY PlanningAssumption DEF Init
<1>3. verdict = "open" /\ result = "waiting"
  BY DEF Init, SearchInit
<1> QED
  BY <1>1, <1>2, <1>3 DEF Init, PlanningInv

LEMMA OverlapSymmetric == \A l, r : ScopesOverlap(l, r) <=> ScopesOverlap(r, l)
<1>1. \A p, q : Overlap(p, q) <=> Overlap(q, p)
  BY DEF Overlap, PrefixesOverlap
<1> QED
  BY <1>1 DEF ScopesOverlap

LEMMA WavesStart == WavesInit' => WavesInv'
  BY WavesInitInv, PTL

LEMMA BeginInv == PlanningInv /\ Begin => PlanningInv'
<1> SUFFICES ASSUME PlanningInv, Begin PROVE PlanningInv'
  OBVIOUS
<1>1. /\ verdict = "accepted" /\ verdict' = verdict /\ result = "waiting"
      /\ result' = "building" /\ UNCHANGED <<dependsOn, stack, visited, scopes>>
      /\ overlap' = {pair \in Steps \X Steps :
                        pair[1] # pair[2] /\ ScopesOverlap(scopes[pair[1]], scopes[pair[2]])}
      /\ UNCHANGED <<remaining, completed, waves, next, selected>>
  BY DEF Begin
<1>2. SearchInv
  BY <1>1 DEF PlanningInv
<1>3. SearchInv'
  BY <1>1, <1>2 DEF SearchInv, SearchTypeOK, SearchShape, AcceptedIsAcyclic,
                    RejectedIsCyclic
<1>4. overlap' \in Overlaps
  BY <1>1, OverlapSymmetric DEF Overlaps
<1>5. WavesInit'
  BY <1>1, <1>2, <1>4 DEF PlanningInv, WavesInit, SearchInv, SearchTypeOK
<1>6. WavesInv'
  BY <1>5, WavesStart
<1>7. OverlapsOfScopes' /\ NoEmptyWave'
  BY <1>1 DEF PlanningInv, OverlapsOfScopes, NoEmptyWave
<1>8. Normalized'
  BY <1>1 DEF PlanningInv, Normalized
<1>9. scopes' \in [Steps -> SUBSET Raw]
  BY <1>1 DEF PlanningInv
<1> QED
  BY <1>1, <1>3, <1>6, <1>7, <1>8, <1>9 DEF PlanningInv

LEMMA SearchKeeps == PlanningInv /\ Search => PlanningInv'
<1> SUFFICES ASSUME PlanningInv, Search PROVE PlanningInv'
  OBVIOUS
<1>1. /\ Normalized /\ SearchNext
      /\ UNCHANGED <<scopes, overlap, remaining, completed, waves, next, selected, result>>
  BY DEF Search
<1>2. verdict = "open"
  BY <1>1 DEF SearchNext, RejectSelfLoop, Start, Descend, Reject, Return, Accept, Searching
<1>3. SearchInv'
  BY <1>1, <1>2, SearchNextInv DEF PlanningInv
<1>4. result = "waiting"
  BY <1>2 DEF PlanningInv
<1>5. Normalized'
  BY <1>1 DEF Normalized
<1> QED
  BY <1>1, <1>3, <1>4, <1>5 DEF PlanningInv

LEMMA BuildKeeps == PlanningInv /\ Build => PlanningInv'
<1> SUFFICES ASSUME PlanningInv, Build PROVE PlanningInv'
  OBVIOUS
<1>1. WavesNext /\ UNCHANGED <<stack, visited, verdict, scopes>>
  BY DEF Build
<1>2. result = "building" /\ result' # "waiting" /\ UNCHANGED <<dependsOn, overlap>>
  BY <1>1 DEF WavesNext, Consider, CloseWave, FindCycle, Finish
<1>3. verdict = "accepted" /\ OverlapsOfScopes /\ WavesInv /\ NoEmptyWave
  BY <1>2 DEF PlanningInv
<1>4. WavesInv'
  BY <1>1, <1>3, WavesNextInv
<1>5. NoEmptyWave'
  <2>1. CASE CloseWave
    <3>1. waves \in Seq(SUBSET Steps) /\ waves' = Append(waves, selected) /\ selected # {}
      BY <1>3, <2>1 DEF CloseWave, WavesInv, WavesTypeOK
    <3>2. selected \in SUBSET Steps
      BY <1>3 DEF WavesInv, WavesTypeOK
    <3> QED
      BY <1>3, <3>1, <3>2 DEF NoEmptyWave
  <2>2. CASE UNCHANGED waves
    BY <1>3, <2>2 DEF NoEmptyWave
  <2> QED
    BY <1>1, <2>1, <2>2 DEF WavesNext, Consider, FindCycle, Finish
<1>6. SearchInv'
  <2>1. SearchInv
    BY <1>3 DEF PlanningInv
  <2> QED
    BY <1>1, <1>2, <2>1 DEF SearchInv, SearchTypeOK, SearchShape, AcceptedIsAcyclic,
                            RejectedIsCyclic
<1>7. OverlapsOfScopes' /\ Normalized' /\ scopes' \in [Steps -> SUBSET Raw]
  BY <1>1, <1>2, <1>3 DEF PlanningInv, OverlapsOfScopes, Normalized
<1> QED
  BY <1>1, <1>2, <1>3, <1>4, <1>5, <1>6, <1>7 DEF PlanningInv

LEMMA PlanningKept == PlanningInv /\ [Next]_planningVars => PlanningInv'
<1> SUFFICES ASSUME PlanningInv, [Next]_planningVars PROVE PlanningInv'
  OBVIOUS
<1>1. CASE RefuseScope
  <2>1. /\ verdict = "open" /\ verdict' = "refused"
        /\ UNCHANGED <<scopes, overlap, remaining, completed, waves, next, selected, result>>
    BY <1>1 DEF RefuseScope
  <2>2. result = "waiting"
    BY <2>1 DEF PlanningInv
  <2> QED
    BY <2>1, <2>2 DEF PlanningInv
<1>2. CASE UNCHANGED planningVars
  <2>1. /\ UNCHANGED <<dependsOn, stack, visited, verdict, scopes>>
        /\ UNCHANGED <<overlap, remaining, completed, waves, next, selected, result>>
    BY <1>2 DEF planningVars, searchVars, wavesVars
  <2>2. SearchInv => SearchInv'
    BY <2>1 DEF SearchInv, SearchTypeOK, SearchShape, AcceptedIsAcyclic, RejectedIsCyclic
  <2>3. WavesInv => WavesInv'
    BY <2>1, WavesNextInv DEF wavesVars
  <2>4. Normalized' = Normalized /\ OverlapsOfScopes' = OverlapsOfScopes /\ NoEmptyWave' = NoEmptyWave
    BY <2>1 DEF Normalized, OverlapsOfScopes, NoEmptyWave
  <2> QED
    BY <2>1, <2>2, <2>3, <2>4 DEF PlanningInv
<1> QED
  BY <1>1, <1>2, BeginInv, SearchKeeps, BuildKeeps DEF Next

\* From the answer to the waves: the search is right about the plan, only a
\* plan it accepted and whose scopes are normalized is scheduled, by the
\* overlaps its scopes really have, and what the builder closed is right.
THEOREM PlanningCorrect == Spec => []PlanningInv
  BY PlanningInit, PlanningKept, PTL DEF Spec

\* Every plan that reaches the scheduler is free of dependency cycles
\* (OrchestratorPlan.validate_dependency_graph).
THEOREM AcceptedIsAcyclicAlways == Spec => []AcceptedIsAcyclic
<1>1. PlanningInv => AcceptedIsAcyclic
  BY DEF PlanningInv, SearchInv, AcceptedIsAcyclic
<1> QED
  BY <1>1, PlanningCorrect, PTL

\* No plan without a dependency cycle is rejected by the search.
THEOREM RejectedIsCyclicAlways == Spec => []RejectedIsCyclic
<1>1. PlanningInv => RejectedIsCyclic
  BY DEF PlanningInv, SearchInv, RejectedIsCyclic
<1> QED
  BY <1>1, PlanningCorrect, PTL

\* A step's dependencies are always in earlier waves (build_execution_waves).
THEOREM DependenciesFirstAlways == Spec => []DependenciesFirst
<1>1. PlanningInv => DependenciesFirst
  BY DEF PlanningInv, WavesInv, DependenciesFirst
<1> QED
  BY <1>1, PlanningCorrect, PTL

\* Every step is in exactly one wave of a built schedule.
THEOREM ScheduledOnceAlways == Spec => []ScheduledOnce
<1>1. PlanningInv => ScheduledOnce
  BY DEF PlanningInv, WavesInv, Partition, InWaves, ScheduledOnce
<1> QED
  BY <1>1, PlanningCorrect, PTL

\* A step is in the earliest wave that the greedy order allows.
THEOREM NoNeedlessDelayAlways == Spec => []NoNeedlessDelay
<1>1. PlanningInv => NoNeedlessDelay
  <2>1. waves = <<>> => NoNeedlessDelay
    BY DEF NoNeedlessDelay
  <2> QED
    BY <2>1 DEF PlanningInv, WavesInv
<1> QED
  BY <1>1, PlanningCorrect, PTL

\* The scopes of two steps of one wave, which agents work on in parallel, never
\* allow a common file, however many, however long and however spelled they are
\* (normalize_write_scope, scopes_overlap, _scope_prefix, _prefixes_overlap).
THEOREM NoSharedFileAlways == Spec => []NoSharedFile
<1>1. ASSUME PlanningInv, NEW s \in Steps, NEW t \in Steps, s # t, Together(s, t)
      PROVE  ~Share(s, t)
  <2>1. PICK i \in DOMAIN waves : s \in waves[i] /\ t \in waves[i]
    BY <1>1 DEF Together
  <2>2. result # "waiting"
    BY <1>1, <2>1 DEF PlanningInv
  <2>3. OverlapsOfScopes /\ Normalized /\ NoOverlapInWave
    BY <1>1, <2>2 DEF PlanningInv, WavesInv
  <2>4. <<s, t>> \notin overlap
    BY <2>1, <2>3 DEF NoOverlapInWave
  <2>5. \A p \in scopes[s], q \in scopes[t] : ~Overlap(p, q)
    BY <1>1, <2>3, <2>4 DEF OverlapsOfScopes, ScopesOverlap
  <2>6. /\ \A p \in scopes[s] : p \in Raw /\ Accepted(p)
        /\ \A q \in scopes[t] : q \in Raw /\ Accepted(q)
    BY <1>1, <2>3 DEF PlanningInv, Normalized
  <2> QED
    BY <2>5, <2>6, SharedFilesOverlap DEF Share
<1>2. PlanningInv => NoSharedFile
  BY <1>1 DEF NoSharedFile
<1> QED
  BY <1>2, PlanningCorrect, PTL

\* Steps with literal scopes are kept apart only for a file that both may
\* write: the comparison of prefixes is exact on them.
THEOREM OverlapIsRealAlways == Spec => []OverlapIsReal
<1>1. ASSUME PlanningInv, NEW pair \in overlap,
             \A p \in scopes[pair[1]] \cup scopes[pair[2]] : Literal(p)
      PROVE  Share(pair[1], pair[2])
  <2>1. result # "waiting"
    BY <1>1 DEF PlanningInv
  <2>2. OverlapsOfScopes /\ Normalized
    BY <1>1, <2>1 DEF PlanningInv
  <2>3. PICK s \in Steps, t \in Steps : pair = <<s, t>> /\ ScopesOverlap(scopes[s], scopes[t])
    BY <1>1, <2>2 DEF OverlapsOfScopes
  <2>4. PICK p \in scopes[s], q \in scopes[t] : Overlap(p, q)
    BY <2>3 DEF ScopesOverlap
  <2>5. /\ p \in Raw /\ Accepted(p) /\ Literal(p)
        /\ q \in Raw /\ Accepted(q) /\ Literal(q)
    BY <1>1, <2>2, <2>3, <2>4 DEF PlanningInv, Normalized
  <2>6. Share(s, t)
    BY <2>4, <2>5, LiteralOverlapShares DEF Share
  <2> QED
    BY <2>3, <2>6
<1>2. PlanningInv => OverlapIsReal
  BY <1>1 DEF OverlapIsReal
<1> QED
  BY <1>2, PlanningCorrect, PTL

\* The builder never gives up on a plan the validator accepted: the error
\* that build_execution_waves raises for a cycle cannot occur in dispatch,
\* prepare_execution or retry.
THEOREM AcceptedIsSchedulable == Spec => [](result # "cycle")
<1>1. PlanningInv => result # "cycle"
  BY DEF PlanningInv, WavesInv, CycleIsReal, SearchInv, AcceptedIsAcyclic
<1> QED
  BY <1>1, PlanningCorrect, PTL

\* The wave of a step, counted from 0 (PlanStep's wave_index).
WaveIndex == [s \in Steps |-> CHOOSE w \in 0..(Len(waves) - 1) : s \in waves[w + 1]]

\* What the execution takes for granted of its plan (its PlanAssumption), and
\* what its chain of waves is for: every wave has a step, and a step's
\* dependencies have a smaller index.
Executable ==
    /\ Len(waves) - 1 \in Nat
    /\ WaveIndex \in [Steps -> 0..(Len(waves) - 1)]
    /\ \A w \in 0..(Len(waves) - 1) : \E s \in Steps : WaveIndex[s] = w
    /\ \A s \in Steps : \A d \in dependsOn[s] : WaveIndex[d] < WaveIndex[s]

\* A built plan is what the execution assumes: the planner's result and the
\* executor's precondition fit.
THEOREM BuiltIsExecutable == Spec => [](result = "built" => Executable)
<1>1. ASSUME PlanningInv, result = "built" PROVE Executable
  <2>1. /\ WavesInv /\ NoEmptyWave /\ Partition /\ remaining = {}
        /\ waves \in Seq(SUBSET Steps) /\ DependenciesFirst /\ dependsOn \in Plans
    BY <1>1 DEF PlanningInv, WavesInv, Partition, WavesTypeOK
  <2> DEFINE n == Len(waves)
  <2>2. n \in Nat /\ DOMAIN waves = 1..n /\ \A i \in 1..n : waves[i] \subseteq Steps
    BY <2>1
  <2>3. ASSUME NEW s \in Steps PROVE \E i \in 1..n : s \in waves[i]
    BY <2>1, <2>2 DEF Partition, InWaves
  <2>4. n # 0
    BY <2>2, <2>3, NumStepsAssumption DEF Steps
  <2>5. n - 1 \in Nat
    BY <2>2, <2>4
  <2>6. ASSUME NEW s \in Steps, NEW i \in 1..n, s \in waves[i]
        PROVE  WaveIndex[s] = i - 1
    <3> DEFINE w == CHOOSE v \in 0..(n - 1) : s \in waves[v + 1]
    <3>1. i - 1 \in 0..(n - 1) /\ (i - 1) + 1 = i
      BY <2>2
    <3>2. \E v \in 0..(n - 1) : s \in waves[v + 1]
      BY <2>6, <3>1
    <3>3. w \in 0..(n - 1) /\ s \in waves[w + 1]
      BY <3>2
    <3>4. WaveIndex[s] = w
      BY DEF WaveIndex
    <3> HIDE DEF w
    <3>5. w + 1 \in 1..n
      BY <2>2, <3>3
    <3>6. w + 1 = i
      BY <2>1, <2>2, <2>6, <3>3, <3>5 DEF Partition
    <3> QED
      BY <2>2, <3>3, <3>4, <3>6
  <2>7. \A s \in Steps : WaveIndex[s] \in 0..(n - 1)
    <3> TAKE s \in Steps
    <3>1. PICK i \in 1..n : s \in waves[i]
      BY <2>3
    <3>2. WaveIndex[s] = i - 1
      BY <2>6, <3>1
    <3> QED
      BY <2>2, <3>2
  <2>8. WaveIndex \in [Steps -> 0..(n - 1)]
    BY <2>7 DEF WaveIndex
  <2>9. ASSUME NEW w \in 0..(n - 1) PROVE \E s \in Steps : WaveIndex[s] = w
    <3>1. w + 1 \in 1..n /\ (w + 1) - 1 = w
      BY <2>2
    <3>2. PICK s \in Steps : s \in waves[w + 1]
      BY <2>1, <2>2, <3>1 DEF NoEmptyWave
    <3>3. WaveIndex[s] = w
      BY <2>6, <3>1, <3>2
    <3> QED
      BY <3>3
  <2>10. ASSUME NEW s \in Steps, NEW d \in dependsOn[s]
         PROVE  WaveIndex[d] < WaveIndex[s]
    <3>1. PICK i \in 1..n : s \in waves[i]
      BY <2>3
    <3>2. PICK j \in 1..n : j < i /\ d \in waves[j]
      BY <2>1, <2>2, <3>1 DEF DependenciesFirst
    <3>3. d \in Steps
      BY <2>1, <2>10 DEF Plans
    <3>4. WaveIndex[s] = i - 1 /\ WaveIndex[d] = j - 1
      BY <2>6, <3>1, <3>2, <3>3
    <3> QED
      BY <2>2, <3>2, <3>4
  <2> QED
    BY <2>5, <2>8, <2>9, <2>10 DEF Executable
<1>2. PlanningInv => (result = "built" => Executable)
  BY <1>1
<1> QED
  BY <1>2, PlanningCorrect, PTL
=============================================================================
