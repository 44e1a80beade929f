------------------------- MODULE TestReportsProofs -------------------------
(***************************************************************************)
(* Theorems about the check and report targets of Makefile.in and about    *)
(* scripts/testsuite-filter.                                               *)
(*                                                                         *)
(* The first half is about the operators of module TestsuiteFilter, for    *)
(* every architecture string: its parser against the rule for such         *)
(* strings, and the list of allowlist names against the combinations that  *)
(* the names stand for.  The second half is the inductive invariant        *)
(* ReportsInv of module TestReports and the properties that follow.        *)
(***************************************************************************)
EXTENDS TestReports, SequenceTheorems, WellFoundedInduction, TLAPS

\* A set of numbers that is not empty has a least one: what the inductions over
\* positions below rest on.
LEMMA LeastNumber ==
  ASSUME NEW T, T \subseteq Nat, T # {}
  PROVE  \E x \in T : \A y \in T : x <= y
<1>1. PICK x \in T : \A y \in T : ~(<<y, x>> \in OpToRel(<, Nat))
  BY NatLessThanWellFounded, WFMin
<1>2. \A y \in T : y \in Nat /\ x \in Nat => ~(y < x)
  BY <1>1, Zenon DEF OpToRel
<1>3. \A y \in T : x <= y
  BY <1>2
<1>4. QED BY <1>3

\* What an interval holds, where the solver should not see its ends.
LEMMA Between ==
  \A a \in Int, b \in Int : \A x \in a .. b : x \in Int /\ a <= x /\ x <= b
OBVIOUS

\* EndOfLong finds the end of a long extension: no underscore up to there, and
\* then the end of the string or an underscore (the inner while of Arch.__init__).
LEMMA EndOfLongIs ==
  ASSUME NEW S, NEW cs \in Seq(S), NEW i \in 1 .. Len(cs)
  PROVE  /\ EndOfLong(cs, i) \in i .. Len(cs)
         /\ \A n \in i + 1 .. EndOfLong(cs, i) : cs[n] # "_"
         /\ EndOfLong(cs, i) = Len(cs) \/ cs[EndOfLong(cs, i) + 1] = "_"
<1> DEFINE n == Len(cs)
           End(j) == j = n \/ cs[j + 1] = "_"
           Ends == {j \in i .. n : End(j)}
<1>1. n \in Nat /\ i \in 1 .. n
  BY LenProperties
<1>2. n \in Ends
  <2> HIDE DEF n
  <2> QED BY <1>1
<1>3. Ends \subseteq Nat
  <2> HIDE DEF n, End
  <2> QED BY <1>1
<1>4. PICK j \in Ends : \A k \in Ends : j <= k
  <2> HIDE DEF Ends
  <2> QED BY <1>2, <1>3, LeastNumber
<1>5. ASSUME NEW m \in i + 1 .. j, cs[m] = "_"
      PROVE  FALSE
  <2> HIDE DEF n
  <2>1. m - 1 \in i .. n /\ (m - 1) + 1 = m /\ m - 1 < j
    <3>1. j \in i .. n
      BY <1>4, Zenon
    <3> HIDE DEF Ends, End
    <3>2. i \in Int /\ n \in Int /\ j \in Int /\ m \in Int /\ i <= m - 1 /\ m <= j /\ j <= n
      BY <1>1, <3>1
    <3>3. QED BY <3>2
  <2>2. m - 1 \in Ends
    BY <1>5, <2>1
  <2> HIDE DEF Ends
  <2>3. j <= m - 1
    BY <1>4, <2>2
  <2>4. j \in Int /\ m \in Int
    BY <1>3
  <2>5. QED BY <2>1, <2>3, <2>4
<1>6. \E k \in i .. Len(cs) : /\ \A m \in i + 1 .. k : cs[m] # "_"
                              /\ k = Len(cs) \/ cs[k + 1] = "_"
  BY <1>4, <1>5, Zenon
<1>7. QED BY <1>6, Zenon DEF EndOfLong

\* One turn of the loop
Turn(cs, f, i) ==
    IF i > Len(cs) THEN {}
    ELSE IF cs[i] = "_" THEN f[i + 1]
    ELSE IF cs[i] \in Long
         THEN {SubSeq(cs, i, EndOfLong(cs, i))} \cup f[EndOfLong(cs, i) + 1]
    ELSE {<<cs[i]>>} \cup f[i + 1]

\* A turn at position i uses what later positions give and nothing else.
LEMMA TurnLocal ==
  ASSUME NEW S, NEW cs \in Seq(S), NEW i \in 1 .. Len(cs) + 1, NEW f, NEW g,
         \A k \in i + 1 .. Len(cs) + 1 : f[k] = g[k]
  PROVE  Turn(cs, f, i) = Turn(cs, g, i)
<1>1. Len(cs) \in Nat
  BY LenProperties
<1>2. CASE i > Len(cs)
  BY <1>2 DEF Turn
<1>3. CASE ~(i > Len(cs))
  <2>1. i \in 1 .. Len(cs) /\ i + 1 \in i + 1 .. Len(cs) + 1
    BY <1>1, <1>3
  <2>2. EndOfLong(cs, i) + 1 \in i + 1 .. Len(cs) + 1
    <3>1. EndOfLong(cs, i) \in i .. Len(cs)
      BY <2>1, EndOfLongIs
    <3>2. QED BY <1>1, <2>1, <3>1
  <2>3. f[i + 1] = g[i + 1] /\ f[EndOfLong(cs, i) + 1] = g[EndOfLong(cs, i) + 1]
    BY <2>1, <2>2
  <2>4. QED BY <1>3, <2>3, Zenon DEF Turn
<1>4. QED BY <1>2, <1>3

\* The recursion of ExtsFrom defines a function: the loop ends, and ExtsFrom takes
\* one turn at each position.
LEMMA ExtsFromIs ==
  ASSUME NEW S, NEW cs \in Seq(S)
  PROVE  ExtsFrom(cs) = [i \in 1 .. Len(cs) + 1 |-> Turn(cs, ExtsFrom(cs), i)]
<1>1. Len(cs) \in Nat
  BY LenProperties
<1> DEFINE n == Len(cs)
           Solves(g, m) == \A i \in n + 1 - m .. n + 1 : g[i] = Turn(cs, g, i)
           Without == {m \in 0 .. n : ~\E g : Solves(g, m)}
<1>2. Without = {}
  <2> SUFFICES ASSUME Without # {} PROVE FALSE
    OBVIOUS
  <2>1. Without \subseteq Nat
    BY <1>1
  <2>2. PICK m \in Without : \A k \in Without : m <= k
    <3> HIDE DEF Without
    <3> QED BY <2>1, LeastNumber
  <2>3. m # 0
    <3> DEFINE g == [i \in {n + 1} |-> {}]
    <3>1. Turn(cs, g, n + 1) = {}
      <4>1. n + 1 > n
        BY <1>1
      <4>2. QED BY <4>1, Zenon DEF Turn
    <3>2. g[n + 1] = {}
      OBVIOUS
    <3>3. Solves(g, 0)
      <4> HIDE DEF g
      <4>1. \A i \in n + 1 - 0 .. n + 1 : i = n + 1
        BY <1>1
      <4> QED BY <4>1, <3>1, <3>2, Zenon
    <3>4. QED BY <3>3, Zenon
  <2>4. m \in 1 .. n /\ m - 1 \in 0 .. n /\ m - 1 \notin Without
    <3>0. n \in Nat
      BY <1>1
    <3> HIDE DEF Solves, n
    <3>1. m \in 0 .. n /\ m # 0
      BY <2>2, <2>3
    <3>2. m \in 1 .. n /\ m - 1 \in 0 .. n /\ ~(m <= m - 1)
      BY <3>0, <3>1
    <3>3. QED BY <2>2, <3>2
  <2>5. PICK g : Solves(g, m - 1)
    <3> HIDE DEF Solves
    <3> QED BY <2>4
  <2> DEFINE k == n + 1 - m
             h == [i \in k .. n + 1 |-> IF i = k THEN Turn(cs, g, k) ELSE g[i]]
  <2>6. k \in 1 .. n /\ n + 1 - (m - 1) = k + 1
    BY <1>1, <2>4
  <2>7. \A i \in k + 1 .. n + 1 : h[i] = g[i]
    BY <1>1, <2>6
  <2>8. h[k] = Turn(cs, g, k)
    BY <1>1, <2>6
  <2>9. \A i \in k .. n + 1 : Turn(cs, h, i) = Turn(cs, g, i)
    <3> HIDE DEF h, k
    <3> SUFFICES ASSUME NEW i \in k .. n + 1 PROVE Turn(cs, h, i) = Turn(cs, g, i)
      OBVIOUS
    <3>1. i \in 1 .. n + 1 /\ \A j \in i + 1 .. n + 1 : h[j] = g[j]
      BY <1>1, <2>6, <2>7
    <3>2. QED BY <3>1, TurnLocal
  <2>10. \A i \in k + 1 .. n + 1 : g[i] = Turn(cs, g, i)
    BY <2>5, <2>6
  <2>11. \A i \in k .. n + 1 : h[i] = Turn(cs, h, i)
    <3> HIDE DEF h, k
    <3> SUFFICES ASSUME NEW i \in k .. n + 1 PROVE h[i] = Turn(cs, h, i)
      OBVIOUS
    <3>1. CASE i = k
      BY <3>1, <2>8, <2>9
    <3>2. CASE i # k
      <4>1. i \in k + 1 .. n + 1
        BY <1>1, <2>6, <3>2
      <4>2. QED BY <4>1, <2>7, <2>9, <2>10
    <3>3. QED BY <3>1, <3>2
  <2>12. Solves(h, m)
    BY <2>11
  <2>13. QED BY <2>2, <2>12, Zenon
<1>3. PICK g : Solves(g, n)
  <2>1. n \in 0 .. n /\ n \notin Without
    BY <1>1, <1>2
  <2>2. QED BY <2>1, Zenon
<1> DEFINE f == [i \in 1 .. n + 1 |-> g[i]]
<1>4. n + 1 - n = 1
  BY <1>1
<1>5. \A i \in 1 .. n + 1 : g[i] = Turn(cs, g, i)
  BY <1>3, <1>4, Zenon
<1>6. \A i \in 1 .. n + 1 : Turn(cs, f, i) = Turn(cs, g, i)
  <2> SUFFICES ASSUME NEW i \in 1 .. n + 1 PROVE Turn(cs, f, i) = Turn(cs, g, i)
    OBVIOUS
  <2>1. \A j \in i + 1 .. n + 1 : f[j] = g[j]
    BY <1>1
  <2> HIDE DEF f
  <2>2. QED BY <2>1, TurnLocal
<1>7. f = [i \in 1 .. n + 1 |-> Turn(cs, f, i)]
  BY <1>5, <1>6, Zenon
<1>8. \E x : x = [i \in 1 .. Len(cs) + 1 |-> Turn(cs, x, i)]
  <2> HIDE DEF f
  <2> QED BY <1>7, Zenon
<1>9. ExtsFrom(cs) = CHOOSE x : x = [i \in 1 .. Len(cs) + 1 |-> Turn(cs, x, i)]
  BY Zenon DEF ExtsFrom, Turn
<1>10. QED BY <1>8, <1>9, Zenon

\* Underscores end long extensions.
LEMMA InLongIs ==
  ASSUME NEW S, NEW cs \in Seq(S), NEW i \in 1 .. Len(cs)
  PROVE  /\ InLong(cs, i) => cs[i] # "_"
         /\ cs[i] \in Long => InLong(cs, i)
         /\ (InLong(cs, i) /\ cs[i] \notin Long) => InLong(cs, i - 1)
<1>1. Len(cs) \in Nat /\ i \in Nat /\ 1 <= i
  BY LenProperties
<1>2. InLong(cs, i) => cs[i] # "_"
  <2> SUFFICES ASSUME InLong(cs, i) PROVE cs[i] # "_"
    OBVIOUS
  <2>1. PICK j \in 1 .. i : cs[j] \in Long /\ \A n \in j .. i : cs[n] # "_"
    BY Zenon DEF InLong
  <2>2. i \in j .. i
    BY <1>1
  <2>3. QED BY <2>1, <2>2
<1>3. ASSUME cs[i] \in Long PROVE InLong(cs, i)
  <2>1. i \in 1 .. i /\ \A n \in i .. i : n = i
    BY <1>1
  <2>2. cs[i] # "_"
    BY <1>3 DEF Long
  <2>3. QED BY <1>3, <2>1, <2>2, Zenon DEF InLong
<1>4. ASSUME InLong(cs, i), cs[i] \notin Long PROVE InLong(cs, i - 1)
  <2>1. PICK j \in 1 .. i : cs[j] \in Long /\ \A n \in j .. i : cs[n] # "_"
    BY <1>4, Zenon DEF InLong
  <2>2. j # i
    BY <1>4, <2>1
  <2>3. j \in 1 .. i - 1 /\ \A n \in j .. i - 1 : n \in j .. i
    BY <1>1, <2>2
  <2>4. QED BY <2>1, <2>3, Zenon DEF InLong
<1>5. QED BY <1>2, <1>3, <1>4

\* Everything up to the end of the word is in the long extension.
LEMMA WordInLong ==
  ASSUME NEW S, NEW cs \in Seq(S), NEW i \in 1 .. Len(cs), cs[i] \in Long,
         NEW k \in i .. EndOfLong(cs, i)
  PROVE  InLong(cs, k)
<1>1. /\ EndOfLong(cs, i) \in i .. Len(cs)
      /\ \A n \in i + 1 .. EndOfLong(cs, i) : cs[n] # "_"
  BY EndOfLongIs
<1>2. Len(cs) \in Nat
  BY LenProperties
<1>a. i \in Int /\ k \in Int /\ EndOfLong(cs, i) \in Int /\ 1 <= i /\ i <= k /\ k <= EndOfLong(cs, i)
  <2>1. 1 \in Int /\ Len(cs) \in Int
    BY <1>2
  <2>2. i \in Int /\ 1 <= i
    BY <2>1, Between, Zenon
  <2>3. EndOfLong(cs, i) \in Int
    BY <1>1, <2>1, <2>2, Between, Zenon
  <2>4. QED BY <2>2, <2>3, Between, Zenon
<1>3. i \in 1 .. k
  BY <1>a
<1>4. \A n \in i .. k : n = i \/ n \in i + 1 .. EndOfLong(cs, i)
  BY <1>a
<1>5. cs[i] # "_"
  BY DEF Long
<1>6. \A n \in i .. k : cs[n] # "_"
  BY <1>1, <1>4, <1>5
<1>7. QED BY <1>3, <1>6, Zenon DEF InLong

\* The extensions of the rule from a position on.
SinglesFrom(cs, i) == {n \in i .. Len(cs) : cs[n] # "_" /\ ~InLong(cs, n)}
LongsFrom(cs, i) == {p \in Longs(cs) : p[1] >= i}
RuleFrom(cs, i) == {<<cs[n]>> : n \in SinglesFrom(cs, i)}
                   \cup {SubSeq(cs, p[1], p[2]) : p \in LongsFrom(cs, i)}

\* A position the loop comes to
Boundary(cs, i) == i = Len(cs) + 1 \/ cs[i] = "_" \/ ~InLong(cs, i - 1)

\* The rule takes the same turns as the loop.
LEMMA LongsAre ==
  ASSUME NEW S, NEW cs \in Seq(S), NEW p
  PROVE  p \in Longs(cs) <=>
          /\ p \in (1 .. Len(cs)) \X (1 .. Len(cs))
          /\ p[1] <= p[2] /\ \A n \in p[1] .. p[2] : InLong(cs, n)
          /\ p[1] = 1 \/ ~InLong(cs, p[1] - 1)
          /\ p[2] = Len(cs) \/ ~InLong(cs, p[2] + 1)
BY Zenon DEF Longs

\* At a position outside long extensions none begins.
LEMMA LongsFromStep ==
  ASSUME NEW S, NEW cs \in Seq(S), NEW i \in 1 .. Len(cs), ~InLong(cs, i)
  PROVE  LongsFrom(cs, i) = LongsFrom(cs, i + 1)
<1>1. Len(cs) \in Nat
  BY LenProperties
<1>2. ASSUME NEW p \in Longs(cs), p[1] >= i
      PROVE  p[1] >= i + 1
  <2>1. p[1] \in 1 .. Len(cs) /\ p[2] \in 1 .. Len(cs) /\ p[1] <= p[2]
    BY LongsAre
  <2>2. \A n \in p[1] .. p[2] : InLong(cs, n)
    BY LongsAre
  <2>3. p[1] # i
    <3>1. p[1] \in p[1] .. p[2]
      BY <1>1, <2>1
    <3>2. InLong(cs, p[1])
      BY <3>1, <2>2
    <3>3. QED BY <3>2
  <2>4. QED BY <1>1, <1>2, <2>1, <2>3
<1>3. ASSUME NEW p \in Longs(cs), p[1] >= i + 1
      PROVE  p[1] >= i
  <2>1. p[1] \in 1 .. Len(cs)
    BY LongsAre
  <2>2. QED BY <1>1, <1>3, <2>1
<1>4. QED BY <1>2, <1>3, Zenon DEF LongsFrom

\* Where the loop comes to the first character of a long extension, the extension
\* that begins there is maximal, and the others begin behind its end.
LEMMA LongsFromWord ==
  ASSUME NEW S, NEW cs \in Seq(S), NEW i \in 1 .. Len(cs), cs[i] \in Long, Boundary(cs, i)
  PROVE  LongsFrom(cs, i) = {<<i, EndOfLong(cs, i)>>} \cup LongsFrom(cs, EndOfLong(cs, i) + 1)
<1> DEFINE e == EndOfLong(cs, i)
<1>1. Len(cs) \in Nat
  BY LenProperties
<1>2. e \in i .. Len(cs) /\ (e = Len(cs) \/ cs[e + 1] = "_")
  BY EndOfLongIs
<1>a. /\ i \in Int /\ e \in Int /\ Len(cs) \in Int
      /\ 1 <= i /\ i <= e /\ e <= Len(cs)
  <2> HIDE DEF e
  <2>1. 1 \in Int /\ Len(cs) \in Int
    BY <1>1
  <2>2. i \in Int /\ 1 <= i
    BY <2>1, Between, Zenon
  <2>3. QED BY <1>2, <2>1, <2>2, Between, Zenon
<1>3. \A k \in i .. e : InLong(cs, k)
  BY WordInLong
<1>4. e = Len(cs) \/ (e + 1 \in 1 .. Len(cs) /\ ~InLong(cs, e + 1))
  <2> HIDE DEF e
  <2>1. CASE e # Len(cs)
    <3>1. e + 1 \in 1 .. Len(cs)
      BY <1>a, <2>1
    <3>2. QED BY <1>2, <2>1, <3>1, InLongIs
  <2>2. QED BY <2>1
<1>5. ~InLong(cs, i - 1)
  <2>1. i # Len(cs) + 1
    BY <1>1
  <2>2. cs[i] # "_"
    BY DEF Long
  <2>3. QED BY <2>1, <2>2 DEF Boundary
<1> HIDE DEF e
<1>6. <<i, e>> \in Longs(cs) /\ <<i, e>>[1] >= i
  <2> DEFINE p == <<i, e>>
  <2>1. p[1] = i /\ p[2] = e /\ p \in (1 .. Len(cs)) \X (1 .. Len(cs)) /\ i <= e /\ i >= i
    BY <1>a
  <2> HIDE DEF p
  <2>2. p \in Longs(cs)
    BY <1>3, <1>4, <1>5, <2>1, LongsAre
  <2>3. QED BY <2>1, <2>2 DEF p
<1>7. ASSUME NEW p \in Longs(cs), p[1] >= i, ~(p[1] >= e + 1)
      PROVE  p = <<i, e>>
  <2>1. /\ p \in (1 .. Len(cs)) \X (1 .. Len(cs))
        /\ p[1] \in 1 .. Len(cs) /\ p[2] \in 1 .. Len(cs) /\ p[1] <= p[2]
        /\ \A n \in p[1] .. p[2] : InLong(cs, n)
        /\ p[1] = 1 \/ ~InLong(cs, p[1] - 1)
        /\ p[2] = Len(cs) \/ ~InLong(cs, p[2] + 1)
    BY LongsAre
  <2>2. p[1] = i
    <3> SUFFICES ASSUME p[1] # i PROVE FALSE
      OBVIOUS
    <3>1. p[1] - 1 \in i .. e /\ p[1] # 1
      BY <1>a, <1>7, <2>1
    <3>2. QED BY <1>3, <2>1, <3>1
  <2>3. p[2] <= e
    <3> SUFFICES ASSUME ~(p[2] <= e) PROVE FALSE
      OBVIOUS
    <3>1. e # Len(cs) /\ e + 1 \in p[1] .. p[2]
      BY <1>a, <2>1, <2>2
    <3>2. QED BY <1>4, <2>1, <3>1
  <2>4. p[2] = e
    <3> SUFFICES ASSUME p[2] # e PROVE FALSE
      OBVIOUS
    <3>1. p[2] # Len(cs) /\ p[2] + 1 \in i .. e
      BY <1>a, <2>1, <2>2, <2>3
    <3>2. QED BY <1>3, <2>1, <3>1
  <2>5. QED BY <2>1, <2>2, <2>4
<1>8. ASSUME NEW p \in Longs(cs), p[1] >= e + 1
      PROVE  p[1] >= i
  <2>1. p[1] \in 1 .. Len(cs)
    BY LongsAre
  <2>2. QED BY <1>a, <1>8, <2>1
<1>9. LongsFrom(cs, i) = {<<i, e>>} \cup LongsFrom(cs, e + 1)
  BY <1>6, <1>7, <1>8, Zenon DEF LongsFrom
<1>10. QED BY <1>9 DEF e

\* A position adds itself to the single letters if it is one.
LEMMA SinglesFromStep ==
  ASSUME NEW S, NEW cs \in Seq(S), NEW i \in 1 .. Len(cs)
  PROVE  SinglesFrom(cs, i) = (IF cs[i] # "_" /\ ~InLong(cs, i) THEN {i} ELSE {})
                              \cup SinglesFrom(cs, i + 1)
<1>1. Len(cs) \in Nat
  BY LenProperties
<1>2. \A n : n \in i .. Len(cs) <=> n = i \/ n \in i + 1 .. Len(cs)
  BY <1>1
<1>3. QED BY <1>2, Zenon DEF SinglesFrom

\* A long extension holds no single letters.
LEMMA SinglesFromWord ==
  ASSUME NEW S, NEW cs \in Seq(S), NEW i \in 1 .. Len(cs), cs[i] \in Long
  PROVE  SinglesFrom(cs, i) = SinglesFrom(cs, EndOfLong(cs, i) + 1)
<1> DEFINE e == EndOfLong(cs, i)
<1>1. Len(cs) \in Int /\ 1 \in Int
  BY LenProperties
<1>2. e \in i .. Len(cs) /\ \A k \in i .. e : InLong(cs, k)
  BY EndOfLongIs, WordInLong
<1> HIDE DEF e
<1>3. i \in Int /\ e \in Int /\ i <= e /\ e <= Len(cs)
  <2>1. i \in Int
    BY <1>1, Between, Zenon
  <2>2. QED BY <1>1, <1>2, <2>1, Between, Zenon
<1>4. \A n : n \in i .. Len(cs) <=> n \in i .. e \/ n \in e + 1 .. Len(cs)
  BY <1>1, <1>3
<1>5. SinglesFrom(cs, i) = SinglesFrom(cs, e + 1)
  BY <1>2, <1>4, Zenon DEF SinglesFrom
<1>6. QED BY <1>5 DEF e

\* The rule takes the turns of the loop, from one position the loop comes to on to
\* the next.
LEMMA RuleTurns ==
  ASSUME NEW S, NEW cs \in Seq(S), NEW i \in 1 .. Len(cs), Boundary(cs, i)
  PROVE  /\ cs[i] = "_" => RuleFrom(cs, i) = RuleFrom(cs, i + 1) /\ Boundary(cs, i + 1)
         /\ cs[i] \in Long =>
               /\ RuleFrom(cs, i) = {SubSeq(cs, i, EndOfLong(cs, i))}
                                    \cup RuleFrom(cs, EndOfLong(cs, i) + 1)
               /\ Boundary(cs, EndOfLong(cs, i) + 1)
         /\ (cs[i] # "_" /\ cs[i] \notin Long) =>
               RuleFrom(cs, i) = {<<cs[i]>>} \cup RuleFrom(cs, i + 1) /\ Boundary(cs, i + 1)
<1>1. Len(cs) \in Int /\ i \in Int
  BY LenProperties
<1>2. (i + 1) - 1 = i
  BY <1>1
<1>3. ASSUME cs[i] = "_"
      PROVE  RuleFrom(cs, i) = RuleFrom(cs, i + 1) /\ Boundary(cs, i + 1)
  <2>1. ~InLong(cs, i)
    BY <1>3, InLongIs
  <2>2. SinglesFrom(cs, i) = SinglesFrom(cs, i + 1)
    <3>1. SinglesFrom(cs, i) = {} \cup SinglesFrom(cs, i + 1)
      BY <1>3, SinglesFromStep, Zenon
    <3>2. QED BY <3>1, Zenon
  <2>3. LongsFrom(cs, i) = LongsFrom(cs, i + 1)
    BY <2>1, LongsFromStep
  <2>4. Boundary(cs, i + 1)
    BY <1>2, <2>1 DEF Boundary
  <2>5. QED BY <2>2, <2>3, <2>4, Zenon DEF RuleFrom
<1>4. ASSUME cs[i] \in Long
      PROVE  /\ RuleFrom(cs, i) = {SubSeq(cs, i, EndOfLong(cs, i))}
                                  \cup RuleFrom(cs, EndOfLong(cs, i) + 1)
             /\ Boundary(cs, EndOfLong(cs, i) + 1)
  <2> DEFINE e == EndOfLong(cs, i)
  <2>1. SinglesFrom(cs, i) = SinglesFrom(cs, e + 1)
    BY <1>4, SinglesFromWord
  <2>2. LongsFrom(cs, i) = {<<i, e>>} \cup LongsFrom(cs, e + 1)
    BY <1>4, LongsFromWord
  <2>3. Boundary(cs, e + 1)
    BY EndOfLongIs DEF Boundary
  <2> HIDE DEF e
  <2>4. {SubSeq(cs, p[1], p[2]) : p \in LongsFrom(cs, i)}
          = {SubSeq(cs, i, e)} \cup {SubSeq(cs, p[1], p[2]) : p \in LongsFrom(cs, e + 1)}
    <3>1. <<i, e>>[1] = i /\ <<i, e>>[2] = e
      OBVIOUS
    <3>2. QED BY <2>2, <3>1, Zenon
  <2>5. RuleFrom(cs, i) = {SubSeq(cs, i, e)} \cup RuleFrom(cs, e + 1)
    BY <2>1, <2>4, Zenon DEF RuleFrom
  <2>6. QED BY <2>3, <2>5 DEF e
<1>5. ASSUME cs[i] # "_", cs[i] \notin Long
      PROVE  RuleFrom(cs, i) = {<<cs[i]>>} \cup RuleFrom(cs, i + 1) /\ Boundary(cs, i + 1)
  <2>1. ~InLong(cs, i)
    <3>1. i # Len(cs) + 1
      BY <1>1
    <3>2. ~InLong(cs, i - 1)
      BY <1>5, <3>1 DEF Boundary
    <3>3. QED BY <1>5, <3>2, InLongIs
  <2>2. SinglesFrom(cs, i) = {i} \cup SinglesFrom(cs, i + 1)
    BY <1>5, <2>1, SinglesFromStep
  <2>3. LongsFrom(cs, i) = LongsFrom(cs, i + 1)
    BY <2>1, LongsFromStep
  <2>4. Boundary(cs, i + 1)
    BY <1>2, <2>1 DEF Boundary
  <2>5. {<<cs[n]>> : n \in SinglesFrom(cs, i)}
          = {<<cs[i]>>} \cup {<<cs[n]>> : n \in SinglesFrom(cs, i + 1)}
    BY <2>2, Zenon
  <2>6. QED BY <2>3, <2>4, <2>5, Zenon DEF RuleFrom
<1>6. QED BY <1>3, <1>4, <1>5

\* At every position the loop comes to, what it still collects is what the rule
\* gives from there on.
LEMMA LoopFollowsRule ==
  ASSUME NEW S, NEW cs \in Seq(S)
  PROVE  ExtsFrom(cs)[1] = RuleFrom(cs, 1)
<1> DEFINE n == Len(cs)
           Wrong(i) == Boundary(cs, i) /\ ExtsFrom(cs)[i] # RuleFrom(cs, i)
           Wrongs == {m \in 0 .. n : Wrong(n + 1 - m)}
<1>1. n \in Nat
  BY LenProperties
<1>2. \A i \in 1 .. n + 1 : ExtsFrom(cs)[i] = Turn(cs, ExtsFrom(cs), i)
  BY ExtsFromIs
<1>3. Wrongs = {}
  <2> SUFFICES ASSUME Wrongs # {} PROVE FALSE
    OBVIOUS
  <2>1. Wrongs \subseteq Nat
    <3> HIDE DEF n, Wrong
    <3> QED BY <1>1
  <2>2. PICK m \in Wrongs : \A k \in Wrongs : m <= k
    <3> HIDE DEF Wrongs
    <3> QED BY <2>1, LeastNumber
  <2> DEFINE i == n + 1 - m
  <2>3. m \in 0 .. n /\ Wrong(i)
    BY <2>2, Zenon
  <2>4. /\ i \in 1 .. n + 1 /\ i \in Int /\ m = n + 1 - i
        /\ i + 1 \in Int /\ i + 1 > i
    <3> HIDE DEF n, Wrong, Wrongs
    <3> QED BY <1>1, <2>3
  <2>5. ASSUME NEW j \in i + 1 .. n + 1, Boundary(cs, j)
        PROVE  ExtsFrom(cs)[j] = RuleFrom(cs, j)
    <3> DEFINE k == n + 1 - j
    <3>1. k \in 0 .. n /\ n + 1 - k = j /\ ~(m <= k)
      <4> HIDE DEF n, i, Wrong, Wrongs
      <4>1. j \in Int /\ i + 1 <= j /\ j <= n + 1 /\ i >= 1 /\ i <= n + 1 /\ m \in Int
        BY <1>1, <2>3, <2>4
      <4>2. QED BY <1>1, <2>4, <4>1
    <3> HIDE DEF k, Wrong, n
    <3>2. k \notin Wrongs
      BY <2>2, <3>1
    <3>3. ~Wrong(j)
      BY <3>1, <3>2
    <3>4. QED BY <2>5, <3>3 DEF Wrong
  <2> HIDE DEF i
  <2>6. CASE i > n
    <3>1. i = n + 1
      BY <1>1, <2>4, <2>6
    <3>2. Turn(cs, ExtsFrom(cs), i) = {}
      BY <2>6, Zenon DEF Turn
    <3>3. SinglesFrom(cs, i) = {}
      <4>1. i .. Len(cs) = {}
        BY <1>1, <2>4, <2>6
      <4>2. QED BY <4>1 DEF SinglesFrom
    <3>4. LongsFrom(cs, i) = {}
      <4>1. ASSUME NEW p \in Longs(cs), p[1] >= i PROVE FALSE
        <5>1. p[1] \in 1 .. Len(cs)
          BY LongsAre
        <5>2. QED BY <1>1, <2>4, <2>6, <4>1, <5>1
      <4>2. QED BY <4>1, Zenon DEF LongsFrom
    <3>5. RuleFrom(cs, i) = {}
      BY <3>3, <3>4 DEF RuleFrom
    <3>6. QED BY <1>2, <2>3, <2>4, <3>2, <3>5
  <2>7. CASE ~(i > n)
    <3>1. i \in 1 .. n /\ i + 1 \in i + 1 .. n + 1
      BY <1>1, <2>4, <2>7
    <3>2. Boundary(cs, i) /\ ExtsFrom(cs)[i] # RuleFrom(cs, i)
      BY <2>3
    <3>3. EndOfLong(cs, i) + 1 \in i + 1 .. n + 1
      <4>1. EndOfLong(cs, i) \in i .. n
        BY <3>1, EndOfLongIs
      <4>2. QED BY <1>1, <2>4, <4>1
    <3>4. ExtsFrom(cs)[i] = Turn(cs, ExtsFrom(cs), i)
      BY <1>2, <2>4
    <3>5. CASE cs[i] = "_"
      <4>1. RuleFrom(cs, i) = RuleFrom(cs, i + 1) /\ Boundary(cs, i + 1)
        BY <3>1, <3>2, <3>5, RuleTurns
      <4>2. ExtsFrom(cs)[i + 1] = RuleFrom(cs, i + 1)
        BY <2>5, <3>1, <4>1
      <4>3. Turn(cs, ExtsFrom(cs), i) = ExtsFrom(cs)[i + 1]
        BY <2>7, <3>5, Zenon DEF Turn
      <4>4. QED BY <3>2, <3>4, <4>1, <4>2, <4>3
    <3>6. CASE cs[i] \in Long
      <4> DEFINE e == EndOfLong(cs, i)
      <4>1. /\ RuleFrom(cs, i) = {SubSeq(cs, i, e)} \cup RuleFrom(cs, e + 1)
            /\ Boundary(cs, e + 1)
        BY <3>1, <3>2, <3>6, RuleTurns
      <4>2. ExtsFrom(cs)[e + 1] = RuleFrom(cs, e + 1)
        BY <2>5, <3>3, <4>1
      <4>3. cs[i] # "_"
        BY <3>6 DEF Long
      <4>4. Turn(cs, ExtsFrom(cs), i) = {SubSeq(cs, i, e)} \cup ExtsFrom(cs)[e + 1]
        BY <2>7, <3>6, <4>3, Zenon DEF Turn
      <4>5. QED BY <3>2, <3>4, <4>1, <4>2, <4>4, Zenon
    <3>7. CASE cs[i] # "_" /\ cs[i] \notin Long
      <4>1. RuleFrom(cs, i) = {<<cs[i]>>} \cup RuleFrom(cs, i + 1) /\ Boundary(cs, i + 1)
        BY <3>1, <3>2, <3>7, RuleTurns
      <4>2. ExtsFrom(cs)[i + 1] = RuleFrom(cs, i + 1)
        BY <2>5, <3>1, <4>1
      <4>3. Turn(cs, ExtsFrom(cs), i) = {<<cs[i]>>} \cup ExtsFrom(cs)[i + 1]
        BY <2>7, <3>7, Zenon DEF Turn
      <4>4. QED BY <3>2, <3>4, <4>1, <4>2, <4>3, Zenon
    <3>8. QED BY <3>5, <3>6, <3>7
  <2>8. QED BY <2>6, <2>7
<1>4. Boundary(cs, 1)
  <2>1. 1 .. 1 - 1 = {}
    OBVIOUS
  <2>2. ~InLong(cs, 1 - 1)
    BY <2>1 DEF InLong
  <2>3. QED BY <2>2 DEF Boundary
<1>5. n \in 0 .. n /\ n + 1 - n = 1
  BY <1>1
<1>6. ~Wrong(1)
  <2> HIDE DEF Wrong, n
  <2> QED BY <1>3, <1>5
<1>7. QED BY <1>4, <1>6

\* Short tuples are sequences.
LEMMA TuplesAreSeqs ==
  ASSUME NEW S, NEW a \in S, NEW b \in S, NEW c \in S, NEW d \in S, NEW e \in S
  PROVE  /\ << >> \in Seq(S) /\ <<a>> \in Seq(S) /\ <<a, b>> \in Seq(S) /\ <<a, b, c>> \in Seq(S)
         /\ <<a, b, c, d>> \in Seq(S) /\ <<a, b, c, d, e>> \in Seq(S)
OBVIOUS

\* Writing out the letter g leaves a sequence of characters.
LEMMA ExpandedIsSeq ==
  ASSUME NEW S, NEW arch, arch.chars \in Seq(S)
  PROVE  Expanded(arch) \in Seq(S \cup {"i", "m", "a", "f", "d"})
<1> DEFINE T == S \cup {"i", "m", "a", "f", "d"}
<1>1. <<"i", "m", "a", "f", "d">> \in Seq(T)
  BY TuplesAreSeqs
<1>2. arch.chars \in Seq(T)
  <2>1. S \subseteq T
    OBVIOUS
  <2> HIDE DEF T
  <2>2. QED BY <2>1, SeqMonotonic
<1> HIDE DEF T
<1>3. arch.chars # << >> => Tail(arch.chars) \in Seq(T)
  BY <1>2, HeadTailProperties
<1>4. ASSUME arch.chars # << >> PROVE <<"i", "m", "a", "f", "d">> \o Tail(arch.chars) \in Seq(T)
  BY <1>1, <1>3, <1>4, ConcatProperties
<1>5. Expanded(arch) \in Seq(T)
  BY <1>2, <1>4, Zenon DEF Expanded
<1>6. QED BY <1>5 DEF T

\* Arch.__init__ of testsuite-filter finds, in every architecture string, exactly
\* the extensions that the rule for such strings gives: the letters outside long
\* extensions, and the maximal long extensions.
THEOREM ParserFollowsRule ==
  ASSUME NEW S, NEW arch, arch.chars \in Seq(S)
  PROVE  Exts(arch) = ReferenceExts(arch)
<1> DEFINE cs == Expanded(arch)
           T == S \cup {"i", "m", "a", "f", "d"}
<1>1. cs \in Seq(T)
  BY ExpandedIsSeq
<1>2. Exts(arch) = ExtsFrom(cs)[1]
  BY Zenon DEF Exts
<1>3. ReferenceExts(arch) = {<<cs[i]>> : i \in {n \in 1 .. Len(cs) : cs[n] # "_" /\ ~InLong(cs, n)}}
                            \cup {SubSeq(cs, p[1], p[2]) : p \in Longs(cs)}
  BY Zenon DEF ReferenceExts
<1> HIDE DEF cs, T
<1>4. Len(cs) \in Int /\ 1 \in Int
  BY <1>1, LenProperties
<1>5. \A p \in Longs(cs) : p[1] >= 1
  <2> SUFFICES ASSUME NEW p \in Longs(cs) PROVE p[1] >= 1
    OBVIOUS
  <2>1. p[1] \in 1 .. Len(cs)
    BY <1>1, LongsAre
  <2>2. QED BY <1>4, <2>1
<1>6. LongsFrom(cs, 1) = Longs(cs)
  BY <1>5, Zenon DEF LongsFrom
<1>7. RuleFrom(cs, 1) = {<<cs[i]>> : i \in {n \in 1 .. Len(cs) : cs[n] # "_" /\ ~InLong(cs, n)}}
                        \cup {SubSeq(cs, p[1], p[2]) : p \in Longs(cs)}
  BY <1>6, Zenon DEF RuleFrom, SinglesFrom
<1>8. ExtsFrom(cs)[1] = RuleFrom(cs, 1)
  BY <1>1, LoopFollowsRule
<1>9. QED BY <1>2, <1>3, <1>7, <1>8, Zenon

\* Joining one part to a name of one part.
LEMMA Joined2 ==
  ASSUME NEW a, NEW b
  PROVE  <<a>> \o <<b>> = <<a, b>>
<1> DEFINE S == {a, b}
           l == <<a>> \o <<b>>
           r == <<a, b>>
<1>1. r \in Seq(S) /\ Len(r) = 2 /\ r[1] = a /\ r[2] = b
  OBVIOUS
<1>2. <<a>> \in Seq(S) /\ <<b>> \in Seq(S) /\ Len(<<a>>) = 1 /\ Len(<<b>>) = 1
  OBVIOUS
<1>3. l \in Seq(S) /\ Len(l) = 2 /\ \A k \in 1 .. 2 : l[k] = IF k <= 1 THEN a ELSE b
  BY <1>2, ConcatProperties
<1> HIDE DEF l, r
<1>4. l = r
  BY <1>1, <1>3, SeqEqual
<1>5. QED BY <1>4 DEF l, r

\* The same for a name of two parts.
LEMMA Joined3 ==
  ASSUME NEW a, NEW b, NEW c
  PROVE  <<a, b>> \o <<c>> = <<a, b, c>>
<1> DEFINE S == {a, b, c}
           l == <<a, b>> \o <<c>>
           r == <<a, b, c>>
<1>1. r \in Seq(S) /\ Len(r) = 3 /\ r[1] = a /\ r[2] = b /\ r[3] = c
  OBVIOUS
<1>2. <<a, b>> \in Seq(S) /\ <<c>> \in Seq(S) /\ Len(<<a, b>>) = 2 /\ Len(<<c>>) = 1
  OBVIOUS
<1>3. l \in Seq(S) /\ Len(l) = 3 /\ l[1] = a /\ l[2] = b /\ l[3] = c
  BY <1>2, ConcatProperties
<1> HIDE DEF l, r
<1>4. l = r
  BY <1>1, <1>3, SeqEqual
<1>5. QED BY <1>4 DEF l, r

\* The same for a name of three parts.
LEMMA Joined4 ==
  ASSUME NEW a, NEW b, NEW c, NEW d
  PROVE  <<a, b, c>> \o <<d>> = <<a, b, c, d>>
<1> DEFINE S == {a, b, c, d}
           l == <<a, b, c>> \o <<d>>
           r == <<a, b, c, d>>
<1>1. r \in Seq(S) /\ Len(r) = 4 /\ r[1] = a /\ r[2] = b /\ r[3] = c /\ r[4] = d
  OBVIOUS
<1>2. <<a, b, c>> \in Seq(S) /\ <<d>> \in Seq(S) /\ Len(<<a, b, c>>) = 3 /\ Len(<<d>>) = 1
  OBVIOUS
<1>3. l \in Seq(S) /\ Len(l) = 4 /\ l[1] = a /\ l[2] = b /\ l[3] = c /\ l[4] = d
  BY <1>2, ConcatProperties
<1> HIDE DEF l, r
<1>4. l = r
  BY <1>1, <1>3, SeqEqual
<1>5. QED BY <1>4 DEF l, r

\* Joining nothing.
LEMMA JoinedEmpty ==
  ASSUME NEW w, NEW x, NEW y
  PROVE  /\ << >> \o << >> = << >> /\ << >> \o <<w>> = <<w>>
         /\ <<w>> \o << >> = <<w>> /\ <<w, x>> \o << >> = <<w, x>>
         /\ <<w, x, y>> \o << >> = <<w, x, y>>
OBVIOUS

\* The four parts of a name, each there or not.
Joints(w, x, y, z) ==
    /\ << >> \o << >> \o << >> \o << >> = << >>
    /\ << >> \o << >> \o << >> \o <<z>> = <<z>>
    /\ << >> \o << >> \o <<y>> \o << >> = <<y>>
    /\ << >> \o << >> \o <<y>> \o <<z>> = <<y, z>>
    /\ << >> \o <<x>> \o << >> \o << >> = <<x>>
    /\ << >> \o <<x>> \o << >> \o <<z>> = <<x, z>>
    /\ << >> \o <<x>> \o <<y>> \o << >> = <<x, y>>
    /\ << >> \o <<x>> \o <<y>> \o <<z>> = <<x, y, z>>
    /\ <<w>> \o << >> \o << >> \o << >> = <<w>>
    /\ <<w>> \o << >> \o << >> \o <<z>> = <<w, z>>
    /\ <<w>> \o << >> \o <<y>> \o << >> = <<w, y>>
    /\ <<w>> \o << >> \o <<y>> \o <<z>> = <<w, y, z>>
    /\ <<w>> \o <<x>> \o << >> \o << >> = <<w, x>>
    /\ <<w>> \o <<x>> \o << >> \o <<z>> = <<w, x, z>>
    /\ <<w>> \o <<x>> \o <<y>> \o << >> = <<w, x, y>>
    /\ <<w>> \o <<x>> \o <<y>> \o <<z>> = <<w, x, y, z>>

\* All sixteen names of four parts that are there or not.
LEMMA Joined == ASSUME NEW w, NEW x, NEW y, NEW z PROVE Joints(w, x, y, z)
<1>1. /\ << >> \o << >> = << >> /\ << >> \o <<x>> = <<x>>
      /\ << >> \o <<y>> = <<y>> /\ << >> \o <<z>> = <<z>>
  BY JoinedEmpty, Zenon
<1>2. <<w>> \o << >> = <<w>> /\ <<x>> \o << >> = <<x>> /\ <<y>> \o << >> = <<y>>
  BY JoinedEmpty, Zenon
<1>3. <<w, x>> \o << >> = <<w, x>> /\ <<x, y>> \o << >> = <<x, y>> /\ <<w, y>> \o << >> = <<w, y>>
      /\ <<w, x, y>> \o << >> = <<w, x, y>>
  BY JoinedEmpty, Zenon
<1>4. /\ <<w>> \o <<x>> = <<w, x>> /\ <<w>> \o <<y>> = <<w, y>> /\ <<w>> \o <<z>> = <<w, z>>
      /\ <<x>> \o <<y>> = <<x, y>> /\ <<x>> \o <<z>> = <<x, z>> /\ <<y>> \o <<z>> = <<y, z>>
  BY Joined2, Zenon
<1>5. /\ <<w, x>> \o <<y>> = <<w, x, y>> /\ <<w, x>> \o <<z>> = <<w, x, z>>
      /\ <<w, y>> \o <<z>> = <<w, y, z>> /\ <<x, y>> \o <<z>> = <<x, y, z>>
  BY Joined3, Zenon
<1>6. <<w, x, y>> \o <<z>> = <<w, x, y, z>>
  BY Joined4, Zenon
<1>7. QED BY <1>1, <1>2, <1>3, <1>4, <1>5, <1>6, Zenon DEF Joints

\* A name with a part is not empty.
LEMMA NonEmpty ==
  ASSUME NEW w, NEW x, NEW y, NEW z
  PROVE  <<w>> # << >> /\ <<w, x>> # << >> /\ <<w, x, y>> # << >> /\ <<w, x, y, z>> # << >>
OBVIOUS

\* The names without and with an extension.
Plain(l, b, a) == {<<l>>, <<b>>, <<a>>, <<b, a>>, <<l, b>>, <<l, a>>, <<l, b, a>>}
With(l, b, a, e) == {<<e>>, <<b, e>>, <<e, a>>, <<b, e, a>>,
                     <<l, e>>, <<l, b, e>>, <<l, e, a>>, <<l, b, e, a>>}

\* Every name the rule makes is empty, without an extension or with one.
LEMMA NamesInRule ==
  ASSUME NEW l, NEW b, NEW a, NEW e, NEW p, NEW q, NEW s,
         p = << >> \/ p = <<l>>, q = << >> \/ q = <<b>>, s = << >> \/ s = <<a>>
  PROVE  /\ p \o q \o << >> \o s \in Plain(l, b, a) \cup {<< >>}
         /\ p \o q \o <<e>> \o s \in With(l, b, a, e)
<1>0. Joints(l, b, e, a)
  BY Joined
<1>1. CASE p = << >> /\ q = << >> /\ s = << >>
  <2>1. << >> \o << >> \o << >> \o << >> = << >> /\ << >> \o << >> \o <<e>> \o << >> = <<e>>
    BY <1>0, Zenon DEF Joints
  <2>2. << >> \in Plain(l, b, a) \cup {<< >>} /\ <<e>> \in With(l, b, a, e)
    BY Zenon DEF Plain, With
  <2>3. QED BY <1>1, <2>1, <2>2, Zenon
<1>2. CASE p = << >> /\ q = << >> /\ s = <<a>>
  <2>1. << >> \o << >> \o << >> \o <<a>> = <<a>> /\ << >> \o << >> \o <<e>> \o <<a>> = <<e, a>>
    BY <1>0, Zenon DEF Joints
  <2>2. <<a>> \in Plain(l, b, a) \cup {<< >>} /\ <<e, a>> \in With(l, b, a, e)
    BY Zenon DEF Plain, With
  <2>3. QED BY <1>2, <2>1, <2>2, Zenon
<1>3. CASE p = << >> /\ q = <<b>> /\ s = << >>
  <2>1. << >> \o <<b>> \o << >> \o << >> = <<b>> /\ << >> \o <<b>> \o <<e>> \o << >> = <<b, e>>
    BY <1>0, Zenon DEF Joints
  <2>2. <<b>> \in Plain(l, b, a) \cup {<< >>} /\ <<b, e>> \in With(l, b, a, e)
    BY Zenon DEF Plain, With
  <2>3. QED BY <1>3, <2>1, <2>2, Zenon
<1>4. CASE p = << >> /\ q = <<b>> /\ s = <<a>>
  <2>1. << >> \o <<b>> \o << >> \o <<a>> = <<b, a>>
        /\ << >> \o <<b>> \o <<e>> \o <<a>> = <<b, e, a>>
    BY <1>0, Zenon DEF Joints
  <2>2. <<b, a>> \in Plain(l, b, a) \cup {<< >>} /\ <<b, e, a>> \in With(l, b, a, e)
    BY Zenon DEF Plain, With
  <2>3. QED BY <1>4, <2>1, <2>2, Zenon
<1>5. CASE p = <<l>> /\ q = << >> /\ s = << >>
  <2>1. <<l>> \o << >> \o << >> \o << >> = <<l>> /\ <<l>> \o << >> \o <<e>> \o << >> = <<l, e>>
    BY <1>0, Zenon DEF Joints
  <2>2. <<l>> \in Plain(l, b, a) \cup {<< >>} /\ <<l, e>> \in With(l, b, a, e)
    BY Zenon DEF Plain, With
  <2>3. QED BY <1>5, <2>1, <2>2, Zenon
<1>6. CASE p = <<l>> /\ q = << >> /\ s = <<a>>
  <2>1. <<l>> \o << >> \o << >> \o <<a>> = <<l, a>>
        /\ <<l>> \o << >> \o <<e>> \o <<a>> = <<l, e, a>>
    BY <1>0, Zenon DEF Joints
  <2>2. <<l, a>> \in Plain(l, b, a) \cup {<< >>} /\ <<l, e, a>> \in With(l, b, a, e)
    BY Zenon DEF Plain, With
  <2>3. QED BY <1>6, <2>1, <2>2, Zenon
<1>7. CASE p = <<l>> /\ q = <<b>> /\ s = << >>
  <2>1. <<l>> \o <<b>> \o << >> \o << >> = <<l, b>>
        /\ <<l>> \o <<b>> \o <<e>> \o << >> = <<l, b, e>>
    BY <1>0, Zenon DEF Joints
  <2>2. <<l, b>> \in Plain(l, b, a) \cup {<< >>} /\ <<l, b, e>> \in With(l, b, a, e)
    BY Zenon DEF Plain, With
  <2>3. QED BY <1>7, <2>1, <2>2, Zenon
<1>8. CASE p = <<l>> /\ q = <<b>> /\ s = <<a>>
  <2>1. <<l>> \o <<b>> \o << >> \o <<a>> = <<l, b, a>>
        /\ <<l>> \o <<b>> \o <<e>> \o <<a>> = <<l, b, e, a>>
    BY <1>0, Zenon DEF Joints
  <2>2. <<l, b, a>> \in Plain(l, b, a) \cup {<< >>} /\ <<l, b, e, a>> \in With(l, b, a, e)
    BY Zenon DEF Plain, With
  <2>3. QED BY <1>8, <2>1, <2>2, Zenon
<1>9. QED BY <1>1, <1>2, <1>3, <1>4, <1>5, <1>6, <1>7, <1>8, Zenon

\* Every name without an extension is one the rule makes.
LEMMA PlainInRule ==
  ASSUME NEW l, NEW b, NEW a, NEW R,
         \A p, q, s : (p = << >> \/ p = <<l>>) /\ (q = << >> \/ q = <<b>>) /\ (s = << >> \/ s = <<a>>)
                        => p \o q \o << >> \o s \in R
  PROVE  Plain(l, b, a) \subseteq R \ {<< >>}
<1>0. Joints(l, b, a, a)
  BY Joined
<1>1. <<a>> \in R
  <2>1. << >> \o << >> \o << >> \o <<a>> \in R
    BY Zenon
  <2>2. << >> \o << >> \o << >> \o <<a>> = <<a>>
    BY <1>0, Zenon DEF Joints
  <2>3. QED BY <2>1, <2>2, Zenon
<1>2. <<b>> \in R
  <2>1. << >> \o <<b>> \o << >> \o << >> \in R
    BY Zenon
  <2>2. << >> \o <<b>> \o << >> \o << >> = <<b>>
    BY <1>0, Zenon DEF Joints
  <2>3. QED BY <2>1, <2>2, Zenon
<1>3. <<b, a>> \in R
  <2>1. << >> \o <<b>> \o << >> \o <<a>> \in R
    BY Zenon
  <2>2. << >> \o <<b>> \o << >> \o <<a>> = <<b, a>>
    BY <1>0, Zenon DEF Joints
  <2>3. QED BY <2>1, <2>2, Zenon
<1>4. <<l>> \in R
  <2>1. <<l>> \o << >> \o << >> \o << >> \in R
    BY Zenon
  <2>2. <<l>> \o << >> \o << >> \o << >> = <<l>>
    BY <1>0, Zenon DEF Joints
  <2>3. QED BY <2>1, <2>2, Zenon
<1>5. <<l, a>> \in R
  <2>1. <<l>> \o << >> \o << >> \o <<a>> \in R
    BY Zenon
  <2>2. <<l>> \o << >> \o << >> \o <<a>> = <<l, a>>
    BY <1>0, Zenon DEF Joints
  <2>3. QED BY <2>1, <2>2, Zenon
<1>6. <<l, b>> \in R
  <2>1. <<l>> \o <<b>> \o << >> \o << >> \in R
    BY Zenon
  <2>2. <<l>> \o <<b>> \o << >> \o << >> = <<l, b>>
    BY <1>0, Zenon DEF Joints
  <2>3. QED BY <2>1, <2>2, Zenon
<1>7. <<l, b, a>> \in R
  <2>1. <<l>> \o <<b>> \o << >> \o <<a>> \in R
    BY Zenon
  <2>2. <<l>> \o <<b>> \o << >> \o <<a>> = <<l, b, a>>
    BY <1>0, Zenon DEF Joints
  <2>3. QED BY <2>1, <2>2, Zenon
<1>8. \A f \in Plain(l, b, a) : f # << >>
  BY NonEmpty, Zenon DEF Plain, With
<1>9. QED BY <1>1, <1>2, <1>3, <1>4, <1>5, <1>6, <1>7, <1>8, Zenon DEF Plain, With

\* Every name with an extension is one the rule makes.
LEMMA WithInRule ==
  ASSUME NEW l, NEW b, NEW a, NEW e, NEW R,
         \A p, q, s : (p = << >> \/ p = <<l>>) /\ (q = << >> \/ q = <<b>>) /\ (s = << >> \/ s = <<a>>)
                        => p \o q \o <<e>> \o s \in R
  PROVE  With(l, b, a, e) \subseteq R \ {<< >>}
<1>0. Joints(l, b, e, a)
  BY Joined
<1>1. <<e>> \in R
  <2>1. << >> \o << >> \o <<e>> \o << >> \in R
    BY Zenon
  <2>2. << >> \o << >> \o <<e>> \o << >> = <<e>>
    BY <1>0, Zenon DEF Joints
  <2>3. QED BY <2>1, <2>2, Zenon
<1>2. <<e, a>> \in R
  <2>1. << >> \o << >> \o <<e>> \o <<a>> \in R
    BY Zenon
  <2>2. << >> \o << >> \o <<e>> \o <<a>> = <<e, a>>
    BY <1>0, Zenon DEF Joints
  <2>3. QED BY <2>1, <2>2, Zenon
<1>3. <<b, e>> \in R
  <2>1. << >> \o <<b>> \o <<e>> \o << >> \in R
    BY Zenon
  <2>2. << >> \o <<b>> \o <<e>> \o << >> = <<b, e>>
    BY <1>0, Zenon DEF Joints
  <2>3. QED BY <2>1, <2>2, Zenon
<1>4. <<b, e, a>> \in R
  <2>1. << >> \o <<b>> \o <<e>> \o <<a>> \in R
    BY Zenon
  <2>2. << >> \o <<b>> \o <<e>> \o <<a>> = <<b, e, a>>
    BY <1>0, Zenon DEF Joints
  <2>3. QED BY <2>1, <2>2, Zenon
<1>5. <<l, e>> \in R
  <2>1. <<l>> \o << >> \o <<e>> \o << >> \in R
    BY Zenon
  <2>2. <<l>> \o << >> \o <<e>> \o << >> = <<l, e>>
    BY <1>0, Zenon DEF Joints
  <2>3. QED BY <2>1, <2>2, Zenon
<1>6. <<l, e, a>> \in R
  <2>1. <<l>> \o << >> \o <<e>> \o <<a>> \in R
    BY Zenon
  <2>2. <<l>> \o << >> \o <<e>> \o <<a>> = <<l, e, a>>
    BY <1>0, Zenon DEF Joints
  <2>3. QED BY <2>1, <2>2, Zenon
<1>7. <<l, b, e>> \in R
  <2>1. <<l>> \o <<b>> \o <<e>> \o << >> \in R
    BY Zenon
  <2>2. <<l>> \o <<b>> \o <<e>> \o << >> = <<l, b, e>>
    BY <1>0, Zenon DEF Joints
  <2>3. QED BY <2>1, <2>2, Zenon
<1>8. <<l, b, e, a>> \in R
  <2>1. <<l>> \o <<b>> \o <<e>> \o <<a>> \in R
    BY Zenon
  <2>2. <<l>> \o <<b>> \o <<e>> \o <<a>> = <<l, b, e, a>>
    BY <1>0, Zenon DEF Joints
  <2>3. QED BY <2>1, <2>2, Zenon
<1>9. \A f \in With(l, b, a, e) : f # << >>
  BY NonEmpty, Zenon DEF Plain, With
<1>10. QED BY <1>1, <1>2, <1>3, <1>4, <1>5, <1>6, <1>7, <1>8, <1>9, Zenon DEF Plain, With

\* The names made of four parts.
Names(L, B, E, A) == {p \o q \o r \o s : p \in L, q \in B, r \in E, s \in A}

\* Membership of Names, for the provers.
LEMMA NamesAre ==
  ASSUME NEW L, NEW B, NEW E, NEW A
  PROVE  /\ \A p \in L, q \in B, r \in E, s \in A : p \o q \o r \o s \in Names(L, B, E, A)
         /\ \A f \in Names(L, B, E, A) :
               \E p \in L, q \in B, r \in E, s \in A : f = p \o q \o r \o s
<1>1. ASSUME NEW f \in Names(L, B, E, A)
      PROVE  \E p \in L, q \in B, r \in E, s \in A : f = p \o q \o r \o s
  BY <1>1, SMTT(30) DEF Names
<1>2. ASSUME NEW p \in L, NEW q \in B, NEW r \in E, NEW s \in A
      PROVE  p \o q \o r \o s \in Names(L, B, E, A)
  BY SMTT(30) DEF Names
<1>3. QED BY <1>1, <1>2, Zenon

\* The names of allowlists that get_white_list_files writes out for a C library,
\* an architecture and an ABI are, for every architecture string, common and each
\* combination of library, base, one extension and ABI: none is missing and none
\* is of another target.
THEOREM FilesFollowRule ==
  ASSUME NEW S, NEW libc, NEW arch, NEW abi, arch.chars \in Seq(S)
  PROVE  WhiteListFiles(libc, arch, abi) = ReferenceFiles(libc, arch, abi)
<1> DEFINE l == <<libc>>
           b == <<arch.base>>
           a == <<abi>>
           X == ReferenceExts(arch)
           W == UNION {With(l, b, a, e) : e \in X}
           Opt(P) == {<< >>} \cup {<<part>> : part \in P}
           L == Opt({l})
           B == Opt({b})
           A == Opt({a})
           E == Opt(X)
           Rule == Names(L, B, E, A)
<1>1. WhiteListFiles(libc, arch, abi) = {<< <<"common">> >>} \cup Plain(l, b, a) \cup W
  <2>1. Exts(arch) = X
    BY ParserFollowsRule
  <2>2. WhiteListFiles(libc, arch, abi) =
           {<< <<"common">> >>, <<l>>, <<b>>, <<a>>, <<b, a>>, <<l, b>>, <<l, a>>, <<l, b, a>>}
            \cup UNION {With(l, b, a, e) : e \in Exts(arch)}
    BY Zenon DEF WhiteListFiles, With
  <2> HIDE DEF X
  <2>3. WhiteListFiles(libc, arch, abi) =
           {<< <<"common">> >>, <<l>>, <<b>>, <<a>>, <<b, a>>, <<l, b>>, <<l, a>>, <<l, b, a>>} \cup W
    BY <2>1, <2>2
  <2> HIDE DEF W, l, b, a
  <2>4. QED BY <2>3, Zenon DEF Plain
<1>2. ReferenceFiles(libc, arch, abi) = {<< <<"common">> >>} \cup (Rule \ {<< >>})
  BY DEF ReferenceFiles, Names
<1> HIDE DEF l, b, a, X
<1>3. /\ \A p : p \in L <=> p = << >> \/ p = <<l>>
      /\ \A q : q \in B <=> q = << >> \/ q = <<b>>
      /\ \A s : s \in A <=> s = << >> \/ s = <<a>>
      /\ \A r : r \in E <=> r = << >> \/ \E e \in X : r = <<e>>
  BY SMT
<1> HIDE DEF L, B, A, E
<1>4. /\ \A p \in L, q \in B, r \in E, s \in A : p \o q \o r \o s \in Rule
      /\ \A f \in Rule : \E p \in L, q \in B, r \in E, s \in A : f = p \o q \o r \o s
  BY NamesAre
<1> HIDE DEF Rule
<1>6. ASSUME NEW e \in X PROVE With(l, b, a, e) \subseteq Rule \ {<< >>}
  <2>1. \A p, q, s : (p = << >> \/ p = <<l>>) /\ (q = << >> \/ q = <<b>>) /\ (s = << >> \/ s = <<a>>)
                        => p \o q \o <<e>> \o s \in Rule
    BY <1>3, <1>4, Zenon
  <2>2. QED BY <2>1, WithInRule, Zenon
<1>7. Plain(l, b, a) \subseteq Rule \ {<< >>}
  <2>1. \A p, q, s : (p = << >> \/ p = <<l>>) /\ (q = << >> \/ q = <<b>>) /\ (s = << >> \/ s = <<a>>)
                        => p \o q \o << >> \o s \in Rule
    BY <1>3, <1>4, Zenon
  <2>2. QED BY <2>1, PlainInRule, Zenon
<1>8. ASSUME NEW f \in Rule, f # << >> PROVE f \in Plain(l, b, a) \cup W
  <2>1. PICK p \in L, q \in B, r \in E, s \in A : f = p \o q \o r \o s
    BY <1>4, <1>8
  <2>2. (p = << >> \/ p = <<l>>) /\ (q = << >> \/ q = <<b>>) /\ (s = << >> \/ s = <<a>>)
    BY <1>3, Zenon
  <2>3. CASE r = << >>
    <3>1. f \in Plain(l, b, a) \cup {<< >>}
      BY <2>1, <2>2, <2>3, NamesInRule, Zenon
    <3>2. QED BY <1>8, <3>1, Zenon
  <2>4. ASSUME NEW e \in X, r = <<e>> PROVE f \in W
    <3>1. f \in With(l, b, a, e)
      BY <2>1, <2>2, <2>4, NamesInRule, Zenon
    <3>2. QED BY <3>1, Zenon
  <2>5. QED BY <1>3, <2>3, <2>4, Zenon
<1>9. W \subseteq Rule \ {<< >>}
  BY <1>6, Zenon
<1> HIDE DEF W
<1>10. Plain(l, b, a) \cup W = Rule \ {<< >>}
  BY <1>7, <1>8, <1>9, Zenon
<1>11. QED BY <1>1, <1>2, <1>10, Zenon

-----------------------------------------------------------------------------
(***************************************************************************)
(* The check and report targets.  To know what a report reads, it has to   *)
(* be known what a stamp that looks new says of the results (OwnInv),      *)
(* where results went that are gone (GoneInv) and what a running check has *)
(* done so far (RunInv).                                                   *)
(***************************************************************************)

\* Types, but for what the .sum files hold.
RestOK ==
    /\ tool \in Tools
    /\ dirty \subseteq Units /\ building \in dirty \cup {None}
    /\ stamped \subseteq Libcs /\ broken \subseteq stamped
    /\ behind \in [Libcs -> SUBSET Units]
    /\ asked \in Settings
    /\ pc \in [Libcs -> {"off", "todo", "running", "checked", "ok", "failed"}]
    /\ ran \in [Libcs -> SUBSET Boards]
    /\ up \in BOOLEAN /\ faults \in 0 .. MaxFaults

\* No recipe runs without make; checks and reports come after the builds.
MakeInv ==
    /\ ~up => building = None /\ \A l \in Libcs : pc[l] = "off"
    /\ \A l \in Libcs : pc[l] \notin {"off", "todo"} => building = None /\ dirty \cap Needed = {}

\* Where its results are is a running check that had to run; while they are
\* its own they are those of its boards, with no build since it began.
RunInv == \A l \in Libcs :
    /\ pc[l] # "running" => ran[l] = {}
    /\ pc[l] = "running" =>
          /\ sums # NoSum /\ ~UpToDate(l)
          /\ sums.libc = l => sums.setting = asked /\ sums.ran = ran[l] /\ sums.stale = {}
    /\ pc[l] = "checked" => UpToDate(l)

\* Results that are gone went with a build that make knows it has to repeat or
\* that made the stamp old.
GoneInv == \A l \in stamped \ broken :
    sums = NoSum => {"gcc", tool} \cap dirty # {} \/ "gcc" \in behind[l]

\* Under a stamp that would be taken for new, its own results are complete, and
\* whatever was built since made the stamp old for some setting.
OwnInv == \A l \in stamped \ broken :
    (/\ sums # NoSum /\ sums.libc = l /\ pc[l] # "running"
     /\ behind[l] \cap ({"gcc"} \cup SimStamp[sums.setting]) = {})
        => sums.ran = Boards /\ sums.stale \subseteq behind[l]

\* The directory of a tool that is being built is new.
FreshInv == building = tool => sums = NoSum

\* Types of the .sum files; their results are those of boards that ran.
SumsOK == sums = NoSum \/ (sums \in Sum /\ \A r \in sums.lines : r[1] \in sums.ran)

\* The tools and the simulators are units.
LEMMA UnitsHave == Tools \subseteq Units /\ \A s \in Settings : SimStamp[s] \subseteq Units
<1>1. Tools \subseteq Units
  BY Zenon DEF Units
<1>2. ASSUME NEW s \in Settings PROVE SimStamp[s] \subseteq Units
  BY <1>2, Zenon DEF Units
<1>3. QED BY <1>1, <1>2

\* At the start the types are right.
LEMMA InitRest == Init => RestOK
<1> SUFFICES ASSUME Init PROVE RestOK
  OBVIOUS
<1>1. up \in BOOLEAN
  BY Zenon DEF Init
<1>2. QED BY <1>1, ReportsAssumption DEF Init, RestOK

\* Every step keeps the types.
LEMMA RestStep == RestOK /\ [Next]_vars => RestOK'
<1> SUFFICES ASSUME RestOK, [Next]_vars PROVE RestOK'
  OBVIOUS
<1> USE DEF RestOK, tests
<1>1. ASSUME NEW goals \in SUBSET Libcs, NEW s \in Settings, StartMake(goals, s) PROVE RestOK'
  <2>1. up' \in BOOLEAN
    BY <1>1, Zenon DEF StartMake
  <2>2. QED BY <1>1, <2>1 DEF StartMake
<1>2. ASSUME NEW u \in Units, BeginBuild(u) PROVE RestOK'
  BY <1>2 DEF BeginBuild
<1>3. ASSUME NEW u \in Units, Update(u) PROVE RestOK'
  BY <1>3 DEF Update
<1>4. CASE EndBuild
  <2>1. building \in Units /\ "gcc" \in Units
    BY <1>4, UnitsHave DEF EndBuild, Tools
  <2>2. behind' \in [Libcs -> SUBSET Units]
    BY <1>4, <2>1 DEF EndBuild
  <2>3. dirty' \subseteq Units
    BY <1>4, <2>1 DEF EndBuild
  <2>4. QED BY <1>4, <2>2, <2>3 DEF EndBuild
<1>5. CASE Exit
  <2>1. up' \in BOOLEAN
    BY <1>5, Zenon DEF Exit
  <2>2. QED BY <1>5, <2>1 DEF Exit
<1>6. CASE Stop
  <2>1. up' \in BOOLEAN
    BY <1>6, Zenon DEF Stop
  <2>2. faults' \in 0 .. MaxFaults
    BY <1>6, ReportsAssumption DEF Stop, Fault
  <2>3. QED BY <1>6, <2>1, <2>2 DEF Stop
<1>7. ASSUME NEW l \in Libcs, SkipCheck(l) \/ BeginCheck(l) \/ EndCheck(l) \/ Report(l) PROVE RestOK'
  <2>1. CASE SkipCheck(l) \/ BeginCheck(l)
    BY <2>1 DEF SkipCheck, BeginCheck
  <2>2. CASE EndCheck(l)
    BY <2>2 DEF EndCheck, Stamp, Ended
  <2>3. CASE Report(l)
    BY <2>3 DEF Report
  <2>4. QED BY <1>7, <2>1, <2>2, <2>3
<1>8. ASSUME NEW l \in Libcs, CheckDies(l) PROVE RestOK'
  <2>1. faults' \in 0 .. MaxFaults
    BY <1>8, ReportsAssumption DEF CheckDies, Fault
  <2>2. UNCHANGED <<tool, dirty, building, asked, up>> /\ ran' = [ran EXCEPT ![l] = {}]
    BY <1>8 DEF CheckDies, Ended
  <2>3. /\ stamped' \subseteq Libcs /\ broken' \subseteq stamped'
        /\ behind' \in [Libcs -> SUBSET Units]
        /\ pc' \in [Libcs -> {"off", "todo", "running", "checked", "ok", "failed"}]
    BY <1>8 DEF CheckDies, Stamp
  <2>4. QED BY <2>1, <2>2, <2>3
<1>9. ASSUME NEW l \in Libcs, NEW b \in Boards, NEW fails \in SUBSET Results, RunBoard(l, b, fails)
      PROVE  RestOK'
  BY <1>9 DEF RunBoard
<1>10. CASE UNCHANGED vars
  BY <1>10 DEF vars
<1>11. QED BY <1>1, <1>2, <1>3, <1>4, <1>5, <1>6, <1>7, <1>8, <1>9, <1>10 DEF Next

\* Every step keeps the order of builds, checks and reports within a make.
LEMMA MakeStep == RestOK /\ MakeInv /\ [Next]_vars => MakeInv'
<1> SUFFICES ASSUME RestOK, MakeInv, [Next]_vars PROVE MakeInv'
  OBVIOUS
<1> USE DEF RestOK, MakeInv, tests, Needed, Deps
<1>1. ASSUME NEW goals \in SUBSET Libcs, NEW s \in Settings, StartMake(goals, s) PROVE MakeInv'
  BY <1>1 DEF StartMake
<1>2. ASSUME NEW u \in Units, BeginBuild(u) PROVE MakeInv'
  <2>1. up /\ up' = up /\ u \in dirty \cap Needed /\ UNCHANGED <<pc, dirty, asked>>
    BY <1>2 DEF BeginBuild
  <2>2. QED BY <2>1
<1>3. ASSUME NEW u \in Units, Update(u) PROVE MakeInv'
  BY <1>3 DEF Update
<1>4. CASE EndBuild
  BY <1>4 DEF EndBuild
<1>5. CASE Exit \/ Stop
  <2>1. up' = FALSE /\ building' = None /\ pc' = [l \in Libcs |-> "off"]
    BY <1>5 DEF Exit, Stop, Idle
  <2>2. QED BY <2>1
<1>7. ASSUME NEW l \in Libcs, SkipCheck(l) \/ BeginCheck(l) \/ EndCheck(l) \/ Report(l) \/ CheckDies(l)
      PROVE  MakeInv'
  <2>1. up /\ building = None /\ dirty \cap Needed = {}
    BY <1>7 DEF SkipCheck, BeginCheck, EndCheck, Report, CheckDies, Ready
  <2>2. UNCHANGED <<up, building, dirty, asked>>
    BY <1>7 DEF SkipCheck, BeginCheck, EndCheck, Report, CheckDies
  <2>3. QED BY <2>1, <2>2
<1>9. ASSUME NEW l \in Libcs, NEW b \in Boards, NEW fails \in SUBSET Results, RunBoard(l, b, fails)
      PROVE  MakeInv'
  BY <1>9 DEF RunBoard
<1>10. CASE UNCHANGED vars
  BY <1>10 DEF vars
<1>11. QED BY <1>1, <1>2, <1>3, <1>4, <1>5, <1>7, <1>9, <1>10 DEF Next

\* A record is not what stands for no files.
LEMMA SumIsFiles == \A x \in Sum : x # NoSum
BY ReportsAssumption

\* Every step keeps the types of the .sum files.
LEMMA SumsStep == RestOK /\ SumsOK /\ RunInv /\ [Next]_vars => SumsOK'
<1> SUFFICES ASSUME RestOK, SumsOK, RunInv, [Next]_vars PROVE SumsOK'
  OBVIOUS
<1>1. CASE UNCHANGED sums
  BY <1>1 DEF SumsOK
<1>2. ASSUME NEW u \in Units, BeginBuild(u) PROVE SumsOK'
  BY <1>2 DEF BeginBuild, SumsOK
<1>3. CASE EndBuild
  <2>1. building \in Units
    BY <1>3 DEF EndBuild, RestOK
  <2>2. CASE sums = NoSum
    BY <1>3, <2>2 DEF EndBuild, SumsOK
  <2>3. CASE sums # NoSum
    <3>1. sums' = [sums EXCEPT !.stale = sums.stale \cup {building}] /\ sums \in Sum
      BY <1>3, <2>3 DEF EndBuild, SumsOK
    <3>2. QED BY <2>1, <2>3, <3>1 DEF SumsOK, Sum
  <2>4. QED BY <2>2, <2>3
<1>4. ASSUME NEW l \in Libcs, BeginCheck(l) PROVE SumsOK'
  BY <1>4 DEF BeginCheck, SumsOK, Sum, RestOK
<1>5. ASSUME NEW l \in Libcs, NEW b \in Boards, NEW fails \in SUBSET Results, RunBoard(l, b, fails)
      PROVE  SumsOK'
  <2>1. sums # NoSum
    BY <1>5 DEF RunBoard, RunInv
  <2>2. sums \in Sum /\ \A r \in sums.lines : r[1] \in sums.ran
    BY <2>1 DEF SumsOK
  <2>3. CASE sums.libc = l
    <3>1. sums' = [sums EXCEPT !.ran = sums.ran \cup {b}, !.lines = sums.lines \cup ({b} \X fails)]
      BY <1>5, <2>3 DEF RunBoard
    <3>2. /\ sums' \in Sum /\ sums'.ran = sums.ran \cup {b}
          /\ sums'.lines = sums.lines \cup ({b} \X fails)
      BY <2>2, <3>1 DEF Sum
    <3>3. \A r \in {b} \X fails : r[1] = b
      OBVIOUS
    <3>4. QED BY <2>2, <3>2, <3>3 DEF SumsOK
  <2>4. CASE sums.libc # l
    BY <1>1, <1>5, <2>4 DEF RunBoard
  <2>5. QED BY <2>3, <2>4
<1>6. CASE UNCHANGED vars
  BY <1>1, <1>6 DEF vars, tests
<1>7. CASE Exit \/ Stop
  BY <1>1, <1>7 DEF Exit, Stop, tests
<1>8. ASSUME NEW l \in Libcs, SkipCheck(l) \/ EndCheck(l) \/ Report(l) \/ CheckDies(l) PROVE SumsOK'
  BY <1>1, <1>8 DEF SkipCheck, EndCheck, Report, CheckDies, tests
<1>9. ASSUME NEW goals \in SUBSET Libcs, NEW s \in Settings, StartMake(goals, s) PROVE SumsOK'
  BY <1>1, <1>9 DEF StartMake, tests
<1>10. ASSUME NEW u \in Units, Update(u) PROVE SumsOK'
  BY <1>1, <1>10 DEF Update, tests
<1>11. QED BY <1>2, <1>3, <1>4, <1>5, <1>6, <1>7, <1>8, <1>9, <1>10 DEF Next

\* Every step keeps what is said of running and of finished checks.
LEMMA RunStep == RestOK /\ SumsOK /\ MakeInv /\ RunInv /\ [Next]_vars => RunInv'
<1> SUFFICES ASSUME RestOK, SumsOK, MakeInv, RunInv, [Next]_vars PROVE RunInv'
  OBVIOUS
<1>1. CASE UNCHANGED <<sums, stamped, behind, asked, pc, ran>>
  BY <1>1 DEF RunInv, UpToDate, Deps
<1>2. ASSUME NEW u \in Units, BeginBuild(u) \/ Update(u) PROVE RunInv'
  <2>1. CASE BeginBuild(u)
    <3>1. \A l \in Libcs : pc[l] \in {"off", "todo"}
      BY <2>1 DEF BeginBuild, MakeInv
    <3>2. UNCHANGED <<pc, ran>>
      BY <2>1 DEF BeginBuild
    <3>3. QED BY <3>1, <3>2 DEF RunInv
  <2>2. CASE Update(u)
    BY <1>1, <2>2 DEF Update, tests
  <2>3. QED BY <1>2, <2>1, <2>2
<1>3. CASE EndBuild
  <2>1. \A l \in Libcs : pc[l] \in {"off", "todo"}
    BY <1>3 DEF EndBuild, MakeInv, RestOK
  <2>2. UNCHANGED <<pc, ran>>
    BY <1>3 DEF EndBuild
  <2>3. QED BY <2>1, <2>2 DEF RunInv
<1>4. CASE Exit \/ Stop
  <2>1. \A l \in Libcs : pc[l] # "running" \/ ran'[l] = {}
    BY <1>4 DEF Exit, Stop, Idle
  <2>2. pc' = [l \in Libcs |-> "off"] /\ (ran' = ran \/ ran' = [l \in Libcs |-> {}])
    BY <1>4 DEF Exit, Stop, tests
  <2>3. QED BY <2>1, <2>2 DEF RunInv
<1>5. ASSUME NEW goals \in SUBSET Libcs, NEW s \in Settings, StartMake(goals, s) PROVE RunInv'
  <2>1. \A l \in Libcs : pc[l] = "off" /\ pc'[l] \in {"off", "todo"} /\ ran'[l] = ran[l]
    BY <1>5 DEF StartMake, MakeInv, tests
  <2>2. QED BY <2>1 DEF RunInv
<1>6. ASSUME NEW l \in Libcs, SkipCheck(l) PROVE RunInv'
  <2>1. /\ UpToDate(l) /\ pc[l] = "todo" /\ pc' = [pc EXCEPT ![l] = "checked"]
        /\ UNCHANGED <<sums, stamped, behind, asked, ran>>
    BY <1>6 DEF SkipCheck, Ready, tests
  <2>2. \A m \in Libcs : UpToDate(m)' = UpToDate(m)
    BY <2>1 DEF UpToDate, Deps
  <2>3. QED BY <2>1, <2>2 DEF RunInv, RestOK
<1>7. ASSUME NEW l \in Libcs, BeginCheck(l) PROVE RunInv'
  <2>1. /\ ~UpToDate(l) /\ pc[l] = "todo" /\ pc' = [pc EXCEPT ![l] = "running"]
        /\ UNCHANGED <<stamped, behind, asked, ran>>
        /\ sums' = [libc |-> l, setting |-> asked, ran |-> {}, lines |-> {}, stale |-> {}]
    BY <1>7 DEF BeginCheck, Ready
  <2>2. \A m \in Libcs : UpToDate(m)' = UpToDate(m)
    BY <2>1 DEF UpToDate, Deps
  <2>3. sums' \in Sum
    BY <2>1 DEF Sum, RestOK
  <2>4. /\ sums' # NoSum /\ sums'.libc = l
        /\ sums'.setting = asked /\ sums'.ran = {} /\ sums'.stale = {}
    BY <2>1, <2>3, SumIsFiles
  <2>5. ran[l] = {}
    BY <2>1 DEF RunInv
  <2>6. ASSUME NEW m \in Libcs, m # l
        PROVE  pc'[m] = pc[m] /\ ran'[m] = ran[m] /\ sums'.libc # m
    BY <2>1, <2>4, <2>6 DEF RestOK
  <2>7. pc'[l] = "running" /\ ran'[l] = {}
    BY <2>1, <2>5 DEF RestOK
  <2>8. asked' = asked
    BY <2>1
  <2>9. ASSUME NEW m \in Libcs
        PROVE  /\ pc'[m] # "running" => ran'[m] = {}
               /\ pc'[m] = "running" =>
                     /\ sums' # NoSum /\ ~UpToDate(m)'
                     /\ sums'.libc = m =>
                           sums'.setting = asked' /\ sums'.ran = ran'[m] /\ sums'.stale = {}
               /\ pc'[m] = "checked" => UpToDate(m)'
    <3> HIDE DEF UpToDate
    <3>1. CASE m = l
      BY <2>1, <2>2, <2>4, <2>7, <2>8, <3>1
    <3>2. CASE m # l
      BY <2>2, <2>4, <2>6, <3>2 DEF RunInv
    <3>3. QED BY <3>1, <3>2
  <2>10. QED BY <2>9 DEF RunInv
<1>8. ASSUME NEW l \in Libcs, EndCheck(l) \/ CheckDies(l) PROVE RunInv'
  <2>1. /\ \A m \in Libcs : m # l => pc'[m] = pc[m] /\ ran'[m] = ran[m] /\ UpToDate(m)' = UpToDate(m)
        /\ ran'[l] = {} /\ pc'[l] \in {"checked", "failed"}
        /\ UNCHANGED <<sums, asked>>
    BY <1>8 DEF EndCheck, CheckDies, Stamp, Ended, RestOK, UpToDate, Deps
  <2>2. pc'[l] = "checked" => UpToDate(l)'
    BY <1>8 DEF EndCheck, CheckDies, Stamp, RestOK, UpToDate, Deps
  <2>3. QED BY <2>1, <2>2 DEF RunInv
<1>9. ASSUME NEW l \in Libcs, Report(l) PROVE RunInv'
  <2>1. /\ pc[l] = "checked" /\ \E x \in {"ok", "failed"} : pc' = [pc EXCEPT ![l] = x]
        /\ UNCHANGED <<sums, stamped, behind, asked, ran>>
    BY <1>9 DEF Report, tests
  <2>2. \A m \in Libcs : UpToDate(m)' = UpToDate(m)
    BY <2>1 DEF UpToDate, Deps
  <2>3. QED BY <2>1, <2>2 DEF RunInv, RestOK
<1>10. ASSUME NEW l \in Libcs, NEW b \in Boards, NEW fails \in SUBSET Results, RunBoard(l, b, fails)
       PROVE  RunInv'
  <2>1. /\ pc[l] = "running" /\ ran' = [ran EXCEPT ![l] = ran[l] \cup {b}]
        /\ UNCHANGED <<stamped, behind, asked, pc>>
    BY <1>10 DEF RunBoard
  <2>2. \A m \in Libcs : UpToDate(m)' = UpToDate(m)
    BY <2>1 DEF UpToDate, Deps
  <2>3. sums \in Sum
    BY <2>1 DEF RunInv, SumsOK
  <2>4. /\ sums'.libc = sums.libc /\ sums'.setting = sums.setting /\ sums'.stale = sums.stale
        /\ sums'.ran = IF sums.libc = l THEN sums.ran \cup {b} ELSE sums.ran
    BY <1>10, <2>3 DEF RunBoard, Sum
  <2>5. sums' # NoSum
    BY <1>10, <2>3, SumIsFiles DEF RunBoard, Sum
  <2>6. \A m \in Libcs : ran'[m] = IF m = l THEN ran[l] \cup {b} ELSE ran[m]
    BY <2>1 DEF RestOK
  <2>7. QED BY <2>1, <2>2, <2>4, <2>5, <2>6 DEF RunInv
<1>11. CASE UNCHANGED vars
  BY <1>1, <1>11 DEF vars, tests
<1>12. QED BY <1>2, <1>3, <1>4, <1>5, <1>6, <1>7, <1>8, <1>9, <1>10, <1>11 DEF Next

\* Every step keeps the directory of a tool that is being built new.
LEMMA FreshStep == RestOK /\ MakeInv /\ FreshInv /\ [Next]_vars => FreshInv'
<1> SUFFICES ASSUME RestOK, MakeInv, FreshInv, [Next]_vars PROVE FreshInv'
  OBVIOUS
<1>0. tool # None
  BY UnitsHave, ReportsAssumption DEF RestOK
<1>1. CASE UNCHANGED <<sums, building, tool>>
  BY <1>1 DEF FreshInv
<1>2. CASE building' = None /\ tool' = tool
  BY <1>0, <1>2 DEF FreshInv
<1>3. ASSUME NEW u \in Units, BeginBuild(u) \/ Update(u) PROVE FreshInv'
  BY <1>3 DEF BeginBuild, Update, tests, FreshInv
<1>4. CASE EndBuild \/ Exit \/ Stop
  BY <1>1, <1>2, <1>4 DEF EndBuild, Exit, Stop, tests
<1>5. ASSUME NEW goals \in SUBSET Libcs, NEW s \in Settings, StartMake(goals, s) PROVE FreshInv'
  BY <1>1, <1>5 DEF StartMake, tests
<1>6. ASSUME NEW l \in Libcs, SkipCheck(l) \/ EndCheck(l) \/ Report(l) \/ CheckDies(l) PROVE FreshInv'
  BY <1>1, <1>6 DEF SkipCheck, EndCheck, Report, CheckDies, tests
<1>7. ASSUME NEW l \in Libcs, BeginCheck(l) PROVE FreshInv'
  BY <1>2, <1>7 DEF BeginCheck, Ready
<1>8. ASSUME NEW l \in Libcs, NEW b \in Boards, NEW fails \in SUBSET Results, RunBoard(l, b, fails)
      PROVE  FreshInv'
  <2>1. building = None
    BY <1>8 DEF RunBoard, MakeInv
  <2>2. QED BY <1>2, <1>8, <2>1 DEF RunBoard
<1>9. CASE UNCHANGED vars
  BY <1>1, <1>9 DEF vars, tests
<1>10. QED BY <1>3, <1>4, <1>5, <1>6, <1>7, <1>8, <1>9 DEF Next

\* No step leaves results of a tool that has been built anew.
LEMMA ResultsStep ==
  RestOK /\ SumsOK /\ RunInv /\ FreshInv /\ ResultsOfInstalled /\ [Next]_vars => ResultsOfInstalled'
<1> SUFFICES ASSUME RestOK, SumsOK, RunInv, FreshInv, ResultsOfInstalled, [Next]_vars
             PROVE  ResultsOfInstalled'
  OBVIOUS
<1>1. CASE UNCHANGED <<sums, tool>>
  BY <1>1 DEF ResultsOfInstalled
<1>2. ASSUME NEW u \in Units, BeginBuild(u) \/ Update(u) PROVE ResultsOfInstalled'
  BY <1>2 DEF BeginBuild, Update, tests, ResultsOfInstalled
<1>3. CASE EndBuild
  <2>1. CASE sums = NoSum
    BY <1>3, <2>1 DEF EndBuild, ResultsOfInstalled
  <2>2. CASE sums # NoSum
    <3>1. tool # building /\ tool \notin sums.stale /\ sums \in Sum
      BY <2>2 DEF FreshInv, ResultsOfInstalled, SumsOK
    <3>2. tool' = tool /\ sums'.stale = sums.stale \cup {building}
      BY <1>3, <2>2, <3>1 DEF EndBuild, Sum
    <3>3. QED BY <3>1, <3>2 DEF ResultsOfInstalled
  <2>3. QED BY <2>1, <2>2
<1>4. CASE Exit \/ Stop
  BY <1>1, <1>4 DEF Exit, Stop, tests
<1>5. ASSUME NEW goals \in SUBSET Libcs, NEW s \in Settings, StartMake(goals, s)
      PROVE  ResultsOfInstalled'
  BY <1>1, <1>5 DEF StartMake, tests
<1>6. ASSUME NEW l \in Libcs, SkipCheck(l) \/ EndCheck(l) \/ Report(l) \/ CheckDies(l)
      PROVE  ResultsOfInstalled'
  BY <1>1, <1>6 DEF SkipCheck, EndCheck, Report, CheckDies, tests
<1>7. ASSUME NEW l \in Libcs, BeginCheck(l) PROVE ResultsOfInstalled'
  BY <1>7 DEF BeginCheck, ResultsOfInstalled
<1>8. ASSUME NEW l \in Libcs, NEW b \in Boards, NEW fails \in SUBSET Results, RunBoard(l, b, fails)
      PROVE  ResultsOfInstalled'
  <2>1. sums \in Sum /\ sums # NoSum
    BY <1>8 DEF RunBoard, RunInv, SumsOK
  <2>2. sums'.stale = sums.stale /\ tool' = tool
    BY <1>8, <2>1 DEF RunBoard, Sum
  <2>3. QED BY <2>1, <2>2 DEF ResultsOfInstalled
<1>9. CASE UNCHANGED vars
  BY <1>1, <1>9 DEF vars, tests
<1>10. QED BY <1>2, <1>3, <1>4, <1>5, <1>6, <1>7, <1>8, <1>9 DEF Next

\* Every step keeps the reason why results are gone.
LEMMA GoneStep ==
  RestOK /\ SumsOK /\ RunInv /\ MakeInv /\ GoneInv /\ [Next]_vars => GoneInv'
<1> SUFFICES ASSUME RestOK, SumsOK, RunInv, MakeInv, GoneInv, [Next]_vars PROVE GoneInv'
  OBVIOUS
<1>1. CASE sums' # NoSum
  BY <1>1 DEF GoneInv
<1>2. CASE sums' = sums /\ stamped' \ broken' \subseteq stamped \ broken /\ behind' = behind
           /\ tool' = tool /\ dirty \subseteq dirty'
  BY <1>2 DEF GoneInv
<1>3. ASSUME NEW u \in Units, BeginBuild(u) PROVE GoneInv'
  <2>1. CASE u = tool
    BY <1>3, <2>1 DEF BeginBuild, GoneInv
  <2>2. CASE u # tool
    BY <1>2, <1>3, <2>2 DEF BeginBuild
  <2>3. QED BY <2>1, <2>2
<1>4. ASSUME NEW u \in Units, Update(u) PROVE GoneInv'
  BY <1>2, <1>4 DEF Update, tests
<1>5. CASE EndBuild
  <2>1. CASE sums # NoSum
    <3>1. sums \in Sum
      BY <2>1 DEF SumsOK
    <3>2. sums' = [sums EXCEPT !.stale = sums.stale \cup {building}] /\ building \in Units
      BY <1>5, <2>1 DEF EndBuild, RestOK
    <3>3. sums' \in Sum
      BY <3>1, <3>2 DEF Sum
    <3>4. QED BY <1>1, <3>3, SumIsFiles
  <2>2. ASSUME NEW l \in stamped \ broken, sums = NoSum
        PROVE  {"gcc", tool} \cap dirty' # {} \/ "gcc" \in behind'[l]
    <3>1. behind'[l] = behind[l] \cup {building} /\ dirty \ {building} \subseteq dirty'
      BY <1>5 DEF EndBuild, RestOK
    <3>2. CASE building = "gcc"
      BY <3>1, <3>2
    <3>3. CASE building = "binutils"
      BY <1>5, <3>3 DEF EndBuild
    <3>4. CASE building \notin Tools
      <4>1. {"gcc", tool} \cap dirty # {} \/ "gcc" \in behind[l]
        BY <2>2 DEF GoneInv
      <4>2. building # "gcc" /\ building # tool
        BY <3>4 DEF RestOK, Tools
      <4>3. QED BY <3>1, <4>1, <4>2
    <3>5. QED BY <3>2, <3>3, <3>4 DEF Tools
  <2>3. UNCHANGED <<tool, stamped, broken>>
    BY <1>5 DEF EndBuild
  <2>4. QED BY <1>5, <2>1, <2>2, <2>3 DEF GoneInv, EndBuild
<1>6. CASE Exit \/ Stop
  BY <1>2, <1>6 DEF Exit, Stop, tests
<1>7. ASSUME NEW goals \in SUBSET Libcs, NEW s \in Settings, StartMake(goals, s) PROVE GoneInv'
  BY <1>2, <1>7 DEF StartMake, tests
<1>8. ASSUME NEW l \in Libcs, SkipCheck(l) \/ Report(l) PROVE GoneInv'
  BY <1>2, <1>8 DEF SkipCheck, Report, tests
<1>9. ASSUME NEW l \in Libcs, BeginCheck(l) PROVE GoneInv'
  <2>1. sums' \in Sum
    BY <1>9 DEF BeginCheck, Sum, RestOK
  <2>2. QED BY <1>1, <2>1, SumIsFiles
<1>10. ASSUME NEW l \in Libcs, EndCheck(l) PROVE GoneInv'
  BY <1>1, <1>10 DEF EndCheck, RunInv
<1>11. ASSUME NEW l \in Libcs, CheckDies(l) PROVE GoneInv'
  <2>1. CASE UNCHANGED <<stamped, behind, broken>>
    BY <1>2, <1>11, <2>1 DEF CheckDies
  <2>2. CASE Stamp(l) /\ broken' = broken \cup {l}
    <3>1. /\ stamped' \ broken' \subseteq stamped \ broken
          /\ \A m \in stamped' \ broken' : behind'[m] = behind[m]
      BY <2>2 DEF Stamp, RestOK
    <3>2. UNCHANGED <<sums, tool, dirty>>
      BY <1>11 DEF CheckDies
    <3>3. QED BY <3>1, <3>2 DEF GoneInv
  <2>3. QED BY <1>11, <2>1, <2>2 DEF CheckDies
<1>12. ASSUME NEW l \in Libcs, NEW b \in Boards, NEW fails \in SUBSET Results, RunBoard(l, b, fails)
       PROVE  GoneInv'
  <2>1. sums \in Sum
    BY <1>12 DEF RunBoard, RunInv, SumsOK
  <2>2. sums' # NoSum
    BY <1>12, <2>1, SumIsFiles DEF RunBoard, Sum
  <2>3. QED BY <1>1, <2>2
<1>13. CASE UNCHANGED vars
  BY <1>2, <1>13 DEF vars, tests
<1>14. QED BY <1>3, <1>4, <1>5, <1>6, <1>7, <1>8, <1>9, <1>10, <1>11, <1>12, <1>13 DEF Next

\* Every step keeps the results under a new stamp complete.
LEMMA OwnStep ==
  RestOK /\ SumsOK /\ RunInv /\ MakeInv /\ OwnInv /\ [Next]_vars => OwnInv'
<1> SUFFICES ASSUME RestOK, SumsOK, RunInv, MakeInv, OwnInv, [Next]_vars PROVE OwnInv'
  OBVIOUS
<1>1. CASE sums' = NoSum
  BY <1>1 DEF OwnInv
<1>2. ASSUME UNCHANGED <<sums, stamped, behind, broken>>,
             \A l \in Libcs : pc[l] = "running" => pc'[l] = "running"
      PROVE  OwnInv'
  BY <1>2 DEF OwnInv, RestOK
<1>3. ASSUME NEW u \in Units, BeginBuild(u) \/ Update(u) PROVE OwnInv'
  BY <1>1, <1>2, <1>3 DEF BeginBuild, Update, tests
<1>4. CASE EndBuild
  <2>1. CASE sums = NoSum
    BY <1>1, <1>4, <2>1 DEF EndBuild
  <2>2. CASE sums # NoSum
    <3>1. sums \in Sum
      BY <2>2 DEF SumsOK
    <3>2. /\ sums'.stale = sums.stale \cup {building} /\ sums'.libc = sums.libc
          /\ sums'.setting = sums.setting /\ sums'.ran = sums.ran
      BY <1>4, <2>2, <3>1 DEF EndBuild, Sum
    <3>3. \A l \in stamped : behind'[l] = behind[l] \cup {building}
      BY <1>4 DEF EndBuild, RestOK
    <3>4. UNCHANGED <<stamped, broken, pc>>
      BY <1>4 DEF EndBuild
    <3>5. QED BY <2>2, <3>2, <3>3, <3>4 DEF OwnInv
  <2>3. QED BY <2>1, <2>2
<1>5. CASE Exit
  BY <1>2, <1>5 DEF Exit, Idle, tests
<1>6. CASE Stop
  <2>1. UNCHANGED <<sums, stamped, behind, broken>>
    BY <1>6 DEF Stop
  <2>2. ASSUME NEW l \in stamped \ broken, sums # NoSum, sums.libc = l, pc[l] = "running"
        PROVE  behind[l] \cap ({"gcc"} \cup SimStamp[sums.setting]) # {}
    <3>1. ~UpToDate(l) /\ sums.setting = asked
      BY <2>2 DEF RunInv, RestOK
    <3>2. QED BY <3>1 DEF UpToDate, Deps
  <2>3. QED BY <2>1, <2>2 DEF OwnInv
<1>7. ASSUME NEW goals \in SUBSET Libcs, NEW s \in Settings, StartMake(goals, s) PROVE OwnInv'
  <2>1. \A l \in Libcs : pc[l] # "running"
    BY <1>7 DEF StartMake, MakeInv
  <2>2. QED BY <1>2, <1>7, <2>1 DEF StartMake, tests
<1>8. ASSUME NEW l \in Libcs, SkipCheck(l) \/ Report(l) PROVE OwnInv'
  <2>1. UNCHANGED <<sums, stamped, behind, broken>>
    BY <1>8 DEF SkipCheck, Report, tests
  <2>2. \A m \in Libcs : pc[m] = "running" => pc'[m] = "running"
    BY <1>8 DEF SkipCheck, Report, Ready, RestOK
  <2>3. QED BY <1>2, <2>1, <2>2
<1>9. ASSUME NEW l \in Libcs, BeginCheck(l) PROVE OwnInv'
  BY <1>9 DEF BeginCheck, OwnInv, RestOK
<1>10. ASSUME NEW l \in Libcs, EndCheck(l) PROVE OwnInv'
  <2>1. /\ pc[l] = "running" /\ ran[l] = Boards /\ UNCHANGED sums
        /\ stamped' = stamped \cup {l} /\ behind' = [behind EXCEPT ![l] = {}]
        /\ broken' = broken \ {l} /\ pc' = [pc EXCEPT ![l] = "checked"]
    BY <1>10 DEF EndCheck, Stamp
  <2>2. sums # NoSum /\ (sums.libc = l => sums.ran = Boards /\ sums.stale = {})
    BY <2>1 DEF RunInv
  <2>3. \A m \in stamped' \ broken' : m # l =>
          m \in stamped \ broken /\ behind'[m] = behind[m] /\ pc'[m] = pc[m]
    BY <2>1 DEF RestOK
  <2>4. QED BY <2>1, <2>2, <2>3 DEF OwnInv
<1>11. ASSUME NEW l \in Libcs, CheckDies(l) PROVE OwnInv'
  <2>1. sums' = sums
    BY <1>11 DEF CheckDies
  <2>2. CASE UNCHANGED <<stamped, behind, broken>> /\ pc' = [pc EXCEPT ![l] = "failed"]
    <3>1. ASSUME l \in stamped \ broken, sums # NoSum, sums.libc = l, pc[l] = "running"
          PROVE  behind[l] \cap ({"gcc"} \cup SimStamp[sums.setting]) # {}
      <4>1. ~UpToDate(l) /\ sums.setting = asked
        BY <3>1 DEF RunInv
      <4>2. QED BY <3>1, <4>1 DEF UpToDate, Deps
    <3>2. \A m \in Libcs : m # l => pc'[m] = pc[m]
      BY <2>2 DEF RestOK
    <3>3. QED BY <2>1, <2>2, <3>1, <3>2 DEF OwnInv, RestOK
  <2>3. CASE Stamp(l) /\ broken' = broken \cup {l} /\ pc' = [pc EXCEPT ![l] = "checked"]
    <3>1. /\ stamped' \ broken' \subseteq stamped \ broken
          /\ \A m \in stamped' \ broken' : behind'[m] = behind[m] /\ pc'[m] = pc[m]
      BY <2>3 DEF Stamp, RestOK
    <3>2. QED BY <2>1, <3>1 DEF OwnInv
  <2>4. QED BY <1>11, <2>2, <2>3 DEF CheckDies
<1>12. ASSUME NEW l \in Libcs, NEW b \in Boards, NEW fails \in SUBSET Results, RunBoard(l, b, fails)
       PROVE  OwnInv'
  <2>1. pc[l] = "running" /\ UNCHANGED <<stamped, behind, broken, pc>>
    BY <1>12 DEF RunBoard
  <2>2. CASE sums.libc = l
    <3>1. sums \in Sum
      BY <2>1 DEF RunInv, SumsOK
    <3>2. sums'.libc = l
      BY <1>12, <2>2, <3>1 DEF RunBoard, Sum
    <3>3. QED BY <2>1, <3>2 DEF OwnInv
  <2>3. CASE sums.libc # l
    BY <1>2, <1>12, <2>1, <2>3 DEF RunBoard
  <2>4. QED BY <2>2, <2>3
<1>13. CASE UNCHANGED vars
  BY <1>2, <1>13 DEF vars, tests
<1>14. QED BY <1>3, <1>4, <1>5, <1>6, <1>7, <1>8, <1>9, <1>10, <1>11, <1>12, <1>13 DEF Next

\* The inductive invariant.
ReportsInv ==
    /\ RestOK /\ SumsOK /\ MakeInv /\ RunInv /\ FreshInv /\ GoneInv /\ OwnInv
    /\ ResultsOfInstalled

\* The inductive invariant holds at the start.
LEMMA InitReports == Init => ReportsInv
<1> SUFFICES ASSUME Init PROVE ReportsInv
  OBVIOUS
<1>1. RestOK
  BY InitRest
<1>2. SumsOK /\ FreshInv /\ GoneInv /\ OwnInv /\ ResultsOfInstalled
  BY DEF Init, SumsOK, FreshInv, GoneInv, OwnInv, ResultsOfInstalled
<1>3. MakeInv /\ RunInv
  BY DEF Init, MakeInv, RunInv
<1>4. QED BY <1>1, <1>2, <1>3 DEF ReportsInv

\* The inductive invariant holds always.
LEMMA ReportsInductive == Spec => []ReportsInv
<1>1. ReportsInv /\ [Next]_vars => ReportsInv'
  BY RestStep, SumsStep, MakeStep, RunStep, FreshStep, GoneStep, OwnStep, ResultsStep DEF ReportsInv
<1>2. QED BY InitReports, <1>1, PTL DEF Spec

\* The variables keep their types, and the .sum files hold results of boards that
\* ran only, whatever makes, builds, checks and reports of Makefile.in run in
\* whatever order, for any libraries, boards and settings of SIM.
THEOREM TypeCorrect == Spec => []TypeOK
<1>1. ReportsInv => TypeOK
  BY DEF ReportsInv, RestOK, SumsOK, TypeOK
<1>2. QED BY ReportsInductive, <1>1, PTL

\* The .sum files in the build directory of gcc or of binutils are never of an
\* earlier build of that tool, whatever failed or was killed since: the recipe
\* removes the directory first.
THEOREM ResultsAreOfInstalled == Spec => []ResultsOfInstalled
BY ReportsInductive, PTL DEF ReportsInv

\* A report that testsuite-filter lets through has, for every unexpected result, a
\* line in an allowlist whose name the rule gives for the board.
LEMMA ExcusedByRule ==
  ASSUME NEW t, NEW l, NEW lists, NEW sum, sum # NoSum, FilterStatus(t, l, lists, sum) = 0,
         NEW r \in sum.lines, r[1] \in Boards
  PROVE  \E f \in DOMAIN lists \cap ReferenceFiles(l, r[1].arch, r[1].abi) :
            \E line \in lists[f] : Excuses(t, line, r[2])
<1>1. Unexplained(t, l, lists, sum) = {}
  BY DEF FilterStatus
<1>2. PICK line \in WhiteList(lists, l, r[1]) : Excuses(t, line, r[2])
  BY <1>1, Zenon DEF Unexplained
<1>3. PICK f \in DOMAIN lists \cap WhiteListFiles(l, r[1].arch, r[1].abi) : line \in lists[f]
  BY Zenon DEF WhiteList
<1> DEFINE arch == r[1].arch
           abi == r[1].abi
<1>4. arch.chars \in Seq(STRING)
  BY ReportsAssumption
<1> HIDE DEF arch, abi
<1>5. WhiteListFiles(l, arch, abi) = ReferenceFiles(l, arch, abi)
  BY <1>4, FilesFollowRule
<1>6. QED BY <1>2, <1>3, <1>5, Zenon DEF arch, abi

\* A report target succeeds only over the results of a test suite, unless a `|| true'
\* had swallowed the failure of its check: if they are of its own library, with
\* the settings asked for, they are of every board and of the units now installed,
\* and each unexpected one is excused by an allowlist for its board.
THEOREM ReportsAreEarned == Spec => OkIsEarned
<1> DEFINE Earned(l) ==
      /\ sums # NoSum
      /\ Own(l) =>
            /\ sums.ran = Boards
            /\ sums.stale \cap Deps = {}
            /\ \A r \in sums.lines :
                  \E f \in DOMAIN Lists[tool] \cap ReferenceFiles(l, r[1].arch, r[1].abi) :
                      \E line \in Lists[tool][f] : Excuses(tool, line, r[2])
<1>1. ASSUME ReportsInv, Next, NEW l \in Libcs, Succeeds(l), l \notin broken PROVE Earned(l)
  <2> USE DEF ReportsInv
  <2>1. pc[l] = "checked" /\ pc'[l] = "ok"
    BY <1>1 DEF Succeeds
  <2>2. Report(l)
    <3>1. pc \in [Libcs -> {"off", "todo", "running", "checked", "ok", "failed"}]
      BY <1>1 DEF RestOK
    <3>2. ASSUME NEW m \in Libcs, Report(m), m # l PROVE FALSE
      BY <2>1, <3>1, <3>2 DEF Report
    <3>3. QED BY <1>1, <2>1, <3>1, <3>2 DEF Next, StartMake, BeginBuild, Update, EndBuild, Exit, Stop,
             SkipCheck, BeginCheck, EndCheck, CheckDies, RunBoard
  <2>3. FilterStatus(tool, l, Lists[tool], sums) = 0
    BY <1>1, <2>1, <2>2 DEF Report, RestOK
  <2>4. UpToDate(l) /\ dirty \cap Needed = {} /\ "gcc" \in Needed /\ tool \in Needed
    BY <1>1, <2>1 DEF RunInv, MakeInv, Needed, Deps, RestOK, Tools
  <2>5. l \in stamped \ broken /\ behind[l] \cap Deps = {} /\ "gcc" \notin behind[l]
    BY <1>1, <2>4 DEF UpToDate, Deps
  <2>6. sums # NoSum
    BY <1>1, <2>4, <2>5 DEF GoneInv
  <2>7. ASSUME Own(l) PROVE sums.ran = Boards /\ sums.stale \cap Deps = {}
    <3>1. sums.libc = l /\ sums.setting = asked
      BY <2>7 DEF Own
    <3>2. sums.ran = Boards /\ sums.stale \subseteq behind[l]
      BY <1>1, <2>1, <2>5, <2>6, <3>1 DEF OwnInv, Deps
    <3>3. QED BY <2>5, <3>2
  <2>8. ASSUME NEW r \in sums.lines
        PROVE  \E f \in DOMAIN Lists[tool] \cap ReferenceFiles(l, r[1].arch, r[1].abi) :
                  \E line \in Lists[tool][f] : Excuses(tool, line, r[2])
    <3>1. r[1] \in Boards
      BY <1>1, <2>6 DEF SumsOK, Sum
    <3>2. QED BY <2>3, <2>6, <3>1, ExcusedByRule
  <2>9. QED BY <2>6, <2>7, <2>8
<1>2. ReportsInv /\ [Next]_vars
        => [\A l \in Libcs : (Succeeds(l) /\ l \notin broken) => Earned(l)]_vars
  BY <1>1, Zenon
<1>3. QED BY <1>2, ReportsInductive, PTL DEF Spec, OkIsEarned

===========================================================================
