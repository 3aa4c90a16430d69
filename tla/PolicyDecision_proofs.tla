----------------------- MODULE PolicyDecision_proofs -----------------------
(***************************************************************************)
(* Theorems of PolicyDecision: the path matcher finds what a pattern       *)
(* covers, and every decision is what one set of rules says.               *)
(***************************************************************************)
EXTENDS PolicyDecision, NaturalsInduction, WellFoundedInduction, TLAPS

-----------------------------------------------------------------------------
(* Induction up to a bound, from the well-foundedness of Nat.              *)

LEMMA UpTo ==
  ASSUME NEW m \in Nat, NEW T \in SUBSET (0..m), 0 \in T,
         \A k \in 1..m : k - 1 \in T => k \in T
  PROVE  T = 0..m
<1> DEFINE U == (0..m) \ T
<1>1. SUFFICES ASSUME U # {} PROVE FALSE
  OBVIOUS
<1>2. U \in SUBSET Nat
  OBVIOUS
<1>3. PICK k \in U : \A i \in U : ~ (<<i, k>> \in OpToRel(<, Nat))
  BY <1>1, <1>2, NatLessThanWellFounded, WFMin
<1>4. \A i \in U : ~ (i < k)
  BY <1>2, <1>3 DEF OpToRel
<1>5. k \in 1..m /\ k - 1 \in 0..m /\ k - 1 < k
  OBVIOUS
<1>6. k - 1 \in T
  BY <1>4, <1>5
<1> QED BY <1>5, <1>6
-----------------------------------------------------------------------------
(* Reach is a recursive function: there is one, and it does what its       *)
(* definition says.                                                        *)

From(s, p, k, next) ==
  IF s[Len(s) - k + 1] = "**"
    THEN {j \in 1..(Len(p) + 1) : k = 1 \/ \E i \in j..(Len(p) + 1) : i \in next}
  ELSE {j \in 1..Len(p) : s[Len(s) - k + 1] \in {"*", p[j]} /\ j + 1 \in next}

Reaches(s, p, m, f) ==
  f = [k \in 0..m |-> IF k = 0 THEN {Len(p) + 1} ELSE From(s, p, k, f[k-1])]

LEMMA ReachesExists ==
  ASSUME NEW s, NEW p, NEW m \in Nat
  PROVE  \E f : Reaches(s, p, m, f)
<1> DEFINE T == {n \in 0..m : \E f : Reaches(s, p, n, f)}
<1>1. 0 \in T
  <2> DEFINE f == [k \in 0..0 |-> {Len(p) + 1}]
  <2>1. Reaches(s, p, 0, f)
    BY DEF Reaches
  <2> QED BY <2>1
<1>2. ASSUME NEW k \in 1..m, k - 1 \in T PROVE k \in T
  <2>1. PICK f : Reaches(s, p, k - 1, f)
    BY <1>2
  <2> DEFINE g == [n \in 0..k |-> IF n = k THEN From(s, p, n, f[k-1]) ELSE f[n]]
  <2>2. f = [n \in 0..(k-1) |-> IF n = 0 THEN {Len(p) + 1} ELSE From(s, p, n, f[n-1])]
    BY <2>1 DEF Reaches
  <2>3. ASSUME NEW n \in 0..k
        PROVE  g[n] = IF n = 0 THEN {Len(p) + 1} ELSE From(s, p, n, g[n-1])
    <3>1. CASE n = k
      <4>1. n # 0 /\ k - 1 \in 0..k /\ k - 1 # k
        BY <3>1
      <4>2. g[n-1] = f[k-1]
        BY <3>1, <4>1
      <4> QED BY <3>1, <4>1, <4>2
    <3>2. CASE n # k
      <4>1. n \in 0..(k-1) /\ g[n] = f[n]
        BY <3>2
      <4>2. n # 0 => n - 1 \in 0..(k-1) /\ n - 1 # k /\ n - 1 \in 0..k
        BY <4>1
      <4>3. n # 0 => g[n-1] = f[n-1]
        BY <4>2
      <4>4. f[n] = IF n = 0 THEN {Len(p) + 1} ELSE From(s, p, n, f[n-1])
        BY <2>2, <4>1
      <4> QED BY <4>1, <4>3, <4>4
    <3> QED BY <3>1, <3>2
  <2>4. Reaches(s, p, k, g)
    <3> DEFINE h == [n \in 0..k |-> IF n = 0 THEN {Len(p) + 1} ELSE From(s, p, n, g[n-1])]
    <3>1. \A n \in 0..k : g[n] = h[n]
      BY <2>3
    <3>2. DOMAIN g = 0..k /\ DOMAIN h = 0..k
      OBVIOUS
    <3>3. g = [n \in 0..k |-> g[n]] /\ h = [n \in 0..k |-> h[n]]
      OBVIOUS
    <3> HIDE DEF g, h
    <3>4. g = h
      BY <3>1, <3>3
    <3> QED BY <3>4 DEF Reaches, h
  <2> QED BY <2>4
<1>3. T = 0..m
  <2> HIDE DEF T
  <2>1. T \in SUBSET (0..m)
    BY DEF T
  <2> QED BY <1>1, <1>2, <2>1, UpTo
<1> QED BY <1>3

LEMMA ReachFunction ==
  ASSUME NEW s \in Seq(Words), NEW p \in Seq(Words)
  PROVE  /\ Reach(s, p)[0] = {Len(p) + 1}
         /\ \A k \in 1..Len(s) : Reach(s, p)[k] = From(s, p, k, Reach(s, p)[k-1])
<1> DEFINE m == Len(s)
           f == CHOOSE g : Reaches(s, p, m, g)
<1>1. m \in Nat
  OBVIOUS
<1>2. Reaches(s, p, m, f)
  BY <1>1, ReachesExists
<1>3. Reach(s, p) = f
  BY DEF Reach, Reaches, From
<1> HIDE DEF f
<1>4. f = [k \in 0..m |-> IF k = 0 THEN {Len(p) + 1} ELSE From(s, p, k, f[k-1])]
  BY <1>2 DEF Reaches
<1>5. f[0] = {Len(p) + 1}
  BY <1>1, <1>4
<1>6. ASSUME NEW k \in 1..m PROVE f[k] = From(s, p, k, f[k-1])
  <2> HIDE DEF m
  <2>1. k \in 0..m /\ k # 0
    BY <1>1
  <2>2. f[k] = IF k = 0 THEN {Len(p) + 1} ELSE From(s, p, k, f[k-1])
    BY <1>4, <2>1
  <2> QED BY <2>1, <2>2
<1>7. \A k \in 1..m : f[k] = From(s, p, k, f[k-1])
  BY <1>6
<1> QED BY <1>3, <1>5, <1>7
-----------------------------------------------------------------------------
(* What Reach finds: the ways to cut up the rest of the path.              *)

Piece(s, p, i, a, b) ==
  IF s[i] = "**" THEN a <= b ELSE b = a + 1 /\ s[i] \in {"*", p[b]}

(* The segments after the first q cover the parts after the first a.       *)
Cuts(s, p, q, a) ==
  \E cut \in [q..Len(s) -> 0..Len(p)] :
     /\ cut[q] = a /\ cut[Len(s)] = Len(p)
     /\ \A i \in (q + 1)..Len(s) : Piece(s, p, i, cut[i-1], cut[i])

LEMMA CutsEnd ==
  ASSUME NEW s \in Seq(Words), NEW p \in Seq(Words), NEW a \in 0..Len(p)
  PROVE  Cuts(s, p, Len(s), a) <=> a = Len(p)
<1>1. Len(s) \in Nat /\ Len(p) \in Nat
  OBVIOUS
<1>2. ASSUME a = Len(p) PROVE Cuts(s, p, Len(s), a)
  <2> DEFINE cut == [i \in Len(s)..Len(s) |-> Len(p)]
  <2>1. cut \in [Len(s)..Len(s) -> 0..Len(p)] /\ cut[Len(s)] = Len(p)
    BY <1>1
  <2>2. (Len(s) + 1)..Len(s) = {}
    BY <1>1
  <2> HIDE DEF cut
  <2> QED BY <1>2, <2>1, <2>2 DEF Cuts
<1> QED BY <1>2 DEF Cuts

(* One segment first, then the others.                                     *)
LEMMA CutsStep ==
  ASSUME NEW s \in Seq(Words), NEW p \in Seq(Words), NEW q \in 0..(Len(s) - 1),
         NEW a \in 0..Len(p)
  PROVE  Cuts(s, p, q, a) <=>
           \E b \in 0..Len(p) : Piece(s, p, q + 1, a, b) /\ Cuts(s, p, q + 1, b)
<1>1. Len(s) \in Nat /\ Len(p) \in Nat
  OBVIOUS
<1>2. ASSUME Cuts(s, p, q, a)
      PROVE  \E b \in 0..Len(p) : Piece(s, p, q + 1, a, b) /\ Cuts(s, p, q + 1, b)
  <2>1. PICK cut \in [q..Len(s) -> 0..Len(p)] :
          /\ cut[q] = a /\ cut[Len(s)] = Len(p)
          /\ \A i \in (q + 1)..Len(s) : Piece(s, p, i, cut[i-1], cut[i])
    BY <1>2 DEF Cuts
  <2> DEFINE b == cut[q+1]
             rest == [i \in (q + 1)..Len(s) |-> cut[i]]
  <2>2. q + 1 \in q..Len(s) /\ b \in 0..Len(p)
    BY <1>1
  <2>3. (q + 1) - 1 = q /\ q + 1 \in (q + 1)..Len(s)
    BY <1>1
  <2>4. Piece(s, p, q + 1, a, b)
    BY <2>1, <2>3
  <2>5. rest \in [(q + 1)..Len(s) -> 0..Len(p)] /\ rest[q+1] = b /\ rest[Len(s)] = Len(p)
    BY <1>1, <2>1, <2>3
  <2>6. ASSUME NEW i \in (q + 2)..Len(s) PROVE Piece(s, p, i, rest[i-1], rest[i])
    <3>1. i \in (q + 1)..Len(s) /\ i - 1 \in (q + 1)..Len(s)
      BY <1>1
    <3>2. rest[i] = cut[i] /\ rest[i-1] = cut[i-1]
      BY <3>1
    <3> QED BY <2>1, <3>1, <3>2
  <2>7. (q + 1) + 1 = q + 2
    BY <1>1
  <2> HIDE DEF rest, b
  <2>8. Cuts(s, p, q + 1, b)
    BY <2>5, <2>6, <2>7 DEF Cuts
  <2> QED BY <2>2, <2>4, <2>8
<1>3. ASSUME NEW b \in 0..Len(p), Piece(s, p, q + 1, a, b), Cuts(s, p, q + 1, b)
      PROVE  Cuts(s, p, q, a)
  <2>1. PICK rest \in [(q + 1)..Len(s) -> 0..Len(p)] :
          /\ rest[q+1] = b /\ rest[Len(s)] = Len(p)
          /\ \A i \in ((q + 1) + 1)..Len(s) : Piece(s, p, i, rest[i-1], rest[i])
    BY <1>3 DEF Cuts
  <2> DEFINE cut == [i \in q..Len(s) |-> IF i = q THEN a ELSE rest[i]]
  <2>2. cut \in [q..Len(s) -> 0..Len(p)]
    <3>1. \A i \in q..Len(s) : i # q => i \in (q + 1)..Len(s)
      BY <1>1
    <3> QED BY <3>1
  <2>3. cut[q] = a /\ cut[Len(s)] = Len(p)
    BY <1>1, <2>1
  <2>4. ASSUME NEW i \in (q + 1)..Len(s) PROVE Piece(s, p, i, cut[i-1], cut[i])
    <3>1. i \in q..Len(s) /\ i # q /\ i - 1 \in q..Len(s) /\ cut[i] = rest[i]
      BY <1>1
    <3>2. CASE i = q + 1
      <4>1. i - 1 = q /\ cut[i-1] = a
        BY <1>1, <3>2
      <4> QED BY <1>3, <2>1, <3>1, <3>2, <4>1
    <3>3. CASE i # q + 1
      <4>1. i \in ((q + 1) + 1)..Len(s) /\ i - 1 # q /\ cut[i-1] = rest[i-1]
        BY <1>1, <3>1, <3>3
      <4> QED BY <2>1, <3>1, <4>1
    <3> QED BY <3>2, <3>3
  <2> HIDE DEF cut
  <2> QED BY <2>2, <2>3, <2>4 DEF Cuts
<1> QED BY <1>2, <1>3

LEMMA ReachFindsCuts ==
  ASSUME NEW s \in Seq(Words), NEW p \in Seq(Words)
  PROVE  \A k \in 0..Len(s) : \A j \in 1..(Len(p) + 1) :
           j \in Reach(s, p)[k] <=> Cuts(s, p, Len(s) - k, j - 1)
<1> DEFINE m == Len(s)
           n == Len(p)
           Finds(k) == \A j \in 1..(n + 1) :
                         j \in Reach(s, p)[k] <=> Cuts(s, p, m - k, j - 1)
           T == {k \in 0..m : Finds(k)}
<1>1. m \in Nat /\ n \in Nat
  OBVIOUS
<1>2. 0 \in T
  <2>1. ASSUME NEW j \in 1..(n + 1)
        PROVE  j \in Reach(s, p)[0] <=> Cuts(s, p, m - 0, j - 1)
    <3>1. j - 1 \in 0..n /\ m - 0 = m
      BY <1>1
    <3>2. Cuts(s, p, m - 0, j - 1) <=> j - 1 = n
      BY <3>1, CutsEnd
    <3> QED BY <1>1, <3>2, ReachFunction
  <2> QED BY <1>1, <2>1
<1>3. ASSUME NEW k \in 1..m, k - 1 \in T PROVE k \in T
  <2> DEFINE q == m - k
             next == Reach(s, p)[k-1]
  <2>1. /\ q \in 0..(m - 1) /\ q + 1 = m - (k - 1) /\ q + 1 = m - k + 1
        /\ k \in 0..m /\ k - 1 \in 0..m
    BY <1>1
  <2>2. ASSUME NEW b \in 0..n PROVE b + 1 \in next <=> Cuts(s, p, q + 1, b)
    <3>1. b + 1 \in 1..(n + 1) /\ (b + 1) - 1 = b
      BY <1>1
    <3> QED BY <1>3, <2>1, <3>1
  <2>3. Reach(s, p)[k] = From(s, p, k, next)
    BY ReachFunction
  <2>5. ASSUME NEW a \in 0..n
        PROVE  Cuts(s, p, q, a) <=>
                 \E b \in 0..n : Piece(s, p, q + 1, a, b) /\ Cuts(s, p, q + 1, b)
    <3> q \in 0..(Len(s) - 1) /\ a \in 0..Len(p)
      BY <2>1
    <3> HIDE DEF q
    <3> QED BY CutsStep
  <2>4. ASSUME NEW j \in 1..(n + 1)
        PROVE  j \in Reach(s, p)[k] <=> Cuts(s, p, q, j - 1)
    <3>1. j - 1 \in 0..n
      BY <1>1
    <3> HIDE DEF q, next
    <3>2. Cuts(s, p, q, j - 1) <=>
            \E b \in 0..n : Piece(s, p, q + 1, j - 1, b) /\ b + 1 \in next
      <4>1. Cuts(s, p, q, j - 1) <=>
              \E b \in 0..n : Piece(s, p, q + 1, j - 1, b) /\ Cuts(s, p, q + 1, b)
        BY <2>5, <3>1
      <4> QED BY <2>2, <4>1
    <3>3. CASE s[q+1] = "**"
      <4>1. j \in From(s, p, k, next) <=> k = 1 \/ \E i \in j..(n + 1) : i \in next
        BY <2>1, <3>3 DEF From
      <4>2. CASE \E i \in j..(n + 1) : i \in next
        <5>1. PICK i \in j..(n + 1) : i \in next
          BY <4>2
        <5>2. i - 1 \in 0..n /\ j - 1 <= i - 1 /\ (i - 1) + 1 = i
          BY <1>1, <5>1
        <5>3. Piece(s, p, q + 1, j - 1, i - 1)
          BY <3>3, <5>2 DEF Piece
        <5> QED BY <2>3, <3>2, <4>1, <4>2, <5>1, <5>2, <5>3
      <4>3. CASE ~ \E i \in j..(n + 1) : i \in next
        <5>1. ~ \E b \in 0..n : Piece(s, p, q + 1, j - 1, b) /\ b + 1 \in next
          <6> SUFFICES ASSUME NEW b \in 0..n, Piece(s, p, q + 1, j - 1, b), b + 1 \in next
                       PROVE  FALSE
            OBVIOUS
          <6>1. j - 1 <= b
            BY <3>3 DEF Piece
          <6>2. b + 1 \in j..(n + 1)
            BY <1>1, <6>1
          <6> QED BY <4>3, <6>2
        <5>2. k # 1
          <6> SUFFICES ASSUME k = 1 PROVE FALSE
            OBVIOUS
          <6>1. k - 1 = 0 /\ n + 1 \in next
            BY ReachFunction DEF next
          <6> QED BY <1>1, <4>3, <6>1
        <5> QED BY <2>3, <3>2, <4>1, <4>3, <5>1, <5>2
      <4> QED BY <4>2, <4>3
    <3>4. CASE s[q+1] # "**"
      <4>1. j \in From(s, p, k, next) <=>
              j \in 1..n /\ s[q+1] \in {"*", p[j]} /\ j + 1 \in next
        BY <2>1, <3>4 DEF From
      <4>2. \A b \in 0..n : Piece(s, p, q + 1, j - 1, b) <=>
              b = j /\ s[q+1] \in {"*", p[j]}
        BY <1>1, <3>4 DEF Piece
      <4>3. (\E b \in 0..n : Piece(s, p, q + 1, j - 1, b) /\ b + 1 \in next) <=>
              j \in 0..n /\ s[q+1] \in {"*", p[j]} /\ j + 1 \in next
        BY <4>2
      <4> QED BY <1>1, <2>3, <3>2, <4>1, <4>3
    <3> QED BY <3>3, <3>4
  <2> QED BY <2>1, <2>4
<1> HIDE DEF Finds
<1>4. T = 0..m
  <2> HIDE DEF T
  <2>1. T \in SUBSET (0..m)
    BY DEF T
  <2> QED BY <1>1, <1>2, <1>3, <2>1, UpTo
<1>5. \A k \in 0..m : Finds(k)
  BY <1>4
<1> QED BY <1>5 DEF Finds

LEMMA CutsCover ==
  ASSUME NEW s \in Seq(Words), NEW p \in Seq(Words)
  PROVE  Cuts(s, p, 0, 0) <=> Covers(s, p)
<1>1. 0 + 1 = 1
  OBVIOUS
<1> QED BY <1>1 DEF Cuts, Covers, Piece

LEMMA CompilePathType ==
  ASSUME NEW pattern \in Seq(Words), NEW path \in Seq(Words)
  PROVE  CompilePath(pattern) \in Seq(Words) /\ Parts(path) \in Seq(Words)
<1>1. <<Empty>> \in Seq(Words)
  BY RulesAssumption
<1>2. <<Empty, Empty>> \in Seq(Words)
  BY RulesAssumption
<1> QED BY <1>1, <1>2 DEF CompilePath, Parts

(* pathMatcher.match finds a match exactly when the pattern covers the     *)
(* path: the recursion over both positions, with its short cut for a       *)
(* trailing "**", misses none and invents none, however long they are.     *)
THEOREM MatchIsCovers ==
  ASSUME NEW pattern \in Seq(Words), NEW path \in Seq(Words)
  PROVE  Match(pattern, path) <=>
           pattern = <<"*">> \/ Covers(CompilePath(pattern), Parts(path))
<1> DEFINE s == CompilePath(pattern)
           p == Parts(path)
<1>1. s \in Seq(Words) /\ p \in Seq(Words)
  BY CompilePathType
<1> HIDE DEF s, p
<1>2. Len(s) \in 0..Len(s) /\ 1 \in 1..(Len(p) + 1) /\ Len(s) - Len(s) = 0 /\ 1 - 1 = 0
  BY <1>1
<1>3. 1 \in Reach(s, p)[Len(s)] <=> Cuts(s, p, Len(s) - Len(s), 1 - 1)
  BY <1>1, <1>2, ReachFindsCuts
<1>4. 1 \in Reach(s, p)[Len(s)] <=> Covers(s, p)
  BY <1>1, <1>2, <1>3, CutsCover
<1> QED BY <1>4 DEF Match, s, p
-----------------------------------------------------------------------------
(* Compiled policies.                                                      *)

LEMMA CompileType ==
  ASSUME NEW rule \in Rule
  PROVE  /\ Compile(rule) \in Rule
         /\ Compile(rule).methods = IF rule.methods = {} THEN {"*"} ELSE rule.methods
         /\ Compile(rule).policy = rule.policy /\ Compile(rule).effect = rule.effect
         /\ Compile(rule).priority = rule.priority /\ Compile(rule).tenant = rule.tenant
         /\ Compile(rule).groups = rule.groups /\ Compile(rule).users = rule.users
         /\ Compile(rule).sources = rule.sources /\ Compile(rule).apps = rule.apps
         /\ Compile(rule).paths = rule.paths
<1> DEFINE methods == IF rule.methods = {} THEN {"*"} ELSE rule.methods
<1>1. methods \in SUBSET Words
  <2>1. rule.methods \in SUBSET Words
    BY DEF Rule
  <2> QED BY <2>1, RulesAssumption
<1>2. Compile(rule) = [rule EXCEPT !.methods = methods]
  BY DEF Compile
<1> HIDE DEF methods
<1>3. [rule EXCEPT !.methods = methods] \in Rule
  BY <1>1 DEF Rule
<1>4. /\ Compile(rule).methods = methods
      /\ Compile(rule).policy = rule.policy /\ Compile(rule).effect = rule.effect
      /\ Compile(rule).priority = rule.priority /\ Compile(rule).tenant = rule.tenant
      /\ Compile(rule).groups = rule.groups /\ Compile(rule).users = rule.users
      /\ Compile(rule).sources = rule.sources /\ Compile(rule).apps = rule.apps
      /\ Compile(rule).paths = rule.paths
  BY <1>2 DEF Rule
<1> QED BY <1>2, <1>3, <1>4 DEF methods

LEMMA CompileConditions ==
  ASSUME NEW rule \in Rule, NEW ctx
  PROVE  MatchesConditions(Compile(rule), ctx) <=> MatchesConditions(rule, ctx)
<1>1. /\ Compile(rule).mfa = rule.mfa /\ Compile(rule).level = rule.level
      /\ Compile(rule).postures = rule.postures /\ Compile(rule).tor = rule.tor
      /\ Compile(rule).countries = rule.countries
      /\ Compile(rule).blockedCountries = rule.blockedCountries
      /\ Compile(rule).nets = rule.nets /\ Compile(rule).blockedNets = rule.blockedNets
      /\ Compile(rule).schedule = rule.schedule
  BY DEF Compile, Rule
<1> QED BY <1>1 DEF MatchesConditions

(* A policy that gets among the candidates matches when its rule applies.  *)
Within(rule, ctx) == rule.tenant = ctx.tenant /\ (IsGlobal(rule) \/ ctx.app \in rule.apps)

LEMMA MatchesIsApplies ==
  ASSUME NEW rule \in Rule, NEW ctx \in Context, Within(rule, ctx)
  PROVE  Matches(Compile(rule), ctx) <=> Applies(rule, ctx)
<1> DEFINE cp == Compile(rule)
<1>1. MatchesSubject(cp, ctx) <=> MatchesSubject(rule, ctx)
  BY CompileType DEF MatchesSubject
<1>2. MatchesConditions(cp, ctx) <=> MatchesConditions(rule, ctx)
  BY CompileConditions
<1>3. \A pattern \in rule.paths : Match(pattern, ctx.path) <=>
        pattern = <<"*">> \/ Covers(CompilePath(pattern), Parts(ctx.path))
  <2>1. \A pattern \in rule.paths : pattern \in Seq(Words)
    BY DEF Rule
  <2>2. ctx.path \in Seq(Words)
    BY DEF Context
  <2> QED BY <2>1, <2>2, MatchIsCovers
<1>4. MatchesResource(cp, ctx) <=>
        /\ rule.apps = {} \/ ctx.app \in rule.apps \/ "*" \in rule.apps
        /\ rule.methods = {} \/ ctx.method \in rule.methods \/ "*" \in rule.methods
        /\ rule.paths = {} \/ \E pattern \in rule.paths :
             pattern = <<"*">> \/ Covers(CompilePath(pattern), Parts(ctx.path))
  <2>1. (cp.apps # {} => {ctx.app, "*"} \cap cp.apps # {}) <=>
          rule.apps = {} \/ ctx.app \in rule.apps \/ "*" \in rule.apps
    BY CompileType
  <2>2. (cp.methods # {} => {ctx.method, "*"} \cap cp.methods # {}) <=>
          rule.methods = {} \/ ctx.method \in rule.methods \/ "*" \in rule.methods
    BY CompileType
  <2>3. cp.paths = rule.paths
    BY CompileType
  <2> HIDE DEF cp
  <2> QED BY <1>3, <2>1, <2>2, <2>3 DEF MatchesResource
<1> HIDE DEF cp
<1>5. Matches(cp, ctx) <=>
        MatchesSubject(cp, ctx) /\ MatchesResource(cp, ctx) /\ MatchesConditions(cp, ctx)
  BY DEF Matches
<1>6. rule.tenant = ctx.tenant
  BY DEF Within
<1>7. Matches(cp, ctx) <=> Applies(rule, ctx)
  BY <1>1, <1>2, <1>4, <1>5, <1>6 DEF Applies
<1> QED BY <1>7 DEF cp

LEMMA AppliesWithin ==
  ASSUME NEW rule, NEW ctx, Applies(rule, ctx)
  PROVE  Within(rule, ctx)
BY DEF Applies, Within, IsGlobal
-----------------------------------------------------------------------------
(* What the index finds.                                                   *)

Found(R, ctx, effect) ==
  {Compile(rule) : rule \in {x \in R : x.effect = effect /\ Within(x, ctx)}}

LEMMA CandidatesFound ==
  ASSUME NEW R \in SUBSET Rule, NEW ctx \in Context, NEW effect,
         globalPolicies = Globals(R), byTenantApp = ForApps(R)
  PROVE  OfEffect(Candidates(ctx), effect) = Found(R, ctx, effect)
<1>1. ctx.tenant \in Tenants /\ ctx.app \in Apps
  BY DEF Context
<1>2. globalPolicies[ctx.tenant] =
        {Compile(rule) : rule \in {x \in R : x.tenant = ctx.tenant /\ IsGlobal(x)}}
  BY <1>1 DEF Globals
<1>3. byTenantApp[ctx.tenant][ctx.app] =
        {Compile(rule) : rule \in {x \in R : x.tenant = ctx.tenant /\ ~ IsGlobal(x)
                                               /\ ctx.app \in x.apps}}
  BY <1>1 DEF ForApps
<1>4. \A rule \in R : Compile(rule).effect = rule.effect
  BY CompileType
<1>5. ASSUME NEW cp \in OfEffect(Candidates(ctx), effect) PROVE cp \in Found(R, ctx, effect)
  <2>1. cp.effect = effect /\ cp \in globalPolicies[ctx.tenant] \cup byTenantApp[ctx.tenant][ctx.app]
    BY DEF OfEffect, Candidates
  <2>2. PICK rule \in R : cp = Compile(rule) /\ Within(rule, ctx)
    BY <1>2, <1>3, <2>1 DEF Within
  <2> QED BY <1>4, <2>1, <2>2 DEF Found
<1>6. ASSUME NEW cp \in Found(R, ctx, effect) PROVE cp \in OfEffect(Candidates(ctx), effect)
  <2>1. PICK rule \in R : cp = Compile(rule) /\ rule.effect = effect /\ Within(rule, ctx)
    BY DEF Found
  <2>2. cp \in globalPolicies[ctx.tenant] \cup byTenantApp[ctx.tenant][ctx.app]
    BY <1>2, <1>3, <2>1 DEF Within
  <2> QED BY <1>4, <2>1, <2>2 DEF OfEffect, Candidates
<1> QED BY <1>5, <1>6

(* What is left to look at: no policy was struck off that matches.         *)
Left(S, R, ctx, effect) ==
  /\ S \subseteq Found(R, ctx, effect)
  /\ \A cp \in Found(R, ctx, effect) : Matches(cp, ctx) => cp \in S

LEMMA ApplicableLeft ==
  ASSUME NEW R \in SUBSET Rule, NEW ctx \in Context, NEW effect, NEW S,
         Left(S, R, ctx, effect), NEW rule \in Applicable(R, ctx, effect)
  PROVE  Compile(rule) \in S
<1>1. rule \in R /\ rule \in Rule /\ rule.effect = effect /\ Applies(rule, ctx)
  BY DEF Applicable
<1>2. Within(rule, ctx)
  BY <1>1, AppliesWithin
<1>3. Matches(Compile(rule), ctx)
  BY <1>1, <1>2, MatchesIsApplies
<1>4. Compile(rule) \in Found(R, ctx, effect)
  BY <1>1, <1>2 DEF Found
<1> QED BY <1>3, <1>4 DEF Left

(* The policy that is found is one of the highest that apply.              *)
LEMMA HighestFound ==
  ASSUME NEW R \in SUBSET Rule, NEW ctx \in Context, NEW effect, NEW S,
         Left(S, R, ctx, effect), NEW cp \in Highest(S), Matches(cp, ctx)
  PROVE  \E rule \in Highest(Applicable(R, ctx, effect)) : rule.policy = cp.policy
<1>1. cp \in S /\ \A other \in S : other.priority <= cp.priority
  BY DEF Highest
<1>2. PICK rule \in R : cp = Compile(rule) /\ rule.effect = effect /\ Within(rule, ctx)
  BY <1>1 DEF Left, Found
<1>3. rule \in Rule
  BY <1>2
<1>4. rule \in Applicable(R, ctx, effect)
  BY <1>2, <1>3, MatchesIsApplies DEF Applicable
<1>5. ASSUME NEW other \in Applicable(R, ctx, effect) PROVE other.priority <= rule.priority
  <2>1. other \in Rule
    BY DEF Applicable
  <2>2. Compile(other) \in S
    BY ApplicableLeft
  <2>3. Compile(other).priority = other.priority /\ Compile(rule).priority = rule.priority
    BY <1>3, <2>1, CompileType
  <2> QED BY <1>1, <1>2, <2>2, <2>3
<1>6. rule.policy = cp.policy
  BY <1>2, <1>3, CompileType
<1> QED BY <1>4, <1>5, <1>6 DEF Highest
-----------------------------------------------------------------------------
(* The invariant: the index is that of the live rules, and of what was     *)
(* found for a request nothing was struck off that matches it.             *)

IndexInv ==
  /\ rules \in RuleSets
  /\ globalPolicies = Globals(rules) /\ byTenantApp = ForApps(rules)

VisitInv(v) ==
  /\ v \in Visit
  /\ v.stage # "none" => v.ctx \in Context
  /\ v.stage \in {"asked", "scanning", "decided", "refused"} => ~ v.ctx.exempt
  /\ v.stage = "scanning" =>
       /\ Left(v.denies, v.seen, v.ctx, "DENY")
       /\ Left(v.allows, v.seen, v.ctx, "ALLOW")
  /\ v.stage \in {"decided", "served", "refused"} /\ ~ v.ctx.exempt =>
       Fits(v.effect, v.policy, v.seen, v.ctx)
  /\ v.stage = "served" /\ ~ v.ctx.exempt => v.effect # "DENY"
  /\ v.stage = "refused" => v.effect = "DENY"

IInv ==
  /\ IndexInv
  /\ visit \in [Requests -> Visit]
  /\ \A r \in Requests : VisitInv(visit[r])

(* Globals and ForApps hold policies compiled from rules.                  *)
LEMMA IndexType ==
  ASSUME NEW R \in SUBSET Rule
  PROVE  /\ Globals(R) \in [Tenants -> SUBSET Rule]
         /\ ForApps(R) \in [Tenants -> [Apps -> SUBSET Rule]]
<1>1. \A rule \in R : Compile(rule) \in Rule
  BY CompileType
<1>2. \A t \in Tenants :
        {Compile(rule) : rule \in {x \in R : x.tenant = t /\ IsGlobal(x)}} \in SUBSET Rule
  BY <1>1
<1>3. \A t \in Tenants, a \in Apps :
        {Compile(rule) : rule \in {x \in R : x.tenant = t /\ ~ IsGlobal(x) /\ a \in x.apps}}
          \in SUBSET Rule
  BY <1>1
<1> QED BY <1>2, <1>3 DEF Globals, ForApps

LEMMA NoVisitInv == VisitInv(NoVisit)
<1>1. NoVisit \in Visit
  BY DEF NoVisit, Visit
<1>2. NoVisit.stage = "none"
  BY DEF NoVisit
<1> QED BY <1>1, <1>2 DEF VisitInv

LEMMA InitIInv == Init => IInv
<1> SUFFICES ASSUME Init PROVE IInv
  OBVIOUS
<1>1. IndexInv
  BY DEF Init, IndexInv
<1>2. \A r \in Requests : visit[r] = NoVisit
  BY DEF Init
<1>3. NoVisit \in Visit
  BY NoVisitInv DEF VisitInv
<1>4. visit \in [Requests -> Visit]
  BY <1>3 DEF Init
<1> QED BY <1>1, <1>2, <1>4, NoVisitInv DEF IInv

(* A step of a request keeps the invariant if what becomes of it does.     *)
LEMMA VisitStep ==
  ASSUME IInv, NEW r \in Requests, NEW v, VisitInv(v), visit' = [visit EXCEPT ![r] = v],
         UNCHANGED <<globalPolicies, byTenantApp, rules>>
  PROVE  IInv'
<1>1. IndexInv'
  BY DEF IInv, IndexInv
<1>2. v \in Visit
  BY DEF VisitInv
<1>3. visit' \in [Requests -> Visit]
  BY <1>2 DEF IInv
<1>4. ASSUME NEW x \in Requests PROVE VisitInv(visit'[x])
  <2>1. visit'[x] = IF x = r THEN v ELSE visit[x]
    BY DEF IInv
  <2> QED BY <2>1 DEF IInv
<1> QED BY <1>1, <1>3, <1>4 DEF IInv

LEMMA RuleSetsAreRules == \A R \in RuleSets : R \in SUBSET Rule
BY RulesAssumption

LEMMA UpdateStep ==
  ASSUME IInv, NEW R \in RuleSets, UpdatePolicies(R)
  PROVE  IInv'
<1>1. IndexInv'
  BY DEF UpdatePolicies, IndexInv
<1> QED BY <1>1 DEF UpdatePolicies, IInv

LEMMA ArriveStep ==
  ASSUME IInv, NEW r \in Requests, NEW ctx \in Contexts, Arrive(r, ctx)
  PROVE  IInv'
<1> DEFINE v == [visit[r] EXCEPT !.ctx = ctx,
                                 !.stage = IF ctx.exempt THEN "served" ELSE "asked"]
<1>1. visit[r] = NoVisit /\ visit[r] \in Visit /\ ctx \in Context /\ ctx.exempt \in BOOLEAN
  BY RulesAssumption DEF Arrive, IInv, Context
<1>2. visit' = [visit EXCEPT ![r] = v]
  BY DEF Arrive
<1>3. v \in Visit
  BY <1>1 DEF Visit
<1>4. v.ctx = ctx /\ v.stage = IF ctx.exempt THEN "served" ELSE "asked"
  BY <1>1 DEF Visit
<1> HIDE DEF v
<1>5. VisitInv(v)
  BY <1>1, <1>3, <1>4 DEF VisitInv
<1> QED BY <1>2, <1>5, VisitStep DEF Arrive

LEMMA EvaluateStep ==
  ASSUME IInv, NEW r \in Requests, Evaluate(r)
  PROVE  IInv'
<1> DEFINE ctx == visit[r].ctx
           D == OfEffect(Candidates(ctx), "DENY")
           A == OfEffect(Candidates(ctx), "ALLOW")
           v == [visit[r] EXCEPT !.stage = "scanning", !.seen = rules,
                                 !.denies = D, !.allows = A]
<1>1. visit[r] \in Visit /\ ctx \in Context /\ ~ ctx.exempt
  BY DEF Evaluate, IInv, VisitInv
<1>2. /\ rules \in SUBSET Rule
      /\ globalPolicies = Globals(rules) /\ byTenantApp = ForApps(rules)
  BY RuleSetsAreRules DEF IInv, IndexInv
<1>3. D = Found(rules, ctx, "DENY") /\ A = Found(rules, ctx, "ALLOW")
  BY <1>1, <1>2, CandidatesFound
<1>4. D \in SUBSET Rule /\ A \in SUBSET Rule
  BY <1>2, <1>3, CompileType DEF Found
<1>5. visit' = [visit EXCEPT ![r] = v]
  BY DEF Evaluate
<1> HIDE DEF D, A
<1>6. v \in Visit
  BY <1>1, <1>2, <1>4 DEF Visit
<1>7. v.ctx = ctx /\ v.stage = "scanning" /\ v.seen = rules /\ v.denies = D /\ v.allows = A
  BY <1>1 DEF Visit
<1>8. Left(D, rules, ctx, "DENY") /\ Left(A, rules, ctx, "ALLOW")
  BY <1>3 DEF Left
<1> HIDE DEF v, ctx
<1>9. VisitInv(v)
  BY <1>1, <1>6, <1>7, <1>8 DEF VisitInv
<1> QED BY <1>5, <1>9, VisitStep DEF Evaluate

(* What a decision makes of a request.                                     *)
LEMMA DecideStep ==
  ASSUME IInv, NEW r \in Requests, visit[r].stage = "scanning",
         NEW effect \in {"ALLOW", "DENY"}, NEW policy \in Words \cup {None},
         Decide(r, effect, policy), UNCHANGED <<globalPolicies, byTenantApp, rules>>,
         Fits(effect, policy, visit[r].seen, visit[r].ctx)
  PROVE  IInv'
<1> DEFINE v == [visit[r] EXCEPT !.stage = "decided", !.effect = effect, !.policy = policy,
                                 !.denies = {}, !.allows = {}]
<1>1. visit[r] \in Visit /\ visit[r].ctx \in Context /\ ~ visit[r].ctx.exempt
  BY DEF IInv, VisitInv
<1>2. visit' = [visit EXCEPT ![r] = v]
  BY DEF Decide
<1>3. v \in Visit
  BY <1>1 DEF Visit
<1>4. /\ v.ctx = visit[r].ctx /\ v.seen = visit[r].seen /\ v.stage = "decided"
      /\ v.effect = effect /\ v.policy = policy
  BY <1>1 DEF Visit
<1> HIDE DEF v
<1>5. VisitInv(v)
  BY <1>1, <1>3, <1>4 DEF VisitInv
<1> QED BY <1>2, <1>5, VisitStep

(* A policy that does not match is struck off.                             *)
LEMMA LeftWithout ==
  ASSUME NEW R, NEW ctx, NEW effect, NEW S, Left(S, R, ctx, effect),
         NEW cp, ~ Matches(cp, ctx)
  PROVE  Left(S \ {cp}, R, ctx, effect)
BY DEF Left

LEMMA DenyStep ==
  ASSUME IInv, NEW r \in Requests, NEW cp \in visit[r].denies, Deny(r, cp)
  PROVE  IInv'
<1> DEFINE ctx == visit[r].ctx
           R == visit[r].seen
<1>1. /\ visit[r] \in Visit /\ VisitInv(visit[r]) /\ visit[r].stage = "scanning"
      /\ ctx \in Context /\ R \in SUBSET Rule /\ ~ ctx.exempt
      /\ Left(visit[r].denies, R, ctx, "DENY") /\ Left(visit[r].allows, R, ctx, "ALLOW")
  BY DEF Deny, IInv, VisitInv, Visit
<1>2. CASE Matches(cp, ctx)
  <2>1. cp \in Rule /\ cp.policy \in Words
    BY <1>1 DEF Visit, Rule
  <2>2. \E rule \in Highest(Applicable(R, ctx, "DENY")) : rule.policy = cp.policy
    BY <1>1, <1>2, HighestFound DEF Deny
  <2>3. Fits("DENY", cp.policy, R, ctx)
    BY <2>2 DEF Fits, Highest
  <2>4. Decide(r, "DENY", cp.policy) /\ UNCHANGED <<globalPolicies, byTenantApp, rules>>
    BY <1>2 DEF Deny
  <2> QED BY <1>1, <2>1, <2>3, <2>4, DecideStep
<1>3. CASE ~ Matches(cp, ctx)
  <2> DEFINE v == [visit[r] EXCEPT !.denies = visit[r].denies \ {cp}]
  <2>1. visit' = [visit EXCEPT ![r] = v] /\ UNCHANGED <<globalPolicies, byTenantApp, rules>>
    BY <1>3 DEF Deny
  <2>2. v \in Visit
    BY <1>1 DEF Visit
  <2>3. /\ v.ctx = ctx /\ v.seen = R /\ v.stage = "scanning" /\ v.allows = visit[r].allows
        /\ v.denies = visit[r].denies \ {cp}
    BY <1>1 DEF Visit
  <2>4. Left(visit[r].denies \ {cp}, R, ctx, "DENY")
    BY <1>1, <1>3, LeftWithout
  <2> HIDE DEF v, ctx, R
  <2>5. VisitInv(v)
    BY <1>1, <2>2, <2>3, <2>4 DEF VisitInv
  <2> QED BY <2>1, <2>5, VisitStep
<1> QED BY <1>2, <1>3

(* When no DENY is left, none applies; so with ALLOW.                      *)
LEMMA NoneLeft ==
  ASSUME NEW R \in SUBSET Rule, NEW ctx \in Context, NEW effect, Left({}, R, ctx, effect)
  PROVE  Applicable(R, ctx, effect) = {}
<1> SUFFICES ASSUME NEW rule \in Applicable(R, ctx, effect) PROVE FALSE
  OBVIOUS
<1>1. Compile(rule) \in {}
  BY ApplicableLeft
<1> QED BY <1>1

LEMMA AllowStep ==
  ASSUME IInv, NEW r \in Requests, NEW cp \in visit[r].allows, Allow(r, cp)
  PROVE  IInv'
<1> DEFINE ctx == visit[r].ctx
           R == visit[r].seen
<1>1. /\ visit[r] \in Visit /\ VisitInv(visit[r]) /\ visit[r].stage = "scanning"
      /\ ctx \in Context /\ R \in SUBSET Rule /\ ~ ctx.exempt
      /\ Left(visit[r].denies, R, ctx, "DENY") /\ Left(visit[r].allows, R, ctx, "ALLOW")
  BY DEF Allow, IInv, VisitInv, Visit
<1>2. CASE Matches(cp, ctx)
  <2>1. cp \in Rule /\ cp.policy \in Words
    BY <1>1 DEF Visit, Rule
  <2>2. \E rule \in Highest(Applicable(R, ctx, "ALLOW")) : rule.policy = cp.policy
    BY <1>1, <1>2, HighestFound DEF Allow
  <2>3. Applicable(R, ctx, "DENY") = {}
    BY <1>1, NoneLeft DEF Allow
  <2>4. Fits("ALLOW", cp.policy, R, ctx)
    BY <2>2, <2>3 DEF Fits, Highest
  <2>5. Decide(r, "ALLOW", cp.policy) /\ UNCHANGED <<globalPolicies, byTenantApp, rules>>
    BY <1>2 DEF Allow
  <2> QED BY <1>1, <2>1, <2>4, <2>5, DecideStep
<1>3. CASE ~ Matches(cp, ctx)
  <2> DEFINE v == [visit[r] EXCEPT !.allows = visit[r].allows \ {cp}]
  <2>1. visit' = [visit EXCEPT ![r] = v] /\ UNCHANGED <<globalPolicies, byTenantApp, rules>>
    BY <1>3 DEF Allow
  <2>2. v \in Visit
    BY <1>1 DEF Visit
  <2>3. /\ v.ctx = ctx /\ v.seen = R /\ v.stage = "scanning" /\ v.denies = visit[r].denies
        /\ v.allows = visit[r].allows \ {cp}
    BY <1>1 DEF Visit
  <2>4. Left(visit[r].allows \ {cp}, R, ctx, "ALLOW")
    BY <1>1, <1>3, LeftWithout
  <2> HIDE DEF v, ctx, R
  <2>5. VisitInv(v)
    BY <1>1, <2>2, <2>3, <2>4 DEF VisitInv
  <2> QED BY <2>1, <2>5, VisitStep
<1> QED BY <1>2, <1>3

LEMMA DefaultDenyStep ==
  ASSUME IInv, NEW r \in Requests, DefaultDeny(r)
  PROVE  IInv'
<1> DEFINE ctx == visit[r].ctx
           R == visit[r].seen
<1>1. /\ visit[r].stage = "scanning" /\ ctx \in Context /\ R \in SUBSET Rule
      /\ Left({}, R, ctx, "DENY") /\ Left({}, R, ctx, "ALLOW")
  BY DEF DefaultDeny, IInv, VisitInv, Visit
<1>2. Applicable(R, ctx, "DENY") = {} /\ Applicable(R, ctx, "ALLOW") = {}
  BY <1>1, NoneLeft
<1>3. Fits("DENY", None, R, ctx)
  BY <1>2 DEF Fits
<1> QED BY <1>1, <1>3, DecideStep DEF DefaultDeny

LEMMA EnforceStep ==
  ASSUME IInv, NEW r \in Requests, Enforce(r)
  PROVE  IInv'
<1> DEFINE v == [visit[r] EXCEPT !.stage = IF visit[r].effect = "DENY" THEN "refused"
                                           ELSE "served"]
<1>1. visit[r] \in Visit /\ VisitInv(visit[r]) /\ visit[r].stage = "decided"
  BY DEF Enforce, IInv
<1>2. visit' = [visit EXCEPT ![r] = v]
  BY DEF Enforce
<1>3. v \in Visit
  BY <1>1 DEF Visit
<1>4. /\ v.ctx = visit[r].ctx /\ v.seen = visit[r].seen /\ v.effect = visit[r].effect
      /\ v.policy = visit[r].policy
      /\ v.stage = IF visit[r].effect = "DENY" THEN "refused" ELSE "served"
  BY <1>1 DEF Visit
<1> HIDE DEF v
<1>5. VisitInv(v)
  BY <1>1, <1>3, <1>4 DEF VisitInv
<1> QED BY <1>2, <1>5, VisitStep DEF Enforce

LEMMA NextIInv == IInv /\ [Next]_vars => IInv'
<1> SUFFICES ASSUME IInv, [Next]_vars PROVE IInv'
  OBVIOUS
<1>1. ASSUME NEW r \in Requests, Finish(r) PROVE IInv'
  <2>1. visit' = [visit EXCEPT ![r] = NoVisit]
        /\ UNCHANGED <<globalPolicies, byTenantApp, rules>>
    BY <1>1 DEF Finish
  <2> QED BY <2>1, NoVisitInv, VisitStep
<1>2. CASE UNCHANGED vars
  BY <1>2 DEF vars, IInv, IndexInv
<1>3. CASE Next
  BY <1>1, <1>3, UpdateStep, ArriveStep, EvaluateStep, DenyStep, AllowStep, DefaultDenyStep,
     EnforceStep DEF Next
<1> QED BY <1>2, <1>3

THEOREM InductiveInvariant == Spec => []IInv
BY InitIInv, NextIInv, PTL DEF Spec
-----------------------------------------------------------------------------
(* Types.                                                                  *)
THEOREM TypeCorrect == Spec => []TypeOK
<1>1. IInv => TypeOK
  <2> SUFFICES ASSUME IInv PROVE TypeOK
    OBVIOUS
  <2>1. rules \in RuleSets /\ rules \in SUBSET Rule
    BY RuleSetsAreRules DEF IInv, IndexInv
  <2>2. /\ globalPolicies \in [Tenants -> SUBSET Rule]
        /\ byTenantApp \in [Tenants -> [Apps -> SUBSET Rule]]
    BY <2>1, IndexType DEF IInv, IndexInv
  <2> QED BY <2>1, <2>2 DEF IInv, TypeOK
<1> QED BY <1>1, InductiveInvariant, PTL

(* Evaluate decides what the rules that were live when it began say, for   *)
(* any rules, any index swapped in meanwhile and any number of requests.   *)
THEOREM DecisionFitsHolds == Spec => []DecisionFits
<1>1. IInv => DecisionFits
  BY DEF IInv, VisitInv, DecisionFits
<1> QED BY <1>1, InductiveInvariant, PTL

(* The middleware passes on what the rules allow and nothing else.         *)
THEOREM ServedIfAllowedHolds == Spec => []ServedIfAllowed
<1>1. ASSUME IInv PROVE ServedIfAllowed
  <2> SUFFICES ASSUME NEW r \in Requests
               PROVE  LET v == visit[r]
                          allowed == /\ Applicable(v.seen, v.ctx, "DENY") = {}
                                     /\ Applicable(v.seen, v.ctx, "ALLOW") # {}
                      IN  /\ v.stage = "served" => v.ctx.exempt \/ allowed
                          /\ v.stage = "refused" => ~ v.ctx.exempt /\ ~ allowed
    BY DEF ServedIfAllowed
  <2>1. VisitInv(visit[r])
    BY <1>1 DEF IInv
  <2>2. CASE visit[r].stage = "served" /\ ~ visit[r].ctx.exempt
    BY <2>1, <2>2 DEF VisitInv, Fits
  <2>3. CASE visit[r].stage = "refused"
    BY <2>1, <2>3 DEF VisitInv, Fits
  <2> QED BY <2>2, <2>3
<1> QED BY <1>1, InductiveInvariant, PTL
=============================================================================
