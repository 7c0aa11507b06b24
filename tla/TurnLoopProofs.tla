---------------------------- MODULE TurnLoopProofs ----------------------------
(***************************************************************************)
(* One turn of the Coordinator: WindowWhole and DelegatedOnce for any       *)
(* limits on steps, messages, characters and delegations.                   *)
(***************************************************************************)
EXTENDS TurnLoop, Integers, WellFoundedInduction, FiniteSetTheorems, SequenceTheorems, TLAPS

---------------------------------------------------------------------------
(* Induction *)

\* The first of some numbers: a fact about every number is proved by looking at the first
\* one without it.
LEMMA Least ==
  ASSUME NEW S \in SUBSET Nat, S # {}
  PROVE  \E n \in S : \A m \in S : n <= m
<1> DEFINE R == {p \in Nat \X Nat : p[1] < p[2]}
           below(y, x) == <<y, x>> \in R
<1>1. IsWellFoundedOn(R, Nat)
  BY NatLessThanWellFounded DEF OpToRel
<1>2. \A x, y \in Nat : y < x => below(y, x)
  OBVIOUS
<1>3. \E x \in S : \A y \in S : ~ below(y, x)
  <2> HIDE DEF R
  <2> QED BY <1>1, WFMin
<1> HIDE DEF R, below
<1> QED BY <1>2, <1>3

UpTo(S, i) == {j \in S : j <= i}

\* Among finitely many numbers one has k of them up to it.
LEMMA Rank ==
  ASSUME NEW N \in Nat, NEW S \in SUBSET (1..N), NEW k \in Nat, 1 <= k, k <= Cardinality(S)
  PROVE  \E i \in S : Cardinality(UpTo(S, i)) = k
<1> DEFINE upto(n) == {j \in S : j <= n}
           large == {n \in 0..N : k <= Cardinality(upto(n))}
<1>i. IsFiniteSet(1..N) /\ S \subseteq 1..N
  BY FS_Interval
<1>1. IsFiniteSet(S)
  BY <1>i, FS_Subset
<1>2. \A n \in Nat : IsFiniteSet(upto(n)) /\ Cardinality(upto(n)) \in Nat
  BY <1>1, FS_Subset, FS_CardinalityType
<1>0. \A j \in S : j \in Nat /\ 1 <= j /\ j <= N
  OBVIOUS
<1>3. upto(N) = S
  BY <1>0
<1>4. PICK n \in large : \A m \in large : n <= m
  <2>1. large \in SUBSET Nat /\ N \in large
    BY <1>3
  <2> HIDE DEF large
  <2> QED BY <2>1, Least
<1>n. n \in 0..N /\ k <= Cardinality(upto(n)) /\ \A m \in 0..N : k <= Cardinality(upto(m)) => n <= m
  BY <1>4
<1>5. upto(0) = {}
  <2>1. \A j \in S : ~ (j <= 0)
    BY <1>0
  <2> QED BY <2>1
<1>6. n # 0
  BY <1>n, <1>5, FS_EmptySet
<1>m. n - 1 \in 0..N /\ n - 1 \in Nat /\ ~ (n <= n - 1)
  BY <1>n, <1>6
<1>7. Cardinality(upto(n - 1)) < k
  <2>1. ~ (k <= Cardinality(upto(n - 1)))
    <3> HIDE DEF upto
    <3> QED BY <1>n, <1>m
  <2> HIDE DEF upto
  <2> QED BY <1>2, <1>m, <2>1
<1>j. \A j \in S : (j <= n <=> j <= n - 1 \/ j = n) /\ ~ (n <= n - 1)
  BY <1>0, <1>n
<1> HIDE DEF large
<1>8. CASE n \in S
  <2>1. upto(n) = upto(n - 1) \cup {n} /\ n \notin upto(n - 1)
    BY <1>j, <1>8
  <2>2. Cardinality(upto(n)) = Cardinality(upto(n - 1)) + 1
    <3> HIDE DEF upto
    <3> QED BY <1>2, <1>m, <2>1, FS_AddElement
  <2>3. Cardinality(upto(n)) = k
    <3> HIDE DEF upto
    <3> QED BY <1>2, <1>m, <1>n, <1>7, <2>2
  <2> QED BY <1>8, <2>3 DEF UpTo
<1>9. CASE n \notin S
  <2>1. upto(n) = upto(n - 1)
    BY <1>j, <1>9
  <2> HIDE DEF upto
  <2> QED BY <1>2, <1>m, <1>n, <1>7, <2>1
<1> QED BY <1>8, <1>9

\* The sequences that FlattenSeq builds one after the other.
LEMMA FlattenPart ==
  ASSUME NEW seqs, NEW f, NEW g, NEW n,
         f = [i \in 1..n |-> IF i = 1 THEN seqs[i] ELSE g[i - 1] \o seqs[i]]
  PROVE  \A i \in 1..n : f[i] = IF i = 1 THEN seqs[i] ELSE g[i - 1] \o seqs[i]
OBVIOUS

LEMMA FlattenParts ==
  ASSUME NEW seqs, NEW N \in Nat \ {0}
  PROVE  \E f : f = [i \in 1..N |-> IF i = 1 THEN seqs[i] ELSE f[i - 1] \o seqs[i]]
<1> DEFINE Built(m) == \E f : f = [i \in 1..m |-> IF i = 1 THEN seqs[i] ELSE f[i - 1] \o seqs[i]]
           bad == {m \in 1..N : ~ Built(m)}
<1>1. SUFFICES ASSUME bad # {} PROVE FALSE
  <2>1. N \in 1..N /\ N \notin bad
    <3> HIDE DEF Built
    <3> QED BY <1>1
  <2> QED BY <2>1
<1>2. PICK m \in bad : \A k \in bad : m <= k
  <2>1. bad \in SUBSET Nat
    <3> HIDE DEF Built
    <3> QED OBVIOUS
  <2> HIDE DEF bad
  <2> QED BY <1>1, <2>1, Least
<1>3. CASE m = 1
  <2>1. [i \in 1..1 |-> seqs[1]] =
          [i \in 1..1 |-> IF i = 1 THEN seqs[i] ELSE [j \in 1..1 |-> seqs[1]][i - 1] \o seqs[i]]
    OBVIOUS
  <2> QED BY <1>2, <1>3, <2>1
<1>4. CASE m # 1
  <2>1. Built(m - 1)
    <3>1. m \in 1..N /\ m - 1 \in 1..N /\ ~ (m <= m - 1)
      BY <1>2, <1>4
    <3> HIDE DEF Built
    <3> QED BY <1>2, <3>1
  <2>2. PICK f : f = [i \in 1..(m - 1) |-> IF i = 1 THEN seqs[i] ELSE f[i - 1] \o seqs[i]]
    BY <2>1
  <2>p. \A i \in 1..(m - 1) : f[i] = IF i = 1 THEN seqs[i] ELSE f[i - 1] \o seqs[i]
    BY <2>2, FlattenPart
  <2> DEFINE g == [i \in 1..m |-> IF i = m THEN f[m - 1] \o seqs[m] ELSE f[i]]
  <2>3. ASSUME NEW i \in 1..m PROVE g[i] = IF i = 1 THEN seqs[i] ELSE g[i - 1] \o seqs[i]
    <3>1. CASE i = m
      <4>1. m - 1 \in 1..m /\ m - 1 # m
        BY <1>2, <1>4
      <4>2. g[m] = f[m - 1] \o seqs[m] /\ g[m - 1] = f[m - 1]
        <5>1. m \in 1..m
          BY <1>2
        <5> HIDE DEF Built
        <5> QED BY <4>1, <5>1
      <4> QED BY <1>4, <3>1, <4>2
    <3>2. CASE i # m
      <4>1. /\ i \in 1..(m - 1) /\ g[i] = f[i]
            /\ i # 1 => i - 1 \in 1..m /\ i - 1 # m
        BY <1>2, <3>2
      <4>2. f[i] = IF i = 1 THEN seqs[i] ELSE f[i - 1] \o seqs[i]
        BY <2>p, <4>1
      <4>3. i # 1 => g[i - 1] = f[i - 1]
        BY <4>1
      <4> HIDE DEF g
      <4> QED BY <4>1, <4>2, <4>3
    <3> QED BY <3>1, <3>2
  <2>4. g = [i \in 1..m |-> IF i = 1 THEN seqs[i] ELSE g[i - 1] \o seqs[i]]
    <3>1. DOMAIN g = 1..m /\ g = [i \in 1..m |-> g[i]]
      OBVIOUS
    <3> HIDE DEF g
    <3> QED BY <2>3, <3>1
  <2> QED BY <1>2, <2>4
<1> QED BY <1>3, <1>4

LEMMA FlattenRun ==
  ASSUME NEW seqs, NEW n \in Nat \ {0}, Len(seqs) = n
  PROVE  \E f : /\ Seqs!FlattenSeq(seqs) = f[n]
                /\ \A i \in 1..n : f[i] = IF i = 1 THEN seqs[i] ELSE f[i - 1] \o seqs[i]
<1> DEFINE Built(g) == g = [i \in 1..n |-> IF i = 1 THEN seqs[i] ELSE g[i - 1] \o seqs[i]]
           f == CHOOSE g : Built(g)
<1>1. \E g : Built(g)
  BY FlattenParts
<1>2. Seqs!FlattenSeq(seqs) = f[n]
  BY DEF Seqs!FlattenSeq
<1>3. Built(f)
  <2> HIDE DEF Built
  <2> QED BY <1>1
<1> HIDE DEF f
<1>4. \A i \in 1..n : f[i] = IF i = 1 THEN seqs[i] ELSE f[i - 1] \o seqs[i]
  BY <1>3, FlattenPart
<1> QED BY <1>2, <1>4

Has(s, x) == \E i \in 1..Len(s) : s[i] = x

\* The sets that D assigns to the members of s have nothing in common.
Spread(s, D) == \A i, j \in 1..Len(s) : i # j => D[s[i]] \cap D[s[j]] = {}
Apart(s, t, D) == \A x, y : Has(s, x) /\ Has(t, y) => D[x] \cap D[y] = {}

LEMMA Joined ==
  ASSUME NEW X, NEW s \in Seq(X), NEW t \in Seq(X), NEW D,
         Spread(s, D), Spread(t, D), Apart(s, t, D)
  PROVE  /\ s \o t \in Seq(X) /\ Spread(s \o t, D)
         /\ \A x : Has(s \o t, x) <=> Has(s, x) \/ Has(t, x)
<1> DEFINE all == s \o t
<1>1. /\ all \in Seq(X) /\ Len(all) = Len(s) + Len(t) /\ Len(s) \in Nat /\ Len(t) \in Nat
      /\ \A i \in 1..Len(s) : all[i] = s[i] /\ i \in 1..Len(all)
      /\ \A i \in 1..Len(t) : all[Len(s) + i] = t[i] /\ Len(s) + i \in 1..Len(all)
  OBVIOUS
<1>2. ASSUME NEW k \in 1..Len(all)
      PROVE  \/ k \in 1..Len(s)
             \/ k > Len(s) /\ k - Len(s) \in 1..Len(t) /\ all[k] = t[k - Len(s)]
  BY <1>1
<1> HIDE DEF all
<1>3. ASSUME NEW x PROVE Has(all, x) <=> Has(s, x) \/ Has(t, x)
  BY <1>1, <1>2 DEF Has
<1>4. ASSUME NEW k \in 1..Len(all), NEW l \in 1..Len(all), k < l
      PROVE  D[all[k]] \cap D[all[l]] = {}
  <2>1. CASE l \in 1..Len(s)
    <3>1. k \in 1..Len(s) /\ k # l /\ all[k] = s[k] /\ all[l] = s[l]
      BY <1>1, <1>4, <2>1
    <3> QED BY <2>1, <3>1 DEF Spread
  <2>2. CASE k \in 1..Len(s) /\ l \notin 1..Len(s)
    <3>1. Has(s, all[k]) /\ Has(t, all[l])
      BY <1>1, <1>2, <2>2 DEF Has
    <3> QED BY <3>1 DEF Apart
  <2>3. CASE k \notin 1..Len(s) /\ l \notin 1..Len(s)
    <3>1. /\ k - Len(s) \in 1..Len(t) /\ all[k] = t[k - Len(s)]
          /\ l - Len(s) \in 1..Len(t) /\ all[l] = t[l - Len(s)]
          /\ k - Len(s) # l - Len(s)
      BY <1>1, <1>2, <1>4, <2>3
    <3> QED BY <3>1 DEF Spread
  <2> QED BY <1>1, <1>4, <2>1, <2>2, <2>3
<1>5. Spread(all, D)
  <2>1. \A k, l \in 1..Len(all) : k # l => k < l \/ l < k
    BY <1>1
  <2>2. \A k, l \in 1..Len(all) : D[all[k]] \cap D[all[l]] = D[all[l]] \cap D[all[k]]
    OBVIOUS
  <2> QED BY <1>4, <2>1, <2>2 DEF Spread
<1> QED BY <1>1, <1>3, <1>5 DEF all

\* What FlattenSeq returns: a sequence of the members of the parts, spread if the parts are
\* and have nothing in common.
LEMMA Flattened ==
  ASSUME NEW X, NEW seqs \in Seq(Seq(X)), NEW D,
         \A a \in 1..Len(seqs) : Spread(seqs[a], D),
         \A a, b \in 1..Len(seqs) : a # b => Apart(seqs[a], seqs[b], D)
  PROVE  /\ Seqs!FlattenSeq(seqs) \in Seq(X) /\ Spread(Seqs!FlattenSeq(seqs), D)
         /\ \A x : Has(Seqs!FlattenSeq(seqs), x) <=> \E a \in 1..Len(seqs) : Has(seqs[a], x)
<1>0. PICK N \in Nat : N = Len(seqs)
  OBVIOUS
<1>s. \A a \in 1..N : seqs[a] \in Seq(X)
  BY <1>0
<1>1. CASE N = 0
  <2>0. seqs = << >>
    BY <1>0, <1>1, EmptySeq
  <2>1. Seqs!FlattenSeq(seqs) = << >>
    BY <2>0 DEF Seqs!FlattenSeq
  <2> QED BY <1>0, <1>1, <2>1 DEF Spread, Has
<1>2. CASE N # 0
  <2>1. PICK f : /\ Seqs!FlattenSeq(seqs) = f[N]
                 /\ \A i \in 1..N : f[i] = IF i = 1 THEN seqs[i] ELSE f[i - 1] \o seqs[i]
    <3>1. N \in Nat \ {0} /\ Len(seqs) = N
      BY <1>0, <1>2
    <3> QED BY <3>1, FlattenRun
  <2> DEFINE Good(n) == /\ f[n] \in Seq(X) /\ Spread(f[n], D)
                        /\ \A x : Has(f[n], x) <=> \E a \in 1..n : Has(seqs[a], x)
             bad == {n \in 1..N : ~ Good(n)}
  <2>2. SUFFICES ASSUME bad # {} PROVE FALSE
    <3>1. N \in 1..N
      BY <1>2
    <3>2. Good(N)
      <4> HIDE DEF Good
      <4> QED BY <2>2, <3>1
    <3> QED BY <1>0, <2>1, <3>2
  <2>4. PICK n \in bad : \A m \in bad : n <= m
    <3>1. bad \in SUBSET Nat
      <4> HIDE DEF Good
      <4> QED OBVIOUS
    <3> HIDE DEF bad
    <3> QED BY <2>2, <3>1, Least
  <2>5. n \in 1..N /\ ~ Good(n)
    BY <2>4
  <2>6. CASE n = 1
    <3>1. f[1] = seqs[1] /\ seqs[1] \in Seq(X) /\ Spread(seqs[1], D)
      BY <1>0, <1>s, <2>1, <2>5, <2>6
    <3>2. \A x : Has(f[1], x) <=> \E a \in 1..1 : Has(seqs[a], x)
      BY <3>1
    <3> QED BY <2>5, <2>6, <3>1, <3>2
  <2>7. CASE n # 1
    <3>1. n - 1 \in 1..N /\ ~ (n <= n - 1) /\ n - 1 \in Nat
      BY <2>5, <2>7
    <3>2. Good(n - 1)
      <4> HIDE DEF Good
      <4> QED BY <2>4, <3>1
    <3>3. f[n] = f[n - 1] \o seqs[n] /\ seqs[n] \in Seq(X) /\ Spread(seqs[n], D)
      BY <1>0, <1>s, <2>1, <2>5, <2>7
    <3>4. \A a \in 1..(n - 1) : a \in 1..Len(seqs) /\ n \in 1..Len(seqs) /\ a # n
      BY <1>0, <2>5
    <3>5. \A a \in 1..(n - 1) : Apart(seqs[a], seqs[n], D)
      BY <3>4
    <3>6. Apart(f[n - 1], seqs[n], D)
      BY <3>2, <3>5 DEF Apart
    <3>7. /\ f[n] \in Seq(X) /\ Spread(f[n], D)
          /\ \A x : Has(f[n], x) <=> Has(f[n - 1], x) \/ Has(seqs[n], x)
      BY <3>2, <3>3, <3>6, Joined
    <3>8. \A a : a \in 1..n <=> a \in 1..(n - 1) \/ a = n
      BY <2>5, <3>1
    <3>9. \A x : Has(f[n], x) <=> \E a \in 1..n : Has(seqs[a], x)
      BY <3>2, <3>7, <3>8
    <3> QED BY <2>5, <3>7, <3>9
  <2> QED BY <2>6, <2>7
<1> QED BY <1>1, <1>2

---------------------------------------------------------------------------
(* The context window *)

TlMessageRec ==
  [role : {"user", "assistant", "tool"}, call : Nat, tool : TlTool \cup {""}, size : Nat]

\* What can be sent: it starts with a question.
Opens(s) == s \in Seq(TlMessageRec) /\ 1 <= Len(s) /\ s[1].role = "user"

\* A conversation: the call of a result comes before it, if need be before a later question.
Whole(s) ==
  /\ Opens(s)
  /\ \A i \in 1..Len(s) : s[i].role = "tool" => \E j \in 1..i : s[j] = Reply(s[i].call)

\* What is left when the beginning of s is cut off.
EndOf(w, s) == Len(w) <= Len(s) /\ \A i \in 1..Len(w) : w[i] = s[Len(s) - Len(w) + i]

LEMMA Users ==
  ASSUME NEW s \in Seq(TlMessageRec)
  PROVE  /\ UserAt(s) \subseteq 1..Len(s) /\ IsFiniteSet(UserAt(s))
         /\ Cardinality(UserAt(s)) \in Nat
<1>1. UserAt(s) \in SUBSET (1..Len(s))
  BY DEF UserAt
<1>2. IsFiniteSet(1..Len(s))
  BY FS_Interval
<1> QED BY <1>1, <1>2, FS_Subset, FS_CardinalityType

\* A conversation may be cut before one of its questions.
LEMMA CutOpens ==
  ASSUME NEW s, Opens(s), NEW u \in UserAt(s)
  PROVE  /\ Opens(SubSeq(s, u, Len(s)))
         /\ EndOf(SubSeq(s, u, Len(s)), s)
         /\ Len(SubSeq(s, u, Len(s))) = Len(s) - u + 1
         /\ Cardinality(UserAt(SubSeq(s, u, Len(s)))) = Cardinality({v \in UserAt(s) : u <= v})
<1> DEFINE w == SubSeq(s, u, Len(s))
           late == {v \in UserAt(s) : u <= v}
<1>0. s \in Seq(TlMessageRec) /\ u \in 1..Len(s) /\ s[u].role = "user" /\ Len(s) \in Nat
  BY DEF Opens, UserAt
<1>1. /\ w \in Seq(TlMessageRec) /\ Len(w) = Len(s) - u + 1
      /\ \A i \in 1..Len(w) : w[i] = s[u + i - 1]
  BY <1>0
<1> HIDE DEF w
<1>2. EndOf(w, s)
  <2>1. \A i \in 1..Len(w) : Len(s) - Len(w) + i = u + i - 1
    BY <1>0, <1>1
  <2> QED BY <1>0, <1>1, <2>1 DEF EndOf
<1>3. w[1].role = "user" /\ 1 <= Len(w)
  BY <1>0, <1>1
<1>4. Opens(w)
  BY <1>1, <1>3 DEF Opens
<1>5. Cardinality(UserAt(w)) = Cardinality(late)
  <2> DEFINE shift == [i \in UserAt(w) |-> u + i - 1]
  <2>1. \A i \in UserAt(w) : i \in 1..Len(w) /\ u + i - 1 \in late
    BY <1>0, <1>1 DEF UserAt
  <2>2. \A v \in late : v - u + 1 \in UserAt(w) /\ u + (v - u + 1) - 1 = v
    <3>1. \A v \in late : v \in 1..Len(s) /\ s[v].role = "user" /\ u <= v
      BY DEF UserAt
    <3> HIDE DEF late
    <3>2. ASSUME NEW v \in late
          PROVE  v - u + 1 \in 1..Len(w) /\ w[v - u + 1] = s[v] /\ u + (v - u + 1) - 1 = v
      <4>1. v \in 1..Len(s) /\ u <= v
        BY <3>1
      <4>2. v - u + 1 \in 1..Len(w) /\ u + (v - u + 1) - 1 = v
        BY <1>0, <1>1, <4>1
      <4> QED BY <1>1, <4>2
    <3>3. \A i \in 1..Len(w) : w[i].role = "user" => i \in UserAt(w)
      BY <1>1 DEF UserAt
    <3> QED BY <3>1, <3>2, <3>3
  <2>3. \A i, j \in UserAt(w) : u + i - 1 = u + j - 1 => i = j
    BY <1>0, <2>1
  <2> HIDE DEF late
  <2>4. shift \in Bijection(UserAt(w), late)
    <3>1. shift \in [UserAt(w) -> late]
      BY <2>1
    <3>2. \A i, j \in UserAt(w) : shift[i] = shift[j] => i = j
      BY <2>3
    <3>3. \A v \in late : \E i \in UserAt(w) : shift[i] = v
      BY <2>2
    <3> HIDE DEF shift
    <3> QED BY <3>1, <3>2, <3>3 DEF Bijection, Injection, Surjection, IsInjective
  <2>5. ExistsBijection(UserAt(w), late)
    BY <2>4 DEF ExistsBijection
  <2> QED BY <1>1, <2>5, Users, FS_Bijection
<1> QED BY <1>1, <1>2, <1>4, <1>5 DEF w

LEMMA FirstAsks ==
  ASSUME NEW s, Opens(s)
  PROVE  s \in Seq(TlMessageRec) /\ Len(s) \in Nat /\ 1 \in UserAt(s) /\ Cardinality(UserAt(s)) >= 1
<1>1. s \in Seq(TlMessageRec) /\ Len(s) \in Nat /\ 1 \in UserAt(s)
  BY DEF Opens, UserAt
<1>2. Cardinality(UserAt(s)) # 0 /\ Cardinality(UserAt(s)) \in Nat
  BY <1>1, Users, FS_EmptySet
<1> QED BY <1>1, <1>2

LEMMA RecentOpens ==
  ASSUME NEW s, Opens(s)
  PROVE  /\ Opens(Recent(s)) /\ EndOf(Recent(s), s) /\ Len(Recent(s)) <= Len(s)
         /\ Cardinality(UserAt(Recent(s))) \in 1..TlKeep
<1> DEFINE S == UserAt(s)
           late(u) == {v \in S : u <= v}
           upto(u) == {v \in S : v <= u}
<1>0. /\ s \in Seq(TlMessageRec) /\ Len(s) \in Nat /\ Cardinality(S) >= 1 /\ IsFiniteSet(S)
      /\ S \subseteq 1..Len(s) /\ Cardinality(S) \in Nat /\ TlKeep \in Nat /\ TlKeep >= 1
  BY FirstAsks, Users, TlAssumption
<1>1. CASE Cardinality(S) <= TlKeep
  <2>1. Recent(s) = s /\ EndOf(s, s)
    BY <1>0, <1>1 DEF Recent, EndOf
  <2> QED BY <1>0, <1>1, <2>1
<1>2. CASE ~ (Cardinality(S) <= TlKeep)
  <2> DEFINE k == Cardinality(S) - TlKeep + 1
             u == CHOOSE u \in S : Cardinality(late(u)) = TlKeep
  <2>1. k \in Nat /\ 1 <= k /\ k <= Cardinality(S)
    BY <1>0, <1>2
  <2>2. PICK i \in S : Cardinality(upto(i)) = k
    <3>1. S \in SUBSET (1..Len(s))
      BY <1>0
    <3>2. \E i \in S : Cardinality(UpTo(S, i)) = k
      <4> HIDE DEF k, S
      <4>1. Len(s) \in Nat /\ S \in SUBSET (1..Len(s))
        BY <1>0, <3>1
      <4>2. k \in Nat /\ 1 <= k /\ k <= Cardinality(S)
        BY <2>1
      <4> QED BY <4>1, <4>2, Rank
    <3> QED BY <3>2 DEF UpTo
  <2>3. Cardinality(late(i)) = TlKeep
    <3>1. \A v \in S : v \in Nat
      BY <1>0
    <3>2. upto(i) \cup late(i) = S /\ upto(i) \cap late(i) = {i}
      <4> HIDE DEF S
      <4> QED BY <2>2, <3>1
    <3>3. upto(i) \in SUBSET S /\ late(i) \in SUBSET S
      OBVIOUS
    <3> HIDE DEF upto, late, S, k
    <3>4. IsFiniteSet(upto(i)) /\ IsFiniteSet(late(i)) /\ Cardinality(late(i)) \in Nat
      BY <1>0, <3>3, FS_Subset, FS_CardinalityType
    <3>5. Cardinality(S) = Cardinality(upto(i)) + Cardinality(late(i)) - Cardinality({i})
      BY <3>2, <3>4, FS_Union
    <3>6. Cardinality({i}) = 1
      BY FS_Singleton
    <3> QED BY <1>0, <2>2, <3>4, <3>5, <3>6 DEF k
  <2>4. u \in S /\ Cardinality(late(u)) = TlKeep
    <3> HIDE DEF late, S
    <3> QED BY <2>2, <2>3
  <2>5. Recent(s) = SubSeq(s, u, Len(s))
    <3>1. \A x \in S : late(x) = {v \in UserAt(s) : v >= x}
      BY <1>0
    <3>2. u = CHOOSE x \in S : Cardinality({v \in UserAt(s) : v >= x}) = TlKeep
      BY <3>1
    <3> HIDE DEF u, late
    <3> QED BY <1>2, <3>2 DEF Recent
  <2> HIDE DEF u
  <2>6. /\ Opens(Recent(s)) /\ EndOf(Recent(s), s) /\ Len(Recent(s)) = Len(s) - u + 1
        /\ Cardinality(UserAt(Recent(s))) = TlKeep
    BY <2>4, <2>5, CutOpens
  <2>7. u \in 1..Len(s)
    BY <1>0, <2>4
  <2> QED BY <1>0, <2>6, <2>7
<1> QED BY <1>1, <1>2

LEMMA DropOpens ==
  ASSUME NEW s, Opens(s), Cardinality(UserAt(s)) > 1
  PROVE  /\ Opens(DropOldest(s)) /\ EndOf(DropOldest(s), s) /\ Len(DropOldest(s)) < Len(s)
         /\ Cardinality(UserAt(DropOldest(s))) = Cardinality(UserAt(s)) - 1
<1> DEFINE S == UserAt(s)
           ends == {j \in 2..(Len(s) + 1) :
                      \/ j = Len(s) + 1
                      \/ s[1].role = "user" /\ s[j].role = "user"
                      \/ s[1].role = "assistant" /\ s[j].role # "tool"
                      \/ s[1].role = "tool"}
           asks == {j \in 2..(Len(s) + 1) : j = Len(s) + 1 \/ s[j].role = "user"}
           e == CHOOSE j \in ends : \A k \in ends : j <= k
<1>0. /\ s \in Seq(TlMessageRec) /\ Len(s) \in Nat /\ 1 \in S /\ IsFiniteSet(S)
      /\ S \subseteq 1..Len(s) /\ Cardinality(S) \in Nat /\ s[1].role = "user"
  BY FirstAsks, Users DEF Opens
<1>1. ends = asks
  BY <1>0
<1>s. \A j : j \in S <=> j \in 1..Len(s) /\ s[j].role = "user"
  BY <1>0 DEF UserAt
<1>2. PICK v \in S : v # 1
  <2>1. S # {1}
    BY FS_Singleton
  <2> HIDE DEF S
  <2> QED BY <1>0, <2>1
<1>3. v \in asks /\ v <= Len(s) /\ v \in Nat
  BY <1>0, <1>s, <1>2
<1>4. asks \in SUBSET Nat
  BY <1>0
<1>5. e \in asks /\ \A k \in asks : e <= k
  <2> HIDE DEF ends, asks
  <2>1. \E j \in asks : \A k \in asks : j <= k
    BY <1>3, <1>4, Least
  <2> QED BY <1>1, <2>1
<1>6. DropOldest(s) = SubSeq(s, e, Len(s))
  <2>1. ~ (Len(s) <= 1)
    BY <1>0, <1>2, <1>3
  <2> QED BY <2>1 DEF DropOldest
<1> HIDE DEF e, ends
<1>7. e \in S /\ e >= 2
  <2>1. e <= Len(s)
    BY <1>0, <1>3, <1>4, <1>5
  <2> QED BY <1>0, <1>5, <1>s, <2>1
<1>8. {w \in S : e <= w} = S \ {1}
  <2>1. ASSUME NEW w \in S, w # 1 PROVE e <= w
    <3>1. w \in asks
      BY <1>0, <1>s, <2>1
    <3> HIDE DEF asks
    <3> QED BY <1>5, <3>1
  <2>2. ~ (e <= 1)
    BY <1>0, <1>7
  <2> HIDE DEF S
  <2> QED BY <2>1, <2>2
<1>9. Cardinality(S \ {1}) = Cardinality(S) - 1
  BY <1>0, FS_RemoveElement
<1>10. /\ Opens(DropOldest(s)) /\ EndOf(DropOldest(s), s) /\ Len(DropOldest(s)) = Len(s) - e + 1
       /\ Cardinality(UserAt(DropOldest(s))) = Cardinality(S \ {1})
  BY <1>6, <1>7, <1>8, CutOpens
<1> QED BY <1>0, <1>7, <1>9, <1>10

\* The end of an end.
LEMMA EndOfEnd ==
  ASSUME NEW s \in Seq(TlMessageRec), NEW w \in Seq(TlMessageRec), NEW v \in Seq(TlMessageRec),
         EndOf(w, s), EndOf(v, w)
  PROVE  EndOf(v, s)
<1>1. Len(s) \in Nat /\ Len(w) \in Nat /\ Len(v) \in Nat /\ Len(v) <= Len(w) /\ Len(w) <= Len(s)
  BY DEF EndOf
<1>2. ASSUME NEW i \in 1..Len(v) PROVE v[i] = s[Len(s) - Len(v) + i]
  <2>1. /\ Len(w) - Len(v) + i \in 1..Len(w)
        /\ Len(s) - Len(w) + (Len(w) - Len(v) + i) = Len(s) - Len(v) + i
    BY <1>1
  <2>2. v[i] = w[Len(w) - Len(v) + i]
    BY DEF EndOf
  <2>3. w[Len(w) - Len(v) + i] = s[Len(s) - Len(w) + (Len(w) - Len(v) + i)]
    BY <2>1 DEF EndOf
  <2> QED BY <2>1, <2>2, <2>3
<1> QED BY <1>1, <1>2 DEF EndOf

\* The exchanges are dropped one after the other.
LEMMA RestPart ==
  ASSUME NEW s, NEW f, NEW g, NEW n,
         f = [i \in 0..n |-> IF i = 0 THEN Recent(s) ELSE DropOldest(g[i - 1])]
  PROVE  \A i \in 0..n : f[i] = IF i = 0 THEN Recent(s) ELSE DropOldest(g[i - 1])
OBVIOUS

LEMMA RestParts ==
  ASSUME NEW s, NEW N \in Nat
  PROVE  \E f : f = [i \in 0..N |-> IF i = 0 THEN Recent(s) ELSE DropOldest(f[i - 1])]
<1> DEFINE Built(m) == \E f : f = [i \in 0..m |-> IF i = 0 THEN Recent(s) ELSE DropOldest(f[i - 1])]
           bad == {m \in 0..N : ~ Built(m)}
<1>1. SUFFICES ASSUME bad # {} PROVE FALSE
  <2>1. N \in 0..N /\ N \notin bad
    <3> HIDE DEF Built
    <3> QED BY <1>1
  <2> QED BY <2>1
<1>2. PICK m \in bad : \A k \in bad : m <= k
  <2>1. bad \in SUBSET Nat
    <3> HIDE DEF Built
    <3> QED OBVIOUS
  <2> HIDE DEF bad
  <2> QED BY <1>1, <2>1, Least
<1>3. CASE m = 0
  <2>1. [i \in 0..0 |-> Recent(s)] =
          [i \in 0..0 |-> IF i = 0 THEN Recent(s)
                          ELSE DropOldest([j \in 0..0 |-> Recent(s)][i - 1])]
    OBVIOUS
  <2> QED BY <1>2, <1>3, <2>1
<1>4. CASE m # 0
  <2>1. Built(m - 1)
    <3>1. m \in 0..N /\ m - 1 \in 0..N /\ ~ (m <= m - 1)
      BY <1>2, <1>4
    <3> HIDE DEF Built
    <3> QED BY <1>2, <3>1
  <2>2. PICK f : f = [i \in 0..(m - 1) |-> IF i = 0 THEN Recent(s) ELSE DropOldest(f[i - 1])]
    BY <2>1
  <2>p. \A i \in 0..(m - 1) : f[i] = IF i = 0 THEN Recent(s) ELSE DropOldest(f[i - 1])
    BY <2>2, RestPart
  <2> DEFINE g == [i \in 0..m |-> IF i = m THEN DropOldest(f[m - 1]) ELSE f[i]]
  <2>m. m \in 0..m /\ m - 1 \in 0..m /\ m - 1 # m
    BY <1>2, <1>4
  <2>3. ASSUME NEW i \in 0..m PROVE g[i] = IF i = 0 THEN Recent(s) ELSE DropOldest(g[i - 1])
    <3>1. CASE i = m
      <4>1. g[m] = DropOldest(f[m - 1]) /\ g[m - 1] = f[m - 1]
        BY <2>m
      <4> HIDE DEF g
      <4> QED BY <1>4, <3>1, <4>1
    <3>2. CASE i # m
      <4>1. /\ i \in 0..(m - 1)
            /\ i # 0 => i - 1 \in 0..m /\ i - 1 # m
        BY <1>2, <3>2
      <4>2. f[i] = IF i = 0 THEN Recent(s) ELSE DropOldest(f[i - 1])
        BY <2>p, <4>1
      <4>3. g[i] = f[i] /\ (i # 0 => g[i - 1] = f[i - 1])
        BY <3>2, <4>1
      <4> HIDE DEF g
      <4> QED BY <4>2, <4>3
    <3> QED BY <3>1, <3>2
  <2>4. g = [i \in 0..m |-> IF i = 0 THEN Recent(s) ELSE DropOldest(g[i - 1])]
    <3>1. DOMAIN g = 0..m /\ g = [i \in 0..m |-> g[i]]
      OBVIOUS
    <3> HIDE DEF g
    <3> QED BY <2>3, <3>1
  <2> QED BY <1>2, <2>4
<1> QED BY <1>3, <1>4

LEMMA RestsRun ==
  ASSUME NEW s, Len(s) \in Nat
  PROVE  \A i \in 0..Len(s) : Rests(s)[i] = IF i = 0 THEN Recent(s) ELSE DropOldest(Rests(s)[i - 1])
<1> DEFINE Built(g) == g = [i \in 0..Len(s) |-> IF i = 0 THEN Recent(s) ELSE DropOldest(g[i - 1])]
           f == CHOOSE g : Built(g)
<1>1. \E g : Built(g)
  BY RestParts
<1>2. Rests(s) = f
  BY DEF Rests
<1>3. Built(f)
  <2> HIDE DEF Built
  <2> QED BY <1>1
<1> HIDE DEF f
<1>4. \A i \in 0..Len(s) : f[i] = IF i = 0 THEN Recent(s) ELSE DropOldest(f[i - 1])
  BY <1>3, RestPart
<1> QED BY <1>2, <1>4

\* The window is the end of a conversation within the limits, or its last exchange.
LEMMA WindowGood ==
  ASSUME NEW s, Opens(s)
  PROVE  /\ Opens(Window(s)) /\ EndOf(Window(s), s) /\ Cardinality(UserAt(Window(s))) \in 1..TlKeep
         /\ OverLimit(Window(s)) => Cardinality(UserAt(Window(s))) = 1
<1> DEFINE rest == Rests(s)
           Fits(w) == ~ OverLimit(w) \/ Cardinality(UserAt(w)) <= 1
           enough == {n \in 0..Len(s) : Fits(rest[n])}
           Left(n) == /\ Opens(rest[n]) /\ EndOf(rest[n], s) /\ Len(rest[n]) <= Len(s) - n
                      /\ Cardinality(UserAt(rest[n])) \in 1..TlKeep
           Ok(n) == (\A m \in 0..Len(s) : m < n => m \notin enough) => Left(n)
           bad == {n \in 0..Len(s) : ~ Ok(n)}
<1>0. Len(s) \in Nat /\ TlKeep \in Nat
  BY FirstAsks, TlAssumption
<1>r. \A i \in 0..Len(s) : rest[i] = IF i = 0 THEN Recent(s) ELSE DropOldest(rest[i - 1])
  BY <1>0, RestsRun
<1>w. Window(s) = rest[CHOOSE n \in enough : \A k \in enough : n <= k]
  BY DEF Window
<1> HIDE DEF rest
<1>1. \A n \in 0..Len(s) : Ok(n)
  <2>1. SUFFICES ASSUME bad # {} PROVE FALSE
    <3> HIDE DEF Ok
    <3> QED BY <2>1
  <2>2. PICK n \in bad : \A m \in bad : n <= m
    <3>1. bad \in SUBSET Nat
      <4> HIDE DEF Ok
      <4> QED BY <1>0
    <3> HIDE DEF bad
    <3> QED BY <2>1, <3>1, Least
  <2>3. n \in 0..Len(s) /\ ~ Ok(n)
    BY <2>2
  <2>4. n # 0
    <3>1. rest[0] = Recent(s)
      BY <1>0, <1>r
    <3>2. Left(0)
      BY <1>0, <3>1, RecentOpens
    <3> HIDE DEF Left, enough
    <3> QED BY <2>3, <3>2
  <2>5. n - 1 \in 0..Len(s) /\ ~ (n <= n - 1) /\ n - 1 < n
    BY <1>0, <2>3, <2>4
  <2>6. Ok(n - 1)
    <3> HIDE DEF Ok
    <3> QED BY <2>2, <2>5
  <2>7. /\ \A m \in 0..Len(s) : m < n => m \notin enough
        /\ ~ Left(n)
    <3> HIDE DEF Left, enough
    <3> QED BY <2>3
  <2>8. Left(n - 1)
    <3>1. \A m \in 0..Len(s) : m < n - 1 => m < n
      BY <1>0, <2>3
    <3> HIDE DEF Left, enough
    <3> QED BY <2>6, <2>7, <3>1
  <2>9. ~ Fits(rest[n - 1])
    <3> HIDE DEF Fits
    <3> QED BY <2>5, <2>7
  <2>10. Cardinality(UserAt(rest[n - 1])) > 1
    BY <1>0, <2>8, <2>9
  <2>11. rest[n] = DropOldest(rest[n - 1])
    BY <1>r, <2>3, <2>4
  <2>12. /\ Opens(rest[n]) /\ EndOf(rest[n], rest[n - 1]) /\ Len(rest[n]) < Len(rest[n - 1])
         /\ Cardinality(UserAt(rest[n])) = Cardinality(UserAt(rest[n - 1])) - 1
    BY <2>8, <2>10, <2>11, DropOpens
  <2>13. Len(rest[n]) \in Nat /\ Len(rest[n - 1]) \in Nat
    BY <2>8, <2>12, FirstAsks
  <2>e. EndOf(rest[n], s)
    <3>1. s \in Seq(TlMessageRec) /\ rest[n] \in Seq(TlMessageRec) /\ rest[n - 1] \in Seq(TlMessageRec)
      BY <2>8, <2>12 DEF Opens
    <3> QED BY <2>8, <2>12, <3>1, EndOfEnd
  <2>14. Left(n)
    BY <1>0, <2>3, <2>8, <2>10, <2>12, <2>13, <2>e
  <2> QED BY <2>7, <2>14
<1>2. enough # {}
  <2>1. SUFFICES ASSUME enough = {} PROVE FALSE
    OBVIOUS
  <2>2. Left(Len(s))
    <3>1. Len(s) \in 0..Len(s)
      BY <1>0
    <3> HIDE DEF Left, enough
    <3> QED BY <1>1, <2>1, <3>1
  <2>3. Len(rest[Len(s)]) \in Nat /\ 1 <= Len(rest[Len(s)])
    BY <2>2, FirstAsks DEF Opens
  <2> QED BY <1>0, <2>2, <2>3
<1> DEFINE e == CHOOSE n \in enough : \A k \in enough : n <= k
<1>3. e \in enough /\ \A k \in enough : e <= k
  <2>1. enough \in SUBSET Nat
    <3> HIDE DEF Fits
    <3> QED BY <1>0
  <2> HIDE DEF enough
  <2>2. \E n \in enough : \A k \in enough : n <= k
    BY <1>2, <2>1, Least
  <2> QED BY <2>2
<1> HIDE DEF e
<1>4. e \in 0..Len(s) /\ Fits(rest[e])
  <2> HIDE DEF Fits
  <2> QED BY <1>3
<1>5. Left(e)
  <2>1. \A m \in 0..Len(s) : m < e => ~ (e <= m)
    BY <1>0, <1>4
  <2> HIDE DEF Left, Fits, enough
  <2> QED BY <1>1, <1>3, <1>4, <2>1
<1>6. Window(s) = rest[e]
  BY <1>w DEF e
<1> QED BY <1>0, <1>4, <1>5, <1>6

---------------------------------------------------------------------------
(* The calls of a reply *)

\* A sequence of which only the members at I are kept.
Kept(s, I) == [i \in 1..Len(s) |-> IF i \in I THEN <<s[i]>> ELSE << >>]

LEMMA Picked ==
  ASSUME NEW X, NEW s \in Seq(X), NEW D, Spread(s, D), NEW I
  PROVE  /\ Seqs!FlattenSeq(Kept(s, I)) \in Seq(X) /\ Spread(Seqs!FlattenSeq(Kept(s, I)), D)
         /\ \A x : Has(Seqs!FlattenSeq(Kept(s, I)), x)
                     <=> \E i \in 1..Len(s) : i \in I /\ s[i] = x
<1> DEFINE parts == Kept(s, I)
<1>s. /\ DOMAIN parts = 1..Len(s) /\ parts \in Seq(Seq(X))
      /\ \A i \in 1..Len(s) : parts[i] = IF i \in I THEN <<s[i]>> ELSE << >>
  BY DEF Kept
<1> HIDE DEF parts
<1>0. Len(s) \in Nat /\ Len(parts) = Len(s)
  BY <1>s
<1>1. ASSUME NEW i \in 1..Len(s), NEW x
      PROVE  Has(parts[i], x) <=> i \in I /\ s[i] = x
  <2>1. CASE i \in I
    <3>1. parts[i] = <<s[i]>>
      BY <1>s, <2>1
    <3> QED BY <2>1, <3>1 DEF Has
  <2>2. CASE i \notin I
    <3>1. parts[i] = << >>
      BY <1>s, <2>2
    <3> QED BY <2>2, <3>1 DEF Has
  <2> QED BY <2>1, <2>2
<1>2. \A i \in 1..Len(s) : Spread(parts[i], D)
  <2>1. ASSUME NEW i \in 1..Len(s) PROVE \A k, l \in 1..Len(parts[i]) : k = l
    <3>1. CASE i \in I
      <4>1. parts[i] = <<s[i]>>
        BY <1>s, <3>1
      <4> QED BY <4>1
    <3>2. CASE i \notin I
      <4>1. parts[i] = << >>
        BY <1>s, <3>2
      <4> QED BY <4>1
    <3> QED BY <3>1, <3>2
  <2> QED BY <2>1 DEF Spread
<1>3. \A i, j \in 1..Len(s) : i # j => Apart(parts[i], parts[j], D)
  <2>1. SUFFICES ASSUME NEW i \in 1..Len(s), NEW j \in 1..Len(s), i # j,
                        NEW x, NEW y, Has(parts[i], x), Has(parts[j], y)
                 PROVE  D[x] \cap D[y] = {}
    BY DEF Apart
  <2>2. s[i] = x /\ s[j] = y
    BY <1>1, <2>1
  <2> QED BY <2>1, <2>2 DEF Spread
<1>4. /\ Seqs!FlattenSeq(parts) \in Seq(X) /\ Spread(Seqs!FlattenSeq(parts), D)
      /\ \A x : Has(Seqs!FlattenSeq(parts), x) <=> \E a \in 1..Len(parts) : Has(parts[a], x)
  BY <1>s, <1>0, <1>2, <1>3, Flattened
<1> QED BY <1>0, <1>1, <1>4 DEF parts

\* A finite set in some order.
LEMMA Ordered ==
  ASSUME NEW S, IsFiniteSet(S)
  PROVE  /\ Seqs!SetToSeq(S) \in Seq(S)
         /\ \A x : Has(Seqs!SetToSeq(S), x) <=> x \in S
         /\ \A i, j \in 1..Len(Seqs!SetToSeq(S)) :
              i # j => Seqs!SetToSeq(S)[i] # Seqs!SetToSeq(S)[j]
<1> DEFINE n == Cardinality(S)
           f == Seqs!SetToSeq(S)
<1>0. n \in Nat /\ ExistsBijection(1..n, S) /\ IsFiniteSet(1..n) /\ Cardinality(1..n) = n
  BY FS_CardinalityType, FS_Interval
<1>1. f \in [1..n -> S] /\ IsInjective(f)
  <2>1. \E g \in [1..n -> S] : IsInjective(g)
    BY <1>0 DEF ExistsBijection, Bijection, Injection
  <2>2. \E g \in [1..n -> S] : Seqs!IsInjective(g)
    BY <2>1 DEF IsInjective, Seqs!IsInjective
  <2>3. f = CHOOSE g \in [1..n -> S] : Seqs!IsInjective(g)
    <3>1. Seqs!Cardinality(S) = Cardinality(S)
      BY DEF Seqs!Cardinality, Cardinality
    <3> QED BY <3>1 DEF Seqs!SetToSeq
  <2> HIDE DEF n, f
  <2>4. f \in [1..n -> S] /\ Seqs!IsInjective(f)
    BY <2>2, <2>3
  <2> QED BY <2>4 DEF IsInjective, Seqs!IsInjective
<1>2. f \in Surjection(1..n, S)
  <2>1. f \in Injection(1..n, S)
    BY <1>1 DEF Injection
  <2> HIDE DEF f, n
  <2>2. Cardinality(1..n) = Cardinality(S)
    BY <1>0 DEF n
  <2> QED BY <2>1, <2>2, FS_Injection
<1> HIDE DEF f
<1>3. f \in Seq(S) /\ Len(f) = n
  BY <1>0, <1>1
<1>4. \A x : Has(f, x) <=> x \in S
  BY <1>1, <1>2, <1>3 DEF Surjection, Has
<1>5. \A i, j \in 1..Len(f) : i # j => f[i] # f[j]
  BY <1>1, <1>3 DEF IsInjective
<1> QED BY <1>3, <1>4, <1>5 DEF f

TaskRec == [agent : Analyst, what : SUBSET Nat]
CallRec == [tool : TlTool, tasks : Seq(TaskRec), back : BOOLEAN]

\* What a task and a call ask for, as functions.
TaskOf == [t \in TaskRec |-> {<<t.agent, o>> : o \in t.what}]
CallOf == [c \in CallRec |-> TasksOf(c)]

Demands(tasks, x) == \E t : Has(tasks, t) /\ x \in TaskOf[t]
Objectives(tasks, a) == {o \in Nat : Demands(tasks, <<a, o>>)}

\* No task is asked for twice.
SoundTasks(tasks) ==
  /\ tasks \in Seq(TaskRec) /\ Spread(tasks, TaskOf)
  /\ \A i \in 1..Len(tasks) : IsFiniteSet(tasks[i].what)

\* What one agent is asked fits into one task, if two objectives do.
SmallTasks(tasks) ==
  \A a \in Analyst : /\ IsFiniteSet(Objectives(tasks, a))
                     /\ TlRoom >= 2 => Cardinality(Objectives(tasks, a)) <= TlRoom

LEMMA TaskAsks ==
  ASSUME NEW t \in TaskRec
  PROVE  \A a, o : <<a, o>> \in TaskOf[t] <=> a = t.agent /\ o \in t.what
<1>1. TaskOf[t] = {<<t.agent, o>> : o \in t.what}
  BY DEF TaskOf
<1> QED BY <1>1

LEMMA AsksPair ==
  ASSUME NEW tasks \in Seq(TaskRec), NEW x, Demands(tasks, x)
  PROVE  x \in Analyst \X Nat
<1>1. PICK i \in 1..Len(tasks) : x \in TaskOf[tasks[i]]
  BY DEF Demands, Has
<1>2. tasks[i] \in TaskRec
  OBVIOUS
<1>3. TaskOf[tasks[i]] = {<<tasks[i].agent, o>> : o \in tasks[i].what}
  BY <1>2 DEF TaskOf
<1> QED BY <1>1, <1>2, <1>3 DEF TaskRec

LEMMA AllFit ==
  ASSUME NEW W \in SUBSET Nat, IsFiniteSet(W), Cardinality(W) <= TlRoom
  PROVE  Fitting(W) = W
<1>1. ASSUME NEW o \in W PROVE Cardinality({p \in W : p < o}) < TlRoom
  <2>1. {p \in W : p < o} \in SUBSET (W \ {o})
    OBVIOUS
  <2>2. /\ IsFiniteSet(W \ {o}) /\ Cardinality(W \ {o}) = Cardinality(W) - 1
        /\ Cardinality(W) \in Nat
    BY FS_RemoveElement, FS_CardinalityType
  <2>3. /\ Cardinality({p \in W : p < o}) <= Cardinality(W \ {o})
        /\ Cardinality({p \in W : p < o}) \in Nat
    BY <2>1, <2>2, FS_Subset, FS_CardinalityType
  <2> QED BY <2>2, <2>3, TlAssumption
<1> QED BY <1>1 DEF Fitting

\* Two numbers do not have the same rank.
LEMMA RankOnce ==
  ASSUME NEW S \in SUBSET Nat, IsFiniteSet(S), NEW i \in S, NEW j \in S,
         Cardinality(UpTo(S, i)) = Cardinality(UpTo(S, j))
  PROVE  i = j
<1>1. ASSUME NEW k \in S, NEW l \in S, k < l,
             Cardinality(UpTo(S, k)) = Cardinality(UpTo(S, l))
      PROVE  FALSE
  <2>1. UpTo(S, k) \subseteq UpTo(S, l) /\ l \in UpTo(S, l) /\ l \notin UpTo(S, k)
    <3>1. ~ (l <= k) /\ l <= l /\ \A m \in S : m <= k => m <= l
      BY <1>1
    <3> QED BY <3>1 DEF UpTo
  <2>2. IsFiniteSet(UpTo(S, l))
    BY FS_Subset DEF UpTo
  <2> QED BY <1>1, <2>1, <2>2, FS_Subset
<1>2. i < j \/ j < i \/ i = j
  OBVIOUS
<1> QED BY <1>1, <1>2

\* The tasks with an objective, and those without.
LEMMA GoodTasks ==
  ASSUME NEW tasks, SoundTasks(tasks)
  PROVE  LET good == Those(tasks, LAMBDA task : task.what # {}) IN
         /\ SoundTasks(good)
         /\ \A t : Has(good, t) <=> Has(tasks, t) /\ t.what # {}
<1> DEFINE I == {i \in 1..Len(tasks) : tasks[i].what # {}}
           good == Seqs!FlattenSeq(Kept(tasks, I))
<1>0. tasks \in Seq(TaskRec) /\ Spread(tasks, TaskOf) /\ DOMAIN tasks = 1..Len(tasks) /\ Len(tasks) \in Nat
  BY DEF SoundTasks
<1>1. \A i \in 1..Len(tasks) : i \in I <=> tasks[i].what # {}
  OBVIOUS
<1> HIDE DEF I
<1>2. good = Those(tasks, LAMBDA task : task.what # {})
  BY <1>0, <1>1 DEF Those, Kept
<1>3. /\ good \in Seq(TaskRec) /\ Spread(good, TaskOf)
      /\ \A t : Has(good, t) <=> \E i \in 1..Len(tasks) : i \in I /\ tasks[i] = t
  BY <1>0, Picked
<1>4. \A t : Has(good, t) <=> Has(tasks, t) /\ t.what # {}
  BY <1>1, <1>3 DEF Has
<1>5. \A i \in 1..Len(good) : IsFiniteSet(good[i].what)
  BY <1>4 DEF SoundTasks, Has
<1> HIDE DEF good
<1> QED BY <1>2, <1>3, <1>4, <1>5 DEF SoundTasks

LEMMA EmptyTasks ==
  ASSUME NEW tasks, SoundTasks(tasks)
  PROVE  LET rest == Those(tasks, LAMBDA task : task.what = {}) IN
         /\ SoundTasks(rest)
         /\ \A t : Has(rest, t) <=> Has(tasks, t) /\ t.what = {}
<1> DEFINE I == {i \in 1..Len(tasks) : tasks[i].what = {}}
           rest == Seqs!FlattenSeq(Kept(tasks, I))
<1>0. tasks \in Seq(TaskRec) /\ Spread(tasks, TaskOf) /\ DOMAIN tasks = 1..Len(tasks) /\ Len(tasks) \in Nat
  BY DEF SoundTasks
<1>1. \A i \in 1..Len(tasks) : i \in I <=> tasks[i].what = {}
  OBVIOUS
<1> HIDE DEF I
<1>2. rest = Those(tasks, LAMBDA task : task.what = {})
  BY <1>0, <1>1 DEF Those, Kept
<1>3. /\ rest \in Seq(TaskRec) /\ Spread(rest, TaskOf)
      /\ \A t : Has(rest, t) <=> \E i \in 1..Len(tasks) : i \in I /\ tasks[i] = t
  BY <1>0, Picked
<1>4. \A t : Has(rest, t) <=> Has(tasks, t) /\ t.what = {}
  BY <1>1, <1>3 DEF Has
<1>5. \A i \in 1..Len(rest) : IsFiniteSet(rest[i].what)
  BY <1>4 DEF SoundTasks, Has
<1> HIDE DEF rest
<1> QED BY <1>2, <1>3, <1>4, <1>5 DEF SoundTasks

\* The tasks of an agent become one that asks for the same, as far as it fits.
LEMMA MergedTasks ==
  ASSUME NEW tasks, SoundTasks(tasks), SmallTasks(tasks)
  PROVE  /\ SoundTasks(Merge(tasks)) /\ \A x : Demands(Merge(tasks), x) => Demands(tasks, x)
         /\ TlRoom >= 2 => \A x : Demands(tasks, x) => Demands(Merge(tasks), x)
<1> DEFINE good == Those(tasks, LAMBDA task : task.what # {})
           rest == Those(tasks, LAMBDA task : task.what = {})
           first == {i \in DOMAIN good : \A j \in 1..(i - 1) : good[j].agent # good[i].agent}
           index(k) == CHOOSE i \in first : Cardinality({j \in first : j <= i}) = k
           united(i) == UNION {good[j].what : j \in {j \in DOMAIN good : good[j].agent = good[i].agent}}
           merged == [k \in 1..Cardinality(first) |-> Task(good[index(k)].agent, Fitting(united(index(k))))]
<1>0. /\ SoundTasks(good) /\ \A t : Has(good, t) <=> Has(tasks, t) /\ t.what # {}
      /\ SoundTasks(rest) /\ \A t : Has(rest, t) <=> Has(tasks, t) /\ t.what = {}
  BY GoodTasks, EmptyTasks
<1>1. Merge(tasks) = merged \o rest
  BY DEF Merge
<1> HIDE DEF good, rest
<1>g. /\ good \in Seq(TaskRec) /\ DOMAIN good = 1..Len(good) /\ Len(good) \in Nat
      /\ \A i \in 1..Len(good) : good[i] \in TaskRec
  BY <1>0 DEF SoundTasks
<1>2. /\ first \subseteq 1..Len(good) /\ IsFiniteSet(first) /\ Cardinality(first) \in Nat
      /\ first \in SUBSET Nat
  <2>1. first \in SUBSET (1..Len(good)) /\ first \in SUBSET Nat
    BY <1>g
  <2>2. IsFiniteSet(1..Len(good))
    BY <1>g, FS_Interval
  <2> HIDE DEF first
  <2> QED BY <2>1, <2>2, FS_Subset, FS_CardinalityType
<1>3. \A i, j \in first : i # j => good[i].agent # good[j].agent
  <2>1. ASSUME NEW i \in first, NEW j \in first, i < j PROVE good[i].agent # good[j].agent
    BY <1>2, <2>1
  <2>2. \A i, j \in first : i # j => i < j \/ j < i
    BY <1>2
  <2> QED BY <2>1, <2>2
<1>4. ASSUME NEW j \in 1..Len(good) PROVE \E i \in first : good[i].agent = good[j].agent
  <2> DEFINE same == {i \in 1..Len(good) : good[i].agent = good[j].agent}
  <2>1. PICK i \in same : \A k \in same : i <= k
    <3>1. same \in SUBSET Nat /\ same # {}
      BY <1>4
    <3> HIDE DEF same
    <3> QED BY <3>1, Least
  <2>2. \A k \in 1..(i - 1) : good[k].agent # good[i].agent
    <3>1. \A k \in 1..(i - 1) : k \in 1..Len(good) /\ ~ (i <= k)
      BY <1>g, <2>1
    <3> QED BY <2>1, <3>1
  <2> QED BY <1>g, <2>1, <2>2
<1> HIDE DEF first
<1>5. ASSUME NEW k \in 1..Cardinality(first)
      PROVE  index(k) \in first /\ Cardinality(UpTo(first, index(k))) = k
  <2>1. \E i \in first : Cardinality(UpTo(first, i)) = k
    <3>1. k \in Nat /\ 1 <= k /\ k <= Cardinality(first) /\ first \in SUBSET (1..Len(good))
      BY <1>2
    <3> QED BY <1>g, <3>1, Rank
  <2> QED BY <2>1 DEF UpTo
<1>6. ASSUME NEW i \in first PROVE \E k \in 1..Cardinality(first) : index(k) = i
  <2>k. PICK k : k = Cardinality(UpTo(first, i))
    OBVIOUS
  <2>1. UpTo(first, i) \in SUBSET first /\ i \in UpTo(first, i)
    BY <1>2 DEF UpTo
  <2>2. k \in Nat /\ k <= Cardinality(first) /\ k # 0
    BY <1>2, <2>1, <2>k, FS_Subset, FS_CardinalityType, FS_EmptySet
  <2>3. k \in 1..Cardinality(first)
    BY <1>2, <2>2
  <2>4. index(k) \in first /\ Cardinality(UpTo(first, index(k))) = k
    BY <1>5, <2>3
  <2> HIDE DEF index
  <2>5. index(k) = i
    BY <1>2, <2>4, <2>k, RankOnce
  <2> QED BY <2>3, <2>5
<1>7. ASSUME NEW i \in 1..Len(good) PROVE united(i) = Objectives(tasks, good[i].agent)
  <2>1. ASSUME NEW o
        PROVE  o \in united(i) <=> \E j \in 1..Len(good) : good[j].agent = good[i].agent /\ o \in good[j].what
    BY <1>g
  <2> HIDE DEF united
  <2>2. ASSUME NEW o \in united(i) PROVE o \in Objectives(tasks, good[i].agent)
    <3>1. PICK j \in 1..Len(good) : good[j].agent = good[i].agent /\ o \in good[j].what
      BY <2>1
    <3>2. Has(good, good[j]) /\ good[j] \in TaskRec
      BY <1>g DEF Has
    <3>3. <<good[i].agent, o>> \in TaskOf[good[j]] /\ o \in Nat
      BY <3>1, <3>2, TaskAsks DEF TaskRec
    <3> QED BY <1>0, <3>2, <3>3 DEF Objectives, Demands
  <2>3. ASSUME NEW o \in Objectives(tasks, good[i].agent) PROVE o \in united(i)
    <3>1. PICK t : Has(tasks, t) /\ <<good[i].agent, o>> \in TaskOf[t]
      BY DEF Objectives, Demands
    <3>2. t \in TaskRec
      BY <3>1 DEF Has, SoundTasks
    <3>3. t.agent = good[i].agent /\ o \in t.what
      BY <3>1, <3>2, TaskAsks
    <3>4. Has(good, t)
      BY <1>0, <3>1, <3>3
    <3> QED BY <2>1, <3>3, <3>4 DEF Has
  <2> QED BY <2>2, <2>3
<1>8. ASSUME NEW k \in 1..Cardinality(first)
      PROVE  /\ merged[k] \in TaskRec /\ merged[k].agent = good[index(k)].agent
             /\ merged[k].what \subseteq Objectives(tasks, merged[k].agent)
             /\ TlRoom >= 2 => merged[k].what = Objectives(tasks, merged[k].agent)
             /\ IsFiniteSet(merged[k].what)
  <2> DEFINE i == index(k)
             a == good[i].agent
  <2>1. i \in 1..Len(good) /\ a \in Analyst
    BY <1>2, <1>5, <1>g DEF TaskRec
  <2>2. merged[k] = Task(a, Fitting(united(i)))
    OBVIOUS
  <2>3. united(i) = Objectives(tasks, a)
    BY <1>7, <2>1
  <2> HIDE DEF i, a, united, merged
  <2>4. /\ Objectives(tasks, a) \in SUBSET Nat /\ IsFiniteSet(Objectives(tasks, a))
        /\ TlRoom >= 2 => Cardinality(Objectives(tasks, a)) <= TlRoom
    BY <2>1 DEF SmallTasks, Objectives
  <2> DEFINE what == Fitting(Objectives(tasks, a))
  <2>5. TlRoom >= 2 => what = Objectives(tasks, a)
    BY <2>4, AllFit
  <2>f. what \in SUBSET Objectives(tasks, a) /\ IsFiniteSet(what)
    <3>1. what \in SUBSET Objectives(tasks, a)
      BY DEF Fitting
    <3> HIDE DEF what
    <3> QED BY <2>4, <3>1, FS_Subset
  <2>6. merged[k] = [agent |-> a, what |-> what]
    BY <2>2, <2>3 DEF Task
  <2> HIDE DEF what
  <2>7. merged[k].agent = a /\ merged[k].what = what
    BY <2>6
  <2>8. merged[k] \in TaskRec
    BY <2>1, <2>4, <2>6, <2>f DEF TaskRec
  <2> HIDE DEF index
  <2> QED BY <2>5, <2>7, <2>8, <2>f DEF a, i
<1>9. merged \in Seq(TaskRec) /\ Len(merged) = Cardinality(first)
  <2>1. DOMAIN merged = 1..Cardinality(first) /\ merged = [k \in 1..Cardinality(first) |-> merged[k]]
    OBVIOUS
  <2> HIDE DEF merged, index
  <2>2. merged \in [1..Cardinality(first) -> TaskRec]
    BY <1>8, <2>1
  <2> QED BY <1>2, <2>2
<1>m. Cardinality(first) \in Nat
  BY <1>2
<1> HIDE DEF merged, united
<1>10. Spread(merged, TaskOf)
  <2>1. SUFFICES ASSUME NEW k \in 1..Cardinality(first), NEW l \in 1..Cardinality(first), k # l
                 PROVE  TaskOf[merged[k]] \cap TaskOf[merged[l]] = {}
    BY <1>9 DEF Spread
  <2>2. index(k) \in first /\ index(l) \in first /\ index(k) # index(l)
    <3> HIDE DEF index
    <3> QED BY <1>5, <2>1
  <2> HIDE DEF index
  <2>3. merged[k].agent # merged[l].agent /\ merged[k] \in TaskRec /\ merged[l] \in TaskRec
    BY <1>3, <1>8, <2>2
  <2>4. ASSUME NEW x \in TaskOf[merged[k]], x \in TaskOf[merged[l]] PROVE FALSE
    <3>1. /\ TaskOf[merged[k]] = {<<merged[k].agent, o>> : o \in merged[k].what}
          /\ TaskOf[merged[l]] = {<<merged[l].agent, o>> : o \in merged[l].what}
      BY <2>3 DEF TaskOf
    <3> QED BY <2>3, <2>4, <3>1
  <2> QED BY <2>4
<1>11. ASSUME NEW x
       PROVE  /\ Demands(merged, x) => Demands(tasks, x)
              /\ TlRoom >= 2 /\ Demands(tasks, x) => Demands(merged, x)
  <2>1. ASSUME Demands(merged, x) PROVE Demands(tasks, x)
    <3>1. PICK k \in 1..Cardinality(first) : x \in TaskOf[merged[k]]
      BY <1>9, <2>1 DEF Demands, Has
    <3>2. PICK a, o : x = <<a, o>>
      BY <1>9, <2>1, AsksPair
    <3>3. a = merged[k].agent /\ o \in merged[k].what
      BY <1>8, <3>1, <3>2, TaskAsks
    <3>4. o \in Objectives(tasks, a)
      BY <1>8, <3>3
    <3> QED BY <3>2, <3>4 DEF Objectives
  <2>2. ASSUME TlRoom >= 2, Demands(tasks, x) PROVE Demands(merged, x)
    <3>1. PICK t : Has(tasks, t) /\ x \in TaskOf[t]
      BY <2>2 DEF Demands
    <3>2. t \in TaskRec
      BY <3>1 DEF Has, SoundTasks
    <3>3. PICK a \in Analyst, o \in Nat : x = <<a, o>>
      BY <2>2, AsksPair DEF SoundTasks
    <3>4. t.agent = a /\ o \in t.what
      BY <3>1, <3>2, <3>3, TaskAsks
    <3>5. PICK j \in 1..Len(good) : good[j] = t
      BY <1>0, <3>1, <3>4 DEF Has
    <3>6. PICK i \in first : good[i].agent = a
      BY <1>4, <3>4, <3>5
    <3>7. PICK k \in 1..Cardinality(first) : index(k) = i
      BY <1>6
    <3> HIDE DEF index
    <3>8. merged[k] \in TaskRec /\ merged[k].agent = a /\ merged[k].what = Objectives(tasks, a)
      BY <1>8, <2>2, <3>6, <3>7, SMTT(30)
    <3>9. o \in Objectives(tasks, a)
      BY <2>2, <3>3 DEF Objectives
    <3>10. x \in TaskOf[merged[k]]
      BY <3>3, <3>8, <3>9, TaskAsks
    <3> QED BY <1>9, <3>10 DEF Demands, Has
  <2> QED BY <2>1, <2>2
<1>12. \A t : Has(rest, t) => TaskOf[t] = {}
  <2>1. ASSUME NEW t, Has(rest, t) PROVE TaskOf[t] = {}
    <3>1. t \in TaskRec /\ t.what = {}
      <4>1. t.what = {}
        BY <1>0, <2>1
      <4>2. rest \in Seq(TaskRec)
        BY <1>0 DEF SoundTasks
      <4>3. t \in TaskRec
        BY <2>1, <4>2 DEF Has
      <4> QED BY <4>1, <4>3
    <3>2. TaskOf[t] = {<<t.agent, o>> : o \in t.what}
      BY <3>1 DEF TaskOf
    <3> QED BY <3>1, <3>2
  <2> QED BY <2>1
<1>13. /\ merged \o rest \in Seq(TaskRec) /\ Spread(merged \o rest, TaskOf)
       /\ \A t : Has(merged \o rest, t) <=> Has(merged, t) \/ Has(rest, t)
  <2>1. Apart(merged, rest, TaskOf)
    BY <1>12 DEF Apart
  <2>2. rest \in Seq(TaskRec) /\ Spread(rest, TaskOf)
    BY <1>0 DEF SoundTasks
  <2> QED BY <1>9, <1>10, <2>1, <2>2, Joined
<1>14. \A t : Has(merged \o rest, t) => IsFiniteSet(t.what)
  <2>1. \A t : Has(merged, t) => IsFiniteSet(t.what)
    BY <1>8, <1>9 DEF Has
  <2>2. \A t : Has(rest, t) => IsFiniteSet(t.what)
    BY <1>0 DEF Has, SoundTasks
  <2> QED BY <1>13, <2>1, <2>2
<1>15. SoundTasks(merged \o rest)
  <2>1. \A i \in 1..Len(merged \o rest) : Has(merged \o rest, (merged \o rest)[i])
    BY DEF Has
  <2> QED BY <1>13, <1>14, <2>1 DEF SoundTasks
<1>16. \A x : /\ Demands(merged \o rest, x) => Demands(tasks, x)
              /\ TlRoom >= 2 /\ Demands(tasks, x) => Demands(merged \o rest, x)
  BY <1>11, <1>12, <1>13 DEF Demands
<1> QED BY <1>1, <1>15, <1>16 DEF merged, united

\* A call with the number of tasks that its tool takes.
Proper(call) ==
  /\ call \in CallRec /\ SoundTasks(call.tasks)
  /\ call.tool = "subagent" => Len(call.tasks) = 1
  /\ call.tool \notin Delegation => Len(call.tasks) = 0

\* No task is asked for by two calls.
SoundCalls(calls) ==
  /\ calls \in Seq(CallRec) /\ Spread(calls, CallOf)
  /\ \A i \in 1..Len(calls) : Proper(calls[i])

LEMMA CallAsks ==
  ASSUME NEW call \in CallRec
  PROVE  \A x : x \in CallOf[call] <=> Demands(call.tasks, x)
<1> DEFINE tasks == call.tasks
<1>1. tasks \in Seq(TaskRec) /\ DOMAIN tasks = 1..Len(tasks)
  BY DEF CallRec
<1>2. CallOf[call] = TasksOf(call)
  BY DEF CallOf
<1>3. ASSUME NEW i \in 1..Len(tasks)
      PROVE  TaskOf[tasks[i]] = {<<tasks[i].agent, o>> : o \in tasks[i].what}
  BY <1>1 DEF TaskOf
<1>4. ASSUME NEW x
      PROVE  x \in TasksOf(call) <=> \E i \in 1..Len(tasks) : x \in TaskOf[tasks[i]]
  BY <1>1, <1>3 DEF TasksOf
<1> HIDE DEF tasks
<1>5. \A x : x \in CallOf[call] <=> Demands(tasks, x)
  BY <1>2, <1>4 DEF Demands, Has
<1> QED BY <1>5 DEF tasks

LEMMA InCalls ==
  ASSUME NEW calls \in Seq(CallRec)
  PROVE  \A x : x \in TasksIn(calls) <=> \E c : Has(calls, c) /\ x \in CallOf[c]
<1>1. ASSUME NEW i \in 1..Len(calls) PROVE CallOf[calls[i]] = TasksOf(calls[i])
  BY DEF CallOf
<1>2. DOMAIN calls = 1..Len(calls)
  OBVIOUS
<1> QED BY <1>1, <1>2 DEF TasksIn, Has

\* _canonicalize_delegation_arguments changes the order of the tasks only.
LEMMA CanonicalCalls ==
  ASSUME NEW calls, SoundCalls(calls),
         \A i \in 1..Len(calls) : calls[i].tool = "specialists" => SmallTasks(calls[i].tasks)
  PROVE  /\ SoundCalls(Canonical(calls)) /\ Len(Canonical(calls)) = Len(calls)
         /\ \A i \in 1..Len(calls) : /\ Canonical(calls)[i].tool = calls[i].tool
                                     /\ CallOf[Canonical(calls)[i]] \subseteq CallOf[calls[i]]
                                     /\ TlRoom >= 2
                                          => CallOf[Canonical(calls)[i]] = CallOf[calls[i]]
<1> DEFINE can == Canonical(calls)
<1>0. calls \in Seq(CallRec) /\ DOMAIN calls = 1..Len(calls) /\ Len(calls) \in Nat
  BY DEF SoundCalls
<1>1. /\ DOMAIN can = 1..Len(calls) /\ can = [i \in 1..Len(calls) |-> can[i]]
      /\ \A i \in 1..Len(calls) :
           can[i] = IF calls[i].tool = "specialists"
                    THEN [calls[i] EXCEPT !.tasks = Merge(@)] ELSE calls[i]
  BY <1>0 DEF Canonical
<1> HIDE DEF can
<1>2. ASSUME NEW i \in 1..Len(calls)
      PROVE  /\ Proper(can[i]) /\ can[i].tool = calls[i].tool
             /\ CallOf[can[i]] \subseteq CallOf[calls[i]]
             /\ TlRoom >= 2 => CallOf[can[i]] = CallOf[calls[i]]
  <2>1. Proper(calls[i]) /\ calls[i] \in CallRec
    BY DEF SoundCalls, Proper
  <2>2. CASE calls[i].tool # "specialists"
    BY <1>1, <2>1, <2>2
  <2>3. CASE calls[i].tool = "specialists"
    <3>1. SoundTasks(calls[i].tasks) /\ SmallTasks(calls[i].tasks)
      BY <2>1, <2>3 DEF Proper
    <3>2. /\ SoundTasks(Merge(calls[i].tasks))
          /\ \A x : Demands(Merge(calls[i].tasks), x) => Demands(calls[i].tasks, x)
          /\ TlRoom >= 2 => \A x : Demands(calls[i].tasks, x) => Demands(Merge(calls[i].tasks), x)
      BY <3>1, MergedTasks
    <3>3. can[i] = [calls[i] EXCEPT !.tasks = Merge(calls[i].tasks)]
      BY <1>1, <2>3
    <3>4. Merge(calls[i].tasks) \in Seq(TaskRec)
      BY <3>2 DEF SoundTasks
    <3>5. /\ can[i] \in CallRec /\ can[i].tool = "specialists"
          /\ can[i].tasks = Merge(calls[i].tasks)
      BY <2>1, <2>3, <3>3, <3>4 DEF CallRec
    <3>6. Proper(can[i])
      BY <3>2, <3>5 DEF Proper, Delegation
    <3>7. /\ \A x : x \in CallOf[can[i]] => x \in CallOf[calls[i]]
          /\ TlRoom >= 2 => \A x : x \in CallOf[calls[i]] => x \in CallOf[can[i]]
      BY <2>1, <3>2, <3>5, CallAsks
    <3>8. CallOf[can[i]] = TasksOf(can[i]) /\ CallOf[calls[i]] = TasksOf(calls[i])
      BY <2>1, <3>5 DEF CallOf
    <3>9. /\ TasksOf(can[i]) \subseteq TasksOf(calls[i])
          /\ TlRoom >= 2 => TasksOf(can[i]) = TasksOf(calls[i])
      <4>1. TasksOf(can[i]) \subseteq TasksOf(calls[i])
        BY <3>7, <3>8
      <4>2. ASSUME TlRoom >= 2 PROVE TasksOf(calls[i]) \subseteq TasksOf(can[i])
        BY <3>7, <3>8, <4>2
      <4> QED BY <4>1, <4>2
    <3> QED BY <2>3, <3>5, <3>6, <3>8, <3>9
  <2> QED BY <2>2, <2>3
<1>3. can \in Seq(CallRec) /\ Len(can) = Len(calls)
  <2>1. can \in [1..Len(calls) -> CallRec]
    BY <1>1, <1>2 DEF Proper
  <2> QED BY <1>0, <2>1
<1>4. Spread(can, CallOf)
  BY <1>2, <1>3 DEF SoundCalls, Spread
<1> QED BY <1>2, <1>3, <1>4 DEF SoundCalls, can

\* The calls of some tools.
LEMMA ShownCalls ==
  ASSUME NEW calls, SoundCalls(calls), NEW P
  PROVE  LET shown == Those(calls, LAMBDA call : call.tool \in P) IN
         /\ SoundCalls(shown)
         /\ \A c : Has(shown, c) <=> Has(calls, c) /\ c.tool \in P
<1> DEFINE I == {i \in 1..Len(calls) : calls[i].tool \in P}
           shown == Seqs!FlattenSeq(Kept(calls, I))
<1>0. calls \in Seq(CallRec) /\ Spread(calls, CallOf) /\ DOMAIN calls = 1..Len(calls)
  BY DEF SoundCalls
<1>1. \A i \in 1..Len(calls) : i \in I <=> calls[i].tool \in P
  OBVIOUS
<1> HIDE DEF I
<1>2. shown = Those(calls, LAMBDA call : call.tool \in P)
  BY <1>0, <1>1 DEF Those, Kept
<1>3. /\ shown \in Seq(CallRec) /\ Spread(shown, CallOf)
      /\ \A c : Has(shown, c) <=> \E i \in 1..Len(calls) : i \in I /\ calls[i] = c
  BY <1>0, Picked
<1>4. \A c : Has(shown, c) <=> Has(calls, c) /\ c.tool \in P
  BY <1>1, <1>3 DEF Has
<1>5. \A i \in 1..Len(shown) : Proper(shown[i])
  BY <1>4 DEF SoundCalls, Has
<1> HIDE DEF shown
<1> QED BY <1>2, <1>3, <1>4, <1>5 DEF SoundCalls

LEMMA SinglesSound ==
  ASSUME NEW calls, SoundCalls(calls)
  PROVE  /\ SoundCalls(Singles(calls))
         /\ \A c : Has(Singles(calls), c) <=> Has(calls, c) /\ Single(c)
<1> DEFINE I == {i \in 1..Len(calls) : Single(calls[i])}
           singles == Seqs!FlattenSeq(Kept(calls, I))
<1>0. calls \in Seq(CallRec) /\ Spread(calls, CallOf) /\ DOMAIN calls = 1..Len(calls)
  BY DEF SoundCalls
<1>1. \A i \in 1..Len(calls) : i \in I <=> Single(calls[i])
  OBVIOUS
<1> HIDE DEF I
<1>2. singles = Singles(calls)
  BY <1>0, <1>1 DEF Singles, Those, Kept
<1>3. /\ singles \in Seq(CallRec) /\ Spread(singles, CallOf)
      /\ \A c : Has(singles, c) <=> \E i \in 1..Len(calls) : i \in I /\ calls[i] = c
  BY <1>0, Picked
<1>4. \A c : Has(singles, c) <=> Has(calls, c) /\ Single(c)
  BY <1>1, <1>3 DEF Has
<1>5. \A i \in 1..Len(singles) : Proper(singles[i])
  BY <1>4 DEF SoundCalls, Has
<1> HIDE DEF singles
<1> QED BY <1>2, <1>3, <1>4, <1>5 DEF SoundCalls

\* A call with one task.
LEMMA OneTask ==
  ASSUME NEW call, Proper(call), call.tool = "subagent"
  PROVE  /\ call.tasks[1] \in TaskRec /\ IsFiniteSet(call.tasks[1].what)
         /\ \A x : x \in CallOf[call] <=> x \in TaskOf[call.tasks[1]]
<1>1. call \in CallRec /\ Len(call.tasks) = 1 /\ call.tasks \in Seq(TaskRec)
  BY DEF Proper, SoundTasks
<1>2. \A t : Has(call.tasks, t) <=> t = call.tasks[1]
  BY <1>1 DEF Has
<1>3. 1 \in 1..Len(call.tasks)
  BY <1>1
<1> QED BY <1>1, <1>2, <1>3, CallAsks DEF Demands, Proper, SoundTasks

\* The batches ask for what the single delegations ask for.
LEMMA BatchCalls ==
  ASSUME NEW singles, SoundCalls(singles), \A c : Has(singles, c) => c.tool = "subagent"
  PROVE  /\ SoundCalls(Batches(singles))
         /\ \A x : (\E c : Has(Batches(singles), c) /\ x \in CallOf[c])
                     <=> \E c : Has(singles, c) /\ x \in CallOf[c]
<1> DEFINE n == Len(singles)
           N == (n + 2) \div 3
           size(b) == AtMost(n - 3 * (b - 1), 3)
           B == Batches(singles)
           task(l) == singles[l].tasks[1]
           batch(b) == [k \in 1..size(b) |-> task(3 * (b - 1) + k)]
<1>0. n \in Nat /\ N \in Nat
  BY DEF SoundCalls
<1>1. ASSUME NEW b \in 1..N
      PROVE  /\ size(b) \in 1..3
             /\ \A k \in 1..size(b) : 3 * (b - 1) + k \in 1..n
  BY <1>0 DEF AtMost
<1>2. ASSUME NEW l \in 1..n
      PROVE  \E b \in 1..N : \E k \in 1..size(b) : l = 3 * (b - 1) + k
  <2> DEFINE b == (l + 2) \div 3
             k == l - 3 * (b - 1)
  <2>1. b \in 1..N /\ k \in 1..3 /\ l = 3 * (b - 1) + k
    BY <1>0
  <2>2. k <= n - 3 * (b - 1)
    BY <1>0, <2>1
  <2>3. k \in 1..size(b)
    <3> HIDE DEF b, k, n
    <3>1. k <= size(b) /\ size(b) \in Nat
      BY <1>0, <2>1, <2>2 DEF AtMost
    <3> QED BY <2>1, <3>1
  <2> QED BY <2>1, <2>3
<1>3. ASSUME NEW l \in 1..n
      PROVE  /\ Proper(singles[l]) /\ singles[l].tool = "subagent" /\ singles[l] \in CallRec
             /\ task(l) \in TaskRec /\ IsFiniteSet(task(l).what)
             /\ \A x : x \in CallOf[singles[l]] <=> x \in TaskOf[task(l)]
  <2>1. Proper(singles[l]) /\ singles[l].tool = "subagent" /\ singles[l] \in CallRec
    BY DEF SoundCalls, Proper, Has
  <2> QED BY <2>1, OneTask
<1>4. ASSUME NEW l \in 1..n, NEW m \in 1..n, l # m PROVE TaskOf[task(l)] \cap TaskOf[task(m)] = {}
  <2>1. CallOf[singles[l]] \cap CallOf[singles[m]] = {}
    BY <1>4 DEF SoundCalls, Spread
  <2> HIDE DEF task, n
  <2> QED BY <1>3, <2>1
<1>b. ASSUME NEW b \in 1..N
      PROVE  B[b] = [tool |-> "specialists", tasks |-> batch(b), back |-> FALSE]
  BY DEF Batches, TlCall
<1>d. DOMAIN B = 1..N /\ B = [b \in 1..N |-> B[b]]
  BY DEF Batches
<1> HIDE DEF B, task, size, N, n
<1>5. ASSUME NEW b \in 1..N
      PROVE  /\ B[b].tasks = batch(b) /\ B[b].tool = "specialists"
             /\ B[b].tasks \in Seq(TaskRec) /\ Len(B[b].tasks) = size(b)
             /\ \A k \in 1..size(b) : B[b].tasks[k] = task(3 * (b - 1) + k)
  <2>1. ASSUME NEW k \in 1..size(b) PROVE task(3 * (b - 1) + k) \in TaskRec
    <3>1. 3 * (b - 1) + k \in 1..n
      BY <1>1
    <3> QED BY <1>3, <3>1
  <2>2. batch(b) \in [1..size(b) -> TaskRec] /\ size(b) \in Nat
    BY <1>1, <2>1
  <2>3. \A k \in 1..size(b) : batch(b)[k] = task(3 * (b - 1) + k)
    OBVIOUS
  <2> HIDE DEF batch
  <2>4. batch(b) \in Seq(TaskRec) /\ Len(batch(b)) = size(b)
    BY <2>2
  <2>5. PICK tasks : tasks = batch(b)
    OBVIOUS
  <2>6. B[b] = [tool |-> "specialists", tasks |-> tasks, back |-> FALSE]
    BY <1>b, <2>5
  <2>7. B[b].tasks = tasks /\ B[b].tool = "specialists"
    BY <2>6
  <2> QED BY <2>3, <2>4, <2>5, <2>7
<1> HIDE DEF batch
<1>6. ASSUME NEW b \in 1..N PROVE SoundTasks(B[b].tasks)
  <2>1. ASSUME NEW k \in 1..size(b), NEW l \in 1..size(b), k # l
        PROVE  TaskOf[B[b].tasks[k]] \cap TaskOf[B[b].tasks[l]] = {}
    <3> DEFINE p == 3 * (b - 1) + k
               q == 3 * (b - 1) + l
    <3>1. p # q
      BY <1>0, <1>1, <2>1
    <3>2. p \in 1..n /\ q \in 1..n
      BY <1>1
    <3>3. B[b].tasks[k] = task(p) /\ B[b].tasks[l] = task(q)
      BY <1>5
    <3> HIDE DEF p, q
    <3> QED BY <1>4, <3>1, <3>2, <3>3
  <2>2. Spread(B[b].tasks, TaskOf)
    BY <1>5, <2>1 DEF Spread
  <2>3. \A k \in 1..size(b) : IsFiniteSet(B[b].tasks[k].what)
    BY <1>1, <1>3, <1>5
  <2> QED BY <1>5, <2>2, <2>3 DEF SoundTasks
<1>7. ASSUME NEW b \in 1..N PROVE Proper(B[b])
  <2>1. B[b] \in CallRec
    <3>1. PICK tasks \in Seq(TaskRec) : tasks = batch(b)
      BY <1>5
    <3>2. B[b] = [tool |-> "specialists", tasks |-> tasks, back |-> FALSE]
      BY <1>b, <3>1
    <3> QED BY <3>2 DEF CallRec, TlTool
  <2> QED BY <1>5, <1>6, <2>1 DEF Proper, Delegation
<1>8. ASSUME NEW b \in 1..N, NEW x
      PROVE  x \in CallOf[B[b]] <=> \E k \in 1..size(b) : x \in TaskOf[task(3 * (b - 1) + k)]
  <2>1. x \in CallOf[B[b]] <=> Demands(B[b].tasks, x)
    BY <1>7, CallAsks DEF Proper
  <2>2. Demands(B[b].tasks, x) <=> \E k \in 1..size(b) : x \in TaskOf[B[b].tasks[k]]
    BY <1>5 DEF Demands, Has
  <2> QED BY <1>5, <2>1, <2>2
<1>9. B \in Seq(CallRec) /\ Len(B) = N
  <2>1. B \in [1..N -> CallRec]
    BY <1>7, <1>d DEF Proper
  <2> QED BY <1>0, <2>1
<1>10. Spread(B, CallOf)
  <2>1. ASSUME NEW b \in 1..N, NEW c \in 1..N, b # c, NEW x, x \in CallOf[B[b]], x \in CallOf[B[c]]
        PROVE  FALSE
    <3>1. PICK k \in 1..size(b) : x \in TaskOf[task(3 * (b - 1) + k)]
      BY <1>8, <2>1
    <3>2. PICK l \in 1..size(c) : x \in TaskOf[task(3 * (c - 1) + l)]
      BY <1>8, <2>1
    <3>3. k \in 1..3 /\ l \in 1..3
      BY <1>1
    <3>4. 3 * (b - 1) + k # 3 * (c - 1) + l
      BY <1>0, <2>1, <3>3
    <3>5. 3 * (b - 1) + k \in 1..n /\ 3 * (c - 1) + l \in 1..n
      BY <1>1
    <3> QED BY <1>4, <3>1, <3>2, <3>4, <3>5
  <2> QED BY <1>9, <2>1 DEF Spread
<1>11. SoundCalls(B)
  BY <1>7, <1>9, <1>10 DEF SoundCalls
<1>12. ASSUME NEW x
       PROVE  (\E c : Has(B, c) /\ x \in CallOf[c]) <=> \E c : Has(singles, c) /\ x \in CallOf[c]
  <2>1. (\E c : Has(B, c) /\ x \in CallOf[c]) <=> \E b \in 1..N : x \in CallOf[B[b]]
    BY <1>9 DEF Has
  <2>2. (\E c : Has(singles, c) /\ x \in CallOf[c]) <=> \E l \in 1..n : x \in CallOf[singles[l]]
    BY DEF Has, n
  <2>3. ASSUME NEW b \in 1..N, x \in CallOf[B[b]] PROVE \E l \in 1..n : x \in CallOf[singles[l]]
    <3>1. PICK k \in 1..size(b) : x \in TaskOf[task(3 * (b - 1) + k)]
      BY <1>8, <2>3
    <3>2. PICK l \in 1..n : l = 3 * (b - 1) + k
      BY <1>1
    <3> QED BY <1>3, <3>1, <3>2
  <2>4. ASSUME NEW l \in 1..n, x \in CallOf[singles[l]] PROVE \E b \in 1..N : x \in CallOf[B[b]]
    <3>1. PICK b \in 1..N : \E k \in 1..size(b) : l = 3 * (b - 1) + k
      BY <1>2
    <3>2. PICK k \in 1..size(b) : l = 3 * (b - 1) + k
      BY <3>1
    <3>3. x \in TaskOf[task(l)]
      BY <1>3, <2>4
    <3> QED BY <1>8, <3>2, <3>3
  <2> QED BY <2>1, <2>2, <2>3, <2>4
<1> QED BY <1>11, <1>12 DEF B

\* _normalize_specialist_delegations loses no task and asks for none twice.
LEMMA NormalizedCalls ==
  ASSUME NEW calls, SoundCalls(calls)
  PROVE  /\ SoundCalls(Normalized(calls))
         /\ \A x : x \in TasksIn(Normalized(calls)) <=> x \in TasksIn(calls)
<1> DEFINE n == Len(calls)
           S == Singles(calls)
           B == Batches(S)
           Repeats(i) == \E j \in 1..(i - 1) : Single(calls[j])
           parts == [i \in DOMAIN calls |-> IF ~ Single(calls[i]) THEN <<calls[i]>>
                                            ELSE IF Repeats(i) THEN << >> ELSE B]
           all == Seqs!FlattenSeq(parts)
<1>0. calls \in Seq(CallRec) /\ DOMAIN calls = 1..n /\ n \in Nat /\ Spread(calls, CallOf)
  BY DEF SoundCalls
<1>1. CASE ~ Batched(calls)
  BY <1>1 DEF Normalized
<1>2. CASE Batched(calls)
  <2>1. Normalized(calls) = all
    BY <1>2 DEF Normalized
  <2>2. /\ SoundCalls(S) /\ \A c : Has(S, c) <=> Has(calls, c) /\ Single(c)
        /\ SoundCalls(B)
        /\ \A x : (\E c : Has(B, c) /\ x \in CallOf[c]) <=> \E c : Has(S, c) /\ x \in CallOf[c]
    <3>1. SoundCalls(S) /\ \A c : Has(S, c) <=> Has(calls, c) /\ Single(c)
      BY SinglesSound
    <3>2. \A c : Has(S, c) => c.tool = "subagent"
      BY <3>1 DEF Single
    <3> HIDE DEF S
    <3> QED BY <3>1, <3>2, BatchCalls
  <2> HIDE DEF S, B
  <2>3. ASSUME NEW x
        PROVE  (\E c : Has(B, c) /\ x \in CallOf[c])
                 <=> \E i \in 1..n : Single(calls[i]) /\ x \in CallOf[calls[i]]
    <3>1. \A c : Has(calls, c) <=> \E i \in 1..n : calls[i] = c
      BY DEF Has
    <3>2. (\E c : Has(S, c) /\ x \in CallOf[c])
            <=> \E i \in 1..n : Single(calls[i]) /\ x \in CallOf[calls[i]]
      BY <2>2, <3>1
    <3> QED BY <2>2, <3>2
  <2>4. /\ DOMAIN parts = 1..n
        /\ \A i \in 1..n : parts[i] = IF ~ Single(calls[i]) THEN <<calls[i]>>
                                      ELSE IF Repeats(i) THEN << >> ELSE B
    BY <1>0
  <2>5. ASSUME NEW i \in 1..n, NEW c
        PROVE  Has(parts[i], c) <=> \/ ~ Single(calls[i]) /\ c = calls[i]
                                    \/ Single(calls[i]) /\ ~ Repeats(i) /\ Has(B, c)
    <3> HIDE DEF parts, Repeats
    <3>1. CASE ~ Single(calls[i])
      <4>1. parts[i] = <<calls[i]>>
        BY <2>4, <3>1
      <4> QED BY <3>1, <4>1 DEF Has
    <3>2. CASE Single(calls[i]) /\ Repeats(i)
      <4>1. parts[i] = << >>
        BY <2>4, <3>2
      <4> QED BY <3>2, <4>1 DEF Has
    <3>3. CASE Single(calls[i]) /\ ~ Repeats(i)
      <4>1. parts[i] = B
        BY <2>4, <3>3
      <4> QED BY <3>3, <4>1
    <3> QED BY <3>1, <3>2, <3>3
  <2>6. parts \in Seq(Seq(CallRec)) /\ Len(parts) = n
    <3>1. B \in Seq(CallRec) /\ \A i \in 1..n : calls[i] \in CallRec
      BY <1>0, <2>2 DEF SoundCalls
    <3> HIDE DEF Repeats
    <3>2. ASSUME NEW i \in 1..n PROVE parts[i] \in Seq(CallRec)
      <4> HIDE DEF parts
      <4>1. <<calls[i]>> \in Seq(CallRec) /\ << >> \in Seq(CallRec)
        BY <3>1
      <4>2. parts[i] = <<calls[i]>> \/ parts[i] = << >> \/ parts[i] = B
        BY <2>4
      <4> QED BY <3>1, <4>1, <4>2
    <3>3. parts = [i \in 1..n |-> parts[i]]
      BY <2>4
    <3> HIDE DEF parts
    <3> QED BY <1>0, <2>4, <3>2, <3>3
  <2>7. ASSUME NEW i \in 1..n PROVE Spread(parts[i], CallOf)
    <3> HIDE DEF parts, Repeats
    <3>1. CASE ~ Single(calls[i])
      <4>1. parts[i] = <<calls[i]>>
        BY <2>4, <3>1
      <4>2. \A k, l \in 1..Len(parts[i]) : k = l
        BY <4>1
      <4> QED BY <4>2 DEF Spread
    <3>2. CASE Single(calls[i]) /\ Repeats(i)
      <4>1. parts[i] = << >>
        BY <2>4, <3>2
      <4> QED BY <4>1 DEF Spread
    <3>3. CASE Single(calls[i]) /\ ~ Repeats(i)
      <4>1. parts[i] = B
        BY <2>4, <3>3
      <4> QED BY <2>2, <4>1 DEF SoundCalls
    <3> QED BY <3>1, <3>2, <3>3
  <2>8. ASSUME NEW i \in 1..n, NEW j \in 1..n, i # j
        PROVE  Apart(parts[i], parts[j], CallOf)
    <3>1. SUFFICES ASSUME NEW c, NEW d, Has(parts[i], c), Has(parts[j], d), NEW x,
                          x \in CallOf[c], x \in CallOf[d]
                   PROVE  FALSE
      BY DEF Apart
    <3>2. ~ (Single(calls[i]) /\ Single(calls[j]) /\ ~ Repeats(i) /\ ~ Repeats(j))
      <4>1. i \in 1..(j - 1) \/ j \in 1..(i - 1)
        BY <1>0, <2>8
      <4> QED BY <4>1
    <3> HIDE DEF Repeats, parts
    <3>3. PICK k \in 1..n : /\ x \in CallOf[calls[k]]
                            /\ Single(calls[k]) \/ k = i
                            /\ Single(calls[i]) <=> Single(calls[k])
      BY <2>3, <2>5, <3>1
    <3>4. PICK l \in 1..n : /\ x \in CallOf[calls[l]]
                            /\ Single(calls[l]) \/ l = j
                            /\ Single(calls[j]) <=> Single(calls[l])
      BY <2>3, <2>5, <3>1
    <3>5. k = l
      BY <1>0, <3>3, <3>4 DEF Spread
    <3> QED BY <2>5, <2>8, <3>1, <3>2, <3>3, <3>4, <3>5
  <2> HIDE DEF parts
  <2>9. /\ all \in Seq(CallRec) /\ Spread(all, CallOf)
        /\ \A c : Has(all, c) <=> \E i \in 1..n : Has(parts[i], c)
    <3> HIDE DEF n
    <3> QED BY <2>6, <2>7, <2>8, Flattened
  <2> HIDE DEF all
  <2>10. SoundCalls(all)
    <3>1. ASSUME NEW c, Has(all, c) PROVE Proper(c)
      <4>1. PICK i \in 1..n : c = calls[i] \/ Has(B, c)
        BY <2>5, <2>9, <3>1
      <4> QED BY <2>2, <4>1 DEF SoundCalls, Has
    <3>2. \A i \in 1..Len(all) : Has(all, all[i])
      BY DEF Has
    <3> QED BY <2>9, <3>1, <3>2 DEF SoundCalls
  <2>11. ASSUME NEW x PROVE x \in TasksIn(all) <=> x \in TasksIn(calls)
    <3>1. x \in TasksIn(all) <=> \E i \in 1..n : \E c : Has(parts[i], c) /\ x \in CallOf[c]
      BY <2>9, InCalls
    <3>2. x \in TasksIn(calls) <=> \E i \in 1..n : x \in CallOf[calls[i]]
      BY <1>0, InCalls DEF Has
    <3>3. ASSUME NEW i \in 1..n, NEW c, Has(parts[i], c), x \in CallOf[c]
          PROVE  \E k \in 1..n : x \in CallOf[calls[k]]
      BY <2>3, <2>5, <3>3
    <3>4. ASSUME NEW k \in 1..n, x \in CallOf[calls[k]]
          PROVE  \E i \in 1..n : \E c : Has(parts[i], c) /\ x \in CallOf[c]
      <4>1. CASE ~ Single(calls[k])
        BY <2>5, <3>4, <4>1
      <4>2. CASE Single(calls[k])
        <5> DEFINE singles == {i \in 1..n : Single(calls[i])}
        <5>1. PICK i \in singles : \A j \in singles : i <= j
          <6>1. singles \in SUBSET Nat /\ singles # {}
            BY <4>2
          <6> HIDE DEF singles
          <6> QED BY <6>1, Least
        <5>2. ~ Repeats(i)
          <6>1. \A j \in 1..(i - 1) : j \in 1..n /\ ~ (i <= j)
            BY <1>0, <5>1
          <6> QED BY <5>1, <6>1
        <5>3. PICK c : Has(B, c) /\ x \in CallOf[c]
          BY <2>3, <3>4, <4>2
        <5>4. i \in 1..n /\ Single(calls[i])
          BY <5>1
        <5> HIDE DEF Repeats, singles
        <5> QED BY <2>5, <5>2, <5>3, <5>4
      <4> QED BY <4>1, <4>2
    <3> QED BY <3>1, <3>2, <3>3, <3>4
  <2> QED BY <2>1, <2>10, <2>11
<1> QED BY <1>1, <1>2

---------------------------------------------------------------------------
(* What is asked for *)

SmallCalls(calls) == \A i \in 1..Len(calls) : SmallTasks(calls[i].tasks)

\* Two objectives fit into one task.
LEMMA FewTasks ==
  ASSUME NEW tasks,
         \A a \in Analyst : \E o, p \in Nat : Objectives(tasks, a) \subseteq {o, p}
  PROVE  SmallTasks(tasks)
<1>1. SUFFICES ASSUME NEW a \in Analyst
               PROVE  /\ IsFiniteSet(Objectives(tasks, a))
                      /\ TlRoom >= 2 => Cardinality(Objectives(tasks, a)) <= TlRoom
  BY DEF SmallTasks
<1>2. PICK o \in Nat, p \in Nat : Objectives(tasks, a) \subseteq {o, p}
  OBVIOUS
<1>3. IsFiniteSet({o}) /\ Cardinality({o}) = 1
  BY FS_Singleton
<1>4. {o, p} = {o} \cup {p}
  OBVIOUS
<1>5. IsFiniteSet({o, p}) /\ Cardinality({o, p}) <= 2 /\ Cardinality({o, p}) \in Nat
  <2>1. /\ IsFiniteSet({o} \cup {p})
        /\ Cardinality({o} \cup {p}) = IF p \in {o} THEN Cardinality({o}) ELSE Cardinality({o}) + 1
    BY <1>3, FS_AddElement
  <2> QED BY <1>3, <1>4, <2>1
<1>6. /\ IsFiniteSet(Objectives(tasks, a)) /\ Cardinality(Objectives(tasks, a)) \in Nat
      /\ Cardinality(Objectives(tasks, a)) <= Cardinality({o, p})
  BY <1>2, <1>5, FS_Subset, FS_CardinalityType
<1> QED BY <1>5, <1>6, TlAssumption

\* Tasks with the same one objective of different agents.
LEMMA SameTasks ==
  ASSUME NEW order \in Seq(Analyst), NEW o \in Nat,
         \A i, j \in 1..Len(order) : i # j => order[i] # order[j]
  PROVE  LET tasks == [i \in DOMAIN order |-> Task(order[i], {o})] IN
         /\ SoundTasks(tasks) /\ SmallTasks(tasks) /\ Len(tasks) = Len(order)
<1> DEFINE tasks == [i \in DOMAIN order |-> Task(order[i], {o})]
<1>1. /\ DOMAIN order = 1..Len(order) /\ Len(order) \in Nat
      /\ \A i \in 1..Len(order) : order[i] \in Analyst
  OBVIOUS
<1>2. ASSUME NEW i \in 1..Len(order)
      PROVE  /\ tasks[i] \in TaskRec /\ tasks[i].agent = order[i] /\ tasks[i].what = {o}
             /\ TaskOf[tasks[i]] = {<<order[i], o>>}
  <2>1. tasks[i] = [agent |-> order[i], what |-> {o}]
    BY <1>1 DEF Task
  <2> HIDE DEF tasks
  <2>2. tasks[i] \in TaskRec /\ tasks[i].agent = order[i] /\ tasks[i].what = {o}
    BY <1>1, <2>1 DEF TaskRec
  <2>3. TaskOf[tasks[i]] = {<<tasks[i].agent, p>> : p \in tasks[i].what}
    BY <2>2 DEF TaskOf
  <2> QED BY <2>2, <2>3
<1>3. tasks \in Seq(TaskRec) /\ Len(tasks) = Len(order)
  <2>1. tasks = [i \in 1..Len(order) |-> tasks[i]]
    BY <1>1
  <2> HIDE DEF tasks
  <2>2. tasks \in [1..Len(order) -> TaskRec]
    BY <1>2, <2>1
  <2> QED BY <1>1, <2>2
<1> HIDE DEF tasks
<1>4. Spread(tasks, TaskOf)
  <2>1. ASSUME NEW i \in 1..Len(order), NEW j \in 1..Len(order), i # j
        PROVE  TaskOf[tasks[i]] \cap TaskOf[tasks[j]] = {}
    <3>1. TaskOf[tasks[i]] = {<<order[i], o>>} /\ TaskOf[tasks[j]] = {<<order[j], o>>}
      BY <1>2
    <3>2. order[i] # order[j]
      BY <2>1
    <3> QED BY <3>1, <3>2
  <2> QED BY <1>3, <2>1 DEF Spread
<1>5. ASSUME NEW i \in 1..Len(tasks) PROVE IsFiniteSet(tasks[i].what)
  <2>1. tasks[i].what = {o}
    BY <1>2, <1>3
  <2>2. IsFiniteSet({o})
    BY FS_Singleton
  <2> QED BY <2>1, <2>2
<1>6. ASSUME NEW a \in Analyst PROVE Objectives(tasks, a) \subseteq {o, o}
  BY <1>2, <1>3 DEF Objectives, Demands, Has
<1>7. SmallTasks(tasks)
  BY <1>6, FewTasks
<1> QED BY <1>3, <1>4, <1>5, <1>7 DEF SoundTasks, tasks

LEMMA OneTasks ==
  ASSUME NEW a \in Analyst, NEW o \in Nat
  PROVE  SoundTasks(<<Task(a, {o})>>) /\ SmallTasks(<<Task(a, {o})>>) /\ Len(<<Task(a, {o})>>) = 1
<1> DEFINE order == <<a>>
<1>1. /\ order \in Seq(Analyst) /\ Len(order) = 1 /\ order[1] = a
      /\ \A i, j \in 1..Len(order) : i = j
  OBVIOUS
<1>2. [i \in DOMAIN order |-> Task(order[i], {o})] = <<Task(a, {o})>>
  OBVIOUS
<1> HIDE DEF order
<1> QED BY <1>1, <1>2, SameTasks

LEMMA NoTasks == SoundTasks(<< >>) /\ SmallTasks(<< >>) /\ Len(<< >>) = 0
<1>1. SoundTasks(<< >>)
  BY DEF SoundTasks, Spread
<1>2. \A a \in Analyst : Objectives(<< >>, a) \subseteq {0, 0}
  BY DEF Objectives, Demands, Has
<1> QED BY <1>1, <1>2, FewTasks

\* A reply with one call.
LEMMA OneCall ==
  ASSUME NEW tool \in TlTool, NEW tasks, NEW back \in BOOLEAN,
         SoundTasks(tasks), SmallTasks(tasks),
         tool = "subagent" => Len(tasks) = 1, tool \notin Delegation => Len(tasks) = 0
  PROVE  /\ Proper(TlCall(tool, tasks, back)) /\ SoundCalls(<<TlCall(tool, tasks, back)>>)
         /\ SmallCalls(<<TlCall(tool, tasks, back)>>)
<1> DEFINE call == TlCall(tool, tasks, back)
           calls == <<call>>
<1>1. call = [tool |-> tool, tasks |-> tasks, back |-> back]
  BY DEF TlCall
<1> HIDE DEF call
<1>2. tasks \in Seq(TaskRec)
  BY DEF SoundTasks
<1>3. call \in CallRec /\ call.tool = tool /\ call.tasks = tasks
  BY <1>1, <1>2 DEF CallRec
<1>4. Proper(call)
  BY <1>3 DEF Proper
<1>5. /\ calls \in Seq(CallRec) /\ Len(calls) = 1 /\ \A i \in 1..Len(calls) : calls[i] = call
      /\ \A i, j \in 1..Len(calls) : i = j
  BY <1>3
<1> HIDE DEF calls
<1> QED BY <1>3, <1>4, <1>5 DEF SoundCalls, SmallCalls, Spread, call, calls

LEMMA TogetherCall ==
  ASSUME NEW agents
  PROVE  SoundCalls(<<Together(agents)>>) /\ SmallCalls(<<Together(agents)>>)
<1> DEFINE all == <<"profit", "erp">>
           I == {i \in 1..Len(all) : all[i] \in agents}
           D == [a \in Analyst |-> {a}]
           order == Seqs!FlattenSeq(Kept(all, I))
           tasks == [i \in DOMAIN order |-> Task(order[i], {0})]
<1>1. all \in Seq(Analyst) /\ DOMAIN all = 1..Len(all) /\ Spread(all, D)
  BY DEF Analyst, Specialist, Spread
<1>2. order = Those(all, LAMBDA a : a \in agents)
  BY DEF Those, Kept
<1> HIDE DEF I, all
<1>3. order \in Seq(Analyst) /\ Spread(order, D)
  <2> HIDE DEF D
  <2> QED BY <1>1, Picked
<1>4. Together(agents) = TlCall("specialists", tasks, FALSE)
  BY <1>2 DEF Together, all
<1> HIDE DEF order
<1>5. \A i, j \in 1..Len(order) : i # j => order[i] # order[j]
  <2>1. \A i \in 1..Len(order) : order[i] \in Analyst
    BY <1>3
  <2>2. \A i \in 1..Len(order) : D[order[i]] = {order[i]}
    BY <2>1
  <2> HIDE DEF D
  <2> QED BY <1>3, <2>2 DEF Spread
<1>6. SoundTasks(tasks) /\ SmallTasks(tasks)
  BY <1>3, <1>5, SameTasks
<1> HIDE DEF tasks
<1> QED BY <1>4, <1>6, OneCall DEF TlTool, Delegation

\* A call of which Distinct numbers the objectives: three tasks at most, not all for one agent.
RawCall(call) ==
  /\ call \in CallRec /\ Len(call.tasks) \in 0..3
  /\ call.tool = "subagent" => Len(call.tasks) = 1
  /\ call.tool \notin Delegation => Len(call.tasks) = 0
  /\ \A a \in Analyst : \E m \in 1..3 : \A k \in 1..Len(call.tasks) :
       call.tasks[k].agent = a => k # m
RawCalls(calls) == calls \in Seq(CallRec) /\ \A i \in 1..Len(calls) : RawCall(calls[i])

LEMMA DistinctSound ==
  ASSUME NEW calls, RawCalls(calls)
  PROVE  SoundCalls(Distinct(calls)) /\ SmallCalls(Distinct(calls))
<1> DEFINE n == Len(calls)
           D == Distinct(calls)
           raw(i) == calls[i].tasks
           size(i) == Len(raw(i))
           new(i) == [k \in DOMAIN raw(i) |-> IF raw(i)[k].what = {} THEN raw(i)[k]
                                              ELSE Task(raw(i)[k].agent, {3 * i + k})]
<1>0. calls \in Seq(CallRec) /\ n \in Nat /\ DOMAIN calls = 1..n
  BY DEF RawCalls
<1>1. ASSUME NEW i \in 1..n
      PROVE  /\ calls[i] \in CallRec /\ RawCall(calls[i]) /\ raw(i) \in Seq(TaskRec)
             /\ DOMAIN raw(i) = 1..size(i) /\ size(i) \in 0..3 /\ size(i) = Len(raw(i))
  <2>1. calls[i] \in CallRec /\ RawCall(calls[i])
    BY DEF RawCalls
  <2>2. raw(i) \in Seq(TaskRec) /\ size(i) \in 0..3
    BY <2>1 DEF RawCall, CallRec
  <2>3. DOMAIN raw(i) = 1..Len(raw(i))
    BY <2>2
  <2> QED BY <2>1, <2>2, <2>3
<1>2. /\ DOMAIN D = 1..n /\ D = [i \in 1..n |-> D[i]]
      /\ \A i \in 1..n : D[i] = [calls[i] EXCEPT !.tasks = new(i)]
  BY <1>0 DEF Distinct
<1> HIDE DEF D, raw, size
<1>3. ASSUME NEW i \in 1..n, NEW k \in 1..size(i)
      PROVE  /\ new(i)[k] \in TaskRec /\ new(i)[k].agent = raw(i)[k].agent
             /\ new(i)[k].what \in SUBSET {3 * i + k}
             /\ TaskOf[new(i)[k]] \subseteq {<<raw(i)[k].agent, 3 * i + k>>}
  <2>1. raw(i)[k] \in TaskRec /\ 3 * i + k \in Nat
    BY <1>0, <1>1
  <2>2. new(i)[k] = IF raw(i)[k].what = {} THEN raw(i)[k] ELSE Task(raw(i)[k].agent, {3 * i + k})
    BY <1>1
  <2> HIDE DEF new, raw
  <2>3. /\ new(i)[k] \in TaskRec /\ new(i)[k].agent = raw(i)[k].agent
        /\ new(i)[k].what \in SUBSET {3 * i + k}
    BY <2>1, <2>2 DEF Task, TaskRec
  <2>4. TaskOf[new(i)[k]] = {<<new(i)[k].agent, o>> : o \in new(i)[k].what}
    BY <2>3 DEF TaskOf
  <2> QED BY <2>3, <2>4
<1>4. ASSUME NEW i \in 1..n
      PROVE  new(i) \in Seq(TaskRec) /\ Len(new(i)) = size(i)
  <2>1. DOMAIN new(i) = 1..size(i) /\ new(i) = [k \in 1..size(i) |-> new(i)[k]]
    BY <1>1
  <2> HIDE DEF new
  <2>2. new(i) \in [1..size(i) -> TaskRec]
    BY <1>3, <2>1
  <2> QED BY <1>1, <2>2
<1>5. ASSUME NEW i \in 1..n PROVE D[i].tasks = new(i) /\ D[i] \in CallRec /\ D[i].tool = calls[i].tool
  <2> HIDE DEF new
  <2>1. PICK tasks \in Seq(TaskRec) : tasks = new(i)
    BY <1>4
  <2>2. D[i] = [calls[i] EXCEPT !.tasks = tasks] /\ calls[i] \in CallRec
    BY <1>1, <1>2, <2>1
  <2>3. D[i].tasks = tasks /\ D[i] \in CallRec /\ D[i].tool = calls[i].tool
    BY <2>2 DEF CallRec
  <2> QED BY <2>1, <2>3
<1> HIDE DEF new
<1>6. ASSUME NEW i \in 1..n PROVE SoundTasks(new(i))
  <2>1. ASSUME NEW k \in 1..size(i), NEW l \in 1..size(i), k # l
        PROVE  TaskOf[new(i)[k]] \cap TaskOf[new(i)[l]] = {}
    <3>1. /\ TaskOf[new(i)[k]] \subseteq {<<raw(i)[k].agent, 3 * i + k>>}
          /\ TaskOf[new(i)[l]] \subseteq {<<raw(i)[l].agent, 3 * i + l>>}
      BY <1>3
    <3>2. 3 * i + k # 3 * i + l
      BY <1>0, <1>1, <2>1
    <3> QED BY <3>1, <3>2
  <2>2. Spread(new(i), TaskOf)
    BY <1>4, <2>1 DEF Spread
  <2>3. ASSUME NEW k \in 1..Len(new(i)) PROVE IsFiniteSet(new(i)[k].what)
    <3>1. new(i)[k].what \in SUBSET {3 * i + k}
      BY <1>3, <1>4
    <3>2. IsFiniteSet({3 * i + k})
      BY FS_Singleton
    <3> QED BY <3>1, <3>2, FS_Subset
  <2> QED BY <1>4, <2>2, <2>3 DEF SoundTasks
<1>7. ASSUME NEW i \in 1..n PROVE SmallTasks(new(i))
  <2>1. ASSUME NEW a \in Analyst PROVE \E o, p \in Nat : Objectives(new(i), a) \subseteq {o, p}
    <3>1. PICK m \in 1..3 : \A k \in 1..size(i) : raw(i)[k].agent = a => k # m
      BY <1>1 DEF RawCall, raw, size
    <3>2. ASSUME NEW o \in Objectives(new(i), a)
          PROVE  \E k \in 1..3 : k # m /\ o = 3 * i + k
      <4>1. PICK k \in 1..size(i) : <<a, o>> \in TaskOf[new(i)[k]]
        BY <1>4 DEF Objectives, Demands, Has
      <4>2. raw(i)[k].agent = a /\ o = 3 * i + k
        BY <1>3, <4>1
      <4>3. size(i) \in 0..3
        BY <1>1
      <4>4. k \in 1..3
        BY <4>3
      <4> QED BY <3>1, <4>2, <4>4
    <3>3. \E k, l \in 1..3 : \A j \in 1..3 : j # m => j = k \/ j = l
      <4>1. CASE m = 1
        BY <4>1
      <4>2. CASE m = 2
        BY <4>2
      <4>3. CASE m = 3
        BY <4>3
      <4> QED BY <4>1, <4>2, <4>3
    <3>4. PICK k \in 1..3, l \in 1..3 : \A j \in 1..3 : j # m => j = k \/ j = l
      BY <3>3
    <3>5. Objectives(new(i), a) \subseteq {3 * i + k, 3 * i + l}
      BY <3>2, <3>4
    <3>6. 3 * i + k \in Nat /\ 3 * i + l \in Nat
      BY <1>0
    <3> QED BY <3>5, <3>6
  <2> QED BY <2>1, FewTasks
<1>8. ASSUME NEW i \in 1..n PROVE Proper(D[i])
  BY <1>1, <1>4, <1>5, <1>6 DEF Proper, RawCall, raw, size
<1>9. D \in Seq(CallRec) /\ Len(D) = n
  <2>1. D \in [1..n -> CallRec]
    BY <1>2, <1>5
  <2> QED BY <1>0, <2>1
<1>10. ASSUME NEW i \in 1..n, NEW x \in CallOf[D[i]]
       PROVE  \E k \in 1..3 : x[2] = 3 * i + k
  <2>1. Demands(new(i), x)
    BY <1>5, CallAsks
  <2>2. PICK k \in 1..size(i) : x \in TaskOf[new(i)[k]]
    BY <1>4, <2>1 DEF Demands, Has
  <2>3. x[2] = 3 * i + k
    BY <1>3, <2>2
  <2>4. size(i) \in 0..3
    BY <1>1
  <2>5. k \in 1..3
    BY <2>4
  <2> QED BY <2>3, <2>5
<1>11. Spread(D, CallOf)
  <2>1. ASSUME NEW i \in 1..n, NEW j \in 1..n, i # j, NEW x, x \in CallOf[D[i]], x \in CallOf[D[j]]
        PROVE  FALSE
    <3>1. PICK k \in 1..3 : x[2] = 3 * i + k
      BY <1>10, <2>1
    <3>2. PICK l \in 1..3 : x[2] = 3 * j + l
      BY <1>10, <2>1
    <3>3. 3 * i + k # 3 * j + l
      BY <1>0, <2>1
    <3> QED BY <3>1, <3>2, <3>3
  <2> QED BY <1>9, <2>1 DEF Spread
<1>12. SmallCalls(D)
  BY <1>5, <1>7, <1>9 DEF SmallCalls
<1> QED BY <1>8, <1>9, <1>11, <1>12 DEF SoundCalls, D

LEMMA RawJoined ==
  ASSUME NEW s, NEW t, RawCalls(s), RawCalls(t)
  PROVE  RawCalls(s \o t)
<1> DEFINE all == s \o t
<1>0. s \in Seq(CallRec) /\ t \in Seq(CallRec)
  BY DEF RawCalls
<1>1. /\ all \in Seq(CallRec) /\ Len(all) = Len(s) + Len(t) /\ Len(s) \in Nat /\ Len(t) \in Nat
      /\ \A i \in 1..Len(all) : all[i] = IF i <= Len(s) THEN s[i] ELSE t[i - Len(s)]
  BY <1>0
<1> HIDE DEF all
<1>2. ASSUME NEW i \in 1..Len(all) PROVE RawCall(all[i])
  <2>1. CASE i <= Len(s)
    <3>1. i \in 1..Len(s) /\ all[i] = s[i]
      BY <1>1, <2>1
    <3> QED BY <3>1 DEF RawCalls
  <2>2. CASE ~ (i <= Len(s))
    <3>1. i - Len(s) \in 1..Len(t) /\ all[i] = t[i - Len(s)]
      BY <1>1, <2>2
    <3> QED BY <3>1 DEF RawCalls
  <2> QED BY <2>1, <2>2
<1> QED BY <1>1, <1>2 DEF RawCalls, all

\* A call of which the tasks are the same in number as its tool takes.
LEMMA RawOne ==
  ASSUME NEW tool \in TlTool, NEW tasks \in Seq(TaskRec), NEW back \in BOOLEAN, Len(tasks) \in 0..3,
         tool = "subagent" => Len(tasks) = 1, tool \notin Delegation => Len(tasks) = 0,
         \A a \in Analyst : \E m \in 1..3 : \A k \in 1..Len(tasks) : tasks[k].agent = a => k # m
  PROVE  /\ RawCall(TlCall(tool, tasks, back)) /\ TlCall(tool, tasks, back) \in CallRec
         /\ RawCalls(<<TlCall(tool, tasks, back)>>)
<1> DEFINE call == TlCall(tool, tasks, back)
           calls == <<call>>
<1>1. call = [tool |-> tool, tasks |-> tasks, back |-> back]
  BY DEF TlCall
<1> HIDE DEF call
<1>2. call \in CallRec /\ call.tool = tool /\ call.tasks = tasks
  BY <1>1 DEF CallRec
<1>3. RawCall(call)
  BY <1>2 DEF RawCall
<1>4. calls \in Seq(CallRec) /\ Len(calls) = 1 /\ \A i \in 1..Len(calls) : calls[i] = call
  BY <1>2
<1> HIDE DEF calls
<1> QED BY <1>2, <1>3, <1>4 DEF RawCalls, call, calls

LEMMA RawTask ==
  ASSUME NEW tool \in Delegation, NEW a \in Analyst, NEW what \in SUBSET Nat, NEW back \in BOOLEAN
  PROVE  /\ RawCall(TlCall(tool, <<Task(a, what)>>, back)) /\ TlCall(tool, <<Task(a, what)>>, back) \in CallRec
         /\ RawCalls(<<TlCall(tool, <<Task(a, what)>>, back)>>)
<1> DEFINE tasks == <<Task(a, what)>>
<1>1. /\ tasks \in Seq(TaskRec) /\ Len(tasks) = 1
      /\ \A k \in 1..Len(tasks) : k # 2
  BY DEF Task, TaskRec
<1> HIDE DEF tasks
<1>2. tool \in TlTool
  BY DEF TlTool, Delegation
<1>3. RawCall(TlCall(tool, tasks, back)) /\ TlCall(tool, tasks, back) \in CallRec
      /\ RawCalls(<<TlCall(tool, tasks, back)>>)
  BY <1>1, <1>2, RawOne
<1> QED BY <1>3 DEF tasks

LEMMA RawOther ==
  ASSUME NEW other \in OtherCalls
  PROVE  RawCalls(other)
<1>1. RawCalls(<<TlCall("other", << >>, FALSE)>>)
  <2> DEFINE tasks == << >>
  <2>1. tasks \in Seq(TaskRec) /\ Len(tasks) = 0
    OBVIOUS
  <2> HIDE DEF tasks
  <2>2. \A a \in Analyst : \E m \in 1..3 : \A k \in 1..Len(tasks) : tasks[k].agent = a => k # m
    BY <2>1
  <2>3. "other" \in TlTool /\ "other" # "subagent" /\ Len(tasks) \in 0..3 /\ FALSE \in BOOLEAN
    BY <2>1 DEF TlTool
  <2>4. RawCalls(<<TlCall("other", tasks, FALSE)>>)
    BY <2>1, <2>2, <2>3, RawOne
  <2> QED BY <2>4 DEF tasks
<1>2. /\ RawCalls(<<TlCall("subagent", <<Task("profit", {1})>>, TRUE)>>)
      /\ RawCalls(<<TlCall("subagent", <<Task("erp", {})>>, FALSE)>>)
      /\ RawCalls(<<TlCall("specialists", <<Task("analyst", {1})>>, FALSE)>>)
  <2>1. /\ "subagent" \in Delegation /\ "specialists" \in Delegation
        /\ "profit" \in Analyst /\ "erp" \in Analyst /\ "analyst" \in Analyst
        /\ {1} \in SUBSET Nat /\ {} \in SUBSET Nat
    BY DEF Delegation, Analyst, Specialist
  <2> QED BY <2>1, RawTask
<1>3. RawCalls(<<TlCall("specialists", <<Task("profit", {1}), Task("erp", {1}), Task("profit", {1})>>, FALSE)>>)
  <2> DEFINE tasks == <<Task("profit", {1}), Task("erp", {1}), Task("profit", {1})>>
  <2>1. /\ tasks \in Seq(TaskRec) /\ Len(tasks) = 3
        /\ tasks[1].agent = "profit" /\ tasks[2].agent = "erp" /\ tasks[3].agent = "profit"
    BY DEF Task, TaskRec, Analyst, Specialist
  <2> HIDE DEF tasks
  <2>2. \A a \in Analyst : \E m \in 1..3 : \A k \in 1..Len(tasks) : tasks[k].agent = a => k # m
    <3>1. \A a \in Analyst : tasks[1].agent # a \/ tasks[2].agent # a
      BY <2>1
    <3>2. \A k \in 1..Len(tasks) : k \in 1..3
      BY <2>1
    <3> QED BY <3>1, <3>2
  <2>3. /\ "specialists" \in TlTool /\ "specialists" # "subagent" /\ "specialists" \in Delegation
        /\ Len(tasks) \in 0..3 /\ FALSE \in BOOLEAN
    BY <2>1 DEF TlTool, Delegation
  <2>4. RawCalls(<<TlCall("specialists", tasks, FALSE)>>)
    BY <2>1, <2>2, <2>3, RawOne
  <2> QED BY <2>4 DEF tasks
<1> QED BY <1>1, <1>2, <1>3 DEF OtherCalls

\* What the model replies asks for no task twice.
LEMMA ReplySound ==
  ASSUME NEW reply \in ModelReply
  PROVE  SoundCalls(reply) /\ SmallCalls(reply)
<1> DEFINE single == TlCall("subagent", <<Task("profit", {1})>>, FALSE)
<1>1. ASSUME NEW n \in Nat PROVE RawCalls(SingleCalls(n))
  <2>1. RawCall(single) /\ single \in CallRec
    <3>1. "subagent" \in Delegation /\ "profit" \in Analyst /\ {1} \in SUBSET Nat
      BY DEF Delegation, Analyst, Specialist
    <3> QED BY <3>1, RawTask
  <2>2. SingleCalls(n) = [i \in 1..n |-> single]
    BY DEF SingleCalls
  <2> HIDE DEF single
  <2>3. /\ SingleCalls(n) \in Seq(CallRec) /\ Len(SingleCalls(n)) = n
        /\ \A i \in 1..n : SingleCalls(n)[i] = single
    BY <2>1, <2>2
  <2> QED BY <2>1, <2>3 DEF RawCalls
<1>2. \/ \E n \in 0..TlSingles : reply = Distinct(SingleCalls(n))
      \/ \E calls \in OtherCalls, n \in {0, 1} : reply = Distinct(calls \o SingleCalls(n))
      \/ \E calls \in OtherCalls : reply = Distinct(SingleCalls(2) \o calls)
  BY DEF ModelReply
<1>3. \E calls : RawCalls(calls) /\ reply = Distinct(calls)
  <2>1. CASE \E n \in 0..TlSingles : reply = Distinct(SingleCalls(n))
    <3>1. \A n \in 0..TlSingles : n \in Nat
      BY TlAssumption
    <3> QED BY <1>1, <2>1, <3>1
  <2>2. CASE \E calls \in OtherCalls, n \in {0, 1} : reply = Distinct(calls \o SingleCalls(n))
    <3>1. PICK calls \in OtherCalls, n \in {0, 1} : reply = Distinct(calls \o SingleCalls(n))
      BY <2>2
    <3>2. RawCalls(calls \o SingleCalls(n))
      BY <1>1, RawOther, RawJoined
    <3> QED BY <3>1, <3>2
  <2>3. CASE \E calls \in OtherCalls : reply = Distinct(SingleCalls(2) \o calls)
    <3>1. PICK calls \in OtherCalls : reply = Distinct(SingleCalls(2) \o calls)
      BY <2>3
    <3>2. RawCalls(SingleCalls(2) \o calls)
      BY <1>1, RawOther, RawJoined
    <3> QED BY <3>1, <3>2
  <2> QED BY <1>2, <2>1, <2>2, <2>3
<1> QED BY <1>3, DistinctSound

\* One delegation of one task.
LEMMA TaskCall ==
  ASSUME NEW tool \in Delegation, NEW a \in Analyst, NEW o \in Nat, NEW back \in BOOLEAN
  PROVE  /\ Proper(TlCall(tool, <<Task(a, {o})>>, back))
         /\ SoundCalls(<<TlCall(tool, <<Task(a, {o})>>, back)>>)
         /\ SmallCalls(<<TlCall(tool, <<Task(a, {o})>>, back)>>)
<1> DEFINE tasks == <<Task(a, {o})>>
<1>1. SoundTasks(tasks) /\ SmallTasks(tasks) /\ Len(tasks) = 1
  BY OneTasks
<1>2. tool \in TlTool
  BY DEF TlTool, Delegation
<1> HIDE DEF tasks
<1>3. /\ Proper(TlCall(tool, tasks, back)) /\ SoundCalls(<<TlCall(tool, tasks, back)>>)
      /\ SmallCalls(<<TlCall(tool, tasks, back)>>)
  BY <1>1, <1>2, OneCall
<1> QED BY <1>3 DEF tasks

LEMMA PlainCall ==
  ASSUME NEW tool \in {"search", "other"}
  PROVE  SoundCalls(<<TlCall(tool, << >>, FALSE)>>) /\ SmallCalls(<<TlCall(tool, << >>, FALSE)>>)
<1> DEFINE tasks == << >>
<1>1. SoundTasks(tasks) /\ SmallTasks(tasks) /\ Len(tasks) = 0
  BY NoTasks
<1>2. tool \in TlTool /\ tool # "subagent" /\ FALSE \in BOOLEAN
  BY DEF TlTool
<1> HIDE DEF tasks
<1>3. SoundCalls(<<TlCall(tool, tasks, FALSE)>>) /\ SmallCalls(<<TlCall(tool, tasks, FALSE)>>)
  BY <1>1, <1>2, OneCall
<1> QED BY <1>3 DEF tasks

\* What the model replies, corrected, and what the intent router plans asks for no task twice.
LEMMA GivenSound ==
  ASSUME NEW reply \in ModelReply, NEW given \in RecoverDelegation(RecoverSearch(reply))
  PROVE  SoundCalls(given) /\ SmallCalls(given)
<1>1. SoundCalls(RecoverSearch(reply)) /\ SmallCalls(RecoverSearch(reply))
  <2>1. \/ RecoverSearch(reply) = reply
        \/ RecoverSearch(reply) = <<TlCall("search", << >>, FALSE)>>
    BY DEF RecoverSearch
  <2> QED BY <2>1, ReplySound, PlainCall
<1>2. \/ given = RecoverSearch(reply)
      \/ \E agents : given = <<Together(agents)>>
      \/ given = <<TlCall("subagent", <<Task("analyst", {0})>>, FALSE)>>
  BY ZenonT(30) DEF RecoverDelegation
<1>3. /\ SoundCalls(<<TlCall("subagent", <<Task("analyst", {0})>>, FALSE)>>)
      /\ SmallCalls(<<TlCall("subagent", <<Task("analyst", {0})>>, FALSE)>>)
  <2>1. "subagent" \in Delegation /\ "analyst" \in Analyst /\ 0 \in Nat /\ FALSE \in BOOLEAN
    BY DEF Delegation, Analyst
  <2> QED BY <2>1, TaskCall
<1> QED BY <1>1, <1>2, <1>3, TogetherCall

LEMMA PlanSound ==
  ASSUME NEW plan \in HardMatch \cup SmallPlan
  PROVE  SoundCalls(plan) /\ SmallCalls(plan)
<1>0. /\ "subagent" \in Delegation /\ "specialists" \in Delegation /\ "analyst" \in Analyst
      /\ "erp" \in Analyst /\ "profit" \in Analyst /\ Specialist \subseteq Analyst
      /\ 0 \in Nat /\ 1 \in Nat /\ 2 \in Nat /\ TRUE \in BOOLEAN /\ FALSE \in BOOLEAN
  BY DEF Delegation, Analyst, Specialist
<1>1. CASE plan \in HardMatch
  <2>1. \/ \E a \in Specialist : plan = <<TlCall("subagent", <<Task(a, {0})>>, FALSE)>>
        \/ plan = <<Together(Specialist)>>
    BY <1>1, Zenon DEF HardMatch
  <2>2. ASSUME NEW a \in Specialist
        PROVE  /\ SoundCalls(<<TlCall("subagent", <<Task(a, {0})>>, FALSE)>>)
               /\ SmallCalls(<<TlCall("subagent", <<Task(a, {0})>>, FALSE)>>)
    BY <1>0, TaskCall
  <2> QED BY <2>1, <2>2, TogetherCall
<1>2. CASE plan \in SmallPlan
  <2> DEFINE erp == TlCall("subagent", <<Task("erp", {1})>>, FALSE)
             profit == TlCall("subagent", <<Task("profit", {2})>>, FALSE)
  <2>1. \/ plan = <<TlCall("other", << >>, FALSE)>>
        \/ plan = <<TlCall("subagent", <<Task("analyst", {1})>>, TRUE)>>
        \/ plan = <<TlCall("specialists", <<Task("analyst", {1})>>, FALSE)>>
        \/ plan = <<erp, profit>>
    BY <1>2, Zenon DEF SmallPlan
  <2>2. /\ SoundCalls(<<TlCall("subagent", <<Task("analyst", {1})>>, TRUE)>>)
        /\ SmallCalls(<<TlCall("subagent", <<Task("analyst", {1})>>, TRUE)>>)
    BY <1>0, TaskCall
  <2>3. /\ SoundCalls(<<TlCall("specialists", <<Task("analyst", {1})>>, FALSE)>>)
        /\ SmallCalls(<<TlCall("specialists", <<Task("analyst", {1})>>, FALSE)>>)
    BY <1>0, TaskCall
  <2>4. Proper(erp) /\ SmallCalls(<<erp>>) /\ Proper(profit) /\ SmallCalls(<<profit>>)
    BY <1>0, TaskCall
  <2>5. SoundCalls(<<erp, profit>>) /\ SmallCalls(<<erp, profit>>)
    <3>1. erp.tasks[1] = Task("erp", {1}) /\ profit.tasks[1] = Task("profit", {2})
          /\ erp.tool = "subagent" /\ profit.tool = "subagent"
      BY DEF TlCall
    <3>2. \A c \in {erp, profit} : /\ c.tasks[1] \in TaskRec
                                   /\ \A x : x \in CallOf[c] <=> x \in TaskOf[c.tasks[1]]
      <4> HIDE DEF erp, profit
      <4> QED BY <2>4, <3>1, OneTask
    <3>3. CallOf[erp] \cap CallOf[profit] = {}
      <4> HIDE DEF erp, profit
      <4>1. ASSUME NEW x, x \in CallOf[erp], x \in CallOf[profit] PROVE FALSE
        <5>1. x \in TaskOf[Task("erp", {1})] /\ x \in TaskOf[Task("profit", {2})]
          BY <3>1, <3>2, <4>1
        <5>2. Task("erp", {1}) \in TaskRec /\ Task("profit", {2}) \in TaskRec
          BY <3>1, <3>2
        <5>3. /\ TaskOf[Task("erp", {1})] = {<<Task("erp", {1}).agent, o>> : o \in Task("erp", {1}).what}
              /\ TaskOf[Task("profit", {2})] = {<<Task("profit", {2}).agent, o>> : o \in Task("profit", {2}).what}
          BY <5>2 DEF TaskOf
        <5> QED BY <5>1, <5>3 DEF Task
      <4> QED BY <4>1
    <3> DEFINE both == <<erp, profit>>
    <3> HIDE DEF erp, profit
    <3>4. SmallTasks(erp.tasks) /\ SmallTasks(profit.tasks)
      <4>1. SmallTasks(<<Task("erp", {1})>>) /\ SmallTasks(<<Task("profit", {2})>>)
        BY <1>0, OneTasks
      <4>2. erp.tasks = <<Task("erp", {1})>> /\ profit.tasks = <<Task("profit", {2})>>
        BY DEF erp, profit, TlCall
      <4> QED BY <4>1, <4>2
    <3>5. /\ both \in Seq(CallRec) /\ Len(both) = 2 /\ both[1] = erp /\ both[2] = profit
          /\ \A i \in 1..2 : i = 1 \/ i = 2
      BY <2>4 DEF Proper
    <3> HIDE DEF both
    <3>6. Spread(both, CallOf)
      BY <3>3, <3>5 DEF Spread
    <3>7. SoundCalls(both) /\ SmallCalls(both)
      BY <2>4, <3>4, <3>5, <3>6 DEF SoundCalls, SmallCalls
    <3> QED BY <3>7 DEF both
  <2>6. SoundCalls(<<TlCall("other", << >>, FALSE)>>) /\ SmallCalls(<<TlCall("other", << >>, FALSE)>>)
    BY PlainCall
  <2> QED BY <2>1, <2>2, <2>3, <2>5, <2>6
<1> QED BY <1>1, <1>2

---------------------------------------------------------------------------
(* What is submitted *)

Pair == [x \in Analyst \X Nat |-> {x}]

LEMMA SubmittedTasks ==
  ASSUME NEW call, Proper(call), NEW n \in Nat
  PROVE  /\ Submitted(call, n) \in Seq(Analyst \X Nat) /\ Spread(Submitted(call, n), Pair)
         /\ \A x : Has(Submitted(call, n), x) => x \in CallOf[call]
         /\ Len(call.tasks) <= n => \A x : x \in CallOf[call] => Has(Submitted(call, n), x)
<1> DEFINE tasks == call.tasks
           m == AtMost(n, Len(tasks))
           some == SubSeq(tasks, 1, m)
           asked(i) == {some[i].agent} \X some[i].what
           parts == [i \in DOMAIN some |-> Seqs!SetToSeq(asked(i))]
           all == Seqs!FlattenSeq(parts)
<1>0. /\ tasks \in Seq(TaskRec) /\ Spread(tasks, TaskOf) /\ Len(tasks) \in Nat
      /\ \A i \in 1..Len(tasks) : IsFiniteSet(tasks[i].what) /\ tasks[i] \in TaskRec
      /\ \A x : x \in CallOf[call] <=> Demands(tasks, x)
  BY CallAsks DEF Proper, SoundTasks
<1>1. Submitted(call, n) = all
  BY DEF Submitted
<1> HIDE DEF tasks
<1>2. m \in 0..Len(tasks) /\ (Len(tasks) <= n => m = Len(tasks))
  BY <1>0 DEF AtMost
<1> HIDE DEF m
<1>3. /\ some \in Seq(TaskRec) /\ Len(some) = m /\ DOMAIN some = 1..m
      /\ \A i \in 1..m : some[i] = tasks[i] /\ i \in 1..Len(tasks)
  BY <1>0, <1>2
<1> HIDE DEF some
<1>4. ASSUME NEW i \in 1..m
      PROVE  IsFiniteSet(asked(i)) /\ asked(i) = TaskOf[tasks[i]] /\ asked(i) \in SUBSET (Analyst \X Nat)
  <2>1. some[i] = tasks[i] /\ tasks[i] \in TaskRec /\ IsFiniteSet(some[i].what)
    BY <1>0, <1>3
  <2>2. IsFiniteSet({some[i].agent})
    BY FS_Singleton
  <2>3. IsFiniteSet(asked(i))
    BY <2>1, <2>2, FS_Product
  <2>4. TaskOf[tasks[i]] = {<<tasks[i].agent, o>> : o \in tasks[i].what}
    BY <2>1 DEF TaskOf
  <2>5. asked(i) = TaskOf[tasks[i]]
    BY <2>1, <2>4
  <2>6. asked(i) \in SUBSET (Analyst \X Nat)
    BY <2>1 DEF TaskRec
  <2> QED BY <2>3, <2>5, <2>6
<1>5. DOMAIN parts = 1..m /\ \A i \in 1..m : parts[i] = Seqs!SetToSeq(asked(i))
  BY <1>3
<1>6. parts = [i \in 1..m |-> parts[i]]
  BY <1>3
<1> HIDE DEF parts, asked
<1>7. ASSUME NEW i \in 1..m
      PROVE  /\ parts[i] \in Seq(Analyst \X Nat) /\ Spread(parts[i], Pair)
             /\ \A x : Has(parts[i], x) <=> x \in TaskOf[tasks[i]]
  <2>1. /\ parts[i] \in Seq(asked(i))
        /\ \A x : Has(parts[i], x) <=> x \in asked(i)
        /\ \A k, l \in 1..Len(parts[i]) : k # l => parts[i][k] # parts[i][l]
    BY <1>4, <1>5, Ordered
  <2>2. parts[i] \in Seq(Analyst \X Nat)
    BY <1>4, <2>1
  <2>4. Spread(parts[i], Pair)
    <3>1. PICK s \in Seq(Analyst \X Nat) : s = parts[i]
      BY <2>2
    <3>2. ASSUME NEW k \in 1..Len(s) PROVE Pair[s[k]] = {s[k]}
      <4>1. s[k] \in Analyst \X Nat
        OBVIOUS
      <4> QED BY <4>1 DEF Pair
    <3>3. \A k, l \in 1..Len(s) : k # l => s[k] # s[l]
      BY <2>1, <3>1
    <3>4. ASSUME NEW k \in 1..Len(s), NEW l \in 1..Len(s), k # l
          PROVE  Pair[s[k]] \cap Pair[s[l]] = {}
      <4>1. Pair[s[k]] = {s[k]} /\ Pair[s[l]] = {s[l]} /\ s[k] # s[l]
        BY <3>2, <3>3, <3>4
      <4> QED BY <4>1
    <3> QED BY <3>1, <3>4 DEF Spread
  <2> QED BY <1>4, <2>1, <2>2, <2>4
<1>8. parts \in Seq(Seq(Analyst \X Nat)) /\ Len(parts) = m
  <2>1. parts \in [1..m -> Seq(Analyst \X Nat)]
    BY <1>6, <1>7
  <2> QED BY <1>2, <2>1
<1>9. ASSUME NEW i \in 1..m, NEW j \in 1..m, i # j PROVE Apart(parts[i], parts[j], Pair)
  <2>1. TaskOf[tasks[i]] \cap TaskOf[tasks[j]] = {}
    BY <1>0, <1>3, <1>9 DEF Spread
  <2>2. SUFFICES ASSUME NEW x, NEW y, Has(parts[i], x), Has(parts[j], y)
                 PROVE  Pair[x] \cap Pair[y] = {}
    BY DEF Apart
  <2>3. x # y /\ x \in Analyst \X Nat /\ y \in Analyst \X Nat
    <3>1. x \in TaskOf[tasks[i]] /\ y \in TaskOf[tasks[j]]
      BY <1>7, <2>2
    <3>2. TaskOf[tasks[i]] \in SUBSET (Analyst \X Nat) /\ TaskOf[tasks[j]] \in SUBSET (Analyst \X Nat)
      BY <1>4
    <3> QED BY <2>1, <3>1, <3>2
  <2> QED BY <2>3 DEF Pair
<1>10. /\ all \in Seq(Analyst \X Nat) /\ Spread(all, Pair)
       /\ \A x : Has(all, x) <=> \E i \in 1..m : Has(parts[i], x)
  BY <1>7, <1>8, <1>9, Flattened
<1> HIDE DEF all
<1>11. \A x : Has(all, x) <=> \E i \in 1..m : x \in TaskOf[tasks[i]]
  BY <1>7, <1>10
<1>12. \A x : x \in CallOf[call] <=> \E i \in 1..Len(tasks) : x \in TaskOf[tasks[i]]
  BY <1>0 DEF Demands, Has
<1> QED BY <1>1, <1>2, <1>3, <1>10, <1>11, <1>12 DEF tasks

\* What the calls of a reply submit, some of them less than they ask for.
LEMMA SubmittedCalls ==
  ASSUME NEW calls, SoundCalls(calls), NEW parts \in [1..Len(calls) -> Seq(Analyst \X Nat)],
         \A i \in 1..Len(calls) : \/ parts[i] = << >>
                                  \/ \E n \in Nat : parts[i] = Submitted(calls[i], n)
  PROVE  /\ Seqs!FlattenSeq(parts) \in Seq(Analyst \X Nat)
         /\ Spread(Seqs!FlattenSeq(parts), Pair)
         /\ \A x : Has(Seqs!FlattenSeq(parts), x)
                     <=> \E i \in 1..Len(calls) : Has(parts[i], x)
<1> DEFINE m == Len(calls)
<1>0. /\ m \in Nat /\ Spread(calls, CallOf) /\ \A i \in 1..m : Proper(calls[i]) /\ calls[i] \in CallRec
  BY DEF SoundCalls, Proper
<1>1. ASSUME NEW i \in 1..m
      PROVE  /\ parts[i] \in Seq(Analyst \X Nat) /\ Spread(parts[i], Pair)
             /\ \A x : Has(parts[i], x) => x \in CallOf[calls[i]]
  <2>1. CASE parts[i] = << >>
    BY <2>1 DEF Spread, Has
  <2>2. CASE \E n \in Nat : parts[i] = Submitted(calls[i], n)
    <3>1. PICK n \in Nat : parts[i] = Submitted(calls[i], n)
      BY <2>2
    <3>2. Proper(calls[i])
      BY <1>0
    <3> DEFINE part == Submitted(calls[i], n)
    <3>3. part \in Seq(Analyst \X Nat) /\ Spread(part, Pair) /\ \A x : Has(part, x) => x \in CallOf[calls[i]]
      BY <3>2, SubmittedTasks
    <3> HIDE DEF part
    <3>4. parts[i] = part
      BY <3>1 DEF part
    <3> QED BY <3>3, <3>4
  <2> QED BY <2>1, <2>2
<1>2. parts \in Seq(Seq(Analyst \X Nat)) /\ Len(parts) = m
  BY <1>0
<1>3. ASSUME NEW i \in 1..m, NEW j \in 1..m, i # j PROVE Apart(parts[i], parts[j], Pair)
  <2>1. SUFFICES ASSUME NEW x, NEW y, Has(parts[i], x), Has(parts[j], y)
                 PROVE  Pair[x] \cap Pair[y] = {}
    BY DEF Apart
  <2>2. x \in CallOf[calls[i]] /\ y \in CallOf[calls[j]] /\ x \in Analyst \X Nat /\ y \in Analyst \X Nat
    <3>1. x \in CallOf[calls[i]] /\ y \in CallOf[calls[j]]
      BY <1>1, <2>1
    <3>2. ASSUME NEW s \in Seq(Analyst \X Nat), NEW z, Has(s, z) PROVE z \in Analyst \X Nat
      BY <3>2 DEF Has
    <3>3. parts[i] \in Seq(Analyst \X Nat) /\ parts[j] \in Seq(Analyst \X Nat)
      OBVIOUS
    <3> QED BY <2>1, <3>1, <3>2, <3>3
  <2>3. CallOf[calls[i]] \cap CallOf[calls[j]] = {}
    BY <1>0, <1>3 DEF Spread
  <2>4. x # y
    BY <2>2, <2>3
  <2> QED BY <2>2, <2>4 DEF Pair
<1> HIDE DEF m
<1> QED BY <1>1, <1>2, <1>3, Flattened DEF m

---------------------------------------------------------------------------
(* The messages *)

\* A conversation goes on with another, or with results of its calls.
LEMMA JoinWhole ==
  ASSUME NEW s, Whole(s), NEW t \in Seq(TlMessageRec),
         \A i \in 1..Len(t) : t[i].role = "tool" =>
           \/ \E j \in 1..i : t[j] = Reply(t[i].call)
           \/ \E j \in 1..Len(s) : s[j] = Reply(t[i].call)
  PROVE  Whole(s \o t)
<1> DEFINE all == s \o t
           m == Len(s)
<1>0. s \in Seq(TlMessageRec) /\ m \in Nat /\ m >= 1 /\ s[1].role = "user"
  BY DEF Whole, Opens
<1>1. /\ all \in Seq(TlMessageRec) /\ Len(all) = m + Len(t) /\ Len(t) \in Nat
      /\ \A i \in 1..m : all[i] = s[i] /\ i \in 1..Len(all)
      /\ \A i \in 1..Len(t) : all[m + i] = t[i] /\ m + i \in 1..Len(all)
  BY <1>0
<1>2. \A i \in 1..Len(all) : i \in 1..m \/ (i > m /\ i - m \in 1..Len(t) /\ all[i] = t[i - m])
  BY <1>0, <1>1
<1> HIDE DEF all
<1>3. ASSUME NEW i \in 1..Len(all), all[i].role = "tool"
      PROVE  \E j \in 1..i : all[j] = Reply(all[i].call)
  <2>1. CASE i \in 1..m
    <3>1. all[i] = s[i]
      BY <1>1, <2>1
    <3>2. PICK j \in 1..i : s[j] = Reply(s[i].call)
      BY <1>3, <2>1, <3>1 DEF Whole, Opens
    <3>3. j \in 1..m
      BY <1>0, <2>1, <3>2
    <3> QED BY <1>1, <3>1, <3>2, <3>3
  <2>2. CASE i \notin 1..m
    <3>0. PICK l \in 1..Len(t) : i = m + l /\ all[i] = t[l]
      <4>1. i - m \in 1..Len(t) /\ i = m + (i - m) /\ all[i] = t[i - m]
        BY <1>0, <1>2, <2>2
      <4> QED BY <4>1
    <3>1. CASE \E j \in 1..l : t[j] = Reply(t[l].call)
      <4>1. PICK j \in 1..l : t[j] = Reply(t[l].call)
        BY <3>1
      <4>2. j \in 1..Len(t) /\ m + j \in 1..i
        BY <1>0, <1>1, <3>0, <4>1
      <4>3. all[m + j] = t[j]
        BY <1>1, <4>2
      <4> QED BY <3>0, <4>1, <4>2, <4>3
    <3>2. CASE \E j \in 1..m : s[j] = Reply(t[l].call)
      <4>1. PICK j \in 1..m : s[j] = Reply(t[l].call)
        BY <3>2
      <4>2. j \in 1..i /\ all[j] = s[j]
        BY <1>0, <1>1, <3>0, <4>1
      <4> QED BY <3>0, <4>1, <4>2
    <3>3. t[l].role = "tool"
      BY <1>3, <3>0
    <3> QED BY <3>1, <3>2, <3>3
  <2> QED BY <2>1, <2>2
<1>4. 1 <= Len(all) /\ all[1] = s[1]
  BY <1>0, <1>1
<1> QED BY <1>0, <1>1, <1>3, <1>4 DEF Whole, Opens, all

LEMMA WholeJoined ==
  ASSUME NEW s, Whole(s), NEW t, Whole(t)
  PROVE  Whole(s \o t)
<1>1. t \in Seq(TlMessageRec)
  BY DEF Whole, Opens
<1>2. \A i \in 1..Len(t) : t[i].role = "tool" => \E j \in 1..i : t[j] = Reply(t[i].call)
  BY DEF Whole, Opens
<1> QED BY <1>1, <1>2, JoinWhole

\* A message that is no result can follow, and a result of any call before.
LEMMA WholeAppended ==
  ASSUME NEW s, Whole(s), NEW message \in TlMessageRec,
         message.role = "tool" => \E j \in 1..Len(s) : s[j] = Reply(message.call)
  PROVE  Whole(Append(s, message)) /\ Append(s, message)[Len(Append(s, message))] = message
<1> DEFINE t == <<message>>
<1>0. s \in Seq(TlMessageRec)
  BY DEF Whole, Opens
<1>1. t \in Seq(TlMessageRec) /\ Len(t) = 1 /\ \A i \in 1..Len(t) : t[i] = message
  OBVIOUS
<1>2. s \o t = Append(s, message) /\ Append(s, message)[Len(Append(s, message))] = message
  BY <1>0
<1> HIDE DEF t
<1>3. Whole(s \o t)
  BY <1>1, JoinWhole
<1> QED BY <1>2, <1>3

LEMMA MessageTypes ==
  ASSUME NEW id \in Nat, NEW size \in Nat, NEW tool \in TlTool
  PROVE  /\ User(size) \in TlMessageRec /\ User(size).role = "user"
         /\ Reply(id) \in TlMessageRec /\ Reply(id).role = "assistant" /\ Reply(id).call = id
         /\ Result(id, tool) \in TlMessageRec /\ Result(id, tool).role = "tool"
         /\ Result(id, tool).call = id
BY DEF User, Reply, Result, Message, TlMessageRec

\* An answer after a question, and the results of two calls between them.
LEMMA Appended ==
  ASSUME NEW X, NEW a \in X, NEW b \in X
  PROVE  Append(<<a>>, b) = <<a, b>>
<1> DEFINE s == Append(<<a>>, b)
           t == <<a, b>>
<1>1. s \in Seq(X) /\ Len(s) = 2 /\ s[1] = a /\ s[2] = b
  OBVIOUS
<1>2. t \in Seq(X) /\ Len(t) = 2 /\ t[1] = a /\ t[2] = b
  OBVIOUS
<1> HIDE DEF s, t
<1>3. \A i \in 1..Len(s) : s[i] = t[i]
  BY <1>1, <1>2
<1>4. s = t
  BY <1>1, <1>2, <1>3, SeqEqual
<1> QED BY <1>4 DEF s, t

LEMMA AppendedTwo ==
  ASSUME NEW X, NEW p \in Seq(X), NEW q \in Seq(X), Len(p) = 2, Len(q) = 2, NEW e \in X
  PROVE  Append(p \o q, e) = <<p[1], p[2], q[1], q[2], e>>
<1> DEFINE r == p \o q
           s == Append(r, e)
           t == <<p[1], p[2], q[1], q[2], e>>
<1>1. /\ r \in Seq(X) /\ Len(r) = Len(p) + Len(q)
      /\ \A i \in 1..(Len(p) + Len(q)) : r[i] = IF i <= Len(p) THEN p[i] ELSE q[i - Len(p)]
  BY ConcatProperties
<1>2. p[1] \in X /\ p[2] \in X /\ q[1] \in X /\ q[2] \in X
  <2>1. 1 \in 1..2 /\ 2 \in 1..2
    OBVIOUS
  <2>2. \A i \in 1..2 : p[i] \in X /\ q[i] \in X
    OBVIOUS
  <2> QED BY <2>1, <2>2
<1>3. t \in Seq(X) /\ Len(t) = 5
  BY <1>2
<1>4. t[1] = p[1] /\ t[2] = p[2] /\ t[3] = q[1] /\ t[4] = q[2] /\ t[5] = e
  BY <1>2
<1> HIDE DEF r, t
<1>5. /\ s \in Seq(X) /\ Len(s) = Len(r) + 1
      /\ \A i \in 1..Len(r) : s[i] = r[i]
      /\ s[Len(r) + 1] = e
  <2>1. r \in Seq(X)
    BY <1>1
  <2> QED BY <2>1, AppendProperties
<1> HIDE DEF s
<1>6. Len(r) = 4 /\ r[1] = p[1] /\ r[2] = p[2] /\ r[3] = q[1] /\ r[4] = q[2]
  BY <1>1
<1>7. \A i \in 1..Len(s) : s[i] = t[i]
  <2>1. ASSUME NEW i \in 1..Len(s) PROVE i = 1 \/ i = 2 \/ i = 3 \/ i = 4 \/ i = 5
    BY <1>5, <1>6
  <2>2. s[1] = t[1] /\ s[2] = t[2] /\ s[3] = t[3] /\ s[4] = t[4] /\ s[5] = t[5]
    BY <1>4, <1>5, <1>6
  <2> QED BY <2>1, <2>2
<1>8. s = t
  BY <1>3, <1>5, <1>6, <1>7, SeqEqual
<1> QED BY <1>8 DEF s, r, t

\* What is restored from the log: its exchanges, and those a result came after.
LEMMA RestoredWhole ==
  /\ \A history \in History : history = << >> \/ Whole(history)
  /\ \A n \in Nat : Whole(<<User(n)>>)
  /\ \A history \in Decided : Whole(history)
<1>0. \A n \in Nat : User(n) \in TlMessageRec /\ User(n).role = "user"
  BY MessageTypes DEF TlTool
<1>a. ASSUME NEW n \in Nat PROVE Whole(<<User(n)>>)
  <2> DEFINE s == <<User(n)>>
  <2>1. s \in Seq(TlMessageRec) /\ Len(s) = 1 /\ s[1] = User(n) /\ \A i \in 1..Len(s) : s[i] = User(n)
    BY <1>0
  <2> HIDE DEF s
  <2>2. Whole(s)
    BY <1>0, <2>1 DEF Whole, Opens
  <2> QED BY <2>2 DEF s
<1>b. ASSUME NEW n \in Nat, NEW id \in Nat PROVE Whole(<<User(n), Reply(id)>>)
  <2>1. Whole(Append(<<User(n)>>, Reply(id)))
    BY <1>a, MessageTypes, WholeAppended DEF TlTool
  <2>2. User(n) \in TlMessageRec /\ Reply(id) \in TlMessageRec
    BY MessageTypes DEF TlTool
  <2>3. Append(<<User(n)>>, Reply(id)) = <<User(n), Reply(id)>>
    BY <2>2, Appended
  <2> QED BY <2>1, <2>3
<1>c. Whole(Tools(2))
  <2> DEFINE asks == <<User(1), Reply(4)>>
             results == <<Result(4, "other"), Result(4, "specialists")>>
  <2>1. /\ Result(4, "other") \in TlMessageRec /\ Result(4, "other").role = "tool"
        /\ Result(4, "other").call = 4
        /\ Result(4, "specialists") \in TlMessageRec /\ Result(4, "specialists").role = "tool"
        /\ Result(4, "specialists").call = 4
        /\ Reply(0) \in TlMessageRec /\ Reply(0).role = "assistant"
    BY MessageTypes DEF TlTool
  <2>a. Reply(4) \in TlMessageRec
    BY MessageTypes DEF TlTool
  <2>2. /\ results \in Seq(TlMessageRec) /\ Len(results) = 2
        /\ \A i \in 1..Len(results) : results[i].role = "tool" /\ results[i].call = 4
    BY <2>1
  <2>3. Whole(asks) /\ Len(asks) = 2 /\ asks[2] = Reply(4)
    BY <1>b
  <2>4. Append(asks \o results, Reply(0)) = Tools(2)
    <3>1. Append(asks \o results, Reply(0))
            = <<User(1), Reply(4), Result(4, "other"), Result(4, "specialists"), Reply(0)>>
      <4>1. User(1) \in TlMessageRec
        BY <1>0
      <4>2. /\ asks \in Seq(TlMessageRec) /\ Len(asks) = 2
            /\ asks[1] = User(1) /\ asks[2] = Reply(4)
        BY <2>a, <4>1
      <4>3. /\ results \in Seq(TlMessageRec) /\ Len(results) = 2
            /\ results[1] = Result(4, "other") /\ results[2] = Result(4, "specialists")
        BY <2>1
      <4> HIDE DEF asks, results
      <4> QED BY <2>1, <4>2, <4>3, AppendedTwo
    <3>2. Reply(2 + 2) = Reply(4) /\ \A tool : Result(2 + 2, tool) = Result(4, tool)
      BY DEF Reply, Result, Message
    <3> HIDE DEF asks, results
    <3> QED BY <3>1, <3>2 DEF Tools
  <2> HIDE DEF asks, results
  <2>5. Whole(asks \o results)
    <3>1. \A i \in 1..Len(results) : \E j \in 1..Len(asks) : asks[j] = Reply(results[i].call)
      BY <2>2, <2>3
    <3> QED BY <2>2, <2>3, <3>1, JoinWhole
  <2> QED BY <2>1, <2>4, <2>5, WholeAppended
<1>1. Whole(Plain(1)) /\ Whole(Plain(3)) /\ Whole(Open(0))
  BY <1>b DEF Plain, Open
<1>2. ASSUME NEW later, Whole(later), later[2] = Reply(2), Len(later) >= 2
      PROVE  Whole(later \o <<Result(2, "other")>>)
  <2> DEFINE t == <<Result(2, "other")>>
  <2>1. Result(2, "other") \in TlMessageRec /\ Result(2, "other").call = 2
    BY MessageTypes DEF TlTool
  <2>2. t \in Seq(TlMessageRec) /\ \A i \in 1..Len(t) : t[i].call = 2
    BY <2>1
  <2>3. 2 \in 1..Len(later)
    BY <1>2 DEF Whole, Opens
  <2> HIDE DEF t
  <2>4. Whole(later \o t)
    BY <1>2, <2>2, <2>3, JoinWhole
  <2> QED BY <2>4 DEF t
<1>3. ASSUME NEW s, Whole(s), s[2] = Reply(2), Len(s) >= 2
      PROVE  /\ Whole(s \o Plain(1)) /\ Len(s \o Plain(1)) >= 2 /\ (s \o Plain(1))[2] = Reply(2)
  <2>1. s \in Seq(TlMessageRec) /\ Plain(1) \in Seq(TlMessageRec)
    BY <1>1, <1>3 DEF Whole, Opens
  <2>2. Len(s \o Plain(1)) >= 2 /\ (s \o Plain(1))[2] = s[2]
    BY <1>3, <2>1
  <2> QED BY <1>1, <1>3, <2>2, WholeJoined
<1>4. Open(0)[2] = Reply(2) /\ Len(Open(0)) = 2
  BY DEF Open
<1>5. \A history \in Decided : Whole(history)
  <2>1. /\ Whole(Open(0) \o <<Result(2, "other")>>)
        /\ Whole((Open(0) \o Plain(1)) \o <<Result(2, "other")>>)
        /\ Whole(((Open(0) \o Plain(1)) \o Plain(1)) \o <<Result(2, "other")>>)
    <3> DEFINE once == Open(0) \o Plain(1)
               twice == once \o Plain(1)
    <3>1. Whole(once) /\ Len(once) >= 2 /\ once[2] = Reply(2)
      <4>1. Len(Open(0)) >= 2
        BY <1>4
      <4> QED BY <1>1, <1>3, <1>4, <4>1
    <3>2. Whole(twice) /\ Len(twice) >= 2 /\ twice[2] = Reply(2)
      <4> HIDE DEF once
      <4> QED BY <1>3, <3>1
    <3>3. Whole(Open(0) \o <<Result(2, "other")>>)
      <4>1. Len(Open(0)) >= 2
        BY <1>4
      <4> QED BY <1>1, <1>2, <1>4, <4>1
    <3> HIDE DEF once, twice
    <3>4. Whole(once \o <<Result(2, "other")>>) /\ Whole(twice \o <<Result(2, "other")>>)
      BY <1>2, <3>1, <3>2
    <3> QED BY <3>3, <3>4 DEF once, twice
  <2> QED BY <2>1 DEF Decided
<1>6. Whole((Open(0) \o Plain(1)) \o <<Result(2, "other"), Reply(0)>>)
  <2> DEFINE late == Open(0) \o Plain(1)
             t == <<Result(2, "other"), Reply(0)>>
  <2>1. Whole(late) /\ Len(late) >= 2 /\ late[2] = Reply(2)
    BY <1>1, <1>3, <1>4
  <2>2. /\ Result(2, "other") \in TlMessageRec /\ Result(2, "other").call = 2
        /\ Reply(0) \in TlMessageRec /\ Reply(0).role = "assistant"
    BY MessageTypes DEF TlTool
  <2>3. t \in Seq(TlMessageRec) /\ \A i \in 1..Len(t) : t[i].role = "tool" => t[i].call = 2
    BY <2>2
  <2>4. 2 \in 1..Len(late)
    BY <2>1 DEF Whole, Opens
  <2> HIDE DEF late, t
  <2>5. Whole(late \o t)
    BY <2>1, <2>3, <2>4, JoinWhole
  <2> QED BY <2>5 DEF late, t
<1>7. \A history \in History : history = << >> \/ Whole(history)
  <2>1. /\ Whole(Open(0) \o Plain(1)) /\ Whole(Plain(1) \o Tools(2))
        /\ Whole((Plain(3) \o Plain(1)) \o Plain(1))
    BY <1>c, <1>1, WholeJoined
  <2> QED BY <1>6, <2>1 DEF History
<1> QED BY <1>a, <1>5, <1>7

\* A question is asked.
LEMMA AskedWhole ==
  ASSUME NEW history \in History, NEW size \in Nat
  PROVE  Whole(Append(history, User(size)))
<1>1. User(size) \in TlMessageRec /\ User(size).role = "user"
  BY MessageTypes DEF TlTool
<1>2. CASE history = << >>
  <2>1. Append(history, User(size)) = <<User(size)>>
    BY <1>2
  <2> QED BY <2>1, RestoredWhole
<1>3. CASE Whole(history)
  BY <1>1, <1>3, WholeAppended
<1> QED BY <1>2, <1>3, RestoredWhole

---------------------------------------------------------------------------
(* The invariant *)

\* Who sees the delegation to several specialists sees every tool, and the step that runs
\* the tools is within the limit.
TurnOK(turn) ==
  /\ turn \in TlTurnRec
  /\ "specialists" \in turn.visible => turn.visible = TlTool
  /\ turn.at \in {"begin", "intent"} => turn.steps = 0
  /\ turn.at \in {"tools", "results"} => turn.steps < TlSteps

MessagesOK ==
  /\ tlMessages \in Seq(TlMessageRec)
  /\ tlTurn.at \notin {"begin", "done"} => Whole(tlMessages)
  /\ tlTurn.at = "tools" => \E id \in Nat : tlMessages[Len(tlMessages)] = Reply(id)

CallsOK ==
  /\ SoundCalls(tlPending) /\ tlAsked \subseteq Analyst \X Nat
  /\ TlRoom >= 2 /\ tlTurn.at = "tools" => \A x : x \in tlAsked <=> x \in TasksIn(tlPending)

SubmittedOK ==
  /\ tlSubmitted \in Seq(Analyst \X Nat) /\ Spread(tlSubmitted, Pair)
  /\ TlRoom >= 2 /\ tlTurn.at = "results" /\ ~ tlTurn.failed
       => \A x : x \in tlAsked <=> Has(tlSubmitted, x)

TlInv == TurnOK(tlTurn) /\ MessagesOK /\ CallsOK /\ SubmittedOK

\* Nothing is pending, asked or submitted.
LEMMA Empty ==
  /\ SoundCalls(<< >>) /\ << >> \in Seq(Analyst \X Nat) /\ Spread(<< >>, Pair)
  /\ << >> \in Seq(TlMessageRec)
BY DEF SoundCalls, Spread

LEMMA AfterOK ==
  ASSUME NEW turn, TurnOK(turn)
  PROVE  /\ TurnOK(After(turn)) /\ After(turn).at \in {turn.at, "done"}
         /\ After(turn).visible = turn.visible /\ After(turn).failed = turn.failed
<1> DEFINE t == [turn EXCEPT !.hops = @ + 1]
           d == [t EXCEPT !.at = "done", !.status = "cut"]
<1>0. turn \in TlTurnRec /\ turn.hops \in Nat /\ turn.steps \in 0..TlSteps
  BY DEF TurnOK, TlTurnRec
<1>1. /\ t \in TlTurnRec /\ t.at = turn.at /\ t.visible = turn.visible
      /\ t.steps = turn.steps /\ t.failed = turn.failed
  BY <1>0 DEF TlTurnRec
<1> HIDE DEF t
<1>2. /\ d \in TlTurnRec /\ d.at = "done" /\ d.visible = t.visible
      /\ d.steps = t.steps /\ d.failed = t.failed
  BY <1>1 DEF TlTurnRec
<1> HIDE DEF d
<1>3. After(turn) = t \/ After(turn) = d
  BY Zenon DEF After, t, d
<1>4. TurnOK(t) /\ TurnOK(d)
  BY <1>1, <1>2 DEF TurnOK
<1> QED BY <1>1, <1>2, <1>3, <1>4

\* The turn is over.
LEMMA FinishInv ==
  ASSUME NEW turn, TurnOK(turn), turn.at = "done", Finish(turn)
  PROVE  TlInv'
<1>1. /\ tlTurn' = turn /\ tlMessages' = << >> /\ tlPending' = << >>
      /\ tlAsked' = {} /\ tlSubmitted' = << >>
  BY DEF Finish
<1>2. TurnOK(tlTurn')
  BY <1>1
<1>3. tlTurn'.at = "done"
  BY <1>1
<1> QED BY <1>1, <1>2, <1>3, Empty DEF TlInv, TurnOK, MessagesOK, CallsOK, SubmittedOK

\* The calls of a reply.
LEMMA RespondInv ==
  ASSUME NEW turn, TurnOK(turn), turn.at \in {"tools", "done"}, Whole(tlMessages),
         NEW calls, SoundCalls(calls), NEW asked \in SUBSET (Analyst \X Nat),
         TlRoom >= 2 => \A x : x \in asked <=> x \in TasksIn(calls),
         Respond(turn, calls, asked)
  PROVE  TlInv'
<1>1. CASE turn.at = "done"
  <2>1. Finish(turn)
    BY <1>1 DEF Respond
  <2> QED BY <1>1, <2>1, FinishInv
<1>2. CASE turn.at = "tools"
  <2> DEFINE id == Len(tlMessages) + 1
  <2>1. /\ tlTurn' = turn /\ tlMessages' = Append(tlMessages, Reply(id))
        /\ tlPending' = calls /\ tlAsked' = asked /\ tlSubmitted' = << >>
    BY <1>2 DEF Respond
  <2>2. id \in Nat
    BY DEF Whole, Opens
  <2> HIDE DEF id
  <2>3. Reply(id) \in TlMessageRec /\ Reply(id).role # "tool"
    BY <2>2, MessageTypes DEF TlTool
  <2>4. Whole(tlMessages') /\ tlMessages'[Len(tlMessages')] = Reply(id)
    BY <2>1, <2>3, WholeAppended
  <2>5. TurnOK(tlTurn') /\ tlTurn'.at = "tools"
    BY <1>2, <2>1
  <2>6. MessagesOK'
    <3>1. tlMessages' \in Seq(TlMessageRec)
      BY <2>4 DEF Whole, Opens
    <3> QED BY <2>2, <2>4, <3>1 DEF MessagesOK
  <2>7. CallsOK'
    BY <2>1 DEF CallsOK, TasksIn
  <2>8. SubmittedOK'
    BY <2>1, <2>5, Empty DEF SubmittedOK
  <2> QED BY <2>5, <2>6, <2>7, <2>8 DEF TlInv, TurnOK
<1> QED BY <1>1, <1>2
\* The model is asked with the messages as they are.
LEMMA ModelInv ==
  ASSUME TlInv, Whole(tlMessages), NEW turn, TurnOK(turn), turn.at = "model",
         tlTurn' = After(turn), UNCHANGED <<tlMessages, tlPending>>,
         \/ UNCHANGED <<tlAsked, tlSubmitted>>
         \/ tlAsked' = {} /\ tlSubmitted' = << >>
  PROVE  TlInv'
<1>1. TurnOK(tlTurn') /\ tlTurn'.at \in {"model", "done"}
  BY AfterOK
<1>2. /\ tlMessages' \in Seq(TlMessageRec) /\ Whole(tlMessages') /\ SoundCalls(tlPending')
      /\ tlAsked' \subseteq Analyst \X Nat
      /\ tlSubmitted' \in Seq(Analyst \X Nat) /\ Spread(tlSubmitted', Pair)
  BY Empty DEF TlInv, MessagesOK, CallsOK, SubmittedOK
<1> QED BY <1>1, <1>2 DEF TlInv, TurnOK, MessagesOK, CallsOK, SubmittedOK

LEMMA BeginInv ==
  ASSUME TlInv, TlBegin
  PROVE  TlInv'
<1>1. PICK visible \in {TlTool, TlTool \ {"specialists"}, {"other"}} :
        \E search, data \in BOOLEAN :
          tlTurn' = [tlTurn EXCEPT !.at = "intent", !.visible = visible,
                                   !.search = search, !.data = data]
  BY DEF TlBegin
<1>2. PICK search \in BOOLEAN, data \in BOOLEAN :
        tlTurn' = [tlTurn EXCEPT !.at = "intent", !.visible = visible,
                                 !.search = search, !.data = data]
  BY <1>1
<1>3. /\ tlTurn \in TlTurnRec /\ tlTurn.at = "begin" /\ tlTurn.steps = 0
  BY DEF TlInv, TurnOK, TlBegin
<1>4. visible \in SUBSET TlTool /\ ("specialists" \in visible => visible = TlTool)
  BY DEF TlTool
<1>5. TurnOK(tlTurn') /\ tlTurn'.at = "intent"
  <2>1. tlTurn' \in TlTurnRec /\ tlTurn'.at = "intent" /\ tlTurn'.visible = visible /\ tlTurn'.steps = 0
    BY <1>2, <1>3, <1>4 DEF TlTurnRec
  <2> QED BY <1>4, <2>1 DEF TurnOK
<1>6. Whole(tlMessages')
  <2>1. PICK history \in History, size \in {1, 3} : tlMessages' = Append(history, User(size))
    BY DEF TlBegin
  <2>2. size \in Nat
    OBVIOUS
  <2> QED BY <2>1, <2>2, AskedWhole
<1>7. MessagesOK'
  <2>1. tlMessages' \in Seq(TlMessageRec)
    BY <1>6 DEF Whole, Opens
  <2> QED BY <1>5, <1>6, <2>1 DEF MessagesOK
<1>8. SoundCalls(tlPending') /\ tlAsked' \subseteq Analyst \X Nat
  BY DEF TlInv, CallsOK, TlBegin
<1>9. tlSubmitted' \in Seq(Analyst \X Nat) /\ Spread(tlSubmitted', Pair)
  BY DEF TlInv, SubmittedOK, TlBegin
<1> QED BY <1>5, <1>7, <1>8, <1>9 DEF TlInv, CallsOK, SubmittedOK

\* A decided approval or a resume goes on with what is restored.
LEMMA GoOnInv ==
  ASSUME TlInv, NEW histories, \A history \in histories : Whole(history),
         NEW steps \in {0, 1}, GoOn(histories, steps)
  PROVE  TlInv'
<1>1. PICK visible \in {TlTool, TlTool \ {"specialists"}, {"other"}}, search \in BOOLEAN, data \in BOOLEAN :
        tlTurn' = After([tlTurn EXCEPT !.at = "model", !.visible = visible, !.search = search,
                                       !.data = data, !.steps = steps])
  BY DEF GoOn
<1> DEFINE turn == [tlTurn EXCEPT !.at = "model", !.visible = visible, !.search = search,
                                  !.data = data, !.steps = steps]
<1>2. tlTurn \in TlTurnRec /\ steps \in 0..TlSteps
  BY TlAssumption DEF TlInv, TurnOK
<1>3. visible \in SUBSET TlTool /\ ("specialists" \in visible => visible = TlTool)
  BY DEF TlTool
<1>4. turn \in TlTurnRec /\ turn.at = "model" /\ turn.visible = visible
  BY <1>2, <1>3 DEF TlTurnRec
<1>5. tlTurn' = After(turn)
  BY <1>1
<1> HIDE DEF turn
<1>6. TurnOK(turn)
  BY <1>3, <1>4 DEF TurnOK
<1>7. TurnOK(tlTurn') /\ tlTurn'.at \in {"model", "done"}
  BY <1>4, <1>5, <1>6, AfterOK
<1>8. Whole(tlMessages') /\ tlMessages' \in Seq(TlMessageRec)
  BY DEF GoOn, Whole, Opens
<1>9. /\ SoundCalls(tlPending') /\ tlAsked' \subseteq Analyst \X Nat
      /\ tlSubmitted' \in Seq(Analyst \X Nat) /\ Spread(tlSubmitted', Pair)
  BY DEF TlInv, CallsOK, SubmittedOK, GoOn
<1> QED BY <1>7, <1>8, <1>9 DEF TlInv, MessagesOK, CallsOK, SubmittedOK

LEMMA DecidedInv ==
  ASSUME TlInv, TlDecided \/ TlResume
  PROVE  TlInv'
<1> DEFINE resumed == Decided \cup {Append(history, User(1)) : history \in History}
<1>1. \A history \in Decided : Whole(history)
  BY RestoredWhole
<1>2. \A history \in resumed : Whole(history)
  BY <1>1, AskedWhole
<1>3. GoOn(Decided, 1) \/ GoOn(resumed, 0)
  BY DEF TlDecided, TlResume
<1> HIDE DEF resumed
<1> QED BY <1>1, <1>2, <1>3, GoOnInv

LEMMA ToModelInv ==
  ASSUME TlInv, ToModel
  PROVE  TlInv'
<1> DEFINE turn == [tlTurn EXCEPT !.at = "model"]
<1>1. Whole(tlMessages) /\ TurnOK(tlTurn)
  BY DEF TlInv, MessagesOK, ToModel
<1>2. TurnOK(turn) /\ turn.at = "model"
  BY <1>1 DEF TurnOK, TlTurnRec
<1>3. tlTurn' = After(turn) /\ UNCHANGED <<tlMessages, tlPending, tlAsked, tlSubmitted>>
  BY DEF ToModel
<1> HIDE DEF turn
<1> QED BY <1>1, <1>2, <1>3, ModelInv

LEMMA DirectInv ==
  ASSUME TlInv, IntentDirect
  PROVE  TlInv'
<1> DEFINE turn == [tlTurn EXCEPT !.at = "model", !.direct = TRUE]
<1>1. Whole(tlMessages) /\ TurnOK(tlTurn)
  BY DEF TlInv, MessagesOK, IntentDirect
<1>2. TurnOK(turn) /\ turn.at = "model"
  BY <1>1 DEF TurnOK, TlTurnRec
<1>3. tlTurn' = After(turn) /\ UNCHANGED <<tlMessages, tlPending, tlAsked, tlSubmitted>>
  BY DEF IntentDirect
<1> HIDE DEF turn
<1> QED BY <1>1, <1>2, <1>3, ModelInv

\* The turn ends at a node.
LEMMA EndInv ==
  ASSUME NEW turn, TurnOK(turn), turn.at = "done", Finish(After(turn))
  PROVE  TlInv'
<1>1. TurnOK(After(turn)) /\ After(turn).at = "done"
  BY AfterOK
<1> QED BY <1>1, FinishInv

LEMMA ClarifyInv ==
  ASSUME TlInv, IntentClarify
  PROVE  TlInv'
<1> DEFINE turn == [tlTurn EXCEPT !.at = "done"]
<1>1. TurnOK(turn) /\ turn.at = "done"
  BY DEF TlInv, TurnOK, TlTurnRec
<1>2. Finish(After(turn))
  BY DEF IntentClarify
<1> HIDE DEF turn
<1> QED BY <1>1, <1>2, EndInv

LEMMA BudgetInv ==
  ASSUME TlInv, OverBudget
  PROVE  TlInv'
<1> DEFINE turn == [tlTurn EXCEPT !.at = "done", !.status = "budget_exceeded"]
<1>1. TurnOK(turn) /\ turn.at = "done"
  BY DEF TlInv, TurnOK, TlTurnRec
<1>2. Finish(After(turn))
  BY DEF OverBudget
<1> HIDE DEF turn
<1> QED BY <1>1, <1>2, EndInv

\* The tasks of some calls are objectives of agents.
LEMMA CallTypes ==
  ASSUME NEW calls, SoundCalls(calls)
  PROVE  TasksIn(calls) \in SUBSET (Analyst \X Nat)
<1>1. SUFFICES ASSUME NEW x, x \in TasksIn(calls) PROVE x \in Analyst \X Nat
  BY Zenon
<1>2. calls \in Seq(CallRec)
  BY DEF SoundCalls
<1>3. PICK c : Has(calls, c) /\ x \in CallOf[c]
  BY <1>1, <1>2, InCalls
<1>4. c \in CallRec
  BY <1>2, <1>3 DEF Has
<1>5. Demands(c.tasks, x) /\ c.tasks \in Seq(TaskRec)
  BY <1>3, <1>4, CallAsks DEF CallRec
<1> QED BY <1>5, AsksPair

\* Correcting the calls leaves what they ask for, as far as it fits.
LEMMA CanonicalTasks ==
  ASSUME NEW calls, SoundCalls(calls), SmallCalls(calls)
  PROVE  /\ SoundCalls(Canonical(calls))
         /\ \A i \in 1..Len(calls) : Canonical(calls)[i].tool = calls[i].tool
         /\ TlRoom >= 2 => \A i \in 1..Len(calls) : CallOf[Canonical(calls)[i]] = CallOf[calls[i]]
         /\ Len(Canonical(calls)) = Len(calls)
         /\ TlRoom >= 2 => \A x : x \in TasksIn(Canonical(calls)) <=> x \in TasksIn(calls)
<1>1. \A i \in 1..Len(calls) : calls[i].tool = "specialists" => SmallTasks(calls[i].tasks)
  BY DEF SmallCalls
<1> DEFINE new == Canonical(calls)
<1>2. /\ SoundCalls(new) /\ Len(new) = Len(calls)
      /\ \A i \in 1..Len(calls) : new[i].tool = calls[i].tool
      /\ TlRoom >= 2 => \A i \in 1..Len(calls) : CallOf[new[i]] = CallOf[calls[i]]
  BY <1>1, CanonicalCalls
<1> HIDE DEF new
<1>3. calls \in Seq(CallRec) /\ new \in Seq(CallRec)
  BY <1>2 DEF SoundCalls
<1>4. ASSUME TlRoom >= 2, NEW x PROVE x \in TasksIn(new) <=> x \in TasksIn(calls)
  <2>1. x \in TasksIn(new) <=> \E i \in 1..Len(new) : x \in CallOf[new[i]]
    BY <1>3, InCalls DEF Has
  <2>2. x \in TasksIn(calls) <=> \E i \in 1..Len(calls) : x \in CallOf[calls[i]]
    BY <1>3, InCalls DEF Has
  <2> QED BY <1>2, <1>4, <2>1, <2>2
<1> QED BY <1>2, <1>4 DEF new

LEMMA PlanInv ==
  ASSUME TlInv, IntentPlan
  PROVE  TlInv'
<1>1. PICK plan \in HardMatch \cup SmallPlan :
        LET calls == Normalized(Canonical(plan)) IN
        Respond(After([tlTurn EXCEPT !.at = "tools",
                         !.short = \A i \in DOMAIN calls : calls[i].tool \in Delegation]),
                calls, TasksIn(plan))
  BY DEF IntentPlan
<1> DEFINE calls == Normalized(Canonical(plan))
           short == \A i \in DOMAIN calls : calls[i].tool \in Delegation
           turn == [tlTurn EXCEPT !.at = "tools", !.short = short]
<1>2. SoundCalls(plan) /\ SmallCalls(plan)
  BY PlanSound
<1>3. SoundCalls(calls) /\ (TlRoom >= 2 => \A x : x \in TasksIn(plan) <=> x \in TasksIn(calls))
  BY <1>2, CanonicalTasks, NormalizedCalls
<1>4. TasksIn(plan) \in SUBSET (Analyst \X Nat)
  BY <1>2, CallTypes
<1>5. Respond(After(turn), calls, TasksIn(plan))
  BY <1>1
<1>6. short \in BOOLEAN
  BY Zenon
<1> HIDE DEF short, calls
<1>7. Whole(tlMessages) /\ TurnOK(tlTurn) /\ tlTurn.at = "intent"
  BY DEF TlInv, MessagesOK, IntentPlan
<1>8. TurnOK(turn) /\ turn.at = "tools"
  <2>1. tlTurn \in TlTurnRec /\ tlTurn.steps = 0
    BY <1>7 DEF TurnOK
  <2>2. /\ turn \in TlTurnRec /\ turn.at = "tools" /\ turn.visible = tlTurn.visible
        /\ turn.steps = tlTurn.steps
    BY <1>6, <2>1 DEF TlTurnRec
  <2> HIDE DEF turn
  <2> QED BY <1>7, <2>1, <2>2, TlAssumption DEF TurnOK
<1> HIDE DEF turn
<1>9. TurnOK(After(turn)) /\ After(turn).at \in {"tools", "done"}
  BY <1>8, AfterOK
<1> QED BY <1>3, <1>4, <1>5, <1>7, <1>9, RespondInv
\* What the model asks for is what is run of it: who does not see every tool does not see
\* the delegation that single ones are batched into.
LEMMA ShownTasks ==
  ASSUME TurnOK(tlTurn), NEW given, SoundCalls(given), SmallCalls(given)
  PROVE  LET shown == Those(Normalized(Canonical(given)), LAMBDA call : call.tool \in Schemas)
             asked == Those(given, LAMBDA call : call.tool \in Schemas) IN
         /\ SoundCalls(shown) /\ TasksIn(asked) \in SUBSET (Analyst \X Nat)
         /\ TlRoom >= 2 => \A x : x \in TasksIn(asked) <=> x \in TasksIn(shown)
<1> DEFINE canonical == Canonical(given)
           calls == Normalized(canonical)
           shown == Those(calls, LAMBDA call : call.tool \in Schemas)
           asked == Those(given, LAMBDA call : call.tool \in Schemas)
<1>1. /\ SoundCalls(canonical) /\ Len(canonical) = Len(given)
      /\ \A i \in 1..Len(given) : canonical[i].tool = given[i].tool
      /\ TlRoom >= 2 => /\ \A i \in 1..Len(given) : CallOf[canonical[i]] = CallOf[given[i]]
                        /\ \A x : x \in TasksIn(canonical) <=> x \in TasksIn(given)
  BY CanonicalTasks
<1> HIDE DEF canonical
<1>2. SoundCalls(calls) /\ \A x : x \in TasksIn(calls) <=> x \in TasksIn(canonical)
  BY <1>1, NormalizedCalls
<1>3. "specialists" \notin tlTurn.visible => calls = canonical
  BY DEF Normalized, Batched
<1> HIDE DEF calls
<1>4. SoundCalls(shown) /\ \A c : Has(shown, c) <=> Has(calls, c) /\ c.tool \in Schemas
  BY <1>2, ShownCalls
<1>5. SoundCalls(asked) /\ \A c : Has(asked, c) <=> Has(given, c) /\ c.tool \in Schemas
  BY ShownCalls
<1> HIDE DEF shown, asked
<1>6. /\ given \in Seq(CallRec) /\ canonical \in Seq(CallRec) /\ calls \in Seq(CallRec)
      /\ shown \in Seq(CallRec) /\ asked \in Seq(CallRec)
  BY <1>1, <1>2, <1>4, <1>5 DEF SoundCalls
<1>7. ASSUME TlRoom >= 2, NEW x PROVE x \in TasksIn(asked) <=> x \in TasksIn(shown)
  <2>1. /\ x \in TasksIn(asked) <=> \E c : Has(given, c) /\ c.tool \in Schemas /\ x \in CallOf[c]
        /\ x \in TasksIn(shown) <=> \E c : Has(calls, c) /\ c.tool \in Schemas /\ x \in CallOf[c]
    BY <1>4, <1>5, <1>6, InCalls
  <2>2. CASE tlTurn.direct
    BY <2>1, <2>2 DEF Schemas
  <2>3. CASE ~ tlTurn.direct /\ "specialists" \notin tlTurn.visible
    <3>1. x \in TasksIn(shown)
            <=> \E i \in 1..Len(canonical) : canonical[i].tool \in Schemas /\ x \in CallOf[canonical[i]]
      BY <1>3, <2>1, <2>3 DEF Has
    <3>2. x \in TasksIn(asked)
            <=> \E i \in 1..Len(given) : given[i].tool \in Schemas /\ x \in CallOf[given[i]]
      BY <2>1 DEF Has
    <3> QED BY <1>1, <1>7, <3>1, <3>2
  <2>4. CASE ~ tlTurn.direct /\ "specialists" \in tlTurn.visible
    <3>1. Schemas = TlTool
      BY <2>4 DEF Schemas, TurnOK
    <3>2. \A c : Has(given, c) \/ Has(calls, c) => c.tool \in Schemas
      <4>1. \A c \in CallRec : c.tool \in Schemas
        BY <3>1 DEF CallRec
      <4>2. \A c : Has(given, c) \/ Has(calls, c) => c \in CallRec
        BY <1>6 DEF Has
      <4> QED BY <4>1, <4>2
    <3>3. /\ x \in TasksIn(asked) <=> x \in TasksIn(given)
          /\ x \in TasksIn(shown) <=> x \in TasksIn(calls)
      BY <1>6, <2>1, <3>2, InCalls
    <3> QED BY <1>1, <1>2, <1>7, <3>3
  <2> QED BY <2>2, <2>3, <2>4
<1>8. TasksIn(asked) \in SUBSET (Analyst \X Nat)
  BY <1>5, CallTypes
<1> QED BY <1>4, <1>7, <1>8 DEF asked, shown, calls, canonical

LEMMA ReplyInv ==
  ASSUME TlInv, Model
  PROVE  TlInv'
<1> DEFINE shown(given) == Those(Normalized(Canonical(given)), LAMBDA call : call.tool \in Schemas)
           asked(given) == Those(given, LAMBDA call : call.tool \in Schemas)
           failed == [tlTurn EXCEPT !.at = "done", !.status = "failed"]
           over == [tlTurn EXCEPT !.at = "done"]
           goes == [tlTurn EXCEPT !.at = "tools"]
<1>1. Whole(tlMessages) /\ TurnOK(tlTurn) /\ tlTurn \in TlTurnRec
  BY DEF TlInv, MessagesOK, TurnOK, Model
<1>2. PICK given \in UNION {RecoverDelegation(RecoverSearch(reply)) : reply \in ModelReply} :
        \/ Finish(After(failed))
        \/ Finish(After(over))
        \/ ~ (tlTurn.steps >= TlSteps) /\ Respond(After(goes), shown(given), TasksIn(asked(given)))
  BY Zenon DEF Model
<1>3. SoundCalls(given) /\ SmallCalls(given)
  <2>1. PICK reply \in ModelReply : given \in RecoverDelegation(RecoverSearch(reply))
    OBVIOUS
  <2> QED BY <2>1, GivenSound
<1>4. /\ SoundCalls(shown(given)) /\ TasksIn(asked(given)) \in SUBSET (Analyst \X Nat)
      /\ TlRoom >= 2 => \A x : x \in TasksIn(asked(given)) <=> x \in TasksIn(shown(given))
  BY <1>1, <1>3, ShownTasks
<1> HIDE DEF shown, asked
<1>5. TurnOK(failed) /\ failed.at = "done"
  BY <1>1 DEF TurnOK, TlTurnRec
<1>6. TurnOK(over) /\ over.at = "done"
  BY <1>1 DEF TurnOK, TlTurnRec
<1>7. ~ (tlTurn.steps >= TlSteps) => TurnOK(goes) /\ goes.at = "tools"
  <2>1. /\ goes \in TlTurnRec /\ goes.at = "tools" /\ goes.visible = tlTurn.visible
        /\ goes.steps = tlTurn.steps /\ tlTurn.steps \in Nat
    BY <1>1 DEF TlTurnRec
  <2> HIDE DEF goes
  <2> QED BY <1>1, <2>1, TlAssumption DEF TurnOK
<1> HIDE DEF failed, over, goes
<1>8. CASE Finish(After(failed))
  BY <1>5, <1>8, EndInv
<1>9. CASE Finish(After(over))
  BY <1>6, <1>9, EndInv
<1>10. CASE ~ (tlTurn.steps >= TlSteps) /\ Respond(After(goes), shown(given), TasksIn(asked(given)))
  <2>1. TurnOK(After(goes)) /\ After(goes).at \in {"tools", "done"}
    BY <1>7, <1>10, AfterOK
  <2> QED BY <1>1, <1>4, <1>10, <2>1, RespondInv
<1> QED BY <1>2, <1>8, <1>9, <1>10

LEMMA AfterToolsInv ==
  ASSUME TlInv, AfterTools
  PROVE  TlInv'
<1> DEFINE t == [tlTurn EXCEPT !.steps = @ + 1]
           waits == [t EXCEPT !.at = "done", !.status = "waiting_approval"]
           over == [t EXCEPT !.at = "done"]
           goes == [t EXCEPT !.at = "model", !.short = FALSE, !.failed = FALSE]
<1>1. /\ Whole(tlMessages) /\ TurnOK(tlTurn) /\ tlTurn \in TlTurnRec
      /\ tlTurn.at = "results" /\ tlTurn.steps < TlSteps
  BY DEF TlInv, MessagesOK, TurnOK, AfterTools
<1>2. \/ Finish(After(waits))
      \/ Finish(After(over))
      \/ /\ tlTurn' = After(goes)
         /\ tlAsked' = {} /\ tlSubmitted' = << >>
         /\ UNCHANGED <<tlMessages, tlPending>>
  BY Zenon DEF AfterTools
<1>3. /\ t \in TlTurnRec /\ t.visible = tlTurn.visible
      /\ "specialists" \in t.visible => t.visible = TlTool
  <2>1. tlTurn.steps + 1 \in 0..TlSteps
    BY <1>1, TlAssumption DEF TlTurnRec
  <2>2. t \in TlTurnRec /\ t.visible = tlTurn.visible
    BY <1>1, <2>1 DEF TlTurnRec
  <2> QED BY <1>1, <2>2 DEF TurnOK
<1> HIDE DEF t
<1>4. TurnOK(waits) /\ waits.at = "done"
  BY <1>3 DEF TurnOK, TlTurnRec
<1>5. TurnOK(over) /\ over.at = "done"
  BY <1>3 DEF TurnOK, TlTurnRec
<1>6. TurnOK(goes) /\ goes.at = "model"
  BY <1>3 DEF TurnOK, TlTurnRec
<1> HIDE DEF waits, over, goes
<1> QED BY <1>1, <1>2, <1>4, <1>5, <1>6, EndInv, ModelInv
\* The calls that are done, in their order, and the tasks submitted for each call.
Others(s, waiting) == Those(s, LAMBDA i : i \notin waiting)

Runs(calls, bad, n) ==
  [i \in DOMAIN calls |->
     IF i \notin bad THEN Submitted(calls[i], 3)
     ELSE IF Valid(calls[i]) THEN Submitted(calls[i], n) ELSE << >>]

LEMMA DoneCalls ==
  ASSUME NEW m \in Nat, NEW waiting, NEW s, s = [i \in 1..m |-> i]
  PROVE  Others(s, waiting) \in Seq(1..m)
<1> DEFINE I == {i \in 1..m : i \notin waiting}
           D == [i \in 1..m |-> {i}]
           done == Seqs!FlattenSeq(Kept(s, I))
<1>1. s \in Seq(1..m) /\ Len(s) = m /\ \A i \in 1..m : s[i] = i
  OBVIOUS
<1>2. Spread(s, D)
  BY <1>1 DEF Spread
<1>3. \A i \in 1..m : i \in I <=> i \notin waiting
  OBVIOUS
<1> HIDE DEF I, D
<1>4. done = Others(s, waiting)
  BY <1>1, <1>3 DEF Others, Those, Kept
<1>5. done \in Seq(1..m)
  BY <1>1, <1>2, Picked
<1> QED BY <1>4, <1>5

\* The results of the last reply's calls.
LEMMA ResultsWhole ==
  ASSUME NEW s, Whole(s), NEW id \in Nat, s[Len(s)] = Reply(id),
         NEW m \in Nat, NEW done \in Seq(1..m), NEW tool \in [1..m -> TlTool]
  PROVE  Whole(s \o [k \in DOMAIN done |-> Result(s[Len(s)].call, tool[done[k]])])
<1> DEFINE t == [k \in DOMAIN done |-> Result(s[Len(s)].call, tool[done[k]])]
<1>1. Reply(id).call = id
  BY MessageTypes DEF TlTool
<1>2. s[Len(s)].call = id
  BY <1>1
<1>3. ASSUME NEW k \in 1..Len(done)
      PROVE  LET r == Result(id, tool[done[k]]) IN
             r \in TlMessageRec /\ r.role = "tool" /\ r.call = id
  <2>1. tool[done[k]] \in TlTool
    OBVIOUS
  <2> QED BY <2>1, MessageTypes
<1>4. /\ t \in Seq(TlMessageRec) /\ Len(t) = Len(done)
      /\ \A k \in 1..Len(t) : t[k].role = "tool" /\ t[k].call = id
  <2> DEFINE r(k) == Result(id, tool[done[k]])
  <2>1. t = [k \in 1..Len(done) |-> r(k)]
    BY <1>2
  <2>2. \A k \in 1..Len(done) : r(k) \in TlMessageRec /\ r(k).role = "tool" /\ r(k).call = id
    BY <1>3
  <2> HIDE DEF t, r
  <2> QED BY <2>1, <2>2
<1> HIDE DEF t
<1>5. \A i \in 1..Len(t) : \E j \in 1..Len(s) : s[j] = Reply(t[i].call)
  <2>1. Len(s) \in 1..Len(s)
    BY DEF Whole, Opens
  <2> QED BY <1>4, <2>1
<1>6. Whole(s \o t)
  BY <1>4, <1>5, JoinWhole
<1> QED BY <1>6 DEF t

\* What is submitted for sound calls, some of which may be refused or fail.
LEMMA RunCalls ==
  ASSUME NEW calls, SoundCalls(calls), NEW bad, NEW n \in Nat,
         \A i \in 1..Len(calls) : ~ Valid(calls[i]) => i \in bad
  PROVE  LET all == Seqs!FlattenSeq(Runs(calls, bad, n)) IN
         /\ all \in Seq(Analyst \X Nat) /\ Spread(all, Pair)
         /\ bad = {} => \A x : Has(all, x) <=> x \in TasksIn(calls)
<1> DEFINE part(i) == IF i \notin bad THEN Submitted(calls[i], 3)
                      ELSE IF Valid(calls[i]) THEN Submitted(calls[i], n) ELSE << >>
           parts == Runs(calls, bad, n)
           all == Seqs!FlattenSeq(parts)
<1>1. calls \in Seq(CallRec) /\ DOMAIN calls = 1..Len(calls) /\ \A i \in 1..Len(calls) : Proper(calls[i])
  BY DEF SoundCalls
<1>2. ASSUME NEW i \in 1..Len(calls)
      PROVE  part(i) = << >> \/ \E k \in Nat : part(i) = Submitted(calls[i], k)
  <2>1. \/ part(i) = << >> \/ part(i) = Submitted(calls[i], 3) \/ part(i) = Submitted(calls[i], n)
    BY Zenon
  <2>2. 3 \in Nat
    OBVIOUS
  <2> HIDE DEF part
  <2> QED BY <2>1, <2>2
<1>3. ASSUME NEW i \in 1..Len(calls) PROVE part(i) \in Seq(Analyst \X Nat)
  <2>1. CASE part(i) = << >>
    BY <2>1, Empty
  <2>2. CASE \E k \in Nat : part(i) = Submitted(calls[i], k)
    <3>1. PICK k \in Nat : part(i) = Submitted(calls[i], k)
      BY <2>2
    <3> HIDE DEF part
    <3> QED BY <1>1, <3>1, SubmittedTasks
  <2> QED BY <1>2, <2>1, <2>2
<1>4. bad = {} => \A i \in 1..Len(calls) : part(i) = Submitted(calls[i], 3) /\ Valid(calls[i])
  OBVIOUS
<1>a. parts = [i \in DOMAIN calls |-> part(i)]
  BY DEF Runs
<1> HIDE DEF part, parts
<1>5. /\ parts \in [1..Len(calls) -> Seq(Analyst \X Nat)]
      /\ \A i \in 1..Len(calls) : parts[i] = part(i)
  BY <1>1, <1>3, <1>a
<1>6. /\ all \in Seq(Analyst \X Nat) /\ Spread(all, Pair)
      /\ \A x : Has(all, x) <=> \E i \in 1..Len(calls) : Has(parts[i], x)
  BY <1>2, <1>5, SubmittedCalls
<1> HIDE DEF all
<1>7. ASSUME bad = {}, NEW i \in 1..Len(calls), NEW x
      PROVE  Has(part(i), x) <=> x \in CallOf[calls[i]]
  <2>1. Proper(calls[i]) /\ Valid(calls[i]) /\ part(i) = Submitted(calls[i], 3)
    BY <1>1, <1>4, <1>7
  <2>2. Len(calls[i].tasks) \in Nat /\ (calls[i].tool = "specialists" => Len(calls[i].tasks) \in 1..3)
    BY <2>1 DEF Proper, Valid, SoundTasks
  <2>3. Len(calls[i].tasks) <= 3
    <3>1. CASE calls[i].tool = "specialists"
      <4>1. Len(calls[i].tasks) \in 1..3
        BY <2>2, <3>1
      <4>2. \A k \in 1..3 : k <= 3
        OBVIOUS
      <4> QED BY <4>1, <4>2
    <3>2. CASE calls[i].tool = "subagent"
      <4>1. Len(calls[i].tasks) = 1
        BY <2>1, <3>2 DEF Proper
      <4> QED BY <4>1
    <3>3. CASE calls[i].tool \notin Delegation
      <4>1. Len(calls[i].tasks) = 0
        BY <2>1, <3>3 DEF Proper
      <4> QED BY <4>1
    <3> QED BY <3>1, <3>2, <3>3 DEF Delegation
  <2> QED BY <2>1, <2>3, SubmittedTasks
<1>8. ASSUME bad = {}, NEW x PROVE Has(all, x) <=> x \in TasksIn(calls)
  <2>1. x \in TasksIn(calls) <=> \E i \in 1..Len(calls) : x \in CallOf[calls[i]]
    BY <1>1, InCalls DEF Has
  <2>2. \A i \in 1..Len(calls) : Has(part(i), x) <=> x \in CallOf[calls[i]]
    BY <1>7, <1>8
  <2>3. \A i \in 1..Len(calls) : Has(parts[i], x) <=> Has(part(i), x)
    BY <1>5
  <2>4. Has(all, x) <=> \E i \in 1..Len(calls) : Has(parts[i], x)
    BY <1>6
  <2> QED BY <2>1, <2>2, <2>3, <2>4
<1> QED BY <1>6, <1>8 DEF all, parts

LEMMA RunInv ==
  ASSUME TlInv, RunTools
  PROVE  TlInv'
<1>1. PICK waiting, bad \in SUBSET DOMAIN tlPending, n \in 0..1 :
        LET done == Those([i \in DOMAIN tlPending |-> i], LAMBDA i : i \notin waiting) IN
        /\ waiting \cap bad = {} /\ (bad = {} => n = 0)
        /\ \A i \in waiting : tlPending[i].tool = "other"
        /\ \A i \in DOMAIN tlPending : ~ Valid(tlPending[i]) => i \in bad
        /\ tlMessages' = tlMessages \o
             [k \in DOMAIN done |-> Result(tlMessages[Len(tlMessages)].call, tlPending[done[k]].tool)]
        /\ tlSubmitted' = Seqs!FlattenSeq([i \in DOMAIN tlPending |->
             IF i \notin bad THEN Submitted(tlPending[i], 3)
             ELSE IF Valid(tlPending[i]) THEN Submitted(tlPending[i], n) ELSE << >>])
        /\ tlTurn' = [tlTurn EXCEPT !.at = "results", !.failed = bad # {}, !.waiting = waiting # {}]
  BY DEF RunTools
<1>2. tlTurn.at = "tools" /\ tlPending' = << >> /\ tlAsked' = tlAsked
  BY DEF RunTools
<1>3. /\ TurnOK(tlTurn) /\ tlTurn \in TlTurnRec /\ tlTurn.steps < TlSteps
      /\ Whole(tlMessages) /\ SoundCalls(tlPending) /\ tlAsked \subseteq Analyst \X Nat
      /\ TlRoom >= 2 => \A x : x \in tlAsked <=> x \in TasksIn(tlPending)
  BY <1>2 DEF TlInv, TurnOK, MessagesOK, CallsOK
<1>4. tlPending \in Seq(CallRec) /\ DOMAIN tlPending = 1..Len(tlPending)
  BY <1>3 DEF SoundCalls
<1>5. TurnOK(tlTurn') /\ tlTurn'.at = "results" /\ (~ tlTurn'.failed => bad = {})
  <2> DEFINE failed == bad # {}
             waits == waiting # {}
  <2>1. failed \in BOOLEAN /\ waits \in BOOLEAN
    OBVIOUS
  <2>2. tlTurn' = [tlTurn EXCEPT !.at = "results", !.failed = failed, !.waiting = waits]
    BY <1>1
  <2>3. failed <=> bad # {}
    OBVIOUS
  <2> HIDE DEF failed, waits
  <2>4. /\ tlTurn' \in TlTurnRec /\ tlTurn'.at = "results" /\ tlTurn'.failed = failed
        /\ tlTurn'.visible = tlTurn.visible /\ tlTurn'.steps = tlTurn.steps
    BY <1>3, <2>1, <2>2 DEF TlTurnRec
  <2> QED BY <1>3, <2>3, <2>4 DEF TurnOK
<1>6. Whole(tlMessages')
  <2> DEFINE all == [i \in DOMAIN tlPending |-> i]
             done == Those(all, LAMBDA i : i \notin waiting)
             tool == [i \in 1..Len(tlPending) |-> tlPending[i].tool]
             m == Len(tlPending)
  <2>1. done \in Seq(1..m) /\ m \in Nat
    <3>1. all = [i \in 1..m |-> i] /\ m \in Nat
      BY <1>4
    <3> HIDE DEF all, m
    <3>2. done = Others(all, waiting)
      BY DEF Others
    <3> HIDE DEF done
    <3> QED BY <3>1, <3>2, DoneCalls
  <2>2. tool \in [1..m -> TlTool] /\ \A i \in 1..m : tool[i] = tlPending[i].tool
    <3>1. \A i \in 1..m : tlPending[i].tool \in TlTool
      <4>1. \A i \in 1..m : tlPending[i] \in CallRec
        BY <1>4
      <4>2. \A c \in CallRec : c.tool \in TlTool
        BY DEF CallRec
      <4> QED BY <4>1, <4>2
    <3> QED BY <3>1
  <2>3. PICK id \in Nat : tlMessages[Len(tlMessages)] = Reply(id)
    BY <1>2 DEF TlInv, MessagesOK
  <2>4. tlMessages' = tlMessages \o
          [k \in DOMAIN done |-> Result(tlMessages[Len(tlMessages)].call, tlPending[done[k]].tool)]
    BY <1>1
  <2> HIDE DEF done, all, tool, m
  <2>5. tlMessages' = tlMessages \o
          [k \in DOMAIN done |-> Result(tlMessages[Len(tlMessages)].call, tool[done[k]])]
    <3>1. \A k \in DOMAIN done : tool[done[k]] = tlPending[done[k]].tool
      BY <2>1, <2>2
    <3> QED BY <2>4, <3>1
  <2> QED BY <1>3, <2>1, <2>2, <2>3, <2>5, ResultsWhole
<1>7. MessagesOK'
  <2>1. tlMessages' \in Seq(TlMessageRec)
    BY <1>6 DEF Whole, Opens
  <2> QED BY <1>5, <1>6, <2>1 DEF MessagesOK
<1>8. /\ tlSubmitted' \in Seq(Analyst \X Nat) /\ Spread(tlSubmitted', Pair)
      /\ bad = {} => \A x : Has(tlSubmitted', x) <=> x \in TasksIn(tlPending)
  <2>1. n \in Nat /\ \A i \in 1..Len(tlPending) : ~ Valid(tlPending[i]) => i \in bad
    BY <1>1, <1>4
  <2>2. tlSubmitted' = Seqs!FlattenSeq(Runs(tlPending, bad, n))
    BY <1>1 DEF Runs
  <2> QED BY <1>3, <2>1, <2>2, RunCalls
<1>9. SubmittedOK'
  BY <1>2, <1>3, <1>5, <1>8 DEF SubmittedOK
<1>10. CallsOK'
  BY <1>2, <1>3, <1>5, Empty DEF CallsOK
<1> QED BY <1>5, <1>7, <1>9, <1>10 DEF TlInv

---------------------------------------------------------------------------
(* The theorems *)

LEMMA InitInv == TlInit => TlInv
<1> SUFFICES ASSUME TlInit PROVE TlInv
  OBVIOUS
<1>1. tlTurn = TlNoTurn /\ tlMessages = << >> /\ tlPending = << >> /\ tlAsked = {} /\ tlSubmitted = << >>
  BY DEF TlInit
<1>2. TurnOK(TlNoTurn) /\ TlNoTurn.at = "begin"
  BY TlAssumption DEF TlNoTurn, TurnOK, TlTurnRec
<1> QED BY <1>1, <1>2, Empty DEF TlInv, MessagesOK, CallsOK, SubmittedOK

LEMMA StepInv == TlInv /\ [TlNext]_tlVars => TlInv'
<1> SUFFICES ASSUME TlInv, [TlNext]_tlVars PROVE TlInv'
  OBVIOUS
<1>1. CASE TlBegin
  BY <1>1, BeginInv
<1>11. CASE TlDecided \/ TlResume
  BY <1>11, DecidedInv
<1>2. CASE IntentOff \/ IntentFallback \/ IntentRejected
  <2>1. ToModel
    BY <1>2 DEF IntentOff, IntentFallback, IntentRejected
  <2> QED BY <2>1, ToModelInv
<1>3. CASE IntentDirect
  BY <1>3, DirectInv
<1>4. CASE IntentClarify
  BY <1>4, ClarifyInv
<1>5. CASE IntentPlan
  BY <1>5, PlanInv
<1>6. CASE Model
  BY <1>6, ReplyInv
<1>7. CASE OverBudget
  BY <1>7, BudgetInv
<1>8. CASE RunTools
  BY <1>8, RunInv
<1>9. CASE AfterTools
  BY <1>9, AfterToolsInv
<1>10. CASE UNCHANGED tlVars
  BY <1>10 DEF TlInv, TurnOK, MessagesOK, CallsOK, SubmittedOK, tlVars
<1> QED BY <1>1, <1>2, <1>3, <1>4, <1>5, <1>6, <1>7, <1>8, <1>9, <1>10, <1>11 DEF TlNext

LEMMA Inductive == TlSpec => []TlInv
BY InitInv, StepInv, PTL DEF TlSpec

\* What the invariant says of the types.
LEMMA TurnTypes == TlInv => TlTypeOK
<1> SUFFICES ASSUME TlInv PROVE TlTypeOK
  OBVIOUS
<1>1. tlTurn \in TlTurnRec /\ tlAsked \subseteq Analyst \X Nat
  BY DEF TlInv, TurnOK, CallsOK
<1>2. \A i \in DOMAIN tlMessages : tlMessages[i].role \in {"user", "assistant", "tool"}
  <2>1. tlMessages \in Seq(TlMessageRec)
    BY DEF TlInv, MessagesOK
  <2>2. \A m \in TlMessageRec : m.role \in {"user", "assistant", "tool"}
    BY DEF TlMessageRec
  <2> QED BY <2>1, <2>2
<1>3. \A i \in DOMAIN tlPending : tlPending[i].tool \in TlTool
  <2>1. tlPending \in Seq(CallRec)
    BY DEF TlInv, CallsOK, SoundCalls
  <2>2. \A c \in CallRec : c.tool \in TlTool
    BY DEF CallRec
  <2> QED BY <2>1, <2>2
<1>4. \A i \in DOMAIN tlSubmitted : tlSubmitted[i] \in Analyst \X Nat
  BY DEF TlInv, SubmittedOK
<1> QED BY <1>1, <1>2, <1>3, <1>4 DEF TlTypeOK

\* The state of the graph, the messages, the calls and the tasks have their types.
THEOREM GraphTyped == TlSpec => []TlTypeOK
BY TurnTypes, Inductive, PTL

\* Whatever the history, the calls and their results: what the model is sent starts with a
\* question, holds the current one, has no result without its call, unless the result came
\* after a later question, and keeps to the limits unless the current exchange alone exceeds
\* them (_apply_context_window).
THEOREM WindowStaysWhole == TlSpec => []WindowWhole
<1>1. TlInv => WindowWhole
  <2> SUFFICES ASSUME TlInv, tlTurn.at = "model"
               PROVE  LET w == Window(tlMessages)
                          cut == Len(tlMessages) - Len(w) IN
                      /\ w # << >> /\ w[1].role = "user"
                      /\ \A i \in DOMAIN w : w[i].role = "tool" =>
                           Late(tlMessages, cut + i) \/ \E j \in 1..i : w[j] = Reply(w[i].call)
                      /\ Cardinality(UserAt(w)) \in 1..TlKeep
                      /\ OverLimit(w) => Cardinality(UserAt(w)) = 1
    BY Zenon DEF WindowWhole
  <2> DEFINE w == Window(tlMessages)
             cut == Len(tlMessages) - Len(w)
  <2>1. Whole(tlMessages) /\ Opens(tlMessages)
    BY DEF TlInv, MessagesOK, Whole
  <2>2. /\ Opens(w) /\ EndOf(w, tlMessages) /\ Cardinality(UserAt(w)) \in 1..TlKeep
        /\ OverLimit(w) => Cardinality(UserAt(w)) = 1
    BY <2>1, WindowGood
  <2> HIDE DEF w
  <2>3. /\ w \in Seq(TlMessageRec) /\ 1 <= Len(w) /\ w[1].role = "user" /\ DOMAIN w = 1..Len(w)
        /\ tlMessages \in Seq(TlMessageRec) /\ Len(w) \in Nat /\ Len(tlMessages) \in Nat
        /\ Len(w) <= Len(tlMessages) /\ \A i \in 1..Len(w) : w[i] = tlMessages[cut + i]
    BY <2>1, <2>2 DEF Opens, EndOf
  <2>4. w # << >>
    BY <2>3
  <2>5. ASSUME NEW i \in 1..Len(w), w[i].role = "tool"
        PROVE  Late(tlMessages, cut + i) \/ \E j \in 1..i : w[j] = Reply(w[i].call)
    <3>1. cut \in Nat /\ cut + i \in 1..Len(tlMessages) /\ w[i] = tlMessages[cut + i]
      BY <2>3
    <3>2. PICK j \in 1..(cut + i) : tlMessages[j] = Reply(tlMessages[cut + i].call)
      BY <2>1, <2>5, <3>1 DEF Whole
    <3>3. CASE j <= cut
      <4>1. cut + 1 \in j..(cut + i) /\ 1 \in 1..Len(w) /\ tlMessages[cut + 1] = w[1]
        BY <2>3, <3>1, <3>2, <3>3
      <4> QED BY <2>3, <3>2, <4>1 DEF Late
    <3>4. CASE ~ (j <= cut)
      <4>1. j - cut \in 1..i /\ j - cut \in 1..Len(w) /\ cut + (j - cut) = j
        BY <2>3, <3>1, <3>2, <3>4
      <4>2. w[j - cut] = tlMessages[j]
        BY <2>3, <4>1
      <4> QED BY <3>1, <3>2, <4>1, <4>2
    <3> QED BY <3>3, <3>4
  <2> QED BY <2>2, <2>3, <2>4, <2>5 DEF w
<1> QED BY <1>1, Inductive, PTL

\* However tasks are merged, batched, refused and run: none is submitted twice for a reply
\* (_canonicalize_delegation_arguments, _normalize_specialist_delegations, delegate).
THEOREM NoneTwice ==
  TlSpec => [](\A i, j \in DOMAIN tlSubmitted : tlSubmitted[i] = tlSubmitted[j] => i = j)
<1>1. TlInv => \A i, j \in DOMAIN tlSubmitted : tlSubmitted[i] = tlSubmitted[j] => i = j
  <2>1. SUFFICES ASSUME TlInv, NEW i \in DOMAIN tlSubmitted, NEW j \in DOMAIN tlSubmitted,
                        tlSubmitted[i] = tlSubmitted[j], i # j
                 PROVE  FALSE
    OBVIOUS
  <2>2. /\ tlSubmitted \in Seq(Analyst \X Nat) /\ Spread(tlSubmitted, Pair)
        /\ i \in 1..Len(tlSubmitted) /\ j \in 1..Len(tlSubmitted)
    BY <2>1 DEF TlInv, SubmittedOK
  <2>3. tlSubmitted[i] \in Analyst \X Nat
    BY <2>2
  <2>4. Pair[tlSubmitted[i]] = {tlSubmitted[i]}
    BY <2>3 DEF Pair
  <2>5. Pair[tlSubmitted[i]] \cap Pair[tlSubmitted[i]] = {}
    BY <2>1, <2>2 DEF Spread
  <2> QED BY <2>4, <2>5
<1> QED BY <1>1, Inductive, PTL

\* Where the two objectives that a reply may ask of one specialist fit into its task, what
\* is submitted is what the reply asks for, unless a call fails.
THEOREM DelegatesOnce ==
  ASSUME TlRoom >= 2
  PROVE  TlSpec => []DelegatedOnce
<1>1. TlInv => (tlTurn.at = "results" /\ ~ tlTurn.failed
                 => {tlSubmitted[i] : i \in DOMAIN tlSubmitted} = tlAsked)
  <2>1. SUFFICES ASSUME TlInv, tlTurn.at = "results", ~ tlTurn.failed
                 PROVE  {tlSubmitted[i] : i \in DOMAIN tlSubmitted} = tlAsked
    OBVIOUS
  <2>2. DOMAIN tlSubmitted = 1..Len(tlSubmitted)
    BY <2>1 DEF TlInv, SubmittedOK
  <2>3. \A x : x \in tlAsked <=> \E i \in 1..Len(tlSubmitted) : tlSubmitted[i] = x
    BY <2>1 DEF TlInv, SubmittedOK, Has
  <2> QED BY <2>2, <2>3
<1>2. /\ \A i, j \in DOMAIN tlSubmitted : tlSubmitted[i] = tlSubmitted[j] => i = j
      /\ tlTurn.at = "results" /\ ~ tlTurn.failed
           => {tlSubmitted[i] : i \in DOMAIN tlSubmitted} = tlAsked
      => DelegatedOnce
  BY DEF DelegatedOnce
<1> QED BY <1>1, <1>2, NoneTwice, Inductive, PTL
===============================================================================
