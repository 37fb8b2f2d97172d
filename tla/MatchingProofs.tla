--------------------------- MODULE MatchingProofs ---------------------------
(***************************************************************************)
(* What the operators of Catalog, Matching and Decision compute, for all   *)
(* of their arguments: globs, the flat list of expanded experiments, hosts *)
(* and the catalog.  Recursive functions are reasoned about by induction   *)
(* on a set of natural numbers.                                            *)
(***************************************************************************)
EXTENDS Decision, SequenceTheorems, WellFoundedInduction, TLAPS

-----------------------------------------------------------------------------
(* Induction *)

\* Every non-empty set of natural numbers has a least element.
LEMMA LeastElement ==
    ASSUME NEW T, T \subseteq Nat, T # {}
    PROVE  Min(T) \in T /\ \A y \in T : Min(T) <= y
<1> DEFINE R == {p \in Nat \X Nat : p[1] < p[2]}
<1>1. OpToRel(<, Nat) = R  BY DEF OpToRel
<1>2. IsWellFoundedOn(OpToRel(<, Nat), Nat)  BY NatLessThanWellFounded
<1>3. IsWellFoundedOn(R, Nat)  BY <1>1, <1>2
<1>4. \A x, y \in Nat : x < y => <<x, y>> \in R  OBVIOUS
<1> HIDE DEF R
<1>5. T \subseteq Nat /\ T # {}  OBVIOUS
<1>6. \E x \in T : \A y \in T : ~(<<y, x>> \in R)
  BY <1>3, <1>5, WFMin, Zenon
<1>7. \E x \in T : \A y \in T : x <= y
  <2>1. PICK x \in T : \A y \in T : ~(<<y, x>> \in R)  BY <1>6
  <2>2. ASSUME NEW y \in T  PROVE x <= y
    <3>1. x \in Nat /\ y \in Nat  BY <1>5
    <3>2. ~(y < x)  BY <1>4, <2>1, <3>1
    <3> QED  BY <3>1, <3>2
  <2> QED  BY <2>2
<1> QED  BY <1>7 DEF Min

\* The induction the proofs below use, over a set of natural numbers.
LEMMA SetInduction ==
    ASSUME NEW S, 0 \in S, \A n \in Nat : n \in S => n + 1 \in S
    PROVE  Nat \subseteq S
<1> DEFINE T == Nat \ S
<1> SUFFICES ASSUME T # {} PROVE FALSE
  OBVIOUS
<1>1. T \subseteq Nat  OBVIOUS
<1> HIDE DEF T
<1>2. Min(T) \in T /\ \A y \in T : Min(T) <= y
  BY <1>1, LeastElement
<1> DEFINE x == Min(T)
<1> HIDE DEF x
<1>3. x \in T /\ \A y \in T : x <= y  BY <1>2 DEF x
<1> USE DEF T
<1>4. x # 0 /\ x - 1 \in Nat  BY <1>3
<1>5. x - 1 \notin S  BY <1>3, <1>4
<1> QED  BY <1>3, <1>4, <1>5

-----------------------------------------------------------------------------
(* Globs *)

\* One step of the table of GlobMatch.
FromStep(p, s, from, i) ==
    IF i > Len(p) THEN {Len(s) + 1}
    ELSE IF p[i] = "*" THEN {j \in 1 .. Len(s) + 1 : \E k \in from[i + 1] : j <= k}
         ELSE {j \in 1 .. Len(s) : p[i] \in {"?", s[j]} /\ j + 1 \in from[i + 1]}

FromTable(p, s, from) == from = [i \in 1 .. Len(p) + 1 |-> FromStep(p, s, from, i)]

\* One step of the table of Covers.
LengthsStep(p, s, lengths, i) ==
    IF i = 0 THEN {0}
    ELSE LET shorter == lengths[i - 1]
         IN  IF p[i] = "*" THEN {k \in 0 .. Len(s) : \E j \in shorter : j <= k}
             ELSE {k \in 1 .. Len(s) : k - 1 \in shorter /\ p[i] \in {"?", s[k]}}

LengthsTable(p, s, lengths) == lengths = [i \in 0 .. Len(p) |-> LengthsStep(p, s, lengths, i)]

\* globMatch terminates: its table exists and holds the answer.
LEMMA GlobMatchTable ==
    ASSUME NEW p, NEW s, Len(p) \in Nat, Len(s) \in Nat
    PROVE  \E from : FromTable(p, s, from) /\ (GlobMatch(p, s) <=> 1 \in from[1])
<1> DEFINE n == Len(p)
           Right(f, m) == \A i \in n + 1 - m .. n + 1 : f[i] = FromStep(p, s, f, i)
           S == {m \in Nat : m <= n => \E f : Right(f, m)}
<1>1. n \in Nat  OBVIOUS
<1>2. 0 \in S
  <2> DEFINE f == [i \in {n + 1} |-> {Len(s) + 1}]
  <2>1. f[n + 1] = {Len(s) + 1}  OBVIOUS
  <2> HIDE DEF f
  <2>2. FromStep(p, s, f, n + 1) = {Len(s) + 1}  BY <1>1 DEF FromStep
  <2>3. Right(f, 0)
    <3>1. \A i \in n + 1 - 0 .. n + 1 : i = n + 1  BY <1>1
    <3>2. f[n + 1] = FromStep(p, s, f, n + 1)  BY <2>1, <2>2
    <3> QED  BY <3>1, <3>2
  <2> HIDE DEF Right
  <2> QED  BY <2>3
<1>3. ASSUME NEW m \in Nat, m \in S  PROVE m + 1 \in S
  <2> SUFFICES ASSUME m + 1 <= n PROVE \E f : Right(f, m + 1)
    BY <1>3
  <2>1. PICK f : Right(f, m)  BY <1>3
  <2> DEFINE g == [i \in n - m .. n + 1 |-> IF i = n - m THEN FromStep(p, s, f, i) ELSE f[i]]
  <2>2. \A i \in n - m .. n + 1 : FromStep(p, s, g, i) = FromStep(p, s, f, i)
    <3> SUFFICES ASSUME NEW i \in n - m .. n + 1
                 PROVE  FromStep(p, s, g, i) = FromStep(p, s, f, i)
      OBVIOUS
    <3>1. CASE i <= n
      <4>1. i + 1 \in n - m .. n + 1 /\ i + 1 # n - m  BY <3>1
      <4>2. g[i + 1] = f[i + 1]  BY <4>1
      <4> HIDE DEF g
      <4> QED  BY <3>1, <4>2 DEF FromStep
    <3>2. CASE ~(i <= n)
      <4> HIDE DEF g
      <4> QED  BY <3>2 DEF FromStep
    <3> QED  BY <3>1, <3>2
  <2>3. \A i \in n - m .. n + 1 : g[i] = FromStep(p, s, f, i)
    BY <2>1
  <2>4. Right(g, m + 1)  BY <2>2, <2>3
  <2> QED  BY <2>4
<1> HIDE DEF S
<1>4. n \in S  BY <1>1, <1>2, <1>3, SetInduction
<1>5. PICK f : Right(f, n)  BY <1>1, <1>4 DEF S
<1> DEFINE t == [i \in 1 .. n + 1 |-> f[i]]
<1>6. FromTable(p, s, t)
  <2>1. \A i \in 1 .. n + 1 : FromStep(p, s, t, i) = FromStep(p, s, f, i)
    <3> SUFFICES ASSUME NEW i \in 1 .. n + 1
                 PROVE  FromStep(p, s, t, i) = FromStep(p, s, f, i)
      OBVIOUS
    <3>1. i > Len(p) \/ (i <= n /\ t[i + 1] = f[i + 1])  OBVIOUS
    <3> HIDE DEF t
    <3> QED  BY <3>1 DEF FromStep
  <2>2. t = [i \in 1 .. n + 1 |-> FromStep(p, s, t, i)]  BY <1>5, <2>1
  <2> QED  BY <2>2 DEF FromTable
<1> HIDE DEF t, Right
<1> DEFINE from == CHOOSE x : FromTable(p, s, x)
<1>7. FromTable(p, s, from)  BY <1>6
<1>8. GlobMatch(p, s) <=> 1 \in from[1]
  BY DEF GlobMatch, FromTable, FromStep
<1> QED  BY <1>7, <1>8

\* The reference glob reader terminates as well.
LEMMA CoversTable ==
    ASSUME NEW p, NEW s, Len(p) \in Nat, Len(s) \in Nat
    PROVE  \E lengths : /\ LengthsTable(p, s, lengths)
                        /\ Covers(p, s) <=> Len(s) \in lengths[Len(p)]
<1> DEFINE n == Len(p)
           Left(f, m) == \A i \in 0 .. m : f[i] = LengthsStep(p, s, f, i)
           S == {m \in Nat : m <= n => \E f : Left(f, m)}
<1>1. n \in Nat  OBVIOUS
<1>2. 0 \in S
  <2> DEFINE f == [i \in {0} |-> {0}]
  <2>1. f[0] = {0}  OBVIOUS
  <2> HIDE DEF f
  <2>2. LengthsStep(p, s, f, 0) = {0}  BY DEF LengthsStep
  <2>3. Left(f, 0)
    <3>1. \A i \in 0 .. 0 : i = 0  OBVIOUS
    <3> QED  BY <2>1, <2>2, <3>1
  <2> HIDE DEF Left
  <2> QED  BY <2>3
<1>3. ASSUME NEW m \in Nat, m \in S  PROVE m + 1 \in S
  <2> SUFFICES ASSUME m + 1 <= n PROVE \E f : Left(f, m + 1)
    BY <1>3
  <2>1. PICK f : Left(f, m)  BY <1>3
  <2> DEFINE g == [i \in 0 .. m + 1 |-> IF i = m + 1 THEN LengthsStep(p, s, f, i) ELSE f[i]]
  <2>2. \A i \in 0 .. m + 1 : LengthsStep(p, s, g, i) = LengthsStep(p, s, f, i)
    <3> SUFFICES ASSUME NEW i \in 0 .. m + 1
                 PROVE  LengthsStep(p, s, g, i) = LengthsStep(p, s, f, i)
      OBVIOUS
    <3>1. CASE i # 0
      <4>1. i - 1 \in 0 .. m + 1 /\ i - 1 # m + 1  BY <3>1
      <4>2. g[i - 1] = f[i - 1]  BY <4>1
      <4> HIDE DEF g
      <4> QED  BY <3>1, <4>2 DEF LengthsStep
    <3>2. CASE i = 0
      <4> HIDE DEF g
      <4> QED  BY <3>2 DEF LengthsStep
    <3> QED  BY <3>1, <3>2
  <2>3. \A i \in 0 .. m + 1 : g[i] = LengthsStep(p, s, f, i)
    BY <2>1
  <2>4. Left(g, m + 1)  BY <2>2, <2>3
  <2> QED  BY <2>4
<1> HIDE DEF S
<1>4. n \in S  BY <1>1, <1>2, <1>3, SetInduction
<1>5. PICK f : Left(f, n)  BY <1>1, <1>4 DEF S
<1> DEFINE t == [i \in 0 .. n |-> f[i]]
<1>6. LengthsTable(p, s, t)
  <2>1. \A i \in 0 .. n : LengthsStep(p, s, t, i) = LengthsStep(p, s, f, i)
    <3> SUFFICES ASSUME NEW i \in 0 .. n
                 PROVE  LengthsStep(p, s, t, i) = LengthsStep(p, s, f, i)
      OBVIOUS
    <3>1. i = 0 \/ t[i - 1] = f[i - 1]  OBVIOUS
    <3> HIDE DEF t
    <3> QED  BY <3>1 DEF LengthsStep
  <2>2. t = [i \in 0 .. n |-> LengthsStep(p, s, t, i)]  BY <1>5, <2>1
  <2> QED  BY <2>2 DEF LengthsTable
<1> HIDE DEF t, Left
<1> DEFINE lengths == CHOOSE x : LengthsTable(p, s, x)
<1>7. LengthsTable(p, s, lengths)  BY <1>6
<1>8. Covers(p, s) <=> Len(s) \in lengths[Len(p)]
  BY DEF Covers, LengthsTable, LengthsStep
<1> QED  BY <1>7, <1>8

\* globMatch does what the documentation says of a glob: reading the pattern
\* from the right and from the left gives the same answer, for every pattern
\* and every string.
THEOREM GlobMatchIsCovers ==
    ASSUME NEW p, NEW s, Len(p) \in Nat, Len(s) \in Nat
    PROVE  GlobMatch(p, s) <=> Covers(p, s)
<1>1. PICK from : FromTable(p, s, from) /\ (GlobMatch(p, s) <=> 1 \in from[1])
  BY GlobMatchTable
<1>2. PICK lengths : LengthsTable(p, s, lengths) /\ (Covers(p, s) <=> Len(s) \in lengths[Len(p)])
  BY CoversTable
<1> DEFINE n == Len(p)
           Meet(i) == \E j \in 0 .. Len(s) : j \in lengths[i] /\ j + 1 \in from[i + 1]
           S == {i \in Nat : i <= n => (Meet(0) <=> Meet(i))}
<1>3. n \in Nat /\ Len(s) \in Nat  OBVIOUS
<1>4. /\ \A i \in 1 .. n + 1 : from[i] = FromStep(p, s, from, i)
      /\ \A i \in 0 .. n : lengths[i] = LengthsStep(p, s, lengths, i)
  BY <1>1, <1>2, <1>3 DEF FromTable, LengthsTable
<1>5. ASSUME NEW i \in Nat, i < n  PROVE Meet(i) <=> Meet(i + 1)
  <2>1. from[i + 1] = FromStep(p, s, from, i + 1) /\ lengths[i + 1] = LengthsStep(p, s, lengths, i + 1)
    BY <1>3, <1>4, <1>5
  <2>2. CASE p[i + 1] = "*"
    <3>1. from[i + 1] = {j \in 1 .. Len(s) + 1 : \E k \in from[i + 2] : j <= k}
      BY <1>5, <2>1, <2>2 DEF FromStep
    <3>2. lengths[i + 1] = {k \in 0 .. Len(s) : \E j \in lengths[i] : j <= k}
      BY <1>5, <2>1, <2>2 DEF LengthsStep
    <3>3. from[i + 2] \subseteq 1 .. Len(s) + 1
      <4>1. i + 2 \in 1 .. n + 1  BY <1>3, <1>5
      <4>2. FromStep(p, s, from, i + 2) \subseteq 1 .. Len(s) + 1  BY <1>3 DEF FromStep
      <4> QED  BY <1>4, <4>1, <4>2
    <3>4. lengths[i] \subseteq 0 .. Len(s)
      <4>1. LengthsStep(p, s, lengths, i) \subseteq 0 .. Len(s)  BY <1>3 DEF LengthsStep
      <4> QED  BY <1>3, <1>4, <1>5, <4>1
    <3>5. ASSUME Meet(i)  PROVE Meet(i + 1)
      <4>1. PICK j \in 0 .. Len(s) : j \in lengths[i] /\ j + 1 \in from[i + 1]  BY <3>5
      <4>2. PICK k \in from[i + 2] : j + 1 <= k  BY <3>1, <4>1
      <4>3. k - 1 \in 0 .. Len(s) /\ j <= k - 1  BY <1>3, <3>3, <4>1, <4>2
      <4>4. k - 1 \in lengths[i + 1]  BY <3>2, <4>1, <4>3
      <4> QED  BY <3>3, <4>2, <4>3, <4>4
    <3>6. ASSUME Meet(i + 1)  PROVE Meet(i)
      <4>1. PICK k \in 0 .. Len(s) : k \in lengths[i + 1] /\ k + 1 \in from[i + 2]  BY <3>6
      <4>2. PICK j \in lengths[i] : j <= k  BY <3>2, <4>1
      <4>3. j \in 0 .. Len(s) /\ j + 1 \in from[i + 1]  BY <1>3, <3>1, <3>4, <4>1, <4>2
      <4> QED  BY <4>2, <4>3
    <3> QED  BY <3>5, <3>6
  <2>3. CASE p[i + 1] # "*"
    <3>1. from[i + 1] = {j \in 1 .. Len(s) : p[i + 1] \in {"?", s[j]} /\ j + 1 \in from[i + 2]}
      BY <1>5, <2>1, <2>3 DEF FromStep
    <3>2. lengths[i + 1] = {k \in 1 .. Len(s) : k - 1 \in lengths[i] /\ p[i + 1] \in {"?", s[k]}}
      BY <1>5, <2>1, <2>3 DEF LengthsStep
    <3>3. ASSUME Meet(i)  PROVE Meet(i + 1)
      <4>1. PICK j \in 0 .. Len(s) : j \in lengths[i] /\ j + 1 \in from[i + 1]  BY <3>3
      <4>2. /\ j + 1 \in 1 .. Len(s) /\ (j + 1) + 1 \in from[i + 2]
            /\ p[i + 1] \in {"?", s[j + 1]} /\ (j + 1) - 1 = j
        BY <3>1, <4>1
      <4>3. j + 1 \in lengths[i + 1]  BY <3>2, <4>1, <4>2
      <4> QED  BY <4>2, <4>3
    <3>4. ASSUME Meet(i + 1)  PROVE Meet(i)
      <4>1. PICK k \in 0 .. Len(s) : k \in lengths[i + 1] /\ k + 1 \in from[i + 2]  BY <3>4
      <4>2. /\ k \in 1 .. Len(s) /\ k - 1 \in lengths[i] /\ p[i + 1] \in {"?", s[k]}
            /\ (k - 1) + 1 = k
        BY <3>2, <4>1
      <4>3. k \in from[i + 1]  BY <3>1, <4>1, <4>2
      <4> QED  BY <1>3, <4>2, <4>3
    <3> QED  BY <3>3, <3>4
  <2> QED  BY <2>2, <2>3
<1> HIDE DEF Meet
<1>6. 0 \in S  OBVIOUS
<1>7. ASSUME NEW i \in Nat, i \in S  PROVE i + 1 \in S
  BY <1>3, <1>5, <1>7
<1> HIDE DEF S
<1>8. n \in S  BY <1>3, <1>6, <1>7, SetInduction
<1>9. Meet(0) <=> Meet(n)  BY <1>3, <1>8 DEF S
<1>10. Meet(0) <=> 1 \in from[1]
  <2>1. 0 \in 0 .. n /\ LengthsStep(p, s, lengths, 0) = {0}  BY <1>3 DEF LengthsStep
  <2>2. lengths[0] = {0}  BY <1>4, <2>1
  <2> QED  BY <1>3, <2>2 DEF Meet
<1>11. Meet(n) <=> Len(s) \in lengths[n]
  <2>1. n + 1 \in 1 .. n + 1 /\ FromStep(p, s, from, n + 1) = {Len(s) + 1}
    BY <1>3 DEF FromStep
  <2>2. from[n + 1] = {Len(s) + 1}  BY <1>4, <2>1
  <2>3. lengths[n] \subseteq 0 .. Len(s)
    <3>1. LengthsStep(p, s, lengths, n) \subseteq 0 .. Len(s)  BY <1>3 DEF LengthsStep
    <3> QED  BY <1>3, <1>4, <3>1
  <2> QED  BY <1>3, <2>2, <2>3 DEF Meet
<1> QED  BY <1>1, <1>2, <1>9, <1>10, <1>11

-----------------------------------------------------------------------------
(* Concatenation *)

\* The elements of a sequence put behind another.
LEMMA Concatenation ==
    ASSUME NEW S, NEW s \in Seq(S), NEW t \in Seq(S)
    PROVE  /\ s \o t \in Seq(S) /\ Len(s \o t) = Len(s) + Len(t)
           /\ \A i \in 1 .. Len(s) : (s \o t)[i] = s[i]
           /\ \A i \in 1 .. Len(t) : (s \o t)[Len(s) + i] = t[i]
  OBVIOUS

\* The element put behind a sequence.
LEMMA LastOfConcatenation ==
    ASSUME NEW S, NEW s \in Seq(S), NEW x \in S
    PROVE  (s \o <<x>>)[Len(s) + 1] = x
<1> DEFINE t == <<x>>
<1>1. t \in Seq(S) /\ 1 \in 1 .. Len(t) /\ t[1] = x  OBVIOUS
<1> HIDE DEF t
<1>2. (s \o t)[Len(s) + 1] = t[1]  BY <1>1, Concatenation
<1> QED  BY <1>1, <1>2, Zenon DEF t

\* The elements of flat are those of the first m sequences, in their order:
\* origin tells which sequence an element comes from.
Flattens(seqs, m, flat, origin) ==
    /\ origin \in [DOMAIN flat -> 1 .. m]
    /\ \A a, b \in DOMAIN flat : a <= b => origin[a] <= origin[b]
    /\ \A a \in DOMAIN flat : \E k \in DOMAIN seqs[origin[a]] : flat[a] = seqs[origin[a]][k]
    /\ \A i \in 1 .. m : \A k \in DOMAIN seqs[i] :
          \E a \in DOMAIN flat : origin[a] = i /\ flat[a] = seqs[i][k]

\* One more sequence put behind.
LEMMA FlattensStep ==
    ASSUME NEW S, NEW seqs \in Seq(Seq(S)), NEW m \in Nat, m + 1 <= Len(seqs),
           NEW flat \in Seq(S), NEW origin, Flattens(seqs, m, flat, origin)
    PROVE  \E o : Flattens(seqs, m + 1, flat \o seqs[m + 1], o)
<1> DEFINE t == seqs[m + 1]
           both == flat \o t
           o == [a \in DOMAIN both |-> IF a <= Len(flat) THEN origin[a] ELSE m + 1]
<1>1. t \in Seq(S)  OBVIOUS
<1>2. /\ both \in Seq(S) /\ Len(both) = Len(flat) + Len(t)
      /\ \A a \in 1 .. Len(flat) : both[a] = flat[a]
      /\ \A k \in 1 .. Len(t) : both[Len(flat) + k] = t[k]
  BY <1>1
<1>3. Len(flat) \in Nat /\ Len(t) \in Nat /\ DOMAIN flat = 1 .. Len(flat)
      /\ DOMAIN t = 1 .. Len(t) /\ DOMAIN both = 1 .. Len(flat) + Len(t)
  BY <1>1, <1>2
<1> HIDE DEF both, t
<1>4. origin \in [1 .. Len(flat) -> 1 .. m]  BY <1>3 DEF Flattens
<1>5. \A a \in DOMAIN both : o[a] = IF a <= Len(flat) THEN origin[a] ELSE m + 1
  OBVIOUS
<1>6. o \in [DOMAIN both -> 1 .. m + 1]  BY <1>3, <1>4
<1> HIDE DEF o
<1>7. ASSUME NEW a \in DOMAIN both, NEW b \in DOMAIN both, a <= b  PROVE o[a] <= o[b]
  <2>1. CASE b <= Len(flat)
    <3>1. a \in DOMAIN flat /\ b \in DOMAIN flat  BY <1>3, <1>7, <2>1
    <3>2. origin[a] <= origin[b]  BY <1>7, <3>1 DEF Flattens
    <3> QED  BY <1>3, <1>5, <3>1, <3>2
  <2>2. CASE ~(b <= Len(flat))
    <3>1. o[b] = m + 1 /\ o[a] \in 1 .. m + 1  BY <1>5, <1>6, <2>2
    <3> QED  BY <3>1
  <2> QED  BY <2>1, <2>2
<1>8. ASSUME NEW a \in DOMAIN both
      PROVE  \E k \in DOMAIN seqs[o[a]] : both[a] = seqs[o[a]][k]
  <2>1. CASE a <= Len(flat)
    <3>1. a \in DOMAIN flat  BY <1>3, <2>1
    <3>2. \E k \in DOMAIN seqs[origin[a]] : flat[a] = seqs[origin[a]][k]  BY <3>1 DEF Flattens
    <3>3. o[a] = origin[a] /\ both[a] = flat[a]  BY <1>2, <1>3, <1>5, <2>1, <3>1
    <3> QED  BY <3>2, <3>3
  <2>2. CASE ~(a <= Len(flat))
    <3>0. o[a] = m + 1  BY <1>5, <2>2
    <3>1. a \in Int /\ a - Len(flat) \in 1 .. Len(t)  BY <1>3, <2>2
    <3>2. both[Len(flat) + (a - Len(flat))] = t[a - Len(flat)]  BY <1>2, <3>1
    <3>3. Len(flat) + (a - Len(flat)) = a  BY <1>3
    <3> QED  BY <1>3, <3>0, <3>1, <3>2, <3>3 DEF t
  <2> QED  BY <2>1, <2>2
<1>9. ASSUME NEW i \in 1 .. m + 1, NEW k \in DOMAIN seqs[i]
      PROVE  \E a \in DOMAIN both : o[a] = i /\ both[a] = seqs[i][k]
  <2>1. CASE i <= m
    <3>1. PICK a \in DOMAIN flat : origin[a] = i /\ flat[a] = seqs[i][k]  BY <2>1 DEF Flattens
    <3>2. a \in DOMAIN both /\ a <= Len(flat) /\ both[a] = flat[a]  BY <1>2, <1>3
    <3> QED  BY <1>5, <3>1, <3>2
  <2>2. CASE i = m + 1
    <3>1. k \in 1 .. Len(t)  BY <1>3, <2>2 DEF t
    <3>2. Len(flat) + k \in DOMAIN both /\ both[Len(flat) + k] = t[k]
      <4>1. both[Len(flat) + k] = t[k]  BY <1>2, <3>1, Zenon
      <4> HIDE DEF both, t
      <4>2. Len(flat) + k \in DOMAIN both  BY <1>3, <3>1
      <4> QED  BY <4>1, <4>2
    <3>3. ~(Len(flat) + k <= Len(flat))  BY <1>3, <3>1
    <3>4. o[Len(flat) + k] = m + 1  BY <1>5, <3>2, <3>3
    <3> QED  BY <2>2, <3>2, <3>4 DEF t
  <2> QED  BY <2>1, <2>2
<1>10. Flattens(seqs, m + 1, both, o)  BY <1>6, <1>7, <1>8, <1>9 DEF Flattens
<1> QED  BY <1>10 DEF both, t

\* FlattenSeq keeps every element, adds none, and keeps the order.
LEMMA FlattenSeqFlattens ==
    ASSUME NEW S, NEW seqs \in Seq(Seq(S))
    PROVE  /\ FlattenSeq(seqs) \in Seq(S)
           /\ \E origin : Flattens(seqs, Len(seqs), FlattenSeq(seqs), origin)
<1> DEFINE n == Len(seqs)
           Step(f, i) == IF i = 1 THEN seqs[i] ELSE f[i - 1] \o seqs[i]
           Upto(f, m) == \A i \in 1 .. m : f[i] = Step(f, i)
           T == {m \in Nat : m <= n => \E f : Upto(f, m)}
<1>1. n \in Nat  OBVIOUS
<1>2. CASE n = 0
  <2>1. seqs = <<>> /\ FlattenSeq(seqs) = <<>>  BY <1>2 DEF FlattenSeq
  <2> DEFINE o == [a \in {} |-> 1]
  <2>2. DOMAIN <<>> = {} /\ 1 .. 0 = {} /\ o \in [{} -> {}]  OBVIOUS
  <2> HIDE DEF o
  <2>3. Flattens(seqs, 0, <<>>, o)  BY <2>2 DEF Flattens
  <2>4. FlattenSeq(seqs) \in Seq(S)
    <3>1. <<>> \in Seq(S)  OBVIOUS
    <3> QED  BY <2>1, <3>1, Zenon
  <2>5. Flattens(seqs, Len(seqs), FlattenSeq(seqs), o)  BY <1>2, <2>1, <2>3
  <2> QED  BY <2>4, <2>5
<1>3. CASE n > 0
  <2>1. 0 \in T
    <3> DEFINE f == [i \in {} |-> 1]
    <3>1. Upto(f, 0)  OBVIOUS
    <3> HIDE DEF Upto
    <3> QED  BY <3>1
  <2>2. ASSUME NEW m \in Nat, m \in T  PROVE m + 1 \in T
    <3> SUFFICES ASSUME m + 1 <= n PROVE \E f : Upto(f, m + 1)
      BY <2>2
    <3>1. PICK f : Upto(f, m)  BY <2>2
    <3> DEFINE g == [i \in 1 .. m + 1 |-> IF i = m + 1 THEN Step(f, i) ELSE f[i]]
    <3>2. \A i \in 1 .. m + 1 : i # 1 => g[i - 1] = f[i - 1]  OBVIOUS
    <3>3. \A i \in 1 .. m + 1 : g[i] = Step(f, i)  BY <3>1
    <3> HIDE DEF g
    <3>4. Upto(g, m + 1)  BY <3>2, <3>3
    <3> HIDE DEF Upto
    <3> QED  BY <3>4
  <2> HIDE DEF T
  <2>3. n \in T  BY <1>1, <2>1, <2>2, SetInduction
  <2>4. PICK f : Upto(f, n)  BY <1>1, <2>3 DEF T
  <2> DEFINE Table(x) == x = [i \in 1 .. n |-> Step(x, i)]
             t == [i \in 1 .. n |-> f[i]]
  <2>5. Table(t)
    <3>1. \A i \in 1 .. n : i # 1 => t[i - 1] = f[i - 1]  OBVIOUS
    <3>2. \A i \in 1 .. n : Step(t, i) = Step(f, i)  BY <3>1
    <3>3. t = [i \in 1 .. n |-> Step(t, i)]  BY <2>4, <3>2
    <3> QED  BY <3>3
  <2> HIDE DEF t
  <2> DEFINE flatten == CHOOSE x : Table(x)
  <2>6. Table(flatten)
    <3> HIDE DEF Table
    <3> QED  BY <2>5
  <2>7. FlattenSeq(seqs) = flatten[n]  BY <1>3 DEF FlattenSeq
  <2> HIDE DEF flatten
  <2>8. \A i \in 1 .. n : flatten[i] = Step(flatten, i)  BY <2>6
  <2> DEFINE Q(m) == flatten[m] \in Seq(S) /\ \E o : Flattens(seqs, m, flatten[m], o)
             U == {m \in Nat : m + 1 <= n => Q(m + 1)}
  <2>9. 0 \in U
    <3>1. flatten[1] = seqs[1] /\ seqs[1] \in Seq(S)  BY <1>3, <2>8
    <3> DEFINE o == [a \in DOMAIN seqs[1] |-> 1]
    <3>2. Flattens(seqs, 1, seqs[1], o)
      <4>1. \A i \in 1 .. 1 : i = 1  OBVIOUS
      <4>2. \A a \in DOMAIN seqs[1] : o[a] = 1  OBVIOUS
      <4>3. o \in [DOMAIN seqs[1] -> 1 .. 1]  OBVIOUS
      <4> HIDE DEF o
      <4> QED  BY <4>1, <4>2, <4>3 DEF Flattens
    <3>3. Q(1)  BY <3>1, <3>2
    <3> HIDE DEF Q
    <3> QED  BY <3>3
  <2>10. ASSUME NEW m \in Nat, m \in U  PROVE m + 1 \in U
    <3> SUFFICES ASSUME (m + 1) + 1 <= n PROVE Q((m + 1) + 1)
      BY <2>10
    <3>1. Q(m + 1)  BY <1>1, <2>10
    <3>2. PICK o : Flattens(seqs, m + 1, flatten[m + 1], o)  BY <3>1
    <3>3. flatten[(m + 1) + 1] = flatten[m + 1] \o seqs[(m + 1) + 1]
      <4>1. (m + 1) + 1 \in 1 .. n /\ (m + 1) + 1 # 1 /\ ((m + 1) + 1) - 1 = m + 1  BY <1>1
      <4>2. flatten[(m + 1) + 1] = Step(flatten, (m + 1) + 1)  BY <2>8, <4>1
      <4> QED  BY <4>1, <4>2
    <3>4. seqs[(m + 1) + 1] \in Seq(S)  OBVIOUS
    <3>5. \E x : Flattens(seqs, (m + 1) + 1, flatten[m + 1] \o seqs[(m + 1) + 1], x)
      BY <1>1, <3>1, <3>2, FlattensStep
    <3> QED  BY <3>1, <3>3, <3>4, <3>5
  <2> HIDE DEF U
  <2>11. \A m \in Nat : m \in U  BY <2>9, <2>10, SetInduction, Zenon
  <2>12. n - 1 \in Nat /\ (n - 1) + 1 = n  BY <1>1, <1>3
  <2>13. n - 1 \in U  BY <2>11, <2>12, Zenon
  <2>14. Q(n)  BY <1>1, <2>12, <2>13 DEF U
  <2> QED  BY <2>7, <2>14
<1> QED  BY <1>1, <1>2, <1>3

-----------------------------------------------------------------------------
(* The registry and the catalog *)

\* A field that is left out names neither a provider nor a failure mode.
LEMMA AbsentIsNoName ==
    Absent \notin {"openai", "anthropic", "bedrock", "pinecone", "qdrant",
                   "malformed-json", "max-tokens-truncation", "malformed-tool-use",
                   "empty-response", "rate-limited", "streaming-cutoff", "overloaded",
                   "embeddings-unavailable", "context-length-exceeded", "stream-error",
                   "tool-use-cutoff", "refusal", "request-too-large", "model-timeout",
                   "service-unavailable", "stale-results"}
  BY Zenon DEF Absent

\* The registry, entry by entry.
LEMMA RegistryEntries ==
    /\ ProviderRegistry \in Seq(Registered) /\ Len(ProviderRegistry) = 5
    /\ Registered = {ProviderRegistry[1], ProviderRegistry[2], ProviderRegistry[3],
                     ProviderRegistry[4], ProviderRegistry[5]}
    /\ ProviderRegistry[1].id = "openai" /\ ProviderRegistry[2].id = "anthropic"
    /\ ProviderRegistry[3].id = "bedrock" /\ ProviderRegistry[4].id = "pinecone"
    /\ ProviderRegistry[5].id = "qdrant"
<1>1. Len(ProviderRegistry) = 5 /\ DOMAIN ProviderRegistry = 1 .. 5
  BY DEF ProviderRegistry
<1>2. \A i \in 1 .. 5 : i = 1 \/ i = 2 \/ i = 3 \/ i = 4 \/ i = 5  OBVIOUS
<1>3. Registered = {ProviderRegistry[1], ProviderRegistry[2], ProviderRegistry[3],
                    ProviderRegistry[4], ProviderRegistry[5]}
  BY <1>1, <1>2 DEF Registered
<1>4. ProviderRegistry \in Seq(Registered)
  <2>1. ProviderRegistry = [i \in 1 .. 5 |-> ProviderRegistry[i]]
    BY <1>1, <1>2 DEF ProviderRegistry
  <2>2. \A i \in 1 .. 5 : ProviderRegistry[i] \in Registered  BY <1>1 DEF Registered
  <2> QED  BY <2>1, <2>2
<1>5. /\ ProviderRegistry[1].id = "openai" /\ ProviderRegistry[2].id = "anthropic"
      /\ ProviderRegistry[3].id = "bedrock" /\ ProviderRegistry[4].id = "pinecone"
      /\ ProviderRegistry[5].id = "qdrant"
  BY DEF ProviderRegistry, Provider
<1> QED  BY <1>1, <1>3, <1>4, <1>5

\* A provider is known by its id.
LEMMA ProviderIsItsID ==
    ASSUME NEW p \in Registered
    PROVE  p.id \in ProviderIDs /\ p.id # Absent /\ ProviderByID(p.id) = p
<1>1. p.id # Absent /\ \A q \in Registered : q.id = p.id => q = p
  BY RegistryEntries, AbsentIsNoName
<1> QED  BY <1>1 DEF ProviderIDs, ProviderByID

\* What is expected of a provider's fixture: it makes up a coherent response,
\* and those of the vector databases bring their body.
FixtureOK(id, f) ==
    /\ Len(f.path) \in Nat /\ f.path # <<>>
    /\ FaultIsHTTP(f.fault) /\ FaultValid(f.fault)
    /\ id \in {"pinecone", "qdrant"} => f.fault.body = TRUE

\* The same of what Fixture is applied to.
Coherent(id, path, status, body, cutoff) ==
    /\ Len(path) \in Nat /\ path # <<>>
    /\ status \in {0} \cup 100 .. 599 /\ cutoff \in Nat /\ (status # 0 \/ cutoff > 0)
    /\ id \in {"pinecone", "qdrant"} => body = TRUE

\* What is expected of the fixtures of one mode.
RowOK(row) == \A id \in DOMAIN row : id \in ProviderIDs /\ FixtureOK(id, row[id])

\* Coherent arguments give a coherent fixture.
LEMMA FixtureIsOK ==
    ASSUME NEW id, NEW path, NEW status, NEW headers, NEW body, NEW cutoff,
           Coherent(id, path, status, body, cutoff)
    PROVE  FixtureOK(id, Fixture(path, status, headers, body, cutoff))
<1> DEFINE fixture == Fixture(path, status, headers, body, cutoff)
           fault == [status |-> status, headers |-> headers, body |-> body, cutoff |-> cutoff,
                     errno |-> Absent]
<1>1. fixture.path = path /\ fixture.fault = fault
  BY DEF Fixture, NoFault
<1>2. /\ fault.status = status /\ fault.cutoff = cutoff /\ fault.errno = Absent
      /\ fault.body = body
  OBVIOUS
<1> HIDE DEF fixture, fault
<1>3. FaultIsHTTP(fault) <=> TRUE
  <2>1. fault.status # 0 \/ fault.cutoff > 0  BY <1>2 DEF Coherent
  <2> QED  BY <2>1, Zenon DEF FaultIsHTTP
<1>4. FaultIsSyscall(fault) <=> FALSE  BY <1>2, Zenon DEF FaultIsSyscall
<1>5. FaultValid(fault)
  <2>1. fault.status = 0 \/ fault.status \in 100 .. 599  BY <1>2 DEF Coherent
  <2>2. fault.cutoff >= 0  BY <1>2 DEF Coherent
  <2>3. FaultIsHTTP(fault) = TRUE /\ FaultIsSyscall(fault) = FALSE
    BY <1>3, <1>4 DEF FaultIsHTTP, FaultIsSyscall
  <2> QED  BY <2>1, <2>2, <2>3, Zenon DEF FaultValid
<1>6. FixtureOK(id, fixture)
  BY <1>1, <1>2, <1>3, <1>5, Zenon DEF FixtureOK, Coherent
<1> QED  BY <1>6 DEF fixture

\* A row of coherent fixtures for registered providers is as expected.
LEMMA RowIsOK ==
    /\ \A a : FixtureOK("anthropic", a) => RowOK([anthropic |-> a])
    /\ \A b : FixtureOK("bedrock", b) => RowOK([bedrock |-> b])
    /\ \A o, a : FixtureOK("openai", o) /\ FixtureOK("anthropic", a) =>
          RowOK([openai |-> o, anthropic |-> a])
    /\ \A o, b : FixtureOK("openai", o) /\ FixtureOK("bedrock", b) =>
          RowOK([openai |-> o, bedrock |-> b])
    /\ \A o, a, b : FixtureOK("openai", o) /\ FixtureOK("anthropic", a) /\ FixtureOK("bedrock", b) =>
          RowOK([openai |-> o, anthropic |-> a, bedrock |-> b])
    /\ \A p, q : FixtureOK("pinecone", p) /\ FixtureOK("qdrant", q) =>
          RowOK([pinecone |-> p, qdrant |-> q])
<1>1. /\ "openai" \in ProviderIDs /\ "anthropic" \in ProviderIDs /\ "bedrock" \in ProviderIDs
      /\ "pinecone" \in ProviderIDs /\ "qdrant" \in ProviderIDs
  BY RegistryEntries DEF ProviderIDs
<1>2. ASSUME NEW a, FixtureOK("anthropic", a)  PROVE RowOK([anthropic |-> a])
  BY <1>1, <1>2 DEF RowOK
<1>3. ASSUME NEW b, FixtureOK("bedrock", b)  PROVE RowOK([bedrock |-> b])
  BY <1>1, <1>3 DEF RowOK
<1>4. ASSUME NEW o, NEW a, FixtureOK("openai", o), FixtureOK("anthropic", a)
      PROVE  RowOK([openai |-> o, anthropic |-> a])
  BY <1>1, <1>4 DEF RowOK
<1>5. ASSUME NEW o, NEW b, FixtureOK("openai", o), FixtureOK("bedrock", b)
      PROVE  RowOK([openai |-> o, bedrock |-> b])
  BY <1>1, <1>5 DEF RowOK
<1>6. ASSUME NEW o, NEW a, NEW b, FixtureOK("openai", o), FixtureOK("anthropic", a),
             FixtureOK("bedrock", b)
      PROVE  RowOK([openai |-> o, anthropic |-> a, bedrock |-> b])
  BY <1>1, <1>6 DEF RowOK
<1>7. ASSUME NEW p, NEW q, FixtureOK("pinecone", p), FixtureOK("qdrant", q)
      PROVE  RowOK([pinecone |-> p, qdrant |-> q])
  BY <1>1, <1>7 DEF RowOK
<1> QED  BY <1>2, <1>3, <1>4, <1>5, <1>6, <1>7

\* Every fixture of the catalog is coherent and for a registered provider.
LEMMA CatalogOK ==
    \A mode \in Modes : mode # Absent /\ RowOK(Catalog[mode])
<1> DEFINE Path(s) == Len(s) \in Nat /\ s # <<>>
           Status == {200, 429, 529, 503, 400, 413, 408}
           ok == 200
           tooMany == 429
           overloaded == 529
           unavailable == 503
           badRequest == 400
           tooLarge == 413
           late == 408
           part == 80
<1>1. Path(Chat)  BY DEF Chat
<1>2. Path(Embeddings)  BY DEF Embeddings
<1>3. Path(Messages)  BY DEF Messages
<1>4. Path(V1)  BY DEF V1
<1>5. Path(Model)  BY DEF Model
<1>6. Path(Converse)  BY DEF Converse
<1>7. Path(Invoke)  BY DEF Invoke
<1>8. Path(Query)  BY DEF Query
<1>9. Path(Points)  BY DEF Points
<1>10. ok \in Status  OBVIOUS
<1>11. tooMany \in Status  OBVIOUS
<1>12. overloaded \in Status  OBVIOUS
<1>13. unavailable \in Status  OBVIOUS
<1>14. badRequest \in Status  OBVIOUS
<1>15. tooLarge \in Status  OBVIOUS
<1>16. late \in Status  OBVIOUS
<1>17. /\ \A status \in Status : status \in {0} \cup 100 .. 599 /\ status # 0
       /\ part \in Nat /\ part > 0
  OBVIOUS
<1> HIDE DEF Path, Status, ok, tooMany, overloaded, unavailable, badRequest, tooLarge, late, part
<1> DEFINE Vendors(f) == /\ FixtureOK("openai", f) /\ FixtureOK("anthropic", f)
                         /\ FixtureOK("bedrock", f)
           Made(path, status) == \A headers, body : Vendors(Fixture(path, status, headers, body, 0))
<1>18. ASSUME NEW path, Path(path), NEW status \in Status  PROVE Made(path, status)
  <2> SUFFICES ASSUME NEW headers, NEW body
               PROVE  Vendors(Fixture(path, status, headers, body, 0))
    OBVIOUS
  <2>1. /\ Coherent("openai", path, status, body, 0)
        /\ Coherent("anthropic", path, status, body, 0)
        /\ Coherent("bedrock", path, status, body, 0)
    BY <1>17, <1>18 DEF Coherent, Path
  <2>2. FixtureOK("openai", Fixture(path, status, headers, body, 0))  BY <2>1, FixtureIsOK, Zenon
  <2>3. FixtureOK("anthropic", Fixture(path, status, headers, body, 0))  BY <2>1, FixtureIsOK, Zenon
  <2>4. FixtureOK("bedrock", Fixture(path, status, headers, body, 0))  BY <2>1, FixtureIsOK, Zenon
  <2> QED  BY <2>2, <2>3, <2>4, Zenon
<1>19. ASSUME NEW path, Path(path)
      PROVE  /\ FixtureOK("openai", Fixture(path, 0, FALSE, FALSE, part))
             /\ FixtureOK("anthropic", Fixture(path, 0, FALSE, FALSE, part))
             /\ FixtureOK("pinecone", Fixture(path, ok, FALSE, TRUE, 0))
             /\ FixtureOK("qdrant", Fixture(path, ok, FALSE, TRUE, 0))
  <2>1. /\ Coherent("openai", path, 0, FALSE, part)
        /\ Coherent("anthropic", path, 0, FALSE, part)
        /\ Coherent("pinecone", path, ok, TRUE, 0)
        /\ Coherent("qdrant", path, ok, TRUE, 0)
    BY <1>10, <1>17, <1>19 DEF Coherent, Path
  <2>2. FixtureOK("openai", Fixture(path, 0, FALSE, FALSE, part))  BY <2>1, FixtureIsOK, Zenon
  <2>3. FixtureOK("anthropic", Fixture(path, 0, FALSE, FALSE, part))  BY <2>1, FixtureIsOK, Zenon
  <2>4. FixtureOK("pinecone", Fixture(path, ok, FALSE, TRUE, 0))  BY <2>1, FixtureIsOK, Zenon
  <2>5. FixtureOK("qdrant", Fixture(path, ok, FALSE, TRUE, 0))  BY <2>1, FixtureIsOK, Zenon
  <2> QED  BY <2>2, <2>3, <2>4, <2>5, Zenon
<1> HIDE DEF Made
<1>20. Made(Chat, ok)  BY <1>1, <1>10, <1>18
<1>21. Made(Messages, ok)  BY <1>3, <1>10, <1>18
<1>22. Made(Converse, ok)  BY <1>6, <1>10, <1>18
<1>23. Made(V1, tooMany)  BY <1>4, <1>11, <1>18
<1>24. Made(Model, tooMany)  BY <1>5, <1>11, <1>18
<1>25. Made(V1, overloaded)  BY <1>4, <1>12, <1>18
<1>26. Made(Embeddings, unavailable)  BY <1>2, <1>13, <1>18
<1>27. Made(Invoke, unavailable)  BY <1>7, <1>13, <1>18
<1>28. Made(Chat, badRequest)  BY <1>1, <1>14, <1>18
<1>29. Made(Messages, badRequest)  BY <1>3, <1>14, <1>18
<1>30. Made(Converse, badRequest)  BY <1>6, <1>14, <1>18
<1>31. Made(V1, tooLarge)  BY <1>4, <1>15, <1>18
<1>32. Made(Model, late)  BY <1>5, <1>16, <1>18
<1>33. Made(Model, unavailable)  BY <1>5, <1>13, <1>18
<1> SUFFICES ASSUME NEW mode \in Modes PROVE mode # Absent /\ RowOK(Catalog[mode])
  OBVIOUS
<1>34. mode # Absent
  BY AbsentIsNoName, Zenon DEF Modes, BodyModes
<1>35. CASE mode \in BodyModes
  <2> DEFINE o == Fixture(Chat, ok, FALSE, TRUE, 0)
             a == Fixture(Messages, ok, FALSE, TRUE, 0)
             b == Fixture(Converse, ok, FALSE, TRUE, 0)
  <2>1. FixtureOK("openai", o)  BY <1>20, Zenon DEF Made
  <2>2. FixtureOK("anthropic", a)  BY <1>21, Zenon DEF Made
  <2>3. FixtureOK("bedrock", b)  BY <1>22, Zenon DEF Made
  <2>4. BodyFixtures = [openai |-> o, anthropic |-> a, bedrock |-> b]  BY DEF BodyFixtures, ok
  <2> HIDE DEF o, a, b
  <2>5. RowOK(BodyFixtures)  BY <2>1, <2>2, <2>3, <2>4, RowIsOK
  <2>6. /\ Catalog["malformed-json"] = BodyFixtures /\ Catalog["max-tokens-truncation"] = BodyFixtures
        /\ Catalog["malformed-tool-use"] = BodyFixtures /\ Catalog["empty-response"] = BodyFixtures
    BY DEF Catalog, Modes, BodyModes
  <2>7. Catalog[mode] = BodyFixtures  BY <1>35, <2>6, Zenon DEF BodyModes
  <2> QED  BY <1>34, <2>5, <2>7, Zenon
<1>36. CASE mode = "rate-limited"
  <2> DEFINE o == Fixture(V1, tooMany, TRUE, FALSE, 0)
             a == Fixture(V1, tooMany, TRUE, FALSE, 0)
             b == Fixture(Model, tooMany, TRUE, FALSE, 0)
  <2>1. FixtureOK("openai", o)  BY <1>23, Zenon DEF Made
  <2>2. FixtureOK("anthropic", a)  BY <1>23, Zenon DEF Made
  <2>3. FixtureOK("bedrock", b)  BY <1>24, Zenon DEF Made
  <2>4. Catalog["rate-limited"] = [openai |-> o, anthropic |-> a, bedrock |-> b]
    BY DEF Catalog, Modes, BodyModes, tooMany
  <2> HIDE DEF o, a, b
  <2>5. RowOK([openai |-> o, anthropic |-> a, bedrock |-> b])
    BY <2>1, <2>2, <2>3, RowIsOK
  <2> QED  BY <1>34, <1>36, <2>4, <2>5, Zenon
<1>37. CASE mode = "streaming-cutoff"
  <2> DEFINE o == Fixture(Chat, 0, FALSE, FALSE, part)
             a == Fixture(Messages, 0, FALSE, FALSE, part)
  <2>1. FixtureOK("openai", o)  BY <1>1, <1>19, Zenon
  <2>2. FixtureOK("anthropic", a)  BY <1>3, <1>19, Zenon
  <2>3. Catalog["streaming-cutoff"] = [openai |-> o, anthropic |-> a]
    BY DEF Catalog, Modes, BodyModes, part
  <2> HIDE DEF o, a
  <2>4. RowOK([openai |-> o, anthropic |-> a])
    BY <2>1, <2>2, RowIsOK
  <2> QED  BY <1>34, <1>37, <2>3, <2>4, Zenon
<1>38. CASE mode = "overloaded"
  <2> DEFINE a == Fixture(V1, overloaded, FALSE, FALSE, 0)
  <2>1. FixtureOK("anthropic", a)  BY <1>25, Zenon DEF Made
  <2>2. Catalog["overloaded"] = [anthropic |-> a]
    BY DEF Catalog, Modes, BodyModes, overloaded
  <2> HIDE DEF a
  <2>3. RowOK([anthropic |-> a])
    BY <2>1, RowIsOK
  <2> QED  BY <1>34, <1>38, <2>2, <2>3, Zenon
<1>39. CASE mode = "embeddings-unavailable"
  <2> DEFINE o == Fixture(Embeddings, unavailable, FALSE, FALSE, 0)
             b == Fixture(Invoke, unavailable, TRUE, FALSE, 0)
  <2>1. FixtureOK("openai", o)  BY <1>26, Zenon DEF Made
  <2>2. FixtureOK("bedrock", b)  BY <1>27, Zenon DEF Made
  <2>3. Catalog["embeddings-unavailable"] = [openai |-> o, bedrock |-> b]
    BY DEF Catalog, Modes, BodyModes, unavailable
  <2> HIDE DEF o, b
  <2>4. RowOK([openai |-> o, bedrock |-> b])
    BY <2>1, <2>2, RowIsOK
  <2> QED  BY <1>34, <1>39, <2>3, <2>4, Zenon
<1>40. CASE mode = "context-length-exceeded"
  <2> DEFINE o == Fixture(Chat, badRequest, FALSE, TRUE, 0)
             a == Fixture(Messages, badRequest, FALSE, TRUE, 0)
             b == Fixture(Converse, badRequest, TRUE, TRUE, 0)
  <2>1. FixtureOK("openai", o)  BY <1>28, Zenon DEF Made
  <2>2. FixtureOK("anthropic", a)  BY <1>29, Zenon DEF Made
  <2>3. FixtureOK("bedrock", b)  BY <1>30, Zenon DEF Made
  <2>4. Catalog["context-length-exceeded"] = [openai |-> o, anthropic |-> a, bedrock |-> b]
    BY DEF Catalog, Modes, BodyModes, badRequest
  <2> HIDE DEF o, a, b
  <2>5. RowOK([openai |-> o, anthropic |-> a, bedrock |-> b])
    BY <2>1, <2>2, <2>3, RowIsOK
  <2> QED  BY <1>34, <1>40, <2>4, <2>5, Zenon
<1>41. CASE mode = "stream-error"
  <2> DEFINE a == Fixture(Messages, ok, TRUE, TRUE, 0)
  <2>1. FixtureOK("anthropic", a)  BY <1>21, Zenon DEF Made
  <2>2. Catalog["stream-error"] = [anthropic |-> a]
    BY DEF Catalog, Modes, BodyModes, ok
  <2> HIDE DEF a
  <2>3. RowOK([anthropic |-> a])
    BY <2>1, RowIsOK
  <2> QED  BY <1>34, <1>41, <2>2, <2>3, Zenon
<1>42. CASE mode = "tool-use-cutoff"
  <2> DEFINE a == Fixture(Messages, ok, FALSE, TRUE, 0)
  <2>1. FixtureOK("anthropic", a)  BY <1>21, Zenon DEF Made
  <2>2. Catalog["tool-use-cutoff"] = [anthropic |-> a]
    BY DEF Catalog, Modes, BodyModes, ok
  <2> HIDE DEF a
  <2>3. RowOK([anthropic |-> a])
    BY <2>1, RowIsOK
  <2> QED  BY <1>34, <1>42, <2>2, <2>3, Zenon
<1>43. CASE mode = "refusal"
  <2> DEFINE a == Fixture(Messages, ok, FALSE, TRUE, 0)
  <2>1. FixtureOK("anthropic", a)  BY <1>21, Zenon DEF Made
  <2>2. Catalog["refusal"] = [anthropic |-> a]
    BY DEF Catalog, Modes, BodyModes, ok
  <2> HIDE DEF a
  <2>3. RowOK([anthropic |-> a])
    BY <2>1, RowIsOK
  <2> QED  BY <1>34, <1>43, <2>2, <2>3, Zenon
<1>44. CASE mode = "request-too-large"
  <2> DEFINE a == Fixture(V1, tooLarge, FALSE, FALSE, 0)
  <2>1. FixtureOK("anthropic", a)  BY <1>31, Zenon DEF Made
  <2>2. Catalog["request-too-large"] = [anthropic |-> a]
    BY DEF Catalog, Modes, BodyModes, tooLarge
  <2> HIDE DEF a
  <2>3. RowOK([anthropic |-> a])
    BY <2>1, RowIsOK
  <2> QED  BY <1>34, <1>44, <2>2, <2>3, Zenon
<1>45. CASE mode = "model-timeout"
  <2> DEFINE b == Fixture(Model, late, TRUE, FALSE, 0)
  <2>1. FixtureOK("bedrock", b)  BY <1>32, Zenon DEF Made
  <2>2. Catalog["model-timeout"] = [bedrock |-> b]
    BY DEF Catalog, Modes, BodyModes, late
  <2> HIDE DEF b
  <2>3. RowOK([bedrock |-> b])
    BY <2>1, RowIsOK
  <2> QED  BY <1>34, <1>45, <2>2, <2>3, Zenon
<1>46. CASE mode = "service-unavailable"
  <2> DEFINE b == Fixture(Model, unavailable, TRUE, FALSE, 0)
  <2>1. FixtureOK("bedrock", b)  BY <1>33, Zenon DEF Made
  <2>2. Catalog["service-unavailable"] = [bedrock |-> b]
    BY DEF Catalog, Modes, BodyModes, unavailable
  <2> HIDE DEF b
  <2>3. RowOK([bedrock |-> b])
    BY <2>1, RowIsOK
  <2> QED  BY <1>34, <1>46, <2>2, <2>3, Zenon
<1>47. CASE mode = "stale-results"
  <2> DEFINE p == Fixture(Query, ok, FALSE, TRUE, 0)
             q == Fixture(Points, ok, FALSE, TRUE, 0)
  <2>1. FixtureOK("pinecone", p)  BY <1>8, <1>19, Zenon
  <2>2. FixtureOK("qdrant", q)  BY <1>9, <1>19, Zenon
  <2>3. Catalog["stale-results"] = [pinecone |-> p, qdrant |-> q]
    BY DEF Catalog, Modes, BodyModes, ok
  <2> HIDE DEF p, q
  <2>4. RowOK([pinecone |-> p, qdrant |-> q])
    BY <2>1, <2>2, RowIsOK
  <2> QED  BY <1>34, <1>47, <2>3, <2>4, Zenon
<1> QED
  BY <1>34, <1>35, <1>36, <1>37, <1>38, <1>39, <1>40, <1>41, <1>42, <1>43, <1>44, <1>45, <1>46, <1>47, Zenon DEF Modes

-----------------------------------------------------------------------------
(* Expansion *)

\* ProvidersForMode lists the registered providers in scope, and no other.
LEMMA ProvidersForModeIs ==
    ASSUME NEW mode, NEW scope
    PROVE  /\ ProvidersForMode(mode, scope) \in Seq(Registered)
           /\ \A p : (\E i \in DOMAIN ProvidersForMode(mode, scope) :
                         p = ProvidersForMode(mode, scope)[i]) <=>
                     p \in Registered /\ InScope(p, mode, scope)
<1> DEFINE Row(i) == IF InScope(ProviderRegistry[i], mode, scope) THEN <<ProviderRegistry[i]>> ELSE <<>>
           rows == [i \in DOMAIN ProviderRegistry |-> Row(i)]
           flat == ProvidersForMode(mode, scope)
<1>1. flat = FlattenSeq(rows)  BY DEF ProvidersForMode
<1>2. /\ DOMAIN ProviderRegistry = 1 .. 5
      /\ \A i \in 1 .. 5 : ProviderRegistry[i] \in Registered
      /\ \A p \in Registered : \E i \in 1 .. 5 : p = ProviderRegistry[i]
  BY RegistryEntries DEF Registered
<1>3. \A i \in 1 .. 5 : Row(i) \in Seq(Registered)  BY <1>2
<1>4. \A i \in 1 .. 5 : \A k \in DOMAIN Row(i) :
         Row(i)[k] = ProviderRegistry[i] /\ InScope(ProviderRegistry[i], mode, scope)
  OBVIOUS
<1>5. \A i \in 1 .. 5 : InScope(ProviderRegistry[i], mode, scope) =>
         1 \in DOMAIN Row(i) /\ Row(i)[1] = ProviderRegistry[i]
  OBVIOUS
<1> HIDE DEF Row, flat
<1>6. rows \in Seq(Seq(Registered)) /\ Len(rows) = 5 /\ \A i \in 1 .. 5 : rows[i] = Row(i)
  BY <1>2, <1>3
<1> HIDE DEF rows
<1>7. PICK origin : Flattens(rows, 5, flat, origin)
  BY <1>1, <1>6, FlattenSeqFlattens
<1>8. flat \in Seq(Registered)  BY <1>1, <1>6, FlattenSeqFlattens
<1>9. ASSUME NEW a \in DOMAIN flat
      PROVE  flat[a] \in Registered /\ InScope(flat[a], mode, scope)
  <2>1. origin[a] \in 1 .. 5 /\ \E k \in DOMAIN rows[origin[a]] : flat[a] = rows[origin[a]][k]
    BY <1>7 DEF Flattens
  <2> QED  BY <1>2, <1>4, <1>6, <2>1
<1>10. ASSUME NEW p \in Registered, InScope(p, mode, scope)
       PROVE  \E a \in DOMAIN flat : p = flat[a]
  <2>1. PICK i \in 1 .. 5 : p = ProviderRegistry[i]  BY <1>2
  <2>2. 1 \in DOMAIN rows[i] /\ rows[i][1] = p  BY <1>5, <1>6, <1>10, <2>1
  <2>3. PICK a \in DOMAIN flat : origin[a] = i /\ flat[a] = rows[i][1]
    BY <1>7, <2>2 DEF Flattens
  <2> QED  BY <2>2, <2>3
<1> QED  BY <1>8, <1>9, <1>10 DEF flat

\* What one experiment of a scenario is expanded to, as a set.
Expansions(exp, providerScope) ==
    IF ~IsFixtureDriven(exp) THEN {exp}
    ELSE {Realize(exp, p) :
             p \in {q \in Registered : InScope(q, exp.failure, Scope(exp, providerScope))}}

\* ExpandOne lists the expansions.
LEMMA ExpandOneIs ==
    ASSUME NEW exp, NEW providerScope
    PROVE  LET one == ExpandOne(exp, providerScope)
           IN  /\ one \in Seq(Expansions(exp, providerScope))
               /\ \A x \in Expansions(exp, providerScope) : \E k \in DOMAIN one : one[k] = x
<1> DEFINE one == ExpandOne(exp, providerScope)
           providers == ProvidersForMode(exp.failure, Scope(exp, providerScope))
<1>1. CASE ~IsFixtureDriven(exp)
  <2>1. one = <<exp>> /\ Expansions(exp, providerScope) = {exp}
    BY <1>1 DEF ExpandOne, Expansions
  <2>2. one \in Seq({exp}) /\ 1 \in DOMAIN one /\ one[1] = exp  BY <2>1
  <2> HIDE DEF one
  <2> QED  BY <2>1, <2>2 DEF one
<1>2. CASE IsFixtureDriven(exp)
  <2>1. one = [i \in DOMAIN providers |-> Realize(exp, providers[i])]
    BY <1>2 DEF ExpandOne
  <2>2. Expansions(exp, providerScope) =
           {Realize(exp, p) : p \in {q \in Registered : InScope(q, exp.failure, Scope(exp, providerScope))}}
    BY <1>2 DEF Expansions
  <2>3. providers \in Seq(Registered)  BY ProvidersForModeIs
  <2>4. \A p : (\E i \in DOMAIN providers : p = providers[i]) <=>
               p \in Registered /\ InScope(p, exp.failure, Scope(exp, providerScope))
    BY ProvidersForModeIs
  <2> HIDE DEF one, providers
  <2>5. DOMAIN one = DOMAIN providers /\ DOMAIN providers = 1 .. Len(providers) /\ Len(providers) \in Nat
    BY <2>1, <2>3
  <2>6. \A i \in DOMAIN one : one[i] = Realize(exp, providers[i])  BY <2>1
  <2>7. \A i \in DOMAIN one : one[i] \in Expansions(exp, providerScope)
    BY <2>2, <2>4, <2>5, <2>6
  <2>8. one \in Seq(Expansions(exp, providerScope))
    <3> DEFINE E == Expansions(exp, providerScope)
    <3>1. \A i \in 1 .. Len(providers) : one[i] \in E  BY <2>5, <2>7
    <3>2. one = [i \in 1 .. Len(providers) |-> Realize(exp, providers[i])]  BY <2>1, <2>5
    <3> HIDE DEF E
    <3>3. one \in Seq(E)  BY <2>5, <3>1, <3>2
    <3> QED  BY <3>3 DEF E
  <2>9. ASSUME NEW x \in Expansions(exp, providerScope)
        PROVE  \E k \in DOMAIN one : one[k] = x
    <3>1. PICK p \in Registered : x = Realize(exp, p) /\ InScope(p, exp.failure, Scope(exp, providerScope))
      BY <2>2, <2>9
    <3>2. PICK i \in DOMAIN providers : p = providers[i]  BY <2>4, <3>1
    <3> QED  BY <2>5, <2>6, <3>1, <3>2
  <2> QED  BY <2>8, <2>9 DEF one
<1> QED  BY <1>1, <1>2

\* The expanded scenario keeps the order of the YAML: origin tells the
\* experiment that each of its elements was expanded from.
Origin(exps, providerScope, flat, origin) ==
    /\ flat \in Seq(UNION {Expansions(exps[i], providerScope) : i \in DOMAIN exps})
    /\ origin \in [DOMAIN flat -> DOMAIN exps]
    /\ \A a, b \in DOMAIN flat : a <= b => origin[a] <= origin[b]
    /\ \A a \in DOMAIN flat : flat[a] \in Expansions(exps[origin[a]], providerScope)
    /\ \A i \in DOMAIN exps : \A x \in Expansions(exps[i], providerScope) :
          \E a \in DOMAIN flat : origin[a] = i /\ flat[a] = x

\* ExpandScenario lists every expansion of every experiment, and no other, in
\* the order of the experiments.
THEOREM ExpandScenarioIs ==
    ASSUME NEW Exp, NEW exps \in Seq(Exp), NEW providerScope
    PROVE  \E origin : Origin(exps, providerScope, ExpandScenario(exps, providerScope), origin)
<1> DEFINE n == Len(exps)
           E(i) == Expansions(exps[i], providerScope)
           S == UNION {E(i) : i \in DOMAIN exps}
           rows == [i \in DOMAIN exps |-> ExpandOne(exps[i], providerScope)]
           flat == ExpandScenario(exps, providerScope)
<1>1. flat = FlattenSeq(rows)  BY DEF ExpandScenario
<1>2. DOMAIN exps = 1 .. n /\ n \in Nat  OBVIOUS
<1>3. \A i \in 1 .. n : /\ rows[i] \in Seq(E(i))
                        /\ \A x \in E(i) : \E k \in DOMAIN rows[i] : rows[i][k] = x
  BY <1>2, ExpandOneIs
<1> HIDE DEF E, flat
<1>4. \A i \in 1 .. n : rows[i] \in Seq(S)
  <2> SUFFICES ASSUME NEW i \in 1 .. n PROVE rows[i] \in Seq(S)
    OBVIOUS
  <2>1. E(i) \subseteq S  BY <1>2
  <2>2. rows[i] \in Seq(E(i))  BY <1>3
  <2> HIDE DEF S, rows
  <2> QED  BY <2>1, <2>2
<1>5. rows \in Seq(Seq(S)) /\ Len(rows) = n
  <2>1. rows = [i \in 1 .. n |-> rows[i]]  BY <1>2
  <2> HIDE DEF S, rows
  <2> QED  BY <1>2, <1>4, <2>1
<1> HIDE DEF S, rows, n
<1>6. flat \in Seq(S)  BY <1>1, <1>5, FlattenSeqFlattens
<1>7. PICK origin : Flattens(rows, n, flat, origin)
  BY <1>1, <1>5, FlattenSeqFlattens
<1>8. ASSUME NEW a \in DOMAIN flat
      PROVE  flat[a] \in E(origin[a])
  <2>1. origin[a] \in 1 .. n /\ \E k \in DOMAIN rows[origin[a]] : flat[a] = rows[origin[a]][k]
    BY <1>7 DEF Flattens
  <2> QED  BY <1>3, <2>1
<1>9. ASSUME NEW i \in DOMAIN exps, NEW x \in E(i)
      PROVE  \E a \in DOMAIN flat : origin[a] = i /\ flat[a] = x
  <2>1. PICK k \in DOMAIN rows[i] : rows[i][k] = x  BY <1>2, <1>3
  <2> QED  BY <1>2, <1>7, <2>1 DEF Flattens
<1>10. /\ origin \in [DOMAIN flat -> DOMAIN exps]
       /\ \A a, b \in DOMAIN flat : a <= b => origin[a] <= origin[b]
  BY <1>2, <1>7 DEF Flattens
<1>11. Origin(exps, providerScope, flat, origin)
  BY <1>6, <1>8, <1>9, <1>10 DEF Origin, S, E
<1> QED  BY <1>11 DEF flat

-----------------------------------------------------------------------------
(* What expansion makes of an experiment *)

\* The upstreams of the registry are host globs that are not empty.
LEMMA UpstreamsArePatterns ==
    \A p \in Registered : Len(p.upstream) \in Nat \ {0} /\ p.upstream # <<>>
<1>1. \A i \in 1 .. 5 :
         /\ Len(ProviderRegistry[i].upstream) \in Nat \ {0}
         /\ ProviderRegistry[i].upstream # <<>>
  <2>1. \A i \in 1 .. 5 : i = 1 \/ i = 2 \/ i = 3 \/ i = 4 \/ i = 5  OBVIOUS
  <2>2. /\ Len(ProviderRegistry[1].upstream) = 5 /\ Len(ProviderRegistry[2].upstream) = 5
        /\ Len(ProviderRegistry[3].upstream) = 7 /\ Len(ProviderRegistry[4].upstream) = 5
        /\ Len(ProviderRegistry[5].upstream) = 7
    BY DEF ProviderRegistry, Provider
  <2>3. Len(<<>>) = 0  OBVIOUS
  <2>4. \A s : Len(s) = 5 \/ Len(s) = 7 => Len(s) \in Nat \ {0} /\ s # <<>>  BY <2>3
  <2> QED  BY <2>1, <2>2, <2>4, Zenon
<1>2. \A p \in Registered : \E i \in 1 .. 5 : p = ProviderRegistry[i]
  BY RegistryEntries
<1> QED  BY <1>1, <1>2

\* The fixtures in scope are those of the catalog, and they are coherent.
LEMMA FixtureInScope ==
    ASSUME NEW mode, NEW id \in ProvidersWith(mode)
    PROVE  mode \in Modes /\ id \in ProviderIDs /\ FixtureOK(id, Catalog[mode][id])
<1>1. mode \in Modes /\ id \in DOMAIN Catalog[mode]  BY DEF ProvidersWith, KnownMode
<1> QED  BY <1>1, CatalogOK DEF RowOK

\* The fields of a realized experiment.
LEMMA RealizeFields ==
    ASSUME NEW exp \in ExperimentType, NEW p
    PROVE  LET x == Realize(exp, p)
               fixture == Catalog[exp.failure][p.id]
           IN  /\ x.name = exp.name \o <<p.id>> /\ x.failure = Absent /\ x.provider = Absent
               /\ x.fault = fixture.fault /\ x.probability = exp.probability
               /\ x.match.host = p.upstream /\ x.match.path = fixture.path
               /\ x.match.syscall = Absent
  BY DEF ExperimentType, Realize, NoMatch

\* Whatever the failure mode and the provider, a realized experiment is a raw
\* one that Validate accepts.
LEMMA RealizeIsValid ==
    ASSUME NEW exp \in ExperimentType, ExperimentValid(exp), NEW p \in Registered,
           p.id \in ProvidersWith(exp.failure)
    PROVE  ExperimentValid(Realize(exp, p)) /\ ~IsFixtureDriven(Realize(exp, p))
<1> DEFINE x == Realize(exp, p)
           fixture == Catalog[exp.failure][p.id]
<1>1. /\ x.name = exp.name \o <<p.id>> /\ x.failure = Absent /\ x.provider = Absent
      /\ x.fault = fixture.fault /\ x.probability = exp.probability
      /\ x.match.host = p.upstream /\ x.match.path = fixture.path
      /\ x.match.syscall = Absent
  BY RealizeFields
<1>2. FixtureOK(p.id, fixture)  BY FixtureInScope
<1>3. x.name # <<>>
  <2>1. exp.name \in Seq(Word)  BY DEF ExperimentType
  <2>2. Len(exp.name \o <<p.id>>) = Len(exp.name) + 1  BY <2>1
  <2>3. Len(exp.name \o <<p.id>>) # Len(<<>>)  BY <2>1, <2>2
  <2> QED  BY <1>1, <2>3
<1> HIDE DEF x, fixture
<1>4. x.probability \in 0 .. Certain  BY <1>1 DEF ExperimentValid
<1>5. ~IsFixtureDriven(x)  BY <1>1 DEF IsFixtureDriven
<1>6. x.match.path # <<>>  BY <1>1, <1>2 DEF FixtureOK
<1>7. (MatchIsHTTP(x.match) <=> TRUE) /\ (MatchIsSyscall(x.match) <=> FALSE)
  BY <1>1, <1>6, Zenon DEF MatchIsHTTP, MatchIsSyscall
<1>8. MatchIsHTTP(x.match) = TRUE /\ MatchIsSyscall(x.match) = FALSE
  BY <1>7 DEF MatchIsHTTP, MatchIsSyscall
<1>9. FaultValid(x.fault) /\ FaultIsHTTP(x.fault)
  BY <1>1, <1>2, Zenon DEF FixtureOK
<1>10. MatchValid(x.match)  BY <1>8, Zenon DEF MatchValid
<1>11. FaultIsHTTP(x.fault) = MatchIsHTTP(x.match)
  BY <1>7, <1>9 DEF FaultIsHTTP, MatchIsHTTP
<1>12. RawValid(x)  BY <1>1, <1>9, <1>10, <1>11, Zenon DEF RawValid
<1> QED  BY <1>3, <1>4, <1>5, <1>12, Zenon DEF ExperimentValid, x

\* Every experiment that a valid one is expanded to is valid and raw.
LEMMA ExpansionsAreValid ==
    ASSUME NEW exp \in ExperimentType, ExperimentValid(exp), NEW providerScope,
           NEW x \in Expansions(exp, providerScope)
    PROVE  ExperimentValid(x) /\ ~IsFixtureDriven(x)
<1>1. CASE ~IsFixtureDriven(exp)
  BY <1>1 DEF Expansions
<1>2. CASE IsFixtureDriven(exp)
  <2>1. PICK p \in Registered : x = Realize(exp, p) /\ InScope(p, exp.failure, Scope(exp, providerScope))
    BY <1>2 DEF Expansions
  <2>2. p.id \in ProvidersWith(exp.failure)  BY <2>1 DEF InScope
  <2> QED  BY <2>1, <2>2, RealizeIsValid
<1> QED  BY <1>1, <1>2

-----------------------------------------------------------------------------
(* Hosts *)

\* The empty glob covers the empty host alone.
LEMMA EmptyGlob ==
    ASSUME NEW s, Len(s) \in Nat
    PROVE  Covers(<<>>, s) <=> Len(s) = 0
<1>1. Len(<<>>) = 0  OBVIOUS
<1>2. PICK lengths : LengthsTable(<<>>, s, lengths) /\ (Covers(<<>>, s) <=> Len(s) \in lengths[0])
  BY <1>1, CoversTable
<1>3. lengths[0] = LengthsStep(<<>>, s, lengths, 0)  BY <1>1, <1>2 DEF LengthsTable
<1>4. LengthsStep(<<>>, s, lengths, 0) = {0}  BY DEF LengthsStep
<1> QED  BY <1>2, <1>3, <1>4

\* However a client writes a host, with capitals, a trailing dot or a port, the
\* matcher sees its plain form.
LEMMA NormalizeUndoesRawHost ==
    ASSUME NEW request \in RequestType,
           \A i \in DOMAIN request.host : request.host[i] \notin {":", "OPENAI"},
           Last(request.host) # "."
    PROVE  NormalizeHost(RawHost(request)) = request.host
<1> DEFINE host == request.host
           n == Len(host)
           written == [i \in DOMAIN host |->
                          IF request.capitals /\ host[i] = "openai" THEN "OPENAI" ELSE host[i]]
           dot == IF request.dot THEN <<".">> ELSE <<>>
           port == IF request.port THEN <<":", "443">> ELSE <<>>
<1>1. host \in Seq(Word) /\ host # <<>>  BY DEF RequestType
<1>2. n \in Nat /\ n > 0 /\ DOMAIN host = 1 .. n  BY <1>1
<1> DEFINE W == Word \cup {"OPENAI", ".", ":", "443"}
<1>3. \A i \in 1 .. n : host[i] \in Word  BY <1>1, <1>2
<1>4. \A i \in 1 .. n : /\ written[i] \in W /\ Lower(written[i]) = host[i] /\ written[i] # ":"
                        /\ host[i] # "." => written[i] # "."
  BY <1>2, <1>3 DEF Lower
<1>5. written = [i \in 1 .. n |-> written[i]]  BY <1>2
<1>6. /\ (request.dot /\ dot = <<".">>) \/ (~request.dot /\ dot = <<>>)
      /\ (request.port /\ port = <<":", "443">>) \/ (~request.port /\ port = <<>>)
  OBVIOUS
<1>7. RawHost(request) = (written \o dot) \o port  BY DEF RawHost
<1>8. host[n] # "."  BY DEF Last
<1> HIDE DEF written, W, dot, port
<1>9. written \in Seq(W) /\ Len(written) = n  BY <1>2, <1>4, <1>5
<1> DEFINE A == written \o dot
<1>10. /\ A \in Seq(W) /\ Len(A) >= n
       /\ \A i \in 1 .. Len(A) : A[i] # ":"
       /\ StripDot(A) = written
  <2>1. CASE dot = <<>>
    <3>1. A = written  BY <1>9, <2>1
    <3>2. written # <<>> /\ Last(written) # "."  BY <1>2, <1>4, <1>8, <1>9 DEF Last
    <3>3. \A i \in 1 .. n : written[i] # ":"  BY <1>4
    <3> HIDE DEF A
    <3> QED  BY <1>9, <3>1, <3>2, <3>3 DEF StripDot
  <2>2. CASE dot = <<".">>
    <3>1. A \in Seq(W) /\ Len(A) = n + 1
          /\ \A i \in 1 .. n : A[i] = written[i]
      BY <1>2, <1>9, <2>2 DEF W
    <3>2. A[n + 1] = "."
      <4>1. "." \in W  BY DEF W
      <4>2. (written \o <<".">>)[Len(written) + 1] = "."  BY <1>9, <4>1, LastOfConcatenation, Zenon
      <4> QED  BY <1>9, <2>2, <4>2, Zenon
    <3>3. ASSUME NEW i \in 1 .. Len(A)  PROVE A[i] # ":"
      <4> HIDE DEF A, n
      <4>1. CASE i = n + 1  BY <3>2, <4>1
      <4>2. CASE i # n + 1
        <5>1. i \in 1 .. n  BY <1>2, <3>1, <4>2
        <5> QED  BY <1>4, <3>1, <5>1, Zenon
      <4> QED  BY <4>1, <4>2
    <3>4. SubSeq(A, 1, n) = written
      <4>1. written = [i \in 1 .. n |-> written[i]]  BY <1>5
      <4>2. SubSeq(A, 1, n) = [i \in 1 .. n |-> A[i]]  BY <1>2, <3>1
      <4> HIDE DEF A
      <4> QED  BY <3>1, <4>1, <4>2
    <3> HIDE DEF A
    <3>5. A # <<>> /\ Last(A) = "." /\ Front(A) = written
      BY <1>2, <3>1, <3>2, <3>4 DEF Last, Front
    <3>6. StripDot(A) = written  BY <3>5 DEF StripDot
    <3> QED  BY <1>2, <3>1, <3>3, <3>6
  <2> QED  BY <1>6, <2>1, <2>2
<1> HIDE DEF A
<1>11. StripPort(A \o port) = A
  <2>1. CASE port = <<>>
    <3>1. A \o port = A  BY <1>10, <2>1
    <3>2. Len(A) >= 2 => A[Len(A) - 1] # ":"  BY <1>10
    <3> QED  BY <3>1, <3>2 DEF StripPort
  <2>2. CASE port = <<":", "443">>
    <3> DEFINE r == A \o port
    <3>1. r \in Seq(W) /\ Len(r) = Len(A) + 2
          /\ \A i \in 1 .. Len(A) : r[i] = A[i]
      BY <1>10, <2>2 DEF W
    <3>2. r[Len(A) + 1] = ":"  BY <1>10, <2>2
    <3> HIDE DEF r
    <3>3. Len(r) >= 2 /\ r[Len(r) - 1] = ":"
      <4>1. Len(r) - 1 = Len(A) + 1 /\ Len(r) >= 2  BY <1>10, <3>1
      <4> QED  BY <3>2, <4>1
    <3>4. SubSeq(r, 1, Len(r) - 2) = A
      <4>1. Len(r) - 2 = Len(A) /\ Len(A) \in Nat  BY <1>10, <3>1
      <4>2. A = [i \in 1 .. Len(A) |-> A[i]]  BY <1>10
      <4>3. SubSeq(r, 1, Len(A)) = [i \in 1 .. Len(A) |-> r[i]]  BY <3>1, <4>1
      <4> QED  BY <3>1, <4>1, <4>2, <4>3
    <3>5. StripPort(r) = A  BY <3>3, <3>4 DEF StripPort
    <3> QED  BY <3>5 DEF r
  <2> QED  BY <1>6, <2>1, <2>2
<1>12. NormalizeHost(RawHost(request)) = [i \in DOMAIN written |-> Lower(written[i])]
  BY <1>7, <1>10, <1>11 DEF NormalizeHost, A
<1>13. host = [i \in 1 .. n |-> host[i]]  BY <1>1, <1>2
<1>14. DOMAIN written = 1 .. n  BY <1>2, <1>9
<1> HIDE DEF host
<1>15. [i \in DOMAIN written |-> Lower(written[i])] = [i \in 1 .. n |-> host[i]]
  BY <1>4, <1>14
<1> QED  BY <1>12, <1>13, <1>15 DEF host

\* A host in its plain form is normalized to itself.
LEMMA PlainHostIsNormal ==
    ASSUME NEW E, NEW host \in Seq(E), host # <<>>, Last(host) # ".",
           \A i \in DOMAIN host : host[i] \notin {":", "OPENAI"}
    PROVE  NormalizeHost(host) = host
<1> DEFINE n == Len(host)
<1>1. n \in Nat /\ n > 0 /\ DOMAIN host = 1 .. n  OBVIOUS
<1>2. StripPort(host) = host
  <2>1. n >= 2 => host[n - 1] # ":"  BY <1>1
  <2> QED  BY <2>1 DEF StripPort
<1>3. StripDot(host) = host  BY DEF StripDot
<1>4. NormalizeHost(host) = [i \in 1 .. n |-> Lower(host[i])]  BY <1>1, <1>2, <1>3 DEF NormalizeHost
<1>5. \A i \in 1 .. n : Lower(host[i]) = host[i]  BY <1>1 DEF Lower
<1>6. host = [i \in 1 .. n |-> host[i]]  BY <1>1
<1> QED  BY <1>4, <1>5, <1>6

-----------------------------------------------------------------------------
(* Vendors *)

\* What a place in the table of GlobMatch says of the word at that place, in a
\* pattern of n words.
Reads(p, n, s, from) ==
    /\ \A i \in 1 .. n : \A j \in from[i] : p[i] \notin {"*", "?"} =>
          j \in 1 .. Len(s) /\ s[j] = p[i] /\ j + 1 \in from[i + 1]
    /\ \A i \in 1 .. n : \A j \in from[i] : p[i] = "*" =>
          j \in 1 .. Len(s) + 1 /\ \E k \in from[i + 1] : j <= k
    /\ \A j \in from[n + 1] : j = Len(s) + 1

\* The table of GlobMatch can be read word by word.
LEMMA TableReads ==
    ASSUME NEW p, NEW s, Len(p) \in Nat, Len(s) \in Nat, NEW from, FromTable(p, s, from)
    PROVE  Reads(p, Len(p), s, from)
<1>1. \A i \in 1 .. Len(p) + 1 : from[i] = FromStep(p, s, from, i)
  BY DEF FromTable
<1>2. ASSUME NEW i \in 1 .. Len(p), NEW j \in from[i], p[i] \notin {"*", "?"}
      PROVE  j \in 1 .. Len(s) /\ s[j] = p[i] /\ j + 1 \in from[i + 1]
  <2>1. j \in FromStep(p, s, from, i) /\ ~(i > Len(p))  BY <1>1
  <2> QED  BY <1>2, <2>1 DEF FromStep
<1>3. ASSUME NEW i \in 1 .. Len(p), NEW j \in from[i], p[i] = "*"
      PROVE  j \in 1 .. Len(s) + 1 /\ \E k \in from[i + 1] : j <= k
  <2>1. j \in FromStep(p, s, from, i) /\ ~(i > Len(p))  BY <1>1
  <2> QED  BY <1>3, <2>1 DEF FromStep
<1>4. ASSUME NEW j \in from[Len(p) + 1]
      PROVE  j = Len(s) + 1
  <2>1. j \in FromStep(p, s, from, Len(p) + 1) /\ Len(p) + 1 > Len(p)  BY <1>1
  <2> QED  BY <2>1 DEF FromStep
<1> QED  BY <1>2, <1>3, <1>4 DEF Reads

\* A glob of five words without a wildcard stands for itself only.
LEMMA LiteralGlob ==
    ASSUME NEW p, NEW a, NEW b, NEW c, NEW d, NEW e,
           p = <<a, b, c, d, e>>, \A w \in {a, b, c, d, e} : w \notin {"*", "?"},
           NEW E, NEW s \in Seq(E), GlobMatch(p, s)
    PROVE  s = p
<1>1. Len(p) = 5 /\ p[1] = a /\ p[2] = b /\ p[3] = c /\ p[4] = d /\ p[5] = e  OBVIOUS
<1>2. Len(s) \in Nat  OBVIOUS
<1>3. PICK from : FromTable(p, s, from) /\ 1 \in from[1]
  BY <1>1, <1>2, GlobMatchTable
<1>4. /\ \A i \in 1 .. 5 : \A j \in from[i] : p[i] \notin {"*", "?"} =>
            j \in 1 .. Len(s) /\ s[j] = p[i] /\ j + 1 \in from[i + 1]
      /\ \A j \in from[6] : j = Len(s) + 1
  <2>1. Reads(p, Len(p), s, from)  BY <1>1, <1>2, <1>3, TableReads
  <2>2. Reads(p, 5, s, from)  BY <1>1, <2>1
  <2> QED  BY <2>2 DEF Reads
<1>5. s[1] = a /\ 2 \in from[2]  BY <1>1, <1>3, <1>4
<1>6. s[2] = b /\ 3 \in from[3]  BY <1>1, <1>4, <1>5
<1>7. s[3] = c /\ 4 \in from[4]  BY <1>1, <1>4, <1>6
<1>8. s[4] = d /\ 5 \in from[5]  BY <1>1, <1>4, <1>7
<1>9. s[5] = e /\ 6 \in from[6]  BY <1>1, <1>4, <1>8
<1>10. Len(s) = 5  BY <1>2, <1>4, <1>9
<1> QED  BY <1>1, <1>5, <1>6, <1>7, <1>8, <1>9, <1>10

\* Bedrock's host glob takes no host that the test of the templates does not.
LEMMA BedrockGlob ==
    ASSUME NEW E, NEW s \in Seq(E),
           GlobMatch(<<"bedrock-runtime", ".", "*", ".", "amazonaws", ".", "com">>, s)
    PROVE  IsBedrockHost(s) /\ s[1] = "bedrock-runtime"
<1> DEFINE p == <<"bedrock-runtime", ".", "*", ".", "amazonaws", ".", "com">>
           n == Len(s)
<1>1. /\ Len(p) = 7 /\ p[1] = "bedrock-runtime" /\ p[2] = "." /\ p[3] = "*" /\ p[4] = "."
      /\ p[5] = "amazonaws" /\ p[6] = "." /\ p[7] = "com"
  OBVIOUS
<1>2. n \in Nat  OBVIOUS
<1>3. PICK from : FromTable(p, s, from) /\ 1 \in from[1]
  BY <1>1, <1>2, GlobMatchTable
<1> HIDE DEF p
<1>4. /\ \A i \in 1 .. 7 : \A j \in from[i] : p[i] \notin {"*", "?"} =>
            j \in 1 .. n /\ s[j] = p[i] /\ j + 1 \in from[i + 1]
      /\ \A i \in 1 .. 7 : \A j \in from[i] : p[i] = "*" =>
            j \in 1 .. n + 1 /\ \E k \in from[i + 1] : j <= k
      /\ \A j \in from[8] : j = n + 1
  <2>1. Len(p) = 7 /\ Len(p) \in Nat  BY <1>1
  <2>2. Reads(p, Len(p), s, from)  BY <1>2, <1>3, <2>1, TableReads
  <2>3. Reads(p, 7, s, from)  BY <2>1, <2>2
  <2> HIDE DEF n
  <2> QED  BY <2>3 DEF Reads, n
<1> DEFINE At(i, w, next) ==
              \A j \in from[i] : j \in 1 .. n /\ s[j] = w /\ j + 1 \in from[next]
<1>5. At(1, "bedrock-runtime", 2)  BY <1>1, <1>4
<1>6. At(2, ".", 3)  BY <1>1, <1>4
<1>7. \A j \in from[3] : \E k \in from[4] : j <= k  BY <1>1, <1>4
<1>8. At(4, ".", 5)  BY <1>1, <1>4
<1>9. At(5, "amazonaws", 6)  BY <1>1, <1>4
<1>10. At(6, ".", 7)  BY <1>1, <1>4
<1>11. At(7, "com", 8)  BY <1>1, <1>4
<1>12. s[1] = "bedrock-runtime" /\ 2 \in from[2]
  <2>1. 1 + 1 = 2  OBVIOUS
  <2> QED  BY <1>3, <1>5, <2>1, Zenon
<1>13. s[2] = "." /\ 3 \in from[3]
  <2>1. 2 + 1 = 3  OBVIOUS
  <2> QED  BY <1>6, <1>12, <2>1, Zenon
<1>14. PICK k \in from[4] : 3 <= k  BY <1>7, <1>13, Zenon
<1>15. k \in 1 .. n /\ s[k] = "." /\ k + 1 \in from[5]  BY <1>8, <1>14, Zenon
<1>16. s[k + 1] = "amazonaws" /\ (k + 1) + 1 \in from[6]  BY <1>9, <1>15, Zenon
<1>17. s[(k + 1) + 1] = "." /\ ((k + 1) + 1) + 1 \in from[7]  BY <1>10, <1>16, Zenon
<1>18. s[((k + 1) + 1) + 1] = "com" /\ (((k + 1) + 1) + 1) + 1 \in from[8]
  BY <1>11, <1>17, Zenon
<1>19. n = k + 3 /\ n >= 6
  <2>1. (((k + 1) + 1) + 1) + 1 = n + 1  BY <1>4, <1>18, Zenon
  <2> HIDE DEF n
  <2> QED  BY <1>2, <1>14, <1>15, <2>1
<1>20. /\ s[n] = "com" /\ s[n - 1] = "." /\ s[n - 2] = "amazonaws" /\ s[n - 3] = "."
  <2>1. k \in Nat /\ n = k + 3  BY <1>2, <1>15, <1>19
  <2> HIDE DEF n
  <2>2. n = ((k + 1) + 1) + 1 /\ n - 1 = (k + 1) + 1 /\ n - 2 = k + 1 /\ n - 3 = k
    BY <2>1
  <2> QED  BY <1>15, <1>16, <1>17, <1>18, <2>2, Zenon
<1>21. IsPrefix(<<"bedrock-runtime", ".">>, s)
  <2> DEFINE q == <<"bedrock-runtime", ".">>
  <2>1. Len(q) = 2 /\ q[1] = "bedrock-runtime" /\ q[2] = "."  OBVIOUS
  <2>2. SubSeq(q, 1, 2) = [i \in 1 .. 2 |-> q[i]]  OBVIOUS
  <2>3. SubSeq(s, 1, 2) = [i \in 1 .. 2 |-> s[i]]  BY <1>2, <1>19
  <2> HIDE DEF q
  <2>4. \A i \in 1 .. 2 : q[i] = s[i]  BY <1>12, <1>13, <2>1
  <2> QED  BY <1>19, <2>1, <2>2, <2>3, <2>4 DEF IsPrefix, q
<1>22. IsSuffix(<<".", "amazonaws", ".", "com">>, s)
  <2> DEFINE q == Reverse(<<".", "amazonaws", ".", "com">>)
             r == Reverse(s)
  <2>1. Len(q) = 4 /\ q[1] = "com" /\ q[2] = "." /\ q[3] = "amazonaws" /\ q[4] = "."
    BY DEF Reverse
  <2>2. Len(r) = n /\ r[1] = s[n] /\ r[2] = s[n - 1] /\ r[3] = s[n - 2] /\ r[4] = s[n - 3]
    <3>1. n \in Nat /\ n >= 6 /\ (n - 1) + 1 = n /\ (n - 2) + 1 = n - 1 /\ (n - 3) + 1 = n - 2
          /\ (n - 4) + 1 = n - 3
      BY <1>2, <1>19
    <3> QED  BY <3>1 DEF Reverse
  <2>3. r \in Seq(E)  BY <1>2 DEF Reverse
  <2>4. SubSeq(q, 1, 4) = [i \in 1 .. 4 |-> q[i]]  BY DEF Reverse
  <2> HIDE DEF q, r
  <2>5. SubSeq(r, 1, 4) = [i \in 1 .. 4 |-> r[i]]  BY <1>2, <1>19, <2>2, <2>3
  <2>6. \A i \in 1 .. 4 : q[i] = r[i]  BY <1>20, <2>1, <2>2
  <2>7. SubSeq(q, 1, Len(q)) = SubSeq(r, 1, Len(q)) /\ Len(q) <= Len(r)
    BY <1>2, <1>19, <2>1, <2>2, <2>4, <2>5, <2>6
  <2> QED  BY <2>7 DEF IsPrefix, IsSuffix, q, r
<1> QED  BY <1>12, <1>21, <1>22 DEF IsBedrockHost

\* The host glob of a provider takes no host whose error would be given the
\* body of another: the registry and the templates agree.
LEMMA TemplateFitsGlob ==
    ASSUME NEW p \in Registered, p.id \notin {"pinecone", "qdrant"},
           NEW E, NEW host \in Seq(E), GlobMatch(p.upstream, host)
    PROVE  VendorTemplate(host) = p.id
<1> DEFINE openai == <<"api", ".", "openai", ".", "com">>
           anthropic == <<"api", ".", "anthropic", ".", "com">>
           bedrock == <<"bedrock-runtime", ".", "*", ".", "amazonaws", ".", "com">>
<1>1. /\ ProviderRegistry[1].upstream = openai /\ ProviderRegistry[2].upstream = anthropic
      /\ ProviderRegistry[3].upstream = bedrock
  BY DEF ProviderRegistry, Provider
<1>2. \/ p = ProviderRegistry[1] /\ p.id = "openai"
      \/ p = ProviderRegistry[2] /\ p.id = "anthropic"
      \/ p = ProviderRegistry[3] /\ p.id = "bedrock"
  BY RegistryEntries
<1>3. openai # anthropic /\ openai[1] = "api" /\ anthropic[1] = "api"  OBVIOUS
<1>4. /\ \A w \in {"api", ".", "openai", ".", "com"} : w \notin {"*", "?"}
      /\ \A w \in {"api", ".", "anthropic", ".", "com"} : w \notin {"*", "?"}
  OBVIOUS
<1>5. /\ SubSeq(openai, 1, 2)[1] = "api" /\ SubSeq(anthropic, 1, 2)[1] = "api"
      /\ SubSeq(<<"bedrock-runtime", ".">>, 1, 2)[1] = "bedrock-runtime"
      /\ Len(<<"bedrock-runtime", ".">>) = 2 /\ "api" # "bedrock-runtime"
  OBVIOUS
<1>6. ASSUME NEW s, s = openai \/ s = anthropic  PROVE ~IsBedrockHost(s)
  <2>1. SubSeq(s, 1, 2)[1] = "api"  BY <1>5, <1>6
  <2> HIDE DEF openai, anthropic
  <2> QED  BY <1>5, <2>1 DEF IsBedrockHost, IsPrefix
<1>7. CASE p.id = "openai"
  <2>1. GlobMatch(openai, host)  BY <1>1, <1>2, <1>7
  <2>2. host = openai  BY <1>4, <2>1, LiteralGlob
  <2>3. host # anthropic /\ ~IsBedrockHost(host)  BY <1>3, <1>6, <2>2
  <2>4. VendorTemplate(host) = "openai"  BY <2>2, <2>3 DEF VendorTemplate
  <2> QED  BY <1>7, <2>4
<1>8. CASE p.id = "anthropic"
  <2>1. GlobMatch(anthropic, host)  BY <1>1, <1>2, <1>8
  <2>2. host = anthropic  BY <1>4, <2>1, LiteralGlob
  <2>3. host # openai /\ ~IsBedrockHost(host)  BY <1>3, <1>6, <2>2
  <2>4. VendorTemplate(host) = "anthropic"  BY <2>2, <2>3 DEF VendorTemplate
  <2> QED  BY <1>8, <2>4
<1>9. CASE p.id = "bedrock"
  <2>1. GlobMatch(bedrock, host)  BY <1>1, <1>2, <1>9
  <2>2. IsBedrockHost(host) /\ host[1] = "bedrock-runtime"  BY <2>1, BedrockGlob
  <2>3. host # openai /\ host # anthropic  BY <1>3, <2>2
  <2> QED  BY <1>9, <2>2, <2>3 DEF VendorTemplate
<1> QED  BY <1>2, <1>7, <1>8, <1>9

-----------------------------------------------------------------------------
(* Routes *)

\* The providers of base-URL mode have prefixes of four words that differ in
\* the last.
LEMMA RoutePrefixes ==
    ASSUME NEW p \in Registered, ~ForwardProxyOnly(p), NEW E,
           {"/", "__fk", "openai", "anthropic", "v1"} \subseteq E
    PROVE  /\ p.pathPrefix \in Seq(E) /\ Len(p.pathPrefix) = 4 /\ p.pathPrefix[4] = p.id
           /\ p.apiBase \in Seq(E)
<1>1. /\ ProviderRegistry[1] = [id |-> "openai", upstream |-> ProviderRegistry[1].upstream,
             env |-> ProviderRegistry[1].env, pathPrefix |-> <<"/", "__fk", "/", "openai">>,
             apiBase |-> <<"/", "v1">>]
      /\ ProviderRegistry[2] = [id |-> "anthropic", upstream |-> ProviderRegistry[2].upstream,
             env |-> ProviderRegistry[2].env, pathPrefix |-> <<"/", "__fk", "/", "anthropic">>,
             apiBase |-> <<>>]
      /\ ProviderRegistry[3].env = {} /\ ProviderRegistry[4].env = {}
      /\ ProviderRegistry[5].env = {}
  BY DEF ProviderRegistry, Provider
<1>2. p = ProviderRegistry[1] \/ p = ProviderRegistry[2]
  BY <1>1, RegistryEntries DEF ForwardProxyOnly
<1>3. CASE p = ProviderRegistry[1]
  <2>1. p.id = "openai" /\ p.pathPrefix = <<"/", "__fk", "/", "openai">> /\ p.apiBase = <<"/", "v1">>
    BY <1>1, <1>3
  <2> QED  BY <2>1
<1>4. CASE p = ProviderRegistry[2]
  <2>1. p.id = "anthropic" /\ p.pathPrefix = <<"/", "__fk", "/", "anthropic">> /\ p.apiBase = <<>>
    BY <1>1, <1>4
  <2> QED  BY <2>1
<1> QED  BY <1>2, <1>3, <1>4

\* An SDK that is pointed at faultkit and puts the rest of the path behind its
\* base URL sends the path it was asked for behind the provider's prefix.
LEMMA SDKPathIs ==
    ASSUME NEW p \in Registered, ~ForwardProxyOnly(p), NEW request,
           NEW E, {"/", "__fk", "openai", "anthropic", "v1"} \subseteq E,
           request.path \in Seq(E), IsPrefix(p.apiBase, request.path)
    PROVE  SDKPath(p, request) = p.pathPrefix \o request.path
<1> DEFINE a == p.pathPrefix
           b == p.apiBase
           path == request.path
           rest == SubSeq(path, Len(b) + 1, Len(path))
<1>1. a \in Seq(E) /\ b \in Seq(E)  BY RoutePrefixes
<1>2. Len(b) <= Len(path) /\ SubSeq(b, 1, Len(b)) = SubSeq(path, 1, Len(b))
  BY DEF IsPrefix
<1>3. path \in Seq(E)  OBVIOUS
<1>4. SDKPath(p, request) = (a \o b) \o rest  BY DEF SDKPath, BaseURL
<1> HIDE DEF a, b, path
<1>5. b \o rest = path
  <2>1. \A i \in 1 .. Len(b) : b[i] = path[i]
    <3>1. SubSeq(b, 1, Len(b)) = [i \in 1 .. Len(b) |-> b[i]]  BY <1>1
    <3>2. SubSeq(path, 1, Len(b)) = [i \in 1 .. Len(b) |-> path[i]]  BY <1>1, <1>2, <1>3
    <3> QED  BY <1>2, <3>1, <3>2
  <2>2. rest \in Seq(E) /\ Len(rest) = Len(path) - Len(b)
        /\ \A i \in 1 .. Len(rest) : rest[i] = path[Len(b) + i]
    BY <1>1, <1>2, <1>3
  <2> HIDE DEF rest
  <2>3. b \o rest \in Seq(E) /\ Len(b \o rest) = Len(path)
    BY <1>1, <1>2, <1>3, <2>2
  <2>4. ASSUME NEW i \in 1 .. Len(path)
        PROVE  (b \o rest)[i] = path[i]
    <3>1. CASE i <= Len(b)
      <4>1. i \in 1 .. Len(b)  BY <1>1, <3>1
      <4> QED  BY <1>1, <2>1, <2>2, <4>1
    <3>2. CASE ~(i <= Len(b))
      <4>1. i - Len(b) \in 1 .. Len(rest) /\ Len(b) + (i - Len(b)) = i
        BY <1>1, <1>3, <2>2, <3>2
      <4>2. (b \o rest)[Len(b) + (i - Len(b))] = rest[i - Len(b)]  BY <1>1, <2>2, <4>1, Concatenation
      <4>3. rest[i - Len(b)] = path[Len(b) + (i - Len(b))]  BY <2>2, <4>1
      <4> QED  BY <4>1, <4>2, <4>3
    <3> QED  BY <3>1, <3>2
  <2> DEFINE c == b \o rest
  <2>5. c \in Seq(E) /\ Len(c) = Len(path) /\ \A i \in 1 .. Len(path) : c[i] = path[i]
    BY <2>3, <2>4
  <2> HIDE DEF c
  <2>6. c = [i \in 1 .. Len(path) |-> c[i]] /\ path = [i \in 1 .. Len(path) |-> path[i]]
    BY <1>3, <2>5
  <2>7. c = path  BY <2>5, <2>6
  <2> QED  BY <2>7 DEF c
<1>6. rest \in Seq(E)  BY <1>1, <1>2, <1>3
<1> HIDE DEF rest
<1>7. (a \o b) \o rest = a \o (b \o rest)  BY <1>1, <1>6
<1> QED  BY <1>4, <1>5, <1>7 DEF a, path

\* The call of an SDK is routed to the provider that the SDK is of, and its
\* path is what the same call has in the forward proxy.
LEMMA RouteOfSDKPath ==
    ASSUME NEW p \in Registered, ~ForwardProxyOnly(p), NEW request,
           request.path \in Seq(Word), IsPrefix(p.apiBase, request.path),
           IsPrefix(<<"/">>, request.path), NEW route \in Routes(SDKPath(p, request))
    PROVE  route.provider = p /\ route.rest = request.path
<1> DEFINE E == Word \cup {"/", "__fk", "openai", "anthropic", "v1"}
           path == request.path
           whole == p.pathPrefix \o path
<1>1. path \in Seq(E) /\ {"/", "__fk", "openai", "anthropic", "v1"} \subseteq E  OBVIOUS
<1> HIDE DEF E
<1>2. SDKPath(p, request) = whole  BY <1>1, SDKPathIs
<1>3. p.pathPrefix \in Seq(E) /\ Len(p.pathPrefix) = 4 /\ p.pathPrefix[4] = p.id
  BY <1>1, RoutePrefixes
<1>4. Len(path) >= 1
  <2>1. Len(<<"/">>) = 1  OBVIOUS
  <2> QED  BY <2>1 DEF IsPrefix
<1>5. PICK q \in Registered :
         /\ ~ForwardProxyOnly(q)
         /\ whole = q.pathPrefix \/ IsPrefix(q.pathPrefix \o <<"/">>, whole)
         /\ route = [provider |-> q,
                     rest |-> IF whole = q.pathPrefix THEN <<"/">>
                              ELSE SubSeq(whole, Len(q.pathPrefix) + 1, Len(whole))]
  BY <1>2 DEF Routes
<1> HIDE DEF path
<1>6. /\ whole \in Seq(E) /\ Len(whole) = 4 + Len(path) /\ whole[4] = p.id
      /\ \A i \in 1 .. Len(path) : whole[4 + i] = path[i]
  <2> DEFINE a == p.pathPrefix
  <2>1. a \in Seq(E) /\ Len(a) = 4 /\ a[4] = p.id  BY <1>3
  <2>2. path \in Seq(E)  BY <1>1 DEF path
  <2> HIDE DEF a
  <2>3. /\ a \o path \in Seq(E) /\ Len(a \o path) = 4 + Len(path)
        /\ (a \o path)[4] = a[4]
        /\ \A i \in 1 .. Len(path) : (a \o path)[4 + i] = path[i]
    <3>1. 4 \in 1 .. Len(a)  BY <2>1
    <3>2. /\ a \o path \in Seq(E) /\ Len(a \o path) = Len(a) + Len(path)
          /\ \A i \in 1 .. Len(a) : (a \o path)[i] = a[i]
          /\ \A i \in 1 .. Len(path) : (a \o path)[Len(a) + i] = path[i]
      <4>1. a \in Seq(E)  BY <2>1
      <4> QED  BY <2>2, <4>1, Concatenation
    <3>3. Len(a) = 4  BY <2>1
    <3> QED  BY <3>1, <3>2, <3>3
  <2> QED  BY <2>1, <2>3 DEF a
<1> HIDE DEF whole
<1>7. q.pathPrefix \in Seq(E) /\ Len(q.pathPrefix) = 4 /\ q.pathPrefix[4] = q.id
  BY <1>1, <1>5, RoutePrefixes
<1>8. whole # q.pathPrefix
  <2>1. Len(whole) # 4
    <3>1. Len(path) \in Nat  BY <1>1 DEF path
    <3> QED  BY <1>4, <1>6, <3>1
  <2> QED  BY <1>7, <2>1
<1>9. q.id = p.id
  <2> DEFINE m == q.pathPrefix \o <<"/">>
  <2>1. m \in Seq(E) /\ Len(m) = 5 /\ m[4] = q.id
    <3> DEFINE a == q.pathPrefix
    <3>1. a \in Seq(E) /\ Len(a) = 4 /\ a[4] = q.id  BY <1>7
    <3>2. <<"/">> \in Seq(E) /\ Len(<<"/">>) = 1  BY <1>1
    <3> DEFINE t == <<"/">>
    <3> HIDE DEF a, t
    <3>3. a \o t \in Seq(E) /\ Len(a \o t) = 5 /\ (a \o t)[4] = a[4]
      <4>1. 4 \in 1 .. Len(a)  BY <3>1
      <4>2. a \in Seq(E) /\ t \in Seq(E) /\ Len(t) = 1  BY <3>1, <3>2 DEF t
      <4>3. /\ a \o t \in Seq(E) /\ Len(a \o t) = Len(a) + Len(t)
            /\ \A i \in 1 .. Len(a) : (a \o t)[i] = a[i]
        BY <4>2, Concatenation
      <4> QED  BY <3>1, <4>1, <4>2, <4>3
    <3> QED  BY <3>1, <3>3 DEF a, t
  <2>2. IsPrefix(m, whole)  BY <1>5, <1>8
  <2> HIDE DEF m
  <2>3. SubSeq(m, 1, 5)[4] = m[4]  BY <2>1
  <2>4. SubSeq(whole, 1, 5)[4] = whole[4]
    <3>1. Len(path) \in Nat  BY <1>1 DEF path
    <3> QED  BY <1>4, <1>6, <3>1
  <2> QED  BY <1>6, <2>1, <2>2, <2>3, <2>4 DEF IsPrefix
<1>10. q = p  BY <1>9, ProviderIsItsID
<1>11. SubSeq(whole, 5, Len(whole)) = path
  <2>0. path \in Seq(E)  BY <1>1 DEF path
  <2>1. path = [i \in 1 .. Len(path) |-> path[i]]  BY <2>0
  <2>2. SubSeq(whole, 5, Len(whole)) = [i \in 1 .. Len(path) |-> whole[5 + i - 1]]
    BY <2>0, <1>4, <1>6
  <2>3. \A i \in 1 .. Len(path) : whole[5 + i - 1] = path[i]  BY <2>0, <1>6
  <2> QED  BY <2>1, <2>2, <2>3
<1>12. route.provider = q /\ route.rest = SubSeq(whole, 5, Len(whole))
  <2>1. Len(q.pathPrefix) + 1 = 5  BY <1>7
  <2> QED  BY <1>5, <1>8, <2>1
<1> QED  BY <1>10, <1>11, <1>12 DEF path

\* A call that an SDK makes to its base URL is always routed, to the one provider
\* the SDK is of and with the path the call would have had without faultkit.
THEOREM SDKCallIsRouted ==
    ASSUME NEW p \in Registered, ~ForwardProxyOnly(p), NEW request,
           request.path \in Seq(Word), IsPrefix(p.apiBase, request.path),
           IsPrefix(<<"/">>, request.path)
    PROVE  Routes(SDKPath(p, request)) = {[provider |-> p, rest |-> request.path]}
<1> DEFINE E == Word \cup {"/", "__fk", "openai", "anthropic", "v1"}
           path == request.path
           a == p.pathPrefix
           slash == <<"/">>
           whole == a \o path
           prefix == a \o slash
           routed == [provider |-> p,
                      rest |-> IF whole = a THEN slash ELSE SubSeq(whole, Len(a) + 1, Len(whole))]
<1>1. path \in Seq(E) /\ {"/", "__fk", "openai", "anthropic", "v1"} \subseteq E  OBVIOUS
<1>2. slash \in Seq(E) /\ Len(slash) = 1  OBVIOUS
<1> HIDE DEF E
<1>3. SDKPath(p, request) = whole  BY <1>1, SDKPathIs
<1>4. a \in Seq(E) /\ Len(a) = 4  BY <1>1, RoutePrefixes
<1>5. Len(slash) <= Len(path) /\ SubSeq(slash, 1, Len(slash)) = SubSeq(path, 1, Len(slash))
  BY DEF IsPrefix
<1> HIDE DEF a, path, slash
<1>6. Len(path) \in Nat /\ Len(path) >= 1 /\ slash[1] = path[1]
  <2>1. Len(path) \in Nat /\ Len(path) >= 1  BY <1>1, <1>2, <1>5
  <2>2. SubSeq(slash, 1, 1)[1] = slash[1]  BY <1>2
  <2>3. SubSeq(path, 1, 1)[1] = path[1]  BY <1>1, <2>1
  <2> QED  BY <1>2, <1>5, <2>1, <2>2, <2>3
<1>7. /\ whole \in Seq(E) /\ Len(whole) = Len(a) + Len(path)
      /\ \A i \in 1 .. Len(a) : whole[i] = a[i]
      /\ \A i \in 1 .. Len(path) : whole[Len(a) + i] = path[i]
  <2>1. path \in Seq(E)  BY <1>1
  <2>2. a \in Seq(E)  BY <1>4
  <2> QED  BY <2>1, <2>2, Concatenation
<1>8. /\ prefix \in Seq(E) /\ Len(prefix) = Len(a) + Len(slash)
      /\ \A i \in 1 .. Len(a) : prefix[i] = a[i]
      /\ \A i \in 1 .. Len(slash) : prefix[Len(a) + i] = slash[i]
  <2>1. slash \in Seq(E)  BY <1>2
  <2>2. a \in Seq(E)  BY <1>4
  <2> QED  BY <2>1, <2>2, Concatenation
<1> HIDE DEF whole, prefix
<1>9. IsPrefix(prefix, whole)
  <2>1. Len(prefix) = 5 /\ Len(whole) \in Nat /\ Len(whole) >= 5
    BY <1>2, <1>4, <1>6, <1>7, <1>8
  <2>2. ASSUME NEW i \in 1 .. 5  PROVE prefix[i] = whole[i]
    <3>1. CASE i \in 1 .. 4  BY <1>4, <1>7, <1>8, <3>1
    <3>2. CASE i = 4 + 1
      <4>1. prefix[4 + 1] = slash[1]
        <5>1. 1 \in 1 .. Len(slash)  BY <1>2
        <5> QED  BY <1>4, <1>8, <5>1, Zenon
      <4>2. whole[4 + 1] = path[1]
        <5>1. 1 \in 1 .. Len(path)  BY <1>6
        <5> QED  BY <1>4, <1>7, <5>1, Zenon
      <4> QED  BY <1>6, <3>2, <4>1, <4>2, Zenon
    <3> QED  BY <3>1, <3>2
  <2>3. SubSeq(prefix, 1, 5) = [i \in 1 .. 5 |-> prefix[i]]  BY <1>8, <2>1
  <2>4. SubSeq(whole, 1, 5) = [i \in 1 .. 5 |-> whole[i]]  BY <1>7, <2>1
  <2>5. SubSeq(prefix, 1, 5) = SubSeq(whole, 1, 5)  BY <2>2, <2>3, <2>4
  <2> QED  BY <2>1, <2>5 DEF IsPrefix
<1>10. routed \in Routes(whole)  BY <1>9 DEF Routes, a, slash, prefix
<1>11. \A route \in Routes(whole) : route.provider = p /\ route.rest = path
  BY <1>3, RouteOfSDKPath DEF path
<1>12. ASSUME NEW route \in Routes(whole)
       PROVE  route = [provider |-> route.provider, rest |-> route.rest]
  <2>1. \E q, rest : route = [provider |-> q, rest |-> rest]  BY Zenon DEF Routes
  <2> QED  BY <2>1
<1> HIDE DEF routed
<1>13. Routes(whole) = {[provider |-> p, rest |-> path]}
  BY <1>10, <1>11, <1>12
<1> QED  BY <1>3, <1>13 DEF path

=============================================================================
