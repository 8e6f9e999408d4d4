----------------------- MODULE CouncilCommandsProofs -----------------------
(***************************************************************************)
(* Theorems of CouncilCommands, with their proofs.                         *)
(*                                                                         *)
(* A command is in _finalize from its record to its SET and no other       *)
(* command starts meanwhile, so that at most one copy of the room is held. *)
(* What is claimed of the room (Shows) is claimed of that copy as well,    *)
(* for the commands saved so far and the one that holds it (Pending): it   *)
(* stays true when the demo reset deletes the room in between, because     *)
(* what shows some commands at its end shows the last of them alone.       *)
(*                                                                         *)
(* The first part says what the folds and cuts of the model come to:       *)
(* FlattenSeq (a recursive function, by least counterexample), suffixes,   *)
(* Python's s[-n:].                                                        *)
(***************************************************************************)
EXTENDS CouncilCommands, FiniteSetTheorems, WellFoundedInduction, TLAPS

(***************************************************************************)
(* Sequences.                                                              *)
(***************************************************************************)
\* Of sets of subsets of a finite set, some are smallest.
LEMMA MinimalSubset ==
    ASSUME NEW S, IsFiniteSet(S), NEW T, T \subseteq SUBSET S, T # {}
    PROVE  \E U \in T : \A V \in T : V \subseteq U => V = U
<1>1. T \subseteq FiniteSubsetsOf(S)
  BY FS_FiniteSubsetsOfFinite
<1>2. IsWellFoundedOn(StrictSubsetOrdering(S), FiniteSubsetsOf(S))
  BY FS_StrictSubsetOrderingWellFounded
<1>3. PICK U \in T : \A V \in T : <<V, U>> \notin StrictSubsetOrdering(S)
  BY <1>1, <1>2, WFMin
<1> QED
  BY <1>3 DEF StrictSubsetOrdering

\* A set of natural numbers has a least one.
LEMMA LeastExists ==
    ASSUME NEW K \in SUBSET Nat, K # {}
    PROVE  \E k \in K : \A j \in K : k <= j
<1>1. PICK n \in K : TRUE
  OBVIOUS
<1> DEFINE S == 0..n
           T == {0..k : k \in {k \in K : k <= n}}
<1>2. n \in Nat
  OBVIOUS
<1>3. IsFiniteSet(S)
  BY <1>2, FS_Interval
<1>4. T \subseteq SUBSET S
  BY <1>2
<1>5. 0..n \in T
  BY <1>1, <1>2
<1>6. PICK U \in T : \A V \in T : V \subseteq U => V = U
  <2> HIDE DEF T, S
  <2> QED
    BY <1>3, <1>4, <1>5, MinimalSubset
<1>7. PICK k \in K : k <= n /\ U = 0..k
  OBVIOUS
<1>8. ASSUME NEW j \in K, j < k
      PROVE  FALSE
  <2>1. 0..j \in T /\ 0..j \subseteq U
    BY <1>2, <1>7, <1>8
  <2>2. 0..j = 0..k
    BY <2>1, <1>6, <1>7
  <2>3. k \in 0..k /\ k \notin 0..j
    BY <1>8
  <2> QED
    BY <2>2, <2>3
<1>9. \A j \in K : k <= j
  BY <1>8
<1> QED
  BY <1>9

\* f holds what the first sequences of s come to, up to each of n.
Flattens(f, s, n) == f = [i \in 1..n |-> IF i = 1 THEN s[i] ELSE f[i - 1] \o s[i]]

LEMMA FlattenIs ==
    ASSUME NEW s, Len(s) # 0
    PROVE  FlattenSeq(s) = (CHOOSE f : Flattens(f, s, Len(s)))[Len(s)]
BY DEF FlattenSeq, Flattens

LEMMA FlattensExist ==
    ASSUME NEW s, NEW n \in Nat
    PROVE  \E f : Flattens(f, s, n)
<1> DEFINE K == {k \in Nat : ~\E f : Flattens(f, s, k)}
<1>1. SUFFICES ASSUME K # {}
               PROVE  FALSE
  OBVIOUS
<1>2. PICK k \in K : \A j \in K : k <= j
  <2>1. K \in SUBSET Nat
    OBVIOUS
  <2> HIDE DEF K
  <2> QED
    BY <1>1, <2>1, LeastExists
<1>3. k # 0
  <2>1. Flattens([i \in 1..0 |-> s[i]], s, 0)
    BY DEF Flattens
  <2> QED
    BY <1>2, <2>1
<1>4. k \in Nat /\ k - 1 \in Nat /\ k - 1 \notin K
  BY <1>2, <1>3
<1>5. PICK f : Flattens(f, s, k - 1)
  BY <1>4
<1> DEFINE g == [i \in 1..k |-> IF i < k THEN f[i] ELSE IF k = 1 THEN s[k] ELSE f[k - 1] \o s[k]]
<1>6. \A i \in 1..(k - 1) : f[i] = IF i = 1 THEN s[i] ELSE f[i - 1] \o s[i]
  BY <1>5 DEF Flattens
<1>7. ASSUME NEW i \in 1..k
      PROVE  g[i] = IF i = 1 THEN s[i] ELSE g[i - 1] \o s[i]
  <2>1. CASE i < k
    <3>1. i \in 1..(k - 1) /\ g[i] = f[i]
      BY <1>4, <2>1
    <3>2. i # 1 => g[i - 1] = f[i - 1]
      BY <1>4, <2>1
    <3> QED
      BY <1>6, <3>1, <3>2
  <2>2. CASE i = k
    BY <1>4, <2>2
  <2> QED
    BY <1>4, <2>1, <2>2
<1>8. g = [i \in 1..k |-> g[i]]
  OBVIOUS
<1> HIDE DEF g
<1>9. Flattens(g, s, k)
  BY <1>7, <1>8 DEF Flattens
<1> QED
  BY <1>2, <1>9

LEMMA FlattensAreUnique ==
    ASSUME NEW s, NEW n \in Nat, NEW f, NEW g, Flattens(f, s, n), Flattens(g, s, n)
    PROVE  f = g
<1> DEFINE K == {k \in 1..n : f[k] # g[k]}
<1>1. /\ f = [i \in 1..n |-> IF i = 1 THEN s[i] ELSE f[i - 1] \o s[i]]
      /\ g = [i \in 1..n |-> IF i = 1 THEN s[i] ELSE g[i - 1] \o s[i]]
  BY DEF Flattens
<1>2. SUFFICES ASSUME K # {}
               PROVE  FALSE
  <2>1. K = {} => \A i \in 1..n : f[i] = g[i]
    OBVIOUS
  <2>2. f = [i \in 1..n |-> f[i]] /\ g = [i \in 1..n |-> g[i]]
    BY <1>1
  <2> HIDE DEF K
  <2> QED
    BY <2>1, <2>2
<1>3. PICK k \in K : \A j \in K : k <= j
  <2>1. K \in SUBSET Nat
    OBVIOUS
  <2> HIDE DEF K
  <2> QED
    BY <1>2, <2>1, LeastExists
<1>4. k \in 1..n /\ f[k] # g[k]
  BY <1>3
<1>5. k # 1
  BY <1>1, <1>4
<1>6. k - 1 \in 1..n /\ k - 1 \notin K
  BY <1>3, <1>4, <1>5
<1>7. f[k - 1] = g[k - 1]
  BY <1>6
<1>8. f[k] = f[k - 1] \o s[k] /\ g[k] = g[k - 1] \o s[k]
  <2>1. /\ \A i \in 1..n : f[i] = IF i = 1 THEN s[i] ELSE f[i - 1] \o s[i]
        /\ \A i \in 1..n : g[i] = IF i = 1 THEN s[i] ELSE g[i - 1] \o s[i]
    BY <1>1
  <2> QED
    BY <2>1, <1>4, <1>5
<1> QED
  BY <1>4, <1>7, <1>8

LEMMA FlattenType ==
    ASSUME NEW T, NEW s \in Seq(Seq(T))
    PROVE  FlattenSeq(s) \in Seq(T)
<1>1. CASE Len(s) = 0
  <2>1. s = <<>> /\ FlattenSeq(s) = s
    BY <1>1 DEF FlattenSeq
  <2>2. <<>> \in Seq(T)
    OBVIOUS
  <2> QED
    BY <2>1, <2>2
<1>2. CASE Len(s) # 0
  <2> DEFINE n == Len(s)
  <2>1. n \in Nat /\ n \in 1..n
    BY <1>2
  <2>2. PICK f : Flattens(f, s, n) /\ FlattenSeq(s) = f[n]
    BY <1>2, <2>1, FlattenIs, FlattensExist
  <2>3. \A i \in 1..n : f[i] = IF i = 1 THEN s[i] ELSE f[i - 1] \o s[i]
    BY <2>2 DEF Flattens
  <2>4. \A i \in 1..n : s[i] \in Seq(T)
    OBVIOUS
  <2> DEFINE K == {k \in 1..n : f[k] \notin Seq(T)}
  <2> HIDE DEF n
  <2>5. K = {}
    <3>1. SUFFICES ASSUME K # {}
                   PROVE  FALSE
      OBVIOUS
    <3>2. PICK k \in K : \A j \in K : k <= j
      <4>1. K \in SUBSET Nat
        OBVIOUS
      <4> HIDE DEF K
      <4> QED
        BY <3>1, <4>1, LeastExists
    <3>3. k \in 1..n /\ f[k] \notin Seq(T)
      BY <3>2
    <3>4. k # 1
      BY <2>3, <2>4, <3>3
    <3>5. k - 1 \in 1..n /\ k - 1 \notin K
      BY <2>1, <3>2, <3>3, <3>4
    <3>6. f[k - 1] \in Seq(T) /\ s[k] \in Seq(T)
      BY <2>4, <3>3, <3>5
    <3>7. f[k] = f[k - 1] \o s[k]
      BY <2>3, <3>3, <3>4
    <3> QED
      BY <3>3, <3>6, <3>7
  <2>6. f[n] \in Seq(T)
    BY <2>1, <2>5
  <2> QED
    BY <2>2, <2>6
<1> QED
  BY <1>1, <1>2

\* One more sequence comes at the end.
LEMMA FlattenAppend ==
    ASSUME NEW T, NEW s \in Seq(Seq(T)), NEW x \in Seq(T)
    PROVE  FlattenSeq(Append(s, x)) = FlattenSeq(s) \o x
<1> DEFINE t == Append(s, x)
           n == Len(s)
<1>1. n \in Nat /\ Len(t) = n + 1 /\ t[n + 1] = x /\ \A i \in 1..n : t[i] = s[i]
  OBVIOUS
<1> HIDE DEF t, n
<1>2. PICK f : Flattens(f, t, n + 1) /\ FlattenSeq(t) = f[n + 1]
  <2>1. \E f : Flattens(f, t, n + 1)
    <3>1. n + 1 \in Nat
      BY <1>1
    <3> QED
      BY <3>1, FlattensExist
  <2> QED
    BY <1>1, <2>1, FlattenIs
<1>3. f = [i \in 1..(n + 1) |-> IF i = 1 THEN t[i] ELSE f[i - 1] \o t[i]]
  BY <1>2 DEF Flattens
<1>4. CASE n = 0
  <2>1. FlattenSeq(s) = <<>>
    BY <1>4 DEF FlattenSeq, n
  <2>2. f[n + 1] = x
    BY <1>1, <1>3, <1>4
  <2> QED
    BY <1>2, <2>1, <2>2 DEF t
<1>5. CASE n # 0
  <2>1. PICK g : Flattens(g, s, n) /\ FlattenSeq(s) = g[n]
    <3>1. \E g : Flattens(g, s, n)
      BY <1>1, FlattensExist
    <3> QED
      BY <1>5, <3>1, FlattenIs DEF n
  <2> DEFINE h == [i \in 1..n |-> f[i]]
  <2>2. \A i \in 1..n : h[i] = IF i = 1 THEN s[i] ELSE h[i - 1] \o s[i]
    <3> TAKE i \in 1..n
    <3>1. i \in 1..(n + 1) /\ h[i] = f[i] /\ t[i] = s[i] /\ (i # 1 => h[i - 1] = f[i - 1])
      BY <1>1
    <3>2. f[i] = IF i = 1 THEN t[i] ELSE f[i - 1] \o t[i]
      BY <1>3, <3>1
    <3> QED
      BY <3>1, <3>2
  <2>3. h = [i \in 1..n |-> h[i]]
    OBVIOUS
  <2>4. h[n] = f[n]
    BY <1>1, <1>5
  <2> HIDE DEF h
  <2>5. Flattens(h, s, n)
    BY <2>2, <2>3 DEF Flattens
  <2>6. g = h
    BY <1>1, <2>1, <2>5, FlattensAreUnique
  <2>7. f[n + 1] = f[n] \o x
    <3> DEFINE m == n + 1
    <3>1. m \in 1..m /\ m # 1 /\ m - 1 = n
      BY <1>1, <1>5
    <3>2. \A i \in 1..m : f[i] = IF i = 1 THEN t[i] ELSE f[i - 1] \o t[i]
      BY <1>3
    <3>3. t[m] = x
      BY <1>1
    <3> HIDE DEF m
    <3>4. f[m] = f[m - 1] \o t[m]
      BY <3>1, <3>2
    <3> QED
      BY <3>1, <3>3, <3>4 DEF m
  <2> QED
    BY <1>2, <2>1, <2>4, <2>6, <2>7 DEF t
<1> QED
  BY <1>4, <1>5

\* Suffixes, element by element.
LEMMA SuffixIs ==
    ASSUME NEW T, NEW s \in Seq(T), NEW t \in Seq(T)
    PROVE  IsSuffix(s, t) <=> /\ Len(s) <= Len(t)
                              /\ \A i \in 1..Len(s) : s[i] = t[Len(t) - Len(s) + i]
<1> DEFINE m == Len(s)
           n == Len(t)
           rs == Reverse(s)
           rt == Reverse(t)
<1>1. m \in Nat /\ n \in Nat /\ DOMAIN s = 1..m /\ DOMAIN t = 1..n
  OBVIOUS
<1>2. /\ rs \in Seq(T) /\ Len(rs) = m /\ \A i \in 1..m : rs[i] = s[m - i + 1]
      /\ rt \in Seq(T) /\ Len(rt) = n /\ \A i \in 1..n : rt[i] = t[n - i + 1]
  BY DEF Reverse
<1>3. IsSuffix(s, t) <=> m <= n /\ SubSeq(rs, 1, m) = SubSeq(rt, 1, m)
  BY <1>2 DEF IsSuffix, IsPrefix
<1> HIDE DEF m, n, rs, rt
<1>4. ASSUME m <= n
      PROVE  SubSeq(rs, 1, m) = SubSeq(rt, 1, m) <=> \A i \in 1..m : s[i] = t[n - m + i]
  <2>1. SubSeq(rs, 1, m) = SubSeq(rt, 1, m) <=> \A i \in 1..m : rs[i] = rt[i]
    <3>1. /\ SubSeq(rs, 1, m) = [i \in 1..m |-> rs[i]]
          /\ SubSeq(rt, 1, m) = [i \in 1..m |-> rt[i]]
      BY <1>1, <1>2, <1>4
    <3> QED
      BY <3>1
  <2>2. ASSUME \A i \in 1..m : rs[i] = rt[i], NEW i \in 1..m
        PROVE  s[i] = t[n - m + i]
    <3>1. m - i + 1 \in 1..m /\ m - i + 1 \in 1..n /\ m - (m - i + 1) + 1 = i /\ n - (m - i + 1) + 1 = n - m + i
      BY <1>1, <1>4
    <3>2. rs[m - i + 1] = rt[m - i + 1]
      BY <2>2, <3>1
    <3> QED
      BY <1>2, <3>1, <3>2
  <2>3. ASSUME \A i \in 1..m : s[i] = t[n - m + i], NEW i \in 1..m
        PROVE  rs[i] = rt[i]
    <3>1. m - i + 1 \in 1..m /\ i \in 1..n /\ n - m + (m - i + 1) = n - i + 1
      BY <1>1, <1>4
    <3>2. s[m - i + 1] = t[n - m + (m - i + 1)]
      BY <2>3, <3>1
    <3> QED
      BY <1>2, <3>1, <3>2
  <2> QED
    BY <2>1, <2>2, <2>3
<1> QED
  BY <1>3, <1>4 DEF m, n

Least(m, n) == IF m < n THEN m ELSE n

LEMMA KeepIs ==
    ASSUME NEW T, NEW s \in Seq(T), NEW n \in Nat \ {0}
    PROVE  /\ Keep(s, n) \in Seq(T) /\ Len(Keep(s, n)) = Least(Len(s), n)
           /\ \A i \in 1..Least(Len(s), n) : Keep(s, n)[i] = s[Len(s) - Least(Len(s), n) + i]
<1> DEFINE from == IF Len(s) > n THEN Len(s) - n + 1 ELSE 1
           k == Keep(s, n)
<1>1. k = SubSeq(s, from, Len(s))
  BY DEF Keep
<1>2. from \in 1..(Len(s) + 1) /\ Len(s) \in Nat /\ Len(s) - from + 1 = Least(Len(s), n)
  <2>1. Len(s) \in Nat
    OBVIOUS
  <2>2. CASE Len(s) > n
    <3> DEFINE l == Len(s)
    <3>1. from = l - n + 1 /\ Least(l, n) = n /\ l \in Nat /\ l > n
      BY <2>1, <2>2 DEF Least
    <3> HIDE DEF from, l
    <3>2. from \in 1..(l + 1) /\ l - from + 1 = Least(l, n)
      BY <3>1
    <3> QED
      BY <3>1, <3>2 DEF l
  <2>3. CASE ~(Len(s) > n)
    BY <2>1, <2>3 DEF Least
  <2> QED
    BY <2>2, <2>3, Zenon
<1> HIDE DEF from, k
<1>3. /\ k \in Seq(T) /\ Len(k) = Len(s) - from + 1
      /\ \A i \in 1..(Len(s) - from + 1) : k[i] = s[from + i - 1]
  BY <1>1, <1>2
<1>4. \A i \in 1..Least(Len(s), n) : from + i - 1 = Len(s) - Least(Len(s), n) + i
  BY <1>2
<1> QED
  BY <1>2, <1>3, <1>4 DEF k

\* The last n elements of p end a.
Back(p, a, n) ==
    /\ Least(Len(p), n) <= Len(a)
    /\ \A k \in 0..(Least(Len(p), n) - 1) : p[Len(p) - k] = a[Len(a) - k]

LEMMA BackIs ==
    ASSUME NEW T, NEW p \in Seq(T), NEW a \in Seq(T), NEW n \in Nat \ {0}
    PROVE  IsSuffix(Keep(p, n), a) <=> Back(p, a, n)
<1> DEFINE q == Keep(p, n)
           m == Least(Len(p), n)
<1>1. /\ q \in Seq(T) /\ Len(q) = m /\ m \in Nat /\ m <= Len(p) /\ Len(p) \in Nat /\ Len(a) \in Nat
      /\ \A i \in 1..m : q[i] = p[Len(p) - m + i]
  <2>1. m \in Nat /\ m <= Len(p) /\ Len(p) \in Nat /\ Len(a) \in Nat
    BY DEF Least
  <2>2. q \in Seq(T) /\ Len(q) = m /\ \A i \in 1..m : q[i] = p[Len(p) - m + i]
    BY KeepIs
  <2> QED
    BY <2>1, <2>2
<1> HIDE DEF q, m
<1>2. IsSuffix(q, a) <=> m <= Len(a) /\ \A i \in 1..m : q[i] = a[Len(a) - m + i]
  <2>1. q \in Seq(T) /\ Len(q) = m
    BY <1>1
  <2>2. IsSuffix(q, a) <=> Len(q) <= Len(a) /\ \A i \in 1..Len(q) : q[i] = a[Len(a) - Len(q) + i]
    BY <2>1, SuffixIs, Zenon
  <2> QED
    BY <2>1, <2>2, Zenon
<1>3. ASSUME \A i \in 1..m : q[i] = a[Len(a) - m + i], NEW k \in 0..(m - 1)
      PROVE  p[Len(p) - k] = a[Len(a) - k]
  <2>1. m - k \in 1..m /\ Len(p) - m + (m - k) = Len(p) - k /\ Len(a) - m + (m - k) = Len(a) - k
    BY <1>1
  <2>2. q[m - k] = a[Len(a) - m + (m - k)] /\ q[m - k] = p[Len(p) - m + (m - k)]
    BY <1>1, <1>3, <2>1
  <2> QED
    BY <2>1, <2>2
<1>4. ASSUME \A k \in 0..(m - 1) : p[Len(p) - k] = a[Len(a) - k], NEW i \in 1..m
      PROVE  q[i] = a[Len(a) - m + i]
  <2>1. m - i \in 0..(m - 1) /\ Len(p) - (m - i) = Len(p) - m + i /\ Len(a) - (m - i) = Len(a) - m + i
    BY <1>1
  <2>2. p[Len(p) - (m - i)] = a[Len(a) - (m - i)]
    BY <1>4, <2>1
  <2> QED
    BY <1>1, <2>1, <2>2
<1> QED
  BY <1>2, <1>3, <1>4 DEF Back, q, m

\* What both sequences get more of stays at the end of both.
LEMMA BackGrows ==
    ASSUME NEW T, NEW p \in Seq(T), NEW a \in Seq(T), NEW x \in Seq(T), NEW n \in Nat \ {0}, Back(p, a, n)
    PROVE  Back(p \o x, Keep(a \o x, n), n)
<1> DEFINE b == a \o x
           q == p \o x
           c == Keep(b, n)
           l == Len(x)
<1>1. /\ b \in Seq(T) /\ q \in Seq(T) /\ Len(b) = Len(a) + l /\ Len(q) = Len(p) + l
      /\ Len(a) \in Nat /\ Len(p) \in Nat /\ l \in Nat
  OBVIOUS
<1>2. /\ \A i \in 1..l : b[Len(a) + i] = x[i] /\ q[Len(p) + i] = x[i]
      /\ \A i \in 1..Len(a) : b[i] = a[i]
      /\ \A i \in 1..Len(p) : q[i] = p[i]
  OBVIOUS
<1> HIDE DEF b, q
<1>3. /\ c \in Seq(T) /\ Len(c) = Least(Len(b), n)
      /\ \A i \in 1..Least(Len(b), n) : c[i] = b[Len(b) - Least(Len(b), n) + i]
  BY <1>1, KeepIs
<1> HIDE DEF c, l
<1>4. Least(Len(q), n) <= Len(c)
  BY <1>1, <1>3 DEF Back, Least
<1>5. ASSUME NEW k \in 0..(Least(Len(q), n) - 1)
      PROVE  q[Len(q) - k] = c[Len(c) - k]
  <2>1. k \in Nat /\ k < Len(q) /\ k < n /\ k < Len(c)
    BY <1>1, <1>4 DEF Least
  <2>2. c[Len(c) - k] = b[Len(b) - k]
    <3>1. Len(c) - k \in 1..Least(Len(b), n) /\ Len(b) - Least(Len(b), n) + (Len(c) - k) = Len(b) - k
      BY <1>1, <1>3, <2>1 DEF Least
    <3> QED
      BY <1>3, <3>1
  <2>3. CASE k < l
    <3>1. l - k \in 1..l /\ Len(a) + (l - k) = Len(b) - k /\ Len(p) + (l - k) = Len(q) - k
      BY <1>1, <2>1, <2>3
    <3>2. b[Len(a) + (l - k)] = x[l - k] /\ q[Len(p) + (l - k)] = x[l - k]
      BY <1>2, <3>1
    <3> QED
      BY <2>2, <3>1, <3>2
  <2>4. CASE ~(k < l)
    <3>1. k - l \in 0..(Least(Len(p), n) - 1)
      BY <1>1, <2>1, <2>4 DEF Least
    <3>2. p[Len(p) - (k - l)] = a[Len(a) - (k - l)]
      BY <3>1 DEF Back
    <3>3. Len(p) - (k - l) \in 1..Len(p) /\ Len(a) - (k - l) \in 1..Len(a)
      BY <1>1, <3>1 DEF Least, Back
    <3>4. Len(p) - (k - l) = Len(q) - k /\ Len(a) - (k - l) = Len(b) - k
      BY <1>1, <2>1
    <3> QED
      BY <1>2, <2>2, <3>2, <3>3, <3>4
  <2> QED
    BY <2>3, <2>4
<1> QED
  BY <1>4, <1>5 DEF Back, b, q, c

\* What ends a after p ends it by itself.
LEMMA BackForgets ==
    ASSUME NEW T, NEW p \in Seq(T), NEW a \in Seq(T), NEW x \in Seq(T), NEW n \in Nat \ {0},
           Back(p \o x, a, n)
    PROVE  Back(x, a, n)
<1> DEFINE q == p \o x
<1>1. /\ Len(q) = Len(p) + Len(x) /\ Len(p) \in Nat /\ Len(x) \in Nat /\ Len(a) \in Nat
      /\ \A i \in 1..Len(x) : q[Len(p) + i] = x[i]
  OBVIOUS
<1>2. Back(q, a, n)
  OBVIOUS
<1> HIDE DEF q
<1>3. Least(Len(x), n) <= Len(a)
  BY <1>1, <1>2 DEF Back, Least
<1>4. ASSUME NEW k \in 0..(Least(Len(x), n) - 1)
      PROVE  x[Len(x) - k] = a[Len(a) - k]
  <2>1. k \in 0..(Least(Len(q), n) - 1) /\ Len(x) - k \in 1..Len(x) /\ Len(p) + (Len(x) - k) = Len(q) - k
    BY <1>1 DEF Least
  <2>2. q[Len(q) - k] = a[Len(a) - k] /\ q[Len(p) + (Len(x) - k)] = x[Len(x) - k]
    BY <1>1, <1>2, <2>1 DEF Back
  <2> QED
    BY <2>1, <2>2
<1> QED
  BY <1>3, <1>4 DEF Back

(***************************************************************************)
(* What a room shows of the commands saved into it.                        *)
(***************************************************************************)
\* The pins of the commands rec, when the commands are as cmds says.
PinsAt(cmds, rec) == FlattenSeq([i \in 1..Len(rec) |-> PinsOf(cmds[rec[i]], rec[i])])

LatestAt(cmds, rec, kinds, c) ==
    \E i \in 1..Len(rec) :
        /\ rec[i] = c
        /\ cmds[c].kind \in kinds
        /\ \A j \in (i + 1)..Len(rec) : cmds[rec[j]].kind \notin kinds

SlicesAt(doc, cmds, rec) ==
    \A c \in Commands :
        /\ LatestAt(cmds, rec, {"ask"}, c) => doc.focus = c
        /\ LatestAt(cmds, rec, {"scenario"}, c) => doc.scenario = c
        /\ LatestAt(cmds, rec, {"export"}, c) => doc.export = c
        /\ LatestAt(cmds, rec, {"pause", "resume"}, c) => doc.paused = (cmds[c].kind = "pause")

\* The room doc is what the commands rec, in this order, made of it.
Shows(doc, cmds, rec) ==
    /\ Back(rec, doc.audit, AuditKeep)
    /\ Back(PinsAt(cmds, rec), doc.pins, PinKeep)
    /\ rec # <<>> => doc.active = rec[Len(rec)]
    /\ SlicesAt(doc, cmds, rec)

AllKinds == Kinds \cup {"unknown", "refused"}

Typical(cmds) == \A c \in Commands : cmds[c].kind \in AllKinds /\ cmds[c].hits \in 0..MaxHits

LEMMA Bounds == AuditKeep \in Nat \ {0} /\ PinKeep \in Nat \ {0} /\ MaxHits \in Nat \ {0}
BY BoundsAssumption

LEMMA PinsOfType ==
    ASSUME NEW cmds, Typical(cmds), NEW c \in Commands
    PROVE  PinsOf(cmds[c], c) \in Seq(Commands)
<1>1. CASE cmds[c].kind = "pin"
  <2>1. PinsOf(cmds[c], c) = [i \in 1..cmds[c].hits |-> c] /\ cmds[c].hits \in Nat
    BY <1>1, Bounds DEF PinsOf, Typical
  <2> QED
    BY <2>1
<1>2. CASE cmds[c].kind # "pin"
  BY <1>2 DEF PinsOf
<1> QED
  BY <1>1, <1>2

LEMMA PinsType ==
    ASSUME NEW cmds, Typical(cmds), NEW rec \in Seq(Commands)
    PROVE  PinsAt(cmds, rec) \in Seq(Commands)
<1> DEFINE s == [i \in 1..Len(rec) |-> PinsOf(cmds[rec[i]], rec[i])]
<1>1. \A i \in 1..Len(rec) : PinsOf(cmds[rec[i]], rec[i]) \in Seq(Commands)
  BY PinsOfType
<1>2. s \in Seq(Seq(Commands))
  BY <1>1
<1> HIDE DEF s
<1>3. FlattenSeq(s) \in Seq(Commands)
  BY <1>2, FlattenType
<1> QED
  BY <1>3 DEF PinsAt, s

LEMMA PinsGrow ==
    ASSUME NEW cmds, Typical(cmds), NEW rec \in Seq(Commands), NEW c \in Commands
    PROVE  PinsAt(cmds, Append(rec, c)) = PinsAt(cmds, rec) \o PinsOf(cmds[c], c)
<1> DEFINE e == Append(rec, c)
           s == [i \in 1..Len(rec) |-> PinsOf(cmds[rec[i]], rec[i])]
           t == [i \in 1..Len(e) |-> PinsOf(cmds[e[i]], e[i])]
           x == PinsOf(cmds[c], c)
<1>1. \A i \in 1..Len(rec) : PinsOf(cmds[rec[i]], rec[i]) \in Seq(Commands)
  BY PinsOfType
<1>2. s \in Seq(Seq(Commands)) /\ Len(s) = Len(rec)
  BY <1>1
<1>3. x \in Seq(Commands)
  BY PinsOfType
<1>4. t = Append(s, x)
  <2>1. Len(rec) \in Nat /\ Len(e) = Len(rec) + 1 /\ e[Len(rec) + 1] = c /\ \A i \in 1..Len(rec) : e[i] = rec[i]
    OBVIOUS
  <2>2. /\ Append(s, x) = [i \in 1..(Len(rec) + 1) |-> Append(s, x)[i]]
        /\ \A i \in 1..(Len(rec) + 1) : Append(s, x)[i] = IF i = Len(rec) + 1 THEN x ELSE s[i]
    <3> HIDE DEF s, x
    <3>1. Append(s, x) \in Seq(Seq(Commands)) /\ Len(Append(s, x)) = Len(rec) + 1
      BY <1>2, <1>3
    <3>2. \A i \in 1..(Len(rec) + 1) : Append(s, x)[i] = IF i = Len(rec) + 1 THEN x ELSE s[i]
      BY <1>2, <1>3
    <3> DEFINE u == Append(s, x)
    <3>3. u \in Seq(Seq(Commands)) /\ Len(u) = Len(rec) + 1
      BY <3>1
    <3> HIDE DEF u
    <3>4. u = [i \in 1..Len(u) |-> u[i]]
      BY <3>3
    <3>5. u = [i \in 1..(Len(rec) + 1) |-> u[i]]
      BY <3>3, <3>4
    <3> QED
      BY <3>2, <3>5 DEF u
  <2>3. \A i \in 1..(Len(rec) + 1) : t[i] = IF i = Len(rec) + 1 THEN x ELSE s[i]
    <3> HIDE DEF e
    <3> QED
      BY <2>1
  <2>4. t = [i \in 1..(Len(rec) + 1) |-> t[i]]
    BY <2>1
  <2> HIDE DEF t, s, x, e
  <2> QED
    BY <2>2, <2>3, <2>4
<1> HIDE DEF s, x
<1>5. FlattenSeq(t) = FlattenSeq(s) \o x
  BY <1>2, <1>3, <1>4, FlattenAppend
<1> QED
  BY <1>5 DEF PinsAt, s, x

LEMMA PinsOfNone == \A cmds : PinsAt(cmds, <<>>) = <<>>
<1> TAKE cmds
<1>1. [i \in 1..Len(<<>>) |-> PinsOf(cmds[<<>>[i]], <<>>[i])] = <<>>
  OBVIOUS
<1>2. FlattenSeq(<<>>) = <<>>
  BY DEF FlattenSeq
<1> QED
  BY <1>1, <1>2 DEF PinsAt

LEMMA EmptyShows == \A cmds : Shows(EmptyRoom, cmds, <<>>)
<1> TAKE cmds
<1>1. Back(<<>>, <<>>, AuditKeep) /\ Back(<<>>, <<>>, PinKeep)
  BY Bounds DEF Back, Least
<1>2. SlicesAt(EmptyRoom, cmds, <<>>)
  BY DEF SlicesAt, LatestAt
<1> QED
  BY <1>1, <1>2, PinsOfNone DEF Shows, EmptyRoom

\* Only the kinds of the commands that were saved matter.
LEMMA ShowsStays ==
    ASSUME NEW doc, NEW cmds, NEW kmds, NEW rec \in Seq(Commands), Shows(doc, cmds, rec),
           \A i \in 1..Len(rec) : /\ kmds[rec[i]].kind = cmds[rec[i]].kind
                                  /\ kmds[rec[i]].hits = cmds[rec[i]].hits
    PROVE  Shows(doc, kmds, rec)
<1>1. PinsAt(kmds, rec) = PinsAt(cmds, rec)
  <2>1. \A i \in 1..Len(rec) : PinsOf(kmds[rec[i]], rec[i]) = PinsOf(cmds[rec[i]], rec[i])
    BY DEF PinsOf
  <2>2. [i \in 1..Len(rec) |-> PinsOf(kmds[rec[i]], rec[i])] = [i \in 1..Len(rec) |-> PinsOf(cmds[rec[i]], rec[i])]
    BY <2>1
  <2> QED
    BY <2>2 DEF PinsAt
<1>2. ASSUME NEW kinds, NEW c, LatestAt(kmds, rec, kinds, c)
      PROVE  LatestAt(cmds, rec, kinds, c) /\ kmds[c].kind = cmds[c].kind
  <2>1. PICK i \in 1..Len(rec) : /\ rec[i] = c /\ kmds[c].kind \in kinds
                                 /\ \A j \in (i + 1)..Len(rec) : kmds[rec[j]].kind \notin kinds
    BY <1>2 DEF LatestAt
  <2>2. \A j \in (i + 1)..Len(rec) : j \in 1..Len(rec)
    OBVIOUS
  <2> QED
    BY <2>1, <2>2 DEF LatestAt
<1>3. SlicesAt(doc, kmds, rec)
  BY <1>2 DEF Shows, SlicesAt
<1> QED
  BY <1>1, <1>3 DEF Shows

\* The last command alone is shown by what shows it after others.
LEMMA ShowsForgets ==
    ASSUME NEW doc \in Rooms, NEW cmds, Typical(cmds), NEW rec \in Seq(Commands), NEW c \in Commands,
           Shows(doc, cmds, Append(rec, c))
    PROVE  Shows(doc, cmds, <<c>>)
<1> DEFINE e == Append(rec, c)
<1>1. doc.audit \in Seq(Commands) /\ doc.pins \in Seq(Commands)
  BY DEF Rooms, UpTo
<1>2. e = rec \o <<c>> /\ <<c>> \in Seq(Commands)
  OBVIOUS
<1>3. Back(<<c>>, doc.audit, AuditKeep)
  <2>1. Back(rec \o <<c>>, doc.audit, AuditKeep)
    BY <1>2 DEF Shows
  <2> QED
    BY <1>1, <1>2, <2>1, Bounds, BackForgets
<1>4. Back(PinsAt(cmds, <<c>>), doc.pins, PinKeep)
  <2> DEFINE p == PinsAt(cmds, rec)
             x == PinsOf(cmds[c], c)
  <2>1. p \in Seq(Commands) /\ x \in Seq(Commands)
    BY PinsType, PinsOfType
  <2>2. Back(p \o x, doc.pins, PinKeep)
    BY PinsGrow DEF Shows
  <2>3. PinsAt(cmds, <<c>>) = x
    <3>1. PinsAt(cmds, Append(<<>>, c)) = PinsAt(cmds, <<>>) \o x
      <4>1. <<>> \in Seq(Commands)
        OBVIOUS
      <4> QED
        BY <4>1, PinsGrow
    <3>2. Append(<<>>, c) = <<c>> /\ <<>> \o x = x
      BY <2>1
    <3> QED
      BY <3>1, <3>2, PinsOfNone
  <2> HIDE DEF p, x
  <2>4. Back(x, doc.pins, PinKeep)
    BY <1>1, <2>1, <2>2, Bounds, BackForgets
  <2> QED
    BY <2>3, <2>4
<1>5. doc.active = c
  BY DEF Shows
<1>6. ASSUME NEW kinds, NEW f, LatestAt(cmds, <<c>>, kinds, f)
      PROVE  LatestAt(cmds, e, kinds, f)
  <2>1. f = c /\ cmds[c].kind \in kinds
    BY <1>6 DEF LatestAt
  <2>2. Len(e) \in 1..Len(e) /\ e[Len(e)] = c /\ \A j \in (Len(e) + 1)..Len(e) : FALSE
    OBVIOUS
  <2> HIDE DEF e
  <2> QED
    BY <2>1, <2>2 DEF LatestAt
<1>7. SlicesAt(doc, cmds, <<c>>)
  <2>1. SlicesAt(doc, cmds, e)
    BY DEF Shows
  <2> HIDE DEF e
  <2> QED
    BY <1>6, <2>1 DEF SlicesAt
<1> QED
  BY <1>3, <1>4, <1>5, <1>7 DEF Shows

LEMMA AppliedIs ==
    ASSUME NEW doc \in Rooms, NEW cmd, cmd.kind \in AllKinds, NEW c \in Commands,
           NEW new, new = Applied(doc, cmd, c)
    PROVE  /\ new = [audit |-> Keep(Append(doc.audit, c), AuditKeep), active |-> c,
                     pins |-> new.pins, focus |-> new.focus, scenario |-> new.scenario,
                     paused |-> new.paused, export |-> new.export]
           /\ new.audit = Keep(Append(doc.audit, c), AuditKeep) /\ new.active = c
           /\ new.pins = IF cmd.kind = "pin" THEN Keep(doc.pins \o PinsOf(cmd, c), PinKeep) ELSE doc.pins
           /\ new.focus = IF cmd.kind = "ask" THEN c ELSE doc.focus
           /\ new.scenario = IF cmd.kind = "scenario" THEN c ELSE doc.scenario
           /\ new.export = IF cmd.kind = "export" THEN c ELSE doc.export
           /\ new.paused = IF cmd.kind \in {"pause", "resume"} THEN cmd.kind = "pause" ELSE doc.paused
<1> DEFINE p == Patched(doc, cmd, c)
<1>1. doc = [audit |-> doc.audit, active |-> doc.active, pins |-> doc.pins, focus |-> doc.focus,
             scenario |-> doc.scenario, paused |-> doc.paused, export |-> doc.export]
  BY DEF Rooms
<1> DEFINE Good == /\ p = [audit |-> doc.audit, active |-> doc.active, pins |-> p.pins, focus |-> p.focus,
                           scenario |-> p.scenario, paused |-> p.paused, export |-> p.export]
                   /\ p.pins = IF cmd.kind = "pin" THEN Keep(doc.pins \o PinsOf(cmd, c), PinKeep) ELSE doc.pins
                   /\ p.focus = IF cmd.kind = "ask" THEN c ELSE doc.focus
                   /\ p.scenario = IF cmd.kind = "scenario" THEN c ELSE doc.scenario
                   /\ p.export = IF cmd.kind = "export" THEN c ELSE doc.export
                   /\ p.paused = IF cmd.kind \in {"pause", "resume"} THEN cmd.kind = "pause" ELSE doc.paused
<1>2. Good
  <2>1. CASE cmd.kind = "ask"
    <3>1. p = [doc EXCEPT !.focus = c]
      BY <2>1 DEF Patched
    <3> HIDE DEF p
    <3> QED
      BY <1>1, <2>1, <3>1
  <2>2. CASE cmd.kind = "scenario"
    <3>1. p = [doc EXCEPT !.scenario = c]
      BY <2>2 DEF Patched
    <3> HIDE DEF p
    <3> QED
      BY <1>1, <2>2, <3>1
  <2>3. CASE cmd.kind = "export"
    <3>1. p = [doc EXCEPT !.export = c]
      BY <2>3 DEF Patched
    <3> HIDE DEF p
    <3> QED
      BY <1>1, <2>3, <3>1
  <2>4. CASE cmd.kind \in {"pause", "resume"}
    <3>1. p = [doc EXCEPT !.paused = (cmd.kind = "pause")]
      BY <2>4 DEF Patched
    <3> HIDE DEF p
    <3> QED
      BY <1>1, <2>4, <3>1
  <2>5. CASE cmd.kind = "pin"
    <3>1. p = [doc EXCEPT !.pins = Keep(doc.pins \o PinsOf(cmd, c), PinKeep)]
      BY <2>5 DEF Patched
    <3> HIDE DEF p
    <3> QED
      BY <1>1, <2>5, <3>1
  <2>6. CASE cmd.kind \in {"unknown", "refused"}
    <3>1. p = doc
      BY <2>6 DEF Patched
    <3> HIDE DEF p
    <3> QED
      BY <1>1, <2>6, <3>1
  <2> QED
    BY <2>1, <2>2, <2>3, <2>4, <2>5, <2>6 DEF AllKinds, Kinds
<1>3. new = [p EXCEPT !.audit = Keep(Append(@, c), AuditKeep), !.active = c]
  BY DEF Applied
<1> HIDE DEF p
<1>4. /\ new = [audit |-> Keep(Append(doc.audit, c), AuditKeep), active |-> c, pins |-> p.pins,
                focus |-> p.focus, scenario |-> p.scenario, paused |-> p.paused, export |-> p.export]
  <2>1. PICK d, s, f, t, z, x : p = [audit |-> doc.audit, active |-> d, pins |-> s, focus |-> f,
                                     scenario |-> t, paused |-> z, export |-> x]
    BY <1>2
  <2> QED
    BY <1>3, <2>1
<1>5. /\ new.audit = Keep(Append(doc.audit, c), AuditKeep) /\ new.active = c
      /\ new.pins = p.pins /\ new.focus = p.focus /\ new.scenario = p.scenario
      /\ new.export = p.export /\ new.paused = p.paused
  BY <1>4
<1> QED
  BY <1>2, <1>4, <1>5

LEMMA AppliedIsRoom ==
    ASSUME NEW doc \in Rooms, NEW cmds, Typical(cmds), NEW c \in Commands,
           NEW new, new = Applied(doc, cmds[c], c)
    PROVE  new \in Rooms
<1> DEFINE k == cmds[c].kind
           x == PinsOf(cmds[c], c)
<1>1. /\ new = [audit |-> Keep(Append(doc.audit, c), AuditKeep), active |-> c,
                pins |-> new.pins, focus |-> new.focus, scenario |-> new.scenario,
                paused |-> new.paused, export |-> new.export]
      /\ new.audit = Keep(Append(doc.audit, c), AuditKeep) /\ new.active = c
      /\ new.pins = IF k = "pin" THEN Keep(doc.pins \o x, PinKeep) ELSE doc.pins
      /\ new.focus = IF k = "ask" THEN c ELSE doc.focus
      /\ new.scenario = IF k = "scenario" THEN c ELSE doc.scenario
      /\ new.export = IF k = "export" THEN c ELSE doc.export
      /\ new.paused = IF k \in {"pause", "resume"} THEN k = "pause" ELSE doc.paused
  <2>1. k \in AllKinds
    BY DEF Typical
  <2> QED
    BY <2>1, AppliedIs
<1>2. /\ doc.audit \in Seq(Commands) /\ doc.pins \in Seq(Commands) /\ Len(doc.pins) <= PinKeep
      /\ doc.focus \in Maybe(Commands) /\ doc.scenario \in Maybe(Commands)
      /\ doc.export \in Maybe(Commands) /\ doc.paused \in BOOLEAN
  BY DEF Rooms, UpTo
<1>3. x \in Seq(Commands)
  BY PinsOfType
<1>4. Append(doc.audit, c) = doc.audit \o <<c>> /\ <<c>> \in Seq(Commands)
  BY <1>2
<1> HIDE DEF k, x
<1>5. new.audit = Keep(doc.audit \o <<c>>, AuditKeep) /\ new.active = c
  BY <1>1, <1>4
<1>6. new \in Rooms
  <2>1. new.audit \in UpTo(Commands, AuditKeep)
    <3>1. doc.audit \o <<c>> \in Seq(Commands)
      BY <1>2, <1>4
    <3>2. /\ Keep(doc.audit \o <<c>>, AuditKeep) \in Seq(Commands)
          /\ Len(Keep(doc.audit \o <<c>>, AuditKeep)) = Least(Len(doc.audit \o <<c>>), AuditKeep)
      BY <3>1, Bounds, KeepIs
    <3>3. Len(doc.audit \o <<c>>) \in Nat
      BY <3>1
    <3> QED
      BY <1>5, <3>2, <3>3, Bounds DEF UpTo, Least
  <2>2. new.pins \in UpTo(Commands, PinKeep)
    <3>1. doc.pins \o x \in Seq(Commands)
      BY <1>2, <1>3
    <3>2. /\ Keep(doc.pins \o x, PinKeep) \in Seq(Commands)
          /\ Len(Keep(doc.pins \o x, PinKeep)) = Least(Len(doc.pins \o x), PinKeep)
      BY <3>1, Bounds, KeepIs
    <3>3. Len(doc.pins \o x) \in Nat
      BY <3>1
    <3> QED
      BY <1>1, <1>2, <3>2, <3>3, Bounds DEF UpTo, Least
  <2>3. /\ new.focus \in Maybe(Commands) /\ new.scenario \in Maybe(Commands)
        /\ new.export \in Maybe(Commands) /\ new.active \in Maybe(Commands)
    BY <1>1, <1>2, <1>5 DEF Maybe
  <2>4. new.paused \in BOOLEAN
    <3>1. new.paused = doc.paused \/ new.paused = (k = "pause")
      BY <1>1
    <3> QED
      BY <1>2, <3>1, Zenon
  <2>5. new = [audit |-> new.audit, active |-> new.active, pins |-> new.pins, focus |-> new.focus,
               scenario |-> new.scenario, paused |-> new.paused, export |-> new.export]
    <3>1. PICK a, y, s, f, t, z, o : new = [audit |-> a, active |-> y, pins |-> s, focus |-> f, scenario |-> t,
                                            paused |-> z, export |-> o]
      BY <1>1
    <3> QED
      BY <3>1
  <2> QED
    BY <2>1, <2>2, <2>3, <2>4, <2>5 DEF Rooms
<1> QED
  BY <1>6

\* _finalize: a room that shows what was saved, with one command applied, shows
\* that command as well.
LEMMA AppliedShows ==
    ASSUME NEW doc \in Rooms, NEW cmds, Typical(cmds), NEW rec \in Seq(Commands), NEW c \in Commands,
           Shows(doc, cmds, rec), NEW new, new = Applied(doc, cmds[c], c)
    PROVE  Shows(new, cmds, Append(rec, c)) /\ new \in Rooms
<1> DEFINE e == Append(rec, c)
           k == cmds[c].kind
           x == PinsOf(cmds[c], c)
           p == PinsAt(cmds, rec)
<1>1. /\ new = [audit |-> Keep(Append(doc.audit, c), AuditKeep), active |-> c,
                pins |-> new.pins, focus |-> new.focus, scenario |-> new.scenario,
                paused |-> new.paused, export |-> new.export]
      /\ new.audit = Keep(Append(doc.audit, c), AuditKeep) /\ new.active = c
      /\ new.pins = IF k = "pin" THEN Keep(doc.pins \o x, PinKeep) ELSE doc.pins
      /\ new.focus = IF k = "ask" THEN c ELSE doc.focus
      /\ new.scenario = IF k = "scenario" THEN c ELSE doc.scenario
      /\ new.export = IF k = "export" THEN c ELSE doc.export
      /\ new.paused = IF k \in {"pause", "resume"} THEN k = "pause" ELSE doc.paused
  <2>1. k \in AllKinds
    BY DEF Typical
  <2> QED
    BY <2>1, AppliedIs
<1>2. /\ doc.audit \in Seq(Commands) /\ doc.pins \in Seq(Commands) /\ Len(doc.pins) <= PinKeep
      /\ doc.focus \in Maybe(Commands) /\ doc.scenario \in Maybe(Commands)
      /\ doc.export \in Maybe(Commands) /\ doc.paused \in BOOLEAN
  BY DEF Rooms, UpTo
<1>3. x \in Seq(Commands) /\ p \in Seq(Commands) /\ PinsAt(cmds, e) = p \o x
  BY PinsOfType, PinsType, PinsGrow
<1>4. k # "pin" => x = <<>>
  BY DEF PinsOf
<1>5. Len(e) = Len(rec) + 1 /\ e[Len(rec) + 1] = c /\ (\A i \in 1..Len(rec) : e[i] = rec[i]) /\ e # <<>>
      /\ Len(rec) \in Nat
  OBVIOUS
<1>6. e = rec \o <<c>> /\ Append(doc.audit, c) = doc.audit \o <<c>> /\ <<c>> \in Seq(Commands)
  BY <1>2
<1> HIDE DEF e, k, x, p
<1>7. new.audit = Keep(doc.audit \o <<c>>, AuditKeep) /\ new.active = c
  BY <1>1, <1>6
<1>8. Back(e, new.audit, AuditKeep)
  <2>1. Back(rec, doc.audit, AuditKeep)
    BY DEF Shows
  <2>2. Back(rec \o <<c>>, Keep(doc.audit \o <<c>>, AuditKeep), AuditKeep)
    BY <1>2, <1>6, <2>1, Bounds, BackGrows
  <2> QED
    BY <1>6, <1>7, <2>2
<1>9. Back(p \o x, new.pins, PinKeep)
  <2>1. Back(p, doc.pins, PinKeep)
    BY DEF Shows, p
  <2>2. CASE k = "pin"
    <3>1. Back(p \o x, Keep(doc.pins \o x, PinKeep), PinKeep)
      BY <1>2, <1>3, <2>1, Bounds, BackGrows
    <3> QED
      BY <1>1, <2>2, <3>1
  <2>3. CASE k # "pin"
    <3>1. p \o x = p /\ new.pins = doc.pins
      BY <1>1, <1>3, <1>4, <2>3
    <3> QED
      BY <2>1, <3>1
  <2> QED
    BY <2>2, <2>3
<1>10. ASSUME NEW kinds, NEW f, LatestAt(cmds, e, kinds, f)
       PROVE  IF k \in kinds THEN f = c ELSE LatestAt(cmds, rec, kinds, f)
  <2>1. PICK i \in 1..Len(e) : /\ e[i] = f /\ cmds[f].kind \in kinds
                               /\ \A j \in (i + 1)..Len(e) : cmds[e[j]].kind \notin kinds
    BY <1>10 DEF LatestAt
  <2>2. CASE k \in kinds
    <3>1. ~(Len(e) \in (i + 1)..Len(e))
      BY <1>5, <2>1, <2>2 DEF k
    <3>2. i = Len(e)
      BY <1>5, <3>1
    <3> QED
      BY <1>5, <2>1, <2>2, <3>2
  <2>3. CASE k \notin kinds
    <3>1. i # Len(e)
      BY <1>5, <2>1, <2>3 DEF k
    <3>2. i \in 1..Len(rec) /\ rec[i] = f
      BY <1>5, <2>1, <3>1
    <3>3. \A j \in (i + 1)..Len(rec) : j \in (i + 1)..Len(e) /\ e[j] = rec[j]
      BY <1>5, <3>2
    <3>4. \A j \in (i + 1)..Len(rec) : cmds[rec[j]].kind \notin kinds
      BY <2>1, <3>3
    <3> QED
      BY <2>1, <2>3, <3>2, <3>4 DEF LatestAt
  <2> QED
    BY <2>2, <2>3
<1>11. SlicesAt(new, cmds, e)
  <2>1. SlicesAt(doc, cmds, rec)
    BY DEF Shows
  <2> SUFFICES ASSUME NEW f \in Commands
               PROVE  /\ LatestAt(cmds, e, {"ask"}, f) => new.focus = f
                      /\ LatestAt(cmds, e, {"scenario"}, f) => new.scenario = f
                      /\ LatestAt(cmds, e, {"export"}, f) => new.export = f
                      /\ LatestAt(cmds, e, {"pause", "resume"}, f) => new.paused = (cmds[f].kind = "pause")
    BY DEF SlicesAt
  <2>2. ASSUME LatestAt(cmds, e, {"ask"}, f)
        PROVE  new.focus = f
    BY <1>1, <1>10, <2>1, <2>2 DEF SlicesAt
  <2>3. ASSUME LatestAt(cmds, e, {"scenario"}, f)
        PROVE  new.scenario = f
    BY <1>1, <1>10, <2>1, <2>3 DEF SlicesAt
  <2>4. ASSUME LatestAt(cmds, e, {"export"}, f)
        PROVE  new.export = f
    BY <1>1, <1>10, <2>1, <2>4 DEF SlicesAt
  <2>5. ASSUME LatestAt(cmds, e, {"pause", "resume"}, f)
        PROVE  new.paused = (cmds[f].kind = "pause")
    <3>1. CASE k \in {"pause", "resume"}
      <4>1. f = c
        BY <1>10, <2>5, <3>1
      <4> QED
        BY <1>1, <3>1, <4>1 DEF k
    <3>2. CASE k \notin {"pause", "resume"}
      <4>1. LatestAt(cmds, rec, {"pause", "resume"}, f)
        BY <1>10, <2>5, <3>2
      <4>2. new.paused = doc.paused
        BY <1>1, <3>2
      <4> QED
        BY <2>1, <4>1, <4>2 DEF SlicesAt
    <3> QED
      BY <3>1, <3>2
  <2> QED
    BY <2>2, <2>3, <2>4, <2>5
<1>12. Shows(new, cmds, e)
  <2>1. new.active = e[Len(e)]
    BY <1>5, <1>7
  <2>2. Back(PinsAt(cmds, e), new.pins, PinKeep)
    BY <1>3, <1>9
  <2> QED
    BY <1>8, <1>11, <2>1, <2>2 DEF Shows
<1>13. new \in Rooms
  BY AppliedIsRoom
<1> QED
  BY <1>12, <1>13 DEF e

(***************************************************************************)
(* The audit log and the stream.                                           *)
(***************************************************************************)
Told(c, st) == \E i \in 1..Len(st) : st[i] = c

Ahead(c, e, st) == \E i, j \in 1..Len(st) : i < j /\ st[i] = c /\ st[j] = e

\* The entries of the log a that the stream st tells of come in its order.
InOrder(a, st) ==
    \A i, j \in 1..Len(a) :
        i < j /\ Told(a[i], st) /\ Told(a[j], st) => Ahead(a[i], a[j], st)

\* A command of which the log has nothing yet goes to the end of the stream.
LEMMA OrderStays ==
    ASSUME NEW st \in Seq(Commands), NEW c \in Commands, NEW a, InOrder(a, st),
           \A i \in 1..Len(a) : a[i] # c
    PROVE  InOrder(a, Append(st, c))
<1> DEFINE su == Append(st, c)
<1>1. Len(st) \in Nat /\ Len(su) = Len(st) + 1 /\ su[Len(st) + 1] = c /\ \A i \in 1..Len(st) : su[i] = st[i]
  OBVIOUS
<1> HIDE DEF su
<1> SUFFICES ASSUME NEW i \in 1..Len(a), NEW j \in 1..Len(a), i < j, Told(a[i], su), Told(a[j], su)
             PROVE  Ahead(a[i], a[j], su)
  BY DEF InOrder, su
<1>2. ASSUME NEW e, e # c, Told(e, su)
      PROVE  Told(e, st)
  <2>1. PICK k \in 1..Len(su) : su[k] = e
    BY <1>2 DEF Told
  <2>2. k \in 1..Len(st)
    BY <1>1, <1>2, <2>1
  <2> QED
    BY <1>1, <2>1, <2>2 DEF Told
<1>3. Ahead(a[i], a[j], st)
  BY <1>2 DEF InOrder
<1>4. PICK k \in 1..Len(st), l \in 1..Len(st) : k < l /\ st[k] = a[i] /\ st[l] = a[j]
  BY <1>3 DEF Ahead
<1>5. k \in 1..Len(su) /\ l \in 1..Len(su) /\ su[k] = a[i] /\ su[l] = a[j]
  BY <1>1, <1>4
<1> QED
  BY <1>4, <1>5 DEF Ahead

LEMMA AheadAt ==
    ASSUME NEW st, NEW f \in 1..Len(st), NEW l \in 1..Len(st), f < l
    PROVE  Ahead(st[f], st[l], st)
  BY DEF Ahead

\* The command at the end of the stream goes to the end of the log.
LEMMA OrderGrows ==
    ASSUME NEW st \in Seq(Commands), NEW c \in Commands, NEW a \in Seq(Commands), InOrder(a, st),
           \A i \in 1..Len(a) : a[i] # c,
           \A i \in 1..Len(st) : st[i] = c => i = Len(st)
    PROVE  InOrder(Keep(Append(a, c), AuditKeep), st)
<1> DEFINE b == Append(a, c)
           k == Keep(b, AuditKeep)
           m == Least(Len(b), AuditKeep)
<1>1. b \in Seq(Commands) /\ Len(a) \in Nat /\ Len(b) = Len(a) + 1 /\ b[Len(a) + 1] = c /\ \A i \in 1..Len(a) : b[i] = a[i]
  OBVIOUS
<1> HIDE DEF b
<1>2. Len(k) = m /\ \A i \in 1..m : k[i] = b[Len(b) - m + i]
  <2>1. b \in Seq(Commands) /\ AuditKeep \in Nat \ {0}
    BY <1>1, Bounds
  <2> QED
    BY <2>1, KeepIs, Zenon
<1>3. m \in Nat /\ m <= Len(b)
  BY <1>1, Bounds DEF Least
<1> HIDE DEF k, m
<1> SUFFICES ASSUME NEW i \in 1..m, NEW j \in 1..m, i < j, Told(k[i], st), Told(k[j], st)
             PROVE  Ahead(k[i], k[j], st)
  BY <1>2 DEF InOrder, k, b
<1> DEFINE x == Len(b) - m + i
           y == Len(b) - m + j
<1>4. x \in 1..Len(a) /\ y \in 1..Len(b) /\ x < y /\ k[i] = b[x] /\ k[j] = b[y]
  <2>1. k[i] = b[x] /\ k[j] = b[y]
    BY <1>2
  <2>2. x \in Int /\ y \in Int /\ 1 <= x /\ x < y /\ y <= Len(b)
    BY <1>1, <1>3
  <2> HIDE DEF x, y
  <2> QED
    BY <1>1, <2>1, <2>2
<1> HIDE DEF x, y
<1>5. k[i] = a[x] /\ a[x] # c
  BY <1>1, <1>4
<1>6. CASE y \in 1..Len(a)
  BY <1>1, <1>4, <1>6 DEF InOrder
<1>7. CASE y = Len(b)
  <2>1. k[j] = c
    BY <1>1, <1>4, <1>7
  <2>2. PICK f \in 1..Len(st) : st[f] = a[x]
    BY <1>5 DEF Told
  <2>3. PICK l \in 1..Len(st) : st[l] = c
    BY <2>1 DEF Told
  <2>4. l = Len(st) /\ Len(st) \in Nat
    BY <2>3
  <2>5. f < l
    BY <1>5, <2>2, <2>3, <2>4
  <2>6. st[f] = k[i] /\ st[l] = k[j]
    BY <1>5, <2>1, <2>2, <2>3
  <2>7. Ahead(st[f], st[l], st)
    BY <2>5, AheadAt
  <2> QED
    BY <2>6, <2>7
<1>8. y \in 1..Len(a) \/ y = Len(b)
  <2>1. y \in 1..Len(b) /\ Len(b) = Len(a) + 1 /\ Len(a) \in Nat
    BY <1>1, <1>4
  <2> QED
    BY <2>1
<1> QED
  BY <1>6, <1>7, <1>8

(***************************************************************************)
(* What the steps do to the commands.                                      *)
(***************************************************************************)
LEMMA EmptyIsRoom == EmptyRoom \in Rooms
<1>1. <<>> \in UpTo(Commands, AuditKeep) /\ <<>> \in UpTo(Commands, PinKeep)
  BY Bounds DEF UpTo
<1> QED
  BY <1>1 DEF EmptyRoom, Rooms, Maybe

Row(p, k, n, y, l) == [pc |-> p, kind |-> k, hits |-> n, copy |-> y, late |-> l]

LEMMA Fields ==
    ASSUME NEW p, NEW k, NEW n, NEW y, NEW l
    PROVE  /\ Row(p, k, n, y, l).pc = p /\ Row(p, k, n, y, l).kind = k /\ Row(p, k, n, y, l).hits = n
           /\ Row(p, k, n, y, l).copy = y /\ Row(p, k, n, y, l).late = l
           /\ p \in {"new", "ask", "load", "save", "done"} /\ k \in AllKinds /\ n \in 0..MaxHits
              /\ y \in Rooms /\ l \in BOOLEAN => Row(p, k, n, y, l) \in CommandStates
BY DEF Row, CommandStates, AllKinds

LEMMA CommandIs ==
    ASSUME TypeOK, NEW c \in Commands
    PROVE  /\ command[c] \in CommandStates
           /\ command[c] = Row(command[c].pc, command[c].kind, command[c].hits, command[c].copy,
                               command[c].late)
           /\ command[c].kind \in AllKinds /\ command[c].hits \in 0..MaxHits
           /\ command[c].copy \in Rooms /\ command[c].late \in BOOLEAN
BY DEF TypeOK, CommandStates, AllKinds, Row

LEMMA CommandsStay ==
    ASSUME TypeOK, NEW c \in Commands, NEW r \in CommandStates, command' = [command EXCEPT ![c] = r]
    PROVE  /\ command' \in [Commands -> CommandStates]
           /\ command'[c] = r
           /\ \A e \in Commands : e # c => command'[e] = command[e]
BY DEF TypeOK

LEMMA RecordIs ==
    ASSUME TypeOK, NEW c \in Commands, NEW k \in AllKinds, NEW n \in 0..MaxHits, NEW cmd,
           cmd = Row(command[c].pc, k, n, command[c].copy, command[c].late),
           Record(c, cmd)
    PROVE  \E r \in CommandStates :
               /\ r.pc = "load"
               /\ command' = [command EXCEPT ![c] = r]
<1> DEFINE r == [cmd EXCEPT !.pc = "load"]
<1>1. r = Row("load", k, n, command[c].copy, command[c].late)
  BY DEF Row
<1>2. r \in CommandStates /\ r.pc = "load"
  <2> HIDE DEF r
  <2> QED
    BY <1>1, CommandIs, Fields
<1>3. command' = [command EXCEPT ![c] = r]
  BY DEF Record
<1> QED
  BY <1>2, <1>3

\* Its handler returned, with or without a model call.
Begins(c) == Dispatch(c) \/ Answer(c)

LEMMA BeginsIs ==
    ASSUME TypeOK, NEW c \in Commands, Begins(c)
    PROVE  /\ LoopFree
           /\ command[c].pc \in {"new", "ask"}
           /\ \E r \in CommandStates : r.pc = "load" /\ command' = [command EXCEPT ![c] = r]
           /\ stream' = Append(stream, c) \/ stream' = stream
           /\ UNCHANGED <<room, debate, reset, recent>>
<1>1. command[c] = Row(command[c].pc, command[c].kind, command[c].hits, command[c].copy, command[c].late)
      /\ command[c].hits \in 0..MaxHits
  BY CommandIs
<1>2. CASE Dispatch(c)
  <2>1. PICK k \in (KindsOf[c] \ {"ask"}) \cup {"refused"} :
          \E n \in IF k = "pin" THEN 1..MaxHits ELSE {0} :
              Record(c, [command[c] EXCEPT !.kind = k, !.hits = n])
    BY <1>2 DEF Dispatch
  <2>2. PICK n \in IF k = "pin" THEN 1..MaxHits ELSE {0} :
            Record(c, [command[c] EXCEPT !.kind = k, !.hits = n])
    BY <2>1
  <2>3. k \in AllKinds
    BY KindsAssumption DEF AllKinds
  <2>4. n \in 0..MaxHits
    BY Bounds
  <2> DEFINE cmd == [command[c] EXCEPT !.kind = k, !.hits = n]
  <2>5. cmd = Row(command[c].pc, k, n, command[c].copy, command[c].late)
    <3>1. PICK p, q, m, y, l : command[c] = Row(p, q, m, y, l)
      BY <1>1
    <3>2. command[c].pc = p /\ command[c].copy = y /\ command[c].late = l
      BY <3>1, Fields
    <3> DEFINE a == [command[c] EXCEPT !.kind = k]
    <3>3. a = Row(p, k, m, y, l)
      BY <3>1 DEF Row
    <3>4. cmd = [a EXCEPT !.hits = n]
      OBVIOUS
    <3> HIDE DEF a
    <3>5. [a EXCEPT !.hits = n] = Row(p, k, n, y, l)
      BY <3>3 DEF Row
    <3> QED
      BY <3>2, <3>4, <3>5
  <2>6. Record(c, cmd)
    BY <2>2
  <2> HIDE DEF cmd
  <2>7. \E r \in CommandStates : r.pc = "load" /\ command' = [command EXCEPT ![c] = r]
    BY <2>3, <2>4, <2>5, <2>6, RecordIs
  <2>8. stream' = Append(stream, c) \/ stream' = stream
    BY <2>6 DEF Record
  <2> QED
    BY <1>2, <2>7, <2>8 DEF Dispatch
<1>3. CASE Answer(c)
  <2>1. PICK k \in {"ask", "refused"} : Record(c, [command[c] EXCEPT !.kind = k])
    BY <1>3 DEF Answer
  <2>2. k \in AllKinds
    BY DEF AllKinds, Kinds
  <2> DEFINE cmd == [command[c] EXCEPT !.kind = k]
  <2>3. cmd = Row(command[c].pc, k, command[c].hits, command[c].copy, command[c].late)
    <3>1. PICK p, q, m, y, l : command[c] = Row(p, q, m, y, l)
      BY <1>1
    <3>2. command[c].pc = p /\ command[c].hits = m /\ command[c].copy = y /\ command[c].late = l
      BY <3>1, Fields
    <3>3. cmd = Row(p, k, m, y, l)
      BY <3>1 DEF Row
    <3> QED
      BY <3>2, <3>3
  <2>4. Record(c, cmd)
    BY <2>1
  <2> HIDE DEF cmd
  <2>5. \E r \in CommandStates : r.pc = "load" /\ command' = [command EXCEPT ![c] = r]
    BY <1>1, <2>2, <2>3, <2>4, RecordIs
  <2>6. stream' = Append(stream, c) \/ stream' = stream
    BY <2>4 DEF Record
  <2> QED
    BY <1>3, <2>5, <2>6 DEF Answer
<1> QED
  BY <1>2, <1>3 DEF Begins

LEMMA AskIs ==
    ASSUME TypeOK, NEW c \in Commands, Ask(c)
    PROVE  /\ LoopFree
           /\ command[c].pc = "new"
           /\ \E r \in CommandStates : r.pc = "ask" /\ command' = [command EXCEPT ![c] = r]
           /\ UNCHANGED <<room, stream, debate, reset, recent>>
<1> DEFINE r == Row("ask", "ask", command[c].hits, command[c].copy, command[c].late)
           q == [[command[c] EXCEPT !.pc = "ask"] EXCEPT !.kind = "ask"]
<1>1. q = r
  <2>1. PICK p, k, n, y, l : command[c] = Row(p, k, n, y, l)
    BY CommandIs
  <2>2. command[c].kind = k /\ command[c].hits = n /\ command[c].copy = y /\ command[c].late = l
    BY <2>1, Fields
  <2> DEFINE a == [command[c] EXCEPT !.pc = "ask"]
  <2>3. a = Row("ask", k, n, y, l)
    BY <2>1 DEF Row
  <2> HIDE DEF a
  <2>4. [a EXCEPT !.kind = "ask"] = Row("ask", "ask", n, y, l)
    BY <2>3 DEF Row
  <2> QED
    BY <2>2, <2>4 DEF a
<1>2. r \in CommandStates
  BY CommandIs, Fields DEF Kinds, AllKinds
<1>3. command' = [command EXCEPT ![c].pc = "ask", ![c].kind = "ask"]
  BY DEF Ask
<1>4. command' = [command EXCEPT ![c] = q]
  BY <1>3 DEF TypeOK
<1> QED
  <2>1. command' = [command EXCEPT ![c] = r]
    BY <1>1, <1>4
  <2>2. r.pc = "ask"
    BY Fields
  <2> HIDE DEF r, q
  <2> QED
    BY <1>2, <2>1, <2>2 DEF Ask

LEMMA LoadIs ==
    ASSUME TypeOK, NEW c \in Commands, Load(c)
    PROVE  /\ command[c].pc = "load"
           /\ \E doc \in Reads :
                 command' = [command EXCEPT ![c] =
                     Row("save", command[c].kind, command[c].hits, Applied(doc, command[c], c), command[c].late)]
           /\ UNCHANGED <<room, stream, debate, reset, recent>>
<1>1. PICK doc \in Reads : command' = [command EXCEPT ![c].pc = "save", ![c].copy = Applied(doc, command[c], c)]
  BY DEF Load
<1> DEFINE new == Applied(doc, command[c], c)
           r == Row("save", command[c].kind, command[c].hits, new, command[c].late)
           q == [[command[c] EXCEPT !.pc = "save"] EXCEPT !.copy = new]
<1>2. command' = [command EXCEPT ![c].pc = "save", ![c].copy = new]
  BY <1>1
<1> HIDE DEF new
<1>3. q = r
  <2>1. PICK p, k, n, y, l : command[c] = Row(p, k, n, y, l)
    BY CommandIs
  <2>2. command[c].kind = k /\ command[c].hits = n /\ command[c].copy = y /\ command[c].late = l
    BY <2>1, Fields
  <2> DEFINE a == [command[c] EXCEPT !.pc = "save"]
  <2>3. a = Row("save", k, n, y, l)
    BY <2>1 DEF Row
  <2> HIDE DEF a
  <2>4. [a EXCEPT !.copy = new] = Row("save", k, n, new, l)
    BY <2>3 DEF Row
  <2> QED
    BY <2>2, <2>4 DEF a
<1>4. command' = [command EXCEPT ![c] = q]
  BY <1>2 DEF TypeOK
<1>5. command' = [command EXCEPT ![c] = r]
  BY <1>3, <1>4
<1> QED
  BY <1>5 DEF Load, new

LEMMA SaveIs ==
    ASSUME TypeOK, NEW c \in Commands, Save(c)
    PROVE  /\ command[c].pc = "save"
           /\ command' = [command EXCEPT ![c] =
                     Row("done", command[c].kind, command[c].hits, EmptyRoom, command[c].late)]
           /\ \/ room' = command[c].copy /\ recent' = Append(recent, c)
              \/ UNCHANGED <<room, recent>>
           /\ UNCHANGED <<stream, debate, reset>>
<1> DEFINE new == EmptyRoom
           r == Row("done", command[c].kind, command[c].hits, new, command[c].late)
           q == [[command[c] EXCEPT !.pc = "done"] EXCEPT !.copy = new]
<1>1. command' = [command EXCEPT ![c].pc = "done", ![c].copy = new]
  BY DEF Save
<1> HIDE DEF new
<1>2. q = r
  <2>1. PICK p, k, n, y, l : command[c] = Row(p, k, n, y, l)
    BY CommandIs
  <2>2. command[c].kind = k /\ command[c].hits = n /\ command[c].copy = y /\ command[c].late = l
    BY <2>1, Fields
  <2> DEFINE a == [command[c] EXCEPT !.pc = "done"]
  <2>3. a = Row("done", k, n, y, l)
    BY <2>1 DEF Row
  <2> HIDE DEF a
  <2>4. [a EXCEPT !.copy = new] = Row("done", k, n, new, l)
    BY <2>3 DEF Row
  <2> QED
    BY <2>2, <2>4 DEF a
<1>3. command' = [command EXCEPT ![c] = q]
  BY <1>1 DEF TypeOK
<1>4. command' = [command EXCEPT ![c] = r]
  BY <1>2, <1>3
<1> QED
  BY <1>4 DEF Save, new

LEMMA SubmitIs ==
    ASSUME TypeOK, NEW d \in Debates, Submit(d)
    PROVE  /\ command' \in [Commands -> CommandStates]
           /\ \A c \in Commands : /\ command'[c].pc = command[c].pc
                                  /\ command'[c].kind = command[c].kind
                                  /\ command'[c].hits = command[c].hits
                                  /\ command'[c].copy = command[c].copy
           /\ LoopFree
           /\ (room' = EmptyRoom /\ recent' = <<>>) \/ UNCHANGED <<room, recent>>
           /\ UNCHANGED <<stream, reset>>
<1>1. command' = [c \in Commands |-> [command[c] EXCEPT !.late = @ \/ command[c].pc = "ask"]]
  BY DEF Submit
<1>2. ASSUME NEW c \in Commands
      PROVE  command'[c] = Row(command[c].pc, command[c].kind, command[c].hits, command[c].copy, (command[c].late \/ command[c].pc = "ask"))
  <2> DEFINE l == (command[c].late \/ command[c].pc = "ask")
  <2>1. command'[c] = [command[c] EXCEPT !.late = l]
    BY <1>1
  <2> HIDE DEF l
  <2>2. command'[c] = Row(command[c].pc, command[c].kind, command[c].hits, command[c].copy, l)
    <3>1. PICK p, k, n, y, m : command[c] = Row(p, k, n, y, m)
      BY CommandIs
    <3>2. command[c].pc = p /\ command[c].kind = k /\ command[c].hits = n /\ command[c].copy = y
      BY <3>1, Fields
    <3>3. command'[c] = Row(p, k, n, y, l)
      BY <2>1, <3>1 DEF Row
    <3> QED
      BY <3>2, <3>3
  <2> QED
    BY <2>2 DEF l
<1>3. ASSUME NEW c \in Commands
      PROVE  /\ command'[c] \in CommandStates
             /\ command'[c].pc = command[c].pc /\ command'[c].kind = command[c].kind
             /\ command'[c].hits = command[c].hits /\ command'[c].copy = command[c].copy
  <2> DEFINE l == (command[c].late \/ command[c].pc = "ask")
  <2>1. l \in BOOLEAN
    OBVIOUS
  <2>2. command'[c] = Row(command[c].pc, command[c].kind, command[c].hits, command[c].copy, l)
    BY <1>2
  <2> HIDE DEF l
  <2>3. command'[c] \in CommandStates
    <3>1. command[c].pc \in {"new", "ask", "load", "save", "done"}
      BY CommandIs DEF CommandStates
    <3> QED
      BY <2>1, <2>2, <3>1, CommandIs, Fields
  <2> QED
    BY <2>2, <2>3, Fields
<1>4. \A c \in Commands : command'[c] \in CommandStates
  BY <1>3
<1>5. command' \in [Commands -> CommandStates]
  BY <1>1, <1>4
<1> QED
  <2>1. UNCHANGED <<stream, reset>> /\ LoopFree /\ ((room' = EmptyRoom /\ recent' = <<>>) \/ UNCHANGED <<room, recent>>)
    BY DEF Submit
  <2> QED
    BY <1>3, <1>5, <2>1

(***************************************************************************)
(* Types.                                                                  *)
(***************************************************************************)
LEMMA ReadsAreRooms ==
    ASSUME TypeOK, NEW doc \in Reads
    PROVE  doc \in Rooms
BY EmptyIsRoom DEF Reads, TypeOK

LEMMA EndIs == End = 7 /\ Failed = 8
BY DEF End, Failed, Nodes

DebateRow(a, w, n) == [at |-> a, waiting |-> w, waited |-> n]

LEMMA DebateIs ==
    ASSUME TypeOK, NEW d \in Debates
    PROVE  /\ debate[d] = DebateRow(debate[d].at, debate[d].waiting, debate[d].waited)
           /\ debate[d].at \in 0..8 /\ debate[d].waiting \in BOOLEAN
           /\ debate[d].waited \in 0..PausePolls
BY EndIs DEF TypeOK, DebateStates, DebateRow

LEMMA DebatesStay ==
    ASSUME TypeOK, NEW d \in Debates, NEW a \in 0..8, NEW w \in BOOLEAN, NEW n \in 0..PausePolls, NEW r,
           r = DebateRow(a, w, n), debate' = [debate EXCEPT ![d] = r]
    PROVE  debate' \in [Debates -> DebateStates]
<1>1. r \in DebateStates
  BY EndIs DEF DebateRow, DebateStates
<1> QED
  BY <1>1 DEF TypeOK

LEMMA MoveType ==
    ASSUME TypeOK, NEW d \in Debates, Move(d)
    PROVE  debate' \in [Debates -> DebateStates]
<1>1. PICK doc \in Reads :
        debate' = [debate EXCEPT ![d].at = @ + 1,
                                 ![d].waiting = Nodes[debate[d].at + 1] \in Boundaries /\ doc.paused]
  BY DEF Move
<1> DEFINE x == debate[d].at + 1
           w == (Nodes[debate[d].at + 1] \in Boundaries /\ doc.paused)
<1>2. debate' = [debate EXCEPT ![d] = [[debate[d] EXCEPT !.at = x] EXCEPT !.waiting = w]]
  <2> HIDE DEF w
  <2>1. debate' = [debate EXCEPT ![d].at = @ + 1, ![d].waiting = w]
    BY <1>1 DEF w
  <2> QED
    BY <2>1 DEF TypeOK
<1>3. w \in BOOLEAN
  OBVIOUS
<1>4. x \in 0..8
  BY DebateIs, EndIs DEF Move, Running
<1> HIDE DEF x, w
<1>5. PICK a, v, n : debate[d] = DebateRow(a, v, n)
  BY DebateIs
<1>6. n \in 0..PausePolls
  <2>1. debate[d].waited = n
    BY <1>5 DEF DebateRow
  <2> QED
    BY <2>1, DebateIs
<1>7. [debate[d] EXCEPT !.at = x] = DebateRow(x, v, n)
  BY <1>5 DEF DebateRow
<1> DEFINE b == [debate[d] EXCEPT !.at = x]
<1>8. [b EXCEPT !.waiting = w] = DebateRow(x, w, n)
  <2>1. b = DebateRow(x, v, n)
    BY <1>7
  <2> HIDE DEF b
  <2> QED
    BY <2>1 DEF DebateRow
<1> QED
  BY <1>2, <1>3, <1>4, <1>6, <1>8, DebatesStay

LEMMA PollType ==
    ASSUME TypeOK, NEW d \in Debates, Poll(d)
    PROVE  debate' \in [Debates -> DebateStates]
<1>1. PICK doc \in Reads :
        debate' = [debate EXCEPT ![d].waiting = doc.paused /\ debate[d].waited < PausePolls,
                                 ![d].waited = IF doc.paused /\ @ < PausePolls THEN @ + 1 ELSE 0]
  BY DEF Poll
<1> DEFINE w == (doc.paused /\ debate[d].waited < PausePolls)
           x == IF doc.paused /\ debate[d].waited < PausePolls THEN debate[d].waited + 1 ELSE 0
<1>2. debate' = [debate EXCEPT ![d] = [[debate[d] EXCEPT !.waiting = w] EXCEPT !.waited = x]]
  <2>1. PICK a, v, n : debate[d] = DebateRow(a, v, n)
    BY DebateIs
  <2>2. debate' = [debate EXCEPT ![d] = [debate[d] EXCEPT !.waiting = w, !.waited = x]]
    BY <1>1, <2>1 DEF TypeOK, DebateRow
  <2> HIDE DEF w, x
  <2> QED
    BY <2>2
<1>3. w \in BOOLEAN
  OBVIOUS
<1>4. x \in 0..PausePolls
  BY DebateIs, BoundsAssumption
<1> HIDE DEF x, w
<1>5. PICK a, v, n : debate[d] = DebateRow(a, v, n)
  BY DebateIs
<1>6. a \in 0..8
  <2>1. debate[d].at = a
    BY <1>5 DEF DebateRow
  <2> QED
    BY <2>1, DebateIs
<1> DEFINE b == [debate[d] EXCEPT !.waiting = w]
<1>7. b = DebateRow(a, w, n)
  BY <1>5 DEF DebateRow
<1>8. [b EXCEPT !.waited = x] = DebateRow(a, w, x)
  <2> HIDE DEF b
  <2> QED
    BY <1>7 DEF DebateRow
<1> QED
  BY <1>2, <1>3, <1>4, <1>6, <1>8, DebatesStay

\* The room and the commands.
Typed == room \in Rooms /\ stream \in Seq(Commands) /\ command \in [Commands -> CommandStates]
             /\ recent \in Seq(Commands)

LEMMA TypeIs ==
    ASSUME TypeOK, Next
    PROVE  TypeOK'
<1>1. Typed
  BY DEF TypeOK, Typed
<1> DEFINE R == reset \in [next : {"none", "streams", "keys"}, count : 0..MaxResets]
           D == debate \in [Debates -> DebateStates]
<1>2. R /\ D
  BY DEF TypeOK
<1>3. Typed' /\ D' /\ R' => TypeOK'
  BY DEF TypeOK, Typed
<1>4. ASSUME NEW c \in Commands, Begins(c)
      PROVE  TypeOK'
  <2>1. PICK r \in CommandStates : command' = [command EXCEPT ![c] = r]
    BY <1>4, BeginsIs
  <2>2. command' \in [Commands -> CommandStates]
    BY <2>1, CommandsStay
  <2>3. /\ stream' = Append(stream, c) \/ stream' = stream
        /\ UNCHANGED <<room, debate, reset, recent>>
    BY <1>4, BeginsIs
  <2>4. Typed'
    <3>1. stream' \in Seq(Commands)
      BY <1>1, <2>3 DEF Typed
    <3> QED
      BY <1>1, <2>2, <2>3, <3>1 DEF Typed
  <2>5. D' /\ R'
    BY <1>2, <2>3
  <2> QED
    BY <1>3, <2>4, <2>5
<1>5. ASSUME NEW c \in Commands, Ask(c)
      PROVE  TypeOK'
  <2>1. PICK r \in CommandStates : command' = [command EXCEPT ![c] = r]
    BY <1>5, AskIs
  <2>2. command' \in [Commands -> CommandStates]
    BY <2>1, CommandsStay
  <2>3. UNCHANGED <<room, stream, debate, reset, recent>>
    BY <1>5, AskIs
  <2>4. Typed' /\ D' /\ R'
    BY <1>1, <1>2, <2>2, <2>3 DEF Typed
  <2> QED
    BY <1>3, <2>4
<1>6. ASSUME NEW c \in Commands, Load(c)
      PROVE  TypeOK'
  <2>1. PICK doc \in Reads :
          command' = [command EXCEPT ![c] =
              Row("save", command[c].kind, command[c].hits, Applied(doc, command[c], c), command[c].late)]
    BY <1>6, LoadIs
  <2> DEFINE new == Applied(doc, command[c], c)
  <2>2. new \in Rooms
    <3>1. Typical(command)
      BY CommandIs DEF Typical
    <3>2. doc \in Rooms
      BY ReadsAreRooms
    <3> QED
      BY <3>1, <3>2, AppliedIsRoom
  <2> DEFINE r == Row("save", command[c].kind, command[c].hits, new, command[c].late)
  <2>3. command' = [command EXCEPT ![c] = r]
    BY <2>1
  <2> HIDE DEF new
  <2>4. r \in CommandStates
    BY <2>2, CommandIs, Fields
  <2> HIDE DEF r
  <2>5. command' \in [Commands -> CommandStates]
    BY <2>3, <2>4, CommandsStay
  <2>6. UNCHANGED <<room, stream, debate, reset, recent>>
    BY <1>6, LoadIs
  <2>7. Typed' /\ D' /\ R'
    BY <1>1, <1>2, <2>5, <2>6 DEF Typed
  <2> QED
    BY <1>3, <2>7
<1>7. ASSUME NEW c \in Commands, Save(c)
      PROVE  TypeOK'
  <2> DEFINE r == Row("done", command[c].kind, command[c].hits, EmptyRoom, command[c].late)
  <2>1. command' = [command EXCEPT ![c] = r]
    BY <1>7, SaveIs
  <2>2. r \in CommandStates
    BY EmptyIsRoom, CommandIs, Fields
  <2> HIDE DEF r
  <2>3. command' \in [Commands -> CommandStates]
    BY <2>1, <2>2, CommandsStay
  <2>4. /\ (room' = command[c].copy /\ recent' = Append(recent, c)) \/ UNCHANGED <<room, recent>>
        /\ UNCHANGED <<stream, debate, reset>>
    BY <1>7, SaveIs
  <2>5. command[c].copy \in Rooms
    BY CommandIs
  <2>6. Typed' /\ D' /\ R'
    <3>1. D' /\ R'
      BY <1>2, <2>4
    <3>2. room' \in Rooms /\ recent' \in Seq(Commands)
      BY <1>1, <2>4, <2>5 DEF Typed
    <3>3. stream' \in Seq(Commands)
      BY <1>1, <2>4 DEF Typed
    <3> QED
      BY <2>3, <3>1, <3>2, <3>3 DEF Typed
  <2> QED
    BY <1>3, <2>6
<1>8. ASSUME NEW d \in Debates, Submit(d)
      PROVE  TypeOK'
  <2>1. /\ command' \in [Commands -> CommandStates]
        /\ (room' = EmptyRoom /\ recent' = <<>>) \/ UNCHANGED <<room, recent>>
        /\ UNCHANGED <<stream, reset>>
    BY <1>8, SubmitIs
  <2>2. Typed'
    <3>1. room' \in Rooms /\ recent' \in Seq(Commands)
      <4>1. <<>> \in Seq(Commands)
        OBVIOUS
      <4> QED
        BY <1>1, <2>1, <4>1, EmptyIsRoom DEF Typed
    <3> QED
      BY <1>1, <2>1, <3>1 DEF Typed
  <2>3. D'
    <3>1. debate' = [debate EXCEPT ![d].at = 1]
      BY <1>8 DEF Submit
    <3>2. PICK a, v, n : debate[d] = DebateRow(a, v, n)
      BY DebateIs
    <3>3. debate[d].waiting = v /\ debate[d].waited = n
      BY <3>2 DEF DebateRow
    <3> DEFINE r == [debate[d] EXCEPT !.at = 1]
    <3>4. r = DebateRow(1, v, n)
      BY <3>2 DEF DebateRow
    <3>5. debate' = [debate EXCEPT ![d] = r]
      BY <3>1
    <3>6. v \in BOOLEAN /\ n \in 0..PausePolls
      <4>1. debate[d].waiting \in BOOLEAN /\ debate[d].waited \in 0..PausePolls
        BY DebateIs
      <4> QED
        BY <3>3, <4>1, Zenon
    <3>7. 1 \in 0..8
      OBVIOUS
    <3> HIDE DEF r
    <3> QED
      BY <3>4, <3>5, <3>6, <3>7, DebatesStay
  <2> QED
    BY <1>2, <1>3, <2>1, <2>2, <2>3
<1>9. ASSUME NEW d \in Debates, Move(d) \/ Poll(d)
      PROVE  TypeOK'
  <2>1. D'
    BY <1>9, MoveType, PollType
  <2>2. UNCHANGED <<room, stream, command, reset, recent>>
    BY <1>9 DEF Move, Poll
  <2>3. Typed' /\ R'
    BY <1>1, <1>2, <2>2 DEF Typed
  <2> QED
    BY <1>3, <2>1, <2>3
<1>10. ASSUME NEW d \in Debates, Abort(d)
       PROVE  TypeOK'
  <2>1. D'
    <3> DEFINE r == [NewDebate EXCEPT !.at = Failed]
    <3>1. PICK v \in BOOLEAN : NewDebate = DebateRow(0, v, 0)
      BY DEF NewDebate, DebateRow
    <3>2. r = DebateRow(8, v, 0)
      <4>1. r = DebateRow(Failed, v, 0)
        BY <3>1 DEF DebateRow
      <4> QED
        BY <4>1, EndIs
    <3>3. debate' = [debate EXCEPT ![d] = r]
      BY <1>10 DEF Abort
    <3>4. 8 \in 0..8 /\ 0 \in 0..PausePolls
      BY BoundsAssumption
    <3> HIDE DEF r
    <3> QED
      BY <3>2, <3>3, <3>4, DebatesStay
  <2>2. UNCHANGED <<room, stream, command, reset, recent>>
    BY <1>10 DEF Abort
  <2>3. Typed' /\ R'
    BY <1>1, <1>2, <2>2 DEF Typed
  <2> QED
    BY <1>3, <2>1, <2>3
<1>11. ASSUME DemoReset
       PROVE  TypeOK'
  <2>1. ASSUME NEW next, DeleteRoom(next)
        PROVE  Typed' /\ D' /\ reset' = next
    BY <1>1, <1>2, <2>1, EmptyIsRoom DEF DeleteRoom, Typed
  <2>2. CASE ResetKey
    <3>1. DeleteRoom([next |-> "streams", count |-> reset.count + 1]) /\ reset.count < MaxResets
      BY <2>2 DEF ResetKey
    <3>2. R'
      BY <1>2, <2>1, <3>1, BoundsAssumption
    <3> QED
      BY <1>3, <2>1, <3>1, <3>2
  <2>3. CASE ResetStreams
    <3>1. Typed' /\ D'
      BY <1>1, <1>2, <2>3 DEF ResetStreams, Typed
    <3>2. R'
      BY <1>2, <2>3 DEF ResetStreams
    <3> QED
      BY <1>3, <3>1, <3>2
  <2>4. CASE ResetPattern
    <3>1. DeleteRoom([reset EXCEPT !.next = "none"])
      BY <2>4 DEF ResetPattern
    <3>2. R'
      BY <1>2, <2>1, <3>1
    <3> QED
      BY <1>3, <2>1, <3>1, <3>2
  <2> QED
    BY <1>11, <2>2, <2>3, <2>4 DEF DemoReset
<1> QED
  BY <1>4, <1>5, <1>6, <1>7, <1>8, <1>9, <1>10, <1>11 DEF Next, Begins, Serve, Proceed

(***************************************************************************)
(* The inductive invariant.                                                *)
(***************************************************************************)
Busy(cmd) == cmd.pc \in {"load", "save"}

\* The log a has only commands that are done.
Settled(a, cmds) == \A i \in 1..Len(a) : cmds[a[i]].pc = "done"

\* _finalize is never interrupted by another command.
OneFinishes == \A c, e \in Commands : Busy(command[c]) /\ Busy(command[e]) => c = e

\* The stream has the commands that came to _finalize, the one in it last.
StreamIsOf ==
    \A i \in 1..Len(stream) :
        /\ Busy(command[stream[i]]) \/ command[stream[i]].pc = "done"
        /\ Busy(command[stream[i]]) => i = Len(stream)

RoomIsOf ==
    /\ Settled(room.audit, command) /\ Settled(recent, command)
    /\ Shows(room, command, recent)
    /\ InOrder(room.audit, stream)

\* What the command c is about to SET shows what was saved before, and c.
Pending(doc, c, st, cmds, rec) ==
    /\ Shows(doc, cmds, Append(rec, c))
    /\ InOrder(doc.audit, st)
    /\ \A i \in 1..Len(doc.audit) : doc.audit[i] = c \/ cmds[doc.audit[i]].pc = "done"

CopiesAreOf ==
    \A c \in Commands :
        command[c].pc = "save" => Pending(command[c].copy, c, stream, command, recent)

RoomInv == TypeOK /\ OneFinishes /\ StreamIsOf /\ RoomIsOf /\ CopiesAreOf

\* The commands the room was made of do not change.
LEMMA ShowsGoesOn ==
    ASSUME NEW doc, NEW cmds, NEW kmds, NEW rec \in Seq(Commands), Shows(doc, cmds, rec),
           \A c \in Commands : kmds[c].kind = cmds[c].kind /\ kmds[c].hits = cmds[c].hits
    PROVE  Shows(doc, kmds, rec)
<1>1. \A i \in 1..Len(rec) : rec[i] \in Commands
  OBVIOUS
<1> QED
  BY <1>1, ShowsStays

LEMMA TypicalIs ==
    ASSUME TypeOK
    PROVE  Typical(command)
BY CommandIs DEF Typical

LEMMA LogIs ==
    ASSUME NEW doc \in Rooms
    PROVE  doc.audit \in Seq(Commands) /\ \A i \in 1..Len(doc.audit) : doc.audit[i] \in Commands
<1>1. doc.audit \in Seq(Commands)
  BY DEF Rooms, UpTo
<1> QED
  BY <1>1

\* No command is in _finalize: there is no copy of the room.
LEMMA FreeIs ==
    ASSUME LoopFree
    PROVE  \A c \in Commands : ~Busy(command[c])
BY DEF LoopFree, Busy

LEMMA BeginsStep ==
    ASSUME RoomInv, NEW c \in Commands, Begins(c), TypeOK'
    PROVE  RoomInv'
<1>1. TypeOK /\ OneFinishes /\ StreamIsOf /\ RoomIsOf /\ CopiesAreOf
  BY DEF RoomInv
<1>2. PICK r \in CommandStates : r.pc = "load" /\ command' = [command EXCEPT ![c] = r]
  BY <1>1, BeginsIs
<1>3. command'[c] = r /\ \A e \in Commands : e # c => command'[e] = command[e]
  BY <1>1, <1>2, CommandsStay
<1>4. /\ command[c].pc \in {"new", "ask"} /\ \A e \in Commands : ~Busy(command[e])
      /\ stream' = Append(stream, c) \/ stream' = stream
      /\ room' = room /\ recent' = recent
  <2>1. LoopFree /\ command[c].pc \in {"new", "ask"} /\ UNCHANGED <<room, debate, reset, recent>>
        /\ (stream' = Append(stream, c) \/ stream' = stream)
    BY <1>1, BeginsIs
  <2> QED
    BY <2>1, FreeIs
<1>5. room \in Rooms /\ recent \in Seq(Commands) /\ stream \in Seq(Commands)
  BY <1>1 DEF TypeOK
<1>6. OneFinishes'
  BY <1>3, <1>4 DEF OneFinishes
<1>7. StreamIsOf'
  <2>1. ASSUME NEW i \in 1..Len(stream)
        PROVE  command'[stream[i]].pc = "done"
    <3>1. stream[i] \in Commands
      BY <1>5
    <3>2. command[stream[i]].pc = "done"
      BY <1>1, <1>4, <3>1 DEF StreamIsOf
    <3>3. stream[i] # c
      BY <1>4, <3>2
    <3> QED
      BY <1>3, <3>1, <3>2, <3>3
  <2>2. ~Busy([pc |-> "done"]) /\ \A e : command'[e].pc = "done" => ~Busy(command'[e])
    BY DEF Busy
  <2>3. CASE stream' = stream
    BY <2>1, <2>2, <2>3 DEF StreamIsOf
  <2>4. CASE stream' = Append(stream, c)
    <3>1. Len(stream') = Len(stream) + 1 /\ stream'[Len(stream')] = c /\ Len(stream) \in Nat
          /\ \A i \in 1..Len(stream) : stream'[i] = stream[i]
      BY <1>5, <2>4
    <3>2. Busy(command'[c])
      BY <1>2, <1>3 DEF Busy
    <3>3. ASSUME NEW i \in 1..Len(stream')
          PROVE  /\ Busy(command'[stream'[i]]) \/ command'[stream'[i]].pc = "done"
                 /\ Busy(command'[stream'[i]]) => i = Len(stream')
      <4>1. CASE i \in 1..Len(stream)
        BY <2>1, <2>2, <3>1, <4>1
      <4>2. CASE i = Len(stream')
        BY <3>1, <3>2, <4>2
      <4> QED
        BY <3>1, <4>1, <4>2
    <3> QED
      BY <3>3 DEF StreamIsOf
  <2> QED
    BY <1>4, <2>3, <2>4
<1>8. ASSUME NEW a \in Seq(Commands), Settled(a, command)
      PROVE  Settled(a, command') /\ \A i \in 1..Len(a) : a[i] # c
  <2>1. \A i \in 1..Len(a) : a[i] \in Commands /\ a[i] # c
    BY <1>4, <1>8 DEF Settled
  <2> QED
    BY <1>3, <1>8, <2>1 DEF Settled
<1>9. RoomIsOf'
  <2>1. Settled(room.audit, command') /\ \A i \in 1..Len(room.audit) : room.audit[i] # c
    BY <1>1, <1>5, <1>8, LogIs DEF RoomIsOf
  <2>2. Settled(recent, command') /\ \A i \in 1..Len(recent) : recent[i] # c /\ recent[i] \in Commands
    BY <1>1, <1>5, <1>8 DEF RoomIsOf
  <2>3. Shows(room, command', recent)
    <3>1. \A i \in 1..Len(recent) : command'[recent[i]] = command[recent[i]]
      BY <1>3, <2>2
    <3> QED
      BY <1>1, <1>5, <3>1, ShowsStays DEF RoomIsOf
  <2>4. InOrder(room.audit, stream')
    <3>1. InOrder(room.audit, stream)
      BY <1>1 DEF RoomIsOf
    <3>2. InOrder(room.audit, Append(stream, c))
      BY <1>5, <2>1, <3>1, OrderStays
    <3> QED
      BY <1>4, <3>1, <3>2
  <2> QED
    BY <1>4, <2>1, <2>2, <2>3, <2>4 DEF RoomIsOf
<1>10. CopiesAreOf'
  <2>1. \A e \in Commands : command'[e].pc # "save"
    BY <1>2, <1>3, <1>4 DEF Busy
  <2> QED
    BY <2>1 DEF CopiesAreOf
<1> QED
  BY <1>6, <1>7, <1>9, <1>10 DEF RoomInv

LEMMA AskStep ==
    ASSUME RoomInv, NEW c \in Commands, Ask(c), TypeOK'
    PROVE  RoomInv'
<1>1. TypeOK /\ OneFinishes /\ StreamIsOf /\ RoomIsOf /\ CopiesAreOf
  BY DEF RoomInv
<1>2. PICK r \in CommandStates : r.pc = "ask" /\ command' = [command EXCEPT ![c] = r]
  BY <1>1, AskIs
<1>3. command'[c] = r /\ \A e \in Commands : e # c => command'[e] = command[e]
  BY <1>1, <1>2, CommandsStay
<1>4. /\ command[c].pc = "new" /\ \A e \in Commands : ~Busy(command[e])
      /\ stream' = stream /\ room' = room /\ recent' = recent
  <2>1. LoopFree /\ command[c].pc = "new" /\ UNCHANGED <<room, stream, debate, reset, recent>>
    BY <1>1, AskIs
  <2> QED
    BY <2>1, FreeIs
<1>5. room \in Rooms /\ recent \in Seq(Commands) /\ stream \in Seq(Commands)
  BY <1>1 DEF TypeOK
<1>6. \A e \in Commands : ~Busy(command'[e])
  BY <1>2, <1>3, <1>4 DEF Busy
<1>7. ASSUME NEW a \in Seq(Commands), Settled(a, command)
      PROVE  Settled(a, command') /\ \A i \in 1..Len(a) : a[i] \in Commands /\ a[i] # c
  <2>1. \A i \in 1..Len(a) : a[i] \in Commands /\ a[i] # c
    BY <1>4, <1>7 DEF Settled
  <2> QED
    BY <1>3, <1>7, <2>1 DEF Settled
<1>8. StreamIsOf'
  <2>1. Settled(stream, command)
    BY <1>1, <1>4, <1>5 DEF StreamIsOf, Settled
  <2>2. Settled(stream, command') /\ \A i \in 1..Len(stream) : stream[i] \in Commands
    BY <1>5, <1>7, <2>1
  <2> QED
    BY <1>4, <1>6, <2>2 DEF StreamIsOf, Settled
<1>9. RoomIsOf'
  <2>1. Settled(room.audit, command')
    BY <1>1, <1>5, <1>7, LogIs DEF RoomIsOf
  <2>2. Settled(recent, command') /\ \A i \in 1..Len(recent) : recent[i] # c /\ recent[i] \in Commands
    BY <1>1, <1>5, <1>7 DEF RoomIsOf
  <2>3. Shows(room, command', recent)
    <3>1. \A i \in 1..Len(recent) : command'[recent[i]] = command[recent[i]]
      BY <1>3, <2>2
    <3> QED
      BY <1>1, <1>5, <3>1, ShowsStays DEF RoomIsOf
  <2> QED
    BY <1>1, <1>4, <2>1, <2>2, <2>3 DEF RoomIsOf
<1>10. OneFinishes' /\ CopiesAreOf'
  BY <1>6 DEF OneFinishes, CopiesAreOf, Busy
<1> QED
  BY <1>8, <1>9, <1>10 DEF RoomInv

\* _finalize read the room as it is.
LEMMA LoadStep ==
    ASSUME RoomInv, NEW c \in Commands, Load(c), TypeOK', "get" \notin Failures
    PROVE  RoomInv'
<1>1. TypeOK /\ OneFinishes /\ StreamIsOf /\ RoomIsOf /\ CopiesAreOf
  BY DEF RoomInv
<1> DEFINE new == Applied(room, command[c], c)
           r == Row("save", command[c].kind, command[c].hits, new, command[c].late)
<1>2. command[c].pc = "load" /\ stream' = stream /\ room' = room /\ recent' = recent
  BY <1>1, LoadIs
<1>3. command' = [command EXCEPT ![c] = r]
  <2>1. Reads = {room}
    BY DEF Reads
  <2> QED
    BY <1>1, <2>1, LoadIs
<1>4. room \in Rooms /\ recent \in Seq(Commands) /\ stream \in Seq(Commands)
  BY <1>1 DEF TypeOK
<1>5. new \in Rooms /\ Shows(new, command, Append(recent, c))
  BY <1>1, <1>4, TypicalIs, AppliedShows DEF RoomIsOf
<1>6. new.audit = Keep(Append(room.audit, c), AuditKeep)
  <2>1. command[c].kind \in AllKinds
    BY <1>1, CommandIs
  <2> DEFINE cmd == command[c]
  <2>2. new = Applied(room, cmd, c) /\ cmd.kind \in AllKinds
    BY <2>1
  <2> HIDE DEF new, cmd
  <2> QED
    BY <1>4, <2>2, AppliedIs
<1> HIDE DEF new
<1>7. /\ r \in CommandStates /\ r.pc = "save" /\ r.copy = new
      /\ r.kind = command[c].kind /\ r.hits = command[c].hits
  BY <1>1, <1>5, CommandIs, Fields
<1> HIDE DEF r
<1>8. command'[c] = r /\ \A e \in Commands : e # c => command'[e] = command[e]
  BY <1>1, <1>3, <1>7, CommandsStay
<1>9. Busy(command[c]) /\ Busy(command'[c])
  BY <1>2, <1>7, <1>8 DEF Busy
<1>10. \A e \in Commands : e # c => ~Busy(command'[e]) /\ ~Busy(command[e])
  BY <1>1, <1>8, <1>9 DEF OneFinishes
<1>11. \A e \in Commands : command'[e].kind = command[e].kind /\ command'[e].hits = command[e].hits
  BY <1>7, <1>8
<1>12. OneFinishes'
  BY <1>10 DEF OneFinishes
<1>13. StreamIsOf'
  <2>1. \A i \in 1..Len(stream) : stream[i] \in Commands
    BY <1>4
  <2> QED
    BY <1>1, <1>2, <1>8, <1>9, <2>1 DEF StreamIsOf
<1>14. ASSUME NEW a \in Seq(Commands), Settled(a, command)
       PROVE  Settled(a, command') /\ \A i \in 1..Len(a) : a[i] # c
  <2>1. \A i \in 1..Len(a) : a[i] \in Commands /\ a[i] # c
    BY <1>2, <1>14 DEF Settled
  <2> QED
    BY <1>8, <1>14, <2>1 DEF Settled
<1>15. room.audit \in Seq(Commands) /\ Settled(room.audit, command)
  BY <1>1, <1>4, LogIs DEF RoomIsOf
<1>16. RoomIsOf'
  <2>1. Settled(room.audit, command') /\ Settled(recent, command')
    BY <1>1, <1>4, <1>14, <1>15 DEF RoomIsOf
  <2>2. Shows(room, command', recent)
    BY <1>1, <1>4, <1>11, ShowsGoesOn DEF RoomIsOf
  <2> QED
    BY <1>1, <1>2, <2>1, <2>2 DEF RoomIsOf
<1>17. Pending(new, c, stream, command', recent)
  <2>1. Shows(new, command', Append(recent, c))
    <3>1. Append(recent, c) \in Seq(Commands)
      BY <1>4
    <3> QED
      BY <1>5, <1>11, <3>1, ShowsGoesOn
  <2>2. InOrder(new.audit, stream)
    <3>1. \A i \in 1..Len(room.audit) : room.audit[i] # c
      BY <1>14, <1>15
    <3>2. \A i \in 1..Len(stream) : stream[i] = c => i = Len(stream)
      BY <1>1, <1>9 DEF StreamIsOf
    <3>3. InOrder(room.audit, stream)
      BY <1>1 DEF RoomIsOf
    <3> QED
      BY <1>4, <1>6, <1>15, <3>1, <3>2, <3>3, OrderGrows
  <2>3. ASSUME NEW i \in 1..Len(new.audit)
        PROVE  new.audit[i] = c \/ command'[new.audit[i]].pc = "done"
    <3> DEFINE b == Append(room.audit, c)
               m == Least(Len(b), AuditKeep)
    <3>1. b \in Seq(Commands) /\ Len(b) = Len(room.audit) + 1 /\ Len(room.audit) \in Nat /\ b[Len(b)] = c
          /\ \A j \in 1..Len(room.audit) : b[j] = room.audit[j]
      BY <1>15
    <3>2. Len(new.audit) = m /\ \A j \in 1..m : new.audit[j] = b[Len(b) - m + j]
      <4>1. new.audit = Keep(b, AuditKeep)
        BY <1>6
      <4> HIDE DEF b
      <4>2. Len(Keep(b, AuditKeep)) = m /\ \A j \in 1..m : Keep(b, AuditKeep)[j] = b[Len(b) - m + j]
        BY <3>1, Bounds, KeepIs
      <4> QED
        BY <4>1, <4>2
    <3> HIDE DEF b
    <3>3. m \in Nat /\ m <= Len(b)
      BY <3>1, Bounds DEF Least
    <3> HIDE DEF m
    <3> DEFINE x == Len(b) - m + i
    <3>4. x \in 1..Len(b) /\ new.audit[i] = b[x]
      BY <3>1, <3>2, <3>3
    <3> HIDE DEF x
    <3>5. CASE x = Len(b)
      BY <3>1, <3>4, <3>5
    <3>6. CASE x # Len(b)
      <4>1. x \in 1..Len(room.audit)
        BY <3>1, <3>4, <3>6
      <4>2. Settled(room.audit, command')
        BY <1>14, <1>15
      <4> QED
        BY <3>1, <3>4, <4>1, <4>2 DEF Settled
    <3> QED
      BY <3>5, <3>6
  <2> QED
    BY <2>1, <2>2, <2>3 DEF Pending
<1>18. CopiesAreOf'
  <2>1. \A e \in Commands : command'[e].pc = "save" => e = c
    BY <1>10 DEF Busy
  <2> QED
    BY <1>2, <1>7, <1>8, <1>17, <2>1 DEF CopiesAreOf
<1> QED
  BY <1>12, <1>13, <1>16, <1>18 DEF RoomInv

\* _finalize wrote its copy, or the SET failed.
LEMMA SaveStep ==
    ASSUME RoomInv, NEW c \in Commands, Save(c), TypeOK'
    PROVE  RoomInv'
<1>1. TypeOK /\ OneFinishes /\ StreamIsOf /\ RoomIsOf /\ CopiesAreOf
  BY DEF RoomInv
<1> DEFINE r == Row("done", command[c].kind, command[c].hits, EmptyRoom, command[c].late)
           copy == command[c].copy
<1>2. /\ command[c].pc = "save" /\ command' = [command EXCEPT ![c] = r] /\ stream' = stream
      /\ \/ room' = copy /\ recent' = Append(recent, c)
         \/ room' = room /\ recent' = recent
  BY <1>1, SaveIs
<1>3. /\ r \in CommandStates /\ r.pc = "done"
      /\ r.kind = command[c].kind /\ r.hits = command[c].hits
  BY <1>1, EmptyIsRoom, CommandIs, Fields
<1> HIDE DEF r
<1>4. command'[c] = r /\ \A e \in Commands : e # c => command'[e] = command[e]
  BY <1>1, <1>2, <1>3, CommandsStay
<1>5. Busy(command[c]) /\ ~Busy(command'[c])
  BY <1>2, <1>3, <1>4 DEF Busy
<1>6. \A e \in Commands : ~Busy(command'[e]) /\ (Busy(command[e]) => e = c)
  BY <1>1, <1>4, <1>5 DEF OneFinishes
<1>7. \A e \in Commands : command'[e].kind = command[e].kind /\ command'[e].hits = command[e].hits
  BY <1>3, <1>4
<1>8. room \in Rooms /\ recent \in Seq(Commands) /\ stream \in Seq(Commands) /\ copy \in Rooms
  BY <1>1, CommandIs DEF TypeOK
<1>9. Pending(copy, c, stream, command, recent)
  BY <1>1, <1>2 DEF CopiesAreOf
<1> HIDE DEF copy
<1>10. \A e \in Commands : Busy(command[e]) \/ command[e].pc = "done" => command'[e].pc = "done"
  BY <1>3, <1>4, <1>6
<1>11. StreamIsOf'
  <2>1. ASSUME NEW i \in 1..Len(stream)
        PROVE  command'[stream[i]].pc = "done" /\ ~Busy(command'[stream[i]])
    <3>1. stream[i] \in Commands
      BY <1>8
    <3>2. Busy(command[stream[i]]) \/ command[stream[i]].pc = "done"
      BY <1>1 DEF StreamIsOf
    <3> QED
      BY <1>6, <1>10, <3>1, <3>2
  <2> QED
    BY <1>2, <2>1 DEF StreamIsOf
<1>12. ASSUME NEW a \in Seq(Commands), \A i \in 1..Len(a) : a[i] = c \/ command[a[i]].pc = "done"
       PROVE  Settled(a, command')
  <2>1. \A i \in 1..Len(a) : a[i] \in Commands
    BY <1>12
  <2>2. command'[c].pc = "done"
    BY <1>3, <1>4
  <2> QED
    BY <1>10, <1>12, <2>1, <2>2 DEF Settled
<1>13. RoomIsOf'
  <2>1. CASE room' = copy /\ recent' = Append(recent, c)
    <3>1. Settled(copy.audit, command')
      BY <1>8, <1>9, <1>12, LogIs DEF Pending
    <3>2. Append(recent, c) \in Seq(Commands) /\ Len(Append(recent, c)) = Len(recent) + 1
          /\ Append(recent, c)[Len(recent) + 1] = c /\ Len(recent) \in Nat
          /\ \A i \in 1..Len(recent) : Append(recent, c)[i] = recent[i]
      BY <1>8
    <3> DEFINE e == Append(recent, c)
    <3>3. Settled(e, command')
      <4>1. Settled(recent, command)
        BY <1>1 DEF RoomIsOf
      <4> HIDE DEF e
      <4>2. \A i \in 1..Len(e) : e[i] = c \/ command[e[i]].pc = "done"
        <5> TAKE i \in 1..Len(e)
        <5>1. CASE i \in 1..Len(recent)
          BY <3>2, <4>1, <5>1 DEF Settled, e
        <5>2. CASE i = Len(recent) + 1
          BY <3>2, <5>2 DEF e
        <5> QED
          BY <3>2, <5>1, <5>2 DEF e
      <4>3. e \in Seq(Commands)
        BY <3>2 DEF e
      <4> QED
        BY <1>12, <4>2, <4>3
    <3>4. Shows(copy, command', e)
      <4>1. Shows(copy, command, e)
        BY <1>9 DEF Pending
      <4> QED
        BY <1>7, <3>2, <4>1, ShowsGoesOn
    <3>5. InOrder(copy.audit, stream)
      BY <1>9 DEF Pending
    <3> QED
      BY <1>2, <2>1, <3>1, <3>3, <3>4, <3>5 DEF RoomIsOf
  <2>2. CASE room' = room /\ recent' = recent
    <3>1. Settled(room.audit, command') /\ Settled(recent, command')
      <4>1. room.audit \in Seq(Commands) /\ Settled(room.audit, command) /\ Settled(recent, command)
        BY <1>1, <1>8, LogIs DEF RoomIsOf
      <4> QED
        BY <1>8, <1>12, <4>1 DEF Settled
    <3>2. Shows(room, command', recent)
      BY <1>1, <1>7, <1>8, ShowsGoesOn DEF RoomIsOf
    <3> QED
      BY <1>1, <1>2, <2>2, <3>1, <3>2 DEF RoomIsOf
  <2> QED
    BY <1>2, <2>1, <2>2
<1>14. OneFinishes' /\ CopiesAreOf'
  BY <1>6 DEF OneFinishes, CopiesAreOf, Busy
<1> QED
  BY <1>11, <1>13, <1>14 DEF RoomInv

\* The empty room of a new run, or of a reset, shows the commands since.
LEMMA EmptyRoomIsOf ==
    ASSUME room' = EmptyRoom, recent' = <<>>
    PROVE  RoomIsOf'
<1>1. EmptyRoom.audit = <<>>
  BY DEF EmptyRoom
<1>2. Settled(<<>>, command') /\ InOrder(<<>>, stream')
  BY DEF Settled, InOrder
<1> QED
  BY <1>1, <1>2, EmptyShows DEF RoomIsOf

LEMMA SubmitStep ==
    ASSUME RoomInv, NEW d \in Debates, Submit(d), TypeOK'
    PROVE  RoomInv'
<1>1. TypeOK /\ OneFinishes /\ StreamIsOf /\ RoomIsOf /\ CopiesAreOf
  BY DEF RoomInv
<1>2. /\ \A c \in Commands : /\ command'[c].pc = command[c].pc
                             /\ command'[c].kind = command[c].kind
                             /\ command'[c].hits = command[c].hits
      /\ \A c \in Commands : ~Busy(command[c])
      /\ \/ room' = EmptyRoom /\ recent' = <<>>
         \/ room' = room /\ recent' = recent
      /\ stream' = stream
  BY <1>1, SubmitIs, FreeIs
<1>3. \A c \in Commands : ~Busy(command'[c])
  BY <1>2 DEF Busy
<1>4. room \in Rooms /\ recent \in Seq(Commands) /\ stream \in Seq(Commands)
  BY <1>1 DEF TypeOK
<1>5. ASSUME NEW a \in Seq(Commands), Settled(a, command)
      PROVE  Settled(a, command')
  <2>1. \A i \in 1..Len(a) : a[i] \in Commands
    BY <1>5
  <2> QED
    BY <1>2, <1>5, <2>1 DEF Settled
<1>6. StreamIsOf'
  <2>1. \A i \in 1..Len(stream) : stream[i] \in Commands
    BY <1>4
  <2> QED
    BY <1>1, <1>2, <1>3, <2>1 DEF StreamIsOf
<1>7. RoomIsOf'
  <2>1. CASE room' = EmptyRoom /\ recent' = <<>>
    BY <2>1, EmptyRoomIsOf
  <2>2. CASE room' = room /\ recent' = recent
    <3>1. Settled(room.audit, command') /\ Settled(recent, command')
      BY <1>1, <1>4, <1>5, LogIs DEF RoomIsOf
    <3>2. Shows(room, command', recent)
      BY <1>1, <1>2, <1>4, ShowsGoesOn DEF RoomIsOf
    <3> QED
      BY <1>1, <1>2, <2>2, <3>1, <3>2 DEF RoomIsOf
  <2> QED
    BY <1>2, <2>1, <2>2
<1>8. OneFinishes' /\ CopiesAreOf'
  BY <1>3 DEF OneFinishes, CopiesAreOf, Busy
<1> QED
  BY <1>6, <1>7, <1>8 DEF RoomInv

\* The reset deletes the room, also between a command's GET and its SET.
LEMMA DeleteStep ==
    ASSUME RoomInv, NEW next, DeleteRoom(next), TypeOK'
    PROVE  RoomInv'
<1>1. TypeOK /\ OneFinishes /\ StreamIsOf /\ RoomIsOf /\ CopiesAreOf
  BY DEF RoomInv
<1>2. room' = EmptyRoom /\ recent' = <<>> /\ stream' = stream /\ command' = command
  BY DEF DeleteRoom
<1>3. RoomIsOf'
  BY <1>2, EmptyRoomIsOf
<1>4. ASSUME NEW c \in Commands, command[c].pc = "save"
      PROVE  Pending(command[c].copy, c, stream, command, <<>>)
  <2> DEFINE copy == command[c].copy
  <2>1. Pending(copy, c, stream, command, recent)
    BY <1>1, <1>4 DEF CopiesAreOf
  <2>2. copy \in Rooms /\ recent \in Seq(Commands)
    BY <1>1, CommandIs DEF TypeOK
  <2> HIDE DEF copy
  <2>3. Shows(copy, command, <<c>>)
    BY <1>1, <2>1, <2>2, TypicalIs, ShowsForgets DEF Pending
  <2>4. Append(<<>>, c) = <<c>>
    OBVIOUS
  <2>5. Shows(copy, command, Append(<<>>, c))
    BY <2>3, <2>4
  <2> QED
    BY <2>1, <2>5 DEF Pending, copy
<1>5. CopiesAreOf'
  BY <1>2, <1>4 DEF CopiesAreOf
<1>6. OneFinishes' /\ StreamIsOf'
  BY <1>1, <1>2 DEF OneFinishes, StreamIsOf
<1> QED
  BY <1>3, <1>5, <1>6 DEF RoomInv

LEMMA ResetStreamsStep ==
    ASSUME RoomInv, ResetStreams, TypeOK'
    PROVE  RoomInv'
<1>1. TypeOK /\ OneFinishes /\ StreamIsOf /\ RoomIsOf /\ CopiesAreOf
  BY DEF RoomInv
<1>2. stream' = <<>> /\ room' = room /\ command' = command /\ recent' = recent
  BY DEF ResetStreams
<1>3. \A a : InOrder(a, <<>>)
  BY DEF InOrder, Told
<1>4. StreamIsOf'
  BY <1>2 DEF StreamIsOf
<1>5. RoomIsOf'
  BY <1>1, <1>2, <1>3 DEF RoomIsOf
<1>6. CopiesAreOf'
  BY <1>1, <1>2, <1>3 DEF CopiesAreOf, Pending
<1>7. OneFinishes'
  BY <1>1, <1>2 DEF OneFinishes
<1> QED
  BY <1>4, <1>5, <1>6, <1>7 DEF RoomInv

LEMMA RoomStays ==
    ASSUME RoomInv, UNCHANGED <<room, stream, command, recent>>, TypeOK'
    PROVE  RoomInv'
<1>1. room' = room /\ stream' = stream /\ command' = command /\ recent' = recent
  OBVIOUS
<1>2. OneFinishes' /\ StreamIsOf' /\ RoomIsOf' /\ CopiesAreOf'
  <2>1. OneFinishes /\ StreamIsOf /\ RoomIsOf /\ CopiesAreOf
    BY DEF RoomInv
  <2> QED
    BY <1>1, <2>1 DEF OneFinishes, StreamIsOf, RoomIsOf, CopiesAreOf
<1> QED
  BY <1>2 DEF RoomInv

LEMMA RoomIsKept ==
    ASSUME RoomInv, [Next]_vars, "get" \notin Failures
    PROVE  RoomInv'
<1>1. CASE UNCHANGED vars
  <2>1. UNCHANGED <<room, stream, command, recent>> /\ UNCHANGED <<debate, reset>>
    BY <1>1 DEF vars
  <2>2. TypeOK'
    BY <2>1 DEF RoomInv, TypeOK
  <2> QED
    BY <2>1, <2>2, RoomStays
<1>2. CASE Next
  <2>1. TypeOK'
    BY <1>2, TypeIs DEF RoomInv
  <2>2. ASSUME NEW c \in Commands, Dispatch(c) \/ Ask(c) \/ Serve(c)
        PROVE  RoomInv'
    <3>1. CASE Dispatch(c) \/ Answer(c)
      BY <2>1, <3>1, BeginsStep DEF Begins
    <3>2. CASE Ask(c)
      BY <2>1, <3>2, AskStep
    <3>3. CASE Load(c)
      BY <2>1, <3>3, LoadStep
    <3>4. CASE Save(c)
      BY <2>1, <3>4, SaveStep
    <3> QED
      BY <2>2, <3>1, <3>2, <3>3, <3>4 DEF Serve
  <2>3. ASSUME NEW d \in Debates, Submit(d) \/ Proceed(d) \/ Abort(d)
        PROVE  RoomInv'
    <3>1. CASE Submit(d)
      BY <2>1, <3>1, SubmitStep
    <3>2. CASE Proceed(d) \/ Abort(d)
      <4>1. UNCHANGED <<room, stream, command, recent>>
        BY <3>2 DEF Proceed, Move, Poll, Abort
      <4> QED
        BY <2>1, <4>1, RoomStays
    <3> QED
      BY <2>3, <3>1, <3>2
  <2>4. CASE DemoReset
    <3>1. CASE ResetKey
      BY <2>1, <3>1, DeleteStep DEF ResetKey
    <3>2. CASE ResetStreams
      BY <2>1, <3>2, ResetStreamsStep
    <3>3. CASE ResetPattern
      BY <2>1, <3>3, DeleteStep DEF ResetPattern
    <3> QED
      BY <2>4, <3>1, <3>2, <3>3 DEF DemoReset
  <2> QED
    BY <1>2, <2>2, <2>3, <2>4 DEF Next
<1> QED
  BY <1>1, <1>2

LEMMA RoomStarts ==
    ASSUME Init
    PROVE  RoomInv
<1>1. room = EmptyRoom /\ stream = <<>> /\ recent = <<>> /\ command = [c \in Commands |-> NewCommand]
  BY DEF Init
<1>2. NewCommand = Row("new", "unknown", 0, EmptyRoom, FALSE)
  BY DEF NewCommand, Row
<1>3. NewCommand \in CommandStates /\ NewCommand.pc = "new"
  <2>1. "unknown" \in AllKinds /\ 0 \in 0..MaxHits /\ FALSE \in BOOLEAN
        /\ "new" \in {"new", "ask", "load", "save", "done"}
    BY Bounds DEF AllKinds
  <2>2. Row("new", "unknown", 0, EmptyRoom, FALSE) \in CommandStates
    BY <2>1, EmptyIsRoom, Zenon DEF CommandStates, Row, AllKinds
  <2>3. NewCommand.pc = "new"
    BY DEF NewCommand
  <2> QED
    BY <1>2, <2>2, <2>3
<1>4. TypeOK
  <2>1. <<>> \in Seq(Commands)
    OBVIOUS
  <2>2. NewDebate \in DebateStates
    BY EndIs, BoundsAssumption DEF NewDebate, DebateStates
  <2>3. debate \in [Debates -> DebateStates]
    BY <2>2 DEF Init
  <2>4. reset \in [next : {"none", "streams", "keys"}, count : 0..MaxResets]
    BY BoundsAssumption DEF Init
  <2> QED
    BY <1>1, <1>3, <2>1, <2>3, <2>4, EmptyIsRoom DEF TypeOK
<1>5. \A c \in Commands : command[c].pc = "new"
  BY <1>1, <1>3
<1>6. OneFinishes /\ CopiesAreOf
  BY <1>5 DEF OneFinishes, CopiesAreOf, Busy
<1>7. StreamIsOf
  BY <1>1 DEF StreamIsOf
<1>8. RoomIsOf
  <2>1. EmptyRoom.audit = <<>>
    BY DEF EmptyRoom
  <2>2. Settled(<<>>, command) /\ InOrder(<<>>, stream)
    BY DEF Settled, InOrder
  <2> QED
    BY <1>1, <2>1, <2>2, EmptyShows DEF RoomIsOf
<1> QED
  BY <1>4, <1>6, <1>7, <1>8 DEF RoomInv

LEMMA InvRemembers ==
    ASSUME RoomInv
    PROVE  RoomRemembers
<1>1. TypeOK /\ Shows(room, command, recent) /\ InOrder(room.audit, stream)
  BY DEF RoomInv, RoomIsOf
<1>2. room \in Rooms /\ recent \in Seq(Commands)
  BY <1>1 DEF TypeOK
<1>3. AuditFollowsStream
  BY <1>1 DEF AuditFollowsStream, InOrder, Told, Ahead, Recorded, Before
<1>4. room.audit \in Seq(Commands) /\ room.pins \in Seq(Commands)
  BY <1>2 DEF Rooms, UpTo
<1>5. IsSuffix(Keep(recent, AuditKeep), room.audit)
  BY <1>1, <1>2, <1>4, Bounds, BackIs DEF Shows
<1>6. LatestPins = PinsAt(command, recent)
  BY DEF LatestPins, PinsAt
<1>7. IsSuffix(Keep(LatestPins, PinKeep), room.pins)
  <2>1. PinsAt(command, recent) \in Seq(Commands)
    BY <1>1, <1>2, TypicalIs, PinsType
  <2> QED
    BY <1>1, <1>4, <1>6, <2>1, Bounds, BackIs DEF Shows
<1>8. \A kinds, c : Latest(kinds, c) <=> LatestAt(command, recent, kinds, c)
  BY DEF Latest, LatestAt
<1> QED
  BY <1>1, <1>3, <1>5, <1>7, <1>8 DEF RoomRemembers, Shows, SlicesAt

\* Every state has its type: the room, its logs within their caps, the commands
\* and the debates of _honor_pause, whichever best-effort Redis command fails.
THEOREM TypeCorrect == Spec => []TypeOK
<1>1. Init => TypeOK
  BY RoomStarts DEF RoomInv
<1>2. TypeOK /\ [Next]_vars => TypeOK'
  <2>1. ASSUME TypeOK, UNCHANGED vars
        PROVE  TypeOK'
    BY <2>1 DEF vars, TypeOK
  <2> QED
    BY <2>1, TypeIs
<1> QED
  BY <1>1, <1>2, PTL DEF Spec

\* No saved command is lost to another one, whatever the number of commands,
\* debates and resets, although commands wait for models and the reset deletes the
\* room between a GET and a SET: as long as no GET fails, which would read as an
\* empty room and save it.
THEOREM RoomIsRemembered ==
    ASSUME "get" \notin Failures
    PROVE  Spec => []RoomRemembers
<1>1. Init => RoomInv
  BY RoomStarts
<1>2. RoomInv /\ [Next]_vars => RoomInv'
  BY RoomIsKept
<1>3. RoomInv => RoomRemembers
  BY InvRemembers
<1> QED
  BY <1>1, <1>2, <1>3, PTL DEF Spec
=============================================================================
