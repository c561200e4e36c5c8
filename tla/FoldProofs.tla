----------------------------- MODULE FoldProofs -----------------------------
(* What the proofs about the modules need of numbers, of folds and of        *)
(* sequences of sequences: SequencesExt defines these by recursive functions.*)
EXTENDS Integers, FiniteSets, Sequences, SequencesExt, TLAPS, FiniteSetTheorems,
        WellFoundedInduction

-----------------------------------------------------------------------------
(* Induction on numbers, said with sets, and folds as runs.                  *)

(* A set of numbers that is not empty has a least one.                       *)
LEMMA LeastNumber ==
    ASSUME NEW S \in SUBSET Nat, S # {}
    PROVE  \E n \in S : \A m \in S : n <= m
  <1>1. PICK n \in S : \A m \in S : <<m, n>> \notin OpToRel(<, Nat)
    BY NatLessThanWellFounded, WFMin
  <1>2. \A m \in S : ~(m < n)
    BY <1>1 DEF OpToRel
  <1> QED BY <1>2

(* Whole division and its remainder rebuild the number.                    *)
LEMMA DivideAndRest ==
    ASSUME NEW n \in Nat, NEW b \in Nat, b > 0
    PROVE  n \div b \in Nat /\ n % b \in Nat /\ n % b < b /\ (n \div b) * b + (n % b) = n
  OBVIOUS

(* One more of a base is the base times one more.                          *)
LEMMA OneMore ==
    ASSUME NEW k \in Int, NEW b \in Nat
    PROVE  (k - 1) * b + b = k * b
  OBVIOUS

(* What holds at the start of a run and is kept by its steps holds of it all.*)
LEMMA RunInduction ==
    ASSUME NEW n \in Nat, NEW K, 0 \in K, \A k \in 1..n : k - 1 \in K => k \in K
    PROVE  \A k \in 0..n : k \in K
  <1> DEFINE Bad == (0..n) \ K
  <1> SUFFICES ASSUME Bad # {} PROVE FALSE
    OBVIOUS
  <1>1. Bad \in SUBSET Nat
    OBVIOUS
  <1>2. PICK k \in Bad : \A m \in Bad : k <= m
    BY <1>1, LeastNumber
  <1>3. k \in 1..n /\ k - 1 \notin Bad
    BY <1>2
  <1> QED BY <1>2, <1>3

(* The recursive function that follows a run exists.                         *)
IsRun(f, P, F, base, n) ==
    /\ f \in [0..n -> P]
    /\ \A k \in 0..n : f[k] = IF k = 0 THEN base ELSE F[<<f[k - 1], k>>]

(* The n steps of a fold are the values of a function.                     *)
LEMMA RunExists ==
    ASSUME NEW P, NEW O, NEW n \in Nat, NEW base \in P, NEW F \in [P \X O -> P],
           \A k \in 1..n : k \in O
    PROVE  \E f : IsRun(f, P, F, base, n)
  <1> DEFINE Made(m, f) == \A k \in 0..m : f[k] = IF k = 0 THEN base ELSE F[<<f[k - 1], k>>]
             K == {m \in 0..n : \E f \in [0..m -> P] : Made(m, f)}
  <1>1. 0 \in K
    <2> DEFINE f == [k \in 0..0 |-> base]
    <2>1. f \in [0..0 -> P] /\ Made(0, f) /\ 0 \in 0..n
      OBVIOUS
    <2> HIDE DEF f, Made
    <2> QED BY <2>1
  <1>2. ASSUME NEW m \in 1..n, m - 1 \in K PROVE m \in K
    <2>1. PICK f \in [0..m - 1 -> P] : Made(m - 1, f)
      BY <1>2
    <2> DEFINE g == [k \in 0..m |-> IF k = m THEN F[<<f[m - 1], m>>] ELSE f[k]]
    <2>2. m \in Nat /\ m >= 1 /\ m \in 0..n /\ m - 1 \in 0..m - 1
      OBVIOUS
    <2>3. F[<<f[m - 1], m>>] \in P
      <3>1. f[m - 1] \in P
        BY <2>1, <2>2
      <3>2. <<f[m - 1], m>> \in P \X O
        BY <3>1
      <3> QED BY <3>2
    <2>4. \A k \in 0..m : k # m => k \in 0..m - 1
      BY <2>2
    <2>5. g \in [0..m -> P]
      BY <2>3, <2>4
    <2>6. ASSUME NEW k \in 0..m PROVE g[k] = IF k = 0 THEN base ELSE F[<<g[k - 1], k>>]
      <3>1. k # 0 => k - 1 \in 0..m /\ k - 1 # m /\ g[k - 1] = f[k - 1]
        BY <2>2
      <3>2. CASE k = m
        BY <2>2, <3>1, <3>2
      <3>3. CASE k # m
        <4>1. g[k] = f[k] /\ k \in 0..m - 1
          BY <2>4, <3>3
        <4> QED BY <2>1, <3>1, <4>1
      <3> QED BY <3>2, <3>3
    <2> HIDE DEF g
    <2>7. Made(m, g)
      BY <2>6
    <2> HIDE DEF Made
    <2> QED BY <2>2, <2>5, <2>7
  <1> HIDE DEF K
  <1>3. n \in K
    <2>1. \A k \in 0..n : k \in K
      BY <1>1, <1>2, RunInduction
    <2> QED BY <2>1
  <1> QED BY <1>3 DEF K, IsRun

(* The greatest of a set of numbers up to n.                                 *)
LEMMA MaxIsIn ==
    ASSUME NEW n \in Nat, NEW s \in SUBSET (1..n), s # {}
    PROVE  Max(s) \in s /\ \A y \in s : Max(s) >= y
  <1> DEFINE T == {n - x : x \in s}
  <1>1. T \in SUBSET Nat /\ T # {}
    <2>1. \A x \in s : n - x \in Nat
      OBVIOUS
    <2> QED BY <2>1
  <1>2. PICK t \in T : \A u \in T : t <= u
    BY <1>1, LeastNumber
  <1>3. PICK x \in s : t = n - x
    BY <1>2
  <1>4. \A y \in s : n - x <= n - y
    BY <1>2, <1>3
  <1>5. \A y \in s : x >= y
    BY <1>4
  <1> QED BY <1>5, Zenon DEF Max

(* The greatest of the numbers from 1 to k.                                  *)
LEMMA MaxOfInterval ==
    ASSUME NEW k \in Nat, k >= 1
    PROVE  Max(1..k) = k
  <1> DEFINE s == 1..k
  <1>1. s \in SUBSET (1..k) /\ s # {} /\ k \in s
    OBVIOUS
  <1>2. \A y \in s : y \in Nat /\ y <= k
    OBVIOUS
  <1> HIDE DEF s
  <1>3. Max(s) \in s /\ Max(s) >= k
    BY <1>1, MaxIsIn
  <1>4. Max(s) \in Nat /\ Max(s) <= k
    BY <1>2, <1>3
  <1> QED BY <1>3, <1>4 DEF s

(* The function that a fold is defined by exists.                            *)
IsFold(f, P, F, base, seq, n) ==
    /\ f \in [SUBSET (1..n) -> P]
    /\ \A s \in SUBSET (1..n) :
          f[s] = IF s = {} THEN base ELSE F[<<f[s \ {Max(s)}], seq[Max(s)]>>]

(* The recursive function that MapThenFoldSet() chooses exists, so that a    *)
(* FoldLeft() over n elements can be followed element by element.            *)
LEMMA FoldExists ==
    ASSUME NEW P, NEW O, NEW F \in [P \X O -> P], NEW base \in P,
           NEW n \in Nat, NEW seq \in [1..n -> O]
    PROVE  \E f : IsFold(f, P, F, base, seq, n)
  <1> DEFINE Made(k, f) == \A s \in SUBSET (1..k) :
                 f[s] = IF s = {} THEN base ELSE F[<<f[s \ {Max(s)}], seq[Max(s)]>>]
             K == {k \in 0..n : \E f \in [SUBSET (1..k) -> P] : Made(k, f)}
  <1>1. 0 \in K
    <2> DEFINE f == [s \in SUBSET (1..0) |-> base]
    <2>1. 1..0 = {}
      OBVIOUS
    <2>2. f \in [SUBSET (1..0) -> P] /\ Made(0, f)
      BY <2>1
    <2> HIDE DEF f, Made
    <2>3. 0 \in 0..n
      OBVIOUS
    <2> QED BY <2>2, <2>3
  <1>2. ASSUME NEW k \in 1..n, k - 1 \in K PROVE k \in K
    <2>1. PICK f \in [SUBSET (1..k - 1) -> P] : Made(k - 1, f)
      BY <1>2
    <2> DEFINE g == [s \in SUBSET (1..k) |->
                        IF k \in s THEN F[<<f[s \ {k}], seq[k]>>] ELSE f[s]]
    <2>2. \A s \in SUBSET (1..k) : /\ s \ {k} \in SUBSET (1..k - 1)
                                   /\ k \notin s => s \in SUBSET (1..k - 1)
      OBVIOUS
    <2>3. g \in [SUBSET (1..k) -> P]
      BY <2>2
    <2>4. ASSUME NEW s \in SUBSET (1..k)
          PROVE  g[s] = IF s = {} THEN base ELSE F[<<g[s \ {Max(s)}], seq[Max(s)]>>]
      <3>1. CASE k \in s
        <4>1. Max(s) = k
          <5>1. k \in Nat /\ s # {}
            BY <3>1
          <5>2. Max(s) \in s /\ \A y \in s : Max(s) >= y
            BY <5>1, MaxIsIn
          <5>3. Max(s) \in 1..k /\ Max(s) >= k
            BY <3>1, <5>2
          <5> QED BY <5>3
        <4>2. g[s \ {k}] = f[s \ {k}]
          BY <2>2
        <4> QED BY <3>1, <4>1, <4>2
      <3>2. CASE k \notin s
        <4>1. s \in SUBSET (1..k - 1) /\ g[s] = f[s]
          BY <2>2, <3>2
        <4>2. s \ {Max(s)} \in SUBSET (1..k) /\ k \notin s \ {Max(s)}
          BY <3>2
        <4>3. g[s \ {Max(s)}] = f[s \ {Max(s)}]
          BY <4>2
        <4> QED BY <2>1, <4>1, <4>3
      <3> QED BY <3>1, <3>2
    <2> HIDE DEF g
    <2>5. Made(k, g)
      BY <2>4
    <2>6. k \in 0..n
      OBVIOUS
    <2> HIDE DEF Made
    <2> QED BY <2>3, <2>5, <2>6
  <1> HIDE DEF K
  <1>3. \A k \in 0..n : k \in K
    BY <1>1, <1>2, RunInduction
  <1>4. n \in 0..n
    OBVIOUS
  <1> QED BY <1>3, <1>4 DEF K, IsFold

-----------------------------------------------------------------------------
(* Sequences of sequences, put together.                                     *)

(* A function like the one that FlattenSeq() is defined by.                  *)
IsFlatten(f, seqs) ==
    \A i \in 1..Len(seqs) : f[i] = IF i = 1 THEN seqs[i] ELSE f[i - 1] \o seqs[i]

(* There is one.                                                             *)
LEMMA FlattenExists ==
    ASSUME NEW S, NEW seqs \in Seq(Seq(S))
    PROVE  \E f \in [1..Len(seqs) -> Seq(S)] : IsFlatten(f, seqs)
  <1> DEFINE n == Len(seqs)
             Made(k, f) == \A i \in 1..k : f[i] = IF i = 1 THEN seqs[i] ELSE f[i - 1] \o seqs[i]
             K == {k \in 0..n : \E f \in [1..k -> Seq(S)] : Made(k, f)}
  <1>0. n \in Nat /\ \A i \in 1..n : seqs[i] \in Seq(S)
    OBVIOUS
  <1> HIDE DEF n
  <1>1. 0 \in K
    <2>1. 1..0 = {} /\ 0 \in 0..n
      BY <1>0
    <2>2. [i \in 1..0 |-> <<>>] \in [1..0 -> Seq(S)]
      BY <2>1
    <2> QED BY <2>1, <2>2
  <1>2. ASSUME NEW k \in 1..n, k - 1 \in K PROVE k \in K
    <2>1. PICK f \in [1..k - 1 -> Seq(S)] : Made(k - 1, f)
      BY <1>2
    <2> DEFINE g == [i \in 1..k |-> IF i < k THEN f[i]
                                    ELSE IF k = 1 THEN seqs[k] ELSE f[k - 1] \o seqs[k]]
    <2>2. k \in Nat /\ k >= 1 /\ k <= n /\ k \in 0..n /\ seqs[k] \in Seq(S)
      BY <1>0
    <2>3. k # 1 => f[k - 1] \in Seq(S) /\ f[k - 1] \o seqs[k] \in Seq(S)
      <3>1. k # 1 => k - 1 \in 1..k - 1
        BY <2>2
      <3> QED BY <2>1, <2>2, <3>1
    <2>4. g \in [1..k -> Seq(S)]
      BY <2>1, <2>2, <2>3
    <2>5. ASSUME NEW i \in 1..k PROVE g[i] = IF i = 1 THEN seqs[i] ELSE g[i - 1] \o seqs[i]
      <3>1. CASE i = k
        <4>1. i # 1 => g[i - 1] = f[i - 1]
          BY <2>2, <3>1
        <4> QED BY <2>2, <3>1, <4>1
      <3>2. CASE i # k
        <4>1. i \in 1..k - 1 /\ i < k /\ (i # 1 => i - 1 \in 1..k /\ i - 1 < k)
          BY <2>2, <3>2
        <4> QED BY <2>1, <4>1
      <3> QED BY <3>1, <3>2
    <2> HIDE DEF g
    <2>6. Made(k, g)
      BY <2>5
    <2> HIDE DEF Made
    <2> QED BY <2>2, <2>4, <2>6
  <1> HIDE DEF K
  <1>3. \A k \in 0..n : k \in K
    BY <1>0, <1>1, <1>2, RunInduction
  <1>4. n \in 0..n
    BY <1>0
  <1> QED BY <1>3, <1>4 DEF K, n, IsFlatten

(* There is no other.                                                        *)
LEMMA FlattenUnique ==
    ASSUME NEW seqs, NEW more, Len(seqs) \in Nat, Len(more) \in Nat, Len(seqs) <= Len(more),
           \A i \in 1..Len(seqs) : more[i] = seqs[i],
           NEW f, NEW g, IsFlatten(f, seqs), IsFlatten(g, more)
    PROVE  \A i \in 1..Len(seqs) : f[i] = g[i]
  <1> DEFINE n == Len(seqs)
             K == {k \in 0..n : k > 0 => f[k] = g[k]}
  <1>0. n \in Nat /\ Len(more) \in Nat /\ n <= Len(more)
    OBVIOUS
  <1>1. 0 \in K
    OBVIOUS
  <1>2. ASSUME NEW k \in 1..n, k - 1 \in K PROVE k \in K
    <2>1. k \in 1..Len(more) /\ k \in 0..n
      BY <1>0
    <2>2. f[k] = IF k = 1 THEN seqs[k] ELSE f[k - 1] \o seqs[k]
      BY DEF IsFlatten
    <2>3. g[k] = IF k = 1 THEN more[k] ELSE g[k - 1] \o more[k]
      BY <2>1 DEF IsFlatten
    <2>4. k # 1 => f[k - 1] = g[k - 1]
      BY <1>2
    <2> QED BY <2>1, <2>2, <2>3, <2>4
  <1> HIDE DEF K
  <1>3. \A k \in 0..n : k \in K
    BY <1>0, <1>1, <1>2, RunInduction
  <1>4. \A i \in 1..n : i \in 0..n /\ i > 0
    BY <1>0
  <1> QED BY <1>3, <1>4 DEF K

(* What FlattenSeq() chooses is such a function.                             *)
LEMMA FlattenChosen ==
    ASSUME NEW S, NEW seqs \in Seq(Seq(S)), Len(seqs) # 0
    PROVE  \E f \in [1..Len(seqs) -> Seq(S)] :
              IsFlatten(f, seqs) /\ FlattenSeq(seqs) = f[Len(seqs)]
  <1> DEFINE G == CHOOSE g : g = [i \in 1..Len(seqs) |->
                                    IF i = 1 THEN seqs[i] ELSE g[i - 1] \o seqs[i]]
  <1>1. PICK f \in [1..Len(seqs) -> Seq(S)] : IsFlatten(f, seqs)
    BY FlattenExists
  <1>2. f = [i \in 1..Len(seqs) |-> IF i = 1 THEN seqs[i] ELSE f[i - 1] \o seqs[i]]
    BY <1>1 DEF IsFlatten
  <1>3. G = [i \in 1..Len(seqs) |-> IF i = 1 THEN seqs[i] ELSE G[i - 1] \o seqs[i]]
    BY <1>2, Zenon
  <1>4. FlattenSeq(seqs) = G[Len(seqs)]
    BY DEF FlattenSeq
  <1> HIDE DEF G
  <1>5. IsFlatten(G, seqs)
    BY <1>3 DEF IsFlatten
  <1>6. \A i \in 1..Len(seqs) : G[i] = f[i]
    <2>1. Len(seqs) \in Nat /\ Len(seqs) <= Len(seqs) /\ \A i \in 1..Len(seqs) : seqs[i] = seqs[i]
      OBVIOUS
    <2> QED BY <1>1, <1>5, <2>1, FlattenUnique
  <1>7. G = f
    <2>1. G = [i \in 1..Len(seqs) |-> G[i]]
      BY <1>3, Zenon
    <2>2. f = [i \in 1..Len(seqs) |-> f[i]]
      BY <1>2, Zenon
    <2> QED BY <1>6, <2>1, <2>2
  <1> QED BY <1>1, <1>4, <1>7

(* Functions for a sequence and for one that is longer by x.                 *)
LEMMA FlattenStep ==
    ASSUME NEW n \in Nat, NEW x, NEW seqs, NEW more, Len(seqs) = n, Len(more) = n + 1,
           more[n + 1] = x, \A i \in 1..n : more[i] = seqs[i],
           NEW f, NEW g, n # 0 => IsFlatten(f, seqs), IsFlatten(g, more)
    PROVE  g[n + 1] = IF n = 0 THEN x ELSE f[n] \o x
  <1>1. n + 1 \in 1..Len(more) /\ n + 1 - 1 = n
    OBVIOUS
  <1>2. g[n + 1] = IF n = 0 THEN x ELSE g[n] \o x
    BY <1>1 DEF IsFlatten
  <1>3. n # 0 => f[n] = g[n]
    <2>1. Len(seqs) \in Nat /\ Len(more) \in Nat /\ Len(seqs) <= Len(more)
      OBVIOUS
    <2>2. n # 0 => \A i \in 1..n : f[i] = g[i]
      BY <2>1, FlattenUnique
    <2> QED BY <2>2
  <1> QED BY <1>2, <1>3

(* Nothing flattened is nothing, and one sequence more goes to the end.      *)
LEMMA FlattenAppend ==
    ASSUME NEW S, NEW seqs \in Seq(Seq(S)), NEW x \in Seq(S)
    PROVE  /\ FlattenSeq(<<>>) = <<>> /\ FlattenSeq(seqs) \in Seq(S)
           /\ FlattenSeq(Append(seqs, x)) = FlattenSeq(seqs) \o x
  <1> DEFINE more == Append(seqs, x)
             n == Len(seqs)
  <1>1. more \in Seq(Seq(S)) /\ n \in Nat /\ Len(more) # 0 /\ n + 1 \in 1..n + 1
    OBVIOUS
  <1>2. Len(more) = n + 1 /\ more[n + 1] = x /\ \A i \in 1..n : more[i] = seqs[i]
    OBVIOUS
  <1>3. FlattenSeq(<<>>) = <<>>
    BY DEF FlattenSeq
  <1>4. n = 0 => seqs = <<>> /\ seqs \in Seq(S) /\ <<>> \o x = x
    OBVIOUS
  <1>5. PICK f : n # 0 => f[n] \in Seq(S) /\ IsFlatten(f, seqs) /\ FlattenSeq(seqs) = f[n]
    <2>1. n # 0 => n \in 1..n
      BY <1>1
    <2> QED BY <2>1, FlattenChosen
  <1>6. PICK g : IsFlatten(g, more) /\ FlattenSeq(more) = g[n + 1]
    <2> HIDE DEF more
    <2> QED BY <1>1, <1>2, FlattenChosen
  <1> HIDE DEF more, n
  <1>7. g[n + 1] = IF n = 0 THEN x ELSE f[n] \o x
    <2>1. Len(seqs) = n
      BY DEF n
    <2>2. n # 0 => IsFlatten(f, seqs)
      BY <1>5
    <2>3. more \in Seq(Seq(S)) /\ Len(more) = n + 1 /\ IsFlatten(g, more)
      BY <1>1, <1>2, <1>6
    <2>4. n \in Nat /\ more[n + 1] = x /\ \A i \in 1..n : more[i] = seqs[i]
      BY <1>1, <1>2
    <2> QED BY <2>1, <2>2, <2>3, <2>4, FlattenStep
  <1>8. CASE n = 0
    BY <1>3, <1>4, <1>6, <1>7, <1>8, Zenon DEF more
  <1>9. CASE n # 0
    BY <1>3, <1>5, <1>6, <1>7, <1>9, Zenon DEF more
  <1> QED BY <1>8, <1>9, Zenon
=============================================================================
