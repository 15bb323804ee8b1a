--------------------------- MODULE SequenceLemmas ---------------------------
(* Induction and recursion over numbers and sequences in a form the        *)
(* provers can instantiate: a predicate is given as the set of what        *)
(* satisfies it, a step of a recursion as a function.  What concatenation  *)
(* and comprehension of sequences yield follows from them.                 *)
EXTENDS Filter, Integers, SequenceTheorems, WellFoundedInduction, TLAPS

(* Every set of natural numbers has a least element.                       *)
LEMMA LeastNatural ==
  ASSUME NEW S \in SUBSET Nat, S # {}
  PROVE  \E x \in S : \A y \in S : x <= y
<1>1. PICK x \in S : \A y \in S : ~ (<<y, x>> \in OpToRel(<, Nat))
  BY NatLessThanWellFounded, WFMin
<1>2. ASSUME NEW y \in S, ~ (x <= y)
      PROVE  FALSE
  <2>1. <<y, x>> \in Nat \X Nat /\ <<y, x>>[1] < <<y, x>>[2]
    BY <1>2
  <2> QED
    BY <2>1, <1>1 DEF OpToRel
<1> QED
  BY <1>2

(* Induction over the natural numbers, S being what satisfies a predicate. *)
LEMMA NaturalsBySteps ==
  ASSUME NEW S, 0 \in S, \A n \in Nat : n \in S => n + 1 \in S
  PROVE  Nat \subseteq S
<1> SUFFICES ASSUME Nat \ S # {} PROVE FALSE
  OBVIOUS
<1>1. PICK m \in Nat \ S : \A y \in Nat \ S : m <= y
  BY LeastNatural
<1>2. m # 0 /\ m - 1 \in Nat /\ (m - 1) + 1 = m
  BY <1>1
<1>3. m - 1 \in S
  BY <1>1, <1>2
<1> QED
  BY <1>1, <1>2, <1>3

(* Induction over sequences, one element being appended at a time.         *)
LEMMA SequencesBySteps ==
  ASSUME NEW T, NEW P, <<>> \in P,
         \A s \in Seq(T), x \in T : s \in P => Append(s, x) \in P
  PROVE  Seq(T) \subseteq P
<1> DEFINE S == {n \in Nat : \A s \in Seq(T) : Len(s) = n => s \in P}
<1>1. 0 \in S
  BY EmptySeq
<1>2. ASSUME NEW n \in Nat, n \in S
      PROVE  n + 1 \in S
  <2> SUFFICES ASSUME NEW s \in Seq(T), Len(s) = n + 1 PROVE s \in P
    OBVIOUS
  <2>1. PICK r \in Seq(T), x \in T : s = Append(r, x)
    BY EmptySeq, SequenceEmptyOrAppend
  <2>2. Len(r) = n
    BY <2>1, AppendProperties, LenProperties
  <2> QED
    BY <1>2, <2>1, <2>2
<1>3. Nat \subseteq S
  <2> HIDE DEF S
  <2> QED
    BY <1>1, <1>2, NaturalsBySteps
<1> QED
  BY <1>3, LenProperties

-----------------------------------------------------------------------------
(* A recursion over 0..n in which step[i] makes the value at i of the one  *)
(* before it.                                                              *)
StepFunctions(n, V) == [1..n -> [V -> V]]

FollowsSteps(f, n, base, step) ==
  f[0] = base /\ \A i \in 1..n : f[i] = step[i][f[i - 1]]

(* A recursion over 0..n has a solution, whatever its steps are.           *)
LEMMA RecursionExists ==
  ASSUME NEW V, NEW n \in Nat, NEW base \in V, NEW step \in StepFunctions(n, V)
  PROVE  \E f \in [0..n -> V] : FollowsSteps(f, n, base, step)
<1> USE DEF StepFunctions, FollowsSteps
<1> DEFINE Solves(f, k) == /\ f \in [0..k -> V] /\ f[0] = base
                           /\ \A i \in 1..k : f[i] = step[i][f[i - 1]]
           S == {k \in Nat : k <= n => \E f : Solves(f, k)}
<1>1. 0 \in S
  <2>1. Solves([i \in 0..0 |-> base], 0)
    OBVIOUS
  <2> QED
    BY <2>1
<1>2. ASSUME NEW k \in Nat, k \in S
      PROVE  k + 1 \in S
  <2> SUFFICES ASSUME k + 1 <= n PROVE \E f : Solves(f, k + 1)
    OBVIOUS
  <2>1. PICK f : Solves(f, k)
    BY <1>2
  <2> DEFINE g == [i \in 0..(k + 1) |-> IF i = k + 1 THEN step[k + 1][f[k]] ELSE f[i]]
  <2>2. step[k + 1][f[k]] \in V
    BY <2>1
  <2>3. g \in [0..(k + 1) -> V] /\ g[0] = base
    BY <2>1, <2>2
  <2>4. ASSUME NEW i \in 1..(k + 1)
        PROVE  g[i] = step[i][g[i - 1]]
    <3>1. i - 1 \in 0..k /\ g[i - 1] = f[i - 1]
      OBVIOUS
    <3>2. CASE i = k + 1
      BY <3>1, <3>2
    <3>3. CASE i \in 1..k
      BY <2>1, <3>1, <3>3
    <3> QED
      BY <3>2, <3>3
  <2>5. Solves(g, k + 1)
    BY <2>3, <2>4
  <2> QED
    BY <2>5
<1>3. n \in S
  <2> HIDE DEF S
  <2> QED
    BY <1>1, <1>2, NaturalsBySteps
<1> QED
  BY <1>3

-----------------------------------------------------------------------------
(* The function in which FlattenSeq collects what it has concatenated.     *)
Flattens(f, ss) ==
  f = [i \in 1..Len(ss) |-> IF i = 1 THEN ss[i] ELSE f[i - 1] \o ss[i]]

(* The recursion by which FlattenSeq is defined has a solution.            *)
LEMMA FlattensExists ==
  ASSUME NEW T, NEW ss \in Seq(Seq(T)), ss # <<>>
  PROVE  \E f : Flattens(f, ss)
<1>0. PICK m \in Nat : Len(ss) = m + 1
  <2>1. Len(ss) \in Nat \ {0}
    BY EmptySeq
  <2>2. Len(ss) - 1 \in Nat /\ Len(ss) = (Len(ss) - 1) + 1
    BY <2>1
  <2> QED
    BY <2>2
<1> DEFINE step == [i \in 1..m |-> [v \in Seq(T) |-> v \o ss[i + 1]]]
<1>1. \A i \in 1..(m + 1) : ss[i] \in Seq(T)
  BY <1>0, ElementOfSeq
<1>2. step \in StepFunctions(m, Seq(T))
  <2>1. ASSUME NEW i \in 1..m, NEW v \in Seq(T)
        PROVE  v \o ss[i + 1] \in Seq(T)
    <3>1. ss[i + 1] \in Seq(T)
      BY <1>1
    <3> QED
      BY <3>1, ConcatProperties
  <2> QED
    BY <2>1 DEF StepFunctions
<1>3. ss[1] \in Seq(T)
  BY <1>1
<1>4. PICK g \in [0..m -> Seq(T)] :
        g[0] = ss[1] /\ \A i \in 1..m : g[i] = step[i][g[i - 1]]
  <2> HIDE DEF step
  <2>1. \E g \in [0..m -> Seq(T)] : FollowsSteps(g, m, ss[1], step)
    BY <1>2, <1>3, RecursionExists
  <2> QED
    BY <2>1 DEF FollowsSteps
<1> DEFINE f == [i \in 1..(m + 1) |-> g[i - 1]]
<1>5. ASSUME NEW i \in 1..(m + 1)
      PROVE  f[i] = IF i = 1 THEN ss[i] ELSE f[i - 1] \o ss[i]
  <2>1. CASE i = 1
    BY <1>4, <2>1
  <2>2. CASE i # 1
    <3>1. i - 1 \in 1..m /\ (i - 1) - 1 \in 0..m /\ (i - 1) + 1 = i
      BY <2>2
    <3>2. g[i - 1] = g[(i - 1) - 1] \o ss[i]
      BY <1>4, <3>1
    <3>3. f[i - 1] = g[(i - 1) - 1]
      BY <3>1
    <3> QED
      BY <2>2, <3>2, <3>3
  <2> QED
    BY <2>1, <2>2
<1>6. f = [i \in 1..(m + 1) |-> IF i = 1 THEN ss[i] ELSE f[i - 1] \o ss[i]]
  BY <1>5, Zenon
<1> QED
  BY <1>0, <1>6, Zenon DEF Flattens

(* FlattenSeq is the last value of that recursion.                         *)
LEMMA FlattenIs ==
  ASSUME NEW T, NEW ss \in Seq(Seq(T)), ss # <<>>
  PROVE  \E f : /\ FlattenSeq(ss) = f[Len(ss)] /\ f[1] = ss[1]
                /\ \A i \in 1..Len(ss) : i # 1 => f[i] = f[i - 1] \o ss[i]
<1> DEFINE f == CHOOSE f : Flattens(f, ss)
<1>1. Flattens(f, ss)
  BY FlattensExists
<1>2. Len(ss) # 0 /\ 1 \in 1..Len(ss)
  BY EmptySeq
<1>3. FlattenSeq(ss) = f[Len(ss)]
  BY <1>2, Zenon DEF FlattenSeq, Flattens
<1> HIDE DEF f
<1>4. \A i \in 1..Len(ss) : f[i] = IF i = 1 THEN ss[i] ELSE f[i - 1] \o ss[i]
  BY <1>1, Zenon DEF Flattens
<1>5. f[1] = ss[1]
  BY <1>2, <1>4, Zenon
<1>6. \A i \in 1..Len(ss) : i # 1 => f[i] = f[i - 1] \o ss[i]
  BY <1>4, Zenon
<1> QED
  BY <1>3, <1>5, <1>6, Zenon

(* Nothing flattens to nothing.                                            *)
LEMMA FlattenEmpty == FlattenSeq(<<>>) = <<>>
<1>1. Len(<<>>) = 0
  OBVIOUS
<1> QED
  BY <1>1, Zenon DEF FlattenSeq

(* A sequence more is concatenated at the end.                             *)
LEMMA FlattenAppend ==
  ASSUME NEW T, NEW ss \in Seq(Seq(T)), NEW s \in Seq(T)
  PROVE  FlattenSeq(Append(ss, s)) = FlattenSeq(ss) \o s
<1>1. PICK tt \in Seq(Seq(T)) : tt = Append(ss, s)
  BY AppendProperties
<1>2. PICK n \in Nat : n = Len(ss)
  BY LenProperties
<1>3. /\ tt # <<>> /\ Len(tt) = n + 1 /\ tt[n + 1] = s
      /\ \A i \in 1..n : tt[i] = ss[i]
  BY <1>1, <1>2, AppendProperties
<1>4. PICK g : /\ FlattenSeq(tt) = g[Len(tt)] /\ g[1] = tt[1]
               /\ \A i \in 1..Len(tt) : i # 1 => g[i] = g[i - 1] \o tt[i]
  BY <1>3, FlattenIs, Zenon
<1>6. CASE ss = <<>>
  <2>1. n = 0 /\ n + 1 = 1
    BY <1>2, <1>6
  <2>2. FlattenSeq(tt) = s
    BY <1>3, <1>4, <2>1, Zenon
  <2> QED
    BY <1>1, <1>6, <2>2, FlattenEmpty, ConcatEmptySeq
<1>7. CASE ss # <<>>
  <2>1. PICK f : /\ FlattenSeq(ss) = f[Len(ss)] /\ f[1] = ss[1]
                 /\ \A i \in 1..Len(ss) : i # 1 => f[i] = f[i - 1] \o ss[i]
    BY <1>7, FlattenIs, Zenon
  <2>2. PICK m \in Nat : n = m + 1
    <3>1. n \in Nat \ {0}
      BY <1>2, <1>7, EmptySeq
    <3>2. n - 1 \in Nat /\ n = (n - 1) + 1
      BY <3>1
    <3> QED
      BY <3>2
  <2> DEFINE Same(i) == f[i + 1] = g[i + 1]
  <2>3. Same(0)
    <3>1. 1 \in 1..n /\ 0 + 1 = 1
      BY <2>2
    <3> QED
      BY <1>3, <1>4, <2>1, <3>1
  <2>4. ASSUME NEW i \in 1..m, Same(i - 1)
        PROVE  Same(i)
    <3>1. /\ i + 1 \in 1..n /\ i + 1 \in 1..(n + 1) /\ i + 1 # 1
          /\ (i + 1) - 1 = (i - 1) + 1
      BY <2>2
    <3>2. f[i + 1] = f[(i - 1) + 1] \o ss[i + 1]
      BY <1>2, <2>1, <3>1, Zenon
    <3>3. g[i + 1] = g[(i - 1) + 1] \o tt[i + 1]
      BY <1>3, <1>4, <3>1, Zenon
    <3> QED
      BY <1>3, <2>4, <3>1, <3>2, <3>3, Zenon
  <2>5. Same(m)
    <3> DEFINE S == {k \in Nat : k <= m => Same(k)}
    <3>1. 0 \in S
      BY <2>3
    <3>2. ASSUME NEW k \in Nat, k \in S
          PROVE  k + 1 \in S
      <4>1. k + 1 <= m => k + 1 \in 1..m /\ (k + 1) - 1 = k /\ k <= m
        OBVIOUS
      <4> HIDE DEF Same
      <4> QED
        BY <2>4, <3>2, <4>1
    <3>3. Nat \subseteq S
      <4> HIDE DEF S
      <4> QED
        BY <3>1, <3>2, NaturalsBySteps
    <3> HIDE DEF Same
    <3> QED
      BY <3>3
  <2>6. g[n + 1] = g[n] \o s
    <3>1. n + 1 \in 1..(n + 1) /\ n + 1 # 1 /\ (n + 1) - 1 = n
      BY <2>2
    <3> QED
      BY <1>3, <1>4, <3>1, Zenon
  <2> QED
    <3>1. f[n] = g[n]
      BY <2>2, <2>5
    <3> QED
      BY <1>1, <1>2, <1>3, <1>4, <2>1, <2>6, <3>1, Zenon
<1> QED
  BY <1>6, <1>7

(* What is flattened has the elements of its parts.                        *)
LEMMA FlattenType ==
  ASSUME NEW T
  PROVE  \A ss \in Seq(Seq(T)) : FlattenSeq(ss) \in Seq(T)
<1> DEFINE P == {ss \in Seq(Seq(T)) : FlattenSeq(ss) \in Seq(T)}
<1>1. <<>> \in P
  BY FlattenEmpty, EmptySeq
<1>2. ASSUME NEW ss \in Seq(Seq(T)), NEW s \in Seq(T), ss \in P
      PROVE  Append(ss, s) \in P
  BY <1>2, FlattenAppend, ConcatProperties, AppendProperties
<1>3. Seq(Seq(T)) \subseteq P
  <2> HIDE DEF P
  <2> QED
    BY <1>1, <1>2, SequencesBySteps
<1> QED
  BY <1>3

-----------------------------------------------------------------------------
(* What a comprehension keeps.                                             *)
Picks(s, keep) == [i \in 1..Len(s) |-> IF s[i] \in keep THEN <<s[i]>> ELSE <<>>]

(* Nothing is kept of nothing.                                             *)
LEMMA KeptEmpty ==
  ASSUME NEW keep
  PROVE  Kept(<<>>, keep) = <<>>
<1>1. [i \in 1..Len(<<>>) |-> IF <<>>[i] \in keep THEN <<<<>>[i]>> ELSE <<>>] = <<>>
  BY SMT
<1> QED
  BY <1>1, FlattenEmpty, Zenon DEF Kept

(* The last element is kept or not, whatever comes before it.              *)
LEMMA KeptAppend ==
  ASSUME NEW T, NEW s \in Seq(T), NEW x \in T, NEW keep
  PROVE  /\ x \in keep => Kept(Append(s, x), keep) = Append(Kept(s, keep), x)
         /\ x \notin keep => Kept(Append(s, x), keep) = Kept(s, keep)
<1> DEFINE p == IF x \in keep THEN <<x>> ELSE <<>>
<1>1. Picks(s, keep) \in Seq(Seq(T)) /\ p \in Seq(T)
  BY DEF Picks
<1>2. Picks(Append(s, x), keep) = Append(Picks(s, keep), p)
  BY DEF Picks
<1>3. Kept(Append(s, x), keep) = FlattenSeq(Picks(Append(s, x), keep))
  BY Zenon DEF Kept, Picks
<1>4. Kept(s, keep) = FlattenSeq(Picks(s, keep)) /\ Kept(s, keep) \in Seq(T)
  <2>1. Kept(s, keep) = FlattenSeq(Picks(s, keep))
    BY Zenon DEF Kept, Picks
  <2> QED
    BY <1>1, <2>1, FlattenType
<1>5. Kept(Append(s, x), keep) = Kept(s, keep) \o p
  BY <1>1, <1>2, <1>3, <1>4, FlattenAppend, Zenon
<1>6. CASE x \in keep
  BY <1>4, <1>5, <1>6, AppendIsConcat
<1>7. CASE x \notin keep
  BY <1>4, <1>5, <1>7, ConcatEmptySeq
<1> QED
  BY <1>6, <1>7

(* What is kept was there and is wanted, and is not longer.                *)
LEMMA KeptType ==
  ASSUME NEW T, NEW keep
  PROVE  \A s \in Seq(T) :
           Kept(s, keep) \in Seq(T \cap keep) /\ Len(Kept(s, keep)) <= Len(s)
<1> DEFINE P == {s \in Seq(T) : /\ Kept(s, keep) \in Seq(T \cap keep)
                                /\ Len(Kept(s, keep)) <= Len(s)}
<1>1. <<>> \in P
  <2>1. <<>> \in Seq(T) /\ <<>> \in Seq(T \cap keep) /\ Len(<<>>) <= Len(<<>>)
    BY EmptySeq
  <2> QED
    BY <2>1, KeptEmpty
<1>2. ASSUME NEW s \in Seq(T), NEW x \in T, s \in P
      PROVE  Append(s, x) \in P
  <2>0. PICK k \in Seq(T \cap keep) : k = Kept(s, keep) /\ Len(k) <= Len(s)
    BY <1>2
  <2>1. /\ x \in keep => Kept(Append(s, x), keep) = Append(k, x)
        /\ x \notin keep => Kept(Append(s, x), keep) = k
    BY <2>0, KeptAppend, Zenon
  <2>2. Append(s, x) \in Seq(T) /\ Len(Append(s, x)) = Len(s) + 1
    BY AppendProperties
  <2>3. x \in keep => Append(k, x) \in Seq(T \cap keep) /\ Len(Append(k, x)) = Len(k) + 1
    BY AppendProperties
  <2>4. Len(k) \in Nat /\ Len(s) \in Nat
    BY LenProperties
  <2>5. /\ Kept(Append(s, x), keep) \in Seq(T \cap keep)
        /\ Len(Kept(Append(s, x), keep)) <= Len(s) + 1
    <3>1. CASE x \in keep
      BY SMTT(30), <2>0, <2>1, <2>3, <2>4, <3>1
    <3>2. CASE x \notin keep
      BY <2>0, <2>1, <2>4, <3>2
    <3> QED
      BY <3>1, <3>2
  <2> QED
    BY <2>2, <2>5
<1>3. Seq(T) \subseteq P
  <2> HIDE DEF P
  <2> QED
    BY <1>1, <1>2, SequencesBySteps
<1> QED
  BY <1>3

(* Only the elements of the sequence matter.                               *)
LEMMA KeptSame ==
  ASSUME NEW T, NEW a, NEW b
  PROVE  \A s \in Seq(T) :
           (\A i \in 1..Len(s) : s[i] \in a <=> s[i] \in b) => Kept(s, a) = Kept(s, b)
<1> DEFINE Agree(s) == \A i \in 1..Len(s) : s[i] \in a <=> s[i] \in b
           P == {s \in Seq(T) : Agree(s) => Kept(s, a) = Kept(s, b)}
<1>1. <<>> \in P
  BY KeptEmpty, EmptySeq
<1>2. ASSUME NEW s \in Seq(T), NEW x \in T, s \in P
      PROVE  Append(s, x) \in P
  <2> SUFFICES ASSUME Agree(Append(s, x))
               PROVE  Kept(Append(s, x), a) = Kept(Append(s, x), b)
    BY AppendProperties
  <2>1. /\ Len(Append(s, x)) = Len(s) + 1 /\ Len(s) \in Nat
        /\ \A i \in 1..Len(s) : Append(s, x)[i] = s[i]
        /\ Append(s, x)[Len(s) + 1] = x
    BY AppendProperties, LenProperties
  <2>2. Agree(s) /\ (x \in a <=> x \in b)
    BY <2>1
  <2>3. Kept(s, a) = Kept(s, b)
    BY <1>2, <2>2
  <2>4. CASE x \in a
    <3>1. Kept(Append(s, x), a) = Append(Kept(s, a), x)
      BY <2>4, KeptAppend, Zenon
    <3>2. Kept(Append(s, x), b) = Append(Kept(s, b), x)
      BY <2>2, <2>4, KeptAppend, Zenon
    <3> QED
      BY <2>3, <3>1, <3>2, Zenon
  <2>5. CASE x \notin a
    BY <2>2, <2>3, <2>5, KeptAppend, Zenon
  <2> QED
    BY <2>4, <2>5
<1>3. Seq(T) \subseteq P
  <2> HIDE DEF P
  <2> QED
    BY <1>1, <1>2, SequencesBySteps
<1> QED
  BY <1>3

(* A comprehension goes over both parts of a sequence.                     *)
LEMMA KeptConcat ==
  ASSUME NEW T, NEW keep, NEW r \in Seq(T)
  PROVE  \A s \in Seq(T) : Kept(r \o s, keep) = Kept(r, keep) \o Kept(s, keep)
<1> DEFINE P == {s \in Seq(T) : Kept(r \o s, keep) = Kept(r, keep) \o Kept(s, keep)}
<1>0. \A s \in Seq(T) : Kept(s, keep) \in Seq(T)
  <2>1. \A k \in Seq(T \cap keep) : k \in Seq(T)
    BY SeqMonotonic
  <2> QED
    BY <2>1, KeptType
<1>1. <<>> \in P
  BY <1>0, KeptEmpty, EmptySeq, ConcatEmptySeq
<1>2. ASSUME NEW s \in Seq(T), NEW x \in T, s \in P
      PROVE  Append(s, x) \in P
  <2> DEFINE kr == Kept(r, keep)
             ks == Kept(s, keep)
  <2>1. r \o s \in Seq(T) /\ r \o Append(s, x) = Append(r \o s, x)
    OBVIOUS
  <2>2. CASE x \in keep
    <3>0. Kept(Append(r \o s, x), keep) = Append(Kept(r \o s, keep), x)
      BY <2>1, <2>2, KeptAppend, Zenon
    <3>1. Kept(Append(r \o s, x), keep) = Append(kr \o ks, x)
      BY <1>2, <3>0
    <3>2. kr \o Append(ks, x) = Append(kr \o ks, x)
      <4>1. kr \in Seq(T) /\ ks \in Seq(T)
        BY <1>0
      <4> HIDE DEF kr, ks
      <4> QED
        BY <4>1
    <3>3. Kept(Append(s, x), keep) = Append(ks, x)
      BY <2>2, KeptAppend, Zenon
    <3> QED
      BY <2>1, <3>1, <3>2, <3>3, AppendProperties
  <2>3. CASE x \notin keep
    <3>1. Kept(Append(r \o s, x), keep) = kr \o ks
      BY <1>2, <2>1, <2>3, KeptAppend, Zenon
    <3>2. Kept(Append(s, x), keep) = ks
      BY <2>3, KeptAppend, Zenon
    <3> QED
      BY <2>1, <3>1, <3>2, AppendProperties
  <2> QED
    BY <2>2, <2>3
<1>3. Seq(T) \subseteq P
  <2> HIDE DEF P
  <2> QED
    BY <1>1, <1>2, SequencesBySteps
<1> QED
  BY <1>3
=============================================================================
