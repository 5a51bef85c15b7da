------------------------ MODULE FileOperationsProofs ------------------------
(***************************************************************************)
(* What holds of FileOperations for any root, projects, requests, patches  *)
(* and contents.                                                           *)
(***************************************************************************)
EXTENDS FileOperations, FiniteSetTheorems, SequenceTheorems, WellFoundedInduction, TLAPS

Path == Seq(STRING)

-----------------------------------------------------------------------------
(* Induction.  The provers cannot instantiate the operator in the library's *)
(* induction theorems, but a set will do: that of the numbers the claim     *)
(* holds of.                                                                *)

LEMMA NaturalsWellFounded == IsWellFoundedOn({p \in Nat \X Nat : p[1] < p[2]}, Nat)
BY NatLessThanWellFounded DEF OpToRel

LEMMA Induction ==
  ASSUME NEW T, 0 \in T, \A n \in Nat : n \in T => n + 1 \in T
  PROVE  Nat \subseteq T
<1> SUFFICES ASSUME Nat \ T # {} PROVE FALSE
  OBVIOUS
<1>1. PICK x \in Nat \ T : \A y \in Nat \ T : ~ (<<y, x>> \in {p \in Nat \X Nat : p[1] < p[2]})
  BY NaturalsWellFounded, WFMin
<1> DEFINE y == x - 1
<1>2. x \in Nat /\ x # 0
  BY <1>1
<1>3. y \in Nat /\ y + 1 = x /\ y < x
  BY <1>2
<1> HIDE DEF y
<1>4. y \in T
  BY <1>1, <1>3
<1> QED BY <1>1, <1>3, <1>4

-----------------------------------------------------------------------------
(* Sums over finite sets.                                                  *)

\* Induction over the subsets of a finite set.
LEMMA FiniteInduction ==
  ASSUME NEW S, IsFiniteSet(S), NEW T,
         \A U \in SUBSET S : (\A V \in SUBSET U : V # U => V \in T) => U \in T
  PROVE  SUBSET S \subseteq T
<1> SUFFICES ASSUME (SUBSET S) \ T # {} PROVE FALSE
  OBVIOUS
<1>1. FiniteSubsetsOf(S) = SUBSET S
  BY FS_FiniteSubsetsOfFinite
<1> DEFINE rest == (SUBSET S) \ T
<1>2. IsWellFoundedOn(StrictSubsetOrdering(S), FiniteSubsetsOf(S))
  BY FS_StrictSubsetOrderingWellFounded
<1>3. rest \subseteq FiniteSubsetsOf(S) /\ rest # {}
  BY <1>1
<1> HIDE DEF rest
<1>4. PICK U \in rest : \A V \in rest : ~ (<<V, U>> \in StrictSubsetOrdering(S))
  BY <1>2, <1>3, WFMin
<1> USE DEF rest
<1>5. ASSUME NEW V \in SUBSET U, V # U PROVE V \in T
  <2>1. <<V, U>> \in StrictSubsetOrdering(S)
    BY <1>4, <1>5 DEF StrictSubsetOrdering
  <2> QED BY <1>4, <2>1
<1> QED BY <1>4, <1>5

Pick(s) == CHOOSE x \in s : TRUE

IsSum(g, w, U) ==
  g = [s \in SUBSET U |-> IF s = {} THEN 0 ELSE w[Pick(s)] + g[s \ {Pick(s)}]]

LEMMA SumUnfold ==
  ASSUME NEW w, NEW U
  PROVE  SumFunctionOnSet(w, U) = (CHOOSE g : IsSum(g, w, U))[U]
BY DEF SumFunctionOnSet, FoldFunctionOnSet, MapThenFoldSet, IsSum, Pick

LEMMA SumExists ==
  ASSUME NEW w, NEW U, IsFiniteSet(U)
  PROVE  \E g : IsSum(g, w, U)
<1> DEFINE Next1(g, s) == IF s = {} THEN 0 ELSE w[Pick(s)] + g[s \ {Pick(s)}]
           UpTo(g, n) == \A s \in SUBSET U : Cardinality(s) <= n => g[s] = Next1(g, s)
           T == {n \in Nat : \E g : UpTo(g, n)}
<1>1. ASSUME NEW s \in SUBSET U
      PROVE  /\ IsFiniteSet(s) /\ Cardinality(s) \in Nat
             /\ Cardinality(s) = 0 <=> s = {}
             /\ s # {} => /\ s \ {Pick(s)} \in SUBSET U
                          /\ Cardinality(s \ {Pick(s)}) = Cardinality(s) - 1
  <2>1. IsFiniteSet(s) /\ Cardinality(s) \in Nat /\ (Cardinality(s) = 0 <=> s = {})
    BY FS_Subset, FS_CardinalityType, FS_EmptySet
  <2>2. s # {} => Pick(s) \in s
    BY DEF Pick
  <2> QED BY <2>1, <2>2, FS_RemoveElement
<1>2. 0 \in T
  <2> DEFINE g == [s \in SUBSET U |-> 0]
  <2>1. ASSUME NEW s \in SUBSET U, Cardinality(s) <= 0 PROVE s = {}
    <3>1. Cardinality(s) \in Nat /\ (Cardinality(s) = 0 => s = {})
      <4> HIDE DEF UpTo, Next1, g
      <4> QED BY <1>1
    <3>2. Cardinality(s) = 0
      BY <2>1, <3>1
    <3> QED BY <3>1, <3>2
  <2>2. UpTo(g, 0)
    BY <2>1
  <2> HIDE DEF g, UpTo
  <2> QED BY <2>2
<1>3. ASSUME NEW n \in Nat, n \in T PROVE n + 1 \in T
  <2>1. PICK g : UpTo(g, n)
    BY <1>3
  <2> DEFINE h == [s \in SUBSET U |-> IF Cardinality(s) = n + 1 THEN Next1(g, s) ELSE g[s]]
  <2>2. ASSUME NEW s \in SUBSET U, Cardinality(s) <= n + 1 PROVE h[s] = Next1(h, s)
    <3> DEFINE t == s \ {Pick(s)}
    <3>1. s # {} => h[t] = g[t]
      <4> SUFFICES ASSUME s # {} PROVE h[t] = g[t]
        OBVIOUS
      <4>1. t \in SUBSET U /\ Cardinality(t) = Cardinality(s) - 1 /\ Cardinality(s) \in Nat
        <5> HIDE DEF Next1, UpTo, h
        <5> QED BY <1>1
      <4>2. Cardinality(t) # n + 1
        BY <2>2, <4>1
      <4> QED BY <4>1, <4>2
    <3>2. Next1(h, s) = Next1(g, s)
      BY <3>1
    <3>3. CASE Cardinality(s) = n + 1
      BY <3>2, <3>3
    <3>4. CASE Cardinality(s) # n + 1
      <4>1. Cardinality(s) \in Nat
        BY <1>1
      <4>2. Cardinality(s) <= n
        BY <2>2, <3>4, <4>1
      <4>3. g[s] = Next1(g, s)
        BY <2>1, <4>2
      <4>4. h[s] = g[s]
        BY <3>4
      <4> QED BY <3>2, <4>3, <4>4
    <3> QED BY <3>3, <3>4
  <2> HIDE DEF h, Next1
  <2>3. UpTo(h, n + 1) /\ n + 1 \in Nat
    BY <2>2
  <2> HIDE DEF UpTo
  <2> QED BY <2>3
<1>4. Cardinality(U) \in Nat
  BY <1>1
<1>5. PICK g : UpTo(g, Cardinality(U))
  <2>1. Nat \subseteq T
    <3> HIDE DEF T
    <3> QED BY <1>2, <1>3, Induction
  <2> HIDE DEF UpTo
  <2> QED BY <1>4, <2>1
<1> DEFINE f == [s \in SUBSET U |-> g[s]]
<1>6. ASSUME NEW s \in SUBSET U PROVE f[s] = Next1(f, s)
  <2>1. Cardinality(s) <= Cardinality(U)
    BY FS_Subset
  <2>2. g[s] = Next1(g, s)
    BY <1>5, <2>1
  <2>3. s # {} => s \ {Pick(s)} \in SUBSET U
    OBVIOUS
  <2>4. f[s] = g[s] /\ (s # {} => f[s \ {Pick(s)}] = g[s \ {Pick(s)}])
    BY <2>3
  <2> QED BY <2>2, <2>4
<1>7. f = [s \in SUBSET U |-> Next1(f, s)]
  <2>1. f = [s \in SUBSET U |-> f[s]]
    OBVIOUS
  <2> HIDE DEF f, Next1
  <2> QED BY <1>6, <2>1
<1>8. IsSum(f, w, U)
  BY <1>7 DEF IsSum
<1> QED BY <1>8

\* The sum of a set, one element at a time.
LEMMA SumDef ==
  ASSUME NEW w, NEW U, IsFiniteSet(U)
  PROVE  SumFunctionOnSet(w, U)
           = IF U = {} THEN 0 ELSE w[Pick(U)] + SumFunctionOnSet(w, U \ {Pick(U)})
<1> DEFINE g(V) == CHOOSE f : IsSum(f, w, V)
<1>1. ASSUME NEW V, IsFiniteSet(V), NEW s \in SUBSET V
      PROVE  g(V)[s] = IF s = {} THEN 0 ELSE w[Pick(s)] + g(V)[s \ {Pick(s)}]
  <2>1. IsSum(g(V), w, V)
    BY <1>1, SumExists
  <2> HIDE DEF g
  <2> QED BY <2>1 DEF IsSum
<1> HIDE DEF g
<1> DEFINE V == U \ {Pick(U)}
           T == {s \in SUBSET V : g(U)[s] = g(V)[s]}
<1>2. IsFiniteSet(V)
  BY FS_RemoveElement
<1>3. ASSUME NEW s \in SUBSET V, \A t \in SUBSET s : t # s => t \in T PROVE s \in T
  <2>1. CASE s = {}
    BY <1>1, <1>2, <2>1
  <2>2. CASE s # {}
    <3> DEFINE t == s \ {Pick(s)}
    <3>1. t \in SUBSET s /\ t # s
      BY <2>2 DEF Pick
    <3>2. g(U)[t] = g(V)[t]
      BY <1>3, <3>1
    <3>3. s \in SUBSET U
      OBVIOUS
    <3>4. g(U)[s] = w[Pick(s)] + g(U)[t]
      BY <1>1, <2>2, <3>3
    <3>5. g(V)[s] = w[Pick(s)] + g(V)[t]
      BY <1>1, <1>2, <2>2
    <3> QED BY <3>2, <3>4, <3>5
  <2> QED BY <2>1, <2>2
<1>4. SUBSET V \subseteq T
  <2> HIDE DEF T, V
  <2> QED BY <1>2, <1>3, FiniteInduction
<1>5. g(U)[V] = g(V)[V]
  BY <1>4
<1>6. SumFunctionOnSet(w, U) = g(U)[U] /\ SumFunctionOnSet(w, V) = g(V)[V]
  BY SumUnfold DEF g
<1>7. g(U)[U] = IF U = {} THEN 0 ELSE w[Pick(U)] + g(U)[V]
  BY <1>1
<1> HIDE DEF V
<1> QED BY <1>5, <1>6, <1>7 DEF V

LEMMA SumNat ==
  ASSUME NEW w, NEW U, IsFiniteSet(U), \A x \in U : w[x] \in Nat
  PROVE  SumFunctionOnSet(w, U) \in Nat
<1> DEFINE T == {s \in SUBSET U : SumFunctionOnSet(w, s) \in Nat}
<1>1. ASSUME NEW s \in SUBSET U, \A t \in SUBSET s : t # s => t \in T PROVE s \in T
  <2>1. IsFiniteSet(s)
    BY FS_Subset
  <2>2. CASE s = {}
    <3>1. SumFunctionOnSet(w, s) = 0
      BY <2>1, <2>2, SumDef
    <3> QED BY <3>1
  <2>3. CASE s # {}
    <3>1. Pick(s) \in s /\ s \ {Pick(s)} \in SUBSET s /\ s \ {Pick(s)} # s
      BY <2>3 DEF Pick
    <3>2. SumFunctionOnSet(w, s \ {Pick(s)}) \in Nat /\ w[Pick(s)] \in Nat
      BY <1>1, <3>1
    <3>3. SumFunctionOnSet(w, s) = w[Pick(s)] + SumFunctionOnSet(w, s \ {Pick(s)})
      BY <2>1, <2>3, SumDef
    <3> QED BY <3>2, <3>3
  <2> QED BY <2>2, <2>3
<1>2. SUBSET U \subseteq T
  <2> HIDE DEF T
  <2> QED BY <1>1, FiniteInduction
<1> QED BY <1>2

LEMMA SumSame ==
  ASSUME NEW v, NEW w, NEW U, IsFiniteSet(U), \A x \in U : v[x] = w[x]
  PROVE  SumFunctionOnSet(v, U) = SumFunctionOnSet(w, U)
<1> DEFINE T == {s \in SUBSET U : SumFunctionOnSet(v, s) = SumFunctionOnSet(w, s)}
<1>1. ASSUME NEW s \in SUBSET U, \A t \in SUBSET s : t # s => t \in T PROVE s \in T
  <2>1. IsFiniteSet(s)
    BY FS_Subset
  <2>2. CASE s = {}
    BY <2>1, <2>2, SumDef
  <2>3. CASE s # {}
    <3>1. Pick(s) \in s /\ s \ {Pick(s)} \in SUBSET s /\ s \ {Pick(s)} # s
      BY <2>3 DEF Pick
    <3>2. SumFunctionOnSet(v, s \ {Pick(s)}) = SumFunctionOnSet(w, s \ {Pick(s)})
          /\ v[Pick(s)] = w[Pick(s)]
      BY <1>1, <3>1
    <3>3. SumFunctionOnSet(v, s) = v[Pick(s)] + SumFunctionOnSet(v, s \ {Pick(s)})
      BY <2>1, <2>3, SumDef
    <3>4. SumFunctionOnSet(w, s) = w[Pick(s)] + SumFunctionOnSet(w, s \ {Pick(s)})
      BY <2>1, <2>3, SumDef
    <3> QED BY <3>2, <3>3, <3>4
  <2> QED BY <2>2, <2>3
<1>2. SUBSET U \subseteq T
  <2> HIDE DEF T
  <2> QED BY <1>1, FiniteInduction
<1> QED BY <1>2

\* Any element may be the last one.
LEMMA SumRemove ==
  ASSUME NEW w, NEW U, IsFiniteSet(U), \A x \in U : w[x] \in Nat, NEW a \in U
  PROVE  SumFunctionOnSet(w, U) = w[a] + SumFunctionOnSet(w, U \ {a})
<1> DEFINE Sum(s) == SumFunctionOnSet(w, s)
           T == {s \in SUBSET U : \A x \in s : Sum(s) = w[x] + Sum(s \ {x})}
<1>1. ASSUME NEW s \in SUBSET U PROVE IsFiniteSet(s) /\ Sum(s) \in Nat
  <2>1. IsFiniteSet(s)
    BY FS_Subset
  <2> QED BY <2>1, SumNat
<1>2. ASSUME NEW s \in SUBSET U, \A t \in SUBSET s : t # s => t \in T PROVE s \in T
  <2> SUFFICES ASSUME NEW x \in s PROVE Sum(s) = w[x] + Sum(s \ {x})
    OBVIOUS
  <2> DEFINE c == Pick(s)
  <2>1. c \in s
    BY DEF Pick
  <2>2. Sum(s) = w[c] + Sum(s \ {c})
    BY <1>1, SumDef
  <2> HIDE DEF c, Sum
  <2>3. CASE x = c
    BY <2>2, <2>3
  <2>4. CASE x # c
    <3> DEFINE r == s \ {c, x}
    <3>1. s \ {c} \in T /\ s \ {x} \in T
      BY <1>2, <2>1
    <3>2. x \in s \ {c} /\ c \in s \ {x} /\ (s \ {c}) \ {x} = r /\ (s \ {x}) \ {c} = r
      BY <2>1, <2>4
    <3>3. Sum(s \ {c}) = w[x] + Sum(r)
      BY <3>1, <3>2
    <3>4. Sum(s \ {x}) = w[c] + Sum(r)
      BY <3>1, <3>2
    <3>5. w[c] \in Nat /\ w[x] \in Nat /\ Sum(r) \in Nat
      BY <1>1, <2>1
    <3> QED BY <2>2, <3>3, <3>4, <3>5
  <2> QED BY <2>3, <2>4
<1>3. SUBSET U \subseteq T
  <2> HIDE DEF T
  <2> QED BY <1>2, FiniteInduction
<1> QED BY <1>3

\* Sets that have nothing in common.
LEMMA SumSplit ==
  ASSUME NEW w, NEW U, NEW V, IsFiniteSet(U), IsFiniteSet(V), U \cap V = {},
         \A x \in U \cup V : w[x] \in Nat
  PROVE  SumFunctionOnSet(w, U \cup V) = SumFunctionOnSet(w, U) + SumFunctionOnSet(w, V)
<1> DEFINE Sum(s) == SumFunctionOnSet(w, s)
           T == {s \in SUBSET V : Sum(U \cup s) = Sum(U) + Sum(s)}
<1>1. ASSUME NEW s \in SUBSET (U \cup V) PROVE IsFiniteSet(s) /\ Sum(s) \in Nat
  <2>1. IsFiniteSet(s)
    BY FS_Union, FS_Subset
  <2> QED BY <2>1, SumNat
<1>2. ASSUME NEW s \in SUBSET V, \A t \in SUBSET s : t # s => t \in T PROVE s \in T
  <2>1. CASE s = {}
    <3> DEFINE u == U \cup s
    <3>1. u = U
      BY <2>1
    <3>2. Sum(s) = 0 /\ Sum(U) \in Nat
      BY <1>1, <2>1, SumDef
    <3> HIDE DEF Sum, u
    <3>3. Sum(u) = Sum(U) + Sum(s)
      BY <3>1, <3>2
    <3> QED BY <3>3 DEF u
  <2>2. CASE s # {}
    <3>1. PICK x \in s : TRUE
      BY <2>2
    <3> DEFINE t == s \ {x}
    <3>2. t \in SUBSET s /\ t # s /\ x \in U \cup s /\ (U \cup s) \ {x} = U \cup t
      OBVIOUS
    <3>3. Sum(U \cup t) = Sum(U) + Sum(t)
      BY <1>2, <3>2
    <3>4. Sum(U \cup s) = w[x] + Sum(U \cup t)
      <4>1. IsFiniteSet(U \cup s) /\ \A y \in U \cup s : w[y] \in Nat
        BY <1>1
      <4>2. Sum(U \cup s) = w[x] + Sum((U \cup s) \ {x})
        BY <3>2, <4>1, SumRemove
      <4> QED BY <3>2, <4>2
    <3>5. Sum(s) = w[x] + Sum(t)
      <4>1. IsFiniteSet(s) /\ \A y \in s : w[y] \in Nat
        BY <1>1
      <4> QED BY <4>1, SumRemove
    <3>6. Sum(U) \in Nat /\ Sum(t) \in Nat /\ w[x] \in Nat
      BY <1>1
    <3> HIDE DEF Sum, t
    <3>7. Sum(U \cup s) = Sum(U) + Sum(s)
      BY <3>3, <3>4, <3>5, <3>6
    <3> QED BY <3>7
  <2> QED BY <2>1, <2>2
<1>3. SUBSET V \subseteq T
  <2> HIDE DEF T
  <2> QED BY <1>2, FiniteInduction
<1> QED BY <1>3

-----------------------------------------------------------------------------
(* Paths.                                                                  *)

LEMMA PathLen ==
  ASSUME NEW p \in Path
  PROVE  Len(p) \in Nat /\ DOMAIN p = 1 .. Len(p) /\ \A i \in 1 .. Len(p) : p[i] \in STRING
BY LenProperties, ElementOfSeq DEF Path

LEMMA SamePath ==
  ASSUME NEW p \in Path, NEW q \in Path, Len(p) = Len(q), \A i \in 1 .. Len(p) : p[i] = q[i]
  PROVE  p = q
BY SeqEqual DEF Path

\* The first n components of a path.
LEMMA Cut ==
  ASSUME NEW p \in Path, NEW n \in 0 .. Len(p)
  PROVE  /\ SubSeq(p, 1, n) \in Path /\ Len(SubSeq(p, 1, n)) = n
         /\ \A i \in 1 .. n : SubSeq(p, 1, n)[i] = p[i]
<1>1. 1 \in Int /\ n \in Int /\ \A i \in 1 .. n : p[i] \in STRING
  BY PathLen
<1>2. /\ SubSeq(p, 1, n) \in Path
      /\ Len(SubSeq(p, 1, n)) = IF 1 <= n THEN n - 1 + 1 ELSE 0
      /\ \A i \in 1 .. n - 1 + 1 : SubSeq(p, 1, n)[i] = p[1 + i - 1]
  BY <1>1, SubSeqProperties DEF Path
<1>3. n \in Nat /\ (IF 1 <= n THEN n - 1 + 1 ELSE 0) = n /\ n - 1 + 1 = n
  BY PathLen
<1>4. \A i \in 1 .. n : 1 + i - 1 = i
  OBVIOUS
<1> QED BY <1>2, <1>3, <1>4

LEMMA PrefixDef ==
  ASSUME NEW p \in Path, NEW q \in Path
  PROVE  IsPrefix(p, q) <=> Len(p) <= Len(q) /\ \A i \in 1 .. Len(p) : p[i] = q[i]
<1>1. Len(p) \in Nat /\ Len(q) \in Nat
  BY PathLen
<1>2. ASSUME Len(p) <= Len(q)
      PROVE  SubSeq(p, 1, Len(p)) = SubSeq(q, 1, Len(p)) <=> \A i \in 1 .. Len(p) : p[i] = q[i]
  <2>1. Len(p) \in 0 .. Len(p) /\ Len(p) \in 0 .. Len(q)
    BY <1>1, <1>2
  <2>2. /\ SubSeq(p, 1, Len(p)) \in Path /\ SubSeq(q, 1, Len(p)) \in Path
        /\ Len(SubSeq(p, 1, Len(p))) = Len(p) /\ Len(SubSeq(q, 1, Len(p))) = Len(p)
        /\ \A i \in 1 .. Len(p) : SubSeq(p, 1, Len(p))[i] = p[i]
        /\ \A i \in 1 .. Len(p) : SubSeq(q, 1, Len(p))[i] = q[i]
    BY <2>1, Cut
  <2> QED BY <2>2, SamePath
<1> QED BY <1>2 DEF IsPrefix

LEMMA PrefixOrder ==
  ASSUME NEW p \in Path, NEW q \in Path
  PROVE  /\ IsPrefix(p, p)
         /\ \A r \in Path : IsPrefix(p, q) /\ IsPrefix(q, r) => IsPrefix(p, r)
         /\ IsPrefix(p, q) /\ IsPrefix(q, p) => p = q
         /\ \A r \in Path : IsPrefix(p, r) /\ IsPrefix(q, r) => IsPrefix(p, q) \/ IsPrefix(q, p)
<1>1. Len(p) \in Nat /\ Len(q) \in Nat
  BY PathLen
<1>2. IsPrefix(p, p)
  BY <1>1, PrefixDef
<1>3. ASSUME NEW r \in Path, IsPrefix(p, q), IsPrefix(q, r) PROVE IsPrefix(p, r)
  BY <1>1, <1>3, PrefixDef, PathLen
<1>4. IsPrefix(p, q) /\ IsPrefix(q, p) => p = q
  BY <1>1, PrefixDef, SamePath
<1>5. ASSUME NEW r \in Path, IsPrefix(p, r), IsPrefix(q, r) PROVE IsPrefix(p, q) \/ IsPrefix(q, p)
  BY <1>1, <1>5, PrefixDef, PathLen
<1> QED BY <1>2, <1>3, <1>4, <1>5

LEMMA PrefixesDef == ASSUME NEW p \in Path PROVE Prefixes(p) = {q \in Path : IsPrefix(q, p)}
<1>1. Len(p) \in Nat
  BY PathLen
<1>2. ASSUME NEW n \in 0 .. Len(p) PROVE SubSeq(p, 1, n) \in Path /\ IsPrefix(SubSeq(p, 1, n), p)
  <2> DEFINE q == SubSeq(p, 1, n)
  <2>1. q \in Path /\ Len(q) = n /\ \A i \in 1 .. n : q[i] = p[i]
    BY Cut
  <2>2. n \in Nat /\ n <= Len(p)
    BY <1>1
  <2> HIDE DEF q
  <2>3. IsPrefix(q, p)
    BY <2>1, <2>2, PrefixDef
  <2> QED BY <2>1, <2>3 DEF q
<1>3. ASSUME NEW q \in Path, IsPrefix(q, p) PROVE \E n \in 0 .. Len(p) : q = SubSeq(p, 1, n)
  <2>1. Len(q) \in 0 .. Len(p) /\ \A i \in 1 .. Len(q) : q[i] = p[i]
    BY <1>1, <1>3, PrefixDef, PathLen
  <2>2. SubSeq(p, 1, Len(q)) \in Path /\ Len(SubSeq(p, 1, Len(q))) = Len(q)
        /\ \A i \in 1 .. Len(q) : SubSeq(p, 1, Len(q))[i] = p[i]
    BY <2>1, Cut
  <2>3. q = SubSeq(p, 1, Len(q))
    BY <2>1, <2>2, SamePath
  <2> QED BY <2>1, <2>3
<1> QED BY <1>2, <1>3 DEF Prefixes

\* The directory of a path.
LEMMA FrontDef ==
  ASSUME NEW p \in Path, p # <<>>
  PROVE  /\ Len(p) \in Nat \ {0}
         /\ Front(p) \in Path /\ Len(Front(p)) = Len(p) - 1 /\ Front(p) # p
         /\ \A i \in 1 .. Len(p) - 1 : Front(p)[i] = p[i]
         /\ IsPrefix(Front(p), p)
         /\ \A q \in Path : IsPrefix(q, p) => q = p \/ IsPrefix(q, Front(p))
<1>1. Len(p) \in Nat \ {0}
  BY EmptySeq DEF Path
<1>2. Len(p) - 1 \in 0 .. Len(p)
  BY <1>1
<1>3. /\ Front(p) \in Path /\ Len(Front(p)) = Len(p) - 1
      /\ \A i \in 1 .. Len(p) - 1 : Front(p)[i] = p[i]
  BY <1>2, Cut DEF Front
<1>4. IsPrefix(Front(p), p) /\ Front(p) # p
  BY <1>1, <1>3, PrefixDef
<1>5. ASSUME NEW q \in Path, IsPrefix(q, p), q # p PROVE IsPrefix(q, Front(p))
  <2>1. Len(q) \in Nat /\ Len(q) <= Len(p) /\ \A i \in 1 .. Len(q) : q[i] = p[i]
    BY <1>5, PrefixDef, PathLen
  <2>2. Len(q) # Len(p)
    BY <1>1, <1>5, <2>1, SamePath
  <2> QED BY <1>1, <1>3, <2>1, <2>2, PrefixDef
<1> QED BY <1>1, <1>3, <1>4, <1>5

LEMMA ConcatDef ==
  ASSUME NEW p \in Path, NEW q \in Path
  PROVE  /\ p \o q \in Path /\ Len(p \o q) = Len(p) + Len(q)
         /\ \A i \in 1 .. Len(p) : (p \o q)[i] = p[i]
         /\ \A i \in 1 .. Len(q) : (p \o q)[Len(p) + i] = q[i]
<1>1. Len(p) \in Nat /\ Len(q) \in Nat
  BY PathLen
<1>2. /\ p \o q \in Path /\ Len(p \o q) = Len(p) + Len(q)
      /\ \A i \in 1 .. Len(p) + Len(q) : (p \o q)[i] = IF i <= Len(p) THEN p[i] ELSE q[i - Len(p)]
  BY ConcatProperties DEF Path
<1>3. ASSUME NEW i \in 1 .. Len(p) PROVE (p \o q)[i] = p[i]
  BY <1>1, <1>2
<1>4. ASSUME NEW i \in 1 .. Len(q) PROVE (p \o q)[Len(p) + i] = q[i]
  <2>1. Len(p) + i \in 1 .. Len(p) + Len(q) /\ ~(Len(p) + i <= Len(p)) /\ Len(p) + i - Len(p) = i
    BY <1>1
  <2> QED BY <1>2, <2>1
<1> QED BY <1>2, <1>3, <1>4

\* The roots, component by component.
LEMMA RootParts ==
  ASSUME NEW scope \in Scopes
  PROVE  /\ Root(scope) \in Path /\ BaseRoot \in Path
         /\ Len(BaseRoot) = 1 /\ BaseRoot[1] = "srv"
         /\ Root(scope)[1] = "srv"
         /\ scope = Base => Root(scope) = BaseRoot
         /\ scope # Base => /\ scope \in Projects /\ Len(Root(scope)) = 3
                            /\ Root(scope) = ProjectRoot(scope)
                            /\ Root(scope)[2] = ".projects" /\ Root(scope)[3] = scope
<1>1. BaseRoot \in Path /\ Len(BaseRoot) = 1 /\ BaseRoot[1] = "srv"
  BY WorkspaceAssumption DEF BaseRoot, Path
<1>2. CASE scope = Base
  BY <1>1, <1>2 DEF Root
<1>3. CASE scope # Base
  <2>1. scope \in Projects /\ scope \in STRING
    BY <1>3, WorkspaceAssumption DEF Scopes
  <2> DEFINE rest == <<".projects", scope>>
  <2>2. rest \in Path /\ Len(rest) = 2 /\ rest[1] = ".projects" /\ rest[2] = scope
    BY <2>1, WorkspaceAssumption DEF Path
  <2> HIDE DEF rest
  <2>3. Root(scope) = BaseRoot \o rest
    BY <1>3 DEF Root, ProjectRoot, rest
  <2> DEFINE r == BaseRoot \o rest
  <2>4. /\ r \in Path /\ Len(r) = Len(BaseRoot) + Len(rest)
        /\ \A i \in 1 .. Len(BaseRoot) : r[i] = BaseRoot[i]
        /\ \A i \in 1 .. Len(rest) : r[Len(BaseRoot) + i] = rest[i]
    BY <1>1, <2>2, ConcatDef
  <2> HIDE DEF r
  <2>5. Len(r) = 3 /\ r[1] = "srv" /\ r[1 + 1] = ".projects" /\ r[1 + 2] = scope
    BY <1>1, <2>2, <2>4
  <2>6. Root(scope) = r /\ ProjectRoot(scope) = r
    BY <1>3, <2>3 DEF Root, r
  <2>7. 1 + 1 = 2 /\ 1 + 2 = 3
    OBVIOUS
  <2>8. r[2] = ".projects" /\ r[3] = scope
    BY <2>5, <2>7
  <2> QED BY <1>1, <1>3, <2>1, <2>4, <2>5, <2>6, <2>8
<1> QED BY <1>2, <1>3

\* usage.json of a scope is below its root and in a .metadata.
LEMMA UsageFileParts ==
  ASSUME NEW scope \in Scopes
  PROVE  /\ UsageFile(scope) \in Path /\ Len(UsageFile(scope)) = Len(Root(scope)) + 2
         /\ \A i \in 1 .. Len(Root(scope)) : UsageFile(scope)[i] = Root(scope)[i]
         /\ UsageFile(scope)[Len(Root(scope)) + 1] = ".metadata"
         /\ UsageFile(scope) # <<>>
<1> DEFINE rest == <<".metadata", "usage.json">>
<1>1. rest \in Path /\ Len(rest) = 2 /\ rest[1] = ".metadata"
  BY WorkspaceAssumption DEF Path
<1>2. Root(scope) \in Path /\ Len(Root(scope)) \in Nat
  BY RootParts, PathLen
<1> HIDE DEF rest
<1> DEFINE u == Root(scope) \o rest
<1>3. UsageFile(scope) = u
  BY DEF UsageFile, rest
<1>4. /\ u \in Path /\ Len(u) = Len(Root(scope)) + Len(rest)
      /\ \A i \in 1 .. Len(Root(scope)) : u[i] = Root(scope)[i]
      /\ \A i \in 1 .. Len(rest) : u[Len(Root(scope)) + i] = rest[i]
  BY <1>1, <1>2, ConcatDef
<1> HIDE DEF u
<1>5. u[Len(Root(scope)) + 1] = ".metadata"
  BY <1>1, <1>4
<1>6. u # <<>>
  <2>1. Len(u) # 0
    BY <1>1, <1>2, <1>4
  <2> QED BY <2>1
<1> QED BY <1>1, <1>3, <1>4, <1>5, <1>6

\* What the roots have to do with each other and with usage files.
LEMMA RootsApart ==
  ASSUME NEW s \in Scopes, NEW t \in Scopes
  PROVE  /\ IsPrefix(BaseRoot, Root(s))
         /\ IsPrefix(Root(s), UsageFile(s)) /\ IsPrefix(Root(s), Front(UsageFile(s)))
         /\ s # Base /\ IsPrefix(Root(s), UsageFile(t)) => s = t
         /\ s # Base /\ t # Base => \A p \in Path : IsPrefix(Root(s), p) /\ IsPrefix(Root(t), p) => s = t
<1>1. /\ Root(s) \in Path /\ Root(t) \in Path /\ BaseRoot \in Path
      /\ Len(BaseRoot) = 1 /\ BaseRoot[1] = "srv"
      /\ Len(Root(s)) \in Nat /\ Len(Root(t)) \in Nat
      /\ UsageFile(s) \in Path /\ UsageFile(t) \in Path
      /\ Len(UsageFile(s)) = Len(Root(s)) + 2 /\ Len(UsageFile(t)) = Len(Root(t)) + 2
      /\ Len(Root(s)) \in {1, 3} /\ Len(Root(t)) \in {1, 3}
      /\ Root(s)[1] = "srv"
  BY RootParts, UsageFileParts, PathLen
<1>2. IsPrefix(BaseRoot, Root(s))
  <2>1. Len(BaseRoot) <= Len(Root(s)) /\ \A i \in 1 .. Len(BaseRoot) : i = 1
    BY <1>1
  <2>2. \A i \in 1 .. Len(BaseRoot) : BaseRoot[i] = Root(s)[i]
    BY <1>1, <2>1
  <2> QED BY <1>1, <2>1, <2>2, PrefixDef
<1>3. IsPrefix(Root(s), UsageFile(s))
  BY <1>1, UsageFileParts, PrefixDef
<1>4. IsPrefix(Root(s), Front(UsageFile(s)))
  <2>1. Root(s) # UsageFile(s) /\ UsageFile(s) # <<>>
    BY <1>1, UsageFileParts
  <2> QED BY <1>1, <1>3, <2>1, FrontDef
<1>5. ASSUME s # Base, IsPrefix(Root(s), UsageFile(t)) PROVE s = t
  <2>1. /\ s \in Projects /\ Len(Root(s)) = 3 /\ Root(s)[2] = ".projects" /\ Root(s)[3] = s
    BY <1>5, RootParts
  <2>2. UsageFile(t)[2] = ".projects" /\ UsageFile(t)[3] = s
    <3>1. \A i \in 1 .. Len(Root(s)) : Root(s)[i] = UsageFile(t)[i]
      BY <1>1, <1>5, PrefixDef
    <3>2. 2 \in 1 .. Len(Root(s)) /\ 3 \in 1 .. Len(Root(s))
      BY <2>1
    <3> QED BY <2>1, <3>1, <3>2
  <2>3. t # Base
    <3> SUFFICES ASSUME t = Base PROVE FALSE
      OBVIOUS
    <3>1. Len(Root(t)) + 1 = 2
      <4>1. Root(t) = BaseRoot /\ Len(BaseRoot) = 1
        BY RootParts
      <4> QED BY <4>1
    <3>2. UsageFile(t)[2] = ".metadata"
      BY <3>1, UsageFileParts
    <3> QED BY <2>2, <3>2
  <2>4. Len(Root(t)) = 3 /\ Root(t)[3] = t
    BY <2>3, RootParts
  <2>5. UsageFile(t)[3] = t
    <3>1. 3 \in 1 .. Len(Root(t))
      BY <2>4
    <3> QED BY <2>4, <3>1, UsageFileParts
  <2> QED BY <2>2, <2>5
<1>6. ASSUME s # Base, t # Base, NEW p \in Path, IsPrefix(Root(s), p), IsPrefix(Root(t), p) PROVE s = t
  <2>1. Len(Root(s)) = 3 /\ Root(s)[3] = s /\ Len(Root(t)) = 3 /\ Root(t)[3] = t
    BY <1>6, RootParts
  <2>2. 3 \in 1 .. Len(Root(s)) /\ 3 \in 1 .. Len(Root(t))
    BY <2>1
  <2>3. Root(s)[3] = p[3]
    BY <1>1, <1>6, <2>2, PrefixDef
  <2>4. Root(t)[3] = p[3]
    BY <1>1, <1>6, <2>2, PrefixDef
  <2> QED BY <2>1, <2>3, <2>4
<1> QED BY <1>2, <1>3, <1>4, <1>5, <1>6

\* What is below a .metadata is in it.
LEMMA MetadataBelow ==
  ASSUME NEW p \in Path, NEW q \in Path, IsPrefix(p, q)
  PROVE  ContainsMetadata(p) => ContainsMetadata(q)
<1> SUFFICES ASSUME ContainsMetadata(p) PROVE ContainsMetadata(q)
  OBVIOUS
<1>1. BaseRoot \in Path /\ Len(BaseRoot) = 1
  BY WorkspaceAssumption DEF BaseRoot, Path
<1>2. IsPrefix(BaseRoot, p) /\ \E i \in 2 .. Len(p) : p[i] = ".metadata"
  BY <1>1 DEF ContainsMetadata
<1>3. IsPrefix(BaseRoot, q)
  BY <1>1, <1>2, PrefixOrder
<1>4. /\ Len(p) \in Nat /\ Len(q) \in Nat /\ Len(p) <= Len(q)
      /\ \A i \in 1 .. Len(p) : p[i] = q[i]
  BY PrefixDef, PathLen
<1>5. PICK i \in 2 .. Len(p) : p[i] = ".metadata"
  BY <1>2
<1>6. i \in 2 .. Len(q) /\ q[i] = ".metadata"
  BY <1>4, <1>5
<1> QED BY <1>1, <1>3, <1>6 DEF ContainsMetadata

LEMMA MetadataParts ==
  ASSUME NEW scope \in Scopes
  PROVE  ~ContainsMetadata(Root(scope)) /\ ContainsMetadata(Front(UsageFile(scope)))
         /\ Front(UsageFile(scope)) \in Path /\ Len(Front(UsageFile(scope))) = Len(Root(scope)) + 1
<1>1. BaseRoot \in Path /\ Len(BaseRoot) = 1
  BY WorkspaceAssumption DEF BaseRoot, Path
<1>2. ~ContainsMetadata(Root(scope))
  <2>1. CASE scope = Base
    BY <1>1, <2>1, RootParts DEF ContainsMetadata
  <2>2. CASE scope # Base
    <3>1. scope \in Projects /\ Len(Root(scope)) = 3 /\ Root(scope)[2] = ".projects" /\ Root(scope)[3] = scope
      BY <2>2, RootParts
    <3>2. scope # ".metadata"
      BY <3>1, WorkspaceAssumption
    <3> QED BY <1>1, <3>1, <3>2 DEF ContainsMetadata
  <2> QED BY <2>1, <2>2
<1>3. /\ Root(scope) \in Path /\ Len(Root(scope)) \in {1, 3}
      /\ UsageFile(scope) \in Path /\ Len(UsageFile(scope)) = Len(Root(scope)) + 2
      /\ UsageFile(scope)[Len(Root(scope)) + 1] = ".metadata"
      /\ UsageFile(scope) # <<>>
  BY RootParts, UsageFileParts
<1> DEFINE f == Front(UsageFile(scope))
<1>4. /\ f \in Path /\ Len(f) = Len(Root(scope)) + 1
      /\ f[Len(Root(scope)) + 1] = ".metadata"
  BY <1>3, FrontDef
<1>5. IsPrefix(BaseRoot, f)
  BY <1>1, <1>3, <1>4, RootsApart, PrefixOrder
<1> HIDE DEF f
<1>6. ".metadata" \in {f[i] : i \in 2 .. Len(f)}
  BY <1>3, <1>4
<1>7. ContainsMetadata(f)
  BY <1>1, <1>5, <1>6 DEF ContainsMetadata
<1> QED BY <1>2, <1>4, <1>7 DEF f
-----------------------------------------------------------------------------
(* Requests.                                                               *)

LEMMA NormalisedType ==
  ASSUME NEW p \in Path, NEW part \in STRING
  PROVE  Normalised(p, part) \in Path
<1>1. <<>> \in Path /\ Append(p, part) \in Path
  BY EmptySeq, AppendProperties DEF Path
<1>2. p # <<>> => Front(p) \in Path
  BY FrontDef
<1> HIDE DEF Path
<1> QED BY <1>1, <1>2 DEF Normalised

LEMMA ResolveType ==
  ASSUME NEW scope \in Scopes, NEW request \in Path
  PROVE  Resolve(scope, request) \in Path
<1> DEFINE Steps(f, m) ==
      f = [i \in 0 .. m |-> IF i = 0 THEN Root(scope) ELSE Normalised(f[i - 1], request[i])]
    T == {m \in Nat : \E f : Steps(f, m)}
    path == CHOOSE f : Steps(f, Len(request))
<1>1. Nat \subseteq T
  <2>1. 0 \in T
    <3>1. \A i \in 0 .. 0 : i = 0
      OBVIOUS
    <3>2. Steps([i \in 0 .. 0 |-> Root(scope)], 0)
      BY <3>1
    <3> QED BY <3>2
  <2>2. ASSUME NEW n \in Nat, n \in T PROVE n + 1 \in T
    <3>1. PICK f : Steps(f, n)
      BY <2>2
    <3> DEFINE g == [i \in 0 .. n + 1 |->
                       IF i = n + 1 THEN Normalised(f[n], request[n + 1]) ELSE f[i]]
    <3>2. ASSUME NEW i \in 0 .. n + 1
          PROVE  g[i] = IF i = 0 THEN Root(scope) ELSE Normalised(g[i - 1], request[i])
      <4>1. CASE i = 0
        <5>1. g[i] = f[i] /\ i \in 0 .. n
          BY <4>1
        <5> QED BY <3>1, <4>1, <5>1
      <4>2. CASE i = n + 1
        <5>1. g[i] = Normalised(f[n], request[n + 1]) /\ i # 0 /\ i - 1 = n
          BY <4>2
        <5>2. n \in 0 .. n + 1 /\ n # n + 1
          OBVIOUS
        <5>3. g[n] = f[n]
          BY <5>2
        <5> QED BY <4>2, <5>1, <5>3
      <4>3. CASE i # 0 /\ i # n + 1
        <5>1. i \in 0 .. n /\ i - 1 \in 0 .. n + 1 /\ i - 1 # n + 1
          BY <4>3
        <5>2. g[i] = f[i] /\ g[i - 1] = f[i - 1]
          BY <4>3, <5>1
        <5>3. f[i] = Normalised(f[i - 1], request[i])
          BY <3>1, <4>3, <5>1
        <5> QED BY <4>3, <5>2, <5>3
      <4> QED BY <4>1, <4>2, <4>3
    <3>3. Steps(g, n + 1)
      BY <3>2
    <3> HIDE DEF g, Steps
    <3>4. n + 1 \in Nat
      OBVIOUS
    <3> QED BY <3>3, <3>4
  <2> HIDE DEF T
  <2> QED BY <2>1, <2>2, Induction
<1>2. Len(request) \in Nat /\ \A i \in 1 .. Len(request) : request[i] \in STRING
  BY PathLen
<1>3. Steps(path, Len(request))
  BY <1>1, <1>2
<1>4. Resolve(scope, request) = path[Len(request)]
  BY DEF Resolve
<1> HIDE DEF path
<1>5. path[0] = Root(scope)
  <2>1. 0 \in 0 .. Len(request)
    BY <1>2
  <2> QED BY <1>3, <2>1
<1>6. ASSUME NEW i \in 1 .. Len(request) PROVE path[i] = Normalised(path[i - 1], request[i])
  <2>1. i \in 0 .. Len(request) /\ i # 0
    BY <1>2
  <2> QED BY <1>3, <2>1
<1> DEFINE U == {i \in Nat : i <= Len(request) => path[i] \in Path}
<1>7. Nat \subseteq U
  <2>1. 0 \in U
    BY <1>5, RootParts
  <2>2. ASSUME NEW n \in Nat, n \in U PROVE n + 1 \in U
    <3> SUFFICES ASSUME n + 1 <= Len(request) PROVE path[n + 1] \in Path
      OBVIOUS
    <3>1. n + 1 \in 1 .. Len(request) /\ n + 1 - 1 = n /\ path[n] \in Path
      BY <1>2, <2>2
    <3>2. path[n + 1] = Normalised(path[n], request[n + 1])
      BY <1>6, <3>1
    <3> QED BY <1>2, <3>1, <3>2, NormalisedType
  <2> HIDE DEF U
  <2> QED BY <2>1, <2>2, Induction
<1> QED BY <1>2, <1>4, <1>7
-----------------------------------------------------------------------------
(* Disks.  Every disk a call passes through is a tree: closed upwards, its *)
(* files outside .metadata, and every usage.json in a directory, within    *)
(* the hard limit.                                                         *)

Shape(d) == d = [dirs |-> d.dirs, files |-> d.files, usage |-> d.usage]

Nodes(d) ==
  /\ d.dirs \subseteq Path /\ IsFiniteSet(d.dirs)
  /\ DOMAIN d.files \subseteq Path /\ IsFiniteSet(DOMAIN d.files)
  /\ \A p \in DOMAIN d.files : d.files[p] \in Path

Upwards(d) == \A p \in d.dirs \cup DOMAIN d.files : p # <<>> => Front(p) \in d.dirs

FilesOutside(d) ==
  \A p \in DOMAIN d.files : p \notin d.dirs /\ IsPrefix(BaseRoot, p) /\ ~ContainsMetadata(p)

Ledgers(d) ==
  /\ DOMAIN d.usage \subseteq Scopes /\ IsFiniteSet(DOMAIN d.usage)
  /\ \A s \in DOMAIN d.usage :
       /\ d.usage[s] \in Nat /\ Front(UsageFile(s)) \in d.dirs
       /\ HardLimit # NoLimit => d.usage[s] <= HardLimit

IsTree(d) == Shape(d) /\ Nodes(d) /\ Upwards(d) /\ FilesOutside(d) /\ Ledgers(d)

\* The directories above what is there are there.
LEMMA Ancestors ==
  ASSUME NEW d, Nodes(d), Upwards(d), NEW p \in d.dirs \cup DOMAIN d.files,
         NEW q \in Path, IsPrefix(q, p)
  PROVE  q \in d.dirs \/ q = p
<1> DEFINE T == {n \in Nat : \A r \in d.dirs \cup DOMAIN d.files :
                               Len(r) = n /\ IsPrefix(q, r) => q \in d.dirs \/ q = r}
<1>1. \A r \in d.dirs \cup DOMAIN d.files : r \in Path
  BY DEF Nodes
<1>2. 0 \in T
  <2> SUFFICES ASSUME NEW r \in d.dirs \cup DOMAIN d.files, Len(r) = 0, IsPrefix(q, r) PROVE q = r
    OBVIOUS
  <2>1. Len(q) \in Nat /\ Len(q) <= 0
    BY <1>1, PrefixDef, PathLen
  <2>2. Len(q) = Len(r) /\ \A i \in 1 .. Len(q) : q[i] = r[i]
    BY <2>1
  <2> QED BY <1>1, <2>2, SamePath
<1>3. ASSUME NEW n \in Nat, n \in T PROVE n + 1 \in T
  <2> SUFFICES ASSUME NEW r \in d.dirs \cup DOMAIN d.files, Len(r) = n + 1, IsPrefix(q, r), q # r
               PROVE  q \in d.dirs
    OBVIOUS
  <2>1. r \in Path /\ r # <<>>
    <3>1. Len(r) # 0
      OBVIOUS
    <3> QED BY <1>1, <3>1
  <2>2. Front(r) \in d.dirs
    BY <2>1 DEF Upwards
  <2>3. Len(Front(r)) = n /\ IsPrefix(q, Front(r))
    BY <2>1, FrontDef
  <2> QED BY <1>3, <2>2, <2>3
<1>4. Len(p) \in Nat
  BY <1>1, PathLen
<1>5. Nat \subseteq T
  <2> HIDE DEF T
  <2> QED BY <1>2, <1>3, Induction
<1> QED BY <1>4, <1>5

LEMMA PrefixesFinite == ASSUME NEW p \in Path PROVE IsFiniteSet(Prefixes(p))
<1>1. Len(p) \in Nat
  BY PathLen
<1> DEFINE f == [n \in 0 .. Len(p) |-> SubSeq(p, 1, n)]
<1>2. f \in Surjection(0 .. Len(p), Prefixes(p))
  BY DEF Prefixes, Surjection
<1>3. IsFiniteSet(0 .. Len(p))
  BY <1>1, FS_Interval
<1> QED BY <1>2, <1>3, FS_Surjection

\* mkdir
LEMMA MkdirTree ==
  ASSUME NEW d, IsTree(d), NEW path \in Path, CanMkdir(d, path)
  PROVE  /\ Mkdir(d, path) = [dirs |-> d.dirs \cup Prefixes(path), files |-> d.files, usage |-> d.usage]
         /\ IsTree(Mkdir(d, path)) /\ path \in Mkdir(d, path).dirs
<1> DEFINE e == [dirs |-> d.dirs \cup Prefixes(path), files |-> d.files, usage |-> d.usage]
<1>1. Mkdir(d, path) = e
  BY DEF IsTree, Shape, Mkdir
<1>2. Prefixes(path) \subseteq Path /\ path \in Prefixes(path)
  BY PrefixesDef, PrefixOrder
<1>3. /\ e.dirs = d.dirs \cup Prefixes(path) /\ e.files = d.files /\ e.usage = d.usage
      /\ Shape(e)
  BY DEF Shape
<1> HIDE DEF e
<1>4. Nodes(e)
  BY <1>2, <1>3, PrefixesFinite, FS_Union DEF IsTree, Nodes
<1>5. Upwards(e)
  <2> SUFFICES ASSUME NEW p \in e.dirs \cup DOMAIN e.files, p # <<>> PROVE Front(p) \in e.dirs
    BY DEF Upwards
  <2>1. CASE p \in d.dirs \cup DOMAIN d.files
    BY <1>3, <2>1 DEF IsTree, Upwards
  <2>2. CASE p \in Prefixes(path)
    <3>1. p \in Path /\ IsPrefix(p, path)
      BY <2>2, PrefixesDef
    <3>2. Front(p) \in Path /\ IsPrefix(Front(p), path)
      BY <3>1, FrontDef, PrefixOrder
    <3> QED BY <1>3, <3>2, PrefixesDef
  <2> QED BY <1>3, <2>1, <2>2
<1>6. FilesOutside(e)
  BY <1>3 DEF IsTree, FilesOutside, CanMkdir
<1>7. Ledgers(e)
  BY <1>3 DEF IsTree, Ledgers
<1> QED BY <1>1, <1>2, <1>3, <1>4, <1>5, <1>6, <1>7 DEF IsTree, e
\* What is above usage.json.
LEMMA AboveUsageFile ==
  ASSUME NEW scope \in Scopes, NEW q \in Path
  PROVE  /\ IsPrefix(q, Front(UsageFile(scope))) => IsPrefix(q, Root(scope)) \/ ContainsMetadata(q)
         /\ IsPrefix(q, UsageFile(scope)) => IsPrefix(q, Root(scope)) \/ ContainsMetadata(q)
<1> DEFINE f == Front(UsageFile(scope))
           u == UsageFile(scope)
<1>1. /\ f \in Path /\ ContainsMetadata(f) /\ Len(f) = Len(Root(scope)) + 1
      /\ u \in Path /\ u # <<>> /\ Root(scope) \in Path /\ Len(Root(scope)) \in Nat
  BY MetadataParts, UsageFileParts, RootParts, PathLen
<1>2. IsPrefix(f, u) /\ IsPrefix(Root(scope), f) /\ (IsPrefix(q, u) => q = u \/ IsPrefix(q, f))
  BY <1>1, FrontDef, RootsApart
<1>3. ContainsMetadata(u)
  BY <1>1, <1>2, MetadataBelow
<1>4. f # <<>> /\ Front(f) \in Path /\ Len(Front(f)) = Len(Root(scope))
      /\ IsPrefix(Front(f), f) /\ (IsPrefix(q, f) => q = f \/ IsPrefix(q, Front(f)))
  <2>1. Len(f) # 0
    BY <1>1
  <2>2. f # <<>>
    BY <2>1
  <2> QED BY <1>1, <2>2, FrontDef
<1>5. Front(f) = Root(scope)
  <2>1. IsPrefix(Front(f), Root(scope)) \/ IsPrefix(Root(scope), Front(f))
    BY <1>1, <1>2, <1>4, PrefixOrder
  <2>2. \A i \in 1 .. Len(Root(scope)) : Front(f)[i] = Root(scope)[i]
    BY <1>1, <1>4, <2>1, PrefixDef
  <2> QED BY <1>1, <1>4, <2>2, SamePath
<1>6. IsPrefix(q, f) => IsPrefix(q, Root(scope)) \/ ContainsMetadata(q)
  BY <1>1, <1>4, <1>5
<1>7. IsPrefix(q, u) => IsPrefix(q, Root(scope)) \/ ContainsMetadata(q)
  BY <1>2, <1>3, <1>6
<1> QED BY <1>6, <1>7

\* _load_usage
LEMMA LoadTree ==
  ASSUME NEW d, IsTree(d), NEW scope \in Scopes, CanMkdir(d, Root(scope))
  PROVE  LET e == Load(d, scope) IN
         /\ IsTree(e) /\ e.files = d.files /\ d.dirs \subseteq e.dirs
         /\ Root(scope) \in e.dirs /\ BaseRoot \in e.dirs
         /\ \A p \in e.dirs \ d.dirs : IsPrefix(p, Root(scope)) \/ ContainsMetadata(p)
         /\ DOMAIN e.usage = DOMAIN d.usage \cup {scope}
         /\ \A s \in DOMAIN d.usage : e.usage[s] = d.usage[s]
         /\ scope \notin DOMAIN d.usage => e.usage[scope] = 0
<1> DEFINE f == Front(UsageFile(scope))
           m == Mkdir(d, f)
           e == Load(d, scope)
<1>1. f \in Path /\ ContainsMetadata(f) /\ IsPrefix(Root(scope), f) /\ Root(scope) \in Path
      /\ BaseRoot \in Path /\ IsPrefix(BaseRoot, Root(scope)) /\ f # <<>>
  <2>1. f \in Path /\ ContainsMetadata(f) /\ Len(f) = Len(Root(scope)) + 1
        /\ Root(scope) \in Path /\ Len(Root(scope)) \in Nat
    BY MetadataParts, RootParts, PathLen
  <2>2. Len(f) # 0
    BY <2>1
  <2>3. f # <<>>
    BY <2>2
  <2> QED BY <2>1, <2>3, RootsApart, RootParts
<1>2. CanMkdir(d, f)
  <2> SUFFICES ASSUME NEW q \in Prefixes(f), q \in DOMAIN d.files PROVE FALSE
    BY DEF CanMkdir
  <2>1. q \in Path /\ IsPrefix(q, f) /\ ~ContainsMetadata(q)
    BY <1>1, PrefixesDef DEF IsTree, FilesOutside
  <2>2. q \in Prefixes(Root(scope))
    BY <1>1, <2>1, AboveUsageFile, PrefixesDef
  <2> QED BY <2>2 DEF CanMkdir
<1>3. /\ m = [dirs |-> d.dirs \cup Prefixes(f), files |-> d.files, usage |-> d.usage]
      /\ IsTree(m) /\ f \in m.dirs
  BY <1>1, <1>2, MkdirTree
<1>4. ASSUME NEW t, IsTree(t), f \in t.dirs PROVE Root(scope) \in t.dirs /\ BaseRoot \in t.dirs
  <2>1. ASSUME NEW q \in Path, IsPrefix(q, f) PROVE q \in t.dirs
    BY <1>4, <2>1, Ancestors DEF IsTree
  <2> QED BY <1>1, <2>1, PrefixOrder
<1>5. CASE scope \in DOMAIN d.usage
  <2>1. e = d
    BY <1>5 DEF Load
  <2>2. f \in d.dirs
    BY <1>5 DEF IsTree, Ledgers
  <2>3. DOMAIN d.usage = DOMAIN d.usage \cup {scope}
    BY <1>5
  <2> HIDE DEF e, f
  <2> QED BY <1>4, <1>5, <2>1, <2>2, <2>3 DEF e
<1>6. CASE scope \notin DOMAIN d.usage
  <2> DEFINE use == [s \in DOMAIN d.usage \cup {scope} |-> IF s = scope THEN 0 ELSE d.usage[s]]
             r == [dirs |-> d.dirs \cup Prefixes(f), files |-> d.files, usage |-> use]
  <2>1. e = r
    BY <1>3, <1>6 DEF Load
  <2>2. r.dirs = m.dirs /\ r.files = m.files /\ r.usage = use /\ Shape(r)
        /\ m.dirs = d.dirs \cup Prefixes(f) /\ m.files = d.files
    BY <1>3 DEF Shape
  <2>3. \A s \in DOMAIN d.usage : use[s] = d.usage[s]
    BY <1>6
  <2>4. DOMAIN use = DOMAIN d.usage \cup {scope} /\ use[scope] = 0
    OBVIOUS
  <2> HIDE DEF use, r
  <2>5. Nodes(r) /\ Upwards(r) /\ FilesOutside(r)
    BY <1>3, <2>2 DEF IsTree, Nodes, Upwards, FilesOutside
  <2>6. Ledgers(r)
    <3>0. IsFiniteSet(DOMAIN d.usage \cup {scope})
      BY FS_AddElement DEF IsTree, Ledgers
    <3> SUFFICES ASSUME NEW s \in DOMAIN d.usage \cup {scope}
                 PROVE  /\ s \in Scopes /\ use[s] \in Nat /\ Front(UsageFile(s)) \in m.dirs
                        /\ HardLimit # NoLimit => use[s] <= HardLimit
      BY <2>2, <2>4, <3>0 DEF Ledgers
    <3>1. CASE s = scope
      BY <1>3, <2>4, <3>1, HardLimitAssumption
    <3>2. CASE s # scope
      <4>1. s \in DOMAIN d.usage /\ use[s] = d.usage[s]
        BY <2>3, <3>2
      <4> QED BY <2>2, <4>1 DEF IsTree, Ledgers
    <3> QED BY <3>1, <3>2
  <2>7. IsTree(r)
    BY <2>2, <2>5, <2>6 DEF IsTree
  <2>8. Root(scope) \in r.dirs /\ BaseRoot \in r.dirs
    BY <1>3, <1>4, <2>2, <2>7
  <2>9. \A p \in r.dirs \ d.dirs : IsPrefix(p, Root(scope)) \/ ContainsMetadata(p)
    BY <1>1, <2>2, AboveUsageFile, PrefixesDef
  <2> HIDE DEF e
  <2> QED BY <2>1, <2>2, <2>3, <2>4, <2>7, <2>8, <2>9 DEF e
<1> QED BY <1>5, <1>6
\* record_usage_delta, of a change enforce_quota let pass or of one that frees bytes
LEMMA RecordTree ==
  ASSUME NEW d, IsTree(d), NEW scope \in Scopes, CanMkdir(d, Root(scope)), NEW delta \in Int,
         FitsIn(d, scope, delta) \/ delta <= 0
  PROVE  LET e == Load(d, scope)
             r == Record(d, scope, delta)
         IN
         /\ IsTree(r) /\ r.files = d.files /\ r.dirs = e.dirs
         /\ DOMAIN r.usage = DOMAIN d.usage \cup {scope}
         /\ \A s \in DOMAIN d.usage \ {scope} : r.usage[s] = d.usage[s]
         /\ r.usage[scope] = AtLeastZero(e.usage[scope] + delta)
<1> DEFINE e == Load(d, scope)
           use == [e.usage EXCEPT ![scope] = AtLeastZero(@ + delta)]
           r == [dirs |-> e.dirs, files |-> e.files, usage |-> use]
<1>1. /\ IsTree(e) /\ e.files = d.files
      /\ DOMAIN e.usage = DOMAIN d.usage \cup {scope}
      /\ \A s \in DOMAIN d.usage : e.usage[s] = d.usage[s]
  BY LoadTree
<1>2. FitsIn(d, scope, delta) <=> Fits(e.usage[scope], delta)
  BY DEF FitsIn
<1> HIDE DEF e
<1>3. Record(d, scope, delta) = r
  BY <1>1 DEF Record, e, IsTree, Shape
<1>4. /\ DOMAIN use = DOMAIN e.usage /\ use[scope] = AtLeastZero(e.usage[scope] + delta)
      /\ \A s \in DOMAIN e.usage \ {scope} : use[s] = e.usage[s]
  BY <1>1
<1>5. r.dirs = e.dirs /\ r.files = e.files /\ r.usage = use /\ Shape(r)
  BY DEF Shape
<1> HIDE DEF use, r
<1>6. Nodes(r) /\ Upwards(r) /\ FilesOutside(r)
  BY <1>1, <1>5 DEF IsTree, Nodes, Upwards, FilesOutside
<1>7. Ledgers(r)
  <2> SUFFICES ASSUME NEW s \in DOMAIN e.usage
               PROVE  /\ s \in Scopes /\ use[s] \in Nat /\ Front(UsageFile(s)) \in e.dirs
                      /\ HardLimit # NoLimit => use[s] <= HardLimit
    BY <1>1, <1>4, <1>5 DEF IsTree, Ledgers
  <2>1. /\ s \in Scopes /\ e.usage[s] \in Nat /\ Front(UsageFile(s)) \in e.dirs
        /\ HardLimit # NoLimit => e.usage[s] <= HardLimit
    BY <1>1 DEF IsTree, Ledgers
  <2>2. CASE s # scope
    BY <1>4, <2>1, <2>2
  <2>3. CASE s = scope
    <3>1. use[s] = AtLeastZero(e.usage[s] + delta)
      BY <1>4, <2>3
    <3>2. use[s] \in Nat
      BY <2>1, <3>1 DEF AtLeastZero
    <3>3. ASSUME HardLimit # NoLimit PROVE use[s] <= HardLimit
      <4>1. HardLimit \in Nat /\ e.usage[s] <= HardLimit
        BY <2>1, <3>3, HardLimitAssumption
      <4>2. CASE delta <= 0
        BY <2>1, <3>1, <4>1, <4>2 DEF AtLeastZero
      <4>3. CASE FitsIn(d, scope, delta)
        BY <1>2, <2>3, <3>1, <3>3, <4>3 DEF Fits
      <4> QED BY <4>2, <4>3
    <3> QED BY <2>1, <3>2, <3>3
  <2> QED BY <2>2, <2>3
<1>8. IsTree(r)
  BY <1>5, <1>6, <1>7 DEF IsTree
<1> QED BY <1>1, <1>3, <1>4, <1>5, <1>8 DEF e

\* A file is written in a directory that is there.
LEMMA PutTree ==
  ASSUME NEW d, IsTree(d), NEW path \in Path, NEW text \in Path,
         path # <<>>, Front(path) \in d.dirs, path \notin d.dirs,
         IsPrefix(BaseRoot, path), ~ContainsMetadata(path)
  PROVE  LET e == Put(d, path, text) IN
         /\ IsTree(e) /\ e.dirs = d.dirs /\ e.usage = d.usage
         /\ DOMAIN e.files = DOMAIN d.files \cup {path} /\ e.files[path] = text
         /\ \A p \in DOMAIN d.files \ {path} : e.files[p] = d.files[p]
<1> DEFINE fs == [p \in DOMAIN d.files \cup {path} |-> IF p = path THEN text ELSE d.files[p]]
           e == [dirs |-> d.dirs, files |-> fs, usage |-> d.usage]
<1>1. Put(d, path, text) = e
  BY DEF Put, IsTree, Shape
<1>2. /\ DOMAIN fs = DOMAIN d.files \cup {path} /\ fs[path] = text
      /\ \A p \in DOMAIN d.files \ {path} : fs[p] = d.files[p]
  OBVIOUS
<1>3. e.dirs = d.dirs /\ e.files = fs /\ e.usage = d.usage /\ Shape(e)
  BY DEF Shape
<1> HIDE DEF fs, e
<1>4. Nodes(e)
  BY <1>2, <1>3, FS_AddElement DEF IsTree, Nodes
<1>5. Upwards(e) /\ FilesOutside(e) /\ Ledgers(e)
  BY <1>2, <1>3 DEF IsTree, Upwards, FilesOutside, Ledgers
<1> QED BY <1>1, <1>2, <1>3, <1>4, <1>5 DEF IsTree

LEMMA UnlinkTree ==
  ASSUME NEW d, IsTree(d), NEW path \in Path
  PROVE  LET e == Unlink(d, path) IN
         /\ IsTree(e) /\ e.dirs = d.dirs /\ e.usage = d.usage
         /\ DOMAIN e.files = DOMAIN d.files \ {path}
         /\ \A p \in DOMAIN d.files \ {path} : e.files[p] = d.files[p]
<1> DEFINE fs == [p \in DOMAIN d.files \ {path} |-> d.files[p]]
           e == [dirs |-> d.dirs, files |-> fs, usage |-> d.usage]
<1>1. Unlink(d, path) = e
  BY DEF Unlink, Restrict, IsTree, Shape
<1>2. DOMAIN fs = DOMAIN d.files \ {path} /\ \A p \in DOMAIN d.files \ {path} : fs[p] = d.files[p]
  OBVIOUS
<1>3. e.dirs = d.dirs /\ e.files = fs /\ e.usage = d.usage /\ Shape(e)
  BY DEF Shape
<1> HIDE DEF fs, e
<1>4. Nodes(e)
  BY <1>2, <1>3, FS_RemoveElement DEF IsTree, Nodes
<1>5. Upwards(e) /\ FilesOutside(e) /\ Ledgers(e)
  BY <1>2, <1>3 DEF IsTree, Upwards, FilesOutside, Ledgers
<1> QED BY <1>1, <1>2, <1>3, <1>4, <1>5 DEF IsTree

\* _delete_tree
LEMMA DeleteTreeTree ==
  ASSUME NEW d, IsTree(d), NEW path \in Path, path # <<>>
  PROVE  LET e == DeleteTree(d, path) IN
         /\ IsTree(e) /\ e.dirs = {p \in d.dirs : ~IsPrefix(path, p)}
         /\ DOMAIN e.files = {p \in DOMAIN d.files : ~IsPrefix(path, p)}
         /\ \A p \in DOMAIN e.files : e.files[p] = d.files[p]
         /\ DOMAIN e.usage = {s \in DOMAIN d.usage : ~IsPrefix(path, UsageFile(s))}
         /\ \A s \in DOMAIN e.usage : e.usage[s] = d.usage[s]
<1> DEFINE ds == {p \in d.dirs : ~IsPrefix(path, p)}
           kept == {p \in DOMAIN d.files : ~IsPrefix(path, p)}
           fs == [p \in kept |-> d.files[p]]
           ss == {s \in DOMAIN d.usage : ~IsPrefix(path, UsageFile(s))}
           use == [s \in ss |-> d.usage[s]]
           e == [dirs |-> ds, files |-> fs, usage |-> use]
<1>1. DeleteTree(d, path) = e
  <2>1. DOMAIN d.usage \ UsageFilesBelow(d, path) = ss
    BY DEF UsageFilesBelow
  <2> HIDE DEF ss
  <2>2. Restrict(d.usage, DOMAIN d.usage \ UsageFilesBelow(d, path)) = use
    BY <2>1 DEF Restrict
  <2>3. RestrictDomain(d.files, LAMBDA p : ~IsPrefix(path, p)) = fs
    BY DEF RestrictDomain, Restrict
  <2> QED BY <2>2, <2>3 DEF DeleteTree
<1>2. DOMAIN fs = kept /\ \A p \in kept : fs[p] = d.files[p]
  OBVIOUS
<1>3. DOMAIN use = ss /\ \A s \in ss : use[s] = d.usage[s]
  OBVIOUS
<1>4. e.dirs = ds /\ e.files = fs /\ e.usage = use /\ Shape(e)
  BY DEF Shape
<1> HIDE DEF fs, use, e
<1>5. Nodes(e)
  <2>1. kept \subseteq DOMAIN d.files /\ ds \subseteq d.dirs
    OBVIOUS
  <2>2. IsFiniteSet(ds) /\ IsFiniteSet(kept)
    BY <2>1, FS_Subset DEF IsTree, Nodes
  <2> HIDE DEF ds, kept
  <2> QED BY <1>2, <1>4, <2>1, <2>2 DEF IsTree, Nodes
<1>6. Upwards(e)
  <2> SUFFICES ASSUME NEW p \in ds \cup kept, p # <<>> PROVE Front(p) \in ds
    BY <1>2, <1>4 DEF Upwards
  <2>1. Front(p) \in d.dirs /\ p \in Path
    BY DEF IsTree, Upwards, Nodes
  <2>2. Front(p) \in Path /\ IsPrefix(Front(p), p)
    BY <2>1, FrontDef
  <2> QED BY <2>1, <2>2, PrefixOrder
<1>7. FilesOutside(e)
  BY <1>2, <1>4 DEF IsTree, FilesOutside
<1>8. Ledgers(e)
  <2>0. IsFiniteSet(ss)
    <3>1. ss \subseteq DOMAIN d.usage
      OBVIOUS
    <3> QED BY <3>1, FS_Subset DEF IsTree, Ledgers
  <2> SUFFICES ASSUME NEW s \in ss
               PROVE  /\ s \in Scopes /\ d.usage[s] \in Nat /\ Front(UsageFile(s)) \in ds
                      /\ HardLimit # NoLimit => d.usage[s] <= HardLimit
    BY <1>3, <1>4, <2>0 DEF Ledgers
  <2>1. /\ s \in Scopes /\ d.usage[s] \in Nat /\ Front(UsageFile(s)) \in d.dirs
        /\ HardLimit # NoLimit => d.usage[s] <= HardLimit
    BY DEF IsTree, Ledgers
  <2>2. /\ Front(UsageFile(s)) \in Path /\ UsageFile(s) \in Path
        /\ IsPrefix(Front(UsageFile(s)), UsageFile(s))
    BY <2>1, UsageFileParts, FrontDef
  <2> QED BY <2>1, <2>2, PrefixOrder
<1> QED BY <1>1, <1>2, <1>3, <1>4, <1>5, <1>6, <1>7, <1>8 DEF IsTree
-----------------------------------------------------------------------------
(* Ledgers.  Every file below the base root is charged to one scope: the   *)
(* project it is in, or else the base.                                     *)

Size(d, p) == IF p \in DOMAIN d.files THEN Len(d.files[p]) ELSE 0

Mine(s, p) ==
  /\ IsStrictPrefix(Root(s), p)
  /\ s = Base => \A id \in Projects : ~IsStrictPrefix(ProjectRoot(id), p)

Own(d, s) == {p \in DOMAIN d.files : Mine(s, p)}

Used(d, s) == IF s \in DOMAIN d.usage THEN d.usage[s] ELSE 0

Exact(d) == \A s \in Scopes : Used(d, s) = Bytes(d, Own(d, s))

\* The file p, or that there is none, is the same on both disks.
Same(d, e, p) ==
  /\ p \in DOMAIN d.files <=> p \in DOMAIN e.files
  /\ p \in DOMAIN d.files => e.files[p] = d.files[p]

LEMMA MineOnce ==
  ASSUME NEW s \in Scopes, NEW t \in Scopes, NEW p \in Path, Mine(s, p), Mine(t, p)
  PROVE  s = t
<1>1. ASSUME NEW u \in Scopes, u # Base, Mine(Base, p), Mine(u, p) PROVE FALSE
  <2>1. u \in Projects /\ Root(u) = ProjectRoot(u)
    BY <1>1, RootParts
  <2> QED BY <1>1, <2>1 DEF Mine
<1>2. s # Base /\ t # Base => s = t
  BY RootsApart DEF Mine, IsStrictPrefix
<1> QED BY <1>1, <1>2

LEMMA BytesNat ==
  ASSUME NEW d, IsTree(d), NEW U \in SUBSET DOMAIN d.files
  PROVE  /\ IsFiniteSet(U) /\ Bytes(d, U) \in Nat
         /\ \A p \in U : Size(d, p) \in Nat /\ Bytes(d, U) = Size(d, p) + Bytes(d, U \ {p})
         /\ \A V \in SUBSET DOMAIN d.files : U \cap V = {} =>
              Bytes(d, U \cup V) = Bytes(d, U) + Bytes(d, V)
<1> DEFINE w == [p \in DOMAIN d.files |-> Len(d.files[p])]
<1>1. ASSUME NEW V \in SUBSET DOMAIN d.files
      PROVE  IsFiniteSet(V) /\ Bytes(d, V) = SumFunctionOnSet(w, V)
  BY FS_Subset DEF IsTree, Nodes, Bytes
<1>2. ASSUME NEW p \in DOMAIN d.files PROVE w[p] \in Nat /\ Size(d, p) = w[p]
  BY PathLen DEF Size, IsTree, Nodes
<1> HIDE DEF w
<1>3. Bytes(d, U) \in Nat
  BY <1>1, <1>2, SumNat
<1>4. ASSUME NEW p \in U PROVE Size(d, p) \in Nat /\ Bytes(d, U) = Size(d, p) + Bytes(d, U \ {p})
  <2>1. IsFiniteSet(U) /\ \A x \in U : w[x] \in Nat
    BY <1>1, <1>2
  <2>2. SumFunctionOnSet(w, U) = w[p] + SumFunctionOnSet(w, U \ {p})
    BY <2>1, SumRemove
  <2>3. Bytes(d, U \ {p}) = SumFunctionOnSet(w, U \ {p})
    BY <1>1
  <2> QED BY <1>1, <1>2, <2>2, <2>3
<1>5. ASSUME NEW V \in SUBSET DOMAIN d.files, U \cap V = {}
      PROVE  Bytes(d, U \cup V) = Bytes(d, U) + Bytes(d, V)
  <2>1. IsFiniteSet(U) /\ IsFiniteSet(V) /\ \A x \in U \cup V : w[x] \in Nat
    BY <1>1, <1>2
  <2>2. SumFunctionOnSet(w, U \cup V) = SumFunctionOnSet(w, U) + SumFunctionOnSet(w, V)
    BY <1>5, <2>1, SumSplit
  <2>3. Bytes(d, U \cup V) = SumFunctionOnSet(w, U \cup V)
    BY <1>1
  <2> QED BY <1>1, <2>2, <2>3
<1> QED BY <1>1, <1>3, <1>4, <1>5

LEMMA BytesSame ==
  ASSUME NEW d, IsTree(d), NEW e, IsTree(e), NEW U \in SUBSET DOMAIN d.files,
         U \subseteq DOMAIN e.files, \A p \in U : e.files[p] = d.files[p]
  PROVE  Bytes(e, U) = Bytes(d, U)
<1> DEFINE v == [p \in DOMAIN d.files |-> Len(d.files[p])]
           w == [p \in DOMAIN e.files |-> Len(e.files[p])]
<1>1. IsFiniteSet(U)
  BY BytesNat
<1>2. \A p \in U : w[p] = v[p]
  OBVIOUS
<1>3. Bytes(d, U) = SumFunctionOnSet(v, U) /\ Bytes(e, U) = SumFunctionOnSet(w, U)
  BY DEF Bytes
<1> HIDE DEF v, w
<1> QED BY <1>1, <1>2, <1>3, SumSame

\* One file changes: the ledger of the scope it belongs to.
LEMMA OneFile ==
  ASSUME NEW d, IsTree(d), NEW e, IsTree(e), NEW path \in Path, NEW scope \in Scopes,
         Mine(scope, path), \A p \in Path \ {path} : Same(d, e, p)
  PROVE  /\ Bytes(e, Own(e, scope)) = Bytes(d, Own(d, scope)) + Size(e, path) - Size(d, path)
         /\ \A t \in Scopes \ {scope} : Bytes(e, Own(e, t)) = Bytes(d, Own(d, t))
<1> DEFINE rest == Own(d, scope) \ {path}
<1>1. DOMAIN d.files \subseteq Path /\ DOMAIN e.files \subseteq Path
  BY DEF IsTree, Nodes
<1>2. rest = Own(e, scope) \ {path} /\ \A p \in rest : e.files[p] = d.files[p]
  BY <1>1 DEF Own, Same
<1>3. Bytes(e, rest) = Bytes(d, rest)
  <2>1. rest \in SUBSET DOMAIN d.files /\ rest \subseteq DOMAIN e.files
    BY <1>2 DEF Own
  <2> HIDE DEF rest
  <2> QED BY <1>2, <2>1, BytesSame
<1>4. ASSUME NEW t, IsTree(t), Own(t, scope) \ {path} = rest
      PROVE  /\ Bytes(t, Own(t, scope)) = Size(t, path) + Bytes(t, rest)
             /\ Size(t, path) \in Nat /\ Bytes(t, rest) \in Nat
  <2>1. Own(t, scope) \in SUBSET DOMAIN t.files
    BY DEF Own
  <2>2. rest \in SUBSET DOMAIN t.files
    BY <1>4, <2>1
  <2> HIDE DEF rest
  <2>3. Bytes(t, rest) \in Nat
    BY <1>4, <2>2, BytesNat
  <2>4. CASE path \in DOMAIN t.files
    <3>1. path \in Own(t, scope)
      BY <2>4 DEF Own
    <3> QED BY <1>4, <2>1, <2>3, <3>1, BytesNat
  <2>5. CASE path \notin DOMAIN t.files
    <3>1. Own(t, scope) = rest
      BY <1>4, <2>1, <2>5
    <3>2. Size(t, path) = 0
      BY <2>5 DEF Size
    <3> QED BY <2>3, <3>1, <3>2
  <2> QED BY <2>4, <2>5
<1>5. Bytes(e, Own(e, scope)) = Bytes(d, Own(d, scope)) + Size(e, path) - Size(d, path)
  <2>1. /\ Bytes(d, Own(d, scope)) = Size(d, path) + Bytes(d, rest)
        /\ Size(d, path) \in Nat /\ Bytes(d, rest) \in Nat
    BY <1>4
  <2>2. /\ Bytes(e, Own(e, scope)) = Size(e, path) + Bytes(e, rest)
        /\ Size(e, path) \in Nat
    BY <1>2, <1>4
  <2> QED BY <1>3, <2>1, <2>2
<1>6. ASSUME NEW t \in Scopes \ {scope} PROVE Bytes(e, Own(e, t)) = Bytes(d, Own(d, t))
  <2>1. ~Mine(t, path)
    BY MineOnce
  <2>2. Own(e, t) = Own(d, t) /\ \A p \in Own(d, t) : e.files[p] = d.files[p]
    BY <1>1, <2>1 DEF Own, Same
  <2>3. Own(d, t) \in SUBSET DOMAIN d.files /\ Own(d, t) \subseteq DOMAIN e.files
    BY <2>2 DEF Own
  <2> QED BY <2>2, <2>3, BytesSame
<1> QED BY <1>5, <1>6

\* Nothing happens to a ledger unless its files do.
LEMMA ExactKept ==
  ASSUME NEW d, NEW e, e.files = d.files, \A s \in Scopes : Used(e, s) = Used(d, s), Exact(d)
  PROVE  Exact(e)
BY DEF Exact, Own, Bytes

\* A change of delta bytes is recorded.
LEMMA ExactRecorded ==
  ASSUME NEW d, IsTree(d), Exact(d), NEW e, IsTree(e),
         \A s \in Scopes : Used(e, s) = Used(d, s),
         NEW scope \in Scopes, CanMkdir(e, Root(scope)), NEW delta \in Int,
         FitsIn(e, scope, delta) \/ delta <= 0,
         Bytes(e, Own(e, scope)) = Bytes(d, Own(d, scope)) + delta,
         \A t \in Scopes \ {scope} : Bytes(e, Own(e, t)) = Bytes(d, Own(d, t))
  PROVE  Exact(Record(e, scope, delta))
<1> DEFINE r == Record(e, scope, delta)
           l == Load(e, scope)
<1>1. /\ r.files = e.files /\ DOMAIN r.usage = DOMAIN e.usage \cup {scope}
      /\ \A s \in DOMAIN e.usage \ {scope} : r.usage[s] = e.usage[s]
      /\ r.usage[scope] = AtLeastZero(l.usage[scope] + delta)
  BY RecordTree
<1>2. l.usage[scope] = Used(e, scope)
  BY LoadTree DEF Used
<1> HIDE DEF r, l
<1>3. \A s \in Scopes : Own(r, s) = Own(e, s) /\ Bytes(r, Own(r, s)) = Bytes(e, Own(e, s))
  BY <1>1 DEF Own, Bytes
<1>4. Used(r, scope) = Bytes(r, Own(r, scope))
  <2>1. Own(e, scope) \in SUBSET DOMAIN e.files
    BY DEF Own
  <2>2. Bytes(e, Own(e, scope)) \in Nat
    BY <2>1, BytesNat
  <2>3. Used(e, scope) + delta = Bytes(e, Own(e, scope))
    BY DEF Exact
  <2>4. r.usage[scope] = Bytes(e, Own(e, scope))
    BY <1>1, <1>2, <2>2, <2>3 DEF AtLeastZero
  <2> QED BY <1>1, <1>3, <2>4 DEF Used
<1>5. ASSUME NEW t \in Scopes \ {scope} PROVE Used(r, t) = Bytes(r, Own(r, t))
  <2>1. Used(r, t) = Used(e, t)
    BY <1>1 DEF Used
  <2> QED BY <1>3, <2>1 DEF Exact
<1> QED BY <1>4, <1>5 DEF Exact, r
-----------------------------------------------------------------------------
(* What a call may do to a disk: it changes files its caller may change,   *)
(* and no ledger but its caller's.                                         *)

Respects(scope, d, e) ==
  /\ \A p \in Path : Same(d, e, p) \/ MayChange(scope, p)
  /\ \A s \in DOMAIN d.usage : s \in DOMAIN e.usage /\ (s # scope => e.usage[s] = d.usage[s])

\* A disk a call of the scope leaves behind, that finds d and leaves the marks ms.
Leaves(scope, d, e, ms) ==
  /\ IsTree(e) /\ BaseRoot \in e.dirs
  /\ Respects(scope, d, e)
  /\ ms = {} /\ Exact(d) => Exact(e)

LEMMA RespectsAll ==
  ASSUME NEW scope, NEW a, NEW b, NEW c, Respects(scope, a, b), Respects(scope, b, c)
  PROVE  Respects(scope, a, c)
BY DEF Respects, Same

\* What a caller may change is below its root and in no .metadata.
LEMMA Target ==
  ASSUME NEW scope \in Scopes, NEW path \in Path, Resolvable(scope, path)
  PROVE  /\ IsPrefix(Root(scope), path) /\ IsPrefix(BaseRoot, path) /\ ~ContainsMetadata(path)
         /\ path # <<>> /\ Front(path) \in Path
         /\ path # Root(scope) /\ Crosses(scope, path) = {} => Mine(scope, path)
<1>1. IsPrefix(Root(scope), path) /\ ~ContainsMetadata(path)
  BY DEF Resolvable, WithinRoot
<1>2. IsPrefix(BaseRoot, path) /\ Len(BaseRoot) = 1 /\ BaseRoot \in Path
  BY <1>1, RootParts, RootsApart, PrefixOrder
<1>3. path # <<>>
  <2>1. Len(path) >= 1
    BY <1>2, PrefixDef
  <2> QED BY <2>1
<1>4. Front(path) \in Path
  BY <1>3, FrontDef
<1>5. ASSUME path # Root(scope), Crosses(scope, path) = {} PROVE Mine(scope, path)
  BY <1>1, <1>5 DEF Crosses, Mine, IsStrictPrefix
<1> QED BY <1>1, <1>2, <1>3, <1>4, <1>5

LEMMA RootFree ==
  ASSUME NEW d, IsTree(d), NEW scope \in Scopes, Root(scope) \in d.dirs
  PROVE  CanMkdir(d, Root(scope))
<1>1. Root(scope) \in Path
  BY RootParts
<1>2. Prefixes(Root(scope)) \subseteq d.dirs
  BY <1>1, PrefixesDef, Ancestors DEF IsTree
<1> QED BY <1>2 DEF CanMkdir, IsTree, FilesOutside

\* The quota is checked against the usage recorded so far.
LEMMA FitsUsed ==
  ASSUME NEW d, IsTree(d), NEW scope \in Scopes, CanMkdir(d, Root(scope)), NEW delta
  PROVE  FitsIn(d, scope, delta) <=> Fits(Used(d, scope), delta)
<1>1. Load(d, scope).usage[scope] = Used(d, scope)
  BY LoadTree DEF Used
<1> QED BY <1>1 DEF FitsIn

LEMMA LoadLeaves ==
  ASSUME NEW d, IsTree(d), NEW scope \in Scopes, Root(scope) \in d.dirs
  PROVE  LET e == Load(d, scope) IN
         /\ Leaves(scope, d, e, {}) /\ e.files = d.files /\ d.dirs \subseteq e.dirs
         /\ \A s \in Scopes : Used(e, s) = Used(d, s)
         /\ \A path \in Path : Resolvable(scope, path) /\ path \notin d.dirs => path \notin e.dirs
<1> DEFINE e == Load(d, scope)
<1>1. /\ IsTree(e) /\ e.files = d.files /\ d.dirs \subseteq e.dirs /\ BaseRoot \in e.dirs
      /\ \A p \in e.dirs \ d.dirs : IsPrefix(p, Root(scope)) \/ ContainsMetadata(p)
      /\ DOMAIN e.usage = DOMAIN d.usage \cup {scope}
      /\ \A s \in DOMAIN d.usage : e.usage[s] = d.usage[s]
      /\ scope \notin DOMAIN d.usage => e.usage[scope] = 0
  BY RootFree, LoadTree
<1> HIDE DEF e
<1>2. \A s \in Scopes : Used(e, s) = Used(d, s)
  BY <1>1 DEF Used
<1>3. Respects(scope, d, e)
  BY <1>1 DEF Respects, Same
<1>4. Exact(d) => Exact(e)
  BY <1>1, <1>2, ExactKept
<1>5. ASSUME NEW path \in Path, Resolvable(scope, path), path \notin d.dirs PROVE path \notin e.dirs
  <2>1. IsPrefix(Root(scope), path) /\ ~ContainsMetadata(path) /\ Root(scope) \in Path
    BY <1>5, Target, RootParts
  <2>2. ~IsPrefix(path, Root(scope))
    BY <1>5, <2>1, PrefixOrder
  <2> QED BY <1>1, <1>5, <2>1, <2>2
<1> QED BY <1>1, <1>2, <1>3, <1>4, <1>5 DEF Leaves, e

\* mkdir of the directory of a path
LEMMA MkdirLeaves ==
  ASSUME NEW d, IsTree(d), BaseRoot \in d.dirs, NEW scope, NEW path \in Path, CanMkdir(d, path)
  PROVE  LET e == Mkdir(d, path) IN
         /\ Leaves(scope, d, e, {}) /\ e.files = d.files /\ d.dirs \subseteq e.dirs /\ path \in e.dirs
         /\ e.usage = d.usage
         /\ \A p \in Path : p # <<>> /\ path = Front(p) /\ p \notin d.dirs => p \notin e.dirs
<1> DEFINE e == Mkdir(d, path)
<1>1. /\ IsTree(e) /\ path \in e.dirs
      /\ e.dirs = d.dirs \cup Prefixes(path) /\ e.files = d.files /\ e.usage = d.usage
  BY MkdirTree
<1> HIDE DEF e
<1>2. Respects(scope, d, e)
  BY <1>1 DEF Respects, Same
<1>3. Exact(d) => Exact(e)
  BY <1>1, ExactKept DEF Used
<1>4. ASSUME NEW p \in Path, p # <<>>, path = Front(p), p \notin d.dirs PROVE p \notin e.dirs
  <2>1. IsPrefix(Front(p), p) /\ Front(p) # p
    BY <1>4, FrontDef
  <2>2. ~IsPrefix(p, path)
    BY <1>4, <2>1, PrefixOrder
  <2> QED BY <1>1, <1>4, <2>2, PrefixesDef
<1> QED BY <1>1, <1>2, <1>3, <1>4 DEF Leaves, e

\* A change of one file, recorded.
LEMMA ChangeLeaves ==
  ASSUME NEW d, IsTree(d), NEW e, IsTree(e), e.dirs = d.dirs, e.usage = d.usage,
         NEW scope \in Scopes, Root(scope) \in d.dirs,
         NEW path \in Path, MayChange(scope, path), \A p \in Path \ {path} : Same(d, e, p),
         NEW delta \in Int, FitsIn(d, scope, delta) \/ delta <= 0,
         NEW ms, ms = {} => Mine(scope, path) /\ delta = Size(e, path) - Size(d, path)
  PROVE  LET r == Record(e, scope, delta) IN
         /\ Leaves(scope, d, r, ms) /\ d.dirs \subseteq r.dirs
         /\ \A p \in Path \ {path} : Same(d, r, p)
<1> DEFINE r == Record(e, scope, delta)
<1>1. CanMkdir(d, Root(scope)) /\ CanMkdir(e, Root(scope))
  BY RootFree
<1>2. FitsIn(e, scope, delta) \/ delta <= 0
  BY <1>1, FitsUsed DEF Used
<1>3. /\ IsTree(r) /\ r.files = e.files
      /\ DOMAIN r.usage = DOMAIN d.usage \cup {scope}
      /\ \A s \in DOMAIN d.usage \ {scope} : r.usage[s] = d.usage[s]
      /\ d.dirs \subseteq r.dirs /\ BaseRoot \in r.dirs
  BY <1>1, <1>2, RecordTree, LoadTree
<1>4. ms = {} /\ Exact(d) => Exact(r)
  <2> SUFFICES ASSUME ms = {}, Exact(d) PROVE Exact(r)
    OBVIOUS
  <2>1. Own(d, scope) \in SUBSET DOMAIN d.files
    BY DEF Own
  <2>2. Bytes(d, Own(d, scope)) \in Nat
    BY <2>1, BytesNat
  <2>3. Size(e, path) \in Nat /\ Size(d, path) \in Nat
    BY PathLen DEF Size, IsTree, Nodes
  <2>4. /\ Bytes(e, Own(e, scope)) = Bytes(d, Own(d, scope)) + delta
        /\ \A t \in Scopes \ {scope} : Bytes(e, Own(e, t)) = Bytes(d, Own(d, t))
    BY <2>2, <2>3, OneFile
  <2>5. \A s \in Scopes : Used(e, s) = Used(d, s)
    BY DEF Used
  <2> HIDE DEF r
  <2> QED BY <1>1, <1>2, <2>4, <2>5, ExactRecorded DEF r
<1> HIDE DEF r
<1>5. \A p \in Path \ {path} : Same(d, r, p)
  BY <1>3 DEF Same
<1>6. Respects(scope, d, r)
  BY <1>3, <1>5 DEF Respects
<1> QED BY <1>3, <1>4, <1>5, <1>6 DEF Leaves, r
-----------------------------------------------------------------------------
(* The invariant, and the calls that change one file or make a directory.  *)

TreeInv ==
  /\ IsTree(Disk) /\ BaseRoot \in dirs
  /\ last \in [scope : Scopes, tool : Tools]
  /\ marks \subseteq Marks
  /\ "stale" \in marks => "repeat" \in marks
  /\ marks = {} => Exact(Disk)

\* A call of the tool has returned.
Done(scope, tool) ==
  /\ Leaves(scope, Disk, Disk', marks')
  /\ last' = [scope |-> scope, tool |-> tool]
  /\ marks \subseteq marks' /\ marks' \subseteq Marks
  /\ "stale" \in marks' => "repeat" \in marks'

LEMMA Returned ==
  ASSUME TreeInv, NEW scope \in Scopes, NEW tool \in Tools, NEW e, NEW ms \in SUBSET Marks,
         Return(scope, tool, e, ms), Leaves(scope, Disk, e, ms),
         "stale" \in ms => "repeat" \in ms
  PROVE  Done(scope, tool) /\ Disk' = e
<1>1. e = [dirs |-> e.dirs, files |-> e.files, usage |-> e.usage]
  BY DEF Leaves, IsTree, Shape
<1>2. Disk' = e
  BY <1>1 DEF Return, Disk
<1>3. marks' = marks \cup ms /\ last' = [scope |-> scope, tool |-> tool]
  BY DEF Return
<1>4. Leaves(scope, Disk, e, marks')
  BY <1>3 DEF Leaves, TreeInv
<1> QED BY <1>2, <1>3, <1>4 DEF Done, TreeInv

LEMMA DiskParts == Disk.dirs = dirs /\ Disk.files = files /\ Disk.usage = usage
BY DEF Disk

LEMMA OpenRoot ==
  ASSUME TreeInv, NEW scope \in Scopes, Open(scope)
  PROVE  Root(scope) \in dirs
BY DEF TreeInv, Open, Root

LEMMA CrossesMarks == \A scope, path : Crosses(scope, path) \in SUBSET Marks /\ "stale" \notin Crosses(scope, path)
BY DEF Crosses, Marks

LEMMA CreateDirectoryStep ==
  ASSUME TreeInv, NEW scope \in Scopes, NEW request \in Path, CreateDirectory(scope, request)
  PROVE  Done(scope, "create_directory")
<1> DEFINE path == Resolve(scope, request)
<1>1. path \in Path
  BY ResolveType
<1>2. CanMkdir(Disk, path) /\ Return(scope, "create_directory", Mkdir(Disk, path), {})
  BY DEF CreateDirectory
<1> HIDE DEF path
<1>3. Leaves(scope, Disk, Mkdir(Disk, path), {})
  BY <1>1, <1>2, MkdirLeaves, DiskParts DEF TreeInv
<1> QED BY <1>2, <1>3, Returned DEF Tools

LEMMA CreateProjectStep ==
  ASSUME TreeInv, NEW id \in Projects, CreateProject(id)
  PROVE  Done(Base, "create_project")
<1>1. ProjectRoot(id) \in Path /\ Base \in Scopes
  BY RootParts, WorkspaceAssumption DEF Scopes
<1>2. CanMkdir(Disk, ProjectRoot(id)) /\ Return(Base, "create_project", Mkdir(Disk, ProjectRoot(id)), {})
  BY DEF CreateProject
<1>3. Leaves(Base, Disk, Mkdir(Disk, ProjectRoot(id)), {})
  BY <1>1, <1>2, MkdirLeaves, DiskParts DEF TreeInv
<1> QED BY <1>1, <1>2, <1>3, Returned DEF Tools

LEMMA DeleteFileStep ==
  ASSUME TreeInv, NEW scope \in Scopes, NEW request \in Path, DeleteFile(scope, request)
  PROVE  Done(scope, "delete_file")
<1> DEFINE path == Resolve(scope, request)
           e == Unlink(Disk, path)
           delta == - Len(files[path])
           ms == Crosses(scope, path)
<1>1. path \in Path
  BY ResolveType
<1>2. /\ Open(scope) /\ MayChange(scope, path) /\ path \in DOMAIN files
      /\ Return(scope, "delete_file", Record(e, scope, delta), ms)
  BY DEF DeleteFile
<1> HIDE DEF path
<1>3. /\ IsTree(e) /\ e.dirs = Disk.dirs /\ e.usage = Disk.usage
      /\ DOMAIN e.files = DOMAIN files \ {path}
      /\ \A p \in DOMAIN files \ {path} : e.files[p] = files[p]
  BY <1>1, UnlinkTree, DiskParts DEF TreeInv
<1> HIDE DEF e
<1>4. \A p \in Path \ {path} : Same(Disk, e, p)
  BY <1>3, DiskParts DEF Same
<1>5. Len(files[path]) \in Nat
  BY <1>2, PathLen, DiskParts DEF TreeInv, IsTree, Nodes
<1>6. delta \in Int /\ delta <= 0 /\ delta = Size(e, path) - Size(Disk, path)
  BY <1>2, <1>3, <1>5, DiskParts DEF Size
<1>7. Root(scope) \in dirs /\ path # Root(scope)
  BY <1>2, OpenRoot, DiskParts DEF TreeInv, IsTree, FilesOutside
<1>8. ms = {} => Mine(scope, path)
  BY <1>1, <1>2, <1>7, Target DEF MayChange
<1> HIDE DEF delta, ms
<1>9. Leaves(scope, Disk, Record(e, scope, delta), ms)
  BY <1>1, <1>2, <1>3, <1>4, <1>6, <1>7, <1>8, ChangeLeaves, DiskParts DEF TreeInv
<1>10. ms \in SUBSET Marks /\ "stale" \notin ms
  BY CrossesMarks DEF ms
<1> QED BY <1>2, <1>9, <1>10, Returned DEF Tools

LEMMA WriteFileStep ==
  ASSUME TreeInv, NEW scope \in Scopes, NEW request \in Path, NEW text \in Path,
         NEW append \in BOOLEAN, WriteFile(scope, request, text, append)
  PROVE  Done(scope, "write_file")
<1> DEFINE path  == Resolve(scope, request)
           old   == IF path \in DOMAIN files THEN files[path] ELSE <<>>
           new   == IF append THEN old \o text ELSE text
           delta == IF append THEN Len(text) ELSE Len(text) - Len(old)
           made  == Mkdir(Disk, Front(path))
           ready == Load(made, scope)
           e     == Put(ready, path, new)
           ms    == Crosses(scope, path)
<1>1. path \in Path
  BY ResolveType
<1>2. /\ Open(scope) /\ MayChange(scope, path) /\ CanMkdir(Disk, Front(path))
      /\ \/ Return(scope, "write_file", ready, {})
         \/ /\ path \notin dirs /\ FitsIn(ready, scope, delta)
            /\ Return(scope, "write_file", Record(e, scope, Len(new) - Len(old)), ms)
  BY DEF WriteFile
<1> HIDE DEF path
<1>3. old \in Path /\ new \in Path /\ delta \in Int /\ Len(new) - Len(old) = delta
      /\ Len(old) = Size(Disk, path)
  <2>1. old \in Path
    BY EmptySeq, DiskParts DEF Path, TreeInv, IsTree, Nodes
  <2>2. Len(old) = Size(Disk, path)
    BY DiskParts DEF Size
  <2> HIDE DEF old
  <2>3. old \o text \in Path /\ Len(old \o text) = Len(old) + Len(text)
    BY <2>1, ConcatDef
  <2>4. Len(old) \in Nat /\ Len(text) \in Nat
    BY <2>1, PathLen
  <2> QED BY <2>1, <2>2, <2>3, <2>4
<1> HIDE DEF old, new, delta
<1>4. Root(scope) \in dirs
  BY <1>2, OpenRoot
<1>5. /\ path # <<>> /\ Front(path) \in Path /\ IsPrefix(BaseRoot, path) /\ ~ContainsMetadata(path)
      /\ Resolvable(scope, path)
  BY <1>1, <1>2, Target DEF MayChange
<1>6. /\ Leaves(scope, Disk, made, {}) /\ made.files = files /\ dirs \subseteq made.dirs
      /\ Front(path) \in made.dirs /\ (path \notin dirs => path \notin made.dirs)
  BY <1>1, <1>2, <1>5, MkdirLeaves, DiskParts DEF TreeInv
<1>7. /\ Leaves(scope, made, ready, {}) /\ ready.files = made.files /\ made.dirs \subseteq ready.dirs
      /\ (path \notin made.dirs => path \notin ready.dirs)
  BY <1>1, <1>4, <1>5, <1>6, LoadLeaves DEF Leaves
<1> HIDE DEF made, ready
<1>8. Leaves(scope, Disk, ready, {})
  BY <1>6, <1>7, RespectsAll DEF Leaves
<1>9. CASE Return(scope, "write_file", ready, {})
  BY <1>8, <1>9, Returned DEF Tools
<1>10. CASE /\ path \notin dirs /\ FitsIn(ready, scope, delta)
            /\ Return(scope, "write_file", Record(e, scope, Len(new) - Len(old)), ms)
  <2>1. path \notin ready.dirs /\ Front(path) \in ready.dirs /\ IsTree(ready)
    BY <1>6, <1>7, <1>10 DEF Leaves
  <2>2. /\ IsTree(e) /\ e.dirs = ready.dirs /\ e.usage = ready.usage
        /\ DOMAIN e.files = DOMAIN ready.files \cup {path} /\ e.files[path] = new
        /\ \A p \in DOMAIN ready.files \ {path} : e.files[p] = ready.files[p]
    BY <1>1, <1>3, <1>5, <2>1, PutTree
  <2> HIDE DEF e
  <2>3. \A p \in Path \ {path} : Same(ready, e, p)
    BY <2>2 DEF Same
  <2>4. Size(e, path) = Len(new) /\ Size(ready, path) = Len(old)
    BY <1>3, <1>6, <1>7, <2>2, DiskParts DEF Size
  <2>5. Root(scope) \in ready.dirs /\ path # Root(scope)
    BY <1>4, <1>6, <1>7, <1>10
  <2>6. ms = {} => Mine(scope, path) /\ delta = Size(e, path) - Size(ready, path)
    BY <1>1, <1>3, <1>5, <2>4, <2>5, Target
  <2>7. ms \in SUBSET Marks /\ "stale" \notin ms
    BY CrossesMarks
  <2> HIDE DEF ms
  <2>8. Leaves(scope, ready, Record(e, scope, delta), ms)
    BY <1>1, <1>2, <1>3, <1>10, <2>1, <2>2, <2>3, <2>5, <2>6, ChangeLeaves
  <2>9. Leaves(scope, Disk, Record(e, scope, delta), ms)
    BY <1>8, <2>8, RespectsAll DEF Leaves
  <2> QED BY <1>3, <1>10, <2>7, <2>9, Returned DEF Tools
<1> QED BY <1>2, <1>9, <1>10
-----------------------------------------------------------------------------
(* apply_patch.  Of the disk an entry finds, only its own file matters: if *)
(* that is as it was before the patch, the entry does what was checked.    *)

Sofar(d, ok, stale) == [disk |-> d, ok |-> ok, stale |-> stale]

LEMMA EntryParts ==
  ASSUME NEW entry \in Entry
  PROVE  entry.request \in Path /\ (entry.op # "delete" => entry.to \in Path)
<1>1. CASE entry \in [op : {"update"}, request : Seq(STRING), from : Seq(STRING), to : Seq(STRING)]
  BY <1>1 DEF Path
<1>2. CASE entry \in [op : {"add"}, request : Seq(STRING), to : Seq(STRING)]
  BY <1>2 DEF Path
<1>3. CASE entry \in [op : {"delete"}, request : Seq(STRING)]
  BY <1>3 DEF Path
<1> QED BY <1>1, <1>2, <1>3 DEF Entry

\* An entry that is prepared has a target and a delta.
LEMMA PreparedParts ==
  ASSUME TreeInv, NEW scope \in Scopes, Open(scope), NEW entry \in Entry, Prepared(scope, entry)
  PROVE  LET path == Resolve(scope, entry.request) IN
         /\ path \in Path /\ MayChange(scope, path) /\ Resolvable(scope, path)
         /\ path \notin dirs /\ path # Root(scope)
         /\ PatchDelta(scope, entry) \in Int
         /\ PatchDelta(scope, entry)
              = (IF entry.op = "delete" THEN 0 ELSE Len(entry.to)) - Size(Disk, path)
         /\ Size(Disk, path) \in Nat
<1> DEFINE path == Resolve(scope, entry.request)
<1>1. path \in Path
  BY EntryParts, ResolveType
<1>2. /\ MayChange(scope, path)
      /\ entry.op = "add" => ~Exists(path)
      /\ entry.op # "add" => path \in DOMAIN files
  BY DEF Prepared
<1>3. path \notin dirs
  BY <1>2, DiskParts DEF Exists, TreeInv, IsTree, FilesOutside
<1>4. path # Root(scope)
  BY <1>3, OpenRoot
<1>5. PatchDelta(scope, entry)
        = (IF entry.op = "delete" THEN 0 ELSE Len(entry.to)) - Size(Disk, path)
  BY DiskParts DEF PatchDelta, Size
<1>6. Size(Disk, path) \in Nat
  BY PathLen DEF Size, TreeInv, IsTree, Nodes
<1>7. (IF entry.op = "delete" THEN 0 ELSE Len(entry.to)) \in Int
  BY EntryParts, PathLen
<1> HIDE DEF path
<1>8. PatchDelta(scope, entry) \in Int
  BY <1>5, <1>6, <1>7
<1> QED BY <1>1, <1>2, <1>3, <1>4, <1>5, <1>6, <1>8 DEF MayChange, path

\* The marks that say the ledger no longer fits after an entry.
EntryMarks(scope, d, path) == IF Same(Disk, d, path) THEN Crosses(scope, path) ELSE {"repeat"}

LEMMA ApplyEntryStep ==
  ASSUME TreeInv, NEW scope \in Scopes, Open(scope), NEW entry \in Entry, Prepared(scope, entry),
         NEW s, s = Sofar(s.disk, s.ok, s.stale), s.ok \in BOOLEAN, s.stale \in BOOLEAN,
         IsTree(s.disk), BaseRoot \in s.disk.dirs, dirs \subseteq s.disk.dirs
  PROVE  LET path == Resolve(scope, entry.request)
             r    == ApplyEntry(scope, s, entry)
         IN
         /\ r = Sofar(r.disk, r.ok, r.stale)
         /\ r.ok \in BOOLEAN /\ r.stale \in BOOLEAN
         /\ Leaves(scope, s.disk, r.disk, EntryMarks(scope, s.disk, path))
         /\ s.disk.dirs \subseteq r.disk.dirs
         /\ \A p \in Path \ {path} : Same(s.disk, r.disk, p)
         /\ Same(Disk, s.disk, path) => r.stale = s.stale
<1> DEFINE d       == s.disk
           ok      == s.ok
           stale   == s.stale
           path    == Resolve(scope, entry.request)
           disk    == Load(d, scope)
           made    == Mkdir(disk, Front(path))
           delta   == PatchDelta(scope, entry)
           refused == \/ ~FitsIn(disk, scope, delta)
                      \/ entry.op = "delete" /\ path \notin DOMAIN disk.files
                      \/ entry.op # "delete" /\ (~CanMkdir(disk, Front(path)) \/ path \in made.dirs)
           other   == entry.op = "update" /\ path \in DOMAIN disk.files /\ disk.files[path] # entry.from
           after   == IF entry.op = "delete" THEN Unlink(disk, path) ELSE Put(made, path, entry.to)
           ms      == EntryMarks(scope, d, path)
           r       == ApplyEntry(scope, s, entry)
           goal    == /\ r = Sofar(r.disk, r.ok, r.stale)
                      /\ r.ok \in BOOLEAN /\ r.stale \in BOOLEAN
                      /\ Leaves(scope, d, r.disk, ms) /\ d.dirs \subseteq r.disk.dirs
                      /\ \A p \in Path \ {path} : Same(d, r.disk, p)
                      /\ Same(Disk, d, path) => r.stale = stale
<1>1. r = IF ~ok THEN s
          ELSE IF refused THEN Sofar(disk, FALSE, stale)
          ELSE Sofar(Record(after, scope, delta), TRUE, stale \/ other)
  BY DEF ApplyEntry, Sofar
<1>13. /\ s = Sofar(d, ok, stale) /\ IsTree(d) /\ BaseRoot \in d.dirs /\ dirs \subseteq d.dirs
       /\ ok \in BOOLEAN /\ stale \in BOOLEAN
  OBVIOUS
<1>2. other \in BOOLEAN /\ (Same(Disk, d, path) /\ disk.files = d.files => ~other)
  BY DiskParts DEF Same, Prepared
<1>3. /\ path \in Path /\ MayChange(scope, path) /\ Resolvable(scope, path)
      /\ path \notin dirs /\ path # Root(scope)
      /\ delta \in Int /\ Size(Disk, path) \in Nat
      /\ delta = (IF entry.op = "delete" THEN 0 ELSE Len(entry.to)) - Size(Disk, path)
  BY PreparedParts
<1>4. entry.op # "delete" => entry.to \in Path
  BY EntryParts
<1>5. Root(scope) \in d.dirs
  BY OpenRoot
<1> HIDE DEF path, delta, other, r, d, ok, stale
<1>6. /\ path # <<>> /\ Front(path) \in Path /\ IsPrefix(BaseRoot, path) /\ ~ContainsMetadata(path)
      /\ (Crosses(scope, path) = {} => Mine(scope, path))
  BY <1>3, Target
<1>7. /\ Leaves(scope, d, disk, {}) /\ disk.files = d.files /\ d.dirs \subseteq disk.dirs
  BY <1>5, <1>13, LoadLeaves
<1> HIDE DEF disk
<1>8. ms = {} => Same(Disk, d, path) /\ Mine(scope, path) /\ Size(disk, path) = Size(Disk, path)
  BY <1>6, <1>7, DiskParts DEF EntryMarks, Same, Size
<1> HIDE DEF ms
\* It is enough to say which disk the entry leaves.
<1>9. ASSUME NEW e, NEW o \in BOOLEAN, NEW t \in BOOLEAN, r = Sofar(e, o, t),
             Leaves(scope, d, e, ms), d.dirs \subseteq e.dirs,
             \A p \in Path \ {path} : Same(d, e, p),
             Same(Disk, d, path) => t = stale
      PROVE  goal
  <2>1. r.disk = e /\ r.ok = o /\ r.stale = t
    BY <1>9 DEF Sofar
  <2> QED BY <1>9, <2>1
<1> HIDE DEF goal
<1>10. ASSUME ~ok PROVE goal
  <2>1. r = Sofar(d, ok, stale)
    BY <1>1, <1>10, <1>13
  <2>2. Leaves(scope, d, d, ms) /\ \A p \in Path \ {path} : Same(d, d, p)
    BY <1>13 DEF Leaves, Respects, Same
  <2> QED BY <1>9, <1>13, <2>1, <2>2
<1>11. ASSUME ok, refused PROVE goal
  <2>1. r = Sofar(disk, FALSE, stale)
    BY <1>1, <1>11
  <2>2. Leaves(scope, d, disk, ms) /\ \A p \in Path \ {path} : Same(d, disk, p)
    BY <1>7 DEF Leaves, Same
  <2> QED BY <1>7, <1>9, <1>13, <2>1, <2>2
<1>12. ASSUME ok, ~refused PROVE goal
  <2>1. r = Sofar(Record(after, scope, delta), TRUE, stale \/ other) /\ FitsIn(disk, scope, delta)
    BY <1>1, <1>12
  <2>2. (stale \/ other) \in BOOLEAN /\ (Same(Disk, d, path) => (stale \/ other) = stale)
    BY <1>2, <1>7, <1>13 DEF disk
  \* From any disk in which the directory is ready, the change is recorded.
  <2>3. ASSUME NEW b, Leaves(scope, disk, b, {}), b.files = disk.files, b.usage = disk.usage,
               disk.dirs \subseteq b.dirs,
               IsTree(after), after.dirs = b.dirs, after.usage = b.usage,
               \A p \in Path \ {path} : Same(b, after, p),
               Size(after, path) = IF entry.op = "delete" THEN 0 ELSE Len(entry.to)
        PROVE  /\ Leaves(scope, d, Record(after, scope, delta), ms)
               /\ d.dirs \subseteq Record(after, scope, delta).dirs
               /\ \A p \in Path \ {path} : Same(d, Record(after, scope, delta), p)
    <3> HIDE DEF after
    <3>1. IsTree(b) /\ Root(scope) \in b.dirs /\ IsTree(disk) /\ Root(scope) \in disk.dirs
      BY <1>5, <1>7, <2>3 DEF Leaves
    <3>2. FitsIn(b, scope, delta)
      <4>1. Used(b, scope) = Used(disk, scope)
        BY <2>3 DEF Used
      <4> QED BY <2>1, <3>1, <4>1, FitsUsed, RootFree
    <3>3. ms = {} => Mine(scope, path) /\ delta = Size(after, path) - Size(b, path)
      BY <1>3, <1>8, <2>3 DEF Size
    <3>4. /\ Leaves(scope, b, Record(after, scope, delta), ms)
          /\ b.dirs \subseteq Record(after, scope, delta).dirs
          /\ \A p \in Path \ {path} : Same(b, Record(after, scope, delta), p)
      BY <1>3, <2>3, <3>1, <3>2, <3>3, ChangeLeaves
    <3>5. Leaves(scope, d, b, {})
      BY <1>7, <2>3, RespectsAll DEF Leaves
    <3>6. Leaves(scope, d, Record(after, scope, delta), ms)
      BY <3>4, <3>5, RespectsAll DEF Leaves
    <3>7. \A p \in Path \ {path} : Same(d, Record(after, scope, delta), p)
      BY <1>7, <2>3, <3>4 DEF Same
    <3> QED BY <1>7, <2>3, <3>4, <3>6, <3>7
  <2>4. CASE entry.op = "delete"
    <3>1. after = Unlink(disk, path) /\ IsTree(disk)
      BY <1>7, <2>4 DEF Leaves
    <3> HIDE DEF after
    <3>2. /\ IsTree(after) /\ after.dirs = disk.dirs /\ after.usage = disk.usage
          /\ DOMAIN after.files = DOMAIN disk.files \ {path}
          /\ \A p \in DOMAIN disk.files \ {path} : after.files[p] = disk.files[p]
      BY <1>3, <3>1, UnlinkTree
    <3>3. (\A p \in Path \ {path} : Same(disk, after, p)) /\ Size(after, path) = 0
      BY <3>2 DEF Same, Size
    <3>4. Leaves(scope, disk, disk, {})
      BY <1>7 DEF Leaves, Respects, Same
    <3>5. /\ Leaves(scope, d, Record(after, scope, delta), ms)
          /\ d.dirs \subseteq Record(after, scope, delta).dirs
          /\ \A p \in Path \ {path} : Same(d, Record(after, scope, delta), p)
      BY <2>3, <2>4, <3>2, <3>3, <3>4
    <3> QED BY <1>9, <1>13, <2>1, <2>2, <3>5
  <2>5. CASE entry.op # "delete"
    <3>1. after = Put(made, path, entry.to) /\ CanMkdir(disk, Front(path)) /\ path \notin made.dirs
          /\ entry.to \in Path
      BY <1>4, <1>12, <2>5
    <3>2. /\ Leaves(scope, disk, made, {}) /\ made.files = disk.files /\ disk.dirs \subseteq made.dirs
          /\ Front(path) \in made.dirs /\ made.usage = disk.usage
      BY <1>6, <1>7, <3>1, MkdirLeaves DEF Leaves
    <3> HIDE DEF after, made
    <3>3. /\ IsTree(after) /\ after.dirs = made.dirs /\ after.usage = made.usage
          /\ DOMAIN after.files = DOMAIN made.files \cup {path} /\ after.files[path] = entry.to
          /\ \A p \in DOMAIN made.files \ {path} : after.files[p] = made.files[p]
      BY <1>3, <1>6, <3>1, <3>2, PutTree DEF Leaves
    <3>4. (\A p \in Path \ {path} : Same(made, after, p)) /\ Size(after, path) = Len(entry.to)
      BY <3>3 DEF Same, Size
    <3>5. /\ Leaves(scope, d, Record(after, scope, delta), ms)
          /\ d.dirs \subseteq Record(after, scope, delta).dirs
          /\ \A p \in Path \ {path} : Same(d, Record(after, scope, delta), p)
      BY <2>3, <2>5, <3>2, <3>3, <3>4
    <3> QED BY <1>9, <1>13, <2>1, <2>2, <3>5
  <2> QED BY <2>4, <2>5
<1>14. goal
  BY <1>10, <1>11, <1>12, <1>13
<1> QED BY <1>14 DEF goal, path, ms, r, d, ok, stale
\* Whether two entries of a patch have one path, and what that or their paths mark.
Repeats(scope, patch) ==
  \E i, j \in DOMAIN patch :
    i # j /\ Resolve(scope, patch[i].request) = Resolve(scope, patch[j].request)

PatchMarks(scope, patch) ==
  (UNION {Crosses(scope, Resolve(scope, patch[i].request)) : i \in DOMAIN patch})
    \cup (IF Repeats(scope, patch) THEN {"repeat"} ELSE {})

LEMMA AppliedStep ==
  ASSUME TreeInv, NEW scope \in Scopes, Open(scope), NEW patch \in Seq(Entry),
         \A i \in DOMAIN patch : Prepared(scope, patch[i])
  PROVE  LET r == Applied(scope, patch) IN
         /\ r.stale \in BOOLEAN /\ (r.stale => Repeats(scope, patch))
         /\ Leaves(scope, Disk, r.disk, PatchMarks(scope, patch))
<1> DEFINE Steps(f, m) ==
      f = [i \in 0 .. m |-> IF i = 0 THEN Sofar(Disk, TRUE, FALSE)
                                     ELSE ApplyEntry(scope, f[i - 1], patch[i])]
    T == {m \in Nat : \E f : Steps(f, m)}
    sofar == CHOOSE f : Steps(f, Len(patch))
<1>1. Nat \subseteq T
  <2>1. 0 \in T
    <3>1. \A i \in 0 .. 0 : i = 0
      OBVIOUS
    <3>2. Steps([i \in 0 .. 0 |-> Sofar(Disk, TRUE, FALSE)], 0)
      BY <3>1
    <3> QED BY <3>2
  <2>2. ASSUME NEW n \in Nat, n \in T PROVE n + 1 \in T
    <3>1. PICK f : Steps(f, n)
      BY <2>2
    <3> DEFINE g == [i \in 0 .. n + 1 |->
                       IF i = n + 1 THEN ApplyEntry(scope, f[n], patch[n + 1]) ELSE f[i]]
    <3>2. ASSUME NEW i \in 0 .. n + 1
          PROVE  g[i] = IF i = 0 THEN Sofar(Disk, TRUE, FALSE)
                                 ELSE ApplyEntry(scope, g[i - 1], patch[i])
      <4>1. CASE i = 0
        <5>1. g[i] = f[i] /\ i \in 0 .. n
          BY <4>1
        <5> QED BY <3>1, <4>1, <5>1
      <4>2. CASE i = n + 1
        <5>1. g[i] = ApplyEntry(scope, f[n], patch[n + 1]) /\ i # 0 /\ i - 1 = n
          BY <4>2
        <5>2. n \in 0 .. n + 1 /\ n # n + 1
          OBVIOUS
        <5>3. g[n] = f[n]
          BY <5>2
        <5> QED BY <4>2, <5>1, <5>3
      <4>3. CASE i # 0 /\ i # n + 1
        <5>1. i \in 0 .. n /\ i - 1 \in 0 .. n + 1 /\ i - 1 # n + 1
          BY <4>3
        <5>2. g[i] = f[i] /\ g[i - 1] = f[i - 1]
          BY <4>3, <5>1
        <5>3. f[i] = ApplyEntry(scope, f[i - 1], patch[i])
          BY <3>1, <4>3, <5>1
        <5> QED BY <4>3, <5>2, <5>3
      <4> QED BY <4>1, <4>2, <4>3
    <3>3. Steps(g, n + 1)
      BY <3>2
    <3> HIDE DEF g, Steps
    <3>4. n + 1 \in Nat
      OBVIOUS
    <3> QED BY <3>3, <3>4
  <2> HIDE DEF T
  <2> QED BY <2>1, <2>2, Induction
<1>2. Len(patch) \in Nat /\ DOMAIN patch = 1 .. Len(patch) /\ \A i \in 1 .. Len(patch) : patch[i] \in Entry
  BY LenProperties, ElementOfSeq
<1>3. Steps(sofar, Len(patch))
  BY <1>1, <1>2
<1>4. Applied(scope, patch) = sofar[Len(patch)]
  BY DEF Applied, Sofar
<1> HIDE DEF sofar
<1>5. sofar[0] = Sofar(Disk, TRUE, FALSE)
  <2>1. 0 \in 0 .. Len(patch)
    BY <1>2
  <2> QED BY <1>3, <2>1
<1>6. ASSUME NEW i \in 1 .. Len(patch) PROVE sofar[i] = ApplyEntry(scope, sofar[i - 1], patch[i])
  <2>1. i \in 0 .. Len(patch) /\ i # 0
    BY <1>2
  <2> QED BY <1>3, <2>1
<1> HIDE DEF Steps, T
<1> DEFINE path(i) == Resolve(scope, patch[i].request)
           ms == PatchMarks(scope, patch)
           rep == Repeats(scope, patch)
           Fine(i) ==
             /\ sofar[i] = Sofar(sofar[i].disk, sofar[i].ok, sofar[i].stale)
             /\ sofar[i].ok \in BOOLEAN /\ sofar[i].stale \in BOOLEAN
             /\ Leaves(scope, Disk, sofar[i].disk, ms) /\ dirs \subseteq sofar[i].disk.dirs
             /\ \A p \in Path : (\A j \in 1 .. i : path(j) # p) => Same(Disk, sofar[i].disk, p)
             /\ sofar[i].stale => rep
           U == {i \in Nat : i <= Len(patch) => Fine(i)}
<1>7. Fine(0)
  <2>1. sofar[0].disk = Disk /\ sofar[0].ok = TRUE /\ sofar[0].stale = FALSE
    BY <1>5 DEF Sofar
  <2>2. Leaves(scope, Disk, Disk, ms) /\ \A p \in Path : Same(Disk, Disk, p)
    BY DiskParts DEF Leaves, Respects, Same, TreeInv
  <2> HIDE DEF ms, rep, path
  <2> QED BY <1>5, <2>1, <2>2, DiskParts
<1>8. ASSUME NEW n \in Nat, n + 1 <= Len(patch), Fine(n) PROVE Fine(n + 1)
  <2> DEFINE d == sofar[n].disk
             r == sofar[n + 1]
             entry == patch[n + 1]
             em == EntryMarks(scope, d, path(n + 1))
  <2>1. n + 1 \in 1 .. Len(patch) /\ n + 1 - 1 = n /\ n + 1 \in DOMAIN patch
    BY <1>2, <1>8
  <2>2. entry \in Entry /\ Prepared(scope, entry) /\ path(n + 1) \in Path
    BY <1>2, <2>1, PreparedParts
  <2> DEFINE s == sofar[n]
  <2>3. r = ApplyEntry(scope, s, entry)
    BY <1>6, <2>1
  <2>4. /\ s = Sofar(s.disk, s.ok, s.stale) /\ s.ok \in BOOLEAN /\ s.stale \in BOOLEAN
        /\ IsTree(s.disk) /\ BaseRoot \in s.disk.dirs /\ dirs \subseteq s.disk.dirs
    BY <1>8 DEF Leaves
  <2> HIDE DEF s, r, entry, ms, rep, Fine
  <2>5. /\ r = Sofar(r.disk, r.ok, r.stale)
        /\ r.ok \in BOOLEAN /\ r.stale \in BOOLEAN
        /\ Leaves(scope, d, r.disk, em) /\ d.dirs \subseteq r.disk.dirs
        /\ \A p \in Path \ {path(n + 1)} : Same(d, r.disk, p)
        /\ Same(Disk, d, path(n + 1)) => r.stale = s.stale
    BY <2>2, <2>3, <2>4, ApplyEntryStep DEF entry, s
  <2> USE DEF s, r, entry, ms, rep, Fine
  <2>6. ~rep => Same(Disk, d, path(n + 1))
    <3> SUFFICES ASSUME ~rep PROVE Same(Disk, d, path(n + 1))
      OBVIOUS
    <3>1. \A j \in 1 .. n : j \in DOMAIN patch /\ j # n + 1
      BY <1>2, <1>8
    <3>2. \A j \in 1 .. n : path(j) # path(n + 1)
      BY <2>1, <3>1 DEF Repeats
    <3> QED BY <1>8, <2>2, <3>2
  <2>7. ms = {} => em = {}
    <3>1. rep => "repeat" \in ms
      BY DEF PatchMarks
    <3>2. Crosses(scope, path(n + 1)) \subseteq ms
      BY <2>1 DEF PatchMarks
    <3> HIDE DEF ms, rep, path, d
    <3>3. ms = {} => ~rep /\ Crosses(scope, path(n + 1)) = {}
      BY <3>1, <3>2
    <3> QED BY <2>6, <3>3 DEF EntryMarks
  <2> HIDE DEF em, ms
  <2>8. Leaves(scope, Disk, r.disk, ms)
    BY <1>8, <2>5, <2>7, RespectsAll DEF Leaves
  <2>9. ASSUME NEW p \in Path, \A j \in 1 .. n + 1 : path(j) # p PROVE Same(Disk, r.disk, p)
    <3>1. path(n + 1) # p /\ \A j \in 1 .. n : path(j) # p
      BY <2>9
    <3>2. Same(Disk, d, p) /\ Same(d, r.disk, p)
      BY <1>8, <2>5, <3>1
    <3> QED BY <3>2 DEF Same
  <2> HIDE DEF path, rep
  <2>10. r.stale => rep
    BY <1>8, <2>5, <2>6
  <2>11. dirs \subseteq r.disk.dirs
    BY <1>8, <2>5
  <2> QED BY <2>5, <2>8, <2>9, <2>10, <2>11
<1>9. Nat \subseteq U
  <2> HIDE DEF Fine
  <2>1. 0 \in U
    BY <1>7
  <2>2. ASSUME NEW n \in Nat, n \in U PROVE n + 1 \in U
    BY <1>2, <1>8, <2>2
  <2> HIDE DEF U
  <2> QED BY <2>1, <2>2, Induction
<1>10. Fine(Len(patch))
  <2> HIDE DEF Fine
  <2> QED BY <1>2, <1>9
<1> QED BY <1>4, <1>10

LEMMA ApplyPatchStep ==
  ASSUME TreeInv, NEW scope \in Scopes, NEW patch \in Seq(Entry), ApplyPatch(scope, patch)
  PROVE  Done(scope, "apply_patch")
<1> DEFINE r == Applied(scope, patch)
           ms == (UNION {Crosses(scope, Resolve(scope, patch[i].request)) : i \in DOMAIN patch})
                 \cup (IF r.stale THEN {"stale"} ELSE {})
                 \cup (IF Repeats(scope, patch) THEN {"repeat"} ELSE {})
<1>1. /\ Open(scope) /\ \A i \in DOMAIN patch : Prepared(scope, patch[i])
      /\ Return(scope, "apply_patch", r.disk, ms)
  BY DEF ApplyPatch, Repeats
<1>2. /\ r.stale \in BOOLEAN /\ (r.stale => Repeats(scope, patch))
      /\ Leaves(scope, Disk, r.disk, PatchMarks(scope, patch))
  BY <1>1, AppliedStep
<1>3. ms = {} => PatchMarks(scope, patch) = {}
  BY DEF PatchMarks
<1>4. ms \in SUBSET Marks /\ ("stale" \in ms => "repeat" \in ms)
  <2> DEFINE cs == (UNION {Crosses(scope, Resolve(scope, patch[i].request)) : i \in DOMAIN patch})
  <2>1. cs \in SUBSET Marks /\ "stale" \notin cs
    BY CrossesMarks
  <2>2. ms = cs \cup (IF r.stale THEN {"stale"} ELSE {})
               \cup (IF Repeats(scope, patch) THEN {"repeat"} ELSE {})
    OBVIOUS
  <2> HIDE DEF cs
  <2>3. {"stale", "repeat"} \in SUBSET Marks
    BY DEF Marks
  <2> HIDE DEF ms, r
  <2> QED BY <1>2, <2>1, <2>2, <2>3
<1> HIDE DEF ms, r
<1>5. Leaves(scope, Disk, r.disk, ms)
  BY <1>2, <1>3 DEF Leaves
<1> QED BY <1>1, <1>4, <1>5, Returned DEF Tools
-----------------------------------------------------------------------------
(* remove_directory.                                                       *)

LEMMA BytesNone == \A d : Bytes(d, {}) = 0
BY SumDef, FS_EmptySet DEF Bytes

\* What a call that removes a directory leaves of files and ledgers.
Removes(scope, d, e) ==
  /\ \A p \in Path : Same(d, e, p) \/ IsPrefix(Root(scope), p)
  /\ \A s \in DOMAIN d.usage :
       \/ s \in DOMAIN e.usage /\ (s # scope => e.usage[s] = d.usage[s])
       \/ scope = Base /\ s \notin DOMAIN e.usage

LEMMA RemoveDirectoryStep ==
  ASSUME TreeInv, NEW scope \in Scopes, NEW request \in Path, NEW recursive \in BOOLEAN,
         RemoveDirectory(scope, request, recursive)
  PROVE  /\ IsTree(Disk') /\ BaseRoot \in dirs' /\ Removes(scope, Disk, Disk')
         /\ last' = [scope |-> scope, tool |-> "remove_directory"]
         /\ marks' \subseteq Marks /\ ("stale" \in marks' => "repeat" \in marks')
         /\ marks' = {} => Exact(Disk')
<1> DEFINE path  == Resolve(scope, request)
           e     == DeleteTree(Disk, path)
           delta == - TreeBytes(Disk, path)
           r     == Record(e, scope, delta)
           ms    == IF scope = Base /\ \E id \in Projects : ProjectRoot(id) \in dirs /\
                         (IsPrefix(path, ProjectRoot(id)) \/ IsPrefix(ProjectRoot(id), path))
                    THEN {"cross"} ELSE {}
           gone  == {p \in DOMAIN files : IsPrefix(path, p)}
           books == UsageFilesBelow(Disk, path)
<1>1. path \in Path
  BY ResolveType
<1>2. /\ Open(scope) /\ MayChange(scope, path) /\ path \in dirs
      /\ Return(scope, "remove_directory", r, ms)
  BY DEF RemoveDirectory
<1> HIDE DEF path
<1>3. Root(scope) \in dirs /\ Root(scope) \in Path
  BY <1>2, OpenRoot, RootParts
<1>4. /\ IsPrefix(Root(scope), path) /\ path # <<>> /\ ~ContainsMetadata(path)
  BY <1>1, <1>2, Target DEF MayChange
<1>5. IsTree(Disk)
  BY DEF TreeInv
<1>6. /\ IsTree(e) /\ e.dirs = {p \in dirs : ~IsPrefix(path, p)}
      /\ DOMAIN e.files = {p \in DOMAIN files : ~IsPrefix(path, p)}
      /\ \A p \in DOMAIN e.files : e.files[p] = files[p]
      /\ DOMAIN e.usage = {s \in DOMAIN usage : ~IsPrefix(path, UsageFile(s))}
      /\ \A s \in DOMAIN e.usage : e.usage[s] = usage[s]
  BY <1>1, <1>4, <1>5, DeleteTreeTree, DiskParts
<1> HIDE DEF e
<1>7. CanMkdir(e, Root(scope))
  <2>1. CanMkdir(Disk, Root(scope))
    BY <1>3, <1>5, RootFree, DiskParts
  <2> QED BY <1>6, <2>1, DiskParts DEF CanMkdir
<1>8. gone \in SUBSET DOMAIN files /\ books \in SUBSET DOMAIN usage /\ DOMAIN files \subseteq Path
  BY <1>5, DiskParts DEF UsageFilesBelow, IsTree, Nodes
<1>9. /\ TreeBytes(Disk, path) = Bytes(Disk, gone) + UsageSize * Cardinality(books)
      /\ Bytes(Disk, gone) \in Nat /\ UsageSize * Cardinality(books) \in Nat
      /\ books = {} => UsageSize * Cardinality(books) = 0
  <2>1. IsFiniteSet(books)
    BY <1>5, <1>8, FS_Subset, DiskParts DEF IsTree, Ledgers
  <2>2. Cardinality(books) \in Nat /\ UsageSize \in Nat /\ (books = {} => Cardinality(books) = 0)
    BY <2>1, FS_CardinalityType, FS_EmptySet, FileOperationsAssumption
  <2>3. Bytes(Disk, gone) \in Nat
    BY <1>5, <1>8, BytesNat, DiskParts
  <2>4. TreeBytes(Disk, path) = Bytes(Disk, gone) + UsageSize * Cardinality(books)
    BY DiskParts DEF TreeBytes
  <2> HIDE DEF books, gone
  <2> QED BY <2>2, <2>3, <2>4
<1>10. delta \in Int /\ delta <= 0 /\ (books = {} => delta = - Bytes(Disk, gone))
  BY <1>9
<1> HIDE DEF delta
<1>11. /\ IsTree(r) /\ r.files = e.files /\ BaseRoot \in r.dirs
       /\ DOMAIN r.usage = DOMAIN e.usage \cup {scope}
       /\ \A s \in DOMAIN e.usage \ {scope} : r.usage[s] = e.usage[s]
       /\ r.usage[scope] = AtLeastZero(Load(e, scope).usage[scope] + delta)
  BY <1>6, <1>7, <1>10, RecordTree, LoadTree
<1> HIDE DEF r
<1>12. Removes(scope, Disk, r)
  <2>1. ASSUME NEW p \in Path, ~IsPrefix(Root(scope), p) PROVE Same(Disk, r, p)
    <3>1. ~IsPrefix(path, p)
      BY <1>1, <1>3, <1>4, <2>1, PrefixOrder
    <3> QED BY <1>6, <1>11, <3>1, DiskParts DEF Same
  <2>2. ASSUME NEW s \in DOMAIN usage, s # scope, IsPrefix(path, UsageFile(s)) PROVE scope = Base
    <3>1. s \in Scopes
      BY <1>5, DiskParts DEF IsTree, Ledgers
    <3>2. UsageFile(s) \in Path
      BY <3>1, UsageFileParts
    <3>3. IsPrefix(Root(scope), UsageFile(s))
      BY <1>1, <1>3, <1>4, <2>2, <3>2, PrefixOrder
    <3> QED BY <2>2, <3>1, <3>3, RootsApart
  <2>3. ASSUME NEW s \in DOMAIN usage
        PROVE  \/ s \in DOMAIN r.usage /\ (s # scope => r.usage[s] = usage[s])
               \/ scope = Base /\ s \notin DOMAIN r.usage
    BY <1>6, <1>11, <2>2
  <2> QED BY <2>1, <2>3, DiskParts DEF Removes
<1>13. ms \in SUBSET Marks /\ "stale" \notin ms
  BY DEF Marks
\* Without a mark nothing of another scope is below the path.
<1>14. ASSUME ms = {}, Exact(Disk) PROVE Exact(r)
  <2>1. ASSUME NEW id \in Projects, scope = Base, ProjectRoot(id) \in dirs
        PROVE  ~IsPrefix(path, ProjectRoot(id)) /\ ~IsPrefix(ProjectRoot(id), path)
    BY <1>14, <2>1
  <2>2. gone \subseteq Own(Disk, scope)
    <3> SUFFICES ASSUME NEW p \in gone PROVE Mine(scope, p)
      BY <1>8, DiskParts DEF Own
    <3>1. p \in Path /\ p \in DOMAIN files /\ IsPrefix(path, p)
      BY <1>8
    <3>2. p # path
      BY <1>2, <1>5, <3>1, DiskParts DEF IsTree, FilesOutside
    <3>3. IsStrictPrefix(Root(scope), p)
      <4>1. IsPrefix(Root(scope), p)
        BY <1>1, <1>3, <1>4, <3>1, PrefixOrder
      <4>2. Root(scope) # p
        BY <1>1, <1>4, <3>1, <3>2, PrefixOrder
      <4> QED BY <4>1, <4>2 DEF IsStrictPrefix
    <3>4. ASSUME scope = Base, NEW id \in Projects, IsStrictPrefix(ProjectRoot(id), p) PROVE FALSE
      <4>1. ProjectRoot(id) \in Path
        BY RootParts, WorkspaceAssumption DEF Scopes
      <4>2. ProjectRoot(id) \in dirs
        BY <1>5, <3>1, <3>4, <4>1, Ancestors, DiskParts DEF IsTree, IsStrictPrefix
      <4>3. IsPrefix(path, ProjectRoot(id)) \/ IsPrefix(ProjectRoot(id), path)
        BY <1>1, <3>1, <3>4, <4>1, PrefixOrder DEF IsStrictPrefix
      <4> QED BY <2>1, <3>4, <4>2, <4>3
    <3> QED BY <3>3, <3>4 DEF Mine
  <2>3. ASSUME NEW t \in Scopes \ {scope} PROVE t \notin books
    <3> SUFFICES ASSUME t \in DOMAIN usage, IsPrefix(path, UsageFile(t)) PROVE FALSE
      BY DiskParts DEF UsageFilesBelow
    <3>1. UsageFile(t) \in Path /\ Front(UsageFile(t)) \in Path /\ Root(t) \in Path
          /\ Front(UsageFile(t)) \in dirs /\ IsPrefix(Root(t), UsageFile(t))
          /\ IsPrefix(Root(t), Front(UsageFile(t)))
      BY <1>5, UsageFileParts, MetadataParts, RootParts, RootsApart, DiskParts DEF IsTree, Ledgers
    <3>2. IsPrefix(Root(scope), UsageFile(t))
      BY <1>1, <1>3, <1>4, <3>1, PrefixOrder
    <3>3. scope = Base /\ t \in Projects /\ Root(t) = ProjectRoot(t)
      BY <3>2, RootsApart, RootParts
    <3>4. Root(t) \in dirs
      BY <1>5, <3>1, Ancestors, DiskParts DEF IsTree
    <3>5. IsPrefix(path, Root(t)) \/ IsPrefix(Root(t), path)
      BY <1>1, <3>1, PrefixOrder
    <3> QED BY <2>1, <3>3, <3>4, <3>5
  <2>4. ASSUME NEW t \in Scopes \ {scope}
        PROVE  Own(e, t) = Own(Disk, t) /\ Bytes(e, Own(e, t)) = Bytes(Disk, Own(Disk, t))
               /\ Used(e, t) = Used(Disk, t)
    <3>1. \A p \in gone : ~Mine(t, p)
      BY <1>8, <2>2, MineOnce DEF Own
    <3>2. Own(e, t) = Own(Disk, t)
      BY <1>6, <3>1, DiskParts DEF Own
    <3>3. Own(Disk, t) \in SUBSET DOMAIN files /\ Own(Disk, t) \subseteq DOMAIN e.files
      BY <3>2, DiskParts DEF Own
    <3>4. Bytes(e, Own(Disk, t)) = Bytes(Disk, Own(Disk, t))
      BY <1>5, <1>6, <3>3, BytesSame, DiskParts
    <3>5. Used(e, t) = Used(Disk, t)
      BY <1>6, <2>3, DiskParts DEF Used, UsageFilesBelow
    <3> QED BY <3>2, <3>4, <3>5
  <2>5. /\ Bytes(e, Own(e, scope)) \in Nat
        /\ Bytes(Disk, Own(Disk, scope)) = Bytes(Disk, gone) + Bytes(e, Own(e, scope))
        /\ Own(e, scope) = Own(Disk, scope) \ gone
    <3> DEFINE kept == Own(Disk, scope) \ gone
    <3>1. Own(e, scope) = kept
      BY <1>6, DiskParts DEF Own
    <3>2. kept \in SUBSET DOMAIN files /\ kept \subseteq DOMAIN e.files
          /\ kept \cap gone = {} /\ gone \cup kept = Own(Disk, scope)
      BY <1>6, <2>2, DiskParts DEF Own
    <3> HIDE DEF kept, gone
    <3>3. Bytes(e, kept) = Bytes(Disk, kept)
      BY <1>5, <1>6, <3>2, BytesSame, DiskParts
    <3>4. Bytes(Disk, gone \cup kept) = Bytes(Disk, gone) + Bytes(Disk, kept)
          /\ Bytes(Disk, kept) \in Nat
      BY <1>5, <1>8, <3>2, BytesNat, DiskParts
    <3> QED BY <3>1, <3>2, <3>3, <3>4 DEF kept
  <2>6. CASE scope \in books
    <3>1. path = Root(scope)
      <4>1. IsPrefix(path, UsageFile(scope))
        BY <2>6 DEF UsageFilesBelow
      <4> QED BY <1>1, <1>3, <1>4, <4>1, AboveUsageFile, PrefixOrder
    <3>2. Own(e, scope) = {}
      BY <1>6, <2>5, <3>1, DiskParts DEF Own, Mine, IsStrictPrefix
    <3>3. Bytes(e, Own(e, scope)) = 0
      BY <3>2, BytesNone
    <3>4. scope \notin DOMAIN e.usage
      BY <1>6, <2>6 DEF UsageFilesBelow
    <3>5. r.usage[scope] = 0
      <4>1. Load(e, scope).usage[scope] = 0
        BY <1>6, <1>7, <3>4, LoadTree
      <4> QED BY <1>10, <1>11, <4>1 DEF AtLeastZero
    <3>6. \A s \in Scopes : Own(r, s) = Own(e, s) /\ Bytes(r, Own(r, s)) = Bytes(e, Own(e, s))
      BY <1>11 DEF Own, Bytes
    <3>7. Used(r, scope) = Bytes(r, Own(r, scope))
      BY <1>11, <3>3, <3>5, <3>6 DEF Used
    <3>8. ASSUME NEW t \in Scopes \ {scope} PROVE Used(r, t) = Bytes(r, Own(r, t))
      <4>1. Used(r, t) = Used(e, t)
        BY <1>11 DEF Used
      <4> QED BY <1>14, <2>4, <3>6, <4>1 DEF Exact
    <3> QED BY <3>7, <3>8 DEF Exact
  <2>7. CASE scope \notin books
    <3>1. books = {}
      BY <1>5, <1>8, <2>3, <2>7, DiskParts DEF IsTree, Ledgers
    <3>2. delta = - Bytes(Disk, gone)
      BY <1>10, <3>1
    <3>3. Used(e, scope) = Used(Disk, scope)
      BY <1>6, <2>7, DiskParts DEF Used, UsageFilesBelow
    <3>4. Bytes(e, Own(e, scope)) = Bytes(Disk, Own(Disk, scope)) + delta
      BY <1>9, <2>5, <3>2
    <3>5. \A s \in Scopes : Used(e, s) = Used(Disk, s)
      BY <2>4, <3>3
    <3>6. Exact(Record(e, scope, delta))
      BY <1>5, <1>6, <1>7, <1>10, <1>14, <2>4, <3>4, <3>5, ExactRecorded
    <3> QED BY <3>6 DEF r
  <2> QED BY <2>6, <2>7
<1> HIDE DEF ms
<1>15. Disk' = r /\ marks' = marks \cup ms /\ last' = [scope |-> scope, tool |-> "remove_directory"]
  <2>1. r = [dirs |-> r.dirs, files |-> r.files, usage |-> r.usage]
    BY <1>11 DEF IsTree, Shape
  <2> QED BY <1>2, <2>1 DEF Return, Disk
<1>16. BaseRoot \in dirs'
  BY <1>2, <1>11 DEF Return
<1>17. marks' = {} => Exact(Disk')
  BY <1>14, <1>15 DEF TreeInv
<1>18. marks' \subseteq Marks /\ ("stale" \in marks' => "repeat" \in marks')
  BY <1>13, <1>15 DEF TreeInv
<1>19. IsTree(Disk') /\ Removes(scope, Disk, Disk')
  BY <1>11, <1>12, <1>15
<1> QED BY <1>15, <1>16, <1>17, <1>18, <1>19
-----------------------------------------------------------------------------
(* The invariant holds.                                                    *)

LEMMA SumZero ==
  ASSUME NEW w, NEW U, IsFiniteSet(U), \A x \in U : w[x] = 0
  PROVE  SumFunctionOnSet(w, U) = 0
<1> DEFINE T == {s \in SUBSET U : SumFunctionOnSet(w, s) = 0}
<1>1. ASSUME NEW s \in SUBSET U, \A t \in SUBSET s : t # s => t \in T PROVE s \in T
  <2>1. IsFiniteSet(s)
    BY FS_Subset
  <2>2. CASE s = {}
    BY <2>1, <2>2, SumDef
  <2>3. CASE s # {}
    <3>1. Pick(s) \in s /\ s \ {Pick(s)} \in SUBSET s /\ s \ {Pick(s)} # s
      BY <2>3 DEF Pick
    <3>2. SumFunctionOnSet(w, s \ {Pick(s)}) = 0 /\ w[Pick(s)] = 0
      BY <1>1, <3>1
    <3>3. SumFunctionOnSet(w, s) = w[Pick(s)] + SumFunctionOnSet(w, s \ {Pick(s)})
      BY <2>1, <2>3, SumDef
    <3> QED BY <3>2, <3>3
  <2> QED BY <2>2, <2>3
<1>2. SUBSET U \subseteq T
  <2> HIDE DEF T
  <2> QED BY <1>1, FiniteInduction
<1> QED BY <1>2

LEMMA InitialDirsFinite == IsFiniteSet(UNION {Prefixes(Front(p)) : p \in InitialFiles})
<1> DEFINE Above(U) == UNION {Prefixes(Front(p)) : p \in U}
           T == {U \in SUBSET InitialFiles : IsFiniteSet(Above(U))}
<1>1. ASSUME NEW U \in SUBSET InitialFiles, \A V \in SUBSET U : V # U => V \in T PROVE U \in T
  <2>1. CASE U = {}
    <3>1. Above(U) = {}
      BY <2>1
    <3> QED BY <3>1, FS_EmptySet
  <2>2. CASE U # {}
    <3>1. PICK p \in U : TRUE
      BY <2>2
    <3>2. IsFiniteSet(Above(U \ {p}))
      BY <1>1, <3>1
    <3>3. p \in Path /\ p # <<>>
      <4>1. p \in Path /\ IsPrefix(BaseRoot, p) /\ BaseRoot \in Path /\ Len(BaseRoot) = 1
        BY FileOperationsAssumption, RootParts DEF Path, IsStrictPrefix, Scopes
      <4>2. Len(p) >= 1
        BY <4>1, PrefixDef
      <4> QED BY <4>1, <4>2
    <3>4. IsFiniteSet(Prefixes(Front(p)))
      BY <3>3, FrontDef, PrefixesFinite
    <3>5. Above(U) = Above(U \ {p}) \cup Prefixes(Front(p))
      OBVIOUS
    <3> HIDE DEF Above
    <3>6. IsFiniteSet(Above(U))
      BY <3>2, <3>4, <3>5, FS_Union
    <3> QED BY <3>6
  <2> QED BY <2>1, <2>2
<1>2. IsFiniteSet(InitialFiles)
  BY FileOperationsAssumption
<1>3. SUBSET InitialFiles \subseteq T
  <2> HIDE DEF T
  <2> QED BY <1>1, <1>2, FiniteInduction
<1> QED BY <1>3

LEMMA InitInv == Init => TreeInv
<1> SUFFICES ASSUME Init PROVE TreeInv
  OBVIOUS
<1>1. /\ files = [p \in InitialFiles |-> <<>>] /\ usage = [s \in {} |-> 0]
      /\ dirs = (UNION {Prefixes(Front(p)) : p \in InitialFiles}) \cup Prefixes(BaseRoot)
      /\ last = [scope |-> Base, tool |-> "none"] /\ marks = {}
  BY DEF Init
<1>2. DOMAIN files = InitialFiles /\ (\A p \in InitialFiles : files[p] = <<>>) /\ DOMAIN usage = {}
  BY <1>1
<1>3. BaseRoot \in Path /\ Len(BaseRoot) = 1 /\ Base \in Scopes
  BY RootParts DEF Scopes
<1>4. ASSUME NEW p \in InitialFiles
      PROVE  /\ p \in Path /\ p # <<>> /\ Front(p) \in Path
             /\ IsPrefix(BaseRoot, p) /\ p # BaseRoot /\ ~ContainsMetadata(p)
             /\ \A q \in InitialFiles : p = q \/ ~IsPrefix(p, q)
  <2>1. /\ p \in Path /\ IsPrefix(BaseRoot, p) /\ p # BaseRoot /\ ~ContainsMetadata(p)
        /\ \A q \in InitialFiles : p = q \/ ~IsPrefix(p, q)
    BY FileOperationsAssumption DEF Path, IsStrictPrefix
  <2>2. Len(p) >= 1
    BY <1>3, <2>1, PrefixDef
  <2>3. p # <<>>
    BY <2>2
  <2> QED BY <2>1, <2>3, FrontDef
<1>5. ASSUME NEW p
      PROVE  p \in dirs <=> /\ p \in Path
                            /\ IsPrefix(p, BaseRoot) \/ \E q \in InitialFiles : IsPrefix(p, Front(q))
  <2>1. Prefixes(BaseRoot) = {q \in Path : IsPrefix(q, BaseRoot)}
    BY <1>3, PrefixesDef
  <2>2. \A q \in InitialFiles : Prefixes(Front(q)) = {x \in Path : IsPrefix(x, Front(q))}
    BY <1>4, PrefixesDef
  <2> QED BY <1>1, <2>1, <2>2
<1>6. IsFiniteSet(dirs) /\ IsFiniteSet(InitialFiles)
  BY <1>1, <1>3, InitialDirsFinite, PrefixesFinite, FS_Union, FileOperationsAssumption
<1>7. Nodes(Disk)
  <2>1. <<>> \in Path
    BY EmptySeq DEF Path
  <2>2. dirs \subseteq Path /\ InitialFiles \subseteq Path
    BY <1>4, <1>5
  <2> QED BY <1>2, <1>6, <2>1, <2>2, DiskParts DEF Nodes
<1>8. Upwards(Disk)
  <2> SUFFICES ASSUME NEW p \in dirs \cup InitialFiles, p # <<>> PROVE Front(p) \in dirs
    BY <1>2, DiskParts DEF Upwards
  <2>1. CASE p \in InitialFiles
    <3>1. Front(p) \in Path /\ IsPrefix(Front(p), Front(p))
      BY <1>4, <2>1, PrefixOrder
    <3> QED BY <1>5, <2>1, <3>1
  <2>2. CASE p \in dirs
    <3>1. p \in Path /\ Front(p) \in Path /\ IsPrefix(Front(p), p)
      BY <1>5, <2>2, FrontDef
    <3>2. CASE IsPrefix(p, BaseRoot)
      BY <1>3, <1>5, <3>1, <3>2, PrefixOrder
    <3>3. ASSUME NEW q \in InitialFiles, IsPrefix(p, Front(q)) PROVE Front(p) \in dirs
      <4>1. IsPrefix(Front(p), Front(q))
        BY <1>4, <3>1, <3>3, PrefixOrder
      <4> QED BY <1>5, <3>1, <4>1
    <3> QED BY <1>5, <2>2, <3>2, <3>3
  <2> QED BY <2>1, <2>2
<1>9. FilesOutside(Disk)
  <2> SUFFICES ASSUME NEW p \in InitialFiles, p \in dirs PROVE FALSE
    BY <1>2, <1>4, DiskParts DEF FilesOutside
  <2>1. ~IsPrefix(p, BaseRoot)
    BY <1>3, <1>4, PrefixOrder
  <2>2. PICK q \in InitialFiles : IsPrefix(p, Front(q))
    BY <1>5, <2>1
  <2>3. IsPrefix(p, q) /\ p # q
    BY <1>4, <2>2, FrontDef, PrefixOrder
  <2> QED BY <1>4, <2>3
<1>10. Ledgers(Disk)
  BY <1>2, FS_EmptySet, DiskParts DEF Ledgers
<1>11. Shape(Disk)
  BY DEF Shape, Disk
<1>12. Exact(Disk)
  <2> SUFFICES ASSUME NEW s \in Scopes PROVE Used(Disk, s) = Bytes(Disk, Own(Disk, s))
    BY DEF Exact
  <2>1. Used(Disk, s) = 0
    BY <1>2, DiskParts DEF Used
  <2> DEFINE w == [p \in DOMAIN files |-> Len(files[p])]
  <2>2. Own(Disk, s) \in SUBSET DOMAIN files
    BY DiskParts DEF Own
  <2>3. \A p \in Own(Disk, s) : w[p] = 0
    <3>1. Len(<<>>) = 0
      OBVIOUS
    <3> QED BY <1>2, <2>2, <3>1
  <2>4. IsFiniteSet(Own(Disk, s))
    BY <1>2, <1>6, <2>2, FS_Subset
  <2>5. Bytes(Disk, Own(Disk, s)) = SumFunctionOnSet(w, Own(Disk, s))
    BY DiskParts DEF Bytes
  <2> HIDE DEF w
  <2> QED BY <2>1, <2>3, <2>4, <2>5, SumZero
<1>13. BaseRoot \in dirs
  BY <1>3, <1>5, PrefixOrder
<1>14. last \in [scope : Scopes, tool : Tools]
  BY <1>1, <1>3 DEF Tools
<1> QED BY <1>1, <1>7, <1>8, <1>9, <1>10, <1>11, <1>12, <1>13, <1>14 DEF TreeInv, IsTree

\* What a step is: a call that changes files one by one, or one that removes a directory.
Returns(scope) ==
  \/ \E tool \in Tools \ {"remove_directory"} : Done(scope, tool)
  \/ /\ IsTree(Disk') /\ BaseRoot \in dirs' /\ Removes(scope, Disk, Disk')
     /\ last' = [scope |-> scope, tool |-> "remove_directory"]
     /\ marks' \subseteq Marks /\ ("stale" \in marks' => "repeat" \in marks')
     /\ marks' = {} => Exact(Disk')

LEMMA Calls ==
  ASSUME TreeInv, Next
  PROVE  \E scope \in Scopes : Returns(scope)
<1>1. ASSUME NEW scope \in Scopes, NEW request \in Requests[scope] PROVE request \in Path
  BY FileOperationsAssumption DEF Path
<1>2. ASSUME NEW scope \in Scopes, NEW request \in Requests[scope], NEW text \in Texts,
             NEW append \in BOOLEAN, WriteFile(scope, request, text, append)
      PROVE  Returns(scope)
  <2>1. text \in Path
    BY FileOperationsAssumption DEF Path
  <2>2. Done(scope, "write_file")
    BY <1>1, <1>2, <2>1, WriteFileStep
  <2> QED BY <2>2 DEF Returns, Tools
<1>3. ASSUME NEW scope \in Scopes, NEW request \in Requests[scope], DeleteFile(scope, request)
      PROVE  Returns(scope)
  <2>1. Done(scope, "delete_file")
    BY <1>1, <1>3, DeleteFileStep
  <2> QED BY <2>1 DEF Returns, Tools
<1>4. ASSUME NEW scope \in Scopes, NEW request \in Requests[scope], CreateDirectory(scope, request)
      PROVE  Returns(scope)
  <2>1. Done(scope, "create_directory")
    BY <1>1, <1>4, CreateDirectoryStep
  <2> QED BY <2>1 DEF Returns, Tools
<1>5. ASSUME NEW scope \in Scopes, NEW request \in Requests[scope], NEW recursive \in BOOLEAN,
             RemoveDirectory(scope, request, recursive)
      PROVE  Returns(scope)
  BY <1>1, <1>5, RemoveDirectoryStep DEF Returns
<1>6. ASSUME NEW scope \in Scopes, NEW patch \in Patches, ApplyPatch(scope, patch)
      PROVE  Returns(scope)
  <2>1. patch \in Seq(Entry)
    BY FileOperationsAssumption
  <2>2. Done(scope, "apply_patch")
    BY <1>6, <2>1, ApplyPatchStep
  <2> QED BY <2>2 DEF Returns, Tools
<1>7. ASSUME NEW id \in Projects, CreateProject(id) PROVE Returns(Base) /\ Base \in Scopes
  <2>1. Done(Base, "create_project")
    BY <1>7, CreateProjectStep
  <2> QED BY <2>1 DEF Returns, Tools, Scopes
<1> QED BY <1>2, <1>3, <1>4, <1>5, <1>6, <1>7 DEF Next

LEMMA StepInv == TreeInv /\ [Next]_vars => TreeInv'
<1>1. ASSUME TreeInv, UNCHANGED vars PROVE TreeInv'
  <2>1. Disk' = Disk /\ dirs' = dirs /\ last' = last /\ marks' = marks
    BY <1>1 DEF vars, Disk
  <2> QED BY <1>1, <2>1 DEF TreeInv
<1>2. ASSUME TreeInv, Next PROVE TreeInv'
  <2>1. PICK scope \in Scopes : Returns(scope)
    BY <1>2, Calls
  <2>2. CASE \E tool \in Tools \ {"remove_directory"} : Done(scope, tool)
    <3>1. PICK tool \in Tools \ {"remove_directory"} : Done(scope, tool)
      BY <2>2
    <3>2. /\ IsTree(Disk') /\ BaseRoot \in Disk'.dirs
          /\ marks' = {} /\ Exact(Disk) => Exact(Disk')
      BY <3>1 DEF Done, Leaves
    <3>3. last' \in [scope : Scopes, tool : Tools]
      BY <3>1 DEF Done
    <3>4. marks' \subseteq Marks /\ ("stale" \in marks' => "repeat" \in marks')
      BY <3>1 DEF Done
    <3>5. marks' = {} => marks = {}
      BY <3>1 DEF Done
    <3>6. Disk'.dirs = dirs'
      BY DEF Disk
    <3> QED BY <1>2, <3>2, <3>3, <3>4, <3>5, <3>6 DEF TreeInv
  <2>3. CASE ~ \E tool \in Tools \ {"remove_directory"} : Done(scope, tool)
    <3>1. /\ IsTree(Disk') /\ BaseRoot \in dirs'
          /\ last' = [scope |-> scope, tool |-> "remove_directory"]
          /\ marks' \subseteq Marks /\ ("stale" \in marks' => "repeat" \in marks')
          /\ marks' = {} => Exact(Disk')
      BY <2>1, <2>3 DEF Returns
    <3>2. last' \in [scope : Scopes, tool : Tools]
      BY <3>1 DEF Tools
    <3> QED BY <3>1, <3>2 DEF TreeInv
  <2> QED BY <2>2, <2>3
<1> QED BY <1>1, <1>2

LEMMA InvHolds == Spec => []TreeInv
BY InitInv, StepInv, PTL DEF Spec

-----------------------------------------------------------------------------
(* What the invariant says of every call.                                  *)

\* The variables have their types and the tree is one, whatever calls come in what order:
\* no call of FileOperations leaves an entry without its directory or a name that is both.
THEOREM TypeCorrect == Spec => []TypeOK
<1>1. TreeInv => TypeOK
  BY DiskParts DEF TreeInv, IsTree, Upwards, FilesOutside, Ledgers, TypeOK
<1> QED BY <1>1, InvHolds, PTL

\* Content that was not checked is overwritten only by a patch that names a path twice
\* (apply_patch, fs_operations.py 315-394), whatever else is in the patch.
THEOREM StaleOnlyIfAPathRepeats == Spec => []StaleOnlyIfRepeated
<1>1. TreeInv => StaleOnlyIfRepeated
  BY DEF TreeInv, StaleOnlyIfRepeated
<1> QED BY <1>1, InvHolds, PTL

LEMMA MayChangeParts ==
  ASSUME NEW scope, NEW p, MayChange(scope, p)
  PROVE  IsPrefix(Root(scope), p) /\ ~Immutable(scope, p)
BY DEF MayChange, Resolvable, WithinRoot

\* What every step does to one file.
LEMMA FileStep ==
  ASSUME TreeInv, Next, NEW p \in Path
  PROVE  /\ last'.scope \in Scopes
         /\ Same(Disk, Disk', p) \/ IsPrefix(Root(last'.scope), p)
         /\ Same(Disk, Disk', p) \/ MayChange(last'.scope, p) \/ last'.tool = "remove_directory"
<1>1. PICK scope \in Scopes : Returns(scope)
  BY Calls
<1>2. CASE \E tool \in Tools \ {"remove_directory"} : Done(scope, tool)
  <2>1. PICK tool \in Tools \ {"remove_directory"} : Done(scope, tool)
    BY <1>2
  <2>2. last' = [scope |-> scope, tool |-> tool] /\ Leaves(scope, Disk, Disk', marks')
    BY <2>1 DEF Done
  <2>3. last'.scope = scope /\ (Same(Disk, Disk', p) \/ MayChange(scope, p))
    BY <2>2 DEF Leaves, Respects
  <2> QED BY <2>3, MayChangeParts
<1>3. CASE ~ \E tool \in Tools \ {"remove_directory"} : Done(scope, tool)
  <2>1. last' = [scope |-> scope, tool |-> "remove_directory"] /\ Removes(scope, Disk, Disk')
    BY <1>1, <1>3 DEF Returns
  <2>2. Same(Disk, Disk', p) \/ IsPrefix(Root(scope), p)
    BY <2>1 DEF Removes
  <2> QED BY <2>1, <2>2
<1> QED BY <1>2, <1>3

\* No call of a project touches a file outside that project, whatever its request resolves
\* to (resolve_path, workspace.py 62-95).
THEOREM CallsAreConfined == Spec => Confined
<1> DEFINE A == \A id \in Projects : last'.scope = id =>
                  \A p \in DOMAIN files \cup DOMAIN files' :
                    ~IsPrefix(ProjectRoot(id), p) =>
                      /\ p \in DOMAIN files \cap DOMAIN files'
                      /\ files'[p] = files[p]
<1>1. ASSUME TreeInv, TreeInv', Next PROVE A
  <2> SUFFICES ASSUME NEW id \in Projects, last'.scope = id,
                      NEW p \in DOMAIN files \cup DOMAIN files', ~IsPrefix(ProjectRoot(id), p)
               PROVE  p \in DOMAIN files \cap DOMAIN files' /\ files'[p] = files[p]
    OBVIOUS
  <2>1. Disk.files = files /\ Disk'.files = files'
    BY DEF Disk
  <2>2. p \in Path
    <3>1. IsTree(Disk) /\ IsTree(Disk')
      BY <1>1 DEF TreeInv
    <3> QED BY <2>1, <3>1 DEF IsTree, Nodes
  <2>3. Root(id) = ProjectRoot(id)
    BY WorkspaceAssumption DEF Root
  <2>4. Same(Disk, Disk', p)
    BY <1>1, <2>2, <2>3, FileStep
  <2> QED BY <2>1, <2>4 DEF Same
<1>2. TreeInv /\ TreeInv' /\ [Next]_vars => [A]_vars
  BY <1>1
<1> HIDE DEF A
<1>3. Spec => [][A]_vars
  BY <1>2, InvHolds, PTL DEF Spec
<1> QED BY <1>3 DEF Confined, A

\* The usage of a scope is written by its own calls and removed by no project's: the
\* accounting of a caller is out of reach of every other project (workspace.py 149-152).
THEOREM UsageIsTheCallers == Spec => ChargedToCaller
<1> DEFINE A == \A s \in DOMAIN usage :
                  \/ last'.scope = s /\ s \in DOMAIN usage'
                  \/ s \in DOMAIN usage' /\ usage'[s] = usage[s]
                  \/ last' = [scope |-> Base, tool |-> "remove_directory"] /\ s \notin DOMAIN usage'
<1>1. ASSUME TreeInv, Next PROVE A
  <2> SUFFICES ASSUME NEW s \in DOMAIN usage
               PROVE  \/ last'.scope = s /\ s \in DOMAIN usage'
                      \/ s \in DOMAIN usage' /\ usage'[s] = usage[s]
                      \/ last' = [scope |-> Base, tool |-> "remove_directory"] /\ s \notin DOMAIN usage'
    OBVIOUS
  <2>1. Disk.usage = usage /\ Disk'.usage = usage'
    BY DEF Disk
  <2>2. PICK scope \in Scopes : Returns(scope)
    BY <1>1, Calls
  <2>3. CASE \E tool \in Tools \ {"remove_directory"} : Done(scope, tool)
    <3>1. PICK tool \in Tools \ {"remove_directory"} : Done(scope, tool)
      BY <2>3
    <3>2. last' = [scope |-> scope, tool |-> tool] /\ Respects(scope, Disk, Disk')
      BY <3>1 DEF Done, Leaves
    <3>3. s \in DOMAIN usage' /\ (s # scope => usage'[s] = usage[s])
      BY <2>1, <3>2 DEF Respects
    <3> QED BY <3>2, <3>3
  <2>4. CASE ~ \E tool \in Tools \ {"remove_directory"} : Done(scope, tool)
    <3>1. last' = [scope |-> scope, tool |-> "remove_directory"] /\ Removes(scope, Disk, Disk')
      BY <2>2, <2>4 DEF Returns
    <3>2. \/ s \in DOMAIN usage' /\ (s # scope => usage'[s] = usage[s])
          \/ scope = Base /\ s \notin DOMAIN usage'
      BY <2>1, <3>1 DEF Removes
    <3> QED BY <3>1, <3>2
  <2> QED BY <2>3, <2>4
<1>2. TreeInv /\ [Next]_vars => [A]_vars
  BY <1>1
<1> HIDE DEF A
<1>3. Spec => [][A]_vars
  BY <1>2, InvHolds, PTL DEF Spec
<1> QED BY <1>3 DEF ChargedToCaller, A

\* A file that a caller is told is immutable keeps its content (ensure_mutable): writing,
\* patching and deleting leave it alone, and so does everything of a project it is not in.
THEOREM ImmutableFilesAreKept == Spec => ImmutableKept
<1> DEFINE A == \A s \in Scopes : \A p \in ImmutableFiles(s) :
                  \/ p \in DOMAIN files' /\ files'[p] = files[p]
                  \/ last'.tool = "remove_directory"
                  \/ s # last'.scope /\ IsPrefix(Root(last'.scope), p)
<1>1. ASSUME TreeInv, Next PROVE A
  <2> SUFFICES ASSUME NEW s \in Scopes, NEW p \in ImmutableFiles(s)
               PROVE  \/ p \in DOMAIN files' /\ files'[p] = files[p]
                      \/ last'.tool = "remove_directory"
                      \/ s # last'.scope /\ IsPrefix(Root(last'.scope), p)
    OBVIOUS
  <2>1. Disk.files = files /\ Disk'.files = files'
    BY DEF Disk
  <2>2. p \in DOMAIN files /\ Immutable(s, p)
    BY DEF ImmutableFiles, GetMetadata
  <2>3. p \in Path
    BY <1>1, <2>1, <2>2 DEF TreeInv, IsTree, Nodes
  <2>4. CASE Same(Disk, Disk', p)
    BY <2>1, <2>2, <2>4 DEF Same
  <2>5. CASE MayChange(last'.scope, p)
    BY <2>2, <2>5, MayChangeParts
  <2> QED BY <1>1, <2>3, <2>4, <2>5, FileStep
<1>2. TreeInv /\ [Next]_vars => [A]_vars
  BY <1>1
<1> HIDE DEF A
<1>3. Spec => [][A]_vars
  BY <1>2, InvHolds, PTL DEF Spec
<1> QED BY <1>3 DEF ImmutableKept, A

-----------------------------------------------------------------------------
(* What stat_tree finds is what the ledgers say: the files os.walk reaches *)
(* from a root are those below it, and every project that holds one is     *)
(* listed.                                                                 *)

Below(path) == {f \in DOMAIN files : IsStrictPrefix(path, f)}

LEMMA FilesAreBelow ==
  ASSUME TreeInv, NEW f \in DOMAIN files
  PROVE  f \in Path /\ f # <<>> /\ Front(f) \in dirs /\ ~ContainsMetadata(f)
<1>1. f \in Path /\ IsPrefix(BaseRoot, f) /\ ~ContainsMetadata(f)
  BY DiskParts DEF TreeInv, IsTree, Nodes, FilesOutside
<1>2. f # <<>>
  <2>1. BaseRoot \in Path /\ Len(BaseRoot) = 1 /\ Len(<<>>) = 0
    BY WorkspaceAssumption DEF BaseRoot, Path
  <2>2. 1 <= Len(f)
    BY <1>1, <2>1, PrefixDef
  <2> QED BY <2>1, <2>2
<1> QED BY <1>1, <1>2, DiskParts DEF TreeInv, IsTree, Upwards

LEMMA FilesWalked ==
  ASSUME TreeInv, NEW path \in Path
  PROVE  {f \in DOMAIN files : Front(f) \in Walked(path, {}) /\ ~ContainsMetadata(f)} = Below(path)
<1> DEFINE walked == Walked(path, {})
<1>1. ASSUME NEW f \in DOMAIN files
      PROVE  Front(f) \in walked <=> IsStrictPrefix(path, f)
  <2>1. f \in Path /\ f # <<>> /\ Front(f) \in dirs /\ ~ContainsMetadata(f)
    BY FilesAreBelow
  <2>2. /\ Front(f) \in Path /\ IsPrefix(Front(f), f) /\ Front(f) # f
        /\ IsPrefix(path, f) => f = path \/ IsPrefix(path, Front(f))
    BY <2>1, FrontDef
  <2>3. ~ContainsMetadata(Front(f))
    BY <2>1, <2>2, MetadataBelow
  <2>4. Front(f) \in walked <=> IsPrefix(path, Front(f))
    BY <2>1, <2>3 DEF Walked
  <2>5. IsPrefix(path, Front(f)) => IsPrefix(path, f) /\ path # f
    BY <2>1, <2>2, PrefixOrder
  <2> QED BY <2>2, <2>4, <2>5 DEF IsStrictPrefix
<1> QED BY <1>1, FilesAreBelow DEF Below

LEMMA FoundBelow ==
  ASSUME TreeInv, NEW path \in Path
  PROVE  StatTree(path, {}).total_bytes = Bytes(Disk, Below(path))
BY FilesWalked DEF StatTree

LEMMA ListedProjects ==
  ASSUME TreeInv, NEW id \in Projects, Below(ProjectRoot(id)) # {}
  PROVE  id \in ListProjects
<1>1. /\ id \in Scopes /\ id # Base /\ Root(id) = ProjectRoot(id) /\ ProjectRoot(id) \in Path
      /\ Len(ProjectRoot(id)) = 3 /\ ProjectRoot(id)[1] = "srv"
      /\ ProjectRoot(id)[2] = ".projects" /\ ProjectRoot(id)[3] = id
  <2>1. id \in Scopes /\ id # Base
    BY WorkspaceAssumption DEF Scopes
  <2> QED BY <2>1, RootParts
<1>2. PICK f \in DOMAIN files : IsPrefix(ProjectRoot(id), f) /\ ProjectRoot(id) # f
  BY DEF Below, IsStrictPrefix
<1>3. ProjectRoot(id) \in dirs
  BY <1>1, <1>2, Ancestors, DiskParts DEF TreeInv, IsTree
<1> DEFINE root == ProjectRoot(id)
           up   == Append(BaseRoot, ".projects")
<1>4. /\ up \in Path /\ Len(up) = 2 /\ up[1] = "srv" /\ up[2] = ".projects"
  BY WorkspaceAssumption DEF Path, BaseRoot
<1>5. root \in Path /\ Len(root) = 3 /\ root[1] = "srv" /\ root[2] = ".projects" /\ root[3] = id
  BY <1>1
<1> HIDE DEF root, up
<1>6. root # <<>>
  <2>1. Len(<<>>) = 0
    OBVIOUS
  <2> QED BY <1>5, <2>1
<1>7. Front(root) = up
  <2>1. /\ Front(root) \in Path /\ Len(Front(root)) = 2
        /\ \A i \in 1 .. 2 : Front(root)[i] = root[i]
    <3>1. Len(root) - 1 = 2
      BY <1>5
    <3> QED BY <1>5, <1>6, <3>1, FrontDef
  <2>2. \A i \in 1 .. 2 : Front(root)[i] = up[i]
    BY <1>4, <1>5, <2>1
  <2> QED BY <1>4, <2>1, <2>2, SamePath
<1>8. Last(root) = id
  BY <1>5 DEF Last
<1>9. root \in {e \in dirs : e # <<>> /\ Front(e) = up}
  BY <1>3, <1>6, <1>7 DEF root
<1> QED BY <1>8, <1>9 DEF ListProjects, up

LEMMA ListedFinite == ASSUME TreeInv PROVE IsFiniteSet(ListProjects)
<1> DEFINE found == {e \in dirs : e # <<>> /\ Front(e) = Append(BaseRoot, ".projects")}
           f == [d \in found |-> Last(d)]
<1>1. IsFiniteSet(dirs) /\ found \subseteq dirs
  BY DiskParts DEF TreeInv, IsTree, Nodes
<1>2. IsFiniteSet(found)
  BY <1>1, FS_Subset
<1>3. f \in Surjection(found, ListProjects)
  <2>1. ListProjects = {Last(d) : d \in found}
    BY DEF ListProjects
  <2> HIDE DEF found
  <2> QED BY <2>1 DEF Surjection
<1> QED BY <1>2, <1>3, FS_Surjection

\* The sizes of the projects add up to that of all their files.
LEMMA ProjectsAddUp ==
  ASSUME TreeInv, NEW U \in SUBSET Projects, IsFiniteSet(U), NEW w,
         \A id \in U : w[id] = Bytes(Disk, Below(ProjectRoot(id)))
  PROVE  SumFunctionOnSet(w, U) = Bytes(Disk, UNION {Below(ProjectRoot(id)) : id \in U})
<1> DEFINE All(s) == UNION {Below(ProjectRoot(id)) : id \in s}
           T == {s \in SUBSET U : SumFunctionOnSet(w, s) = Bytes(Disk, All(s))}
<1>1. ASSUME NEW id \in Projects PROVE Below(ProjectRoot(id)) \in SUBSET DOMAIN Disk.files
  BY DiskParts DEF Below
<1>2. IsTree(Disk)
  BY DEF TreeInv
<1>3. ASSUME NEW s \in SUBSET U, \A t \in SUBSET s : t # s => t \in T PROVE s \in T
  <2>1. IsFiniteSet(s)
    BY FS_Subset
  <2>2. CASE s = {}
    <3>1. SumFunctionOnSet(w, s) = 0
      BY <2>1, <2>2, SumDef
    <3>2. All(s) = {}
      BY <2>2
    <3>3. Bytes(Disk, All(s)) = 0
      BY <3>2, BytesNone
    <3> QED BY <3>1, <3>3
  <2>3. CASE s # {}
    <3> PICK a \in s : TRUE
      BY <2>3
    <3> DEFINE rest == s \ {a}
               one  == Below(ProjectRoot(a))
    <3>1. SumFunctionOnSet(w, rest) = Bytes(Disk, All(rest))
      BY <1>3
    <3>2. one \in SUBSET DOMAIN Disk.files /\ All(rest) \in SUBSET DOMAIN Disk.files
      BY <1>1
    <3>3. one \cap All(rest) = {}
      <4> SUFFICES ASSUME NEW f \in one, NEW id \in rest, f \in Below(ProjectRoot(id)) PROVE FALSE
        OBVIOUS
      <4>1. a \in Scopes \ {Base} /\ id \in Scopes \ {Base} /\ a # id
        BY WorkspaceAssumption DEF Scopes
      <4>2. f \in Path
        BY FilesAreBelow DEF Below
      <4>3. IsPrefix(Root(a), f) /\ IsPrefix(Root(id), f)
        BY <4>1 DEF Below, IsStrictPrefix, Root
      <4> QED BY <4>1, <4>2, <4>3, RootsApart
    <3>4. All(s) = one \cup All(rest)
      OBVIOUS
    <3>5. \A x \in s : w[x] \in Nat
      BY <1>1, <1>2, BytesNat
    <3>6. SumFunctionOnSet(w, s) = w[a] + SumFunctionOnSet(w, rest)
      BY <2>1, <3>5, SumRemove
    <3>7. w[a] = Bytes(Disk, one)
      OBVIOUS
    <3> HIDE DEF one, rest, All
    <3>8. Bytes(Disk, one \cup All(rest)) = Bytes(Disk, one) + Bytes(Disk, All(rest))
      BY <1>2, <3>2, <3>3, BytesNat
    <3> QED BY <3>1, <3>4, <3>6, <3>7, <3>8
  <2> QED BY <2>2, <2>3
<1>4. SUBSET U \subseteq T
  <2> HIDE DEF T
  <2> QED BY <1>3, FiniteInduction
<1> QED BY <1>4

LEMMA ChargedIsOwn ==
  ASSUME TreeInv, NEW s \in Scopes
  PROVE  Charged(s) = Bytes(Disk, Own(Disk, s))
<1>1. Root(s) \in Path /\ BaseRoot \in Path
  BY RootParts
<1>2. CASE s # Base
  <2>1. Own(Disk, s) = Below(Root(s))
    BY <1>2, DiskParts DEF Own, Mine, Below
  <2>2. Charged(s) = StatTree(Root(s), {}).total_bytes
    BY <1>2 DEF Charged
  <2> QED BY <1>1, <2>1, <2>2, FoundBelow
<1>3. CASE s = Base
  <2> DEFINE listed == ListProjects \cap Projects
             w      == [id \in listed |-> StatTree(ProjectRoot(id), {}).total_bytes]
             inside == UNION {Below(ProjectRoot(id)) : id \in listed}
             own    == Own(Disk, s)
  <2>1. IsFiniteSet(listed) /\ listed \in SUBSET Projects
    BY ListedFinite, FS_Subset
  <2>2. ASSUME NEW id \in Projects
        PROVE  ProjectRoot(id) \in Path /\ IsPrefix(BaseRoot, ProjectRoot(id))
    <3>1. id \in Scopes /\ Root(id) = ProjectRoot(id)
      BY WorkspaceAssumption DEF Scopes, Root
    <3> QED BY <3>1, RootParts, RootsApart
  <2>3. \A id \in listed : w[id] = Bytes(Disk, Below(ProjectRoot(id)))
    BY <2>2, FoundBelow
  <2>4. SumFunction(w) = Bytes(Disk, inside)
    <3>1. SumFunction(w) = SumFunctionOnSet(w, listed)
      BY DEF SumFunction
    <3> HIDE DEF w, listed
    <3> QED BY <2>1, <2>3, <3>1, ProjectsAddUp
  <2>5. StatTree(BaseRoot, {}).total_bytes = Bytes(Disk, Below(BaseRoot))
    BY <1>1, FoundBelow
  <2>6. own \cap inside = {} /\ own \cup inside = Below(BaseRoot)
    <3>1. own \subseteq Below(BaseRoot)
      BY <1>3, DiskParts DEF Own, Mine, Below, Root
    <3>2. ASSUME NEW f \in inside PROVE f \in Below(BaseRoot) /\ f \notin own
      <4>1. PICK id \in Projects : f \in Below(ProjectRoot(id))
        OBVIOUS
      <4>2. f \in DOMAIN files /\ IsPrefix(ProjectRoot(id), f) /\ ProjectRoot(id) # f
        BY <4>1 DEF Below, IsStrictPrefix
      <4>3. f \in Path /\ ProjectRoot(id) \in Path /\ IsPrefix(BaseRoot, ProjectRoot(id))
        BY <2>2, <4>2, FilesAreBelow
      <4>4. IsPrefix(BaseRoot, f) /\ BaseRoot # f
        BY <1>1, <4>2, <4>3, PrefixOrder
      <4> QED BY <1>3, <4>1, <4>2, <4>4 DEF Below, IsStrictPrefix, Own, Mine
    <3>3. ASSUME NEW f \in Below(BaseRoot), f \notin own PROVE f \in inside
      <4>1. f \in DOMAIN files /\ ~Mine(s, f)
        BY <3>3, DiskParts DEF Below, Own
      <4>2. PICK id \in Projects : IsStrictPrefix(ProjectRoot(id), f)
        BY <1>3, <3>3, <4>1 DEF Mine, Root, Below
      <4>3. f \in Below(ProjectRoot(id))
        BY <4>1, <4>2 DEF Below
      <4>4. id \in listed
        BY <4>3, ListedProjects
      <4> QED BY <4>3, <4>4
    <3> QED BY <3>1, <3>2, <3>3
  <2>7. own \in SUBSET DOMAIN Disk.files /\ inside \in SUBSET DOMAIN Disk.files
    BY DiskParts DEF Own, Below
  <2>8. Charged(s) = StatTree(BaseRoot, {}).total_bytes - SumFunction(w)
    BY <1>3 DEF Charged
  <2>9. IsTree(Disk)
    BY DEF TreeInv
  <2> HIDE DEF listed, w, inside, own
  <2>10. /\ Bytes(Disk, own \cup inside) = Bytes(Disk, own) + Bytes(Disk, inside)
         /\ Bytes(Disk, own) \in Nat /\ Bytes(Disk, inside) \in Nat
    BY <2>6, <2>7, <2>9, BytesNat
  <2>11. Charged(s) = Bytes(Disk, own \cup inside) - Bytes(Disk, inside)
    BY <2>4, <2>5, <2>6, <2>8
  <2>12. Charged(s) = Bytes(Disk, own)
    BY <2>10, <2>11
  <2> QED BY <2>12 DEF own
<1> QED BY <1>2, <1>3

LEMMA LedgerIsCharged ==
  ASSUME TreeInv, marks = {}, NEW s \in Scopes
  PROVE  UsedBytes(s) = Charged(s) /\ (HardLimit # NoLimit => Charged(s) <= HardLimit)
<1>1. UsedBytes(s) = Used(Disk, s)
  BY DiskParts DEF UsedBytes, Used
<1>2. UsedBytes(s) = Charged(s)
  BY <1>1, ChargedIsOwn DEF TreeInv, Exact
<1>3. HardLimit # NoLimit => UsedBytes(s) <= HardLimit
  <2>1. CASE s \in DOMAIN usage
    BY <2>1, DiskParts DEF UsedBytes, TreeInv, IsTree, Ledgers
  <2>2. CASE s \notin DOMAIN usage
    BY <2>2, HardLimitAssumption DEF UsedBytes
  <2> QED BY <2>1, <2>2
<1> QED BY <1>2, <1>3

\* The deltas of all the calls that write, append, patch, delete and remove add up: while
\* no caller has done what the accounting ignores, used_bytes of every scope is what
\* stat_tree counts there, for any files, projects and requests (workspace.py 173-201).
THEOREM LedgersAreExact == Spec => []LedgerExact
<1>1. TreeInv => LedgerExact
  BY LedgerIsCharged DEF LedgerExact
<1> QED BY <1>1, InvHolds, PTL

\* The hard limit holds of the bytes that are there, not only of those on record: no
\* sequence of calls brings a scope above it (enforce_quota, workspace.py 173-186).
THEOREM QuotaIsKept == Spec => []QuotaHolds
<1>1. TreeInv => QuotaHolds
  BY LedgerIsCharged DEF QuotaHolds
<1> QED BY <1>1, InvHolds, PTL

-----------------------------------------------------------------------------
(* The reading tools.  A directory is made of what lies directly in it and *)
(* of what is below the directories in it.                                 *)

LEMMA SumOnes ==
  ASSUME NEW w, NEW U, IsFiniteSet(U), \A x \in U : w[x] = 1
  PROVE  SumFunctionOnSet(w, U) = Cardinality(U)
<1> DEFINE T == {s \in SUBSET U : SumFunctionOnSet(w, s) = Cardinality(s)}
<1>1. ASSUME NEW s \in SUBSET U, \A t \in SUBSET s : t # s => t \in T PROVE s \in T
  <2>1. IsFiniteSet(s)
    BY FS_Subset
  <2>2. CASE s = {}
    BY <2>1, <2>2, SumDef, FS_EmptySet
  <2>3. CASE s # {}
    <3>1. Pick(s) \in s /\ s \ {Pick(s)} \in SUBSET s /\ s \ {Pick(s)} # s
      BY <2>3 DEF Pick
    <3>2. SumFunctionOnSet(w, s \ {Pick(s)}) = Cardinality(s \ {Pick(s)}) /\ w[Pick(s)] = 1
      BY <1>1, <3>1
    <3>3. SumFunctionOnSet(w, s) = w[Pick(s)] + SumFunctionOnSet(w, s \ {Pick(s)})
      BY <2>1, <2>3, SumDef
    <3>4. Cardinality(s) \in Nat /\ Cardinality(s \ {Pick(s)}) = Cardinality(s) - 1
      BY <2>1, <3>1, FS_RemoveElement, FS_CardinalityType
    <3> QED BY <3>2, <3>3, <3>4
  <2> QED BY <2>2, <2>3
<1>2. SUBSET U \subseteq T
  <2> HIDE DEF T
  <2> QED BY <1>1, FiniteInduction
<1> QED BY <1>2

\* The sums of parts that have nothing in common add up to that of the whole.
LEMMA SumOfSums ==
  ASSUME NEW I, IsFiniteSet(I), NEW c, NEW w, NEW v,
         \A d \in I : IsFiniteSet(c[d]) /\ v[d] = SumFunctionOnSet(w, c[d]),
         \A d \in I : \A x \in c[d] : w[x] \in Nat,
         \A d, e \in I : d # e => c[d] \cap c[e] = {},
         NEW all, \A x : x \in all <=> \E d \in I : x \in c[d]
  PROVE  IsFiniteSet(all) /\ SumFunctionOnSet(v, I) = SumFunctionOnSet(w, all)
<1> DEFINE All(s) == UNION {c[d] : d \in s}
           Good(s) == IsFiniteSet(All(s)) /\ SumFunctionOnSet(v, s) = SumFunctionOnSet(w, All(s))
           T == {s \in SUBSET I : Good(s)}
<1>1. ASSUME NEW s \in SUBSET I, \A t \in SUBSET s : t # s => t \in T PROVE s \in T
  <2>1. IsFiniteSet(s)
    BY FS_Subset
  <2>2. CASE s = {}
    <3>1. All(s) = {} /\ IsFiniteSet({})
      BY <2>2, FS_EmptySet
    <3>2. SumFunctionOnSet(v, s) = 0 /\ SumFunctionOnSet(w, {}) = 0
      BY <2>1, <2>2, <3>1, SumDef
    <3> HIDE DEF All
    <3> QED BY <3>1, <3>2
  <2>3. CASE s # {}
    <3> PICK a \in s : TRUE
      BY <2>3
    <3> DEFINE rest == s \ {a}
    <3>1. IsFiniteSet(All(rest)) /\ SumFunctionOnSet(v, rest) = SumFunctionOnSet(w, All(rest))
      BY <1>1
    <3>2. IsFiniteSet(c[a]) /\ v[a] = SumFunctionOnSet(w, c[a]) /\ c[a] \cap All(rest) = {}
          /\ \A x \in c[a] \cup All(rest) : w[x] \in Nat
      OBVIOUS
    <3>3. All(s) = c[a] \cup All(rest)
      OBVIOUS
    <3>4. \A d \in s : v[d] \in Nat
      BY SumNat
    <3>5. SumFunctionOnSet(v, s) = v[a] + SumFunctionOnSet(v, rest)
      BY <2>1, <3>4, SumRemove
    <3> HIDE DEF rest, All
    <3>6. SumFunctionOnSet(w, c[a] \cup All(rest))
            = SumFunctionOnSet(w, c[a]) + SumFunctionOnSet(w, All(rest))
      BY <3>1, <3>2, SumSplit
    <3>7. IsFiniteSet(c[a] \cup All(rest))
      BY <3>1, <3>2, FS_Union
    <3> QED BY <3>1, <3>2, <3>3, <3>5, <3>6, <3>7
  <2> QED BY <2>2, <2>3
<1>2. SUBSET I \subseteq T
  <2> HIDE DEF T
  <2> QED BY <1>1, FiniteInduction
<1>3. I \in SUBSET I /\ All(I) = all
  OBVIOUS
<1> QED BY <1>2, <1>3

LEMMA CountOfCounts ==
  ASSUME NEW I, IsFiniteSet(I), NEW c, NEW v,
         \A d \in I : IsFiniteSet(c[d]) /\ v[d] = Cardinality(c[d]),
         \A d, e \in I : d # e => c[d] \cap c[e] = {},
         NEW all, \A x : x \in all <=> \E d \in I : x \in c[d]
  PROVE  IsFiniteSet(all) /\ SumFunctionOnSet(v, I) = Cardinality(all)
<1> DEFINE w == [x \in all |-> 1]
<1>1. ASSUME NEW d \in I PROVE \A x \in c[d] : w[x] = 1 /\ w[x] \in Nat
  OBVIOUS
<1>2. \A x \in all : w[x] = 1
  OBVIOUS
<1> HIDE DEF w
<1>3. \A d \in I : IsFiniteSet(c[d]) /\ v[d] = SumFunctionOnSet(w, c[d])
  BY <1>1, SumOnes
<1>4. IsFiniteSet(all) /\ SumFunctionOnSet(v, I) = SumFunctionOnSet(w, all)
  <2>1. \A d \in I : \A x \in c[d] : w[x] \in Nat
    BY <1>1
  <2> QED BY <1>3, <2>1, SumOfSums
<1>5. SumFunctionOnSet(w, all) = Cardinality(all)
  BY <1>2, <1>4, SumOnes
<1> QED BY <1>4, <1>5

\* The directories that lie directly in a directory, those that are listed.
Inside(path) ==
  {d \in dirs : IsStrictPrefix(path, d) /\ ~ContainsMetadata(d) /\ Len(d) = Len(path) + 1}

LEMMA DirectoriesArePaths ==
  ASSUME TreeInv
  PROVE  /\ IsFiniteSet(dirs) /\ IsFiniteSet(DOMAIN files) /\ dirs \cap DOMAIN files = {}
         /\ \A d \in dirs \cup DOMAIN files : d \in Path
         /\ \A f \in DOMAIN files : files[f] \in Seq(STRING)
<1>1. Nodes(Disk) /\ FilesOutside(Disk) /\ Disk.dirs = dirs /\ Disk.files = files
  BY DiskParts DEF TreeInv, IsTree
<1> QED BY <1>1 DEF Nodes, FilesOutside, Path

\* What is below a directory is directly in it or in just one directory that is.
LEMMA Branch ==
  ASSUME TreeInv, NEW path \in dirs,
         NEW x \in dirs \cup DOMAIN files, IsStrictPrefix(path, x), ~ContainsMetadata(x)
  PROVE  (\E d \in Inside(path) : IsPrefix(d, x)) \/ (x \in DOMAIN files /\ Front(x) = path)
<1>1. path \in Path /\ x \in Path /\ IsPrefix(path, x) /\ path # x
  BY DirectoriesArePaths DEF IsStrictPrefix
<1>2. /\ Len(path) \in Nat /\ Len(x) \in Nat /\ Len(path) <= Len(x)
      /\ \A i \in 1 .. Len(path) : path[i] = x[i]
  BY <1>1, PrefixDef, PathLen
<1>3. Len(path) # Len(x)
  BY <1>1, <1>2, SamePath
<1> DEFINE n == Len(path) + 1
           d == SubSeq(x, 1, n)
<1>4. n \in 0 .. Len(x) /\ n \in Nat
  BY <1>2, <1>3
<1>5. d \in Path /\ Len(d) = n /\ \A i \in 1 .. n : d[i] = x[i]
  BY <1>1, <1>4, Cut
<1> HIDE DEF d
<1>6. IsPrefix(d, x)
  BY <1>1, <1>4, <1>5, PrefixDef
<1>7. IsPrefix(path, d) /\ path # d
  BY <1>1, <1>2, <1>5, PrefixDef
<1>8. ~ContainsMetadata(d)
  BY <1>1, <1>5, <1>6, MetadataBelow
<1>9. d \in dirs \/ d = x
  BY <1>5, <1>6, Ancestors, DiskParts DEF TreeInv, IsTree
<1>10. CASE d \in dirs
  BY <1>5, <1>6, <1>7, <1>8, <1>10 DEF Inside, IsStrictPrefix
<1>11. CASE d \notin dirs
  <2>1. d = x /\ x \in DOMAIN files /\ x # <<>> /\ Len(x) = n
    BY <1>5, <1>9, <1>11, FilesAreBelow
  <2>2. Front(x) \in Path /\ Len(Front(x)) = Len(path) /\ \A i \in 1 .. Len(path) : Front(x)[i] = x[i]
    <3>1. Len(x) - 1 = Len(path)
      BY <1>2, <2>1
    <3> QED BY <1>1, <2>1, <3>1, FrontDef
  <2>3. Front(x) = path
    BY <1>1, <1>2, <2>2, SamePath
  <2> QED BY <2>1, <2>3
<1> QED BY <1>10, <1>11

LEMMA InsideParts ==
  ASSUME TreeInv, NEW path \in dirs
  PROVE  /\ IsFiniteSet(Inside(path)) /\ Inside(path) \subseteq dirs
         /\ \A d \in Inside(path) : d \in Path /\ IsPrefix(path, d) /\ path # d
         /\ \A d, e \in Inside(path) : \A x \in Path : IsPrefix(d, x) /\ IsPrefix(e, x) => d = e
         /\ \A d \in Inside(path) : \A x \in Path : IsPrefix(d, x) =>
              IsPrefix(path, x) /\ path # x /\ (Front(x) = path => d = x)
<1>1. path \in Path /\ Len(path) \in Nat
  BY DirectoriesArePaths, PathLen
<1>2. IsFiniteSet(Inside(path)) /\ Inside(path) \subseteq dirs
  BY DirectoriesArePaths, FS_Subset DEF Inside
<1>3. ASSUME NEW d \in Inside(path)
      PROVE  d \in Path /\ IsPrefix(path, d) /\ path # d /\ Len(d) = Len(path) + 1
  BY DirectoriesArePaths DEF Inside, IsStrictPrefix
<1>4. ASSUME NEW d \in Inside(path), NEW e \in Inside(path), NEW x \in Path, IsPrefix(d, x), IsPrefix(e, x)
      PROVE  d = e
  <2>1. IsPrefix(d, e) \/ IsPrefix(e, d)
    BY <1>3, <1>4, PrefixOrder
  <2>2. Len(d) = Len(e) /\ \A i \in 1 .. Len(d) : d[i] = e[i]
    BY <1>3, <2>1, PrefixDef
  <2> QED BY <1>3, <2>2, SamePath
<1>5. ASSUME NEW d \in Inside(path), NEW x \in Path, IsPrefix(d, x)
      PROVE  IsPrefix(path, x) /\ path # x /\ (Front(x) = path => d = x)
  <2>1. IsPrefix(path, x)
    BY <1>1, <1>3, <1>5, PrefixOrder
  <2>2. path # x
    BY <1>1, <1>3, <1>5, PrefixOrder
  <2>3. ASSUME Front(x) = path, d # x PROVE FALSE
    <3>1. x # <<>>
      BY <1>1, <1>3, <1>5, PrefixDef, PathLen
    <3>2. IsPrefix(d, path)
      BY <1>3, <1>5, <2>3, <3>1, FrontDef
    <3> QED BY <1>1, <1>3, <3>2, PrefixOrder
  <2> QED BY <2>1, <2>2, <2>3
<1> QED BY <1>2, <1>3, <1>4, <1>5

\* What stat_tree counts: the files below, and the directories it walks through.
LEMMA CountedBelow ==
  ASSUME TreeInv, NEW path \in dirs, ~ContainsMetadata(path)
  PROVE  LET all  == StatTree(path, {})
             here == StatTree(path, {0})
             own  == {f \in DOMAIN files : Front(f) = path}
         IN /\ all.file_count = Cardinality(Below(path))
            /\ all.dir_count = Cardinality(Walked(path, {})) - 1
            /\ all.total_bytes = Bytes(Disk, Below(path))
            /\ here.file_count = Cardinality(own)
            /\ here.dir_count = 0
            /\ here.total_bytes = Bytes(Disk, own)
            /\ IsFiniteSet(Walked(path, {})) /\ path \in Walked(path, {})
<1>1. path \in Path /\ Len(path) \in Nat
  BY DirectoriesArePaths, PathLen
<1>2. {f \in DOMAIN files : Front(f) \in Walked(path, {}) /\ ~ContainsMetadata(f)} = Below(path)
  BY <1>1, FilesWalked
<1>3. Walked(path, {0}) = {path}
  <2>1. ASSUME NEW d \in dirs, IsPrefix(path, d), Len(d) - Len(path) <= 0 PROVE d = path
    <3>1. d \in Path /\ Len(d) \in Nat
      BY DirectoriesArePaths, PathLen
    <3>2. Len(path) = Len(d) /\ \A i \in 1 .. Len(path) : path[i] = d[i]
      BY <1>1, <2>1, <3>1, PrefixDef
    <3> QED BY <1>1, <3>1, <3>2, SamePath
  <2>2. IsPrefix(path, path) /\ Len(path) - Len(path) <= 0
    BY <1>1, PrefixOrder
  <2> QED BY <2>1, <2>2 DEF Walked
<1>4. {f \in DOMAIN files : Front(f) \in Walked(path, {0}) /\ ~ContainsMetadata(f)}
        = {f \in DOMAIN files : Front(f) = path}
  BY <1>3, FilesAreBelow
<1>5. Cardinality({path}) - 1 = 0
  <2>1. Cardinality({path}) = 1
    BY FS_Singleton
  <2> QED BY <2>1
<1>6. IsFiniteSet(Walked(path, {})) /\ path \in Walked(path, {})
  BY <1>1, DirectoriesArePaths, FS_Subset, PrefixOrder DEF Walked
<1> QED BY <1>2, <1>3, <1>4, <1>5, <1>6 DEF StatTree

LEMMA FilesBranch ==
  ASSUME TreeInv, NEW path \in dirs
  PROVE  LET own   == {f \in DOMAIN files : Front(f) = path}
             below == UNION {Below(d) : d \in Inside(path)}
         IN /\ own \cup below = Below(path) /\ own \cap below = {}
            /\ \A d, e \in Inside(path) : d # e => Below(d) \cap Below(e) = {}
            /\ IsFiniteSet(own) /\ \A d \in dirs : IsFiniteSet(Below(d))
<1> DEFINE own   == {f \in DOMAIN files : Front(f) = path}
           below == UNION {Below(d) : d \in Inside(path)}
<1>1. ASSUME NEW f \in DOMAIN files
      PROVE  f \in Path /\ f # <<>> /\ f \notin dirs /\ ~ContainsMetadata(f)
  BY FilesAreBelow, DirectoriesArePaths
<1>2. path \in Path
  BY DirectoriesArePaths
<1>3. ASSUME NEW f \in Below(path) PROVE f \in own \cup below
  <2>1. f \in DOMAIN files /\ IsStrictPrefix(path, f)
    BY DEF Below
  <2>2. CASE Front(f) = path
    BY <2>1, <2>2
  <2>3. CASE Front(f) # path
    <3>1. PICK d \in Inside(path) : IsPrefix(d, f)
      BY <1>1, <2>1, <2>3, Branch
    <3>2. d # f
      BY <1>1, <2>1, InsideParts
    <3> QED BY <2>1, <3>1, <3>2 DEF Below, IsStrictPrefix
  <2> QED BY <2>2, <2>3
<1>4. ASSUME NEW f \in own PROVE f \in Below(path)
  BY <1>1, FrontDef DEF Below, IsStrictPrefix
<1>5. ASSUME NEW d \in Inside(path), NEW f \in Below(d)
      PROVE  f \in Below(path) /\ Front(f) # path /\ f \in Path /\ IsPrefix(d, f)
  BY <1>1, InsideParts DEF Below, IsStrictPrefix
<1>6. \A d, e \in Inside(path) : d # e => Below(d) \cap Below(e) = {}
  BY <1>5, InsideParts
<1>7. IsFiniteSet(own) /\ \A d \in dirs : IsFiniteSet(Below(d))
  BY DirectoriesArePaths, FS_Subset DEF Below
<1> QED BY <1>3, <1>4, <1>5, <1>6, <1>7

LEMMA WalksBranch ==
  ASSUME TreeInv, NEW path \in dirs, ~ContainsMetadata(path)
  PROVE  LET below == UNION {Walked(d, {}) : d \in Inside(path)}
         IN /\ Walked(path, {}) \ {path} = below
            /\ \A d, e \in Inside(path) : d # e => Walked(d, {}) \cap Walked(e, {}) = {}
<1>1. ASSUME NEW x \in Walked(path, {}) \ {path}
      PROVE  \E d \in Inside(path) : x \in Walked(d, {})
  <2>1. x \in dirs /\ IsStrictPrefix(path, x) /\ ~ContainsMetadata(x) /\ x \notin DOMAIN files
    BY DirectoriesArePaths DEF Walked, IsStrictPrefix
  <2>2. PICK d \in Inside(path) : IsPrefix(d, x)
    BY <2>1, Branch
  <2> QED BY <2>1, <2>2 DEF Walked
<1>2. ASSUME NEW d \in Inside(path), NEW x \in Walked(d, {})
      PROVE  x \in Walked(path, {}) \ {path} /\ x \in Path /\ IsPrefix(d, x)
  BY DirectoriesArePaths, InsideParts DEF Walked
<1>3. \A d, e \in Inside(path) : d # e => Walked(d, {}) \cap Walked(e, {}) = {}
  BY <1>2, InsideParts
<1> QED BY <1>1, <1>2, <1>3

LEMMA CountsAddUp ==
  ASSUME TreeInv, NEW path \in dirs, ~ContainsMetadata(path)
  PROVE  LET all  == StatTree(path, {})
             here == StatTree(path, {0})
             tree == [d \in Inside(path) |-> StatTree(d, {})]
         IN /\ all.file_count
                 = here.file_count + SumFunction([d \in Inside(path) |-> tree[d].file_count])
            /\ all.dir_count
                 = here.dir_count + SumFunction([d \in Inside(path) |-> tree[d].dir_count + 1])
            /\ all.total_bytes
                 = here.total_bytes + SumFunction([d \in Inside(path) |-> tree[d].total_bytes])
<1> DEFINE I     == Inside(path)
           tree  == [d \in I |-> StatTree(d, {})]
           F     == [d \in I |-> tree[d].file_count]
           D     == [d \in I |-> tree[d].dir_count + 1]
           B     == [d \in I |-> tree[d].total_bytes]
           files_in == [d \in I |-> Below(d)]
           walks    == [d \in I |-> Walked(d, {})]
           w     == [p \in DOMAIN Disk.files |-> Len(Disk.files[p])]
           own   == {f \in DOMAIN files : Front(f) = path}
           below == UNION {Below(d) : d \in I}
<1>1. IsFiniteSet(I) /\ I \subseteq dirs /\ \A d \in I : ~ContainsMetadata(d)
  BY InsideParts DEF Inside
<1>2. /\ own \cup below = Below(path) /\ own \cap below = {} /\ IsFiniteSet(own)
      /\ \A d, e \in I : d # e => files_in[d] \cap files_in[e] = {}
      /\ \A d \in I : IsFiniteSet(files_in[d])
  BY <1>1, FilesBranch
<1>3. /\ \A d, e \in I : d # e => walks[d] \cap walks[e] = {}
      /\ Walked(path, {}) \ {path} = UNION {walks[d] : d \in I}
  BY WalksBranch
<1>4. below = UNION {files_in[d] : d \in I}
  OBVIOUS
<1>5. ASSUME NEW d \in I
      PROVE  /\ F[d] = Cardinality(files_in[d])
             /\ D[d] = Cardinality(walks[d]) /\ IsFiniteSet(walks[d])
             /\ B[d] = SumFunctionOnSet(w, files_in[d])
  <2>1. /\ tree[d].file_count = Cardinality(Below(d))
        /\ tree[d].dir_count = Cardinality(Walked(d, {})) - 1 /\ IsFiniteSet(Walked(d, {}))
        /\ tree[d].total_bytes = Bytes(Disk, Below(d))
    BY <1>1, CountedBelow
  <2>2. Cardinality(Walked(d, {})) - 1 + 1 = Cardinality(Walked(d, {}))
    BY <2>1, FS_CardinalityType
  <2> QED BY <2>1, <2>2 DEF Bytes
<1>6. \A x \in DOMAIN files : w[x] \in Nat
  BY DirectoriesArePaths, LenProperties, DiskParts
<1>7. \A d \in I : files_in[d] \subseteq DOMAIN files
  BY DEF Below
<1>8. SumFunction(F) = SumFunctionOnSet(F, I) /\ SumFunction(D) = SumFunctionOnSet(D, I)
      /\ SumFunction(B) = SumFunctionOnSet(B, I)
  BY DEF SumFunction
<1>9. /\ StatTree(path, {}).file_count = Cardinality(Below(path))
      /\ StatTree(path, {}).dir_count = Cardinality(Walked(path, {})) - 1
      /\ StatTree(path, {}).total_bytes = SumFunctionOnSet(w, Below(path))
      /\ StatTree(path, {0}).file_count = Cardinality(own)
      /\ StatTree(path, {0}).dir_count = 0
      /\ StatTree(path, {0}).total_bytes = SumFunctionOnSet(w, own)
      /\ IsFiniteSet(Walked(path, {})) /\ path \in Walked(path, {})
  BY CountedBelow DEF Bytes
<1>10. own \subseteq DOMAIN files /\ below \subseteq DOMAIN files
  BY <1>4, <1>7
<1> HIDE DEF I, F, D, B, files_in, walks, w, own, below
<1>11. StatTree(path, {}).file_count = StatTree(path, {0}).file_count + SumFunction(F)
  <2>1. IsFiniteSet(below) /\ SumFunctionOnSet(F, I) = Cardinality(below)
    <3>1. \A d \in I : IsFiniteSet(files_in[d]) /\ F[d] = Cardinality(files_in[d])
      BY <1>2, <1>5
    <3>2. \A d, e \in I : d # e => files_in[d] \cap files_in[e] = {}
      BY <1>2
    <3>3. \A x : x \in below <=> \E d \in I : x \in files_in[d]
      BY <1>4
    <3> QED BY <1>1, <3>1, <3>2, <3>3, CountOfCounts
  <2>2. Cardinality(own \cap below) = 0
    BY <1>2, FS_EmptySet
  <2>3. Cardinality(own \cup below) = Cardinality(own) + Cardinality(below)
    <3>1. /\ Cardinality(own \cup below) = Cardinality(own) + Cardinality(below) - Cardinality(own \cap below)
          /\ Cardinality(own) \in Nat /\ Cardinality(below) \in Nat
      BY <1>2, <2>1, FS_Union, FS_CardinalityType
    <3> QED BY <2>2, <3>1
  <2> QED BY <1>2, <1>8, <1>9, <2>1, <2>3
<1>12. StatTree(path, {}).dir_count = StatTree(path, {0}).dir_count + SumFunction(D)
  <2>1. SumFunctionOnSet(D, I) = Cardinality(Walked(path, {}) \ {path})
    <3>1. \A d \in I : IsFiniteSet(walks[d]) /\ D[d] = Cardinality(walks[d])
      BY <1>5
    <3>2. \A d, e \in I : d # e => walks[d] \cap walks[e] = {}
      BY <1>3
    <3>3. \A x : x \in Walked(path, {}) \ {path} <=> \E d \in I : x \in walks[d]
      BY <1>3
    <3> QED BY <1>1, <3>1, <3>2, <3>3, CountOfCounts
  <2>2. Cardinality(Walked(path, {}) \ {path}) = Cardinality(Walked(path, {})) - 1
        /\ Cardinality(Walked(path, {})) \in Nat
    BY <1>9, FS_RemoveElement, FS_CardinalityType
  <2> QED BY <1>8, <1>9, <2>1, <2>2
<1>13. StatTree(path, {}).total_bytes = StatTree(path, {0}).total_bytes + SumFunction(B)
  <2>1. \A d \in I : \A x \in files_in[d] : w[x] \in Nat
    BY <1>6, <1>7
  <2>2. IsFiniteSet(below) /\ SumFunctionOnSet(B, I) = SumFunctionOnSet(w, below)
    <3>1. \A d \in I : IsFiniteSet(files_in[d]) /\ B[d] = SumFunctionOnSet(w, files_in[d])
      BY <1>2, <1>5
    <3>2. \A d, e \in I : d # e => files_in[d] \cap files_in[e] = {}
      BY <1>2
    <3>3. \A x : x \in below <=> \E d \in I : x \in files_in[d]
      BY <1>4
    <3>4. IsFiniteSet(I)
      BY <1>1
    <3> HIDE DEF I, B, w, files_in, below
    <3> QED BY <2>1, <3>1, <3>2, <3>3, <3>4, SumOfSums
  <2>3. SumFunctionOnSet(w, own \cup below) = SumFunctionOnSet(w, own) + SumFunctionOnSet(w, below)
    BY <1>2, <1>6, <1>10, <2>2, SumSplit
  <2> QED BY <1>2, <1>8, <1>9, <2>2, <2>3
<1> QED BY <1>11, <1>12, <1>13 DEF I, F, D, B

\* What list_directory lists recursively: the files below, and the directories stat_tree
\* walks through besides the first.
LEMMA ListedBelow ==
  ASSUME TreeInv, NEW path \in dirs, ~ContainsMetadata(path), NEW scope
  PROVE  LET below == ListDirectory(path, TRUE)
             size  == [p \in below |-> GetMetadata(scope, p).size]
         IN /\ below \ dirs = Below(path)
            /\ below \cap dirs = Walked(path, {}) \ {path}
            /\ SumFunction(size) = Bytes(Disk, Below(path))
            /\ \A p \in below \ dirs : size[p] = Len(files[p])
<1> DEFINE below == ListDirectory(path, TRUE)
           size  == [p \in below |-> GetMetadata(scope, p).size]
           w     == [p \in DOMAIN Disk.files |-> Len(Disk.files[p])]
<1>1. below \ dirs = Below(path)
  BY DirectoriesArePaths, FilesAreBelow DEF ListDirectory, Below
<1>2. below \cap dirs = Walked(path, {}) \ {path}
  BY DEF ListDirectory, Walked, IsStrictPrefix
<1>3. below = (below \cap dirs) \cup Below(path) /\ (below \cap dirs) \cap Below(path) = {}
  BY <1>1
<1>4. IsFiniteSet(below \cap dirs) /\ IsFiniteSet(Below(path))
  BY DirectoriesArePaths, FS_Subset DEF Below
<1>5. \A p \in below \cap dirs : size[p] = 0
  BY DirectoriesArePaths DEF GetMetadata
<1>6. ASSUME NEW p \in Below(path)
      PROVE  size[p] = Len(files[p]) /\ size[p] = w[p] /\ size[p] \in Nat
  <2>1. p \in below /\ p \in DOMAIN files
    BY <1>1 DEF Below
  <2>2. size[p] = Len(files[p])
    BY <2>1 DEF GetMetadata
  <2>3. w[p] = Len(files[p])
    BY <2>1, DiskParts
  <2>4. Len(files[p]) \in Nat
    BY <2>1, DirectoriesArePaths, LenProperties
  <2> QED BY <2>2, <2>3, <2>4
<1>7. SumFunction(size) = SumFunctionOnSet(size, below)
  BY DEF SumFunction
<1>8. Bytes(Disk, Below(path)) = SumFunctionOnSet(w, Below(path))
  BY DEF Bytes
<1> HIDE DEF below, size, w
<1>9. SumFunctionOnSet(size, below)
        = SumFunctionOnSet(size, below \cap dirs) + SumFunctionOnSet(size, Below(path))
  <2>1. \A p \in (below \cap dirs) \cup Below(path) : size[p] \in Nat
    BY <1>5, <1>6
  <2>2. SumFunctionOnSet(size, (below \cap dirs) \cup Below(path))
          = SumFunctionOnSet(size, below \cap dirs) + SumFunctionOnSet(size, Below(path))
    BY <1>3, <1>4, <2>1, SumSplit
  <2> QED BY <1>3, <2>2
<1>10. SumFunctionOnSet(size, below \cap dirs) = 0
  BY <1>4, <1>5, SumZero
<1>11. SumFunctionOnSet(size, Below(path)) = SumFunctionOnSet(w, Below(path))
       /\ SumFunctionOnSet(size, Below(path)) \in Nat
  BY <1>4, <1>6, SumSame, SumNat
<1>12. SumFunction(size) = Bytes(Disk, Below(path))
  BY <1>7, <1>8, <1>9, <1>10, <1>11
<1> QED BY <1>1, <1>2, <1>6, <1>12 DEF below, size

\* read_file without an offset and a length returns the whole file.
LEMMA WholeFile ==
  ASSUME TreeInv, NEW p \in DOMAIN files
  PROVE  Len(ReadFile(p, 0, {})) = Len(files[p])
<1> DEFINE n == Len(files[p])
<1>1. n \in Nat /\ \A i \in 1 .. n : files[p][i] \in STRING
  BY DirectoriesArePaths, LenProperties, ElementOfSeq
<1>2. {n} \cup {0 + m : m \in {}} = {n}
  OBVIOUS
<1>3. Min({n}) = n
  BY <1>1 DEF Min
<1>4. ReadFile(p, 0, {}) = SubSeq(files[p], 1, n)
  <2>1. 0 + 1 = 1
    OBVIOUS
  <2> QED BY <1>2, <1>3, <2>1 DEF ReadFile
<1>5. Len(SubSeq(files[p], 1, n)) = IF 1 <= n THEN n - 1 + 1 ELSE 0
  BY <1>1, SubSeqProperties
<1> HIDE DEF n
<1>6. Len(SubSeq(files[p], 1, n)) = n
  BY <1>1, <1>5
<1> QED BY <1>4, <1>6 DEF n

\* For any projects, files and requests, after any calls: what stat_tree counts is what
\* list_directory lists with the sizes of get_metadata and read_file; it is the sum of the
\* directory itself and of those in it; and every listed path is accepted
\* (fs_operations.py 220-274, 447-485).
THEOREM ReadingToolsAgree == Spec => []ReadsAgree
<1>1. TreeInv => ReadsAgree
  <2> SUFFICES ASSUME TreeInv, NEW scope \in Scopes, NEW request \in Requests[scope],
                      Resolvable(scope, Resolve(scope, request)), Resolve(scope, request) \in dirs
               PROVE  LET path   == Resolve(scope, request)
                          below  == ListDirectory(path, TRUE)
                          inside == ListDirectory(path, FALSE) \cap dirs
                          all    == StatTree(path, {})
                          here   == StatTree(path, {0})
                          size   == [p \in below |-> GetMetadata(scope, p).size]
                          tree   == [d \in inside |-> StatTree(d, {})]
                      IN /\ all.file_count = Cardinality(below \ dirs)
                         /\ all.dir_count = Cardinality(below \cap dirs)
                         /\ all.total_bytes = SumFunction(size)
                         /\ all.file_count = here.file_count + SumFunction([d \in inside |-> tree[d].file_count])
                         /\ all.dir_count = here.dir_count + SumFunction([d \in inside |-> tree[d].dir_count + 1])
                         /\ all.total_bytes = here.total_bytes + SumFunction([d \in inside |-> tree[d].total_bytes])
                         /\ \A p \in below : Resolvable(scope, p)
                         /\ \A p \in below \ dirs : Len(ReadFile(p, 0, {})) = size[p]
    BY DEF ReadsAgree
  <2> DEFINE path  == Resolve(scope, request)
             below == ListDirectory(path, TRUE)
             size  == [p \in below |-> GetMetadata(scope, p).size]
  <2>1. path \in dirs /\ ~ContainsMetadata(path) /\ IsPrefix(Root(scope), path)
    BY DEF Resolvable, WithinRoot
  <2>2. ListDirectory(path, FALSE) \cap dirs = Inside(path)
    BY DEF ListDirectory, Inside
  <2> HIDE DEF path
  <2>3. /\ below \ dirs = Below(path) /\ below \cap dirs = Walked(path, {}) \ {path}
        /\ SumFunction(size) = Bytes(Disk, Below(path))
        /\ \A p \in below \ dirs : size[p] = Len(files[p])
    BY <2>1, ListedBelow
  <2>4. /\ StatTree(path, {}).file_count = Cardinality(Below(path))
        /\ StatTree(path, {}).dir_count = Cardinality(Walked(path, {})) - 1
        /\ StatTree(path, {}).total_bytes = Bytes(Disk, Below(path))
        /\ IsFiniteSet(Walked(path, {})) /\ path \in Walked(path, {})
    BY <2>1, CountedBelow
  <2>5. Cardinality(Walked(path, {}) \ {path}) = Cardinality(Walked(path, {})) - 1
    BY <2>4, FS_RemoveElement
  <2>6. ASSUME NEW p \in below PROVE Resolvable(scope, p)
    <3>1. p \in dirs \cup DOMAIN files /\ IsPrefix(path, p) /\ ~ContainsMetadata(p)
      BY DEF ListDirectory, IsStrictPrefix
    <3>2. p \in Path /\ path \in Path /\ Root(scope) \in Path
      BY <2>1, <3>1, DirectoriesArePaths, RootParts
    <3>3. IsPrefix(Root(scope), p)
      BY <2>1, <3>1, <3>2, PrefixOrder
    <3> QED BY <3>1, <3>3 DEF Resolvable, WithinRoot
  <2>7. \A p \in below \ dirs : Len(ReadFile(p, 0, {})) = size[p]
    <3>1. \A p \in Below(path) : p \in DOMAIN files
      BY DEF Below
    <3> QED BY <2>3, <3>1, WholeFile
  <2>8. LET tree == [d \in Inside(path) |-> StatTree(d, {})]
        IN /\ StatTree(path, {}).file_count
                = StatTree(path, {0}).file_count + SumFunction([d \in Inside(path) |-> tree[d].file_count])
           /\ StatTree(path, {}).dir_count
                = StatTree(path, {0}).dir_count + SumFunction([d \in Inside(path) |-> tree[d].dir_count + 1])
           /\ StatTree(path, {}).total_bytes
                = StatTree(path, {0}).total_bytes + SumFunction([d \in Inside(path) |-> tree[d].total_bytes])
    BY <2>1, CountsAddUp
  <2>9. StatTree(path, {}).dir_count = Cardinality(below \cap dirs)
    BY <2>3, <2>4, <2>5
  <2>10. StatTree(path, {}).file_count = Cardinality(below \ dirs)
         /\ StatTree(path, {}).total_bytes = SumFunction(size)
    BY <2>3, <2>4
  <2> QED BY <2>2, <2>6, <2>7, <2>8, <2>9, <2>10 DEF path
<1> QED BY <1>1, InvHolds, PTL
=============================================================================
