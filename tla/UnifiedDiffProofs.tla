-------------------------- MODULE UnifiedDiffProofs --------------------------
(***************************************************************************)
(* What holds of UnifiedDiff for every text and every diff.  The invariant *)
(* accounts for the first x lines of the text: each is in the result, in   *)
(* its place, or was deleted.                                              *)
(***************************************************************************)
EXTENDS StandardDiff, SequenceTheorems, WellFoundedInduction, NaturalsInduction, TLAPS

\* r is what the diff has made of the first x lines of t; o says where its lines come from
\* and d which lines of t are deleted.
Accounted(t, x, r, o, d) ==
  /\ Len(o) = Len(r)
  /\ \A n \in 1 .. Len(o) : o[n] \in 0 .. x /\ (o[n] # 0 => r[n] = t[o[n]])
  /\ \A m, n \in 1 .. Len(o) : m < n /\ o[m] # 0 /\ o[n] # 0 => o[m] < o[n]
  /\ d \subseteq 1 .. x
  /\ \A p \in 1 .. x : p \in d <=> \A n \in 1 .. Len(o) : o[n] # p

\* The lines from x + 1 to y, as CopyTo adds them to origin.
Positions(x, y) == [n \in 1 .. y - x |-> x + n]

LEMMA PositionsType ==
  ASSUME NEW z \in Nat, NEW x \in Nat, NEW y \in x .. z
  PROVE  /\ Positions(x, y) \in Seq(0 .. z)
         /\ Len(Positions(x, y)) = y - x
         /\ \A n \in 1 .. y - x : Positions(x, y)[n] = x + n
<1>1. y - x \in Nat
  OBVIOUS
<1>2. Positions(x, y) \in [1 .. y - x -> 0 .. z]
  BY DEF Positions
<1>3. Positions(x, y) \in Seq(0 .. z)
  BY <1>1, <1>2, SeqDef, Zenon
<1>4. Len(Positions(x, y)) = y - x
  BY <1>1, <1>3, LenProperties, SMT DEF Positions
<1> QED BY <1>3, <1>4 DEF Positions

\* The lines after x up to y.
LEMMA Piece ==
  ASSUME NEW s \in Seq(Lines), NEW x \in Nat, NEW y \in Nat, x <= y, y <= Len(s)
  PROVE  /\ SubSeq(s, x + 1, y) \in Seq(Lines) /\ Len(SubSeq(s, x + 1, y)) = y - x
         /\ \A n \in 1 .. y - x : SubSeq(s, x + 1, y)[n] = s[x + n]
<1> DEFINE p == SubSeq(s, x + 1, y)
<1>1. \A n \in x + 1 .. y : s[n] \in Lines
  <2> SUFFICES ASSUME NEW n \in x + 1 .. y PROVE s[n] \in Lines
    OBVIOUS
  <2>1. n \in 1 .. Len(s)
    BY LenProperties
  <2> QED BY <2>1, ElementOfSeq
<1>2. /\ p \in Seq(Lines)
      /\ Len(p) = IF x + 1 <= y THEN y - (x + 1) + 1 ELSE 0
      /\ \A n \in 1 .. y - (x + 1) + 1 : p[n] = s[x + 1 + n - 1]
  <2>1. x + 1 \in Int /\ y \in Int
    OBVIOUS
  <2> QED BY <1>1, <2>1, SubSeqProperties
<1>3. Len(p) = y - x
  BY <1>2
<1>4. \A n \in 1 .. y - x : p[n] = s[x + n]
  <2> SUFFICES ASSUME NEW n \in 1 .. y - x PROVE p[n] = s[x + n]
    OBVIOUS
  <2>1. n \in 1 .. y - (x + 1) + 1 /\ x + 1 + n - 1 = x + n
    OBVIOUS
  <2> QED BY <1>2, <2>1, Zenon
<1> QED BY <1>2, <1>3, <1>4

\* Copying the lines up to y accounts for them.
LEMMA CopyAccounts ==
  ASSUME NEW t \in Seq(Lines), NEW r \in Seq(Lines), NEW o \in Seq(0 .. Len(t)), NEW d,
         NEW x \in Nat, NEW y \in Nat, x <= y, y <= Len(t),
         Accounted(t, x, r, o, d)
  PROVE  /\ r \o SubSeq(t, x + 1, y) \in Seq(Lines)
         /\ o \o Positions(x, y) \in Seq(0 .. Len(t))
         /\ Accounted(t, y, r \o SubSeq(t, x + 1, y), o \o Positions(x, y), d)
<1> DEFINE s == SubSeq(t, x + 1, y)
           q == Positions(x, y)
           r2 == r \o s
           o2 == o \o q
<1>1. /\ s \in Seq(Lines) /\ Len(s) = y - x
      /\ \A n \in 1 .. y - x : s[n] = t[x + n]
  BY Piece
<1>2. Len(t) \in Nat /\ Len(r) \in Nat /\ Len(o) \in Nat
  BY LenProperties
<1>3. /\ q \in Seq(0 .. Len(t)) /\ Len(q) = y - x
      /\ \A n \in 1 .. y - x : q[n] = x + n
  <2>1. y \in x .. Len(t)
    BY <1>2
  <2> QED BY <1>2, <2>1, PositionsType, Zenon
<1> HIDE DEF s, q
<1>4. /\ r2 \in Seq(Lines) /\ Len(r2) = Len(r) + (y - x)
      /\ \A n \in 1 .. Len(r) + (y - x) : r2[n] = IF n <= Len(r) THEN r[n] ELSE s[n - Len(r)]
  <2>1. /\ r2 \in Seq(Lines) /\ Len(r2) = Len(r) + Len(s)
        /\ \A n \in 1 .. Len(r) + Len(s) : r2[n] = IF n <= Len(r) THEN r[n] ELSE s[n - Len(r)]
    <3>1. s \in Seq(Lines)
      BY <1>1
    <3> QED BY <3>1, ConcatProperties, Zenon
  <2> QED BY <1>1, <2>1
<1>5. /\ o2 \in Seq(0 .. Len(t)) /\ Len(o2) = Len(o) + (y - x)
      /\ \A n \in 1 .. Len(o) + (y - x) : o2[n] = IF n <= Len(o) THEN o[n] ELSE q[n - Len(o)]
  <2>1. /\ o2 \in Seq(0 .. Len(t)) /\ Len(o2) = Len(o) + Len(q)
        /\ \A n \in 1 .. Len(o) + Len(q) : o2[n] = IF n <= Len(o) THEN o[n] ELSE q[n - Len(o)]
    BY <1>3, ConcatProperties, Zenon
  <2> QED BY <1>3, <2>1
<1> HIDE DEF r2, o2
<1>6. \A n \in 1 .. Len(o) : o2[n] = o[n] /\ r2[n] = r[n] /\ n \in 1 .. Len(o2)
  <2> SUFFICES ASSUME NEW n \in 1 .. Len(o)
               PROVE  o2[n] = o[n] /\ r2[n] = r[n] /\ n \in 1 .. Len(o2)
    OBVIOUS
  <2>1. Len(o) = Len(r)
    BY DEF Accounted
  <2>2. n \in 1 .. Len(o) + (y - x) /\ n <= Len(o)
    BY <1>2
  <2> QED BY <1>4, <1>5, <2>1, <2>2
<1>7. \A n \in Len(o) + 1 .. Len(o2) : o2[n] = x + (n - Len(o)) /\ r2[n] = t[o2[n]]
  <2> SUFFICES ASSUME NEW n \in Len(o) + 1 .. Len(o2)
               PROVE  o2[n] = x + (n - Len(o)) /\ r2[n] = t[o2[n]]
    OBVIOUS
  <2>1. n - Len(o) \in 1 .. y - x /\ n \in 1 .. Len(o) + (y - x) /\ ~(n <= Len(o)) /\ Len(r) = Len(o)
    BY <1>2, <1>5 DEF Accounted
  <2>2. o2[n] = q[n - Len(o)] /\ r2[n] = s[n - Len(o)]
    BY <1>4, <1>5, <2>1
  <2>3. q[n - Len(o)] = x + (n - Len(o)) /\ s[n - Len(o)] = t[x + (n - Len(o))]
    BY <1>1, <1>3, <2>1
  <2> QED BY <2>2, <2>3
<1>8. Len(o2) = Len(r2)
  BY <1>4, <1>5 DEF Accounted
<1>9. \A n \in 1 .. Len(o2) : o2[n] \in 0 .. y /\ (o2[n] # 0 => r2[n] = t[o2[n]])
  <2> SUFFICES ASSUME NEW n \in 1 .. Len(o2)
               PROVE  o2[n] \in 0 .. y /\ (o2[n] # 0 => r2[n] = t[o2[n]])
    OBVIOUS
  <2>1. CASE n <= Len(o)
    <3>1. n \in 1 .. Len(o)
      BY <1>2, <1>5, <2>1
    <3> QED BY <1>6, <3>1 DEF Accounted
  <2>2. CASE ~(n <= Len(o))
    <3>1. n \in Len(o) + 1 .. Len(o2)
      BY <1>2, <1>5, <2>2
    <3>2. o2[n] = x + (n - Len(o)) /\ r2[n] = t[o2[n]]
      BY <1>7, <3>1
    <3>3. n - Len(o) \in 1 .. y - x
      BY <1>2, <1>5, <3>1
    <3>4. o2[n] \in 0 .. y
      BY <3>2, <3>3
    <3> QED BY <3>2, <3>4
  <2> QED BY <2>1, <2>2
<1>10. \A m, n \in 1 .. Len(o2) : m < n /\ o2[m] # 0 /\ o2[n] # 0 => o2[m] < o2[n]
  <2> SUFFICES ASSUME NEW m \in 1 .. Len(o2), NEW n \in 1 .. Len(o2),
                      m < n, o2[m] # 0, o2[n] # 0
               PROVE  o2[m] < o2[n]
    OBVIOUS
  <2>1. CASE n <= Len(o)
    <3>1. m \in 1 .. Len(o) /\ n \in 1 .. Len(o)
      BY <1>2, <1>5, <2>1
    <3> QED BY <1>6, <3>1 DEF Accounted
  <2>2. CASE ~(n <= Len(o)) /\ m <= Len(o)
    <3>1. m \in 1 .. Len(o) /\ n \in Len(o) + 1 .. Len(o2)
      BY <1>2, <1>5, <2>2
    <3>2. o2[m] \in 0 .. x
      BY <1>6, <3>1 DEF Accounted
    <3>3. o2[n] = x + (n - Len(o))
      BY <1>7, <3>1
    <3> QED BY <1>2, <3>1, <3>2, <3>3
  <2>3. CASE ~(m <= Len(o))
    <3>1. m \in Len(o) + 1 .. Len(o2) /\ n \in Len(o) + 1 .. Len(o2)
      <4>1. Len(o2) = Len(o) + (y - x)
        BY <1>5
      <4> QED BY ONLY <1>2, <2>3, <4>1, m \in 1 .. Len(o2), n \in 1 .. Len(o2), m < n, x \in Nat, y \in Nat
    <3>2. o2[m] = x + (m - Len(o)) /\ o2[n] = x + (n - Len(o))
      BY <1>7, <3>1
    <3> QED BY <1>2, <3>1, <3>2
  <2> QED BY <2>1, <2>2, <2>3
<1>11. d \subseteq 1 .. y
  BY DEF Accounted
<1>12. \A p \in 1 .. y : p \in d <=> \A n \in 1 .. Len(o2) : o2[n] # p
  <2> SUFFICES ASSUME NEW p \in 1 .. y
               PROVE  p \in d <=> \A n \in 1 .. Len(o2) : o2[n] # p
    OBVIOUS
  <2>1. CASE p <= x
    <3>1. p \in 1 .. x
      BY <2>1
    <3>2. \A n \in Len(o) + 1 .. Len(o2) : o2[n] # p
      <4> SUFFICES ASSUME NEW n \in Len(o) + 1 .. Len(o2) PROVE o2[n] # p
        OBVIOUS
      <4>1. o2[n] = x + (n - Len(o))
        BY <1>7
      <4>2. n - Len(o) \in Nat \ {0}
        BY <1>2
      <4> QED BY <2>1, <4>1, <4>2
    <3>3. (\A n \in 1 .. Len(o2) : o2[n] # p) <=> (\A n \in 1 .. Len(o) : o[n] # p)
      <4>1. \A n \in 1 .. Len(o2) : n \in 1 .. Len(o) \/ n \in Len(o) + 1 .. Len(o2)
        BY <1>2, <1>5
      <4> QED BY <1>6, <3>2, <4>1
    <3> QED BY <3>1, <3>3 DEF Accounted
  <2>2. CASE ~(p <= x)
    <3>1. p \notin d
      BY <2>2 DEF Accounted
    <3>2. Len(o) + (p - x) \in Len(o) + 1 .. Len(o2) /\ Len(o) + (p - x) \in 1 .. Len(o2)
      BY <1>2, <1>5, <2>2
    <3>3. o2[Len(o) + (p - x)] = p
      BY <1>2, <1>7, <3>2
    <3> QED BY <3>1, <3>2, <3>3
  <2> QED BY <2>1, <2>2
<1>13. Accounted(t, y, r2, o2, d)
  BY <1>8, <1>9, <1>10, <1>11, <1>12 DEF Accounted
<1> QED BY <1>4, <1>5, <1>13 DEF r2, o2, s, q

\* A "-" line accounts for the line of the text it matches.
LEMMA DeleteAccounts ==
  ASSUME NEW t \in Seq(Lines), NEW r \in Seq(Lines), NEW o \in Seq(0 .. Len(t)), NEW d,
         NEW x \in Nat, x < Len(t),
         Accounted(t, x, r, o, d)
  PROVE  Accounted(t, x + 1, r, o, d \cup {x + 1})
<1>1. \A n \in 1 .. Len(o) : o[n] \in 0 .. x
  BY DEF Accounted
<1>2. \A p \in 1 .. x + 1 : p \in d \cup {x + 1} <=> \A n \in 1 .. Len(o) : o[n] # p
  <2> SUFFICES ASSUME NEW p \in 1 .. x + 1
               PROVE  p \in d \cup {x + 1} <=> \A n \in 1 .. Len(o) : o[n] # p
    OBVIOUS
  <2>1. CASE p = x + 1
    BY <1>1, <2>1
  <2>2. CASE p # x + 1
    <3>1. p \in 1 .. x
      BY <2>2
    <3> QED BY <2>2, <3>1 DEF Accounted
  <2> QED BY <2>1, <2>2
<1>3. \A n \in 1 .. Len(o) : o[n] \in 0 .. x + 1
  BY <1>1
<1>4. d \cup {x + 1} \subseteq 1 .. x + 1
  BY DEF Accounted
<1> QED BY <1>2, <1>3, <1>4 DEF Accounted

\* A line of the diff accounts for nothing and disturbs nothing.
LEMMA AddAccounts ==
  ASSUME NEW t \in Seq(Lines), NEW r \in Seq(Lines), NEW o \in Seq(0 .. Len(t)), NEW d,
         NEW x \in Nat, NEW line \in Lines,
         Accounted(t, x, r, o, d)
  PROVE  /\ Append(r, line) \in Seq(Lines)
         /\ Append(o, 0) \in Seq(0 .. Len(t))
         /\ Accounted(t, x, Append(r, line), Append(o, 0), d)
<1> DEFINE r2 == Append(r, line)
           o2 == Append(o, 0)
<1>1. Len(t) \in Nat /\ Len(r) \in Nat /\ Len(o) \in Nat
  BY LenProperties
<1>2. 0 \in 0 .. Len(t)
  BY <1>1
<1>3. /\ r2 \in Seq(Lines) /\ Len(r2) = Len(r) + 1
      /\ \A n \in 1 .. Len(r) : r2[n] = r[n]
  BY AppendProperties
<1>4. /\ o2 \in Seq(0 .. Len(t)) /\ Len(o2) = Len(o) + 1
      /\ \A n \in 1 .. Len(o) : o2[n] = o[n]
      /\ o2[Len(o) + 1] = 0
  BY <1>2, AppendProperties
<1> HIDE DEF r2, o2
<1>5. \A n \in 1 .. Len(o2) :
        \/ n \in 1 .. Len(o) /\ o2[n] = o[n] /\ r2[n] = r[n]
        \/ o2[n] = 0
  <2> SUFFICES ASSUME NEW n \in 1 .. Len(o2)
               PROVE  \/ n \in 1 .. Len(o) /\ o2[n] = o[n] /\ r2[n] = r[n]
                      \/ o2[n] = 0
    OBVIOUS
  <2>1. CASE n = Len(o) + 1
    BY <1>4, <2>1
  <2>2. CASE n # Len(o) + 1
    <3>1. n \in 1 .. Len(o) /\ n \in 1 .. Len(r)
      BY <1>1, <1>4, <2>2 DEF Accounted
    <3> QED BY <1>3, <1>4, <3>1
  <2> QED BY <2>1, <2>2
<1>6. \A n \in 1 .. Len(o) : n \in 1 .. Len(o2) /\ o2[n] = o[n]
  BY <1>1, <1>4
<1>7. Len(o2) = Len(r2)
  BY <1>3, <1>4 DEF Accounted
<1>8. \A n \in 1 .. Len(o2) : o2[n] \in 0 .. x /\ (o2[n] # 0 => r2[n] = t[o2[n]])
  <2> SUFFICES ASSUME NEW n \in 1 .. Len(o2)
               PROVE  o2[n] \in 0 .. x /\ (o2[n] # 0 => r2[n] = t[o2[n]])
    OBVIOUS
  <2>1. CASE n \in 1 .. Len(o) /\ o2[n] = o[n] /\ r2[n] = r[n]
    BY <2>1 DEF Accounted
  <2>2. CASE o2[n] = 0
    BY <2>2
  <2> QED BY <1>5, <2>1, <2>2
<1>9. \A m, n \in 1 .. Len(o2) : m < n /\ o2[m] # 0 /\ o2[n] # 0 => o2[m] < o2[n]
  <2> SUFFICES ASSUME NEW m \in 1 .. Len(o2), NEW n \in 1 .. Len(o2),
                      m < n, o2[m] # 0, o2[n] # 0
               PROVE  o2[m] < o2[n]
    OBVIOUS
  <2>1. m \in 1 .. Len(o) /\ n \in 1 .. Len(o) /\ o2[m] = o[m] /\ o2[n] = o[n]
    BY <1>5
  <2> QED BY <2>1 DEF Accounted
<1>10. \A p \in 1 .. x : p \in d <=> \A n \in 1 .. Len(o2) : o2[n] # p
  <2> SUFFICES ASSUME NEW p \in 1 .. x
               PROVE  (\A n \in 1 .. Len(o) : o[n] # p) <=> (\A n \in 1 .. Len(o2) : o2[n] # p)
    BY DEF Accounted
  <2>1. p # 0
    OBVIOUS
  <2> QED BY <1>5, <1>6, <2>1
<1>11. Accounted(t, x, r2, o2, d)
  BY <1>7, <1>8, <1>9, <1>10 DEF Accounted
<1> QED BY <1>3, <1>4, <1>11 DEF r2, o2

-----------------------------------------------------------------------------
(* The invariant.                                                          *)

DiffInv ==
  /\ TypeOK
  /\ Accounted(text, index, result, origin, deleted)
  /\ outcome = "done" => index = Len(text)

LEMMA DiffInvInit == Init => DiffInv
<1> SUFFICES ASSUME Init PROVE DiffInv
  OBVIOUS
<1>1. text \in Seq(Lines) /\ diff \in Seq(DiffLine)
  BY DiffAssumption DEF Init
<1>2. Len(text) \in Nat /\ Len(diff) \in Nat
  BY <1>1, LenProperties
<1>3. result \in Seq(Lines) /\ origin \in Seq(0 .. Len(text)) /\ Len(origin) = 0 /\ Len(result) = 0
  BY EmptySeq DEF Init
<1>4. TypeOK
  <2>1. i \in 1 .. Len(diff) + 1 /\ index \in 0 .. Len(text)
    BY <1>2 DEF Init
  <2>2. applied \in BOOLEAN /\ outcome \in {"running", "done", "raised"} /\ deleted \subseteq 1 .. Len(text)
    BY DEF Init
  <2> QED BY <1>1, <1>3, <2>1, <2>2 DEF TypeOK
<1>5. Accounted(text, index, result, origin, deleted)
  BY <1>3 DEF Init, Accounted
<1> QED BY <1>4, <1>5 DEF Init, DiffInv

\* CopyTo keeps the invariant's account and types.
LEMMA CopyToKeeps ==
  ASSUME DiffInv, NEW target \in Nat, index <= target, target <= Len(text),
         CopyTo(target), UNCHANGED <<text, deleted>>
  PROVE  /\ index' \in 0 .. Len(text) /\ result' \in Seq(Lines) /\ origin' \in Seq(0 .. Len(text))
         /\ Accounted(text, index, result, origin, deleted)'
<1>1. /\ text \in Seq(Lines) /\ result \in Seq(Lines) /\ origin \in Seq(0 .. Len(text))
      /\ Accounted(text, index, result, origin, deleted)
  BY DEF DiffInv, TypeOK
<1>2. Len(text) \in Nat /\ index \in Nat
  BY <1>1, LenProperties DEF DiffInv, TypeOK
<1>3. /\ index' = target
      /\ result' = result \o SubSeq(text, index + 1, target)
      /\ origin' = origin \o Positions(index, target)
  BY Zenon DEF CopyTo, Positions
<1>4. /\ result' \in Seq(Lines) /\ origin' \in Seq(0 .. Len(text))
      /\ Accounted(text, target, result', origin', deleted)
  BY <1>1, <1>2, <1>3, CopyAccounts
<1>5. index' \in 0 .. Len(text)
  BY <1>2, <1>3
<1> QED BY <1>3, <1>4, <1>5

LEMMA DiffInvNext == DiffInv /\ [Next]_vars => DiffInv'
<1> SUFFICES ASSUME DiffInv, [Next]_vars PROVE DiffInv'
  OBVIOUS
<1> USE DEF DiffInv, TypeOK
<1>1. Len(text) \in Nat /\ Len(diff) \in Nat /\ index \in Nat
  BY LenProperties
<1>2. \A kinds : Reads(kinds) => diff[i] \in DiffLine /\ i + 1 \in 1 .. Len(diff) + 1
  <2> SUFFICES ASSUME NEW kinds, Reads(kinds)
               PROVE  diff[i] \in DiffLine /\ i + 1 \in 1 .. Len(diff) + 1
    OBVIOUS
  <2>1. i \in 1 .. Len(diff)
    BY <1>1 DEF Reads
  <2> QED BY <1>1, <2>1, ElementOfSeq
<1>3. CASE SkipHeader
  BY <1>2, <1>3 DEF SkipHeader, Skipped, Advance, Reads
<1>4. CASE StartHunk
  <2>1. /\ diff[i] \in DiffLine /\ i + 1 \in 1 .. Len(diff) + 1 /\ outcome = "running"
        /\ index <= Target /\ Target <= Len(text) /\ CopyTo(Target)
        /\ UNCHANGED <<text, diff, outcome, deleted>> /\ i' = i + 1 /\ applied' = TRUE
    BY <1>2, <1>4 DEF StartHunk, Reads, Reachable, Advance
  <2>2. Target \in Nat
    BY <2>1 DEF Target, DiffLine
  <2>3. /\ index' \in 0 .. Len(text) /\ result' \in Seq(Lines) /\ origin' \in Seq(0 .. Len(text))
        /\ Accounted(text, index, result, origin, deleted)'
    BY <2>1, <2>2, CopyToKeeps
  <2> QED BY <2>1, <2>3
<1>5. CASE Context
  <2>1. /\ i + 1 \in 1 .. Len(diff) + 1 /\ outcome = "running" /\ index < Len(text)
        /\ CopyTo(index + 1) /\ UNCHANGED <<text, diff, applied, outcome, deleted>> /\ i' = i + 1
    BY <1>2, <1>5 DEF Context, Reads, Matches, Advance
  <2>2. index + 1 \in Nat /\ index <= index + 1 /\ index + 1 <= Len(text)
    BY <1>1, <2>1
  <2>3. /\ index' \in 0 .. Len(text) /\ result' \in Seq(Lines) /\ origin' \in Seq(0 .. Len(text))
        /\ Accounted(text, index, result, origin, deleted)'
    BY <2>1, <2>2, CopyToKeeps
  <2> QED BY <2>1, <2>3
<1>6. CASE Delete
  <2>1. /\ i + 1 \in 1 .. Len(diff) + 1 /\ outcome = "running" /\ index < Len(text)
        /\ index' = index + 1 /\ deleted' = deleted \cup {index + 1} /\ i' = i + 1
        /\ UNCHANGED <<text, diff, result, applied, outcome, origin>>
    BY <1>2, <1>6 DEF Delete, Reads, Matches, Advance
  <2>2. Accounted(text, index + 1, result, origin, deleted \cup {index + 1})
    BY <1>1, <2>1, DeleteAccounts
  <2>3. index' \in 0 .. Len(text) /\ deleted' \subseteq 1 .. Len(text)
    BY <1>1, <2>1
  <2> QED BY <2>1, <2>2, <2>3
<1>7. CASE Add
  <2>1. /\ diff[i] \in DiffLine /\ i + 1 \in 1 .. Len(diff) + 1 /\ outcome = "running"
        /\ result' = Append(result, diff[i].line) /\ origin' = Append(origin, 0) /\ i' = i + 1
        /\ UNCHANGED <<text, diff, index, applied, outcome, deleted>>
    BY <1>2, <1>7 DEF Add, Reads, Advance
  <2>2. diff[i].line \in Lines
    BY <2>1 DEF DiffLine
  <2>3. /\ result' \in Seq(Lines) /\ origin' \in Seq(0 .. Len(text))
        /\ Accounted(text, index, result', origin', deleted)
    BY <1>1, <2>1, <2>2, AddAccounts
  <2> QED BY <2>1, <2>3
<1>8. CASE IgnoreMarker
  BY <1>2, <1>8 DEF IgnoreMarker, Advance, Reads
<1>9. CASE Raise
  BY <1>9 DEF Raise
<1>10. CASE Finish
  <2>1. /\ CopyTo(Len(text)) /\ outcome' = "done"
        /\ UNCHANGED <<text, diff, i, applied, deleted>>
    BY <1>10 DEF Finish
  <2>2. /\ index' \in 0 .. Len(text) /\ result' \in Seq(Lines) /\ origin' \in Seq(0 .. Len(text))
        /\ Accounted(text, index, result, origin, deleted)'
    BY <1>1, <2>1, CopyToKeeps
  <2>3. index' = Len(text)
    BY <2>1 DEF CopyTo
  <2> QED BY <2>1, <2>2, <2>3
<1>11. CASE UNCHANGED vars
  BY <1>11 DEF vars
<1> QED BY <1>3, <1>4, <1>5, <1>6, <1>7, <1>8, <1>9, <1>10, <1>11 DEF Next

LEMMA DiffInvHolds == Spec => []DiffInv
<1> QED BY DiffInvInit, DiffInvNext, PTL DEF Spec

-----------------------------------------------------------------------------
(* The results.                                                            *)

\* The variables of the diff's machine keep their types: in particular no line of the text
\* behind its end is ever asked for.
THEOREM DiffTypeCorrect == Spec => []TypeOK
<1>1. DiffInv => TypeOK
  BY DEF DiffInv
<1> QED BY <1>1, DiffInvHolds, PTL

\* A line of the result that the diff did not bring is the line of the text it stands for.
THEOREM ResultComesFromText == Spec => []ComesFromText
<1>1. DiffInv => ComesFromText
  <2> SUFFICES ASSUME DiffInv PROVE ComesFromText
    OBVIOUS
  <2>1. DOMAIN origin = 1 .. Len(origin)
    BY LenProperties DEF DiffInv, TypeOK
  <2> QED BY <2>1 DEF DiffInv, Accounted, ComesFromText
<1> QED BY <1>1, DiffInvHolds, PTL

\* Lines of the text neither change places nor appear twice.
THEOREM OrderIsKept == Spec => []KeepsOrder
<1>1. DiffInv => KeepsOrder
  <2> SUFFICES ASSUME DiffInv PROVE KeepsOrder
    OBVIOUS
  <2>1. DOMAIN origin = 1 .. Len(origin)
    BY LenProperties DEF DiffInv, TypeOK
  <2> QED BY <2>1 DEF DiffInv, Accounted, KeepsOrder
<1> QED BY <1>1, DiffInvHolds, PTL

\* A patch that is accepted keeps every line of the text that no "-" line matched, and no
\* other.
THEOREM NothingIsLost == Spec => []LosesNothing
<1>1. DiffInv => LosesNothing
  <2> SUFFICES ASSUME DiffInv PROVE LosesNothing
    OBVIOUS
  <2>1. DOMAIN origin = 1 .. Len(origin)
    BY LenProperties DEF DiffInv, TypeOK
  <2>2. Kept \subseteq 1 .. index
    <3> SUFFICES ASSUME NEW n \in 1 .. Len(origin), origin[n] # 0
                 PROVE  origin[n] \in 1 .. index
      BY <2>1 DEF Kept
    <3>1. origin[n] \in 0 .. index
      BY DEF DiffInv, Accounted
    <3> QED BY <3>1 DEF DiffInv, TypeOK
  <2>3. \A p \in 1 .. index : p \in deleted <=> p \notin Kept
    <3> SUFFICES ASSUME NEW p \in 1 .. index PROVE p \in deleted <=> p \notin Kept
      OBVIOUS
    <3>1. p \in deleted <=> \A n \in 1 .. Len(origin) : origin[n] # p
      BY DEF DiffInv, Accounted
    <3>2. p # 0
      BY DEF DiffInv, TypeOK
    <3>3. p \notin Kept <=> \A n \in 1 .. Len(origin) : origin[n] # p
      BY <2>1, <3>2 DEF Kept
    <3> QED BY <3>1, <3>3
  <2>4. Kept \cap deleted = {}
    BY <2>2, <2>3
  <2>5. Kept \cup deleted = 1 .. index
    BY <2>2, <2>3 DEF DiffInv, Accounted
  <2> QED BY <2>4, <2>5 DEF DiffInv, LosesNothing
<1> QED BY <1>1, DiffInvHolds, PTL

-----------------------------------------------------------------------------
(* The reference, along the lines of the diff.  The library's induction     *)
(* theorems take an operator the provers cannot instantiate; a set in its   *)
(* place, that of the numbers a claim holds of, does as well.               *)

LEMMA NaturalsWellFounded == IsWellFoundedOn({p \in Nat \X Nat : p[1] < p[2]}, Nat)
BY NatLessThanWellFounded DEF OpToRel

LEMMA Induction ==
  ASSUME NEW T, 0 \in T, \A n \in Nat : n \in T => n + 1 \in T
  PROVE  Nat \subseteq T
<1> SUFFICES ASSUME Nat \ T # {} PROVE FALSE
  OBVIOUS
<1>1. PICK x \in Nat \ T : \A y \in Nat \ T : ~ (<<y, x>> \in {p \in Nat \X Nat : p[1] < p[2]})
  BY NaturalsWellFounded, WFMin
<1> DEFINE y == x - 1
<1>2. x \in Nat /\ x # 0
  BY <1>1
<1>3. y \in Nat /\ y + 1 = x /\ y < x
  BY <1>2
<1> HIDE DEF y
<1>4. y \in T
  BY <1>1, <1>3
<1> QED BY <1>1, <1>3, <1>4

\* One side of a hunk, up to line n of the diff.
SideStep(d, h, kinds, n, sofar) ==
  IF n \in Body(d, h) /\ d[n].kind \in kinds THEN Append(sofar, d[n].line) ELSE sofar

IsSide(f, d, h, kinds, m) ==
  f = [n \in h .. m |-> IF n = h THEN <<>> ELSE SideStep(d, h, kinds, n, f[n - 1])]

UpTo(d, h, kinds, n) == (CHOOSE f : IsSide(f, d, h, kinds, Len(d)))[n]

LEMMA SideExists ==
  ASSUME NEW d \in Seq(DiffLine), NEW h \in 1 .. Len(d), NEW kinds
  PROVE  \E f : IsSide(f, d, h, kinds, Len(d))
<1> DEFINE Good(k) == \E f : IsSide(f, d, h, kinds, h + k)
           T == {k \in Nat : Good(k)}
<1>1. Len(d) \in Nat /\ h \in Nat
  BY LenProperties
<1>2. 0 \in T
  <2>1. \A n \in h .. h + 0 : n = h
    BY <1>1
  <2>2. IsSide([n \in h .. h + 0 |-> <<>>], d, h, kinds, h + 0)
    BY <2>1 DEF IsSide
  <2> QED BY <2>2
<1>3. ASSUME NEW k \in Nat, k \in T PROVE k + 1 \in T
  <2>1. PICK f : IsSide(f, d, h, kinds, h + k)
    BY <1>3
  <2> DEFINE m == h + k
             g == [n \in h .. h + (k + 1) |->
                     IF n = m + 1 THEN SideStep(d, h, kinds, n, f[m]) ELSE f[n]]
  <2>2. m \in Nat /\ h + (k + 1) = m + 1 /\ h <= m
    BY <1>1
  <2>3. ASSUME NEW n \in h .. m + 1
        PROVE  g[n] = IF n = h THEN <<>> ELSE SideStep(d, h, kinds, n, g[n - 1])
    <3>1. CASE n = m + 1
      <4>1. n # h /\ n - 1 = m /\ m \in h .. m + 1 /\ m # m + 1
        BY <2>2, <3>1
      <4>2. g[m] = f[m] /\ g[n] = SideStep(d, h, kinds, n, f[m])
        BY <2>2, <3>1, <4>1
      <4> HIDE DEF g, m
      <4> QED BY <4>1, <4>2
    <3>2. CASE n # m + 1
      <4>1. n \in h .. m
        BY <2>2, <3>2
      <4>2. f[n] = IF n = h THEN <<>> ELSE SideStep(d, h, kinds, n, f[n - 1])
        BY <2>1, <4>1 DEF IsSide
      <4>3. g[n] = f[n]
        BY <2>2, <3>2
      <4>4. n # h => g[n - 1] = f[n - 1]
        <5>1. n # h => n - 1 \in h .. m + 1 /\ n - 1 # m + 1
          BY <1>1, <2>2, <4>1
        <5> QED BY <2>2, <5>1
      <4> HIDE DEF g, m
      <4> QED BY <4>2, <4>3, <4>4
    <3> QED BY <3>1, <3>2
  <2>4. g = [n \in h .. m + 1 |-> g[n]]
    BY <2>2
  <2> HIDE DEF g, m
  <2>5. IsSide(g, d, h, kinds, m + 1)
    BY <2>3, <2>4 DEF IsSide
  <2> QED BY <2>2, <2>5
<1>4. Nat \subseteq T
  <2> HIDE DEF T
  <2> QED BY <1>2, <1>3, Induction
<1>5. Len(d) - h \in Nat /\ h + (Len(d) - h) = Len(d)
  BY <1>1
<1>6. Len(d) - h \in T
  BY <1>4, <1>5
<1> QED BY <1>5, <1>6

LEMMA SideDef ==
  ASSUME NEW d \in Seq(DiffLine), NEW h \in 1 .. Len(d), NEW kinds
  PROVE  /\ UpTo(d, h, kinds, h) = <<>>
         /\ \A n \in h + 1 .. Len(d) :
              UpTo(d, h, kinds, n) = SideStep(d, h, kinds, n, UpTo(d, h, kinds, n - 1))
         /\ Side(d, h, kinds) = UpTo(d, h, kinds, Len(d))
<1> DEFINE f == CHOOSE g : IsSide(g, d, h, kinds, Len(d))
<1>1. IsSide(f, d, h, kinds, Len(d))
  BY SideExists
<1>2. Side(d, h, kinds) = UpTo(d, h, kinds, Len(d))
  BY DEF Side, UpTo, IsSide, SideStep
<1>3. \A n : UpTo(d, h, kinds, n) = f[n]
  BY DEF UpTo
<1> HIDE DEF f
<1>4. Len(d) \in Nat /\ h \in Nat /\ h \in h .. Len(d)
  BY LenProperties
<1>5. f[h] = <<>>
  BY <1>1, <1>4 DEF IsSide
<1>6. ASSUME NEW n \in h + 1 .. Len(d) PROVE f[n] = SideStep(d, h, kinds, n, f[n - 1])
  <2>1. n \in h .. Len(d) /\ n # h
    BY <1>4
  <2> QED BY <1>1, <2>1 DEF IsSide
<1> QED BY <1>2, <1>3, <1>5, <1>6

\* A side is made line by line, and what has been made of it stays.
LEMMA SideGrows ==
  ASSUME NEW d \in Seq(DiffLine), NEW h \in 1 .. Len(d), NEW kinds, NEW n \in h .. Len(d)
  PROVE  /\ UpTo(d, h, kinds, n) \in Seq(Lines)
         /\ Len(UpTo(d, h, kinds, n)) <= Len(Side(d, h, kinds))
         /\ \A k \in 1 .. Len(UpTo(d, h, kinds, n)) : Side(d, h, kinds)[k] = UpTo(d, h, kinds, n)[k]
<1> DEFINE U(m) == UpTo(d, h, kinds, m)
           S == {k \in Nat : h + k <= Len(d) => U(h + k) \in Seq(Lines)}
           Fits(u) == /\ Len(u) <= Len(Side(d, h, kinds))
                      /\ \A k \in 1 .. Len(u) : Side(d, h, kinds)[k] = u[k]
           T == {k \in Nat : h + k <= Len(d) => Fits(U(Len(d) - k))}
<1>1. Len(d) \in Nat /\ h \in Nat
  BY LenProperties
<1>2. U(h) = <<>> /\ Side(d, h, kinds) = U(Len(d))
  BY SideDef
<1>3. ASSUME NEW m \in h + 1 .. Len(d) PROVE U(m) = U(m - 1) \/ U(m) = Append(U(m - 1), d[m].line)
  <2>1. U(m) = SideStep(d, h, kinds, m, U(m - 1))
    BY SideDef
  <2> HIDE DEF U
  <2> QED BY <2>1 DEF SideStep
<1>4. ASSUME NEW m \in h + 1 .. Len(d) PROVE d[m].line \in Lines
  <2>1. d[m] \in DiffLine
    BY <1>1, ElementOfSeq
  <2> QED BY <2>1 DEF DiffLine
<1> HIDE DEF U, Fits
<1>5. Nat \subseteq S
  <2>1. 0 \in S
    <3>1. h + 0 = h
      BY <1>1
    <3> QED BY <1>2, <3>1, EmptySeq
  <2>2. ASSUME NEW k \in Nat, k \in S PROVE k + 1 \in S
    <3> SUFFICES ASSUME h + (k + 1) <= Len(d) PROVE U(h + (k + 1)) \in Seq(Lines)
      OBVIOUS
    <3> DEFINE m == h + (k + 1)
    <3>1. m \in h + 1 .. Len(d) /\ m - 1 = h + k /\ h + k <= Len(d)
      BY <1>1
    <3>2. U(m - 1) \in Seq(Lines)
      BY <2>2, <3>1
    <3> HIDE DEF m
    <3>3. U(m) \in Seq(Lines)
      <4>1. U(m) = U(m - 1) \/ U(m) = Append(U(m - 1), d[m].line)
        BY <1>3, <3>1
      <4>2. Append(U(m - 1), d[m].line) \in Seq(Lines)
        BY <1>4, <3>1, <3>2, AppendProperties
      <4> QED BY <3>2, <4>1, <4>2
    <3> QED BY <3>3 DEF m
  <2> HIDE DEF S
  <2> QED BY <2>1, <2>2, Induction
<1>6. ASSUME NEW m \in h .. Len(d) PROVE U(m) \in Seq(Lines)
  <2>1. m - h \in Nat /\ h + (m - h) = m /\ m <= Len(d)
    BY <1>1
  <2>2. m - h \in S
    BY <1>5, <2>1
  <2> QED BY <2>1, <2>2
<1>7. Nat \subseteq T
  <2>1. 0 \in T
    <3>1. Len(d) - 0 = Len(d) /\ Len(d) \in h .. Len(d)
      BY <1>1
    <3>2. Len(U(Len(d))) \in Nat
      BY <1>6, <3>1, LenProperties
    <3>3. Fits(U(Len(d)))
      BY <1>2, <3>2 DEF Fits
    <3> QED BY <3>1, <3>3
  <2>2. ASSUME NEW k \in Nat, k \in T PROVE k + 1 \in T
    <3> SUFFICES ASSUME h + (k + 1) <= Len(d) PROVE Fits(U(Len(d) - (k + 1)))
      OBVIOUS
    <3> DEFINE m == Len(d) - k
    <3>1. m \in h + 1 .. Len(d) /\ Len(d) - (k + 1) = m - 1 /\ h + k <= Len(d) /\ m - 1 \in h .. Len(d)
      BY <1>1
    <3>2. Fits(U(m))
      BY <2>2, <3>1
    <3> HIDE DEF m
    <3>3. U(m - 1) \in Seq(Lines) /\ Len(U(m - 1)) \in Nat
      BY <1>6, <3>1, LenProperties
    <3>4. CASE U(m) = U(m - 1)
      BY <3>1, <3>2, <3>4
    <3>5. CASE U(m) = Append(U(m - 1), d[m].line)
      <4>1. Len(U(m)) = Len(U(m - 1)) + 1 /\ \A j \in 1 .. Len(U(m - 1)) : U(m)[j] = U(m - 1)[j]
        BY <1>4, <3>1, <3>3, <3>5, AppendProperties
      <4>2. Len(Side(d, h, kinds)) \in Nat
        <5>1. Len(d) \in h .. Len(d)
          BY <1>1
        <5> QED BY <1>2, <1>6, <5>1, LenProperties
      <4>3. Fits(U(m - 1))
        BY <3>2, <3>3, <4>1, <4>2 DEF Fits
      <4> QED BY <3>1, <4>3
    <3> QED BY <1>3, <3>1, <3>4, <3>5
  <2> HIDE DEF T
  <2> QED BY <2>1, <2>2, Induction
<1>8. Len(d) - n \in Nat /\ Len(d) - (Len(d) - n) = n /\ h + (Len(d) - n) <= Len(d)
  BY <1>1
<1>9. Len(d) - n \in T
  BY <1>7, <1>8
<1>10. Fits(U(n))
  BY <1>8, <1>9
<1>11. U(n) \in Seq(Lines)
  BY <1>6
<1> QED BY <1>10, <1>11 DEF Fits, U

LEMMA SideType ==
  ASSUME NEW d \in Seq(DiffLine), NEW h \in 1 .. Len(d), NEW kinds
  PROVE  Side(d, h, kinds) \in Seq(Lines) /\ Len(Side(d, h, kinds)) \in Nat
<1>1. Len(d) \in h .. Len(d)
  BY LenProperties
<1>2. Side(d, h, kinds) = UpTo(d, h, kinds, Len(d))
  BY SideDef
<1>3. UpTo(d, h, kinds, Len(d)) \in Seq(Lines)
  BY <1>1, SideGrows
<1> QED BY <1>2, <1>3, LenProperties

\* The line that is read next is the next line of each side it belongs to.
LEMMA SideNext ==
  ASSUME NEW d \in Seq(DiffLine), NEW h \in 1 .. Len(d), NEW kinds, NEW n \in Body(d, h)
  PROVE  /\ n \in h + 1 .. Len(d) /\ n - 1 \in h .. Len(d)
         /\ d[n].kind \notin kinds => UpTo(d, h, kinds, n) = UpTo(d, h, kinds, n - 1)
         /\ d[n].kind \in kinds =>
              LET u == UpTo(d, h, kinds, n - 1)
              IN /\ UpTo(d, h, kinds, n) = Append(u, d[n].line)
                 /\ Len(UpTo(d, h, kinds, n)) = Len(u) + 1
                 /\ Len(u) + 1 <= Len(Side(d, h, kinds))
                 /\ Side(d, h, kinds)[Len(u) + 1] = d[n].line
<1>1. Len(d) \in Nat /\ h \in Nat
  BY LenProperties
<1>2. n \in h + 1 .. Len(d) /\ n - 1 \in h .. Len(d) /\ n \in h .. Len(d) /\ n \in 1 .. Len(d)
  BY <1>1 DEF Body
<1>3. UpTo(d, h, kinds, n) = SideStep(d, h, kinds, n, UpTo(d, h, kinds, n - 1))
  BY <1>2, SideDef
<1>4. d[n].line \in Lines
  <2>1. d[n] \in DiffLine
    BY <1>2, ElementOfSeq
  <2> QED BY <2>1 DEF DiffLine
<1>5. UpTo(d, h, kinds, n - 1) \in Seq(Lines)
  BY <1>2, SideGrows
<1>6. ASSUME d[n].kind \in kinds
      PROVE  LET u == UpTo(d, h, kinds, n - 1)
             IN /\ UpTo(d, h, kinds, n) = Append(u, d[n].line)
                /\ Len(UpTo(d, h, kinds, n)) = Len(u) + 1
                /\ Len(u) + 1 <= Len(Side(d, h, kinds))
                /\ Side(d, h, kinds)[Len(u) + 1] = d[n].line
  <2> DEFINE u == UpTo(d, h, kinds, n - 1)
             v == UpTo(d, h, kinds, n)
  <2>1. v = Append(u, d[n].line)
    BY <1>3, <1>6 DEF SideStep
  <2>2. Len(v) = Len(u) + 1 /\ v[Len(u) + 1] = d[n].line /\ Len(u) \in Nat
    BY <1>4, <1>5, <2>1, AppendProperties, LenProperties
  <2>3. Len(v) <= Len(Side(d, h, kinds)) /\ \A k \in 1 .. Len(v) : Side(d, h, kinds)[k] = v[k]
    BY <1>2, SideGrows
  <2> HIDE DEF u, v
  <2>4. Len(u) + 1 \in 1 .. Len(v)
    BY <2>2
  <2>5. Len(u) + 1 <= Len(Side(d, h, kinds)) /\ Side(d, h, kinds)[Len(u) + 1] = d[n].line
    BY <2>2, <2>3, <2>4
  <2> QED BY <2>1, <2>2, <2>5 DEF u, v
<1>7. ASSUME d[n].kind \notin kinds PROVE UpTo(d, h, kinds, n) = UpTo(d, h, kinds, n - 1)
  BY <1>3, <1>7 DEF SideStep
<1> QED BY <1>2, <1>6, <1>7

\* Behind the body a side is complete.
LEMMA SideComplete ==
  ASSUME NEW d \in Seq(DiffLine), NEW h \in 1 .. Len(d), NEW kinds, NEW n \in h .. Len(d),
         n < Len(d) => n + 1 \in Headers(d)
  PROVE  UpTo(d, h, kinds, n) = Side(d, h, kinds)
<1>1. Len(d) \in Nat /\ h \in Nat
  BY LenProperties
<1> DEFINE T == {k \in Nat : n + k <= Len(d) => UpTo(d, h, kinds, n + k) = UpTo(d, h, kinds, n)}
<1>2. 0 \in T
  <2>1. n + 0 = n
    BY <1>1
  <2> QED BY <2>1
<1>3. ASSUME NEW k \in Nat, k \in T PROVE k + 1 \in T
  <2> SUFFICES ASSUME n + (k + 1) <= Len(d) PROVE UpTo(d, h, kinds, n + (k + 1)) = UpTo(d, h, kinds, n)
    OBVIOUS
  <2> DEFINE m == n + (k + 1)
  <2>1. m \in h + 1 .. Len(d) /\ m - 1 = n + k /\ n + k <= Len(d) /\ n + 1 \in h + 1 .. m /\ n < Len(d)
    BY <1>1
  <2>2. m \notin Body(d, h)
    BY <2>1 DEF Body
  <2>3. UpTo(d, h, kinds, m) = UpTo(d, h, kinds, m - 1)
    <3>1. UpTo(d, h, kinds, m) = SideStep(d, h, kinds, m, UpTo(d, h, kinds, m - 1))
      BY <2>1, SideDef
    <3> HIDE DEF m
    <3> QED BY <2>2, <3>1 DEF SideStep
  <2> QED BY <1>3, <2>1, <2>3
<1>4. Nat \subseteq T
  <2> HIDE DEF T
  <2> QED BY <1>2, <1>3, Induction
<1>5. Len(d) - n \in Nat /\ n + (Len(d) - n) = Len(d)
  BY <1>1
<1>6. UpTo(d, h, kinds, Len(d)) = UpTo(d, h, kinds, n)
  <2>1. Len(d) - n \in T
    BY <1>4, <1>5
  <2> QED BY <1>1, <1>5, <2>1
<1> QED BY <1>6, SideDef

Rest(s, x) == SubSeq(s, x + 1, Len(s))

LEMMA RestOfConcat ==
  ASSUME NEW a \in Seq(Lines), NEW b \in Seq(Lines), NEW x \in Nat, x <= Len(a)
  PROVE  Rest(a \o b, x) = Rest(a, x) \o b
<1> DEFINE ab == a \o b
           ra == Rest(a, x)
<1>1. Len(a) \in Nat /\ Len(b) \in Nat
  BY LenProperties
<1>2. /\ ab \in Seq(Lines) /\ Len(ab) = Len(a) + Len(b)
      /\ \A n \in 1 .. Len(a) + Len(b) : ab[n] = IF n <= Len(a) THEN a[n] ELSE b[n - Len(a)]
  BY ConcatProperties
<1>3. /\ ra \in Seq(Lines) /\ Len(ra) = Len(a) - x
      /\ \A n \in 1 .. Len(a) - x : ra[n] = a[x + n]
  BY <1>1, Piece DEF Rest
<1> HIDE DEF ab, ra
<1>4. /\ Rest(ab, x) \in Seq(Lines) /\ Len(Rest(ab, x)) = Len(ab) - x
      /\ \A n \in 1 .. Len(ab) - x : Rest(ab, x)[n] = ab[x + n]
  <2>1. x <= Len(ab) /\ Len(ab) \in Nat
    BY <1>1, <1>2
  <2> QED BY <1>2, <2>1, Piece DEF Rest
<1>5. /\ ra \o b \in Seq(Lines) /\ Len(ra \o b) = Len(ra) + Len(b)
      /\ \A n \in 1 .. Len(ra) + Len(b) : (ra \o b)[n] = IF n <= Len(ra) THEN ra[n] ELSE b[n - Len(ra)]
  BY <1>3, ConcatProperties
<1>6. Len(Rest(ab, x)) = Len(ra \o b)
  BY <1>1, <1>2, <1>3, <1>4, <1>5
<1>7. ASSUME NEW n \in 1 .. Len(Rest(ab, x)) PROVE Rest(ab, x)[n] = (ra \o b)[n]
  <2>1. n \in 1 .. Len(ab) - x /\ x + n \in 1 .. Len(a) + Len(b) /\ n \in 1 .. Len(ra) + Len(b)
    BY <1>1, <1>2, <1>3, <1>4
  <2>2. CASE n <= Len(ra)
    <3>1. x + n <= Len(a) /\ n \in 1 .. Len(a) - x
      BY <1>1, <1>3, <2>1, <2>2
    <3>2. Rest(ab, x)[n] = ab[x + n] /\ ab[x + n] = a[x + n]
      BY <1>2, <1>4, <2>1, <3>1
    <3>3. (ra \o b)[n] = ra[n] /\ ra[n] = a[x + n]
      BY <1>3, <1>5, <2>1, <2>2, <3>1
    <3> QED BY <3>2, <3>3
  <2>3. CASE ~ (n <= Len(ra))
    <3>1. ~ (x + n <= Len(a)) /\ x + n - Len(a) = n - Len(ra)
      BY <1>1, <1>3, <2>1, <2>3
    <3>2. Rest(ab, x)[n] = ab[x + n] /\ ab[x + n] = b[x + n - Len(a)]
      BY <1>2, <1>4, <2>1, <3>1
    <3>3. (ra \o b)[n] = b[n - Len(ra)]
      BY <1>5, <2>1, <2>3
    <3> QED BY <3>1, <3>2, <3>3
  <2> QED BY <2>2, <2>3
<1>8. Rest(ab, x) = ra \o b
  BY <1>4, <1>5, <1>6, <1>7, SeqEqual
<1> QED BY <1>8 DEF ab, ra

\* The text with the hunks from line n of the diff on replaced.
FromStep(d, n, rest) ==
  IF n \in Headers(d)
  THEN SubSeq(rest, 1, Before(d, n)) \o NewSide(d, n) \o SubSeq(rest, After(d, n) + 1, Len(rest))
  ELSE rest

IsFrom(f, t, d, m) ==
  f = [n \in m .. Len(d) + 1 |-> IF n = Len(d) + 1 THEN t ELSE FromStep(d, n, f[n + 1])]

FromAt(t, d, n) == (CHOOSE f : IsFrom(f, t, d, 1))[n]

LEMMA FromExists ==
  ASSUME NEW t, NEW d \in Seq(DiffLine)
  PROVE  \E f : IsFrom(f, t, d, 1)
<1> DEFINE end == Len(d) + 1
           T == {k \in Nat : k < end => \E f : IsFrom(f, t, d, end - k)}
<1>1. end \in Nat /\ end >= 1 /\ end = Len(d) + 1
  BY LenProperties
<1> HIDE DEF end
<1>2. 0 \in T
  <2>1. end - 0 = end /\ \A n \in end .. end : n = end
    BY <1>1
  <2>2. IsFrom([n \in end .. end |-> t], t, d, end)
    BY <1>1, <2>1 DEF IsFrom
  <2> QED BY <2>1, <2>2
<1>3. ASSUME NEW k \in Nat, k \in T PROVE k + 1 \in T
  <2> SUFFICES ASSUME k + 1 < end PROVE \E f : IsFrom(f, t, d, end - (k + 1))
    OBVIOUS
  <2> DEFINE m == end - k
  <2>1. m \in 2 .. end /\ end - (k + 1) = m - 1 /\ k < end
    BY <1>1
  <2>2. PICK f : IsFrom(f, t, d, m)
    BY <1>3, <2>1
  <2> HIDE DEF m
  <2> DEFINE g == [n \in m - 1 .. end |-> IF n = m - 1 THEN FromStep(d, n, f[m]) ELSE f[n]]
  <2>3. ASSUME NEW n \in m - 1 .. end
        PROVE  g[n] = IF n = end THEN t ELSE FromStep(d, n, g[n + 1])
    <3>1. CASE n = m - 1
      <4>1. n # end /\ n + 1 = m /\ m \in m - 1 .. end /\ m # m - 1
        BY <1>1, <2>1, <3>1
      <4>2. g[m] = f[m] /\ g[n] = FromStep(d, n, f[m])
        BY <3>1, <4>1
      <4> HIDE DEF g
      <4> QED BY <4>1, <4>2
    <3>2. CASE n # m - 1
      <4>1. n \in m .. end
        BY <1>1, <2>1, <3>2
      <4>2. f[n] = IF n = end THEN t ELSE FromStep(d, n, f[n + 1])
        BY <1>1, <2>2, <4>1 DEF IsFrom
      <4>3. g[n] = f[n]
        BY <3>2
      <4>4. n # end => g[n + 1] = f[n + 1]
        <5>1. n # end => n + 1 \in m - 1 .. end /\ n + 1 # m - 1
          BY <1>1, <2>1, <4>1
        <5> QED BY <5>1
      <4> HIDE DEF g
      <4> QED BY <4>2, <4>3, <4>4
    <3> QED BY <3>1, <3>2
  <2>4. g = [n \in m - 1 .. end |-> g[n]]
    OBVIOUS
  <2> HIDE DEF g
  <2>5. IsFrom(g, t, d, m - 1)
    BY <1>1, <2>3, <2>4 DEF IsFrom
  <2> QED BY <2>1, <2>5
<1>4. Nat \subseteq T
  <2> HIDE DEF T
  <2> QED BY <1>2, <1>3, Induction
<1>5. end - 1 \in Nat /\ end - (end - 1) = 1 /\ end - 1 < end
  BY <1>1
<1>6. end - 1 \in T
  BY <1>4, <1>5
<1> QED BY <1>5, <1>6

LEMMA FromDef ==
  ASSUME NEW t, NEW d \in Seq(DiffLine)
  PROVE  /\ FromAt(t, d, Len(d) + 1) = t
         /\ \A n \in 1 .. Len(d) : FromAt(t, d, n) = FromStep(d, n, FromAt(t, d, n + 1))
         /\ Patched(t, d) = FromAt(t, d, 1)
<1> DEFINE f == CHOOSE g : IsFrom(g, t, d, 1)
<1>1. IsFrom(f, t, d, 1)
  BY FromExists
<1>2. Patched(t, d) = FromAt(t, d, 1)
  BY DEF Patched, FromAt, IsFrom, FromStep
<1>3. \A n : FromAt(t, d, n) = f[n]
  BY DEF FromAt
<1> HIDE DEF f
<1>4. Len(d) \in Nat /\ Len(d) + 1 \in 1 .. Len(d) + 1
  BY LenProperties
<1>5. f[Len(d) + 1] = t
  BY <1>1, <1>4 DEF IsFrom
<1>6. ASSUME NEW n \in 1 .. Len(d) PROVE f[n] = FromStep(d, n, f[n + 1])
  <2>1. n \in 1 .. Len(d) + 1 /\ n # Len(d) + 1
    BY <1>4
  <2> QED BY <1>1, <2>1 DEF IsFrom
<1> QED BY <1>2, <1>3, <1>5, <1>6

\* Where the hunks of a correct diff lie.
LEMMA Places ==
  ASSUME NEW t \in Seq(Lines), NEW d \in Seq(DiffLine), Correct(t, d), NEW h \in Headers(d)
  PROVE  /\ h \in 1 .. Len(d) /\ h \in Nat
         /\ Before(d, h) \in Nat /\ After(d, h) \in Nat
         /\ Before(d, h) <= After(d, h) /\ After(d, h) <= Len(t)
         /\ After(d, h) - Before(d, h) = Len(OldSide(d, h))
         /\ \A g \in Headers(d) : h < g => After(d, h) <= Before(d, g)
<1>1. Len(d) \in Nat /\ DOMAIN d = 1 .. Len(d) /\ Len(t) \in Nat
  BY LenProperties
<1>2. h \in 1 .. Len(d) /\ h \in Nat
  BY <1>1 DEF Headers
<1>3. d[h] \in DiffLine
  BY <1>2, ElementOfSeq
<1>4. d[h].start \in Nat /\ d[h].count \in Nat
  BY <1>3 DEF DiffLine
<1>5. 0 <= Before(d, h) /\ After(d, h) <= Len(t) /\ d[h].count = Len(OldSide(d, h))
  BY DEF Correct
<1>6. Before(d, h) \in Int /\ After(d, h) = Before(d, h) + d[h].count
  BY <1>4 DEF Before, After
<1>7. \A g \in Headers(d) : h < g => After(d, h) <= Before(d, g)
  BY DEF Correct
<1> QED BY <1>1, <1>2, <1>4, <1>5, <1>6, <1>7

\* In front of the hunks that are still to come the text is what it was.
LEMMA Agrees ==
  ASSUME NEW t \in Seq(Lines), NEW d \in Seq(DiffLine), Correct(t, d),
         NEW n \in 1 .. Len(d) + 1
  PROVE  /\ FromAt(t, d, n) \in Seq(Lines)
         /\ \A y \in 0 .. Len(t) :
              (\A h \in Headers(d) : n <= h => y <= Before(d, h))
                => /\ y <= Len(FromAt(t, d, n))
                   /\ \A k \in 1 .. y : FromAt(t, d, n)[k] = t[k]
<1> DEFINE end == Len(d) + 1
           F(m) == FromAt(t, d, m)
           Same(m) == \A y \in 0 .. Len(t) :
                        (\A h \in Headers(d) : m <= h => y <= Before(d, h))
                          => y <= Len(F(m)) /\ \A k \in 1 .. y : F(m)[k] = t[k]
           Good(m) == F(m) \in Seq(Lines) /\ Same(m)
           T == {k \in Nat : k < end => Good(end - k)}
<1>1. end \in Nat /\ end >= 1 /\ Len(t) \in Nat /\ Len(d) + 1 = end /\ Len(d) = end - 1
  BY LenProperties
<1> HIDE DEF end
<1>2. F(end) = t /\ \A m \in 1 .. end - 1 : F(m) = FromStep(d, m, F(m + 1))
  <2>1. /\ FromAt(t, d, Len(d) + 1) = t
        /\ \A m \in 1 .. Len(d) : FromAt(t, d, m) = FromStep(d, m, FromAt(t, d, m + 1))
    BY FromDef
  <2> QED BY <1>1, <2>1
<1> HIDE DEF F
<1>3. ASSUME NEW m \in 1 .. end - 1, Good(m + 1) PROVE Good(m)
  <2>1. F(m) = FromStep(d, m, F(m + 1))
    BY <1>2
  <2>2. CASE m \notin Headers(d)
    <3>1. F(m) = F(m + 1)
      BY <2>1, <2>2 DEF FromStep
    <3>2. \A h \in Headers(d) : m <= h <=> m + 1 <= h
      <4> SUFFICES ASSUME NEW h \in Headers(d) PROVE m <= h <=> m + 1 <= h
        OBVIOUS
      <4>1. h \in Nat /\ h # m
        BY <2>2, Places
      <4> QED BY <1>1, <4>1
    <3> QED BY <1>3, <3>1, <3>2, Zenon
  <2>3. CASE m \in Headers(d)
    <3> DEFINE b == Before(d, m)
               a == After(d, m)
               G == F(m + 1)
    <3>1. /\ b \in Nat /\ a \in Nat /\ b <= a /\ a <= Len(t)
          /\ \A g \in Headers(d) : m < g => a <= Before(d, g)
      BY <2>3, Places
    <3>2. G \in Seq(Lines) /\ Len(G) \in Nat
      BY <1>3, LenProperties
    <3>3. \A h \in Headers(d) : m + 1 <= h => a <= Before(d, h) /\ b <= Before(d, h)
      <4> SUFFICES ASSUME NEW h \in Headers(d), m + 1 <= h
                   PROVE  a <= Before(d, h) /\ b <= Before(d, h)
        OBVIOUS
      <4>1. h \in Nat /\ Before(d, h) \in Nat
        BY Places
      <4>2. m < h
        BY <1>1, <4>1
      <4> QED BY <3>1, <4>1, <4>2
    <3>4. a <= Len(G)
      BY <1>1, <1>3, <3>1, <3>3
    <3>5. b <= Len(G) /\ \A k \in 1 .. b : G[k] = t[k]
      BY <1>1, <1>3, <3>1, <3>3
    <3> DEFINE new == NewSide(d, m)
               front == SubSeq(G, 1, b)
               back == SubSeq(G, a + 1, Len(G))
    <3>6. F(m) = front \o new \o back
      BY <2>1, <2>3 DEF FromStep
    <3> HIDE DEF b, a, G
    <3>7. new \in Seq(Lines)
      BY <1>1, SideType DEF NewSide
    <3>8. /\ front \in Seq(Lines) /\ Len(front) = b
          /\ \A k \in 1 .. b : front[k] = G[k]
      <4>1. /\ SubSeq(G, 0 + 1, b) \in Seq(Lines) /\ Len(SubSeq(G, 0 + 1, b)) = b - 0
            /\ \A k \in 1 .. b - 0 : SubSeq(G, 0 + 1, b)[k] = G[0 + k]
        BY <3>1, <3>2, <3>5, Piece
      <4> QED BY <3>1, <4>1
    <3>9. back \in Seq(Lines)
      BY <3>1, <3>2, <3>4, Piece
    <3> HIDE DEF new, front, back
    <3>10. /\ front \o new \in Seq(Lines) /\ Len(front \o new) = b + Len(new) /\ Len(new) \in Nat
           /\ \A k \in 1 .. b + Len(new) : (front \o new)[k] = IF k <= b THEN front[k] ELSE new[k - b]
      BY <3>7, <3>8, ConcatProperties, LenProperties
    <3>11. /\ F(m) \in Seq(Lines) /\ Len(F(m)) = b + Len(new) + Len(back) /\ Len(back) \in Nat
           /\ \A k \in 1 .. b + Len(new) + Len(back) :
                F(m)[k] = IF k <= b + Len(new) THEN (front \o new)[k] ELSE back[k - (b + Len(new))]
      BY <3>6, <3>9, <3>10, ConcatProperties, LenProperties
    <3>12. ASSUME NEW y \in 0 .. Len(t), \A h \in Headers(d) : m <= h => y <= Before(d, h)
           PROVE  y <= Len(F(m)) /\ \A k \in 1 .. y : F(m)[k] = t[k]
      <4>1. y <= b /\ y \in Nat
        BY <1>1, <2>3, <3>12 DEF b
      <4>2. ASSUME NEW k \in 1 .. y PROVE F(m)[k] = t[k]
        <5>1. k \in 1 .. b /\ k <= b /\ k \in 1 .. b + Len(new) /\ k <= b + Len(new)
              /\ k \in 1 .. b + Len(new) + Len(back)
          BY <3>1, <3>10, <3>11, <4>1
        <5>2. F(m)[k] = (front \o new)[k]
          BY <3>11, <5>1
        <5>3. (front \o new)[k] = front[k]
          BY <3>10, <5>1
        <5> QED BY <3>5, <3>8, <5>1, <5>2, <5>3
      <4> QED BY <3>1, <3>10, <3>11, <4>1, <4>2
    <3> QED BY <3>11, <3>12
  <2> QED BY <2>2, <2>3
<1>4. Good(end)
  <2>1. \A y \in 0 .. Len(t) : y <= Len(t)
    BY <1>1
  <2> QED BY <1>2, <2>1
<1> HIDE DEF Good
<1>5. 0 \in T
  BY <1>1, <1>4
<1>6. ASSUME NEW k \in Nat, k \in T PROVE k + 1 \in T
  <2> SUFFICES ASSUME k + 1 < end PROVE Good(end - (k + 1))
    OBVIOUS
  <2>1. end - (k + 1) \in 1 .. end - 1 /\ end - (k + 1) + 1 = end - k /\ k < end
    BY <1>1
  <2>2. Good(end - k)
    BY <1>6, <2>1
  <2> QED BY <1>3, <2>1, <2>2
<1>7. Nat \subseteq T
  <2> HIDE DEF T
  <2> QED BY <1>5, <1>6, Induction
<1>8. end - n \in Nat /\ end - n < end /\ end - (end - n) = n
  BY <1>1
<1>9. Good(n)
  BY <1>7, <1>8
<1> QED BY <1>9 DEF Good, F

\* Lines that are no hunk header leave the text as it is.
LEMMA SameFrom ==
  ASSUME NEW t, NEW d \in Seq(DiffLine), NEW n \in Nat, NEW m \in Nat,
         1 <= n, n <= m, m <= Len(d) + 1, \A h \in n .. m - 1 : h \notin Headers(d)
  PROVE  FromAt(t, d, n) = FromAt(t, d, m)
<1> DEFINE T == {k \in Nat : k <= m - n => FromAt(t, d, m - k) = FromAt(t, d, m)}
<1>1. Len(d) \in Nat
  BY LenProperties
<1>2. 0 \in T
  <2>1. m - 0 = m
    OBVIOUS
  <2> QED BY <2>1
<1>3. ASSUME NEW k \in Nat, k \in T PROVE k + 1 \in T
  <2> SUFFICES ASSUME k + 1 <= m - n PROVE FromAt(t, d, m - (k + 1)) = FromAt(t, d, m)
    OBVIOUS
  <2> DEFINE j == m - (k + 1)
  <2>1. j \in 1 .. Len(d) /\ j \in n .. m - 1 /\ j + 1 = m - k /\ k <= m - n
    BY <1>1
  <2>2. FromAt(t, d, j + 1) = FromAt(t, d, m)
    BY <1>3, <2>1
  <2> HIDE DEF j
  <2>3. FromAt(t, d, j) = FromStep(d, j, FromAt(t, d, j + 1))
    BY <2>1, FromDef
  <2>4. FromAt(t, d, j) = FromAt(t, d, m)
    BY <2>1, <2>2, <2>3 DEF FromStep
  <2> QED BY <2>4 DEF j
<1>4. Nat \subseteq T
  <2> HIDE DEF T
  <2> QED BY <1>2, <1>3, Induction
<1>5. m - n \in Nat /\ m - (m - n) = n
  OBVIOUS
<1>6. m - n \in T
  BY <1>4, <1>5
<1> QED BY <1>5, <1>6

LEMMA SamePiece ==
  ASSUME NEW s \in Seq(Lines), NEW t \in Seq(Lines), NEW x \in Nat, NEW y \in Nat,
         x <= y, y <= Len(s), y <= Len(t), \A k \in 1 .. y : s[k] = t[k]
  PROVE  SubSeq(s, x + 1, y) = SubSeq(t, x + 1, y)
<1> DEFINE p == SubSeq(s, x + 1, y)
           q == SubSeq(t, x + 1, y)
<1>1. p \in Seq(Lines) /\ Len(p) = y - x /\ \A n \in 1 .. y - x : p[n] = s[x + n]
  BY Piece
<1>2. q \in Seq(Lines) /\ Len(q) = y - x /\ \A n \in 1 .. y - x : q[n] = t[x + n]
  BY Piece
<1> HIDE DEF p, q
<1>3. ASSUME NEW n \in 1 .. Len(p) PROVE p[n] = q[n]
  <2>1. n \in 1 .. y - x /\ x + n \in 1 .. y
    BY <1>1
  <2> QED BY <1>1, <1>2, <2>1
<1>4. p = q
  BY <1>1, <1>2, <1>3, SeqEqual
<1> QED BY <1>4 DEF p, q

\* What a header says of the lines from x on: those up to the hunk stay, those of its old
\* side are replaced by its new side.
LEMMA HunkRest ==
  ASSUME NEW t \in Seq(Lines), NEW d \in Seq(DiffLine), Correct(t, d), NEW h \in Headers(d),
         NEW x \in Nat, x <= Before(d, h)
  PROVE  /\ SubSeq(t, x + 1, Before(d, h)) \in Seq(Lines)
         /\ NewSide(d, h) \in Seq(Lines)
         /\ Rest(FromAt(t, d, h + 1), After(d, h)) \in Seq(Lines)
         /\ Rest(FromAt(t, d, h), x)
              = SubSeq(t, x + 1, Before(d, h)) \o NewSide(d, h)
                  \o Rest(FromAt(t, d, h + 1), After(d, h))
<1> DEFINE F == FromAt(t, d, h + 1)
           b == Before(d, h)
           a == After(d, h)
           new == NewSide(d, h)
           front == SubSeq(F, 1, b)
           back == Rest(F, a)
<1>1. /\ h \in 1 .. Len(d) /\ b \in Nat /\ a \in Nat /\ b <= a /\ a <= Len(t)
      /\ \A g \in Headers(d) : h < g => a <= Before(d, g)
      /\ Len(t) \in Nat /\ Len(d) \in Nat
  BY Places, LenProperties
<1>2. \A g \in Headers(d) : h + 1 <= g => a <= Before(d, g)
  <2> SUFFICES ASSUME NEW g \in Headers(d), h + 1 <= g PROVE a <= Before(d, g)
    OBVIOUS
  <2>1. g \in Nat
    BY Places
  <2>2. h < g
    BY <1>1, <2>1
  <2> QED BY <1>1, <2>2
<1>3. F \in Seq(Lines) /\ a <= Len(F) /\ \A k \in 1 .. a : F[k] = t[k]
  <2>1. h + 1 \in 1 .. Len(d) + 1 /\ a \in 0 .. Len(t)
    BY <1>1
  <2> HIDE DEF a
  <2> QED BY <1>2, <2>1, Agrees
<1>4. FromAt(t, d, h) = front \o new \o back
  <2>1. FromAt(t, d, h) = FromStep(d, h, F)
    BY <1>1, FromDef
  <2> QED BY <2>1 DEF FromStep, Rest
<1>5. new \in Seq(Lines)
  BY <1>1, SideType DEF NewSide
<1> HIDE DEF F, b, a, new
<1>6. Len(F) \in Nat /\ b <= Len(F) /\ b <= Len(t) /\ \A k \in 1 .. b : F[k] = t[k]
  BY <1>1, <1>3, LenProperties
<1>7. back \in Seq(Lines)
  BY <1>1, <1>3, <1>6, Piece DEF Rest
<1>8. front \in Seq(Lines) /\ Len(front) = b /\ \A k \in 1 .. b : front[k] = F[k]
  <2>1. /\ SubSeq(F, 0 + 1, b) \in Seq(Lines) /\ Len(SubSeq(F, 0 + 1, b)) = b - 0
        /\ \A k \in 1 .. b - 0 : SubSeq(F, 0 + 1, b)[k] = F[0 + k]
    BY <1>1, <1>3, <1>6, Piece
  <2> QED BY <1>1, <2>1
<1>9. SubSeq(t, x + 1, b) \in Seq(Lines)
  BY <1>1, <1>6, Piece DEF b
<1> HIDE DEF front, back
<1>10. Rest(front, x) = SubSeq(t, x + 1, b)
  <2>1. b <= Len(front) /\ x <= b /\ \A k \in 1 .. b : front[k] = t[k]
    BY <1>1, <1>6, <1>8 DEF b
  <2>2. SubSeq(front, x + 1, b) = SubSeq(t, x + 1, b)
    <3>1. b \in Nat /\ b <= Len(t) /\ front \in Seq(Lines)
      BY <1>1, <1>6, <1>8
    <3> QED BY <2>1, <3>1, SamePiece
  <2> QED BY <1>8, <2>2 DEF Rest
<1>11. front \o new \in Seq(Lines) /\ Len(front \o new) = Len(front) + Len(new) /\ Len(new) \in Nat
  BY <1>5, <1>8, ConcatProperties, LenProperties
<1>12. x <= Len(front) /\ x <= Len(front \o new)
  BY <1>1, <1>8, <1>11 DEF b
<1>13. Rest(front \o new \o back, x) = Rest(front \o new, x) \o back
  BY <1>7, <1>11, <1>12, RestOfConcat
<1>14. Rest(front \o new, x) = Rest(front, x) \o new
  BY <1>5, <1>8, <1>12, RestOfConcat
<1>15. Rest(FromAt(t, d, h), x) = SubSeq(t, x + 1, b) \o new \o back
  BY <1>4, <1>10, <1>13, <1>14
<1> QED BY <1>5, <1>7, <1>9, <1>15 DEF F, b, a, new, back

-----------------------------------------------------------------------------
(* The machine follows the reference: what it has made so far, and what the *)
(* diff makes of the rest, are the patched text.                            *)

\* The premise of PlainDiffsApply, and a correct diff.
Plain(t, d) == Correct(t, d) /\ \A h \in Headers(d) : d[h].count = 0 => d[h].start = 0

\* Inside the hunk of header h: some of both sides has been made.
InHunk(h) ==
  /\ h < i /\ \A m \in h + 1 .. i - 1 : m \notin Headers(diff)
  /\ index = Before(diff, h) + Len(UpTo(diff, h, {" ", "-"}, i - 1))
  /\ \E pre \in Seq(Lines) :
       /\ result = pre \o UpTo(diff, h, {" ", "+"}, i - 1)
       /\ Patched(text, diff)
            = pre \o NewSide(diff, h) \o Rest(FromAt(text, diff, h + 1), After(diff, h))

Followed ==
  /\ outcome = "running" /\ ~applied =>
       index = 0 /\ result = <<>> /\ \A h \in Headers(diff) : i <= h
  /\ outcome = "running" /\ applied => \E h \in Headers(diff) : InHunk(h)
  /\ outcome # "running" => outcome = "done" /\ result = Patched(text, diff)

\* Where the next header, or the end, is read, the rest of the text is untouched.
AtHeader ==
  /\ \A h \in Headers(diff) : i <= h => index <= Before(diff, h)
  /\ Patched(text, diff) = result \o Rest(FromAt(text, diff, i), index)

LEMMA HeaderReached ==
  ASSUME TypeOK, Plain(text, diff), Followed, outcome = "running",
         i \in Headers(diff) \/ i = Len(diff) + 1
  PROVE  AtHeader
<1>1. /\ text \in Seq(Lines) /\ diff \in Seq(DiffLine) /\ Correct(text, diff)
      /\ Len(text) \in Nat /\ Len(diff) \in Nat /\ i \in 1 .. Len(diff) + 1
      /\ result \in Seq(Lines)
  BY LenProperties DEF TypeOK, Plain
<1>2. Patched(text, diff) = FromAt(text, diff, 1)
  BY <1>1, FromDef
<1>3. CASE ~applied
  <2>1. index = 0 /\ result = <<>> /\ \A h \in Headers(diff) : i <= h
    BY <1>3 DEF Followed
  <2>2. \A h \in Headers(diff) : index <= Before(diff, h)
    <3> SUFFICES ASSUME NEW h \in Headers(diff) PROVE index <= Before(diff, h)
      OBVIOUS
    <3>1. Before(diff, h) \in Nat
      BY <1>1, Places
    <3> QED BY <2>1, <3>1
  <2>3. \A h \in 1 .. i - 1 : h \notin Headers(diff)
    BY <1>1, <2>1
  <2>4. i \in Nat /\ 1 <= i /\ i <= Len(diff) + 1
    BY <1>1
  <2>5. FromAt(text, diff, 1) = FromAt(text, diff, i)
    BY <1>1, <2>3, <2>4, SameFrom
  <2> DEFINE F == FromAt(text, diff, i)
  <2>6. F \in Seq(Lines)
    BY <1>1, Agrees
  <2> HIDE DEF F
  <2>7. SubSeq(F, 1, Len(F)) = F /\ <<>> \o F = F
    BY <2>6, SubSeqFull, ConcatEmptySeq
  <2>8. Rest(F, index) = SubSeq(F, 1, Len(F))
    BY <2>1 DEF Rest
  <2> QED BY <1>2, <2>1, <2>2, <2>5, <2>7, <2>8 DEF AtHeader, F
<1>4. CASE applied
  <2>1. PICK h \in Headers(diff) : InHunk(h)
    BY <1>4 DEF Followed
  <2>2. /\ h \in 1 .. Len(diff) /\ h \in Nat /\ Before(diff, h) \in Nat /\ After(diff, h) \in Nat
        /\ After(diff, h) - Before(diff, h) = Len(OldSide(diff, h))
        /\ \A g \in Headers(diff) : h < g => After(diff, h) <= Before(diff, g)
    BY <1>1, Places
  <2>3. h < i /\ \A m \in h + 1 .. i - 1 : m \notin Headers(diff)
    BY <2>1 DEF InHunk
  <2>4. i - 1 \in h .. Len(diff) /\ (i - 1 < Len(diff) => i - 1 + 1 \in Headers(diff))
    BY <1>1, <2>2, <2>3
  <2>5. /\ UpTo(diff, h, {" ", "-"}, i - 1) = OldSide(diff, h)
        /\ UpTo(diff, h, {" ", "+"}, i - 1) = NewSide(diff, h)
    BY <1>1, <2>2, <2>4, SideComplete DEF OldSide, NewSide
  <2>6. index = After(diff, h)
    <3>1. index = Before(diff, h) + Len(OldSide(diff, h)) /\ Len(OldSide(diff, h)) \in Nat
      BY <1>1, <2>1, <2>2, <2>5, SideType DEF InHunk, OldSide
    <3> QED BY <2>2, <3>1
  <2>7. \A g \in Headers(diff) : i <= g => index <= Before(diff, g)
    <3> SUFFICES ASSUME NEW g \in Headers(diff), i <= g PROVE index <= Before(diff, g)
      OBVIOUS
    <3>1. g \in Nat
      BY <1>1, Places
    <3>2. h < g
      BY <1>1, <2>2, <2>3, <3>1
    <3> QED BY <2>2, <2>6, <3>2
  <2>8. FromAt(text, diff, h + 1) = FromAt(text, diff, i)
    <3>1. h + 1 \in Nat /\ i \in Nat /\ 1 <= h + 1 /\ h + 1 <= i /\ i <= Len(diff) + 1
      BY <1>1, <2>2, <2>3
    <3> QED BY <1>1, <2>3, <3>1, SameFrom
  <2>9. Patched(text, diff) = result \o Rest(FromAt(text, diff, i), index)
    BY <2>1, <2>5, <2>6, <2>8 DEF InHunk
  <2> QED BY <2>7, <2>9 DEF AtHeader
<1> QED BY <1>3, <1>4

\* What a line of a plain diff can be, where it is read.
LEMMA KindHere ==
  ASSUME TypeOK, Plain(text, diff), Followed, outcome = "running", i <= Len(diff),
         i \notin Headers(diff)
  PROVE  /\ ~applied => diff[i].kind = "file"
         /\ applied => \E h \in Headers(diff) :
                         InHunk(h) /\ i \in Body(diff, h) /\ diff[i].kind \in {" ", "-", "+"}
<1>1. /\ Correct(text, diff) /\ diff \in Seq(DiffLine) /\ text \in Seq(Lines)
      /\ Len(diff) \in Nat /\ i \in 1 .. Len(diff) /\ DOMAIN diff = 1 .. Len(diff)
  BY LenProperties DEF TypeOK, Plain
<1>2. CASE ~applied
  <2>1. \A h \in Headers(diff) : i < h
    <3> SUFFICES ASSUME NEW h \in Headers(diff) PROVE i < h
      OBVIOUS
    <3>1. h \in Nat /\ i <= h /\ i # h
      BY <1>1, <1>2, Places DEF Followed
    <3> QED BY <1>1, <3>1
  <2> QED BY <1>1, <1>2, <2>1 DEF Correct
<1>3. CASE applied
  <2>1. PICK h \in Headers(diff) : InHunk(h)
    BY <1>3 DEF Followed
  <2>2. h \in Nat /\ h < i /\ \A m \in h + 1 .. i - 1 : m \notin Headers(diff)
    BY <1>1, <2>1, Places DEF InHunk
  <2>3. i \in Body(diff, h)
    <3>1. i \in h + 1 .. Len(diff)
      BY <1>1, <2>2
    <3>2. \A m \in h + 1 .. i : m \notin Headers(diff)
      <4> SUFFICES ASSUME NEW m \in h + 1 .. i PROVE m \notin Headers(diff)
        OBVIOUS
      <4>1. m = i \/ m \in h + 1 .. i - 1
        BY <1>1, <2>2
      <4> QED BY <2>2, <4>1
    <3> QED BY <3>1, <3>2 DEF Body
  <2>4. diff[i].kind \in {" ", "-", "+"}
    BY <1>1, <2>3 DEF Correct
  <2> QED BY <1>3, <2>1, <2>3, <2>4
<1> QED BY <1>2, <1>3

\* The lines of the old side are where the machine looks for them.
LEMMA OldLineMatches ==
  ASSUME TypeOK, Correct(text, diff), NEW h \in Headers(diff), InHunk(h),
         i \in Body(diff, h), diff[i].kind \in {" ", "-"}
  PROVE  Matches
<1> DEFINE u == UpTo(diff, h, {" ", "-"}, i - 1)
           b == Before(diff, h)
           a == After(diff, h)
<1>1. /\ text \in Seq(Lines) /\ diff \in Seq(DiffLine) /\ Len(text) \in Nat
  BY LenProperties DEF TypeOK
<1>2. /\ h \in 1 .. Len(diff) /\ b \in Nat /\ a \in Nat /\ b <= a /\ a <= Len(text)
      /\ a - b = Len(OldSide(diff, h))
  BY <1>1, Places
<1>3. i - 1 \in h .. Len(diff)
  BY <1>1, <1>2, SideNext
<1>4. /\ Len(u) + 1 <= Len(OldSide(diff, h))
      /\ OldSide(diff, h)[Len(u) + 1] = diff[i].line
  BY <1>1, <1>2, SideNext DEF OldSide
<1>5. Len(u) \in Nat
  BY <1>1, <1>2, <1>3, SideGrows, LenProperties
<1>6. index = b + Len(u)
  BY DEF InHunk
<1>7. SubSeq(text, b + 1, a) = OldSide(diff, h)
  BY DEF Correct
<1> HIDE DEF u, b, a
<1>8. \A n \in 1 .. a - b : SubSeq(text, b + 1, a)[n] = text[b + n]
  BY <1>1, <1>2, Piece
<1>9. Len(u) + 1 \in 1 .. a - b /\ b + (Len(u) + 1) = index + 1 /\ index < Len(text)
  <2>1. Len(u) + 1 <= a - b
    BY <1>2, <1>4
  <2>2. Len(u) + 1 \in 1 .. a - b
    BY ONLY <1>2, <1>5, <2>1
  <2>3. b + (Len(u) + 1) = index + 1
    BY ONLY <1>2, <1>5, <1>6
  <2>4. index < Len(text)
    BY ONLY <1>1, <1>2, <1>5, <1>6, <2>1
  <2> QED BY <2>2, <2>3, <2>4
<1>10. text[index + 1] = diff[i].line
  <2>1. SubSeq(text, b + 1, a)[Len(u) + 1] = text[b + (Len(u) + 1)]
    BY <1>8, <1>9
  <2>2. OldSide(diff, h)[Len(u) + 1] = diff[i].line
    BY <1>4
  <2> QED BY <1>7, <1>9, <2>1, <2>2
<1> QED BY <1>9, <1>10 DEF Matches

\* A line of a hunk is read: what it does to the text behind and to the result.
Moves ==
  /\ i' = i + 1 /\ UNCHANGED <<text, diff>>
  /\ index' = IF diff[i].kind \in {" ", "-"} THEN index + 1 ELSE index
  /\ result' = IF diff[i].kind \in {" ", "+"} THEN Append(result, diff[i].line) ELSE result

\* Behind a line of a hunk the machine is inside the same hunk.
LEMMA HunkContinues ==
  ASSUME TypeOK, NEW h \in Headers(diff), InHunk(h), i \in Body(diff, h), Moves
  PROVE  InHunk(h)'
<1>1. /\ text \in Seq(Lines) /\ diff \in Seq(DiffLine) /\ Len(diff) \in Nat
      /\ DOMAIN diff = 1 .. Len(diff) /\ i \in Nat /\ index \in Nat
  BY LenProperties DEF TypeOK
<1>2. h \in 1 .. Len(diff) /\ h \in Nat
  BY <1>1 DEF Headers
<1>3. i \in h + 1 .. Len(diff) /\ i - 1 \in h .. Len(diff) /\ i' = i + 1 /\ i' - 1 = i
  <2>1. i' = i + 1
    BY DEF Moves
  <2>2. i \in h + 1 .. Len(diff) /\ i - 1 \in h .. Len(diff)
    BY <1>1, <1>2, SideNext
  <2> QED BY <1>1, <2>1, <2>2
<1>4. h < i' /\ \A m \in h + 1 .. i' - 1 : m \notin Headers(diff)
  <2>1. \A m \in h + 1 .. i : m \notin Headers(diff)
    BY DEF Body
  <2> QED BY <1>2, <1>3, <2>1
<1> DEFINE ou == UpTo(diff, h, {" ", "-"}, i - 1)
           ov == UpTo(diff, h, {" ", "-"}, i)
           nu == UpTo(diff, h, {" ", "+"}, i - 1)
           nv == UpTo(diff, h, {" ", "+"}, i)
<1>5. Len(ov) = IF diff[i].kind \in {" ", "-"} THEN Len(ou) + 1 ELSE Len(ou)
  BY <1>1, <1>2, SideNext
<1>6. nv = IF diff[i].kind \in {" ", "+"} THEN Append(nu, diff[i].line) ELSE nu
  BY <1>1, <1>2, SideNext
<1>7. Len(ou) \in Nat /\ nu \in Seq(Lines)
  BY <1>1, <1>2, <1>3, SideGrows, LenProperties
<1>8. diff[i].line \in Lines
  <2>1. i \in 1 .. Len(diff)
    BY <1>2, <1>3
  <2>2. diff[i] \in DiffLine
    BY <1>1, <2>1, ElementOfSeq
  <2> QED BY <2>2 DEF DiffLine
<1>9. /\ index = Before(diff, h) + Len(ou)
      /\ Before(diff, h) \in Int
  <2>1. diff[h] \in DiffLine
    BY <1>1, <1>2, ElementOfSeq
  <2>2. Before(diff, h) \in Int
    BY <2>1 DEF DiffLine, Before
  <2> QED BY <2>2 DEF InHunk
<1>10. PICK pre \in Seq(Lines) :
         /\ result = pre \o nu
         /\ Patched(text, diff)
              = pre \o NewSide(diff, h) \o Rest(FromAt(text, diff, h + 1), After(diff, h))
  BY DEF InHunk
<1> HIDE DEF ou, ov, nu, nv
<1>11. index' = Before(diff, h) + Len(ov)
  <2>1. CASE diff[i].kind \in {" ", "-"}
    <3>1. index' = index + 1 /\ Len(ov) = Len(ou) + 1
      BY <1>5, <2>1 DEF Moves
    <3> QED BY ONLY <1>1, <1>7, <1>9, <3>1
  <2>2. CASE diff[i].kind \notin {" ", "-"}
    <3>1. index' = index /\ Len(ov) = Len(ou)
      BY <1>5, <2>2 DEF Moves
    <3> QED BY <1>9, <3>1
  <2> QED BY <2>1, <2>2
<1>12. result' = pre \o nv
  <2>1. pre \o nu \in Seq(Lines)
    BY <1>7, <1>10, ConcatProperties
  <2>2. /\ Append(pre \o nu, diff[i].line) = (pre \o nu) \o <<diff[i].line>>
        /\ Append(nu, diff[i].line) = nu \o <<diff[i].line>>
    BY <1>7, <1>8, <2>1, AppendIsConcat
  <2>3. <<diff[i].line>> \in Seq(Lines)
    BY <1>8
  <2>4. (pre \o nu) \o <<diff[i].line>> = pre \o (nu \o <<diff[i].line>>)
    BY <1>7, <1>10, <2>3, ConcatAssociative
  <2> QED BY <1>6, <1>10, <2>2, <2>4 DEF Moves
<1>13. /\ i' - 1 = i /\ diff' = diff /\ text' = text
  BY <1>3 DEF Moves
<1> QED BY <1>4, <1>10, <1>11, <1>12, <1>13 DEF InHunk, ov, nv

\* A header that says where a plain diff's hunk starts.
LEMMA TargetIsBefore ==
  ASSUME TypeOK, Plain(text, diff), i \in Headers(diff)
  PROVE  Target = Before(diff, i)
<1>1. text \in Seq(Lines) /\ diff \in Seq(DiffLine) /\ Correct(text, diff)
  BY DEF TypeOK, Plain
<1>2. i \in 1 .. Len(diff) /\ Before(diff, i) \in Nat
  BY <1>1, Places
<1>3. diff[i] \in DiffLine
  BY <1>1, <1>2, ElementOfSeq
<1>4. diff[i].start \in Nat /\ diff[i].count \in Nat /\ (diff[i].count = 0 => diff[i].start = 0)
  BY <1>3 DEF DiffLine, Plain
<1> QED BY <1>2, <1>4 DEF Target, Before

LEMMA FollowedInit == Init => (Plain(text, diff) => Followed)
<1> SUFFICES ASSUME Init, Plain(text, diff) PROVE Followed
  OBVIOUS
<1>1. text \in Seq(Lines) /\ diff \in Seq(DiffLine) /\ Correct(text, diff)
  BY DiffAssumption DEF Init, Plain
<1>2. \A h \in Headers(diff) : 1 <= h
  <2> SUFFICES ASSUME NEW h \in Headers(diff) PROVE 1 <= h
    OBVIOUS
  <2>1. h \in 1 .. Len(diff)
    BY <1>1, Places
  <2> QED BY <2>1
<1> QED BY <1>2 DEF Init, Followed

LEMMA StartHunkFollows ==
  ASSUME DiffInv, Plain(text, diff), Followed, StartHunk
  PROVE  Followed'
<1>1. /\ TypeOK /\ text \in Seq(Lines) /\ diff \in Seq(DiffLine) /\ Correct(text, diff)
      /\ Len(diff) \in Nat /\ i \in Nat /\ result \in Seq(Lines) /\ index \in Nat
      /\ DOMAIN diff = 1 .. Len(diff)
  BY LenProperties DEF DiffInv, TypeOK, Plain
<1>2. /\ outcome = "running" /\ i <= Len(diff) /\ diff[i].kind = "hunk"
      /\ applied' = TRUE /\ i' = i + 1 /\ UNCHANGED <<text, diff, outcome>>
      /\ index' = Target /\ result' = result \o SubSeq(text, index + 1, Target)
  BY DEF StartHunk, Reads, CopyTo, Advance
<1>3. i \in Headers(diff) /\ i \in 1 .. Len(diff)
  <2>1. i \in 1 .. Len(diff)
    BY <1>1, <1>2 DEF TypeOK
  <2> QED BY <1>1, <1>2, <2>1 DEF Headers
<1>4. AtHeader
  BY <1>1, <1>2, <1>3, HeaderReached
<1>5. index <= Before(diff, i) /\ Target = Before(diff, i)
  BY <1>1, <1>3, <1>4, TargetIsBefore DEF AtHeader
<1>6. PICK h \in Headers(diff) : h = i
  BY <1>3
<1> DEFINE p == SubSeq(text, index + 1, Before(diff, h))
           new == NewSide(diff, h)
           back == Rest(FromAt(text, diff, h + 1), After(diff, h))
<1>7. /\ p \in Seq(Lines) /\ new \in Seq(Lines) /\ back \in Seq(Lines)
      /\ Rest(FromAt(text, diff, h), index) = p \o new \o back
  BY <1>1, <1>5, <1>6, HunkRest
<1>8. result' = result \o p
  BY <1>2, <1>5, <1>6
<1>9. /\ UpTo(diff, h, {" ", "-"}, h) = <<>>
      /\ UpTo(diff, h, {" ", "+"}, h) = <<>>
  BY <1>1, <1>3, <1>6, SideDef
<1>10. Patched(text, diff) = (result \o p) \o new \o back
  <2>1. Patched(text, diff) = result \o (p \o new \o back)
    BY <1>4, <1>6, <1>7 DEF AtHeader
  <2> HIDE DEF p, new, back
  <2>2. result \o (p \o new \o back) = (result \o p) \o new \o back
    OBVIOUS
  <2> QED BY <2>1, <2>2
<1> HIDE DEF p
<1>11. result \o p \in Seq(Lines) /\ (result \o p) \o <<>> = result \o p
  BY <1>1, <1>7, ConcatProperties, ConcatEmptySeq
<1>12. index' = Before(diff, h) /\ Before(diff, h) \in Nat
  BY <1>1, <1>2, <1>5, <1>6, Places
<1>13. i' - 1 = h /\ h < i' /\ \A m \in h + 1 .. i' - 1 : m \notin Headers(diff)
  BY <1>1, <1>2, <1>6
<1>14. InHunk(h)'
  <2>1. index' = Before(diff, h) + Len(UpTo(diff, h, {" ", "-"}, h))
    <3> DEFINE n == Len(UpTo(diff, h, {" ", "-"}, h))
    <3>1. n = 0
      BY <1>9, EmptySeq
    <3> HIDE DEF n
    <3>2. index' = Before(diff, h) + n
      BY <1>12, <3>1
    <3> QED BY <3>2 DEF n
  <2>2. result' = (result \o p) \o UpTo(diff, h, {" ", "+"}, h)
    BY <1>8, <1>9, <1>11
  <2>3. \E pre \in Seq(Lines) :
          /\ result' = pre \o UpTo(diff, h, {" ", "+"}, h)
          /\ Patched(text, diff)
               = pre \o NewSide(diff, h) \o Rest(FromAt(text, diff, h + 1), After(diff, h))
    BY <1>10, <1>11, <2>2
  <2>4. diff' = diff /\ text' = text
    BY <1>2
  <2> QED BY <1>13, <2>1, <2>3, <2>4 DEF InHunk
<1>15. h \in Headers(diff') /\ outcome' = "running" /\ applied'
  BY <1>2
<1> QED BY <1>14, <1>15 DEF Followed

\* A plain diff is never refused.
LEMMA NeverRaised ==
  ASSUME DiffInv, Plain(text, diff), Followed, Raise
  PROVE  FALSE
<1>1. /\ TypeOK /\ text \in Seq(Lines) /\ diff \in Seq(DiffLine) /\ Correct(text, diff)
      /\ Len(text) \in Nat /\ Len(diff) \in Nat /\ i \in 1 .. Len(diff) + 1
      /\ index \in Nat /\ DOMAIN diff = 1 .. Len(diff)
  BY LenProperties DEF DiffInv, TypeOK, Plain
<1>2. outcome = "running"
  BY DEF Raise, Reads
<1>3. CASE i > Len(diff) /\ ~applied
  <2>1. PICK h \in Headers(diff) : TRUE
    BY <1>1 DEF Correct
  <2>2. h \in 1 .. Len(diff) /\ i <= h
    BY <1>1, <1>2, <1>3, Places DEF Followed
  <2> QED BY <1>1, <1>3, <2>2
<1>4. CASE i \in Headers(diff)
  <2>1. diff[i].kind = "hunk"
    BY <1>4 DEF Headers
  <2>2. ~Reachable
    BY <1>1, <1>3, <1>4, <2>1 DEF Raise, Reads
  <2>3. AtHeader
    BY <1>1, <1>2, <1>4, HeaderReached
  <2>4. index <= Before(diff, i)
    <3>1. i <= i
      BY <1>1
    <3> QED BY <1>4, <2>3, <3>1 DEF AtHeader
  <2>5. Target = Before(diff, i)
    BY <1>1, <1>4, TargetIsBefore
  <2>6. Before(diff, i) \in Nat /\ Before(diff, i) <= Len(text)
    <3>1. /\ Before(diff, i) \in Nat /\ After(diff, i) \in Nat
          /\ Before(diff, i) <= After(diff, i) /\ After(diff, i) <= Len(text)
      BY <1>1, <1>4, Places
    <3> QED BY <1>1, <3>1
  <2> QED BY <2>2, <2>4, <2>5, <2>6 DEF Reachable
<1>5. CASE i \notin Headers(diff) /\ i <= Len(diff)
  <2>1. diff[i].kind # "hunk"
    BY <1>1, <1>5 DEF Headers
  <2>2. CASE ~applied
    <3>1. diff[i].kind = "file"
      BY <1>1, <1>2, <1>5, <2>2, KindHere
    <3> QED BY <1>1, <1>5, <2>2, <3>1 DEF Raise, Reads
  <2>3. CASE applied
    <3>1. PICK h \in Headers(diff) :
            InHunk(h) /\ i \in Body(diff, h) /\ diff[i].kind \in {" ", "-", "+"}
      BY <1>1, <1>2, <1>5, <2>3, KindHere
    <3>2. diff[i].kind \in {" ", "-"} => Matches
      BY <1>1, <3>1, OldLineMatches
    <3> QED BY <1>5, <2>1, <2>3, <3>1, <3>2 DEF Raise, Reads
  <2> QED BY <2>2, <2>3
<1>6. ASSUME i > Len(diff) PROVE ~applied
  <2>1. ~ (i <= Len(diff))
    BY <1>1, <1>6
  <2>2. \A kinds : ~Reads(kinds)
    BY <2>1 DEF Reads
  <2> QED BY <2>2 DEF Raise
<1> QED BY <1>1, <1>3, <1>4, <1>5, <1>6

\* A line inside a hunk.
LEMMA LineFollows ==
  ASSUME DiffInv, Plain(text, diff), Followed, Context \/ Delete \/ Add \/ IgnoreMarker
  PROVE  Followed'
<1>1. /\ TypeOK /\ text \in Seq(Lines) /\ diff \in Seq(DiffLine) /\ Correct(text, diff)
      /\ Len(diff) \in Nat /\ i \in 1 .. Len(diff) + 1 /\ index \in Nat
      /\ DOMAIN diff = 1 .. Len(diff) /\ Len(text) \in Nat /\ result \in Seq(Lines)
  BY LenProperties DEF DiffInv, TypeOK, Plain
<1>2. applied /\ outcome = "running" /\ i <= Len(diff) /\ diff[i].kind # "hunk"
  BY DEF Context, Delete, Add, IgnoreMarker, Reads
<1>3. UNCHANGED <<text, diff, outcome, applied>> /\ i' = i + 1
  BY DEF Context, Delete, Add, IgnoreMarker, Advance
<1>4. i \notin Headers(diff)
  BY <1>2 DEF Headers
<1>5. PICK h \in Headers(diff) :
        InHunk(h) /\ i \in Body(diff, h) /\ diff[i].kind \in {" ", "-", "+"}
  BY <1>1, <1>2, <1>4, KindHere
<1>6. Moves
  <2>1. CASE Context
    <3>1. diff[i].kind = " " /\ Matches /\ CopyTo(index + 1)
      BY <1>5, <2>1 DEF Context, Reads
    <3>2. /\ index < Len(text) /\ text[index + 1] = diff[i].line
          /\ index' = index + 1 /\ result' = result \o SubSeq(text, index + 1, index + 1)
      BY <3>1 DEF Matches, CopyTo
    <3>3. diff[i].line \in Lines
      <4>1. i \in 1 .. Len(diff)
        BY <1>1, <1>2
      <4>2. diff[i] \in DiffLine
        BY <1>1, <4>1, ElementOfSeq
      <4> QED BY <4>2 DEF DiffLine
    <3>4. SubSeq(text, index + 1, index + 1) = <<diff[i].line>>
      <4> DEFINE s == SubSeq(text, index + 1, index + 1)
                 x == index
                 y == index + 1
      <4>1. x \in Nat /\ y \in Nat /\ x <= y /\ y <= Len(text) /\ y - x = 1
        BY ONLY <1>1, <3>2
      <4> HIDE DEF y
      <4>2. /\ SubSeq(text, x + 1, y) \in Seq(Lines) /\ Len(SubSeq(text, x + 1, y)) = y - x
            /\ \A n \in 1 .. y - x : SubSeq(text, x + 1, y)[n] = text[x + n]
        BY <1>1, <4>1, Piece
      <4>3. SubSeq(text, x + 1, y) = s
        BY DEF y
      <4>4. s \in Seq(Lines) /\ Len(s) = 1 /\ s[1] = diff[i].line
        BY <3>2, <4>1, <4>2, <4>3
      <4> HIDE DEF s
      <4>5. <<diff[i].line>> \in Seq(Lines) /\ Len(<<diff[i].line>>) = 1 /\ <<diff[i].line>>[1] = diff[i].line
        BY <3>3
      <4>6. s = <<diff[i].line>>
        BY <4>4, <4>5, SeqEqual
      <4> QED BY <4>6 DEF s
    <3>5. Append(result, diff[i].line) = result \o <<diff[i].line>>
      BY <1>1, <3>3, AppendIsConcat
    <3> QED BY <1>3, <3>1, <3>2, <3>4, <3>5 DEF Moves
  <2>2. CASE Delete
    <3>1. diff[i].kind = "-" /\ index' = index + 1 /\ result' = result
      BY <2>2 DEF Delete, Reads
    <3> QED BY <1>3, <3>1 DEF Moves
  <2>3. CASE Add
    <3>1. diff[i].kind = "+" /\ index' = index /\ result' = Append(result, diff[i].line)
      BY <1>5, <2>3 DEF Add, Reads
    <3> QED BY <1>3, <3>1 DEF Moves
  <2>4. CASE IgnoreMarker
    BY <1>5, <2>4 DEF IgnoreMarker, Reads
  <2> QED BY <2>1, <2>2, <2>3, <2>4
<1>7. InHunk(h)'
  BY <1>1, <1>5, <1>6, HunkContinues
<1>8. h \in Headers(diff')
  BY <1>3
<1> QED BY <1>2, <1>3, <1>7, <1>8 DEF Followed

LEMMA FollowedNext ==
  DiffInv /\ (Plain(text, diff) => Followed) /\ [Next]_vars => (Plain(text, diff) => Followed)'
<1> SUFFICES ASSUME DiffInv, Plain(text, diff) => Followed, [Next]_vars, Plain(text, diff)'
             PROVE  Followed'
  OBVIOUS
<1>1. UNCHANGED <<text, diff>>
  BY DEF Next, vars, SkipHeader, StartHunk, Context, Delete, Add, IgnoreMarker, Raise, Finish, Advance
<1>2. Plain(text, diff) /\ Followed
  BY <1>1
<1>3. /\ TypeOK /\ text \in Seq(Lines) /\ diff \in Seq(DiffLine) /\ Correct(text, diff)
      /\ Len(diff) \in Nat /\ i \in 1 .. Len(diff) + 1
      /\ DOMAIN diff = 1 .. Len(diff) /\ Len(text) \in Nat
  BY <1>2, LenProperties DEF DiffInv, TypeOK, Plain
<1>4. CASE SkipHeader
  <2>1. /\ ~applied /\ outcome = "running" /\ i <= Len(diff) /\ i' = i + 1
        /\ diff[i].kind \in {"file", "blank", " "}
        /\ UNCHANGED <<text, diff, index, result, applied, outcome>>
    BY <1>4 DEF SkipHeader, Skipped, Reads, Advance
  <2>2. i \notin Headers(diff)
    BY <2>1 DEF Headers
  <2>3. \A h \in Headers(diff) : i + 1 <= h
    <3> SUFFICES ASSUME NEW h \in Headers(diff) PROVE i + 1 <= h
      OBVIOUS
    <3>1. h \in Nat /\ i <= h /\ i # h
      BY <1>2, <1>3, <2>1, <2>2, Places DEF Followed
    <3> QED BY <1>3, <3>1
  <2> QED BY <1>2, <2>1, <2>3 DEF Followed
<1>5. CASE StartHunk
  BY <1>2, <1>5, StartHunkFollows
<1>6. CASE Context \/ Delete \/ Add \/ IgnoreMarker
  BY <1>2, <1>6, LineFollows
<1>7. CASE Raise
  BY <1>2, <1>7, NeverRaised
<1>8. CASE Finish
  <2>1. /\ outcome = "running" /\ i > Len(diff) /\ outcome' = "done"
        /\ UNCHANGED <<text, diff>> /\ result' = result \o SubSeq(text, index + 1, Len(text))
    BY <1>8 DEF Finish, CopyTo
  <2>2. i = Len(diff) + 1
    BY <1>3, <2>1
  <2>3. AtHeader
    BY <1>2, <1>3, <2>1, <2>2, HeaderReached
  <2>4. FromAt(text, diff, i) = text
    BY <1>3, <2>2, FromDef
  <2>5. Patched(text, diff) = result'
    BY <2>1, <2>3, <2>4 DEF AtHeader, Rest
  <2> QED BY <2>1, <2>5 DEF Followed
<1>9. CASE UNCHANGED vars
  BY <1>2, <1>9 DEF vars, Followed, InHunk
<1> QED BY <1>4, <1>5, <1>6, <1>7, <1>8, <1>9 DEF Next

\* A correct diff whose hunks have an old side, or stand in front of the first line, is
\* accepted and gives the text with every old side replaced by its new side, however many
\* hunks there are and whatever they hold (fs_operations.py 147-212).
THEOREM PlainDiffsAreApplied == Spec => []PlainDiffsApply
<1>1. Followed /\ Plain(text, diff) => PlainDiffsApply
  BY DEF Followed, PlainDiffsApply, AppliesAsStandard
<1>2. ~Plain(text, diff) => PlainDiffsApply
  BY DEF Plain, PlainDiffsApply, AppliesAsStandard
<1>3. (Plain(text, diff) => Followed) => PlainDiffsApply
  BY <1>1, <1>2
<1> QED BY FollowedInit, FollowedNext, DiffInvHolds, <1>3, PTL DEF Spec
=============================================================================
