-------------------------- MODULE PatchParserProofs --------------------------
(***************************************************************************)
(* What holds of PatchParser for every payload.  OrderInv compares the     *)
(* lines of the operations, of the block and of the section being read:    *)
(* each of them comes before all that are still unread.  GrammarInv says   *)
(* that what the passes have read follows the grammar: closed blocks       *)
(* (ReadInv) and the open one up to its last directive (BlockReadInv).     *)
(***************************************************************************)
EXTENDS PatchGrammar, SequenceTheorems, WellFoundedInduction, NaturalsInduction, TLAPS

Lines(op) == {op.header} \cup {op.body[k].line : k \in DOMAIN op.body}

AllLines(ops) == UNION {Lines(ops[i]) : i \in DOMAIN ops}

\* The lines of an operation are below its directive, in their order.
OpOrdered(op) ==
  \A k \in DOMAIN op.body :
    /\ op.header < op.body[k].line
    /\ \A l \in 1 .. k - 1 : op.body[l].line < op.body[k].line

\* So are the operations, one after the other.
Ordered(ops) ==
  \A i \in DOMAIN ops :
    /\ OpOrdered(ops[i])
    /\ \A j \in 1 .. i - 1 : \A x \in Lines(ops[j]) : x < ops[i].header

TypeInv == TypeOK /\ (pc \in {"apply_patch", "codex"} => at = 1)

\* Line x is behind the operations and ahead of the block from position p on.
Between(x, p) ==
  /\ x < line
  /\ \A y \in AllLines(operations) : y < x
  /\ \A m \in p .. Len(block) : x < block[m]

\* Line x of the block belongs to an operation or to the section that is being read.
Taken(x) == Between(x, at)

SectionInv ==
  /\ Ordered(parsed)
  /\ \A x \in AllLines(parsed) : Taken(x) /\ x < header
  /\ header # None => Taken(header)
  /\ header = None => parsed = <<>> /\ buffer = <<>>
  /\ \A k \in DOMAIN buffer :
       /\ Taken(buffer[k]) /\ header < buffer[k]
       /\ \A l \in 1 .. k - 1 : buffer[l] < buffer[k]

BlockInv ==
  /\ \A k \in DOMAIN block :
       /\ block[k] < line
       /\ \A j \in 1 .. k - 1 : block[j] < block[k]
  /\ \A x \in AllLines(operations) : x < line /\ \A k \in DOMAIN block : x < block[k]

OrderInv ==
  /\ Ordered(operations)
  /\ pc \in {"apply_patch", "codex", "block"} => BlockInv
  /\ pc = "block" => SectionInv

-----------------------------------------------------------------------------
(* Types.                                                                  *)

LEMMA FunctionIsSeq ==
  ASSUME NEW n \in Nat, NEW S, NEW f \in [1 .. n -> S]
  PROVE  f \in Seq(S)
BY SeqDef, Zenon

LEMMA PatchType ==
  ASSUME TypeOK
  PROVE  /\ patch \in Seq(Kinds) /\ Len(patch) \in Nat
         /\ DOMAIN patch = 1 .. Len(patch)
         /\ \A i \in DOMAIN patch : patch[i] \in Kinds
<1>1. patch \in Seq(Kinds)
  BY PatchesAssumption DEF TypeOK
<1> QED BY <1>1, LenProperties, ElementOfSeq

LEMMA BlockType ==
  ASSUME TypeOK
  PROVE  /\ block \in Seq(DOMAIN patch) /\ Len(block) \in Nat
         /\ DOMAIN block = 1 .. Len(block)
         /\ \A k \in DOMAIN block : block[k] \in DOMAIN patch /\ block[k] \in Nat \ {0}
<1>1. block \in Seq(DOMAIN patch)
  BY DEF TypeOK
<1>2. /\ Len(block) \in Nat /\ DOMAIN block = 1 .. Len(block)
      /\ \A k \in DOMAIN block : block[k] \in DOMAIN patch
  BY <1>1, LenProperties, ElementOfSeq
<1> QED BY <1>1, <1>2, PatchType

\* The section that is being read makes an operation of its header and its buffer.
NewOperation == [op_type |-> patch[header], header |-> header, body |-> Body]

LEMMA BodyType ==
  ASSUME TypeOK, header # None
  PROVE  /\ Body \in Seq(BodyLine)
         /\ DOMAIN Body \subseteq DOMAIN buffer
         /\ \A k \in DOMAIN Body : Body[k].line = buffer[k]
<1>1. /\ buffer \in Seq(DOMAIN patch) /\ Len(buffer) \in Nat /\ DOMAIN buffer = 1 .. Len(buffer)
      /\ \A k \in DOMAIN buffer : buffer[k] \in Nat
  <2>1. buffer \in Seq(DOMAIN patch)
    BY DEF TypeOK
  <2>2. /\ Len(buffer) \in Nat /\ DOMAIN buffer = 1 .. Len(buffer)
        /\ \A k \in DOMAIN buffer : buffer[k] \in DOMAIN patch
    BY <2>1, LenProperties, ElementOfSeq
  <2> QED BY <2>1, <2>2, PatchType
<1>2. CASE patch[header] = "delete"
  <2>1. Body = <<>>
    BY <1>2 DEF Body
  <2>2. <<>> \in Seq(BodyLine) /\ DOMAIN <<>> = {}
    BY EmptySeq
  <2> QED BY <2>1, <2>2
<1>3. CASE patch[header] # "delete"
  <2> DEFINE L(k) == [line |-> buffer[k],
                      bare |-> patch[header] = "add" /\ patch[buffer[k]] = "plus"]
  <2>1. Body = [k \in 1 .. Len(buffer) |-> L(k)]
    BY <1>1, <1>3 DEF Body
  <2>2. \A k \in 1 .. Len(buffer) : L(k) \in BodyLine
    BY <1>1 DEF BodyLine
  <2>3. Body \in [1 .. Len(buffer) -> BodyLine]
    BY <2>1, <2>2
  <2>4. Body \in Seq(BodyLine)
    BY <1>1, <2>3, FunctionIsSeq, Zenon
  <2> QED BY <1>1, <2>1, <2>4
<1> QED BY <1>2, <1>3

LEMMA SectionType ==
  ASSUME TypeOK, header # None, Buildable
  PROVE  NewOperation \in Operation
<1>1. header \in Nat
  BY PatchType DEF TypeOK, None
<1> QED BY <1>1, BodyType DEF NewOperation, Operation, Buildable

LEMMA BuiltType ==
  ASSUME TypeOK, header # None => Buildable
  PROVE  Built \in Seq(Operation)
<1>1. parsed \in Seq(Operation)
  BY DEF TypeOK
<1>2. CASE header = None
  BY <1>1, <1>2 DEF Built
<1>3. CASE header # None
  <2>1. Built = Append(parsed, NewOperation)
    BY <1>3 DEF Built, NewOperation
  <2> QED BY <1>1, <1>3, <2>1, SectionType, AppendProperties
<1> QED BY <1>2, <1>3

LEMMA TypesStart == Init => TypeInv
<1> SUFFICES ASSUME Init PROVE TypeInv
  OBVIOUS
<1>1. patch \in Seq(Kinds) /\ Len(patch) \in Nat
  BY PatchesAssumption, LenProperties DEF Init
<1>2. <<>> \in Seq(DOMAIN patch) /\ <<>> \in Seq(Operation) /\ Len(<<>>) = 0
  BY EmptySeq
<1>3. line \in 1 .. Len(patch) + 1 /\ at \in 1 .. Len(block) + 1 /\ header \in DOMAIN patch \cup {None}
  BY <1>1, <1>2 DEF Init
<1>4. block \in Seq(DOMAIN patch) /\ buffer \in Seq(DOMAIN patch)
  BY <1>2 DEF Init
<1>5. operations \in Seq(Operation) /\ parsed \in Seq(Operation)
  BY <1>2 DEF Init
<1> QED BY <1>3, <1>4, <1>5 DEF Init, TypeInv, TypeOK

LEMMA TypesKeep == TypeInv /\ [Next]_vars => TypeInv'
<1> SUFFICES ASSUME TypeInv, [Next]_vars PROVE TypeInv'
  OBVIOUS
<1> USE DEF TypeInv
<1>1. /\ patch \in Seq(Kinds) /\ Len(patch) \in Nat /\ DOMAIN patch = 1 .. Len(patch)
      /\ Len(block) \in Nat /\ DOMAIN block = 1 .. Len(block)
      /\ <<>> \in Seq(DOMAIN patch) /\ <<>> \in Seq(Operation) /\ Len(<<>>) = 0
      /\ \A k \in DOMAIN block : block[k] \in DOMAIN patch
  BY PatchType, BlockType, EmptySeq
<1>2. CASE Raise \/ Parsed \/ UNCHANGED vars
  BY <1>2 DEF Raise, Parsed, TypeOK, vars, payloadVars, outerVars, innerVars
<1>3. CASE ApplyPatch
  <2>1. CASE ParsePlainDiff /\ ~Raise
    <3> DEFINE body == [i \in 1 .. Len(patch) |-> [line |-> i, bare |-> FALSE]]
               op   == [op_type |-> "update", header |-> None, body |-> body]
    <3>1. body \in [1 .. Len(patch) -> BodyLine]
      BY <1>1 DEF BodyLine
    <3>2. body \in Seq(BodyLine)
      BY <1>1, <3>1, FunctionIsSeq, Zenon
    <3>3. op \in Operation
      BY <3>2 DEF Operation, Operations, None
    <3>4. <<op>> \in Seq(Operation)
      BY <3>3
    <3>5. operations' = <<op>>
      BY <1>1, <2>1 DEF ParsePlainDiff
    <3> QED BY <1>3, <2>1, <3>4, <3>5 DEF ApplyPatch, ParsePlainDiff, TypeOK, payloadVars, innerVars
  <2>2. CASE ~ParsePlainDiff
    BY <1>2, <1>3, <2>2 DEF ApplyPatch, TypeOK, payloadVars, outerVars, innerVars
  <2> QED BY <1>2, <2>1, <2>2
<1>4. CASE BeginMarker
  <2>1. CASE inside
    BY <1>2, <1>4, <2>1 DEF BeginMarker
  <2>2. CASE ~inside
    <3>1. /\ patch' = patch /\ path' = path /\ pc' = pc /\ pc = "codex"
          /\ line' = line + 1 /\ line <= Len(patch) /\ inside' = TRUE /\ block' = <<>>
          /\ operations' = operations
          /\ at' = at /\ header' = header /\ buffer' = buffer /\ parsed' = parsed
      BY <1>4, <2>2 DEF BeginMarker, AtLine, payloadVars, innerVars
    <3> QED BY <1>1, <3>1 DEF TypeOK
  <2> QED BY <2>1, <2>2
<1>5. CASE EndMarker
  BY <1>1, <1>2, <1>5 DEF EndMarker, AtLine, TypeOK, payloadVars, outerVars
<1>6. CASE OtherLine
  <2>1. CASE ~inside /\ ~Blank(line)
    BY <1>2, <1>6, <2>1 DEF OtherLine
  <2>2. CASE inside \/ Blank(line)
    <3>1. /\ patch' = patch /\ path' = path /\ pc' = pc /\ pc = "codex"
          /\ line' = line + 1 /\ line <= Len(patch) /\ inside' = inside
          /\ block' = (IF inside THEN Append(block, line) ELSE block)
          /\ operations' = operations
          /\ at' = at /\ header' = header /\ buffer' = buffer /\ parsed' = parsed
      BY <1>6, <2>2 DEF OtherLine, AtLine, payloadVars, innerVars
    <3>2. line \in DOMAIN patch
      BY <1>1, <3>1 DEF TypeOK
    <3>3. Append(block, line) \in Seq(DOMAIN patch) /\ Len(Append(block, line)) = Len(block) + 1
      BY <3>2, AppendProperties DEF TypeOK
    <3>4. block' \in Seq(DOMAIN patch) /\ Len(block') \in {Len(block), Len(block) + 1}
      BY <3>1, <3>3 DEF TypeOK
    <3> QED BY <1>1, <3>1, <3>4 DEF TypeOK
  <2> QED BY <2>1, <2>2
<1>7. CASE EndOfPatch
  BY <1>2, <1>7 DEF EndOfPatch, TypeOK, payloadVars, outerVars, innerVars
<1>8. CASE EndOfFileLine
  BY <1>1, <1>8 DEF EndOfFileLine, AtBlockLine, TypeOK, payloadVars, outerVars
<1>9. CASE Directive
  <2>1. CASE header # None /\ ~Buildable
    BY <1>2, <1>9, <2>1 DEF Directive
  <2>2. CASE ~(header # None /\ ~Buildable)
    <3>1. /\ patch' = patch /\ path' = path /\ pc' = pc /\ pc = "block" /\ line' = line
          /\ inside' = inside /\ block' = block /\ operations' = operations
          /\ at' = at + 1 /\ at <= Len(block)
          /\ header' = block[at] /\ buffer' = <<>> /\ parsed' = Built
      BY <1>9, <2>2 DEF Directive, AtBlockLine, payloadVars, outerVars
    <3>2. Built \in Seq(Operation)
      BY <2>2, BuiltType
    <3>3. block[at] \in DOMAIN patch
      BY <1>1, <3>1 DEF TypeOK
    <3> QED BY <1>1, <3>1, <3>2, <3>3 DEF TypeOK
  <2> QED BY <2>1, <2>2
<1>10. CASE SectionLine
  <2>1. CASE header = None /\ ~Blank(block[at])
    BY <1>2, <1>10, <2>1 DEF SectionLine
  <2>2. CASE ~(header = None /\ ~Blank(block[at]))
    <3>1. /\ patch' = patch /\ path' = path /\ pc' = pc /\ pc = "block" /\ line' = line
          /\ inside' = inside /\ block' = block /\ operations' = operations
          /\ at' = at + 1 /\ at <= Len(block)
          /\ header' = header /\ parsed' = parsed
          /\ buffer' = (IF header = None THEN buffer ELSE Append(buffer, block[at]))
      BY <1>10, <2>2 DEF SectionLine, AtBlockLine, payloadVars, outerVars
    <3>2. block[at] \in DOMAIN patch
      BY <1>1, <3>1 DEF TypeOK
    <3>3. buffer' \in Seq(DOMAIN patch)
      BY <3>1, <3>2, AppendProperties DEF TypeOK
    <3> QED BY <1>1, <3>1, <3>3 DEF TypeOK
  <2> QED BY <2>1, <2>2
<1>11. CASE EndOfBlock
  <2>1. CASE header # None /\ ~Buildable
    BY <1>2, <1>11, <2>1 DEF EndOfBlock
  <2>2. CASE ~(header # None /\ ~Buildable)
    <3>1. /\ patch' = patch /\ path' = path /\ pc' = "codex" /\ pc = "block"
          /\ line' = line + 1 /\ inside' = FALSE /\ block' = <<>>
          /\ operations' = operations \o Built
          /\ at' = 1 /\ header' = header /\ buffer' = buffer /\ parsed' = parsed
      BY <1>11, <2>2 DEF EndOfBlock, payloadVars
    <3>2. operations \o Built \in Seq(Operation)
      BY <2>2, BuiltType, ConcatProperties DEF TypeOK
    <3>3. line' \in 1 .. Len(patch) + 1
      BY <1>1, <3>1 DEF TypeOK
    <3>4. block' \in Seq(DOMAIN patch) /\ at' \in 1 .. Len(block') + 1
      BY <1>1, <3>1
    <3> QED BY <3>1, <3>2, <3>3, <3>4 DEF TypeOK
  <2> QED BY <2>1, <2>2
<1> QED BY <1>2, <1>3, <1>4, <1>5, <1>6, <1>7, <1>8, <1>9, <1>10, <1>11 DEF Next

LEMMA TypesHold == Spec => []TypeInv
BY TypesStart, TypesKeep, PTL DEF Spec

\* The parser's positions stay inside the payload and the block, and what it makes of a
\* payload are operations, for every payload (66-135).
THEOREM ParserTypeCorrect == Spec => []TypeOK
<1>1. TypeInv => TypeOK
  BY DEF TypeInv
<1> QED BY <1>1, TypesHold, PTL

-----------------------------------------------------------------------------
(* Order.                                                                  *)

LEMMA LinesAreNumbers ==
  ASSUME NEW ops \in Seq(Operation)
  PROVE  AllLines(ops) \subseteq Nat
<1>1. SUFFICES ASSUME NEW i \in DOMAIN ops, NEW x \in Lines(ops[i]) PROVE x \in Nat
  BY DEF AllLines
<1>2. ops[i] \in Operation
  BY ElementOfSeq, LenProperties
<1>3. ops[i].header \in Nat /\ ops[i].body \in Seq(BodyLine)
  BY <1>2 DEF Operation
<1>4. \A k \in DOMAIN ops[i].body : ops[i].body[k].line \in Nat
  <2> SUFFICES ASSUME NEW k \in DOMAIN ops[i].body PROVE ops[i].body[k].line \in Nat
    OBVIOUS
  <2>1. ops[i].body[k] \in BodyLine
    BY <1>3, ElementOfSeq, LenProperties
  <2> QED BY <2>1 DEF BodyLine
<1> QED BY <1>3, <1>4 DEF Lines

LEMMA NoLines == Ordered(<<>>) /\ AllLines(<<>>) = {}
<1>1. DOMAIN <<>> = {}
  OBVIOUS
<1> QED BY <1>1 DEF Ordered, AllLines

\* Ordered operations that come after ordered operations.
LEMMA ConcatOrdered ==
  ASSUME NEW s \in Seq(Operation), NEW t \in Seq(Operation), Ordered(s), Ordered(t),
         \A x \in AllLines(s) : \A y \in AllLines(t) : x < y
  PROVE  /\ Ordered(s \o t)
         /\ AllLines(s \o t) \subseteq AllLines(s) \cup AllLines(t)
<1> DEFINE u == s \o t
<1>1. /\ Len(s) \in Nat /\ DOMAIN s = 1 .. Len(s)
      /\ Len(t) \in Nat /\ DOMAIN t = 1 .. Len(t)
  BY LenProperties
<1>2. /\ DOMAIN u = 1 .. Len(s) + Len(t)
      /\ \A i \in 1 .. Len(s) + Len(t) : u[i] = IF i <= Len(s) THEN s[i] ELSE t[i - Len(s)]
  <2>1. /\ u \in Seq(Operation) /\ Len(u) = Len(s) + Len(t)
        /\ \A i \in 1 .. Len(s) + Len(t) : u[i] = IF i <= Len(s) THEN s[i] ELSE t[i - Len(s)]
    BY ConcatProperties, Zenon
  <2>2. DOMAIN u = 1 .. Len(u)
    BY <2>1, LenProperties, Zenon
  <2> QED BY <2>1, <2>2
<1> HIDE DEF u
<1>3. \A i \in DOMAIN u :
        \/ i \in DOMAIN s /\ u[i] = s[i]
        \/ i - Len(s) \in DOMAIN t /\ i > Len(s) /\ u[i] = t[i - Len(s)]
  BY <1>1, <1>2
<1>4. \A i \in DOMAIN u : \A j \in 1 .. i - 1 : \A x \in Lines(u[j]) : x < u[i].header
  <2> SUFFICES ASSUME NEW i \in DOMAIN u, NEW j \in 1 .. i - 1, NEW x \in Lines(u[j])
               PROVE  x < u[i].header
    OBVIOUS
  <2>1. i \in Nat /\ j \in DOMAIN u /\ j < i
    BY <1>1, <1>2
  <2>2. CASE i \in DOMAIN s /\ u[i] = s[i]
    <3>1. j \in 1 .. i - 1 /\ u[j] = s[j]
      BY <1>1, <1>2, <2>2
    <3> QED BY <2>2, <3>1 DEF Ordered
  <2>3. CASE i - Len(s) \in DOMAIN t /\ i > Len(s) /\ u[i] = t[i - Len(s)]
    <3>1. CASE j \in DOMAIN s /\ u[j] = s[j]
      <4>1. x \in AllLines(s)
        BY <3>1 DEF AllLines
      <4>2. u[i].header \in AllLines(t)
        BY <2>3 DEF AllLines, Lines
      <4> QED BY <4>1, <4>2
    <3>2. CASE j - Len(s) \in DOMAIN t /\ j > Len(s) /\ u[j] = t[j - Len(s)]
      <4>1. j - Len(s) \in 1 .. (i - Len(s)) - 1
        BY <1>1, <2>1, <3>2
      <4> QED BY <2>3, <3>2, <4>1 DEF Ordered
    <3> QED BY <1>3, <2>1, <3>1, <3>2
  <2> QED BY <1>3, <2>2, <2>3
<1>5. \A i \in DOMAIN u : OpOrdered(u[i])
  BY <1>3 DEF Ordered
<1>6. AllLines(u) \subseteq AllLines(s) \cup AllLines(t)
  BY <1>3 DEF AllLines
<1> QED BY <1>4, <1>5, <1>6 DEF Ordered, u

\* One more operation.
LEMMA AppendOrdered ==
  ASSUME NEW s \in Seq(Operation), NEW op \in Operation, Ordered(s), OpOrdered(op),
         \A x \in AllLines(s) : x < op.header
  PROVE  /\ Ordered(Append(s, op))
         /\ AllLines(Append(s, op)) \subseteq AllLines(s) \cup Lines(op)
<1> DEFINE u == Append(s, op)
<1>1. Len(s) \in Nat /\ DOMAIN s = 1 .. Len(s)
  BY LenProperties
<1>2. /\ DOMAIN u = 1 .. Len(s) + 1
      /\ \A i \in 1 .. Len(s) : u[i] = s[i]
      /\ u[Len(s) + 1] = op
  <2>1. /\ u \in Seq(Operation) /\ Len(u) = Len(s) + 1
        /\ \A i \in 1 .. Len(s) : u[i] = s[i]
        /\ u[Len(s) + 1] = op
    BY AppendProperties
  <2>2. DOMAIN u = 1 .. Len(u)
    BY <2>1, LenProperties, Zenon
  <2> QED BY <2>1, <2>2
<1> HIDE DEF u
<1>3. \A i \in DOMAIN u :
        \/ i \in DOMAIN s /\ u[i] = s[i]
        \/ i = Len(s) + 1 /\ u[i] = op
  BY <1>1, <1>2
<1>4. \A i \in DOMAIN u : \A j \in 1 .. i - 1 : \A x \in Lines(u[j]) : x < u[i].header
  <2> SUFFICES ASSUME NEW i \in DOMAIN u, NEW j \in 1 .. i - 1, NEW x \in Lines(u[j])
               PROVE  x < u[i].header
    OBVIOUS
  <2>1. j \in DOMAIN s /\ u[j] = s[j]
    BY <1>1, <1>2
  <2>2. CASE i \in DOMAIN s /\ u[i] = s[i]
    BY <2>1, <2>2 DEF Ordered
  <2>3. CASE i = Len(s) + 1 /\ u[i] = op
    <3>1. x \in AllLines(s)
      BY <2>1 DEF AllLines
    <3> QED BY <2>3, <3>1
  <2> QED BY <1>3, <2>2, <2>3
<1>5. \A i \in DOMAIN u : OpOrdered(u[i])
  BY <1>3 DEF Ordered
<1>6. AllLines(u) \subseteq AllLines(s) \cup Lines(op)
  BY <1>3 DEF AllLines
<1> QED BY <1>4, <1>5, <1>6 DEF Ordered, u

\* The section's lines are those of its header and its buffer.
LEMMA SectionOrdered ==
  ASSUME TypeOK, SectionInv, header # None
  PROVE  OpOrdered(NewOperation) /\ \A x \in Lines(NewOperation) : Taken(x)
<1>1. /\ NewOperation.header = header /\ NewOperation.body = Body
      /\ DOMAIN Body \subseteq DOMAIN buffer
      /\ \A k \in DOMAIN Body : Body[k].line = buffer[k]
  BY BodyType DEF NewOperation
<1>2. OpOrdered(NewOperation)
  <2> SUFFICES ASSUME NEW k \in DOMAIN Body
               PROVE  /\ header < Body[k].line
                      /\ \A l \in 1 .. k - 1 : Body[l].line < Body[k].line
    BY <1>1 DEF OpOrdered
  <2>1. \A l \in 1 .. k - 1 : l \in DOMAIN Body
    <3>1. Body \in Seq(BodyLine)
      BY BodyType
    <3>2. DOMAIN Body = 1 .. Len(Body) /\ Len(Body) \in Nat
      BY <3>1, LenProperties
    <3> QED BY <3>2
  <2> QED BY <1>1, <2>1 DEF SectionInv
<1>3. \A x \in Lines(NewOperation) : Taken(x)
  BY <1>1 DEF Lines, SectionInv
<1> QED BY <1>2, <1>3

LEMMA BuiltOrdered ==
  ASSUME TypeOK, SectionInv, header # None => Buildable
  PROVE  Ordered(Built) /\ \A x \in AllLines(Built) : Taken(x)
<1>1. parsed \in Seq(Operation)
  BY DEF TypeOK
<1>2. CASE header = None
  BY <1>2 DEF Built, SectionInv
<1>3. CASE header # None
  <2>1. Built = Append(parsed, NewOperation) /\ NewOperation.header = header
    BY <1>3 DEF Built, NewOperation
  <2>2. NewOperation \in Operation
    BY <1>3, SectionType
  <2>3. OpOrdered(NewOperation) /\ \A x \in Lines(NewOperation) : Taken(x)
    BY <1>3, SectionOrdered
  <2>4. Ordered(parsed) /\ \A x \in AllLines(parsed) : Taken(x) /\ x < NewOperation.header
    BY <2>1 DEF SectionInv
  <2>5. /\ Ordered(Append(parsed, NewOperation))
        /\ AllLines(Append(parsed, NewOperation)) \subseteq AllLines(parsed) \cup Lines(NewOperation)
    BY <1>1, <2>2, <2>3, <2>4, AppendOrdered
  <2> QED BY <2>1, <2>3, <2>4, <2>5
<1> QED BY <1>2, <1>3

LEMMA OrderStart == Init => OrderInv
<1> SUFFICES ASSUME Init PROVE OrderInv
  OBVIOUS
<1>1. Ordered(operations) /\ AllLines(operations) = {} /\ pc = "apply_patch" /\ block = <<>>
  BY NoLines DEF Init
<1> QED BY <1>1 DEF OrderInv, BlockInv

\* A step that leaves the operations and ends the pass keeps the order.
LEMMA OrderOnceOver ==
  ASSUME OrderInv, pc' \in {"done", "raised"}, operations' = operations
  PROVE  OrderInv'
BY DEF OrderInv

LEMMA PlainOrdered ==
  ASSUME TypeOK,
         operations' = <<[op_type |-> "update", header |-> None,
                          body |-> [i \in DOMAIN patch |-> [line |-> i, bare |-> FALSE]]]>>
  PROVE  Ordered(operations')
<1> DEFINE op == [op_type |-> "update", header |-> None,
                  body |-> [i \in DOMAIN patch |-> [line |-> i, bare |-> FALSE]]]
<1>1. DOMAIN patch = 1 .. Len(patch) /\ Len(patch) \in Nat
  BY PatchType
<1>2. OpOrdered(op)
  BY <1>1 DEF OpOrdered, None
<1>3. DOMAIN operations' = 1 .. 1 /\ operations'[1] = op
  OBVIOUS
<1> HIDE DEF op
<1>4. SUFFICES ASSUME NEW i \in DOMAIN operations'
               PROVE  /\ OpOrdered(operations'[i])
                      /\ \A j \in 1 .. i - 1 : \A x \in Lines(operations'[j]) :
                           x < operations'[i].header
  BY Zenon DEF Ordered
<1>5. i = 1 /\ 1 .. i - 1 = {}
  BY <1>3
<1> QED BY <1>2, <1>3, <1>5

\* The end marker closes the section: what it makes goes behind the operations.
LEMMA BlockEndKeepsOrder ==
  ASSUME TypeInv, OrderInv, EndOfBlock
  PROVE  OrderInv'
<1> USE DEF TypeInv
<1>1. CASE header # None /\ ~Buildable
  BY <1>1, OrderOnceOver DEF EndOfBlock, Raise, outerVars
<1>2. CASE header # None => Buildable
  <2>1. /\ pc = "block" /\ pc' = "codex" /\ line' = line + 1 /\ block' = <<>>
        /\ operations' = operations \o Built
    BY <1>2 DEF EndOfBlock
  <2>2. BlockInv /\ SectionInv /\ Ordered(operations)
    BY <2>1 DEF OrderInv
  <2>3. operations \in Seq(Operation) /\ Built \in Seq(Operation) /\ line \in Nat
    BY <1>2, BuiltType, PatchType DEF TypeOK
  <2>4. Ordered(Built) /\ \A x \in AllLines(Built) : Taken(x)
    BY <1>2, <2>2, BuiltOrdered
  <2>5. \A x \in AllLines(operations) : \A y \in AllLines(Built) : x < y
    BY <2>4 DEF Taken, Between
  <2>6. /\ Ordered(operations \o Built)
        /\ AllLines(operations \o Built) \subseteq AllLines(operations) \cup AllLines(Built)
    BY <2>2, <2>3, <2>4, <2>5, ConcatOrdered
  <2>7. AllLines(operations) \subseteq Nat /\ AllLines(Built) \subseteq Nat
    BY <2>3, LinesAreNumbers
  <2>8. \A x \in AllLines(operations) \cup AllLines(Built) : x < line + 1
    BY <2>2, <2>3, <2>4, <2>7 DEF BlockInv, Taken, Between
  <2>9. Ordered(operations')
    BY <2>1, <2>6
  <2>10. \A x \in AllLines(operations') : x < line'
    BY <2>1, <2>6, <2>8
  <2>11. DOMAIN block' = {}
    BY <2>1
  <2> QED BY <2>1, <2>9, <2>10, <2>11 DEF OrderInv, BlockInv
<1> QED BY <1>1, <1>2

\* A directive closes the section before it and opens its own.
LEMMA DirectiveKeepsOrder ==
  ASSUME TypeInv, OrderInv, Directive
  PROVE  OrderInv'
<1> USE DEF TypeInv
<1>1. CASE header # None /\ ~Buildable
  BY <1>1, OrderOnceOver DEF Directive, Raise, outerVars
<1>2. CASE header # None => Buildable
  <2>1. /\ pc = "block" /\ pc' = "block" /\ line' = line /\ block' = block
        /\ operations' = operations /\ at' = at + 1 /\ at <= Len(block)
        /\ header' = block[at] /\ buffer' = <<>> /\ parsed' = Built
    BY <1>2 DEF Directive, AtBlockLine, outerVars
  <2>2. BlockInv /\ SectionInv /\ Ordered(operations)
    BY <2>1 DEF OrderInv
  <2>3. at \in 1 .. Len(block) /\ Len(block) \in Nat /\ DOMAIN block = 1 .. Len(block)
    BY <2>1, BlockType DEF TypeOK
  <2>4. block[at] \in Nat \ {0}
    BY <2>3, BlockType
  <2>5. Ordered(Built) /\ \A x \in AllLines(Built) : Taken(x)
    BY <1>2, <2>2, BuiltOrdered
  <2>6. \A x : Taken(x) => Between(x, at + 1) /\ x < block[at]
    BY <2>1, <2>3 DEF Taken, Between
  <2>7. Between(block[at], at + 1)
    BY <2>1, <2>2, <2>3 DEF Between, BlockInv
  <2>8. DOMAIN buffer' = {}
    BY <2>1
  <2>9. SectionInv'
    BY <2>1, <2>4, <2>5, <2>6, <2>7, <2>8 DEF SectionInv, Taken, Between, None
  <2> QED BY <2>1, <2>2, <2>9 DEF OrderInv, BlockInv
<1> QED BY <1>1, <1>2

\* A line of the section goes behind those the buffer holds.
LEMMA SectionLineKeepsOrder ==
  ASSUME TypeInv, OrderInv, SectionLine
  PROVE  OrderInv'
<1> USE DEF TypeInv
<1>1. CASE header = None /\ ~Blank(block[at])
  BY <1>1, OrderOnceOver DEF SectionLine, Raise, outerVars
<1>2. CASE ~(header = None /\ ~Blank(block[at]))
  <2>1. /\ pc = "block" /\ pc' = "block" /\ line' = line /\ block' = block
        /\ operations' = operations /\ at' = at + 1 /\ at <= Len(block)
        /\ header' = header /\ parsed' = parsed
        /\ buffer' = (IF header = None THEN buffer ELSE Append(buffer, block[at]))
    BY <1>2 DEF SectionLine, AtBlockLine, outerVars
  <2>2. BlockInv /\ SectionInv /\ Ordered(operations)
    BY <2>1 DEF OrderInv
  <2>3. at \in 1 .. Len(block) /\ Len(block) \in Nat /\ DOMAIN block = 1 .. Len(block)
    BY <2>1, BlockType DEF TypeOK
  <2>4. \A x : Taken(x) => Between(x, at + 1) /\ x < block[at]
    BY <2>1, <2>3 DEF Taken, Between
  <2>5. Between(block[at], at + 1)
    BY <2>1, <2>2, <2>3 DEF Between, BlockInv
  <2>6. \A k \in DOMAIN buffer' :
          /\ Between(buffer'[k], at + 1) /\ header < buffer'[k]
          /\ \A l \in 1 .. k - 1 : buffer'[l] < buffer'[k]
    <3>1. CASE header = None
      BY <2>1, <2>2, <2>4, <3>1 DEF SectionInv
    <3>2. CASE header # None
      <4>1. buffer \in Seq(DOMAIN patch) /\ Len(buffer) \in Nat /\ DOMAIN buffer = 1 .. Len(buffer)
        BY LenProperties DEF TypeOK
      <4>2. block[at] \in DOMAIN patch
        BY <2>3, BlockType
      <4>3. /\ buffer' \in Seq(DOMAIN patch) /\ Len(buffer') = Len(buffer) + 1
            /\ \A k \in 1 .. Len(buffer) : buffer'[k] = buffer[k]
            /\ buffer'[Len(buffer) + 1] = block[at]
        BY <2>1, <3>2, <4>1, <4>2, AppendProperties
      <4>4. DOMAIN buffer' = 1 .. Len(buffer) + 1
        BY <4>3, LenProperties
      <4>5. \A k \in DOMAIN buffer : /\ Between(buffer[k], at + 1) /\ header < buffer[k]
                                     /\ buffer[k] < block[at]
                                     /\ \A l \in 1 .. k - 1 : buffer[l] < buffer[k]
        BY <2>2, <2>4 DEF SectionInv
      <4>6. header < block[at]
        BY <2>2, <2>4, <3>2 DEF SectionInv
      <4>7. SUFFICES ASSUME NEW k \in DOMAIN buffer'
                     PROVE  /\ Between(buffer'[k], at + 1) /\ header < buffer'[k]
                            /\ \A l \in 1 .. k - 1 : buffer'[l] < buffer'[k]
        OBVIOUS
      <4>8. CASE k \in DOMAIN buffer
        <5>1. buffer'[k] = buffer[k] /\ \A l \in 1 .. k - 1 : buffer'[l] = buffer[l]
          BY <4>1, <4>3, <4>8
        <5> QED BY <4>5, <4>8, <5>1
      <4>9. CASE k = Len(buffer) + 1
        <5>1. buffer'[k] = block[at] /\ \A l \in 1 .. k - 1 : l \in DOMAIN buffer /\ buffer'[l] = buffer[l]
          BY <4>1, <4>3, <4>9
        <5> QED BY <2>5, <4>5, <4>6, <5>1
      <4> QED BY <4>1, <4>4, <4>8, <4>9
    <3> QED BY <3>1, <3>2
  <2>7. SectionInv'
    BY <2>1, <2>2, <2>4, <2>6 DEF SectionInv, Taken, Between
  <2> QED BY <2>1, <2>2, <2>7 DEF OrderInv, BlockInv
<1> QED BY <1>1, <1>2

LEMMA OrderKeep == TypeInv /\ OrderInv /\ [Next]_vars => OrderInv'
<1> SUFFICES ASSUME TypeInv, OrderInv, [Next]_vars PROVE OrderInv'
  OBVIOUS
<1> USE DEF TypeInv
<1>1. line \in Nat /\ AllLines(operations) \subseteq Nat
  BY PatchType, LinesAreNumbers DEF TypeOK
<1>2. CASE Raise
  BY <1>2, OrderOnceOver DEF Raise, outerVars
<1>3. CASE UNCHANGED vars
  BY <1>3 DEF vars, outerVars, innerVars, OrderInv, BlockInv, SectionInv, Taken, Between
<1>4. CASE Parsed
  BY <1>3, <1>4 DEF Parsed
<1>5. CASE ApplyPatch
  <2>1. CASE pc' = "codex" /\ UNCHANGED outerVars
    BY <1>5, <2>1 DEF ApplyPatch, outerVars, OrderInv, BlockInv
  <2>2. CASE ParsePlainDiff
    <3>1. CASE path /\ \E i \in DOMAIN patch : patch[i] = "hunk"
      <4>1. Ordered(operations') /\ pc' = "done"
        BY <2>2, <3>1, PlainOrdered DEF ParsePlainDiff
      <4> QED BY <4>1 DEF OrderInv, Ordered
    <3> QED BY <1>2, <2>2, <3>1 DEF ParsePlainDiff
  <2> QED BY <1>2, <1>5, <2>1, <2>2 DEF ApplyPatch
<1>6. CASE BeginMarker
  <2>1. CASE ~inside
    <3>1. /\ pc = "codex" /\ pc' = "codex" /\ line' = line + 1 /\ block' = <<>>
          /\ operations' = operations
      BY <1>6, <2>1 DEF BeginMarker, AtLine
    <3>2. DOMAIN block' = {}
      BY <3>1
    <3> QED BY <1>1, <3>1, <3>2 DEF OrderInv, BlockInv
  <2> QED BY <1>2, <1>6, <2>1 DEF BeginMarker
<1>7. CASE EndMarker
  <2>1. CASE inside
    <3>1. /\ pc = "codex" /\ pc' = "block" /\ line' = line /\ block' = block
          /\ operations' = operations
          /\ header' = None /\ buffer' = <<>> /\ parsed' = <<>>
      BY <1>7, <2>1 DEF EndMarker, AtLine, outerVars
    <3>2. DOMAIN buffer' = {} /\ Ordered(parsed') /\ AllLines(parsed') = {}
      BY <3>1, NoLines
    <3>3. SectionInv'
      BY <3>1, <3>2 DEF SectionInv
    <3> QED BY <3>1, <3>3 DEF OrderInv, BlockInv
  <2> QED BY <1>2, <1>7, <2>1 DEF EndMarker
<1>8. CASE OtherLine
  <2>1. CASE inside \/ Blank(line)
    <3>1. /\ pc = "codex" /\ pc' = "codex" /\ line' = line + 1 /\ line <= Len(patch)
          /\ block' = (IF inside THEN Append(block, line) ELSE block)
          /\ operations' = operations
      BY <1>8, <2>1 DEF OtherLine, AtLine
    <3>2. BlockInv /\ Ordered(operations)
      BY <3>1 DEF OrderInv
    <3>3. /\ Len(block) \in Nat /\ DOMAIN block = 1 .. Len(block)
          /\ \A k \in DOMAIN block : block[k] \in Nat
      BY BlockType
    <3>4. BlockInv'
      <4>1. CASE block' = block
        <5>1. \A k \in DOMAIN block : block[k] < line + 1
          BY <1>1, <3>2, <3>3 DEF BlockInv
        <5>2. \A x \in AllLines(operations) : x < line + 1
          BY <1>1, <3>2 DEF BlockInv
        <5> QED BY <3>1, <3>2, <4>1, <5>1, <5>2 DEF BlockInv
      <4>2. CASE block' = Append(block, line)
        <5>1. line \in DOMAIN patch
          BY <3>1, PatchType DEF TypeOK
        <5>2. /\ block' \in Seq(DOMAIN patch) /\ Len(block') = Len(block) + 1
              /\ \A k \in 1 .. Len(block) : block'[k] = block[k]
              /\ block'[Len(block) + 1] = line
          BY <4>2, <5>1, AppendProperties DEF TypeOK
        <5>3. DOMAIN block' = 1 .. Len(block) + 1
          BY <5>2, LenProperties
        <5>4. \A k \in DOMAIN block' :
                /\ block'[k] < line + 1
                /\ \A j \in 1 .. k - 1 : block'[j] < block'[k]
          BY <1>1, <3>2, <3>3, <5>2, <5>3 DEF BlockInv
        <5>5. \A x \in AllLines(operations) : x < line + 1 /\ \A k \in DOMAIN block' : x < block'[k]
          BY <1>1, <3>2, <3>3, <5>2, <5>3 DEF BlockInv
        <5> QED BY <3>1, <5>4, <5>5 DEF BlockInv
      <4> QED BY <3>1, <4>1, <4>2
    <3> QED BY <3>1, <3>2, <3>4 DEF OrderInv
  <2> QED BY <1>2, <1>8, <2>1 DEF OtherLine
<1>9. CASE EndOfPatch
  <2>1. CASE pc' = "done" /\ UNCHANGED outerVars
    BY <2>1, OrderOnceOver DEF outerVars
  <2> QED BY <1>2, <1>9, <2>1 DEF EndOfPatch
<1>10. CASE EndOfFileLine
  <2>1. /\ pc = "block" /\ pc' = "block" /\ line' = line /\ block' = block
        /\ operations' = operations /\ at' = at + 1
        /\ header' = header /\ buffer' = buffer /\ parsed' = parsed
    BY <1>10 DEF EndOfFileLine, AtBlockLine, outerVars
  <2>2. at \in Nat /\ Len(block) \in Nat
    BY BlockType DEF TypeOK
  <2>3. \A x : Taken(x) => Between(x, at + 1)
    BY <2>2 DEF Taken, Between
  <2>4. SectionInv'
    BY <2>1, <2>3 DEF SectionInv, OrderInv, Taken, Between
  <2> QED BY <2>1, <2>4 DEF OrderInv, BlockInv
<1> QED BY <1>2, <1>3, <1>4, <1>5, <1>6, <1>7, <1>8, <1>9, <1>10,
           DirectiveKeepsOrder, SectionLineKeepsOrder, BlockEndKeepsOrder DEF Next

LEMMA OrderHolds == Spec => []OrderInv
BY TypesHold, OrderStart, OrderKeep, PTL DEF Spec

\* Whatever the payload, its lines keep their order in the operations and none is used
\* twice: no section leaks into the next one, and no block into the next one (66-135).
THEOREM OperationsKeepOrder == Spec => []LinesKeepOrder
<1>1. OrderInv => LinesKeepOrder
  <2> SUFFICES ASSUME OrderInv PROVE LinesKeepOrder
    OBVIOUS
  <2>1. \A i \in DOMAIN operations :
          \A j \in 1 .. i - 1 :
            /\ operations[j].header < operations[i].header
            /\ \A k \in DOMAIN operations[j].body :
                 operations[j].body[k].line < operations[i].header
    BY DEF OrderInv, Ordered, Lines
  <2>2. \A i \in DOMAIN operations : OpOrdered(operations[i])
    BY DEF OrderInv, Ordered
  <2> QED BY <2>1, <2>2 DEF LinesKeepOrder, OpOrdered
<1> QED BY <1>1, OrderHolds, PTL

-----------------------------------------------------------------------------
(* The passes follow the grammar.                                          *)

\* The begin marker of the block that is read, or the next line.
Start == IF inside THEN line - 1 - Len(block) ELSE line

\* The lines and the operations of the closed blocks are right, and the block is what has
\* come since its begin marker.
ReadInv ==
  /\ StartsWithBegin
  /\ inside <=> Open(patch, line - 1)
  /\ \A i \in 1 .. Start - 1 : Fits(patch, i)
  /\ HeadersOf(operations) = {h \in Headers(patch) : h < Start}
  /\ AreMeant(patch, operations)
  /\ inside =>
       /\ Start \in 1 .. line - 1 /\ patch[Start] \in Begins /\ ~Open(patch, Start - 1)
       /\ \A k \in 1 .. Len(block) : block[k] = Start + k /\ patch[Start + k] \notin Markers

\* The next line of the block.
Place == Start + at

\* So are those of the block, up to the section that is read, which has all its lines so far.
BlockReadInv ==
  /\ inside /\ line <= Len(patch) /\ patch[line] \in Ends
  /\ \A i \in Start + 1 .. Place - 1 : i # header => Fits(patch, i)
  /\ HeadersOf(parsed) = {h \in Headers(patch) : Start < h /\ h < Place /\ h # header}
  /\ AreMeant(patch, parsed)
  /\ header = None => \A i \in Start + 1 .. Place - 1 : patch[i] \notin Directives
  /\ header # None =>
       /\ header \in Start + 1 .. Place - 1 /\ patch[header] \in Directives
       /\ \A i \in header + 1 .. Place - 1 : patch[i] \notin Directives
       /\ {buffer[k] : k \in DOMAIN buffer} = {i \in header + 1 .. Place - 1 : patch[i] # "eof"}

GrammarInv ==
  /\ pc = "apply_patch" => line = 1 /\ ~inside /\ operations = <<>>
  /\ pc \in {"codex", "block"} => ReadInv
  /\ pc = "block" => BlockReadInv
  /\ pc = "done" =>
       IF StartsWithBegin
       THEN /\ IsCodexPatch(patch)
            /\ HeadersOf(operations) = Headers(patch) /\ AreMeant(patch, operations)
       ELSE IsPlainDiff /\ Meaning
  /\ pc = "raised" => ~IsCodexPatch(patch) /\ ~IsPlainDiff

\* The least of some numbers.
LEMMA Least ==
  ASSUME NEW T, T \subseteq Nat, T # {}
  PROVE  \E m \in T : \A x \in T : m <= x
<1>1. IsWellFoundedOn({p \in Nat \X Nat : p[1] < p[2]}, Nat)
  BY NatLessThanWellFounded DEF OpToRel
<1>2. PICK m \in T : \A x \in T : ~ (<<x, m>> \in {p \in Nat \X Nat : p[1] < p[2]})
  BY <1>1, WFMin
<1>3. \A x \in T : x \in Nat /\ m \in Nat /\ ~ (x < m)
  BY <1>2
<1> QED BY <1>2, <1>3

\* The kinds of lines, told apart.
LEMMA KindsApart ==
  /\ Begins \cap Ends = {} /\ Directives \cap Markers = {}
  /\ \A k \in {"eof", "blank", "hunk", "plus", "text"} : k \notin Directives \cup Markers
  /\ \A k \in Kinds : \/ k \in Begins \/ k \in Ends \/ k \in Directives
                      \/ k \in {"hunk", "plus", "text"} \/ k = "eof" \/ k = "blank"
BY DEF Begins, Ends, Markers, Directives, Operations, Kinds

LEMMA OpenStep ==
  ASSUME NEW p, NEW n \in Nat \ {0}
  PROVE  /\ ~Open(p, 0)
         /\ p[n] \in Begins => Open(p, n)
         /\ p[n] \in Ends => ~Open(p, n)
         /\ p[n] \notin Markers => (Open(p, n) <=> Open(p, n - 1))
<1>1. ~Open(p, 0)
  BY DEF Open
<1>2. ASSUME p[n] \in Begins PROVE Open(p, n)
  <2>1. n \in 1 .. n /\ \A k \in n + 1 .. n : FALSE
    OBVIOUS
  <2> QED BY <1>2, <2>1 DEF Open
<1>3. ASSUME p[n] \in Ends, Open(p, n) PROVE FALSE
  <2>1. PICK b \in 1 .. n : p[b] \in Begins /\ \A k \in b + 1 .. n : p[k] \notin Markers
    BY <1>3 DEF Open
  <2>2. b # n
    BY <1>3, <2>1, KindsApart
  <2>3. n \in b + 1 .. n
    BY <2>1, <2>2
  <2> QED BY <1>3, <2>1, <2>3 DEF Markers
<1>4. ASSUME p[n] \notin Markers PROVE Open(p, n) <=> Open(p, n - 1)
  <2>1. ASSUME Open(p, n) PROVE Open(p, n - 1)
    <3>1. PICK b \in 1 .. n : p[b] \in Begins /\ \A k \in b + 1 .. n : p[k] \notin Markers
      BY <2>1 DEF Open
    <3>2. b # n
      BY <1>4, <3>1 DEF Markers
    <3>3. b \in 1 .. n - 1 /\ \A k \in b + 1 .. n - 1 : k \in b + 1 .. n
      BY <3>1, <3>2
    <3> QED BY <3>1, <3>3 DEF Open
  <2>2. ASSUME Open(p, n - 1) PROVE Open(p, n)
    <3>1. PICK b \in 1 .. n - 1 : p[b] \in Begins /\ \A k \in b + 1 .. n - 1 : p[k] \notin Markers
      BY <2>2 DEF Open
    <3>2. b \in 1 .. n /\ \A k \in b + 1 .. n : k \in b + 1 .. n - 1 \/ k = n
      BY <3>1
    <3> QED BY <1>4, <3>1, <3>2 DEF Open
  <2> QED BY <2>1, <2>2
<1> QED BY <1>1, <1>2, <1>3, <1>4

LEMMA OpenRun ==
  ASSUME NEW p, NEW s \in Nat, NEW n \in Nat, s <= n,
         \A k \in s + 1 .. n : p[k] \notin Markers, Open(p, s)
  PROVE  Open(p, n)
<1>1. PICK b \in 1 .. s : p[b] \in Begins /\ \A k \in b + 1 .. s : p[k] \notin Markers
  BY DEF Open
<1>2. b \in 1 .. n /\ \A k \in b + 1 .. n : k \in b + 1 .. s \/ k \in s + 1 .. n
  BY <1>1
<1> QED BY <1>1, <1>2 DEF Open

\* A section ends at a directive or a marker.
LEMMA SectionOver ==
  ASSUME NEW p \in Seq(Kinds), NEW h \in Nat \ {0}, NEW n \in 1 .. Len(p), h < n,
         p[h] \in Directives, p[n] \in Directives \cup Markers,
         \A k \in h + 1 .. n - 1 : p[k] \notin Directives \cup Markers
  PROVE  Section(p, h) = {i \in h + 1 .. n - 1 : p[i] # "eof"}
<1>1. Len(p) \in Nat /\ DOMAIN p = 1 .. Len(p)
  BY LenProperties
<1>2. ASSUME NEW i \in DOMAIN p, InSection(p, h, i) PROVE i \in h + 1 .. n - 1 /\ p[i] # "eof"
  <2>1. h < i /\ p[i] # "eof" /\ ~ (n \in h + 1 .. i)
    BY <1>2 DEF InSection
  <2> QED BY <1>1, <2>1
<1>3. ASSUME NEW i \in h + 1 .. n - 1, p[i] # "eof" PROVE i \in DOMAIN p /\ InSection(p, h, i)
  <2>1. i \in DOMAIN p /\ h < i /\ \A k \in h + 1 .. i : k \in h + 1 .. n - 1
    BY <1>1
  <2> QED BY <1>3, <2>1 DEF InSection
<1> QED BY <1>2, <1>3 DEF Section

LEMMA CodexStartsWithBegin ==
  ASSUME NEW p \in Seq(Kinds), IsCodexPatch(p)
  PROVE  \E i \in DOMAIN p : p[i] \in Begins /\ \A j \in 1 .. i - 1 : p[j] = "blank"
<1> DEFINE T == {i \in DOMAIN p : p[i] # "blank"}
<1>1. Len(p) \in Nat /\ DOMAIN p = 1 .. Len(p) /\ \A i \in DOMAIN p : p[i] \in Kinds
  BY LenProperties, ElementOfSeq
<1>2. PICK h \in Headers(p) : TRUE
  BY DEF IsCodexPatch
<1>3. h \in T
  BY <1>2, KindsApart DEF Headers
<1>4. PICK m \in T : \A x \in T : m <= x
  <2>1. T \subseteq Nat /\ T # {}
    BY <1>1, <1>3
  <2> HIDE DEF T
  <2> QED BY <2>1, Least
<1>5. m \in DOMAIN p /\ m \in Nat \ {0} /\ m - 1 \in Nat /\ p[m] # "blank" /\ p[m] \in Kinds
  BY <1>1, <1>4
<1>6. ASSUME NEW j \in 1 .. m - 1 PROVE p[j] = "blank"
  <2>1. j \in DOMAIN p /\ ~ (m <= j)
    BY <1>1, <1>5
  <2> QED BY <1>4, <2>1
<1>7. ~Open(p, m - 1)
  <2> SUFFICES ASSUME NEW b \in 1 .. m - 1, p[b] \in Begins PROVE FALSE
    BY DEF Open
  <2>1. p[b] = "blank"
    BY <1>6
  <2> QED BY <2>1, KindsApart DEF Markers
<1>8. p[m] \notin Begins => p[m] \in Ends \/ ~Open(p, m)
  BY <1>5, <1>7, OpenStep DEF Markers
<1>9. Fits(p, m)
  BY <1>5 DEF IsCodexPatch
<1>10. p[m] \in Begins
  <2> SUFFICES ASSUME p[m] \notin Begins PROVE FALSE
    OBVIOUS
  <2>1. p[m] \notin Ends /\ ~Open(p, m)
    BY <1>7, <1>8, <1>9 DEF Fits
  <2>2. p[m] \in {"hunk", "plus", "text"}
    BY <1>5, <1>9, <2>1, KindsApart DEF Fits
  <2>3. PICK g \in Headers(p) : InSection(p, g, m)
    BY <1>9, <2>2 DEF Fits
  <2>4. g \in 1 .. m - 1 /\ p[g] \in Directives
    BY <1>1, <1>5, <2>3 DEF InSection, Headers
  <2> QED BY <1>6, <2>4, KindsApart
<1> QED BY <1>5, <1>6, <1>10

LEMMA ConcatMeant ==
  ASSUME NEW p, NEW a \in Seq(Operation), NEW b \in Seq(Operation)
  PROVE  /\ HeadersOf(a \o b) = HeadersOf(a) \cup HeadersOf(b)
         /\ AreMeant(p, a) /\ AreMeant(p, b) => AreMeant(p, a \o b)
<1> DEFINE c == a \o b
<1>1. /\ Len(a) \in Nat /\ DOMAIN a = 1 .. Len(a)
      /\ Len(b) \in Nat /\ DOMAIN b = 1 .. Len(b)
  BY LenProperties
<1>2. /\ c \in Seq(Operation) /\ Len(c) = Len(a) + Len(b)
      /\ \A i \in 1 .. Len(a) + Len(b) : c[i] = IF i <= Len(a) THEN a[i] ELSE b[i - Len(a)]
  BY ConcatProperties
<1> HIDE DEF c
<1>3. DOMAIN c = 1 .. Len(a) + Len(b)
  BY <1>2, LenProperties
<1>4. \A i \in DOMAIN a : i \in DOMAIN c /\ c[i] = a[i]
  BY <1>1, <1>2, <1>3
<1>5. ASSUME NEW i \in DOMAIN b PROVE i + Len(a) \in DOMAIN c /\ c[i + Len(a)] = b[i]
  <2>1. i + Len(a) \in 1 .. Len(a) + Len(b) /\ ~ (i + Len(a) <= Len(a)) /\ i + Len(a) - Len(a) = i
    BY <1>1
  <2>2. c[i + Len(a)] = b[i + Len(a) - Len(a)]
    BY <1>2, <2>1
  <2> QED BY <1>3, <2>1, <2>2
<1>6. ASSUME NEW i \in DOMAIN c
      PROVE  (\E j \in DOMAIN a : c[i] = a[j]) \/ (\E j \in DOMAIN b : c[i] = b[j])
  <2>1. CASE i <= Len(a)
    <3>1. i \in DOMAIN a /\ c[i] = a[i]
      BY <1>1, <1>2, <1>3, <2>1
    <3> QED BY <3>1
  <2>2. CASE ~ (i <= Len(a))
    <3>1. i - Len(a) \in DOMAIN b /\ c[i] = b[i - Len(a)]
      BY <1>1, <1>2, <1>3, <2>2
    <3> QED BY <3>1
  <2> QED BY <2>1, <2>2
<1>7. HeadersOf(c) = HeadersOf(a) \cup HeadersOf(b)
  <2>1. ASSUME NEW i \in DOMAIN c PROVE c[i].header \in HeadersOf(a) \cup HeadersOf(b)
    BY <1>6 DEF HeadersOf
  <2>2. ASSUME NEW i \in DOMAIN a PROVE a[i].header \in HeadersOf(c)
    BY <1>4 DEF HeadersOf
  <2>3. ASSUME NEW i \in DOMAIN b PROVE b[i].header \in HeadersOf(c)
    BY <1>5 DEF HeadersOf
  <2> QED BY <2>1, <2>2, <2>3 DEF HeadersOf
<1>8. AreMeant(p, a) /\ AreMeant(p, b) => AreMeant(p, c)
  BY <1>6 DEF AreMeant
<1> QED BY <1>7, <1>8 DEF c

LEMMA OneMeant ==
  ASSUME NEW p, NEW op \in Operation
  PROVE  HeadersOf(<<op>>) = {op.header} /\ (IsMeant(p, op) => AreMeant(p, <<op>>))
<1>1. DOMAIN <<op>> = {1} /\ <<op>>[1] = op
  OBVIOUS
<1> QED BY <1>1 DEF HeadersOf, AreMeant

LEMMA NoneMeant == HeadersOf(<<>>) = {} /\ \A p : AreMeant(p, <<>>)
<1>1. DOMAIN <<>> = {}
  OBVIOUS
<1> QED BY <1>1 DEF HeadersOf, AreMeant

\* The operation made of a header and a buffer is meant, if they are a section.
LEMMA NewIsMeant ==
  ASSUME TypeOK, header # None, Buildable,
         {buffer[k] : k \in DOMAIN buffer} = Section(patch, header)
  PROVE  IsMeant(patch, NewOperation) /\ NewOperation.header = header
<1> DEFINE op == NewOperation
<1>1. op.op_type = patch[header] /\ op.header = header /\ op.body = Body
  BY DEF NewOperation
<1>2. CASE patch[header] = "delete"
  <2>1. op.body = <<>> /\ DOMAIN op.body = {}
    BY <1>1, <1>2 DEF Body
  <2> HIDE DEF op
  <2>2. {op.body[k].line : k \in DOMAIN op.body} = {}
    BY <2>1
  <2> QED BY <1>1, <1>2, <2>1, <2>2 DEF IsMeant, op
<1>3. CASE patch[header] # "delete"
  <2>1. DOMAIN op.body = DOMAIN buffer
    BY <1>1, <1>3 DEF Body
  <2>2. \A k \in DOMAIN buffer :
          /\ op.body[k].line = buffer[k]
          /\ op.body[k].bare = (patch[header] = "add" /\ patch[buffer[k]] = "plus")
    BY <1>1, <1>3 DEF Body
  <2> HIDE DEF op
  <2>3. {op.body[k].line : k \in DOMAIN op.body} = Section(patch, header)
    BY <2>1, <2>2
  <2>4. \A k \in DOMAIN op.body :
          op.body[k].bare <=> op.op_type = "add" /\ patch[op.body[k].line] = "plus"
    <3> SUFFICES ASSUME NEW k \in DOMAIN buffer
                 PROVE  op.body[k].bare <=> op.op_type = "add" /\ patch[op.body[k].line] = "plus"
      BY <2>1
    <3>1. /\ op.body[k].line = buffer[k]
          /\ op.body[k].bare = (patch[header] = "add" /\ patch[buffer[k]] = "plus")
      BY <2>2
    <3>2. op.op_type = patch[header]
      BY <1>1 DEF op
    <3> QED BY <3>1, <3>2, Zenon
  <2> QED BY <1>1, <1>3, <2>3, <2>4 DEF IsMeant, op
<1> QED BY <1>1, <1>2, <1>3

\* Where the block is, and what can stand in it.
LEMMA BlockPlace ==
  ASSUME TypeInv, pc = "block", ReadInv, BlockReadInv
  PROVE  /\ Start \in Nat \ {0} /\ Start + Len(block) + 1 = line /\ line \in Nat
         /\ Place \in Start + 1 .. line /\ Place \in Nat
         /\ at = Len(block) + 1 <=> Place = line
         /\ at <= Len(block) => Place < line /\ block[at] = Place
         /\ patch[Start] \in Begins /\ ~Open(patch, Start - 1) /\ patch[line] \in Ends
         /\ Open(patch, line - 1) /\ line \in DOMAIN patch
         /\ \A i \in Start + 1 .. line - 1 :
              /\ i \in DOMAIN patch /\ patch[i] \notin Markers /\ Open(patch, i)
<1>1. /\ Len(patch) \in Nat /\ DOMAIN patch = 1 .. Len(patch)
      /\ Len(block) \in Nat /\ line \in 1 .. Len(patch) + 1 /\ at \in 1 .. Len(block) + 1
  BY PatchType, BlockType DEF TypeInv, TypeOK
<1>2. inside /\ line <= Len(patch) /\ patch[line] \in Ends
  BY DEF BlockReadInv
<1>3. Start = line - 1 - Len(block)
  BY <1>2 DEF Start
<1>4. /\ Start \in 1 .. line - 1 /\ patch[Start] \in Begins /\ ~Open(patch, Start - 1)
      /\ Open(patch, line - 1)
  BY <1>2 DEF ReadInv
<1>5. \A k \in 1 .. Len(block) : block[k] = Start + k /\ patch[Start + k] \notin Markers
  BY <1>2 DEF ReadInv
<1>6. /\ Start \in Nat \ {0} /\ Start + Len(block) + 1 = line /\ line \in Nat
      /\ line \in DOMAIN patch
  <2>1. line \in Nat /\ line \in DOMAIN patch
    BY <1>1, <1>2
  <2>2. Start \in 1 .. line - 1
    BY <1>4
  <2> QED BY <1>1, <1>3, <2>1, <2>2
<1>7. /\ Place \in Start + 1 .. line /\ Place \in Nat
      /\ at = Len(block) + 1 <=> Place = line
      /\ at <= Len(block) => Place < line
  BY <1>1, <1>6 DEF Place
<1>8. at <= Len(block) => block[at] = Place
  BY <1>1, <1>5 DEF Place
<1>9. ASSUME NEW i \in Start + 1 .. line - 1
      PROVE  i \in DOMAIN patch /\ patch[i] \notin Markers
  <2>1. i \in DOMAIN patch /\ i - Start \in 1 .. Len(block) /\ Start + (i - Start) = i
    BY <1>1, <1>2, <1>6
  <2>2. patch[Start + (i - Start)] \notin Markers
    BY <1>5, <2>1
  <2> QED BY <2>1, <2>2
<1>10. ASSUME NEW i \in Start + 1 .. line - 1 PROVE Open(patch, i)
  <2>1. Open(patch, Start)
    BY <1>4, <1>6, OpenStep
  <2>2. i \in Nat /\ Start <= i /\ Start \in Nat /\ \A k \in Start + 1 .. i : k \in Start + 1 .. line - 1
    BY <1>6
  <2>3. \A k \in Start + 1 .. i : patch[k] \notin Markers
    BY <1>9, <2>2
  <2> QED BY <2>1, <2>2, <2>3, OpenRun
<1> QED BY <1>2, <1>4, <1>6, <1>7, <1>8, <1>9, <1>10

\* What a section that ends here means.
LEMMA SectionDone ==
  ASSUME TypeInv, pc = "block", ReadInv, BlockReadInv, patch[Place] \in Directives \cup Markers
  PROVE  /\ header # None /\ ~Buildable => ~IsCodexPatch(patch)
         /\ (header # None => Buildable) =>
              /\ \A i \in Start + 1 .. Place - 1 : Fits(patch, i)
              /\ HeadersOf(Built) = {h \in Headers(patch) : Start < h /\ h < Place}
              /\ AreMeant(patch, Built)
<1>1. /\ patch \in Seq(Kinds) /\ DOMAIN patch = 1 .. Len(patch) /\ Len(patch) \in Nat
      /\ TypeOK
  BY PatchType DEF TypeInv
<1>2. /\ Start \in Nat \ {0} /\ line \in Nat /\ line \in DOMAIN patch
      /\ Place \in Start + 1 .. line /\ Place \in Nat
      /\ \A i \in Start + 1 .. line - 1 :
           i \in DOMAIN patch /\ patch[i] \notin Markers /\ Open(patch, i)
  BY BlockPlace
<1>3. /\ \A i \in Start + 1 .. Place - 1 : i # header => Fits(patch, i)
      /\ HeadersOf(parsed) = {h \in Headers(patch) : Start < h /\ h < Place /\ h # header}
      /\ AreMeant(patch, parsed)
  BY DEF BlockReadInv
<1>4. CASE header = None
  <2>1. Built = parsed
    BY <1>4 DEF Built
  <2>2. header = 0
    BY <1>4 DEF None
  <2>3. \A i \in Start + 1 .. Place - 1 : i # header
    BY <1>2, <2>2
  <2>4. {h \in Headers(patch) : Start < h /\ h < Place /\ h # header}
          = {h \in Headers(patch) : Start < h /\ h < Place}
    BY <1>2, <2>2
  <2> QED BY <1>3, <1>4, <2>1, <2>3, <2>4
<1>5. CASE header # None
  <2>1. /\ header \in Start + 1 .. Place - 1 /\ patch[header] \in Directives
        /\ \A i \in header + 1 .. Place - 1 : patch[i] \notin Directives
        /\ {buffer[k] : k \in DOMAIN buffer} = {i \in header + 1 .. Place - 1 : patch[i] # "eof"}
    BY <1>5 DEF BlockReadInv
  <2>2. /\ header \in Nat \ {0} /\ header < Place /\ Place \in 1 .. Len(patch)
        /\ header \in Start + 1 .. line - 1
    BY <1>1, <1>2, <2>1
  <2>3. \A k \in header + 1 .. Place - 1 : patch[k] \notin Directives \cup Markers
    <3>1. \A k \in header + 1 .. Place - 1 : k \in Start + 1 .. line - 1
      BY <1>2, <2>2
    <3> QED BY <1>2, <2>1, <3>1
  <2>4. Section(patch, header) = {i \in header + 1 .. Place - 1 : patch[i] # "eof"}
    BY <1>1, <2>1, <2>2, <2>3, SectionOver
  <2>5. {buffer[k] : k \in DOMAIN buffer} = Section(patch, header)
    BY <2>1, <2>4
  <2>6. header \in DOMAIN patch /\ Open(patch, header)
    BY <1>2, <2>2
  <2>7. header \in Headers(patch)
    BY <2>1, <2>6 DEF Headers
  <2>8. Buildable <=> /\ patch[header] \in Operations
                      /\ patch[header] = "update" => \E j \in Section(patch, header) : patch[j] # "blank"
    <3>1. (\E k \in DOMAIN buffer : patch[buffer[k]] # "blank")
            <=> \E j \in {buffer[k] : k \in DOMAIN buffer} : patch[j] # "blank"
      OBVIOUS
    <3> QED BY <2>5, <3>1 DEF Buildable, Blank
  <2>9. ASSUME ~Buildable PROVE ~IsCodexPatch(patch)
    <3>1. ~Fits(patch, header)
      BY <2>1, <2>8, <2>9 DEF Fits
    <3> QED BY <2>6, <3>1 DEF IsCodexPatch
  <2>10. ASSUME Buildable
         PROVE  /\ \A i \in Start + 1 .. Place - 1 : Fits(patch, i)
                /\ HeadersOf(Built) = {h \in Headers(patch) : Start < h /\ h < Place}
                /\ AreMeant(patch, Built)
    <3>1. Fits(patch, header)
      <4>1. patch[header] \notin Markers /\ patch[header] \notin {"eof", "blank", "hunk", "plus", "text"}
        BY <2>1, KindsApart
      <4> QED BY <2>1, <2>6, <2>8, <2>10, <4>1 DEF Fits, Markers
    <3>2. \A i \in Start + 1 .. Place - 1 : Fits(patch, i)
      BY <1>3, <3>1
    <3>3. NewOperation \in Operation /\ parsed \in Seq(Operation)
      BY <1>1, <1>5, <2>10, SectionType DEF TypeOK
    <3>4. Built = parsed \o <<NewOperation>>
      <4>1. Built = Append(parsed, NewOperation)
        BY <1>5 DEF Built, NewOperation
      <4> QED BY <3>3, <4>1, AppendIsConcat
    <3>5. IsMeant(patch, NewOperation) /\ NewOperation.header = header
      BY <1>1, <1>5, <2>5, <2>10, NewIsMeant
    <3>6. <<NewOperation>> \in Seq(Operation)
      BY <3>3
    <3>7. HeadersOf(Built) = HeadersOf(parsed) \cup {header}
      BY <3>3, <3>4, <3>5, <3>6, ConcatMeant, OneMeant
    <3>8. AreMeant(patch, Built)
      BY <1>3, <3>3, <3>4, <3>5, <3>6, ConcatMeant, OneMeant
    <3>9. Start < header /\ header < Place
      BY <1>2, <2>2
    <3>10. HeadersOf(Built) = {h \in Headers(patch) : Start < h /\ h < Place}
      BY <1>3, <2>7, <3>7, <3>9
    <3> QED BY <3>2, <3>8, <3>10
  <2> QED BY <1>5, <2>9, <2>10
<1> QED BY <1>4, <1>5

LEMMA GrammarStart == Init => GrammarInv
BY DEF Init, GrammarInv

\* A patch that starts with the marker is no plain diff.
LEMMA Refused ==
  ASSUME GrammarInv, pc \in {"codex", "block"}, Raise, ~IsCodexPatch(patch)
  PROVE  GrammarInv'
<1>1. StartsWithBegin
  BY DEF GrammarInv, ReadInv
<1>2. ~IsPlainDiff /\ pc' = "raised" /\ UNCHANGED <<patch, path>>
  BY <1>1 DEF IsPlainDiff, Raise, payloadVars
<1>3. ~IsPlainDiff'
  BY <1>2 DEF IsPlainDiff, StartsWithBegin, Blank
<1> QED BY <1>2, <1>3 DEF GrammarInv

LEMMA ApplyPatchFollows ==
  ASSUME TypeInv, GrammarInv, ApplyPatch
  PROVE  GrammarInv'
<1>1. /\ patch \in Seq(Kinds) /\ DOMAIN patch = 1 .. Len(patch) /\ Len(patch) \in Nat
      /\ pc = "apply_patch" /\ line = 1 /\ ~inside /\ operations = <<>>
  BY PatchType DEF TypeInv, ApplyPatch, GrammarInv
<1>2. UNCHANGED <<patch, path>>
  BY DEF ApplyPatch, ParsePlainDiff, Raise, payloadVars
<1>3. (StartsWithBegin <=> StartsWithBegin') /\ (IsPlainDiff <=> IsPlainDiff')
  BY <1>2 DEF StartsWithBegin, IsPlainDiff, Blank
<1>4. CASE \A i \in DOMAIN patch : Blank(i)
  <2>1. pc' = "raised"
    BY <1>4 DEF ApplyPatch, Raise
  <2>2. Headers(patch) = {}
    BY <1>4, KindsApart DEF Headers, Blank
  <2>3. ~IsCodexPatch(patch) /\ ~IsPlainDiff
    BY <1>4, <2>2 DEF IsCodexPatch, IsPlainDiff, Blank
  <2> QED BY <1>2, <1>3, <2>1, <2>3 DEF GrammarInv
<1>5. CASE ~(\A i \in DOMAIN patch : Blank(i)) /\ StartsWithBegin
  <2>1. /\ pc' = "codex" /\ line' = 1 /\ ~inside' /\ operations' = <<>>
    BY <1>1, <1>5 DEF ApplyPatch, outerVars
  <2>2. Start' = 1 /\ line' - 1 = 0
    BY <2>1 DEF Start
  <2>3. ~Open(patch', line' - 1)
    BY <2>2 DEF Open
  <2>4. \A i \in 1 .. Start' - 1 : Fits(patch', i)
    BY <2>2
  <2>5. HeadersOf(operations') = {} /\ AreMeant(patch', operations')
    BY <2>1, NoneMeant
  <2>6. {h \in Headers(patch') : h < Start'} = {}
    <3> SUFFICES ASSUME NEW h \in Headers(patch'), h < Start' PROVE FALSE
      OBVIOUS
    <3>1. h \in 1 .. Len(patch)
      BY <1>1, <1>2 DEF Headers
    <3> QED BY <1>1, <2>2, <3>1
  <2>7. ReadInv'
    BY <1>3, <1>5, <2>1, <2>3, <2>4, <2>5, <2>6 DEF ReadInv
  <2> QED BY <2>1, <2>7 DEF GrammarInv
<1>6. CASE ~(\A i \in DOMAIN patch : Blank(i)) /\ ~StartsWithBegin
  <2>1. ParsePlainDiff
    BY <1>6 DEF ApplyPatch
  <2>2. CASE path /\ \E i \in DOMAIN patch : patch[i] = "hunk"
    <3>1. IsPlainDiff /\ pc' = "done"
      BY <1>6, <2>1, <2>2 DEF IsPlainDiff, ParsePlainDiff
    <3>2. operations' = <<[op_type |-> "update", header |-> None,
                           body |-> [i \in DOMAIN patch' |-> [line |-> i, bare |-> FALSE]]]>>
      BY <1>2, <2>1, <2>2 DEF ParsePlainDiff
    <3>3. Meaning'
      BY <1>3, <1>6, <3>2 DEF Meaning
    <3> QED BY <1>3, <1>6, <3>1, <3>3 DEF GrammarInv
  <2>3. CASE ~(path /\ \E i \in DOMAIN patch : patch[i] = "hunk")
    <3>1. ~IsPlainDiff /\ pc' = "raised"
      BY <2>1, <2>3 DEF IsPlainDiff, ParsePlainDiff, Raise
    <3>2. ~IsCodexPatch(patch)
      BY <1>1, <1>6, CodexStartsWithBegin DEF StartsWithBegin, Blank
    <3> QED BY <1>2, <1>3, <3>1, <3>2 DEF GrammarInv
  <2> QED BY <2>2, <2>3
<1> QED BY <1>4, <1>5, <1>6

LEMMA BeginMarkerFollows ==
  ASSUME TypeInv, GrammarInv, BeginMarker
  PROVE  GrammarInv'
<1>1. /\ DOMAIN patch = 1 .. Len(patch) /\ Len(patch) \in Nat /\ line \in Nat \ {0}
      /\ pc = "codex" /\ line \in DOMAIN patch /\ patch[line] \in Begins /\ ReadInv
  BY PatchType DEF TypeInv, TypeOK, BeginMarker, AtLine, GrammarInv
<1>2. CASE inside
  <2>1. ~Fits(patch, line)
    BY <1>1, <1>2 DEF ReadInv, Fits
  <2>2. ~IsCodexPatch(patch) /\ Raise
    BY <1>1, <1>2, <2>1 DEF IsCodexPatch, BeginMarker
  <2> QED BY <1>1, <2>2, Refused
<1>3. CASE ~inside
  <2>1. /\ patch' = patch /\ path' = path /\ pc' = "codex" /\ inside' = TRUE /\ block' = <<>>
        /\ line' = line + 1 /\ operations' = operations
    BY <1>1, <1>3 DEF BeginMarker, payloadVars
  <2>2. Start = line /\ ~Open(patch, line - 1)
    BY <1>1, <1>3 DEF Start, ReadInv
  <2>3. Len(block') = 0
    BY <2>1, EmptySeq
  <2>4. Start' = line /\ line' - 1 = line
    BY <1>1, <2>1, <2>3 DEF Start
  <2>5. Open(patch, line)
    BY <1>1, OpenStep
  <2>6. StartsWithBegin'
    BY <1>1, <2>1 DEF ReadInv, StartsWithBegin, Blank
  <2>7. Start' \in 1 .. line' - 1
    BY <1>1, <2>4
  <2>8. \A k \in 1 .. Len(block') : FALSE
    BY <2>3
  <2>9. ReadInv'
    BY <1>1, <2>1, <2>2, <2>4, <2>5, <2>6, <2>7, <2>8 DEF ReadInv
  <2> QED BY <2>1, <2>9 DEF GrammarInv
<1> QED BY <1>2, <1>3

LEMMA EndMarkerFollows ==
  ASSUME TypeInv, GrammarInv, EndMarker
  PROVE  GrammarInv'
<1>1. /\ DOMAIN patch = 1 .. Len(patch) /\ Len(patch) \in Nat /\ line \in Nat \ {0}
      /\ pc = "codex" /\ line \in DOMAIN patch /\ patch[line] \in Ends /\ ReadInv
      /\ Len(block) \in Nat
  BY PatchType, BlockType DEF TypeInv, TypeOK, EndMarker, AtLine, GrammarInv
<1>2. CASE ~inside
  <2>1. ~Fits(patch, line)
    BY <1>1, <1>2 DEF ReadInv, Fits
  <2>2. ~IsCodexPatch(patch) /\ Raise
    BY <1>1, <1>2, <2>1 DEF IsCodexPatch, EndMarker
  <2> QED BY <1>1, <2>2, Refused
<1>3. CASE inside
  <2>1. /\ patch' = patch /\ path' = path /\ pc' = "block" /\ inside' = inside /\ block' = block
        /\ line' = line /\ operations' = operations
        /\ at' = 1 /\ header' = None /\ buffer' = <<>> /\ parsed' = <<>>
    BY <1>3 DEF EndMarker, payloadVars, outerVars
  <2>2. Start' = Start
    BY <2>1 DEF Start
  <2>3. Start \in Nat
    BY <1>1, <1>3 DEF ReadInv
  <2>4. Place' = Start + 1
    BY <2>1, <2>2 DEF Place
  <2>5. ReadInv'
    BY <1>1, <2>1, <2>2 DEF ReadInv, StartsWithBegin, Blank
  <2>6. HeadersOf(parsed') = {} /\ AreMeant(patch', parsed')
    BY <2>1, NoneMeant
  <2>7. {h \in Headers(patch') : Start' < h /\ h < Place' /\ h # header'} = {}
    <3> SUFFICES ASSUME NEW h \in Headers(patch'), Start' < h, h < Place' PROVE FALSE
      OBVIOUS
    <3>1. h \in Nat
      BY <1>1, <2>1 DEF Headers
    <3> QED BY <2>2, <2>3, <2>4, <3>1
  <2>8. \A i \in Start' + 1 .. Place' - 1 : FALSE
    BY <2>2, <2>3, <2>4
  <2>9. inside' /\ line' <= Len(patch') /\ patch'[line'] \in Ends
    BY <1>1, <1>3, <2>1
  <2>10. BlockReadInv'
    BY <2>1, <2>6, <2>7, <2>8, <2>9 DEF BlockReadInv
  <2> QED BY <2>1, <2>5, <2>10 DEF GrammarInv
<1> QED BY <1>2, <1>3

LEMMA EndOfPatchFollows ==
  ASSUME TypeInv, GrammarInv, EndOfPatch
  PROVE  GrammarInv'
<1>1. /\ DOMAIN patch = 1 .. Len(patch) /\ Len(patch) \in Nat /\ line = Len(patch) + 1
      /\ line - 1 = Len(patch) /\ pc = "codex" /\ ReadInv /\ operations \in Seq(Operation)
  BY PatchType DEF TypeInv, TypeOK, EndOfPatch, GrammarInv
<1>2. CASE inside
  <2>1. Open(patch, Len(patch))
    BY <1>1, <1>2 DEF ReadInv
  <2>2. ~IsCodexPatch(patch) /\ Raise
    BY <1>2, <2>1 DEF IsCodexPatch, EndOfPatch
  <2> QED BY <1>1, <2>2, Refused
<1>3. CASE ~inside
  <2>1. /\ Start = line /\ ~Open(patch, Len(patch))
    BY <1>1, <1>3 DEF ReadInv, Start
  <2>2. {h \in Headers(patch) : h < Start} = Headers(patch)
    <3> SUFFICES ASSUME NEW h \in Headers(patch) PROVE h < Start
      OBVIOUS
    <3>1. h \in 1 .. Len(patch)
      BY <1>1 DEF Headers
    <3> QED BY <1>1, <2>1, <3>1
  <2>3. HeadersOf(operations) = Headers(patch) /\ AreMeant(patch, operations)
    BY <1>1, <2>2 DEF ReadInv
  <2>4. CASE operations = <<>>
    <3>1. Headers(patch) = {}
      BY <2>3, <2>4, NoneMeant
    <3>2. ~IsCodexPatch(patch) /\ Raise
      BY <2>4, <3>1 DEF IsCodexPatch, EndOfPatch
    <3> QED BY <1>1, <3>2, Refused
  <2>5. CASE operations # <<>>
    <3>1. 1 \in DOMAIN operations
      <4>1. Len(operations) \in Nat \ {0} /\ DOMAIN operations = 1 .. Len(operations)
        BY <1>1, <2>5, EmptySeq, LenProperties
      <4> QED BY <4>1
    <3>2. Headers(patch) # {}
      BY <2>3, <3>1 DEF HeadersOf
    <3>3. \A i \in DOMAIN patch : Fits(patch, i)
      <4>1. \A i \in DOMAIN patch : i \in 1 .. Start - 1
        BY <1>1, <2>1
      <4> QED BY <1>1, <4>1 DEF ReadInv
    <3>4. IsCodexPatch(patch)
      BY <2>1, <3>2, <3>3 DEF IsCodexPatch
    <3>5. pc' = "done" /\ UNCHANGED <<patch, operations>>
      BY <1>3, <2>5 DEF EndOfPatch, payloadVars, outerVars
    <3>6. StartsWithBegin'
      BY <1>1, <3>5 DEF ReadInv, StartsWithBegin, Blank
    <3> QED BY <2>3, <3>4, <3>5, <3>6 DEF GrammarInv
  <2> QED BY <2>4, <2>5
<1> QED BY <1>2, <1>3

LEMMA OtherLineFollows ==
  ASSUME TypeInv, GrammarInv, OtherLine
  PROVE  GrammarInv'
<1>1. /\ DOMAIN patch = 1 .. Len(patch) /\ Len(patch) \in Nat /\ line \in Nat \ {0}
      /\ pc = "codex" /\ line \in DOMAIN patch /\ ReadInv
      /\ patch[line] \in Kinds /\ Len(block) \in Nat /\ block \in Seq(DOMAIN patch)
  BY PatchType, BlockType DEF TypeInv, TypeOK, OtherLine, AtLine, GrammarInv
<1>2. patch[line] \notin Markers
  BY DEF OtherLine, AtLine, Markers
<1>3. Open(patch, line) <=> Open(patch, line - 1)
  BY <1>1, <1>2, OpenStep
<1>4. CASE ~inside /\ ~Blank(line)
  <2>1. ~Open(patch, line)
    BY <1>1, <1>3, <1>4 DEF ReadInv
  <2>2. ~Fits(patch, line)
    <3> SUFFICES ASSUME Fits(patch, line) PROVE FALSE
      OBVIOUS
    <3>1. patch[line] \in {"hunk", "plus", "text"}
      BY <1>1, <1>2, <1>4, <2>1, KindsApart DEF Fits, Blank, Markers
    <3>2. PICK h \in Headers(patch) : InSection(patch, h, line)
      BY <3>1 DEF Fits
    <3>3. h \in Nat /\ h <= line /\ Open(patch, h) /\ \A k \in h + 1 .. line : patch[k] \notin Markers
      BY <1>1, <3>2 DEF Headers, InSection
    <3>4. Open(patch, line)
      BY <1>1, <3>3, OpenRun
    <3> QED BY <2>1, <3>4
  <2>3. ~IsCodexPatch(patch) /\ Raise
    BY <1>1, <1>4, <2>2 DEF IsCodexPatch, OtherLine
  <2> QED BY <1>1, <2>3, Refused
<1>5. CASE inside \/ Blank(line)
  <2>1. /\ patch' = patch /\ path' = path /\ pc' = "codex" /\ inside' = inside
        /\ block' = (IF inside THEN Append(block, line) ELSE block)
        /\ line' = line + 1 /\ operations' = operations
    BY <1>1, <1>5 DEF OtherLine, payloadVars
  <2>2. StartsWithBegin'
    BY <1>1, <2>1 DEF ReadInv, StartsWithBegin, Blank
  <2>3. inside' <=> Open(patch', line' - 1)
    <3>1. line' - 1 = line
      BY <1>1, <2>1
    <3> QED BY <1>1, <1>3, <2>1, <3>1 DEF ReadInv
  <2>4. CASE inside
    <3>1. /\ Len(block') = Len(block) + 1 /\ \A k \in 1 .. Len(block) : block'[k] = block[k]
          /\ block'[Len(block) + 1] = line
      BY <1>1, <2>1, <2>4, AppendProperties
    <3>2. Start = line - 1 - Len(block) /\ Start \in 1 .. line - 1
          /\ patch[Start] \in Begins /\ ~Open(patch, Start - 1)
          /\ \A k \in 1 .. Len(block) : block[k] = Start + k /\ patch[Start + k] \notin Markers
      BY <1>1, <2>4 DEF Start, ReadInv
    <3>3. Start' = line' - 1 - Len(block')
      BY <2>1, <2>4 DEF Start
    <3>4. Start' = Start /\ Start + (Len(block) + 1) = line /\ Start' \in 1 .. line' - 1
      BY <1>1, <2>1, <3>1, <3>2, <3>3
    <3>5. ASSUME NEW k \in 1 .. Len(block')
          PROVE  block'[k] = Start' + k /\ patch'[Start' + k] \notin Markers
      <4>1. k \in 1 .. Len(block) \/ k = Len(block) + 1
        BY <1>1, <3>1
      <4>2. CASE k \in 1 .. Len(block)
        BY <2>1, <3>1, <3>2, <3>4, <4>2
      <4>3. CASE k = Len(block) + 1
        BY <1>2, <2>1, <3>1, <3>4, <4>3
      <4> QED BY <4>1, <4>2, <4>3
    <3>6. ReadInv'
      BY <1>1, <2>1, <2>2, <2>3, <2>4, <3>2, <3>4, <3>5 DEF ReadInv
    <3> QED BY <2>1, <3>6 DEF GrammarInv
  <2>5. CASE ~inside
    <3>1. Start = line /\ Start' = line + 1
      BY <2>1, <2>5 DEF Start
    <3>2. patch[line] = "blank"
      BY <1>5, <2>5 DEF Blank
    <3>3. Fits(patch, line)
      <4>1. patch[line] \notin Directives
        BY <3>2, KindsApart
      <4> QED BY <1>2, <3>2, <4>1 DEF Fits, Markers
    <3>4. \A i \in 1 .. Start' - 1 : Fits(patch', i)
      <4>1. \A i \in 1 .. Start' - 1 : i \in 1 .. Start - 1 \/ i = line
        BY <1>1, <3>1
      <4> QED BY <1>1, <2>1, <3>3, <4>1 DEF ReadInv
    <3>5. line \notin Headers(patch)
      BY <3>2, KindsApart DEF Headers
    <3>6. {h \in Headers(patch) : h < Start} = {h \in Headers(patch) : h < line + 1}
      <4> SUFFICES ASSUME NEW h \in Headers(patch) PROVE h < line <=> h < line + 1
        BY <3>1
      <4>1. h \in Nat /\ h # line
        BY <1>1, <3>5 DEF Headers
      <4> QED BY <1>1, <4>1
    <3>7. ReadInv'
      BY <1>1, <2>1, <2>2, <2>3, <2>5, <3>1, <3>4, <3>6 DEF ReadInv
    <3> QED BY <2>1, <3>7 DEF GrammarInv
  <2> QED BY <2>4, <2>5
<1> QED BY <1>4, <1>5

\* In the block what the first pass knows stays, and the place moves by a line.
LEMMA BlockLine ==
  ASSUME TypeInv, ReadInv, pc = "block", BlockReadInv, UNCHANGED <<payloadVars, pc, outerVars>>,
         at' = at + 1, at <= Len(block)
  PROVE  /\ ReadInv' /\ patch' = patch /\ pc' = "block"
         /\ Start' = Start /\ Place' = Place + 1
         /\ inside' /\ line' <= Len(patch') /\ patch'[line'] \in Ends
         /\ Start \in Nat \ {0} /\ Place \in Start + 1 .. line - 1 /\ Place \in Nat
         /\ Place' - 1 = Place /\ block[at] = Place /\ Place \in DOMAIN patch
         /\ patch[Place] \notin Markers /\ Open(patch, Place)
         /\ \A i : i \in Start + 1 .. Place <=> i \in Start + 1 .. Place - 1 \/ i = Place
<1>1. /\ Start \in Nat \ {0} /\ Place \in Start + 1 .. line /\ Place \in Nat
      /\ Place < line /\ block[at] = Place /\ line \in Nat
      /\ \A i \in Start + 1 .. line - 1 :
           i \in DOMAIN patch /\ patch[i] \notin Markers /\ Open(patch, i)
  BY BlockPlace
<1>2. Place \in Start + 1 .. line - 1
  BY <1>1
<1>3. UNCHANGED <<patch, path, line, inside, block, operations>> /\ pc' = "block"
  BY DEF payloadVars, outerVars
<1>4. Start' = Start
  BY <1>3 DEF Start
<1>5. at \in Nat
  BY BlockType DEF TypeInv, TypeOK
<1>6. Place' = Place + 1 /\ Place' - 1 = Place
  <2>1. Place' = Start + (at + 1)
    BY <1>4 DEF Place
  <2>2. Place = Start + at
    BY DEF Place
  <2> QED BY <1>1, <1>5, <2>1, <2>2
<1>7. ReadInv'
  BY <1>3, <1>4 DEF ReadInv, StartsWithBegin, Blank
<1>8. inside' /\ line' <= Len(patch') /\ patch'[line'] \in Ends
  BY <1>3 DEF BlockReadInv
<1>9. \A i : i \in Start + 1 .. Place <=> i \in Start + 1 .. Place - 1 \/ i = Place
  BY <1>1
<1> QED BY <1>1, <1>2, <1>3, <1>4, <1>6, <1>7, <1>8, <1>9

LEMMA EndOfFileFollows ==
  ASSUME TypeInv, GrammarInv, EndOfFileLine
  PROVE  GrammarInv'
<1>1. /\ pc = "block" /\ ReadInv /\ BlockReadInv /\ UNCHANGED <<payloadVars, pc, outerVars>>
      /\ at' = at + 1 /\ at <= Len(block) /\ UNCHANGED <<header, buffer, parsed>>
      /\ patch[block[at]] = "eof"
  BY DEF EndOfFileLine, AtBlockLine, GrammarInv
<1>2. /\ ReadInv' /\ patch' = patch /\ pc' = "block" /\ Start' = Start /\ Place' = Place + 1
      /\ inside' /\ line' <= Len(patch') /\ patch'[line'] \in Ends
      /\ Start \in Nat \ {0} /\ Place \in Nat /\ Place' - 1 = Place
      /\ patch[Place] = "eof" /\ Open(patch, Place) /\ Place \in Start + 1 .. line - 1
      /\ \A i : i \in Start + 1 .. Place <=> i \in Start + 1 .. Place - 1 \/ i = Place
  BY <1>1, BlockLine
<1>3. patch[Place] \notin Directives \cup Markers
  BY <1>2, KindsApart
<1>4. Fits(patch, Place)
  BY <1>2, <1>3 DEF Fits, Markers
<1>5. \A i \in Start' + 1 .. Place' - 1 : i # header' => Fits(patch', i)
  BY <1>1, <1>2, <1>4 DEF BlockReadInv
<1>6. {h \in Headers(patch) : Start < h /\ h < Place /\ h # header}
        = {h \in Headers(patch) : Start < h /\ h < Place + 1 /\ h # header}
  <2> SUFFICES ASSUME NEW h \in Headers(patch) PROVE h < Place <=> h < Place + 1
    OBVIOUS
  <2>1. h \in Nat /\ h # Place
    BY <1>3, PatchType DEF Headers, TypeInv
  <2> QED BY <1>2, <2>1
<1>7. ASSUME header = None, NEW i \in Start + 1 .. Place PROVE patch[i] \notin Directives
  <2>1. \A k \in Start + 1 .. Place - 1 : patch[k] \notin Directives
    BY <1>1, <1>7 DEF BlockReadInv
  <2>2. i \in Start + 1 .. Place - 1 \/ i = Place
    BY <1>2
  <2> QED BY <1>3, <2>1, <2>2
<1>8. ASSUME header # None
      PROVE  /\ header \in Start + 1 .. Place /\ patch[header] \in Directives
             /\ \A i \in header + 1 .. Place : patch[i] \notin Directives
             /\ {buffer[k] : k \in DOMAIN buffer} = {i \in header + 1 .. Place : patch[i] # "eof"}
  <2>1. /\ header \in Start + 1 .. Place - 1 /\ patch[header] \in Directives
        /\ \A i \in header + 1 .. Place - 1 : patch[i] \notin Directives
        /\ {buffer[k] : k \in DOMAIN buffer} = {i \in header + 1 .. Place - 1 : patch[i] # "eof"}
    BY <1>1, <1>8 DEF BlockReadInv
  <2>2. \A i : i \in header + 1 .. Place <=> i \in header + 1 .. Place - 1 \/ i = Place
    BY <1>2, <2>1
  <2> QED BY <1>2, <1>3, <2>1, <2>2
<1>9. BlockReadInv'
  <2>1. header' = header /\ buffer' = buffer /\ parsed' = parsed
    BY <1>1
  <2>2. HeadersOf(parsed) = {h \in Headers(patch) : Start < h /\ h < Place + 1 /\ h # header}
        /\ AreMeant(patch, parsed)
    BY <1>1, <1>6 DEF BlockReadInv
  <2>3. header = None => \A i \in Start + 1 .. Place : patch[i] \notin Directives
    BY <1>7
  <2> QED BY <1>2, <1>5, <1>8, <2>1, <2>2, <2>3 DEF BlockReadInv
<1> QED BY <1>2, <1>9 DEF GrammarInv

LEMMA SectionLineFollows ==
  ASSUME TypeInv, GrammarInv, SectionLine
  PROVE  GrammarInv'
<1>1. /\ pc = "block" /\ ReadInv /\ BlockReadInv /\ at <= Len(block)
      /\ patch[block[at]] \in {"blank", "hunk", "plus", "text"}
  BY DEF SectionLine, AtBlockLine, GrammarInv
<1>2. /\ Start \in Nat \ {0} /\ line \in Nat /\ Place \in Start + 1 .. line /\ Place < line
      /\ block[at] = Place /\ Place \in Nat /\ patch[Start] \in Begins
      /\ \A i \in Start + 1 .. line - 1 :
           i \in DOMAIN patch /\ patch[i] \notin Markers /\ Open(patch, i)
  BY <1>1, BlockPlace
<1>3. /\ Place \in DOMAIN patch /\ patch[Place] \notin Directives \cup Markers /\ patch[Place] # "eof"
      /\ DOMAIN patch = 1 .. Len(patch) /\ Len(patch) \in Nat
  BY <1>1, <1>2, KindsApart, PatchType DEF TypeInv
<1>4. CASE header = None /\ ~Blank(block[at])
  <2>1. patch[Place] \in {"hunk", "plus", "text"}
    BY <1>1, <1>2, <1>4 DEF Blank
  <2>2. ASSUME NEW h \in Headers(patch), InSection(patch, h, Place) PROVE FALSE
    <3>1. /\ h \in Nat /\ h < Place /\ patch[h] \in Directives
          /\ \A k \in h + 1 .. Place : patch[k] \notin Markers
      BY <1>3, <2>2 DEF InSection, Headers
    <3>2. Start \notin h + 1 .. Place /\ h # Start
      BY <1>2, <3>1, KindsApart DEF Markers
    <3>3. h \in Start + 1 .. Place - 1
      BY <1>2, <3>1, <3>2
    <3> QED BY <1>1, <1>4, <3>1, <3>3 DEF BlockReadInv
  <2>3. ~Fits(patch, Place)
    BY <2>1, <2>2 DEF Fits
  <2>4. ~IsCodexPatch(patch) /\ Raise
    BY <1>3, <1>4, <2>3 DEF IsCodexPatch, SectionLine
  <2> QED BY <1>1, <2>4, Refused
<1>5. CASE header # None \/ Blank(block[at])
  <2>1. /\ UNCHANGED <<payloadVars, pc, outerVars, header, parsed>> /\ at' = at + 1
        /\ buffer' = IF header = None THEN buffer ELSE Append(buffer, block[at])
    BY <1>5 DEF SectionLine
  <2>2. /\ ReadInv' /\ patch' = patch /\ pc' = "block" /\ Start' = Start /\ Place' = Place + 1
        /\ inside' /\ line' <= Len(patch') /\ patch'[line'] \in Ends /\ Place' - 1 = Place
        /\ \A i : i \in Start + 1 .. Place <=> i \in Start + 1 .. Place - 1 \/ i = Place
    <3>1. UNCHANGED <<payloadVars, pc, outerVars>>
      BY <2>1
    <3> QED BY <1>1, <2>1, <3>1, BlockLine
  <2>3. /\ \A i \in Start + 1 .. Place - 1 : i # header => Fits(patch, i)
        /\ HeadersOf(parsed) = {h \in Headers(patch) : Start < h /\ h < Place /\ h # header}
        /\ AreMeant(patch, parsed)
    BY <1>1 DEF BlockReadInv
  <2>4. {h \in Headers(patch) : Start < h /\ h < Place /\ h # header}
          = {h \in Headers(patch) : Start < h /\ h < Place + 1 /\ h # header}
    <3> SUFFICES ASSUME NEW h \in Headers(patch) PROVE h < Place <=> h < Place + 1
      OBVIOUS
    <3>1. h \in Nat /\ h # Place
      BY <1>3 DEF Headers
    <3> QED BY <1>2, <3>1
  <2>5. CASE header = None
    <3>1. patch[Place] = "blank"
      BY <1>2, <1>5, <2>5 DEF Blank
    <3>2. Fits(patch, Place)
      BY <1>3, <3>1 DEF Fits, Markers
    <3>3. \A i \in Start + 1 .. Place - 1 : patch[i] \notin Directives
      BY <1>1, <2>5 DEF BlockReadInv
    <3>4. \A i \in Start' + 1 .. Place' - 1 : Fits(patch', i) /\ patch'[i] \notin Directives
      <4> SUFFICES ASSUME NEW i \in Start + 1 .. Place
                   PROVE  Fits(patch, i) /\ patch[i] \notin Directives
        BY <2>2
      <4>1. CASE i = Place
        BY <1>3, <3>2, <4>1
      <4>2. CASE i \in Start + 1 .. Place - 1
        <5>1. i # header
          BY <1>2, <2>5 DEF None
        <5> QED BY <2>3, <3>3, <4>2, <5>1
      <4> QED BY <2>2, <4>1, <4>2
    <3>5. BlockReadInv'
      BY <2>1, <2>2, <2>3, <2>4, <2>5, <3>4 DEF BlockReadInv
    <3> QED BY <2>2, <3>5 DEF GrammarInv
  <2>6. CASE header # None
    <3>1. /\ header \in Start + 1 .. Place - 1 /\ patch[header] \in Directives
          /\ \A i \in header + 1 .. Place - 1 : patch[i] \notin Directives
          /\ {buffer[k] : k \in DOMAIN buffer} = {i \in header + 1 .. Place - 1 : patch[i] # "eof"}
      BY <1>1, <2>6 DEF BlockReadInv
    <3>2. \A i : i \in header + 1 .. Place <=> i \in header + 1 .. Place - 1 \/ i = Place
      BY <1>2, <3>1
    <3>3. header \in Start + 1 .. Place /\ header \in Start + 1 .. line - 1 /\ header < Place
      BY <1>2, <3>1
    <3>4. \A i \in header + 1 .. Place : patch[i] \notin Directives \cup Markers
      <4>1. \A i \in header + 1 .. Place : i \in Start + 1 .. line - 1
        BY <1>2, <3>3
      <4> QED BY <1>2, <1>3, <3>1, <3>2, <4>1
    <3>5. header \in Headers(patch) /\ InSection(patch, header, Place)
      BY <1>2, <1>3, <3>1, <3>3, <3>4 DEF Headers, InSection
    <3>6. Fits(patch, Place)
      BY <1>3, <3>5 DEF Fits, Markers
    <3>7. \A i \in Start' + 1 .. Place' - 1 : i # header' => Fits(patch', i)
      BY <2>1, <2>2, <2>3, <3>6
    <3>8. {buffer'[k] : k \in DOMAIN buffer'} = {i \in header + 1 .. Place : patch[i] # "eof"}
      <4>1. buffer \in Seq(DOMAIN patch) /\ buffer' = Append(buffer, Place)
        BY <1>2, <2>1, <2>6 DEF TypeInv, TypeOK
      <4>2. /\ Len(buffer) \in Nat /\ DOMAIN buffer = 1 .. Len(buffer)
            /\ buffer' \in Seq(DOMAIN patch) /\ Len(buffer') = Len(buffer) + 1
            /\ \A k \in 1 .. Len(buffer) : buffer'[k] = buffer[k]
            /\ buffer'[Len(buffer) + 1] = Place
        BY <1>3, <4>1, AppendProperties, LenProperties
      <4>3. DOMAIN buffer' = 1 .. Len(buffer) + 1
        BY <4>2, LenProperties
      <4>4. {buffer'[k] : k \in DOMAIN buffer'} = {buffer[k] : k \in DOMAIN buffer} \cup {Place}
        <5>1. \A k \in DOMAIN buffer' : k \in DOMAIN buffer \/ k = Len(buffer) + 1
          BY <4>2, <4>3
        <5>2. \A k \in DOMAIN buffer : k \in DOMAIN buffer'
          BY <4>2, <4>3
        <5>3. Len(buffer) + 1 \in DOMAIN buffer'
          BY <4>2, <4>3
        <5> QED BY <4>2, <5>1, <5>2, <5>3
      <4> QED BY <1>3, <3>1, <3>2, <4>4
    <3>9. BlockReadInv'
      <4>1. header' = header
        BY <2>1
      <4>2. \A i \in header + 1 .. Place : patch[i] \notin Directives
        BY <3>4
      <4> QED BY <2>1, <2>2, <2>3, <2>4, <2>6, <3>1, <3>3, <3>7, <3>8, <4>1, <4>2 DEF BlockReadInv
    <3> QED BY <2>2, <3>9 DEF GrammarInv
  <2> QED BY <2>5, <2>6
<1> QED BY <1>4, <1>5

LEMMA DirectiveFollows ==
  ASSUME TypeInv, GrammarInv, Directive
  PROVE  GrammarInv'
<1>1. /\ pc = "block" /\ ReadInv /\ BlockReadInv /\ at <= Len(block)
      /\ patch[block[at]] \in Directives
  BY DEF Directive, AtBlockLine, GrammarInv
<1>2. block[at] = Place
  BY <1>1, BlockPlace
<1>3. patch[Place] \in Directives \cup Markers
  BY <1>1, <1>2
<1>4. CASE header # None /\ ~Buildable
  <2>1. ~IsCodexPatch(patch) /\ Raise
    BY <1>1, <1>3, <1>4, SectionDone DEF Directive
  <2> QED BY <1>1, <2>1, Refused
<1>5. CASE ~(header # None /\ ~Buildable)
  <2>1. /\ UNCHANGED <<payloadVars, pc, outerVars>> /\ at' = at + 1
        /\ parsed' = Built /\ header' = Place /\ buffer' = <<>>
    BY <1>2, <1>5 DEF Directive
  <2>2. /\ ReadInv' /\ patch' = patch /\ pc' = "block" /\ Start' = Start /\ Place' = Place + 1
        /\ inside' /\ line' <= Len(patch') /\ patch'[line'] \in Ends
        /\ Start \in Nat \ {0} /\ Place \in Start + 1 .. line - 1 /\ Place \in Nat
        /\ Place' - 1 = Place
        /\ \A i : i \in Start + 1 .. Place <=> i \in Start + 1 .. Place - 1 \/ i = Place
    BY <1>1, <2>1, BlockLine
  <2>3. /\ \A i \in Start + 1 .. Place - 1 : Fits(patch, i)
        /\ HeadersOf(Built) = {h \in Headers(patch) : Start < h /\ h < Place}
        /\ AreMeant(patch, Built)
    BY <1>1, <1>3, <1>5, SectionDone
  <2>4. {h \in Headers(patch) : Start < h /\ h < Place}
          = {h \in Headers(patch) : Start < h /\ h < Place + 1 /\ h # Place}
    <3> SUFFICES ASSUME NEW h \in Headers(patch) PROVE h < Place <=> h < Place + 1 /\ h # Place
      OBVIOUS
    <3>1. h \in Nat
      BY PatchType DEF Headers, TypeInv
    <3> QED BY <2>2, <3>1
  <2>5. \A i \in Start + 1 .. Place : i # Place => Fits(patch, i)
    BY <2>2, <2>3
  <2>6. /\ Place # None /\ Place \in Start + 1 .. Place /\ patch[Place] \in Directives
        /\ \A i \in Place + 1 .. Place : FALSE
    BY <1>1, <1>2, <2>2 DEF None
  <2>7. {buffer'[k] : k \in DOMAIN buffer'} = {i \in Place + 1 .. Place : patch[i] # "eof"}
    <3>1. DOMAIN <<>> = {}
      OBVIOUS
    <3>2. DOMAIN buffer' = {}
      BY <2>1, <3>1
    <3> QED BY <2>6, <3>2
  <2>8. BlockReadInv'
    <3>1. header' = Place /\ parsed' = Built
      BY <2>1
    <3>2. HeadersOf(Built) = {h \in Headers(patch) : Start < h /\ h < Place + 1 /\ h # Place}
          /\ AreMeant(patch, Built)
      BY <2>3, <2>4
    <3>3. \A i \in Place + 1 .. Place : patch[i] \notin Directives
      BY <2>6
    <3> QED BY <2>2, <2>5, <2>6, <2>7, <3>1, <3>2, <3>3 DEF BlockReadInv
  <2> QED BY <2>2, <2>8 DEF GrammarInv
<1> QED BY <1>4, <1>5

LEMMA EndOfBlockFollows ==
  ASSUME TypeInv, GrammarInv, EndOfBlock
  PROVE  GrammarInv'
<1>1. /\ pc = "block" /\ ReadInv /\ BlockReadInv /\ at = Len(block) + 1
  BY DEF EndOfBlock, GrammarInv
<1>2. /\ Place = line /\ line \in Nat /\ Start \in Nat \ {0} /\ Start < line
      /\ patch[Start] \in Begins /\ ~Open(patch, Start - 1) /\ patch[line] \in Ends
      /\ Open(patch, line - 1) /\ line \in DOMAIN patch
  BY <1>1, BlockPlace
<1>3. patch[Place] \in Directives \cup Markers
  BY <1>2 DEF Markers
<1>4. CASE header # None /\ ~Buildable
  <2>1. ~IsCodexPatch(patch) /\ Raise
    BY <1>1, <1>3, <1>4, SectionDone DEF EndOfBlock
  <2> QED BY <1>1, <2>1, Refused
<1>5. CASE ~(header # None /\ ~Buildable)
  <2>1. /\ patch' = patch /\ path' = path /\ pc' = "codex" /\ operations' = operations \o Built
        /\ ~inside' /\ line' = line + 1
    BY <1>5 DEF EndOfBlock, payloadVars
  <2>2. Start' = line + 1 /\ line' - 1 = line
    BY <1>2, <2>1 DEF Start
  <2>3. /\ \A i \in Start + 1 .. line - 1 : Fits(patch, i)
        /\ HeadersOf(Built) = {h \in Headers(patch) : Start < h /\ h < line}
        /\ AreMeant(patch, Built)
    BY <1>1, <1>2, <1>3, <1>5, SectionDone
  <2>4. /\ \A i \in 1 .. Start - 1 : Fits(patch, i)
        /\ HeadersOf(operations) = {h \in Headers(patch) : h < Start}
        /\ AreMeant(patch, operations)
    BY <1>1 DEF ReadInv
  <2>5. ~Open(patch, line)
    BY <1>2, OpenStep
  <2>6. Fits(patch, Start) /\ Fits(patch, line)
    <3>1. \A k \in Begins : k \notin Ends /\ k \notin Directives \cup {"eof", "hunk", "plus", "text"}
      BY DEF Begins, Ends, Directives, Operations
    <3>2. \A k \in Ends : k \notin Begins /\ k \notin Directives \cup {"eof", "hunk", "plus", "text"}
      BY DEF Begins, Ends, Directives, Operations
    <3> QED BY <1>2, <3>1, <3>2 DEF Fits
  <2>7. ASSUME NEW i \in 1 .. line PROVE Fits(patch, i)
    <3>1. i \in 1 .. Start - 1 \/ i = Start \/ i \in Start + 1 .. line - 1 \/ i = line
      BY <1>2
    <3> QED BY <2>3, <2>4, <2>6, <3>1
  <2>8. HeadersOf(operations \o Built) = HeadersOf(operations) \cup HeadersOf(Built)
        /\ AreMeant(patch, operations \o Built)
    <3>1. operations \in Seq(Operation)
      BY DEF TypeInv, TypeOK
    <3>2. Built \in Seq(Operation)
      BY <1>5, BuiltType DEF TypeInv
    <3> QED BY <2>3, <2>4, <3>1, <3>2, ConcatMeant
  <2>9. {h \in Headers(patch) : h < Start} \cup {h \in Headers(patch) : Start < h /\ h < line}
          = {h \in Headers(patch) : h < line + 1}
    <3> SUFFICES ASSUME NEW h \in Headers(patch)
                 PROVE  h < Start \/ (Start < h /\ h < line) <=> h < line + 1
      OBVIOUS
    <3>1. h \in Nat /\ h # Start /\ h # line
      BY <1>2, PatchType, KindsApart DEF Headers, TypeInv, Markers
    <3> QED BY <1>2, <3>1
  <2>10. HeadersOf(operations') = {h \in Headers(patch) : h < line + 1}
         /\ AreMeant(patch, operations')
    BY <2>1, <2>3, <2>4, <2>8, <2>9
  <2>11. \A i \in 1 .. Start' - 1 : Fits(patch, i)
    <3>1. Start' - 1 = line
      BY <1>2, <2>2
    <3> QED BY <2>7, <3>1
  <2>12. StartsWithBegin'
    BY <1>1, <2>1 DEF ReadInv, StartsWithBegin, Blank
  <2>13. ReadInv'
    BY <2>1, <2>2, <2>5, <2>10, <2>11, <2>12 DEF ReadInv
  <2> QED BY <2>1, <2>13 DEF GrammarInv
<1> QED BY <1>4, <1>5

LEMMA GrammarKeep == TypeInv /\ GrammarInv /\ [Next]_vars => GrammarInv'
<1> SUFFICES ASSUME TypeInv, GrammarInv, [Next]_vars PROVE GrammarInv'
  OBVIOUS
<1>1. CASE Parsed \/ UNCHANGED vars
  <2>1. UNCHANGED <<patch, path, pc, line, inside, block, operations, at, header, buffer, parsed>>
    BY <1>1 DEF Parsed, vars, payloadVars, outerVars, innerVars
  <2>2. /\ ReadInv => ReadInv'
        /\ Start' = Start
    BY <2>1 DEF ReadInv, Start, StartsWithBegin, Blank
  <2>3. BlockReadInv => BlockReadInv'
    <3>1. Place' = Place
      BY <2>1, <2>2 DEF Place
    <3> QED BY <2>1, <2>2, <3>1 DEF BlockReadInv
  <2>4. (StartsWithBegin <=> StartsWithBegin') /\ (IsPlainDiff <=> IsPlainDiff')
        /\ (Meaning => Meaning')
    BY <2>1 DEF StartsWithBegin, Blank, IsPlainDiff, Meaning, LinesKeepOrder
  <2> QED BY <2>1, <2>2, <2>3, <2>4 DEF GrammarInv
<1> QED
  BY <1>1, ApplyPatchFollows, BeginMarkerFollows, EndMarkerFollows, OtherLineFollows,
     EndOfPatchFollows, EndOfFileFollows, DirectiveFollows, SectionLineFollows, EndOfBlockFollows
  DEF Next

LEMMA GrammarHolds == Spec => []GrammarInv
<1>1. GrammarInv /\ TypeInv /\ [Next]_vars => GrammarInv'
  BY GrammarKeep
<1> QED BY <1>1, GrammarStart, TypesHold, PTL DEF Spec

\* ParsesAsGrammar: the two passes accept just the payloads of the format, and make of them
\* the operations they mean, each with all the lines of its section (fs_operations.py 51-144).
THEOREM PatchesAreParsed == Spec => []ParsesAsGrammar
<1>1. GrammarInv /\ LinesKeepOrder => ParsesAsGrammar
  BY DEF GrammarInv, ParsesAsGrammar, Meaning
<1> QED BY <1>1, GrammarHolds, OperationsKeepOrder, PTL
=============================================================================
