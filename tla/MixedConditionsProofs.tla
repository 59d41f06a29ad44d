----------------------- MODULE MixedConditionsProofs -----------------------
(***************************************************************************)
(* Three facts about mixed conditions, whatever the text of the tag and    *)
(* whatever conditions hold.                                               *)
(*                                                                         *)
(* The run-time evaluation stays inside its stack.  The reason is the      *)
(* sanity check: it walks the same list, and the depth its stack had at    *)
(* each entry (depth, with size at the end) is the depth the run-time      *)
(* stack will have there.                                                  *)
(*                                                                         *)
(* A fully bracketed text is accepted, and its value at run time is its    *)
(* value by the brackets.  The reason is one fact for each of the three    *)
(* programs, by induction over the expressions of the text: an expression  *)
(* leaves the parser's stack as it was (ParsedAs), adds one to the depth   *)
(* of the sanity check (CheckedAs), and pushes its value at run time       *)
(* (EvaluatedAs).                                                          *)
(***************************************************************************)
EXTENDS MixedConditions, FiniteSetTheorems, WellFoundedInduction, TLAPS

ListTokens == {"C", "a", "o"}

\* Every variable keeps its type; stack changes its own with the phase.
TypeOK ==
  /\ text \in Seq(Tokens)
  /\ phase \in {"tag", "parse", "check", "eval", "done", "rejected"}
  /\ idx \in Nat \ {0}
  /\ RPN \in Seq(ListTokens)
  /\ size \in Nat
  /\ depth \in Seq(Nat)
  /\ phase \in {"tag", "parse"} => stack \in Seq({"a", "o"})
  /\ phase \in {"eval", "done"} =>
                       /\ stack \in Seq(BOOLEAN)
                       /\ met \in [{i \in DOMAIN RPN : RPN[i] = "C"} -> BOOLEAN]

\* The depth the sanity check had before entry i, from its history d and its size s.
DepthAt(d, s, i) == IF i <= Len(d) THEN d[i] ELSE s

\* The sanity check's walk so far: it started empty, each entry moved the depth by
\* one, no operator met fewer than two values, and the depth is below the place.
Walk ==
  /\ Len(depth) <= Len(RPN)
  /\ DepthAt(depth, size, 1) = 0
  /\ \A i \in 1 .. Len(depth) + 1 :
       DepthAt(depth, size, i) \in Nat /\ DepthAt(depth, size, i) < i
  /\ \A i \in 1 .. Len(depth) :
       \/ RPN[i] = "C" /\ DepthAt(depth, size, i + 1) = DepthAt(depth, size, i) + 1
       \/ /\ RPN[i] # "C" /\ DepthAt(depth, size, i) >= 2
          /\ DepthAt(depth, size, i + 1) = DepthAt(depth, size, i) - 1

PhaseInv ==
  /\ phase \in {"tag", "parse"} => depth = <<>> /\ size = 0
  /\ phase = "check" => stack = <<>> /\ Len(depth) = idx - 1
  /\ phase = "eval" => /\ Len(depth) = Len(RPN) /\ size = 1
                       /\ idx <= Len(RPN) + 1
                       /\ Len(stack) = DepthAt(depth, size, idx)

IInv == TypeOK /\ Walk /\ PhaseInv

\* What STACK_PUSH and STACK_POP do to a stack of any type.
LEMMA PushPop ==
  ASSUME NEW S, NEW s \in Seq(S), NEW x \in S
  PROVE  /\ Push(s, x) \in Seq(S) /\ Len(Push(s, x)) = Len(s) + 1
         /\ s # <<>> => Head(s) \in S /\ Pop(s) \in Seq(S) /\ Len(Pop(s)) = Len(s) - 1
<1>1. <<x>> \in Seq(S) /\ Len(<<x>>) = 1
  OBVIOUS
<1>2. Push(s, x) \in Seq(S) /\ Len(Push(s, x)) = Len(s) + 1
  BY <1>1 DEF Push
<1>3. ASSUME s # <<>>
      PROVE  Head(s) \in S /\ Pop(s) \in Seq(S) /\ Len(Pop(s)) = Len(s) - 1
  BY <1>3 DEF Pop
<1> QED  BY <1>2, <1>3

\* Bracketing keeps a text a text.
LEMMA BracketedType ==
  ASSUME NEW val \in Seq(Tokens)
  PROVE  Bracketed(val) \in Seq(Tokens)
<1>1. <<"(">> \in Seq(Tokens) /\ <<")">> \in Seq(Tokens)
  BY DEF Tokens
<1> QED  BY <1>1 DEF Bracketed

\* A tag has not been parsed yet.
LEMMA InitIInv == Init => IInv
<1> SUFFICES ASSUME Init PROVE IInv
  OBVIOUS
<1>1. PICK val \in Texts : text = Bracketed(val)
  BY DEF Init
<1>2. text \in Seq(Tokens)
  BY <1>1, TextsAssumption, BracketedType
<1>3. depth = <<>> /\ RPN = <<>> /\ size = 0 /\ stack = <<>> /\ phase = "tag" /\ idx = 1
  BY DEF Init
<1>4. Len(depth) = 0 /\ Len(RPN) = 0
  BY <1>3
<1>5. Walk
  BY <1>3, <1>4 DEF Walk, DepthAt
<1> QED  BY <1>2, <1>3, <1>5 DEF IInv, TypeOK, PhaseInv

\* Rejecting a text leaves everything but the phase.
LEMMA RejectedIInv == IInv /\ Rejected => IInv'
BY DEF IInv, TypeOK, Walk, DepthAt, PhaseInv, Rejected

\* One turn of the parser's loop keeps the list a list and the stack a stack.
LEMMA ScanIInv == IInv /\ Scan => IInv'
<1> SUFFICES ASSUME IInv, Scan PROVE IInv'
  OBVIOUS
<1>1. /\ phase = "parse" /\ phase' = "parse" /\ text[idx] \in Tokens
      /\ stack \in Seq({"a", "o"}) /\ RPN \in Seq(ListTokens)
      /\ depth = <<>> /\ size = 0 /\ UNCHANGED <<text, depth, size>> /\ idx' = idx + 1
  BY DEF IInv, TypeOK, PhaseInv, Scan
<1>2. stack' \in Seq({"a", "o"}) /\ RPN' \in Seq(ListTokens)
  <2>1. CASE text[idx] = "C"
    BY <1>1, <2>1 DEF Scan, ScanToken, ListTokens
  <2>2. CASE text[idx] = "("
    BY <1>1, <2>2 DEF Scan, ScanToken
  <2>3. CASE text[idx] = ")"
    <3>1. stack # <<>>
      BY <2>3 DEF Scan, UnpairedBracket
    <3>2. Head(stack) \in {"a", "o"} /\ Pop(stack) \in Seq({"a", "o"})
      BY <3>1, <1>1 DEF Pop
    <3> QED  BY <1>1, <2>3, <3>2 DEF Scan, ScanToken, ListTokens
  <2>4. CASE text[idx] \in {"a", "o"}
    <3>1. Push(stack, text[idx]) \in Seq({"a", "o"})
      BY <1>1, <2>4, PushPop
    <3> QED  BY <1>1, <2>4, <3>1 DEF Scan, ScanToken
  <2> QED  BY <1>1, <2>1, <2>2, <2>3, <2>4 DEF Tokens
<1>3. Walk'
  BY <1>1, <1>2 DEF Walk, DepthAt
<1> QED  BY <1>1, <1>2, <1>3 DEF IInv, TypeOK, PhaseInv

\* One entry of the sanity check extends the walk.
LEMMA CheckIInv == IInv /\ CheckEntry => IInv'
<1> SUFFICES ASSUME IInv, CheckEntry PROVE IInv'
  OBVIOUS
<1>1. /\ phase = "check" /\ idx \in Nat \ {0} /\ idx <= Len(RPN)
      /\ Len(depth) = idx - 1 /\ depth \in Seq(Nat) /\ size \in Nat /\ RPN \in Seq(ListTokens)
      /\ depth' = Append(depth, size) /\ idx' = idx + 1
      /\ UNCHANGED <<text, phase, stack, RPN, met>>
  BY DEF IInv, TypeOK, PhaseInv, CheckEntry
<1>2. size' \in Nat /\ (\/ RPN[idx] = "C" /\ size' = size + 1
                        \/ RPN[idx] # "C" /\ size >= 2 /\ size' = size - 1)
  BY <1>1 DEF CheckEntry, StackIsEmpty
<1>3. depth' \in Seq(Nat) /\ Len(depth') = idx
  BY <1>1
<1>4. \A i \in 1 .. idx : DepthAt(depth', size', i) = DepthAt(depth, size, i)
  BY <1>1, <1>3 DEF DepthAt
<1>5. DepthAt(depth, size, idx) = size /\ DepthAt(depth', size', idx + 1) = size'
  BY <1>1, <1>3 DEF DepthAt
<1>6. size < idx
  BY <1>1, <1>5 DEF IInv, Walk
<1>7. Walk'
  <2>1. Len(depth') <= Len(RPN') /\ DepthAt(depth', size', 1) = 0
    BY <1>1, <1>3, <1>4 DEF IInv, Walk
  <2>2. ASSUME NEW i \in 1 .. Len(depth') + 1
        PROVE  DepthAt(depth', size', i) \in Nat /\ DepthAt(depth', size', i) < i
    <3>1. CASE i <= idx
      BY <3>1, <1>1, <1>3, <1>4 DEF IInv, Walk
    <3>2. CASE i = idx + 1
      BY <3>2, <1>1, <1>2, <1>5, <1>6
    <3> QED  BY <3>1, <3>2, <1>1, <1>3
  <2>3. ASSUME NEW i \in 1 .. Len(depth')
        PROVE  \/ RPN'[i] = "C" /\ DepthAt(depth', size', i + 1) = DepthAt(depth', size', i) + 1
               \/ /\ RPN'[i] # "C" /\ DepthAt(depth', size', i) >= 2
                  /\ DepthAt(depth', size', i + 1) = DepthAt(depth', size', i) - 1
    <3>1. CASE i < idx
      <4>1. i \in 1 .. Len(depth) /\ i \in 1 .. idx /\ i + 1 \in 1 .. idx
        BY <3>1, <1>1, <1>3
      <4> QED  BY <4>1, <1>1, <1>4 DEF IInv, Walk
    <3>2. CASE i = idx
      BY <3>2, <1>1, <1>2, <1>4, <1>5
    <3> QED  BY <3>1, <3>2, <1>1, <1>3
  <2> QED  BY <2>1, <2>2, <2>3 DEF Walk
<1> QED  BY <1>1, <1>2, <1>3, <1>7 DEF IInv, TypeOK, PhaseInv

\* One entry of the evaluation moves the stack as it moved the check's.
LEMMA EvalIInv == IInv /\ EvalEntry => IInv'
<1> SUFFICES ASSUME IInv, EvalEntry PROVE IInv'
  OBVIOUS
<1>1. /\ phase = "eval" /\ idx \in Nat \ {0} /\ idx <= Len(RPN) /\ RPN \in Seq(ListTokens)
      /\ Len(depth) = Len(RPN) /\ Len(stack) = DepthAt(depth, size, idx) /\ stack \in Seq(BOOLEAN)
      /\ met \in [{i \in DOMAIN RPN : RPN[i] = "C"} -> BOOLEAN] /\ idx' = idx + 1
      /\ UNCHANGED <<text, phase, RPN, size, depth, met>>
  BY DEF IInv, TypeOK, PhaseInv, EvalEntry
<1>2. \/ RPN[idx] = "C" /\ DepthAt(depth, size, idx + 1) = DepthAt(depth, size, idx) + 1
      \/ /\ RPN[idx] # "C" /\ DepthAt(depth, size, idx) >= 2
         /\ DepthAt(depth, size, idx + 1) = DepthAt(depth, size, idx) - 1
  BY <1>1 DEF IInv, Walk
<1>3. stack' \in Seq(BOOLEAN) /\ Len(stack') = DepthAt(depth, size, idx + 1)
  <2>1. CASE RPN[idx] = "C"
    <3>1. met[idx] \in BOOLEAN
      BY <1>1, <2>1
    <3>2. stack' = Push(stack, met[idx])
      BY <2>1 DEF EvalEntry
    <3>3. stack' \in Seq(BOOLEAN) /\ Len(stack') = Len(stack) + 1
      BY <1>1, <3>1, <3>2, PushPop
    <3> QED  BY <1>1, <1>2, <2>1, <3>3
  <2>2. CASE RPN[idx] # "C"
    <3>1. Len(stack) >= 2
      BY <1>1, <1>2, <2>2
    <3>2. stack # <<>> /\ TRUE \in BOOLEAN /\ Len(stack) \in Nat
      BY <3>1, <1>1
    <3>3. Pop(stack) \in Seq(BOOLEAN) /\ Len(Pop(stack)) = Len(stack) - 1
      BY <3>2, <1>1, PushPop
    <3>4. Pop(stack) # <<>>
      BY <3>1, <3>3
    <3>5. Pop(Pop(stack)) \in Seq(BOOLEAN) /\ Len(Pop(Pop(stack))) = Len(stack) - 2
      <4>1. Pop(Pop(stack)) \in Seq(BOOLEAN) /\ Len(Pop(Pop(stack))) = Len(Pop(stack)) - 1
        BY <3>2, <3>3, <3>4, PushPop
      <4> QED  BY <4>1, <3>2, <3>3
    <3>6. stack[1] \in BOOLEAN /\ stack[2] \in BOOLEAN
      BY <3>1, <1>1
    <3>7. Apply(RPN[idx], stack[1], stack[2]) \in BOOLEAN
      BY <3>6 DEF Apply
    <3>8. stack' = Push(Pop(Pop(stack)), Apply(RPN[idx], stack[1], stack[2]))
      BY <2>2 DEF EvalEntry
    <3>9. stack' \in Seq(BOOLEAN) /\ Len(stack') = Len(Pop(Pop(stack))) + 1
      BY <3>5, <3>7, <3>8, PushPop
    <3> QED  BY <1>1, <1>2, <2>2, <3>2, <3>5, <3>9
  <2> QED  BY <2>1, <2>2
<1>4. Walk' /\ DepthAt(depth', size', idx') = DepthAt(depth, size, idx + 1)
  BY <1>1 DEF IInv, Walk, DepthAt
<1> QED  BY <1>1, <1>3, <1>4 DEF IInv, TypeOK, PhaseInv

\* Every step keeps the invariant.
LEMMA NextIInv == IInv /\ [Next]_vars => IInv'
<1> SUFFICES ASSUME IInv, [Next]_vars PROVE IInv'
  OBVIOUS
<1>1. CASE BeginScan
  BY <1>1 DEF BeginScan, IInv, TypeOK, Walk, DepthAt, PhaseInv
<1>2. CASE RejectTag \/ RejectBracket \/ RejectStack \/ RejectEntry \/ RejectList
  BY <1>2, RejectedIInv DEF RejectTag, RejectBracket, RejectStack, RejectEntry, RejectList
<1>3. CASE Scan
  BY <1>3, ScanIInv
<1>4. CASE EndScan
  <2>1. depth = <<>> /\ size = 0 /\ Len(depth) = 0
    BY <1>4 DEF EndScan, IInv, PhaseInv
  <2> QED  BY <1>4, <2>1 DEF EndScan, IInv, TypeOK, Walk, DepthAt, PhaseInv
<1>5. CASE CheckEntry
  BY <1>5, CheckIInv
<1>6. CASE EndCheck
  <2>1. /\ stack = <<>> /\ stack' = <<>> /\ Len(depth) = Len(RPN) /\ size = 1 /\ idx' = 1
        /\ phase' = "eval" /\ UNCHANGED <<text, RPN, size, depth>>
    BY <1>6 DEF EndCheck, IInv, TypeOK, PhaseInv
  <2>2. stack' \in Seq(BOOLEAN) /\ Len(stack') = 0
    BY <2>1
  <2>3. Walk' /\ DepthAt(depth', size', 1) = 0
    BY <2>1 DEF IInv, Walk, DepthAt
  <2>4. met' \in [{i \in DOMAIN RPN' : RPN'[i] = "C"} -> BOOLEAN]
    BY <1>6 DEF EndCheck
  <2>5. TypeOK'
    BY <2>1, <2>2, <2>4 DEF IInv, TypeOK
  <2>6. Len(RPN) \in Nat
    BY DEF IInv, TypeOK
  <2> QED  BY <2>1, <2>2, <2>3, <2>5, <2>6 DEF IInv, PhaseInv
<1>7. CASE EvalEntry
  BY <1>7, EvalIInv
<1>8. CASE EndEval
  BY <1>8 DEF EndEval, IInv, TypeOK, Walk, DepthAt, PhaseInv
<1>9. CASE Stop \/ UNCHANGED vars
  <2>1. UNCHANGED vars
    BY <1>9 DEF Stop
  <2>2. TypeOK'
    BY <2>1 DEF vars, IInv, TypeOK
  <2>3. Walk' /\ PhaseInv'
    BY <2>1 DEF vars, IInv, Walk, DepthAt, PhaseInv
  <2> QED  BY <2>2, <2>3 DEF IInv
<1> QED
  BY <1>1, <1>2, <1>3, <1>4, <1>5, <1>6, <1>7, <1>8, <1>9 DEF Next

\* On every list that the sanity check lets through, the evaluation neither overruns
\* its stack of SAI_METADATA_MAX_CONDITIONS_LEN entries nor pops an empty one, and
\* one value is left at the end.
THEOREM RunTimeStackSafe == Spec => []StackInBounds
<1>1. IInv => StackInBounds
  <2> SUFFICES ASSUME IInv, phase = "eval" PROVE StackInBounds
    BY DEF StackInBounds
  <2>1. /\ idx \in Nat \ {0} /\ Len(RPN) \in Nat /\ Len(depth) = Len(RPN) /\ size = 1
        /\ idx <= Len(RPN) + 1 /\ Len(stack) = DepthAt(depth, size, idx)
    BY DEF IInv, TypeOK, PhaseInv
  <2>2. DepthAt(depth, size, idx) < idx
    BY <2>1 DEF IInv, Walk
  <2>3. idx <= Len(RPN) /\ RPN[idx] # "C" => DepthAt(depth, size, idx) >= 2
    BY <2>1 DEF IInv, Walk
  <2>4. idx = Len(RPN) + 1 => DepthAt(depth, size, idx) = 1
    BY <2>1 DEF DepthAt
  <2>5. idx <= Len(RPN) => DepthAt(depth, size, idx) < Len(RPN)
    <3>1. DepthAt(depth, size, idx) \in Nat
      BY <2>1 DEF IInv, Walk
    <3> QED  BY <2>1, <2>2, <3>1
  <2> QED  BY <2>1, <2>3, <2>4, <2>5 DEF StackInBounds, MaxConditionsLen
<1> QED  BY <1>1, InitIInv, NextIInv, PTL DEF Spec

-----------------------------------------------------------------------------
(* What a text means.                                                        *)

Operators == {"a", "o"}

\* Induction over the numbers, for a set of them.
LEMMA Induction ==
  ASSUME NEW T, 0 \in T, \A n \in Nat : n \in T => n + 1 \in T
  PROVE  Nat \subseteq T
<1> SUFFICES ASSUME NEW m \in Nat, m \notin T PROVE FALSE
  OBVIOUS
<1> DEFINE B == {n \in Nat : n \notin T}
<1>1. IsWellFoundedOn(OpToRel(<, Nat), Nat)
  BY NatLessThanWellFounded
<1>2. PICK x \in B : \A y \in B : ~ (<<y, x>> \in OpToRel(<, Nat))
  BY <1>1, WFMin, Zenon
<1>3. \A y \in Nat : y < x => <<y, x>> \in OpToRel(<, Nat)
  BY <1>2 DEF OpToRel
<1>4. x \in Nat /\ x \notin T
  BY <1>2
<1>5. x - 1 \in Nat /\ x - 1 < x /\ x = (x - 1) + 1
  BY <1>4
<1>6. x - 1 \in T
  BY <1>2, <1>3, <1>5
<1> QED
  BY <1>4, <1>5, <1>6

\* Expressions(s, v) is the function its definition describes.
LEMMA ExpressionsRecursive ==
  ASSUME NEW s, Len(s) \in Nat, NEW v
  PROVE  /\ Expressions(s, v)[0] = {[first |-> i, last |-> i, value |-> v[i]] : i \in Conditions(s)}
         /\ \A n \in 1 .. Len(s) : Expressions(s, v)[n] = Wider(s, Expressions(s, v)[n - 1])
<1> DEFINE Alone == {[first |-> i, last |-> i, value |-> v[i]] : i \in Conditions(s)}
           Step(g, n) == IF n = 0 THEN Alone ELSE Wider(s, g[n - 1])
           T == {m \in Nat : \E g : g = [n \in 0 .. m |-> Step(g, n)]}
<1> HIDE DEF Alone
<1>1. 0 \in T
  <2>1. [n \in 0 .. 0 |-> Alone] = [n \in 0 .. 0 |-> Step([k \in 0 .. 0 |-> Alone], n)]
    OBVIOUS
  <2> QED
    BY <2>1
<1>2. ASSUME NEW m \in Nat, m \in T
      PROVE  m + 1 \in T
  <2>1. PICK g : g = [n \in 0 .. m |-> Step(g, n)]
    BY <1>2
  <2> DEFINE h == [n \in 0 .. m + 1 |-> IF n <= m THEN g[n] ELSE Step(g, n)]
  <2>2. ASSUME NEW n \in 0 .. m + 1
        PROVE  h[n] = Step(h, n)
    <3>1. n # 0 => n - 1 \in 0 .. m /\ h[n - 1] = g[n - 1]
      OBVIOUS
    <3>2. CASE n <= m
      <4>1. n \in 0 .. m /\ h[n] = g[n]
        BY <3>2
      <4> HIDE DEF h
      <4>2. g[n] = Step(g, n)
        BY <2>1, <4>1
      <4> QED
        BY <3>1, <4>1, <4>2
    <3>3. CASE ~ (n <= m)
      <4>1. h[n] = Step(g, n)
        BY <3>3
      <4> QED
        BY <3>1, <4>1
    <3> QED
      BY <3>2, <3>3
  <2> HIDE DEF Step
  <2>3. h = [n \in 0 .. m + 1 |-> Step(h, n)]
    BY <2>2
  <2>4. \E f : f = [n \in 0 .. m + 1 |-> Step(f, n)]
    BY <2>3
  <2> QED
    BY <2>4
<1>3. Nat \subseteq T
  BY <1>1, <1>2, Induction
<1>4. \E g : g = [n \in 0 .. Len(s) |-> Step(g, n)]
  BY <1>3
<1> DEFINE f == Expressions(s, v)
<1>5. f = [n \in 0 .. Len(s) |-> Step(f, n)]
  BY <1>4, Zenon DEF Expressions, Alone
<1> HIDE DEF f, Step
<1>6. \A n \in 0 .. Len(s) : f[n] = Step(f, n)
  BY <1>5
<1>7. f[0] = Step(f, 0) /\ \A n \in 1 .. Len(s) : f[n] = Step(f, n)
  BY <1>6
<1>8. f[0] = Alone /\ \A n \in 1 .. Len(s) : f[n] = Wider(s, f[n - 1])
  BY <1>7 DEF Step
<1> QED
  BY <1>8 DEF f, Alone

\* What holds of every condition, and of two expressions in brackets if it holds of
\* both, holds of every expression.
LEMMA ExpressionInduction ==
  ASSUME NEW s, Len(s) \in Nat, NEW v, NEW P,
         \A i \in Conditions(s) : [first |-> i, last |-> i, value |-> v[i]] \in P,
         \A l, r \in P : Joinable(s, l, r) => Joined(s, l, r) \in P
  PROVE  Expressions(s, v)[Len(s)] \subseteq P
<1> DEFINE E == Expressions(s, v)
           T == {n \in Nat : n <= Len(s) => E[n] \subseteq P}
<1>1. /\ E[0] = {[first |-> i, last |-> i, value |-> v[i]] : i \in Conditions(s)}
      /\ \A n \in 1 .. Len(s) : E[n] = Wider(s, E[n - 1])
  BY ExpressionsRecursive
<1> HIDE DEF E
<1>2. 0 \in T
  BY <1>1
<1>3. ASSUME NEW n \in Nat, n \in T
      PROVE  n + 1 \in T
  <2> SUFFICES ASSUME n + 1 <= Len(s) PROVE E[n + 1] \subseteq P
    OBVIOUS
  <2>1. E[n] \subseteq P
    BY <1>3
  <2>2. E[n + 1] = Wider(s, E[n])
    BY <1>1
  <2>3. Wider(s, E[n]) \subseteq P
    BY <2>1 DEF Wider
  <2> QED
    BY <2>2, <2>3
<1>4. Nat \subseteq T
  BY <1>2, <1>3, Induction
<1> QED
  BY <1>4 DEF E

\* Whether a stretch is an expression does not depend on the values.
LEMMA SameExpressions ==
  ASSUME NEW s, Len(s) \in Nat, NEW v, NEW w, Meanings(s, v) # {}
  PROVE  Meanings(s, w) # {}
<1> DEFINE E == Expressions(s, v)
           F == Expressions(s, w)
           Like(e, f) == e.first = f.first /\ e.last = f.last
           T == {n \in Nat : n <= Len(s) => \A e \in E[n] : \E f \in F[n] : Like(e, f)}
<1>1. /\ E[0] = {[first |-> i, last |-> i, value |-> v[i]] : i \in Conditions(s)}
      /\ \A n \in 1 .. Len(s) : E[n] = Wider(s, E[n - 1])
  BY ExpressionsRecursive
<1>2. /\ F[0] = {[first |-> i, last |-> i, value |-> w[i]] : i \in Conditions(s)}
      /\ \A n \in 1 .. Len(s) : F[n] = Wider(s, F[n - 1])
  BY ExpressionsRecursive
<1> HIDE DEF E, F
<1>3. 0 \in T
  <2>1. \A i \in Conditions(s) : /\ [first |-> i, last |-> i, value |-> w[i]] \in F[0]
                                 /\ Like([first |-> i, last |-> i, value |-> v[i]],
                                         [first |-> i, last |-> i, value |-> w[i]])
    BY <1>2
  <2> HIDE DEF Like
  <2> QED
    BY <1>1, <2>1
<1>4. ASSUME NEW n \in Nat, n \in T
      PROVE  n + 1 \in T
  <2> SUFFICES ASSUME n + 1 <= Len(s), NEW e \in E[n + 1]
               PROVE  \E f \in F[n + 1] : Like(e, f)
    OBVIOUS
  <2>1. n <= Len(s) /\ n + 1 \in 1 .. Len(s) /\ (n + 1) - 1 = n
    OBVIOUS
  <2>2. \A x \in E[n] : \E f \in F[n] : Like(x, f)
    BY <1>4, <2>1
  <2>3. E[n + 1] = Wider(s, E[n]) /\ F[n + 1] = Wider(s, F[n])
    BY <1>1, <1>2, <2>1
  <2>4. CASE e \in E[n]
    BY <2>2, <2>3, <2>4 DEF Wider
  <2>5. CASE \E l, r \in E[n] : Joinable(s, l, r) /\ e = Joined(s, l, r)
    <3>1. PICK l \in E[n], r \in E[n] : Joinable(s, l, r) /\ e = Joined(s, l, r)
      BY <2>5
    <3>2. PICK f \in F[n], g \in F[n] : Like(l, f) /\ Like(r, g)
      BY <2>2
    <3>3. Joinable(s, f, g) /\ Like(e, Joined(s, f, g))
      BY <3>1, <3>2 DEF Joinable, Joined
    <3>4. Joined(s, f, g) \in Wider(s, F[n])
      <4>1. <<f, g>> \in {q \in F[n] \X F[n] : Joinable(s, q[1], q[2])}
        BY <3>3
      <4> QED
        BY <4>1 DEF Wider
    <3> QED
      BY <2>3, <3>3, <3>4
  <2>6. e \in E[n] \/ \E l, r \in E[n] : Joinable(s, l, r) /\ e = Joined(s, l, r)
    BY <2>3 DEF Wider
  <2> QED
    BY <2>4, <2>5, <2>6
<1>5. Nat \subseteq T
  BY <1>3, <1>4, Induction
<1>6. \A e \in E[Len(s)] : \E f \in F[Len(s)] : Like(e, f)
  BY <1>5
<1>7. PICK e \in E[Len(s)] : e.first = 1 /\ e.last = Len(s)
  BY DEF Meanings, E
<1>8. PICK f \in F[Len(s)] : Like(e, f)
  BY <1>6
<1>9. f \in {x \in F[Len(s)] : x.first = 1 /\ x.last = Len(s)}
  BY <1>7, <1>8
<1> QED
  BY <1>9 DEF Meanings, F

\* The stretches of a text.
Stretches(s) == [first : 1 .. Len(s), last : 1 .. Len(s), value : BOOLEAN]

\* Brackets at i and j around two stretches with an operator at k between them.
Around(s, l, r, e, i, k, j) ==
  /\ i + 1 < k /\ k + 1 < j /\ s[i] = "(" /\ s[k] \in Operators /\ s[j] = ")"
  /\ l.first = i + 1 /\ l.last = k - 1 /\ r.first = k + 1 /\ r.last = j - 1
  /\ e.first = i /\ e.last = j /\ e.value = Apply(s[k], l.value, r.value)

LEMMA JoinedStretch ==
  ASSUME NEW s, Len(s) \in Nat, NEW l \in Stretches(s), NEW r \in Stretches(s),
         l.first <= l.last, r.first <= r.last, Joinable(s, l, r)
  PROVE  /\ Joined(s, l, r) \in Stretches(s)
         /\ \E i, k, j \in 1 .. Len(s) : Around(s, l, r, Joined(s, l, r), i, k, j)
<1>1. /\ l.first \in 1 .. Len(s) /\ l.last \in 1 .. Len(s) /\ l.value \in BOOLEAN
      /\ r.first \in 1 .. Len(s) /\ r.last \in 1 .. Len(s) /\ r.value \in BOOLEAN
  BY DEF Stretches
<1>2. Apply(s[l.last + 1], l.value, r.value) \in BOOLEAN
  BY <1>1 DEF Apply
<1>3. /\ l.first - 1 \in 1 .. Len(s) /\ r.last + 1 \in 1 .. Len(s)
      /\ r.first = l.last + 2
  BY <1>1 DEF Joinable
<1>4. Joined(s, l, r) = [first |-> l.first - 1, last |-> r.last + 1,
                         value |-> Apply(s[l.last + 1], l.value, r.value)]
  BY DEF Joined
<1>5. Joined(s, l, r) \in Stretches(s)
  BY <1>2, <1>3, <1>4 DEF Stretches
<1> DEFINE i == l.first - 1
           k == l.last + 1
           j == r.last + 1
<1>6. /\ i \in 1 .. Len(s) /\ k \in 1 .. Len(s) /\ j \in 1 .. Len(s)
      /\ i + 1 < k /\ k + 1 < j
      /\ l.first = i + 1 /\ l.last = k - 1 /\ r.first = k + 1 /\ r.last = j - 1
  <2>1. i \in 1 .. Len(s) /\ k \in 1 .. Len(s) /\ j \in 1 .. Len(s)
    BY <1>1, <1>3
  <2>2. l.first = i + 1 /\ l.last = k - 1 /\ r.last = j - 1
    BY <1>1
  <2>3. r.first = k + 1
    BY <1>1, <1>3
  <2>4. i + 1 < k /\ k + 1 < j
    BY <1>1, <1>3
  <2> QED
    BY <2>1, <2>2, <2>3, <2>4
<1>7. s[i] = "(" /\ s[k] \in Operators /\ s[j] = ")"
  BY DEF Joinable, Operators
<1>8. /\ Joined(s, l, r).first = i /\ Joined(s, l, r).last = j
      /\ Joined(s, l, r).value = Apply(s[k], l.value, r.value)
  BY <1>4
<1> HIDE DEF i, k, j
<1>9. Around(s, l, r, Joined(s, l, r), i, k, j)
  BY <1>6, <1>7, <1>8 DEF Around
<1> QED
  BY <1>5, <1>6, <1>9

LEMMA AloneStretch ==
  ASSUME NEW s, Len(s) \in Nat, DOMAIN s = 1 .. Len(s), NEW v \in [Conditions(s) -> BOOLEAN],
         NEW i \in Conditions(s)
  PROVE  /\ [first |-> i, last |-> i, value |-> v[i]] \in Stretches(s)
         /\ i \in 1 .. Len(s) /\ s[i] = "C" /\ v[i] \in BOOLEAN
BY DEF Conditions, Stretches

\* A fully bracketed text has an operator between any two operands, and no two
\* operators next to each other.
Spaced(s, e) ==
  /\ e.first <= e.last
  /\ s[e.first] \in {"C", "("} /\ s[e.last] \in {"C", ")"}
  /\ \A i \in e.first .. e.last - 1 : /\ ~ (s[i] = "C" /\ s[i + 1] = "C")
                                      /\ ~ (s[i] \in Operators /\ s[i + 1] \in Operators)

LEMMA ExpressionsSpaced ==
  ASSUME NEW s, Len(s) \in Nat, DOMAIN s = 1 .. Len(s), NEW v \in [Conditions(s) -> BOOLEAN],
         Meanings(s, v) # {}, NEW n \in 1 .. Len(s) - 1
  PROVE  /\ ~ (s[n] = "C" /\ s[n + 1] = "C")
         /\ ~ (s[n] \in Operators /\ s[n + 1] \in Operators)
<1> DEFINE P == {e \in Stretches(s) : Spaced(s, e)}
<1>1. \A h \in Conditions(s) : [first |-> h, last |-> h, value |-> v[h]] \in P
  <2> TAKE h \in Conditions(s)
  <2>1. h \in 1 .. Len(s) /\ s[h] = "C" /\ [first |-> h, last |-> h, value |-> v[h]] \in Stretches(s)
    BY AloneStretch
  <2> QED
    BY <2>1 DEF Spaced
<1>2. \A l, r \in P : Joinable(s, l, r) => Joined(s, l, r) \in P
  <2> SUFFICES ASSUME NEW l \in P, NEW r \in P, Joinable(s, l, r)
               PROVE  Joined(s, l, r) \in P
    OBVIOUS
  <2> DEFINE e == Joined(s, l, r)
  <2>1. l \in Stretches(s) /\ r \in Stretches(s) /\ Spaced(s, l) /\ Spaced(s, r)
    OBVIOUS
  <2>2. l.first <= l.last /\ r.first <= r.last
    BY <2>1 DEF Spaced
  <2>3. e \in Stretches(s) /\ \E i, k, j \in 1 .. Len(s) : Around(s, l, r, e, i, k, j)
    BY <2>1, <2>2, JoinedStretch
  <2> HIDE DEF e
  <2>4. PICK i \in 1 .. Len(s), k \in 1 .. Len(s), j \in 1 .. Len(s) : Around(s, l, r, e, i, k, j)
    BY <2>3
  <2>5. /\ i + 1 < k /\ k + 1 < j /\ e.first = i /\ e.last = j
        /\ s[i] = "(" /\ s[k] \in Operators /\ s[j] = ")"
        /\ s[i + 1] \in {"C", "("} /\ s[k - 1] \in {"C", ")"}
        /\ s[k + 1] \in {"C", "("} /\ s[j - 1] \in {"C", ")"}
    BY <2>1, <2>4 DEF Around, Spaced
  <2>6. /\ \A h \in i + 1 .. k - 2 : /\ ~ (s[h] = "C" /\ s[h + 1] = "C")
                                     /\ ~ (s[h] \in Operators /\ s[h + 1] \in Operators)
        /\ \A h \in k + 1 .. j - 2 : /\ ~ (s[h] = "C" /\ s[h + 1] = "C")
                                     /\ ~ (s[h] \in Operators /\ s[h + 1] \in Operators)
    BY <2>1, <2>4 DEF Around, Spaced
  <2>7. ASSUME NEW h \in i .. j - 1
        PROVE  /\ ~ (s[h] = "C" /\ s[h + 1] = "C")
               /\ ~ (s[h] \in Operators /\ s[h + 1] \in Operators)
    <3>1. CASE h = i
      BY <2>5, <3>1 DEF Operators
    <3>2. CASE h \in i + 1 .. k - 2
      BY <2>6, <3>2
    <3>3. CASE h = k - 1
      BY <2>5, <3>3 DEF Operators
    <3>4. CASE h = k
      BY <2>5, <3>4 DEF Operators
    <3>5. CASE h \in k + 1 .. j - 2
      BY <2>6, <3>5
    <3>6. CASE h = j - 1
      BY <2>5, <3>6 DEF Operators
    <3> QED
      BY <2>5, <3>1, <3>2, <3>3, <3>4, <3>5, <3>6
  <2>8. Spaced(s, e)
    BY <2>5, <2>7 DEF Spaced
  <2> QED
    BY <2>3, <2>8 DEF e
<1> HIDE DEF P
<1>3. Expressions(s, v)[Len(s)] \subseteq P
  BY <1>1, <1>2, ExpressionInduction
<1>4. PICK e \in P : e.first = 1 /\ e.last = Len(s)
  BY <1>3 DEF Meanings
<1> QED
  BY <1>4 DEF P, Spaced

-----------------------------------------------------------------------------
(* What the parser does with an expression.  After n tokens its stack is     *)
(* ops[n], and the list has len[n] entries; the entries never change later.  *)

ScannedToken(ops, len, n) ==
  \/ text[n] = "C" /\ ops[n] = ops[n - 1] /\ len[n] = len[n - 1] + 1 /\ RPN[len[n]] = "C"
  \/ text[n] = "(" /\ ops[n] = ops[n - 1] /\ len[n] = len[n - 1]
  \/ /\ text[n] = ")" /\ ops[n - 1] # <<>> /\ ops[n] = Pop(ops[n - 1])
     /\ len[n] = len[n - 1] + 1 /\ RPN[len[n]] = Head(ops[n - 1])
  \/ text[n] \in Operators /\ ops[n] = Push(ops[n - 1], text[n]) /\ len[n] = len[n - 1]

Scanned(ops, len, m) ==
  /\ ops \in [0 .. m -> Seq(Operators)] /\ len \in [0 .. m -> 0 .. Len(RPN)]
  /\ ops[0] = <<>> /\ len[0] = 0
  /\ \A n \in 1 .. m : ScannedToken(ops, len, n)

LEMMA Pushed ==
  ASSUME NEW S, NEW s \in Seq(S), NEW x \in S
  PROVE  /\ Push(s, x) \in Seq(S) /\ Push(s, x) # <<>>
         /\ Head(Push(s, x)) = x /\ Push(s, x)[1] = x /\ Pop(Push(s, x)) = s
<1> DEFINE t == Push(s, x)
<1>1. t \in Seq(S) /\ Len(t) = Len(s) + 1 /\ Len(s) \in Nat
  BY PushPop
<1>2. t = <<x>> \o s
  BY DEF Push
<1>3. t[1] = x /\ \A i \in 1 .. Len(s) : t[i + 1] = s[i]
  BY <1>2
<1> HIDE DEF t
<1>4. t # <<>> /\ Head(t) = x
  BY <1>1, <1>3
<1>5. Tail(t) \in Seq(S) /\ Len(Tail(t)) = Len(s) /\ \A i \in 1 .. Len(s) : Tail(t)[i] = s[i]
  BY <1>1, <1>3, <1>4
<1>6. Tail(t) = s
  BY <1>5
<1> QED
  BY <1>1, <1>3, <1>4, <1>6 DEF t, Pop

\* What TypeOK says of the two lists.
Lists ==
  /\ text \in Seq(Tokens) /\ RPN \in Seq(ListTokens)
  /\ Len(text) \in Nat /\ DOMAIN text = 1 .. Len(text)
  /\ Len(RPN) \in Nat /\ DOMAIN RPN = 1 .. Len(RPN)

LEMMA ScannedTypes ==
  ASSUME Lists, NEW m \in 0 .. Len(text), NEW ops, NEW len, Scanned(ops, len, m), NEW n \in 0 .. m
  PROVE  len[n] \in Nat /\ len[n] <= Len(RPN) /\ ops[n] \in Seq(Operators)
<1>1. len \in [0 .. m -> 0 .. Len(RPN)] /\ ops \in [0 .. m -> Seq(Operators)]
  BY DEF Scanned
<1>2. len[n] \in 0 .. Len(RPN) /\ ops[n] \in Seq(Operators)
  BY <1>1
<1> QED
  BY <1>2 DEF Lists

\* Brackets around two expressions, once scanned: the left one's entries follow
\* each other, then the right one's, then the operator between them.
LEMMA JoinScanned ==
  ASSUME Lists, NEW m \in 0 .. Len(text), NEW ops, NEW len, Scanned(ops, len, m),
         NEW i \in 1 .. m, NEW k \in 1 .. m, NEW j \in 1 .. m,
         text[i] = "(", text[k] \in Operators, text[j] = ")",
         ops[k - 1] = ops[i], ops[j - 1] = ops[k]
  PROVE  /\ len[i] = len[i - 1] /\ len[k] = len[k - 1] /\ len[j] = len[j - 1] + 1
         /\ ops[j] = ops[i - 1] /\ ops[j - 1] # <<>> /\ RPN[len[j]] = text[k]
<1>1. ops[i] = ops[i - 1] /\ len[i] = len[i - 1]
  BY DEF Scanned, ScannedToken, Operators
<1>2. ops[k] = Push(ops[k - 1], text[k]) /\ len[k] = len[k - 1]
  BY DEF Scanned, ScannedToken, Operators
<1>3. /\ ops[j] = Pop(ops[j - 1]) /\ len[j] = len[j - 1] + 1 /\ RPN[len[j]] = Head(ops[j - 1])
  BY DEF Scanned, ScannedToken, Operators
<1>4. k - 1 \in 0 .. m
  OBVIOUS
<1>5. ops[k - 1] \in Seq(Operators)
  BY <1>4, ScannedTypes
<1>6. /\ Push(ops[k - 1], text[k]) # <<>> /\ Head(Push(ops[k - 1], text[k])) = text[k]
      /\ Pop(Push(ops[k - 1], text[k])) = ops[k - 1]
  <2>1. \A s \in Seq(Operators), x \in Operators :
          Push(s, x) # <<>> /\ Head(Push(s, x)) = x /\ Pop(Push(s, x)) = s
    BY Pushed, Zenon
  <2>2. text[k] \in Operators
    OBVIOUS
  <2> QED
    BY <1>5, <2>1, <2>2, Zenon
<1> QED
  BY <1>1, <1>2, <1>3, <1>6

\* A whole expression leaves the parser's stack as it was, and its entries begin
\* with a condition and, unless it is one condition, end with an operator; and no
\* bracket in it meets an empty stack.
ParsedAs(ops, len, m, e) ==
  /\ e.first <= e.last
  /\ e.last <= m => /\ ops[e.last] = ops[e.first - 1] /\ len[e.first - 1] < len[e.last]
                    /\ RPN[len[e.first - 1] + 1] = "C"
                    /\ e.first < e.last => RPN[len[e.last]] \in Operators
  /\ \A n \in e.first - 1 .. e.last - 1 : n <= m /\ text[n + 1] = ")" => ops[n] # <<>>

LEMMA ExpressionsParsed ==
  ASSUME Lists, NEW m \in 0 .. Len(text), NEW ops, NEW len, Scanned(ops, len, m),
         NEW v \in [Conditions(text) -> BOOLEAN], Meanings(text, v) # {}
  PROVE  \E e \in Stretches(text) : e.first = 1 /\ e.last = Len(text) /\ ParsedAs(ops, len, m, e)
<1> DEFINE P == {e \in Stretches(text) : ParsedAs(ops, len, m, e)}
<1>1. \A h \in Conditions(text) : [first |-> h, last |-> h, value |-> v[h]] \in P
  <2> TAKE h \in Conditions(text)
  <2> DEFINE e == [first |-> h, last |-> h, value |-> v[h]]
  <2>1. h \in 1 .. Len(text) /\ text[h] = "C" /\ e \in Stretches(text)
    BY AloneStretch DEF Lists
  <2>2. h <= m => h - 1 \in 0 .. m /\ len[h - 1] \in Nat /\ ops[h] = ops[h - 1]
                  /\ len[h] = len[h - 1] + 1 /\ RPN[len[h]] = "C"
    <3> SUFFICES ASSUME h <= m
                 PROVE  h - 1 \in 0 .. m /\ len[h - 1] \in Nat /\ ops[h] = ops[h - 1]
                        /\ len[h] = len[h - 1] + 1 /\ RPN[len[h]] = "C"
      OBVIOUS
    <3>1. h \in 1 .. m /\ h - 1 \in 0 .. m
      BY <2>1
    <3>2. len[h - 1] \in Nat
      BY <3>1, ScannedTypes
    <3>3. ScannedToken(ops, len, h)
      BY <3>1 DEF Scanned
    <3> QED
      BY <2>1, <3>1, <3>2, <3>3 DEF ScannedToken, Operators
  <2>3. e.first = h /\ e.last = h
    OBVIOUS
  <2> HIDE DEF e
  <2>4. ParsedAs(ops, len, m, e)
    BY <2>1, <2>2, <2>3 DEF ParsedAs
  <2> QED
    BY <2>1, <2>4 DEF e
<1>2. \A l, r \in P : Joinable(text, l, r) => Joined(text, l, r) \in P
  <2> SUFFICES ASSUME NEW l \in P, NEW r \in P, Joinable(text, l, r)
               PROVE  Joined(text, l, r) \in P
    OBVIOUS
  <2> DEFINE e == Joined(text, l, r)
  <2>1. /\ l \in Stretches(text) /\ r \in Stretches(text)
        /\ ParsedAs(ops, len, m, l) /\ ParsedAs(ops, len, m, r)
    OBVIOUS
  <2>2. l.first <= l.last /\ r.first <= r.last
    BY <2>1 DEF ParsedAs
  <2>3. /\ e \in Stretches(text)
        /\ \E i, k, j \in 1 .. Len(text) : Around(text, l, r, e, i, k, j)
    BY <2>1, <2>2, JoinedStretch DEF Lists
  <2> HIDE DEF e
  <2>4. PICK i \in 1 .. Len(text), k \in 1 .. Len(text), j \in 1 .. Len(text) :
          Around(text, l, r, e, i, k, j)
    BY <2>3
  <2>5. /\ i + 1 < k /\ k + 1 < j /\ e.first = i /\ e.last = j
        /\ text[i] = "(" /\ text[k] \in Operators /\ text[j] = ")"
    BY <2>4 DEF Around
  <2>6. /\ l.first - 1 = i /\ l.last = k - 1 /\ r.first - 1 = k /\ r.last = j - 1
    BY <2>4 DEF Around
  <2>7. /\ k - 1 <= m => /\ ops[k - 1] = ops[i] /\ len[i] < len[k - 1]
                         /\ RPN[len[i] + 1] = "C"
        /\ \A n \in i .. k - 2 : n <= m /\ text[n + 1] = ")" => ops[n] # <<>>
    BY <2>1, <2>6 DEF ParsedAs
  <2>8. /\ j - 1 <= m => ops[j - 1] = ops[k] /\ len[k] < len[j - 1]
        /\ \A n \in k .. j - 2 : n <= m /\ text[n + 1] = ")" => ops[n] # <<>>
    BY <2>1, <2>6 DEF ParsedAs
  <2>9. ASSUME j <= m
        PROVE  /\ ops[j] = ops[i - 1] /\ len[i - 1] < len[j]
               /\ RPN[len[i - 1] + 1] = "C" /\ RPN[len[j]] \in Operators
    <3>1. /\ i \in 1 .. m /\ k \in 1 .. m /\ j \in 1 .. m /\ i - 1 \in 0 .. m
          /\ k - 1 <= m /\ j - 1 <= m /\ k - 1 \in 0 .. m /\ j - 1 \in 0 .. m
      BY <2>5, <2>9
    <3>2. /\ len[i] = len[i - 1] /\ len[k] = len[k - 1] /\ len[j] = len[j - 1] + 1
          /\ ops[j] = ops[i - 1] /\ RPN[len[j]] = text[k]
      BY <2>5, <2>7, <2>8, <3>1, JoinScanned
    <3>3. len[i - 1] \in Nat /\ len[k - 1] \in Nat /\ len[j - 1] \in Nat
      BY <3>1, ScannedTypes
    <3>4. len[i - 1] < len[j]
      BY <2>7, <2>8, <3>1, <3>2, <3>3
    <3> QED
      BY <2>5, <2>7, <3>1, <3>2, <3>4
  <2>10. ASSUME NEW n \in i - 1 .. j - 1, n <= m, text[n + 1] = ")"
         PROVE  ops[n] # <<>>
    <3>1. CASE n = i - 1
      BY <2>5, <2>10, <3>1
    <3>2. CASE n \in i .. k - 2
      BY <2>7, <2>10, <3>2
    <3>3. CASE n = k - 1
      BY <2>5, <2>10, <3>3 DEF Operators
    <3>4. CASE n \in k .. j - 2
      BY <2>8, <2>10, <3>4
    <3>5. CASE n = j - 1
      <4>1. k \in 1 .. m /\ k - 1 \in 0 .. m /\ j - 1 <= m
        BY <2>5, <2>10, <3>5
      <4>2. ops[j - 1] = ops[k]
        BY <2>8, <4>1
      <4>3. ops[k] = Push(ops[k - 1], text[k])
        BY <2>5, <4>1 DEF Scanned, ScannedToken, Operators
      <4>4. ops[k - 1] \in Seq(Operators)
        BY <4>1, ScannedTypes
      <4> QED
        BY <2>5, <3>5, <4>2, <4>3, <4>4, Pushed
    <3> QED
      BY <2>5, <3>1, <3>2, <3>3, <3>4, <3>5
  <2>11. ParsedAs(ops, len, m, e)
    BY <2>5, <2>9, <2>10 DEF ParsedAs
  <2> QED
    BY <2>3, <2>11 DEF e
<1> HIDE DEF P
<1>3. Expressions(text, v)[Len(text)] \subseteq P
  BY <1>1, <1>2, ExpressionInduction DEF Lists
<1>4. PICK e \in P : e.first = 1 /\ e.last = Len(text)
  BY <1>3 DEF Meanings
<1> QED
  BY <1>4 DEF P

-----------------------------------------------------------------------------
(* What the sanity check finds: the entries of an expression add one to the  *)
(* depth of its stack, and each operator finds its two values.               *)

Depth(n) == DepthAt(depth, size, n)

CheckedAs(ops, len, e) ==
  /\ e.first <= e.last /\ ops[e.last] = ops[e.first - 1] /\ len[e.first - 1] < len[e.last]
  /\ len[e.last] <= Len(depth) => Depth(len[e.last] + 1) = Depth(len[e.first - 1] + 1) + 1
  /\ \A n \in len[e.first - 1] .. len[e.last] - 1 :
       n <= Len(depth) /\ RPN[n + 1] # "C" => Depth(n + 1) >= 2

LEMMA ExpressionsChecked ==
  ASSUME Lists, Walk, Len(depth) \in Nat, NEW ops, NEW len, Scanned(ops, len, Len(text)),
         NEW v \in [Conditions(text) -> BOOLEAN], Meanings(text, v) # {}
  PROVE  \E e \in Stretches(text) : e.first = 1 /\ e.last = Len(text) /\ CheckedAs(ops, len, e)
<1> DEFINE P == {e \in Stretches(text) : CheckedAs(ops, len, e)}
           m == Len(text)
           q == Len(depth)
<1>0. m \in Nat /\ m \in 0 .. Len(text)
  BY DEF Lists
<1>1. /\ \A n \in 1 .. q + 1 : Depth(n) \in Nat
      /\ \A n \in 1 .. q : /\ RPN[n] = "C" => Depth(n + 1) = Depth(n) + 1
                           /\ RPN[n] # "C" => Depth(n + 1) = Depth(n) - 1
  BY DEF Walk, Depth
<1>2. \A h \in Conditions(text) : [first |-> h, last |-> h, value |-> v[h]] \in P
  <2> TAKE h \in Conditions(text)
  <2> DEFINE e == [first |-> h, last |-> h, value |-> v[h]]
  <2>1. h \in 1 .. m /\ text[h] = "C" /\ e \in Stretches(text)
    BY AloneStretch DEF Lists
  <2>2. h - 1 \in 0 .. m /\ ScannedToken(ops, len, h)
    BY <1>0, <2>1 DEF Scanned
  <2>3. len[h - 1] \in Nat
    BY <1>0, <2>2, ScannedTypes
  <2>4. ops[h] = ops[h - 1] /\ len[h] = len[h - 1] + 1 /\ RPN[len[h]] = "C"
    BY <2>1, <2>2 DEF ScannedToken, Operators
  <2>5. e.first = h /\ e.last = h
    OBVIOUS
  <2> HIDE DEF e, m, q
  <2>6. len[h] <= q => Depth(len[h] + 1) = Depth(len[h - 1] + 1) + 1
    BY <1>1, <2>3, <2>4 DEF q
  <2>7. CheckedAs(ops, len, e)
    BY <2>1, <2>3, <2>4, <2>5, <2>6 DEF CheckedAs, q
  <2> QED
    BY <2>1, <2>7 DEF e
<1>3. \A l, r \in P : Joinable(text, l, r) => Joined(text, l, r) \in P
  <2> SUFFICES ASSUME NEW l \in P, NEW r \in P, Joinable(text, l, r)
               PROVE  Joined(text, l, r) \in P
    OBVIOUS
  <2> DEFINE e == Joined(text, l, r)
  <2>1. /\ l \in Stretches(text) /\ r \in Stretches(text)
        /\ CheckedAs(ops, len, l) /\ CheckedAs(ops, len, r)
    OBVIOUS
  <2>2. l.first <= l.last /\ r.first <= r.last
    BY <2>1 DEF CheckedAs
  <2>3. /\ e \in Stretches(text)
        /\ \E i, k, j \in 1 .. Len(text) : Around(text, l, r, e, i, k, j)
    BY <2>1, <2>2, JoinedStretch DEF Lists
  <2> HIDE DEF e
  <2>4. PICK i \in 1 .. m, k \in 1 .. m, j \in 1 .. m : Around(text, l, r, e, i, k, j)
    BY <2>3
  <2>5. /\ i + 1 < k /\ k + 1 < j /\ e.first = i /\ e.last = j
        /\ text[i] = "(" /\ text[k] \in Operators /\ text[j] = ")"
        /\ l.first - 1 = i /\ l.last = k - 1 /\ r.first - 1 = k /\ r.last = j - 1
    BY <2>4 DEF Around
  <2>6. /\ ops[k - 1] = ops[i] /\ len[i] < len[k - 1]
        /\ len[k - 1] <= q => Depth(len[k - 1] + 1) = Depth(len[i] + 1) + 1
        /\ \A n \in len[i] .. len[k - 1] - 1 : n <= q /\ RPN[n + 1] # "C" => Depth(n + 1) >= 2
    BY <2>1, <2>5 DEF CheckedAs
  <2>7. /\ ops[j - 1] = ops[k] /\ len[k] < len[j - 1]
        /\ len[j - 1] <= q => Depth(len[j - 1] + 1) = Depth(len[k] + 1) + 1
        /\ \A n \in len[k] .. len[j - 1] - 1 : n <= q /\ RPN[n + 1] # "C" => Depth(n + 1) >= 2
    BY <2>1, <2>5 DEF CheckedAs
  <2>8. /\ len[i] = len[i - 1] /\ len[k] = len[k - 1] /\ len[j] = len[j - 1] + 1
        /\ ops[j] = ops[i - 1] /\ RPN[len[j]] = text[k]
    BY <1>0, <2>5, <2>6, <2>7, JoinScanned
  <2>9. len[i - 1] \in Nat /\ len[k - 1] \in Nat /\ len[j - 1] \in Nat
    <3>1. i - 1 \in 0 .. m /\ k - 1 \in 0 .. m /\ j - 1 \in 0 .. m
      OBVIOUS
    <3> QED
      BY <1>0, <3>1, ScannedTypes
  <2>10. RPN[len[j - 1] + 1] # "C"
    BY <2>5, <2>8 DEF Operators
  <2> DEFINE a == len[i - 1]
             b == len[k - 1]
             c == len[j - 1]
  <2>11. /\ a \in Nat /\ b \in Nat /\ c \in Nat /\ a < b /\ b < c
         /\ b <= q => Depth(b + 1) = Depth(a + 1) + 1
         /\ c <= q => Depth(c + 1) = Depth(b + 1) + 1
         /\ \A n \in a .. b - 1 : n <= q /\ RPN[n + 1] # "C" => Depth(n + 1) >= 2
         /\ \A n \in b .. c - 1 : n <= q /\ RPN[n + 1] # "C" => Depth(n + 1) >= 2
         /\ RPN[c + 1] # "C" /\ len[j] = c + 1
    BY <2>6, <2>7, <2>8, <2>9, <2>10
  <2> HIDE DEF a, b, c, q, m
  <2>12. q \in Nat
    BY DEF q
  <2>13. c <= q => Depth(a + 1) \in Nat /\ Depth(c + 1) = Depth(a + 1) + 2
    <3>1. c <= q => a + 1 \in 1 .. q + 1 /\ b <= q
      BY <2>11, <2>12
    <3>2. \A n \in 1 .. q + 1 : Depth(n) \in Nat
      BY <1>1 DEF q
    <3> HIDE DEF Depth
    <3> QED
      BY <2>11, <3>1, <3>2
  <2>14. c + 1 <= q => Depth(c + 2) = Depth(a + 1) + 1
    <3>1. c + 1 <= q => c + 1 \in 1 .. q /\ c <= q
      BY <2>11, <2>12
    <3>2. c + 1 <= q => Depth((c + 1) + 1) = Depth(c + 1) - 1
      BY <1>1, <2>11, <3>1 DEF q
    <3>3. (c + 1) + 1 = c + 2
      BY <2>11
    <3> HIDE DEF Depth
    <3> QED
      BY <2>13, <3>1, <3>2, <3>3
  <2>15. \A n \in a .. c : n <= q /\ RPN[n + 1] # "C" => Depth(n + 1) >= 2
    <3> TAKE n \in a .. c
    <3>1. n \in a .. b - 1 \/ n \in b .. c - 1 \/ n = c
      BY <2>11
    <3> HIDE DEF Depth
    <3> QED
      BY <2>11, <2>13, <3>1
  <2>16. CheckedAs(ops, len, e)
    <3>1. len[e.last] = c + 1 /\ len[e.first - 1] = a /\ e.first <= e.last
          /\ ops[e.last] = ops[e.first - 1]
      BY <2>5, <2>8, <2>11 DEF a, m
    <3>2. (c + 1) - 1 = c /\ a < c + 1 /\ (c + 1) + 1 = c + 2
      BY <2>11
    <3> QED
      BY <2>14, <2>15, <3>1, <3>2 DEF CheckedAs, q
  <2> QED
    BY <2>3, <2>16 DEF e
<1> HIDE DEF P
<1>4. Expressions(text, v)[Len(text)] \subseteq P
  BY <1>2, <1>3, ExpressionInduction DEF Lists
<1>5. PICK e \in P : e.first = 1 /\ e.last = Len(text)
  BY <1>4 DEF Meanings
<1> QED
  BY <1>5 DEF P
-----------------------------------------------------------------------------
(* What the evaluation makes of an expression: one push of its value.        *)

LEMMA PushedTwice ==
  ASSUME NEW S, NEW s \in Seq(S), NEW x \in S, NEW y \in S
  PROVE  LET t == Push(Push(s, x), y) IN t[1] = y /\ t[2] = x /\ Pop(Pop(t)) = s
<1> DEFINE u == Push(s, x)
           t == Push(u, y)
<1>1. u \in Seq(S) /\ u[1] = x /\ Pop(u) = s
  BY Pushed
<1>2. Len(u) = Len(s) + 1 /\ Len(s) \in Nat
  BY PushPop
<1> HIDE DEF u
<1>3. t[1] = y /\ Pop(t) = u
  BY <1>1, Pushed
<1>4. t[2] = u[1]
  <2>1. 1 \in 1 .. Len(u) /\ t = <<y>> \o u
    BY <1>2 DEF Push
  <2> QED
    BY <1>1, <2>1
<1> QED
  BY <1>1, <1>3, <1>4 DEF u, t

\* E[n] is the stack before entry n of the list.
Evaluating(E, q) ==
  /\ E \in [1 .. q + 1 -> Seq(BOOLEAN)] /\ E[1] = <<>>
  /\ \A n \in 1 .. q :
       E[n + 1] = IF RPN[n] = "C"
                    THEN Push(E[n], met[n])
                    ELSE Push(Pop(Pop(E[n])), Apply(RPN[n], E[n][1], E[n][2]))

EvaluatedAs(ops, len, E, e) ==
  /\ e.first <= e.last /\ ops[e.last] = ops[e.first - 1] /\ len[e.first - 1] < len[e.last]
  /\ E[len[e.last] + 1] = Push(E[len[e.first - 1] + 1], e.value)

LEMMA ExpressionsEvaluated ==
  ASSUME Lists, NEW ops, NEW len, Scanned(ops, len, Len(text)),
         NEW E, Evaluating(E, Len(RPN)), NEW v \in [Conditions(text) -> BOOLEAN],
         \A h \in Conditions(text) : v[h] = met[len[h]],
         NEW b \in Meanings(text, v)
  PROVE  E[len[Len(text)] + 1] = Push(<<>>, b)
<1> DEFINE P == {e \in Stretches(text) : EvaluatedAs(ops, len, E, e)}
           m == Len(text)
<1>0. m \in Nat /\ m \in 0 .. Len(text)
  BY DEF Lists
<1>1. \A n \in 0 .. m : len[n] \in Nat /\ len[n] <= Len(RPN)
  BY <1>0, ScannedTypes
<1>2. \A h \in Conditions(text) : [first |-> h, last |-> h, value |-> v[h]] \in P
  <2> TAKE h \in Conditions(text)
  <2> DEFINE e == [first |-> h, last |-> h, value |-> v[h]]
  <2>1. h \in 1 .. m /\ text[h] = "C" /\ e \in Stretches(text)
    BY AloneStretch DEF Lists
  <2>2. h - 1 \in 0 .. m /\ h \in 0 .. m /\ ScannedToken(ops, len, h)
    BY <1>0, <2>1 DEF Scanned
  <2>3. len[h - 1] \in Nat /\ len[h] \in Nat /\ len[h] <= Len(RPN)
    BY <1>1, <2>2
  <2>4. ops[h] = ops[h - 1] /\ len[h] = len[h - 1] + 1 /\ RPN[len[h]] = "C"
    BY <2>1, <2>2 DEF ScannedToken, Operators
  <2>5. len[h] \in 1 .. Len(RPN)
    BY <2>3, <2>4
  <2>6. E[len[h] + 1] = Push(E[len[h]], v[h])
    BY <2>4, <2>5 DEF Evaluating
  <2>7. e.first = h /\ e.last = h /\ e.value = v[h]
    OBVIOUS
  <2> HIDE DEF e
  <2>8. EvaluatedAs(ops, len, E, e)
    BY <2>1, <2>3, <2>4, <2>6, <2>7 DEF EvaluatedAs
  <2> QED
    BY <2>1, <2>8 DEF e
<1>3. \A l, r \in P : Joinable(text, l, r) => Joined(text, l, r) \in P
  <2> SUFFICES ASSUME NEW l \in P, NEW r \in P, Joinable(text, l, r)
               PROVE  Joined(text, l, r) \in P
    OBVIOUS
  <2> DEFINE e == Joined(text, l, r)
  <2>1. /\ l \in Stretches(text) /\ r \in Stretches(text)
        /\ EvaluatedAs(ops, len, E, l) /\ EvaluatedAs(ops, len, E, r)
    OBVIOUS
  <2>2. l.first <= l.last /\ r.first <= r.last /\ l.value \in BOOLEAN /\ r.value \in BOOLEAN
    BY <2>1 DEF EvaluatedAs, Stretches
  <2>3. /\ e \in Stretches(text)
        /\ \E i, k, j \in 1 .. Len(text) : Around(text, l, r, e, i, k, j)
    BY <2>1, <2>2, JoinedStretch DEF Lists
  <2> HIDE DEF e
  <2>4. PICK i \in 1 .. m, k \in 1 .. m, j \in 1 .. m : Around(text, l, r, e, i, k, j)
    BY <2>3
  <2>5. /\ i + 1 < k /\ k + 1 < j /\ e.first = i /\ e.last = j
        /\ text[i] = "(" /\ text[k] \in Operators /\ text[j] = ")"
        /\ l.first - 1 = i /\ l.last = k - 1 /\ r.first - 1 = k /\ r.last = j - 1
        /\ e.value = Apply(text[k], l.value, r.value)
    BY <2>4 DEF Around
  <2>6. /\ ops[k - 1] = ops[i] /\ len[i] < len[k - 1]
        /\ E[len[k - 1] + 1] = Push(E[len[i] + 1], l.value)
    BY <2>1, <2>5 DEF EvaluatedAs
  <2>7. /\ ops[j - 1] = ops[k] /\ len[k] < len[j - 1]
        /\ E[len[j - 1] + 1] = Push(E[len[k] + 1], r.value)
    BY <2>1, <2>5 DEF EvaluatedAs
  <2>8. /\ len[i] = len[i - 1] /\ len[k] = len[k - 1] /\ len[j] = len[j - 1] + 1
        /\ ops[j] = ops[i - 1] /\ RPN[len[j]] = text[k]
    BY <1>0, <2>5, <2>6, <2>7, JoinScanned
  <2> DEFINE a == len[i - 1]
             d == len[k - 1]
             c == len[j - 1]
  <2>9. a \in Nat /\ d \in Nat /\ c \in Nat /\ len[j] <= Len(RPN)
    <3>1. i - 1 \in 0 .. m /\ k - 1 \in 0 .. m /\ j - 1 \in 0 .. m /\ j \in 0 .. m
      OBVIOUS
    <3> QED
      BY <1>1, <3>1
  <2>10. /\ a < d /\ d < c /\ len[j] = c + 1 /\ RPN[c + 1] = text[k]
         /\ E[d + 1] = Push(E[a + 1], l.value) /\ E[c + 1] = Push(E[d + 1], r.value)
    BY <2>6, <2>7, <2>8
  <2> HIDE DEF a, d, c, m
  <2>11. a + 1 \in 1 .. Len(RPN) + 1 /\ c + 1 \in 1 .. Len(RPN) /\ Len(RPN) \in Nat
    BY <2>9, <2>10 DEF Lists
  <2>12. E[a + 1] \in Seq(BOOLEAN)
    BY <2>11 DEF Evaluating
  <2>13. /\ E[c + 1][1] = r.value /\ E[c + 1][2] = l.value
         /\ Pop(Pop(E[c + 1])) = E[a + 1]
    <3>1. E[c + 1] = Push(Push(E[a + 1], l.value), r.value)
      BY <2>10
    <3> QED
      BY <2>2, <2>12, <3>1, PushedTwice
  <2>14. E[(c + 1) + 1] = Push(E[a + 1], Apply(text[k], r.value, l.value))
    <3>1. RPN[c + 1] # "C"
      BY <2>5, <2>10 DEF Operators
    <3> QED
      BY <2>10, <2>11, <2>13, <3>1 DEF Evaluating
  <2>15. Apply(text[k], r.value, l.value) = Apply(text[k], l.value, r.value)
    BY <2>2 DEF Apply
  <2>16. EvaluatedAs(ops, len, E, e)
    <3>1. /\ e.first <= e.last /\ ops[e.last] = ops[e.first - 1]
          /\ len[e.first - 1] = a /\ len[e.last] = c + 1
      BY <2>5, <2>8, <2>10 DEF a, m
    <3>2. a < c + 1
      BY <2>9, <2>10
    <3> QED
      BY <2>5, <2>14, <2>15, <3>1, <3>2 DEF EvaluatedAs
  <2> QED
    BY <2>3, <2>16 DEF e
<1> HIDE DEF P
<1>4. Expressions(text, v)[Len(text)] \subseteq P
  BY <1>2, <1>3, ExpressionInduction DEF Lists
<1>5. PICK e \in P : e.first = 1 /\ e.last = Len(text) /\ e.value = b
  BY <1>4 DEF Meanings
<1>6. E[len[Len(text)] + 1] = Push(E[len[0] + 1], b)
  BY <1>5 DEF P, EvaluatedAs
<1> QED
  BY <1>6 DEF Scanned, Evaluating
-----------------------------------------------------------------------------
(* The conditions stand in the list in the order they stand in the text.     *)

LEMMA OrdinalStep ==
  ASSUME NEW s, NEW n \in Nat
  PROVE  /\ Ordinal(s, 0) = 0 /\ Ordinal(s, n) \in Nat
         /\ Ordinal(s, n + 1) = IF s[n + 1] = "C" THEN Ordinal(s, n) + 1 ELSE Ordinal(s, n)
<1> DEFINE U(i) == {h \in 1 .. i : s[h] = "C"}
<1>1. U(0) = {} /\ Cardinality(U(0)) = 0
  <2>1. U(0) = {}
    OBVIOUS
  <2> QED
    BY <2>1, FS_EmptySet
<1>2. IsFiniteSet(U(n)) /\ Cardinality(U(n)) \in Nat
  <2>1. IsFiniteSet(1 .. n)
    BY FS_Interval
  <2>2. U(n) \subseteq 1 .. n
    OBVIOUS
  <2> QED
    BY <2>1, <2>2, FS_Subset, FS_CardinalityType
<1>3. U(n + 1) = IF s[n + 1] = "C" THEN U(n) \cup {n + 1} ELSE U(n)
  OBVIOUS
<1>4. n + 1 \notin U(n)
  OBVIOUS
<1>5. Cardinality(U(n) \cup {n + 1}) = Cardinality(U(n)) + 1
  BY <1>2, <1>4, FS_AddElement
<1> QED
  BY <1>1, <1>2, <1>3, <1>5 DEF Ordinal

\* Two conditions have two ordinals.
LEMMA OrdinalsDiffer ==
  ASSUME NEW s, NEW i \in Nat, NEW j \in Nat, i < j, s[j] = "C"
  PROVE  Ordinal(s, i) < Ordinal(s, j)
<1> DEFINE T == {n \in Nat : \A k \in Nat : k <= n => Ordinal(s, k) <= Ordinal(s, n)}
<1>1. \A n \in Nat : /\ Ordinal(s, n) \in Nat
                     /\ Ordinal(s, n + 1) = IF s[n + 1] = "C" THEN Ordinal(s, n) + 1
                                                              ELSE Ordinal(s, n)
  BY OrdinalStep
<1>2. 0 \in T
  BY <1>1
<1>3. ASSUME NEW n \in Nat, n \in T
      PROVE  n + 1 \in T
  <2> SUFFICES ASSUME NEW k \in Nat, k <= n + 1
               PROVE  Ordinal(s, k) <= Ordinal(s, n + 1)
    OBVIOUS
  <2>1. CASE k = n + 1
    BY <1>1, <2>1
  <2>2. CASE k <= n
    BY <1>1, <1>3, <2>2
  <2> QED
    BY <2>1, <2>2
<1>4. Nat \subseteq T
  BY <1>2, <1>3, Induction
<1>5. j - 1 \in Nat /\ i <= j - 1 /\ j = (j - 1) + 1
  OBVIOUS
<1>6. Ordinal(s, i) <= Ordinal(s, j - 1)
  BY <1>4, <1>5
<1>7. Ordinal(s, j) = Ordinal(s, j - 1) + 1
  BY <1>1, <1>5
<1> QED
  BY <1>1, <1>5, <1>6, <1>7

LEMMA OrdinalsScanned ==
  ASSUME Lists, NEW ops, NEW len, Scanned(ops, len, Len(text))
  PROVE  \A n \in 0 .. Len(text) : Ordinal(RPN, len[n]) = Ordinal(text, n)
<1> DEFINE m == Len(text)
           T == {n \in Nat : n <= m => Ordinal(RPN, len[n]) = Ordinal(text, n)}
<1>1. m \in Nat /\ m \in 0 .. Len(text)
  BY DEF Lists
<1>2. \A n \in 0 .. m : len[n] \in Nat /\ ops[n] \in Seq(Operators)
  BY <1>1, ScannedTypes
<1>3. 0 \in T
  BY OrdinalStep DEF Scanned
<1>4. ASSUME NEW n \in Nat, n \in T
      PROVE  n + 1 \in T
  <2> SUFFICES ASSUME n + 1 <= m
               PROVE  Ordinal(RPN, len[n + 1]) = Ordinal(text, n + 1)
    OBVIOUS
  <2>1. n \in 0 .. m /\ n + 1 \in 1 .. m /\ (n + 1) - 1 = n
    BY <1>1
  <2>2. len[n] \in Nat /\ ops[n] \in Seq(Operators) /\ Ordinal(RPN, len[n]) = Ordinal(text, n)
    BY <1>2, <1>4, <2>1
  <2>3. ScannedToken(ops, len, n + 1)
    BY <2>1 DEF Scanned
  <2>4. \/ text[n + 1] = "C" /\ len[n + 1] = len[n] + 1 /\ RPN[len[n] + 1] = "C"
        \/ text[n + 1] # "C" /\ len[n + 1] = len[n]
        \/ text[n + 1] # "C" /\ len[n + 1] = len[n] + 1 /\ RPN[len[n] + 1] # "C"
    <3>1. ops[n] # <<>> => Head(ops[n]) \in Operators
      BY <2>2
    <3> QED
      BY <2>1, <2>3, <3>1 DEF ScannedToken, Operators
  <2>5. /\ Ordinal(RPN, len[n] + 1) = IF RPN[len[n] + 1] = "C" THEN Ordinal(RPN, len[n]) + 1
                                                               ELSE Ordinal(RPN, len[n])
        /\ Ordinal(text, n + 1) = IF text[n + 1] = "C" THEN Ordinal(text, n) + 1
                                                       ELSE Ordinal(text, n)
    BY <2>2, OrdinalStep
  <2> QED
    BY <2>2, <2>4, <2>5
<1>5. Nat \subseteq T
  BY <1>3, <1>4, Induction
<1> QED
  BY <1>1, <1>5

\* So the condition at h of the text is entry len[h] of the list.
LEMMA MetScanned ==
  ASSUME Lists, NEW ops, NEW len, Scanned(ops, len, Len(text)),
         met \in [{i \in DOMAIN RPN : RPN[i] = "C"} -> BOOLEAN]
  PROVE  /\ MetInText \in [Conditions(text) -> BOOLEAN]
         /\ \A h \in Conditions(text) : MetInText[h] = met[len[h]]
<1>1. ASSUME NEW h \in Conditions(text)
      PROVE  MetInText[h] = met[len[h]] /\ MetInText[h] \in BOOLEAN
  <2>1. h \in 1 .. Len(text) /\ text[h] = "C" /\ Len(text) \in 0 .. Len(text)
    BY DEF Conditions, Lists
  <2>2. h \in 0 .. Len(text) /\ h - 1 \in 0 .. Len(text)
    BY <2>1
  <2>3. len[h] \in Nat /\ len[h] <= Len(RPN) /\ len[h - 1] \in Nat
    BY <2>1, <2>2, ScannedTypes
  <2>4. len[h] = len[h - 1] + 1 /\ RPN[len[h]] = "C"
    BY <2>1 DEF Scanned, ScannedToken, Operators
  <2>5. len[h] \in DOMAIN met
    BY <2>3, <2>4 DEF Lists
  <2>6. Ordinal(RPN, len[h]) = Ordinal(text, h)
    BY <2>2, OrdinalsScanned
  <2>7. ASSUME NEW j \in DOMAIN met, Ordinal(RPN, j) = Ordinal(text, h)
        PROVE  j = len[h]
    <3>1. j \in Nat /\ RPN[j] = "C"
      BY DEF Lists
    <3>2. Ordinal(RPN, j) \in Nat
      BY <3>1, OrdinalStep
    <3>3. ~ (j < len[h])
      BY <2>3, <2>4, <2>6, <2>7, <3>1, <3>2, OrdinalsDiffer
    <3>4. ~ (len[h] < j)
      BY <2>3, <2>6, <2>7, <3>1, <3>2, OrdinalsDiffer
    <3> QED
      BY <2>3, <3>1, <3>3, <3>4
  <2>8. (CHOOSE j \in DOMAIN met : Ordinal(RPN, j) = Ordinal(text, h)) = len[h]
    BY <2>5, <2>6, <2>7
  <2> QED
    BY <2>5, <2>8 DEF MetInText
<1>2. MetInText = [h \in Conditions(text) |-> MetInText[h]]
  BY DEF MetInText
<1> QED
  BY <1>1, <1>2
-----------------------------------------------------------------------------
(* The invariant: what was scanned and evaluated so far, as a history of the *)
(* parser's stack and list (ops, len) and of the evaluation's stack (E).     *)

Started ==
  /\ Len(text) >= 1 /\ text[1] = "("
  /\ phase = "tag" => idx = 1 /\ stack = <<>> /\ RPN = <<>>

ScannedSoFar(m, s) ==
  \E ops, len : Scanned(ops, len, m) /\ len[m] = Len(RPN) /\ ops[m] = s

Parsed ==
  /\ phase = "parse" => idx <= Len(text) + 1 /\ ScannedSoFar(idx - 1, stack)
  /\ phase \in {"check", "eval", "done"} => ScannedSoFar(Len(text), <<>>)

EvaluatedSoFar(q) == \E E : Evaluating(E, q) /\ E[q + 1] = stack

Evaluated ==
  /\ phase = "eval" => EvaluatedSoFar(idx - 1)
  /\ phase = "done" => EvaluatedSoFar(Len(RPN))

MeaningInv == IInv /\ Started /\ Parsed /\ Evaluated /\ ExpressionAccepted

LEMMA TypesLists == TypeOK => Lists
<1> SUFFICES ASSUME TypeOK PROVE Lists
  OBVIOUS
<1>1. text \in Seq(Tokens) /\ RPN \in Seq(ListTokens)
  BY DEF TypeOK
<1> QED
  BY <1>1 DEF Lists

LEMMA AnyMetType == AnyMet \in [Conditions(text) -> BOOLEAN]
BY DEF AnyMet

LEMMA InitMeaning == Init => MeaningInv
<1> SUFFICES ASSUME Init PROVE MeaningInv
  OBVIOUS
<1>1. IInv /\ phase = "tag" /\ idx = 1 /\ stack = <<>> /\ RPN = <<>>
  BY InitIInv DEF Init
<1>2. PICK val \in Texts : IsMixed(val) /\ text = Bracketed(val)
  BY DEF Init
<1>3. val \in Seq(Tokens) /\ Len(val) \in Nat /\ Len(val) >= 1
  BY <1>2, TextsAssumption DEF IsMixed
<1>4. Len(text) >= 1 /\ text[1] = "("
  <2>1. CASE val[1] = "("
    BY <1>2, <1>3, <2>1 DEF Bracketed
  <2>2. CASE val[1] # "("
    <3>1. text = <<"(">> \o val \o <<")">>
      BY <1>2, <2>2 DEF Bracketed
    <3>2. <<"(">> \in Seq(Tokens) /\ <<")">> \in Seq(Tokens)
      BY DEF Tokens
    <3> QED
      BY <1>3, <3>1, <3>2
  <2> QED
    BY <2>1, <2>2
<1>5. Started /\ Parsed /\ Evaluated /\ ExpressionAccepted
  BY <1>1, <1>4 DEF Started, Parsed, Evaluated, ExpressionAccepted
<1> QED
  BY <1>1, <1>5 DEF MeaningInv

\* A history stays one when the list only grows.
LEMMA ScannedKept ==
  ASSUME Lists, NEW m \in 0 .. Len(text), NEW ops, NEW len, Scanned(ops, len, m),
         UNCHANGED text, Len(RPN') \in Nat, Len(RPN) <= Len(RPN'),
         \A h \in 1 .. Len(RPN) : RPN'[h] = RPN[h]
  PROVE  Scanned(ops, len, m)'
<1>1. \A n \in 0 .. m : len[n] \in Nat /\ len[n] <= Len(RPN)
  BY ScannedTypes
<1>2. len \in [0 .. m -> 0 .. Len(RPN')]
  BY <1>1 DEF Scanned, Lists
<1>3. ASSUME NEW n \in 1 .. m
      PROVE  ScannedToken(ops, len, n)'
  <2>1. n - 1 \in 0 .. m /\ n \in 0 .. m
    OBVIOUS
  <2>2. len[n - 1] \in Nat /\ len[n] \in Nat /\ len[n] <= Len(RPN)
    BY <1>1, <2>1
  <2>3. len[n] = len[n - 1] + 1 => RPN'[len[n]] = RPN[len[n]]
    BY <2>2
  <2>4. ScannedToken(ops, len, n)
    BY DEF Scanned
  <2> QED
    BY <2>3, <2>4 DEF ScannedToken
<1> QED
  BY <1>2, <1>3 DEF Scanned

\* Until the end, no step that rejects is taken on a fully bracketed text.
LEMMA NoneRejected ==
  ASSUME MeaningInv, Next, phase' = "rejected", phase # "rejected",
         Meanings(text, AnyMet) # {}
  PROVE  FALSE
<1>1. Lists /\ Walk /\ PhaseInv /\ TypeOK /\ Len(text) >= 1 /\ text[1] = "("
  BY TypesLists DEF MeaningInv, IInv, Started
<1>2. AnyMet \in [Conditions(text) -> BOOLEAN]
  BY AnyMetType
<1>3. ~ RejectTag
  BY <1>1, <1>2, ExpressionsSpaced DEF RejectTag, MissingOperator, Lists, Operators
<1>4. ~ RejectBracket
  <2> SUFFICES ASSUME RejectBracket PROVE FALSE
    OBVIOUS
  <2>1. phase = "parse" /\ idx <= Len(text) /\ text[idx] = ")" /\ stack = <<>>
    BY DEF RejectBracket, UnpairedBracket
  <2>2. PICK ops, len : Scanned(ops, len, idx - 1) /\ ops[idx - 1] = stack
    BY <2>1 DEF MeaningInv, Parsed, ScannedSoFar
  <2>3. idx \in Nat \ {0} /\ Len(text) \in Nat
    BY <1>1 DEF TypeOK, Lists
  <2>4. idx - 1 \in 0 .. Len(text) /\ idx - 1 \in 0 .. Len(text) - 1 /\ (idx - 1) + 1 = idx
    BY <2>1, <2>3
  <2>5. PICK e \in Stretches(text) :
          e.first = 1 /\ e.last = Len(text) /\ ParsedAs(ops, len, idx - 1, e)
    BY <1>1, <1>2, <2>2, <2>4, ExpressionsParsed
  <2>6. ops[idx - 1] # <<>>
    BY <2>1, <2>3, <2>4, <2>5 DEF ParsedAs
  <2> QED
    BY <2>1, <2>2, <2>6
<1>5. ~ RejectStack
  <2> SUFFICES ASSUME RejectStack PROVE FALSE
    OBVIOUS
  <2>1. phase = "parse" /\ idx = Len(text) + 1 /\ stack # <<>>
    BY DEF RejectStack
  <2>2. Len(text) \in Nat /\ idx - 1 = Len(text) /\ Len(text) \in 0 .. Len(text)
    BY <1>1, <2>1 DEF Lists
  <2>3. PICK ops, len : Scanned(ops, len, Len(text)) /\ ops[Len(text)] = stack
    BY <2>1, <2>2 DEF MeaningInv, Parsed, ScannedSoFar
  <2>4. PICK e \in Stretches(text) :
          e.first = 1 /\ e.last = Len(text) /\ ParsedAs(ops, len, Len(text), e)
    BY <1>1, <1>2, <2>2, <2>3, ExpressionsParsed
  <2>5. ops[Len(text)] = ops[0]
    BY <2>2, <2>4 DEF ParsedAs
  <2> QED
    BY <2>1, <2>3, <2>5 DEF Scanned
<1>6. ASSUME phase = "check"
      PROVE  /\ ~ WrongEnds
             /\ idx <= Len(RPN) => ~ StackIsEmpty
             /\ idx = Len(RPN) + 1 => size = 1
  <2>1. PICK ops, len :
          Scanned(ops, len, Len(text)) /\ len[Len(text)] = Len(RPN)
    BY <1>6 DEF MeaningInv, Parsed, ScannedSoFar
  <2>2. /\ Len(text) \in Nat /\ Len(text) \in 0 .. Len(text) /\ Len(RPN) \in Nat
        /\ len[0] = 0 /\ idx \in Nat \ {0} /\ size \in Nat /\ Len(depth) = idx - 1
    BY <1>1, <1>6, <2>1 DEF Lists, Scanned, TypeOK, PhaseInv
  <2>3. ~ WrongEnds
    <3>1. PICK e \in Stretches(text) :
            e.first = 1 /\ e.last = Len(text) /\ ParsedAs(ops, len, Len(text), e)
      BY <1>1, <1>2, <2>1, <2>2, ExpressionsParsed
    <3>2. 0 < Len(RPN) /\ RPN[1] = "C"
      BY <2>1, <2>2, <3>1 DEF ParsedAs
    <3>3. 1 < Len(text)
      <4>1. len[1] = len[0]
        BY <1>1, <2>1, <2>2 DEF Scanned, ScannedToken, Operators
      <4>2. Len(text) = 1 => len[Len(text)] = len[1]
        OBVIOUS
      <4>3. Len(text) # 1
        BY <2>1, <2>2, <3>2, <4>1, <4>2
      <4> QED
        BY <1>1, <2>2, <4>3
    <3>4. RPN[Len(RPN)] \in Operators
      BY <2>1, <2>2, <3>1, <3>3 DEF ParsedAs
    <3> QED
      BY <3>2, <3>4 DEF WrongEnds, Operators
  <2>4. PICK e \in Stretches(text) :
          e.first = 1 /\ e.last = Len(text) /\ CheckedAs(ops, len, e)
    BY <1>1, <1>2, <2>1, <2>2, ExpressionsChecked
  <2>5. Depth(idx) = size
    BY <2>2 DEF Depth, DepthAt
  <2>6. idx <= Len(RPN) => ~ StackIsEmpty
    <3> SUFFICES ASSUME idx <= Len(RPN), RPN[idx] # "C" PROVE size >= 2
      BY <2>2 DEF StackIsEmpty
    <3>1. idx - 1 \in 0 .. Len(RPN) - 1 /\ (idx - 1) + 1 = idx
      BY <2>2
    <3>2. \A n \in 0 .. Len(RPN) - 1 :
            n <= Len(depth) /\ RPN[n + 1] # "C" => Depth(n + 1) >= 2
      <4>1. len[e.first - 1] = 0 /\ len[e.last] = Len(RPN)
        BY <2>1, <2>2, <2>4
      <4> QED
        BY <2>4, <4>1, Zenon DEF CheckedAs
    <3>3. Depth(idx) >= 2
      BY <2>2, <3>1, <3>2
    <3> QED
      BY <2>5, <3>3
  <2>7. idx = Len(RPN) + 1 => size = 1
    <3> SUFFICES ASSUME idx = Len(RPN) + 1 PROVE size = 1
      OBVIOUS
    <3>1. Depth(Len(RPN) + 1) = Depth(1) + 1
      BY <2>1, <2>2, <2>4 DEF CheckedAs
    <3>2. Depth(1) = 0
      BY <1>1 DEF Walk, Depth
    <3> QED
      BY <2>5, <3>1, <3>2
  <2> QED
    BY <2>3, <2>6, <2>7
<1>7. ~ RejectEntry /\ ~ RejectList
  BY <1>6 DEF RejectEntry, RejectList
<1>8. /\ ~ BeginScan /\ ~ Scan /\ ~ EndScan /\ ~ CheckEntry /\ ~ EndCheck
      /\ ~ EvalEntry /\ ~ EndEval /\ ~ Stop
  BY DEF BeginScan, Scan, EndScan, CheckEntry, EndCheck, EvalEntry, EndEval, Stop, vars
<1> QED
  BY <1>3, <1>4, <1>5, <1>7, <1>8 DEF Next
\* One turn of the parser's loop extends the history by one.
LEMMA ScanParsed ==
  ASSUME MeaningInv, Scan, IInv'
  PROVE  Parsed'
<1>1. /\ phase = "parse" /\ phase' = "parse" /\ idx <= Len(text) /\ idx' = idx + 1
      /\ text' = text /\ idx \in Nat \ {0} /\ Lists /\ ScanToken(text[idx]) /\ ~ UnpairedBracket
  BY TypesLists DEF MeaningInv, IInv, TypeOK, Scan
<1>0. PICK m \in Nat : idx = m + 1
  BY <1>1
<1>2. PICK ops, len : Scanned(ops, len, m) /\ len[m] = Len(RPN) /\ ops[m] = stack
  <2>1. idx - 1 = m
    BY <1>0
  <2> QED
    BY <1>1, <2>1 DEF MeaningInv, Parsed, ScannedSoFar
<1>3. /\ Len(text) \in Nat /\ Len(RPN) \in Nat /\ m \in 0 .. Len(text)
      /\ idx \in 1 .. Len(text) /\ text[idx] \in Tokens
  BY <1>0, <1>1 DEF Lists
<1>4. stack \in Seq(Operators) /\ stack' \in Seq(Operators) /\ RPN' \in Seq(ListTokens) /\ Len(RPN') \in Nat
  BY <1>1 DEF MeaningInv, IInv, TypeOK, Operators
<1>5. \/ text[idx] = "C" /\ stack' = stack /\ RPN' = Append(RPN, "C")
      \/ text[idx] = "(" /\ stack' = stack /\ RPN' = RPN
      \/ text[idx] = ")" /\ stack # <<>> /\ stack' = Pop(stack) /\ RPN' = Append(RPN, Head(stack))
      \/ text[idx] \in Operators /\ stack' = Push(stack, text[idx]) /\ RPN' = RPN
  BY <1>1, <1>3 DEF ScanToken, UnpairedBracket, Tokens, Operators
<1>6. Len(RPN) <= Len(RPN') /\ \A h \in 1 .. Len(RPN) : RPN'[h] = RPN[h]
  <2>1. RPN \in Seq(ListTokens) /\ "C" \in ListTokens
    BY <1>1 DEF Lists, ListTokens
  <2>2. stack # <<>> => Head(stack) \in ListTokens
    BY <1>4 DEF Operators, ListTokens
  <2>3. RPN' = RPN \/ \E x \in ListTokens : RPN' = Append(RPN, x)
    BY <1>5, <2>1, <2>2
  <2> QED
    BY <1>3, <2>1, <2>3
<1>7. Scanned(ops, len, m)'
  <2>1. UNCHANGED text
    BY <1>1
  <2> QED
    BY <1>1, <1>2, <1>3, <1>4, <1>6, <2>1, ScannedKept
<1>a. PICK newOps : newOps = [n \in 0 .. m + 1 |-> IF n <= m THEN ops[n] ELSE stack']
  OBVIOUS
<1>b. PICK newLen : newLen = [n \in 0 .. m + 1 |-> IF n <= m THEN len[n] ELSE Len(RPN')]
  OBVIOUS
<1>8. /\ newOps[m + 1] = stack' /\ newLen[m + 1] = Len(RPN')
      /\ \A n \in 0 .. m : newOps[n] = ops[n] /\ newLen[n] = len[n]
      /\ newOps[m] = stack /\ newLen[m] = Len(RPN)
  BY <1>2, <1>a, <1>b
<1>9. /\ newOps \in [0 .. m + 1 -> Seq(Operators)] /\ newLen \in [0 .. m + 1 -> 0 .. Len(RPN')]
  <2>1. ops \in [0 .. m -> Seq(Operators)] /\ len \in [0 .. m -> 0 .. Len(RPN')]
    BY <1>7 DEF Scanned
  <2>2. \A n \in 0 .. m + 1 : n <= m => n \in 0 .. m
    OBVIOUS
  <2>3. Len(RPN') \in 0 .. Len(RPN')
    BY <1>4
  <2> QED
    BY <1>4, <1>a, <1>b, <2>1, <2>2, <2>3
<1>10. ScannedToken(newOps, newLen, m + 1)'
  <2>1. RPN' = Append(RPN, "C") => Len(RPN') = Len(RPN) + 1 /\ RPN'[Len(RPN) + 1] = "C"
    BY <1>1, <1>3 DEF Lists
  <2>2. stack # <<>> /\ RPN' = Append(RPN, Head(stack)) =>
          Len(RPN') = Len(RPN) + 1 /\ RPN'[Len(RPN) + 1] = Head(stack)
    <3>1. stack # <<>> => Head(stack) \in ListTokens
      BY <1>4 DEF Operators, ListTokens
    <3> QED
      BY <1>1, <1>3, <3>1 DEF Lists
  <2>3. ScannedToken(newOps, newLen, m + 1)' <=>
          (\/ text[idx] = "C" /\ stack' = stack /\ Len(RPN') = Len(RPN) + 1 /\ RPN'[Len(RPN')] = "C"
           \/ text[idx] = "(" /\ stack' = stack /\ Len(RPN') = Len(RPN)
           \/ /\ text[idx] = ")" /\ stack # <<>> /\ stack' = Pop(stack)
              /\ Len(RPN') = Len(RPN) + 1 /\ RPN'[Len(RPN')] = Head(stack)
           \/ text[idx] \in Operators /\ stack' = Push(stack, text[idx]) /\ Len(RPN') = Len(RPN))
    <3>1. (m + 1) - 1 = m /\ idx = m + 1 /\ text' = text
      BY <1>0, <1>1
    <3>2. Len(RPN') = Len(RPN) \/ Len(RPN') = Len(RPN) + 1
      BY <1>5, <2>1, <2>2
    <3> QED
      BY <1>8, <3>1, <3>2 DEF ScannedToken
  <2> QED
    BY <1>5, <2>1, <2>2, <2>3
<1>11. ASSUME NEW n \in 1 .. m + 1
       PROVE  ScannedToken(newOps, newLen, n)'
  <2>1. CASE n = m + 1
    BY <1>10, <2>1
  <2>2. CASE n <= m
    <3>1. n \in 1 .. m /\ n \in 0 .. m /\ n - 1 \in 0 .. m
      BY <2>2
    <3>2. ScannedToken(ops, len, n)'
      BY <1>7, <3>1 DEF Scanned
    <3>3. newOps[n] = ops[n] /\ newLen[n] = len[n] /\ newOps[n - 1] = ops[n - 1] /\ newLen[n - 1] = len[n - 1]
      BY <1>8, <3>1
    <3> QED
      BY <3>2, <3>3 DEF ScannedToken
  <2> QED
    BY <1>1, <2>1, <2>2
<1>12. Scanned(newOps, newLen, m + 1)'
  <2>1. newOps[0] = <<>> /\ newLen[0] = 0
    BY <1>1, <1>2, <1>8 DEF Scanned
  <2> QED
    BY <1>9, <1>11, <2>1 DEF Scanned
<1>13. idx' - 1 = m + 1 /\ idx' <= Len(text') + 1
  BY <1>0, <1>1, <1>3
<1>14. ScannedSoFar(idx - 1, stack)'
  BY <1>8, <1>12, <1>13 DEF ScannedSoFar
<1> QED
  BY <1>1, <1>13, <1>14 DEF Parsed
\* One entry of the evaluation extends its history by one.
LEMMA EvalEvaluated ==
  ASSUME MeaningInv, EvalEntry, IInv'
  PROVE  Evaluated'
<1>1. /\ phase = "eval" /\ phase' = "eval" /\ idx <= Len(RPN) /\ idx' = idx + 1
      /\ UNCHANGED <<RPN, met>> /\ idx \in Nat \ {0} /\ Lists
      /\ stack' = IF RPN[idx] = "C" THEN Push(stack, met[idx])
                  ELSE Push(Pop(Pop(stack)), Apply(RPN[idx], stack[1], stack[2]))
  BY TypesLists DEF MeaningInv, IInv, TypeOK, EvalEntry
<1>2. PICK q \in Nat : idx = q + 1
  BY <1>1
<1>3. PICK E : Evaluating(E, q) /\ E[q + 1] = stack
  <2>1. idx - 1 = q
    BY <1>2
  <2> QED
    BY <1>1, <2>1 DEF MeaningInv, Evaluated, EvaluatedSoFar
<1>4. PICK F : F = [n \in 1 .. q + 2 |-> IF n <= q + 1 THEN E[n] ELSE stack']
  OBVIOUS
<1>5. F[q + 2] = stack' /\ \A n \in 1 .. q + 1 : F[n] = E[n]
  BY <1>4
<1>6. F \in [1 .. q + 2 -> Seq(BOOLEAN)]
  <2>1. stack' \in Seq(BOOLEAN)
    BY <1>1 DEF IInv, TypeOK
  <2>2. \A n \in 1 .. q + 2 : n <= q + 1 => n \in 1 .. q + 1
    OBVIOUS
  <2> QED
    BY <1>3, <1>4, <2>1, <2>2 DEF Evaluating
<1>7. ASSUME NEW n \in 1 .. q + 1
      PROVE  F[n + 1] = IF RPN[n] = "C" THEN Push(F[n], met[n])
                        ELSE Push(Pop(Pop(F[n])), Apply(RPN[n], F[n][1], F[n][2]))
  <2>1. CASE n = q + 1
    <3>1. n = idx /\ n + 1 = q + 2 /\ F[n] = stack
      BY <1>2, <1>3, <1>5, <2>1
    <3> QED
      BY <1>1, <1>5, <3>1
  <2>2. CASE n # q + 1
    <3>1. n \in 1 .. q /\ n + 1 \in 1 .. q + 1
      BY <2>2
    <3>2. F[n + 1] = E[n + 1] /\ F[n] = E[n]
      BY <1>5, <3>1
    <3> QED
      BY <1>3, <3>1, <3>2 DEF Evaluating
  <2> QED
    BY <2>1, <2>2
<1>8. Evaluating(F, q + 1)'
  <2>1. (q + 1) + 1 = q + 2 /\ F[1] = <<>>
    BY <1>3, <1>5 DEF Evaluating
  <2> QED
    BY <1>1, <1>6, <1>7, <2>1 DEF Evaluating
<1>9. EvaluatedSoFar(idx - 1)'
  <2>1. idx' - 1 = q + 1 /\ (q + 1) + 1 = q + 2
    BY <1>1, <1>2
  <2> QED
    BY <1>5, <1>8, <2>1 DEF EvaluatedSoFar
<1> QED
  BY <1>1, <1>9 DEF Evaluated

\* A step that leaves the text and the list leaves the parser's history.
LEMMA ParsedKept ==
  ASSUME Parsed, UNCHANGED <<text, RPN>>,
         phase' \in {"check", "eval", "done"} => phase \in {"check", "eval", "done"},
         phase' # "parse"
  PROVE  Parsed'
BY DEF Parsed, ScannedSoFar, Scanned, ScannedToken

LEMMA NextMeaning == MeaningInv /\ [Next]_vars => MeaningInv'
<1> SUFFICES ASSUME MeaningInv, [Next]_vars PROVE MeaningInv'
  OBVIOUS
<1>1. IInv' /\ Lists /\ text' = text
  <2>1. text' = text
    BY DEF Next, BeginScan, RejectTag, Scan, RejectBracket, EndScan, RejectStack, CheckEntry,
           RejectEntry, EndCheck, RejectList, EvalEntry, EndEval, Stop, Rejected, vars
  <2> QED
    BY <2>1, NextIInv, TypesLists DEF MeaningInv, IInv
<1>2. Started'
  <2>1. phase' = "tag" => phase = "tag" /\ UNCHANGED <<idx, stack, RPN>>
    BY DEF Next, BeginScan, RejectTag, Scan, RejectBracket, EndScan, RejectStack, CheckEntry,
           RejectEntry, EndCheck, RejectList, EvalEntry, EndEval, Stop, Rejected, vars
  <2> QED
    BY <1>1, <2>1 DEF MeaningInv, Started
<1>3. ExpressionAccepted'
  <2> SUFFICES ASSUME phase' = "rejected" PROVE Meanings(text, AnyMet)' = {}
    BY DEF ExpressionAccepted
  <2>1. Meanings(text, AnyMet)' = Meanings(text, AnyMet)
    BY <1>1 DEF AnyMet
  <2>2. CASE phase = "rejected"
    BY <2>1, <2>2 DEF MeaningInv, ExpressionAccepted
  <2>3. CASE phase # "rejected"
    <3>1. Next
      BY <2>3 DEF vars
    <3> QED
      BY <2>1, <2>3, <3>1, NoneRejected
  <2> QED
    BY <2>2, <2>3
<1>4. Parsed' /\ Evaluated'
  <2>1. CASE BeginScan
    <3>1. /\ phase' = "parse" /\ idx' = 1 /\ stack' = <<>> /\ RPN' = <<>> /\ Len(RPN') = 0
          /\ Len(text') \in Nat
      BY <1>1, <2>1 DEF MeaningInv, Started, BeginScan, Lists
    <3>2. PICK ops : ops = [n \in 0 .. 0 |-> <<>>]
      OBVIOUS
    <3>3. PICK len : len = [n \in 0 .. 0 |-> 0]
      OBVIOUS
    <3>4. Scanned(ops, len, 0)' /\ len[0] = 0 /\ ops[0] = <<>>
      <4>1. ops \in [0 .. 0 -> Seq(Operators)] /\ ops[0] = <<>>
        BY <3>2
      <4>2. len \in [0 .. 0 -> 0 .. 0] /\ len[0] = 0
        BY <3>3
      <4> QED
        BY <3>1, <4>1, <4>2 DEF Scanned
    <3>5. ScannedSoFar(idx - 1, stack)'
      <4>1. idx' - 1 = 0
        BY <3>1
      <4> QED
        BY <3>1, <3>4, <4>1 DEF ScannedSoFar
    <3> QED
      BY <3>1, <3>5 DEF Parsed, Evaluated
  <2>2. CASE RejectTag \/ RejectBracket \/ RejectStack \/ RejectEntry \/ RejectList
    <3>1. phase' = "rejected"
      BY <2>2 DEF RejectTag, RejectBracket, RejectStack, RejectEntry, RejectList, Rejected
    <3> QED
      BY <3>1 DEF Parsed, Evaluated
  <2>3. CASE Scan
    <3>1. phase' = "parse"
      BY <2>3 DEF Scan
    <3> QED
      BY <1>1, <2>3, <3>1, ScanParsed DEF Evaluated
  <2>4. CASE EndScan
    <3>1. /\ phase = "parse" /\ idx = Len(text) + 1 /\ stack = <<>> /\ phase' = "check"
          /\ UNCHANGED <<text, RPN>>
      BY <2>4 DEF EndScan
    <3>2. idx - 1 = Len(text)
      BY <1>1, <3>1 DEF Lists
    <3>3. ScannedSoFar(Len(text), <<>>)
      BY <3>1, <3>2 DEF MeaningInv, Parsed
    <3>4. ScannedSoFar(Len(text), <<>>)'
      BY <3>1, <3>3 DEF ScannedSoFar, Scanned, ScannedToken
    <3> QED
      BY <3>1, <3>4 DEF Parsed, Evaluated
  <2>5. CASE CheckEntry
    <3>1. phase = "check" /\ phase' = "check" /\ UNCHANGED <<text, RPN>>
      BY <2>5 DEF CheckEntry
    <3> QED
      BY <3>1, ParsedKept DEF MeaningInv, Evaluated
  <2>6. CASE EndCheck
    <3>1. /\ phase = "check" /\ phase' = "eval" /\ UNCHANGED <<text, RPN>> /\ idx' = 1
          /\ stack' = <<>>
      BY <2>6 DEF EndCheck, MeaningInv, IInv, PhaseInv
    <3>2. PICK E : E = [n \in 1 .. 1 |-> <<>>]
      OBVIOUS
    <3>3. Evaluating(E, 0)' /\ E[1] = <<>>
      <4>1. E \in [1 .. 0 + 1 -> Seq(BOOLEAN)] /\ E[1] = <<>>
        BY <3>2
      <4> QED
        BY <4>1 DEF Evaluating
    <3>4. EvaluatedSoFar(idx - 1)'
      <4>1. idx' - 1 = 0 /\ 0 + 1 = 1
        BY <3>1
      <4> QED
        BY <3>1, <3>3, <4>1 DEF EvaluatedSoFar
    <3> QED
      BY <3>1, <3>4, ParsedKept DEF MeaningInv, Evaluated
  <2>7. CASE EvalEntry
    <3>1. phase = "eval" /\ phase' = "eval" /\ UNCHANGED <<text, RPN>>
      BY <2>7 DEF EvalEntry
    <3> QED
      BY <1>1, <2>7, <3>1, ParsedKept, EvalEvaluated DEF MeaningInv
  <2>8. CASE EndEval
    <3>1. /\ phase = "eval" /\ phase' = "done" /\ UNCHANGED <<text, RPN, stack, met>>
          /\ idx = Len(RPN) + 1
      BY <2>8 DEF EndEval
    <3>2. idx - 1 = Len(RPN)
      BY <1>1, <3>1 DEF Lists
    <3>3. EvaluatedSoFar(Len(RPN))
      BY <3>1, <3>2 DEF MeaningInv, Evaluated
    <3>4. EvaluatedSoFar(Len(RPN))'
      BY <3>1, <3>3 DEF EvaluatedSoFar, Evaluating
    <3> QED
      BY <3>1, <3>4, ParsedKept DEF MeaningInv, Evaluated
  <2>9. CASE Stop \/ UNCHANGED vars
    <3>1. UNCHANGED <<text, phase, idx, stack, RPN, met>>
      BY <2>9 DEF Stop, vars
    <3>2. Parsed'
      BY <3>1 DEF MeaningInv, Parsed, ScannedSoFar, Scanned, ScannedToken
    <3>3. Evaluated'
      BY <3>1 DEF MeaningInv, Evaluated, EvaluatedSoFar, Evaluating
    <3> QED
      BY <3>2, <3>3
  <2> QED
    BY <2>1, <2>2, <2>3, <2>4, <2>5, <2>6, <2>7, <2>8, <2>9 DEF Next
<1> QED
  BY <1>1, <1>2, <1>3, <1>4 DEF MeaningInv

\* Whatever the text of a tag, and however deep its brackets: when it is fully
\* bracketed, the generator and the sanity check let it through.
THEOREM BracketedTextAccepted == Spec => []ExpressionAccepted
<1>1. MeaningInv => ExpressionAccepted
  BY DEF MeaningInv
<1> QED
  BY <1>1, InitMeaning, NextMeaning, PTL DEF Spec

\* For every fully bracketed text and whichever of its conditions hold, the value
\* that the run-time evaluation of the list leaves on its stack is the value of the
\* text by its brackets.
THEOREM EvaluationIsMeaning == Spec => []ValueIsMeaning
<1>1. MeaningInv => ValueIsMeaning
  <2> SUFFICES ASSUME MeaningInv, phase = "done", Meanings(text, AnyMet) # {}
               PROVE  Meanings(text, MetInText) = {stack[1]}
    BY DEF ValueIsMeaning
  <2>1. Lists /\ met \in [{i \in DOMAIN RPN : RPN[i] = "C"} -> BOOLEAN]
    BY TypesLists DEF MeaningInv, IInv, TypeOK
  <2>2. PICK ops, len : Scanned(ops, len, Len(text)) /\ len[Len(text)] = Len(RPN)
    BY DEF MeaningInv, Parsed, ScannedSoFar
  <2>3. PICK E : Evaluating(E, Len(RPN)) /\ E[Len(RPN) + 1] = stack
    BY DEF MeaningInv, Evaluated, EvaluatedSoFar
  <2>4. /\ MetInText \in [Conditions(text) -> BOOLEAN]
        /\ \A h \in Conditions(text) : MetInText[h] = met[len[h]]
    BY <2>1, <2>2, MetScanned
  <2>5. ASSUME NEW b \in Meanings(text, MetInText)
        PROVE  b = stack[1]
    <3>1. stack = Push(<<>>, b)
      BY <2>1, <2>2, <2>3, <2>4, ExpressionsEvaluated
    <3> QED
      BY <3>1 DEF Push
  <2>6. Meanings(text, MetInText) # {}
    BY <2>1, SameExpressions DEF Lists
  <2> QED
    BY <2>5, <2>6
<1> QED
  BY <1>1, InitMeaning, NextMeaning, PTL DEF Spec
=============================================================================
