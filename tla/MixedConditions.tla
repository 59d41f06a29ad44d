-------------------------- MODULE MixedConditions --------------------------
(***************************************************************************)
(* Mixed conditions of attributes ("@validonly A == x and (B == y or ...)")*)
(* from the tag of a header to their value at run time:                    *)
(*                                                                         *)
(*   parse  meta/parse.pl, ProcessMixedConditionTag: the generator turns   *)
(*          the text into reverse polish notation (RPN);                   *)
(*   check  meta/saisanitycheck.c, check_attr_mixed_condition: the build   *)
(*          runs the list once with every condition true;                  *)
(*   eval   meta/saimetadatautils.c, sai_metadata_is_mixed_condition_list_ *)
(*          met: the run-time library evaluates it on a stack of           *)
(*          SAI_METADATA_MAX_CONDITIONS_LEN booleans, with no bound check. *)
(*                                                                         *)
(* A text is a sequence of tokens: "C" a condition on one attribute, "a"   *)
(* and, "o" or, and brackets.  An operator X_... before an operator X is a *)
(* plausible slip in X, which the properties must notice.                  *)
(***************************************************************************)
EXTENDS Naturals, Sequences, FiniteSets

CONSTANT Texts \* the tag values considered

Tokens == {"C", "a", "o", "(", ")"}

ASSUME TextsAssumption == Texts \subseteq Seq(Tokens)

VARIABLES text,  \* what the parser reads, bracketed
          phase,
          idx,   \* the next token, or the next entry of the list
          stack, \* parse: operators; eval: booleans
          RPN,   \* the list of conditions
          size,  \* check: entries on the sanity check's stack
          depth, \* check: the sizes so far (history)
          met    \* eval: which of the conditions hold for the attributes given

vars == <<text, phase, idx, stack, RPN, size, depth, met>>

Push(s, x) == <<x>> \o s
Pop(s) == Tail(s)

\* "and" or "or" in both orders makes a tag a mixed one.
IsMixed(val) == \E i, j \in DOMAIN val : val[i] = "a" /\ val[j] = "o"

\* if not $val =~ /^\(/
Bracketed(val) == IF val[1] = "(" THEN val ELSE <<"(">> \o val \o <<")">>

\* $short =~ /CC|[ao][ao]/
MissingOperator ==
  \E i \in 1 .. Len(text) - 1 :
    \/ text[i] = "C" /\ text[i + 1] = "C"
    \/ text[i] \in {"a", "o"} /\ text[i + 1] \in {"a", "o"}

Init ==
  /\ \E val \in Texts : IsMixed(val) /\ text = Bracketed(val)
  /\ phase = "tag" /\ idx = 1
  /\ stack = <<>> /\ RPN = <<>> /\ size = 0 /\ depth = <<>> /\ met = <<>>

Rejected == phase' = "rejected" /\ UNCHANGED <<text, idx, stack, RPN, size, depth, met>>

-----------------------------------------------------------------------------
(* parse: ProcessMixedConditionTag *)

BeginScan ==
  /\ phase = "tag" /\ ~ MissingOperator
  /\ phase' = "parse"
  /\ UNCHANGED <<text, idx, stack, RPN, size, depth, met>>

RejectTag == phase = "tag" /\ MissingOperator /\ Rejected

\* A closing bracket that takes the oldest operator instead of the newest.
ScanToken_OldestOperator(c) ==
  CASE c = "C" -> RPN' = Append(RPN, c) /\ UNCHANGED stack
    [] c = "(" -> UNCHANGED <<RPN, stack>>
    [] c = ")" -> /\ RPN' = Append(RPN, stack[Len(stack)])
                  /\ stack' = SubSeq(stack, 1, Len(stack) - 1)
    [] c \in {"a", "o"} -> stack' = Push(stack, c) /\ UNCHANGED RPN

\* One turn of the loop over $short.
ScanToken(c) ==
  CASE c = "C" -> RPN' = Append(RPN, c) /\ UNCHANGED stack
    [] c = "(" -> UNCHANGED <<RPN, stack>>
    [] c = ")" -> RPN' = Append(RPN, Head(stack)) /\ stack' = Pop(stack)
    [] c \in {"a", "o"} -> stack' = Push(stack, c) /\ UNCHANGED RPN

\* A pop that takes the last operator for the bottom of the stack.
UnpairedBracket_LastOperator == text[idx] = ")" /\ Len(stack) <= 1

UnpairedBracket == text[idx] = ")" /\ stack = <<>>

Scan ==
  /\ phase = "parse" /\ idx <= Len(text) /\ ~ UnpairedBracket
  /\ ScanToken(text[idx])
  /\ idx' = idx + 1
  /\ UNCHANGED <<text, phase, size, depth, met>>

RejectBracket == phase = "parse" /\ idx <= Len(text) /\ UnpairedBracket /\ Rejected

\* The list goes into saimetadata.c when no operator is left.
EndScan ==
  /\ phase = "parse" /\ idx = Len(text) + 1 /\ stack = <<>>
  /\ phase' = "check" /\ idx' = 1
  /\ UNCHANGED <<text, stack, RPN, size, depth, met>>

RejectStack == phase = "parse" /\ idx = Len(text) + 1 /\ stack # <<>> /\ Rejected

-----------------------------------------------------------------------------
(* check: check_attr_mixed_condition, check_mixed_condition_list *)

WrongEnds == RPN = <<>> \/ RPN[1] # "C" \/ RPN[Len(RPN)] = "C"

\* Only the first of the two pops is checked.
StackIsEmpty_FirstPop == RPN[idx] # "C" /\ size < 1

\* One of the two pops meets an empty stack.
StackIsEmpty == RPN[idx] # "C" /\ size < 2

CheckEntry ==
  /\ phase = "check" /\ ~ WrongEnds /\ idx <= Len(RPN) /\ ~ StackIsEmpty
  /\ size' = IF RPN[idx] = "C" THEN size + 1 ELSE size - 1
  /\ depth' = Append(depth, size)
  /\ idx' = idx + 1
  /\ UNCHANGED <<text, phase, stack, RPN, met>>

RejectEntry ==
  /\ phase = "check"
  /\ WrongEnds \/ (idx <= Len(RPN) /\ StackIsEmpty)
  /\ Rejected

\* The final pop leaves an empty stack, or the assertion fails.
EndCheck ==
  /\ phase = "check" /\ ~ WrongEnds /\ idx = Len(RPN) + 1 /\ size = 1
  /\ phase' = "eval" /\ idx' = 1
  /\ met' \in [{i \in DOMAIN RPN : RPN[i] = "C"} -> BOOLEAN]
  /\ UNCHANGED <<text, stack, RPN, size, depth>>

RejectList ==
  phase = "check" /\ ~ WrongEnds /\ idx = Len(RPN) + 1 /\ size # 1 /\ Rejected

-----------------------------------------------------------------------------
(* eval: sai_metadata_is_mixed_condition_list_met, with                      *)
(* sai_metadata_is_single_condition_met of the i-th entry in met[i]          *)

Apply(op, x, y) == IF op = "a" THEN x /\ y ELSE x \/ y

EvalEntry ==
  /\ phase = "eval" /\ idx <= Len(RPN)
  /\ stack' = IF RPN[idx] = "C"
                THEN Push(stack, met[idx])
                ELSE Push(Pop(Pop(stack)), Apply(RPN[idx], stack[1], stack[2]))
  /\ idx' = idx + 1
  /\ UNCHANGED <<text, phase, RPN, size, depth, met>>

\* The last pop; what is left of the stack tells whether the logic is broken.
EndEval ==
  /\ phase = "eval" /\ idx = Len(RPN) + 1
  /\ phase' = "done"
  /\ UNCHANGED <<text, idx, stack, RPN, size, depth, met>>

Stop == phase \in {"rejected", "done"} /\ UNCHANGED vars

Next ==
  \/ BeginScan \/ RejectTag \/ Scan \/ RejectBracket \/ EndScan \/ RejectStack
  \/ CheckEntry \/ RejectEntry \/ EndCheck \/ RejectList
  \/ EvalEntry \/ EndEval \/ Stop

Spec == Init /\ [][Next]_vars

-----------------------------------------------------------------------------
(* Properties *)

\* SAI_METADATA_MAX_CONDITIONS_LEN is the length of the longest list of all; at
\* its tightest it is the length of this one.
MaxConditionsLen == Len(RPN)

\* STACK_PUSH and STACK_POP check nothing: on every list that the build lets
\* through, the array is neither overrun nor read below its start, and one value
\* is left for the result.
StackInBounds ==
  phase = "eval" =>
    /\ idx <= Len(RPN) /\ RPN[idx] = "C" => Len(stack) < MaxConditionsLen
    /\ idx <= Len(RPN) /\ RPN[idx] # "C" => Len(stack) >= 2
    /\ idx = Len(RPN) + 1 => Len(stack) = 1

\* parse.pl reports "unpaired/missing brackets ()" as an error: no text with such
\* brackets gets through the generator and the check.
BracketsPaired ==
  phase = "eval" =>
    LET Count(c) == Len(SelectSeq(text, LAMBDA t : t = c))
    IN  Count("(") = Count(")")

\* What a text s means: a reference that follows the brackets and knows nothing of
\* RPN.  An expression is a stretch of s with its value, where v[i] is the value of
\* the condition at i: a condition alone, or two expressions with an operator
\* between them in brackets.
Conditions(s) == {i \in DOMAIN s : s[i] = "C"}

Joinable(s, l, r) ==
  /\ r.first = l.last + 2 /\ s[l.last + 1] \in {"a", "o"}
  /\ l.first > 1 /\ s[l.first - 1] = "("
  /\ r.last < Len(s) /\ s[r.last + 1] = ")"

Joined(s, l, r) == [first |-> l.first - 1, last |-> r.last + 1,
                    value |-> Apply(s[l.last + 1], l.value, r.value)]

Wider(s, S) ==
  S \cup {Joined(s, p[1], p[2]) : p \in {q \in S \X S : Joinable(s, q[1], q[2])}}

\* The expressions with at most n brackets in one another, for each n.
Expressions(s, v) ==
  LET upTo[n \in 0 .. Len(s)] ==
        IF n = 0 THEN {[first |-> i, last |-> i, value |-> v[i]] : i \in Conditions(s)}
        ELSE Wider(s, upTo[n - 1])
  IN  upTo

\* The values of the whole text; none when it is not fully bracketed.
Meanings(s, v) ==
  {e.value : e \in {x \in Expressions(s, v)[Len(s)] : x.first = 1 /\ x.last = Len(s)}}

\* met, listed by the place of each condition in the text instead of the list.
Ordinal(s, i) == Cardinality({h \in 1 .. i : s[h] = "C"})

MetInText ==
  [i \in Conditions(text) |-> met[CHOOSE j \in DOMAIN met : Ordinal(RPN, j) = Ordinal(text, i)]]

AnyMet == [i \in Conditions(text) |-> TRUE]

\* Every fully bracketed text gets through the generator and the sanity check.
ExpressionAccepted == phase = "rejected" => Meanings(text, AnyMet) = {}

\* The value computed at run time is the value of the text by its brackets.
ValueIsMeaning ==
  (phase = "done" /\ Meanings(text, AnyMet) # {}) => Meanings(text, MetInText) = {stack[1]}
=============================================================================
