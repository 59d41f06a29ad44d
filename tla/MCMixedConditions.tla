------------------------- MODULE MCMixedConditions -------------------------
(***************************************************************************)
(* The texts TLC tries.                                                    *)
(***************************************************************************)
EXTENDS MixedConditions

CONSTANTS MaxTokens, \* bound: length of an arbitrary text
          MaxLeaves  \* bound: conditions of a fully bracketed text

\* Fully bracketed expressions over n conditions.
RECURSIVE Bracketings(_)
Bracketings(n) ==
  IF n = 1 THEN {<<"C">>}
  ELSE UNION {{<<"(">> \o l \o <<op>> \o r \o <<")">> :
                 l \in Bracketings(k), r \in Bracketings(n - k), op \in {"a", "o"}}
              : k \in 1 .. n - 1}

FullyBracketed == UNION {Bracketings(n) : n \in 2 .. MaxLeaves}

\* Any text at all up to MaxTokens, longer ones that are fully bracketed, and these
\* with one token missing.
MCTexts ==
  UNION {[1 .. n -> Tokens] : n \in 1 .. MaxTokens}
    \cup FullyBracketed
    \cup {[i \in 1 .. Len(e) - 1 |-> IF i < k THEN e[i] ELSE e[i + 1]] :
            e \in FullyBracketed, k \in 1 .. 4 * MaxLeaves - 3}
=============================================================================
