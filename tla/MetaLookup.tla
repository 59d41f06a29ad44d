----------------------------- MODULE MetaLookup -----------------------------
(***************************************************************************)
(* Attribute metadata by name.  parse.pl writes the table                  *)
(* sai_metadata_attr_sorted_by_id_name, the build walks it once            *)
(* (meta/saisanitycheck.c, check_attr_sorted_by_id_name), and the library  *)
(* then searches it (meta/saimetadatautils.c,                              *)
(* sai_metadata_get_attr_metadata_by_attr_id_name and its _ext variant,    *)
(* which differ only in the string comparison).                            *)
(*                                                                         *)
(* A name is a number: the order of the numbers is that of strcmp.         *)
(***************************************************************************)
EXTENDS Integers, TLAPS

CONSTANTS Names,   \* the strings that occur, above "AAA"
          MaxCount \* bound: entries of the table

AAA == 0

ASSUME NamesAssumption == Names \subseteq Nat \ {AAA}
ASSUME CountAssumption == MaxCount \in Nat

VARIABLES table, \* the array of attridname, indexed from 0
          count, \* sai_metadata_attr_sorted_by_id_name_count
          phase,
          i,     \* check: the loop index
          prev,  \* check: the last name seen
          attr_id_name, first, last \* search: the argument and the range left

vars == <<table, count, phase, i, prev, attr_id_name, first, last>>

\* Some table, sorted or not: Perl's sort need not agree with strcmp.
Init ==
  /\ count \in 0 .. MaxCount
  /\ table \in [0 .. count - 1 -> Names]
  /\ phase = "check" /\ i = 0 /\ prev = AAA
  /\ attr_id_name = AAA /\ first = 0 /\ last = -1

-----------------------------------------------------------------------------
(* check_attr_sorted_by_id_name *)

CheckName ==
  /\ phase = "check" /\ i < count /\ prev < table[i]
  /\ prev' = table[i] /\ i' = i + 1
  /\ UNCHANGED <<table, count, phase, attr_id_name, first, last>>

NotSorted ==
  /\ phase = "check" /\ i < count /\ table[i] <= prev
  /\ phase' = "failed"
  /\ UNCHANGED <<table, count, i, prev, attr_id_name, first, last>>

EndCheck ==
  /\ phase = "check" /\ i = count
  /\ phase' = "ready"
  /\ UNCHANGED <<table, count, i, prev, attr_id_name, first, last>>

-----------------------------------------------------------------------------
(* sai_metadata_get_attr_metadata_by_attr_id_name.  The operators X_...      *)
(* before X are plausible slips in X, which the properties must notice.      *)

Call(name) ==
  /\ phase \in {"ready", "found", "not_found"}
  /\ attr_id_name' = name /\ first' = 0 /\ last' = count - 1
  /\ phase' = "search"
  /\ UNCHANGED <<table, count, i, prev>>

middle == (first + last) \div 2

\* The range keeps its middle.
GoRight_KeepsMiddle ==
  /\ phase = "search" /\ first <= last /\ table[middle] < attr_id_name
  /\ first' = middle
  /\ UNCHANGED <<table, count, phase, i, prev, attr_id_name, last>>

GoRight ==
  /\ phase = "search" /\ first <= last /\ table[middle] < attr_id_name
  /\ first' = middle + 1
  /\ UNCHANGED <<table, count, phase, i, prev, attr_id_name, last>>

GoLeft ==
  /\ phase = "search" /\ first <= last /\ attr_id_name < table[middle]
  /\ last' = middle - 1
  /\ UNCHANGED <<table, count, phase, i, prev, attr_id_name, first>>

Found ==
  /\ phase = "search" /\ first <= last /\ table[middle] = attr_id_name
  /\ phase' = "found"
  /\ UNCHANGED <<table, count, i, prev, attr_id_name, first, last>>

\* while (first < last)
Exhausted_OneLeft == last <= first

Exhausted == last < first

NotFound ==
  /\ phase = "search" /\ Exhausted
  /\ phase' = "not_found"
  /\ UNCHANGED <<table, count, i, prev, attr_id_name, first, last>>

Failed == phase = "failed" /\ UNCHANGED vars

Next ==
  \/ CheckName \/ NotSorted \/ EndCheck
  \/ \E name \in Names : Call(name)
  \/ GoRight \/ GoLeft \/ Found \/ NotFound
  \/ Failed

Spec == Init /\ [][Next]_vars

\* The library runs on one thread and finishes the search it is in.
FairSpec == Spec /\ WF_vars(GoRight \/ GoLeft \/ Found \/ NotFound)

-----------------------------------------------------------------------------
(* Properties *)

\* A name of the table is found at its place, a name that is not there is reported
\* so: by the two returns of the function, on every table the check accepts.
SearchCorrect ==
  /\ phase = "found" => middle \in 0 .. count - 1 /\ table[middle] = attr_id_name
  /\ phase = "not_found" => \A j \in 0 .. count - 1 : table[j] # attr_id_name

\* The entry compared is one of the table (middle is never count, nor -1).
MiddleInTable ==
  phase = "search" /\ first <= last => middle \in 0 .. count - 1

\* A turn that does not end the search had a range left, and leaves at most half of
\* it: n names take at most as many turns as n has binary digits.
Halves ==
  phase = "search" /\ phase' = "search" =>
    first <= last /\ 2 * (last' - first' + 1) <= last - first + 1

SearchHalves == [][Halves]_vars

\* Every search returns.
SearchEnds == phase = "search" ~> phase # "search"
-----------------------------------------------------------------------------
(***************************************************************************)
(* Proofs: the search by name is correct on every table that passes the    *)
(* build's check, of any size.                                             *)
(***************************************************************************)
TypeOK ==
  /\ count \in Nat /\ table \in [0 .. count - 1 -> Names]
  /\ phase \in {"check", "failed", "ready", "search", "found", "not_found"}
  /\ i \in 0 .. count /\ prev \in Nat
  /\ first \in 0 .. count /\ last \in -1 .. count - 1
  /\ attr_id_name \in Nat

\* The first n names are in strictly ascending order.
Ascending(n) == \A j, k \in 0 .. count - 1 : j < k /\ k < n => table[j] < table[k]

\* The walk of the check: ascending so far, prev the greatest.
Walk ==
  /\ phase # "failed" => Ascending(i)
  /\ phase = "check" => \A j \in 0 .. count - 1 : j < i => table[j] <= prev
  /\ phase \in {"ready", "search", "found", "not_found"} => i = count

\* What lies left of the range is smaller than the name, what lies right is greater.
Narrowed ==
  phase \in {"search", "found", "not_found"} =>
    /\ \A j \in 0 .. count - 1 : j < first => table[j] < attr_id_name
    /\ \A j \in 0 .. count - 1 : last < j => attr_id_name < table[j]

Outcome ==
  /\ phase = "found" => first <= last /\ table[middle] = attr_id_name
  /\ phase = "not_found" => last < first

IInv == TypeOK /\ Walk /\ Narrowed /\ Outcome

\* The middle of a range is in the range.
LEMMA MiddleInRange ==
  ASSUME first \in Nat, last \in Int, first <= last
  PROVE  middle \in Int /\ first <= middle /\ middle <= last
BY DEF middle

\* Nothing has been checked.
LEMMA InitIInv == Init => IInv
BY NamesAssumption, CountAssumption
   DEF Init, IInv, TypeOK, Walk, Ascending, Narrowed, Outcome, AAA

\* Each step of the check and of the search keeps the invariant.
LEMMA NextIInv == IInv /\ [Next]_vars => IInv'
<1> SUFFICES ASSUME IInv, [Next]_vars PROVE IInv'
  OBVIOUS
<1> USE NamesAssumption
<1>0. \A j \in 0 .. count - 1 : table[j] \in Nat
  BY DEF IInv, TypeOK
<1>1. CASE CheckName
  <2>1. /\ phase = "check" /\ phase' = "check" /\ i' = i + 1 /\ prev' = table[i] /\ prev < table[i]
        /\ i \in 0 .. count - 1 /\ UNCHANGED <<table, count, attr_id_name, first, last>>
        /\ count \in Nat /\ prev \in Nat
    BY <1>1 DEF CheckName, IInv, TypeOK
  <2>2. TypeOK'
    BY <2>1, <1>0 DEF IInv, TypeOK
  <2>3. ASSUME NEW j \in 0 .. count - 1, j < i
        PROVE  table[j] < table[i]
    BY <2>1, <2>3, <1>0 DEF IInv, Walk
  <2>4. Walk'
    <3>1. Ascending(i)
      BY <2>1 DEF IInv, Walk
    <3>2. ASSUME NEW j \in 0 .. count - 1, NEW k \in 0 .. count - 1, j < k, k < i + 1
          PROVE  table[j] < table[k]
      <4>1. CASE k < i
        BY <4>1, <3>1, <3>2 DEF Ascending
      <4>2. CASE k = i
        BY <4>2, <2>3, <3>2
      <4> QED  BY <4>1, <4>2, <3>2, <2>1
    <3>3. Ascending(i)'
      BY <2>1, <3>2 DEF Ascending
    <3>4. \A j \in 0 .. count - 1 : j < i + 1 => table[j] <= table[i]
      BY <2>1, <2>3, <1>0
    <3> QED  BY <2>1, <3>3, <3>4 DEF Walk
  <2> QED  BY <2>1, <2>2, <2>4 DEF IInv, Narrowed, Outcome
<1>2. CASE NotSorted
  BY <1>2 DEF NotSorted, IInv, TypeOK, Walk, Ascending, Narrowed, Outcome, middle
<1>3. CASE EndCheck
  BY <1>3 DEF EndCheck, IInv, TypeOK, Walk, Ascending, Narrowed, Outcome, middle
<1>4. ASSUME NEW name \in Names, Call(name) PROVE IInv'
  BY <1>4 DEF Call, IInv, TypeOK, Walk, Ascending, Narrowed, Outcome, middle
<1>5. ASSUME phase = "search", first <= last
      PROVE  /\ middle \in 0 .. count - 1 /\ first <= middle /\ middle <= last
             /\ \A j, k \in 0 .. count - 1 : j < k => table[j] < table[k]
  <2>1. middle \in Int /\ first <= middle /\ middle <= last
    BY <1>5, MiddleInRange DEF IInv, TypeOK
  <2>2. i = count /\ Ascending(i) /\ count \in Nat /\ first \in Nat /\ last \in Int /\ last <= count - 1
    BY <1>5 DEF IInv, Walk, TypeOK
  <2> QED  BY <2>1, <2>2 DEF Ascending
<1>6. CASE GoRight
  <2>1. /\ phase = "search" /\ first <= last /\ table[middle] < attr_id_name /\ first' = middle + 1
        /\ UNCHANGED <<table, count, phase, i, prev, attr_id_name, last>>
    BY <1>6 DEF GoRight
  <2>2. /\ count \in Nat /\ first \in 0 .. count /\ last \in -1 .. count - 1
        /\ attr_id_name \in Nat /\ table[middle] \in Nat /\ middle \in 0 .. count - 1
    BY <2>1, <1>0, <1>5 DEF IInv, TypeOK
  <2>3. ASSUME NEW j \in 0 .. count - 1, j < middle + 1
        PROVE  table[j] < attr_id_name
    BY <2>1, <2>2, <2>3, <1>0, <1>5
  <2>4. TypeOK'
    BY <2>1, <2>2 DEF IInv, TypeOK
  <2>5. Narrowed'
    BY <2>1, <2>3 DEF IInv, Narrowed
  <2> QED  BY <2>1, <2>4, <2>5 DEF IInv, Walk, Ascending, Outcome
<1>7. CASE GoLeft
  <2>1. /\ phase = "search" /\ first <= last /\ attr_id_name < table[middle] /\ last' = middle - 1
        /\ UNCHANGED <<table, count, phase, i, prev, attr_id_name, first>>
    BY <1>7 DEF GoLeft
  <2>2. /\ count \in Nat /\ first \in 0 .. count /\ last \in -1 .. count - 1
        /\ attr_id_name \in Nat /\ table[middle] \in Nat /\ middle \in 0 .. count - 1
    BY <2>1, <1>0, <1>5 DEF IInv, TypeOK
  <2>3. ASSUME NEW j \in 0 .. count - 1, middle - 1 < j
        PROVE  attr_id_name < table[j]
    BY <2>1, <2>2, <2>3, <1>0, <1>5
  <2>4. TypeOK'
    BY <2>1, <2>2 DEF IInv, TypeOK
  <2>5. Narrowed'
    BY <2>1, <2>3 DEF IInv, Narrowed
  <2> QED  BY <2>1, <2>4, <2>5 DEF IInv, Walk, Ascending, Outcome
<1>8. CASE Found
  BY <1>8 DEF Found, IInv, TypeOK, Walk, Ascending, Narrowed, Outcome, middle
<1>9. CASE NotFound
  BY <1>9 DEF NotFound, Exhausted, IInv, TypeOK, Walk, Ascending, Narrowed, Outcome, middle
<1>10. CASE UNCHANGED vars
  BY <1>10 DEF vars, IInv, TypeOK, Walk, Ascending, Narrowed, Outcome, middle
<1> QED
  BY <1>1, <1>2, <1>3, <1>4, <1>6, <1>7, <1>8, <1>9, <1>10 DEF Next, Failed

\* On every table the check accepts, the search returns the entry of the name, and
\* reports its absence only when it is absent.
THEOREM SearchIsCorrect == Spec => []SearchCorrect
<1>1. IInv => SearchCorrect
  <2> SUFFICES ASSUME IInv PROVE SearchCorrect
    OBVIOUS
  <2>1. count \in Nat /\ first \in 0 .. count /\ last \in -1 .. count - 1 /\ attr_id_name \in Nat
        /\ \A j \in 0 .. count - 1 : table[j] \in Nat
    BY NamesAssumption DEF IInv, TypeOK
  <2>2. ASSUME phase = "found"
        PROVE  middle \in 0 .. count - 1 /\ table[middle] = attr_id_name
    <3>1. first <= last /\ table[middle] = attr_id_name
      BY <2>2 DEF IInv, Outcome
    <3>2. middle \in Int /\ first <= middle /\ middle <= last
      BY <2>1, <3>1, MiddleInRange
    <3> QED  BY <2>1, <3>1, <3>2
  <2>3. ASSUME phase = "not_found", NEW j \in 0 .. count - 1
        PROVE  table[j] # attr_id_name
    <3>1. j < first \/ last < j
      BY <2>1, <2>3 DEF IInv, Outcome
    <3> QED  BY <3>1, <2>1, <2>3 DEF IInv, Narrowed
  <2> QED  BY <2>2, <2>3 DEF SearchCorrect
<1> QED  BY <1>1, InitIInv, NextIInv, PTL DEF Spec

\* No search reads outside the table.
THEOREM SearchStaysInTable == Spec => []MiddleInTable
<1>1. IInv => MiddleInTable
  <2> SUFFICES ASSUME IInv, phase = "search", first <= last PROVE middle \in 0 .. count - 1
    BY DEF MiddleInTable
  <2>1. count \in Nat /\ first \in 0 .. count /\ last \in -1 .. count - 1
    BY DEF IInv, TypeOK
  <2>2. middle \in Int /\ first <= middle /\ middle <= last
    BY <2>1, MiddleInRange
  <2> QED  BY <2>1, <2>2
<1> QED  BY <1>1, InitIInv, NextIInv, PTL DEF Spec

\* A turn of the search halves the range, on tables of every size, and the search
\* is over when nothing is left of it: no search goes on for ever.
THEOREM SearchRangeHalves == Spec => SearchHalves
<1>1. IInv /\ [Next]_vars => [Halves]_vars
  <2> SUFFICES ASSUME IInv, Next, phase = "search", phase' = "search"
               PROVE  first <= last /\ 2 * (last' - first' + 1) <= last - first + 1
    BY DEF vars, Halves
  <2>1. first \in Nat /\ last \in Int
    BY DEF IInv, TypeOK
  <2>2. GoRight \/ GoLeft
    BY DEF Next, CheckName, NotSorted, EndCheck, Call, Found, NotFound, Failed
  <2>3. CASE GoRight
    BY <2>1, <2>3 DEF GoRight, middle
  <2>4. CASE GoLeft
    BY <2>1, <2>4 DEF GoLeft, middle
  <2> QED  BY <2>2, <2>3, <2>4
<1> QED  BY <1>1, InitIInv, NextIInv, PTL DEF Spec, SearchHalves
=============================================================================
