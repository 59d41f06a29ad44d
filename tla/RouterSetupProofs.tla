------------------------- MODULE RouterSetupProofs -------------------------
(***************************************************************************)
(* The FDB manager and the program that uses it, for every number of ports *)
(* and every fault.                                                        *)
(*                                                                         *)
(* First FdbMgr, whoever calls it, for every set of keys and every order   *)
(* of calls: the vector lists each key once, the switch holds a static     *)
(* entry for exactly the listed keys that no EraseAll has taken out, and   *)
(* an Add that returns true has had its effect.  What has to be added to   *)
(* make that inductive: the EraseAll loop has taken out every entry it has *)
(* passed (Passed), so that the clear() at its end drops no entry the      *)
(* switch still holds.                                                     *)
(*                                                                         *)
(* Then the program: setup and tear-up are a caller of FdbMgr (SetupSpec   *)
(* implements FdbSpec), so what holds of any caller holds of them, and a   *)
(* tear-up that reports no failure leaves the switch without static        *)
(* entries; and a setup that returns true has completed every port.        *)
(***************************************************************************)
EXTENDS RouterSetup, TLAPS

Passed == \A n \in DOMAIN m_FdbVector : n < it => KeyOf(m_FdbVector[n]) \in lost

InLoop == it > 0 => result.call = "EraseAll"

IInv == FdbTypeOK /\ ListedOnce /\ VectorIsStaticTable /\ Passed /\ InLoop /\ AddTakesEffect

-----------------------------------------------------------------------------
(* An entry matches a key when it is the entry of that key. *)
LEMMA MatchesIsKey ==
  ASSUME NEW e \in FdbEntry, NEW k \in Keys
  PROVE  /\ Matches(e, k) <=> KeyOf(e) = k
         /\ KeyOf(e) \in Keys
BY DEF FdbEntry, Keys, Matches, KeyOf

(* Del's look-up finds the key where it is listed, and nowhere else. *)
LEMMA FoundIsListed ==
  ASSUME FdbTypeOK, NEW k \in Keys
  PROVE  /\ Unknown(k) <=> k \notin Listed
         /\ \A n : Found(n, k) => n \in DOMAIN m_FdbVector /\ KeyOf(m_FdbVector[n]) = k
<1>1. \A n \in DOMAIN m_FdbVector : m_FdbVector[n] \in FdbEntry
  BY DEF FdbTypeOK
<1>2. \A n \in DOMAIN m_FdbVector : Matches(m_FdbVector[n], k) <=> KeyOf(m_FdbVector[n]) = k
  BY <1>1, MatchesIsKey
<1> QED
  BY <1>2 DEF Unknown, Listed, Found

(* An Append lists one more key. *)
LEMMA AppendLists ==
  ASSUME FdbTypeOK, ListedOnce, NEW k \in Keys \ Listed, NEW port \in Ports,
         m_FdbVector' = Append(m_FdbVector, Entry(k, port))
  PROVE  /\ m_FdbVector' \in Seq(FdbEntry)
         /\ Len(m_FdbVector') = Len(m_FdbVector) + 1
         /\ \A n \in DOMAIN m_FdbVector : n \in DOMAIN m_FdbVector'
                                          /\ m_FdbVector'[n] = m_FdbVector[n]
         /\ \A n \in DOMAIN m_FdbVector' :
              \/ n \in DOMAIN m_FdbVector
              \/ /\ n = Len(m_FdbVector) + 1
                 /\ KeyOf(m_FdbVector'[n]) = k /\ m_FdbVector'[n].port_id = port
         /\ Listed' = Listed \cup {k}
         /\ ListedOnce'
<1>1. Entry(k, port) \in FdbEntry /\ KeyOf(Entry(k, port)) = k /\ Entry(k, port).port_id = port
  BY DEF Entry, FdbEntry, KeyOf, Keys
<1>2. /\ m_FdbVector' \in Seq(FdbEntry)
      /\ Len(m_FdbVector') = Len(m_FdbVector) + 1
      /\ \A n \in DOMAIN m_FdbVector : n \in DOMAIN m_FdbVector'
                                       /\ m_FdbVector'[n] = m_FdbVector[n]
      /\ m_FdbVector'[Len(m_FdbVector) + 1] = Entry(k, port)
      /\ DOMAIN m_FdbVector' = DOMAIN m_FdbVector \cup {Len(m_FdbVector) + 1}
  BY <1>1 DEF FdbTypeOK
<1>3. Listed' = Listed \cup {k}
  BY <1>1, <1>2 DEF Listed
<1>4. ListedOnce'
  BY <1>1, <1>2 DEF ListedOnce, Listed
<1> QED
  BY <1>1, <1>2, <1>3, <1>4

(* Taking out one entry of the vector takes out one key. *)
LEMMA RemoveLists ==
  ASSUME FdbTypeOK, ListedOnce, NEW p \in DOMAIN m_FdbVector, m_FdbVector' = RemoveAt(p)
  PROVE  /\ m_FdbVector' \in Seq(FdbEntry)
         /\ Listed' = Listed \ {KeyOf(m_FdbVector[p])}
         /\ ListedOnce'
         /\ \A n \in DOMAIN m_FdbVector' :
              \E j \in DOMAIN m_FdbVector : j # p /\ m_FdbVector'[n] = m_FdbVector[j]
<1> DEFINE len == Len(m_FdbVector)
           from(n) == IF n < p THEN n ELSE n + 1
<1>1. /\ len \in Nat /\ DOMAIN m_FdbVector = 1 .. len /\ p \in 1 .. len
      /\ \A n \in 1 .. len : m_FdbVector[n] \in FdbEntry
  BY DEF FdbTypeOK
<1>2. /\ DOMAIN m_FdbVector' = 1 .. len - 1
      /\ \A n \in 1 .. len - 1 : from(n) \in 1 .. len /\ from(n) # p
                                 /\ m_FdbVector'[n] = m_FdbVector[from(n)]
  BY <1>1 DEF RemoveAt
<1>3. m_FdbVector' \in Seq(FdbEntry)
  BY <1>1, <1>2 DEF RemoveAt
<1>4. \A j \in 1 .. len : j # p => \E n \in 1 .. len - 1 : from(n) = j
  <2> SUFFICES ASSUME NEW j \in 1 .. len, j # p
               PROVE  \E n \in 1 .. len - 1 : from(n) = j
    OBVIOUS
  <2>1. CASE j < p
    <3>1. j \in 1 .. len - 1 /\ from(j) = j
      BY <1>1, <2>1
    <3> QED
      BY <3>1
  <2>2. CASE j > p
    <3>1. j - 1 \in 1 .. len - 1 /\ from(j - 1) = j
      BY <1>1, <2>2
    <3> QED
      BY <3>1
  <2> QED
    BY <1>1, <2>1, <2>2
<1>5. \A n, j \in 1 .. len - 1 : from(n) = from(j) => n = j
  BY <1>1
<1>6. ListedOnce'
  <2> SUFFICES ASSUME NEW n \in 1 .. len - 1, NEW j \in 1 .. len - 1,
                      KeyOf(m_FdbVector'[n]) = KeyOf(m_FdbVector'[j])
               PROVE  n = j
    BY <1>2 DEF ListedOnce
  <2>1. from(n) = from(j)
    BY <1>1, <1>2 DEF ListedOnce
  <2> QED
    BY <1>5, <2>1
<1>7. Listed' = {KeyOf(m_FdbVector'[n]) : n \in 1 .. len - 1}
  BY <1>2 DEF Listed
<1>8. Listed' = Listed \ {KeyOf(m_FdbVector[p])}
  <2>1. ASSUME NEW k \in Listed' PROVE k \in Listed /\ k # KeyOf(m_FdbVector[p])
    <3>1. PICK n \in 1 .. len - 1 : k = KeyOf(m_FdbVector'[n])
      BY <1>7, <2>1
    <3> QED
      BY <1>1, <1>2, <3>1 DEF Listed, ListedOnce
  <2>2. ASSUME NEW k \in Listed, k # KeyOf(m_FdbVector[p]) PROVE k \in Listed'
    <3>1. PICK j \in 1 .. len : k = KeyOf(m_FdbVector[j])
      BY <1>1 DEF Listed
    <3>2. PICK n \in 1 .. len - 1 : from(n) = j
      BY <1>4, <2>2, <3>1
    <3>3. k = KeyOf(m_FdbVector'[n])
      BY <1>2, <3>1, <3>2
    <3> QED
      BY <1>7, <3>3
  <2> QED
    BY <2>1, <2>2
<1> QED
  BY <1>1, <1>2, <1>3, <1>6, <1>8

-----------------------------------------------------------------------------
(* What one call leaves behind. *)

LEMMA AddKeepsInv ==
  ASSUME IInv, NEW k \in Keys, NEW port \in Ports, AddEntry(k, port)
  PROVE  IInv'
<1>1. PICK ok \in BOOLEAN : /\ FdbMgr_Add(k, port, ok)
                           /\ result' = [call |-> "Add", key |-> k, ok |-> ok]
  BY DEF AddEntry
<1>2. it = 0 /\ it' = 0 /\ lost' = lost
  BY <1>1 DEF AddEntry, FdbMgr_Add
<1>3. FdbTypeOK /\ ListedOnce /\ VectorIsStaticTable
  BY DEF IInv
<1>4. Unknown(k) <=> k \notin Listed
  BY <1>3, FoundIsListed
<1>5. CASE UNCHANGED <<fdb, m_FdbVector>> /\ (ok => ~ Unknown(k))
  <2>1. FdbTypeOK' /\ ListedOnce' /\ VectorIsStaticTable'
    BY <1>2, <1>3, <1>5 DEF FdbTypeOK, ListedOnce, VectorIsStaticTable, Static, Listed
  <2>2. AddTakesEffect'
    BY <1>1, <1>2, <1>3, <1>4, <1>5 DEF AddTakesEffect, VectorIsStaticTable, Static
  <2> QED
    BY <1>2, <2>1, <2>2 DEF IInv, Passed, InLoop, FdbTypeOK
<1>6. CASE /\ Unknown(k) /\ ok
           /\ k \notin Static /\ Put(k, "STATIC", port)
           /\ m_FdbVector' = Append(m_FdbVector, Entry(k, port))
  <2>1. /\ m_FdbVector' \in Seq(FdbEntry)
        /\ Len(m_FdbVector') = Len(m_FdbVector) + 1
        /\ \A n \in DOMAIN m_FdbVector : n \in DOMAIN m_FdbVector'
                                         /\ m_FdbVector'[n] = m_FdbVector[n]
        /\ \A n \in DOMAIN m_FdbVector' :
             \/ n \in DOMAIN m_FdbVector
             \/ /\ n = Len(m_FdbVector) + 1
                /\ KeyOf(m_FdbVector'[n]) = k /\ m_FdbVector'[n].port_id = port
        /\ Listed' = Listed \cup {k}
        /\ ListedOnce'
    BY <1>3, <1>4, <1>6, AppendLists
  <2>2. /\ DOMAIN fdb' = DOMAIN fdb \cup {k}
        /\ fdb'[k] = [type |-> "STATIC", port_id |-> port]
        /\ \A x \in DOMAIN fdb \ {k} : fdb'[x] = fdb[x]
        /\ fdb' \in [DOMAIN fdb' -> [type : {"STATIC", "DYNAMIC"}, port_id : Ports]]
    BY <1>3, <1>6 DEF Put, FdbTypeOK
  <2>3. Static' = Static \cup {k}
    BY <1>6, <2>2 DEF Static
  <2>4. FdbTypeOK'
    BY <1>2, <1>3, <2>1, <2>2 DEF FdbTypeOK
  <2>5. VectorIsStaticTable'
    <3>1. Static' = Listed' \ lost'
      BY <1>2, <1>3, <1>4, <1>6, <2>1, <2>3 DEF VectorIsStaticTable, FdbTypeOK
    <3>2. ASSUME NEW n \in DOMAIN m_FdbVector', KeyOf(m_FdbVector'[n]) \in Static'
          PROVE  fdb'[KeyOf(m_FdbVector'[n])].port_id = m_FdbVector'[n].port_id
      <4>1. CASE n \in DOMAIN m_FdbVector
        <5>1. KeyOf(m_FdbVector'[n]) \in Listed /\ KeyOf(m_FdbVector'[n]) # k
          BY <1>4, <1>6, <2>1, <4>1 DEF Listed
        <5>2. KeyOf(m_FdbVector[n]) \in Static /\ m_FdbVector'[n] = m_FdbVector[n]
          BY <2>1, <2>3, <3>2, <4>1, <5>1
        <5> QED
          BY <1>3, <2>2, <4>1, <5>1, <5>2 DEF VectorIsStaticTable, Static
      <4>2. CASE n \notin DOMAIN m_FdbVector
        BY <2>1, <2>2, <4>2
      <4> QED
        BY <4>1, <4>2
    <3> QED
      BY <3>1, <3>2 DEF VectorIsStaticTable
  <2>6. AddTakesEffect'
    BY <1>1, <2>3 DEF AddTakesEffect
  <2>7. Passed' /\ InLoop'
    BY <1>2, <2>4 DEF Passed, InLoop, FdbTypeOK
  <2> QED
    BY <2>1, <2>4, <2>5, <2>6, <2>7 DEF IInv
<1> QED
  BY <1>1, <1>5, <1>6 DEF FdbMgr_Add, create_fdb_entry

LEMMA DelKeepsInv ==
  ASSUME IInv, NEW k \in Keys, DelEntry(k)
  PROVE  IInv'
<1>1. PICK ok \in BOOLEAN : /\ FdbMgr_Del(k, ok)
                           /\ result' = [call |-> "Del", key |-> k, ok |-> ok]
  BY DEF DelEntry
<1>2. it = 0 /\ it' = 0
  BY <1>1 DEF DelEntry, FdbMgr_Del
<1>3. FdbTypeOK /\ ListedOnce /\ VectorIsStaticTable
  BY DEF IInv
<1>4. AddTakesEffect' /\ InLoop'
  BY <1>1, <1>2 DEF AddTakesEffect, InLoop
<1>5. CASE UNCHANGED <<fdb, m_FdbVector, lost>>
  BY <1>2, <1>3, <1>4, <1>5
     DEF IInv, FdbTypeOK, ListedOnce, VectorIsStaticTable, Static, Listed, Passed
<1>6. ASSUME NEW p \in DOMAIN m_FdbVector, Found(p, k), ok,
             k \in DOMAIN fdb, fdb' = [x \in DOMAIN fdb \ {k} |-> fdb[x]],
             m_FdbVector' = RemoveAt(p), lost' = lost \ {k}
      PROVE  IInv'
  <2>1. KeyOf(m_FdbVector[p]) = k
    BY <1>3, <1>6, FoundIsListed
  <2>2. /\ m_FdbVector' \in Seq(FdbEntry)
        /\ Listed' = Listed \ {k}
        /\ ListedOnce'
        /\ \A n \in DOMAIN m_FdbVector' :
             \E j \in DOMAIN m_FdbVector : j # p /\ m_FdbVector'[n] = m_FdbVector[j]
    BY <1>3, <1>6, <2>1, RemoveLists
  <2>3. Static' = Static \ {k} /\ \A x \in Static' : fdb'[x] = fdb[x]
    BY <1>6 DEF Static
  <2>4. FdbTypeOK'
    BY <1>2, <1>3, <1>6, <2>2 DEF FdbTypeOK
  <2>5. VectorIsStaticTable'
    <3>1. Static' = Listed' \ lost'
      BY <1>3, <1>6, <2>2, <2>3 DEF VectorIsStaticTable
    <3>2. ASSUME NEW n \in DOMAIN m_FdbVector', KeyOf(m_FdbVector'[n]) \in Static'
          PROVE  fdb'[KeyOf(m_FdbVector'[n])].port_id = m_FdbVector'[n].port_id
      <4>1. PICK j \in DOMAIN m_FdbVector : m_FdbVector'[n] = m_FdbVector[j]
        BY <2>2
      <4> QED
        BY <1>3, <2>3, <3>2, <4>1 DEF VectorIsStaticTable
    <3> QED
      BY <3>1, <3>2 DEF VectorIsStaticTable
  <2>6. Passed'
    BY <1>2, <2>4 DEF Passed, FdbTypeOK
  <2> QED
    BY <1>4, <2>2, <2>4, <2>5, <2>6 DEF IInv
<1> QED
  BY <1>1, <1>5, <1>6 DEF FdbMgr_Del, remove_fdb_entry

LEMMA EraseKeepsInv ==
  ASSUME IInv, EraseEntry
  PROVE  IInv'
<1>1. it \in DOMAIN m_FdbVector /\ m_FdbVector' = m_FdbVector
  BY DEF EraseEntry
<1>2. PICK ok \in BOOLEAN, k \in {KeyOf(m_FdbVector[it])} :
                           /\ remove_fdb_entry(k, ok)
                           /\ it' = IF ok THEN it + 1 ELSE 0
                           /\ lost' = IF ok THEN lost \cup {k} ELSE lost
                           /\ result' = [call |-> "EraseAll", ok |-> ok]
  BY Zenon DEF EraseEntry
<1>3. FdbTypeOK /\ ListedOnce /\ VectorIsStaticTable /\ Passed
  BY DEF IInv
<1>4. AddTakesEffect' /\ InLoop' /\ ListedOnce' /\ Listed' = Listed
  BY <1>1, <1>2, <1>3 DEF AddTakesEffect, InLoop, ListedOnce, Listed
<1>5. k \in Listed
  BY <1>1 DEF Listed
<1>6. CASE ok
  <2>1. fdb' = [x \in DOMAIN fdb \ {k} |-> fdb[x]] /\ lost' = lost \cup {k} /\ it' = it + 1
    BY <1>2, <1>6 DEF remove_fdb_entry
  <2>2. Static' = Static \ {k} /\ \A x \in Static' : fdb'[x] = fdb[x]
    BY <2>1 DEF Static
  <2>3. FdbTypeOK'
    BY <1>1, <1>3, <1>4, <1>5, <2>1 DEF FdbTypeOK
  <2>4. VectorIsStaticTable'
    BY <1>1, <1>3, <1>4, <2>1, <2>2 DEF VectorIsStaticTable
  <2>5. Passed'
    BY <1>1, <1>3, <2>1 DEF Passed, FdbTypeOK
  <2> QED
    BY <1>4, <2>3, <2>4, <2>5 DEF IInv
<1>7. CASE ~ ok
  <2>1. UNCHANGED <<fdb, lost>> /\ it' = 0
    BY <1>2, <1>7 DEF remove_fdb_entry
  <2>2. FdbTypeOK' /\ VectorIsStaticTable'
    BY <1>1, <1>3, <1>4, <2>1 DEF FdbTypeOK, VectorIsStaticTable, Static
  <2>3. Passed'
    BY <1>1, <1>3, <2>1 DEF Passed, FdbTypeOK
  <2> QED
    BY <1>4, <2>2, <2>3 DEF IInv
<1> QED
  BY <1>6, <1>7

(* The clear() at the end of the loop: every entry has been passed. *)
LEMMA EndKeepsInv ==
  ASSUME IInv, EndEraseAll
  PROVE  IInv' /\ Static' = {}
<1>1. FdbTypeOK /\ VectorIsStaticTable /\ Passed /\ InLoop
  BY DEF IInv
<1>2. /\ it = Len(m_FdbVector) + 1 /\ it' = 0 /\ m_FdbVector' = <<>> /\ lost' = {}
      /\ UNCHANGED <<fdb, result>>
  BY DEF EndEraseAll
<1>3. Listed \subseteq lost
  BY <1>1, <1>2 DEF Passed, Listed, FdbTypeOK
<1>4. Static' = {}
  BY <1>1, <1>2, <1>3 DEF VectorIsStaticTable, Static
<1>5. Listed' = {}
  BY <1>2 DEF Listed
<1>6. FdbTypeOK' /\ ListedOnce' /\ VectorIsStaticTable' /\ Passed'
  BY <1>1, <1>2, <1>4, <1>5 DEF FdbTypeOK, ListedOnce, VectorIsStaticTable, Passed
<1>7. AddTakesEffect' /\ InLoop'
  BY <1>1, <1>2 DEF AddTakesEffect, InLoop, FdbTypeOK
<1> QED
  BY <1>4, <1>6, <1>7 DEF IInv

(* The switch learns and ages: no static entry is touched. *)
LEMMA SwitchKeepsInv ==
  ASSUME IInv, NEW k \in Keys, NEW port \in Ports, Learn(k, port) \/ Age(k)
  PROVE  IInv'
<1>1. UNCHANGED <<m_FdbVector, it, lost, result>>
  BY DEF Learn, Age
<1>2. FdbTypeOK /\ ListedOnce /\ VectorIsStaticTable /\ Passed /\ InLoop /\ AddTakesEffect
  BY DEF IInv
<1>3. Static' = Static /\ \A x \in Static : fdb'[x] = fdb[x]
  BY DEF Learn, Age, Put, Static
<1>4. FdbTypeOK'
  BY <1>1, <1>2 DEF Learn, Age, Put, FdbTypeOK, Listed
<1>5. VectorIsStaticTable'
  BY <1>1, <1>2, <1>3 DEF VectorIsStaticTable, Listed
<1> QED
  BY <1>1, <1>2, <1>3, <1>4, <1>5 DEF IInv, ListedOnce, Passed, InLoop, AddTakesEffect

-----------------------------------------------------------------------------
LEMMA InitInv == FdbInit => IInv
BY DEF FdbInit, IInv, FdbTypeOK, ListedOnce, VectorIsStaticTable, Static, Listed,
       Passed, InLoop, AddTakesEffect

LEMMA BeginKeepsInv ==
  ASSUME IInv, BeginEraseAll
  PROVE  IInv'
BY DEF IInv, BeginEraseAll, FdbTypeOK, ListedOnce, VectorIsStaticTable, Static, Listed,
       Passed, InLoop, AddTakesEffect

LEMMA StepKeepsInv ==
  ASSUME IInv, [FdbNext]_fdbVars
  PROVE  IInv'
<1>1. ASSUME NEW k \in Keys, NEW port \in Ports, AddEntry(k, port) PROVE IInv'
  BY <1>1, AddKeepsInv
<1>2. ASSUME NEW k \in Keys, NEW port \in Ports, Learn(k, port) PROVE IInv'
  BY <1>2, SwitchKeepsInv
<1>3. ASSUME NEW k \in Keys, DelEntry(k) PROVE IInv'
  BY <1>3, DelKeepsInv
<1>4. ASSUME NEW k \in Keys, Age(k) PROVE IInv'
  BY <1>4, SwitchKeepsInv DEF Age, IInv, FdbTypeOK
<1>5. CASE BeginEraseAll
  BY <1>5, BeginKeepsInv
<1>6. CASE EraseEntry
  BY <1>6, EraseKeepsInv
<1>7. CASE EndEraseAll
  BY <1>7, EndKeepsInv
<1>8. CASE UNCHANGED fdbVars
  BY <1>8 DEF fdbVars, IInv, FdbTypeOK, ListedOnce, VectorIsStaticTable, Static, Listed,
              Passed, InLoop, AddTakesEffect
<1> QED
  BY <1>1, <1>2, <1>3, <1>4, <1>5, <1>6, <1>7, <1>8 DEF FdbNext

(* The inductive invariant, for every set of keys, ports and faults. *)
THEOREM FdbInvariant == FdbSpec => []IInv
BY InitInv, StepKeepsInv, PTL DEF FdbSpec

(* The types of the vector, of the loop and of the FDB. *)
THEOREM FdbTypesCorrect == FdbSpec => []FdbTypeOK
BY FdbInvariant, PTL DEF IInv

(* The vector lists every key once, for all keys, ports and faults. *)
THEOREM KeysListedOnce == FdbSpec => []ListedOnce
BY FdbInvariant, PTL DEF IInv

(* No static entry leaks and none is lost from sight, whatever call fails. *)
THEOREM NoEntryLeaks == FdbSpec => []VectorIsStaticTable
BY FdbInvariant, PTL DEF IInv

(* A successful Add has put a static entry into the switch. *)
THEOREM SuccessfulAddTakesEffect == FdbSpec => []AddTakesEffect
BY FdbInvariant, PTL DEF IInv

-----------------------------------------------------------------------------
(* setup and tear-up *)

\* Where the program is, as far as the FDB is concerned.
Control ==
  /\ port_count \in PortCounts /\ i \in Nat
  /\ pc = "erasing" <=> it > 0

SetupInv == IInv /\ Control /\ TearupEmptiesFdb

(* The addresses the program uses are keys of the FDB. *)
LEMMA DstMacIsKey ==
  ASSUME port_count \in PortCounts, i \in Nat, i < port_count
  PROVE  DstMac(i) \in Keys /\ i \in Ports
<1>1. port_count \in Nat
  BY AddressAssumption
<1>2. i \in 0 .. port_count - 1
  BY <1>1
<1> QED
  BY <1>2, AddressAssumption DEF DstMac, Keys

LEMMA TearupKeyIsKey ==
  ASSUME port_count \in PortCounts
  PROVE  (IF port_count > 1 THEN DstMac(1) ELSE [macAddr |-> NoMac, vlan_id |-> VlanId(1)]) \in Keys
<1>1. port_count \in Nat
  BY AddressAssumption
<1>2. CASE port_count > 1
  <2>1. 1 \in 0 .. port_count - 1
    BY <1>1, <1>2
  <2> QED
    BY <1>2, <2>1, AddressAssumption DEF DstMac, Keys
<1>3. CASE ~ (port_count > 1)
  BY <1>3, TearupAssumption DEF Keys
<1> QED
  BY <1>2, <1>3

(* Every step of setup and tear-up is a call of FdbMgr, a turn of its loop, or *)
(* does not concern it.                                                        *)
LEMMA StepIsFdbStep ==
  ASSUME Control, [SetupNext]_setupVars
  PROVE  [FdbNext]_fdbVars
<1>1. CASE AddFdbEntry
  <2>1. CASE i < port_count /\ AddEntry(DstMac(i), i)
    BY <2>1, DstMacIsKey DEF Control, FdbNext
  <2>2. CASE UNCHANGED fdbVars
    BY <2>2
  <2> QED
    BY <1>1, <2>1, <2>2 DEF AddFdbEntry
<1>2. CASE TearupDel
  BY <1>2, TearupKeyIsKey DEF TearupDel, Control, FdbNext
<1>3. CASE TearupErase
  BY <1>3 DEF TearupErase, FdbNext
<1>4. CASE TearupErasing
  BY <1>4 DEF TearupErasing, FdbNext
<1>5. CASE UNCHANGED fdbVars
  BY <1>5
<1> QED
  BY <1>1, <1>2, <1>3, <1>4, <1>5
     DEF SetupNext, RemoveVlanMembers, PrepareSwitch, MakeAddress, create_vlan_member,
         set_port_attribute, create_router_interface, create_route, create_hostif, Fails,
         Ended, setupVars

LEMMA StepKeepsControl ==
  ASSUME IInv, Control, [SetupNext]_setupVars
  PROVE  Control'
<1>1. port_count' = port_count
  BY DEF SetupNext, RemoveVlanMembers, PrepareSwitch, MakeAddress, create_vlan_member,
         set_port_attribute, create_router_interface, create_route, create_hostif, Fails,
         AddFdbEntry, TearupDel, TearupErase, TearupErasing, Ended, setupVars
<1>2. i' \in Nat
  BY DEF Control, SetupNext, RemoveVlanMembers, PrepareSwitch, MakeAddress, create_vlan_member,
         set_port_attribute, create_router_interface, create_route, create_hostif, Fails, Goto,
         AddFdbEntry, TearupDel, TearupErase, TearupErasing, Ended, setupVars
<1>3. it \in Nat
  BY DEF IInv, FdbTypeOK
<1>4. pc' = "erasing" <=> it' > 0
  <2>1. CASE AddFdbEntry
    BY <1>3, <2>1 DEF AddFdbEntry, AddEntry, FdbMgr_Add, Control, fdbVars
  <2>2. CASE TearupDel
    BY <1>3, <2>2 DEF TearupDel, DelEntry, FdbMgr_Del, Control
  <2>3. CASE TearupErase
    BY <2>3 DEF TearupErase, BeginEraseAll
  <2>4. CASE TearupErasing
    <3>1. it' \in Nat
      BY <1>3, <2>4 DEF TearupErasing, EraseEntry, EndEraseAll
    <3> QED
      BY <2>4, <3>1 DEF TearupErasing
  <2>5. CASE UNCHANGED <<it, pc>>
    BY <2>5 DEF Control
  <2>6. CASE UNCHANGED it /\ pc # "erasing" /\ pc' # "erasing"
    BY <2>6 DEF Control
  <2> QED
    BY <2>1, <2>2, <2>3, <2>4, <2>5, <2>6
       DEF SetupNext, RemoveVlanMembers, PrepareSwitch, MakeAddress, create_vlan_member,
           set_port_attribute, create_router_interface, create_route, create_hostif, Fails,
           Goto, Ended, setupVars, fdbVars
<1> QED
  BY <1>1, <1>2, <1>4 DEF Control

(* The loop of the tear-up ends in a clear(), or with result FALSE. *)
LEMMA StepEmptiesFdb ==
  ASSUME IInv, Control, TearupEmptiesFdb, [SetupNext]_setupVars
  PROVE  TearupEmptiesFdb'
<1> SUFFICES ASSUME pc' = "shutdown", result'.ok
             PROVE  Static' = {} /\ m_FdbVector' = <<>>
  BY DEF TearupEmptiesFdb
<1>1. CASE TearupErasing
  <2>1. CASE EndEraseAll
    BY <2>1, EndKeepsInv DEF EndEraseAll
  <2>2. CASE EraseEntry
    <3>1. it' = 0
      BY <1>1 DEF TearupErasing
    <3>2. PICK ok \in BOOLEAN : /\ it' = IF ok THEN it + 1 ELSE 0
                                /\ result' = [call |-> "EraseAll", ok |-> ok]
      BY <2>2, Zenon DEF EraseEntry
    <3>3. it \in Nat /\ ok
      BY <3>2 DEF IInv, FdbTypeOK
    <3> QED
      BY <3>1, <3>2, <3>3
  <2> QED
    BY <1>1, <2>1, <2>2 DEF TearupErasing
<1>2. CASE UNCHANGED <<fdbVars, pc>>
  BY <1>2 DEF TearupEmptiesFdb, fdbVars, Static
<1> QED
  BY <1>1, <1>2
     DEF SetupNext, RemoveVlanMembers, PrepareSwitch, MakeAddress, create_vlan_member,
         set_port_attribute, create_router_interface, create_route, create_hostif, Fails,
         Goto, AddFdbEntry, TearupDel, TearupErase, Ended, setupVars

-----------------------------------------------------------------------------
THEOREM SetupInvariant == SetupSpec => []SetupInv
<1>1. SetupInit => SetupInv
  <2> SUFFICES ASSUME SetupInit PROVE SetupInv
    OBVIOUS
  <2>1. IInv
    BY InitInv DEF SetupInit
  <2> QED
    BY <2>1 DEF SetupInit, FdbInit, SetupInv, Control, TearupEmptiesFdb
<1>2. SetupInv /\ [SetupNext]_setupVars => SetupInv'
  BY StepIsFdbStep, StepKeepsInv, StepKeepsControl, StepEmptiesFdb DEF SetupInv
<1> QED
  BY <1>1, <1>2, PTL DEF SetupSpec

(* basic_router.cpp calls FdbMgr as FdbSpec allows: every property of FdbSpec is one *)
(* of the program.                                                                   *)
THEOREM SetupImplementsFdbMgr == SetupSpec => FdbSpec
<1>1. SetupInit => FdbInit
  BY DEF SetupInit
<1>2. SetupInv /\ [SetupNext]_setupVars => [FdbNext]_fdbVars
  BY StepIsFdbStep DEF SetupInv
<1> QED
  BY <1>1, <1>2, SetupInvariant, PTL DEF SetupSpec, FdbSpec

(* A tear-up whose EraseAll reports no failure leaves no static entry, however far *)
(* setup came and whatever failed before.                                          *)
THEOREM TearupLeavesNothing == SetupSpec => []TearupEmptiesFdb
BY SetupInvariant, PTL DEF SetupInv

-----------------------------------------------------------------------------
(* Setup: how far the port n has come when the program is at pc, i. *)
MemberDone(n) == members[n] \ {1} = {VlanId(n)}
PvidDone(n)   == pvid[n] = VlanId(n)
RifDone(n)    == <<VlanId(n), LastByte(n)>> \in rifs
TrapDone(n)   == <<Octet(n), "TRAP">> \in routes
DropDone(n)   == <<Octet(n), "DROP">> \in routes
PortDone(n) ==
  MemberDone(n) /\ PvidDone(n) /\ RifDone(n) /\ TrapDone(n) /\ DropDone(n) /\ n \in hostifs

PortLoop == {"set_port_attribute", "create_router_interface", "create_route",
             "create_subnet_route", "create_hostif"}
BeforePorts == {"vlan_members", "switch", "addresses"}
AllPorts == 0 .. port_count - 1

\* The part of the turn for the port i that is behind the program.
TurnDone ==
  pc \in PortLoop =>
    /\ i < port_count /\ MemberDone(i)
    /\ pc # "set_port_attribute" => PvidDone(i)
    /\ pc \in {"create_route", "create_subnet_route", "create_hostif"} => RifDone(i)
    /\ pc \in {"create_subnet_route", "create_hostif"} => TrapDone(i)
    /\ pc = "create_hostif" => DropDone(i)

PortsProgress ==
  /\ DOMAIN members = AllPorts /\ DOMAIN pvid = AllPorts
  /\ pc \in BeforePorts => \A n \in AllPorts : members[n] = {1}
  /\ pc \in PortLoop \cup {"create_vlan_member"} =>
       /\ i <= port_count
       /\ \A n \in AllPorts : n < i => PortDone(n)
       /\ \A n \in AllPorts : n > i \/ (n = i /\ pc = "create_vlan_member") => members[n] = {1}
  /\ TurnDone
  /\ pc \in {"fdb", "true"} => \A n \in AllPorts : PortDone(n)

\* The entries of the ports before i are in the FDB, and no other is.
FdbProgress ==
  /\ pc \in BeforePorts \cup PortLoop \cup {"create_vlan_member"} => m_FdbVector = <<>>
  /\ pc \in {"fdb", "true"} =>
       /\ i <= port_count
       /\ Listed \subseteq {DstMac(n) : n \in 0 .. i - 1}
       /\ \A n \in AllPorts : n < i => DstMac(n) \in Static /\ fdb[DstMac(n)].port_id = n
  /\ pc = "true" => i = port_count

Progress == PortsProgress /\ FdbProgress

LEMMA ProgressCompletes ==
  ASSUME Control, Progress
  PROVE  SetupComplete
<1> SUFFICES ASSUME pc = "true", NEW n \in 0 .. port_count - 1
             PROVE  /\ PortDone(n)
                    /\ DstMac(n) \in Static /\ fdb[DstMac(n)].port_id = n
  BY DEF SetupComplete, PortDone, MemberDone, PvidDone, RifDone, TrapDone, DropDone
<1>1. port_count \in Nat
  BY AddressAssumption DEF Control
<1> QED
  BY <1>1 DEF Progress, PortsProgress, FdbProgress, AllPorts

(* The steps of setup before and within the loop over the ports. *)
LEMMA PortsStep ==
  ASSUME Control, PortsProgress, [SetupNext]_setupVars
  PROVE  PortsProgress'
<1>0. port_count \in Nat /\ i \in Nat
  BY AddressAssumption DEF Control
<1>1. CASE RemoveVlanMembers \/ PrepareSwitch \/ MakeAddress
  BY <1>0, <1>1
     DEF RemoveVlanMembers, PrepareSwitch, MakeAddress, Goto, Fails, asic, PortsProgress,
         TurnDone, BeforePorts, PortLoop, AllPorts
<1>2. CASE create_vlan_member
  <2>1. CASE Fails("create_vlan_member")
    BY <2>1 DEF Fails, asic, PortsProgress, TurnDone, BeforePorts, PortLoop, AllPorts
  <2>2. CASE /\ i < port_count /\ pc' = "set_port_attribute" /\ pc = "create_vlan_member"
             /\ members' = [members EXCEPT ![i] = @ \cup {VlanId(i)}]
             /\ UNCHANGED <<fdbVars, port_count, i, pvid, rifs, routes, hostifs>>
    <3>1. i \in AllPorts /\ members[i] = {1}
      BY <1>0, <2>2 DEF PortsProgress, AllPorts
    <3>2. /\ DOMAIN members' = AllPorts /\ members'[i] = {1} \cup {VlanId(i)}
          /\ \A n \in AllPorts : n # i => members'[n] = members[n]
      BY <2>2, <3>1 DEF PortsProgress
    <3>3. VlanId(i) # 1
      BY <1>0 DEF VlanId, PANEL_PORT_VLAN_START
    <3>4. MemberDone(i)'
      BY <2>2, <3>2, <3>3 DEF MemberDone, VlanId
    <3>5. \A n \in AllPorts : n < i => PortDone(n)'
      BY <1>0, <2>2, <3>2
         DEF PortsProgress, PortDone, MemberDone, PvidDone, RifDone, TrapDone, DropDone,
             AllPorts
    <3>6. \A n \in AllPorts : n > i => members'[n] = {1}
      BY <1>0, <2>2, <3>2 DEF PortsProgress, AllPorts
    <3> QED
      BY <1>0, <2>2, <3>2, <3>4, <3>5, <3>6
         DEF PortsProgress, TurnDone, BeforePorts, PortLoop, AllPorts
  <2>3. CASE /\ i = port_count /\ Goto("fdb") /\ UNCHANGED <<fdbVars, port_count, asic>>
             /\ pc = "create_vlan_member"
    BY <1>0, <2>3
       DEF Goto, asic, PortsProgress, TurnDone, BeforePorts, PortLoop, AllPorts,
           PortDone, MemberDone, PvidDone, RifDone, TrapDone, DropDone
  <2> QED
    BY <1>2, <2>1, <2>2, <2>3 DEF create_vlan_member
\* The other calls of a turn add to what is there and move on.
<1>3. ASSUME i < port_count, pc \in PortLoop,
             UNCHANGED <<port_count, members>>, DOMAIN pvid' = DOMAIN pvid,
             \A n \in AllPorts : n # i => pvid'[n] = pvid[n],
             rifs \subseteq rifs', routes \subseteq routes', hostifs \subseteq hostifs'
      PROVE  /\ DOMAIN members' = AllPorts /\ DOMAIN pvid' = AllPorts
             /\ \A n \in AllPorts : n < i => PortDone(n)'
             /\ \A n \in AllPorts : n > i => members'[n] = {1}
             /\ \A n \in AllPorts : n = i => MemberDone(n)'
             /\ i \in AllPorts
  BY <1>0, <1>3
     DEF PortsProgress, TurnDone, PortLoop, AllPorts,
         PortDone, MemberDone, PvidDone, RifDone, TrapDone, DropDone
<1>4. ASSUME pc' = "false", UNCHANGED <<fdbVars, port_count, i, asic>>
      PROVE  PortsProgress'
  BY <1>4 DEF asic, PortsProgress, TurnDone, BeforePorts, PortLoop, AllPorts
<1>5. CASE set_port_attribute
  <2>1. CASE Fails("set_port_attribute")
    BY <1>4, <2>1 DEF Fails
  <2>2. CASE /\ pc' = "create_router_interface"
             /\ pvid' = [pvid EXCEPT ![i] = VlanId(i)]
             /\ UNCHANGED <<fdbVars, port_count, i, members, rifs, routes, hostifs>>
    <3>1. i < port_count /\ pc \in PortLoop /\ pc = "set_port_attribute"
      BY <1>5 DEF set_port_attribute, PortLoop, PortsProgress, TurnDone
    <3>2. PvidDone(i)'
      BY <1>0, <2>2, <3>1 DEF PvidDone, PortsProgress, AllPorts
    <3> QED
      BY <1>0, <1>3, <2>2, <3>1, <3>2
         DEF PortsProgress, TurnDone, BeforePorts, PortLoop, AllPorts
  <2> QED
    BY <1>5, <2>1, <2>2 DEF set_port_attribute
<1>6. CASE create_router_interface
  <2>1. CASE Fails("create_router_interface")
    BY <1>4, <2>1 DEF Fails
  <2>2. CASE /\ pc' = "create_route"
             /\ rifs' = rifs \cup {<<VlanId(i), LastByte(i)>>}
             /\ UNCHANGED <<fdbVars, port_count, i, members, pvid, routes, hostifs>>
    <3>1. /\ i < port_count /\ pc \in PortLoop /\ pc = "create_router_interface" /\ PvidDone(i)
      BY <1>6 DEF create_router_interface, PortLoop, PortsProgress, TurnDone
    <3>2. PvidDone(i)' /\ RifDone(i)'
      BY <2>2, <3>1 DEF PvidDone, RifDone
    <3> QED
      BY <1>0, <1>3, <2>2, <3>1, <3>2
         DEF PortsProgress, TurnDone, BeforePorts, PortLoop, AllPorts
  <2> QED
    BY <1>6, <2>1, <2>2 DEF create_router_interface
<1>7. CASE create_route
  <2>1. CASE Fails("create_route")
    BY <1>4, <2>1 DEF Fails
  <2>2. CASE /\ pc = "create_route" /\ pc' = "create_subnet_route"
             /\ routes' = routes \cup {<<Octet(i), "TRAP">>}
             /\ UNCHANGED <<fdbVars, port_count, i, members, pvid, rifs, hostifs>>
    <3>1. i < port_count /\ pc \in PortLoop /\ PvidDone(i) /\ RifDone(i)
      BY <2>2 DEF PortLoop, PortsProgress, TurnDone
    <3>2. PvidDone(i)' /\ RifDone(i)' /\ TrapDone(i)'
      BY <2>2, <3>1 DEF PvidDone, RifDone, TrapDone
    <3> QED
      BY <1>0, <1>3, <2>2, <3>1, <3>2
         DEF PortsProgress, TurnDone, BeforePorts, PortLoop, AllPorts
  <2>3. CASE /\ pc = "create_subnet_route" /\ pc' = "create_hostif"
             /\ routes' = routes \cup {<<Octet(i), "DROP">>}
             /\ UNCHANGED <<fdbVars, port_count, i, members, pvid, rifs, hostifs>>
    <3>1. i < port_count /\ pc \in PortLoop /\ PvidDone(i) /\ RifDone(i) /\ TrapDone(i)
      BY <2>3 DEF PortLoop, PortsProgress, TurnDone
    <3>2. PvidDone(i)' /\ RifDone(i)' /\ TrapDone(i)' /\ DropDone(i)'
      BY <2>3, <3>1 DEF PvidDone, RifDone, TrapDone, DropDone
    <3> QED
      BY <1>0, <1>3, <2>3, <3>1, <3>2
         DEF PortsProgress, TurnDone, BeforePorts, PortLoop, AllPorts
  <2> QED
    BY <1>7, <2>1, <2>2, <2>3 DEF create_route
<1>8. CASE create_hostif
  <2>1. CASE Fails("create_hostif")
    BY <1>4, <2>1 DEF Fails
  <2>2. CASE /\ pc' = "create_vlan_member" /\ i' = i + 1
             /\ hostifs' = hostifs \cup {i}
             /\ UNCHANGED <<fdbVars, port_count, members, pvid, rifs, routes>>
    <3>1. /\ i < port_count /\ pc \in PortLoop /\ PvidDone(i) /\ RifDone(i)
          /\ TrapDone(i) /\ DropDone(i)
      BY <1>8 DEF create_hostif, PortLoop, PortsProgress, TurnDone
    <3>2. \A n \in AllPorts : n = i => PortDone(n)'
      <4> SUFFICES ASSUME NEW n \in AllPorts, n = i
                   PROVE  PortDone(n)'
        OBVIOUS
      <4>1. MemberDone(n)'
        BY <1>3, <2>2, <3>1
      <4> QED
        BY <2>2, <3>1, <4>1 DEF PortDone, PvidDone, RifDone, TrapDone, DropDone
    <3>3. /\ DOMAIN members' = AllPorts /\ DOMAIN pvid' = AllPorts
          /\ \A n \in AllPorts : n < i => PortDone(n)'
          /\ \A n \in AllPorts : n > i => members'[n] = {1}
      BY <1>3, <2>2, <3>1
    <3>4. \A n \in AllPorts : n < i + 1 => PortDone(n)'
      <4> SUFFICES ASSUME NEW n \in AllPorts, n < i + 1
                   PROVE  PortDone(n)'
        OBVIOUS
      <4>1. n < i \/ n = i
        BY <1>0 DEF AllPorts
      <4> QED
        BY <3>2, <3>3, <4>1
    <3>5. \A n \in AllPorts : n > i + 1 \/ n = i + 1 => members'[n] = {1}
      BY <1>0, <3>3 DEF AllPorts
    <3> QED
      BY <1>0, <2>2, <3>1, <3>3, <3>4, <3>5
         DEF PortsProgress, TurnDone, BeforePorts, PortLoop, AllPorts
  <2> QED
    BY <1>8, <2>1, <2>2 DEF create_hostif
<1>9. CASE /\ UNCHANGED <<port_count, asic>>
           /\ pc' \notin BeforePorts \cup PortLoop \cup {"create_vlan_member"}
           /\ pc' \in {"fdb", "true"} => pc \in {"fdb", "true"}
  BY <1>9
     DEF asic, PortsProgress, TurnDone, AllPorts,
         PortDone, MemberDone, PvidDone, RifDone, TrapDone, DropDone
<1>10. CASE UNCHANGED setupVars
  BY <1>10
     DEF setupVars, asic, PortsProgress, TurnDone, AllPorts,
         PortDone, MemberDone, PvidDone, RifDone, TrapDone, DropDone
<1>11. CASE AddFdbEntry \/ TearupDel \/ TearupErase \/ TearupErasing
  BY <1>9, <1>11
     DEF AddFdbEntry, TearupDel, TearupErase, TearupErasing, BeforePorts, PortLoop
<1> QED
  BY <1>1, <1>2, <1>5, <1>6, <1>7, <1>8, <1>10, <1>11 DEF SetupNext, Ended

(* The last loop of setup: the ports have vlans, hence keys, of their own. *)
LEMMA FdbStep ==
  ASSUME IInv, Control, PortsProgress, FdbProgress, [SetupNext]_setupVars
  PROVE  FdbProgress'
<1>0. port_count \in Nat /\ i \in Nat
  BY AddressAssumption DEF Control
<1>1. CASE /\ UNCHANGED <<fdbVars, port_count>> /\ pc' \notin {"fdb", "true"}
           /\ pc' \in BeforePorts \cup PortLoop \cup {"create_vlan_member"} =>
                pc \in BeforePorts \cup PortLoop \cup {"create_vlan_member"}
  BY <1>1 DEF fdbVars, FdbProgress
<1>2. CASE RemoveVlanMembers \/ PrepareSwitch \/ MakeAddress \/ set_port_attribute
           \/ create_router_interface \/ create_route \/ create_hostif
  BY <1>1, <1>2
     DEF RemoveVlanMembers, PrepareSwitch, MakeAddress, set_port_attribute,
         create_router_interface, create_route, create_hostif, Fails, Goto,
         BeforePorts, PortLoop
<1>3. CASE create_vlan_member
  <2>1. CASE Goto("fdb") /\ UNCHANGED <<fdbVars, port_count, asic>>
    <3>1. m_FdbVector' = <<>> /\ Listed' = {}
      BY <1>3, <2>1 DEF create_vlan_member, FdbProgress, fdbVars, Listed
    <3> QED
      BY <1>0, <2>1, <3>1 DEF Goto, FdbProgress, AllPorts, BeforePorts, PortLoop
  <2>2. CASE pc' # "fdb"
    BY <1>1, <1>3, <2>2 DEF create_vlan_member, Fails, Goto, BeforePorts, PortLoop
  <2> QED
    BY <1>3, <2>1, <2>2 DEF create_vlan_member, Goto, Fails
<1>4. CASE AddFdbEntry
  <2>1. CASE i < port_count /\ AddEntry(DstMac(i), i) /\ result'.ok /\ i' = i + 1 /\ UNCHANGED pc
    <3>1. DstMac(i) \in Keys /\ i \in Ports
      BY <2>1, DstMacIsKey DEF Control
    <3>2. \A n \in AllPorts : n # i => DstMac(n) # DstMac(i)
      BY <1>0 DEF DstMac, VlanId, PANEL_PORT_VLAN_START, AllPorts
    <3>3. Listed \subseteq {DstMac(n) : n \in 0 .. i - 1}
      BY <1>4 DEF AddFdbEntry, FdbProgress
    <3>4. DstMac(i) \notin Listed
      BY <1>0, <2>1, <3>2, <3>3 DEF AllPorts
    <3>5. Unknown(DstMac(i))
      BY <3>1, <3>4, FoundIsListed DEF IInv
    <3>6. /\ DstMac(i) \notin Static
          /\ Put(DstMac(i), "STATIC", i)
          /\ m_FdbVector' = Append(m_FdbVector, Entry(DstMac(i), i))
      <4>1. PICK ok \in BOOLEAN :
              /\ FdbMgr_Add(DstMac(i), i, ok)
              /\ result' = [call |-> "Add", key |-> DstMac(i), ok |-> ok]
        BY <2>1, Zenon DEF AddEntry
      <4>2. ok
        BY <2>1, <4>1
      <4> QED
        BY <3>5, <4>1, <4>2 DEF FdbMgr_Add, create_fdb_entry
    <3>7. Listed' = Listed \cup {DstMac(i)}
      BY <3>1, <3>4, <3>6, AppendLists DEF IInv
    <3>8. /\ DstMac(i) \in Static' /\ fdb'[DstMac(i)].port_id = i
          /\ \A k \in Static : k # DstMac(i) /\ k \in Static' /\ fdb'[k] = fdb[k]
      BY <3>6 DEF Put, Static
    <3>9. Listed' \subseteq {DstMac(n) : n \in 0 .. i}
      BY <1>0, <3>3, <3>7
    <3>10. ASSUME NEW n \in AllPorts, n < i + 1
           PROVE  DstMac(n) \in Static' /\ fdb'[DstMac(n)].port_id = n
      <4>1. CASE n = i
        BY <3>8, <4>1
      <4>2. CASE n < i
        BY <1>4, <3>8, <4>2 DEF AddFdbEntry, FdbProgress
      <4> QED
        BY <1>0, <3>10, <4>1, <4>2 DEF AllPorts
    <3>11. pc = "fdb" /\ UNCHANGED port_count
      BY <1>4 DEF AddFdbEntry
    <3>12. i + 1 <= port_count /\ (i + 1) - 1 = i
      BY <1>0, <2>1
    <3> QED
      BY <2>1, <3>9, <3>10, <3>11, <3>12 DEF FdbProgress, BeforePorts, PortLoop, AllPorts
  <2>2. CASE pc' = "false"
    BY <2>2 DEF FdbProgress, BeforePorts, PortLoop
  <2>3. CASE i = port_count /\ pc' = "true" /\ UNCHANGED <<fdbVars, i>>
    BY <1>4, <2>3 DEF AddFdbEntry, fdbVars, FdbProgress, BeforePorts, PortLoop, AllPorts,
                      Listed, Static
  <2> QED
    BY <1>4, <2>1, <2>2, <2>3 DEF AddFdbEntry
<1>5. CASE TearupDel \/ TearupErase \/ TearupErasing
  BY <1>5 DEF TearupDel, TearupErase, TearupErasing, FdbProgress, BeforePorts, PortLoop
<1>6. CASE UNCHANGED setupVars
  BY <1>6 DEF setupVars, fdbVars, FdbProgress, AllPorts, Listed, Static
<1> QED
  BY <1>2, <1>3, <1>4, <1>5, <1>6 DEF SetupNext, Ended

(* A setup that returns true has given every port all it needs, for every number of *)
(* ports the addresses allow and whatever call fails on the way.                    *)
THEOREM SetupCompletes == SetupSpec => []SetupComplete
<1>1. SetupInit => Progress
  <2> SUFFICES ASSUME SetupInit PROVE Progress
    OBVIOUS
  <2>1. port_count \in Nat
    BY AddressAssumption DEF SetupInit
  <2> QED
    BY <2>1 DEF SetupInit, FdbInit, Progress, PortsProgress, FdbProgress, TurnDone,
                BeforePorts, PortLoop, AllPorts
<1>2. SetupInv /\ Progress /\ [SetupNext]_setupVars => Progress'
  BY PortsStep, FdbStep DEF SetupInv, Progress
<1>3. SetupInv /\ Progress => SetupComplete
  BY ProgressCompletes DEF SetupInv
<1> QED
  BY <1>1, <1>2, <1>3, SetupInvariant, PTL DEF SetupSpec
=============================================================================
