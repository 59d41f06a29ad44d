------------------------------- MODULE FdbMgr -------------------------------
(***************************************************************************)
(* test/basic_router/fdb_mgr.cpp: the vector of the static MAC entries     *)
(* that the program has put into the FDB of the switch.  The FDB itself is *)
(* external: a call may be refused, the calls named in Faulty may fail for *)
(* no visible reason, and the ports are in SAI_PORT_LEARN_MODE_HW, so the  *)
(* switch adds and drops dynamic entries by itself (the program gives it   *)
(* no notification handler and never hears of them).                       *)
(***************************************************************************)
EXTENDS Naturals, Sequences

CONSTANTS Macs, VlanIds, Ports,
          Learnable,   \* the keys the switch may learn
          Faulty       \* subset of {"create_fdb_entry", "remove_fdb_entry"}

Keys == [macAddr : Macs, vlan_id : VlanIds]

ASSUME LearnableAssumption == Learnable \subseteq Keys

VARIABLES
  fdb,         \* the switch: key -> [type, port_id]
  m_FdbVector, \* sequence of FdbEntry
  it,          \* the entry the EraseAll loop is at, 0 outside the loop
  lost,        \* history: listed keys that an EraseAll has removed from the switch
  result       \* history: the last call and what it returned

fdbVars == <<fdb, m_FdbVector, it, lost, result>>

FdbEntry == [macAddr : Macs, vlan_id : VlanIds, port_id : Ports]

KeyOf(e) == [macAddr |-> e.macAddr, vlan_id |-> e.vlan_id]
Listed == {KeyOf(m_FdbVector[n]) : n \in DOMAIN m_FdbVector}
Static == {k \in DOMAIN fdb : fdb[k].type = "STATIC"}

FdbInit ==
  /\ fdb = [k \in {} |-> k]
  /\ m_FdbVector = <<>> /\ it = 0 /\ lost = {}
  /\ result = [call |-> "none", ok |-> TRUE]

-----------------------------------------------------------------------------
(* The switch *)

Put(k, type, port) ==
  fdb' = [x \in DOMAIN fdb \cup {k} |->
            IF x = k THEN [type |-> type, port_id |-> port] ELSE fdb[x]]

\* A dynamic entry for the same key is replaced, or is a reason to refuse.
create_fdb_entry(k, port, ok) ==
  \/ ok /\ k \notin Static /\ Put(k, "STATIC", port)
  \/ /\ ~ ok /\ (k \in DOMAIN fdb \/ "create_fdb_entry" \in Faulty)
     /\ UNCHANGED fdb

remove_fdb_entry(k, ok) ==
  \/ ok /\ k \in DOMAIN fdb /\ fdb' = [x \in DOMAIN fdb \ {k} |-> fdb[x]]
  \/ /\ ~ ok /\ (k \notin DOMAIN fdb \/ "remove_fdb_entry" \in Faulty)
     /\ UNCHANGED fdb

Learn(k, port) ==
  /\ k \in Learnable \ DOMAIN fdb
  /\ Put(k, "DYNAMIC", port)
  /\ UNCHANGED <<m_FdbVector, it, lost, result>>

Age(k) ==
  /\ k \in DOMAIN fdb \ Static
  /\ fdb' = [x \in DOMAIN fdb \ {k} |-> fdb[x]]
  /\ UNCHANGED <<m_FdbVector, it, lost, result>>

-----------------------------------------------------------------------------
(* The operators X_... before an operator X are plausible slips in X, which the *)
(* properties must notice.                                                      *)

\* The vlan is left out of the comparison.
Matches_MacOnly(e, k) == e.macAddr = k.macAddr

Matches(e, k) == e.macAddr = k.macAddr /\ e.vlan_id = k.vlan_id

\* The first entry for k, as the three loops find it.
Found(n, k) ==
  /\ n \in DOMAIN m_FdbVector /\ Matches(m_FdbVector[n], k)
  /\ \A j \in 1 .. n - 1 : ~ Matches(m_FdbVector[j], k)

Unknown(k) == \A n \in DOMAIN m_FdbVector : ~ Matches(m_FdbVector[n], k)

RemoveAt(n) ==
  [j \in 1 .. Len(m_FdbVector) - 1 |-> m_FdbVector[IF j < n THEN j ELSE j + 1]]

Entry(k, port) == [macAddr |-> k.macAddr, vlan_id |-> k.vlan_id, port_id |-> port]

\* The entry is listed before the switch has taken it.
FdbMgr_Add_PushesFirst(k, port, ok) ==
  /\ UNCHANGED <<it, lost>>
  /\ \/ ~ Unknown(k) /\ ok /\ UNCHANGED <<fdb, m_FdbVector>>
     \/ /\ Unknown(k)
        /\ create_fdb_entry(k, port, ok)
        /\ m_FdbVector' = Append(m_FdbVector, Entry(k, port))

\* The look-up is left to the switch.
FdbMgr_Add_NoLookup(k, port, ok) ==
  /\ UNCHANGED <<it, lost>>
  /\ create_fdb_entry(k, port, ok)
  /\ m_FdbVector' = IF ok THEN Append(m_FdbVector, Entry(k, port)) ELSE m_FdbVector

FdbMgr_Add(k, port, ok) ==
  /\ UNCHANGED <<it, lost>>
  /\ \/ ~ Unknown(k) /\ ok /\ UNCHANGED <<fdb, m_FdbVector>>
     \/ /\ Unknown(k)
        /\ create_fdb_entry(k, port, ok)
        /\ m_FdbVector' =
             IF ok THEN Append(m_FdbVector, Entry(k, port)) ELSE m_FdbVector

FdbMgr_Del(k, ok) ==
  /\ UNCHANGED it
  /\ \/ Unknown(k) /\ ok /\ UNCHANGED <<fdb, m_FdbVector, lost>>
     \/ \E n \in DOMAIN m_FdbVector :
          /\ Found(n, k)
          /\ remove_fdb_entry(k, ok)
          /\ m_FdbVector' = IF ok THEN RemoveAt(n) ELSE m_FdbVector
          /\ lost' = IF ok THEN lost \ {k} ELSE lost

-----------------------------------------------------------------------------
(* The calls *)

AddEntry(k, port) ==
  /\ it = 0
  /\ \E ok \in BOOLEAN :
       /\ FdbMgr_Add(k, port, ok)
       /\ result' = [call |-> "Add", key |-> k, ok |-> ok]

DelEntry(k) ==
  /\ it = 0
  /\ \E ok \in BOOLEAN :
       /\ FdbMgr_Del(k, ok)
       /\ result' = [call |-> "Del", key |-> k, ok |-> ok]

BeginEraseAll ==
  /\ it = 0 /\ it' = 1
  /\ result' = [call |-> "EraseAll", ok |-> TRUE]
  /\ UNCHANGED <<fdb, m_FdbVector, lost>>

\* A turn that fails starts the loop over.
EraseEntry_StartsOver ==
  /\ it \in DOMAIN m_FdbVector
  /\ \E ok \in BOOLEAN, k \in {KeyOf(m_FdbVector[it])} :
         /\ remove_fdb_entry(k, ok)
         /\ it' = IF ok THEN it + 1 ELSE 1
         /\ lost' = IF ok THEN lost \cup {k} ELSE lost
         /\ UNCHANGED <<result, m_FdbVector>>

\* A turn that does not look at the status.
EraseEntry_IgnoresStatus ==
  /\ it \in DOMAIN m_FdbVector
  /\ \E ok \in BOOLEAN, k \in {KeyOf(m_FdbVector[it])} :
         /\ remove_fdb_entry(k, ok)
         /\ it' = it + 1
         /\ lost' = IF ok THEN lost \cup {k} ELSE lost
         /\ UNCHANGED <<result, m_FdbVector>>

\* A turn that erases the entry from the vector it walks.
EraseEntry_Erases ==
  /\ it \in DOMAIN m_FdbVector
  /\ \E ok \in BOOLEAN, k \in {KeyOf(m_FdbVector[it])} :
         /\ remove_fdb_entry(k, ok)
         /\ it' = IF ok THEN it + 1 ELSE 0
         /\ m_FdbVector' = IF ok THEN RemoveAt(it) ELSE m_FdbVector
         /\ lost' = IF ok THEN lost \ {k} ELSE lost
         /\ result' = [call |-> "EraseAll", ok |-> ok]

\* One turn of the EraseAll loop.
EraseEntry ==
  /\ it \in DOMAIN m_FdbVector
  /\ \E ok \in BOOLEAN, k \in {KeyOf(m_FdbVector[it])} :
         /\ remove_fdb_entry(k, ok)
         /\ it' = IF ok THEN it + 1 ELSE 0
         /\ lost' = IF ok THEN lost \cup {k} ELSE lost
         /\ result' = [call |-> "EraseAll", ok |-> ok]
         /\ UNCHANGED m_FdbVector

EndEraseAll ==
  /\ it = Len(m_FdbVector) + 1 /\ it' = 0
  /\ m_FdbVector' = <<>> /\ lost' = {}
  /\ UNCHANGED <<fdb, result>>

FdbNext ==
  \/ \E k \in Keys, port \in Ports : AddEntry(k, port) \/ Learn(k, port)
  \/ \E k \in Keys : DelEntry(k) \/ Age(k)
  \/ BeginEraseAll \/ EraseEntry \/ EndEraseAll

FdbSpec == FdbInit /\ [][FdbNext]_fdbVars

\* The program runs the loop it is in.
FdbFairSpec == FdbSpec /\ WF_fdbVars(EraseEntry \/ EndEraseAll)

-----------------------------------------------------------------------------
(* Properties *)

\* Every variable ranges over what its C++ counterpart can hold.
FdbTypeOK ==
  /\ DOMAIN fdb \subseteq Keys
  /\ fdb \in [DOMAIN fdb -> [type : {"STATIC", "DYNAMIC"}, port_id : Ports]]
  /\ m_FdbVector \in Seq(FdbEntry)
  /\ it \in 0 .. Len(m_FdbVector) + 1
  /\ lost \subseteq Listed

\* Add's look-up and Del's erase together keep every key in the vector once.
ListedOnce ==
  \A n, j \in DOMAIN m_FdbVector :
    KeyOf(m_FdbVector[n]) = KeyOf(m_FdbVector[j]) => n = j

\* Whatever call fails, the switch holds a static entry for exactly the listed
\* entries that no EraseAll has taken out, with the port that is listed: none
\* leaks when Add, Del or EraseAll fail half way.
VectorIsStaticTable ==
  /\ Static = Listed \ lost
  /\ \A n \in DOMAIN m_FdbVector :
       LET k == KeyOf(m_FdbVector[n])
       IN  k \in Static => fdb[k].port_id = m_FdbVector[n].port_id

\* An Add that returns true leaves a static entry in the switch, unless an EraseAll
\* that gave up has taken that entry out: Add's look-up then finds what is gone.
AddTakesEffect ==
  result.call = "Add" /\ result.ok => result.key \in Static \cup lost

\* An EraseAll returns.
FdbEraseAllEnds == it > 0 ~> it = 0
=============================================================================
