--------------------------- MODULE NextHopGrpMgr ----------------------------
(***************************************************************************)
(* test/basic_router/nexthopgrp_mgr.cpp: the ECMP groups, one entry for a  *)
(* set of addresses.  A group is made of the addresses that are neighbors  *)
(* at that moment and is kept under the whole set.                         *)
(***************************************************************************)
EXTENDS NeighborMgr

VARIABLE m_ips2NextHGMap    \* set of ips -> nhg_id

GrpVars == <<groups, m_ips2NextHGMap>>

KnownNeighbors(nexthops) == nexthops \cap DOMAIN m_ip2NbrMap

\* Mutant of Nhids: the list is passed with one element less.
Nhids_DropsOne(nexthops) ==
  LET all == {m_ip2NbrMap[ip].nhid : ip \in KnownNeighbors(nexthops)}
  IN  IF Cardinality(all) > 1 THEN all \ {CHOOSE nhid \in all : TRUE} ELSE all

Nhids(nexthops) == {m_ip2NbrMap[ip].nhid : ip \in KnownNeighbors(nexthops)}

\* nhids.size(): the list has one element for each known neighbor.
KnownCount(nexthops) == Cardinality(KnownNeighbors(nexthops))

\* What an uninitialised nhg_id on the stack may hold: the id of any object, or
\* (NullOid) of none.
Garbage == NhOids \cup GrpOids \cup {NullOid}

NextHopGrpMgr_Add(nexthops, ok) ==
  \/ /\ KnownCount(nexthops) = 0
     /\ ok = FALSE
     /\ UNCHANGED GrpVars
  \/ /\ KnownCount(nexthops) = 1             \* stored without creating a group
     /\ ok = TRUE
     /\ \E nhg_id \in Garbage :
          m_ips2NextHGMap' = Put(m_ips2NextHGMap, nexthops, nhg_id)
     /\ UNCHANGED groups
  \/ /\ KnownCount(nexthops) > 1
     /\ create_next_hop_group(Nhids(nexthops), NullOid, FALSE)
     /\ ok = FALSE
     /\ UNCHANGED m_ips2NextHGMap
  \/ /\ KnownCount(nexthops) > 1
     /\ \E nhg_id \in GrpOids :
          /\ create_next_hop_group(Nhids(nexthops), nhg_id, TRUE)
          /\ \/ /\ ok = TRUE
                /\ m_ips2NextHGMap' = Put(m_ips2NextHGMap, nexthops, nhg_id)
             \/ /\ "object_type_query" \in Faulty
                /\ ok = FALSE
                /\ UNCHANGED m_ips2NextHGMap

\* Mutant of NextHopGrpMgr_Del: the entry of a removed group stays.
NextHopGrpMgr_Del_KeepsEntry(nexthops, ok) ==
  /\ IF nexthops \in DOMAIN m_ips2NextHGMap
       THEN remove_next_hop_group(m_ips2NextHGMap[nexthops], ok)
       ELSE ok = FALSE /\ UNCHANGED groups
  /\ UNCHANGED m_ips2NextHGMap

NextHopGrpMgr_Del(nexthops, ok) ==
  \/ /\ nexthops \notin DOMAIN m_ips2NextHGMap
     /\ ok = FALSE
     /\ UNCHANGED GrpVars
  \/ /\ nexthops \in DOMAIN m_ips2NextHGMap
     /\ remove_next_hop_group(m_ips2NextHGMap[nexthops], ok)
     /\ m_ips2NextHGMap' =
          IF ok THEN Erase(m_ips2NextHGMap, nexthops) ELSE m_ips2NextHGMap
=============================================================================
