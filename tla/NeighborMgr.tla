---------------------------- MODULE NeighborMgr -----------------------------
(***************************************************************************)
(* test/basic_router/neighbor_mgr.cpp: the neighbors, each with the id of  *)
(* its next hop.  An Add or a Del makes two SAI calls, one through the     *)
(* next hop manager; when the second one fails the first is not undone.    *)
(***************************************************************************)
EXTENDS NextHopMgr

VARIABLE m_ip2NbrMap        \* ip -> NeighborEntry

NeighborEntry == NextHopEntry

NbrVars == <<neighbors, next_hops, m_ip2NextHopMap, m_ip2NbrMap>>

\* Mutant of StoreNeighbor: std::map::insert, which keeps an old entry.
StoreNeighbor_Inserts(ip, mac, intf) ==
  m_ip2NbrMap' =
    IF ip \in DOMAIN m_ip2NbrMap THEN m_ip2NbrMap
    ELSE Put(m_ip2NbrMap, ip, [macAddr |-> mac, intfAlias |-> intf,
                               nhid |-> m_ip2NextHopMap'[ip].nhid, rif_id |-> intf])

\* The end of Add: m_ip2NbrMap[ipAddr] = nbEntry, with the id that the next hop
\* manager now has for ip.
StoreNeighbor(ip, mac, intf) ==
  m_ip2NbrMap' = Put(m_ip2NbrMap, ip,
                     [macAddr |-> mac, intfAlias |-> intf,
                      nhid |-> m_ip2NextHopMap'[ip].nhid, rif_id |-> intf])

NeighborMgr_Add(ip, mac, intf, ok) ==
  \/ /\ create_neighbor_entry(intf, ip, FALSE)
     /\ ok = FALSE
     /\ UNCHANGED <<next_hops, m_ip2NextHopMap, m_ip2NbrMap>>
  \/ /\ create_neighbor_entry(intf, ip, TRUE)
     /\ NextHopMgr_Add(ip, mac, intf, ok)
     /\ IF ok THEN StoreNeighbor(ip, mac, intf) ELSE UNCHANGED m_ip2NbrMap

\* Mutant of NeighborMgr_Del: the neighbor is removed before the next hop.
NeighborMgr_Del_NeighborFirst(ip, ok) ==
  \/ ip \notin DOMAIN m_ip2NbrMap /\ ok = TRUE /\ UNCHANGED NbrVars
  \/ /\ ip \in DOMAIN m_ip2NbrMap
     /\ remove_neighbor_entry(m_ip2NbrMap[ip].rif_id, ip, TRUE)
     /\ NextHopMgr_Del(ip, ok)
     /\ m_ip2NbrMap' = IF ok THEN Erase(m_ip2NbrMap, ip) ELSE m_ip2NbrMap

\* Mutant of NeighborMgr_Del: the result of NextHopMgr::Del is not looked at.
NeighborMgr_Del_IgnoresNextHop(ip, ok) ==
  \/ ip \notin DOMAIN m_ip2NbrMap /\ ok = TRUE /\ UNCHANGED NbrVars
  \/ /\ ip \in DOMAIN m_ip2NbrMap
     /\ \E removed \in BOOLEAN : NextHopMgr_Del(ip, removed)
     /\ remove_neighbor_entry(m_ip2NbrMap[ip].rif_id, ip, ok)
     /\ m_ip2NbrMap' = IF ok THEN Erase(m_ip2NbrMap, ip) ELSE m_ip2NbrMap

NeighborMgr_Del(ip, ok) ==
  \/ /\ ip \notin DOMAIN m_ip2NbrMap
     /\ ok = TRUE
     /\ UNCHANGED NbrVars
  \/ /\ ip \in DOMAIN m_ip2NbrMap
     /\ NextHopMgr_Del(ip, FALSE)
     /\ ok = FALSE
     /\ UNCHANGED <<neighbors, m_ip2NbrMap>>
  \/ /\ ip \in DOMAIN m_ip2NbrMap
     /\ NextHopMgr_Del(ip, TRUE)
     /\ remove_neighbor_entry(m_ip2NbrMap[ip].rif_id, ip, ok)
     /\ m_ip2NbrMap' = IF ok THEN Erase(m_ip2NbrMap, ip) ELSE m_ip2NbrMap

NeighborMgr_EraseAll ==
  /\ phase = "NeighborMgr::EraseAll"
  /\ \/ /\ DOMAIN m_ip2NbrMap = {}
        /\ phase' = "idle"
        /\ UNCHANGED NbrVars
     \/ \E ip \in DOMAIN m_ip2NbrMap, ok \in BOOLEAN :
          /\ NeighborMgr_Del(ip, ok)
          /\ phase' \in AfterDel("NeighborMgr::EraseAll", ok)
=============================================================================
