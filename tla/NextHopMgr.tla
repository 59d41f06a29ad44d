----------------------------- MODULE NextHopMgr -----------------------------
(***************************************************************************)
(* test/basic_router/nexthop_mgr.cpp: the cache of next hops, one entry    *)
(* for an address, in front of the next hop table of SAI.  An operation is *)
(* an action with a parameter ok, the boolean it returns; each disjunct is *)
(* one way through the function.                                           *)
(***************************************************************************)
EXTENDS SaiL3

CONSTANT Macs

VARIABLES
  m_ip2NextHopMap,    \* ip -> NextHopEntry
  phase               \* "idle", the EraseAll loop that runs, or "crashed"

NextHopEntry == [macAddr : Macs, intfAlias : Intfs, nhid : NhOids, rif_id : Intfs]

NhVars == <<next_hops, m_ip2NextHopMap>>

\* The entry of ip is for this very station: nothing to do.
SameNextHop(ip, mac, intf) ==
  /\ ip \in DOMAIN m_ip2NextHopMap
  /\ m_ip2NextHopMap[ip].macAddr = mac
  /\ m_ip2NextHopMap[ip].intfAlias = intf

NextHopMgr_Add(ip, mac, intf, ok) ==
  \/ /\ intf \notin Rifs                      \* not the type of a router interface
     /\ ok = FALSE
     /\ UNCHANGED NhVars
  \/ /\ intf \in Rifs
     /\ SameNextHop(ip, mac, intf)
     /\ ok = TRUE
     /\ UNCHANGED NhVars
  \/ /\ intf \in Rifs
     /\ ~SameNextHop(ip, mac, intf)
     /\ create_next_hop(ip, intf, NullOid, FALSE)
     /\ ok = FALSE
     /\ UNCHANGED m_ip2NextHopMap
  \/ /\ intf \in Rifs
     /\ ~SameNextHop(ip, mac, intf)
     /\ \E nhid \in NhOids :
          /\ create_next_hop(ip, intf, nhid, TRUE)
          /\ \/ /\ ok = TRUE
                /\ m_ip2NextHopMap' =
                     Put(m_ip2NextHopMap, ip,
                         [macAddr |-> mac, intfAlias |-> intf,
                          nhid |-> nhid, rif_id |-> intf])
             \/ /\ "object_type_query" \in Faulty  \* created, but of a wrong type
                /\ ok = FALSE
                /\ UNCHANGED m_ip2NextHopMap

\* Mutant of NextHopMgr_Del: the entry of a removed next hop stays.
NextHopMgr_Del_KeepsEntry(ip, ok) ==
  /\ IF ip \in DOMAIN m_ip2NextHopMap
       THEN remove_next_hop(m_ip2NextHopMap[ip].nhid, ok)
       ELSE ok = TRUE /\ UNCHANGED next_hops
  /\ UNCHANGED m_ip2NextHopMap

NextHopMgr_Del(ip, ok) ==
  \/ /\ ip \notin DOMAIN m_ip2NextHopMap
     /\ ok = TRUE
     /\ UNCHANGED NhVars
  \/ /\ ip \in DOMAIN m_ip2NextHopMap
     /\ remove_next_hop(m_ip2NextHopMap[ip].nhid, ok)
     /\ m_ip2NextHopMap' =
          IF ok THEN Erase(m_ip2NextHopMap, ip) ELSE m_ip2NextHopMap

-----------------------------------------------------------------------------
\* An EraseAll walks the map it deletes from.  ++it is applied to an iterator
\* whose node Del has just freed, which is undefined: the loop goes on with
\* another entry, or the process dies.
Phases == {"idle", "NextHopMgr::EraseAll", "NeighborMgr::EraseAll",
           "RouteMgr::EraseAll", "crashed"}

\* Mutant of AfterDel: a failed removal is tried again.
AfterDel_Retries(loop, ok) == IF ok THEN {loop, "crashed"} ELSE {loop}

AfterDel(loop, ok) == IF ok THEN {loop, "crashed"} ELSE {"idle"}

NextHopMgr_EraseAll ==
  /\ phase = "NextHopMgr::EraseAll"
  /\ \/ /\ DOMAIN m_ip2NextHopMap = {}
        /\ phase' = "idle"
        /\ UNCHANGED NhVars
     \/ \E ip \in DOMAIN m_ip2NextHopMap, ok \in BOOLEAN :
          /\ NextHopMgr_Del(ip, ok)
          /\ phase' \in AfterDel("NextHopMgr::EraseAll", ok)
=============================================================================
