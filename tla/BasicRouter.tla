---------------------------- MODULE BasicRouter -----------------------------
(***************************************************************************)
(* test/basic_router: the four L3 managers over one SAI switch, after      *)
(* basic_router_setup has created the router interfaces and two routes for *)
(* each of them.  One call runs at a time (the program has one thread).    *)
(*                                                                         *)
(* The caller is the program's own test code unless Liberties says         *)
(* otherwise.  That code follows these rules, and each liberty drops one:  *)
(*   move_neighbor   an address that is a neighbor is added again          *)
(*   update_route    a prefix that has a route is added again              *)
(*   share_nexthops  two prefixes are given the same next hops             *)
(*   setup_prefix    a route is added for a prefix of an interface         *)
(*   group_api       NextHopGrpMgr is called from outside RouteMgr         *)
(*   group_of_one    ... when one neighbor of the set is known             *)
(*   erase_nexthops  NextHopMgr::EraseAll is called                        *)
(***************************************************************************)
EXTENDS RouteMgr

CONSTANTS
  HostPrefixes,      \* the interface addresses, trapped to the CPU by setup
  SubnetPrefixes,    \* the interface subnets, dropped by setup
  Liberties          \* what the caller does beyond basic_router.cpp

SetupPrefixes == HostPrefixes \cup SubnetPrefixes

ASSUME SetupAssumption ==
  /\ SetupPrefixes \subseteq Prefixes
  /\ HostPrefixes \cap SubnetPrefixes = {}

VARIABLE want        \* history: prefix -> next hops of the last Add that returned true

caches == <<m_ip2NextHopMap, m_ip2NbrMap, m_ips2NextHGMap, m_Routes, m_EcmpGroups>>
vars == <<sai, caches, phase, want>>

Allowed(liberty) == liberty \in Liberties

EmptyMap == [x \in {} |-> x]

SetupRoute(prefix) ==
  [action |-> IF prefix \in HostPrefixes THEN "TRAP" ELSE "DROP",
   next_hop |-> NullOid]

Init ==
  /\ neighbors = {} /\ next_hops = EmptyMap /\ groups = EmptyMap
  /\ routes = [prefix \in SetupPrefixes |-> SetupRoute(prefix)]
  /\ m_ip2NextHopMap = EmptyMap /\ m_ip2NbrMap = EmptyMap
  /\ m_ips2NextHGMap = EmptyMap /\ m_Routes = EmptyMap
  /\ m_EcmpGroups = [nexthops \in {BlackHole} |-> NullOid]
  /\ phase = "idle" /\ want = EmptyMap

-----------------------------------------------------------------------------
OnlyNeighbors == UNCHANGED <<groups, routes, m_ips2NextHGMap, m_Routes, m_EcmpGroups, want>>
OnlyRoutes    == UNCHANGED <<neighbors, next_hops, m_ip2NextHopMap, m_ip2NbrMap>>

AddNeighbor(ip, mac, intf) ==
  /\ phase = "idle"
  /\ ip \in DOMAIN m_ip2NbrMap => Allowed("move_neighbor")
  /\ OnlyNeighbors /\ UNCHANGED phase
  /\ \E ok \in BOOLEAN : NeighborMgr_Add(ip, mac, intf, ok)

DelNeighbor(ip) ==
  /\ phase = "idle"
  /\ OnlyNeighbors /\ UNCHANGED phase
  /\ \E ok \in BOOLEAN : NeighborMgr_Del(ip, ok)

AddGroup(nexthops) ==
  /\ phase = "idle" /\ Allowed("group_api")
  /\ KnownCount(nexthops) = 1 => Allowed("group_of_one")
  /\ OnlyRoutes /\ UNCHANGED <<RouteVars, phase, want>>
  /\ \E ok \in BOOLEAN : NextHopGrpMgr_Add(nexthops, ok)

DelGroup(nexthops) ==
  /\ phase = "idle" /\ Allowed("group_api")
  /\ OnlyRoutes /\ UNCHANGED <<RouteVars, phase, want>>
  /\ \E ok \in BOOLEAN : NextHopGrpMgr_Del(nexthops, ok)

AddRoute(prefix, nexthops) ==
  /\ phase = "idle"
  /\ prefix \in DOMAIN m_Routes => Allowed("update_route")
  /\ prefix \in SetupPrefixes => Allowed("setup_prefix")
  /\ (/\ nexthops # BlackHole
      /\ \E p \in DOMAIN m_Routes \ {prefix} : m_Routes[p] = nexthops)
     => Allowed("share_nexthops")
  /\ OnlyRoutes /\ UNCHANGED phase
  /\ \E ok \in BOOLEAN :
       /\ RouteMgr_Add(prefix, nexthops, ok)
       /\ want' = IF ok THEN Put(want, prefix, nexthops) ELSE want

DelRoute(prefix) ==
  /\ phase = "idle"
  /\ OnlyRoutes /\ UNCHANGED phase
  /\ \E ok \in BOOLEAN :
       /\ RouteMgr_Del(prefix, ok)
       /\ want' = IF ok THEN Erase(want, prefix) ELSE want

\* The EraseAll of each manager: the call, and one turn of its loop.
BeginEraseAll ==
  /\ phase = "idle"
  /\ phase' \in {"NeighborMgr::EraseAll", "RouteMgr::EraseAll"}
                \cup IF Allowed("erase_nexthops") THEN {"NextHopMgr::EraseAll"} ELSE {}
  /\ UNCHANGED <<sai, caches, want>>

EraseNextHops ==
  /\ NextHopMgr_EraseAll
  /\ OnlyNeighbors /\ UNCHANGED <<neighbors, m_ip2NbrMap>>

EraseNeighbors == NeighborMgr_EraseAll /\ OnlyNeighbors

EraseRoutes ==
  /\ OnlyRoutes
  /\ RouteMgr_EraseAll
  /\ want' = [p \in DOMAIN want \ (DOMAIN m_Routes \ DOMAIN m_Routes') |-> want[p]]

Crashed == phase = "crashed" /\ UNCHANGED vars

Next ==
  \/ \E ip \in Ips, mac \in Macs, intf \in Intfs : AddNeighbor(ip, mac, intf)
  \/ \E ip \in Ips : DelNeighbor(ip)
  \/ \E nexthops \in NextHopSets : AddGroup(nexthops) \/ DelGroup(nexthops)
  \/ \E prefix \in Prefixes :
       \/ \E nexthops \in NextHopSets : AddRoute(prefix, nexthops)
       \/ DelRoute(prefix)
  \/ BeginEraseAll \/ EraseNextHops \/ EraseNeighbors \/ EraseRoutes
  \/ Crashed

Spec == Init /\ [][Next]_vars

\* The one thread of the program runs the loop it is in.
FairSpec == Spec /\ WF_vars(EraseNextHops) /\ WF_vars(EraseNeighbors)
                 /\ WF_vars(EraseRoutes)

-----------------------------------------------------------------------------
Oids == NhOids \cup GrpOids \cup {NullOid}

NbrTypes ==
  /\ neighbors \subseteq Rifs \X Ips
  /\ IsMap(next_hops, NhOids, [ip : Ips, rif : Rifs])
  /\ IsMap(m_ip2NextHopMap, Ips, NextHopEntry)
  /\ IsMap(m_ip2NbrMap, Ips, NeighborEntry)

RouteTypes ==
  /\ IsMap(groups, GrpOids, SUBSET NhOids)
  /\ IsMap(routes, Prefixes, [action : {"FORWARD", "DROP", "TRAP"}, next_hop : Oids])
  /\ IsMap(m_ips2NextHGMap, NextHopSets, Oids)
  /\ IsMap(m_Routes, Prefixes, NextHopSets)
  /\ IsMap(m_EcmpGroups, NextHopSets, Oids)
  /\ IsMap(want, Prefixes, NextHopSets)

\* The types of the ASIC tables, of the caches of the managers, of the history of
\* requests and of the loop control.
TypeOK == NbrTypes /\ RouteTypes /\ phase \in Phases

\* Whatever fails and whatever the caller does, an entry of the next hop manager
\* is backed by a live next hop of its own address and interface: ids are reused
\* by SAI, so a stale entry would name the next hop of another station.
NextHopsLive ==
  \A ip \in DOMAIN m_ip2NextHopMap :
    LET entry == m_ip2NextHopMap[ip]
    IN  /\ entry.nhid \in DOMAIN next_hops
        /\ next_hops[entry.nhid] = [ip |-> ip, rif |-> entry.rif_id]

\* The two caches of a neighbor agree: a next hop belongs to a neighbor entry,
\* which holds its id.  (A neighbor whose removal failed half way has none.)
NeighborHasItsNextHop ==
  \A ip \in DOMAIN m_ip2NextHopMap :
    /\ ip \in DOMAIN m_ip2NbrMap
    /\ m_ip2NbrMap[ip].nhid = m_ip2NextHopMap[ip].nhid

\* A neighbor entry is backed by the neighbor of the ASIC, on its interface.
NeighborsLive ==
  \A ip \in DOMAIN m_ip2NbrMap : <<m_ip2NbrMap[ip].rif_id, ip>> \in neighbors

\* The entry of a set of next hops is a live group, and no other set has it: a
\* Del removes the group of its own set.
GroupsLive ==
  /\ \A ips \in DOMAIN m_ips2NextHGMap : m_ips2NextHGMap[ips] \in DOMAIN groups
  /\ \A ips1, ips2 \in DOMAIN m_ips2NextHGMap :
       m_ips2NextHGMap[ips1] = m_ips2NextHGMap[ips2] => ips1 = ips2

\* No route is in the ASIC that nobody would remove: it is in the table of the
\* route manager or is one of those of basic_router_setup, which are never touched.
RoutesTracked ==
  /\ DOMAIN routes \subseteq DOMAIN m_Routes \cup SetupPrefixes
  /\ \A prefix \in SetupPrefixes :
       /\ prefix \notin DOMAIN m_Routes
       /\ prefix \in DOMAIN routes /\ routes[prefix] = SetupRoute(prefix)

\* A neighbor leaves the table only when no route of the ASIC goes through it.
NeighborKeptWhileUsed ==
  [][\A ip \in DOMAIN m_ip2NbrMap \ DOMAIN m_ip2NbrMap' :
       \A prefix \in DOMAIN routes : ip \notin Destinations(prefix)]_vars

\* A Del that takes a route out of the ASIC takes it out of the table as well: else
\* the prefix can be neither deleted nor added again.
RouteLeavesBoth ==
  [][\A prefix \in DOMAIN routes \ DOMAIN routes' : prefix \notin DOMAIN m_Routes']_vars

\* Without failures and with the test's own rules, the ASIC holds what the caches
\* list and nothing else: nothing leaks, and every entry can be removed.
AsicIsCaches ==
  /\ neighbors = {<<m_ip2NbrMap[ip].rif_id, ip>> : ip \in DOMAIN m_ip2NbrMap}
  /\ DOMAIN next_hops = {m_ip2NbrMap[ip].nhid : ip \in DOMAIN m_ip2NbrMap}
  /\ DOMAIN groups = {m_ips2NextHGMap[ips] : ips \in DOMAIN m_ips2NextHGMap}
  /\ DOMAIN routes = DOMAIN m_Routes \cup SetupPrefixes
  /\ DOMAIN m_EcmpGroups =
       {BlackHole} \cup {m_Routes[prefix] : prefix \in DOMAIN m_Routes}

\* Only the black hole stands for object 0, which RouteMgr::Del takes for it.
OnlyBlackHoleIsNull ==
  \A nexthops \in DOMAIN m_EcmpGroups :
    m_EcmpGroups[nexthops] = NullOid => nexthops = BlackHole

\* The next hop that an Add replaces is removed from the ASIC.
ReplacedNextHopRemoved ==
  [][\A ip \in DOMAIN m_ip2NextHopMap \cap DOMAIN m_ip2NextHopMap' :
       m_ip2NextHopMap'[ip].nhid # m_ip2NextHopMap[ip].nhid =>
         m_ip2NextHopMap[ip].nhid \notin DOMAIN next_hops']_vars

\* An EraseAll comes to an end, also when a removal fails.
Erasing == phase \notin {"idle", "crashed"}
EraseAllEnds == Erasing ~> ~Erasing

\* The map that the loop walks.
LoopEntries ==
  CASE phase = "NextHopMgr::EraseAll"  -> DOMAIN m_ip2NextHopMap
    [] phase = "NeighborMgr::EraseAll" -> DOMAIN m_ip2NbrMap
    [] phase = "RouteMgr::EraseAll"    -> DOMAIN m_Routes
    [] OTHER -> {}

\* A turn after which the loop goes on has taken one entry out of the map it walks,
\* whichever of its calls failed: a Del that returns true has erased its entry.
EraseAllShrinks ==
  [][Erasing /\ phase' = phase =>
       \E entry \in LoopEntries : LoopEntries' = LoopEntries \ {entry}]_vars

\* An EraseAll returns to its caller.
EraseAllReturns == Erasing ~> phase = "idle"

\* A route never carries traffic to a neighbor that its last successful Add did
\* not name.
NoMisdelivery ==
  \A prefix \in DOMAIN want \cap DOMAIN routes :
    Destinations(prefix) \subseteq want[prefix]

-----------------------------------------------------------------------------
\* The forwarding table that the ASIC implements, without the routes of setup.
Promise == INSTANCE Fib WITH
  Addresses    <- Ips,
  Dests        <- Prefixes,
  known        <- DOMAIN m_ip2NbrMap,
  asked        <- want,
  path         <- [prefix \in DOMAIN routes \ SetupPrefixes |-> Destinations(prefix)]

\* Called by the test's rules, over a SAI without failures, the managers are a
\* forwarding table: every Add and Del that changes anything changes all of it.
ImplementsFib == Promise!Spec
=============================================================================
