------------------------------- MODULE MCPtf -------------------------------
EXTENDS PtfRunner, TLC

H == INSTANCE PtfHelper
V == INSTANCE TunnelVxlan
N == INSTANCE TunnelNhop
U == INSTANCE TunnelMulti
A == INSTANCE TunnelAttributes
P == INSTANCE TunnelP2Mp
M == INSTANCE TunnelMappers
E == INSTANCE TunnelEvpn
R == INSTANCE TunnelRifs
G == INSTANCE NextHopGroups
T == INSTANCE RouteTests
B == INSTANCE NeighborTests
X == INSTANCE NextHopTests
D == INSTANCE VrfTests
L == INSTANCE MplsTests
K == INSTANCE LagTests
F == INSTANCE SaiForward

CONSTANTS After,          \* test -> the store it is to leave
          Configured      \* the store SaiHelper's setUp is to build

PortNames == {"port" \o ToString(i) : i \in 0..31}

Helpers  == H!Suite
OnHelper == V!Suite @@ N!Suite @@ U!Suite @@ A!Suite @@ P!Suite @@ M!Suite @@ E!Suite @@ G!Suite
              @@ T!Suite @@ B!Suite @@ X!Suite @@ D!Suite @@ L!Suite @@ K!Suite
OnBase   == R!Suite @@ L!BaseSuite

Scripts == Helpers @@ OnHelper @@ OnBase
Names   == DOMAIN Scripts
Bases   == [t \in DOMAIN Helpers |-> H!PowerOn] @@ [t \in DOMAIN OnHelper |-> H!Helped]
             @@ [t \in DOMAIN OnBase |-> H!Started]

(* What the constants stand for.  Each is the value of a definition: TLC *)
(* evaluates that once, but not the expression given for a constant.      *)
MCPorts  == PortNames
MCScript == LET value == Scripts IN value
MCTests  == LET value == Names IN value
MCBase   == LET value == Bases IN value

-----------------------------------------------------------------------------
(***************************************************************************)
(* What a test leaves.  SaiHelper's tearDown does not remove the default   *)
(* routes, so that a test that takes the helper down leaves those, and the *)
(* members of the default VLAN are removed and never put back.             *)
(***************************************************************************)
TakesHelperDown == {"helper", "nexthop_cpu", "nexthop_remove",
                    "nbor_no_host_v4", "nbor_no_host_v6", "nbor_host_v4", "nbor_host_v6",
                    "nbor_link_local", "nbor_update", "nbor_many_v4", "nbor_many_v6"}

LeftByHelper == Restrict(H!Helped, {"default_vrf", "default_vlan", "default_v4", "default_v6"})

Leaves == [t \in Names |-> IF t \in TakesHelperDown THEN LeftByHelper
                           ELSE IF t = "minimal" THEN H!Started
                           ELSE Bases[t]]

MCAfter  == LET value == Leaves IN value
MCConfigured == LET value == H!Helped IN value

MCHelperOnly == {"helper"}

(***************************************************************************)
(* The tests that are known not to do what the properties below ask of the *)
(* rest; the README names for each the lines of the code it is about.      *)
(***************************************************************************)
MCReadUnassigned == {"evpn", "mpls_trap", "nbor_link_local", "nbor_many_v4", "nbor_many_v6", "nhop_ecmp", "nhop_l3",
                   "nhop_lag", "nhop_multi", "nhop_subport", "nhop_svi", "nhop_underlay_ecmp",
                   "route_collision", "route_cpu", "route_update", "vrf_scale",
                   "vxlan_malformed_decap_v6"}
WrongTraffic   == {"mappers", "vrf_acl"}
RefusedCalls   == {"nhg_lpm_add_remove", "nhg_fg_attr"}
StillUsed      == {"nhop_l3", "nhop_lag", "nhop_subport", "nhop_svi"}
RefusedRemoves == {"nexthop_remove", "lag_create"}
LeavesObjects  == StillUsed \cup {"lag_egress", "lag_l2", "lag_l3", "lag_nhop"}
LeavesOnFail   == LeavesObjects \cup
                  {"evpn", "lag_create", "mappers", "mpls_trap", "nbor_link_local", "nhg_disabled", "nhg_disabled_v6",
                   "nhg_lpm_add_remove", "nhg_set_get", "nhop_ecmp", "nhop_multi",
                   "nhop_underlay_ecmp", "rifs_ecmp", "rifs_ecmp_v6", "rifs_ports",
                   "rifs_ports_v6", "route_svi", "vrf_scale", "vrf_smac", "vxlan_p2mp"}

-----------------------------------------------------------------------------
(* Until a check fails, each packet a test sends leaves the switch as the  *)
(* test's verify_* accepts it: through the tunnels, next hop groups, VLANs *)
(* and virtual routers the calls before it have set up, in every order and *)
(* whatever the earlier calls of the test have changed or taken away.      *)
ExpectedTraffic ==
    At("check") /\ ~raised /\ "p" \in DOMAIN step /\ test \notin WrongTraffic
        => F!Forward(store, step.p) \subseteq step.out

(* Until a check fails, the switch accepts every create and every set: its *)
(* handles name live objects and its entry is not there yet, although many *)
(* methods share one setUp and one another's handles.                      *)
CallsSucceed ==
    ~failed /\ test \notin RefusedCalls =>
        /\ At("create") \/ At("must") => Creatable(store, step.n, step.o)
        /\ At("set") => Settable(store, step.n, step.f, step.v)

(* Until a check fails, no remove is refused because its object is in use  *)
(* or gone: tests remove in the reverse order of their creates.  A test    *)
(* that took SaiHelper's interfaces down lets the helper do so again.      *)
RemovesSucceed ==
    At("remove") /\ ~failed /\ test \notin StillUsed \cup RefusedRemoves =>
        \/ Removable(store, step.n)
        \/ test \in TakesHelperDown /\ step.n \in Range(B!Rifs) \ DOMAIN store

(* A test that passes leaves the switch as the next test expects it: the   *)
(* objects and the attribute values it found, and no other.                *)
NothingLeft == Over /\ ~failed /\ test \notin LeavesObjects => store = After[test]

(* A test that fails inside its try block, wherever that is, leaves the    *)
(* switch no less clean: the finally block and the tearDown take away what *)
(* was created up to there.                                                *)
CleanAfterFail ==
    Over /\ failed /\ ~escaped /\ test \notin LeavesOnFail => store = After[test]

(* SaiHelper's setUp builds the configuration all its tests start from.    *)
HelperBuildsHelped == test = "helper" /\ At("try") /\ ~failed => store = Configured

(* SaiHelperBase, sai_base_test.py:821-827: the numbers of objects before  *)
(* and after a test "allows to verify if all the test objects were         *)
(* removed".                                                               *)
ResourcesBack ==
    Over /\ ~failed => H!verifyNumberOfAvaiableResources(
                           store, H!saveNumberOfAvaiableResources(Base[test]))

=============================================================================
