-------------------------------- MODULE Fib ---------------------------------
(***************************************************************************)
(* What the L3 managers of test/basic_router promise their caller: a set   *)
(* of known neighbors and a forwarding table.  A route is given next hops  *)
(* and forwards to those that were known when it was added; a neighbor     *)
(* that a route forwards to cannot be removed.                             *)
(***************************************************************************)
CONSTANTS Addresses, Dests, BlackHole

VARIABLES known,    \* the neighbors
          asked,    \* destination -> the next hops it was given
          path      \* destination -> the neighbors it forwards to

vars == <<known, asked, path>>

NextHopSets == (SUBSET Addresses \ {{}}) \cup {BlackHole}

Init ==
  /\ known = {}
  /\ asked = [d \in {} |-> {}]
  /\ path = [d \in {} |-> {}]

With(m, d, v) == [x \in DOMAIN m \cup {d} |-> IF x = d THEN v ELSE m[x]]
Without(m, d) == [x \in DOMAIN m \ {d} |-> m[x]]

AddNeighbor(ip) ==
  /\ ip \notin known
  /\ known' = known \cup {ip}
  /\ UNCHANGED <<asked, path>>

DelNeighbor(ip) ==
  /\ ip \in known
  /\ \A d \in DOMAIN path : ip \notin path[d]
  /\ known' = known \ {ip}
  /\ UNCHANGED <<asked, path>>

AddRoute(d, nexthops) ==
  /\ nexthops = BlackHole \/ nexthops \cap known # {}
  /\ asked' = With(asked, d, nexthops)
  /\ path' = With(path, d, nexthops \cap known)
  /\ UNCHANGED known

DelRoute(d) ==
  /\ d \in DOMAIN asked
  /\ asked' = Without(asked, d)
  /\ path' = Without(path, d)
  /\ UNCHANGED known

Next ==
  \/ \E ip \in Addresses : AddNeighbor(ip) \/ DelNeighbor(ip)
  \/ \E d \in Dests :
       (\E nexthops \in NextHopSets : AddRoute(d, nexthops)) \/ DelRoute(d)

Spec == Init /\ [][Next]_vars
=============================================================================
