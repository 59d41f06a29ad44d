------------------------------ MODULE MCFdbMgr ------------------------------
(* Values for TLC: see MCFdbMgr.cfg. *)
EXTENDS FdbMgr

CONSTANTS m1, m2, p1, p2

\* The switch may learn one of the addresses, in either vlan.
MCLearnable == [macAddr : {m1}, vlan_id : VlanIds]
=============================================================================
