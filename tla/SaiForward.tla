----------------------------- MODULE SaiForward ----------------------------
(***************************************************************************)
(* Where a switch with the objects of a store sends a packet, as the PTF   *)
(* tests expect it: routing, neighbors, bridging and tunnels.  A result is *)
(* a set of alternatives, one for each choice a hash may make: the ports   *)
(* the packet leaves through, the destination MAC address it has then, the *)
(* tunnel it was put into (peer, inner MAC address and VNI) or its MPLS    *)
(* labels, and where the TTL, the DSCP and, in a tunnel, the inner DSCP    *)
(* come from.                                                              *)
(***************************************************************************)
EXTENDS SaiStore

Outcome(ps, mac) == [to |-> ps, mac |-> mac, tun |-> << >>, qos |-> <<NULL, NULL, NULL>>]

Drop == {Outcome({}, NULL)}

OfKind(st, k) == {n \in DOMAIN st : st[n].kind = k}

Field(o, f) == IF f \in DOMAIN o THEN o[f] ELSE NULL

LagPorts(st, l) == {st[m].port : m \in {n \in OfKind(st, "lagm") : st[n].lag = l}}

(* the port itself, or the members of a LAG; of those, the ones it sends on *)
Under(st, p) == IF p \in Ports THEN {p} ELSE LagPorts(st, p)

Through(st, p) ==
    Under(st, p) \ {st[m].port : m \in {n \in OfKind(st, "lagm") : "egress_disable" \in DOMAIN st[n]}}

(* the ports and LAGs of the bridge ports that are members of a VLAN *)
Joined(st, v) ==
    {st[st[m].bp].port : m \in {n \in OfKind(st, "vlanm") :
                                    st[n].vlan = v /\ "port" \in DOMAIN st[st[n].bp]}}

(* a copy through each of the ports and LAGs ps that sends *)
Flood(st, ps) ==
    LET on == {p \in ps : Through(st, p) # {}}
    IN  {Range(c) : c \in {g \in [on -> UNION {Through(st, p) : p \in on}] :
                              \A p \in on : g[p] \in Through(st, p)}}

(* in a VLAN, to a MAC address, and not back to the port or LAG from *)
Bridged(st, v, mac, from) ==
    LET known == {n \in OfKind(st, "fdb") : st[n].vlan = v /\ st[n].mac = mac}
    IN  IF known = {} THEN Flood(st, Joined(st, v) \ {from})
        ELSE {{p} : p \in UNION {Through(st, st[st[n].bp].port) : n \in known}}

(* the sets of ports a packet to mac may take out of a router interface *)
OutOf(st, r, mac) ==
    CASE "port" \in DOMAIN st[r] -> {{p} : p \in Through(st, st[r].port)}
      [] "vlan" \in DOMAIN st[r] -> Bridged(st, st[r].vlan, mac, NULL)
      [] OTHER                   -> {{}}

(* the neighbor must be known for the packet to leave *)
ToNeighbor(st, r, ip) ==
    LET known == {n \in OfKind(st, "nbor") : st[n].rif = r /\ st[n].ip = ip}
    IN  IF known = {} THEN Drop
        ELSE UNION {{Outcome(ps, st[n].mac) : ps \in OutOf(st, r, st[n].mac)} : n \in known}

(* the routes that cover ip best: the ones that cover fewest addresses *)
Best(st, vr, ip) ==
    LET cover == {n \in OfKind(st, "route") : st[n].vr = vr /\ ip \in st[n].dst}
    IN  {n \in cover : \A m \in cover : Cardinality(st[n].dst) <= Cardinality(st[m].dst)}

(* a route may drop what it covers, or hand it to the CPU *)
Stops(o) == Field(o, "action") \in {"DROP", "TRAP"}

(* an address that is never routed *)
LinkLocal == "ll_ipv6"

(* a neighbor is a host route, unless NO_HOST_ROUTE says it is not *)
Hosts(st, vr, ip) ==
    {n \in OfKind(st, "nbor") : /\ st[n].ip = ip /\ ip # LinkLocal
                                /\ st[st[n].rif].vr = vr
                                /\ "nohost" \notin DOMAIN st[n]}

Members(st, g) == {st[m].nh : m \in {n \in OfKind(st, "nhgm") : st[n].group = g}}

(***************************************************************************)
(* A route leads to a next hop, a next hop group, a router interface (a    *)
(* connected prefix) or nowhere.  Via(nh) is what a next hop does.         *)
(***************************************************************************)
RoutedBy(st, vr, ip, Via(_)) ==
    LET best == Best(st, vr, ip)
        nh   == Field(st[CHOOSE n \in best : TRUE], "nh")
        via  == IF nh = NULL THEN {}
                ELSE IF st[nh].kind = "nhg" THEN Members(st, nh) ELSE {nh}
        own  == best # {} /\ Cardinality(st[CHOOSE n \in best : TRUE].dst) = 1
        host == Hosts(st, vr, ip)
    IN  IF host # {} /\ ~own THEN UNION {ToNeighbor(st, st[n].rif, ip) : n \in host}
        ELSE IF best = {} \/ via = {} \/ \E n \in best : Stops(st[n]) THEN Drop ELSE UNION {Via(m) : m \in via}

IpHop(st, nh, ip) ==
    IF st[nh].kind = "rif" THEN ToNeighbor(st, nh, ip)
                           ELSE ToNeighbor(st, st[nh].rif, st[nh].ip)

(***************************************************************************)
(* A next hop on a tunnel is the outer header's: it is routed again, in    *)
(* the virtual router of the tunnel's underlay interface.                  *)
(***************************************************************************)
Underlay(st, t) == st[st[t].rif].vr

(* the VNI of the next hop or, when it has none, of the virtual router *)
VniOf(st, vr, nh) ==
    LET own  == Field(st[nh], "vni")
        maps == IF "emaps" \in DOMAIN st[st[nh].tunnel] THEN st[st[nh].tunnel].emaps ELSE {}
        vnis == {st[e].encap : e \in {n \in OfKind(st, "entry") :
                    st[n].map \in maps /\ Field(st[n], "vr") = vr /\ "encap" \in DOMAIN st[n]}}
    IN  IF own = NULL /\ vnis # {} THEN CHOOSE v \in vnis : TRUE ELSE own

TunnelHeader(st, vr, nh) == <<st[nh].ip, Field(st[nh], "imac"), VniOf(st, vr, nh)>>

(***************************************************************************)
(* The TTL and the DSCP of the header a tunnel adds: those of the packet   *)
(* (left unsaid) or, in the pipe model, the tunnel's own.  Of a header it  *)
(* takes off: those of that header (left unsaid) or the inner ones.        *)
(***************************************************************************)
Value(t, mode, val) == IF Field(t, mode) # "PIPE" THEN NULL
                       ELSE IF val \in DOMAIN t THEN t[val] ELSE "default"
Inner(t, mode)      == IF Field(t, mode) # "PIPE" THEN NULL ELSE "inner"

OnEncap(t) == <<Value(t, "ettl", "ettlval"), Value(t, "edscp", "edscpval"), NULL>>
OnDecap(t) == <<Inner(t, "dttl"), Inner(t, "ddscp"), NULL>>

Encapsulated(st, vr, nh) ==
    {IF o.to = {} THEN o
     ELSE [o EXCEPT !.tun = TunnelHeader(st, vr, nh), !.qos = OnEncap(st[st[nh].tunnel])] :
        o \in RoutedBy(st, Underlay(st, st[nh].tunnel), st[nh].ip,
                       LAMBDA n : IpHop(st, n, st[nh].ip))}

(***************************************************************************)
(* An MPLS next hop puts its labels on top of those of the packet, or in   *)
(* the place of the topmost.  Their TTL is treated as a tunnel's.          *)
(***************************************************************************)
IsMpls(o) == DOMAIN o \cap {"push", "swap"} # {}

Stack(o, labels) == IF "push" \in DOMAIN o THEN o.push \o labels
                    ELSE IF "swap" \in DOMAIN o THEN o.swap \o Tail(labels)
                    ELSE labels

WithLabels(outs, labels, ttl) ==
    {IF o.to = {} THEN o ELSE [o EXCEPT !.tun = labels, !.qos = <<ttl, NULL, NULL>>] : o \in outs}

LabelHop(st, n, labels) ==
    WithLabels(IpHop(st, n, NULL), Stack(st[n], labels), Value(st[n], "ettl", "ettlval"))

Routed(st, vr, ip) ==
    RoutedBy(st, vr, ip,
             LAMBDA n : IF "tunnel" \in DOMAIN st[n] THEN Encapsulated(st, vr, n)
                        ELSE IF IsMpls(st[n]) THEN LabelHop(st, n, << >>)
                        ELSE IpHop(st, n, ip))

(***************************************************************************)
(* The topmost label selects an entry, which takes labels off (none when   *)
(* it does not say how many) and leads to a next hop, a group or the       *)
(* router interface that routes what is left.  In the uniform model the IP *)
(* header gets the TTL of the label (left unsaid); a label that comes to   *)
(* the top keeps its own.                                                  *)
(***************************************************************************)
Popped(e, labels) ==
    IF "pop" \in DOMAIN e THEN SubSeq(labels, e.pop + 1, Len(labels)) ELSE labels

ByLabel(st, e, p) ==
    LET left == Popped(e, p.labels)
        ttl  == IF left = << >> THEN Inner(e, "pttl") ELSE "inner"
        hops == IF st[e.nh].kind = "nhg" THEN Members(st, e.nh) ELSE {e.nh}
        Out(n) == CASE st[n].kind = "rif" /\ left = << >> ->
                          WithLabels(Routed(st, st[n].vr, p.dst), << >>, ttl)
                    [] st[n].kind = "rif" -> Drop
                    [] IsMpls(st[n])      -> LabelHop(st, n, left)
                    [] OTHER              -> WithLabels(IpHop(st, n, NULL), left, ttl)
    IN  UNION {Out(n) : n \in hops}

LabelSwitched(st, p) ==
    LET es == {n \in OfKind(st, "inseg") : st[n].label = Head(p.labels)}
    IN  IF \E n \in es : ~Stops(st[n]) /\ "nh" \in DOMAIN st[n]
        THEN UNION {ByLabel(st, st[n], p) : n \in es} ELSE Drop

-----------------------------------------------------------------------------
(***************************************************************************)
(* A packet p comes in on the port p.in: p.dst is its destination, and the *)
(* inner one when p.outer is the address of the outer header; p.vid is its *)
(* VLAN tag for a sub port, p.vni the VNI, p.from the outer source and     *)
(* p.labels its MPLS labels, the topmost first.  A packet that is not for  *)
(* the router is bridged, to p.mac, in the VLAN of its tag or of its port; *)
(* a disabled member of a LAG takes none in.                               *)
(***************************************************************************)
Source(st, port) ==
    LET lags == {st[m].lag : m \in {n \in OfKind(st, "lagm") : st[n].port = port}}
    IN  IF lags = {} THEN port ELSE CHOOSE l \in lags : TRUE

VlanOf(st, p) == IF "tag" \in DOMAIN p THEN p.tag ELSE "vlan" \o st[Source(st, p.in)].pvid

Shut(st, port) ==
    \E m \in OfKind(st, "lagm") : st[m].port = port /\ "ingress_disable" \in DOMAIN st[m]

Switched(st, p) ==
    LET v == VlanOf(st, p)
    IN  IF Shut(st, p.in) \/ Source(st, p.in) \notin Joined(st, v) THEN Drop
        ELSE {Outcome(ps, IF ps = {} THEN NULL ELSE p.mac) :
                 ps \in Bridged(st, v, p.mac, Source(st, p.in))}

InRifs(st, p) ==
    {r \in OfKind(st, "rif") :
        /\ Field(st[r], "vid") = Field(p, "vid")
        /\ \/ "port" \in DOMAIN st[r] /\ p.in \in Under(st, st[r].port)
           \/ /\ "vlan" \in DOMAIN st[r]
              /\ \E q \in Joined(st, st[r].vlan) : p.in \in Under(st, q)}

(* the tunnel termination entries of the virtual router that match *)
Terms(st, vr, p) ==
    {n \in OfKind(st, "term") : /\ st[n].vr = vr
                                /\ st[n].dst = p.outer
                                /\ Field(st[n], "src") \in {NULL, Field(p, "from")}}

(* what a tunnel's mappers give for a VNI; an entry says itself what it maps *)
Mapped(st, t, vni, to) ==
    {st[e][to] : e \in {n \in OfKind(st, "entry") :
                           /\ st[n].map \in st[t].emaps \cup st[t].dmaps
                           /\ Field(st[n], "decap") = vni
                           /\ to \in DOMAIN st[n]}}

(***************************************************************************)
(* The packet a tunnel took out of its header.  A virtual router gets what *)
(* is sent to the router's MAC address; a VLAN bridges what is not, and    *)
(* routes the rest by its router interface.                                *)
(***************************************************************************)
Inside(st, t, p) ==
    LET vrs   == IF "over" \in DOMAIN st[t] THEN {st[st[t].over].vr}
                                            ELSE Mapped(st, t, p.vni, "vr")
        vlans == IF "over" \in DOMAIN st[t] THEN {} ELSE Mapped(st, t, p.vni, "tovlan")
        rifs  == {r \in OfKind(st, "rif") : Field(st[r], "vlan") \in vlans}
        l2    == "mac" \in DOMAIN p
        outs  == CASE vrs # {} /\ ~l2 -> UNION {Routed(st, v, p.dst) : v \in vrs}
                   [] vrs = {} /\ ~l2 /\ rifs # {} -> UNION {Routed(st, st[r].vr, p.dst) : r \in rifs}
                   [] vrs = {} /\ l2 /\ vlans # {} ->
                        {Outcome(ps, p.mac) : ps \in UNION {Bridged(st, v, p.mac, NULL) : v \in vlans}}
                   [] OTHER -> Drop
    IN  {IF o.to = {} THEN o ELSE [o EXCEPT !.qos = OnDecap(st[t])] : o \in outs}

(* the entries of the ingress ACL of an interface that match; they redirect *)
Matches(st, r, p) ==
    {n \in OfKind(st, "aclentry") : st[n].table = Field(st[r], "acl") /\ p.dst \in st[n].match}

Redirected(st, nh, ip) ==
    {[o EXCEPT !.mac = NULL] :
        o \in UNION {IpHop(st, n, ip) : n \in IF st[nh].kind = "nhg" THEN Members(st, nh) ELSE {nh}}}

(* p.off is the attribute that stops the packets of its family *)
Unmarked(st, p) ==
    LET in  == InRifs(st, p)
        rif == CHOOSE r \in in : TRUE
        vr  == st[rif].vr
        acl == Matches(st, rif, p)
    IN  IF in = {} THEN Drop
        ELSE IF acl # {} THEN UNION {Redirected(st, st[n].nh, p.dst) : n \in acl}
        ELSE IF Field(p, "off") \in DOMAIN st[vr] THEN Drop
        ELSE IF "labels" \in DOMAIN p THEN LabelSwitched(st, p)
        ELSE IF "outer" \notin DOMAIN p THEN Routed(st, vr, p.dst)
        ELSE IF Terms(st, vr, p) = {} THEN Routed(st, vr, p.outer)
        ELSE UNION {Inside(st, st[n].tunnel, p) : n \in Terms(st, vr, p)}

(***************************************************************************)
(* A port that maps DSCP to a traffic class and one that maps it back      *)
(* rewrite the DSCP; a tunnel header that has its own keeps it.            *)
(***************************************************************************)
Given(st, p, f) == p \in DOMAIN st /\ f \in DOMAIN st[p]

Remarked(o) ==
    [o EXCEPT !.qos = IF o.tun = << >> THEN <<o.qos[1], "rewritten", NULL>>
                      ELSE <<o.qos[1], IF o.qos[2] = NULL THEN "rewritten" ELSE o.qos[2],
                             "rewritten">>]

Forward(st, p) ==
    {IF Given(st, p.in, "dscp_to_tc") /\ \E q \in o.to : Given(st, q, "tc_to_dscp")
     THEN Remarked(o) ELSE o :
        o \in IF "bridged" \in DOMAIN p THEN Switched(st, p) ELSE Unmarked(st, p)}

=============================================================================
