----------------------------- MODULE SaiStore ------------------------------
(***************************************************************************)
(* The switch the PTF tests of src/ptf talk to, as far as those tests      *)
(* depend on it.  It is not part of the repository: what it does is taken  *)
(* from the calls the tests make, from the results they expect and from    *)
(* the attributes src/inc declares for an object.                          *)
(*                                                                         *)
(* The switch is a store: a function from names to objects.  A name stands *)
(* for the handle (or the entry) a test keeps in a variable.  An object is *)
(* a record of the attributes a test gives it; an attribute that is not    *)
(* there has its default value.  A port, or the switch itself, is in the   *)
(* store only while one of its attributes differs from the default.        *)
(***************************************************************************)
EXTENDS SaiObjects, Naturals, FiniteSets, Sequences, Functions

CONSTANT Ports            \* names of the front panel ports

Fixed == Ports \cup {"switch"}

(* attributes whose value is an object, and those whose value is a set of them *)
RefFields == {"vr", "rif", "port", "vlan", "bp", "lag", "nh", "group",
              "tunnel", "map", "obj", "dscp_to_tc", "tc_to_dscp",
              "table", "acl", "ecmp_hash_ipv4", "ecmp_hash_ipv6", "lag_hash_ipv4", "lag_hash_ipv6"}
SetFields == {"emaps", "dmaps", "objs"}

Refs(o) == ({o[f] : f \in DOMAIN o \cap RefFields}
              \cup UNION {o[f] : f \in DOMAIN o \cap SetFields}) \ (Fixed \cup {NULL})

(* entries are known by key, and the ports by name: the rest have handles *)
Handles(st) == {n \in DOMAIN st : st[n].kind \notin {"route", "nbor", "fdb", "inseg", "fixed"}}

(***************************************************************************)
(* Entries are found by key, so that two variables may name one entry.     *)
(***************************************************************************)
KeyFields == [route |-> {"vr", "dst"},
              nbor  |-> {"rif", "ip"},
              fdb   |-> {"vlan", "mac"},
              inseg |-> {"label"},
              lagm  |-> {"port"},
              vlanm |-> {"vlan", "bp"}]

SameKey(o, q) == /\ o.kind = q.kind
                 /\ o.kind \in DOMAIN KeyFields
                 /\ \A f \in KeyFields[o.kind] : o[f] = q[f]

(* A create is accepted when the objects it names exist and its key is new. *)
Creatable(st, n, o) == /\ n \notin DOMAIN st
                       /\ Refs(o) \subseteq Handles(st)
                       /\ \A m \in DOMAIN st : ~SameKey(st[m], o)

(* MUTANT of Removable: objects in use are removed too *)
Removable_InUse(st, n) == n \in DOMAIN st

(* A remove is refused for an object another one names (OBJECT_IN_USE). *)
Removable(st, n) == /\ n \in DOMAIN st
                    /\ \A m \in DOMAIN st : n \notin Refs(st[m])

Without(st, n) == Restrict(st, DOMAIN st \ {n})

With(st, n, o) == [m \in DOMAIN st \cup {n} |-> IF m = n THEN o ELSE st[m]]

(* v is << >> when the attribute is given its default, else <<value>> *)
Changed(o, f, v) == IF v = << >>
                    THEN Restrict(o, DOMAIN o \ {f})
                    ELSE [g \in DOMAIN o \cup {f} |-> IF g = f THEN v[1] ELSE o[g]]

(* an attribute the kind of object does not have is refused *)
Has(k, f) == f = "nh" => k \in {"route", "nhgm", "inseg"}

Now(st, n) == IF n \in DOMAIN st THEN st[n] ELSE Unset

Settable(st, n, f, v) == /\ n \in DOMAIN st \cup Fixed
                         /\ Has(Now(st, n).kind, f)
                         /\ Refs(Changed(Unset, f, v)) \subseteq Handles(st)

SetIn(st, n, f, v) ==
    LET o == Changed(Now(st, n), f, v)
    IN  IF o = Unset THEN Without(st, n) ELSE With(st, n, o)

=============================================================================
