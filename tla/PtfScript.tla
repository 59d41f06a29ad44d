----------------------------- MODULE PtfScript -----------------------------
(***************************************************************************)
(* The steps the PTF tests of src/ptf are made of, and the objects they    *)
(* create.  A script is a sequence of steps; every operator here that      *)
(* makes steps returns a script, and \o puts one after another.            *)
(***************************************************************************)
EXTENDS SaiObjects, Naturals, SequencesExt, TLC

(* sai_thrift_create_*, and the variable that keeps the handle or the entry *)
New(n, o) == <<[op |-> "create", n |-> n, o |-> o]>>

(* a create, and an assertion that its handle is not SAI_NULL_OBJECT_ID *)
Sure(n, o) == New(n, o) \o <<[op |-> "made", n |-> n]>>

(* a create of an entry, and an assertion that its status is success *)
Must(n, o) == <<[op |-> "must", n |-> n, o |-> o]>>

(* a create of an entry, and an assertion that its status is not success *)
Deny(n, o) == <<[op |-> "deny", n |-> n, o |-> o]>>

(* one create after another: objs gives each name its object *)
Make(objs, ns) == [i \in DOMAIN ns |-> [op |-> "create", n |-> ns[i], o |-> objs[ns[i]]]]

(* sai_thrift_remove_*, of the objects of ns in that order *)
Del(ns) == [i \in DOMAIN ns |-> [op |-> "remove", n |-> ns[i]]]

(* sai_thrift_set_*_attribute, to a value and back to the default *)
Set(n, f, v) == <<[op |-> "set", n |-> n, f |-> f, v |-> <<v>>]>>
Reset(n, f)  == <<[op |-> "set", n |-> n, f |-> f, v |-> << >>]>>

(* an assertion, or a packet whose way this model does not follow *)
Check == <<[op |-> "check"]>>

(* a call of a method that does not exist, or a read of a missing attribute *)
Raise == <<[op |-> "raise"]>>

(* k checks *)
Checks(k) == [i \in 1..k |-> [op |-> "check"]]

(* send_packet of p, and a verify_* that accepts the outcomes out *)
Expect(p, out) == <<[op |-> "check", p |-> p, out |-> out]>>

(* try: body finally: fin *)
Try(body, fin) == <<[op |-> "try", len |-> Len(body)]>> \o body
                    \o <<[op |-> "finally"]>> \o fin \o <<[op |-> "end"]>>

(* except: s, and the exception is raised again; in front of a finally *)
Except(s) == <<[op |-> "except", len |-> Len(s)]>> \o s

(* if n: s, where n is a handle or a flag that says it was created *)
When(n, s) == <<[op |-> "when", n |-> n, len |-> Len(s)]>> \o s

(* sai_thrift_flush_fdb_entries of all entries, the static ones too *)
Flush == <<[op |-> "flush"]>>

(* a packet the test sends that the switch learns the address mac from *)
Learn(vlan, mac, bp) == <<[op |-> "learn", n |-> "learned_" \o mac, o |-> Fdb(vlan, mac, bp)]>>

Skip(s) == <<[op |-> "skip", len |-> Len(s)]>>

(* if n: a else: b, and a or b as a random number has it *)
IfElse(n, a, b) == <<[op |-> "when", n |-> n, len |-> Len(a) + 1]>> \o a \o Skip(b) \o b
Either(a, b)    == <<[op |-> "either", len |-> Len(a) + 1]>> \o a \o Skip(b) \o b

(* one of the scripts ss *)
OneOf(ss) == LET from[i \in DOMAIN ss] ==
                 IF i + 1 \in DOMAIN ss THEN Either(ss[i], from[i + 1]) ELSE ss[i]
             IN  from[1]

(* the names a script assigns *)
Assigned(s) == {s[i].n : i \in {k \in DOMAIN s : s[k].op \in {"create", "must", "deny"}}}

(* a method with its own variables: all it assigns but the attributes self *)
Method(self, s) == <<[op |-> "call", locals |-> Assigned(s) \ self]>> \o s

(* a unittest.TestCase: tearDown runs only when setUp has come to its end *)
Case(setUp, body, tearDown) ==
    setUp \o Try(Method(Assigned(setUp), body), tearDown)

(* F(1) to F(n), and F of each element of s, one after the other *)
Upto(n, F(_)) == LET first[i \in 0..n] == IF i = 0 THEN << >> ELSE first[i - 1] \o F(i)
                 IN  first[n]

For(s, F(_)) == Upto(Len(s), LAMBDA i : F(s[i]))

(* the names p, p_1, p_2 ... a loop gives *)
Numbered(p, k) == [i \in 1..k |-> p \o ToString(i)]

-----------------------------------------------------------------------------
(* what a verify_* accepts *)
Result(ps, mac, hdr, qos) == [to |-> ps, mac |-> mac, tun |-> hdr, qos |-> qos]

AsIs == <<NULL, NULL, NULL>>

Nothing == {Result({}, NULL, << >>, AsIs)}

(* the packet through one of the ports ps, or a copy through each of them *)
Plain(ps, mac)  == {Result({p}, mac, << >>, AsIs) : p \in ps}
Copies(ps, mac) == {Result(ps, mac, << >>, AsIs)}

(* verify_any_packet_any_port: with any of the addresses, through any of the ports *)
AnyPacket(ps, macs) == {Result({p}, m, << >>, AsIs) : p \in ps, m \in macs}

(* the packet in the tunnel header hdr, through one of the ports ps *)
InTunnel(ps, mac, hdr) == {Result({p}, mac, hdr, AsIs) : p \in ps}

(* the same, with what became of the TTL and the DSCP *)
Marked(rs, qos) == {[r EXCEPT !.qos = qos] : r \in rs}

=============================================================================
