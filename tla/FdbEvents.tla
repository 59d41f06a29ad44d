----------------------------- MODULE FdbEvents -----------------------------
(***************************************************************************)
(* The FDB bookkeeping of the saithrift test server                        *)
(* (test/saithrift/src/saiserver.cpp, switch_sai_rpc_server.cpp).          *)
(*                                                                         *)
(* The SDK learns, moves, ages and flushes MAC entries and reports each    *)
(* change to on_fdb_event, on a thread of its own; the handler replays the *)
(* change on the vector gFdbMap.  The RPC thread (a TSimpleServer: one     *)
(* call at a time) creates, deletes and flushes entries in the ASIC and    *)
(* lists gFdbMap, without any lock.  The ASIC and its queue of             *)
(* notifications are external: they follow the text of inc/saifdb.h.       *)
(*                                                                         *)
(* Liberties names what the environment may do beyond the quietest SDK:    *)
(*   "batch"           several notifications in one call (count > 1)       *)
(*   "absent_bport"    a consolidated flush of all ports carries no        *)
(*                     SAI_FDB_ENTRY_ATTR_BRIDGE_PORT_ID                   *)
(*   "flush_static"    the client flushes static entries                   *)
(*   "delete_dynamic"  the client deletes an entry the switch learned      *)
(*   "overlap"         a notification arrives while the map is listed      *)
(***************************************************************************)
EXTENDS Naturals, Sequences, FiniteSets, SequencesExt

CONSTANTS Macs, Bvs, Bports, \* MAC addresses, vlans or bridges, bridge ports
          NullOid,           \* SAI_NULL_OBJECT_ID, also the zero MAC
          Absent,            \* an attribute that is not in data->attr
          Junk,              \* some object id no port has
          Flushing,          \* subset of {"one_by_one", "consolidated"}
          Liberties,
          MaxPending         \* bound: notifications under way

\* SAI_NULL_OBJECT_ID is the id of nothing, and an attribute that is missing is
\* no attribute.
ASSUME OidAssumption == /\ NullOid \notin Bports \cup Bvs
                        /\ Absent \notin Bports \cup {NullOid}

ASSUME BoundAssumption == MaxPending \in Nat

Oids == Bports \cup {NullOid, Junk}
Keys == [mac : Macs, bv : Bvs]
Entries == [mac : Macs, bv : Bvs, bport : Oids]
Events == {"LEARNED", "FLUSHED", "MOVE", "AGED"}
Data == [event_type : Events, mac : Macs \cup {NullOid},
         bv : Bvs \cup {NullOid}, bport : Bports \cup {NullOid, Absent}]

VARIABLES fdb,      \* the ASIC's table: key -> [bport, type]
          pending,  \* notifications the SDK has not delivered yet
          gFdbMap,  \* the server's vector of <entry, bridge port>
          rpc       \* the call the RPC thread is in

vars == <<fdb, pending, gFdbMap, rpc>>

Idle == [pc |-> "idle", attr_count |-> 0, it |-> 1, attr_list |-> <<>>, kept |-> {}]

Init ==
  /\ fdb = <<>>
  /\ pending = <<>>
  /\ gFdbMap = <<>>
  /\ rpc = Idle

-----------------------------------------------------------------------------
(* saiserver.cpp: the notification handler.  The operators X_... written before *)
(* an operator X are plausible slips in it, which the properties must notice.   *)

\* A flush of one vlan on every port is not recognised.
Flushes_NoVlan(bv_id, bport_id, e) ==
  \/ bv_id = NullOid /\ bport_id \in {NullOid, e.bport}
  \/ bv_id = e.bv /\ bport_id = e.bport

\* The bv_id and bport_id of a FLUSHED event: null means "any".
Flushes(bv_id, bport_id, e) ==
  \/ bv_id = NullOid /\ bport_id = NullOid
  \/ bport_id = NullOid /\ bv_id = e.bv
  \/ bv_id = NullOid /\ bport_id = e.bport
  \/ bv_id = e.bv /\ bport_id = e.bport

\* MOVE and AGED compare the MAC address and forget the vlan.
SameEntry_MacOnly(d, e) == d.mac = e.mac

SameEntry(d, e) == d.mac = e.mac /\ d.bv = e.bv

\* What is left of the first n elements of map when the loop that walks it erases
\* those at the places gone.
Left(map, gone) ==
  LET left[n \in 0 .. Len(map)] ==
        IF n = 0 THEN <<>>
        ELSE IF n \in gone THEN left[n - 1] ELSE Append(left[n - 1], map[n])
  IN  left

Erase(map, gone) == Left(map, gone)[Len(map)]

\* The case for FLUSHED is missing and the default case records the entry.
Replay_DefaultLearns(map, d, bport_id) ==
  CASE d.event_type = "MOVE" ->
         [i \in DOMAIN map |-> IF SameEntry(d, map[i])
                                THEN [map[i] EXCEPT !.bport = bport_id]
                                ELSE map[i]]
    [] d.event_type = "AGED" ->
         Erase(map, {i \in DOMAIN map : SameEntry(d, map[i])})
    [] OTHER -> Append(map, [mac |-> d.mac, bv |-> d.bv, bport |-> bport_id])

\* What on_fdb_event makes of the vector for one notification; bport_id is the
\* handler's local variable.
Replay(map, d, bport_id) ==
  CASE d.event_type = "LEARNED" ->
         Append(map, [mac |-> d.mac, bv |-> d.bv, bport |-> bport_id])
    [] d.event_type = "FLUSHED" ->
         Erase(map, {i \in DOMAIN map : Flushes(d.bv, bport_id, map[i])})
    [] d.event_type = "MOVE" ->
         [i \in DOMAIN map |-> IF SameEntry(d, map[i])
                                THEN [map[i] EXCEPT !.bport = bport_id]
                                ELSE map[i]]
    [] d.event_type = "AGED" ->
         Erase(map, {i \in DOMAIN map : SameEntry(d, map[i])})

\* bport_id is only assigned when the attribute is there; otherwise it holds
\* whatever was on the stack.
BportIds(d) == IF d.bport = Absent THEN Oids ELSE {d.bport}

\* How the listing thread's iterator fares when the vector under it changes:
\* growing may move the vector, shrinking may leave the iterator behind end(),
\* and then the loop never meets end() again.
Disturbed(map) ==
  IF rpc.pc # "listing" THEN {rpc}
  ELSE LET live == [rpc EXCEPT !.kept = @ \cap Range(map)]
           wild == [Idle EXCEPT !.pc = "crashed"]
       IN  IF Len(map) > Len(gFdbMap) THEN {live, wild}
           ELSE IF rpc.it > Len(map) + 1 THEN {wild}
           ELSE {live}

\* One call of on_fdb_event with count notifications: it looks at data[0] only.
on_fdb_event ==
  /\ pending # <<>>
  /\ rpc.pc \in {"idle", "replied"} \/ (rpc.pc = "listing" /\ "overlap" \in Liberties)
  /\ \E count \in 1 .. (IF "batch" \in Liberties THEN Len(pending) ELSE 1),
        bport_id \in BportIds(Head(pending)) :
       /\ gFdbMap' = Replay(gFdbMap, Head(pending), bport_id)
       /\ pending' = SubSeq(pending, count + 1, Len(pending))
       /\ rpc' \in Disturbed(gFdbMap')
  /\ UNCHANGED fdb
-----------------------------------------------------------------------------
(* The switch, external: every change of a dynamic entry is reported. *)

Room(n) == Len(pending) + n <= MaxPending

Report(event_type, k, bport) ==
  pending' = Append(pending, [event_type |-> event_type, mac |-> k.mac, bv |-> k.bv,
                              bport |-> bport])

Dynamic(k) == k \in DOMAIN fdb /\ fdb[k].type = "dynamic"

Without(S) == [k \in DOMAIN fdb \ S |-> fdb[k]]

Learn(k, port) ==
  /\ rpc.pc # "crashed" /\ Room(1) /\ k \notin DOMAIN fdb
  /\ fdb' = [x \in DOMAIN fdb \cup {k} |-> IF x = k THEN [bport |-> port, type |-> "dynamic"]
                                          ELSE fdb[x]]
  /\ Report("LEARNED", k, port)
  /\ UNCHANGED <<gFdbMap, rpc>>

Move(k, port) ==
  /\ rpc.pc # "crashed" /\ Room(1) /\ Dynamic(k) /\ fdb[k].bport # port
  /\ fdb' = [fdb EXCEPT ![k].bport = port]
  /\ Report("MOVE", k, port)
  /\ UNCHANGED <<gFdbMap, rpc>>

Age(k) ==
  /\ rpc.pc # "crashed" /\ Room(1) /\ Dynamic(k)
  /\ fdb' = Without({k})
  /\ Report("AGED", k, fdb[k].bport)
  /\ UNCHANGED <<gFdbMap, rpc>>

\* The entries a flush call removes; a null bport or bv stands for an attribute
\* the client left out.
Matching(bport, bv, types) ==
  {k \in DOMAIN fdb : /\ bport \in {NullOid, fdb[k].bport}
                      /\ bv \in {NullOid, k.bv}
                      /\ fdb[k].type \in types}

\* saifdb.h leaves it to the vendor to report a flush entry by entry or in one
\* consolidated event.
FlushReports(gone, bport, bv) ==
  (IF "one_by_one" \in Flushing
     THEN {[i \in DOMAIN s |-> [event_type |-> "FLUSHED", mac |-> s[i].mac, bv |-> s[i].bv,
                                bport |-> fdb[s[i]].bport]] : s \in SetToSeqs(gone)}
     ELSE {}) \cup
  (IF "consolidated" \in Flushing
     THEN {<<[event_type |-> "FLUSHED", mac |-> NullOid, bv |-> bv,
              bport |-> IF bport = NullOid /\ "absent_bport" \in Liberties
                          THEN Absent ELSE bport]>>}
     ELSE {})

-----------------------------------------------------------------------------
(* switch_sai_rpc_server.cpp: the calls of the test client *)

sai_thrift_create_fdb_entry(k, port) ==
  /\ rpc.pc = "idle" /\ k \notin DOMAIN fdb
  /\ fdb' = [x \in DOMAIN fdb \cup {k} |-> IF x = k THEN [bport |-> port, type |-> "static"]
                                          ELSE fdb[x]]
  /\ UNCHANGED <<pending, gFdbMap, rpc>>

sai_thrift_delete_fdb_entry(k) ==
  /\ rpc.pc = "idle" /\ k \in DOMAIN fdb
  /\ Dynamic(k) => "delete_dynamic" \in Liberties
  /\ fdb' = Without({k})
  /\ UNCHANGED <<pending, gFdbMap, rpc>>

FlushTypes == IF "flush_static" \in Liberties
                THEN {{"dynamic"}, {"static"}, {"dynamic", "static"}}
                ELSE {{"dynamic"}}

sai_thrift_flush_fdb_entries(bport, bv, types) ==
  /\ rpc.pc = "idle"
  /\ LET gone == Matching(bport, bv, types) IN
       /\ fdb' = Without(gone)
       /\ \E reports \in FlushReports(gone, bport, bv) :
            /\ Room(Len(reports))
            /\ pending' = pending \o reports
  /\ UNCHANGED <<gFdbMap, rpc>>

\* sai_thrift_get_fdb_entries, in its three parts: the size is read first, the
\* loop copies one entry per turn, and the reply is sent when the iterator
\* meets end().
BeginGet ==
  /\ rpc.pc = "idle"
  /\ rpc' = [pc |-> "listing", attr_count |-> Len(gFdbMap), it |-> 1, attr_list |-> <<>>,
             kept |-> Range(gFdbMap)]
  /\ UNCHANGED <<fdb, pending, gFdbMap>>

CopyNext ==
  /\ rpc.pc = "listing" /\ rpc.it <= Len(gFdbMap)
  /\ rpc' = [rpc EXCEPT !.it = @ + 1, !.attr_list = Append(@, gFdbMap[rpc.it])]
  /\ UNCHANGED <<fdb, pending, gFdbMap>>

Reply ==
  /\ rpc.pc = "listing" /\ rpc.it = Len(gFdbMap) + 1
  /\ rpc' = [rpc EXCEPT !.pc = "replied"]
  /\ UNCHANGED <<fdb, pending, gFdbMap>>

NextCall ==
  /\ rpc.pc = "replied"
  /\ rpc' = Idle
  /\ UNCHANGED <<fdb, pending, gFdbMap>>

Crashed ==
  /\ rpc.pc = "crashed"
  /\ UNCHANGED vars

Next ==
  \/ on_fdb_event
  \/ \E k \in Keys, port \in Bports : \/ Learn(k, port)
                                     \/ Move(k, port)
                                     \/ sai_thrift_create_fdb_entry(k, port)
  \/ \E k \in Keys : Age(k) \/ sai_thrift_delete_fdb_entry(k)
  \/ \E bport \in Bports \cup {NullOid}, bv \in Bvs \cup {NullOid}, types \in FlushTypes :
       sai_thrift_flush_fdb_entries(bport, bv, types)
  \/ BeginGet \/ CopyNext \/ Reply \/ NextCall \/ Crashed

Spec == Init /\ [][Next]_vars

\* The SDK thread keeps delivering and the RPC thread finishes the call it is in.
FairSpec ==
  /\ Spec
  /\ WF_vars(on_fdb_event)
  /\ WF_vars(CopyNext \/ Reply \/ NextCall)
-----------------------------------------------------------------------------
(* Properties *)

\* Every variable ranges over what its C++ counterpart can hold.
TypeOK ==
  /\ DOMAIN fdb \subseteq Keys
  /\ \A k \in DOMAIN fdb : fdb[k] \in [bport : Bports, type : {"dynamic", "static"}]
  /\ pending \in Seq(Data) /\ Len(pending) <= MaxPending
  /\ gFdbMap \in Seq(Entries)
  /\ rpc.pc \in {"idle", "listing", "replied", "crashed"}
  /\ rpc.attr_list \in Seq(Entries)
  /\ rpc.it \in Nat \ {0} /\ rpc.attr_count \in Nat

\* What the switch has learned, in the shape of the server's vector.
LearnedInAsic ==
  {[mac |-> k.mac, bv |-> k.bv, bport |-> fdb[k].bport] : k \in {x \in DOMAIN fdb : Dynamic(x)}}

\* Once every notification is delivered, gFdbMap lists each learned entry of the
\* switch with its port, once, and nothing else: the moves, ages and flushes
\* reported by on_fdb_event's four cases add up to what the switch did.
MapFollowsAsic ==
  (pending = <<>> /\ rpc.pc # "crashed") =>
    /\ Range(gFdbMap) = LearnedInAsic
    /\ Len(gFdbMap) = Cardinality(LearnedInAsic)

\* An entry the switch dropped leaves gFdbMap in the end, whichever event or
\* flush drops it, unless the switch learns it again or the listing thread has
\* run off the vector.
StaleEntriesLeave ==
  \A k \in Keys :
    (~ Dynamic(k)) ~> \/ Dynamic(k)
                     \/ rpc.pc = "crashed"
                     \/ \A i \in DOMAIN gFdbMap : ~ SameEntry(k, gFdbMap[i])

\* inc/saifdb.h: the callback gets count notifications in the array data, and
\* each of them is replayed.
EveryNotificationReplayed ==
  [][\A n \in DOMAIN pending :
       pending' = SubSeq(pending, n + 1, Len(pending)) =>
         gFdbMap' = FoldLeft(LAMBDA map, d : Replay(map, d, d.bport),
                             gFdbMap, SubSeq(pending, 1, n))]_gFdbMap

\* The comment on sai_thrift_get_fdb_entries: the reply lists all the entries of
\* the map, at least those that were there from the call to its reply.
ReplyListsEveryEntry ==
  rpc.pc = "replied" => rpc.kept \subseteq Range(rpc.attr_list)
=============================================================================
