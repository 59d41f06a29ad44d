-------------------------- MODULE FdbEventsProofs ---------------------------
(***************************************************************************)
(* What the test server's vector promises for every set of addresses,      *)
(* vlans and ports: its types, whatever the switch and the client do; that *)
(* it follows the switch, with every kind of flush, as long as the         *)
(* notifications come one by one and cover what was dropped; and that a    *)
(* listing nobody disturbs is complete.                                    *)
(***************************************************************************)
EXTENDS FdbEvents, FiniteSetTheorems, WellFoundedInduction, TLAPS

-----------------------------------------------------------------------------
(* Erasing from a vector. *)

\* Induction over the numbers, for a set of them.
LEMMA Induction ==
  ASSUME NEW T, 0 \in T, \A n \in Nat : n \in T => n + 1 \in T
  PROVE  Nat \subseteq T
<1> SUFFICES ASSUME NEW m \in Nat, m \notin T PROVE FALSE
  OBVIOUS
<1> DEFINE B == {n \in Nat : n \notin T}
<1>1. IsWellFoundedOn(OpToRel(<, Nat), Nat)
  BY NatLessThanWellFounded
<1>2. PICK x \in B : \A y \in B : ~ (<<y, x>> \in OpToRel(<, Nat))
  BY <1>1, WFMin, Zenon
<1>3. \A y \in Nat : y < x => <<y, x>> \in OpToRel(<, Nat)
  BY <1>2 DEF OpToRel
<1>4. x \in Nat /\ x \notin T
  BY <1>2
<1>5. x # 0
  BY <1>4
<1>6. x - 1 \in Nat /\ x - 1 < x /\ x = (x - 1) + 1
  BY <1>4, <1>5
<1>7. x - 1 \in T
  BY <1>2, <1>3, <1>6
<1> QED
  BY <1>4, <1>6, <1>7

\* Left(map, gone) is the function its definition describes.
LEMMA LeftIsRecursive ==
  ASSUME NEW map, NEW gone, Len(map) \in Nat
  PROVE  /\ DOMAIN Left(map, gone) = 0 .. Len(map)
         /\ Left(map, gone)[0] = <<>>
         /\ \A n \in 1 .. Len(map) :
              Left(map, gone)[n] = IF n \in gone THEN Left(map, gone)[n - 1]
                                   ELSE Append(Left(map, gone)[n - 1], map[n])
<1> DEFINE Step(g, n) == IF n = 0 THEN <<>>
                         ELSE IF n \in gone THEN g[n - 1] ELSE Append(g[n - 1], map[n])
           T == {m \in Nat : \E g : g = [n \in 0 .. m |-> Step(g, n)]}
<1>1. 0 \in T
  <2>1. [n \in 0 .. 0 |-> <<>>] = [n \in 0 .. 0 |-> Step([k \in 0 .. 0 |-> <<>>], n)]
    OBVIOUS
  <2> QED
    BY <2>1
<1>2. ASSUME NEW m \in Nat, m \in T
      PROVE  m + 1 \in T
  <2>1. PICK g : g = [n \in 0 .. m |-> Step(g, n)]
    BY <1>2
  <2> DEFINE h == [n \in 0 .. m + 1 |-> IF n <= m THEN g[n] ELSE Step(g, n)]
  <2>2. ASSUME NEW n \in 0 .. m + 1
        PROVE  h[n] = Step(h, n)
    <3>1. n # 0 => n - 1 \in 0 .. m /\ h[n - 1] = g[n - 1]
      OBVIOUS
    <3>2. CASE n <= m
      <4>1. n \in 0 .. m /\ h[n] = g[n]
        BY <3>2
      <4> HIDE DEF h
      <4>2. g[n] = Step(g, n)
        BY <2>1, <4>1
      <4> QED
        BY <3>1, <4>1, <4>2
    <3>3. CASE ~ (n <= m)
      <4>1. h[n] = Step(g, n)
        BY <3>3
      <4> QED
        BY <3>1, <4>1
    <3> QED
      BY <3>2, <3>3
  <2> HIDE DEF Step
  <2>3. h = [n \in 0 .. m + 1 |-> Step(h, n)]
    BY <2>2
  <2>4. \E f : f = [n \in 0 .. m + 1 |-> Step(f, n)]
    BY <2>3
  <2> QED
    BY <2>4
<1>3. Nat \subseteq T
  BY <1>1, <1>2, Induction
<1>4. \E g : g = [n \in 0 .. Len(map) |-> Step(g, n)]
  BY <1>3
<1> DEFINE f == Left(map, gone)
<1>5. f = [n \in 0 .. Len(map) |-> Step(f, n)]
  BY <1>4, Zenon DEF Left
<1> HIDE DEF f, Step
<1>6. /\ DOMAIN f = 0 .. Len(map)
      /\ \A n \in 0 .. Len(map) : f[n] = Step(f, n)
  BY <1>5
<1>7. f[0] = Step(f, 0) /\ \A n \in 1 .. Len(map) : f[n] = Step(f, n)
  BY <1>6
<1>8. /\ f[0] = <<>>
      /\ \A n \in 1 .. Len(map) : f[n] = IF n \in gone THEN f[n - 1] ELSE Append(f[n - 1], map[n])
  BY <1>7 DEF Step
<1> QED
  BY <1>6, <1>8 DEF f

\* s lists the elements of map at the places I, each once.
Selection(s, map, I) ==
  \E h \in [DOMAIN s -> I] :
     /\ \A j \in DOMAIN s : s[j] = map[h[j]]
     /\ \A j, k \in DOMAIN s : h[j] = h[k] => j = k
     /\ \A i \in I : \E j \in DOMAIN s : h[j] = i

\* One more element of a selection.
LEMMA SelectionGrows ==
  ASSUME NEW A, NEW s \in Seq(A), NEW map, NEW I, NEW i, i \notin I, map[i] \in A,
         Selection(s, map, I)
  PROVE  Append(s, map[i]) \in Seq(A) /\ Selection(Append(s, map[i]), map, I \cup {i})
<1> DEFINE t == Append(s, map[i])
<1>1. /\ t \in Seq(A) /\ DOMAIN s = 1 .. Len(s) /\ Len(s) \in Nat
      /\ DOMAIN t = 1 .. Len(s) + 1 /\ t[Len(s) + 1] = map[i]
      /\ \A j \in DOMAIN s : t[j] = s[j]
  OBVIOUS
<1>2. PICK h \in [DOMAIN s -> I] :
        /\ \A j \in DOMAIN s : s[j] = map[h[j]]
        /\ \A j, k \in DOMAIN s : h[j] = h[k] => j = k
        /\ \A x \in I : \E j \in DOMAIN s : h[j] = x
  BY DEF Selection
<1> DEFINE g == [j \in DOMAIN t |-> IF j \in DOMAIN s THEN h[j] ELSE i]
<1> HIDE DEF t
<1>3. /\ g \in [DOMAIN t -> I \cup {i}] /\ g[Len(s) + 1] = i
      /\ \A j \in DOMAIN s : j \in DOMAIN t /\ g[j] = h[j] /\ h[j] \in I
      /\ Len(s) + 1 \in DOMAIN t
  BY <1>1, <1>2
<1> HIDE DEF g
<1>4. \A j \in DOMAIN t : j \in DOMAIN s \/ j = Len(s) + 1
  BY <1>1
<1>5. \A j \in DOMAIN t : t[j] = map[g[j]]
  BY <1>1, <1>2, <1>3, <1>4
<1>6. \A j, k \in DOMAIN t : g[j] = g[k] => j = k
  BY <1>2, <1>3, <1>4
<1>7. \A x \in I \cup {i} : \E j \in DOMAIN t : g[j] = x
  BY <1>2, <1>3
<1>8. Selection(t, map, I \cup {i})
  BY <1>3, <1>5, <1>6, <1>7 DEF Selection
<1> QED
  BY <1>1, <1>8 DEF t

\* Erasing leaves the other elements of a vector, each once.
LEMMA ErasedVector ==
  ASSUME NEW A, NEW map \in Seq(A), NEW gone
  PROVE  /\ Erase(map, gone) \in Seq(A)
         /\ Selection(Erase(map, gone), map, DOMAIN map \ gone)
<1> DEFINE left == Left(map, gone)
           T == {n \in Nat : n <= Len(map) => /\ left[n] \in Seq(A)
                                              /\ Selection(left[n], map, (1 .. n) \ gone)}
<1>1. Len(map) \in Nat /\ DOMAIN map = 1 .. Len(map) /\ \A i \in 1 .. Len(map) : map[i] \in A
  OBVIOUS
<1>2. /\ left[0] = <<>>
      /\ \A n \in 1 .. Len(map) :
           left[n] = IF n \in gone THEN left[n - 1] ELSE Append(left[n - 1], map[n])
  BY <1>1, LeftIsRecursive
<1> HIDE DEF left
<1>3. 0 \in T
  <2>1. left[0] \in Seq(A) /\ DOMAIN left[0] = {} /\ (1 .. 0) \ gone = {}
    BY <1>2
  <2>2. [j \in {} |-> 0] \in [DOMAIN left[0] -> (1 .. 0) \ gone]
    BY <2>1
  <2>3. Selection(left[0], map, (1 .. 0) \ gone)
    BY <2>1, <2>2 DEF Selection
  <2> QED
    BY <2>1, <2>3
<1>4. ASSUME NEW n \in Nat, n \in T
      PROVE  n + 1 \in T
  <2> SUFFICES ASSUME n + 1 <= Len(map)
               PROVE  left[n + 1] \in Seq(A) /\ Selection(left[n + 1], map, (1 .. n + 1) \ gone)
    OBVIOUS
  <2>1. left[n] \in Seq(A) /\ Selection(left[n], map, (1 .. n) \ gone)
    BY <1>1, <1>4
  <2>2. n + 1 \in 1 .. Len(map) /\ (n + 1) - 1 = n
    BY <1>1
  <2>3. CASE n + 1 \in gone
    <3>1. left[n + 1] = left[n]
      BY <1>2, <2>2, <2>3
    <3>2. (1 .. n + 1) \ gone = (1 .. n) \ gone
      BY <2>3
    <3> QED
      BY <2>1, <3>1, <3>2
  <2>4. CASE n + 1 \notin gone
    <3>1. left[n + 1] = Append(left[n], map[n + 1])
      BY <1>2, <2>2, <2>4
    <3>2. (1 .. n + 1) \ gone = ((1 .. n) \ gone) \cup {n + 1} /\ n + 1 \notin (1 .. n) \ gone
      BY <2>4
    <3>3. map[n + 1] \in A
      BY <1>1, <2>2
    <3> DEFINE I == (1 .. n) \ gone
    <3>4. Selection(left[n], map, I) /\ left[n] \in Seq(A) /\ n + 1 \notin I
      BY <2>1, <3>2
    <3> HIDE DEF I
    <3>5. /\ Append(left[n], map[n + 1]) \in Seq(A)
          /\ Selection(Append(left[n], map[n + 1]), map, I \cup {n + 1})
      BY <3>3, <3>4, SelectionGrows
    <3> QED
      BY <3>1, <3>2, <3>5 DEF I
  <2> QED
    BY <2>3, <2>4
<1>5. Nat \subseteq T
  BY <1>3, <1>4, Induction
<1>6. Len(map) \in T
  <2> HIDE DEF T
  <2> QED
    BY <1>1, <1>5
<1>7. left[Len(map)] \in Seq(A) /\ Selection(left[Len(map)], map, (1 .. Len(map)) \ gone)
  BY <1>1, <1>6
<1> QED
  BY <1>1, <1>7 DEF Erase, left

-----------------------------------------------------------------------------
(* Types.  The notifications the switch sends are narrower than Data: only a *)
(* flush leaves an attribute null or out.                                    *)

Notes == {d \in Data : d.event_type # "FLUSHED" =>
                         d.mac \in Macs /\ d.bv \in Bvs /\ d.bport \in Bports}

Tables(f) == /\ IsFiniteSet(DOMAIN f) /\ DOMAIN f \subseteq Keys
             /\ \A k \in DOMAIN f : f[k] \in [bport : Bports, type : {"dynamic", "static"}]

Calls == [pc : {"idle", "listing", "replied", "crashed"}, attr_count : Nat, it : Nat \ {0},
          attr_list : Seq(Entries), kept : SUBSET Entries]

TypeInv ==
  /\ Tables(fdb)
  /\ pending \in Seq(Notes) /\ Len(pending) <= MaxPending
  /\ gFdbMap \in Seq(Entries)
  /\ rpc \in Calls

\* What a notification is.
LEMMA NoteFields ==
  ASSUME NEW d \in Notes
  PROVE  /\ d.event_type \in Events
         /\ d.mac \in Macs \cup {NullOid} /\ d.bv \in Bvs \cup {NullOid}
         /\ d.bport \in Bports \cup {NullOid, Absent}
         /\ d.event_type # "FLUSHED" => d.mac \in Macs /\ d.bv \in Bvs /\ d.bport \in Bports
BY DEF Notes, Data

LEMMA EntryFields ==
  ASSUME NEW e \in Entries
  PROVE  /\ e.mac \in Macs /\ e.bv \in Bvs /\ e.bport \in Oids
         /\ e = [mac |-> e.mac, bv |-> e.bv, bport |-> e.bport]
         /\ [mac |-> e.mac, bv |-> e.bv] \in Keys
BY DEF Entries, Keys

\* An entry with another port.
LEMMA MovedEntry ==
  ASSUME NEW e \in Entries, NEW b \in Oids
  PROVE  /\ [e EXCEPT !.bport = b] = [mac |-> e.mac, bv |-> e.bv, bport |-> b]
         /\ [e EXCEPT !.bport = b] \in Entries
BY DEF Entries

\* The port is only in doubt for a flush.
LEMMA PortIsKnown ==
  ASSUME NEW d \in Notes, NEW b \in BportIds(d)
  PROVE  b \in Oids /\ (d.bport # Absent => b = d.bport)
BY NoteFields, OidAssumption DEF BportIds, Oids

\* One turn of the handler keeps a vector of entries.
LEMMA ReplayKeepsType ==
  ASSUME NEW map \in Seq(Entries), NEW d \in Notes, NEW b \in BportIds(d)
  PROVE  Replay(map, d, b) \in Seq(Entries)
<1>1. b \in Oids /\ d.event_type \in Events
  BY PortIsKnown, NoteFields
<1>2. \A gone : Erase(map, gone) \in Seq(Entries)
  BY ErasedVector
<1>3. CASE d.event_type = "LEARNED"
  <2>1. [mac |-> d.mac, bv |-> d.bv, bport |-> b] \in Entries
    BY <1>1, <1>3, NoteFields DEF Entries
  <2>2. Replay(map, d, b) = Append(map, [mac |-> d.mac, bv |-> d.bv, bport |-> b])
    BY <1>3 DEF Replay
  <2> QED
    BY <2>1, <2>2
<1>4. CASE d.event_type = "FLUSHED"
  BY <1>2, <1>4 DEF Replay
<1>5. CASE d.event_type = "MOVE"
  <2> DEFINE At(i) == IF SameEntry(d, map[i]) THEN [map[i] EXCEPT !.bport = b] ELSE map[i]
  <2>1. Replay(map, d, b) = [i \in 1 .. Len(map) |-> At(i)]
    BY <1>5 DEF Replay
  <2>2. \A i \in 1 .. Len(map) : At(i) \in Entries
    <3> TAKE i \in 1 .. Len(map)
    <3>1. map[i] \in Entries
      OBVIOUS
    <3> QED
      BY <1>1, <3>1, MovedEntry
  <2> HIDE DEF At
  <2>3. [i \in 1 .. Len(map) |-> At(i)] \in Seq(Entries)
    BY <2>2
  <2> QED
    BY <2>1, <2>3
<1>6. CASE d.event_type = "AGED"
  BY <1>2, <1>6 DEF Replay
<1> QED
  BY <1>1, <1>3, <1>4, <1>5, <1>6 DEF Events

\* A report of the switch, queued.
LEMMA ReportIsNote ==
  ASSUME NEW t \in {"LEARNED", "MOVE", "AGED"}, NEW k \in Keys, NEW port \in Bports
  PROVE  [event_type |-> t, mac |-> k.mac, bv |-> k.bv, bport |-> port] \in Notes
BY DEF Notes, Data, Events, Keys

\* The reports of a flush are notifications.
LEMMA FlushReportsTyped ==
  ASSUME Tables(fdb), NEW bport \in Bports \cup {NullOid}, NEW bv \in Bvs \cup {NullOid},
         NEW gone \in SUBSET DOMAIN fdb, NEW reports \in FlushReports(gone, bport, bv)
  PROVE  reports \in Seq(Notes)
<1> DEFINE R(s, i) == [event_type |-> "FLUSHED", mac |-> s[i].mac, bv |-> s[i].bv,
                       bport |-> fdb[s[i]].bport]
           Consolidated == [event_type |-> "FLUSHED", mac |-> NullOid, bv |-> bv,
                            bport |-> IF bport = NullOid /\ "absent_bport" \in Liberties
                                        THEN Absent ELSE bport]
<1>1. CASE \E s \in SetToSeqs(gone) : reports = [i \in DOMAIN s |-> R(s, i)]
  <2>1. PICK s \in SetToSeqs(gone) : reports = [i \in DOMAIN s |-> R(s, i)]
    BY <1>1
  <2>2. s \in [1 .. Cardinality(gone) -> gone]
    BY DEF SetToSeqs
  <2>3. Cardinality(gone) \in Nat
    BY FS_Subset, FS_CardinalityType DEF Tables
  <2>4. \A i \in DOMAIN s : R(s, i) \in Notes
    <3> TAKE i \in DOMAIN s
    <3>1. s[i] \in Keys /\ fdb[s[i]].bport \in Bports
      BY <2>2 DEF Tables
    <3> QED
      BY <3>1 DEF Notes, Data, Events, Keys
  <2> HIDE DEF R
  <2>5. [i \in 1 .. Cardinality(gone) |-> R(s, i)] \in Seq(Notes)
    BY <2>2, <2>3, <2>4
  <2> QED
    BY <2>1, <2>2, <2>5
<1>2. CASE reports = <<Consolidated>>
  <2>1. Consolidated \in Notes
    BY DEF Notes, Data, Events
  <2> HIDE DEF Consolidated
  <2> QED
    BY <1>2, <2>1
<1> HIDE DEF Consolidated
<1>3. (\E s \in SetToSeqs(gone) : reports = [i \in DOMAIN s |-> R(s, i)])
        \/ reports = <<Consolidated>>
  BY DEF FlushReports, Consolidated
<1> QED
  BY <1>1, <1>2, <1>3

\* The table loses some keys, or gets one.
LEMMA TableSteps ==
  ASSUME Tables(fdb)
  PROVE  /\ \A S : Tables(Without(S))
         /\ \A k \in Keys, e \in [bport : Bports, type : {"dynamic", "static"}] :
              Tables([x \in DOMAIN fdb \cup {k} |-> IF x = k THEN e ELSE fdb[x]])
         /\ \A k \in DOMAIN fdb, port \in Bports : Tables([fdb EXCEPT ![k].bport = port])
<1>1. ASSUME NEW S
      PROVE  Tables(Without(S))
  <2>1. IsFiniteSet(DOMAIN fdb \ S)
    BY FS_Subset DEF Tables
  <2> QED
    BY <2>1 DEF Tables, Without
<1>2. ASSUME NEW k \in Keys, NEW e \in [bport : Bports, type : {"dynamic", "static"}]
      PROVE  Tables([x \in DOMAIN fdb \cup {k} |-> IF x = k THEN e ELSE fdb[x]])
  <2>1. IsFiniteSet(DOMAIN fdb \cup {k})
    BY FS_AddElement DEF Tables
  <2> QED
    BY <2>1 DEF Tables
<1>3. ASSUME NEW k \in DOMAIN fdb, NEW port \in Bports
      PROVE  Tables([fdb EXCEPT ![k].bport = port])
  <2> DEFINE g == [fdb EXCEPT ![k].bport = port]
  <2>1. DOMAIN g = DOMAIN fdb /\ \A x \in DOMAIN fdb : x # k => g[x] = fdb[x]
    OBVIOUS
  <2>2. g[k] = [fdb[k] EXCEPT !.bport = port]
    OBVIOUS
  <2> HIDE DEF g
  <2>3. g[k] \in [bport : Bports, type : {"dynamic", "static"}]
    BY <2>2 DEF Tables
  <2>4. Tables(g)
    BY <2>1, <2>3 DEF Tables
  <2> QED
    BY <2>4 DEF g
<1> QED
  BY <1>1, <1>2, <1>3

LEMMA IdleTyped == Idle \in Calls /\ [Idle EXCEPT !.pc = "crashed"] \in Calls
<1>1. Idle \in Calls
  BY DEF Idle, Calls
<1>2. \A c \in Calls : [c EXCEPT !.pc = "crashed"] \in Calls
  BY DEF Calls
<1> QED
  BY <1>1, <1>2

LEMMA InitTyped == Init => TypeInv
<1>1. Init => IsFiniteSet(DOMAIN fdb) /\ DOMAIN fdb = {}
  BY FS_EmptySet DEF Init
<1> QED
  BY <1>1, BoundAssumption DEF Init, TypeInv, Tables, Calls, Idle

LEMMA StepKeepsTypes == TypeInv /\ [Next]_vars => TypeInv'
<1> SUFFICES ASSUME TypeInv, [Next]_vars PROVE TypeInv'
  OBVIOUS
<1> USE DEF TypeInv
<1>1. CASE on_fdb_event
  <2>1. PICK count \in 1 .. (IF "batch" \in Liberties THEN Len(pending) ELSE 1),
             b \in BportIds(Head(pending)) :
          /\ gFdbMap' = Replay(gFdbMap, Head(pending), b)
          /\ pending' = SubSeq(pending, count + 1, Len(pending))
          /\ rpc' \in Disturbed(gFdbMap')
    BY <1>1 DEF on_fdb_event
  <2>2. pending # <<>> /\ Head(pending) \in Notes /\ Len(pending) \in Nat \ {0}
    BY <1>1 DEF on_fdb_event
  <2>3. count \in 1 .. Len(pending)
    BY <2>2
  <2>4. pending' \in Seq(Notes) /\ Len(pending') <= MaxPending
    BY <2>1, <2>2, <2>3, BoundAssumption
  <2>5. gFdbMap' \in Seq(Entries)
    BY <2>1, <2>2, ReplayKeepsType
  <2>6. rpc' \in Calls
    <3>1. [Idle EXCEPT !.pc = "crashed"] \in Calls
      BY IdleTyped
    <3>2. \A R : [rpc EXCEPT !.kept = @ \cap R] \in Calls
      BY DEF Calls
    <3> QED
      BY <2>1, <3>1, <3>2 DEF Disturbed
  <2>7. Tables(fdb)'
    BY <1>1 DEF on_fdb_event, Tables
  <2> QED
    BY <2>4, <2>5, <2>6, <2>7
<1> DEFINE Reported(t, k, port) == [event_type |-> t, mac |-> k.mac, bv |-> k.bv, bport |-> port]
<1>2. ASSUME NEW k \in Keys, NEW port \in Bports, NEW t \in {"LEARNED", "MOVE", "AGED"},
             Report(t, k, port), Room(1)
      PROVE  pending' \in Seq(Notes) /\ Len(pending') <= MaxPending
  <2>1. Reported(t, k, port) \in Notes /\ pending' = Append(pending, Reported(t, k, port))
    BY <1>2, ReportIsNote DEF Report
  <2> HIDE DEF Reported
  <2> QED
    BY <1>2, <2>1 DEF Room
<1>3. ASSUME NEW k \in Keys, NEW port \in Bports, Learn(k, port)
      PROVE  TypeInv'
  <2>1. [bport |-> port, type |-> "dynamic"] \in [bport : Bports, type : {"dynamic", "static"}]
    OBVIOUS
  <2>2. Tables(fdb')
    BY <1>3, <2>1, TableSteps DEF Learn
  <2> QED
    BY <1>2, <1>3, <2>2 DEF Learn
<1>4. ASSUME NEW k \in Keys, NEW port \in Bports, Move(k, port)
      PROVE  TypeInv'
  <2>1. Tables(fdb')
    <3>1. k \in DOMAIN fdb /\ Tables([fdb EXCEPT ![k].bport = port])
      BY <1>4, TableSteps DEF Move, Dynamic
    <3>2. fdb' = [fdb EXCEPT ![k].bport = port]
      BY <1>4 DEF Move
    <3> QED
      BY <3>1, <3>2
  <2> QED
    BY <1>2, <1>4, <2>1 DEF Move
<1>5. ASSUME NEW k \in Keys, Age(k)
      PROVE  TypeInv'
  <2>1. Tables(fdb')
    BY <1>5, TableSteps DEF Age
  <2>2. fdb[k].bport \in Bports
    BY <1>5 DEF Age, Dynamic, Tables
  <2> QED
    BY <1>2, <1>5, <2>1, <2>2 DEF Age
<1>6. ASSUME NEW k \in Keys, NEW port \in Bports, sai_thrift_create_fdb_entry(k, port)
      PROVE  TypeInv'
  <2>1. [bport |-> port, type |-> "static"] \in [bport : Bports, type : {"dynamic", "static"}]
    OBVIOUS
  <2>2. Tables(fdb')
    BY <1>6, <2>1, TableSteps DEF sai_thrift_create_fdb_entry
  <2> QED
    BY <1>6, <2>2 DEF sai_thrift_create_fdb_entry
<1>7. ASSUME NEW k \in Keys, sai_thrift_delete_fdb_entry(k)
      PROVE  TypeInv'
  BY <1>7, TableSteps DEF sai_thrift_delete_fdb_entry, Tables
<1>8. ASSUME NEW bport \in Bports \cup {NullOid}, NEW bv \in Bvs \cup {NullOid},
             NEW types \in FlushTypes, sai_thrift_flush_fdb_entries(bport, bv, types)
      PROVE  TypeInv'
  <2> DEFINE gone == Matching(bport, bv, types)
  <2>1. gone \in SUBSET DOMAIN fdb
    BY DEF Matching
  <2>2. PICK reports \in FlushReports(gone, bport, bv) :
          Room(Len(reports)) /\ pending' = pending \o reports
    BY <1>8 DEF sai_thrift_flush_fdb_entries
  <2>3. Tables(fdb')
    BY <1>8, TableSteps DEF sai_thrift_flush_fdb_entries
  <2> HIDE DEF gone
  <2>4. reports \in Seq(Notes)
    BY <2>1, FlushReportsTyped
  <2>5. pending' \in Seq(Notes) /\ Len(pending') = Len(pending) + Len(reports)
    BY <2>2, <2>4
  <2>6. Len(pending') <= MaxPending
    BY <2>2, <2>5 DEF Room
  <2> QED
    BY <1>8, <2>3, <2>5, <2>6 DEF sai_thrift_flush_fdb_entries
<1>9. CASE BeginGet \/ CopyNext \/ Reply \/ NextCall \/ Crashed \/ UNCHANGED vars
  <2>1. Tables(fdb)' /\ (pending \in Seq(Notes) /\ Len(pending) <= MaxPending)'
          /\ (gFdbMap \in Seq(Entries))'
    BY <1>9 DEF BeginGet, CopyNext, Reply, NextCall, Crashed, vars, Tables
  <2>2. rpc' \in Calls
    <3>1. Len(gFdbMap) \in Nat /\ Range(gFdbMap) \subseteq Entries
      BY DEF Range
    <3>2. CASE BeginGet
      BY <3>1, <3>2 DEF BeginGet, Calls
    <3>3. CASE CopyNext
      <4>1. gFdbMap[rpc.it] \in Entries /\ rpc.it + 1 \in Nat \ {0}
        BY <3>3 DEF CopyNext, Calls
      <4>2. Append(rpc.attr_list, gFdbMap[rpc.it]) \in Seq(Entries)
        BY <4>1 DEF Calls
      <4> QED
        BY <3>3, <4>1, <4>2 DEF CopyNext, Calls
    <3>4. CASE Reply
      BY <3>4 DEF Reply, Calls
    <3>5. CASE NextCall
      BY <3>5 DEF NextCall, Calls, Idle
    <3>6. CASE UNCHANGED rpc
      BY <3>6
    <3> QED
      BY <1>9, <3>2, <3>3, <3>4, <3>5, <3>6 DEF Crashed, vars
  <2> QED
    BY <2>1, <2>2
<1> QED
  BY <1>1, <1>3, <1>4, <1>5, <1>6, <1>7, <1>8, <1>9 DEF Next

\* The types hold whatever the switch, the client and the SDK do, every liberty
\* included: the vector stays a sequence of entries and the queue within bounds.
THEOREM TypesCorrect == Spec => []TypeOK
<1>1. TypeInv => TypeOK
  <2>1. Notes \subseteq Data
    BY DEF Notes
  <2>2. pending \in Seq(Notes) => pending \in Seq(Data)
    BY <2>1
  <2> QED
    BY <2>2 DEF TypeInv, TypeOK, Tables, Calls
<1> QED
  BY <1>1, InitTyped, StepKeepsTypes, PTL DEF Spec

-----------------------------------------------------------------------------
(* The vector as a set.  SetReplay is what a notification says of the set of *)
(* learned entries; a notification of an entry the set already has is not    *)
(* Fresh, and would be listed twice.                                         *)

SetReplay(S, d) ==
  CASE d.event_type = "LEARNED" -> S \cup {[mac |-> d.mac, bv |-> d.bv, bport |-> d.bport]}
    [] d.event_type = "FLUSHED" -> {e \in S : ~ Flushes(d.bv, d.bport, e)}
    [] d.event_type = "MOVE" -> {IF SameEntry(d, e) THEN [e EXCEPT !.bport = d.bport] ELSE e : e \in S}
    [] d.event_type = "AGED" -> {e \in S : ~ SameEntry(d, e)}

Fresh(S, d) == d.event_type = "LEARNED" => \A e \in S : ~ SameEntry(d, e)

\* No address is listed twice.
EachOnce(map) == \A i, j \in DOMAIN map : SameEntry(map[i], map[j]) => i = j

\* What a selection lists.
LEMMA SelectionRange ==
  ASSUME NEW s, NEW map, NEW I, Selection(s, map, I)
  PROVE  Range(s) = {map[i] : i \in I}
<1>1. PICK h \in [DOMAIN s -> I] :
        /\ \A j \in DOMAIN s : s[j] = map[h[j]]
        /\ \A x \in I : \E j \in DOMAIN s : h[j] = x
  BY DEF Selection
<1>2. \A j \in DOMAIN s : s[j] \in {map[i] : i \in I}
  BY <1>1
<1>3. \A i \in I : \E j \in DOMAIN s : s[j] = map[i]
  BY <1>1
<1> QED
  BY <1>2, <1>3 DEF Range

LEMMA SelectionOnce ==
  ASSUME NEW s, NEW map, NEW I \in SUBSET DOMAIN map, Selection(s, map, I), EachOnce(map)
  PROVE  EachOnce(s)
<1>1. PICK h \in [DOMAIN s -> I] :
        /\ \A j \in DOMAIN s : s[j] = map[h[j]]
        /\ \A j, k \in DOMAIN s : h[j] = h[k] => j = k
  BY DEF Selection
<1>2. ASSUME NEW j \in DOMAIN s, NEW k \in DOMAIN s, SameEntry(s[j], s[k])
      PROVE  j = k
  <2>1. h[j] \in DOMAIN map /\ h[k] \in DOMAIN map /\ SameEntry(map[h[j]], map[h[k]])
    BY <1>1, <1>2
  <2>2. h[j] = h[k]
    BY <2>1 DEF EachOnce
  <2> QED
    BY <1>1, <2>2
<1> QED
  BY <1>2 DEF EachOnce

\* Erasing the entries of which P holds, where gone are their places.
LEMMA ErasedRange ==
  ASSUME NEW map \in Seq(Entries), NEW gone
  PROVE  /\ Range(Erase(map, gone)) = {map[i] : i \in DOMAIN map \ gone}
         /\ EachOnce(map) => EachOnce(Erase(map, gone))
<1>1. Selection(Erase(map, gone), map, DOMAIN map \ gone)
  BY ErasedVector
<1>2. DOMAIN map \ gone \in SUBSET DOMAIN map
  OBVIOUS
<1> HIDE DEF Erase
<1> QED
  BY <1>1, <1>2, SelectionRange, SelectionOnce

\* The handler does to the vector what the notification says of the set.
LEMMA ReplayRange ==
  ASSUME NEW map \in Seq(Entries), NEW d \in Notes, d.bport # Absent
  PROVE  Range(Replay(map, d, d.bport)) = SetReplay(Range(map), d)
<1>1. CASE d.event_type = "LEARNED"
  <2> DEFINE e == [mac |-> d.mac, bv |-> d.bv, bport |-> d.bport]
             t == Append(map, e)
  <2>1. Replay(map, d, d.bport) = t /\ SetReplay(Range(map), d) = Range(map) \cup {e}
    BY <1>1 DEF Replay, SetReplay
  <2>2. /\ DOMAIN t = DOMAIN map \cup {Len(map) + 1} /\ t[Len(map) + 1] = e
        /\ \A i \in DOMAIN map : t[i] = map[i]
    OBVIOUS
  <2> HIDE DEF t, e
  <2>3. Range(t) = Range(map) \cup {e}
    BY <2>2 DEF Range
  <2> QED
    BY <2>1, <2>3
<1>2. CASE d.event_type = "FLUSHED"
  <2> DEFINE gone == {i \in DOMAIN map : Flushes(d.bv, d.bport, map[i])}
  <2>1. Replay(map, d, d.bport) = Erase(map, gone)
    BY <1>2 DEF Replay
  <2>2. SetReplay(Range(map), d) = {e \in Range(map) : ~ Flushes(d.bv, d.bport, e)}
    BY <1>2 DEF SetReplay
  <2>3. {map[i] : i \in DOMAIN map \ gone} = {e \in Range(map) : ~ Flushes(d.bv, d.bport, e)}
    BY DEF Range
  <2> QED
    BY <2>1, <2>2, <2>3, ErasedRange
<1>3. CASE d.event_type = "AGED"
  <2> DEFINE gone == {i \in DOMAIN map : SameEntry(d, map[i])}
  <2>1. Replay(map, d, d.bport) = Erase(map, gone)
    BY <1>3 DEF Replay
  <2>2. SetReplay(Range(map), d) = {e \in Range(map) : ~ SameEntry(d, e)}
    BY <1>3 DEF SetReplay
  <2>3. {map[i] : i \in DOMAIN map \ gone} = {e \in Range(map) : ~ SameEntry(d, e)}
    BY DEF Range
  <2> QED
    BY <2>1, <2>2, <2>3, ErasedRange
<1>4. CASE d.event_type = "MOVE"
  <2> DEFINE To(e) == IF SameEntry(d, e) THEN [e EXCEPT !.bport = d.bport] ELSE e
  <2>1. Replay(map, d, d.bport) = [i \in DOMAIN map |-> To(map[i])]
    BY <1>4 DEF Replay
  <2>2. SetReplay(Range(map), d) = {To(e) : e \in Range(map)}
    BY <1>4 DEF SetReplay
  <2> HIDE DEF To
  <2>3. Range([i \in DOMAIN map |-> To(map[i])]) = {To(e) : e \in Range(map)}
    BY DEF Range
  <2> QED
    BY <2>1, <2>2, <2>3
<1> QED
  BY <1>1, <1>2, <1>3, <1>4, NoteFields DEF Events

\* A fresh notification leaves every address listed once.
LEMMA ReplayOnce ==
  ASSUME NEW map \in Seq(Entries), NEW d \in Notes, EachOnce(map), Fresh(Range(map), d)
  PROVE  EachOnce(Replay(map, d, d.bport))
<1>1. CASE d.event_type = "LEARNED"
  <2> DEFINE e == [mac |-> d.mac, bv |-> d.bv, bport |-> d.bport]
             t == Append(map, e)
  <2>1. Replay(map, d, d.bport) = t /\ e.mac = d.mac /\ e.bv = d.bv
    BY <1>1 DEF Replay
  <2>2. /\ DOMAIN t = DOMAIN map \cup {Len(map) + 1} /\ t[Len(map) + 1] = e
        /\ \A i \in DOMAIN map : t[i] = map[i]
    OBVIOUS
  <2> HIDE DEF t, e
  <2>3. \A i \in DOMAIN map : ~ SameEntry(d, map[i])
    BY <1>1 DEF Fresh, Range
  <2>4. \A i \in DOMAIN map : ~ SameEntry(e, t[i]) /\ ~ SameEntry(t[i], e)
    BY <2>1, <2>2, <2>3 DEF SameEntry
  <2>5. EachOnce(t)
    BY <2>2, <2>4 DEF EachOnce
  <2> QED
    BY <2>1, <2>5
<1>2. CASE d.event_type \in {"FLUSHED", "AGED"}
  <2>1. \E gone : Replay(map, d, d.bport) = Erase(map, gone)
    BY <1>2 DEF Replay
  <2> QED
    BY <2>1, ErasedRange
<1>3. CASE d.event_type = "MOVE"
  <2> DEFINE To(e) == IF SameEntry(d, e) THEN [e EXCEPT !.bport = d.bport] ELSE e
             t == [i \in DOMAIN map |-> To(map[i])]
  <2>1. Replay(map, d, d.bport) = t
    BY <1>3 DEF Replay
  <2>2. \A e \in Entries : To(e).mac = e.mac /\ To(e).bv = e.bv
    BY DEF Entries
  <2> HIDE DEF To
  <2>3. DOMAIN t = DOMAIN map /\ \A i \in DOMAIN map : t[i].mac = map[i].mac /\ t[i].bv = map[i].bv
    BY <2>2
  <2> HIDE DEF t
  <2>4. EachOnce(t)
    BY <2>3 DEF EachOnce, SameEntry
  <2> QED
    BY <2>1, <2>4
<1> QED
  BY <1>1, <1>2, <1>3, NoteFields DEF Events

\* A set of entries stays one.
LEMMA SetReplayTyped ==
  ASSUME NEW S \in SUBSET Entries, NEW d \in Notes, d.bport # Absent
  PROVE  SetReplay(S, d) \in SUBSET Entries
<1>1. d.bport \in Oids
  BY NoteFields DEF Oids
<1>2. CASE d.event_type = "LEARNED"
  BY <1>1, <1>2, NoteFields DEF SetReplay, Entries
<1>3. CASE d.event_type \in {"FLUSHED", "AGED"}
  BY <1>3 DEF SetReplay
<1>4. CASE d.event_type = "MOVE"
  <2>1. \A e \in S : (IF SameEntry(d, e) THEN [e EXCEPT !.bport = d.bport] ELSE e) \in Entries
    BY <1>1, MovedEntry
  <2> QED
    BY <1>4, <2>1 DEF SetReplay
<1> QED
  BY <1>2, <1>3, <1>4, NoteFields DEF Events

\* The notifications p, delivered to the set S one after the other, make it U.
Steps(ss, p, n) ==
  \A i \in 1 .. n : /\ p[i].bport # Absent /\ Fresh(ss[i], p[i])
                    /\ ss[i + 1] = SetReplay(ss[i], p[i])

Leads(p, S, U) ==
  \E ss \in [1 .. Len(p) + 1 -> SUBSET Entries] :
     ss[1] = S /\ ss[Len(p) + 1] = U /\ Steps(ss, p, Len(p))

LEMMA LeadsNone ==
  ASSUME NEW S \in SUBSET Entries, NEW U
  PROVE  Leads(<<>>, S, U) <=> S = U
<1>1. Len(<<>>) = 0
  OBVIOUS
<1>2. Leads(<<>>, S, U) => S = U
  BY <1>1 DEF Leads
<1>3. Leads(<<>>, S, S)
  <2>1. [i \in 1 .. 1 |-> S] \in [1 .. 0 + 1 -> SUBSET Entries]
    OBVIOUS
  <2>2. Steps([i \in 1 .. 1 |-> S], <<>>, 0)
    BY DEF Steps
  <2> QED
    BY <1>1, <2>1, <2>2 DEF Leads
<1> QED
  BY <1>2, <1>3

\* The first one is delivered.
LEMMA LeadsTail ==
  ASSUME NEW p \in Seq(Notes), p # <<>>, NEW S \in SUBSET Entries, NEW U, Leads(p, S, U)
  PROVE  /\ p[1].bport # Absent /\ Fresh(S, p[1])
         /\ Leads(SubSeq(p, 2, Len(p)), SetReplay(S, p[1]), U)
<1>1. Len(p) \in Nat \ {0} /\ p[1] \in Notes
  OBVIOUS
<1>2. PICK ss \in [1 .. Len(p) + 1 -> SUBSET Entries] :
        ss[1] = S /\ ss[Len(p) + 1] = U /\ Steps(ss, p, Len(p))
  BY DEF Leads
<1>3. p[1].bport # Absent /\ Fresh(S, p[1]) /\ ss[2] = SetReplay(S, p[1])
  BY <1>1, <1>2 DEF Steps
<1> DEFINE q == SubSeq(p, 2, Len(p))
           tt == [i \in 1 .. Len(q) + 1 |-> ss[i + 1]]
<1>4. Len(q) = Len(p) - 1 /\ \A i \in 1 .. Len(q) : q[i] = p[i + 1]
  <2>1. q = [i \in 1 .. Len(p) - 1 |-> p[i + 1]]
    BY <1>1
  <2> HIDE DEF q
  <2>2. Len(q) = Len(p) - 1
    BY <1>1, <2>1
  <2> QED
    BY <1>1, <2>1, <2>2
<1> HIDE DEF q
<1>5. tt \in [1 .. Len(q) + 1 -> SUBSET Entries]
  BY <1>1, <1>4
<1>6. tt[1] = ss[2] /\ tt[Len(q) + 1] = U /\ \A i \in 1 .. Len(q) : tt[i] = ss[i + 1] /\ tt[i + 1] = ss[i + 2]
  BY <1>1, <1>2, <1>4
<1> HIDE DEF tt
<1>7. Steps(tt, q, Len(q))
  <2> SUFFICES ASSUME NEW i \in 1 .. Len(q)
               PROVE  /\ q[i].bport # Absent /\ Fresh(tt[i], q[i])
                      /\ tt[i + 1] = SetReplay(tt[i], q[i])
    BY DEF Steps
  <2>1. i + 1 \in 1 .. Len(p) /\ (i + 1) + 1 = i + 2
    BY <1>1, <1>4
  <2>2. /\ p[i + 1].bport # Absent /\ Fresh(ss[i + 1], p[i + 1])
        /\ ss[i + 2] = SetReplay(ss[i + 1], p[i + 1])
    BY <1>2, <2>1 DEF Steps
  <2> QED
    BY <1>4, <1>6, <2>2
<1>8. Leads(q, SetReplay(S, p[1]), U)
  BY <1>3, <1>5, <1>6, <1>7 DEF Leads
<1> QED
  BY <1>3, <1>8 DEF q

\* More are queued behind.
LEMMA LeadsOn ==
  ASSUME NEW p \in Seq(Notes), NEW q \in Seq(Notes), NEW S, NEW U, NEW V,
         Leads(p, S, U), Leads(q, U, V)
  PROVE  Leads(p \o q, S, V)
<1>1. PICK ss \in [1 .. Len(p) + 1 -> SUBSET Entries] :
        ss[1] = S /\ ss[Len(p) + 1] = U /\ Steps(ss, p, Len(p))
  BY DEF Leads
<1>2. PICK tt \in [1 .. Len(q) + 1 -> SUBSET Entries] :
        tt[1] = U /\ tt[Len(q) + 1] = V /\ Steps(tt, q, Len(q))
  BY DEF Leads
<1> DEFINE r == p \o q
           uu == [i \in 1 .. Len(r) + 1 |-> IF i <= Len(p) THEN ss[i] ELSE tt[i - Len(p)]]
<1>3. /\ Len(p) \in Nat /\ Len(q) \in Nat /\ Len(r) = Len(p) + Len(q)
      /\ \A i \in 1 .. Len(p) : r[i] = p[i]
      /\ \A i \in 1 .. Len(q) : r[Len(p) + i] = q[i]
  OBVIOUS
<1> HIDE DEF r
<1>4. uu \in [1 .. Len(r) + 1 -> SUBSET Entries]
  BY <1>1, <1>2, <1>3
<1>5. /\ \A i \in 1 .. Len(p) + 1 : uu[i] = ss[i]
      /\ \A i \in 1 .. Len(q) + 1 : uu[Len(p) + i] = tt[i]
  <2>1. ASSUME NEW i \in 1 .. Len(p) + 1
        PROVE  uu[i] = ss[i]
    <3>1. CASE i <= Len(p)
      BY <1>3, <3>1
    <3>2. CASE i = Len(p) + 1
      <4>1. uu[i] = tt[1]
        BY <1>3, <3>2
      <4> QED
        BY <1>1, <1>2, <3>2, <4>1
    <3> QED
      BY <1>3, <3>1, <3>2
  <2>2. ASSUME NEW i \in 1 .. Len(q) + 1
        PROVE  uu[Len(p) + i] = tt[i]
    BY <1>3
  <2> QED
    BY <2>1, <2>2
<1> HIDE DEF uu
<1>6. Steps(uu, r, Len(r))
  <2> SUFFICES ASSUME NEW i \in 1 .. Len(r)
               PROVE  /\ r[i].bport # Absent /\ Fresh(uu[i], r[i])
                      /\ uu[i + 1] = SetReplay(uu[i], r[i])
    BY DEF Steps
  <2>1. CASE i <= Len(p)
    <3>1. i \in 1 .. Len(p) /\ i \in 1 .. Len(p) + 1 /\ i + 1 \in 1 .. Len(p) + 1
      BY <1>3, <2>1
    <3>2. r[i] = p[i] /\ uu[i] = ss[i] /\ uu[i + 1] = ss[i + 1]
      BY <1>3, <1>5, <3>1
    <3>3. p[i].bport # Absent /\ Fresh(ss[i], p[i]) /\ ss[i + 1] = SetReplay(ss[i], p[i])
      BY <1>1, <3>1 DEF Steps
    <3> QED
      BY <3>2, <3>3
  <2>2. CASE i > Len(p)
    <3> DEFINE j == i - Len(p)
    <3>1. /\ j \in 1 .. Len(q) /\ j \in 1 .. Len(q) + 1 /\ j + 1 \in 1 .. Len(q) + 1
          /\ i = Len(p) + j /\ i + 1 = Len(p) + (j + 1)
      BY <1>3, <2>2
    <3> HIDE DEF j
    <3>2. r[i] = q[j] /\ uu[i] = tt[j] /\ uu[i + 1] = tt[j + 1]
      BY <1>3, <1>5, <3>1
    <3>3. q[j].bport # Absent /\ Fresh(tt[j], q[j]) /\ tt[j + 1] = SetReplay(tt[j], q[j])
      BY <1>2, <3>1 DEF Steps
    <3> QED
      BY <3>2, <3>3
  <2> QED
    BY <1>3, <2>1, <2>2
<1>7. uu[1] = S /\ uu[Len(r) + 1] = V
  <2>1. 1 \in 1 .. Len(p) + 1 /\ Len(q) + 1 \in 1 .. Len(q) + 1 /\ Len(r) + 1 = Len(p) + (Len(q) + 1)
    BY <1>3
  <2> QED
    BY <1>1, <1>2, <1>5, <2>1
<1>8. Leads(r, S, V)
  BY <1>4, <1>6, <1>7 DEF Leads
<1> QED
  BY <1>8 DEF r

\* One more is queued.
LEMMA LeadsOne ==
  ASSUME NEW U \in SUBSET Entries, NEW d \in Notes, d.bport # Absent, Fresh(U, d)
  PROVE  Leads(<<d>>, U, SetReplay(U, d))
<1> DEFINE V == SetReplay(U, d)
           tt == [i \in 1 .. 2 |-> IF i = 1 THEN U ELSE V]
           p == <<d>>
<1>1. V \in SUBSET Entries
  BY SetReplayTyped
<1>2. Len(p) = 1 /\ p[1] = d
  OBVIOUS
<1>3. tt \in [1 .. 1 + 1 -> SUBSET Entries] /\ tt[1] = U /\ tt[1 + 1] = V
  BY <1>1
<1> HIDE DEF tt, p
<1>4. Steps(tt, p, 1)
  BY <1>2, <1>3 DEF Steps
<1>5. Leads(p, U, V)
  BY <1>2, <1>3, <1>4 DEF Leads
<1> QED
  BY <1>5 DEF p

-----------------------------------------------------------------------------
(* What the switch reports is what it does to the entries it has learned. *)

LearnedOf(f) ==
  {[mac |-> k.mac, bv |-> k.bv, bport |-> f[k].bport] : k \in {x \in DOMAIN f : f[x].type = "dynamic"}}

KeyOf(e) == [mac |-> e.mac, bv |-> e.bv]

LEMMA LearnedNow == LearnedInAsic = LearnedOf(fdb)
BY DEF LearnedInAsic, LearnedOf, Dynamic

LEMMA LearnedMember ==
  ASSUME NEW f, Tables(f)
  PROVE  /\ LearnedOf(f) \in SUBSET Entries
         /\ \A e \in Entries : e \in LearnedOf(f) <=> /\ KeyOf(e) \in DOMAIN f
                                                      /\ f[KeyOf(e)].bport = e.bport
                                                      /\ f[KeyOf(e)].type = "dynamic"
<1> DEFINE E(k) == [mac |-> k.mac, bv |-> k.bv, bport |-> f[k].bport]
<1>1. ASSUME NEW k \in DOMAIN f
      PROVE  E(k) \in Entries /\ KeyOf(E(k)) = k /\ E(k).bport = f[k].bport
  <2>1. k \in Keys /\ f[k].bport \in Bports
    BY DEF Tables
  <2>2. k = [mac |-> k.mac, bv |-> k.bv] /\ k.mac \in Macs /\ k.bv \in Bvs
    BY <2>1 DEF Keys
  <2> QED
    BY <2>1, <2>2 DEF Entries, KeyOf, Oids
<1>2. LearnedOf(f) = {E(k) : k \in {x \in DOMAIN f : f[x].type = "dynamic"}}
  BY DEF LearnedOf
<1> HIDE DEF E
<1>3. ASSUME NEW e \in Entries, KeyOf(e) \in DOMAIN f, f[KeyOf(e)].bport = e.bport
      PROVE  E(KeyOf(e)) = e
  BY <1>3, EntryFields DEF E, KeyOf
<1>4. LearnedOf(f) \in SUBSET Entries
  BY <1>1, <1>2
<1>5. ASSUME NEW e \in Entries
      PROVE  e \in LearnedOf(f) <=> /\ KeyOf(e) \in DOMAIN f
                                    /\ f[KeyOf(e)].bport = e.bport
                                    /\ f[KeyOf(e)].type = "dynamic"
  <2>1. e \in LearnedOf(f) => \E k \in DOMAIN f : f[k].type = "dynamic" /\ e = E(k)
    BY <1>2
  <2>2. (\E k \in DOMAIN f : f[k].type = "dynamic" /\ e = E(k)) => e \in LearnedOf(f)
    BY <1>2
  <2> QED
    BY <1>1, <1>3, <2>1, <2>2
<1> QED
  BY <1>4, <1>5

\* Two tables with the same dynamic entries.
LEMMA SameLearned ==
  ASSUME NEW f, NEW g, Tables(f), Tables(g),
         \A k \in DOMAIN f : f[k].type = "dynamic" => k \in DOMAIN g /\ g[k] = f[k],
         \A k \in DOMAIN g : g[k].type = "dynamic" => k \in DOMAIN f /\ f[k] = g[k]
  PROVE  LearnedOf(f) = LearnedOf(g)
<1>1. \A e \in Entries : e \in LearnedOf(f) <=> e \in LearnedOf(g)
  BY LearnedMember
<1>2. LearnedOf(f) \in SUBSET Entries /\ LearnedOf(g) \in SUBSET Entries
  BY LearnedMember
<1> QED
  BY <1>1, <1>2

Note(t, k, port) == [event_type |-> t, mac |-> k.mac, bv |-> k.bv, bport |-> port]

LEMMA SameKey ==
  ASSUME NEW k \in Keys, NEW e \in Entries, NEW t, NEW port
  PROVE  SameEntry(Note(t, k, port), e) <=> KeyOf(e) = k
<1>1. k = [mac |-> k.mac, bv |-> k.bv]
  BY DEF Keys
<1> QED
  BY <1>1 DEF SameEntry, Note, KeyOf

LEMMA LearnStep ==
  ASSUME Tables(fdb), NEW k \in Keys, k \notin DOMAIN fdb, NEW port \in Bports, NEW g,
         g = [x \in DOMAIN fdb \cup {k} |-> IF x = k THEN [bport |-> port, type |-> "dynamic"]
                                          ELSE fdb[x]]
  PROVE  /\ Fresh(LearnedOf(fdb), Note("LEARNED", k, port))
         /\ LearnedOf(g) = SetReplay(LearnedOf(fdb), Note("LEARNED", k, port))
<1> DEFINE n == [mac |-> k.mac, bv |-> k.bv, bport |-> port]
<1>1. [bport |-> port, type |-> "dynamic"] \in [bport : Bports, type : {"dynamic", "static"}]
  OBVIOUS
<1>2. Tables(g)
  BY <1>1, TableSteps
<1>3. k = [mac |-> k.mac, bv |-> k.bv] /\ k.mac \in Macs /\ k.bv \in Bvs
  BY DEF Keys
<1>4. n \in Entries /\ KeyOf(n) = k /\ n.bport = port
  BY <1>3 DEF Entries, KeyOf, Oids
<1>5. \A e \in LearnedOf(fdb) : e \in Entries /\ KeyOf(e) \in DOMAIN fdb
  BY LearnedMember
<1>6. Fresh(LearnedOf(fdb), Note("LEARNED", k, port))
  BY <1>5, SameKey DEF Fresh
<1>7. SetReplay(LearnedOf(fdb), Note("LEARNED", k, port)) = LearnedOf(fdb) \cup {n}
  BY DEF SetReplay, Note
<1> HIDE DEF n
<1>8. /\ DOMAIN g = DOMAIN fdb \cup {k} /\ g[k].bport = port /\ g[k].type = "dynamic"
      /\ \A x \in DOMAIN fdb : g[x] = fdb[x]
  OBVIOUS
<1>9. ASSUME NEW e \in Entries
      PROVE  e \in LearnedOf(g) <=> e \in LearnedOf(fdb) \/ e = n
  <2>1. CASE KeyOf(e) = k
    <3>1. e \in LearnedOf(g) <=> e.bport = port
      BY <1>2, <1>8, <2>1, LearnedMember
    <3>2. e \notin LearnedOf(fdb)
      BY <2>1, LearnedMember
    <3>3. e = n <=> e.bport = port
      BY <1>3, <1>4, <2>1, EntryFields DEF n, KeyOf
    <3> QED
      BY <3>1, <3>2, <3>3
  <2>2. CASE KeyOf(e) # k
    BY <1>2, <1>4, <1>8, <2>2, LearnedMember
  <2> QED
    BY <2>1, <2>2
<1>10. LearnedOf(g) = LearnedOf(fdb) \cup {n}
  <2>1. LearnedOf(g) \in SUBSET Entries /\ LearnedOf(fdb) \in SUBSET Entries
    BY <1>2, LearnedMember
  <2> QED
    BY <1>4, <1>9, <2>1
<1> QED
  BY <1>6, <1>7, <1>10

LEMMA MoveStep ==
  ASSUME Tables(fdb), NEW k \in Keys, Dynamic(k), NEW port \in Bports, NEW g,
         g = [fdb EXCEPT ![k].bport = port]
  PROVE  LearnedOf(g) = SetReplay(LearnedOf(fdb), Note("MOVE", k, port))
<1> DEFINE d == Note("MOVE", k, port)
           To(e) == IF SameEntry(d, e) THEN [e EXCEPT !.bport = port] ELSE e
           n == [mac |-> k.mac, bv |-> k.bv, bport |-> port]
           o == [mac |-> k.mac, bv |-> k.bv, bport |-> fdb[k].bport]
<1>1. k \in DOMAIN fdb /\ fdb[k].type = "dynamic" /\ fdb[k].bport \in Bports
  BY DEF Dynamic, Tables
<1>2. Tables(g)
  BY <1>1, TableSteps
<1>3. /\ DOMAIN g = DOMAIN fdb /\ g[k].bport = port /\ g[k].type = "dynamic"
      /\ \A x \in DOMAIN fdb : x # k => g[x] = fdb[x]
  BY <1>1 DEF Tables
<1>4. k = [mac |-> k.mac, bv |-> k.bv] /\ k.mac \in Macs /\ k.bv \in Bvs
  BY DEF Keys
<1>5. /\ n \in Entries /\ KeyOf(n) = k /\ n.bport = port
      /\ o \in Entries /\ KeyOf(o) = k /\ o.bport = fdb[k].bport
  BY <1>1, <1>4 DEF Entries, KeyOf, Oids
<1>6. SetReplay(LearnedOf(fdb), d) = {To(e) : e \in LearnedOf(fdb)}
  BY DEF SetReplay, Note
<1>7. \A e \in Entries : KeyOf(e) = k => To(e) = n
  <2> TAKE e \in Entries
  <2>1. port \in Oids
    BY DEF Oids
  <2> QED
    BY <1>4, <2>1, MovedEntry, SameKey DEF KeyOf
<1>8. \A e \in Entries : KeyOf(e) # k => To(e) = e
  BY SameKey
<1>9. o \in LearnedOf(fdb)
  BY <1>1, <1>5, LearnedMember
<1> HIDE DEF To, n, o
<1>10. ASSUME NEW e \in Entries
       PROVE  e \in LearnedOf(g) <=> (KeyOf(e) # k /\ e \in LearnedOf(fdb)) \/ e = n
  <2>1. CASE KeyOf(e) = k
    <3>1. e \in LearnedOf(g) <=> e.bport = port
      BY <1>1, <1>2, <1>3, <2>1, LearnedMember
    <3>2. e = n <=> e.bport = port
      BY <1>4, <1>5, <2>1, EntryFields DEF n, KeyOf
    <3> QED
      BY <2>1, <3>1, <3>2
  <2>2. CASE KeyOf(e) # k
    BY <1>2, <1>3, <1>5, <2>2, LearnedMember
  <2> QED
    BY <2>1, <2>2
<1>11. LearnedOf(g) \in SUBSET Entries /\ LearnedOf(fdb) \in SUBSET Entries
  BY <1>2, LearnedMember
<1>12. \A e \in LearnedOf(g) : e \in {To(x) : x \in LearnedOf(fdb)}
  BY <1>5, <1>7, <1>8, <1>9, <1>10, <1>11
<1>13. \A x \in LearnedOf(fdb) : To(x) \in LearnedOf(g)
  BY <1>5, <1>7, <1>8, <1>10, <1>11
<1>14. LearnedOf(g) = {To(x) : x \in LearnedOf(fdb)}
  BY <1>12, <1>13
<1> QED
  BY <1>6, <1>14

LEMMA WithoutMember ==
  ASSUME Tables(fdb), NEW gone, NEW e \in Entries
  PROVE  e \in LearnedOf(Without(gone)) <=> e \in LearnedOf(fdb) /\ KeyOf(e) \notin gone
<1>1. Tables(Without(gone))
  BY TableSteps
<1>2. /\ DOMAIN Without(gone) = DOMAIN fdb \ gone
      /\ \A k \in DOMAIN fdb \ gone : Without(gone)[k] = fdb[k]
  BY DEF Without
<1> QED
  BY <1>1, <1>2, LearnedMember

LEMMA AgeStep ==
  ASSUME Tables(fdb), NEW k \in Keys, NEW port
  PROVE  LearnedOf(Without({k})) = SetReplay(LearnedOf(fdb), Note("AGED", k, port))
<1>1. SetReplay(LearnedOf(fdb), Note("AGED", k, port)) =
        {e \in LearnedOf(fdb) : ~ SameEntry(Note("AGED", k, port), e)}
  BY DEF SetReplay, Note
<1>2. Tables(Without({k}))
  BY TableSteps
<1>3. LearnedOf(Without({k})) \in SUBSET Entries /\ LearnedOf(fdb) \in SUBSET Entries
  BY <1>2, LearnedMember
<1>4. \A e \in Entries : e \in LearnedOf(Without({k})) <=> e \in LearnedOf(fdb) /\ KeyOf(e) # k
  BY WithoutMember
<1> QED
  BY <1>1, <1>3, <1>4, SameKey

\* An injection into a set of its own size reaches every element.
LEMMA Enumerates ==
  ASSUME NEW S, IsFiniteSet(S), NEW s \in SetToSeqs(S)
  PROVE  /\ Cardinality(S) \in Nat /\ s \in [1 .. Cardinality(S) -> S]
         /\ \A x \in S : \E j \in 1 .. Cardinality(S) : s[j] = x
<1> DEFINE n == Cardinality(S)
<1>1. n \in Nat
  BY FS_CardinalityType
<1>2. s \in [1 .. n -> S] /\ \A i, j \in 1 .. n : i # j => s[i] # s[j]
  BY DEF SetToSeqs
<1>3. Cardinality(1 .. n) = n
  BY <1>1, FS_Interval
<1> HIDE DEF n
<1>4. s \in Injection(1 .. n, S)
  BY <1>2 DEF Injection, IsInjective
<1>5. s \in Surjection(1 .. n, S)
  BY <1>3, <1>4, FS_Injection DEF n
<1>6. \A x \in S : \E j \in 1 .. n : s[j] = x
  BY <1>5 DEF Surjection
<1> QED
  BY <1>1, <1>2, <1>6 DEF n

\* The entries a flush of dynamic entries takes out.
LEMMA FlushedEntries ==
  ASSUME Tables(fdb), NEW bport, NEW bv, NEW e \in LearnedOf(fdb)
  PROVE  KeyOf(e) \in Matching(bport, bv, {"dynamic"})
           <=> bport \in {NullOid, e.bport} /\ bv \in {NullOid, e.bv}
<1>1. /\ e \in Entries /\ KeyOf(e) \in DOMAIN fdb /\ fdb[KeyOf(e)].bport = e.bport
      /\ fdb[KeyOf(e)].type = "dynamic"
  BY LearnedMember
<1>2. KeyOf(e).bv = e.bv
  BY DEF KeyOf
<1> QED
  BY <1>1, <1>2 DEF Matching

\* A flush reported in one event.
LEMMA ConsolidatedFlush ==
  ASSUME Tables(fdb), NEW bport \in Bports \cup {NullOid}, NEW bv \in Bvs \cup {NullOid},
         NEW d, d = [event_type |-> "FLUSHED", mac |-> NullOid, bv |-> bv, bport |-> bport]
  PROVE  Leads(<<d>>, LearnedOf(fdb), LearnedOf(Without(Matching(bport, bv, {"dynamic"}))))
<1> DEFINE gone == Matching(bport, bv, {"dynamic"})
<1>1. d \in Notes /\ d.bport # Absent /\ Fresh(LearnedOf(fdb), d)
  BY OidAssumption DEF Notes, Data, Events, Fresh
<1>2. Tables(Without(gone))
  BY TableSteps
<1>3. LearnedOf(Without(gone)) \in SUBSET Entries /\ LearnedOf(fdb) \in SUBSET Entries
  BY <1>2, LearnedMember
<1>4. \A e \in Entries : e \in LearnedOf(Without(gone)) <=> e \in LearnedOf(fdb) /\ KeyOf(e) \notin gone
  BY WithoutMember
<1>5. \A e \in LearnedOf(fdb) : KeyOf(e) \in gone <=> Flushes(bv, bport, e)
  BY FlushedEntries DEF Flushes
<1>6. SetReplay(LearnedOf(fdb), d) = {e \in LearnedOf(fdb) : ~ Flushes(bv, bport, e)}
  BY DEF SetReplay
<1> HIDE DEF gone
<1>7. SetReplay(LearnedOf(fdb), d) = LearnedOf(Without(gone))
  BY <1>3, <1>4, <1>5, <1>6
<1>8. Leads(<<d>>, LearnedOf(fdb), SetReplay(LearnedOf(fdb), d))
  BY <1>1, <1>3, LeadsOne
<1> QED
  BY <1>7, <1>8 DEF gone

\* A flush reported entry by entry.
LEMMA OneByOneFlush ==
  ASSUME Tables(fdb), NEW bport \in Bports \cup {NullOid}, NEW bv \in Bvs \cup {NullOid},
         NEW gone, gone = Matching(bport, bv, {"dynamic"}),
         NEW s \in SetToSeqs(gone), NEW reports,
         reports = [i \in DOMAIN s |-> [event_type |-> "FLUSHED", mac |-> s[i].mac, bv |-> s[i].bv,
                                        bport |-> fdb[s[i]].bport]]
  PROVE  Leads(reports, LearnedOf(fdb), LearnedOf(Without(gone)))
<1> DEFINE n == Cardinality(gone)
           L == LearnedOf(fdb)
           Gone(j, e) == Flushes(reports[j].bv, reports[j].bport, e)
           R == [i \in 1 .. n + 1 |-> {e \in L : \A j \in 1 .. i - 1 : ~ Gone(j, e)}]
<1>1. gone \in SUBSET DOMAIN fdb /\ IsFiniteSet(gone)
  <2>1. gone \in SUBSET DOMAIN fdb
    BY DEF Matching
  <2> QED
    BY <2>1, FS_Subset DEF Tables
<1>2. /\ n \in Nat /\ s \in [1 .. n -> gone]
      /\ \A x \in gone : \E j \in 1 .. n : s[j] = x
  BY <1>1, Enumerates
<1>3. /\ reports \in Seq(Notes) /\ Len(reports) = n
      /\ \A j \in 1 .. n : /\ reports[j].event_type = "FLUSHED"
                           /\ reports[j].bv = s[j].bv /\ reports[j].bport = fdb[s[j]].bport
  <2>1. \A j \in 1 .. n : s[j] \in Keys /\ fdb[s[j]].bport \in Bports
    BY <1>1, <1>2 DEF Tables
  <2>2. \A j \in 1 .. n : reports[j] \in Notes
    <3> TAKE j \in 1 .. n
    <3>1. reports[j] = [event_type |-> "FLUSHED", mac |-> s[j].mac, bv |-> s[j].bv,
                        bport |-> fdb[s[j]].bport]
      BY <1>2
    <3> QED
      BY <2>1, <3>1 DEF Notes, Data, Events, Keys
  <2>3. reports = [j \in 1 .. n |-> reports[j]]
    BY <1>2
  <2> HIDE DEF n
  <2>4. reports \in Seq(Notes) /\ Len(reports) = n
    BY <1>2, <2>2, <2>3
  <2> QED
    BY <1>2, <2>4
<1>4. L \in SUBSET Entries
  BY LearnedMember
<1>5. \A j \in 1 .. n, e \in L : Gone(j, e) <=> s[j].bv = e.bv /\ fdb[s[j]].bport = e.bport
  <2> TAKE j \in 1 .. n, e \in L
  <2>1. s[j].bv \in Bvs /\ fdb[s[j]].bport \in Bports
    BY <1>1, <1>2 DEF Tables, Keys
  <2> QED
    BY <1>3, <2>1, OidAssumption DEF Flushes
<1>6. ASSUME NEW e \in L
      PROVE  KeyOf(e) \in gone <=> \E j \in 1 .. n : Gone(j, e)
  <2>1. e \in Entries /\ KeyOf(e) \in DOMAIN fdb /\ fdb[KeyOf(e)].bport = e.bport /\ KeyOf(e).bv = e.bv
    BY LearnedMember DEF KeyOf
  <2>2. KeyOf(e) \in gone => \E j \in 1 .. n : Gone(j, e)
    BY <1>2, <1>5, <2>1
  <2>3. ASSUME NEW j \in 1 .. n, Gone(j, e)
        PROVE  KeyOf(e) \in gone
    <3>1. s[j] \in gone /\ s[j].bv = e.bv /\ fdb[s[j]].bport = e.bport
      BY <1>2, <1>5, <2>3
    <3>2. bport \in {NullOid, e.bport} /\ bv \in {NullOid, e.bv}
      BY <3>1 DEF Matching
    <3> QED
      BY <3>2, FlushedEntries
  <2> QED
    BY <2>2, <2>3
<1> HIDE DEF n, L, Gone
<1>7. /\ R \in [1 .. n + 1 -> SUBSET Entries]
      /\ \A i \in 1 .. n + 1 : R[i] = {e \in L : \A j \in 1 .. i - 1 : ~ Gone(j, e)}
  BY <1>4
<1> HIDE DEF R
<1>8. R[1] = L
  <2>1. 1 \in 1 .. n + 1 /\ 1 .. 1 - 1 = {}
    BY <1>2
  <2>2. R[1] = {e \in L : \A j \in {} : ~ Gone(j, e)}
    BY <1>7, <2>1
  <2> QED
    BY <2>2
<1>9. R[n + 1] = LearnedOf(Without(gone))
  <2>1. R[n + 1] = {e \in L : \A j \in 1 .. n : ~ Gone(j, e)}
    BY <1>2, <1>7
  <2>2. LearnedOf(Without(gone)) \in SUBSET Entries
    <3>1. Tables(Without(gone))
      BY TableSteps
    <3> QED
      BY <3>1, LearnedMember
  <2>3. \A e \in Entries : e \in LearnedOf(Without(gone)) <=> e \in L /\ KeyOf(e) \notin gone
    BY WithoutMember DEF L
  <2> QED
    BY <1>4, <1>6, <2>1, <2>2, <2>3
<1>10. Steps(R, reports, n)
  <2> SUFFICES ASSUME NEW i \in 1 .. n
               PROVE  /\ reports[i].bport # Absent /\ Fresh(R[i], reports[i])
                      /\ R[i + 1] = SetReplay(R[i], reports[i])
    BY DEF Steps
  <2>1. reports[i].bport # Absent
    BY <1>1, <1>2, <1>3, OidAssumption DEF Tables
  <2>2. Fresh(R[i], reports[i])
    BY <1>3 DEF Fresh
  <2>3. SetReplay(R[i], reports[i]) = {e \in R[i] : ~ Gone(i, e)}
    BY <1>3 DEF SetReplay, Gone
  <2>4. i \in 1 .. n + 1 /\ i + 1 \in 1 .. n + 1 /\ (i + 1) - 1 = i
    BY <1>2
  <2>5. R[i] = {e \in L : \A j \in 1 .. i - 1 : ~ Gone(j, e)}
    BY <1>7, <2>4
  <2>6. R[i + 1] = {e \in L : \A j \in 1 .. i : ~ Gone(j, e)}
    BY <1>7, <2>4
  <2>7. \A j \in 1 .. i : j \in 1 .. i - 1 \/ j = i
    BY <1>2
  <2>8. R[i + 1] = {e \in R[i] : ~ Gone(i, e)}
    <3>1. i \in 1 .. i /\ \A j \in 1 .. i - 1 : j \in 1 .. i
      BY <1>2
    <3> QED
      BY <2>5, <2>6, <2>7, <3>1
  <2> QED
    BY <2>1, <2>2, <2>3, <2>8
<1>11. Leads(reports, L, LearnedOf(Without(gone)))
  BY <1>3, <1>7, <1>8, <1>9, <1>10 DEF Leads
<1> QED
  BY <1>11 DEF L

-----------------------------------------------------------------------------
(* MapFollowsAsic.  The vector lags behind the switch by what is still        *)
(* pending: delivered one after the other, the pending notifications turn     *)
(* what the vector lists into what the switch has learned, and none of them   *)
(* lists an address a second time.                                            *)

Owed == Leads(pending, Range(gFdbMap), LearnedInAsic) /\ EachOnce(gFdbMap)

LEMMA InitOwed == Init => Owed
<1> SUFFICES ASSUME Init PROVE Owed
  OBVIOUS
<1>1. pending = <<>> /\ Range(gFdbMap) = {} /\ LearnedInAsic = {}
  BY DEF Init, Range, LearnedInAsic
<1>2. EachOnce(gFdbMap)
  BY DEF Init, EachOnce
<1>3. {} \in SUBSET Entries
  OBVIOUS
<1> QED
  BY <1>1, <1>2, <1>3, LeadsNone DEF Owed

\* The switch reports a change to the end of the queue.
LEMMA QueueOwed ==
  ASSUME TypeInv, Owed, NEW q \in Seq(Notes), Leads(q, LearnedOf(fdb), LearnedOf(fdb')),
         pending' = pending \o q, gFdbMap' = gFdbMap
  PROVE  Owed'
<1>1. Leads(pending, Range(gFdbMap), LearnedOf(fdb)) /\ pending \in Seq(Notes)
  BY LearnedNow DEF Owed, TypeInv
<1>2. Leads(pending \o q, Range(gFdbMap), LearnedOf(fdb'))
  BY <1>1, LeadsOn
<1>3. LearnedInAsic' = LearnedOf(fdb')
  BY DEF LearnedInAsic, LearnedOf, Dynamic
<1>4. (Leads(pending, Range(gFdbMap), LearnedInAsic))' <=> Leads(pending', Range(gFdbMap'), LearnedInAsic')
  BY DEF Leads, Steps
<1>5. EachOnce(gFdbMap)'
  BY DEF Owed, EachOnce
<1> QED
  BY <1>2, <1>3, <1>4, <1>5 DEF Owed

\* One report.
LEMMA ReportOwed ==
  ASSUME TypeInv, Owed, NEW d \in Notes, d.bport # Absent, Fresh(LearnedOf(fdb), d),
         LearnedOf(fdb') = SetReplay(LearnedOf(fdb), d),
         pending' = Append(pending, d), gFdbMap' = gFdbMap
  PROVE  Owed'
<1>1. LearnedOf(fdb) \in SUBSET Entries
  BY LearnedMember DEF TypeInv
<1>2. Leads(<<d>>, LearnedOf(fdb), LearnedOf(fdb'))
  BY <1>1, LeadsOne
<1>3. <<d>> \in Seq(Notes) /\ pending' = pending \o <<d>>
  BY DEF TypeInv
<1> QED
  BY <1>2, <1>3, QueueOwed

\* The table changes where nothing was learned, or not at all.
LEMMA SilentOwed ==
  ASSUME Owed, LearnedOf(fdb') = LearnedOf(fdb), pending' = pending, gFdbMap' = gFdbMap
  PROVE  Owed'
<1>1. LearnedInAsic' = LearnedOf(fdb') /\ LearnedInAsic = LearnedOf(fdb)
  BY DEF LearnedInAsic, LearnedOf, Dynamic
<1> QED
  BY <1>1 DEF Owed, Leads, Steps, EachOnce

\* The handler takes the first notification.
LEMMA DeliverOwed ==
  ASSUME TypeInv, Owed, on_fdb_event, "batch" \notin Liberties
  PROVE  Owed'
<1>1. pending \in Seq(Notes) /\ pending # <<>> /\ gFdbMap \in Seq(Entries)
  BY DEF TypeInv, on_fdb_event
<1> DEFINE d == Head(pending)
<1>2. d \in Notes /\ d = pending[1]
  BY <1>1
<1>3. PICK b \in BportIds(d) : gFdbMap' = Replay(gFdbMap, d, b) /\ pending' = SubSeq(pending, 2, Len(pending))
  <2>1. PICK count \in 1 .. 1, b \in BportIds(d) :
           gFdbMap' = Replay(gFdbMap, d, b) /\ pending' = SubSeq(pending, count + 1, Len(pending))
    BY DEF on_fdb_event
  <2>2. count + 1 = 2
    OBVIOUS
  <2> QED
    BY <2>1, <2>2
<1> HIDE DEF d
<1>4. Range(gFdbMap) \in SUBSET Entries
  BY <1>1 DEF Range
<1>5. /\ d.bport # Absent /\ Fresh(Range(gFdbMap), d)
      /\ Leads(SubSeq(pending, 2, Len(pending)), SetReplay(Range(gFdbMap), d), LearnedInAsic)
  BY <1>1, <1>2, <1>4, LeadsTail DEF Owed
<1>6. gFdbMap' = Replay(gFdbMap, d, d.bport)
  BY <1>2, <1>3, <1>5, PortIsKnown
<1>7. Range(gFdbMap') = SetReplay(Range(gFdbMap), d) /\ EachOnce(gFdbMap')
  BY <1>1, <1>2, <1>5, <1>6, ReplayRange, ReplayOnce DEF Owed
<1>8. LearnedInAsic' = LearnedInAsic
  BY DEF on_fdb_event, LearnedInAsic, Dynamic
<1>9. Leads(pending', Range(gFdbMap'), LearnedInAsic')
  BY <1>3, <1>5, <1>7, <1>8
<1>10. (Leads(pending, Range(gFdbMap), LearnedInAsic))' <=> Leads(pending', Range(gFdbMap'), LearnedInAsic')
  BY DEF Leads, Steps
<1>11. EachOnce(gFdbMap)' <=> EachOnce(gFdbMap')
  BY DEF EachOnce
<1> QED
  BY <1>7, <1>9, <1>10, <1>11 DEF Owed

LEMMA StepKeepsOwed ==
  ASSUME TypeInv, Owed, [Next]_vars, Liberties \subseteq {"overlap"}
  PROVE  Owed'
<1> DEFINE L == LearnedOf(fdb)
<1>1. Tables(fdb) /\ pending \in Seq(Notes)
  BY DEF TypeInv
<1>2. \A port \in Bports : port # Absent
  BY OidAssumption
<1>3. CASE on_fdb_event
  BY <1>3, DeliverOwed
<1>4. ASSUME NEW k \in Keys, NEW port \in Bports, Learn(k, port)
      PROVE  Owed'
  <2> DEFINE d == Note("LEARNED", k, port)
  <2>1. d \in Notes /\ d.bport # Absent /\ pending' = Append(pending, d)
    BY <1>2, <1>4, ReportIsNote DEF Note, Learn, Report
  <2>2. Fresh(LearnedOf(fdb), d) /\ LearnedOf(fdb') = SetReplay(LearnedOf(fdb), d)
    BY <1>1, <1>4, LearnStep DEF Learn
  <2> HIDE DEF d
  <2> QED
    BY <1>4, <2>1, <2>2, ReportOwed DEF Learn
<1>5. ASSUME NEW k \in Keys, NEW port \in Bports, Move(k, port)
      PROVE  Owed'
  <2> DEFINE d == Note("MOVE", k, port)
  <2>1. d \in Notes /\ d.bport # Absent /\ pending' = Append(pending, d)
    BY <1>2, <1>5, ReportIsNote DEF Note, Move, Report
  <2>2. Fresh(LearnedOf(fdb), d)
    BY DEF Fresh, Note
  <2>3. LearnedOf(fdb') = SetReplay(LearnedOf(fdb), d)
    BY <1>1, <1>5, MoveStep DEF Move
  <2> HIDE DEF d
  <2> QED
    BY <1>5, <2>1, <2>2, <2>3, ReportOwed DEF Move
<1>6. ASSUME NEW k \in Keys, Age(k)
      PROVE  Owed'
  <2> DEFINE d == Note("AGED", k, fdb[k].bport)
  <2>1. fdb[k].bport \in Bports
    BY <1>1, <1>6 DEF Age, Dynamic, Tables
  <2>2. d \in Notes /\ d.bport # Absent /\ pending' = Append(pending, d)
    BY <1>2, <1>6, <2>1, ReportIsNote DEF Note, Age, Report
  <2>3. Fresh(LearnedOf(fdb), d)
    BY DEF Fresh, Note
  <2>4. LearnedOf(fdb') = SetReplay(LearnedOf(fdb), d)
    BY <1>1, <1>6, AgeStep DEF Age
  <2> HIDE DEF d
  <2> QED
    BY <1>6, <2>2, <2>3, <2>4, ReportOwed DEF Age
<1>7. ASSUME NEW k \in Keys, NEW port \in Bports, sai_thrift_create_fdb_entry(k, port)
      PROVE  Owed'
  <2>1. [bport |-> port, type |-> "static"] \in [bport : Bports, type : {"dynamic", "static"}]
    OBVIOUS
  <2>2. Tables(fdb')
    BY <1>1, <1>7, <2>1, TableSteps DEF sai_thrift_create_fdb_entry
  <2>3. /\ DOMAIN fdb' = DOMAIN fdb \cup {k} /\ k \notin DOMAIN fdb /\ fdb'[k].type = "static"
        /\ \A x \in DOMAIN fdb : fdb'[x] = fdb[x]
    BY <1>7 DEF sai_thrift_create_fdb_entry
  <2>4. LearnedOf(fdb') = LearnedOf(fdb)
    BY <1>1, <2>2, <2>3, SameLearned
  <2> QED
    BY <1>7, <2>4, SilentOwed DEF sai_thrift_create_fdb_entry
<1>8. ASSUME NEW k \in Keys, sai_thrift_delete_fdb_entry(k)
      PROVE  Owed'
  <2>1. ~ Dynamic(k) /\ k \in DOMAIN fdb /\ fdb' = Without({k})
    BY <1>8 DEF sai_thrift_delete_fdb_entry
  <2>2. Tables(fdb')
    BY <1>1, <2>1, TableSteps
  <2>3. /\ DOMAIN fdb' = DOMAIN fdb \ {k} /\ fdb[k].type # "dynamic"
        /\ \A x \in DOMAIN fdb \ {k} : fdb'[x] = fdb[x]
    BY <2>1 DEF Without, Dynamic
  <2>4. LearnedOf(fdb') = LearnedOf(fdb)
    BY <1>1, <2>2, <2>3, SameLearned
  <2> QED
    BY <1>8, <2>4, SilentOwed DEF sai_thrift_delete_fdb_entry
<1>9. ASSUME NEW bport \in Bports \cup {NullOid}, NEW bv \in Bvs \cup {NullOid},
             NEW types \in FlushTypes, sai_thrift_flush_fdb_entries(bport, bv, types)
      PROVE  Owed'
  <2>1. types = {"dynamic"}
    BY DEF FlushTypes
  <2> DEFINE gone == Matching(bport, bv, {"dynamic"})
  <2>2. PICK q \in FlushReports(gone, bport, bv) : pending' = pending \o q
    BY <1>9, <2>1 DEF sai_thrift_flush_fdb_entries
  <2>3. fdb' = Without(gone) /\ gFdbMap' = gFdbMap
    BY <1>9, <2>1 DEF sai_thrift_flush_fdb_entries
  <2>4. gone \in SUBSET DOMAIN fdb
    BY DEF Matching
  <2> HIDE DEF gone
  <2>5. q \in Seq(Notes)
    BY <1>1, <2>4, FlushReportsTyped
  <2> DEFINE c == [event_type |-> "FLUSHED", mac |-> NullOid, bv |-> bv, bport |-> bport]
  <2>7. (\E s \in SetToSeqs(gone) :
           q = [i \in DOMAIN s |-> [event_type |-> "FLUSHED", mac |-> s[i].mac, bv |-> s[i].bv,
                                    bport |-> fdb[s[i]].bport]]) \/ q = <<c>>
    BY DEF FlushReports
  <2>8. Leads(<<c>>, LearnedOf(fdb), LearnedOf(Without(gone)))
    BY <1>1, ConsolidatedFlush DEF gone
  <2> HIDE DEF c
  <2>9. Leads(q, LearnedOf(fdb), LearnedOf(Without(gone)))
    BY <1>1, <2>7, <2>8, OneByOneFlush DEF gone
  <2> QED
    BY <2>2, <2>3, <2>5, <2>9, QueueOwed
<1>10. CASE BeginGet \/ CopyNext \/ Reply \/ NextCall \/ Crashed \/ UNCHANGED vars
  <2>1. fdb' = fdb /\ pending' = pending /\ gFdbMap' = gFdbMap
    BY <1>10 DEF BeginGet, CopyNext, Reply, NextCall, Crashed, vars
  <2> QED
    BY <2>1, SilentOwed
<1> QED
  BY <1>3, <1>4, <1>5, <1>6, <1>7, <1>8, <1>9, <1>10 DEF Next

\* A vector that lists each address once is as long as its set of entries.
LEMMA OnceLength ==
  ASSUME NEW map \in Seq(Entries), EachOnce(map)
  PROVE  Len(map) = Cardinality(Range(map))
<1> DEFINE n == Len(map)
<1>1. n \in Nat /\ DOMAIN map = 1 .. n
  OBVIOUS
<1>2. \A i, j \in 1 .. n : map[i] = map[j] => i = j
  BY <1>1 DEF EachOnce, SameEntry
<1>3. map \in [1 .. n -> Range(map)] /\ \A x \in Range(map) : \E i \in 1 .. n : map[i] = x
  BY <1>1 DEF Range
<1> HIDE DEF n
<1>4. map \in Bijection(1 .. n, Range(map))
  BY <1>2, <1>3 DEF Bijection, Injection, IsInjective, Surjection
<1>5. ExistsBijection(1 .. n, Range(map))
  BY <1>4 DEF ExistsBijection
<1>6. IsFiniteSet(1 .. n) /\ Cardinality(1 .. n) = n
  BY <1>1, FS_Interval
<1>7. Cardinality(Range(map)) = n
  BY <1>5, <1>6, FS_Bijection
<1> QED
  BY <1>7 DEF n

\* Once every notification is delivered, the vector of on_fdb_event lists each
\* learned entry of the switch with its port, once, and nothing else: whatever
\* the switch learns, moves, ages and flushes, in whatever order, reported entry
\* by entry or consolidated, and whatever the RPC thread does in between.  The
\* liberties left out are those under which a run or a finding shows it false.
THEOREM MapFollows ==
  ASSUME Liberties \subseteq {"overlap"}
  PROVE  Spec => []MapFollowsAsic
<1>1. TypeInv /\ Owed => MapFollowsAsic
  <2> SUFFICES ASSUME TypeInv, Owed, pending = <<>>
               PROVE  Range(gFdbMap) = LearnedInAsic /\ Len(gFdbMap) = Cardinality(LearnedInAsic)
    BY DEF MapFollowsAsic
  <2>1. gFdbMap \in Seq(Entries) /\ EachOnce(gFdbMap)
    BY DEF TypeInv, Owed
  <2>2. Range(gFdbMap) \in SUBSET Entries
    BY <2>1 DEF Range
  <2>3. Leads(<<>>, Range(gFdbMap), LearnedInAsic)
    BY DEF Owed
  <2>4. Range(gFdbMap) = LearnedInAsic
    BY <2>2, <2>3, LeadsNone
  <2> QED
    BY <2>1, <2>4, OnceLength
<1>2. TypeInv /\ Owed /\ [Next]_vars => TypeInv' /\ Owed'
  BY StepKeepsTypes, StepKeepsOwed
<1>3. Init => TypeInv /\ Owed
  BY InitTyped, InitOwed
<1> QED
  BY <1>1, <1>2, <1>3, PTL DEF Spec

-----------------------------------------------------------------------------
(* ReplyListsEveryEntry.  Where no notification arrives during a listing, the *)
(* loop has copied the first it - 1 elements of the vector it began with.     *)

Listing ==
  /\ rpc.pc # "crashed"
  /\ rpc.pc = "listing" =>
       /\ rpc.kept = Range(gFdbMap) /\ rpc.it <= Len(gFdbMap) + 1
       /\ \A i \in 1 .. rpc.it - 1 : gFdbMap[i] \in Range(rpc.attr_list)
  /\ ReplyListsEveryEntry

LEMMA StepKeepsListing ==
  ASSUME TypeInv, Listing, [Next]_vars, "overlap" \notin Liberties
  PROVE  Listing'
<1>1. gFdbMap \in Seq(Entries) /\ Len(gFdbMap) \in Nat /\ rpc \in Calls
  BY DEF TypeInv
<1>2. CASE on_fdb_event
  <2>1. rpc.pc \in {"idle", "replied"} /\ rpc' = rpc
    BY <1>2 DEF on_fdb_event, Disturbed
  <2> QED
    BY <2>1 DEF Listing, ReplyListsEveryEntry
<1>3. CASE BeginGet
  <2>1. rpc'.pc = "listing" /\ rpc'.it = 1 /\ rpc'.kept = Range(gFdbMap) /\ gFdbMap' = gFdbMap
    BY <1>3 DEF BeginGet
  <2>2. 1 .. 1 - 1 = {}
    OBVIOUS
  <2> QED
    BY <1>1, <2>1, <2>2 DEF Listing, ReplyListsEveryEntry
<1>4. CASE CopyNext
  <2> DEFINE e == gFdbMap[rpc.it]
  <2>1. /\ rpc.pc = "listing" /\ rpc.it \in Nat \ {0} /\ rpc.it <= Len(gFdbMap)
        /\ rpc.attr_list \in Seq(Entries) /\ e \in Entries
    BY <1>1, <1>4 DEF CopyNext, Calls
  <2>2. /\ rpc'.pc = "listing" /\ rpc'.it = rpc.it + 1 /\ rpc'.kept = rpc.kept
        /\ rpc'.attr_list = Append(rpc.attr_list, e) /\ gFdbMap' = gFdbMap
    BY <1>1, <1>4 DEF CopyNext, Calls
  <2> DEFINE s == rpc.attr_list
  <2>3. Range(Append(s, e)) = Range(s) \cup {e}
    <3>1. s \in Seq(Entries)
      BY <2>1
    <3> HIDE DEF s, e
    <3>2. /\ DOMAIN Append(s, e) = DOMAIN s \cup {Len(s) + 1} /\ Append(s, e)[Len(s) + 1] = e
          /\ \A i \in DOMAIN s : Append(s, e)[i] = s[i]
      BY <3>1
    <3> QED
      BY <3>2 DEF Range
  <2>4. \A i \in 1 .. (rpc.it + 1) - 1 : i \in 1 .. rpc.it - 1 \/ i = rpc.it
    BY <2>1
  <2>5. \A i \in 1 .. rpc'.it - 1 : gFdbMap[i] \in Range(rpc'.attr_list)
    BY <2>1, <2>2, <2>3, <2>4 DEF Listing
  <2> QED
    BY <1>1, <2>1, <2>2, <2>5 DEF Listing, ReplyListsEveryEntry
<1>5. CASE Reply
  <2>1. rpc.pc = "listing" /\ rpc.it = Len(gFdbMap) + 1 /\ rpc.it - 1 = Len(gFdbMap)
    BY <1>1, <1>5 DEF Reply
  <2>2. rpc'.pc = "replied" /\ rpc'.kept = rpc.kept /\ rpc'.attr_list = rpc.attr_list
    BY <1>1, <1>5 DEF Reply, Calls
  <2>3. \A i \in DOMAIN gFdbMap : gFdbMap[i] \in Range(rpc.attr_list)
    BY <1>1, <2>1 DEF Listing
  <2>4. rpc.kept \subseteq Range(rpc.attr_list)
    BY <2>1, <2>3 DEF Listing, Range
  <2> QED
    BY <2>2, <2>4 DEF Listing, ReplyListsEveryEntry
<1>6. CASE NextCall
  BY <1>6 DEF NextCall, Idle, Listing, ReplyListsEveryEntry
<1>7. CASE rpc' = rpc /\ gFdbMap' = gFdbMap
  BY <1>7 DEF Listing, ReplyListsEveryEntry
<1>8. on_fdb_event \/ BeginGet \/ CopyNext \/ Reply \/ NextCall \/ (rpc' = rpc /\ gFdbMap' = gFdbMap)
  BY DEF Next, vars, Learn, Move, Age, sai_thrift_create_fdb_entry, sai_thrift_delete_fdb_entry,
         sai_thrift_flush_fdb_entries, Crashed
<1> QED
  BY <1>2, <1>3, <1>4, <1>5, <1>6, <1>7, <1>8

\* What the run of the overlapping listing refutes holds without the overlap: a
\* reply of sai_thrift_get_fdb_entries lists every entry the vector held when
\* the call began, and the loop never runs off the vector.
THEOREM UndisturbedReply ==
  ASSUME "overlap" \notin Liberties
  PROVE  Spec => [](ReplyListsEveryEntry /\ rpc.pc # "crashed")
<1>1. Init => TypeInv /\ Listing
  BY InitTyped DEF Init, Idle, Listing, ReplyListsEveryEntry
<1>2. TypeInv /\ Listing /\ [Next]_vars => TypeInv' /\ Listing'
  BY StepKeepsTypes, StepKeepsListing
<1>3. Listing => ReplyListsEveryEntry /\ rpc.pc # "crashed"
  BY DEF Listing
<1> QED
  BY <1>1, <1>2, <1>3, PTL DEF Spec
=============================================================================
