----------------------------- MODULE PtfRunner -----------------------------
(***************************************************************************)
(* unittest running the PTF tests of src/ptf against a switch.  A test is  *)
(* a program of calls to the SAI client and of checks, with the try and    *)
(* finally blocks of the Python code (module PtfScript builds it).  A      *)
(* check is a verify_packet or an assert of the test: it passes or, when   *)
(* the device under test misbehaves, raises.                               *)
(*                                                                         *)
(* The client is sai_adapter with its exceptions caught: a create that is  *)
(* refused returns SAI_NULL_OBJECT_ID, a remove or set that is refused     *)
(* returns its status, and the test goes on.  Reading a variable that was  *)
(* never assigned raises.  The device may refuse a create whose handle the *)
(* test then compares with SAI_NULL_OBJECT_ID.                             *)
(***************************************************************************)
EXTENDS SaiStore

CONSTANTS Tests,          \* names of the tests
          Script,         \* test -> its program, a sequence of steps
          Base,           \* test -> the store it finds
          ReadUnassigned  \* the tests that may read a name they have not assigned

(***************************************************************************)
(* Programs are nested as Python blocks are: the try at k has its finally  *)
(* at EndOf(p, k), a try inside it ends before that, and a jump over one   *)
(* branch of an if stays in the blocks it starts from.                     *)
(***************************************************************************)
Tries(p) == {k \in DOMAIN p : p[k].op = "try"}

EndOf(p, k) == k + p[k].len + 1

Open(p, i) == {k \in Tries(p) : k < i /\ i <= EndOf(p, k)}

Jumps == {"when", "except", "either", "skip"}

WellNested(p) ==
    /\ \A k \in Tries(p) : /\ p[k].len \in Nat
                           /\ EndOf(p, k) \in DOMAIN p
                           /\ p[EndOf(p, k)].op = "finally"
    /\ \A k, l \in Tries(p) : k < l /\ l <= EndOf(p, k) => EndOf(p, l) < EndOf(p, k)
    /\ \A i \in DOMAIN p : p[i].op = "finally" => \E k \in Tries(p) : EndOf(p, k) = i
    /\ \A i \in DOMAIN p : p[i].op \in Jumps => /\ p[i].len \in Nat
                                               /\ EndOf(p, i) <= Len(p) + 1
                                               /\ Open(p, EndOf(p, i)) = Open(p, i)

(* a store in which every object is of some kind, and the objects it names are there *)
NoneDangling(st) == \A n \in DOMAIN st : /\ "kind" \in DOMAIN st[n]
                                         /\ Refs(st[n]) \subseteq Handles(st)

(* setting an attribute does not make another kind of object of it *)
ASSUME ScriptAssumption ==
    \A t \in Tests : LET p == Script[t]
                    IN  /\ DOMAIN p = 1..Len(p) /\ Len(p) \in Nat
                        /\ WellNested(p)
                        /\ \A i \in DOMAIN p :
                              /\ p[i].op = "set" => p[i].f # "kind"
                              /\ p[i].op \in {"create", "must", "deny", "learn"} => "kind" \in DOMAIN p[i].o

(***************************************************************************)
(* Definite assignment, as a reader sees it.  A step reads a name that a   *)
(* step before it assigns, where nothing on the way leads past that step,  *)
(* neither the branch of an if nor an exception that leaves a try, and no  *)
(* method that starts on the way has the name as a local.  Or the step is  *)
(* in the branch of an if on that name, or on one assigned along with it.  *)
(***************************************************************************)
Assigning == {"create", "must", "deny"}

MayRaise == {"must", "deny", "made", "check", "end"}

Outline(p) == [sets  |-> {j \in DOMAIN p : p[j].op \in Assigning},
               ifs   |-> {j \in DOMAIN p : p[j].op = "when"},
               forks |-> {j \in DOMAIN p : p[j].op \in Jumps \cup {"try"}},
               calls |-> {j \in DOMAIN p : p[j].op = "call"}]

PassedOver(p, o, j, i) == \E k \in o.forks :
    /\ k < j /\ j < EndOf(p, k) /\ EndOf(p, k) <= i
    /\ p[k].op = "try" => \E l \in k + 1..j - 1 : p[l].op \in MayRaise

Dropped(p, o, n, j, i) == \E k \in o.calls : j < k /\ k < i /\ n \in p[k].locals

Reaches(p, o, n, j, i) == j < i /\ ~PassedOver(p, o, j, i) /\ ~Dropped(p, o, n, j, i)

AssignedBefore(p, o, n, i) == \E j \in o.sets : p[j].n = n /\ Reaches(p, o, n, j, i)

(* from the create at l the test comes to a, unless there is no such object *)
Straight(p, l, a) ==
    /\ l < a /\ p[l].op = "create"
    /\ \A s \in l + 1..a - 1 : \/ p[s].op = "create"
                               \/ p[s].op = "made" /\ p[s].n = p[l].n

(* since the method started at d, m has not been assigned but along with n *)
Along(p, o, m, n, d, i) ==
    /\ d < i /\ m \in p[d].locals /\ ~PassedOver(p, o, d, i)
    /\ \A l \in d + 1..i - 1 :
          /\ p[l].op = "call" => n \notin p[l].locals
          /\ p[l].op \in {"learn", "set"} => p[l].n # m
          /\ p[l].op \in Assigning /\ p[l].n = m =>
                \/ AssignedBefore(p, o, n, l)
                \/ \E a \in o.sets : p[a].n = n /\ Straight(p, l, a)

GuardedRead(p, o, there, n, i) == \E k \in o.ifs :
    /\ i < EndOf(p, k) /\ Reaches(p, o, n, k, i)
    /\ p[k].n \notin there
    /\ p[k].n = n \/ \E d \in o.calls : Along(p, o, p[k].n, n, d, k)

ReadsAssigned(p, there) ==
    LET o == Outline(p)
        Assigned(n, i) == AssignedBefore(p, o, n, i) \/ GuardedRead(p, o, there, n, i)
    IN  \A i \in DOMAIN p :
           /\ p[i].op # "raise"
           /\ p[i].op = "remove" => p[i].n \in there \/ Assigned(p[i].n, i)
           /\ p[i].op = "set" => p[i].n \in there \cup Fixed \/ Assigned(p[i].n, i)

ASSUME NamesAssumption ==
    \A t \in Tests \ ReadUnassigned : ReadsAssigned(Script[t], DOMAIN Base[t])

ASSUME BaseAssumption == \A t \in Tests : NoneDangling(Base[t])

VARIABLES test,           \* the test that runs
          pc,             \* the step it is at
          raised,         \* an exception is on its way up
          blocks,         \* where the finally of each try the test is in starts
          failed,         \* some check has failed, or a name was not bound
          escaped,        \* and did so outside every try block: in a setUp, a tearDown
          bound,          \* the variables assigned so far
          store           \* the objects of the switch

vars == <<test, pc, blocks, raised, failed, escaped, bound, store>>

prog == Script[test]

Over == pc > Len(prog)

step == prog[pc]

At(op) == ~Over /\ step.op = op

-----------------------------------------------------------------------------
(* MUTANT of Handler: past the end, as if there were a step more *)
Handler_PastTheEnd == IF blocks = << >> THEN Len(prog) + 2 ELSE Head(blocks)

(* MUTANT of Handler: the outermost finally block *)
Handler_Outermost == IF blocks = << >> THEN Len(prog) + 1 ELSE blocks[Len(blocks)]

(* where an exception goes: the nearest finally, or out *)
Handler == IF blocks = << >> THEN Len(prog) + 1 ELSE Head(blocks)

Goes == pc' = pc + 1 /\ UNCHANGED <<blocks, raised, failed, escaped>>

Raises == /\ pc' = Handler
          /\ raised' = TRUE
          /\ failed' = TRUE
          /\ escaped' = (escaped \/ blocks = << >>)
          /\ UNCHANGED blocks

-----------------------------------------------------------------------------
Init == /\ test \in Tests
        /\ pc = 1
        /\ blocks = << >>
        /\ raised = FALSE
        /\ failed = FALSE
        /\ escaped = FALSE
        /\ bound = {}
        /\ store = Base[test]

Create == /\ At("create")
          /\ bound' = bound \cup {step.n}
          /\ store' = IF Creatable(store, step.n, step.o)
                      THEN With(store, step.n, step.o) ELSE store
          /\ Goes /\ UNCHANGED test

(* the device has no room for it, and the step after it looks at the handle *)
Refuse == /\ At("create") /\ pc < Len(prog) /\ prog[pc + 1].op = "made"
          /\ bound' = bound \cup {step.n}
          /\ failed' = TRUE
          /\ pc' = pc + 1 /\ UNCHANGED <<test, blocks, raised, escaped, store>>

(* MUTANT of Demand: the variable of the entry is assigned when the call is done *)
Demand_BindsLate ==
    /\ At("must")
    /\ \/ /\ Creatable(store, step.n, step.o)
          /\ store' = With(store, step.n, step.o)
          /\ bound' = bound \cup {step.n}
          /\ Goes
       \/ Raises /\ UNCHANGED <<store, bound>>
    /\ UNCHANGED test

(* a create whose status must be success; the variable of an entry is assigned before *)
Demand == /\ At("must")
          /\ bound' = bound \cup {step.n}
          /\ \/ /\ Creatable(store, step.n, step.o)
                /\ store' = With(store, step.n, step.o)
                /\ Goes
             \/ Raises /\ UNCHANGED store
          /\ UNCHANGED test

(* a create whose status must not be success *)
Deny == /\ At("deny")
        /\ bound' = bound \cup {step.n}
        /\ store' = IF Creatable(store, step.n, step.o)
                    THEN With(store, step.n, step.o) ELSE store
        /\ \/ ~Creatable(store, step.n, step.o) /\ Goes
           \/ Raises
        /\ UNCHANGED test

(* an assertion that a handle is not SAI_NULL_OBJECT_ID *)
Made == /\ At("made")
        /\ IF step.n \in DOMAIN store THEN Goes ELSE Raises
        /\ UNCHANGED <<test, bound, store>>

Remove == /\ At("remove")
          /\ step.n \in bound \cup DOMAIN Base[test]
          /\ store' = IF Removable(store, step.n)
                      THEN Without(store, step.n) ELSE store
          /\ Goes /\ UNCHANGED <<test, bound>>

SetAttr == /\ At("set")
           /\ step.n \in bound \cup DOMAIN Base[test] \cup Fixed
           /\ store' = IF Settable(store, step.n, step.f, step.v)
                       THEN SetIn(store, step.n, step.f, step.v) ELSE store
           /\ Goes /\ UNCHANGED <<test, bound>>

(* a name that was not assigned, because an exception came first *)
Unbound == /\ \/ At("remove") /\ step.n \notin bound \cup DOMAIN Base[test]
              \/ At("set") /\ step.n \notin bound \cup DOMAIN Base[test] \cup Fixed
           /\ Raises /\ UNCHANGED <<test, bound, store>>

Passes == /\ At("check")
          /\ Goes /\ UNCHANGED <<test, bound, store>>

Fails == /\ At("check") \/ At("raise")
         /\ Raises /\ UNCHANGED <<test, bound, store>>

(* a method starts: its local variables are not assigned *)
Call == /\ At("call")
        /\ bound' = bound \ step.locals
        /\ Goes /\ UNCHANGED <<test, store>>

(* an if on a handle, or on a flag kept for it: the method has created the object *)
When == /\ At("when")
        /\ pc' = IF step.n \in DOMAIN store /\ step.n \in bound \cup DOMAIN Base[test]
                 THEN pc + 1 ELSE pc + step.len + 1
        /\ UNCHANGED <<test, blocks, raised, failed, escaped, bound, store>>

(* an except block: skipped when there is no exception *)
Rescue == /\ At("except")
          /\ pc' = IF raised THEN pc + 1 ELSE pc + step.len + 1
          /\ UNCHANGED <<test, blocks, raised, failed, escaped, bound, store>>

(* one of the two, as a random number has it; and past the other one *)
Either == /\ At("either")
          /\ \/ pc' = pc + 1
             \/ pc' = pc + step.len + 1
          /\ UNCHANGED <<test, blocks, raised, failed, escaped, bound, store>>

Skip == /\ At("skip")
        /\ pc' = pc + step.len + 1
        /\ UNCHANGED <<test, blocks, raised, failed, escaped, bound, store>>

(* what the switch does by itself when it sees a new address *)
Learn == /\ At("learn")
         /\ store' = IF Creatable(store, step.n, step.o)
                     THEN With(store, step.n, step.o) ELSE store
         /\ Goes /\ UNCHANGED <<test, bound>>

Flush == /\ At("flush")
         /\ store' = Restrict(store, {n \in DOMAIN store : store[n].kind # "fdb"})
         /\ Goes /\ UNCHANGED <<test, bound>>

Enter == /\ At("try")
         /\ blocks' = <<pc + step.len + 1>> \o blocks
         /\ pc' = pc + 1 /\ UNCHANGED <<test, raised, failed, escaped, bound, store>>

(* the finally block starts, after the body or because of an exception *)
Finally == /\ At("finally")
           /\ blocks' = Tail(blocks)
           /\ pc' = pc + 1 /\ UNCHANGED <<test, raised, failed, escaped, bound, store>>

(* the end of a finally block: an exception goes on its way *)
EndFinally == /\ At("end")
              /\ IF raised THEN pc' = Handler ELSE pc' = pc + 1
              /\ UNCHANGED <<test, blocks, raised, failed, escaped, bound, store>>

(* unittest reports the result *)
Done == Over /\ UNCHANGED vars

Next == \/ Create \/ Demand \/ Deny \/ Refuse \/ Made \/ Remove \/ SetAttr \/ Unbound
        \/ Passes \/ Fails \/ Call \/ When \/ Rescue \/ Either \/ Skip \/ Learn \/ Flush
        \/ Enter \/ Finally \/ EndFinally \/ Done

Spec == Init /\ [][Next]_vars

-----------------------------------------------------------------------------
(* The types: what is bound and what is in the store is the tests' affair. *)
TypeOK == /\ test \in Tests
          /\ pc \in 1..Len(prog) + 1
          /\ blocks \in Seq(1..Len(prog))
          /\ raised \in BOOLEAN /\ failed \in BOOLEAN /\ escaped \in BOOLEAN

(* No sequence of calls, refused or not, makes an object name one that is  *)
(* gone: what the tests count on when they remove things in some order.    *)
RefsExist == NoneDangling(store)

(* Whatever raises and wherever, a finally block that starts is that of    *)
(* the innermost try block under way, and none that was entered is left    *)
(* out: at the end no block is open.                                       *)
FinallyRuns == /\ At("finally") => blocks # << >> /\ Head(blocks) = pc
               /\ Over => blocks = << >>

(* the step reads a name that was never assigned *)
Unassigned == \/ At("remove") /\ step.n \notin bound \cup DOMAIN Base[test]
              \/ At("set") /\ step.n \notin bound \cup DOMAIN Base[test] \cup Fixed

(* No way a check or a create can fail makes a finally block, a tearDown or *)
(* an except block read a variable that was not assigned, an index that is *)
(* not there or a method that does not exist: the NameError would take the *)
(* place of the failure and leave the rest of the clean-up undone.         *)
NamesResolve == test \notin ReadUnassigned => ~(At("raise") \/ Unassigned)

(* A test never goes back: it ends, on whatever switch.                    *)
NeverBack == [][pc' > pc]_vars

=============================================================================
