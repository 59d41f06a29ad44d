# A TLA+ verification of the programs of the SAI repository

SAI, the Switch Abstraction Interface, is a vendor-neutral C interface to a
switching ASIC. The repository holds the interface as headers, without an
implementation, and the programs written around it. This directory models those
programs: TLA+ modules, the configurations with which TLC checks them, and proofs
that TLAPS checks. Paths below are relative to `src/`.

## 1. Inventory

| component | state | operations | interacts with |
|---|---|---|---|
| **L3 managers** of the basic router, `test/basic_router/{nexthop,neighbor,nexthopgrp,route}_mgr.cpp` | a cache each: `m_ip2NextHopMap`, `m_ip2NbrMap`, `m_ips2NextHGMap`, `m_Routes` with `m_EcmpGroups` | `Add`, `Del`, `EraseAll`, look-ups | call each other downwards (route, group, neighbor, next hop), then SAI |
| **FDB manager**, `test/basic_router/fdb_mgr.cpp` | `m_FdbVector` | `Add`, `Del`, `EraseAll` | SAI, whose switch learns and ages on its own |
| **setup and tear-up** of the basic router, `test/basic_router/basic_router.cpp` | position in setup, the objects created so far | one SAI call after another, per port | FDB manager, SAI |
| **FDB map of the saithrift server**, `test/saithrift/src/{saiserver,switch_sai_rpc_server}.cpp` | `gFdbMap` | notification handler (SDK thread); create, delete, flush, list (RPC thread) | the two threads share the vector without a lock |
| **attribute conditions**, `meta/parse.pl`, `meta/saisanitycheck.c`, `meta/saimetadatautils.c` | operator stack, list in RPN, value stack | generate, check at build time, evaluate at run time | each phase trusts the one before |
| **attribute lookup by name**, same files | sorted table, range of the search | generate, check order, search | the search trusts the check |
| saithrift profile service and port map, `saiserver.cpp` | two maps read from files, one iterator | load, enumerate | SAI adapter |
| saithrift RPC handlers, `switch_sai_rpc_server.cpp` | none | attribute conversion and one SAI call each | SAI |
| rest of the generator and sanity check, `meta/` | tables built from doxygen output | tag parsing, some 200 assertions per attribute | compiler, library |
| serialization, `meta/saiserialize.c` | none | value to text and back | logging, RPC |
| history and dependency tools, `meta/{ancestry,structs}.pl`, `meta/saidepgraphgen.cpp` | none | batch comparison of header versions | git |
| T0 test framework, `test/sai_test/` | model of the device under test, three pickle files | configure, persist, restore, tear down | RPC server |
| **PTF framework**, `ptf/sai_base_test.py`, unittest and the SAI client | the configuration common to all tests, as handles in attributes of the test | set up before and take down after each test | the tests, SAI |
| **PTF tests** of tunnels, next hop groups, routes, neighbors, next hops, VRFs, MPLS and LAGs, `ptf/sai{tunnel,nexthopgroup,route,neighbor,nexthop,vrf,mpls,lag}.py` | handles in variables and attributes | create, change, send and verify, remove; `try` and `finally` | one another through the switch and through shared fixtures |
| other PTF tests (`ptf/saiacl.py`, `saiqosmap.py`, `sairif.py`, `saifdb.py` ...) | as above | as above | as above |
| saithriftv2, `flexsai/`, headers `inc/` and `experimental/`, documents, packaging | | | |

What is hard in them:

* **Failure in the middle.** Every `Add` of the L3 managers is several SAI calls
  and none is undone when a later one fails; the same holds for setup and for the
  loops of `EraseAll`.
* **Stale copies.** `RouteMgr` keeps object ids for sets of next hops, and SAI may
  give an id to another object after it has been freed. A neighbor added again
  on another interface leaves its old next hop behind.
* **Two threads, no lock**, and reports that arrive after the state has moved on:
  the FDB map of the server.
* **Trust between phases.** The evaluator of conditions checks no bound; only
  what the generator and the sanity check refuse keeps it in its array.
* **Clean-up after a failure.** A PTF test that fails anywhere must hand the switch to the next
  one as it found it. What its `finally` blocks and `tearDown` do then depends
  on which variables were assigned before the failure, on the order in which SAI accepts the
  removes, and on what the earlier methods of the test left.
* **Expectations of one moment.** The tests replace routes, next hops, members and
  modes between packets, several layers below the packet they then verify.
* **Edges**: an address octet that passes 255, decimal port numbers read as
  hexadecimal, a full next hop table, an iterator that outlives its element.

What makes each component correct: the L3 managers are a forwarding table, and the
ASIC holds what the caches list; the FDB vector is the static part of the FDB;
setup that reports success has done all of it for every port; the FDB map follows
the switch; a condition means what its brackets say; a search finds what is there; a PTF test
expects what its objects make of a packet, makes no call that SAI refuses, and leaves
nothing, whether it passes or fails.

The full list of hazards, each at its line, is in `PROJECT.json`.

## 2. Modules

| module | models |
|---|---|
| `SaiL3` | external: four tables of a SAI implementation, with ids that are reused, objects in use, capacity limits and calls that fail (`Faulty`) |
| `NextHopMgr`, `NeighborMgr`, `NextHopGrpMgr`, `RouteMgr` | the managers, each EXTENDS the one it calls; an operator per method, with the returned `bool` as its last argument |
| `BasicRouter` | their composition: the calls a client makes, what the program's tests allow themselves, the properties |
| `Fib` | abstract: what the four managers promise together |
| `FdbMgr` | the FDB manager over a switch that learns and ages |
| `RouterSetup` | setup and tear-up, as a caller of `FdbMgr` |
| `FdbEvents` | notification handler, RPC calls and the listing loop of the saithrift server |
| `MixedConditions` | a condition through parser, check and evaluator; what a text means by its brackets (`Meanings`) |
| `MetaLookup` | check and binary search of the table of names |
| `SaiObjects`, `SaiStore` | external: the objects the PTF tests create, as records; which creates, sets and removes a switch accepts |
| `SaiForward` | external: what the objects make of a packet: bridging, routing, next hop groups, tunnels in and out, ACL redirection, label stacks |
| `PtfScript` | the steps of a test, and Python's `try`, `finally`, `except`, `if` and `for` as programs of steps |
| `PtfRunner` | a test under unittest: one action per kind of step, exceptions and the stack of handlers |
| `PtfHelper` | `SaiHelper`, `SaiHelperBase`, `MinimalPortVlanConfig` |
| `Tunnel*` (8 modules) | `saitunnel.py`, each about one group of its classes |
| `NextHopGroups`, `RouteTests`, `NeighborTests`, `NextHopTests`, `VrfTests`, `MplsTests`, `LagTests` | the file of that name in `ptf/` |
| `MCPtf` | the 101 tests with the store each finds and is to leave, the properties, and the tests that are known to miss one |
| `MC*` | values for TLC and reference definitions |
| `*Proofs` | the theorems; `DeliveryProofs` extends `BasicRouterProofs`, and `FibProofs` extends it; `RouterSetupProofs` holds those of `FdbMgr` too, and `MetaLookup` its own |

Correspondence. A variable has the name of its C or C++ counterpart where there is
one; the other variables are a program counter (`phase`, `pc`), the tables of SAI
(`neighbors`, `next_hops`, `groups`, `routes`, `fdb`), and histories, marked so.
A method that runs to its end without losing control is one action. The
`EraseAll` loops are one action per turn: TLC then shows that they end, and the
switch can age entries in between. The listing of `gFdbMap` is one action per
entry, as the other thread may run between two. `"map"` in `PROJECT.json` gives the lines of
each definition.

The PTF modules come in two layers. A test is a constant: a sequence of steps that
`PtfScript` assembles, with one operator per method of the Python class, under its name, so that
a test module reads like the class. `PtfRunner` is the machine that runs it. Its state is
the position, the stack of `finally` blocks, the flags of a pending or past
exception, the variables assigned so far, and the objects of the switch. A check may pass or fail at
any time; a create may be refused where the test looks at the handle.

Undefined behaviour is a choice over what the build may do. The iterator that
`RouteMgr::EraseAll` increments after its element was erased goes on properly or
crashes. A group id that was never assigned is any id. A port id that was not in
the notification is any port.

Operators `X_...` written before an operator `X` are plausible slips in `X`. No
specification uses them; `PROJECT.json` lists which property notices which slip.

## 3. Plan

1. `SaiL3`, the four managers, `BasicRouter`, and the abstract `Fib`. *Done.*
2. `BasicRouterProofs`: types, both caches of a neighbor, groups, tracked routes. *Done.*
3. `FdbMgr`, `RouterSetup` and their proofs. *Done.*
4. `FdbEvents` and `FdbEventsProofs`: what the queue owes the vector, the undisturbed listing. *Done.*
5. `MixedConditions`, `MetaLookup` and their proofs, with the meaning of texts of any depth. *Done.*
6. PTF: `SaiStore`, `PtfScript`, `PtfRunner`, `PtfHelper`; the test modules; `SaiForward`;
   `PtfRunnerProofs`. *Done for the eight files of section 1.*
7. Left: the T0 framework of `test/sai_test`, with a model `DutConfig`
   of the configuration helpers (FDB, vlan and lag lists against the switch, their
   tear-down) and `Persist` (the three files against the switch over a sequence of
   test runs, some of which fail).
8. `DeliveryProofs` and `FibProofs`: `NoMisdelivery`, that the managers implement `Fib` step by
   step, that the ASIC is what the caches say; `SetupComplete`. *Done.*
9. Left: the check for recursive conditions in `saisanitycheck.c` as a walk
   over a graph, against acyclicity; the look-ups by object type and id in
   `saimetadatautils.c`, which use an index or a scan; the list conversions
   of `saiserialize.c` as bounded round trips; `sairif.py` and `saifdb.py` on `PtfRunner`.

## 4. Runs

| run | instance | shows |
|---|---|---|
| `forwarding_table` (`MCFib`) | 3 addresses, 2 interfaces, 2 prefixes of routes and 2 of setup, 3 next hop and 2 group ids; callers as in the tests; four calls may fail | `ImplementsFib`; ASIC and caches agree; no neighbor in use leaves; an unexpected id is never used |
| `route_faults` (`MCRoutes`) | 2 addresses, one route prefix, one setup prefix, 2+2 ids; every call may fail; updates, shared next hops, next hops erased alone, direct group calls | routes tracked, groups, neighbors and next hops live, loops shrink their map and end |
| `shared_next_hops` (`MCShared`) | 2 prefixes, 2 addresses, 2 interfaces; shared next hops, moving neighbors, neighbor calls that fail half way | `NoMisdelivery` although ids are reused; the two caches of a neighbor agree |
| `fdb_vector` (`MCFdbMgr`) | 2 macs, 2 vlans, 2 ports, any calls and failures, learning on two keys | the vector is the static table up to what a broken `EraseAll` took out; the loop ends |
| `router_setup` (`MCSetup`) | the real addresses of 1, 2, 115 and 116 ports, a failure at any call | `SetupComplete`, `TearupEmptiesFdb` |
| `fdb_map` (`MCFdb`) | one mac in 2 vlans, 2 ports, 2 notifications under way, both ways to report a flush, a listing at any time | the vector follows the switch; stale entries leave |
| `mixed_conditions` (`MCMixed`) | every text of up to 7 tokens, every bracketing of up to 5 conditions, and these with one token missing | stack in bounds, every proper text accepted, value equals meaning |
| `name_lookup` (`MCLookup`) | every table of up to 5 entries over 7 names, sorted or not | search correct and ends |
| `ptf_tests` (`MCPtf`) | all 101 tests, a failure at any check, any handle that is looked at refused | traffic as expected, no call refused, nothing left, `finally` blocks run |
| `erase_all_crash` (`MCEraseAll`) | violation: `EraseAllReturns` | `RouteMgr::EraseAll` may crash |
| `fdb_list` (`MCFdbList`) | violation: `ReplyListsEveryEntry` | the unlocked listing skips an entry |
| `ptf_resources` (`MCPtfResources`) | violation: `ResourcesBack`, on the test that sets the helper up and takes it down | the default routes are never removed |

Why the bounds are enough. With three addresses there are groups of two and three
that overlap, and with one id fewer than objects that can exist the tables run full
and ids are reused at once. Two prefixes are what it takes to share next hops.
For the FDB, one mac in two vlans on two ports is what the four clauses of a flush
and the comparison of keys tell apart; with two notifications under way a move
or an age overtakes the delivery of what preceded it. From 100 ports on the test MAC
addresses repeat, and 116 is the first port count for which an address is invalid. Seven
tokens hold every way to misplace a bracket around two operators.
The PTF tests need no bound of their own: a test is finite and runs whole, with each of its
checks failing in some behaviour, up to 1,677 steps. Bounds inside a test are those of two
scale tests: `VrfTests` creates 2 virtual routers, where the test takes what the switch offers,
and `MplsTests` 3 entries in place of 10 to 100.

Constants that widen the environment. `Faulty` names the SAI calls that may fail
for no visible reason; refusals for a visible one (in use, full, exists already) are
always there. `Liberties` names what the caller or the switch does beyond the
quietest case; the head of `BasicRouter` and of `FdbEvents` lists them.

Fairness. The basic router has one thread, and a loop it has entered it runs:
weak fairness of the turns of `EraseAll`. The SDK of the saithrift server delivers
its queue on a thread of its own, and the RPC thread finishes the call it is in:
weak fairness of `on_fdb_event` and of the steps of the listing. Nothing is assumed
of clients, of learning or of aging. A search in the library runs to its return. No
fairness is stated for the PTF tests; that they end is `AlwaysForward`, a theorem.

## 5. Theorems

TLAPS checks these for all values of the constants: any number of addresses,
ports, keys, names or tokens, and any faults. `PROJECT.json` names them.

**L3 managers** (`BasicRouterProofs`). The assumptions are those named in `SaiL3`,
`RouteMgr` and `BasicRouter`: id sets are disjoint, the zero address is no neighbor, setup
prefixes are of two kinds.
* `NbrInv` is inductive over all steps: the types, `NextHopsLive`,
  `NeighborHasItsNextHop` and `NeighborsLive`. Each conjunct needs the others: a next hop is removed
  under the id its neighbor entry holds, so without agreement of the two
  caches a `Del` could free the next hop of another station.
* `RouteInv` carries `RoutesTracked`. `GroupsAlwaysLive` holds unless the caller may ask for
  a group of which one neighbor is known: the id is then never assigned.
* `TypeCorrect` puts both together with the histories and the loop control.
* `EraseAllTerminates` is the safety half of `EraseAllEnds`: the maps are finite (`CachesFinite`), and a turn of a
  loop that goes on has taken an entry out of the map it walks, whatever call fails. What is left to TLC is
  that the loop does take its turns.

**Delivery** (`DeliveryProofs`). SAI gives the id of a removed object to a later one, and
`m_EcmpGroups` keeps ids, so `NoMisdelivery` rests on the claim that a cached id cannot be that of a
removed object. `DeliveryInv` says why: a cached next hop is held by a route that was added for
the same set, a cached group is the one the group manager has for the set, and what a route or a group
holds SAI does not remove. Two assumptions. `TestRules`: the caller may move neighbors and share next hops, and does
nothing else beyond the tests (a group made directly, or a route that is updated, is not held by the route of its set).
`NoLeftovers`: `create_route` does not fail, which would leave a cached id that no route holds, and
`remove_neighbor_entry` does not, which would leave a neighbor entry with the id of a removed next hop. TLC shows that
each of the two failures breaks the property. Any other call may fail.
`NeighborsKeptWhileUsed` needs less: every live next hop is listed (`AllCurrent`), which holds unless
neighbors move or the type of a new next hop cannot be read back.

**Forwarding table** (`FibProofs`). `NoLiberties` and `CleanFaults` (`NoLeftovers`, and
`remove_next_hop_group` does not fail: a `Del` that stops there has taken the route away and kept its entry).
`FibInv` adds to `DeliveryInv` what is true when each set of next hops has one route: each route of the
table is in the ASIC as its set and the cache say, a cached set is the set of a route, and what routes and groups
hold are the current next hops of known neighbors. From these a removal of a group is never refused, and
`ImplementsForwardingTable` follows: each `Add`, `Del` and turn of an `EraseAll` is one step of `Fib` or a
stutter. `OnlyBlackHoleAlwaysNull` and `RoutesLeaveBoth` are consequences. `AsicAlwaysCaches` needs also that nothing
is left behind by an `Add` that fails half way (`NoLeaks`) and that next hop ids do not run out
(`EnoughIds`: one for each address); that an id is then free is a counting argument.

**FDB manager and setup** (`RouterSetupProofs`). `VectorIsStaticTable` alone is not
inductive: the `clear()` after the loop needs that every entry the loop has
passed is gone (`Passed`), and that a loop is under way only in `EraseAll` (`InLoop`).
`SetupImplementsFdbMgr` is a refinement: every step of setup and tear-up is a call
of `FdbMgr`, a turn of its loop, or does not concern it; hence what holds of any
caller holds of the program, and `TearupLeavesNothing` follows. `SetupCompletes` needs, at every step of
setup, which ports have what so far (`PortsProgress`), and that the entries of the ports so far are in the FDB and
no others are, each under its own key of MAC address and vlan (`FdbProgress`).

**Conditions** (`MixedConditionsProofs`). The check counts its stack once with every condition
true and records the depth before each entry; the evaluator pushes and pops in
the same rhythm. The invariant says that the stack of the evaluator is as deep as
the recorded walk, and that a walk of n steps is never deeper than n.

`BracketedTextAccepted` and `EvaluationIsMeaning` compare the three programs with `Meanings`, a recursive function
that follows the brackets. What holds of a condition alone, and of two expressions in brackets if it holds of
both, holds of every expression (`ExpressionInduction`). Three facts are proved that way: an expression
leaves the parser's stack of operators as it was, adds one to the depth of the check, and pushes its value.
`MeaningInv` says that there is a history of the parser's stack and of the length of the list (`ops`, `len`) and of the
evaluator's stack (`E`) in which each step is a turn of the loop; the facts are about these histories.
The conditions of the text and of the list correspond because the parser keeps their order (`OrdinalsScanned`).

**Lookup** (`MetaLookup`). The check leaves an ascending table, and the range of the search always
holds the name if the table does; the entry looked at is inside the table. Each turn that goes on halves the range
(`SearchRangeHalves`), which is the reason for the liveness property `SearchEnds`.

**FDB map** (`FdbEventsProofs`). `MapFollows` holds without the liberties that section 7 shows to break it, but with
any number of addresses, vlans and ports, any length of the queue and any interleaving of the two threads.
`MapFollowsAsic` says what is true when the queue is empty, and that is not inductive: the invariant (`Owed`) says what the
queue owes. Applying the pending notifications one after the other to the entries of the vector gives the
learned entries of the switch (`Leads`), and none of them would list an entry twice (`EachOnce`). A new notification then extends the
chain at its end and a delivery takes one off its front; that a consolidated flush equals its reports one by one, and that what
the handler does to the vector is what it does to the set of its entries, are lemmas over sequences.
`TypesCorrect` needs no restriction. `UndisturbedReply` is the other side of the run `fdb_list`: without the
liberty `overlap`, under which the handler runs between two turns of the listing, a listing returns what the vector
held and its iterator stays inside; so the interleaving, and nothing else, causes the violation.

**PTF runner** (`PtfRunnerProofs`). The assumption `ScriptAssumption` is that the tests
are nested as Python nests blocks; TLC evaluates it on the 101 tests. The claim that
every block is left through its `finally` is not inductive: it needs `StackIsOpenBlocks`, which
says that the stack holds the ends of the `try` blocks around the position and nothing
else, innermost first. From that follow that every jump lands in the
test (`TypeCorrect`), `FinallyAlwaysRuns` and `AlwaysForward`. `RefsAlwaysExist` is
about the store: no order of calls makes an object refer to one that is gone, so the removes a test gets
wrong leak objects and never leave a dangling one. `CreateUndone` is the lemma behind the order of every
`tearDown`: as long as nothing refers to an object its remove is accepted, and restores the store its create found.

`NamesAlwaysResolve` is the claim that no failure, wherever it comes, makes a clean-up read a variable that was never assigned.
Its assumption `NamesAssumption` is about the text of the tests, not about their runs: `ReadsAssigned` says what a reader of
the code would check. Before each read there is an assignment that nothing on the way leads past: no branch that
may not be taken, no `try` block that an exception may leave first, no method of which the name is a local. Or the read is in the branch
of an `if` on that name, or on a name that is assigned only along with it. TLC evaluates this on the 101 tests, and it is false of exactly those in
`ReadUnassigned`. That it suffices is the proof. The invariant (`NamesInv`) says of every assignment and every position: if the assignment
`Reaches` the position, the name is bound there (`BoundBefore`); in the branch of an `if` the same holds since the branch was entered
(`BoundInBranch`); and where two names are assigned together, one is bound only if the other is (`BoundAlong`). The step to a `finally`
block is what makes it hard: `EdgeReaches` shows that a jump cannot pass an assignment that reaches its target, for which it needs
`StackIsOpenBlocks` in turn. A test for a name in `if` asks for the variable and the object: the store alone could hold
the object of an earlier method under that name.

Induction over data, where a proof needs it, is done by hand: the library's induction theorems take an operator as a
parameter, so a lemma (`Induction`) takes a set in its place and derives the claim from a least counterexample
(`WFMin`). Recursive functions are unfolded the same way (`ExpressionsRecursive`).

Only model-checked: liveness (`EraseAllEnds`, `FdbEraseAllEnds`, `StaleEntriesLeave`, `SearchEnds`),
which TLAPS does not cover; and what each single PTF test expects, calls and leaves (`ExpectedTraffic`,
`CallsSucceed`, `RemovesSucceed`, `NothingLeft`, `CleanAfterFail`, `HelperBuildsHelped`). These compare a given script with
given objects at each of its steps; a proof for any script would have to assume the same of it step by step, which is what
TLC computes, and a script is finite and runs whole.

## 6. What is not modelled

The saithrift handlers outside the FDB convert attributes and keep no state. The profile service and the port map
are maps read at start. `saiserialize.c`, the RPC frontend and the history tools
are text processing. The headers declare and do nothing. The other PTF tests
are about tables that need time, rates or a data plane (ACL counters, policers, queues, aging, mirroring); for some of
them, the T0 framework and the rest of `meta/`, see the plan.

Left out within the modelled parts: logging, the command line, the queries of the API tables, VRFs
(the program has one), `log.cpp`. IP and MAC addresses are model values, but not in `RouterSetup`,
where their numbers are the point.

Approximations in the PTF modules:

* A name stands for one object: handles are the names of the variables that hold them. Each sub-test of
  `TunnelNhop` has its own fixture, and an IPv4 and an IPv6 class with the same calls share a
  program; those of `TunnelRifs` are separate copies in the code, and both run.
* `SaiForward` says through which ports a packet may leave, with which destination MAC, tunnel header, TTL
  and DSCP. It does not follow source MACs of routed packets, hash functions (any member of a group
  may be picked, so the shares and counts of load balancing are plain checks), or MPLS traffic classes.
* MAC learning is a step only where a test depends on it; in `LagTests` no test sends to an address that an earlier packet
  came from by another port, so unknown addresses stay unknown. An object that a test removes and creates again gets
  a new handle, and so a new name (`..._again`). CPU queue counters are plain checks.
* A host route of a neighbor and an equal prefix do not meet in any test; their precedence is left open.
* The target is not `bmv2`. Ports are up. Warm reboot, the RPC connection and the parameters of the runner are left out.

## 7. Where the code differs from what is said of it

The violation runs (`erase_all_crash`, `fdb_list`, `ptf_resources`) are in `PROJECT.json` with the lines they contradict. The
following properties are stated in the modules too and are not true of the code; TLC
finds a counterexample when a run is given what the second column says.

| property | in a run with | what happens |
|---|---|---|
| `RouteLeavesBoth` | `MCFib`, liberty `share_nexthops` | `RouteMgr::Del` takes the route out of the ASIC, then fails on the shared group (`route_mgr.cpp:256`); the prefix can then neither be deleted nor added |
| `OnlyBlackHoleIsNull` | `MCShared` | `m_EcmpGroups[nexthops]` inserts 0 (`route_mgr.cpp:241`), which is taken for the black hole, "skip the entry for blackhole" (`route_mgr.cpp:243`) |
| `GroupsLive` | `MCRoutes`, liberty `group_of_one` | the id of a group of one known neighbor is never assigned (`nexthopgrp_mgr.cpp:133`) |
| `NeighborKeptWhileUsed` | `MCShared` | a neighbor that was added again on another interface is deleted under a route over its old next hop (`neighbor_mgr.cpp:133`), though the test asserts that a delete is refused while a route "is still using it" (`basic_router.cpp:882`, `886`) |
| `NeighborKeptWhileUsed` | `MCRoutes`, 2 interfaces | a next hop whose type cannot be read back stays in the ASIC (`nexthop_mgr.cpp:117`); a cached id brings it into use, and its neighbor, known on the other interface, is deleted under the route |
| `ReplacedNextHopRemoved` | `MCShared` | the next hop that an `Add` replaces stays in the ASIC, though "otherwise remove existing neighbor" (`nexthop_mgr.cpp:89`) |
| `EveryNotificationReplayed` | `MCFdb`, liberty `batch` | `on_fdb_event` reads `data[0]` and ignores `count` (`saiserver.cpp:61`; `inc/saifdb.h:417`) |
| `MapFollowsAsic` | `MCFdb`, liberty `absent_bport` | a flush of all ports carries no port, and `bport_id` was never assigned (`saiserver.cpp:58`) |
| `MapFollowsAsic` | `MCFdb`, liberty `flush_static` | a flush of static entries removes learned ones from the vector (`saiserver.cpp:80`; `inc/saifdb.h:310`) |
| `BracketsPaired` | `MCMixed` | only closing brackets are counted (`parse.pl:272`), so `A and B or C)` passes the check for "unpaired/missing brackets" (`parse.pl:312`) |
| `AllPortsCovered` | `MCSetup` | the third octet of the 116th address is 256 and its constructor throws (`basic_router.cpp:468`), though "We will cover all of the ports" (`basic_router.cpp:301`) |
| `PortsLeaveVlan1` | `MCSetup` | the loop that removes ports from vlan 1 walks a list nothing has filled (`basic_router.cpp:323`, `335`) |

`MCPtf` names the tests that do not have a property in a set, and leaves them out of it; without the set TLC
shows each. The causes:

| property, set | tests | cause (in `ptf/`) |
|---|---|---|
| `NamesResolve`, `ReadUnassigned` | `nhop_*`, `evpn`, `route_update`, `route_cpu`, `route_collision`, `nbor_link_local`, `nbor_many_*`, `mpls_trap` | a `finally` block removes through a variable assigned only after a check of its `try` block (`saitunnel.py:2808`, `2889`, `4325`, `6491`; `sairoute.py:268`; `saimpls.py:160`, `231`) |
| | `vrf_scale` | `saivrf.py:2464` indexes lists that a refused create left shorter |
| | `vxlan_malformed_decap_v6` | `saitunnel.py:1885` calls a method the class does not have |
| `ExpectedTraffic`, `WrongTraffic` | `mappers` | `saitunnel.py:15988`, `16053` expect encapsulation from a tunnel without mapper entries, next to a message that says "Dropped" |
| | `vrf_acl` | `saivrf.py:1996` takes ports 21 and 22 for the LAG of VLAN 30, whose ports are 22 and 23 |
| `CallsSucceed`, `RefusedCalls` | `nhg_lpm_add_remove` | `sainexthopgroup.py:963` asserts success for a route that `setUp` has created |
| | `nhg_fg_attr` | `sainexthopgroup.py:4438`, `4461` set an attribute of a member on the handle of the group |
| `RemovesSucceed`, `StillUsed` | `nhop_l3`, `nhop_lag`, `nhop_subport`, `nhop_svi` | `saitunnel.py:3089` removes a next hop to which routes still point; it stays, and `NothingLeft` fails too (`LeavesObjects`) |
| | `nexthop_remove` | `sainexthop.py:96` removes a next hop in use, as its point |
| | `lag_create` | `sailag.py:96` removes the LAG a second time and asserts that SAI refuses it |
| `NothingLeft`, `LeavesObjects` | `lag_egress` | `sailag.py:657` sets the port VLAN of lag1 to 0; it was 10 |
| | `lag_l2`, `lag_l3` | `sailag.py:777`, `1053` create the bridge port and VLAN member of port 1 again under new handles; the lists of `SaiHelper`'s `tearDown` hold the old ones. `lag_l2` leaves the fields of the LAG hash changed (`729`), `lag_l3` the members of lag1 (`1037`) |
| | `lag_nhop` | `sailag.py:1246`: the same for two members of lag4 |
| `CleanAfterFail`, `LeavesOnFail` | the above, `mappers`, `nhg_disabled*`, `nhg_set_get`, `rifs_ecmp*`, `rifs_ports*`, `route_svi`, `vrf_smac`, `vxlan_p2mp` | assertions inside a `tearDown` skip the rest of it (`sainexthopgroup.py:238`, `611`, `1460`, `2600`); objects are removed after and not in `finally` (`saitunnel.py:19512`, `21681`); members popped from a list before the block walks it (`saitunnel.py:17790`, `18787`); entries are forgotten (`saitunnel.py:13984`), or removed in the `try` block only (`sairoute.py`, `sviNeighborTest`; `sailag.py:34`, which has no `try`; `saivrf.py`, the VRF of the source MAC test) |

An assertion that fails in a `setUp` (`saitunnel.py:1930`, `15209`) leaves all that was built: unittest
does not call `tearDown` then. The runs that failed outside every `try` block (`escaped`) are therefore
no part of `CleanAfterFail`.

Met on the way, below what the model tells apart or outside its properties:

* Decap mapper entries are put into the encap map in 18 places of `saitunnel.py`; `13837` and `13951` swap key and value;
  `13266` and `14427` put the third neighbor on the first interface.
* `finally` blocks of `saitunnel.py` (`18490`, `18779`, `19139`) flush all FDB entries, static ones included.
* The checks of available resources in the `tearDown`s of `sainexthopgroup.py` (`244`, `615`) compare with numbers saved a
  moment before. Hash seeds and the source MAC of the switch are set there and never restored.
* Router interfaces are removed twice (`sai_base_test.py:1045`, `1217`; `saineighbor.py:59`, `219`; `sainexthop.py:44`).
* The members of the default VLAN are removed by `SaiHelperBase` and never put back.
* The docstring table of `SaiHelper` tags lag2 in VLAN 20 and lag5 in VLAN 30; the code leaves them untagged.
* `saivrf.py:761` looks at one count twice, and `2461` calls `assertEgual`.
* `saimpls.py:1248`: an `else` binds to the last of three `if`s, so the egress interface is 0 unless the third one was used.

