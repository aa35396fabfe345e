# FlooNoC in TLA+

This directory models the core logic of FlooNoC, a network-on-chip for AXI: the
hardware under `hw/` and the generator `floogen`, which computes the routes,
address maps and topologies that the hardware is configured with.  The modules
are checked with TLC on small instances; the results that matter most are proved
for all values of their parameters with TLAPS.

## 1. Inventory

### Hardware (`hw/`)

| Component | State | Operations | What is hard | What makes it correct |
|---|---|---|---|---|
| `floo_wormhole_arbiter` | snapshot of the requests, "last" flag, registers of the arbitration tree | one clock cycle | inputs pause and stall in the middle of packets; a snapshot is arbitrated on while inputs change | packets never interleave, offers are stable, no bubbles, bounded overtaking |
| `floo_rob` (NormalRoB) | per-ID FIFO of slots, sticky reorder flags, slot flags (valid, allocated), offsets, peeked ID, two-state FSM | accept a request, forward, store, release | responses arrive in any order; allocation by leading zeros; offsets per ID | responses of an ID in order, complete and once; no slot overwritten; no ID waits for ever |
| `floo_simple_rob` (SimpleRoB) | read and write pointers, counter, slot flags, FSM | the same | pointers that wrap at a size that is not a power of two | the same, buffer never overflows |
| `floo_rob_wrapper` (NoRoB) | in-flight counter and destination per ID | accept, forward | counters at their limit; push and pop in one cycle | the same, by stalling |
| `floo_meta_buffer` | FIFO or ID queue of request headers, registers of atomics, a chosen ID | push a header with a request, pop with the response | atomics that must use IDs of their own; two responses for one atomic; an ID held while the request stalls | every response returns to the requester with its own header |
| `floo_axi_chimney` | AW/W lock, ID of the write under way, spill registers, pending flags of the reorder buffers, meta buffer | pack AXI channels into flits and back, arbitrate links | AW and W share a link; atomics bypass the reorder buffers; a subordinate may wait for data behind its AW | a write is one packet to one place; every request is answered |
| `floo_nw_chimney` | the same for two ports and three links | the same | wide reads and writes share a physical link | reads and writes do not block each other |
| `floo_id_translation` | none | endpoint of an address | | the table is the address map |
| `floo_nw_join` | library converters | joins the narrow and wide AXI ports of an endpoint | | |
| `floo_route_select` | locked route | route of a flit by ID table, source route, XY, YX, multicast mask | the route of a packet is held from its head | flits of a packet take the same output |
| `floo_route_xymask` | none | output and input masks of collectives | each router computes them on its own; forward and backward trees must agree | every member is reached once; answers wait for exactly the inputs that will come |
| `floo_router` | input FIFOs, past handshakes of a multicast, arbiters | one clock cycle | multicast copies leave in different cycles; ready depends on many outputs | every copy is delivered once, nothing is lost or duplicated |
| `floo_output_arbiter`, `floo_reduction_arbiter`, `floo_reduction_sync` | registers of two arbiters | merge unicast packets and joined flits | reductions have priority over packets, but not over a stalled flit | participants move together, offers are stable, errors are not lost |
| `floo_reduction_unit` | headers of operations under way | offloads reductions | header and result must pair up | each contribution is used once |
| `floo_vc_arbiter` | mask or credits per virtual channel | share one physical link | preemption of an offered flit; credits | credits match buffers, a full channel does not block the other |
| `floo_axi_router`, `floo_nw_router` | none | one router per link | | |
| `floo_alu` | none | arithmetic of offloaded reductions | | |
| `floo_cut`, `floo_fifo`, `floo_cdc` | FIFOs of the library | buffer links | | |

### Generator (`floogen/`)

| Component | State | Operations | What is hard | What makes it correct |
|---|---|---|---|---|
| `params.py` | stack of resolutions, values | evaluate expressions, resolve, substitute | declarations in any order, cycles, shared and recursive YAML nodes | every parameter has its value, or the run is refused |
| `model/network.py`, `model/graph.py` | the network graph, descriptions of interfaces, routers and links | elaborate a description step by step | ports by the order of edges, offsets of coordinates, arrays and trees | every wire has both ends where both think it is |
| `model/routing.py` | address ranges, tables, routes | ranges from base and size, trimming, merging, tables, source routes | merging in place, bits of routes, order of rules | an address has one destination; routes arrive |
| `model/connection.py` and the other descriptions | fields | validation | | |
| `model/traffic.py` | none | jobs of the traffic patterns | numbering of tiles, bits, files | jobs address the tile the pattern names |
| `cli.py`, `query.py`, `config_parser.py`, templates | files | commands | errors that are reported and ones that escape | a run ends, and writes what it should |

### How the parts interact

An AXI manager offers requests to its network interface (chimney).  The reorder
buffer of the channel decides whether the request may leave and attaches a tag;
the chimney packs it into flits and arbitrates them onto the links `req`, `rsp`
(and `wide`).  Routers buffer flits, select an output, and arbitrate each output
with a wormhole arbiter.  A request may go to a group: routers copy it, and on
the way back they merge the answers.  At the destination the header is kept in
the meta buffer while the subordinate works, and the response travels back the
same way, to be put in order by the reorder buffer of the requester.

The generator decides what the hardware relies on: identifiers, tables, routes,
the address map, and which port of which router is wired to which.

The hardware is synchronous: what happens in a cycle is fixed, and
nondeterminism comes from the neighbours, who may offer and accept when they
like.  There is no crash and no loss of messages in this system, and time-outs and
retries do not exist.  `PROJECT.json` lists the hazards, each at its line and with
the properties that are about it.

## 2. Modelling conventions

* In the modules of routers, arbiters and reorder buffers a step is one clock
  cycle.  In `AxiChimney` it is a handshake of the manager's interface or a cycle
  of the meta buffer: the interface's arbiters are as `WormholeArbiter` is proved
  to be.  In `MeshRouting` and `Collective` it is a hop.  In `Floogen` it is one
  method of the elaboration, one call or return of the resolution of parameters,
  one node of the document, or one file.
* Registers are variables that keep the name of the code; combinational signals
  are state functions of the same name; a bit vector is the set of the indices
  whose bit is set.
* An action is everything the code does in its step, with the nondeterminism of
  the surrounding ports (valid, ready) resolved by `\E`.
* A flit, beat, response or header is its identity (who sent it, which one it is,
  whether it is the last one); payloads are left out, but for the response field
  that reductions combine.
* History variables (`owner`, `overtaken`, `owed`, `given`, `issued`, `txn`, `got`,
  `packet`) observe the ports and never restrain a step, except where a bound is
  named.
* Library modules (`cc_rr_arb_tree`, `cc_fifo`, `cc_id_queue`, `cc_lzc`,
  `axi_demux_id_counters`, `cc_addr_decode`) are not in the repository and are
  modelled from how the code uses them.  So is `networkx`, which promises a
  shortest path and not which one: `RoutingInfo` takes either of two.
* Operators called "mutant" in a comment are faulty variants of the definition
  that follows them.  No module uses them; they document what each property
  detects.

## 3. Modules

| Module | Models | Correspondence |
|---|---|---|
| `RrArbTree` | `cc_rr_arb_tree` (external) | its three registers as functions; the shape of the tree is a constant, and `TreeAssumption` is all that is used of it |
| `PacketLink` | abstract: a link carries one packet at a time | refined by `WormholeArbiter`, and by every output of `Router` |
| `WormholeArbiter` | `hw/floo_wormhole_arbiter.sv` | a cycle is `Idle` (nothing offered), `Stall` (offered, not ready), `Pass` (a flit that is not the last leaves) or `Finish` (the last one); `Resume` is the part of a cycle in which a begun packet goes on |
| `Router` | `hw/floo_router.sv`, `hw/floo_route_select.sv` (route lock) | `Cycle(ready)`: `Crossing` are the handshakes of the cycle, `Registers` everything clocked inside, `Receive` the input FIFOs; one instance of `WormholeArbiter` per output |
| `OutputArbiter` | `hw/floo_output_arbiter.sv`, `hw/floo_reduction_arbiter.sv`, `hw/floo_reduction_sync.sv` | `Hold` and `Send`; instantiates `WormholeArbiter` for the unicast packets |
| `VcArbiter` | `hw/floo_vc_arbiter.sv` with the FIFOs and credits of the other end of the link | `Cycle`; what it has in common with `MeshRouting` is called `Vc...`, since their proofs share a module |
| `MeshRouting` | XY and YX in `hw/floo_route_select.sv`, the crossbar's connections in `hw/floo_router.sv`, the mesh and the IDs that `floogen` generates | one flit: `NextFlit`, `Hop`, `Leave` |
| `Collective` | `hw/floo_route_xymask.sv`, the groups of `hw/floo_reduction_sync.sv`, answers of `hw/floo_axi_chimney.sv` to collectives | extends `MeshRouting`: requests are copied, members answer, routers merge the answers of the inputs they expect |
| `InOrderResponses` | abstract: AXI's rule that responses of an ID come in the order of its requests | refined by the three buffers |
| `RobPorts` | the ports of `hw/floo_rob_wrapper.sv`: manager, network and destinations | extended by the three buffers; states `OrderedResponses`, `EveryRequestAnswered`, `EveryRequestAccepted` once for all |
| `Rob` | `hw/floo_rob.sv` and its `floo_rob_status_table` | the response side is the FSM of the code: `ReadWait`, `ReadGive`, `ReadLeave` (RoBRead), `EnterRead`, `WriteWait`, `ForwardDirect`, `ForwardInOrder`, `Store` (RoBWrite); each action includes the request side (`AxSide`) of the same cycle |
| `SimpleRob` | `hw/floo_simple_rob.sv` | the same, with pointers instead of flags |
| `NoRob` | `hw/floo_rob_wrapper.sv`, `NoRoB` | `Wait` and `Forward`; what it has in common with `SimpleRob` is called `NoRob...`, since their proofs share a module |
| `MetaBuffer` | `hw/floo_meta_buffer.sv` and the end of `hw/floo_axi_chimney.sv` that faces a subordinate; the subordinate | `MetaCycle` is one cycle, `TakeAw` the spill register of AW |
| `AxiChimney` | `hw/floo_axi_chimney.sv`: the end that faces a manager, composed with `MetaBuffer` over the links `req` and `rsp` | `SendAr`, `SendAw`, `SendW` pass the arbiter; `Return` gives responses; `Serve` and `Accept` are the other end; `Issue` is the manager |
| `ParamExpr` | expressions and substitution of `floogen/params.py` | trees instead of text |
| `Params` | the resolution of declarations in `floogen/params.py` | one step per call or return of `lookup`, with its stack |
| `AddrMap` | `AddrRange`, `RouteMap`, `RouteTable` of `floogen/model/routing.py` | operators; a validator that raises returns an error |
| `NocGraph` | `floogen/model/graph.py` | nodes and edges in the order in which they were added |
| `Network` | `floogen/model/network.py` up to `gen_routing_info`, and the fields of the descriptions | one operator per method |
| `RoutingInfo` | `gen_routing_info`, the `Routing` class | identifiers, address map, tables, routes |
| `GeneratedNoc` | the templates of the top module and the way of a flit along its wires | `Way` walks through the generated routers by the routing of `hw/floo_route_select.sv`, from the address to the port |
| `Traffic` | `floogen/model/traffic.py` | jobs per tile or flow |
| `Floogen` | `main` of `floogen/cli.py`, `floogen/query.py`, `floogen/config_parser.py` | a run as a state machine over the modules above: `Read`, `Elaborate` (one action per method of `Network`), `Write` |
| `...Proofs` | proofs about the module they are named after | `RobWrapperProofs` is about `NoRob`, `SimpleRob` and `RobWrapper`, which chooses one of them; `RobPortsProofs` has lemmas for them and for `RobProofs`; `MeshProofs` is about `MeshRouting`, `Collective` and `VcArbiter`: the way of a flit, of a request to a group and its answers, and the links they take |
| `RobWrapper` | the choice of `hw/floo_rob_wrapper.sv` between `NoRob` and `SimpleRob` | `NoRoBStep`, `SimpleRoBStep`; the registers of the one that is not generated keep their reset values |
| `MC...` | instances for TLC | definitions of the constants; `MCRob` and `MCAxiChimney` also bound the requests of a behaviour |

`EnMultiCast` of the router, `VcImpl` of the virtual channel arbiter and `RoBType` of the
wrapper are parameters of the code; they are variables here that are chosen in `Init` and
never change, so that one run covers their values.  `Floogen` chooses its
scenario, a command line with a configuration, in the same way.

## 4. What the runs check

All runs are small but not tiny: each has at least two of everything that
competes (inputs, outputs, IDs, destinations, channels), packets or bursts both
of one and of several flits, and buffers small enough to be full.  Three of them show
the code disagree with what the repository says of it (section 7): TLC finds their one
property violated.

| Run | Question | Bounds |
|---|---|---|
| `WormholeArbiter` | Are packets kept apart, offers stable, the link busy when it can be, and is every input served? | three inputs, so that two wait while one is served; packets of one or two flits |
| `Router` | Is each flit copied once to each of its outputs, in order, with packets kept apart, and does every flit leave? | two inputs and outputs, FIFOs of one flit, packets of one or two flits to every set of outputs, with and without multicast support |
| `OutputArbiter` | Do all participants of a reduction move together, is a stalled flit kept, and does a complete reduction pass all but those of earlier inputs? | three inputs, three reductions: two that share an input, and two that share none and compete for the link (one of a single participant); packets and reductions of two flits |
| `VcArbiter` | Are credits exact, and does a full channel leave the link to the other one? | two channels, three credits, FIFOs of three flits, all implementations; what it says of `VcCredit` is for this depth only, and the generated routers have another one |
| `VcArbiterOffers` | Does a flit that was offered stay on offer, as the router asserts? | fails, see section 7: `VcCredit`, three credits, FIFOs of two flits, as in the generated routers |
| `Mesh` | Do flits leave at their destination only, over existing connections? Does the channel a flit waits for come after the one it holds, so that channels never wait in a cycle? Do collectives reach each member once, and are they answered once for all? | 3x3 routers, two local ports, endpoints on every side, XY with the turns left out that `XYRouteOpt` (the default) leaves out; one multicast from anywhere to any group, or two from a corner that follow each other to the same group |
| `Rob` | Does the reorder buffer restore the order of bursts, without overwriting a slot or waiting for ever? | an ID with three requests of one to three beats and another with one of one beat that share the release logic, two destinations, three slots: several requests hold slots, the buffer is full, the longest burst never fits, the reorder flag is set, kept and cleared |
| `RobInterleaved` | Bursts of one ID whose beats arrive interleaved | fails, see section 7 |
| `RobB` | The configuration for B responses | fails, see section 7 |
| `RobWrapper` | Do the other two alternatives, `NoRoB` (stalling, with its counters) and `SimpleRoB` (slots in order), restore the order, and is every request accepted and answered? | two IDs, two destinations. `NoRoB`: four requests per ID with counters that are full at three, bursts of one ID. `SimpleRoB`: three slots, not a power of two, two requests of one beat per ID |
| `AxiChimney` | Does every response return to its request, once and in order, are the IDs of atomics unique, does a request that stalls keep its offer, is a write one packet, and is everything answered? | three transactions of a mixture (reads, writes of up to two beats, atomics with one and two answers, two IDs), or four that are mostly atomics: three of them may want the two IDs there are, while writes keep the spill register full; queues of two headers, links of one flit, reorder buffers that hold responses back |
| `Floogen` | Does traffic arrive where the generated address map and tables send it, are wires paired, parameters resolved and jobs right, and does every run of the program end? | about a hundred scenarios: parameters that need each other, cycles, shared and recursive documents, networks refused for every reason, stars, trees and meshes of two columns (2x1 to 2x4) with endpoints on their sides, six algorithms, all commands and traffic patterns |

`OrderedResponses`, `OnePacketAtATime` and `LinksCarryPackets` are refinements:
the abstract specification is instantiated on history variables that watch the
ports and is a property of the run.

The only bounds on counters are `MaxRequests` (requests of an ID, or transactions), with
`MaxOthers` (`MCRob`) and `MaxSimple` (`RobWrapper`) for some of them,
`CountUp` (which stops `overtaken` one above its limit) and the lengths of
packets and bursts; `BurstIds` keeps bursts to some IDs.  The proofs of section 5
do not depend on any bound.  Three transactions are enough in `AxiChimney` for two
of one ID with an atomic between them; that an atomic waits for the ID of another one, and
for the spill register with its ID chosen, is what behaviours of four add (`OneKind` in
`MCAxiChimney`).  In `Rob` the ID without bursts has one request, to one of the
destinations, which are interchangeable (`FewOthers` in `MCRob`).
In the reorder buffer `Rob` the slots do not wrap: allocation starts above the highest
flag and at slot 1 when there is none, so that slot 0 is never used; those of `SimpleRob`
do.  Three rows and columns are the least for a router that has
neighbours on all sides.

The runs `Mesh`, `AxiChimney` and `Floogen` stop when everything has arrived, been answered
or written, so that their runs do not look for deadlocks; their properties say
what must have happened by then.

### Fairness

Safety is checked without fairness.  For liveness, `FairSpec` assumes what the
neighbours of a component promise, and that the clock runs:

* `WormholeArbiter`, `OutputArbiter`, `Router`: the consumer of an output
  accepts an offered flit eventually (weak fairness of the cycles that accept),
  and a sender that began a packet goes on with it.  Network interfaces have room
  for what they ask for, and wormhole packets are complete when they are sent.
  Nothing is assumed of the arbiter's choice.
* The reorder buffers: the manager takes responses, the network takes requests
  (weak fairness), and every destination that owes a beat gets to deliver it
  while others do, too (strong fairness for each destination).  The network in
  between is fair because its arbiters are.
* `VcArbiter`: only the clock; `ChannelsIndependent` assumes in its own premise
  that the channel's FIFO is drained.
* `AxiChimney`: the links deliver (the three channels pass the arbiter when they
  can, which `BoundedOvertaking` justifies), the subordinate answers, and the
  manager takes responses.  Of AW nothing more is assumed than that the subordinate
  accepts it when data is offered with it, as AXI allows: this is what the spill
  register of the interface is for.
* `Mesh` (`MeshSpec`): none.  `CollectivesComplete` is a safety property: in a
  state in which nothing can move, everything has been answered.
* `Floogen`: the program runs by itself: while it is reading, elaborating or
  writing, it takes a step.

## 5. What is proved

The proofs hold for all values of the constants under the named assumptions of the
modules (`NumInAssumption`, `TreeAssumption`, `MaxLenAssumption`, `TreesAssumption`,
`RouterAssumption`, `ConfigAssumption`, `MembersAssumption`, `VcAssumption`,
`MeshAssumption`, `CollectiveAssumption`, `PortsAssumption`, `RobAssumption`,
`NoRobAssumption`, `SimpleRobAssumption`, `WrapperAssumption`, `MetaBufferAssumption`, `ChimneyAssumption`).
Those of `Collective` and of the three buffers also state that a counter's maximum, or
the range of an address, is a number no smaller than what is counted: the prover has no
powers of two, TLC evaluates them.

**`WormholeArbiterProofs`**, for every number of inputs, packet length and
arbitration tree: `TypeCorrect`, `OvertakingBounded`, `NoIdleBetweenPackets`,
`OutputIsStable`, and `ImplementsPacketLink`, that the arbiter implements
`PacketLink`.  The inductive invariant is

    IInv == TypeOK /\ LockInv /\ OfferInv /\ OwnerInv /\ OvertakenInv

`LockInv` relates the two mechanisms that freeze the arbitration, the tree's lock
and the sampled requests: neither is enough alone, since the tree may only be
asked again when the sample changes.  `OfferInv` says that whoever competes in a
frozen arbitration still offers its flit, but for the owner, whose packet may
have gaps.  `OwnerInv` says that the frozen arbitration selects the owner of the
link, so that a gap does not let anybody else in.  `OvertakenInv` bounds the
packets that overtook a waiting input by its distance from the round-robin
pointer (`Gap`), which `NextPointerCloser` shows to shrink with every grant.

**`RouterProofs`**, for crossbars of any size and connections, FIFOs of any depth
and packets of any length, with and without multicast: `EveryCopyOnce`, that
`CopiesRight` always holds: each output a packet is routed to gets each flit once
and in order, whatever the other copies do.  `CopiesRight` relates what an output
has got to the flit at the head of an input, which is not inductive: when that
flit leaves, the next one must be known.  The invariant adds, per input, that
the queue, the route lock and what the router upstream sends next are one stream
(`Stream`): successive flits of a packet have one route and count down, and the
lock is the route of a packet whose first flit has left.  Three lemmas about
`Stream` stand for the three things that happen to an input, `StreamReceives`,
`StreamKeeps` (some copies are taken) and `StreamLeaves` (the last ones are).  All
that is used of the arbiters is that they forward what is offered to them
(`CrossingOffered`); that without multicast a flit has one output is
`ConfigAssumption` with `FlitsAreFlits`.

`OutputsCarryPackets`, also in `RouterProofs`, proves `LinksCarryPackets`: every output
is a `PacketLink`, and the arbiters see the stable offers that the theorems of
`WormholeArbiterProofs` rely on.  Here the registers of the arbiters enter.
`LinkInv` adds to the invariant, per output, `ArbRight`: lock and samples agree, what
was sampled is still offered or in the middle of its packet, and an input in the
middle of a packet (`Begun`, what is still owed) is the one the frozen tree selects.
`StaysOffered` is where the crossbar could fail: a copy not yet taken stays on offer
while others of the same flit are taken, because the flit then does not leave.
`OutputCycle` sums up a cycle at one output, from which `OutputLink`, `OutputOffer`
and `ArbitersRight` follow.  Of the tree nothing is used but that it selects one of
those that request (`TreesAssumption`).

**`OutputArbiterProofs`**, for any number of inputs, any reductions over them, any
lengths and any tree: `ParticipantsInStep`, the participants of a reduction are
always at the same flit; `StalledFlitsStay`, a stalled flit is offered again and
never displaced: a unicast flit by nothing, the flit of a reduction only by that of a
complete reduction with an earlier input (`StalledStays`).  The invariant is

    IInv == Types /\ OfferInv /\ HeldInv /\ Lockstep

`HeldInv` says that what the priority arbiter holds on to is still there:
`ReductionWaits` and `UnicastWaits` show it, the latter through the frozen tree of
the wormhole arbiter.  Without it a held choice could name a reduction that is no
longer complete, and flits would be taken from some participants only.

**`MeshProofs`** on `VcArbiter`, for every number of credits and depth of the FIFOs towards a
router (`AtChimney = FALSE`): `Conservation`, types and `CreditsConserved`.  The invariant is `VcTypeOK /\ CreditsConserved`: the types alone
are not inductive, since nothing but the balance bounds a channel's credits from
above.  Towards an interface, which returns a credit when the flit enters, the balance is
another one (section 7).

**`MeshProofs`** on `MeshRouting`, for meshes of every size, any number of local ports and
any sides with endpoints, with XY and YX: `TypeCorrect`; `Delivery`, a flit
leaves at its destination only; `LegalTurns`, it never asks for a connection that
is left out; `MinimalRoutes`; and `DeadlockFreeByDesign`, the channel a flit
waits for has a higher rank than the one it holds, so that no channels can wait for each
other in a cycle.  The invariant is `OnPath`: judging from the port where a flit entered its
router, it has not overshot in the dimension it travels in, has not yet left its
first row (column), or has finished with it.

**`MeshProofs`** on `Collective`, for meshes of every size, XY and YX, every sender, every
group inside the mesh and any number of requests: `EveryMemberOnce`, that
`CollectivesComplete` always holds.  Its hypothesis `OneGroup` is that the requests of
a programme go to one group, with whichever members as their destinations, as all of
the run `Mesh` do; for groups that overlap it is false (section 7).
`CollectiveAssumption` says that coordinates fit their bits and that groups are inside
the mesh.  The run sees two requests in a 3x3 mesh; what the masks do at larger
distances, and whether answers to many requests stay paired by their order alone, is
what the proof adds.

For every member there is one way from the sender to it and one way back.
`ReqCovers` and `AnsCovers` say which inputs are on them, by coordinates alone, and
`Pos` how far along.  The invariant `CInv` has `WayInv` as its core:

* `Located`, `OnePlace`: a request that was sent and not answered is, for each member,
  at exactly one place: at an input on the way to the member, at the member, or, as an
  answer, at an input on the way back.  One flit stands for all members whose ways it is
  on, so that a copy too many, or one missing, would show at some member.
* `Ordered`: requests do not overtake each other on any of these ways.  `joins`
  compares destinations and masks and not what is answered; `Ordered` is why the
  answers it joins are to one request (`JoinAgree`).
* The queues hold requests in order, and an answer stands for exactly the members behind
  the input at which it is.

`ReqUnique`, `AnsUnique` and `AnsJoin` are the geometry: one input of a way at each
distance, and where two ways back meet they stay together.  `RouteOutputIs` and
`ExpectedIs` say what the two masks are for a group, and with them `GoesToAll` and
`AllCome` that the outputs of a router divide the members of the input among
them, and that the inputs it waits for are those behind which there are members.
A step moves a request from some places to the next ones (`Shift`); `ShiftKeeps` shows
once that this keeps `WayInv`, and `SpreadFollows`, `AnswerFollows` and `MergeFollows`
that each action does just this.  `Progress` is the part of `CollectivesComplete` that
says that no router waits in vain: if only answers are left, then of the oldest request
the answer that is furthest from the sender is at a router that has all the others it
waits for.

**`RobWrapperProofs`** on `NoRob`, for any numbers of IDs, destinations, requests and beats per
request, however the responses of different destinations interleave:
`StallingIsRight`, that the counters are exact, within their bits, and that the
beats in flight of an ID come from one destination (`CountersRight`); and
`StallingKeepsOrder`, that the module implements `InOrderResponses` although it has
no buffer.  The invariant's `Good` says that the beats owed to an ID are, in order,
those of its ID in the queue of the destination that the demux remembers, and that
no other queue has any.  Filtering a queue by ID would be recursive, so the order
is stated with a witness: `Merged(id, q, s)` has a function from the places of `q` to
those of `s` that grows, hits every beat of the ID and finds the same beat there
(`MergedHead`, `MergedOther`, `MergedAppend`, `MergedAppendOther` in
`RobPortsProofs`, for the first beat leaving and an answer queued behind).  Counting
requests is counting last beats, and `Whole` (what is owed ends with a last beat)
makes a counter of zero mean that nothing is owed, without which a new destination
could be chosen too early.

**`RobWrapperProofs`** on `SimpleRob`, for any numbers of IDs, destinations, requests and slots,
powers of two or not, and for requests of one beat (`OneBeatEach`; more are outside
the module's contract, `hw/floo_simple_rob.sv:217`): `SlotsAreSafe` (`SlotsSafe`) and
`SlotsKeepOrder`, that the module implements `InOrderResponses`.  `SlotsSafe` says
where beats are stored but not whose they are; the invariant `Holds` adds what every
slot in use is for, as a sequence from the read pointer on: a slot holds that beat
once it is valid, else exactly one flit in the network comes back to it, and the
beats owed to an ID are, in order, those of its ID in that sequence.  The rest of
`IInv` is about the cycle between reading a slot and giving its beat, in which the
address must follow the read pointer.

`WrapperStalls`, `WrapperBuffers` and `WrapperKeepsOrder` say the same of `RobWrapper`,
which runs the alternative it was given and no other (`RunsNoRob`, `RunsSimpleRob`).

**`RobProofs`**, for any numbers of IDs, destinations, requests and slots, bursts of any
lengths, and whatever order destinations answer in: `SlotsAreSafe` (`SlotsSafe`), and
`BufferKeepsOrder`, that the module implements `InOrderResponses` when it stores data
(`~OnlyMetaData`; with metadata alone it does not, run `RobB`).  Both are about the
behaviours in which what the network offers is never of an ID with a burst under way
elsewhere (`[]BurstsApart`); bursts of different IDs may interleave.  The code needs this
and does not enforce it: it keeps one store offset per ID (`hw/floo_rob.sv:276`), and run
`RobInterleaved` shows two bursts of an ID stored with each other's offset.  Two
corollaries need no such condition: `OneBeatSlots` and `OneBeatOrder`, for IDs whose
requests have one beat (`BurstIds = {}`), by `BurstsStayApart`, which is also what the runs
with `Interleaved = FALSE` rest on.

A flit is *outstanding* while it is in the network or in the buffer; a stored beat is a
flit again, because its slot tells the index it came with.  The invariant `Core` is
about the set of outstanding flits, so that storing a beat changes little of it:

* `BurstsWhole`: with a beat of a burst, all later ones are outstanding.
* `EntriesRight`: the status FIFO of an ID has an entry for each of its outstanding
  requests, in order; entries with slots come last.
* `SlotsRight`: the slots of different requests are disjoint, and the last one of each
  is flagged.  The code flags nothing else and hands out what is above the highest
  flag, which belongs to nobody only because of this.
* `QueuesRight`, `DestsRight`: a destination answers an ID in order, and responses
  without slots come from one destination; that is what `ax_rob_req_q` and
  `prev_dest_q` are for.
* `OneMid`, `WriteRight`: of an ID one burst at a time has begun, and the ID's offset is the
  number of its beats that have been stored or forwarded; the others are zero.  This is
  where `BurstsApart` is used.
* `StoredRight`: when a stored beat is of the oldest request of its ID, that ID is the
  one being peeked, all its beats are there and those before the offset have left.
  Were it false, a response could wait in the buffer while the next one of its
  ID is forwarded.

Of these, `BurstsWhole`, `SlotsRight` and `WriteRight` give `SlotsSafe`.  For the order, `OwedRight` says that what is
owed to an ID is exactly its outstanding beats, in order; so whoever is first in the
status table and has no earlier beat outstanding (`Served1`) is the head of what is owed
(`OwedHead`).  Each cycle has a request and a response side.  `RequestSide` proves the
first once for whatever the second does, and each of the actions `ReadWait`,
`ReadGive`, `ForwardDirect`, `ForwardInOrder` and `Store` has a lemma of its own.

`RobPortsProofs` also has what the three share: `QuietRefines` and `GiveRefines`, by
which a cycle is a step of `InOrderResponses`.

**`AxiChimneyProofs`**, for any requests (atomics included), any numbers of
identifiers, headers and transactions in flight, links of any depth, with and
without reorder buffers, and a subordinate that answers different identifiers in
any order and interleaves reads with writes: `ResponsesReturn` (`AnswersReturn`), every
response finds the header of its request, none is given that is not owed, and those
of an identifier come in order; `AtomicsAlone` (`AtomicIdsUnique`);
`WritesTogether` (`WritesArePackets`); and `OffersWait` (`StalledRequestsStay`), that a
write request which the spill register cannot take keeps its offer and its identifier.
Each of the first three says what is seen at one
place and is far from inductive.  The invariant follows a transaction by its number
through all the places where it can be, the request registers, the request link,
the spill register, the subordinate, the response link and the reorder buffer:

* `WritesInOrder`, `ReadsInOrder`: no request overtakes another one of its channel;
  an atomic with a read response is the exception, it is at the subordinate
  before reads that were asked for earlier.
* `IdsRight`: an atomic at the port has its number in the register of its
  identifier, and where both registers of an identifier are taken, it is by the same
  atomic; an identifier chosen while the request stalls is still free.
  `AtomicsAlone` follows, since the identifiers of the others are above.
* `QueuesRight`: the header queues hold the headers of exactly what the subordinate
  still has to answer, in the order of the requests.  With `OwnId` the oldest header of
  the answer's identifier is then the right one.
* `PacketRight`, `PacketsOnLink`: the lock of the arbiter, the selection of AW or W
  and the register with the destination agree; a write that is not complete has its
  last data on the link, unless it is the one under way.
* `Accounted`: what was given, what waits in a reorder buffer, what is on the response
  link and what is still to come (`ToCome`) add up to what is owed.
* `ResponsesInOrder`: of two transactions of one identifier the earlier one is ahead at
  each of these places.

Each of the actions `Issue`, `SendAr`, `SendAw`, `SendW`, `Accept`, `Return` and `Serve` has a
lemma that it preserves the invariant.  `Serve` changes most (a request is
taken, an answer is sent, both or neither) and is cut by place: what becomes of the
subordinate's queues, of its registers and of the response link is proved apart.

Only model-checked: liveness (the prover has neither fairness nor ENABLED), and
`Floogen` with `Params`, whose operators are recursive.

## 6. Not modelled, and why

* `hw/floo_nw_chimney.sv`: it has the structure of `AxiChimney` twice, for a narrow
  and a wide port, on three links.  Its own part is the decoupling of wide reads
  and writes on one physical link, which is `VcArbiter`; that the three links do
  not block each other through the endpoints is not checked.
* `hw/floo_reduction_unit.sv` and the offload path of the router: operands go to a
  functional unit that is not in the repository and come back after a pipeline of
  its choice; that headers and results pair up, in FIFOs whose room is not
  checked, depends on it alone.  The synchronisation of operands is in
  `OutputArbiter`.
* Several flits at a time in a mesh, with FIFOs: `NoCycles` is the classical
  argument why they do not block each other, and `Router` is checked alone.
* Payloads and widths (nothing the properties tell apart depends on them), router
  wrappers and `floo_nw_join` (structural), link buffers (chains of library FIFOs;
  neighbours may stall for any time), the ALU (combinational data), masks of
  multicast addresses in `floo_id_translation`.
* In the generator: real numbers and calls of functions in expressions beyond
  integers, collisions of names, empty lists of protocols, YAML merge keys,
  repetition and formatting of text, the `visualize` command, and the parts of
  templates that only name types and widths.
* `hw/deprecated`, test benches, and scripts under `util/`, which evaluate and draw
  measurements.

## 7. Disagreements and known limits

Three runs show the code disagree with what the repository says of it:

* `RobB`: with `OnlyMetaData` (the B channel) the response offered from the
  buffer is `rob_meta_q[rob_addr]`, combinational in the address that the
  handshake cycle increments; the manager samples the next slot's response, with
  another ID or error.
* `RobInterleaved`: beats of two bursts of one ID may arrive interleaved (R flits are
  packets of one flit, `hw/floo_axi_chimney.sv:643`).  They are stored by one offset per
  ID (`hw/floo_rob.sv:276`), so that a beat lands beside its slot, and the manager gets
  the second beat of a response without the first.
* `VcArbiterOffers`: `floogen` instantiates FIFOs of two flits with `VcCredit`, whose
  `NumCredits` stays 3 (`hw/floo_vc_arbiter.sv:18`).  A flit is offered without room for it
  and withdrawn, against the router's assertion (`hw/floo_router.sv:507`).

Other behaviours of the code met while modelling, which are not among the runs' properties or
which their constants avoid; TLC finds each when the property and the constants named here
are put into a configuration:

* `Router`, `FlitsLeave`: a multicast flit leaves its input when all outputs have
  a copy, while each output's arbiter is locked to the packet whose head it took.
  Two packets of more than one flit that share two outputs can each hold one of
  them, and neither moves again.  `EveryFlitLeaves` excepts this contention.  What the
  repository says of deadlocks (`docs/floonoc/route_algos.md:39`, "deadlock-free by design
  since it cannot introduce any cycles") is about cycles of channels in dimension-ordered
  routing and was written of unicasts.
* `OutputArbiter`, `ErrorsReported` with `Resps = {"OKAY", "SLVERR", "DECERR"}`: combining B
  responses looks for `RESP_SLVERR` only (`hw/floo_reduction_arbiter.sv:126`), so that a
  decode error of a participant that was not selected is answered as OKAY, although the
  comment above says "at least one of the participants sent an error".
* `OutputArbiter`, `LinkCarriesPackets`: the arbiter between reductions and other packets does
  not look at the last flag (`hw/floo_output_arbiter.sv:129`): a flit of one leaves between
  two flits of the other (`docs/floonoc/flits.md:31` says that the direction is locked).
* `VcArbiter`, `ChannelsIndependent` with `VcImpls <- CreditOnly` and `FifoDepth = 2`, as in the
  generated routers: a channel whose FIFO is full and whose credit stands for no room keeps
  the other one from the link (`docs/floonoc/links.md:19` says it does not).
* `Floogen`, `TrafficArrives` with `Scenarios <- AddressOffsets`: without an address table the
  coordinates are taken from the bits above the highest address of all
  (`floogen/model/network.py:718`), which are zero: all requests go to (0, 0).
* `OutputArbiter`: the choice among complete reductions is by the first input and is not
  held while the flit stalls (`hw/floo_reduction_arbiter.sv:96`).  A stalled flit of a
  reduction may be replaced on the link by that of another one, and one of later inputs may
  wait for ever behind those of earlier ones: `StalledStays` and `ReductionPasses` say just
  this much and no more.
* `VcArbiter` with `AtChimney = TRUE`: credits return when a flit enters the interface's
  buffer (`hw/floo_nw_chimney.sv:300`), and `ChannelsIndependent` fails.
* `MeshRouting`: XY routing resolves X first, so that an endpoint on the west or
  east side is reached from its own row only, and with `XYRouteOpt` a manager on
  the north or south side reaches its own column only; other flits leave the mesh
  elsewhere or ask for a turn that is left out (`Served` states which pairs are
  served).  `floogen` accepts such networks.
* `Collective`, `Programmes <- Overlapping`: two multicasts of one endpoint to groups
  that overlap without being equal block the response network: their answers
  queue in different orders at two inputs of a router, whose heads are then of
  different collectives (`hw/floo_reduction_sync.sv:41`).  Dimension-ordered
  routing is called deadlock-free by design (`docs/floonoc/route_algos.md:39`).
  Answers to requests to one group are paired by their order alone, which
  `EveryMemberOnce` shows to be enough for requests of one sender.  The masks
  are wrong for arrays whose sizes are not powers of two.
* `AxiChimney`, `OffersStay` with `Buffered = TRUE`: the flags that tell that a
  response of a reorder buffer was offered (`b_rob_pending_q`, `r_rob_pending_q`,
  `hw/floo_axi_chimney.sv:876`) are cleared by the response of an atomic that
  waits, which then displaces the offered response.
* `Floogen`, `Scenarios <- ManagerOnly`: with identifier tables only endpoints that
  are subordinates have a rule, although responses travel to managers
  (`floogen/examples/single_cluster.yml` has one, `cva6`); they take port 0.

The following were read from the generator while modelling it; the modules follow
the code, and the scenarios keep to networks that do not depend on them:

* `Network`: a router's links in are listed in the order of its neighbours, its
  links out in the order of the connections; unless connections are listed in the
  order of the endpoints, port k has different neighbours in and out.
* `Traffic`: with more than 100 tiles the narrow jobs of tile i and the wide jobs of
  tile i + 100 go to one file, and two flows of one initiator overwrite each other;
  `bit_reverse`, `bit_rotation` and `shuffle` count tiles by column on the way in and
  by row on the way out, and are no permutations unless sizes are powers of two;
  `uniform` does not end on a mesh of one tile.
* `RoutingInfo`: the bits of an address offset are counted from the greatest end of
  a range and not its size.  The greatest coordinates are those of interfaces, so
  that routers without one are not counted.
* `Floogen`: exceptions other than those of the parameters end a run with a
  traceback (an index out of the list of ports, a level a tree lacks, a table that
  the algorithm does not have); a subordinate without address ranges is accepted.
