# Spanker in TLA+

TLA+ models of Spanker, the host side of the Sail accelerator cards: the kernel
module, the userspace runtime, the multi-card scheduler and the GGML backend.
Each model is translated from the source under `src/`; `PROJECT.json` maps
every definition to the lines it stands for. Small instances are model-checked
with TLC, and what matters most is proved with TLAPS for every value of the
constants.

1. [The system](#1-the-system): components, state, operations, what is hard
2. [The modules](#2-the-modules): how state and actions correspond to the code
3. [The runs](#3-the-runs): what each checks, bounds, fairness
4. [The proofs](#4-the-proofs)
5. [Disagreements found](#5-disagreements-found) and observations
6. [What is not modelled](#6-what-is-not-modelled)
7. [Plan](#7-plan)

## 1. The system

```
  scheduler (topology, collectives, decision)      ggml backend (matmul_q4_k)
            |  open_path                                |  SailMatmul takes a
            v                                           v  SpankerControl over
  runtime  SpankerControl: open_path, ping, version, drop
            |  open, ioctl, close on /dev/spankerctl
            v
  driver   spanker_ctl_ioctl  <-- cdev, class, device  <-- spanker_init / spanker_exit
                                                        <-- spanker_pci_probe / remove
```

| component | state it keeps | operations | what is hard | what makes it correct |
|---|---|---|---|---|
| kernel module (`src/driver`) | the module's life in the loader, five kernel objects acquired in order, the cards bound to its PCI driver | `spanker_init` with its `goto` error path, `spanker_exit`, probe, remove | any acquisition may fail; users and cards do not wait for it | an unloaded module owns nothing, a live one everything; objects are given back in reverse; cards are bound only beside a complete module |
| control device (`spanker_ioctl.c`) | files open on it, ioctls in flight | open, `PING`, `GET_VERSION`, close | rmmod and a failing insmod race with open files; callers built against another header | the code is not freed while it can be called; never more is copied than the command word announces |
| runtime (`src/runtime`) | one `File` per `SpankerControl` | `open_path`, `ping`, `version`, drop | its copy of the ioctl ABI is kept by hand; modules of other versions come and go | an open handle is answered, always by the one module it pins |
| device backend (`backends/ggml/src/sail.rs`) | the handle it was given | `SailMatmul::new`, `matmul_q4_k` (refused), drop | it never asks the driver again: what its maker learnt has to stay true | its module stays loaded for as long as it lives |
| topology (`topology.rs`, `intercard.rs`) | opened sails, links | `enumerate`, `with_mock` | `exists()` and `open()` are two system calls beside nodes that appear and vanish | the sails are those of one look at the nodes, in index order; it fails only for a cause; it ends |
| collectives (`collective.rs`) | none between calls | `all_reduce_f32`, `all_gather_f32`, `validate_uniform` | addition that does not associate, NaN, ragged or missing buffers, no card at all, a device that cannot do it yet | results are exact, in topology order; a refused call has written nothing |
| strategy decision (`decision.rs`), bandwidths (`bandwidth.rs`) | none | `weight_bytes`, `activation_bytes`, `seconds`, `pick_strategy`; three published constants | saturating `u64`, rounded `f64`, zero bandwidths, constants that change with the hardware | model parallelism is chosen only where it is cheaper; on rev-A only the shape of the tile counts |
| mock backend (`backends/ggml/src/lib.rs`, `mock.rs`) | the mock's record of transactions, behind a mutex | size checks, `matmul_q4_k`, `transactions` | `usize` overflow in sizes; threads that share one mock, which locks per push | no wrong length gets through; the record tells what each call did; a device that replays it may mix the operands of calls that overlap, but never computes on one of a call that had returned before its own began |
| GGML bindings (`build.rs`, `wrapper.h`) | none | generated at build time | - | not modelled, see section 6 |

They interact by calls only: the scheduler's `enumerate` opens nodes through
the runtime, the runtime issues ioctls to the driver, and a `SailMatmul` owns a
runtime handle. The collectives run on mock sails alone, and the driver creates no per-card nodes yet, so `Topology`
takes the nodes of `/dev/spankerN` as an external, changing set.

`PROJECT.json` lists every hazard at its line, with the properties that cover it.

## 2. The modules

| module | models | checked through | proofs |
|---|---|---|---|
| `SpankerDriver` | kernel module, PCI driver, control device | `MCDriver` | `SpankerDriverProofs` |
| `SpankerControl` (extends `SpankerDriver`) | runtime processes and their `SailMatmul`s over the kernel module | `MCControl` | `SpankerControlProofs` |
| `CtlDevice` | abstract: what the control device promises | as a refinement, from `SpankerControl` | step simulation, in `SpankerControlProofs` |
| `Topology` | `enumerate` beside changing nodes; `with_mock` | `MCTopology` | `TopologyProofs` |
| `Collective` | both collectives, loop by loop, on mock sails and on devices | `MCCollective` | `CollectiveProofs` |
| `PickStrategy` | footprints, cost model and decision, published bandwidths | `MCPickStrategy` | `RoundingProofs`, `PickStrategyProofs` |
| `MatmulMock` | size checks and transaction record of the mock | `MCMatmulMock` | `MatmulMockProofs` |

`NaturalFacts` holds what several of the proof modules need to know of natural
numbers: least and greatest members, products, quotients.

Operators named `Bug_...` are not part of any specification: each is the
definition below it as a plausible slip would have it, and shows that a
property notices (`PROJECT.json`, "mutants").

**SpankerDriver.** `at` is the next statement of `spanker_init` or
`spanker_exit`, with one action for each statement that acquires or releases
(`AllocChrdevRegion`, ..., `DestroyDevice`, ..., `ExitPciUnregister`, ...);
`held` is what those statements have acquired. `Acquire` succeeds or, where
`CanFail` allows, jumps to the label the code's `goto` names. `mod` is the
loader's module state: `Coming` in `spanker_init`, `Live`, `Going` in
`spanker_exit`. `PciRegisterDriver` binds every card present, as registration
probes them, and `HotAdd` and `HotRemove` are probe and remove afterwards.
`file[u]` is `"dangling"` once the module is freed under an open file; what a
call through it does is undefined, so `UseDangling` may answer anything.
`Dispatch` is `spanker_ctl_ioctl` on a command word taken apart into the fields
of `_IOC`: the code compares the whole word, and so does the model. Entering an
ioctl and returning from it are two steps. External, from how the driver relies
on it: the loader (`Insmod`, `Rmmod`, `FreeModule`; `rmmod` is refused while a
file pins the module through the `owner` fields, a failed init frees it
regardless), the VFS (`Open`, `Close`) and the PCI core.

**SpankerControl.** `handle[u]` is what the `File` of a `SpankerControl` is
open on: the control device, or some other file, since `open_path` checks
nothing. `ret[u]` is the `Result` of the last call. `Begin` and `Finish` are the
two halves of `ping` and `version`; `RequestOf` builds the command from the
runtime's *own* constants, so a drift from the header shows as a refused
command. `sail[u]` is the `SailMatmul` of a process: `SailMatmulNew` takes the
handle over, after which the process cannot call `ping` or `version` on it, and
`MatmulQ4K` refuses every product without asking the driver; both are dropped
together.

**CtlDevice** says what a process may rely on: the device appears with one
version, whoever is connected is answered with that version, every question
gets its answer, and it does not vanish while anybody is connected.
`SpankerControl` implements it (`ImplementsCtlDevice`, `StepsOfCtlDevice`) under the mapping
`Device`, provided `pci_register_driver` does not fail; section 5 says why.

**Topology.** Every system call of `enumerate` is a step (`Exists`,
`OpenPath`), between which nodes come (`Appear`) and go (`Disappear`). A card
has one node at a time. `denied` are nodes the process may not open. `churn` is
a history variable: what happened to nodes since the walk began. `Cap` is the
code's 256. `MeshLinks` gives the links of `with_mock` in the order of the two
nested loops.

**Collective.** `at` walks through the statements of `all_reduce_f32` and
`all_gather_f32`; `card` is the loop variable, counted from 1; `passed` keeps
the caller's buffers as they were. `kind` is what the topology is made of: on
devices `DeviceCollective` refuses the call before anything is looked at. Values are opaque: `Add` and `Over` stand for
`+=` and `/=` as they round, and `Gt` for IEEE `>`, of which only
`OrderAssumption` is assumed: a strict order in which NaN is comparable to nothing.
For TLC a value is the sequence of what was added to make it, so a result
shows which operands were added in which order.

**PickStrategy.** `u64` is `0..MaxU` and saturates. A finite `f64` is a
multiple of `1/Unit` with `Prec` significant bits; each operation rounds to
nearest, ties to even (`Round`, over the powers of two `Pow2`). For the `f64` of
the code `Prec` is 53, `Unit` 2^1074 and `MaxExp` 2045. The costs are computed by the same operations in the same
order as in the code and compared with the comparison over the rationals. The
published bandwidths are whole multiples of 100 MB/s, and are kept in that unit:
their ratios, which decide, are exact, while the rounding of a cost falls on
other bits than it would in bytes per second.

**MatmulMock.** A thread calls, passes the checks (`Check`, whose verdict is
computed with `checked_mul` at width `MaxU`), then makes four pushes, each under
the lock and each a step of its own: other threads push in between. A slice is
its length, and a submission carries the shape `m`, `k`, `n`. `by` tells for each transaction whose call it belongs to, which the
code does not record; only properties read it.

## 3. The runs

| run | instance | states | checks |
|---|---|---|---|
| `driver_lifecycle` | 2 users, 1 card, any call may fail, 4 command words | 306 032 | `TypeOK`, `NoLeak`, `LiveOwnsAll`, `LastInFirstOut`, `BoundNeedsControl`, `LiveDrivesEveryCard`, `ExitIsAlone`, `DanglingOnlyByFailedInit`, `CopyFitsRequest`, `LoaderSettles` |
| `driver_ping` | 1 user | violation | `PingMeansLoaded` |
| `control_refines` | 2 processes, 1 card, 2 driver versions, `pci_register_driver` succeeds | 15 130 | `ControlTypeOK`, `HandleSeesOneAbi`, `NoUseAfterFree`, `SailKeepsModule`, `ImplementsCtlDevice` |
| `control_any_failure` | 2 processes, no card, 1 version, any call may fail | 712 782 | `OpenHandleAlwaysAnswered` |
| `topology_walk` | 3 cards, 4 indices, cap 3, mocks of up to 4 sails | 94 482 | `TypeOK`, `QuietWalkIsExact`, `SailsFollowIndices`, `FailureHasCause`, `LinksJoinSails`, `WalkEnds`, `WalkIsBounded` |
| `topology_cap` | 3 indices, cap 2 | violation | `StopsAtFirstGap` |
| `collectives` | every list of up to 3 buffers of up to 2 of 3 values, on 0 to 3 mock sails or devices | 223 704 | `TypeOK`, `ReductionIsExact`, `MisfitsAreRefused`, `NeverPanics`, `GatherConcatenates` |
| `pick_strategy` | 6-bit integers, 4-bit significands | 524 880 | `ModelParallelIsCheaper`, `TensorParallelIsNoWorse`, `DegenerateIsTensorParallel`, `SaturationKeepsFootprints`, `RevACrossover`, `RowsKeepTheChoice`, `HostPathKeepsModelParallel` |
| `pick_overflow` | the same | violation | `OverflowIsInfinite` |
| `pick_prefill` | the TinyLlama tile in units of 512, 8-bit integers, 6-bit significands | violation | `PrefillFlipsToTP` |
| `matmul_threads` | 2 threads, 2 calls each, 6 argument lists | 633 637 | `TypeOK`, `RecordTellsTheCall`, `SnapshotStaysTrue`, `LengthsAreTrue`, `NoStaleOperand` |
| `matmul_out` | 1 thread, 1 call, shapes on both sides of overflow | violation | `OutIsQuantized` |

Each property is stated in words above its definition.

**Bounds, and why they are enough.**

- *Users, threads: two.* What users do to each other goes through the module
  they pin, threads through one record: two show every kind of interleaving, one
  inside a call while the other opens, closes or pushes. One user suffices for
  a counterexample.
- *Cards: one in the driver, none where only the answers of `ping` and `version`
  are asked for.* Cards are probed and removed independently of each other;
  the proofs of section 4 hold for any number.
- *Commands:* the header's two, one with a foreign magic byte, one with the
  right magic and number and another struct size (shorter in the driver's run,
  longer in the runtime's): one for each field a dispatcher could overlook.
- *`Cap` = 3 of 4 indices* stands for 256: with 3 cards the walk meets a gap at the
  start, in the middle and at the cap. A cap that is full with a node beyond it takes
  another card: `topology_cap` meets that with cap 2, and the theorem `QuietWalks` holds for any
  number of cards. Mocks of up to four sails: a
  self link, or a missing or doubled one, shows from three on.
- *Three buffers of two elements*: a card in the middle, ragged lengths
  in either direction, an empty topology, and a NaN in every place.
- *6 bits for `u64` and `usize`, 4 for the significand of `f64`*: products
  overflow at every factor, whole tables of operands are enumerated, and rounding
  bites far more often than in 53 bits. The published bandwidths (20, 5 and 1) are
  exact in it. `MaxExp` = 18 reaches beyond the largest cost of these inputs, as
  `RangeAssumption` asks and TLC evaluates.
- *Six argument lists*: a product, an empty one, a misaligned `k`, a short output,
  and two whose sizes overflow to the very length of the buffer passed. The
  theorem `Lengths` covers every shape.
- *`MaxCalls` = 2* bounds calls per thread: the call after a refused and the
  call after a complete one.
- *`QK_K` = 2, `Q4_K_BLOCK_BYTES` = 3* for 256 and 144: small enough that rows of
  less than a block, of one and of two, aligned or not, all occur, and that byte
  counts differ from element counts. The proofs take any values.

**Symmetry** is used where only invariants are checked and nothing
distinguishes the permuted users or threads: `control_any_failure` and
`matmul_threads`.

**Deadlock** is checked except in `collectives`, `pick_strategy`,
`pick_overflow` and `pick_prefill`, which model a single call that returns.

**Fairness.** `SpankerDriver`: `spanker_init` and `spanker_exit` run to completion
once started (weak fairness of their next statement, and of the loader's
reaction to their return), since each statement is a kernel call that does not
wait for users or cards, and the dispatcher, which takes no lock and sleeps on
nothing but the copy, returns. Nobody has to load, unload, open, call, close or
plug a card. `SpankerControl` assumes less: only that the dispatcher returns;
loading may take for ever. `Topology`: a thread inside `enumerate` keeps
running, against any pace of nodes that come and go. The other modules need
none: their properties are safety.

## 4. The proofs

TLAPS checks these for every value of the constants that satisfies the named
assumptions. All of them are safety properties.

| module | theorems | argument |
|---|---|---|
| `SpankerDriverProofs` | `TypeCorrect`, `NothingLeaked`, `NothingLacked`, `ReverseOrder`, `CardsFollowModule`, `NoCardIsMissed`, `ExitRunsAlone`, `RmmodFreesNothingInUse`, `OnlyPciFailureDangles`, `CopyIsBounded`, `LoadsAreBounded` | inductive invariant `IInv` |
| `SpankerControlProofs` | `ControlTypes`, `AlwaysAnswered`, `OneAbi`, `SailKeeps`, `StepsOfCtlDevice` | `CInv`, which extends `IInv` |
| `TopologyProofs` | `TypeCorrect`, `QuietWalks`, `Ordered`, `FailuresAreCaused`, `MeshIsComplete`, `WalksAreBounded` | `WalkInv`, `QuietInv` and `MeshInv` |
| `CollectiveProofs` | `TypeCorrect`, `MisfitsRefused`, `CardZeroIsThere`, `CallsCompute`, `ReductionsAreExact`, `GathersConcatenate` | `ShapeInv`, `AnswerInv` and `ComputeInv`; folds told by their rows |
| `RoundingProofs` | `RoundKeepsOrder`, `RoundDoubles`, `ShareTheLarger` | what rounding to nearest preserves |
| `PickStrategyProofs` | `FootprintsSaturate`, `DefaultIsTensorParallel`, `SailsDoNotMatter`, `RowsDoNotMatter`, `ChoicesFollowCosts`, `ModelParallelismIsCheaper`, `TensorParallelismTies`, `RevACrossesOver`, `RowsKeepChoice`, `HostPathKeepsChoice` | `ChoiceInv`, and the lemmas on rounding |
| `MatmulMockProofs` | `TypeCorrect`, `Lengths`, `SnapshotsStayTrue`, `RecordsTell`, `OperandsFresh` | `CheckedInv`, `RecordInv` and `ProgressInv`; lemmas on `checked_mul` |

**Driver.** `NoLeak` speaks of an unloaded module only, and says nothing of the
states a step into it comes from. `IInv` therefore states what is held at *every*
statement: each label of `spanker_init`, of its error path and of
`spanker_exit` determines `held` exactly, the loader's state and whether cards
may be bound, and files are open only while the module is there or
dangling. Each action then maps one label's set to the next one's, and the
properties are read off. Files may be open on the error path only where PCI
registration can fail (`FileInv`). `OnlyPciFailureDangles` rests on the device being the
last object before PCI registration: whichever earlier call fails, the
node was never there to be opened. `LoadsAreBounded` is a variant: every
statement of a load or an unload leaves fewer of them (`StatementsLeft`), and no card or user
changes that number. Assumptions: `CanFailAssumption`,
`AbiAssumption`, `CmdsAssumption` (command words decode into the four `_IOC` fields).

**Runtime.** Every step of a process is a step of some user of the driver, or
leaves the kernel alone (`StepIsDriverStep`), so `IInv` carries over. `CInv` adds what ties
the two sides together: calls in flight are the runtime's own, on a handle it
still owns and has not handed to a `SailMatmul` (`CallInv`); on an open file
every call has succeeded so far, with the version loaded now (`RetInv`); a loaded
module has a version (`AbiInv`). It is inductive because the version changes
only when a module is loaded, and no file is open then, and because the runtime's copy
of the command words equals the header's (`CommandsAgree`). `OneAbi`, the module a
`SailMatmul` keeps, and `StepsOfCtlDevice` need in addition that
`pci_register_driver` does not fail, since only then no file dangles. `StepsOfCtlDevice`
is the safety half of `ImplementsCtlDevice`: initial states map to initial states,
each step of a process to `Connect`, `Ask`, `Tell`, `Leave` or a stutter
(`ProcessMaps`), and a step of the kernel, sorted by whether the device can be
opened before and after it, to `Appear`, `Vanish` or a stutter (`KernelMaps`).
The device does not vanish under a session because an open file keeps its node
(`NodeStays`). Assumptions:
the driver's and `ControlAssumption`.

**Topology.** `QuietWalkIsExact` compares a finished walk with one look at all
nodes. The invariant says how far a walk beside quiet nodes has come: every
index below `index` has a node that may be opened, and `sails` is those cards
in order. Where it stops, the run before the first gap is the interval
`0..index-1` (lemma `RunIsInterval`), whose size is the number of sails.
`MeshIsComplete` is about the arithmetic of the nested loops: link `i` of `n` sails has
source and offset as quotient and remainder of `i - 1` by `n - 1`
(`QuotientRemainder`), the skipped diagonal shifts the destination
(`LinkJoinsTwo`), and each ordered pair is the image of a link
(`PairHasLink`), with as many links as pairs. `WalksAreBounded` is the variant of the walk, the
system calls left; it is the cap that bounds it. Assumption: `TopologyAssumption`.

**Collectives.** `ShapeInv` carries the verdict of `validate_uniform` through
the loops: past the checks the buffers fit, and they are the caller's until
results are written back. `AnswerInv` adds what a finished call answered. That
the card named by `ShapeMismatch` exists and is the first one needs the least
member of a set of naturals (`LeastMember`, from the well-foundedness of `<`).
`ComputeInv` is the loop invariant of both calls: after `n` cards the accumulator holds
what those cards make, and after `n` write-backs so many cards hold the result.
A sum is told there by the row of partial sums, one for each card. That the fold of
`OrderedSum` and the concatenation of `ReductionIsExact` and `GatherConcatenates` come to the same
would be an induction over the cards; it is proved without one, by the least
number of cards for which it failed: a function that unfolds as the fold does exists for every
number (`FoldExists`), and follows the row at every position
(`FoldFollowsRow`, `SumIsOrdered`; `GatherIsFlat`). `Max` and `Min` rest on the
transitivity of `Gt` and on NaN comparing to nothing. Assumptions:
`OrderAssumption`, `InputAssumption`; of `Add` and `Over` nothing is assumed.

**Decision.** Saturating products are capped products, in whichever order the
factors overflow. `DefaultIsTensorParallel` needs no property of the rounding: a
zero bandwidth makes both costs `Inf`, and equal costs take the default.
`SailsDoNotMatter` and `RowsDoNotMatter` are about the comparison over the
rationals, where a common factor falls out; they justify that `MpCheaper` mentions
neither.

The other properties depend on how each operation rounds, and are proved of
`Round` as it is defined, for every length of the significand. `RoundingProofs` takes
it apart: the ulp is the least power of two that leaves at most `Prec` bits, and
the significand the nearest whole number, the even one of two (`RoundIsRounded`).
From that follow the order (`RoundKeepsOrder`), doubling (`RoundDoubles`), and an error of
at most a sixteenth (`RoundIsClose`). The comparison of costs takes more than order,
since it is a *sum* of a cost and a rounded share that is compared with another:
`ShareTheLarger` shows that sharing the larger of two floating-point numbers never makes
the larger sum. Each share is off by half a step of the larger share at most, and the
costs, being `n` times as large, keep no bits that fine: half of the larger one is exact,
and from three cards on two different costs are two such steps apart at least, or
further (`FloatsAreApart`). So rounded costs are never in the opposite
order of the exact ones (`CostsKeepTheOrder`), and `ModelParallelismIsCheaper`,
`TensorParallelismTies` and `RevACrossesOver` are read off. `RowsKeepChoice` needs
every operation to double: nothing but 0 comes near the resolution
(`NothingVanishes`). Over the host link order is not enough, as the two costs
change by different factors: with `Weight < 4 * Activation` the cost of model
parallelism is below 0.81 of what the activations take, that of tensor parallelism
above 0.93 of it, errors included (`HostLinkIsSlow`).

Assumptions: `ArithmeticAssumption`, with four significant bits at least, which
`RoundIsClose` and the published constants need; and `RangeAssumption`: the
exponents reach from below the smallest cost to above the largest. An
`f64` does so by far for any `u64` sizes and bandwidths: 2^53 * 2^64 * 2^64 against
2^1074 below, 8 * 2^64 * 2^1074 against 2^2098 above.

**Matmul.** `checked_mul` either fails or is the product
(`CheckedMulIsExact`), chains of it too, and division by `QK_K` is exact past the alignment
check; so `Verdict` says `"Traffic"` only for true lengths
(`TrafficHasTrueLengths`), and a thread keeps its arguments while it pushes
(`CheckedInv`). A snapshot stays a prefix since the record is only appended to.
`RecordTellsTheCall` speaks of each thread's last call, at rest or not; that it
is inductive needs `ProgressInv`, which says for each statement of
`matmul_q4_k` how much of its call is recorded by then, and `RecordInv`, which
says of *every* call in the record that its transactions stand in the order of
their places and follow each other without a gap, and belong to a call that has
been made, so that a new call starts with nothing. `NoStaleOperand` follows
from `RecordInv` alone: a submission has its own operands before it, so the last
write it finds is no earlier than its own, and a call whose `Read` came before
this one's start can have written nothing since.
Assumption: `MatmulAssumption`.

**Model-checked only.** Liveness (`LoaderSettles`, `WalkEnds`, the fairness half of
`ImplementsCtlDevice`) is beyond the prover, which knows nothing of `ENABLED`; of the first two
the variant is proved, so that what is left to TLC is that the next
statement can be taken and fairness takes it. Every invariant and every other action
property the runs check is a theorem. The properties of the runs that end in
a counterexample are false, and have none.

## 5. Disagreements found

Five runs end in a counterexample: the source says one thing in words and does
another.

- `driver_ping`: the header says of `PING` that "success indicates the driver is
  loaded". The node exists before `pci_register_driver` has succeeded: a process
  opens it, is answered 0, and the load then fails. The process holds
  a file whose code has been freed. `DanglingOnlyByFailedInit` and the theorem
  `OnlyPciFailureDangles` bound the damage: it takes this one call to fail.
- `topology_cap`: the doc of `enumerate` says it stops at the first gap; it also
  stops at 256, without a sign, however many nodes follow.
- `pick_overflow`: the test of overflowing sizes says that "the estimates become
  infinite"; they saturate at `u64::MAX` and stay finite. The answer is
  deterministic all the same.
- `pick_prefill`: the doc of the TinyLlama test (`decision.rs:389`) says that prefill,
  with many rows, "would flip this back to TP". The run decides the tile of that test
  (`n` to `k` as 5632 to 2048, one row) for model parallelism, and finds no number of
  rows for which tensor parallelism is chosen. Its bounds do not matter: both
  footprints grow with the rows, so twice the rows never change a choice (`RowsKeepTheChoice`,
  theorem `RowsKeepChoice`), and on rev-A, as long as sizes are exact, only the ratio of
  `n` to `k` decides, whatever the rows (`RevACrossover`, theorem `RevACrossesOver`).
- `matmul_out`: the doc of `MatmulInt4` says `out` is in the quantized layout; the
  mock demands four bytes per element and refuses a buffer of the documented
  size.

Observations that contradict nothing in writing:

- With two threads on one `MockSail` the operands of calls that overlap are mixed
  in the record: the lock is taken per push, so another call's operands can be
  written between a call's own and its submission. Nothing promises otherwise;
  `NoStaleOperand` says how far it can go.
- The `Read` transaction is as long as the caller's `out`, which may be longer
  than the product.
- In `Max` and `Min` a NaN on card 0 is kept and one on a later card is passed
  over; `IsMax` and `IsMin` state this.
- One zero bandwidth makes both costs infinite, and equal costs, rounded ones
  included, choose tensor parallelism. Rounding errs in this direction only.
- Saturated footprints can change the decision; the properties about costs are
  stated for sizes that are exact.
- A node that vanishes between `exists()` and `open` makes `enumerate` fail
  as a whole, rather than end there (`FailureHasCause`).
- The docs leave the comparison of ABI versions to the caller: `version` returns `Ok` with
  whatever the driver reports, and `SailMatmul::new` takes any handle. What a caller
  has compared stays true (`HandleSeesOneAbi`, `SailKeepsModule`).
- `pick_strategy` does not look at `HOST_LINK_BW_BYTES_PER_SEC`; priced with it, no
  tile would leave model parallelism (`HostPathKeepsModelParallel`).

## 6. What is not modelled

- `shard_count` repeats the number of sails.
- Threads that share one `SpankerControl`: the driver treats their calls as it treats
  those of different processes, and `handle` and `ret` would have to be kept per call.
- `build.rs`, `wrapper.h`: bindings generated at build time.
- Per-card nodes of the driver: probe logs and accepts, no more.
- `compat_ioctl` enters the same dispatcher; there is one `IoctlEnter`.
- Nodes made by hand (`mknod`) before the class device exists: a file is opened
  through the node the driver publishes.
- Poisoning of the mock's mutex: nothing panics under the lock.
- Log lines, formatting, and the texts of errors.

## 7. Plan

Done, in this order: the kernel module, since everything stands on it, and its
proofs; the runtime over it with the abstract device; enumeration; the
collectives; the decision; the mock backend; proofs for the three self-contained
ones; the runtime's proofs with the step simulation of `CtlDevice`; `SailMatmul` and the
collectives of devices; the published bandwidths; the mesh of `with_mock`; what
the collectives compute; what the mock's record tells; the folds of the collectives;
rounding, and the decision in rounded arithmetic; the variants of load and walk.

What is left:

1. How far apart two costs have to be for the rounded comparison to decide as the
   exact one: a bound on the ties of `TensorParallelIsNoWorse`.
2. `Topology` over the runtime, once the driver creates the nodes of cards, and
   the collectives of devices, once work can be submitted to them.
