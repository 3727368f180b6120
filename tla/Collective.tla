----------------------------- MODULE Collective -----------------------------
(***************************************************************************)
(* The collectives (src/scheduler/src/collective.rs): all_reduce_f32 and   *)
(* all_gather_f32 on the host, on Topology<MockSail>, loop by loop, with   *)
(* the validation both start with; and on Topology<SpankerControl>, where  *)
(* they are not implemented yet.                                           *)
(*                                                                         *)
(* An f32 is a member of Vals.  What the arithmetic does to it is left to  *)
(* the constants: Add and Over stand for += and /= with their rounding, so *)
(* a result determines which values were added and in which order; Gt is   *)
(* the > of IEEE 754, under which a NaN is not comparable to anything.     *)
(***************************************************************************)
EXTENDS Naturals, Sequences, SequencesExt

CONSTANTS
  Vals,          \* the values buffers hold
  NaNs,          \* those that are not numbers
  Add(_, _), Over(_, _), Gt(_, _),
  Sizes,         \* sizes of topologies
  Inputs         \* what callers pass as per_card: sequences of buffers

ASSUME OrderAssumption ==
  /\ NaNs \subseteq Vals
  /\ \A x \in Vals : ~ Gt(x, x)
  /\ \A x, y, z \in Vals : Gt(x, y) /\ Gt(y, z) => Gt(x, z)
  /\ \A x \in NaNs, y \in Vals : ~ Gt(x, y) /\ ~ Gt(y, x)

ASSUME InputAssumption ==
  /\ Sizes \subseteq Nat
  /\ Inputs \subseteq Seq(Seq(Vals))

VARIABLES
  kind,       \* what the topology is made of: "mock" or "device"
  n_sails,    \* size of the topology the call is made on
  op,         \* the ReduceOp, or "Gather"
  per_card,   \* the caller's buffers
  passed,     \* history: the buffers as the caller passed them
  reduced,    \* the accumulator of all_reduce, or the output of all_gather
  card,       \* loop variable over the cards
  at,         \* the next statement
  result

request == <<kind, n_sails, op, passed>>
vars    == <<request, per_card, reduced, card, at, result>>

ReduceOps == {"Sum", "Max", "Min", "Avg"}

Ok == [is |-> "Ok", sail |-> 0]
TopologyMismatch == [is |-> "TopologyMismatch", sail |-> 0]
ShapeMismatch(i) == [is |-> "ShapeMismatch", sail |-> i]
NotImplemented == [is |-> "NotImplemented", sail |-> 0]
Panic == [is |-> "panic", sail |-> 0]
Pending == [is |-> "none", sail |-> 0]

-----------------------------------------------------------------------------
\* The length of the first buffer, or 0.
Stride == IF per_card = <<>> THEN 0 ELSE Len(per_card[1])
\* Cards whose buffer has another length.
Misshapen == {i \in DOMAIN per_card : Len(per_card[i]) # Stride}

Leave(r) == at' = "idle" /\ result' = r /\ UNCHANGED <<reduced, card>>

\* The first of them.
FirstMisshapen == CHOOSE i \in Misshapen : \A j \in Misshapen : i <= j

\* Past the checks: the first statement of either loop.
Proceed ==
  /\ at' = IF op = "Gather" THEN "gather" ELSE "clone"
  /\ UNCHANGED <<reduced, card, result>>

\* validate_uniform, and the early return of all_reduce on empty buffers.
Bug_CountNotChecked ==
  /\ at = "validate" /\ kind = "mock"
  /\ \/ Misshapen # {} /\ Leave(ShapeMismatch(FirstMisshapen))
     \/ Misshapen = {} /\ op # "Gather" /\ Stride = 0 /\ Leave(Ok)
     \/ Misshapen = {} /\ (op = "Gather" \/ Stride # 0) /\ Proceed
  /\ UNCHANGED <<request, per_card>>
Bug_NoEarlyReturn ==
  /\ at = "validate" /\ kind = "mock"
  /\ \/ Len(per_card) # n_sails /\ Leave(TopologyMismatch)
     \/ /\ Len(per_card) = n_sails
        /\ \/ Misshapen # {} /\ Leave(ShapeMismatch(FirstMisshapen))
           \/ Misshapen = {} /\ Proceed
  /\ UNCHANGED <<request, per_card>>
Validate ==
  /\ at = "validate" /\ kind = "mock"
  /\ \/ Len(per_card) # n_sails /\ Leave(TopologyMismatch)
     \/ /\ Len(per_card) = n_sails
        /\ \/ Misshapen # {} /\ Leave(ShapeMismatch(FirstMisshapen))
           \/ Misshapen = {} /\ op # "Gather" /\ Stride = 0 /\ Leave(Ok)
           \/ Misshapen = {} /\ (op = "Gather" \/ Stride # 0) /\ Proceed
  /\ UNCHANGED <<request, per_card>>

\* On real devices a collective is refused before it looks at its buffers.
DeviceCollective ==
  /\ at = "validate" /\ kind = "device"
  /\ Leave(NotImplemented)
  /\ UNCHANGED <<request, per_card>>

\* let mut reduced = per_card[0].clone(), which panics without a card 0.
CloneFirst ==
  /\ at = "clone"
  /\ \/ per_card = <<>> /\ Leave(Panic)
     \/ /\ per_card # <<>>
        /\ reduced' = per_card[1]
        /\ card' = 2
        /\ at' = "fold"
        /\ UNCHANGED result
  /\ UNCHANGED <<request, per_card>>

\* The combinator picked once per call.
Combine(acc, x) ==
  CASE op \in {"Sum", "Avg"} -> Add(acc, x)
    [] op = "Max"            -> IF Gt(x, acc) THEN x ELSE acc
    [] op = "Min"            -> IF Gt(acc, x) THEN x ELSE acc

\* One card folded in; zip stops at the shorter of the two.
FoldInto(v) ==
  [e \in DOMAIN reduced |-> IF e \in DOMAIN v THEN Combine(reduced[e], v[e])
                                              ELSE reduced[e]]
Bug_FoldSkipsLast ==
  /\ at = "fold"
  /\ \/ /\ card < Len(per_card)
        /\ reduced' = FoldInto(per_card[card])
        /\ card' = card + 1
        /\ UNCHANGED at
     \/ /\ card >= Len(per_card)
        /\ at' = "average"
        /\ UNCHANGED <<reduced, card>>
  /\ UNCHANGED <<request, per_card, result>>
Fold ==
  /\ at = "fold"
  /\ \/ /\ card <= Len(per_card)
        /\ reduced' = FoldInto(per_card[card])
        /\ card' = card + 1
        /\ UNCHANGED at
     \/ /\ card > Len(per_card)
        /\ at' = "average"
        /\ UNCHANGED <<reduced, card>>
  /\ UNCHANGED <<request, per_card, result>>

Bug_AverageFromZero ==
  /\ at = "average"
  /\ reduced' = IF op = "Avg"
                THEN [e \in DOMAIN reduced |-> Over(reduced[e], Len(per_card))]
                ELSE reduced
  /\ card' = 0
  /\ at' = "write_back"
  /\ UNCHANGED <<request, per_card, result>>
\* Avg divides after the fold, by the number of cards.
Average ==
  /\ at = "average"
  /\ reduced' = IF op = "Avg"
                THEN [e \in DOMAIN reduced |-> Over(reduced[e], Len(per_card))]
                ELSE reduced
  /\ card' = 1
  /\ at' = "write_back"
  /\ UNCHANGED <<request, per_card, result>>

\* v.clone_from(&reduced) for every card.
WriteBack ==
  /\ at = "write_back"
  /\ \/ /\ card <= Len(per_card)
        /\ per_card' = [per_card EXCEPT ![card] = reduced]
        /\ card' = card + 1
        /\ UNCHANGED <<at, reduced, result>>
     \/ /\ card > Len(per_card)
        /\ Leave(Ok)
        /\ UNCHANGED per_card
  /\ UNCHANGED request

\* out.extend_from_slice(v) for every card.
Bug_GatherBackwards ==
  /\ at = "gather"
  /\ \/ /\ card <= Len(per_card)
        /\ reduced' = per_card[card] \o reduced
        /\ card' = card + 1
        /\ UNCHANGED <<at, result>>
     \/ /\ card > Len(per_card)
        /\ Leave(Ok)
  /\ UNCHANGED <<request, per_card>>
Gather ==
  /\ at = "gather"
  /\ \/ /\ card <= Len(per_card)
        /\ reduced' = reduced \o per_card[card]
        /\ card' = card + 1
        /\ UNCHANGED <<at, result>>
     \/ /\ card > Len(per_card)
        /\ Leave(Ok)
  /\ UNCHANGED <<request, per_card>>

-----------------------------------------------------------------------------
\* A caller has just made a call; a topology keeps no state between calls.
Init ==
  /\ kind \in {"mock", "device"}
  /\ n_sails \in Sizes
  /\ op \in ReduceOps \cup {"Gather"}
  /\ per_card \in Inputs
  /\ passed = per_card
  /\ reduced = <<>>
  /\ card = 1
  /\ at = "validate"
  /\ result = Pending

Next == \/ Validate \/ DeviceCollective
        \/ CloneFirst \/ Fold \/ Average \/ WriteBack \/ Gather

Spec == Init /\ [][Next]_vars

-----------------------------------------------------------------------------
(* What the collectives are to compute.                                     *)

\* Element e of every card, in topology order.
Column(e) == [i \in DOMAIN passed |-> passed[i][e]]

\* The sum, added up in topology order from card 0 on.
OrderedSum(col) == FoldLeft(Add, col[1], Tail(col))

\* r is a largest value of the column. A NaN on a later card is passed over; one
\* on card 0 is kept, since nothing compares greater.
IsMax(r, col) ==
  /\ \E i \in DOMAIN col : r = col[i]
  /\ \A i \in DOMAIN col : ~ Gt(col[i], r)
  /\ r \in NaNs <=> col[1] \in NaNs
IsMin(r, col) ==
  /\ \E i \in DOMAIN col : r = col[i]
  /\ \A i \in DOMAIN col : ~ Gt(r, col[i])
  /\ r \in NaNs <=> col[1] \in NaNs

IsReduction(r, col) ==
  /\ op = "Sum" => r = OrderedSum(col)
  /\ op = "Avg" => r = Over(OrderedSum(col), Len(col))
  /\ op = "Max" => IsMax(r, col)
  /\ op = "Min" => IsMin(r, col)

-----------------------------------------------------------------------------
(* Properties.                                                              *)

TypeOK ==
  /\ kind \in {"mock", "device"}
  /\ n_sails \in Sizes
  /\ op \in ReduceOps \cup {"Gather"}
  /\ DOMAIN per_card = DOMAIN passed
  /\ passed \in Seq(Seq(Vals))
  /\ card \in 1..Len(per_card) + 1
  /\ at \in {"idle", "validate", "clone", "fold", "average", "write_back", "gather"}
  /\ result.is \in {"none", "Ok", "TopologyMismatch", "ShapeMismatch", "NotImplemented",
                 "panic"}

\* Once all_reduce has succeeded every card holds the same buffer, of the length
\* it passed, and each element is the reduction of that element over all cards.
ReductionIsExact ==
  at = "idle" /\ result = Ok /\ op \in ReduceOps =>
    \A i \in DOMAIN passed :
      /\ per_card[i] = per_card[1]
      /\ DOMAIN per_card[i] = DOMAIN passed[i]
      /\ \A e \in DOMAIN passed[1] : IsReduction(per_card[i][e], Column(e))

\* On the host a call fails exactly if its buffers do not fit: too few or too many,
\* or else a length unlike card 0's, with the first such card named. Whenever a call
\* fails, on a device too, or only gathers, the buffers are as the caller left them.
MisfitsAreRefused ==
  at = "idle" =>
    LET misfits == {i \in DOMAIN passed : Len(passed[i]) # Len(passed[1])} IN
    /\ result = TopologyMismatch <=> kind = "mock" /\ Len(passed) # n_sails
    /\ result.is = "ShapeMismatch"
         <=> kind = "mock" /\ Len(passed) = n_sails /\ misfits # {}
    /\ result.is = "ShapeMismatch" =>
         result.sail \in misfits /\ \A i \in misfits : result.sail <= i
    /\ result # Ok \/ op = "Gather" => per_card = passed

\* Card 0's buffer is never taken where there is no card.
NeverPanics == result # Panic

\* all_gather returns the buffers one after the other, in topology order.
GatherConcatenates ==
  at = "idle" /\ result = Ok /\ op = "Gather" => reduced = FlattenSeq(passed)
=============================================================================
