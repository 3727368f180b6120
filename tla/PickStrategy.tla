---------------------------- MODULE PickStrategy ----------------------------
(***************************************************************************)
(* The cost model of src/scheduler/src/decision.rs: TileShape's saturating *)
(* footprints and pick_strategy, in the arithmetic it runs in, with the    *)
(* bandwidths published in bandwidth.rs among its inputs.                  *)
(*                                                                         *)
(* u64 is 0..MaxU.  A finite f64 is a multiple of 1/Unit, kept as that     *)
(* multiple, with Prec significant bits; every operation rounds to nearest,*)
(* ties to even, as IEEE 754 has it.  Inf stands for f64::INFINITY.        *)
(***************************************************************************)
EXTENDS Naturals

CONSTANTS
  MaxU,     \* u64::MAX
  Prec,     \* bits of an f64 significand (53)
  Unit,     \* one over the resolution kept of an f64
  MaxExp,   \* the largest exponent kept of an f64
  Dims, Widths, SailCounts, Bandwidths,     \* what callers pass
  Inf

ASSUME ArithmeticAssumption ==
  /\ MaxU \in Nat /\ Unit \in Nat \ {0}
  /\ Prec \in Nat /\ MaxExp \in Nat /\ 3 < Prec /\ Prec <= MaxExp
  /\ Inf \notin Nat
  /\ Dims \subseteq 0..MaxU /\ Widths \subseteq 0..MaxU
  /\ SailCounts \subseteq 0..MaxU /\ Bandwidths \subseteq 0..MaxU

VARIABLES
  tile,           \* the TileShape
  n_sails, local_ddr_bw, intercard_bw,
  tp_cost, mp_cost,
  choice          \* the Strategy returned

TileShapes == [m : Dims, n : Dims, k : Dims, bytes_per_element : Widths]
Strategies == {"TensorParallel", "ModelParallel"}

\* The ceilings of rev-A, in units of 100 MB/s: all three are whole ones.
LOCAL_DDR_BW_BYTES_PER_SEC == 20
Bug_LinkAt400 == 4
INTERCARD_BW_BYTES_PER_SEC == 5
Bug_HostAt10GbE == 10
HOST_LINK_BW_BYTES_PER_SEC == 1

args == <<tile, n_sails, local_ddr_bw, intercard_bw>>
vars == <<args, tp_cost, mp_cost, choice>>

-----------------------------------------------------------------------------
\* u64::saturating_mul.
Bug_WrappingMul(x, y) == (x * y) % (MaxU + 1)
SaturatingMul(x, y) == IF x * y > MaxU THEN MaxU ELSE x * y

Bug_WeightOfOneRow(t) == SaturatingMul(t.k, t.bytes_per_element)
weight_bytes(t)     == SaturatingMul(SaturatingMul(t.m, t.k), t.bytes_per_element)
activation_bytes(t) == SaturatingMul(SaturatingMul(t.m, t.n), t.bytes_per_element)

Pow2[i \in 0..MaxExp] == IF i = 0 THEN 1 ELSE 2 * Pow2[i - 1]

\* num / den rounded to Prec bits: ulp is the weight of the last bit kept.
Round(num, den) ==
  LET ulps == {u \in {Pow2[i] : i \in 0..MaxExp} : num < den * u * Pow2[Prec]}
      ulp  == CHOOSE u \in ulps : \A v \in ulps : u <= v
      q    == num \div (den * ulp)
      rest == 2 * (num % (den * ulp))
      up   == rest > den * ulp \/ (rest = den * ulp /\ q % 2 = 1)
  IN  ulp * (IF up THEN q + 1 ELSE q)

\* x as f64, of an integer: a whole number, not yet in units.
Float(x)     == Round(x, 1)
DivF64(x, n) == IF x = Inf THEN Inf ELSE Round(x, Float(n))
AddF64(x, y) == IF Inf \in {x, y} THEN Inf ELSE Round(x + y, 1)
LeqF64(x, y) == y = Inf \/ (x # Inf /\ x <= y)

\* The exponents of an f64 reach from below the smallest cost of these inputs that
\* is not 0, with all its bits, to above the largest.
ASSUME RangeAssumption ==
  /\ 8 * MaxU * Unit < Pow2[MaxExp] * Pow2[Prec]
  /\ \A bw \in Bandwidths, n \in SailCounts : Pow2[Prec] * Float(bw) * Float(n) <= Unit

Bug_SecondsZero(bytes, bw) ==
  IF bw = 0 THEN 0 ELSE DivF64(Float(bytes) * Unit, bw)
Seconds(bytes, bw) ==
  IF bw = 0 THEN Inf ELSE DivF64(Float(bytes) * Unit, bw)

-----------------------------------------------------------------------------
TpCost(t, n, ddr, link) ==
  AddF64(DivF64(Seconds(weight_bytes(t), ddr), n), Seconds(activation_bytes(t), link))
Bug_MpUnsharded(t, n, ddr, link) ==
  AddF64(Seconds(weight_bytes(t), ddr), Seconds(activation_bytes(t), link))
MpCost(t, n, ddr, link) ==
  AddF64(Seconds(weight_bytes(t), ddr), DivF64(Seconds(activation_bytes(t), link), n))

Bug_CompareSwapped(tp, mp) == IF LeqF64(mp, tp) THEN "ModelParallel" ELSE "TensorParallel"
Cheaper(tp, mp) == IF LeqF64(tp, mp) THEN "TensorParallel" ELSE "ModelParallel"

\* One card or none: no inter-card path to compare.
SingleCard ==
  /\ choice = "none"
  /\ n_sails <= 1
  /\ choice' = "TensorParallel"
  /\ UNCHANGED <<args, tp_cost, mp_cost>>

Compare ==
  /\ choice = "none"
  /\ n_sails > 1
  /\ tp_cost' = TpCost(tile, n_sails, local_ddr_bw, intercard_bw)
  /\ mp_cost' = MpCost(tile, n_sails, local_ddr_bw, intercard_bw)
  /\ choice' = Cheaper(tp_cost', mp_cost')
  /\ UNCHANGED args

Init ==
  /\ tile \in TileShapes
  /\ n_sails \in SailCounts
  /\ local_ddr_bw \in Bandwidths
  /\ intercard_bw \in Bandwidths
  /\ tp_cost = 0
  /\ mp_cost = 0
  /\ choice = "none"

Next == SingleCard \/ Compare

Spec == Init /\ [][Next]_vars

-----------------------------------------------------------------------------
(* The decision over the rationals.                                         *)

\* Both footprints, as the integers they would be without a width.
Weight     == tile.m * tile.k * tile.bytes_per_element
Activation == tile.m * tile.n * tile.bytes_per_element

\* What an f64 holds exactly.
Exact(x) == Float(x) = x
AllExact == /\ Exact(Weight) /\ Exact(Activation) /\ Exact(n_sails)
            /\ Exact(local_ddr_bw) /\ Exact(intercard_bw)
            /\ Weight <= MaxU /\ Activation <= MaxU

\* tp_cost - mp_cost over the rationals, times n_sails * local_ddr_bw * intercard_bw:
\* whether it is positive does not depend on the number of sails.
MpCheaper == Activation * local_ddr_bw > Weight * intercard_bw

-----------------------------------------------------------------------------
(* Properties.                                                              *)

\* Rounding never talks the scheduler into model parallelism: where sizes and
\* bandwidths are exact, it is chosen only if it is the cheaper one.
ModelParallelIsCheaper ==
  choice = "ModelParallel" /\ AllExact => MpCheaper

\* The error the other way is confined to a tie of the rounded costs.
TensorParallelIsNoWorse ==
  choice = "TensorParallel" /\ AllExact /\ n_sails > 1 /\ local_ddr_bw # 0
      /\ intercard_bw # 0 /\ MpCheaper
    => tp_cost = mp_cost

\* Without a path, with one bandwidth unknown or with both, the default is
\* tensor parallelism.
DegenerateIsTensorParallel ==
  choice # "none" /\ (n_sails <= 1 \/ local_ddr_bw = 0 \/ intercard_bw = 0)
    => choice = "TensorParallel"

\* On rev-A the tile's aspect alone decides: model parallelism where the output is
\* wider than a quarter of the contraction, however many rows, sails or bytes per
\* element; a tie of the rounded costs goes to tensor parallelism.
RevA == local_ddr_bw = LOCAL_DDR_BW_BYTES_PER_SEC
        /\ intercard_bw = INTERCARD_BW_BYTES_PER_SEC
RevACrossover ==
  RevA /\ AllExact /\ Weight # 0 /\ n_sails > 1 =>
    /\ choice = "ModelParallel" => 4 * tile.n > tile.k
    /\ choice = "TensorParallel" => 4 * tile.n <= tile.k \/ tp_cost = mp_cost

\* Twice the rows double both costs without a rounding of their own: batching
\* tokens, as prefill does, never changes the decision, until a footprint saturates.
DoubleRows == [tile EXCEPT !.m = 2 * @]
RowsKeepTheChoice ==
  choice # "none" /\ n_sails > 1 /\ 2 * Weight <= MaxU /\ 2 * Activation <= MaxU =>
    choice = Cheaper(TpCost(DoubleRows, n_sails, local_ddr_bw, intercard_bw),
                     MpCost(DoubleRows, n_sails, local_ddr_bw, intercard_bw))

\* The doc of the TinyLlama test: a decode step, one row of the 5632 by 2048 up-projection
\* on four sails, is split by model parallelism, and prefill, with more rows of the
\* same projection, would flip this back to tensor parallelism.
TinyLlamaDecode ==
  /\ RevA /\ n_sails = 4
  /\ tile.m = 1 /\ 2048 * tile.n = 5632 * tile.k /\ tile.bytes_per_element = 2
Prefill(rows) == [tile EXCEPT !.m = rows]
PrefillFlipsToTP ==
  choice = "ModelParallel" /\ TinyLlamaDecode =>
    \E rows \in {m \in Dims : m > 1} :
      Cheaper(TpCost(Prefill(rows), n_sails, local_ddr_bw, intercard_bw),
              MpCost(Prefill(rows), n_sails, local_ddr_bw, intercard_bw))
        = "TensorParallel"

\* Where activations have to go through the host, the slower link never turns a
\* choice of model parallelism back.
HostPathKeepsModelParallel ==
  RevA /\ AllExact /\ choice = "ModelParallel" =>
    Cheaper(TpCost(tile, n_sails, local_ddr_bw, HOST_LINK_BW_BYTES_PER_SEC),
            MpCost(tile, n_sails, local_ddr_bw, HOST_LINK_BW_BYTES_PER_SEC))
      = "ModelParallel"

\* A footprint beyond u64 is the largest u64, whichever of its three factors
\* overflows first: it never wraps round to that of a small tile.
SaturationKeepsFootprints ==
  /\ Weight >= MaxU => weight_bytes(tile) = MaxU
  /\ Activation >= MaxU => activation_bytes(tile) = MaxU

\* The comment of the saturation test: overflowing sizes make the costs infinite.
OverflowIsInfinite ==
  choice # "none" /\ n_sails > 1 /\ Weight > MaxU => Inf \in {tp_cost, mp_cost}
=============================================================================
