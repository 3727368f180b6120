---------------------------- MODULE MCCollective ----------------------------
(***************************************************************************)
(* Collective on small instances. A value is the sequence of what was      *)
(* added to make it, so an input is a sequence of one; a quotient keeps    *)
(* its divisor as a last, negative term.                                   *)
(***************************************************************************)
EXTENDS Collective, Integers, TLC

MCNaN  == <<99>>
MCVals == {<<1>>, <<2>>, MCNaN}
MCNaNs == {MCNaN}
MCAdd(x, y)  == x \o y
MCOver(x, n) == Append(x, -n)
MCGt(x, y)   == MCNaN \notin {x, y} /\ x[1] > y[1]

\* Every list of up to three cards with buffers of up to two elements.
MCInputs == SeqOf(SeqOf(MCVals, 2), 3)
=============================================================================
