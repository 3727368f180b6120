---------------------------- MODULE MCMatmulMock ----------------------------
(***************************************************************************)
(* MatmulMock with blocks of 2 weights in 3 bytes, outputs of 4 bytes and  *)
(* a usize of 6 bits, so that overflow is near.                            *)
(***************************************************************************)
EXTENDS MatmulMock, TLC

A(m, k, n, a, b, out) == [m |-> m, k |-> k, n |-> n, a |-> a, b |-> b, out |-> out]

\* A product, an empty one, a misaligned k, a short output, and products whose
\* sizes, of out and of a, overflow to the length of the buffer passed.
MCFewArgs == {A(1, 2, 2, 3, 6, 8), A(0, 2, 1, 0, 3, 0), A(1, 3, 1, 4, 4, 4),
              A(1, 2, 2, 3, 6, 6), A(4, 2, 4, 12, 12, 0), A(11, 4, 1, 2, 6, 44)}

\* Shapes on both sides of overflow, each slice of the right length, of the length
\* it has modulo 2^6, or one byte longer or shorter.
Near(x) == ({x, x % 64, x + 1} \cup (IF x > 0 THEN {x - 1} ELSE {})) \cap 0..63
MCManyArgs ==
  UNION {{A(m, k, n, a, b, out) :
            a \in Near(m * (k \div 2) * 3), b \in Near(n * (k \div 2) * 3),
            out \in Near(m * n * 4) \cup Near(m * (n \div 2) * 3)} :
         m \in {0, 1, 11}, k \in {0, 1, 2, 4}, n \in {0, 2, 4, 11}}

MCSymmetry == Permutations(Threads)
=============================================================================
