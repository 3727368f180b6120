--------------------------- MODULE MCPickStrategy ---------------------------
(***************************************************************************)
(* PickStrategy in small arithmetic: 6-bit integers, 4-bit significands    *)
(* and a resolution no rounding of these inputs exhausts.                  *)
(***************************************************************************)
EXTENDS PickStrategy

MCDims   == {0, 1, 2, 3, 4, 7, 13, 15, 60}
MCWidths == {1, 2}
MCSails  == {0, 1, 2, 3, 7}
MCBandwidths == {0, 3, 11, LOCAL_DDR_BW_BYTES_PER_SEC, INTERCARD_BW_BYTES_PER_SEC,
                 HOST_LINK_BW_BYTES_PER_SEC}

\* The tile of the TinyLlama test, its n = 5632 and k = 2048 in units of 512, with
\* one row and with more, none of which saturates 8 bits; four sails of rev-A.
MCLlamaDims       == {1, 2, 4, 8, 11}
MCRevABandwidths  == {LOCAL_DDR_BW_BYTES_PER_SEC, INTERCARD_BW_BYTES_PER_SEC}
=============================================================================
