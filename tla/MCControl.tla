------------------------------ MODULE MCControl ------------------------------
(* SpankerControl over SpankerDriver on small instances.                    *)
EXTENDS SpankerControl, TLC

\* The version of this tree, and one of a later, incompatible driver.
MCAbis == {[major |-> ABI_VERSION_MAJOR, minor |-> ABI_VERSION_MINOR], [major |-> 1, minor |-> 0]}
MCOneAbi == {[major |-> ABI_VERSION_MAJOR, minor |-> ABI_VERSION_MINOR]}
\* The commands of this header, and GET_VERSION with a longer struct.
MCCmds == {PING, GET_VERSION, IOR(MAGIC, 2, 12)}
MCNoPciFailure == Resources \ {"pci"}

MCSymmetry == Permutations(Users)
=============================================================================
