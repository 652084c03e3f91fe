----------------------------- MODULE MCLlcaList -----------------------------
(* Instances of LlcaList for TLC.                                          *)
EXTENDS LlcaList

AllRequests == [op : {"insert", "remove", "contains"}, val : Values]

\* Addresses are interchangeable, in the list and in the bag it stands for.
Symmetry == Permutations(Nodes)

=============================================================================
