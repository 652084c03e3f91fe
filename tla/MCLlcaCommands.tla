--------------------------- MODULE MCLlcaCommands ---------------------------
(* Instances of LlcaCommands for TLC.                                      *)
EXTENDS LlcaCommands, TLC

AllRequests == [op  : {"insert", "remove", "contains"},
                key : Keys,
                val : Values \cup {WrongArity, NotInteger}]

\* What creates, fills and empties lists.
Changes == [op : {"insert", "remove"}, key : Keys, val : Values]

NoKeys == {}

Symmetry == Permutations(Objects) \cup Permutations(Keys) \cup Permutations(Workers)

=============================================================================
