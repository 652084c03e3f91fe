------------------------- MODULE MCSkipListCommands -------------------------
(* Instances of SkipListCommands for TLC.                                  *)
EXTENDS SkipListCommands

Of(ops, vals) == [op : ops, key : Keys, val : vals]

\* What clients may send: everything; the commands that create and destroy
\* skip lists; those that use them.
Everything == Of({"insert", "remove", "contains"}, Values \cup {Malformed})
                  \cup Of({"create", "delete"}, {Malformed, CHOOSE v \in Values : TRUE})
LifeCycle == {r \in Everything : r.op \in {"create", "delete"} /\ r.val # Malformed}
Searches == {r \in Everything : r.op \in {"create", "insert", "contains"} /\ r.val # Malformed}
Deletes == {r \in LifeCycle : r.op = "delete"}

NoKeys == {}

=============================================================================
