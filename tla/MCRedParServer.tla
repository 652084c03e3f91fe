--------------------------- MODULE MCRedParServer ---------------------------
(* An instance of RedParServer for TLC.                                    *)
EXTENDS RedParServer, TLC

Of(ops, vals) == [op : ops, key : Keys, val : vals]

\* Create and delete through the queue, every command through seq_handler.
LifeCycle == Of({"create", "delete"}, Values) \cup Of({"create"}, {Malformed})
Everything == Of({"create", "delete", "insert", "remove", "contains"}, Values)
                  \cup Of({"insert"}, {Malformed})

\* No property tells one client, event or address from another.
Symmetry == Permutations(Clients) \cup Permutations(Events) \cup Permutations(Objects)

=============================================================================
