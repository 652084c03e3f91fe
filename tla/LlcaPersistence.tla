--------------------------- MODULE LlcaPersistence ---------------------------
(***************************************************************************)
(* What an llca_type list leaves on disk, and what a restart makes of it:  *)
(* llca_rdb_save and llca_rdb_load around crashes, with the count the      *)
(* header keeps (len), which llca_insert increments after it has linked    *)
(* the node and llca_remove never decrements.                              *)
(*                                                                         *)
(* A worker changes the list without the global lock, so the child that    *)
(* writes the RDB file may be forked between any two of its steps.  The    *)
(* pointers of the list are those of LlcaList, which shows that such a     *)
(* child walks through an ascending sequence: here the list is a sequence. *)
(* Redis wraps the values a module writes in opcodes, and exits when the   *)
(* module reads past the last value or leaves some unread.  The other type,*)
(* llca_conc, saves nothing and answers the load of a key with NULL, upon  *)
(* which Redis gives up as well.                                           *)
(*                                                                         *)
(* MaxLen bounds len, and with it the insertions between two restarts.     *)
(***************************************************************************)
EXTENDS Integers, SequencesExt

CONSTANTS Values,     \* integers
          MaxLen,     \* a bound on len
          ObjSize,    \* sizeof(llca_obj)
          NodeSize,   \* sizeof(llca_node)
          NoImage     \* there is no RDB file

ASSUME ValuesAssumption == Values \subseteq Int
ASSUME SizesAssumption == {MaxLen, ObjSize, NodeSize} \subseteq Nat \ {0}

VARIABLES
    list,        \* the values, as the chain of nodes gives them
    len,         \* the count of llca_obj
    counting,    \* an insert has linked its node and not counted it
    up,          \* the server: "up", "down", "loading" or "refused"
    image,       \* the RDB file, or NoImage: the count, the values, whether
                 \* it names a skip list, and (history) whether it is clean
    elements,    \* llca_rdb_load: how many values are left to load
    input,       \* llca_rdb_load: values of the file that were not read
    removed,     \* (History) values removed since the server is up
    skip         \* some other key holds an llca_conc, a skip list

vars == <<list, len, counting, up, image, elements, input, removed, skip>>
loading == <<elements, input>>

\* Where llca_insert links val: before the first value that is not smaller.
Place(s, val) ==
    CHOOSE i \in 1..Len(s) + 1 :
        /\ \A j \in 1..i - 1 : s[j] < val
        /\ i <= Len(s) => s[i] >= val

Inserted(s, val) == InsertAt(s, Place(s, val), val)

Init ==
    /\ list = <<>>
    /\ len = 0
    /\ counting = FALSE
    /\ up = "up"
    /\ image = NoImage
    /\ elements = 0
    /\ input = <<>>
    /\ removed = 0
    /\ skip = FALSE

-----------------------------------------------------------------------------
(* The worker.                                                             *)

InsertLink(val) ==
    /\ up = "up" /\ ~counting
    /\ len < MaxLen
    /\ list' = Inserted(list, val)
    /\ counting' = TRUE
    /\ UNCHANGED <<len, up, image, loading, removed, skip>>

\* (Mutant) the new node is not counted.
InsertCountLost ==
    /\ up = "up" /\ counting
    /\ counting' = FALSE
    /\ UNCHANGED <<list, len, up, image, loading, removed, skip>>

InsertCount ==
    /\ up = "up" /\ counting
    /\ len' = len + 1
    /\ counting' = FALSE
    /\ UNCHANGED <<list, up, image, loading, removed, skip>>

RemoveValue(val) ==
    /\ up = "up" /\ ~counting
    /\ Contains(list, val)
    /\ list' = RemoveFirst(list, val)
    /\ removed' = removed + 1
    /\ UNCHANGED <<len, counting, up, image, loading, skip>>

\* llca_conc.create at the first such key, or llca_conc.delete at the last.
SkipListChange ==
    /\ up = "up"
    /\ skip' = ~skip
    /\ UNCHANGED <<list, len, counting, up, image, loading, removed>>

-----------------------------------------------------------------------------
(* llca_rdb_save, in a child forked now; llca_conc_rdb_save writes nothing *)
(* but the name of its type, which Redis writes for it.                    *)

Save ==
    /\ up = "up"
    /\ image' = [count |-> len, values |-> list, skip |-> skip,
                 clean |-> ~counting /\ removed = 0 /\ ~skip]
    /\ UNCHANGED <<list, len, counting, up, loading, removed, skip>>

\* The server dies, or is shut down without saving.
Crash ==
    /\ up \in {"up", "loading"}
    /\ up' = "down"
    /\ list' = <<>>
    /\ len' = 0
    /\ counting' = FALSE
    /\ elements' = 0
    /\ input' = <<>>
    /\ removed' = 0
    /\ skip' = FALSE
    /\ UNCHANGED image

-----------------------------------------------------------------------------
(* llca_rdb_load.                                                          *)

\* The server starts; without a file, with no list.
LoadCount ==
    /\ up = "down"
    /\ \/ /\ image = NoImage
          /\ up' = "up"
          /\ UNCHANGED loading
       \/ /\ image # NoImage
          /\ up' = "loading"
          /\ elements' = image.count
          /\ input' = image.values
    /\ UNCHANGED <<list, len, counting, image, removed, skip>>

\* (Mutant) the values are loaded until the file has no more.
LoadElementAll ==
    /\ up = "loading"
    /\ input # <<>>
    /\ elements' = elements - 1
    /\ input' = Tail(input)
    /\ list' = Inserted(list, Head(input))
    /\ len' = len + 1
    /\ UNCHANGED <<counting, up, image, removed, skip>>

\* (Mutant) each value is put in front of the list.
LoadElementFront ==
    /\ up = "loading"
    /\ elements > 0 /\ input # <<>>
    /\ elements' = elements - 1
    /\ input' = Tail(input)
    /\ list' = <<Head(input)>> \o list
    /\ len' = len + 1
    /\ UNCHANGED <<counting, up, image, removed, skip>>

\* (Mutant) the loaded values are not counted.
LoadElementUncounted ==
    /\ up = "loading"
    /\ elements > 0 /\ input # <<>>
    /\ elements' = elements - 1
    /\ input' = Tail(input)
    /\ list' = Inserted(list, Head(input))
    /\ UNCHANGED <<len, counting, up, image, removed, skip>>

LoadElement ==
    /\ up = "loading"
    /\ elements > 0 /\ input # <<>>
    /\ elements' = elements - 1
    /\ input' = Tail(input)
    /\ list' = Inserted(list, Head(input))
    /\ len' = len + 1
    /\ UNCHANGED <<counting, up, image, removed, skip>>

LoadDone ==
    /\ up = "loading"
    /\ elements = 0 /\ input = <<>>
    /\ ~image.skip
    /\ up' = "up"
    /\ UNCHANGED <<list, len, counting, image, loading, removed, skip>>

\* llca_conc_rdb_load returns NULL, before or after the other keys.
LoadSkipList ==
    /\ up = "loading"
    /\ image.skip
    /\ up' = "refused"
    /\ UNCHANGED <<list, len, counting, image, loading, removed, skip>>

\* Redis: a read past the values, or values after the module's last read.
LoadRefused ==
    /\ up = "loading"
    /\ (elements = 0) # (input = <<>>)
    /\ up' = "refused"
    /\ UNCHANGED <<list, len, counting, image, loading, removed, skip>>

-----------------------------------------------------------------------------
Next ==
    \/ \E val \in Values : InsertLink(val) \/ RemoveValue(val)
    \/ InsertCount
    \/ SkipListChange
    \/ Save \/ Crash
    \/ LoadCount \/ LoadElement \/ LoadDone \/ LoadSkipList \/ LoadRefused

Spec == Init /\ [][Next]_vars

\* llca_mem_usage.
MemUsage == ObjSize + NodeSize * len

-----------------------------------------------------------------------------
(***************************************************************************)
(* Properties.                                                             *)
(***************************************************************************)

Images == [count : Nat, values : Seq(Values), skip : BOOLEAN, clean : BOOLEAN]

\* Types.
TypeOK ==
    /\ list \in Seq(Values)
    /\ len \in Nat
    /\ counting \in BOOLEAN
    /\ up \in {"up", "down", "loading", "refused"}
    /\ image \in Images \cup {NoImage}
    /\ elements \in Nat
    /\ input \in Seq(Values)
    /\ removed \in Nat
    /\ skip \in BOOLEAN

\* len counts, at every instant, the values in the list, less the one an insert
\* is about to count, and every value that llca_remove has taken out since the
\* server started: the drift is exactly that, and a reload resets it.
CountDrift ==
    up \in {"up", "loading"} =>
        len + (IF counting THEN 1 ELSE 0) = Len(list) + removed

\* What llca_rdb_load has rebuilt and what it has still to read are together
\* the list that was saved, in its order, duplicates included.
LoadRebuilds == up = "loading" => list \o input = image.values

\* The server starts from every file that was written while no insert stood
\* between the link and the count, nothing had been removed since the last
\* start and no key held a skip list, however many times it has crashed,
\* reloaded and saved before.  A file here is written by a forked child, from a
\* snapshot of one instant; SAVE and SHUTDOWN write it on the main thread, beside
\* a worker that may insert between the count and the values (llca.cpp:248).
CleanSaveRestarts == up = "refused" => ~image.clean

\* "The goal of this function is to return the amount of memory used by the
\* HelloType value" (llca.cpp:265): the object and each of its nodes.
MemUsageExact ==
    up = "up" /\ ~counting => MemUsage = ObjSize + NodeSize * Len(list)

=============================================================================
