---------------------------- MODULE FifoService ----------------------------
(***************************************************************************)
(* What the event queue and its thread pool promise to the clients of      *)
(* RedPar, with no mutex, no reference count and no thread in sight:       *)
(* accepted events are started in the order in which they were accepted,   *)
(* each is answered exactly once while it is in service, and only then is  *)
(* it finished, which is what lets its client go.  At most Capacity events *)
(* are in service at a time.                                               *)
(*                                                                         *)
(* EventQueue implements this specification; the mapping is stated there.  *)
(***************************************************************************)
EXTENDS Naturals, Sequences, FiniteSets

CONSTANTS Events,     \* the events that may be submitted
          Capacity    \* how many events may be in service together

VARIABLES waiting,    \* accepted events that nobody has started, oldest first
          serving,    \* events that were started and are not finished
          finished,   \* events whose client was let go
          answers     \* number of answers written for each event

svars == <<waiting, serving, finished, answers>>

Queued(e) == \E i \in 1..Len(waiting) : waiting[i] = e

SInit ==
    /\ waiting = <<>>
    /\ serving = {}
    /\ finished = {}
    /\ answers = [e \in Events |-> 0]

Submit(e) ==
    /\ ~Queued(e)
    /\ e \notin serving \cup finished
    /\ answers[e] = 0
    /\ waiting' = Append(waiting, e)
    /\ UNCHANGED <<serving, finished, answers>>

Start ==
    /\ waiting # <<>>
    /\ Cardinality(serving) < Capacity
    /\ waiting' = Tail(waiting)
    /\ serving' = serving \cup {Head(waiting)}
    /\ UNCHANGED <<finished, answers>>

Answer(e) ==
    /\ e \in serving
    /\ answers[e] = 0
    /\ answers' = [answers EXCEPT ![e] = 1]
    /\ UNCHANGED <<waiting, serving, finished>>

Finish(e) ==
    /\ e \in serving
    /\ answers[e] = 1
    /\ serving' = serving \ {e}
    /\ finished' = finished \cup {e}
    /\ UNCHANGED <<waiting, answers>>

SNext ==
    \/ Start
    \/ \E e \in Events : Submit(e) \/ Answer(e) \/ Finish(e)

SSpec == SInit /\ [][SNext]_svars

=============================================================================
