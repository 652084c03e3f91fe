----------------------------- MODULE IntegerBag -----------------------------
(***************************************************************************)
(* What the llca_type list promises to whoever operates on it: a bag of    *)
(* integers on which every operation acts at one instant between its call  *)
(* and its answer.  insert always adds a copy, remove takes one away.      *)
(*                                                                         *)
(* LlcaList implements this specification; the mapping is stated there.    *)
(***************************************************************************)
EXTENDS BagsExt

CONSTANTS Threads,    \* the threads that call the operations
          Requests,   \* the calls they may make: [op, val]
          Idle        \* no call, or no answer yet

VARIABLES bag,        \* the values held, with their multiplicity
          pending,    \* the call each thread is in, or Idle
          answer      \* the answer it has for it, or Idle

bvars == <<bag, pending, answer>>

BInit ==
    /\ bag = [v \in {} |-> 0]
    /\ pending = [t \in Threads |-> Idle]
    /\ answer = [t \in Threads |-> Idle]

Call(t) ==
    /\ pending[t] = Idle
    /\ \E r \in Requests : pending' = [pending EXCEPT ![t] = r]
    /\ UNCHANGED <<bag, answer>>

Change(r) ==
    CASE r.op = "insert" -> BagAdd(bag, r.val)
      [] r.op = "remove" -> BagRemove(bag, r.val)
      [] OTHER           -> bag

Act(t) ==
    LET r == pending[t] IN
    /\ r # Idle
    /\ answer[t] = Idle
    /\ bag' = Change(r)
    /\ answer' = [answer EXCEPT ![t] = r.op = "insert" \/ r.val \in DOMAIN bag]
    /\ UNCHANGED pending

Return(t) ==
    /\ answer[t] # Idle
    /\ pending' = [pending EXCEPT ![t] = Idle]
    /\ answer' = [answer EXCEPT ![t] = Idle]
    /\ UNCHANGED bag

BNext == \E t \in Threads : Call(t) \/ Act(t) \/ Return(t)

BSpec == BInit /\ [][BNext]_bvars

=============================================================================
