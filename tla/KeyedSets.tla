------------------------------ MODULE KeyedSets ------------------------------
(***************************************************************************)
(* What the llca_conc.* and llca_seq.* commands promise to their clients:  *)
(* a keyspace whose keys hold sets of integers, on which every command     *)
(* acts at one instant between its invocation and its answer, and from     *)
(* which DEL may take any of them.                                         *)
(*                                                                         *)
(* SkipListCommands implements this specification; the mapping is stated   *)
(* there.                                                                  *)
(***************************************************************************)
CONSTANTS Threads,    \* the threads that execute commands
          Keys,       \* keys of the Redis keyspace
          Requests,   \* the commands that may be sent: [op, key, val]
          Malformed,  \* val of a command with wrong arguments
          Missing,    \* there is no such key
          Foreign,    \* the key holds a value of another type
          Idle        \* no command, or no answer yet

VARIABLES sets,       \* Missing, Foreign or the set each key holds
          pending,    \* the command each thread executes, or Idle
          answer      \* the answer the thread has for it, or Idle

kvars == <<sets, pending, answer>>

KInit ==
    /\ sets \in [Keys -> {Missing, Foreign}]
    /\ pending = [t \in Threads |-> Idle]
    /\ answer = [t \in Threads |-> Idle]

Invoke(t) ==
    /\ pending[t] = Idle
    /\ \E r \in Requests : pending' = [pending EXCEPT ![t] = r]
    /\ UNCHANGED <<sets, answer>>

\* What a command answers, and what it leaves at its key, when it finds s there.
Answer(r, s) ==
    IF r.val = Malformed THEN "malformed"
    ELSE IF r.op = "create" THEN IF s = Missing THEN "ok" ELSE "exists"
    ELSE IF s = Missing THEN "missing"
    ELSE IF s = Foreign THEN "wrongtype"
    ELSE IF r.op = "delete" THEN "ok"
    ELSE IF r.op = "insert" THEN IF r.val \in s THEN "present" ELSE "ok"
    ELSE IF r.val \in s THEN "ok" ELSE "absent"

After(r, s) ==
    IF Answer(r, s) # "ok" THEN s
    ELSE CASE r.op = "create" -> {}
           [] r.op = "delete" -> Missing
           [] r.op = "insert" -> s \cup {r.val}
           [] r.op = "remove" -> s \ {r.val}
           [] OTHER           -> s

Act(t) ==
    LET r == pending[t] IN
    /\ r # Idle
    /\ answer[t] = Idle
    /\ answer' = [answer EXCEPT ![t] = Answer(r, sets[r.key])]
    /\ sets' = [sets EXCEPT ![r.key] = After(r, @)]
    /\ UNCHANGED pending

Return(t) ==
    /\ answer[t] # Idle
    /\ pending' = [pending EXCEPT ![t] = Idle]
    /\ answer' = [answer EXCEPT ![t] = Idle]
    /\ UNCHANGED sets

\* A client uses DEL.
Vanish(k) ==
    /\ sets[k] # Missing
    /\ sets' = [sets EXCEPT ![k] = Missing]
    /\ UNCHANGED <<pending, answer>>

KNext ==
    \/ \E t \in Threads : Invoke(t) \/ Act(t) \/ Return(t)
    \/ \E k \in Keys : Vanish(k)

KSpec == KInit /\ [][KNext]_kvars

=============================================================================
