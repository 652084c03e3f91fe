------------------------------ MODULE KeyedBags ------------------------------
(***************************************************************************)
(* What the llca_type.* commands promise to their clients: a keyspace      *)
(* whose keys hold bags of integers, on which every command acts at one    *)
(* instant between its invocation and its answer.  insert makes the bag    *)
(* when there is none.  A command tells the first thing that is wrong: its *)
(* arity, the type of the value, its integer, the missing key.             *)
(*                                                                         *)
(* LlcaCommands implements this specification; the mapping is stated       *)
(* there.                                                                  *)
(***************************************************************************)
EXTENDS BagsExt

CONSTANTS Threads,     \* the threads that execute commands
          Keys,        \* keys of the Redis keyspace
          Requests,    \* the commands that may be sent: [op, key, val]
          WrongArity,  \* val of a command without it
          NotInteger,  \* val of a command where it is no integer
          Missing,     \* there is no such key
          Foreign,     \* the key holds a value of another type
          Idle         \* no command, or no answer yet

VARIABLES bags,        \* Missing, Foreign or the bag each key holds
          pending,     \* the command each thread executes, or Idle
          answer       \* the answer the thread has for it, or Idle

kvars == <<bags, pending, answer>>

KInit ==
    /\ bags \in [Keys -> {Missing, Foreign}]
    /\ pending = [t \in Threads |-> Idle]
    /\ answer = [t \in Threads |-> Idle]

Invoke(t) ==
    /\ pending[t] = Idle
    /\ \E r \in Requests : pending' = [pending EXCEPT ![t] = r]
    /\ UNCHANGED <<bags, answer>>

Reject(r, b) ==
    IF r.val = WrongArity THEN "wrong arity"
    ELSE IF b = Foreign THEN "wrong type"
    ELSE IF r.val = NotInteger THEN "wrong int type"
    ELSE IF b = Missing /\ r.op # "insert" THEN "List does not exist"
    ELSE "accepted"

Answer(r, b) ==
    IF Reject(r, b) # "accepted" THEN Reject(r, b)
    ELSE CASE r.op = "insert"   -> "success"
           [] r.op = "remove"   -> IF r.val \in DOMAIN b THEN "success" ELSE "failure"
           [] r.op = "contains" -> IF r.val \in DOMAIN b THEN "value present"
                                   ELSE "value not present"

Empty == [v \in {} |-> 0]

After(r, b) ==
    IF Reject(r, b) # "accepted" THEN b
    ELSE CASE r.op = "insert"   -> BagAdd(IF b = Missing THEN Empty ELSE b, r.val)
           [] r.op = "remove"   -> BagRemove(b, r.val)
           [] r.op = "contains" -> b

Act(t) ==
    LET r == pending[t] IN
    /\ r # Idle
    /\ answer[t] = Idle
    /\ answer' = [answer EXCEPT ![t] = Answer(r, bags[r.key])]
    /\ bags' = [bags EXCEPT ![r.key] = After(r, @)]
    /\ UNCHANGED pending

Return(t) ==
    /\ answer[t] # Idle
    /\ pending' = [pending EXCEPT ![t] = Idle]
    /\ answer' = [answer EXCEPT ![t] = Idle]
    /\ UNCHANGED bags

KNext == \E t \in Threads : Invoke(t) \/ Act(t) \/ Return(t)

KSpec == KInit /\ [][KNext]_kvars

=============================================================================
