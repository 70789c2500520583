---------------------------- MODULE UserContract ----------------------------
(***************************************************************************)
(* What the user API promises about one row and one call, with the query   *)
(* cache, the connection pool, the row locks and the transactions left     *)
(* out: a write takes effect in one indivisible step, at most once: before *)
(* its answer when that tells of it, while a call that was lost or failed  *)
(* may have left a COMMIT behind that the database executes later.  A read *)
(* is answered from some committed version of the row it asked for.        *)
(* Module UserService is shown to implement this one.                      *)
(***************************************************************************)
EXTENDS Integers, Sequences

CONSTANTS
    Ids,        \* primary keys of table "user"
    Requests    \* calls that can be in progress at the same time

VARIABLES
    history,    \* history[id]: committed versions of the row, TRUE = removed
    op,         \* op[r]: the controller method r calls
    target,     \* target[r]: the :id of its URL
    stage,      \* how far the call has got, as its caller could know it
    answer,     \* rows affected (a write) or version served (a read)
    late        \* late[id]: writes of lost calls that may still take effect

contractVars == <<history, op, target, stage, answer, late>>

Reads  == {"getProfile"}
Writes == {"updateProfile", "removeUser"}

Exists(id)  == history[id] # <<>>
Removed(id) == Exists(id) /\ history[id][Len(history[id])]

\* The row as a write of method o leaves it.
Written(id, o) == Append(history[id], Removed(id) \/ o = "removeUser")

Init ==
    /\ history \in [Ids -> {<<>>, <<FALSE>>}]
    /\ op = [r \in Requests |-> "getProfile"]
    /\ target \in [Requests -> Ids]
    /\ stage = [r \in Requests |-> "idle"]
    /\ answer = [r \in Requests |-> 0]
    /\ late = [id \in Ids |-> {}]

Call(r, o, id) ==
    /\ stage[r] \in {"idle", "answered", "failed"}
    /\ op' = [op EXCEPT ![r] = o]
    /\ target' = [target EXCEPT ![r] = id]
    /\ stage' = [stage EXCEPT ![r] = "pending"]
    /\ answer' = [answer EXCEPT ![r] = 0]
    /\ UNCHANGED <<history, late>>

\* The one step in which a write changes its row.
Apply(r) ==
    /\ stage[r] = "pending"
    /\ op[r] \in Writes
    /\ Exists(target[r])
    /\ history' = [history EXCEPT ![target[r]] = Written(target[r], op[r])]
    /\ stage' = [stage EXCEPT ![r] = "applied"]
    /\ UNCHANGED <<op, target, answer, late>>

AnswerRead(r, v) ==
    /\ stage[r] = "pending"
    /\ op[r] \in Reads
    /\ v \in 0..Len(history[target[r]])
    /\ stage' = [stage EXCEPT ![r] = "answered"]
    /\ answer' = [answer EXCEPT ![r] = v]
    /\ UNCHANGED <<history, op, target, late>>

\* "1 row" is answered by a call that took effect, "0 rows" by one that did not.
AnswerWrite(r) ==
    /\ stage[r] \in {"pending", "applied"}
    /\ op[r] \in Writes
    /\ stage' = [stage EXCEPT ![r] = "answered"]
    /\ answer' = [answer EXCEPT ![r] = IF stage[r] = "applied" THEN 1 ELSE 0]
    /\ UNCHANGED <<history, op, target, late>>

\* What the calls in "gone" may leave behind: the writes among them that have not
\* taken effect.
LeftBy(gone, id) ==
    {op[r] : r \in {q \in gone : stage[q] = "pending" /\ target[q] = id}}

Leaves(gone) ==
    /\ late' \in [Ids -> SUBSET Writes]
    /\ \A id \in Ids : late'[id] \subseteq late[id] \union LeftBy(gone, id)

\* An error says nothing about the effect: the commit may have been reached, or be
\* on its way.
AnswerError(r) ==
    /\ stage[r] \in {"pending", "applied"}
    /\ stage' = [stage EXCEPT ![r] = "failed"]
    /\ Leaves({r})
    /\ UNCHANGED <<history, op, target, answer>>

\* The instance stops: every call it was serving is lost without an answer.
Abandon ==
    /\ stage' = [r \in Requests |-> "idle"]
    /\ answer' = [r \in Requests |-> 0]
    /\ Leaves(Requests)
    /\ UNCHANGED <<history, op, target>>

\* A write left behind takes effect after all, or never will.
ApplyLate(id, o) ==
    /\ o \in late[id]
    /\ Exists(id)
    /\ history' = [history EXCEPT ![id] = Written(id, o)]
    /\ late' = [late EXCEPT ![id] = @ \ {o}]
    /\ UNCHANGED <<op, target, stage, answer>>

Forget(id, o) ==
    /\ o \in late[id]
    /\ late' = [late EXCEPT ![id] = @ \ {o}]
    /\ UNCHANGED <<history, op, target, stage, answer>>

\* Another program adds a user.
Register(id) ==
    /\ ~Exists(id)
    /\ history' = [history EXCEPT ![id] = <<FALSE>>]
    /\ UNCHANGED <<op, target, stage, answer, late>>

Next ==
    \/ \E r \in Requests, o \in Reads \union Writes, id \in Ids : Call(r, o, id)
    \/ \E r \in Requests : Apply(r) \/ AnswerWrite(r) \/ AnswerError(r)
    \/ \E r \in Requests : \E v \in 0..Len(history[target[r]]) : AnswerRead(r, v)
    \/ \E id \in Ids : Register(id)
    \/ \E id \in Ids, o \in Writes : ApplyLate(id, o) \/ Forget(id, o)
    \/ Abandon

Spec == Init /\ [][Next]_contractVars
=============================================================================
