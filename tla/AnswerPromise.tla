--------------------------- MODULE AnswerPromise ---------------------------
(***************************************************************************)
(* What the service promises one question, with nothing of how it works:    *)
(* while the index changes under it, it reads the passages that apply to    *)
(* the question, once, and then answers from them, shows them to a person   *)
(* or withholds.  An answer rests on passages of that one reading, all of   *)
(* them in force on the date asked about and known on the date asked with,  *)
(* of one machine, and never on nothing.  It may fail instead.              *)
(***************************************************************************)
EXTENDS Effectivity

VARIABLES query, index, reading, reply

vars == <<query, index, reading, reply>>

Unread == [taken |-> FALSE, passages |-> {}]
NoReply == [kind |-> "none", shown |-> {}]

Applicable(rows) == {r \in rows : AppliesInPython(r, query, None, TRUE)}

OneMachine(rows) == \A r, s \in rows : r.variant_id = s.variant_id

Init ==
    /\ reading = Unread
    /\ reply = NoReply

\* What the index becomes is not the service's affair: index' is free.
IndexChanges == UNCHANGED <<query, reading, reply>>

Read ==
    /\ reading = Unread
    /\ reading' = [taken |-> TRUE, passages |-> Applicable(index)]
    /\ UNCHANGED <<query, index, reply>>

Answer(shown) == shown # {} /\ OneMachine(shown) /\ reply' = [kind |-> "ANSWER", shown |-> shown]
Review(shown) == shown # {} /\ reply' = [kind |-> "REVIEW", shown |-> shown]
Abstain == reply' = [kind |-> "ABSTAIN", shown |-> {}]
Fail == reply' = [kind |-> "ERROR", shown |-> {}]

Reply ==
    /\ reading.taken
    /\ reply = NoReply
    /\ \/ \E shown \in SUBSET reading.passages : Answer(shown) \/ Review(shown)
       \/ Abstain
       \/ Fail
    /\ UNCHANGED <<query, index, reading>>

Next == IndexChanges \/ Read \/ Reply

Spec == Init /\ [][Next]_vars
=============================================================================
