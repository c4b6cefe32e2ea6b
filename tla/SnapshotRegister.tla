--------------------------- MODULE SnapshotRegister ---------------------------
(***************************************************************************)
(* What the architecture snapshot store promises: per revision a register  *)
(* that is written once, atomically, and answers that are true of it.      *)
(* "re-saving identical facts is a no-op, and saving different facts under *)
(* the same revision is an error" (store.py).                              *)
(***************************************************************************)
CONSTANTS Clients, Revisions, Facts, NoFacts

VARIABLES
    stored,   \* the facts registered for each revision, or NoFacts
    reply     \* what each client was last told, or NoReply

Answers == {"stored", "identical", "conflict", "taken", "loaded", "absent"}
Replies == [answer : Answers, revision : Revisions, facts : Facts \cup {NoFacts}]
NoReply == [answer |-> "none"]

Init == /\ stored = [r \in Revisions |-> NoFacts]
        /\ reply = [c \in Clients |-> NoReply]

(* Facts are registered for a revision that has none. *)
Publish(c, r, f) ==
    /\ stored[r] = NoFacts
    /\ stored' = [stored EXCEPT ![r] = f]
    /\ UNCHANGED reply

(* What an answer about the facts f of revision r says of the register. *)
Holds(answer, r, f) ==
    \/ answer \in {"stored", "identical", "loaded"} /\ stored[r] = f /\ f # NoFacts
    \/ answer = "conflict" /\ stored[r] \notin {f, NoFacts}
    \/ answer = "taken" /\ stored[r] # NoFacts
    \/ answer = "absent" /\ stored[r] = NoFacts

Answer(c, a) ==
    /\ Holds(a.answer, a.revision, a.facts)
    /\ reply' = [reply EXCEPT ![c] = a]
    /\ UNCHANGED stored

Forget(c) ==
    /\ reply' = [reply EXCEPT ![c] = NoReply]
    /\ UNCHANGED stored

Next == \E c \in Clients :
            \/ Forget(c)
            \/ \E a \in Replies : Answer(c, a)
            \/ \E r \in Revisions, f \in Facts : Publish(c, r, f)

Spec == Init /\ [][Next]_<<stored, reply>>
=============================================================================
