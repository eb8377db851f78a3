------------------------------ MODULE LossyLog ------------------------------
(***************************************************************************)
(* What the supervisor's log shipper promises the child whose output it    *)
(* carries: a log that may lose records when it has to, but sends the      *)
(* others in the order it accepted them, each once, and owns up to every   *)
(* loss.  Module Shipper implements it.                                    *)
(***************************************************************************)
EXTENDS Integers, Sequences

VARIABLES
    accepted,  \* records accepted; the number of the last one
    pending,   \* numbers of the records accepted and neither sent nor lost
    sent,      \* number of the last record sent
    owed,      \* losses not yet reported
    reported   \* losses reported

vars == <<accepted, pending, sent, owed, reported>>

Init ==
    /\ accepted = 0 /\ sent = 0
    /\ pending = << >>
    /\ owed = 0 /\ reported = 0

(* Of the records q, those from the i-th on and before the j-th are lost.  *)
KeepBut(q, i, j) ==
    /\ pending' = SubSeq(q, 1, i - 1) \o SubSeq(q, j, Len(q))
    /\ owed' = owed + (j - i)

LoseSome(q) == \E i, j \in 1 .. Len(q) + 1 : i <= j /\ KeepBut(q, i, j)

Accept ==
    /\ accepted' = accepted + 1
    /\ LoseSome(Append(pending, accepted + 1))
    /\ UNCHANGED <<sent, reported>>

Lose ==
    /\ LoseSome(pending)
    /\ UNCHANGED <<accepted, sent, reported>>

Send ==
    /\ pending # << >>
    /\ sent' = Head(pending)
    /\ pending' = Tail(pending)
    /\ UNCHANGED <<accepted, owed, reported>>

Report ==
    \E n \in 1 .. owed :
        /\ reported' = reported + n
        /\ owed' = owed - n
        /\ UNCHANGED <<accepted, pending, sent>>

Next == Accept \/ Lose \/ Send \/ Report

Spec == Init /\ [][Next]_vars
=============================================================================
