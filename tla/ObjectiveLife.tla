--------------------------- MODULE ObjectiveLife ---------------------------
(***************************************************************************)
(* What a development objective promises, with no revisions, environments, *)
(* provisioning or callers: each step is tried a number of times, one      *)
(* attempt live at a time; a policy denial ends the objective and a demand *)
(* for reconciliation ends the step; the objective is accepted only when   *)
(* every step's newest attempt succeeded, and cancelling it leaves nothing *)
(* live. Its verdict is given once.                                        *)
(***************************************************************************)
EXTENDS Integers, Sequences, SequencesExt

CONSTANT MaxSteps

VARIABLES tries, verdict

lifeVars == <<tries, verdict>>

Retryable == {"code", "capability", "transient"}
Outcomes == Retryable \cup {"succeeded", "policy", "reconcile"}

LifeInit ==
    /\ \E n \in 1..MaxSteps : tries = [i \in 1..n |-> <<>>]
    /\ verdict = "open"

Newest(i, outcome) == tries[i] # <<>> /\ Last(tries[i]) = outcome

Begin(i) ==
    /\ verdict = "open"
    /\ tries[i] = <<>> \/ Last(tries[i]) \in Retryable
    /\ tries' = [tries EXCEPT ![i] = Append(@, "live")]
    /\ UNCHANGED verdict

End(i, outcome) ==
    /\ verdict = "open"
    /\ Newest(i, "live")
    /\ tries' = [tries EXCEPT ![i] = Append(Front(@), outcome)]
    /\ verdict' = IF outcome = "policy" THEN "failed" ELSE "open"

AcceptAll ==
    /\ verdict = "open"
    /\ \A i \in DOMAIN tries : Newest(i, "succeeded")
    /\ verdict' = "accepted"
    /\ UNCHANGED tries

CancelAll ==
    /\ verdict = "open"
    /\ verdict' = "cancelled"
    /\ tries' = [i \in DOMAIN tries |->
                    IF Newest(i, "live") THEN Append(Front(tries[i]), "cancelled")
                    ELSE tries[i]]

LifeNext ==
    \/ \E i \in DOMAIN tries : Begin(i)
    \/ \E i \in DOMAIN tries, outcome \in Outcomes : End(i, outcome)
    \/ AcceptAll
    \/ CancelAll

LifeSpec == LifeInit /\ [][LifeNext]_lifeVars

=============================================================================
