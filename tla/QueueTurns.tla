----------------------------- MODULE QueueTurns -----------------------------
(***************************************************************************)
(* The work queue with a history of its last selection in each pool, for   *)
(* what docs/workqueue-admission-fairness.md says of the round robin.  The *)
(* process is not restarted here.                                          *)
(***************************************************************************)
EXTENDS WorkQueue

VARIABLE
  turn   \* per pool: the workspace served last and the jobs left waiting then

TurnInit == Init /\ turn = [p \in Pools |-> [ws |-> NoCursor, waiting |-> {}]]

Waiting(t, p) == {j \in InState(t, "queued") : t[j].pool = p}

\* The job LeaseNext selects in this step; LeaseTaskWorker leases a named job
\* and takes no turn.
Served ==
  {j \in Jobs : job'[j].fence > job[j].fence /\ \E ttl \in Ttls : LeaseNext(job[j].pool, ttl)}

TurnNext ==
  /\ Next /\ open'
  /\ turn' = [p \in Pools |->
       IF \E j \in Served : job[j].pool = p
       THEN [ws |-> job[CHOOSE j \in Served : TRUE].ws, waiting |-> Waiting(job', p)]
       ELSE [turn[p] EXCEPT !.waiting = @ \cap Waiting(job', p)]]

turnVars == <<vars, turn>>

TurnSpec == TurnInit /\ [][TurnNext]_turnVars

\* "The cursor advances after each selection so one workspace cannot
\* monopolize a pool": of two selections in a row from one pool, the second
\* does not go to the workspace of the first while a job of another workspace
\* has been waiting, not aged, through both.  LeaseNext uses one scheduler for
\* all pools, so a selection in another pool moves the cursor to a workspace
\* this pool does not have and the round starts at its first workspace again.
TakesTurnsStep ==
  \A j \in Served :
    LET p == job[j].pool IN
    job[j].ws = turn[p].ws =>
      \A i \in turn[p].waiting :
        job[i].ws = job[j].ws \/ \E k \in Waiting(job, p) : clock - job[k].updated >= AgingLimit
=============================================================================
