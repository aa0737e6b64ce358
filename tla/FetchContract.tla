--------------------------- MODULE FetchContract ---------------------------
(***************************************************************************)
(* What the readers of raw_payloads and provider_job_runs may rely on while *)
(* nothing fails: each request hash is answered once and for good, and a   *)
(* run ends once, a success with an answer that is in the table.           *)
(***************************************************************************)
CONSTANTS RunIds, PayloadId, None

VARIABLES
    answers,  \* the payloads stored so far
    outcome,  \* the status of each run
    served    \* the payload of each run

vars == <<answers, outcome, served>>

Answer(p) ==
    /\ \A q \in answers : q.hash # p.hash
    /\ answers' = answers \cup {p}
    /\ UNCHANGED <<outcome, served>>

Begin(r) ==
    /\ outcome[r] = "absent"
    /\ outcome' = [outcome EXCEPT ![r] = "running"]
    /\ UNCHANGED <<answers, served>>

\* The row of a run whose definition was deleted meanwhile can be missing.
Unfinished(r) == outcome[r] \in {"absent", "running"}

Succeed(r, p) ==
    /\ Unfinished(r)
    /\ p \in answers
    /\ outcome' = [outcome EXCEPT ![r] = "succeeded"]
    /\ served' = [served EXCEPT ![r] = p]
    /\ UNCHANGED answers

Fail(r) ==
    /\ Unfinished(r)
    /\ outcome' = [outcome EXCEPT ![r] = "failed"]
    /\ UNCHANGED <<answers, served>>

\* Deleting a definition takes its runs along.
Forget(R) ==
    /\ outcome' = [r \in RunIds |-> IF r \in R THEN "absent" ELSE outcome[r]]
    /\ served' = [r \in RunIds |-> IF r \in R THEN None ELSE served[r]]
    /\ UNCHANGED answers

Init ==
    /\ answers = {}
    /\ outcome = [r \in RunIds |-> "absent"]
    /\ served = [r \in RunIds |-> None]

Next ==
    \/ \E p \in PayloadId : Answer(p)
    \/ \E r \in RunIds : Begin(r) \/ Fail(r)
    \/ \E r \in RunIds, p \in PayloadId : Succeed(r, p)
    \/ \E R \in SUBSET RunIds : Forget(R)

Spec == Init /\ [][Next]_vars
=============================================================================
