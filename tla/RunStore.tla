------------------------------ MODULE RunStore ------------------------------
(***************************************************************************)
(* What the creation of runs promises: an idempotent store.  Each key gets *)
(* one run, for good; a run is handed to the workers only when it is       *)
(* stored; a request is answered once, with the run of its key, whoever    *)
(* created that, or refused for a reason: the run is another user's, or    *)
(* the request wanted to go on with a run that cannot be resumed.  The run *)
(* of a request that fails may be stored all the same, and handed to the   *)
(* workers all the same: nobody but the request's client is told of the    *)
(* failure.                                                                *)
(***************************************************************************)
CONSTANTS Requests, Keys, Users, NoRun

VARIABLES wanted,  \* per request: its key, its user, whether it resumes a run
          run,     \* per key: the run, named by the request that created it
          queued,  \* runs handed to the workers
          told     \* per request: the answer

vars == <<wanted, run, queued, told>>

Init ==
    /\ wanted \in [Requests -> [key : Keys, user : Users, resumes : {FALSE}]]
    /\ run = [k \in Keys |-> NoRun]
    /\ queued = {}
    /\ told = [r \in Requests |-> "none"]

RunOf(r) == run[wanted[r].key]
Tell(r, x) == told[r] = "none" /\ told' = [told EXCEPT ![r] = x]

Resume(r) ==
    /\ told[r] = "none"
    /\ wanted' = [wanted EXCEPT ![r].resumes = TRUE]
    /\ UNCHANGED <<run, queued, told>>

Create(r) ==
    /\ told[r] = "none" /\ RunOf(r) = NoRun
    /\ run' = [run EXCEPT ![wanted[r].key] = r]
    /\ UNCHANGED <<wanted, queued, told>>

Queue(r) ==
    /\ RunOf(r) = r /\ r \notin queued
    /\ queued' = queued \union {r}
    /\ \E x \in {r, "error"} : Tell(r, x)
    /\ UNCHANGED <<wanted, run>>

Repeat(r) ==
    /\ RunOf(r) # NoRun
    /\ Tell(r, IF wanted[RunOf(r)].user = wanted[r].user THEN RunOf(r) ELSE "refused")
    /\ UNCHANGED <<wanted, run, queued>>

Refuse(r) ==
    /\ wanted[r].resumes /\ Tell(r, "refused")
    /\ UNCHANGED <<wanted, run, queued>>

Fail(r) == Tell(r, "error") /\ UNCHANGED <<wanted, run, queued>>

Next == \E r \in Requests : Resume(r) \/ Create(r) \/ Queue(r) \/ Repeat(r) \/ Refuse(r) \/ Fail(r)

Spec == Init /\ [][Next]_vars
=============================================================================
