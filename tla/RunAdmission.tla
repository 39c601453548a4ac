---------------------------- MODULE RunAdmission ----------------------------
(***************************************************************************)
(* How a run comes into being: POST /agent/runs (create_agent_run_view),   *)
(* several requests at a time, and what get_active_run_by_thread makes of  *)
(* the rows.  The life of a run after its job is enqueued is AgentRun; here*)
(* it is a job that is taken and ends.                                     *)
(*                                                                         *)
(* A request creates at most one run, which is named by the request.  The  *)
(* database is read committed; the unique index on request_id makes a      *)
(* second insert of a key wait for the first transaction.                  *)
(***************************************************************************)
EXTENDS Naturals, Sequences

CONSTANTS
    Requests,   \* POST requests that may arrive
    Keys,       \* request ids (or resume request ids) they carry
    Threads,    \* conversation threads
    Users,
    NoRun,      \* the parent of a run that resumes none
    MaxFaults   \* bound: requests cut short by a failure

ASSUME NoRunAssumption == NoRun \notin Requests
ASSUME FaultsAssumption == MaxFaults \in Nat

Answers == Requests \union {"none", "refused", "error"}
ASSUME AnswersAssumption == {"none", "refused", "error"} \intersect Requests = {}

VARIABLES
    owner,      \* the user of each thread
    pc,         \* per request: idle, parent, lookup, insert, conflict, commit, enqueue, done
    key, thread, parent,    \* what the request carries
    answer,     \* per request: the run it was answered with, or a refusal
    row,        \* agent_runs row of the request's run: none, open, committed
    order,      \* inserts by created_at, those rolled back later included
    status,     \* agent_runs.status; ended: completed, failed or cancelled
    job,        \* ARQ job of the run: none, queued, taken
    faults

inputVars == <<owner, key, thread, parent>>
rowVars   == <<row, order, status>>
vars == <<inputVars, pc, answer, rowVars, job, faults>>

Init ==
    /\ owner \in [Threads -> Users]
    /\ pc = [r \in Requests |-> "idle"]
    /\ key \in [Requests -> Keys] /\ thread \in [Requests -> Threads]
    /\ parent = [r \in Requests |-> NoRun]
    /\ answer = [r \in Requests |-> "none"]
    /\ row = [r \in Requests |-> "none"] /\ order = <<>>
    /\ status = [r \in Requests |-> "pending"]
    /\ job = [r \in Requests |-> "none"]
    /\ faults = 0

User(r) == owner[thread[r]]
Stored(k) == {q \in Requests : row[q] = "committed" /\ key[q] = k}
Goto(r, l) == pc' = [pc EXCEPT ![r] = l]
Answer(r, a) == Goto(r, "done") /\ answer' = [answer EXCEPT ![r] = a]

-----------------------------------------------------------------------------
(* The handler of one request.                                             *)

\* A chat message, or the resumption of a run whose id the client has seen.
Arrive(r) ==
    /\ pc[r] = "idle"
    /\ \/ Goto(r, "lookup") /\ UNCHANGED parent
       \/ \E p \in Requests :
             /\ row[p] = "committed"
             /\ parent' = [parent EXCEPT ![r] = p]
             /\ Goto(r, "parent")
    /\ UNCHANGED <<owner, key, thread, answer, rowVars, job, faults>>

MayResumeAnyThread(r) == User(parent[r]) = User(r) /\ status[parent[r]] = "interrupted"    \* mutant
MayResume(r) ==
    /\ User(parent[r]) = User(r)
    /\ thread[parent[r]] = thread[r]
    /\ status[parent[r]] = "interrupted"

CheckParent(r) ==
    /\ pc[r] = "parent"
    /\ IF MayResume(r) THEN Goto(r, "lookup") /\ UNCHANGED answer
       ELSE Answer(r, "refused")
    /\ UNCHANGED <<inputVars, rowVars, job, faults>>

AnswerStored(r) ==
    \E q \in Stored(key[r]) : Answer(r, IF User(q) = User(r) THEN q ELSE "refused")

Lookup(r) ==
    /\ pc[r] = "lookup"
    /\ IF Stored(key[r]) = {} THEN Goto(r, "insert") /\ UNCHANGED answer
       ELSE AnswerStored(r)
    /\ UNCHANGED <<inputVars, rowVars, job, faults>>

\* The unique index on request_id: wait for an open insert, fail on a committed one.
KeyIsFree(r) == \A q \in Requests : key[q] = key[r] => row[q] # "open"

Insert(r) ==
    /\ pc[r] = "insert" /\ KeyIsFree(r)
    /\ IF Stored(key[r]) # {} THEN Goto(r, "conflict") /\ UNCHANGED <<row, order>>
       ELSE /\ row' = [row EXCEPT ![r] = "open"]
            /\ order' = Append(order, r)
            /\ Goto(r, "commit")
    /\ UNCHANGED <<inputVars, answer, status, job, faults>>

\* except IntegrityError: roll back, read again.
RereadRefuses(r) == Answer(r, "refused")    \* mutant
Reread(r) == IF Stored(key[r]) = {} THEN Answer(r, "refused") ELSE AnswerStored(r)

Conflict(r) ==
    /\ pc[r] = "conflict"
    /\ Reread(r)
    /\ UNCHANGED <<inputVars, rowVars, job, faults>>

\* The row and the input message become visible together.
Commit(r) ==
    /\ pc[r] = "commit"
    /\ row' = [row EXCEPT ![r] = "committed"]
    /\ Goto(r, "enqueue")
    /\ UNCHANGED <<inputVars, answer, order, status, job, faults>>

EnqueueFirst(r) ==    \* mutant
    /\ pc[r] \in {"commit", "enqueue"} /\ job[r] = "none"
    /\ job' = [job EXCEPT ![r] = "queued"]
    /\ IF pc[r] = "enqueue" THEN Answer(r, r) ELSE UNCHANGED <<pc, answer>>
    /\ UNCHANGED <<inputVars, rowVars, faults>>
EnqueueForgotten(r) ==    \* mutant
    /\ pc[r] = "enqueue"
    /\ Answer(r, r)
    /\ UNCHANGED <<inputVars, rowVars, job, faults>>
Enqueue(r) ==
    /\ pc[r] = "enqueue"
    /\ job' = [job EXCEPT ![r] = "queued"]
    /\ Answer(r, r)
    /\ UNCHANGED <<inputVars, rowVars, faults>>

\* Redis may have the job although enqueue_job raised, or nobody is left to say so.
MayHaveQueued(r) ==
    \/ UNCHANGED job
    \/ pc[r] = "enqueue" /\ job' = [job EXCEPT ![r] = "queued"]

\* Postgres or Redis fails, or the API process dies: an open transaction is rolled back.
\* The client gets an error, or no answer at all.
AbortKeepsRow(r) ==    \* mutant
    /\ pc[r] \notin {"idle", "done"}
    /\ faults < MaxFaults /\ faults' = faults + 1
    /\ Answer(r, "error") /\ MayHaveQueued(r)
    /\ UNCHANGED <<inputVars, rowVars>>
Abort(r) ==
    /\ pc[r] \notin {"idle", "done"}
    /\ faults < MaxFaults /\ faults' = faults + 1
    /\ Answer(r, "error") /\ MayHaveQueued(r)
    /\ row' = [row EXCEPT ![r] = IF @ = "open" THEN "none" ELSE @]
    /\ UNCHANGED <<inputVars, order, status>>

Handle(r) ==
    CheckParent(r) \/ Lookup(r) \/ Insert(r) \/ Conflict(r) \/ Commit(r) \/ Enqueue(r)

-----------------------------------------------------------------------------
(* The worker.                                                             *)

\* A job whose row cannot be read does nothing.
TakeJob(q) ==
    /\ job[q] = "queued"
    /\ job' = [job EXCEPT ![q] = "taken"]
    /\ status' = IF row[q] = "committed" THEN [status EXCEPT ![q] = "running"] ELSE status
    /\ UNCHANGED <<inputVars, pc, answer, row, order, faults>>

RunEnds(q) ==
    /\ status[q] = "running"
    /\ \E s \in {"ended", "interrupted"} : status' = [status EXCEPT ![q] = s]
    /\ UNCHANGED <<inputVars, pc, answer, row, order, job, faults>>

Next == \E r \in Requests :
    Arrive(r) \/ Handle(r) \/ Abort(r) \/ TakeJob(r) \/ RunEnds(r)

Fairness == \A r \in Requests : WF_vars(Handle(r))

Spec == Init /\ [][Next]_vars /\ Fairness

-----------------------------------------------------------------------------
(* get_active_run_by_thread: the run created last is asked.                *)

OnThread(th) ==
    {i \in 1..Len(order) : row[order[i]] = "committed" /\ thread[order[i]] = th}

Latest(th) == {order[i] : i \in {j \in OnThread(th) : \A m \in OnThread(th) : m <= j}}

Active == {"pending", "running", "interrupted"}

ActiveRun(th) == {q \in Latest(th) : status[q] \in Active}

-----------------------------------------------------------------------------
(* Properties.                                                             *)

TypeOK ==
    /\ owner \in [Threads -> Users]
    /\ pc \in [Requests -> {"idle", "parent", "lookup", "insert", "conflict", "commit",
                            "enqueue", "done"}]
    /\ key \in [Requests -> Keys] /\ thread \in [Requests -> Threads]
    /\ parent \in [Requests -> Requests \union {NoRun}]
    /\ answer \in [Requests -> Answers]
    /\ row \in [Requests -> {"none", "open", "committed"}]
    /\ \A r \in Requests : row[r] = "open" <=> pc[r] = "commit"
    /\ order \in Seq(Requests)
    /\ status \in [Requests -> {"pending", "running", "interrupted", "ended"}]
    /\ job \in [Requests -> {"none", "queued", "taken"}]
    /\ faults \in 0..MaxFaults

\* A request id is a key: however many requests carry it, and however they
\* interleave, the user's requests are answered with one and the same run, and none is
\* refused on account of another request of the same user (the lookup, the unique
\* index and the second lookup of create_agent_run_view).
OneRunPerKey ==
    \A r, q \in Requests :
        /\ answer[r] \in Requests => User(answer[r]) = User(r) /\ key[answer[r]] = key[r]
        /\ answer[r] \in Requests /\ answer[q] \in Requests /\ key[r] = key[q]
              => answer[r] = answer[q]
        /\ answer[r] = "refused" /\ parent[r] = NoRun
              => \E s \in Stored(key[r]) : User(s) # User(r)

\* Creation implements RunStore: of all interleavings of lookup, insert, conflict, commit
\* and rollback a client sees a key that gets its run in one step, which no failure
\* takes back, and which is handed to the workers only then.  A request that fails may
\* have stored its run, and may have handed it over.
RunOf(k) == IF Stored(k) = {} THEN NoRun ELSE CHOOSE q \in Stored(k) : TRUE
Store == INSTANCE RunStore WITH
    wanted <- [r \in Requests |-> [key |-> key[r], user |-> User(r), resumes |-> parent[r] # NoRun]],
    run <- [k \in Keys |-> RunOf(k)],
    queued <- {q \in Requests : job[q] # "none"},
    told <- answer
StoreSpec == Store!Spec

\* A worker that takes a job finds the row and the input message in the database:
\* the job is enqueued behind the commit, and no failure takes the row back
\* (test_create_agent_run_persists_input_before_enqueue).
JobFindsRow == \A q \in Requests : job[q] # "none" => row[q] = "committed"

\* A run nobody will execute is always the work of a failure, and of its own request's:
\* a stored run without a job is about to be enqueued, or the request that stored it
\* broke off behind its commit and its client got an error.  Neither the requests that
\* failed beside it nor those that were answered with its run leave one.
OrphanNeedsFailure ==
    \A r \in Requests :
        row[r] = "committed" /\ job[r] = "none" => pc[r] = "enqueue" \/ answer[r] = "error"

\* An interrupted run that was replied to is superseded by its resumption: it is
\* never reported as the active run of its thread again, whatever commits late.
RepliedIsSuperseded ==
    \A r \in Requests :
        parent[r] # NoRun /\ row[r] = "committed" => parent[r] \notin ActiveRun(thread[parent[r]])

\* A request is answered: waiting for the insert of another request ends with that
\* request, committed or not.
EveryRequestAnswered == \A r \in Requests : pc[r] # "idle" ~> pc[r] = "done"
=============================================================================
