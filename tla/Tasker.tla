------------------------------- MODULE Tasker -------------------------------
(***************************************************************************)
(* The background tasks of the API process (services/task_service.py):     *)
(* a dictionary of Task objects, a queue, WorkerCount worker loops and a   *)
(* row per task in the database, changed by the calls of the API under one *)
(* asyncio.Lock.  A holder of the lock changes the object, then awaits the *)
(* save of the row; whoever needs no lock runs meanwhile.                  *)
(*                                                                         *)
(* The process crashes, is shut down and starts again; it is the only one. *)
(***************************************************************************)
EXTENDS Naturals, Sequences, SequencesExt

CONSTANTS
    Tasks,      \* task ids, each handed out once
    Workers,    \* the worker loops
    Kbs,        \* knowledge bases, the payload of a graph build task
    Plain,      \* the payload of every other task
    NoTask,
    MaxFaults   \* bound: failing database calls

ASSUME PlainAssumption == Plain \notin Kbs
ASSUME NoTaskAssumption == NoTask \notin Tasks
ASSUME WorkersAssumption == Workers \intersect {"submit", "cancel"} = {}
ASSUME FaultsAssumption == MaxFaults \in Nat

VARIABLES
    stage,      \* of the process: up, stopping (shutdown holds the lock), down
    lock,       \* _lock is held
    known,      \* keys of _tasks
    task,       \* the Task objects: status, cancel_requested, payload
    queue,      \* _queue
    db,         \* status in each row, or absent
    saves,      \* upserts under way: by whom, of which task, with which status
    deleting,   \* rows being deleted
    pc, cur,    \* per worker: where it is, and the task it took
    target,     \* per worker: the final status it is about to write
    faults,
    \* History: cancels granted before the coroutine returned, tasks stranded by a
    \* failed save, deletes that failed.
    early, stuck, kept

memVars    == <<known, task, queue>>
workerVars == <<pc, cur, target>>
histVars   == <<early, stuck, kept>>
dbVars     == <<db, saves>>
vars == <<stage, lock, memVars, dbVars, deleting, workerVars, faults, histVars>>

TERMINAL_STATUSES == {"success", "failed", "cancelled"}
Active == {"pending", "running"}
New == [status |-> "none", cancel |-> FALSE, payload |-> Plain]

Init ==
    /\ stage = "up" /\ lock = FALSE
    /\ known = {} /\ queue = <<>>
    /\ task = [t \in Tasks |-> New]
    /\ db = [t \in Tasks |-> "absent"]
    /\ saves = {} /\ deleting = {}
    /\ pc = [w \in Workers |-> "get"] /\ cur = [w \in Workers |-> NoTask]
    /\ target = [w \in Workers |-> "success"]
    /\ faults = 0 /\ early = {} /\ stuck = {} /\ kept = {}

-----------------------------------------------------------------------------
(* Saving.  Every change of a Task object is followed by the save of its   *)
(* row, under the lock.                                                    *)

Save(by, t, status) == [by |-> by, task |-> t, status |-> status]

ChangeUnlocked(by, t, new) ==    \* mutant
    /\ ~lock /\ UNCHANGED lock
    /\ task' = [task EXCEPT ![t] = new]
    /\ saves' = saves \union {Save(by, t, new.status)}
Change(by, t, new) ==
    /\ ~lock /\ lock' = TRUE
    /\ task' = [task EXCEPT ![t] = new]
    /\ saves' = saves \union {Save(by, t, new.status)}

Stored(v) == [db EXCEPT ![v.task] = v.status]

Saved(v) ==
    /\ v \in saves /\ saves' = saves \ {v} /\ lock' = FALSE
    /\ db' = Stored(v)
    /\ UNCHANGED faults

\* The call raises, and the row may have been written all the same.
SaveFails(v) ==
    /\ v \in saves /\ saves' = saves \ {v} /\ lock' = FALSE
    /\ db' \in {db, Stored(v)}
    /\ faults < MaxFaults /\ faults' = faults + 1

-----------------------------------------------------------------------------
(* Calls of the API.                                                       *)

\* _find_task_by_payload_locked with ACTIVE_GRAPH_BUILD_STATUSES.
BuildsPending(kb) == {t \in known : task[t].payload = kb /\ task[t].status = "pending"}    \* mutant
Builds(kb) == {t \in known : task[t].payload = kb /\ task[t].status \in Active}

\* enqueue, and enqueue_unique_by_payload for a graph build.
Submit(t, p) ==
    /\ stage = "up" /\ task[t].status = "none"
    /\ p # Plain => Builds(p) = {}
    /\ known' = known \union {t}
    /\ Change("submit", t, [status |-> "pending", cancel |-> FALSE, payload |-> p])
    /\ UNCHANGED <<stage, queue, db, deleting, workerVars, faults, histVars>>

SubmitSaved(t) ==
    LET v == Save("submit", t, "pending") IN
    /\ \/ Saved(v) /\ queue' = Append(queue, t) /\ UNCHANGED stuck
       \/ SaveFails(v) /\ stuck' = stuck \union {t} /\ UNCHANGED queue
    /\ UNCHANGED <<stage, known, task, deleting, workerVars, early, kept>>

\* The coroutine of t has not returned yet.
Unfinished(t) == \A w \in Workers : cur[w] = t => pc[w] \notin {"conclude", "concludeSave"}

Cancel(t) ==
    /\ stage = "up" /\ t \in known /\ task[t].status \notin TERMINAL_STATUSES
    /\ Change("cancel", t, [task[t] EXCEPT !.cancel = TRUE])
    /\ early' = IF Unfinished(t) THEN early \union {t} ELSE early
    /\ UNCHANGED <<stage, known, queue, db, deleting, workerVars, faults, stuck, kept>>

CancelSaved(t) ==
    \E v \in saves :
        /\ v.by = "cancel" /\ v.task = t
        /\ Saved(v) \/ SaveFails(v)
        /\ UNCHANGED <<stage, memVars, deleting, workerVars, histVars>>

DeleteUnlocked(t) ==    \* mutant
    /\ stage = "up" /\ t \in known
    /\ known' = known \ {t} /\ deleting' = deleting \union {t}
    /\ UNCHANGED <<stage, lock, task, queue, dbVars, workerVars, faults, histVars>>
Delete(t) ==
    /\ stage = "up" /\ ~lock /\ t \in known
    /\ known' = known \ {t} /\ deleting' = deleting \union {t}
    /\ UNCHANGED <<stage, lock, task, queue, dbVars, workerVars, faults, histVars>>

\* The row is deleted behind the lock.
RowDeleted(t) ==
    /\ t \in deleting /\ deleting' = deleting \ {t}
    /\ \/ db' = [db EXCEPT ![t] = "absent"] /\ UNCHANGED <<faults, kept>>
       \/ faults < MaxFaults /\ faults' = faults + 1 /\ kept' = kept \union {t} /\ UNCHANGED db
    /\ UNCHANGED <<stage, lock, memVars, saves, workerVars, early, stuck>>

-----------------------------------------------------------------------------
(* _worker_loop.                                                           *)

Goto(w, l) == pc' = [pc EXCEPT ![w] = l]
Aim(w, l, s) == Goto(w, l) /\ target' = [target EXCEPT ![w] = s]
Idle(w) == Goto(w, "get") /\ cur' = [cur EXCEPT ![w] = NoTask] /\ UNCHANGED target

Get(w) ==
    /\ pc[w] = "get" /\ stage = "up" /\ queue # <<>>
    /\ queue' = Tail(queue) /\ cur' = [cur EXCEPT ![w] = Head(queue)]
    /\ Goto(w, "lookup")
    /\ UNCHANGED <<stage, lock, known, task, dbVars, deleting, target, faults, histVars>>

LookupDropsCancelled(w) ==    \* mutant
    /\ pc[w] = "lookup" /\ ~lock
    /\ \/ (cur[w] \notin known \/ task[cur[w]].cancel) /\ Idle(w)
       \/ cur[w] \in known /\ ~task[cur[w]].cancel /\ Goto(w, "start") /\ UNCHANGED <<cur, target>>
    /\ UNCHANGED <<stage, lock, memVars, dbVars, deleting, faults, histVars>>
Lookup(w) ==
    /\ pc[w] = "lookup" /\ ~lock
    /\ \/ cur[w] \notin known /\ Idle(w)
       \/ cur[w] \in known /\ task[cur[w]].cancel /\ Aim(w, "settle", "cancelled") /\ UNCHANGED cur
       \/ cur[w] \in known /\ ~task[cur[w]].cancel /\ Goto(w, "start") /\ UNCHANGED <<cur, target>>
    /\ UNCHANGED <<stage, lock, memVars, dbVars, deleting, faults, histVars>>

\* _update_task of a task that was deleted changes nothing.
Update(w, status) == Change(w, cur[w], [task[cur[w]] EXCEPT !.status = status])

Start(w) ==
    /\ pc[w] = "start" /\ ~lock
    /\ \/ cur[w] \in known /\ Update(w, "running") /\ Goto(w, "startSave")
       \/ cur[w] \notin known /\ Goto(w, "run") /\ UNCHANGED <<lock, task, saves>>
    /\ UNCHANGED <<stage, known, queue, db, deleting, cur, target, faults, histVars>>

StartSaved(w) ==
    LET v == Save(w, cur[w], "running") IN
    /\ pc[w] = "startSave"
    /\ \/ Saved(v) /\ Goto(w, "run") /\ UNCHANGED <<cur, target, stuck>>
       \/ SaveFails(v) /\ Idle(w) /\ stuck' = stuck \union {cur[w]}
    /\ UNCHANGED <<stage, memVars, deleting, early, kept>>

\* The coroutine reports progress, as often as it likes.
Progress(w) ==
    /\ pc[w] = "run" /\ cur[w] \in known
    /\ Update(w, task[cur[w]].status) /\ Goto(w, "runSave")
    /\ UNCHANGED <<stage, known, queue, db, deleting, cur, target, faults, histVars>>

ProgressSaved(w) ==
    /\ pc[w] = "runSave"
    /\ \E v \in saves :
          /\ v.by = w
          /\ \/ Saved(v) /\ Goto(w, "run") /\ UNCHANGED target
             \/ SaveFails(v) /\ Aim(w, "settle", "failed")
    /\ UNCHANGED <<stage, memVars, deleting, cur, histVars>>

\* The coroutine returns (and the worker looks at the flag of the object it holds),
\* raises, or sees the flag itself (through _tasks).
ResultUnchecked(w) == "success"    \* mutant
Result(w) == IF task[cur[w]].cancel THEN "cancelled" ELSE "success"

CoroutineEnds(w) ==
    /\ pc[w] = "run"
    /\ \/ Aim(w, "conclude", Result(w))
       \/ Aim(w, "settle", "failed")
       \/ cur[w] \in known /\ task[cur[w]].cancel /\ Aim(w, "settle", "cancelled")
    /\ UNCHANGED <<stage, lock, memVars, dbVars, deleting, cur, faults, histVars>>

Finish(w) ==
    /\ pc[w] \in {"conclude", "settle"} /\ ~lock
    /\ \/ /\ cur[w] \in known /\ Update(w, target[w])
          /\ Goto(w, IF pc[w] = "conclude" THEN "concludeSave" ELSE "settleSave")
          /\ UNCHANGED <<cur, target>>
       \/ cur[w] \notin known /\ Idle(w) /\ UNCHANGED <<lock, task, saves>>
    /\ UNCHANGED <<stage, known, queue, db, deleting, faults, histVars>>

\* Inside the try statement a failed save makes the task a failed one.
ConcludeStays(w) == pc[w] = "never"    \* mutant
Concluding(w) == pc[w] = "concludeSave"

FinishSaved(w) ==
    LET v == Save(w, cur[w], target[w]) IN
    /\ pc[w] \in {"concludeSave", "settleSave"}
    /\ \/ Saved(v) /\ Idle(w)
       \/ SaveFails(v) /\ Concluding(w) /\ Aim(w, "settle", "failed") /\ UNCHANGED cur
       \/ SaveFails(v) /\ ~Concluding(w) /\ Idle(w)
    /\ UNCHANGED <<stage, memVars, deleting, histVars>>

-----------------------------------------------------------------------------
(* The process.                                                            *)

Quiet == ~lock /\ saves = {} /\ deleting = {}

\* The lifespan handler calls shutdown when the requests are over: it takes the
\* lock, cancels the workers and waits for them.  A coroutine that is cancelled
\* makes its worker mark the task.
Shutdown ==
    /\ stage = "up" /\ Quiet
    /\ stage' = "stopping" /\ lock' = TRUE
    /\ pc' = [w \in Workers |-> IF pc[w] \in {"run", "conclude"} THEN "settle" ELSE "stopped"]
    /\ target' = [w \in Workers |-> "cancelled"]
    /\ UNCHANGED <<memVars, dbVars, deleting, cur, faults, histVars>>

\* What a new process finds of the old one is the rows.
Forget ==
    /\ known' = {} /\ queue' = <<>> /\ lock' = FALSE
    /\ saves' = {} /\ deleting' = {}
    /\ task' = [t \in Tasks |-> IF task[t].status = "none" THEN New ELSE [New EXCEPT !.status = "gone"]]
    /\ pc' = [w \in Workers |-> "get"] /\ cur' = [w \in Workers |-> NoTask]
    /\ target' = [w \in Workers |-> "success"]
    /\ early' = {} /\ stuck' = {} /\ kept' = {}

ShutdownDone ==
    /\ stage = "stopping" /\ \A w \in Workers : pc[w] = "stopped"
    /\ stage' = "down" /\ Forget
    /\ UNCHANGED <<db, faults>>

\* The process is killed: what is under way in the database happens or not.
Crash ==
    /\ stage # "down" /\ stage' = "down" /\ Forget
    /\ db' \in {[t \in Tasks |-> IF t \in D THEN "absent" ELSE e[t]] :
                    e \in {db} \union {Stored(v) : v \in saves}, D \in SUBSET deleting}
    /\ UNCHANGED faults

\* _load_state: the tasks nobody executes any more are failed; _tasks stays empty.
UnsweptRunning == {t \in Tasks : db[t] = "running"}    \* mutant
Unswept == {t \in Tasks : db[t] \in Active}

Sweep(S) == db' = [t \in Tasks |-> IF t \in S THEN "failed" ELSE db[t]]

Restart ==
    /\ stage = "down"
    /\ \/ stage' = "up" /\ Sweep(Unswept) /\ UNCHANGED faults
       \/ /\ faults < MaxFaults /\ faults' = faults + 1
          /\ \E S \in SUBSET Unswept : Sweep(S)
          /\ UNCHANGED stage
    /\ UNCHANGED <<lock, memVars, saves, deleting, workerVars, histVars>>

-----------------------------------------------------------------------------
Call(t) == (\E p \in Kbs \union {Plain} : Submit(t, p)) \/ Cancel(t) \/ Delete(t)
Advance(w) == Get(w) \/ Lookup(w) \/ Start(w) \/ CoroutineEnds(w) \/ Finish(w)
SaveReturns ==
    \/ \E t \in Tasks : SubmitSaved(t) \/ CancelSaved(t)
    \/ \E w \in Workers : StartSaved(w) \/ ProgressSaved(w) \/ FinishSaved(w)

Next ==
    \/ \E t \in Tasks : Call(t) \/ RowDeleted(t)
    \/ \E w \in Workers : Advance(w) \/ Progress(w)
    \/ SaveReturns
    \/ Shutdown \/ ShutdownDone \/ Crash \/ Restart

\* Database calls return, asyncio.Lock and asyncio.Queue serve their waiters in
\* turn, and a coroutine is assumed to end however often it reports progress.
Fairness ==
    /\ WF_vars(SaveReturns) /\ WF_vars(ShutdownDone)
    /\ \A w \in Workers : SF_vars(Advance(w))

Spec == Init /\ [][Next]_vars /\ Fairness

-----------------------------------------------------------------------------
(* Properties.                                                             *)

Statuses == {"pending", "running"} \union TERMINAL_STATUSES

TasksOK ==
    /\ known \subseteq Tasks /\ deleting \subseteq Tasks
    /\ task \in [Tasks -> [status : Statuses \union {"none", "gone"}, cancel : BOOLEAN,
                           payload : Kbs \union {Plain}]]
    /\ queue \in Seq(Tasks) /\ IsInjective(queue)
    /\ db \in [Tasks -> Statuses \union {"absent"}]

\* At most one save is under way, and whoever makes it holds the lock.
LockOK ==
    /\ saves \subseteq [by : Workers \union {"submit", "cancel"}, task : Tasks, status : Statuses]
    /\ \A v, u \in saves : v = u
    /\ lock \in BOOLEAN
    /\ lock <=> saves # {} \/ stage = "stopping"

WorkersOK ==
    /\ pc \in [Workers -> {"get", "lookup", "start", "startSave", "run", "runSave", "conclude",
                           "concludeSave", "settle", "settleSave", "stopped"}]
    /\ cur \in [Workers -> Tasks \union {NoTask}]
    /\ target \in [Workers -> TERMINAL_STATUSES]

TypeOK ==
    /\ stage \in {"up", "stopping", "down"}
    /\ TasksOK /\ LockOK /\ WorkersOK
    /\ faults \in 0..MaxFaults
    /\ early \subseteq Tasks /\ stuck \subseteq Tasks /\ kept \subseteq Tasks

\* Saves reach the database in the order of the changes: whenever no save is under
\* way, the row of a task says what its object says, unless a call failed
\* (_update_task awaits _persist_task inside the lock).
DbAgrees ==
    stage = "up" /\ ~lock /\ faults = 0 => \A t \in known : db[t] = task[t].status

\* A task that is reported as successful is successful in the database too, failures
\* included: a success that cannot be saved turns into a failed task.
SuccessIsSaved ==
    \A t \in known : task[t].status = "success" /\ (\A w \in Workers : cur[w] # t) => db[t] = "success"

\* No save brings back the row of a deleted task: delete_task takes the task out of
\* the dictionary under the lock, and deletes the row without it.
DeletedStaysDeleted ==
    [][\A t \in Tasks : task[t].status # "none" /\ t \notin known \union deleting /\ db[t] = "absent"
           => db'[t] = "absent"]_vars

\* The rows keep what TaskRow says: no late save, sweep, crash or failing call takes one
\* back to an earlier status or brings it back once it is deleted.  A row that is not
\* there is new as long as its task may yet be saved.
Row(t) ==
    IF db[t] # "absent" THEN db[t]
    ELSE IF task[t].status = "none" \/ t \in known THEN "new"
    ELSE "over"
Rows == INSTANCE TaskRow WITH row <- [t \in Tasks |-> Row(t)]
RowSpec == Rows!Spec

\* In a process that is up, an unfinished row belongs to a task of this process, or to
\* a deletion that is under way or failed: _load_state fails whatever a crash, a
\* shutdown or an earlier start that broke off left behind.
RowHasOwner ==
    stage = "up" => \A t \in Tasks : db[t] \in Active => t \in known \union deleting \union kept

\* A cancel that was granted before the coroutine returned keeps the task from ever
\* being a success, also when the coroutine never looks at the flag (the check of
\* _worker_loop behind the coroutine).
CancelInTimeHonoured == \A t \in early : task[t].status # "success"

Executing(kb) == {w \in Workers : pc[w] \in {"run", "runSave"} /\ task[cur[w]].payload = kb}

\* Two graph builds of one knowledge base never run side by side unless the task of
\* one was deleted while it was under way: the search for an active build and the
\* registration of the new one are one critical section.
OneBuildUnlessDeleted ==
    \A kb \in Kbs : \A w, x \in Executing(kb) : w = x \/ cur[w] \notin known \/ cur[x] \notin known

\* Every task comes to an end, however often the process fails and whichever calls
\* fail, with two exceptions: the save of enqueue and the save of "running" strand
\* their task when they fail.
EveryTaskSettles ==
    \A t \in Tasks :
        t \in known ~> \/ task[t].status \in TERMINAL_STATUSES
                       \/ t \notin known \/ stage # "up" \/ t \in stuck

\* shutdown completes, and the rest of the lifespan handler runs.
ShutdownEnds == stage = "stopping" ~> stage = "down"
=============================================================================
