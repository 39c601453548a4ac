---------------------------- MODULE TaskerProofs ----------------------------
(***************************************************************************)
(* Proofs about Tasker, for any number of tasks, workers, knowledge bases  *)
(* and failing database calls.                                             *)
(***************************************************************************)
EXTENDS Tasker, TLAPS

-----------------------------------------------------------------------------
(* The inductive invariant.                                                *)

\* A save carries the status of its object, which nobody deletes meanwhile.
SaveInv ==
    /\ stage # "up" => saves = {}
    /\ \A v \in saves : v.task \in known /\ v.status = task[v.task].status

\* A task is registered, or its row is being deleted, or neither.
KnownInv ==
    /\ known \intersect deleting = {}
    /\ \A t \in known \union deleting : task[t].status \in Statuses
    /\ stage = "down" => known = {}

Queued(t) == \E i \in 1..Len(queue) : queue[i] = t
Submitting(t) == \E v \in saves : v.by = "submit" /\ v.task = t

\* A task is with enqueue, then in the queue, then with a worker.
QueueInv ==
    \A t \in Tasks :
        /\ Queued(t) => ~Submitting(t) /\ task[t].status # "none"
        /\ Queued(t) /\ t \in known => task[t].status = "pending"
        /\ Submitting(t) => task[t].status = "pending"

\* A worker has its task to itself.
HeldInv ==
    \A w \in Workers :
        /\ pc[w] = "get" => cur[w] = NoTask
        /\ pc[w] \notin {"get", "stopped"} => cur[w] \in Tasks
        /\ cur[w] \in Tasks =>
              /\ ~Queued(cur[w]) /\ ~Submitting(cur[w]) /\ task[cur[w]].status # "none"
              /\ \A x \in Workers : cur[x] = cur[w] => x = w

\* Where a worker is tells the status of its task.
PlaceInv ==
    \A w \in Workers :
        /\ pc[w] \in {"settle", "settleSave"} => target[w] # "success"
        /\ cur[w] \in known =>
              /\ pc[w] \in {"lookup", "start"} => task[cur[w]].status = "pending"
              /\ pc[w] \in {"startSave", "run", "runSave", "conclude"} =>
                    task[cur[w]].status = "running"

\* At most one build of a knowledge base is pending or running.
BuildInv ==
    \A t, u \in known :
        /\ task[t].payload = task[u].payload /\ task[t].payload \in Kbs
        /\ task[t].status \in Active /\ task[u].status \in Active
        => t = u

\* Without a failure a row lags behind its object only while it is being saved.
RowInv ==
    stage = "up" /\ faults = 0 =>
        \A t \in known : db[t] = task[t].status \/ \E v \in saves : v.task = t

\* A granted cancel stays on the object, and a worker that is about to conclude
\* has seen it.
EarlyInv ==
    \A t \in early :
        /\ task[t].status \notin {"none", "success"} /\ task[t].cancel
        /\ \A w \in Workers : cur[w] = t /\ pc[w] = "conclude" => target[w] # "success"

IInv ==
    /\ TypeOK /\ SaveInv /\ KnownInv /\ QueueInv /\ HeldInv /\ PlaceInv
    /\ BuildInv /\ RowInv /\ EarlyInv /\ SuccessIsSaved /\ RowHasOwner

-----------------------------------------------------------------------------
(* The two ends of a save.                                                 *)

LEMMA SaveBegins ==
  ASSUME IInv, NEW by, NEW t \in Tasks, NEW new, Change(by, t, new)
  PROVE  /\ saves = {} /\ stage # "stopping"
         /\ saves' = {Save(by, t, new.status)} /\ lock' = TRUE
         /\ task' = [task EXCEPT ![t] = new]
  BY DEF IInv, TypeOK, LockOK, Change

LEMMA SaveEnds ==
  ASSUME IInv, NEW v, Saved(v) \/ SaveFails(v)
  PROVE  /\ saves = {v} /\ saves' = {} /\ lock' = FALSE /\ stage = "up"
         /\ v.task \in known /\ v.status = task[v.task].status
         /\ v.task \in Tasks /\ v.status \in Statuses
         /\ db' = db \/ db' = [db EXCEPT ![v.task] = v.status]
         /\ faults' \in 0..MaxFaults /\ faults <= faults'
         /\ faults' = 0 => Saved(v)
  BY FaultsAssumption DEF IInv, TypeOK, LockOK, SaveInv, Saved, SaveFails, Stored

\* The rows behind the end of a save.
LEMMA RowsAfterSave ==
  ASSUME IInv, NEW v, Saved(v) \/ SaveFails(v), UNCHANGED <<stage, known, task, deleting, kept>>
  PROVE  /\ db' \in [Tasks -> Statuses \union {"absent"}]
         /\ RowInv' /\ RowHasOwner'
         /\ \A t \in known : task[t].status = "success" /\ db[t] = "success" => db'[t] = "success"
<1>1. db' \in [Tasks -> Statuses \union {"absent"}]
  BY SaveEnds DEF IInv, TypeOK, TasksOK
<1>2. RowInv'
  <2> SUFFICES ASSUME faults' = 0, NEW t \in known PROVE db'[t] = task[t].status
    BY DEF RowInv
  <2>1. Saved(v) /\ faults = 0 /\ saves = {v} /\ stage = "up"
    <3>1. Saved(v) /\ saves = {v} /\ stage = "up" /\ faults <= 0
      BY SaveEnds
    <3> QED BY <3>1, FaultsAssumption DEF IInv, TypeOK
  <2>2. db' = [db EXCEPT ![v.task] = v.status]
    BY <2>1 DEF Saved, Stored
  <2>3. CASE v.task = t
    BY <2>2, <2>3, SaveEnds DEF IInv, TypeOK, TasksOK
  <2>4. CASE v.task # t
    BY <2>1, <2>2, <2>4 DEF IInv, TypeOK, TasksOK, RowInv
  <2> QED BY <2>3, <2>4
<1>3. RowHasOwner'
  BY SaveEnds DEF IInv, TypeOK, TasksOK, RowHasOwner
<1>4. \A t \in known : task[t].status = "success" /\ db[t] = "success" => db'[t] = "success"
  BY SaveEnds DEF IInv, TypeOK, TasksOK
<1> QED BY <1>1, <1>2, <1>3, <1>4

-----------------------------------------------------------------------------
(* The initial states.                                                     *)

LEMMA InitInv == Init => IInv
<1> SUFFICES ASSUME Init PROVE IInv
  OBVIOUS
<1>1. TypeOK
  <2>1. TasksOK
    <3>1. queue \in Seq(Tasks) /\ IsInjective(queue)
      BY DEF Init, IsInjective
    <3> QED BY <3>1 DEF Init, New, TasksOK
  <2>2. LockOK /\ WorkersOK
    BY DEF Init, LockOK, WorkersOK, TERMINAL_STATUSES
  <2> QED BY <2>1, <2>2, FaultsAssumption DEF Init, TypeOK
<1> QED
  BY <1>1, NoTaskAssumption
     DEF Init, IInv, SaveInv, KnownInv, QueueInv, Queued, Submitting, HeldInv, PlaceInv, BuildInv,
         RowInv, EarlyInv, SuccessIsSaved, RowHasOwner, Active

-----------------------------------------------------------------------------
(* Calls of the API.                                                       *)

LEMMA SubmitInv ==
  ASSUME IInv, NEW t \in Tasks, NEW p \in Kbs \union {Plain}, Submit(t, p)
  PROVE  IInv'
<1> DEFINE new == [status |-> "pending", cancel |-> FALSE, payload |-> p]
<1>1. /\ saves = {} /\ saves' = {Save("submit", t, "pending")} /\ lock' = TRUE
      /\ task' = [task EXCEPT ![t] = new] /\ known' = known \union {t}
      /\ stage = "up" /\ task[t].status = "none" /\ (p # Plain => Builds(p) = {})
      /\ UNCHANGED <<stage, queue, db, deleting, pc, cur, target, faults, early, stuck, kept>>
  <2>1. Change("submit", t, new)
    BY DEF Submit
  <2>2. /\ saves = {} /\ saves' = {Save("submit", t, new.status)} /\ lock' = TRUE
        /\ task' = [task EXCEPT ![t] = new]
    BY <2>1, SaveBegins
  <2> QED BY <2>2 DEF Submit, workerVars, histVars
<1>2. t \notin known /\ t \notin deleting /\ ~Queued(t) /\ t \notin early
      /\ \A w \in Workers : cur[w] # t
  BY <1>1 DEF IInv, KnownInv, QueueInv, HeldInv, EarlyInv, Statuses, TERMINAL_STATUSES
<1> USE <1>1, <1>2 DEF IInv, Save, TypeOK, TasksOK, WorkersOK
<1>3. TypeOK'
  BY DEF LockOK, Statuses, TERMINAL_STATUSES
<1>4. SaveInv' /\ KnownInv'
  BY DEF SaveInv, KnownInv, Statuses
<1>5. QueueInv' /\ HeldInv' /\ PlaceInv'
  BY DEF QueueInv, Queued, Submitting, HeldInv, PlaceInv
<1>6. BuildInv'
  BY PlainAssumption DEF BuildInv, Builds
<1>7. RowInv' /\ EarlyInv' /\ SuccessIsSaved' /\ RowHasOwner'
  BY DEF RowInv, EarlyInv, SuccessIsSaved, RowHasOwner
<1> QED BY <1>3, <1>4, <1>5, <1>6, <1>7
LEMMA SubmitSavedInv ==
  ASSUME IInv, NEW t \in Tasks, SubmitSaved(t)
  PROVE  IInv'
<1> DEFINE v == Save("submit", t, "pending")
<1>1. Saved(v) \/ SaveFails(v)
  BY DEF SubmitSaved
<1>2. UNCHANGED <<stage, known, task, deleting, pc, cur, target, early, kept>>
  BY DEF SubmitSaved, workerVars
<1>3. queue' = Append(queue, t) \/ queue' = queue
  BY DEF SubmitSaved
<1>4. stuck' \subseteq Tasks
  BY DEF SubmitSaved, IInv, TypeOK
<1>5. /\ saves = {v} /\ saves' = {} /\ lock' = FALSE /\ stage = "up" /\ t \in known
      /\ task[t].status = "pending" /\ faults' \in 0..MaxFaults
  <2>1. v.task = t /\ v.status = "pending"
    BY DEF Save
  <2>2. /\ saves = {v} /\ saves' = {} /\ lock' = FALSE /\ stage = "up" /\ v.task \in known
        /\ v.status = task[v.task].status /\ faults' \in 0..MaxFaults
    BY <1>1, SaveEnds
  <2> QED BY <2>1, <2>2
<1>6. v \in saves /\ v.by = "submit" /\ v.task = t
  BY <1>5 DEF Save
<1>7. Submitting(t)
  BY <1>6 DEF Submitting
<1>8. ~Queued(t) /\ \A w \in Workers : cur[w] # t
  BY <1>7 DEF IInv, QueueInv, HeldInv
<1>9. queue' \in Seq(Tasks) /\ IsInjective(queue')
      /\ \A u \in Tasks : Queued(u)' => Queued(u) \/ u = t
  <2>1. CASE queue' = queue
    BY <2>1 DEF IInv, TypeOK, TasksOK, Queued
  <2>2. CASE queue' = Append(queue, t)
    <3>1. /\ queue \in Seq(Tasks) /\ queue' \in Seq(Tasks) /\ Len(queue') = Len(queue) + 1
          /\ queue'[Len(queue) + 1] = t
          /\ \A i \in 1..Len(queue) : queue'[i] = queue[i] /\ queue[i] # t
      BY <1>8, <2>2 DEF IInv, TypeOK, TasksOK, Queued
    <3>2. \A i \in 1..Len(queue') : i \in 1..Len(queue) \/ i = Len(queue) + 1
      BY <3>1
    <3>3. \A i, j \in 1..Len(queue) : queue[i] = queue[j] => i = j
      BY DEF IInv, TypeOK, TasksOK, IsInjective
    <3>4. DOMAIN queue' = 1..Len(queue')
      BY <3>1
    <3>5. IsInjective(queue')
      BY <3>1, <3>2, <3>3, <3>4 DEF IsInjective
    <3>6. \A u \in Tasks : Queued(u)' => Queued(u) \/ u = t
      BY <3>1, <3>2 DEF Queued
    <3> QED BY <3>1, <3>5, <3>6
  <2> QED BY <1>3, <2>1, <2>2
<1>10. TypeOK'
  <2>1. TasksOK'
    BY <1>1, <1>2, <1>9, RowsAfterSave DEF IInv, TypeOK, TasksOK
  <2>2. LockOK' /\ WorkersOK'
    BY <1>2, <1>5 DEF IInv, TypeOK, LockOK, WorkersOK
  <2> QED BY <1>2, <1>4, <1>5, <2>1, <2>2 DEF IInv, TypeOK
<1>11. SaveInv' /\ KnownInv' /\ PlaceInv' /\ BuildInv' /\ EarlyInv'
  BY <1>2, <1>5 DEF IInv, SaveInv, KnownInv, PlaceInv, BuildInv, EarlyInv
<1>12. QueueInv' /\ HeldInv'
  BY <1>2, <1>5, <1>8, <1>9 DEF IInv, QueueInv, HeldInv, Submitting
<1>13. RowInv' /\ SuccessIsSaved' /\ RowHasOwner'
  BY <1>1, <1>2, RowsAfterSave DEF IInv, SuccessIsSaved
<1> QED BY <1>10, <1>11, <1>12, <1>13 DEF IInv

LEMMA CancelInv ==
  ASSUME IInv, NEW t \in Tasks, Cancel(t)
  PROVE  IInv'
<1>1. PICK new : new = [task[t] EXCEPT !.cancel = TRUE] /\ Change("cancel", t, new)
  BY DEF Cancel
<1>2. /\ saves = {} /\ saves' = {Save("cancel", t, new.status)} /\ lock' = TRUE
      /\ task' = [task EXCEPT ![t] = new]
  <2>1. Change("cancel", t, new)
    BY <1>1
  <2> QED BY <2>1, SaveBegins
<1>3. /\ stage = "up" /\ t \in known /\ task[t].status \notin TERMINAL_STATUSES
      /\ UNCHANGED <<stage, known, queue, db, deleting, pc, cur, target, faults, stuck, kept>>
      /\ early' \in {early, early \union {t}} /\ (t \in early' => t \in early \/ Unfinished(t))
  BY DEF Cancel, workerVars
<1>4. /\ new.status = task[t].status /\ new.payload = task[t].payload /\ new.cancel = TRUE
      /\ task[t].status \in Statuses
      /\ new \in [status : Statuses \union {"none", "gone"}, cancel : BOOLEAN,
                  payload : Kbs \union {Plain}]
  BY <1>1, <1>3 DEF IInv, KnownInv, TypeOK, TasksOK
<1>5. \A u \in Tasks : task'[u].status = task[u].status /\ task'[u].payload = task[u].payload
                       /\ (task[u].cancel => task'[u].cancel)
  BY <1>2, <1>4 DEF IInv, TypeOK, TasksOK
<1>6. TypeOK'
  BY <1>2, <1>3, <1>4 DEF IInv, TypeOK, TasksOK, LockOK, WorkersOK, Save
<1>7. SaveInv' /\ KnownInv'
  BY <1>2, <1>3, <1>4, <1>5 DEF IInv, SaveInv, KnownInv, Save, TypeOK, TasksOK
<1>8. QueueInv' /\ HeldInv' /\ PlaceInv'
  BY <1>2, <1>3, <1>5 DEF IInv, QueueInv, HeldInv, PlaceInv, Queued, Submitting, Save, TypeOK, TasksOK
<1>9. BuildInv' /\ RowInv' /\ SuccessIsSaved' /\ RowHasOwner'
  BY <1>2, <1>3, <1>5
     DEF IInv, BuildInv, RowInv, SuccessIsSaved, RowHasOwner, Save, TypeOK, TasksOK
<1>10. EarlyInv'
  BY <1>2, <1>3, <1>4, <1>5
     DEF IInv, EarlyInv, Unfinished, TypeOK, TasksOK, Statuses, TERMINAL_STATUSES
<1> QED BY <1>6, <1>7, <1>8, <1>9, <1>10 DEF IInv

\* The end of a save that leaves everything but the row as it is.
LEMMA OnlySaved ==
  ASSUME IInv, NEW v, Saved(v) \/ SaveFails(v),
         UNCHANGED <<stage, memVars, deleting, kept>>
  PROVE  /\ TasksOK' /\ LockOK' /\ faults' \in 0..MaxFaults
         /\ SaveInv' /\ KnownInv' /\ QueueInv' /\ BuildInv' /\ RowInv' /\ RowHasOwner'
<1> USE DEF memVars
<1>1. TasksOK' /\ LockOK' /\ faults' \in 0..MaxFaults
  <2>1. TasksOK'
    BY RowsAfterSave DEF IInv, TypeOK, TasksOK
  <2>2. LockOK' /\ faults' \in 0..MaxFaults
    BY SaveEnds DEF LockOK
  <2> QED BY <2>1, <2>2
<1>2. SaveInv' /\ KnownInv' /\ QueueInv' /\ BuildInv'
  BY SaveEnds DEF IInv, SaveInv, KnownInv, QueueInv, Queued, Submitting, BuildInv
<1> QED BY <1>1, <1>2, RowsAfterSave

LEMMA CancelSavedInv ==
  ASSUME IInv, NEW t \in Tasks, CancelSaved(t)
  PROVE  IInv'
<1>1. PICK v \in saves : Saved(v) \/ SaveFails(v)
  BY DEF CancelSaved
<1>2. UNCHANGED <<stage, memVars, deleting, workerVars, histVars>>
  BY DEF CancelSaved
<1>3. TypeOK'
  BY <1>1, <1>2, OnlySaved DEF IInv, TypeOK, WorkersOK, workerVars, histVars
<1>4. HeldInv' /\ PlaceInv' /\ EarlyInv'
  BY <1>1, <1>2, SaveEnds
     DEF IInv, HeldInv, PlaceInv, EarlyInv, Queued, Submitting, memVars, workerVars, histVars
<1>5. SuccessIsSaved'
  BY <1>1, <1>2, RowsAfterSave DEF IInv, SuccessIsSaved, memVars, workerVars, histVars
<1> QED BY <1>1, <1>2, <1>3, <1>4, <1>5, OnlySaved DEF IInv, histVars

LEMMA DeleteInv ==
  ASSUME IInv, NEW t \in Tasks, Delete(t)
  PROVE  IInv'
<1>1. /\ stage = "up" /\ saves = {} /\ t \in known
      /\ known' = known \ {t} /\ deleting' = deleting \union {t}
      /\ UNCHANGED <<stage, lock, task, queue, db, saves, pc, cur, target, faults, early, stuck, kept>>
  BY DEF Delete, dbVars, workerVars, histVars, IInv, TypeOK, LockOK
<1> USE <1>1 DEF IInv
<1>2. TypeOK' /\ SaveInv' /\ KnownInv'
  BY DEF TypeOK, TasksOK, LockOK, WorkersOK, SaveInv, KnownInv
<1>3. QueueInv' /\ HeldInv' /\ PlaceInv' /\ EarlyInv'
  BY DEF QueueInv, HeldInv, PlaceInv, EarlyInv, Queued, Submitting
<1>4. BuildInv' /\ RowInv' /\ SuccessIsSaved' /\ RowHasOwner'
  BY DEF BuildInv, RowInv, SuccessIsSaved, RowHasOwner
<1> QED BY <1>2, <1>3, <1>4

LEMMA RowDeletedInv ==
  ASSUME IInv, NEW t \in Tasks, RowDeleted(t)
  PROVE  IInv'
<1>1. /\ t \in deleting /\ t \notin known /\ deleting' = deleting \ {t}
      /\ UNCHANGED <<stage, lock, known, task, queue, saves, pc, cur, target, early, stuck>>
      /\ faults' \in 0..MaxFaults /\ faults <= faults'
      /\ \/ db' = [db EXCEPT ![t] = "absent"] /\ UNCHANGED kept
         \/ kept' = kept \union {t} /\ UNCHANGED db
  BY FaultsAssumption DEF RowDeleted, memVars, workerVars, IInv, TypeOK, KnownInv
<1> USE <1>1 DEF IInv
<1>2. TypeOK' /\ SaveInv' /\ KnownInv'
  BY DEF TypeOK, TasksOK, LockOK, WorkersOK, SaveInv, KnownInv
<1>3. QueueInv' /\ HeldInv' /\ PlaceInv' /\ EarlyInv' /\ BuildInv'
  BY DEF QueueInv, HeldInv, PlaceInv, EarlyInv, BuildInv, Queued, Submitting
<1>4. \A u \in Tasks : db'[u] = db[u] \/ (u = t /\ db'[u] = "absent") \/ (u = t /\ t \in kept')
  BY DEF TypeOK, TasksOK
<1>5. RowInv'
  <2>1. faults' = 0 => faults = 0
    BY DEF TypeOK
  <2> QED BY <1>4, <2>1 DEF RowInv, TypeOK, TasksOK
<1>6. SuccessIsSaved'
  BY <1>4 DEF SuccessIsSaved, TypeOK, TasksOK
<1>7. RowHasOwner'
  BY <1>4 DEF RowHasOwner, TypeOK, TasksOK, Active
<1> QED BY <1>2, <1>3, <1>5, <1>6, <1>7

-----------------------------------------------------------------------------
(* The worker.                                                             *)

LEMMA GetInv ==
  ASSUME IInv, NEW w \in Workers, Get(w)
  PROVE  IInv'
<1>0. PICK t : t = Head(queue)
  OBVIOUS
<1>1. /\ pc[w] = "get" /\ stage = "up" /\ queue # <<>> /\ queue' = Tail(queue)
      /\ cur' = [cur EXCEPT ![w] = t] /\ pc' = [pc EXCEPT ![w] = "lookup"]
      /\ UNCHANGED <<stage, lock, known, task, db, saves, deleting, target, faults, early, stuck, kept>>
  BY <1>0 DEF Get, Goto, dbVars, histVars
<1>2. /\ queue' \in Seq(Tasks) /\ t \in Tasks /\ Queued(t) /\ ~Queued(t)' /\ IsInjective(queue')
      /\ \A u \in Tasks : Queued(u)' => Queued(u)
  <2>1. /\ queue \in Seq(Tasks) /\ 1 \in 1..Len(queue) /\ t = queue[1]
        /\ queue' \in Seq(Tasks) /\ Len(queue') = Len(queue) - 1
        /\ \A i \in 1..Len(queue') : queue'[i] = queue[i + 1] /\ i + 1 \in 1..Len(queue)
    BY <1>0, <1>1 DEF IInv, TypeOK, TasksOK
  <2>2. \A i, j \in 1..Len(queue) : queue[i] = queue[j] => i = j
    <3>1. IsInjective(queue)
      BY DEF IInv, TypeOK, TasksOK
    <3>2. DOMAIN queue = 1..Len(queue)
      BY <2>1
    <3> QED BY ONLY <3>1, <3>2 DEF IsInjective
  <2>3. IsInjective(queue')
    <3>1. DOMAIN queue' = 1..Len(queue')
      BY <2>1
    <3> QED BY <2>1, <2>2, <3>1 DEF IsInjective
  <2>4. ~Queued(t)'
    <3> SUFFICES ASSUME NEW i \in 1..Len(queue'), queue'[i] = t PROVE FALSE
      BY DEF Queued
    <3>1. i + 1 = 1
      BY <2>1, <2>2
    <3> QED BY <3>1
  <2>5. t \in Tasks /\ Queued(t) /\ \A u \in Tasks : Queued(u)' => Queued(u)
    BY <2>1 DEF Queued
  <2> QED BY <2>1, <2>3, <2>4, <2>5
<1>3. /\ ~Submitting(t) /\ task[t].status # "none" /\ (t \in known => task[t].status = "pending")
      /\ \A x \in Workers : cur[x] # t
  BY <1>2 DEF IInv, QueueInv, HeldInv
<1>4. TypeOK' /\ SaveInv' /\ KnownInv'
  BY <1>1, <1>2 DEF IInv, TypeOK, TasksOK, LockOK, WorkersOK, SaveInv, KnownInv
<1>5. QueueInv'
  BY <1>1, <1>2 DEF IInv, QueueInv, Submitting
<1>6. HeldInv'
  <2>1. \A u \in Tasks : Submitting(u)' <=> Submitting(u)
    BY <1>1 DEF Submitting
  <2>2. \A x \in Workers : cur'[x] = IF x = w THEN t ELSE cur[x]
    BY <1>1 DEF IInv, TypeOK, WorkersOK
  <2>3. \A x \in Workers : pc'[x] = IF x = w THEN "lookup" ELSE pc[x]
    BY <1>1 DEF IInv, TypeOK, WorkersOK
  <2> QED BY <1>1, <1>2, <1>3, <2>1, <2>2, <2>3 DEF IInv, HeldInv
<1>7. PlaceInv' /\ EarlyInv'
  BY <1>1, <1>2, <1>3 DEF IInv, PlaceInv, EarlyInv, TypeOK, WorkersOK
<1>8. BuildInv' /\ RowInv' /\ RowHasOwner'
  BY <1>1 DEF IInv, BuildInv, RowInv, RowHasOwner
<1>9. SuccessIsSaved'
  BY <1>1, NoTaskAssumption DEF IInv, SuccessIsSaved, HeldInv, TypeOK, WorkersOK, TasksOK
<1> QED BY <1>4, <1>5, <1>6, <1>7, <1>8, <1>9 DEF IInv

\* A step of one worker that keeps its task and touches nothing shared.
LEMMA WorkerMoves ==
  ASSUME IInv, WorkersOK', PlaceInv',
         UNCHANGED <<stage, lock, memVars, dbVars, deleting, faults, histVars>>,
         NEW w \in Workers, cur' = cur \/ cur' = [cur EXCEPT ![w] = NoTask],
         cur'[w] = NoTask => cur[w] \notin known \/ cur[w] = NoTask,
         cur'[w] = NoTask <=> pc'[w] = "get", pc'[w] # "stopped",
         \A x \in Workers \ {w} : pc'[x] = pc[x],
         \A t \in early : cur[w] = t /\ pc'[w] = "conclude" => target'[w] # "success",
         \A x \in Workers \ {w} : target'[x] = target[x]
  PROVE  IInv'
<1> USE DEF IInv, memVars, dbVars, histVars
<1>1. TypeOK' /\ SaveInv' /\ KnownInv' /\ QueueInv' /\ BuildInv' /\ RowInv' /\ RowHasOwner'
  BY DEF TypeOK, TasksOK, LockOK, SaveInv, KnownInv, QueueInv, Queued, Submitting, BuildInv,
         RowInv, RowHasOwner
<1>2. /\ \A u \in Tasks : (Queued(u)' <=> Queued(u)) /\ (Submitting(u)' <=> Submitting(u))
      /\ \A x \in Workers : cur'[x] = cur[x] \/ (x = w /\ cur'[x] = NoTask)
  BY DEF Queued, Submitting, TypeOK, WorkersOK
<1>3. HeldInv'
  BY <1>2, NoTaskAssumption DEF HeldInv, TypeOK, WorkersOK
<1>4. EarlyInv'
  BY <1>2, NoTaskAssumption DEF EarlyInv, TypeOK
<1>5. SuccessIsSaved'
  BY <1>2, NoTaskAssumption DEF SuccessIsSaved, TypeOK, TasksOK
<1> QED BY <1>1, <1>3, <1>4, <1>5

LEMMA LookupInv ==
  ASSUME IInv, NEW w \in Workers, Lookup(w)
  PROVE  IInv'
<1>1. WorkersOK'
  BY DEF Lookup, Idle, Goto, Aim, IInv, TypeOK, WorkersOK, TERMINAL_STATUSES
<1>2. PlaceInv'
  BY NoTaskAssumption
     DEF Lookup, Idle, Goto, Aim, IInv, TypeOK, WorkersOK, TasksOK, PlaceInv, memVars
<1>3. cur[w] \in Tasks /\ cur[w] # NoTask
  BY NoTaskAssumption DEF Lookup, IInv, HeldInv
<1> QED
  BY <1>1, <1>2, <1>3, WorkerMoves DEF Lookup, Idle, Goto, Aim, IInv, TypeOK, WorkersOK

LEMMA CoroutineEndsInv ==
  ASSUME IInv, NEW w \in Workers, CoroutineEnds(w)
  PROVE  IInv'
<1>1. WorkersOK'
  BY DEF CoroutineEnds, Result, Goto, Aim, IInv, TypeOK, WorkersOK, TERMINAL_STATUSES
<1>2. PlaceInv'
  BY DEF CoroutineEnds, Result, Goto, Aim, IInv, TypeOK, WorkersOK, PlaceInv, memVars
<1>3. cur[w] \in Tasks /\ cur[w] # NoTask
  BY NoTaskAssumption DEF CoroutineEnds, IInv, HeldInv
<1>4. ASSUME NEW t \in early, cur[w] = t, pc'[w] = "conclude" PROVE target'[w] # "success"
  BY <1>4 DEF CoroutineEnds, Result, Goto, Aim, IInv, EarlyInv, TypeOK, WorkersOK
<1> QED
  BY <1>1, <1>2, <1>3, <1>4, WorkerMoves DEF CoroutineEnds, Goto, Aim, IInv, TypeOK, WorkersOK

\* A worker gives its task, which is registered, a new status and starts the save.
LEMMA WorkerUpdates ==
  ASSUME IInv, WorkersOK', NEW w \in Workers, cur[w] \in known, NEW s \in Statuses, Update(w, s),
         UNCHANGED <<stage, known, queue, db, deleting, cur, target, faults, histVars>>,
         s \in Active => task[cur[w]].status \in Active,
         pc[w] \notin {"get", "stopped"}, pc'[w] \notin {"get", "stopped", "conclude"},
         \A x \in Workers \ {w} : pc'[x] = pc[x],
         cur[w] \in early => s # "success",
         pc'[w] \in {"settle", "settleSave"} => target[w] # "success",
         pc'[w] \in {"lookup", "start"} => s = "pending",
         pc'[w] \in {"startSave", "run", "runSave", "conclude"} => s = "running"
  PROVE  IInv'
<1>0. PICK t \in known : t = cur[w] /\ t \in Tasks
  BY DEF IInv, TypeOK, TasksOK
<1>1. PICK new : new = [task[t] EXCEPT !.status = s] /\ Change(w, t, new)
  BY <1>0 DEF Update
<1>2. /\ saves = {} /\ stage # "stopping" /\ saves' = {Save(w, t, new.status)} /\ lock' = TRUE
      /\ task' = [task EXCEPT ![t] = new]
  <2>1. t \in Tasks /\ Change(w, t, new)
    BY <1>0, <1>1
  <2> QED BY <2>1 DEF Change, IInv, TypeOK, LockOK
<1> USE DEF IInv, histVars
<1>3. /\ new.status = s /\ new.payload = task[t].payload /\ new.cancel = task[t].cancel
      /\ new \in [status : Statuses \union {"none", "gone"}, cancel : BOOLEAN,
                  payload : Kbs \union {Plain}]
  BY <1>0, <1>1 DEF TypeOK, TasksOK
<1>4. \A u \in Tasks : /\ task'[u].status = IF u = t THEN s ELSE task[u].status
                       /\ task'[u].payload = task[u].payload /\ task'[u].cancel = task[u].cancel
  BY <1>0, <1>2, <1>3 DEF TypeOK, TasksOK
<1>6. stage = "up"
  BY <1>0, <1>2 DEF TypeOK, KnownInv
<1>7. TypeOK'
  BY <1>0, <1>2, <1>3, <1>6 DEF TypeOK, TasksOK, LockOK, Save
<1>8. SaveInv' /\ KnownInv'
  BY <1>0, <1>2, <1>3, <1>4, <1>6 DEF SaveInv, KnownInv, Save, TypeOK, TasksOK
<1>9. ~Queued(t) /\ \A x \in Workers : cur[x] = t => x = w
  BY <1>0 DEF HeldInv
<1>10. QueueInv'
  BY <1>2, <1>4, <1>9, WorkersAssumption DEF QueueInv, Queued, Submitting, Save
<1>11. HeldInv'
  BY <1>0, <1>2, <1>4, <1>9, WorkersAssumption
     DEF HeldInv, Queued, Submitting, Save, TypeOK, WorkersOK, Statuses, TERMINAL_STATUSES
<1>12. PlaceInv'
  BY <1>0, <1>4, <1>9 DEF PlaceInv, TypeOK, TasksOK
<1>13. BuildInv'
  BY <1>0, <1>4 DEF BuildInv, TypeOK, TasksOK
<1>14. RowInv' /\ SuccessIsSaved' /\ RowHasOwner'
  BY <1>0, <1>2, <1>4 DEF RowInv, SuccessIsSaved, RowHasOwner, Save, TypeOK, TasksOK
<1>15. EarlyInv'
  BY <1>0, <1>4, <1>9
     DEF EarlyInv, TypeOK, TasksOK, Statuses, TERMINAL_STATUSES
<1> QED BY <1>7, <1>8, <1>10, <1>11, <1>12, <1>13, <1>14, <1>15

LEMMA StartInv ==
  ASSUME IInv, NEW w \in Workers, Start(w)
  PROVE  IInv'
<1>1. pc[w] = "start" /\ cur[w] \in Tasks /\ cur[w] # NoTask
  BY NoTaskAssumption DEF Start, IInv, HeldInv
<1>2. WorkersOK'
  BY DEF Start, Goto, IInv, TypeOK, WorkersOK
<1>3. CASE cur[w] \in known
  <2>1. task[cur[w]].status = "pending"
    BY <1>1, <1>3 DEF IInv, PlaceInv
  <2>2. /\ Update(w, "running") /\ pc' = [pc EXCEPT ![w] = "startSave"]
        /\ UNCHANGED <<stage, known, queue, db, deleting, cur, target, faults, histVars>>
    BY <1>3 DEF Start, Goto
  <2> QED
    BY <1>1, <1>2, <1>3, <2>1, <2>2, WorkerUpdates DEF IInv, TypeOK, WorkersOK, Active, Statuses
<1>4. CASE cur[w] \notin known
  <2>1. /\ pc' = [pc EXCEPT ![w] = "run"]
        /\ UNCHANGED <<stage, lock, memVars, dbVars, deleting, cur, target, faults, histVars>>
    BY <1>4 DEF Start, Goto, memVars, dbVars
  <2>2. PlaceInv'
    BY <1>4, <2>1 DEF IInv, TypeOK, WorkersOK, PlaceInv, memVars
  <2> QED BY <1>1, <1>2, <1>4, <2>1, <2>2, WorkerMoves DEF IInv, TypeOK, WorkersOK
<1> QED BY <1>3, <1>4

LEMMA ProgressInv ==
  ASSUME IInv, NEW w \in Workers, Progress(w)
  PROVE  IInv'
<1>1. /\ pc[w] = "run" /\ cur[w] \in known /\ Update(w, task[cur[w]].status)
      /\ pc' = [pc EXCEPT ![w] = "runSave"]
      /\ UNCHANGED <<stage, known, queue, db, deleting, cur, target, faults, histVars>>
  BY DEF Progress, Goto
<1>2. WorkersOK'
  BY <1>1 DEF IInv, TypeOK, WorkersOK
<1>3. task[cur[w]].status = "running"
  BY <1>1 DEF IInv, PlaceInv
<1> QED
  BY <1>1, <1>2, <1>3, WorkerUpdates DEF IInv, TypeOK, WorkersOK, Statuses

LEMMA FinishInv ==
  ASSUME IInv, NEW w \in Workers, Finish(w)
  PROVE  IInv'
<1>1. pc[w] \in {"conclude", "settle"} /\ cur[w] \in Tasks /\ cur[w] # NoTask
  BY NoTaskAssumption DEF Finish, IInv, HeldInv
<1>2. WorkersOK'
  BY DEF Finish, Goto, Idle, IInv, TypeOK, WorkersOK
<1>3. CASE cur[w] \in known
  <2>1. /\ Update(w, target[w])
        /\ pc' = [pc EXCEPT ![w] = IF pc[w] = "conclude" THEN "concludeSave" ELSE "settleSave"]
        /\ UNCHANGED <<stage, known, queue, db, deleting, cur, target, faults, histVars>>
    BY <1>3 DEF Finish, Goto
  <2>2. target[w] \in Statuses /\ target[w] \notin Active
    BY DEF IInv, TypeOK, WorkersOK, Statuses, TERMINAL_STATUSES, Active
  <2>3. cur[w] \in early => target[w] # "success"
    BY <1>1 DEF IInv, EarlyInv, PlaceInv
  <2>4. pc'[w] \in {"settle", "settleSave"} => target[w] # "success"
    BY <1>1, <2>1 DEF IInv, PlaceInv, TypeOK, WorkersOK
  <2> QED
    BY <1>1, <1>2, <1>3, <2>1, <2>2, <2>3, <2>4, WorkerUpdates DEF IInv, TypeOK, WorkersOK
<1>4. CASE cur[w] \notin known
  <2>1. /\ pc' = [pc EXCEPT ![w] = "get"] /\ cur' = [cur EXCEPT ![w] = NoTask]
        /\ UNCHANGED <<stage, lock, memVars, dbVars, deleting, target, faults, histVars>>
    BY <1>4 DEF Finish, Idle, Goto, memVars, dbVars
  <2>2. PlaceInv'
    BY <1>4, <2>1, NoTaskAssumption DEF IInv, TypeOK, TasksOK, WorkersOK, PlaceInv, memVars
  <2> QED BY <1>1, <1>2, <1>4, <2>1, <2>2, WorkerMoves DEF IInv, TypeOK, WorkersOK
<1> QED BY <1>3, <1>4

\* The save of a worker returns, and the worker goes on with its task or drops it.
LEMMA WorkerSaved ==
  ASSUME IInv, WorkersOK', PlaceInv', NEW w \in Workers, NEW v, Saved(v) \/ SaveFails(v),
         UNCHANGED <<stage, memVars, deleting, early, kept>>, stuck' \subseteq Tasks,
         cur' = cur \/ cur' = [cur EXCEPT ![w] = NoTask],
         cur'[w] = NoTask <=> pc'[w] = "get", pc'[w] \notin {"stopped", "conclude"},
         \A x \in Workers \ {w} : pc'[x] = pc[x] /\ target'[x] = target[x],
         cur'[w] = NoTask /\ cur[w] \in known /\ task[cur[w]].status = "success" =>
            db'[cur[w]] = "success"
  PROVE  IInv'
<1>1. /\ TasksOK' /\ LockOK' /\ faults' \in 0..MaxFaults
      /\ SaveInv' /\ KnownInv' /\ QueueInv' /\ BuildInv' /\ RowInv' /\ RowHasOwner'
  BY OnlySaved
<1>2. TypeOK'
  BY <1>1 DEF IInv, TypeOK
<1>3. saves' = {} /\ \A t \in known : task[t].status = "success" /\ db[t] = "success" => db'[t] = "success"
  BY SaveEnds, RowsAfterSave DEF memVars
<1>4. \A x \in Workers : cur'[x] = cur[x] \/ (x = w /\ cur'[x] = NoTask)
  BY DEF IInv, TypeOK, WorkersOK
<1>5. HeldInv'
  BY <1>3, <1>4, NoTaskAssumption DEF IInv, HeldInv, Queued, Submitting, TypeOK, WorkersOK, memVars
<1>6. EarlyInv'
  BY <1>4, NoTaskAssumption DEF IInv, EarlyInv, TypeOK, memVars
<1>7. SuccessIsSaved'
  BY <1>3, <1>4, NoTaskAssumption DEF IInv, SuccessIsSaved, TypeOK, TasksOK, memVars
<1> QED BY <1>1, <1>2, <1>5, <1>6, <1>7 DEF IInv

LEMMA StartSavedInv ==
  ASSUME IInv, NEW w \in Workers, StartSaved(w)
  PROVE  IInv'
<1> DEFINE v == Save(w, cur[w], "running")
<1>1. /\ Saved(v) \/ SaveFails(v)
      /\ UNCHANGED <<stage, memVars, deleting, early, kept>>
      /\ pc[w] = "startSave"
  BY DEF StartSaved
<1>2. cur[w] \in Tasks /\ cur[w] # NoTask
  BY <1>1, NoTaskAssumption DEF IInv, HeldInv
<1>3. task[cur[w]].status = "running"
  <2>1. v.task = cur[w] /\ v.status = "running"
    BY DEF Save
  <2>2. v.status = task[v.task].status
    BY <1>1, SaveEnds
  <2> QED BY <2>1, <2>2
<1> HIDE DEF v
<1>4. stuck' \subseteq Tasks
  BY <1>2 DEF StartSaved, IInv, TypeOK
<1>5. \/ pc' = [pc EXCEPT ![w] = "run"] /\ UNCHANGED <<cur, target>>
      \/ pc' = [pc EXCEPT ![w] = "get"] /\ cur' = [cur EXCEPT ![w] = NoTask] /\ UNCHANGED target
  BY DEF StartSaved, Goto, Idle
<1>6. WorkersOK'
  BY <1>5 DEF IInv, TypeOK, WorkersOK
<1>7. PlaceInv'
  BY <1>1, <1>3, <1>5, NoTaskAssumption DEF IInv, TypeOK, WorkersOK, TasksOK, PlaceInv, memVars
<1>8. \A x \in Workers \ {w} : pc'[x] = pc[x] /\ target'[x] = target[x]
  BY <1>5 DEF IInv, TypeOK, WorkersOK
<1>9. (cur'[w] = NoTask <=> pc'[w] = "get") /\ pc'[w] \notin {"stopped", "conclude"}
  BY <1>2, <1>5 DEF IInv, TypeOK, WorkersOK
<1> QED
  BY <1>1, <1>3, <1>4, <1>5, <1>6, <1>7, <1>8, <1>9, WorkerSaved

LEMMA ProgressSavedInv ==
  ASSUME IInv, NEW w \in Workers, ProgressSaved(w)
  PROVE  IInv'
<1>1. PICK v \in saves : /\ Saved(v) \/ SaveFails(v)
                         /\ \/ pc' = [pc EXCEPT ![w] = "run"] /\ UNCHANGED target
                            \/ /\ pc' = [pc EXCEPT ![w] = "settle"]
                               /\ target' = [target EXCEPT ![w] = "failed"]
  BY DEF ProgressSaved, Goto, Aim
<1>2. pc[w] = "runSave" /\ UNCHANGED <<stage, memVars, deleting, cur, early, stuck, kept>>
  BY DEF ProgressSaved, histVars
<1>3. cur[w] \in Tasks /\ cur[w] # NoTask
  BY <1>2, NoTaskAssumption DEF IInv, HeldInv
<1>4. WorkersOK'
  BY <1>1, <1>2 DEF IInv, TypeOK, WorkersOK, TERMINAL_STATUSES
<1>5. PlaceInv'
  BY <1>1, <1>2 DEF IInv, TypeOK, WorkersOK, PlaceInv, memVars
<1>6. \A x \in Workers \ {w} : pc'[x] = pc[x] /\ target'[x] = target[x]
  BY <1>1 DEF IInv, TypeOK, WorkersOK
<1>7. (cur'[w] = NoTask <=> pc'[w] = "get") /\ pc'[w] \notin {"stopped", "conclude"}
  BY <1>1, <1>2, <1>3 DEF IInv, TypeOK, WorkersOK
<1>8. stuck' \subseteq Tasks /\ cur'[w] # NoTask
  BY <1>2, <1>3 DEF IInv, TypeOK
<1> QED
  BY <1>1, <1>2, <1>4, <1>5, <1>6, <1>7, <1>8, WorkerSaved

LEMMA FinishSavedInv ==
  ASSUME IInv, NEW w \in Workers, FinishSaved(w)
  PROVE  IInv'
<1> DEFINE v == Save(w, cur[w], target[w])
<1>1. /\ Saved(v) \/ SaveFails(v)
      /\ UNCHANGED <<stage, memVars, deleting, early, stuck, kept>>
      /\ pc[w] \in {"concludeSave", "settleSave"}
  BY DEF FinishSaved, histVars
<1>2. cur[w] \in Tasks /\ cur[w] # NoTask
  BY <1>1, NoTaskAssumption DEF IInv, HeldInv
<1>3. task[cur[w]].status = target[w] /\ (Saved(v) => db' = [db EXCEPT ![cur[w]] = target[w]])
  <2>1. v.task = cur[w] /\ v.status = target[w]
    BY DEF Save
  <2>2. v.status = task[v.task].status
    BY <1>1, SaveEnds
  <2>3. Saved(v) => db' = [db EXCEPT ![v.task] = v.status]
    BY DEF Saved, Stored
  <2> QED BY <2>1, <2>2, <2>3
<1> HIDE DEF v
<1>4. \/ /\ pc' = [pc EXCEPT ![w] = "get"] /\ cur' = [cur EXCEPT ![w] = NoTask] /\ UNCHANGED target
         /\ Saved(v) \/ pc[w] = "settleSave"
      \/ /\ pc' = [pc EXCEPT ![w] = "settle"] /\ target' = [target EXCEPT ![w] = "failed"]
         /\ UNCHANGED cur
  BY DEF v, FinishSaved, Goto, Idle, Aim, Concluding
<1>5. WorkersOK'
  BY <1>4 DEF IInv, TypeOK, WorkersOK, TERMINAL_STATUSES
<1>6. PlaceInv'
  BY <1>1, <1>4, NoTaskAssumption DEF IInv, TypeOK, WorkersOK, TasksOK, PlaceInv, memVars
<1>7. \A x \in Workers \ {w} : pc'[x] = pc[x] /\ target'[x] = target[x]
  BY <1>4 DEF IInv, TypeOK, WorkersOK
<1>8. (cur'[w] = NoTask <=> pc'[w] = "get") /\ pc'[w] \notin {"stopped", "conclude"}
  BY <1>2, <1>4 DEF IInv, TypeOK, WorkersOK
<1>9. cur'[w] = NoTask /\ task[cur[w]].status = "success" => db'[cur[w]] = "success"
  <2> SUFFICES ASSUME cur'[w] = NoTask, target[w] = "success" PROVE db'[cur[w]] = "success"
    BY <1>3
  <2>1. Saved(v)
    BY <1>2, <1>4 DEF IInv, PlaceInv
  <2> QED BY <1>2, <1>3, <2>1 DEF IInv, TypeOK, TasksOK
<1>10. stuck' \subseteq Tasks
  BY <1>1 DEF IInv, TypeOK
<1>11. cur' = cur \/ cur' = [cur EXCEPT ![w] = NoTask]
  BY <1>4
<1> QED
  BY <1>1, <1>5, <1>6, <1>7, <1>8, <1>9, <1>10, <1>11, WorkerSaved

-----------------------------------------------------------------------------
(* The process.                                                            *)

LEMMA ShutdownInv ==
  ASSUME IInv, Shutdown
  PROVE  IInv'
<1>1. /\ stage' = "stopping" /\ lock' = TRUE /\ saves = {} /\ stage = "up"
      /\ pc' = [w \in Workers |-> IF pc[w] \in {"run", "conclude"} THEN "settle" ELSE "stopped"]
      /\ target' = [w \in Workers |-> "cancelled"]
      /\ UNCHANGED <<known, task, queue, db, saves, deleting, cur, faults, early, stuck, kept>>
  BY DEF Shutdown, Quiet, memVars, dbVars, histVars
<1> USE <1>1 DEF IInv
<1>2. TypeOK' /\ SaveInv' /\ KnownInv'
  BY DEF TypeOK, TasksOK, LockOK, WorkersOK, TERMINAL_STATUSES, SaveInv, KnownInv
<1>3. QueueInv' /\ HeldInv' /\ PlaceInv' /\ EarlyInv'
  BY DEF QueueInv, HeldInv, PlaceInv, EarlyInv, Queued, Submitting
<1>4. BuildInv' /\ RowInv' /\ SuccessIsSaved' /\ RowHasOwner'
  BY DEF BuildInv, RowInv, SuccessIsSaved, RowHasOwner
<1> QED BY <1>2, <1>3, <1>4

\* A process that is gone leaves nothing but the rows.
LEMMA DownInv ==
  ASSUME IInv, stage' = "down", Forget, faults' \in 0..MaxFaults,
         db' \in [Tasks -> Statuses \union {"absent"}]
  PROVE  IInv'
<1> USE DEF IInv, Forget
<1>1. TasksOK'
  <2>1. queue' \in Seq(Tasks) /\ IsInjective(queue')
    BY DEF IsInjective
  <2> QED BY <2>1 DEF TasksOK, New
<1>2. LockOK' /\ WorkersOK'
  BY DEF LockOK, WorkersOK, TERMINAL_STATUSES
<1>3. TypeOK'
  BY <1>1, <1>2 DEF TypeOK
<1>4. SaveInv' /\ KnownInv' /\ QueueInv' /\ HeldInv' /\ PlaceInv'
  BY NoTaskAssumption
     DEF SaveInv, KnownInv, QueueInv, HeldInv, PlaceInv, Queued, Submitting
<1>5. BuildInv' /\ RowInv' /\ EarlyInv' /\ SuccessIsSaved' /\ RowHasOwner'
  BY DEF BuildInv, RowInv, EarlyInv, SuccessIsSaved, RowHasOwner
<1> QED BY <1>3, <1>4, <1>5

LEMMA ShutdownDoneInv ==
  ASSUME IInv, ShutdownDone
  PROVE  IInv'
<1>1. /\ stage' = "down" /\ Forget /\ faults' \in 0..MaxFaults
      /\ db' \in [Tasks -> Statuses \union {"absent"}]
  BY DEF ShutdownDone, IInv, TypeOK, TasksOK
<1> QED BY <1>1, DownInv

LEMMA CrashInv ==
  ASSUME IInv, Crash
  PROVE  IInv'
<1>1. db' \in [Tasks -> Statuses \union {"absent"}]
  <2>1. PICK e \in {db} \union {Stored(v) : v \in saves}, D \in SUBSET deleting :
           db' = [t \in Tasks |-> IF t \in D THEN "absent" ELSE e[t]]
    BY DEF Crash
  <2>2. e \in [Tasks -> Statuses \union {"absent"}]
    BY DEF IInv, TypeOK, TasksOK, LockOK, Stored
  <2> QED BY <2>1, <2>2
<1>2. stage' = "down" /\ Forget /\ faults' \in 0..MaxFaults
  BY DEF Crash, IInv, TypeOK
<1> QED BY <1>1, <1>2, DownInv

LEMMA RestartInv ==
  ASSUME IInv, Restart
  PROVE  IInv'
<1>1. PICK S \in SUBSET Unswept :
         /\ db' = [t \in Tasks |-> IF t \in S THEN "failed" ELSE db[t]]
         /\ stage' \in {"up", "down"} /\ (stage' = "up" => S = Unswept)
  BY DEF Restart, Sweep, IInv, TypeOK
<1>2. /\ stage = "down" /\ saves = {} /\ known = {} /\ lock = FALSE /\ faults' \in 0..MaxFaults
      /\ UNCHANGED <<lock, known, task, queue, saves, deleting, pc, cur, target, early, stuck, kept>>
  BY FaultsAssumption
     DEF Restart, memVars, workerVars, histVars, IInv, TypeOK, SaveInv, KnownInv, LockOK
<1> USE <1>1, <1>2 DEF IInv
<1>3. TasksOK'
  BY DEF TypeOK, TasksOK, Statuses, TERMINAL_STATUSES
<1>4. TypeOK' /\ SaveInv' /\ KnownInv'
  BY <1>3 DEF TypeOK, LockOK, WorkersOK, SaveInv, KnownInv
<1>5. QueueInv' /\ HeldInv' /\ PlaceInv' /\ EarlyInv'
  BY DEF QueueInv, HeldInv, PlaceInv, EarlyInv, Queued, Submitting
<1>6. BuildInv' /\ RowInv' /\ SuccessIsSaved' /\ RowHasOwner'
  BY DEF BuildInv, RowInv, SuccessIsSaved, RowHasOwner, Unswept, Active
<1> QED BY <1>4, <1>5, <1>6

LEMMA StutterInv ==
  ASSUME IInv, UNCHANGED vars
  PROVE  IInv'
<1> USE DEF IInv, vars, memVars, dbVars, workerVars, histVars
<1>1. TypeOK' /\ SaveInv' /\ KnownInv'
  BY DEF TypeOK, TasksOK, LockOK, WorkersOK, SaveInv, KnownInv
<1>2. QueueInv' /\ HeldInv' /\ PlaceInv' /\ EarlyInv'
  BY DEF QueueInv, HeldInv, PlaceInv, EarlyInv, Queued, Submitting
<1>3. BuildInv' /\ RowInv' /\ SuccessIsSaved' /\ RowHasOwner'
  BY DEF BuildInv, RowInv, SuccessIsSaved, RowHasOwner
<1> QED BY <1>1, <1>2, <1>3

-----------------------------------------------------------------------------
(* The theorems.                                                           *)

LEMMA NextInv == IInv /\ [Next]_vars => IInv'
<1> SUFFICES ASSUME IInv, [Next]_vars PROVE IInv'
  OBVIOUS
<1>1. ASSUME NEW t \in Tasks, Call(t) \/ RowDeleted(t) PROVE IInv'
  BY <1>1, SubmitInv, CancelInv, DeleteInv, RowDeletedInv DEF Call
<1>2. ASSUME NEW w \in Workers, Advance(w) \/ Progress(w) PROVE IInv'
  BY <1>2, GetInv, LookupInv, StartInv, CoroutineEndsInv, FinishInv, ProgressInv DEF Advance
<1>3. CASE SaveReturns
  BY <1>3, SubmitSavedInv, CancelSavedInv, StartSavedInv, ProgressSavedInv, FinishSavedInv
     DEF SaveReturns
<1>4. CASE Shutdown \/ ShutdownDone \/ Crash \/ Restart
  BY <1>4, ShutdownInv, ShutdownDoneInv, CrashInv, RestartInv
<1>5. CASE UNCHANGED vars
  BY <1>5, StutterInv
<1> QED BY <1>1, <1>2, <1>3, <1>4, <1>5 DEF Next

LEMMA Invariant == Spec => []IInv
  BY InitInv, NextInv, PTL DEF Spec

\* Every variable keeps its type; at most one save of a row is under way, by the
\* holder of the lock, and no task is in the queue twice.
THEOREM TypeCorrect == Spec => []TypeOK
<1>1. IInv => TypeOK
  BY DEF IInv
<1> QED BY <1>1, Invariant, PTL

\* Without a failing call the rows agree with the objects whenever the lock is free:
\* no save overtakes another one (_update_task holds the lock over _persist_task).
THEOREM RowsAgree == Spec => []DbAgrees
<1>1. IInv => DbAgrees
  BY DEF IInv, RowInv, TypeOK, LockOK, DbAgrees
<1> QED BY <1>1, Invariant, PTL

\* A task that is reported as successful is successful in the database, whichever
\* calls failed.
THEOREM SuccessDurable == Spec => []SuccessIsSaved
<1>1. IInv => SuccessIsSaved
  BY DEF IInv
<1> QED BY <1>1, Invariant, PTL

\* An unfinished row belongs to a task of the running process or to a deletion: the
\* sweep of _load_state leaves none behind, however often starts and sweeps fail.
THEOREM NoRowAbandoned == Spec => []RowHasOwner
<1>1. IInv => RowHasOwner
  BY DEF IInv
<1> QED BY <1>1, Invariant, PTL

\* A cancel granted before the coroutine returned is never answered by a success.
THEOREM CancelWins == Spec => []CancelInTimeHonoured
<1>1. IInv => CancelInTimeHonoured
  BY DEF IInv, EarlyInv, CancelInTimeHonoured
<1> QED BY <1>1, Invariant, PTL

\* Builds of one knowledge base exclude each other as long as neither was deleted.
THEOREM OneBuild == Spec => []OneBuildUnlessDeleted
<1>1. IInv => OneBuildUnlessDeleted
  <2> SUFFICES ASSUME IInv, NEW kb \in Kbs, NEW w \in Executing(kb), NEW x \in Executing(kb),
                      cur[w] \in known, cur[x] \in known
               PROVE  w = x
    BY DEF OneBuildUnlessDeleted
  <2>1. task[cur[w]].status = "running" /\ task[cur[x]].status = "running"
    BY DEF IInv, PlaceInv, Executing
  <2>2. cur[w] = cur[x]
    BY <2>1 DEF IInv, BuildInv, Executing, Active
  <2> QED BY <2>2 DEF IInv, HeldInv, Executing, TypeOK, TasksOK
<1> QED BY <1>1, Invariant, PTL

\* No save, no sweep and no crash brings the row of a deleted task back.
THEOREM DeletionFinal == Spec => DeletedStaysDeleted
<1> DEFINE Gone(t) == task[t].status # "none" /\ t \notin known \union deleting /\ db[t] = "absent"
<1>1. IInv /\ [Next]_vars => [\A t \in Tasks : Gone(t) => db'[t] = "absent"]_vars
  <2> SUFFICES ASSUME IInv, Next, NEW t \in Tasks, Gone(t) PROVE db'[t] = "absent"
    OBVIOUS
  <2>1. ASSUME NEW v, Saved(v) \/ SaveFails(v) PROVE db'[t] = "absent"
    BY <2>1, SaveEnds DEF IInv, TypeOK, TasksOK
  <2>2. CASE SaveReturns
    <3>1. \E v : Saved(v) \/ SaveFails(v)
      BY <2>2 DEF SaveReturns, SubmitSaved, CancelSaved, StartSaved, ProgressSaved, FinishSaved
    <3> QED BY <2>1, <3>1
  <2>3. ASSUME NEW u \in Tasks, Call(u) PROVE db'[t] = "absent"
    BY <2>3 DEF Call, Submit, Cancel, Delete, dbVars
  <2>4. ASSUME NEW u \in Tasks, RowDeleted(u) PROVE db'[t] = "absent"
    BY <2>4 DEF RowDeleted, IInv, TypeOK, TasksOK
  <2>5. ASSUME NEW w \in Workers, Advance(w) \/ Progress(w) PROVE db'[t] = "absent"
    BY <2>5 DEF Advance, Get, Lookup, Start, CoroutineEnds, Finish, Progress, dbVars
  <2>6. CASE Shutdown \/ ShutdownDone
    BY <2>6 DEF Shutdown, ShutdownDone, dbVars
  <2>7. CASE Crash
    <3>1. PICK e \in {db} \union {Stored(v) : v \in saves}, D \in SUBSET deleting :
             db' = [u \in Tasks |-> IF u \in D THEN "absent" ELSE e[u]]
      BY <2>7 DEF Crash
    <3>2. e[t] = "absent"
      BY DEF Stored, IInv, SaveInv, TypeOK, TasksOK
    <3> QED BY <3>1, <3>2
  <2>8. CASE Restart
    <3>1. PICK S \in SUBSET Unswept : db' = [u \in Tasks |-> IF u \in S THEN "failed" ELSE db[u]]
      BY <2>8 DEF Restart, Sweep
    <3> QED BY <3>1 DEF Unswept, Active
  <2> QED BY <2>2, <2>3, <2>4, <2>5, <2>6, <2>7, <2>8 DEF Next
<1> QED BY <1>1, Invariant, PTL DEF Spec, DeletedStaysDeleted

-----------------------------------------------------------------------------
(* The life of a row.  What a save will write is the status of the object, *)
(* so the object may be ahead of its row by one step of that life, and by  *)
(* more only behind a failed save.                                         *)

RowsBehind(s) ==
    CASE s = "pending"   -> {"absent", "pending"}
      [] s = "running"   -> {"pending", "running"}
      [] s = "success"   -> {"running", "success"}
      [] s = "cancelled" -> {"pending", "running", "cancelled"}
      [] s = "failed"    -> Statuses

Unsaved == \A t \in Tasks : task[t].status = "none" => db[t] = "absent"
Lagging == \A t \in known : db[t] \in RowsBehind(task[t].status)

\* A task that is queued or with a worker has a row, and while its coroutine runs the
\* row says so: a worker whose first save failed has dropped the task.
Waiting == \A t \in known : Queued(t) => db[t] # "absent"
Employed(w) ==
    cur[w] \in known =>
        /\ pc[w] \in {"lookup", "start", "settle"} => db[cur[w]] # "absent"
        /\ pc[w] \in {"run", "runSave", "conclude"} => db[cur[w]] = "running"
        /\ pc[w] = "settle" /\ target[w] = "cancelled" => task[cur[w]].status \in Active

LifeInv == Unsaved /\ Lagging /\ Waiting /\ \A w \in Workers : Employed(w)

LEMMA BehindFacts ==
  ASSUME NEW s \in Statuses, NEW d \in RowsBehind(s)
  PROVE  /\ s \in RowsBehind(s) /\ s # "absent"
         /\ s \in TERMINAL_STATUSES => d # "absent"
         /\ IF d = "absent" THEN s = "pending" ELSE d = s \/ s \in Rows!After(d)
<1>1. CASE s = "pending"
  BY <1>1 DEF RowsBehind, TERMINAL_STATUSES, Rows!After
<1>2. CASE s = "running"
  BY <1>2 DEF RowsBehind, TERMINAL_STATUSES, Rows!After
<1>3. CASE s = "success"
  BY <1>3 DEF RowsBehind, TERMINAL_STATUSES, Rows!After
<1>4. CASE s = "cancelled"
  BY <1>4 DEF RowsBehind, TERMINAL_STATUSES, Rows!After
<1>5. CASE s = "failed"
  BY <1>5 DEF RowsBehind, Statuses, TERMINAL_STATUSES, Rows!After
<1> QED BY <1>1, <1>2, <1>3, <1>4, <1>5 DEF Statuses, TERMINAL_STATUSES

\* What the end of a save does to the rows.
LEMMA SavedRows ==
  ASSUME IInv, LifeInv, NEW v, Saved(v) \/ SaveFails(v), UNCHANGED <<known, task>>
  PROVE  /\ Unsaved' /\ Lagging'
         /\ v.task \in known /\ v.task \in Tasks /\ task[v.task].status \in Statuses
         /\ db' = db \/ db' = [db EXCEPT ![v.task] = task[v.task].status]
         /\ \A t \in Tasks : db'[t] = db[t] \/ (t = v.task /\ db'[t] = task[t].status)
         /\ \A t \in Tasks : db[t] # "absent" => db'[t] # "absent"
<1>1. /\ v.task \in known /\ v.task \in Tasks /\ task[v.task].status \in Statuses
      /\ db' = db \/ db' = [db EXCEPT ![v.task] = task[v.task].status]
  BY SaveEnds
<1>2. \A t \in Tasks : db'[t] = db[t] \/ (t = v.task /\ db'[t] = task[t].status)
  BY <1>1 DEF IInv, TypeOK, TasksOK
<1>3. \A t \in known : t \in Tasks /\ task[t].status \in Statuses /\ db[t] \in RowsBehind(task[t].status)
  BY DEF IInv, KnownInv, TypeOK, TasksOK, LifeInv, Lagging
<1>4. Lagging'
  <2> SUFFICES ASSUME NEW t \in known PROVE db'[t] \in RowsBehind(task[t].status)
    BY DEF Lagging
  <2> QED BY <1>2, <1>3, BehindFacts
<1>5. \A t \in Tasks : task[t].status \in Statuses => task[t].status \notin {"none", "absent"}
  BY DEF Statuses, TERMINAL_STATUSES
<1>6. Unsaved'
  BY <1>1, <1>2, <1>5 DEF LifeInv, Unsaved
<1>7. \A t \in Tasks : db[t] # "absent" => db'[t] # "absent"
  BY <1>1, <1>2, <1>5
<1> QED BY <1>1, <1>2, <1>4, <1>6, <1>7

LEMMA SavedEmployed ==
  ASSUME IInv, LifeInv, NEW v, Saved(v) \/ SaveFails(v), UNCHANGED <<known, task>>,
         NEW w \in Workers, pc'[w] = pc[w], cur'[w] = cur[w], target'[w] = target[w]
  PROVE  Employed(w)'
<1> SUFFICES ASSUME cur[w] \in known
             PROVE  /\ pc[w] \in {"lookup", "start", "settle"} => db'[cur[w]] # "absent"
                    /\ pc[w] \in {"run", "runSave", "conclude"} => db'[cur[w]] = "running"
                    /\ pc[w] = "settle" /\ target[w] = "cancelled" => task[cur[w]].status \in Active
  BY DEF Employed
<1>1. Employed(w) /\ cur[w] \in Tasks
  BY DEF LifeInv, IInv, TypeOK, TasksOK
<1>2. pc[w] \in {"run", "runSave", "conclude"} => task[cur[w]].status = "running"
  BY DEF IInv, PlaceInv
<1>3. db'[cur[w]] = db[cur[w]] \/ db'[cur[w]] = task[cur[w]].status
  BY <1>1, SavedRows
<1>4. db[cur[w]] # "absent" => db'[cur[w]] # "absent"
  BY <1>1, SavedRows
<1> QED BY <1>1, <1>2, <1>3, <1>4 DEF Employed

LEMMA LifeSubmitSaved ==
  ASSUME IInv, LifeInv, NEW t \in Tasks, SubmitSaved(t)
  PROVE  LifeInv'
<1> DEFINE v == Save("submit", t, "pending")
<1>1. /\ Saved(v) \/ SaveFails(v)
      /\ UNCHANGED <<stage, known, task, deleting, pc, cur, target, early, kept>>
      /\ queue' = queue \/ (queue' = Append(queue, t) /\ Saved(v))
  BY DEF SubmitSaved, workerVars
<1>2. v.task = t /\ v.status = "pending"
  BY DEF Save
<1>3. Saved(v) => db'[t] = "pending"
  BY <1>2 DEF Saved, Stored, IInv, TypeOK, TasksOK
<1> HIDE DEF v
<1>4. Unsaved' /\ Lagging' /\ \A u \in Tasks : db[u] # "absent" => db'[u] # "absent"
  BY <1>1, SavedRows
<1>5. \A w \in Workers : Employed(w)'
  BY <1>1, SavedEmployed
<1>6. Waiting'
  <2> SUFFICES ASSUME NEW u \in known, Queued(u)' PROVE db'[u] # "absent"
    BY <1>1 DEF Waiting
  <2>1. u \in Tasks
    BY DEF IInv, TypeOK, TasksOK
  <2>2. CASE Queued(u)
    BY <1>4, <2>1, <2>2 DEF LifeInv, Waiting
  <2>3. CASE ~Queued(u)
    <3>1. queue' = Append(queue, t) /\ Saved(v)
      BY <1>1, <2>3 DEF Queued
    <3>2. u = t
      BY <2>3, <3>1 DEF Queued, IInv, TypeOK, TasksOK
    <3> QED BY <1>3, <3>1, <3>2
  <2> QED BY <2>2, <2>3
<1> QED BY <1>4, <1>5, <1>6 DEF LifeInv

\* The end of a save that leaves the queue as it is.
LEMMA SavedLife ==
  ASSUME IInv, LifeInv, NEW v, Saved(v) \/ SaveFails(v), UNCHANGED memVars,
         \A w \in Workers : Employed(w)'
  PROVE  LifeInv'
<1>1. Unsaved' /\ Lagging' /\ \A t \in Tasks : db[t] # "absent" => db'[t] # "absent"
  BY SavedRows DEF memVars
<1>2. Waiting'
  BY <1>1 DEF LifeInv, Waiting, Queued, memVars, IInv, TypeOK, TasksOK
<1> QED BY <1>1, <1>2 DEF LifeInv

LEMMA LifeCancelSaved ==
  ASSUME IInv, LifeInv, NEW t \in Tasks, CancelSaved(t)
  PROVE  LifeInv'
<1>1. PICK v \in saves : Saved(v) \/ SaveFails(v)
  BY DEF CancelSaved
<1>2. UNCHANGED <<memVars, pc, cur, target>>
  BY DEF CancelSaved, workerVars
<1>3. \A w \in Workers : Employed(w)'
  BY <1>1, <1>2, SavedEmployed DEF memVars
<1> QED BY <1>1, <1>2, <1>3, SavedLife

LEMMA LifeStartSaved ==
  ASSUME IInv, LifeInv, NEW w \in Workers, StartSaved(w)
  PROVE  LifeInv'
<1> DEFINE v == Save(w, cur[w], "running")
<1>1. /\ Saved(v) \/ SaveFails(v)
      /\ UNCHANGED memVars
      /\ \A x \in Workers \ {w} : pc'[x] = pc[x] /\ cur'[x] = cur[x] /\ target'[x] = target[x]
      /\ \/ Saved(v) /\ pc'[w] = "run" /\ cur'[w] = cur[w]
         \/ cur'[w] = NoTask
  BY DEF StartSaved, Goto, Idle, IInv, TypeOK, WorkersOK
<1>2. v.task = cur[w] /\ v.status = "running"
  BY DEF Save
<1>3. ASSUME Saved(v), cur[w] \in known PROVE db'[cur[w]] = "running"
  BY <1>2, <1>3 DEF Saved, Stored, IInv, TypeOK, TasksOK
<1> HIDE DEF v
<1>4. ASSUME NEW x \in Workers PROVE Employed(x)'
  <2>1. CASE x # w
    BY <1>1, <2>1, SavedEmployed DEF memVars
  <2>2. CASE x = w /\ cur'[w] = NoTask
    BY <1>1, <2>2, NoTaskAssumption DEF Employed, memVars, IInv, TypeOK, TasksOK
  <2>3. CASE x = w /\ cur'[w] # NoTask
    <3>1. Saved(v) /\ pc'[w] = "run" /\ cur'[w] = cur[w] /\ known' = known
      BY <1>1, <2>3 DEF memVars
    <3> QED BY <1>3, <2>3, <3>1 DEF Employed
  <2> QED BY <2>1, <2>2, <2>3
<1> QED BY <1>1, <1>4, SavedLife

LEMMA LifeProgressSaved ==
  ASSUME IInv, LifeInv, NEW w \in Workers, ProgressSaved(w)
  PROVE  LifeInv'
<1>1. PICK v \in saves : Saved(v) \/ SaveFails(v)
  BY DEF ProgressSaved
<1>2. /\ UNCHANGED <<memVars, cur>> /\ pc[w] = "runSave"
      /\ \A x \in Workers \ {w} : pc'[x] = pc[x] /\ target'[x] = target[x]
      /\ pc'[w] = "run" \/ (pc'[w] = "settle" /\ target'[w] = "failed")
  BY DEF ProgressSaved, Goto, Aim, IInv, TypeOK, WorkersOK
<1>3. ASSUME cur[w] \in known PROVE db'[cur[w]] = "running"
  <2>1. cur[w] \in Tasks /\ db[cur[w]] = "running" /\ task[cur[w]].status = "running"
    BY <1>2, <1>3 DEF LifeInv, Employed, IInv, PlaceInv, TypeOK, TasksOK
  <2> QED BY <1>1, <1>2, <2>1, SavedRows DEF memVars
<1>4. ASSUME NEW x \in Workers PROVE Employed(x)'
  <2>1. CASE x # w
    BY <1>1, <1>2, <2>1, SavedEmployed DEF memVars
  <2>2. CASE x = w
    BY <1>2, <1>3, <2>2 DEF Employed, memVars
  <2> QED BY <2>1, <2>2
<1> QED BY <1>1, <1>2, <1>4, SavedLife

LEMMA LifeFinishSaved ==
  ASSUME IInv, LifeInv, NEW w \in Workers, FinishSaved(w)
  PROVE  LifeInv'
<1> DEFINE v == Save(w, cur[w], target[w])
<1>1. /\ Saved(v) \/ SaveFails(v)
      /\ UNCHANGED memVars
      /\ \A x \in Workers \ {w} : pc'[x] = pc[x] /\ cur'[x] = cur[x] /\ target'[x] = target[x]
      /\ \/ cur'[w] = NoTask
         \/ cur'[w] = cur[w] /\ pc'[w] = "settle" /\ target'[w] = "failed"
  BY DEF FinishSaved, Goto, Aim, Idle, IInv, TypeOK, WorkersOK
<1>2. v.task = cur[w] /\ v.status = target[w]
  BY DEF Save
<1> HIDE DEF v
<1>3. /\ cur[w] \in known /\ cur[w] \in Tasks /\ task[cur[w]].status = target[w]
      /\ target[w] \in TERMINAL_STATUSES /\ target[w] \in Statuses
  <2>1. v.task \in known /\ v.task \in Tasks /\ v.status = task[v.task].status
    BY <1>1, SaveEnds
  <2>2. target[w] \in TERMINAL_STATUSES
    BY DEF IInv, TypeOK, WorkersOK
  <2> QED BY <1>2, <2>1, <2>2 DEF Statuses
<1>4. db'[cur[w]] # "absent"
  <2>1. db[cur[w]] \in RowsBehind(target[w])
    BY <1>3 DEF LifeInv, Lagging
  <2>2. db[cur[w]] # "absent"
    BY <1>3, <2>1, BehindFacts
  <2> QED BY <1>1, <1>3, <2>2, SavedRows DEF memVars
<1>5. ASSUME NEW x \in Workers PROVE Employed(x)'
  <2>1. CASE x # w
    BY <1>1, <2>1, SavedEmployed DEF memVars
  <2>2. CASE x = w /\ cur'[w] = NoTask
    BY <1>1, <2>2, NoTaskAssumption DEF Employed, memVars, IInv, TypeOK, TasksOK
  <2>3. CASE x = w /\ cur'[w] # NoTask
    BY <1>1, <1>4, <2>3 DEF Employed, memVars
  <2> QED BY <2>1, <2>2, <2>3
<1> QED BY <1>1, <1>5, SavedLife
\* Steps that leave the rows and the statuses of the objects as they are.
LEMMA StillLife ==
  ASSUME LifeInv, UNCHANGED db, known' \subseteq known,
         \A t \in Tasks : task'[t].status = task[t].status,
         known \subseteq Tasks,
         \A t \in Tasks : Queued(t)' => Queued(t)
  PROVE  /\ Unsaved' /\ Lagging' /\ Waiting'
         /\ \A w \in Workers : pc'[w] = pc[w] /\ cur'[w] = cur[w] /\ target'[w] = target[w]
                => Employed(w)'
<1>1. \A t \in known' : t \in known /\ t \in Tasks
  OBVIOUS
<1>2. Unsaved' /\ Lagging' /\ Waiting'
  BY <1>1 DEF LifeInv, Unsaved, Lagging, Waiting
<1>3. ASSUME NEW w \in Workers, pc'[w] = pc[w], cur'[w] = cur[w], target'[w] = target[w]
      PROVE  Employed(w)'
  BY <1>1, <1>3 DEF LifeInv, Employed
<1> QED BY <1>2, <1>3

LEMMA LifeCall ==
  ASSUME IInv, LifeInv, NEW t \in Tasks, Call(t) \/ RowDeleted(t)
  PROVE  LifeInv'
<1>1. known \subseteq Tasks
  BY DEF IInv, TypeOK, TasksOK
<1>2. ASSUME NEW p \in Kbs \union {Plain}, Submit(t, p) PROVE LifeInv'
  <2>1. /\ known' = known \union {t} /\ task[t].status = "none"
        /\ task' = [task EXCEPT ![t] = [status |-> "pending", cancel |-> FALSE, payload |-> p]]
        /\ UNCHANGED <<queue, db, pc, cur, target>>
    BY <1>2 DEF Submit, Change, workerVars
  <2>2. /\ db[t] = "absent" /\ ~Queued(t) /\ \A w \in Workers : cur[w] # t
    BY <2>1 DEF LifeInv, Unsaved, IInv, QueueInv, HeldInv
  <2>3. \A u \in Tasks : task'[u].status = IF u = t THEN "pending" ELSE task[u].status
    BY <2>1 DEF IInv, TypeOK, TasksOK
  <2>4. Unsaved' /\ Waiting'
    BY <1>1, <2>1, <2>2, <2>3 DEF LifeInv, Unsaved, Waiting, Queued
  <2>6. Lagging'
    <3> SUFFICES ASSUME NEW u \in known' PROVE db[u] \in RowsBehind(task'[u].status)
      BY <2>1 DEF Lagging
    <3>1. CASE u = t
      BY <2>2, <2>3, <3>1 DEF RowsBehind
    <3>2. CASE u # t
      BY <1>1, <2>1, <2>3, <3>2 DEF LifeInv, Lagging
    <3> QED BY <3>1, <3>2
  <2>5. ASSUME NEW w \in Workers PROVE Employed(w)'
    BY <1>1, <2>1, <2>2, <2>3 DEF LifeInv, Employed
  <2> QED BY <2>4, <2>5, <2>6 DEF LifeInv
<1>3. CASE Cancel(t)
  <2>1. /\ UNCHANGED <<known, queue, db, pc, cur, target>>
        /\ \E new : new = [task[t] EXCEPT !.cancel = TRUE] /\ task' = [task EXCEPT ![t] = new]
    BY <1>3 DEF Cancel, Change, workerVars
  <2>2. \A u \in Tasks : task'[u].status = task[u].status
    BY <2>1 DEF IInv, TypeOK, TasksOK
  <2>3. \A u \in Tasks : Queued(u)' => Queued(u)
    BY <2>1 DEF Queued
  <2> QED BY <1>1, <2>1, <2>2, <2>3, StillLife DEF LifeInv
<1>4. CASE Delete(t)
  <2>1. known' \subseteq known /\ UNCHANGED <<task, queue, db, pc, cur, target>>
    BY <1>4 DEF Delete, dbVars, workerVars
  <2>2. \A u \in Tasks : Queued(u)' => Queued(u)
    BY <2>1 DEF Queued
  <2> QED BY <1>1, <2>1, <2>2, StillLife DEF LifeInv
<1>5. CASE RowDeleted(t)
  <2>1. /\ t \notin known /\ task[t].status # "none"
        /\ UNCHANGED <<known, task, queue, pc, cur, target>>
        /\ db' = db \/ db' = [db EXCEPT ![t] = "absent"]
    BY <1>5 DEF RowDeleted, memVars, workerVars, IInv, KnownInv, Statuses, TERMINAL_STATUSES
  <2>2. \A u \in Tasks : u # t => db'[u] = db[u]
    BY <2>1 DEF IInv, TypeOK, TasksOK
  <2>3. Unsaved' /\ Lagging' /\ Waiting'
    BY <1>1, <2>1, <2>2 DEF LifeInv, Unsaved, Lagging, Waiting, Queued
  <2>4. ASSUME NEW w \in Workers PROVE Employed(w)'
    BY <1>1, <2>1, <2>2 DEF LifeInv, Employed
  <2> QED BY <2>3, <2>4 DEF LifeInv
<1> QED BY <1>2, <1>3, <1>4, <1>5 DEF Call

\* A worker gives its task another status.
LEMMA LifeUpdate ==
  ASSUME IInv, LifeInv, NEW w \in Workers, cur[w] \in known, NEW s \in Statuses, Update(w, s),
         UNCHANGED <<known, queue, db, cur, target>>,
         \A x \in Workers \ {w} : pc'[x] = pc[x],
         db[cur[w]] \in RowsBehind(s),
         pc'[w] \notin {"lookup", "start", "settle", "run", "conclude"},
         pc'[w] = "runSave" => db[cur[w]] = "running"
  PROVE  LifeInv'
<1>1. known \subseteq Tasks /\ cur[w] \in Tasks
  BY DEF IInv, TypeOK, TasksOK
<1>2. \A u \in Tasks : task'[u].status = IF u = cur[w] THEN s ELSE task[u].status
  BY <1>1 DEF Update, Change, IInv, TypeOK, TasksOK
<1>3. Unsaved' /\ Lagging' /\ Waiting'
  BY <1>1, <1>2 DEF LifeInv, Unsaved, Lagging, Waiting, Queued, Statuses, TERMINAL_STATUSES
<1>4. ASSUME NEW x \in Workers PROVE Employed(x)'
  <2>1. CASE x = w
    BY <2>1 DEF Employed
  <2>2. CASE x # w
    <3>1. cur[x] # cur[w]
      BY <1>1, <2>2 DEF IInv, HeldInv
    <3> QED BY <1>1, <1>2, <2>2, <3>1 DEF LifeInv, Employed
  <2> QED BY <2>1, <2>2
<1> QED BY <1>3, <1>4 DEF LifeInv

\* A worker goes on without touching anything shared.
LEMMA LifeMove ==
  ASSUME IInv, LifeInv, NEW w \in Workers, UNCHANGED <<known, task, db>>,
         \A t \in Tasks : Queued(t)' => Queued(t),
         \A x \in Workers \ {w} : pc'[x] = pc[x] /\ cur'[x] = cur[x] /\ target'[x] = target[x],
         Employed(w)'
  PROVE  LifeInv'
<1>1. known \subseteq Tasks
  BY DEF IInv, TypeOK, TasksOK
<1> QED BY <1>1, StillLife DEF LifeInv

LEMMA LifeGet ==
  ASSUME IInv, LifeInv, NEW w \in Workers, Get(w)
  PROVE  LifeInv'
<1>0. PICK t : t = Head(queue)
  OBVIOUS
<1>1. /\ queue # <<>> /\ queue' = Tail(queue) /\ UNCHANGED <<known, task, db, target>>
      /\ cur'[w] = t /\ pc'[w] = "lookup"
      /\ \A x \in Workers \ {w} : pc'[x] = pc[x] /\ cur'[x] = cur[x]
  BY <1>0 DEF Get, Goto, dbVars, IInv, TypeOK, WorkersOK
<1>2. /\ queue \in Seq(Tasks) /\ 1 \in 1..Len(queue) /\ t = queue[1]
      /\ \A i \in 1..Len(queue') : queue'[i] = queue[i + 1] /\ i + 1 \in 1..Len(queue)
  BY <1>0, <1>1 DEF IInv, TypeOK, TasksOK
<1>3. Queued(t) /\ \A u \in Tasks : Queued(u)' => Queued(u)
  BY <1>2 DEF Queued
<1>4. Employed(w)'
  BY <1>1, <1>3 DEF LifeInv, Waiting, Employed
<1> QED BY <1>1, <1>3, <1>4, LifeMove

LEMMA LifeAdvance ==
  ASSUME IInv, LifeInv, NEW w \in Workers, Advance(w) \/ Progress(w)
  PROVE  LifeInv'
<1>1. cur[w] \in known => cur[w] \in Tasks /\ Employed(w) /\ db[cur[w]] \in RowsBehind(task[cur[w]].status)
  BY DEF LifeInv, Lagging, IInv, TypeOK, TasksOK
<1>2. CASE Get(w)
  BY <1>2, LifeGet
<1>3. CASE Lookup(w)
  <2>1. /\ pc[w] = "lookup" /\ UNCHANGED <<known, task, db, queue>>
        /\ \A x \in Workers \ {w} : pc'[x] = pc[x] /\ cur'[x] = cur[x] /\ target'[x] = target[x]
        /\ \/ cur'[w] = NoTask
           \/ cur'[w] = cur[w] /\ pc'[w] \in {"settle", "start"}
    BY <1>3 DEF Lookup, Idle, Aim, Goto, memVars, dbVars, IInv, TypeOK, WorkersOK
  <2>2. cur[w] \in known => task[cur[w]].status \in Active
    BY <2>1 DEF IInv, PlaceInv, Active
  <2>3. NoTask \notin known
    BY NoTaskAssumption DEF IInv, TypeOK, TasksOK
  <2>4. Employed(w)'
    BY <1>1, <2>1, <2>2, <2>3 DEF Employed
  <2>5. \A t \in Tasks : Queued(t)' => Queued(t)
    BY <2>1 DEF Queued
  <2> QED BY <2>1, <2>4, <2>5, LifeMove
<1>4. CASE Start(w)
  <2>1. CASE cur[w] \in known
    <3>1. /\ pc[w] = "start" /\ Update(w, "running") /\ UNCHANGED <<known, queue, db, cur, target>>
          /\ pc'[w] = "startSave" /\ \A x \in Workers \ {w} : pc'[x] = pc[x]
      BY <1>4, <2>1 DEF Start, Goto, IInv, TypeOK, WorkersOK
    <3>2. task[cur[w]].status = "pending" /\ db[cur[w]] # "absent"
      BY <1>1, <2>1, <3>1 DEF IInv, PlaceInv, Employed
    <3>3. db[cur[w]] \in RowsBehind("running") /\ "running" \in Statuses
      BY <1>1, <2>1, <3>2 DEF RowsBehind, Statuses
    <3> QED BY <2>1, <3>1, <3>3, LifeUpdate
  <2>2. CASE cur[w] \notin known
    <3>1. /\ UNCHANGED <<known, task, db, queue, cur, target>>
          /\ \A x \in Workers \ {w} : pc'[x] = pc[x]
      BY <1>4, <2>2 DEF Start, Goto, IInv, TypeOK, WorkersOK
    <3>2. Employed(w)' /\ \A t \in Tasks : Queued(t)' => Queued(t)
      BY <2>2, <3>1 DEF Employed, Queued
    <3> QED BY <3>1, <3>2, LifeMove
  <2> QED BY <2>1, <2>2
<1>5. CASE CoroutineEnds(w)
  <2>1. /\ pc[w] = "run" /\ UNCHANGED <<known, task, db, queue, cur>>
        /\ \A x \in Workers \ {w} : pc'[x] = pc[x] /\ target'[x] = target[x]
        /\ pc'[w] \in {"conclude", "settle"}
    BY <1>5 DEF CoroutineEnds, Aim, Goto, memVars, dbVars, IInv, TypeOK, WorkersOK
  <2>2. cur[w] \in known => task[cur[w]].status \in Active
    BY <2>1 DEF IInv, PlaceInv, Active
  <2>3. Employed(w)' /\ \A t \in Tasks : Queued(t)' => Queued(t)
    BY <1>1, <2>1, <2>2 DEF Employed, Queued
  <2> QED BY <2>1, <2>3, LifeMove
<1>6. CASE Finish(w)
  <2>1. CASE cur[w] \in known
    <3>1. /\ pc[w] \in {"conclude", "settle"} /\ Update(w, target[w])
          /\ UNCHANGED <<known, queue, db, cur, target>>
          /\ pc'[w] \in {"concludeSave", "settleSave"} /\ \A x \in Workers \ {w} : pc'[x] = pc[x]
      BY <1>6, <2>1 DEF Finish, Goto, IInv, TypeOK, WorkersOK
    <3>2. target[w] \in TERMINAL_STATUSES /\ (pc[w] = "settle" => target[w] # "success")
      BY DEF IInv, TypeOK, WorkersOK, PlaceInv
    <3>3. db[cur[w]] \in Statuses
      BY <1>1, <2>1, <3>1 DEF Employed, IInv, TypeOK, TasksOK, Statuses
    <3>4. db[cur[w]] \in RowsBehind(target[w])
      <4>1. CASE target[w] = "failed"
        BY <3>3, <4>1 DEF RowsBehind
      <4>2. CASE target[w] # "failed" /\ pc[w] = "conclude"
        <5>1. db[cur[w]] = "running" /\ target[w] \in {"success", "cancelled"}
          BY <1>1, <2>1, <3>2, <4>2 DEF Employed, TERMINAL_STATUSES
        <5> QED BY <5>1 DEF RowsBehind
      <4>3. CASE target[w] # "failed" /\ pc[w] = "settle"
        <5>1. target[w] = "cancelled"
          BY <3>2, <4>3 DEF TERMINAL_STATUSES
        <5>2. task[cur[w]].status \in {"pending", "running"} /\ db[cur[w]] # "absent"
          BY <1>1, <2>1, <4>3, <5>1 DEF Employed, Active
        <5>3. db[cur[w]] \in {"pending", "running"}
          BY <1>1, <2>1, <5>2 DEF RowsBehind
        <5> QED BY <5>1, <5>3 DEF RowsBehind
      <4> QED BY <3>1, <4>1, <4>2, <4>3
    <3> QED BY <2>1, <3>1, <3>2, <3>4, LifeUpdate DEF Statuses
  <2>2. CASE cur[w] \notin known
    <3>1. /\ UNCHANGED <<known, task, db, queue, target>> /\ cur'[w] = NoTask
          /\ \A x \in Workers \ {w} : pc'[x] = pc[x] /\ cur'[x] = cur[x]
      BY <1>6, <2>2 DEF Finish, Goto, Idle, IInv, TypeOK, WorkersOK
    <3>2. Employed(w)' /\ \A t \in Tasks : Queued(t)' => Queued(t)
      BY <3>1, NoTaskAssumption DEF Employed, Queued, IInv, TypeOK, TasksOK
    <3> QED BY <3>1, <3>2, LifeMove
  <2> QED BY <2>1, <2>2
<1>7. CASE Progress(w)
  <2>1. /\ pc[w] = "run" /\ cur[w] \in known /\ Update(w, task[cur[w]].status)
        /\ UNCHANGED <<known, queue, db, cur, target>>
        /\ pc'[w] = "runSave" /\ \A x \in Workers \ {w} : pc'[x] = pc[x]
    BY <1>7 DEF Progress, Goto, IInv, TypeOK, WorkersOK
  <2>2. task[cur[w]].status = "running" /\ db[cur[w]] = "running"
    BY <1>1, <2>1 DEF IInv, PlaceInv, Employed
  <2> QED BY <1>1, <2>1, <2>2, LifeUpdate DEF Statuses
<1> QED BY <1>2, <1>3, <1>4, <1>5, <1>6, <1>7 DEF Advance

LEMMA LifeProcess ==
  ASSUME IInv, LifeInv, Shutdown \/ ShutdownDone \/ Crash \/ Restart
  PROVE  LifeInv'
<1>1. CASE Shutdown
  <2>1. /\ UNCHANGED <<known, task, queue, db, cur>>
        /\ \A w \in Workers : pc'[w] = IF pc[w] \in {"run", "conclude"} THEN "settle" ELSE "stopped"
    BY <1>1 DEF Shutdown, memVars, dbVars
  <2>2. Unsaved' /\ Lagging' /\ Waiting'
    BY <2>1 DEF LifeInv, Unsaved, Lagging, Waiting, Queued
  <2>3. ASSUME NEW w \in Workers PROVE Employed(w)'
    <3>1. pc[w] \in {"run", "conclude"} /\ cur[w] \in known => task[cur[w]].status \in Active
      BY DEF IInv, PlaceInv, Active
    <3> QED BY <2>1, <3>1 DEF LifeInv, Employed
  <2> QED BY <2>2, <2>3 DEF LifeInv
<1>2. ASSUME known' = {}, \A t \in Tasks : task'[t].status = "none" => db'[t] = "absent"
      PROVE  LifeInv'
  BY <1>2 DEF LifeInv, Unsaved, Lagging, Waiting, Employed
<1>3. ASSUME Forget PROVE \A t \in Tasks : task'[t].status = "none" => task[t].status = "none"
  BY <1>3 DEF Forget, New
<1>4. CASE ShutdownDone
  BY <1>2, <1>3, <1>4 DEF ShutdownDone, Forget, LifeInv, Unsaved
<1>5. CASE Crash
  <2>1. PICK e \in {db} \union {Stored(v) : v \in saves}, D \in SUBSET deleting :
          db' = [t \in Tasks |-> IF t \in D THEN "absent" ELSE e[t]]
    BY <1>5 DEF Crash
  <2>2. ASSUME NEW t \in Tasks, task[t].status = "none" PROVE e[t] = "absent"
    <3>1. db[t] = "absent" /\ t \notin known
      BY <2>2 DEF LifeInv, Unsaved, IInv, KnownInv, Statuses, TERMINAL_STATUSES
    <3> QED BY <2>2, <3>1 DEF Stored, IInv, SaveInv, TypeOK, TasksOK
  <2>3. \A t \in Tasks : task'[t].status = "none" => db'[t] = "absent"
    BY <1>3, <1>5, <2>1, <2>2 DEF Crash
  <2> QED BY <1>2, <1>5, <2>3 DEF Crash, Forget
<1>6. CASE Restart
  <2>1. PICK S \in SUBSET Unswept : db' = [t \in Tasks |-> IF t \in S THEN "failed" ELSE db[t]]
    BY <1>6 DEF Restart, Sweep
  <2>2. known' = {} /\ UNCHANGED task
    BY <1>6 DEF Restart, memVars, IInv, KnownInv
  <2>3. \A t \in Tasks : task'[t].status = "none" => db'[t] = "absent"
    BY <2>1, <2>2 DEF Unswept, Active, LifeInv, Unsaved
  <2> QED BY <1>2, <2>2, <2>3
<1> QED BY <1>1, <1>4, <1>5, <1>6

LEMMA LifeInit == Init => LifeInv
  BY NoTaskAssumption DEF Init, New, LifeInv, Unsaved, Lagging, Waiting, Employed

LEMMA LifeNext == IInv /\ LifeInv /\ [Next]_vars => LifeInv'
<1> SUFFICES ASSUME IInv, LifeInv, [Next]_vars PROVE LifeInv'
  OBVIOUS
<1>1. CASE SaveReturns
  BY <1>1, LifeSubmitSaved, LifeCancelSaved, LifeStartSaved, LifeProgressSaved, LifeFinishSaved
     DEF SaveReturns
<1>2. CASE UNCHANGED vars
  BY <1>2 DEF vars, memVars, dbVars, workerVars, LifeInv, Unsaved, Lagging, Waiting, Queued, Employed
<1> QED BY <1>1, <1>2, LifeCall, LifeAdvance, LifeProcess DEF Next
-----------------------------------------------------------------------------
(* The rows keep what TaskRow says.                                        *)

GoesOn(t) == Row(t)' = Row(t) \/ Row(t)' \in Rows!After(Row(t))

\* The row goes away, or stays: both are steps of its life.
LEMMA RowStays ==
  ASSUME NEW t \in Tasks, task[t].status = "none" <=> task'[t].status = "none"
  PROVE  /\ db'[t] = db[t] /\ (t \in known' <=> t \in known) => GoesOn(t)
         /\ db'[t] = db[t] /\ known' \subseteq known => GoesOn(t)
         /\ db'[t] = "absent" /\ task[t].status # "none" /\ t \notin known' => GoesOn(t)
  BY DEF GoesOn, Row, Rows!After

LEMMA RowSaved ==
  ASSUME IInv, LifeInv, NEW v, Saved(v) \/ SaveFails(v), UNCHANGED <<known, task>>, NEW t \in Tasks
  PROVE  GoesOn(t)
<1>1. db'[t] = db[t] \/ (t \in known /\ db'[t] = task[t].status)
  BY SavedRows
<1>2. CASE db'[t] = db[t]
  BY <1>2, RowStays
<1>3. CASE t \in known /\ db'[t] = task[t].status
  <2>1. task[t].status \in Statuses /\ db[t] \in RowsBehind(task[t].status)
    BY <1>3 DEF IInv, KnownInv, LifeInv, Lagging
  <2>2. /\ task[t].status # "absent"
        /\ IF db[t] = "absent" THEN task[t].status = "pending"
           ELSE db[t] = task[t].status \/ task[t].status \in Rows!After(db[t])
    BY <2>1, BehindFacts
  <2>3. Row(t)' = task[t].status
    BY <1>3, <2>2 DEF Row
  <2>4. Row(t) = IF db[t] = "absent" THEN "new" ELSE db[t]
    BY <1>3 DEF Row
  <2>5. "pending" \in Rows!After("new")
    BY DEF Rows!After
  <2> QED BY <2>2, <2>3, <2>4, <2>5 DEF GoesOn
<1> QED BY <1>1, <1>2, <1>3

LEMMA RowCalled ==
  ASSUME IInv, LifeInv, NEW u \in Tasks, Call(u) \/ RowDeleted(u), NEW t \in Tasks
  PROVE  GoesOn(t)
<1>1. ASSUME NEW p \in Kbs \union {Plain}, Submit(u, p) PROVE GoesOn(t)
  <2>1. /\ known' = known \union {u} /\ task[u].status = "none" /\ UNCHANGED db
        /\ \A x \in Tasks : x # u => task'[x] = task[x]
    BY <1>1 DEF Submit, Change, IInv, TypeOK, TasksOK
  <2>2. CASE t = u
    BY <2>1, <2>2 DEF LifeInv, Unsaved, GoesOn, Row
  <2>3. CASE t # u
    BY <2>1, <2>3, RowStays
  <2> QED BY <2>2, <2>3
<1>2. CASE Cancel(u)
  <2>1. /\ UNCHANGED <<known, db>>
        /\ \E new : new = [task[u] EXCEPT !.cancel = TRUE] /\ task' = [task EXCEPT ![u] = new]
    BY <1>2 DEF Cancel, Change
  <2>2. task'[t].status = task[t].status
    BY <2>1 DEF IInv, TypeOK, TasksOK
  <2> QED BY <2>1, <2>2, RowStays
<1>3. CASE Delete(u)
  <2>1. UNCHANGED <<db, task>> /\ known' \subseteq known
    BY <1>3 DEF Delete, dbVars
  <2> QED BY <2>1, RowStays
<1>4. CASE RowDeleted(u)
  <2>1. /\ u \notin known /\ task[u].status # "none" /\ UNCHANGED <<known, task>>
        /\ db' = db \/ db' = [db EXCEPT ![u] = "absent"]
    BY <1>4 DEF RowDeleted, memVars, IInv, KnownInv, Statuses, TERMINAL_STATUSES
  <2>2. db'[t] = db[t] \/ (t = u /\ db'[t] = "absent")
    BY <2>1 DEF IInv, TypeOK, TasksOK
  <2> QED BY <2>1, <2>2, RowStays
<1> QED BY <1>1, <1>2, <1>3, <1>4 DEF Call

LEMMA RowWorked ==
  ASSUME IInv, NEW w \in Workers, Advance(w) \/ Progress(w), NEW t \in Tasks
  PROVE  GoesOn(t)
<1>1. UNCHANGED <<known, db>>
  BY DEF Advance, Get, Lookup, Start, CoroutineEnds, Finish, Progress, memVars, dbVars
<1>2. task' = task \/ \E s \in Statuses : cur[w] \in known /\ Update(w, s)
  BY DEF Advance, Get, Lookup, Start, CoroutineEnds, Finish, Progress, memVars, Statuses,
         IInv, TypeOK, WorkersOK, KnownInv
<1>3. task'[t].status = "none" <=> task[t].status = "none"
  <2>1. CASE task' = task
    BY <2>1
  <2>2. ASSUME NEW s \in Statuses, cur[w] \in known, Update(w, s)
        PROVE  task'[t].status = "none" <=> task[t].status = "none"
    <3>1. cur[w] \in Tasks /\ task[cur[w]].status \in Statuses
      BY <2>2 DEF IInv, TypeOK, TasksOK, KnownInv
    <3>2. task'[t].status = IF t = cur[w] THEN s ELSE task[t].status
      BY <2>2, <3>1 DEF Update, Change, IInv, TypeOK, TasksOK
    <3> QED BY <3>1, <3>2 DEF Statuses, TERMINAL_STATUSES
  <2> QED BY <1>2, <2>1, <2>2
<1> QED BY <1>1, <1>3, RowStays

LEMMA RowOfProcess ==
  ASSUME IInv, LifeInv, Shutdown \/ ShutdownDone \/ Crash \/ Restart, NEW t \in Tasks
  PROVE  GoesOn(t)
<1>1. CASE Shutdown
  BY <1>1, RowStays DEF Shutdown, memVars, dbVars
<1>2. ASSUME Forget PROVE task[t].status = "none" <=> task'[t].status = "none"
  BY <1>2 DEF Forget, New
<1>3. CASE ShutdownDone
  BY <1>2, <1>3, RowStays DEF ShutdownDone, Forget
<1>4. CASE Crash
  <2>1. PICK e \in {db} \union {Stored(v) : v \in saves}, D \in SUBSET deleting :
          db' = [u \in Tasks |-> IF u \in D THEN "absent" ELSE e[u]]
    BY <1>4 DEF Crash
  <2>2. known' = {} /\ (task[t].status = "none" <=> task'[t].status = "none")
    BY <1>2, <1>4 DEF Crash, Forget
  <2>3. CASE t \in D
    <3>1. task[t].status # "none" /\ db'[t] = "absent"
      BY <2>1, <2>3 DEF IInv, KnownInv, Statuses, TERMINAL_STATUSES
    <3> QED BY <2>2, <3>1, RowStays
  <2>4. CASE t \notin D /\ e[t] = db[t]
    BY <2>1, <2>2, <2>4, RowStays
  <2>5. CASE t \notin D /\ e[t] # db[t]
    <3>1. t \in known /\ db'[t] = task[t].status
      BY <2>1, <2>5 DEF Stored, IInv, SaveInv, TypeOK, TasksOK
    <3>2. task[t].status \in Statuses /\ db[t] \in RowsBehind(task[t].status)
      BY <3>1 DEF IInv, KnownInv, LifeInv, Lagging
    <3>3. /\ task[t].status # "absent"
          /\ IF db[t] = "absent" THEN task[t].status = "pending"
             ELSE db[t] = task[t].status \/ task[t].status \in Rows!After(db[t])
      BY <3>2, BehindFacts
    <3>4. Row(t)' = task[t].status /\ Row(t) = IF db[t] = "absent" THEN "new" ELSE db[t]
      BY <3>1, <3>3 DEF Row
    <3>5. "pending" \in Rows!After("new")
      BY DEF Rows!After
    <3> QED BY <3>3, <3>4, <3>5 DEF GoesOn
  <2> QED BY <2>3, <2>4, <2>5
<1>5. CASE Restart
  <2>1. PICK S \in SUBSET Unswept : db' = [u \in Tasks |-> IF u \in S THEN "failed" ELSE db[u]]
    BY <1>5 DEF Restart, Sweep
  <2>2. UNCHANGED <<known, task>>
    BY <1>5 DEF Restart, memVars
  <2>3. CASE t \in S
    <3>1. Row(t) \in {"pending", "running"} /\ Row(t)' = "failed"
      BY <2>1, <2>3 DEF Row, Unswept, Active
    <3> QED BY <3>1 DEF GoesOn, Rows!After
  <2>4. CASE t \notin S
    BY <2>1, <2>2, <2>4, RowStays
  <2> QED BY <2>3, <2>4
<1> QED BY <1>1, <1>3, <1>4, <1>5

LEMMA RowsGoOn ==
  ASSUME IInv, LifeInv, [Next]_vars, NEW t \in Tasks
  PROVE  GoesOn(t)
<1>1. CASE SaveReturns
  <2>1. /\ \E v : Saved(v) \/ SaveFails(v)
        /\ UNCHANGED <<known, task>>
    BY <1>1 DEF SaveReturns, SubmitSaved, CancelSaved, StartSaved, ProgressSaved, FinishSaved, memVars
  <2> QED BY <2>1, RowSaved
<1>2. CASE UNCHANGED vars
  BY <1>2, RowStays DEF vars, memVars, dbVars
<1> QED BY <1>1, <1>2, RowCalled, RowWorked, RowOfProcess DEF Next

\* Every row lives the life of TaskRow, whatever saves are late or fail, and over any
\* number of crashes, sweeps and deletions.
THEOREM RowsImplemented == Spec => RowSpec
<1> DEFINE R == [t \in Tasks |-> Row(t)]
<1>1. Init => Rows!Init
  BY DEF Init, New, Row, Rows!Init
<1>2. IInv' => R' \in [Tasks -> Rows!States]
  BY DEF Row, Rows!States, IInv, TypeOK, TasksOK, Statuses, TERMINAL_STATUSES
<1>3. IInv /\ LifeInv /\ [Next]_vars => IInv' /\ LifeInv'
  BY NextInv, LifeNext
<1>4. IInv /\ LifeInv /\ [Next]_vars => [Rows!Next]_R
  <2> SUFFICES ASSUME IInv, LifeInv, [Next]_vars PROVE Rows!Next
    OBVIOUS
  <2>1. \A t \in Tasks : R'[t] # R[t] => R'[t] \in Rows!After(R[t])
    BY RowsGoOn DEF GoesOn
  <2> QED BY <1>2, <1>3, <2>1 DEF Rows!Next
<1>5. Init => IInv /\ LifeInv
  BY InitInv, LifeInit
<1> QED BY <1>1, <1>3, <1>4, <1>5, PTL DEF Spec, RowSpec, Rows!Spec

=============================================================================
