------------------------------ MODULE AgentRun ------------------------------
(***************************************************************************)
(* One agent run, from the enqueued ARQ job to the end the SSE client is   *)
(* told: the agent_runs row (Postgres), the cancel key and the event       *)
(* stream (Redis), the worker that executes process_agent_run, the cancel  *)
(* requests and one SSE client.  Creation of the row is RunAdmission.      *)
(*                                                                         *)
(* A handler of the worker is a sequence of awaited calls.  `plan' is what *)
(* is left of the current handler: every call is one step, and anything    *)
(* may happen between two of them.                                         *)
(***************************************************************************)
EXTENDS Naturals, Sequences, FiniteSets

CONSTANTS
    Cancellers,     \* cancel requests that may arrive
    MaxTries,       \* WorkerSettings.max_tries
    MaxChunks,      \* bound: chunks of one attempt before its terminal chunk
    BatchLimit,     \* limit of list_run_stream_events
    MaxFaults,      \* bound: I/O failures, worker deaths and stops
    MaxReconnects,  \* bound: reconnections of the SSE client
    RetriesOn       \* ends of an attempt after which ARQ delivers the job again

ASSUME TriesAssumption == MaxTries \in Nat \ {0}
ASSUME LimitAssumption == BatchLimit \in Nat \ {0}
ASSUME BoundsAssumption ==
    MaxChunks \in Nat /\ MaxFaults \in Nat /\ MaxReconnects \in Nat
ASSUME RetriesAssumption == RetriesOn \subseteq {"error", "lost"}

TERMINAL_RUN_STATUSES == {"completed", "failed", "cancelled", "interrupted"}
Status == {"pending", "running", "cancel_requested"} \union TERMINAL_RUN_STATUSES
Threads == {"main", "sub"}   \* the run's own thread, and a subagent's

VARIABLES
    status,         \* agent_runs.status, committed
    cancelPc,       \* per cancel request: idle, loaded, locked, published, done
    loaded,         \* per cancel request: the status its session loaded first
    signal,         \* Redis key run:cancel:{id} exists
    stream,         \* Redis stream run:events:{id}
    job,            \* ARQ job: queued, running, done, dead
    job_try,        \* ctx["job_try"] of the latest delivery
    pc,             \* where process_agent_run is
    plan,           \* calls left of the current handler
    handling,       \* the handler runs in the try body or in an except clause
    leave,          \* what follows the handler: stream, return, error or lost
    agent,          \* where the chat generator is: init, chat, asked, ended
    delivered,      \* thread of each chunk taken from the generator
    buffer,         \* ChunkedEventWriter.thread_buffers
    terminal_set,
    cancel_event,   \* RunContext.cancel_event
    client,         \* the SSE connection and what its client has received
    reconnects,
    faults,
    outcome,        \* history: first terminal status committed, or "none"
    closedAt,       \* history: length of the stream at that moment
    earlyCancel     \* history: a cancel was committed before the first delivery,
                    \* and its key has not expired

rowVars    == <<status, outcome, closedAt>>
cancelVars == <<cancelPc, loaded, earlyCancel>>
queueVars  == <<job, job_try>>
ctrlVars   == <<pc, plan, handling, leave>>
agentVars  == <<agent, delivered>>
writerVars == <<buffer, terminal_set, cancel_event>>
clientVars == <<client, reconnects>>
vars == <<rowVars, cancelVars, signal, stream, queueVars, ctrlVars, agentVars,
          writerVars, clientVars, faults>>

Init ==
    /\ status = "pending" /\ outcome = "none" /\ closedAt = 0
    /\ cancelPc = [c \in Cancellers |-> "idle"]
    /\ loaded = [c \in Cancellers |-> "pending"]
    /\ earlyCancel = FALSE
    /\ signal = FALSE /\ stream = <<>>
    /\ job = "queued" /\ job_try = 0
    /\ pc = "idle" /\ plan = <<>> /\ handling = "try" /\ leave = "stream"
    /\ agent = "init" /\ delivered = <<>>
    /\ buffer = [th \in Threads |-> <<>>]
    /\ terminal_set = FALSE /\ cancel_event = FALSE
    /\ client = [pc |-> "row", seen |-> "pending", cursor |-> 0, end |-> "none"]
    /\ reconnects = 0 /\ faults = 0

-----------------------------------------------------------------------------
(* The calls a handler is made of, and the handlers.                       *)

Flush(th) == [op |-> "flush", th |-> th]
Publish(type, th, ids) == [op |-> "publish", type |-> type, th |-> th, ids |-> ids]
Mark(s) == [op |-> "mark", status |-> s]
End(s, ids) == [op |-> "end", status |-> s, ids |-> ids]
Peek == [op |-> "peek"]
Check == [op |-> "check"]

\* The order of the per-thread flushes is not told apart.
FlushAll == <<Flush("main"), Flush("sub")>>
FinishEndFirst(s, ids) == <<End(s, ids), Mark(s)>>    \* mutant
Finish(s, ids) == <<Mark(s), End(s, ids)>>

\* What the loop does with chunk number `id' of a kind other than "loading".
ChunkCalls(kind, th, id) ==
    CASE kind = "event"       -> <<Publish("custom", th, <<id>>)>>
      [] kind = "finished"    -> Finish("completed", <<id>>)
      [] kind = "error"       -> <<Publish("error", th, <<id>>)>> \o Finish("failed", <<>>)
      [] kind = "ask"         -> <<Publish("interrupt", th, <<id>>)>> \o Finish("interrupted", <<>>)
      [] kind = "interrupted" -> <<Publish("interrupt", th, <<id>>), Peek>>
ChunkPlanUnflushed(kind, th, id) == ChunkCalls(kind, th, id) \o <<Check>>    \* mutant
ChunkPlan(kind, th, id) == <<Flush(th)>> \o ChunkCalls(kind, th, id) \o <<Check>>

ExhaustPlanUnflushed == IF terminal_set THEN <<>> ELSE Finish("completed", <<>>)    \* mutant
ExhaustPlan == FlushAll \o IF terminal_set THEN <<>> ELSE Finish("completed", <<>>)

CancelPlan ==
    FlushAll \o <<Publish("interrupt", "main", <<>>)>> \o Finish("cancelled", <<>>)

_is_last_try == job_try >= MaxTries

ErrorPlan(retryable) ==
    FlushAll \o <<Publish("error", "main", <<>>)>> \o
    IF retryable /\ ~_is_last_try THEN <<>> ELSE Finish("failed", <<>>)

Enter(p, h, l) == pc' = "plan" /\ plan' = p /\ handling' = h /\ leave' = l

Continue(p) ==
    /\ plan' = p
    /\ pc' = IF p # <<>> THEN "plan" ELSE IF leave = "stream" THEN "stream" ELSE "close"
    /\ UNCHANGED <<handling, leave>>

RaiseCancelled == Enter(CancelPlan, "except", "return")
RaiseError(retryable) ==
    Enter(ErrorPlan(retryable), "except",
          IF retryable /\ ~_is_last_try THEN "error" ELSE "return")

-----------------------------------------------------------------------------
(* The row.  Every writer locks it for the length of its transaction.      *)

RowFree == \A c \in Cancellers : cancelPc[c] \notin {"locked", "published"}

Commit(s) ==
    /\ status' = s
    /\ IF s \in TERMINAL_RUN_STATUSES /\ outcome = "none"
       THEN outcome' = s /\ closedAt' = Len(stream)
       ELSE UNCHANGED <<outcome, closedAt>>

mark_running ==
    Commit(IF status \in TERMINAL_RUN_STATUSES THEN status ELSE "running")

set_terminal_status(s) ==
    Commit(IF status \in TERMINAL_RUN_STATUSES THEN status ELSE s)

-----------------------------------------------------------------------------
(* Cancel requests: one session, one transaction.  The first query loads   *)
(* the row into the session; the locking query that follows waits for the  *)
(* lock but returns the object already loaded, so the guard of             *)
(* request_cancel and the UPDATE see the status loaded first.              *)

CancelLoad(c) ==
    /\ cancelPc[c] = "idle"
    /\ loaded' = [loaded EXCEPT ![c] = status]
    /\ cancelPc' = [cancelPc EXCEPT ![c] = "loaded"]
    /\ UNCHANGED <<rowVars, earlyCancel, signal, stream, queueVars, ctrlVars,
                   agentVars, writerVars, clientVars, faults>>

CancelLock(c) ==
    /\ cancelPc[c] = "loaded" /\ RowFree
    /\ cancelPc' = [cancelPc EXCEPT ![c] = "locked"]
    /\ UNCHANGED <<rowVars, loaded, earlyCancel, signal, stream, queueVars,
                   ctrlVars, agentVars, writerVars, clientVars, faults>>

\* publish_cancel_signal logs a Redis failure and goes on.
CancelPublish(c) ==
    /\ cancelPc[c] = "locked"
    /\ \/ signal' = TRUE /\ UNCHANGED faults
       \/ faults < MaxFaults /\ faults' = faults + 1 /\ UNCHANGED signal
    /\ cancelPc' = [cancelPc EXCEPT ![c] = "published"]
    /\ UNCHANGED <<rowVars, loaded, earlyCancel, stream, queueVars, ctrlVars,
                   agentVars, writerVars, clientVars>>

\* An attribute set to the value it was loaded with is not written.
WritesCancel(c) == loaded[c] \in {"pending", "running"}

CancelCommit(c) ==
    /\ cancelPc[c] = "published"
    /\ Commit(IF WritesCancel(c) THEN "cancel_requested" ELSE status)
    /\ earlyCancel' = (earlyCancel \/ (job_try = 0 /\ WritesCancel(c)))
    /\ cancelPc' = [cancelPc EXCEPT ![c] = "done"]
    /\ UNCHANGED <<loaded, signal, stream, queueVars, ctrlVars, agentVars,
                   writerVars, clientVars, faults>>

CancelRequest == \E c \in Cancellers :
    CancelLoad(c) \/ CancelLock(c) \/ CancelPublish(c) \/ CancelCommit(c)

\* The key lives RUN_CANCEL_KEY_TTL_SECONDS, far longer than a cancel request and the
\* poll interval of an attempt's watcher: it expires while the job waits for a worker.
ExpireSignal ==
    /\ signal /\ pc = "idle"
    /\ \A c \in Cancellers : cancelPc[c] # "published"
    /\ signal' = FALSE /\ earlyCancel' = FALSE
    /\ UNCHANGED <<rowVars, cancelPc, loaded, stream, queueVars, ctrlVars, agentVars,
                   writerVars, clientVars, faults>>

-----------------------------------------------------------------------------
(* ARQ, as the code relies on it: a job is delivered to one worker at a    *)
(* time; a job that was delivered max_tries times is given up.             *)

StartJob ==
    /\ job = "queued"
    /\ IF job_try < MaxTries
       THEN job' = "running" /\ job_try' = job_try + 1 /\ pc' = "load"
       ELSE job' = "dead" /\ UNCHANGED <<job_try, pc>>
    /\ UNCHANGED <<rowVars, cancelVars, signal, stream, plan, handling, leave,
                   agentVars, writerVars, clientVars, faults>>

\* The locals of the call die with it.
FreshLocals ==
    /\ agent' = "init" /\ delivered' = <<>>
    /\ buffer' = [th \in Threads |-> <<>>]
    /\ terminal_set' = FALSE /\ cancel_event' = FALSE
    /\ handling' = "try" /\ leave' = "stream" /\ plan' = <<>>

JobEnds(how) ==
    /\ pc' = "idle" /\ FreshLocals
    /\ job' = IF how = "return" THEN "done"
              ELSE IF how \in RetriesOn THEN "queued" ELSE "dead"

-----------------------------------------------------------------------------
(* process_agent_run up to its try statement.                              *)

NothingToDoOnceStarted == status # "pending"    \* mutant
NothingToDo == status \in TERMINAL_RUN_STATUSES

Load ==
    /\ pc = "load"
    /\ IF NothingToDo
       THEN JobEnds("return")
       ELSE /\ pc' \in {"start", "user_not_found"}
            /\ UNCHANGED <<job, plan, handling, leave, agentVars, writerVars>>
    /\ UNCHANGED <<rowVars, cancelVars, signal, stream, job_try, clientVars, faults>>

UserNotFound ==
    /\ pc = "user_not_found" /\ RowFree
    /\ set_terminal_status("failed")
    /\ JobEnds("return")
    /\ UNCHANGED <<cancelVars, signal, stream, job_try, clientVars, faults>>

MarkRunning ==
    /\ pc = "start" /\ RowFree
    /\ mark_running
    /\ pc' = "metadata"
    /\ UNCHANGED <<cancelVars, signal, stream, queueVars, plan, handling, leave,
                   agentVars, writerVars, clientVars, faults>>

Emit(type, th, ids, arg) ==
    stream' = Append(stream, [type |-> type, th |-> th, ids |-> ids,
                              arg |-> arg, try |-> job_try])

Metadata ==
    /\ pc = "metadata"
    /\ Emit("metadata", "main", <<>>, "none")
    /\ pc' = "stream"
    /\ UNCHANGED <<rowVars, cancelVars, signal, queueVars, plan, handling, leave,
                   agentVars, writerVars, clientVars, faults>>

-----------------------------------------------------------------------------
(* The try body: chunks of stream_agent_chat until the stream ends, the    *)
(* watcher has noticed the cancel key, or something is raised.             *)

\* The watcher task; it lives from mark_running to the finally clause.
NoticeCancel ==
    /\ pc \in {"metadata", "stream", "plan"} /\ signal /\ ~cancel_event
    /\ cancel_event' = TRUE
    /\ UNCHANGED <<rowVars, cancelVars, signal, stream, queueVars, ctrlVars,
                   agentVars, buffer, terminal_set, clientVars, faults>>

\* Which chunk the generator may yield next, and where that leaves it.  Only
\* the run's own thread yields terminal chunks, and after a question only the
\* agent state is left to report.
Yields(kind, th, next) ==
    \/ agent = "init" /\ th = "main" /\ <<kind, next>> \in {<<"event", "chat">>, <<"error", "ended">>}
    \/ agent = "chat" /\ kind \in {"loading", "event"} /\ next = "chat"
       /\ Len(delivered) < MaxChunks
    \/ agent = "chat" /\ th = "main"
       /\ \/ kind \in {"finished", "error", "interrupted"} /\ next = "ended"
          \/ kind = "ask" /\ next = "asked"
    \/ agent = "asked" /\ th = "main" /\ kind = "event" /\ next = "ended"

Kinds == {"loading", "event", "finished", "error", "interrupted", "ask"}

Take(kind, th, next) ==
    /\ pc = "stream" /\ ~cancel_event
    /\ Yields(kind, th, next)
    /\ agent' = next
    /\ delivered' = Append(delivered, th)

\* ChunkedEventWriter.append: flushed at once, or later.
LoadingChunk(th) ==
    /\ Take("loading", th, "chat")
    /\ buffer' = [buffer EXCEPT ![th] = Append(@, Len(delivered) + 1)]
    /\ \/ UNCHANGED ctrlVars
       \/ Enter(<<Flush(th)>>, "try", "stream")
    /\ UNCHANGED <<rowVars, cancelVars, signal, stream, queueVars, terminal_set,
                   cancel_event, clientVars, faults>>

Chunk(kind, th, next) ==
    /\ kind # "loading"
    /\ Take(kind, th, next)
    /\ Enter(ChunkPlan(kind, th, Len(delivered) + 1), "try", "stream")
    /\ UNCHANGED <<rowVars, cancelVars, signal, stream, queueVars, writerVars,
                   clientVars, faults>>

Exhausted ==
    /\ pc = "stream" /\ ~cancel_event /\ agent # "init"
    /\ Enter(ExhaustPlan, "try", "return")
    /\ UNCHANGED <<rowVars, cancelVars, signal, stream, queueVars, agentVars,
                   writerVars, clientVars, faults>>

StreamCancelled ==
    /\ pc = "stream" /\ cancel_event
    /\ RaiseCancelled
    /\ UNCHANGED <<rowVars, cancelVars, signal, stream, queueVars, agentVars,
                   writerVars, clientVars, faults>>

\* The generator turns most exceptions into chunks; one raised while it prepares
\* the chat or saves a partial answer gets through.
AgentRaises(retryable) ==
    /\ pc = "stream" /\ ~cancel_event /\ agent \in {"init", "chat"}
    /\ RaiseError(retryable)
    /\ UNCHANGED <<rowVars, cancelVars, signal, stream, queueVars, agentVars,
                   writerVars, clientVars, faults>>

-----------------------------------------------------------------------------
(* The calls of a handler.                                                 *)

At(op) == pc = "plan" /\ Head(plan).op = op

Keep(th) == UNCHANGED buffer    \* mutant
Forget(th) == buffer' = [buffer EXCEPT ![th] = <<>>]

DoFlush == LET th == Head(plan).th IN
    /\ At("flush")
    /\ IF buffer[th] = <<>> THEN UNCHANGED <<stream, buffer>>
       ELSE /\ Emit("messages", th, buffer[th], "none")
            /\ Forget(th)
    /\ Continue(Tail(plan))
    /\ UNCHANGED <<rowVars, cancelVars, signal, queueVars, agentVars, terminal_set,
                   cancel_event, clientVars, faults>>

DoPublish == LET step == Head(plan) IN
    /\ At("publish")
    /\ Emit(step.type, step.th, step.ids, "none")
    /\ Continue(Tail(plan))
    /\ UNCHANGED <<rowVars, cancelVars, signal, queueVars, agentVars, writerVars,
                   clientVars, faults>>

DoMark ==
    /\ At("mark") /\ RowFree
    /\ set_terminal_status(Head(plan).status)
    /\ Continue(Tail(plan))
    /\ UNCHANGED <<cancelVars, signal, stream, queueVars, agentVars, writerVars,
                   clientVars, faults>>

DoEnd == LET step == Head(plan) IN
    /\ At("end")
    /\ Emit("end", "main", step.ids, step.status)
    /\ terminal_set' = TRUE
    /\ Continue(Tail(plan))
    /\ UNCHANGED <<rowVars, cancelVars, signal, queueVars, agentVars, buffer,
                   cancel_event, clientVars, faults>>

\* _is_cancel_requested reads the committed row without locking it.
DoPeek ==
    /\ At("peek")
    /\ Continue(Finish(IF status = "cancel_requested" THEN "cancelled" ELSE "interrupted", <<>>)
                \o Tail(plan))
    /\ UNCHANGED <<rowVars, cancelVars, signal, stream, queueVars, agentVars,
                   writerVars, clientVars, faults>>

\* The event, or the key itself.
is_cancelled_event == cancel_event    \* mutant
is_cancelled == cancel_event \/ signal

DoCheck ==
    /\ At("check")
    /\ IF is_cancelled
       THEN cancel_event' = TRUE /\ RaiseCancelled
       ELSE Continue(Tail(plan)) /\ UNCHANGED cancel_event
    /\ UNCHANGED <<rowVars, cancelVars, signal, stream, queueVars, agentVars, buffer,
                   terminal_set, clientVars, faults>>

\* finally: close the watcher, clear the cancel key; then ARQ records the result.
Close ==
    /\ pc = "close"
    /\ signal' = FALSE
    /\ JobEnds(leave)
    /\ UNCHANGED <<rowVars, cancelVars, stream, job_try, clientVars, faults>>

WorkerStep ==
    \/ StartJob \/ Load \/ UserNotFound \/ MarkRunning \/ Metadata
    \/ \E th \in Threads : LoadingChunk(th)
    \/ \E kind \in Kinds, th \in Threads, next \in {"chat", "asked", "ended"} :
          Chunk(kind, th, next)
    \/ Exhausted \/ StreamCancelled \/ \E r \in BOOLEAN : AgentRaises(r)
    \/ DoFlush \/ DoPublish \/ DoMark \/ DoEnd \/ DoPeek \/ DoCheck
    \/ Close

-----------------------------------------------------------------------------
(* Failures of the worker's environment.                                   *)

Fault == faults < MaxFaults /\ faults' = faults + 1

\* Raised by a call of the current handler.  Caught by the except clauses of
\* the try statement; inside one of them it leaves through finally.
Raised(retryable) ==
    IF handling = "try" THEN RaiseError(retryable)
    ELSE pc' = "close" /\ plan' = <<>> /\ leave' = "error" /\ UNCHANGED handling

\* Postgres or Redis fails the call before it has an effect.
CallFails == \E retryable \in BOOLEAN :
    /\ pc = "plan" /\ Head(plan).op \in {"flush", "publish", "mark", "end", "peek"}
    /\ Fault
    /\ Raised(retryable)
    /\ UNCHANGED <<rowVars, cancelVars, signal, stream, queueVars, agentVars,
                   writerVars, clientVars>>

\* append_run_stream_event: XADD succeeds, EXPIRE fails.
ExpireFails == LET step == Head(plan) IN
    /\ pc = "plan" /\ step.op \in {"flush", "publish", "end"}
    /\ Fault
    /\ CASE step.op = "flush"   -> buffer[step.th] # <<>>
                                  /\ Emit("messages", step.th, buffer[step.th], "none")
         [] step.op = "publish" -> Emit(step.type, step.th, step.ids, "none")
         [] step.op = "end"     -> Emit("end", "main", step.ids, step.status)
    /\ \E retryable \in BOOLEAN : Raised(retryable)
    /\ UNCHANGED <<rowVars, cancelVars, signal, queueVars, agentVars, writerVars,
                   clientVars>>

\* Before the try statement an exception leaves the function at once.
SetupFails ==
    /\ pc \in {"load", "start", "user_not_found", "metadata"}
    /\ Fault
    /\ JobEnds("error")
    /\ UNCHANGED <<rowVars, cancelVars, signal, stream, job_try, clientVars>>

\* Shutdown of the worker, or job_timeout: CancelledError at the current await.
Stopped ==
    /\ pc \in {"stream", "plan"}
    /\ Fault
    /\ IF handling = "try" THEN RaiseCancelled
       ELSE pc' = "close" /\ plan' = <<>> /\ leave' = "lost" /\ UNCHANGED handling
    /\ UNCHANGED <<rowVars, cancelVars, signal, stream, queueVars, agentVars,
                   writerVars, clientVars>>

WorkerDies ==
    /\ pc # "idle"
    /\ Fault
    /\ JobEnds("lost")
    /\ UNCHANGED <<rowVars, cancelVars, signal, stream, job_try, clientVars>>

\* has_cancel_signal and clear_cancel_signal log a Redis failure and go on.
KeyNotRead ==
    /\ At("check") /\ ~cancel_event
    /\ Fault
    /\ Continue(Tail(plan))
    /\ UNCHANGED <<rowVars, cancelVars, signal, stream, queueVars, agentVars,
                   writerVars, clientVars>>

KeyNotCleared ==
    /\ pc = "close"
    /\ Fault
    /\ JobEnds(leave)
    /\ UNCHANGED <<rowVars, cancelVars, signal, stream, job_try, clientVars>>

Failure ==
    \/ CallFails \/ ExpireFails \/ SetupFails \/ Stopped \/ WorkerDies
    \/ KeyNotRead \/ KeyNotCleared

-----------------------------------------------------------------------------
(* stream_agent_run_events: each round reads the row first, then the log.  *)

serverVars == <<rowVars, cancelVars, signal, stream, queueVars, ctrlVars, agentVars,
            writerVars, faults>>

ReadRow ==
    /\ client.pc = "row"
    /\ client' = [client EXCEPT !.pc = "list", !.seen = status]
    /\ UNCHANGED <<serverVars, reconnects>>

Batch == (client.cursor + 1) ..
         (IF client.cursor + BatchLimit < Len(stream) THEN client.cursor + BatchLimit
          ELSE Len(stream))
EndsIn(batch) == {i \in batch : stream[i].type = "end"}
IsFirst(i, S) == \A j \in S : i <= j

\* The row was terminal before the log was read to its end.
RowSaysEnd == client.seen \in TERMINAL_RUN_STATUSES                                  \* mutant
DrainedDoneOrFailed == client.seen \in {"completed", "failed"} /\ Batch = {}    \* mutant
Drained == client.seen \in TERMINAL_RUN_STATUSES /\ Batch = {}

\* A client stops at the first end event it is sent.
EndSent ==
    \E i \in EndsIn(Batch) :
        /\ IsFirst(i, EndsIn(Batch))
        /\ client' = [client EXCEPT !.pc = "closed", !.cursor = i, !.end = stream[i].arg]

BatchSent ==
    /\ EndsIn(Batch) = {}
    /\ client' = IF Drained THEN [client EXCEPT !.pc = "closed", !.end = client.seen]
                 ELSE [client EXCEPT !.pc = "row", !.cursor = @ + Cardinality(Batch)]

ListEvents ==
    /\ client.pc = "list"
    /\ EndSent \/ BatchSent
    /\ UNCHANGED <<serverVars, reconnects>>

\* The connection is lost or reaches its time limit, maybe inside a batch; the
\* client resumes from the last event it received, or reloads from the start.
Reconnect ==
    /\ client.pc # "closed" /\ reconnects < MaxReconnects
    /\ reconnects' = reconnects + 1
    /\ \E to \in {0, client.cursor} \union
                 (IF client.pc = "list" THEN {i \in Batch : \A j \in EndsIn(Batch) : i < j} ELSE {}) :
          client' = [client EXCEPT !.pc = "row", !.cursor = to]
    /\ UNCHANGED serverVars

ClientStep == ReadRow \/ ListEvents

-----------------------------------------------------------------------------
Next ==
    \/ WorkerStep \/ NoticeCancel \/ Failure
    \/ CancelRequest \/ ExpireSignal
    \/ ClientStep \/ Reconnect

\* The worker, its watcher and the server's polling loop keep running; a cancel
\* request that has begun is completed; nobody has to send one.
Fairness ==
    /\ WF_vars(WorkerStep) /\ WF_vars(NoticeCancel) /\ WF_vars(ClientStep)
    /\ \A c \in Cancellers : WF_vars(CancelLock(c) \/ CancelPublish(c) \/ CancelCommit(c))

Spec == Init /\ [][Next]_vars /\ Fairness
-----------------------------------------------------------------------------
(* Properties.                                                             *)

Calls ==
    [op : {"flush"}, th : Threads]
    \union [op : {"publish"}, type : {"custom", "interrupt", "error"}, th : Threads, ids : Seq(Nat)]
    \union [op : {"mark"}, status : TERMINAL_RUN_STATUSES]
    \union [op : {"end"}, status : TERMINAL_RUN_STATUSES, ids : Seq(Nat)]
    \union [op : {"peek", "check"}]

Events == [type : {"metadata", "messages", "custom", "interrupt", "error", "end"},
           th : Threads, ids : Seq(Nat), try : Nat,
           arg : TERMINAL_RUN_STATUSES \union {"none"}]

RowOK ==
    /\ status \in Status /\ outcome \in TERMINAL_RUN_STATUSES \union {"none"}
    /\ closedAt \in Nat
CancelOK ==
    /\ cancelPc \in [Cancellers -> {"idle", "loaded", "locked", "published", "done"}]
    /\ loaded \in [Cancellers -> Status]
    /\ earlyCancel \in BOOLEAN /\ signal \in BOOLEAN
QueueOK == job \in {"queued", "running", "done", "dead"} /\ job_try \in 0..MaxTries
ControlOK ==
    /\ pc \in {"idle", "load", "start", "user_not_found", "metadata", "stream", "plan", "close"}
    /\ plan \in Seq(Calls) /\ (pc = "plan" <=> plan # <<>>)
    /\ handling \in {"try", "except"} /\ leave \in {"stream", "return", "error", "lost"}
BusyOK == (job = "running") = (pc # "idle")
LocalsOK ==
    /\ agent \in {"init", "chat", "asked", "ended"}
    /\ delivered \in Seq(Threads) /\ buffer \in [Threads -> Seq(Nat)]
    /\ terminal_set \in BOOLEAN /\ cancel_event \in BOOLEAN
ClientOK ==
    /\ client \in [pc : {"row", "list", "closed"}, seen : Status, cursor : Nat,
                   end : TERMINAL_RUN_STATUSES \union {"none"}]
    /\ reconnects \in 0..MaxReconnects

VarsOK ==
    /\ RowOK /\ CancelOK /\ QueueOK /\ ControlOK /\ LocalsOK /\ ClientOK
    /\ stream \in Seq(Events) /\ faults \in 0..MaxFaults

\* Every variable has its type, a handler is running exactly when a call is left, and
\* ARQ holds the job running exactly while the function runs.
TypeOK == VarsOK /\ BusyOK

\* A client is told the end of a run only once the run has ended, and by then it
\* has been sent every event published before the row became terminal: the end it
\* gets may come from the log or be made up from the row (stream_agent_run_events
\* reads the row, then the log, and closes on an empty read only).
ClientSawEverything ==
    client.end # "none" => outcome # "none" /\ client.cursor >= closedAt

\* When no call failed, the first end event on the stream reports the terminal
\* status the row was given first, whatever cancels and retries interleave
\* (process_agent_run commits the row, then appends the end).
FirstEndAgrees ==
    LET ends == {i \in 1..Len(stream) : stream[i].type = "end"} IN
    \A i \in ends : faults = 0 /\ IsFirst(i, ends) => stream[i].arg = outcome

\* The chunks of one attempt reach the stream at most once and, thread by thread,
\* in the order the generator yielded them, although loading chunks are held back
\* in per-thread buffers and the others are not (ChunkedEventWriter).
ThreadOrder ==
    faults = 0 =>
    \A i, j \in 1..Len(stream) :
        i < j /\ stream[i].try = stream[j].try /\ stream[i].th = stream[j].th =>
        \A m \in 1..Len(stream[i].ids), n \in 1..Len(stream[j].ids) :
            stream[i].ids[m] < stream[j].ids[n]

\* A run that reports "completed" has published every chunk of its own thread by
\* then: nothing of the answer is left in the writer's buffer at the end event.
NothingHeldBack ==
    \A e \in 1..Len(stream) :
        faults = 0 /\ stream[e].type = "end" /\ stream[e].arg = "completed" /\ stream[e].try = job_try
        /\ agent = "ended" =>
        \A n \in 1..Len(delivered) : delivered[n] = "main" =>
            \E i \in 1..e : stream[i].try = job_try /\ \E m \in 1..Len(stream[i].ids) : stream[i].ids[m] = n

\* A cancel committed before the job was first delivered is honoured by the first
\* attempt, if the job did not wait until the key expired, although mark_running
\* overwrites cancel_requested: the key is looked at before the run can complete.
EarlyCancelHonoured ==
    faults = 0 /\ earlyCancel /\ job_try = 1 => outcome \in {"none", "cancelled", "failed"}

\* A terminal status is final (the guards of request_cancel, mark_running and
\* set_terminal_status return a terminal row untouched).
TerminalIsFinal ==
    [][(status \in TERMINAL_RUN_STATUSES) => (status' = status)]_vars

\* Every run ends, unless ARQ has given its job up: no attempt returns and leaves the
\* row open, and what a lost worker leaves behind is made good by the next delivery.
\* ARQ gives up a job whose function raised, and one whose deliveries were used up by
\* lost workers.  Without a failure of a call or a worker only the first can be, and
\* the client has been sent the error then.  Where RetriesOn is ARQ's rule the first is
\* the case that GivenUpOnlyAfterMaxTries is about.
ErrorSent == \E i \in 1..Len(stream) : stream[i].type = "error"
RunEnds == <>(outcome # "none" \/ (job = "dead" /\ (faults > 0 \/ ErrorSent)))

\* RetryableRunError is the error type that should trigger a retry: ARQ gives a
\* job up only after it was delivered max_tries times.
GivenUpOnlyAfterMaxTries == job = "dead" => job_try = MaxTries

\* A client of a run that has ended is told so, unless a stale cancel request has
\* taken the row out of its terminal status.
ClientIsTold ==
    (outcome # "none") ~> (client.end # "none" \/ status \notin TERMINAL_RUN_STATUSES)

\* What the pipeline promises a client: the feed of RunFeed, where an end is told
\* only behind everything that was published before the run closed.
Feed == INSTANCE RunFeed WITH
    published <- Len(stream), closed <- outcome # "none", mark <- closedAt,
    cursor <- client.cursor, told <- client.end # "none"
FeedSpec == Feed!Spec
=============================================================================
