----------------------------- MODULE RunStream -----------------------------
(***************************************************************************)
(* The web client of an agent run: one conversation thread of one page,    *)
(* as useAgentRunStream.js follows its runs.  Everything the page knows of *)
(* the thread (getThreadState), the snapshot in localStorage and the       *)
(* continuations of its asynchronous functions are the record `client`;    *)
(* each function that changes the thread's state is an operator from       *)
(* client to client of the same name, and each action is the code between  *)
(* two awaits.  The server side is what AgentRun promises its clients: a   *)
(* run logs events, its row ends once, and the end event comes last.       *)
(***************************************************************************)
EXTENDS Naturals, Sequences, FiniteSets

CONSTANTS MaxRuns,    \* runs the user may start on the thread
          MaxEvents,  \* events a run logs before its end
          MaxTroubles,  \* failing requests, broken connections, and times the
                        \* user leaves, reloads or comes back to the page
          Kinds       \* events considered

AllKinds == {"chunk", "retry", "ask", "stop", "error"}

ASSUME BoundsAssumption ==
    /\ MaxRuns \in Nat /\ MaxEvents \in Nat /\ MaxTroubles \in Nat
    /\ Kinds \subseteq AllKinds

VARIABLES
    status,  \* the row of a run; "asked" while its creation is under way
    log,     \* the event stream of a run
    parent,  \* the interrupted run a run resumes, or 0
    client,  \* the page
    troubles,   \* what has been used of MaxTroubles
    overtaken  \* history: a continuation acted on a thread that had moved on

serverVars == <<status, log, parent>>
vars == <<status, log, parent, client, troubles, overtaken>>

Runs == 1..MaxRuns
Created == {r \in Runs : status[r] \notin {"none", "asked", "refused"}}
Over == {"completed", "cancelled"}  \* RUN_TERMINAL_STATUSES; "failed" is "completed"
-----------------------------------------------------------------------------
(* The page.                                                               *)

\* No invocation of startRunStream owns ts.runStreamAbortController.
NoSub == [run |-> 0, phase |-> "none", pos |-> 0, saw |-> FALSE, back |-> FALSE]
NoSnap == [run |-> 0, seq |-> 0]

\* A page that has just been loaded: the thread is selected, nothing resumed.
Fresh(snapshot) ==
    [streaming |-> FALSE, active |-> 0, seq |-> 0, pending |-> 0,
     chunks |-> <<>>, human |-> FALSE, snap |-> snapshot,
     sub |-> NoSub,      \* the invocation of startRunStream that was not aborted
     dead |-> {},        \* invocations that were, as far as they still go on
     timers |-> {},      \* reconnections of scheduleRunReconnect
     resets |-> {},      \* finalizeRunStream, before its finally callback
     resumes |-> {[step |-> "begin", run |-> 0, seq |-> 0]},
     awaiting |-> {},    \* createAgentRun, before its answer
     away |-> FALSE]

\* What an aborted invocation still does: reading fails with AbortError; other
\* requests it has made are answered as usual.
Orphan(s) == [run |-> s.run, back |-> s.back,
              phase |-> IF s.phase = "read" THEN "aborted" ELSE s.phase]

stopRunStreamSubscription(c) ==
    IF c.sub = NoSub THEN c
    ELSE [c EXCEPT !.sub = NoSub, !.dead = @ \cup {Orphan(c.sub)}]

resetOnGoingConv(c) ==
    [stopRunStreamSubscription(c) EXCEPT !.chunks = <<>>, !.human = FALSE]

startRunStreamUnsaved(c, r, after, back) ==  \* mutant
    [stopRunStreamSubscription(c) EXCEPT
        !.sub = [run |-> r, phase |-> "read", pos |-> after, saw |-> FALSE, back |-> back],
        !.active = r, !.seq = after, !.streaming = TRUE]

startRunStream(c, r, after, back) ==
    [stopRunStreamSubscription(c) EXCEPT
        !.sub = [run |-> r, phase |-> "read", pos |-> after, saw |-> FALSE, back |-> back],
        !.active = r, !.seq = after, !.streaming = TRUE,
        !.snap = [run |-> r, seq |-> after]]

\* Showing the question again stops the stream's spinner.
restorePendingInterrupt(c) == [c EXCEPT !.streaming = @ /\ c.pending = 0]

finalizeRunStream(c, r, st) ==
    LET asked == st = "interrupted" /\ c.pending = r IN
    IF c.active # r THEN c
    ELSE [c EXCEPT !.streaming = FALSE,
                   !.active = IF asked THEN r ELSE 0,
                   !.snap = IF asked THEN [run |-> r, seq |-> c.seq] ELSE NoSnap,
                   !.pending = IF @ = r /\ ~asked THEN 0 ELSE @,
                   !.resets = @ \cup {[run |-> r, asked |-> asked]}]

preserveInterruptedRun(c, r, seq) ==
    [c EXCEPT !.active = r, !.seq = seq, !.streaming = FALSE,
              !.snap = [run |-> r, seq |-> seq]]

scheduleRunReconnect(c, r) ==
    IF c.active = r THEN [c EXCEPT !.timers = @ \cup {r}] ELSE c

\* The finally clause of startRunStream, and the function that awaited it.
Finally(c, back) ==
    [c EXCEPT !.streaming = @ /\ c.active # 0 /\ (back => c.pending = 0)]

UnwoundNever(c) == c  \* mutant

\* The AbortError is raised before anything but the code that aborted goes on.
Unwound(c) ==
    LET gone == {d \in c.dead : d.phase = "aborted"} IN
    IF gone = {} THEN c
    ELSE Finally([c EXCEPT !.dead = @ \ gone], \E d \in gone : d.back)

Finished(c) == Finally([c EXCEPT !.sub = NoSub], c.sub.back)

hasOngoingRunChunks(c) == c.chunks # <<>> \/ c.human

resolveRunResumeAfterSeq(c, snapshotRun) ==
    IF hasOngoingRunChunks(c) /\ c.active = snapshotRun THEN c.seq ELSE 0

\* The event handler of startRunStream, for an event of kind k that carries
\* the id `id` (0: none) and, if it is an end, the row's status st.
Asks(r) == \E i \in DOMAIN log[r] : log[r][i] = "ask"

Handled(c, k, id, st) ==
    LET r == c.sub.run
        d == IF id = 0 THEN c ELSE [c EXCEPT !.seq = id, !.snap = [run |-> r, seq |-> id]]
        last == [d EXCEPT !.sub.saw = TRUE]
    IN CASE k = "chunk" -> [d EXCEPT !.chunks = Append(@, <<r, id>>)]
         [] k = "retry" -> d
         [] k = "ask"   -> [d EXCEPT !.streaming = FALSE, !.pending = r]
         [] k = "stop"  -> [d EXCEPT !.streaming = FALSE]
         [] k = "error" -> finalizeRunStream([last EXCEPT !.pending = 0], r, "failed")
         [] k = "unavailable" -> finalizeRunStream(last, r, "none")
         [] k = "rowEnd" -> finalizeRunStream(last, r, st)
         [] k = "end"   -> finalizeRunStream(
                [last EXCEPT !.pending = IF Asks(r) THEN r
                                         ELSE IF st = "completed" THEN 0 ELSE @], r, st)

\* Events of a run that is no longer the active one, and those up to
\* runLastSeq, are ignored.
Receive(c, k, id, st) ==
    IF c.active = c.sub.run /\ (id = 0 \/ id > c.seq) THEN Handled(c, k, id, st) ELSE c
-----------------------------------------------------------------------------
(* The server: the worker of a run, and POST /agent/runs.                  *)

Closed(r) == \E i \in DOMAIN log[r] : log[r][i] \in {"ask", "stop", "error", "end"}
HasEnd(r) == \E i \in DOMAIN log[r] : log[r][i] = "end"
Ended(r) == status[r] \in Over \cup {"interrupted"}

Publish(r, k) ==
    /\ status[r] = "running" /\ ~Closed(r) /\ Len(log[r]) < MaxEvents
    /\ log' = [log EXCEPT ![r] = Append(@, k)]
    /\ UNCHANGED <<status, parent, client, troubles, overtaken>>

EndRow(r) ==
    /\ status[r] = "running"
    /\ \E st \in {"interrupted", "cancelled", "completed"} :
        /\ st = "interrupted" => \E i \in DOMAIN log[r] : log[r][i] \in {"ask", "stop"}
        /\ st = "cancelled" => \E i \in DOMAIN log[r] : log[r][i] = "stop"
        /\ st = "completed" => \A i \in DOMAIN log[r] : log[r][i] \notin {"ask", "stop"}
        /\ status' = [status EXCEPT ![r] = st]
    /\ UNCHANGED <<log, parent, client, troubles, overtaken>>

AppendEnd(r) ==
    /\ Ended(r) /\ ~HasEnd(r)
    /\ log' = [log EXCEPT ![r] = Append(@, "end")]
    /\ UNCHANGED <<status, parent, client, troubles, overtaken>>

Create(r) ==
    /\ status[r] = "asked" /\ \A q \in Runs : status[q] = "asked" => r <= q
    /\ status' = [status EXCEPT ![r] =
            IF parent[r] # 0 => status[parent[r]] = "interrupted" THEN "running" ELSE "refused"]
    /\ UNCHANGED <<log, parent, client, troubles, overtaken>>

\* GET /agent/threads/{thread}/active_run: the latest run, if it is not over.
ActiveRun ==
    {r \in Created : ~(status[r] \in Over) /\ \A q \in Created : q <= r}
-----------------------------------------------------------------------------
(* An open stream.                                                         *)

\* The page has not seen the end of run r and will go on with it.
Follows(r) ==
    \/ client.sub.run = r /\ client.sub.phase \in {"read", "check"}
    \/ r \in client.timers
    \/ \E d \in client.dead : d.run = r /\ d.phase = "check"

\* A continuation goes on although the thread is not where it left it: the
\* user has sent something, or the active run is none of those it is about.
\* (An answer about run r may find run r active, or no run as long as it does
\* not make r active again to show its question.)
ShowsAgain(r) == status[r] = "interrupted" /\ client.pending = r
At(r) == {r} \cup {q \in {0} : ~ShowsAgain(r)}
Heeds(rs) ==
    /\ overtaken' = (overtaken \/ client.awaiting # {} \/ client.active \notin rs)
    /\ UNCHANGED <<serverVars, troubles>>

ClientStep == UNCHANGED <<serverVars, troubles, overtaken>>
InTrouble == troubles < MaxTroubles /\ troubles' = troubles + 1
Trouble == InTrouble /\ UNCHANGED <<serverVars, overtaken>>
Reading == client.sub.phase = "read"

Deliver ==
    LET s == client.sub IN
    /\ Reading /\ s.pos < Len(log[s.run])
    /\ client' = Receive([client EXCEPT !.sub.pos = @ + 1],
                         log[s.run][s.pos + 1], s.pos + 1, status[s.run])
    /\ ClientStep

\* The response ends.  A stream without a terminal event is looked into.
Closing(c) ==
    IF c.sub.saw \/ c.active # c.sub.run THEN Finished(c)
    ELSE [c EXCEPT !.sub.phase = "check"]

\* The endpoint returns behind an end event; without one, it makes up an end
\* from the row, under the id of the last event, and returns.
Close ==
    LET s == client.sub IN
    /\ Reading /\ Ended(s.run) /\ s.pos = Len(log[s.run])
    /\ client' = IF HasEnd(s.run) THEN Closing(client)
                 ELSE Closing(Receive(client, "rowEnd", s.pos, status[s.run]))
    /\ ClientStep

\* SSE_MAX_CONNECTION_MINUTES, or a connection closed in between.
TimesOut == Reading /\ client' = Closing(client) /\ Trouble

\* The endpoint cannot read the row or the log: an error event without id.
Unavailable == Reading /\ client' = Closing(Receive(client, "unavailable", 0, "none")) /\ Trouble

\* The request fails or the connection breaks.
Breaks ==
    /\ Reading
    /\ client' = Finished(scheduleRunReconnect(client, client.sub.run))
    /\ Trouble

CheckedGivesUp(c, r, st) ==  \* mutant
    IF (st = "interrupted" /\ c.pending # r) \/ st \in Over THEN finalizeRunStream(c, r, st)
    ELSE IF st = "running" THEN scheduleRunReconnect(c, r)
    ELSE IF st = "interrupted" THEN preserveInterruptedRun(c, r, c.seq) ELSE c
CheckedFinal(c, r, st) == finalizeRunStream(c, r, st)  \* mutant
CheckedReconnects(c, r, st) == scheduleRunReconnect(c, r)  \* mutant

\* getAgentRun of a closed stream is answered with st, or fails.
Checked(c, r, st) ==
    IF (st = "interrupted" /\ c.pending # r) \/ st \in Over THEN finalizeRunStream(c, r, st)
    ELSE IF st # "interrupted" THEN scheduleRunReconnect(c, r)
    ELSE preserveInterruptedRun(c, r, c.seq)

Check(st) ==
    LET r == client.sub.run
        c == Checked(client, r, st)
    IN client' = IF st = "interrupted" /\ client.pending = r
                 THEN [c EXCEPT !.sub.phase = "preserve"] ELSE Finished(c)

Checking == client.sub.phase = "check"
CheckAnswered ==
    LET r == client.sub.run IN
    /\ Checking /\ Check(status[r])
    /\ overtaken' = (overtaken \/ (ShowsAgain(r) /\ client.active # r))
    /\ UNCHANGED <<serverVars, troubles>>
CheckFails == Checking /\ Check("unknown") /\ Trouble

Preserved ==
    /\ client.sub.phase = "preserve"
    /\ client' = Finished(restorePendingInterrupt(client))
    /\ ClientStep
-----------------------------------------------------------------------------
(* What goes on behind an aborted stream.                                  *)

Bury(d) == [client EXCEPT !.dead = @ \ {d}]

LateCheck(d, st) ==
    LET c == Checked(Bury(d), d.run, st) IN
    /\ d.phase = "check"
    /\ client' = IF st = "interrupted" /\ client.pending = d.run
                 THEN [c EXCEPT !.dead = @ \cup {[d EXCEPT !.phase = "preserve"]}]
                 ELSE Finally(c, d.back)

LateAnswer(d) == LateCheck(d, status[d.run]) /\ Heeds(At(d.run))

\* Nobody waits for this request any more (so its failure is none of
\* MaxTroubles), and yet a reconnection follows.
LateFailure(d) ==
    /\ LateCheck(d, "unknown")
    /\ overtaken' = (overtaken \/ client.active = d.run)
    /\ UNCHANGED <<serverVars, troubles>>

Unwind(d) ==
    /\ d.phase \in {"preserve", "restore"}
    /\ client' = IF d.phase = "restore" THEN restorePendingInterrupt(Bury(d))
                 ELSE Finally(restorePendingInterrupt(Bury(d)), d.back)
    /\ ClientStep

Reconnect(r) ==
    LET c == [client EXCEPT !.timers = @ \ {r}] IN
    \/ /\ c.active = r /\ c.sub = NoSub
       /\ client' = startRunStream(c, r, c.seq, FALSE) /\ Heeds({r})
    \/ /\ ~(c.active = r /\ c.sub = NoSub)
       /\ client' = c /\ ClientStep

\* The finally callback of finalizeRunStream, however the history request
\* ended: resetOnGoingConv is called without looking at the thread again.
\* Somebody follows run r again, or is about to.
Restarted(r) == r \in client.timers \/ (client.sub.run = r /\ ~client.sub.saw)

LateReset(f) ==
    LET c == resetOnGoingConv([client EXCEPT !.resets = @ \ {f}]) IN
    /\ client' = Unwound(IF f.asked THEN restorePendingInterrupt(c) ELSE c)
    /\ Heeds({0} \cup {r \in {f.run} : f.asked /\ ~Restarted(r)})
-----------------------------------------------------------------------------
(* resumeActiveRunForThread.                                               *)

Await(c, step, snapshot) ==
    [c EXCEPT !.resumes = @ \cup {[step |-> step, run |-> snapshot.run, seq |-> snapshot.seq]}]
Answered(x) == [client EXCEPT !.resumes = @ \ {x}]

\* Shows the question again behind an await of its own.
Preserve(c, r, seq) ==
    [preserveInterruptedRun(c, r, seq) EXCEPT
        !.dead = @ \cup {[run |-> r, back |-> TRUE, phase |-> "restore"]}]

\* From where the first await is: the run of an open stream, the run of the
\* snapshot unless that is too old, or else the thread's active run.
BeginResume(x) ==
    LET c == Answered(x) IN
    /\ x.step = "begin"
    /\ \/ /\ c.sub # NoSub
          /\ client' = IF c.active = 0 THEN restorePendingInterrupt(c)
                       ELSE Await(c, "live", [run |-> c.active, seq |-> 0])
          /\ ClientStep
       \/ /\ c.sub = NoSub
          /\ client' = IF c.snap = NoSnap THEN Await(c, "thread", NoSnap)
                       ELSE Await(c, "snapshot", c.snap)
          /\ ClientStep
       \/ /\ c.sub = NoSub /\ c.snap # NoSnap  \* ACTIVE_RUN_STORAGE_TTL_MS
          /\ client' = Await([c EXCEPT !.snap = NoSnap], "thread", NoSnap)
          /\ Trouble

ResumedOnTop(x, r, after) == Unwound(startRunStream(Answered(x), r, after, TRUE))  \* mutant

Resumed(x, r, after) ==
    Unwound(startRunStream(IF after = 0 THEN resetOnGoingConv(Answered(x)) ELSE Answered(x),
                           r, after, TRUE))

ResumeLive(x) ==
    LET c == stopRunStreamSubscription(Answered(x))
        known == status[x.run]
    IN
    /\ x.step = "live"
    /\ client' =
         IF known = "interrupted"
         THEN IF c.pending = x.run
              THEN Unwound(Preserve(c, x.run, IF c.snap = NoSnap THEN c.seq ELSE c.snap.seq))
              ELSE Resumed(x, x.run, 0)
         ELSE restorePendingInterrupt(
                IF known \in Over
                THEN Unwound([c EXCEPT !.active = 0, !.streaming = FALSE, !.snap = NoSnap,
                                       !.pending = IF @ = x.run THEN 0 ELSE @])
                ELSE Answered(x))
    /\ Heeds({x.run})

ResumeSnapshot(x) ==
    LET c == Answered(x)
        known == status[x.run]
    IN
    /\ x.step = "snapshot"
    /\ client' = IF known = "interrupted" /\ c.pending = x.run THEN Preserve(c, x.run, x.seq)
                 ELSE IF known = "running"
                      THEN Resumed(x, x.run, resolveRunResumeAfterSeq(c, x.run))
                 ELSE Await([c EXCEPT !.snap = NoSnap], "thread", NoSnap)
    /\ Heeds({r \in At(x.run) : r = x.run => client.seq = x.seq})

GiveUp(c) ==
    restorePendingInterrupt([c EXCEPT !.active = 0, !.seq = 0, !.streaming = FALSE,
                                      !.pending = 0, !.snap = NoSnap])

ResumeThread(x) ==
    LET c == Answered(x) IN
    /\ x.step = "thread"
    /\ \/ ActiveRun = {} /\ client' = GiveUp(c) /\ Heeds({0})
       \/ \E r \in ActiveRun :
            /\ client' = IF status[r] = "interrupted" /\ c.pending = r
                         THEN Preserve(c, r, c.seq) ELSE Resumed(x, r, 0)
            /\ Heeds(At(r))

\* The request of a step fails, as part of the trouble the resumption began with.
ResumeFails(x) ==
    LET c == Answered(x) IN
    \/ /\ x.step = "live"
       /\ client' = restorePendingInterrupt(c) /\ ClientStep
    \/ /\ x.step = "snapshot"
       /\ client' = Await([c EXCEPT !.snap = NoSnap], "thread", NoSnap) /\ ClientStep
    \/ /\ x.step = "thread"
       /\ client' = GiveUp(c) /\ Heeds({0})
-----------------------------------------------------------------------------
(* The user.                                                               *)

Here == ~client.away
Begin(c) == Await(c, "begin", NoSnap)

\* selectChat of another thread, and of this one again; visibilitychange;
\* reloading the page, which keeps the snapshot only.
Leave == Here /\ client' = Unwound([stopRunStreamSubscription(client) EXCEPT !.away = TRUE]) /\ Trouble
Return ==
    /\ client.away
    /\ client' = Begin(restorePendingInterrupt([client EXCEPT !.away = FALSE]))
    /\ ClientStep
Refocus == Here /\ client' = Begin(client) /\ Trouble
Reload == client' = Fresh(client.snap) /\ Trouble

Asking(r, p, c) ==
    /\ Here /\ status[r] = "none" /\ \A q \in Runs : status[q] = "none" => r <= q
    /\ status' = [status EXCEPT ![r] = "asked"]
    /\ parent' = [parent EXCEPT ![r] = p]
    /\ client' = Unwound([resetOnGoingConv(c) EXCEPT !.streaming = TRUE, !.human = p = 0,
                                                     !.awaiting = @ \cup {r}])
    /\ UNCHANGED <<log, troubles, overtaken>>

\* The cooldown behind a click may be over before anything else happens.
Send(r) == ~client.streaming /\ Asking(r, 0, [client EXCEPT !.pending = 0])
Reply(r) == client.pending # 0 /\ Asking(r, client.pending, [client EXCEPT !.pending = 0])

\* cancelAgentRun was answered; what it does to the run is EndRow.
StopRun ==
    /\ Here /\ client.streaming /\ client.active # 0
    /\ client' = [client EXCEPT !.pending = 0]
    /\ ClientStep

Arrived(r) == [client EXCEPT !.awaiting = @ \ {r}]

Response(r) ==
    /\ r \in client.awaiting /\ r \in Created
    /\ client' = Unwound(startRunStream(Arrived(r), r, 0, FALSE))
    /\ ClientStep

NotCreated(r) ==
    /\ r \in client.awaiting
    /\ client' = IF parent[r] = 0
                 THEN Unwound(resetOnGoingConv([Arrived(r) EXCEPT !.streaming = FALSE]))
                 ELSE [Arrived(r) EXCEPT !.streaming = FALSE, !.pending = parent[r]]
    /\ overtaken' = (overtaken \/ Follows(client.active))

Refused(r) == status[r] = "refused" /\ NotCreated(r) /\ UNCHANGED <<serverVars, troubles>>
CreateFails(r) == NotCreated(r) /\ UNCHANGED serverVars /\ InTrouble
-----------------------------------------------------------------------------
Init ==
    /\ status = [r \in Runs |-> "none"]
    /\ log = [r \in Runs |-> <<>>]
    /\ parent = [r \in Runs |-> 0]
    /\ client = [Fresh(NoSnap) EXCEPT !.resumes = {}]  \* a conversation begins
    /\ troubles = 0 /\ overtaken = FALSE

ServerNext ==
    \E r \in Runs : EndRow(r) \/ AppendEnd(r) \/ Create(r)
                    \/ \E k \in Kinds : Publish(r, k)

StreamNext ==
    \/ Deliver \/ Close \/ CheckAnswered \/ Preserved
    \/ \E d \in client.dead : LateAnswer(d) \/ Unwind(d)
    \/ \E r \in client.timers : Reconnect(r)
    \/ \E f \in client.resets : LateReset(f)
    \/ \E x \in client.resumes :
         BeginResume(x) \/ ResumeLive(x) \/ ResumeSnapshot(x) \/ ResumeThread(x)
    \/ \E r \in client.awaiting : Response(r) \/ Refused(r)

FaultNext ==
    \/ TimesOut \/ Unavailable \/ Breaks \/ CheckFails
    \/ \E d \in client.dead : LateFailure(d)
    \/ \E x \in client.resumes : ResumeFails(x)
    \/ \E r \in client.awaiting : CreateFails(r)

UserNext ==
    \/ Leave \/ Return \/ Refocus \/ Reload \/ StopRun
    \/ \E r \in Runs : Send(r) \/ Reply(r)

Next == ServerNext \/ StreamNext \/ FaultNext \/ UserNext

Spec == Init /\ [][Next]_vars /\ WF_vars(StreamNext) /\ WF_vars(\E r \in Runs : Create(r))
-----------------------------------------------------------------------------
Dead == [run : Runs, back : BOOLEAN, phase : {"check", "preserve", "restore"}]
Snaps == [run : 0..MaxRuns, seq : Nat]
Client ==
    [streaming : BOOLEAN, active : 0..MaxRuns, seq : Nat, pending : 0..MaxRuns,
     chunks : Seq(Runs \X Nat), human : BOOLEAN, snap : Snaps,
     sub : [run : 0..MaxRuns, phase : {"none", "read", "check", "preserve"}, pos : Nat,
            saw : BOOLEAN, back : BOOLEAN],
     dead : SUBSET Dead, timers : SUBSET Runs,
     resets : SUBSET [run : Runs, asked : BOOLEAN],
     resumes : SUBSET [step : {"begin", "live", "snapshot", "thread"},
                       run : 0..MaxRuns, seq : Nat],
     awaiting : SUBSET Runs, away : BOOLEAN]

TypeOK ==
    /\ status \in [Runs -> {"none", "asked", "refused", "running", "interrupted",
                            "cancelled", "completed"}]
    /\ log \in [Runs -> Seq(AllKinds \cup {"end"})]
    /\ parent \in [Runs -> 0..MaxRuns]
    /\ client \in Client /\ (client.sub = NoSub <=> client.sub.phase = "none")
    /\ troubles \in Nat /\ overtaken \in BOOLEAN

\* The snapshot a reload would start from names the run the page follows and
\* how far it got (saveActiveRunSnapshot and clearActiveRunSnapshot at every
\* change of activeRunId and runLastSeq), whatever continuations cross.
SnapshotAgrees ==
    client.snap.run # 0 /\ client.active # 0 =>
        client.snap = [run |-> client.active, seq |-> client.seq]

Coming == client.awaiting # {} \/ \E x \in client.resumes : x.step # "live"

\* While the page says that a reply is being written, something is there that
\* will end this: a stream, its check, a reconnection, a resumption or a
\* request.  The exception are threads on which a continuation acted that did
\* not look whether they had moved on (finalizeRunStream's finally callback,
\* the resumptions): those can cut a stream off for good.
SpinnerHasSource ==
    client.streaming /\ ~client.away => overtaken \/ Follows(client.active) \/ Coming

\* The chunks of run r on page c are those of its first n events, each once and
\* in their order.
Shown(c, r) == {k \in DOMAIN c.chunks : c.chunks[k][1] = r}
Whole(c, r, n) ==
    /\ n <= Len(log[r])
    /\ {c.chunks[k][2] : k \in Shown(c, r)} = {i \in 1..n : log[r][i] = "chunk"}
    /\ \A j, k \in Shown(c, r) : j < k => c.chunks[j][2] < c.chunks[k][2]

\* The page shows the chunks of the run it reads without a gap, a repetition
\* or a change of order, over reconnections (from runLastSeq), resumptions
\* (from 0-0 after a reset) and reloads, but for the same exception.
AnswerIsWhole ==
    client.sub.phase = "read" /\ client.sub.run = client.active =>
        overtaken \/ Whole(client, client.active, client.seq)

\* A run that goes on is not lost sight of but by a failure or a reload.
SightKept ==
    [][\A r \in Runs :
         client.active = r /\ client'.active = 0 /\ status[r] = "running" /\ ~Closed(r)
            => overtaken' \/ troubles' > troubles]_vars

\* Once the run the page waits for has ended, the page stops waiting.
Settles ==
    \A r \in Runs :
        client.streaming /\ client.active = r /\ Ended(r)
            ~> ~client.streaming \/ client.active # r \/ client.away \/ overtaken
=============================================================================
