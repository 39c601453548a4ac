--------------------------- MODULE AgentRunProofs ---------------------------
(***************************************************************************)
(* Proofs about AgentRun, for every number of cancel requests, tries,      *)
(* chunks, faults and reconnections.                                       *)
(***************************************************************************)
EXTENDS AgentRun, SequenceTheorems, FiniteSetTheorems, TLAPS

-----------------------------------------------------------------------------
(* Handlers are sequences of calls.                                        *)

LEMMA CallTypes ==
    /\ \A th \in Threads : Flush(th) \in Calls
    /\ \A type \in {"custom", "interrupt", "error"}, th \in Threads, ids \in Seq(Nat) :
         Publish(type, th, ids) \in Calls
    /\ \A s \in TERMINAL_RUN_STATUSES : Mark(s) \in Calls
    /\ \A s \in TERMINAL_RUN_STATUSES, ids \in Seq(Nat) : End(s, ids) \in Calls
    /\ Peek \in Calls /\ Check \in Calls
  BY DEF Calls, Flush, Publish, Mark, End, Peek, Check

LEMMA NoIds == <<>> \in Seq(Nat)
  OBVIOUS

LEMMA NoCalls == <<>> \in Seq(Calls)
  OBVIOUS

LEMMA FlushAllType == FlushAll \in Seq(Calls) /\ FlushAll # <<>>
  BY CallTypes DEF FlushAll, Threads

LEMMA FinishType ==
  ASSUME NEW s \in TERMINAL_RUN_STATUSES, NEW ids \in Seq(Nat)
  PROVE  Finish(s, ids) \in Seq(Calls)
  BY CallTypes DEF Finish

LEMMA CancelPlanType == CancelPlan \in Seq(Calls) /\ CancelPlan # <<>>
<1>1. Publish("interrupt", "main", <<>>) \in Calls
  BY NoIds DEF Publish, Calls, Threads
<1>2. Finish("cancelled", <<>>) \in Seq(Calls)
  BY FinishType, NoIds DEF TERMINAL_RUN_STATUSES
<1> QED BY <1>1, <1>2, FlushAllType DEF CancelPlan

LEMMA ErrorPlanType ==
  ASSUME NEW r \in BOOLEAN
  PROVE  ErrorPlan(r) \in Seq(Calls) /\ ErrorPlan(r) # <<>>
<1>1. Publish("error", "main", <<>>) \in Calls
  BY NoIds DEF Publish, Calls, Threads
<1>2. Finish("failed", <<>>) \in Seq(Calls)
  BY FinishType, NoIds DEF TERMINAL_RUN_STATUSES
<1> QED BY <1>1, <1>2, FlushAllType DEF ErrorPlan

LEMMA ExhaustPlanType == ExhaustPlan \in Seq(Calls) /\ ExhaustPlan # <<>>
<1>1. Finish("completed", <<>>) \in Seq(Calls)
  BY FinishType, NoIds DEF TERMINAL_RUN_STATUSES
<1> QED BY <1>1, FlushAllType DEF ExhaustPlan

LEMMA ChunkPlanType ==
  ASSUME NEW kind \in Kinds \ {"loading"}, NEW th \in Threads, NEW id \in Nat
  PROVE  ChunkPlan(kind, th, id) \in Seq(Calls) /\ ChunkPlan(kind, th, id) # <<>>
<1>1. <<id>> \in Seq(Nat)
  OBVIOUS
<1>2. /\ Finish("completed", <<id>>) \in Seq(Calls)
      /\ Finish("failed", <<>>) \in Seq(Calls)
      /\ Finish("interrupted", <<>>) \in Seq(Calls)
  BY <1>1, NoIds, FinishType DEF TERMINAL_RUN_STATUSES
<1>3. \A type \in {"custom", "interrupt", "error"} : Publish(type, th, <<id>>) \in Calls
  BY <1>1, CallTypes
<1>4. ChunkCalls(kind, th, id) \in Seq(Calls)
  <2>1. CASE kind = "event"
    BY <2>1, <1>3 DEF ChunkCalls
  <2>2. CASE kind = "finished"
    BY <2>2, <1>2 DEF ChunkCalls
  <2>3. CASE kind = "error"
    BY <2>3, <1>2, <1>3 DEF ChunkCalls
  <2>4. CASE kind = "ask"
    BY <2>4, <1>2, <1>3 DEF ChunkCalls
  <2>5. CASE kind = "interrupted"
    BY <2>5, <1>3, CallTypes DEF ChunkCalls
  <2> QED BY <2>1, <2>2, <2>3, <2>4, <2>5 DEF Kinds
<1>5. <<Flush(th)>> \in Seq(Calls) /\ <<Check>> \in Seq(Calls)
  BY CallTypes
<1> QED BY <1>4, <1>5 DEF ChunkPlan

-----------------------------------------------------------------------------
(* What the pieces an action is made of do to their part of the state.     *)

LEMMA CommitType ==
  ASSUME TypeOK, NEW s \in Status, Commit(s)
  PROVE  RowOK'
  BY LenProperties DEF TypeOK, VarsOK, RowOK, Commit

LEMMA SetTerminalType ==
  ASSUME TypeOK, NEW s \in TERMINAL_RUN_STATUSES, set_terminal_status(s)
  PROVE  RowOK'
  BY CommitType DEF set_terminal_status, Status, TypeOK, VarsOK, RowOK

LEMMA EmitType ==
  ASSUME TypeOK,
         NEW type \in {"metadata", "messages", "custom", "interrupt", "error", "end"},
         NEW th \in Threads, NEW ids \in Seq(Nat),
         NEW arg \in TERMINAL_RUN_STATUSES \union {"none"},
         Emit(type, th, ids, arg)
  PROVE  stream' \in Seq(Events)
<1>1. [type |-> type, th |-> th, ids |-> ids, arg |-> arg, try |-> job_try] \in Events
  BY DEF Events, TypeOK, VarsOK, QueueOK
<1> QED BY <1>1 DEF Emit, TypeOK, VarsOK

LEMMA EnterType ==
  ASSUME NEW p \in Seq(Calls), p # <<>>, NEW h \in {"try", "except"},
         NEW l \in {"stream", "return", "error", "lost"}, Enter(p, h, l)
  PROVE  ControlOK'
  BY DEF Enter, ControlOK

LEMMA ContinueType ==
  ASSUME TypeOK, NEW p \in Seq(Calls), Continue(p)
  PROVE  ControlOK'
  BY DEF Continue, ControlOK, TypeOK, VarsOK

LEMMA StepType ==
  ASSUME TypeOK, pc = "plan"
  PROVE  Head(plan) \in Calls /\ Tail(plan) \in Seq(Calls)
  BY HeadTailProperties DEF TypeOK, VarsOK, ControlOK

LEMMA RaiseErrorType ==
  ASSUME NEW r \in BOOLEAN, RaiseError(r)
  PROVE  ControlOK'
  BY EnterType, ErrorPlanType DEF RaiseError

LEMMA RaiseCancelledType ==
  ASSUME RaiseCancelled
  PROVE  ControlOK'
  BY EnterType, CancelPlanType DEF RaiseCancelled

LEMMA RaisedType ==
  ASSUME TypeOK, NEW r \in BOOLEAN, Raised(r)
  PROVE  ControlOK'
  BY RaiseErrorType, NoCalls DEF Raised, ControlOK, TypeOK, VarsOK

LEMMA JobEndsType ==
  ASSUME NEW how, JobEnds(how)
  PROVE  job' \in {"queued", "running", "done", "dead"} /\ ControlOK' /\ LocalsOK'
<1>1. job' \in {"queued", "running", "done", "dead"}
  BY DEF JobEnds
<1>2. ControlOK'
  BY NoCalls DEF JobEnds, FreshLocals, ControlOK
<1>3. <<>> \in Seq(Threads)
  OBVIOUS
<1>4. buffer' \in [Threads -> Seq(Nat)]
  BY NoIds DEF JobEnds, FreshLocals
<1>5. LocalsOK'
  BY <1>3, <1>4 DEF JobEnds, FreshLocals, LocalsOK
<1> QED BY <1>1, <1>2, <1>5

-----------------------------------------------------------------------------
(* Type correctness.                                                       *)

LEMMA CountUp ==
  ASSUME NEW m \in Nat, NEW n \in 0..m, n < m
  PROVE  n + 1 \in 0..m
  OBVIOUS

LEMMA FaultType ==
  ASSUME TypeOK, Fault
  PROVE  faults' \in 0..MaxFaults
  BY BoundsAssumption DEF TypeOK, VarsOK, Fault

LEMMA InitType == Init => TypeOK
<1> SUFFICES ASSUME Init PROVE TypeOK
  OBVIOUS
<1>2. /\ <<>> \in Seq(Threads) /\ <<>> \in Seq(Events)
      /\ 0 \in 0..MaxTries /\ 0 \in 0..MaxReconnects /\ 0 \in 0..MaxFaults
  BY TriesAssumption, BoundsAssumption
<1>3. RowOK
  BY DEF Init, RowOK, Status
<1>a. CancelOK
  BY DEF Init, CancelOK, Status
<1>b. QueueOK
  BY <1>2 DEF Init, QueueOK
<1>4. ControlOK
  BY NoCalls DEF Init, ControlOK
<1>c. LocalsOK
  BY <1>2, NoIds DEF Init, LocalsOK
<1>5. ClientOK
  BY <1>2 DEF Init, ClientOK, Status
<1> QED BY <1>2, <1>3, <1>4, <1>5, <1>a, <1>b, <1>c DEF Init, TypeOK, VarsOK, BusyOK

LEMMA CancelStepType ==
  ASSUME TypeOK, CancelRequest \/ ExpireSignal
  PROVE  VarsOK'
<1> USE DEF rowVars, cancelVars, queueVars, ctrlVars, agentVars, writerVars, clientVars
<1>1. ASSUME NEW c \in Cancellers, CancelLoad(c)
      PROVE  VarsOK'
  BY <1>1 DEF CancelLoad, TypeOK, VarsOK, RowOK, CancelOK, QueueOK, ControlOK, LocalsOK, ClientOK
<1>2. ASSUME NEW c \in Cancellers, CancelLock(c)
      PROVE  VarsOK'
  BY <1>2 DEF CancelLock, TypeOK, VarsOK, RowOK, CancelOK, QueueOK, ControlOK, LocalsOK, ClientOK
<1>3. ASSUME NEW c \in Cancellers, CancelPublish(c)
      PROVE  VarsOK'
  <2>1. faults' \in 0..MaxFaults
    BY <1>3, CountUp, BoundsAssumption DEF CancelPublish, TypeOK, VarsOK
  <2>2. CancelOK'
    BY <1>3 DEF CancelPublish, TypeOK, VarsOK, CancelOK
  <2> QED BY <1>3, <2>1, <2>2 DEF CancelPublish, TypeOK, VarsOK, RowOK, QueueOK, ControlOK, LocalsOK, ClientOK
<1>4. ASSUME NEW c \in Cancellers, CancelCommit(c)
      PROVE  VarsOK'
  <2>1. RowOK'
    BY <1>4, CommitType DEF CancelCommit, TypeOK, VarsOK, RowOK, Status
  <2> QED BY <2>1, <1>4 DEF CancelCommit, WritesCancel, TypeOK, VarsOK, CancelOK, QueueOK, ControlOK, LocalsOK, ClientOK
<1>5. CASE ExpireSignal
  <2>1. CancelOK'
    BY <1>5 DEF ExpireSignal, TypeOK, VarsOK, CancelOK
  <2> QED BY <1>5, <2>1 DEF ExpireSignal, TypeOK, VarsOK, RowOK, QueueOK, ControlOK, LocalsOK, ClientOK
<1> QED BY <1>1, <1>2, <1>3, <1>4, <1>5 DEF CancelRequest

LEMMA SetupStepType ==
  ASSUME TypeOK, StartJob \/ Load \/ UserNotFound \/ MarkRunning \/ Metadata
  PROVE  VarsOK'
<1> USE DEF rowVars, cancelVars, queueVars, ctrlVars, agentVars, writerVars, clientVars
<1>1. CASE StartJob
  <2>1. QueueOK'
    <3>1. CASE job_try < MaxTries
      BY <1>1, <3>1, CountUp, TriesAssumption DEF StartJob, TypeOK, VarsOK, QueueOK
    <3>2. CASE ~(job_try < MaxTries)
      BY <1>1, <3>2 DEF StartJob, TypeOK, VarsOK, QueueOK
    <3> QED BY <3>1, <3>2
  <2>2. ControlOK'
    BY <1>1 DEF StartJob, TypeOK, VarsOK, BusyOK, ControlOK
  <2> QED BY <1>1, <2>1, <2>2 DEF StartJob, TypeOK, VarsOK, RowOK, CancelOK, LocalsOK, ClientOK
<1>2. CASE Load
  <2>1. CASE NothingToDo
    BY <1>2, <2>1, JobEndsType DEF Load, TypeOK, VarsOK, RowOK, CancelOK, QueueOK, ClientOK
  <2>2. CASE ~NothingToDo
    BY <1>2, <2>2 DEF Load, TypeOK, VarsOK, RowOK, CancelOK, QueueOK, ControlOK, LocalsOK, ClientOK
  <2> QED BY <2>1, <2>2
<1>3. CASE UserNotFound
  <2>1. RowOK'
    BY <1>3, SetTerminalType DEF UserNotFound, TERMINAL_RUN_STATUSES
  <2> QED BY <1>3, <2>1, JobEndsType DEF UserNotFound, TypeOK, VarsOK, CancelOK, QueueOK, ClientOK
<1>4. CASE MarkRunning
  <2>1. RowOK'
    BY <1>4, CommitType DEF MarkRunning, mark_running, TypeOK, VarsOK, RowOK, Status
  <2> QED BY <1>4, <2>1 DEF MarkRunning, TypeOK, VarsOK, CancelOK, QueueOK, ControlOK, LocalsOK, ClientOK
<1>5. CASE Metadata
  <2>1. stream' \in Seq(Events)
    BY <1>5, EmitType, NoIds DEF Metadata, Threads
  <2> QED BY <1>5, <2>1 DEF Metadata, TypeOK, VarsOK, RowOK, CancelOK, QueueOK, ControlOK, LocalsOK, ClientOK
<1> QED BY <1>1, <1>2, <1>3, <1>4, <1>5

LEMMA StreamStepType ==
  ASSUME TypeOK,
         \/ NoticeCancel
         \/ \E th \in Threads : LoadingChunk(th)
         \/ \E kind \in Kinds, th \in Threads, next \in {"chat", "asked", "ended"} :
               Chunk(kind, th, next)
         \/ Exhausted \/ StreamCancelled \/ \E r \in BOOLEAN : AgentRaises(r)
  PROVE  VarsOK'
<1> USE DEF rowVars, cancelVars, queueVars, ctrlVars, agentVars, writerVars, clientVars
<1>1. CASE NoticeCancel
  BY <1>1 DEF NoticeCancel, TypeOK, VarsOK, RowOK, CancelOK, QueueOK, ControlOK, LocalsOK, ClientOK
<1>2. ASSUME NEW th \in Threads, LoadingChunk(th)
      PROVE  VarsOK'
  <2>1. ControlOK'
    <3>1. CASE UNCHANGED ctrlVars
      BY <3>1 DEF TypeOK, VarsOK, ControlOK
    <3>2. CASE Enter(<<Flush(th)>>, "try", "stream")
      <4>1. <<Flush(th)>> \in Seq(Calls)
        BY CallTypes
      <4> QED BY <3>2, <4>1, EnterType
    <3> QED BY <1>2, <3>1, <3>2 DEF LoadingChunk
  <2>2. LocalsOK'
    <3>1. delivered' \in Seq(Threads) /\ agent' = "chat"
      BY <1>2 DEF LoadingChunk, Take, TypeOK, VarsOK, LocalsOK
    <3>2. buffer' \in [Threads -> Seq(Nat)]
      <4>1. Len(delivered) + 1 \in Nat
        BY LenProperties DEF TypeOK, VarsOK, LocalsOK
      <4> QED BY <1>2, <4>1 DEF LoadingChunk, TypeOK, VarsOK, LocalsOK
    <3> QED BY <1>2, <3>1, <3>2 DEF LoadingChunk, TypeOK, VarsOK, LocalsOK
  <2> QED BY <1>2, <2>1, <2>2 DEF LoadingChunk, TypeOK, VarsOK, RowOK, CancelOK, QueueOK, ClientOK
<1>3. ASSUME NEW kind \in Kinds, NEW th \in Threads, NEW next \in {"chat", "asked", "ended"},
             Chunk(kind, th, next)
      PROVE  VarsOK'
  <2>1. ControlOK'
    <3>1. Len(delivered) + 1 \in Nat
      BY LenProperties DEF TypeOK, VarsOK, LocalsOK
    <3> QED BY <1>3, <3>1, ChunkPlanType, EnterType DEF Chunk
  <2>2. LocalsOK'
    BY <1>3 DEF Chunk, Take, TypeOK, VarsOK, LocalsOK
  <2> QED BY <1>3, <2>1, <2>2 DEF Chunk, TypeOK, VarsOK, RowOK, CancelOK, QueueOK, ClientOK
<1>4. CASE Exhausted
  <2>1. ControlOK'
    BY <1>4, ExhaustPlanType, EnterType DEF Exhausted
  <2> QED BY <1>4, <2>1 DEF Exhausted, TypeOK, VarsOK, RowOK, CancelOK, QueueOK, LocalsOK, ClientOK
<1>5. CASE StreamCancelled
  <2>1. ControlOK'
    BY <1>5, RaiseCancelledType DEF StreamCancelled
  <2> QED BY <1>5, <2>1 DEF StreamCancelled, TypeOK, VarsOK, RowOK, CancelOK, QueueOK, LocalsOK, ClientOK
<1>6. ASSUME NEW r \in BOOLEAN, AgentRaises(r)
      PROVE  VarsOK'
  <2>1. ControlOK'
    BY <1>6, RaiseErrorType DEF AgentRaises
  <2> QED BY <1>6, <2>1 DEF AgentRaises, TypeOK, VarsOK, RowOK, CancelOK, QueueOK, LocalsOK, ClientOK
<1> QED BY <1>1, <1>2, <1>3, <1>4, <1>5, <1>6

LEMMA CallStepType ==
  ASSUME TypeOK,
         DoFlush \/ DoPublish \/ DoMark \/ DoEnd \/ DoPeek \/ DoCheck \/ Close
  PROVE  VarsOK'
<1> USE DEF rowVars, cancelVars, queueVars, ctrlVars, agentVars, writerVars, clientVars
<1>1. CASE DoFlush
  <2> DEFINE th == Head(plan).th
  <2>1. th \in Threads
    BY <1>1, StepType DEF DoFlush, At, Calls
  <2>2. ControlOK'
    BY <1>1, StepType, ContinueType DEF DoFlush, At
  <2>3. LocalsOK' /\ stream' \in Seq(Events)
    <3>1. CASE buffer[th] = <<>>
      BY <1>1, <3>1 DEF DoFlush, TypeOK, VarsOK, LocalsOK
    <3>2. CASE buffer[th] # <<>>
      <4>1. buffer[th] \in Seq(Nat)
        BY <2>1 DEF TypeOK, VarsOK, LocalsOK
      <4>2. stream' \in Seq(Events)
        BY <1>1, <2>1, <3>2, <4>1, EmitType DEF DoFlush
      <4>3. buffer' \in [Threads -> Seq(Nat)]
        BY <1>1, <2>1, <3>2, NoIds DEF DoFlush, Forget, TypeOK, VarsOK, LocalsOK
      <4> QED BY <1>1, <4>2, <4>3 DEF DoFlush, TypeOK, VarsOK, LocalsOK
    <3> QED BY <3>1, <3>2
  <2> QED BY <1>1, <2>2, <2>3 DEF DoFlush, TypeOK, VarsOK, RowOK, CancelOK, QueueOK, ClientOK
<1>2. CASE DoPublish
  <2>1. Head(plan) \in Calls /\ Head(plan).op = "publish"
    BY <1>2, StepType DEF DoPublish, At
  <2>2. /\ Head(plan).type \in {"custom", "interrupt", "error"}
        /\ Head(plan).th \in Threads /\ Head(plan).ids \in Seq(Nat)
    BY <2>1 DEF Calls
  <2>3. stream' \in Seq(Events)
    BY <1>2, <2>2, EmitType DEF DoPublish
  <2>4. ControlOK'
    BY <1>2, StepType, ContinueType DEF DoPublish, At
  <2> QED BY <1>2, <2>3, <2>4 DEF DoPublish, TypeOK, VarsOK, RowOK, CancelOK, QueueOK, LocalsOK, ClientOK
<1>3. CASE DoMark
  <2>1. Head(plan) \in Calls /\ Head(plan).op = "mark"
    BY <1>3, StepType DEF DoMark, At
  <2>2. Head(plan).status \in TERMINAL_RUN_STATUSES
    BY <2>1 DEF Calls
  <2>3. RowOK'
    BY <1>3, <2>2, SetTerminalType DEF DoMark
  <2>4. ControlOK'
    BY <1>3, StepType, ContinueType DEF DoMark, At
  <2> QED BY <1>3, <2>3, <2>4 DEF DoMark, TypeOK, VarsOK, CancelOK, QueueOK, LocalsOK, ClientOK
<1>4. CASE DoEnd
  <2>1. Head(plan) \in Calls /\ Head(plan).op = "end"
    BY <1>4, StepType DEF DoEnd, At
  <2>2. Head(plan).status \in TERMINAL_RUN_STATUSES /\ Head(plan).ids \in Seq(Nat)
    BY <2>1 DEF Calls
  <2>3. stream' \in Seq(Events)
    BY <1>4, <2>2, EmitType DEF DoEnd, Threads
  <2>4. ControlOK'
    BY <1>4, StepType, ContinueType DEF DoEnd, At
  <2>5. LocalsOK'
    BY <1>4 DEF DoEnd, TypeOK, VarsOK, LocalsOK
  <2> QED BY <1>4, <2>3, <2>4, <2>5 DEF DoEnd, TypeOK, VarsOK, RowOK, CancelOK, QueueOK, ClientOK
<1>5. CASE DoPeek
  <2>1. ControlOK'
    <3> DEFINE s == IF status = "cancel_requested" THEN "cancelled" ELSE "interrupted"
    <3>1. s \in TERMINAL_RUN_STATUSES
      BY DEF TERMINAL_RUN_STATUSES
    <3>2. Finish(s, <<>>) \o Tail(plan) \in Seq(Calls)
      <4>1. Finish(s, <<>>) \in Seq(Calls)
        BY <3>1, NoIds, FinishType
      <4>2. Tail(plan) \in Seq(Calls)
        BY <1>5, StepType DEF DoPeek, At
      <4> QED BY <4>1, <4>2
    <3>3. Continue(Finish(s, <<>>) \o Tail(plan))
      BY <1>5 DEF DoPeek
    <3> QED BY <3>2, <3>3, ContinueType
  <2> QED BY <1>5, <2>1 DEF DoPeek, TypeOK, VarsOK, RowOK, CancelOK, QueueOK, LocalsOK, ClientOK
<1>6. CASE DoCheck
  <2>1. ControlOK'
    BY <1>6, RaiseCancelledType, StepType, ContinueType DEF DoCheck, At
  <2>2. LocalsOK'
    BY <1>6 DEF DoCheck, TypeOK, VarsOK, LocalsOK
  <2> QED BY <1>6, <2>1, <2>2 DEF DoCheck, TypeOK, VarsOK, RowOK, CancelOK, QueueOK, ClientOK
<1>7. CASE Close
  <2>1. CancelOK'
    BY <1>7 DEF Close, TypeOK, VarsOK, CancelOK
  <2> QED BY <1>7, <2>1, JobEndsType DEF Close, TypeOK, VarsOK, RowOK, QueueOK, ClientOK
<1> QED BY <1>1, <1>2, <1>3, <1>4, <1>5, <1>6, <1>7

LEMMA FailureType ==
  ASSUME TypeOK, Failure
  PROVE  VarsOK'
<1> USE DEF rowVars, cancelVars, queueVars, ctrlVars, agentVars, writerVars, clientVars
<1>1. faults' \in 0..MaxFaults
  BY FaultType DEF Failure, CallFails, ExpireFails, SetupFails, Stopped, WorkerDies,
                   KeyNotRead, KeyNotCleared
<1>2. CASE CallFails
  <2>1. ControlOK'
    BY <1>2, RaisedType DEF CallFails
  <2> QED BY <1>1, <1>2, <2>1 DEF CallFails, TypeOK, VarsOK, RowOK, CancelOK, QueueOK, LocalsOK, ClientOK
<1>3. CASE ExpireFails
  <2> DEFINE step == Head(plan)
  <2>1. step \in Calls
    BY <1>3, StepType DEF ExpireFails
  <2>2. stream' \in Seq(Events)
    <3>1. CASE step.op = "flush"
      <4>1. step.th \in Threads
        BY <2>1, <3>1 DEF Calls
      <4>2. buffer[step.th] \in Seq(Nat)
        BY <4>1 DEF TypeOK, VarsOK, LocalsOK
      <4> QED BY <1>3, <3>1, <4>1, <4>2, EmitType DEF ExpireFails
    <3>2. CASE step.op = "publish"
      <4>1. /\ step.type \in {"custom", "interrupt", "error"}
            /\ step.th \in Threads /\ step.ids \in Seq(Nat)
        BY <2>1, <3>2 DEF Calls
      <4> QED BY <1>3, <3>2, <4>1, EmitType DEF ExpireFails
    <3>3. CASE step.op = "end"
      <4>1. step.status \in TERMINAL_RUN_STATUSES /\ step.ids \in Seq(Nat)
        BY <2>1, <3>3 DEF Calls
      <4> QED BY <1>3, <3>3, <4>1, EmitType DEF ExpireFails, Threads
    <3> QED BY <1>3, <3>1, <3>2, <3>3 DEF ExpireFails
  <2>3. ControlOK'
    BY <1>3, RaisedType DEF ExpireFails
  <2> QED BY <1>1, <1>3, <2>2, <2>3 DEF ExpireFails, TypeOK, VarsOK, RowOK, CancelOK, QueueOK, LocalsOK, ClientOK
<1>4. CASE SetupFails
  BY <1>1, <1>4, JobEndsType DEF SetupFails, TypeOK, VarsOK, RowOK, CancelOK, QueueOK, ClientOK
<1>5. CASE Stopped
  <2>1. ControlOK'
    <3>1. CASE handling = "try"
      BY <1>5, <3>1, RaiseCancelledType DEF Stopped
    <3>2. CASE handling # "try"
      BY <1>5, <3>2, NoCalls DEF Stopped, TypeOK, VarsOK, ControlOK
    <3> QED BY <3>1, <3>2
  <2> QED BY <1>1, <1>5, <2>1 DEF Stopped, TypeOK, VarsOK, RowOK, CancelOK, QueueOK, LocalsOK, ClientOK
<1>6. CASE WorkerDies
  BY <1>1, <1>6, JobEndsType DEF WorkerDies, TypeOK, VarsOK, RowOK, CancelOK, QueueOK, ClientOK
<1>7. CASE KeyNotRead
  <2>1. ControlOK'
    BY <1>7, StepType, ContinueType DEF KeyNotRead, At
  <2> QED BY <1>1, <1>7, <2>1 DEF KeyNotRead, TypeOK, VarsOK, RowOK, CancelOK, QueueOK, LocalsOK, ClientOK
<1>8. CASE KeyNotCleared
  BY <1>1, <1>8, JobEndsType DEF KeyNotCleared, TypeOK, VarsOK, RowOK, CancelOK, QueueOK, ClientOK
<1> QED BY <1>2, <1>3, <1>4, <1>5, <1>6, <1>7, <1>8 DEF Failure

\* What a round of the server may send.
LEMMA BatchFacts ==
  ASSUME TypeOK
  PROVE  /\ Batch \subseteq 1..Len(stream)
         /\ \A i \in Batch : client.cursor < i
         /\ Cardinality(Batch) \in Nat
         /\ client.cursor <= Len(stream) => client.cursor + Cardinality(Batch) <= Len(stream)
         /\ Batch = {} => Len(stream) <= client.cursor
<1> DEFINE n == client.cursor
           hi == IF n + BatchLimit < Len(stream) THEN n + BatchLimit ELSE Len(stream)
<1>1. n \in Nat /\ Len(stream) \in Nat
  BY LenProperties DEF TypeOK, VarsOK, ClientOK
<1>2. hi \in Nat /\ hi <= Len(stream) /\ (n < Len(stream) => n < hi)
  BY <1>1, LimitAssumption
<1>3. Batch = (n + 1)..hi
  BY DEF Batch
<1> HIDE DEF n, hi
<1>4. Cardinality(Batch) = IF n + 1 > hi THEN 0 ELSE hi - (n + 1) + 1
  BY <1>1, <1>2, <1>3, FS_Interval
<1>5. Batch \subseteq 1..Len(stream) /\ \A i \in Batch : n < i
  BY <1>1, <1>2, <1>3
<1>6. Cardinality(Batch) \in Nat /\ (n <= Len(stream) => n + Cardinality(Batch) <= Len(stream))
  BY <1>1, <1>2, <1>4
<1>7. Batch = {} => Len(stream) <= n
  <2>1. n < Len(stream) => n + 1 \in Batch
    BY <1>1, <1>2, <1>3
  <2> QED BY <1>1, <2>1
<1> QED BY <1>5, <1>6, <1>7 DEF n

LEMMA ClientStepType ==
  ASSUME TypeOK, ClientStep \/ Reconnect
  PROVE  VarsOK'
<1> USE DEF rowVars, cancelVars, queueVars, ctrlVars, agentVars, writerVars, clientVars, serverVars
<1> DEFINE Clients == [pc : {"row", "list", "closed"}, seen : Status, cursor : Nat,
                       end : TERMINAL_RUN_STATUSES \union {"none"}]
<1>1. CASE ReadRow
  <2>1. client' \in Clients
    BY <1>1 DEF ReadRow, TypeOK, VarsOK, RowOK, ClientOK
  <2> QED BY <1>1, <2>1 DEF ReadRow, TypeOK, VarsOK, RowOK, CancelOK, QueueOK, ControlOK, LocalsOK, ClientOK
<1>2. CASE ListEvents
  <2>1. client' \in Clients
    <3>1. CASE EndSent
      <4>1. PICK i \in EndsIn(Batch) :
              client' = [client EXCEPT !.pc = "closed", !.cursor = i, !.end = stream[i].arg]
        BY <3>1 DEF EndSent
      <4>2. i \in 1..Len(stream)
        BY BatchFacts DEF EndsIn
      <4>3. stream[i] \in Events
        BY <4>2 DEF TypeOK, VarsOK
      <4>4. stream[i].arg \in TERMINAL_RUN_STATUSES \union {"none"} /\ i \in Nat
        BY <4>2, <4>3 DEF Events
      <4> QED BY <4>1, <4>4 DEF TypeOK, VarsOK, ClientOK
    <3>2. CASE BatchSent
      <4>1. CASE Drained
        BY <3>2, <4>1 DEF BatchSent, Drained, TypeOK, VarsOK, ClientOK
      <4>2. CASE ~Drained
        <5>1. client.cursor + Cardinality(Batch) \in Nat
          BY BatchFacts DEF TypeOK, VarsOK, ClientOK
        <5> QED BY <3>2, <4>2, <5>1 DEF BatchSent, TypeOK, VarsOK, ClientOK
      <4> QED BY <4>1, <4>2
    <3> QED BY <1>2, <3>1, <3>2 DEF ListEvents
  <2> QED BY <1>2, <2>1 DEF ListEvents, TypeOK, VarsOK, RowOK, CancelOK, QueueOK, ControlOK, LocalsOK, ClientOK
<1>3. CASE Reconnect
  <2>1. reconnects' \in 0..MaxReconnects
    BY <1>3, CountUp, BoundsAssumption DEF Reconnect, TypeOK, VarsOK, ClientOK
  <2>2. PICK to : /\ to \in {0, client.cursor} \union Batch
                  /\ client' = [client EXCEPT !.pc = "row", !.cursor = to]
    BY <1>3 DEF Reconnect
  <2>3. to \in Nat
    BY <2>2, BatchFacts DEF TypeOK, VarsOK, ClientOK
  <2>4. client' \in Clients
    BY <2>2, <2>3 DEF TypeOK, VarsOK, ClientOK
  <2>5. UNCHANGED <<rowVars, cancelVars, signal, stream, queueVars, ctrlVars, agentVars, writerVars, faults>>
    BY <1>3 DEF Reconnect
  <2> QED BY <2>1, <2>4, <2>5 DEF TypeOK, VarsOK, RowOK, CancelOK, QueueOK, ControlOK, LocalsOK, ClientOK
<1> QED BY <1>1, <1>2, <1>3 DEF ClientStep

LEMMA StutterType ==
  ASSUME TypeOK, UNCHANGED vars
  PROVE  TypeOK'
<1>1. VarsOK'
  BY DEF vars, rowVars, cancelVars, queueVars, ctrlVars, agentVars, writerVars, clientVars,
         TypeOK, VarsOK, RowOK, CancelOK, QueueOK, ControlOK, LocalsOK, ClientOK
<1> QED BY <1>1 DEF vars, queueVars, ctrlVars, TypeOK, BusyOK

\* ARQ hands the job over and takes it back together with the control of the function.
LEMMA BusyStep ==
  ASSUME TypeOK, Next
  PROVE  BusyOK'
<1> USE DEF queueVars, ctrlVars, TypeOK, BusyOK
<1>1. CASE WorkerStep
  <2>1. CASE StartJob \/ Load \/ UserNotFound \/ MarkRunning \/ Metadata \/ Close
    BY <2>1 DEF StartJob, Load, UserNotFound, MarkRunning, Metadata, Close, JobEnds
  <2>2. CASE \E th \in Threads : LoadingChunk(th)
    BY <2>2 DEF LoadingChunk, Take, Enter
  <2>3. CASE \E kind \in Kinds, th \in Threads, next \in {"chat", "asked", "ended"} :
                Chunk(kind, th, next)
    BY <2>3 DEF Chunk, Take, Enter
  <2>4. CASE Exhausted \/ StreamCancelled \/ \E r \in BOOLEAN : AgentRaises(r)
    BY <2>4 DEF Exhausted, StreamCancelled, AgentRaises, RaiseCancelled, RaiseError, Enter
  <2>5. CASE DoFlush \/ DoPublish \/ DoMark \/ DoEnd \/ DoPeek \/ DoCheck
    BY <2>5 DEF DoFlush, DoPublish, DoMark, DoEnd, DoPeek, DoCheck, At, Continue, RaiseCancelled, Enter
  <2> QED BY <1>1, <2>1, <2>2, <2>3, <2>4, <2>5 DEF WorkerStep
<1>2. CASE NoticeCancel \/ CancelRequest \/ ExpireSignal
  BY <1>2 DEF NoticeCancel, CancelRequest, CancelLoad, CancelLock, CancelPublish, CancelCommit, ExpireSignal
<1>3. CASE Failure
  BY <1>3 DEF Failure, CallFails, ExpireFails, SetupFails, Stopped, WorkerDies, KeyNotRead,
              KeyNotCleared, At, Continue, Raised,
              RaiseCancelled, RaiseError, Enter, JobEnds
<1>4. CASE ClientStep \/ Reconnect
  BY <1>4 DEF ClientStep, ReadRow, ListEvents, Reconnect, serverVars
<1> QED BY <1>1, <1>2, <1>3, <1>4 DEF Next

LEMMA NextType == TypeOK /\ [Next]_vars => TypeOK'
<1> SUFFICES ASSUME TypeOK, [Next]_vars PROVE TypeOK'
  OBVIOUS
<1>1. CASE Next
  <2>1. VarsOK'
    <3>1. CASE WorkerStep \/ NoticeCancel
      BY <3>1, SetupStepType, StreamStepType, CallStepType DEF WorkerStep
    <3>2. CASE Failure
      BY <3>2, FailureType
    <3>3. CASE CancelRequest \/ ExpireSignal
      BY <3>3, CancelStepType
    <3>4. CASE ClientStep \/ Reconnect
      BY <3>4, ClientStepType
    <3> QED BY <1>1, <3>1, <3>2, <3>3, <3>4 DEF Next
  <2> QED BY <1>1, <2>1, BusyStep DEF TypeOK
<1> QED BY <1>1, StutterType

\* In every behaviour every variable keeps its type, the worker's function has a call
\* left exactly while a handler runs, and it runs exactly while ARQ holds the job
\* running (process_agent_run, run by one worker at a time).
THEOREM TypeCorrect == Spec => []TypeOK
  BY InitType, NextType, PTL DEF Spec

-----------------------------------------------------------------------------
(* What a client is told.  The inductive invariant: an end is only ever    *)
(* published behind the commit that closed the row, and the client's       *)
(* cursor never runs ahead of the log.                                     *)

\* Every end event a handler will still publish comes behind a commit of its own.
FencedPlan(p) ==
    \A i \in 1..Len(p) : p[i].op = "end" => \E j \in 1..(i - 1) : p[j].op = "mark"

PlanFenced == outcome # "none" \/ FencedPlan(plan)

\* Whoever saw a terminal row, saw it after the run was closed.
RowClosed ==
    /\ status \in TERMINAL_RUN_STATUSES => outcome # "none"
    /\ client.seen \in TERMINAL_RUN_STATUSES => outcome # "none"

EndsBehindClose ==
    /\ closedAt <= Len(stream)
    /\ \A i \in 1..Len(stream) : stream[i].type = "end" => outcome # "none" /\ closedAt < i

ClientInside ==
    /\ client.cursor <= Len(stream)
    /\ client.end # "none" => client.pc = "closed"

IInv == TypeOK /\ PlanFenced /\ RowClosed /\ EndsBehindClose /\ ClientInside /\ ClientSawEverything

LEMMA FencedConcat ==
  ASSUME NEW p \in Seq(Calls), NEW q \in Seq(Calls), FencedPlan(p), FencedPlan(q)
  PROVE  FencedPlan(p \o q)
<1> SUFFICES ASSUME NEW i \in 1..Len(p \o q), (p \o q)[i].op = "end"
             PROVE  \E j \in 1..(i - 1) : (p \o q)[j].op = "mark"
  BY DEF FencedPlan
<1>1. CASE i <= Len(p)
  <2>1. p[i].op = "end"
    BY <1>1
  <2>2. PICK j \in 1..(i - 1) : p[j].op = "mark"
    BY <1>1, <2>1 DEF FencedPlan
  <2>3. (p \o q)[j] = p[j]
    BY <1>1, <2>2
  <2> QED BY <2>2, <2>3
<1>2. CASE i > Len(p)
  <2> DEFINE k == i - Len(p)
  <2>1. k \in 1..Len(q) /\ q[k].op = "end"
    BY <1>2
  <2>2. PICK j \in 1..(k - 1) : q[j].op = "mark"
    BY <2>1 DEF FencedPlan
  <2>3. j + Len(p) \in 1..(i - 1) /\ (p \o q)[j + Len(p)] = q[j]
    BY <1>2, <2>2
  <2> QED BY <2>2, <2>3
<1> QED BY <1>1, <1>2

LEMMA FencedTail ==
  ASSUME NEW p \in Seq(Calls), p # <<>>, FencedPlan(p), Head(p).op # "mark"
  PROVE  FencedPlan(Tail(p))
<1> SUFFICES ASSUME NEW i \in 1..Len(Tail(p)), Tail(p)[i].op = "end"
             PROVE  \E j \in 1..(i - 1) : Tail(p)[j].op = "mark"
  BY DEF FencedPlan
<1>1. Len(Tail(p)) = Len(p) - 1 /\ Len(p) \in Nat /\ \A k \in 1..Len(Tail(p)) : Tail(p)[k] = p[k + 1]
  BY HeadTailProperties, LenProperties
<1>2. i + 1 \in 1..Len(p) /\ p[i + 1].op = "end"
  BY <1>1
<1>3. PICK j \in 1..i : p[j].op = "mark"
  BY <1>1, <1>2 DEF FencedPlan
<1>4. j # 1
  BY <1>3
<1>5. j - 1 \in 1..(i - 1) /\ Tail(p)[j - 1] = p[j]
  BY <1>1, <1>3, <1>4
<1> QED BY <1>3, <1>5

\* An end event is the head of no fenced handler.
LEMMA FencedHead ==
  ASSUME NEW p \in Seq(Calls), p # <<>>, FencedPlan(p)
  PROVE  Head(p).op # "end"
  BY DEF FencedPlan

LEMMA FencedPieces ==
    /\ FencedPlan(FlushAll) /\ FencedPlan(<<>>)
    /\ FencedPlan(<<Peek>>) /\ FencedPlan(<<Check>>)
    /\ \A th : FencedPlan(<<Flush(th)>>)
    /\ \A type, th, ids : FencedPlan(<<Publish(type, th, ids)>>)
    /\ \A s, ids : FencedPlan(Finish(s, ids))
<1>1. FencedPlan(FlushAll) /\ FencedPlan(<<>>) /\ FencedPlan(<<Peek>>) /\ FencedPlan(<<Check>>)
  BY DEF FencedPlan, FlushAll, Flush, Peek, Check
<1>2. ASSUME NEW th PROVE FencedPlan(<<Flush(th)>>)
  BY DEF FencedPlan, Flush
<1>3. ASSUME NEW type, NEW th, NEW ids PROVE FencedPlan(<<Publish(type, th, ids)>>)
  BY DEF FencedPlan, Publish
<1>4. ASSUME NEW s, NEW ids PROVE FencedPlan(Finish(s, ids))
  <2>1. Finish(s, ids) = <<Mark(s), End(s, ids)>>
    BY DEF Finish
  <2>2. Mark(s).op = "mark" /\ Len(<<Mark(s), End(s, ids)>>) = 2
    BY DEF Mark
  <2> QED BY <2>1, <2>2 DEF FencedPlan
<1> QED BY <1>1, <1>2, <1>3, <1>4

\* Every end of a handler comes right behind the commit of the same status, and every
\* commit is followed by its end.
Paired(p) ==
    \A i \in 1..Len(p) :
        /\ p[i].op = "end" => i # 1 /\ p[i - 1].op = "mark" /\ p[i - 1].status = p[i].status
        /\ p[i].op = "mark" => i # Len(p) /\ p[i + 1].op = "end"

LEMMA PairedIsFenced ==
  ASSUME NEW p \in Seq(Calls), Paired(p)
  PROVE  FencedPlan(p)
<1> SUFFICES ASSUME NEW i \in 1..Len(p), p[i].op = "end"
             PROVE  \E j \in 1..(i - 1) : p[j].op = "mark"
  BY DEF FencedPlan
<1>1. i # 1 /\ p[i - 1].op = "mark"
  BY DEF Paired
<1>2. i - 1 \in 1..(i - 1)
  BY <1>1
<1> QED BY <1>1, <1>2

LEMMA PairedConcat ==
  ASSUME NEW p \in Seq(Calls), NEW q \in Seq(Calls), Paired(p), Paired(q)
  PROVE  Paired(p \o q)
<1> DEFINE c == p \o q
<1>1. /\ Len(p) \in Nat /\ Len(q) \in Nat /\ Len(c) = Len(p) + Len(q)
      /\ \A i \in 1..Len(p) : c[i] = p[i]
      /\ \A i \in 1..Len(q) : c[i + Len(p)] = q[i]
  BY ConcatProperties, LenProperties
<1> SUFFICES ASSUME NEW i \in 1..Len(c)
             PROVE  /\ c[i].op = "end" => i # 1 /\ c[i - 1].op = "mark" /\ c[i - 1].status = c[i].status
                    /\ c[i].op = "mark" => i # Len(c) /\ c[i + 1].op = "end"
  BY DEF Paired
<1> HIDE DEF c
<1>2. CASE i \in 1..Len(p)
  <2>1. c[i] = p[i] /\ (i # 1 => c[i - 1] = p[i - 1]) /\ (i # Len(p) => c[i + 1] = p[i + 1])
    BY <1>1, <1>2
  <2> QED BY <1>1, <1>2, <2>1 DEF Paired
<1>3. CASE i \notin 1..Len(p)
  <2> DEFINE k == i - Len(p)
  <2>1. k \in 1..Len(q) /\ i = k + Len(p)
    BY <1>1, <1>3
  <2>0. Len(p) \in Nat /\ Len(q) \in Nat /\ Len(c) = Len(p) + Len(q) /\ k \in Int
    BY <1>1, <2>1
  <2> HIDE DEF k
  <2>2. c[i] = q[k]
    BY <1>1, <2>1
  <2>3. k # 1 => i # 1 /\ c[i - 1] = q[k - 1]
    <3>1. k # 1 => k - 1 \in 1..Len(q) /\ i - 1 = (k - 1) + Len(p)
      BY ONLY <2>0, <2>1
    <3> QED BY <1>1, <2>0, <2>1, <3>1
  <2>4. k # Len(q) => i # Len(c) /\ c[i + 1] = q[k + 1]
    <3>1. k # Len(q) => k + 1 \in 1..Len(q) /\ i + 1 = (k + 1) + Len(p)
      BY ONLY <2>0, <2>1
    <3> QED BY <1>1, <2>0, <2>1, <3>1
  <2> QED BY <2>1, <2>2, <2>3, <2>4 DEF Paired
<1> QED BY <1>2, <1>3

LEMMA PairedPieces ==
    /\ Paired(FlushAll) /\ Paired(<<>>) /\ Paired(<<Peek>>) /\ Paired(<<Check>>)
    /\ \A th : Paired(<<Flush(th)>>)
    /\ \A type, th, ids : Paired(<<Publish(type, th, ids)>>)
    /\ \A s, ids : Paired(Finish(s, ids))
<1>1. Paired(FlushAll) /\ Paired(<<>>) /\ Paired(<<Peek>>) /\ Paired(<<Check>>)
  BY DEF Paired, FlushAll, Flush, Peek, Check
<1>2. ASSUME NEW th PROVE Paired(<<Flush(th)>>)
  BY DEF Paired, Flush
<1>3. ASSUME NEW type, NEW th, NEW ids PROVE Paired(<<Publish(type, th, ids)>>)
  BY DEF Paired, Publish
<1>4. ASSUME NEW s, NEW ids PROVE Paired(Finish(s, ids))
  <2>1. Finish(s, ids) = <<Mark(s), End(s, ids)>>
    BY DEF Finish
  <2>2. /\ Mark(s).op = "mark" /\ Mark(s).status = s
        /\ End(s, ids).op = "end" /\ End(s, ids).status = s
    BY DEF Mark, End
  <2> QED BY <2>1, <2>2 DEF Paired
<1> QED BY <1>1, <1>2, <1>3, <1>4

LEMMA PairedCancelPlan == Paired(CancelPlan)
<1>1. <<Publish("interrupt", "main", <<>>)>> \in Seq(Calls)
  <2>1. Publish("interrupt", "main", <<>>) \in Calls
    BY NoIds DEF Publish, Calls, Threads
  <2> QED BY <2>1
<1>2. Finish("cancelled", <<>>) \in Seq(Calls)
  BY FinishType, NoIds DEF TERMINAL_RUN_STATUSES
<1>3. Paired(<<Publish("interrupt", "main", <<>>)>> \o Finish("cancelled", <<>>))
  BY <1>1, <1>2, PairedPieces, PairedConcat
<1>4. <<Publish("interrupt", "main", <<>>)>> \o Finish("cancelled", <<>>) \in Seq(Calls)
  BY <1>1, <1>2
<1>5. Paired(FlushAll \o (<<Publish("interrupt", "main", <<>>)>> \o Finish("cancelled", <<>>)))
  BY <1>3, <1>4, PairedPieces, PairedConcat, FlushAllType
<1>6. CancelPlan = FlushAll \o (<<Publish("interrupt", "main", <<>>)>> \o Finish("cancelled", <<>>))
  BY <1>1, <1>2, FlushAllType, ConcatAssociative DEF CancelPlan
<1> QED BY <1>5, <1>6

LEMMA PairedErrorPlan ==
  ASSUME NEW r \in BOOLEAN
  PROVE  Paired(ErrorPlan(r))
<1> DEFINE last == IF r /\ ~_is_last_try THEN <<>> ELSE Finish("failed", <<>>)
<1>1. <<Publish("error", "main", <<>>)>> \in Seq(Calls)
  <2>1. Publish("error", "main", <<>>) \in Calls
    BY NoIds DEF Publish, Calls, Threads
  <2> QED BY <2>1
<1>2. last \in Seq(Calls) /\ Paired(last)
  BY FinishType, NoIds, NoCalls, PairedPieces DEF TERMINAL_RUN_STATUSES
<1> HIDE DEF last
<1>3. Paired(<<Publish("error", "main", <<>>)>> \o last)
  BY <1>1, <1>2, PairedPieces, PairedConcat
<1>4. <<Publish("error", "main", <<>>)>> \o last \in Seq(Calls)
  BY <1>1, <1>2
<1>5. Paired(FlushAll \o (<<Publish("error", "main", <<>>)>> \o last))
  BY <1>3, <1>4, PairedPieces, PairedConcat, FlushAllType
<1>6. ErrorPlan(r) = FlushAll \o (<<Publish("error", "main", <<>>)>> \o last)
  <2>1. ErrorPlan(r) = (FlushAll \o <<Publish("error", "main", <<>>)>>) \o last
    BY DEF ErrorPlan, last
  <2> QED BY <1>1, <1>2, <2>1, FlushAllType, ConcatAssociative
<1> QED BY <1>5, <1>6

LEMMA PairedExhaustPlan == Paired(ExhaustPlan)
<1> DEFINE last == IF terminal_set THEN <<>> ELSE Finish("completed", <<>>)
<1>1. last \in Seq(Calls) /\ Paired(last)
  BY FinishType, NoIds, NoCalls, PairedPieces DEF TERMINAL_RUN_STATUSES
<1> HIDE DEF last
<1>2. Paired(FlushAll \o last)
  BY <1>1, PairedPieces, PairedConcat, FlushAllType
<1> QED BY <1>2 DEF ExhaustPlan, last

LEMMA PairedChunkPlan ==
  ASSUME NEW kind \in Kinds \ {"loading"}, NEW th \in Threads, NEW id \in Nat
  PROVE  Paired(ChunkPlan(kind, th, id))
<1>1. \A type \in {"custom", "interrupt", "error"} :
        <<Publish(type, th, <<id>>)>> \in Seq(Calls) /\ Paired(<<Publish(type, th, <<id>>)>>)
  <2>1. <<id>> \in Seq(Nat)
    OBVIOUS
  <2>2. \A type \in {"custom", "interrupt", "error"} : Publish(type, th, <<id>>) \in Calls
    BY <2>1, CallTypes
  <2> QED BY <2>2, PairedPieces
<1>2. /\ Finish("completed", <<id>>) \in Seq(Calls)
      /\ Finish("failed", <<>>) \in Seq(Calls)
      /\ Finish("interrupted", <<>>) \in Seq(Calls)
  <2>1. <<id>> \in Seq(Nat)
    OBVIOUS
  <2> QED BY <2>1, NoIds, FinishType DEF TERMINAL_RUN_STATUSES
<1>3. ChunkCalls(kind, th, id) \in Seq(Calls) /\ Paired(ChunkCalls(kind, th, id))
  <2>1. CASE kind = "event"
    BY <2>1, <1>1 DEF ChunkCalls
  <2>2. CASE kind = "finished"
    BY <2>2, <1>2, PairedPieces DEF ChunkCalls
  <2>3. CASE kind = "error"
    <3>1. Paired(<<Publish("error", th, <<id>>)>> \o Finish("failed", <<>>))
      BY <1>1, <1>2, PairedPieces, PairedConcat
    <3>2. ChunkCalls(kind, th, id) = <<Publish("error", th, <<id>>)>> \o Finish("failed", <<>>)
      BY <2>3 DEF ChunkCalls
    <3> QED BY <3>1, <3>2, <1>1, <1>2
  <2>4. CASE kind = "ask"
    <3>1. Paired(<<Publish("interrupt", th, <<id>>)>> \o Finish("interrupted", <<>>))
      BY <1>1, <1>2, PairedPieces, PairedConcat
    <3>2. ChunkCalls(kind, th, id) = <<Publish("interrupt", th, <<id>>)>> \o Finish("interrupted", <<>>)
      BY <2>4 DEF ChunkCalls
    <3> QED BY <3>1, <3>2, <1>1, <1>2
  <2>5. CASE kind = "interrupted"
    <3>1. ChunkCalls(kind, th, id) = <<Publish("interrupt", th, <<id>>), Peek>>
      BY <2>5 DEF ChunkCalls
    <3>2. Paired(<<Publish("interrupt", th, <<id>>), Peek>>)
      BY DEF Paired, Publish, Peek
    <3> QED BY <3>1, <3>2, <1>1, CallTypes
  <2> QED BY <2>1, <2>2, <2>3, <2>4, <2>5 DEF Kinds
<1>4. <<Flush(th)>> \in Seq(Calls) /\ <<Check>> \in Seq(Calls)
  BY CallTypes
<1>5. Paired(ChunkCalls(kind, th, id) \o <<Check>>)
  BY <1>3, <1>4, PairedPieces, PairedConcat
<1>6. ChunkCalls(kind, th, id) \o <<Check>> \in Seq(Calls)
  BY <1>3, <1>4
<1>7. Paired(<<Flush(th)>> \o (ChunkCalls(kind, th, id) \o <<Check>>))
  BY <1>6, <1>4, <1>5, PairedPieces, PairedConcat
<1>8. ChunkPlan(kind, th, id) = <<Flush(th)>> \o (ChunkCalls(kind, th, id) \o <<Check>>)
  BY <1>3, <1>4 DEF ChunkPlan
<1> QED BY <1>7, <1>8

LEMMA FencedCancelPlan == FencedPlan(CancelPlan)
  BY PairedCancelPlan, CancelPlanType, PairedIsFenced

LEMMA FencedErrorPlan ==
  ASSUME NEW r \in BOOLEAN
  PROVE  FencedPlan(ErrorPlan(r))
  BY PairedErrorPlan, ErrorPlanType, PairedIsFenced

LEMMA FencedExhaustPlan == FencedPlan(ExhaustPlan)
  BY PairedExhaustPlan, ExhaustPlanType, PairedIsFenced

LEMMA FencedChunkPlan ==
  ASSUME NEW kind \in Kinds \ {"loading"}, NEW th \in Threads, NEW id \in Nat
  PROVE  FencedPlan(ChunkPlan(kind, th, id))
  BY PairedChunkPlan, ChunkPlanType, PairedIsFenced

\* What an action of the server may do to the row, the log and the client.
ServerEffect ==
    /\ client' = client
    /\ \/ UNCHANGED <<status, outcome, closedAt, stream>>
       \/ stream' = stream /\ \E s \in Status : Commit(s)
       \/ /\ UNCHANGED <<status, outcome, closedAt>>
          /\ \E e \in Events :
               /\ stream' = Append(stream, e)
               /\ e.type = "end" => outcome # "none" /\ e.arg # "none"

LEMMA OutcomeStays ==
  ASSUME ServerEffect, outcome # "none"
  PROVE  outcome' = outcome
  BY DEF ServerEffect, Commit

\* Where the handler that runs next is fenced, or the run is closed already.
LEMMA PlanKept ==
  ASSUME ServerEffect, PlanFenced, plan' = plan \/ FencedPlan(plan')
  PROVE  PlanFenced'
<1>1. CASE outcome # "none"
  BY <1>1, OutcomeStays DEF PlanFenced
<1>2. CASE outcome = "none"
  BY <1>2 DEF PlanFenced, FencedPlan
<1> QED BY <1>1, <1>2

LEMMA EmitEffect ==
  ASSUME TypeOK,
         NEW type \in {"metadata", "messages", "custom", "interrupt", "error", "end"},
         NEW th \in Threads, NEW ids \in Seq(Nat),
         NEW arg \in TERMINAL_RUN_STATUSES \union {"none"},
         Emit(type, th, ids, arg),
         type = "end" => outcome # "none" /\ arg # "none",
         UNCHANGED <<status, outcome, closedAt, client>>
  PROVE  ServerEffect
<1> DEFINE e == [type |-> type, th |-> th, ids |-> ids, arg |-> arg, try |-> job_try]
<1>1. e \in Events
  BY DEF Events, TypeOK, VarsOK, QueueOK
<1>2. stream' = Append(stream, e) /\ e.type = type /\ e.arg = arg
  BY DEF Emit
<1> QED BY <1>1, <1>2 DEF ServerEffect

LEMMA MarkEffect ==
  ASSUME TypeOK, NEW s \in TERMINAL_RUN_STATUSES, set_terminal_status(s),
         stream' = stream, client' = client
  PROVE  ServerEffect /\ outcome' # "none"
<1>1. PICK x \in TERMINAL_RUN_STATUSES : Commit(x)
  BY DEF set_terminal_status
<1>2. outcome' # "none"
  BY <1>1 DEF Commit, TERMINAL_RUN_STATUSES
<1> QED BY <1>1, <1>2 DEF ServerEffect, Status

LEMMA RaisedFenced ==
  ASSUME NEW r \in BOOLEAN, Raised(r)
  PROVE  FencedPlan(plan')
  BY FencedErrorPlan, FencedPieces DEF Raised, RaiseError, Enter

LEMMA JobEndsFenced ==
  ASSUME NEW how, JobEnds(how)
  PROVE  FencedPlan(plan')
  BY FencedPieces DEF JobEnds, FreshLocals

\* A handler that went on, or left, after a call that is no commit.
LEMMA NextCallFenced ==
  ASSUME TypeOK, pc = "plan", Head(plan).op # "mark", FencedPlan(plan), Continue(Tail(plan))
  PROVE  FencedPlan(plan')
  BY FencedTail DEF Continue, TypeOK, VarsOK, ControlOK

LEMMA SetupStepFenced ==
  ASSUME TypeOK, PlanFenced,
         \/ CancelRequest \/ ExpireSignal \/ NoticeCancel
         \/ StartJob \/ Load \/ UserNotFound \/ MarkRunning \/ Metadata
  PROVE  ServerEffect /\ PlanFenced'
<1> USE DEF rowVars, cancelVars, queueVars, ctrlVars, agentVars, writerVars, clientVars
<1>1. ServerEffect
  <2>1. CASE CancelRequest
    <3>1. PICK c \in Cancellers : CancelLoad(c) \/ CancelLock(c) \/ CancelPublish(c) \/ CancelCommit(c)
      BY <2>1 DEF CancelRequest
    <3>2. CASE CancelLoad(c) \/ CancelLock(c) \/ CancelPublish(c)
      BY <3>2 DEF CancelLoad, CancelLock, CancelPublish, ServerEffect
    <3>3. CASE CancelCommit(c)
      BY <3>3 DEF CancelCommit, ServerEffect, TypeOK, VarsOK, RowOK, Status
    <3> QED BY <3>1, <3>2, <3>3
  <2>2. CASE ExpireSignal \/ NoticeCancel \/ StartJob \/ Load
    BY <2>2 DEF ExpireSignal, NoticeCancel, StartJob, Load, ServerEffect
  <2>3. CASE UserNotFound
    BY <2>3, MarkEffect DEF UserNotFound, TERMINAL_RUN_STATUSES
  <2>4. CASE MarkRunning
    BY <2>4 DEF MarkRunning, mark_running, ServerEffect, TypeOK, VarsOK, RowOK, Status
  <2>5. CASE Metadata
    BY <2>5, EmitEffect, NoIds DEF Metadata, Threads
  <2> QED BY <2>1, <2>2, <2>3, <2>4, <2>5
<1>2. plan' = plan \/ FencedPlan(plan')
  <2>1. CASE CancelRequest
    BY <2>1 DEF CancelRequest, CancelLoad, CancelLock, CancelPublish, CancelCommit
  <2>2. CASE ExpireSignal \/ NoticeCancel \/ StartJob \/ MarkRunning \/ Metadata
    BY <2>2 DEF ExpireSignal, NoticeCancel, StartJob, MarkRunning, Metadata
  <2>3. CASE Load \/ UserNotFound
    BY <2>3, JobEndsFenced DEF Load, UserNotFound
  <2> QED BY <2>1, <2>2, <2>3
<1> QED BY <1>1, <1>2, PlanKept

LEMMA StreamStepFenced ==
  ASSUME TypeOK, PlanFenced,
         \/ \E th \in Threads : LoadingChunk(th)
         \/ \E kind \in Kinds, th \in Threads, next \in {"chat", "asked", "ended"} :
               Chunk(kind, th, next)
         \/ Exhausted \/ StreamCancelled \/ \E r \in BOOLEAN : AgentRaises(r)
  PROVE  ServerEffect /\ PlanFenced'
<1> USE DEF rowVars, cancelVars, queueVars, ctrlVars, agentVars, writerVars, clientVars
<1>1. ServerEffect
  BY DEF ServerEffect, LoadingChunk, Chunk, Exhausted, StreamCancelled, AgentRaises
<1>2. plan' = plan \/ FencedPlan(plan')
  <2>1. CASE \E th \in Threads : LoadingChunk(th)
    BY <2>1, FencedPieces DEF LoadingChunk, Enter
  <2>2. ASSUME NEW kind \in Kinds, NEW th \in Threads, NEW next \in {"chat", "asked", "ended"},
               Chunk(kind, th, next)
        PROVE  FencedPlan(plan')
    <3>1. Len(delivered) + 1 \in Nat
      BY LenProperties DEF TypeOK, VarsOK, LocalsOK
    <3> QED BY <2>2, <3>1, FencedChunkPlan DEF Chunk, Enter
  <2>3. CASE Exhausted \/ StreamCancelled \/ \E r \in BOOLEAN : AgentRaises(r)
    BY <2>3, FencedExhaustPlan, FencedCancelPlan, FencedErrorPlan
       DEF Exhausted, StreamCancelled, AgentRaises, RaiseCancelled, RaiseError, Enter
  <2> QED BY <2>1, <2>2, <2>3
<1> QED BY <1>1, <1>2, PlanKept

LEMMA CallStepFenced ==
  ASSUME TypeOK, PlanFenced,
         DoFlush \/ DoPublish \/ DoMark \/ DoEnd \/ DoPeek \/ DoCheck \/ Close
  PROVE  ServerEffect /\ PlanFenced'
<1> USE DEF rowVars, cancelVars, queueVars, ctrlVars, agentVars, writerVars, clientVars
<1> DEFINE step == Head(plan)
<1>1. CASE DoFlush
  <2>1. step.th \in Threads
    BY <1>1, StepType DEF DoFlush, At, Calls
  <2>2. buffer[step.th] \in Seq(Nat)
    BY <2>1 DEF TypeOK, VarsOK, LocalsOK
  <2>3. ServerEffect
    <3>1. CASE buffer[step.th] = <<>>
      BY <1>1, <3>1 DEF DoFlush, ServerEffect
    <3>2. CASE buffer[step.th] # <<>>
      BY <1>1, <2>1, <2>2, <3>2, EmitEffect DEF DoFlush
    <3> QED BY <3>1, <3>2
  <2> QED BY <1>1, <2>3, NextCallFenced, PlanKept, OutcomeStays DEF DoFlush, At, PlanFenced
<1>2. CASE DoPublish
  <2>1. step \in Calls /\ step.op = "publish"
    BY <1>2, StepType DEF DoPublish, At
  <2>2. step.type \in {"custom", "interrupt", "error"} /\ step.th \in Threads /\ step.ids \in Seq(Nat)
    BY <2>1 DEF Calls
  <2>3. ServerEffect
    BY <1>2, <2>2, EmitEffect DEF DoPublish
  <2> QED BY <1>2, <2>3, NextCallFenced, PlanKept, OutcomeStays DEF DoPublish, At, PlanFenced
<1>3. CASE DoMark
  <2>1. step \in Calls /\ step.op = "mark"
    BY <1>3, StepType DEF DoMark, At
  <2>2. step.status \in TERMINAL_RUN_STATUSES
    BY <2>1 DEF Calls
  <2> QED BY <1>3, <2>2, MarkEffect DEF DoMark, PlanFenced
<1>4. CASE DoEnd
  <2>1. step \in Calls /\ step.op = "end" /\ plan # <<>> /\ plan \in Seq(Calls)
    BY <1>4, StepType DEF DoEnd, At, TypeOK, VarsOK, ControlOK
  <2>2. step.status \in TERMINAL_RUN_STATUSES /\ step.ids \in Seq(Nat) /\ step.status # "none"
    BY <2>1 DEF Calls, TERMINAL_RUN_STATUSES
  <2>3. outcome # "none"
    BY <2>1, FencedHead DEF PlanFenced
  <2>4. ServerEffect
    BY <1>4, <2>2, <2>3, EmitEffect DEF DoEnd, Threads
  <2> QED BY <2>3, <2>4, OutcomeStays DEF PlanFenced
<1>5. CASE DoPeek
  <2>1. ServerEffect
    BY <1>5 DEF DoPeek, ServerEffect
  <2>2. CASE outcome # "none"
    BY <2>1, <2>2, OutcomeStays DEF PlanFenced
  <2>3. CASE outcome = "none"
    <3> DEFINE s == IF status = "cancel_requested" THEN "cancelled" ELSE "interrupted"
    <3>1. Finish(s, <<>>) \in Seq(Calls)
      <4>1. s \in TERMINAL_RUN_STATUSES
        BY DEF TERMINAL_RUN_STATUSES
      <4> QED BY <4>1, NoIds, FinishType
    <3>2. FencedPlan(Tail(plan)) /\ Tail(plan) \in Seq(Calls)
      BY <1>5, <2>3, StepType, FencedTail DEF DoPeek, At, PlanFenced, TypeOK, VarsOK, ControlOK
    <3>3. plan' = Finish(s, <<>>) \o Tail(plan)
      BY <1>5 DEF DoPeek, Continue
    <3>4. FencedPlan(plan')
      BY <3>1, <3>2, <3>3, FencedPieces, FencedConcat
    <3> QED BY <2>1, <3>4, PlanKept
  <2> QED BY <2>2, <2>3, <2>1
<1>6. CASE DoCheck
  <2>1. ServerEffect
    BY <1>6 DEF DoCheck, ServerEffect
  <2>2. CASE is_cancelled
    BY <1>6, <2>1, <2>2, FencedCancelPlan, PlanKept DEF DoCheck, RaiseCancelled, Enter
  <2>3. CASE ~is_cancelled
    BY <1>6, <2>1, <2>3, NextCallFenced, PlanKept, OutcomeStays DEF DoCheck, At, PlanFenced
  <2> QED BY <2>2, <2>3
<1>7. CASE Close
  <2>1. ServerEffect
    BY <1>7 DEF Close, ServerEffect
  <2> QED BY <1>7, <2>1, JobEndsFenced, PlanKept DEF Close
<1> QED BY <1>1, <1>2, <1>3, <1>4, <1>5, <1>6, <1>7

LEMMA FailureFenced ==
  ASSUME TypeOK, PlanFenced, Failure
  PROVE  ServerEffect /\ PlanFenced'
<1> USE DEF rowVars, cancelVars, queueVars, ctrlVars, agentVars, writerVars, clientVars
<1> DEFINE step == Head(plan)
<1>1. CASE CallFails
  <2>1. ServerEffect
    BY <1>1 DEF CallFails, ServerEffect
  <2> QED BY <1>1, <2>1, RaisedFenced, PlanKept DEF CallFails
<1>2. CASE ExpireFails
  <2>1. step \in Calls /\ plan # <<>> /\ plan \in Seq(Calls)
    BY <1>2, StepType DEF ExpireFails, TypeOK, VarsOK, ControlOK
  <2>2. ServerEffect
    <3>1. CASE step.op = "flush"
      <4>1. step.th \in Threads
        BY <2>1, <3>1 DEF Calls
      <4>2. buffer[step.th] \in Seq(Nat)
        BY <4>1 DEF TypeOK, VarsOK, LocalsOK
      <4> QED BY <1>2, <3>1, <4>1, <4>2, EmitEffect DEF ExpireFails
    <3>2. CASE step.op = "publish"
      <4>1. step.type \in {"custom", "interrupt", "error"} /\ step.th \in Threads /\ step.ids \in Seq(Nat)
        BY <2>1, <3>2 DEF Calls
      <4> QED BY <1>2, <3>2, <4>1, EmitEffect DEF ExpireFails
    <3>3. CASE step.op = "end"
      <4>1. step.status \in TERMINAL_RUN_STATUSES /\ step.ids \in Seq(Nat) /\ step.status # "none"
        BY <2>1, <3>3 DEF Calls, TERMINAL_RUN_STATUSES
      <4>2. outcome # "none"
        BY <2>1, <3>3, FencedHead DEF PlanFenced
      <4> QED BY <1>2, <3>3, <4>1, <4>2, EmitEffect DEF ExpireFails, Threads
    <3> QED BY <1>2, <3>1, <3>2, <3>3 DEF ExpireFails
  <2> QED BY <1>2, <2>2, RaisedFenced, PlanKept DEF ExpireFails
<1>3. CASE SetupFails \/ WorkerDies \/ KeyNotCleared
  <2>1. ServerEffect
    BY <1>3 DEF SetupFails, WorkerDies, KeyNotCleared, ServerEffect
  <2> QED BY <1>3, <2>1, JobEndsFenced, PlanKept DEF SetupFails, WorkerDies, KeyNotCleared
<1>4. CASE Stopped
  <2>1. ServerEffect
    BY <1>4 DEF Stopped, ServerEffect
  <2> QED BY <1>4, <2>1, FencedCancelPlan, FencedPieces, PlanKept DEF Stopped, RaiseCancelled, Enter
<1>5. CASE KeyNotRead
  <2>1. ServerEffect
    BY <1>5 DEF KeyNotRead, ServerEffect
  <2> QED BY <1>5, <2>1, NextCallFenced, PlanKept, OutcomeStays DEF KeyNotRead, At, PlanFenced
<1> QED BY <1>1, <1>2, <1>3, <1>4, <1>5 DEF Failure

LEMMA ServerStepFenced ==
  ASSUME TypeOK, PlanFenced,
         WorkerStep \/ NoticeCancel \/ Failure \/ CancelRequest \/ ExpireSignal
  PROVE  ServerEffect /\ PlanFenced'
<1>1. CASE WorkerStep
  BY <1>1, SetupStepFenced, StreamStepFenced, CallStepFenced DEF WorkerStep
<1>2. CASE NoticeCancel \/ CancelRequest \/ ExpireSignal
  BY <1>2, SetupStepFenced
<1>3. CASE Failure
  BY <1>3, FailureFenced
<1> QED BY <1>1, <1>2, <1>3

LEMMA ServerEffectKeeps ==
  ASSUME IInv, ServerEffect
  PROVE  RowClosed' /\ EndsBehindClose' /\ ClientInside' /\ ClientSawEverything'
<1> USE DEF IInv
<1>1. closedAt \in Nat /\ Len(stream) \in Nat /\ client.cursor \in Nat
  BY LenProperties DEF TypeOK, VarsOK, RowOK, ClientOK
<1>2. CASE UNCHANGED <<status, outcome, closedAt, stream>>
  BY <1>2 DEF ServerEffect, RowClosed, EndsBehindClose, ClientInside, ClientSawEverything
<1>3. ASSUME stream' = stream, NEW s \in Status, Commit(s)
      PROVE  RowClosed' /\ EndsBehindClose' /\ ClientInside' /\ ClientSawEverything'
  <2>1. CASE s \in TERMINAL_RUN_STATUSES /\ outcome = "none"
    <3>1. outcome' # "none" /\ closedAt' = Len(stream) /\ client' = client
      BY <1>3, <2>1 DEF Commit, TERMINAL_RUN_STATUSES, ServerEffect
    <3>2. \A i \in 1..Len(stream) : stream[i].type # "end"
      BY <2>1 DEF EndsBehindClose
    <3>3. client.end = "none"
      BY <2>1 DEF ClientSawEverything
    <3> QED BY <1>1, <1>3, <3>1, <3>2, <3>3 DEF RowClosed, EndsBehindClose, ClientInside, ClientSawEverything
  <2>2. CASE ~(s \in TERMINAL_RUN_STATUSES /\ outcome = "none")
    BY <1>3, <2>2 DEF Commit, ServerEffect, RowClosed, EndsBehindClose, ClientInside, ClientSawEverything
  <2> QED BY <2>1, <2>2
<1>4. ASSUME UNCHANGED <<status, outcome, closedAt>>, NEW e \in Events, stream' = Append(stream, e),
             e.type = "end" => outcome # "none"
      PROVE  RowClosed' /\ EndsBehindClose' /\ ClientInside' /\ ClientSawEverything'
  <2>1. /\ Len(stream') = Len(stream) + 1 /\ stream'[Len(stream) + 1] = e
        /\ \A i \in 1..Len(stream) : stream'[i] = stream[i]
    BY <1>4 DEF TypeOK, VarsOK
  <2>2. EndsBehindClose'
    BY <1>1, <1>4, <2>1 DEF EndsBehindClose
  <2>3. client' = client
    BY DEF ServerEffect
  <2> QED BY <1>1, <1>4, <2>1, <2>2, <2>3 DEF RowClosed, ClientInside, ClientSawEverything
<1> QED BY <1>2, <1>3, <1>4 DEF ServerEffect

\* What a step of the client does: another round, or the end.
ClientEffect ==
    /\ UNCHANGED <<status, outcome, closedAt, stream, plan>>
    /\ client.pc # "closed" /\ client.end = "none"
    /\ client'.cursor \in 0..Len(stream)
    /\ client'.seen \in TERMINAL_RUN_STATUSES => outcome # "none"
    /\ client'.end # "none" =>
          client'.pc = "closed" /\ outcome # "none" /\ client'.cursor >= closedAt

LEMMA ClientStepEffect ==
  ASSUME IInv, ClientStep \/ Reconnect
  PROVE  ClientEffect
<1> USE DEF IInv, rowVars, cancelVars, queueVars, ctrlVars, agentVars, writerVars, clientVars, serverVars
<1>1. /\ closedAt \in Nat /\ Len(stream) \in Nat /\ client.cursor \in Nat
      /\ client \in [pc : {"row", "list", "closed"}, seen : Status, cursor : Nat,
                     end : TERMINAL_RUN_STATUSES \union {"none"}]
  BY LenProperties DEF TypeOK, VarsOK, RowOK, ClientOK
<1>2. client.cursor \in 0..Len(stream)
  BY <1>1 DEF ClientInside
<1>3. client.pc # "closed" => client.end = "none"
  BY DEF ClientInside
<1>4. CASE ReadRow
  <2>1. client'.cursor = client.cursor /\ client'.seen = status /\ client'.end = client.end
    BY <1>1, <1>4 DEF ReadRow
  <2>2. client.pc # "closed" /\ UNCHANGED <<status, outcome, closedAt, stream, plan>>
    BY <1>4 DEF ReadRow
  <2> QED BY <1>2, <1>3, <2>1, <2>2 DEF ClientEffect, RowClosed
<1>5. CASE ListEvents
  <2>1. client.pc # "closed" /\ UNCHANGED <<status, outcome, closedAt, stream, plan>>
    BY <1>5 DEF ListEvents
  <2>2. CASE EndSent
    <3>1. PICK i \in EndsIn(Batch) :
            client' = [client EXCEPT !.pc = "closed", !.cursor = i, !.end = stream[i].arg]
      BY <2>2 DEF EndSent
    <3>2. i \in 1..Len(stream) /\ stream[i].type = "end"
      BY <3>1, BatchFacts DEF EndsIn
    <3>3. outcome # "none" /\ closedAt < i
      BY <3>2 DEF EndsBehindClose
    <3>4. client'.cursor = i /\ client'.pc = "closed" /\ client'.seen = client.seen
      BY <1>1, <3>1
    <3>5. client'.cursor \in 0..Len(stream) /\ client'.cursor >= closedAt
      BY <1>1, <3>2, <3>3, <3>4
    <3> QED BY <1>3, <2>1, <3>3, <3>4, <3>5 DEF ClientEffect
  <2>3. CASE BatchSent
    <3>1. CASE Drained
      <4>1. client' = [client EXCEPT !.pc = "closed", !.end = client.seen]
        BY <2>3, <3>1 DEF BatchSent
      <4>2. outcome # "none" /\ Len(stream) <= client.cursor
        BY <3>1, BatchFacts DEF Drained, RowClosed
      <4>3. client.cursor >= closedAt
        BY <1>1, <4>2 DEF EndsBehindClose
      <4>4. client'.cursor = client.cursor /\ client'.pc = "closed" /\ client'.seen = client.seen
        BY <1>1, <4>1
      <4> QED BY <1>2, <1>3, <2>1, <4>2, <4>3, <4>4 DEF ClientEffect
    <3>2. CASE ~Drained
      <4>1. client' = [client EXCEPT !.pc = "row", !.cursor = @ + Cardinality(Batch)]
        BY <2>3, <3>2 DEF BatchSent
      <4>2. /\ client'.cursor = client.cursor + Cardinality(Batch)
            /\ client'.seen = client.seen /\ client'.end = client.end
        BY <1>1, <4>1
      <4>3. client'.cursor \in 0..Len(stream)
        BY <1>1, <4>2, BatchFacts DEF ClientInside
      <4> QED BY <1>3, <2>1, <4>2, <4>3 DEF ClientEffect, RowClosed
    <3> QED BY <3>1, <3>2
  <2> QED BY <1>5, <2>2, <2>3 DEF ListEvents
<1>6. CASE Reconnect
  <2>1. client.pc # "closed" /\ UNCHANGED <<status, outcome, closedAt, stream, plan>>
    BY <1>6 DEF Reconnect
  <2>2. PICK to : /\ to \in {0, client.cursor} \union Batch
                  /\ client' = [client EXCEPT !.pc = "row", !.cursor = to]
    BY <1>6 DEF Reconnect
  <2>3. to \in 0..Len(stream)
    BY <1>1, <1>2, <2>2, BatchFacts
  <2>4. client'.cursor = to /\ client'.seen = client.seen /\ client'.end = client.end
    BY <1>1, <2>2
  <2> QED BY <1>3, <2>1, <2>3, <2>4 DEF ClientEffect, RowClosed
<1> QED BY <1>4, <1>5, <1>6 DEF ClientStep

LEMMA ClientEffectKeeps ==
  ASSUME IInv, ClientEffect
  PROVE  PlanFenced' /\ RowClosed' /\ EndsBehindClose' /\ ClientInside' /\ ClientSawEverything'
<1> USE DEF IInv
<1>1. PlanFenced' /\ EndsBehindClose'
  BY DEF ClientEffect, PlanFenced, FencedPlan, EndsBehindClose
<1>2. RowClosed'
  BY DEF ClientEffect, RowClosed
<1>3. ClientInside' /\ ClientSawEverything'
  <2>1. client'.cursor <= Len(stream)
    BY LenProperties DEF ClientEffect, TypeOK, VarsOK
  <2> QED BY <2>1 DEF ClientEffect, ClientInside, ClientSawEverything
<1> QED BY <1>1, <1>2, <1>3

LEMMA StutterKeeps ==
  ASSUME IInv, UNCHANGED vars
  PROVE  PlanFenced' /\ RowClosed' /\ EndsBehindClose' /\ ClientInside' /\ ClientSawEverything'
  BY DEF vars, rowVars, ctrlVars, clientVars, IInv, PlanFenced, FencedPlan, RowClosed,
         EndsBehindClose, ClientInside, ClientSawEverything

LEMMA InvInit == Init => IInv
<1> SUFFICES ASSUME Init PROVE IInv
  OBVIOUS
<1>1. TypeOK
  BY InitType
<1>2. PlanFenced
  BY FencedPieces DEF Init, PlanFenced
<1>3. RowClosed /\ EndsBehindClose /\ ClientInside /\ ClientSawEverything
  BY DEF Init, RowClosed, EndsBehindClose, ClientInside, ClientSawEverything, TERMINAL_RUN_STATUSES
<1> QED BY <1>1, <1>2, <1>3 DEF IInv

LEMMA InvStep == IInv /\ [Next]_vars => IInv'
<1> SUFFICES ASSUME IInv, [Next]_vars PROVE IInv'
  OBVIOUS
<1>1. TypeOK'
  BY NextType DEF IInv
<1>2. CASE WorkerStep \/ NoticeCancel \/ Failure \/ CancelRequest \/ ExpireSignal
  <2>1. ServerEffect /\ PlanFenced'
    BY <1>2, ServerStepFenced DEF IInv
  <2> QED BY <1>1, <2>1, ServerEffectKeeps DEF IInv
<1>3. CASE ClientStep \/ Reconnect
  BY <1>1, <1>3, ClientStepEffect, ClientEffectKeeps DEF IInv
<1>4. CASE UNCHANGED vars
  BY <1>1, <1>4, StutterKeeps DEF IInv
<1> QED BY <1>2, <1>3, <1>4 DEF Next

\* Whatever fails, retries, stops or reconnects, and for every batch size: a client is
\* told an end only of a run whose row became terminal, and not before it was sent every
\* event published until then (stream_agent_run_events, process_agent_run).
THEOREM NoEventMissed == Spec => []ClientSawEverything
<1>1. IInv => ClientSawEverything
  BY DEF IInv
<1> QED BY <1>1, InvInit, InvStep, PTL DEF Spec

-----------------------------------------------------------------------------
(* The pipeline implements the feed.                                       *)

LEMMA FeedInit == Init => Feed!Init
  BY DEF Init, Feed!Init

LEMMA FeedServerStep ==
  ASSUME IInv, ServerEffect
  PROVE  [Feed!Next]_Feed!vars
<1>1. client' = client
  BY DEF ServerEffect
<1>2. CASE UNCHANGED <<status, outcome, closedAt, stream>>
  BY <1>1, <1>2 DEF Feed!vars
<1>3. ASSUME stream' = stream, NEW s \in Status, Commit(s)
      PROVE  [Feed!Next]_Feed!vars
  <2>1. CASE s \in TERMINAL_RUN_STATUSES /\ outcome = "none"
    <3>1. Feed!CloseRun
      BY <1>1, <1>3, <2>1 DEF Commit, Feed!CloseRun, TERMINAL_RUN_STATUSES
    <3> QED BY <3>1 DEF Feed!Next
  <2>2. CASE ~(s \in TERMINAL_RUN_STATUSES /\ outcome = "none")
    BY <1>1, <1>3, <2>2 DEF Commit, Feed!vars
  <2> QED BY <2>1, <2>2
<1>4. ASSUME UNCHANGED <<status, outcome, closedAt>>, NEW e \in Events, stream' = Append(stream, e)
      PROVE  [Feed!Next]_Feed!vars
  <2>1. Len(stream') = Len(stream) + 1
    BY <1>4 DEF IInv, TypeOK, VarsOK
  <2>2. Feed!PublishEvent
    BY <1>1, <1>4, <2>1 DEF Feed!PublishEvent
  <2> QED BY <2>2 DEF Feed!Next
<1> QED BY <1>2, <1>3, <1>4 DEF ServerEffect

LEMMA FeedClientStep ==
  ASSUME IInv, ClientEffect
  PROVE  [Feed!Next]_Feed!vars
<1>1. closedAt \in Nat /\ Len(stream) \in Nat
  BY LenProperties DEF IInv, TypeOK, VarsOK, RowOK
<1>2. CASE client'.end # "none"
  <2>1. client'.cursor \in closedAt..Len(stream)
    BY <1>1, <1>2 DEF ClientEffect
  <2>2. Feed!Tell
    BY <1>2, <2>1 DEF ClientEffect, Feed!Tell
  <2> QED BY <2>2 DEF Feed!Next
<1>3. CASE client'.end = "none"
  <2>1. Feed!Move
    BY <1>3 DEF ClientEffect, Feed!Move
  <2> QED BY <2>1 DEF Feed!Next
<1> QED BY <1>2, <1>3

LEMMA FeedStep == IInv /\ [Next]_vars => [Feed!Next]_Feed!vars
<1> SUFFICES ASSUME IInv, [Next]_vars PROVE [Feed!Next]_Feed!vars
  OBVIOUS
<1>1. CASE WorkerStep \/ NoticeCancel \/ Failure \/ CancelRequest \/ ExpireSignal
  <2>1. ServerEffect
    BY <1>1, ServerStepFenced DEF IInv
  <2> QED BY <2>1, FeedServerStep
<1>2. CASE ClientStep \/ Reconnect
  BY <1>2, ClientStepEffect, FeedClientStep
<1>3. CASE UNCHANGED vars
  BY <1>3 DEF vars, rowVars, clientVars, Feed!vars
<1> QED BY <1>1, <1>2, <1>3 DEF Next

\* The pipeline implements RunFeed: events are only appended, the run closes once, and
\* what the client receives moves along the log until it is told an end it may be told.
THEOREM FeedImplemented == Spec => FeedSpec
<1> QED BY InvInit, InvStep, FeedInit, FeedStep, PTL DEF Spec, FeedSpec, Feed!Spec

-----------------------------------------------------------------------------
(* The first end on the stream.  While no call fails, a commit of a run    *)
(* that was open is followed by its end at once.                           *)

NoEnd == \A i \in 1..Len(stream) : stream[i].type # "end"
EndNext == plan # <<>> /\ Head(plan).op = "end"

Paced ==
    /\ IF EndNext THEN Paired(Tail(plan)) ELSE Paired(plan)
    /\ NoEnd /\ EndNext => outcome = Head(plan).status
    /\ NoEnd /\ outcome # "none" => EndNext \/ job = "done"

EndInv == faults = 0 => Paced /\ FirstEndAgrees

LEMMA PairedTail ==
  ASSUME NEW p \in Seq(Calls), p # <<>>, Paired(p), Head(p).op # "mark"
  PROVE  Paired(Tail(p))
<1> DEFINE q == Tail(p)
<1>1. Len(q) = Len(p) - 1 /\ Len(p) \in Nat /\ \A k \in 1..Len(q) : q[k] = p[k + 1]
  BY HeadTailProperties, LenProperties
<1>2. Head(p) = p[1]
  OBVIOUS
<1> SUFFICES ASSUME NEW i \in 1..Len(q)
             PROVE  /\ q[i].op = "end" => i # 1 /\ q[i - 1].op = "mark" /\ q[i - 1].status = q[i].status
                    /\ q[i].op = "mark" => i # Len(q) /\ q[i + 1].op = "end"
  BY DEF Paired
<1> HIDE DEF q
<1>3. i + 1 \in 1..Len(p) /\ q[i] = p[i + 1] /\ i + 1 # 1
  BY <1>1
<1>4. i # 1 => q[i - 1] = p[i]
  BY <1>1
<1>5. i # Len(q) => q[i + 1] = p[i + 2]
  BY <1>1
<1>6. p[i + 1].op = "end" => p[i].op = "mark" /\ p[i].status = p[i + 1].status
  <2>1. (i + 1) - 1 = i
    OBVIOUS
  <2> QED BY <1>3, <2>1 DEF Paired
<1>7. p[i + 1].op = "mark" => i + 1 # Len(p) /\ p[i + 2].op = "end"
  <2>1. (i + 1) + 1 = i + 2
    OBVIOUS
  <2> QED BY <1>3, <2>1 DEF Paired
<1> QED BY <1>1, <1>2, <1>3, <1>4, <1>5, <1>6, <1>7

\* Behind a commit comes the end of the same status.
LEMMA PairedMark ==
  ASSUME NEW p \in Seq(Calls), p # <<>>, Paired(p), Head(p).op = "mark"
  PROVE  LET q == Tail(p)
         IN q # <<>> /\ Head(q).op = "end" /\ Head(q).status = Head(p).status /\ Paired(Tail(q))
<1> DEFINE q == Tail(p)
           t == Tail(q)
<1>1. Len(q) = Len(p) - 1 /\ Len(p) \in Nat \ {0} /\ Head(p) = p[1] /\ q \in Seq(Calls)
      /\ \A k \in 1..Len(q) : q[k] = p[k + 1]
  BY HeadTailProperties, LenProperties
<1>2. 1 # Len(p) /\ p[2].op = "end" /\ p[1].status = p[2].status
  <2>1. 1 \in 1..Len(p) /\ 1 + 1 = 2 /\ 2 - 1 = 1
    BY <1>1
  <2>2. 1 # Len(p) /\ p[2].op = "end"
    BY <1>1, <2>1 DEF Paired
  <2>3. 2 \in 1..Len(p)
    BY <1>1, <2>2
  <2> QED BY <2>1, <2>2, <2>3 DEF Paired
<1>3. q # <<>> /\ Head(q) = q[1] /\ q[1] = p[2]
  <2> HIDE DEF q
  <2>1. 1 \in 1..Len(q) /\ 1 + 1 = 2
    BY <1>1, <1>2
  <2>2. q # <<>>
    BY <1>1, <2>1
  <2> QED BY <1>1, <2>1, <2>2
<1>4. Len(t) = Len(p) - 2 /\ \A k \in 1..Len(t) : t[k] = p[k + 2]
  <2>1. Len(t) = Len(q) - 1 /\ \A k \in 1..Len(t) : t[k] = q[k + 1]
    BY <1>1, <1>3, HeadTailProperties
  <2> QED BY <1>1, <2>1
<1> HIDE DEF q, t
<1>5. ASSUME NEW i \in 1..Len(t)
      PROVE  /\ t[i].op = "end" => i # 1 /\ t[i - 1].op = "mark" /\ t[i - 1].status = t[i].status
             /\ t[i].op = "mark" => i # Len(t) /\ t[i + 1].op = "end"
  <2>1. i + 2 \in 1..Len(p) /\ i + 2 # 1 /\ (i + 2) - 1 = i + 1 /\ (i + 2) + 1 = i + 3
    BY <1>1, <1>4
  <2>2. p[i + 2].op = "end" => p[i + 1].op = "mark" /\ p[i + 1].status = p[i + 2].status
    BY <2>1 DEF Paired
  <2>3. p[i + 2].op = "mark" => i + 2 # Len(p) /\ p[i + 3].op = "end"
    BY <2>1 DEF Paired
  <2>4. t[i] = p[i + 2] /\ (i # 1 => t[i - 1] = p[i + 1]) /\ (i # Len(t) => t[i + 1] = p[i + 3])
    <3>1. Len(t) \in Nat
      BY <1>1, <1>2, <1>4
    <3>2. i # 1 => i - 1 \in 1..Len(t) /\ (i - 1) + 2 = i + 1
      BY <3>1
    <3>3. i # Len(t) => i + 1 \in 1..Len(t) /\ (i + 1) + 2 = i + 3
      BY <3>1
    <3> QED BY <1>4, <3>2, <3>3
  <2> QED BY <1>1, <1>2, <1>4, <2>2, <2>3, <2>4
<1>6. Paired(t)
  BY <1>5 DEF Paired
<1> QED BY <1>1, <1>2, <1>3, <1>6 DEF q, t

LEMMA PairedHead ==
  ASSUME NEW p \in Seq(Calls), p # <<>>, Paired(p)
  PROVE  Head(p).op # "end"
  BY DEF Paired

\* Steps that neither close the run nor append an end.
EndSilent ==
    /\ outcome' = outcome
    /\ stream' = stream \/ \E e \in Events : e.type # "end" /\ stream' = Append(stream, e)

LEMMA SilentKeeps ==
  ASSUME TypeOK, EndSilent
  PROVE  /\ NoEnd' <=> NoEnd
         /\ faults = 0 /\ FirstEndAgrees => FirstEndAgrees'
<1>1. CASE stream' = stream
  BY <1>1 DEF EndSilent, NoEnd, FirstEndAgrees, IsFirst
<1>2. ASSUME NEW e \in Events, e.type # "end", stream' = Append(stream, e)
      PROVE  (NoEnd' <=> NoEnd) /\ (faults = 0 /\ FirstEndAgrees => FirstEndAgrees')
  <2>1. /\ Len(stream') = Len(stream) + 1 /\ Len(stream) \in Nat /\ stream'[Len(stream) + 1] = e
        /\ \A i \in 1..Len(stream) : stream'[i] = stream[i]
    BY <1>2 DEF TypeOK, VarsOK
  <2>2. {i \in 1..Len(stream') : stream'[i].type = "end"} = {i \in 1..Len(stream) : stream[i].type = "end"}
    BY <1>2, <2>1
  <2>3. NoEnd' <=> NoEnd
    BY <1>2, <2>1 DEF NoEnd
  <2> QED BY <2>1, <2>2, <2>3 DEF FirstEndAgrees, IsFirst, EndSilent
<1> QED BY <1>1, <1>2 DEF EndSilent

\* A run that is open, or has told its end: nothing is owed.
Even == NoEnd => outcome = "none"

LEMMA HandlerBegins ==
  ASSUME TypeOK, EndInv, faults = 0, EndSilent, Even,
         plan' \in Seq(Calls), Paired(plan')
  PROVE  EndInv'
<1>1. ~ EndNext'
  BY PairedHead DEF EndNext
<1>2. Paced'
  BY <1>1, SilentKeeps DEF Paced, Even, EndSilent
<1> QED BY <1>2, SilentKeeps DEF EndInv

LEMMA EndsKept ==
  ASSUME TypeOK, EndInv, faults = 0, EndSilent, plan' = plan, job' = job \/ Even
  PROVE  EndInv'
  BY SilentKeeps DEF EndInv, Paced, EndNext, EndSilent, Even

\* Where no end is the next call and the job is not done, nothing is owed.
LEMMA NothingOwed ==
  ASSUME TypeOK, EndInv, faults = 0, ~ EndNext, job # "done"
  PROVE  Even
  BY DEF EndInv, Paced, Even

LEMMA EndSetup ==
  ASSUME IInv, EndInv, faults = 0,
         \/ CancelRequest \/ ExpireSignal \/ NoticeCancel
         \/ StartJob \/ Load \/ UserNotFound \/ MarkRunning \/ Metadata
  PROVE  EndInv'
<1> USE DEF rowVars, cancelVars, queueVars, ctrlVars, agentVars, writerVars, clientVars
<1>0. TypeOK /\ RowClosed /\ EndsBehindClose
  BY DEF IInv
<1>1. /\ EndNext => pc = "plan"
      /\ job = "running" <=> pc # "idle"
  BY <1>0 DEF EndNext, TypeOK, BusyOK, VarsOK, ControlOK
<1>2. ASSUME NEW s \in Status, Commit(s), s \in TERMINAL_RUN_STATUSES => s = status
      PROVE  outcome' = outcome
  BY <1>0, <1>2 DEF Commit, RowClosed
<1>3. CASE CancelRequest \/ ExpireSignal \/ NoticeCancel
  <2>1. plan' = plan /\ job' = job /\ stream' = stream
    BY <1>3 DEF CancelRequest, CancelLoad, CancelLock, CancelPublish, CancelCommit, ExpireSignal,
                NoticeCancel
  <2>2. outcome' = outcome
    <3>1. ASSUME NEW c \in Cancellers, CancelCommit(c) PROVE outcome' = outcome
      <4>1. status \in Status /\ "cancel_requested" \in Status \ TERMINAL_RUN_STATUSES
        BY <1>0 DEF TypeOK, VarsOK, RowOK, Status, TERMINAL_RUN_STATUSES
      <4> QED BY <1>2, <3>1, <4>1 DEF CancelCommit
    <3> QED BY <1>3, <3>1 DEF CancelRequest, CancelLoad, CancelLock, CancelPublish, ExpireSignal,
                              NoticeCancel
  <2> QED BY <1>0, <2>1, <2>2, EndsKept DEF EndSilent
<1>4. CASE StartJob
  <2>1. Even
    BY <1>0, <1>1, <1>4, NothingOwed DEF StartJob
  <2> QED BY <1>0, <1>4, <2>1, EndsKept DEF StartJob, EndSilent
<1>5. CASE Load
  <2>1. Even
    BY <1>0, <1>1, <1>5, NothingOwed DEF Load
  <2>2. EndSilent /\ ((plan' = plan /\ job' = job) \/ plan' = <<>>)
    BY <1>5 DEF Load, JobEnds, FreshLocals, EndSilent
  <2> QED BY <1>0, <2>1, <2>2, EndsKept, HandlerBegins, PairedPieces, NoCalls
<1>6. CASE UserNotFound
  <2>1. plan' = <<>> /\ job' = "done" /\ stream' = stream /\ faults' = faults
    BY <1>6 DEF UserNotFound, JobEnds, FreshLocals
  <2>2. outcome # "none" => outcome' = outcome
    BY <1>6 DEF UserNotFound, set_terminal_status, Commit
  <2>3. FirstEndAgrees'
    BY <1>0, <2>1, <2>2 DEF EndInv, FirstEndAgrees, IsFirst, EndsBehindClose
  <2>4. Paced'
    BY <2>1, PairedPieces DEF Paced, EndNext
  <2> QED BY <2>3, <2>4 DEF EndInv
<1>7. CASE MarkRunning
  <2>1. outcome' = outcome
    <3>1. status \in Status /\ "running" \in Status \ TERMINAL_RUN_STATUSES
      BY <1>0 DEF TypeOK, VarsOK, RowOK, Status, TERMINAL_RUN_STATUSES
    <3> QED BY <1>2, <1>7, <3>1 DEF MarkRunning, mark_running
  <2> QED BY <1>0, <1>7, <2>1, EndsKept DEF MarkRunning, EndSilent
<1>8. CASE Metadata
  <2> DEFINE e == [type |-> "metadata", th |-> "main", ids |-> <<>>, arg |-> "none", try |-> job_try]
  <2>1. e \in Events /\ e.type # "end"
    BY <1>0, NoIds DEF Events, TypeOK, VarsOK, QueueOK, Threads
  <2>2. stream' = Append(stream, e)
    BY <1>8 DEF Metadata, Emit
  <2> HIDE DEF e
  <2>3. EndSilent /\ plan' = plan /\ job' = job
    BY <1>8, <2>1, <2>2 DEF Metadata, EndSilent
  <2> QED BY <1>0, <2>3, EndsKept
<1> QED BY <1>3, <1>4, <1>5, <1>6, <1>7, <1>8

LEMMA EndStream ==
  ASSUME IInv, EndInv, faults = 0,
         \/ \E th \in Threads : LoadingChunk(th)
         \/ \E kind \in Kinds, th \in Threads, next \in {"chat", "asked", "ended"} :
               Chunk(kind, th, next)
         \/ Exhausted \/ StreamCancelled \/ \E r \in BOOLEAN : AgentRaises(r)
  PROVE  EndInv'
<1> USE DEF rowVars, cancelVars, queueVars, ctrlVars, agentVars, writerVars, clientVars
<1>0. TypeOK
  BY DEF IInv
<1>1. pc = "stream"
  BY DEF LoadingChunk, Chunk, Take, Exhausted, StreamCancelled, AgentRaises
<1>2. Even
  BY <1>0, <1>1, NothingOwed DEF EndNext, TypeOK, BusyOK, VarsOK, ControlOK
<1>3. EndSilent
  BY DEF EndSilent, LoadingChunk, Chunk, Exhausted, StreamCancelled, AgentRaises
<1>4. plan' = plan \/ (plan' \in Seq(Calls) /\ Paired(plan'))
  <2>1. ASSUME NEW th \in Threads, LoadingChunk(th)
        PROVE  plan' = plan \/ (plan' \in Seq(Calls) /\ Paired(plan'))
    <3>1. <<Flush(th)>> \in Seq(Calls) /\ Paired(<<Flush(th)>>)
      BY CallTypes, PairedPieces
    <3> QED BY <2>1, <3>1 DEF LoadingChunk, Enter
  <2>2. ASSUME NEW kind \in Kinds, NEW th \in Threads, NEW next \in {"chat", "asked", "ended"},
               Chunk(kind, th, next)
        PROVE  plan' \in Seq(Calls) /\ Paired(plan')
    <3>1. Len(delivered) + 1 \in Nat
      BY <1>0, LenProperties DEF TypeOK, VarsOK, LocalsOK
    <3> QED BY <2>2, <3>1, PairedChunkPlan, ChunkPlanType DEF Chunk, Enter
  <2>3. CASE Exhausted \/ StreamCancelled \/ \E r \in BOOLEAN : AgentRaises(r)
    BY <2>3, PairedExhaustPlan, PairedCancelPlan, PairedErrorPlan, ExhaustPlanType, CancelPlanType,
       ErrorPlanType DEF Exhausted, StreamCancelled, AgentRaises, RaiseCancelled, RaiseError, Enter
  <2> QED BY <2>1, <2>2, <2>3
<1> QED BY <1>0, <1>2, <1>3, <1>4, HandlerBegins, EndsKept

LEMMA EndCalls ==
  ASSUME IInv, EndInv, faults = 0,
         DoFlush \/ DoPublish \/ DoMark \/ DoEnd \/ DoPeek \/ DoCheck \/ Close
  PROVE  EndInv'
<1> USE DEF rowVars, cancelVars, queueVars, ctrlVars, agentVars, writerVars, clientVars
<1> DEFINE step == Head(plan)
<1>0. TypeOK /\ RowClosed
  BY DEF IInv
<1>1. pc = "plan" => plan # <<>> /\ plan \in Seq(Calls) /\ step \in Calls /\ Tail(plan) \in Seq(Calls)
                     /\ job = "running"
  BY <1>0, StepType DEF TypeOK, BusyOK, VarsOK, ControlOK
<1>2. ASSUME pc = "plan", step.op \notin {"end", "mark"}
      PROVE  Even /\ Paired(Tail(plan))
  <2>1. ~ EndNext /\ job # "done"
    BY <1>1, <1>2 DEF EndNext
  <2> QED BY <1>0, <1>1, <1>2, <2>1, NothingOwed, PairedTail DEF EndInv, Paced
<1>3. CASE DoFlush \/ DoPublish
  <2>1. pc = "plan" /\ step.op \in {"flush", "publish"} /\ plan' = Tail(plan) /\ outcome' = outcome
    BY <1>3 DEF DoFlush, DoPublish, At, Continue
  <2>2. EndSilent
    <3>1. CASE DoFlush
      <4> DEFINE e == [type |-> "messages", th |-> step.th, ids |-> buffer[step.th], arg |-> "none",
                       try |-> job_try]
      <4>1. step.th \in Threads
        BY <1>1, <3>1 DEF DoFlush, At, Calls
      <4>2. e \in Events /\ e.type # "end"
        BY <1>0, <4>1 DEF Events, TypeOK, VarsOK, QueueOK, LocalsOK
      <4>3. stream' = stream \/ stream' = Append(stream, e)
        BY <3>1 DEF DoFlush, Emit
      <4> HIDE DEF e
      <4> QED BY <2>1, <4>2, <4>3 DEF EndSilent
    <3>2. CASE DoPublish
      <4> DEFINE e == [type |-> step.type, th |-> step.th, ids |-> step.ids, arg |-> "none",
                       try |-> job_try]
      <4>1. step \in Calls /\ step.op = "publish"
        BY <1>1, <3>2 DEF DoPublish, At
      <4>2. step.type \in {"custom", "interrupt", "error"} /\ step.th \in Threads /\ step.ids \in Seq(Nat)
        BY <4>1 DEF Calls
      <4>3. e \in Events /\ e.type # "end"
        BY <1>0, <4>2 DEF Events, TypeOK, VarsOK, QueueOK
      <4>4. stream' = Append(stream, e)
        BY <3>2 DEF DoPublish, Emit
      <4> HIDE DEF e
      <4> QED BY <2>1, <4>3, <4>4 DEF EndSilent
    <3> QED BY <1>3, <3>1, <3>2
  <2> QED BY <1>0, <1>1, <1>2, <2>1, <2>2, HandlerBegins
<1>4. CASE DoMark
  <2>1. pc = "plan" /\ step.op = "mark" /\ plan' = Tail(plan) /\ set_terminal_status(step.status)
        /\ stream' = stream /\ faults' = faults
    BY <1>4 DEF DoMark, At, Continue
  <2>2. ~ EndNext /\ Even /\ Paired(plan)
    <3>1. ~ EndNext /\ job # "done"
      BY <1>1, <2>1 DEF EndNext
    <3> QED BY <1>0, <3>1, NothingOwed DEF EndInv, Paced
  <2>3. EndNext' /\ Head(plan') = Head(Tail(plan)) /\ Head(plan').status = step.status
        /\ Paired(Tail(plan'))
    BY <1>1, <2>1, <2>2, PairedMark DEF EndNext
  <2>4. step.status \in TERMINAL_RUN_STATUSES
    BY <1>1, <2>1 DEF Calls
  <2>5. outcome = "none" => outcome' = step.status
    BY <1>0, <2>1, <2>4 DEF set_terminal_status, Commit, RowClosed
  <2>6. outcome # "none" => outcome' = outcome
    BY <2>1 DEF set_terminal_status, Commit
  <2>7. Paced'
    BY <2>1, <2>2, <2>3, <2>5 DEF Paced, Even, NoEnd
  <2>8. FirstEndAgrees'
    <3>1. CASE NoEnd
      BY <2>1, <3>1 DEF NoEnd, FirstEndAgrees
    <3>2. CASE ~ NoEnd
      <4>1. outcome # "none"
        BY <3>2 DEF NoEnd, IInv, EndsBehindClose
      <4> QED BY <2>1, <2>6, <4>1 DEF EndInv, FirstEndAgrees, IsFirst
    <3> QED BY <3>1, <3>2
  <2> QED BY <2>7, <2>8 DEF EndInv
<1>5. CASE DoEnd
  <2> DEFINE e == [type |-> "end", th |-> "main", ids |-> step.ids, arg |-> step.status, try |-> job_try]
  <2>1. pc = "plan" /\ step.op = "end" /\ plan' = Tail(plan) /\ outcome' = outcome /\ faults' = faults
        /\ stream' = Append(stream, e)
    BY <1>5 DEF DoEnd, At, Continue, Emit
  <2>2. EndNext /\ Paired(Tail(plan)) /\ (NoEnd => outcome = step.status)
    <3>1. EndNext
      BY <1>1, <2>1 DEF EndNext
    <3> QED BY <3>1 DEF EndInv, Paced
  <2>3. e.type = "end" /\ e.arg = step.status
    OBVIOUS
  <2> HIDE DEF e
  <2>4. /\ Len(stream') = Len(stream) + 1 /\ Len(stream) \in Nat /\ stream'[Len(stream) + 1] = e
        /\ \A i \in 1..Len(stream) : stream'[i] = stream[i]
    <3>1. stream \in Seq(Events)
      BY <1>0 DEF TypeOK, VarsOK
    <3> QED BY <2>1, <3>1
  <2>5. ~ NoEnd'
    BY <2>3, <2>4 DEF NoEnd
  <2>6. Paced'
    <3>1. ~ EndNext'
      BY <1>1, <2>1, <2>2, PairedHead DEF EndNext
    <3> QED BY <2>1, <2>2, <2>5, <3>1 DEF Paced
  <2>7. FirstEndAgrees'
    <3> SUFFICES ASSUME NEW i \in 1..Len(stream'), stream'[i].type = "end",
                        \A j \in 1..Len(stream') : stream'[j].type = "end" => i <= j
                 PROVE  stream'[i].arg = outcome'
      BY DEF FirstEndAgrees, IsFirst
    <3>1. CASE i = Len(stream) + 1
      <4>1. NoEnd
        BY <2>4, <3>1 DEF NoEnd
      <4> QED BY <2>1, <2>2, <2>3, <2>4, <3>1, <4>1
    <3>2. CASE i \in 1..Len(stream)
      BY <2>1, <2>4, <3>2 DEF EndInv, FirstEndAgrees, IsFirst
    <3> QED BY <2>4, <3>1, <3>2
  <2> QED BY <2>6, <2>7 DEF EndInv
<1>6. CASE DoPeek
  <2> DEFINE s == IF status = "cancel_requested" THEN "cancelled" ELSE "interrupted"
  <2>1. pc = "plan" /\ step.op = "peek" /\ EndSilent /\ plan' = Finish(s, <<>>) \o Tail(plan)
    BY <1>6 DEF DoPeek, At, Continue, EndSilent
  <2>2. Finish(s, <<>>) \in Seq(Calls)
    <3>1. s \in TERMINAL_RUN_STATUSES
      BY DEF TERMINAL_RUN_STATUSES
    <3> QED BY <3>1, NoIds, FinishType
  <2>3. Even /\ Paired(Tail(plan))
    BY <1>2, <2>1
  <2> HIDE DEF s
  <2>4. plan' \in Seq(Calls) /\ Paired(plan')
    <3>1. Tail(plan) \in Seq(Calls) /\ Paired(Tail(plan)) /\ Paired(Finish(s, <<>>))
      BY <1>1, <2>1, <2>3, PairedPieces
    <3> DEFINE c == Finish(s, <<>>) \o Tail(plan)
    <3>2. Paired(c)
      BY <2>2, <3>1, PairedConcat
    <3>3. c \in Seq(Calls)
      BY <2>2, <3>1, ConcatProperties
    <3> QED BY <2>1, <3>2, <3>3
  <2> QED BY <1>0, <2>1, <2>3, <2>4, HandlerBegins
<1>7. CASE DoCheck
  <2>1. pc = "plan" /\ step.op = "check" /\ EndSilent
    BY <1>7 DEF DoCheck, At, EndSilent
  <2>2. plan' = CancelPlan \/ plan' = Tail(plan)
    BY <1>7 DEF DoCheck, RaiseCancelled, Enter, Continue
  <2> QED BY <1>0, <1>1, <1>2, <2>1, <2>2, HandlerBegins, PairedCancelPlan, CancelPlanType
<1>8. CASE Close
  <2>1. Even
    BY <1>0, <1>8, NothingOwed DEF Close, EndNext, TypeOK, BusyOK, VarsOK, ControlOK
  <2>2. EndSilent /\ plan' = <<>>
    BY <1>8 DEF Close, JobEnds, FreshLocals, EndSilent
  <2> QED BY <1>0, <2>1, <2>2, HandlerBegins, PairedPieces, NoCalls
<1> QED BY <1>3, <1>4, <1>5, <1>6, <1>7, <1>8

\* Failures are counted.
LEMMA FaultsCount ==
  ASSUME TypeOK, [Next]_vars
  PROVE  /\ faults' = 0 => faults = 0
         /\ Failure => faults' # 0
<1> USE DEF rowVars, cancelVars, queueVars, ctrlVars, agentVars, writerVars, clientVars
<1>0. faults \in Nat
  BY BoundsAssumption DEF TypeOK, VarsOK
<1>1. ASSUME WorkerStep PROVE faults' = 0 => faults = 0
  BY <1>0, <1>1 DEF WorkerStep, StartJob, Load, UserNotFound, MarkRunning, Metadata, LoadingChunk,
              Chunk, Exhausted, StreamCancelled, AgentRaises, DoFlush, DoPublish, DoMark, DoEnd,
              DoPeek, DoCheck, Close
<1>2. Failure => Fault
  BY DEF Failure, CallFails, ExpireFails, SetupFails, Stopped, WorkerDies, KeyNotRead, KeyNotCleared
<1>3. ASSUME CancelRequest \/ ExpireSignal \/ NoticeCancel PROVE faults' = 0 => faults = 0
  BY <1>0, <1>3 DEF CancelRequest, CancelLoad, CancelLock, CancelPublish, CancelCommit, ExpireSignal,
                    NoticeCancel
<1>4. ASSUME ClientStep \/ Reconnect \/ UNCHANGED vars PROVE faults' = 0 => faults = 0
  BY <1>4 DEF ClientStep, ReadRow, ListEvents, Reconnect, serverVars, vars
<1>5. Failure => faults' # 0
  BY <1>0, <1>2 DEF Fault
<1>6. faults' = 0 => faults = 0
  BY <1>1, <1>3, <1>4, <1>5 DEF Next
<1> QED BY <1>5, <1>6

LEMMA EndStep == IInv /\ EndInv /\ [Next]_vars => EndInv'
<1> SUFFICES ASSUME IInv, EndInv, [Next]_vars, faults' = 0 PROVE EndInv'
  BY DEF EndInv
<1>0. TypeOK /\ faults = 0 /\ ~ Failure
  BY FaultsCount DEF IInv
<1>1. CASE WorkerStep \/ NoticeCancel \/ CancelRequest \/ ExpireSignal
  BY <1>0, <1>1, EndSetup, EndStream, EndCalls DEF WorkerStep
<1>2. CASE ClientStep \/ Reconnect \/ UNCHANGED vars
  <2>1. plan' = plan /\ job' = job /\ EndSilent
    BY <1>2 DEF ClientStep, ReadRow, ListEvents, Reconnect, serverVars, vars, rowVars, queueVars,
                ctrlVars, EndSilent
  <2> QED BY <1>0, <2>1, EndsKept
<1> QED BY <1>0, <1>1, <1>2 DEF Next

\* While no call fails, the first end on the stream is the first terminal status of the
\* row, for any number of attempts and cancel requests (the order in process_agent_run:
\* the row is committed, the end appended next).
THEOREM FirstEndIsOutcome == Spec => []FirstEndAgrees
<1>1. Init => EndInv
  BY PairedPieces DEF Init, EndInv, Paced, EndNext, FirstEndAgrees
<1>2. IInv /\ EndInv => FirstEndAgrees
  BY DEF EndInv, FirstEndAgrees
<1> QED BY <1>1, <1>2, InvInit, InvStep, EndStep, PTL DEF Spec
=============================================================================
