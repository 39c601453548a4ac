------------------------- MODULE RunAdmissionProofs -------------------------
(***************************************************************************)
(* Proofs about RunAdmission, for any number of requests, keys, threads,   *)
(* users and failures.                                                     *)
(***************************************************************************)
EXTENDS RunAdmission, SequenceTheorems, TLAPS

-----------------------------------------------------------------------------
(* The inductive invariant.                                                *)

Placed(q) == row[q] # "none"

\* What a request has done by the time it is where it is.
Progressed(r) ==
    /\ answer[r] # "none" => pc[r] = "done"
    /\ pc[r] \in {"idle", "parent", "lookup", "insert", "conflict"} => row[r] = "none" /\ job[r] = "none"
    /\ pc[r] = "commit" => job[r] = "none"
    /\ pc[r] = "enqueue" => row[r] = "committed" /\ job[r] = "none"
    /\ pc[r] = "idle" => parent[r] = NoRun
    /\ pc[r] = "parent" => parent[r] # NoRun
    /\ pc[r] = "conflict" => Stored(key[r]) # {}
    /\ job[r] # "none" => row[r] = "committed"
    /\ row[r] = "committed" /\ job[r] = "none" => pc[r] = "enqueue" \/ answer[r] = "error"

\* The unique index: at most one row of a key, open or committed.
OneRowPerKey ==
    \A r, q \in Requests : Placed(r) /\ Placed(q) /\ key[r] = key[q] => r = q

\* An answer is a committed row of the key and the user, a refusal has its reason.
AnswerFits(r) ==
    /\ answer[r] \in Requests =>
          row[answer[r]] = "committed" /\ key[answer[r]] = key[r] /\ User(answer[r]) = User(r)
    /\ answer[r] = "refused" /\ parent[r] = NoRun => \E s \in Stored(key[r]) : User(s) # User(r)

\* Every row has a place in the order, and a resumption comes behind what it resumes,
\* on the same thread.
Before(q, r) == \E i, j \in 1..Len(order) : i < j /\ order[i] = q /\ order[j] = r

InOrder(r) ==
    /\ Placed(r) => \E i \in 1..Len(order) : order[i] = r
    /\ parent[r] # NoRun => parent[r] \in Requests /\ row[parent[r]] = "committed"
    /\ parent[r] # NoRun /\ pc[r] \in {"lookup", "insert", "conflict", "commit", "enqueue"} =>
          thread[parent[r]] = thread[r]
    /\ parent[r] # NoRun /\ Placed(r) => thread[parent[r]] = thread[r] /\ Before(parent[r], r)

InsertedOnce ==
    /\ \A i, j \in 1..Len(order) : order[i] = order[j] => i = j
    /\ \A i \in 1..Len(order) :
          pc[order[i]] \notin {"idle", "parent", "lookup", "insert", "conflict"}

ProgressInv == \A r \in Requests : Progressed(r)
AnswerInv == \A r \in Requests : AnswerFits(r)
OrderInv == InsertedOnce /\ \A r \in Requests : InOrder(r)

IInv == TypeOK /\ ProgressInv /\ OneRowPerKey /\ AnswerInv /\ OrderInv

-----------------------------------------------------------------------------
(* The two outcomes of an insert.                                          *)

LEMMA InsertCases ==
  ASSUME TypeOK, NEW r \in Requests, Insert(r)
  PROVE  /\ UNCHANGED <<owner, key, thread, parent, answer, status, job, faults>>
         /\ \/ /\ Stored(key[r]) # {} /\ UNCHANGED <<row, order>>
               /\ pc' = [pc EXCEPT ![r] = "conflict"]
            \/ /\ Stored(key[r]) = {}
               /\ row' = [row EXCEPT ![r] = "open"] /\ order' = Append(order, r)
               /\ pc' = [pc EXCEPT ![r] = "commit"]
  BY DEF Insert, Goto, inputVars

-----------------------------------------------------------------------------
(* Types.                                                                  *)

LEMMA InitType == Init => TypeOK
  BY NoRunAssumption, FaultsAssumption, AnswersAssumption DEF Init, TypeOK, Answers

LEMMA NextType == TypeOK /\ [Next]_vars => TypeOK'
<1> SUFFICES ASSUME TypeOK, [Next]_vars PROVE TypeOK'
  OBVIOUS
<1> USE DEF inputVars, rowVars, Goto, Answer, Answers
<1>1. ASSUME NEW r \in Requests, Arrive(r) PROVE TypeOK'
  BY <1>1 DEF Arrive, TypeOK
<1>2. ASSUME NEW r \in Requests, CheckParent(r) PROVE TypeOK'
  BY <1>2 DEF CheckParent, TypeOK
<1>3. ASSUME NEW r \in Requests, Lookup(r) PROVE TypeOK'
  <2>1. UNCHANGED <<owner, key, thread, parent, row, order, status, job, faults>> /\ pc[r] = "lookup"
    BY <1>3 DEF Lookup
  <2>2. pc' \in {[pc EXCEPT ![r] = "insert"], [pc EXCEPT ![r] = "done"]}
    BY <1>3 DEF Lookup, AnswerStored
  <2>3. answer' \in [Requests -> Answers]
    BY <1>3 DEF Lookup, AnswerStored, Stored, TypeOK
  <2> QED BY <2>1, <2>2, <2>3 DEF TypeOK
<1>4. ASSUME NEW r \in Requests, Insert(r) PROVE TypeOK'
  <2>1. order' \in Seq(Requests)
    <3>1. order \in Seq(Requests)
      BY DEF TypeOK
    <3>2. order' = order \/ order' = Append(order, r)
      BY <1>4, InsertCases
    <3> QED BY <3>1, <3>2, AppendProperties
  <2>2. row[r] # "open"
    BY <1>4 DEF Insert, TypeOK
  <2>3. /\ UNCHANGED <<owner, key, thread, parent, answer, status, job, faults>>
        /\ \/ UNCHANGED row /\ pc' = [pc EXCEPT ![r] = "conflict"]
           \/ row' = [row EXCEPT ![r] = "open"] /\ pc' = [pc EXCEPT ![r] = "commit"]
        /\ pc[r] = "insert"
    BY <1>4, InsertCases DEF Insert
  <2>4. /\ pc' \in [Requests -> {"idle", "parent", "lookup", "insert", "conflict", "commit",
                                 "enqueue", "done"}]
        /\ row' \in [Requests -> {"none", "open", "committed"}]
    BY <2>3 DEF TypeOK
  <2>5. \A q \in Requests : row'[q] = "open" <=> pc'[q] = "commit"
    <3>1. \A q \in Requests : row[q] = "open" <=> pc[q] = "commit"
      BY DEF TypeOK
    <3>2. pc \in [Requests -> {"idle", "parent", "lookup", "insert", "conflict", "commit",
                               "enqueue", "done"}]
          /\ row \in [Requests -> {"none", "open", "committed"}]
      BY DEF TypeOK
    <3>3. CASE UNCHANGED row /\ pc' = [pc EXCEPT ![r] = "conflict"]
      BY <2>2, <3>1, <3>2, <3>3
    <3>4. CASE row' = [row EXCEPT ![r] = "open"] /\ pc' = [pc EXCEPT ![r] = "commit"]
      BY <3>1, <3>2, <3>4
    <3> QED BY <2>3, <3>3, <3>4
  <2> QED BY <2>1, <2>3, <2>4, <2>5 DEF TypeOK
<1>5. ASSUME NEW r \in Requests, Conflict(r) PROVE TypeOK'
  <2>1. UNCHANGED <<owner, key, thread, parent, row, order, status, job, faults>> /\ pc[r] = "conflict"
    BY <1>5 DEF Conflict
  <2>2. pc' = [pc EXCEPT ![r] = "done"]
    BY <1>5 DEF Conflict, Reread, AnswerStored
  <2>3. answer' \in [Requests -> Answers]
    BY <1>5 DEF Conflict, Reread, AnswerStored, Stored, TypeOK
  <2> QED BY <2>1, <2>2, <2>3 DEF TypeOK
<1>6. ASSUME NEW r \in Requests, Commit(r) PROVE TypeOK'
  BY <1>6 DEF Commit, TypeOK
<1>7. ASSUME NEW r \in Requests, Enqueue(r) PROVE TypeOK'
  BY <1>7 DEF Enqueue, TypeOK
<1>8. ASSUME NEW r \in Requests, Abort(r) PROVE TypeOK'
  BY <1>8, FaultsAssumption DEF Abort, MayHaveQueued, TypeOK
<1>9. ASSUME NEW r \in Requests, TakeJob(r) \/ RunEnds(r) PROVE TypeOK'
  BY <1>9 DEF TakeJob, RunEnds, TypeOK
<1>10. CASE UNCHANGED vars
  BY <1>10 DEF vars, TypeOK
<1> QED BY <1>1, <1>2, <1>3, <1>4, <1>5, <1>6, <1>7, <1>8, <1>9, <1>10 DEF Next, Handle

\* Every variable keeps its type, and a row is open exactly while its request is about
\* to commit it (create_agent_run_view, in one transaction).
THEOREM TypeCorrect == Spec => []TypeOK
  BY InitType, NextType, PTL DEF Spec

-----------------------------------------------------------------------------
(* What an action leaves alone.                                            *)

\* Rows only come and go with their own request, and committed rows stay.
LEMMA RowsOfOthers ==
  ASSUME TypeOK, NEW r \in Requests, Arrive(r) \/ Handle(r) \/ Abort(r)
  PROVE  /\ \A q \in Requests \ {r} :
               /\ row'[q] = row[q] /\ pc'[q] = pc[q] /\ answer'[q] = answer[q]
               /\ parent'[q] = parent[q] /\ job'[q] = job[q]
         /\ row[r] = "committed" => row'[r] = "committed"
         /\ UNCHANGED <<owner, key, thread, status>>
         /\ pc[r] # "idle" => parent'[r] = parent[r]
<1> USE DEF TypeOK, Goto, Answer, inputVars, rowVars
<1>1. CASE Arrive(r)
  BY <1>1 DEF Arrive
<1>2. CASE CheckParent(r) \/ Lookup(r) \/ Conflict(r)
  <2>1. /\ UNCHANGED <<row, parent, job, owner, key, thread, status>>
        /\ pc' = [pc EXCEPT ![r] = pc'[r]]
    BY <1>2 DEF CheckParent, Lookup, Conflict, Reread, AnswerStored
  <2>2. answer' = answer \/ \E x \in Answers : answer' = [answer EXCEPT ![r] = x]
    BY <1>2 DEF CheckParent, Lookup, Conflict, Reread, AnswerStored, Stored, Answers
  <2> QED BY <2>1, <2>2
<1>3. CASE Insert(r)
  BY <1>3, InsertCases DEF Stored
<1>4. CASE Commit(r) \/ Enqueue(r)
  BY <1>4 DEF Commit, Enqueue
<1>5. CASE Abort(r)
  BY <1>5, FaultsAssumption DEF Abort, MayHaveQueued
<1> QED BY <1>1, <1>2, <1>3, <1>4, <1>5 DEF Handle

LEMMA Worker ==
  ASSUME NEW r \in Requests, TakeJob(r) \/ RunEnds(r)
  PROVE  /\ UNCHANGED <<owner, key, thread, parent, pc, answer, row, order, faults>>
         /\ job' \in {job, [job EXCEPT ![r] = "taken"]} /\ (job' # job => job[r] = "queued")
  BY DEF TakeJob, RunEnds, inputVars

-----------------------------------------------------------------------------
(* The parts of the invariant, one by one.                                 *)

LEMMA ProgressStep ==
  ASSUME TypeOK, ProgressInv, AnswerInv, [Next]_vars
  PROVE  ProgressInv'
<1> USE DEF ProgressInv
<1>1. ASSUME NEW r \in Requests, Arrive(r) \/ Handle(r) \/ Abort(r), NEW q \in Requests
      PROVE  Progressed(q)'
  <2>1. Stored(key[q]) \subseteq Stored(key[q])'
    BY <1>1, RowsOfOthers DEF Stored
  <2>2. CASE q # r
    BY <1>1, <2>1, <2>2, RowsOfOthers DEF Progressed
  <2> HIDE DEF ProgressInv
  <2>3. CASE q = r
    <3> USE DEF inputVars, rowVars, Goto, Answer, Progressed, TypeOK
    <3>1. Progressed(r)
      BY DEF ProgressInv
    <3>2. CASE Arrive(r)
      BY <2>3, <3>1, <3>2, NoRunAssumption DEF Arrive
    <3>3. CASE CheckParent(r)
      BY <2>3, <3>1, <3>3 DEF CheckParent
    <3>4. CASE Lookup(r)
      BY <2>3, <3>1, <3>4 DEF Lookup, AnswerStored
    <3>5. CASE Insert(r)
      BY <2>1, <2>3, <3>1, <3>5, InsertCases DEF Insert
    <3>6. CASE Conflict(r)
      BY <2>3, <3>1, <3>6 DEF Conflict, Reread, AnswerStored
    <3>7. CASE Commit(r)
      BY <2>3, <3>1, <3>7 DEF Commit
    <3>8. CASE Enqueue(r)
      BY <2>3, <3>1, <3>8 DEF Enqueue
    <3>9. CASE Abort(r)
      BY <2>3, <3>1, <3>9, FaultsAssumption DEF Abort, MayHaveQueued
    <3> QED BY <1>1, <3>2, <3>3, <3>4, <3>5, <3>6, <3>7, <3>8, <3>9 DEF Handle
  <2> QED BY <2>2, <2>3
<1>2. ASSUME NEW r \in Requests, TakeJob(r) \/ RunEnds(r), NEW q \in Requests
      PROVE  Progressed(q)'
  <2>1. Stored(key[q])' = Stored(key[q])
    BY <1>2, Worker DEF Stored
  <2> QED BY <1>2, <2>1, Worker DEF Progressed, TypeOK
<1>3. ASSUME UNCHANGED vars, NEW q \in Requests
      PROVE  Progressed(q)'
  BY <1>3 DEF vars, inputVars, rowVars, Progressed, Stored
<1> QED BY <1>1, <1>2, <1>3 DEF Next

LEMMA KeyStep ==
  ASSUME TypeOK, OneRowPerKey, [Next]_vars
  PROVE  OneRowPerKey'
<1>1. ASSUME NEW r \in Requests, Insert(r) PROVE OneRowPerKey'
  <2>1. row'[r] # row[r] => \A q \in Requests \ {r} : key[q] = key[r] => row[q] = "none"
    BY <1>1 DEF Insert, KeyIsFree, Stored, TypeOK
  <2> QED BY <1>1, <2>1, RowsOfOthers DEF Handle, OneRowPerKey, Placed, Insert, inputVars, TypeOK
<1>2. ASSUME NEW r \in Requests, Next, ~ \E q \in Requests : Insert(q)
      PROVE  /\ UNCHANGED key
             /\ \A q \in Requests : row'[q] # "none" => row[q] # "none"
  BY <1>2 DEF Next, Arrive, Handle, CheckParent, Lookup, Conflict, Commit, Enqueue, Abort,
              MayHaveQueued, TakeJob, RunEnds, inputVars, rowVars, TypeOK
<1>3. CASE UNCHANGED vars
  BY <1>3 DEF vars, inputVars, rowVars, OneRowPerKey, Placed
<1> QED BY <1>1, <1>2, <1>3 DEF Next, OneRowPerKey, Placed

LEMMA AnswerStep ==
  ASSUME TypeOK, ProgressInv, OneRowPerKey, AnswerInv, OrderInv, [Next]_vars
  PROVE  AnswerInv'
<1>1. ASSUME NEW r \in Requests, Arrive(r) \/ Handle(r) \/ Abort(r), NEW q \in Requests
      PROVE  AnswerFits(q)'
  <2>1. \A k : Stored(k) \subseteq Stored(k)'
    BY <1>1, RowsOfOthers DEF Stored
  <2>2. \A p \in Requests : row[p] = "committed" => row'[p] = "committed"
    BY <1>1, RowsOfOthers
  <2>3. \A p \in Requests : User(p)' = User(p)
    BY <1>1, RowsOfOthers DEF User
  <2>4. UNCHANGED <<key, thread>>
    BY <1>1, RowsOfOthers
  <2>5. CASE answer'[q] = answer[q] /\ parent'[q] = parent[q]
    <3>1. AnswerFits(q)
      BY DEF AnswerInv
    <3>2. answer'[q] \in Requests => /\ row'[answer'[q]] = "committed" /\ key'[answer'[q]] = key'[q]
                                     /\ User(answer[q])' = User(q)'
      BY <2>2, <2>3, <2>4, <2>5, <3>1 DEF AnswerFits
    <3>3. answer'[q] = "refused" /\ parent'[q] = NoRun => \E p \in Stored(key[q])' : User(p)' # User(q)'
      <4>1. Stored(key[q])' \subseteq Requests
        BY DEF Stored
      <4> QED BY <2>1, <2>3, <2>4, <2>5, <3>1, <4>1 DEF AnswerFits
    <3> QED BY <3>2, <3>3 DEF AnswerFits
  <2>6. CASE q = r /\ pc[r] = "idle"
    <3>1. answer'[r] = "none"
      BY <1>1, <2>6 DEF ProgressInv, Progressed, Arrive, Handle, CheckParent, Lookup, Insert,
                        Conflict, Commit, Enqueue, Abort, MayHaveQueued, TypeOK, Answers
    <3> QED BY <2>6, <3>1, AnswersAssumption DEF AnswerFits
  <2>7. CASE q = r /\ pc[r] # "idle" /\ answer'[r] # answer[r]
    <3>1. parent'[r] = parent[r]
      BY <1>1, <2>7, RowsOfOthers
    <3>2. PICK x \in Answers : answer' = [answer EXCEPT ![r] = x]
      BY <1>1, <2>7 DEF Arrive, Handle, CheckParent, Lookup, Insert, Conflict, Commit, Enqueue,
                        Abort, MayHaveQueued, Reread, AnswerStored, Stored, Answer, Answers
    <3>3. answer'[r] = x /\ x # answer[r]
      BY <2>7, <3>2 DEF TypeOK
    <3>4. /\ x \in Requests => row[x] = "committed" /\ key[x] = key[r] /\ User(x) = User(r)
          /\ x = "refused" /\ parent[r] = NoRun => \E p \in Stored(key[r]) : User(p) # User(r)
      <4>1. CASE Enqueue(r)
        BY <3>3, <4>1, AnswersAssumption DEF Enqueue, Answer, ProgressInv, Progressed, TypeOK
      <4>2. CASE Abort(r)
        BY <3>3, <4>2, AnswersAssumption DEF Abort, MayHaveQueued, Answer, TypeOK
      <4>3. CASE CheckParent(r)
        BY <3>3, <4>3, AnswersAssumption DEF CheckParent, Answer, ProgressInv, Progressed, TypeOK
      <4>4. CASE AnswerStored(r)
        <5>1. PICK p \in Stored(key[r]) : x = IF User(p) = User(r) THEN p ELSE "refused"
          BY <3>3, <4>4 DEF AnswerStored, Answer, Stored, TypeOK
        <5>2. p \in Requests /\ row[p] = "committed" /\ key[p] = key[r]
          BY <5>1 DEF Stored
        <5> QED BY <5>1, <5>2, AnswersAssumption
      <4>5. Enqueue(r) \/ Abort(r) \/ CheckParent(r) \/ AnswerStored(r)
        BY <1>1, <3>3 DEF Arrive, Handle, Lookup, Insert, Conflict, Commit, Reread, ProgressInv, Progressed, TypeOK
      <4> QED BY <4>1, <4>2, <4>3, <4>4, <4>5
    <3>5. x \in Requests => row'[x] = "committed" /\ key'[x] = key'[r] /\ User(x)' = User(r)'
      BY <2>2, <2>3, <2>4, <3>4
    <3>6. x = "refused" /\ parent'[r] = NoRun => \E p \in Stored(key[r])' : User(p)' # User(r)'
      <4>1. Stored(key[r])' \subseteq Requests
        BY DEF Stored
      <4> QED BY <2>1, <2>3, <2>4, <3>1, <3>4, <4>1
    <3> QED BY <2>7, <3>3, <3>5, <3>6 DEF AnswerFits
  <2> QED BY <1>1, <2>5, <2>6, <2>7, RowsOfOthers
<1>2. ASSUME UNCHANGED <<owner, key, thread, parent, answer, row>>, NEW q \in Requests
      PROVE  AnswerFits(q)'
  <2>1. Stored(key[q])' = Stored(key[q]) /\ \A p \in Requests : User(p)' = User(p)
    BY <1>2 DEF Stored, User
  <2> QED BY <1>2, <2>1 DEF AnswerInv, AnswerFits, User
<1> QED BY <1>1, <1>2, Worker DEF Next, AnswerInv, vars, inputVars, rowVars

-----------------------------------------------------------------------------
(* The order of the rows.                                                  *)

Early == {"idle", "parent", "lookup", "insert", "conflict"}

\* An action that inserts nothing.
LEMMA OrderFrame ==
  ASSUME OrderInv, UNCHANGED <<order, key, thread>>,
         \A q \in Requests : row'[q] # "none" => row[q] # "none",
         \A q \in Requests : row[q] = "committed" => row'[q] = "committed",
         \A q \in Requests : pc[q] \notin Early => pc'[q] \notin Early,
         order \in Seq(Requests),
         NEW q \in Requests, parent'[q] = parent[q],
         parent[q] # NoRun /\ pc'[q] \in {"lookup", "insert", "conflict", "commit", "enqueue"} =>
             thread[parent[q]] = thread[q]
  PROVE  InsertedOnce' /\ InOrder(q)'
<1>1. InsertedOnce'
  BY DEF OrderInv, InsertedOnce, Early
<1>2. InOrder(q)
  BY DEF OrderInv
<1>3. Before(parent[q], q)' <=> Before(parent[q], q)
  BY DEF Before
<1> QED BY <1>1, <1>2, <1>3 DEF InOrder, Placed

LEMMA OrderInsert ==
  ASSUME TypeOK, ProgressInv, OrderInv, NEW r \in Requests, Insert(r)
  PROVE  OrderInv'
<1>1. CASE UNCHANGED <<row, order>>
  <2>1. pc[r] = "insert" /\ pc' = [pc EXCEPT ![r] = "conflict"]
    BY <1>1, InsertCases DEF Insert, ProgressInv, Progressed, TypeOK
  <2>2. \A q \in Requests : parent[q] # NoRun
              /\ pc'[q] \in {"lookup", "insert", "conflict", "commit", "enqueue"} =>
           thread[parent[q]] = thread[q]
    BY <2>1 DEF OrderInv, InOrder, TypeOK
  <2>3. \A q \in Requests : pc[q] \notin Early => pc'[q] \notin Early
    BY <2>1 DEF Early, TypeOK
  <2>4. order \in Seq(Requests) /\ UNCHANGED <<key, thread, parent>>
    BY InsertCases DEF TypeOK
  <2>5. ASSUME NEW q \in Requests PROVE InsertedOnce' /\ InOrder(q)'
    BY <1>1, <2>2, <2>3, <2>4, OrderFrame
  <2> QED BY <2>5 DEF OrderInv
<1>2. CASE order' = Append(order, r) /\ row' = [row EXCEPT ![r] = "open"]
           /\ pc' = [pc EXCEPT ![r] = "commit"]
  <2>1. order \in Seq(Requests)
    BY DEF TypeOK
  <2>2. /\ Len(order) \in Nat /\ Len(order') = Len(order) + 1
        /\ order'[Len(order) + 1] = r
        /\ \A i \in 1..Len(order) : order'[i] = order[i] /\ order[i] \in Requests
    BY <1>2, <2>1, AppendProperties, LenProperties, ElementOfSeq
  <2>3. pc[r] = "insert" /\ row[r] = "none"
    BY DEF Insert, ProgressInv, Progressed
  <2>4. \A i \in 1..Len(order) : order[i] # r
    BY <2>3 DEF OrderInv, InsertedOnce
  <2>5. UNCHANGED <<key, thread, parent>>
    BY InsertCases
  <2>6. InsertedOnce'
    <3>1. ASSUME NEW i \in 1..Len(order'), NEW j \in 1..Len(order'), order'[i] = order'[j]
          PROVE  i = j
      BY <2>2, <2>4, <3>1 DEF OrderInv, InsertedOnce
    <3>2. ASSUME NEW i \in 1..Len(order')
          PROVE  pc'[order'[i]] \notin {"idle", "parent", "lookup", "insert", "conflict"}
      BY <1>2, <2>2, <2>4 DEF OrderInv, InsertedOnce, TypeOK
    <3> QED BY <3>1, <3>2 DEF InsertedOnce
  <2>7. ASSUME NEW q \in Requests PROVE InOrder(q)'
    <3>1. InOrder(q)
      BY DEF OrderInv
    <3>2. parent[q] # NoRun => parent[q] \in Requests /\ row[parent[q]] = "committed"
                               /\ row'[parent[q]] = "committed"
      BY <1>2, <2>3, <3>1 DEF InOrder, TypeOK
    <3>3. Placed(q)' => \E i \in 1..Len(order') : order'[i] = q
      <4>1. CASE q = r
        BY <2>2, <4>1
      <4>2. CASE q # r /\ Placed(q)'
        <5>1. PICK i \in 1..Len(order) : order[i] = q
          BY <1>2, <3>1, <4>2 DEF InOrder, Placed, TypeOK
        <5>2. i \in 1..Len(order') /\ order'[i] = q
          BY <2>2, <5>1
        <5> QED BY <5>2
      <4> QED BY <4>1, <4>2
    <3>4. parent[q] # NoRun /\ pc'[q] \in {"lookup", "insert", "conflict", "commit", "enqueue"} =>
             thread[parent[q]] = thread[q]
      BY <1>2, <2>3, <3>1 DEF InOrder, TypeOK
    <3>5. ASSUME parent[q] # NoRun, Placed(q)'
          PROVE  thread[parent[q]] = thread[q] /\ Before(parent[q], q)'
      <4>1. CASE q = r
        <5>1. InOrder(parent[q]) /\ Placed(parent[q])
          BY <3>2, <3>5 DEF OrderInv, Placed
        <5>2. PICK i \in 1..Len(order) : order[i] = parent[q]
          BY <5>1 DEF InOrder
        <5>3. i \in 1..Len(order') /\ Len(order) + 1 \in 1..Len(order') /\ i < Len(order) + 1
              /\ order'[i] = parent'[q] /\ order'[Len(order) + 1] = q
          BY <2>2, <2>5, <4>1, <5>2
        <5>4. Before(parent[q], q)'
          BY <5>3 DEF Before
        <5> QED BY <2>3, <3>1, <3>5, <4>1, <5>4 DEF InOrder
      <4>2. CASE q # r
        <5>1. thread[parent[q]] = thread[q] /\ Before(parent[q], q)
          BY <1>2, <3>1, <3>5, <4>2 DEF InOrder, Placed, TypeOK
        <5>2. PICK i \in 1..Len(order), j \in 1..Len(order) : i < j /\ order[i] = parent[q] /\ order[j] = q
          BY <5>1 DEF Before
        <5>3. i \in 1..Len(order') /\ j \in 1..Len(order') /\ order'[i] = parent'[q] /\ order'[j] = q
          BY <2>2, <2>5, <5>2
        <5>4. Before(parent[q], q)'
          BY <5>2, <5>3 DEF Before
        <5> QED BY <5>1, <5>4
      <4> QED BY <4>1, <4>2
    <3> QED BY <2>5, <3>2, <3>3, <3>4, <3>5 DEF InOrder
  <2> QED BY <2>6, <2>7 DEF OrderInv
<1> QED BY <1>1, <1>2, InsertCases

LEMMA OrderStep ==
  ASSUME TypeOK, ProgressInv, OrderInv, [Next]_vars
  PROVE  OrderInv'
<1>1. order \in Seq(Requests)
  BY DEF TypeOK
<1>2. ASSUME NEW r \in Requests, Arrive(r) \/ CheckParent(r) \/ Lookup(r) \/ Conflict(r) \/ Commit(r)
                                 \/ Enqueue(r) \/ Abort(r)
      PROVE  OrderInv'
  <2>1. /\ UNCHANGED <<order, key, thread>>
        /\ \A q \in Requests : row'[q] # "none" => row[q] # "none"
        /\ \A q \in Requests : pc[q] \notin Early => pc'[q] \notin Early
    BY <1>2 DEF Arrive, CheckParent, Lookup, Conflict, Commit, Enqueue, Abort, MayHaveQueued, Reread,
                AnswerStored, Answer, Goto, Early, inputVars, rowVars, TypeOK
  <2>2. \A q \in Requests : row[q] = "committed" => row'[q] = "committed"
    BY <1>2, RowsOfOthers DEF Handle
  <2>3. ASSUME NEW q \in Requests, parent'[q] = parent[q]
        PROVE  InsertedOnce' /\ InOrder(q)'
    <3>1. parent[q] # NoRun /\ pc'[q] \in {"lookup", "insert", "conflict", "commit", "enqueue"} =>
             thread[parent[q]] = thread[q]
      BY <1>2, <2>3 DEF Arrive, CheckParent, MayResume, Lookup, Conflict, Commit, Enqueue, Abort,
                MayHaveQueued, Reread, AnswerStored, Answer, Goto, OrderInv, InOrder, ProgressInv, Progressed, TypeOK
    <3> QED BY <1>1, <2>1, <2>2, <2>3, <3>1, OrderFrame
  <2>4. ASSUME NEW q \in Requests, parent'[q] # parent[q]
        PROVE  InsertedOnce' /\ InOrder(q)'
    <3>1. q = r /\ Arrive(r)
      BY <1>2, <2>4, RowsOfOthers DEF Handle, CheckParent, Lookup, Conflict, Commit, Enqueue, Abort,
                MayHaveQueued, inputVars
    <3>2. InsertedOnce'
      BY <1>1, <2>1 DEF OrderInv, InsertedOnce, Early
    <3>3. /\ parent'[q] \in Requests /\ row[parent'[q]] = "committed" /\ pc'[q] = "parent"
          /\ row'[q] = "none" /\ UNCHANGED row
      BY <2>4, <3>1 DEF Arrive, Goto, rowVars, ProgressInv, Progressed, TypeOK
    <3> QED BY <3>2, <3>3 DEF InOrder, Placed
  <2> QED BY <2>3, <2>4 DEF OrderInv
<1>3. ASSUME UNCHANGED <<pc, parent, row, order, key, thread>>
      PROVE  OrderInv'
  BY <1>3 DEF OrderInv, InsertedOnce, InOrder, Placed, Before
<1> QED BY <1>2, <1>3, OrderInsert, Worker DEF Next, Handle, vars, inputVars, rowVars

-----------------------------------------------------------------------------
(* The theorems.                                                           *)

LEMMA InitInv == Init => IInv
<1> SUFFICES ASSUME Init PROVE IInv
  OBVIOUS
<1>1. ProgressInv /\ OneRowPerKey
  BY DEF Init, ProgressInv, Progressed, OneRowPerKey, Placed
<1>2. AnswerInv
  BY AnswersAssumption DEF Init, AnswerInv, AnswerFits
<1>3. OrderInv
  BY DEF Init, OrderInv, InsertedOnce, InOrder, Placed
<1> QED BY <1>1, <1>2, <1>3, InitType DEF IInv

LEMMA Invariant == Spec => []IInv
<1>1. IInv /\ [Next]_vars => IInv'
  BY NextType, ProgressStep, KeyStep, AnswerStep, OrderStep DEF IInv
<1> QED BY <1>1, InitInv, PTL DEF Spec

\* A request id names one run: whoever is answered with a run gets that of the id, and
\* a refusal is always the work of another user's run.
THEOREM IdempotentCreation == Spec => []OneRunPerKey
<1>1. IInv => OneRunPerKey
  BY DEF IInv, AnswerInv, AnswerFits, OneRowPerKey, Placed, OneRunPerKey
<1> QED BY <1>1, Invariant, PTL

\* No job is in the queue before its row is committed, and no failure takes the row back.
THEOREM JobsHaveRows == Spec => []JobFindsRow
<1>1. IInv => JobFindsRow
  BY DEF IInv, ProgressInv, Progressed, JobFindsRow
<1> QED BY <1>1, Invariant, PTL

\* A stored run without a job is about to be enqueued, or its own request broke off
\* behind the commit and told its client of an error.
THEOREM OrphansNeedFailures == Spec => []OrphanNeedsFailure
<1>1. IInv => OrphanNeedsFailure
  BY DEF IInv, ProgressInv, Progressed, OrphanNeedsFailure
<1> QED BY <1>1, Invariant, PTL

\* A run that was resumed is never reported as the active run of its thread again.
THEOREM ResumedIsSuperseded == Spec => []RepliedIsSuperseded
<1>1. ASSUME IInv, NEW r \in Requests, parent[r] # NoRun, row[r] = "committed"
      PROVE  parent[r] \notin ActiveRun(thread[parent[r]])
  <2> DEFINE p == parent[r]
  <2>1. thread[p] = thread[r] /\ Before(p, r)
    BY <1>1 DEF IInv, OrderInv, InOrder, Placed
  <2>2. PICK i \in 1..Len(order), j \in 1..Len(order) : i < j /\ order[i] = p /\ order[j] = r
    BY <2>1 DEF Before
  <2>3. j \in OnThread(thread[p])
    BY <1>1, <2>1, <2>2 DEF OnThread
  <2>4. ASSUME p \in Latest(thread[p]) PROVE FALSE
    <3>1. PICK k \in OnThread(thread[p]) : order[k] = p /\ \A m \in OnThread(thread[p]) : m <= k
      BY <2>4 DEF Latest
    <3>2. k = i
      BY <1>1, <2>2, <3>1 DEF OnThread, IInv, OrderInv, InsertedOnce
    <3> QED BY <2>2, <2>3, <3>1, <3>2
  <2> QED BY <2>4 DEF ActiveRun
<1>2. IInv => RepliedIsSuperseded
  BY <1>1 DEF RepliedIsSuperseded
<1> QED BY <1>2, Invariant, PTL

-----------------------------------------------------------------------------
(* The promise of RunStore.  Commit creates the run of the key, because no *)
(* other row of the key is placed; Enqueue hands it over and answers; a    *)
(* lookup that finds a run repeats the answer; the inserts, the rollbacks  *)
(* and the worker are not seen.                                            *)

\* With at most one run per key the choice among the stored ones is no choice.
Choice(S) == IF S = {} THEN NoRun ELSE CHOOSE q \in S : TRUE

LEMMA OneChoice ==
  ASSUME NEW S, NEW q \in S, \A p \in S : p = q
  PROVE  Choice(S) = q
<1> DEFINE c == CHOOSE p \in S : TRUE
<1>1. c \in S
  OBVIOUS
<1> QED BY <1>1 DEF Choice

LEMMA RunIsChoice ==
  ASSUME NEW k
  PROVE  RunOf(k) = Choice(Stored(k)) /\ RunOf(k)' = Choice(Stored(k)')
  BY DEF RunOf, Choice

LEMMA RunStored ==
  ASSUME OneRowPerKey, NEW k, NEW q \in Stored(k)
  PROVE  RunOf(k) = q
<1>1. \A p \in Stored(k) : p = q
  BY DEF OneRowPerKey, Placed, Stored
<1> QED BY <1>1, OneChoice, RunIsChoice

LEMMA RunStoredNext ==
  ASSUME OneRowPerKey', NEW k, NEW q \in Stored(k)'
  PROVE  RunOf(k)' = q
<1>1. \A p \in Stored(k)' : p = q
  BY DEF OneRowPerKey, Placed, Stored
<1> QED BY <1>1, OneChoice, RunIsChoice

\* What the store sees of a step that stores no row.
LEMMA RowsKept ==
  ASSUME UNCHANGED key, \A q \in Requests : row'[q] = "committed" <=> row[q] = "committed"
  PROVE  \A k : RunOf(k)' = RunOf(k)
<1>1. ASSUME NEW k PROVE Stored(k)' = Stored(k)
  BY DEF Stored
<1> QED BY <1>1, RunIsChoice

LEMMA RequestsKept ==
  ASSUME UNCHANGED <<owner, key, thread, parent>>
  PROVE  UNCHANGED [r \in Requests |-> [key |-> key[r], user |-> User(r), resumes |-> parent[r] # NoRun]]
  BY DEF User

LEMMA StoreInit == Init => Store!Init
<1> SUFFICES ASSUME Init PROVE Store!Init
  OBVIOUS
<1>1. \A k : Stored(k) = {}
  BY DEF Init, Stored
<1>2. [k \in Keys |-> RunOf(k)] = [k \in Keys |-> NoRun]
  BY <1>1 DEF RunOf
<1>3. {q \in Requests : job[q] # "none"} = {}
  BY DEF Init
<1>4. \A r \in Requests : key[r] \in Keys /\ User(r) \in Users /\ (parent[r] # NoRun) = FALSE
  BY DEF Init, User
<1>5. [r \in Requests |-> [key |-> key[r], user |-> User(r), resumes |-> parent[r] # NoRun]]
         \in [Requests -> [key : Keys, user : Users, resumes : {FALSE}]]
  BY <1>4
<1> QED BY <1>2, <1>3, <1>5 DEF Store!Init, Init

LEMMA ArriveResumes ==
  ASSUME IInv, NEW r \in Requests, Arrive(r)
  PROVE  Store!Resume(r) \/ UNCHANGED Store!vars
<1>1. /\ UNCHANGED <<owner, key, thread, answer, row, job>> /\ answer[r] = "none"
  BY DEF IInv, ProgressInv, Progressed, Arrive, rowVars
<1>2. \A k : RunOf(k)' = RunOf(k)
  BY <1>1, RowsKept
<1>3. UNCHANGED <<[k \in Keys |-> RunOf(k)], {q \in Requests : job[q] # "none"}, answer>>
  BY <1>1, <1>2
<1>4. CASE UNCHANGED parent
  BY <1>1, <1>3, <1>4, RequestsKept DEF Store!vars
<1>5. ASSUME NEW p \in Requests, parent' = [parent EXCEPT ![r] = p]
      PROVE  Store!Resume(r)
  <2> DEFINE W == [q \in Requests |-> [key |-> key[q], user |-> User(q), resumes |-> parent[q] # NoRun]]
  <2>1. \A q \in Requests : User(q)' = User(q)
    BY <1>1 DEF User
  <2>2. (parent'[r] # NoRun) = TRUE /\ \A q \in Requests \ {r} : parent'[q] = parent[q]
    BY <1>5, NoRunAssumption DEF IInv, TypeOK
  <2>3. W' = [W EXCEPT ![r].resumes = TRUE]
    BY <1>1, <2>1, <2>2
  <2> QED BY <1>1, <1>3, <2>3 DEF Store!Resume
<1> QED BY <1>4, <1>5 DEF Arrive

\* A refusal, a failure, or an answer out of the store: nothing but the answer changes.
LEMMA AnswerTold ==
  ASSUME IInv, NEW r \in Requests, pc[r] \notin {"idle", "done"}, NEW x, Answer(r, x),
         UNCHANGED <<owner, key, thread, parent, job>>,
         \A q \in Requests : row'[q] = "committed" <=> row[q] = "committed"
  PROVE  /\ Store!Tell(r, x)
         /\ UNCHANGED <<[q \in Requests |->
                            [key |-> key[q], user |-> User(q), resumes |-> parent[q] # NoRun]],
                        [k \in Keys |-> RunOf(k)], {q \in Requests : job[q] # "none"}>>
<1>1. answer[r] = "none" /\ answer' = [answer EXCEPT ![r] = x]
  BY DEF IInv, ProgressInv, Progressed, Answer
<1>2. \A k : RunOf(k)' = RunOf(k)
  BY RowsKept
<1> QED BY <1>1, <1>2, RequestsKept DEF Store!Tell

LEMMA AnswerRepeats ==
  ASSUME IInv, NEW r \in Requests, pc[r] \in {"lookup", "conflict"}, AnswerStored(r),
         UNCHANGED <<inputVars, rowVars, job>>
  PROVE  Store!Repeat(r)
<1> DEFINE W == [q \in Requests |-> [key |-> key[q], user |-> User(q), resumes |-> parent[q] # NoRun]]
           R == [k \in Keys |-> RunOf(k)]
<1>1. PICK q \in Stored(key[r]) : Answer(r, IF User(q) = User(r) THEN q ELSE "refused")
  BY DEF AnswerStored
<1>2. q \in Requests /\ key[r] \in Keys
  BY <1>1 DEF Stored, IInv, TypeOK
<1>3. RunOf(key[r]) = q
  BY <1>1, RunStored DEF IInv
<1>4. R[W[r].key] = q /\ W[q].user = User(q) /\ W[r].user = User(r)
  BY <1>2, <1>3
<1>5. q # NoRun
  BY <1>2, NoRunAssumption
<1>6. UNCHANGED <<owner, key, thread, parent, job, row>>
  BY DEF inputVars, rowVars
<1>7. Store!Tell(r, IF User(q) = User(r) THEN q ELSE "refused") /\ UNCHANGED <<W, R, {p \in Requests : job[p] # "none"}>>
  BY <1>1, <1>6, AnswerTold
<1> HIDE DEF W, R
<1>8. Store!RunOf(r) = q
  BY <1>4 DEF Store!RunOf, W, R
<1> QED BY <1>4, <1>5, <1>7, <1>8 DEF Store!Repeat, W, R

LEMMA ParentRefused ==
  ASSUME IInv, NEW r \in Requests, CheckParent(r)
  PROVE  Store!Refuse(r) \/ UNCHANGED Store!vars
<1>1. UNCHANGED <<owner, key, thread, parent, job, row>> /\ pc[r] = "parent"
  BY DEF CheckParent, inputVars, rowVars
<1>2. CASE UNCHANGED answer
  <2>1. \A k : RunOf(k)' = RunOf(k)
    BY <1>1, RowsKept
  <2> QED BY <1>1, <1>2, <2>1, RequestsKept DEF Store!vars
<1>3. CASE Answer(r, "refused")
  <2>1. parent[r] # NoRun
    BY <1>1 DEF IInv, ProgressInv, Progressed
  <2> QED BY <1>1, <1>3, <2>1, AnswerTold DEF Store!Refuse
<1> QED BY <1>2, <1>3 DEF CheckParent

LEMMA CommitCreates ==
  ASSUME IInv, IInv', NEW r \in Requests, Commit(r)
  PROVE  Store!Create(r)
<1> DEFINE W == [q \in Requests |-> [key |-> key[q], user |-> User(q), resumes |-> parent[q] # NoRun]]
           R == [k \in Keys |-> RunOf(k)]
<1>1. /\ pc[r] = "commit" /\ row[r] = "open" /\ row' = [row EXCEPT ![r] = "committed"]
      /\ UNCHANGED <<owner, key, thread, parent, job, answer>>
  BY DEF Commit, inputVars, IInv, TypeOK
<1>2. answer[r] = "none" /\ key[r] \in Keys
  BY <1>1 DEF IInv, ProgressInv, Progressed, TypeOK
<1>3. Stored(key[r]) = {}
  BY <1>1 DEF Stored, IInv, OneRowPerKey, Placed
<1>4. ASSUME NEW k \in Keys, k = key[r] PROVE RunOf(k)' = r
  <2>1. r \in Stored(k)'
    BY <1>1, <1>4 DEF Stored, IInv, TypeOK
  <2> QED BY <2>1, RunStoredNext DEF IInv
<1>5. \A k \in Keys : k # key[r] => RunOf(k)' = RunOf(k)
  <2>1. ASSUME NEW k \in Keys, k # key[r] PROVE Stored(k)' = Stored(k)
    BY <1>1, <2>1 DEF Stored, IInv, TypeOK
  <2> QED BY <2>1, RunIsChoice
<1>6. R' = [R EXCEPT ![key[r]] = r]
  BY <1>2, <1>4, <1>5
<1>7. R[key[r]] = NoRun
  BY <1>2, <1>3 DEF RunOf
<1>8. W' = W /\ {q \in Requests : job[q] # "none"}' = {q \in Requests : job[q] # "none"}
  BY <1>1, RequestsKept
<1> HIDE DEF R
<1>9. W[r].key = key[r]
  OBVIOUS
<1> QED BY <1>1, <1>2, <1>6, <1>7, <1>8, <1>9 DEF Store!Create, Store!RunOf, R

\* The job reaches Redis: the request is answered with its run, or fails all the same.
LEMMA JobIsQueued ==
  ASSUME IInv, NEW r \in Requests, pc[r] = "enqueue", NEW x \in {r, "error"}, Answer(r, x),
         job' = [job EXCEPT ![r] = "queued"],
         UNCHANGED <<owner, key, thread, parent>>,
         \A q \in Requests : row'[q] = "committed" <=> row[q] = "committed"
  PROVE  Store!Queue(r)
<1> DEFINE W == [q \in Requests |-> [key |-> key[q], user |-> User(q), resumes |-> parent[q] # NoRun]]
           R == [k \in Keys |-> RunOf(k)]
<1>1. /\ pc[r] = "enqueue" /\ row[r] = "committed" /\ job[r] = "none" /\ answer[r] = "none"
      /\ key[r] \in Keys
  BY DEF IInv, ProgressInv, Progressed, TypeOK
<1>2. answer' = [answer EXCEPT ![r] = x]
  BY DEF Answer
<1>3. RunOf(key[r]) = r
  BY <1>1, RunStored DEF Stored, IInv
<1>4. R[W[r].key] = r
  BY <1>1, <1>3
<1>5. \A k : RunOf(k)' = RunOf(k)
  BY RowsKept
<1>6. W' = W /\ R' = R
  BY <1>5, RequestsKept
<1>7. {q \in Requests : job[q] # "none"}' = {q \in Requests : job[q] # "none"} \union {r}
  BY DEF IInv, TypeOK
<1> HIDE DEF W, R
<1> QED BY <1>1, <1>2, <1>4, <1>6, <1>7 DEF Store!Queue, Store!RunOf, Store!Tell, W, R

LEMMA RunStoreStep == IInv /\ IInv' /\ [Next]_vars => [Store!Next]_Store!vars
<1> SUFFICES ASSUME IInv, IInv', [Next]_vars
             PROVE  Store!Next \/ UNCHANGED Store!vars
  OBVIOUS
<1>1. ASSUME NEW r \in Requests, Arrive(r) PROVE Store!Next \/ UNCHANGED Store!vars
  BY <1>1, ArriveResumes DEF Store!Next
<1>2. ASSUME NEW r \in Requests, CheckParent(r) PROVE Store!Next \/ UNCHANGED Store!vars
  BY <1>2, ParentRefused DEF Store!Next
<1>3. ASSUME UNCHANGED <<owner, key, thread, parent, answer>>,
             \A q \in Requests : row'[q] = "committed" <=> row[q] = "committed",
             \A q \in Requests : job'[q] # "none" <=> job[q] # "none"
      PROVE  UNCHANGED Store!vars
  <2>1. \A k : RunOf(k)' = RunOf(k)
    BY <1>3, RowsKept
  <2> QED BY <1>3, <2>1, RequestsKept DEF Store!vars
<1>4. ASSUME NEW r \in Requests, Lookup(r) PROVE Store!Next \/ UNCHANGED Store!vars
  <2>1. CASE AnswerStored(r)
    BY <1>4, <2>1, AnswerRepeats DEF Lookup, Store!Next
  <2>2. CASE UNCHANGED answer
    BY <1>3, <1>4, <2>2 DEF Lookup, inputVars, rowVars
  <2> QED BY <1>4, <2>1, <2>2 DEF Lookup
<1>5. ASSUME NEW r \in Requests, Insert(r) PROVE UNCHANGED Store!vars
  <2>1. row[r] = "none"
    BY <1>5 DEF Insert, IInv, ProgressInv, Progressed
  <2>2. \A q \in Requests : row'[q] = "committed" <=> row[q] = "committed"
    BY <1>5, <2>1, InsertCases DEF IInv, TypeOK
  <2> QED BY <1>3, <1>5, <2>2, InsertCases DEF IInv
<1>6. ASSUME NEW r \in Requests, Conflict(r) PROVE Store!Next
  <2>1. AnswerStored(r)
    BY <1>6 DEF Conflict, Reread, IInv, ProgressInv, Progressed
  <2> QED BY <1>6, <2>1, AnswerRepeats DEF Conflict, Store!Next
<1>7. ASSUME NEW r \in Requests, Commit(r) \/ Enqueue(r) PROVE Store!Next
  <2>1. Enqueue(r) => Store!Queue(r)
    BY JobIsQueued DEF Enqueue, inputVars, rowVars
  <2> QED BY <1>7, <2>1, CommitCreates DEF Store!Next
<1>8. ASSUME NEW r \in Requests, Abort(r) PROVE Store!Next
  <2>1. \A q \in Requests : row'[q] = "committed" <=> row[q] = "committed"
    BY <1>8 DEF Abort, IInv, TypeOK
  <2>2. CASE UNCHANGED job
    <3>1. Store!Fail(r)
      BY <1>8, <2>1, <2>2, AnswerTold DEF Abort, inputVars, Store!Fail
    <3> QED BY <3>1 DEF Store!Next
  <2>3. CASE pc[r] = "enqueue" /\ job' = [job EXCEPT ![r] = "queued"]
    <3>1. Store!Queue(r)
      BY <1>8, <2>1, <2>3, JobIsQueued DEF Abort, inputVars
    <3> QED BY <3>1 DEF Store!Next
  <2> QED BY <1>8, <2>2, <2>3 DEF Abort, MayHaveQueued
<1>9. ASSUME NEW r \in Requests, TakeJob(r) \/ RunEnds(r) PROVE UNCHANGED Store!vars
  <2>1. \A q \in Requests : job'[q] # "none" <=> job[q] # "none"
    BY <1>9, Worker DEF IInv, TypeOK
  <2> QED BY <1>3, <1>9, <2>1, Worker
<1>10. CASE UNCHANGED vars
  BY <1>3, <1>10 DEF vars, inputVars, rowVars
<1> QED BY <1>1, <1>2, <1>4, <1>5, <1>6, <1>7, <1>8, <1>9, <1>10 DEF Next, Handle

\* Creation implements RunStore: whatever the lookups, inserts, conflicts and rollbacks
\* of several requests do to each other, a key gets its run in one step and keeps it.
THEOREM StoreImplemented == Spec => StoreSpec
<1> QED BY Invariant, StoreInit, RunStoreStep, PTL DEF Spec, StoreSpec, Store!Spec

=============================================================================
