----------------------- MODULE XhsDistributionProofs -----------------------
(***************************************************************************)
(* Proofs about XhsDistribution, for any number of requests, accounts,     *)
(* deliveries and failures.                                                *)
(***************************************************************************)
EXTENDS XhsDistribution, FiniteSetTheorems, TLAPS

-----------------------------------------------------------------------------
(* The inductive invariant.                                                *)

\* A request is answered last; its job is delivered once it is enqueued, to one worker
\* at a time.
DeliveredOnce(r) ==
    /\ answer[r] # "none" => pc[r] = "done"
    /\ pc[r] \in {"lookup", "recent", "create", "enqueue"} => delivery[r] = "none" /\ tries[r] = 0
    /\ delivery[r] = "taken" <=> at[r] # "idle"
    /\ delivery[r] = "waiting" => tries[r] < MaxTries

\* A worker is at an account of its request, whose result says running.
OnItsAccount(r) ==
    cur[r] # Free => cur[r] \in ask[r].accounts /\ result[r][cur[r]] = "running"

\* Between two accounts and at them the counter agrees with the results.
TallyAgrees(r) == succeeded[r] = IF at[r] = "idle" THEN 0 ELSE Counted(r)

\* What the gateway and the result of an account say about clicks.
ClickKnown(r, a) ==
    /\ sent[r][a] <= 1
    /\ gateway[r][a] \in {"waiting", "page", "unsent"} => sent[r][a] = 0
    /\ gateway[r][a] \in {"clicked", "sent"} => sent[r][a] = 1
    /\ result[r][a] = "queued" => sent[r][a] = 0 /\ gateway[r][a] = "none"
    /\ cur[r] = a /\ at[r] \in {"slot", "locked", "drive"} =>
          sent[r][a] = 0 /\ gateway[r][a] = "none"
    /\ result[r][a] = "failed" /\ ask[r].mode = "publish" =>
          sent[r][a] = 0 /\ gateway[r][a] = "none"
    /\ result[r][a] \in Succeeded => sent[r][a] = 1 /\ gateway[r][a] = "none"

\* A worker behind the lock holds it, and nobody else took the account over.
Guarded(r) ==
    /\ at[r] \in {"locked", "drive", "wait"} => lock[cur[r]] = r
    /\ at[r] \in {"drive", "wait"} => cur[r] \notin control

WorkInv == \A r \in Requests : DeliveredOnce(r) /\ OnItsAccount(r) /\ TallyAgrees(r)
ClickInv == \A r \in Requests, a \in Accounts : ClickKnown(r, a)
GuardInv == \A r \in Requests : Guarded(r)

IInv == TypeOK /\ WorkInv /\ ClickInv /\ GuardInv

-----------------------------------------------------------------------------
(* What leaves a part of the invariant alone.                              *)

LEMMA AskType ==
  ASSUME TypeOK, NEW r \in Requests
  PROVE  /\ ask[r].accounts \subseteq Accounts
         /\ ask[r].mode \in {"draft", "publish"}
  BY AsksAssumption DEF TypeOK, RequestOK

LEMMA ClickFrame ==
  ASSUME ClickInv, UNCHANGED <<ask, result, at, cur, gateway, sent>>
  PROVE  ClickInv'
  BY DEF ClickInv, ClickKnown

LEMMA GuardFrame ==
  ASSUME GuardInv, UNCHANGED <<at, cur, lock, control>>
  PROVE  GuardInv'
  BY DEF GuardInv, Guarded

LEMMA WorkFrame ==
  ASSUME WorkInv, UNCHANGED <<ask, result, at, cur, succeeded>>,
         \A r \in Requests : DeliveredOnce(r)'
  PROVE  WorkInv'
  BY DEF WorkInv, OnItsAccount, TallyAgrees, Counted, With

LEMMA DeliveryFrame ==
  ASSUME WorkInv, UNCHANGED <<pc, answer, delivery, tries>>,
         \A r \in Requests : at'[r] = "idle" <=> at[r] = "idle"
  PROVE  \A r \in Requests : DeliveredOnce(r)'
  BY DEF WorkInv, DeliveredOnce

-----------------------------------------------------------------------------
(* Counting.                                                               *)

LEMMA CountedRange ==
  ASSUME TypeOK, NEW r \in Requests
  PROVE  Counted(r) \in 0..Cardinality(Accounts)
<1>1. With(r, Succeeded) \subseteq Accounts
  BY AskType DEF With
<1> QED BY <1>1, AccountsAssumption, FS_Subset, FS_CardinalityType DEF Counted

\* A verdict other than success leaves every count alone.
LEMMA SameCount ==
  ASSUME TypeOK, NEW r \in Requests, NEW a \in Accounts, NEW s, Set(r, a, s),
         result[r][a] \notin Succeeded, s \notin Succeeded, UNCHANGED ask,
         NEW q \in Requests
  PROVE  Counted(q)' = Counted(q)
<1>1. With(q, Succeeded)' = With(q, Succeeded)
  BY AskType DEF With, Set, TypeOK, RowsOK
<1> QED BY <1>1 DEF Counted

\* A success is one more.
LEMMA OneMore ==
  ASSUME TypeOK, NEW r \in Requests, NEW a \in ask[r].accounts, NEW s, Set(r, a, s),
         result[r][a] \notin Succeeded, s \in Succeeded, UNCHANGED ask
  PROVE  /\ Counted(r)' = Counted(r) + 1
         /\ \A q \in Requests \ {r} : Counted(q)' = Counted(q)
<1>1. With(r, Succeeded)' = With(r, Succeeded) \union {a}
  BY AskType DEF With, Set, TypeOK, RowsOK
<1>2. a \notin With(r, Succeeded)
  BY DEF With
<1>3. IsFiniteSet(With(r, Succeeded))
  <2>1. With(r, Succeeded) \subseteq Accounts
    BY AskType DEF With
  <2> QED BY <2>1, AccountsAssumption, FS_Subset
<1>4. Counted(r)' = Counted(r) + 1
  BY <1>1, <1>2, <1>3, FS_AddElement DEF Counted
<1>5. ASSUME NEW q \in Requests \ {r}
      PROVE  With(q, Succeeded)' = With(q, Succeeded)
  BY AskType DEF With, Set, TypeOK, RowsOK
<1> QED BY <1>4, <1>5 DEF Counted

-----------------------------------------------------------------------------
(* The initial states.                                                     *)

LEMMA InitInv == Init => IInv
<1> SUFFICES ASSUME Init PROVE IInv
  OBVIOUS
<1>1. TallyOK
  BY AccountsAssumption, FS_CardinalityType DEF Init, TallyOK
<1>2. TypeOK
  BY <1>1, BoundsAssumption, AnswersAssumption
     DEF Init, TypeOK, RequestOK, RowsOK, DeliveryOK, WorkerOK, AccountsOK, GatewayOK, Answers, Settled
<1>3. WorkInv
  BY DEF Init, WorkInv, DeliveredOnce, OnItsAccount, TallyAgrees
<1>4. ClickInv
  BY FreeAssumption DEF Init, ClickInv, ClickKnown, Succeeded
<1>5. GuardInv
  BY DEF Init, GuardInv, Guarded
<1> QED BY <1>2, <1>3, <1>4, <1>5 DEF IInv

-----------------------------------------------------------------------------
(* The request.                                                            *)

LEMMA RequestInv ==
  ASSUME IInv, NEW r \in Requests, Request(r)
  PROVE  IInv'
<1> USE DEF IInv, askVars, workerVars, arqVars, gatewayVars
<1>1. /\ UNCHANGED <<ask, result, at, cur, succeeded, gateway, sent, lock, control, enabled>>
      /\ UNCHANGED <<tries, abandoned>>
  BY DEF Request, Lookup, FindRecent, Create, Enqueue, EnqueueFails, Refuse, RequestDies
<1>2. ClickInv' /\ GuardInv'
  BY <1>1, ClickFrame, GuardFrame
<1>3. ASSUME NEW q \in Requests PROVE DeliveredOnce(q)'
  BY <1>1, BoundsAssumption
     DEF WorkInv, DeliveredOnce, Request, Lookup, FindRecent, Create, Enqueue, EnqueueFails, Refuse,
         RequestDies, Goto, Answer, Enqueued, TypeOK, RequestOK, DeliveryOK
<1>4. WorkInv'
  BY <1>1, <1>3, WorkFrame
<1>5. TypeOK'
  <2>1. RequestOK'
    BY <1>1 DEF Request, Lookup, FindRecent, Create, Enqueue, EnqueueFails, Refuse, RequestDies,
                Goto, Answer, TypeOK, RequestOK, Answers, Keyed, Recent, Publications
  <2>2. RowsOK'
    BY <1>1 DEF Request, Lookup, FindRecent, Create, Enqueue, EnqueueFails, Refuse, RequestDies,
                TypeOK, RowsOK, Settled
  <2>3. DeliveryOK'
    BY <1>1 DEF Request, Lookup, FindRecent, Create, Enqueue, EnqueueFails, Refuse, RequestDies,
                Enqueued, TypeOK, DeliveryOK
  <2>4. faults' \in 0..MaxFaults
    BY BoundsAssumption
       DEF Request, Lookup, FindRecent, Create, Enqueue, EnqueueFails, Refuse, RequestDies, Fault, TypeOK
  <2> QED BY <1>1, <2>1, <2>2, <2>3, <2>4 DEF TypeOK, WorkerOK, TallyOK, AccountsOK, GatewayOK
<1> QED BY <1>2, <1>4, <1>5

-----------------------------------------------------------------------------
(* The worker between two accounts.                                        *)

LEMMA TakeInv ==
  ASSUME IInv, NEW r \in Requests, Take(r)
  PROVE  IInv'
<1> USE DEF IInv, askVars, workerVars, arqVars, gatewayVars
<1>1. GuardInv'
  BY DEF Take, Step, GuardInv, Guarded, TypeOK, WorkerOK
<1>2. ClickInv'
  BY DEF Take, Step, ClickInv, ClickKnown, TypeOK, WorkerOK
<1>3. WorkInv'
  <2>1. ASSUME NEW q \in Requests PROVE DeliveredOnce(q)'
    BY BoundsAssumption DEF Take, Step, WorkInv, DeliveredOnce, TypeOK, DeliveryOK, WorkerOK
  <2>2. ASSUME NEW q \in Requests PROVE OnItsAccount(q)'
    BY DEF Take, Step, WorkInv, OnItsAccount
  <2>3. ASSUME NEW q \in Requests PROVE TallyAgrees(q)'
    <3>1. Counted(q)' = Counted(q)
      BY DEF Take, Counted, With
    <3> QED BY <3>1 DEF Take, Step, WorkInv, TallyAgrees, TypeOK, WorkerOK, TallyOK, DeliveredOnce
  <2> QED BY <2>1, <2>2, <2>3 DEF WorkInv
<1>4. TypeOK'
  <2>1. TallyOK'
    BY CountedRange DEF Take, TypeOK, TallyOK
  <2>2. WorkerOK'
    BY DEF Take, Step, TypeOK, WorkerOK, WorkInv, DeliveredOnce
  <2>3. DeliveryOK'
    BY BoundsAssumption DEF Take, TypeOK, DeliveryOK, WorkInv, DeliveredOnce
  <2>4. RowsOK'
    BY DEF Take, TypeOK, RowsOK
  <2> QED BY <2>1, <2>2, <2>3, <2>4 DEF Take, TypeOK, RequestOK, AccountsOK, GatewayOK
<1> QED BY <1>1, <1>2, <1>3, <1>4

LEMMA InterruptedInv ==
  ASSUME IInv, NEW r \in Requests, Interrupted(r)
  PROVE  IInv'
<1> USE DEF IInv, askVars, workerVars, arqVars, gatewayVars
<1>1. PICK a \in With(r, {"running"}) : Set(r, a, Verdict(r, "unknown"))
  BY DEF Interrupted
<1>2. a \in ask[r].accounts /\ a \in Accounts /\ result[r][a] = "running"
  BY <1>1, AskType DEF With
<1>3. Verdict(r, "unknown") \in {"failed", "uncertain"}
      /\ (Verdict(r, "unknown") = "failed" => ask[r].mode # "publish")
  BY AskType DEF Verdict
<1>4. GuardInv'
  BY GuardFrame DEF Interrupted
<1>5. ClickInv'
  BY <1>1, <1>2, <1>3 DEF Interrupted, Set, ClickInv, ClickKnown, TypeOK, RowsOK, Succeeded
<1>6. WorkInv'
  <2>1. ASSUME NEW q \in Requests PROVE DeliveredOnce(q)'
    BY DeliveryFrame DEF Interrupted
  <2>2. ASSUME NEW q \in Requests PROVE OnItsAccount(q)'
    BY <1>1, <1>2 DEF Interrupted, Set, WorkInv, OnItsAccount, TypeOK, WorkerOK, RowsOK
  <2>3. ASSUME NEW q \in Requests PROVE TallyAgrees(q)'
    <3>1. Counted(q)' = Counted(q)
      BY <1>1, <1>2, <1>3, SameCount DEF Interrupted, Succeeded
    <3> QED BY <3>1 DEF Interrupted, WorkInv, TallyAgrees
  <2> QED BY <2>1, <2>2, <2>3 DEF WorkInv
<1>7. TypeOK'
  <2>1. RowsOK'
    BY <1>1, <1>2, <1>3 DEF Interrupted, Set, TypeOK, RowsOK
  <2> QED BY <2>1 DEF Interrupted, TypeOK, RequestOK, DeliveryOK, WorkerOK, TallyOK, AccountsOK, GatewayOK
<1> QED BY <1>4, <1>5, <1>6, <1>7

LEMMA NotReadyInv ==
  ASSUME IInv, NEW r \in Requests, NotReady(r)
  PROVE  IInv'
<1> USE DEF IInv, askVars, workerVars, arqVars, gatewayVars
<1>1. PICK a \in ToSend(r) \ enabled : Set(r, a, "failed")
  BY DEF NotReady
<1>2. a \in ask[r].accounts /\ a \in Accounts /\ result[r][a] = "queued"
  BY <1>1, AskType DEF ToSend, With
<1>3. GuardInv'
  BY GuardFrame DEF NotReady
<1>4. ClickInv'
  BY <1>1, <1>2 DEF NotReady, Set, ClickInv, ClickKnown, TypeOK, RowsOK, Succeeded
<1>5. WorkInv'
  <2>1. ASSUME NEW q \in Requests PROVE DeliveredOnce(q)'
    BY DeliveryFrame DEF NotReady
  <2>2. ASSUME NEW q \in Requests PROVE OnItsAccount(q)'
    BY <1>1, <1>2 DEF NotReady, Set, WorkInv, OnItsAccount, TypeOK, WorkerOK, RowsOK
  <2>3. ASSUME NEW q \in Requests PROVE TallyAgrees(q)'
    <3>1. Counted(q)' = Counted(q)
      BY <1>1, <1>2, SameCount DEF NotReady, Succeeded
    <3> QED BY <3>1 DEF NotReady, WorkInv, TallyAgrees
  <2> QED BY <2>1, <2>2, <2>3 DEF WorkInv
<1>6. TypeOK'
  <2>1. RowsOK'
    BY <1>1, <1>2 DEF NotReady, Set, TypeOK, RowsOK
  <2> QED BY <2>1 DEF NotReady, TypeOK, RequestOK, DeliveryOK, WorkerOK, TallyOK, AccountsOK, GatewayOK
<1> QED BY <1>3, <1>4, <1>5, <1>6

LEMMA BeginInv ==
  ASSUME IInv, NEW r \in Requests, Begin(r)
  PROVE  IInv'
<1> USE DEF IInv, askVars, workerVars, arqVars, gatewayVars
<1>1. PICK a \in ToSend(r) \intersect enabled :
         Set(r, a, "running") /\ cur' = [cur EXCEPT ![r] = a]
  BY DEF Begin
<1>2. a \in ask[r].accounts /\ a \in Accounts /\ result[r][a] = "queued" /\ a # Free
  BY <1>1, AskType, FreeAssumption DEF ToSend, With
<1>3. GuardInv'
  BY <1>1, <1>2 DEF Begin, Step, GuardInv, Guarded, TypeOK, WorkerOK
<1>4. ClickInv'
  BY <1>1, <1>2 DEF Begin, Step, Set, ClickInv, ClickKnown, TypeOK, RowsOK, WorkerOK, Succeeded
<1>5. WorkInv'
  <2>1. ASSUME NEW q \in Requests PROVE DeliveredOnce(q)'
    BY DEF Begin, Step, WorkInv, DeliveredOnce, TypeOK, WorkerOK
  <2>2. ASSUME NEW q \in Requests PROVE OnItsAccount(q)'
    BY <1>1, <1>2 DEF Begin, Set, WorkInv, OnItsAccount, TypeOK, WorkerOK, RowsOK
  <2>3. ASSUME NEW q \in Requests PROVE TallyAgrees(q)'
    <3>1. Counted(q)' = Counted(q)
      BY <1>1, <1>2, SameCount DEF Begin, Succeeded
    <3> QED BY <3>1 DEF Begin, Step, WorkInv, TallyAgrees, TypeOK, WorkerOK
  <2> QED BY <2>1, <2>2, <2>3 DEF WorkInv
<1>6. TypeOK'
  <2>1. RowsOK'
    BY <1>1, <1>2 DEF Begin, Set, TypeOK, RowsOK
  <2>2. WorkerOK'
    BY <1>1, <1>2 DEF Begin, Step, TypeOK, WorkerOK
  <2> QED BY <2>1, <2>2 DEF Begin, TypeOK, RequestOK, DeliveryOK, TallyOK, AccountsOK, GatewayOK
<1> QED BY <1>3, <1>4, <1>5, <1>6

-----------------------------------------------------------------------------
(* The worker at an account.                                               *)

LEMMA VerdictType ==
  ASSUME TypeOK, NEW r \in Requests, NEW s \in {"sent", "unsent", "unknown"}
  PROVE  /\ Verdict(r, s) \in {"failed", "uncertain"} \union Succeeded
         /\ Verdict(r, s) \in Succeeded <=> s = "sent"
         /\ Verdict(r, s) = "failed" /\ ask[r].mode = "publish" => s = "unsent"
  BY AskType DEF Verdict, Succeeded

LEMMA ConcludeWork ==
  ASSUME IInv, NEW r \in Requests, at[r] \notin {"idle", "next"},
         NEW s \in {"sent", "unsent", "unknown"}, Conclude(r, s)
  PROVE  /\ WorkInv' /\ GuardInv'
         /\ RequestOK' /\ RowsOK' /\ DeliveryOK' /\ WorkerOK' /\ TallyOK' /\ AccountsOK'
<1> USE DEF IInv, askVars, workerVars, arqVars
<1> DEFINE v == Verdict(r, s)
<1>1. /\ cur[r] \in Accounts /\ cur[r] \in ask[r].accounts
      /\ result[r][cur[r]] = "running" /\ Set(r, cur[r], v)
  BY DEF Conclude, TypeOK, WorkerOK, WorkInv, OnItsAccount
<1>2. v \in {"failed", "uncertain"} \union Succeeded /\ (v \in Succeeded <=> s = "sent")
  BY VerdictType
<1> HIDE DEF v
<1>3. GuardInv'
  BY DEF Conclude, Step, Unlocked, GuardInv, Guarded, TypeOK, WorkerOK, AccountsOK
<1>4. ASSUME NEW q \in Requests PROVE DeliveredOnce(q)'
  BY DEF Conclude, Step, WorkInv, DeliveredOnce, TypeOK, WorkerOK
<1>5. ASSUME NEW q \in Requests PROVE OnItsAccount(q)'
  BY <1>1 DEF Conclude, Set, WorkInv, OnItsAccount, TypeOK, WorkerOK, RowsOK
<1>6. succeeded[r] = Counted(r)
  BY DEF WorkInv, TallyAgrees
<1>7. \A q \in Requests : TallyAgrees(q)'
  <2>1. CASE s = "sent"
    <3>1. Counted(r)' = Counted(r) + 1 /\ \A q \in Requests \ {r} : Counted(q)' = Counted(q)
      BY <1>1, <1>2, <2>1, OneMore DEF Conclude, Succeeded
    <3> QED BY <1>6, <2>1, <3>1 DEF Conclude, Step, WorkInv, TallyAgrees, TypeOK, WorkerOK, TallyOK
  <2>2. CASE s # "sent"
    <3>1. ASSUME NEW q \in Requests PROVE Counted(q)' = Counted(q)
      BY <1>1, <1>2, <2>2, SameCount DEF Conclude, Succeeded
    <3> QED BY <1>6, <2>2, <3>1 DEF Conclude, Step, WorkInv, TallyAgrees, TypeOK, WorkerOK, TallyOK
  <2> QED BY <2>1, <2>2
<1>8. WorkInv'
  BY <1>4, <1>5, <1>7 DEF WorkInv
<1>9. RequestOK' /\ DeliveryOK'
  BY DEF Conclude, TypeOK, RequestOK, DeliveryOK
<1>10. RowsOK'
  BY <1>1, <1>2 DEF Conclude, Set, TypeOK, RowsOK
<1>11. WorkerOK' /\ AccountsOK'
  BY DEF Conclude, Step, Unlocked, TypeOK, WorkerOK, AccountsOK
<1>12. TallyOK'
  <2>1. Counted(r)' \in 0..Cardinality(Accounts)
    <3>1. With(r, Succeeded)' \subseteq Accounts
      BY AskType DEF With, Conclude
    <3> QED BY <3>1, AccountsAssumption, FS_Subset, FS_CardinalityType DEF Counted
  <2>2. succeeded'[r] = Counted(r)'
    BY <1>7 DEF TallyAgrees, Conclude, Step, TypeOK, WorkerOK
  <2> QED BY <2>1, <2>2 DEF Conclude, TypeOK, TallyOK
<1> QED BY <1>3, <1>8, <1>9, <1>10, <1>11, <1>12

\* What a verdict needs to know of the gateway.
LEMMA ConcludeClick ==
  ASSUME IInv, NEW r \in Requests, at[r] \notin {"idle", "next"},
         NEW s \in {"sent", "unsent", "unknown"}, Conclude(r, s),
         gateway' \in {gateway, [gateway EXCEPT ![r][cur[r]] = "none"]}, UNCHANGED sent,
         s = "sent" => sent[r][cur[r]] = 1 /\ gateway'[r][cur[r]] = "none",
         s = "unsent" => sent[r][cur[r]] = 0 /\ gateway'[r][cur[r]] = "none"
  PROVE  ClickInv' /\ GatewayOK'
<1> USE DEF IInv, askVars
<1> DEFINE v == Verdict(r, s)
<1>1. cur[r] \in Accounts /\ Set(r, cur[r], v)
  BY DEF Conclude, TypeOK, WorkerOK
<1>2. /\ v \in {"failed", "uncertain"} \union Succeeded /\ (v \in Succeeded <=> s = "sent")
      /\ v = "failed" /\ ask[r].mode = "publish" => s = "unsent"
  BY VerdictType
<1> HIDE DEF v
<1>3. GatewayOK'
  <2>1. CASE gateway' = gateway
    BY <2>1 DEF TypeOK, GatewayOK
  <2>2. CASE gateway' = [gateway EXCEPT ![r][cur[r]] = "none"]
    BY <1>1, <2>2 DEF TypeOK, GatewayOK
  <2> QED BY <2>1, <2>2
<1>4. ASSUME NEW q \in Requests, NEW a \in Accounts PROVE ClickKnown(q, a)'
  <2>1. CASE q = r /\ a = cur[r]
    <3>1. result'[q][a] = v /\ at'[q] = "next"
      BY <1>1, <2>1 DEF Conclude, Step, Set, TypeOK, RowsOK, WorkerOK
    <3>2. gateway'[q][a] \in {gateway[q][a], "none"} /\ sent'[q][a] = sent[q][a]
      BY <1>1, <2>1 DEF TypeOK, GatewayOK
    <3> QED BY <1>2, <2>1, <3>1, <3>2 DEF Conclude, ClickInv, ClickKnown, Succeeded
  <2>2. CASE q # r \/ a # cur[r]
    <3>1. result'[q][a] = result[q][a] /\ gateway'[q][a] = gateway[q][a] /\ sent'[q][a] = sent[q][a]
      BY <1>1, <2>2 DEF Set, TypeOK, RowsOK, GatewayOK
    <3>2. cur'[q] = a /\ at'[q] \in {"slot", "locked", "drive"}
             => cur[q] = a /\ at[q] \in {"slot", "locked", "drive"}
      BY <2>2 DEF Conclude, Step, TypeOK, WorkerOK
    <3> QED BY <3>1, <3>2 DEF Conclude, ClickInv, ClickKnown
  <2> QED BY <2>1, <2>2
<1> QED BY <1>3, <1>4 DEF ClickInv

LEMMA ConcludeInv ==
  ASSUME IInv, NEW r \in Requests,
         Busy(r) \/ RedisFails(r) \/ OpenFails(r) \/ Receive(r) \/ GiveUp(r)
  PROVE  IInv'
<1> USE DEF IInv, gatewayVars
<1>1. at[r] \in {"slot", "locked", "drive", "wait"} /\ cur[r] \in Accounts
  BY DEF Busy, RedisFails, OpenFails, Receive, GiveUp, TypeOK, WorkerOK
<1>2. faults' \in 0..MaxFaults
  BY BoundsAssumption DEF Busy, RedisFails, OpenFails, Receive, GiveUp, Fault, TypeOK
<1>3. CASE Busy(r) \/ RedisFails(r) \/ OpenFails(r)
  <2>1. sent[r][cur[r]] = 0 /\ gateway[r][cur[r]] = "none"
    BY <1>1, <1>3 DEF Busy, RedisFails, OpenFails, ClickInv, ClickKnown
  <2>2. PICK s \in {"unsent", "unknown"} : Conclude(r, s)
    BY <1>3 DEF Busy, RedisFails, OpenFails
  <2>3. UNCHANGED <<gateway, sent>>
    BY <1>3 DEF Busy, RedisFails, OpenFails
  <2> QED BY <1>1, <1>2, <2>1, <2>2, <2>3, ConcludeWork, ConcludeClick DEF TypeOK
<1>4. CASE Receive(r)
  <2> DEFINE s == gateway[r][cur[r]]
  <2>1. s \in {"sent", "unsent", "unknown"} /\ Conclude(r, s)
    BY <1>4 DEF Receive
  <2>2. gateway' = [gateway EXCEPT ![r][cur[r]] = "none"] /\ UNCHANGED sent
    BY <1>4 DEF Receive
  <2>3. gateway'[r][cur[r]] = "none"
    BY <1>1, <2>2 DEF TypeOK, GatewayOK
  <2>4. /\ s = "sent" => sent[r][cur[r]] = 1
        /\ s = "unsent" => sent[r][cur[r]] = 0
    BY <1>1 DEF ClickInv, ClickKnown
  <2> HIDE DEF s
  <2> QED BY <1>1, <1>2, <2>1, <2>2, <2>3, <2>4, ConcludeWork, ConcludeClick DEF TypeOK
<1>5. CASE GiveUp(r)
  <2>1. Conclude(r, "unknown") /\ UNCHANGED <<gateway, sent>>
    BY <1>5 DEF GiveUp
  <2> QED BY <1>1, <1>2, <2>1, ConcludeWork, ConcludeClick DEF TypeOK
<1> QED BY <1>3, <1>4, <1>5

LEMMA SlotInv ==
  ASSUME IInv, NEW r \in Requests, Acquire(r) \/ Enter(r) \/ Post(r)
  PROVE  IInv'
<1> USE DEF IInv, askVars, workerVars, arqVars, gatewayVars
<1>1. /\ UNCHANGED <<ask, pc, answer, passed, misreported, job, result, enabled, delivery, tries,
                     abandoned, cur, succeeded, control, sent, faults>>
      /\ \A q \in Requests : at'[q] = "idle" <=> at[q] = "idle"
      /\ cur[r] \in Accounts
  BY DEF Acquire, Enter, Post, Step, TypeOK, WorkerOK
<1>2. GuardInv'
  <2>1. CASE Acquire(r)
    BY <1>1, <2>1, FreeAssumption DEF Acquire, Step, GuardInv, Guarded, TypeOK, WorkerOK, AccountsOK
  <2>2. CASE Enter(r)
    BY <1>1, <2>2 DEF Enter, Step, GuardInv, Guarded, TypeOK, WorkerOK
  <2>3. CASE Post(r)
    BY <1>1, <2>3 DEF Post, Step, GuardInv, Guarded, TypeOK, WorkerOK
  <2> QED BY <2>1, <2>2, <2>3
<1>3. WorkInv'
  <2>1. ASSUME NEW q \in Requests PROVE DeliveredOnce(q)'
    BY <1>1, DeliveryFrame
  <2>2. ASSUME NEW q \in Requests PROVE OnItsAccount(q)' /\ TallyAgrees(q)'
    BY <1>1 DEF WorkInv, OnItsAccount, TallyAgrees, Counted, With
  <2> QED BY <2>1, <2>2 DEF WorkInv
<1>4. ClickInv'
  <2>1. CASE Acquire(r) \/ Enter(r)
    BY <1>1, <2>1 DEF Acquire, Enter, Step, ClickInv, ClickKnown, TypeOK, WorkerOK
  <2>2. CASE Post(r)
    <3>1. result[r][cur[r]] = "running"
      BY <1>1, <2>2, FreeAssumption DEF Post, WorkInv, OnItsAccount
    <3> QED BY <1>1, <2>2, <3>1
            DEF Post, Step, ClickInv, ClickKnown, TypeOK, WorkerOK, GatewayOK, Succeeded
  <2> QED BY <2>1, <2>2
<1>5. TypeOK'
  <2>1. WorkerOK' /\ AccountsOK'
    BY <1>1 DEF Acquire, Enter, Post, Step, TypeOK, WorkerOK, AccountsOK
  <2>2. GatewayOK'
    <3>1. CASE Acquire(r) \/ Enter(r)
      BY <1>1, <3>1 DEF Acquire, Enter, TypeOK, GatewayOK
    <3>2. CASE Post(r)
      BY <1>1, <3>2 DEF Post, TypeOK, GatewayOK
    <3> QED BY <3>1, <3>2
  <2> QED BY <1>1, <2>1, <2>2 DEF TypeOK, RequestOK, RowsOK, DeliveryOK, TallyOK
<1> QED BY <1>2, <1>3, <1>4, <1>5

-----------------------------------------------------------------------------
(* The end of a delivery.                                                  *)

LEMMA EndInv ==
  ASSUME IInv, NEW r \in Requests, Finish(r) \/ Stop(r)
  PROVE  IInv'
<1> USE DEF IInv, askVars, workerVars, arqVars, gatewayVars
<1>1. /\ UNCHANGED <<ask, pc, answer, passed, misreported, result, enabled, tries, control, gateway,
                     sent>>
      /\ at[r] # "idle" /\ at' = [at EXCEPT ![r] = "idle"]
      /\ cur' \in {cur, [cur EXCEPT ![r] = Free]} /\ cur'[r] = Free
      /\ succeeded' = [succeeded EXCEPT ![r] = 0]
  BY DEF Finish, Stop, Step, TypeOK, WorkerOK
<1>2. GuardInv'
  BY <1>1 DEF Finish, Stop, Unlocked, GuardInv, Guarded, TypeOK, WorkerOK, AccountsOK
<1>3. ClickInv'
  BY <1>1 DEF ClickInv, ClickKnown, TypeOK, WorkerOK
<1>4. WorkInv'
  <2>1. ASSUME NEW q \in Requests PROVE DeliveredOnce(q)'
    <3>1. /\ delivery'[q] = delivery[q] \/ (q = r /\ delivery'[q] \in {"waiting", "gone"})
          /\ delivery'[r] \in {"waiting", "gone"}
          /\ delivery'[r] = "waiting" => tries[r] < MaxTries
      BY DEF Finish, Stop, TypeOK, DeliveryOK
    <3> QED BY <1>1, <3>1 DEF WorkInv, DeliveredOnce, TypeOK, WorkerOK
  <2>2. ASSUME NEW q \in Requests PROVE OnItsAccount(q)'
    <3>1. q # r => cur'[q] = cur[q]
      BY <1>1 DEF TypeOK, WorkerOK
    <3> QED BY <1>1, <3>1 DEF WorkInv, OnItsAccount
  <2>3. ASSUME NEW q \in Requests PROVE TallyAgrees(q)'
    BY <1>1 DEF WorkInv, TallyAgrees, Counted, With, TypeOK, WorkerOK, TallyOK
  <2> QED BY <2>1, <2>2, <2>3 DEF WorkInv
<1>5. TypeOK'
  <2>1. RowsOK'
    BY <1>1 DEF Finish, Stop, Total, TypeOK, RowsOK, Settled
  <2>2. DeliveryOK'
    BY <1>1 DEF Finish, Stop, TypeOK, DeliveryOK
  <2>3. WorkerOK'
    BY <1>1 DEF TypeOK, WorkerOK
  <2>4. TallyOK'
    BY <1>1, AccountsAssumption, FS_CardinalityType DEF TypeOK, TallyOK
  <2>5. AccountsOK'
    BY <1>1 DEF Finish, Stop, Unlocked, TypeOK, AccountsOK
  <2>6. faults' \in 0..MaxFaults
    BY BoundsAssumption DEF Finish, Stop, Fault, TypeOK
  <2> QED BY <1>1, <2>1, <2>2, <2>3, <2>4, <2>5, <2>6 DEF TypeOK, RequestOK, GatewayOK
<1> QED BY <1>2, <1>3, <1>4, <1>5

-----------------------------------------------------------------------------
(* The gateway and the accounts.                                           *)

LEMMA GatewayInv ==
  ASSUME IInv, NEW r \in Requests, NEW a \in Accounts, Gateway(r, a)
  PROVE  IInv'
<1> USE DEF IInv, askVars, workerVars, arqVars, gatewayVars
<1>1. /\ UNCHANGED <<ask, pc, answer, passed, misreported, job, result, enabled, delivery, tries,
                     abandoned, at, cur, succeeded, lock, control, faults>>
      /\ gateway[r][a] \in {"waiting", "page", "clicked"}
  BY DEF Gateway, Page, PageFails, Click, Confirm, Serve
<1>2. GuardInv'
  BY <1>1, GuardFrame
<1>3. WorkInv'
  BY <1>1, WorkFrame, DeliveryFrame
<1>4. GatewayOK'
  <2>1. PICK x \in {"none", "waiting", "page", "clicked", "sent", "unsent", "unknown"} :
           gateway' = [gateway EXCEPT ![r][a] = x]
    BY DEF Gateway, Page, PageFails, Click, Confirm, Serve, Reply
  <2>2. sent' \in {sent, [sent EXCEPT ![r][a] = @ + 1]}
    BY DEF Gateway, Page, PageFails, Click, Confirm
  <2>3. sent' \in [Requests -> [Accounts -> Nat]]
    <3>1. CASE sent' = sent
      BY <3>1 DEF TypeOK, GatewayOK
    <3>2. CASE sent' = [sent EXCEPT ![r][a] = @ + 1]
      BY <3>2 DEF TypeOK, GatewayOK
    <3> QED BY <2>2, <3>1, <3>2
  <2> QED BY <2>1, <2>3 DEF TypeOK, GatewayOK
<1>5. ASSUME NEW q \in Requests, NEW b \in Accounts PROVE ClickKnown(q, b)'
  <2>1. CASE q = r /\ b = a
    BY <1>1, <2>1 DEF Gateway, Page, PageFails, Click, Confirm, Serve, Reply, ClickInv, ClickKnown,
                      TypeOK, GatewayOK
  <2>2. CASE q # r \/ b # a
    <3>1. gateway'[q][b] = gateway[q][b] /\ sent'[q][b] = sent[q][b]
      BY <2>2 DEF Gateway, Page, PageFails, Click, Confirm, Serve, TypeOK, GatewayOK
    <3> QED BY <1>1, <3>1 DEF ClickInv, ClickKnown
  <2> QED BY <2>1, <2>2
<1>6. ClickInv'
  BY <1>5 DEF ClickInv
<1>7. TypeOK'
  BY <1>1, <1>4 DEF TypeOK, RequestOK, RowsOK, DeliveryOK, WorkerOK, TallyOK, AccountsOK
<1> QED BY <1>2, <1>3, <1>6, <1>7

LEMMA GatewayDiesInv ==
  ASSUME IInv, GatewayDies
  PROVE  IInv'
<1> USE DEF IInv, askVars, workerVars, arqVars, gatewayVars
<1>1. UNCHANGED <<ask, pc, answer, passed, misreported, job, result, enabled, delivery, tries,
                  abandoned, at, cur, succeeded, lock, control, sent>>
  BY DEF GatewayDies
<1>2. ASSUME NEW q \in Requests, NEW b \in Accounts
      PROVE  \/ gateway'[q][b] = gateway[q][b]
             \/ gateway[q][b] \in {"waiting", "page", "clicked"}
                /\ gateway'[q][b] \in {"none", "unknown"}
  BY DEF GatewayDies, Reply
<1>3. GatewayOK'
  BY <1>2 DEF GatewayDies, TypeOK, GatewayOK, Reply
<1>4. ClickInv'
  BY <1>1, <1>2 DEF ClickInv, ClickKnown
<1>5. GuardInv' /\ WorkInv'
  BY <1>1, GuardFrame, WorkFrame, DeliveryFrame
<1>6. faults' \in 0..MaxFaults
  BY BoundsAssumption DEF GatewayDies, Fault, TypeOK
<1>7. TypeOK'
  BY <1>1, <1>3, <1>6 DEF TypeOK, RequestOK, RowsOK, DeliveryOK, WorkerOK, TallyOK, AccountsOK
<1> QED BY <1>4, <1>5, <1>7

LEMMA AccountInv ==
  ASSUME IInv, NEW a \in Accounts, Account(a)
  PROVE  IInv'
<1> USE DEF IInv, askVars, workerVars, arqVars, gatewayVars
<1>1. UNCHANGED <<ask, pc, answer, passed, misreported, job, result, delivery, tries, abandoned,
                  at, cur, succeeded, gateway, sent>>
  BY DEF Account, LockExpires, Claim, ControlEnds, Disable
<1>2. GuardInv'
  <2>1. CASE LockExpires(a)
    BY <1>1, <2>1 DEF LockExpires, Holds, GuardInv, Guarded, TypeOK, WorkerOK, AccountsOK
  <2>2. CASE Claim(a)
    BY <1>1, <2>2, FreeAssumption DEF Claim, GuardInv, Guarded, TypeOK, WorkerOK
  <2>3. CASE ControlEnds(a) \/ Disable(a)
    BY <1>1, <2>3 DEF ControlEnds, Disable, GuardInv, Guarded
  <2> QED BY <2>1, <2>2, <2>3 DEF Account
<1>3. ClickInv' /\ WorkInv'
  BY <1>1, ClickFrame, WorkFrame, DeliveryFrame
<1>4. AccountsOK'
  BY BoundsAssumption DEF Account, LockExpires, Claim, ControlEnds, Disable, TypeOK, AccountsOK
<1>5. faults' \in 0..MaxFaults
  BY BoundsAssumption DEF Account, LockExpires, Claim, ControlEnds, Disable, Fault, TypeOK
<1>6. TypeOK'
  BY <1>1, <1>4, <1>5 DEF TypeOK, RequestOK, RowsOK, DeliveryOK, WorkerOK, TallyOK, GatewayOK
<1> QED BY <1>2, <1>3, <1>6

-----------------------------------------------------------------------------
(* The theorems.                                                           *)

LEMMA StutterInv ==
  ASSUME IInv, UNCHANGED vars
  PROVE  IInv'
<1> USE DEF IInv, vars, askVars, workerVars, arqVars, gatewayVars
<1>1. ClickInv' /\ GuardInv' /\ WorkInv'
  BY ClickFrame, GuardFrame, WorkFrame, DeliveryFrame
<1>2. TypeOK'
  BY DEF TypeOK, RequestOK, RowsOK, DeliveryOK, WorkerOK, TallyOK, AccountsOK, GatewayOK
<1> QED BY <1>1, <1>2

LEMMA NextInv == IInv /\ [Next]_vars => IInv'
<1> SUFFICES ASSUME IInv, [Next]_vars PROVE IInv'
  OBVIOUS
<1>1. ASSUME NEW r \in Requests, Request(r) PROVE IInv'
  BY <1>1, RequestInv
<1>2. ASSUME NEW r \in Requests, Work(r) PROVE IInv'
  BY <1>2, TakeInv, InterruptedInv, NotReadyInv, BeginInv, ConcludeInv, SlotInv, EndInv DEF Work
<1>3. ASSUME NEW r \in Requests, RedisFails(r) \/ Stop(r) PROVE IInv'
  BY <1>3, ConcludeInv, EndInv
<1>4. ASSUME NEW r \in Requests, NEW a \in Accounts, Gateway(r, a) PROVE IInv'
  BY <1>4, GatewayInv
<1>5. ASSUME NEW a \in Accounts, Account(a) PROVE IInv'
  BY <1>5, AccountInv
<1>6. CASE GatewayDies
  BY <1>6, GatewayDiesInv
<1>7. CASE UNCHANGED vars
  BY <1>7, StutterInv
<1> QED BY <1>1, <1>2, <1>3, <1>4, <1>5, <1>6, <1>7 DEF Next

LEMMA Invariant == Spec => []IInv
  BY InitInv, NextInv, PTL DEF Spec

\* Every variable keeps its type; in particular no delivery goes beyond max_tries, and no
\* worker counts more successes than there are accounts (process_xiaohongshu_distribution).
THEOREM TypeCorrect == Spec => []TypeOK
<1>1. IInv => TypeOK
  BY DEF IInv
<1> QED BY <1>1, Invariant, PTL

\* No job clicks save or publish twice in one account, for any number of deliveries,
\* stops, timeouts and lost answers.
THEOREM NothingSentTwice == Spec => []SentOnce
<1>1. IInv => SentOnce
  BY DEF IInv, ClickInv, ClickKnown, SentOnce
<1> QED BY <1>1, Invariant, PTL

\* No row denies a publication or claims one that was not made.
THEOREM RowsAreTruthful == Spec => []ResultsTruthful
<1>1. IInv => ResultsTruthful
  BY DEF IInv, ClickInv, ClickKnown, ResultsTruthful
<1> QED BY <1>1, Invariant, PTL

\* A worker that drives an account holds its lock, and nobody has taken it over.  A
\* handler of the gateway that is at an account somebody has was left by its worker, and
\* the result of a publication is open or uncertain then.
THEOREM ControlExcluded == Spec => []ControlIsExclusive
<1>1. IInv => ControlIsExclusive
  <2> SUFFICES ASSUME IInv PROVE ControlIsExclusive
    OBVIOUS
  <2>1. ASSUME NEW r \in Requests, NEW a \in control, gateway[r][a] # "none"
        PROVE  cur[r] # a /\ (ask[r].mode = "publish" => result[r][a] \in {"running", "uncertain"})
    <3>1. a \in Accounts /\ ClickKnown(r, a) /\ Guarded(r)
      BY DEF IInv, TypeOK, AccountsOK, ClickInv, GuardInv
    <3>2. cur[r] # a
      BY <2>1, <3>1, FreeAssumption DEF ClickKnown, Guarded, IInv, TypeOK, WorkerOK
    <3>3. ask[r].mode = "publish" => result[r][a] \in {"running", "uncertain"}
      BY <2>1, <3>1 DEF ClickKnown, IInv, TypeOK, RowsOK
    <3> QED BY <3>2, <3>3
  <2> QED BY <2>1 DEF IInv, GuardInv, Guarded, ControlIsExclusive
<1> QED BY <1>1, Invariant, PTL

-----------------------------------------------------------------------------
(* The verdict of a job.  Once it is written, no worker is at the job any  *)
(* more, so that the results stay what was summed up.                      *)

Summary(r) ==
    /\ With(r, {"queued", "running"}) = {}
    /\ job[r] = "uncertain" <=> With(r, {"uncertain"}) # {}
    /\ job[r] = "completed" <=> With(r, Succeeded) = ask[r].accounts
    /\ job[r] = "failed" <=> With(r, {"failed"}) = ask[r].accounts

SumsUp(r) ==
    job[r] \in Settled =>
        \/ answer[r] = "refused" /\ job[r] = "failed"
        \/ delivery[r] = "gone" /\ Summary(r)

SumInv == \A r \in Requests : SumsUp(r)

LEMMA TotalIsSummary ==
  ASSUME IInv, NEW r \in Requests, Finish(r)
  PROVE  Summary(r)'
<1> USE DEF IInv
<1> DEFINE A == ask[r].accounts
           S == With(r, Succeeded)
           F == With(r, {"failed"})
           U == With(r, {"uncertain"})
<1>1. /\ IsFiniteSet(A) /\ Cardinality(A) \in Nat \ {0} /\ IsFiniteSet(S) /\ S \subseteq A
      /\ Cardinality(S) \in Nat
  <2>1. A \subseteq Accounts /\ A # {}
    BY AsksAssumption DEF TypeOK, RequestOK
  <2>2. S \subseteq A
    BY DEF With
  <2>3. IsFiniteSet(A) /\ IsFiniteSet(S)
    BY <2>1, <2>2, AccountsAssumption, FS_Subset
  <2> QED BY <2>1, <2>2, <2>3, FS_EmptySet, FS_CardinalityType
<1>2. With(r, {"queued", "running"}) = {}
  BY DEF Finish
<1>3. \A a \in A : a \in S \/ a \in F \/ a \in U
  BY <1>2, AskType DEF With, TypeOK, RowsOK, Succeeded
<1>4. /\ \A a \in A : ~ (a \in S /\ a \in F) /\ ~ (a \in S /\ a \in U) /\ ~ (a \in F /\ a \in U)
      /\ F \subseteq A /\ U \subseteq A
  BY DEF With, Succeeded
<1>5. succeeded[r] = Cardinality(S)
  BY DEF Finish, WorkInv, TallyAgrees, Counted
<1>6. Cardinality(S) = Cardinality(A) <=> S = A
  BY <1>1, FS_Subset
<1>7. Cardinality(S) = 0 <=> S = {}
  BY <1>1, FS_EmptySet
<1>8. job'[r] = Total(r)
  BY DEF Finish, TypeOK, RowsOK
<1>9. A # {}
  BY <1>1, FS_EmptySet
<1>10. /\ Total(r) = "uncertain" <=> U # {}
       /\ Total(r) = "completed" <=> S = A
       /\ Total(r) = "failed" <=> F = A
  <2> HIDE DEF A, S, F, U
  <2>1. CASE U # {}
    <3>1. Total(r) = "uncertain"
      BY <2>1 DEF Total, U
    <3>2. S # A /\ F # A
      BY <2>1, <1>4
    <3> QED BY <2>1, <3>1, <3>2
  <2>2. CASE U = {} /\ S = A
    <3>1. Total(r) = "completed"
      BY <2>2, <1>5, <1>6 DEF Total, U, S, A
    <3>2. F # A
      BY <2>2, <1>4, <1>9
    <3> QED BY <2>2, <3>1, <3>2
  <2>3. CASE U = {} /\ S # A
    <3>1. Total(r) \notin {"uncertain", "completed"} /\ (Total(r) = "failed" <=> ~ (Cardinality(S) > 0))
      BY <2>3, <1>5, <1>6 DEF Total, U, S, A
    <3>2. Total(r) = "failed" <=> S = {}
      BY <3>1, <1>1, <1>7
    <3>3. S = {} <=> F = A
      BY <2>3, <1>1, <1>3, <1>4
    <3> QED BY <2>3, <3>1, <3>2, <3>3
  <2> QED BY <2>1, <2>2, <2>3
<1>11. With(r, Succeeded)' = S /\ With(r, {"failed"})' = F /\ With(r, {"uncertain"})' = U
       /\ With(r, {"queued", "running"})' = With(r, {"queued", "running"}) /\ UNCHANGED ask
  BY DEF With, Finish, askVars
<1> QED BY <1>2, <1>8, <1>10, <1>11 DEF Summary

LEMMA SumFrame ==
  ASSUME SumInv, NEW q \in Requests, UNCHANGED ask,
         job'[q] = job[q], answer'[q] = answer[q], delivery'[q] = delivery[q],
         delivery[q] = "gone" => result'[q] = result[q]
  PROVE  SumsUp(q)'
<1>1. delivery[q] = "gone" => \A s : With(q, s)' = With(q, s)
  BY DEF With
<1> QED BY <1>1 DEF SumInv, SumsUp, Summary, Settled

LEMMA SumRequest ==
  ASSUME IInv, SumInv, NEW r \in Requests, Request(r)
  PROVE  SumInv'
<1> USE DEF IInv, askVars, workerVars, arqVars, gatewayVars
<1>1. UNCHANGED <<ask, result>>
  BY DEF Request, Lookup, FindRecent, Create, Enqueue, EnqueueFails, Refuse, RequestDies
<1>2. ASSUME NEW q \in Requests PROVE SumsUp(q)'
  <2>1. CASE q # r
    <3>1. job'[q] = job[q] /\ answer'[q] = answer[q] /\ delivery'[q] = delivery[q]
      BY <2>1 DEF Request, Lookup, FindRecent, Create, Enqueue, EnqueueFails, Refuse, RequestDies,
                  Goto, Answer, Enqueued, TypeOK, RequestOK, RowsOK, DeliveryOK
    <3> QED BY <1>1, <3>1, SumFrame
  <2>2. CASE q = r /\ Refuse(r)
    BY <2>2 DEF Refuse, Answer, SumsUp, TypeOK, RequestOK, RowsOK
  <2>3. CASE q = r /\ RequestDies(r)
    BY <1>1, <2>3, SumFrame DEF RequestDies
  <2>4. CASE q = r /\ (Lookup(r) \/ FindRecent(r) \/ Create(r) \/ Enqueue(r) \/ EnqueueFails(r))
    <3>1. job[r] \notin Settled
      BY <2>4 DEF Lookup, FindRecent, Create, Enqueue, EnqueueFails, WorkInv, DeliveredOnce,
                  SumInv, SumsUp
    <3>2. job'[r] \notin Settled
      BY <2>4, <3>1 DEF Lookup, FindRecent, Create, Enqueue, EnqueueFails, TypeOK, RowsOK, Settled
    <3> QED BY <2>4, <3>2 DEF SumsUp, Settled
  <2> QED BY <2>1, <2>2, <2>3, <2>4 DEF Request
<1> QED BY <1>2 DEF SumInv

LEMMA SumWork ==
  ASSUME IInv, SumInv, NEW r \in Requests, Work(r) \/ RedisFails(r) \/ Stop(r)
  PROVE  SumInv'
<1> USE DEF IInv, askVars, workerVars, arqVars, gatewayVars
<1>1. UNCHANGED <<ask, answer>>
  BY DEF Work, Take, Interrupted, NotReady, Begin, Acquire, Busy, Enter, OpenFails, Post, Receive,
         GiveUp, RedisFails, Finish, Stop, Conclude
<1>2. ASSUME NEW q \in Requests PROVE SumsUp(q)'
  <2>1. CASE q # r
    <3>1. /\ job'[q] = job[q] /\ delivery'[q] = delivery[q]
          /\ delivery[q] = "gone" => result'[q] = result[q]
      BY <2>1 DEF Work, Take, Interrupted, NotReady, Begin, Acquire, Busy, Enter, OpenFails, Post,
                  Receive, GiveUp, RedisFails, Finish, Stop, Conclude, Set,
                  TypeOK, RowsOK, DeliveryOK
    <3> QED BY <1>1, <3>1, SumFrame
  <2>2. CASE q = r /\ Take(r)
    <3>1. CASE job[r] \in OpenJob
      BY <2>2, <3>1 DEF Take, SumsUp, Settled, TypeOK, RowsOK
    <3>2. CASE job[r] \notin OpenJob
      <4>1. job'[r] = job[r] /\ answer'[r] = answer[r] /\ delivery[r] = "waiting"
        BY <2>2, <3>2 DEF Take
      <4> QED BY <2>2, <4>1 DEF SumInv, SumsUp
    <3> QED BY <3>1, <3>2
  <2>3. CASE q = r /\ Finish(r)
    <3>1. delivery'[r] = "gone"
      BY <2>3 DEF Finish, TypeOK, DeliveryOK
    <3> QED BY <2>3, <3>1, TotalIsSummary DEF SumsUp
  <2>4. CASE q = r /\ at[r] # "idle" /\ job' = job
    <3>1. delivery[r] # "gone"
      BY <2>4 DEF WorkInv, DeliveredOnce
    <3> QED BY <1>1, <2>4, <3>1 DEF SumInv, SumsUp
  <2>5. Take(r) \/ Finish(r) \/ (at[r] # "idle" /\ job' = job)
    BY DEF Work, Interrupted, NotReady, Begin, Acquire, Busy, Enter, OpenFails, Post, Receive,
           GiveUp, RedisFails, Stop, Conclude
  <2> QED BY <2>1, <2>2, <2>3, <2>4, <2>5
<1> QED BY <1>2 DEF SumInv

LEMMA SumNext == IInv /\ SumInv /\ [Next]_vars => SumInv'
<1> SUFFICES ASSUME IInv, SumInv, [Next]_vars PROVE SumInv'
  OBVIOUS
<1>1. ASSUME NEW r \in Requests, Request(r) PROVE SumInv'
  BY <1>1, SumRequest
<1>2. ASSUME NEW r \in Requests, Work(r) \/ RedisFails(r) \/ Stop(r) PROVE SumInv'
  BY <1>2, SumWork
<1>3. ASSUME UNCHANGED <<ask, job, answer, delivery, result>> PROVE SumInv'
  BY <1>3, SumFrame DEF SumInv
<1>4. ASSUME NEW r \in Requests, NEW a \in Accounts, Gateway(r, a) PROVE SumInv'
  BY <1>3, <1>4 DEF Gateway, Page, PageFails, Click, Confirm, Serve, askVars, arqVars
<1>5. ASSUME NEW a \in Accounts, Account(a) PROVE SumInv'
  BY <1>3, <1>5 DEF Account, LockExpires, Claim, ControlEnds, Disable, askVars, arqVars
<1>6. CASE GatewayDies \/ UNCHANGED vars
  BY <1>3, <1>6 DEF GatewayDies, vars, askVars, arqVars
<1> QED BY <1>1, <1>2, <1>4, <1>5, <1>6 DEF Next

\* The final status of a job sums up its results, over all its deliveries, unless its
\* request failed it for want of a queue (the last lines of the job's function).
THEOREM VerdictSumsUp == Spec => []JobTellsResults
<1>1. Init => SumInv
  BY DEF Init, SumInv, SumsUp, Settled
<1>2. SumInv => JobTellsResults
  BY DEF SumInv, SumsUp, Summary, JobTellsResults
<1> QED BY <1>1, <1>2, SumNext, Invariant, PTL DEF Spec

-----------------------------------------------------------------------------
(* What a request passes over.  A job that says failed without having been *)
(* misreported has clicked nowhere and never will.                         *)

Quiet(q) ==
    /\ pc[q] = "done" /\ delivery[q] \in {"none", "gone"}
    /\ \A a \in Accounts : sent[q][a] = 0 /\ gateway[q][a] = "none"

Known(q) ==
    /\ \A a \in Accounts : delivery[q] = "none" \/ a \notin ask[q].accounts =>
          result[q][a] = "queued"
    /\ pc[q] = "refuse" => q \in misreported \/ delivery[q] = "none"
    /\ job[q] = "failed" /\ ask[q].mode = "publish" => q \in misreported \/ Quiet(q)

\* Of the publications of one list only failed ones are passed over, and they stay so.
PassedOver(r) ==
    \A q \in passed[r] : ask[q].list = ask[r].list =>
        ask[q].mode = "publish" /\ (q \in misreported \/ job[q] = "failed")

KnownInv == \A q \in Requests : Known(q)
PassedInv == \A r \in Requests : PassedOver(r)

LEMMA KnownFrame ==
  ASSUME KnownInv, NEW q \in Requests, UNCHANGED ask, misreported \subseteq misreported',
         pc'[q] = pc[q], delivery'[q] = delivery[q], result'[q] = result[q], job'[q] = job[q],
         Quiet(q) => sent'[q] = sent[q] /\ gateway'[q] = gateway[q]
  PROVE  Known(q)'
  BY DEF KnownInv, Known, Quiet

LEMMA PassedFrame ==
  ASSUME IInv, KnownInv, PassedInv, UNCHANGED <<ask, passed>>, misreported \subseteq misreported',
         \A q \in Requests : Quiet(q) => job'[q] = job[q]
  PROVE  PassedInv'
<1> SUFFICES ASSUME NEW r \in Requests, NEW q \in passed[r], ask[q].list = ask[r].list
             PROVE  ask[q].mode = "publish" /\ (q \in misreported' \/ job'[q] = "failed")
  BY DEF PassedInv, PassedOver
<1>1. q \in Requests
  BY DEF IInv, TypeOK, RequestOK
<1>2. ask[q].mode = "publish" /\ (q \in misreported \/ job[q] = "failed")
  BY DEF PassedInv, PassedOver
<1> QED BY <1>1, <1>2 DEF KnownInv, Known

LEMMA KnownRequest ==
  ASSUME IInv, KnownInv, PassedInv, NEW r \in Requests, Request(r)
  PROVE  KnownInv' /\ PassedInv'
<1> USE DEF IInv, askVars, workerVars, arqVars, gatewayVars
<1>1. UNCHANGED <<ask, result, sent, gateway>> /\ misreported \subseteq misreported'
  BY DEF Request, Lookup, FindRecent, Create, Enqueue, EnqueueFails, Refuse, RequestDies
<1>2. ASSUME NEW q \in Requests \ {r}
      PROVE  pc'[q] = pc[q] /\ job'[q] = job[q] /\ delivery'[q] = delivery[q]
  BY DEF Request, Lookup, FindRecent, Create, Enqueue, EnqueueFails, Refuse, RequestDies,
         Goto, Answer, Enqueued, TypeOK, RequestOK, RowsOK, DeliveryOK
<1>3. ~ Quiet(r)
  BY DEF Request, Lookup, FindRecent, Create, Enqueue, EnqueueFails, Refuse, RequestDies, Quiet
<1>4. Known(r)'
  <2>1. CASE Lookup(r) \/ FindRecent(r) \/ Create(r)
    <3>1. /\ delivery' = delivery /\ pc'[r] \notin {"refuse"}
          /\ job'[r] = "failed" => job[r] = "failed"
      BY <2>1 DEF Lookup, FindRecent, Create, Goto, Answer, TypeOK, RequestOK, RowsOK
    <3> QED BY <1>1, <1>3, <3>1 DEF KnownInv, Known
  <2>2. CASE Enqueue(r)
    <3>1. delivery'[r] = "waiting" /\ pc'[r] = "done" /\ job' = job /\ delivery[r] = "none"
      BY <2>2 DEF Enqueue, Enqueued, Goto, Answer, TypeOK, RequestOK, DeliveryOK, WorkInv,
                  DeliveredOnce
    <3> QED BY <1>1, <1>3, <3>1 DEF KnownInv, Known
  <2>3. CASE EnqueueFails(r)
    <3>1. /\ delivery[r] = "none" /\ job' = job /\ pc'[r] = "refuse"
          /\ \/ delivery'[r] = "waiting" /\ r \in misreported'
             \/ delivery'[r] = "none"
      BY <2>3 DEF EnqueueFails, Enqueued, Goto, TypeOK, RequestOK, DeliveryOK, WorkInv, DeliveredOnce
    <3> QED BY <1>1, <1>3, <3>1 DEF KnownInv, Known
  <2>4. CASE Refuse(r)
    <3>1. delivery' = delivery /\ pc'[r] = "done" /\ (r \in misreported \/ delivery[r] = "none")
      BY <2>4 DEF Refuse, Goto, Answer, TypeOK, RequestOK, KnownInv, Known
    <3>2. delivery[r] = "none" => \A a \in Accounts : sent[r][a] = 0 /\ gateway[r][a] = "none"
      BY DEF KnownInv, Known, ClickInv, ClickKnown
    <3> QED BY <1>1, <3>1, <3>2 DEF KnownInv, Known, Quiet
  <2>5. CASE RequestDies(r)
    <3>1. UNCHANGED <<delivery, job>> /\ pc'[r] = "done"
      BY <2>5 DEF RequestDies, Goto, TypeOK, RequestOK
    <3> QED BY <1>1, <1>3, <3>1 DEF KnownInv, Known
  <2> QED BY <2>1, <2>2, <2>3, <2>4, <2>5 DEF Request
<1>5. KnownInv'
  BY <1>1, <1>2, <1>4, KnownFrame DEF KnownInv
<1>6. CASE FindRecent(r) /\ Recent(r) = {}
  <2>1. misreported' = misreported /\ job' = job /\ passed' = [passed EXCEPT ![r] = Publications]
    BY <1>6 DEF FindRecent
  <2>2. ASSUME NEW q \in Publications, ask[q].list = ask[r].list
        PROVE  q \in Requests /\ ask[q].mode = "publish" /\ job[q] = "failed"
    BY <1>6, <2>2 DEF Publications, Recent, SameDedupeKey
  <2> QED BY <1>1, <1>5, <2>1, <2>2 DEF PassedInv, PassedOver, TypeOK, RequestOK
<1>7. CASE ~ (FindRecent(r) /\ Recent(r) = {})
  <2>1. passed' = passed
    BY <1>7 DEF Request, Lookup, FindRecent, Create, Enqueue, EnqueueFails, Refuse, RequestDies
  <2> QED BY <1>1, <1>2, <1>3, <1>5, <2>1, PassedFrame
<1> QED BY <1>5, <1>6, <1>7

LEMMA KnownWork ==
  ASSUME IInv, KnownInv, PassedInv, NEW r \in Requests, Work(r) \/ RedisFails(r) \/ Stop(r)
  PROVE  KnownInv' /\ PassedInv'
<1> USE DEF IInv, askVars, workerVars, arqVars, gatewayVars
<1>1. UNCHANGED <<ask, pc, passed, misreported, sent>>
  BY DEF Work, Take, Interrupted, NotReady, Begin, Acquire, Busy, Enter, OpenFails, Post, Receive,
         GiveUp, RedisFails, Finish, Stop, Conclude
<1>2. ASSUME NEW q \in Requests \ {r}
      PROVE  /\ job'[q] = job[q] /\ delivery'[q] = delivery[q] /\ result'[q] = result[q]
             /\ gateway'[q] = gateway[q]
  BY DEF Work, Take, Interrupted, NotReady, Begin, Acquire, Busy, Enter, OpenFails, Post, Receive,
         GiveUp, RedisFails, Finish, Stop, Conclude, Set, TypeOK, RowsOK, DeliveryOK, GatewayOK
<1>3. ~ Quiet(r) /\ delivery[r] # "none"
  <2>1. delivery[r] = "waiting" \/ at[r] # "idle"
    BY DEF Work, Take, Interrupted, NotReady, Begin, Acquire, Busy, Enter, OpenFails, Post, Receive,
           GiveUp, RedisFails, Finish, Stop
  <2> QED BY <2>1 DEF Quiet, WorkInv, DeliveredOnce
<1>4. ASSUME NEW a \in Accounts, a \notin ask[r].accounts PROVE result'[r][a] = result[r][a]
  <2>1. at[r] \notin {"idle", "next"} => cur[r] \in ask[r].accounts /\ cur[r] \in Accounts
    BY AskType DEF WorkInv, OnItsAccount, TypeOK, WorkerOK
  <2> QED BY <1>4, <2>1 DEF Work, Take, Interrupted, NotReady, Begin, Acquire, Busy, Enter, OpenFails,
             Post, Receive, GiveUp, RedisFails, Finish, Stop, Conclude, Set, With, ToSend, TypeOK, RowsOK
<1>5. delivery'[r] # "none"
  BY <1>3 DEF Work, Take, Interrupted, NotReady, Begin, Acquire, Busy, Enter, OpenFails, Post, Receive,
              GiveUp, RedisFails, Finish, Stop, Conclude, TypeOK, DeliveryOK
<1>6. Known(r)'
  <2>1. CASE Finish(r)
    <3>1. UNCHANGED <<result, gateway>> /\ delivery'[r] = "gone"
      BY <2>1 DEF Finish, TypeOK, DeliveryOK
    <3>2. job'[r] = "failed" => \A a \in ask[r].accounts : result[r][a] = "failed"
      <4>1. job'[r] = "failed" => With(r, {"failed"})' = ask[r].accounts
        BY <1>1, <2>1, TotalIsSummary DEF Summary
      <4> QED BY <1>1, <3>1, <4>1 DEF With
    <3>3. ASSUME job'[r] = "failed", ask[r].mode = "publish", r \notin misreported
          PROVE  Quiet(r)'
      <4>1. ASSUME NEW a \in Accounts PROVE sent[r][a] = 0 /\ gateway[r][a] = "none"
        <5>1. CASE a \in ask[r].accounts
          BY <3>2, <3>3, <5>1 DEF ClickInv, ClickKnown
        <5>2. CASE a \notin ask[r].accounts
          BY <5>2 DEF KnownInv, Known, ClickInv, ClickKnown
        <5> QED BY <5>1, <5>2
      <4>2. pc[r] = "done"
        BY <1>3, <3>3 DEF KnownInv, Known, WorkInv, DeliveredOnce, TypeOK, RequestOK
      <4> QED BY <1>1, <3>1, <4>1, <4>2 DEF Quiet
    <3> QED BY <1>1, <1>3, <1>5, <3>1, <3>3 DEF KnownInv, Known
  <2>2. CASE ~ Finish(r)
    <3>1. job'[r] = "failed" => job[r] = "failed"
      BY <2>2 DEF Work, Take, Interrupted, NotReady, Begin, Acquire, Busy, Enter, OpenFails, Post,
                  Receive, GiveUp, RedisFails, Stop, Conclude, TypeOK, RowsOK
    <3> QED BY <1>1, <1>3, <1>4, <1>5, <3>1 DEF KnownInv, Known
  <2> QED BY <2>1, <2>2
<1>7. KnownInv'
  BY <1>1, <1>2, <1>6, KnownFrame DEF KnownInv
<1> QED BY <1>1, <1>2, <1>3, <1>7, PassedFrame

LEMMA KnownNext == IInv /\ KnownInv /\ PassedInv /\ [Next]_vars => KnownInv' /\ PassedInv'
<1> SUFFICES ASSUME IInv, KnownInv, PassedInv, [Next]_vars PROVE KnownInv' /\ PassedInv'
  OBVIOUS
<1>1. ASSUME NEW r \in Requests, Request(r) PROVE KnownInv' /\ PassedInv'
  BY <1>1, KnownRequest
<1>2. ASSUME NEW r \in Requests, Work(r) \/ RedisFails(r) \/ Stop(r) PROVE KnownInv' /\ PassedInv'
  BY <1>2, KnownWork
<1>3. ASSUME UNCHANGED <<ask, pc, passed, misreported, job, delivery, result>>,
             \A q \in Requests : Quiet(q) => sent'[q] = sent[q] /\ gateway'[q] = gateway[q]
      PROVE  KnownInv' /\ PassedInv'
  BY <1>3, KnownFrame, PassedFrame DEF KnownInv
<1>4. ASSUME NEW r \in Requests, NEW a \in Accounts, Gateway(r, a) PROVE KnownInv' /\ PassedInv'
  <2>1. ~ Quiet(r)
    BY <1>4 DEF Gateway, Page, PageFails, Click, Confirm, Serve, Quiet
  <2>2. ASSUME NEW q \in Requests \ {r} PROVE sent'[q] = sent[q] /\ gateway'[q] = gateway[q]
    BY <1>4 DEF Gateway, Page, PageFails, Click, Confirm, Serve, IInv, TypeOK, GatewayOK
  <2> QED BY <1>3, <1>4, <2>1, <2>2
             DEF Gateway, Page, PageFails, Click, Confirm, Serve, askVars, arqVars
<1>5. ASSUME NEW a \in Accounts, Account(a) PROVE KnownInv' /\ PassedInv'
  BY <1>3, <1>5 DEF Account, LockExpires, Claim, ControlEnds, Disable, askVars, arqVars, gatewayVars
<1>6. CASE GatewayDies
  <2>1. ASSUME NEW q \in Requests, Quiet(q) PROVE sent'[q] = sent[q] /\ gateway'[q] = gateway[q]
    BY <1>6, <2>1 DEF GatewayDies, Quiet, IInv, TypeOK, GatewayOK
  <2> QED BY <1>3, <1>6, <2>1 DEF GatewayDies, askVars, arqVars
<1>7. CASE UNCHANGED vars
  BY <1>3, <1>7 DEF vars, askVars, arqVars, gatewayVars
<1> QED BY <1>1, <1>2, <1>4, <1>5, <1>6, <1>7 DEF Next

\* What one list of accounts is to get goes out by two jobs only if neither request could
\* see the other's, or if a request gave up a job Redis had: a job of the same list that
\* the look for recent ones passes over has failed, and a failed job that nobody
\* misreported stays silent.  Lists that differ, in their order if in nothing else, are
\* different publications to the code, and both go out.
THEOREM SecondPublicationIsBlind == Spec => []PublishedTwiceOnlyBlindly
<1>1. Init => KnownInv /\ PassedInv
  BY DEF Init, KnownInv, Known, PassedInv, PassedOver
<1>2. IInv /\ KnownInv /\ PassedInv => PublishedTwiceOnlyBlindly
  <2> SUFFICES ASSUME IInv, KnownInv, PassedInv, NEW r \in Requests, NEW q \in passed[r],
                      NEW a \in Accounts, sent[q][a] > 0, ask[q].list = ask[r].list
               PROVE  q \in misreported
    BY DEF PublishedTwiceOnlyBlindly
  <2>1. q \in Requests
    BY DEF IInv, TypeOK, RequestOK
  <2>2. ~ Quiet(q)
    BY DEF Quiet
  <2> QED BY <2>1, <2>2 DEF KnownInv, Known, PassedInv, PassedOver
<1> QED BY <1>1, <1>2, KnownNext, Invariant, PTL DEF Spec

-----------------------------------------------------------------------------
(* The promise of Publisher.  A step writes one open result, clicks once,  *)
(* or does neither; the invariant at its end says that what was written is *)
(* true, the one at its beginning that the click was allowed.              *)

Reports == [r \in Requests |-> [a \in Accounts |-> Told(r, a)]]

WritesOne ==
    /\ UNCHANGED <<ask, sent>>
    /\ \E r \in Requests, a \in Accounts, s \in {"running", "failed", "uncertain"} \union Succeeded :
          result[r][a] \in {"queued", "running"} /\ Set(r, a, s)
Clicks == \E r \in Requests, a \in Accounts : Click(r, a)

LEMMA StepKinds ==
  ASSUME IInv, [Next]_vars
  PROVE  UNCHANGED <<ask, result, sent>> \/ WritesOne \/ Clicks
<1> USE DEF vars, askVars, workerVars, arqVars, gatewayVars
<1>1. ASSUME NEW r \in Requests, Request(r) PROVE UNCHANGED <<ask, result, sent>>
  BY <1>1 DEF Request, Lookup, FindRecent, Create, Enqueue, EnqueueFails, Refuse, RequestDies
<1>2. ASSUME NEW r \in Requests, NEW a \in With(r, {"queued", "running"}),
             NEW s \in {"running", "failed", "uncertain"} \union Succeeded,
             Set(r, a, s), UNCHANGED <<ask, sent>>
      PROVE  WritesOne
  <2>1. a \in Accounts /\ result[r][a] \in {"queued", "running"}
    BY AskType DEF With, IInv
  <2> QED BY <1>2, <2>1 DEF WritesOne
<1>3. \A r \in Requests, s \in {"sent", "unsent", "unknown"} :
          Verdict(r, s) \in {"running", "failed", "uncertain"} \union Succeeded
  BY DEF Verdict, Succeeded
<1>4. ASSUME NEW r \in Requests, Interrupted(r) PROVE WritesOne
  <2>1. PICK a \in With(r, {"running"}) : Set(r, a, Verdict(r, "unknown"))
    BY <1>4 DEF Interrupted
  <2>2. a \in With(r, {"queued", "running"}) /\ UNCHANGED <<ask, sent>>
    BY <1>4, <2>1 DEF With, Interrupted
  <2> QED BY <1>2, <1>3, <2>1, <2>2
<1>5. ASSUME NEW r \in Requests, NotReady(r) \/ Begin(r) PROVE WritesOne
  <2>1. PICK a \in ToSend(r) : Set(r, a, "failed") \/ Set(r, a, "running")
    BY <1>5 DEF NotReady, Begin
  <2>2. a \in With(r, {"queued", "running"}) /\ UNCHANGED <<ask, sent>>
    BY <1>5, <2>1 DEF ToSend, With, NotReady, Begin
  <2> QED BY <1>2, <2>1, <2>2
<1>6. ASSUME NEW r \in Requests, NEW s \in {"sent", "unsent", "unknown"},
             at[r] \notin {"idle", "next"}, Conclude(r, s), UNCHANGED sent
      PROVE  WritesOne
  <2>1. cur[r] \in With(r, {"queued", "running"})
    BY <1>6 DEF IInv, TypeOK, WorkerOK, WorkInv, OnItsAccount, With
  <2> QED BY <1>2, <1>3, <1>6, <2>1 DEF Conclude
<1>7. ASSUME NEW r \in Requests, Busy(r) \/ OpenFails(r) \/ Receive(r) \/ GiveUp(r) \/ RedisFails(r)
      PROVE  WritesOne
  <2>1. at[r] \notin {"idle", "next"} /\ UNCHANGED sent
    BY <1>7 DEF Busy, OpenFails, Receive, GiveUp, RedisFails
  <2>2. \E s \in {"sent", "unsent", "unknown"} : Conclude(r, s)
    BY <1>7 DEF Busy, OpenFails, Receive, GiveUp, RedisFails
  <2> QED BY <1>6, <2>1, <2>2
<1>8. ASSUME NEW r \in Requests,
             Take(r) \/ Acquire(r) \/ Enter(r) \/ Post(r) \/ Finish(r) \/ Stop(r)
      PROVE  UNCHANGED <<ask, result, sent>>
  BY <1>8 DEF Take, Acquire, Enter, Post, Finish, Stop
<1>9. ASSUME NEW r \in Requests, NEW a \in Accounts, Gateway(r, a)
      PROVE  UNCHANGED <<ask, result, sent>> \/ Clicks
  BY <1>9 DEF Gateway, Page, PageFails, Confirm, Serve, Clicks
<1>10. ASSUME NEW a \in Accounts, Account(a) PROVE UNCHANGED <<ask, result, sent>>
  BY <1>10 DEF Account, LockExpires, Claim, ControlEnds, Disable
<1>11. CASE GatewayDies
  BY <1>11 DEF GatewayDies
<1>12. CASE UNCHANGED vars
  BY <1>12
<1> QED
  BY <1>1, <1>4, <1>5, <1>7, <1>8, <1>9, <1>10, <1>11, <1>12 DEF Next, Work

LEMMA PromiseMade == Init => Promised!Init
<1> SUFFICES ASSUME Init PROVE Promised!Init
  OBVIOUS
<1>1. \A r \in Requests, a \in Accounts : Told(r, a) = "open"
  BY DEF Init, Told
<1> QED BY <1>1 DEF Init, Promised!Init

LEMMA ReportWritten ==
  ASSUME IInv, IInv', WritesOne
  PROVE  Promised!Next \/ UNCHANGED Promised!vars
<1>1. PICK r \in Requests, a \in Accounts, s \in {"running", "failed", "uncertain"} \union Succeeded :
          result[r][a] \in {"queued", "running"} /\ Set(r, a, s)
  BY DEF WritesOne
<1>2. UNCHANGED <<ask, sent>>
  BY DEF WritesOne
<1>3. result'[r][a] = s
      /\ \A q \in Requests, b \in Accounts : q # r \/ b # a => result'[q][b] = result[q][b]
  BY <1>1 DEF Set, IInv, TypeOK, RowsOK
<1>4. \A q \in Requests, b \in Accounts : q # r \/ b # a => Told(q, b)' = Told(q, b)
  BY <1>2, <1>3 DEF Told
<1>5. Told(r, a) = "open"
  BY <1>1 DEF Told
<1>6. Reports' = [Reports EXCEPT ![r][a] = Told(r, a)']
  BY <1>4 DEF Reports
<1>7. CASE s = "running"
  <2>1. Told(r, a)' = "open"
    BY <1>3, <1>7 DEF Told
  <2>2. Reports' = Reports
    BY <1>4, <1>5, <2>1 DEF Reports
  <2> QED BY <1>2, <2>2 DEF Promised!vars, Reports
<1>8. CASE s # "running"
  <2>1. Told(r, a)' \in {IF sent[r][a] = 0 THEN "unsent" ELSE "sent", "unknown"}
    <3>1. ClickKnown(r, a)'
      BY DEF IInv, ClickInv
    <3>2. s \in Succeeded => sent[r][a] = 1
      BY <1>2, <1>3, <3>1 DEF ClickKnown
    <3>3. s = "failed" /\ ask[r].mode = "publish" => sent[r][a] = 0
      BY <1>2, <1>3, <3>1 DEF ClickKnown
    <3> QED BY <1>1, <1>2, <1>3, <1>8, <3>2, <3>3 DEF Told, Succeeded
  <2>2. Promised!Report(r, a)
    BY <1>2, <1>5, <1>6, <2>1 DEF Promised!Report, Reports
  <2> QED BY <2>2 DEF Promised!Next
<1> QED BY <1>7, <1>8

LEMMA PostMade ==
  ASSUME IInv, Clicks
  PROVE  Promised!Next
<1>1. PICK r \in Requests, a \in Accounts : Click(r, a)
  BY DEF Clicks
<1>2. /\ UNCHANGED <<ask, result>> /\ gateway[r][a] = "page"
      /\ sent' = [sent EXCEPT ![r][a] = @ + 1]
  BY <1>1 DEF Click, Serve, askVars
<1>3. ClickKnown(r, a)
  BY DEF IInv, ClickInv
<1>4. sent[r][a] = 0 /\ result[r][a] \notin Succeeded
      /\ ~ (result[r][a] = "failed" /\ ask[r].mode = "publish")
  BY <1>2, <1>3 DEF ClickKnown
<1>5. Told(r, a) \in {"open", "unknown"}
  BY <1>4 DEF Told
<1>6. sent' = [sent EXCEPT ![r][a] = 1]
  BY <1>2, <1>4 DEF IInv, TypeOK, GatewayOK
<1>7. Reports' = Reports
  BY <1>2 DEF Reports, Told
<1>8. Promised!Post(r, a)
  BY <1>4, <1>5, <1>6, <1>7 DEF Promised!Post, Reports
<1> QED BY <1>8 DEF Promised!Next

LEMMA PromiseKept == IInv /\ IInv' /\ [Next]_vars => [Promised!Next]_Promised!vars
<1> SUFFICES ASSUME IInv, IInv', [Next]_vars
             PROVE  Promised!Next \/ UNCHANGED Promised!vars
  OBVIOUS
<1>1. CASE UNCHANGED <<ask, result, sent>>
  BY <1>1 DEF Promised!vars, Told
<1>2. CASE WritesOne
  BY <1>2, ReportWritten
<1>3. CASE Clicks
  BY <1>3, PostMade
<1> QED BY <1>1, <1>2, <1>3, StepKinds

\* The distribution implements Publisher: in each account a job posts at most once, and
\* what its results say of that is true, final and never overtaken by a late click.
THEOREM PromiseImplemented == Spec => PublisherSpec
<1> QED BY Invariant, PromiseMade, PromiseKept, PTL DEF Spec, PublisherSpec, Promised!Spec

=============================================================================
