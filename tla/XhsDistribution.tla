--------------------------- MODULE XhsDistribution ---------------------------
(***************************************************************************)
(* Distribution of one article to Xiaohongshu accounts: the requests of    *)
(* one user (xiaohongshu_service.py, create_distribution), the ARQ job     *)
(* (xiaohongshu_worker.py, process_xiaohongshu_distribution) and the       *)
(* browser gateway that saves drafts and publishes in the accounts' name.  *)
(*                                                                         *)
(* A request creates at most one job, which is named by the request; all   *)
(* requests carry the same text.  Deliveries of a job never overlap, those *)
(* of different jobs do.  A click cannot be taken back, and the answer to  *)
(* it can get lost: what matters is that nothing is sent twice and that    *)
(* the rows never deny what was sent.                                      *)
(***************************************************************************)
EXTENDS Naturals, FiniteSets, Sequences

CONSTANTS
    Requests,   \* POST requests that may arrive
    Keys,       \* request ids they carry
    Accounts,
    Asks,       \* what the requests may carry: key, mode and accounts of each, with the
                \* order they are listed in
    Free,       \* neither an account nor a job
    MaxTries,   \* WorkerSettings.max_tries
    Operated,   \* bound: accounts somebody may take over
    MaxFaults   \* bound: failures, deaths, stops and accounts disabled under way

ASSUME AccountsAssumption == IsFiniteSet(Accounts)
ASSUME FreeAssumption == Free \notin Accounts \union Requests
ASSUME AsksAssumption ==
    /\ Asks \subseteq [Requests -> [key : Keys, mode : {"draft", "publish"}, list : Seq(Accounts),
                                    accounts : (SUBSET Accounts) \ {{}}]]
    /\ \A x \in Asks, r \in Requests :
          x[r].accounts = {x[r].list[i] : i \in 1..Len(x[r].list)}
ASSUME BoundsAssumption ==
    MaxTries \in Nat \ {0} /\ Operated \subseteq Accounts /\ MaxFaults \in Nat

Answers == Requests \union {"none", "refused", "error"}
ASSUME AnswersAssumption == {"none", "refused", "error"} \intersect Requests = {}

VARIABLES
    ask,        \* what each request carries
    pc,         \* per request: lookup, recent, create, enqueue, refuse, done
    answer,
    job,        \* content_distribution_jobs.status, none before the insert
    result,     \* content_distribution_results.status
    enabled,    \* accounts that are neither disabled nor deleted
    delivery,   \* ARQ job: none, waiting, taken, gone
    tries,
    at, cur,    \* the job's worker: where it is, and the account it is at
    succeeded,  \* its counter
    lock,       \* xhs:account-lock, by account
    control,    \* xhs:browser-control: accounts under manual control
    gateway,    \* the gateway's handler of each distribution
    sent,       \* clicks on save or publish
    faults,
    \* History: publications that existed when a request looked for its own and found
    \* none, jobs whose request was told that queueing failed although it had not, jobs
    \* ARQ gave up.
    passed, misreported, abandoned

askVars     == <<ask, pc, answer, passed, misreported>>
workerVars  == <<at, cur, succeeded>>
arqVars     == <<delivery, tries, abandoned>>
gatewayVars == <<gateway, sent>>
vars == <<askVars, job, result, enabled, arqVars, workerVars, lock, control, gatewayVars, faults>>

Succeeded == {"draft_saved", "published"}
Settled   == {"completed", "partial_failed", "failed", "uncertain"}

Init ==
    /\ ask \in Asks
    /\ pc = [r \in Requests |-> "lookup"] /\ answer = [r \in Requests |-> "none"]
    /\ job = [r \in Requests |-> "none"]
    /\ result = [r \in Requests |-> [a \in Accounts |-> "queued"]]
    /\ enabled = Accounts
    /\ delivery = [r \in Requests |-> "none"] /\ tries = [r \in Requests |-> 0]
    /\ at = [r \in Requests |-> "idle"] /\ cur = [r \in Requests |-> Free]
    /\ succeeded = [r \in Requests |-> 0]
    /\ lock = [a \in Accounts |-> Free] /\ control = {}
    /\ gateway = [r \in Requests |-> [a \in Accounts |-> "none"]]
    /\ sent = [r \in Requests |-> [a \in Accounts |-> 0]]
    /\ faults = 0 /\ passed = [r \in Requests |-> {}] /\ misreported = {} /\ abandoned = {}

Fault == faults < MaxFaults /\ faults' = faults + 1

-----------------------------------------------------------------------------
(* create_distribution.                                                    *)

Goto(r, l) == pc' = [pc EXCEPT ![r] = l]
Answer(r, x) == Goto(r, "done") /\ answer' = [answer EXCEPT ![r] = x]

Keyed(r) == {q \in Requests : job[q] # "none" /\ ask[q].key = ask[r].key}

\* get_job_by_idempotency_key, behind the check of the accounts.
Lookup(r) ==
    /\ pc[r] = "lookup"
    /\ IF ~ (ask[r].accounts \subseteq enabled) THEN Answer(r, "refused")
       ELSE IF Keyed(r) # {} THEN \E q \in Keyed(r) : Answer(r, q)
       ELSE Goto(r, IF ask[r].mode = "publish" THEN "recent" ELSE "create") /\ UNCHANGED answer
    /\ UNCHANGED <<ask, job, result, enabled, arqVars, workerVars, lock, control, gatewayVars,
                   faults, passed, misreported>>

Publications == {q \in Requests : job[q] # "none" /\ ask[q].mode = "publish"}

\* dedupe_key hashes the accounts in the order the request lists them.
SameDedupeKey(r, q) == ask[q].list = ask[r].list

\* get_recent_publish_job; the 24 hours do not pass.
RecentUnfinished(r) ==    \* mutant
    {q \in Publications : SameDedupeKey(r, q) /\ job[q] \in {"queued", "running"}}
Recent(r) == {q \in Publications : SameDedupeKey(r, q) /\ job[q] # "failed"}

FindRecent(r) ==
    /\ pc[r] = "recent"
    /\ IF Recent(r) # {}
       THEN (\E q \in Recent(r) : Answer(r, q)) /\ UNCHANGED passed
       ELSE /\ Goto(r, "create") /\ UNCHANGED answer
            /\ passed' = [passed EXCEPT ![r] = Publications]
    /\ UNCHANGED <<ask, job, result, enabled, arqVars, workerVars, lock, control, gatewayVars,
                   faults, misreported>>

\* The job and its results become visible with the commit.  A second insert of a key
\* waits for the first and fails when it is flushed, outside the try statement.
Create(r) ==
    /\ pc[r] = "create"
    /\ IF Keyed(r) # {} THEN Answer(r, "error") /\ UNCHANGED job
       ELSE /\ job' = [job EXCEPT ![r] = "queued"]
            /\ Goto(r, "enqueue") /\ UNCHANGED answer
    /\ UNCHANGED <<ask, result, enabled, arqVars, workerVars, lock, control, gatewayVars,
                   faults, passed, misreported>>

Enqueued(r) == delivery' = [delivery EXCEPT ![r] = "waiting"]

Enqueue(r) ==
    /\ pc[r] = "enqueue"
    /\ Enqueued(r) /\ Answer(r, r)
    /\ UNCHANGED <<ask, job, result, enabled, tries, abandoned, workerVars, lock, control,
                   gatewayVars, faults, passed, misreported>>

\* The call raises, with or without the job in Redis.
EnqueueFails(r) ==
    /\ pc[r] = "enqueue" /\ Fault
    /\ Goto(r, "refuse")
    /\ \/ Enqueued(r) /\ misreported' = misreported \union {r}
       \/ UNCHANGED <<delivery, misreported>>
    /\ UNCHANGED <<ask, answer, job, result, enabled, tries, abandoned, workerVars, lock,
                   control, gatewayVars, passed>>

\* Written over whatever the worker has made of the job since.
Refuse(r) ==
    /\ pc[r] = "refuse"
    /\ job' = [job EXCEPT ![r] = "failed"]
    /\ Answer(r, "refused")
    /\ UNCHANGED <<ask, result, enabled, arqVars, workerVars, lock, control, gatewayVars,
                   faults, passed, misreported>>

\* The process dies behind the commit: nobody will execute the job.
RequestDies(r) ==
    /\ pc[r] \in {"enqueue", "refuse"} /\ Fault
    /\ Goto(r, "done")
    /\ UNCHANGED <<ask, answer, job, result, enabled, arqVars, workerVars, lock, control,
                   gatewayVars, passed, misreported>>

Request(r) ==
    \/ Lookup(r) \/ FindRecent(r) \/ Create(r) \/ Enqueue(r) \/ EnqueueFails(r) \/ Refuse(r)
    \/ RequestDies(r)

-----------------------------------------------------------------------------
(* The worker.                                                             *)

Step(r, l) == at' = [at EXCEPT ![r] = l]
Set(r, a, s) == result' = [result EXCEPT ![r][a] = s]
With(r, s) == {a \in ask[r].accounts : result[r][a] \in s}

\* The statuses a delivery goes on from.
OpenJobQueued == {"queued"}    \* mutant
OpenJob == {"queued", "running"}

CountedZero(r) == 0    \* mutant
CountedTwice(r) == 2 * Cardinality(With(r, Succeeded))    \* mutant
Counted(r) == Cardinality(With(r, Succeeded))

\* get_distribution_job_for_worker locks the row until the commit.
Take(r) ==
    /\ delivery[r] = "waiting"
    /\ tries' = [tries EXCEPT ![r] = @ + 1]
    /\ IF job[r] \in OpenJob
       THEN /\ delivery' = [delivery EXCEPT ![r] = "taken"]
            /\ job' = [job EXCEPT ![r] = "running"]
            /\ succeeded' = [succeeded EXCEPT ![r] = Counted(r)]
            /\ Step(r, "next")
       ELSE /\ delivery' = [delivery EXCEPT ![r] = "gone"]
            /\ UNCHANGED <<job, succeeded, at>>
    /\ UNCHANGED <<askVars, result, enabled, abandoned, cur, lock, control, gatewayVars, faults>>

\* What may have been sent is uncertain; a draft counts as failed.
Verdict(r, s) ==
    IF s = "sent" THEN IF ask[r].mode = "draft" THEN "draft_saved" ELSE "published"
    ELSE IF s = "unknown" /\ ask[r].mode = "publish" THEN "uncertain" ELSE "failed"

ToSendAgain(r) == With(r, {"queued", "running"})    \* mutant
ToSend(r) == With(r, {"queued"})

\* A result that an earlier delivery left behind is never sent again.
Interrupted(r) ==
    /\ at[r] = "next"
    /\ \E a \in With(r, {"running"}) : Set(r, a, Verdict(r, "unknown"))
    /\ UNCHANGED <<askVars, job, enabled, arqVars, workerVars, lock, control, gatewayVars, faults>>

NotReady(r) ==
    /\ at[r] = "next"
    /\ \E a \in ToSend(r) \ enabled : Set(r, a, "failed")
    /\ UNCHANGED <<askVars, job, enabled, arqVars, workerVars, lock, control, gatewayVars, faults>>

Begin(r) ==
    /\ at[r] = "next"
    /\ \E a \in ToSend(r) \intersect enabled :
          /\ Set(r, a, "running")
          /\ cur' = [cur EXCEPT ![r] = a]
    /\ Step(r, "slot")
    /\ UNCHANGED <<askVars, job, enabled, arqVars, succeeded, lock, control, gatewayVars, faults>>

\* The lock is given back before the result is written, which nobody else reads meanwhile.
Unlocked(r) == [a \in Accounts |-> IF a = cur[r] /\ lock[a] = r THEN Free ELSE lock[a]]

Conclude(r, s) ==
    /\ Set(r, cur[r], Verdict(r, s))
    /\ succeeded' = [succeeded EXCEPT ![r] = IF s = "sent" THEN @ + 1 ELSE @]
    /\ lock' = Unlocked(r)
    /\ cur' = [cur EXCEPT ![r] = Free]
    /\ Step(r, "next")
    /\ UNCHANGED <<askVars, job, enabled, arqVars, control>>

\* _browser_account_slot: the lock within a second, then a look at the manual control.
Acquire(r) ==
    /\ at[r] = "slot" /\ lock[cur[r]] = Free
    /\ lock' = [lock EXCEPT ![cur[r]] = r]
    /\ Step(r, "locked")
    /\ UNCHANGED <<askVars, job, result, enabled, arqVars, cur, succeeded, control, gatewayVars,
                   faults>>

Busy(r) ==
    /\ \/ at[r] = "slot" /\ lock[cur[r]] # Free
       \/ at[r] = "locked" /\ cur[r] \in control
    /\ Conclude(r, "unsent")
    /\ UNCHANGED <<gatewayVars, faults>>

Enter(r) ==
    /\ at[r] = "locked" /\ cur[r] \notin control
    /\ Step(r, "drive")
    /\ UNCHANGED <<askVars, job, result, enabled, arqVars, cur, succeeded, lock, control,
                   gatewayVars, faults>>

\* Redis raises: an error without a code of its own.
RedisFails(r) ==
    /\ at[r] \in {"slot", "locked"} /\ Fault
    /\ Conclude(r, "unknown")
    /\ UNCHANGED gatewayVars

\* The gateway does not open the browser (unsent) or cannot be reached (unknown).
OpenFails(r) ==
    /\ at[r] = "drive"
    /\ Conclude(r, "unsent") \/ Conclude(r, "unknown")
    /\ UNCHANGED <<gatewayVars, faults>>

Post(r) ==
    /\ at[r] = "drive"
    /\ gateway' = [gateway EXCEPT ![r][cur[r]] = "waiting"]
    /\ Step(r, "wait")
    /\ UNCHANGED <<askVars, job, result, enabled, arqVars, cur, succeeded, lock, control, sent,
                   faults>>

Receive(r) ==
    /\ at[r] = "wait" /\ gateway[r][cur[r]] \in {"sent", "unsent", "unknown"}
    /\ Conclude(r, gateway[r][cur[r]])
    /\ gateway' = [gateway EXCEPT ![r][cur[r]] = "none"]
    /\ UNCHANGED <<sent, faults>>

\* The request times out, whatever the gateway goes on to do.
GiveUpFailed(r) ==    \* mutant
    /\ at[r] = "wait" /\ gateway[r][cur[r]] \in {"waiting", "page", "clicked"}
    /\ Conclude(r, "unsent")
    /\ UNCHANGED <<gatewayVars, faults>>
GiveUp(r) ==
    /\ at[r] = "wait" /\ gateway[r][cur[r]] \in {"waiting", "page", "clicked"}
    /\ Conclude(r, "unknown")
    /\ UNCHANGED <<gatewayVars, faults>>

Total(r) ==
    IF With(r, {"uncertain"}) # {} THEN "uncertain"
    ELSE IF succeeded[r] = Cardinality(ask[r].accounts) THEN "completed"
    ELSE IF succeeded[r] > 0 THEN "partial_failed"
    ELSE "failed"

Finish(r) ==
    /\ at[r] = "next" /\ With(r, {"queued", "running"}) = {}
    /\ job' = [job EXCEPT ![r] = Total(r)]
    /\ delivery' = [delivery EXCEPT ![r] = "gone"]
    /\ succeeded' = [succeeded EXCEPT ![r] = 0]
    /\ Step(r, "idle")
    /\ UNCHANGED <<askVars, result, enabled, tries, abandoned, cur, lock, control,
                   gatewayVars, faults>>

Work(r) ==
    \/ Take(r) \/ Interrupted(r) \/ NotReady(r) \/ Begin(r) \/ Acquire(r) \/ Busy(r) \/ Enter(r)
    \/ OpenFails(r) \/ Post(r) \/ Receive(r) \/ GiveUp(r) \/ Finish(r)

\* The worker is stopped (CancelledError: the lock is given back, the result stays as it
\* is), dies with the lock, or runs into job_timeout, which ARQ does not retry.
Stop(r) ==
    /\ at[r] # "idle" /\ Fault
    /\ \E again \in BOOLEAN :
          IF again /\ tries[r] < MaxTries
          THEN delivery' = [delivery EXCEPT ![r] = "waiting"] /\ UNCHANGED abandoned
          ELSE /\ delivery' = [delivery EXCEPT ![r] = "gone"]
               /\ abandoned' = abandoned \union {r}
    /\ lock' \in {lock, Unlocked(r)}
    /\ Step(r, "idle") /\ cur' = [cur EXCEPT ![r] = Free]
    /\ succeeded' = [succeeded EXCEPT ![r] = 0]
    /\ UNCHANGED <<askVars, job, result, enabled, tries, control, gatewayVars>>

Holds(r, a) == cur[r] = a /\ at[r] \in {"locked", "drive", "wait"}

\* ACCOUNT_LOCK_SECONDS outlasts every distribution.
LockExpires(a) ==
    /\ lock[a] # Free /\ ~ Holds(lock[a], a)
    /\ lock' = [lock EXCEPT ![a] = Free]
    /\ UNCHANGED <<askVars, job, result, enabled, arqVars, workerVars, control, gatewayVars, faults>>

-----------------------------------------------------------------------------
(* The gateway: one handler at a time is on the page of an account.        *)

Serve(r, a, from, to) ==
    /\ gateway[r][a] = from
    /\ gateway' = [gateway EXCEPT ![r][a] = to]
    /\ UNCHANGED <<askVars, job, result, enabled, arqVars, workerVars, lock, control>>

\* The answer, which is dropped when nobody waits for it any more.
Reply(r, a, x) == IF at[r] = "wait" /\ cur[r] = a THEN x ELSE "none"

OnPage(a) == {r \in Requests : gateway[r][a] \in {"page", "clicked"}}

Page(r, a) ==
    /\ OnPage(a) = {}
    /\ Serve(r, a, "waiting", "page")
    /\ UNCHANGED <<sent, faults>>

\* A page that fails before the click says so, or not.
PageFails(r, a) ==
    /\ \E x \in {"unsent", "unknown"} : Serve(r, a, "page", Reply(r, a, x))
    /\ UNCHANGED <<sent, faults>>

Click(r, a) ==
    /\ Serve(r, a, "page", "clicked")
    /\ sent' = [sent EXCEPT ![r][a] = @ + 1]
    /\ UNCHANGED faults

Confirm(r, a) ==
    /\ \E x \in {"sent", "unknown"} : Serve(r, a, "clicked", Reply(r, a, x))
    /\ UNCHANGED <<sent, faults>>

\* The gateway is gone, and with it every request it was at.
GatewayDies ==
    /\ Fault
    /\ gateway' = [r \in Requests |-> [a \in Accounts |->
                      IF gateway[r][a] \in {"waiting", "page", "clicked"} THEN Reply(r, a, "unknown")
                      ELSE gateway[r][a]]]
    /\ UNCHANGED <<askVars, job, result, enabled, arqVars, workerVars, lock, control, sent>>

Gateway(r, a) == Page(r, a) \/ PageFails(r, a) \/ Click(r, a) \/ Confirm(r, a)

-----------------------------------------------------------------------------
(* The user and the accounts.                                              *)

\* claim_browser_session, under the account's lock.
ClaimUnlocked(a) ==    \* mutant
    /\ a \in Operated \ control
    /\ control' = control \union {a}
    /\ UNCHANGED <<askVars, job, result, enabled, arqVars, workerVars, lock, gatewayVars, faults>>
Claim(a) ==
    /\ a \in Operated \ control /\ lock[a] = Free
    /\ control' = control \union {a}
    /\ UNCHANGED <<askVars, job, result, enabled, arqVars, workerVars, lock, gatewayVars, faults>>

\* The lease runs out or the browser is closed.
ControlEnds(a) ==
    /\ a \in control
    /\ control' = control \ {a}
    /\ UNCHANGED <<askVars, job, result, enabled, arqVars, workerVars, lock, gatewayVars, faults>>

\* update_account takes no lock.
Disable(a) ==
    /\ a \in enabled /\ Fault
    /\ enabled' = enabled \ {a}
    /\ UNCHANGED <<askVars, job, result, arqVars, workerVars, lock, control, gatewayVars>>

Account(a) == LockExpires(a) \/ Claim(a) \/ ControlEnds(a) \/ Disable(a)

Next ==
    \/ \E r \in Requests : Request(r) \/ Work(r) \/ RedisFails(r) \/ Stop(r)
    \/ \E r \in Requests, a \in Accounts : Gateway(r, a)
    \/ \E a \in Accounts : Account(a)
    \/ GatewayDies

Fairness == \A r \in Requests : WF_vars(Work(r))

Spec == Init /\ [][Next]_vars /\ Fairness

-----------------------------------------------------------------------------
(* Properties.                                                             *)

RequestOK ==
    /\ ask \in Asks
    /\ pc \in [Requests -> {"lookup", "recent", "create", "enqueue", "refuse", "done"}]
    /\ answer \in [Requests -> Answers]
    /\ passed \in [Requests -> SUBSET Requests] /\ misreported \subseteq Requests
RowsOK ==
    /\ job \in [Requests -> {"none", "queued", "running"} \union Settled]
    /\ result \in [Requests -> [Accounts -> {"queued", "running", "failed", "uncertain"}
                                               \union Succeeded]]
DeliveryOK ==
    /\ delivery \in [Requests -> {"none", "waiting", "taken", "gone"}]
    /\ tries \in [Requests -> 0..MaxTries] /\ abandoned \subseteq Requests
WorkerOK ==
    /\ at \in [Requests -> {"idle", "next", "slot", "locked", "drive", "wait"}]
    /\ cur \in [Requests -> Accounts \union {Free}]
    /\ \A r \in Requests : cur[r] = Free <=> at[r] \in {"idle", "next"}
TallyOK == succeeded \in [Requests -> 0..Cardinality(Accounts)]
AccountsOK ==
    /\ enabled \subseteq Accounts /\ control \subseteq Accounts
    /\ lock \in [Accounts -> Requests \union {Free}]
GatewayOK ==
    /\ gateway \in [Requests -> [Accounts -> {"none", "waiting", "page", "clicked", "sent",
                                                 "unsent", "unknown"}]]
    /\ sent \in [Requests -> [Accounts -> Nat]]

\* Every variable has its type, a worker is at an account exactly while it deals with
\* one, and it never counts more successes than there are accounts.
TypeOK ==
    /\ RequestOK /\ RowsOK /\ DeliveryOK /\ WorkerOK /\ TallyOK /\ AccountsOK /\ GatewayOK
    /\ faults \in 0..MaxFaults

\* A job clicks save or publish at most once in each account, however often it is
\* delivered and wherever a worker stopped (the branch for results found running).
SentOnce == \A r \in Requests, a \in Accounts : sent[r][a] <= 1

\* The distribution keeps the promise of Publisher, which says of steps what the two
\* invariants around this say of states: a click comes only where the result is open or
\* uncertain, and a result that is settled is never written again, whatever is
\* delivered, answered or timed out late.  The failed result of a draft tells nothing.
Told(r, a) ==
    IF result[r][a] \in {"queued", "running"} THEN "open"
    ELSE IF result[r][a] \in Succeeded THEN "sent"
    ELSE IF result[r][a] = "failed" /\ ask[r].mode = "publish" THEN "unsent"
    ELSE "unknown"
Promised == INSTANCE Publisher WITH
    Jobs <- Requests, posts <- sent, report <- [r \in Requests |-> [a \in Accounts |-> Told(r, a)]]
PublisherSpec == Promised!Spec

\* The rows never deny a publication: a result that says failed was not published and
\* will not be, even by a gateway whose caller stopped waiting; one that says success
\* was sent (UNCERTAIN_PUBLISH_CODES, the timeouts of the worker).
ResultsTruthful ==
    \A r \in Requests, a \in Accounts :
        /\ result[r][a] = "failed" /\ ask[r].mode = "publish" =>
              sent[r][a] = 0 /\ gateway[r][a] = "none"
        /\ result[r][a] \in Succeeded => sent[r][a] = 1

\* The job's final status sums up its results over all its deliveries, unless the
\* request itself failed the job for want of a queue.
JobTellsResults ==
    \A r \in Requests : job[r] \in Settled =>
        \/ answer[r] = "refused" /\ job[r] = "failed"
        \/ /\ With(r, {"queued", "running"}) = {}
           /\ job[r] = "uncertain" <=> With(r, {"uncertain"}) # {}
           /\ job[r] = "completed" <=> With(r, Succeeded) = ask[r].accounts
           /\ job[r] = "failed" <=> With(r, {"failed"}) = ask[r].accounts

\* While a worker drives an account nobody takes it over, and while somebody has it no
\* worker starts: the lease is looked at and given under the account's lock.  The
\* gateway's handler is not kept off: where one is at work while somebody has the
\* account, its worker timed out or stopped, and no result denies what it may still
\* publish or claims that it did.
ControlIsExclusive ==
    /\ \A r \in Requests : at[r] \in {"drive", "wait"} =>
          lock[cur[r]] = r /\ cur[r] \notin control
    /\ \A r \in Requests, a \in control : gateway[r][a] # "none" =>
          cur[r] # a /\ (ask[r].mode = "publish" => result[r][a] \in {"running", "uncertain"})

\* A text is published by two jobs only if neither request could see the other's job, if
\* a request gave up a job that Redis had, or if the two list the accounts differently:
\* the same accounts in another order, and accounts they share, are another publication
\* to get_recent_publish_job, and get the text twice.
PublishedTwiceOnlyBlindly ==
    \A r \in Requests : \A q \in passed[r] :
        /\ \E a \in Accounts : sent[r][a] > 0
        /\ \E a \in Accounts : sent[q][a] > 0
        => q \in misreported \/ ask[q].list # ask[r].list

\* A queued job comes to an end, unless ARQ gave it up; a worker that stopped once is
\* no reason, and neither is an account under manual control or a silent gateway.
JobSettles ==
    \A r \in Requests : delivery[r] = "waiting" ~> job[r] \in Settled \/ r \in abandoned

\* A request whose key is taken is answered with the job that has it, also when the two
\* were under way together (the except IntegrityError clause of create_distribution).
DuplicateIsAnswered == \A r \in Requests : answer[r] # "error"
=============================================================================
