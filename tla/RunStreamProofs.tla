-------------------------- MODULE RunStreamProofs --------------------------
(***************************************************************************)
(* Proofs about RunStream, for any number of runs, events and troubles.    *)
(***************************************************************************)
EXTENDS RunStream, SequenceTheorems, TLAPS

-----------------------------------------------------------------------------
(* The inductive invariant.                                                *)

\* While a function of the page runs, an aborted invocation of startRunStream
\* may not have been unwound yet.
WideDead == [run : Runs, back : BOOLEAN, phase : {"aborted", "check", "preserve", "restore"}]
Wide ==
    [streaming : BOOLEAN, active : 0..MaxRuns, seq : Nat, pending : 0..MaxRuns,
     chunks : Seq(Runs \X Nat), human : BOOLEAN, snap : Snaps,
     sub : [run : 0..MaxRuns, phase : {"none", "read", "check", "preserve"}, pos : Nat,
            saw : BOOLEAN, back : BOOLEAN],
     dead : SUBSET WideDead, timers : SUBSET Runs,
     resets : SUBSET [run : Runs, asked : BOOLEAN],
     resumes : SUBSET [step : {"begin", "live", "snapshot", "thread"},
                       run : 0..MaxRuns, seq : Nat],
     awaiting : SUBSET Runs, away : BOOLEAN]

Subscribed(s) == s.phase # "none" /\ s.run \in Runs
Named(n) == n = NoSnap \/ n.run \in Runs
Agrees(c) ==
    c.snap.run # 0 /\ c.active # 0 => c.snap = [run |-> c.active, seq |-> c.seq]

\* What every function of the page keeps.
Good(c) ==
    /\ c \in Wide
    /\ c.sub = NoSub \/ Subscribed(c.sub)
    /\ Named(c.snap)
    /\ \A x \in c.resumes : x.step \in {"live", "snapshot"} => x.run \in Runs
    /\ Agrees(c)

\* What holds again when it returns.
Calm(c) == \A d \in c.dead : d.phase # "aborted"

ServerOK ==
    /\ status \in [Runs -> {"none", "asked", "refused", "running", "interrupted",
                            "cancelled", "completed"}]
    /\ log \in [Runs -> Seq(AllKinds \cup {"end"})]
    /\ parent \in [Runs -> 0..MaxRuns]
    /\ troubles \in Nat /\ overtaken \in BOOLEAN

IInv == ServerOK /\ Good(client) /\ Calm(client)

LEMMA RunsFacts ==
    /\ 0 \in 0..MaxRuns /\ 0 \notin Runs /\ 0 \in Nat
    /\ \A r \in Runs : r \in 0..MaxRuns /\ r # 0
    /\ \A r \in 0..MaxRuns : r # 0 => r \in Runs
BY BoundsAssumption DEF BoundsAssumption, Runs

LEMMA NoSubFacts == NoSub.phase = "none" /\ NoSub.run = 0 /\ ~Subscribed(NoSub)
BY RunsFacts DEF NoSub, Subscribed

-----------------------------------------------------------------------------
(* The functions of the page.                                              *)

LEMMA StopGood ==
    ASSUME NEW c, Good(c)
    PROVE  /\ Good(stopRunStreamSubscription(c))
           /\ stopRunStreamSubscription(c).sub = NoSub
           /\ c.sub = NoSub => stopRunStreamSubscription(c) = c
<1>1. CASE c.sub = NoSub
  BY <1>1 DEF stopRunStreamSubscription
<1>2. CASE c.sub # NoSub
  <2>1. Orphan(c.sub) \in WideDead
    BY <1>2 DEF Good, Wide, WideDead, Orphan, Subscribed
  <2>2. NoSub \in [run : 0..MaxRuns, phase : {"none", "read", "check", "preserve"}, pos : Nat,
                   saw : BOOLEAN, back : BOOLEAN]
    BY RunsFacts DEF NoSub
  <2> DEFINE e == [c EXCEPT !.sub = NoSub, !.dead = @ \cup {Orphan(c.sub)}]
  <2>3. e \in Wide /\ e.sub = NoSub /\ e.snap = c.snap /\ e.resumes = c.resumes
        /\ e.active = c.active /\ e.seq = c.seq
    BY <2>1, <2>2 DEF Good, Wide
  <2>4. Good(e)
    BY <2>3 DEF Good, Agrees
  <2> QED
    BY <1>2, <2>3, <2>4 DEF stopRunStreamSubscription
<1> QED
  BY <1>1, <1>2

LEMMA ResetGood ==
    ASSUME NEW c, Good(c)
    PROVE  Good(resetOnGoingConv(c)) /\ resetOnGoingConv(c).sub = NoSub
<1> DEFINE b == stopRunStreamSubscription(c)
<1>1. Good(b) /\ b.sub = NoSub
  BY StopGood
<1>2. << >> \in Seq(Runs \X Nat)
  OBVIOUS
<1> HIDE DEF b
<1> DEFINE e == [b EXCEPT !.chunks = <<>>, !.human = FALSE]
<1>3. e \in Wide /\ e.sub = NoSub /\ e.snap = b.snap /\ e.resumes = b.resumes
      /\ e.active = b.active /\ e.seq = b.seq
  BY <1>1, <1>2 DEF Good, Wide
<1>4. Good(e)
  BY <1>1, <1>3 DEF Good, Agrees
<1> QED
  BY <1>3, <1>4 DEF resetOnGoingConv, b

LEMMA StartGood ==
    ASSUME NEW c, Good(c), NEW r \in Runs, NEW after \in Nat, NEW back \in BOOLEAN
    PROVE  /\ Good(startRunStream(c, r, after, back))
           /\ c.sub = NoSub => startRunStream(c, r, after, back).dead = c.dead
<1> DEFINE b == stopRunStreamSubscription(c)
           s == [run |-> r, phase |-> "read", pos |-> after, saw |-> FALSE, back |-> back]
<1>1. Good(b) /\ (c.sub = NoSub => b = c)
  BY StopGood
<1>2. /\ s \in [run : 0..MaxRuns, phase : {"none", "read", "check", "preserve"}, pos : Nat,
                saw : BOOLEAN, back : BOOLEAN]
      /\ Subscribed(s)
  BY RunsFacts DEF Subscribed
<1> HIDE DEF b, s
<1> DEFINE e == [b EXCEPT !.sub = s, !.active = r, !.seq = after, !.streaming = TRUE,
                          !.snap = [run |-> r, seq |-> after]]
<1>3. e \in Wide /\ e.sub = s /\ e.snap = [run |-> r, seq |-> after] /\ e.resumes = b.resumes
      /\ e.active = r /\ e.seq = after /\ e.dead = b.dead
  BY <1>1, <1>2, RunsFacts DEF Good, Wide, Snaps
<1>4. Good(e)
  BY <1>1, <1>2, <1>3 DEF Good, Agrees, Named
<1> QED
  BY <1>1, <1>3, <1>4 DEF startRunStream, b, s

\* The rest of the functions leave the invocations alone but for the one that
\* ends.
LEMMA RestoreGood ==
    ASSUME NEW c, Good(c)
    PROVE  /\ Good(restorePendingInterrupt(c))
           /\ restorePendingInterrupt(c).dead = c.dead
<1>1. (c.streaming /\ c.pending = 0) \in BOOLEAN
  OBVIOUS
<1> DEFINE w == c.streaming /\ c.pending = 0
<1> HIDE DEF w
<1> DEFINE e == [c EXCEPT !.streaming = w]
<1>2. e \in Wide /\ e.sub = c.sub /\ e.snap = c.snap /\ e.resumes = c.resumes
      /\ e.active = c.active /\ e.seq = c.seq /\ e.dead = c.dead
  BY <1>1 DEF Good, Wide, w
<1>3. Good(e)
  BY <1>2 DEF Good, Agrees
<1>4. e = restorePendingInterrupt(c)
  BY DEF restorePendingInterrupt, w
<1> QED
  BY <1>2, <1>3, <1>4

LEMMA FinalizeGood ==
    ASSUME NEW c, Good(c), NEW r \in Runs, NEW st
    PROVE  /\ Good(finalizeRunStream(c, r, st))
           /\ finalizeRunStream(c, r, st).dead = c.dead
           /\ finalizeRunStream(c, r, st).sub = c.sub
<1>1. CASE c.active # r
  BY <1>1 DEF finalizeRunStream
<1>2. CASE c.active = r
  <2> DEFINE asked == st = "interrupted" /\ c.pending = r
             act == IF asked THEN r ELSE 0
             snap == IF asked THEN [run |-> r, seq |-> c.seq] ELSE NoSnap
             pend == IF c.pending = r /\ ~asked THEN 0 ELSE c.pending
             late == [run |-> r, asked |-> asked]
  <2>0. asked \in BOOLEAN
    OBVIOUS
  <2>1. act \in 0..MaxRuns /\ pend \in 0..MaxRuns /\ c.seq \in Nat
    BY RunsFacts DEF Good, Wide
  <2>2. snap \in Snaps /\ Named(snap) /\ (act # 0 /\ snap.run # 0 => snap = [run |-> act, seq |-> c.seq])
    BY <2>1, RunsFacts DEF Snaps, Named, NoSnap
  <2>3. finalizeRunStream(c, r, st) =
          [c EXCEPT !.streaming = FALSE, !.active = act, !.snap = snap, !.pending = pend,
                    !.resets = @ \cup {late}]
    BY <1>2 DEF finalizeRunStream
  <2> HIDE DEF asked, act, snap, pend
  <2>4. late \in [run : Runs, asked : BOOLEAN]
    BY <2>0
  <2> HIDE DEF late
  <2> DEFINE e == [c EXCEPT !.streaming = FALSE, !.active = act, !.snap = snap, !.pending = pend,
                            !.resets = @ \cup {late}]
  <2>5. e \in Wide /\ e.sub = c.sub /\ e.snap = snap /\ e.resumes = c.resumes
        /\ e.active = act /\ e.seq = c.seq /\ e.dead = c.dead
    BY <2>1, <2>2, <2>4 DEF Good, Wide
  <2>6. Good(e)
    BY <2>2, <2>5 DEF Good, Agrees
  <2> QED
    BY <2>3, <2>5, <2>6
<1> QED
  BY <1>1, <1>2

LEMMA PreserveInterruptedGood ==
    ASSUME NEW c, Good(c), NEW r \in Runs, NEW n \in Nat
    PROVE  /\ Good(preserveInterruptedRun(c, r, n))
           /\ preserveInterruptedRun(c, r, n).dead = c.dead
           /\ preserveInterruptedRun(c, r, n).sub = c.sub
<1> DEFINE e == [c EXCEPT !.active = r, !.seq = n, !.streaming = FALSE,
                          !.snap = [run |-> r, seq |-> n]]
<1>1. e \in Wide /\ e.sub = c.sub /\ e.snap = [run |-> r, seq |-> n] /\ e.resumes = c.resumes
      /\ e.active = r /\ e.seq = n /\ e.dead = c.dead
  BY RunsFacts DEF Good, Wide, Snaps
<1>2. Good(e)
  BY <1>1 DEF Good, Agrees, Named
<1> QED
  BY <1>1, <1>2 DEF preserveInterruptedRun

LEMMA ScheduleGood ==
    ASSUME NEW c, Good(c), NEW r \in Runs
    PROVE  /\ Good(scheduleRunReconnect(c, r))
           /\ scheduleRunReconnect(c, r).dead = c.dead
           /\ scheduleRunReconnect(c, r).sub = c.sub
<1> DEFINE e == [c EXCEPT !.timers = @ \cup {r}]
<1>1. e \in Wide /\ e.sub = c.sub /\ e.snap = c.snap /\ e.resumes = c.resumes
      /\ e.active = c.active /\ e.seq = c.seq /\ e.dead = c.dead
  BY DEF Good, Wide
<1>2. Good(e)
  BY <1>1 DEF Good, Agrees
<1> QED
  BY <1>1, <1>2 DEF scheduleRunReconnect

LEMMA CheckedGood ==
    ASSUME NEW c, Good(c), NEW r \in Runs, NEW st
    PROVE  /\ Good(Checked(c, r, st))
           /\ Checked(c, r, st).dead = c.dead
           /\ Checked(c, r, st).sub = c.sub
<1>1. c.seq \in Nat
  BY DEF Good, Wide
<1> QED
  BY <1>1, FinalizeGood, PreserveInterruptedGood, ScheduleGood DEF Checked

LEMMA FinallyGood ==
    ASSUME NEW c, Good(c), NEW back
    PROVE  /\ Good(Finally(c, back))
           /\ Finally(c, back).dead = c.dead
<1>1. (c.streaming /\ c.active # 0 /\ (back => c.pending = 0)) \in BOOLEAN
  OBVIOUS
<1> DEFINE w == c.streaming /\ c.active # 0 /\ (back => c.pending = 0)
<1> HIDE DEF w
<1> DEFINE e == [c EXCEPT !.streaming = w]
<1>2. e \in Wide /\ e.sub = c.sub /\ e.snap = c.snap /\ e.resumes = c.resumes
      /\ e.active = c.active /\ e.seq = c.seq /\ e.dead = c.dead
  BY <1>1 DEF Good, Wide, w
<1>3. Good(e)
  BY <1>2 DEF Good, Agrees
<1>4. e = Finally(c, back)
  BY DEF Finally, w
<1> QED
  BY <1>2, <1>3, <1>4

LEMMA FinishedGood ==
    ASSUME NEW c, Good(c)
    PROVE  Good(Finished(c)) /\ Finished(c).dead = c.dead
<1>1. NoSub \in [run : 0..MaxRuns, phase : {"none", "read", "check", "preserve"}, pos : Nat,
                 saw : BOOLEAN, back : BOOLEAN]
  BY RunsFacts DEF NoSub
<1> DEFINE e == [c EXCEPT !.sub = NoSub]
<1>2. e \in Wide /\ e.sub = NoSub /\ e.snap = c.snap /\ e.resumes = c.resumes
      /\ e.active = c.active /\ e.seq = c.seq /\ e.dead = c.dead
  BY <1>1 DEF Good, Wide
<1>3. Good(e)
  BY <1>2 DEF Good, Agrees
<1> QED
  BY <1>2, <1>3, FinallyGood DEF Finished

\* Whatever function has aborted an invocation, it does not outlive the step.
LEMMA UnwoundGood ==
    ASSUME NEW c, Good(c)
    PROVE  Good(Unwound(c)) /\ Calm(Unwound(c))
<1> DEFINE gone == {d \in c.dead : d.phase = "aborted"}
           e == [c EXCEPT !.dead = @ \ gone]
<1>1. CASE gone = {}
  BY <1>1 DEF Unwound, Calm
<1>2. CASE gone # {}
  <2>1. e \in Wide /\ e.sub = c.sub /\ e.snap = c.snap /\ e.resumes = c.resumes
        /\ e.active = c.active /\ e.seq = c.seq /\ e.dead = c.dead \ gone
    BY DEF Good, Wide
  <2>2. Good(e) /\ Calm(e)
    BY <2>1 DEF Good, Agrees, Calm
  <2> QED
    BY <1>2, <2>2, FinallyGood DEF Unwound, Calm
<1> QED
  BY <1>1, <1>2

LEMMA AwaitGood ==
    ASSUME NEW c, Good(c), NEW step \in {"begin", "live", "snapshot", "thread"},
           NEW n \in Snaps, step \in {"live", "snapshot"} => n.run \in Runs
    PROVE  Good(Await(c, step, n)) /\ Await(c, step, n).dead = c.dead
<1> DEFINE x == [step |-> step, run |-> n.run, seq |-> n.seq]
           e == [c EXCEPT !.resumes = @ \cup {x}]
<1>1. x \in [step : {"begin", "live", "snapshot", "thread"}, run : 0..MaxRuns, seq : Nat]
  BY DEF Snaps
<1>2. e \in Wide /\ e.sub = c.sub /\ e.snap = c.snap /\ e.resumes = c.resumes \cup {x}
      /\ e.active = c.active /\ e.seq = c.seq /\ e.dead = c.dead
  BY <1>1 DEF Good, Wide
<1>3. x.step \in {"live", "snapshot"} => x.run \in Runs
  OBVIOUS
<1> HIDE DEF x
<1>4. Good(e)
  BY <1>2, <1>3 DEF Good, Agrees
<1> QED
  BY <1>2, <1>4 DEF Await, x

\* The functions drop what they have waited for.
LEMMA DropGood ==
    ASSUME NEW c, Good(c)
    PROVE  /\ \A ds \in SUBSET c.dead : Good([c EXCEPT !.dead = ds])
           /\ \A ts \in SUBSET c.timers : Good([c EXCEPT !.timers = ts])
           /\ \A fs \in SUBSET c.resets : Good([c EXCEPT !.resets = fs])
           /\ \A xs \in SUBSET c.resumes : Good([c EXCEPT !.resumes = xs])
           /\ \A as \in SUBSET c.awaiting : Good([c EXCEPT !.awaiting = as])
<1>1. ASSUME NEW ds \in SUBSET c.dead
      PROVE  Good([c EXCEPT !.dead = ds])
  <2>1. [c EXCEPT !.dead = ds] \in Wide
    BY DEF Good, Wide
  <2> QED
    BY <2>1 DEF Good, Agrees, Wide
<1>2. ASSUME NEW ts \in SUBSET c.timers
      PROVE  Good([c EXCEPT !.timers = ts])
  <2>1. [c EXCEPT !.timers = ts] \in Wide
    BY DEF Good, Wide
  <2> QED
    BY <2>1 DEF Good, Agrees, Wide
<1>3. ASSUME NEW fs \in SUBSET c.resets
      PROVE  Good([c EXCEPT !.resets = fs])
  <2>1. [c EXCEPT !.resets = fs] \in Wide
    BY DEF Good, Wide
  <2> QED
    BY <2>1 DEF Good, Agrees, Wide
<1>4. ASSUME NEW xs \in SUBSET c.resumes
      PROVE  Good([c EXCEPT !.resumes = xs])
  <2>1. [c EXCEPT !.resumes = xs] \in Wide
    BY DEF Good, Wide
  <2> QED
    BY <2>1 DEF Good, Agrees, Wide
<1>5. ASSUME NEW as \in SUBSET c.awaiting
      PROVE  Good([c EXCEPT !.awaiting = as])
  <2>1. [c EXCEPT !.awaiting = as] \in Wide
    BY DEF Good, Wide
  <2> QED
    BY <2>1 DEF Good, Agrees, Wide
<1> QED
  BY <1>1, <1>2, <1>3, <1>4, <1>5

LEMMA ForgetGood ==
    ASSUME NEW c, Good(c), NEW n \in Nat, NEW p \in 0..MaxRuns
    PROVE  /\ Good([c EXCEPT !.snap = NoSnap])
           /\ Good([c EXCEPT !.pending = p])
           /\ Good([c EXCEPT !.streaming = FALSE])
           /\ Good([c EXCEPT !.active = 0, !.streaming = FALSE, !.snap = NoSnap, !.pending = p])
           /\ Good([c EXCEPT !.active = 0, !.seq = n, !.streaming = FALSE, !.pending = p,
                             !.snap = NoSnap])
<1>1. NoSnap \in Snaps /\ Named(NoSnap) /\ NoSnap.run = 0
  BY RunsFacts DEF NoSnap, Snaps, Named
<1>2. [c EXCEPT !.snap = NoSnap] \in Wide /\ [c EXCEPT !.pending = p] \in Wide
      /\ [c EXCEPT !.streaming = FALSE] \in Wide
  BY <1>1 DEF Good, Wide
<1>3. [c EXCEPT !.active = 0, !.streaming = FALSE, !.snap = NoSnap, !.pending = p] \in Wide
  BY <1>1, RunsFacts DEF Good, Wide
<1>4. [c EXCEPT !.active = 0, !.seq = n, !.streaming = FALSE, !.pending = p, !.snap = NoSnap]
        \in Wide
  BY <1>1, RunsFacts DEF Good, Wide
<1>5. Good([c EXCEPT !.snap = NoSnap])
  BY <1>1, <1>2 DEF Good, Agrees, Wide
<1>6. Good([c EXCEPT !.pending = p])
  BY <1>2 DEF Good, Agrees, Wide
<1>7. Good([c EXCEPT !.streaming = FALSE])
  BY <1>2 DEF Good, Agrees, Wide
<1>8. Good([c EXCEPT !.active = 0, !.streaming = FALSE, !.snap = NoSnap, !.pending = p])
  BY <1>1, <1>3 DEF Good, Agrees, Wide
<1>9. Good([c EXCEPT !.active = 0, !.seq = n, !.streaming = FALSE, !.pending = p, !.snap = NoSnap])
  BY <1>1, <1>4 DEF Good, Agrees, Wide
<1> QED
  BY <1>5, <1>6, <1>7, <1>8, <1>9

\* An event of the active run.
LEMMA HandledGood ==
    ASSUME NEW c, Good(c), Subscribed(c.sub), c.active = c.sub.run, NEW st, NEW id \in Nat,
           NEW k \in AllKinds \cup {"end", "unavailable", "rowEnd"}
    PROVE  /\ Good(Handled(c, k, id, st))
           /\ Handled(c, k, id, st).dead = c.dead
           /\ Subscribed(Handled(c, k, id, st).sub)
           /\ Handled(c, k, id, st).sub.run = c.sub.run
<1> DEFINE r == c.sub.run
           d == IF id = 0 THEN c ELSE [c EXCEPT !.seq = id, !.snap = [run |-> r, seq |-> id]]
           last == [d EXCEPT !.sub.saw = TRUE]
<1>0. r \in Runs /\ c.active = r /\ c.sub.run = r
  BY DEF Subscribed
<1> HIDE DEF r
<1>1. Good(d) /\ d.dead = c.dead /\ d.sub = c.sub /\ d.active = r
  <2> DEFINE e == [c EXCEPT !.seq = id, !.snap = [run |-> r, seq |-> id]]
  <2>1. e \in Wide /\ e.sub = c.sub /\ e.snap = [run |-> r, seq |-> id]
        /\ e.resumes = c.resumes /\ e.active = c.active /\ e.seq = id /\ e.dead = c.dead
    BY <1>0, RunsFacts DEF Good, Wide, Snaps
  <2>2. Good(e)
    BY <1>0, <2>1 DEF Good, Agrees, Named
  <2> QED
    BY <1>0, <2>1, <2>2
<1> HIDE DEF d
<1>2. Good(last) /\ last.dead = c.dead /\ Subscribed(last.sub) /\ last.sub.run = r
      /\ last.pending = d.pending
  <2>1. last.sub = [c.sub EXCEPT !.saw = TRUE]
    BY <1>1 DEF Good, Wide
  <2>2. last \in Wide /\ last.snap = d.snap /\ last.resumes = d.resumes
        /\ last.active = d.active /\ last.seq = d.seq /\ last.dead = d.dead
        /\ last.pending = d.pending
    BY <1>1 DEF Good, Wide
  <2>3. Subscribed(last.sub) /\ last.sub.run = r
    BY <1>0, <1>1, <2>1 DEF Subscribed, Good, Wide
  <2> QED
    BY <1>1, <2>2, <2>3 DEF Good, Agrees
<1> HIDE DEF last
<1>3. d.pending \in 0..MaxRuns /\ last.pending \in 0..MaxRuns /\ 0 \in 0..MaxRuns
      /\ r \in 0..MaxRuns
  BY <1>0, <1>1, <1>2, RunsFacts DEF Good, Wide
<1>4. ASSUME NEW p \in 0..MaxRuns, NEW s
      PROVE  LET e == finalizeRunStream([last EXCEPT !.pending = p], r, s)
             IN Good(e) /\ e.dead = c.dead /\ Subscribed(e.sub) /\ e.sub.run = r
  <2> DEFINE f == [last EXCEPT !.pending = p]
  <2>1. Good(f)
    BY <1>2, ForgetGood
  <2>2. f.dead = c.dead /\ f.sub = last.sub
    BY <1>2 DEF Good, Wide
  <2> HIDE DEF f
  <2>3. Good(finalizeRunStream(f, r, s)) /\ finalizeRunStream(f, r, s).dead = f.dead
        /\ finalizeRunStream(f, r, s).sub = f.sub
    BY <1>0, <2>1, FinalizeGood
  <2> QED
    BY <1>2, <2>2, <2>3 DEF f
<1>5. CASE k = "chunk"
  <2>1. Append(d.chunks, <<r, id>>) \in Seq(Runs \X Nat)
    BY <1>0, <1>1, AppendProperties DEF Good, Wide
  <2> DEFINE e == [d EXCEPT !.chunks = Append(@, <<r, id>>)]
  <2>2. e \in Wide /\ e.sub = d.sub /\ e.snap = d.snap /\ e.resumes = d.resumes
        /\ e.active = d.active /\ e.seq = d.seq /\ e.dead = d.dead
    BY <1>1, <2>1 DEF Good, Wide
  <2>3. Good(e)
    BY <1>1, <2>2 DEF Good, Agrees
  <2> QED
    BY <1>0, <1>1, <1>5, <2>2, <2>3 DEF Handled, d, r
<1>6. CASE k = "retry"
  BY <1>0, <1>1, <1>6 DEF Handled, d, r
<1>7. CASE k = "ask"
  <2> DEFINE e == [d EXCEPT !.streaming = FALSE, !.pending = r]
  <2>1. e \in Wide /\ e.sub = d.sub /\ e.snap = d.snap /\ e.resumes = d.resumes
        /\ e.active = d.active /\ e.seq = d.seq /\ e.dead = d.dead
    BY <1>1, <1>3 DEF Good, Wide
  <2>2. Good(e)
    BY <1>1, <2>1 DEF Good, Agrees
  <2> QED
    BY <1>0, <1>1, <1>7, <2>1, <2>2 DEF Handled, d, r
<1>8. CASE k = "stop"
  <2>1. Handled(c, k, id, st) = [d EXCEPT !.streaming = FALSE]
    BY <1>8 DEF Handled, d, r
  <2>2. Good([d EXCEPT !.streaming = FALSE])
    BY <1>1, <1>3, ForgetGood
  <2>3. [d EXCEPT !.streaming = FALSE].dead = d.dead /\ [d EXCEPT !.streaming = FALSE].sub = d.sub
    BY <1>1 DEF Good, Wide
  <2> QED
    BY <1>0, <1>1, <2>1, <2>2, <2>3
<1>9. CASE k = "error"
  <2>1. Handled(c, k, id, st) = finalizeRunStream([last EXCEPT !.pending = 0], r, "failed")
    BY <1>9 DEF Handled, last, d, r
  <2> QED
    BY <1>0, <1>3, <1>4, <2>1
<1>10. CASE k = "unavailable"
  <2>1. Handled(c, k, id, st) = finalizeRunStream(last, r, "none")
    BY <1>10 DEF Handled, last, d, r
  <2> QED
    BY <1>0, <1>2, <2>1, FinalizeGood
<1>11. CASE k = "rowEnd"
  <2>1. Handled(c, k, id, st) = finalizeRunStream(last, r, st)
    BY <1>11 DEF Handled, last, d, r
  <2> QED
    BY <1>0, <1>2, <2>1, FinalizeGood
<1>12. CASE k = "end"
  <2> DEFINE p == IF Asks(r) THEN r ELSE IF st = "completed" THEN 0 ELSE last.pending
  <2>1. Handled(c, k, id, st) = finalizeRunStream([last EXCEPT !.pending = p], r, st)
    BY <1>12 DEF Handled, last, d, r
  <2>2. p \in 0..MaxRuns
    BY <1>3
  <2> HIDE DEF p
  <2> QED
    BY <1>0, <1>4, <2>1, <2>2
<1> QED
  BY <1>5, <1>6, <1>7, <1>8, <1>9, <1>10, <1>11, <1>12 DEF AllKinds

LEMMA ReceiveGood ==
    ASSUME NEW c, Good(c), Subscribed(c.sub), NEW st, NEW id \in Nat,
           NEW k \in AllKinds \cup {"end", "unavailable", "rowEnd"}
    PROVE  /\ Good(Receive(c, k, id, st))
           /\ Receive(c, k, id, st).dead = c.dead
           /\ Subscribed(Receive(c, k, id, st).sub)
           /\ Receive(c, k, id, st).sub.run = c.sub.run
BY HandledGood DEF Receive

LEMMA ClosingGood ==
    ASSUME NEW c, Good(c), Subscribed(c.sub)
    PROVE  Good(Closing(c)) /\ Closing(c).dead = c.dead
<1> DEFINE e == [c EXCEPT !.sub.phase = "check"]
<1>1. e \in Wide /\ e.sub = [c.sub EXCEPT !.phase = "check"] /\ e.snap = c.snap
      /\ e.resumes = c.resumes /\ e.active = c.active /\ e.seq = c.seq /\ e.dead = c.dead
  BY DEF Good, Wide
<1>2. Subscribed(e.sub)
  BY <1>1 DEF Subscribed, Good, Wide
<1>3. Good(e)
  BY <1>1, <1>2 DEF Good, Agrees
<1> QED
  BY <1>1, <1>3, FinishedGood DEF Closing

LEMMA PreserveGood ==
    ASSUME NEW c, Good(c), NEW r \in Runs, NEW n \in Nat
    PROVE  /\ Good(Preserve(c, r, n))
           /\ Calm(c) => Calm(Preserve(c, r, n))
<1> DEFINE b == preserveInterruptedRun(c, r, n)
           d == [run |-> r, back |-> TRUE, phase |-> "restore"]
<1>1. Good(b) /\ b.dead = c.dead
  BY PreserveInterruptedGood
<1>2. d \in WideDead /\ d.phase = "restore"
  BY DEF WideDead
<1> HIDE DEF b, d
<1> DEFINE e == [b EXCEPT !.dead = @ \cup {d}]
<1>3. e \in Wide /\ e.sub = b.sub /\ e.snap = b.snap /\ e.resumes = b.resumes
      /\ e.active = b.active /\ e.seq = b.seq /\ e.dead = b.dead \cup {d}
  BY <1>1, <1>2 DEF Good, Wide
<1>4. Good(e)
  BY <1>1, <1>3 DEF Good, Agrees
<1>5. Calm(c) => Calm(e)
  BY <1>1, <1>2, <1>3 DEF Calm
<1> QED
  BY <1>4, <1>5 DEF Preserve, b, d

LEMMA GiveUpGood ==
    ASSUME NEW c, Good(c)
    PROVE  Good(GiveUp(c)) /\ GiveUp(c).dead = c.dead
<1> DEFINE e == [c EXCEPT !.active = 0, !.seq = 0, !.streaming = FALSE, !.pending = 0,
                          !.snap = NoSnap]
<1>1. Good(e)
  BY ForgetGood, RunsFacts
<1>2. e.dead = c.dead
  BY DEF Good, Wide
<1> QED
  BY <1>1, <1>2, RestoreGood DEF GiveUp

LEMMA AnsweredGood ==
    ASSUME Good(client), NEW x \in client.resumes
    PROVE  /\ Good(Answered(x)) /\ Answered(x).dead = client.dead
           /\ Answered(x).pending = client.pending /\ Answered(x).sub = client.sub
           /\ x \in [step : {"begin", "live", "snapshot", "thread"}, run : 0..MaxRuns, seq : Nat]
           /\ x.step \in {"live", "snapshot"} => x.run \in Runs
<1>1. client.resumes \ {x} \in SUBSET client.resumes
  OBVIOUS
<1>2. Good([client EXCEPT !.resumes = client.resumes \ {x}])
  BY <1>1, DropGood DEF Good, Wide
<1> QED
  BY <1>2 DEF Answered, Good, Wide

LEMMA ResumedGood ==
    ASSUME Good(client), NEW x \in client.resumes, NEW r \in Runs, NEW after \in Nat
    PROVE  Good(Resumed(x, r, after)) /\ Calm(Resumed(x, r, after))
<1>1. Good(Answered(x))
  BY AnsweredGood
<1> DEFINE b == IF after = 0 THEN resetOnGoingConv(Answered(x)) ELSE Answered(x)
<1>2. Good(b)
  BY <1>1, ResetGood
<1> HIDE DEF b
<1>3. Good(startRunStream(b, r, after, TRUE))
  BY <1>2, StartGood
<1>4. Resumed(x, r, after) = Unwound(startRunStream(b, r, after, TRUE))
  BY DEF Resumed, b
<1> QED
  BY <1>3, <1>4, UnwoundGood

-----------------------------------------------------------------------------
(* The steps.                                                              *)

LEMMA Initially == Init => IInv
<1> SUFFICES ASSUME Init PROVE IInv
  OBVIOUS
<1>1. ServerOK
  <2>1. \A r \in Runs : log[r] = << >> /\ << >> \in Seq(AllKinds \cup {"end"})
    BY DEF Init
  <2> QED
    BY <2>1, RunsFacts DEF Init, ServerOK
<1>2. NoSub \in [run : 0..MaxRuns, phase : {"none", "read", "check", "preserve"}, pos : Nat,
                 saw : BOOLEAN, back : BOOLEAN]
  BY RunsFacts DEF NoSub
<1>3. NoSnap \in Snaps /\ Named(NoSnap)
  BY RunsFacts DEF NoSnap, Snaps, Named
<1>4. << >> \in Seq(Runs \X Nat)
  OBVIOUS
<1>5. client = [Fresh(NoSnap) EXCEPT !.resumes = {}]
  BY DEF Init
<1>6. client \in Wide /\ client.sub = NoSub /\ client.snap = NoSnap /\ client.resumes = {}
      /\ client.active = 0 /\ client.dead = {}
  BY <1>2, <1>3, <1>4, <1>5, RunsFacts DEF Fresh, Wide
<1> QED
  BY <1>1, <1>3, <1>6 DEF IInv, Good, Calm, Agrees

LEMMA FreshGood ==
    ASSUME NEW n \in Snaps, Named(n)
    PROVE  Good(Fresh(n)) /\ Calm(Fresh(n))
<1>1. NoSub \in [run : 0..MaxRuns, phase : {"none", "read", "check", "preserve"}, pos : Nat,
                 saw : BOOLEAN, back : BOOLEAN]
  BY RunsFacts DEF NoSub
<1>2. << >> \in Seq(Runs \X Nat)
  OBVIOUS
<1>3. Fresh(n) \in Wide /\ Fresh(n).sub = NoSub /\ Fresh(n).snap = n
      /\ Fresh(n).resumes = {[step |-> "begin", run |-> 0, seq |-> 0]}
      /\ Fresh(n).active = 0 /\ Fresh(n).dead = {}
  BY <1>1, <1>2, RunsFacts DEF Fresh, Wide
<1> QED
  BY <1>3 DEF Good, Calm, Agrees

LEMMA ServerKept ==
    ASSUME ServerOK, ClientStep \/ Trouble \/ \E rs : Heeds(rs)
    PROVE  ServerOK'
<1>1. CASE ClientStep
  BY <1>1 DEF ServerOK, ClientStep, serverVars
<1>2. CASE Trouble
  BY <1>2 DEF ServerOK, Trouble, InTrouble, serverVars
<1>3. ASSUME NEW rs, Heeds(rs) PROVE ServerOK'
  <2>1. overtaken' \in BOOLEAN
    BY <1>3 DEF Heeds
  <2> QED
    BY <1>3, <2>1 DEF ServerOK, Heeds, serverVars
<1> QED
  BY <1>1, <1>2, <1>3

LEMMA Following ==
    ASSUME Good(client), client.sub.phase # "none"
    PROVE  Subscribed(client.sub) /\ client.sub.pos \in Nat /\ client.sub.run \in Runs
BY NoSubFacts DEF Good, Wide, Subscribed

LEMMA CalmKept ==
    ASSUME NEW c, NEW e, Calm(c), e.dead \subseteq c.dead
    PROVE  Calm(e)
BY DEF Calm

LEMMA ServerSteps == IInv /\ ServerNext => IInv'
<1> SUFFICES ASSUME IInv, ServerNext PROVE IInv'
  OBVIOUS
<1>1. PICK r \in Runs : EndRow(r) \/ AppendEnd(r) \/ Create(r) \/ \E k \in Kinds : Publish(r, k)
  BY DEF ServerNext
<1>2. client' = client /\ troubles' = troubles /\ overtaken' = overtaken /\ parent' = parent
  BY <1>1 DEF EndRow, AppendEnd, Create, Publish
<1>3. log[r] \in Seq(AllKinds \cup {"end"})
  BY DEF IInv, ServerOK
<1>4. ServerOK'
  <2>1. CASE EndRow(r) \/ Create(r)
    BY <1>2, <2>1 DEF IInv, ServerOK, EndRow, Create
  <2>2. CASE AppendEnd(r)
    <3>1. Append(log[r], "end") \in Seq(AllKinds \cup {"end"})
      BY <1>3, AppendProperties
    <3> QED
      BY <1>2, <2>2, <3>1 DEF IInv, ServerOK, AppendEnd
  <2>3. ASSUME NEW k \in Kinds, Publish(r, k) PROVE ServerOK'
    <3>1. k \in AllKinds \cup {"end"}
      BY BoundsAssumption DEF BoundsAssumption
    <3>2. Append(log[r], k) \in Seq(AllKinds \cup {"end"})
      BY <1>3, <3>1, AppendProperties
    <3> QED
      BY <1>2, <2>3, <3>2 DEF IInv, ServerOK, Publish
  <2> QED
    BY <1>1, <2>1, <2>2, <2>3
<1> QED
  BY <1>2, <1>4 DEF IInv

\* The open stream and its check.
LEMMA SubscriptionSteps ==
    ASSUME IInv, Deliver \/ Close \/ TimesOut \/ Unavailable \/ Breaks
                 \/ CheckAnswered \/ CheckFails \/ Preserved
    PROVE  Good(client') /\ Calm(client')
<1> DEFINE s == client.sub
<1>0. Good(client) /\ Calm(client)
  BY DEF IInv
<1>a. Reading \/ Checking => Subscribed(client.sub) /\ s.pos \in Nat /\ s.run \in Runs
  BY <1>0, Following DEF Reading, Checking
<1>1. CASE Deliver
  <2> DEFINE c == [client EXCEPT !.sub.pos = @ + 1]
             k == log[s.run][s.pos + 1]
  <2>1. Subscribed(client.sub) /\ s.pos \in Nat /\ s.run \in Runs /\ s.pos < Len(log[s.run])
    BY <1>1, <1>a DEF Deliver
  <2>2. k \in AllKinds \cup {"end"}
    <3>1. log[s.run] \in Seq(AllKinds \cup {"end"})
      BY <2>1 DEF IInv, ServerOK
    <3>2. s.pos + 1 \in 1..Len(log[s.run])
      BY <2>1, <3>1, LenProperties
    <3> QED
      BY <3>1, <3>2, ElementOfSeq
  <2>3. c \in Wide /\ c.sub = [client.sub EXCEPT !.pos = @ + 1] /\ c.snap = client.snap
        /\ c.resumes = client.resumes /\ c.active = client.active /\ c.seq = client.seq
        /\ c.dead = client.dead
    <3> DEFINE p == client.sub.pos + 1
    <3>1. p \in Nat
      BY <2>1
    <3>2. c = [client EXCEPT !.sub.pos = p]
      OBVIOUS
    <3> HIDE DEF p, c
    <3>3. c \in Wide /\ c.sub = [client.sub EXCEPT !.pos = p] /\ c.snap = client.snap
          /\ c.resumes = client.resumes /\ c.active = client.active /\ c.seq = client.seq
          /\ c.dead = client.dead
      BY <1>0, <3>1, <3>2 DEF Good, Wide
    <3> QED
      BY <3>3 DEF p
  <2>4. Subscribed(c.sub)
    BY <1>0, <2>1, <2>3 DEF Subscribed, Good, Wide
  <2>5. Good(c)
    BY <1>0, <2>3, <2>4 DEF Good, Agrees
  <2>6. client' = Receive(c, k, s.pos + 1, status[s.run])
    BY <1>1 DEF Deliver
  <2> HIDE DEF c, k
  <2>7. Good(client') /\ client'.dead = c.dead
    BY <2>1, <2>2, <2>4, <2>5, <2>6, ReceiveGood
  <2> QED
    BY <1>0, <2>3, <2>7, CalmKept
<1>2. CASE Close
  <2>1. Good(Receive(client, "rowEnd", s.pos, status[s.run]))
        /\ Receive(client, "rowEnd", s.pos, status[s.run]).dead = client.dead
        /\ Subscribed(Receive(client, "rowEnd", s.pos, status[s.run]).sub)
    BY <1>0, <1>2, <1>a, ReceiveGood DEF Close
  <2>2. Good(client') /\ client'.dead = client.dead
    BY <1>0, <1>2, <1>a, <2>1, ClosingGood DEF Close
  <2> QED
    BY <1>0, <2>2, CalmKept
<1>3. CASE TimesOut
  <2>1. Good(client') /\ client'.dead = client.dead
    BY <1>0, <1>3, <1>a, ClosingGood DEF TimesOut
  <2> QED
    BY <1>0, <2>1, CalmKept
<1>4. CASE Unavailable
  <2>1. Good(Receive(client, "unavailable", 0, "none"))
        /\ Receive(client, "unavailable", 0, "none").dead = client.dead
        /\ Subscribed(Receive(client, "unavailable", 0, "none").sub)
    BY <1>0, <1>4, <1>a, ReceiveGood, RunsFacts DEF Unavailable
  <2>2. Good(client') /\ client'.dead = client.dead
    BY <1>4, <2>1, ClosingGood DEF Unavailable
  <2> QED
    BY <1>0, <2>2, CalmKept
<1>5. CASE Breaks
  <2>1. Good(client') /\ client'.dead = client.dead
    BY <1>0, <1>5, <1>a, ScheduleGood, FinishedGood DEF Breaks
  <2> QED
    BY <1>0, <2>1, CalmKept
<1>6. ASSUME Checking, NEW st, Check(st) PROVE Good(client') /\ Calm(client')
  <2> DEFINE c == Checked(client, s.run, st)
  <2>1. Good(c) /\ c.dead = client.dead /\ c.sub = client.sub
    BY <1>0, <1>6, <1>a, CheckedGood
  <2>2. client' = [c EXCEPT !.sub.phase = "preserve"] \/ client' = Finished(c)
    BY <1>6 DEF Check
  <2>3. Subscribed(c.sub)
    BY <1>6, <1>a, <2>1
  <2> HIDE DEF c
  <2> DEFINE e == [c EXCEPT !.sub.phase = "preserve"]
  <2>4. e \in Wide /\ e.sub = [c.sub EXCEPT !.phase = "preserve"] /\ e.snap = c.snap
        /\ e.resumes = c.resumes /\ e.active = c.active /\ e.seq = c.seq /\ e.dead = c.dead
    BY <2>1 DEF Good, Wide
  <2>5. Subscribed(e.sub)
    BY <2>1, <2>3, <2>4 DEF Subscribed, Good, Wide
  <2>6. Good(e)
    BY <2>1, <2>4, <2>5 DEF Good, Agrees
  <2>7. Good(client') /\ client'.dead = client.dead
    BY <2>1, <2>2, <2>4, <2>6, FinishedGood
  <2> QED
    BY <1>0, <2>7, CalmKept
<1>7. CASE CheckAnswered \/ CheckFails
  BY <1>6, <1>7 DEF CheckAnswered, CheckFails
<1>8. CASE Preserved
  <2>1. Good(client') /\ client'.dead = client.dead
    BY <1>0, <1>8, RestoreGood, FinishedGood DEF Preserved
  <2> QED
    BY <1>0, <2>1, CalmKept
<1> QED
  BY <1>1, <1>2, <1>3, <1>4, <1>5, <1>7, <1>8

\* What goes on behind an aborted invocation, a timer or an ended run.
LEMMA LateSteps ==
    ASSUME IInv,
           \/ \E d \in client.dead : LateAnswer(d) \/ LateFailure(d) \/ Unwind(d)
           \/ \E r \in client.timers : Reconnect(r)
           \/ \E f \in client.resets : LateReset(f)
    PROVE  Good(client') /\ Calm(client')
<1>0. Good(client) /\ Calm(client)
  BY DEF IInv
<1>1. ASSUME NEW d \in client.dead
      PROVE  /\ d \in WideDead /\ d.phase # "aborted"
             /\ Good(Bury(d)) /\ Bury(d).dead = client.dead \ {d} /\ Calm(Bury(d))
  <2>1. d \in WideDead /\ d.phase # "aborted"
    BY <1>0 DEF Good, Wide, Calm
  <2>2. Good([client EXCEPT !.dead = client.dead \ {d}])
    BY <1>0, DropGood
  <2>3. Bury(d).dead = client.dead \ {d}
    BY <1>0 DEF Bury, Good, Wide
  <2> QED
    BY <1>0, <2>1, <2>2, <2>3, CalmKept DEF Bury
<1>2. ASSUME NEW d \in client.dead, NEW st, LateCheck(d, st) PROVE Good(client') /\ Calm(client')
  <2> DEFINE c == Checked(Bury(d), d.run, st)
             g == [d EXCEPT !.phase = "preserve"]
  <2>1. Good(c) /\ Calm(c)
    BY <1>1, CheckedGood, CalmKept DEF WideDead
  <2>2. g \in WideDead /\ g.phase = "preserve"
    BY <1>1 DEF WideDead
  <2>3. client' = [c EXCEPT !.dead = @ \cup {g}] \/ client' = Finally(c, d.back)
    BY <1>2 DEF LateCheck
  <2> HIDE DEF c, g
  <2> DEFINE e == [c EXCEPT !.dead = @ \cup {g}]
  <2>4. e \in Wide /\ e.sub = c.sub /\ e.snap = c.snap /\ e.resumes = c.resumes
        /\ e.active = c.active /\ e.seq = c.seq /\ e.dead = c.dead \cup {g}
    BY <2>1, <2>2 DEF Good, Wide
  <2>5. Good(e) /\ Calm(e)
    BY <2>1, <2>2, <2>4 DEF Good, Agrees, Calm
  <2>6. Good(Finally(c, d.back)) /\ Calm(Finally(c, d.back))
    BY <2>1, FinallyGood, CalmKept
  <2> QED
    BY <2>3, <2>5, <2>6
<1>3. ASSUME NEW d \in client.dead, LateAnswer(d) \/ LateFailure(d)
      PROVE  Good(client') /\ Calm(client')
  BY <1>2, <1>3 DEF LateAnswer, LateFailure
<1>4. ASSUME NEW d \in client.dead, Unwind(d) PROVE Good(client') /\ Calm(client')
  <2> DEFINE c == restorePendingInterrupt(Bury(d))
  <2>1. Good(c) /\ c.dead = Bury(d).dead
    BY <1>1, RestoreGood
  <2>2. client' = c \/ client' = Finally(c, d.back)
    BY <1>4 DEF Unwind
  <2> HIDE DEF c
  <2>3. Good(client') /\ client'.dead = Bury(d).dead
    BY <2>1, <2>2, FinallyGood
  <2> QED
    BY <1>1, <2>3, CalmKept
<1>5. ASSUME NEW r \in client.timers, Reconnect(r) PROVE Good(client') /\ Calm(client')
  <2> DEFINE c == [client EXCEPT !.timers = @ \ {r}]
  <2>1. Good([client EXCEPT !.timers = client.timers \ {r}])
    BY <1>0, DropGood
  <2>2. c.dead = client.dead /\ c.seq \in Nat /\ r \in Runs
    BY <1>0 DEF Good, Wide
  <2>3. Good(c) /\ Calm(c)
    BY <1>0, <2>1, <2>2, CalmKept
  <2>4. client' = c \/ (c.sub = NoSub /\ client' = startRunStream(c, r, c.seq, FALSE))
    BY <1>5 DEF Reconnect
  <2> HIDE DEF c
  <2>5. ASSUME c.sub = NoSub, client' = startRunStream(c, r, c.seq, FALSE)
        PROVE  Good(client') /\ Calm(client')
    <3>1. Good(client') /\ client'.dead = c.dead
      BY <2>2, <2>3, <2>5, StartGood
    <3> QED
      BY <2>3, <3>1, CalmKept
  <2> QED
    BY <2>3, <2>4, <2>5
<1>6. ASSUME NEW f \in client.resets, LateReset(f) PROVE Good(client') /\ Calm(client')
  <2> DEFINE c == resetOnGoingConv([client EXCEPT !.resets = @ \ {f}])
  <2>1. Good([client EXCEPT !.resets = client.resets \ {f}])
    BY <1>0, DropGood
  <2>2. Good(c)
    BY <2>1, ResetGood
  <2>3. client' = Unwound(c) \/ client' = Unwound(restorePendingInterrupt(c))
    BY <1>6 DEF LateReset
  <2> HIDE DEF c
  <2> QED
    BY <2>2, <2>3, RestoreGood, UnwoundGood
<1> QED
  BY <1>3, <1>4, <1>5, <1>6

LEMMA ResumeSteps ==
    ASSUME IInv, NEW x \in client.resumes,
           BeginResume(x) \/ ResumeLive(x) \/ ResumeSnapshot(x) \/ ResumeThread(x)
           \/ ResumeFails(x)
    PROVE  Good(client') /\ Calm(client')
<1> DEFINE c == Answered(x)
           cs == [c EXCEPT !.snap = NoSnap]
<1>0. Good(client) /\ Calm(client)
  BY DEF IInv
<1>1. /\ Good(c) /\ c.dead = client.dead /\ c.seq \in Nat /\ c.snap \in Snaps
      /\ c.active \in 0..MaxRuns /\ c.pending \in 0..MaxRuns /\ Named(c.snap)
      /\ x \in [step : {"begin", "live", "snapshot", "thread"}, run : 0..MaxRuns, seq : Nat]
      /\ x.step \in {"live", "snapshot"} => x.run \in Runs
  BY <1>0, AnsweredGood DEF Good, Wide
<1>2. Calm(c)
  BY <1>0, <1>1, CalmKept
<1>3. NoSnap \in Snaps
  BY RunsFacts DEF NoSnap, Snaps
<1>4. Good(cs) /\ cs.dead = c.dead
  <2>1. Good(cs)
    BY <1>1, ForgetGood
  <2> QED
    BY <1>1, <2>1 DEF Good, Wide
<1>5. Good(Await(c, "thread", NoSnap)) /\ Calm(Await(c, "thread", NoSnap))
      /\ Good(Await(cs, "thread", NoSnap)) /\ Calm(Await(cs, "thread", NoSnap))
  <2> HIDE DEF c, cs
  <2>1. ASSUME NEW e, Good(e), Calm(e)
        PROVE  Good(Await(e, "thread", NoSnap)) /\ Calm(Await(e, "thread", NoSnap))
    <3>1. Good(Await(e, "thread", NoSnap)) /\ Await(e, "thread", NoSnap).dead = e.dead
      BY <1>3, <2>1, AwaitGood
    <3> QED
      BY <2>1, <3>1, CalmKept
  <2> QED
    BY <1>1, <1>2, <1>4, <2>1, CalmKept
<1>6. Good(restorePendingInterrupt(c)) /\ Calm(restorePendingInterrupt(c))
  BY <1>1, <1>2, RestoreGood, CalmKept
<1>7. Good(GiveUp(c)) /\ Calm(GiveUp(c))
  BY <1>1, <1>2, GiveUpGood, CalmKept
<1> HIDE DEF c, cs
<1>8. CASE BeginResume(x)
  <2>1. \/ client' = restorePendingInterrupt(c)
        \/ c.active # 0 /\ client' = Await(c, "live", [run |-> c.active, seq |-> 0])
        \/ client' = Await(c, "thread", NoSnap)
        \/ c.snap # NoSnap /\ client' = Await(c, "snapshot", c.snap)
        \/ client' = Await(cs, "thread", NoSnap)
    BY <1>8 DEF BeginResume, c, cs
  <2>2. ASSUME c.active # 0, client' = Await(c, "live", [run |-> c.active, seq |-> 0])
        PROVE  Good(client') /\ Calm(client')
    <3>1. [run |-> c.active, seq |-> 0] \in Snaps /\ c.active \in Runs
      BY <1>1, <2>2, RunsFacts DEF Snaps
    <3> QED
      BY <1>1, <1>2, <2>2, <3>1, AwaitGood, CalmKept
  <2>3. ASSUME c.snap # NoSnap, client' = Await(c, "snapshot", c.snap)
        PROVE  Good(client') /\ Calm(client')
    <3>1. c.snap.run \in Runs
      BY <1>1, <2>3 DEF Named
    <3> QED
      BY <1>1, <1>2, <2>3, <3>1, AwaitGood, CalmKept
  <2> QED
    BY <1>5, <1>6, <2>1, <2>2, <2>3
<1>9. CASE ResumeLive(x)
  <2> DEFINE b == stopRunStreamSubscription(c)
             n == IF b.snap = NoSnap THEN b.seq ELSE b.snap.seq
             p == IF b.pending = x.run THEN 0 ELSE b.pending
             e == [b EXCEPT !.active = 0, !.streaming = FALSE, !.snap = NoSnap, !.pending = p]
  <2>1. x.run \in Runs
    BY <1>1, <1>9 DEF ResumeLive
  <2>2. Good(b)
    BY <1>1, StopGood
  <2>3. n \in Nat /\ p \in 0..MaxRuns
    BY <2>2, RunsFacts DEF Good, Wide, Snaps
  <2>4. \/ client' = Unwound(Preserve(b, x.run, n))
        \/ client' = Resumed(x, x.run, 0)
        \/ client' = restorePendingInterrupt(Unwound(e))
        \/ client' = restorePendingInterrupt(c)
    BY <1>9 DEF ResumeLive, c
  <2> HIDE DEF b, n, p
  <2>5. Good(Unwound(Preserve(b, x.run, n))) /\ Calm(Unwound(Preserve(b, x.run, n)))
    BY <2>1, <2>2, <2>3, PreserveGood, UnwoundGood
  <2>6. Good(Resumed(x, x.run, 0)) /\ Calm(Resumed(x, x.run, 0))
    BY <1>0, <2>1, ResumedGood, RunsFacts
  <2>7. Good(e)
    BY <2>2, <2>3, ForgetGood, RunsFacts
  <2>8. Good(restorePendingInterrupt(Unwound(e))) /\ Calm(restorePendingInterrupt(Unwound(e)))
    BY <2>7, UnwoundGood, RestoreGood, CalmKept
  <2> QED
    BY <1>6, <2>4, <2>5, <2>6, <2>8
<1>10. CASE ResumeSnapshot(x)
  <2> DEFINE after == resolveRunResumeAfterSeq(c, x.run)
  <2>1. x.run \in Runs /\ x.seq \in Nat
    BY <1>1, <1>10 DEF ResumeSnapshot
  <2>2. after \in Nat
    BY <1>1, RunsFacts DEF resolveRunResumeAfterSeq
  <2>3. client' = Preserve(c, x.run, x.seq) \/ client' = Resumed(x, x.run, after)
        \/ client' = Await(cs, "thread", NoSnap)
    BY <1>10 DEF ResumeSnapshot, c, cs
  <2> HIDE DEF after
  <2>4. Good(Preserve(c, x.run, x.seq)) /\ Calm(Preserve(c, x.run, x.seq))
    BY <1>1, <1>2, <2>1, PreserveGood
  <2>5. Good(Resumed(x, x.run, after)) /\ Calm(Resumed(x, x.run, after))
    BY <1>0, <2>1, <2>2, ResumedGood
  <2> QED
    BY <1>5, <2>3, <2>4, <2>5
<1>11. CASE ResumeThread(x)
  <2>1. client' = GiveUp(c) \/ \E r \in ActiveRun : client' = Preserve(c, r, c.seq)
                                                 \/ client' = Resumed(x, r, 0)
    BY <1>11 DEF ResumeThread, c
  <2>2. ASSUME NEW r \in ActiveRun, client' = Preserve(c, r, c.seq) \/ client' = Resumed(x, r, 0)
        PROVE  Good(client') /\ Calm(client')
    <3>1. r \in Runs
      BY DEF ActiveRun, Created
    <3>2. Good(Preserve(c, r, c.seq)) /\ Calm(Preserve(c, r, c.seq))
      BY <1>1, <1>2, <3>1, PreserveGood
    <3>3. Good(Resumed(x, r, 0)) /\ Calm(Resumed(x, r, 0))
      BY <1>0, <3>1, ResumedGood, RunsFacts
    <3> QED
      BY <2>2, <3>2, <3>3
  <2> QED
    BY <1>7, <2>1, <2>2
<1>12. CASE ResumeFails(x)
  <2>1. client' = restorePendingInterrupt(c) \/ client' = Await(cs, "thread", NoSnap)
        \/ client' = GiveUp(c)
    BY <1>12 DEF ResumeFails, c, cs
  <2> QED
    BY <1>5, <1>6, <1>7, <2>1
<1> QED
  BY <1>8, <1>9, <1>10, <1>11, <1>12

LEMMA AwayGood ==
    ASSUME NEW c, Good(c), NEW b \in BOOLEAN
    PROVE  Good([c EXCEPT !.away = b]) /\ [c EXCEPT !.away = b].dead = c.dead
<1> DEFINE e == [c EXCEPT !.away = b]
<1>1. e \in Wide /\ e.sub = c.sub /\ e.snap = c.snap /\ e.resumes = c.resumes
      /\ e.active = c.active /\ e.seq = c.seq /\ e.dead = c.dead
  BY DEF Good, Wide
<1> QED
  BY <1>1 DEF Good, Agrees

LEMMA BeginGood ==
    ASSUME NEW c, Good(c), Calm(c)
    PROVE  Good(Begin(c)) /\ Calm(Begin(c))
<1>1. NoSnap \in Snaps
  BY RunsFacts DEF NoSnap, Snaps
<1>2. Good(Await(c, "begin", NoSnap)) /\ Await(c, "begin", NoSnap).dead = c.dead
  BY <1>1, AwaitGood
<1> QED
  BY <1>2, CalmKept DEF Begin

\* The answer to a message or a reply.
LEMMA AnswerSteps ==
    ASSUME IInv, NEW r \in client.awaiting, Response(r) \/ NotCreated(r)
    PROVE  Good(client') /\ Calm(client')
<1> DEFINE c == Arrived(r)
<1>0. Good(client) /\ Calm(client) /\ r \in Runs
  BY DEF IInv, Good, Wide
<1>1. Good([client EXCEPT !.awaiting = client.awaiting \ {r}])
  BY <1>0, DropGood
<1>2. Good(c) /\ c.dead = client.dead
  BY <1>0, <1>1 DEF Arrived, Good, Wide
<1>3. parent[r] \in 0..MaxRuns
  BY <1>0 DEF IInv, ServerOK
<1>4. CASE Response(r)
  <2>1. client' = Unwound(startRunStream(c, r, 0, FALSE))
    BY <1>4 DEF Response
  <2> HIDE DEF c
  <2>2. Good(startRunStream(c, r, 0, FALSE))
    BY <1>0, <1>2, StartGood, RunsFacts
  <2> QED
    BY <2>1, <2>2, UnwoundGood
<1>5. CASE NotCreated(r)
  <2> DEFINE q == [c EXCEPT !.streaming = FALSE]
             e == [c EXCEPT !.streaming = FALSE, !.pending = parent[r]]
  <2>1. client' = Unwound(resetOnGoingConv(q)) \/ client' = e
    BY <1>5 DEF NotCreated
  <2> HIDE DEF c
  <2>2. Good(q)
    BY <1>2, ForgetGood, RunsFacts
  <2>3. Good(Unwound(resetOnGoingConv(q))) /\ Calm(Unwound(resetOnGoingConv(q)))
    BY <2>2, ResetGood, UnwoundGood
  <2>4. e \in Wide /\ e.sub = c.sub /\ e.snap = c.snap /\ e.resumes = c.resumes
        /\ e.active = c.active /\ e.seq = c.seq /\ e.dead = c.dead
    BY <1>2, <1>3 DEF Good, Wide
  <2>5. Good(e) /\ Calm(e)
    BY <1>0, <1>2, <2>4 DEF Good, Agrees, Calm
  <2> QED
    BY <2>1, <2>3, <2>5
<1> QED
  BY <1>4, <1>5

LEMMA UserSteps == IInv /\ UserNext => IInv'
<1> SUFFICES ASSUME IInv, UserNext PROVE IInv'
  OBVIOUS
<1>0. Good(client) /\ Calm(client) /\ ServerOK
  BY DEF IInv
<1>1. CASE Leave
  <2> DEFINE b == stopRunStreamSubscription(client)
  <2>1. Good([b EXCEPT !.away = TRUE])
    BY <1>0, StopGood, AwayGood
  <2>2. Good(client') /\ Calm(client')
    BY <1>1, <2>1, UnwoundGood DEF Leave
  <2> QED
    BY <1>0, <1>1, <2>2, ServerKept DEF IInv, Leave
<1>2. CASE Return
  <2> DEFINE b == [client EXCEPT !.away = FALSE]
  <2>1. Good(b) /\ Calm(b)
    BY <1>0, AwayGood, CalmKept
  <2>2. Good(restorePendingInterrupt(b)) /\ Calm(restorePendingInterrupt(b))
    BY <2>1, RestoreGood, CalmKept
  <2>3. Good(client') /\ Calm(client')
    BY <1>2, <2>2, BeginGood DEF Return
  <2> QED
    BY <1>0, <1>2, <2>3, ServerKept DEF IInv, Return
<1>3. CASE Refocus
  <2>1. Good(client') /\ Calm(client')
    BY <1>0, <1>3, BeginGood DEF Refocus
  <2> QED
    BY <1>0, <1>3, <2>1, ServerKept DEF IInv, Refocus
<1>4. CASE Reload
  <2>1. client.snap \in Snaps /\ Named(client.snap)
    BY <1>0 DEF Good, Wide
  <2>2. Good(client') /\ Calm(client')
    BY <1>4, <2>1, FreshGood DEF Reload
  <2> QED
    BY <1>0, <1>4, <2>2, ServerKept DEF IInv, Reload
<1>5. CASE StopRun
  <2>1. client' = [client EXCEPT !.pending = 0] /\ ClientStep
    BY <1>5 DEF StopRun
  <2>2. Good(client') /\ client'.dead = client.dead
    <3>1. Good([client EXCEPT !.pending = 0])
      BY <1>0, ForgetGood, RunsFacts
    <3> QED
      BY <1>0, <2>1, <3>1 DEF Good, Wide
  <2> QED
    BY <1>0, <2>1, <2>2, ServerKept, CalmKept DEF IInv
<1>6. ASSUME NEW r \in Runs, NEW p \in 0..MaxRuns, Asking(r, p, [client EXCEPT !.pending = 0])
      PROVE  IInv'
  <2> DEFINE b == resetOnGoingConv([client EXCEPT !.pending = 0])
             h == p = 0
             e == [b EXCEPT !.streaming = TRUE, !.human = h, !.awaiting = @ \cup {r}]
  <2>1. Good([client EXCEPT !.pending = 0])
    BY <1>0, ForgetGood, RunsFacts
  <2>2. Good(b)
    BY <2>1, ResetGood
  <2>3. h \in BOOLEAN
    OBVIOUS
  <2>4. client' = Unwound(e)
    BY <1>6 DEF Asking
  <2> HIDE DEF b, h
  <2>5. e \in Wide /\ e.sub = b.sub /\ e.snap = b.snap /\ e.resumes = b.resumes
        /\ e.active = b.active /\ e.seq = b.seq /\ e.dead = b.dead
    BY <1>6, <2>2, <2>3 DEF Good, Wide
  <2>6. Good(e)
    BY <2>2, <2>5 DEF Good, Agrees
  <2>7. Good(client') /\ Calm(client')
    BY <2>4, <2>6, UnwoundGood
  <2>8. ServerOK'
    BY <1>0, <1>6 DEF ServerOK, Asking
  <2> QED
    BY <2>7, <2>8 DEF IInv
<1>7. ASSUME NEW r \in Runs, Send(r) \/ Reply(r) PROVE IInv'
  <2>1. 0 \in 0..MaxRuns /\ client.pending \in 0..MaxRuns
    BY <1>0, RunsFacts DEF Good, Wide
  <2> QED
    BY <1>6, <1>7, <2>1 DEF Send, Reply
<1> QED
  BY <1>1, <1>2, <1>3, <1>4, <1>5, <1>7 DEF UserNext

LEMMA Inductive == IInv /\ [Next]_vars => IInv'
<1> SUFFICES ASSUME IInv, [Next]_vars PROVE IInv'
  OBVIOUS
<1>0. ServerOK
  BY DEF IInv
<1>1. CASE ServerNext
  BY <1>1, ServerSteps
<1>2. CASE UserNext
  BY <1>2, UserSteps
<1>3. CASE UNCHANGED vars
  BY <1>3 DEF IInv, vars, serverVars, ServerOK
<1>4. CASE StreamNext \/ FaultNext
  <2>1. Good(client') /\ Calm(client')
    <3>1. CASE Deliver \/ Close \/ TimesOut \/ Unavailable \/ Breaks
               \/ CheckAnswered \/ CheckFails \/ Preserved
      BY <3>1, SubscriptionSteps
    <3>2. CASE \/ \E d \in client.dead : LateAnswer(d) \/ LateFailure(d) \/ Unwind(d)
               \/ \E r \in client.timers : Reconnect(r)
               \/ \E f \in client.resets : LateReset(f)
      BY <3>2, LateSteps
    <3>3. CASE \E x \in client.resumes :
                 BeginResume(x) \/ ResumeLive(x) \/ ResumeSnapshot(x) \/ ResumeThread(x)
                 \/ ResumeFails(x)
      BY <3>3, ResumeSteps
    <3>4. CASE \E r \in client.awaiting : Response(r) \/ NotCreated(r)
      BY <3>4, AnswerSteps
    <3> QED
      BY <1>4, <3>1, <3>2, <3>3, <3>4 DEF StreamNext, FaultNext, Refused, CreateFails
  <2>2. ServerOK'
    <3>1. CASE ClientStep \/ Trouble \/ \E rs : Heeds(rs)
      BY <1>0, <3>1, ServerKept
    <3>2. ASSUME NEW r \in client.awaiting, Refused(r) \/ CreateFails(r) PROVE ServerOK'
      <4>1. overtaken' \in BOOLEAN
        BY <3>2 DEF Refused, CreateFails, NotCreated
      <4>2. UNCHANGED serverVars /\ troubles' \in Nat
        BY <1>0, <3>2 DEF Refused, CreateFails, InTrouble, ServerOK, serverVars
      <4> QED
        BY <1>0, <4>1, <4>2 DEF ServerOK, serverVars
    <3>4. ASSUME CheckAnswered \/ \E d \in client.dead : LateFailure(d) PROVE ServerOK'
      <4>1. overtaken' \in BOOLEAN /\ UNCHANGED <<serverVars, troubles>>
        BY <3>4 DEF LateFailure, CheckAnswered
      <4> QED
        BY <1>0, <4>1 DEF ServerOK, serverVars
    <3>3. \/ ClientStep \/ Trouble \/ \E rs : Heeds(rs)
          \/ \E r \in client.awaiting : Refused(r) \/ CreateFails(r)
          \/ CheckAnswered \/ \E d \in client.dead : LateFailure(d)
      <4>1. CASE StreamNext
        BY <4>1 DEF StreamNext, Deliver, Close, Preserved, LateAnswer, Unwind,
                    Reconnect, LateReset, BeginResume, ResumeLive, ResumeSnapshot, ResumeThread,
                    Response
      <4>2. CASE FaultNext
        BY <4>2 DEF FaultNext, TimesOut, Unavailable, Breaks, CheckFails, ResumeFails
      <4> QED
        BY <1>4, <4>1, <4>2
    <3> QED
      BY <3>1, <3>2, <3>3, <3>4
  <2> QED
    BY <2>1, <2>2 DEF IInv
<1> QED
  BY <1>1, <1>2, <1>3, <1>4 DEF Next
-----------------------------------------------------------------------------
(* What follows.                                                           *)

LEMMA Invariance == Spec => []IInv
<1>1. Init => IInv
  BY Initially
<1>2. IInv /\ [Next]_vars => IInv'
  BY Inductive
<1> QED
  BY <1>1, <1>2, PTL DEF Spec

\* The types of the page, in particular: no aborted invocation outlives the
\* code that aborted it, and the thread has one live invocation or none.
THEOREM TypeCorrect == Spec => []TypeOK
<1>1. IInv => TypeOK
  <2> SUFFICES ASSUME IInv PROVE TypeOK
    OBVIOUS
  <2>1. client \in Wide /\ \A d \in client.dead : d \in WideDead /\ d.phase # "aborted"
    BY DEF IInv, Good, Calm, Wide
  <2>2. client.dead \in SUBSET Dead
    BY <2>1 DEF WideDead, Dead
  <2>3. client \in Client
    BY <2>1, <2>2 DEF Client, Wide
  <2>4. client.sub = NoSub <=> client.sub.phase = "none"
    BY NoSubFacts DEF IInv, Good, Subscribed
  <2> QED
    BY <2>3, <2>4 DEF IInv, ServerOK, TypeOK
<1> QED
  BY <1>1, Invariance, PTL

\* However many continuations cross, the snapshot a reload would start from is
\* that of the run the page follows, at the event it has got to.
THEOREM SnapshotNamesTheRun == Spec => []SnapshotAgrees
<1>1. IInv => SnapshotAgrees
  BY DEF IInv, Good, Agrees, SnapshotAgrees
<1> QED
  BY <1>1, Invariance, PTL

-----------------------------------------------------------------------------
(* Which functions let go of the run the page follows.                     *)

\* Most leave activeRunId alone.
LEMMA ActiveLeft ==
    ASSUME NEW c, Good(c)
    PROVE  /\ stopRunStreamSubscription(c).active = c.active
           /\ resetOnGoingConv(c).active = c.active
           /\ restorePendingInterrupt(c).active = c.active
           /\ \A r : scheduleRunReconnect(c, r).active = c.active
           /\ \A back : Finally(c, back).active = c.active
           /\ Finished(c).active = c.active
           /\ Unwound(c).active = c.active
           /\ \A step, n : Await(c, step, n).active = c.active
           /\ Closing(c).active = c.active
<1> USE DEF Good, Wide
<1>1. stopRunStreamSubscription(c).active = c.active
  BY DEF stopRunStreamSubscription
<1>2. resetOnGoingConv(c).active = c.active
  <2> DEFINE b == stopRunStreamSubscription(c)
  <2>1. Good(b)
    BY StopGood
  <2> HIDE DEF b
  <2>2. [b EXCEPT !.chunks = <<>>, !.human = FALSE].active = b.active
    BY <2>1
  <2> QED
    BY <1>1, <2>2 DEF resetOnGoingConv, b
<1>3. restorePendingInterrupt(c).active = c.active
  BY DEF restorePendingInterrupt
<1>4. \A r : scheduleRunReconnect(c, r).active = c.active
  BY DEF scheduleRunReconnect
<1>5. ASSUME NEW e, e \in Wide, NEW back PROVE Finally(e, back).active = e.active
  BY <1>5 DEF Finally
<1>6. Finished(c).active = c.active
  <2> DEFINE e == [c EXCEPT !.sub = NoSub]
  <2>1. NoSub \in [run : 0..MaxRuns, phase : {"none", "read", "check", "preserve"}, pos : Nat,
                   saw : BOOLEAN, back : BOOLEAN]
    BY RunsFacts DEF NoSub
  <2>2. e \in Wide /\ e.active = c.active
    BY <2>1
  <2> HIDE DEF e
  <2>3. Finally(e, c.sub.back).active = e.active
    BY <1>5, <2>2
  <2> QED
    BY <2>2, <2>3 DEF Finished, e
<1>7. Unwound(c).active = c.active
  <2> DEFINE gone == {d \in c.dead : d.phase = "aborted"}
             e == [c EXCEPT !.dead = @ \ gone]
             back == \E d \in gone : d.back
  <2>1. e \in Wide /\ e.active = c.active
    OBVIOUS
  <2>2. Unwound(c) = IF gone = {} THEN c ELSE Finally(e, back)
    BY DEF Unwound
  <2> HIDE DEF e, gone, back
  <2>3. Finally(e, back).active = e.active
    BY <1>5, <2>1
  <2> QED
    BY <2>1, <2>2, <2>3
<1>8. \A step, n : Await(c, step, n).active = c.active
  BY DEF Await
<1>9. Closing(c).active = c.active
  BY <1>6 DEF Closing
<1> QED
  BY <1>1, <1>2, <1>3, <1>4, <1>5, <1>6, <1>7, <1>8, <1>9

\* Some take another run.
LEMMA ActiveTaken ==
    ASSUME NEW c, Good(c), NEW r \in Runs, NEW n \in Nat
    PROVE  /\ \A back \in BOOLEAN : startRunStream(c, r, n, back).active = r
           /\ preserveInterruptedRun(c, r, n).active = r
           /\ Preserve(c, r, n).active = r
<1> DEFINE b == stopRunStreamSubscription(c)
           p == preserveInterruptedRun(c, r, n)
<1>1. b \in Wide
  BY StopGood DEF Good
<1> HIDE DEF b
<1>2. \A back \in BOOLEAN : startRunStream(c, r, n, back).active = r
  BY <1>1 DEF startRunStream, b, Wide
<1>3. p.active = r
  BY DEF preserveInterruptedRun, Good, Wide
<1>4. p \in Wide
  BY PreserveInterruptedGood DEF Good
<1> HIDE DEF p
<1>5. Preserve(c, r, n).active = p.active
  BY <1>4 DEF Preserve, p, Wide
<1> QED
  BY <1>2, <1>3, <1>5 DEF p

\* A closed stream lets go of its run only if the row has ended.
LEMMA CheckedActive ==
    ASSUME NEW c, Good(c), NEW q \in Runs, NEW st, c.active \in Runs,
           c.active = q => st \notin Over \cup {"interrupted"}
    PROVE  Checked(c, q, st).active # 0
<1>1. c.seq \in Nat /\ c.active # 0
  BY RunsFacts DEF Good, Wide
<1>2. CASE c.active = q
  BY <1>1, <1>2, ActiveLeft DEF Checked
<1>3. CASE c.active # q
  <2>1. finalizeRunStream(c, q, st) = c
    BY <1>3 DEF finalizeRunStream
  <2>2. preserveInterruptedRun(c, q, c.seq).active = q /\ q # 0
    BY <1>1, ActiveTaken, RunsFacts
  <2> QED
    BY <1>1, <2>1, <2>2, ActiveLeft DEF Checked
<1> QED
  BY <1>2, <1>3

\* A run that goes on and whose stream has not closed, as the page follows it.
Followed == client.active \in Runs /\ status[client.active] = "running" /\ ~Closed(client.active)

Excused == overtaken' \/ troubles' > troubles

LEMMA Excuses ==
    ASSUME IInv, client.active \in Runs
    PROVE  /\ InTrouble => Excused
           /\ \A rs : Heeds(rs) /\ client.active \notin rs => Excused
           /\ Heeds({0}) => Excused
<1>1. troubles \in Nat
  BY DEF IInv, ServerOK
<1>2. InTrouble => Excused
  BY <1>1 DEF InTrouble, Excused
<1>3. client.active \notin {0}
  BY RunsFacts
<1> QED
  BY <1>2, <1>3 DEF Heeds, Excused

\* Before the stream closes, an event only adds to what the page shows.
LEMMA EventsAdd ==
    ASSUME NEW c, Good(c), NEW id \in Nat, NEW st, NEW k \in {"chunk", "retry"}
    PROVE  Receive(c, k, id, st).active = c.active
<1> DEFINE r == c.sub.run
           d == IF id = 0 THEN c ELSE [c EXCEPT !.seq = id, !.snap = [run |-> r, seq |-> id]]
<1>1. d.active = c.active /\ [d EXCEPT !.chunks = Append(@, <<r, id>>)].active = d.active
  BY DEF Good, Wide
<1>2. Handled(c, k, id, st) = d \/ Handled(c, k, id, st) = [d EXCEPT !.chunks = Append(@, <<r, id>>)]
  BY DEF Handled
<1> QED
  BY <1>1, <1>2 DEF Receive

LEMMA SightOfStream ==
    ASSUME IInv, Followed,
           Deliver \/ Close \/ TimesOut \/ Unavailable \/ Breaks
           \/ CheckAnswered \/ CheckFails \/ Preserved
    PROVE  client'.active # 0 \/ Excused
<1> DEFINE s == client.sub
<1>0. Good(client) /\ client.active \in Runs /\ client.active # 0
  BY RunsFacts DEF IInv, Followed
<1>1. CASE TimesOut \/ Unavailable \/ Breaks \/ CheckFails
  BY <1>0, <1>1, Excuses DEF TimesOut, Unavailable, Breaks, CheckFails, Trouble
<1>2. CASE Deliver
  <2> DEFINE p == s.pos + 1
             c == [client EXCEPT !.sub.pos = p]
             k == log[s.run][p]
  <2>1. s.pos \in Nat /\ s.run \in Runs /\ s.pos < Len(log[s.run])
    BY <1>0, <1>2, Following DEF Deliver, Reading
  <2>2. log[s.run] \in Seq(AllKinds \cup {"end"})
    BY <2>1 DEF IInv, ServerOK
  <2>3. p \in DOMAIN log[s.run] /\ p \in Nat /\ k \in AllKinds \cup {"end"}
    BY <2>1, <2>2, LenProperties, ElementOfSeq
  <2>4. client' = Receive(c, k, p, status[s.run])
    BY <1>2 DEF Deliver
  <2>5. c.active = client.active /\ c.sub.run = s.run
    BY <1>0 DEF Good, Wide
  <2>6. Good(c)
    <3> HIDE DEF p
    <3>1. c \in Wide /\ c.sub = [client.sub EXCEPT !.pos = p] /\ c.snap = client.snap
          /\ c.resumes = client.resumes /\ c.seq = client.seq
      BY <1>0, <2>3 DEF Good, Wide
    <3>2. Subscribed(c.sub)
      BY <1>0, <1>2, <3>1, Following DEF Subscribed, Good, Wide, Deliver, Reading
    <3> QED
      BY <1>0, <2>5, <3>1, <3>2 DEF Good, Agrees
  <2>7. CASE s.run = client.active
    <3>1. k \in {"chunk", "retry"}
      BY <2>3, <2>7 DEF Followed, Closed, AllKinds
    <3> HIDE DEF c, k, p
    <3>2. client'.active = c.active
      BY <2>3, <2>4, <2>6, <3>1, EventsAdd
    <3> QED
      BY <1>0, <2>5, <3>2
  <2>8. CASE s.run # client.active
    <3> HIDE DEF c, k, p
    <3>1. client' = c
      BY <2>4, <2>5, <2>8 DEF Receive
    <3> QED
      BY <1>0, <2>5, <3>1
  <2> QED
    BY <2>7, <2>8
<1>3. CASE Close
  <2>1. s.run # client.active
    BY <1>3 DEF Close, Ended, Over, Followed
  <2>2. Receive(client, "rowEnd", s.pos, status[s.run]) = client
    BY <2>1 DEF Receive
  <2>3. client' = Closing(client)
    BY <1>3, <2>2 DEF Close
  <2> QED
    BY <1>0, <2>3, ActiveLeft
<1>4. CASE CheckAnswered
  <2> DEFINE c == Checked(client, s.run, status[s.run])
  <2>1. s.run \in Runs
    BY <1>0, <1>4, Following DEF CheckAnswered, Checking
  <2>2. Good(c)
    BY <1>0, <2>1, CheckedGood
  <2>3. c.active # 0
    BY <1>0, <2>1, CheckedActive DEF Followed, Over
  <2>4. client' = [c EXCEPT !.sub.phase = "preserve"] \/ client' = Finished(c)
    BY <1>4 DEF CheckAnswered, Check
  <2> HIDE DEF c
  <2>5. [c EXCEPT !.sub.phase = "preserve"].active = c.active
    BY <2>2 DEF Good, Wide
  <2> QED
    BY <2>2, <2>3, <2>4, <2>5, ActiveLeft
<1>5. CASE Preserved
  <2>1. client' = Finished(restorePendingInterrupt(client))
    BY <1>5 DEF Preserved
  <2> QED
    BY <1>0, <2>1, RestoreGood, ActiveLeft
<1> QED
  BY <1>1, <1>2, <1>3, <1>4, <1>5

LEMMA SightOfTheLate ==
    ASSUME IInv, Followed,
           \/ \E d \in client.dead : LateAnswer(d) \/ LateFailure(d) \/ Unwind(d)
           \/ \E r \in client.timers : Reconnect(r)
           \/ \E f \in client.resets : LateReset(f)
    PROVE  client'.active # 0
<1>0. Good(client) /\ client.active \in Runs /\ client.active # 0
  BY RunsFacts DEF IInv, Followed
<1>1. ASSUME NEW d \in client.dead
      PROVE  d.run \in Runs /\ Good(Bury(d)) /\ Bury(d).active = client.active
  <2>1. d \in WideDead
    BY <1>0 DEF Good, Wide
  <2>2. Good([client EXCEPT !.dead = client.dead \ {d}])
    BY <1>0, DropGood
  <2>3. Bury(d).active = client.active
    BY <1>0 DEF Bury, Good, Wide
  <2> QED
    BY <2>1, <2>2, <2>3 DEF Bury, WideDead
<1>2. ASSUME NEW d \in client.dead, NEW st, LateCheck(d, st),
             client.active = d.run => st \notin Over \cup {"interrupted"}
      PROVE  client'.active # 0
  <2> DEFINE c == Checked(Bury(d), d.run, st)
             g == [d EXCEPT !.phase = "preserve"]
  <2>1. Good(c)
    BY <1>1, CheckedGood
  <2>2. c.active # 0
    BY <1>0, <1>1, <1>2, CheckedActive
  <2>3. client' = [c EXCEPT !.dead = @ \cup {g}] \/ client' = Finally(c, d.back)
    BY <1>2 DEF LateCheck
  <2> HIDE DEF c, g
  <2>4. [c EXCEPT !.dead = @ \cup {g}].active = c.active
    BY <2>1 DEF Good, Wide
  <2>5. Finally(c, d.back).active = c.active
    BY <2>1, ActiveLeft
  <2> QED
    BY <2>2, <2>3, <2>4, <2>5
<1>3. ASSUME NEW d \in client.dead, LateAnswer(d) \/ LateFailure(d) PROVE client'.active # 0
  <2>1. status[client.active] \notin Over \cup {"interrupted"}
        /\ "unknown" \notin Over \cup {"interrupted"}
    BY DEF Followed, Over
  <2> QED
    BY <1>2, <1>3, <2>1 DEF LateAnswer, LateFailure
<1>4. ASSUME NEW d \in client.dead, Unwind(d) PROVE client'.active # 0
  <2> DEFINE c == restorePendingInterrupt(Bury(d))
  <2>1. Good(c) /\ c.active = client.active
    BY <1>1, RestoreGood, ActiveLeft
  <2>2. client' = c \/ client' = Finally(c, d.back)
    BY <1>4 DEF Unwind
  <2> HIDE DEF c
  <2> QED
    BY <1>0, <2>1, <2>2, ActiveLeft
<1>5. ASSUME NEW r \in client.timers, Reconnect(r) PROVE client'.active # 0
  <2> DEFINE c == [client EXCEPT !.timers = @ \ {r}]
  <2>1. Good([client EXCEPT !.timers = client.timers \ {r}])
    BY <1>0, DropGood
  <2>2. Good(c) /\ c.active = client.active /\ c.seq \in Nat /\ r \in Runs
    BY <1>0, <2>1 DEF Good, Wide
  <2>3. client' = c \/ client' = startRunStream(c, r, c.seq, FALSE)
    BY <1>5 DEF Reconnect
  <2> HIDE DEF c
  <2>4. startRunStream(c, r, c.seq, FALSE).active = r /\ r # 0
    BY <2>2, ActiveTaken, RunsFacts
  <2> QED
    BY <1>0, <2>2, <2>3, <2>4
<1>6. ASSUME NEW f \in client.resets, LateReset(f) PROVE client'.active # 0
  <2> DEFINE b == [client EXCEPT !.resets = @ \ {f}]
             c == resetOnGoingConv(b)
  <2>1. Good([client EXCEPT !.resets = client.resets \ {f}])
    BY <1>0, DropGood
  <2>2. Good(b) /\ b.active = client.active
    BY <1>0, <2>1 DEF Good, Wide
  <2>3. client' = Unwound(c) \/ client' = Unwound(restorePendingInterrupt(c))
    BY <1>6 DEF LateReset
  <2> HIDE DEF b
  <2>4. Good(c) /\ c.active = client.active
    BY <2>2, ResetGood, ActiveLeft
  <2> HIDE DEF c
  <2> QED
    BY <1>0, <2>3, <2>4, RestoreGood, ActiveLeft
<1> QED
  BY <1>3, <1>4, <1>5, <1>6

LEMMA SightOfResumption ==
    ASSUME IInv, Followed, NEW x \in client.resumes,
           BeginResume(x) \/ ResumeLive(x) \/ ResumeSnapshot(x) \/ ResumeThread(x)
           \/ ResumeFails(x)
    PROVE  client'.active # 0 \/ Excused
<1> DEFINE c == Answered(x)
           cs == [c EXCEPT !.snap = NoSnap]
<1>0. Good(client) /\ client.active \in Runs /\ client.active # 0
  BY RunsFacts DEF IInv, Followed
<1>1. /\ Good(c) /\ c.active = client.active /\ c.seq \in Nat /\ x.seq \in Nat
      /\ x.step \in {"live", "snapshot"} => x.run \in Runs
  BY <1>0, AnsweredGood DEF Good, Wide, Answered
<1>2. Good(cs) /\ cs.active = client.active
  <2>1. Good(cs)
    BY <1>1, ForgetGood, RunsFacts
  <2> QED
    BY <1>1, <2>1 DEF Good, Wide
<1>3. /\ restorePendingInterrupt(c).active = client.active
      /\ \A step, n : Await(c, step, n).active = client.active
      /\ \A step, n : Await(cs, step, n).active = client.active
  <2> HIDE DEF c, cs
  <2> QED
    BY <1>1, <1>2, ActiveLeft
<1>4. ASSUME NEW r \in Runs, NEW after \in Nat PROVE Resumed(x, r, after).active = r
  <2> DEFINE b == IF after = 0 THEN resetOnGoingConv(c) ELSE c
  <2>1. Good(b)
    BY <1>1, ResetGood
  <2>2. Resumed(x, r, after) = Unwound(startRunStream(b, r, after, TRUE))
    BY DEF Resumed
  <2> HIDE DEF b
  <2> DEFINE e == startRunStream(b, r, after, TRUE)
  <2>3. Good(e) /\ e.active = r
    BY <2>1, StartGood, ActiveTaken
  <2> HIDE DEF e
  <2>4. Unwound(e).active = e.active
    BY <2>3, ActiveLeft
  <2> QED
    BY <2>2, <2>3, <2>4 DEF e
<1> HIDE DEF c, cs
<1>5. CASE BeginResume(x)
  <2>1. CASE Trouble
    BY <1>0, <2>1, Excuses DEF Trouble
  <2>2. CASE ~Trouble
    <3>1. \/ client' = restorePendingInterrupt(c)
          \/ \E step, n : client' = Await(c, step, n)
      BY <1>5, <2>2 DEF BeginResume, c
    <3> QED
      BY <1>0, <1>3, <3>1
  <2> QED
    BY <2>1, <2>2
<1>6. CASE ResumeLive(x)
  <2> DEFINE b == stopRunStreamSubscription(c)
             n == IF b.snap = NoSnap THEN b.seq ELSE b.snap.seq
  <2>1. x.run \in Runs /\ Heeds({x.run})
    BY <1>1, <1>6 DEF ResumeLive
  <2>2. CASE client.active # x.run
    BY <1>0, <2>1, <2>2, Excuses
  <2>3. CASE client.active = x.run
    <3>1. client' = restorePendingInterrupt(c)
      BY <1>6, <2>3 DEF ResumeLive, Followed, Over, c
    <3> QED
      BY <1>0, <1>3, <3>1
  <2> QED
    BY <2>2, <2>3
<1>7. CASE ResumeSnapshot(x)
  <2> DEFINE after == resolveRunResumeAfterSeq(c, x.run)
  <2>1. x.run \in Runs /\ x.run # 0
    BY <1>1, <1>7, RunsFacts DEF ResumeSnapshot
  <2>2. after \in Nat
    BY <1>1, RunsFacts DEF resolveRunResumeAfterSeq
  <2>3. client' = Preserve(c, x.run, x.seq) \/ client' = Resumed(x, x.run, after)
        \/ client' = Await(cs, "thread", NoSnap)
    BY <1>7 DEF ResumeSnapshot, c, cs
  <2>4. Preserve(c, x.run, x.seq).active = x.run
    BY <1>1, <2>1, ActiveTaken
  <2> HIDE DEF after
  <2> QED
    BY <1>0, <1>3, <1>4, <2>1, <2>2, <2>3, <2>4
<1>8. CASE ResumeThread(x)
  <2>1. CASE Heeds({0})
    BY <1>0, <2>1, Excuses
  <2>2. ASSUME NEW r \in ActiveRun, client' = Preserve(c, r, c.seq) \/ client' = Resumed(x, r, 0)
        PROVE  client'.active # 0
    <3>1. r \in Runs /\ r # 0
      BY RunsFacts DEF ActiveRun, Created
    <3>2. Preserve(c, r, c.seq).active = r
      BY <1>1, <3>1, ActiveTaken
    <3> QED
      BY <1>4, <2>2, <3>1, <3>2, RunsFacts
  <2>3. Heeds({0}) \/ \E r \in ActiveRun : client' = Preserve(c, r, c.seq)
                                         \/ client' = Resumed(x, r, 0)
    BY <1>8 DEF ResumeThread, c
  <2> QED
    BY <2>1, <2>2, <2>3
<1>9. CASE ResumeFails(x)
  <2>1. \/ client' = restorePendingInterrupt(c)
        \/ client' = Await(cs, "thread", NoSnap)
        \/ Heeds({0})
    BY <1>9 DEF ResumeFails, c, cs
  <2> QED
    BY <1>0, <1>3, <2>1, Excuses
<1> QED
  BY <1>5, <1>6, <1>7, <1>8, <1>9

LEMMA SightOfAnswer ==
    ASSUME IInv, Followed, NEW r \in client.awaiting, Response(r) \/ NotCreated(r)
    PROVE  client'.active # 0
<1> DEFINE c == Arrived(r)
           q == [c EXCEPT !.streaming = FALSE]
           e == [c EXCEPT !.streaming = FALSE, !.pending = parent[r]]
<1>0. Good(client) /\ client.active # 0 /\ r \in Runs /\ r # 0
  BY RunsFacts DEF IInv, Followed, Good, Wide
<1>1. Good([client EXCEPT !.awaiting = client.awaiting \ {r}])
  BY <1>0, DropGood
<1>2. Good(c) /\ c.active = client.active
  BY <1>0, <1>1 DEF Arrived, Good, Wide
<1> HIDE DEF c
<1>3. CASE Response(r)
  <2>1. client' = Unwound(startRunStream(c, r, 0, FALSE))
    BY <1>3 DEF Response, c
  <2>2. Good(startRunStream(c, r, 0, FALSE)) /\ startRunStream(c, r, 0, FALSE).active = r
    BY <1>0, <1>2, StartGood, ActiveTaken, RunsFacts
  <2> QED
    BY <1>0, <2>1, <2>2, ActiveLeft
<1>4. CASE NotCreated(r)
  <2>1. client' = Unwound(resetOnGoingConv(q)) \/ client' = e
    BY <1>4 DEF NotCreated, c
  <2>2. Good(q)
    BY <1>2, ForgetGood, RunsFacts
  <2>3. q.active = client.active /\ e.active = client.active
    BY <1>2 DEF Good, Wide
  <2> HIDE DEF q, e
  <2>4. Good(resetOnGoingConv(q)) /\ resetOnGoingConv(q).active = client.active
    BY <2>2, <2>3, ResetGood, ActiveLeft
  <2>5. Unwound(resetOnGoingConv(q)).active = client.active
    BY <2>4, ActiveLeft
  <2> QED
    BY <1>0, <2>1, <2>3, <2>5
<1> QED
  BY <1>3, <1>4

LEMMA SightOfUser == IInv /\ Followed /\ UserNext => client'.active # 0 \/ Excused
<1> SUFFICES ASSUME IInv, Followed, UserNext PROVE client'.active # 0 \/ Excused
  OBVIOUS
<1>0. Good(client) /\ client.active \in Runs /\ client.active # 0
  BY RunsFacts DEF IInv, Followed
<1>1. CASE Leave \/ Refocus \/ Reload
  BY <1>0, <1>1, Excuses DEF Leave, Refocus, Reload, Trouble
<1>2. CASE Return
  <2> DEFINE b == [client EXCEPT !.away = FALSE]
  <2>1. Good(b) /\ b.active = client.active
    BY <1>0, AwayGood DEF Good, Wide
  <2>2. client' = Begin(restorePendingInterrupt(b))
    BY <1>2 DEF Return
  <2> HIDE DEF b
  <2>3. Good(restorePendingInterrupt(b)) /\ restorePendingInterrupt(b).active = client.active
    BY <2>1, RestoreGood, ActiveLeft
  <2>4. client'.active = client.active
    BY <2>2, <2>3, ActiveLeft DEF Begin
  <2> QED
    BY <1>0, <2>4
<1>3. CASE StopRun
  BY <1>0, <1>3 DEF StopRun, Good, Wide
<1>4. ASSUME NEW r \in Runs, NEW p, Asking(r, p, [client EXCEPT !.pending = 0])
      PROVE  client'.active # 0
  <2> DEFINE a == [client EXCEPT !.pending = 0]
             b == resetOnGoingConv(a)
             h == p = 0
             e == [b EXCEPT !.streaming = TRUE, !.human = h, !.awaiting = @ \cup {r}]
  <2>1. Good(a) /\ a.active = client.active
    <3>1. Good(a)
      BY <1>0, ForgetGood, RunsFacts
    <3> QED
      BY <1>0, <3>1 DEF Good, Wide
  <2>2. client' = Unwound(e)
    BY <1>4 DEF Asking
  <2> HIDE DEF a
  <2>3. Good(b) /\ b.active = client.active
    BY <2>1, ResetGood, ActiveLeft
  <2>4. h \in BOOLEAN
    OBVIOUS
  <2> HIDE DEF b, h
  <2>5. e \in Wide /\ e.sub = b.sub /\ e.snap = b.snap /\ e.resumes = b.resumes
        /\ e.active = b.active /\ e.seq = b.seq
    BY <1>4, <2>3, <2>4 DEF Good, Wide
  <2>6. Good(e)
    BY <2>3, <2>5 DEF Good, Agrees
  <2> HIDE DEF e
  <2>7. Unwound(e).active = e.active
    BY <2>6, ActiveLeft
  <2> QED
    BY <1>0, <2>2, <2>3, <2>5, <2>7
<1>5. CASE \E r \in Runs : Send(r) \/ Reply(r)
  BY <1>4, <1>5 DEF Send, Reply
<1> QED
  BY <1>1, <1>2, <1>3, <1>5 DEF UserNext

\* Whatever crosses on the page, it does not let go of a run that goes on but
\* by a failure, a reload or a continuation that did not look.
THEOREM SightIsKept == Spec => SightKept
<1>1. ASSUME IInv, Followed, Next PROVE client'.active # 0 \/ Excused
  <2>1. CASE ServerNext
    <3>1. client' = client
      BY <2>1 DEF ServerNext, EndRow, AppendEnd, Create, Publish
    <3> QED
      BY <1>1, <3>1, RunsFacts DEF Followed
  <2>2. CASE UserNext
    BY <1>1, <2>2, SightOfUser
  <2>3. CASE Deliver \/ Close \/ TimesOut \/ Unavailable \/ Breaks
             \/ CheckAnswered \/ CheckFails \/ Preserved
    BY <1>1, <2>3, SightOfStream
  <2>4. CASE \/ \E d \in client.dead : LateAnswer(d) \/ LateFailure(d) \/ Unwind(d)
             \/ \E r \in client.timers : Reconnect(r)
             \/ \E f \in client.resets : LateReset(f)
    BY <1>1, <2>4, SightOfTheLate
  <2>5. CASE \E x \in client.resumes :
               BeginResume(x) \/ ResumeLive(x) \/ ResumeSnapshot(x) \/ ResumeThread(x)
               \/ ResumeFails(x)
    BY <1>1, <2>5, SightOfResumption
  <2>6. CASE \E r \in client.awaiting : Response(r) \/ NotCreated(r)
    BY <1>1, <2>6, SightOfAnswer
  <2> QED
    BY <1>1, <2>1, <2>2, <2>3, <2>4, <2>5, <2>6
       DEF Next, StreamNext, FaultNext, Refused, CreateFails
<1>2. IInv /\ [Next]_vars =>
        [\A r \in Runs :
           client.active = r /\ client'.active = 0 /\ status[r] = "running" /\ ~Closed(r)
              => overtaken' \/ troubles' > troubles]_vars
  BY <1>1 DEF Followed, Excused
<1> QED
  BY <1>2, Invariance, PTL DEF Spec, SightKept
-----------------------------------------------------------------------------
(* What the functions of the page leave as it is.                          *)

\* The runs an aborted invocation still looks into.
LateChecks(c) == {d.run : d \in {d \in c.dead : d.phase = "check"}}

\* What a function that neither takes nor lets go of a run leaves alone.
Beside(c, e) ==
    /\ e.chunks = c.chunks /\ e.human = c.human /\ e.awaiting = c.awaiting
    /\ e.away = c.away /\ e.resumes = c.resumes
Same(c, e) ==
    Beside(c, e) /\ e.active = c.active /\ e.seq = c.seq /\ e.resets = c.resets

\* Nothing but, perhaps, the spinner: it may be turned off.
Dim(c, e) ==
    /\ Same(c, e) /\ e.sub = c.sub /\ e.timers = c.timers /\ LateChecks(e) = LateChecks(c)
    /\ e.streaming => c.streaming

\* The stream is aborted, but its check goes on.
Abandoned(s) == {r \in {s.run} : s.phase = "check"}
Cut(c, e) ==
    /\ e.sub = NoSub /\ e.timers = c.timers
    /\ LateChecks(e) = LateChecks(c) \cup Abandoned(c.sub)

LEMMA DimOnward ==
    ASSUME NEW c, NEW d, NEW e, Dim(c, d), Dim(d, e)
    PROVE  Dim(c, e)
BY DEF Dim, Same, Beside

AfterStop(c, e) ==
    Same(c, e) /\ Cut(c, e) /\ e.streaming = c.streaming /\ e.pending = c.pending /\ e.snap = c.snap

LEMMA StopFields ==
    ASSUME NEW c, Good(c)
    PROVE  AfterStop(c, stopRunStreamSubscription(c))
<1>1. CASE c.sub = NoSub
  <2>1. Abandoned(c.sub) = {}
    BY <1>1, NoSubFacts DEF Abandoned
  <2> QED
    BY <1>1, <2>1 DEF stopRunStreamSubscription, Same, Beside, Cut, AfterStop
<1>2. CASE c.sub # NoSub
  <2> DEFINE e == [c EXCEPT !.sub = NoSub, !.dead = @ \cup {Orphan(c.sub)}]
  <2>1. e.sub = NoSub /\ e.timers = c.timers /\ e.dead = c.dead \cup {Orphan(c.sub)}
        /\ Same(c, e) /\ e.streaming = c.streaming /\ e.pending = c.pending /\ e.snap = c.snap
    BY DEF Good, Wide, Same, Beside
  <2>2. /\ Orphan(c.sub).run = c.sub.run
        /\ Orphan(c.sub).phase = "check" <=> c.sub.phase = "check"
    BY DEF Orphan
  <2> HIDE DEF e
  <2>3. LateChecks(e) = LateChecks(c) \cup Abandoned(c.sub)
    BY <2>1, <2>2 DEF LateChecks, Abandoned
  <2> QED
    BY <1>2, <2>1, <2>3 DEF stopRunStreamSubscription, Cut, AfterStop, e
<1> QED
  BY <1>1, <1>2

AfterReset(c, e) ==
    /\ Cut(c, e) /\ e.chunks = <<>> /\ e.human = FALSE
    /\ e.active = c.active /\ e.seq = c.seq /\ e.awaiting = c.awaiting /\ e.away = c.away
    /\ e.resumes = c.resumes /\ e.resets = c.resets /\ e.streaming = c.streaming
    /\ e.pending = c.pending

LEMMA ResetFields ==
    ASSUME NEW c, Good(c)
    PROVE  AfterReset(c, resetOnGoingConv(c))
<1> DEFINE b == stopRunStreamSubscription(c)
<1>1. Good(b) /\ Same(c, b) /\ Cut(c, b) /\ b.streaming = c.streaming /\ b.pending = c.pending
  BY StopGood, StopFields DEF AfterStop
<1> HIDE DEF b
<1> DEFINE e == [b EXCEPT !.chunks = <<>>, !.human = FALSE]
<1>2. /\ e.sub = b.sub /\ e.timers = b.timers /\ e.dead = b.dead /\ e.chunks = <<>>
      /\ e.human = FALSE /\ e.active = b.active /\ e.seq = b.seq /\ e.awaiting = b.awaiting
      /\ e.away = b.away /\ e.resumes = b.resumes /\ e.resets = b.resets
      /\ e.streaming = b.streaming /\ e.pending = b.pending
  BY <1>1 DEF Good, Wide
<1>3. e = resetOnGoingConv(c)
  BY DEF resetOnGoingConv, b
<1> HIDE DEF e
<1>4. LateChecks(e) = LateChecks(b)
  BY <1>2 DEF LateChecks
<1> QED
  BY <1>1, <1>2, <1>3, <1>4 DEF Same, Beside, Cut, AfterReset

AfterStart(c, e, r, n) ==
    /\ e.sub.run = r /\ e.sub.phase = "read" /\ e.sub.pos = n /\ e.sub.saw = FALSE
    /\ e.active = r /\ e.seq = n /\ e.streaming = TRUE /\ e.timers = c.timers
    /\ LateChecks(e) = LateChecks(c) \cup Abandoned(c.sub)
    /\ Beside(c, e) /\ e.resets = c.resets /\ e.pending = c.pending

LEMMA StartFields ==
    ASSUME NEW c, Good(c), NEW r \in Runs, NEW n \in Nat, NEW back \in BOOLEAN
    PROVE  AfterStart(c, startRunStream(c, r, n, back), r, n)
<1> DEFINE b == stopRunStreamSubscription(c)
           s == [run |-> r, phase |-> "read", pos |-> n, saw |-> FALSE, back |-> back]
           m == [run |-> r, seq |-> n]
<1>1. Good(b) /\ Same(c, b) /\ Cut(c, b) /\ b.pending = c.pending
  BY StopGood, StopFields DEF AfterStop
<1> HIDE DEF b, m
<1> DEFINE e == [b EXCEPT !.sub = s, !.active = r, !.seq = n, !.streaming = TRUE, !.snap = m]
<1>2. /\ e.sub = s /\ e.timers = b.timers /\ e.dead = b.dead /\ e.chunks = b.chunks
      /\ e.human = b.human /\ e.active = r /\ e.seq = n /\ e.awaiting = b.awaiting
      /\ e.away = b.away /\ e.resumes = b.resumes /\ e.resets = b.resets
      /\ e.streaming = TRUE /\ e.pending = b.pending
  <2> HIDE DEF s
  <2> QED
    BY <1>1 DEF Good, Wide
<1>3. e = startRunStream(c, r, n, back)
  BY DEF startRunStream, b, m
<1> HIDE DEF e
<1>4. LateChecks(e) = LateChecks(b)
  BY <1>2 DEF LateChecks
<1> QED
  BY <1>1, <1>2, <1>3, <1>4 DEF Same, Beside, Cut, AfterStart

\* The functions that end an invocation turn the spinner off, or leave it.
AfterFinish(c, e) ==
    /\ Same(c, e) /\ e.sub = NoSub /\ e.timers = c.timers
    /\ LateChecks(e) = LateChecks(c)
    /\ e.streaming => c.streaming

LEMMA DimFields ==
    ASSUME NEW c, Good(c)
    PROVE  /\ Dim(c, restorePendingInterrupt(c))
           /\ \A back : Dim(c, Finally(c, back))
           /\ Dim(c, Unwound(c))
           /\ AfterFinish(c, Finished(c))
<1>1. ASSUME NEW a, a \in Wide, NEW w, w => a.streaming
      PROVE  Dim(a, [a EXCEPT !.streaming = w])
  <2> DEFINE e == [a EXCEPT !.streaming = w]
  <2>1. Same(a, e) /\ e.sub = a.sub /\ e.timers = a.timers /\ e.dead = a.dead
        /\ e.streaming = w
    BY <1>1 DEF Wide, Same, Beside
  <2> HIDE DEF e
  <2>2. LateChecks(e) = LateChecks(a)
    BY <2>1 DEF LateChecks
  <2> QED
    BY <1>1, <2>1, <2>2 DEF Dim, e
<1>2. c \in Wide
  BY DEF Good
<1>3. ASSUME NEW a, a \in Wide, NEW back PROVE Dim(a, Finally(a, back))
  <2> DEFINE w == a.streaming /\ a.active # 0 /\ (back => a.pending = 0)
  <2>1. w => a.streaming
    OBVIOUS
  <2> HIDE DEF w
  <2>2. Dim(a, [a EXCEPT !.streaming = w])
    BY <1>1, <1>3, <2>1
  <2> QED
    BY <2>2 DEF Finally, w
<1>4. Dim(c, restorePendingInterrupt(c))
  <2> DEFINE w == c.streaming /\ c.pending = 0
  <2>1. w => c.streaming
    OBVIOUS
  <2> HIDE DEF w
  <2>2. Dim(c, [c EXCEPT !.streaming = w])
    BY <1>1, <1>2, <2>1
  <2> QED
    BY <2>2 DEF restorePendingInterrupt, w
<1>5. Dim(c, Unwound(c))
  <2> DEFINE gone == {d \in c.dead : d.phase = "aborted"}
             e == [c EXCEPT !.dead = @ \ gone]
             back == \E d \in gone : d.back
  <2>1. e \in Wide /\ Same(c, e) /\ e.sub = c.sub /\ e.timers = c.timers
        /\ e.streaming = c.streaming /\ e.dead = c.dead \ gone
    BY <1>2 DEF Wide, Same, Beside
  <2>2. LateChecks(e) = LateChecks(c)
    BY <2>1 DEF LateChecks
  <2>3. Dim(c, e)
    BY <2>1, <2>2 DEF Dim
  <2>4. Dim(c, c)
    BY DEF Dim, Same, Beside
  <2>5. Unwound(c) = IF gone = {} THEN c ELSE Finally(e, back)
    BY DEF Unwound
  <2> HIDE DEF e, gone, back
  <2>6. Dim(c, Finally(e, back))
    BY <1>3, <2>1, <2>3, DimOnward
  <2> QED
    BY <2>4, <2>5, <2>6
<1>6. AfterFinish(c, Finished(c))
  <2> DEFINE a == [c EXCEPT !.sub = NoSub]
             back == c.sub.back
  <2>1. NoSub \in [run : 0..MaxRuns, phase : {"none", "read", "check", "preserve"}, pos : Nat,
                   saw : BOOLEAN, back : BOOLEAN]
    BY RunsFacts DEF NoSub
  <2>2. a \in Wide /\ Same(c, a) /\ a.sub = NoSub /\ a.timers = c.timers
        /\ a.streaming = c.streaming /\ a.dead = c.dead
    BY <1>2, <2>1 DEF Wide, Same, Beside
  <2> HIDE DEF a, back
  <2>3. LateChecks(a) = LateChecks(c)
    BY <2>2 DEF LateChecks
  <2>4. Dim(a, Finally(a, back))
    BY <1>3, <2>2
  <2>5. Finished(c) = Finally(a, back)
    BY DEF Finished, a, back
  <2> QED
    BY <2>2, <2>3, <2>4, <2>5 DEF Dim, Same, Beside, AfterFinish
<1> QED
  BY <1>2, <1>3, <1>4, <1>5, <1>6

\* The others name a run, or drop the one there is.
AfterFinalize(c, e, r, st) ==
    /\ Beside(c, e) /\ e.seq = c.seq /\ e.sub = c.sub /\ e.timers = c.timers
    /\ LateChecks(e) = LateChecks(c)
    /\ c.active # r => e.active = c.active /\ e.streaming = c.streaming
    /\ c.active = r => /\ e.streaming = FALSE /\ e.active \in {0, r}
                       /\ e.active = r => st = "interrupted" /\ c.pending = r
    /\ \A f \in e.resets : f \in c.resets \/ (f.run = r /\ (f.asked => st = "interrupted"))

LEMMA FinalizeFields ==
    ASSUME NEW c, Good(c), NEW r \in Runs, NEW st
    PROVE  AfterFinalize(c, finalizeRunStream(c, r, st), r, st)
<1>1. CASE c.active # r
  BY <1>1 DEF finalizeRunStream, Beside, AfterFinalize
<1>2. CASE c.active = r
  <2> DEFINE asked == st = "interrupted" /\ c.pending = r
             act == IF asked THEN r ELSE 0
             snap == IF asked THEN [run |-> r, seq |-> c.seq] ELSE NoSnap
             pend == IF c.pending = r /\ ~asked THEN 0 ELSE c.pending
             late == [run |-> r, asked |-> asked]
             e == [c EXCEPT !.streaming = FALSE, !.active = act, !.snap = snap, !.pending = pend,
                            !.resets = @ \cup {late}]
  <2>1. finalizeRunStream(c, r, st) = e
    BY <1>2 DEF finalizeRunStream
  <2>2. act \in {0, r} /\ (act = r => asked)
    BY RunsFacts
  <2>3. late.run = r /\ (late.asked => st = "interrupted")
    OBVIOUS
  <2> HIDE DEF act, snap, pend, late
  <2>4. /\ Beside(c, e) /\ e.seq = c.seq /\ e.sub = c.sub /\ e.timers = c.timers
        /\ e.dead = c.dead /\ e.streaming = FALSE /\ e.active = act
        /\ e.resets = c.resets \cup {late}
    BY DEF Good, Wide, Beside
  <2> HIDE DEF e
  <2>5. LateChecks(e) = LateChecks(c)
    BY <2>4 DEF LateChecks
  <2> QED
    BY <1>2, <2>1, <2>2, <2>3, <2>4, <2>5 DEF AfterFinalize
<1> QED
  BY <1>1, <1>2

AfterPreserve(c, e, r, n) ==
    /\ Beside(c, e) /\ e.active = r /\ e.seq = n /\ e.sub = c.sub
    /\ e.timers = c.timers /\ LateChecks(e) = LateChecks(c)
    /\ e.streaming = FALSE /\ e.resets = c.resets

LEMMA PreserveFields ==
    ASSUME NEW c, Good(c), NEW r \in Runs, NEW n \in Nat
    PROVE  /\ AfterPreserve(c, preserveInterruptedRun(c, r, n), r, n)
           /\ AfterPreserve(c, Preserve(c, r, n), r, n)
<1> DEFINE p == preserveInterruptedRun(c, r, n)
           m == [run |-> r, seq |-> n]
           d == [run |-> r, back |-> TRUE, phase |-> "restore"]
<1>1. /\ Beside(c, p) /\ p.active = r /\ p.seq = n /\ p.sub = c.sub /\ p.timers = c.timers
      /\ p.dead = c.dead /\ p.streaming = FALSE /\ p.resets = c.resets
  <2> HIDE DEF m
  <2>1. p = [c EXCEPT !.active = r, !.seq = n, !.streaming = FALSE, !.snap = m]
    BY DEF preserveInterruptedRun, m
  <2> QED
    BY <2>1 DEF Good, Wide, Beside
<1>2. p \in Wide
  BY PreserveInterruptedGood DEF Good
<1>3. LateChecks(p) = LateChecks(c)
  BY <1>1 DEF LateChecks
<1>4. d.phase # "check"
  OBVIOUS
<1> HIDE DEF p, d
<1> DEFINE e == [p EXCEPT !.dead = @ \cup {d}]
<1>5. /\ Beside(p, e) /\ e.active = p.active /\ e.seq = p.seq /\ e.sub = p.sub
      /\ e.timers = p.timers /\ e.dead = p.dead \cup {d} /\ e.streaming = p.streaming
      /\ e.resets = p.resets
  BY <1>2 DEF Wide, Beside
<1>6. e = Preserve(c, r, n)
  BY DEF Preserve, p, d
<1> HIDE DEF e
<1>7. LateChecks(e) = LateChecks(p)
  BY <1>4, <1>5 DEF LateChecks
<1> QED
  BY <1>1, <1>3, <1>5, <1>6, <1>7 DEF Beside, AfterPreserve, p

AfterSchedule(c, e, r) ==
    /\ Same(c, e) /\ e.sub = c.sub /\ LateChecks(e) = LateChecks(c)
    /\ e.streaming = c.streaming
    /\ e.timers = c.timers \cup {q \in {r} : c.active = r}

LEMMA ScheduleFields ==
    ASSUME NEW c, Good(c), NEW r \in Runs
    PROVE  AfterSchedule(c, scheduleRunReconnect(c, r), r)
<1>1. CASE c.active = r
  <2> DEFINE e == [c EXCEPT !.timers = @ \cup {r}]
  <2>1. /\ Same(c, e) /\ e.sub = c.sub /\ e.dead = c.dead /\ e.streaming = c.streaming
        /\ e.timers = c.timers \cup {r}
    BY DEF Good, Wide, Same, Beside
  <2>2. e = scheduleRunReconnect(c, r)
    BY <1>1 DEF scheduleRunReconnect
  <2> HIDE DEF e
  <2>3. LateChecks(e) = LateChecks(c)
    BY <2>1 DEF LateChecks
  <2> QED
    BY <1>1, <2>1, <2>2, <2>3 DEF AfterSchedule
<1>2. CASE c.active # r
  BY <1>2 DEF scheduleRunReconnect, Same, Beside, AfterSchedule
<1> QED
  BY <1>1, <1>2

AfterAwait(c, e, step) ==
    /\ e.chunks = c.chunks /\ e.human = c.human /\ e.awaiting = c.awaiting
    /\ e.away = c.away /\ e.active = c.active /\ e.seq = c.seq /\ e.resets = c.resets
    /\ e.sub = c.sub /\ e.timers = c.timers /\ LateChecks(e) = LateChecks(c)
    /\ e.streaming = c.streaming
    /\ \E y : y.step = step /\ e.resumes = c.resumes \cup {y}

LEMMA AwaitFields ==
    ASSUME NEW c, Good(c), NEW step, NEW n
    PROVE  AfterAwait(c, Await(c, step, n), step)
<1> DEFINE y == [step |-> step, run |-> n.run, seq |-> n.seq]
           e == [c EXCEPT !.resumes = @ \cup {y}]
<1>1. y.step = step
  OBVIOUS
<1> HIDE DEF y
<1>2. /\ e.chunks = c.chunks /\ e.human = c.human /\ e.awaiting = c.awaiting
      /\ e.away = c.away /\ e.active = c.active /\ e.seq = c.seq /\ e.resets = c.resets
      /\ e.sub = c.sub /\ e.timers = c.timers /\ e.dead = c.dead /\ e.streaming = c.streaming
      /\ e.resumes = c.resumes \cup {y}
  BY DEF Good, Wide
<1>3. e = Await(c, step, n)
  BY DEF Await, y
<1> HIDE DEF e
<1>4. LateChecks(e) = LateChecks(c)
  BY <1>2 DEF LateChecks
<1> QED
  BY <1>1, <1>2, <1>3, <1>4 DEF AfterAwait

\* Closing a stream, and what its check makes of the answer.
AfterClosing(c, e) ==
    /\ Same(c, e) /\ e.timers = c.timers /\ LateChecks(e) = LateChecks(c)
    /\ e.streaming => c.streaming
    /\ \/ e.sub = NoSub /\ (c.sub.saw \/ c.active # c.sub.run)
       \/ /\ e.sub = [c.sub EXCEPT !.phase = "check"]
          /\ ~c.sub.saw /\ c.active = c.sub.run

LEMMA ClosingFields ==
    ASSUME NEW c, Good(c), Subscribed(c.sub)
    PROVE  AfterClosing(c, Closing(c))
<1>1. CASE c.sub.saw \/ c.active # c.sub.run
  <2>1. Closing(c) = Finished(c)
    BY <1>1 DEF Closing
  <2>2. AfterFinish(c, Finished(c))
    BY DimFields
  <2> QED
    BY <1>1, <2>1, <2>2 DEF AfterFinish, AfterClosing
<1>2. CASE ~(c.sub.saw \/ c.active # c.sub.run)
  <2> DEFINE e == [c EXCEPT !.sub.phase = "check"]
  <2>1. /\ Same(c, e) /\ e.timers = c.timers /\ e.dead = c.dead /\ e.streaming = c.streaming
        /\ e.sub = [c.sub EXCEPT !.phase = "check"]
    BY DEF Good, Wide, Same, Beside
  <2>2. e = Closing(c)
    BY <1>2 DEF Closing
  <2> HIDE DEF e
  <2>3. LateChecks(e) = LateChecks(c)
    BY <2>1 DEF LateChecks
  <2> QED
    BY <1>2, <2>1, <2>2, <2>3 DEF AfterClosing
<1> QED
  BY <1>1, <1>2

AfterChecked(c, e, r, st) ==
    /\ Beside(c, e) /\ e.seq = c.seq /\ e.sub = c.sub /\ LateChecks(e) = LateChecks(c)
    /\ \A f \in e.resets : f \in c.resets \/ (f.run = r /\ (f.asked => st = "interrupted"))
    /\ \/ /\ (st = "interrupted" /\ c.pending # r) \/ st \in Over
          /\ e.timers = c.timers
          /\ c.active # r => e.active = c.active /\ e.streaming = c.streaming
          /\ c.active = r => e.active = 0 /\ e.streaming = FALSE
       \/ /\ st # "interrupted" /\ st \notin Over /\ e.active = c.active
          /\ e.streaming = c.streaming
          /\ e.timers = c.timers \cup {q \in {r} : c.active = r}
       \/ /\ st = "interrupted" /\ c.pending = r
          /\ e.timers = c.timers /\ e.active = r /\ e.streaming = FALSE

LEMMA CheckedFields ==
    ASSUME NEW c, Good(c), NEW r \in Runs, NEW st
    PROVE  AfterChecked(c, Checked(c, r, st), r, st)
<1>1. CASE (st = "interrupted" /\ c.pending # r) \/ st \in Over
  <2> DEFINE e == finalizeRunStream(c, r, st)
  <2>1. Checked(c, r, st) = e
    BY <1>1 DEF Checked
  <2>2. AfterFinalize(c, e, r, st)
    BY FinalizeFields
  <2>3. st = "interrupted" => c.pending # r
    BY <1>1 DEF Over
  <2> HIDE DEF e
  <2> QED
    BY <1>1, <2>1, <2>2, <2>3 DEF AfterFinalize, AfterChecked
<1>2. CASE st # "interrupted" /\ st \notin Over
  <2>1. Checked(c, r, st) = scheduleRunReconnect(c, r)
    BY <1>2 DEF Checked
  <2>2. AfterSchedule(c, Checked(c, r, st), r)
    BY <2>1, ScheduleFields
  <2> QED
    BY <1>2, <2>2 DEF AfterSchedule, Same, AfterChecked
<1>3. CASE st = "interrupted" /\ c.pending = r
  <2>1. Checked(c, r, st) = preserveInterruptedRun(c, r, c.seq) /\ c.seq \in Nat
    BY <1>3 DEF Checked, Over, Good, Wide
  <2>2. AfterPreserve(c, Checked(c, r, st), r, c.seq)
    BY <2>1, PreserveFields
  <2> QED
    BY <1>3, <2>2 DEF AfterPreserve, AfterChecked
<1> QED
  BY <1>1, <1>2, <1>3

\* An event of the active run.
Goes == {"chunk", "retry"}
AfterEvent(c, e, k, id, st) ==
    /\ e.human = c.human /\ e.awaiting = c.awaiting /\ e.away = c.away /\ e.resumes = c.resumes
    /\ e.timers = c.timers /\ LateChecks(e) = LateChecks(c)
    /\ e.seq = (IF id = 0 THEN c.seq ELSE id)
    /\ e.sub.run = c.sub.run /\ e.sub.phase = c.sub.phase /\ e.sub.pos = c.sub.pos
    /\ e.chunks = IF k = "chunk" THEN Append(c.chunks, <<c.sub.run, id>>) ELSE c.chunks
    /\ e.active \in {0, c.active}
    /\ k \in Goes => e.streaming = c.streaming /\ e.sub = c.sub /\ e.active = c.active
    /\ k \notin Goes => e.streaming = FALSE
    /\ \A f \in e.resets :
          f \in c.resets \/ (f.run = c.sub.run /\ (f.asked => st = "interrupted" /\ k \in {"rowEnd", "end"}))

LEMMA EventFields ==
    ASSUME NEW c, Good(c), Subscribed(c.sub), c.active = c.sub.run, NEW st, NEW id \in Nat,
           NEW k \in AllKinds \cup {"end", "unavailable", "rowEnd"}
    PROVE  AfterEvent(c, Handled(c, k, id, st), k, id, st)
<1> DEFINE r == c.sub.run
           d == IF id = 0 THEN c ELSE [c EXCEPT !.seq = id, !.snap = [run |-> r, seq |-> id]]
           last == [d EXCEPT !.sub.saw = TRUE]
           n == IF id = 0 THEN c.seq ELSE id
<1>0. r \in Runs /\ c.active = r /\ c.sub.run = r
  BY DEF Subscribed
<1> HIDE DEF r
<1>1. /\ Beside(c, d) /\ d.active = r /\ d.sub = c.sub /\ d.timers = c.timers /\ d.dead = c.dead
      /\ d.resets = c.resets /\ d.streaming = c.streaming /\ d.seq = n /\ Good(d)
  <2> DEFINE m == [run |-> r, seq |-> id]
             e == [c EXCEPT !.seq = id, !.snap = m]
  <2>1. m.run = r /\ m.seq = id /\ m \in Snaps
    BY <1>0, RunsFacts DEF Snaps
  <2>2. m = [run |-> r, seq |-> id]
    OBVIOUS
  <2> HIDE DEF m
  <2>3. /\ Beside(c, e) /\ e.active = c.active /\ e.sub = c.sub /\ e.timers = c.timers
        /\ e.dead = c.dead /\ e.resets = c.resets /\ e.streaming = c.streaming /\ e.seq = id
        /\ e.snap = m /\ e \in Wide
    BY <2>1 DEF Good, Wide, Beside
  <2>4. Good(e)
    BY <1>0, <2>1, <2>2, <2>3 DEF Good, Agrees, Named, Beside
  <2>5. d = IF id = 0 THEN c ELSE e
    BY DEF m
  <2> HIDE DEF d, e
  <2> QED
    BY <1>0, <2>3, <2>4, <2>5 DEF Beside
<1> HIDE DEF d, n
<1>2. /\ Beside(d, last) /\ last.active = d.active /\ last.timers = d.timers
      /\ last.dead = d.dead /\ last.resets = d.resets /\ last.streaming = d.streaming
      /\ last.seq = d.seq /\ last.sub = [d.sub EXCEPT !.saw = TRUE] /\ last.pending = d.pending
  BY <1>1 DEF Good, Wide, Beside
<1>3. /\ last.sub.run = c.sub.run /\ last.sub.phase = c.sub.phase /\ last.sub.pos = c.sub.pos
      /\ last.sub = [c.sub EXCEPT !.saw = TRUE]
  BY <1>1, <1>2 DEF Good, Wide
<1>4. Good(last)
  <2>1. last \in Wide
    BY <1>1 DEF Good, Wide
  <2>2. last.snap = d.snap
    BY <1>1 DEF Good, Wide
  <2>3. Subscribed(last.sub)
    BY <1>0, <1>3 DEF Subscribed
  <2> QED
    BY <1>1, <1>2, <2>1, <2>2, <2>3 DEF Good, Agrees, Beside
<1> HIDE DEF last
<1>5. d.pending \in 0..MaxRuns /\ last.pending \in 0..MaxRuns /\ 0 \in 0..MaxRuns
      /\ r \in 0..MaxRuns
  BY <1>0, <1>1, <1>4, RunsFacts DEF Good, Wide
<1>6. k \notin Goes /\ k # "chunk" => \A e :
        /\ Beside(d, e) /\ e.active = r /\ e.sub = d.sub /\ e.timers = d.timers
        /\ e.dead = d.dead /\ e.resets = d.resets /\ e.streaming = FALSE /\ e.seq = n
        => AfterEvent(c, e, k, id, st)
  BY <1>0, <1>1 DEF AfterEvent, Beside, LateChecks, n
<1>7. ASSUME NEW p \in 0..MaxRuns, NEW s, k \notin Goes,
             s = "interrupted" => st = "interrupted" /\ k \in {"rowEnd", "end"}
      PROVE  AfterEvent(c, finalizeRunStream([last EXCEPT !.pending = p], r, s), k, id, st)
  <2> DEFINE f == [last EXCEPT !.pending = p]
             g == finalizeRunStream(f, r, s)
  <2>1. Good(f)
    BY <1>4, ForgetGood
  <2>2. /\ Beside(last, f) /\ f.active = last.active /\ f.timers = last.timers
        /\ f.dead = last.dead /\ f.resets = last.resets /\ f.seq = last.seq /\ f.sub = last.sub
    BY <1>4 DEF Good, Wide, Beside
  <2> HIDE DEF f
  <2>3. AfterFinalize(f, g, r, s)
    BY <1>0, <2>1, FinalizeFields
  <2> HIDE DEF g
  <2>4. LateChecks(g) = LateChecks(c)
    BY <1>1, <1>2, <2>2, <2>3 DEF AfterFinalize, LateChecks
  <2>5. k # "chunk"
    BY <1>7 DEF Goes
  <2>6. /\ Beside(c, g) /\ g.seq = n /\ g.sub = last.sub /\ g.timers = c.timers
        /\ g.streaming = FALSE /\ g.active \in {0, c.active}
    BY <1>0, <1>1, <1>2, <2>2, <2>3 DEF AfterFinalize, Beside
  <2>7. \A h \in g.resets :
          h \in c.resets \/ (h.run = c.sub.run /\ (h.asked => st = "interrupted" /\ k \in {"rowEnd", "end"}))
    BY <1>0, <1>1, <1>2, <1>7, <2>2, <2>3 DEF AfterFinalize
  <2> QED
    BY <1>3, <1>7, <2>4, <2>5, <2>6, <2>7 DEF AfterEvent, Beside, n, f, g
<1>8. CASE k = "chunk"
  <2> DEFINE w == Append(d.chunks, <<r, id>>)
             e == [d EXCEPT !.chunks = w]
  <2>1. /\ e.human = d.human /\ e.awaiting = d.awaiting /\ e.away = d.away
        /\ e.resumes = d.resumes /\ e.active = d.active /\ e.sub = d.sub /\ e.timers = d.timers
        /\ e.dead = d.dead /\ e.resets = d.resets /\ e.streaming = d.streaming
        /\ e.seq = d.seq /\ e.chunks = w
    BY <1>1 DEF Good, Wide
  <2>2. Handled(c, k, id, st) = e
    BY <1>8 DEF Handled, d, r
  <2>3. w = Append(c.chunks, <<c.sub.run, id>>)
    BY <1>0, <1>1 DEF Beside
  <2>4. k \in Goes
    BY <1>8 DEF Goes
  <2> HIDE DEF e, w
  <2>5. LateChecks(e) = LateChecks(c)
    BY <1>1, <2>1 DEF LateChecks
  <2> QED
    BY <1>0, <1>1, <1>8, <2>1, <2>2, <2>3, <2>4, <2>5 DEF AfterEvent, Beside, n
<1>9. CASE k = "retry"
  <2>1. Handled(c, k, id, st) = d
    BY <1>9 DEF Handled, d, r
  <2>2. LateChecks(d) = LateChecks(c)
    BY <1>1 DEF LateChecks
  <2> QED
    BY <1>0, <1>1, <1>9, <2>1, <2>2 DEF AfterEvent, Beside, Goes, n
<1>10. CASE k \in {"ask", "stop"}
  <2> DEFINE q == IF k = "ask" THEN r ELSE d.pending
             e == [d EXCEPT !.streaming = FALSE, !.pending = q]
  <2>1. q \in 0..MaxRuns
    BY <1>5
  <2>2. Handled(c, k, id, st) = e
    <3>1. CASE k = "ask"
      BY <3>1 DEF Handled, d, r
    <3>2. CASE k = "stop"
      <4>1. Handled(c, k, id, st) = [d EXCEPT !.streaming = FALSE]
        BY <3>2 DEF Handled, d, r
      <4>2. [d EXCEPT !.streaming = FALSE] = [d EXCEPT !.streaming = FALSE, !.pending = d.pending]
        BY <1>1 DEF Good, Wide
      <4> QED
        BY <3>2, <4>1, <4>2
    <3> QED
      BY <1>10, <3>1, <3>2
  <2> HIDE DEF q
  <2>3. /\ Beside(d, e) /\ e.active = d.active /\ e.sub = d.sub /\ e.timers = d.timers
        /\ e.dead = d.dead /\ e.resets = d.resets /\ e.streaming = FALSE /\ e.seq = d.seq
    BY <1>1 DEF Good, Wide, Beside
  <2>4. k \notin Goes /\ k # "chunk"
    BY <1>10 DEF Goes
  <2> HIDE DEF e
  <2> QED
    BY <1>1, <1>6, <2>2, <2>3, <2>4
<1>11. CASE k \in {"error", "unavailable", "rowEnd", "end"}
  <2> DEFINE p == CASE k = "error" -> 0
                    [] k = "end" -> (IF Asks(r) THEN r ELSE IF st = "completed" THEN 0 ELSE last.pending)
                    [] OTHER -> last.pending
             s == CASE k = "error" -> "failed" [] k = "unavailable" -> "none" [] OTHER -> st
  <2>1. p \in 0..MaxRuns
    BY <1>5
  <2>2. s = "interrupted" => st = "interrupted" /\ k \in {"rowEnd", "end"}
    BY <1>11
  <2>3. k \notin Goes
    BY <1>11 DEF Goes
  <2>4. last = [last EXCEPT !.pending = last.pending]
    BY <1>4 DEF Good, Wide
  <2>5. Handled(c, k, id, st) = finalizeRunStream([last EXCEPT !.pending = p], r, s)
    <3>1. CASE k = "error"
      BY <3>1 DEF Handled, last, d, r
    <3>2. CASE k = "end"
      BY <3>2 DEF Handled, last, d, r
    <3>3. CASE k = "unavailable"
      <4>1. Handled(c, k, id, st) = finalizeRunStream(last, r, "none")
        BY <3>3 DEF Handled, last, d, r
      <4> QED
        BY <2>4, <3>3, <4>1
    <3>4. CASE k = "rowEnd"
      <4>1. Handled(c, k, id, st) = finalizeRunStream(last, r, st)
        BY <3>4 DEF Handled, last, d, r
      <4> QED
        BY <2>4, <3>4, <4>1
    <3> QED
      BY <1>11, <3>1, <3>2, <3>3, <3>4
  <2> HIDE DEF p, s
  <2> QED
    BY <1>7, <2>1, <2>2, <2>3, <2>5
<1> QED
  BY <1>8, <1>9, <1>10, <1>11 DEF AllKinds

LEMMA AnsweredFields ==
    ASSUME Good(client), NEW x \in client.resumes
    PROVE  LET e == Answered(x) IN
           /\ e.chunks = client.chunks /\ e.human = client.human /\ e.awaiting = client.awaiting
           /\ e.away = client.away /\ e.active = client.active /\ e.seq = client.seq
           /\ e.resets = client.resets /\ e.sub = client.sub /\ e.timers = client.timers
           /\ e.streaming = client.streaming /\ e.pending = client.pending /\ e.snap = client.snap
           /\ e.resumes = client.resumes \ {x} /\ LateChecks(e) = LateChecks(client)
<1> DEFINE e == [client EXCEPT !.resumes = @ \ {x}]
<1>1. /\ e.chunks = client.chunks /\ e.human = client.human /\ e.awaiting = client.awaiting
      /\ e.away = client.away /\ e.active = client.active /\ e.seq = client.seq
      /\ e.resets = client.resets /\ e.sub = client.sub /\ e.timers = client.timers
      /\ e.streaming = client.streaming /\ e.pending = client.pending /\ e.snap = client.snap
      /\ e.resumes = client.resumes \ {x} /\ e.dead = client.dead
  BY DEF Good, Wide
<1>2. e = Answered(x)
  BY DEF Answered
<1> HIDE DEF e
<1>3. LateChecks(e) = LateChecks(client)
  BY <1>1 DEF LateChecks
<1> QED
  BY <1>1, <1>2, <1>3

LEMMA ArrivedFields ==
    ASSUME Good(client), NEW r \in client.awaiting
    PROVE  LET e == Arrived(r) IN
           /\ Good(e)
           /\ e.chunks = client.chunks /\ e.human = client.human /\ e.resumes = client.resumes
           /\ e.away = client.away /\ e.active = client.active /\ e.seq = client.seq
           /\ e.resets = client.resets /\ e.sub = client.sub /\ e.timers = client.timers
           /\ e.streaming = client.streaming /\ e.pending = client.pending
           /\ e.awaiting = client.awaiting \ {r} /\ LateChecks(e) = LateChecks(client)
<1> DEFINE e == [client EXCEPT !.awaiting = @ \ {r}]
<1>1. /\ e.chunks = client.chunks /\ e.human = client.human /\ e.resumes = client.resumes
      /\ e.away = client.away /\ e.active = client.active /\ e.seq = client.seq
      /\ e.resets = client.resets /\ e.sub = client.sub /\ e.timers = client.timers
      /\ e.streaming = client.streaming /\ e.pending = client.pending
      /\ e.awaiting = client.awaiting \ {r} /\ e.dead = client.dead
  BY DEF Good, Wide
<1>2. e = Arrived(r)
  BY DEF Arrived
<1>3. Good([client EXCEPT !.awaiting = client.awaiting \ {r}])
  BY DropGood
<1>4. Good(e)
  BY <1>3
<1> HIDE DEF e
<1>5. LateChecks(e) = LateChecks(client)
  BY <1>1 DEF LateChecks
<1> QED
  BY <1>1, <1>2, <1>4, <1>5

AfterResumed(c, e, r, n) ==
    /\ e.sub.run = r /\ e.sub.phase = "read" /\ e.sub.pos = n /\ e.sub.saw = FALSE
    /\ e.active = r /\ e.seq = n /\ e.timers = c.timers
    /\ LateChecks(e) = LateChecks(c) \cup Abandoned(c.sub)
    /\ e.awaiting = c.awaiting /\ e.away = c.away /\ e.resumes = c.resumes
    /\ e.resets = c.resets
    /\ e.chunks = IF n = 0 THEN <<>> ELSE c.chunks
    /\ e.human = (n # 0 /\ c.human)

LEMMA ResumedFields ==
    ASSUME Good(client), NEW x \in client.resumes, NEW r \in Runs, NEW n \in Nat
    PROVE  AfterResumed(Answered(x), Resumed(x, r, n), r, n)
<1> DEFINE c == Answered(x)
           b == IF n = 0 THEN resetOnGoingConv(c) ELSE c
           e == startRunStream(b, r, n, TRUE)
<1>1. Good(c)
  BY AnsweredGood
<1>2. Resumed(x, r, n) = Unwound(e)
  BY DEF Resumed
<1> HIDE DEF c
<1>3. /\ Good(b) /\ LateChecks(b) \cup Abandoned(b.sub) = LateChecks(c) \cup Abandoned(c.sub)
      /\ b.timers = c.timers /\ b.awaiting = c.awaiting /\ b.away = c.away
      /\ b.resumes = c.resumes /\ b.resets = c.resets
      /\ b.chunks = (IF n = 0 THEN <<>> ELSE c.chunks)
      /\ b.human = (n # 0 /\ c.human)
  <2>1. CASE n = 0
    <3>1. AfterReset(c, b) /\ Good(b)
      BY <1>1, <2>1, ResetFields, ResetGood
    <3>2. Abandoned(NoSub) = {}
      BY NoSubFacts DEF Abandoned
    <3> HIDE DEF b
    <3> QED
      BY <2>1, <3>1, <3>2 DEF AfterReset, Cut
  <2>2. CASE n # 0
    <3>1. c.human \in BOOLEAN
      BY <1>1 DEF Good, Wide
    <3> QED
      BY <1>1, <2>2, <3>1
  <2> QED
    BY <2>1, <2>2
<1> HIDE DEF b
<1>4. AfterStart(b, e, r, n) /\ Good(e)
  BY <1>3, StartFields, StartGood
<1> HIDE DEF e
<1>5. Dim(e, Unwound(e))
  BY <1>4, DimFields
<1> QED
  BY <1>2, <1>3, <1>4, <1>5 DEF AfterStart, Dim, Same, Beside, AfterResumed, c

AfterGiveUp(c, e) ==
    /\ Beside(c, e) /\ e.active = 0 /\ e.sub = c.sub /\ e.timers = c.timers
    /\ e.streaming = FALSE /\ e.resets = c.resets /\ LateChecks(e) = LateChecks(c)

LEMMA GiveUpFields ==
    ASSUME NEW c, Good(c)
    PROVE  /\ AfterGiveUp(c, GiveUp(c))
           /\ \A p \in 0..MaxRuns : AfterGiveUp(c, 
                 [c EXCEPT !.active = 0, !.streaming = FALSE, !.snap = NoSnap, !.pending = p])
<1>1. ASSUME NEW p \in 0..MaxRuns
      PROVE  AfterGiveUp(c, [c EXCEPT !.active = 0, !.streaming = FALSE, !.snap = NoSnap,
                                      !.pending = p])
  <2> DEFINE e == [c EXCEPT !.active = 0, !.streaming = FALSE, !.snap = NoSnap, !.pending = p]
  <2>1. /\ Beside(c, e) /\ e.active = 0 /\ e.sub = c.sub /\ e.timers = c.timers
        /\ e.streaming = FALSE /\ e.resets = c.resets /\ e.dead = c.dead
    BY DEF Good, Wide, Beside
  <2> HIDE DEF e
  <2> QED
    BY <2>1 DEF AfterGiveUp, LateChecks, e
<1>2. AfterGiveUp(c, GiveUp(c))
  <2> DEFINE e == [c EXCEPT !.active = 0, !.seq = 0, !.streaming = FALSE, !.pending = 0,
                            !.snap = NoSnap]
  <2>1. /\ Beside(c, e) /\ e.active = 0 /\ e.sub = c.sub /\ e.timers = c.timers
        /\ e.streaming = FALSE /\ e.resets = c.resets /\ e.dead = c.dead
    BY DEF Good, Wide, Beside
  <2>2. Good(e)
    BY ForgetGood, RunsFacts
  <2>3. GiveUp(c) = restorePendingInterrupt(e)
    BY DEF GiveUp
  <2> HIDE DEF e
  <2>4. LateChecks(e) = LateChecks(c)
    BY <2>1 DEF LateChecks
  <2>5. Dim(e, GiveUp(c))
    BY <2>2, <2>3, DimFields
  <2>6. GiveUp(c).streaming \in BOOLEAN
    BY GiveUpGood DEF Good, Wide
  <2> QED
    BY <2>1, <2>4, <2>5, <2>6 DEF Dim, Same, Beside, AfterGiveUp
<1> QED
  BY <1>1, <1>2

-----------------------------------------------------------------------------
(* Why the spinner has a source.                                           *)

\* While the page says that a reply is being written, an open stream is that of
\* the active run, and its end has not been seen.
Tied(c) ==
    c.streaming /\ c.sub # NoSub =>
        c.sub.run = c.active /\ ~c.sub.saw /\ c.sub.phase # "preserve"

GoesOn(c, r) ==
    (c.sub.run = r /\ c.sub.phase \in {"read", "check"}) \/ r \in c.timers \/ r \in LateChecks(c)
Comes(c) == c.awaiting # {} \/ \E x \in c.resumes : x.step # "live"
Waits(c) == c.streaming /\ ~c.away => GoesOn(c, c.active) \/ Comes(c)

SpinInv == Tied(client) /\ (overtaken \/ Waits(client))

\* What a step does if it makes neither half of SpinInv false.
Kept(c, e) == Tied(e) /\ (Waits(c) => Waits(e))

LEMMA DarkKept ==
    ASSUME NEW c, NEW e, ~e.streaming
    PROVE  Kept(c, e)
BY DEF Kept, Tied, Waits

LEMMA DimKept ==
    ASSUME NEW c, NEW e, Tied(c), Dim(c, e)
    PROVE  Kept(c, e)
BY DEF Kept, Tied, Waits, GoesOn, Comes, Dim, Same, Beside

LEMMA KeptOnward ==
    ASSUME NEW c, NEW d, NEW e, Kept(c, d), Kept(d, e)
    PROVE  Kept(c, e)
BY DEF Kept

LEMMA StartKept ==
    ASSUME NEW c, NEW e, e.sub.run = e.active, e.sub.phase = "read", e.sub.saw = FALSE
    PROVE  Kept(c, e)
BY DEF Kept, Tied, Waits, GoesOn

\* The event that is delivered next.
LEMMA NextEvent ==
    ASSUME IInv, Deliver
    PROVE  LET s == client.sub
               c == [client EXCEPT !.sub.pos = @ + 1]
               k == log[s.run][s.pos + 1]
           IN /\ Good(c) /\ Subscribed(c.sub) /\ Same(client, c) /\ c.timers = client.timers
              /\ LateChecks(c) = LateChecks(client) /\ c.streaming = client.streaming
              /\ c.sub = [s EXCEPT !.pos = s.pos + 1]
              /\ s.pos \in Nat /\ s.pos < Len(log[s.run]) /\ s.run \in Runs /\ s.phase = "read"
              /\ k \in AllKinds \cup {"end"}
              /\ client' = Receive(c, k, s.pos + 1, status[s.run])
<1> DEFINE s == client.sub
           p == s.pos + 1
           c == [client EXCEPT !.sub.pos = p]
           k == log[s.run][p]
<1>0. Good(client)
  BY DEF IInv
<1>1. Subscribed(s) /\ s.pos \in Nat /\ s.run \in Runs /\ s.pos < Len(log[s.run]) /\ s.phase = "read"
  BY <1>0, Following DEF Deliver, Reading
<1>2. k \in AllKinds \cup {"end"}
  <2>1. log[s.run] \in Seq(AllKinds \cup {"end"})
    BY <1>1 DEF IInv, ServerOK
  <2>2. p \in 1..Len(log[s.run])
    BY <1>1, <2>1, LenProperties
  <2> QED
    BY <2>1, <2>2, ElementOfSeq
<1>3. client' = Receive(c, k, p, status[s.run])
  BY DEF Deliver
<1>4. p \in Nat
  BY <1>1
<1>5. /\ c \in Wide /\ c.sub = [client.sub EXCEPT !.pos = p] /\ Same(client, c)
      /\ c.timers = client.timers /\ c.dead = client.dead /\ c.streaming = client.streaming
      /\ c.snap = client.snap
  <2> HIDE DEF p
  <2> QED
    BY <1>0, <1>4 DEF Good, Wide, Same, Beside
<1>6. Subscribed(c.sub)
  <2> HIDE DEF p, c
  <2> QED
    BY <1>0, <1>1, <1>5 DEF Subscribed, Good, Wide
<1>7. Good(c)
  <2> HIDE DEF c
  <2> QED
    BY <1>0, <1>5, <1>6 DEF Good, Agrees, Same, Beside
<1>8. LateChecks(c) = LateChecks(client)
  <2> HIDE DEF c
  <2> QED
    BY <1>5 DEF LateChecks
<1> QED
  BY <1>1, <1>2, <1>3, <1>5, <1>6, <1>7, <1>8

LEMMA ReceiveKept ==
    ASSUME NEW c, Good(c), Subscribed(c.sub), Tied(c), NEW st, NEW id \in Nat,
           NEW k \in AllKinds \cup {"end", "unavailable", "rowEnd"}
    PROVE  Kept(c, Receive(c, k, id, st))
<1> DEFINE e == Handled(c, k, id, st)
<1>a. Kept(c, c)
  BY DEF Kept
<1>1. CASE c.active = c.sub.run
  <2>1. AfterEvent(c, e, k, id, st)
    BY <1>1, EventFields
  <2> HIDE DEF e
  <2>2. k \in Goes => Kept(c, e)
    BY <2>1 DEF AfterEvent, Kept, Tied, Waits, GoesOn, Comes
  <2>3. k \notin Goes => Kept(c, e)
    BY <2>1, DarkKept DEF AfterEvent
  <2>4. Receive(c, k, id, st) = e \/ Receive(c, k, id, st) = c
    BY DEF Receive, e
  <2> QED
    BY <1>a, <2>2, <2>3, <2>4
<1>2. CASE c.active # c.sub.run
  <2>1. Receive(c, k, id, st) = c
    BY <1>2 DEF Receive
  <2> QED
    BY <1>a, <2>1
<1> QED
  BY <1>1, <1>2

LEMMA ClosingKept ==
    ASSUME NEW c, Good(c), Subscribed(c.sub), Tied(c)
    PROVE  Kept(c, Closing(c))
<1> DEFINE e == Closing(c)
<1>1. AfterClosing(c, e)
  BY ClosingFields
<1>2. c.sub # NoSub
  BY NoSubFacts
<1> HIDE DEF e
<1>3. CASE e.sub = NoSub /\ (c.sub.saw \/ c.active # c.sub.run)
  <2>1. ~e.streaming
    BY <1>1, <1>2, <1>3 DEF Tied, AfterClosing
  <2> QED
    BY <2>1, DarkKept DEF e
<1>4. CASE e.sub = [c.sub EXCEPT !.phase = "check"] /\ ~c.sub.saw /\ c.active = c.sub.run
  <2>1. e.sub.run = c.sub.run /\ e.sub.phase = "check" /\ e.sub.saw = c.sub.saw
    BY <1>4 DEF Good, Wide
  <2> QED
    BY <1>1, <1>4, <2>1 DEF AfterClosing, Kept, Tied, Waits, GoesOn, Comes, Same, Beside, e
<1> QED
  BY <1>1, <1>3, <1>4 DEF AfterClosing

LEMMA SpinOfStream ==
    ASSUME IInv, Tied(client),
           Deliver \/ Close \/ TimesOut \/ Unavailable \/ Breaks
           \/ CheckAnswered \/ CheckFails \/ Preserved
    PROVE  Kept(client, client')
<1> DEFINE s == client.sub
<1>0. Good(client)
  BY DEF IInv
<1>a. Reading \/ Checking => Subscribed(s) /\ s.pos \in Nat /\ s.run \in Runs
  BY <1>0, Following DEF Reading, Checking
<1>1. CASE Deliver
  <2> DEFINE c == [client EXCEPT !.sub.pos = @ + 1]
             k == log[s.run][s.pos + 1]
  <2>1. /\ Good(c) /\ Subscribed(c.sub) /\ Same(client, c) /\ c.timers = client.timers
        /\ LateChecks(c) = LateChecks(client) /\ c.streaming = client.streaming
        /\ c.sub = [s EXCEPT !.pos = s.pos + 1]
        /\ s.pos \in Nat /\ s.run \in Runs /\ k \in AllKinds \cup {"end"}
        /\ client' = Receive(c, k, s.pos + 1, status[s.run]) /\ s.phase = "read"
    BY <1>1, NextEvent
  <2> HIDE DEF c, k
  <2>2. c.sub.run = s.run /\ c.sub.saw = s.saw /\ c.sub.phase = s.phase
    BY <1>0, <2>1 DEF Good, Wide
  <2>3. s # NoSub
    BY <2>1, NoSubFacts
  <2>4. Kept(client, c)
    BY <2>1, <2>2, <2>3 DEF Kept, Tied, Waits, GoesOn, Comes, Same, Beside
  <2>5. Kept(c, client')
    BY <2>1, <2>4, ReceiveKept DEF Kept
  <2> QED
    BY <2>4, <2>5, KeptOnward
<1>2. ASSUME NEW k \in {"rowEnd", "unavailable"}, NEW id \in Nat, NEW st, Reading,
             client' = Closing(Receive(client, k, id, st))
      PROVE  Kept(client, client')
  <2> DEFINE c == Receive(client, k, id, st)
  <2>1. Good(c) /\ Subscribed(c.sub)
    BY <1>0, <1>2, <1>a, ReceiveGood
  <2>2. Kept(client, c)
    BY <1>0, <1>2, <1>a, ReceiveKept
  <2> HIDE DEF c
  <2>3. Kept(c, Closing(c))
    BY <2>1, <2>2, ClosingKept DEF Kept
  <2> QED
    BY <1>2, <2>2, <2>3, KeptOnward DEF c
<1>3. ASSUME Reading, client' = Closing(client)
      PROVE  Kept(client, client')
  BY <1>0, <1>3, <1>a, ClosingKept
<1>4. CASE Close
  BY <1>2, <1>3, <1>4, <1>a DEF Close
<1>5. CASE TimesOut
  BY <1>3, <1>5 DEF TimesOut
<1>6. CASE Unavailable
  BY <1>2, <1>6, RunsFacts DEF Unavailable
<1>7. CASE Breaks
  <2> DEFINE c == scheduleRunReconnect(client, s.run)
  <2>1. Good(c) /\ AfterSchedule(client, c, s.run) /\ client' = Finished(c) /\ s.run \in Runs
    BY <1>0, <1>7, <1>a, ScheduleGood, ScheduleFields DEF Breaks
  <2>2. AfterFinish(c, client')
    BY <2>1, DimFields
  <2>3. s # NoSub
    BY <1>7, NoSubFacts DEF Breaks, Reading
  <2> HIDE DEF c
  <2>4. client'.streaming => client.streaming /\ client.active = s.run
    BY <2>1, <2>2, <2>3 DEF AfterFinish, AfterSchedule, Tied
  <2>5. client'.streaming => client'.active \in client'.timers
    BY <2>1, <2>2, <2>4 DEF AfterFinish, AfterSchedule, Same
  <2> QED
    BY <2>2, <2>5 DEF AfterFinish, Kept, Tied, Waits, GoesOn
<1>8. ASSUME NEW st, Checking, Check(st)
      PROVE  Kept(client, client')
  <2> DEFINE c == Checked(client, s.run, st)
             e == [c EXCEPT !.sub.phase = "preserve"]
  <2>1. Good(c) /\ AfterChecked(client, c, s.run, st) /\ s.run \in Runs
    BY <1>0, <1>8, <1>a, CheckedGood, CheckedFields
  <2>2. s # NoSub /\ s.phase = "check"
    BY <1>8, NoSubFacts DEF Checking
  <2> HIDE DEF c
  <2>3. CASE st = "interrupted" /\ client.pending = s.run
    <3>1. client' = e
      BY <1>8, <2>3 DEF Check, c
    <3>2. e.streaming = c.streaming
      BY <2>1 DEF Good, Wide
    <3>3. ~c.streaming
      BY <2>1, <2>3 DEF AfterChecked, Over
    <3> QED
      BY <3>1, <3>2, <3>3, DarkKept
  <2>4. CASE ~(st = "interrupted" /\ client.pending = s.run)
    <3>1. client' = Finished(c)
      BY <1>8, <2>4 DEF Check, c
    <3>2. AfterFinish(c, client')
      BY <2>1, <3>1, DimFields
    <3>3. client'.streaming => client.streaming /\ client.active = s.run
      BY <2>1, <2>2, <3>2 DEF AfterFinish, AfterChecked, Tied
    <3>4. client'.streaming => c.active = s.run /\ s.run \in c.timers
      BY <2>1, <2>4, <3>2, <3>3 DEF AfterChecked, AfterFinish
    <3> QED
      BY <3>2, <3>4 DEF AfterFinish, Same, Kept, Tied, Waits, GoesOn
  <2> QED
    BY <2>3, <2>4
<1>9. CASE CheckAnswered \/ CheckFails
  BY <1>8, <1>9 DEF CheckAnswered, CheckFails
<1>10. CASE Preserved
  <2> DEFINE c == restorePendingInterrupt(client)
  <2>1. Good(c) /\ Dim(client, c) /\ client' = Finished(c)
    BY <1>0, <1>10, RestoreGood, DimFields DEF Preserved
  <2>2. AfterFinish(c, client')
    BY <2>1, DimFields
  <2>3. s # NoSub /\ s.phase = "preserve"
    BY <1>10, NoSubFacts DEF Preserved
  <2>4. ~client'.streaming
    BY <2>1, <2>2, <2>3 DEF AfterFinish, Dim, Tied
  <2> QED
    BY <2>4, DarkKept
<1> QED
  BY <1>1, <1>4, <1>5, <1>6, <1>7, <1>9, <1>10

AfterBury(c, e, d) ==
    /\ Same(c, e) /\ e.sub = c.sub /\ e.timers = c.timers /\ e.streaming = c.streaming
    /\ e.pending = c.pending
    /\ LateChecks(e) \subseteq LateChecks(c) /\ LateChecks(c) \subseteq LateChecks(e) \cup {d.run}
    /\ d.phase # "check" => LateChecks(e) = LateChecks(c)

LEMMA BuryFields ==
    ASSUME IInv, NEW d \in client.dead
    PROVE  Good(Bury(d)) /\ AfterBury(client, Bury(d), d) /\ d.run \in Runs
<1> DEFINE e == [client EXCEPT !.dead = @ \ {d}]
<1>0. Good(client)
  BY DEF IInv
<1>1. /\ Same(client, e) /\ e.sub = client.sub /\ e.timers = client.timers
      /\ e.streaming = client.streaming /\ e.dead = client.dead \ {d}
      /\ e.pending = client.pending
  BY <1>0 DEF Good, Wide, Same, Beside
<1>2. Good([client EXCEPT !.dead = client.dead \ {d}])
  BY <1>0, DropGood
<1>3. Good(e)
  BY <1>2
<1>4. e = Bury(d)
  BY DEF Bury
<1> HIDE DEF e
<1>5. /\ LateChecks(e) \subseteq LateChecks(client)
      /\ LateChecks(client) \subseteq LateChecks(e) \cup {d.run}
      /\ d.phase # "check" => LateChecks(e) = LateChecks(client)
  BY <1>1 DEF LateChecks
<1>6. d.run \in Runs
  BY <1>0 DEF Good, Wide, WideDead
<1> QED
  BY <1>1, <1>3, <1>4, <1>5, <1>6 DEF AfterBury

\* What a late check comes to.
LEMMA LateCheckFields ==
    ASSUME IInv, NEW d \in client.dead, NEW st, LateCheck(d, st)
    PROVE  \E c : /\ AfterChecked(Bury(d), c, d.run, st) /\ Good(c)
                  /\ st = "interrupted" /\ client.pending = d.run => ~client'.streaming
                  /\ Dim(c, client')
<1> DEFINE c == Checked(Bury(d), d.run, st)
           g == [d EXCEPT !.phase = "preserve"]
           w == c.dead \cup {g}
           e == [c EXCEPT !.dead = w]
<1>1. Good(Bury(d)) /\ AfterBury(client, Bury(d), d) /\ d.run \in Runs
  BY BuryFields
<1>2. AfterChecked(Bury(d), c, d.run, st) /\ Good(c)
  BY <1>1, CheckedFields, CheckedGood
<1>3. g.phase # "check"
  <2>1. d \in WideDead
    BY DEF IInv, Good, Wide
  <2> QED
    BY <2>1 DEF WideDead
<1>4. client' = IF st = "interrupted" /\ client.pending = d.run THEN e ELSE Finally(c, d.back)
  BY DEF LateCheck
<1> HIDE DEF c, g
<1>5. Dim(c, Finally(c, d.back))
  BY <1>2, DimFields
<1>6. st = "interrupted" /\ client.pending = d.run => ~c.streaming
  <2>1. Bury(d).pending = client.pending
    BY <1>1 DEF AfterBury
  <2> QED
    BY <1>2, <2>1 DEF AfterChecked, Over
<1>7. /\ Same(c, e) /\ e.sub = c.sub /\ e.timers = c.timers /\ e.streaming = c.streaming
      /\ e.dead = w
  <2> HIDE DEF w
  <2> QED
    BY <1>2 DEF Good, Wide, Same, Beside
<1> HIDE DEF e
<1>8. LateChecks(e) = LateChecks(c)
  BY <1>3, <1>7 DEF LateChecks
<1>9. Dim(c, e)
  BY <1>7, <1>8 DEF Dim
<1>10. st = "interrupted" /\ client.pending = d.run => ~client'.streaming
  BY <1>4, <1>6, <1>7
<1> QED
  BY <1>2, <1>4, <1>5, <1>9, <1>10

LEMMA UnwindFields ==
    ASSUME IInv, NEW d \in client.dead, Unwind(d)
    PROVE  Dim(client, client')
<1> DEFINE b == Bury(d)
           c == restorePendingInterrupt(b)
<1>1. Good(b) /\ AfterBury(client, b, d)
  BY BuryFields
<1>2. d.phase # "check"
  BY DEF Unwind
<1> HIDE DEF b
<1>3. Dim(client, b)
  BY <1>1, <1>2 DEF AfterBury, Dim
<1>4. Good(c) /\ Dim(b, c)
  BY <1>1, RestoreGood, DimFields
<1>5. client' = c \/ client' = Finally(c, d.back)
  BY DEF Unwind, b
<1> HIDE DEF c
<1>6. Dim(c, Finally(c, d.back))
  BY <1>4, DimFields
<1> QED
  BY <1>3, <1>4, <1>5, <1>6, DimOnward

\* What the finally callback of an ended run comes to.
LEMMA LateResetFields ==
    ASSUME IInv, NEW f \in client.resets, LateReset(f)
    PROVE  /\ client'.sub = NoSub /\ client'.timers = client.timers
           /\ LateChecks(client') = LateChecks(client) \cup Abandoned(client.sub)
           /\ client'.chunks = <<>> /\ client'.human = FALSE
           /\ client'.active = client.active /\ client'.seq = client.seq
           /\ client'.awaiting = client.awaiting /\ client'.away = client.away
           /\ client'.resumes = client.resumes /\ client'.resets = client.resets \ {f}
           /\ client'.streaming => client.streaming
<1> DEFINE b == [client EXCEPT !.resets = @ \ {f}]
           c == resetOnGoingConv(b)
           e == IF f.asked THEN restorePendingInterrupt(c) ELSE c
<1>0. Good(client)
  BY DEF IInv
<1>1. Good([client EXCEPT !.resets = client.resets \ {f}])
  BY <1>0, DropGood
<1>2. /\ Beside(client, b) /\ b.active = client.active /\ b.seq = client.seq
      /\ b.sub = client.sub /\ b.dead = client.dead /\ b.streaming = client.streaming
      /\ b.timers = client.timers /\ b.resets = client.resets \ {f}
  BY <1>0 DEF Good, Wide, Beside
<1>3. Good(b)
  BY <1>1
<1>4. client' = Unwound(e)
  BY DEF LateReset
<1> HIDE DEF b
<1>5. LateChecks(b) = LateChecks(client)
  BY <1>2 DEF LateChecks
<1>6. AfterReset(b, c) /\ Good(c)
  BY <1>3, ResetFields, ResetGood
<1> HIDE DEF c
<1>7. Dim(c, c)
  BY DEF Dim, Same, Beside
<1>8. Dim(c, e) /\ Good(e)
  BY <1>6, <1>7, DimFields, RestoreGood
<1> HIDE DEF e
<1>9. Dim(e, Unwound(e))
  BY <1>8, DimFields
<1>10. Dim(c, client')
  BY <1>4, <1>8, <1>9, DimOnward
<1> QED
  BY <1>2, <1>5, <1>6, <1>10 DEF AfterReset, Cut, Dim, Same, Beside

LEMMA SpinOfTheLate ==
    ASSUME IInv, Tied(client),
           \/ \E d \in client.dead : LateAnswer(d) \/ LateFailure(d) \/ Unwind(d)
           \/ \E r \in client.timers : Reconnect(r)
           \/ \E f \in client.resets : LateReset(f)
    PROVE  Tied(client') /\ (overtaken' \/ (Waits(client) => Waits(client')))
<1>0. Good(client)
  BY DEF IInv
<1>1. ASSUME NEW d \in client.dead, NEW st, LateCheck(d, st)
      PROVE  Kept(client, client')
  <2> DEFINE b == Bury(d)
  <2>1. PICK c : /\ AfterChecked(b, c, d.run, st)
                 /\ st = "interrupted" /\ client.pending = d.run => ~client'.streaming
                 /\ Dim(c, client')
    BY <1>1, LateCheckFields
  <2>2. AfterBury(client, b, d)
    BY BuryFields
  <2> HIDE DEF b
  <2>3. CASE ~client'.streaming
    BY <2>3, DarkKept
  <2>4. CASE client'.streaming
    <3>1. b.pending = client.pending /\ c.streaming
      BY <2>1, <2>2, <2>4 DEF AfterBury, Dim
    <3>2. /\ c.active = b.active /\ c.streaming = b.streaming /\ b.timers \subseteq c.timers
          /\ c.active = d.run => d.run \in c.timers
      BY <2>1, <2>4, <3>1 DEF AfterChecked
    <3>3. /\ client'.active = client.active /\ client.streaming /\ client'.sub = client.sub
          /\ client'.awaiting = client.awaiting /\ client'.away = client.away
          /\ client'.resumes = client.resumes
      BY <2>1, <2>2, <3>1, <3>2 DEF AfterBury, AfterChecked, Dim, Same, Beside
    <3>4. GoesOn(client, client.active) => GoesOn(client', client.active)
      <4>1. client.timers \subseteq client'.timers
        BY <2>1, <2>2, <3>2 DEF AfterBury, Dim
      <4>2. LateChecks(client) \subseteq LateChecks(client') \cup {d.run}
        BY <2>1, <2>2 DEF AfterBury, AfterChecked, Dim
      <4>3. client.active = d.run => d.run \in client'.timers
        BY <2>1, <2>2, <3>2 DEF AfterBury, Same, Dim
      <4> QED
        BY <3>3, <4>1, <4>2, <4>3 DEF GoesOn
    <3> QED
      BY <3>3, <3>4 DEF Kept, Tied, Waits, Comes
  <2> QED
    BY <2>3, <2>4
<1>2. ASSUME NEW d \in client.dead, LateAnswer(d) \/ LateFailure(d)
      PROVE  Kept(client, client')
  BY <1>1, <1>2 DEF LateAnswer, LateFailure
<1>3. ASSUME NEW d \in client.dead, Unwind(d)
      PROVE  Kept(client, client')
  BY <1>3, UnwindFields, DimKept
<1>4. ASSUME NEW r \in client.timers, Reconnect(r)
      PROVE  Kept(client, client')
  <2> DEFINE c == [client EXCEPT !.timers = @ \ {r}]
  <2>1. Good([client EXCEPT !.timers = client.timers \ {r}])
    BY <1>0, DropGood
  <2>2. /\ Same(client, c) /\ c.sub = client.sub /\ c.dead = client.dead
        /\ c.streaming = client.streaming /\ c.timers = client.timers \ {r} /\ r \in Runs
        /\ c.seq \in Nat /\ Good(c)
    BY <1>0, <2>1 DEF Good, Wide, Same, Beside
  <2>3. \/ client' = startRunStream(c, r, c.seq, FALSE)
        \/ ~(c.active = r /\ c.sub = NoSub) /\ client' = c
    BY <1>4 DEF Reconnect
  <2> HIDE DEF c
  <2>4. CASE client' = startRunStream(c, r, c.seq, FALSE)
    <3>1. AfterStart(c, client', r, c.seq)
      BY <2>2, <2>4, StartFields
    <3> QED
      BY <3>1, StartKept DEF AfterStart
  <2>5. CASE ~(c.active = r /\ c.sub = NoSub) /\ client' = c
    <3>1. LateChecks(c) = LateChecks(client)
      BY <2>2 DEF LateChecks
    <3>2. client.sub # NoSub => client.sub.phase \in {"read", "check", "preserve"}
      BY <1>0 DEF Good, Wide, Subscribed
    <3> QED
      BY <2>2, <2>5, <3>1, <3>2 DEF Kept, Tied, Waits, GoesOn, Comes, Same, Beside
  <2> QED
    BY <2>3, <2>4, <2>5
<1>5. ASSUME NEW f \in client.resets, LateReset(f)
      PROVE  Tied(client') /\ (overtaken' \/ (Waits(client) => Waits(client')))
  <2>1. /\ client'.sub = NoSub /\ client'.timers = client.timers
        /\ LateChecks(client') = LateChecks(client) \cup Abandoned(client.sub)
        /\ client'.active = client.active
        /\ client'.awaiting = client.awaiting /\ client'.away = client.away
        /\ client'.resumes = client.resumes
        /\ client'.streaming => client.streaming
    BY <1>5, LateResetFields
  <2>2. overtaken' \/ client.active = 0 \/ (client.active = f.run /\ ~Restarted(f.run))
    BY <1>5 DEF LateReset, Heeds
  <2>3. GoesOn(client, client.active) /\ client.streaming =>
           overtaken' \/ GoesOn(client', client.active)
    <3>1. CASE client.active = 0
      <4>1. 0 \notin client.timers /\ 0 \notin LateChecks(client)
        BY <1>0, RunsFacts DEF Good, Wide, WideDead, LateChecks
      <4>2. ~(client.sub.run = 0 /\ client.sub.phase \in {"read", "check"})
        BY <1>0, NoSubFacts, RunsFacts DEF Good, Subscribed
      <4> QED
        BY <3>1, <4>1, <4>2 DEF GoesOn
    <3>2. CASE client.active = f.run /\ ~Restarted(f.run)
      <4>1. client.streaming => client.sub = NoSub
        BY <3>2 DEF Tied, Restarted
      <4> QED
        BY <2>1, <4>1, NoSubFacts DEF GoesOn
    <3> QED
      BY <2>2, <3>1, <3>2
  <2> QED
    BY <2>1, <2>3 DEF Tied, Waits, Comes
<1> QED
  BY <1>2, <1>3, <1>4, <1>5 DEF Kept

\* The page behind the answer a resumption waited for, with another snapshot or
\* without one.
LEMMA ForgottenFields ==
    ASSUME NEW c, Good(c)
    PROVE  LET e == [c EXCEPT !.snap = NoSnap] IN Good(e) /\ Dim(c, e) /\ e.streaming = c.streaming
<1> DEFINE e == [c EXCEPT !.snap = NoSnap]
<1>1. Good(e)
  BY ForgetGood, RunsFacts
<1>2. Same(c, e) /\ e.sub = c.sub /\ e.timers = c.timers /\ e.dead = c.dead
      /\ e.streaming = c.streaming
  BY DEF Good, Wide, Same, Beside
<1> HIDE DEF e
<1>3. Dim(c, e)
  BY <1>2 DEF Dim, LateChecks
<1> QED
  BY <1>1, <1>2, <1>3 DEF e

LEMMA SpinOfResumption ==
    ASSUME IInv, Tied(client), NEW x \in client.resumes,
           BeginResume(x) \/ ResumeLive(x) \/ ResumeSnapshot(x) \/ ResumeThread(x)
           \/ ResumeFails(x)
    PROVE  Kept(client, client')
<1> DEFINE c == Answered(x)
           cs == [c EXCEPT !.snap = NoSnap]
<1>0. Good(client)
  BY DEF IInv
<1>1. /\ Good(c) /\ c.awaiting = client.awaiting /\ c.away = client.away
      /\ c.active = client.active /\ c.sub = client.sub /\ c.timers = client.timers
      /\ c.streaming = client.streaming /\ c.resumes = client.resumes \ {x}
      /\ LateChecks(c) = LateChecks(client) /\ c.pending = client.pending
  BY <1>0, AnsweredGood, AnsweredFields
<1>2. x.step \in {"live", "snapshot"} => x.run \in Runs
  BY <1>0, AnsweredGood
<1>3. x.seq \in Nat /\ c.seq \in Nat
  BY <1>0, <1>1, AnsweredGood DEF Good, Wide
<1>4. Good(cs) /\ Dim(c, cs) /\ cs.streaming = c.streaming
  BY <1>1, ForgottenFields
<1> HIDE DEF c, cs
<1>5. ASSUME NEW e, e \in {c, cs}, NEW step, NEW n, step # "live", client' = Await(e, step, n)
      PROVE  Kept(client, client')
  <2>1. AfterAwait(e, client', step) /\ Dim(c, e) /\ e.streaming = c.streaming
    BY <1>1, <1>4, <1>5, AwaitFields DEF Dim, Same, Beside
  <2>2. Comes(client')
    BY <1>5, <2>1 DEF AfterAwait, Comes
  <2> QED
    BY <1>1, <2>1, <2>2 DEF AfterAwait, Kept, Tied, Waits, Dim, Same
<1>6. ASSUME x.step = "live", client' = restorePendingInterrupt(c)
      PROVE  Kept(client, client')
  <2>1. Dim(c, client')
    BY <1>1, <1>6, DimFields
  <2> QED
    BY <1>1, <1>6, <2>1 DEF Dim, Same, Beside, Kept, Tied, Waits, GoesOn, Comes
<1>7. ASSUME NEW r \in Runs, NEW n \in Nat, client' = Resumed(x, r, n)
      PROVE  Kept(client, client')
  <2>1. AfterResumed(c, client', r, n)
    BY <1>0, <1>7, ResumedFields DEF c
  <2> QED
    BY <2>1, StartKept DEF AfterResumed
<1>8. ASSUME client' = GiveUp(c)
      PROVE  Kept(client, client')
  BY <1>1, <1>8, GiveUpFields, DarkKept DEF AfterGiveUp
<1>9. ASSUME NEW r \in Runs, NEW n \in Nat, client' = Preserve(c, r, n)
      PROVE  Kept(client, client')
  <2>1. AfterPreserve(c, client', r, n)
    BY <1>1, <1>9, PreserveFields
  <2> QED
    BY <2>1, DarkKept DEF AfterPreserve
<1>10. CASE BeginResume(x)
  <2>1. \/ c.sub # NoSub /\ c.active = 0 /\ client' = restorePendingInterrupt(c)
        \/ c.sub # NoSub /\ \E n : client' = Await(c, "live", n)
        \/ \E n : \E e \in {c, cs}, step \in {"thread", "snapshot"} : client' = Await(e, step, n)
    BY <1>10 DEF BeginResume, c, cs
  <2>2. ASSUME c.sub # NoSub
        PROVE  c.streaming => /\ c.sub.run = c.active /\ c.active # 0
                              /\ c.sub.phase \in {"read", "check"}
    <3>1. Subscribed(c.sub) /\ c.sub.phase \in {"none", "read", "check", "preserve"}
      BY <1>0, <1>1, <2>2 DEF Good, Wide
    <3> QED
      BY <1>1, <2>2, <3>1, RunsFacts DEF Subscribed, Tied
  <2>3. CASE c.sub # NoSub /\ c.active = 0 /\ client' = restorePendingInterrupt(c)
    <3>1. Dim(c, client')
      BY <1>1, <2>3, DimFields
    <3>2. ~client'.streaming
      BY <2>2, <2>3, <3>1 DEF Dim
    <3> QED
      BY <3>2, DarkKept
  <2>4. ASSUME NEW n, c.sub # NoSub, client' = Await(c, "live", n)
        PROVE  Kept(client, client')
    <3>1. AfterAwait(c, client', "live")
      BY <1>1, <2>4, AwaitFields
    <3> QED
      BY <1>1, <2>2, <2>4, <3>1 DEF AfterAwait, Kept, Tied, Waits, GoesOn
  <2> QED
    BY <1>5, <2>1, <2>3, <2>4
<1>11. CASE ResumeLive(x)
  <2> DEFINE b == stopRunStreamSubscription(c)
             n == IF b.snap = NoSnap THEN b.seq ELSE b.snap.seq
             p == IF b.pending = x.run THEN 0 ELSE b.pending
             e == [b EXCEPT !.active = 0, !.streaming = FALSE, !.snap = NoSnap, !.pending = p]
  <2>1. x.run \in Runs /\ x.step = "live"
    BY <1>2, <1>11 DEF ResumeLive
  <2>2. Good(b)
    BY <1>1, StopGood
  <2>3. n \in Nat /\ p \in 0..MaxRuns
    BY <2>2, RunsFacts DEF Good, Wide, Snaps
  <2>4. \/ client' = Unwound(Preserve(b, x.run, n))
        \/ client' = Resumed(x, x.run, 0)
        \/ client' = restorePendingInterrupt(Unwound(e))
        \/ client' = restorePendingInterrupt(c)
    BY <1>11 DEF ResumeLive, c
  <2> HIDE DEF b, n, p
  <2>5. Dim(Preserve(b, x.run, n), Unwound(Preserve(b, x.run, n)))
        /\ ~Preserve(b, x.run, n).streaming
    <3>1. Good(Preserve(b, x.run, n)) /\ AfterPreserve(b, Preserve(b, x.run, n), x.run, n)
      BY <2>1, <2>2, <2>3, PreserveGood, PreserveFields
    <3> QED
      BY <3>1, DimFields DEF AfterPreserve
  <2>6. Dim(e, restorePendingInterrupt(Unwound(e))) /\ ~e.streaming
    <3>1. Good(e) /\ AfterGiveUp(b, e)
      BY <2>2, <2>3, ForgetGood, GiveUpFields, RunsFacts
    <3> HIDE DEF e
    <3>2. Dim(e, Unwound(e)) /\ Good(Unwound(e))
      BY <3>1, DimFields, UnwoundGood
    <3>3. Dim(Unwound(e), restorePendingInterrupt(Unwound(e)))
      BY <3>2, DimFields
    <3> QED
      BY <3>1, <3>2, <3>3, DimOnward DEF AfterGiveUp
  <2> QED
    BY <1>6, <1>7, <2>1, <2>4, <2>5, <2>6, DarkKept, RunsFacts DEF Dim
<1>12. CASE ResumeSnapshot(x)
  <2> DEFINE after == resolveRunResumeAfterSeq(c, x.run)
  <2>1. x.run \in Runs
    BY <1>2, <1>12 DEF ResumeSnapshot
  <2>2. after \in Nat
    BY <1>3, RunsFacts DEF resolveRunResumeAfterSeq
  <2>3. client' = Preserve(c, x.run, x.seq) \/ client' = Resumed(x, x.run, after)
        \/ client' = Await(cs, "thread", NoSnap)
    BY <1>12 DEF ResumeSnapshot, c, cs
  <2> HIDE DEF after
  <2> QED
    BY <1>3, <1>5, <1>7, <1>9, <2>1, <2>2, <2>3
<1>13. CASE ResumeThread(x)
  <2>1. client' = GiveUp(c) \/ \E r \in ActiveRun : client' = Preserve(c, r, c.seq)
                                                 \/ client' = Resumed(x, r, 0)
    BY <1>13 DEF ResumeThread, c
  <2>2. ActiveRun \subseteq Runs
    BY DEF ActiveRun, Created
  <2> QED
    BY <1>3, <1>7, <1>8, <1>9, <2>1, <2>2, RunsFacts
<1>14. CASE ResumeFails(x)
  <2>1. \/ x.step = "live" /\ client' = restorePendingInterrupt(c)
        \/ client' = Await(cs, "thread", NoSnap)
        \/ client' = GiveUp(c)
    BY <1>14 DEF ResumeFails, c, cs
  <2> QED
    BY <1>5, <1>6, <1>8, <2>1
<1> QED
  BY <1>10, <1>11, <1>12, <1>13, <1>14

\* What the answer to a message or a reply comes to.
LEMMA ResponseFields ==
    ASSUME IInv, NEW r \in client.awaiting, Response(r)
    PROVE  LET c == Arrived(r) IN
           /\ client'.sub.run = r /\ client'.sub.phase = "read" /\ client'.sub.pos = 0
           /\ client'.sub.saw = FALSE /\ client'.active = r /\ client'.seq = 0
           /\ Beside(c, client') /\ client'.resets = c.resets /\ r \in Runs
<1> DEFINE c == Arrived(r)
           e == startRunStream(c, r, 0, FALSE)
<1>1. Good(client) /\ r \in Runs
  BY DEF IInv, Good, Wide
<1>2. Good(c)
  BY <1>1, ArrivedFields
<1>3. client' = Unwound(e)
  BY DEF Response
<1> HIDE DEF c
<1>4. AfterStart(c, e, r, 0) /\ Good(e)
  BY <1>1, <1>2, StartFields, StartGood, RunsFacts
<1> HIDE DEF e
<1>5. Dim(e, client')
  BY <1>3, <1>4, DimFields
<1> QED
  BY <1>1, <1>4, <1>5 DEF AfterStart, Dim, Same, Beside, c

LEMMA NotCreatedFields ==
    ASSUME IInv, NEW r \in client.awaiting, NotCreated(r)
    PROVE  /\ client'.streaming = FALSE /\ client'.active = client.active
           /\ client'.seq = client.seq /\ client'.timers = client.timers
           /\ client'.awaiting = client.awaiting \ {r}
           /\ client'.resumes = client.resumes /\ client'.resets = client.resets
           /\ parent[r] = 0 =>
                /\ client'.sub = NoSub /\ client'.chunks = <<>> /\ client'.human = FALSE
                /\ LateChecks(client') = LateChecks(client) \cup Abandoned(client.sub)
           /\ parent[r] # 0 =>
                /\ client'.sub = client.sub /\ client'.chunks = client.chunks
                /\ client'.human = client.human /\ LateChecks(client') = LateChecks(client)
<1> DEFINE c == Arrived(r)
           q == [c EXCEPT !.streaming = FALSE]
           e == [c EXCEPT !.streaming = FALSE, !.pending = parent[r]]
<1>0. Good(client)
  BY DEF IInv
<1>1. /\ Good(c) /\ c.chunks = client.chunks /\ c.human = client.human
      /\ c.resumes = client.resumes /\ c.active = client.active /\ c.seq = client.seq
      /\ c.resets = client.resets /\ c.sub = client.sub /\ c.timers = client.timers
      /\ c.awaiting = client.awaiting \ {r} /\ LateChecks(c) = LateChecks(client)
  BY <1>0, ArrivedFields
<1>2. client' = IF parent[r] = 0 THEN Unwound(resetOnGoingConv(q)) ELSE e
  BY DEF NotCreated
<1> HIDE DEF c
<1>3. CASE parent[r] = 0
  <2>1. Good(q)
    BY <1>1, ForgetGood, RunsFacts
  <2>2. Same(c, q) /\ q.sub = c.sub /\ q.timers = c.timers /\ q.dead = c.dead
        /\ q.streaming = FALSE
    BY <1>1 DEF Good, Wide, Same, Beside
  <2> HIDE DEF q
  <2> DEFINE a == resetOnGoingConv(q)
  <2>3. AfterReset(q, a) /\ Good(a)
    BY <2>1, ResetFields, ResetGood
  <2> HIDE DEF a
  <2>4. Dim(a, client') /\ client'.streaming \in BOOLEAN
    <3>1. Dim(a, Unwound(a)) /\ Good(Unwound(a))
      BY <2>3, DimFields, UnwoundGood
    <3> QED
      BY <1>2, <1>3, <3>1 DEF Good, Wide, a
  <2>5. LateChecks(q) = LateChecks(c)
    BY <2>2 DEF LateChecks
  <2> QED
    BY <1>1, <1>3, <2>2, <2>3, <2>4, <2>5 DEF AfterReset, Cut, Dim, Same, Beside
<1>4. CASE parent[r] # 0
  <2>1. /\ Same(c, e) /\ e.sub = c.sub /\ e.timers = c.timers /\ e.dead = c.dead
        /\ e.streaming = FALSE
    BY <1>1 DEF Good, Wide, Same, Beside
  <2>2. client' = e
    BY <1>2, <1>4
  <2> HIDE DEF e
  <2>3. LateChecks(e) = LateChecks(c)
    BY <2>1 DEF LateChecks
  <2> QED
    BY <1>1, <1>4, <2>1, <2>2, <2>3 DEF Same, Beside
<1> QED
  BY <1>3, <1>4

LEMMA AskingFields ==
    ASSUME IInv, NEW r \in Runs, NEW p, Asking(r, p, [client EXCEPT !.pending = 0])
    PROVE  /\ client'.sub = NoSub /\ client'.chunks = <<>> /\ client'.human = (p = 0)
           /\ client'.awaiting = client.awaiting \cup {r} /\ client'.resets = client.resets
<1> DEFINE a == [client EXCEPT !.pending = 0]
           b == resetOnGoingConv(a)
           h == p = 0
           e == [b EXCEPT !.streaming = TRUE, !.human = h, !.awaiting = @ \cup {r}]
<1>0. Good(client)
  BY DEF IInv
<1>1. Good(a)
  BY <1>0, ForgetGood, RunsFacts
<1>2. a.awaiting = client.awaiting /\ a.resets = client.resets
  BY <1>0 DEF Good, Wide
<1>3. client' = Unwound(e)
  BY DEF Asking
<1> HIDE DEF a
<1>4. Good(b) /\ AfterReset(a, b)
  BY <1>1, ResetGood, ResetFields
<1>5. h \in BOOLEAN
  OBVIOUS
<1> HIDE DEF b, h
<1>6. /\ e \in Wide /\ e.sub = b.sub /\ e.snap = b.snap /\ e.resumes = b.resumes
      /\ e.active = b.active /\ e.seq = b.seq /\ e.chunks = b.chunks /\ e.human = h
      /\ e.awaiting = b.awaiting \cup {r} /\ e.resets = b.resets
  BY <1>4, <1>5 DEF Good, Wide
<1>7. Good(e)
  BY <1>4, <1>6 DEF Good, Agrees
<1> HIDE DEF e
<1>8. Dim(e, Unwound(e))
  BY <1>7, DimFields
<1> QED
  BY <1>2, <1>3, <1>4, <1>6, <1>8 DEF AfterReset, Cut, Dim, Same, Beside, h

\* Leaving the thread, coming back to it, and the stop button.
LEMMA LeaveFields ==
    ASSUME IInv, Leave
    PROVE  /\ client'.active = client.active /\ client'.seq = client.seq
           /\ client'.chunks = client.chunks /\ client'.human = client.human
           /\ client'.awaiting = client.awaiting /\ client'.resets = client.resets
           /\ client'.timers = client.timers /\ client'.sub = NoSub /\ client'.away = TRUE
           /\ LateChecks(client') = LateChecks(client) \cup Abandoned(client.sub)
<1> DEFINE b == stopRunStreamSubscription(client)
           e == [b EXCEPT !.away = TRUE]
<1>1. Good(b) /\ AfterStop(client, b)
  BY StopGood, StopFields DEF IInv
<1>2. client' = Unwound(e)
  BY DEF Leave
<1> HIDE DEF b
<1>3. Good(e)
  BY <1>1, AwayGood
<1>4. /\ e.timers = b.timers /\ e.sub = b.sub /\ e.dead = b.dead /\ e.away = TRUE
      /\ e.active = b.active /\ e.seq = b.seq /\ e.chunks = b.chunks /\ e.human = b.human
      /\ e.awaiting = b.awaiting /\ e.resets = b.resets
  BY <1>1 DEF Good, Wide
<1> HIDE DEF e
<1>5. LateChecks(e) = LateChecks(b)
  BY <1>4 DEF LateChecks
<1>6. Dim(e, client')
  BY <1>2, <1>3, DimFields
<1> QED
  BY <1>1, <1>4, <1>5, <1>6 DEF AfterStop, Cut, Dim, Same, Beside

LEMMA VisitFields ==
    ASSUME IInv, Return \/ Refocus \/ StopRun
    PROVE  /\ client'.active = client.active /\ client'.seq = client.seq
           /\ client'.chunks = client.chunks /\ client'.human = client.human
           /\ client'.awaiting = client.awaiting /\ client'.resets = client.resets
           /\ client'.timers = client.timers /\ client'.sub = client.sub
           /\ LateChecks(client') = LateChecks(client)
           /\ client'.streaming => client.streaming
           /\ Comes(client') \/ (client'.resumes = client.resumes /\ client'.away = client.away)
<1>0. Good(client)
  BY DEF IInv
<1>1. ASSUME NEW c, Good(c), client' = Begin(c)
      PROVE  AfterAwait(c, client', "begin") /\ Comes(client')
  <2>1. AfterAwait(c, client', "begin")
    BY <1>1, AwaitFields DEF Begin
  <2> QED
    BY <2>1 DEF AfterAwait, Comes
<1>2. CASE Return
  <2> DEFINE a == [client EXCEPT !.away = FALSE]
             c == restorePendingInterrupt(a)
  <2>1. /\ a.active = client.active /\ a.seq = client.seq /\ a.chunks = client.chunks
        /\ a.human = client.human /\ a.awaiting = client.awaiting /\ a.resets = client.resets
        /\ a.timers = client.timers /\ a.streaming = client.streaming /\ a.sub = client.sub
        /\ a.dead = client.dead
    BY <1>0 DEF Good, Wide
  <2>2. Good(a) /\ client' = Begin(c)
    BY <1>0, <1>2, AwayGood DEF Return
  <2> HIDE DEF a
  <2>3. LateChecks(a) = LateChecks(client)
    BY <2>1 DEF LateChecks
  <2>4. Good(c) /\ Dim(a, c)
    BY <2>2, RestoreGood, DimFields
  <2>5. AfterAwait(c, client', "begin") /\ Comes(client')
    BY <1>1, <2>2, <2>4
  <2> HIDE DEF c
  <2> QED
    BY <2>1, <2>3, <2>4, <2>5 DEF AfterAwait, Dim, Same, Beside
<1>3. CASE Refocus
  <2>1. AfterAwait(client, client', "begin") /\ Comes(client')
    BY <1>0, <1>1, <1>3 DEF Refocus
  <2> QED
    BY <2>1 DEF AfterAwait
<1>4. CASE StopRun
  <2>1. client' = [client EXCEPT !.pending = 0]
    BY <1>4 DEF StopRun
  <2>2. /\ Same(client, client') /\ client'.timers = client.timers /\ client'.sub = client.sub
        /\ client'.dead = client.dead /\ client'.streaming = client.streaming
    BY <1>0, <2>1 DEF Good, Wide, Same, Beside
  <2>3. LateChecks(client') = LateChecks(client)
    BY <2>2 DEF LateChecks
  <2> QED
    BY <2>2, <2>3 DEF Same, Beside
<1> QED
  BY <1>2, <1>3, <1>4

LEMMA SpinOfUser ==
    ASSUME IInv, Tied(client), UserNext
    PROVE  Kept(client, client')
<1>1. CASE Leave
  BY <1>1, LeaveFields DEF Kept, Tied, Waits
<1>2. CASE Return \/ Refocus \/ StopRun
  BY <1>2, VisitFields DEF Kept, Tied, Waits, GoesOn, Comes
<1>3. CASE Reload
  BY <1>3, DarkKept DEF Reload, Fresh
<1>4. CASE \E r \in Runs : Send(r) \/ Reply(r)
  <2>1. PICK p, r : r \in Runs /\ Asking(r, p, [client EXCEPT !.pending = 0])
    BY <1>4 DEF Send, Reply
  <2> QED
    BY <2>1, AskingFields DEF Kept, Tied, Waits, Comes
<1> QED
  BY <1>1, <1>2, <1>3, <1>4 DEF UserNext

LEMMA SpinOfAnswer ==
    ASSUME IInv, NEW r \in client.awaiting, Response(r) \/ NotCreated(r)
    PROVE  Kept(client, client')
<1>1. CASE Response(r)
  BY <1>1, ResponseFields, StartKept
<1>2. CASE NotCreated(r)
  BY <1>2, NotCreatedFields, DarkKept
<1> QED
  BY <1>1, <1>2

\* Whatever crosses on the page, as long as it says that a reply is being
\* written there is a stream, a check, a reconnection, a resumption or a request
\* that will end this, unless a continuation acted on a thread that had moved on.
THEOREM SpinnersHaveASource == Spec => []SpinnerHasSource
<1>1. Init => SpinInv
  BY DEF Init, Fresh, SpinInv, Tied, Waits
<1>2. IInv /\ SpinInv /\ [Next]_vars => SpinInv'
  <2> SUFFICES ASSUME IInv, SpinInv, [Next]_vars PROVE SpinInv'
    OBVIOUS
  <2>1. overtaken => overtaken'
    BY DEF Next, ServerNext, StreamNext, FaultNext, UserNext, vars, EndRow, AppendEnd, Create,
           Publish, Deliver, Close, CheckAnswered, Preserved, LateAnswer, Unwind, Reconnect,
           LateReset, BeginResume, ResumeLive, ResumeSnapshot, ResumeThread, Response, Refused,
           NotCreated, TimesOut, Unavailable, Breaks, CheckFails, LateFailure, ResumeFails,
           CreateFails, Leave, Return, Refocus, Reload, StopRun, Send, Reply, Asking, Heeds,
           ClientStep, Trouble
  <2>2. Tied(client') /\ (overtaken' \/ (Waits(client) => Waits(client')))
    <3>1. CASE ServerNext \/ UNCHANGED vars
      <4>1. client' = client
        BY <3>1 DEF ServerNext, EndRow, AppendEnd, Create, Publish, vars
      <4> QED
        BY <4>1 DEF SpinInv
    <3>2. CASE UserNext
      BY <3>2, SpinOfUser DEF SpinInv, Kept
    <3>3. CASE Deliver \/ Close \/ TimesOut \/ Unavailable \/ Breaks
               \/ CheckAnswered \/ CheckFails \/ Preserved
      BY <3>3, SpinOfStream DEF SpinInv, Kept
    <3>4. CASE \/ \E d \in client.dead : LateAnswer(d) \/ LateFailure(d) \/ Unwind(d)
               \/ \E r \in client.timers : Reconnect(r)
               \/ \E f \in client.resets : LateReset(f)
      BY <3>4, SpinOfTheLate DEF SpinInv
    <3>5. CASE \E x \in client.resumes :
                 BeginResume(x) \/ ResumeLive(x) \/ ResumeSnapshot(x) \/ ResumeThread(x)
                 \/ ResumeFails(x)
      BY <3>5, SpinOfResumption DEF SpinInv, Kept
    <3>6. CASE \E r \in client.awaiting : Response(r) \/ NotCreated(r)
      BY <3>6, SpinOfAnswer DEF Kept
    <3> QED
      BY <3>1, <3>2, <3>3, <3>4, <3>5, <3>6
         DEF Next, StreamNext, FaultNext, Refused, CreateFails
  <2>3. SpinInv' = (Tied(client') /\ (overtaken' \/ Waits(client')))
    BY DEF SpinInv, Tied, Waits, GoesOn, Comes, LateChecks, NoSub
  <2> QED
    BY <2>1, <2>2, <2>3 DEF SpinInv
<1>3. SpinInv => SpinnerHasSource
  <2>1. GoesOn(client, client.active) => Follows(client.active)
    BY DEF GoesOn, Follows, LateChecks
  <2> QED
    BY <2>1 DEF SpinInv, Waits, Comes, Coming, SpinnerHasSource
<1> QED
  BY <1>1, <1>2, <1>3, Invariance, PTL DEF Spec

-----------------------------------------------------------------------------
(* Why the answer is whole.                                                *)

\* The page may go on with what it shows of the active run: it reads or checks
\* the run's stream, a reconnection or a late check may lead there and no message
\* is on its way, or a resumption may go on from the chunks that are there.
Engaged(c) == c.sub.run = c.active /\ c.sub.phase \in {"read", "check"}
Needs(c) ==
    /\ c.active # 0
    /\ \/ Engaged(c)
       \/ c.awaiting = {} /\ c.active \in c.timers
       \/ c.awaiting = {} /\ status[c.active] # "interrupted" /\ c.active \in LateChecks(c)
       \/ /\ status[c.active] # "interrupted"
          /\ c.chunks # <<>> \/ (c.human /\ \A q \in c.awaiting : parent[q] # 0)

\* Of a run whose creation is still under way the page can have seen nothing.
Unheard(c) == \A r \in c.awaiting : c.sub.run # r /\ Shown(c, r) = {}

\* runLastSeq is never behind what the stream has delivered.
Upto(c) == c.sub.phase = "read" /\ c.sub.run = c.active => c.sub.pos <= c.seq

Tells(c) == (Needs(c) => Whole(c, c.active, c.seq)) /\ Unheard(c) /\ Upto(c)

\* A finally callback shows its question again only for an interrupted run.
ResetsOK(c) == \A f \in c.resets : f.asked => status[f.run] = "interrupted"

WholeInv == ResetsOK(client) /\ (overtaken \/ Tells(client))

\* Steps that take no run and show no more of the active one.
Narrow(c, e) ==
    /\ e.active \in {0, c.active}
    /\ e.active # 0 => e.seq = c.seq
    /\ e.chunks = c.chunks /\ e.human = c.human /\ e.awaiting = c.awaiting
    /\ \/ e.sub = NoSub
       \/ /\ e.sub.run = c.sub.run
          /\ e.sub.phase \in {"read", "check"} => c.sub.phase \in {"read", "check"}
          /\ e.sub.phase = "read" => c.sub.phase = "read" /\ e.sub.pos = c.sub.pos
    /\ e.active # 0 /\ e.awaiting = {} /\ e.active \in e.timers => Needs(c) \/ e.active \in c.timers
    /\ e.active # 0 /\ e.active \in LateChecks(e) => Needs(c) \/ e.active \in LateChecks(c)

LEMMA NarrowTells ==
    ASSUME NEW c, NEW e, Good(c), Tells(c), Narrow(c, e)
    PROVE  Tells(e)
<1>1. Needs(e) => e.active = c.active /\ e.seq = c.seq /\ Needs(c)
  BY NoSubFacts DEF Narrow, Needs, Engaged
<1>2. Whole(c, c.active, c.seq) /\ e.active = c.active /\ e.seq = c.seq
         => Whole(e, e.active, e.seq)
  BY DEF Narrow, Whole, Shown
<1>3. Unheard(e)
  <2>1. c.awaiting \subseteq Runs
    BY DEF Good, Wide
  <2> QED
    BY <2>1, NoSubFacts, RunsFacts DEF Narrow, Tells, Unheard, Shown
<1>4. Upto(e)
  <2>1. e.sub.phase = "read" => e.sub.run = c.sub.run /\ c.sub.run \in Runs
    BY NoSubFacts DEF Narrow, Good, Subscribed
  <2> QED
    BY <2>1, NoSubFacts, RunsFacts DEF Narrow, Tells, Upto
<1> QED
  BY <1>1, <1>2, <1>3, <1>4 DEF Tells

LEMMA DimTells ==
    ASSUME NEW c, NEW e, Tells(c), Dim(c, e)
    PROVE  Tells(e)
<1>1. Needs(e) => Needs(c)
  BY DEF Dim, Same, Beside, Needs, Engaged
<1>2. Whole(c, c.active, c.seq) => Whole(e, e.active, e.seq)
  BY DEF Dim, Same, Beside, Whole, Shown
<1>3. Unheard(e) /\ Upto(e)
  BY DEF Dim, Same, Beside, Tells, Unheard, Upto, Shown
<1> QED
  BY <1>1, <1>2, <1>3 DEF Tells

\* A page without a stream that shows nothing.
LEMMA NothingTells ==
    ASSUME NEW e, e.awaiting \subseteq Runs, e.sub = NoSub, e.chunks = <<>>
    PROVE  Unheard(e) /\ Upto(e)
<1>1. DOMAIN e.chunks = {}
  OBVIOUS
<1> QED
  BY <1>1, NoSubFacts, RunsFacts DEF Unheard, Upto, Shown

\* Reading run r from behind what the page shows of it.
LEMMA StartTells ==
    ASSUME NEW e, NEW r, e.sub.run = r, e.active = r, e.sub.pos = e.seq, e.seq \in Nat,
           Whole(e, r, e.seq), Unheard(e)
    PROVE  Tells(e)
BY DEF Tells, Upto

LEMMA NothingIsWhole ==
    ASSUME ServerOK, NEW c, NEW r \in Runs, Shown(c, r) = {}
    PROVE  Whole(c, r, 0)
<1>1. log[r] \in Seq(AllKinds \cup {"end"})
  BY DEF ServerOK
<1>2. 0 <= Len(log[r])
  BY <1>1, LenProperties
<1>3. {i \in 1..0 : log[r][i] = "chunk"} = {}
  OBVIOUS
<1> QED
  BY <1>2, <1>3 DEF Whole

LEMMA NoneShown ==
    ASSUME NEW c, c.chunks = <<>>
    PROVE  \A r : Shown(c, r) = {}
<1>1. DOMAIN c.chunks = {}
  OBVIOUS
<1> QED
  BY <1>1 DEF Shown

\* One event more.
LEMMA OneMore ==
    ASSUME ServerOK, NEW c, NEW e, NEW r \in Runs, NEW n \in Nat, Whole(c, r, n),
           n < Len(log[r]), c.chunks \in Seq(Runs \X Nat),
           e.chunks = IF log[r][n + 1] = "chunk" THEN Append(c.chunks, <<r, n + 1>>)
                      ELSE c.chunks
    PROVE  /\ Whole(e, r, n + 1)
           /\ \A q : q # r => (Shown(c, q) = {} => Shown(e, q) = {})
<1> DEFINE m == Len(c.chunks)
           ls == {i \in 1..n : log[r][i] = "chunk"}
<1>1. log[r] \in Seq(AllKinds \cup {"end"}) /\ Len(log[r]) \in Nat
  BY LenProperties DEF ServerOK
<1>2. n + 1 <= Len(log[r])
  BY <1>1
<1>3. m \in Nat /\ DOMAIN c.chunks = 1..m
  BY LenProperties
<1>4. CASE log[r][n + 1] = "chunk"
  <2>1. /\ DOMAIN e.chunks = 1..(m + 1)
        /\ \A i \in 1..m : e.chunks[i] = c.chunks[i]
        /\ e.chunks[m + 1] = <<r, n + 1>>
    <3>1. <<r, n + 1>> \in Runs \X Nat
      OBVIOUS
    <3> QED
      BY <1>3, <1>4, <3>1, AppendProperties
  <2>2. Shown(e, r) = Shown(c, r) \cup {m + 1}
    BY <1>3, <2>1 DEF Shown
  <2>3. {i \in 1..(n + 1) : log[r][i] = "chunk"} = ls \cup {n + 1}
    BY <1>4
  <2>4. Shown(c, r) \subseteq 1..m
    BY <1>3 DEF Shown
  <2>5. {e.chunks[k][2] : k \in Shown(e, r)} = {c.chunks[k][2] : k \in Shown(c, r)} \cup {n + 1}
    BY <1>3, <2>1, <2>2, <2>4
  <2>6. {e.chunks[k][2] : k \in Shown(e, r)} = {i \in 1..(n + 1) : log[r][i] = "chunk"}
    BY <2>3, <2>5 DEF Whole
  <2>7. ASSUME NEW j \in Shown(e, r), NEW k \in Shown(e, r), j < k
        PROVE  e.chunks[j][2] < e.chunks[k][2]
    <3>1. j \in Shown(c, r)
      BY <1>3, <2>2, <2>4, <2>7
    <3>2. e.chunks[j] = c.chunks[j]
      BY <2>1, <2>4, <3>1
    <3>3. CASE k \in Shown(c, r)
      <4>1. e.chunks[k] = c.chunks[k]
        BY <2>1, <2>4, <3>3
      <4>2. c.chunks[j][2] < c.chunks[k][2]
        BY <2>7, <3>1, <3>3 DEF Whole
      <4> QED
        BY <3>2, <4>1, <4>2
    <3>4. CASE k = m + 1
      <4>1. c.chunks[j][2] \in ls
        BY <3>1 DEF Whole
      <4>2. c.chunks[j][2] \in 1..n
        BY <4>1
      <4>3. e.chunks[k][2] = n + 1
        BY <2>1, <3>4
      <4>4. e.chunks[j][2] \in 1..n
        BY <3>2, <4>2
      <4>5. \A a \in 1..n : a < n + 1
        OBVIOUS
      <4> QED
        BY <4>3, <4>4, <4>5, Zenon
    <3> QED
      BY <2>2, <2>7, <3>3, <3>4
  <2>8. ASSUME NEW q, q # r, Shown(c, q) = {}
        PROVE  Shown(e, q) = {}
    BY <1>3, <2>1, <2>8 DEF Shown
  <2> QED
    BY <1>2, <2>6, <2>7, <2>8 DEF Whole
<1>5. CASE log[r][n + 1] # "chunk"
  <2>1. {i \in 1..(n + 1) : log[r][i] = "chunk"} = ls
    BY <1>5
  <2>2. Shown(e, r) = Shown(c, r) /\ e.chunks = c.chunks
    BY <1>5 DEF Shown
  <2>3. \A q : Shown(e, q) = Shown(c, q)
    BY <2>2 DEF Shown
  <2> QED
    BY <1>2, <2>1, <2>2, <2>3 DEF Whole
<1> QED
  BY <1>4, <1>5

LEMMA DimIsNarrow ==
    ASSUME NEW c, NEW e, Dim(c, e)
    PROVE  Narrow(c, e)
BY DEF Dim, Same, Beside, Narrow

LEMMA StopIsNarrow ==
    ASSUME NEW c, Good(c)
    PROVE  Narrow(c, stopRunStreamSubscription(c))
<1> DEFINE e == stopRunStreamSubscription(c)
<1>1. AfterStop(c, e)
  BY StopFields
<1> HIDE DEF e
<1>2. e.active # 0 /\ e.active \in Abandoned(c.sub) => Needs(c)
  BY <1>1 DEF AfterStop, Same, Abandoned, Needs, Engaged
<1> QED
  BY <1>1, <1>2 DEF AfterStop, Same, Beside, Cut, Narrow, e

LEMMA ClosingIsNarrow ==
    ASSUME NEW c, Good(c), Subscribed(c.sub), c.sub.phase = "read"
    PROVE  Narrow(c, Closing(c)) /\ Closing(c).resets = c.resets
<1> DEFINE e == Closing(c)
<1>1. AfterClosing(c, e)
  BY ClosingFields
<1> HIDE DEF e
<1>2. e.sub = NoSub \/ (e.sub.run = c.sub.run /\ e.sub.phase = "check")
  <2>1. [c.sub EXCEPT !.phase = "check"].run = c.sub.run
        /\ [c.sub EXCEPT !.phase = "check"].phase = "check"
    BY DEF Good, Wide
  <2> QED
    BY <1>1, <2>1 DEF AfterClosing
<1> QED
  BY <1>1, <1>2 DEF AfterClosing, Same, Beside, Narrow, e

\* An event that is not one of the log's, or one that has been seen.
LEMMA ReceiveIsNarrow ==
    ASSUME NEW c, Good(c), Subscribed(c.sub), c.sub.phase = "read", Upto(c), NEW st,
           NEW id \in {0, c.sub.pos}, NEW k \in {"rowEnd", "unavailable"}
    PROVE  LET e == Receive(c, k, id, st) IN
           /\ Narrow(c, e) /\ Subscribed(e.sub) /\ e.sub.phase = "read"
           /\ \A f \in e.resets :
                f \in c.resets \/ (f.run = c.sub.run /\ (f.asked => st = "interrupted"))
<1> DEFINE e == Handled(c, k, id, st)
<1>1. c.sub.pos \in Nat /\ c.seq \in Nat /\ id \in Nat
  BY DEF Good, Wide
<1>2. CASE Receive(c, k, id, st) = c
  <2>1. Dim(c, c)
    BY DEF Dim, Same, Beside
  <2> QED
    BY <1>2, <2>1, DimIsNarrow
<1>3. CASE c.active = c.sub.run /\ id = 0 /\ Receive(c, k, id, st) = e
  <2>1. AfterEvent(c, e, k, id, st)
    BY <1>1, <1>3, EventFields
  <2> HIDE DEF e
  <2>2. Narrow(c, e)
    BY <1>3, <2>1 DEF AfterEvent, Narrow
  <2>3. Subscribed(e.sub) /\ e.sub.phase = "read"
    BY <2>1 DEF AfterEvent, Subscribed
  <2>4. \A f \in e.resets :
          f \in c.resets \/ (f.run = c.sub.run /\ (f.asked => st = "interrupted"))
    BY <2>1 DEF AfterEvent
  <2> QED
    BY <1>3, <2>2, <2>3, <2>4
<1>4. ~(c.active = c.sub.run /\ id > c.seq)
  BY <1>1 DEF Upto
<1> QED
  BY <1>2, <1>3, <1>4 DEF Receive

\* An event of the log shows what comes next of the active run, or nothing.
LEMMA DeliverTells ==
    ASSUME IInv, Tells(client), Deliver
    PROVE  Tells(client')
<1> DEFINE s == client.sub
           p == s.pos + 1
           c == [client EXCEPT !.sub.pos = @ + 1]
           k == log[s.run][s.pos + 1]
           e == Handled(c, k, p, status[s.run])
<1>1. /\ Good(c) /\ Subscribed(c.sub) /\ Same(client, c) /\ c.timers = client.timers
      /\ LateChecks(c) = LateChecks(client) /\ c.sub = [s EXCEPT !.pos = s.pos + 1]
      /\ s.pos \in Nat /\ s.pos < Len(log[s.run]) /\ s.run \in Runs /\ s.phase = "read"
      /\ k \in AllKinds \cup {"end"}
      /\ client' = Receive(c, k, p, status[s.run])
  BY NextEvent
<1>2. Good(client) /\ client.seq \in Nat /\ p \in Nat
  BY <1>1 DEF IInv, Good, Wide
<1> HIDE DEF c
<1>3. c.sub.run = s.run /\ c.sub.phase = s.phase /\ c.sub.pos = p
  BY <1>1, <1>2 DEF Good, Wide
<1>4. client' = IF c.active = c.sub.run /\ (p = 0 \/ p > c.seq) THEN e ELSE c
  BY <1>1 DEF Receive
<1>5. CASE ~(c.active = c.sub.run /\ p > c.seq)
  <2>1. client' = c
    BY <1>1, <1>4, <1>5
  <2>2. c.active = client.active /\ c.seq = client.seq /\ c.chunks = client.chunks
        /\ c.human = client.human /\ c.awaiting = client.awaiting
    BY <1>1 DEF Same, Beside
  <2>3. Needs(c) => Needs(client)
    BY <1>1, <1>3, <2>2 DEF Needs, Engaged
  <2>4. Whole(client, client.active, client.seq) => Whole(c, c.active, c.seq)
    BY <2>2 DEF Whole, Shown
  <2>5. Unheard(c)
    BY <1>3, <2>2 DEF Tells, Unheard, Shown
  <2>6. Upto(c)
    BY <1>2, <1>3, <1>5, <2>2 DEF Upto
  <2> QED
    BY <2>1, <2>3, <2>4, <2>5, <2>6 DEF Tells
<1>6. CASE c.active = c.sub.run /\ p > c.seq
  <2>1. client' = e
    BY <1>4, <1>6
  <2>2. AfterEvent(c, e, k, p, status[s.run])
    BY <1>1, <1>2, <1>6, EventFields
  <2> HIDE DEF e, k
  <2>3. client.active = s.run /\ client.seq = s.pos /\ client.chunks = c.chunks
        /\ client.awaiting = c.awaiting
    BY <1>1, <1>2, <1>3, <1>6 DEF Same, Beside, Tells, Upto
  <2>4. Whole(client, s.run, s.pos)
    BY <1>1, <2>3, RunsFacts DEF Tells, Needs, Engaged
  <2>5. e.chunks = IF k = "chunk" THEN Append(client.chunks, <<s.run, p>>) ELSE client.chunks
    <3>1. e.chunks = IF k = "chunk" THEN Append(c.chunks, <<c.sub.run, p>>) ELSE c.chunks
      BY <2>2 DEF AfterEvent
    <3> QED
      BY <1>3, <2>3, <3>1
  <2>6. /\ e.seq = p /\ e.sub.run = s.run /\ e.sub.pos = p /\ e.awaiting = client.awaiting
        /\ e.active \in {0, s.run}
    <3>1. p # 0
      BY <1>1
    <3> QED
      BY <1>3, <1>6, <2>2, <2>3, <3>1 DEF AfterEvent
  <2>7. /\ Whole(e, s.run, p)
        /\ \A q : q # s.run => (Shown(client, q) = {} => Shown(e, q) = {})
    <3>1. client.chunks \in Seq(Runs \X Nat) /\ ServerOK
      BY <1>2 DEF Good, Wide, IInv
    <3>2. e.chunks = IF log[s.run][s.pos + 1] = "chunk"
                     THEN Append(client.chunks, <<s.run, s.pos + 1>>) ELSE client.chunks
      BY <2>5 DEF k
    <3> HIDE DEF s
    <3>3. /\ Whole(e, s.run, s.pos + 1)
          /\ \A q : q # s.run => (Shown(client, q) = {} => Shown(e, q) = {})
      <4>1. s.pos \in Nat /\ s.pos < Len(log[s.run]) /\ s.run \in Runs
        BY <1>1
      <4> DEFINE r == s.run
                 n == s.pos
      <4> HIDE DEF r, n, e
      <4>2. r \in Runs /\ n \in Nat /\ Whole(client, r, n) /\ n < Len(log[r])
            /\ e.chunks = IF log[r][n + 1] = "chunk"
                          THEN Append(client.chunks, <<r, n + 1>>) ELSE client.chunks
        BY <2>4, <3>2, <4>1 DEF r, n
      <4>3. /\ Whole(e, r, n + 1)
            /\ \A q : q # r => (Shown(client, q) = {} => Shown(e, q) = {})
        BY <3>1, <4>2, OneMore
      <4> QED
        BY <4>3 DEF r, n
    <3> QED
      BY <3>3
  <2>8. Unheard(e)
    <3>1. \A q \in client.awaiting : q # s.run /\ Shown(client, q) = {}
      BY DEF Tells, Unheard
    <3> QED
      BY <2>6, <2>7, <3>1 DEF Unheard
  <2>9. Upto(e)
    BY <1>2, <2>6 DEF Upto
  <2> QED
    BY <2>1, <2>6, <2>7, <2>8, <2>9 DEF Tells, Needs
<1> QED
  BY <1>5, <1>6

LEMMA TellsOfStream ==
    ASSUME IInv, Tells(client), ~overtaken',
           Deliver \/ Close \/ TimesOut \/ Unavailable \/ Breaks
           \/ CheckAnswered \/ CheckFails \/ Preserved
    PROVE  Tells(client')
<1> DEFINE s == client.sub
<1>0. Good(client)
  BY DEF IInv
<1>a. Reading \/ Checking => Subscribed(s) /\ s.pos \in Nat /\ s.run \in Runs
  BY <1>0, Following DEF Reading, Checking
<1>1. ASSUME NEW k \in {"rowEnd", "unavailable"}, NEW id \in {0, s.pos}, NEW st, Reading,
             client' = Closing(Receive(client, k, id, st))
      PROVE  Tells(client')
  <2> DEFINE c == Receive(client, k, id, st)
  <2>1. Narrow(client, c) /\ Subscribed(c.sub) /\ c.sub.phase = "read"
    BY <1>0, <1>1, <1>a, ReceiveIsNarrow DEF Tells, Reading
  <2>2. Good(c)
    BY <1>0, <1>1, <1>a, ReceiveGood, RunsFacts
  <2> HIDE DEF c
  <2>3. Tells(c)
    BY <1>0, <2>1, NarrowTells
  <2>4. Narrow(c, client')
    BY <1>1, <2>1, <2>2, ClosingIsNarrow DEF c
  <2> QED
    BY <2>2, <2>3, <2>4, NarrowTells
<1>2. ASSUME Reading, client' = Closing(client)
      PROVE  Tells(client')
  BY <1>0, <1>2, <1>a, ClosingIsNarrow, NarrowTells DEF Reading
<1>3. CASE Close
  BY <1>1, <1>2, <1>3 DEF Close
<1>4. CASE TimesOut
  BY <1>2, <1>4 DEF TimesOut
<1>5. CASE Unavailable
  BY <1>1, <1>5 DEF Unavailable
<1>6. CASE Breaks
  <2> DEFINE c == scheduleRunReconnect(client, s.run)
  <2>1. Good(c) /\ AfterSchedule(client, c, s.run) /\ client' = Finished(c)
    BY <1>0, <1>6, <1>a, ScheduleGood, ScheduleFields DEF Breaks
  <2>2. AfterFinish(c, client')
    BY <2>1, DimFields
  <2> HIDE DEF c
  <2>3. client.active = s.run /\ client.active # 0 => Needs(client)
    BY <1>6 DEF Breaks, Reading, Needs, Engaged
  <2>4. Narrow(client, client')
    BY <2>1, <2>2, <2>3 DEF AfterFinish, AfterSchedule, Same, Beside, Narrow
  <2> QED
    BY <1>0, <2>4, NarrowTells
<1>7. ASSUME NEW st, Checking, Check(st),
             st = "interrupted" /\ client.pending = s.run => client.active = s.run
      PROVE  Tells(client')
  <2> DEFINE c == Checked(client, s.run, st)
             e == [c EXCEPT !.sub.phase = "preserve"]
  <2>1. Good(c) /\ AfterChecked(client, c, s.run, st) /\ s.run \in Runs
    BY <1>0, <1>7, <1>a, CheckedGood, CheckedFields
  <2> HIDE DEF c
  <2>2. client.active = s.run /\ client.active # 0 => Needs(client)
    BY <1>7 DEF Checking, Needs, Engaged
  <2>3. /\ c.active \in {0, client.active} /\ c.seq = client.seq /\ c.chunks = client.chunks
        /\ c.human = client.human /\ c.awaiting = client.awaiting /\ c.sub = s
        /\ LateChecks(c) = LateChecks(client)
        /\ \A q \in c.timers : q \in client.timers \/ (q = s.run /\ client.active = s.run)
    BY <1>7, <2>1 DEF AfterChecked, Beside
  <2>4. /\ client' = e \/ client' = Finished(c)
        /\ Same(c, e) /\ e.timers = c.timers /\ e.dead = c.dead /\ e.sub.phase = "preserve"
        /\ e.sub.run = c.sub.run
    BY <1>7, <2>1 DEF Check, c, Good, Wide, Same, Beside
  <2> HIDE DEF e
  <2>5. LateChecks(e) = LateChecks(c)
    BY <2>4 DEF LateChecks
  <2>6. Narrow(client, e)
    BY <2>2, <2>3, <2>4, <2>5 DEF Same, Beside, Narrow
  <2>7. Narrow(client, Finished(c))
    <3>1. AfterFinish(c, Finished(c))
      BY <2>1, DimFields
    <3> QED
      BY <2>2, <2>3, <3>1 DEF AfterFinish, Same, Beside, Narrow
  <2> QED
    BY <1>0, <2>4, <2>6, <2>7, NarrowTells
<1>8. CASE CheckAnswered
  <2>1. status[s.run] = "interrupted" /\ client.pending = s.run => client.active = s.run
    BY <1>8 DEF CheckAnswered, ShowsAgain
  <2> QED
    BY <1>7, <1>8, <2>1 DEF CheckAnswered
<1>9. CASE CheckFails
  BY <1>7, <1>9 DEF CheckFails
<1>10. CASE Preserved
  <2> DEFINE c == restorePendingInterrupt(client)
  <2>1. Good(c) /\ Dim(client, c) /\ client' = Finished(c)
    BY <1>0, <1>10, RestoreGood, DimFields DEF Preserved
  <2>2. AfterFinish(c, client')
    BY <2>1, DimFields
  <2> HIDE DEF c
  <2>3. Narrow(client, client')
    BY <2>1, <2>2 DEF AfterFinish, Dim, Same, Beside, Narrow
  <2> QED
    BY <1>0, <2>3, NarrowTells
<1> QED
  BY <1>3, <1>4, <1>5, <1>6, <1>8, <1>9, <1>10, DeliverTells

LEMMA TellsOfTheLate ==
    ASSUME IInv, Tells(client), ResetsOK(client), ~overtaken',
           \/ \E d \in client.dead : LateAnswer(d) \/ LateFailure(d) \/ Unwind(d)
           \/ \E r \in client.timers : Reconnect(r)
           \/ \E f \in client.resets : LateReset(f)
    PROVE  Tells(client')
<1>0. Good(client)
  BY DEF IInv
<1>1. ASSUME NEW d \in client.dead, NEW st, LateCheck(d, st),
             st = "interrupted" /\ client.pending = d.run => client.active = d.run,
             st # "interrupted" /\ client.active = d.run => Needs(client)
      PROVE  Tells(client')
  <2> DEFINE b == Bury(d)
  <2>1. PICK c : /\ AfterChecked(b, c, d.run, st) /\ Good(c)
                 /\ Dim(c, client')
    BY <1>1, LateCheckFields
  <2>2. AfterBury(client, b, d)
    BY BuryFields
  <2> HIDE DEF b
  <2>3. /\ c.active \in {0, client.active} /\ c.seq = client.seq /\ c.chunks = client.chunks
        /\ c.human = client.human /\ c.awaiting = client.awaiting /\ c.sub = client.sub
        /\ LateChecks(c) \subseteq LateChecks(client)
    BY <1>1, <2>1, <2>2 DEF AfterChecked, AfterBury, Same, Beside
  <2>4. \A q \in c.timers :
          q \in client.timers \/ (q = d.run /\ client.active = d.run /\ st # "interrupted")
    BY <2>1, <2>2 DEF AfterChecked, AfterBury, Same
  <2>5. Narrow(client, c)
    BY <1>1, <2>3, <2>4 DEF Narrow
  <2>6. Tells(c)
    BY <1>0, <2>5, NarrowTells
  <2> QED
    BY <2>1, <2>6, DimTells
<1>2. ASSUME NEW d \in client.dead, LateAnswer(d)
      PROVE  Tells(client')
  <2>1. LateCheck(d, status[d.run]) /\ d.phase = "check" /\ client.awaiting = {}
        /\ client.active \in At(d.run)
    BY <1>2 DEF LateAnswer, LateCheck, Heeds
  <2>2. status[d.run] = "interrupted" /\ client.pending = d.run => client.active = d.run
    BY <2>1 DEF At, ShowsAgain
  <2>3. d.run # 0 /\ d.run \in LateChecks(client)
    BY <1>0, <2>1, RunsFacts DEF LateChecks, Good, Wide, WideDead
  <2>4. status[d.run] # "interrupted" /\ client.active = d.run => Needs(client)
    BY <2>1, <2>3 DEF Needs
  <2> QED
    BY <1>1, <2>1, <2>2, <2>4
<1>3. ASSUME NEW d \in client.dead, LateFailure(d)
      PROVE  Tells(client')
  <2>1. LateCheck(d, "unknown") /\ client.active # d.run
    BY <1>3 DEF LateFailure
  <2> QED
    BY <1>1, <2>1
<1>4. ASSUME NEW d \in client.dead, Unwind(d)
      PROVE  Tells(client')
  BY <1>4, UnwindFields, DimTells
<1>5. ASSUME NEW r \in client.timers, Reconnect(r)
      PROVE  Tells(client')
  <2> DEFINE c == [client EXCEPT !.timers = @ \ {r}]
  <2>1. Good([client EXCEPT !.timers = client.timers \ {r}])
    BY <1>0, DropGood
  <2>2. /\ Same(client, c) /\ c.sub = client.sub /\ c.dead = client.dead
        /\ c.timers = client.timers \ {r} /\ r \in Runs /\ c.seq \in Nat /\ Good(c)
    BY <1>0, <2>1 DEF Good, Wide, Same, Beside
  <2>3. LateChecks(c) = LateChecks(client)
    <3> HIDE DEF c
    <3> QED
      BY <2>2 DEF LateChecks
  <2>4. \/ /\ c.active = r /\ client.awaiting = {}
           /\ client' = startRunStream(c, r, c.seq, FALSE)
        \/ client' = c
    BY <1>5 DEF Reconnect, Heeds
  <2> HIDE DEF c
  <2>5. CASE c.active = r /\ client.awaiting = {} /\ client' = startRunStream(c, r, c.seq, FALSE)
    <3>1. AfterStart(c, client', r, c.seq)
      BY <2>2, <2>5, StartFields
    <3>2. Whole(client, r, client.seq)
      BY <2>2, <2>5, RunsFacts DEF Tells, Needs, Same
    <3>3. Whole(client', r, client'.seq)
      BY <2>2, <3>1, <3>2 DEF AfterStart, Same, Beside, Whole, Shown
    <3>4. Unheard(client')
      BY <2>2, <2>5, <3>1 DEF AfterStart, Same, Beside, Unheard
    <3> QED
      BY <2>2, <3>1, <3>3, <3>4, StartTells DEF AfterStart
  <2>6. Narrow(client, c)
    BY <2>2, <2>3 DEF Same, Beside, Narrow
  <2> QED
    BY <1>0, <2>4, <2>5, <2>6, NarrowTells
<1>6. ASSUME NEW f \in client.resets, LateReset(f)
      PROVE  Tells(client')
  <2>1. /\ client'.sub = NoSub /\ client'.timers = client.timers
        /\ client'.chunks = <<>> /\ client'.human = FALSE
        /\ client'.active = client.active /\ client'.awaiting = client.awaiting
    BY <1>6, LateResetFields
  <2>2. client.active = 0 \/ (client.active = f.run /\ f.asked /\ f.run \notin client.timers)
    BY <1>6 DEF LateReset, Heeds, Restarted
  <2>3. f.asked => status[f.run] = "interrupted"
    BY <1>6 DEF ResetsOK
  <2>4. ~Needs(client')
    BY <2>1, <2>2, <2>3, NoSubFacts DEF Needs, Engaged
  <2>5. client'.awaiting \subseteq Runs
    BY <1>0, <2>1 DEF Good, Wide
  <2> QED
    BY <2>1, <2>4, <2>5, NothingTells DEF Tells
<1> QED
  BY <1>2, <1>3, <1>4, <1>5, <1>6

\* Reading an interrupted or a forgotten run from its beginning.
LEMMA ResumedTells ==
    ASSUME IInv, NEW x \in client.resumes, NEW r \in Runs, client.awaiting = {},
           client' = Resumed(x, r, 0)
    PROVE  Tells(client')
<1>1. AfterResumed(Answered(x), client', r, 0)
  BY ResumedFields, RunsFacts DEF IInv
<1>2. Answered(x).awaiting = {}
  BY AnsweredFields DEF IInv
<1>3. Shown(client', r) = {}
  BY <1>1, NoneShown DEF AfterResumed
<1>4. Whole(client', r, 0) /\ Unheard(client')
  BY <1>1, <1>2, <1>3, NothingIsWhole DEF IInv, AfterResumed, Unheard
<1> QED
  BY <1>1, <1>4, StartTells, RunsFacts DEF AfterResumed

LEMMA TellsOfResumption ==
    ASSUME IInv, Tells(client), ~overtaken', NEW x \in client.resumes,
           BeginResume(x) \/ ResumeLive(x) \/ ResumeSnapshot(x) \/ ResumeThread(x)
           \/ ResumeFails(x)
    PROVE  Tells(client')
<1> DEFINE c == Answered(x)
           cs == [c EXCEPT !.snap = NoSnap]
<1>0. Good(client)
  BY DEF IInv
<1>1. /\ Good(c) /\ c.awaiting = client.awaiting /\ c.chunks = client.chunks
      /\ c.human = client.human /\ c.active = client.active /\ c.seq = client.seq
      /\ c.sub = client.sub /\ c.timers = client.timers /\ c.pending = client.pending
      /\ LateChecks(c) = LateChecks(client)
  BY <1>0, AnsweredGood, AnsweredFields
<1>2. x.step \in {"live", "snapshot"} => x.run \in Runs
  BY <1>0, AnsweredGood
<1>3. x.seq \in Nat /\ c.seq \in Nat
  BY <1>0, <1>1, AnsweredGood DEF Good, Wide
<1>4. Good(cs) /\ Dim(c, cs)
  BY <1>1, ForgottenFields
<1> HIDE DEF c, cs
<1>5. Tells(c) /\ Tells(cs)
  <2>1. Narrow(client, c)
    BY <1>1 DEF Narrow
  <2> QED
    BY <1>0, <1>4, <2>1, NarrowTells, DimTells
<1>6. ASSUME NEW e \in {c, cs}, NEW step, NEW n, client' = Await(e, step, n)
      PROVE  Tells(client')
  <2>1. AfterAwait(e, client', step)
    BY <1>1, <1>4, <1>6, AwaitFields
  <2>2. Narrow(e, client')
    BY <2>1 DEF AfterAwait, Narrow
  <2> QED
    BY <1>1, <1>4, <1>5, <2>2, NarrowTells
<1>7. ASSUME client' = restorePendingInterrupt(c)
      PROVE  Tells(client')
  BY <1>1, <1>5, <1>7, DimFields, DimTells
<1>8. ASSUME client' = GiveUp(c)
      PROVE  Tells(client')
  <2>1. Narrow(c, client')
    BY <1>1, <1>8, GiveUpFields DEF AfterGiveUp, Beside, Narrow
  <2> QED
    BY <1>1, <1>5, <2>1, NarrowTells
<1>9. ASSUME NEW b, Good(b), Tells(b), NEW r \in Runs, b.active = r
      PROVE  Tells(Preserve(b, r, b.seq)) /\ Good(Preserve(b, r, b.seq))
  <2>1. b.seq \in Nat
    BY <1>9 DEF Good, Wide
  <2>2. AfterPreserve(b, Preserve(b, r, b.seq), r, b.seq) /\ Good(Preserve(b, r, b.seq))
    BY <1>9, <2>1, PreserveFields, PreserveGood
  <2>3. Narrow(b, Preserve(b, r, b.seq))
    BY <1>9, <2>2 DEF AfterPreserve, Beside, Narrow
  <2> QED
    BY <1>9, <2>2, <2>3, NarrowTells
<1>10. CASE BeginResume(x)
  <2>1. \/ client' = restorePendingInterrupt(c)
        \/ \E step, n : \E e \in {c, cs} : client' = Await(e, step, n)
    BY <1>10 DEF BeginResume, c, cs
  <2> QED
    BY <1>6, <1>7, <2>1
<1>11. CASE ResumeLive(x)
  <2> DEFINE b == stopRunStreamSubscription(c)
             n == IF b.snap = NoSnap THEN b.seq ELSE b.snap.seq
             p == IF b.pending = x.run THEN 0 ELSE b.pending
             e == [b EXCEPT !.active = 0, !.streaming = FALSE, !.snap = NoSnap, !.pending = p]
  <2>1. x.run \in Runs /\ client.awaiting = {} /\ client.active = x.run
    BY <1>2, <1>11 DEF ResumeLive, Heeds
  <2>2. Good(b) /\ AfterStop(c, b) /\ Narrow(c, b)
    BY <1>1, StopGood, StopFields, StopIsNarrow
  <2>3. \/ client' = Unwound(Preserve(b, x.run, n))
        \/ client' = Resumed(x, x.run, 0)
        \/ client' = restorePendingInterrupt(Unwound(e))
        \/ client' = restorePendingInterrupt(c)
    BY <1>11 DEF ResumeLive, c
  <2> HIDE DEF b
  <2>4. b.active = x.run /\ Tells(b)
    BY <1>1, <1>5, <2>1, <2>2, NarrowTells DEF AfterStop, Same
  <2>5. n = b.seq
    BY <2>1, <2>2, <2>4, RunsFacts DEF Good, Named, Agrees
  <2>6. p \in 0..MaxRuns
    BY <2>2, RunsFacts DEF Good, Wide
  <2> HIDE DEF n, p
  <2>7. Tells(Unwound(Preserve(b, x.run, n)))
    <3>1. Tells(Preserve(b, x.run, n)) /\ Good(Preserve(b, x.run, n))
      BY <1>9, <2>1, <2>2, <2>4, <2>5
    <3> QED
      BY <3>1, DimFields, DimTells
  <2>8. Tells(restorePendingInterrupt(Unwound(e)))
    <3>1. Good(e) /\ AfterGiveUp(b, e)
      BY <2>2, <2>6, ForgetGood, GiveUpFields, RunsFacts
    <3> HIDE DEF e
    <3>2. Narrow(b, e)
      BY <3>1 DEF AfterGiveUp, Beside, Narrow
    <3>3. Tells(e)
      BY <2>2, <2>4, <3>2, NarrowTells
    <3>4. Tells(Unwound(e)) /\ Good(Unwound(e))
      BY <3>1, <3>3, DimFields, DimTells, UnwoundGood
    <3> QED
      BY <3>4, DimFields, DimTells
  <2> QED
    BY <1>7, <2>1, <2>3, <2>7, <2>8, ResumedTells
<1>12. CASE ResumeSnapshot(x)
  <2> DEFINE after == resolveRunResumeAfterSeq(c, x.run)
  <2>1. /\ x.run \in Runs /\ client.awaiting = {} /\ client.active \in At(x.run)
        /\ client.active = x.run => client.seq = x.seq
    BY <1>2, <1>12 DEF ResumeSnapshot, Heeds
  <2>2. \/ client' = Preserve(c, x.run, x.seq) /\ ShowsAgain(x.run)
        \/ client' = Resumed(x, x.run, after) /\ status[x.run] = "running"
        \/ client' = Await(cs, "thread", NoSnap)
    BY <1>1, <1>12 DEF ResumeSnapshot, ShowsAgain, c, cs
  <2>3. after = 0 \/ /\ after = c.seq /\ c.active = x.run
                     /\ c.chunks # <<>> \/ c.human
    BY DEF resolveRunResumeAfterSeq, hasOngoingRunChunks
  <2> HIDE DEF after
  <2>4. ASSUME client' = Preserve(c, x.run, x.seq), ShowsAgain(x.run)
        PROVE  Tells(client')
    <3>1. client.active = x.run /\ x.seq = c.seq
      BY <1>1, <2>1, <2>4 DEF At
    <3> QED
      BY <1>1, <1>5, <1>9, <2>1, <2>4, <3>1
  <2>5. ASSUME client' = Resumed(x, x.run, after), status[x.run] = "running", after # 0
        PROVE  Tells(client')
    <3>1. AfterResumed(c, client', x.run, after)
      BY <1>0, <1>3, <2>1, <2>3, <2>5, ResumedFields DEF c
    <3>2. Needs(client)
      BY <1>1, <2>1, <2>3, <2>5, RunsFacts DEF Needs
    <3>3. Whole(client, x.run, after)
      BY <1>1, <2>3, <2>5, <3>2 DEF Tells
    <3>4. Whole(client', x.run, client'.seq) /\ Unheard(client')
      BY <1>1, <2>1, <2>5, <3>1, <3>3 DEF AfterResumed, Whole, Shown, Unheard
    <3>5. client'.seq \in Nat
      BY <1>3, <2>3, <2>5, <3>1 DEF AfterResumed
    <3> QED
      BY <3>1, <3>4, <3>5, StartTells DEF AfterResumed
  <2> QED
    BY <1>6, <2>1, <2>2, <2>4, <2>5, ResumedTells
<1>13. CASE ResumeThread(x)
  <2>1. \/ client' = GiveUp(c)
        \/ \E r \in ActiveRun : client' = Preserve(c, r, c.seq) /\ client.active = r
        \/ \E r \in ActiveRun : client' = Resumed(x, r, 0) /\ client.awaiting = {}
    BY <1>1, <1>13 DEF ResumeThread, Heeds, At, ShowsAgain, c
  <2>2. ActiveRun \subseteq Runs
    BY DEF ActiveRun, Created
  <2> QED
    BY <1>1, <1>5, <1>8, <1>9, <2>1, <2>2, ResumedTells
<1>14. CASE ResumeFails(x)
  <2>1. \/ client' = restorePendingInterrupt(c)
        \/ client' = Await(cs, "thread", NoSnap)
        \/ client' = GiveUp(c)
    BY <1>14 DEF ResumeFails, c, cs
  <2> QED
    BY <1>6, <1>7, <1>8, <2>1
<1> QED
  BY <1>10, <1>11, <1>12, <1>13, <1>14

LEMMA TellsOfAnswer ==
    ASSUME IInv, Tells(client), ~overtaken', NEW r \in client.awaiting,
           Response(r) \/ NotCreated(r)
    PROVE  Tells(client')
<1>0. Good(client) /\ r \in Runs /\ client.awaiting \subseteq Runs
  BY DEF IInv, Good, Wide
<1>1. CASE Response(r)
  <2> DEFINE c == Arrived(r)
  <2>1. /\ client'.sub.run = r /\ client'.sub.pos = 0 /\ client'.active = r /\ client'.seq = 0
        /\ Beside(c, client')
    BY <1>1, ResponseFields
  <2>2. c.chunks = client.chunks /\ c.awaiting = client.awaiting \ {r}
    BY <1>0, ArrivedFields
  <2> HIDE DEF c
  <2>3. \A q : Shown(client', q) = Shown(client, q)
    BY <2>1, <2>2 DEF Beside, Shown
  <2>4. Whole(client', r, 0)
    BY <1>0, <2>3, NothingIsWhole DEF Tells, Unheard, IInv
  <2>5. Unheard(client')
    BY <2>1, <2>2, <2>3 DEF Beside, Tells, Unheard
  <2> QED
    BY <2>1, <2>4, <2>5, StartTells, RunsFacts
<1>2. CASE NotCreated(r)
  <2>1. /\ client'.active = client.active /\ client'.seq = client.seq
        /\ client'.timers = client.timers /\ client'.awaiting = client.awaiting \ {r}
        /\ parent[r] = 0 =>
             /\ client'.sub = NoSub /\ client'.chunks = <<>> /\ client'.human = FALSE
             /\ LateChecks(client') = LateChecks(client) \cup Abandoned(client.sub)
        /\ parent[r] # 0 =>
             /\ client'.sub = client.sub /\ client'.chunks = client.chunks
             /\ client'.human = client.human /\ LateChecks(client') = LateChecks(client)
    BY <1>2, NotCreatedFields
  <2>2. /\ client.active \notin client.timers /\ client.active \notin LateChecks(client)
        /\ client.active \notin Abandoned(client.sub)
    BY <1>2 DEF NotCreated, Follows, LateChecks, Abandoned
  <2>3. CASE parent[r] = 0
    <3>1. ~Needs(client')
      BY <2>1, <2>2, <2>3, NoSubFacts DEF Needs, Engaged
    <3> QED
      BY <1>0, <2>1, <2>3, <3>1, NothingTells DEF Tells
  <2>4. CASE parent[r] # 0
    <3>1. Needs(client') => Needs(client)
      BY <2>1, <2>2, <2>4 DEF Needs, Engaged
    <3>2. Whole(client, client.active, client.seq) => Whole(client', client'.active, client'.seq)
      BY <2>1, <2>4 DEF Whole, Shown
    <3>3. Unheard(client') /\ Upto(client')
      BY <2>1, <2>4 DEF Tells, Unheard, Upto, Shown
    <3> QED
      BY <3>1, <3>2, <3>3 DEF Tells
  <2> QED
    BY <2>3, <2>4
<1> QED
  BY <1>1, <1>2

LEMMA TellsOfUser ==
    ASSUME IInv, Tells(client), Leave \/ Return \/ Refocus \/ Reload \/ StopRun
    PROVE  Tells(client')
<1>0. Good(client)
  BY DEF IInv
<1>1. CASE Leave
  <2>1. client.active # 0 /\ client.active \in Abandoned(client.sub) => Needs(client)
    BY DEF Abandoned, Needs, Engaged
  <2>2. Narrow(client, client')
    BY <1>1, <2>1, LeaveFields DEF Narrow
  <2> QED
    BY <1>0, <2>2, NarrowTells
<1>2. CASE Return \/ Refocus \/ StopRun
  <2>1. Narrow(client, client')
    BY <1>2, VisitFields DEF Narrow
  <2> QED
    BY <1>0, <2>1, NarrowTells
<1>3. CASE Reload
  <2>1. client'.active = 0 /\ client'.awaiting = {} /\ client'.sub = NoSub /\ client'.chunks = <<>>
    BY <1>3 DEF Reload, Fresh
  <2> QED
    BY <2>1, NothingTells DEF Tells, Needs
<1> QED
  BY <1>1, <1>2, <1>3

\* A message or a reply clears the page of what it showed.
LEMMA TellsOfAsking ==
    ASSUME IInv, NEW r \in Runs, NEW p, Asking(r, p, [client EXCEPT !.pending = 0])
    PROVE  Tells(client)'
<1>1. /\ client'.sub = NoSub /\ client'.chunks = <<>> /\ client'.human = (p = 0)
      /\ client'.awaiting = client.awaiting \cup {r}
  BY AskingFields
<1>2. client'.awaiting \subseteq Runs
  BY <1>1 DEF IInv, Good, Wide
<1>3. parent'[r] = p
  BY DEF Asking, IInv, ServerOK
<1>4. Unheard(client') /\ Upto(client')
  BY <1>1, <1>2, NothingTells
<1>5. NoSub'.run = 0
  BY DEF NoSub
<1>6. ~Needs(client)'
  BY <1>1, <1>3, NoSubFacts DEF Needs, Engaged
<1>7. Unheard(client)' /\ Upto(client)'
  BY <1>4 DEF Unheard, Upto, Shown
<1> QED
  BY <1>6, <1>7 DEF Tells

\* What a run logs, and what becomes of its row, leaves what is shown whole.
LEMMA TellsOfServer ==
    ASSUME IInv, Tells(client), ServerNext
    PROVE  Tells(client)'
<1>1. client' = client
  BY DEF ServerNext, EndRow, AppendEnd, Create, Publish
<1>2. \A q \in Runs : status'[q] # "interrupted" => status[q] # "interrupted"
  BY DEF ServerNext, EndRow, AppendEnd, Create, Publish, Ended, Over, IInv, ServerOK
<1>3. parent' = parent
  BY DEF ServerNext, EndRow, AppendEnd, Create, Publish
<1>4. \A q \in Runs : /\ Len(log[q]) <= Len(log'[q])
                      /\ \A i \in 1..Len(log[q]) : log'[q][i] = log[q][i]
  <2>1. CASE log' = log
    <3>1. \A q \in Runs : Len(log[q]) \in Nat
      BY LenProperties DEF IInv, ServerOK
    <3> QED
      BY <2>1, <3>1
  <2>2. ASSUME NEW r \in Runs, NEW k \in AllKinds \cup {"end"},
               log' = [log EXCEPT ![r] = Append(@, k)]
        PROVE  \A q \in Runs : /\ Len(log[q]) <= Len(log'[q])
                               /\ \A i \in 1..Len(log[q]) : log'[q][i] = log[q][i]
    <3>1. \A q \in Runs : log[q] \in Seq(AllKinds \cup {"end"}) /\ Len(log[q]) \in Nat
      BY LenProperties DEF IInv, ServerOK
    <3>2. \A q \in Runs : log'[q] = IF q = r THEN Append(log[q], k) ELSE log[q]
      BY <2>2 DEF IInv, ServerOK
    <3>3. /\ Len(Append(log[r], k)) = Len(log[r]) + 1
          /\ \A i \in 1..Len(log[r]) : Append(log[r], k)[i] = log[r][i]
      BY <2>2, <3>1, AppendProperties
    <3>4. ASSUME NEW q \in Runs
          PROVE  /\ Len(log[q]) <= Len(log'[q])
                 /\ \A i \in 1..Len(log[q]) : log'[q][i] = log[q][i]
      <4>1. CASE q = r
        <5>1. log'[q] = Append(log[q], k)
          BY <3>2, <4>1
        <5> QED
          BY <3>1, <3>3, <4>1, <5>1
      <4>2. CASE q # r
        <5>1. log'[q] = log[q]
          BY <3>2, <4>2
        <5> QED
          BY <3>1, <5>1
      <4> QED
        BY <4>1, <4>2
    <3> QED
      BY <3>4
  <2>3. log' = log \/ \E r \in Runs, k \in AllKinds \cup {"end"} :
                         log' = [log EXCEPT ![r] = Append(@, k)]
    BY BoundsAssumption DEF BoundsAssumption, ServerNext, EndRow, AppendEnd, Create, Publish
  <2> QED
    BY <2>1, <2>2, <2>3
<1>5. client.active \in 0..MaxRuns /\ client.seq \in Nat
  BY DEF IInv, Good, Wide
<1>6. client.active # 0 => client.active \in Runs
  BY <1>5, RunsFacts
<1>7. Needs(client)' => Needs(client)
  BY <1>1, <1>2, <1>3, <1>6 DEF Needs, Engaged, LateChecks
<1>8. client.active # 0 /\ Whole(client, client.active, client.seq)
        => Whole(client, client.active, client.seq)'
  <2> SUFFICES ASSUME client.active # 0, Whole(client, client.active, client.seq)
               PROVE  Whole(client, client.active, client.seq)'
    OBVIOUS
  <2> DEFINE a == client.active
             n == client.seq
  <2>1. n <= Len(log[a]) /\ n <= Len(log'[a])
    <3>1. Len(log[a]) \in Nat /\ Len(log'[a]) \in Nat
      <4>1. log[a] \in Seq(AllKinds \cup {"end"}) /\ log'[a] \in Seq(AllKinds \cup {"end"})
        <5>1. IInv'
          BY Inductive DEF Next
        <5> QED
          BY <1>6, <5>1 DEF IInv, ServerOK
      <4> QED
        BY <4>1, LenProperties
    <3> QED
      BY <1>4, <1>5, <1>6, <3>1 DEF Whole
  <2>2. {i \in 1..n : log'[a][i] = "chunk"} = {i \in 1..n : log[a][i] = "chunk"}
    BY <1>4, <1>5, <1>6, <2>1
  <2>3. Shown(client, a)' = Shown(client, a)
    BY <1>1 DEF Shown
  <2> QED
    BY <1>1, <2>1, <2>2, <2>3 DEF Whole
<1>9. (Unheard(client) /\ Upto(client))'
  BY <1>1 DEF Tells, Unheard, Upto, Shown
<1> QED
  BY <1>1, <1>7, <1>8, <1>9 DEF Tells, Needs

LEMMA ServerResets ==
    ASSUME IInv, ResetsOK(client), ServerNext
    PROVE  ResetsOK(client)'
<1>1. client' = client
  BY DEF ServerNext, EndRow, AppendEnd, Create, Publish
<1>2. \A q \in Runs : status[q] = "interrupted" => status'[q] = "interrupted"
  BY DEF ServerNext, EndRow, AppendEnd, Create, Publish, Ended, Over, IInv, ServerOK
<1>3. \A f \in client.resets : f.run \in Runs
  BY DEF IInv, Good, Wide
<1> QED
  BY <1>1, <1>2, <1>3 DEF ResetsOK

LEMMA ResumptionResets ==
    ASSUME IInv, NEW x \in client.resumes,
           BeginResume(x) \/ ResumeLive(x) \/ ResumeSnapshot(x) \/ ResumeThread(x)
           \/ ResumeFails(x)
    PROVE  client'.resets = client.resets
<1> DEFINE c == Answered(x)
           cs == [c EXCEPT !.snap = NoSnap]
<1>1. Good(client) /\ Good(c) /\ c.resets = client.resets /\ c.seq \in Nat
  BY AnsweredGood, AnsweredFields DEF IInv, Good, Wide
<1>2. x.step \in {"live", "snapshot"} => x.run \in Runs
  BY <1>1, AnsweredGood
<1>3. x.seq \in Nat /\ 0 \in Nat
  BY <1>1, AnsweredGood, RunsFacts
<1> HIDE DEF c, cs
<1>4. Good(cs) /\ cs.resets = client.resets
  BY <1>1, ForgottenFields DEF cs, Dim, Same
<1>5. ASSUME NEW e \in {c, cs}, NEW step, NEW n, client' = Await(e, step, n)
      PROVE  client'.resets = client.resets
  <2>1. Good(e) /\ e.resets = client.resets
    BY <1>1, <1>4
  <2>2. AfterAwait(e, client', step)
    BY <1>5, <2>1, AwaitFields
  <2> QED
    BY <2>1, <2>2 DEF AfterAwait
<1>6. ASSUME client' = restorePendingInterrupt(c) \/ client' = GiveUp(c)
      PROVE  client'.resets = client.resets
  <2>1. Dim(c, restorePendingInterrupt(c)) /\ AfterGiveUp(c, GiveUp(c))
    BY <1>1, DimFields, GiveUpFields
  <2> QED
    BY <1>1, <1>6, <2>1 DEF Dim, Same, AfterGiveUp
<1>7. ASSUME NEW b, Good(b), b.resets = client.resets, NEW r \in Runs, NEW n \in Nat
      PROVE  Preserve(b, r, n).resets = client.resets /\ Good(Preserve(b, r, n))
  <2>1. AfterPreserve(b, Preserve(b, r, n), r, n) /\ Good(Preserve(b, r, n))
    BY <1>7, PreserveFields, PreserveGood
  <2> QED
    BY <1>7, <2>1 DEF AfterPreserve
<1>8. ASSUME NEW r \in Runs, NEW n \in Nat, client' = Resumed(x, r, n)
      PROVE  client'.resets = client.resets
  <2>1. AfterResumed(c, client', r, n)
    BY <1>1, <1>8, ResumedFields DEF c
  <2> QED
    BY <1>1, <2>1 DEF AfterResumed
<1>9. CASE BeginResume(x)
  <2>1. \/ client' = restorePendingInterrupt(c)
        \/ \E step, n : \E e \in {c, cs} : client' = Await(e, step, n)
    BY <1>9 DEF BeginResume, c, cs
  <2> QED
    BY <1>5, <1>6, <2>1
<1>10. CASE ResumeLive(x)
  <2> DEFINE b == stopRunStreamSubscription(c)
             n == IF b.snap = NoSnap THEN b.seq ELSE b.snap.seq
             p == IF b.pending = x.run THEN 0 ELSE b.pending
             e == [b EXCEPT !.active = 0, !.streaming = FALSE, !.snap = NoSnap, !.pending = p]
  <2>1. Good(b) /\ b.resets = client.resets /\ x.run \in Runs
    BY <1>1, <1>2, <1>10, StopGood, StopFields DEF AfterStop, Same, ResumeLive
  <2>2. \/ client' = Unwound(Preserve(b, x.run, n))
        \/ client' = Resumed(x, x.run, 0)
        \/ client' = restorePendingInterrupt(Unwound(e))
        \/ client' = restorePendingInterrupt(c)
    BY <1>10 DEF ResumeLive, c
  <2> HIDE DEF b
  <2>3. n \in Nat /\ p \in 0..MaxRuns
    BY <2>1, RunsFacts DEF Good, Wide, Snaps
  <2> HIDE DEF n, p
  <2>4. Unwound(Preserve(b, x.run, n)).resets = client.resets
    <3>1. Preserve(b, x.run, n).resets = client.resets /\ Good(Preserve(b, x.run, n))
      BY <1>7, <2>1, <2>3
    <3> QED
      BY <3>1, DimFields DEF Dim, Same
  <2>5. restorePendingInterrupt(Unwound(e)).resets = client.resets
    <3>1. Good(e) /\ AfterGiveUp(b, e)
      BY <2>1, <2>3, ForgetGood, GiveUpFields, RunsFacts
    <3> HIDE DEF e
    <3>2. Unwound(e).resets = client.resets /\ Good(Unwound(e))
      BY <2>1, <3>1, DimFields, UnwoundGood DEF AfterGiveUp, Dim, Same
    <3> QED
      BY <3>2, DimFields DEF Dim, Same
  <2> QED
    BY <1>3, <1>6, <1>8, <2>1, <2>2, <2>4, <2>5
<1>11. CASE ResumeSnapshot(x)
  <2> DEFINE after == resolveRunResumeAfterSeq(c, x.run)
  <2>1. x.run \in Runs /\ after \in Nat
    BY <1>1, <1>2, <1>3, <1>11 DEF ResumeSnapshot, resolveRunResumeAfterSeq
  <2>2. \/ client' = Preserve(c, x.run, x.seq) \/ client' = Resumed(x, x.run, after)
        \/ client' = Await(cs, "thread", NoSnap)
    BY <1>11 DEF ResumeSnapshot, c, cs
  <2> HIDE DEF after
  <2> QED
    BY <1>1, <1>3, <1>5, <1>7, <1>8, <2>1, <2>2
<1>12. CASE ResumeThread(x)
  <2>1. client' = GiveUp(c) \/ \E r \in ActiveRun : client' = Preserve(c, r, c.seq)
                                                 \/ client' = Resumed(x, r, 0)
    BY <1>12 DEF ResumeThread, c
  <2>2. ActiveRun \subseteq Runs
    BY DEF ActiveRun, Created
  <2> QED
    BY <1>1, <1>3, <1>6, <1>7, <1>8, <2>1, <2>2
<1>13. CASE ResumeFails(x)
  <2>1. \/ client' = restorePendingInterrupt(c) \/ client' = GiveUp(c)
        \/ client' = Await(cs, "thread", NoSnap)
    BY <1>13 DEF ResumeFails, c, cs
  <2> QED
    BY <1>5, <1>6, <2>1
<1> QED
  BY <1>9, <1>10, <1>11, <1>12, <1>13

LEMMA ResetsKept ==
    ASSUME IInv, ResetsOK(client), StreamNext \/ FaultNext \/ UserNext
    PROVE  \A f \in client'.resets : f.asked => status[f.run] = "interrupted"
<1> DEFINE s == client.sub
           OK(rs) == \A f \in rs : f.asked => status[f.run] = "interrupted"
<1>0. Good(client) /\ OK(client.resets)
  BY DEF IInv, ResetsOK
<1>a. Reading \/ Checking => Subscribed(s) /\ s.pos \in Nat /\ s.run \in Runs
  BY <1>0, Following DEF Reading, Checking
<1>1. CASE Deliver
  <2> DEFINE c == [client EXCEPT !.sub.pos = @ + 1]
             k == log[s.run][s.pos + 1]
             e == Handled(c, k, s.pos + 1, status[s.run])
  <2>1. /\ Good(c) /\ Subscribed(c.sub) /\ Same(client, c) /\ s.pos + 1 \in Nat
        /\ c.sub = [s EXCEPT !.pos = s.pos + 1] /\ k \in AllKinds \cup {"end"}
        /\ client' = Receive(c, k, s.pos + 1, status[s.run])
    BY <1>1, NextEvent
  <2> HIDE DEF c, k
  <2>2. c.sub.run = s.run /\ OK(c.resets)
    BY <1>0, <2>1 DEF Good, Wide, Same
  <2>3. CASE client' = c
    BY <2>2, <2>3
  <2>4. CASE c.active = c.sub.run /\ client' = e
    <3>1. AfterEvent(c, e, k, s.pos + 1, status[s.run])
      BY <2>1, <2>4, EventFields
    <3> HIDE DEF e
    <3> QED
      BY <2>2, <2>4, <3>1 DEF AfterEvent
  <2> QED
    BY <2>1, <2>3, <2>4 DEF Receive
<1>2. ASSUME Reading, NEW c, Good(c), Subscribed(c.sub), c.sub.phase = "read", OK(c.resets),
             client' = Closing(c)
      PROVE  OK(client'.resets)
  BY <1>2, ClosingIsNarrow
<1>3. ASSUME NEW k \in {"rowEnd", "unavailable"}, NEW id \in Nat, NEW st, Reading,
             st = "interrupted" => status[s.run] = "interrupted"
      PROVE  OK(Receive(client, k, id, st).resets)
  <2> DEFINE e == Handled(client, k, id, st)
  <2>1. client.active = s.run => AfterEvent(client, e, k, id, st)
    BY <1>0, <1>3, <1>a, EventFields
  <2> HIDE DEF e
  <2>2. client.active = s.run => OK(e.resets)
    BY <1>0, <1>3, <2>1 DEF AfterEvent
  <2> QED
    BY <1>0, <2>2 DEF Receive, e
<1>4. CASE Close \/ TimesOut \/ Unavailable
  <2>1. Reading /\ 0 \in Nat
    BY <1>4, RunsFacts DEF Close, TimesOut, Unavailable
  <2>2. client' = Closing(client)
        \/ \E k \in {"rowEnd", "unavailable"}, id \in Nat, st \in {"none", status[s.run]} :
              client' = Closing(Receive(client, k, id, st))
    BY <1>4, <1>a, <2>1 DEF Close, TimesOut, Unavailable
  <2>3. CASE client' = Closing(client)
    BY <1>0, <1>2, <1>a, <2>1, <2>3 DEF Reading
  <2>4. ASSUME NEW k \in {"rowEnd", "unavailable"}, NEW id \in Nat,
               NEW st \in {"none", status[s.run]}, client' = Closing(Receive(client, k, id, st))
        PROVE  OK(client'.resets)
    <3> DEFINE c == Receive(client, k, id, st)
    <3>1. OK(c.resets)
      BY <1>3, <2>1, <2>4
    <3>2. Good(c) /\ Subscribed(c.sub)
      BY <1>0, <1>a, <2>1, ReceiveGood
    <3>3. client' = Closing(c)
      BY <2>4
    <3> HIDE DEF c
    <3>4. AfterClosing(c, client')
      BY <3>2, <3>3, ClosingFields
    <3> QED
      BY <3>1, <3>4 DEF AfterClosing, Same
  <2> QED
    BY <2>2, <2>3, <2>4
<1>5. CASE Breaks
  <2>1. Reading /\ client' = Finished(scheduleRunReconnect(client, s.run))
    BY <1>5 DEF Breaks
  <2>2. /\ AfterSchedule(client, scheduleRunReconnect(client, s.run), s.run)
        /\ Good(scheduleRunReconnect(client, s.run))
    BY <1>0, <1>a, <2>1, ScheduleFields, ScheduleGood
  <2>3. AfterFinish(scheduleRunReconnect(client, s.run), client')
    BY <2>1, <2>2, DimFields
  <2> QED
    BY <1>0, <2>2, <2>3 DEF AfterSchedule, AfterFinish, Same
<1>6. ASSUME NEW st \in {"unknown", status[s.run]}, Checking, Check(st)
      PROVE  OK(client'.resets)
  <2> DEFINE c == Checked(client, s.run, st)
             e == [c EXCEPT !.sub.phase = "preserve"]
  <2>1. Good(c) /\ AfterChecked(client, c, s.run, st)
    BY <1>0, <1>6, <1>a, CheckedGood, CheckedFields
  <2> HIDE DEF c
  <2>2. OK(c.resets)
    BY <1>0, <1>6, <2>1 DEF AfterChecked
  <2>3. client' = e \/ client' = Finished(c)
    BY <1>6 DEF Check, c
  <2>4. e.resets = c.resets
    BY <2>1 DEF Good, Wide
  <2>5. AfterFinish(c, Finished(c))
    BY <2>1, DimFields
  <2> QED
    BY <2>2, <2>3, <2>4, <2>5 DEF AfterFinish, Same
<1>7. CASE CheckAnswered \/ CheckFails
  BY <1>6, <1>7 DEF CheckAnswered, CheckFails
<1>8. CASE Preserved
  <2>1. client' = Finished(restorePendingInterrupt(client))
    BY <1>8 DEF Preserved
  <2>2. Good(restorePendingInterrupt(client)) /\ Dim(client, restorePendingInterrupt(client))
    BY <1>0, RestoreGood, DimFields
  <2>3. AfterFinish(restorePendingInterrupt(client), client')
    BY <2>1, <2>2, DimFields
  <2> QED
    BY <1>0, <2>2, <2>3 DEF Dim, AfterFinish, Same
<1>9. ASSUME NEW d \in client.dead, LateAnswer(d) \/ LateFailure(d)
      PROVE  OK(client'.resets)
  <2>1. PICK st \in {"unknown", status[d.run]} : LateCheck(d, st)
    BY <1>9 DEF LateAnswer, LateFailure
  <2>2. PICK c : AfterChecked(Bury(d), c, d.run, st) /\ Dim(c, client')
    BY <2>1, LateCheckFields
  <2>3. AfterBury(client, Bury(d), d)
    BY BuryFields
  <2> QED
    BY <1>0, <2>1, <2>2, <2>3 DEF AfterBury, AfterChecked, Dim, Same
<1>10. ASSUME NEW d \in client.dead, Unwind(d)
       PROVE  OK(client'.resets)
  BY <1>0, <1>10, UnwindFields DEF Dim, Same
<1>11. ASSUME NEW r \in client.timers, Reconnect(r)
       PROVE  OK(client'.resets)
  <2> DEFINE c == [client EXCEPT !.timers = @ \ {r}]
  <2>1. Good([client EXCEPT !.timers = client.timers \ {r}])
    BY <1>0, DropGood
  <2>2. Good(c) /\ c.seq \in Nat /\ c.resets = client.resets /\ r \in Runs
    BY <1>0, <2>1 DEF Good, Wide
  <2>3. client' = startRunStream(c, r, c.seq, FALSE) \/ client' = c
    BY <1>11 DEF Reconnect
  <2> HIDE DEF c
  <2>4. AfterStart(c, startRunStream(c, r, c.seq, FALSE), r, c.seq)
    BY <2>2, StartFields
  <2> QED
    BY <1>0, <2>2, <2>3, <2>4 DEF AfterStart
<1>12. ASSUME NEW f \in client.resets, LateReset(f)
       PROVE  OK(client'.resets)
  BY <1>0, <1>12, LateResetFields
<1>13. ASSUME NEW x \in client.resumes,
              BeginResume(x) \/ ResumeLive(x) \/ ResumeSnapshot(x) \/ ResumeThread(x)
              \/ ResumeFails(x)
       PROVE  client'.resets = client.resets
  BY <1>13, ResumptionResets
<1>14. ASSUME NEW r \in client.awaiting, Response(r) \/ NotCreated(r)
       PROVE  client'.resets = client.resets
  BY <1>0, <1>14, ArrivedFields, ResponseFields, NotCreatedFields
<1>15. CASE UserNext
  <2>1. CASE Reload
    BY <2>1 DEF Reload, Fresh
  <2>2. CASE \E r \in Runs : Send(r) \/ Reply(r)
    BY <1>0, <2>2, AskingFields DEF Send, Reply
  <2> QED
    BY <1>0, <1>15, <2>1, <2>2, LeaveFields, VisitFields DEF UserNext
<1> QED
  BY <1>0, <1>1, <1>4, <1>5, <1>7, <1>8, <1>9, <1>10, <1>11, <1>12, <1>13, <1>14, <1>15
     DEF StreamNext, FaultNext, Refused, CreateFails

\* Over every reconnection, resumption and reload, and whatever crosses them, the
\* page shows the chunks of the run it reads up to runLastSeq, each once and in
\* their order, unless a continuation acted on a thread that had moved on.
THEOREM AnswersAreWhole == Spec => []AnswerIsWhole
<1>1. Init => WholeInv
  <2> SUFFICES ASSUME Init PROVE WholeInv
    OBVIOUS
  <2>1. /\ client.active = 0 /\ client.awaiting = {} /\ client.sub = NoSub
        /\ client.chunks = <<>> /\ client.resets = {}
    BY DEF Init, Fresh
  <2> QED
    BY <2>1, NothingTells DEF WholeInv, ResetsOK, Tells, Needs
<1>2. IInv /\ WholeInv /\ [Next]_vars => WholeInv'
  <2> SUFFICES ASSUME IInv, WholeInv, [Next]_vars PROVE WholeInv'
    OBVIOUS
  <2>1. overtaken => overtaken'
    BY DEF Next, ServerNext, StreamNext, FaultNext, UserNext, vars, EndRow, AppendEnd, Create,
           Publish, Deliver, Close, CheckAnswered, Preserved, LateAnswer, Unwind, Reconnect,
           LateReset, BeginResume, ResumeLive, ResumeSnapshot, ResumeThread, Response, Refused,
           NotCreated, TimesOut, Unavailable, Breaks, CheckFails, LateFailure, ResumeFails,
           CreateFails, Leave, Return, Refocus, Reload, StopRun, Send, Reply, Asking, Heeds,
           ClientStep, Trouble
  <2>2. CASE UNCHANGED vars
    BY <2>2 DEF vars, WholeInv, ResetsOK, Tells, Needs, Engaged, LateChecks, Unheard, Upto,
                Whole, Shown
  <2>3. CASE ServerNext
    <3>1. overtaken' = overtaken
      BY <2>3 DEF ServerNext, EndRow, AppendEnd, Create, Publish
    <3>2. ResetsOK(client)'
      BY <2>3, ServerResets DEF WholeInv
    <3>3. ~overtaken => Tells(client)'
      BY <2>3, TellsOfServer DEF WholeInv
    <3> QED
      BY <3>1, <3>2, <3>3 DEF WholeInv
  <2>4. CASE \E r \in Runs : Send(r) \/ Reply(r)
    <3>1. PICK p, r : r \in Runs /\ Asking(r, p, [client EXCEPT !.pending = 0])
      BY <2>4 DEF Send, Reply
    <3>2. Tells(client)'
      BY <3>1, TellsOfAsking
    <3>3. \A f \in client'.resets : f.asked => status[f.run] = "interrupted"
      BY <2>4, ResetsKept DEF UserNext, WholeInv
    <3>4. \A q \in Runs : status[q] = "interrupted" => status'[q] = "interrupted"
      BY <3>1 DEF Asking, IInv, ServerOK
    <3>5. \A f \in client'.resets : f.run \in Runs
      <4>1. client'.resets = client.resets
        BY <3>1, AskingFields
      <4> QED
        BY <4>1 DEF IInv, Good, Wide
    <3> QED
      BY <3>2, <3>3, <3>4, <3>5 DEF WholeInv, ResetsOK
  <2>5. CASE StreamNext \/ FaultNext \/ Leave \/ Return \/ Refocus \/ Reload \/ StopRun
    <3>1. UNCHANGED serverVars
      BY <2>5 DEF StreamNext, FaultNext, serverVars, Deliver, Close, CheckAnswered, Preserved,
             LateAnswer, Unwind, Reconnect, LateReset, BeginResume, ResumeLive, ResumeSnapshot,
             ResumeThread, Response, Refused, NotCreated, TimesOut, Unavailable, Breaks,
             CheckFails, LateFailure, ResumeFails, CreateFails, Leave, Return, Refocus, Reload,
             StopRun, Heeds, ClientStep, Trouble
    <3>2. \A f \in client'.resets : f.asked => status[f.run] = "interrupted"
      BY <2>5, ResetsKept DEF UserNext, WholeInv
    <3>3. ASSUME ~overtaken' PROVE Tells(client')
      <4>1. ResetsOK(client) /\ Tells(client)
        BY <2>1, <3>3 DEF WholeInv
      <4>2. CASE Deliver \/ Close \/ TimesOut \/ Unavailable \/ Breaks
                 \/ CheckAnswered \/ CheckFails \/ Preserved
        BY <3>3, <4>1, <4>2, TellsOfStream
      <4>3. CASE \/ \E d \in client.dead : LateAnswer(d) \/ LateFailure(d) \/ Unwind(d)
                 \/ \E r \in client.timers : Reconnect(r)
                 \/ \E f \in client.resets : LateReset(f)
        BY <3>3, <4>1, <4>3, TellsOfTheLate
      <4>4. CASE \E x \in client.resumes :
                   BeginResume(x) \/ ResumeLive(x) \/ ResumeSnapshot(x) \/ ResumeThread(x)
                   \/ ResumeFails(x)
        BY <3>3, <4>1, <4>4, TellsOfResumption
      <4>5. CASE \E r \in client.awaiting : Response(r) \/ NotCreated(r)
        BY <3>3, <4>1, <4>5, TellsOfAnswer
      <4>6. CASE Leave \/ Return \/ Refocus \/ Reload \/ StopRun
        BY <4>1, <4>6, TellsOfUser
      <4> QED
        BY <2>5, <4>2, <4>3, <4>4, <4>5, <4>6 DEF StreamNext, FaultNext, Refused, CreateFails
    <3>4. Tells(client)' = Tells(client')
      BY <3>1 DEF serverVars, Tells, Needs, Engaged, LateChecks, Unheard, Upto, Whole, Shown
    <3>5. ResetsOK(client)'
      BY <3>1, <3>2 DEF serverVars, ResetsOK
    <3> QED
      BY <3>3, <3>4, <3>5 DEF WholeInv
  <2> QED
    BY <2>2, <2>3, <2>4, <2>5 DEF Next, UserNext
<1>3. IInv /\ WholeInv => AnswerIsWhole
  <2> SUFFICES ASSUME IInv, WholeInv, ~overtaken,
                      client.sub.phase = "read", client.sub.run = client.active
               PROVE  Whole(client, client.active, client.seq)
    BY DEF AnswerIsWhole
  <2>1. client.active # 0
    BY NoSubFacts, RunsFacts DEF IInv, Good, Subscribed
  <2> QED
    BY <2>1 DEF WholeInv, Tells, Needs, Engaged
<1> QED
  BY <1>1, <1>2, <1>3, Invariance, PTL DEF Spec
=============================================================================
