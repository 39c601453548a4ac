------------------------ MODULE AgentRunAttemptProofs ------------------------
(***************************************************************************)
(* What one attempt of AgentRun writes: its chunks reach the stream in     *)
(* order and, if it completes, without exception; an early cancel is       *)
(* honoured by the first attempt.  For every number of cancel requests,    *)
(* tries and chunks.                                                       *)
(***************************************************************************)
EXTENDS AgentRunProofs

-----------------------------------------------------------------------------
(* What the calls of a handler carry.                                      *)

CallIds(x) == IF x.op \in {"publish", "end"} THEN x.ids ELSE <<>>
CallThread(x) == IF x.op = "publish" THEN x.th ELSE "main"

Carries(x) == CallIds(x) # <<>>
Completes(x) == x.op = "end" /\ x.status = "completed"
Bare(x) == ~Carries(x) /\ ~Completes(x)
AllBare(p) == \A k \in 1..Len(p) : Bare(p[k])

\* One call at most carries a chunk, number n, and none behind a call that completes the
\* attempt or that may replace the rest of the handler.
Last(x) == x.op \in {"peek", "check"} \/ Completes(x)
Laid(p, n) ==
    \A k \in 1..Len(p) :
        /\ Carries(p[k]) => CallIds(p[k]) = <<n>> /\ \A j \in 1..Len(p) : Carries(p[j]) => j = k
        /\ Last(p[k]) => \A j \in (k + 1)..Len(p) : Bare(p[j])

\* The thread's buffer is written before anything that has to come behind it.
Flushes(x, th) == x.op = "flush" /\ x.th = th
Behind(x, th) == (Carries(x) /\ CallThread(x) = th) \/ (Completes(x) /\ th = "main")
FlushedFirst(p, th) ==
    \A k \in 1..Len(p) : Behind(p[k], th) => \E j \in 1..(k - 1) : Flushes(p[j], th)

DueIn(p, th, x) ==
    \E k \in 1..Len(p) : CallThread(p[k]) = th
        /\ \E m \in 1..Len(CallIds(p[k])) : CallIds(p[k])[m] = x

LEMMA CallKinds ==
  ASSUME NEW x \in Calls
  PROVE  /\ CallIds(x) \in Seq(Nat) /\ CallThread(x) \in Threads
         /\ x.op = "flush" => x.th \in Threads
         /\ x.op = "publish" => x.type \in {"custom", "interrupt", "error"}
         /\ x.op \in {"mark", "end"} => x.status \in TERMINAL_RUN_STATUSES
         /\ x.op \in {"flush", "publish", "mark", "end", "peek", "check"}
  BY NoIds DEF Calls, CallIds, CallThread, Threads

LEMMA TailFacts ==
  ASSUME NEW p \in Seq(Calls), p # <<>>
  PROVE  /\ Head(p) \in Calls /\ Tail(p) \in Seq(Calls) /\ Head(p) = p[1] /\ 1 \in 1..Len(p)
         /\ Len(p) \in Nat /\ Len(Tail(p)) = Len(p) - 1
         /\ \A k \in 1..Len(Tail(p)) : Tail(p)[k] = p[k + 1] /\ k + 1 \in 1..Len(p)
         /\ \A k \in 1..Len(p) : k = 1 \/ (k - 1 \in 1..Len(Tail(p)) /\ p[k] = Tail(p)[k - 1])
<1>1. /\ Head(p) \in Calls /\ Tail(p) \in Seq(Calls) /\ Head(p) = p[1] /\ 1 \in 1..Len(p)
      /\ Len(p) \in Nat /\ Len(Tail(p)) = Len(p) - 1
      /\ \A k \in 1..Len(Tail(p)) : Tail(p)[k] = p[k + 1]
  BY HeadTailProperties, LenProperties
<1>2. \A k \in 1..Len(Tail(p)) : k + 1 \in 1..Len(p)
  BY <1>1
<1>3. ASSUME NEW k \in 1..Len(p), k # 1
      PROVE  k - 1 \in 1..Len(Tail(p)) /\ p[k] = Tail(p)[k - 1]
  <2>1. k - 1 \in 1..Len(Tail(p)) /\ (k - 1) + 1 = k
    BY <1>1, <1>3
  <2> QED BY <1>1, <2>1
<1> QED BY <1>1, <1>2, <1>3

LEMMA LaidTail ==
  ASSUME NEW p \in Seq(Calls), p # <<>>, NEW n, Laid(p, n)
  PROVE  /\ Laid(Tail(p), n)
         /\ Last(Head(p)) => AllBare(Tail(p))
         /\ Carries(Head(p)) =>
              CallIds(Head(p)) = <<n>> /\ \A k \in 1..Len(Tail(p)) : ~Carries(Tail(p)[k])
<1> DEFINE t == Tail(p)
<1>1. /\ Head(p) = p[1] /\ 1 \in 1..Len(p) /\ Len(p) \in Nat /\ Len(t) = Len(p) - 1
      /\ \A k \in 1..Len(t) : t[k] = p[k + 1] /\ k + 1 \in 1..Len(p)
  BY TailFacts
<1> HIDE DEF t
<1>2. ASSUME NEW k \in 1..Len(t)
      PROVE  /\ Carries(t[k]) => CallIds(t[k]) = <<n>> /\ \A j \in 1..Len(t) : Carries(t[j]) => j = k
             /\ Last(t[k]) => \A j \in (k + 1)..Len(t) : Bare(t[j])
  <2>1. t[k] = p[k + 1] /\ k + 1 \in 1..Len(p)
    BY <1>1
  <2>2. ASSUME Carries(t[k]), NEW j \in 1..Len(t), Carries(t[j]) PROVE j = k
    <3>1. j + 1 = k + 1
      BY <1>1, <2>1, <2>2 DEF Laid
    <3> QED BY <3>1
  <2>3. ASSUME Last(t[k]), NEW j \in (k + 1)..Len(t) PROVE Bare(t[j])
    <3>1. j \in 1..Len(t) /\ j + 1 \in ((k + 1) + 1)..Len(p)
      BY <1>1
    <3> QED BY <1>1, <2>1, <2>3, <3>1 DEF Laid
  <2> QED BY <2>1, <2>2, <2>3 DEF Laid
<1>3. Laid(t, n)
  BY <1>2 DEF Laid
<1>4. ASSUME Last(Head(p)) PROVE AllBare(t)
  <2>1. ASSUME NEW k \in 1..Len(t) PROVE Bare(t[k])
    <3>1. k + 1 \in (1 + 1)..Len(p) /\ t[k] = p[k + 1]
      BY <1>1
    <3> QED BY <1>1, <1>4, <3>1 DEF Laid
  <2> QED BY <2>1 DEF AllBare
<1>5. ASSUME Carries(Head(p))
      PROVE  CallIds(Head(p)) = <<n>> /\ \A k \in 1..Len(t) : ~Carries(t[k])
  <2>1. CallIds(Head(p)) = <<n>> /\ \A j \in 1..Len(p) : Carries(p[j]) => j = 1
    BY <1>1, <1>5 DEF Laid
  <2>2. ASSUME NEW k \in 1..Len(t), Carries(t[k]) PROVE FALSE
    <3>1. k + 1 = 1
      BY <1>1, <2>1, <2>2
    <3> QED BY <3>1
  <2> QED BY <2>1, <2>2
<1> QED BY <1>3, <1>4, <1>5 DEF t

LEMMA FlushedTail ==
  ASSUME NEW p \in Seq(Calls), p # <<>>, NEW th, FlushedFirst(p, th)
  PROVE  /\ ~Flushes(Head(p), th) => FlushedFirst(Tail(p), th)
         /\ ~Behind(Head(p), th)
<1> DEFINE t == Tail(p)
<1>1. /\ Head(p) = p[1] /\ 1 \in 1..Len(p) /\ Len(p) \in Nat /\ Len(t) = Len(p) - 1
      /\ \A k \in 1..Len(t) : t[k] = p[k + 1] /\ k + 1 \in 1..Len(p)
  BY TailFacts
<1> HIDE DEF t
<1>2. ASSUME ~Flushes(Head(p), th), NEW k \in 1..Len(t), Behind(t[k], th)
      PROVE  \E j \in 1..(k - 1) : Flushes(t[j], th)
  <2>1. PICK j \in 1..((k + 1) - 1) : Flushes(p[j], th)
    BY <1>1, <1>2 DEF FlushedFirst
  <2>2. j # 1
    BY <1>1, <1>2, <2>1
  <2>3. j - 1 \in 1..(k - 1) /\ j - 1 \in 1..Len(t) /\ (j - 1) + 1 = j
    BY <1>1, <2>1, <2>2
  <2>4. Flushes(t[j - 1], th)
    BY <1>1, <2>1, <2>3
  <2> QED BY <2>3, <2>4
<1>3. ~Behind(Head(p), th)
  <2> SUFFICES ASSUME Behind(p[1], th) PROVE FALSE
    BY <1>1
  <2>1. PICK j \in 1..(1 - 1) : Flushes(p[j], th)
    BY <1>1 DEF FlushedFirst
  <2> QED BY <2>1
<1> QED BY <1>2, <1>3 DEF FlushedFirst, t

LEMMA DueTail ==
  ASSUME NEW p \in Seq(Calls), p # <<>>, NEW th, NEW x
  PROVE  DueIn(p, th, x) <=>
           \/ DueIn(Tail(p), th, x)
           \/ CallThread(Head(p)) = th /\ \E m \in 1..Len(CallIds(Head(p))) : CallIds(Head(p))[m] = x
<1> DEFINE t == Tail(p)
           D(y) == CallThread(y) = th /\ \E m \in 1..Len(CallIds(y)) : CallIds(y)[m] = x
<1>1. /\ Head(p) = p[1] /\ 1 \in 1..Len(p)
      /\ \A k \in 1..Len(t) : t[k] = p[k + 1] /\ k + 1 \in 1..Len(p)
      /\ \A k \in 1..Len(p) : k = 1 \/ (k - 1 \in 1..Len(t) /\ p[k] = t[k - 1])
  BY TailFacts
<1>2. /\ DueIn(p, th, x) <=> \E k \in 1..Len(p) : D(p[k])
      /\ DueIn(t, th, x) <=> \E k \in 1..Len(t) : D(t[k])
  BY DEF DueIn
<1> HIDE DEF t, D
<1>3. (\E k \in 1..Len(p) : D(p[k])) <=> (\E k \in 1..Len(t) : D(t[k])) \/ D(Head(p))
  BY <1>1
<1> QED BY <1>2, <1>3 DEF t, D

LEMMA BareFacts ==
  ASSUME NEW p \in Seq(Calls), AllBare(p)
  PROVE  /\ \A n : Laid(p, n)
         /\ \A th : FlushedFirst(p, th)
         /\ \A th, x : ~DueIn(p, th, x)
         /\ \A k \in 1..Len(p) : ~Completes(p[k])
<1>1. \A n : Laid(p, n)
  <2>1. \A k \in 1..Len(p) : \A j \in (k + 1)..Len(p) : j \in 1..Len(p)
    BY LenProperties
  <2> QED BY <2>1 DEF AllBare, Bare, Laid
<1>2. \A th : FlushedFirst(p, th)
  BY DEF AllBare, Bare, FlushedFirst, Behind
<1>3. \A th, x : ~DueIn(p, th, x)
  <2>1. \A k \in 1..Len(p) : CallIds(p[k]) = <<>>
    BY DEF AllBare, Bare, Carries
  <2> QED BY <2>1 DEF DueIn
<1> QED BY <1>1, <1>2, <1>3 DEF AllBare, Bare

LEMMA BareConcat ==
  ASSUME NEW p \in Seq(Calls), NEW q \in Seq(Calls), AllBare(p), AllBare(q)
  PROVE  AllBare(p \o q)
<1> DEFINE c == p \o q
<1>1. /\ Len(p) \in Nat /\ Len(q) \in Nat /\ Len(c) = Len(p) + Len(q)
      /\ \A i \in 1..Len(p) : c[i] = p[i]
      /\ \A i \in 1..Len(q) : c[i + Len(p)] = q[i]
  BY ConcatProperties, LenProperties
<1> HIDE DEF c
<1> SUFFICES ASSUME NEW i \in 1..Len(c) PROVE Bare(c[i])
  BY DEF AllBare, c
<1>2. CASE i \in 1..Len(p)
  BY <1>1, <1>2 DEF AllBare
<1>3. CASE i \notin 1..Len(p)
  <2>1. i - Len(p) \in 1..Len(q) /\ (i - Len(p)) + Len(p) = i
    BY <1>1, <1>3
  <2> QED BY <1>1, <2>1 DEF AllBare
<1> QED BY <1>2, <1>3

LEMMA BarePieces ==
    /\ AllBare(FlushAll) /\ AllBare(<<>>)
    /\ \A th : AllBare(<<Flush(th)>>)
    /\ \A type, th : AllBare(<<Publish(type, th, <<>>)>>)
    /\ \A s \in TERMINAL_RUN_STATUSES \ {"completed"} : AllBare(Finish(s, <<>>))
<1> USE DEF AllBare, Bare, Carries, Completes, CallIds
<1>1. AllBare(FlushAll) /\ AllBare(<<>>)
  BY DEF FlushAll, Flush
<1>2. \A th : AllBare(<<Flush(th)>>)
  BY DEF Flush
<1>3. \A type, th : AllBare(<<Publish(type, th, <<>>)>>)
  BY DEF Publish
<1>4. ASSUME NEW s \in TERMINAL_RUN_STATUSES \ {"completed"} PROVE AllBare(Finish(s, <<>>))
  <2>1. Finish(s, <<>>) = <<Mark(s), End(s, <<>>)>>
    BY DEF Finish
  <2>2. Bare(Mark(s)) /\ Bare(End(s, <<>>)) /\ Len(<<Mark(s), End(s, <<>>)>>) = 2
    BY DEF Mark, End
  <2> QED BY <2>1, <2>2
<1> QED BY <1>1, <1>2, <1>3, <1>4

LEMMA BareCancelPlan == AllBare(CancelPlan)
<1>0. Publish("interrupt", "main", <<>>) \in Calls
  BY CallTypes, NoIds DEF Threads
<1>1. <<Publish("interrupt", "main", <<>>)>> \in Seq(Calls)
  BY <1>0
<1>2. Finish("cancelled", <<>>) \in Seq(Calls) /\ AllBare(Finish("cancelled", <<>>))
  BY FinishType, NoIds, BarePieces DEF TERMINAL_RUN_STATUSES
<1>3. AllBare(FlushAll \o <<Publish("interrupt", "main", <<>>)>>)
  BY <1>1, FlushAllType, BarePieces, BareConcat
<1>4. FlushAll \o <<Publish("interrupt", "main", <<>>)>> \in Seq(Calls)
  BY <1>1, FlushAllType
<1>5. CancelPlan = (FlushAll \o <<Publish("interrupt", "main", <<>>)>>) \o Finish("cancelled", <<>>)
  BY DEF CancelPlan
<1> QED BY <1>2, <1>3, <1>4, <1>5, BareConcat

LEMMA BareErrorPlan ==
  ASSUME NEW r \in BOOLEAN
  PROVE  AllBare(ErrorPlan(r))
<1> DEFINE ends == IF r /\ ~_is_last_try THEN <<>> ELSE Finish("failed", <<>>)
<1>0. Publish("error", "main", <<>>) \in Calls
  BY CallTypes, NoIds DEF Threads
<1>1. <<Publish("error", "main", <<>>)>> \in Seq(Calls)
  BY <1>0
<1>2. ends \in Seq(Calls) /\ AllBare(ends)
  BY FinishType, NoIds, NoCalls, BarePieces DEF TERMINAL_RUN_STATUSES
<1> HIDE DEF ends
<1>3. AllBare(FlushAll \o <<Publish("error", "main", <<>>)>>)
  BY <1>1, FlushAllType, BarePieces, BareConcat
<1>4. FlushAll \o <<Publish("error", "main", <<>>)>> \in Seq(Calls)
  BY <1>1, FlushAllType
<1>5. ErrorPlan(r) = (FlushAll \o <<Publish("error", "main", <<>>)>>) \o ends
  BY DEF ErrorPlan, ends
<1> QED BY <1>2, <1>3, <1>4, <1>5, BareConcat

\* Two short sequences, call by call.
LEMMA Joined ==
  ASSUME NEW a \in Seq(Calls), NEW b \in Calls, NEW c \in Calls
  PROVE  LET p == a \o <<b, c>> IN
         /\ p \in Seq(Calls) /\ Len(p) = Len(a) + 2 /\ \A k \in 1..Len(a) : p[k] = a[k]
         /\ p[Len(a) + 1] = b /\ p[Len(a) + 2] = c
<1>1. <<b, c>> \in Seq(Calls) /\ Len(<<b, c>>) = 2 /\ <<b, c>>[1] = b /\ <<b, c>>[2] = c
  OBVIOUS
<1> QED BY <1>1, ConcatProperties, LenProperties

LEMMA Wrapped ==
  ASSUME NEW a \in Calls, NEW b \in Calls, NEW c \in Seq(Calls)
  PROVE  LET p == <<a>> \o c \o <<b>> IN
         /\ p \in Seq(Calls) /\ Len(p) = Len(c) + 2
         /\ p[1] = a /\ p[Len(c) + 2] = b /\ \A k \in 1..Len(c) : p[k + 1] = c[k]
<1> DEFINE q == <<a>> \o c
           r == q \o <<b>>
<1>1. /\ <<a>> \in Seq(Calls) /\ Len(<<a>>) = 1 /\ <<a>>[1] = a
      /\ <<b>> \in Seq(Calls) /\ Len(<<b>>) = 1 /\ <<b>>[1] = b
  OBVIOUS
<1>2. q \in Seq(Calls) /\ Len(q) = Len(c) + 1 /\ q[1] = a /\ \A k \in 1..Len(c) : q[k + 1] = c[k]
  BY <1>1, ConcatProperties
<1> HIDE DEF q
<1>3. /\ r \in Seq(Calls) /\ Len(r) = Len(c) + 2
      /\ r[1] = a /\ r[Len(c) + 2] = b /\ \A k \in 1..Len(c) : r[k + 1] = c[k]
  BY <1>1, <1>2, ConcatProperties, LenProperties
<1> QED BY <1>3 DEF q

\* A handler that carries nothing, with the flushes in front.
LEMMA ExhaustPlanFacts ==
  /\ \A n : Laid(ExhaustPlan, n)
  /\ \A th \in Threads : FlushedFirst(ExhaustPlan, th)
  /\ \A th, x : ~DueIn(ExhaustPlan, th, x)
<1>1. CASE terminal_set
  <2>1. ExhaustPlan = FlushAll
    BY <1>1, FlushAllType DEF ExhaustPlan
  <2> QED BY <2>1, FlushAllType, BarePieces, BareFacts
<1>2. CASE ~terminal_set
  <2> DEFINE p == ExhaustPlan
  <2>1. /\ Len(p) = 4 /\ p[1] = Flush("main") /\ p[2] = Flush("sub") /\ p[3] = Mark("completed")
        /\ p[4] = End("completed", <<>>)
    <3>1. ExhaustPlan = FlushAll \o <<Mark("completed"), End("completed", <<>>)>>
      BY <1>2 DEF ExhaustPlan, Finish
    <3>2. Mark("completed") \in Calls /\ End("completed", <<>>) \in Calls
      BY CallTypes, NoIds DEF TERMINAL_RUN_STATUSES
    <3>3. Len(FlushAll) = 2 /\ FlushAll[1] = Flush("main") /\ FlushAll[2] = Flush("sub")
      BY DEF FlushAll
    <3>4. 2 + 1 = 3 /\ 2 + 2 = 4 /\ 1 \in 1..2 /\ 2 \in 1..2
      OBVIOUS
    <3> HIDE DEF p
    <3>5. p = FlushAll \o <<Mark("completed"), End("completed", <<>>)>>
      BY <3>1 DEF p
    <3>6. /\ Len(p) = Len(FlushAll) + 2 /\ \A k \in 1..Len(FlushAll) : p[k] = FlushAll[k]
          /\ p[Len(FlushAll) + 1] = Mark("completed")
          /\ p[Len(FlushAll) + 2] = End("completed", <<>>)
      BY <3>2, <3>5, FlushAllType, Joined
    <3> QED BY <3>3, <3>4, <3>6
  <2> HIDE DEF p
  <2>2. /\ Len(p) = 4 /\ \A k \in 1..4 : ~Carries(p[k]) /\ p[k].op \notin {"peek", "check"}
        /\ \A k \in 1..3 : ~Completes(p[k])
        /\ Flushes(p[1], "main")
    BY <2>1 DEF Carries, CallIds, Completes, Flushes, Flush, Mark, End
  <2>3. \A n : Laid(p, n)
    <3>1. \A k \in 1..4 : Last(p[k]) => k = 4
      BY <2>2 DEF Last
    <3> QED BY <2>2, <3>1 DEF Laid
  <2>4. \A th : FlushedFirst(p, th)
    <3>1. ASSUME NEW th, NEW k \in 1..Len(p), Behind(p[k], th) PROVE k = 4 /\ th = "main"
      BY <2>2, <3>1 DEF Behind
    <3>2. 1 \in 1..(4 - 1)
      OBVIOUS
    <3> QED BY <2>2, <3>1, <3>2 DEF FlushedFirst
  <2>5. \A th, x : ~DueIn(p, th, x)
    BY <2>2 DEF DueIn, Carries
  <2> QED BY <2>3, <2>4, <2>5 DEF p
<1> QED BY <1>1, <1>2

\* The shape of every handler of a chunk: its thread's flush, the call that carries it,
\* and a check at the end.
LEMMA ChunkPlanFacts ==
  ASSUME NEW kind \in Kinds \ {"loading"}, NEW th \in Threads, NEW n \in Nat,
         kind = "finished" => th = "main"
  PROVE  LET p == ChunkPlan(kind, th, n) IN
         /\ Laid(p, n)
         /\ \A t \in Threads : FlushedFirst(p, t)
         /\ \A t \in Threads, x \in Nat : DueIn(p, t, x) <=> (t = th /\ x = n)
         /\ (\E k \in 1..Len(p) : Completes(p[k])) => kind = "finished"
<1> DEFINE Shape(p) ==
        \E c \in 2..(Len(p) - 1) :
          /\ Flushes(p[1], th) /\ CallThread(p[c]) = th /\ CallIds(p[c]) = <<n>>
          /\ \A k \in 1..Len(p) : k # c => Bare(p[k])
          /\ \A k \in 1..Len(p) : Last(p[k]) => k >= c
          /\ Completes(p[c]) => kind = "finished"
<1>0. <<n>> # <<>> /\ Len(<<n>>) = 1 /\ <<n>>[1] = n
  OBVIOUS
<1>1. ASSUME NEW p, Len(p) \in Nat, Shape(p)
      PROVE  /\ Laid(p, n)
             /\ \A t \in Threads : FlushedFirst(p, t)
             /\ \A t \in Threads, x \in Nat : DueIn(p, t, x) <=> (t = th /\ x = n)
             /\ (\E k \in 1..Len(p) : Completes(p[k])) => kind = "finished"
  <2>1. PICK c \in 2..(Len(p) - 1) :
          /\ Flushes(p[1], th) /\ CallThread(p[c]) = th /\ CallIds(p[c]) = <<n>>
          /\ \A k \in 1..Len(p) : k # c => Bare(p[k])
          /\ \A k \in 1..Len(p) : Last(p[k]) => k >= c
          /\ Completes(p[c]) => kind = "finished"
    BY <1>1
  <2>2. c \in 1..Len(p) /\ 1 \in 1..(c - 1)
    BY <1>1, <2>1
  <2>3. Carries(p[c]) /\ \A k \in 1..Len(p) : Carries(p[k]) => k = c
    BY <1>0, <2>1 DEF Carries, Bare
  <2>4. Laid(p, n)
    <3>1. ASSUME NEW k \in 1..Len(p), Last(p[k]), NEW j \in (k + 1)..Len(p)
          PROVE  Bare(p[j])
      <4>1. j \in 1..Len(p) /\ j # c
        BY <1>1, <2>1, <3>1
      <4> QED BY <2>1, <4>1
    <3> QED BY <2>1, <2>3, <3>1 DEF Laid
  <2>5. ASSUME NEW t \in Threads PROVE FlushedFirst(p, t)
    <3>1. ASSUME NEW k \in 1..Len(p), Behind(p[k], t) PROVE k = c /\ t = th
      <4>1. k = c
        BY <2>1, <3>1 DEF Behind, Bare
      <4>2. t = CallThread(p[c]) \/ (kind = "finished" /\ t = "main")
        BY <2>1, <3>1, <4>1 DEF Behind
      <4> QED BY <2>1, <4>1, <4>2
    <3> QED BY <2>1, <2>2, <3>1 DEF FlushedFirst
  <2>6. ASSUME NEW t \in Threads, NEW x \in Nat PROVE DueIn(p, t, x) <=> (t = th /\ x = n)
    <3>1. ASSUME NEW k \in 1..Len(p), NEW m \in 1..Len(CallIds(p[k])) PROVE k = c
      BY <1>0, <2>1 DEF Bare, Carries
    <3>2. DueIn(p, t, x) => (t = th /\ x = n)
      BY <1>0, <2>1, <3>1 DEF DueIn
    <3>3. DueIn(p, th, n)
      BY <1>0, <2>1, <2>2 DEF DueIn
    <3> QED BY <3>2, <3>3
  <2>7. (\E k \in 1..Len(p) : Completes(p[k])) => kind = "finished"
    BY <2>1 DEF Bare
  <2> QED BY <2>4, <2>5, <2>6, <2>7
<1> DEFINE p == ChunkPlan(kind, th, n)
           c == ChunkCalls(kind, th, n)
<1>2. /\ \A type \in {"custom", "interrupt", "error"} : Publish(type, th, <<n>>) \in Calls
      /\ Mark("completed") \in Calls /\ Mark("failed") \in Calls /\ Mark("interrupted") \in Calls
      /\ End("completed", <<n>>) \in Calls /\ End("failed", <<>>) \in Calls
      /\ End("interrupted", <<>>) \in Calls /\ Peek \in Calls
  <2>1. <<n>> \in Seq(Nat)
    OBVIOUS
  <2> QED BY <2>1, CallTypes, NoIds DEF TERMINAL_RUN_STATUSES
<1>3. \E i \in 1..Len(c) :
        /\ CallThread(c[i]) = th /\ CallIds(c[i]) = <<n>>
        /\ \A k \in 1..Len(c) : k # i => Bare(c[k])
        /\ \A k \in 1..Len(c) : Last(c[k]) => k >= i
        /\ Completes(c[i]) => kind = "finished"
  <2> USE DEF CallThread, CallIds, Bare, Carries, Completes, Last, Publish, Mark, End, Peek
  <2>1. CASE kind = "event"
    <3>1. Len(c) = 1 /\ c[1] = Publish("custom", th, <<n>>)
      BY <2>1 DEF ChunkCalls
    <3> HIDE DEF c
    <3> QED BY <1>0, <2>1, <3>1
  <2>2. CASE kind = "finished"
    <3>1. Len(c) = 2 /\ c[1] = Mark("completed") /\ c[2] = End("completed", <<n>>)
      BY <2>2 DEF ChunkCalls, Finish
    <3> HIDE DEF c
    <3> QED BY <1>0, <2>2, <3>1
  <2>3. CASE kind = "error"
    <3>1. c = <<Publish("error", th, <<n>>)>> \o <<Mark("failed"), End("failed", <<>>)>>
      BY <2>3 DEF ChunkCalls, Finish
    <3>2. Len(c) = 3 /\ c[1] = Publish("error", th, <<n>>) /\ c[2] = Mark("failed") /\ c[3] = End("failed", <<>>)
      BY <1>2, <3>1, Joined
    <3> HIDE DEF c
    <3> QED BY <1>0, <2>3, <3>2
  <2>4. CASE kind = "ask"
    <3>1. c = <<Publish("interrupt", th, <<n>>)>> \o <<Mark("interrupted"), End("interrupted", <<>>)>>
      BY <2>4 DEF ChunkCalls, Finish
    <3>2. Len(c) = 3 /\ c[1] = Publish("interrupt", th, <<n>>) /\ c[2] = Mark("interrupted")
          /\ c[3] = End("interrupted", <<>>)
      BY <1>2, <3>1, Joined
    <3> HIDE DEF c
    <3> QED BY <1>0, <2>4, <3>2
  <2>5. CASE kind = "interrupted"
    <3>1. Len(c) = 2 /\ c[1] = Publish("interrupt", th, <<n>>) /\ c[2] = Peek
      BY <2>5 DEF ChunkCalls
    <3> HIDE DEF c
    <3> QED BY <1>0, <2>5, <3>1
  <2> QED BY <2>1, <2>2, <2>3, <2>4, <2>5 DEF Kinds
<1>4. c \in Seq(Calls)
  <2>1. CASE kind = "event"
    BY <1>2, <2>1 DEF ChunkCalls
  <2>2. CASE kind = "finished"
    BY <1>2, <2>2 DEF ChunkCalls, Finish
  <2>3. CASE kind = "error"
    BY <1>2, <2>3 DEF ChunkCalls, Finish
  <2>4. CASE kind = "ask"
    BY <1>2, <2>4 DEF ChunkCalls, Finish
  <2>5. CASE kind = "interrupted"
    BY <1>2, <2>5 DEF ChunkCalls
  <2> QED BY <2>1, <2>2, <2>3, <2>4, <2>5 DEF Kinds
<1>5. /\ p \in Seq(Calls) /\ Len(p) = Len(c) + 2 /\ Len(c) \in Nat
      /\ p[1] = Flush(th) /\ p[Len(c) + 2] = Check /\ \A k \in 1..Len(c) : p[k + 1] = c[k]
  BY <1>4, CallTypes, Wrapped, LenProperties DEF ChunkPlan
<1> HIDE DEF p, c
<1>6. Shape(p)
  <2>1. PICK i \in 1..Len(c) :
          /\ CallThread(c[i]) = th /\ CallIds(c[i]) = <<n>>
          /\ \A k \in 1..Len(c) : k # i => Bare(c[k])
          /\ \A k \in 1..Len(c) : Last(c[k]) => k >= i
          /\ Completes(c[i]) => kind = "finished"
    BY <1>3
  <2>2. i + 1 \in 2..(Len(p) - 1) /\ p[i + 1] = c[i]
    BY <1>5, <2>1
  <2>3. Flushes(p[1], th) /\ Bare(p[1]) /\ ~Last(p[1]) /\ Bare(p[Len(c) + 2])
    BY <1>5 DEF Flushes, Flush, Check, Bare, Carries, Completes, Last, CallIds
  <2>4. ASSUME NEW k \in 1..Len(p)
        PROVE  /\ k # i + 1 => Bare(p[k])
               /\ Last(p[k]) => k >= i + 1
    <3>1. CASE k = 1
      BY <2>3, <3>1
    <3>2. CASE k = Len(c) + 2
      BY <1>5, <2>1, <2>3, <3>2
    <3>3. CASE k \notin {1, Len(c) + 2}
      <4>0. Len(c) \in Nat /\ k \in 1..(Len(c) + 2) /\ i \in Nat
        BY <1>5, <2>1
      <4>1. k - 1 \in 1..Len(c) /\ (k - 1) + 1 = k /\ (k # i + 1 => k - 1 # i) /\ (k - 1 >= i => k >= i + 1)
        BY ONLY <3>3, <4>0
      <4>2. p[k] = c[k - 1]
        BY <1>5, <4>1
      <4> QED BY <2>1, <4>1, <4>2
    <3> QED BY <3>1, <3>2, <3>3
  <2> QED BY <2>1, <2>2, <2>3, <2>4
<1>7. Len(p) \in Nat
  BY <1>5
<1> HIDE DEF Shape
<1> QED BY <1>1, <1>6, <1>7 DEF p

-----------------------------------------------------------------------------
(* Where a chunk is: on the stream, in the writer's buffer, or with a call *)
(* of the handler.  The inductive invariant says that every chunk is in    *)
(* one of these places and that they are ordered.                          *)

EventOf(i, th) == stream[i].try = job_try /\ stream[i].th = th
Sent(th, x) ==
    \E i \in 1..Len(stream) : EventOf(i, th)
        /\ \E m \in 1..Len(stream[i].ids) : stream[i].ids[m] = x
Held(th, x) == \E b \in 1..Len(buffer[th]) : buffer[th][b] = x
Due(th, x) == DueIn(plan, th, x)

Ordered ==
    \A th \in Threads, x, y \in Nat :
        /\ Sent(th, x) /\ (Held(th, y) \/ Due(th, y)) => x < y
        /\ Held(th, x) /\ Due(th, y) => x < y
        /\ Sent(th, x) \/ Held(th, x) \/ Due(th, x) => x <= Len(delivered)

Covered ==
    \A x \in 1..Len(delivered) :
        Sent(delivered[x], x) \/ Held(delivered[x], x) \/ Due(delivered[x], x)

\* Nothing is taken from the generator once the attempt says that it is complete.
CompletedEnd(i) == stream[i].type = "end" /\ stream[i].arg = "completed" /\ stream[i].try = job_try
Completing == \E k \in 1..Len(plan) : Completes(plan[k])
CompletesLast ==
    (\E i \in 1..Len(stream) : CompletedEnd(i)) \/ Completing => agent = "ended" \/ leave # "stream"

Attempt ==
    /\ Laid(plan, Len(delivered))
    /\ \A th \in Threads : buffer[th] = <<>> \/ FlushedFirst(plan, th)
    /\ Ordered /\ Covered /\ CompletesLast

Setup == {"idle", "load", "start", "user_not_found", "metadata"}
NothingTaken ==
    /\ pc \in Setup => agent = "init" /\ delivered = <<>> /\ \A th \in Threads : buffer[th] = <<>>
    /\ pc \in Setup \union {"stream"} => leave = "stream"

Tries == \A i \in 1..Len(stream) : stream[i].try <= job_try

\* ThreadOrder and NothingHeldBack, of an environment that does not fail.
Ranked ==
    \A i, j \in 1..Len(stream) :
        i < j /\ stream[i].try = stream[j].try /\ stream[i].th = stream[j].th =>
        \A m \in 1..Len(stream[i].ids), n \in 1..Len(stream[j].ids) :
            stream[i].ids[m] < stream[j].ids[n]
AnswerOut ==
    \A e \in 1..Len(stream) : CompletedEnd(e) /\ agent = "ended" =>
        \A n \in 1..Len(delivered) : delivered[n] = "main" =>
            \E i \in 1..e : stream[i].try = job_try /\ \E m \in 1..Len(stream[i].ids) : stream[i].ids[m] = n

Writing == Tries /\ NothingTaken /\ Ranked /\ AnswerOut /\ (pc # "idle" => Attempt)
WriterInv == faults = 0 => Writing

LEMMA Places ==
  ASSUME TypeOK
  PROVE  /\ Len(stream) \in Nat /\ Len(delivered) \in Nat /\ job_try \in Nat
         /\ \A i \in 1..Len(stream) : stream[i] \in Events /\ stream[i].ids \in Seq(Nat)
                                     /\ stream[i].th \in Threads /\ stream[i].try \in Nat
         /\ \A th \in Threads : buffer[th] \in Seq(Nat)
         /\ \A x \in 1..Len(delivered) : delivered[x] \in Threads
         /\ plan \in Seq(Calls) /\ (pc = "plan" <=> plan # <<>>)
         /\ "main" \in Threads
<1>1. stream \in Seq(Events) /\ delivered \in Seq(Threads) /\ job_try \in Nat
      /\ buffer \in [Threads -> Seq(Nat)] /\ plan \in Seq(Calls) /\ (pc = "plan" <=> plan # <<>>)
  BY TriesAssumption DEF TypeOK, VarsOK, LocalsOK, ControlOK, QueueOK
<1>2. \A i \in 1..Len(stream) : stream[i] \in Events
  BY <1>1
<1>3. \A i \in 1..Len(stream) : stream[i].ids \in Seq(Nat) /\ stream[i].th \in Threads /\ stream[i].try \in Nat
  BY <1>2 DEF Events
<1> QED BY <1>1, <1>2, <1>3, LenProperties DEF Threads

LEMMA Appended ==
  ASSUME TypeOK, NEW e \in Events, stream' = Append(stream, e), e.try = job_try, job_try' = job_try
  PROVE  /\ \A th \in Threads, x \in Nat :
              Sent(th, x)' <=> Sent(th, x) \/ (e.th = th /\ \E m \in 1..Len(e.ids) : e.ids[m] = x)
         /\ Tries => Tries'
         /\ Ranked /\ (\A m \in 1..Len(e.ids) : \A x \in Nat : Sent(e.th, x) => x < e.ids[m]) => Ranked'
         /\ (\E i \in 1..Len(stream') : CompletedEnd(i)') =>
              (\E i \in 1..Len(stream) : CompletedEnd(i)) \/ (e.type = "end" /\ e.arg = "completed")
         /\ /\ AnswerOut /\ agent' = agent /\ delivered' = delivered
            /\ e.type = "end" /\ e.arg = "completed" /\ agent = "ended" =>
                  \A n \in 1..Len(delivered) : delivered[n] = "main" => Sent("main", n)'
            => AnswerOut'
<1> DEFINE L == Len(stream)
<1>0. /\ L \in Nat /\ Len(stream') = L + 1 /\ stream'[L + 1] = e
      /\ \A i \in 1..L : stream'[i] = stream[i]
      /\ \A i \in 1..Len(stream') : i \in 1..L \/ i = L + 1
      /\ \A i \in 1..L : i \in 1..Len(stream') /\ i # L + 1
      /\ L + 1 \in 1..Len(stream')
  <2>1. stream \in Seq(Events)
    BY DEF TypeOK, VarsOK
  <2>2. L \in Nat /\ Len(stream') = L + 1 /\ stream'[L + 1] = e /\ \A i \in 1..L : stream'[i] = stream[i]
    BY <2>1, AppendProperties, LenProperties
  <2> HIDE DEF L
  <2> QED BY <2>2
<1>1. /\ job_try \in Nat /\ e.ids \in Seq(Nat)
      /\ \A i \in 1..L : stream[i].ids \in Seq(Nat) /\ stream[i].th \in Threads /\ stream[i].try \in Nat
  BY Places DEF Events
<1> HIDE DEF L
<1>2. ASSUME NEW th \in Threads, NEW x \in Nat
      PROVE  Sent(th, x)' <=> Sent(th, x) \/ (e.th = th /\ \E m \in 1..Len(e.ids) : e.ids[m] = x)
  <2> DEFINE S(v) == v.try = job_try /\ v.th = th /\ \E m \in 1..Len(v.ids) : v.ids[m] = x
  <2>1. Sent(th, x) <=> \E i \in 1..L : S(stream[i])
    BY DEF Sent, EventOf, L
  <2>2. Sent(th, x)' <=> \E i \in 1..Len(stream') : S(stream'[i])
    BY DEF Sent, EventOf
  <2>3. S(e) <=> e.th = th /\ \E m \in 1..Len(e.ids) : e.ids[m] = x
    OBVIOUS
  <2> HIDE DEF S
  <2>4. (\E i \in 1..Len(stream') : S(stream'[i])) <=> (\E i \in 1..L : S(stream[i])) \/ S(e)
    BY <1>0
  <2> QED BY <2>1, <2>2, <2>3, <2>4
<1>3. Tries => Tries'
  BY <1>0, <1>1 DEF Tries, L
<1>4. ASSUME Ranked, \A m \in 1..Len(e.ids) : \A x \in Nat : Sent(e.th, x) => x < e.ids[m]
      PROVE  Ranked'
  <2> SUFFICES ASSUME NEW i \in 1..Len(stream'), NEW j \in 1..Len(stream'),
                      i < j /\ stream'[i].try = stream'[j].try /\ stream'[i].th = stream'[j].th,
                      NEW m \in 1..Len(stream'[i].ids), NEW n \in 1..Len(stream'[j].ids)
               PROVE  stream'[i].ids[m] < stream'[j].ids[n]
    BY DEF Ranked
  <2>0. i < j /\ stream'[i].try = stream'[j].try /\ stream'[i].th = stream'[j].th
    OBVIOUS
  <2>1. i \in 1..L
    BY <1>0, <2>0
  <2>2. CASE j \in 1..L
    BY <1>0, <1>4, <2>0, <2>1, <2>2 DEF Ranked, L
  <2>3. CASE j = L + 1
    <3>0. stream'[i] = stream[i] /\ stream'[j] = e
      BY <1>0, <2>1, <2>3
    <3>1. EventOf(i, e.th) /\ m \in 1..Len(stream[i].ids)
      BY <2>0, <3>0 DEF EventOf
    <3>a. stream[i].ids[m] \in Nat
      <4>1. stream[i].ids \in Seq(Nat)
        BY <1>1, <2>1
      <4> QED BY <3>1, <4>1
    <3>2. Sent(e.th, stream[i].ids[m])
      BY <2>1, <3>1 DEF Sent, L
    <3>3. n \in 1..Len(e.ids)
      BY <3>0
    <3>4. stream[i].ids[m] < e.ids[n]
      BY <1>4, <3>a, <3>2, <3>3
    <3> QED BY <3>0, <3>4
  <2> QED BY <1>0, <2>2, <2>3
<1>5. ASSUME NEW i \in 1..Len(stream'), CompletedEnd(i)'
      PROVE  (\E k \in 1..L : CompletedEnd(k)) \/ (e.type = "end" /\ e.arg = "completed")
  BY <1>0, <1>5 DEF CompletedEnd
<1>6. ASSUME AnswerOut, agent' = agent, delivered' = delivered,
             e.type = "end" /\ e.arg = "completed" /\ agent = "ended" =>
                  \A n \in 1..Len(delivered) : delivered[n] = "main" => Sent("main", n)'
      PROVE  AnswerOut'
  <2> SUFFICES ASSUME NEW k \in 1..Len(stream'), CompletedEnd(k)', agent = "ended",
                      NEW n \in 1..Len(delivered), delivered[n] = "main"
               PROVE  \E i \in 1..k : stream'[i].try = job_try
                          /\ \E m \in 1..Len(stream'[i].ids) : stream'[i].ids[m] = n
    BY <1>6 DEF AnswerOut
  <2>1. CASE k \in 1..L
    <3>1. CompletedEnd(k)
      BY <1>0, <2>1 DEF CompletedEnd
    <3>2. PICK i \in 1..k : stream[i].try = job_try /\ \E m \in 1..Len(stream[i].ids) : stream[i].ids[m] = n
      BY <1>6, <2>1, <3>1 DEF AnswerOut, L
    <3>3. i \in 1..L
      BY <1>0, <2>1
    <3> QED BY <1>0, <3>2, <3>3
  <2>2. CASE k = L + 1
    <3>1. e.type = "end" /\ e.arg = "completed"
      BY <1>0, <2>2 DEF CompletedEnd
    <3>2. Sent("main", n)'
      BY <1>6, <3>1
    <3> QED BY <1>0, <2>2, <3>2 DEF Sent, EventOf
  <2> QED BY <1>0, <2>1, <2>2
<1> QED BY <1>2, <1>3, <1>4, <1>5, <1>6 DEF L

-----------------------------------------------------------------------------
(* Every step keeps it.                                                    *)

LEMMA Progress ==
  ASSUME TypeOK, TypeOK', Ordered, Covered, delivered' = delivered,
         \A th \in Threads, x \in Nat :
            /\ Sent(th, x) => Sent(th, x)'
            /\ Held(th, x) \/ Due(th, x) => Sent(th, x)' \/ Held(th, x)' \/ Due(th, x)'
            /\ Sent(th, x)' => Sent(th, x) \/ Held(th, x) \/ Due(th, x)
            /\ Held(th, x)' => Held(th, x)
            /\ Due(th, x)' => Due(th, x),
         \A th \in Threads, x, y \in Nat :
            Sent(th, x)' /\ ~Sent(th, x) /\ (Held(th, y)' \/ Due(th, y)') => x < y
  PROVE  Ordered' /\ Covered'
<1>1. ASSUME NEW th \in Threads, NEW x \in Nat, NEW y \in Nat
      PROVE  /\ Sent(th, x)' /\ (Held(th, y)' \/ Due(th, y)') => x < y
             /\ Held(th, x)' /\ Due(th, y)' => x < y
             /\ Sent(th, x)' \/ Held(th, x)' \/ Due(th, x)' => x <= Len(delivered')
  <2> HIDE DEF Sent, Held, Due
  <2>1. Sent(th, x)' /\ (Held(th, y)' \/ Due(th, y)') => x < y
    <3>1. CASE Sent(th, x)
      BY <3>1 DEF Ordered
    <3>2. CASE ~Sent(th, x)
      BY <3>2
    <3> QED BY <3>1, <3>2
  <2>2. Held(th, x)' /\ Due(th, y)' => x < y
    BY DEF Ordered
  <2>3. Sent(th, x)' \/ Held(th, x)' \/ Due(th, x)' => x <= Len(delivered')
    BY DEF Ordered
  <2> QED BY <2>1, <2>2, <2>3
<1>2. ASSUME NEW x \in 1..Len(delivered')
      PROVE  (Sent(delivered[x], x) \/ Held(delivered[x], x) \/ Due(delivered[x], x))'
  <2>1. delivered[x] \in Threads /\ x \in Nat /\ x \in 1..Len(delivered)
    BY Places
  <2> QED BY <2>1 DEF Covered
<1> QED BY <1>1, <1>2 DEF Ordered, Covered

LEMMA SameLog ==
  ASSUME UNCHANGED <<stream, delivered, agent, job_try>>
  PROVE  /\ Tries => Tries'
         /\ Ranked => Ranked'
         /\ AnswerOut => AnswerOut'
<1>1. Tries => Tries'
  BY DEF Tries
<1>2. Ranked => Ranked'
  BY DEF Ranked
<1>3. AnswerOut => AnswerOut'
  BY DEF AnswerOut, CompletedEnd
<1> QED BY <1>1, <1>2, <1>3

LEMMA Kept ==
  ASSUME UNCHANGED <<stream, buffer, delivered, agent, plan, leave, job_try>>
  PROVE  /\ Tries => Tries'
         /\ Ranked => Ranked'
         /\ AnswerOut => AnswerOut'
         /\ Attempt => Attempt'
<1>1. (Tries => Tries') /\ (Ranked => Ranked') /\ (AnswerOut => AnswerOut')
  BY SameLog
<1>2. \A th, x : /\ Sent(th, x)' <=> Sent(th, x)
                 /\ Held(th, x)' <=> Held(th, x)
                 /\ Due(th, x)' <=> Due(th, x)
  BY DEF Sent, EventOf, Held, Due
<1>a. (Ordered => Ordered') /\ (Covered => Covered')
  BY <1>2 DEF Ordered, Covered
<1>3. CompletesLast => CompletesLast'
  BY DEF CompletesLast, Completing, CompletedEnd
<1> QED BY <1>1, <1>a, <1>3 DEF Attempt

\* The job is over, or over for this worker.
LEMMA Ended ==
  ASSUME TypeOK, Writing, NEW how, JobEnds(how), UNCHANGED <<stream, job_try>>
  PROVE  Writing'
<1>1. Tries' /\ Ranked'
  BY DEF Writing, Tries, Ranked
<1>2. AnswerOut'
  BY DEF JobEnds, FreshLocals, AnswerOut
<1>3. NothingTaken'
  BY DEF JobEnds, FreshLocals, NothingTaken, Setup
<1>4. pc' = "idle"
  BY DEF JobEnds
<1> QED BY <1>1, <1>2, <1>3, <1>4 DEF Writing

LEMMA Begun ==
  ASSUME TypeOK, TypeOK', Writing, StartJob
  PROVE  Writing'
<1> USE DEF agentVars, writerVars
<1>0. /\ pc = "idle" /\ plan = <<>> /\ leave = "stream" /\ agent = "init" /\ delivered = <<>>
      /\ \A th \in Threads : buffer[th] = <<>>
  BY Places DEF StartJob, TypeOK, BusyOK, Writing, NothingTaken, Setup
<1>1. UNCHANGED <<stream, plan, leave, agent, delivered, buffer>>
  BY DEF StartJob
<1>2. CASE job_try < MaxTries
  <2>1. job_try' = job_try + 1 /\ pc' = "load"
    BY <1>2 DEF StartJob
  <2>2. \A i \in 1..Len(stream) : stream[i].try <= job_try /\ stream[i].try # job_try'
    BY <2>1, Places DEF Writing, Tries
  <2>3. Tries'
    BY <1>1, <2>1, <2>2, Places DEF Tries
  <2>4. Ranked'
    BY <1>1 DEF Writing, Ranked
  <2>5. AnswerOut' /\ NothingTaken'
    BY <1>0, <1>1 DEF AnswerOut, NothingTaken
  <2>6. \A th \in Threads, x \in Nat : ~Sent(th, x)' /\ ~Held(th, x)' /\ ~Due(th, x)'
    <3>1. \A th, x : ~Sent(th, x)'
      BY <1>1, <2>2 DEF Sent, EventOf
    <3>2. \A th \in Threads, x \in Nat : ~Held(th, x)'
      BY <1>0, <1>1 DEF Held
    <3>3. \A th, x : ~Due(th, x)'
      BY <1>0, <1>1, NoCalls, BarePieces, BareFacts DEF Due
    <3> QED BY <3>1, <3>2, <3>3
  <2>7. Ordered' /\ Covered'
    BY <1>0, <1>1, <2>6 DEF Ordered, Covered
  <2>8. Laid(plan', Len(delivered'))
    BY <1>0, <1>1, NoCalls, BarePieces, BareFacts
  <2>9. CompletesLast' /\ \A th \in Threads : buffer'[th] = <<>>
    <3>1. ~Completing'
      BY <1>0, <1>1, NoCalls, BarePieces, BareFacts DEF Completing
    <3>2. \A i \in 1..Len(stream') : ~CompletedEnd(i)'
      BY <1>1, <2>2 DEF CompletedEnd
    <3> QED BY <1>0, <1>1, <3>1, <3>2 DEF CompletesLast
  <2> QED BY <2>3, <2>4, <2>5, <2>7, <2>8, <2>9 DEF Writing, Attempt
<1>3. CASE ~(job_try < MaxTries)
  <2>1. UNCHANGED <<job_try, pc>>
    BY <1>3 DEF StartJob
  <2>2. NothingTaken' /\ pc' = "idle"
    BY <1>0, <1>1, <2>1 DEF NothingTaken
  <2>3. UNCHANGED <<stream, buffer, delivered, agent, plan, leave, job_try>>
    BY <1>1, <2>1
  <2>4. Tries' /\ Ranked' /\ AnswerOut'
    BY <2>3, Kept DEF Writing
  <2> QED BY <2>2, <2>4 DEF Writing
<1> QED BY <1>2, <1>3

\* A new chunk, kept for later or handed to a call.
LEMMA Taken ==
  ASSUME TypeOK, Ordered, Covered, plan = <<>>, UNCHANGED <<stream, job_try>>,
         NEW t \in Threads, delivered' = Append(delivered, t),
         NEW n \in Nat, n = Len(delivered) + 1,
         \A th \in Threads, x \in Nat :
            /\ Held(th, x) => Held(th, x)'
            /\ Held(th, x)' => Held(th, x) \/ (th = t /\ x = n)
            /\ Due(th, x)' => th = t /\ x = n,
         Held(t, n)' \/ Due(t, n)', ~(Held(t, n)' /\ Due(t, n)')
  PROVE  Ordered' /\ Covered'
<1>0. /\ n \in Nat /\ Len(delivered) \in Nat /\ Len(delivered') = n /\ delivered'[n] = t
      /\ \A x \in 1..Len(delivered) : delivered'[x] = delivered[x]
      /\ \A x \in 1..n : x \in 1..Len(delivered) \/ x = n
      /\ \A x \in Nat : x <= Len(delivered) => x < n /\ x <= n
  <2>1. delivered \in Seq(Threads)
    BY DEF TypeOK, VarsOK, LocalsOK
  <2>2. /\ Len(delivered) \in Nat /\ Len(delivered') = n /\ delivered'[n] = t
        /\ \A x \in 1..Len(delivered) : delivered'[x] = delivered[x]
    BY <2>1, AppendProperties, LenProperties
  <2> QED BY <2>2
<1>1. \A th \in Threads, x \in Nat :
        /\ Sent(th, x)' <=> Sent(th, x)
        /\ ~Due(th, x)
  BY NoCalls, BarePieces, BareFacts DEF Sent, EventOf, Due
<1>2. \A th \in Threads, x \in Nat :
        /\ Held(th, x) => Held(th, x)'
        /\ Held(th, x)' => Held(th, x) \/ (th = t /\ x = n)
        /\ Due(th, x)' => th = t /\ x = n
  OBVIOUS
<1>3. (Held(t, n)' \/ Due(t, n)') /\ ~(Held(t, n)' /\ Due(t, n)')
  OBVIOUS
<1>4. \A th \in Threads, x \in Nat : Sent(th, x) \/ Held(th, x) => x <= Len(delivered)
  BY DEF Ordered
<1>5. ASSUME NEW th \in Threads, NEW x \in Nat, NEW y \in Nat
      PROVE  /\ Sent(th, x)' /\ (Held(th, y)' \/ Due(th, y)') => x < y
             /\ Held(th, x)' /\ Due(th, y)' => x < y
             /\ Sent(th, x)' \/ Held(th, x)' \/ Due(th, x)' => x <= Len(delivered')
  <2>1. Sent(th, x) /\ Held(th, y) => x < y
    BY DEF Ordered
  <2>2. Sent(th, x)' /\ (Held(th, y)' \/ Due(th, y)') => x < y
    BY <1>0, <1>1, <1>2, <1>4, <2>1
  <2>3. Held(th, x)' /\ Due(th, y)' => x < y
    BY <1>0, <1>2, <1>3, <1>4
  <2>4. Sent(th, x)' \/ Held(th, x)' \/ Due(th, x)' => x <= Len(delivered')
    BY <1>0, <1>1, <1>2, <1>4
  <2> QED BY <2>2, <2>3, <2>4
<1>6. ASSUME NEW x \in 1..Len(delivered')
      PROVE  (Sent(delivered[x], x) \/ Held(delivered[x], x) \/ Due(delivered[x], x))'
  <2>1. CASE x \in 1..Len(delivered)
    <3>1. delivered'[x] = delivered[x] /\ delivered[x] \in Threads /\ x \in Nat
      BY <1>0, <2>1, Places
    <3> QED BY <1>1, <1>2, <2>1, <3>1 DEF Covered
  <2>2. CASE x = n
    <3>1. delivered'[x] = t
      BY <1>0, <2>2
    <3>2. Held(t, x)' \/ Due(t, x)'
      BY <1>3, <2>2
    <3> QED BY <3>1, <3>2
  <2> QED BY <1>0, <2>1, <2>2
<1> QED BY <1>5, <1>6 DEF Ordered, Covered

LEMMA SetupWrites ==
  ASSUME TypeOK, TypeOK', Writing, Load \/ UserNotFound \/ MarkRunning \/ Metadata
  PROVE  Writing'
<1> USE DEF ctrlVars, agentVars, writerVars, queueVars
<1>1. CASE Load
  <2>1. CASE NothingToDo
    BY <1>1, <2>1, Ended DEF Load
  <2>2. CASE ~NothingToDo
    <3>1. UNCHANGED <<stream, buffer, delivered, agent, plan, leave, job_try>>
      BY <1>1, <2>2 DEF Load
    <3>2. NothingTaken' /\ pc # "idle"
      BY <1>1, <2>2, <3>1 DEF Load, Writing, NothingTaken, Setup
    <3> QED BY <3>1, <3>2, Kept DEF Writing
  <2> QED BY <2>1, <2>2
<1>2. CASE UserNotFound
  BY <1>2, Ended DEF UserNotFound
<1>3. CASE MarkRunning
  <2>1. UNCHANGED <<stream, buffer, delivered, agent, plan, leave, job_try>>
    BY <1>3 DEF MarkRunning
  <2>2. NothingTaken' /\ pc # "idle"
    BY <1>3, <2>1 DEF MarkRunning, Writing, NothingTaken, Setup
  <2> QED BY <2>1, <2>2, Kept DEF Writing
<1>4. CASE Metadata
  <2>1. /\ UNCHANGED <<buffer, delivered, agent, plan, leave, job_try>>
        /\ pc = "metadata" /\ pc' = "stream"
    BY <1>4 DEF Metadata
  <2>2. PICK e \in Events : /\ stream' = Append(stream, e) /\ e.try = job_try
                            /\ e.ids = <<>> /\ e.type = "metadata"
    <3> DEFINE e == [type |-> "metadata", th |-> "main", ids |-> <<>>, arg |-> "none", try |-> job_try]
    <3>1. e \in Events
      BY NoIds, Places DEF Events, Threads
    <3> QED BY <1>4, <3>1 DEF Metadata, Emit
  <2>3. /\ \A th \in Threads, x \in Nat : Sent(th, x)' <=> Sent(th, x)
        /\ Tries' /\ Ranked' /\ AnswerOut'
        /\ (\E i \in 1..Len(stream') : CompletedEnd(i)') => \E i \in 1..Len(stream) : CompletedEnd(i)
    BY <2>1, <2>2, Appended DEF Writing
  <2>4. \A th, x : /\ Held(th, x)' <=> Held(th, x)
                   /\ Due(th, x)' <=> Due(th, x)
    BY <2>1 DEF Held, Due
  <2>5. Attempt
    BY <2>1 DEF Writing
  <2>6. Ordered' /\ Covered'
    BY <2>1, <2>3, <2>4, <2>5, Progress DEF Attempt
  <2>7. CompletesLast'
    BY <2>1, <2>3, <2>5 DEF Attempt, CompletesLast, Completing
  <2>8. NothingTaken'
    BY <2>1 DEF Writing, NothingTaken, Setup
  <2> QED BY <2>1, <2>3, <2>5, <2>6, <2>7, <2>8 DEF Writing, Attempt
<1> QED BY <1>1, <1>2, <1>3, <1>4

\* A handler that carries nothing takes the place of one that does not either.
LEMMA Diverted ==
  ASSUME TypeOK, TypeOK', Writing, pc # "idle", UNCHANGED <<stream, buffer, delivered, agent, job_try>>,
         pc' = "plan", leave' # "stream",
         \A n : Laid(plan', n), \A th \in Threads : FlushedFirst(plan', th),
         \A th, x : ~DueIn(plan, th, x), \A th, x : ~DueIn(plan', th, x)
  PROVE  Writing'
<1>1. Attempt
  BY DEF Writing
<1>2. Tries' /\ Ranked' /\ AnswerOut'
  BY SameLog DEF Writing
<1>3. NothingTaken'
  BY DEF NothingTaken, Setup
<1>4. \A th, x : /\ Sent(th, x)' <=> Sent(th, x)
                 /\ Held(th, x)' <=> Held(th, x)
                 /\ ~Due(th, x)' /\ ~Due(th, x)
  BY DEF Sent, EventOf, Held, Due
<1>5. Ordered' /\ Covered'
  BY <1>1, <1>4, Progress DEF Attempt
<1>6. CompletesLast'
  BY DEF CompletesLast
<1>7. Laid(plan', Len(delivered')) /\ \A th \in Threads : FlushedFirst(plan', th)
  OBVIOUS
<1> QED BY <1>2, <1>3, <1>5, <1>6, <1>7 DEF Writing, Attempt

LEMMA BareDiverted ==
  ASSUME TypeOK, TypeOK', Writing, pc # "idle", UNCHANGED <<stream, buffer, delivered, agent, job_try>>,
         pc' = "plan", leave' # "stream", AllBare(plan), AllBare(plan')
  PROVE  Writing'
<1>1. plan \in Seq(Calls) /\ plan' \in Seq(Calls)
  BY DEF TypeOK, VarsOK, ControlOK
<1>2. \A th, x : ~DueIn(plan, th, x)
  BY <1>1, BareFacts
<1>3. /\ \A n : Laid(plan', n) /\ \A th \in Threads : FlushedFirst(plan', th)
      /\ \A th, x : ~DueIn(plan', th, x)
  BY <1>1, BareFacts
<1> QED BY <1>2, <1>3, Diverted

LEMMA StreamWrites ==
  ASSUME TypeOK, TypeOK', Writing,
         \/ \E th \in Threads : LoadingChunk(th)
         \/ \E kind \in Kinds, th \in Threads, next \in {"chat", "asked", "ended"} :
               Chunk(kind, th, next)
         \/ Exhausted \/ StreamCancelled \/ \E r \in BOOLEAN : AgentRaises(r)
  PROVE  Writing'
<1> USE DEF ctrlVars, agentVars, writerVars, queueVars
<1>0. pc = "stream" /\ plan = <<>> /\ leave = "stream" /\ Attempt /\ AllBare(plan)
  <2>1. pc = "stream"
    BY DEF LoadingChunk, Chunk, Take, Exhausted, StreamCancelled, AgentRaises
  <2> QED BY <2>1, Places, BarePieces DEF Writing, NothingTaken
<1>n. PICK n \in Nat : n = Len(delivered) + 1
  BY Places
<1>c. ASSUME agent # "ended", UNCHANGED <<stream, job_try>>
      PROVE  /\ Tries' /\ Ranked' /\ AnswerOut'
             /\ ~\E i \in 1..Len(stream') : CompletedEnd(i)'
  <2>1. ~\E i \in 1..Len(stream) : CompletedEnd(i)
    BY <1>0, <1>c DEF Attempt, CompletesLast
  <2>2. ~\E i \in 1..Len(stream') : CompletedEnd(i)'
    BY <1>c, <2>1 DEF CompletedEnd
  <2>3. AnswerOut'
    BY <2>2 DEF AnswerOut
  <2>4. Tries'
    BY <1>c DEF Writing, Tries
  <2>5. Ranked'
    BY <1>c DEF Writing, Ranked
  <2> QED BY <2>2, <2>3, <2>4, <2>5
<1>1. ASSUME NEW th \in Threads, LoadingChunk(th)
      PROVE  Writing'
  <2>1. /\ agent = "chat" /\ delivered' = Append(delivered, th) /\ UNCHANGED <<stream, job_try>>
        /\ buffer' = [buffer EXCEPT ![th] = Append(@, n)] /\ leave' = "stream" /\ pc' \in {"stream", "plan"}
        /\ plan' = <<>> \/ plan' = <<Flush(th)>>
    BY <1>0, <1>1, <1>n DEF LoadingChunk, Take, Yields, Enter
  <2>2. plan' \in Seq(Calls) /\ AllBare(plan')
    BY <2>1, BarePieces DEF TypeOK, VarsOK, ControlOK
  <2>3. /\ Laid(plan', Len(delivered')) /\ \A t \in Threads : FlushedFirst(plan', t)
        /\ \A t, x : ~Due(t, x)' /\ ~Completing'
    BY <2>2, BareFacts DEF Due, Completing
  <2>4. ASSUME NEW t \in Threads, NEW x \in Nat
        PROVE  /\ Held(t, x) => Held(t, x)'
               /\ Held(t, x)' => Held(t, x) \/ (t = th /\ x = n)
               /\ t = th /\ x = n => Held(t, x)'
    <3>1. buffer[t] \in Seq(Nat) /\ buffer \in [Threads -> Seq(Nat)]
      BY DEF TypeOK, VarsOK, LocalsOK
    <3>2. CASE t # th
      BY <2>1, <3>1, <3>2 DEF Held
    <3>3. CASE t = th
      <4>1. buffer'[t] = Append(buffer[t], n)
        BY <2>1, <3>1, <3>3
      <4>2. /\ Len(buffer[t]) \in Nat /\ Len(buffer'[t]) = Len(buffer[t]) + 1
            /\ \A b \in 1..Len(buffer[t]) : buffer'[t][b] = buffer[t][b]
            /\ buffer'[t][Len(buffer[t]) + 1] = n
        BY <3>1, <4>1, AppendProperties, LenProperties
      <4> QED BY <3>3, <4>2 DEF Held
    <3> QED BY <3>2, <3>3
  <2>5. Ordered' /\ Covered'
    <3>1. Held(th, n)' /\ ~Due(th, n)'
      BY <2>3, <2>4
    <3> HIDE DEF ctrlVars, agentVars, writerVars, queueVars
    <3> QED BY <1>0, <1>n, <2>1, <2>3, <2>4, <3>1, Taken DEF Attempt
  <2>6. Tries' /\ Ranked' /\ AnswerOut' /\ CompletesLast'
    BY <1>c, <2>1, <2>3 DEF CompletesLast
  <2>7. NothingTaken'
    BY <2>1 DEF NothingTaken, Setup
  <2> QED BY <2>3, <2>5, <2>6, <2>7 DEF Writing, Attempt
<1>2. ASSUME NEW kind \in Kinds, NEW th \in Threads, NEW next \in {"chat", "asked", "ended"},
             Chunk(kind, th, next)
      PROVE  Writing'
  <2>1. /\ agent # "ended" /\ delivered' = Append(delivered, th) /\ UNCHANGED <<stream, job_try, buffer>>
        /\ plan' = ChunkPlan(kind, th, n) /\ leave' = "stream" /\ pc' = "plan" /\ agent' = next
        /\ kind \in Kinds \ {"loading"} /\ Yields(kind, th, next)
    BY <1>2, <1>n DEF Chunk, Take, Yields, Enter
  <2>2. kind = "finished" => th = "main" /\ next = "ended"
    BY <2>1 DEF Yields
  <2>3. /\ Laid(plan', n) /\ \A t \in Threads : FlushedFirst(plan', t)
        /\ \A t \in Threads, x \in Nat : Due(t, x)' <=> (t = th /\ x = n)
        /\ Completing' => kind = "finished"
    BY <2>1, <2>2, ChunkPlanFacts DEF Due, Completing
  <2>4. Len(delivered') = n
    BY <1>n, <2>1, AppendProperties DEF TypeOK, VarsOK, LocalsOK
  <2>5. \A t, x : Held(t, x)' <=> Held(t, x)
    BY <2>1 DEF Held
  <2>6. ~Held(th, n)
    <3>1. Held(th, n) => n <= Len(delivered)
      BY <1>0 DEF Attempt, Ordered
    <3> QED BY <1>n, <3>1, Places
  <2>7. Ordered' /\ Covered'
    <3>1. Due(th, n)' /\ ~Held(th, n)'
      BY <2>3, <2>5, <2>6
    <3> HIDE DEF ctrlVars, agentVars, writerVars, queueVars
    <3> QED BY <1>0, <1>n, <2>1, <2>3, <2>5, <3>1, Taken DEF Attempt
  <2>8. Tries' /\ Ranked' /\ AnswerOut' /\ CompletesLast'
    BY <1>c, <2>1, <2>2, <2>3 DEF CompletesLast
  <2>9. NothingTaken'
    BY <2>1 DEF NothingTaken, Setup
  <2> QED BY <2>3, <2>4, <2>7, <2>8, <2>9 DEF Writing, Attempt
<1>3. CASE Exhausted
  <2>1. /\ UNCHANGED <<stream, buffer, delivered, agent, job_try>>
        /\ pc' = "plan" /\ leave' = "return" /\ plan' = ExhaustPlan
    BY <1>3 DEF Exhausted, Enter
  <2>2. /\ \A m : Laid(plan', m) /\ \A th \in Threads : FlushedFirst(plan', th)
        /\ \A th, x : ~DueIn(plan', th, x)
    BY <2>1, ExhaustPlanFacts
  <2>3. \A th, x : ~DueIn(plan, th, x)
    BY <1>0, NoCalls, BareFacts
  <2> QED BY <1>0, <2>1, <2>2, <2>3, Diverted
<1>4. CASE StreamCancelled
  <2>1. /\ UNCHANGED <<stream, buffer, delivered, agent, job_try>>
        /\ pc' = "plan" /\ leave' = "return" /\ plan' = CancelPlan
    BY <1>4 DEF StreamCancelled, RaiseCancelled, Enter
  <2> QED BY <1>0, <2>1, BareCancelPlan, BareDiverted
<1>5. ASSUME NEW r \in BOOLEAN, AgentRaises(r)
      PROVE  Writing'
  <2>1. /\ UNCHANGED <<stream, buffer, delivered, agent, job_try>>
        /\ pc' = "plan" /\ leave' # "stream" /\ plan' = ErrorPlan(r)
    BY <1>5 DEF AgentRaises, RaiseError, Enter
  <2> QED BY <1>0, <2>1, BareErrorPlan, BareDiverted
<1> QED BY <1>1, <1>2, <1>3, <1>4, <1>5

\* A call that carries nothing, or only what is not there, is done.
LEMMA Passed ==
  ASSUME TypeOK, TypeOK', Writing, pc = "plan", Continue(Tail(plan)),
         UNCHANGED <<stream, buffer, delivered, agent, job_try>>,
         ~Carries(Head(plan)),
         Head(plan).op = "flush" => buffer[Head(plan).th] = <<>>
  PROVE  Writing'
<1>0. /\ Attempt /\ plan \in Seq(Calls) /\ plan # <<>>
      /\ plan' = Tail(plan) /\ leave' = leave /\ pc' \in {"plan", "stream", "close"}
      /\ pc' = "stream" => leave = "stream"
  BY Places DEF Writing, Continue
<1>1. Tries' /\ Ranked' /\ AnswerOut'
  BY SameLog DEF Writing
<1>2. NothingTaken'
  BY <1>0 DEF NothingTaken, Setup
<1>3. \A th, x : /\ Sent(th, x)' <=> Sent(th, x)
                 /\ Held(th, x)' <=> Held(th, x)
                 /\ Due(th, x)' <=> Due(th, x)
  <2>1. \A th, x : DueIn(plan, th, x) <=> DueIn(Tail(plan), th, x)
    <3>1. CallIds(Head(plan)) = <<>>
      BY DEF Carries
    <3> QED BY <1>0, <3>1, DueTail
  <2> QED BY <1>0, <2>1 DEF Sent, EventOf, Held, Due
<1>4. Ordered' /\ Covered'
  BY <1>0, <1>3, Progress DEF Attempt
<1>5. Laid(plan', Len(delivered'))
  BY <1>0, LaidTail DEF Attempt
<1>6. \A th \in Threads : buffer'[th] = <<>> \/ FlushedFirst(plan', th)
  BY <1>0, FlushedTail DEF Attempt, Flushes
<1>7. Completing' => Completing
  BY <1>0, TailFacts DEF Completing
<1>8. CompletesLast'
  BY <1>0, <1>7 DEF Attempt, CompletesLast, CompletedEnd
<1> QED BY <1>1, <1>2, <1>4, <1>5, <1>6, <1>8 DEF Writing, Attempt

\* A call that appends an event: what the buffer holds, or what it carries itself.
LEMMA Written ==
  ASSUME TypeOK, TypeOK', Writing, pc = "plan", Continue(Tail(plan)),
         UNCHANGED <<delivered, agent, job_try>>,
         NEW e \in Events, stream' = Append(stream, e), e.try = job_try,
         \/ /\ Head(plan).op = "flush" /\ e.th = Head(plan).th
            /\ e.ids = buffer[e.th] /\ buffer' = [buffer EXCEPT ![e.th] = <<>>]
            /\ e.type # "end"
         \/ /\ Head(plan).op \in {"publish", "end"} /\ e.th = CallThread(Head(plan))
            /\ e.ids = CallIds(Head(plan)) /\ UNCHANGED buffer
            /\ e.type = "end" /\ e.arg = "completed" => Completes(Head(plan))
  PROVE  Writing'
<1> DEFINE h == Head(plan)
<1>0. /\ Attempt /\ plan \in Seq(Calls) /\ plan # <<>> /\ h \in Calls
      /\ plan' = Tail(plan) /\ leave' = leave /\ pc' \in {"plan", "stream", "close"}
      /\ pc' = "stream" => leave = "stream"
  BY Places, StepType DEF Writing, Continue
<1>1. /\ e.th \in Threads /\ e.ids \in Seq(Nat) /\ \A m \in 1..Len(e.ids) : e.ids[m] \in Nat
      /\ buffer \in [Threads -> Seq(Nat)]
  <2>1. e.th \in Threads /\ e.ids \in Seq(Nat)
    BY DEF Events
  <2> QED BY <2>1 DEF TypeOK, VarsOK, LocalsOK
<1> DEFINE InE(th, x) == e.th = th /\ \E m \in 1..Len(e.ids) : e.ids[m] = x
<1>2. \A th \in Threads, x \in Nat : Sent(th, x)' <=> Sent(th, x) \/ InE(th, x)
  BY Appended
<1>3. \A th \in Threads, x \in Nat : Due(th, x)' <=> DueIn(Tail(plan), th, x)
  BY <1>0 DEF Due
<1>4. \A th \in Threads, x \in Nat :
        Due(th, x) <=> Due(th, x)' \/ (h.op \in {"publish", "end"} /\ InE(th, x))
  <2>1. \A th \in Threads, x \in Nat :
          Due(th, x) <=>
            \/ Due(th, x)'
            \/ CallThread(h) = th /\ \E m \in 1..Len(CallIds(h)) : CallIds(h)[m] = x
    BY <1>0, <1>3, DueTail DEF Due
  <2>2. CASE h.op = "flush"
    <3>1. CallIds(h) = <<>>
      BY <2>2 DEF CallIds
    <3> QED BY <2>1, <2>2, <3>1
  <2>3. CASE h.op # "flush"
    BY <2>1, <2>3
  <2> QED BY <2>2, <2>3
<1>5. \A th \in Threads, x \in Nat :
        Held(th, x) <=> Held(th, x)' \/ (h.op = "flush" /\ InE(th, x))
  <2>1. CASE h.op = "flush"
    <3>1. ASSUME NEW th \in Threads, th # e.th, NEW x \in Nat PROVE Held(th, x) <=> Held(th, x)'
      BY <1>1, <2>1, <3>1 DEF Held
    <3>2. ASSUME NEW x \in Nat PROVE ~Held(e.th, x)' /\ (Held(e.th, x) <=> InE(e.th, x))
      BY <1>1, <2>1, <3>2 DEF Held
    <3> QED BY <2>1, <3>1, <3>2
  <2>2. CASE h.op # "flush"
    BY <2>2 DEF Held
  <2> QED BY <2>1, <2>2
<1>6. h.op \in {"publish", "end"} /\ (e.ids # <<>> \/ (e.type = "end" /\ e.arg = "completed")) =>
        buffer[e.th] = <<>> /\ buffer'[e.th] = <<>>
  <2> SUFFICES ASSUME h.op \in {"publish", "end"},
                      e.ids # <<>> \/ (e.type = "end" /\ e.arg = "completed")
               PROVE  buffer[e.th] = <<>> /\ buffer' = buffer
    OBVIOUS
  <2>1. Behind(h, e.th)
    BY DEF Behind, Carries, Completes, CallThread
  <2>2. ~FlushedFirst(plan, e.th)
    BY <1>0, <2>1, FlushedTail
  <2> QED BY <1>0, <1>1, <2>2 DEF Attempt
<1>7. \A th \in Threads, x, y \in Nat : Due(th, y)' /\ InE(th, x) => h.op = "flush"
  <2> SUFFICES ASSUME NEW th \in Threads, NEW x \in Nat, NEW y \in Nat, InE(th, x),
                      h.op \in {"publish", "end"}
               PROVE  ~Due(th, y)'
    OBVIOUS
  <2>1. Carries(h)
    BY DEF Carries
  <2>2. \A k \in 1..Len(Tail(plan)) : CallIds(Tail(plan)[k]) = <<>>
    BY <1>0, <2>1, LaidTail DEF Attempt, Carries
  <2> QED BY <1>0, <2>2 DEF Due, DueIn
<1>8. ASSUME NEW th \in Threads, NEW x \in Nat, NEW y \in Nat, InE(th, x), Held(th, y)' \/ Due(th, y)'
      PROVE  x < y
  <2>1. CASE h.op = "flush"
    <3>1. Held(th, x) /\ ~Held(th, y)'
      BY <1>1, <1>5, <1>8, <2>1 DEF Held
    <3>2. Due(th, y)
      BY <1>4, <1>8, <3>1
    <3> QED BY <1>0, <3>1, <3>2 DEF Attempt, Ordered
  <2>2. CASE h.op # "flush"
    <3>1. ~Due(th, y)'
      BY <1>7, <1>8, <2>2
    <3>2. e.ids # <<>> /\ e.th = th
      BY <1>8
    <3>3. ~Held(th, y)'
      BY <1>6, <2>2, <3>2 DEF Held
    <3> QED BY <1>8, <3>1, <3>3
  <2> QED BY <2>1, <2>2
<1> HIDE DEF InE
<1>9. Ordered' /\ Covered'
  BY <1>0, <1>2, <1>4, <1>5, <1>8, Progress DEF Attempt
<1>10. Ranked'
  <2>1. ASSUME NEW m \in 1..Len(e.ids), NEW x \in Nat, Sent(e.th, x) PROVE x < e.ids[m]
    <3>1. InE(e.th, e.ids[m]) /\ e.ids[m] \in Nat
      BY <1>1 DEF InE
    <3>2. Held(e.th, e.ids[m]) \/ Due(e.th, e.ids[m])
      BY <1>1, <1>4, <1>5, <3>1
    <3> QED BY <1>0, <1>1, <2>1, <3>1, <3>2 DEF Attempt, Ordered
  <2> QED BY <2>1, Appended DEF Writing
<1>11. Tries'
  BY Appended DEF Writing
<1>12. Laid(plan', Len(delivered'))
  BY <1>0, LaidTail DEF Attempt
<1>13. \A th \in Threads : buffer'[th] = <<>> \/ FlushedFirst(plan', th)
  <2> SUFFICES ASSUME NEW th \in Threads, buffer'[th] # <<>> PROVE FlushedFirst(plan', th)
    OBVIOUS
  <2>1. buffer[th] # <<>> /\ ~Flushes(h, th)
    BY <1>1 DEF Flushes
  <2> QED BY <1>0, <2>1, FlushedTail DEF Attempt
<1>14. e.type = "end" /\ e.arg = "completed" =>
         /\ Completes(h) /\ e.th = "main"
         /\ \A n \in 1..Len(delivered) : delivered[n] = "main" => Sent("main", n)'
  <2> SUFFICES ASSUME e.type = "end", e.arg = "completed"
               PROVE  /\ Completes(h) /\ e.th = "main"
                      /\ \A n \in 1..Len(delivered) : delivered[n] = "main" => Sent("main", n)'
    OBVIOUS
  <2>1. Completes(h) /\ h.op = "end" /\ e.th = "main"
    BY DEF Completes, CallThread
  <2>2. buffer'["main"] = <<>>
    BY <1>6, <2>1
  <2>3. AllBare(Tail(plan))
    BY <1>0, <2>1, LaidTail DEF Attempt, Last
  <2>4. \A th, x : ~Due(th, x)'
    BY <1>0, <2>3, TailFacts, BareFacts DEF Due
  <2>5. \A x : ~Held("main", x)'
    BY <2>2 DEF Held
  <2>6. ASSUME NEW n \in 1..Len(delivered), delivered[n] = "main" PROVE Sent("main", n)'
    <3>1. (Sent(delivered[n], n) \/ Held(delivered[n], n) \/ Due(delivered[n], n))'
      BY <1>9 DEF Covered
    <3> QED BY <2>4, <2>5, <2>6, <3>1
  <2> QED BY <2>1, <2>6
<1>15. AnswerOut'
  BY <1>14, Appended DEF Writing
<1>16. CompletesLast'
  <2>1. Completing' => Completing
    BY <1>0, TailFacts DEF Completing
  <2>2. Completes(h) => Completing
    BY <1>0, TailFacts DEF Completing
  <2>3. (\E i \in 1..Len(stream') : CompletedEnd(i)') =>
          (\E i \in 1..Len(stream) : CompletedEnd(i)) \/ Completing
    BY <1>14, <2>2, Appended
  <2> QED BY <1>0, <2>1, <2>3 DEF Attempt, CompletesLast
<1>17. NothingTaken'
  BY <1>0 DEF NothingTaken, Setup
<1> QED BY <1>9, <1>10, <1>11, <1>12, <1>13, <1>15, <1>16, <1>17 DEF Writing, Attempt

LEMMA CallWrites ==
  ASSUME TypeOK, TypeOK', Writing,
         DoFlush \/ DoPublish \/ DoMark \/ DoEnd \/ DoPeek \/ DoCheck \/ Close
  PROVE  Writing'
<1> USE DEF ctrlVars, agentVars, writerVars, queueVars
<1> DEFINE h == Head(plan)
<1>0. pc = "plan" => /\ h \in Calls /\ plan \in Seq(Calls) /\ plan # <<>> /\ Attempt
                     /\ Tail(plan) \in Seq(Calls) /\ job_try \in Nat
  BY Places, TailFacts DEF Writing
<1>1. CASE DoFlush
  <2>1. pc = "plan" /\ h.op = "flush" /\ UNCHANGED <<delivered, agent, job_try>> /\ Continue(Tail(plan))
    BY <1>1 DEF DoFlush, At
  <2>2. h.th \in Threads /\ ~Carries(h) /\ buffer[h.th] \in Seq(Nat)
    BY <1>0, <2>1, CallKinds, Places DEF Carries, CallIds
  <2>3. CASE buffer[h.th] = <<>>
    <3>1. UNCHANGED <<stream, buffer>>
      BY <1>1, <2>3 DEF DoFlush
    <3> QED BY <2>1, <2>2, <2>3, <3>1, Passed
  <2>4. CASE buffer[h.th] # <<>>
    <3> DEFINE e == [type |-> "messages", th |-> h.th, ids |-> buffer[h.th], arg |-> "none", try |-> job_try]
    <3>1. e \in Events /\ e.th = h.th /\ e.ids = buffer[h.th] /\ e.try = job_try /\ e.type # "end"
      BY <1>0, <2>1, <2>2 DEF Events
    <3>2. stream' = Append(stream, e) /\ buffer' = [buffer EXCEPT ![h.th] = <<>>]
      BY <1>1, <2>4 DEF DoFlush, Emit, Forget
    <3> HIDE DEF e, h
    <3> QED BY <2>1, <3>1, <3>2, Written DEF h
  <2> QED BY <2>3, <2>4
<1>2. CASE DoPublish
  <2>1. pc = "plan" /\ h.op = "publish" /\ UNCHANGED <<delivered, agent, job_try, buffer>> /\ Continue(Tail(plan))
    BY <1>2 DEF DoPublish, At
  <2> DEFINE e == [type |-> h.type, th |-> h.th, ids |-> h.ids, arg |-> "none", try |-> job_try]
  <2>2. /\ h.type \in {"custom", "interrupt", "error"} /\ h.ids \in Seq(Nat) /\ h.th \in Threads
        /\ CallIds(h) = h.ids /\ CallThread(h) = h.th
    BY <1>0, <2>1, CallKinds DEF CallIds, CallThread
  <2>3. e \in Events /\ e.th = CallThread(h) /\ e.ids = CallIds(h) /\ e.try = job_try /\ e.type # "end"
    BY <1>0, <2>1, <2>2 DEF Events
  <2>4. stream' = Append(stream, e)
    BY <1>2 DEF DoPublish, Emit
  <2> HIDE DEF e, h
  <2> QED BY <2>1, <2>3, <2>4, Written DEF h
<1>3. CASE DoEnd
  <2>1. pc = "plan" /\ h.op = "end" /\ UNCHANGED <<delivered, agent, job_try, buffer>> /\ Continue(Tail(plan))
    BY <1>3 DEF DoEnd, At
  <2> DEFINE e == [type |-> "end", th |-> "main", ids |-> h.ids, arg |-> h.status, try |-> job_try]
  <2>2. /\ h.status \in TERMINAL_RUN_STATUSES /\ h.ids \in Seq(Nat)
        /\ CallIds(h) = h.ids /\ CallThread(h) = "main"
    BY <1>0, <2>1, CallKinds DEF CallIds, CallThread
  <2>3. /\ e \in Events /\ e.th = CallThread(h) /\ e.ids = CallIds(h) /\ e.try = job_try
        /\ e.arg = "completed" => Completes(h)
    BY <1>0, <2>1, <2>2 DEF Events, Completes, Threads
  <2>4. stream' = Append(stream, e)
    BY <1>3 DEF DoEnd, Emit
  <2> HIDE DEF e, h
  <2> QED BY <2>1, <2>3, <2>4, Written DEF h
<1>4. CASE DoMark
  <2>1. /\ pc = "plan" /\ h.op = "mark" /\ UNCHANGED <<stream, delivered, agent, job_try, buffer>>
        /\ Continue(Tail(plan))
    BY <1>4 DEF DoMark, At
  <2>2. ~Carries(h)
    BY <2>1 DEF Carries, CallIds
  <2> QED BY <2>1, <2>2, Passed
<1>5. CASE DoPeek
  <2> DEFINE s == IF status = "cancel_requested" THEN "cancelled" ELSE "interrupted"
  <2>1. /\ pc = "plan" /\ h.op = "peek" /\ UNCHANGED <<stream, delivered, agent, job_try, buffer>>
        /\ Continue(Finish(s, <<>>) \o Tail(plan))
    BY <1>5 DEF DoPeek, At
  <2>2. s \in TERMINAL_RUN_STATUSES \ {"completed"}
    BY DEF TERMINAL_RUN_STATUSES
  <2> HIDE DEF s, h
  <2>3. AllBare(Tail(plan)) /\ CallIds(h) = <<>>
    BY <1>0, <2>1, LaidTail DEF Attempt, Last, CallIds, h
  <2>4. AllBare(plan')
    <3>1. Finish(s, <<>>) \in Seq(Calls) /\ AllBare(Finish(s, <<>>))
      BY <2>2, FinishType, NoIds, BarePieces
    <3> QED BY <1>0, <2>1, <2>3, <3>1, BareConcat DEF Continue
  <2>5. plan' \in Seq(Calls)
    BY Places DEF TypeOK, VarsOK, ControlOK
  <2>6. \A th, x : ~Due(th, x)' /\ ~Due(th, x)
    <3>1. \A th, x : ~DueIn(plan', th, x) /\ ~DueIn(Tail(plan), th, x)
      BY <1>0, <2>1, <2>3, <2>4, <2>5, BareFacts
    <3> QED BY <1>0, <2>1, <2>3, <3>1, DueTail DEF Due, h
  <2>7. \A th, x : /\ Sent(th, x)' <=> Sent(th, x)
                   /\ Held(th, x)' <=> Held(th, x)
    BY <2>1 DEF Sent, EventOf, Held
  <2>8. Ordered' /\ Covered'
    BY <1>0, <2>1, <2>6, <2>7, Progress DEF Attempt
  <2>9. Laid(plan', Len(delivered')) /\ (\A th \in Threads : FlushedFirst(plan', th)) /\ ~Completing'
    BY <2>4, <2>5, BareFacts DEF Completing
  <2>10. leave' = leave /\ pc' \in {"plan", "stream", "close"} /\ (pc' = "stream" => leave = "stream")
    BY <2>1 DEF Continue
  <2>11. CompletesLast'
    BY <1>0, <2>1, <2>9, <2>10 DEF Attempt, CompletesLast, CompletedEnd
  <2>12. Tries' /\ Ranked' /\ AnswerOut'
    BY <2>1, SameLog DEF Writing
  <2>13. NothingTaken'
    BY <2>10 DEF NothingTaken, Setup
  <2> QED BY <2>8, <2>9, <2>11, <2>12, <2>13 DEF Writing, Attempt
<1>6. CASE DoCheck
  <2>1. pc = "plan" /\ h.op = "check" /\ UNCHANGED <<stream, delivered, agent, job_try, buffer>>
    BY <1>6 DEF DoCheck, At
  <2>2. ~Carries(h) /\ CallIds(h) = <<>>
    BY <2>1 DEF Carries, CallIds
  <2>3. CASE is_cancelled
    <3>1. pc' = "plan" /\ leave' = "return" /\ plan' = CancelPlan
      BY <1>6, <2>3 DEF DoCheck, RaiseCancelled, Enter
    <3>2. \A th, x : ~DueIn(plan, th, x)
      <4>1. AllBare(Tail(plan))
        BY <1>0, <2>1, LaidTail DEF Attempt, Last
      <4>2. \A th, x : ~DueIn(Tail(plan), th, x)
        BY <1>0, <2>1, <4>1, BareFacts
      <4> QED BY <1>0, <2>1, <2>2, <4>2, DueTail
    <3>3. /\ \A n : Laid(plan', n) /\ \A th \in Threads : FlushedFirst(plan', th)
          /\ \A th, x : ~DueIn(plan', th, x)
      BY <3>1, BareCancelPlan, CancelPlanType, BareFacts
    <3> QED BY <2>1, <3>1, <3>2, <3>3, Diverted
  <2>4. CASE ~is_cancelled
    <3>1. Continue(Tail(plan))
      BY <1>6, <2>4 DEF DoCheck
    <3> QED BY <2>1, <2>2, <3>1, Passed
  <2> QED BY <2>3, <2>4
<1>7. CASE Close
  BY <1>7, Ended DEF Close
<1> QED BY <1>1, <1>2, <1>3, <1>4, <1>5, <1>6, <1>7

\* Cancel requests, the watcher and the clients do not touch an attempt's own state.
LEMMA OthersWrite ==
  ASSUME TypeOK, Writing,
         \/ CancelRequest \/ ExpireSignal \/ NoticeCancel \/ ClientStep \/ Reconnect
         \/ UNCHANGED vars
  PROVE  Writing'
<1> USE DEF ctrlVars, agentVars, writerVars, queueVars
<1>1. UNCHANGED <<stream, buffer, delivered, agent, plan, leave, job_try, pc>>
  <2>1. CASE CancelRequest
    BY <2>1 DEF CancelRequest, CancelLoad, CancelLock, CancelPublish, CancelCommit
  <2>2. CASE ExpireSignal \/ NoticeCancel
    BY <2>2 DEF ExpireSignal, NoticeCancel
  <2>3. CASE ClientStep \/ Reconnect
    BY <2>3 DEF ClientStep, ReadRow, ListEvents, Reconnect, serverVars
  <2>4. CASE UNCHANGED vars
    BY <2>4 DEF vars
  <2> QED BY <2>1, <2>2, <2>3, <2>4
<1>2. NothingTaken'
  BY <1>1 DEF Writing, NothingTaken
<1>3. UNCHANGED <<stream, buffer, delivered, agent, plan, leave, job_try>>
  BY <1>1
<1> QED BY <1>1, <1>2, <1>3, Kept DEF Writing

LEMMA WriterInit == Init => WriterInv
<1> SUFFICES ASSUME Init PROVE Writing
  BY DEF WriterInv
<1>1. stream = <<>> /\ pc = "idle" /\ leave = "stream" /\ agent = "init" /\ delivered = <<>>
      /\ \A th \in Threads : buffer[th] = <<>>
  BY DEF Init
<1>2. Len(stream) = 0
  BY <1>1
<1> QED BY <1>1, <1>2 DEF Writing, Tries, NothingTaken, Ranked, AnswerOut

LEMMA WriterStep == TypeOK /\ TypeOK' /\ WriterInv /\ [Next]_vars => WriterInv'
<1> SUFFICES ASSUME TypeOK, TypeOK', WriterInv, [Next]_vars, faults' = 0
             PROVE  Writing'
  BY DEF WriterInv
<1>1. Writing /\ ~Failure
  BY FaultsCount DEF WriterInv
<1>2. CASE WorkerStep
  BY <1>1, <1>2, Begun, SetupWrites, StreamWrites, CallWrites DEF WorkerStep
<1>3. CASE ~WorkerStep
  BY <1>1, <1>3, OthersWrite DEF Next
<1> QED BY <1>2, <1>3

\* The chunks of an attempt reach the stream at most once and, thread by thread, in the
\* order the generator yielded them (ChunkedEventWriter, _process_run), whatever cancels
\* and retries interleave: what is sent is behind what is held, and that behind what is due.
THEOREM ChunksInOrder == Spec => []ThreadOrder
<1>1. Init => TypeOK /\ WriterInv
  BY InitType, WriterInit
<1>2. TypeOK /\ WriterInv /\ [Next]_vars => TypeOK' /\ WriterInv'
  BY NextType, WriterStep
<1>3. WriterInv => ThreadOrder
  BY DEF WriterInv, Writing, Ranked, ThreadOrder
<1> QED BY <1>1, <1>2, <1>3, PTL DEF Spec

\* A run whose end says "completed" has published its whole answer by then: the end is
\* the last call of its handler and stands behind the flush of the run's own thread.
THEOREM NothingIsHeldBack == Spec => []NothingHeldBack
<1>1. Init => TypeOK /\ WriterInv
  BY InitType, WriterInit
<1>2. TypeOK /\ WriterInv /\ [Next]_vars => TypeOK' /\ WriterInv'
  BY NextType, WriterStep
<1>3. WriterInv => NothingHeldBack
  BY DEF WriterInv, Writing, AnswerOut, CompletedEnd, NothingHeldBack
<1> QED BY <1>1, <1>2, <1>3, PTL DEF Spec

-----------------------------------------------------------------------------
(* An early cancel.  Until the first delivery the key is there; from then  *)
(* on the first attempt cannot get past its first chunk: every handler     *)
(* that returns to the generator ends in a check, and the check sees it.   *)

Steered(p) ==
    \A k \in 1..Len(p) :
        /\ p[k].op # "peek"
        /\ p[k].op = "mark" => p[k].status \in {"cancelled", "failed"}
EndsInCheck(p) == p[Len(p)].op = "check"

BeforeDelivery ==
    job_try = 0 =>
        /\ pc = "idle" /\ outcome = "none"
        /\ earlyCancel \/ (\E c \in Cancellers : cancelPc[c] = "published") => signal
Honoured ==
    /\ outcome \in {"none", "cancelled", "failed"}
    /\ pc # "idle" => signal
    /\ pc = "stream" => agent = "init"
    /\ Steered(plan)
    /\ pc = "plan" /\ leave = "stream" => EndsInCheck(plan)
EarlyHolds == BeforeDelivery /\ (earlyCancel /\ job_try = 1 => Honoured)
EarlyInv == faults = 0 => EarlyHolds

LEMMA SteeredConcat ==
  ASSUME NEW p \in Seq(Calls), NEW q \in Seq(Calls), Steered(p), Steered(q)
  PROVE  Steered(p \o q)
<1> DEFINE c == p \o q
<1>1. /\ Len(p) \in Nat /\ Len(q) \in Nat /\ Len(c) = Len(p) + Len(q)
      /\ \A i \in 1..Len(p) : c[i] = p[i]
      /\ \A i \in 1..Len(q) : c[i + Len(p)] = q[i]
  BY ConcatProperties, LenProperties
<1> HIDE DEF c
<1> DEFINE Good(x) == x.op # "peek" /\ (x.op = "mark" => x.status \in {"cancelled", "failed"})
<1> SUFFICES ASSUME NEW i \in 1..Len(c) PROVE Good(c[i])
  BY DEF Steered, c
<1>2. CASE i \in 1..Len(p)
  BY <1>1, <1>2 DEF Steered
<1>3. CASE i \notin 1..Len(p)
  <2>1. i - Len(p) \in 1..Len(q) /\ (i - Len(p)) + Len(p) = i
    BY <1>1, <1>3
  <2> QED BY <1>1, <2>1 DEF Steered
<1> QED BY <1>2, <1>3

LEMMA SteeredTail ==
  ASSUME NEW p \in Seq(Calls), p # <<>>, Steered(p)
  PROVE  /\ Steered(Tail(p))
         /\ Head(p).op # "peek"
         /\ Head(p).op = "mark" => Head(p).status \in {"cancelled", "failed"}
         /\ EndsInCheck(p) => (Tail(p) # <<>> /\ EndsInCheck(Tail(p))) \/ Head(p).op = "check"
<1> DEFINE t == Tail(p)
<1>1. /\ Head(p) = p[1] /\ 1 \in 1..Len(p) /\ Len(p) \in Nat /\ Len(t) = Len(p) - 1
      /\ \A k \in 1..Len(t) : t[k] = p[k + 1] /\ k + 1 \in 1..Len(p)
      /\ t = <<>> <=> Len(t) = 0
  BY TailFacts, EmptySeq
<1> HIDE DEF t
<1>2. Steered(t)
  BY <1>1 DEF Steered
<1>3. ASSUME EndsInCheck(p), t # <<>> PROVE EndsInCheck(t)
  <2>1. Len(t) \in 1..Len(t) /\ Len(t) + 1 = Len(p)
    BY <1>1, <1>3
  <2> QED BY <1>1, <1>3, <2>1 DEF EndsInCheck
<1>4. ASSUME EndsInCheck(p), t = <<>> PROVE Head(p).op = "check"
  <2>1. Len(p) = 1
    BY <1>1, <1>4
  <2> QED BY <1>1, <1>4, <2>1 DEF EndsInCheck
<1> QED BY <1>1, <1>2, <1>3, <1>4 DEF Steered, t

LEMMA SteeredPieces ==
    /\ Steered(FlushAll) /\ Steered(<<>>) /\ Steered(<<Check>>)
    /\ \A th : Steered(<<Flush(th)>>)
    /\ \A type, th, ids : Steered(<<Publish(type, th, ids)>>)
    /\ \A s \in {"cancelled", "failed"} : Steered(Finish(s, <<>>))
<1> USE DEF Steered
<1>1. Steered(FlushAll) /\ Steered(<<>>)
  BY DEF FlushAll, Flush
<1>2. /\ Steered(<<Check>>)
      /\ \A th : Steered(<<Flush(th)>>)
      /\ \A type, th, ids : Steered(<<Publish(type, th, ids)>>)
  BY DEF Flush, Check, Publish
<1>3. ASSUME NEW s \in {"cancelled", "failed"} PROVE Steered(Finish(s, <<>>))
  <2>1. Finish(s, <<>>) = <<Mark(s), End(s, <<>>)>> /\ Len(<<Mark(s), End(s, <<>>)>>) = 2
    BY DEF Finish
  <2> QED BY <2>1 DEF Mark, End
<1> QED BY <1>1, <1>2, <1>3

LEMMA SteeredPlans ==
  ASSUME NEW r \in BOOLEAN
  PROVE  Steered(CancelPlan) /\ Steered(ErrorPlan(r))
<1> DEFINE ends == IF r /\ ~_is_last_try THEN <<>> ELSE Finish("failed", <<>>)
<1>1. /\ Publish("error", "main", <<>>) \in Calls /\ Publish("interrupt", "main", <<>>) \in Calls
      /\ FlushAll \in Seq(Calls)
  BY CallTypes, NoIds, FlushAllType DEF Threads
<1>2. <<Publish("error", "main", <<>>)>> \in Seq(Calls) /\ <<Publish("interrupt", "main", <<>>)>> \in Seq(Calls)
  BY <1>1
<1>3. /\ ends \in Seq(Calls) /\ Steered(ends)
      /\ Finish("cancelled", <<>>) \in Seq(Calls) /\ Steered(Finish("cancelled", <<>>))
  BY FinishType, NoIds, NoCalls, SteeredPieces DEF TERMINAL_RUN_STATUSES
<1>4. /\ CancelPlan = (FlushAll \o <<Publish("interrupt", "main", <<>>)>>) \o Finish("cancelled", <<>>)
      /\ ErrorPlan(r) = (FlushAll \o <<Publish("error", "main", <<>>)>>) \o ends
  BY DEF CancelPlan, ErrorPlan
<1> HIDE DEF ends
<1>5. ASSUME NEW type \in {"error", "interrupt"}, NEW q \in Seq(Calls), Steered(q)
      PROVE  Steered((FlushAll \o <<Publish(type, "main", <<>>)>>) \o q)
  <2>1. <<Publish(type, "main", <<>>)>> \in Seq(Calls)
    BY <1>2
  <2>2. Steered(FlushAll) /\ Steered(<<Publish(type, "main", <<>>)>>)
    BY SteeredPieces
  <2>3. Steered(FlushAll \o <<Publish(type, "main", <<>>)>>)
    BY <1>1, <2>1, <2>2, SteeredConcat
  <2>4. FlushAll \o <<Publish(type, "main", <<>>)>> \in Seq(Calls)
    BY <1>1, <2>1
  <2> QED BY <1>5, <2>3, <2>4, SteeredConcat
<1> QED BY <1>3, <1>4, <1>5

\* The first chunk of an attempt: an init event or the error of the setup.
LEMMA SteeredChunk ==
  ASSUME NEW kind \in {"event", "error"}, NEW th \in Threads, NEW n \in Nat
  PROVE  Steered(ChunkPlan(kind, th, n)) /\ EndsInCheck(ChunkPlan(kind, th, n))
<1> DEFINE c == ChunkCalls(kind, th, n)
           p == ChunkPlan(kind, th, n)
<1>1. <<Publish("custom", th, <<n>>)>> \in Seq(Calls) /\ <<Publish("error", th, <<n>>)>> \in Seq(Calls)
  <2>1. <<n>> \in Seq(Nat)
    OBVIOUS
  <2>2. Publish("custom", th, <<n>>) \in Calls /\ Publish("error", th, <<n>>) \in Calls
    BY <2>1, CallTypes
  <2> QED BY <2>2
<1>2. c \in Seq(Calls) /\ Steered(c)
  <2>1. Finish("failed", <<>>) \in Seq(Calls) /\ Steered(Finish("failed", <<>>))
    BY FinishType, NoIds, SteeredPieces DEF TERMINAL_RUN_STATUSES
  <2>2. CASE kind = "event"
    <3>1. c = <<Publish("custom", th, <<n>>)>>
      BY <2>2 DEF ChunkCalls
    <3> QED BY <1>1, <3>1, SteeredPieces
  <2>3. CASE kind = "error"
    <3>1. c = <<Publish("error", th, <<n>>)>> \o Finish("failed", <<>>)
      BY <2>3 DEF ChunkCalls
    <3>2. Steered(<<Publish("error", th, <<n>>)>>)
      BY SteeredPieces
    <3>3. Steered(<<Publish("error", th, <<n>>)>> \o Finish("failed", <<>>))
      BY <1>1, <2>1, <3>2, SteeredConcat
    <3>4. <<Publish("error", th, <<n>>)>> \o Finish("failed", <<>>) \in Seq(Calls)
      BY <1>1, <2>1
    <3> QED BY <3>1, <3>3, <3>4
  <2> QED BY <2>2, <2>3
<1>3. /\ Len(p) = Len(c) + 2 /\ Len(c) \in Nat /\ p[1] = Flush(th) /\ p[Len(c) + 2] = Check
      /\ \A k \in 1..Len(c) : p[k + 1] = c[k]
  BY <1>2, CallTypes, Wrapped, LenProperties DEF ChunkPlan
<1> HIDE DEF c, p
<1>4. EndsInCheck(p)
  BY <1>3 DEF EndsInCheck, Check
<1>5. Steered(p)
  <2> DEFINE Fit(x) == x.op # "peek" /\ (x.op = "mark" => x.status \in {"cancelled", "failed"})
  <2> SUFFICES ASSUME NEW k \in 1..Len(p) PROVE Fit(p[k])
    BY DEF Steered
  <2>1. Fit(p[1]) /\ Fit(p[Len(c) + 2])
    BY <1>3 DEF Flush, Check
  <2>2. CASE k \notin {1, Len(c) + 2}
    <3>1. k - 1 \in 1..Len(c) /\ (k - 1) + 1 = k
      BY <1>3, <2>2
    <3>2. p[k] = c[k - 1]
      BY <1>3, <3>1
    <3> QED BY <1>2, <3>1, <3>2 DEF Steered
  <2> QED BY <2>1, <2>2
<1> QED BY <1>4, <1>5 DEF p

-----------------------------------------------------------------------------
\* An action of the worker's up to the try statement, of a cancel request or of a client.
LEMMA EarlySetup ==
  ASSUME TypeOK, RowClosed, NothingTaken, EarlyHolds, faults' = faults,
         StartJob \/ Load \/ UserNotFound \/ MarkRunning \/ Metadata
  PROVE  EarlyHolds'
<1> USE DEF rowVars, cancelVars, ctrlVars, agentVars, writerVars, queueVars
<1>0. job_try \in Nat /\ Steered(<<>>) /\ (pc = "plan" <=> plan # <<>>)
  BY Places, SteeredPieces
<1>1. CASE StartJob
  <2>0. pc = "idle" /\ plan = <<>>
    BY <1>0, <1>1 DEF StartJob, TypeOK, BusyOK
  <2>1. CASE job_try < MaxTries
    <3>1. /\ job_try' = job_try + 1 /\ pc' = "load"
          /\ UNCHANGED <<outcome, earlyCancel, signal, plan, leave, agent>>
      BY <1>1, <2>1 DEF StartJob
    <3>2. earlyCancel' /\ job_try' = 1 => Honoured'
      BY <1>0, <2>0, <3>1 DEF EarlyHolds, BeforeDelivery, Honoured
    <3>3. BeforeDelivery'
      BY <1>0, <3>1 DEF BeforeDelivery
    <3> QED BY <3>2, <3>3 DEF EarlyHolds
  <2>2. CASE ~(job_try < MaxTries)
    BY <1>1, <2>2 DEF StartJob, EarlyHolds, BeforeDelivery, Honoured
  <2> QED BY <2>1, <2>2
<1>2. ASSUME pc # "idle", UNCHANGED <<job_try, earlyCancel>>, Honoured => Honoured'
      PROVE  EarlyHolds'
  BY <1>2 DEF EarlyHolds, BeforeDelivery
<1>3. CASE Load
  <2>1. CASE NothingToDo
    BY <1>0, <1>2, <1>3, <2>1 DEF Load, JobEnds, FreshLocals, Honoured
  <2>2. CASE ~NothingToDo
    BY <1>0, <1>2, <1>3, <2>2 DEF Load, Honoured
  <2> QED BY <2>1, <2>2
<1>4. CASE UserNotFound
  <2>1. outcome' \in {outcome, "failed"}
    BY <1>4 DEF UserNotFound, set_terminal_status, Commit, RowClosed
  <2> QED BY <1>0, <1>2, <1>4, <2>1 DEF UserNotFound, JobEnds, FreshLocals, Honoured
<1>5. CASE MarkRunning
  <2>1. outcome' = outcome
    BY <1>5 DEF MarkRunning, mark_running, Commit, RowClosed, TERMINAL_RUN_STATUSES
  <2> QED BY <1>0, <1>2, <1>5, <2>1 DEF MarkRunning, Honoured
<1>6. CASE Metadata
  <2>1. agent = "init"
    BY <1>6 DEF Metadata, NothingTaken, Setup
  <2> QED BY <1>0, <1>2, <1>6, <2>1 DEF Metadata, Honoured
<1> QED BY <1>1, <1>3, <1>4, <1>5, <1>6

LEMMA EarlyStream ==
  ASSUME TypeOK, EarlyHolds,
         \/ \E th \in Threads : LoadingChunk(th)
         \/ \E kind \in Kinds, th \in Threads, next \in {"chat", "asked", "ended"} :
               Chunk(kind, th, next)
         \/ Exhausted \/ StreamCancelled \/ \E r \in BOOLEAN : AgentRaises(r)
  PROVE  EarlyHolds'
<1> USE DEF rowVars, cancelVars, ctrlVars, agentVars, writerVars, queueVars
<1>0. /\ pc = "stream" /\ UNCHANGED <<job_try, earlyCancel, outcome, signal>>
      /\ Len(delivered) + 1 \in Nat
  <2>1. Len(delivered) + 1 \in Nat
    BY Places
  <2> QED BY <2>1 DEF LoadingChunk, Chunk, Take, Exhausted, StreamCancelled, AgentRaises
<1> SUFFICES ASSUME Honoured PROVE Honoured'
  BY <1>0 DEF EarlyHolds, BeforeDelivery
<1>1. agent = "init" /\ signal'
  BY <1>0 DEF Honoured
<1>2. CASE \E th \in Threads : LoadingChunk(th)
  BY <1>1, <1>2 DEF LoadingChunk, Take, Yields
<1>3. ASSUME NEW kind \in Kinds, NEW th \in Threads, NEW next \in {"chat", "asked", "ended"},
             Chunk(kind, th, next)
      PROVE  Honoured'
  <2>1. kind \in {"event", "error"}
    BY <1>1, <1>3 DEF Chunk, Take, Yields
  <2>2. plan' = ChunkPlan(kind, th, Len(delivered) + 1) /\ pc' = "plan"
    BY <1>3 DEF Chunk, Enter
  <2> QED BY <1>0, <1>1, <2>1, <2>2, SteeredChunk DEF Honoured
<1>4. CASE Exhausted
  BY <1>1, <1>4 DEF Exhausted
<1>5. CASE StreamCancelled
  <2>1. plan' = CancelPlan /\ pc' = "plan" /\ leave' = "return"
    BY <1>5 DEF StreamCancelled, RaiseCancelled, Enter
  <2> QED BY <1>0, <1>1, <2>1, SteeredPlans DEF Honoured
<1>6. ASSUME NEW r \in BOOLEAN, AgentRaises(r)
      PROVE  Honoured'
  <2>1. plan' = ErrorPlan(r) /\ pc' = "plan" /\ leave' # "stream"
    BY <1>6 DEF AgentRaises, RaiseError, Enter
  <2> QED BY <1>0, <1>1, <2>1, SteeredPlans DEF Honoured
<1> QED BY <1>2, <1>3, <1>4, <1>5, <1>6

LEMMA EarlyCalls ==
  ASSUME TypeOK, RowClosed, EarlyHolds,
         DoFlush \/ DoPublish \/ DoMark \/ DoEnd \/ DoPeek \/ DoCheck \/ Close
  PROVE  EarlyHolds'
<1> USE DEF rowVars, cancelVars, ctrlVars, agentVars, writerVars, queueVars
<1>0. pc \in {"plan", "close"} /\ UNCHANGED <<job_try, earlyCancel>>
  BY DEF DoFlush, DoPublish, DoMark, DoEnd, DoPeek, DoCheck, At, Close
<1> SUFFICES ASSUME Honoured PROVE Honoured'
  BY <1>0 DEF EarlyHolds, BeforeDelivery
<1>1. signal
  BY <1>0 DEF Honoured
<1>2. CASE Close
  BY <1>2, SteeredPieces DEF Close, JobEnds, FreshLocals, Honoured
<1>3. CASE ~Close
  <2> DEFINE h == Head(plan)
  <2>1. /\ pc = "plan" /\ UNCHANGED <<signal, agent>> /\ plan \in Seq(Calls) /\ plan # <<>>
    <3>1. pc = "plan" /\ UNCHANGED <<signal, agent>>
      BY <1>3 DEF DoFlush, DoPublish, DoMark, DoEnd, DoPeek, DoCheck, At
    <3> QED BY <3>1, Places
  <2>2. Steered(Tail(plan)) /\ h.op # "peek" /\ (h.op = "mark" => h.status \in {"cancelled", "failed"})
    BY <2>1, SteeredTail DEF Honoured
  <2>3. CASE h.op = "check"
    <3>1. DoCheck /\ is_cancelled
      BY <1>1, <1>3, <2>3 DEF DoFlush, DoPublish, DoMark, DoEnd, DoPeek, At, is_cancelled
    <3>2. plan' = CancelPlan /\ pc' = "plan" /\ leave' = "return" /\ outcome' = outcome
      BY <3>1 DEF DoCheck, RaiseCancelled, Enter
    <3> QED BY <1>1, <2>1, <3>2, SteeredPlans DEF Honoured
  <2>4. CASE h.op # "check"
    <3>1. Continue(Tail(plan)) /\ (DoFlush \/ DoPublish \/ DoMark \/ DoEnd)
      BY <1>3, <2>2, <2>4 DEF DoFlush, DoPublish, DoMark, DoEnd, DoPeek, DoCheck, At
    <3>2. leave = "stream" => Tail(plan) # <<>> /\ EndsInCheck(Tail(plan))
      BY <2>1, <2>4, SteeredTail DEF Honoured
    <3>3. /\ plan' = Tail(plan) /\ leave' = leave /\ pc' # "stream"
          /\ pc' = "plan" /\ leave' = "stream" => EndsInCheck(plan')
      BY <3>1, <3>2 DEF Continue
    <3>4. outcome' \in {outcome, "cancelled", "failed"}
      <4>1. CASE DoMark
        <5>1. h.status \in {"cancelled", "failed"}
          BY <2>2, <4>1 DEF DoMark, At
        <5> QED BY <4>1, <5>1 DEF DoMark, set_terminal_status, Commit, RowClosed
      <4>2. CASE ~DoMark
        BY <3>1, <4>2 DEF DoFlush, DoPublish, DoEnd
      <4> QED BY <4>1, <4>2
    <3> QED BY <1>1, <2>1, <2>2, <3>3, <3>4 DEF Honoured
  <2> QED BY <2>3, <2>4
<1> QED BY <1>2, <1>3

LEMMA EarlyOthers ==
  ASSUME TypeOK, RowClosed, EarlyHolds, faults' = faults,
         \/ CancelRequest \/ ExpireSignal \/ NoticeCancel \/ ClientStep \/ Reconnect
         \/ UNCHANGED vars
  PROVE  EarlyHolds'
<1> USE DEF rowVars, cancelVars, ctrlVars, agentVars, writerVars, queueVars
<1>0. cancelPc \in [Cancellers -> {"idle", "loaded", "locked", "published", "done"}] /\ faults \in Nat
  BY BoundsAssumption DEF TypeOK, VarsOK, CancelOK
<1>1. ASSUME NEW c \in Cancellers, CancelLoad(c) \/ CancelLock(c)
      PROVE  EarlyHolds'
  <2>1. UNCHANGED <<job_try, outcome, signal, pc, agent, plan, leave, earlyCancel>>
    BY <1>1 DEF CancelLoad, CancelLock
  <2>2. \A d \in Cancellers : cancelPc'[d] = "published" => cancelPc[d] = "published"
    BY <1>0, <1>1 DEF CancelLoad, CancelLock
  <2> QED BY <2>1, <2>2 DEF EarlyHolds, BeforeDelivery, Honoured
<1>2. ASSUME NEW c \in Cancellers, CancelPublish(c)
      PROVE  EarlyHolds'
  <2>1. UNCHANGED <<job_try, outcome, pc, agent, plan, leave, earlyCancel>> /\ signal' = TRUE
    BY <1>0, <1>2 DEF CancelPublish
  <2> QED BY <2>1 DEF EarlyHolds, BeforeDelivery, Honoured
<1>3. ASSUME NEW c \in Cancellers, CancelCommit(c)
      PROVE  EarlyHolds'
  <2>1. UNCHANGED <<job_try, signal, pc, agent, plan, leave>>
    BY <1>3 DEF CancelCommit
  <2>2. outcome' = outcome
    BY <1>3 DEF CancelCommit, Commit, RowClosed, TERMINAL_RUN_STATUSES
  <2>3. /\ earlyCancel' => earlyCancel \/ (job_try = 0 /\ cancelPc[c] = "published")
        /\ \A d \in Cancellers : cancelPc'[d] = "published" => cancelPc[d] = "published"
    BY <1>0, <1>3 DEF CancelCommit
  <2> QED BY <2>1, <2>2, <2>3 DEF EarlyHolds, BeforeDelivery, Honoured
<1>4. CASE ExpireSignal
  BY <1>4 DEF ExpireSignal, EarlyHolds, BeforeDelivery
<1>5. CASE NoticeCancel \/ ClientStep \/ Reconnect \/ UNCHANGED vars
  <2>1. UNCHANGED <<job_try, outcome, signal, pc, agent, plan, leave, earlyCancel, cancelPc>>
    BY <1>5 DEF NoticeCancel, ClientStep, ReadRow, ListEvents, Reconnect, serverVars, vars
  <2> QED BY <2>1 DEF EarlyHolds, BeforeDelivery, Honoured
<1> QED BY <1>1, <1>2, <1>3, <1>4, <1>5 DEF CancelRequest

LEMMA EarlyStep == IInv /\ WriterInv /\ EarlyInv /\ [Next]_vars => EarlyInv'
<1> SUFFICES ASSUME IInv, WriterInv, EarlyInv, [Next]_vars, faults' = 0
             PROVE  EarlyHolds'
  BY DEF EarlyInv
<1>1. TypeOK /\ RowClosed /\ NothingTaken /\ EarlyHolds /\ ~Failure /\ faults' = faults
  BY FaultsCount DEF IInv, WriterInv, Writing, EarlyInv
<1>2. CASE WorkerStep
  BY <1>1, <1>2, EarlySetup, EarlyStream, EarlyCalls DEF WorkerStep
<1>3. CASE ~WorkerStep
  BY <1>1, <1>3, EarlyOthers DEF Next
<1> QED BY <1>2, <1>3

\* A cancel committed before the job was first delivered is honoured by the first attempt,
\* although mark_running overwrites cancel_requested: the handler of the first chunk ends
\* in a check of the key, which nothing clears before the attempt is over.
THEOREM EarlyCancelIsHonoured == Spec => []EarlyCancelHonoured
<1>1. Init => IInv /\ WriterInv /\ EarlyInv
  <2>1. Init => EarlyInv
    BY DEF Init, EarlyInv, EarlyHolds, BeforeDelivery
  <2> QED BY <2>1, InvInit, WriterInit
<1>2. IInv /\ WriterInv /\ EarlyInv /\ [Next]_vars => IInv' /\ WriterInv' /\ EarlyInv'
  <2>1. IInv /\ [Next]_vars => TypeOK /\ IInv' /\ TypeOK'
    BY InvStep DEF IInv
  <2> QED BY <2>1, WriterStep, EarlyStep
<1>3. EarlyInv => EarlyCancelHonoured
  BY DEF EarlyInv, EarlyHolds, Honoured, EarlyCancelHonoured
<1> QED BY <1>1, <1>2, <1>3, PTL DEF Spec
=============================================================================
