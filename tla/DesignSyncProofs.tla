-------------------------- MODULE DesignSyncProofs --------------------------
(***************************************************************************)
(* Proofs about DesignSync, for any number of clients, edits and moves and *)
(* any size of the hub's buffers.                                          *)
(***************************************************************************)
EXTENDS DesignSync, FiniteSetTheorems, SequenceTheorems, TLAPS

-----------------------------------------------------------------------------
(* Logs of transactions.                                                   *)

Logs(log) == log \in Seq(Ops) /\ \A o \in DOMAIN log : log[o].rank <= Len(log)

LEMMA LogFacts ==
    ASSUME NEW log, Logs(log)
    PROVE  /\ DOMAIN log = 1..Len(log) /\ Len(log) \in Nat
           /\ \A o \in DOMAIN log : log[o] \in Ops /\ o \in Nat
<1>1. log \in Seq(Ops)
  BY DEF Logs
<1>2. DOMAIN log = 1..Len(log) /\ Len(log) \in Nat
  BY <1>1, LenProperties
<1> QED
  BY <1>1, <1>2, ElementOfSeq

LEMMA SmallestOf ==
    ASSUME NEW T \in SUBSET Nat, T # {}
    PROVE  \E x \in T : \A y \in T : x <= y
<1> DEFINE R == StrictSubsetOrdering(Nat)
           F == FiniteSubsetsOf(Nat)
           U == {0..x : x \in T}
<1>1. IsWellFoundedOn(R, F)
  BY FS_StrictSubsetOrderingWellFounded
<1>2. U \subseteq F /\ U # {}
  <2>1. \A x \in T : 0..x \in SUBSET Nat /\ IsFiniteSet(0..x)
    BY FS_Interval
  <2>2. \A x \in T : 0..x \in F
    BY <2>1 DEF FiniteSubsetsOf
  <2> HIDE DEF F
  <2> QED
    BY <2>2
<1>3. PICK s \in U : \A t \in U : ~(<<t, s>> \in R)
  <2> HIDE DEF R, F, U
  <2> QED
    BY <1>1, <1>2, WFMin
<1>4. PICK x \in T : s = 0..x
  OBVIOUS
<1>5. ASSUME NEW y \in T, y < x PROVE FALSE
  <2>1. 0..y \subseteq 0..x /\ x \in 0..x /\ x \notin 0..y
    BY <1>5
  <2>2. <<0..y, 0..x>> \in R
    BY <2>1 DEF StrictSubsetOrdering
  <2> QED
    BY <1>3, <1>4, <2>2
<1> QED
  BY <1>5

\* Of several seeds, one is the last writer's.
LEMMA RootIsSeed ==
    ASSUME NEW log, Logs(log), NEW S \in SUBSET (DOMAIN log), HasState(log, S)
    PROVE  /\ Root(log, S) \in Seeds(log, S) /\ Root(log, S) \in DOMAIN log /\ Root(log, S) \in Nat
           /\ \A o \in Seeds(log, S) : log[o].rank <= log[Root(log, S)].rank
<1> DEFINE n == Len(log)
           T == {n - log[o].rank : o \in Seeds(log, S)}
<1>1. Seeds(log, S) # {} /\ Seeds(log, S) \subseteq DOMAIN log
  BY DEF HasState, Seeds, Integrated
<1>2. ASSUME NEW o \in DOMAIN log
      PROVE  log[o].rank \in Int /\ n - log[o].rank \in Nat /\ o \in Nat
  <2>1. log[o] \in Ops /\ o \in Nat /\ n \in Nat /\ log[o].rank <= n
    BY LogFacts DEF Logs
  <2>2. log[o].rank \in Int
    BY <2>1 DEF Ops
  <2> QED
    BY <2>1, <2>2
<1>3. T \in SUBSET Nat /\ T # {}
  BY <1>1, <1>2
<1>4. PICK x \in T : \A y \in T : x <= y
  BY <1>3, SmallestOf
<1>5. PICK w \in Seeds(log, S) : x = n - log[w].rank
  OBVIOUS
<1>6. \A o \in Seeds(log, S) : log[o].rank <= log[w].rank
  <2> TAKE o \in Seeds(log, S)
  <2>1. n - log[w].rank <= n - log[o].rank
    BY <1>4, <1>5
  <2>2. n \in Int /\ log[o].rank \in Int /\ log[w].rank \in Int
    BY <1>1, <1>2, LogFacts
  <2> QED
    BY <2>1, <2>2
<1>7. Root(log, S) \in Seeds(log, S) /\ \A o \in Seeds(log, S) : log[o].rank <= log[Root(log, S)].rank
  BY <1>6 DEF Root
<1> QED
  BY <1>1, <1>2, <1>7

LEMMA ItemTypes ==
    ASSUME NEW log, Logs(log), NEW S \in SUBSET (DOMAIN log)
    PROVE  Items(log, S) \in SUBSET (Nat \X Nat) /\ Visible(log, S) \in SUBSET Nat
<1>1. \A o \in DOMAIN log : log[o].adds \in SUBSET Nat /\ o \in Nat
  BY LogFacts DEF Logs, Ops
<1>2. Items(log, S) \in SUBSET (Nat \X Nat)
  BY <1>1 DEF Items, Integrated
<1>3. \A i \in Items(log, S) : i[2] \in Nat
  BY <1>2
<1> QED
  BY <1>2, <1>3 DEF Visible

LEMMA NeedsType ==
    ASSUME NEW log, Logs(log), NEW me, NEW base \in {0} \cup DOMAIN log
    PROVE  Needs(log, me, base) \in SUBSET Nat
<1> DEFINE direct == {o \in DOMAIN log : log[o].by = me /\ (log[o].base = 0 \/ log[o].adds # {})}
                     \cup ({base} \ {0})
<1>1. direct \subseteq DOMAIN log
  OBVIOUS
<1>2. \A o \in DOMAIN log : log[o].needs \in SUBSET Nat /\ o \in Nat
  BY LogFacts DEF Logs, Ops
<1>3. Needs(log, me, base) = direct \cup UNION {log[o].needs : o \in direct}
  BY DEF Needs
<1> HIDE DEF direct
<1> QED
  BY <1>1, <1>2, <1>3

\* What a set of transactions shows does not depend on later ones.
LEMMA Stable ==
    ASSUME NEW log, NEW log2, NEW S \in SUBSET (DOMAIN log),
           \A o \in DOMAIN log : log2[o] = log[o]
    PROVE  /\ Integrated(log2, S) = Integrated(log, S)
           /\ Seeds(log2, S) = Seeds(log, S)
           /\ HasState(log2, S) <=> HasState(log, S)
<1>1. Integrated(log2, S) = Integrated(log, S)
  BY DEF Integrated
<1>2. Seeds(log2, S) = Seeds(log, S)
  BY <1>1 DEF Seeds, Integrated
<1> QED
  BY <1>1, <1>2 DEF HasState

-----------------------------------------------------------------------------
(* The inductive invariant.                                                *)

\* The transactions there are: nothing refers to one that does not exist yet.
D == DOMAIN ops

FramesOn(n) == [t : {"ops", "step1"} \cup Roles, from : Clients, set : SUBSET (1..n)]

Typed ==
    /\ Logs(ops)
    /\ doc \in [Clients -> Docs] /\ store \in [Clients -> Stores]
    /\ link \in [Clients -> {"up", "dying", "down"}]
    /\ inbox \in [Clients -> Seq(FramesOn(Len(ops)))]
    /\ \A c \in Clients : Len(inbox[c]) <= Buffer
    /\ role \in [Clients -> Roles]
    /\ idb \in [Clients -> [Lineages -> SUBSET D]]
    /\ journal \in [Lineages -> SUBSET D]
    /\ fork \in SUBSET D
    /\ file \in [els : SUBSET Nat, of : Lineages]
    /\ edits \in Nat /\ moves \in Nat
    /\ strayed \subseteq {"saved", "unlabelled", "skipped"}
    /\ \A c \in Clients : doc[c].known \subseteq D

\* Main's file is waited for on main only; and foreignStore says what
\* storeLineage says.
Guarded(c) ==
    /\ "file" \in doc[c].awaits => doc[c].lineage = "main"
    /\ doc[c].foreign <=> store[c].label # doc[c].lineage

\* storeLineage is right, and with state in its Y.Doc a client may be kept from
\* showing it by a preview only.
Labelled(c) ==
    /\ store[c].of = store[c].label
    /\ Bound(c) /\ doc[c].foreign => store[c].preview

Unstrayed == strayed \cap {"saved", "unlabelled"} = {}

Kept ==
    /\ \A o \in DOMAIN ops : ops[o].from = ops[o].home
    /\ file.of = "main"
    /\ \A c \in Clients : Labelled(c)

IInv ==
    /\ Typed
    /\ \A c \in Clients : Guarded(c)
    /\ Unstrayed => Kept

-----------------------------------------------------------------------------
(* What a client creates.                                                  *)

LEMMA SeedType ==
    ASSUME Typed, NEW c \in Clients, NEW els \in SUBSET Nat, NEW of \in Lineages, NEW rank \in Int
    PROVE  /\ Seed(c, els, of, rank) \in Ops /\ Seed(c, els, of, rank).rank = rank
           /\ Seed(c, els, of, rank).from = of /\ Seed(c, els, of, rank).home = doc[c].lineage
<1>1. doc[c] \in Docs
  BY DEF Typed
<1>2. Me(c) \in Clients \X Nat /\ doc[c].lineage \in Lineages
  BY <1>1 DEF Me, Docs
<1> QED
  BY <1>2 DEF Seed, Ops

LEMMA DiffType ==
    ASSUME Typed, NEW c \in Clients, NEW log, Logs(log), NEW S \in SUBSET (DOMAIN log),
           HasState(log, S), NEW els \in SUBSET Nat, NEW of \in Lineages
    PROVE  /\ Diff(log, S, c, els, of) \in Ops /\ Diff(log, S, c, els, of).rank = 0
           /\ Diff(log, S, c, els, of).from = of
           /\ Diff(log, S, c, els, of).home = doc[c].lineage
<1> DEFINE root == Root(log, S)
           adds == els \ Visible(log, S)
           dels == {i \in Items(log, S) : i[2] \notin els}
           needs == IF adds = {} THEN {} ELSE Needs(log, Me(c), root)
<1>1. Me(c) \in Clients \X Nat /\ doc[c].lineage \in Lineages
  BY DEF Me, Docs, Typed
<1>2. root \in DOMAIN log /\ root \in Nat
  BY RootIsSeed
<1>3. adds \in SUBSET Nat /\ dels \in SUBSET (Nat \X Nat)
  BY ItemTypes
<1>4. needs \in SUBSET Nat
  BY <1>2, NeedsType
<1>5. Diff(log, S, c, els, of) =
        [by |-> Me(c), home |-> doc[c].lineage, from |-> of, base |-> root, rank |-> 0,
         adds |-> adds, dels |-> dels, needs |-> needs]
  BY DEF Diff
<1> HIDE DEF root, adds, dels, needs
<1> QED
  BY <1>1, <1>2, <1>3, <1>4, <1>5 DEF Ops

LEMMA RankType ==
    ASSUME Typed, NEW r \in Ranks
    PROVE  r \in Int /\ r <= Len(ops) + 1
BY LogFacts DEF Ranks, Typed

\* What the store's subscriber makes of a change, if it makes anything of it.
LEMMA ReconciledType ==
    ASSUME Typed, NEW c \in Clients, NEW els \in SUBSET Nat, NEW of \in Lineages,
           NEW edit \in BOOLEAN, NEW rank \in Ranks
    PROVE  LET new == Reconciled(c, els, of, edit, rank) IN
           /\ new \in Seq(Ops) /\ Len(new) \in 0..2
           /\ \A i \in 1..Len(new) : /\ new[i].rank <= Len(ops) + i
                                     /\ new[i].from = of /\ new[i].home = doc[c].lineage
           /\ Len(new) # 0 => Bound(c) \/ ~doc[c].foreign
<1>0. Logs(ops) /\ Known(c) \in SUBSET (DOMAIN ops) /\ rank \in Int /\ rank <= Len(ops) + 1
      /\ Len(ops) \in Nat /\ DOMAIN ops = 1..Len(ops)
  BY RankType, LogFacts DEF Typed, Known, D
<1>1. CASE Bound(c)
  <2> DEFINE d == Diff(ops, Known(c), c, els, of)
  <2>1. d \in Ops /\ d.rank = 0 /\ d.from = of /\ d.home = doc[c].lineage
    BY <1>0, <1>1, DiffType DEF Bound
  <2>2. Reconciled(c, els, of, edit, rank) = << >> \/ Reconciled(c, els, of, edit, rank) = <<d>>
    BY <1>1 DEF Reconciled
  <2> HIDE DEF d
  <2>3. CASE Reconciled(c, els, of, edit, rank) = << >>
    BY <2>3
  <2>4. CASE Reconciled(c, els, of, edit, rank) = <<d>>
    <3>1. <<d>> \in Seq(Ops) /\ Len(<<d>>) = 1 /\ <<d>>[1] = d
      BY <2>1
    <3>2. \A i \in 1..1 : i = 1
      OBVIOUS
    <3> QED
      BY <1>0, <1>1, <2>1, <2>4, <3>1, <3>2
  <2> QED
    BY <2>2, <2>3, <2>4
<1>2. CASE ~Bound(c) /\ doc[c].foreign
  BY <1>2 DEF Reconciled
<1>3. CASE ~Bound(c) /\ ~doc[c].foreign /\ ~edit
  <2> DEFINE s == Seed(c, els, of, rank)
  <2>1. s \in Ops /\ s.rank = rank /\ s.from = of /\ s.home = doc[c].lineage
    BY <1>0, SeedType
  <2>2. Reconciled(c, els, of, edit, rank) = <<s>>
    BY <1>3 DEF Reconciled
  <2> HIDE DEF s
  <2> QED
    BY <1>0, <1>3, <2>1, <2>2
<1>4. CASE ~Bound(c) /\ ~doc[c].foreign /\ edit
  <2> DEFINE s == Seed(c, store[c].els, of, rank)
             log == Append(ops, s)
             S == Known(c) \cup {Len(log)}
             d == Diff(log, S, c, els, of)
  <2>0. store[c].els \in SUBSET Nat
    BY DEF Typed, Stores
  <2>1. s \in Ops /\ s.rank = rank /\ s.from = of /\ s.home = doc[c].lineage
        /\ s.base = 0 /\ s.needs = {}
    BY <1>0, <2>0, SeedType DEF Seed
  <2> HIDE DEF s
  <2>2. log \in Seq(Ops) /\ Len(log) = Len(ops) + 1 /\ log[Len(log)] = s
        /\ \A o \in DOMAIN ops : log[o] = ops[o]
    BY <1>0, <2>1, AppendProperties DEF Logs
  <2>3. Logs(log)
    <3>1. DOMAIN log = 1..(Len(ops) + 1)
      BY <1>0, <2>2, LenProperties
    <3>2. \A o \in DOMAIN log : o \in DOMAIN ops \/ o = Len(log)
      BY <1>0, <2>2, <3>1
    <3>3. \A o \in DOMAIN ops : ops[o].rank \in Int /\ ops[o].rank <= Len(ops)
      BY <1>0, LogFacts DEF Logs, Ops
    <3>4. \A o \in DOMAIN log : log[o].rank <= Len(log)
      BY <1>0, <2>1, <2>2, <3>2, <3>3
    <3> QED
      BY <2>2, <3>4 DEF Logs
  <2>4. S \in SUBSET (DOMAIN log) /\ Len(log) \in S
    BY <1>0, <2>2, <2>3, LogFacts
  <2>5. HasState(log, S)
    BY <2>1, <2>2, <2>4 DEF HasState, Seeds, Integrated
  <2>6. Reconciled(c, els, of, edit, rank) = <<s, d>>
    BY <1>4 DEF Reconciled, s
  <2> HIDE DEF log, S
  <2>7. d \in Ops /\ d.rank = 0 /\ d.from = of /\ d.home = doc[c].lineage
    BY <2>3, <2>4, <2>5, DiffType
  <2> HIDE DEF d
  <2>8. <<s, d>> \in Seq(Ops) /\ Len(<<s, d>>) = 2 /\ <<s, d>>[1] = s /\ <<s, d>>[2] = d
    BY <2>1, <2>7
  <2>9. \A i \in 1..2 : i = 1 \/ i = 2
    OBVIOUS
  <2> DEFINE new == <<s, d>>
  <2>10. s.rank <= Len(ops) + 1 /\ d.rank <= Len(ops) + 2
    BY <1>0, <2>1, <2>7
  <2> HIDE DEF new
  <2>11. new \in Seq(Ops) /\ Len(new) = 2 /\ new[1] = s /\ new[2] = d
    BY <2>8 DEF new
  <2>12. \A i \in 1..2 : /\ new[i].rank <= Len(ops) + i
                        /\ new[i].from = of /\ new[i].home = doc[c].lineage
    BY <2>1, <2>7, <2>9, <2>10, <2>11
  <2>13. Reconciled(c, els, of, edit, rank) = new
    BY <2>6 DEF new
  <2>14. Len(new) \in 0..2
    BY <2>11
  <2> QED
    BY <1>4, <2>11, <2>12, <2>13, <2>14
<1> QED
  BY <1>1, <1>2, <1>3, <1>4

-----------------------------------------------------------------------------
(* What the hub keeps for its clients.                                     *)

Boxes(F, boxes) ==
    boxes \in [Clients -> Seq(F)] /\ \A c \in Clients : Len(boxes[c]) <= Buffer

LEMMA OfferType ==
    ASSUME NEW F, NEW box \in Seq(F), NEW frames \in Seq(F)
    PROVE  Offer(box, frames) \in Seq(F) /\ Len(Offer(box, frames)) <= Buffer
<1> DEFINE all == box \o frames
           k == IF Len(all) < Buffer THEN Len(all) ELSE Buffer
<1>1. all \in Seq(F) /\ Len(all) \in Nat
  BY ConcatProperties, LenProperties
<1>2. Buffer \in Nat
  BY BoundsAssumption
<1>3. k \in Nat /\ k <= Len(all) /\ k <= Buffer
  BY <1>1, <1>2
<1>4. Offer(box, frames) = SubSeq(all, 1, k)
  BY DEF Offer
<1> HIDE DEF all, k
<1>5. \A i \in 1..k : all[i] \in F
  <2>1. \A i \in 1..k : i \in 1..Len(all)
    BY <1>1, <1>3
  <2> QED
    BY <1>1, <2>1, ElementOfSeq
<1>6. SubSeq(all, 1, k) \in Seq(F) /\ Len(SubSeq(all, 1, k)) = k
  BY <1>1, <1>3, <1>5, SubSeqProperties
<1> QED
  BY <1>3, <1>4, <1>6

LEMMA HandleSyncType ==
    ASSUME NEW F, NEW boxes, Boxes(F, boxes), NEW c \in Clients, NEW frames \in Seq(F)
    PROVE  Boxes(F, HandleSync(boxes, c, frames)) /\ Boxes(F, sendSync(boxes, c, frames))
<1>1. \A d \in Clients : Offer(boxes[d], frames) \in Seq(F) /\ Len(Offer(boxes[d], frames)) <= Buffer
  BY OfferType DEF Boxes
<1>2. Boxes(F, HandleSync(boxes, c, frames))
  BY <1>1 DEF Boxes, HandleSync
<1> QED
  BY <1>2 DEF sendSync

LEMMA FramesGrow ==
    ASSUME NEW n \in Nat, NEW m \in Nat, n <= m, NEW boxes, Boxes(FramesOn(n), boxes)
    PROVE  Boxes(FramesOn(m), boxes)
<1>1. 1..n \subseteq 1..m
  OBVIOUS
<1>2. SUBSET (1..n) \subseteq SUBSET (1..m)
  BY <1>1
<1>3. FramesOn(n) \subseteq FramesOn(m)
  BY <1>2 DEF FramesOn
<1>4. \A s \in Seq(FramesOn(n)) : s \in Seq(FramesOn(m))
  BY <1>3
<1> QED
  BY <1>4 DEF Boxes

LEMMA FrameType ==
    ASSUME NEW n \in Nat, NEW t \in {"ops", "step1"} \cup Roles, NEW c \in Clients,
           NEW set \in SUBSET (1..n)
    PROVE  Frame(t, c, set) \in FramesOn(n) /\ <<Frame(t, c, set)>> \in Seq(FramesOn(n))
<1>1. Frame(t, c, set) \in FramesOn(n)
  BY DEF Frame, FramesOn
<1> QED
  BY <1>1

LEMMA Step1Type ==
    ASSUME Typed, NEW boxes, Boxes(FramesOn(Len(ops)), boxes), NEW c \in Clients
    PROVE  Boxes(FramesOn(Len(ops)), sendSyncStep1(boxes, c))
<1>1. Integrated(ops, Known(c)) \in SUBSET (1..Len(ops)) /\ Len(ops) \in Nat
  BY LogFacts DEF Typed, D, Known, Integrated
<1>2. <<Frame("step1", c, Integrated(ops, Known(c)))>> \in Seq(FramesOn(Len(ops)))
  BY <1>1, FrameType
<1> QED
  BY <1>2, HandleSyncType DEF sendSyncStep1

-----------------------------------------------------------------------------
(* The log grows.                                                          *)

\* What the operations that create transactions pass to Create.
Made(new) ==
    /\ new \in Seq(Ops) /\ Len(new) \in 0..2
    /\ \A i \in 1..Len(new) : new[i].rank <= Len(ops) + i

LEMMA LogGrows ==
    ASSUME Typed, NEW new, Made(new), ops' = ops \o new
    PROVE  /\ Logs(ops)' /\ Len(ops') = Len(ops) + Len(new)
           /\ D \subseteq D' /\ D' = D \cup Ids(new) /\ Ids(new) \in SUBSET (1..Len(ops'))
           /\ \A o \in D : ops'[o] = ops[o]
           /\ \A o \in D' \ D : \E i \in 1..Len(new) : ops'[o] = new[i]
<1> DEFINE n == Len(ops)
           k == Len(new)
<1>1. ops \in Seq(Ops) /\ new \in Seq(Ops) /\ n \in Nat /\ k \in Nat /\ D = 1..n
  BY LogFacts DEF Typed, Logs, Made, D
<1>2. ops' \in Seq(Ops) /\ Len(ops') = n + k
      /\ \A i \in 1..(n + k) : ops'[i] = IF i <= n THEN ops[i] ELSE new[i - n]
  BY <1>1, ConcatProperties
<1>3. D' = 1..(n + k)
  BY <1>1, <1>2, LenProperties DEF D
<1>4. Ids(new) = (n + 1)..(n + k)
  BY DEF Ids
<1> HIDE DEF n, k
<1>5. \A o \in D : ops'[o] = ops[o]
  BY <1>1, <1>2
<1>6. ASSUME NEW o \in D', o \notin D
      PROVE  o - n \in 1..k /\ ops'[o] = new[o - n] /\ o = n + (o - n)
  BY <1>1, <1>2, <1>3, <1>6
<1>7. \A o \in D' : ops'[o].rank <= n + k
  <2> TAKE o \in D'
  <2>1. CASE o \in D
    <3>1. ops[o] \in Ops /\ ops[o].rank <= n
      BY <2>1, LogFacts DEF Typed, Logs, D, n
    <3>2. ops[o].rank \in Int
      BY <3>1 DEF Ops
    <3>3. ops[o].rank <= n + k
      BY <1>1, <3>1, <3>2
    <3>4. ops'[o] = ops[o]
      BY <1>5, <2>1
    <3> QED
      BY <3>3, <3>4
  <2>2. CASE o \notin D
    <3>1. new[o - n] \in Ops /\ new[o - n].rank <= n + (o - n) /\ o \in Int /\ o <= n + k
      BY <1>1, <1>3, <1>6, <2>2, ElementOfSeq DEF Made, n, k
    <3>2. new[o - n].rank \in Int
      BY <3>1 DEF Ops
    <3>3. new[o - n].rank <= n + k
      BY <1>1, <3>1, <3>2
    <3>4. ops'[o] = new[o - n]
      BY <1>6, <2>2
    <3> QED
      BY <3>3, <3>4
  <2> QED
    BY <2>1, <2>2
<1>8. Logs(ops)'
  BY <1>2, <1>7 DEF Logs, D
<1>9. D \subseteq D' /\ D' = D \cup Ids(new) /\ Ids(new) \in SUBSET (1..Len(ops'))
  BY <1>1, <1>2, <1>3, <1>4
<1>10. \A o \in D' \ D : \E i \in 1..k : ops'[o] = new[i]
  BY <1>6
<1> QED
  BY <1>2, <1>5, <1>8, <1>9, <1>10 DEF n, k

LEMMA CreateType ==
    ASSUME Typed, NEW c \in Clients, NEW new, Made(new), Create(c, new)
    PROVE  /\ Boxes(FramesOn(Len(ops')), inbox')
           /\ journal' \in [Lineages -> SUBSET D'] /\ fork \in SUBSET D'
           /\ idb' \in [Clients -> [Lineages -> SUBSET D']]
           /\ moves' \in Nat
<1>1. ops' = ops \o new
  BY DEF Create
<1>2. /\ Len(ops') = Len(ops) + Len(new)
      /\ D \subseteq D' /\ Ids(new) \subseteq D' /\ Ids(new) \in SUBSET (1..Len(ops'))
  BY <1>1, LogGrows
<1>3. Len(ops) \in Nat /\ Len(new) \in 0..2 /\ Len(ops') \in Nat
  BY <1>2, LogFacts DEF Typed, Made
<1>4. Boxes(FramesOn(Len(ops')), inbox')
  <2> DEFINE frames == [i \in 1..Len(new) |-> Frame("ops", c, {Len(ops) + i})]
             F == FramesOn(Len(ops'))
  <2>1. Boxes(F, inbox)
    <3>1. Boxes(FramesOn(Len(ops)), inbox)
      BY DEF Typed, Boxes
    <3> QED
      BY <1>2, <1>3, <3>1, FramesGrow
  <2>2. \A i \in 1..Len(new) : Frame("ops", c, {Len(ops) + i}) \in F
    <3> TAKE i \in 1..Len(new)
    <3>1. {Len(ops) + i} \in SUBSET (1..Len(ops'))
      BY <1>2, <1>3
    <3> QED
      BY <1>3, <3>1, FrameType
  <2> HIDE DEF F
  <2>3. frames \in Seq(F)
    BY <1>3, <2>2, IsASeq
  <2>4. inbox' = sendSync(inbox, c, frames)
    BY DEF Create
  <2> HIDE DEF frames
  <2>5. Boxes(F, inbox')
    BY <2>1, <2>3, <2>4, HandleSyncType
  <2> QED
    BY <2>5 DEF F
<1>5. doc[c].lineage \in Lineages /\ Known(c) \in SUBSET D
  BY DEF Typed, Docs, Known
<1>6. journal' \in [Lineages -> SUBSET D']
  <2>1. journal \in [Lineages -> SUBSET D']
    BY <1>2 DEF Typed
  <2>2. journal' = journal \/ journal' = [journal EXCEPT ![doc[c].lineage] = @ \cup Ids(new)]
    BY DEF Create
  <2> HIDE DEF D
  <2> QED
    BY <1>2, <1>5, <2>1, <2>2
<1>7. idb' \in [Clients -> [Lineages -> SUBSET D']]
  <2>1. idb \in [Clients -> [Lineages -> SUBSET D]]
    BY DEF Typed
  <2>2. idb' = [idb EXCEPT ![c][doc[c].lineage] = @ \cup Known(c) \cup Ids(new)]
    BY DEF Create
  <2> HIDE DEF D
  <2>3. idb \in [Clients -> [Lineages -> SUBSET D']]
    BY <1>2, <2>1
  <2>4. idb[c][doc[c].lineage] \cup Known(c) \cup Ids(new) \in SUBSET D'
    BY <1>2, <1>5, <2>3
  <2> QED
    BY <1>5, <2>2, <2>3, <2>4
<1>8. fork \in SUBSET D' /\ moves' \in Nat
  BY <1>2 DEF Typed, Create, Moving
<1> QED
  BY <1>4, <1>6, <1>7, <1>8

\* A client whose document is left alone is as bound as it was.
LEMMA BoundStays ==
    ASSUME Typed, \A o \in D : ops'[o] = ops[o], NEW c \in Clients,
           Known(c)' = Known(c)
    PROVE  Bound(c)' <=> Bound(c)
<1>1. Known(c) \in SUBSET (DOMAIN ops)
  BY DEF Typed, Known, D
<1>2. HasState(ops', Known(c)) <=> HasState(ops, Known(c))
  BY <1>1, Stable DEF D
<1> QED
  BY <1>2 DEF Bound

-----------------------------------------------------------------------------
(* The steps.                                                              *)

LEMMA InitKeeps == Init => IInv
<1> SUFFICES ASSUME Init PROVE IInv
  OBVIOUS
<1>1. ops = << >> /\ Len(ops) = 0 /\ D = {}
  BY DEF Init, D
<1>2. Logs(ops)
  BY <1>1 DEF Logs, D
<1>3. \A c \in Clients : doc[c] \in Docs /\ store[c] \in Stores /\ doc[c].known = {}
  BY DEF Init, Docs, Stores, Lineages
<1>4. doc \in [Clients -> Docs] /\ store \in [Clients -> Stores]
  BY <1>3 DEF Init
<1>5. inbox \in [Clients -> Seq(FramesOn(Len(ops)))] /\ \A c \in Clients : Len(inbox[c]) <= Buffer
  BY BoundsAssumption DEF Init
<1>6. Typed
  BY <1>2, <1>3, <1>4, <1>5 DEF Init, Typed, Roles, Lineages
<1>7. \A c \in Clients : Guarded(c)
  BY DEF Init, Guarded
<1>8. \A c \in Clients : Labelled(c)
  BY DEF Init, Labelled
<1>9. Kept
  BY <1>1, <1>8 DEF Kept, Init, D
<1> QED
  BY <1>6, <1>7, <1>9 DEF IInv

\* Steps that leave the documents, the stores and main's file alone.
LEMMA StillKept ==
    ASSUME IInv, UNCHANGED <<ops, doc, store, file, strayed>>
    PROVE  (\A c \in Clients : Guarded(c)') /\ (Unstrayed' => Kept')
BY DEF IInv, Guarded, Unstrayed, Kept, Labelled, Bound, Known

\* One client's document or store changes, and what its Y.Doc and store then
\* say of each other is right.
LEMMA OneKept ==
    ASSUME IInv, NEW c \in Clients, Typed',
           \A o \in D : ops'[o] = ops[o],
           \A d \in Clients \ {c} : doc'[d] = doc[d] /\ store'[d] = store[d],
           Guarded(c)', Unstrayed' => Unstrayed,
           Unstrayed' /\ Kept => Labelled(c)' /\ file'.of = "main",
           Unstrayed' /\ Kept => \A o \in D' \ D : ops'[o].from = ops'[o].home
    PROVE  IInv'
<1>1. \A d \in Clients : Guarded(d)'
  BY DEF IInv, Guarded
<1>2. ASSUME Unstrayed' PROVE Kept'
  <2>1. Kept
    BY <1>2 DEF IInv
  <2>2. \A o \in DOMAIN ops' : ops'[o].from = ops'[o].home
    BY <1>2, <2>1 DEF Kept, D
  <2>3. ASSUME NEW d \in Clients PROVE Labelled(d)'
    <3>1. CASE d = c
      BY <1>2, <2>1, <3>1
    <3>2. CASE d # c
      <4>1. Known(d)' = Known(d) /\ doc'[d] = doc[d] /\ store'[d] = store[d]
        BY <3>2 DEF Known
      <4>2. Bound(d)' <=> Bound(d)
        BY <4>1, BoundStays DEF IInv
      <4> QED
        BY <2>1, <4>1, <4>2 DEF Kept, Labelled
    <3> QED
      BY <3>1, <3>2
  <2> QED
    BY <1>2, <2>1, <2>2, <2>3 DEF Kept
<1> QED
  BY <1>1, <1>2 DEF IInv

LEMMA RefreshRoleKeeps ==
    ASSUME IInv, NEW c \in Clients, NEW r \in Roles, RefreshRole(c, r)
    PROVE  IInv'
<1> USE DEF RefreshRole
<1>1. Typed
  BY DEF IInv
<1>2. Len(ops) \in Nat /\ {} \in SUBSET (1..Len(ops)) /\ Boxes(FramesOn(Len(ops)), inbox)
  BY <1>1, LogFacts DEF Typed, Boxes
<1>3. <<Frame(r, c, {})>> \in Seq(FramesOn(Len(ops)))
  BY <1>2, FrameType
<1>4. Boxes(FramesOn(Len(ops)), inbox')
  BY <1>2, <1>3, OfferType DEF Boxes
<1>5. role' \in [Clients -> Roles] /\ moves' \in Nat
  <2>1. role \in [Clients -> Roles] /\ moves \in Nat
    BY <1>1 DEF Typed
  <2>2. role' = [role EXCEPT ![c] = r] /\ moves' = moves + 1
    BY DEF Moving
  <2> QED
    BY <2>1, <2>2
<1>6. UNCHANGED <<doc, store, link, idb, ops, journal, fork, file, edits, strayed>>
  BY DEF logVars
<1> HIDE DEF RefreshRole
<1>7. Typed'
  BY <1>1, <1>4, <1>5, <1>6 DEF Typed, Boxes, D
<1> QED
  BY <1>6, <1>7, StillKept DEF IInv

LEMMA ConnectKeeps ==
    ASSUME IInv, NEW c \in Clients, Connect(c)
    PROVE  IInv'
<1> USE DEF Connect
<1>1. Typed
  BY DEF IInv
<1>2. Boxes(FramesOn(Len(ops)), inbox')
  BY <1>1, Step1Type DEF Typed, Boxes
<1>3. Typed'
  BY <1>1, <1>2 DEF Typed, Boxes, logVars, bounds, D
<1> QED
  BY <1>3, StillKept DEF IInv, logVars

LEMMA BreaksKeeps ==
    ASSUME IInv, NEW c \in Clients, Breaks(c)
    PROVE  IInv'
<1> USE DEF Breaks
<1>1. Typed
  BY DEF IInv
<1>2. Boxes(FramesOn(Len(ops)), inbox')
  BY <1>1, BoundsAssumption DEF Typed, Boxes
<1>3. Typed'
  BY <1>1, <1>2 DEF Typed, Boxes, Moving, logVars, D
<1> QED
  BY <1>3, StillKept DEF IInv, logVars

LEMMA NoticedKeeps ==
    ASSUME IInv, NEW c \in Clients, Noticed(c)
    PROVE  IInv'
<1> USE DEF Noticed
<1>1. Typed'
  BY DEF IInv, Typed, logVars, bounds, D
<1> QED
  BY <1>1, StillKept DEF IInv, logVars

LEMMA ForkKeeps ==
    ASSUME IInv, NEW c \in Clients, Fork(c)
    PROVE  IInv'
<1> USE DEF Fork
<1>1. Typed'
  <2>1. journal["main"] \in SUBSET D
    BY DEF IInv, Typed, Lineages
  <2>2. ops' = ops /\ D' = D /\ fork' \in SUBSET D
    BY <2>1 DEF D
  <2> HIDE DEF Fork
  <2>3. UNCHANGED <<doc, store, link, inbox, idb, role, journal, file, edits, moves, strayed>>
    BY DEF Fork, clientVars, bounds
  <2> QED
    BY <2>2, <2>3 DEF IInv, Typed
<1> QED
  BY <1>1, StillKept DEF IInv, clientVars

\* An update reaches a client's Y.Doc, and its store.
LEMMA ApplyKeeps ==
    ASSUME IInv, NEW c \in Clients, NEW set \in SUBSET D,
           NEW awaits \in SUBSET doc[c].awaits, Apply(c, set, awaits),
           UNCHANGED <<ops, link, role, logVars, file, bounds, strayed>>,
           Boxes(FramesOn(Len(ops)), inbox')
    PROVE  IInv'
<1> DEFINE now == Known(c) \cup set
           shows == /\ ~store[c].preview /\ HasState(ops, now)
                    /\ \/ Integrated(ops, now) # Integrated(ops, Known(c))
                       \/ Deleted(ops, now) # Deleted(ops, Known(c))
<1>1. Typed /\ Guarded(c) /\ doc[c] \in Docs /\ store[c] \in Stores
  BY DEF IInv, Typed
<1>2. now \in SUBSET D /\ D \subseteq Nat /\ Known(c) \in SUBSET D
  BY <1>1, LogFacts DEF Typed, Known, D
<1>3. /\ doc' = [doc EXCEPT ![c].known = now, ![c].awaits = awaits, ![c].foreign = @ /\ ~shows]
      /\ store' = IF shows
                  THEN [store EXCEPT ![c].els = Visible(ops, now), ![c].of = doc[c].lineage,
                                     ![c].label = doc[c].lineage]
                  ELSE store
      /\ idb' = [idb EXCEPT ![c][doc[c].lineage] = @ \cup now]
  BY DEF Apply
<1>4. Visible(ops, now) \in SUBSET Nat
  BY <1>1, <1>2, ItemTypes DEF Typed, D
<1>5. shows \in BOOLEAN /\ (shows => ~store[c].preview)
      /\ (HasState(ops, now) /\ ~shows /\ ~store[c].preview =>
            Integrated(ops, now) = Integrated(ops, Known(c)))
  OBVIOUS
<1> HIDE DEF now, shows
<1>6. /\ doc'[c] = [doc[c] EXCEPT !.known = now, !.awaits = awaits, !.foreign = @ /\ ~shows]
      /\ doc' \in [Clients -> Docs] /\ \A d \in Clients \ {c} : doc'[d] = doc[d]
  <2>1. [doc[c] EXCEPT !.known = now, !.awaits = awaits, !.foreign = @ /\ ~shows] \in Docs
    BY <1>1, <1>2, <1>5 DEF Docs
  <2>2. doc \in [Clients -> Docs]
    BY <1>1 DEF Typed
  <2> QED
    BY <1>3, <2>1, <2>2
<1>7. /\ store'[c] = IF shows THEN [store[c] EXCEPT !.els = Visible(ops, now),
                                                    !.of = doc[c].lineage, !.label = doc[c].lineage]
                     ELSE store[c]
      /\ store' \in [Clients -> Stores] /\ \A d \in Clients \ {c} : store'[d] = store[d]
  <2>1. [store[c] EXCEPT !.els = Visible(ops, now), !.of = doc[c].lineage,
                         !.label = doc[c].lineage] \in Stores
    BY <1>1, <1>4 DEF Stores, Docs
  <2>2. store \in [Clients -> Stores]
    BY <1>1 DEF Typed
  <2> QED
    BY <1>3, <2>1, <2>2
<1>8. idb' \in [Clients -> [Lineages -> SUBSET D]]
  <2>1. idb \in [Clients -> [Lineages -> SUBSET D]] /\ doc[c].lineage \in Lineages
    BY <1>1 DEF Typed, Docs
  <2> HIDE DEF D
  <2> QED
    BY <1>2, <1>3, <2>1
<1>9. Typed'
  <2>0. doc'[c].known = now
    BY <1>1, <1>6 DEF Docs
  <2>1. \A d \in Clients : doc'[d].known \subseteq D
    BY <1>1, <1>2, <1>6, <2>0 DEF Typed
  <2> QED
    BY <1>1, <1>6, <1>7, <1>8, <2>1 DEF Typed, Boxes, logVars, bounds, D
<1>10. Guarded(c)'
  BY <1>1, <1>6, <1>7 DEF Guarded, Docs, Stores
<1>11. ASSUME Kept PROVE Labelled(c)'
  <2>1. Labelled(c)
    BY <1>11 DEF Kept
  <2>2. store'[c].of = store'[c].label
    BY <1>1, <1>7, <2>1 DEF Labelled, Stores
  <2>3. ASSUME Bound(c)', doc'[c].foreign PROVE store'[c].preview
    <3>1. doc[c].foreign /\ ~shows /\ store'[c] = store[c] /\ HasState(ops, now)
      BY <1>1, <1>6, <1>7, <2>3 DEF Docs, Bound, Known
    <3>2. CASE store[c].preview
      BY <3>1, <3>2
    <3>3. CASE ~store[c].preview
      <4>1. Integrated(ops, now) = Integrated(ops, Known(c))
        BY <1>5, <3>1, <3>3
      <4>2. Bound(c)
        BY <3>1, <4>1 DEF Bound, HasState, Seeds
      <4> QED
        BY <2>1, <3>1, <4>2 DEF Labelled
    <3> QED
      BY <3>2, <3>3
  <2> QED
    BY <2>2, <2>3 DEF Labelled
<1>12. Unstrayed' <=> Unstrayed
  BY DEF Unstrayed
<1> QED
  BY <1>6, <1>7, <1>9, <1>10, <1>11, <1>12, OneKept DEF D, Kept

LEMMA ReceiveKeeps ==
    ASSUME IInv, NEW c \in Clients, Receive(c)
    PROVE  IInv'
<1> DEFINE f == Head(inbox[c])
           rest == [inbox EXCEPT ![c] = Tail(@)]
           F == FramesOn(Len(ops))
<1>1. Typed /\ Len(ops) \in Nat /\ D = 1..Len(ops)
  BY LogFacts DEF IInv, Typed, D
<1>2. inbox[c] \in Seq(F) /\ inbox[c] # << >>
  BY <1>1 DEF Typed, Receive
<1>3. f \in F /\ Tail(inbox[c]) \in Seq(F) /\ Len(Tail(inbox[c])) <= Buffer
  <2>1. Len(inbox[c]) <= Buffer /\ Buffer \in Nat /\ Len(inbox[c]) \in Nat
    BY <1>1, <1>2, BoundsAssumption, LenProperties DEF Typed
  <2>2. Len(Tail(inbox[c])) = Len(inbox[c]) - 1
    BY <1>2, HeadTailProperties
  <2> QED
    BY <1>2, <2>1, <2>2, HeadTailProperties
<1>4. Boxes(F, rest)
  <2>1. Boxes(F, inbox)
    BY <1>1 DEF Typed, Boxes
  <2> HIDE DEF F
  <2> QED
    BY <1>3, <2>1 DEF Boxes
<1>5. f.t \in {"ops", "step1"} \cup Roles /\ f.set \in SUBSET D
  BY <1>1, <1>3 DEF FramesOn
<1>6. UNCHANGED <<ops, link, role, logVars, file, bounds, strayed>>
  BY DEF Receive
<1>7. \/ f.t = "ops" /\ Apply(c, f.set, doc[c].awaits) /\ inbox' = rest
      \/ /\ f.t = "step1" /\ UNCHANGED <<doc, store, idb>>
         /\ inbox' = HandleSync(rest, c, Step2(c, f))
      \/ /\ f.t \in Roles /\ UNCHANGED <<doc, idb>>
         /\ store' = [store EXCEPT ![c].access = (f.t = "editor")]
         /\ inbox' = IF f.t = "editor" THEN sendSyncStep1(rest, c) ELSE rest
  BY DEF Receive
<1> HIDE DEF f, rest, F
<1>8. CASE f.t = "ops" /\ Apply(c, f.set, doc[c].awaits) /\ inbox' = rest
  <2>1. doc[c].awaits \in SUBSET doc[c].awaits
    OBVIOUS
  <2> QED
    BY <1>4, <1>5, <1>6, <1>8, <2>1, ApplyKeeps DEF F
<1>9. CASE /\ f.t = "step1" /\ UNCHANGED <<doc, store, idb>>
           /\ inbox' = HandleSync(rest, c, Step2(c, f))
  <2>1. Known(c) \ f.set \in SUBSET (1..Len(ops))
    BY <1>1 DEF Typed, Known
  <2>2. Step2(c, f) \in Seq(F)
    BY <1>1, <2>1, FrameType DEF Step2, F
  <2>3. Boxes(F, inbox')
    BY <1>4, <1>9, <2>2, HandleSyncType
  <2>4. Typed'
    BY <1>1, <1>6, <1>9, <2>3 DEF Typed, Boxes, F, logVars, bounds, D
  <2> QED
    BY <1>6, <1>9, <2>4, StillKept DEF IInv
<1>10. CASE /\ f.t \in Roles /\ UNCHANGED <<doc, idb>>
            /\ store' = [store EXCEPT ![c].access = (f.t = "editor")]
            /\ inbox' = IF f.t = "editor" THEN sendSyncStep1(rest, c) ELSE rest
  <2>1. Boxes(F, inbox')
    BY <1>1, <1>4, <1>10, Step1Type DEF F
  <2>2. store' \in [Clients -> Stores] /\ store'[c] = [store[c] EXCEPT !.access = (f.t = "editor")]
        /\ \A d \in Clients \ {c} : store'[d] = store[d]
    <3>1. store \in [Clients -> Stores] /\ store[c] \in Stores
      BY <1>1 DEF Typed
    <3>2. (f.t = "editor") \in BOOLEAN
      OBVIOUS
    <3>3. [store[c] EXCEPT !.access = (f.t = "editor")] \in Stores
      BY <3>1, <3>2 DEF Stores
    <3> QED
      BY <1>10, <3>1, <3>3
  <2>3. Typed'
    BY <1>1, <1>6, <1>10, <2>1, <2>2 DEF Typed, Boxes, F, logVars, bounds, D
  <2>4. /\ store'[c].of = store[c].of /\ store'[c].label = store[c].label
        /\ store'[c].preview = store[c].preview
    BY <1>1, <2>2 DEF Typed, Stores
  <2>5. Guarded(c)'
    BY <1>10, <2>4 DEF IInv, Guarded
  <2>6. Kept => Labelled(c)'
    BY <1>6, <1>10, <2>4 DEF Kept, Labelled, Bound, Known
  <2>7. Unstrayed' <=> Unstrayed
    BY <1>6 DEF Unstrayed
  <2> QED
    BY <1>6, <1>10, <2>2, <2>3, <2>5, <2>6, <2>7, OneKept DEF D, Kept
<1> QED
  BY <1>7, <1>8, <1>9, <1>10

LEMMA IdbLoadsKeeps ==
    ASSUME IInv, NEW c \in Clients, IdbLoads(c)
    PROVE  IInv'
<1>1. Typed /\ doc[c] \in Docs
  BY DEF IInv, Typed
<1>2. idb[c][doc[c].lineage] \in SUBSET D /\ Rest(c, "idb") \in SUBSET doc[c].awaits
  <2>1. idb \in [Clients -> [Lineages -> SUBSET D]] /\ doc[c].lineage \in Lineages
    BY <1>1 DEF Typed, Docs
  <2> QED
    BY <2>1 DEF Rest
<1>3. Boxes(FramesOn(Len(ops)), inbox')
  BY <1>1 DEF IdbLoads, Arrival, Typed, Boxes
<1> QED
  BY <1>2, <1>3, ApplyKeeps DEF IdbLoads, Arrival

LEMMA FramesLoadKeeps ==
    ASSUME IInv, NEW c \in Clients, FramesLoad(c)
    PROVE  IInv'
<1>1. Typed
  BY DEF IInv
<1> DEFINE log == fork \cup journal["branch"]
<1>2. PICK last \in 0..Len(ops) :
        LET page == {o \in log : o <= last} IN
        /\ Apply(c, page, IF page = log THEN Rest(c, "frames") ELSE doc[c].awaits)
        /\ Arrival
  BY DEF FramesLoad
<1>3. log \in SUBSET D
  <2>1. fork \in SUBSET D /\ journal \in [Lineages -> SUBSET D] /\ "branch" \in Lineages
    BY <1>1 DEF Typed, Lineages
  <2> QED
    BY <2>1
<1>4. PICK page \in SUBSET D, awaits \in SUBSET doc[c].awaits : Apply(c, page, awaits)
  <2> HIDE DEF log
  <2> DEFINE page == {o \in log : o <= last}
             awaits == IF page = log THEN Rest(c, "frames") ELSE doc[c].awaits
  <2>1. page \in SUBSET D /\ awaits \in SUBSET doc[c].awaits
    BY <1>3 DEF Rest
  <2>2. Apply(c, page, awaits)
    BY <1>2
  <2> QED
    BY <2>1, <2>2
<1>5. Arrival
  BY <1>2
<1>6. Boxes(FramesOn(Len(ops)), inbox')
  BY <1>1, <1>5 DEF Arrival, Typed, Boxes
<1> QED
  BY <1>4, <1>5, <1>6, ApplyKeeps DEF Arrival

LEMMA LoadFailsKeeps ==
    ASSUME IInv, NEW c \in Clients, LoadFails(c)
    PROVE  IInv'
<1>1. PICK what \in {"frames", "file"} :
        /\ Moving /\ doc' = [doc EXCEPT ![c].awaits = Rest(c, what)]
        /\ UNCHANGED <<store, link, inbox, idb, ops, role, logVars, file, edits, strayed>>
  BY DEF LoadFails
<1>2. Typed /\ Guarded(c) /\ doc \in [Clients -> Docs] /\ doc[c] \in Docs
  BY DEF IInv, Typed
<1>3. Rest(c, what) \in SUBSET {"idb", "frames", "file"}
  BY <1>2 DEF Rest, Docs
<1>4. /\ doc'[c] = [doc[c] EXCEPT !.awaits = Rest(c, what)] /\ doc' \in [Clients -> Docs]
      /\ \A d \in Clients \ {c} : doc'[d] = doc[d]
  <2>1. [doc[c] EXCEPT !.awaits = Rest(c, what)] \in Docs
    BY <1>2, <1>3 DEF Docs
  <2> QED
    BY <1>1, <1>2, <2>1
<1>5. /\ doc'[c].known = doc[c].known /\ doc'[c].foreign = doc[c].foreign
      /\ doc'[c].lineage = doc[c].lineage /\ doc'[c].awaits \subseteq doc[c].awaits
  BY <1>2, <1>4 DEF Docs, Rest
<1>6. Typed'
  <2>1. \A d \in Clients : doc'[d].known \subseteq D
    BY <1>2, <1>4, <1>5 DEF Typed
  <2> QED
    BY <1>1, <1>2, <1>4, <2>1 DEF Typed, Moving, logVars, D
<1>7. Guarded(c)' /\ (Kept => Labelled(c)')
  BY <1>1, <1>2, <1>5 DEF Guarded, Kept, Labelled, Bound, Known
<1>8. Unstrayed' <=> Unstrayed
  BY <1>1 DEF Unstrayed
<1> QED
  BY <1>1, <1>4, <1>6, <1>7, <1>8, OneKept DEF D, Kept

LEMMA FileLoadsKeeps ==
    ASSUME IInv, NEW c \in Clients, FileLoads(c)
    PROVE  IInv'
<1>1. PICK rank \in Ranks :
        LET new == IF store[c].preview THEN << >>
                   ELSE Reconciled(c, file.els, file.of, FALSE, rank)
            skipped == store[c].preview /\ Bound(c) /\ file.els # Visible(ops, Known(c))
        IN /\ Awaited(c, "file")
           /\ Create(c, new)
           /\ doc' = [doc EXCEPT ![c].known = @ \cup Ids(new), ![c].foreign = FALSE,
                                 ![c].awaits = Rest(c, "file")]
           /\ store' = [store EXCEPT ![c].els = file.els, ![c].of = file.of, ![c].label = "main",
                                     ![c].preview = FALSE]
           /\ strayed' = strayed \cup {s \in {"skipped"} : skipped}
           /\ UNCHANGED <<link, role, fork, file, edits>>
  BY DEF FileLoads
<1>2. PICK new :
        /\ new = << >> \/ new = Reconciled(c, file.els, file.of, FALSE, rank)
        /\ Awaited(c, "file") /\ Create(c, new)
        /\ doc' = [doc EXCEPT ![c].known = @ \cup Ids(new), ![c].foreign = FALSE,
                              ![c].awaits = Rest(c, "file")]
        /\ store' = [store EXCEPT ![c].els = file.els, ![c].of = file.of, ![c].label = "main",
                                  ![c].preview = FALSE]
        /\ strayed' = strayed \cup (strayed' \cap {"skipped"}) /\ strayed \subseteq strayed'
        /\ UNCHANGED <<link, role, fork, file, edits>>
  BY <1>1
<1>3. Typed /\ Guarded(c) /\ doc \in [Clients -> Docs] /\ doc[c] \in Docs
      /\ store \in [Clients -> Stores] /\ store[c] \in Stores
      /\ file.els \in SUBSET Nat /\ file.of \in Lineages
  BY DEF IInv, Typed
<1>4. doc[c].lineage = "main"
  BY <1>2, <1>3 DEF Awaited, Guarded
<1>5. Made(new) /\ \A i \in 1..Len(new) : new[i].from = file.of /\ new[i].home = "main"
  <2>1. CASE new = << >>
    <3>1. new \in Seq(Ops) /\ Len(new) = 0 /\ 1..Len(new) = {}
      BY <2>1
    <3> QED
      BY <3>1 DEF Made
  <2>2. CASE new = Reconciled(c, file.els, file.of, FALSE, rank)
    <3>1. /\ new \in Seq(Ops) /\ Len(new) \in 0..2
          /\ \A i \in 1..Len(new) : /\ new[i].rank <= Len(ops) + i
                                    /\ new[i].from = file.of /\ new[i].home = doc[c].lineage
      <4>1. PICK edit \in BOOLEAN : edit = FALSE
        OBVIOUS
      <4>2. new = Reconciled(c, file.els, file.of, edit, rank)
        BY ONLY <2>2, <4>1, Zenon
      <4> QED
        BY <1>3, <4>2, ReconciledType
    <3> QED
      BY <1>4, <3>1 DEF Made
  <2> QED
    BY <1>2, <2>1, <2>2
<1>6. ops' = ops \o new
  BY <1>2 DEF Create
<1>7. /\ Logs(ops)' /\ D \subseteq D' /\ D' = D \cup Ids(new)
      /\ \A o \in D : ops'[o] = ops[o]
      /\ \A o \in D' \ D : \E i \in 1..Len(new) : ops'[o] = new[i]
  <2>1. Typed /\ Made(new)
    BY <1>3, <1>5
  <2> QED
    BY <1>6, <2>1, LogGrows
<1>8. /\ Boxes(FramesOn(Len(ops')), inbox')
      /\ journal' \in [Lineages -> SUBSET D'] /\ fork \in SUBSET D'
      /\ idb' \in [Clients -> [Lineages -> SUBSET D']] /\ moves' \in Nat
  BY <1>2, <1>3, <1>5, CreateType
<1>9. doc[c].known \cup Ids(new) \in SUBSET D' /\ D' \subseteq Nat
  <2>1. doc[c].known \subseteq D
    BY <1>3 DEF Typed
  <2>2. D' \subseteq Nat
    BY <1>7, LogFacts DEF D
  <2> QED
    BY <1>7, <2>1, <2>2
<1>10. /\ doc'[c] = [doc[c] EXCEPT !.known = @ \cup Ids(new), !.foreign = FALSE,
                                   !.awaits = Rest(c, "file")]
       /\ doc' \in [Clients -> Docs] /\ \A d \in Clients \ {c} : doc'[d] = doc[d]
  <2>1. [doc[c] EXCEPT !.known = @ \cup Ids(new), !.foreign = FALSE,
                       !.awaits = Rest(c, "file")] \in Docs
    BY <1>3, <1>9 DEF Docs, Rest
  <2> QED
    BY <1>2, <1>3, <2>1
<1>11. /\ store'[c] = [store[c] EXCEPT !.els = file.els, !.of = file.of, !.label = "main",
                                       !.preview = FALSE]
       /\ store' \in [Clients -> Stores] /\ \A d \in Clients \ {c} : store'[d] = store[d]
  <2>1. [store[c] EXCEPT !.els = file.els, !.of = file.of, !.label = "main",
                         !.preview = FALSE] \in Stores
    BY <1>3 DEF Stores, Lineages
  <2> QED
    BY <1>2, <1>3, <2>1
<1>12. /\ doc'[c].known = doc[c].known \cup Ids(new) /\ ~doc'[c].foreign
       /\ doc'[c].lineage = "main"
       /\ store'[c].of = file.of /\ store'[c].label = "main"
  BY <1>3, <1>4, <1>10, <1>11 DEF Docs, Stores
<1>13. Typed'
  <2>1. \A d \in Clients : doc'[d].known \subseteq D'
    <3>1. \A d \in Clients : doc[d].known \subseteq D
      BY <1>3 DEF Typed
    <3> QED
      BY <1>7, <1>9, <1>10, <1>12, <3>1
  <2>2. strayed' \subseteq {"saved", "unlabelled", "skipped"}
    BY <1>2, <1>3 DEF Typed
  <2> QED
    BY <1>2, <1>3, <1>7, <1>8, <1>10, <1>11, <2>1, <2>2 DEF Typed, Boxes
<1>14. Guarded(c)'
  BY <1>12 DEF Guarded
<1>15. Kept => Labelled(c)' /\ file'.of = "main"
  BY <1>2, <1>12 DEF Kept, Labelled
<1>16. Kept => \A o \in D' \ D : ops'[o].from = ops'[o].home
  BY <1>5, <1>7 DEF Kept
<1>17. Unstrayed' => Unstrayed
  BY <1>2 DEF Unstrayed
<1> QED
  BY <1>7, <1>10, <1>11, <1>13, <1>14, <1>15, <1>16, <1>17, OneKept

\* An edit, or a page that is turned.
LEMMA BumpKeeps ==
    ASSUME IInv, NEW c \in Clients, NEW els \in SUBSET Nat, NEW edit \in BOOLEAN, Bump(c, els, edit)
    PROVE  IInv'
<1>0. Typed /\ Guarded(c) /\ doc \in [Clients -> Docs] /\ doc[c] \in Docs
      /\ store \in [Clients -> Stores] /\ store[c] \in Stores /\ edits \in Nat
      /\ store[c].els \in SUBSET Nat /\ store[c].of \in Lineages
  BY DEF IInv, Typed, Stores
<1>1. PICK rank \in Ranks :
        LET new == Reconciled(c, els, store[c].of, edit, rank) IN
        /\ ~store[c].preview /\ edits' = edits + 1
        /\ Create(c, new)
        /\ doc' = [doc EXCEPT ![c].known = @ \cup Ids(new)]
        /\ store' = [store EXCEPT ![c].els = els]
        /\ UNCHANGED <<link, role, fork, file, strayed>>
  BY DEF Bump
<1> DEFINE new == Reconciled(c, els, store[c].of, edit, rank)
<1>2. /\ ~store[c].preview /\ edits' = edits + 1 /\ Create(c, new)
      /\ doc' = [doc EXCEPT ![c].known = @ \cup Ids(new)]
      /\ store' = [store EXCEPT ![c].els = els]
      /\ UNCHANGED <<link, role, fork, file, strayed>>
  BY <1>1
<1>4. /\ Made(new)
      /\ \A i \in 1..Len(new) : new[i].from = store[c].of /\ new[i].home = doc[c].lineage
      /\ Len(new) # 0 => Bound(c) \/ ~doc[c].foreign
  <2>1. /\ new \in Seq(Ops) /\ Len(new) \in 0..2
        /\ \A i \in 1..Len(new) : /\ new[i].rank <= Len(ops) + i
                                  /\ new[i].from = store[c].of /\ new[i].home = doc[c].lineage
        /\ Len(new) # 0 => Bound(c) \/ ~doc[c].foreign
    BY <1>0, ReconciledType
  <2> HIDE DEF new
  <2> QED
    BY <2>1 DEF Made
<1> HIDE DEF new
<1>6. ops' = ops \o new
  BY <1>2 DEF Create
<1>7. /\ Logs(ops)' /\ D \subseteq D' /\ D' = D \cup Ids(new)
      /\ \A o \in D : ops'[o] = ops[o]
      /\ \A o \in D' \ D : \E i \in 1..Len(new) : ops'[o] = new[i]
  BY <1>0, <1>4, <1>6, LogGrows
<1>8. /\ Boxes(FramesOn(Len(ops')), inbox')
      /\ journal' \in [Lineages -> SUBSET D'] /\ fork \in SUBSET D'
      /\ idb' \in [Clients -> [Lineages -> SUBSET D']] /\ moves' \in Nat
  BY <1>0, <1>2, <1>4, CreateType
<1>9. doc[c].known \cup Ids(new) \in SUBSET D' /\ D' \subseteq Nat
  <2>1. doc[c].known \subseteq D
    BY <1>0 DEF Typed
  <2>2. D' \subseteq Nat
    BY <1>7, LogFacts DEF D
  <2> QED
    BY <1>7, <2>1, <2>2
<1>10. /\ doc'[c] = [doc[c] EXCEPT !.known = @ \cup Ids(new)]
       /\ doc' \in [Clients -> Docs] /\ \A d \in Clients \ {c} : doc'[d] = doc[d]
  <2>1. [doc[c] EXCEPT !.known = @ \cup Ids(new)] \in Docs
    BY <1>0, <1>9 DEF Docs
  <2> QED
    BY <1>0, <1>2, <2>1
<1>11. /\ store'[c] = [store[c] EXCEPT !.els = els]
       /\ store' \in [Clients -> Stores] /\ \A d \in Clients \ {c} : store'[d] = store[d]
  <2>1. [store[c] EXCEPT !.els = els] \in Stores
    BY <1>0 DEF Stores
  <2> QED
    BY <1>0, <1>2, <2>1
<1>12. /\ doc'[c].known = doc[c].known \cup Ids(new) /\ doc'[c].foreign = doc[c].foreign
       /\ doc'[c].lineage = doc[c].lineage /\ doc'[c].awaits = doc[c].awaits
       /\ store'[c].of = store[c].of /\ store'[c].label = store[c].label
  BY <1>0, <1>10, <1>11 DEF Docs, Stores
<1>13. Typed'
  <2>1. \A d \in Clients : doc'[d].known \subseteq D'
    <3>1. \A d \in Clients : doc[d].known \subseteq D
      BY <1>0 DEF Typed
    <3> QED
      BY <1>7, <1>9, <1>10, <1>12, <3>1
  <2>2. edits' \in Nat
    BY <1>0, <1>2
  <2> QED
    BY <1>0, <1>2, <1>7, <1>8, <1>10, <1>11, <2>1, <2>2 DEF Typed, Boxes
<1>14. Guarded(c)'
  BY <1>0, <1>12 DEF Guarded
<1>15. ASSUME Kept PROVE Labelled(c)'
  <2>1. Labelled(c)
    BY <1>15 DEF Kept
  <2>2. ~(Bound(c) /\ doc[c].foreign)
    BY <1>2, <2>1 DEF Labelled
  <2>3. ASSUME doc'[c].foreign PROVE ~Bound(c)'
    <3>1. doc[c].foreign /\ ~Bound(c)
      BY <1>12, <2>2, <2>3
    <3>2. Len(new) = 0 /\ Len(ops) \in Nat
      BY <1>0, <1>4, <3>1, LogFacts DEF Typed
    <3>3. Ids(new) = {}
      BY <3>2 DEF Ids
    <3>4. Known(c)' = Known(c)
      BY <1>12, <3>3 DEF Known
    <3> QED
      BY <1>0, <1>7, <3>1, <3>4, BoundStays
  <2> QED
    BY <1>12, <2>1, <2>3 DEF Labelled
<1>16. ASSUME Kept PROVE \A o \in D' \ D : ops'[o].from = ops'[o].home
  <2>1. Labelled(c)
    BY <1>16 DEF Kept
  <2>2. ASSUME NEW o \in D', o \notin D PROVE ops'[o].from = ops'[o].home
    <3>1. PICK i \in 1..Len(new) : ops'[o] = new[i]
      BY <1>7, <2>2
    <3>2. Len(new) # 0
      BY <1>4, <3>1 DEF Made
    <3>3. ~doc[c].foreign
      BY <1>2, <1>4, <2>1, <3>2 DEF Labelled
    <3>4. store[c].of = doc[c].lineage
      BY <1>0, <2>1, <3>3 DEF Guarded, Labelled
    <3> QED
      BY <1>4, <3>1, <3>4
  <2> QED
    BY <2>2
<1>17. Unstrayed' <=> Unstrayed
  BY <1>2 DEF Unstrayed
<1> QED
  BY <1>2, <1>7, <1>10, <1>11, <1>13, <1>14, <1>15, <1>16, <1>17, OneKept DEF Kept

LEMMA EditKeeps ==
    ASSUME IInv, NEW c \in Clients, Edit(c) \/ TurnPage(c)
    PROVE  IInv'
<1>1. store[c].els \in SUBSET Nat /\ edits \in Nat
  BY DEF IInv, Typed, Stores
<1>2. CASE Edit(c)
  <2>1. PICK els \in {store[c].els \cup {edits + 1}} \cup {store[c].els \ {e} : e \in store[c].els} :
          Bump(c, els, TRUE)
    BY <1>2 DEF Edit
  <2>2. els \in SUBSET Nat
    BY <1>1
  <2> QED
    BY <2>1, <2>2, BumpKeeps
<1>3. CASE TurnPage(c)
  BY <1>1, <1>3, BumpKeeps DEF TurnPage
<1> QED
  BY <1>2, <1>3

LEMMA SaveKeeps ==
    ASSUME IInv, NEW c \in Clients, Save(c)
    PROVE  IInv'
<1>1. Typed /\ store[c] \in Stores /\ Guarded(c)
  BY DEF IInv, Typed
<1>2. UNCHANGED <<doc, store, link, inbox, idb, ops, role, journal, fork, edits, moves>>
  BY DEF Save, clientVars, logVars, bounds
<1>3. file' \in [els : SUBSET Nat, of : Lineages]
  <2>1. Visible(ops, Known(c)) \in SUBSET Nat
    BY <1>1, ItemTypes DEF Typed, D, Known
  <2> QED
    BY <1>1, <2>1 DEF Save, Stores, Lineages
<1>4. strayed \subseteq strayed' /\ strayed' \subseteq {"saved", "unlabelled", "skipped"}
  BY <1>1 DEF Save, Typed
<1>5. Typed'
  BY <1>1, <1>2, <1>3, <1>4 DEF Typed, D
<1>6. Guarded(c)' /\ (Unstrayed' => Unstrayed)
  BY <1>1, <1>2, <1>4 DEF Guarded, Unstrayed
<1>7. ASSUME Unstrayed', Kept PROVE Labelled(c)' /\ file'.of = "main"
  <2>1. Labelled(c)
    BY <1>7 DEF Kept
  <2>2. Labelled(c)'
    BY <1>2, <2>1 DEF Labelled, Bound, Known
  <2>3. Bound(c) \/ ~doc[c].foreign
    BY <1>7 DEF Save, Unstrayed
  <2>4. CASE Bound(c)
    BY <2>2, <2>4 DEF Save
  <2>5. CASE ~Bound(c)
    <3>1. store[c].of = "main"
      BY <1>1, <2>1, <2>3, <2>5 DEF Save, Guarded, Labelled
    <3> QED
      BY <2>2, <2>5, <3>1 DEF Save
  <2> QED
    BY <2>4, <2>5
<1> QED
  BY <1>2, <1>5, <1>6, <1>7, OneKept DEF D

\* A binding set up anew knows nothing.
LEMMA BindKeeps ==
    ASSUME IInv, NEW c \in Clients, NEW l \in Lineages, NEW st \in Stores,
           NEW awaits \in SUBSET {"idb", "frames", "file"}, "file" \in awaits => l = "main",
           Bind(c, l, st, awaits), Moving, strayed \subseteq strayed',
           strayed' \subseteq {"saved", "unlabelled", "skipped"},
           Unstrayed' /\ Kept => st.of = st.label
    PROVE  IInv'
<1>1. Typed /\ doc \in [Clients -> Docs] /\ doc[c] \in Docs /\ store \in [Clients -> Stores]
  BY DEF IInv, Typed
<1>2. /\ doc' \in [Clients -> Docs] /\ \A d \in Clients \ {c} : doc'[d] = doc[d]
      /\ doc'[c].known = {} /\ doc'[c].lineage = l /\ doc'[c].awaits = awaits
      /\ doc'[c].foreign <=> st.label # l
  <2> DEFINE new == [lineage |-> l, known |-> {}, session |-> doc[c].session + 1,
                     foreign |-> Foreign(st, l), awaits |-> awaits]
  <2>1. new \in Docs
    BY <1>1 DEF Docs, Foreign
  <2>2. new.known = {} /\ new.lineage = l /\ new.awaits = awaits /\ (new.foreign <=> st.label # l)
    BY DEF Foreign
  <2>3. doc' = [doc EXCEPT ![c] = new]
    BY DEF Bind
  <2> HIDE DEF new
  <2> QED
    BY <1>1, <2>1, <2>2, <2>3
<1>3. /\ store' \in [Clients -> Stores] /\ \A d \in Clients \ {c} : store'[d] = store[d]
      /\ store'[c] = st
  BY <1>1 DEF Bind
<1>4. Boxes(FramesOn(Len(ops)), inbox') /\ link' \in [Clients -> {"up", "dying", "down"}]
  BY <1>1, BoundsAssumption DEF Bind, Typed, Boxes
<1>5. UNCHANGED <<ops, role, idb, journal, fork, file, edits>> /\ moves' \in Nat
  BY <1>1 DEF Bind, Moving, Typed, logVars
<1>6. Typed'
  <2>1. \A d \in Clients : doc'[d].known \subseteq D
    BY <1>1, <1>2 DEF Typed
  <2> QED
    BY <1>1, <1>2, <1>3, <1>4, <1>5, <2>1 DEF Typed, Boxes, D
<1>7. Guarded(c)'
  BY <1>2, <1>3 DEF Guarded
<1>8. ~Bound(c)'
  BY <1>2 DEF Bound, Known, HasState, Seeds, Integrated
<1>9. Unstrayed' /\ Kept => Labelled(c)' /\ file'.of = "main"
  BY <1>3, <1>5, <1>8 DEF Kept, Labelled
<1>10. Unstrayed' => Unstrayed
  BY DEF Unstrayed
<1> QED
  BY <1>2, <1>3, <1>5, <1>6, <1>7, <1>9, <1>10, OneKept DEF D

LEMMA SwitchBranchKeeps ==
    ASSUME IInv, NEW c \in Clients, SwitchBranch(c)
    PROVE  IInv'
<1> DEFINE st == [store[c] EXCEPT !.preview = FALSE]
<1>1. PICK l \in Lineages \ {doc[c].lineage} :
        /\ Moving /\ Bind(c, l, st, {"idb", IF l = "branch" THEN "frames" ELSE "file"})
        /\ UNCHANGED strayed
  BY DEF SwitchBranch
<1>2. store[c] \in Stores /\ strayed \subseteq {"saved", "unlabelled", "skipped"}
  BY DEF IInv, Typed
<1>3. st \in Stores /\ st.of = store[c].of /\ st.label = store[c].label
  BY <1>2 DEF Stores
<1>4. Kept => st.of = st.label
  BY <1>3 DEF Kept, Labelled
<1> DEFINE awaits == {"idb", IF l = "branch" THEN "frames" ELSE "file"}
<1>5. awaits \in SUBSET {"idb", "frames", "file"} /\ ("file" \in awaits => l = "main")
  BY DEF Lineages
<1>6. Bind(c, l, st, awaits)
  BY <1>1
<1> HIDE DEF st, awaits
<1> QED
  BY <1>1, <1>2, <1>3, <1>4, <1>5, <1>6, BindKeeps

LEMMA OpenPageKeeps ==
    ASSUME IInv, NEW c \in Clients, OpenPage(c)
    PROVE  IInv'
<1>1. PICK label \in {"main", store[c].label} :
        /\ Moving
        /\ Bind(c, "main", [els |-> file.els, of |-> file.of, label |-> label, preview |-> FALSE,
                            access |-> (role[c] = "editor")], {"idb"})
        /\ strayed' = strayed \cup {s \in {"unlabelled"} : label # "main"}
  BY DEF OpenPage
<1> DEFINE st == [els |-> file.els, of |-> file.of, label |-> label, preview |-> FALSE,
                  access |-> (role[c] = "editor")]
<1>2. file.els \in SUBSET Nat /\ file.of \in Lineages /\ label \in Lineages
      /\ "main" \in Lineages
  BY DEF IInv, Typed, Stores, Lineages
<1>3. st \in Stores /\ st.of = file.of /\ st.label = label
  BY <1>2 DEF Stores
<1>4. Unstrayed' /\ Kept => st.of = st.label
  BY <1>1, <1>3 DEF Kept, Unstrayed
<1>5. {"idb"} \in SUBSET {"idb", "frames", "file"} /\ "file" \notin {"idb"}
  OBVIOUS
<1>6. strayed \subseteq strayed' /\ strayed' \subseteq {"saved", "unlabelled", "skipped"}
  BY <1>1 DEF IInv, Typed
<1>7. Moving /\ Bind(c, "main", st, {"idb"})
  BY <1>1
<1> HIDE DEF st
<1> QED
  BY <1>2, <1>3, <1>4, <1>5, <1>6, <1>7, BindKeeps

\* A preview starts or ends.
LEMMA PreviewKeeps ==
    ASSUME IInv, NEW c \in Clients, EnterPreview(c) \/ ExitPreview(c)
    PROVE  IInv'
<1>1. Typed /\ store \in [Clients -> Stores] /\ store[c] \in Stores /\ Guarded(c)
      /\ doc[c] \in Docs
  BY DEF IInv, Typed
<1>2. UNCHANGED <<doc, link, inbox, idb, ops, role, journal, fork, file, edits>>
  BY DEF EnterPreview, ExitPreview, bounds, logVars
<1>3. CASE EnterPreview(c)
  <2>1. /\ store' \in [Clients -> Stores] /\ \A d \in Clients \ {c} : store'[d] = store[d]
        /\ store'[c] = [store[c] EXCEPT !.preview = TRUE]
    <3>1. [store[c] EXCEPT !.preview = TRUE] \in Stores
      BY <1>1 DEF Stores
    <3> QED
      BY <1>1, <1>3, <3>1 DEF EnterPreview
  <2>2. store'[c].of = store[c].of /\ store'[c].label = store[c].label /\ store'[c].preview
    BY <1>1, <2>1 DEF Stores
  <2>3. strayed' = strayed /\ moves' \in Nat
    BY <1>1, <1>3 DEF EnterPreview, Moving, Typed
  <2>4. Typed'
    BY <1>1, <1>2, <2>1, <2>3 DEF Typed, D
  <2>5. Guarded(c)' /\ (Kept => Labelled(c)')
    BY <1>1, <1>2, <2>2 DEF Guarded, Kept, Labelled
  <2> QED
    BY <1>2, <2>1, <2>3, <2>4, <2>5, OneKept DEF Unstrayed, D, Kept
<1>4. CASE ExitPreview(c)
  <2> DEFINE els == IF Bound(c) THEN Visible(ops, Known(c)) ELSE store[c].els
             of == IF Bound(c) THEN doc[c].lineage ELSE store[c].of
  <2>1. els \in SUBSET Nat /\ of \in Lineages
    <3>1. Visible(ops, Known(c)) \in SUBSET Nat
      BY <1>1, ItemTypes DEF Typed, D, Known
    <3> QED
      BY <1>1, <3>1 DEF Stores, Docs
  <2>2. store' = [store EXCEPT ![c].preview = FALSE, ![c].els = els, ![c].of = of]
    BY <1>4 DEF ExitPreview
  <2>3. of = IF Bound(c) THEN doc[c].lineage ELSE store[c].of
    OBVIOUS
  <2> HIDE DEF els, of
  <2>4. /\ store' \in [Clients -> Stores] /\ \A d \in Clients \ {c} : store'[d] = store[d]
        /\ store'[c] = [store[c] EXCEPT !.preview = FALSE, !.els = els, !.of = of]
    <3>1. [store[c] EXCEPT !.preview = FALSE, !.els = els, !.of = of] \in Stores
      BY <1>1, <2>1 DEF Stores
    <3> QED
      BY <1>1, <2>2, <3>1
  <2>5. store'[c].of = of /\ store'[c].label = store[c].label
    BY <1>1, <2>4 DEF Stores
  <2>6. /\ strayed \subseteq strayed' /\ strayed' \subseteq {"saved", "unlabelled", "skipped"}
        /\ moves' = moves
    BY <1>1, <1>4 DEF ExitPreview, Typed, bounds
  <2>7. Typed'
    BY <1>1, <1>2, <2>4, <2>6 DEF Typed, D
  <2>8. Guarded(c)' /\ (Unstrayed' => Unstrayed)
    BY <1>1, <1>2, <2>5, <2>6 DEF Guarded, Unstrayed
  <2>9. ASSUME Unstrayed', Kept PROVE Labelled(c)'
    <3>1. Labelled(c)
      BY <2>9 DEF Kept
    <3>2. Bound(c) => store[c].label = doc[c].lineage
      BY <1>4, <2>9 DEF ExitPreview, Unstrayed, Foreign
    <3>3. Bound(c)' <=> Bound(c)
      BY <1>2 DEF Bound, Known
    <3>4. store'[c].of = store'[c].label
      BY <2>3, <2>5, <3>1, <3>2 DEF Labelled
    <3>5. Bound(c)' => ~doc'[c].foreign
      BY <1>1, <1>2, <3>2, <3>3 DEF Guarded
    <3> QED
      BY <3>4, <3>5 DEF Labelled
  <2> QED
    BY <1>2, <2>4, <2>7, <2>8, <2>9, OneKept DEF D, Kept
<1> QED
  BY <1>3, <1>4

LEMMA NextKeeps == IInv /\ [Next]_vars => IInv'
<1> SUFFICES ASSUME IInv, [Next]_vars PROVE IInv'
  OBVIOUS
<1>1. ASSUME NEW c \in Clients, ClientNext(c) PROVE IInv'
  BY <1>1, ReceiveKeeps, ConnectKeeps, NoticedKeeps, IdbLoadsKeeps, FramesLoadKeeps,
     FileLoadsKeeps DEF ClientNext
<1>2. ASSUME NEW c \in Clients, UserNext(c) PROVE IInv'
  BY <1>2, EditKeeps, SaveKeeps, ForkKeeps, SwitchBranchKeeps, OpenPageKeeps, PreviewKeeps
     DEF UserNext
<1>3. ASSUME UNCHANGED vars PROVE IInv'
  <2>1. UNCHANGED <<ops, doc, store, link, inbox, role, idb, journal, fork, file, edits, moves,
                    strayed>>
    BY <1>3 DEF vars
  <2>2. Typed'
    BY <2>1 DEF IInv, Typed, D
  <2> QED
    BY <2>1, <2>2, StillKept DEF IInv
<1> QED
  BY <1>1, <1>2, <1>3, RefreshRoleKeeps, BreaksKeeps, LoadFailsKeeps DEF Next

LEMMA Inductive == Spec => []IInv
<1>1. Init => IInv
  BY InitKeeps
<1>2. IInv /\ [Next]_vars => IInv'
  BY NextKeeps
<1> QED
  BY <1>1, <1>2, PTL DEF Spec

\* Every variable stays in its type, and no more than Buffer frames wait for a
\* client, whatever its peers send (hub.go's offer).
THEOREM TypeCorrect == Spec => []TypeOK
<1>1. Typed => TypeOK
  <2> SUFFICES ASSUME Typed PROVE TypeOK
    OBVIOUS
  <2>1. D = 1..Len(ops) /\ Len(ops) \in Nat /\ D \subseteq Nat
    BY LogFacts DEF Typed, D
  <2>2. FramesOn(Len(ops)) \subseteq Frames
    BY <2>1 DEF FramesOn, Frames
  <2>3. \A s \in Seq(FramesOn(Len(ops))) : s \in Seq(Frames)
    BY <2>2
  <2>4. inbox \in [Clients -> Seq(Frames)]
    BY <2>3 DEF Typed
  <2>5. ops \in Seq(Ops)
    BY DEF Typed, Logs
  <2>6. \A S \in SUBSET D : S \in SUBSET Nat
    BY <2>1
  <2> HIDE DEF D
  <2>7. /\ idb \in [Clients -> [Lineages -> SUBSET Nat]] /\ journal \in [Lineages -> SUBSET Nat]
        /\ fork \subseteq Nat
    BY <2>6 DEF Typed
  <2> QED
    BY <2>4, <2>5, <2>7 DEF Typed, TypeOK
<1>2. IInv => TypeOK
  BY <1>1 DEF IInv
<1> QED
  BY <1>2, Inductive, PTL

\* Switches, loads, frames, edits, page turns, saves and previews, in any order and by
\* any number of clients, never bring what the store holds of one lineage into the
\* Y.Doc of another or into main's file, as long as neither of the two
\* unguarded moments has occurred (foreignStore and adoptStore of ydoc.ts).
THEOREM LineagesStayApart == Spec => []LineagesApart
<1>1. IInv => LineagesApart
  BY DEF IInv, Unstrayed, Kept, LineagesApart
<1> QED
  BY <1>1, Inductive, PTL
=============================================================================
