------------------------ MODULE DesignSyncMirrorProofs ------------------------
(***************************************************************************)
(* What a client's editor shows is what its Y.Doc holds, for any number of *)
(* clients, edits and moves: StoreMirrors of DesignSync.                   *)
(***************************************************************************)
EXTENDS DesignSyncProofs

-----------------------------------------------------------------------------
(* Logs refer backwards, and no two seeds have one rank.                   *)

Shaped(log) ==
    \A o \in DOMAIN log :
        /\ \A m \in log[o].needs : m < o
        /\ \A i \in log[o].dels : i[1] < o
        /\ log[o].base < o
        /\ log[o].base = 0 => log[o].needs = {} /\ log[o].rank \in {o, 1 - o}

LEMMA OpFacts ==
    ASSUME NEW log, Logs(log), NEW o \in DOMAIN log
    PROVE  /\ o \in Nat /\ o >= 1 /\ o <= Len(log)
           /\ log[o].base \in Nat /\ log[o].rank \in Int
           /\ log[o].adds \in SUBSET Nat /\ log[o].needs \in SUBSET Nat
           /\ log[o].dels \in SUBSET (Nat \X Nat) /\ log[o].by \in Clients \X Nat
BY LogFacts DEF Ops

\* The last writer is one.
LEMMA RootIs ==
    ASSUME NEW log, Logs(log), Shaped(log), NEW S \in SUBSET (DOMAIN log),
           NEW w \in Seeds(log, S), \A o \in Seeds(log, S) : log[o].rank <= log[w].rank
    PROVE  Root(log, S) = w
<1> DEFINE r == Root(log, S)
<1>1. r \in Seeds(log, S) /\ \A o \in Seeds(log, S) : log[o].rank <= log[r].rank
  BY RootIsSeed DEF HasState
<1> HIDE DEF r
<1>2. r \in DOMAIN log /\ w \in DOMAIN log /\ log[r].base = 0 /\ log[w].base = 0
  BY <1>1 DEF Seeds, Integrated
<1>3. r \in Nat /\ w \in Nat /\ r >= 1 /\ w >= 1 /\ log[r].rank \in Int /\ log[w].rank \in Int
  BY <1>2, OpFacts
<1>4. log[r].rank = log[w].rank
  BY <1>1, <1>3
<1>5. log[r].rank \in {r, 1 - r} /\ log[w].rank \in {w, 1 - w}
  BY <1>2 DEF Shaped
<1>6. r = w
  BY <1>3, <1>4, <1>5
<1> QED
  BY <1>6 DEF r

\* What a set of transactions shows does not depend on later ones.
LEMMA VisibleStays ==
    ASSUME NEW log, NEW log2, Logs(log), Logs(log2), Shaped(log), DOMAIN log \subseteq DOMAIN log2,
           NEW S \in SUBSET (DOMAIN log), \A o \in DOMAIN log : log2[o] = log[o]
    PROVE  Visible(log2, S) = Visible(log, S)
<1>1. /\ Integrated(log2, S) = Integrated(log, S) /\ Seeds(log2, S) = Seeds(log, S)
      /\ HasState(log2, S) <=> HasState(log, S)
  BY Stable
<1>2. Deleted(log2, S) = Deleted(log, S)
  BY DEF Deleted
<1>3. HasState(log, S) => Root(log2, S) = Root(log, S)
  <2> SUFFICES ASSUME HasState(log, S) PROVE Root(log2, S) = Root(log, S)
    OBVIOUS
  <2>1. /\ Root(log2, S) \in Seeds(log2, S)
        /\ \A o \in Seeds(log2, S) : log2[o].rank <= log2[Root(log2, S)].rank
    BY <1>1, RootIsSeed
  <2>2. Seeds(log, S) \subseteq DOMAIN log
    BY DEF Seeds, Integrated
  <2>3. \A o \in Seeds(log, S) : log[o].rank <= log[Root(log2, S)].rank
    BY <1>1, <2>1, <2>2
  <2> QED
    BY <1>1, <2>1, <2>3, RootIs
<1>4. Items(log2, S) = Items(log, S)
  <2>1. CASE ~HasState(log, S)
    BY <1>1, <2>1 DEF Items
  <2>2. CASE HasState(log, S)
    <3> DEFINE T(l) == {p \in Integrated(l, S) : Root(l, S) \in {p, l[p].base}}
    <3>1. T(log2) = T(log) /\ T(log) \subseteq DOMAIN log
      BY <1>1, <1>3, <2>2 DEF Integrated
    <3> HIDE DEF T
    <3>2. UNION {{o} \X log2[o].adds : o \in T(log2)} = UNION {{o} \X log[o].adds : o \in T(log)}
      BY <3>1
    <3> QED
      BY <1>1, <1>2, <2>2, <3>2 DEF Items, T
  <2> QED
    BY <2>1, <2>2
<1> QED
  BY <1>4 DEF Visible

-----------------------------------------------------------------------------
(* One more transaction.                                                   *)

\* log2 is log with op, the n-th, behind it; S is known before it, and S2 with it.
Grown(log, log2, op, S, n, S2) ==
    /\ Logs(log) /\ Shaped(log) /\ Logs(log2) /\ S \in SUBSET (DOMAIN log)
    /\ Len(log2) = Len(log) + 1
    /\ \A o \in DOMAIN log : log2[o] = log[o]
    /\ op.needs \subseteq S
    /\ n = Len(log2) /\ S2 = S \cup {n} /\ log2[n] = op

\* What there is afterwards.
After(log, log2, op, S, n, S2) ==
    /\ n \in Nat /\ n \notin S /\ n \notin DOMAIN log
    /\ DOMAIN log2 = DOMAIN log \cup {n} /\ S2 \in SUBSET (DOMAIN log2)
    /\ \A o \in DOMAIN log : o \in Nat /\ o < n
    /\ Integrated(log2, S2) = Integrated(log, S) \cup {n}
    /\ Deleted(log2, S2) = Deleted(log, S) \cup op.dels
    /\ \A i \in Deleted(log, S) : i[1] # n

LEMMA GrownFacts ==
    ASSUME NEW log, NEW log2, NEW op, NEW S, NEW n, NEW S2, Grown(log, log2, op, S, n, S2)
    PROVE  After(log, log2, op, S, n, S2)
<1>1. DOMAIN log = 1..Len(log) /\ DOMAIN log2 = 1..n /\ Len(log) \in Nat /\ n = Len(log) + 1
  BY LogFacts DEF Grown
<1>2. log2[n] = op /\ (\A o \in DOMAIN log : log2[o] = log[o]) /\ S \subseteq DOMAIN log
      /\ S2 = S \cup {n} /\ op.needs \subseteq S
  BY DEF Grown
<1>3. n \in Nat /\ n \notin S /\ n \notin DOMAIN log /\ DOMAIN log2 = DOMAIN log \cup {n}
      /\ \A o \in DOMAIN log : o \in Nat /\ o < n
  BY <1>1, <1>2
<1>4. \A o \in DOMAIN log : n \notin log[o].needs
  <2> TAKE o \in DOMAIN log
  <2>1. \A m \in log[o].needs : m < o
    BY DEF Grown, Shaped
  <2>2. o < n /\ o \in Nat /\ ~(n < o)
    BY <1>3
  <2> QED
    BY <2>1, <2>2
<1>5. Integrated(log2, S2) = Integrated(log, S) \cup {n}
  <2>1. \A o \in S : log2[o].needs \subseteq S2 <=> log[o].needs \subseteq S
    BY <1>2, <1>4
  <2> QED
    BY <1>2, <1>3, <2>1 DEF Integrated
<1>6. Deleted(log2, S2) = Deleted(log, S) \cup op.dels
  <2>1. {log2[o].dels : o \in S2} = {log[o].dels : o \in S} \cup {op.dels}
    BY <1>2, <1>3
  <2> QED
    BY <2>1 DEF Deleted
<1>7. ASSUME NEW i \in Deleted(log, S) PROVE i[1] # n
  <2>1. PICK o \in S : i \in log[o].dels
    BY DEF Deleted
  <2>2. i[1] < o /\ o \in Nat /\ o < n
    BY <1>2, <1>3, <2>1 DEF Grown, Shaped
  <2>3. i \in Nat \X Nat
    BY <1>2, <2>1, OpFacts DEF Grown
  <2> QED
    BY <1>3, <2>2, <2>3
<1>8. S2 \in SUBSET (DOMAIN log2)
  BY <1>2, <1>3
<1> QED
  BY <1>3, <1>5, <1>6, <1>7, <1>8 DEF After

\* What the transactions in T add.
Added(log, T) == UNION {{o} \X log[o].adds : o \in T}

Rooted(log, S) == {p \in Integrated(log, S) : Root(log, S) \in {p, log[p].base}}

LEMMA ItemsAre ==
    ASSUME NEW log, NEW S, HasState(log, S)
    PROVE  Items(log, S) = Added(log, Rooted(log, S)) \ Deleted(log, S)
<1>1. Items(log, S) =
        IF ~HasState(log, S) THEN {} ELSE Added(log, Rooted(log, S)) \ Deleted(log, S)
  BY DEF Items, Added, Rooted
<1> QED
  BY <1>1

\* A seed in an empty document shows what it carries.
LEMMA SeedShows ==
    ASSUME NEW log, NEW log2, NEW op, NEW S, NEW n, NEW S2, Grown(log, log2, op, S, n, S2), ~HasState(log, S),
           op.needs = {}, op.dels = {}, op.base = 0
    PROVE  HasState(log2, S2) /\ Visible(log2, S2) = op.adds
<1>1. /\ n \in Nat /\ n \notin S /\ n \notin DOMAIN log
      /\ DOMAIN log2 = DOMAIN log \cup {n} /\ S2 \in SUBSET (DOMAIN log2)
      /\ \A o \in DOMAIN log : o \in Nat /\ o < n
      /\ Integrated(log2, S2) = Integrated(log, S) \cup {n}
      /\ Deleted(log2, S2) = Deleted(log, S)
      /\ \A i \in Deleted(log, S) : i[1] # n
  <2>1. Deleted(log, S) \cup op.dels = Deleted(log, S)
    OBVIOUS
  <2>2. After(log, log2, op, S, n, S2)
    BY GrownFacts
  <2> QED
    BY <2>1, <2>2 DEF After
<1>2. /\ log2[n] = op /\ (\A o \in DOMAIN log : log2[o] = log[o]) /\ S \subseteq DOMAIN log
      /\ Logs(log) /\ Logs(log2) /\ Shaped(log)
  BY DEF Grown
<1>3. Seeds(log2, S2) = {n}
  <2>1. \A o \in Integrated(log, S) : o \in DOMAIN log /\ log[o].base # 0
    BY <1>2 DEF HasState, Seeds, Integrated
  <2> QED
    BY <1>1, <1>2, <2>1 DEF Seeds
<1>4. HasState(log2, S2) /\ Root(log2, S2) = n
  BY <1>1, <1>2, <1>3, RootIsSeed DEF HasState
<1>5. Rooted(log2, S2) = {n}
  <2>1. ASSUME NEW p \in Integrated(log, S) PROVE p # n /\ log2[p].base # n
    <3>1. p \in DOMAIN log /\ p < n /\ p \in Nat
      BY <1>1, <1>2 DEF Integrated
    <3>2. log[p].base < p /\ log[p].base \in Nat
      BY <1>2, <3>1, OpFacts DEF Shaped
    <3> QED
      BY <1>1, <1>2, <3>1, <3>2
  <2> QED
    BY <1>1, <1>4, <2>1 DEF Rooted
<1>6. Items(log2, S2) = ({n} \X op.adds) \ Deleted(log, S)
  <2>1. Added(log2, {n}) = {n} \X op.adds
    BY <1>2 DEF Added
  <2> QED
    BY <1>1, <1>4, <1>5, <2>1, ItemsAre
<1>7. \A i \in {n} \X op.adds : i \in Items(log2, S2)
  BY <1>1, <1>6
<1>8. \A e \in op.adds : <<n, e>> \in Items(log2, S2)
  BY <1>7
<1>9. \A i \in Items(log2, S2) : i[2] \in op.adds
  BY <1>6
<1>10. Visible(log2, S2) = op.adds
  <2>1. Visible(log2, S2) \subseteq op.adds
    BY <1>9 DEF Visible
  <2>2. ASSUME NEW e \in op.adds PROVE e \in Visible(log2, S2)
    <3>1. <<n, e>> \in Items(log2, S2) /\ <<n, e>>[2] = e
      BY <1>8
    <3> QED
      BY <3>1 DEF Visible
  <2> QED
    BY <2>1, <2>2
<1> QED
  BY <1>4, <1>10

Unwanted(log, S, els) == {i \in Items(log, S) : i[2] \notin els}

\* A transaction that adds els \ Visible under the root and deletes what is
\* not in els leaves els.
LEMMA DiffShows ==
    ASSUME NEW log, NEW log2, NEW op, NEW S, NEW n, NEW S2, Grown(log, log2, op, S, n, S2), HasState(log, S),
           NEW els, op.base = Root(log, S),
           op.adds = els \ Visible(log, S), op.dels = Unwanted(log, S, els)
    PROVE  HasState(log2, S2) /\ Visible(log2, S2) = els
<1> DEFINE root == Root(log, S)
<1>1. /\ n \in Nat /\ n \notin S /\ n \notin DOMAIN log
      /\ DOMAIN log2 = DOMAIN log \cup {n} /\ S2 \in SUBSET (DOMAIN log2)
      /\ \A o \in DOMAIN log : o \in Nat /\ o < n
      /\ Integrated(log2, S2) = Integrated(log, S) \cup {n}
      /\ Deleted(log2, S2) = Deleted(log, S) \cup op.dels
      /\ \A i \in Deleted(log, S) : i[1] # n
  <2>1. After(log, log2, op, S, n, S2)
    BY GrownFacts
  <2> QED
    BY <2>1 DEF After
<1>2. /\ log2[n] = op /\ (\A o \in DOMAIN log : log2[o] = log[o]) /\ S \in SUBSET (DOMAIN log)
      /\ Logs(log) /\ Logs(log2) /\ Shaped(log)
  BY DEF Grown
<1>3. /\ root \in Seeds(log, S) /\ root \in DOMAIN log /\ root \in Nat /\ root # 0
      /\ \A o \in Seeds(log, S) : log[o].rank <= log[root].rank
  <2>1. root \in Seeds(log, S) /\ root \in DOMAIN log /\ root \in Nat
        /\ \A o \in Seeds(log, S) : log[o].rank <= log[root].rank
    BY <1>2, RootIsSeed
  <2>2. root >= 1
    BY <1>2, <2>1, OpFacts
  <2> QED
    BY <2>1, <2>2
<1> HIDE DEF root
<1>4. Seeds(log2, S2) = Seeds(log, S)
  <2>1. log2[n].base # 0
    BY <1>2, <1>3 DEF root
  <2> QED
    BY <1>1, <1>2, <2>1 DEF Seeds, Integrated
<1>5. HasState(log2, S2)
  BY <1>3, <1>4 DEF HasState
<1>6. Root(log2, S2) = root
  <2>1. /\ Root(log2, S2) \in Seeds(log, S)
        /\ \A o \in Seeds(log, S) : log2[o].rank <= log2[Root(log2, S2)].rank
    BY <1>1, <1>2, <1>4, <1>5, RootIsSeed
  <2>2. Seeds(log, S) \subseteq DOMAIN log
    BY <1>2 DEF Seeds, Integrated
  <2>3. \A o \in Seeds(log, S) : log[o].rank <= log[Root(log2, S2)].rank
    BY <1>2, <2>1, <2>2
  <2> QED
    BY <1>2, <2>1, <2>3, RootIs DEF root
<1> DEFINE T1 == Rooted(log, S)
<1>7. Rooted(log2, S2) = T1 \cup {n}
  <2>1. log2[n].base = root
    BY <1>2 DEF root
  <2>2. \A p \in Integrated(log, S) : log2[p].base = log[p].base
    BY <1>2 DEF Integrated
  <2>3. Rooted(log, S) = {p \in Integrated(log, S) : root \in {p, log[p].base}}
    BY DEF Rooted, root
  <2> QED
    BY <1>1, <1>6, <2>1, <2>2, <2>3 DEF Rooted
<1>8. T1 \subseteq DOMAIN log
  BY <1>2 DEF Integrated, Rooted
<1> HIDE DEF T1
<1>9. Added(log2, T1 \cup {n}) = Added(log, T1) \cup ({n} \X op.adds)
  BY <1>2, <1>8 DEF Added
<1>10. Items(log, S) = Added(log, T1) \ Deleted(log, S)
  BY ItemsAre DEF T1
<1>11. Items(log2, S2) = Added(log2, T1 \cup {n}) \ Deleted(log2, S2)
  BY <1>5, <1>7, ItemsAre
<1>12. \A i \in Added(log, T1) : i[1] # n
  BY <1>1, <1>8 DEF Added
<1>13. \A i \in op.dels : i[1] # n
  BY <1>10, <1>12 DEF Unwanted
<1>14. Items(log2, S2) = (Items(log, S) \ op.dels) \cup ({n} \X op.adds)
  <2>1. \A i \in {n} \X op.adds : i[1] = n
    OBVIOUS
  <2> QED
    BY <1>1, <1>9, <1>10, <1>11, <1>13, <2>1
<1>15. \A i \in Items(log, S) \ op.dels : i[2] \in els
  BY DEF Unwanted
<1>16. Visible(log2, S2) \subseteq els
  <2>1. \A i \in {n} \X op.adds : i[2] \in els
    OBVIOUS
  <2> QED
    BY <1>14, <1>15, <2>1 DEF Visible
<1>17. ASSUME NEW e \in els PROVE e \in Visible(log2, S2)
  <2>1. CASE e \in Visible(log, S)
    <3>1. PICK i \in Items(log, S) : i[2] = e
      BY <2>1 DEF Visible
    <3>2. i \in Items(log2, S2)
      BY <1>14, <3>1 DEF Unwanted
    <3> QED
      BY <3>1, <3>2 DEF Visible
  <2>2. CASE e \notin Visible(log, S)
    <3>1. <<n, e>> \in Items(log2, S2)
      BY <1>14, <2>2
    <3> QED
      BY <3>1 DEF Visible
  <2> QED
    BY <2>1, <2>2
<1> QED
  BY <1>5, <1>16, <1>17

\* The log keeps its shape.
LEMMA GrownShape ==
    ASSUME NEW log, NEW log2, NEW op, NEW S, NEW n, NEW S2, Grown(log, log2, op, S, n, S2),
           \A i \in op.dels : i[1] \in DOMAIN log,
           \/ op.base \in DOMAIN log
           \/ op.base = 0 /\ op.needs = {} /\ op.rank \in {n, 1 - n}
    PROVE  Shaped(log2)
<1>1. /\ n \in Nat /\ DOMAIN log2 = DOMAIN log \cup {n}
      /\ \A o \in DOMAIN log : o \in Nat /\ o < n /\ o >= 1
  <2>1. n \in Nat /\ DOMAIN log2 = DOMAIN log \cup {n} /\ \A o \in DOMAIN log : o \in Nat /\ o < n
    BY GrownFacts DEF After
  <2> QED
    BY <2>1, OpFacts DEF Grown
<1>2. /\ log2[n] = op /\ (\A o \in DOMAIN log : log2[o] = log[o]) /\ S \subseteq DOMAIN log
      /\ Logs(log2) /\ Shaped(log) /\ op.needs \subseteq S
  BY DEF Grown
<1>3. n >= 1
  BY <1>1, <1>2, OpFacts
<1>4. /\ \A m \in op.needs : m < n
      /\ \A i \in op.dels : i[1] < n
  BY <1>1, <1>2
<1>5. op.base < n
  BY <1>1, <1>3
<1>6. op.base = 0 => op.needs = {} /\ op.rank \in {n, 1 - n}
  BY <1>1
<1> QED
  BY <1>1, <1>2, <1>4, <1>5, <1>6 DEF Shaped

LEMMA GrownBy ==
    ASSUME NEW log, Logs(log), Shaped(log), NEW S \in SUBSET (DOMAIN log),
           NEW op \in Ops, op.needs \subseteq S, op.rank <= Len(log) + 1,
           NEW log2 \in Seq(Ops), Len(log2) = Len(log) + 1,
           \A o \in DOMAIN log : log2[o] = log[o],
           NEW n, n = Len(log) + 1, log2[n] = op
    PROVE  Grown(log, log2, op, S, n, S \cup {n})
<1>1. DOMAIN log = 1..Len(log) /\ Len(log) \in Nat /\ DOMAIN log2 = 1..n
  BY LogFacts, LenProperties
<1>2. ASSUME NEW o \in DOMAIN log2 PROVE log2[o].rank <= Len(log2)
  <2>1. CASE o = n
    BY <2>1
  <2>2. CASE o # n
    <3>1. o \in DOMAIN log
      BY <1>1, <2>2
    <3>2. log[o].rank \in Int /\ log[o].rank <= Len(log)
      BY <3>1, OpFacts DEF Logs
    <3>3. log[o].rank <= Len(log) + 1
      BY <1>1, <3>2
    <3> QED
      BY <3>1, <3>3
  <2> QED
    BY <2>1, <2>2
<1> QED
  BY <1>1, <1>2 DEF Grown, Logs

-----------------------------------------------------------------------------
(* What a client creates is integrated at once, and leaves what it meant.  *)

LEMMA NeedsKnown ==
    ASSUME NEW log, NEW S, NEW me, NEW base \in S, log[base].needs \subseteq S,
           \A o \in DOMAIN log : log[o].by = me => o \in S /\ log[o].needs \subseteq S
    PROVE  Needs(log, me, base) \subseteq S
<1> DEFINE direct == {o \in DOMAIN log : log[o].by = me /\ (log[o].base = 0 \/ log[o].adds # {})}
                     \cup ({base} \ {0})
<1>1. \A o \in direct : o \in S /\ log[o].needs \subseteq S
  OBVIOUS
<1>2. Needs(log, me, base) = direct \cup UNION {log[o].needs : o \in direct}
  BY DEF Needs
<1> HIDE DEF direct
<1> QED
  BY <1>1, <1>2

LEMMA ItemsKnown ==
    ASSUME NEW log, NEW S
    PROVE  \A i \in Items(log, S) : i[1] \in S
<1>1. CASE ~HasState(log, S)
  BY <1>1 DEF Items
<1>2. CASE HasState(log, S)
  <2>1. \A i \in Added(log, Rooted(log, S)) : i[1] \in S
    BY DEF Added, Rooted, Integrated
  <2> QED
    BY <1>2, <2>1, ItemsAre
<1> QED
  BY <1>1, <1>2

\* All that client c has created since it was bound is in its Y.Doc.
Own(log, me, S) ==
    \A o \in DOMAIN log : log[o].by = me => o \in S /\ log[o].needs \subseteq S

\* A transaction that the reconciler makes of els on top of log and S.
Meant(log, log2, me, S, n, els) ==
    /\ Shaped(log2) /\ Logs(log2) /\ Own(log2, me, S \cup {n})
    /\ HasState(log2, S \cup {n}) /\ Visible(log2, S \cup {n}) = els
    /\ log2[n].by = me

LEMMA OwnGrows ==
    ASSUME NEW log, NEW log2, NEW op, NEW S, NEW n, NEW me,
           Grown(log, log2, op, S, n, S \cup {n}), Own(log, me, S)
    PROVE  Own(log2, me, S \cup {n})
<1>1. DOMAIN log2 = DOMAIN log \cup {n}
  <2>1. After(log, log2, op, S, n, S \cup {n})
    BY GrownFacts
  <2> QED
    BY <2>1 DEF After
<1> QED
  BY <1>1 DEF Grown, Own

LEMMA SeedMeant ==
    ASSUME Typed, Shaped(ops), NEW c \in Clients, Own(ops, Me(c), Known(c)), ~Bound(c),
           NEW els \in SUBSET Nat, NEW of \in Lineages, NEW rank \in Ranks,
           NEW s, s = Seed(c, els, of, rank),
           NEW log \in Seq(Ops), Len(log) = Len(ops) + 1, NEW n, n = Len(ops) + 1,
           \A o \in D : log[o] = ops[o], log[n] = s
    PROVE  Meant(ops, log, Me(c), Known(c), n, els)
<1>1. Logs(ops) /\ Known(c) \in SUBSET (DOMAIN ops) /\ Len(ops) \in Nat
  BY LogFacts DEF Typed, Known, D
<1>2. rank \in Int /\ rank <= n /\ rank \in {n, 1 - n}
  BY <1>1, RankType DEF Ranks
<1>3. /\ s \in Ops /\ s.rank = rank /\ s.needs = {} /\ s.dels = {} /\ s.base = 0
      /\ s.adds = els /\ s.by = Me(c)
  BY <1>2, SeedType DEF Seed
<1>4. Grown(ops, log, s, Known(c), n, Known(c) \cup {n})
  BY <1>1, <1>2, <1>3, GrownBy DEF D
<1>5. HasState(log, Known(c) \cup {n}) /\ Visible(log, Known(c) \cup {n}) = els
  BY <1>3, <1>4, SeedShows DEF Bound
<1>6. Shaped(log)
  BY <1>2, <1>3, <1>4, GrownShape
<1>7. Own(log, Me(c), Known(c) \cup {n})
  BY <1>4, OwnGrows
<1> QED
  BY <1>3, <1>4, <1>5, <1>6, <1>7 DEF Meant, Grown

LEMMA DiffMeant ==
    ASSUME Typed, NEW c \in Clients, NEW log, Logs(log), Shaped(log),
           NEW S \in SUBSET (DOMAIN log), Own(log, Me(c), S), HasState(log, S),
           NEW els \in SUBSET Nat, NEW of \in Lineages,
           NEW d, d = Diff(log, S, c, els, of),
           NEW log2 \in Seq(Ops), Len(log2) = Len(log) + 1, NEW n, n = Len(log) + 1,
           \A o \in DOMAIN log : log2[o] = log[o], log2[n] = d
    PROVE  Meant(log, log2, Me(c), S, n, els)
<1> DEFINE root == Root(log, S)
<1>1. root \in Seeds(log, S) /\ root \in DOMAIN log
  BY RootIsSeed
<1>2. root \in S /\ log[root].needs \subseteq S
  BY <1>1 DEF Seeds, Integrated
<1>3. Needs(log, Me(c), root) \subseteq S
  BY <1>2, NeedsKnown DEF Own
<1> HIDE DEF root
<1>4. /\ d.base = root /\ d.adds = els \ Visible(log, S) /\ d.by = Me(c)
      /\ d.dels = Unwanted(log, S, els)
      /\ d.needs = IF d.adds = {} THEN {} ELSE Needs(log, Me(c), root)
  BY DEF Diff, root, Unwanted
<1>5. d \in Ops /\ d.rank = 0
  <2>1. Diff(log, S, c, els, of) \in Ops /\ Diff(log, S, c, els, of).rank = 0
    BY DiffType
  <2> QED
    BY <2>1
<1>6. d.needs \subseteq S /\ d.rank <= Len(log) + 1
  BY <1>3, <1>4, <1>5, LogFacts
<1>7. Grown(log, log2, d, S, n, S \cup {n})
  BY <1>5, <1>6, GrownBy
<1>8. HasState(log2, S \cup {n}) /\ Visible(log2, S \cup {n}) = els
  BY <1>4, <1>7, DiffShows DEF root
<1>9. Shaped(log2)
  <2>1. \A i \in d.dels : i[1] \in DOMAIN log
    BY <1>4, ItemsKnown DEF Unwanted
  <2> QED
    BY <1>1, <1>4, <1>7, <2>1, GrownShape
<1>10. Own(log2, Me(c), S \cup {n})
  BY <1>7, OwnGrows
<1> QED
  BY <1>4, <1>7, <1>8, <1>9, <1>10 DEF Meant, Grown

\* The reconciler's transactions: the Y.Doc, if it has state, then shows els.
Remade(c, new, els) ==
    LET S == Known(c) \cup Ids(new) IN
    /\ Shaped(ops') /\ Own(ops', Me(c), S)
    /\ \A o \in D' \ D : ops'[o].by = Me(c)
    /\ HasState(ops', S) => Visible(ops', S) = els

LEMMA ReconciledMeant ==
    ASSUME Typed, Shaped(ops), NEW c \in Clients, Own(ops, Me(c), Known(c)),
           NEW els \in SUBSET Nat, NEW of \in Lineages, NEW edit \in BOOLEAN, NEW rank \in Ranks,
           NEW new, new = Reconciled(c, els, of, edit, rank), ops' = ops \o new
    PROVE  Remade(c, new, els)
<1> DEFINE n == Len(ops) + 1
<1>1. Logs(ops) /\ Known(c) \in SUBSET (DOMAIN ops) /\ Len(ops) \in Nat
      /\ DOMAIN ops = 1..Len(ops) /\ ops \in Seq(Ops) /\ store[c].els \in SUBSET Nat
  BY LogFacts DEF Typed, Known, D, Logs, Stores
<1>2. CASE new = << >>
  <2>1. ops' = ops /\ Ids(new) = {} /\ D' = D
    <3>1. Len(new) = 0 /\ ops \o new = ops
      BY <1>1, <1>2, ConcatEmptySeq
    <3> QED
      BY <1>1, <3>1 DEF Ids, D
  <2>2. Known(c) \cup Ids(new) = Known(c)
    BY <2>1
  <2>3. Bound(c) => els = Visible(ops, Known(c))
    BY <1>2 DEF Reconciled
  <2> QED
    BY <2>1, <2>2, <2>3 DEF Bound, Remade
<1>3. ASSUME NEW x, new = <<x>>, x \in Ops
      PROVE  /\ ops' \in Seq(Ops) /\ Len(ops') = Len(ops) + 1 /\ ops'[n] = x
             /\ \A o \in D : ops'[o] = ops[o]
             /\ D' \ D = {n} /\ Ids(new) = {n}
  <2>1. new \in Seq(Ops) /\ Len(new) = 1 /\ new[1] = x
    BY <1>3
  <2>2. ops' \in Seq(Ops) /\ Len(ops') = Len(ops) + 1
        /\ \A i \in 1..n : ops'[i] = IF i <= Len(ops) THEN ops[i] ELSE new[i - Len(ops)]
    <3>1. /\ ops' \in Seq(Ops) /\ Len(ops') = Len(ops) + Len(new)
          /\ \A i \in 1..(Len(ops) + Len(new)) :
                ops'[i] = IF i <= Len(ops) THEN ops[i] ELSE new[i - Len(ops)]
      BY <1>1, <2>1, ConcatProperties
    <3> QED
      BY <2>1, <3>1
  <2>3. D' = 1..n
    BY <2>2, LenProperties DEF D
  <2>4. ops'[n] = new[1]
    <3>1. n \in 1..n /\ ~(n <= Len(ops)) /\ n - Len(ops) = 1
      BY <1>1
    <3> QED
      BY <2>2, <3>1
  <2>5. \A o \in D : ops'[o] = ops[o]
    BY <1>1, <2>2 DEF D
  <2>6. Ids(new) = {n}
    BY <1>1, <2>1 DEF Ids
  <2> QED
    BY <1>1, <2>1, <2>2, <2>3, <2>4, <2>5, <2>6 DEF D
<1>4. CASE Bound(c) /\ new # << >>
  <2> DEFINE d == Diff(ops, Known(c), c, els, of)
  <2>1. new = <<d>>
    BY <1>4 DEF Reconciled
  <2>2. d \in Ops
    BY <1>1, <1>4, DiffType DEF Bound
  <2>3. /\ ops' \in Seq(Ops) /\ Len(ops') = Len(ops) + 1 /\ ops'[n] = d
        /\ \A o \in D : ops'[o] = ops[o]
        /\ D' \ D = {n} /\ Ids(new) = {n}
    BY <1>3, <2>1, <2>2
  <2>4. PICK x : x = d
    OBVIOUS
  <2>5. n = Len(ops) + 1
    OBVIOUS
  <2> HIDE DEF d, n
  <2>6. Meant(ops, ops', Me(c), Known(c), n, els)
    BY <1>1, <1>4, <2>3, <2>4, <2>5, DiffMeant DEF Bound, D, d
  <2> QED
    BY <2>3, <2>6 DEF Meant, Remade
<1>5. CASE ~Bound(c) /\ ~edit /\ new # << >>
  <2> DEFINE x == Seed(c, els, of, rank)
  <2>1. new = <<x>>
    BY <1>5 DEF Reconciled
  <2>2. x \in Ops
    BY RankType, SeedType
  <2>3. /\ ops' \in Seq(Ops) /\ Len(ops') = Len(ops) + 1 /\ ops'[n] = x
        /\ \A o \in D : ops'[o] = ops[o]
        /\ D' \ D = {n} /\ Ids(new) = {n}
    BY <1>3, <2>1, <2>2
  <2>4. n = Len(ops) + 1
    OBVIOUS
  <2> HIDE DEF x, n
  <2>5. Meant(ops, ops', Me(c), Known(c), n, els)
    BY <1>5, <2>3, <2>4, SeedMeant DEF x
  <2> QED
    BY <2>3, <2>5 DEF Meant, Remade
<1>6. CASE ~Bound(c) /\ edit /\ new # << >>
  <2> DEFINE x == Seed(c, store[c].els, of, rank)
             log == Append(ops, x)
             S == Known(c) \cup {n}
             d == Diff(log, Known(c) \cup {Len(log)}, c, els, of)
  <2>1. new = <<x, d>>
    BY <1>6 DEF Reconciled
  <2>2. x \in Ops
    BY <1>1, RankType, SeedType
  <2>3. /\ log \in Seq(Ops) /\ Len(log) = n /\ log[n] = x
        /\ \A o \in D : log[o] = ops[o]
    <3> HIDE DEF x
    <3> QED
      BY <1>1, <2>2, AppendProperties DEF D
  <2>4. n = Len(ops) + 1
    OBVIOUS
  <2>5. d = Diff(log, S, c, els, of)
    BY <2>3
  <2>6. \A i \in {1, 2} : new[i] = IF i = 1 THEN x ELSE d
    BY <2>1
  <2>7. Len(new) = 2
    BY <2>1
  <2> HIDE DEF x, n, log, d
  <2>8. Meant(ops, log, Me(c), Known(c), n, store[c].els)
    BY <1>1, <1>6, <2>3, <2>4, SeedMeant DEF x
  <2>9. /\ Logs(log) /\ Shaped(log) /\ Own(log, Me(c), S) /\ HasState(log, S)
        /\ log[n].by = Me(c) /\ DOMAIN log = 1..n /\ S \in SUBSET (DOMAIN log)
    <3>1. Logs(log)
      BY <2>8 DEF Meant
    <3>2. DOMAIN log = 1..n
      BY <2>3, <3>1, LogFacts
    <3> QED
      BY <1>1, <2>4, <2>8, <3>2 DEF Meant
  <2> HIDE DEF S
  <2>10. d \in Ops
    BY <2>5, <2>9, DiffType
  <2>11. new \in Seq(Ops)
    BY <2>1, <2>2, <2>10
  <2>12. ops' \in Seq(Ops) /\ Len(ops') = Len(ops) + 2
         /\ \A i \in 1..(Len(ops) + 2) :
               ops'[i] = IF i <= Len(ops) THEN ops[i] ELSE new[i - Len(ops)]
    <3>1. /\ ops' \in Seq(Ops) /\ Len(ops') = Len(ops) + Len(new)
          /\ \A i \in 1..(Len(ops) + Len(new)) :
                ops'[i] = IF i <= Len(ops) THEN ops[i] ELSE new[i - Len(ops)]
      BY <1>1, <2>11, ConcatProperties
    <3> QED
      BY <2>7, <3>1
  <2>13. ops'[n] = x /\ ops'[n + 1] = d
    <3>1. /\ n \in 1..(Len(ops) + 2) /\ n + 1 \in 1..(Len(ops) + 2)
          /\ ~(n <= Len(ops)) /\ ~(n + 1 <= Len(ops))
          /\ n - Len(ops) = 1 /\ (n + 1) - Len(ops) = 2
      BY <1>1, <2>4
    <3> QED
      BY <2>6, <2>12, <3>1
  <2>14. \A o \in DOMAIN log : ops'[o] = log[o]
    <3>1. \A o \in D : ops'[o] = ops[o]
      BY <1>1, <2>12 DEF D
    <3>2. \A o \in DOMAIN log : o \in D \/ o = n
      BY <1>1, <2>4, <2>9 DEF D
    <3> QED
      BY <2>3, <2>13, <3>1, <3>2
  <2>15. Meant(log, ops', Me(c), S, n + 1, els)
    <3>1. Len(ops') = Len(log) + 1 /\ n + 1 = Len(log) + 1
      BY <1>1, <2>3, <2>4, <2>12
    <3>2. PICK m : m = n + 1
      OBVIOUS
    <3> QED
      BY <2>5, <2>9, <2>12, <2>13, <2>14, <3>1, <3>2, DiffMeant
  <2>16. Known(c) \cup Ids(new) = S \cup {n + 1} /\ D' \ D = {n, n + 1}
    <3>1. Ids(new) = {n, n + 1}
      BY <1>1, <2>4, <2>7 DEF Ids
    <3>2. D' = 1..(n + 1)
      BY <2>4, <2>12, LenProperties DEF D
    <3>3. D' \ D = {n, n + 1}
      BY <1>1, <2>4, <3>2 DEF D
    <3> QED
      BY <3>1, <3>3 DEF S
  <2>17. ops'[n].by = Me(c)
    BY <2>3, <2>9, <2>13
  <2> QED
    BY <2>15, <2>16, <2>17 DEF Meant, Remade
<1> QED
  BY <1>2, <1>4, <1>5, <1>6

-----------------------------------------------------------------------------
(* The inductive invariant.                                                *)

\* Sessions are counted, and the next one has created nothing yet.
Bygone(c) == \A o \in D : ops[o].by[1] = c => ops[o].by[2] <= doc[c].session

Mirrors(c) ==
    Bound(c) /\ ~store[c].preview /\ "skipped" \notin strayed =>
        store[c].els = Visible(ops, Known(c))

Faithful(c) == Own(ops, Me(c), Known(c)) /\ Bygone(c) /\ Mirrors(c)

MInv == Shaped(ops) /\ \A c \in Clients : Faithful(c)

LEMMA StillMirrors ==
    ASSUME MInv, UNCHANGED <<ops, doc, store>>, strayed \subseteq strayed'
    PROVE  MInv'
BY DEF MInv, Faithful, Own, Bygone, Mirrors, Bound, Known, Me, D

\* One client's document or store changes, and what it creates is its own.
LEMMA OneMirrors ==
    ASSUME Typed, Typed', MInv, NEW c \in Clients,
           D \subseteq D', \A o \in D : ops'[o] = ops[o], Shaped(ops'),
           \A d \in Clients \ {c} : doc'[d] = doc[d] /\ store'[d] = store[d],
           \A o \in D' \ D : ops'[o].by = Me(c),
           strayed \subseteq strayed', Faithful(c)'
    PROVE  MInv'
<1> SUFFICES ASSUME NEW d \in Clients, d # c PROVE Faithful(d)'
  BY DEF MInv
<1>1. /\ doc'[d] = doc[d] /\ store'[d] = store[d] /\ Known(d)' = Known(d) /\ Me(d)' = Me(d)
      /\ Known(d) \in SUBSET (DOMAIN ops) /\ Logs(ops) /\ Logs(ops') /\ Shaped(ops) /\ Faithful(d)
  BY DEF Known, Me, Typed, D, MInv
<1>2. \A o \in D' \ D : ops'[o].by[1] = c /\ ops'[o].by # Me(d)
  BY DEF Me
<1>3. Own(ops', Me(d), Known(d))
  <2>1. \A o \in DOMAIN ops' : o \in DOMAIN ops \/ ops'[o].by # Me(d)
    BY <1>2 DEF D
  <2> QED
    BY <1>1, <2>1 DEF Own, Faithful, D
<1>4. Bygone(d)'
  <2>1. \A o \in D' : o \in D \/ ops'[o].by[1] # d
    BY <1>2
  <2> QED
    BY <1>1, <2>1 DEF Bygone, Faithful
<1>5. Mirrors(d)'
  <2>1. Bound(d)' <=> Bound(d)
    BY <1>1, BoundStays
  <2>2. Visible(ops', Known(d)) = Visible(ops, Known(d))
    BY <1>1, VisibleStays DEF D
  <2> QED
    BY <1>1, <2>1, <2>2 DEF Mirrors, Faithful
<1> QED
  BY <1>1, <1>3, <1>4, <1>5 DEF Faithful

\* The case that nothing is created.
LEMMA OneMirrorsOld ==
    ASSUME Typed, Typed', MInv, NEW c \in Clients, ops' = ops,
           \A d \in Clients \ {c} : doc'[d] = doc[d] /\ store'[d] = store[d],
           strayed \subseteq strayed', doc'[c].session = doc[c].session,
           Known(c) \subseteq Known(c)', Mirrors(c)'
    PROVE  MInv'
<1>1. D' = D /\ Shaped(ops') /\ Faithful(c) /\ Me(c)' = Me(c)
  BY DEF D, MInv, Me
<1>2. Own(ops', Me(c)', Known(c)')
  BY <1>1 DEF Own, Faithful
<1>3. Bygone(c)'
  BY <1>1 DEF Bygone, Faithful
<1>4. Faithful(c)'
  BY <1>2, <1>3 DEF Faithful
<1> QED
  BY <1>1, <1>4, OneMirrors

-----------------------------------------------------------------------------
(* The steps.                                                              *)

LEMMA ApplyMirrors ==
    ASSUME IInv, IInv', MInv, NEW c \in Clients, NEW set, NEW awaits, Apply(c, set, awaits),
           ops' = ops, strayed' = strayed
    PROVE  MInv'
<1> DEFINE now == Known(c) \cup set
           shows == /\ ~store[c].preview /\ HasState(ops, now)
                    /\ \/ Integrated(ops, now) # Integrated(ops, Known(c))
                       \/ Deleted(ops, now) # Deleted(ops, Known(c))
<1>1. /\ Typed /\ Typed' /\ doc \in [Clients -> Docs] /\ doc[c] \in Docs
      /\ store \in [Clients -> Stores] /\ store[c] \in Stores
  BY DEF IInv, Typed
<1>2. /\ doc' = [doc EXCEPT ![c].known = now, ![c].awaits = awaits, ![c].foreign = @ /\ ~shows]
      /\ store' = IF shows
                  THEN [store EXCEPT ![c].els = Visible(ops, now), ![c].of = doc[c].lineage,
                                     ![c].label = doc[c].lineage]
                  ELSE store
  BY DEF Apply
<1>3. shows => ~store[c].preview /\ HasState(ops, now)
  OBVIOUS
<1>4. ASSUME ~shows, ~store[c].preview, HasState(ops, now)
      PROVE  Visible(ops, now) = Visible(ops, Known(c)) /\ Bound(c)
  <2>1. Integrated(ops, now) = Integrated(ops, Known(c)) /\ Deleted(ops, now) = Deleted(ops, Known(c))
    BY <1>4
  <2> HIDE DEF now
  <2>2. Seeds(ops, now) = Seeds(ops, Known(c))
    BY <2>1 DEF Seeds
  <2>3. Bound(c) /\ Root(ops, now) = Root(ops, Known(c))
    BY <1>4, <2>2 DEF Bound, HasState, Root
  <2>4. Rooted(ops, now) = Rooted(ops, Known(c))
    BY <2>1, <2>3 DEF Rooted
  <2>5. Items(ops, now) = Items(ops, Known(c))
    BY <1>4, <2>1, <2>3, <2>4, ItemsAre DEF Bound
  <2> QED
    BY <2>3, <2>5 DEF Visible
<1> HIDE DEF shows
<1>5. /\ Known(c)' = now /\ doc'[c].session = doc[c].session
      /\ \A d \in Clients \ {c} : doc'[d] = doc[d] /\ store'[d] = store[d]
  BY <1>1, <1>2 DEF Docs, Known
<1>6. CASE shows
  <2>1. store'[c].els = Visible(ops, now)
    BY <1>1, <1>2, <1>6 DEF Stores
  <2>2. Mirrors(c)'
    BY <1>5, <2>1 DEF Mirrors
  <2> QED
    BY <1>1, <1>5, <2>2, OneMirrorsOld
<1>7. CASE ~shows
  <2>1. store' = store /\ Mirrors(c)
    BY <1>2, <1>7 DEF MInv, Faithful
  <2>2. Bound(c)' <=> HasState(ops, now)
    BY <1>5 DEF Bound
  <2>3. Mirrors(c)'
    BY <1>4, <1>5, <1>7, <2>1, <2>2 DEF Mirrors
  <2> QED
    BY <1>1, <1>5, <2>3, OneMirrorsOld
<1> QED
  BY <1>6, <1>7

LEMMA ReceiveMirrors ==
    ASSUME IInv, IInv', MInv, NEW c \in Clients, Receive(c)
    PROVE  MInv'
<1> DEFINE f == Head(inbox[c])
<1>1. ops' = ops /\ strayed' = strayed /\ Typed /\ Typed'
  BY DEF Receive, IInv
<1>2. \/ Apply(c, f.set, doc[c].awaits)
      \/ UNCHANGED <<doc, store>>
      \/ doc' = doc /\ store' = [store EXCEPT ![c].access = (f.t = "editor")]
  BY DEF Receive
<1> HIDE DEF f
<1>3. CASE Apply(c, f.set, doc[c].awaits)
  BY <1>1, <1>3, ApplyMirrors
<1>4. CASE UNCHANGED <<doc, store>>
  BY <1>1, <1>4, StillMirrors
<1>5. CASE doc' = doc /\ store' = [store EXCEPT ![c].access = (f.t = "editor")]
  <2>1. store \in [Clients -> Stores] /\ store[c] \in Stores
    BY <1>1 DEF Typed
  <2>2. /\ store'[c].els = store[c].els /\ store'[c].preview = store[c].preview
        /\ \A d \in Clients \ {c} : store'[d] = store[d]
    BY <1>5, <2>1 DEF Stores
  <2>3. Mirrors(c)' /\ Known(c) \subseteq Known(c)'
    BY <1>1, <1>5, <2>2 DEF MInv, Faithful, Mirrors, Bound, Known
  <2> QED
    BY <1>1, <1>5, <2>2, <2>3, OneMirrorsOld
<1> QED
  BY <1>2, <1>3, <1>4, <1>5

LEMMA LoadFailsMirrors ==
    ASSUME IInv, IInv', MInv, NEW c \in Clients, LoadFails(c)
    PROVE  MInv'
<1>1. PICK what \in {"frames", "file"} :
        /\ doc' = [doc EXCEPT ![c].awaits = Rest(c, what)]
        /\ UNCHANGED <<store, ops, strayed>>
  BY DEF LoadFails
<1>2. Typed /\ Typed' /\ doc \in [Clients -> Docs] /\ doc[c] \in Docs
  BY DEF IInv, Typed
<1>3. /\ doc'[c].known = doc[c].known /\ doc'[c].session = doc[c].session
      /\ \A d \in Clients \ {c} : doc'[d] = doc[d]
  BY <1>1, <1>2 DEF Docs
<1>4. Mirrors(c)' /\ Known(c) \subseteq Known(c)'
  BY <1>1, <1>3 DEF MInv, Faithful, Mirrors, Bound, Known
<1> QED
  BY <1>1, <1>2, <1>3, <1>4, OneMirrorsOld

LEMMA PreviewMirrors ==
    ASSUME IInv, IInv', MInv, NEW c \in Clients, EnterPreview(c) \/ ExitPreview(c)
    PROVE  MInv'
<1>1. Typed /\ Typed' /\ store \in [Clients -> Stores] /\ store[c] \in Stores
  BY DEF IInv, Typed
<1>2. UNCHANGED <<doc, ops>> /\ strayed \subseteq strayed'
  BY DEF EnterPreview, ExitPreview
<1>3. \A d \in Clients \ {c} : store'[d] = store[d]
  BY <1>1 DEF EnterPreview, ExitPreview
<1>4. Mirrors(c)'
  <2>1. CASE EnterPreview(c)
    <3>1. store'[c].preview
      BY <1>1, <2>1 DEF EnterPreview, Stores
    <3> QED
      BY <3>1 DEF Mirrors
  <2>2. CASE ExitPreview(c)
    <3>1. Bound(c) => store'[c].els = Visible(ops, Known(c))
      BY <1>1, <2>2 DEF ExitPreview, Stores
    <3> QED
      BY <1>2, <3>1 DEF Mirrors, Bound, Known
  <2> QED
    BY <2>1, <2>2
<1>5. Known(c) \subseteq Known(c)' /\ doc'[c].session = doc[c].session
  BY <1>2 DEF Known
<1> QED
  BY <1>1, <1>2, <1>3, <1>4, <1>5, OneMirrorsOld

\* A binding set up anew has a session of its own.
LEMMA BindMirrors ==
    ASSUME IInv, IInv', MInv, NEW c \in Clients, NEW l, NEW st, NEW awaits,
           Bind(c, l, st, awaits), strayed \subseteq strayed'
    PROVE  MInv'
<1>1. /\ Typed /\ Typed' /\ doc \in [Clients -> Docs] /\ doc[c] \in Docs
      /\ store \in [Clients -> Stores] /\ Logs(ops) /\ Faithful(c)
  BY DEF IInv, Typed, MInv
<1>2. /\ Known(c)' = {} /\ doc'[c].session = doc[c].session + 1 /\ doc[c].session \in Nat
      /\ \A d \in Clients \ {c} : doc'[d] = doc[d] /\ store'[d] = store[d]
      /\ UNCHANGED ops
  BY <1>1 DEF Bind, Docs, Known
<1>3. \A o \in D : ops[o].by \in Clients \X Nat
  BY <1>1, OpFacts DEF D
<1>4. ASSUME NEW o \in D, ops[o].by[1] = c
      PROVE  ops[o].by[2] <= doc'[c].session /\ ops[o].by # Me(c)'
  <2>1. ops[o].by[2] \in Nat /\ ops[o].by[2] <= doc[c].session
    BY <1>1, <1>3, <1>4 DEF Faithful, Bygone
  <2>2. ops[o].by[2] # doc'[c].session
    BY <1>2, <2>1
  <2> QED
    BY <1>2, <2>1, <2>2 DEF Me
<1>5. \A o \in D : ops[o].by # Me(c)'
  <2>1. Me(c)'[1] = c
    BY DEF Me
  <2> QED
    BY <1>4, <2>1
<1>6. Own(ops', Me(c)', Known(c)') /\ Bygone(c)'
  BY <1>2, <1>4, <1>5 DEF Own, Bygone, D
<1>7. ~Bound(c)'
  BY <1>2 DEF Bound, HasState, Seeds, Integrated
<1>8. Faithful(c)'
  BY <1>6, <1>7 DEF Faithful, Mirrors
<1> QED
  BY <1>1, <1>2, <1>8, OneMirrors DEF MInv, D

\* What a client creates of els, and its store's holding els, keep them alike.
LEMMA CreateMirrors ==
    ASSUME IInv, IInv', MInv, NEW c \in Clients, NEW els \in SUBSET Nat, NEW of \in Lineages,
           NEW edit \in BOOLEAN, NEW rank \in Ranks,
           NEW new, new = Reconciled(c, els, of, edit, rank), ops' = ops \o new,
           Known(c)' = Known(c) \cup Ids(new), doc'[c].session = doc[c].session,
           store'[c].els = els,
           \A d \in Clients \ {c} : doc'[d] = doc[d] /\ store'[d] = store[d],
           strayed \subseteq strayed'
    PROVE  MInv'
<1>1. Typed /\ Typed' /\ Shaped(ops) /\ Faithful(c) /\ Me(c)' = Me(c)
  BY DEF IInv, MInv, Me
<1>2. /\ Shaped(ops') /\ Own(ops', Me(c), Known(c)')
      /\ \A o \in D' \ D : ops'[o].by = Me(c)
      /\ HasState(ops', Known(c)') => Visible(ops', Known(c)') = els
  <2>1. Own(ops, Me(c), Known(c))
    BY <1>1 DEF Faithful
  <2>2. Remade(c, new, els)
    BY <1>1, <2>1, ReconciledMeant
  <2> QED
    BY <2>2 DEF Remade
<1>3. D \subseteq D' /\ \A o \in D : ops'[o] = ops[o]
  <2>1. /\ new \in Seq(Ops) /\ Len(new) \in 0..2
        /\ \A i \in 1..Len(new) : new[i].rank <= Len(ops) + i
    <3>1. /\ Reconciled(c, els, of, edit, rank) \in Seq(Ops)
          /\ Len(Reconciled(c, els, of, edit, rank)) \in 0..2
          /\ \A i \in 1..Len(Reconciled(c, els, of, edit, rank)) :
                Reconciled(c, els, of, edit, rank)[i].rank <= Len(ops) + i
      BY ONLY c \in Clients, els \in SUBSET Nat, of \in Lineages, edit \in BOOLEAN,
              rank \in Ranks, <1>1, ReconciledType
    <3> QED
      BY ONLY new = Reconciled(c, els, of, edit, rank), <3>1
  <2>2. Made(new)
    BY ONLY <2>1 DEF Made
  <2> QED
    BY <1>1, <2>2, LogGrows
<1>4. Bygone(c)'
  <2>1. \A o \in D' \ D : ops'[o].by = Me(c)
    BY <1>2
  <2>2. doc[c].session \in Nat /\ Me(c)[2] = doc[c].session
    BY <1>1 DEF Typed, Docs, Me
  <2>3. ASSUME NEW o \in D', ops'[o].by[1] = c PROVE ops'[o].by[2] <= doc'[c].session
    <3>1. CASE o \in D
      BY <1>1, <1>3, <2>3, <3>1 DEF Bygone, Faithful
    <3>2. CASE o \notin D
      <4>1. ops'[o].by = Me(c)
        BY <2>1, <3>2
      <4> QED
        BY <2>2, <4>1
    <3> QED
      BY <3>1, <3>2
  <2> QED
    BY <2>3 DEF Bygone
<1>5. Mirrors(c)'
  BY <1>2 DEF Mirrors, Bound
<1>6. Faithful(c)'
  BY <1>1, <1>2, <1>4, <1>5 DEF Faithful
<1> QED
  BY <1>1, <1>2, <1>3, <1>6, OneMirrors

LEMMA BumpMirrors ==
    ASSUME IInv, IInv', MInv, NEW c \in Clients, NEW els \in SUBSET Nat, NEW edit \in BOOLEAN,
           Bump(c, els, edit)
    PROVE  MInv'
<1>0. /\ Typed /\ doc \in [Clients -> Docs] /\ doc[c] \in Docs
      /\ store \in [Clients -> Stores] /\ store[c] \in Stores /\ edits \in Nat
      /\ store[c].els \in SUBSET Nat /\ store[c].of \in Lineages
  BY DEF IInv, Typed, Stores
<1>1. PICK rank \in Ranks :
        LET new == Reconciled(c, els, store[c].of, edit, rank) IN
        /\ Create(c, new)
        /\ doc' = [doc EXCEPT ![c].known = @ \cup Ids(new)]
        /\ store' = [store EXCEPT ![c].els = els]
        /\ UNCHANGED <<link, role, fork, file, strayed>>
  BY DEF Bump
<1>3. PICK new : new = Reconciled(c, els, store[c].of, edit, rank)
  OBVIOUS
<1>5. /\ Create(c, new)
      /\ doc' = [doc EXCEPT ![c].known = @ \cup Ids(new)]
      /\ store' = [store EXCEPT ![c].els = els]
      /\ strayed' = strayed
  BY <1>1, <1>3
<1>6. ops' = ops \o new
  BY <1>5 DEF Create
<1>7. /\ Known(c)' = Known(c) \cup Ids(new) /\ doc'[c].session = doc[c].session
      /\ store'[c].els = els
      /\ \A d \in Clients \ {c} : doc'[d] = doc[d] /\ store'[d] = store[d]
  BY <1>0, <1>5 DEF Docs, Stores, Known
<1> QED
  BY <1>0, <1>3, <1>5, <1>6, <1>7, CreateMirrors

LEMMA EditMirrors ==
    ASSUME IInv, IInv', MInv, NEW c \in Clients, Edit(c) \/ TurnPage(c)
    PROVE  MInv'
<1>1. store[c].els \in SUBSET Nat /\ edits \in Nat
  BY DEF IInv, Typed, Stores
<1>2. CASE Edit(c)
  <2>1. PICK els \in {store[c].els \cup {edits + 1}} \cup {store[c].els \ {e} : e \in store[c].els} :
          Bump(c, els, TRUE)
    BY <1>2 DEF Edit
  <2>2. els \in SUBSET Nat
    BY <1>1
  <2> QED
    BY <2>1, <2>2, BumpMirrors
<1>3. CASE TurnPage(c)
  BY <1>1, <1>3, BumpMirrors DEF TurnPage
<1> QED
  BY <1>2, <1>3

LEMMA FileLoadsMirrors ==
    ASSUME IInv, IInv', MInv, NEW c \in Clients, FileLoads(c)
    PROVE  MInv'
<1>0. /\ Typed /\ Typed' /\ doc \in [Clients -> Docs] /\ doc[c] \in Docs
      /\ store \in [Clients -> Stores] /\ store[c] \in Stores
      /\ file.els \in SUBSET Nat /\ file.of \in Lineages
  BY DEF IInv, Typed
<1>1. PICK rank \in Ranks :
        LET new == IF store[c].preview THEN << >>
                   ELSE Reconciled(c, file.els, file.of, FALSE, rank)
            skipped == store[c].preview /\ Bound(c) /\ file.els # Visible(ops, Known(c))
        IN /\ Create(c, new)
           /\ doc' = [doc EXCEPT ![c].known = @ \cup Ids(new), ![c].foreign = FALSE,
                                 ![c].awaits = Rest(c, "file")]
           /\ store' = [store EXCEPT ![c].els = file.els, ![c].of = file.of, ![c].label = "main",
                                     ![c].preview = FALSE]
           /\ strayed' = strayed \cup {s \in {"skipped"} : skipped}
  BY DEF FileLoads
<1>2. PICK new : new = IF store[c].preview THEN << >>
                       ELSE Reconciled(c, file.els, file.of, FALSE, rank)
  OBVIOUS
<1>3. /\ Create(c, new)
      /\ doc' = [doc EXCEPT ![c].known = @ \cup Ids(new), ![c].foreign = FALSE,
                            ![c].awaits = Rest(c, "file")]
      /\ store' = [store EXCEPT ![c].els = file.els, ![c].of = file.of, ![c].label = "main",
                                ![c].preview = FALSE]
      /\ strayed \subseteq strayed'
      /\ store[c].preview /\ Bound(c) /\ file.els # Visible(ops, Known(c)) => "skipped" \in strayed'
  BY <1>1, <1>2
<1>4. /\ Known(c)' = Known(c) \cup Ids(new) /\ doc'[c].session = doc[c].session
      /\ store'[c].els = file.els
      /\ \A d \in Clients \ {c} : doc'[d] = doc[d] /\ store'[d] = store[d]
      /\ ops' = ops \o new
  BY <1>0, <1>3 DEF Docs, Stores, Known, Create
<1>5. CASE store[c].preview
  <2>1. ops' = ops /\ Known(c)' = Known(c)
    <3>1. new = << >> /\ ops \in Seq(Ops) /\ Len(ops) \in Nat
      BY <1>0, <1>2, <1>5, LogFacts DEF Typed, Logs
    <3>2. Ids(new) = {}
      BY <3>1 DEF Ids
    <3> QED
      BY <1>4, <3>1, <3>2, ConcatEmptySeq
  <2>2. Mirrors(c)'
    BY <1>3, <1>4, <1>5, <2>1 DEF Mirrors, Bound
  <2> QED
    BY <1>0, <1>3, <1>4, <2>1, <2>2, OneMirrorsOld
<1>6. CASE ~store[c].preview
  <2>1. PICK edit \in BOOLEAN : edit = FALSE
    OBVIOUS
  <2>2. new = Reconciled(c, file.els, file.of, FALSE, rank)
    BY <1>2, <1>6
  <2>3. new = Reconciled(c, file.els, file.of, edit, rank)
    BY ONLY <2>1, <2>2, Zenon
  <2> QED
    BY <1>0, <1>3, <1>4, <2>3, CreateMirrors
<1> QED
  BY <1>5, <1>6

-----------------------------------------------------------------------------
(* What follows.                                                           *)

LEMMA InitMirrors == Init => MInv
<1> SUFFICES ASSUME Init PROVE MInv
  OBVIOUS
<1>1. D = {} /\ \A c \in Clients : Known(c) = {}
  BY DEF Init, D, Known
<1>2. \A c \in Clients : ~Bound(c)
  BY <1>1 DEF Bound, HasState, Seeds, Integrated
<1> QED
  BY <1>1, <1>2 DEF MInv, Shaped, Faithful, Own, Bygone, Mirrors, D

LEMMA NextMirrors == IInv /\ IInv' /\ MInv /\ [Next]_vars => MInv'
<1> SUFFICES ASSUME IInv, IInv', MInv, [Next]_vars PROVE MInv'
  OBVIOUS
<1>1. ASSUME NEW c \in Clients, ClientNext(c) PROVE MInv'
  <2>1. CASE Connect(c) \/ Noticed(c)
    BY <2>1, StillMirrors DEF Connect, Noticed, bounds
  <2>2. CASE IdbLoads(c)
    BY <2>2, ApplyMirrors DEF IdbLoads, Arrival
  <2>3. CASE FramesLoad(c)
    <3>1. PICK page, awaits : Apply(c, page, awaits) /\ Arrival
      BY <2>3 DEF FramesLoad
    <3> QED
      BY <3>1, ApplyMirrors DEF Arrival
  <2> QED
    BY <1>1, <2>1, <2>2, <2>3, ReceiveMirrors, FileLoadsMirrors DEF ClientNext
<1>2. ASSUME NEW c \in Clients, UserNext(c) PROVE MInv'
  <2>1. CASE Save(c) \/ Fork(c)
    BY <2>1, StillMirrors DEF Save, Fork, clientVars, bounds
  <2>2. CASE SwitchBranch(c)
    BY <2>2, BindMirrors DEF SwitchBranch
  <2>3. CASE OpenPage(c)
    BY <2>3, BindMirrors DEF OpenPage
  <2> QED
    BY <1>2, <2>1, <2>2, <2>3, EditMirrors, PreviewMirrors DEF UserNext
<1>3. ASSUME NEW c \in Clients, Breaks(c) PROVE MInv'
  BY <1>3, StillMirrors DEF Breaks
<1>4. ASSUME NEW c \in Clients, NEW r \in Roles, RefreshRole(c, r) PROVE MInv'
  BY <1>4, StillMirrors DEF RefreshRole
<1>5. CASE UNCHANGED vars
  BY <1>5, StillMirrors DEF vars
<1> QED
  BY <1>1, <1>2, <1>3, <1>4, <1>5, LoadFailsMirrors DEF Next

\* With state in its Y.Doc, a client's editor shows exactly what the Y.Doc
\* holds, whatever edits, frames, loads, switches, previews and losses cross,
\* for any number of clients (applyToStore, subscribeStore and
\* resyncFromLiveDoc of ydoc.ts); but for a reload that ends a preview.
THEOREM EditorShowsItsDocument == Spec => []StoreMirrors
<1>1. Init => MInv
  BY InitMirrors
<1>2. IInv /\ IInv' /\ MInv /\ [Next]_vars => MInv'
  BY NextMirrors
<1>3. MInv => StoreMirrors
  BY DEF MInv, Faithful, Mirrors, StoreMirrors
<1> QED
  BY <1>1, <1>2, <1>3, Inductive, PTL DEF Spec
=============================================================================
