----------------------------- MODULE DesignSync -----------------------------
(***************************************************************************)
(* Live collaboration on one design of HyCanvas: each client binds a Y.Doc *)
(* to its editor store (ydoc.ts), carries Yjs sync over a socket           *)
(* (realtime.ts) and rebinds when the user switches between the main       *)
(* lineage and a branch (useRealtime.ts); the hub relays the frames of     *)
(* editors and journals their updates (hub.go).  A document is the set of  *)
(* the transactions it has received; what is visible of it follows from    *)
(* the rules of Yjs: a transaction waits for the earlier ones of its       *)
(* session, and of several seeds of the same root the last writer's wins.  *)
(***************************************************************************)
EXTENDS Integers, Sequences, FiniteSets

CONSTANTS Clients,
          MaxEdits,     \* elements the users add or delete, and pages they turn
          Movers,       \* clients that change the lineage, preview, open or turn the page
          MaxMoves,     \* such moves, broken connections, failing requests and
                        \* changes of role
          Buffer,       \* frames the hub keeps for a slow client (64)
          Watched       \* the transactions that NewcomerCatchesUp is about

Lineages == {"main", "branch"}
Roles == {"editor", "viewer"}

ASSUME BoundsAssumption ==
    /\ MaxEdits \in Nat /\ MaxMoves \in Nat /\ Movers \subseteq Clients
    /\ Buffer \in Nat \ {0} /\ Watched \subseteq Nat

VARIABLES
    ops,       \* every transaction, in the order of creation
    doc,       \* the bound DesignDoc of a client
    store,     \* its editor store
    link,      \* its socket; a "dying" one is dead without the client knowing
    inbox,     \* what the hub has for it
    role,      \* its role on the design
    idb,       \* its IndexedDB, per lineage
    journal,   \* the design's update log, per lineage
    fork,      \* what of main's log the branch starts from
    file,      \* main's current file
    edits, moves,  \* what has been used of the bounds
    strayed    \* history: the unguarded moments that have occurred

clientVars == <<doc, store, link, inbox, idb>>
logVars == <<journal, fork>>
bounds == <<edits, moves>>
vars == <<ops, doc, store, link, inbox, role, idb, journal, fork, file,
          edits, moves, strayed>>
-----------------------------------------------------------------------------
(* Yjs.                                                                    *)

Integrated(log, S) == {o \in S : log[o].needs \subseteq S}
Seeds(log, S) == {o \in Integrated(log, S) : log[o].base = 0}
HasState(log, S) == Seeds(log, S) # {}

\* The root's keys are last-writer-wins: one seed's content shows.
Root(log, S) ==
    CHOOSE w \in Seeds(log, S) : \A o \in Seeds(log, S) : log[o].rank <= log[w].rank

Deleted(log, S) == UNION {log[o].dels : o \in S}

Items(log, S) ==
    IF ~HasState(log, S) THEN {}
    ELSE (UNION {{o} \X log[o].adds :
                 o \in {p \in Integrated(log, S) : Root(log, S) \in {p, log[p].base}}})
         \ Deleted(log, S)

Visible(log, S) == {i[2] : i \in Items(log, S)}

\* The struct store of a session is gapless, and an item needs its parent.
Needs(log, me, base) ==
    LET direct == {o \in DOMAIN log : log[o].by = me /\ (log[o].base = 0 \/ log[o].adds # {})}
                  \cup ({base} \ {0})
    IN direct \cup UNION {log[o].needs : o \in direct}
-----------------------------------------------------------------------------
(* The reconciler.                                                         *)

Me(c) == <<c, doc[c].session>>

Seed(c, els, of, rank) ==
    [by |-> Me(c), home |-> doc[c].lineage, from |-> of, base |-> 0, rank |-> rank,
     adds |-> els, dels |-> {}, needs |-> {}]

Diff(log, S, c, els, of) ==
    LET root == Root(log, S)
        adds == els \ Visible(log, S)
    IN [by |-> Me(c), home |-> doc[c].lineage, from |-> of, base |-> root, rank |-> 0,
        adds |-> adds, dels |-> {i \in Items(log, S) : i[2] \notin els},
        needs |-> IF adds = {} THEN {} ELSE Needs(log, Me(c), root)]

\* Which of two seeds is the last writer's is up to the clients' random ids; a
\* third one wins over both or over none.
Ranks == {Len(ops) + 1}
         \cup {r \in {-Len(ops)} : \E o \in DOMAIN ops : ops[o].base = 0}

Known(c) == doc[c].known
Bound(c) == HasState(ops, Known(c))

\* The store's subscriber, when the store has come to hold els, of lineage
\* `of`: an edit seeds an empty Y.Doc with what was there before it.
Reconciled(c, els, of, edit, rank) ==
    IF Bound(c)
    THEN IF els = Visible(ops, Known(c)) THEN <<>> ELSE <<Diff(ops, Known(c), c, els, of)>>
    ELSE IF doc[c].foreign THEN <<>>
    ELSE IF ~edit THEN <<Seed(c, els, of, rank)>>
    ELSE LET seed == Seed(c, store[c].els, of, rank)
             log == Append(ops, seed)
         IN <<seed, Diff(log, Known(c) \cup {Len(log)}, c, els, of)>>
-----------------------------------------------------------------------------
(* The hub.                                                                *)

Frame(t, c, set) == [t |-> t, from |-> c, set |-> set]

\* mutant: a slow client's frames pile up.
OfferUnbounded(box, frames) == box \o frames

\* A full buffer drops the frame.
Offer(box, frames) ==
    LET all == box \o frames IN SubSeq(all, 1, IF Len(all) < Buffer THEN Len(all) ELSE Buffer)

Room(l) == {c \in Clients : link[c] = "up" /\ doc[c].lineage = l}

HandleSync(boxes, c, frames) ==
    [d \in Clients |-> IF role[c] = "editor" /\ d \in Room(doc[c].lineage) \ {c}
                       THEN Offer(boxes[d], frames) ELSE boxes[d]]

sendSync(boxes, c, frames) == IF link[c] = "up" THEN HandleSync(boxes, c, frames) ELSE boxes

sendSyncStep1(boxes, c) == HandleSync(boxes, c, <<Frame("step1", c, Integrated(ops, Known(c)))>>)

Moving == moves < MaxMoves /\ moves' = moves + 1

Ids(new) == Len(ops) + 1 .. Len(ops) + Len(new)

\* The transactions `new` of client c come into being.  Its update handlers
\* send them; the hub logs what it relays, behind the broadcast, if it can.
Create(c, new) ==
    LET frames == [i \in 1..Len(new) |-> Frame("ops", c, {Len(ops) + i})]
        relayed == link[c] = "up" /\ role[c] = "editor"
    IN
    /\ ops' = ops \o new
    /\ inbox' = sendSync(inbox, c, frames)
    /\ \/ ~relayed /\ UNCHANGED <<journal, moves>>
       \/ /\ relayed /\ UNCHANGED moves
          /\ journal' = [journal EXCEPT ![doc[c].lineage] = @ \cup Ids(new)]
       \/ relayed /\ new # <<>> /\ Moving /\ UNCHANGED journal
    /\ idb' = [idb EXCEPT ![c][doc[c].lineage] = @ \cup Known(c) \cup Ids(new)]

\* RefreshRoles: the connections learn of it if their buffer has room.
RefreshRole(c, r) ==
    /\ role[c] # r /\ role' = [role EXCEPT ![c] = r] /\ Moving
    /\ inbox' = [inbox EXCEPT ![c] = IF link[c] = "up" THEN Offer(@, <<Frame(r, c, {})>>) ELSE @]
    /\ UNCHANGED <<doc, store, link, idb, ops, logVars, file, edits, strayed>>
-----------------------------------------------------------------------------
(* What reaches a client.                                                  *)

\* applyToStore runs on an update that changes the Y.Doc, unless a past
\* version is being previewed.
Apply(c, set, awaits) ==
    LET now == Known(c) \cup set
        shows == /\ ~store[c].preview /\ HasState(ops, now)
                 /\ \/ Integrated(ops, now) # Integrated(ops, Known(c))
                    \/ Deleted(ops, now) # Deleted(ops, Known(c))
    IN
    /\ doc' = [doc EXCEPT ![c].known = now, ![c].awaits = awaits, ![c].foreign = @ /\ ~shows]
    /\ store' = IF shows
                THEN [store EXCEPT ![c].els = Visible(ops, now), ![c].of = doc[c].lineage,
                                   ![c].label = doc[c].lineage]
                ELSE store
    /\ idb' = [idb EXCEPT ![c][doc[c].lineage] = @ \cup now]

\* mutant: the difference taken the wrong way round.
Step2Swapped(c, f) == <<Frame("ops", c, f.set \ Known(c))>>

\* readSyncMessage answers a state vector with what its sender lacks.
Step2(c, f) == <<Frame("ops", c, Known(c) \ f.set)>>

\* onFrame: an update or step 2, a peer's step 1, or a change of role.
Receive(c) ==
    LET f == Head(inbox[c])
        rest == [inbox EXCEPT ![c] = Tail(@)]
    IN
    /\ link[c] = "up" /\ inbox[c] # <<>>
    /\ \/ f.t = "ops" /\ Apply(c, f.set, doc[c].awaits) /\ inbox' = rest
       \/ /\ f.t = "step1" /\ UNCHANGED <<doc, store, idb>>
          /\ inbox' = HandleSync(rest, c, Step2(c, f))
       \/ /\ f.t \in Roles /\ UNCHANGED <<doc, idb>>
          /\ store' = [store EXCEPT ![c].access = (f.t = "editor")]
          /\ inbox' = IF f.t = "editor" THEN sendSyncStep1(rest, c) ELSE rest
    /\ UNCHANGED <<ops, link, role, logVars, file, bounds, strayed>>

\* The socket opens, and onopen sends step 1.
Connect(c) ==
    /\ link[c] = "down" /\ link' = [link EXCEPT ![c] = "up"]
    /\ inbox' = sendSyncStep1(inbox, c)
    /\ UNCHANGED <<doc, store, idb, ops, role, logVars, file, bounds, strayed>>

Breaks(c) ==
    /\ link[c] = "up" /\ link' = [link EXCEPT ![c] = "dying"] /\ Moving
    /\ inbox' = [inbox EXCEPT ![c] = <<>>]
    /\ UNCHANGED <<doc, store, idb, ops, role, logVars, file, edits, strayed>>

Noticed(c) ==
    /\ link[c] = "dying" /\ link' = [link EXCEPT ![c] = "down"]
    /\ UNCHANGED <<doc, store, inbox, idb, ops, role, logVars, file, bounds, strayed>>

\* What was asked for when the document was bound.
Awaited(c, what) == what \in doc[c].awaits
Rest(c, what) == doc[c].awaits \ {what}
Arrival == UNCHANGED <<ops, link, inbox, role, logVars, file, bounds, strayed>>

IdbLoads(c) ==
    Awaited(c, "idb") /\ Apply(c, idb[c][doc[c].lineage], Rest(c, "idb")) /\ Arrival

\* applyJournalFrames: the branch's own updates behind the prefix it forked.
\* They come a page at a time, and a later page may fail (LoadFails).
FramesLoad(c) ==
    \E last \in 0..Len(ops) :
      LET log == fork \cup journal["branch"]
          page == {o \in log : o <= last}
      IN
      /\ Awaited(c, "frames")
      /\ Apply(c, page, IF page = log THEN Rest(c, "frames") ELSE doc[c].awaits)
      /\ Arrival

\* Main's file is loaded into the store behind a branch, and adoptStore
\* follows.  A preview that is ended by this keeps the subscriber from
\* reconciling.
FileLoads(c) ==
    \E rank \in Ranks :
      LET new == IF store[c].preview THEN <<>>
                 ELSE Reconciled(c, file.els, file.of, FALSE, rank)
          skipped == store[c].preview /\ Bound(c) /\ file.els # Visible(ops, Known(c))
      IN
      /\ Awaited(c, "file")
      /\ Create(c, new)
      /\ doc' = [doc EXCEPT ![c].known = @ \cup Ids(new), ![c].foreign = FALSE,
                            ![c].awaits = Rest(c, "file")]
      /\ store' = [store EXCEPT ![c].els = file.els, ![c].of = file.of, ![c].label = "main",
                                ![c].preview = FALSE]
      /\ strayed' = strayed \cup {s \in {"skipped"} : skipped}
      /\ UNCHANGED <<link, role, fork, file, edits>>

LoadFails(c) ==
    \E what \in {"frames", "file"} :
      /\ Awaited(c, what) /\ Moving
      /\ doc' = [doc EXCEPT ![c].awaits = Rest(c, what)]
      /\ UNCHANGED <<store, link, inbox, idb, ops, role, logVars, file, edits, strayed>>
-----------------------------------------------------------------------------
(* The user.                                                               *)

\* The revision of the store goes up, and the subscriber runs.
Bump(c, els, edit) ==
    \E rank \in Ranks :
      LET new == Reconciled(c, els, store[c].of, edit, rank) IN
      /\ ~store[c].preview /\ edits < MaxEdits /\ edits' = edits + 1
      /\ Create(c, new)
      /\ doc' = [doc EXCEPT ![c].known = @ \cup Ids(new)]
      /\ store' = [store EXCEPT ![c].els = els]
      /\ UNCHANGED <<link, role, fork, file, strayed>>

Edit(c) ==
    \E els \in {store[c].els \cup {edits + 1}} \cup {store[c].els \ {e} : e \in store[c].els} :
      store[c].access /\ Bump(c, els, TRUE)

\* setActivePage bumps the revision too, also that of one who may not edit.
\* (A turn that the Y.Doc does not notice is left out.)
TurnPage(c) == Bump(c, store[c].els, FALSE) /\ doc' # doc

\* Save, or an automatic snapshot: what the Y.Doc shows, and the store's
\* document as long as there is no such thing.
Save(c) ==
    /\ doc[c].lineage = "main" /\ store[c].access /\ ~store[c].preview /\ role[c] = "editor"
    /\ file' = IF Bound(c) THEN [els |-> Visible(ops, Known(c)), of |-> "main"]
               ELSE [els |-> store[c].els, of |-> store[c].of]
    /\ strayed' = strayed \cup {s \in {"saved"} : ~Bound(c) /\ doc[c].foreign}
    /\ UNCHANGED <<clientVars, ops, role, logVars, bounds>>

\* createCrdtBranch, at the head of what main's log shows.
Fork(c) ==
    /\ doc[c].lineage = "main" /\ fork = {} /\ fork' = journal["main"]
    /\ UNCHANGED <<clientVars, ops, role, journal, file, bounds, strayed>>

\* mutant: only a branch is guarded against the store.
ForeignBranch(st, l) == l = "branch" /\ st.label # l

\* storeIsForeign: the store holds, as far as is known, another lineage.
Foreign(st, l) == st.label # l

\* The binding of client c is torn down, and another one set up.
Bind(c, l, st, awaits) ==
    /\ doc' = [doc EXCEPT ![c] = [lineage |-> l, known |-> {}, session |-> @.session + 1,
                                  foreign |-> Foreign(st, l), awaits |-> awaits]]
    /\ store' = [store EXCEPT ![c] = st]
    /\ link' = [link EXCEPT ![c] = "down"] /\ inbox' = [inbox EXCEPT ![c] = <<>>]
    /\ UNCHANGED <<ops, role, idb, logVars, file, edits>>

\* switchBranch ends a preview before it sets the branch.
SwitchBranch(c) ==
    \E l \in Lineages \ {doc[c].lineage} :
      /\ l = "branch" => fork # {}
      /\ Moving
      /\ Bind(c, l, [store[c] EXCEPT !.preview = FALSE],
              {"idb", IF l = "branch" THEN "frames" ELSE "file"})
      /\ UNCHANGED strayed

\* Opening the page: main's file is in the store before the document is bound.
\* Only a full reload forgets storeLineage; coming back from another page of
\* the application does not.
OpenPage(c) ==
    \E label \in {"main", store[c].label} :
      /\ Moving
      /\ Bind(c, "main", [els |-> file.els, of |-> file.of, label |-> label, preview |-> FALSE,
                          access |-> (role[c] = "editor")], {"idb"})
      /\ strayed' = strayed \cup {s \in {"unlabelled"} : label # "main"}

\* While a past version is shown, store[c].els is what enterPreview has set aside.
EnterPreview(c) ==
    /\ ~store[c].preview /\ Moving
    /\ store' = [store EXCEPT ![c].preview = TRUE]
    /\ UNCHANGED <<doc, link, inbox, idb, ops, role, logVars, file, edits, strayed>>

\* mutant: exitPreview without resyncFromLiveDoc.
ExitPreviewStash(c) ==
    /\ store[c].preview /\ store' = [store EXCEPT ![c].preview = FALSE]
    /\ UNCHANGED <<doc, link, inbox, idb, ops, role, logVars, file, bounds, strayed>>

\* exitPreview, and resyncFromLiveDoc, which does not tell storeLineage.
ExitPreview(c) ==
    /\ store[c].preview
    /\ store' = [store EXCEPT ![c].preview = FALSE,
                              ![c].els = IF Bound(c) THEN Visible(ops, Known(c)) ELSE @,
                              ![c].of = IF Bound(c) THEN doc[c].lineage ELSE @]
    /\ strayed' = strayed \cup {s \in {"unlabelled"} : Bound(c) /\ Foreign(store[c], doc[c].lineage)}
    /\ UNCHANGED <<doc, link, inbox, idb, ops, role, logVars, file, bounds>>
-----------------------------------------------------------------------------
Init ==
    /\ ops = <<>>
    /\ doc = [c \in Clients |-> [lineage |-> "main", known |-> {}, session |-> 0,
                                 foreign |-> FALSE, awaits |-> {}]]
    /\ store = [c \in Clients |-> [els |-> {}, of |-> "main", label |-> "main",
                                   preview |-> FALSE, access |-> TRUE]]
    /\ link = [c \in Clients |-> "up"] /\ inbox = [c \in Clients |-> <<>>]
    /\ role = [c \in Clients |-> "editor"]
    /\ idb = [c \in Clients |-> [l \in Lineages |-> {}]]
    /\ journal = [l \in Lineages |-> {}] /\ fork = {}
    /\ file = [els |-> {}, of |-> "main"]
    /\ edits = 0 /\ moves = 0 /\ strayed = {}

ClientNext(c) ==
    \/ Receive(c) \/ Connect(c) \/ Noticed(c)
    \/ IdbLoads(c) \/ FramesLoad(c) \/ FileLoads(c)

UserNext(c) ==
    \/ Edit(c) \/ Save(c) \/ Fork(c) \/ ExitPreview(c)
    \/ c \in Movers /\ (TurnPage(c) \/ SwitchBranch(c) \/ OpenPage(c) \/ EnterPreview(c))

Next ==
    \/ \E c \in Clients : ClientNext(c) \/ UserNext(c) \/ Breaks(c) \/ LoadFails(c)
                          \/ \E r \in Roles : RefreshRole(c, r)

Spec == Init /\ [][Next]_vars /\ \A c \in Clients : WF_vars(Receive(c))
-----------------------------------------------------------------------------
Docs == [lineage : Lineages, known : SUBSET Nat, session : Nat, foreign : BOOLEAN,
         awaits : SUBSET {"idb", "frames", "file"}]
Stores == [els : SUBSET Nat, of : Lineages, label : Lineages, preview : BOOLEAN, access : BOOLEAN]
Frames == [t : {"ops", "step1"} \cup Roles, from : Clients, set : SUBSET Nat]
Ops == [by : Clients \X Nat, home : Lineages, from : Lineages, base : Nat, rank : Int,
        adds : SUBSET Nat, dels : SUBSET (Nat \X Nat), needs : SUBSET Nat]

\* The types, and the bound the hub keeps on what waits for a client.
TypeOK ==
    /\ ops \in Seq(Ops)
    /\ doc \in [Clients -> Docs] /\ store \in [Clients -> Stores]
    /\ link \in [Clients -> {"up", "dying", "down"}]
    /\ inbox \in [Clients -> Seq(Frames)] /\ \A c \in Clients : Len(inbox[c]) <= Buffer
    /\ role \in [Clients -> Roles]
    /\ idb \in [Clients -> [Lineages -> SUBSET Nat]]
    /\ journal \in [Lineages -> SUBSET Nat]
    /\ fork \subseteq Nat
    /\ file \in [els : SUBSET Nat, of : Lineages]
    /\ edits \in Nat /\ moves \in Nat
    /\ strayed \subseteq {"saved", "unlabelled", "skipped"}

\* What the store holds of one lineage never enters the Y.Doc of another, nor
\* main's file: no seed, diff or snapshot mixes them, in whatever order
\* switches, loads, frames, edits, page turns and previews come.  (What
\* foreignStore, adoptStore and applyJournalFrames are for.)  Two moments are
\* outside of what they guard: a save behind a switch that has not completed,
\* and a storeLineage that is wrong, because a resync does not tell it or
\* because main's file was loaded on the way back from another page.
LineagesApart ==
    strayed \cap {"saved", "unlabelled"} = {} =>
        /\ \A o \in DOMAIN ops : ops[o].from = ops[o].home
        /\ file.of = "main"

\* Once the Y.Doc of a client has state, its editor shows exactly that: no
\* update is applied without reaching the screen, and nothing is on the screen
\* that the next edit would take back.  (Outside of a preview, and as long as
\* no reload has ended one.)
StoreMirrors ==
    \A c \in Clients :
        Bound(c) /\ ~store[c].preview /\ "skipped" \notin strayed =>
            store[c].els = Visible(ops, Known(c))

Together(c, d) == link[c] = "up" /\ link[d] = "up" /\ doc[c].lineage = doc[d].lineage
Asked(c, d, o) ==
    \E i \in DOMAIN inbox[d] :
        LET f == inbox[d][i] IN f.t = "step1" /\ f.from = c /\ o \notin f.set

\* A client whose state vector has reached an editor of its room gets what it
\* lacks of that editor's document, unless one of them leaves, the editor may
\* not write any more, or the hub has no room for a frame.
NewcomerCatchesUp ==
    \A p \in {q \in Movers \X Clients : q[1] # q[2]}, o \in Watched :
        LET c == p[1]
            d == p[2]
        IN Asked(c, d, o) /\ o \in Known(d) /\ role[d] = "editor"
            ~> o \in Known(c) \/ ~Together(c, d) \/ role[d] = "viewer" \/ Len(inbox[c]) = Buffer

\* "on reconnect all offline changes merge in conflict-free with no data loss"
\* (16-realtime-collaboration.md:271): when every client is connected, may
\* edit and has read what there was for it, those of one lineage know the same.
OfflineEditsMerge ==
    (\A c \in Clients : link[c] = "up" /\ inbox[c] = <<>> /\ role[c] = "editor"
                        /\ doc[c].awaits = {}) =>
        \A c, d \in Clients : doc[c].lineage = doc[d].lineage => Known(c) = Known(d)
=============================================================================
