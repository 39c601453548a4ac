------------------------------ MODULE RunFeed ------------------------------
(***************************************************************************)
(* What the event stream of a run promises its client.  Events are         *)
(* published one at a time, the run is closed once, and a client that      *)
(* reads the log from a cursor of its own is told the end only when it has *)
(* been given everything published before the run was closed.  Events may  *)
(* still be published after the run is closed; nobody is owed those.       *)
(***************************************************************************)
EXTENDS Naturals

VARIABLES published,  \* number of events in the log
          closed,     \* the run has ended
          mark,       \* how many events had been published by then
          cursor,     \* how many of them the client has received
          told        \* the client has been told the end

vars == <<published, closed, mark, cursor, told>>

Init ==
    /\ published = 0 /\ mark = 0 /\ cursor = 0
    /\ closed = FALSE /\ told = FALSE

PublishEvent ==
    /\ published' = published + 1
    /\ UNCHANGED <<closed, mark, cursor, told>>

CloseRun ==
    /\ ~closed
    /\ closed' = TRUE /\ mark' = published
    /\ UNCHANGED <<published, cursor, told>>

\* Forward by a batch, or back to where a reconnecting client asks to resume.
Move ==
    /\ ~told
    /\ cursor' \in 0..published
    /\ UNCHANGED <<published, closed, mark, told>>

Tell ==
    /\ ~told /\ closed
    /\ cursor' \in mark..published
    /\ told' = TRUE
    /\ UNCHANGED <<published, closed, mark>>

Next == PublishEvent \/ CloseRun \/ Move \/ Tell

Spec == Init /\ [][Next]_vars
=============================================================================
