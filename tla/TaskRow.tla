------------------------------ MODULE TaskRow ------------------------------
(***************************************************************************)
(* What the rows of background tasks tell over the lives of any number of  *)
(* processes: each goes from pending over running to one final status and  *)
(* never back, except that an end which could not be confirmed may turn    *)
(* into a failure; and it goes away for good.  One step may concern        *)
(* several rows, as a crash or the sweep at a start does.                  *)
(***************************************************************************)
CONSTANT Tasks

VARIABLE row   \* per task: new, a status, or over

States == {"new", "pending", "running", "success", "failed", "cancelled", "over"}

After(s) ==
    {"over"} \union
    CASE s = "new" -> {"pending"}
      [] s = "pending" -> {"running", "failed", "cancelled"}
      [] s = "running" -> {"success", "failed", "cancelled"}
      [] s \in {"success", "cancelled"} -> {"failed"}
      [] s \in {"failed", "over"} -> {}

Init == row = [t \in Tasks |-> "new"]

Next ==
    /\ row' \in [Tasks -> States]
    /\ \A t \in Tasks : row'[t] # row[t] => row'[t] \in After(row[t])

Spec == Init /\ [][Next]_row
=============================================================================
