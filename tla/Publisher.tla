------------------------------ MODULE Publisher ------------------------------
(***************************************************************************)
(* What a distribution promises of each of its accounts: the text is       *)
(* posted there at most once, and the report about it is written once and  *)
(* for all.  "sent" is said behind a post only, and behind "unsent" there  *)
(* is none, not even a late one; who cannot know says "unknown", and then  *)
(* the post may still come.                                                *)
(***************************************************************************)
EXTENDS Naturals

CONSTANTS Jobs, Accounts

VARIABLES posts,   \* posts of a job in an account
          report   \* what is said about them: open, sent, unsent, unknown

vars == <<posts, report>>

Init ==
    /\ posts = [j \in Jobs |-> [a \in Accounts |-> 0]]
    /\ report = [j \in Jobs |-> [a \in Accounts |-> "open"]]

Post(j, a) ==
    /\ posts[j][a] = 0 /\ report[j][a] \in {"open", "unknown"}
    /\ posts' = [posts EXCEPT ![j][a] = 1]
    /\ UNCHANGED report

Report(j, a) ==
    /\ report[j][a] = "open"
    /\ \E x \in {IF posts[j][a] = 0 THEN "unsent" ELSE "sent", "unknown"} :
          report' = [report EXCEPT ![j][a] = x]
    /\ UNCHANGED posts

Next == \E j \in Jobs, a \in Accounts : Post(j, a) \/ Report(j, a)

Spec == Init /\ [][Next]_vars
=============================================================================
