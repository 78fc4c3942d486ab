----------------------------- MODULE SpendAccount -----------------------------
(***************************************************************************)
(* What the AI-spend ledger promises about requests, with no ledger in it: *)
(* a request is posted once, to one workspace and to one issue or none; an *)
(* issue's total counts it once if it was posted there; and no later event *)
(* moves it, repeats it or takes it back.  SpendLedger and LensSpend       *)
(* implement it (AccountOf in those modules).                              *)
(***************************************************************************)
EXTENDS Naturals

CONSTANTS Workspaces, Issues, Requests, NoIssue, Unposted

VARIABLES
    posted,  \* request |-> where it was posted, or Unposted
    total    \* issue |-> request |-> how often the issue's total counts it

Posting(w, i) == [workspace |-> w, issue |-> i]

Init ==
    /\ posted = [r \in Requests |-> Unposted]
    /\ total = [i \in Issues |-> [r \in Requests |-> 0]]

Post(r, w, i) ==
    /\ posted[r] = Unposted
    /\ posted' = [posted EXCEPT ![r] = Posting(w, i)]
    /\ total' = IF i = NoIssue THEN total ELSE [total EXCEPT ![i][r] = @ + 1]

Next == \E r \in Requests, w \in Workspaces, i \in Issues \cup {NoIssue} : Post(r, w, i)

Spec == Init /\ [][Next]_<<posted, total>>
=============================================================================
