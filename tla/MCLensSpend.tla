----------------------------- MODULE MCLensSpend -----------------------------
(***************************************************************************)
(* Instances of LensSpend for TLC.  The webhook instance has no requests   *)
(* to sync: alert a1 carries an event_id and reaches Track in two byte     *)
(* forms, a2 is an old Lens's without one; both name feature f, which i1   *)
(* may carry and which is also the identifier of i2.  The sync instance    *)
(* has no alerts: Lens workspace 9 pays for Track workspaces 1 and 2, which *)
(* may both hold an issue e1; r1 names e1 in its issue header and e2, which *)
(* no issue carries, as its feature.                                       *)
(***************************************************************************)
EXTENDS LensSpend, TLC

CONSTANTS a1, a2, b1, b2, b3, i1, i2, r1, e1, e2, f

WebhookAlertOf == (b1 :> a1) @@ (b2 :> a1) @@ (b3 :> a2)
WebhookFeature == (a1 :> f) @@ (a2 :> f)
WebhookWorkspace == (a1 :> 1) @@ (a2 :> 1)
WebhookIssueWs == (i1 :> 1) @@ (i2 :> 1)
WebhookDeliveries == (b1 :> 1) @@ (b2 :> 1) @@ (b3 :> 2)
WebhookIdentifier == (i1 :> e1) @@ (i2 :> f)

SyncIssueWs == (i1 :> 1) @@ (i2 :> 2)
SyncIdentifier == (i1 :> e1) @@ (i2 :> e1)
SyncLens == r1 :> 9
SyncFeature == r1 :> e2
SyncIssue == r1 :> e1

HandlerSymmetry == Permutations(Handlers)
NoFunction == [x \in {} |-> x]
=============================================================================
