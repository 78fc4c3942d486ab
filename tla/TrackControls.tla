---------------------------- MODULE TrackControls ----------------------------
(*****************************************************************************)
(* The control scripts of the rest: tenancy and reference guards, semgrep    *)
(* rules, members, webhooks, migrations, CI and the scripts themselves.      *)
(* Every script has the harness it runs its controls in and the controls, in *)
(* their order; a file is named by what it is, not by its path.              *)
(*****************************************************************************)
EXTENDS ControlHarness

\* scripts/w310-scoring-tenancy-controls-m5x8.py
ScoringTenancyHarness == [Harness EXCEPT !.database = TRUE, !.clean = TRUE,
                                         !.scope = "run", !.stale = "stop"]
ScoringTenancyControls == Caught(<<"store">>, 6) \o Missed(<<"store">>, 1)

\* scripts/w34-childinsert-exemption-controls-8x2m.py
ChildinsertExemptionHarness == [Harness EXCEPT !.stale = "stop"]
ChildinsertExemptionControls == Caught(<<"store">>, 2)

\* scripts/w34-create-refs-controls-8x2m.py
CreateRefsHarness == [Harness EXCEPT !.stale = "stop"]
CreateRefsControls == Caught(<<"store">>, 5)

\* scripts/w34-guest-inert-controls-8x2m.py
GuestInertHarness == [Harness EXCEPT !.stale = "stop"]
GuestInertControls ==
    Caught(<<"handler">>, 3) \o
    Uncounted({2}, Scanned(Missed(<<"handler", "rules">>, 1))) \o
    Uncounted({1}, Caught(<<"handler">>, 1))

\* scripts/w34-inert-ownergate-census-7k2p.py
InertOwnergateCensusHarness == [Harness EXCEPT !.database = TRUE,
                                               !.baseline = "count",
                                               !.copy = "control",
                                               !.before = AllEdits,
                                               !.stale = "stop",
                                               !.verify = "count"]
InertOwnergateCensusControls == Scanned(Caught(<<"workspace">>, 1)) \o
                                Caught(<<"workspace">>, 2) \o
                                Caught(<<"team">>, 1) \o
                                Caught(<<"project">>, 1) \o
                                Caught(<<"integrations">>, 1) \o
                                Caught(<<"member">>, 3)

\* scripts/w34-member-email-identity-controls-r8x2.py
MemberEmailIdentityHarness == [Harness EXCEPT !.database = TRUE,
                                              !.clean = TRUE,
                                              !.baseline = "none",
                                              !.scope = "run",
                                              !.stale = "stop"]
MemberEmailIdentityControls ==
    Caught(<<"mgmt", "mgmt">>, 1) \o Caught(<<"resolver">>, 1) \o
    Missed(<<"guest_store">>, 1) \o ScoresVoid("red", Caught(<<"test">>, 1)) \o
    Caught(<<"workspace_store", "workspace_store">>, 1) \o Missed(<<>>, 1)

\* scripts/w34-operate-by-id-exemption-controls-8x2m.py
OperateByIdExemptionHarness == [Harness EXCEPT !.stale = "stop",
                                               !.checks = "startup"]
OperateByIdExemptionControls ==
    Scanned(Caught(<<"store">>, 2) \o Missed(<<"store">>, 1))

\* scripts/w34-ownergate-lock-controls-3w9m.py
OwnergateLockHarness == [Harness EXCEPT !.baseline = "count",
                                        !.copy = "control",
                                        !.before = AllEdits, !.stale = "stop",
                                        !.verify = "count"]
OwnergateLockControls ==
    Scanned(Caught(<<"workspace">>, 2) \o Caught(<<"team">>, 1) \o
            Caught(<<"project">>, 1) \o Caught(<<"integrations">>, 1) \o
            Caught(<<"member">>, 3) \o Missed(<<"project">>, 1))

\* scripts/w34-readme-transit-proof-controls-p3n7.py
ReadmeTransitProofHarness == [Harness EXCEPT !.clean = TRUE,
                                             !.copy = "control",
                                             !.stale = "stop",
                                             !.verify = "count"]
ReadmeTransitProofControls ==
    Scanned(Caught(<<"readme">>, 2) \o Caught(<<"main">>, 2) \o
            Caught(<<"readme">>, 1) \o Missed(<<"readme">>, 1) \o
            Caught(<<"readme">>, 1))

\* scripts/w34-refguard-inert-controls-8x2m.py
RefguardInertHarness == [Harness EXCEPT !.baseline = "none",
                                        !.copy = "control", !.exit = "zero"]
RefguardInertControls ==
    ScoresVoid("red", Measured(<<"notification">>, 1) \o
                      Measured(<<"cycle">>, 1) \o Measured(<<"label">>, 1) \o
                      Measured(<<"milestone">>, 1) \o
                      Measured(<<"project">>, 1) \o
                      Measured(<<"scoring">>, 1) \o
                      Measured(<<"featureboard">>, 1) \o
                      Measured(<<"guest">>, 1) \o
                      Measured(<<"template">>, 1) \o
                      Measured(<<"customfield">>, 1) \o
                      Measured(<<"dependency">>, 1) \o
                      Measured(<<"importer">>, 1))

\* scripts/w34-refguard-semgrep-census-m3r8.py
RefguardSemgrepCensusHarness == [Harness EXCEPT !.clean = TRUE,
                                                !.copy = "control",
                                                !.verify = "count",
                                                !.exit = "zero"]
RefguardSemgrepCensusControls ==
    Scanned(Measured(<<"notification">>, 1) \o Measured(<<"cycle">>, 1) \o
            Measured(<<"label">>, 1) \o Measured(<<"milestone">>, 1) \o
            Measured(<<"project">>, 1) \o Measured(<<"scoring">>, 1) \o
            Measured(<<"featureboard">>, 1) \o Measured(<<"guest">>, 1) \o
            Measured(<<"template">>, 1) \o Measured(<<"customfield">>, 1) \o
            Measured(<<"dependency">>, 1) \o Measured(<<"importer">>, 1) \o
            Measured(<<"template">>, 1) \o
            Uncounted({1}, Measured(<<"notification">>, 1)))

\* scripts/w34-resolvedws-controls-8j5q.py
ResolvedWsHarness == [Harness EXCEPT !.stale = "stop"]
ResolvedWsControls ==
    ScoresVoid("red", Caught(<<"hub">>, 1) \o Caught(<<"importer">>, 1) \o
                      Caught(<<"integrations">>, 1) \o Caught(<<"mcp">>, 1) \o
                      Caught(<<"hub">>, 1) \o
                      Caught(<<"hub", "hub", "hub">>, 1)) \o
    Caught(<<"hub", "guard">>, 2) \o Scanned(Missed(<<"integrations">>, 1)) \o
    Caught(<<"integrations">>, 1) \o Scanned(Missed(<<"hub", "hub">>, 1))

\* scripts/w34-suppression-census-controls-8x2m.py
SuppressionCensusHarness == [Harness EXCEPT !.stale = "stop",
                                            !.checks = "startup"]
SuppressionCensusControls == Caught(<<"store">>, 3) \o
                             Uncounted({1}, Caught(<<"guard">>, 1)) \o
                             Missed(<<"featureboard">>, 1)

\* scripts/w34-template-assignee-controls-8f3b.py
TemplateAssigneeHarness == [Harness EXCEPT !.scope = "run", !.exit = "zero"]
TemplateAssigneeControls == Caught(<<"store">>, 5) \o Missed(<<"store">>, 1) \o
                            Caught(<<"store">>, 1)

\* scripts/w34-tenancy-lock-visibility-controls.py
TenancyLockVisibilityHarness == [Harness EXCEPT !.baseline = "count",
                                                !.copy = "control",
                                                !.before = AllEdits,
                                                !.stale = "stop",
                                                !.verify = "count"]
TenancyLockVisibilityControls ==
    Scanned(Caught(<<"issue">>, 1) \o Caught(<<"project">>, 1) \o
            Missed(<<>>, 1) \o Caught(<<>>, 1) \o Missed(<<"issue">>, 1) \o
            Caught(<<"project">>, 1) \o Missed(<<"issue">>, 1))

\* scripts/w34-update-allowlist-controls-7c4d.py
UpdateAllowlistHarness == [Harness EXCEPT !.database = TRUE, !.clean = TRUE,
                                          !.baseline = "subtract",
                                          !.copy = "git", !.before = AllEdits,
                                          !.verify = "none", !.exit = "zero"]
UpdateAllowlistControls == Caught(<<"engine">>, 1) \o Caught(<<"issue">>, 1) \o
                           Measured(<<"milestone">>, 1) \o
                           Measured(<<"project">>, 1) \o
                           Measured(<<"team">>, 1) \o
                           Measured(<<"workspace">>, 1) \o
                           Measured(<<"template">>, 1) \o
                           Measured(<<"issue">>, 1) \o
                           Measured(<<"milestone">>, 1) \o
                           Measured(<<"project">>, 1) \o
                           Measured(<<"team">>, 1) \o
                           Measured(<<"workspace">>, 1) \o
                           Measured(<<"template">>, 1)

\* scripts/w34-wire-contract-controls.py
WireContractHarness == [Harness EXCEPT !.copy = "undo", !.before = AllEdits,
                                       !.stale = "stop", !.verify = "count"]
WireContractControls ==
    ScoresVoid("red", Caught(<<"jira">>, 3) \o Caught(<<"providerhttp">>, 1) \o
                      Caught(<<"jira">>, 1) \o Missed(<<"test", "jira">>, 1))

\* scripts/w35-spend-alert-keys-controls-p3n7.py
SpendAlertKeysHarness == [Harness EXCEPT !.database = TRUE, !.clean = TRUE,
                                         !.copy = "control", !.stale = "stop",
                                         !.verify = "count"]
SpendAlertKeysControls == Caught(<<"webhook">>, 5)

\* scripts/w36-by-identifier-controls-p3n7.py
ByIdentifierHarness == [Harness EXCEPT !.database = TRUE, !.clean = TRUE,
                                       !.copy = "control", !.stale = "stop",
                                       !.verify = "count"]
ByIdentifierControls == Caught(<<"handler">>, 3)

\* scripts/w365-anchor-check-controls-r7k2.py
AnchorCheckHarness == [Harness EXCEPT !.verify = "count", !.handler = TRUE]
AnchorCheckControls ==
    ScoresVoid("red", Missed(<<>>, 1) \o Caught(<<"ci">>, 2) \o
                      Caught(<<"campaign">>, 1) \o Missed(<<"ci">>, 1) \o
                      Missed(<<>>, 2))

\* scripts/w39-summary-empty-population-controls-m5x8.py
SummaryEmptyPopulationHarness == [Harness EXCEPT !.database = TRUE,
                                                 !.clean = TRUE,
                                                 !.scope = "run",
                                                 !.stale = "stop"]
SummaryEmptyPopulationControls ==
    Caught(<<"store">>, 4) \o Missed(<<"store">>, 1) \o
    Uncounted({2}, Missed(<<"store", "store">>, 1))

\* scripts/w632-exempt-route-census-controls.py
ExemptRouteCensusHarness == [Harness EXCEPT !.copy = "control",
                                            !.verify = "count"]
ExemptRouteCensusControls == Caught(<<"featureboard">>, 1) \o
                             Caught(<<"main">>, 1) \o Caught(<<"test">>, 1) \o
                             Caught(<<"main">>, 1) \o Caught(<<"test">>, 4)

\* scripts/w634-toolchain-pin-controls.py
ToolchainPinHarness == [Harness EXCEPT !.copy = "control", !.verify = "count",
                                       !.handler = TRUE]
ToolchainPinControls == Caught(<<"gomod">>, 2) \o Missed(<<"test">>, 1) \o
                        Caught(<<"gomod">>, 1) \o
                        ScoresVoid("red", Caught(<<"test">>, 1)) \o
                        Caught(<<"ci">>, 3) \o Caught(<<"test">>, 1) \o
                        Missed(<<"test">>, 1)

\* scripts/w641-guard-controls-r7k2.py
GuardHarness == [Harness EXCEPT !.verify = "count", !.handler = TRUE]
GuardControls == Caught(<<"probe">>, 3) \o Caught(<<"guard">>, 4) \o
                 Caught(<<"probe">>, 1) \o Missed(<<"probe">>, 1)

\* scripts/w644-catcher-name-controls-r7k2.py
CatcherNameHarness == [Harness EXCEPT !.verify = "count", !.handler = TRUE]
CatcherNameControls ==
    ScoresVoid("red", Caught(<<"test">>, 1) \o Caught(<<"campaign">>, 1) \o
                      Missed(<<"campaign">>, 1) \o Caught(<<"campaign">>, 1) \o
                      Missed(<<>>, 1))

TrackScripts == {
    Script(ScoringTenancyHarness, ScoringTenancyControls),
    Script(ChildinsertExemptionHarness, ChildinsertExemptionControls),
    Script(CreateRefsHarness, CreateRefsControls),
    Script(GuestInertHarness, GuestInertControls),
    Script(InertOwnergateCensusHarness, InertOwnergateCensusControls),
    Script(MemberEmailIdentityHarness, MemberEmailIdentityControls),
    Script(OperateByIdExemptionHarness, OperateByIdExemptionControls),
    Script(OwnergateLockHarness, OwnergateLockControls),
    Script(ReadmeTransitProofHarness, ReadmeTransitProofControls),
    Script(RefguardInertHarness, RefguardInertControls),
    Script(RefguardSemgrepCensusHarness, RefguardSemgrepCensusControls),
    Script(ResolvedWsHarness, ResolvedWsControls),
    Script(SuppressionCensusHarness, SuppressionCensusControls),
    Script(TemplateAssigneeHarness, TemplateAssigneeControls),
    Script(TenancyLockVisibilityHarness, TenancyLockVisibilityControls),
    Script(UpdateAllowlistHarness, UpdateAllowlistControls),
    Script(WireContractHarness, WireContractControls),
    Script(SpendAlertKeysHarness, SpendAlertKeysControls),
    Script(ByIdentifierHarness, ByIdentifierControls),
    Script(AnchorCheckHarness, AnchorCheckControls),
    Script(SummaryEmptyPopulationHarness, SummaryEmptyPopulationControls),
    Script(ExemptRouteCensusHarness, ExemptRouteCensusControls),
    Script(ToolchainPinHarness, ToolchainPinControls),
    Script(GuardHarness, GuardControls),
    Script(CatcherNameHarness, CatcherNameControls)}
=============================================================================
