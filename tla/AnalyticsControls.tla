-------------------------- MODULE AnalyticsControls --------------------------
(*****************************************************************************)
(* The control scripts of the metrics: internal/analytics, the averages and  *)
(* windows behind them and the sprint endpoint.                              *)
(* Every script has the harness it runs its controls in and the controls, in *)
(* their order; a file is named by what it is, not by its path.              *)
(*****************************************************************************)
EXTENDS ControlHarness

\* scripts/w34-aicost-arithmetic-controls-9a7c.py
AICostArithmeticHarness == [Harness EXCEPT !.copy = "control", !.before = 1,
                                           !.checks = "first"]
AICostArithmeticControls ==
    Caught(<<"engine">>, 4) \o Missed(<<"engine">>, 2) \o
    Caught(<<"test">>, 2) \o
    ScoresVoid("green", Missed(<<"engine", "test">>, 1))

\* scripts/w34-aicost-leaderboard-window-controls.py
AICostLeaderboardWindowHarness == [Harness EXCEPT !.before = AllEdits,
                                                  !.exit = "zero"]
AICostLeaderboardWindowControls == Caught(<<"engine">>, 3) \o
                                   Caught(<<"guard">>, 1) \o
                                   Missed(<<"engine">>, 1)

\* scripts/w34-aicost-null-series-controls.py
AICostNullSeriesHarness == [Harness EXCEPT !.database = TRUE,
                                           !.before = AllEdits,
                                           !.checks = "first"]
AICostNullSeriesControls == Caught(<<"engine">>, 2) \o
                            Caught(<<"guard">>, 2) \o
                            Caught(<<"handler">>, 1) \o Missed(<<"engine">>, 1)

\* scripts/w34-aicost-ordering-controls-b9d7.py
AICostOrderingHarness == [Harness EXCEPT !.database = TRUE, !.stale = "stop",
                                         !.exit = "zero"]
AICostOrderingControls ==
    ScoresVoid("green", Caught(<<"engine">>, 2) \o Missed(<<"engine">>, 1) \o
                        Caught(<<"engine">>, 1) \o Measured(<<"engine">>, 1) \o
                        Missed(<<"engine">>, 2) \o Caught(<<"engine">>, 1))

\* scripts/w34-aicosts-scope-controls-7b2c.py
AICostsScopeHarness == [Harness EXCEPT !.baseline = "count",
                                       !.copy = "control", !.stale = "stop",
                                       !.checks = "startup"]
AICostsScopeControls ==
    ScoresVoid("green", Caught(<<"engine">>, 5) \o
                        Uncounted({1}, Caught(<<"engine">>, 1)) \o
                        Uncounted({1}, Missed(<<"engine">>, 1)))

\* scripts/w34-analytics-index-claims-controls.py
AnalyticsIndexClaimsHarness == [Harness EXCEPT !.baseline = "none",
                                               !.scope = "run",
                                               !.stale = "undo",
                                               !.verify = "count"]
AnalyticsIndexClaimsControls == Missed(<<>>, 1) \o Caught(<<"guard">>, 4) \o
                                Caught(<<"guard", "guard">>, 1) \o
                                Caught(<<"guard">>, 1)

\* scripts/w34-analytics-scope-wiring-controls-2q7v.py
AnalyticsScopeWiringHarness == [Harness EXCEPT !.baseline = "subtract",
                                               !.scope = "run",
                                               !.stale = "stop"]
AnalyticsScopeWiringControls == Caught(<<"engine">>, 12) \o
                                Missed(<<"engine">>, 1)

\* scripts/w34-analytics-window-controls.py
AnalyticsWindowHarness == [Harness EXCEPT !.database = TRUE,
                                          !.before = AllEdits]
AnalyticsWindowControls == Caught(<<"engine">>, 2) \o Caught(<<"test">>, 1) \o
                           Caught(<<"store">>, 1) \o Missed(<<"engine">>, 1)

\* scripts/w34-burndown-final-second-controls-9m4x.py
BurndownFinalSecondHarness == [Harness EXCEPT !.baseline = "subtract",
                                              !.scope = "run",
                                              !.stale = "stop"]
BurndownFinalSecondControls == Caught(<<"engine">>, 1) \o
                               Caught(<<"cycle">>, 1) \o
                               Caught(<<"engine", "cycle">>, 1) \o
                               Missed(<<"engine">>, 2) \o Caught(<<"test">>, 1)

\* scripts/w34-burndown-ontrack-controls-3d9e.py
BurndownOntrackHarness == [Harness EXCEPT !.baseline = "count",
                                          !.copy = "control", !.stale = "stop"]
BurndownOntrackControls ==
    ScoresVoid("green", Caught(<<"engine">>, 6) \o Missed(<<"engine">>, 1))

\* scripts/w34-burndown-ordering-controls-3d9e.py
BurndownOrderingHarness == [Harness EXCEPT !.baseline = "count",
                                           !.copy = "control",
                                           !.stale = "stop"]
BurndownOrderingControls ==
    ScoresVoid("green", Caught(<<"engine">>, 1) \o Caught(<<"cycle">>, 1) \o
                        Caught(<<"test">>, 1) \o Missed(<<"engine">>, 1)) \o
    Caught(<<"engine">>, 1)

\* scripts/w34-completed-at-controls-7c4d.py
CompletedAtHarness == [Harness EXCEPT !.database = TRUE, !.clean = TRUE,
                                      !.baseline = "subtract", !.copy = "git",
                                      !.checks = "never", !.verify = "count",
                                      !.exit = "zero"]
CompletedAtControls == Caught(<<"store">>, 1) \o
                       Missed(<<"store", "test">>, 1) \o
                       Missed(<<"store", "test">>, 1) \o
                       Uncounted({3}, Caught(<<"store", "test", "test">>, 1)) \o
                       Uncounted({1}, Caught(<<"store">>, 2))

\* scripts/w34-default-window-controls-5b91.py
DefaultWindowHarness == [Harness EXCEPT !.database = TRUE,
                                        !.baseline = "subtract",
                                        !.stale = "stop", !.exit = "zero"]
DefaultWindowControls == Caught(<<"engine">>, 1) \o
                         Missed(<<"engine", "guard">>, 1) \o
                         Caught(<<"handler">>, 1) \o Caught(<<"engine">>, 1) \o
                         Missed(<<"engine">>, 1) \o Caught(<<"engine">>, 1)

\* scripts/w34-distribution-counting-controls-8f5c.py
DistributionCountingHarness == [Harness EXCEPT !.copy = "control",
                                               !.exit = "zero"]
DistributionCountingControls ==
    ScoresVoid("red", Missed(<<"engine">>, 1) \o Caught(<<"engine">>, 7) \o
                      Missed(<<"engine">>, 1))

\* scripts/w34-expectquery-behaviour-census-9a7c.py
ExpectqueryBehaviourCensusHarness == [Harness EXCEPT !.baseline = "subtract"]
ExpectqueryBehaviourCensusControls ==
    ScoresVoid("green", Missed(<<"engine">>, 1) \o Caught(<<"engine">>, 1) \o
                        Missed(<<>>, 1) \o Measured(<<"engine">>, 13))

\* scripts/w34-expectquery-fingerprint-census-8f3d.py
ExpectqueryFingerprintCensusHarness == [Harness EXCEPT !.exit = "zero"]
ExpectqueryFingerprintCensusControls ==
    ScoresVoid("red", Measured(<<"engine">>, 10))

\* scripts/w34-groupby-gate-controls-5b91.py
GroupByGateHarness == [Harness EXCEPT !.database = TRUE,
                                      !.baseline = "subtract",
                                      !.stale = "stop", !.exit = "zero"]
GroupByGateControls == Caught(<<"engine">>, 1) \o
                       Missed(<<"engine", "guard">>, 2) \o
                       Caught(<<"engine">>, 2) \o Missed(<<"engine">>, 1)

\* scripts/w34-helper-wiring-controls-9m4x.py
HelperWiringHarness == [Harness EXCEPT !.baseline = "subtract",
                                       !.scope = "run", !.exit = "zero"]
HelperWiringControls == Missed(<<"engine">>, 1) \o Caught(<<"engine">>, 1) \o
                        Missed(<<"engine">>, 1) \o Caught(<<"engine">>, 2) \o
                        Missed(<<"engine">>, 1) \o Caught(<<"engine">>, 1) \o
                        Missed(<<"engine">>, 1)

\* scripts/w34-midnight-boundary-controls-8x2m.py
MidnightBoundaryHarness == [Harness EXCEPT !.stale = "stop"]
MidnightBoundaryControls == Caught(<<"engine">>, 1) \o
                            Missed(<<"engine">>, 1) \o
                            Caught(<<"engine">>, 1) \o Caught(<<"test">>, 2) \o
                            Missed(<<"engine">>, 1)

\* scripts/w34-mount-shrinkage-controls-8x2m.py
MountShrinkageHarness == [Harness EXCEPT !.stale = "stop"]
MountShrinkageControls == Caught(<<"handler">>, 7) \o
                          Missed(<<"handler">>, 1) \o
                          Uncounted({1}, Caught(<<"handler">>, 1))

\* scripts/w34-report-ordering-controls-8f3d.py
ReportOrderingHarness == [Harness EXCEPT !.exit = "zero"]
ReportOrderingControls ==
    ScoresVoid("red", Caught(<<"engine">>, 5) \o Missed(<<"engine">>, 1) \o
                      Caught(<<"engine">>, 1) \o Caught(<<"guard">>, 3))

\* scripts/w34-resolution-arithmetic-controls-8d3f.py
ResolutionArithmeticHarness == [Harness EXCEPT !.baseline = "subtract",
                                               !.copy = "control"]
ResolutionArithmeticControls == Measured(<<"engine">>, 7) \o
                                Caught(<<"engine">>, 1) \o
                                Missed(<<"engine">>, 1)

\* scripts/w34-resolution-scope-controls-7b2c.py
ResolutionScopeHarness == [Harness EXCEPT !.baseline = "count",
                                          !.copy = "control", !.stale = "stop"]
ResolutionScopeControls ==
    ScoresVoid("green", Caught(<<"engine">>, 2) \o
                        Missed(<<"engine", "test">>, 1) \o
                        Uncounted({1}, Missed(<<"engine">>, 1)) \o
                        Caught(<<"engine">>, 1))

\* scripts/w34-sprint-no-active-cycle-controls.py
SprintNoActiveCycleHarness == [Harness EXCEPT !.handler = TRUE, !.again = TRUE]
SprintNoActiveCycleControls == Caught(<<"server">>, 2) \o
                               Caught(<<"handler">>, 1) \o
                               Caught(<<"server">>, 1) \o
                               Caught(<<"store">>, 1) \o
                               Missed(<<"server">>, 1)

\* scripts/w34-updated-metric-controls-6b4d.py
UpdatedMetricHarness == [Harness EXCEPT !.database = TRUE, !.copy = "control",
                                        !.checks = "first", !.verify = "none",
                                        !.exit = "zero"]
UpdatedMetricControls ==
    ScoresVoid("red", Caught(<<"store">>, 7) \o
                      Caught(<<"handler", "handler">>, 1) \o
                      Caught(<<"store">>, 2))

\* scripts/w34-velocity-counting-controls-8f5c.py
VelocityCountingHarness == [Harness EXCEPT !.copy = "control", !.exit = "zero"]
VelocityCountingControls ==
    ScoresVoid("red", Missed(<<"engine">>, 1) \o Caught(<<"engine">>, 9) \o
                      Missed(<<"engine">>, 1))

\* scripts/w34-window-clamp-wiring-controls-6c1a.py
WindowClampWiringHarness == [Harness EXCEPT !.database = TRUE,
                                            !.baseline = "subtract",
                                            !.scope = "run", !.stale = "stop",
                                            !.checks = "startup"]
WindowClampWiringControls == Caught(<<"engine">>, 6) \o Missed(<<"engine">>, 1)

\* scripts/w34-workload-counting-controls-4c8e.py
WorkloadCountingHarness == [Harness EXCEPT !.copy = "control", !.exit = "zero"]
WorkloadCountingControls ==
    ScoresVoid("red", Caught(<<"engine">>, 5) \o Missed(<<"engine">>, 1))

\* scripts/w34-workload-tenancy-controls-b9d7.py
WorkloadTenancyHarness == [Harness EXCEPT !.database = TRUE, !.stale = "stop",
                                          !.checks = "first", !.exit = "zero"]
WorkloadTenancyControls ==
    ScoresVoid("red", Caught(<<"engine">>, 4) \o Missed(<<"engine">>, 1) \o
                      Caught(<<"engine">>, 3))

AnalyticsScripts == {
    Script(AICostArithmeticHarness, AICostArithmeticControls),
    Script(AICostLeaderboardWindowHarness, AICostLeaderboardWindowControls),
    Script(AICostNullSeriesHarness, AICostNullSeriesControls),
    Script(AICostOrderingHarness, AICostOrderingControls),
    Script(AICostsScopeHarness, AICostsScopeControls),
    Script(AnalyticsIndexClaimsHarness, AnalyticsIndexClaimsControls),
    Script(AnalyticsScopeWiringHarness, AnalyticsScopeWiringControls),
    Script(AnalyticsWindowHarness, AnalyticsWindowControls),
    Script(BurndownFinalSecondHarness, BurndownFinalSecondControls),
    Script(BurndownOntrackHarness, BurndownOntrackControls),
    Script(BurndownOrderingHarness, BurndownOrderingControls),
    Script(CompletedAtHarness, CompletedAtControls),
    Script(DefaultWindowHarness, DefaultWindowControls),
    Script(DistributionCountingHarness, DistributionCountingControls),
    Script(ExpectqueryBehaviourCensusHarness, ExpectqueryBehaviourCensusControls),
    Script(ExpectqueryFingerprintCensusHarness, ExpectqueryFingerprintCensusControls),
    Script(GroupByGateHarness, GroupByGateControls),
    Script(HelperWiringHarness, HelperWiringControls),
    Script(MidnightBoundaryHarness, MidnightBoundaryControls),
    Script(MountShrinkageHarness, MountShrinkageControls),
    Script(ReportOrderingHarness, ReportOrderingControls),
    Script(ResolutionArithmeticHarness, ResolutionArithmeticControls),
    Script(ResolutionScopeHarness, ResolutionScopeControls),
    Script(SprintNoActiveCycleHarness, SprintNoActiveCycleControls),
    Script(UpdatedMetricHarness, UpdatedMetricControls),
    Script(VelocityCountingHarness, VelocityCountingControls),
    Script(WindowClampWiringHarness, WindowClampWiringControls),
    Script(WorkloadCountingHarness, WorkloadCountingControls),
    Script(WorkloadTenancyHarness, WorkloadTenancyControls)}
=============================================================================
