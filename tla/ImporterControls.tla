-------------------------- MODULE ImporterControls --------------------------
(*****************************************************************************)
(* The control scripts of the importer: Jira and Linear, their exports and   *)
(* their APIs, the import jobs.                                              *)
(* Every script has the harness it runs its controls in and the controls, in *)
(* their order; a file is named by what it is, not by its path.              *)
(*****************************************************************************)
EXTENDS ControlHarness

\* scripts/w34-adf-blockcard-controls.py
ADFBlockcardHarness == [Harness EXCEPT !.baseline = "count",
                                       !.copy = "control"]
ADFBlockcardControls == Caught(<<"adf_attrs">>, 3) \o Caught(<<"jira">>, 1) \o
                        Caught(<<"adf_attrs">>, 1) \o
                        Missed(<<"adf_attrs">>, 1)

\* scripts/w34-api-created-controls.py
APICreatedHarness == [Harness EXCEPT !.database = TRUE, !.copy = "control",
                                     !.before = AllEdits, !.stale = "undo"]
APICreatedControls == Caught(<<"api_created">>, 1) \o
                      Caught(<<"linear">>, 1) \o
                      Caught(<<"store", "store", "store">>, 1) \o
                      Caught(<<"store", "store", "store">>, 1) \o
                      Caught(<<"store">>, 1) \o Caught(<<"api_created">>, 6) \o
                      Caught(<<"linear">>, 1)

\* scripts/w34-api-updated-controls.py
APIUpdatedHarness == [Harness EXCEPT !.database = TRUE, !.copy = "control",
                                     !.before = AllEdits, !.verify = "count"]
APIUpdatedControls == Caught(<<"jira">>, 1) \o Caught(<<"linear">>, 1) \o
                      Missed(<<"jira">>, 1) \o Missed(<<"linear">>, 1) \o
                      AfterMarker(Caught(<<"store">>, 1)) \o
                      Caught(<<"api_updated">>, 2) \o
                      AfterMarker(Caught(<<"store">>, 1)) \o
                      Caught(<<"api_updated">>, 2) \o Missed(<<"store">>, 1) \o
                      AfterMarker(Measured(<<"store">>, 1))

\* scripts/w34-column-index-trim-controls-r8x2.py
ColumnIndexTrimHarness == [Harness EXCEPT !.database = TRUE, !.clean = TRUE,
                                          !.baseline = "none", !.scope = "run",
                                          !.stale = "stop"]
ColumnIndexTrimControls == Caught(<<"csv">>, 2) \o Missed(<<"csv">>, 2) \o
                           Missed(<<"csv", "test">>, 1) \o
                           ScoresVoid("red", Caught(<<"csv">>, 1)) \o
                           Missed(<<>>, 1)

\* scripts/w34-completed-divergence-controls.py
CompletedDivergenceHarness == [Harness EXCEPT !.database = TRUE,
                                              !.baseline = "count",
                                              !.copy = "control",
                                              !.before = AllEdits,
                                              !.stale = "stop",
                                              !.verify = "count"]
CompletedDivergenceControls ==
    Caught(<<"roadmap">>, 1) \o Caught(<<"milestone">>, 1) \o
    Caught(<<"cycle">>, 1) \o
    ScoresVoid("red", Caught(<<"roadmap_test">>, 1)) \o
    Caught(<<"roadmap_test">>, 1)

\* scripts/w34-crossteam-identifier-controls.py
CrossteamIdentifierHarness == [Harness EXCEPT !.database = TRUE,
                                              !.copy = "control"]
CrossteamIdentifierControls == Caught(<<"store">>, 2) \o
                               Caught(<<"source">>, 1) \o
                               Caught(<<"store">>, 1) \o
                               Caught(<<"runner">>, 1) \o
                               Caught(<<"store">>, 2) \o Caught(<<"csv">>, 1)

\* scripts/w34-csv-clobbered-columns-same-import-controls.py
CSVClobberedColumnsSameImportHarness == [Harness EXCEPT !.database = TRUE,
                                                        !.copy = "control",
                                                        !.stale = "stop"]
CSVClobberedColumnsSameImportControls == Caught(<<"source">>, 4)

\* scripts/w34-csv-column-reach-controls-2q7v.py
CSVColumnReachHarness == [Harness EXCEPT !.baseline = "subtract",
                                         !.scope = "run", !.stale = "stop"]
CSVColumnReachControls ==
    ScoresVoid("red", Caught(<<"csv">>, 8)) \o Caught(<<"csv">>, 1) \o
    ScoresVoid("red", Caught(<<"csv">>, 9) \o
                      Caught(<<"jira_csv_updated">>, 1) \o
                      Caught(<<"jira_csv_created">>, 1) \o
                      Caught(<<"jira_csv_status_category">>, 1) \o
                      Caught(<<"linear_csv_dates">>, 1) \o
                      Caught(<<"linear_csv_updated">>, 1) \o
                      Caught(<<"csv_clobbered_columns">>, 2)) \o
    Missed(<<"csv">>, 1)

\* scripts/w34-date-controls.py
DateHarness == [Harness EXCEPT !.baseline = "none", !.copy = "control",
                               !.before = AllEdits]
DateControls == Caught(<<"jira">>, 9) \o Caught(<<"store">>, 3)

\* scripts/w34-corpus-copies-controls.py
CorpusCopiesHarness == Harness
CorpusCopiesControls == Caught(<<"helpers">>, 5) \o
                        Caught(<<"dates", "dates_test">>, 1) \o
                        Caught(<<"census">>, 1) \o Caught(<<"helpers">>, 1)

\* scripts/w34-csv-clobbered-columns-controls.py
CSVClobberedColumnsHarness == [Harness EXCEPT !.database = TRUE,
                                              !.copy = "control",
                                              !.exit = "zero"]
CSVClobberedColumnsControls == Caught(<<"source">>, 1) \o
                               Caught(<<"csv_clobbered">>, 1) \o
                               Caught(<<"csv">>, 2) \o
                               Caught(<<"csv_clobbered">>, 1) \o
                               Caught(<<"csv">>, 3) \o
                               Caught(<<"store">>, 1) \o
                               Missed(<<"csv_clobbered">>, 1) \o
                               Caught(<<"csv">>, 1)

\* scripts/w34-getall-trim-controls-r8x2.py
GetallTrimHarness == [Harness EXCEPT !.database = TRUE, !.clean = TRUE,
                                     !.baseline = "none", !.scope = "run",
                                     !.stale = "stop"]
GetallTrimControls == Caught(<<"csv">>, 1) \o Missed(<<"csv">>, 3) \o
                      ScoresVoid("red", Caught(<<"csv">>, 1)) \o
                      Missed(<<"csv", "test">>, 1) \o Missed(<<>>, 1)

\* scripts/w34-jira-contract-controls.py
JiraContractHarness == [Harness EXCEPT !.copy = "control", !.stale = "stop",
                                       !.handler = TRUE]
JiraContractControls ==
    ScoresVoid("red", Caught(<<"jira">>, 4) \o Caught(<<"snapshot">>, 2) \o
                      Caught(<<"test">>, 1) \o Missed(<<"providerhttp">>, 1))

\* scripts/w34-jira-api-adf-controls.py
JiraAPIADFHarness == [Harness EXCEPT !.database = TRUE, !.copy = "control",
                                     !.before = AllEdits, !.verify = "count"]
JiraAPIADFControls == Caught(<<"adf_attrs">>, 4) \o Caught(<<"jira">>, 1) \o
                      Caught(<<"adf_attrs">>, 2) \o Caught(<<"csv">>, 1) \o
                      Caught(<<"jira">>, 2) \o Caught(<<"adf_attrs">>, 1) \o
                      Caught(<<"store">>, 1)

\* scripts/w34-jira-api-resolution-controls.py
JiraAPIResolutionHarness == [Harness EXCEPT !.database = TRUE,
                                            !.copy = "control",
                                            !.before = AllEdits,
                                            !.verify = "count"]
JiraAPIResolutionControls == Caught(<<"jira">>, 1) \o Missed(<<"jira">>, 1) \o
                             Caught(<<"api_resolution">>, 1) \o
                             Caught(<<"jira">>, 2) \o
                             Caught(<<"api_resolution">>, 1) \o
                             Caught(<<"jira_csv_resolution">>, 1) \o
                             Caught(<<"api_resolution">>, 3) \o
                             Caught(<<"jira_csv_resolution">>, 1) \o
                             Caught(<<"jira">>, 1) \o
                             Missed(<<"api_resolution">>, 1)

\* scripts/w34-jira-csv-bom-controls.py
JiraCSVBOMHarness == [Harness EXCEPT !.database = TRUE, !.checks = "first",
                                     !.exit = "zero"]
JiraCSVBOMControls == Caught(<<"source">>, 1) \o Caught(<<"csv">>, 2) \o
                      Caught(<<"csv_bom">>, 1) \o
                      Caught(<<"source", "csv">>, 1) \o
                      Caught(<<"source">>, 1) \o Missed(<<"source">>, 1) \o
                      Caught(<<"source">>, 1)

\* scripts/w34-jira-csv-created-controls.py
JiraCSVCreatedHarness == [Harness EXCEPT !.database = TRUE,
                                         !.before = AllEdits, !.scope = "none",
                                         !.stale = "stop", !.checks = "first"]
JiraCSVCreatedControls == Caught(<<"csv">>, 1) \o Caught(<<"store">>, 4) \o
                          Caught(<<"created">>, 5) \o Caught(<<"csv">>, 1) \o
                          Caught(<<"store">>, 1) \o Caught(<<"csv">>, 1)

\* scripts/w34-jira-csv-date-controls.py
JiraCSVDateHarness == [Harness EXCEPT !.database = TRUE, !.stale = "stop",
                                      !.checks = "first"]
JiraCSVDateControls == Caught(<<"store">>, 1) \o Caught(<<"csv">>, 1) \o
                       Caught(<<"store">>, 1) \o Caught(<<"dates">>, 6) \o
                       Caught(<<"csv">>, 2) \o Caught(<<"dates">>, 1)

\* scripts/w34-jira-csv-issue-key-controls.py
JiraCSVIssueKeyHarness == [Harness EXCEPT !.database = TRUE, !.scope = "run",
                                          !.stale = "undo"]
JiraCSVIssueKeyControls == Caught(<<"csv">>, 2) \o Caught(<<"source">>, 1) \o
                           Caught(<<"csv", "csv">>, 2) \o
                           Caught(<<"key", "csv">>, 1) \o
                           Missed(<<"csv", "csv">>, 1) \o
                           Caught(<<"source">>, 1)

\* scripts/w34-jira-csv-labels-controls.py
JiraCSVLabelsHarness == [Harness EXCEPT !.database = TRUE, !.before = AllEdits,
                                        !.checks = "first"]
JiraCSVLabelsControls == Caught(<<"csv">>, 10)

\* scripts/w34-jira-csv-resolution-controls.py
JiraCSVResolutionHarness == [Harness EXCEPT !.database = TRUE,
                                            !.before = AllEdits]
JiraCSVResolutionControls == Caught(<<"csv">>, 1) \o
                             Caught(<<"resolution">>, 6) \o
                             Caught(<<"csv">>, 1) \o
                             Caught(<<"resolution">>, 1) \o
                             Caught(<<"csv">>, 1) \o
                             Caught(<<"resolution">>, 1) \o
                             Caught(<<"runner">>, 1)

\* scripts/w34-jira-csv-status-category-controls.py
JiraCSVStatusCategoryHarness == [Harness EXCEPT !.database = TRUE,
                                                !.checks = "first",
                                                !.exit = "zero"]
JiraCSVStatusCategoryControls == Caught(<<"csv">>, 1) \o
                                 Caught(<<"status_category">>, 1) \o
                                 Caught(<<"csv">>, 2) \o
                                 Caught(<<"status_category">>, 3) \o
                                 Caught(<<"csv">>, 1) \o
                                 Caught(<<"status_category">>, 1) \o
                                 Missed(<<"status_category">>, 1)

\* scripts/w34-jira-csv-updated-controls.py
JiraCSVUpdatedHarness == [Harness EXCEPT !.database = TRUE, !.copy = "control",
                                         !.before = AllEdits]
JiraCSVUpdatedControls ==
    ScoresVoid("red", Caught(<<"csv">>, 1) \o Caught(<<"store">>, 1) \o
                      Caught(<<"updated">>, 5) \o Caught(<<"csv">>, 1) \o
                      Caught(<<"store">>, 1) \o Missed(<<"store">>, 1) \o
                      Missed(<<"updated">>, 1))

\* scripts/w34-jira-resolution-delivered-controls.py
JiraResolutionDeliveredHarness == [Harness EXCEPT !.database = TRUE,
                                                  !.copy = "control",
                                                  !.before = AllEdits,
                                                  !.scope = "none"]
JiraResolutionDeliveredControls == Caught(<<"delivered">>, 4) \o
                                   Caught(<<"job_test">>, 1) \o
                                   Missed(<<"delivered">>, 1)

\* scripts/w34-jobs-upload-authz-order-controls.py
JobsUploadAuthzOrderHarness == [Harness EXCEPT !.database = TRUE,
                                               !.copy = "control",
                                               !.before = AllEdits,
                                               !.verify = "count"]
JobsUploadAuthzOrderControls == Caught(<<"job_handler">>, 2) \o
                                Caught(<<"test">>, 1) \o
                                Caught(<<"job_handler">>, 1) \o
                                Missed(<<"job_handler">>, 1)

\* scripts/w34-linear-csv-dates-controls.py
LinearCSVDatesHarness == [Harness EXCEPT !.database = TRUE, !.copy = "control",
                                         !.before = AllEdits,
                                         !.verify = "count"]
LinearCSVDatesControls == Caught(<<"dates">>, 6) \o Caught(<<"csv">>, 1) \o
                          Caught(<<"dates">>, 2) \o Caught(<<"csv">>, 1) \o
                          Caught(<<"jira_created">>, 1) \o Caught(<<"csv">>, 1)

\* scripts/w34-linear-csv-due-date-controls.py
LinearCSVDueDateHarness == [Harness EXCEPT !.checks = "first"]
LinearCSVDueDateControls == Caught(<<"due">>, 3) \o Caught(<<"csv">>, 2)

\* scripts/w34-linear-csv-issue-id-controls.py
LinearCSVIssueIdHarness == [Harness EXCEPT !.database = TRUE,
                                           !.before = AllEdits,
                                           !.scope = "none", !.stale = "undo",
                                           !.checks = "first", !.exit = "zero"]
LinearCSVIssueIdControls == Caught(<<"csv">>, 1) \o Caught(<<"const">>, 2) \o
                            Caught(<<"csv", "const">>, 2) \o
                            Caught(<<"source">>, 1) \o
                            Caught(<<"const">>, 1) \o Missed(<<"csv">>, 1)

\* scripts/w34-linear-csv-short-row-controls.py
LinearCSVShortRowHarness == [Harness EXCEPT !.database = TRUE, !.scope = "run",
                                            !.stale = "undo",
                                            !.checks = "first",
                                            !.verify = "none", !.exit = "zero"]
LinearCSVShortRowControls == Caught(<<"source">>, 3) \o Caught(<<"csv">>, 2) \o
                             Caught(<<"source">>, 1) \o
                             Caught(<<"runner">>, 1) \o Missed(<<"source">>, 1)

\* scripts/w34-linear-csv-tostring-controls.py
LinearCSVToStringHarness == [Harness EXCEPT !.database = TRUE,
                                            !.copy = "control"]
LinearCSVToStringControls == Caught(<<"dates">>, 2) \o
                             Caught(<<"tostring">>, 3)

\* scripts/w34-linear-csv-updated-controls.py
LinearCSVUpdatedHarness == [Harness EXCEPT !.database = TRUE,
                                           !.before = AllEdits,
                                           !.stale = "undo",
                                           !.checks = "first", !.exit = "zero"]
LinearCSVUpdatedControls == Caught(<<"csv">>, 1) \o Caught(<<"updated">>, 4) \o
                            Caught(<<"store">>, 1) \o
                            Caught(<<"updated">>, 1) \o
                            Missed(<<"updated">>, 1)

\* scripts/w34-linear-date-controls.py
LinearDateHarness == [Harness EXCEPT !.database = TRUE, !.copy = "control",
                                     !.before = AllEdits, !.stale = "stop"]
LinearDateControls == Caught(<<"linear">>, 8) \o Caught(<<"store">>, 1)

\* scripts/w34-linear-description-controls-2q7v.py
LinearDescriptionHarness == [Harness EXCEPT !.baseline = "subtract",
                                            !.scope = "run", !.stale = "stop",
                                            !.checks = "first"]
LinearDescriptionControls == Caught(<<"csv">>, 4) \o Missed(<<"csv">>, 1)

\* scripts/w34-linear-null-team-controls.py
LinearNullTeamHarness == [Harness EXCEPT !.database = TRUE,
                                         !.before = AllEdits,
                                         !.verify = "count"]
LinearNullTeamControls == Caught(<<"linear">>, 5) \o Missed(<<"linear">>, 1)

\* scripts/w34-linear-query-schema-controls.py
LinearQuerySchemaHarness == [Harness EXCEPT !.copy = "control",
                                            !.stale = "stop", !.handler = TRUE]
LinearQuerySchemaControls ==
    ScoresVoid("red", Caught(<<"linear">>, 4) \o Caught(<<"snapshot">>, 1) \o
                      Caught(<<"test">>, 1) \o Caught(<<"snapshot">>, 1) \o
                      Missed(<<"null_team_test">>, 1))

\* scripts/w34-linear-state-type-controls.py
LinearStateTypeHarness == [Harness EXCEPT !.database = TRUE,
                                          !.copy = "control",
                                          !.before = AllEdits,
                                          !.stale = "stop"]
LinearStateTypeControls == Caught(<<"linear">>, 5) \o Caught(<<"csv">>, 3) \o
                           Caught(<<"test">>, 2) \o Caught(<<"runner">>, 1) \o
                           Missed(<<"test", "linear">>, 1)

\* scripts/w34-pagination-termination-controls.py
PaginationTerminationHarness == [Harness EXCEPT !.copy = "control",
                                                !.before = AllEdits,
                                                !.stale = "stop",
                                                !.verify = "none"]
PaginationTerminationControls ==
    ScoresVoid("red", Caught(<<"jira">>, 2) \o Caught(<<"linear">>, 2) \o
                      Caught(<<"jira">>, 1) \o Caught(<<"source">>, 1) \o
                      Caught(<<"runner">>, 1))

\* scripts/w34-payload-lifetime-controls-r8kw.py
PayloadLifetimeHarness == [Harness EXCEPT !.database = TRUE, !.clean = TRUE,
                                          !.copy = "control",
                                          !.verify = "count"]
PayloadLifetimeControls ==
    Caught(<<"jobs">>, 3) \o Caught(<<"test">>, 1) \o
    Uncounted({2}, Caught(<<"core", "core">>, 1)) \o
    Uncounted({2}, Caught(<<"core", "core", "importjobs">>, 1)) \o
    Caught(<<"harness">>, 1) \o Missed(<<"csv">>, 1)

\* scripts/w34-refused-rows-controls.py
RefusedRowsHarness == [Harness EXCEPT !.stale = "stop"]
RefusedRowsControls == Caught(<<"source">>, 2) \o Caught(<<"runner">>, 3) \o
                       Caught(<<"store">>, 1) \o Caught(<<"runner">>, 2)

\* scripts/w34-runner-shutdown-terminal-state-controls.py
RunnerShutdownTerminalStateHarness == [Harness EXCEPT !.database = TRUE,
                                                      !.copy = "control",
                                                      !.before = AllEdits,
                                                      !.verify = "count"]
RunnerShutdownTerminalStateControls == Caught(<<"runner">>, 2) \o
                                       Caught(<<"test">>, 2)

\* scripts/w34-terminal-write-controls-7a3e.py
TerminalWriteHarness == [Harness EXCEPT !.database = TRUE, !.copy = "control",
                                        !.before = AllEdits, !.stale = "stop",
                                        !.checks = "startup",
                                        !.verify = "count"]
TerminalWriteControls == Caught(<<"runner">>, 5) \o Caught(<<"jobs">>, 1) \o
                         Missed(<<"runner">>, 1)

\* scripts/w34-upload-authz-order-controls.py
UploadAuthzOrderHarness == [Harness EXCEPT !.database = TRUE,
                                           !.copy = "control",
                                           !.before = AllEdits,
                                           !.verify = "count"]
UploadAuthzOrderControls == Caught(<<"handler">>, 2) \o
                            Caught(<<"test">>, 1) \o Missed(<<"handler">>, 1)

\* scripts/w34-via-render-population-controls.py
ViaRenderPopulationHarness == [Harness EXCEPT !.copy = "control",
                                              !.stale = "stop"]
ViaRenderPopulationControls == Caught(<<"csv">>, 1) \o
                               Caught(<<"viacensus">>, 1) \o
                               Caught(<<"guard">>, 2) \o
                               Caught(<<"csv">>, 1) \o
                               Caught(<<"dates">>, 1) \o
                               Caught(<<"csv">>, 1) \o Missed(<<"csv">>, 1)

\* scripts/w34-warning-bound-controls.py
WarningBoundHarness == [Harness EXCEPT !.database = TRUE, !.before = AllEdits,
                                       !.checks = "first"]
WarningBoundControls == Caught(<<"source">>, 10)

ImporterScripts == {
    Script(ADFBlockcardHarness, ADFBlockcardControls),
    Script(APICreatedHarness, APICreatedControls),
    Script(APIUpdatedHarness, APIUpdatedControls),
    Script(ColumnIndexTrimHarness, ColumnIndexTrimControls),
    Script(CompletedDivergenceHarness, CompletedDivergenceControls),
    Script(CrossteamIdentifierHarness, CrossteamIdentifierControls),
    Script(CSVClobberedColumnsSameImportHarness, CSVClobberedColumnsSameImportControls),
    Script(CSVColumnReachHarness, CSVColumnReachControls),
    Script(DateHarness, DateControls),
    Script(CorpusCopiesHarness, CorpusCopiesControls),
    Script(CSVClobberedColumnsHarness, CSVClobberedColumnsControls),
    Script(GetallTrimHarness, GetallTrimControls),
    Script(JiraContractHarness, JiraContractControls),
    Script(JiraAPIADFHarness, JiraAPIADFControls),
    Script(JiraAPIResolutionHarness, JiraAPIResolutionControls),
    Script(JiraCSVBOMHarness, JiraCSVBOMControls),
    Script(JiraCSVCreatedHarness, JiraCSVCreatedControls),
    Script(JiraCSVDateHarness, JiraCSVDateControls),
    Script(JiraCSVIssueKeyHarness, JiraCSVIssueKeyControls),
    Script(JiraCSVLabelsHarness, JiraCSVLabelsControls),
    Script(JiraCSVResolutionHarness, JiraCSVResolutionControls),
    Script(JiraCSVStatusCategoryHarness, JiraCSVStatusCategoryControls),
    Script(JiraCSVUpdatedHarness, JiraCSVUpdatedControls),
    Script(JiraResolutionDeliveredHarness, JiraResolutionDeliveredControls),
    Script(JobsUploadAuthzOrderHarness, JobsUploadAuthzOrderControls),
    Script(LinearCSVDatesHarness, LinearCSVDatesControls),
    Script(LinearCSVDueDateHarness, LinearCSVDueDateControls),
    Script(LinearCSVIssueIdHarness, LinearCSVIssueIdControls),
    Script(LinearCSVShortRowHarness, LinearCSVShortRowControls),
    Script(LinearCSVToStringHarness, LinearCSVToStringControls),
    Script(LinearCSVUpdatedHarness, LinearCSVUpdatedControls),
    Script(LinearDateHarness, LinearDateControls),
    Script(LinearDescriptionHarness, LinearDescriptionControls),
    Script(LinearNullTeamHarness, LinearNullTeamControls),
    Script(LinearQuerySchemaHarness, LinearQuerySchemaControls),
    Script(LinearStateTypeHarness, LinearStateTypeControls),
    Script(PaginationTerminationHarness, PaginationTerminationControls),
    Script(PayloadLifetimeHarness, PayloadLifetimeControls),
    Script(RefusedRowsHarness, RefusedRowsControls),
    Script(RunnerShutdownTerminalStateHarness, RunnerShutdownTerminalStateControls),
    Script(TerminalWriteHarness, TerminalWriteControls),
    Script(UploadAuthzOrderHarness, UploadAuthzOrderControls),
    Script(ViaRenderPopulationHarness, ViaRenderPopulationControls),
    Script(WarningBoundHarness, WarningBoundControls)}
=============================================================================
