---------------------------- MODULE MCReportPages ----------------------------
(* Instances of ReportPages for TLC.                                        *)
EXTENDS ReportPages, TLC

CONSTANTS collector, import, jobs, view

MCFacts == 1..2
AnyEdit == MCFacts \X MCFacts
MCCollector == {collector}
MCImporters == {import}
MCParts == {jobs, view}
PartsAreAlike == Permutations(MCParts)
=============================================================================
