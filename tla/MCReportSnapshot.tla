-------------------------- MODULE MCReportSnapshot --------------------------
(* Instances of ReportSnapshot for TLC.                                     *)
EXTENDS ReportSnapshot

CONSTANTS collector, fixture, import

MCFacts == 1..3
AnyEdit == MCFacts \X MCFacts

MCCollector == {collector}
MCCalculators == {collector, fixture}
MCImporters == {import}
=============================================================================
