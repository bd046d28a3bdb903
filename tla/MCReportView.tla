---------------------------- MODULE MCReportView ----------------------------
(***************************************************************************)
(* ReportView with two experiments and one pair of them to compare.        *)
(***************************************************************************)
EXTENDS ReportView

CONSTANTS e1, e2

MCPairs == {<<e1, e2>>}
=============================================================================
