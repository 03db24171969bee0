---------------------------- MODULE MCReportdTask ----------------------------
(* Two Start calls, a workflow of two events, the first of them the one the *)
(* quirk is about; exit codes: success, a failure, the quirk's code.        *)
EXTENDS ReportdTask

MCChain == <<"report_uReport", "report_Bugzilla">>

MCExitCodes == {0, 1, 70}
==============================================================================
