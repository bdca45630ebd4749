--------------------------- MODULE FrpServerReport ---------------------------
(***************************************************************************)
(* FrpServerController with a history variable, and what it implements.    *)
(* No step depends on the history: it only remembers for which verdicts    *)
(* there have been grounds since the object was last written.              *)
(***************************************************************************)
EXTENDS FrpServerController

VARIABLE grounds

reportVars == <<vars, grounds>>

object == IF stored.uid = 0 THEN {} ELSE {<<stored.uid, stored.spec>>}
open == stored.uid # 0 /\ stored.spec \in remote

Report == INSTANCE HealthReport WITH phase <- stored.phase

(* The login of this step has failed without the frp server's doing.       *)
ProbeFails == pc' = "write" /\ fuel'["fault"] # fuel["fault"]

Remember ==
    grounds' = (IF stored' = stored THEN grounds ELSE {})
               \union Report!Finding(open')
               \union (IF ProbeFails THEN {"Unhealthy"} ELSE {})

ReportInit == Init /\ grounds = Report!Finding(open)
ReportNext == Next /\ Remember
ReportSpec == ReportInit /\ [][ReportNext]_reportVars
FairReportSpec == ReportSpec /\ Fairness

(* The controller with its lagging cache, its queue, its retries and the   *)
(* requests of its dead processes reports honestly: a verdict goes into    *)
(* the status only if it was true at some moment since the version it is   *)
(* written on top of, never on the strength of an older login              *)
(* (frpserver_controller.go:68-93).                                        *)
ReportsHonestly == Report!Spec
=============================================================================
