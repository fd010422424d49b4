----------------------------- MODULE ReportStore -----------------------------
(***************************************************************************)
(* What an analysis run promises to those who read it: its report is        *)
(* missing or whole, is only ever replaced by another whole one, and is     *)
(* there when the run says completed.                                       *)
(***************************************************************************)
CONSTANTS Reports, None
VARIABLES status, report

Init == status = "queued" /\ report = None

Work ==
    /\ status' \in {"running", "failed"}
    /\ UNCHANGED report

Store ==
    /\ report' \in Reports
    /\ UNCHANGED status

Complete ==
    /\ report # None
    /\ status' = "completed"
    /\ UNCHANGED report

Next == Work \/ Store \/ Complete
Spec == Init /\ [][Next]_<<status, report>>
=============================================================================
