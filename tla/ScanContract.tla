---------------------------- MODULE ScanContract ----------------------------
(***************************************************************************)
(* What ScanRepository promises once discovery is over: one atomic step    *)
(* that either returns the report of everything discovered, or, only when  *)
(* the context was canceled, returns an error and no report.               *)
(***************************************************************************)

CONSTANT ReportFor(_)  \* the report each discovery calls for

VARIABLES
    discovery,  \* what discoverFiles left
    ctxDone,    \* has the context been canceled?
    result      \* what the caller got

cvars == <<discovery, ctxDone, result>>

Pending  == [status |-> "pending"]
Canceled == [status |-> "canceled"]
Returned == [status |-> "returned", report |-> ReportFor(discovery)]

CInit == ctxDone = FALSE /\ result = Pending

CCancel == ~ctxDone /\ ctxDone' = TRUE /\ UNCHANGED <<discovery, result>>

CReturn ==
    /\ result = Pending
    /\ ~ctxDone
    /\ result' = Returned
    /\ UNCHANGED <<discovery, ctxDone>>

CAbort ==
    /\ result = Pending
    /\ ctxDone
    /\ result' = Canceled
    /\ UNCHANGED <<discovery, ctxDone>>

CNext == CCancel \/ CReturn \/ CAbort

CSpec == CInit /\ [][CNext]_cvars /\ WF_cvars(CReturn \/ CAbort)
=============================================================================
