---------------------------- MODULE ScanContext ----------------------------
(***************************************************************************)
(* The context.Context one call of scanRepository (scan.go) hands to the   *)
(* walk, to the workers and to the matcher: they share its cancellation.   *)
(***************************************************************************)
EXTENDS ScanReport

VARIABLE ctxDone    \* is ctx.Done() closed?
=============================================================================
