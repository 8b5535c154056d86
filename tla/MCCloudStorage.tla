--------------------------- MODULE MCCloudStorage ---------------------------
(* CloudStorage with one thread that lists, one that uses an export,        *)
(* and one that closes.                                                     *)
EXTENDS CloudStorage

CONSTANTS lister, user, closer, e1

\* Native calls that may fail.  Not the cancel of a list request, on which
\* ListReturns and CloseReturns rest, nor the report of an export, after whose
\* failure a task is where it is after that of its destruction.
MostRefusals == Refusable \ {"request_cancel", "export_report"}
NoRefusals   == {}
=============================================================================
