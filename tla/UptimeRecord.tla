---------------------------- MODULE UptimeRecord ----------------------------
(***************************************************************************)
(* What the record of one VM promises about its uptime: the clock, the     *)
(* row, and the two promises. VmUptime says how they change.               *)
(***************************************************************************)
EXTENDS Naturals

VARIABLES
    now,       \* the clock
    row        \* Status, LastStatusChangeAt and TotalRunTimeSeconds in the table

\* The recorded uptime never exceeds the time the record has existed, however
\* the sync's stale row, the pages' writes and reactivations interleave.
UptimeWithinLife == row.total <= now

\* The recorded uptime never goes back: no write restores an older total.
UptimeNeverShrinks == [][row'.total >= row.total]_row
=============================================================================
