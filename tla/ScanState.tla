----------------------------- MODULE ScanState -----------------------------
(***************************************************************************)
(* The states a scan run can occupy and the moves between them: the        *)
(* transition table of core/scan_state.py, as operators.                   *)
(***************************************************************************)

ScanRunState ==
    {"queued", "running", "analysing", "completed", "cancelled", "timed_out", "failed"}

TerminalStates == {"completed", "cancelled", "timed_out", "failed"}

(* A terminal state of a run that did not finish its work. *)
StopStates == TerminalStates \ {"completed"}

AllowedTransitions ==
    [s \in ScanRunState |->
        CASE s = "queued"    -> {"running"} \union StopStates
          [] s = "running"   -> {"analysing"} \union StopStates
          [] s = "analysing" -> {"completed"} \union StopStates
          [] OTHER           -> {}]

IsTerminal(s) == s \in TerminalStates

(* transition() raises InvalidScanTransition exactly when this is false. *)
MayMove(s, t) == s \in ScanRunState /\ t \in AllowedTransitions[s]
=============================================================================
