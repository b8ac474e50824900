-------------------------- MODULE TaskStateMachine --------------------------
(***************************************************************************)
(* The task state machine of fleet_api/tasks/state_machine.py: the         *)
(* statuses, the terminal ones and the table of valid transitions.  It has *)
(* no variables; the modules about tasks extend it.                        *)
(***************************************************************************)

\* The members of the enum TaskStatus, by value.
TaskStatus == {"accepted", "running", "paused", "completed",
               "failed", "cancelled", "retasked", "redirected"}

TERMINAL_STATES ==
    {"completed", "failed", "cancelled", "retasked", "redirected"}

\* dict.get(status, set()): the statuses the table does not list have no exit.
VALID_TRANSITIONS ==
    [s \in TaskStatus |->
        CASE s = "accepted"  -> {"running", "cancelled", "failed"}
          [] s = "running"   -> {"completed", "failed", "paused",
                                 "cancelled", "redirected"}
          [] s = "paused"    -> {"running", "cancelled", "redirected"}
          [] s = "completed" -> {"retasked"}
          [] s = "failed"    -> {"retasked"}
          [] OTHER           -> {}]

\* validate_transition raises InvalidStateTransition when this is FALSE.
validate_transition(from, to) == to \in VALID_TRANSITIONS[from]

is_terminal(status) == status \in TERMINAL_STATES
=============================================================================
