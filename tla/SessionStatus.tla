--------------------------- MODULE SessionStatus ---------------------------
(***************************************************************************)
(* The session status vocabulary and the transition table that             *)
(* session/state_machine.py declares.  Constant-level only: every module   *)
(* that writes a session status extends this one.                          *)
(***************************************************************************)

\* A session row that is not in the database (before create, after delete).
Absent == "absent"

Statuses == {"idle", "connecting", "working", "paused",
             "waiting", "blocked", "disconnected"}

VALID_TRANSITIONS ==
  [ idle         |-> {"connecting", "working", "paused"},
    connecting   |-> {"idle", "working", "disconnected"},
    working      |-> {"idle", "paused", "waiting", "blocked", "disconnected"},
    paused       |-> {"working", "idle", "disconnected"},
    waiting      |-> {"working", "idle", "paused", "blocked", "disconnected"},
    blocked      |-> {"working", "idle", "paused", "disconnected"},
    disconnected |-> {"connecting", "working", "waiting", "blocked"} ]

is_valid_transition(current, target) ==
  /\ current \in Statuses
  /\ target \in VALID_TRANSITIONS[current]

RECONNECTABLE_STATES == {"disconnected"}

is_reconnectable(st) == st \in RECONNECTABLE_STATES

\* The statuses under which the dashboard shows a worker as attached.
Connected == Statuses \ {"connecting", "disconnected"}

=============================================================================
