----------------------------- MODULE MCPreviews -----------------------------
(* Small instances of Previews for TLC. *)
EXTENDS Previews

(* One launch and three cancellations compete.                             *)
LogGoal == [launcher |-> "submit", owner |-> "stop", purge |-> "stop", expiry |-> "stop"]
LogWriters == DOMAIN LogGoal
=============================================================================
