---------------------------- MODULE BuildStatus ----------------------------
(***************************************************************************)
(* The customer-facing lifecycle of an iOS build and the guard build-      *)
(* gateway applies to every reported status                                *)
(* (build-gateway/internal/builds/model.go).                               *)
(*                                                                         *)
(* A status report carries a free-form note.  The guard only asks whether  *)
(* the note contains the slug "scheduler_paused", so a note is one of a    *)
(* few values and PausedNote stands for every note with the slug.          *)
(*                                                                         *)
(* Here and in the modules that follow, a definition marked "Mutated" is a *)
(* wrong variant of the one after it; no specification uses it.            *)
(***************************************************************************)

\* The five final statuses: the gateway stops emitting updates there.
Terminals == {"succeeded", "failed", "timed_out", "cancelled", "rejected"}

Status == {"queued", "dispatched", "running"} \cup Terminals

PausedNote == "scheduler_paused"

\* The rejection the daemon's dispatch stream emits when its scheduler is
\* paused: the only one the gateway does not treat as authoritative.
IsStreamSchedulerRejection(next, note) ==
  next = "rejected" /\ note = PausedNote

\* Mutated: a terminal status gives way to another terminal status.
AllowedTransition_LastTerminalWins(cur, next) ==
  cur = next \/ cur \notin Terminals \/ next \in Terminals

\* A terminal status is sticky; repeating the current status is allowed.
AllowedTransition(cur, next) ==
  cur = next \/ cur \notin Terminals

\* Mutated: only a running build is protected.
Downgrade_RunningOnly(cur, next, note) ==
  /\ IsStreamSchedulerRejection(next, note)
  /\ cur = "running"

\* The split-brain case: the poll path already drives the build, so the
\* stream's scheduler_paused rejection is dropped without an error.
Downgrade(cur, next, note) ==
  /\ IsStreamSchedulerRejection(next, note)
  /\ cur \in {"running", "dispatched"}

\* The report is written to the record.
AllowStatusUpdate(cur, next, note) ==
  /\ ~Downgrade(cur, next, note)
  /\ AllowedTransition(cur, next)
=============================================================================
