---------------------------- MODULE ProgressBar -----------------------------
(***************************************************************************)
(* The progress bar (ui.c): a monitor thread polls the counter of finished *)
(* files until it is told to stop or has seen the last file.  The counter  *)
(* belongs to the work queue and is a parameter of the step that reads it. *)
(***************************************************************************)
EXTENDS Integers

VARIABLES
  is_active,      (* atomic: the monitor should go on                        *)
  total_count,    (* number of files the bar counts up to                    *)
  mon_pc,         (* where the monitor thread is                             *)
  shown           (* the count last drawn, -1 before the first               *)

barVars == <<is_active, total_count, mon_pc, shown>>

Init ==
  /\ is_active = FALSE
  /\ total_count = 0
  /\ mon_pc = "unborn"
  /\ shown = -1

(* ak_ui_progress_start: refused for an empty total; no thread when the    *)
(* output is no terminal, or when it cannot be created.                    *)
Start(total) ==
  \/ /\ total # 0
     /\ is_active' = TRUE
     /\ total_count' = total
     /\ mon_pc' = "test"
     /\ UNCHANGED shown
  \/ UNCHANGED barVars

(* The head of the monitor's loop.                                         *)
Test ==
  /\ mon_pc = "test"
  /\ mon_pc' = IF is_active THEN "draw" ELSE "exited"
  /\ UNCHANGED <<is_active, total_count, shown>>

(* It reads the counter, draws it, and leaves when it has seen the total;  *)
(* the sleep of 150ms is the wait before the next Test.                    *)
Draw(completed) ==
  /\ mon_pc = "draw"
  /\ shown' = completed
  /\ mon_pc' = IF completed >= total_count THEN "exited" ELSE "test"
  /\ UNCHANGED <<is_active, total_count>>

(* Mutant: the flag the monitor polls is not cleared.                      *)
DeactivateNot == UNCHANGED barVars

(* ak_ui_progress_stop up to the join: nothing to do for an inactive bar.  *)
Deactivate ==
  /\ is_active' = FALSE
  /\ UNCHANGED <<total_count, mon_pc, shown>>

(* What the join waits for.                                                *)
Joinable == mon_pc # "unborn" => mon_pc = "exited"
=============================================================================
