---------------------------- MODULE SignalWatch -----------------------------
(***************************************************************************)
(* The signal watcher (signals.c).  SIGINT and SIGTERM are blocked in      *)
(* every thread; a detached thread takes the first one with sigwait,       *)
(* records it, unblocks both signals for itself and runs the callback      *)
(* registered in ak_signals_ctx.  The kernel's part - a blocked signal     *)
(* stays pending, and repeated ones merge - is modelled with it.           *)
(*                                                                         *)
(* All accesses of on_shutdown are sequentially consistent on the driver's *)
(* side, and on the watcher's side three system calls and a locked stdio   *)
(* write separate the store of received from the load of on_shutdown, so   *)
(* steps are interleaved in program order.                                 *)
(***************************************************************************)
EXTENDS Integers

CONSTANTS Signals      (* the signal numbers that can be sent                *)

VARIABLES
  pending,            (* signals sent to the process, blocked and not taken  *)
  received,           (* atomic: 0, or the signal that was recorded          *)
  on_shutdown,        (* atomic: the callback, "NULL" or its name            *)
  on_shutdown_data,   (* its argument, "NULL" or "thread_ctx"                *)
  watch_pc,           (* where the watcher thread is                         *)
  signo,              (* the watcher's local: what sigwait returned          *)
  killed              (* the default action of a signal ended the process    *)

signalVars == <<pending, received, on_shutdown, on_shutdown_data, watch_pc, signo, killed>>

(* ak_signals_install: nothing received, no callback, watcher created.     *)
Init ==
  /\ pending = {}
  /\ received = 0
  /\ on_shutdown = "NULL"
  /\ on_shutdown_data = "NULL"
  /\ watch_pc = "sigwait"
  /\ signo = 0
  /\ killed = FALSE

(* Only the watcher ever unblocks the signals, and only for itself: the    *)
(* mask is gone when the thread is.                                        *)
Unblocked == watch_pc \in {"notify", "call"}

(* Somebody presses ctrl+c, or sends SIGTERM.                              *)
Raise(s) ==
  /\ IF Unblocked
       THEN killed' = TRUE /\ UNCHANGED pending
       ELSE pending' = pending \cup {s} /\ UNCHANGED killed
  /\ UNCHANGED <<received, on_shutdown, on_shutdown_data, watch_pc, signo>>

SigWait ==
  /\ watch_pc = "sigwait"
  /\ \E s \in pending :
       /\ signo' = s
       /\ pending' = pending \ {s}
  /\ watch_pc' = "record"
  /\ UNCHANGED <<received, on_shutdown, on_shutdown_data, killed>>

Record ==
  /\ watch_pc = "record"
  /\ received' = signo
  /\ watch_pc' = "arm"
  /\ UNCHANGED <<pending, on_shutdown, on_shutdown_data, signo, killed>>

(* SIG_DFL for both signals, then SIG_UNBLOCK: a signal that came meanwhile *)
(* is delivered at once.                                                    *)
ArmHardKill ==
  /\ watch_pc = "arm"
  /\ killed' = (pending # {})
  /\ watch_pc' = "notify"
  /\ UNCHANGED <<pending, received, on_shutdown, on_shutdown_data, signo>>

(* The load of on_shutdown; with no callback the thread returns.           *)
LoadCallback ==
  /\ watch_pc = "notify"
  /\ watch_pc' = IF on_shutdown = "NULL" THEN "exited" ELSE "call"
  /\ UNCHANGED <<pending, received, on_shutdown, on_shutdown_data, signo, killed>>

(* The callback has run (its effect is the registrant's) and the thread    *)
(* returns.                                                                *)
CallbackReturns ==
  /\ watch_pc = "call"
  /\ watch_pc' = "exited"
  /\ UNCHANGED <<pending, received, on_shutdown, on_shutdown_data, signo, killed>>

(* The registrant's stores.                                                *)
SetData(d) ==
  /\ on_shutdown_data' = d
  /\ UNCHANGED <<pending, received, on_shutdown, watch_pc, signo, killed>>

SetCallback(cb) ==
  /\ on_shutdown' = cb
  /\ UNCHANGED <<pending, received, on_shutdown_data, watch_pc, signo, killed>>

ak_shutdown_requested == received # 0

ak_shutdown_exit_code == IF received # 0 THEN 128 + received ELSE 0

=============================================================================
