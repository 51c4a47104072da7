------------------------------ MODULE HashJobs ------------------------------
(***************************************************************************)
(* What the hashing phase promises, without workers, indices or counters:  *)
(* every file found is looked up once; a file the cache does not know is   *)
(* hashed at most once, by one worker at a time; when it is hashed its     *)
(* status is final; and once the phase was told to stop nothing new is     *)
(* started.  HashQueue is shown to implement this specification.           *)
(***************************************************************************)

CONSTANTS Files,      (* the files the scan found                            *)
          Outcomes    (* the status codes ak_video_hash can return           *)

VARIABLES job,        (* job[f]: what is known of file f                     *)
          stopped     (* nothing new may be started                          *)

jobVars == <<job, stopped>>

Waiting == {"unknown", "cached", "queued", "running"}

JobsTypeOK ==
  /\ job \in [Files -> Waiting \cup Outcomes]
  /\ stopped \in BOOLEAN

Init ==
  /\ job = [f \in Files |-> "unknown"]
  /\ stopped = FALSE

(* The cache lookup decides whether f is hashed at all.                    *)
Admit(f) ==
  /\ job[f] = "unknown"
  /\ \E s \in {"cached", "queued"} : job' = [job EXCEPT ![f] = s]
  /\ UNCHANGED stopped

Start(f) ==
  /\ job[f] = "queued"
  /\ ~stopped
  /\ job' = [job EXCEPT ![f] = "running"]
  /\ UNCHANGED stopped

Finish(f) ==
  /\ job[f] = "running"
  /\ \E s \in Outcomes : job' = [job EXCEPT ![f] = s]
  /\ UNCHANGED stopped

Stop ==
  /\ stopped' = TRUE
  /\ UNCHANGED job

Next ==
  \/ \E f \in Files : Admit(f) \/ Start(f) \/ Finish(f)
  \/ Stop

Spec == Init /\ [][Next]_jobVars

(* A file being hashed is eventually hashed, stop or no stop.              *)
FairSpec == Spec /\ \A f \in Files : WF_jobVars(Finish(f))
=============================================================================
