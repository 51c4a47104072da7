----------------------------- MODULE HashCommand ----------------------------
(***************************************************************************)
(* From the command line to the hashes of one file: main parses its        *)
(* arguments with ak_cli_parse, and a worker calls ak_video_hash with the  *)
(* configuration that came of it.  What is between the two, the scan and   *)
(* the queue, is in Explore and HashQueue.                                 *)
(***************************************************************************)
EXTENDS Cli, VideoHash

vars == <<cliVars, videoVars>>

Init == CliInit /\ VideoInit

ParseStep == Parse /\ UNCHANGED videoVars

(* The fields of the configuration that ak_video_hash reads.               *)
HashOptions ==
  [segments |-> config.segments, skip_duration |-> config.skip_duration,
   bars |-> "detect-bars" \in config.detect]

HashFile ==
  /\ action = "RUN"
  /\ ak_video_hash(HashOptions)
  /\ UNCHANGED cliVars

Program == ParseStep \/ HashFile \/ (HashStep /\ UNCHANGED cliVars)

Ended == action \notin {"parsing", "RUN"} \/ step \in {"done", "undefined", "aborted"}

Terminated == Ended /\ UNCHANGED vars

Next == Program \/ (RequestShutdown /\ UNCHANGED cliVars) \/ Terminated

Spec == Init /\ [][Next]_vars

(* One thread runs the program; libav's calls return.                      *)
FairSpec == Spec /\ WF_vars(Program)

(* Every command line is refused, answered or leads to a file that is      *)
(* hashed, skipped or failed, however the file's frames and keyframes lie  *)
(* and whatever libav's calls return.                                      *)
CommandEnds == <>Ended
=============================================================================
