----------------------------- MODULE MCReport -------------------------------
(***************************************************************************)
(* Report on a small instance.  Flipping the same bits of every hash       *)
(* changes no distance, and the code looks at hashes by their distances    *)
(* only, so one of them may be taken to be {}.                             *)
(***************************************************************************)
EXTENDS Report

MCInit == Init /\ entries[0][0] = {}

MCSpec == MCInit /\ [][Next]_vars /\ WF_vars(Next)
=============================================================================
