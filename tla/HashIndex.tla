------------------------------ MODULE HashIndex -----------------------------
(***************************************************************************)
(* What an index of hashes promises: entries are added, and a query for a  *)
(* hash and a tolerance is answered with exactly the files that have a     *)
(* hash within that tolerance.  BkTree is shown to implement it without    *)
(* looking at every entry.                                                 *)
(***************************************************************************)
EXTENDS Integers

CONSTANTS Hash,             (* the hashes                                    *)
          FileIds,          (* the files they belong to                      *)
          Tolerances,       (* the tolerances that are asked for             *)
          distance(_, _)    (* how different two hashes are                  *)

VARIABLES entries,          (* the pairs <<hash, file>> added so far         *)
          query,            (* the query being answered, <<>> for none       *)
          answer            (* the files found by the last query answered    *)

indexVars == <<entries, query, answer>>

Matches(h, tol) == {f \in FileIds : \E e \in entries : e[2] = f /\ distance(e[1], h) <= tol}

Init ==
  /\ entries = {}
  /\ query = <<>>
  /\ answer = {}

Add(h, f) ==
  /\ query = <<>>
  /\ entries' = entries \cup {<<h, f>>}
  /\ UNCHANGED <<query, answer>>

Ask(h, tol) ==
  /\ query = <<>>
  /\ query' = <<h, tol>>
  /\ answer' = {}
  /\ UNCHANGED entries

Answer ==
  /\ query # <<>>
  /\ answer' = Matches(query[1], query[2])
  /\ query' = <<>>
  /\ UNCHANGED entries

Next ==
  \/ \E h \in Hash, f \in FileIds : Add(h, f)
  \/ \E h \in Hash, tol \in Tolerances : Ask(h, tol)
  \/ Answer

Spec == Init /\ [][Next]_indexVars
=============================================================================
