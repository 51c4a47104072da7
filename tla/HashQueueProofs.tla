-------------------------- MODULE HashQueueProofs ---------------------------
(***************************************************************************)
(* Theorems about the work queue for any number of files and workers.      *)
(*                                                                         *)
(* The inductive invariant says how the pieces of hashing_thread_ctx hang  *)
(* together: queue slots name distinct files; the indices handed out are   *)
(* below current_idx and no two workers hold the same one; a file whose    *)
(* slot is not handed out, or is held by a worker that has not stored a    *)
(* result, is PENDING; and while the queue is not poisoned every slot that *)
(* was handed out is settled or still held.                                *)
(***************************************************************************)
EXTENDS HashQueue, FiniteSetTheorems, TLAPS

(* Workers between the fetch-and-add and the end of a turn of the loop.    *)
Holds(w) == wpc[w] \in {"check", "hash", "count"}

(* The lookup loop: files below looked have a status, and those that are   *)
(* not cached have a slot.                                                 *)
LookupInv ==
  /\ \A f \in Files : f >= looked <=> results[f] = "unset"
  /\ \A i \in 1 .. Queued : pending_indices[i] < looked
  /\ \A i, j \in 1 .. Queued : pending_indices[i] = pending_indices[j] => i = j
  /\ \A f \in Files : results[f] \notin {"unset", "AK_STATUS_FILE_CACHED"}
                        => \E i \in 1 .. Queued : pending_indices[i] = f

(* Nothing runs before the context exists; then the queue is fixed, and    *)
(* its length is the true one or zero.                                     *)
PackageInv ==
  /\ ~packaged => /\ current_idx = 0
                  /\ \A w \in Workers : wpc[w] = "unborn"
  /\ packaged => /\ looked = FileCount
                 /\ pending_count \in {0, Queued}

(* Claims are exclusive, and only real slots are worked on.                *)
ClaimInv ==
  /\ \A w \in Workers : Holds(w) => q_idx[w] < current_idx
  /\ \A w \in Workers : wpc[w] \in {"hash", "count"} => q_idx[w] < Queued
  /\ \A v, w \in Workers : Holds(v) /\ Holds(w) /\ q_idx[v] = q_idx[w] => v = w

(* What nobody has finished is PENDING.                                    *)
PendingInv ==
  /\ \A i \in 1 .. Queued :
       i > current_idx => results[pending_indices[i]] = "AK_STATUS_FILE_PENDING"
  /\ \A w \in Workers :
       wpc[w] \in {"check", "hash"} /\ q_idx[w] < Queued
         => results[FileOf(w)] = "AK_STATUS_FILE_PENDING"

(* While the queue is not poisoned nothing that was handed out is lost,    *)
(* and a worker leaves only when everything was handed out.                *)
ProgressInv ==
  packaged /\ pending_count = Queued =>
    /\ \A i \in 1 .. Queued :
         i <= current_idx => \/ Settled(pending_indices[i])
                             \/ \E w \in Workers : /\ wpc[w] \in {"check", "hash"}
                                                   /\ q_idx[w] = i - 1
    /\ \A w \in Workers : wpc[w] = "exited" => current_idx >= Queued

IInv ==
  /\ QueueTypeOK
  /\ LookupInv
  /\ PackageInv
  /\ ClaimInv
  /\ PendingInv
  /\ ProgressInv
  /\ HashedIsWhole

(* Every slot of the queue names a file.                                   *)
LEMMA SlotIsFile ==
  ASSUME QueueTypeOK, NEW i \in 1 .. Queued
  PROVE  pending_indices[i] \in Files
  BY DEF QueueTypeOK, Queued

(* The invariant holds initially.                                          *)
LEMMA InitIInv == Init => IInv
<1> SUFFICES ASSUME Init PROVE IInv
  OBVIOUS
<1> USE FileCountAssumption DEF Init
<1>1. QueueTypeOK
  <2>1. pending_indices \in Seq(Files) /\ looked \in 0 .. FileCount
    OBVIOUS
  <2> QED
    BY <2>1 DEF QueueTypeOK, Statuses, WorkerStates
<1>2. LookupInv
  BY DEF LookupInv, Files, Queued
<1>3. PackageInv /\ ClaimInv /\ PendingInv /\ ProgressInv
  BY DEF PackageInv, ClaimInv, PendingInv, ProgressInv, Holds, Queued, Files
<1>4. HashedIsWhole
  BY DEF HashedIsWhole, Files
<1> QED
  BY <1>1, <1>2, <1>3, <1>4 DEF IInv

(* A step keeps the types: slots and claimed indices are what is written.  *)
LEMMA TypeStep ==
  ASSUME IInv, [Next]_queueVars
  PROVE  QueueTypeOK'
<1> USE FileCountAssumption
<1>0. QueueTypeOK /\ ClaimInv
  BY DEF IInv
<1> USE DEF QueueTypeOK, Statuses, WorkerStates, Outcomes
<1>1. CASE UNCHANGED queueVars
  BY <1>0, <1>1 DEF queueVars
<1>2. CASE CacheHit
  BY <1>0, <1>2 DEF CacheHit, Files
<1>3. ASSUME NEW slice \in {"zero", "partial"}, Enqueue(slice) PROVE QueueTypeOK'
  <2>1. looked \in Files /\ looked' \in 0 .. FileCount
    BY <1>0, <1>3 DEF Enqueue, Files
  <2>2. pending_indices' \in Seq(Files)
    BY <1>0, <1>3, <2>1 DEF Enqueue
  <2> QED
    BY <1>0, <1>3, <2>1, <2>2 DEF Enqueue
<1>4. CASE Package
  BY <1>0, <1>4 DEF Package
<1>5. ASSUME NEW w \in Workers, Spawn(w) \/ Leave(w)
      PROVE  QueueTypeOK'
  BY <1>0, <1>5 DEF Spawn, Leave
<1>9. ASSUME NEW w \in Workers, Claim(w)
      PROVE  QueueTypeOK'
  BY <1>0, <1>9 DEF Claim
<1>10. ASSUME NEW w \in Workers, CountDone(w)
      PROVE  QueueTypeOK'
  BY <1>0, <1>10 DEF CountDone
<1>6. ASSUME NEW w \in Workers, StartHash(w) PROVE QueueTypeOK'
  BY <1>0, <1>6 DEF StartHash
<1>7. ASSUME NEW w \in Workers, FinishHash(w) PROVE QueueTypeOK'
  <2>1. results' \in [Files -> Statuses]
    BY <1>0, <1>7 DEF FinishHash
  <2>2. entries' \in [Files -> {"zero", "partial", "full"}]
    BY <1>0, <1>7 DEF FinishHash
  <2>3. wpc' \in [Workers -> WorkerStates]
    BY <1>0, <1>7 DEF FinishHash
  <2> QED
    BY <1>0, <1>7, <2>1, <2>2, <2>3 DEF FinishHash
<1>8. CASE Poison
  BY <1>0, <1>8 DEF Poison
<1> QED
  BY <1>1, <1>2, <1>3, <1>4, <1>5, <1>6, <1>7, <1>8, <1>9, <1>10 DEF Next, WorkerStep

(* A worker that hashes works on a file that is PENDING.                   *)
LEMMA HashedFileIsPending ==
  ASSUME IInv, NEW w \in Workers,
         wpc[w] = "hash" \/ (wpc[w] = "check" /\ q_idx[w] < Queued)
  PROVE  /\ q_idx[w] + 1 \in 1 .. Queued
         /\ FileOf(w) \in Files
         /\ results[FileOf(w)] = "AK_STATUS_FILE_PENDING"
<1>1. QueueTypeOK /\ ClaimInv /\ PendingInv
  BY DEF IInv
<1>2. q_idx[w] < Queued
  BY <1>1 DEF ClaimInv
<1>3. q_idx[w] + 1 \in 1 .. Queued
  BY <1>1, <1>2 DEF QueueTypeOK, Queued
<1>4. FileOf(w) \in Files
  BY <1>1, <1>3, SlotIsFile DEF FileOf
<1>5. results[FileOf(w)] = "AK_STATUS_FILE_PENDING"
  BY <1>1, <1>2 DEF PendingInv
<1> QED
  BY <1>3, <1>4, <1>5

(* A worker starts to hash a real slot, whether or not the queue has been  *)
(* poisoned since.                                                         *)
LEMMA StartHashIsInQueue ==
  ASSUME IInv, NEW w \in Workers, StartHash(w)
  PROVE  wpc[w] = "check" /\ q_idx[w] < Queued
<1>1. QueueTypeOK /\ PackageInv
  BY DEF IInv
<1>2. packaged
  BY <1>1 DEF PackageInv, StartHash
<1>3. pending_count \in {0, Queued}
  BY <1>1, <1>2 DEF PackageInv
<1> QED
  BY <1>1, <1>3 DEF StartHash, QueueTypeOK

LEMMA LookupStep ==
  ASSUME IInv, [Next]_queueVars
  PROVE  LookupInv'
<1> USE FileCountAssumption
<1>0. QueueTypeOK /\ LookupInv
  BY DEF IInv
<1>1. CASE UNCHANGED <<results, looked, pending_indices>>
  BY <1>0, <1>1 DEF LookupInv, Queued
<1>2. CASE CacheHit
  <2>1. /\ looked \in Files
        /\ looked' = looked + 1
        /\ results' = [results EXCEPT ![looked] = "AK_STATUS_FILE_CACHED"]
        /\ pending_indices' = pending_indices
    BY <1>0, <1>2 DEF CacheHit, QueueTypeOK, Files
  <2>2. \A f \in Files : f >= looked' <=> results'[f] = "unset"
    BY <1>0, <2>1 DEF LookupInv, Files, QueueTypeOK
  <2>3. \A i \in 1 .. Queued' : pending_indices'[i] < looked'
    BY <1>0, <2>1, SlotIsFile DEF LookupInv, Files, Queued
  <2>4. \A f \in Files : results'[f] \notin {"unset", "AK_STATUS_FILE_CACHED"}
                            => \E i \in 1 .. Queued' : pending_indices'[i] = f
    BY <1>0, <2>1 DEF LookupInv, QueueTypeOK, Queued
  <2> QED
    BY <1>0, <2>1, <2>2, <2>3, <2>4 DEF LookupInv, Queued
<1>3. ASSUME NEW slice \in {"zero", "partial"}, Enqueue(slice) PROVE LookupInv'
  <2>1. /\ looked \in Files
        /\ looked' = looked + 1
        /\ results' = [results EXCEPT ![looked] = "AK_STATUS_FILE_PENDING"]
        /\ pending_indices' = Append(pending_indices, looked)
    BY <1>0, <1>3 DEF Enqueue, QueueTypeOK, Files
  <2>2. /\ Queued \in Nat
        /\ Queued' = Queued + 1
        /\ \A i \in 1 .. Queued : pending_indices'[i] = pending_indices[i]
        /\ pending_indices'[Queued + 1] = looked
    BY <1>0, <2>1 DEF QueueTypeOK, Queued
  <2>3. \A f \in Files : f >= looked' <=> results'[f] = "unset"
    BY <1>0, <2>1 DEF LookupInv, Files, QueueTypeOK
  <2>4. \A i \in 1 .. Queued' : pending_indices'[i] < looked'
    BY <1>0, <2>1, <2>2, SlotIsFile DEF LookupInv, Files
  <2>5. \A i, j \in 1 .. Queued' : pending_indices'[i] = pending_indices'[j] => i = j
    BY <1>0, <2>1, <2>2, SlotIsFile DEF LookupInv, Files
  <2>6. ASSUME NEW f \in Files, results'[f] \notin {"unset", "AK_STATUS_FILE_CACHED"}
        PROVE  \E i \in 1 .. Queued' : pending_indices'[i] = f
    <3>1. CASE f = looked
      BY <3>1, <2>2
    <3>2. CASE f # looked
      BY <1>0, <2>1, <2>2, <2>6, <3>2 DEF LookupInv, QueueTypeOK
    <3> QED
      BY <3>1, <3>2
  <2> QED
    BY <2>3, <2>4, <2>5, <2>6 DEF LookupInv
<1>4. ASSUME NEW w \in Workers, FinishHash(w) PROVE LookupInv'
  <2>1. PICK s \in Outcomes : results' = [results EXCEPT ![FileOf(w)] = s]
    BY <1>4 DEF FinishHash
  <2>2. FileOf(w) \in Files /\ results[FileOf(w)] = "AK_STATUS_FILE_PENDING"
    BY <1>4, HashedFileIsPending DEF FinishHash
  <2>3. looked' = looked /\ pending_indices' = pending_indices
    BY <1>4 DEF FinishHash
  <2>4. s # "unset" /\ s # "AK_STATUS_FILE_PENDING"
    BY DEF Outcomes
  <2>5. \A f \in Files : f >= looked' <=> results'[f] = "unset"
    BY <1>0, <2>1, <2>2, <2>3, <2>4 DEF LookupInv, QueueTypeOK
  <2>6. \A f \in Files : results'[f] \notin {"unset", "AK_STATUS_FILE_CACHED"}
                            => \E i \in 1 .. Queued' : pending_indices'[i] = f
    BY <1>0, <2>1, <2>2, <2>3, <2>4 DEF LookupInv, QueueTypeOK, Queued
  <2> QED
    BY <1>0, <2>3, <2>5, <2>6 DEF LookupInv, Queued
<1> QED
  BY <1>1, <1>2, <1>3, <1>4
     DEF Next, WorkerStep, queueVars, Package, Spawn, Claim, Leave, StartHash, CountDone, Poison

LEMMA PackageStep ==
  ASSUME IInv, [Next]_queueVars
  PROVE  PackageInv'
<1> USE FileCountAssumption
<1>0. QueueTypeOK /\ PackageInv
  BY DEF IInv
<1>1. CASE UNCHANGED <<packaged, looked, pending_indices, pending_count, current_idx, wpc>>
  BY <1>0, <1>1 DEF PackageInv, Queued
<1>2. ASSUME CacheHit \/ \E slice \in {"zero", "partial"} : Enqueue(slice)
      PROVE  PackageInv'
  BY <1>0, <1>2 DEF CacheHit, Enqueue, PackageInv, QueueTypeOK
<1>3. CASE Package
  BY <1>0, <1>3 DEF Package, PackageInv, Queued
<1>4. ASSUME NEW w \in Workers, Spawn(w) \/ WorkerStep(w) PROVE PackageInv'
  <2>1. packaged /\ packaged' /\ UNCHANGED <<looked, pending_indices, pending_count>>
    BY <1>0, <1>4 DEF Spawn, WorkerStep, Claim, Leave, StartHash, FinishHash, CountDone,
                      PackageInv
  <2> QED
    BY <1>0, <2>1 DEF PackageInv, Queued
<1>5. CASE Poison
  BY <1>0, <1>5 DEF Poison, PackageInv, Queued
<1> QED
  BY <1>1, <1>2, <1>3, <1>4, <1>5 DEF Next, queueVars

LEMMA ClaimStep ==
  ASSUME IInv, [Next]_queueVars
  PROVE  ClaimInv'
<1> USE FileCountAssumption
<1>0. QueueTypeOK /\ PackageInv /\ ClaimInv
  BY DEF IInv
<1>1. CASE UNCHANGED <<pending_indices, current_idx, wpc, q_idx>>
  BY <1>0, <1>1 DEF ClaimInv, Holds, Queued
<1>2. ASSUME CacheHit \/ Package \/ \E slice \in {"zero", "partial"} : Enqueue(slice)
      PROVE  ClaimInv'
  <2>1. ~packaged \/ UNCHANGED <<pending_indices, current_idx, wpc, q_idx>>
    BY <1>0, <1>2 DEF CacheHit, Package, Enqueue, PackageInv, QueueTypeOK
  <2>2. CASE ~packaged
    <3>1. \A w \in Workers : wpc'[w] = "unborn"
      BY <1>0, <1>2, <2>2 DEF CacheHit, Package, Enqueue, PackageInv
    <3> QED
      BY <3>1 DEF ClaimInv, Holds
  <2> QED
    BY <1>1, <2>1, <2>2
<1>3. ASSUME NEW u \in Workers, Claim(u) PROVE ClaimInv'
  <2>1. /\ wpc[u] = "claim"
        /\ q_idx' = [q_idx EXCEPT ![u] = current_idx]
        /\ current_idx' = current_idx + 1
        /\ wpc' = [wpc EXCEPT ![u] = "check"]
        /\ Queued' = Queued
    BY <1>3 DEF Claim, Queued
  <2>2. \A w \in Workers : Holds(w)' => q_idx'[w] < current_idx'
    BY <1>0, <2>1 DEF ClaimInv, Holds, QueueTypeOK
  <2>3. \A w \in Workers : wpc'[w] \in {"hash", "count"} => q_idx'[w] < Queued'
    BY <1>0, <2>1 DEF ClaimInv, QueueTypeOK
  <2>4. \A w \in Workers : w # u /\ Holds(w)' => q_idx'[w] = q_idx[w] /\ q_idx[w] < current_idx
    BY <1>0, <2>1 DEF ClaimInv, Holds, QueueTypeOK
  <2>5. q_idx'[u] = current_idx
    BY <1>0, <2>1 DEF QueueTypeOK
  <2>6. ASSUME NEW v \in Workers, NEW w \in Workers,
               Holds(v)', Holds(w)', q_idx'[v] = q_idx'[w]
        PROVE  v = w
    <3>1. current_idx \in Nat /\ q_idx \in [Workers -> Nat]
      BY <1>0 DEF QueueTypeOK
    <3>2. CASE v = u \/ w = u
      BY <2>4, <2>5, <2>6, <3>1, <3>2
    <3>3. CASE v # u /\ w # u
      BY <1>0, <2>1, <2>4, <2>6, <3>3 DEF ClaimInv, Holds, QueueTypeOK
    <3> QED
      BY <3>2, <3>3
  <2> QED
    BY <2>2, <2>3, <2>6 DEF ClaimInv
<1>4. ASSUME NEW u \in Workers, Spawn(u) \/ Leave(u) \/ StartHash(u) \/ FinishHash(u) \/ CountDone(u)
      PROVE  ClaimInv'
  <2>1. UNCHANGED <<pending_indices, current_idx, q_idx>> /\ Queued' = Queued
    BY <1>4 DEF Spawn, Leave, StartHash, FinishHash, CountDone, Queued
  <2>2. \A w \in Workers : Holds(w)' => Holds(w)
    BY <1>0, <1>4 DEF Spawn, Leave, StartHash, FinishHash, CountDone, Holds, QueueTypeOK
  <2>3. \A w \in Workers : wpc'[w] \in {"hash", "count"}
                               => wpc[w] \in {"hash", "count"} \/ (w = u /\ StartHash(u))
    BY <1>0, <1>4 DEF Spawn, Leave, StartHash, FinishHash, CountDone, QueueTypeOK
  <2>4. StartHash(u) => q_idx[u] < Queued
    BY StartHashIsInQueue
  <2> QED
    BY <1>0, <2>1, <2>2, <2>3, <2>4 DEF ClaimInv
<1>5. CASE Poison
  BY <1>1, <1>5 DEF Poison
<1> QED
  BY <1>1, <1>2, <1>3, <1>4, <1>5 DEF Next, WorkerStep, queueVars

LEMMA PendingStep ==
  ASSUME IInv, [Next]_queueVars
  PROVE  PendingInv'
<1> USE FileCountAssumption
<1>0. QueueTypeOK /\ LookupInv /\ PackageInv /\ ClaimInv /\ PendingInv
  BY DEF IInv
<1>1. CASE UNCHANGED <<results, pending_indices, current_idx, wpc, q_idx>>
  BY <1>0, <1>1 DEF PendingInv, FileOf, Queued
<1>2. CASE CacheHit
  <2>1. /\ results' = [results EXCEPT ![looked] = "AK_STATUS_FILE_CACHED"]
        /\ UNCHANGED <<pending_indices, current_idx, wpc, q_idx, packaged>>
    BY <1>2 DEF CacheHit
  <2>2. ~packaged /\ \A w \in Workers : wpc[w] = "unborn"
    BY <1>0, <1>2 DEF CacheHit, PackageInv, QueueTypeOK
  <2>3. \A i \in 1 .. Queued : results'[pending_indices[i]] = results[pending_indices[i]]
    BY <1>0, <2>1, SlotIsFile DEF LookupInv, Files, QueueTypeOK
  <2> QED
    BY <1>0, <2>1, <2>2, <2>3 DEF PendingInv, Queued
<1>3. ASSUME NEW slice \in {"zero", "partial"}, Enqueue(slice) PROVE PendingInv'
  <2>1. /\ looked \in Files
        /\ results' = [results EXCEPT ![looked] = "AK_STATUS_FILE_PENDING"]
        /\ pending_indices' = Append(pending_indices, looked)
        /\ UNCHANGED <<current_idx, wpc, q_idx, packaged>>
    BY <1>0, <1>3 DEF Enqueue, QueueTypeOK, Files
  <2>2. ~packaged /\ \A w \in Workers : wpc[w] = "unborn"
    BY <1>0, <1>3 DEF Enqueue, PackageInv, QueueTypeOK
  <2>3. /\ Queued \in Nat
        /\ Queued' = Queued + 1
        /\ \A i \in 1 .. Queued : pending_indices'[i] = pending_indices[i]
        /\ pending_indices'[Queued + 1] = looked
    BY <1>0, <2>1 DEF QueueTypeOK, Queued
  <2>4. ASSUME NEW i \in 1 .. Queued', i > current_idx'
        PROVE  results'[pending_indices'[i]] = "AK_STATUS_FILE_PENDING"
    <3>1. CASE i = Queued + 1
      BY <1>0, <2>1, <2>3, <3>1 DEF QueueTypeOK
    <3>2. CASE i # Queued + 1
      <4>1. i \in 1 .. Queued
        BY <2>3, <3>2
      <4>2. pending_indices[i] \in Files /\ results[pending_indices[i]] = "AK_STATUS_FILE_PENDING"
        BY <1>0, <2>1, <2>4, <4>1, SlotIsFile DEF PendingInv
      <4> QED
        BY <1>0, <2>1, <2>3, <4>1, <4>2 DEF QueueTypeOK
    <3> QED
      BY <3>1, <3>2
  <2> QED
    BY <2>1, <2>2, <2>4 DEF PendingInv
<1>4. CASE Package
  <2>1. /\ UNCHANGED <<results, pending_indices, wpc, q_idx>>
        /\ current_idx = 0 /\ current_idx' = 0
    BY <1>0, <1>4 DEF Package, PackageInv
  <2> QED
    BY <1>0, <2>1 DEF PendingInv, Queued, FileOf
<1>5. ASSUME NEW u \in Workers, Claim(u) PROVE PendingInv'
  <2>1. /\ q_idx' = [q_idx EXCEPT ![u] = current_idx]
        /\ current_idx' = current_idx + 1
        /\ wpc' = [wpc EXCEPT ![u] = "check"]
        /\ Queued' = Queued
        /\ UNCHANGED <<results, pending_indices>>
    BY <1>5 DEF Claim, Queued
  <2>2. \A i \in 1 .. Queued' :
          i > current_idx' => results'[pending_indices'[i]] = "AK_STATUS_FILE_PENDING"
    BY <1>0, <2>1 DEF PendingInv, QueueTypeOK, Queued
  <2>3. ASSUME NEW w \in Workers, wpc'[w] \in {"check", "hash"}, q_idx'[w] < Queued'
        PROVE  results'[FileOf(w)'] = "AK_STATUS_FILE_PENDING"
    <3>1. CASE w = u
      <4>1. q_idx'[w] = current_idx /\ current_idx + 1 \in 1 .. Queued
        BY <1>0, <2>1, <2>3, <3>1 DEF QueueTypeOK, Queued
      <4> QED
        BY <1>0, <2>1, <4>1 DEF PendingInv, QueueTypeOK, FileOf
    <3>2. CASE w # u
      BY <1>0, <2>1, <2>3, <3>2 DEF PendingInv, QueueTypeOK, FileOf
    <3> QED
      BY <3>1, <3>2
  <2> QED
    BY <2>2, <2>3 DEF PendingInv
<1>6. ASSUME NEW u \in Workers, Spawn(u) \/ Leave(u) \/ StartHash(u) \/ CountDone(u)
      PROVE  PendingInv'
  <2>1. UNCHANGED <<results, pending_indices, current_idx, q_idx>> /\ Queued' = Queued
    BY <1>6 DEF Spawn, Leave, StartHash, CountDone, Queued
  <2>2. \A w \in Workers : wpc'[w] \in {"check", "hash"} => wpc[w] \in {"check", "hash"}
    BY <1>0, <1>6 DEF Spawn, Leave, StartHash, CountDone, QueueTypeOK
  <2> QED
    BY <1>0, <2>1, <2>2 DEF PendingInv, FileOf
<1>7. ASSUME NEW u \in Workers, FinishHash(u) PROVE PendingInv'
  <2>1. PICK s \in Outcomes : results' = [results EXCEPT ![FileOf(u)] = s]
    BY <1>7 DEF FinishHash
  <2>2. /\ wpc[u] = "hash"
        /\ wpc' = [wpc EXCEPT ![u] = "count"]
        /\ Queued' = Queued
        /\ UNCHANGED <<pending_indices, current_idx, q_idx>>
    BY <1>7 DEF FinishHash, Queued
  <2>3. /\ q_idx[u] + 1 \in 1 .. Queued
        /\ FileOf(u) = pending_indices[q_idx[u] + 1]
        /\ q_idx[u] < current_idx
    BY <1>0, <2>2, HashedFileIsPending DEF FileOf, ClaimInv, Holds
  <2>4. \A i \in 1 .. Queued : i # q_idx[u] + 1 =>
           results'[pending_indices[i]] = results[pending_indices[i]]
    BY <1>0, <2>1, <2>3, SlotIsFile DEF LookupInv, QueueTypeOK
  <2>5. \A i \in 1 .. Queued' :
          i > current_idx' => results'[pending_indices'[i]] = "AK_STATUS_FILE_PENDING"
    BY <1>0, <2>2, <2>3, <2>4 DEF PendingInv, QueueTypeOK
  <2>6. ASSUME NEW w \in Workers, wpc'[w] \in {"check", "hash"}, q_idx'[w] < Queued'
        PROVE  results'[FileOf(w)'] = "AK_STATUS_FILE_PENDING"
    <3>1. w # u /\ wpc[w] \in {"check", "hash"} /\ q_idx[w] < Queued
      BY <1>0, <2>2, <2>6 DEF QueueTypeOK
    <3>2. q_idx[w] # q_idx[u]
      BY <1>0, <2>2, <3>1 DEF ClaimInv, Holds
    <3>3. q_idx[w] + 1 \in 1 .. Queued /\ q_idx[w] + 1 # q_idx[u] + 1
      BY <1>0, <3>1, <3>2 DEF QueueTypeOK, Queued
    <3> QED
      BY <1>0, <2>2, <2>4, <3>1, <3>3 DEF PendingInv, FileOf
  <2> QED
    BY <2>5, <2>6 DEF PendingInv
<1>8. CASE Poison
  BY <1>1, <1>8 DEF Poison
<1> QED
  BY <1>1, <1>2, <1>3, <1>4, <1>5, <1>6, <1>7, <1>8 DEF Next, WorkerStep, queueVars

LEMMA ProgressStep ==
  ASSUME IInv, [Next]_queueVars
  PROVE  ProgressInv'
<1> USE FileCountAssumption
<1>0. QueueTypeOK /\ LookupInv /\ PackageInv /\ ClaimInv /\ ProgressInv
  BY DEF IInv
<1>1. CASE UNCHANGED queueVars
  BY <1>0, <1>1 DEF ProgressInv, queueVars, Queued, Settled
<1>2. ASSUME CacheHit \/ \E slice \in {"zero", "partial"} : Enqueue(slice)
      PROVE  ProgressInv'
  <2>1. ~packaged'
    BY <1>0, <1>2 DEF CacheHit, Enqueue, PackageInv, QueueTypeOK
  <2> QED
    BY <2>1 DEF ProgressInv
<1>3. CASE Package
  <2>1. current_idx' = 0 /\ Queued' \in Nat /\ \A w \in Workers : wpc'[w] = "unborn"
    BY <1>0, <1>3 DEF Package, PackageInv, QueueTypeOK, Queued
  <2> QED
    BY <2>1 DEF ProgressInv
<1>4. CASE Poison
  <2>1. pending_count' = 0 /\ UNCHANGED <<results, pending_indices, current_idx, wpc, q_idx>>
    BY <1>4 DEF Poison
  <2> QED
    BY <1>0, <2>1 DEF ProgressInv, Queued, QueueTypeOK
<1>5. ASSUME NEW u \in Workers, Spawn(u) \/ WorkerStep(u), packaged', pending_count' = Queued'
      PROVE  ProgressInv'
  <2>1. packaged /\ pending_count = Queued /\ Queued' = Queued /\ UNCHANGED pending_indices
    BY <1>0, <1>5 DEF Spawn, WorkerStep, Claim, Leave, StartHash, FinishHash, CountDone, Queued,
                      PackageInv
  <2>2. /\ \A i \in 1 .. Queued :
             i <= current_idx => \/ Settled(pending_indices[i])
                                 \/ \E w \in Workers : /\ wpc[w] \in {"check", "hash"}
                                                       /\ q_idx[w] = i - 1
        /\ \A w \in Workers : wpc[w] = "exited" => current_idx >= Queued
    BY <1>0, <2>1 DEF ProgressInv
  <2>3. CASE Claim(u)
    <3>1. /\ wpc[u] = "claim"
          /\ q_idx' = [q_idx EXCEPT ![u] = current_idx]
          /\ current_idx' = current_idx + 1
          /\ wpc' = [wpc EXCEPT ![u] = "check"]
          /\ UNCHANGED results
      BY <2>3 DEF Claim
    <3>2. ASSUME NEW i \in 1 .. Queued', i <= current_idx'
          PROVE  \/ Settled(pending_indices[i])'
                 \/ \E w \in Workers : wpc'[w] \in {"check", "hash"} /\ q_idx'[w] = i - 1
      <4>1. CASE i = current_idx + 1
        BY <1>0, <3>1, <4>1 DEF QueueTypeOK
      <4>2. CASE i # current_idx + 1
        <5>1. i \in 1 .. Queued /\ i <= current_idx
          BY <1>0, <2>1, <3>1, <3>2, <4>2 DEF QueueTypeOK
        <5>2. CASE Settled(pending_indices[i])
          BY <2>1, <3>1, <5>2 DEF Settled
        <5>3. CASE \E w \in Workers : wpc[w] \in {"check", "hash"} /\ q_idx[w] = i - 1
          BY <1>0, <3>1, <5>3 DEF QueueTypeOK
        <5> QED
          BY <2>2, <5>1, <5>2, <5>3
      <4> QED
        BY <4>1, <4>2
    <3>3. \A w \in Workers : wpc'[w] = "exited" => current_idx' >= Queued'
      BY <1>0, <2>1, <2>2, <3>1 DEF QueueTypeOK, Queued
    <3> QED
      BY <3>2, <3>3 DEF ProgressInv
  <2>4. CASE Leave(u)
    <3>1. /\ wpc[u] = "check" /\ q_idx[u] >= pending_count
          /\ wpc' = [wpc EXCEPT ![u] = "exited"]
          /\ UNCHANGED <<results, q_idx, current_idx>>
      BY <2>4 DEF Leave
    <3>2. q_idx[u] < current_idx /\ current_idx >= Queued
      BY <1>0, <2>1, <3>1 DEF ClaimInv, Holds, QueueTypeOK, Queued
    <3>3. ASSUME NEW i \in 1 .. Queued, i <= current_idx,
                 NEW w \in Workers, wpc[w] \in {"check", "hash"}, q_idx[w] = i - 1
          PROVE  wpc'[w] \in {"check", "hash"} /\ q_idx'[w] = i - 1
      BY <1>0, <2>1, <3>1, <3>3 DEF QueueTypeOK, Queued
    <3> QED
      BY <2>1, <2>2, <3>1, <3>2, <3>3 DEF ProgressInv, Settled
  <2>5. CASE FinishHash(u)
    <3>1. PICK s \in Outcomes : results' = [results EXCEPT ![FileOf(u)] = s]
      BY <2>5 DEF FinishHash
    <3>2. /\ wpc[u] = "hash"
          /\ wpc' = [wpc EXCEPT ![u] = "count"]
          /\ UNCHANGED <<current_idx, q_idx>>
      BY <2>5 DEF FinishHash
    <3>3. q_idx[u] + 1 \in 1 .. Queued /\ FileOf(u) \in Files
      BY <3>2, HashedFileIsPending
    <3>4. \A f \in Files : Settled(f) => Settled(f)'
      BY <1>0, <3>1, <3>3 DEF Settled, QueueTypeOK
    <3>5. ASSUME NEW i \in 1 .. Queued', i <= current_idx'
          PROVE  \/ Settled(pending_indices[i])'
                 \/ \E w \in Workers : wpc'[w] \in {"check", "hash"} /\ q_idx'[w] = i - 1
      <4>1. CASE q_idx[u] = i - 1
        <5>1. pending_indices[i] = FileOf(u)
          BY <1>0, <2>1, <4>1 DEF FileOf, QueueTypeOK
        <5> QED
          BY <1>0, <2>1, <3>1, <3>3, <5>1 DEF Settled, QueueTypeOK
      <4>2. CASE q_idx[u] # i - 1
        <5>1. CASE Settled(pending_indices[i])
          BY <1>0, <2>1, <3>4, <5>1, SlotIsFile
        <5>2. ASSUME NEW w \in Workers, wpc[w] \in {"check", "hash"}, q_idx[w] = i - 1
              PROVE  wpc'[w] \in {"check", "hash"} /\ q_idx'[w] = i - 1
          BY <1>0, <3>2, <4>2, <5>2 DEF QueueTypeOK
        <5> QED
          BY <2>1, <2>2, <3>2, <3>5, <5>1, <5>2
      <4> QED
        BY <4>1, <4>2
    <3>6. \A w \in Workers : wpc'[w] = "exited" => current_idx' >= Queued'
      BY <1>0, <2>1, <2>2, <3>2 DEF QueueTypeOK
    <3> QED
      BY <3>5, <3>6 DEF ProgressInv
  <2>6. CASE Spawn(u) \/ StartHash(u) \/ CountDone(u)
    <3>1. UNCHANGED <<results, current_idx, q_idx>>
      BY <2>6 DEF Spawn, StartHash, CountDone
    <3>2. \A w \in Workers : /\ wpc[w] \in {"check", "hash"} => wpc'[w] \in {"check", "hash"}
                             /\ wpc'[w] = "exited" => wpc[w] = "exited"
      BY <1>0, <2>6 DEF Spawn, StartHash, CountDone, QueueTypeOK
    <3> QED
      BY <2>1, <2>2, <3>1, <3>2 DEF ProgressInv, Settled
  <2> QED
    BY <1>5, <2>3, <2>4, <2>5, <2>6 DEF WorkerStep
<1>6. ASSUME ~(packaged' /\ pending_count' = Queued') PROVE ProgressInv'
  BY <1>6 DEF ProgressInv
<1> QED
  BY <1>1, <1>2, <1>3, <1>4, <1>5, <1>6 DEF Next

LEMMA WholeStep ==
  ASSUME IInv, [Next]_queueVars
  PROVE  HashedIsWhole'
<1> USE FileCountAssumption
<1>0. QueueTypeOK /\ ClaimInv /\ HashedIsWhole
  BY DEF IInv
<1>1. CASE UNCHANGED <<results, entries>>
  BY <1>0, <1>1 DEF HashedIsWhole
<1>2. CASE CacheHit
  BY <1>0, <1>2 DEF CacheHit, HashedIsWhole, QueueTypeOK
<1>3. ASSUME NEW slice \in {"zero", "partial"}, Enqueue(slice) PROVE HashedIsWhole'
  BY <1>0, <1>3 DEF Enqueue, HashedIsWhole, QueueTypeOK
<1>4. ASSUME NEW w \in Workers, StartHash(w) PROVE HashedIsWhole'
  <2>1. results[FileOf(w)] = "AK_STATUS_FILE_PENDING"
    BY <1>4, StartHashIsInQueue, HashedFileIsPending
  <2> QED
    BY <1>0, <1>4, <2>1 DEF StartHash, HashedIsWhole, QueueTypeOK
<1>5. ASSUME NEW w \in Workers, FinishHash(w) PROVE HashedIsWhole'
  <2>1. PICK s \in Outcomes :
          /\ results' = [results EXCEPT ![FileOf(w)] = s]
          /\ entries' = [entries EXCEPT ![FileOf(w)] =
                           IF s = "AK_OK" THEN "full" ELSE entries[FileOf(w)]]
    BY <1>5 DEF FinishHash
  <2>2. s # "AK_STATUS_FILE_CACHED"
    BY DEF Outcomes
  <2> QED
    BY <1>0, <2>1, <2>2 DEF HashedIsWhole, QueueTypeOK
<1> QED
  BY <1>1, <1>2, <1>3, <1>4, <1>5
     DEF Next, WorkerStep, queueVars, Package, Spawn, Claim, Leave, CountDone, Poison

(* The inductive invariant holds in every reachable state.                 *)
THEOREM QueueInvariant == Spec => []IInv
<1>1. Init => IInv
  BY InitIInv
<1>2. IInv /\ [Next]_queueVars => IInv'
  BY TypeStep, LookupStep, PackageStep, ClaimStep, PendingStep, ProgressStep, WholeStep DEF IInv
<1> QED
  BY <1>1, <1>2, PTL DEF Spec

(* The variables of the queue keep their types: every index a worker uses  *)
(* is an index of the arrays it was given.                                 *)
THEOREM QueueTypeCorrect == Spec => []QueueTypeOK
<1>1. IInv => QueueTypeOK
  BY DEF IInv
<1> QED
  BY <1>1, QueueInvariant, PTL

(* For any number of workers and files, no two workers hash the same file. *)
THEOREM OneWorkerPerFileHolds == Spec => []OneWorkerPerFile
<1>1. IInv => OneWorkerPerFile
  <2> SUFFICES ASSUME IInv, NEW v \in Workers, NEW w \in Workers,
                      wpc[v] = "hash", wpc[w] = "hash", FileOf(v) = FileOf(w)
               PROVE  v = w
    BY DEF OneWorkerPerFile, Hashing
  <2>1. q_idx[v] + 1 \in 1 .. Queued /\ q_idx[w] + 1 \in 1 .. Queued
    BY HashedFileIsPending
  <2>2. q_idx[v] + 1 = q_idx[w] + 1
    BY <2>1 DEF IInv, LookupInv, FileOf
  <2> QED
    BY <2>2 DEF IInv, ClaimInv, Holds, QueueTypeOK
<1> QED
  BY <1>1, QueueInvariant, PTL

(* A status that says "hashed" always stands over a complete slice.        *)
THEOREM HashedIsWholeHolds == Spec => []HashedIsWhole
<1>1. IInv => HashedIsWhole
  BY DEF IInv
<1> QED
  BY <1>1, QueueInvariant, PTL

(* If at least one worker was created and the queue was not poisoned, all  *)
(* files have a final status when the workers have left.                   *)
THEOREM NoFileForgottenHolds == Spec => []NoFileForgotten
<1>1. IInv => NoFileForgotten
  <2> SUFFICES ASSUME IInv, packaged, pending_count = Queued,
                      NEW u \in Workers, Created(u),
                      \A w \in Workers : Created(w) => wpc[w] = "exited",
                      NEW f \in Files
               PROVE  Settled(f)
    BY DEF NoFileForgotten
  <2> USE FileCountAssumption
  <2>1. QueueTypeOK /\ LookupInv /\ PackageInv /\ ProgressInv
    BY DEF IInv
  <2>2. current_idx >= Queued
    BY <2>1 DEF ProgressInv
  <2>3. \A i \in 1 .. Queued : Settled(pending_indices[i])
    <3>1. \A w \in Workers : wpc[w] \notin {"check", "hash"}
      BY DEF Created
    <3> QED
      BY <2>1, <2>2, <3>1 DEF ProgressInv, QueueTypeOK, Queued
  <2>4. results[f] # "unset"
    BY <2>1 DEF LookupInv, PackageInv, Files
  <2>5. CASE results[f] = "AK_STATUS_FILE_PENDING"
    BY <2>1, <2>3, <2>5 DEF LookupInv
  <2>6. CASE results[f] # "AK_STATUS_FILE_PENDING"
    BY <2>1, <2>4, <2>6 DEF Settled, QueueTypeOK, Statuses
  <2> QED
    BY <2>5, <2>6
<1> QED
  BY <1>1, QueueInvariant, PTL

(* A settled file is never touched again: no step after a file has its     *)
(* final status changes the status or the hashes.                          *)
THEOREM StatusSettlesOnceHolds == Spec => StatusSettlesOnce
<1>1. ASSUME IInv, [Next]_queueVars, NEW f \in Files, Settled(f)
      PROVE  results'[f] = results[f] /\ entries'[f] = entries[f]
  <2> USE FileCountAssumption
  <2>0. QueueTypeOK /\ LookupInv
    BY <1>1 DEF IInv
  <2>1. results[f] # "unset" /\ results[f] # "AK_STATUS_FILE_PENDING"
    BY <1>1 DEF Settled, Outcomes
  <2>2. CASE UNCHANGED <<results, entries>>
    BY <2>2
  <2>3. ASSUME CacheHit \/ \E slice \in {"zero", "partial"} : Enqueue(slice)
        PROVE  results'[f] = results[f] /\ entries'[f] = entries[f]
    <3>1. f # looked
      BY <2>0, <2>1 DEF LookupInv, QueueTypeOK
    <3> QED
      BY <2>0, <2>3, <3>1 DEF CacheHit, Enqueue, QueueTypeOK
  <2>4. ASSUME NEW w \in Workers, StartHash(w) \/ FinishHash(w)
        PROVE  results'[f] = results[f] /\ entries'[f] = entries[f]
    <3>1. FileOf(w) # f
      BY <1>1, <2>1, <2>4, StartHashIsInQueue, HashedFileIsPending DEF FinishHash
    <3> QED
      BY <2>0, <2>4, <3>1 DEF StartHash, FinishHash, QueueTypeOK
  <2> QED
    BY <1>1, <2>2, <2>3, <2>4
       DEF Next, WorkerStep, queueVars, Package, Spawn, Claim, Leave, CountDone, Poison
<1>2. IInv /\ [Next]_queueVars
        => [\A f \in Files : Settled(f) => results'[f] = results[f] /\ entries'[f] = entries[f]]_queueVars
  BY <1>1
<1> QED
  BY <1>2, QueueInvariant, PTL DEF Spec, StatusSettlesOnce

-----------------------------------------------------------------------------
(***************************************************************************)
(* The counters                                                            *)
(***************************************************************************)

(* Workers that hold, or left with, an index beyond the end of the queue.  *)
Overshot == {w \in Workers : wpc[w] \in {"check", "exited"} /\ q_idx[w] >= Queued}

(* Every index handed out beyond the end belongs to one of them.           *)
OvershootInv == current_idx <= Queued + Cardinality(Overshot)

LEMMA OvershotIsFinite ==
  /\ IsFiniteSet(Overshot)
  /\ Cardinality(Overshot) \in Nat
<1>1. IsFiniteSet(Overshot)
  BY WorkersAssumption, FS_Subset DEF Overshot
<1> QED
  BY <1>1, FS_CardinalityType

LEMMA OvershootStep ==
  ASSUME IInv, OvershootInv, [Next]_queueVars
  PROVE  OvershootInv'
<1> USE FileCountAssumption, OvershotIsFinite
<1>0. QueueTypeOK /\ PackageInv /\ Queued \in Nat
  BY DEF IInv, QueueTypeOK, Queued
<1>1. CASE UNCHANGED <<pending_indices, current_idx, wpc, q_idx>>
  <2>1. Overshot' = Overshot /\ Queued' = Queued
    BY <1>1 DEF Overshot, Queued
  <2> QED
    BY <1>1, <2>1 DEF OvershootInv
<1>2. ASSUME CacheHit \/ Package \/ \E slice \in {"zero", "partial"} : Enqueue(slice)
      PROVE  OvershootInv'
  <2>1. current_idx' = 0 \/ UNCHANGED <<pending_indices, current_idx, wpc, q_idx>>
    BY <1>0, <1>2 DEF CacheHit, Package, Enqueue, PackageInv, QueueTypeOK
  <2>2. Queued' \in Nat
    BY TypeStep DEF QueueTypeOK, Queued
  <2>3. Cardinality(Overshot') \in Nat
    <3>1. IsFiniteSet(Overshot')
      BY WorkersAssumption, FS_Subset DEF Overshot
    <3> QED
      BY <3>1, FS_CardinalityType
  <2>4. CASE current_idx' = 0
    BY <2>2, <2>3, <2>4 DEF OvershootInv
  <2> QED
    BY <1>1, <2>1, <2>4
<1>3. ASSUME NEW u \in Workers, Claim(u) PROVE OvershootInv'
  <2>1. /\ wpc[u] = "claim"
        /\ q_idx' = [q_idx EXCEPT ![u] = current_idx]
        /\ current_idx' = current_idx + 1
        /\ wpc' = [wpc EXCEPT ![u] = "check"]
        /\ Queued' = Queued
    BY <1>3 DEF Claim, Queued
  <2>2. CASE current_idx < Queued
    <3>1. Overshot' = Overshot
      BY <1>0, <2>1, <2>2 DEF Overshot, QueueTypeOK
    <3> QED
      BY <1>0, <2>1, <2>2, <3>1 DEF OvershootInv, QueueTypeOK
  <2>3. CASE ~(current_idx < Queued)
    <3>1. u \notin Overshot /\ Overshot' = Overshot \cup {u}
      BY <1>0, <2>1, <2>3 DEF Overshot, QueueTypeOK
    <3>2. Cardinality(Overshot') = Cardinality(Overshot) + 1
      BY <3>1, FS_AddElement
    <3> QED
      BY <1>0, <2>1, <3>2 DEF OvershootInv, QueueTypeOK
  <2> QED
    BY <2>2, <2>3
<1>4. ASSUME NEW u \in Workers,
             Spawn(u) \/ Leave(u) \/ StartHash(u) \/ FinishHash(u) \/ CountDone(u)
      PROVE  OvershootInv'
  <2>1. UNCHANGED <<current_idx, q_idx>> /\ Queued' = Queued
    BY <1>4 DEF Spawn, Leave, StartHash, FinishHash, CountDone, Queued
  <2>2. StartHash(u) => q_idx[u] < Queued
    BY StartHashIsInQueue
  <2>3. Overshot' = Overshot
    BY <1>0, <1>4, <2>1, <2>2
       DEF Spawn, Leave, StartHash, FinishHash, CountDone, Overshot, QueueTypeOK
  <2> QED
    BY <2>1, <2>3 DEF OvershootInv
<1>5. CASE Poison
  BY <1>1, <1>5 DEF Poison
<1> QED
  BY <1>1, <1>2, <1>3, <1>4, <1>5 DEF Next, WorkerStep, queueVars

(* current_idx overshoots the queue by at most one per worker: for the     *)
(* 255 threads and the file counts a process can hold it cannot wrap.      *)
THEOREM ClaimsBoundedHolds == Spec => []ClaimsBounded
<1>1. Init => OvershootInv
  BY OvershotIsFinite DEF Init, OvershootInv, Queued
<1>2. IInv /\ OvershootInv /\ [Next]_queueVars => OvershootInv'
  BY OvershootStep
<1>3. IInv /\ OvershootInv => ClaimsBounded
  <2> SUFFICES ASSUME IInv, OvershootInv PROVE ClaimsBounded
    OBVIOUS
  <2> DEFINE T == {w \in Workers : wpc[w] \in {"check", "exited"}}
  <2>1. IsFiniteSet(T)
    BY WorkersAssumption, FS_Subset
  <2>2. Overshot \subseteq T
    BY DEF Overshot
  <2>3. Cardinality(Overshot) <= Cardinality(T) /\ Cardinality(T) \in Nat
    BY <2>1, <2>2, FS_Subset, FS_CardinalityType
  <2>4. current_idx \in Nat /\ Queued \in Nat
    BY DEF IInv, QueueTypeOK, Queued
  <2> QED
    BY <2>3, <2>4, OvershotIsFinite DEF OvershootInv, ClaimsBounded
<1> QED
  BY <1>1, <1>2, <1>3, QueueInvariant, PTL DEF Spec

Finished == {f \in Files : results[f] \in Outcomes}
Counting == {w \in Workers : wpc[w] = "count"}

(* The exact value of completed_count, and that nothing is finished before *)
(* the context exists.                                                     *)
CountInv ==
  /\ ~packaged => Finished = {}
  /\ packaged => completed_count = Cardinality(Finished) - Cardinality(Counting)

LEMMA CountedAreFinite ==
  /\ IsFiniteSet(Finished) /\ Cardinality(Finished) \in Nat
  /\ IsFiniteSet(Counting) /\ Cardinality(Counting) \in Nat
<1>1. IsFiniteSet(Finished)
  <2>1. IsFiniteSet(Files)
    BY FileCountAssumption, FS_Interval DEF Files
  <2> QED
    BY <2>1, FS_Subset DEF Finished
<1>2. IsFiniteSet(Counting)
  BY WorkersAssumption, FS_Subset DEF Counting
<1> QED
  BY <1>1, <1>2, FS_CardinalityType

LEMMA CountStep ==
  ASSUME IInv, CountInv, [Next]_queueVars
  PROVE  CountInv'
<1> USE FileCountAssumption, CountedAreFinite
<1>0. QueueTypeOK /\ LookupInv /\ PackageInv
  BY DEF IInv
<1>1. CASE UNCHANGED <<results, packaged, completed_count, wpc>>
  BY <1>1 DEF CountInv, Finished, Counting
<1>2. ASSUME CacheHit \/ \E slice \in {"zero", "partial"} : Enqueue(slice)
      PROVE  CountInv'
  <2>1. ~packaged /\ ~packaged'
    BY <1>0, <1>2 DEF CacheHit, Enqueue, PackageInv, QueueTypeOK
  <2>2. Finished' \subseteq Finished
    BY <1>0, <1>2 DEF CacheHit, Enqueue, Finished, Outcomes, QueueTypeOK
  <2> QED
    BY <2>1, <2>2 DEF CountInv
<1>3. CASE Package
  <2>1. Finished' = {} /\ Counting' = {}
    BY <1>0, <1>3 DEF Package, CountInv, Finished, Counting, PackageInv
  <2> QED
    BY <1>3, <2>1, FS_EmptySet DEF Package, CountInv
<1>4. ASSUME NEW w \in Workers, Spawn(w) \/ Claim(w) \/ Leave(w) \/ StartHash(w) PROVE CountInv'
  <2>1. Finished' = Finished /\ UNCHANGED <<packaged, completed_count>>
    BY <1>4 DEF Spawn, Claim, Leave, StartHash, Finished
  <2>2. Counting' = Counting
    BY <1>0, <1>4 DEF Spawn, Claim, Leave, StartHash, Counting, QueueTypeOK
  <2> QED
    BY <2>1, <2>2 DEF CountInv
<1>5. ASSUME NEW w \in Workers, FinishHash(w) PROVE CountInv'
  <2>1. PICK s \in Outcomes : results' = [results EXCEPT ![FileOf(w)] = s]
    BY <1>5 DEF FinishHash
  <2>2. /\ wpc[w] = "hash" /\ wpc' = [wpc EXCEPT ![w] = "count"]
        /\ UNCHANGED <<packaged, completed_count>>
    BY <1>5 DEF FinishHash
  <2>3. FileOf(w) \in Files /\ FileOf(w) \notin Finished
    BY <2>2, HashedFileIsPending DEF Finished, Outcomes
  <2>4. Finished' = Finished \cup {FileOf(w)}
    BY <1>0, <2>1, <2>3 DEF Finished, QueueTypeOK
  <2>5. w \notin Counting /\ Counting' = Counting \cup {w}
    BY <1>0, <2>2 DEF Counting, QueueTypeOK
  <2>6. /\ Cardinality(Finished') = Cardinality(Finished) + 1
        /\ Cardinality(Counting') = Cardinality(Counting) + 1
    BY <2>3, <2>4, <2>5, FS_AddElement
  <2>7. packaged
    BY <1>0, <2>2 DEF PackageInv
  <2> QED
    BY <1>0, <2>2, <2>6, <2>7 DEF CountInv, QueueTypeOK
<1>6. ASSUME NEW w \in Workers, CountDone(w) PROVE CountInv'
  <2>1. /\ wpc[w] = "count" /\ wpc' = [wpc EXCEPT ![w] = "claim"]
        /\ completed_count' = completed_count + 1
        /\ UNCHANGED <<packaged, results>>
    BY <1>6 DEF CountDone
  <2>2. w \in Counting /\ Counting' = Counting \ {w}
    BY <1>0, <2>1 DEF Counting, QueueTypeOK
  <2>3. Cardinality(Counting') = Cardinality(Counting) - 1 /\ Finished' = Finished
    BY <2>1, <2>2, FS_RemoveElement DEF Finished
  <2> QED
    BY <1>0, <2>1, <2>3 DEF CountInv, PackageInv, QueueTypeOK
<1>7. CASE Poison
  BY <1>1, <1>7 DEF Poison
<1> QED
  BY <1>1, <1>2, <1>3, <1>4, <1>5, <1>6, <1>7 DEF Next, WorkerStep, queueVars

(* The counter the progress bar reads is exact up to the workers between   *)
(* their two stores, for any number of them.                               *)
THEOREM CountIsExactHolds == Spec => []CountIsExact
<1>1. Init => CountInv
  BY DEF Init, CountInv, Finished, Outcomes, Files
<1>2. IInv /\ CountInv /\ [Next]_queueVars => CountInv'
  BY CountStep
<1>3. CountInv => CountIsExact
  BY DEF CountInv, CountIsExact, Finished, Counting
<1> QED
  BY <1>1, <1>2, <1>3, QueueInvariant, PTL DEF Spec

(* The counter does not exceed the length of the queue, and reaches it     *)
(* only when every file has its final status.                              *)
LEMMA FullCountMeansSettled ==
  ASSUME IInv, CountIsExact, packaged
  PROVE  /\ completed_count <= Queued
         /\ completed_count = Queued => \A f \in Files : Settled(f)
<1> DEFINE Slots == {pending_indices[i] : i \in 1 .. Queued}
<1>0. QueueTypeOK /\ LookupInv /\ PackageInv
  BY DEF IInv
<1>1. Queued \in Nat /\ completed_count \in Nat
  BY <1>0 DEF QueueTypeOK, Queued
<1>2. IsFiniteSet(Slots) /\ Cardinality(Slots) \in Nat /\ Cardinality(Slots) <= Queued
  <2>1. pending_indices \in [1 .. Queued -> Slots]
    BY <1>0 DEF QueueTypeOK, Queued
  <2>2. pending_indices \in Surjection(1 .. Queued, Slots)
    BY <2>1 DEF Surjection
  <2>3. IsFiniteSet(1 .. Queued) /\ Cardinality(1 .. Queued) = Queued
    BY <1>1, FS_Interval
  <2> HIDE DEF Slots
  <2> QED
    BY <2>2, <2>3, FS_Surjection, FS_CardinalityType
<1>3. Finished \subseteq Slots
  BY <1>0 DEF LookupInv, Finished, Outcomes
<1>4. Cardinality(Finished) <= Cardinality(Slots)
      /\ (Cardinality(Slots) = Cardinality(Finished) => Slots = Finished)
  BY <1>2, <1>3, FS_Subset
<1>5. completed_count = Cardinality(Finished) - Cardinality(Counting)
  BY DEF CountIsExact, Finished, Counting
<1>6. completed_count <= Queued /\ (completed_count = Queued => Slots = Finished)
  BY <1>1, <1>2, <1>4, <1>5, CountedAreFinite
<1>7. ASSUME Slots = Finished, NEW f \in Files PROVE Settled(f)
  <2>1. results[f] # "unset"
    BY <1>0, FileCountAssumption DEF LookupInv, PackageInv, Files
  <2>2. CASE results[f] = "AK_STATUS_FILE_CACHED"
    BY <2>2 DEF Settled
  <2>3. CASE results[f] # "AK_STATUS_FILE_CACHED"
    <3>1. f \in Slots
      BY <1>0, <2>1, <2>3 DEF LookupInv
    <3> QED
      BY <1>7, <3>1 DEF Finished, Settled
  <2> QED
    BY <2>2, <2>3
<1> QED
  BY <1>6, <1>7

-----------------------------------------------------------------------------
(***************************************************************************)
(* The queue implements HashJobs                                           *)
(***************************************************************************)

LEMMA JobOfFile ==
  ASSUME NEW f \in Files,
         NEW busy \in BOOLEAN, busy <=> \E w \in Workers : Hashing(w) /\ FileOf(w) = f
  PROVE  /\ busy => jobOf(f) = "running"
         /\ ~busy /\ results[f] = "unset" => jobOf(f) = "unknown"
         /\ ~busy /\ results[f] = "AK_STATUS_FILE_CACHED" => jobOf(f) = "cached"
         /\ ~busy /\ results[f] = "AK_STATUS_FILE_PENDING" => jobOf(f) = "queued"
         /\ ~busy /\ results[f] \in Outcomes => jobOf(f) = results[f]
  BY DEF jobOf, Outcomes

(* A step that neither starts nor ends a hash and keeps the statuses is    *)
(* invisible to HashJobs.                                                  *)
LEMMA JobsUnchanged ==
  ASSUME QueueTypeOK,
         UNCHANGED <<results, pending_indices>>,
         \A w \in Workers : /\ Hashing(w)' <=> Hashing(w)
                            /\ Hashing(w) => q_idx'[w] = q_idx[w]
  PROVE  \A f \in Files : jobOf(f)' = jobOf(f)
<1> SUFFICES ASSUME NEW f \in Files PROVE jobOf(f)' = jobOf(f)
  OBVIOUS
<1>1. (\E w \in Workers : Hashing(w) /\ FileOf(w) = f)'
        <=> \E w \in Workers : Hashing(w) /\ FileOf(w) = f
  BY DEF FileOf
<1> QED
  BY <1>1 DEF jobOf

(* The status of the file under a worker's hands, before and after.        *)
LEMMA JobsStartStep ==
  ASSUME IInv, NEW u \in Workers, StartHash(u)
  PROVE  \E g \in Files : Jobs!Start(g)
<1>1. QueueTypeOK /\ PackageInv /\ ClaimInv
  BY DEF IInv
<1>2. /\ wpc[u] = "check" /\ q_idx[u] < pending_count
      /\ wpc' = [wpc EXCEPT ![u] = "hash"]
      /\ UNCHANGED <<results, pending_indices, packaged, pending_count, q_idx>>
  BY DEF StartHash
<1>3. /\ FileOf(u) \in Files /\ q_idx[u] + 1 \in 1 .. Queued
      /\ results[FileOf(u)] = "AK_STATUS_FILE_PENDING"
  BY StartHashIsInQueue, HashedFileIsPending
<1>4. ~\E w \in Workers : Hashing(w) /\ FileOf(w) = FileOf(u)
  <2> SUFFICES ASSUME NEW w \in Workers, Hashing(w), FileOf(w) = FileOf(u) PROVE FALSE
    OBVIOUS
  <2>1. q_idx[w] + 1 \in 1 .. Queued
    BY HashedFileIsPending DEF Hashing
  <2>2. q_idx[w] + 1 = q_idx[u] + 1
    BY <1>3, <2>1 DEF IInv, LookupInv, FileOf
  <2>3. w = u
    BY <1>1, <1>2, <2>2 DEF ClaimInv, Holds, Hashing, QueueTypeOK
  <2> QED
    BY <1>2, <2>3 DEF Hashing
<1>5. jobOf(FileOf(u)) = "queued"
  BY <1>3, <1>4 DEF jobOf
<1>6. \A f \in Files : (\E w \in Workers : Hashing(w) /\ FileOf(w) = f)'
                        <=> f = FileOf(u) \/ \E w \in Workers : Hashing(w) /\ FileOf(w) = f
  BY <1>1, <1>2 DEF Hashing, FileOf, QueueTypeOK
<1>7. \A f \in Files : jobOf(f)' = IF f = FileOf(u) THEN "running" ELSE jobOf(f)
  BY <1>2, <1>6 DEF jobOf
<1>8. [f \in Files |-> jobOf(f)]' = [[f \in Files |-> jobOf(f)] EXCEPT ![FileOf(u)] = "running"]
  BY <1>3, <1>7
<1>9. ~(packaged /\ pending_count = 0) /\ UNCHANGED (packaged /\ pending_count = 0)
  BY <1>1, <1>2 DEF QueueTypeOK
<1> QED
  BY <1>3, <1>5, <1>8, <1>9 DEF Jobs!Start

LEMMA JobsFinishStep ==
  ASSUME IInv, NEW u \in Workers, FinishHash(u)
  PROVE  \E g \in Files : Jobs!Finish(g)
<1>1. QueueTypeOK
  BY DEF IInv
<1>2. PICK s \in Outcomes : results' = [results EXCEPT ![FileOf(u)] = s]
  BY DEF FinishHash
<1>3. /\ wpc[u] = "hash" /\ wpc' = [wpc EXCEPT ![u] = "count"]
      /\ UNCHANGED <<pending_indices, packaged, pending_count, q_idx>>
  BY DEF FinishHash
<1>4. FileOf(u) \in Files /\ q_idx[u] + 1 \in 1 .. Queued
  BY <1>3, HashedFileIsPending
<1>5. \A w \in Workers : Hashing(w) /\ FileOf(w) = FileOf(u) => w = u
  <2> SUFFICES ASSUME NEW w \in Workers, Hashing(w), FileOf(w) = FileOf(u) PROVE w = u
    OBVIOUS
  <2>1. q_idx[w] + 1 \in 1 .. Queued
    BY HashedFileIsPending DEF Hashing
  <2>2. q_idx[w] + 1 = q_idx[u] + 1
    BY <1>4, <2>1 DEF IInv, LookupInv, FileOf
  <2> QED
    BY <1>1, <1>3, <2>2 DEF IInv, ClaimInv, Holds, Hashing, QueueTypeOK
<1>6. jobOf(FileOf(u)) = "running"
  BY <1>3 DEF jobOf, Hashing
<1>7. \A f \in Files : (\E w \in Workers : Hashing(w) /\ FileOf(w) = f)'
                        <=> f # FileOf(u) /\ \E w \in Workers : Hashing(w) /\ FileOf(w) = f
  BY <1>1, <1>3, <1>5 DEF Hashing, FileOf, QueueTypeOK
<1>8. ASSUME NEW f \in Files
      PROVE  jobOf(f)' = IF f = FileOf(u) THEN s ELSE jobOf(f)
  <2>1. CASE f = FileOf(u)
    <3>1. results'[f] = s /\ ~(\E w \in Workers : Hashing(w) /\ FileOf(w) = f)'
      BY <1>1, <1>2, <1>4, <1>7, <2>1 DEF QueueTypeOK
    <3> QED
      BY <2>1, <3>1 DEF jobOf, Outcomes
  <2>2. CASE f # FileOf(u)
    <3>1. results'[f] = results[f]
      BY <1>1, <1>2, <2>2 DEF QueueTypeOK
    <3> QED
      BY <1>7, <2>2, <3>1 DEF jobOf
  <2> QED
    BY <2>1, <2>2
<1>9. [f \in Files |-> jobOf(f)]' = [[f \in Files |-> jobOf(f)] EXCEPT ![FileOf(u)] = s]
  BY <1>4, <1>8
<1>10. UNCHANGED (packaged /\ pending_count = 0)
  BY <1>3
<1> QED
  BY <1>2, <1>4, <1>6, <1>9, <1>10 DEF Jobs!Finish

LEMMA JobsAdmitStep ==
  ASSUME IInv, CacheHit \/ \E slice \in {"zero", "partial"} : Enqueue(slice)
  PROVE  \E g \in Files : Jobs!Admit(g)
<1>1. QueueTypeOK /\ LookupInv /\ PackageInv
  BY DEF IInv
<1>2. looked \in Files
  BY FileCountAssumption, <1>1 DEF CacheHit, Enqueue, Files, QueueTypeOK
<1>3. ~packaged /\ ~packaged' /\ UNCHANGED wpc
  BY <1>1 DEF CacheHit, Enqueue, PackageInv, QueueTypeOK
<1>4. PICK s \in {"AK_STATUS_FILE_CACHED", "AK_STATUS_FILE_PENDING"} :
        results' = [results EXCEPT ![looked] = s]
  BY DEF CacheHit, Enqueue
<1>5. /\ \A w \in Workers : ~Hashing(w) /\ ~Hashing(w)'
      /\ results[looked] = "unset"
  BY <1>1, <1>2, <1>3 DEF PackageInv, LookupInv, Hashing, QueueTypeOK
<1> DEFINE t == IF s = "AK_STATUS_FILE_CACHED" THEN "cached" ELSE "queued"
<1>6. jobOf(looked) = "unknown"
  BY <1>5 DEF jobOf
<1>7. \A f \in Files : jobOf(f)' = IF f = looked THEN t ELSE jobOf(f)
  BY <1>1, <1>4, <1>5 DEF jobOf, QueueTypeOK
<1>8. [f \in Files |-> jobOf(f)]' = [[f \in Files |-> jobOf(f)] EXCEPT ![looked] = t]
  BY <1>2, <1>7
<1>9. t \in {"cached", "queued"} /\ UNCHANGED (packaged /\ pending_count = 0)
  BY <1>3
<1>10. Jobs!Admit(looked)
  <2> HIDE DEF t
  <2> QED
    BY <1>2, <1>6, <1>8, <1>9 DEF Jobs!Admit
<1> QED
  BY <1>2, <1>10

(* What HashJobs promises, the queue keeps, for any number of files and    *)
(* workers: every step of it starts a file nobody started, finishes one,   *)
(* admits one, stops the phase, or is invisible.                           *)
THEOREM QueueImplementsHashJobs == Spec => ImplementsHashJobs
<1> DEFINE J == [f \in Files |-> jobOf(f)]
           St == packaged /\ pending_count = 0
<1>1. Init => Jobs!Init
  <2> SUFFICES ASSUME Init PROVE Jobs!Init
    OBVIOUS
  <2>1. \A f \in Files : jobOf(f) = "unknown"
    BY DEF Init, jobOf, Hashing
  <2> QED
    BY <2>1 DEF Jobs!Init, Init
<1>2. IInv /\ [Next]_queueVars => [Jobs!Next]_(Jobs!jobVars)
  <2> SUFFICES ASSUME IInv, [Next]_queueVars PROVE Jobs!Next \/ UNCHANGED <<J, St>>
    BY DEF Jobs!jobVars
  <2>0. QueueTypeOK
    BY DEF IInv
  <2>1. ASSUME \A f \in Files : jobOf(f)' = jobOf(f) PROVE UNCHANGED J
    BY <2>1
  <2>2. CASE UNCHANGED queueVars
    <3>1. \A f \in Files : jobOf(f)' = jobOf(f)
      BY <2>0, <2>2, JobsUnchanged DEF queueVars, Hashing
    <3> QED
      BY <2>1, <2>2, <3>1 DEF queueVars
  <2>3. CASE CacheHit \/ \E slice \in {"zero", "partial"} : Enqueue(slice)
    BY <2>3, JobsAdmitStep DEF Jobs!Next
  <2>4. CASE Package \/ Poison
    <3>1. \A f \in Files : jobOf(f)' = jobOf(f)
      BY <2>0, <2>4, JobsUnchanged DEF Package, Poison, Hashing
    <3>2. UNCHANGED J
      BY <2>1, <3>1
    <3>3. St' = TRUE \/ UNCHANGED St
      BY <2>4 DEF Package, Poison
    <3> QED
      BY <3>2, <3>3 DEF Jobs!Next, Jobs!Stop
  <2>5. ASSUME NEW w \in Workers, Spawn(w) \/ Claim(w) \/ Leave(w) \/ CountDone(w)
        PROVE  UNCHANGED <<J, St>>
    <3>1. \A v \in Workers : /\ Hashing(v)' <=> Hashing(v)
                             /\ Hashing(v) => q_idx'[v] = q_idx[v]
      BY <2>0, <2>5 DEF Spawn, Claim, Leave, CountDone, Hashing, QueueTypeOK
    <3>2. UNCHANGED <<results, pending_indices, packaged, pending_count>>
      BY <2>5 DEF Spawn, Claim, Leave, CountDone
    <3>3. \A f \in Files : jobOf(f)' = jobOf(f)
      BY <2>0, <3>1, <3>2, JobsUnchanged
    <3> QED
      BY <2>1, <3>2, <3>3
  <2>6. ASSUME NEW w \in Workers, StartHash(w) PROVE Jobs!Next
    BY <2>6, JobsStartStep DEF Jobs!Next
  <2>7. ASSUME NEW w \in Workers, FinishHash(w) PROVE Jobs!Next
    BY <2>7, JobsFinishStep DEF Jobs!Next
  <2> QED
    BY <2>2, <2>3, <2>4, <2>5, <2>6, <2>7 DEF Next, WorkerStep
<1> QED
  BY <1>1, <1>2, QueueInvariant, PTL DEF Spec, ImplementsHashJobs, Jobs!Spec
=============================================================================
