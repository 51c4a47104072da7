-------------------------- MODULE HashCacheProofs ---------------------------
(***************************************************************************)
(* Theorems about the cache, for any number of files, of runs at the same  *)
(* time, of segments, and of changes to the files.                         *)
(*                                                                         *)
(* A hit is read by two statements, between which other runs may commit.   *)
(* What keeps the two answers together is that a row is never changed but  *)
(* replaced, by one with an id that no row had before: the id that the     *)
(* first statement read either still names that very row or names none.    *)
(* What makes it whole is that only a writer that is past its last insert  *)
(* commits.                                                                *)
(***************************************************************************)
EXTENDS HashCache, FiniteSetTheorems, TLAPS

(* es are the entries of the first m of n segments, by the run numbered b; *)
(* what did not fail is of a content not older than the metadata oldest.   *)
Taken(es, b, n, m, oldest) ==
  /\ \A e \in es : /\ e.by = b /\ e.n = n /\ e.k \in 0 .. m - 1
                   /\ failed(e) \/ (e.ts = e.k + 1 /\ e.of >= oldest)
  /\ \A s \in 0 .. m - 1 : \E e \in es : e.k = s
  /\ \A d, e \in es : d.k = e.k => d = e

(* hs is what has been inserted of the first m of them: all, but only one  *)
(* for each timestamp.                                                     *)
Holds(hs, es, m) ==
  hs \subseteq es /\ \A e \in es : e.k < m => \E x \in hs : x.ts = e.ts

(* hs is the whole of one save.                                            *)
IsSaved(hs, oldest) ==
  /\ hs # {}
  /\ \A d, e \in hs : d.by = e.by /\ d.n = e.n /\ (d.k = e.k => d = e)
  /\ \A e \in hs : /\ e.n \in Segments /\ e.k \in 0 .. e.n - 1
                   /\ failed(e) \/ (e.ts = e.k + 1 /\ e.of >= oldest)
  /\ (\A e \in hs : ~failed(e)) => \A e \in hs : \A s \in 0 .. e.n - 1 : \E x \in hs : x.k = s

(* Each id names one row, and one of them is the largest.                  *)
TablesOK(tables) ==
  /\ DOMAIN tables = Files
  /\ \A f \in Files : tables[f] # NoRow => tables[f].id \in Nat \ {0} /\ tables[f].metadata \in Nat
  /\ \A f, g \in Files : tables[f] # NoRow /\ tables[g] # NoRow /\ tables[f].id = tables[g].id => f = g
  /\ \E m \in {0} \cup {row.id : row \in Rows(tables)} : \A row \in Rows(tables) : row.id <= m

RowIsWhole(row) == row # NoRow => IsSaved(row.hashes, row.metadata)

(* What a transaction has written has new ids, and but for the row whose   *)
(* hashes are on their way is whole.                                       *)
DatabaseInv ==
  /\ TablesOK(db)
  /\ TablesOK(txdb)
  /\ \A f \in Files : RowIsWhole(db[f])
  /\ \A f \in Files : \/ RowIsWhole(txdb[f])
                      \/ \E r \in Runs : pc[r] = "insert" /\ writer = r /\ i[r] = f
  /\ writer # NoRun => \A f \in Files : \/ txdb[f] = db[f]
                                        \/ txdb[f] # NoRow /\ \A row \in Rows(db) : row.id < txdb[f].id

(* Between the two statements of a lookup.                                 *)
LookupOK(r) ==
  pc[r] = "hashes" =>
    /\ i[r] \in Files
    /\ \E row \in Rows(db) : row_id[r] <= row.id
    /\ \A f \in Files : db[f] # NoRow /\ db[f].id = row_id[r] => db[f].metadata = scanned[r][i[r]]

(* Within a file, and within its row.                                      *)
SegmentOK(r) ==
  /\ pc[r] = "hash" => /\ i[r] \in Files /\ k[r] \in 0 .. segments[r] - 1
                       /\ k[r] # 0 => results[r][i[r]] = "AK_STATUS_FILE_PENDING"
  /\ pc[r] \notin {"hash", "insert"} => k[r] = 0
  /\ pc[r] = "off" => writer # r

InsertOK(r) ==
  pc[r] = "insert" =>
    /\ i[r] \in Files /\ k[r] \in 0 .. segments[r] - 1 /\ writer = r
    /\ results[r][i[r]] = "AK_OK"
    /\ txdb[i[r]] # NoRow /\ txdb[i[r]].id = row_id[r] /\ txdb[i[r]].metadata = scanned[r][i[r]]
    /\ \A row \in Rows(db) : row.id < row_id[r]
    /\ Holds(txdb[i[r]].hashes, entries[r][i[r]], k[r])

(* What a run has of a file is of one save or of its own hashing.          *)
FileOK(r, f) ==
  /\ scanned[r][f] <= metadata[f]
  /\ pc[r] = "off" => results[r][f] = "AK_STATUS_FILE_PENDING"
  /\ results[r][f] = "AK_STATUS_FILE_PENDING" =>
       Taken(entries[r][f], number[r], segments[r], IF pc[r] = "hash" /\ i[r] = f THEN k[r] ELSE 0, scanned[r][f])
  /\ results[r][f] = "AK_OK" => Taken(entries[r][f], number[r], segments[r], segments[r], scanned[r][f])
  /\ results[r][f] = "AK_STATUS_FILE_CACHED" =>
       IsSaved(entries[r][f], scanned[r][f]) /\ Cardinality(entries[r][f]) = segments[r]

RunOK(r) == LookupOK(r) /\ SegmentOK(r) /\ InsertOK(r) /\ \A f \in Files : FileOK(r, f)

Places == {"off", "lookup", "hashes", "hash", "sync", "insert"}
Statuses == {"AK_STATUS_FILE_PENDING", "AK_STATUS_FILE_CACHED", "AK_OK", "AK_IO_FAIL"}

RunTypeOK ==
  /\ disk \in [Files -> Nat]
  /\ metadata \in [Files -> Nat]
  /\ \A f \in Files : metadata[f] <= disk[f]
  /\ starts \in Nat
  /\ pc \in [Runs -> Places]
  /\ number \in [Runs -> Nat]
  /\ segments \in [Runs -> Segments]
  /\ scanned \in [Runs -> [Files -> Nat]]
  /\ results \in [Runs -> [Files -> Statuses]]
  /\ DOMAIN entries = Runs
  /\ \A r \in Runs : DOMAIN entries[r] = Files
  /\ i \in [Runs -> Nat]
  /\ k \in [Runs -> Nat]
  /\ row_id \in [Runs -> Nat]

CacheInv == RunTypeOK /\ DatabaseInv /\ \A r \in Runs : RunOK(r)

-----------------------------------------------------------------------------
(***************************************************************************)
(* Rows and their ids                                                      *)
(***************************************************************************)

(* The id of an INSERT is larger than all ids in the table.                *)
LEMMA NewIdIsLargest ==
  ASSUME NEW tables, TablesOK(tables)
  PROVE  /\ NextId(tables) \in Nat \ {0}
         /\ \A row \in Rows(tables) : row.id < NextId(tables)
<1> DEFINE Ids == {0} \cup {row.id : row \in Rows(tables)}
           Largest(m) == \A row \in Rows(tables) : row.id <= m
<1>1. \A row \in Rows(tables) : row.id \in Nat
  BY DEF TablesOK, Rows
<1>2. PICK m \in Ids : Largest(m)
  BY DEF TablesOK
<1>3. (CHOOSE x \in Ids : Largest(x)) \in Ids /\ Largest(CHOOSE x \in Ids : Largest(x))
  <2> HIDE DEF Ids, Largest
  <2> QED  BY <1>2
<1>4. NextId(tables) = 1 + CHOOSE x \in Ids : Largest(x)
  BY DEF NextId
<1>5. \A x \in Ids : x \in Nat
  BY <1>1
<1> QED
  <2> DEFINE x == CHOOSE y \in Ids : Largest(y)
  <2>1. x \in Nat /\ Largest(x) /\ NextId(tables) = 1 + x
    BY <1>3, <1>4, <1>5
  <2> HIDE DEF x
  <2> QED  BY <2>1, <1>1

(* Replacing a file's row by one with a new id keeps the table in order.   *)
LEMMA NewRowKeepsOrder ==
  ASSUME NEW tables, TablesOK(tables), NEW f \in Files, NEW v \in Nat, NEW hs,
         NEW new, new = [tables EXCEPT ![f] = [id |-> NextId(tables), metadata |-> v, hashes |-> hs]]
  PROVE  TablesOK(new)
<1> DEFINE row == [id |-> NextId(tables), metadata |-> v, hashes |-> hs]
<1>1. /\ NextId(tables) \in Nat \ {0}
      /\ \A x \in Rows(tables) : x.id < NextId(tables)
  BY NewIdIsLargest
<1>2. row # NoRow /\ row.id = NextId(tables) /\ row.metadata = v
  BY <1>1 DEF NoRow
<1> HIDE DEF row
<1>3. DOMAIN new = Files /\ new[f] = row /\ \A g \in Files \ {f} : new[g] = tables[g]
  BY DEF TablesOK, row
<1>4. \A g \in Files \ {f} : tables[g] # NoRow => tables[g].id < row.id /\ tables[g].id \in Nat
  BY <1>1, <1>2 DEF Rows, TablesOK
<1>5. \A g \in Files : new[g] # NoRow => new[g].id \in Nat \ {0} /\ new[g].metadata \in Nat
  BY <1>1, <1>2, <1>3 DEF TablesOK
<1>6. \A g, h \in Files : new[g] # NoRow /\ new[h] # NoRow /\ new[g].id = new[h].id => g = h
  <2> SUFFICES ASSUME NEW g \in Files, NEW h \in Files,
                      new[g] # NoRow, new[h] # NoRow, new[g].id = new[h].id, g # h
               PROVE  FALSE
    OBVIOUS
  <2>1. CASE g = f \/ h = f
    BY <2>1, <1>1, <1>2, <1>3, <1>4
  <2>2. CASE g # f /\ h # f
    BY <2>2, <1>3 DEF TablesOK
  <2> QED  BY <2>1, <2>2
<1>7. row \in Rows(new) /\ \A x \in Rows(new) : x.id <= row.id
  BY <1>1, <1>2, <1>3, <1>4 DEF Rows
<1> QED
  BY <1>3, <1>5, <1>6, <1>7 DEF TablesOK

(* So does changing the hashes of a row.                                   *)
LEMMA SameIdsKeepOrder ==
  ASSUME NEW tables, TablesOK(tables), NEW new, DOMAIN new = Files,
         \A f \in Files : \/ new[f] = tables[f]
                         \/ /\ tables[f] # NoRow /\ new[f] # NoRow
                            /\ new[f].id = tables[f].id /\ new[f].metadata = tables[f].metadata
  PROVE  TablesOK(new)
<1>1. \A f \in Files : new[f] = NoRow <=> tables[f] = NoRow
  OBVIOUS
<1>2. \A f \in Files : new[f] # NoRow => new[f].id = tables[f].id /\ new[f].metadata = tables[f].metadata
  OBVIOUS
<1>3. {row.id : row \in Rows(new)} = {row.id : row \in Rows(tables)}
  <2>1. \A row \in Rows(new) : \E x \in Rows(tables) : x.id = row.id
    BY <1>1, <1>2 DEF Rows
  <2>2. \A row \in Rows(tables) : \E x \in Rows(new) : x.id = row.id
    BY <1>1, <1>2 DEF Rows
  <2> QED  BY <2>1, <2>2
<1>4. \E m \in {0} \cup {row.id : row \in Rows(new)} : \A row \in Rows(new) : row.id <= m
  <2>1. PICK m \in {0} \cup {row.id : row \in Rows(tables)} : \A row \in Rows(tables) : row.id <= m
    BY DEF TablesOK
  <2>2. \A row \in Rows(new) : row.id <= m
    BY <2>1, <1>3
  <2> QED  BY <2>1, <2>2, <1>3
<1>5. \A f \in Files : new[f] # NoRow => new[f].id \in Nat \ {0} /\ new[f].metadata \in Nat
  BY <1>1, <1>2 DEF TablesOK
<1>6. \A f, g \in Files : new[f] # NoRow /\ new[g] # NoRow /\ new[f].id = new[g].id => f = g
  BY <1>1, <1>2 DEF TablesOK
<1> QED  BY <1>4, <1>5, <1>6 DEF TablesOK

(* The hashes with an id are those of the one row that has it, if any.     *)
LEMMA HashesAreOfOneRow ==
  ASSUME NEW id, TablesOK(db), HashesOf(id) # {}
  PROVE  \E f \in Files : db[f] # NoRow /\ db[f].id = id /\ HashesOf(id) = db[f].hashes
<1>1. PICK row \in Rows(db) : row.id = id
  BY DEF HashesOf
<1>2. PICK f \in Files : row = db[f] /\ db[f] # NoRow
  BY DEF Rows
<1>3. {x \in Rows(db) : x.id = id} = {db[f]}
  BY <1>1, <1>2 DEF Rows, TablesOK
<1> QED  BY <1>1, <1>2, <1>3 DEF HashesOf

(***************************************************************************)
(* Entries of a hashing, and of a save                                     *)
(***************************************************************************)

(* One more segment.                                                       *)
LEMMA OneMoreSegment ==
  ASSUME NEW es, NEW b, NEW n, NEW m \in Nat, NEW oldest, Taken(es, b, n, m, oldest),
         NEW e, e.by = b, e.n = n, e.k = m, failed(e) \/ (e.ts = m + 1 /\ e.of >= oldest)
  PROVE  Taken(es \cup {e}, b, n, m + 1, oldest)
<1>1. \A x \in es : x.k \in 0 .. m - 1
  BY DEF Taken
<1>2. ASSUME NEW x \in es \cup {e}
      PROVE  x.by = b /\ x.n = n /\ x.k \in 0 .. m /\ (failed(x) \/ (x.ts = x.k + 1 /\ x.of >= oldest))
  <2>1. CASE x = e
    BY <2>1
  <2>2. CASE x \in es
    BY <2>2, <1>1 DEF Taken
  <2> QED  BY <2>1, <2>2
<1>3. \A s \in 0 .. m : \E x \in es \cup {e} : x.k = s
  <2> SUFFICES ASSUME NEW s \in 0 .. m PROVE \E x \in es \cup {e} : x.k = s
    OBVIOUS
  <2>1. CASE s = m
    BY <2>1
  <2>2. CASE s \in 0 .. m - 1
    BY <2>2 DEF Taken
  <2> QED  BY <2>1, <2>2
<1>4. \A d, x \in es \cup {e} : d.k = x.k => d = x
  <2>1. \A x \in es : x.k # m
    BY <1>1
  <2> QED  BY <2>1 DEF Taken
<1> QED  BY <1>2, <1>3, <1>4 DEF Taken

(* When all segments have been inserted, the row is whole: without a       *)
(* failed one in it no timestamp stood for two of them.                    *)
LEMMA HeldIsSaved ==
  ASSUME NEW hs, NEW es, NEW b, NEW n \in Segments, NEW oldest, Taken(es, b, n, n, oldest), Holds(hs, es, n)
  PROVE  IsSaved(hs, oldest)
<1>1. n \in 1 .. 20
  BY SegmentsAssumption
<1>2. /\ \A e \in hs : e \in es
      /\ \A e \in es : e.k \in 0 .. n - 1 /\ \E x \in hs : x.ts = e.ts
  BY <1>1 DEF Holds, Taken
<1>3. hs # {}
  <2>1. 0 \in 0 .. n - 1
    BY <1>1
  <2>2. PICK e \in es : e.k = 0
    BY <2>1 DEF Taken
  <2> QED  BY <2>2, <1>2
<1>4. /\ \A d, e \in hs : d.by = e.by /\ d.n = e.n /\ (d.k = e.k => d = e)
      /\ \A e \in hs : /\ e.n = n /\ e.k \in 0 .. e.n - 1
                       /\ failed(e) \/ (e.ts = e.k + 1 /\ e.of >= oldest)
  BY <1>2 DEF Taken
<1>5. ASSUME \A e \in hs : ~failed(e), NEW s \in 0 .. n - 1
      PROVE  \E x \in hs : x.k = s
  <2>1. PICK e \in es : e.k = s
    BY DEF Taken
  <2>2. PICK x \in hs : x.ts = e.ts
    BY <1>2, <2>1
  <2>3. x.ts = x.k + 1 /\ x.k \in Int
    BY <1>4, <1>5, <2>2
  <2>4. ~failed(e)
    BY <1>5, <2>2 DEF failed
  <2>5. e.ts = s + 1
    BY <2>1, <2>4 DEF Taken
  <2>6. s \in Int
    BY <1>1
  <2>7. x.k + 1 = s + 1
    BY <2>2, <2>3, <2>5
  <2>8. x.k = s
    BY <2>3, <2>6, <2>7
  <2> QED  BY <2>2, <2>8
<1> QED  BY <1>3, <1>4, <1>5 DEF IsSaved

(* A save has as many hashes as segments, or fewer if one of them failed.  *)
LEMMA SavedCounts ==
  ASSUME NEW hs, NEW oldest, IsSaved(hs, oldest), NEW n, \A e \in hs : e.n = n
  PROVE  /\ n \in Segments
         /\ Cardinality(hs) \in Nat /\ Cardinality(hs) <= n
         /\ (\A e \in hs : ~failed(e)) => Cardinality(hs) = n
<1> DEFINE K == {e.k : e \in hs}
           of == [s \in K |-> CHOOSE e \in hs : e.k = s]
<1>1. n \in Segments /\ n \in 1 .. 20
  <2>1. PICK e : e \in hs
    BY DEF IsSaved
  <2>2. e.n = n /\ e.n \in Segments
    BY <2>1 DEF IsSaved
  <2> QED  BY <2>2, SegmentsAssumption
<1>2. K \subseteq 0 .. n - 1
  BY DEF IsSaved
<1>3. IsFiniteSet(0 .. n - 1) /\ Cardinality(0 .. n - 1) = n
  BY <1>1, FS_Interval
<1>4. IsFiniteSet(K) /\ Cardinality(K) \in Nat /\ Cardinality(K) <= n
  BY <1>2, <1>3, FS_Subset, FS_CardinalityType
<1>5. \A e \in hs : e.k \in K /\ of[e.k] = e
  <2> SUFFICES ASSUME NEW e \in hs PROVE e.k \in K /\ of[e.k] = e
    OBVIOUS
  <2>1. e.k \in K /\ of[e.k] = CHOOSE x \in hs : x.k = e.k
    OBVIOUS
  <2>2. \A x \in hs : x.k = e.k => x = e
    BY DEF IsSaved
  <2> QED  BY <2>1, <2>2
<1>6. \A s \in K : of[s] \in hs /\ of[s].k = s
  BY <1>5
<1>7. of \in Bijection(K, hs)
  <2>1. of \in [K -> hs]
    BY <1>6
  <2> HIDE DEF K, of
  <2>2. of \in Injection(K, hs)
    BY <1>6, <2>1 DEF Injection, IsInjective
  <2>3. of \in Surjection(K, hs)
    BY <1>5, <2>1 DEF Surjection
  <2> QED  BY <2>2, <2>3 DEF Bijection
<1>8. Cardinality(hs) = Cardinality(K)
  <2> HIDE DEF K, of
  <2> QED  BY <1>4, <1>7, FS_Bijection DEF ExistsBijection
<1>9. ASSUME \A e \in hs : ~failed(e)
      PROVE  K = 0 .. n - 1
  <2>1. \A s \in 0 .. n - 1 : \E x \in hs : x.k = s
    BY <1>9 DEF IsSaved
  <2> QED  BY <2>1, <1>2
<1> QED  BY <1>1, <1>3, <1>4, <1>8, <1>9

-----------------------------------------------------------------------------
(***************************************************************************)
(* The other runs                                                          *)
(***************************************************************************)

(* A step of one run leaves the locals of the others alone ...             *)
Same(q) ==
  /\ pc'[q] = pc[q] /\ number'[q] = number[q] /\ segments'[q] = segments[q]
  /\ i'[q] = i[q] /\ k'[q] = k[q] /\ row_id'[q] = row_id[q]
  /\ \A f \in Files : /\ scanned'[q][f] = scanned[q][f] /\ results'[q][f] = results[q][f]
                      /\ entries'[q][f] = entries[q][f]

(* ... and what is said of them.                                           *)
LEMMA OthersStayOK ==
  ASSUME RunTypeOK, RunTypeOK', NEW r \in Runs, NEW q \in Runs \ {r}, RunOK(q), Same(q),
         UNCHANGED <<db, metadata>>,
         UNCHANGED <<writer, txdb>> \/ (writer \in {NoRun, r} /\ writer' \in {NoRun, r})
  PROVE  RunOK(q)'
<1>1. q # NoRun
  BY RunsAssumption
<1>2. LookupOK(q)'
  <2> SUFFICES ASSUME pc[q] = "hashes"
               PROVE  /\ i[q] \in Files
                      /\ \E row \in Rows(db) : row_id[q] <= row.id
                      /\ \A f \in Files : db[f] # NoRow /\ db[f].id = row_id[q] => db[f].metadata = scanned'[q][i[q]]
    BY DEF LookupOK, Same
  <2> QED  BY DEF RunOK, LookupOK, Same
<1>3. SegmentOK(q)'
  <2>1. i[q] \in Files => results'[q][i[q]] = results[q][i[q]]
    BY DEF Same
  <2>2. pc[q] = "off" => writer' # q
    BY <1>1 DEF RunOK, SegmentOK
  <2> QED  BY <2>1, <2>2 DEF RunOK, SegmentOK, Same
<1>4. InsertOK(q)'
  <2>1. pc[q] = "insert" => writer = q /\ UNCHANGED <<writer, txdb>>
    BY <1>1 DEF RunOK, InsertOK
  <2>2. i[q] \in Files => /\ results'[q][i[q]] = results[q][i[q]] /\ scanned'[q][i[q]] = scanned[q][i[q]]
                          /\ entries'[q][i[q]] = entries[q][i[q]]
    BY DEF Same
  <2> QED  BY <2>1, <2>2 DEF RunOK, InsertOK, Same
<1>5. ASSUME NEW f \in Files
      PROVE  FileOK(q, f)'
  BY DEF RunOK, FileOK, Same
<1> QED  BY <1>2, <1>3, <1>4, <1>5 DEF RunOK

(* The end of a loop's body moves the run to the next file or loop.        *)
LEMMA NextFileMoves ==
  ASSUME RunTypeOK, NEW r \in Runs, NEW state \in {"lookup", "hash"}, NEW next \in {"hash", "sync"},
         NextFile(r, state, next)
  PROVE  /\ i' \in [Runs -> Nat] /\ i'[r] \in Files
         /\ pc' \in [Runs -> Places] /\ pc'[r] \in {state, next}
         /\ \A q \in Runs \ {r} : i'[q] = i[q] /\ pc'[q] = pc[q]
<1>1. /\ i[r] \in Nat /\ i[r] + 1 \in Nat
      /\ i \in [Runs -> Nat] /\ pc \in [Runs -> Places]
  BY DEF RunTypeOK
<1>2. CASE i[r] + 1 < FileCount
  <2>1. i' = [i EXCEPT ![r] = @ + 1] /\ pc' = [pc EXCEPT ![r] = state]
    BY <1>2 DEF NextFile
  <2> QED  BY <1>1, <1>2, <2>1, FileCountAssumption DEF Files, Places
<1>3. CASE ~(i[r] + 1 < FileCount)
  <2>1. i' = [i EXCEPT ![r] = 0] /\ pc' = [pc EXCEPT ![r] = next]
    BY <1>3 DEF NextFile
  <2> QED  BY <1>1, <2>1, FileCountAssumption DEF Files, Places
<1> QED  BY <1>2, <1>3

(* Where a run is when it is at a file.                                    *)
LEMMA AtAFile ==
  ASSUME RunTypeOK, NEW r \in Runs, NEW state, At(r, state)
  PROVE  pc[r] = state /\ i[r] \in Files
BY FileCountAssumption DEF At, RunTypeOK, Files

(* A step that is not the save's.                                          *)
LEMMA DatabaseStaysOK ==
  ASSUME RunTypeOK, DatabaseInv, NEW r \in Runs, \A q \in Runs \ {r} : Same(q), pc[r] # "insert",
         UNCHANGED dbVars
  PROVE  DatabaseInv'
<1>1. UNCHANGED <<db, txdb, writer>>
  BY DEF dbVars
<1>2. ASSUME NEW f \in Files
      PROVE  RowIsWhole(txdb[f]) \/ \E q \in Runs : pc'[q] = "insert" /\ writer = q /\ i'[q] = f
  BY DEF DatabaseInv, Same
<1> QED  BY <1>1, <1>2 DEF DatabaseInv

(***************************************************************************)
(* The lookup                                                              *)
(***************************************************************************)

(* A miss leaves the run without any hashes of the file.                   *)
LEMMA MissKeepsInv ==
  ASSUME CacheInv, NEW r \in Runs, FileNotValid(r) \/ WrongCount(r)
  PROVE  CacheInv'
<1>1. pc[r] \in {"lookup", "hashes"} /\ RunTypeOK
  BY DEF CacheInv, FileNotValid, WrongCount, At
<1>2. /\ Miss(r) /\ row_id' \in [Runs -> Nat]
      /\ \A q \in Runs \ {r} : row_id'[q] = row_id[q]
      /\ UNCHANGED <<disk, metadata, dbVars, starts, number, segments, scanned, results, entries, k>>
  BY <1>1 DEF RunTypeOK, FileNotValid, WrongCount, Miss, fileVars
<1>3. /\ i' \in [Runs -> Nat] /\ i'[r] \in Files
      /\ pc' \in [Runs -> Places] /\ pc'[r] \in {"lookup", "hash"}
      /\ \A q \in Runs \ {r} : i'[q] = i[q] /\ pc'[q] = pc[q]
  BY <1>1, <1>2, NextFileMoves DEF Miss
<1>4. RunTypeOK'
  BY <1>1, <1>2, <1>3 DEF RunTypeOK
<1>5. \A q \in Runs \ {r} : Same(q)
  BY <1>2, <1>3 DEF Same
<1>6. DatabaseInv'
  BY <1>1, <1>2, <1>5, DatabaseStaysOK DEF CacheInv
<1>7. RunOK(r)'
  <2>1. k[r] = 0 /\ segments[r] \in 1 .. 20
    BY <1>1, SegmentsAssumption DEF CacheInv, RunOK, SegmentOK, RunTypeOK
  <2>2. SegmentOK(r)'
    BY <1>2, <1>3, <2>1 DEF SegmentOK
  <2>3. LookupOK(r)' /\ InsertOK(r)'
    BY <1>3 DEF LookupOK, InsertOK
  <2>4. ASSUME NEW f \in Files
        PROVE  FileOK(r, f)'
    BY <1>1, <1>2, <1>3, <2>1 DEF CacheInv, RunOK, FileOK
  <2> QED  BY <2>2, <2>3, <2>4 DEF RunOK
<1> QED
  BY <1>1, <1>2, <1>4, <1>5, <1>6, <1>7, OthersStayOK DEF CacheInv, dbVars

(* The first statement of a lookup finds a row that is current.            *)
LEMMA FileValidKeepsInv ==
  ASSUME CacheInv, NEW r \in Runs, FileValid(r)
  PROVE  CacheInv'
<1>1. /\ RunTypeOK /\ pc[r] = "lookup" /\ i[r] \in Files
      /\ db[i[r]] # NoRow /\ db[i[r]].metadata = scanned[r][i[r]]
  BY AtAFile DEF CacheInv, FileValid
<1>2. db[i[r]].id \in Nat /\ db[i[r]] \in Rows(db)
  BY <1>1 DEF CacheInv, DatabaseInv, TablesOK, Rows
<1>3. /\ UNCHANGED <<disk, metadata, dbVars, starts, number, segments, scanned, results, entries, i, k>>
      /\ row_id' = [row_id EXCEPT ![r] = db[i[r]].id] /\ pc' = [pc EXCEPT ![r] = "hashes"]
  BY DEF FileValid, fileVars
<1>4. RunTypeOK'
  BY <1>1, <1>2, <1>3 DEF RunTypeOK, Places
<1>5. /\ pc'[r] = "hashes" /\ row_id'[r] = db[i[r]].id
      /\ \A q \in Runs \ {r} : Same(q)
  BY <1>1, <1>3 DEF Same, RunTypeOK
<1>6. DatabaseInv'
  BY <1>1, <1>3, <1>5, DatabaseStaysOK DEF CacheInv
<1>7. RunOK(r)'
  <2>1. \A f \in Files : db[f] # NoRow /\ db[f].id = db[i[r]].id => f = i[r]
    BY <1>1 DEF CacheInv, DatabaseInv, TablesOK
  <2>2. LookupOK(r)'
    BY <1>1, <1>2, <1>3, <1>5, <2>1 DEF LookupOK, dbVars
  <2>3. SegmentOK(r)' /\ InsertOK(r)'
    BY <1>1, <1>3, <1>5 DEF CacheInv, RunOK, SegmentOK, InsertOK
  <2>4. ASSUME NEW f \in Files
        PROVE  FileOK(r, f)'
    BY <1>1, <1>3, <1>5 DEF CacheInv, RunOK, FileOK
  <2> QED  BY <2>2, <2>3, <2>4 DEF RunOK
<1> QED
  BY <1>1, <1>3, <1>4, <1>5, <1>6, <1>7, OthersStayOK DEF CacheInv, dbVars

(* The second statement finds that row, or nothing, and never a hit.       *)
LEMMA GetHashesKeepsInv ==
  ASSUME CacheInv, NEW r \in Runs, GetHashes(r)
  PROVE  CacheInv'
<1>1. /\ RunTypeOK /\ pc[r] = "hashes" /\ i[r] \in Files /\ k[r] = 0
      /\ segments[r] \in 1 .. 20
  BY SegmentsAssumption DEF GetHashes, CacheInv, RunTypeOK, RunOK, LookupOK, SegmentOK
<1>2. HashesOf(row_id[r]) # {}
  <2>1. Cardinality(HashesOf(row_id[r])) = segments[r] /\ Cardinality({}) = 0
    BY FS_EmptySet DEF GetHashes
  <2>2. segments[r] # 0
    BY <1>1
  <2> QED  BY <2>1, <2>2
<1>3. IsSaved(HashesOf(row_id[r]), scanned[r][i[r]])
  <2>1. PICK f \in Files : db[f] # NoRow /\ db[f].id = row_id[r] /\ HashesOf(row_id[r]) = db[f].hashes
    BY <1>2, HashesAreOfOneRow DEF CacheInv, DatabaseInv
  <2>2. db[f].metadata = scanned[r][i[r]]
    BY <1>1, <2>1 DEF CacheInv, RunOK, LookupOK
  <2>3. RowIsWhole(db[f])
    BY DEF CacheInv, DatabaseInv
  <2> QED  BY <2>1, <2>2, <2>3 DEF RowIsWhole
<1>4. /\ UNCHANGED <<disk, metadata, dbVars, starts, number, segments, scanned, k>>
      /\ entries' = [entries EXCEPT ![r][i[r]] = HashesOf(row_id[r])]
      /\ results' = [results EXCEPT ![r][i[r]] = "AK_STATUS_FILE_CACHED"]
      /\ row_id' = [row_id EXCEPT ![r] = 0]
      /\ Cardinality(HashesOf(row_id[r])) = segments[r]
  BY DEF GetHashes, fileVars
<1>5. /\ i' \in [Runs -> Nat] /\ i'[r] \in Files
      /\ pc' \in [Runs -> Places] /\ pc'[r] \in {"lookup", "hash"}
      /\ \A q \in Runs \ {r} : i'[q] = i[q] /\ pc'[q] = pc[q]
  BY <1>1, NextFileMoves DEF GetHashes
<1>6. RunTypeOK'
  BY <1>1, <1>4, <1>5 DEF RunTypeOK, Statuses
<1>7. /\ \A q \in Runs \ {r} : Same(q)
      /\ \A f \in Files \ {i[r]} : entries'[r][f] = entries[r][f] /\ results'[r][f] = results[r][f]
      /\ entries'[r][i[r]] = HashesOf(row_id[r]) /\ results'[r][i[r]] = "AK_STATUS_FILE_CACHED"
  BY <1>1, <1>4, <1>5 DEF Same, RunTypeOK
<1>8. DatabaseInv'
  BY <1>1, <1>4, <1>7, DatabaseStaysOK DEF CacheInv
<1>9. RunOK(r)'
  <2>1. SegmentOK(r)' /\ LookupOK(r)' /\ InsertOK(r)'
    BY <1>1, <1>4, <1>5 DEF SegmentOK, LookupOK, InsertOK
  <2>2. ASSUME NEW f \in Files, f = i[r]
        PROVE  FileOK(r, f)'
    <3>1. scanned[r][f] <= metadata[f]
      BY DEF CacheInv, RunOK, FileOK
    <3> QED  BY <2>2, <3>1, <1>1, <1>3, <1>4, <1>5, <1>7 DEF FileOK
  <2>3. ASSUME NEW f \in Files, f # i[r]
        PROVE  FileOK(r, f)'
    BY <2>3, <1>1, <1>4, <1>5, <1>7 DEF CacheInv, RunOK, FileOK
  <2> QED  BY <2>1, <2>2, <2>3 DEF RunOK
<1> QED
  BY <1>1, <1>4, <1>6, <1>7, <1>8, <1>9, OthersStayOK DEF CacheInv, dbVars

(***************************************************************************)
(* The hashing                                                             *)
(***************************************************************************)

(* A segment is of what is in the file by then, or was when an earlier one *)
(* was read: not older than the scan.                                      *)
LEMMA SegmentKeepsInv ==
  ASSUME CacheInv, NEW r \in Runs, HashSegment(r) \/ SegmentFails(r)
  PROVE  CacheInv'
<1>1. /\ RunTypeOK /\ pc[r] = "hash" /\ i[r] \in Files /\ segments[r] \in 1 .. 20
      /\ results[r][i[r]] = "AK_STATUS_FILE_PENDING" /\ k[r] \in 0 .. segments[r] - 1
  BY AtAFile, SegmentsAssumption DEF HashSegment, SegmentFails, CacheInv, RunTypeOK, RunOK, SegmentOK
<1>2. Taken(entries[r][i[r]], number[r], segments[r], k[r], scanned[r][i[r]])
  BY <1>1 DEF CacheInv, RunOK, FileOK
<1>3. PICK e : /\ SegmentIs(r, e) /\ e.by = number[r] /\ e.n = segments[r] /\ e.k = k[r]
               /\ failed(e) \/ (e.ts = k[r] + 1 /\ e.of >= scanned[r][i[r]])
  <2>1. CASE HashSegment(r)
    <3>1. PICK v \in {disk[i[r]]} \cup {e.of : e \in {x \in entries[r][i[r]] : ~failed(x)}} :
            SegmentIs(r, Entry(r, v, k[r] + 1))
      BY <2>1 DEF HashSegment
    <3>2. v >= scanned[r][i[r]]
      <4>1. CASE v = disk[i[r]]
        <5>1. scanned[r][i[r]] <= metadata[i[r]] /\ metadata[i[r]] <= disk[i[r]]
          BY <1>1 DEF CacheInv, RunOK, FileOK, RunTypeOK
        <5>2. scanned[r][i[r]] \in Nat /\ metadata[i[r]] \in Nat /\ disk[i[r]] \in Nat
          BY <1>1 DEF RunTypeOK
        <5> QED  BY <4>1, <5>1, <5>2
      <4>2. CASE \E e \in entries[r][i[r]] : ~failed(e) /\ v = e.of
        BY <4>2, <1>2 DEF Taken
      <4> QED  BY <3>1, <4>1, <4>2
    <3> QED  BY <3>1, <3>2 DEF Entry
  <2>2. CASE SegmentFails(r)
    BY <2>2 DEF SegmentFails, Entry, failed
  <2> QED  BY <2>1, <2>2
<1> DEFINE es == entries[r][i[r]] \cup {e}
<1>4. Taken(es, number[r], segments[r], k[r] + 1, scanned[r][i[r]])
  <2>1. k[r] \in Nat
    BY <1>1
  <2> QED  BY <1>2, <1>3, <2>1, OneMoreSegment, Zenon
<1>5. /\ UNCHANGED <<disk, metadata, dbVars, starts, number, segments, scanned, row_id>>
      /\ entries' = [entries EXCEPT ![r][i[r]] = es]
  BY <1>3 DEF SegmentIs, fileVars
<1> HIDE DEF es
<1>6. CASE k[r] + 1 < segments[r]
  <2>1. k' = [k EXCEPT ![r] = @ + 1] /\ UNCHANGED <<results, i, pc>>
    BY <1>1, <1>3, <1>6 DEF SegmentIs
  <2>2. RunTypeOK'
    BY <1>1, <1>5, <2>1 DEF RunTypeOK
  <2>3. /\ \A q \in Runs \ {r} : Same(q)
        /\ \A f \in Files \ {i[r]} : entries'[r][f] = entries[r][f]
        /\ entries'[r][i[r]] = es /\ k'[r] = k[r] + 1
    BY <1>1, <1>5, <2>1 DEF Same, RunTypeOK
  <2>4. DatabaseInv'
    BY <1>1, <1>5, <2>3, DatabaseStaysOK DEF CacheInv
  <2>5. SegmentOK(r)' /\ LookupOK(r)' /\ InsertOK(r)'
    BY <1>1, <1>5, <1>6, <2>1, <2>3 DEF SegmentOK, LookupOK, InsertOK
  <2>6. ASSUME NEW f \in Files
        PROVE  FileOK(r, f)'
    <3>1. CASE f = i[r]
      BY <3>1, <1>1, <1>4, <1>5, <2>1, <2>3 DEF CacheInv, RunOK, FileOK
    <3>2. CASE f # i[r]
      BY <3>2, <1>1, <1>5, <2>1, <2>3 DEF CacheInv, RunOK, FileOK
    <3> QED  BY <3>1, <3>2
  <2> QED
    BY <1>1, <1>5, <2>2, <2>3, <2>4, <2>5, <2>6, OthersStayOK DEF CacheInv, dbVars, RunOK
<1>7. CASE ~(k[r] + 1 < segments[r])
  <2>1. PICK status \in {"AK_IO_FAIL", "AK_OK"} : results' = [results EXCEPT ![r][i[r]] = status]
    BY <1>1, <1>3, <1>7 DEF SegmentIs
  <2>2. k' = [k EXCEPT ![r] = 0] /\ NextFile(r, "hash", "sync") /\ k[r] + 1 = segments[r]
    BY <1>1, <1>3, <1>7 DEF SegmentIs
  <2>3. /\ i' \in [Runs -> Nat] /\ i'[r] \in Files
        /\ pc' \in [Runs -> Places] /\ pc'[r] \in {"hash", "sync"}
        /\ \A q \in Runs \ {r} : i'[q] = i[q] /\ pc'[q] = pc[q]
    BY <1>1, <2>2, NextFileMoves
  <2>4. RunTypeOK'
    BY <1>1, <1>5, <2>1, <2>2, <2>3 DEF RunTypeOK, Statuses
  <2>5. /\ \A q \in Runs \ {r} : Same(q)
        /\ \A f \in Files \ {i[r]} : entries'[r][f] = entries[r][f] /\ results'[r][f] = results[r][f]
        /\ entries'[r][i[r]] = es /\ results'[r][i[r]] = status /\ k'[r] = 0
    BY <1>1, <1>5, <2>1, <2>2, <2>3 DEF Same, RunTypeOK
  <2>6. DatabaseInv'
    BY <1>1, <1>5, <2>5, DatabaseStaysOK DEF CacheInv
  <2>7. SegmentOK(r)' /\ LookupOK(r)' /\ InsertOK(r)'
    BY <1>1, <1>5, <2>3, <2>5 DEF SegmentOK, LookupOK, InsertOK
  <2>8. ASSUME NEW f \in Files
        PROVE  FileOK(r, f)'
    <3>1. CASE f = i[r]
      <4>1. scanned[r][f] <= metadata[f]
        BY DEF CacheInv, RunOK, FileOK
      <4> QED  BY <3>1, <4>1, <1>1, <1>4, <1>5, <2>2, <2>3, <2>5 DEF FileOK
    <3>2. CASE f # i[r]
      BY <3>2, <1>1, <1>5, <2>3, <2>5 DEF CacheInv, RunOK, FileOK
    <3> QED  BY <3>1, <3>2
  <2> QED
    BY <1>1, <1>5, <2>4, <2>5, <2>6, <2>7, <2>8, OthersStayOK DEF CacheInv, dbVars, RunOK
<1> QED  BY <1>6, <1>7

(* A file that is not hashed, or could not be, has nothing to save.        *)
LEMMA NothingHashedKeepsInv ==
  ASSUME CacheInv, NEW r \in Runs, HashFails(r) \/ NotQueued(r)
  PROVE  CacheInv'
<1>1. /\ RunTypeOK /\ pc[r] = "hash" /\ i[r] \in Files
      /\ k[r] \in 0 .. segments[r] - 1 /\ segments[r] \in 1 .. 20
  BY AtAFile, SegmentsAssumption DEF HashFails, NotQueued, CacheInv, RunOK, SegmentOK, RunTypeOK
<1>2. /\ UNCHANGED <<disk, metadata, dbVars, starts, number, segments, scanned, entries, row_id>>
      /\ NextFile(r, "hash", "sync")
      /\ \/ results' = [results EXCEPT ![r][i[r]] = "AK_IO_FAIL"] /\ k' = [k EXCEPT ![r] = 0]
         \/ results[r][i[r]] = "AK_STATUS_FILE_CACHED" /\ UNCHANGED <<results, k>>
  BY DEF HashFails, NotQueued, fileVars
<1>3. /\ i' \in [Runs -> Nat] /\ i'[r] \in Files
      /\ pc' \in [Runs -> Places] /\ pc'[r] \in {"hash", "sync"}
      /\ \A q \in Runs \ {r} : i'[q] = i[q] /\ pc'[q] = pc[q]
  BY <1>1, <1>2, NextFileMoves
<1>4. /\ results' \in [Runs -> [Files -> Statuses]] /\ k' \in [Runs -> Nat] /\ k'[r] = 0
      /\ \A q \in Runs \ {r} : k'[q] = k[q] /\ \A f \in Files : results'[q][f] = results[q][f]
      /\ \A f \in Files \ {i[r]} : results'[r][f] = results[r][f]
      /\ results'[r][i[r]] \in {"AK_IO_FAIL", "AK_STATUS_FILE_CACHED"}
      /\ results'[r][i[r]] = "AK_STATUS_FILE_CACHED" => results[r][i[r]] = "AK_STATUS_FILE_CACHED"
  <2>1. CASE results' = [results EXCEPT ![r][i[r]] = "AK_IO_FAIL"] /\ k' = [k EXCEPT ![r] = 0]
    BY <2>1, <1>1 DEF RunTypeOK, Statuses
  <2>2. CASE results[r][i[r]] = "AK_STATUS_FILE_CACHED" /\ UNCHANGED <<results, k>>
    <3>1. k[r] = 0
      BY <1>1, <2>2 DEF CacheInv, RunOK, SegmentOK
    <3> QED  BY <2>2, <3>1, <1>1 DEF RunTypeOK
  <2> QED  BY <1>2, <2>1, <2>2
<1>5. RunTypeOK'
  BY <1>1, <1>2, <1>3, <1>4 DEF RunTypeOK
<1>6. \A q \in Runs \ {r} : Same(q)
  BY <1>2, <1>3, <1>4 DEF Same
<1>7. DatabaseInv'
  BY <1>1, <1>2, <1>6, DatabaseStaysOK DEF CacheInv
<1>8. SegmentOK(r)' /\ LookupOK(r)' /\ InsertOK(r)'
  BY <1>1, <1>2, <1>3, <1>4 DEF SegmentOK, LookupOK, InsertOK
<1>9. ASSUME NEW f \in Files
      PROVE  FileOK(r, f)'
  <2>1. CASE f = i[r]
    BY <2>1, <1>2, <1>3, <1>4 DEF CacheInv, RunOK, FileOK
  <2>2. CASE f # i[r]
    BY <2>2, <1>1, <1>2, <1>3, <1>4 DEF CacheInv, RunOK, FileOK
  <2> QED  BY <2>1, <2>2
<1> QED
  BY <1>1, <1>2, <1>5, <1>6, <1>7, <1>8, <1>9, OthersStayOK DEF CacheInv, dbVars, RunOK

(***************************************************************************)
(* The saving                                                              *)
(***************************************************************************)

LEMMA NotSavedKeepsInv ==
  ASSUME CacheInv, NEW r \in Runs, SyncPassesOver(r) \/ UpsertBusy(r)
  PROVE  CacheInv'
<1>1. /\ RunTypeOK /\ pc[r] = "sync" /\ i[r] \in Files
      /\ UNCHANGED <<disk, metadata, dbVars, starts, number, segments, scanned, results, entries>>
      /\ i' = [i EXCEPT ![r] = @ + 1] /\ k' = [k EXCEPT ![r] = 0]
      /\ pc' = [pc EXCEPT ![r] = "sync"] /\ row_id' = [row_id EXCEPT ![r] = 0]
  BY AtAFile DEF CacheInv, SyncPassesOver, UpsertBusy, NextSync, ResultsStay, fileVars
<1>2. RunTypeOK'
  BY <1>1 DEF RunTypeOK, Places
<1>3. /\ \A q \in Runs \ {r} : Same(q)
      /\ pc'[r] = "sync" /\ k'[r] = 0
  BY <1>1 DEF Same, RunTypeOK
<1>4. DatabaseInv'
  BY <1>1, <1>3, DatabaseStaysOK DEF CacheInv
<1>5. SegmentOK(r)' /\ LookupOK(r)' /\ InsertOK(r)'
  BY <1>3 DEF SegmentOK, LookupOK, InsertOK
<1>6. ASSUME NEW f \in Files
      PROVE  FileOK(r, f)'
  BY <1>1, <1>3 DEF CacheInv, RunOK, FileOK
<1> QED
  BY <1>1, <1>2, <1>3, <1>4, <1>5, <1>6, OthersStayOK DEF CacheInv, dbVars, RunOK

(* The writer's tables get a row with an id above all that anyone has read. *)
LEMMA UpsertKeepsInv ==
  ASSUME CacheInv, NEW r \in Runs, UpsertFile(r)
  PROVE  CacheInv'
<1> DEFINE tables == Tables(r)
<1>1. /\ RunTypeOK /\ pc[r] = "sync" /\ i[r] \in Files /\ scanned[r][i[r]] \in Nat
      /\ results[r][i[r]] = "AK_OK" /\ writer \in {NoRun, r} /\ writer' = r
      /\ UNCHANGED <<disk, metadata, db, starts, number, segments, scanned, results, entries, i, k>>
      /\ txdb' = [tables EXCEPT ![i[r]] = [id |-> NextId(tables), metadata |-> scanned[r][i[r]], hashes |-> {}]]
      /\ row_id' = [row_id EXCEPT ![r] = NextId(tables)] /\ pc' = [pc EXCEPT ![r] = "insert"]
  BY AtAFile DEF CacheInv, RunTypeOK, UpsertFile, Write, NewRow, ResultsStay, fileVars
<1>2. /\ TablesOK(tables)
      /\ \A f \in Files : RowIsWhole(tables[f])
      /\ \A f \in Files : \/ tables[f] = db[f]
                          \/ tables[f] # NoRow /\ \A row \in Rows(db) : row.id < tables[f].id
  BY <1>1, RunsAssumption DEF CacheInv, DatabaseInv, Tables
<1> HIDE DEF tables
<1>3. NextId(tables) \in Nat \ {0} /\ \A row \in Rows(tables) : row.id < NextId(tables)
  BY <1>2, NewIdIsLargest
<1>4. TablesOK(txdb')
  BY <1>1, <1>2, NewRowKeepsOrder
<1>5. \A row \in Rows(db) : row.id < NextId(tables)
  <2> SUFFICES ASSUME NEW f \in Files, db[f] # NoRow
               PROVE  db[f].id < NextId(tables)
    BY DEF Rows
  <2>1. db[f].id \in Nat /\ db[f] \in Rows(db)
    BY DEF CacheInv, DatabaseInv, TablesOK, Rows
  <2>2. tables[f] # NoRow => tables[f] \in Rows(tables) /\ tables[f].id \in Nat
    BY <1>2 DEF TablesOK, Rows
  <2>3. CASE tables[f] = db[f]
    BY <2>2, <2>3, <1>3
  <2>4. CASE tables[f] # db[f]
    <3>1. db[f].id < tables[f].id /\ tables[f].id < NextId(tables) /\ tables[f].id \in Nat
      BY <2>1, <2>2, <2>4, <1>2, <1>3
    <3> QED  BY <3>1, <2>1, <1>3
  <2> QED  BY <2>3, <2>4
<1>6. RunTypeOK'
  BY <1>1, <1>3 DEF RunTypeOK, Places
<1>7. /\ \A q \in Runs \ {r} : Same(q)
      /\ pc'[r] = "insert" /\ row_id'[r] = NextId(tables)
      /\ txdb'[i[r]] = [id |-> NextId(tables), metadata |-> scanned[r][i[r]], hashes |-> {}]
      /\ \A f \in Files \ {i[r]} : txdb'[f] = tables[f]
  BY <1>1, <1>2 DEF Same, RunTypeOK, TablesOK
<1>8. DatabaseInv'
  <2>1. ASSUME NEW f \in Files
        PROVE  RowIsWhole(txdb'[f]) \/ \E q \in Runs : pc'[q] = "insert" /\ writer' = q /\ i'[q] = f
    BY <1>1, <1>2, <1>7
  <2>2. ASSUME NEW f \in Files
        PROVE  txdb'[f] = db[f] \/ (txdb'[f] # NoRow /\ \A row \in Rows(db) : row.id < txdb'[f].id)
    <3>1. CASE f = i[r]
      BY <3>1, <1>3, <1>5, <1>7 DEF NoRow
    <3>2. CASE f # i[r]
      BY <3>2, <1>2, <1>7
    <3> QED  BY <3>1, <3>2
  <2> QED  BY <1>1, <1>4, <2>1, <2>2 DEF CacheInv, DatabaseInv
<1>9. RunOK(r)'
  <2>1. k[r] = 0 /\ segments[r] \in 1 .. 20
    BY <1>1, SegmentsAssumption DEF CacheInv, RunOK, SegmentOK, RunTypeOK
  <2>2. Taken(entries[r][i[r]], number[r], segments[r], segments[r], scanned[r][i[r]])
    BY <1>1 DEF CacheInv, RunOK, FileOK
  <2>3. Holds({}, entries[r][i[r]], 0)
    BY <2>1, <2>2 DEF Holds, Taken
  <2>4. InsertOK(r)'
    <3>1. txdb'[i[r]] # NoRow
      BY <1>3, <1>7 DEF NoRow
    <3>2. /\ txdb'[i[r]].id = NextId(tables) /\ txdb'[i[r]].metadata = scanned[r][i[r]]
          /\ txdb'[i[r]].hashes = {}
      BY <1>7
    <3>3. /\ i'[r] = i[r] /\ k'[r] = 0 /\ segments'[r] = segments[r] /\ writer' = r
          /\ results'[r][i[r]] = "AK_OK" /\ scanned'[r][i[r]] = scanned[r][i[r]]
          /\ entries'[r][i[r]] = entries[r][i[r]] /\ UNCHANGED db
      BY <1>1, <2>1
    <3>4. \A row \in Rows(db)' : row.id < row_id'[r]
      BY <1>5, <1>7, <3>3 DEF Rows
    <3>5. 0 \in 0 .. segments[r] - 1
      BY <2>1
    <3> QED  BY <1>1, <1>7, <2>3, <3>1, <3>2, <3>3, <3>4, <3>5 DEF InsertOK
  <2>5. SegmentOK(r)' /\ LookupOK(r)'
    BY <1>7 DEF SegmentOK, LookupOK
  <2>6. ASSUME NEW f \in Files
        PROVE  FileOK(r, f)'
    BY <1>1, <1>7 DEF CacheInv, RunOK, FileOK
  <2> QED  BY <2>4, <2>5, <2>6 DEF RunOK
<1> QED
  BY <1>1, <1>6, <1>7, <1>8, <1>9, OthersStayOK DEF CacheInv

(* A hash more in the row, or one that its timestamp kept out: either way  *)
(* the row holds what has come so far, and after the last one is whole.    *)
LEMMA InsertKeepsInv ==
  ASSUME CacheInv, NEW r \in Runs, InsertHash(r) \/ InsertRefused(r)
  PROVE  CacheInv'
<1> DEFINE es == entries[r][i[r]]
           row == txdb[i[r]]
           e == ToInsert(r)
<1>1. /\ RunTypeOK /\ pc[r] = "insert" /\ i[r] \in Files /\ segments[r] \in 1 .. 20 /\ segments[r] \in Segments
      /\ k[r] \in 0 .. segments[r] - 1 /\ writer = r /\ r # NoRun
      /\ results[r][i[r]] = "AK_OK"
      /\ row # NoRow /\ row.id = row_id[r] /\ row.metadata = scanned[r][i[r]]
      /\ \A x \in Rows(db) : x.id < row_id[r]
      /\ Holds(row.hashes, es, k[r])
  BY AtAFile, SegmentsAssumption, RunsAssumption
     DEF CacheInv, InsertHash, InsertRefused, RunOK, InsertOK, RunTypeOK
<1>2. Taken(es, number[r], segments[r], segments[r], scanned[r][i[r]])
  BY <1>1 DEF CacheInv, RunOK, FileOK
<1>3. e \in es /\ e.k = k[r]
  BY <1>1, <1>2 DEF Taken, ToInsert
<1>4. /\ UNCHANGED <<disk, metadata, db, starts, number, segments, scanned, results, entries>>
      /\ NextInsert(r) /\ DOMAIN txdb = Files /\ Tables(r) = txdb
  BY <1>1 DEF InsertHash, InsertRefused, Write, dbVars, ResultsStay, fileVars, Tables, CacheInv, DatabaseInv, TablesOK
<1>5. /\ writer' = r /\ DOMAIN txdb' = Files
      /\ \A f \in Files \ {i[r]} : txdb'[f] = txdb[f]
      /\ txdb'[i[r]].id = row.id /\ txdb'[i[r]].metadata = row.metadata /\ txdb'[i[r]] # NoRow
      /\ Holds(txdb'[i[r]].hashes, es, k[r] + 1)
  <2>1. \A d \in es : d.k < k[r] + 1 => d.k < k[r] \/ d = e
    BY <1>1, <1>2, <1>3 DEF Taken
  <2>2. CASE InsertHash(r)
    <3>1. /\ writer' = r
          /\ txdb' = [txdb EXCEPT ![i[r]] = [id |-> row.id, metadata |-> row.metadata, hashes |-> row.hashes \cup {e}]]
      BY <2>2, <1>4 DEF InsertHash, Write
    <3>2. row.id # 0
      BY <1>1 DEF CacheInv, DatabaseInv, TablesOK
    <3>3. Holds(row.hashes \cup {e}, es, k[r] + 1)
      <4> HIDE DEF e, es, row
      <4> QED  BY <1>1, <1>3, <2>1 DEF Holds
    <3> HIDE DEF e, es
    <3> QED  BY <1>1, <1>4, <3>1, <3>2, <3>3 DEF NoRow
  <2>3. CASE InsertRefused(r)
    <3>1. UNCHANGED <<txdb, writer>> /\ \E x \in row.hashes : x.ts = e.ts
      BY <2>3, <1>1, <1>4 DEF InsertRefused, dbVars, KeyIsFree
    <3>2. Holds(row.hashes, es, k[r] + 1)
      <4> HIDE DEF e, es, row
      <4> QED  BY <1>1, <3>1, <2>1 DEF Holds
    <3> HIDE DEF e, es
    <3> QED  BY <1>1, <1>4, <3>1, <3>2
  <2> QED  BY <2>2, <2>3
<1> HIDE DEF es, row, e
<1>6. TablesOK(txdb')
  <2>1. \A f \in Files : \/ txdb'[f] = txdb[f]
                         \/ /\ txdb[f] # NoRow /\ txdb'[f] # NoRow
                            /\ txdb'[f].id = txdb[f].id /\ txdb'[f].metadata = txdb[f].metadata
    BY <1>1, <1>5 DEF row
  <2>2. TablesOK(txdb)
    BY DEF CacheInv, DatabaseInv
  <2> QED  BY <1>5, <2>1, <2>2, SameIdsKeepOrder
<1>7. /\ i' \in [Runs -> Nat] /\ k' \in [Runs -> Nat] /\ row_id' \in [Runs -> Nat] /\ pc' \in [Runs -> Places]
      /\ \A q \in Runs \ {r} : i'[q] = i[q] /\ k'[q] = k[q] /\ row_id'[q] = row_id[q] /\ pc'[q] = pc[q]
      /\ \/ /\ k'[r] = k[r] + 1 /\ k'[r] \in 0 .. segments[r] - 1
            /\ pc'[r] = "insert" /\ i'[r] = i[r] /\ row_id'[r] = row_id[r]
         \/ k[r] + 1 = segments[r] /\ k'[r] = 0 /\ pc'[r] = "sync"
  <2>1. CASE k[r] + 1 < segments[r] /\ k' = [k EXCEPT ![r] = @ + 1] /\ UNCHANGED <<i, pc, row_id>>
    BY <2>1, <1>1 DEF RunTypeOK
  <2>2. CASE k[r] + 1 = segments[r] /\ NextSync(r)
    BY <2>2, <1>1 DEF RunTypeOK, NextSync, Places
  <2> QED  BY <1>4, <2>1, <2>2 DEF NextInsert
<1>8. RunTypeOK'
  BY <1>1, <1>4, <1>7 DEF RunTypeOK
<1>9. \A q \in Runs \ {r} : Same(q)
  BY <1>4, <1>7 DEF Same
<1>10. DatabaseInv'
  <2>1. ASSUME NEW f \in Files
        PROVE  RowIsWhole(txdb'[f]) \/ \E q \in Runs : pc'[q] = "insert" /\ writer' = q /\ i'[q] = f
    <3>1. CASE f # i[r]
      BY <3>1, <1>1, <1>5 DEF CacheInv, DatabaseInv
    <3>2. CASE f = i[r] /\ pc'[r] = "insert"
      BY <3>2, <1>5, <1>7
    <3>3. CASE f = i[r] /\ pc'[r] # "insert"
      <4>1. k[r] + 1 = segments[r]
        BY <3>3, <1>7
      <4>2. IsSaved(txdb'[i[r]].hashes, scanned[r][i[r]])
        BY <1>1, <1>2, <1>5, <4>1, HeldIsSaved
      <4> QED  BY <3>3, <4>2, <1>1, <1>5 DEF RowIsWhole
    <3> QED  BY <3>1, <3>2, <3>3
  <2>2. ASSUME NEW f \in Files
        PROVE  txdb'[f] = db[f] \/ (txdb'[f] # NoRow /\ \A x \in Rows(db) : x.id < txdb'[f].id)
    <3>1. CASE f = i[r]
      BY <3>1, <1>1, <1>5
    <3>2. CASE f # i[r]
      BY <3>2, <1>1, <1>5 DEF CacheInv, DatabaseInv
    <3> QED  BY <3>1, <3>2
  <2> QED  BY <1>4, <1>5, <1>6, <2>1, <2>2 DEF CacheInv, DatabaseInv
<1>11. RunOK(r)'
  <2>1. SegmentOK(r)' /\ LookupOK(r)'
    BY <1>7 DEF SegmentOK, LookupOK
  <2>2. InsertOK(r)'
    BY <1>1, <1>4, <1>5, <1>7 DEF InsertOK, es
  <2>3. ASSUME NEW f \in Files
        PROVE  FileOK(r, f)'
    BY <1>1, <1>4, <1>7 DEF CacheInv, RunOK, FileOK
  <2> QED  BY <2>1, <2>2, <2>3 DEF RunOK
<1> QED
  BY <1>1, <1>4, <1>5, <1>8, <1>9, <1>10, <1>11, OthersStayOK DEF CacheInv

-----------------------------------------------------------------------------
(***************************************************************************)
(* The beginning and the end of a run                                      *)
(***************************************************************************)

(* A run that has ended knows nothing.                                     *)
LEMMA IdleRunIsOK ==
  ASSUME RunTypeOK, NEW r \in Runs, Idle(r), UNCHANGED fileVars, starts' \in Nat, writer' # r
  PROVE  /\ RunTypeOK' /\ RunOK(r)'
         /\ \A q \in Runs \ {r} : Same(q)
<1>1. AnyNumber \in Segments
  BY SegmentsAssumption, Zenon DEF AnyNumber
<1>2. RunTypeOK'
  BY <1>1 DEF Idle, RunTypeOK, Places, Statuses, fileVars
<1>3. \A q \in Runs \ {r} : Same(q)
  BY DEF Idle, RunTypeOK, Same
<1>4. /\ pc'[r] = "off" /\ k'[r] = 0
      /\ \A f \in Files : /\ scanned'[r][f] = 0 /\ entries'[r][f] = {}
                          /\ results'[r][f] = "AK_STATUS_FILE_PENDING"
  BY DEF Idle, RunTypeOK
<1>5. ASSUME NEW f \in Files
      PROVE  FileOK(r, f)'
  <2>1. scanned'[r][f] <= metadata'[f]
    BY <1>4 DEF RunTypeOK, fileVars
  <2>2. Taken(entries'[r][f], number'[r], segments'[r], 0, scanned'[r][f])
    BY <1>4 DEF Taken
  <2> QED  BY <1>4, <2>1, <2>2 DEF FileOK
<1> QED
  BY <1>2, <1>3, <1>4, <1>5 DEF RunOK, LookupOK, SegmentOK, InsertOK

(* A commit brings rows with new ids, so that the id another run has read  *)
(* still names the row it was read from or names none.                     *)
LEMMA LookupsOutliveCommit ==
  ASSUME CacheInv, TablesOK(db'), NEW q \in Runs, Same(q),
         \A f \in Files : \/ db'[f] = db[f]
                          \/ db'[f] # NoRow /\ \A row \in Rows(db) : row.id < db'[f].id
  PROVE  LookupOK(q)'
<1> SUFFICES ASSUME pc[q] = "hashes"
             PROVE  /\ i[q] \in Files
                    /\ \E row \in Rows(db') : row_id[q] <= row.id
                    /\ \A f \in Files : db'[f] # NoRow /\ db'[f].id = row_id[q]
                                         => db'[f].metadata = scanned'[q][i[q]]
  BY DEF LookupOK, Same, Rows
<1>1. i[q] \in Files /\ scanned'[q][i[q]] = scanned[q][i[q]] /\ row_id[q] \in Nat
  BY DEF CacheInv, RunOK, LookupOK, Same, RunTypeOK
<1>2. PICK g \in Files : db[g] # NoRow /\ row_id[q] <= db[g].id /\ db[g] \in Rows(db)
  BY DEF CacheInv, RunOK, LookupOK, Rows
<1>3. \A f \in Files : db'[f] # NoRow => db'[f].id \in Nat /\ db'[f] \in Rows(db')
  BY DEF TablesOK, Rows
<1>4. db[g].id \in Nat
  BY <1>2 DEF CacheInv, DatabaseInv, TablesOK
<1>5. \E row \in Rows(db') : row_id[q] <= row.id
  <2>1. db'[g] # NoRow /\ row_id[q] <= db'[g].id
    <3>1. CASE db'[g] = db[g]
      BY <3>1, <1>2
    <3>2. CASE db'[g] # NoRow /\ db[g].id < db'[g].id
      BY <3>2, <1>1, <1>2, <1>3, <1>4
    <3> QED  BY <3>1, <3>2, <1>2
  <2> QED  BY <2>1, <1>3
<1>6. ASSUME NEW f \in Files, db'[f] # NoRow, db'[f].id = row_id[q]
      PROVE  db'[f].metadata = scanned'[q][i[q]]
  <2>1. CASE db'[f] = db[f]
    BY <2>1, <1>1, <1>6 DEF CacheInv, RunOK, LookupOK
  <2>2. CASE \A row \in Rows(db) : row.id < db'[f].id
    <3>1. db[g].id < row_id[q]
      BY <2>2, <1>2, <1>6
    <3> QED  BY <3>1, <1>1, <1>2, <1>4
  <2> QED  BY <2>1, <2>2
<1> QED  BY <1>1, <1>5, <1>6

LEMMA CommitKeepsInv ==
  ASSUME CacheInv, NEW r \in Runs, Commit(r) \/ Kill(r)
  PROVE  CacheInv'
<1>1. /\ RunTypeOK /\ DatabaseInv /\ Idle(r) /\ UNCHANGED <<disk, metadata, starts>> /\ starts' \in Nat /\ r # NoRun
      /\ \/ writer = r /\ pc[r] = "sync" /\ writer' = NoRun /\ txdb' = txdb /\ db' = txdb
         \/ writer = r /\ writer' = NoRun /\ txdb' = db /\ db' = db
         \/ writer # r /\ UNCHANGED <<db, writer, txdb>>
  BY RunsAssumption DEF Commit, Kill, CacheInv, RunTypeOK, fileVars
<1>2. /\ RunTypeOK' /\ RunOK(r)'
      /\ \A q \in Runs \ {r} : Same(q)
  BY <1>1, IdleRunIsOK DEF fileVars
<1>3. CASE writer = r /\ pc[r] = "sync" /\ writer' = NoRun /\ txdb' = txdb /\ db' = txdb
  <2>1. \A f \in Files : RowIsWhole(txdb[f])
    BY <1>1, <1>3 DEF DatabaseInv
  <2>2. TablesOK(db') /\ TablesOK(txdb') /\ \A f \in Files : RowIsWhole(db'[f]) /\ RowIsWhole(txdb'[f])
    BY <1>1, <1>3, <2>1 DEF DatabaseInv
  <2>3. DatabaseInv'
    BY <1>1, <1>3, <2>2 DEF DatabaseInv
  <2>4. \A f \in Files : \/ db'[f] = db[f]
                         \/ db'[f] # NoRow /\ \A row \in Rows(db) : row.id < db'[f].id
    BY <1>1, <1>3 DEF DatabaseInv
  <2>5. ASSUME NEW q \in Runs \ {r}
        PROVE  RunOK(q)'
    <3>1. RunOK(q) /\ Same(q) /\ q # NoRun
      BY <1>2, RunsAssumption DEF CacheInv
    <3>2. LookupOK(q)'
      BY <2>2, <2>4, <3>1, LookupsOutliveCommit
    <3>3. SegmentOK(q)'
      <4>1. i[q] \in Files => results'[q][i[q]] = results[q][i[q]]
        BY <3>1 DEF Same
      <4> QED  BY <1>3, <3>1, <4>1 DEF RunOK, SegmentOK, Same
    <3>4. InsertOK(q)'
      BY <1>3, <3>1 DEF RunOK, InsertOK, Same
    <3>5. ASSUME NEW f \in Files
          PROVE  FileOK(q, f)'
      BY <1>1, <3>1 DEF RunOK, FileOK, Same
    <3> QED  BY <3>2, <3>3, <3>4, <3>5 DEF RunOK
  <2> QED  BY <1>2, <2>3, <2>5 DEF CacheInv
<1>4. CASE (writer = r /\ writer' = NoRun /\ txdb' = db /\ db' = db) \/ (writer # r /\ UNCHANGED <<db, writer, txdb>>)
  <2>1. DatabaseInv'
    <3>1. CASE writer = r /\ writer' = NoRun /\ txdb' = db /\ db' = db
      BY <1>1, <3>1 DEF DatabaseInv
    <3>2. CASE writer # r /\ UNCHANGED <<db, writer, txdb>>
      <4>1. \A q \in Runs : writer = q => pc'[q] = pc[q] /\ i'[q] = i[q]
        BY <1>2, <3>2 DEF Same
      <4>2. \A f \in Files : \/ RowIsWhole(txdb'[f])
                             \/ \E q \in Runs : pc'[q] = "insert" /\ writer' = q /\ i'[q] = f
        BY <1>1, <3>2, <4>1 DEF DatabaseInv
      <4> QED  BY <1>1, <3>2, <4>2 DEF DatabaseInv
    <3> QED  BY <1>4, <3>1, <3>2
  <2>2. ASSUME NEW q \in Runs \ {r}
        PROVE  RunOK(q)'
    <3>1. RunOK(q) /\ Same(q)
      BY <1>2 DEF CacheInv
    <3> QED  BY <1>1, <1>2, <1>4, <3>1, OthersStayOK
  <2> QED  BY <1>2, <2>1, <2>2 DEF CacheInv
<1> QED  BY <1>1, <1>3, <1>4

LEMMA StartKeepsInv ==
  ASSUME CacheInv, NEW r \in Runs, NEW s \in Segments, Start(r, s)
  PROVE  CacheInv'
<1>1. /\ RunTypeOK /\ pc[r] = "off" /\ pc' = [pc EXCEPT ![r] = "lookup"]
      /\ number' = [number EXCEPT ![r] = starts + 1]
      /\ segments' = [segments EXCEPT ![r] = s] /\ scanned' = [scanned EXCEPT ![r] = metadata]
      /\ starts' = starts + 1
      /\ UNCHANGED <<disk, metadata, db, writer, txdb, results, entries, i, k, row_id>>
  BY DEF Start, dbVars, fileVars, CacheInv
<1>2. /\ pc'[r] = "lookup" /\ scanned'[r] = metadata
      /\ \A q \in Runs \ {r} : Same(q)
  BY <1>1 DEF RunTypeOK, Same
<1>3. RunTypeOK'
  BY <1>1 DEF RunTypeOK, Places
<1>4. DatabaseInv'
  <2>1. pc[r] # "insert" /\ UNCHANGED dbVars
    BY <1>1 DEF dbVars
  <2> QED  BY <1>1, <1>2, <2>1, DatabaseStaysOK DEF CacheInv
<1>5. RunOK(r)'
  <2>1. k'[r] = 0
    BY <1>1 DEF CacheInv, RunOK, SegmentOK
  <2>2. ASSUME NEW f \in Files
        PROVE  FileOK(r, f)'
    <3>1. results'[r][f] = "AK_STATUS_FILE_PENDING"
      BY <1>1 DEF CacheInv, RunOK, FileOK
    <3>2. Taken(entries[r][f], number[r], segments[r], 0, scanned[r][f])
      BY <1>1, <3>1 DEF CacheInv, RunOK, FileOK
    <3>3. Taken(entries'[r][f], number'[r], segments'[r], 0, scanned'[r][f])
      BY <1>1, <3>2 DEF Taken
    <3>4. scanned'[r][f] <= metadata'[f]
      BY <1>1, <1>2 DEF RunTypeOK
    <3> QED  BY <1>2, <3>1, <3>3, <3>4 DEF FileOK
  <2> QED  BY <1>2, <2>1, <2>2 DEF RunOK, LookupOK, SegmentOK, InsertOK
<1> QED
  BY <1>1, <1>2, <1>3, <1>4, <1>5, OthersStayOK DEF CacheInv

LEMMA ChangeKeepsInv ==
  ASSUME CacheInv, NEW g \in Files, Change(g)
  PROVE  CacheInv'
<1>1. UNCHANGED <<db, writer, txdb, starts, pc, number, segments, scanned, results, entries, i, k, row_id>>
  BY DEF Change, dbVars, runVars
<1>2. /\ disk' \in [Files -> Nat] /\ metadata' \in [Files -> Nat]
      /\ \A f \in Files : metadata[f] <= metadata'[f] /\ metadata'[f] <= disk'[f]
  <2>1. /\ disk \in [Files -> Nat] /\ metadata \in [Files -> Nat] /\ \A f \in Files : metadata[f] <= disk[f]
        /\ disk' = [disk EXCEPT ![g] = disk[g] + 1]
        /\ metadata' = metadata \/ metadata' = [metadata EXCEPT ![g] = disk[g] + 1]
    BY DEF Change, CacheInv, RunTypeOK
  <2> QED  BY <2>1
<1>3. RunTypeOK'
  BY <1>1, <1>2 DEF CacheInv, RunTypeOK
<1>4. ASSUME NEW q \in Runs
      PROVE  RunOK(q)'
  <2>1. \A f \in Files : scanned[q][f] <= metadata'[f]
    <3> SUFFICES ASSUME NEW f \in Files PROVE scanned[q][f] <= metadata'[f]
      OBVIOUS
    <3>1. /\ scanned[q][f] \in Nat /\ metadata[f] \in Nat /\ metadata'[f] \in Nat
          /\ scanned[q][f] <= metadata[f]
      BY <1>2 DEF CacheInv, RunTypeOK, RunOK, FileOK
    <3> QED  BY <3>1, <1>2
  <2>2. LookupOK(q)' /\ SegmentOK(q)' /\ InsertOK(q)'
    BY <1>1 DEF CacheInv, RunOK, LookupOK, SegmentOK, InsertOK, Rows
  <2>3. ASSUME NEW f \in Files
        PROVE  FileOK(q, f)'
    BY <1>1, <2>1 DEF CacheInv, RunOK, FileOK
  <2> QED  BY <2>2, <2>3 DEF RunOK
<1> QED
  BY <1>1, <1>3, <1>4 DEF CacheInv, DatabaseInv, TablesOK, Rows

-----------------------------------------------------------------------------
(* What every reachable state of the cache satisfies: its tables are in    *)
(* order, committed rows are whole, and every file a run knows of is of    *)
(* one save or of the run's own hashing, as far as it has come.            *)
THEOREM CacheInvariant == Spec => []CacheInv
<1>1. Init => CacheInv
  <2> SUFFICES ASSUME Init PROVE CacheInv
    OBVIOUS
  <2>1. RunTypeOK
    <3>1. AnyNumber \in Segments
      BY SegmentsAssumption, Zenon DEF AnyNumber
    <3> QED  BY <3>1 DEF Init, RunTypeOK, Places, Statuses
  <2>2. Rows(db) = {} /\ \A f \in Files : db[f] = NoRow
    BY DEF Init, Rows
  <2>3. TablesOK(db)
    BY <2>2 DEF TablesOK, Init
  <2>4. DatabaseInv
    BY <2>2, <2>3 DEF DatabaseInv, RowIsWhole, Init
  <2>5. ASSUME NEW r \in Runs
        PROVE  RunOK(r)
    <3>1. ASSUME NEW f \in Files
          PROVE  FileOK(r, f)
      BY DEF FileOK, Taken, Init
    <3> QED  BY <3>1, RunsAssumption DEF RunOK, LookupOK, SegmentOK, InsertOK, Init
  <2> QED  BY <2>1, <2>4, <2>5 DEF CacheInv
<1>2. CacheInv /\ [Next]_vars => CacheInv'
  <2> SUFFICES ASSUME CacheInv, [Next]_vars PROVE CacheInv'
    OBVIOUS
  <2>1. CASE UNCHANGED vars
    <3>1. /\ UNCHANGED <<disk, metadata, db, writer, txdb, starts>>
          /\ UNCHANGED <<pc, number, segments, scanned, results, entries, i, k, row_id>>
      BY <2>1 DEF vars, dbVars, fileVars, runVars
    <3>2. RunTypeOK'
      BY <3>1 DEF CacheInv, RunTypeOK
    <3>3. DatabaseInv'
      BY <3>1 DEF CacheInv, DatabaseInv, TablesOK, Rows
    <3>4. ASSUME NEW r \in Runs
          PROVE  RunOK(r)'
      <4>1. \A f \in Files : FileOK(r, f)'
        BY <3>1 DEF CacheInv, RunOK, FileOK
      <4>2. LookupOK(r)' /\ SegmentOK(r)' /\ InsertOK(r)'
        BY <3>1 DEF CacheInv, RunOK, LookupOK, SegmentOK, InsertOK, Rows
      <4> QED  BY <4>1, <4>2 DEF RunOK
    <3> QED  BY <3>2, <3>3, <3>4 DEF CacheInv
  <2>2. CASE \E f \in Files : Change(f)
    BY <2>2, ChangeKeepsInv
  <2>3. ASSUME NEW r \in Runs,
               \/ \E s \in Segments : Start(r, s)
               \/ FileNotValid(r) \/ FileValid(r) \/ GetHashes(r) \/ WrongCount(r)
               \/ HashSegment(r) \/ SegmentFails(r) \/ HashFails(r) \/ NotQueued(r)
               \/ SyncPassesOver(r) \/ UpsertFile(r) \/ UpsertBusy(r)
               \/ InsertHash(r) \/ InsertRefused(r) \/ Commit(r)
               \/ Kill(r)
        PROVE  CacheInv'
    BY <2>3, StartKeepsInv, MissKeepsInv, FileValidKeepsInv, GetHashesKeepsInv, SegmentKeepsInv,
       NothingHashedKeepsInv, NotSavedKeepsInv, UpsertKeepsInv, InsertKeepsInv, CommitKeepsInv
  <2> QED  BY <2>1, <2>2, <2>3 DEF Next
<1> QED  BY <1>1, <1>2, PTL DEF Spec

(* A hit never brings the hash of a content older than the metadata the    *)
(* run has scanned: cache_is_file_valid compares them with the row that    *)
(* the hashes read later hang on, by an id that is never given twice.      *)
THEOREM HitsAreAlwaysCurrent == Spec => []HitIsCurrent
<1>1. CacheInv => HitIsCurrent
  <2> SUFFICES ASSUME CacheInv, NEW r \in Runs, NEW f \in Hits(r), NEW e \in entries[r][f]
               PROVE  failed(e) \/ e.of >= scanned[r][f]
    BY DEF HitIsCurrent
  <2>1. IsSaved(entries[r][f], scanned[r][f])
    BY DEF Hits, CacheInv, RunOK, FileOK
  <2> QED  BY <2>1 DEF IsSaved
<1> QED  BY <1>1, CacheInvariant, PTL

(* Two saves of a file never mix in a hit: an upsert drops the hashes of   *)
(* the row it replaces, and the new ones hang on the new id.               *)
THEOREM HitsAreAlwaysOfOneSave == Spec => []HitIsOfOneSave
<1>1. CacheInv => HitIsOfOneSave
  <2> SUFFICES ASSUME CacheInv, NEW r \in Runs, NEW f \in Hits(r),
                      NEW d \in entries[r][f], NEW e \in entries[r][f]
               PROVE  d.by = e.by /\ (d.k = e.k => d = e)
    BY DEF HitIsOfOneSave
  <2>1. IsSaved(entries[r][f], scanned[r][f])
    BY DEF Hits, CacheInv, RunOK, FileOK
  <2> QED  BY <2>1 DEF IsSaved
<1> QED  BY <1>1, CacheInvariant, PTL

(* A hit without a failed segment has each segment of this run once: only  *)
(* a save that is past its last insert is committed, the number is         *)
(* compared (main.c:271), and without a failure it is the number of        *)
(* segments of the run that saved them.                                    *)
THEOREM HitsAreAlwaysWhole == Spec => []HitIsWhole
<1>1. CacheInv => HitIsWhole
  <2> SUFFICES ASSUME CacheInv, NEW r \in Runs, NEW f \in Hits(r), \A e \in entries[r][f] : ~failed(e)
               PROVE  {<<e.n, e.k>> : e \in entries[r][f]} = {segments[r]} \X (0 .. segments[r] - 1)
    BY DEF HitIsWhole
  <2> DEFINE hs == entries[r][f]
             n == segments[r]
  <2>1. IsSaved(hs, scanned[r][f]) /\ Cardinality(hs) = n
    BY DEF Hits, CacheInv, RunOK, FileOK
  <2>2. PICK e0 \in hs : TRUE
    BY <2>1 DEF IsSaved
  <2>3. \A e \in hs : e.n = e0.n
    BY <2>1, <2>2 DEF IsSaved
  <2>4. Cardinality(hs) = e0.n
    BY <2>1, <2>3, SavedCounts
  <2>5. \A e \in hs : e.n = n /\ e.k \in 0 .. n - 1
    BY <2>1, <2>3, <2>4 DEF IsSaved
  <2>6. \A s \in 0 .. n - 1 : \E e \in hs : e.n = n /\ e.k = s
    BY <2>1, <2>2, <2>5 DEF IsSaved
  <2> HIDE DEF hs, n
  <2> DEFINE taken == {<<e.n, e.k>> : e \in hs}
  <2>7. ASSUME NEW p \in taken
        PROVE  p \in {n} \X (0 .. n - 1)
    <3>1. PICK e \in hs : p = <<e.n, e.k>>
      OBVIOUS
    <3> QED  BY <3>1, <2>5
  <2>8. ASSUME NEW p \in {n} \X (0 .. n - 1)
        PROVE  p \in taken
    <3>1. PICK s \in 0 .. n - 1 : p = <<n, s>>
      OBVIOUS
    <3>2. PICK e \in hs : e.n = n /\ e.k = s
      BY <2>6
    <3> QED  BY <3>1, <3>2
  <2>9. taken = {n} \X (0 .. n - 1)
    BY <2>7, <2>8
  <2> QED  BY <2>9 DEF hs, n
<1> QED  BY <1>1, CacheInvariant, PTL

(* What is saved is found again: a file is hashed once more only if it was *)
(* never saved, has changed, was saved with another number of segments or  *)
(* with failed ones, or its row was replaced between the two statements.   *)
THEOREM MissesAreAlwaysJustified == Spec => MissesAreJustified
<1> DEFINE Justified(r) ==
      pc[r] \in {"lookup", "hashes"} /\ pc'[r] # "off" /\ (i'[r] # i[r] \/ pc'[r] = "hash") =>
        \/ results'[r][i[r]] = "AK_STATUS_FILE_CACHED"
        \/ db[i[r]] = NoRow
        \/ db[i[r]].metadata # scanned[r][i[r]]
        \/ \E e \in db[i[r]].hashes : e.n # segments[r]
        \/ Cardinality(db[i[r]].hashes) < segments[r] /\ \E e \in db[i[r]].hashes : failed(e)
        \/ pc[r] = "hashes" /\ row_id[r] # db[i[r]].id
<1>1. ASSUME CacheInv, [Next]_vars, NEW r \in Runs
      PROVE  Justified(r)
  <2> SUFFICES ASSUME pc[r] \in {"lookup", "hashes"}, pc'[r] # "off", i'[r] # i[r] \/ pc'[r] = "hash"
               PROVE  \/ results'[r][i[r]] = "AK_STATUS_FILE_CACHED"
                      \/ db[i[r]] = NoRow
                      \/ db[i[r]].metadata # scanned[r][i[r]]
                      \/ \E e \in db[i[r]].hashes : e.n # segments[r]
                      \/ Cardinality(db[i[r]].hashes) < segments[r] /\ \E e \in db[i[r]].hashes : failed(e)
                      \/ pc[r] = "hashes" /\ row_id[r] # db[i[r]].id
    OBVIOUS
  <2>1. FileNotValid(r) \/ GetHashes(r) \/ WrongCount(r)
    <3>1. CASE UNCHANGED vars
      BY <3>1 DEF vars, runVars
    <3>2. CASE \E f \in Files : Change(f)
      BY <3>2 DEF Change, runVars
    <3>3. ASSUME NEW q \in Runs,
                 \/ \E s \in Segments : Start(q, s)
                 \/ FileNotValid(q) \/ FileValid(q) \/ GetHashes(q) \/ WrongCount(q)
                 \/ HashSegment(q) \/ SegmentFails(q) \/ HashFails(q) \/ NotQueued(q)
                 \/ SyncPassesOver(q) \/ UpsertFile(q) \/ UpsertBusy(q)
                 \/ InsertHash(q) \/ InsertRefused(q) \/ Commit(q)
                 \/ Kill(q)
          PROVE  FileNotValid(r) \/ GetHashes(r) \/ WrongCount(r)
      <4>1. RunTypeOK
        BY <1>1 DEF CacheInv
      <4>2. CASE q = r
        BY <4>1, <4>2, <3>3 DEF Start, FileValid, HashSegment, SegmentFails, HashFails, NotQueued, At,
           SyncPassesOver, UpsertFile, UpsertBusy, InsertHash, InsertRefused, Commit, Kill, Idle, RunTypeOK
      <4>3. CASE q # r
        <5>1. CASE \E s \in Segments : Start(q, s)
          BY <5>1, <4>1, <4>3 DEF Start, RunTypeOK
        <5>2. CASE FileValid(q)
          BY <5>2, <4>1, <4>3 DEF FileValid, RunTypeOK
        <5>3. CASE FileNotValid(q) \/ GetHashes(q) \/ WrongCount(q) \/ HashFails(q) \/ NotQueued(q)
          BY <5>3, <4>1, <4>3, NextFileMoves DEF FileNotValid, WrongCount, Miss, GetHashes, HashFails, NotQueued
        <5>4. CASE HashSegment(q) \/ SegmentFails(q)
          BY <5>4, <4>1, <4>3, NextFileMoves DEF HashSegment, SegmentFails, SegmentIs
        <5>5. CASE SyncPassesOver(q) \/ UpsertFile(q) \/ UpsertBusy(q)
          BY <5>5, <4>1, <4>3 DEF SyncPassesOver, UpsertFile, UpsertBusy, NextSync, RunTypeOK
        <5>6. CASE InsertHash(q) \/ InsertRefused(q)
          BY <5>6, <4>1, <4>3 DEF InsertHash, InsertRefused, NextInsert, NextSync, RunTypeOK
        <5>7. CASE Commit(q) \/ Kill(q)
          BY <5>7, <4>1, <4>3 DEF Commit, Kill, Idle, RunTypeOK
        <5> QED  BY <3>3, <5>1, <5>2, <5>3, <5>4, <5>5, <5>6, <5>7
      <4> QED  BY <4>2, <4>3
    <3> QED  BY <1>1, <3>1, <3>2, <3>3 DEF Next
  <2>2. CASE FileNotValid(r)
    BY <2>2 DEF FileNotValid
  <2>3. CASE GetHashes(r)
    <3>1. i[r] \in Files
      BY <1>1, <2>3 DEF CacheInv, RunOK, LookupOK, GetHashes
    <3> QED  BY <1>1, <2>3, <3>1 DEF CacheInv, RunTypeOK, GetHashes
  <2>4. CASE WrongCount(r)
    <3> SUFFICES ASSUME db[i[r]] # NoRow, row_id[r] = db[i[r]].id,
                        \A e \in db[i[r]].hashes : e.n = segments[r]
                 PROVE  Cardinality(db[i[r]].hashes) < segments[r] /\ \E e \in db[i[r]].hashes : failed(e)
      BY <2>4 DEF WrongCount
    <3>1. i[r] \in Files /\ segments[r] \in 1 .. 20
      BY <1>1, <2>4, SegmentsAssumption DEF CacheInv, RunOK, LookupOK, RunTypeOK, WrongCount
    <3>2. {x \in Rows(db) : x.id = row_id[r]} = {db[i[r]]}
      BY <1>1, <3>1 DEF CacheInv, DatabaseInv, TablesOK, Rows
    <3>3. HashesOf(row_id[r]) = db[i[r]].hashes
      BY <3>2 DEF HashesOf
    <3>4. Cardinality(db[i[r]].hashes) # segments[r]
      BY <2>4, <3>3 DEF WrongCount
    <3>5. IsSaved(db[i[r]].hashes, db[i[r]].metadata)
      BY <1>1, <3>1 DEF CacheInv, DatabaseInv, RowIsWhole
    <3>6. /\ Cardinality(db[i[r]].hashes) \in Nat /\ Cardinality(db[i[r]].hashes) <= segments[r]
          /\ (\A e \in db[i[r]].hashes : ~failed(e)) => Cardinality(db[i[r]].hashes) = segments[r]
      BY <3>5, SavedCounts
    <3> QED  BY <3>1, <3>4, <3>6
  <2> QED  BY <2>1, <2>2, <2>3, <2>4
<1>2. CacheInv /\ [Next]_vars => [\A r \in Runs : Justified(r)]_vars
  BY <1>1
<1> QED  BY <1>2, CacheInvariant, PTL DEF Spec, MissesAreJustified
=============================================================================
