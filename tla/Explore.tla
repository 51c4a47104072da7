------------------------------ MODULE Explore ------------------------------
(***************************************************************************)
(* The scan of the input paths (explore.c): resolve them, sort them, drop  *)
(* those that another one covers, and walk what is left with a stack of    *)
(* directories.                                                            *)
(*                                                                         *)
(* A path is the sequence of its character codes, which qsort compares; a  *)
(* file system is a function from nodes, named by their absolute path, to  *)
(* what is there.  A directory that refuses opendir is "closed" (its       *)
(* entries can still be reached by name); "other" is a socket, a device or *)
(* a symbolic link, which the walk ignores.  A link given as an input is   *)
(* what it resolves to.  A directory has a size, even if it is empty.      *)
(* Other processes may remove entries at any time.                         *)
(* File systems that give no d_type (DT_UNKNOWN) are left out: there the   *)
(* code asks fstatat, which follows links.                                 *)
(***************************************************************************)
EXTENDS Integers, Sequences, FiniteSets, FiniteSetsExt, SequencesExt

CONSTANTS Slash,        (* the code of '/'                                   *)
          Nodes,        (* the absolute paths at which something may be      *)
          FileSystems,  (* what may be there when the scan begins            *)
          VideoNames,   (* the names with a supported extension              *)
          Inputs,       (* the paths a user may give                         *)
          MaxInputs     (* bound: how many of them in one call               *)

Root == <<Slash>>

DirKinds == {"dir", "closed"}

Kinds == DirKinds \cup {"file", "empty", "other", "none"}

(* strcmp(p, q) < 0                                                        *)
Precedes(p, q) ==
  \/ IsStrictPrefix(p, q)
  \/ \E n \in DOMAIN p \cap DOMAIN q :
       p[n] < q[n] /\ \A m \in 1 .. n - 1 : p[m] = q[m]

LastSlash(p) == Max({n \in DOMAIN p : p[n] = Slash})

ak_path_basename(p) == SubSeq(p, LastSlash(p) + 1, Len(p))

Parent(p) == IF LastSlash(p) = 1 THEN Root ELSE SubSeq(p, 1, LastSlash(p) - 1)

ak_explore_ext_supported(p) == ak_path_basename(p) \in VideoNames

(* asprintf("%s/%s"); below the root it makes two slashes of one.          *)
Join(dir, name) == dir \o Root \o name

(* A path as realpath gives it.                                            *)
IsAbsolute(p) ==
  /\ p \in Seq(Int) /\ p # <<>> /\ p[1] = Slash
  /\ Len(p) > 1 => p[2] # Slash /\ p[Len(p)] # Slash

ASSUME PathsAssumption ==
  /\ Slash \in Int /\ Root \in Nodes
  /\ \A n \in Nodes : IsAbsolute(n) /\ Parent(n) \in Nodes
  /\ Inputs \subseteq Seq(Int) \ {<<>>}
  /\ MaxInputs \in Nat

(* Whatever exists, but the root, is in a directory.                       *)
ASSUME FileSystemsAssumption ==
  \A f \in FileSystems :
    /\ f \in [Nodes -> Kinds] /\ f[Root] \in DirKinds
    /\ \A n \in Nodes \ {Root} : f[n] # "none" => f[Parent(n)] \in DirKinds

(* The node a path string leads to.                                        *)
NodeOf(p) == IF IsPrefix(Root \o Root, p) THEN Tail(p) ELSE p

(* Mutant: "/a-" counts as below "/a".                                     *)
is_prefix_only(current, prev) == IsPrefix(prev, current)

(* The test by which a sorted path counts as covered by the one before.    *)
is_subset(current, prev) ==
  /\ IsPrefix(prev, current)
  /\ \/ Len(current) = Len(prev)
     \/ current[Len(prev) + 1] = Slash
     \/ prev = Root

VARIABLES
  fs,              (* what is at each node now                               *)
  scan_curr_dir,   (* the runtime flag: "." is all there is to scan          *)
  paths,           (* the input paths                                        *)
  pc,              (* where the scan is                                      *)
  i,               (* the loop counter of the current loop                   *)
  real_paths,      (* resolved, then sorted, then cut down to the kept ones  *)
  unique,          (* unique_path_idx: kept so far                           *)
  dirstack,        (* directories still to read                              *)
  curr_path,       (* the directory being read                               *)
  unread,          (* the names readdir has still to return, with their type *)
  files            (* files_out                                              *)

walkVars == <<dirstack, curr_path, unread>>
inputVars == <<scan_curr_dir, paths>>
vars == <<fs, inputVars, pc, i, real_paths, unique, walkVars, files>>

Exists(n) == n \in Nodes /\ fs[n] # "none"

Entries(dir) == {n \in Nodes \ {Root} : Parent(n) = dir /\ fs[n] # "none"}

Init ==
  /\ fs \in FileSystems
  /\ scan_curr_dir \in BOOLEAN
  /\ paths \in IF scan_curr_dir
               THEN {<<n>> : n \in {m \in Nodes : fs[m] \in DirKinds}}
               ELSE SeqOf(Inputs, MaxInputs) \ {<<>>}
  /\ pc = IF scan_curr_dir THEN "current_dir" ELSE "resolve"
  /\ i = 1 /\ unique = 0
  /\ real_paths = <<>> /\ dirstack = <<>> /\ curr_path = <<>>
  /\ unread = {} /\ files = <<>>

(* Somebody removes a file or an empty directory.                          *)
Unlink ==
  /\ pc \notin {"done", "died"}
  /\ \E n \in Nodes \ {Root} :
       /\ fs[n] # "none" /\ Entries(n) = {}
       /\ fs' = [fs EXCEPT ![n] = "none"]
  /\ UNCHANGED <<inputVars, pc, i, real_paths, unique, walkVars, files>>

(* "." resolves unless the directory is gone; then the process dies.       *)
ScanCurrentDir ==
  /\ pc = "current_dir"
  /\ IF Exists(paths[1])
     THEN pc' = "walk" /\ real_paths' = paths /\ unique' = 1
     ELSE pc' = "died" /\ UNCHANGED <<real_paths, unique>>
  /\ UNCHANGED <<fs, inputVars, i, walkVars, files>>

(* realpath of the next input; one that does not resolve is skipped.       *)
ResolvePath ==
  /\ pc = "resolve" /\ i <= Len(paths)
  /\ real_paths' = IF Exists(paths[i]) THEN Append(real_paths, paths[i]) ELSE real_paths
  /\ i' = i + 1
  /\ UNCHANGED <<fs, inputVars, pc, unique, walkVars, files>>

NoValidPaths ==
  /\ pc = "resolve" /\ i > Len(paths) /\ real_paths = <<>>
  /\ pc' = "done"
  /\ UNCHANGED <<fs, inputVars, i, real_paths, unique, walkVars, files>>

(* qsort                                                                   *)
SortPaths ==
  /\ pc = "resolve" /\ i > Len(paths) /\ real_paths # <<>>
  /\ \E p \in Bijection(DOMAIN real_paths, DOMAIN real_paths) :
       /\ real_paths' = [k \in DOMAIN real_paths |-> real_paths[p[k]]]
       /\ \A j, k \in DOMAIN real_paths :
            j < k => ~Precedes(real_paths[p[k]], real_paths[p[j]])
  /\ pc' = "dedupe" /\ unique' = 1 /\ i' = 2
  /\ UNCHANGED <<fs, inputVars, walkVars, files>>

(* The next sorted path against the last one kept.                         *)
Deduplicate ==
  /\ pc = "dedupe" /\ i <= Len(real_paths)
  /\ IF is_subset(real_paths[i], real_paths[unique])
     THEN UNCHANGED <<real_paths, unique>>
     ELSE /\ real_paths' = [real_paths EXCEPT ![unique + 1] = real_paths[i]]
          /\ unique' = unique + 1
  /\ i' = i + 1
  /\ UNCHANGED <<fs, inputVars, pc, walkVars, files>>

Truncate ==
  /\ pc = "dedupe" /\ i > Len(real_paths)
  /\ real_paths' = SubSeq(real_paths, 1, unique)
  /\ pc' = "walk" /\ i' = 1
  /\ UNCHANGED <<fs, inputVars, unique, walkVars, files>>

(***************************************************************************)
(* filewalk of the next kept path.  One that does not open as a directory  *)
(* is taken for a file, whatever it is, if its name is supported and stat  *)
(* finds it.                                                               *)
(***************************************************************************)
WalkDirectory ==
  /\ pc = "walk" /\ i <= unique /\ fs[real_paths[i]] = "dir"
  /\ dirstack' = <<real_paths[i]>> /\ pc' = "next_dir"
  /\ UNCHANGED <<fs, inputVars, i, real_paths, unique, curr_path, unread, files>>

HandlePathPointingToFile ==
  /\ pc = "walk" /\ i <= unique /\ fs[real_paths[i]] # "dir"
  /\ files' = IF ak_explore_ext_supported(real_paths[i]) /\ Exists(real_paths[i])
              THEN Append(files, real_paths[i])
              ELSE files
  /\ i' = i + 1
  /\ UNCHANGED <<fs, inputVars, pc, real_paths, unique, walkVars>>

(* The directory popped may be gone or closed, and is skipped then.        *)
PopDirectory ==
  /\ pc = "next_dir" /\ dirstack # <<>>
  /\ dirstack' = Front(dirstack) /\ curr_path' = Last(dirstack)
  /\ LET dir == NodeOf(Last(dirstack)) IN
       IF fs[dir] = "dir"
       THEN /\ unread' = {[name |-> ak_path_basename(n), type |-> fs[n]] : n \in Entries(dir)}
            /\ pc' = "read"
       ELSE UNCHANGED <<unread, pc>>
  /\ UNCHANGED <<fs, inputVars, i, real_paths, unique, files>>

(***************************************************************************)
(* One entry, in the order readdir likes.  A directory goes to the stack   *)
(* and then through the tests of a file all the same; the entry may be     *)
(* gone when fstatat asks.                                                 *)
(***************************************************************************)
ReadEntry ==
  /\ pc = "read"
  /\ \E entry \in unread :
       LET path == Join(curr_path, entry.name)
           wanted == /\ entry.type # "other"
                     /\ ak_explore_ext_supported(path)
                     /\ fs[NodeOf(path)] \notin {"none", "empty"}
       IN /\ unread' = unread \ {entry}
          /\ dirstack' = IF entry.type \in DirKinds THEN Append(dirstack, path) ELSE dirstack
          /\ files' = IF wanted THEN Append(files, path) ELSE files
  /\ UNCHANGED <<fs, inputVars, pc, i, real_paths, unique, curr_path>>

CloseDirectory ==
  /\ pc = "read" /\ unread = {}
  /\ pc' = "next_dir"
  /\ UNCHANGED <<fs, inputVars, i, real_paths, unique, walkVars, files>>

(* Mutant: the loop over the kept paths forgets to advance.                *)
NextWalkStays ==
  /\ pc = "next_dir" /\ dirstack = <<>>
  /\ pc' = "walk"
  /\ UNCHANGED <<fs, inputVars, i, real_paths, unique, walkVars, files>>

NextWalk ==
  /\ pc = "next_dir" /\ dirstack = <<>>
  /\ pc' = "walk" /\ i' = i + 1
  /\ UNCHANGED <<fs, inputVars, real_paths, unique, walkVars, files>>

Finish ==
  /\ pc = "walk" /\ i > unique
  /\ pc' = "done"
  /\ UNCHANGED <<fs, inputVars, i, real_paths, unique, walkVars, files>>

Scan ==
  \/ ScanCurrentDir
  \/ ResolvePath
  \/ NoValidPaths
  \/ SortPaths
  \/ Deduplicate
  \/ Truncate
  \/ WalkDirectory
  \/ HandlePathPointingToFile
  \/ PopDirectory
  \/ ReadEntry
  \/ CloseDirectory
  \/ NextWalk
  \/ Finish

Ended == pc \in {"done", "died"} /\ UNCHANGED vars

Next == Scan \/ Unlink \/ Ended

(* The scan is a straight line of code; nobody has to remove anything.     *)
Spec == Init /\ [][Next]_vars /\ WF_vars(Scan)
-----------------------------------------------------------------------------

IsVideo(n) == fs[n] = "file" /\ ak_explore_ext_supported(n)

(* r is n or a directory above it.                                         *)
Above(r, n) == r \in {n, Root} \/ IsPrefix(r \o Root, n)

(* A walk that begins at r gets to n: every directory on the way opens.    *)
CanSee(r, n) ==
  /\ Above(r, n)
  /\ \A d \in Nodes \ {n} : Above(r, d) /\ Above(d, n) => fs[d] = "dir"

Listings(n) == {k \in DOMAIN files : NodeOf(files[k]) = n}

(***************************************************************************)
(* A video that is there when the scan ends, below an input path or one    *)
(* itself, is listed, if every input above it leads to it through          *)
(* directories that open.  Sorting, the comparison with the last kept path *)
(* only (explore.c:424-451) and entries that disappear lose no other file. *)
(***************************************************************************)
NothingIsLost ==
  pc = "done" =>
    \A n \in Nodes :
      LET above == {r \in Range(paths) : Above(r, n)}
      IN IsVideo(n) /\ above # {} /\ (\A r \in above : CanSee(r, n)) => Listings(n) # {}

(***************************************************************************)
(* "Now we filewalk only unique paths" (explore.c:455): overlapping inputs *)
(* list no file twice.  They do: "/a-" sorts between "/a" and "/a/v", so   *)
(* that "/a/v" is compared with "/a-" only and kept.                       *)
(***************************************************************************)
EveryFileListedOnce == pc = "done" => \A n \in Nodes : Cardinality(Listings(n)) <= 1

(* The loop over the stack of directories ends (explore.c:227).            *)
ScanEnds == <>(pc \in {"done", "died"})
=============================================================================
