--------------------------- MODULE UnitCollector ---------------------------
(***************************************************************************)
(* collect_repository of vibescan-git: two passes over the working tree,   *)
(* then the history, while somebody edits, commits and resets in that      *)
(* repository, and the UnitCollector that makes one unit of each content.  *)
(*                                                                         *)
(* Which commits the walk visits, and what each changed, is HistoryWalk;   *)
(* here a commit is the content it put at one path, and no budget cuts the *)
(* walk.  Provenances are numbers in the order of provenance_sort_key:     *)
(* WorkingTree is zero, commits follow in the order of their hashes.       *)
(***************************************************************************)
EXTENDS Naturals, FiniteSets, FiniteSetsExt

CONSTANTS
    Contents, NoContent,
    Kind,           \* Kind[c]: "text", "binary", or "large" (over max_bytes)
    Directory,      \* Directory[p]: the directory of path p
    Plain,          \* the paths that the first pass admits: not ignored
    Forced,         \* the paths of should_force_scan
    Historical,     \* the paths of should_scan_history_path
    CommitIds,
    Trees, Histories,   \* the repositories a scan may find
    MaxEdits

Paths == DOMAIN Directory
Directories == {Directory[p] : p \in Paths}
WorkingTree == 0
Provenances == {WorkingTree} \cup CommitIds
Commits == [id : CommitIds, path : Paths, content : Contents]

ASSUME CollectorAssumption ==
    /\ NoContent \notin Contents
    /\ Kind \in [Contents -> {"text", "binary", "large"}]
    /\ Plain \subseteq Paths
    /\ Forced \subseteq Paths
    /\ Historical \subseteq Paths
    /\ CommitIds \subseteq Nat \ {0}
    /\ Trees \subseteq [Paths -> Contents \cup {NoContent}]
    /\ Histories \subseteq SUBSET Commits
    /\ MaxEdits \in Nat

VARIABLES
    tree,           \* the working tree
    history,        \* the commits that refs reach
    edits,          \* changes made to the repository during the scan
    options,        \* include_working_tree and include_history
    pending,        \* the parts of the scan that are still to be done
    stage,          \* where collect_repository is
    unlisted,       \* directories that the current pass has not listed
    listed,         \* entries that the walker has and has not yielded
    seen,           \* seen_paths
    reading,        \* the files between their metadata and their content
    blobs,          \* commits of the refs read, still to be collected
    units,          \* the collector's units: [content, locations]
    warnings,       \* <<kind, path>> of each ScopeWarning
    pathsWalked, blobsRead,     \* WalkStats
    reads,          \* auxiliary: <<content, path, provenance>> read so far
    steady          \* auxiliary: <<path, content>> in view since the start

\* What the scan only reads.
inputs == <<options, tree, history, edits, steady>>
treeVars == <<unlisted, listed, seen, reading>>
unitVars == <<units, warnings, reads>>
vars == <<inputs, treeVars, unitVars, pending, stage, blobs, pathsWalked,
          blobsRead>>

Stages == {"next", "plain", "forced", "history", "done", "failed"}
Running == stage \notin {"done", "failed"}

-----------------------------------------------------------------------------
\* The collector.

Location(p, n) == [path |-> p, primary |-> n, additional |-> {}]
Sources(l) == {l.primary} \cup l.additional

\* Mutant: the first provenance stays the primary one.
KeepFirst(l) == [l EXCEPT !.additional = @ \ {l.primary}]

\* normalize_provenances: the least provenance is primary, the others follow.
Normalized(l) ==
    LET first == Min(Sources(l))
    IN  [l EXCEPT !.primary = first, !.additional = Sources(l) \ {first}]

\* Mutant: a known content keeps the path that it was first seen at.
FirstLocation(ls, p, n) ==
    {Normalized([l EXCEPT !.additional = @ \cup {n}]) : l \in ls}

\* merge_unit_location: a known path gains a provenance, a new one is added.
Merged(ls, p, n) ==
    IF \E l \in ls : l.path = p
      THEN {IF l.path = p
              THEN Normalized([l EXCEPT !.additional = @ \cup {n}])
              ELSE l : l \in ls}
      ELSE ls \cup {Location(p, n)}

\* UnitCollector::push.
Pushed(c, p, n) ==
    IF \E u \in units : u.content = c
      THEN {IF u.content = c
              THEN [u EXCEPT !.locations = Merged(@, p, n)]
              ELSE u : u \in units}
      ELSE units \cup {[content |-> c, locations |-> {Location(p, n)}]}

\* push_content: text becomes a unit, anything else a warning.
PushContent(c, p, n) ==
    /\ reads' = reads \cup {<<c, p, n>>}
    /\ IF Kind[c] = "text"
         THEN /\ units' = Pushed(c, p, n)
              /\ UNCHANGED warnings
         ELSE /\ warnings' = warnings \cup {<<Kind[c], p>>}
              /\ UNCHANGED units

-----------------------------------------------------------------------------
\* The repository, as others change it during the scan.

\* What a scan could find: in an admitted file, or in a commit.
InView(t, h) ==
    {<<p, t[p]>> : p \in {q \in Plain \cup Forced : t[q] # NoContent}}
        \cup {<<k.path, k.content>> : k \in {j \in h : j.path \in Historical}}

Init ==
    /\ tree \in Trees
    /\ history \in Histories
    /\ edits = 0
    /\ options \in SUBSET {"tree", "history"}
    /\ pending = options
    /\ stage = "next"
    /\ unlisted = {}
    /\ listed = {}
    /\ seen = {}
    /\ reading = {}
    /\ blobs = {}
    /\ units = {}
    /\ warnings = {}
    /\ pathsWalked = 0
    /\ blobsRead = 0
    /\ reads = {}
    /\ steady = InView(tree, history)

Edit ==
    /\ Running
    /\ edits < MaxEdits
    /\ edits' = edits + 1
    /\ UNCHANGED <<options, treeVars, unitVars, pending, stage, blobs,
                   pathsWalked, blobsRead>>

\* A file is written, or removed with c = NoContent.
Write(p, c) ==
    /\ Edit
    /\ tree[p] # c
    /\ tree' = [tree EXCEPT ![p] = c]
    /\ steady' = steady \cap InView(tree', history)
    /\ UNCHANGED history

\* A file is committed as it is.
Commit(p, n) ==
    /\ Edit
    /\ tree[p] # NoContent
    /\ \A k \in history : k.id # n
    /\ history' = history \cup {[id |-> n, path |-> p, content |-> tree[p]]}
    /\ UNCHANGED <<tree, steady>>

\* A commit leaves the history: an amended commit, a reset, a deleted branch.
\* What it held no longer counts as in view all the time.
Drop(k) ==
    /\ Edit
    /\ k \in history
    /\ history' = history \ {k}
    /\ steady' = steady \ {<<k.path, k.content>>}
    /\ UNCHANGED tree

-----------------------------------------------------------------------------
\* The scan.

\* Mutant: the history is read before the working tree.
HistoryFirst(part) ==
    part \in pending /\ (part = "tree" => "history" \notin pending)

\* The working tree, if it is wanted, is read before the history.
Due(part) == part \in pending /\ (part = "history" => "tree" \notin pending)

\* Mutant: files that are ignored but must be scanned are not looked for.
PlainPasses(s) == Plain

\* The files that a pass yields.
PassPaths(s) == IF s = "plain" THEN Plain ELSE Forced

\* Mutant: the second pass does not ask which paths the first one yielded.
NeverSeen(p) == FALSE

AlreadySeen(p) == p \in seen

InPass == stage \in {"plain", "forced"}
Yielding == InPass /\ reading = {}

StartTree ==
    /\ stage = "next"
    /\ Due("tree")
    /\ pending' = pending \ {"tree"}
    /\ stage' = "plain"
    /\ unlisted' = Directories
    /\ UNCHANGED <<inputs, unitVars, listed, seen, reading, blobs,
                   pathsWalked, blobsRead>>

\* The walker reads the entries of a directory.
ListDirectory(d) ==
    /\ Yielding
    /\ d \in unlisted
    /\ unlisted' = unlisted \ {d}
    /\ listed' = listed \cup
         {p \in PassPaths(stage) : Directory[p] = d /\ tree[p] # NoContent}
    /\ UNCHANGED <<inputs, unitVars, seen, reading, pending, stage, blobs,
                   pathsWalked, blobsRead>>

SkipSeen(p) ==
    /\ Yielding
    /\ p \in listed
    /\ AlreadySeen(p)
    /\ listed' = listed \ {p}
    /\ UNCHANGED <<inputs, unitVars, unlisted, seen, reading, pending, stage,
                   blobs, pathsWalked, blobsRead>>

\* Mutant: the statistics do not count the path.
UncountedFile(p) ==
    /\ Yielding
    /\ p \in listed
    /\ ~AlreadySeen(p)
    /\ tree[p] # NoContent
    /\ listed' = listed \ {p}
    /\ seen' = seen \cup {p}
    /\ reading' = {p}
    /\ UNCHANGED <<inputs, unitVars, unlisted, pending, stage, blobs,
                   pathsWalked, blobsRead>>

\* fs::metadata of a new path: a large file is not read.
OpenFile(p) ==
    /\ Yielding
    /\ p \in listed
    /\ ~AlreadySeen(p)
    /\ tree[p] # NoContent
    /\ listed' = listed \ {p}
    /\ seen' = seen \cup {p}
    /\ pathsWalked' = pathsWalked + 1
    /\ IF Kind[tree[p]] = "large"
         THEN /\ warnings' = warnings \cup {<<"large", p>>}
              /\ UNCHANGED reading
         ELSE /\ reading' = {p}
              /\ UNCHANGED warnings
    /\ UNCHANGED <<inputs, unlisted, units, reads, pending, stage, blobs,
                   blobsRead>>

\* fs::read of that file, as it is by then.
ReadFile(p) ==
    /\ InPass
    /\ p \in reading
    /\ tree[p] # NoContent
    /\ reading' = {}
    /\ blobsRead' = blobsRead + 1
    /\ PushContent(tree[p], p, WorkingTree)
    /\ UNCHANGED <<inputs, unlisted, listed, seen, pending, stage, blobs,
                   pathsWalked>>

EndPass ==
    /\ Yielding
    /\ unlisted = {}
    /\ listed = {}
    /\ IF stage = "plain"
         THEN stage' = "forced" /\ unlisted' = Directories
         ELSE stage' = "next" /\ UNCHANGED unlisted
    /\ UNCHANGED <<inputs, unitVars, listed, seen, reading, pending, blobs,
                   pathsWalked, blobsRead>>

\* The refs are read once; commits that appear later are not collected.
ReadRefs ==
    /\ stage = "next"
    /\ Due("history")
    /\ pending' = pending \ {"history"}
    /\ stage' = "history"
    /\ blobs' = {k \in history : k.path \in Historical}
    /\ UNCHANGED <<inputs, treeVars, unitVars, pathsWalked, blobsRead>>

CollectBlob(k) ==
    /\ stage = "history"
    /\ k \in blobs
    /\ blobs' = blobs \ {k}
    /\ pathsWalked' = pathsWalked + 1
    /\ blobsRead' = blobsRead + 1
    /\ PushContent(k.content, k.path, k.id)
    /\ UNCHANGED <<inputs, treeVars, pending, stage>>

EndHistory ==
    /\ stage = "history"
    /\ blobs = {}
    /\ stage' = "next"
    /\ UNCHANGED <<inputs, treeVars, unitVars, pending, blobs, pathsWalked,
                   blobsRead>>

\* into_units normalizes every location once more.
Finish ==
    /\ stage = "next"
    /\ pending = {}
    /\ stage' = "done"
    /\ units' = {[u EXCEPT !.locations = {Normalized(l) : l \in @}] : u \in units}
    /\ UNCHANGED <<inputs, treeVars, warnings, reads, pending, blobs,
                   pathsWalked, blobsRead>>

\* Every ? of the scan: an unreadable directory or object, and a file that was
\* listed or opened and is gone when it is opened or read.
ScanFails ==
    /\ Running
    /\ stage' = "failed"
    /\ UNCHANGED <<inputs, treeVars, unitVars, pending, blobs, pathsWalked,
                   blobsRead>>

Next ==
    \/ \E p \in Paths, c \in Contents \cup {NoContent} : Write(p, c)
    \/ \E p \in Paths, n \in CommitIds : Commit(p, n)
    \/ \E k \in history : Drop(k)
    \/ StartTree \/ EndPass \/ ReadRefs \/ EndHistory \/ Finish \/ ScanFails
    \/ \E d \in Directories : ListDirectory(d)
    \/ \E p \in Paths : SkipSeen(p) \/ OpenFile(p) \/ ReadFile(p)
    \/ \E k \in blobs : CollectBlob(k)

Spec == Init /\ [][Next]_vars

-----------------------------------------------------------------------------
Locations ==
    [path : Paths, primary : Provenances, additional : SUBSET CommitIds]

ScanTypes ==
    /\ tree \in [Paths -> Contents \cup {NoContent}]
    /\ history \subseteq Commits
    /\ edits \in 0..MaxEdits
    /\ options \subseteq {"tree", "history"}
    /\ pending \subseteq options
    /\ stage \in Stages
    /\ unlisted \subseteq Directories
    /\ listed \subseteq Plain \cup Forced
    /\ seen \subseteq Plain \cup Forced
    /\ reading \in {{}} \cup {{p} : p \in seen}
    /\ blobs \subseteq Commits
    /\ warnings \subseteq {"binary", "large"} \X Paths
    /\ reads \subseteq Contents \X Paths \X Provenances
    /\ steady \subseteq Paths \X Contents

UnitTypes == units \subseteq [content : Contents, locations : SUBSET Locations]

StatsAgree ==
    /\ pathsWalked \in Nat
    /\ blobsRead \in Nat
    /\ Cardinality(units) <= blobsRead
    /\ blobsRead + Cardinality(reading) <= pathsWalked

\* The variables keep their types, one file at most is open, and the
\* statistics agree: no more units than blobs read, no more of those than paths.
TypeOK == ScanTypes /\ UnitTypes /\ StatsAgree

\* One unit for each content, one location for each path in it, and its first
\* provenance primary: what dedup by content id, merge_unit_location and
\* normalize_provenances are to achieve in whatever order contents arrive.
UnitsAreCanonical ==
    /\ \A u, v \in units : u.content = v.content => u = v
    /\ \A u \in units : \A l \in u.locations :
          /\ \A m \in u.locations : m.path = l.path => m = l
          /\ \A n \in l.additional : l.primary < n

\* Deduplication loses nothing and invents nothing: a content is in the units
\* with a path and a provenance exactly if it was read there, and every
\* content that is not text has its warning (docs/HIGH_PRIORITY_GAPS_PLAN.md
\* P0.1 and P0.2 are the ways in which this went wrong).
UnitsHoldSources ==
    /\ \A r \in reads : Kind[r[1]] = "text" =>
          \E u \in units : u.content = r[1] /\
             \E l \in u.locations : l.path = r[2] /\ r[3] \in Sources(l)
    /\ \A u \in units : \A l \in u.locations : \A n \in Sources(l) :
          <<u.content, l.path, n>> \in reads
    /\ \A r \in reads : Kind[r[1]] # "text" => <<Kind[r[1]], r[2]>> \in warnings

\* A file of the working tree is read once, so it is reported with one content
\* even if it changes between the passes.
OneReadPerPath ==
    \A u, v \in units : \A l \in u.locations, m \in v.locations :
        l.path = m.path /\ l.primary = WorkingTree /\ m.primary = WorkingTree
            => u = v

\* A content that is somewhere in view at its path during the whole scan, first
\* in the tree and later in a commit for instance, is in the units or named by
\* a warning, whatever is edited meanwhile: the tree is read before the refs.
NothingSlipsThrough ==
    stage = "done" /\ options = {"tree", "history"} =>
        \A s \in steady :
            \/ <<Kind[s[2]], s[1]>> \in warnings
            \/ \E u \in units : u.content = s[2] /\
                  \E l \in u.locations : l.path = s[1]
=============================================================================
