---------------------------- MODULE HistoryWalk ----------------------------
(***************************************************************************)
(* collect_history of vibescan-git: the walk over the commits reachable    *)
(* from every ref, newest committer time first, stopped by the commit      *)
(* budget, and the collection of what each kept commit changed against its *)
(* first parent.                                                           *)
(*                                                                         *)
(* The Vec that the code re-sorts before every pop is kept as a bag: equal *)
(* elements are indistinguishable and the sort key is total, so the popped *)
(* element depends on the bag alone.                                       *)
(***************************************************************************)
EXTENDS CommitGraph, FiniteSets

CONSTANTS
    NoCap,          \* max_commits: None
    Ceilings,       \* the values of max_commits considered
    UsizeModulus    \* usize arithmetic wraps at this value (2^64 in a release)

ASSUME CeilingsAssumption ==
    /\ NoCap \notin Nat
    /\ Ceilings \subseteq Nat \cup {NoCap}
    /\ UsizeModulus \in Nat \ {0}
    /\ \A n \in Ceilings \ {NoCap} : n < UsizeModulus

\* No ceiling sits at the top of usize, where max_commits + 1 wraps to zero.
NoOverflow == \A n \in Ceilings \ {NoCap} : n + 1 < UsizeModulus

VARIABLES
    repo,           \* the repository, which the walk only reads
    maxCommits,     \* WalkOptions::max_commits
    phase,          \* where collect_history is
    queue,          \* queue[c]: occurrences of c among the walk candidates
    seen,           \* the BTreeSet of visited commits
    commits,        \* the Vec of visited commits, in visiting order
    truncated,      \* HistoryWalkStats::truncated
    scanned,        \* HistoryWalkStats::scanned_commits
    collected,      \* <<blob, path, commit>>: content, location, provenance
    warnings        \* <<kind, commit or path>> of each ScopeWarning

vars == <<repo, maxCommits, phase, queue, seen, commits, truncated, scanned,
          collected, warnings>>

Phases == {"tips", "walk", "budget", "collect", "done", "failed"}

Queued == {c \in Commits : queue[c] > 0}

\* Mutant: the comparator without its reversal.
OldestFirst(c) ==
    /\ c \in Queued
    /\ \A d \in Queued :
          \/ repo.time[d] > repo.time[c]
          \/ repo.time[d] = repo.time[c] /\ d >= c

\* The candidate the sort puts first: latest time, then greatest id.
IsFirst(c) ==
    /\ c \in Queued
    /\ \A d \in Queued :
          \/ repo.time[d] < repo.time[c]
          \/ repo.time[d] = repo.time[c] /\ d <= c

\* Mutant: the walk stops at the ceiling, so an overrun is never noticed.
LimitAtCeiling == maxCommits % UsizeModulus

\* One more than the ceiling, to tell a full budget from an overrun one.
Limit == (maxCommits + 1) % UsizeModulus

LimitReached(n) == maxCommits # NoCap /\ n >= Limit

\* Mutant: the seen set is not consulted.
NeverSeen(c) == FALSE

AlreadySeen(c) == c \in seen

\* Mutant: the candidate is read and left in the queue.
Peeked(c) == queue

\* The queue after its first candidate is removed.
Popped(c) == [queue EXCEPT ![c] = @ - 1]

\* Mutant: the oldest visits are kept instead of the first ones.
KeepLast == SubSeq(commits, Len(commits) - maxCommits + 1, Len(commits))

\* commits.truncate(max_commits)
KeepFirst == SubSeq(commits, 1, maxCommits)

BudgetHit == <<"HistoryBudgetHit", 0>>

-----------------------------------------------------------------------------
Init ==
    /\ repo \in Repositories
    /\ maxCommits \in Ceilings
    /\ phase = "tips"
    /\ queue = [c \in Commits |-> 0]
    /\ seen = {}
    /\ commits = <<>>
    /\ truncated = FALSE
    /\ scanned = 0
    /\ collected = {}
    /\ warnings = {}

\* A read that the store cannot answer, or whose answer does not decode, ends
\* the walk: every ?.
FailRead ==
    /\ phase' = "failed"
    /\ UNCHANGED <<repo, maxCommits, queue, seen, commits, truncated, scanned,
                   collected, warnings>>

\* The refs are listed and the tags among their targets followed; then the
\* commits they lead to are read.
TipsReadable == repo.refs /\ repo.tips \subseteq repo.present

\* The peeled ref targets are read and queued; without refs there is no walk.
ReadTips ==
    /\ phase = "tips"
    /\ TipsReadable
    /\ phase' = IF repo.tips = {} THEN "done" ELSE "walk"
    /\ queue' = [c \in Commits |-> IF c \in repo.tips THEN 1 ELSE 0]
    /\ UNCHANGED <<repo, maxCommits, seen, commits, truncated, scanned,
                   collected, warnings>>

ReadTipsFails ==
    /\ phase = "tips"
    /\ ~TipsReadable
    /\ FailRead

\* A candidate queued through several children is skipped the second time.
SkipSeen(c) ==
    /\ phase = "walk"
    /\ IsFirst(c)
    /\ AlreadySeen(c)
    /\ queue' = Popped(c)
    /\ UNCHANGED <<repo, maxCommits, phase, seen, commits, truncated, scanned,
                   collected, warnings>>

\* The parents that a visit of c queues.
FreshParents(c) == ToSet(repo.parents[c]) \ (seen \cup {c})

\* What a visit does to the queue: c leaves it and its fresh parents enter.
Requeue(c) ==
    queue' = [d \in Commits |->
                IF d \in FreshParents(c) THEN queue[d] + 1 ELSE Popped(c)[d]]

\* One visit: c is recorded, and unless that reached the limit its unseen
\* parents are read and queued.
Visit(c) ==
    /\ phase = "walk"
    /\ IsFirst(c)
    /\ ~AlreadySeen(c)
    /\ seen' = seen \cup {c}
    /\ commits' = Append(commits, c)
    /\ IF LimitReached(Len(commits) + 1)
         THEN /\ phase' = "budget"
              /\ queue' = Popped(c)
         ELSE /\ FreshParents(c) \subseteq repo.present
              /\ phase' = phase
              /\ Requeue(c)
    /\ UNCHANGED <<repo, maxCommits, truncated, scanned, collected, warnings>>

VisitFails(c) ==
    /\ phase = "walk"
    /\ IsFirst(c)
    /\ ~AlreadySeen(c)
    /\ ~LimitReached(Len(commits) + 1)
    /\ ~(FreshParents(c) \subseteq repo.present)
    /\ FailRead

QueueDrained ==
    /\ phase = "walk"
    /\ Queued = {}
    /\ phase' = "budget"
    /\ UNCHANGED <<repo, maxCommits, queue, seen, commits, truncated, scanned,
                   collected, warnings>>

\* More commits than the budget allows are cut off, and the report says so.
ApplyBudget ==
    /\ phase = "budget"
    /\ phase' = "collect"
    /\ IF maxCommits # NoCap /\ Len(commits) > maxCommits
         THEN /\ commits' = KeepFirst
              /\ truncated' = TRUE
              /\ warnings' = warnings \cup {BudgetHit}
         ELSE UNCHANGED <<commits, truncated, warnings>>
    /\ UNCHANGED <<repo, maxCommits, queue, seen, scanned, collected>>

-----------------------------------------------------------------------------
\* Everything collect_changed_blobs reads for c can be read: its tree, its
\* first parent with that one's tree, and the entries it changed.
Readable(c) ==
    /\ c \in repo.trees
    /\ repo.parents[c] # <<>> =>
          Head(repo.parents[c]) \in repo.present \cap repo.trees
    /\ ReadEntries(repo, c) \subseteq repo.present

MergeNotes(c) ==
    IF Len(repo.parents[c]) > 1 THEN {<<"MergeCommitFirstParentOnly", c>>} ELSE {}

\* push_content: text reaches the collector, other entries leave a warning.
TextUnits(c) ==
    {<<repo.tree[c][p], p, c>> :
        p \in {q \in ChangedPaths(repo, c) : Kind[repo.tree[c][q]] = "text"}}

SkipNotes(c) ==
    {<<Kind[repo.tree[c][p]], p>> :
        p \in {q \in ChangedPaths(repo, c) : Kind[repo.tree[c][q]] # "text"}}

NextToCollect == commits[scanned + 1]

CollectCommit ==
    /\ phase = "collect"
    /\ scanned < Len(commits)
    /\ Readable(NextToCollect)
    /\ collected' = collected \cup TextUnits(NextToCollect)
    /\ warnings' = warnings \cup MergeNotes(NextToCollect) \cup SkipNotes(NextToCollect)
    /\ scanned' = scanned + 1
    /\ UNCHANGED <<repo, maxCommits, phase, queue, seen, commits, truncated>>

CollectCommitFails ==
    /\ phase = "collect"
    /\ scanned < Len(commits)
    /\ ~Readable(NextToCollect)
    /\ FailRead

Finish ==
    /\ phase = "collect"
    /\ scanned = Len(commits)
    /\ phase' = "done"
    /\ UNCHANGED <<repo, maxCommits, queue, seen, commits, truncated, scanned,
                   collected, warnings>>

Next ==
    \/ ReadTips \/ ReadTipsFails
    \/ \E c \in Commits : SkipSeen(c) \/ Visit(c) \/ VisitFails(c)
    \/ QueueDrained \/ ApplyBudget
    \/ CollectCommit \/ CollectCommitFails \/ Finish

\* A sequential function: it runs until it returns.
Spec == Init /\ [][Next]_vars
FairSpec == Spec /\ WF_vars(Next)

-----------------------------------------------------------------------------
\* The answer a caller of collect_history sees, and the contract it meets.
Outcome == CASE phase = "done"   -> "answered"
             [] phase = "failed" -> "failed"
             [] OTHER            -> "running"
AnsweredCommits == IF phase = "done" THEN ToSet(commits) ELSE {}
AnsweredWarned == phase = "done" /\ BudgetHit \in warnings

Contract == INSTANCE WalkPromise WITH
    outcome <- Outcome, scanned <- AnsweredCommits, warned <- AnsweredWarned

\* Every walk is a walk the contract allows: an answer names all reachable
\* commits or carries the budget warning and exactly max_commits of them
\* (vibescan-architecture.md section 8), and a failure has something behind it
\* that a walk of the whole history reads and that is missing or damaged.
ContractKept == Contract!Promise

\* The variables keep their types, and the counters stay in step: the commit
\* list has no commit twice, and what was collected is a prefix of it.
TypeOK ==
    /\ WellFormedRepository(repo)
    /\ maxCommits \in Ceilings
    /\ phase \in Phases
    /\ queue \in [Commits -> Nat]
    /\ seen \subseteq Commits
    /\ commits \in Seq(Commits)
    /\ IsInjective(commits)
    /\ truncated \in BOOLEAN
    /\ scanned \in 0..Len(commits)
    /\ collected \subseteq Blobs \X Paths \X Commits

\* When committer clocks agree, the budget keeps the newest history: no
\* reachable commit that the answer leaves out is newer than one it names.
NewestKept ==
    phase = "done" /\ ClocksAgree(repo) =>
        \A c \in ToSet(commits) : \A d \in Reachable(repo) \ ToSet(commits) :
            repo.time[d] <= repo.time[c]

\* Whatever the clocks say, the answer is connected to the refs: a commit is
\* named after one of its children, or is a ref's own target.
ChildBeforeParent ==
    \A i \in DOMAIN commits :
        \/ commits[i] \in repo.tips
        \/ \E j \in 1..(i - 1) : commits[i] \in ToSet(repo.parents[commits[j]])

\* Diffing against the first parent alone loses nothing: after a walk of all
\* reachable commits, each scanned path of each of their trees has its text
\* collected, or a warning that names the path.
EveryTreeCovered ==
    phase = "done" /\ Reachable(repo) \subseteq ToSet(commits) =>
        \A c \in Reachable(repo) : \A p \in ScannedPaths :
            LET b == repo.tree[c][p] IN
              \/ b = NoBlob
              \/ \E d \in Commits : <<b, p, d>> \in collected
              \/ <<Kind[b], p>> \in warnings

\* A content is attributed to a commit only if the commit is an ancestor of a
\* ref, holds that content at that path, and its first parent did not.
BlameIsRight ==
    \A u \in collected :
        /\ u[3] \in Reachable(repo)
        /\ repo.tree[u[3]][u[2]] = u[1]
        /\ BaseTree(repo, u[3])[u[2]] # u[1]
        /\ u[2] \in ScannedPaths

\* The walk returns: duplicates in the queue cannot keep it busy.
WalkReturns == <>(phase \in {"done", "failed"})

\* vibescan-architecture.md:210: "shallow clone -> warn (history incomplete)",
\* under "degrade gracefully": a store that lacks nothing but the commits a
\* shallow clone cuts off does not make the walk fail.
ShallowDegrades ==
    /\ IsShallow(repo)
    /\ TipsReadable
    /\ repo.trees = Commits
    /\ \A c \in Commits : ReadEntries(repo, c) \subseteq repo.present
    => phase # "failed"
=============================================================================
