---------------------------- MODULE WalkPromise ----------------------------
(***************************************************************************)
(* What a caller of the history walk may rely on, in one step: the walk    *)
(* answers with a set of reachable commits whose contents were collected,  *)
(* and says so when the set is not all of them; or it fails, and then      *)
(* something it needed is missing from the store or damaged.               *)
(***************************************************************************)
EXTENDS CommitGraph, FiniteSets

CONSTANTS
    NoCap           \* the walk has no ceiling (--exhaustive-history)

VARIABLES
    repo,           \* the repository, unchanged during the walk
    maxCommits,     \* the ceiling, or NoCap
    outcome,        \* "running", "answered" or "failed"
    scanned,        \* the commits answered
    warned          \* the answer carries HistoryBudgetHit

promiseVars == <<repo, maxCommits, outcome, scanned, warned>>

\* The objects a walk of the whole history opens.
NeededObjects(r) ==
    Reachable(r) \cup UNION {ReadEntries(r, c) : c \in Reachable(r)}

\* A walk of the whole history cannot read all it needs.
Damaged(r) ==
    \/ ~r.refs
    \/ ~(NeededObjects(r) \subseteq r.present)
    \/ ~(Reachable(r) \subseteq r.trees)

PromiseInit ==
    /\ WellFormedRepository(repo)
    /\ maxCommits \in Nat \cup {NoCap}
    /\ outcome = "running"
    /\ scanned = {}
    /\ warned = FALSE

Answer ==
    /\ outcome = "running"
    /\ outcome' = "answered"
    /\ scanned' \in SUBSET Reachable(repo)
    /\ warned' = (scanned' # Reachable(repo))
    /\ maxCommits # NoCap => Cardinality(scanned') <= maxCommits
    /\ warned' => maxCommits # NoCap /\ Cardinality(scanned') = maxCommits
    /\ UNCHANGED <<repo, maxCommits>>

Fail ==
    /\ outcome = "running"
    /\ Damaged(repo)
    /\ outcome' = "failed"
    /\ UNCHANGED <<repo, maxCommits, scanned, warned>>

PromiseNext == Answer \/ Fail

Promise == PromiseInit /\ [][PromiseNext]_promiseVars
=============================================================================
