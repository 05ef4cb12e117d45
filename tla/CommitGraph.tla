---------------------------- MODULE CommitGraph ----------------------------
(***************************************************************************)
(* The git objects a scan reads: commits with their parents, committer     *)
(* times and trees, the refs that name some of them, and what of all this  *)
(* the local store can really give.  A repository is a record, so that a   *)
(* specification can range over many of them:                              *)
(*   parents   those that decode; the code passes over one that does not   *)
(*   time      0 for a committer that does not decode                      *)
(*   tips      the commits that the refs and the tags they name lead to    *)
(*   refs      the object directory opens, and every loose ref, packed-refs*)
(*             and every tag on the way to a tip is read and decodes       *)
(*   present   the commits and blobs that the store holds and that decode  *)
(*   trees     the commits whose tree is held with all its subtrees, every *)
(*             entry of which decodes                                      *)
(***************************************************************************)
EXTENDS Integers, Sequences, FiniteSets, SequencesExt

CONSTANTS
    Commits,        \* object ids of commits; the integer order is the id order
    Paths,          \* repository paths
    Blobs,          \* tree entries: an object id together with its mode
    NoBlob,         \* a path that a tree does not have
    Kind,           \* Kind[b]: "text", or the warning that replaces scanning b
    ScannedPaths,   \* the paths the ignore policy lets through
    Repositories    \* the repositories considered

\* What push_content and collect_changed_blobs skip, and with which warning.
SkipKinds == {"LargeFileSkipped", "BinaryFileSkipped", "SubmoduleSkipped"}

Tree == [Paths -> Blobs \cup {NoBlob}]

WellFormedRepository(r) ==
    /\ r.tips \subseteq Commits
    /\ r.present \subseteq Commits \cup Blobs
    /\ r.refs \in BOOLEAN
    /\ r.trees \subseteq Commits
    /\ r.parents \in [Commits -> Seq(Commits)]
    /\ \A c \in Commits : IsInjective(r.parents[c])
    /\ r.time \in [Commits -> Int]
    /\ r.tree \in [Commits -> Tree]

\* No commit is its own ancestor, for its id is a hash of its parents' ids:
\* each set of commits has a member with no parent in the set.
Acyclic(r) ==
    \A S \in (SUBSET Commits) \ {{}} : \E c \in S : ToSet(r.parents[c]) \cap S = {}

ASSUME ObjectsAssumption ==
    /\ Commits \subseteq Int
    /\ Blobs \cap Commits = {}
    /\ NoBlob \notin Blobs
    /\ Kind \in [Blobs -> {"text"} \cup SkipKinds]
    /\ ScannedPaths \subseteq Paths

ASSUME FiniteAssumption == IsFiniteSet(Commits)

ASSUME RepositoriesAssumption ==
    \A r \in Repositories : WellFormedRepository(r)

ASSUME AcyclicAssumption ==
    \A r \in Repositories : Acyclic(r)

-----------------------------------------------------------------------------
\* A set of commits that contains every parent of its members.
ParentClosed(r, S) == \A c \in S : ToSet(r.parents[c]) \subseteq S

\* The commits reachable from the refs: what lies in every parent-closed set
\* that holds the tips.
Reachable(r) ==
    {c \in Commits :
        \A S \in SUBSET Commits : r.tips \subseteq S /\ ParentClosed(r, S) => c \in S}

\* A shallow clone: a commit of the store names a parent the store lacks.
IsShallow(r) ==
    \E c \in Commits \cap r.present : \E p \in ToSet(r.parents[c]) : p \notin r.present

\* Committer times never decrease from a parent to its child.
ClocksAgree(r) ==
    \A c \in Commits : \A p \in ToSet(r.parents[c]) : r.time[p] <= r.time[c]

\* Mutant: a commit without parents is compared with itself.
RootsSkipped(r, c) ==
    IF r.parents[c] = <<>> THEN r.tree[c] ELSE r.tree[Head(r.parents[c])]

\* The tree a commit is compared with: its first parent's, or the empty tree.
BaseTree(r, c) ==
    IF r.parents[c] = <<>> THEN [p \in Paths |-> NoBlob]
                           ELSE r.tree[Head(r.parents[c])]

\* Mutant: every entry of the tree, changed or not.
AllPaths(r, c) == {p \in ScannedPaths : r.tree[c][p] # NoBlob}

\* The scanned paths whose entry the commit introduces or changes.
ChangedPaths(r, c) ==
    {p \in ScannedPaths :
        r.tree[c][p] # NoBlob /\ r.tree[c][p] # BaseTree(r, c)[p]}

\* Entries that are opened to be scanned (a submodule has no object here).
ReadEntries(r, c) ==
    {r.tree[c][p] : p \in {q \in ChangedPaths(r, c) :
                             Kind[r.tree[c][q]] # "SubmoduleSkipped"}}
=============================================================================
