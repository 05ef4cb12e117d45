------------------------- MODULE HistoryWalkProofs -------------------------
(***************************************************************************)
(* For every commit graph, ceiling and object store: the types, what is    *)
(* collected and from which commits, how the answer hangs together, that   *)
(* the walk implements WalkPromise, that under agreeing clocks its budget  *)
(* keeps the newest commits, and that it always gets on.                   *)
(***************************************************************************)
EXTENDS HistoryWalk, FiniteSetTheorems, SequenceTheorems, TLAPS

-----------------------------------------------------------------------------
(* Sequences without repetition. *)

\* Appending a new element to a list without repetition.
LEMMA AppendNew ==
  ASSUME NEW S, NEW s \in Seq(S), IsInjective(s), NEW e \in S, e \notin ToSet(s)
  PROVE  /\ Append(s, e) \in Seq(S)
         /\ Len(Append(s, e)) = Len(s) + 1
         /\ IsInjective(Append(s, e))
         /\ ToSet(Append(s, e)) = ToSet(s) \cup {e}
<1>1. /\ Append(s, e) \in Seq(S)
      /\ Len(Append(s, e)) = Len(s) + 1
      /\ \A i \in 1..Len(s) : Append(s, e)[i] = s[i]
      /\ Append(s, e)[Len(s) + 1] = e
  BY AppendProperties
<1>2. /\ DOMAIN s = 1..Len(s)
      /\ DOMAIN Append(s, e) = 1..(Len(s) + 1)
      /\ Len(s) \in Nat
  BY <1>1
<1>3. IsInjective(Append(s, e))
  BY <1>1, <1>2 DEF IsInjective, ToSet
<1>4. ToSet(Append(s, e)) = ToSet(s) \cup {e}
  BY <1>1, <1>2 DEF ToSet
<1> QED
  BY <1>1, <1>3, <1>4

\* Cutting a list without repetition loses what comes after the cut.
LEMMA PrefixOfInjective ==
  ASSUME NEW S, NEW s \in Seq(S), IsInjective(s), NEW m \in Nat, m < Len(s)
  PROVE  /\ SubSeq(s, 1, m) \in Seq(S)
         /\ Len(SubSeq(s, 1, m)) = m
         /\ IsInjective(SubSeq(s, 1, m))
         /\ ToSet(SubSeq(s, 1, m)) \subseteq ToSet(s)
         /\ s[m + 1] \in ToSet(s) \ ToSet(SubSeq(s, 1, m))
<1> DEFINE t == SubSeq(s, 1, m)
<1>1. /\ t \in Seq(S)
      /\ Len(t) = m
      /\ \A i \in 1..m : t[i] = s[i]
  <2>1. \A i \in 1..m : s[i] \in S
    BY ElementOfSeq
  <2>2. /\ t \in Seq(S)
        /\ Len(t) = IF 1 <= m THEN m - 1 + 1 ELSE 0
        /\ \A i \in 1..(m - 1 + 1) : t[i] = s[1 + i - 1]
    BY <2>1, SubSeqProperties
  <2> QED
    BY <2>2
<1>2. DOMAIN t = 1..m /\ DOMAIN s = 1..Len(s) /\ Len(s) \in Nat
  BY <1>1
<1>3. IsInjective(t)
  BY <1>1, <1>2 DEF IsInjective
<1>4. ToSet(t) \subseteq ToSet(s) /\ s[m + 1] \in ToSet(s) \ ToSet(t)
  BY <1>1, <1>2 DEF IsInjective, ToSet
<1> QED
  BY <1>1, <1>3, <1>4

\* A list without repetition is as long as its set is large.
LEMMA InjectiveCardinality ==
  ASSUME NEW S, NEW s \in Seq(S), IsInjective(s)
  PROVE  Cardinality(ToSet(s)) = Len(s)
<1>1. Len(s) \in Nat /\ s \in [1..Len(s) -> ToSet(s)]
  BY DEF ToSet
<1>2. s \in Injection(1..Len(s), ToSet(s))
  BY <1>1 DEF Injection, IsInjective
<1>3. s \in Surjection(1..Len(s), ToSet(s))
  BY <1>1 DEF Surjection, ToSet
<1>4. ExistsBijection(1..Len(s), ToSet(s))
  BY <1>2, <1>3 DEF ExistsBijection, Bijection
<1> QED
  BY <1>1, <1>4, FS_CountingElements

-----------------------------------------------------------------------------
(* Reachability. *)

\* The reachable commits contain the tips and every parent of their members.
LEMMA ReachableClosed ==
  ASSUME NEW r, WellFormedRepository(r)
  PROVE  /\ r.tips \subseteq Reachable(r)
         /\ ParentClosed(r, Reachable(r))
<1>1. r.tips \subseteq Reachable(r)
  BY DEF Reachable, WellFormedRepository
<1>2. ASSUME NEW c \in Reachable(r), NEW p \in ToSet(r.parents[c])
      PROVE  p \in Reachable(r)
  <2>1. c \in Commits /\ r.parents[c] \in Seq(Commits)
    BY DEF Reachable, WellFormedRepository
  <2>2. p \in Commits
    BY <2>1 DEF ToSet
  <2> QED
    BY <2>2 DEF Reachable, ParentClosed
<1> QED
  BY <1>1, <1>2 DEF ParentClosed

\* They are the least such set.
LEMMA ReachableLeast ==
  ASSUME NEW r, NEW S \in SUBSET Commits, r.tips \subseteq S, ParentClosed(r, S)
  PROVE  Reachable(r) \subseteq S
BY DEF Reachable

-----------------------------------------------------------------------------
(* Types. *)

\* What is known of the commit list in every phase.
CommitsSeen == ToSet(commits) \subseteq seen

\* Nothing is collected before the budget was applied.
ScannedLater == phase \in {"tips", "walk", "budget"} => scanned = 0

TypeInv == TypeOK /\ CommitsSeen /\ ScannedLater

\* A changed path carries an entry of the tree.
LEMMA ChangedEntries ==
  ASSUME NEW r, WellFormedRepository(r), NEW c \in Commits, NEW p \in ChangedPaths(r, c)
  PROVE  p \in Paths /\ r.tree[c][p] \in Blobs
BY ObjectsAssumption DEF WellFormedRepository, Tree, ChangedPaths

\* What a commit adds to the collector is typed.
LEMMA TextUnitsTyped ==
  ASSUME WellFormedRepository(repo), NEW c \in Commits
  PROVE  TextUnits(c) \subseteq Blobs \X Paths \X Commits
BY ChangedEntries DEF TextUnits

\* collect_history starts with well-typed variables.
LEMMA TypeInvInit == Init => TypeInv
<1> SUFFICES ASSUME Init PROVE TypeInv
  OBVIOUS
<1>1. WellFormedRepository(repo) /\ maxCommits \in Ceilings
  BY RepositoriesAssumption DEF Init
<1>2. commits \in Seq(Commits) /\ IsInjective(commits) /\ ToSet(commits) = {}
  BY DEF Init, IsInjective, ToSet
<1>3. scanned \in 0..Len(commits)
  BY DEF Init
<1> QED
  BY <1>1, <1>2, <1>3 DEF Init, TypeInv, TypeOK, CommitsSeen, ScannedLater, Phases

\* Every step keeps them so.
LEMMA TypeInvStep == TypeInv /\ [Next]_vars => TypeInv'
<1> SUFFICES ASSUME TypeInv, [Next]_vars PROVE TypeInv'
  OBVIOUS
<1> USE DEF TypeInv, CommitsSeen, ScannedLater, TypeOK, Phases
<1>1. CASE ReadTips
  BY <1>1 DEF ReadTips
<1>2. CASE ReadTipsFails
  BY <1>2 DEF ReadTipsFails, FailRead
<1>3. ASSUME NEW c \in Commits, SkipSeen(c) PROVE TypeInv'
  BY <1>3 DEF SkipSeen, IsFirst, Queued, Popped
<1>4. ASSUME NEW c \in Commits, Visit(c) PROVE TypeInv'
  <2>1. c \notin ToSet(commits)
    BY <1>4 DEF Visit, AlreadySeen
  <2>2. /\ commits' \in Seq(Commits)
        /\ Len(commits') = Len(commits) + 1
        /\ IsInjective(commits')
        /\ ToSet(commits') = ToSet(commits) \cup {c}
    BY <1>4, <2>1, AppendNew DEF Visit
  <2>3. Popped(c) \in [Commits -> Nat]
    BY <1>4 DEF Visit, IsFirst, Queued, Popped
  <2>4. queue' \in [Commits -> Nat]
    <3>1. CASE LimitReached(Len(commits) + 1)
      BY <1>4, <2>3, <3>1 DEF Visit
    <3>2. CASE ~LimitReached(Len(commits) + 1)
      <4>1. Requeue(c)
        BY <1>4, <3>2 DEF Visit
      <4> QED
        BY <2>3, <4>1 DEF Requeue
    <3> QED
      BY <3>1, <3>2
  <2>5. scanned' = 0 /\ phase' \in {"walk", "budget"}
    BY <1>4 DEF Visit
  <2> QED
    BY <1>4, <2>2, <2>4, <2>5 DEF Visit
<1>5. ASSUME NEW c \in Commits, VisitFails(c) PROVE TypeInv'
  BY <1>5 DEF VisitFails, FailRead
<1>6. CASE QueueDrained
  BY <1>6 DEF QueueDrained
<1>7. CASE ApplyBudget
  <2>1. scanned' = 0 /\ phase' = "collect"
    BY <1>7 DEF ApplyBudget
  <2>2. CASE maxCommits # NoCap /\ Len(commits) > maxCommits
    <3>1. commits' = SubSeq(commits, 1, maxCommits) /\ truncated' = TRUE
      BY <1>7, <2>2 DEF ApplyBudget, KeepFirst
    <3>2. maxCommits \in Nat
      BY <2>2, CeilingsAssumption
    <3>3. /\ commits' \in Seq(Commits)
          /\ IsInjective(commits')
          /\ ToSet(commits') \subseteq ToSet(commits)
      BY <2>2, <3>1, <3>2, PrefixOfInjective
    <3> QED
      BY <1>7, <2>1, <3>1, <3>3 DEF ApplyBudget
  <2>3. CASE ~(maxCommits # NoCap /\ Len(commits) > maxCommits)
    <3>1. UNCHANGED <<commits, truncated>>
      BY <1>7, <2>3 DEF ApplyBudget
    <3> QED
      BY <1>7, <2>1, <3>1 DEF ApplyBudget
  <2> QED
    BY <2>2, <2>3
<1>8. CASE CollectCommit
  <2>1. NextToCollect \in Commits
    BY <1>8, ElementOfSeq DEF CollectCommit, NextToCollect
  <2>2. collected' \subseteq Blobs \X Paths \X Commits
    BY <1>8, <2>1, TextUnitsTyped DEF CollectCommit
  <2>3. scanned' \in 0..Len(commits)
    BY <1>8 DEF CollectCommit
  <2> QED
    BY <1>8, <2>2, <2>3 DEF CollectCommit
<1>9. CASE CollectCommitFails
  BY <1>9 DEF CollectCommitFails, FailRead
<1>10. CASE Finish
  BY <1>10 DEF Finish
<1>11. CASE UNCHANGED vars
  BY <1>11 DEF vars
<1> QED
  BY <1>1, <1>2, <1>3, <1>4, <1>5, <1>6, <1>7, <1>8, <1>9, <1>10, <1>11 DEF Next

\* Types hold in every state; IsInjective(commits) needs CommitsSeen.
THEOREM TypeCorrect == Spec => []TypeInv
BY TypeInvInit, TypeInvStep, PTL DEF Spec

\* The type invariant of the model-checking run, for every repository.
THEOREM TypeSafe == Spec => []TypeOK
<1>1. TypeInv => TypeOK
  BY DEF TypeInv
<1> QED
  BY <1>1, TypeCorrect, PTL

-----------------------------------------------------------------------------
(* The walk stays within the reachable commits, and misses none. *)

\* Only reachable commits are queued or visited.
Traced == seen \cup Queued \subseteq Reachable(repo)

\* While the walk runs, every tip and every parent of a visited commit has
\* been visited or waits in the queue, and the limit is not reached yet.
Frontier ==
    phase = "walk" =>
        /\ seen = ToSet(commits)
        /\ repo.tips \subseteq seen \cup Queued
        /\ \A c \in seen : ToSet(repo.parents[c]) \subseteq seen \cup Queued
        /\ maxCommits # NoCap => Len(commits) <= maxCommits

\* It stops because nothing is left, or with one commit more than the ceiling.
Stopped ==
    phase = "budget" =>
        /\ seen = ToSet(commits)
        /\ \/ /\ seen = Reachable(repo)
              /\ maxCommits # NoCap => Len(commits) <= maxCommits
           \/ /\ maxCommits # NoCap
              /\ Len(commits) = maxCommits + 1

\* The answer is complete, or it is cut to the ceiling and says so.
Settled ==
    phase \in {"collect", "done"} =>
        /\ BudgetHit \in warnings <=> ToSet(commits) # Reachable(repo)
        /\ maxCommits # NoCap => Len(commits) <= maxCommits
        /\ BudgetHit \in warnings => maxCommits # NoCap /\ Len(commits) = maxCommits

Unsettled ==
    /\ phase \in {"tips", "walk", "budget"} => BudgetHit \notin warnings
    /\ phase = "tips" => seen = {} /\ commits = <<>>

WalkInv == TypeInv /\ Traced /\ Frontier /\ Stopped /\ Settled /\ Unsettled

\* Without a ceiling at the top of usize, the limit is the ceiling plus one.
LEMMA LimitIsNext ==
  ASSUME NoOverflow, maxCommits \in Ceilings, maxCommits # NoCap
  PROVE  maxCommits \in Nat /\ Limit = maxCommits + 1
<1>1. maxCommits \in Nat /\ maxCommits + 1 < UsizeModulus /\ UsizeModulus \in Nat
  BY CeilingsAssumption DEF NoOverflow
<1>2. (maxCommits + 1) % UsizeModulus = maxCommits + 1
  BY <1>1
<1> QED
  BY <1>1, <1>2 DEF Limit

\* Collecting a commit never adds the budget warning.
LEMMA NotesAreOther ==
  ASSUME WellFormedRepository(repo), NEW c \in Commits
  PROVE  BudgetHit \notin MergeNotes(c) \cup SkipNotes(c)
<1>1. BudgetHit \notin MergeNotes(c)
  BY DEF BudgetHit, MergeNotes
<1>2. \A p \in ChangedPaths(repo, c) : Kind[repo.tree[c][p]] # "HistoryBudgetHit"
  BY ChangedEntries, ObjectsAssumption DEF SkipKinds
<1>3. BudgetHit \notin SkipNotes(c)
  BY <1>2 DEF BudgetHit, SkipNotes
<1> QED
  BY <1>1, <1>3

\* The invariant of the walk holds before the refs are read.
LEMMA WalkInvInit == Init => WalkInv
<1> SUFFICES ASSUME Init PROVE WalkInv
  OBVIOUS
<1>1. TypeInv
  BY TypeInvInit
<1>2. Queued = {}
  BY DEF Init, Queued
<1> QED
  BY <1>1, <1>2 DEF Init, WalkInv, Traced, Frontier, Stopped, Settled, Unsettled

\* What removing the first candidate does to the queued set.
LEMMA PopEffect ==
  ASSUME TypeInv, NEW c \in Commits, IsFirst(c), queue' = Popped(c)
  PROVE  Queued' \subseteq Queued /\ Queued \subseteq Queued' \cup {c}
BY DEF TypeInv, TypeOK, Popped, Queued, IsFirst

\* What a visit does to it: at most c leaves, and the fresh parents enter.
LEMMA RequeueEffect ==
  ASSUME TypeInv, NEW c \in Commits, IsFirst(c), Requeue(c)
  PROVE  /\ Queued' \subseteq Queued \cup FreshParents(c)
         /\ Queued \cup FreshParents(c) \subseteq Queued' \cup {c}
<1>1. WellFormedRepository(repo) /\ queue \in [Commits -> Nat]
  BY DEF TypeInv, TypeOK
<1>2. FreshParents(c) \subseteq Commits /\ c \notin FreshParents(c)
  BY <1>1 DEF FreshParents, WellFormedRepository, ToSet
<1>3. ASSUME NEW d \in Commits
      PROVE  queue'[d] = IF d \in FreshParents(c) THEN queue[d] + 1
                         ELSE IF d = c THEN queue[d] - 1 ELSE queue[d]
  BY <1>1 DEF Requeue, Popped
<1> QED
  BY <1>1, <1>2, <1>3 DEF Queued

\* The walk never leaves the reachable commits, whatever the ceiling.
LEMMA TracedStep == TypeInv /\ Traced /\ [Next]_vars => Traced'
<1> SUFFICES ASSUME TypeInv, Traced, [Next]_vars PROVE Traced'
  OBVIOUS
<1>w. WellFormedRepository(repo)
  BY DEF TypeInv, TypeOK
<1>1. CASE ReadTips
  <2>1. Queued' = repo.tips
    BY <1>1, <1>w DEF ReadTips, Queued, WellFormedRepository
  <2> QED
    BY <1>1, <1>w, <2>1, ReachableClosed DEF ReadTips, Traced
<1>2. ASSUME NEW c \in Commits, SkipSeen(c) PROVE Traced'
  BY <1>2, PopEffect DEF SkipSeen, Traced
<1>3. ASSUME NEW c \in Commits, Visit(c) PROVE Traced'
  <2>1. IsFirst(c) /\ c \in Queued /\ seen' = seen \cup {c} /\ repo' = repo
    BY <1>3 DEF Visit, IsFirst
  <2>2. FreshParents(c) \subseteq Reachable(repo)
    BY <1>w, <2>1, ReachableClosed DEF FreshParents, ParentClosed, Traced
  <2>3. Queued' \subseteq Queued \cup FreshParents(c)
    BY <1>3, <2>1, PopEffect, RequeueEffect DEF Visit
  <2> QED
    BY <2>1, <2>2, <2>3 DEF Traced
<1>4. CASE UNCHANGED <<repo, queue, seen>>
  BY <1>4 DEF Traced, Queued
<1> QED
  BY <1>1, <1>2, <1>3, <1>4
  DEF Next, vars, ReadTipsFails, VisitFails, QueueDrained, ApplyBudget, CollectCommit,
      CollectCommitFails, Finish, FailRead

\* Every step of the walk keeps its invariant, unless the limit wraps.
LEMMA WalkInvStep == NoOverflow /\ WalkInv /\ [Next]_vars => WalkInv'
<1> SUFFICES ASSUME NoOverflow, WalkInv, [Next]_vars PROVE WalkInv'
  OBVIOUS
<1> USE DEF WalkInv
<1>0. TypeInv' /\ Traced'
  BY TypeInvStep, TracedStep
<1>w. WellFormedRepository(repo) /\ maxCommits \in Ceilings
  BY DEF TypeInv, TypeOK
<1>1. CASE ReadTips
  <2>1. Queued' = repo.tips /\ seen' = {} /\ commits' = <<>> /\ ToSet(commits') = {}
    BY <1>1, <1>w DEF ReadTips, Unsettled, Queued, WellFormedRepository, ToSet
  <2>2. Frontier'
    <3>1. maxCommits # NoCap => Len(commits') <= maxCommits
      BY <1>w, <2>1, CeilingsAssumption
    <3> QED
      BY <1>1, <2>1, <3>1 DEF ReadTips, Frontier
  <2>3. Settled'
    <3>1. SUFFICES ASSUME phase' = "done"
                   PROVE  Settled'
      BY <1>1 DEF ReadTips, Settled
    <3>2. repo.tips = {}
      BY <1>1, <3>1 DEF ReadTips
    <3>3. Reachable(repo) = {}
      BY <3>2, ReachableLeast DEF ParentClosed
    <3>4. maxCommits # NoCap => Len(commits') <= maxCommits
      BY <1>w, <2>1, CeilingsAssumption
    <3> QED
      BY <1>1, <2>1, <3>3, <3>4 DEF ReadTips, Settled, Unsettled, BudgetHit
  <2>4. Stopped' /\ Unsettled'
    BY <1>1 DEF ReadTips, Stopped, Unsettled, BudgetHit
  <2> QED
    BY <1>0, <2>2, <2>3, <2>4
<1>2. CASE ReadTipsFails
  BY <1>0, <1>2 DEF ReadTipsFails, FailRead, Frontier, Stopped, Settled,
                    Unsettled, Queued
<1>3. ASSUME NEW c \in Commits, SkipSeen(c) PROVE WalkInv'
  <2>1. seen' \cup Queued' = seen \cup Queued
    BY <1>3, PopEffect DEF SkipSeen, AlreadySeen
  <2> QED
    BY <1>0, <1>3, <2>1 DEF SkipSeen, Frontier, Stopped, Settled, Unsettled,
                            BudgetHit
<1>4. ASSUME NEW c \in Commits, Visit(c) PROVE WalkInv'
  <2>1. /\ phase = "walk" /\ IsFirst(c) /\ c \in Queued /\ c \notin seen
        /\ seen' = seen \cup {c} /\ repo' = repo /\ maxCommits' = maxCommits
        /\ warnings' = warnings
    BY <1>4 DEF Visit, IsFirst, AlreadySeen
  <2>2. ToSet(commits') = seen' /\ Len(commits') = Len(commits) + 1
    <3>1. commits \in Seq(Commits) /\ IsInjective(commits) /\ seen = ToSet(commits)
      BY <2>1 DEF TypeInv, TypeOK, Frontier
    <3> QED
      BY <1>4, <2>1, <3>1, AppendNew DEF Visit
  <2>3. Len(commits) \in Nat
    BY DEF TypeInv, TypeOK
  <2>4. maxCommits # NoCap => maxCommits \in Nat /\ Limit = maxCommits + 1
    BY <1>w, LimitIsNext
  <2>5. Settled'
    BY <1>4 DEF Visit, Settled
  <2>6. Unsettled'
    BY <1>4, <2>1 DEF Visit, Unsettled, BudgetHit
  <2>7. CASE LimitReached(Len(commits) + 1)
    <3>1. phase' = "budget" /\ queue' = Popped(c)
      BY <1>4, <2>7 DEF Visit
    <3>2. maxCommits # NoCap /\ Len(commits') = maxCommits + 1
      BY <2>1, <2>2, <2>3, <2>4, <2>7 DEF LimitReached, Frontier
    <3>3. Stopped' /\ Frontier'
      BY <2>1, <2>2, <3>1, <3>2 DEF Stopped, Frontier
    <3> QED
      BY <1>0, <2>5, <2>6, <3>3
  <2>8. CASE ~LimitReached(Len(commits) + 1)
    <3>1. phase' = "walk" /\ Requeue(c)
      BY <1>4, <2>1, <2>8 DEF Visit
    <3>2. /\ Queued' \subseteq Queued \cup FreshParents(c)
          /\ Queued \cup FreshParents(c) \subseteq Queued' \cup {c}
      BY <2>1, <3>1, RequeueEffect
    <3>3. ToSet(repo.parents[c]) \subseteq seen' \cup FreshParents(c)
      BY <2>1 DEF FreshParents
    <3>4. maxCommits # NoCap => Len(commits') <= maxCommits
      BY <2>1, <2>2, <2>3, <2>4, <2>8 DEF LimitReached
    <3>5. /\ repo.tips \subseteq seen' \cup Queued'
          /\ \A d \in seen' : ToSet(repo.parents[d]) \subseteq seen' \cup Queued'
      BY <2>1, <3>2, <3>3 DEF Frontier
    <3>6. Frontier' /\ Stopped'
      BY <2>1, <2>2, <3>1, <3>4, <3>5 DEF Frontier, Stopped
    <3> QED
      BY <1>0, <2>5, <2>6, <3>6
  <2> QED
    BY <2>7, <2>8
<1>5. ASSUME NEW c \in Commits, VisitFails(c) PROVE WalkInv'
  BY <1>0, <1>5 DEF VisitFails, FailRead, Frontier, Stopped, Settled,
                    Unsettled, Queued
<1>6. CASE QueueDrained
  <2>1. seen = ToSet(commits) /\ repo.tips \subseteq seen /\ ParentClosed(repo, seen)
    BY <1>6 DEF QueueDrained, Frontier, ParentClosed
  <2>2. seen = Reachable(repo)
    <3>1. seen \subseteq Commits
      BY DEF TypeInv, TypeOK
    <3> QED
      BY <2>1, <3>1, ReachableLeast DEF Traced
  <2> QED
    BY <1>0, <1>6, <2>1, <2>2 DEF QueueDrained, Frontier, Stopped, Settled,
                                  Unsettled, BudgetHit
<1>7. CASE ApplyBudget
  <2>1. /\ phase' = "collect" /\ repo' = repo /\ maxCommits' = maxCommits
        /\ phase = "budget" /\ seen' = seen /\ queue' = queue
    BY <1>7 DEF ApplyBudget
  <2>2. BudgetHit \notin warnings /\ seen = ToSet(commits)
    BY <2>1 DEF Unsettled, Stopped
  <2>3. Frontier' /\ Stopped' /\ Unsettled'
    BY <2>1 DEF Frontier, Stopped, Unsettled
  <2>4. CASE maxCommits # NoCap /\ Len(commits) > maxCommits
    <3>1. commits' = SubSeq(commits, 1, maxCommits) /\ warnings' = warnings \cup {BudgetHit}
      BY <1>7, <2>4 DEF ApplyBudget, KeepFirst
    <3>2. maxCommits \in Nat /\ commits \in Seq(Commits) /\ IsInjective(commits)
      BY <2>4, CeilingsAssumption DEF TypeInv, TypeOK
    <3>3. /\ Len(commits') = maxCommits
          /\ commits[maxCommits + 1] \in ToSet(commits) \ ToSet(commits')
      BY <2>4, <3>1, <3>2, PrefixOfInjective
    <3>4. ToSet(commits') # Reachable(repo)
      BY <2>2, <3>3 DEF Traced
    <3>5. Settled'
      BY <2>1, <2>4, <3>1, <3>2, <3>3, <3>4 DEF Settled, BudgetHit
    <3> QED
      BY <1>0, <2>3, <3>5
  <2>5. CASE ~(maxCommits # NoCap /\ Len(commits) > maxCommits)
    <3>1. commits' = commits /\ warnings' = warnings
      BY <1>7, <2>5 DEF ApplyBudget
    <3>2. maxCommits # NoCap => maxCommits \in Nat /\ Len(commits) <= maxCommits
      BY <1>w, <2>5, CeilingsAssumption DEF TypeInv, TypeOK
    <3>3. seen = Reachable(repo)
      BY <2>1, <3>2 DEF Stopped
    <3>4. Settled'
      BY <2>1, <2>2, <3>1, <3>2, <3>3 DEF Settled, BudgetHit
    <3> QED
      BY <1>0, <2>3, <3>4
  <2> QED
    BY <2>4, <2>5
<1>8. CASE CollectCommit
  <2>1. NextToCollect \in Commits
    BY <1>8, ElementOfSeq DEF CollectCommit, NextToCollect, TypeInv, TypeOK
  <2>2. BudgetHit \in warnings' <=> BudgetHit \in warnings
    BY <1>8, <1>w, <2>1, NotesAreOther DEF CollectCommit
  <2>3. Settled'
    BY <1>8, <2>2 DEF CollectCommit, Settled, BudgetHit
  <2> QED
    BY <1>0, <1>8, <2>3 DEF CollectCommit, Frontier, Stopped, Unsettled
<1>9. CASE CollectCommitFails
  BY <1>0, <1>9 DEF CollectCommitFails, FailRead, Frontier, Stopped, Settled,
                    Unsettled, Queued
<1>10. CASE Finish
  BY <1>0, <1>10 DEF Finish, Frontier, Stopped, Settled, Unsettled, Queued,
                     BudgetHit
<1>11. CASE UNCHANGED vars
  BY <1>0, <1>11 DEF vars, Frontier, Stopped, Settled, Unsettled, Queued,
                     BudgetHit
<1> QED
  BY <1>1, <1>2, <1>3, <1>4, <1>5, <1>6, <1>7, <1>8, <1>9, <1>10, <1>11 DEF Next

-----------------------------------------------------------------------------
(* Theorems. *)

\* While the ceiling stays below the top of usize, a walk is exhaustive, or
\* stops one commit past the ceiling and cuts that commit off with a warning.
THEOREM WalkIsSettled ==
  ASSUME NoOverflow
  PROVE  Spec => []WalkInv
<1>1. WalkInv /\ [Next]_vars => WalkInv'
  BY NoOverflow, WalkInvStep
<1> QED
  BY <1>1, WalkInvInit, PTL DEF Spec

\* Only commits reachable from a ref are ever visited or queued.
LEMMA WalkTraced == Spec => [](TypeInv /\ Traced)
<1>1. Init => Traced
  BY DEF Init, Traced, Queued
<1> QED
  BY <1>1, TypeInvInit, TypeInvStep, TracedStep, PTL DEF Spec

\* Whatever the ceiling, contents are attributed to reachable commits that
\* introduced them: the walk never leaves the history of the refs.
THEOREM ProvenanceIsRight == Spec => []BlameIsRight
<1>1. Init => BlameIsRight
  BY DEF Init, BlameIsRight
<1>2. TypeInv /\ Traced /\ BlameIsRight /\ [Next]_vars => BlameIsRight'
  <2> SUFFICES ASSUME TypeInv, Traced, BlameIsRight, [Next]_vars PROVE BlameIsRight'
    OBVIOUS
  <2>1. repo' = repo
    BY DEF Next, vars, ReadTips, ReadTipsFails, SkipSeen, Visit, VisitFails,
           QueueDrained, ApplyBudget, CollectCommit, CollectCommitFails, Finish, FailRead
  <2>2. CASE CollectCommit
    <3>1. NextToCollect \in ToSet(commits) /\ NextToCollect \in Commits
      BY <2>2, ElementOfSeq
      DEF CollectCommit, NextToCollect, ToSet, TypeInv, TypeOK
    <3>2. NextToCollect \in Reachable(repo)
      BY <3>1 DEF TypeInv, CommitsSeen, Traced
    <3>3. \A u \in TextUnits(NextToCollect) :
             /\ u[3] = NextToCollect
             /\ u[2] \in ChangedPaths(repo, NextToCollect)
             /\ u[1] = repo.tree[NextToCollect][u[2]]
      BY DEF TextUnits
    <3>4. \A u \in TextUnits(NextToCollect) :
             /\ repo.tree[u[3]][u[2]] = u[1]
             /\ BaseTree(repo, u[3])[u[2]] # u[1]
             /\ u[2] \in ScannedPaths
      BY <3>3 DEF ChangedPaths
    <3> QED
      BY <2>1, <2>2, <3>2, <3>3, <3>4 DEF CollectCommit, BlameIsRight
  <2>3. CASE UNCHANGED collected
    BY <2>1, <2>3 DEF BlameIsRight
  <2> QED
    BY <2>2, <2>3
    DEF Next, vars, ReadTips, ReadTipsFails, SkipSeen, Visit, VisitFails,
        QueueDrained, ApplyBudget, CollectCommitFails, Finish, FailRead
<1> QED
  BY <1>1, <1>2, WalkTraced, PTL DEF Spec

-----------------------------------------------------------------------------
(* The answer is connected to the refs. *)

\* What waits in the queue is a tip or a parent of a visited commit.
QueueConnected ==
    /\ phase = "tips" => commits = <<>>
    /\ phase = "walk" =>
         \A c \in Queued : \/ c \in repo.tips
                           \/ \E d \in ToSet(commits) : c \in ToSet(repo.parents[d])

\* A commit appended to the visits is connected like those before it.
LEMMA VisitConnected ==
  ASSUME TypeInv, ChildBeforeParent, QueueConnected, NEW c \in Commits, Visit(c)
  PROVE  ChildBeforeParent'
<1>1. /\ commits \in Seq(Commits) /\ commits' = Append(commits, c) /\ repo' = repo
      /\ phase = "walk" /\ c \in Queued
  BY DEF Visit, IsFirst, TypeInv, TypeOK
<1>2. /\ Len(commits) \in Nat /\ DOMAIN commits = 1..Len(commits)
      /\ DOMAIN commits' = 1..(Len(commits) + 1)
      /\ \A i \in 1..Len(commits) : commits'[i] = commits[i]
      /\ commits'[Len(commits) + 1] = c
  BY <1>1, AppendProperties
<1>3. \/ c \in repo.tips
      \/ \E j \in 1..Len(commits) : c \in ToSet(repo.parents[commits[j]])
  <2>1. \/ c \in repo.tips
        \/ \E d \in ToSet(commits) : c \in ToSet(repo.parents[d])
    BY <1>1 DEF QueueConnected
  <2>2. \A d \in ToSet(commits) : \E j \in 1..Len(commits) : commits[j] = d
    BY <1>2 DEF ToSet
  <2> QED
    BY <2>1, <2>2
<1>4. ASSUME NEW i \in DOMAIN commits'
      PROVE  \/ commits'[i] \in repo.tips
             \/ \E j \in 1..(i - 1) : commits'[i] \in ToSet(repo.parents[commits'[j]])
  <2>1. CASE i = Len(commits) + 1
    BY <1>2, <1>3, <2>1
  <2>2. CASE i \in DOMAIN commits
    <3>1. \/ commits[i] \in repo.tips
          \/ \E j \in 1..(i - 1) : commits[i] \in ToSet(repo.parents[commits[j]])
      BY <2>2 DEF ChildBeforeParent
    <3>2. \A j \in 1..(i - 1) : j \in 1..Len(commits)
      BY <1>2, <2>2
    <3> QED
      BY <1>2, <2>2, <3>1, <3>2
  <2> QED
    BY <1>2, <2>1, <2>2
<1> QED
  BY <1>1, <1>4 DEF ChildBeforeParent

\* A cut list is as connected as the list it is cut from.
LEMMA CutConnected ==
  ASSUME TypeInv, ChildBeforeParent, ApplyBudget
  PROVE  ChildBeforeParent'
<1>1. commits \in Seq(Commits) /\ repo' = repo
  BY DEF ApplyBudget, TypeInv, TypeOK
<1>2. CASE ~(maxCommits # NoCap /\ Len(commits) > maxCommits)
  BY <1>1, <1>2 DEF ApplyBudget, ChildBeforeParent
<1>3. CASE maxCommits # NoCap /\ Len(commits) > maxCommits
  <2>1. maxCommits \in Nat /\ commits' = SubSeq(commits, 1, maxCommits)
    BY <1>3, CeilingsAssumption DEF ApplyBudget, KeepFirst, TypeInv, TypeOK
  <2>2. /\ DOMAIN commits = 1..Len(commits) /\ DOMAIN commits' = 1..maxCommits
        /\ \A i \in 1..maxCommits : commits'[i] = commits[i]
    <3>1. \A i \in 1..maxCommits : commits[i] \in Commits
      BY <1>1, <1>3, <2>1, ElementOfSeq
    <3>2. /\ commits' \in Seq(Commits)
          /\ Len(commits') = IF 1 <= maxCommits THEN maxCommits - 1 + 1 ELSE 0
          /\ \A i \in 1..(maxCommits - 1 + 1) : commits'[i] = commits[1 + i - 1]
      BY <2>1, <3>1, SubSeqProperties
    <3> QED
      BY <1>1, <2>1, <3>2
  <2>3. ASSUME NEW i \in DOMAIN commits'
        PROVE  \/ commits'[i] \in repo.tips
               \/ \E j \in 1..(i - 1) : commits'[i] \in ToSet(repo.parents[commits'[j]])
    <3>1. \/ commits[i] \in repo.tips
          \/ \E j \in 1..(i - 1) : commits[i] \in ToSet(repo.parents[commits[j]])
      BY <1>1, <1>3, <2>1, <2>2 DEF ChildBeforeParent
    <3>2. \A j \in 1..(i - 1) : j \in 1..maxCommits
      BY <2>1, <2>2
    <3> QED
      BY <2>2, <3>1, <3>2
  <2> QED
    BY <1>1, <2>3 DEF ChildBeforeParent
<1> QED
  BY <1>2, <1>3

\* A visit queues parents of the commit it records, and nothing else.
LEMMA QueueConnectedVisit ==
  ASSUME TypeInv, QueueConnected, NEW c \in Commits, Visit(c)
  PROVE  QueueConnected'
<1>1. /\ commits \in Seq(Commits) /\ repo' = repo /\ IsFirst(c)
      /\ phase = "walk" /\ phase' \in {"walk", "budget"}
  BY DEF Visit, TypeInv, TypeOK
<1>2. ToSet(commits') = ToSet(commits) \cup {c}
  <2>1. commits' = Append(commits, c) /\ c \notin ToSet(commits) /\ IsInjective(commits)
    BY DEF Visit, AlreadySeen, TypeInv, TypeOK, CommitsSeen
  <2> QED
    BY <1>1, <2>1, AppendNew
<1>3. ASSUME phase' = "walk"
      PROVE  Queued' \subseteq Queued \cup FreshParents(c)
  BY <1>1, <1>3, RequeueEffect DEF Visit
<1> QED
  BY <1>1, <1>2, <1>3 DEF QueueConnected, FreshParents

\* Each commit of an answer is a ref's target or comes after a child of it,
\* in any repository, with any clocks and any ceiling.
THEOREM AnswerIsConnected == Spec => []ChildBeforeParent
<1>1. Init => ChildBeforeParent /\ QueueConnected
  BY DEF Init, ChildBeforeParent, QueueConnected
<1>2. ASSUME TypeInv, ChildBeforeParent, QueueConnected, [Next]_vars
      PROVE  ChildBeforeParent' /\ QueueConnected'
  <2>1. CASE ReadTips
    <3>1. Queued' = repo.tips /\ repo' = repo /\ commits' = commits /\ phase' # "tips"
      BY <1>2, <2>1 DEF ReadTips, Queued, TypeInv, TypeOK, WellFormedRepository
    <3> QED
      BY <1>2, <3>1 DEF ChildBeforeParent, QueueConnected
  <2>2. ASSUME NEW c \in Commits, SkipSeen(c)
        PROVE  ChildBeforeParent' /\ QueueConnected'
    <3>1. Queued' \subseteq Queued /\ UNCHANGED <<repo, phase, commits>>
      BY <1>2, <2>2, PopEffect DEF SkipSeen
    <3> QED
      BY <1>2, <3>1 DEF ChildBeforeParent, QueueConnected
  <2>3. ASSUME NEW c \in Commits, Visit(c)
        PROVE  ChildBeforeParent' /\ QueueConnected'
    BY <1>2, <2>3, VisitConnected, QueueConnectedVisit
  <2>4. CASE ApplyBudget
    <3>1. phase' = "collect"
      BY <2>4 DEF ApplyBudget
    <3> QED
      BY <1>2, <2>4, <3>1, CutConnected DEF QueueConnected
  <2>5. CASE UNCHANGED <<repo, commits>> /\ (UNCHANGED <<phase, queue>> \/ phase' \notin {"tips", "walk"})
    BY <1>2, <2>5 DEF ChildBeforeParent, QueueConnected, Queued
  <2> QED
    BY <1>2, <2>1, <2>2, <2>3, <2>4, <2>5
    DEF Next, vars, ReadTipsFails, VisitFails, QueueDrained, CollectCommit,
        CollectCommitFails, Finish, FailRead
<1> QED
  BY <1>1, <1>2, TypeCorrect, PTL DEF Spec

-----------------------------------------------------------------------------
(* Diffs against first parents cover every tree. *)

\* A blob at a path that is in the report, as text or as a warning.
Covered(b, p) ==
    \/ \E d \in Commits : <<b, p, d>> \in collected
    \/ <<Kind[b], p>> \in warnings

\* What the commits scanned so far changed is covered.
ScannedCovered ==
    /\ repo \in Repositories
    /\ phase = "tips" => commits = <<>>
    /\ phase = "done" => scanned = Len(commits)
    /\ \A i \in 1..scanned : \A p \in ChangedPaths(repo, commits[i]) :
          Covered(repo.tree[commits[i]][p], p)

\* What is covered stays so, and a collected commit is.
LEMMA CollectCovers ==
  ASSUME TypeInv, ScannedCovered, CollectCommit
  PROVE  ScannedCovered'
<1>1. PICK c \in Commits : c = NextToCollect
  BY ElementOfSeq DEF CollectCommit, NextToCollect, TypeInv, TypeOK
<1>2. /\ UNCHANGED <<repo, commits>> /\ phase = "collect" /\ phase' = "collect"
      /\ scanned' = scanned + 1 /\ scanned \in Nat
      /\ collected' = collected \cup TextUnits(c)
      /\ warnings' = warnings \cup MergeNotes(c) \cup SkipNotes(c)
  BY <1>1 DEF CollectCommit, TypeInv, TypeOK
<1>3. ASSUME NEW b, NEW p, Covered(b, p)
      PROVE  Covered(b, p)'
  BY <1>2, <1>3 DEF Covered
<1>4. ASSUME NEW p \in ChangedPaths(repo, c), NEW b, b = repo.tree[c][p]
      PROVE  Covered(b, p)'
  <2>1. CASE Kind[b] = "text"
    <3>1. <<b, p, c>> \in TextUnits(c)
      BY <1>4, <2>1 DEF TextUnits
    <3> QED
      BY <1>2, <3>1 DEF Covered
  <2>2. CASE Kind[b] # "text"
    <3>1. <<Kind[b], p>> \in SkipNotes(c)
      BY <1>4, <2>2 DEF SkipNotes
    <3> QED
      BY <1>2, <3>1 DEF Covered
  <2> QED
    BY <2>1, <2>2
<1>5. ASSUME NEW i \in 1..scanned', NEW p \in ChangedPaths(repo, commits[i])
      PROVE  Covered(repo.tree[commits[i]][p], p)'
  <2>1. i \in 1..scanned \/ commits[i] = c
    BY <1>1, <1>2 DEF NextToCollect
  <2>2. CASE i \in 1..scanned
    <3>1. Covered(repo.tree[commits[i]][p], p)
      BY <2>2 DEF ScannedCovered
    <3> QED
      BY <1>2, <3>1 DEF Covered
  <2>3. CASE commits[i] = c
    <3>1. repo'.tree[commits'[i]][p] = repo.tree[c][p]
      BY <1>2, <2>3
    <3> QED
      BY <1>4, <2>3, <3>1
  <2> QED
    BY <2>1, <2>2, <2>3
<1> QED
  BY <1>2, <1>5 DEF ScannedCovered

\* Every step keeps covered what was scanned.
LEMMA ScannedCoveredNext ==
  ASSUME TypeInv, ScannedCovered, [Next]_vars
  PROVE  ScannedCovered'
<1>1. CASE CollectCommit
  BY <1>1, CollectCovers
<1>2. CASE phase \in {"tips", "walk", "budget"} /\ ~UNCHANGED vars
  <2>1. repo' = repo /\ scanned' = 0 /\ phase' # "tips"
        /\ (phase' = "done" => commits' = <<>>)
    BY <1>2 DEF Next, ReadTips, ReadTipsFails, SkipSeen, Visit, VisitFails, QueueDrained,
       ApplyBudget, CollectCommit, CollectCommitFails, Finish, FailRead, TypeInv,
       ScannedLater, ScannedCovered
  <2> QED
    BY <2>1 DEF ScannedCovered
<1>3. CASE CollectCommitFails \/ Finish \/ UNCHANGED vars
  <2>1. UNCHANGED <<repo, commits, scanned, collected, warnings>>
        /\ (phase' = "done" => phase = "done" \/ scanned = Len(commits))
        /\ (phase' = "tips" => phase = "tips")
    BY <1>3 DEF CollectCommitFails, Finish, FailRead, vars
  <2> QED
    BY <2>1 DEF ScannedCovered, Covered
<1> QED
  BY <1>1, <1>2, <1>3
  DEF Next, ReadTips, ReadTipsFails, SkipSeen, Visit, VisitFails, QueueDrained,
      ApplyBudget

\* Along first parents a blob at a path goes back to a commit that changed it:
\* of the commits that hold an uncovered one, none has its parents outside.
LEMMA FirstParentsCover ==
  ASSUME TypeInv, ScannedCovered
  PROVE  EveryTreeCovered
<1>w. WellFormedRepository(repo) /\ Acyclic(repo)
  BY AcyclicAssumption DEF TypeInv, TypeOK, ScannedCovered
<1> SUFFICES ASSUME phase = "done", Reachable(repo) \subseteq ToSet(commits),
                    NEW p \in ScannedPaths, NEW b, b # NoBlob, ~Covered(b, p)
             PROVE  ~ \E c \in Reachable(repo) : repo.tree[c][p] = b
  BY DEF EveryTreeCovered, Covered
<1> DEFINE S == {c \in Reachable(repo) : repo.tree[c][p] = b}
<1>1. SUFFICES ASSUME S # {} PROVE FALSE
  OBVIOUS
<1>2. S \subseteq Commits
  BY DEF Reachable
<1>3. PICK c \in S : ToSet(repo.parents[c]) \cap S = {}
  BY <1>w, <1>1, <1>2 DEF Acyclic
<1>4. p \notin ChangedPaths(repo, c)
  <2>1. PICK i \in 1..Len(commits) : commits[i] = c
    BY <1>3 DEF ToSet, TypeInv, TypeOK
  <2>2. i \in 1..scanned
    BY <2>1 DEF ScannedCovered
  <2> QED
    BY <1>3, <2>1, <2>2 DEF ScannedCovered
<1>5. BaseTree(repo, c)[p] = b
  BY <1>3, <1>4 DEF ChangedPaths
<1>6. repo.parents[c] # <<>> /\ repo.tree[Head(repo.parents[c])][p] = b
  <2>1. p \in Paths
    BY ObjectsAssumption
  <2> QED
    BY <1>5, <2>1 DEF BaseTree
<1>7. Head(repo.parents[c]) \in ToSet(repo.parents[c])
  BY <1>w, <1>2, <1>3, <1>6 DEF WellFormedRepository, ToSet
<1>8. Head(repo.parents[c]) \in Reachable(repo)
  BY <1>w, <1>3, <1>7, ReachableClosed DEF ParentClosed
<1> QED
  BY <1>3, <1>6, <1>7, <1>8

\* A walk of all reachable commits covers each scanned path of each of their
\* trees, although it compares a commit with its first parent alone.
THEOREM TreesAreCovered == Spec => []EveryTreeCovered
<1>1. Init => ScannedCovered
  BY DEF Init, ScannedCovered
<1> QED
  BY <1>1, ScannedCoveredNext, FirstParentsCover, TypeCorrect, PTL DEF Spec

-----------------------------------------------------------------------------
(* The contract speaks of the same repositories: its instance of CommitGraph *)
(* has the constants of the walk.                                            *)

\* The contract and the walk mean the same reachable commits.
LEMMA SameReachable ==
  ASSUME NEW r
  PROVE  Contract!Reachable(r) = Reachable(r)
BY DEF Contract!Reachable, Reachable, Contract!ParentClosed, ParentClosed,
       Contract!ToSet, ToSet

\* A repository of the walk is one of the contract.
LEMMA SameWellFormed ==
  ASSUME NEW r, WellFormedRepository(r)
  PROVE  Contract!WellFormedRepository(r)
BY DEF Contract!WellFormedRepository, WellFormedRepository, Contract!IsInjective,
       IsInjective, Contract!Tree, Tree

\* The contract and the walk open the same tree entries.
LEMMA SameEntries ==
  ASSUME NEW r, NEW c
  PROVE  Contract!ReadEntries(r, c) = ReadEntries(r, c)
<1>1. Contract!BaseTree(r, c) = BaseTree(r, c)
  BY DEF Contract!BaseTree, BaseTree
<1>2. Contract!ChangedPaths(r, c) = ChangedPaths(r, c)
  BY <1>1 DEF Contract!ChangedPaths, ChangedPaths
<1> QED
  BY <1>2 DEF Contract!ReadEntries, ReadEntries

\* The contract and the walk count alike.
LEMMA SameCardinality ==
  ASSUME NEW S
  PROVE  Contract!Cardinality(S) = Cardinality(S)
BY DEF Contract!Cardinality, Cardinality

-----------------------------------------------------------------------------
(* Whatever the walk reads is something the contract counts on.       *)

\* With a reachable commit missing the history is damaged in the contract's
\* sense.
LEMMA CommitsAreNeeded ==
  ASSUME NEW r, NEW c \in Reachable(r), c \notin r.present
  PROVE  Contract!Damaged(r)
BY SameReachable DEF Contract!Damaged, Contract!NeededObjects

\* So it is with an entry missing that a reachable commit changed.
LEMMA EntriesAreNeeded ==
  ASSUME NEW r, NEW c \in Reachable(r), ~(ReadEntries(r, c) \subseteq r.present)
  PROVE  Contract!Damaged(r)
BY SameReachable, SameEntries DEF Contract!Damaged, Contract!NeededObjects

\* And so with the tree of a reachable commit that cannot be read.
LEMMA TreesAreNeeded ==
  ASSUME NEW r, NEW c \in Reachable(r), c \notin r.trees
  PROVE  Contract!Damaged(r)
BY SameReachable DEF Contract!Damaged

\* When collect_history returns an error, something it needs is missing or
\* damaged.
LEMMA FailureHasCause ==
  ASSUME WalkInv, Next, phase' = "failed"
  PROVE  Contract!Damaged(repo) /\ phase # "failed" /\ phase # "done"
<1>w. WellFormedRepository(repo)
  BY DEF WalkInv, TypeInv, TypeOK
<1>1. CASE ReadTipsFails
  <2>1. repo.tips \subseteq Reachable(repo)
    BY <1>w, ReachableClosed
  <2> QED
    BY <1>1, <2>1, CommitsAreNeeded DEF ReadTipsFails, TipsReadable, Contract!Damaged
<1>2. ASSUME NEW c \in Commits, VisitFails(c)
      PROVE  Contract!Damaged(repo) /\ phase = "walk"
  <2>1. c \in Reachable(repo)
    BY <1>2 DEF VisitFails, IsFirst, WalkInv, Traced
  <2>2. FreshParents(c) \subseteq Reachable(repo)
    BY <1>w, <2>1, ReachableClosed DEF FreshParents, ParentClosed
  <2> QED
    BY <1>2, <2>2, CommitsAreNeeded DEF VisitFails
<1>3. CASE CollectCommitFails
  <2> DEFINE c == NextToCollect
  <2>1. c \in ToSet(commits) /\ c \in Commits
    BY <1>3, ElementOfSeq
    DEF CollectCommitFails, NextToCollect, ToSet, WalkInv, TypeInv, TypeOK
  <2>2. c \in Reachable(repo)
    BY <2>1 DEF WalkInv, TypeInv, CommitsSeen, Traced
  <2>3. CASE ~(ReadEntries(repo, c) \subseteq repo.present)
    BY <1>3, <2>2, <2>3, EntriesAreNeeded DEF CollectCommitFails
  <2>4. CASE repo.parents[c] # <<>> /\ Head(repo.parents[c]) \notin repo.present \cap repo.trees
    <3>1. repo.parents[c] \in Seq(Commits)
      BY <1>w, <2>1 DEF WellFormedRepository
    <3>2. Head(repo.parents[c]) \in ToSet(repo.parents[c])
      BY <2>4, <3>1 DEF ToSet
    <3>3. Head(repo.parents[c]) \in Reachable(repo)
      BY <1>w, <2>2, <3>2, ReachableClosed DEF ParentClosed
    <3> QED
      BY <1>3, <2>4, <3>3, CommitsAreNeeded, TreesAreNeeded DEF CollectCommitFails
  <2>5. CASE c \notin repo.trees
    BY <1>3, <2>2, <2>5, TreesAreNeeded DEF CollectCommitFails
  <2> QED
    BY <1>3, <2>3, <2>4, <2>5 DEF CollectCommitFails, Readable
<1> QED
  BY <1>1, <1>2, <1>3
  DEF Next, ReadTips, SkipSeen, Visit, QueueDrained, ApplyBudget, CollectCommit, Finish

-----------------------------------------------------------------------------
(* Refinement of WalkPromise. *)

\* The walk starts where the contract starts.
LEMMA PromiseInitMapped == Init => Contract!PromiseInit
<1> SUFFICES ASSUME Init PROVE Contract!PromiseInit
  OBVIOUS
<1>1. WellFormedRepository(repo) /\ maxCommits \in Nat \cup {NoCap}
  BY RepositoriesAssumption, CeilingsAssumption DEF Init
<1>2. Outcome = "running" /\ AnsweredCommits = {} /\ AnsweredWarned = FALSE
  BY DEF Init, Outcome, AnsweredCommits, AnsweredWarned
<1> QED
  BY <1>1, <1>2, SameWellFormed DEF Contract!PromiseInit

\* Entering "done" is the contract's Answer.
LEMMA AnswerMapped ==
  ASSUME WalkInv', phase \notin {"done", "failed"}, phase' = "done",
         UNCHANGED <<repo, maxCommits>>
  PROVE  Contract!Answer
<1>1. /\ Outcome = "running" /\ Outcome' = "answered"
      /\ AnsweredCommits' = ToSet(commits')
      /\ AnsweredWarned' = (BudgetHit \in warnings')
  BY DEF Outcome, AnsweredCommits, AnsweredWarned, BudgetHit
<1>2. /\ commits' \in Seq(Commits) /\ IsInjective(commits')
      /\ ToSet(commits') \subseteq Reachable(repo)
  BY DEF WalkInv, TypeInv, TypeOK, CommitsSeen, Traced
<1>3. Cardinality(ToSet(commits')) = Len(commits')
  BY <1>2, InjectiveCardinality
<1>4. /\ BudgetHit \in warnings' <=> ToSet(commits') # Reachable(repo)
      /\ maxCommits # NoCap => Len(commits') <= maxCommits
      /\ BudgetHit \in warnings' => maxCommits # NoCap /\ Len(commits') = maxCommits
  BY DEF WalkInv, Settled, BudgetHit
<1>5. /\ Contract!Reachable(repo) = Reachable(repo)
      /\ Contract!Cardinality(AnsweredCommits') = Len(commits')
  BY <1>1, <1>3, SameReachable, SameCardinality
<1>6. AnsweredCommits' \in SUBSET Contract!Reachable(repo)
  BY <1>1, <1>2, <1>5
<1>7. AnsweredWarned' = (AnsweredCommits' # Contract!Reachable(repo))
  BY <1>1, <1>4, <1>5
<1>8. /\ maxCommits # NoCap => Contract!Cardinality(AnsweredCommits') <= maxCommits
      /\ AnsweredWarned' =>
            maxCommits # NoCap /\ Contract!Cardinality(AnsweredCommits') = maxCommits
  BY <1>1, <1>4, <1>5
<1> QED
  BY <1>1, <1>6, <1>7, <1>8 DEF Contract!Answer

\* Every step is an answer, a failure with a cause, or invisible.
LEMMA StepMapped ==
  WalkInv /\ WalkInv' /\ [Next]_vars => [Contract!PromiseNext]_Contract!promiseVars
<1> SUFFICES ASSUME WalkInv, WalkInv', [Next]_vars
             PROVE  [Contract!PromiseNext]_Contract!promiseVars
  OBVIOUS
<1>r. repo' = repo /\ maxCommits' = maxCommits
  BY DEF Next, vars, ReadTips, ReadTipsFails, SkipSeen, Visit, VisitFails,
         QueueDrained, ApplyBudget, CollectCommit, CollectCommitFails, Finish, FailRead
<1>1. CASE UNCHANGED vars
  BY <1>1 DEF vars, Contract!promiseVars, Outcome, AnsweredCommits, AnsweredWarned, BudgetHit
<1>2. CASE Next /\ phase' = "failed"
  <2>1. Contract!Damaged(repo) /\ phase \notin {"done", "failed"}
    BY <1>2, FailureHasCause
  <2>2. /\ Outcome = "running" /\ Outcome' = "failed"
        /\ UNCHANGED <<AnsweredCommits, AnsweredWarned>>
    BY <1>2, <2>1 DEF Outcome, AnsweredCommits, AnsweredWarned
  <2>3. Contract!Fail
    BY <1>r, <2>1, <2>2 DEF Contract!Fail
  <2> QED
    BY <2>3 DEF Contract!PromiseNext
<1>3. CASE Next /\ phase' = "done"
  <2>1. phase \notin {"done", "failed"}
    BY <1>3 DEF Next, ReadTips, ReadTipsFails, SkipSeen, Visit, VisitFails,
         QueueDrained, ApplyBudget, CollectCommit, CollectCommitFails, Finish, FailRead
  <2> QED
    BY <1>r, <1>3, <2>1, AnswerMapped DEF Contract!PromiseNext
<1>4. CASE Next /\ phase' \notin {"done", "failed"}
  <2>1. phase \notin {"done", "failed"}
    BY <1>4 DEF Next, ReadTips, ReadTipsFails, SkipSeen, Visit, VisitFails,
         QueueDrained, ApplyBudget, CollectCommit, CollectCommitFails, Finish, FailRead
  <2>2. UNCHANGED <<Outcome, AnsweredCommits, AnsweredWarned>>
    BY <1>4, <2>1 DEF Outcome, AnsweredCommits, AnsweredWarned
  <2> QED
    BY <1>r, <2>2 DEF Contract!promiseVars
<1> QED
  BY <1>1, <1>2, <1>3, <1>4

\* The walk implements the contract for every repository and every ceiling
\* below the top of usize.
THEOREM WalkKeepsContract ==
  ASSUME NoOverflow
  PROVE  Spec => ContractKept
<1>1. Spec => []WalkInv
  BY WalkIsSettled
<1> QED
  BY <1>1, PromiseInitMapped, StepMapped, PTL DEF Spec, ContractKept, Contract!Promise

-----------------------------------------------------------------------------
(* The budget keeps the newest commits. *)

\* The visits go back in time, and whatever waits or is still to be found is
\* no newer than any visit so far.
VisitsDescend ==
    \A i, j \in DOMAIN commits : i < j => repo.time[commits[j]] <= repo.time[commits[i]]

NoNewer(S, T) == \A d \in S : \A c \in T : repo.time[d] <= repo.time[c]

NewestInv ==
    ClocksAgree(repo) =>
        /\ phase \in {"walk", "budget"} => VisitsDescend
        /\ phase = "walk" => NoNewer(Queued, seen)
        /\ phase = "budget" => NoNewer(Reachable(repo) \ seen, seen)
        /\ phase \in {"collect", "done"} =>
              NoNewer(Reachable(repo) \ ToSet(commits), ToSet(commits))

\* A visit is no newer than earlier ones and no older than what is queued.
LEMMA VisitIsNewestQueued ==
  ASSUME WalkInv, NewestInv, ClocksAgree(repo), NEW c \in Commits, Visit(c)
  PROVE  /\ NoNewer(Queued, {c})
         /\ NoNewer({c}, seen)
         /\ VisitsDescend'
<1>1. /\ repo.time \in [Commits -> Int] /\ commits \in Seq(Commits)
      /\ phase = "walk" /\ seen = ToSet(commits) /\ c \in Queued /\ IsFirst(c)
      /\ commits' = Append(commits, c) /\ repo' = repo
  BY DEF Visit, IsFirst, WalkInv, TypeInv, TypeOK, WellFormedRepository, Frontier
<1>2. NoNewer(Queued, {c})
  BY <1>1 DEF IsFirst, Queued, NoNewer
<1>3. NoNewer({c}, seen) /\ VisitsDescend
  BY <1>1 DEF NewestInv, NoNewer
<1>4. /\ Len(commits) \in Nat /\ DOMAIN commits = 1..Len(commits)
      /\ DOMAIN commits' = 1..(Len(commits) + 1)
      /\ \A i \in 1..Len(commits) : commits'[i] = commits[i]
      /\ commits'[Len(commits) + 1] = c
  BY <1>1, AppendProperties
<1>5. \A i \in 1..Len(commits) : repo.time[c] <= repo.time[commits[i]]
  BY <1>1, <1>3, <1>4 DEF NoNewer, ToSet
<1>6. ASSUME NEW i \in DOMAIN commits', NEW j \in DOMAIN commits', i < j
      PROVE  repo.time[commits'[j]] <= repo.time[commits'[i]]
  <2>1. i \in 1..Len(commits)
    BY <1>4, <1>6
  <2>2. CASE j = Len(commits) + 1
    BY <1>4, <1>5, <2>1, <2>2
  <2>3. CASE j \in 1..Len(commits)
    BY <1>3, <1>4, <1>6, <2>1, <2>3 DEF VisitsDescend
  <2> QED
    BY <1>4, <2>2, <2>3
<1> QED
  BY <1>1, <1>2, <1>3, <1>6 DEF VisitsDescend

\* When the limit ends the walk, nothing newer than the visits was missed.
LEMMA NothingNewerMissed ==
  ASSUME WalkInv, NewestInv, ClocksAgree(repo), NEW c \in Commits, Visit(c)
  PROVE  NoNewer(Reachable(repo) \ (seen \cup {c}), seen \cup {c})
<1> DEFINE S == seen \cup {x \in Commits : repo.time[x] <= repo.time[c]}
<1>1. /\ repo.time \in [Commits -> Int] /\ seen \subseteq Commits
      /\ repo.parents \in [Commits -> Seq(Commits)] /\ phase = "walk"
  BY DEF Visit, WalkInv, TypeInv, TypeOK, WellFormedRepository
<1>2. NoNewer(Queued, {c}) /\ NoNewer({c}, seen)
  BY VisitIsNewestQueued
<1>3. seen \cup Queued \subseteq S
  BY <1>2 DEF NoNewer, Queued
<1>4. repo.tips \subseteq S
  BY <1>1, <1>3 DEF WalkInv, Frontier
<1>5. ParentClosed(repo, S)
  <2>1. ASSUME NEW x \in S, NEW p \in ToSet(repo.parents[x]) PROVE p \in S
    <3>1. p \in Commits
      BY <1>1 DEF ToSet
    <3>2. CASE x \in seen
      BY <1>1, <1>3, <3>2 DEF WalkInv, Frontier
    <3>3. CASE x \in Commits /\ repo.time[x] <= repo.time[c]
      <4>1. repo.time[p] <= repo.time[x]
        BY <3>3 DEF ClocksAgree
      <4> QED
        BY <1>1, <3>1, <3>3, <4>1
    <3> QED
      BY <3>2, <3>3
  <2> QED
    BY <2>1 DEF ParentClosed
<1>6. Reachable(repo) \subseteq S
  BY <1>1, <1>4, <1>5, ReachableLeast
<1>7. ASSUME NEW d \in Reachable(repo) \ (seen \cup {c}), NEW e \in seen \cup {c}
      PROVE  repo.time[d] <= repo.time[e]
  <2>1. d \in Commits /\ repo.time[d] <= repo.time[c]
    BY <1>6
  <2>2. repo.time[c] <= repo.time[e] /\ e \in Commits
    BY <1>1, <1>2 DEF NoNewer
  <2> QED
    BY <1>1, <2>1, <2>2
<1> QED
  BY <1>7 DEF NoNewer

\* Cutting the last visit off keeps the newest ones.
LEMMA CutKeepsNewest ==
  ASSUME WalkInv, NewestInv, ClocksAgree(repo), ApplyBudget
  PROVE  NoNewer(Reachable(repo) \ ToSet(commits'), ToSet(commits'))
<1>1. /\ repo.time \in [Commits -> Int] /\ commits \in Seq(Commits) /\ IsInjective(commits)
      /\ phase = "budget" /\ seen = ToSet(commits) /\ VisitsDescend
      /\ NoNewer(Reachable(repo) \ seen, seen)
  BY DEF ApplyBudget, WalkInv, TypeInv, TypeOK, WellFormedRepository, Stopped, NewestInv
<1>2. CASE ~(maxCommits # NoCap /\ Len(commits) > maxCommits)
  BY <1>1, <1>2 DEF ApplyBudget
<1>3. CASE maxCommits # NoCap /\ Len(commits) > maxCommits
  <2>1. maxCommits \in Nat
    BY <1>3, CeilingsAssumption DEF WalkInv, TypeInv, TypeOK
  <2>2. Len(commits) = maxCommits + 1
    BY <1>1, <1>3, <2>1 DEF WalkInv, Stopped
  <2>3. commits' = SubSeq(commits, 1, maxCommits)
    BY <1>3 DEF ApplyBudget, KeepFirst
  <2>4. /\ DOMAIN commits = 1..(maxCommits + 1)
        /\ DOMAIN commits' = 1..maxCommits
        /\ \A i \in 1..maxCommits : commits'[i] = commits[i]
    <3>1. \A i \in 1..maxCommits : commits[i] \in Commits
      BY <1>1, <2>1, <2>2, ElementOfSeq
    <3>2. /\ commits' \in Seq(Commits)
          /\ Len(commits') = IF 1 <= maxCommits THEN maxCommits - 1 + 1 ELSE 0
          /\ \A i \in 1..(maxCommits - 1 + 1) : commits'[i] = commits[1 + i - 1]
      BY <2>1, <2>3, <3>1, SubSeqProperties
    <3> QED
      BY <1>1, <2>1, <2>2, <3>2
  <2>5. ToSet(commits) = ToSet(commits') \cup {commits[maxCommits + 1]}
    BY <2>1, <2>4 DEF ToSet
  <2>6. \A e \in ToSet(commits') : repo.time[commits[maxCommits + 1]] <= repo.time[e]
    BY <1>1, <2>1, <2>4 DEF VisitsDescend, ToSet
  <2> QED
    BY <1>1, <2>5, <2>6 DEF NoNewer
<1> QED
  BY <1>2, <1>3

\* Every step of the walk keeps the newest commits ahead of the rest.
LEMMA NewestInvStep ==
  WalkInv /\ WalkInv' /\ NewestInv /\ [Next]_vars => NewestInv'
<1> SUFFICES ASSUME WalkInv, WalkInv', NewestInv, [Next]_vars
             PROVE  NewestInv'
  OBVIOUS
<1>r. repo' = repo
  BY DEF Next, vars, ReadTips, ReadTipsFails, SkipSeen, Visit, VisitFails,
         QueueDrained, ApplyBudget, CollectCommit, CollectCommitFails, Finish, FailRead
<1> SUFFICES ASSUME ClocksAgree(repo)
             PROVE  NewestInv'
  BY <1>r DEF NewestInv
<1>1. CASE ReadTips
  <2>1. seen' = {} /\ commits' = <<>> /\ phase' \in {"walk", "done"}
    BY <1>1 DEF ReadTips, WalkInv, Unsettled
  <2>2. ToSet(commits') = {} /\ VisitsDescend'
    BY <2>1 DEF ToSet, VisitsDescend
  <2> QED
    BY <2>1, <2>2 DEF NewestInv, NoNewer
<1>2. ASSUME NEW c \in Commits, SkipSeen(c) PROVE NewestInv'
  <2>1. /\ Queued' \subseteq Queued /\ phase = "walk"
        /\ UNCHANGED <<repo, phase, seen, commits>>
    BY <1>2, PopEffect DEF SkipSeen, WalkInv
  <2> QED
    BY <2>1 DEF NewestInv, NoNewer, VisitsDescend
<1>3. ASSUME NEW c \in Commits, Visit(c) PROVE NewestInv'
  <2>1. /\ phase = "walk" /\ IsFirst(c) /\ seen' = seen \cup {c} /\ repo' = repo
        /\ phase' \in {"walk", "budget"}
        /\ repo.time \in [Commits -> Int] /\ seen \subseteq Commits
        /\ WellFormedRepository(repo)
    BY <1>3 DEF Visit, WalkInv, TypeInv, TypeOK, WellFormedRepository
  <2>2. NoNewer(Queued, {c}) /\ NoNewer({c}, seen) /\ VisitsDescend'
    BY <1>3, VisitIsNewestQueued
  <2>3. CASE phase' = "budget"
    BY <1>3, <2>1, <2>2, <2>3, NothingNewerMissed DEF NewestInv, NoNewer
  <2>4. CASE phase' = "walk"
    <3>1. Requeue(c)
      BY <1>3, <2>4 DEF Visit
    <3>2. Queued' \subseteq Queued \cup FreshParents(c)
      BY <2>1, <3>1, RequeueEffect DEF WalkInv
    <3>3. NoNewer(FreshParents(c), {c}) /\ FreshParents(c) \subseteq Commits
      <4>1. FreshParents(c) \subseteq ToSet(repo.parents[c])
        BY DEF FreshParents
      <4>2. ToSet(repo.parents[c]) \subseteq Commits
        BY <2>1 DEF WellFormedRepository, ToSet
      <4> QED
        BY <4>1, <4>2 DEF NoNewer, ClocksAgree
    <3>4. NoNewer(Queued', seen')
      BY <2>1, <2>2, <3>2, <3>3 DEF NoNewer, Queued
    <3> QED
      BY <2>1, <2>2, <2>4, <3>4 DEF NewestInv, NoNewer
  <2> QED
    BY <2>1, <2>3, <2>4
<1>4. CASE QueueDrained
  <2>1. /\ UNCHANGED <<repo, seen, commits>> /\ phase' = "budget" /\ phase = "walk"
        /\ Queued = {}
    BY <1>4 DEF QueueDrained
  <2>2. Reachable(repo) \subseteq seen
    <3>1. /\ seen \subseteq Commits /\ repo.tips \subseteq seen
          /\ ParentClosed(repo, seen)
      BY <2>1 DEF WalkInv, TypeInv, TypeOK, Frontier, ParentClosed
    <3> QED
      BY <3>1, ReachableLeast
  <2> QED
    BY <2>1, <2>2 DEF NewestInv, NoNewer, VisitsDescend
<1>5. CASE ApplyBudget
  <2>1. repo' = repo /\ phase' = "collect"
    BY <1>5 DEF ApplyBudget
  <2> QED
    BY <1>5, <2>1, CutKeepsNewest DEF NewestInv, NoNewer
<1>6. CASE phase' = "failed" \/ CollectCommit \/ Finish
  <2>1. \/ phase' = "failed"
        \/ /\ phase = "collect" /\ phase' \in {"collect", "done"}
           /\ UNCHANGED <<repo, commits>>
    BY <1>6 DEF CollectCommit, Finish
  <2> QED
    BY <2>1 DEF NewestInv, NoNewer
<1>7. CASE UNCHANGED vars
  BY <1>7 DEF vars, NewestInv, NoNewer, VisitsDescend, Queued
<1> QED
  BY <1>1, <1>2, <1>3, <1>4, <1>5, <1>6, <1>7
  DEF Next, ReadTipsFails, VisitFails, CollectCommitFails, FailRead

\* Under agreeing clocks a budgeted walk answers with the newest commits.
THEOREM WalkKeepsNewest ==
  ASSUME NoOverflow
  PROVE  Spec => []NewestKept
<1>1. Init => NewestInv
  BY DEF Init, NewestInv
<1>2. NewestInv => NewestKept
  BY DEF NewestInv, NewestKept, NoNewer
<1>3. Spec => []WalkInv
  BY WalkIsSettled
<1> QED
  BY <1>1, <1>2, <1>3, NewestInvStep, PTL DEF Spec

-----------------------------------------------------------------------------
(***************************************************************************)
(* The walk is never stuck, and each step brings it nearer to its end: the *)
(* two halves of its termination that are not about fairness.              *)
(***************************************************************************)

\* Sorting puts c before d.
Before(c, d) ==
    \/ repo.time[d] < repo.time[c]
    \/ repo.time[d] = repo.time[c] /\ d <= c

\* The queued candidates that come no later than c.
Ahead(c) == {d \in Queued : Before(d, c)}

\* A queue that is not empty has a first candidate: of the sets Ahead(c) one is
\* least, and contains c alone.
LEMMA SomeIsFirst ==
  ASSUME TypeOK, Queued # {}
  PROVE  \E c \in Commits : IsFirst(c)
<1> DEFINE Sets == {Ahead(c) : c \in Queued}
<1>t. /\ Queued \subseteq Commits /\ Commits \subseteq Int
      /\ \A c \in Queued : repo.time[c] \in Int
  BY ObjectsAssumption DEF TypeOK, WellFormedRepository, Queued
<1>1. Sets \subseteq FiniteSubsetsOf(Queued)
  <2>1. \A c \in Queued : Ahead(c) \subseteq Queued
    BY DEF Ahead
  <2>2. IsFiniteSet(Queued)
    BY <1>t, FiniteAssumption, FS_Subset
  <2>3. \A T \in SUBSET Queued : T \in FiniteSubsetsOf(Queued)
    BY <2>2, FS_FiniteSubsetsOfFinite
  <2> QED
    BY <2>1, <2>3
<1>2. Sets # {}
  OBVIOUS
<1>3. PICK T \in Sets : \A U \in Sets : ~(<<U, T>> \in StrictSubsetOrdering(Queued))
  <2> HIDE DEF Sets
  <2> QED
    BY <1>1, <1>2, FS_StrictSubsetOrderingWellFounded, WFMin, Zenon
<1>4. PICK c \in Queued : T = Ahead(c)
  BY <1>3
<1>5. ASSUME NEW d \in Queued, ~Before(c, d)
      PROVE  FALSE
  <2>1. Before(d, c) /\ d # c
    BY <1>t, <1>5 DEF Before
  <2>2. Ahead(d) \subseteq Ahead(c)
    <3> SUFFICES ASSUME NEW b \in Queued, Before(b, d)
                 PROVE  Before(b, c)
      BY DEF Ahead
    <3>1. /\ b \in Int /\ c \in Int /\ d \in Int
          /\ repo.time[b] \in Int /\ repo.time[c] \in Int /\ repo.time[d] \in Int
      BY <1>t
    <3> QED
      BY <2>1, <3>1 DEF Before
  <2>3. c \in Ahead(c) /\ c \notin Ahead(d)
    BY <1>t, <1>5 DEF Ahead, Before
  <2>4. <<Ahead(d), Ahead(c)>> \in StrictSubsetOrdering(Queued)
    <3>1. Ahead(d) \subseteq Queued /\ Ahead(c) \subseteq Queued
      BY DEF Ahead
    <3> QED
      BY <2>2, <2>3, <3>1, Zenon DEF StrictSubsetOrdering
  <2> QED
    BY <1>3, <1>4, <2>4
<1> QED
  BY <1>t, <1>5 DEF IsFirst, Before

\* Where no loop runs some guard holds, for a read either succeeds or fails. In
\* the loops over the queue and over the list it takes this.
CanProceed ==
    /\ phase = "walk" => Queued = {} \/ \E c \in Commits : IsFirst(c)
    /\ phase = "collect" => scanned <= Len(commits)

\* Until it returns, the walk has a candidate to take, or none is left; and it
\* never counts past the list that it collects from.
THEOREM WalkIsNeverStuck == Spec => []CanProceed
<1>1. TypeInv => CanProceed
  BY SomeIsFirst DEF TypeInv, TypeOK, CanProceed
<1> QED
  BY <1>1, TypeCorrect, PTL

\* The order in which the walk runs through its phases.
Rank == [p \in Phases |->
            CASE p = "tips" -> 0 [] p = "walk" -> 1 [] p = "budget" -> 2
              [] p = "collect" -> 3 [] OTHER -> 4]

\* What a step gets done: the next phase; or one more of the finitely many
\* commits is visited; or one occurrence of a visited one leaves the queue and
\* none enters; or one more commit of the list is collected.
Advances ==
    \/ Rank[phase] < Rank[phase']
    \/ /\ phase' = phase
       /\ seen \subseteq seen' /\ seen' # seen
    \/ /\ UNCHANGED <<phase, seen>>
       /\ \A c \in Commits : queue'[c] <= queue[c]
       /\ \E c \in Commits : queue'[c] < queue[c]
    \/ /\ UNCHANGED <<phase, seen, queue, commits>>
       /\ scanned < scanned' /\ scanned' <= Len(commits)

LEMMA StepAdvances ==
  ASSUME TypeOK, Next
  PROVE  Advances
<1> USE DEF Advances, Rank, Phases
<1>1. ASSUME ReadTips \/ ReadTipsFails \/ QueueDrained \/ ApplyBudget
                \/ CollectCommitFails \/ Finish
      PROVE  Advances
  <2>1. Rank[phase] < Rank[phase']
    BY <1>1 DEF ReadTips, ReadTipsFails, QueueDrained, ApplyBudget, CollectCommitFails,
                Finish, FailRead
  <2> QED
    BY <2>1
<1>2. ASSUME NEW c \in Commits, SkipSeen(c)
      PROVE  Advances
  <2>1. queue \in [Commits -> Nat] /\ queue' = [queue EXCEPT ![c] = @ - 1]
    BY <1>2 DEF SkipSeen, Popped, TypeOK
  <2>2. (\A d \in Commits : queue'[d] <= queue[d]) /\ queue'[c] < queue[c]
    BY <2>1
  <2> QED
    BY <1>2, <2>2 DEF SkipSeen
<1>3. ASSUME NEW c \in Commits, Visit(c)
      PROVE  Advances
  <2>1. seen \subseteq seen' /\ seen' # seen
    BY <1>3 DEF Visit, AlreadySeen
  <2>2. CASE LimitReached(Len(commits) + 1)
    BY <1>3, <2>2 DEF Visit
  <2>3. CASE ~LimitReached(Len(commits) + 1)
    BY <1>3, <2>1, <2>3 DEF Visit
  <2> QED
    BY <2>2, <2>3
<1>4. ASSUME NEW c \in Commits, VisitFails(c)
      PROVE  Advances
  BY <1>4 DEF VisitFails, FailRead
<1>5. CASE CollectCommit
  BY <1>5 DEF CollectCommit, TypeOK
<1> QED
  BY <1>1, <1>2, <1>3, <1>4, <1>5 DEF Next

\* Each step of a walk advances it by a well-founded measure: the phase, the
\* commits not visited, the occurrences in the queue, the list not collected.
THEOREM WalkAdvances == Spec => [][Advances]_vars
<1>1. TypeOK /\ [Next]_vars => [Advances]_vars
  BY StepAdvances
<1> QED
  BY <1>1, TypeSafe, PTL DEF Spec
=============================================================================
