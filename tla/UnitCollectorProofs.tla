------------------------ MODULE UnitCollectorProofs ------------------------
(***************************************************************************)
(* For every repository, ignore policy and sequence of edits: the units    *)
(* are canonical and hold exactly what was read, a file is read once, and  *)
(* what stays in view is found.                                            *)
(***************************************************************************)
EXTENDS UnitCollector, FiniteSetTheorems, TLAPS

-----------------------------------------------------------------------------
(* The collector's operators. *)

\* A location as normalize_provenances leaves it.
Sorted(l) == l \in Locations /\ \A n \in l.additional : l.primary < n

\* The locations of one unit.
SortedSet(ls) ==
    /\ \A l \in ls : Sorted(l)
    /\ \A l, m \in ls : l.path = m.path => l = m

\* The units of a collector.
Canonical(us) ==
    /\ us \subseteq [content : Contents, locations : SUBSET Locations]
    /\ \A u, v \in us : u.content = v.content => u = v
    /\ \A u \in us : SortedSet(u.locations)

\* The locations ls name provenance n for path p.
Names(ls, p, n) == \E l \in ls : l.path = p /\ n \in Sources(l)

\* The units us name provenance n for content c at path p.
Holds(us, c, p, n) == \E u \in us : u.content = c /\ Names(u.locations, p, n)

\* Provenances are compared as numbers.
LEMMA ProvenancesAreNumbers ==
  Provenances \subseteq Nat /\ CommitIds \subseteq Provenances /\ 0 \notin CommitIds
BY CollectorAssumption DEF Provenances, WorkingTree

\* A location is normalized already once its provenances are in order.
LEMMA NormalizedSorted ==
  ASSUME NEW l, Sorted(l)
  PROVE  Normalized(l) = l
<1>1. /\ l \in Locations
      /\ l.primary \in Nat /\ Sources(l) \subseteq Nat
  BY ProvenancesAreNumbers DEF Sorted, Locations, Provenances, Sources
<1>2. /\ \A n \in Sources(l) : l.primary <= n
      /\ l.primary \in Sources(l) /\ l.primary \notin l.additional
  BY <1>1 DEF Sorted, Sources
<1>3. Min(Sources(l)) = l.primary
  BY <1>1, <1>2 DEF Min
<1>4. Sources(l) \ {l.primary} = l.additional
  BY <1>2 DEF Sources
<1> QED
  BY <1>1, <1>3, <1>4 DEF Normalized, Locations

\* A location that gains a provenance keeps its path and its sources, in order.
LEMMA NormalizedAdds ==
  ASSUME NEW l, Sorted(l), NEW n \in Provenances
  PROVE  LET k == Normalized([l EXCEPT !.additional = @ \cup {n}])
         IN  Sorted(k) /\ k.path = l.path /\ Sources(k) = Sources(l) \cup {n}
<1> DEFINE j == [l EXCEPT !.additional = @ \cup {n}]
           S == Sources(l) \cup {n}
           k == Normalized(j)
<1>1. /\ l \in Locations
      /\ j = [path |-> l.path, primary |-> l.primary,
              additional |-> l.additional \cup {n}]
      /\ Sources(j) = S
  BY DEF Sorted, Locations, Sources
<1>2. /\ S \subseteq Provenances /\ S \subseteq Nat /\ n \in Nat
      /\ l.primary \in S
      /\ \A m \in Sources(l) : l.primary <= m
  BY <1>1, CollectorAssumption
  DEF Sorted, Locations, Provenances, WorkingTree, Sources
<1>3. PICK x \in S : \A y \in S : x <= y
  <2>1. CASE n < l.primary
    BY <1>2, <2>1
  <2>2. CASE l.primary <= n
    BY <1>2, <2>2
  <2> QED
    BY <1>2, <2>1, <2>2
<1> DEFINE first == Min(S)
<1>4. first \in S /\ \A y \in S : first <= y
  BY <1>3 DEF Min
<1>5. k = [path |-> l.path, primary |-> first, additional |-> S \ {first}]
  <2>1. Normalized(j) = [j EXCEPT !.primary = first, !.additional = S \ {first}]
    BY <1>1 DEF Normalized
  <2> HIDE DEF first, S
  <2> QED
    BY <1>1, <2>1
<1> HIDE DEF first, k, j
<1>6. \A m \in S \ {first} : m \in Nat /\ first < m /\ m \in CommitIds
  BY <1>2, <1>4, CollectorAssumption DEF Provenances, WorkingTree
<1>7. Sorted(k)
  BY <1>1, <1>2, <1>4, <1>5, <1>6 DEF Sorted, Locations
<1>8. k.path = l.path /\ Sources(k) = S
  BY <1>4, <1>5 DEF Sources
<1> QED
  BY <1>7, <1>8 DEF k, j

\* merge_unit_location adds one provenance of one path and changes no other.
LEMMA MergedAdds ==
  ASSUME NEW ls, SortedSet(ls), NEW p \in Paths, NEW n \in Provenances
  PROVE  /\ SortedSet(Merged(ls, p, n))
         /\ \A q, m : Names(Merged(ls, p, n), q, m)
                        <=> Names(ls, q, m) \/ (q = p /\ m = n)
<1> DEFINE Added(l) == Normalized([l EXCEPT !.additional = @ \cup {n}])
<1>1. \A l \in ls : Sorted(Added(l)) /\ Added(l).path = l.path
                      /\ Sources(Added(l)) = Sources(l) \cup {n}
  BY NormalizedAdds DEF SortedSet
<1>2. CASE \E l \in ls : l.path = p
  <2> DEFINE f(l) == IF l.path = p THEN Added(l) ELSE l
  <2>1. Merged(ls, p, n) = {f(l) : l \in ls}
    BY <1>2 DEF Merged
  <2>2. \A l \in ls : /\ Sorted(f(l)) /\ f(l).path = l.path
                      /\ Sources(f(l)) = IF l.path = p THEN Sources(l) \cup {n}
                                                       ELSE Sources(l)
    BY <1>1 DEF SortedSet
  <2> HIDE DEF f
  <2>3. SortedSet(Merged(ls, p, n))
    BY <2>1, <2>2 DEF SortedSet
  <2>4. ASSUME NEW q, NEW m
        PROVE  Names(Merged(ls, p, n), q, m) <=> Names(ls, q, m) \/ (q = p /\ m = n)
    BY <1>2, <2>1, <2>2 DEF Names
  <2> QED
    BY <2>3, <2>4
<1>3. CASE ~\E l \in ls : l.path = p
  <2>1. Merged(ls, p, n) = ls \cup {Location(p, n)}
    BY <1>3 DEF Merged
  <2>2. /\ Sorted(Location(p, n)) /\ Location(p, n).path = p
        /\ Sources(Location(p, n)) = {n}
    BY DEF Sorted, Location, Locations, Sources
  <2>3. SortedSet(Merged(ls, p, n))
    BY <1>3, <2>1, <2>2 DEF SortedSet
  <2>4. ASSUME NEW q, NEW m
        PROVE  Names(Merged(ls, p, n), q, m) <=> Names(ls, q, m) \/ (q = p /\ m = n)
    BY <2>1, <2>2 DEF Names
  <2> QED
    BY <2>3, <2>4
<1> QED
  BY <1>2, <1>3

\* UnitCollector::push records one reading and changes nothing else.
LEMMA PushedAdds ==
  ASSUME Canonical(units),
         NEW c \in Contents, NEW p \in Paths, NEW n \in Provenances
  PROVE  /\ Canonical(Pushed(c, p, n))
         /\ \A d, q, m : Holds(Pushed(c, p, n), d, q, m)
                           <=> Holds(units, d, q, m) \/ (d = c /\ q = p /\ m = n)
<1>1. CASE \E u \in units : u.content = c
  <2> DEFINE f(u) == IF u.content = c
                       THEN [u EXCEPT !.locations = Merged(@, p, n)] ELSE u
  <2>1. Pushed(c, p, n) = {f(u) : u \in units}
    BY <1>1 DEF Pushed
  <2>2. ASSUME NEW u \in units
        PROVE  /\ f(u) \in [content : Contents, locations : SUBSET Locations]
               /\ f(u).content = u.content
               /\ SortedSet(f(u).locations)
               /\ \A q, m : Names(f(u).locations, q, m)
                    <=> Names(u.locations, q, m) \/ (u.content = c /\ q = p /\ m = n)
    <3>1. /\ u \in [content : Contents, locations : SUBSET Locations]
          /\ SortedSet(u.locations)
      BY DEF Canonical
    <3>2. CASE u.content = c
      <4>1. f(u) = [content |-> c, locations |-> Merged(u.locations, p, n)]
        BY <3>1, <3>2
      <4>2. /\ SortedSet(Merged(u.locations, p, n))
            /\ \A q, m : Names(Merged(u.locations, p, n), q, m)
                           <=> Names(u.locations, q, m) \/ (q = p /\ m = n)
        BY <3>1, MergedAdds
      <4>3. Merged(u.locations, p, n) \subseteq Locations
        BY <4>2 DEF SortedSet, Sorted
      <4> HIDE DEF f
      <4> QED
        BY <3>2, <4>1, <4>2, <4>3
    <3>3. CASE u.content # c
      BY <3>1, <3>3
    <3> QED
      BY <3>2, <3>3
  <2> HIDE DEF f
  <2>3. Canonical(Pushed(c, p, n))
    BY <2>1, <2>2 DEF Canonical
  <2>4. ASSUME NEW d, NEW q, NEW m
        PROVE  Holds(Pushed(c, p, n), d, q, m)
                 <=> Holds(units, d, q, m) \/ (d = c /\ q = p /\ m = n)
    BY <1>1, <2>1, <2>2 DEF Holds
  <2> QED
    BY <2>3, <2>4
<1>2. CASE ~\E u \in units : u.content = c
  <2> DEFINE v == [content |-> c, locations |-> {Location(p, n)}]
  <2>1. Pushed(c, p, n) = units \cup {v}
    BY <1>2 DEF Pushed
  <2>2. Sorted(Location(p, n)) /\ Location(p, n).path = p /\ Sources(Location(p, n)) = {n}
    BY DEF Sorted, Location, Locations, Sources
  <2>3. /\ v \in [content : Contents, locations : SUBSET Locations]
        /\ v.content = c /\ SortedSet(v.locations)
        /\ \A q, m : Names(v.locations, q, m) <=> q = p /\ m = n
    BY <2>2 DEF SortedSet, Sorted, Names
  <2> HIDE DEF v
  <2>4. Canonical(Pushed(c, p, n))
    BY <1>2, <2>1, <2>3 DEF Canonical
  <2>5. ASSUME NEW d, NEW q, NEW m
        PROVE  Holds(Pushed(c, p, n), d, q, m)
                 <=> Holds(units, d, q, m) \/ (d = c /\ q = p /\ m = n)
    BY <2>1, <2>3 DEF Holds
  <2> QED
    BY <2>4, <2>5
<1> QED
  BY <1>1, <1>2

\* A push adds one unit at most.
LEMMA PushedCardinality ==
  ASSUME IsFiniteSet(units), NEW c, NEW p, NEW n
  PROVE  /\ IsFiniteSet(Pushed(c, p, n))
         /\ Cardinality(Pushed(c, p, n)) <= Cardinality(units) + 1
<1>1. CASE \E u \in units : u.content = c
  <2> DEFINE f == [u \in units |-> IF u.content = c
                     THEN [u EXCEPT !.locations = Merged(@, p, n)] ELSE u]
  <2>1. Pushed(c, p, n) = {f[u] : u \in units}
    BY <1>1 DEF Pushed
  <2>2. f \in Surjection(units, Pushed(c, p, n))
    <3>1. f = [u \in units |-> f[u]]
      OBVIOUS
    <3> HIDE DEF f
    <3> QED
      BY <2>1, <3>1 DEF Surjection
  <2>3. /\ IsFiniteSet(Pushed(c, p, n))
        /\ Cardinality(Pushed(c, p, n)) <= Cardinality(units)
    BY <2>2, FS_Surjection
  <2> QED
    BY <2>3, FS_CardinalityType
<1>2. CASE ~\E u \in units : u.content = c
  <2> DEFINE v == [content |-> c, locations |-> {Location(p, n)}]
  <2>1. Pushed(c, p, n) = units \cup {v}
    BY <1>2 DEF Pushed
  <2> HIDE DEF v
  <2>2. /\ IsFiniteSet(units \cup {v})
        /\ Cardinality(units \cup {v}) =
             IF v \in units THEN Cardinality(units) ELSE Cardinality(units) + 1
    BY FS_AddElement
  <2>3. Cardinality(units) \in Nat
    BY FS_CardinalityType
  <2> QED
    BY <2>1, <2>2, <2>3
<1> QED
  BY <1>1, <1>2

\* into_units finds the units in order and leaves them as they are.
LEMMA CanonicalIsFinal ==
  ASSUME Canonical(units)
  PROVE  {[u EXCEPT !.locations = {Normalized(l) : l \in @}] : u \in units} = units
<1>1. ASSUME NEW u \in units
      PROVE  [u EXCEPT !.locations = {Normalized(l) : l \in @}] = u
  <2>1. u \in [content : Contents, locations : SUBSET Locations]
    BY DEF Canonical
  <2>2. {Normalized(l) : l \in u.locations} = u.locations
    BY NormalizedSorted DEF Canonical, SortedSet
  <2> QED
    BY <2>1, <2>2
<1> QED
  BY <1>1

-----------------------------------------------------------------------------
(* Types. *)

\* The variables of the scan keep their types.
LEMMA TypesStep ==
  ASSUME ScanTypes, [Next]_vars
  PROVE  ScanTypes'
<1> USE CollectorAssumption DEF ScanTypes, inputs, treeVars, unitVars
<1>1. CASE UNCHANGED vars
  BY <1>1 DEF vars
<1>2. ASSUME NEW p \in Paths, NEW c \in Contents \cup {NoContent}, Write(p, c)
      PROVE  ScanTypes'
  BY <1>2 DEF Write, Edit
<1>3. ASSUME NEW p \in Paths, NEW n \in CommitIds, Commit(p, n)
      PROVE  ScanTypes'
  <2>1. [id |-> n, path |-> p, content |-> tree[p]] \in Commits
    BY <1>3 DEF Commit, Commits
  <2> QED
    BY <1>3, <2>1 DEF Commit, Edit
<1>4. ASSUME NEW k \in history, Drop(k)
      PROVE  ScanTypes'
  BY <1>4 DEF Drop, Edit
<1>5. CASE StartTree
  BY <1>5 DEF StartTree, Stages
<1>6. CASE EndPass
  BY <1>6 DEF EndPass, Stages
<1>7. CASE ReadRefs
  BY <1>7 DEF ReadRefs, Stages
<1>8. CASE EndHistory
  BY <1>8 DEF EndHistory, Stages
<1>9. CASE Finish
  BY <1>9 DEF Finish, Stages
<1>10. CASE ScanFails
  BY <1>10 DEF ScanFails, Stages
<1>11. ASSUME NEW d \in Directories, ListDirectory(d)
       PROVE  ScanTypes'
  BY <1>11 DEF ListDirectory, PassPaths
<1>12. ASSUME NEW p \in Paths, SkipSeen(p)
       PROVE  ScanTypes'
  BY <1>12 DEF SkipSeen
<1>13. ASSUME NEW p \in Paths, OpenFile(p)
       PROVE  ScanTypes'
  BY <1>13 DEF OpenFile, Yielding, InPass
<1>14. ASSUME NEW p \in Paths, ReadFile(p)
       PROVE  ScanTypes'
  <2>1. tree[p] \in Contents /\ Kind[tree[p]] \in {"text", "binary", "large"}
    BY <1>14 DEF ReadFile
  <2>2. <<tree[p], p, WorkingTree>> \in Contents \X Paths \X Provenances
    BY <2>1 DEF Provenances
  <2> QED
    BY <1>14, <2>1, <2>2 DEF ReadFile, PushContent
<1>15. ASSUME NEW k \in blobs, CollectBlob(k)
       PROVE  ScanTypes'
  <2>1. /\ k.content \in Contents /\ k.path \in Paths /\ k.id \in Provenances
        /\ Kind[k.content] \in {"text", "binary", "large"}
    BY DEF Commits, Provenances
  <2> QED
    BY <1>15, <2>1 DEF CollectBlob, PushContent
<1> QED
  BY <1>1, <1>2, <1>3, <1>4, <1>5, <1>6, <1>7, <1>8, <1>9, <1>10, <1>11, <1>12,
     <1>13, <1>14, <1>15 DEF Next

-----------------------------------------------------------------------------
(* The units hold what was read. *)

\* The reads of text are in the units, the other reads have their warnings.
Sourced ==
    /\ \A c \in Contents, p \in Paths, n \in Provenances :
          Holds(units, c, p, n) <=> <<c, p, n>> \in reads /\ Kind[c] = "text"
    /\ \A r \in reads : Kind[r[1]] # "text" => <<Kind[r[1]], r[2]>> \in warnings

UnitsInv == Canonical(units) /\ Sourced

\* push_content records what was read, as a unit or as a warning.
LEMMA PushKeepsUnits ==
  ASSUME ScanTypes, UnitsInv,
         NEW c \in Contents, NEW p \in Paths, NEW n \in Provenances,
         PushContent(c, p, n)
  PROVE  UnitsInv'
<1>1. CASE Kind[c] = "text"
  <2>1. /\ units' = Pushed(c, p, n) /\ warnings' = warnings
        /\ reads' = reads \cup {<<c, p, n>>}
    BY <1>1 DEF PushContent
  <2>2. /\ Canonical(Pushed(c, p, n))
        /\ \A d, q, m : Holds(Pushed(c, p, n), d, q, m)
                          <=> Holds(units, d, q, m) \/ (d = c /\ q = p /\ m = n)
    BY PushedAdds DEF UnitsInv
  <2>3. Canonical(units)' /\ \A d, q, m : Holds(units, d, q, m)'
                          <=> Holds(units, d, q, m) \/ (d = c /\ q = p /\ m = n)
    BY <2>1, <2>2 DEF Canonical, Holds
  <2>4. Sourced'
    BY <1>1, <2>1, <2>3 DEF UnitsInv, Sourced
  <2> QED
    BY <2>3, <2>4 DEF UnitsInv
<1>2. CASE Kind[c] # "text"
  <2>1. /\ units' = units /\ warnings' = warnings \cup {<<Kind[c], p>>}
        /\ reads' = reads \cup {<<c, p, n>>}
    BY <1>2 DEF PushContent
  <2>2. Canonical(units)' /\ \A d, q, m : Holds(units, d, q, m)' <=> Holds(units, d, q, m)
    BY <2>1 DEF UnitsInv, Canonical, Holds
  <2>3. Sourced'
    BY <1>2, <2>1, <2>2 DEF UnitsInv, Sourced
  <2> QED
    BY <2>2, <2>3 DEF UnitsInv
<1> QED
  BY <1>1, <1>2

\* Units do not change when nothing is read.
LEMMA UnitsIdle ==
  ASSUME UnitsInv, units' = units, reads' = reads, warnings \subseteq warnings'
  PROVE  UnitsInv'
<1>1. Canonical(units)' /\ \A d, q, m : Holds(units, d, q, m)' <=> Holds(units, d, q, m)
  BY DEF UnitsInv, Canonical, Holds
<1>2. Sourced'
  BY <1>1 DEF UnitsInv, Sourced
<1> QED
  BY <1>1, <1>2 DEF UnitsInv

\* What the two actions that read do, and what every other action leaves alone.
LEMMA StepReads ==
  ASSUME ScanTypes, UnitsInv, [Next]_vars
  PROVE  \/ \E p \in Paths : ReadFile(p) /\ PushContent(tree[p], p, WorkingTree)
         \/ \E k \in blobs : CollectBlob(k) /\ PushContent(k.content, k.path, k.id)
         \/ /\ units' = units /\ reads' = reads /\ warnings \subseteq warnings'
            /\ \A p \in Paths : ~ReadFile(p)
            /\ \A k \in blobs : ~CollectBlob(k)
<1> SUFFICES \/ units' = units /\ reads' = reads /\ warnings \subseteq warnings'
             \/ \E p \in Paths : ReadFile(p)
             \/ \E k \in blobs : CollectBlob(k)
  BY DEF ReadFile, CollectBlob
<1>1. CASE Finish
  BY <1>1, CanonicalIsFinal DEF Finish, UnitsInv
<1> QED
  BY <1>1 DEF Next, vars, unitVars, Write, Commit, Drop, Edit, StartTree, EndPass,
     ReadRefs, EndHistory, ScanFails, ListDirectory, SkipSeen, OpenFile

\* Each step keeps the units canonical and true to what was read.
LEMMA UnitsStep ==
  ASSUME ScanTypes, UnitsInv, [Next]_vars
  PROVE  UnitsInv'
<1>1. ASSUME NEW p \in Paths, ReadFile(p), PushContent(tree[p], p, WorkingTree)
      PROVE  UnitsInv'
  <2>1. tree[p] \in Contents /\ WorkingTree \in Provenances
    BY <1>1 DEF ReadFile, ScanTypes, Provenances
  <2> QED
    BY <1>1, <2>1, PushKeepsUnits
<1>2. ASSUME NEW k \in blobs, PushContent(k.content, k.path, k.id)
      PROVE  UnitsInv'
  <2>1. k.content \in Contents /\ k.path \in Paths /\ k.id \in Provenances
    BY DEF ScanTypes, Commits, Provenances
  <2> QED
    BY <1>2, <2>1, PushKeepsUnits
<1> QED
  BY <1>1, <1>2, StepReads, UnitsIdle

\* An empty collector holds nothing.
LEMMA UnitsInit ==
  ASSUME Init
  PROVE  ScanTypes /\ UnitsInv
<1>1. ScanTypes
  <2>1. /\ tree \in [Paths -> Contents \cup {NoContent}]
        /\ history \subseteq Commits
    BY CollectorAssumption DEF Init
  <2>2. steady \subseteq Paths \X Contents
    BY <2>1, CollectorAssumption DEF Init, InView, Commits
  <2> QED
    BY <2>1, <2>2, CollectorAssumption DEF Init, ScanTypes, Stages
<1>2. UnitsInv
  BY DEF Init, UnitsInv, Canonical, Sourced, Holds
<1> QED
  BY <1>1, <1>2

-----------------------------------------------------------------------------
(* A file is read once. *)

\* A file that was read was yielded before and is no longer open, and all its
\* reads are one.
ReadOnce ==
    \A c \in Contents, p \in Paths : <<c, p, WorkingTree>> \in reads =>
        /\ p \in seen \ reading
        /\ \A d \in Contents : <<d, p, WorkingTree>> \in reads => d = c

\* Each step opens only a file that was never read.
LEMMA ReadOnceStep ==
  ASSUME ScanTypes, UnitsInv, ReadOnce, [Next]_vars
  PROVE  ReadOnce'
<1>1. ASSUME NEW p \in Paths, ReadFile(p), PushContent(tree[p], p, WorkingTree)
      PROVE  ReadOnce'
  <2>1. /\ reads' = reads \cup {<<tree[p], p, WorkingTree>>}
        /\ seen' = seen /\ reading' = {} /\ p \in reading /\ p \in seen
    BY <1>1 DEF ReadFile, PushContent, ScanTypes
  <2>2. \A c \in Contents : <<c, p, WorkingTree>> \notin reads
    BY <2>1 DEF ReadOnce
  <2> QED
    BY <2>1, <2>2 DEF ReadOnce
<1>2. ASSUME NEW k \in blobs, CollectBlob(k), PushContent(k.content, k.path, k.id)
      PROVE  ReadOnce'
  <2>1. k.id # WorkingTree
    BY ProvenancesAreNumbers DEF ScanTypes, Commits, WorkingTree
  <2>2. /\ reads' = reads \cup {<<k.content, k.path, k.id>>}
        /\ seen' = seen /\ reading' = reading
    BY <1>2 DEF CollectBlob, PushContent, treeVars
  <2> QED
    BY <2>1, <2>2 DEF ReadOnce
<1>3. ASSUME reads' = reads, \A p \in Paths : ~ReadFile(p)
      PROVE  ReadOnce'
  <2>1. CASE \E p \in Paths : OpenFile(p)
    <3>1. PICK p \in Paths : OpenFile(p)
      BY <2>1
    <3>2. /\ p \notin seen /\ seen' = seen \cup {p}
          /\ reading' = {p} \/ reading' = reading
      BY <3>1 DEF OpenFile, AlreadySeen
    <3> QED
      BY <1>3, <3>2 DEF ReadOnce
  <2>2. CASE ~\E p \in Paths : OpenFile(p)
    <3>1. seen' = seen /\ reading' = reading
      BY <1>3, <2>2 DEF Next, vars, treeVars, Write, Commit, Drop, Edit, StartTree,
         EndPass, ReadRefs, EndHistory, Finish, ScanFails, ListDirectory,
         SkipSeen, CollectBlob
    <3> QED
      BY <1>3, <3>1 DEF ReadOnce
  <2> QED
    BY <2>1, <2>2
<1> QED
  BY <1>1, <1>2, <1>3, StepReads

-----------------------------------------------------------------------------
(* Statistics. *)

StatsInv == IsFiniteSet(units) /\ StatsAgree

\* At most one file is open.
LEMMA ReadingCardinality ==
  ASSUME ScanTypes
  PROVE  Cardinality(reading) = IF reading = {} THEN 0 ELSE 1
BY FS_EmptySet, FS_Singleton DEF ScanTypes

\* Each unit has a blob read behind it, and each of those a path walked.
LEMMA StatsStep ==
  ASSUME ScanTypes, UnitsInv, StatsInv, [Next]_vars
  PROVE  StatsInv'
<1>1. /\ ScanTypes'
      /\ Cardinality(units) \in Nat
  BY TypesStep, FS_CardinalityType DEF StatsInv
<1>2. /\ Cardinality(reading) = IF reading = {} THEN 0 ELSE 1
      /\ Cardinality(reading') = IF reading' = {} THEN 0 ELSE 1
  <2>1. Cardinality(reading)' = IF reading' = {} THEN 0 ELSE 1
    BY <1>1, FS_EmptySet, FS_Singleton DEF ScanTypes
  <2> QED
    BY <2>1, ReadingCardinality
<1>3. ASSUME NEW c, NEW p, NEW n, PushContent(c, p, n)
      PROVE  /\ IsFiniteSet(units') /\ Cardinality(units') \in Nat
             /\ Cardinality(units') <= Cardinality(units) + 1
  <2>1. units' = units \/ units' = Pushed(c, p, n)
    BY <1>3 DEF PushContent
  <2>2. IsFiniteSet(Pushed(c, p, n)) /\ Cardinality(Pushed(c, p, n)) <= Cardinality(units) + 1
    BY PushedCardinality DEF StatsInv
  <2> QED
    BY <1>1, <2>1, <2>2, FS_CardinalityType DEF StatsInv
<1>4. ASSUME NEW p \in Paths, ReadFile(p), PushContent(tree[p], p, WorkingTree)
      PROVE  StatsInv'
  <2>1. /\ blobsRead' = blobsRead + 1 /\ pathsWalked' = pathsWalked
        /\ reading # {} /\ reading' = {}
    BY <1>4 DEF ReadFile
  <2> QED
    BY <1>1, <1>2, <1>3, <1>4, <2>1 DEF StatsInv, StatsAgree
<1>5. ASSUME NEW k \in blobs, CollectBlob(k), PushContent(k.content, k.path, k.id)
      PROVE  StatsInv'
  <2>1. /\ blobsRead' = blobsRead + 1 /\ pathsWalked' = pathsWalked + 1
        /\ reading' = reading
    BY <1>5 DEF CollectBlob, treeVars
  <2> QED
    BY <1>1, <1>2, <1>3, <1>5, <2>1 DEF StatsInv, StatsAgree
<1>6. ASSUME units' = units, \A p \in Paths : ~ReadFile(p), \A k \in blobs : ~CollectBlob(k)
      PROVE  StatsInv'
  <2>1. CASE \E p \in Paths : OpenFile(p)
    <3>1. /\ pathsWalked' = pathsWalked + 1 /\ blobsRead' = blobsRead
          /\ reading = {}
      BY <2>1 DEF OpenFile, Yielding, InPass
    <3> QED
      BY <1>1, <1>2, <1>6, <3>1 DEF StatsInv, StatsAgree
  <2>2. CASE ~\E p \in Paths : OpenFile(p)
    <3>1. UNCHANGED <<reading, pathsWalked, blobsRead>>
      BY <1>6, <2>2 DEF Next, vars, treeVars, Write, Commit, Drop, Edit, StartTree,
         EndPass, ReadRefs, EndHistory, Finish, ScanFails, ListDirectory, SkipSeen
    <3> QED
      BY <1>6, <3>1 DEF StatsInv, StatsAgree
  <2> QED
    BY <2>1, <2>2
<1> QED
  BY <1>4, <1>5, <1>6, StepReads

-----------------------------------------------------------------------------
(* What stays in view is found. *)

\* The content s[2] was read at path s[1], or a warning names that path.
Handled(s) ==
    \/ \E n \in Provenances : <<s[2], s[1], n>> \in reads
    \/ <<Kind[s[2]], s[1]>> \in warnings

\* The history still has it in store for the collector.
StillToCome(s) ==
    \E k \in (IF "history" \in pending THEN history ELSE blobs) :
        k.path = s[1] /\ k.content = s[2] /\ k.path \in Historical

Safe(s) == Handled(s) \/ StillToCome(s)

\* The walker still has the path before it.
StillToList(p) == Directory[p] \in unlisted \/ p \in listed

\* In which order a scan of both parts goes.
InOrder ==
    /\ stage \in {"plain", "forced"} => pending = {"history"}
    /\ "tree" \in pending => pending = options /\ stage \in {"next", "failed"}
    /\ stage = "history" => pending = {}
    /\ stage = "done" => pending = {}
    /\ stage \in {"next", "done"} /\ "history" \notin pending => blobs = {}
    /\ stage \in {"next", "history", "done"} => reading = {}

\* Where each steady content is found, stage by stage.
Covered ==
    /\ steady \subseteq InView(tree, history)
    /\ \A s \in steady :
          /\ s[1] \in seen \ reading => Safe(s)
          /\ stage = "plain" /\ s[1] \in Plain =>
                Safe(s) \/ s[1] \in seen \/ StillToList(s[1])
          /\ stage = "forced" /\ s[1] \in Plain => Safe(s) \/ s[1] \in seen
          /\ stage = "forced" /\ s[1] \in Forced =>
                Safe(s) \/ s[1] \in seen \/ StillToList(s[1])
          /\ stage \in {"next", "history", "done"} /\ "tree" \notin pending => Safe(s)

CoverInv == options = {"tree", "history"} => InOrder /\ Covered

\* The order of the stages.
LEMMA OrderStep ==
  ASSUME ScanTypes, options = {"tree", "history"}, InOrder, [Next]_vars
  PROVE  InOrder'
<1> USE DEF InOrder, inputs, treeVars, unitVars
<1>1. CASE UNCHANGED vars
  BY <1>1 DEF vars
<1>2. ASSUME Edit PROVE InOrder'
  BY <1>2 DEF Edit
<1>3. CASE StartTree
  BY <1>3 DEF StartTree, Due, ScanTypes
<1>4. CASE EndPass
  BY <1>4 DEF EndPass, Yielding, InPass
<1>5. CASE ReadRefs
  BY <1>5 DEF ReadRefs, Due, ScanTypes
<1>6. CASE EndHistory
  BY <1>6 DEF EndHistory
<1>7. CASE Finish
  BY <1>7 DEF Finish
<1>8. CASE ScanFails
  BY <1>8 DEF ScanFails
<1>9. ASSUME NEW d \in Directories, ListDirectory(d) PROVE InOrder'
  BY <1>9 DEF ListDirectory
<1>10. ASSUME NEW p \in Paths, SkipSeen(p) \/ OpenFile(p) \/ ReadFile(p)
       PROVE  InOrder'
  BY <1>10 DEF SkipSeen, OpenFile, ReadFile, Yielding, InPass
<1>11. ASSUME NEW k \in blobs, CollectBlob(k) PROVE InOrder'
  BY <1>11 DEF CollectBlob
<1> QED
  BY <1>1, <1>2, <1>3, <1>4, <1>5, <1>6, <1>7, <1>8, <1>9, <1>10, <1>11
  DEF Next, Write, Commit, Drop

\* A steady content that is not in a commit is in the tree, as it is.
LEMMA SteadyIsThere ==
  ASSUME ScanTypes, Covered, "history" \in pending, NEW s \in steady
  PROVE  /\ s[1] \in Paths /\ s[2] \in Contents /\ s = <<s[1], s[2]>>
         /\ StillToCome(s) \/ (s[1] \in Plain \cup Forced /\ tree[s[1]] = s[2])
<1>1. s[1] \in Paths /\ s[2] \in Contents /\ s = <<s[1], s[2]>>
  BY DEF ScanTypes
<1>2. s \in InView(tree, history)
  BY DEF Covered
<1> QED
  BY <1>1, <1>2 DEF InView, StillToCome

\* Edits keep what they leave steady where it was.
LEMMA EditCovers ==
  ASSUME ScanTypes, Covered, InOrder, Edit,
         \/ \E p \in Paths, c \in Contents \cup {NoContent} : Write(p, c)
         \/ \E p \in Paths, n \in CommitIds : Commit(p, n)
         \/ \E k \in history : Drop(k)
  PROVE  Covered'
<1>1. /\ UNCHANGED <<treeVars, unitVars, pending, stage, blobs>>
      /\ steady' \subseteq steady
  BY DEF Edit, Write, Commit, Drop
<1>2. steady' \subseteq InView(tree', history')
  <2>1. CASE \E p \in Paths, c \in Contents \cup {NoContent} : Write(p, c)
    BY <2>1 DEF Write
  <2>2. CASE \E p \in Paths, n \in CommitIds : Commit(p, n)
    BY <2>2 DEF Commit, Covered, InView
  <2>3. CASE \E k \in history : Drop(k)
    BY <2>3 DEF Drop, Covered, InView
  <2> QED
    BY <2>1, <2>2, <2>3
<1>3. ASSUME NEW s \in steady', StillToCome(s)
      PROVE  StillToCome(s)'
  <2>1. CASE \E p \in Paths, c \in Contents \cup {NoContent} : Write(p, c)
    BY <1>1, <1>3, <2>1 DEF Write, StillToCome
  <2>2. CASE \E p \in Paths, n \in CommitIds : Commit(p, n)
    BY <1>1, <1>3, <2>2 DEF Commit, StillToCome
  <2>3. CASE \E k \in history : Drop(k)
    <3>1. PICK k \in history : Drop(k)
      BY <2>3
    <3>2. s # <<k.path, k.content>> /\ s = <<s[1], s[2]>>
      BY <1>1, <3>1 DEF Drop, ScanTypes
    <3> QED
      BY <1>1, <1>3, <3>1, <3>2 DEF Drop, StillToCome
  <2> QED
    BY <2>1, <2>2, <2>3
<1>4. \A s \in steady' : Safe(s) => Safe(s)'
  BY <1>1, <1>3 DEF Safe, Handled, unitVars
<1> QED
  BY <1>1, <1>2, <1>4 DEF Covered, StillToList, treeVars

\* What was safe stays safe when the scan only adds reads and warnings.
LEMMA SafeStays ==
  ASSUME reads \subseteq reads', warnings \subseteq warnings',
         UNCHANGED <<history, blobs, pending>>, NEW s, Safe(s)
  PROVE  Safe(s)'
BY DEF Safe, Handled, StillToCome

\* Each step of a scan keeps steady contents covered.
LEMMA CoverStep ==
  ASSUME ScanTypes, CoverInv, [Next]_vars
  PROVE  CoverInv'
<1> SUFFICES ASSUME options = {"tree", "history"}, InOrder, Covered
             PROVE  Covered'
  BY OrderStep DEF CoverInv, Next, vars, inputs, Write, Commit, Drop, Edit, StartTree, EndPass,
     ReadRefs, EndHistory, Finish, ScanFails, ListDirectory, SkipSeen, OpenFile,
     ReadFile, CollectBlob
<1>1. ASSUME UNCHANGED <<inputs, treeVars, reads, warnings, pending, blobs>>,
             stage' = stage \/ stage' = "failed"
                \/ (stage \in {"next", "history"} /\ stage' \in {"next", "done"}
                      /\ "tree" \notin pending)
      PROVE  Covered'
  BY <1>1, SafeStays DEF Covered, StillToList, inputs, treeVars
<1>2. CASE UNCHANGED vars \/ EndHistory \/ Finish \/ ScanFails
  <2>1. stage \in {"history"} => "tree" \notin pending
    BY DEF InOrder
  <2> QED
    BY <1>1, <1>2, <2>1 DEF vars, unitVars, EndHistory, Finish, ScanFails
<1>3. ASSUME NEW p \in Paths, NEW c \in Contents \cup {NoContent}, Write(p, c)
      PROVE  Covered'
  BY <1>3, EditCovers DEF Write
<1>4. ASSUME NEW p \in Paths, NEW n \in CommitIds, Commit(p, n)
      PROVE  Covered'
  BY <1>4, EditCovers DEF Commit
<1>5. ASSUME NEW k \in history, Drop(k)
      PROVE  Covered'
  BY <1>5, EditCovers DEF Drop
<1>6. CASE StartTree
  <2>1. /\ stage' = "plain" /\ UNCHANGED <<inputs, seen, reading>>
        /\ unlisted' = Directories
        /\ "tree" \in pending /\ pending = options /\ pending' = pending \ {"tree"}
        /\ UNCHANGED <<reads, warnings, blobs>>
    BY <1>6 DEF StartTree, Due, InOrder, unitVars
  <2>2. \A s \in steady : Safe(s) => Safe(s)'
    BY <2>1 DEF Safe, Handled, StillToCome, inputs
  <2>3. \A s \in steady : StillToList(s[1])'
    BY <2>1 DEF StillToList, Directories, ScanTypes
  <2> QED
    BY <2>1, <2>2, <2>3 DEF Covered, inputs
<1>7. ASSUME NEW d \in Directories, ListDirectory(d)
      PROVE  Covered'
  <2>1. /\ UNCHANGED <<inputs, seen, reading, pending, stage, blobs, reads, warnings>>
        /\ unlisted' = unlisted \ {d} /\ listed \subseteq listed'
        /\ stage \in {"plain", "forced"} /\ "history" \in pending
        /\ \A p \in PassPaths(stage) : Directory[p] = d /\ tree[p] # NoContent
              => p \in listed'
    BY <1>7 DEF ListDirectory, Yielding, InPass, InOrder, unitVars
  <2>2. \A s \in steady : Safe(s) => Safe(s)'
    BY <2>1, SafeStays DEF inputs
  <2>3. ASSUME NEW s \in steady, s[1] \in PassPaths(stage), StillToList(s[1])
        PROVE  Safe(s) \/ StillToList(s[1])'
    <3>1. CASE Directory[s[1]] = d
      <4>1. Safe(s) \/ tree[s[1]] \in Contents
        BY <2>1, SteadyIsThere DEF Safe
      <4> QED
        BY <2>1, <2>3, <3>1, <4>1, CollectorAssumption DEF StillToList
    <3>2. CASE Directory[s[1]] # d
      BY <2>1, <2>3, <3>2 DEF StillToList
    <3> QED
      BY <3>1, <3>2
  <2>4. CASE stage = "plain"
    BY <2>1, <2>2, <2>3, <2>4 DEF Covered, inputs, PassPaths
  <2>5. CASE stage = "forced"
    BY <2>1, <2>2, <2>3, <2>5 DEF Covered, inputs, PassPaths
  <2> QED
    BY <2>1, <2>4, <2>5
<1>8. ASSUME NEW p \in Paths, SkipSeen(p)
      PROVE  Covered'
  <2>1. /\ UNCHANGED <<inputs, unlisted, seen, reading, pending, stage, blobs,
                       reads, warnings>>
        /\ listed' = listed \ {p} /\ p \in seen
    BY <1>8 DEF SkipSeen, AlreadySeen, unitVars
  <2>2. \A s \in steady : Safe(s) => Safe(s)'
    BY <2>1, SafeStays DEF inputs
  <2> QED
    BY <2>1, <2>2 DEF Covered, inputs, StillToList
<1>9. ASSUME NEW p \in Paths, OpenFile(p)
      PROVE  Covered'
  <2>1. /\ UNCHANGED <<inputs, unlisted, pending, stage, blobs, reads>>
        /\ warnings \subseteq warnings'
        /\ listed' = listed \ {p} /\ seen' = seen \cup {p} /\ reading = {}
        /\ \/ Kind[tree[p]] = "large" /\ <<Kind[tree[p]], p>> \in warnings'
              /\ reading' = reading
           \/ reading' = {p}
        /\ stage \in {"plain", "forced"} /\ "history" \in pending
    BY <1>9 DEF OpenFile, Yielding, InPass, InOrder
  <2>2. \A s \in steady : Safe(s) => Safe(s)'
    BY <2>1, SafeStays DEF inputs
  <2>3. ASSUME NEW s \in steady, s[1] = p, p \notin reading'
        PROVE  Safe(s)'
    <3>1. CASE tree[p] = s[2]
      BY <2>1, <2>3, <3>1 DEF Safe, Handled
    <3>2. CASE tree[p] # s[2]
      BY <2>1, <2>2, <2>3, <3>2, SteadyIsThere DEF Safe
    <3> QED
      BY <3>1, <3>2
  <2> QED
    BY <2>1, <2>2, <2>3 DEF Covered, inputs, StillToList
<1>10. ASSUME NEW p \in Paths, ReadFile(p)
       PROVE  Covered'
  <2>1. /\ UNCHANGED <<inputs, unlisted, listed, seen, pending, stage, blobs>>
        /\ reads' = reads \cup {<<tree[p], p, WorkingTree>>}
        /\ warnings \subseteq warnings'
        /\ reading = {p} /\ reading' = {}
        /\ "history" \in pending
    BY <1>10 DEF ReadFile, InPass, PushContent, InOrder, ScanTypes
  <2>2. \A s \in steady : Safe(s) => Safe(s)'
    BY <2>1, SafeStays DEF inputs
  <2>3. ASSUME NEW s \in steady, s[1] = p
        PROVE  Safe(s)'
    <3>1. CASE tree[p] = s[2]
      BY <2>1, <2>3, <3>1 DEF Safe, Handled, Provenances
    <3>2. CASE tree[p] # s[2]
      BY <2>1, <2>2, <2>3, <3>2, SteadyIsThere DEF Safe
    <3> QED
      BY <3>1, <3>2
  <2> QED
    BY <2>1, <2>2, <2>3 DEF Covered, inputs, StillToList
<1>11. CASE EndPass
  <2>1. /\ UNCHANGED <<inputs, listed, seen, pending, blobs, reads, warnings>>
        /\ reading = {} /\ reading' = {} /\ unlisted = {} /\ listed = {}
        /\ \/ stage = "plain" /\ stage' = "forced" /\ unlisted' = Directories
           \/ stage = "forced" /\ stage' = "next"
        /\ "history" \in pending
    BY <1>11 DEF EndPass, Yielding, InPass, InOrder, unitVars
  <2>2. \A s \in steady : Safe(s) => Safe(s)'
    BY <2>1, SafeStays DEF inputs
  <2>3. CASE stage = "plain"
    <3>1. \A s \in steady : StillToList(s[1])'
      BY <2>1, <2>3 DEF StillToList, Directories, ScanTypes
    <3> QED
      BY <2>1, <2>2, <2>3, <3>1 DEF Covered, inputs, StillToList
  <2>4. CASE stage = "forced"
    <3>1. \A s \in steady : Safe(s)
      BY <2>1, <2>4, SteadyIsThere DEF Covered, StillToList, Safe
    <3> QED
      BY <2>1, <2>2, <2>4, <3>1 DEF Covered, inputs
  <2> QED
    BY <2>1, <2>3, <2>4
<1>12. CASE ReadRefs
  <2>1. /\ UNCHANGED <<inputs, unlisted, listed, seen, reading, reads, warnings>>
        /\ stage = "next" /\ stage' = "history"
        /\ "history" \in pending /\ "tree" \notin pending
        /\ pending' = pending \ {"history"}
        /\ blobs' = {k \in history : k.path \in Historical}
    BY <1>12 DEF ReadRefs, Due, unitVars, treeVars
  <2>2. \A s \in steady : Safe(s)
    BY <2>1 DEF Covered
  <2>3. \A s \in steady : Safe(s)'
    BY <2>1, <2>2 DEF Safe, Handled, StillToCome
  <2> QED
    BY <2>1, <2>3 DEF Covered, inputs
<1>13. ASSUME NEW k \in blobs, CollectBlob(k)
       PROVE  Covered'
  <2>1. /\ UNCHANGED <<inputs, treeVars, pending, stage>>
        /\ stage = "history" /\ pending = {}
        /\ blobs' = blobs \ {k}
        /\ reads' = reads \cup {<<k.content, k.path, k.id>>}
        /\ warnings \subseteq warnings'
        /\ k.id \in Provenances
    BY <1>13 DEF CollectBlob, PushContent, InOrder, ScanTypes, Commits, Provenances
  <2>2. ASSUME NEW s \in steady
        PROVE  Safe(s)'
    <3>1. Safe(s)
      BY <2>1 DEF Covered
    <3> QED
      BY <2>1, <3>1 DEF Safe, Handled, StillToCome
  <2> QED
    BY <2>1, <2>2 DEF Covered, inputs
<1> QED
  BY <1>2, <1>3, <1>4, <1>5, <1>6, <1>7, <1>8, <1>9, <1>10, <1>11, <1>12, <1>13
  DEF Next

-----------------------------------------------------------------------------
(* Theorems. *)

CollectorInv == ScanTypes /\ UnitsInv /\ ReadOnce /\ StatsInv

\* The inductive invariant of a scan under any edits of the repository.
THEOREM CollectorInvariant == Spec => []CollectorInv
<1>1. Init => CollectorInv
  <2> SUFFICES ASSUME Init PROVE CollectorInv
    OBVIOUS
  <2>1. ReadOnce /\ StatsInv
    BY FS_EmptySet DEF Init, ReadOnce, StatsInv, StatsAgree
  <2> QED
    BY <2>1, UnitsInit DEF CollectorInv
<1>2. CollectorInv /\ [Next]_vars => CollectorInv'
  BY TypesStep, UnitsStep, ReadOnceStep, StatsStep DEF CollectorInv
<1> QED
  BY <1>1, <1>2, PTL DEF Spec

\* The scan keeps its types and its statistics agree.
THEOREM CollectorTypeSafe == Spec => []TypeOK
<1>1. CollectorInv => TypeOK
  BY DEF CollectorInv, TypeOK, UnitsInv, Canonical, UnitTypes, StatsInv
<1> QED
  BY <1>1, CollectorInvariant, PTL

\* One unit for each content, one location for each path, in whatever order
\* files and commits are read.
THEOREM UnitsStayCanonical == Spec => []UnitsAreCanonical
<1>1. CollectorInv => UnitsAreCanonical
  BY DEF CollectorInv, UnitsInv, Canonical, SortedSet, Sorted, UnitsAreCanonical
<1> QED
  BY <1>1, CollectorInvariant, PTL

\* The units hold exactly the text that was read, with path and provenance.
THEOREM NothingReadIsLost == Spec => []UnitsHoldSources
<1>1. ASSUME CollectorInv PROVE UnitsHoldSources
  <2>1. ASSUME NEW r \in reads, Kind[r[1]] = "text"
        PROVE  \E u \in units : u.content = r[1] /\
                  \E l \in u.locations : l.path = r[2] /\ r[3] \in Sources(l)
    <3>1. r = <<r[1], r[2], r[3]>> /\ r[1] \in Contents /\ r[2] \in Paths
          /\ r[3] \in Provenances
      BY <1>1 DEF CollectorInv, ScanTypes
    <3>2. Holds(units, r[1], r[2], r[3])
      BY <1>1, <2>1, <3>1 DEF CollectorInv, UnitsInv, Sourced
    <3> QED
      BY <3>2 DEF Holds, Names
  <2>2. ASSUME NEW u \in units, NEW l \in u.locations, NEW n \in Sources(l)
        PROVE  <<u.content, l.path, n>> \in reads
    <3>1. u.content \in Contents /\ l \in Locations
      BY <1>1 DEF CollectorInv, UnitsInv, Canonical
    <3>2. l.path \in Paths /\ n \in Provenances
      BY <3>1 DEF Locations, Sources, Provenances
    <3>3. Holds(units, u.content, l.path, n)
      BY DEF Holds, Names
    <3> QED
      BY <1>1, <3>1, <3>2, <3>3 DEF CollectorInv, UnitsInv, Sourced
  <2> QED
    BY <1>1, <2>1, <2>2 DEF UnitsHoldSources, CollectorInv, UnitsInv, Sourced
<1> QED
  BY <1>1, CollectorInvariant, PTL

\* No file of the working tree is reported with two contents.
THEOREM FilesAreReadOnce == Spec => []OneReadPerPath
<1>1. ASSUME CollectorInv, UnitsHoldSources PROVE OneReadPerPath
  <2> SUFFICES ASSUME NEW u \in units, NEW v \in units,
                      NEW l \in u.locations, NEW m \in v.locations,
                      l.path = m.path, l.primary = WorkingTree, m.primary = WorkingTree
               PROVE  u = v
    BY DEF OneReadPerPath
  <2>1. <<u.content, l.path, WorkingTree>> \in reads
        /\ <<v.content, l.path, WorkingTree>> \in reads
    BY <1>1 DEF UnitsHoldSources, Sources
  <2>2. u.content \in Contents /\ v.content \in Contents /\ l.path \in Paths
    BY <1>1 DEF CollectorInv, UnitsInv, Canonical, Locations
  <2>3. u.content = v.content
    BY <1>1, <2>1, <2>2 DEF CollectorInv, ReadOnce
  <2> QED
    BY <1>1, <2>3 DEF CollectorInv, UnitsInv, Canonical
<1> QED
  BY <1>1, CollectorInvariant, NothingReadIsLost, PTL

\* What stays in view at its path during a whole scan is found or named by a
\* warning, whatever others edit, commit or reset meanwhile.
THEOREM SteadyIsFound == Spec => []NothingSlipsThrough
<1>1. Init => CoverInv
  <2> SUFFICES ASSUME Init, options = {"tree", "history"}
               PROVE  InOrder /\ Covered
    BY DEF CoverInv
  <2> QED
    BY DEF Init, InOrder, Covered
<1>2. CollectorInv /\ CoverInv /\ [Next]_vars => CoverInv'
  BY CoverStep DEF CollectorInv
<1>3. ASSUME CollectorInv, CoverInv PROVE NothingSlipsThrough
  <2> SUFFICES ASSUME stage = "done", options = {"tree", "history"}, NEW s \in steady
               PROVE  \/ <<Kind[s[2]], s[1]>> \in warnings
                      \/ \E u \in units : u.content = s[2] /\
                            \E l \in u.locations : l.path = s[1]
    BY DEF NothingSlipsThrough
  <2>1. pending = {} /\ blobs = {} /\ Safe(s)
    BY <1>3 DEF CoverInv, InOrder, Covered
  <2>2. s[1] \in Paths /\ s[2] \in Contents
    BY <1>3 DEF CollectorInv, ScanTypes
  <2>3. CASE \E n \in Provenances : <<s[2], s[1], n>> \in reads
    <3>1. PICK n \in Provenances : <<s[2], s[1], n>> \in reads
      BY <2>3
    <3>2. CASE Kind[s[2]] = "text"
      <4>1. Holds(units, s[2], s[1], n)
        BY <1>3, <2>2, <3>1, <3>2 DEF CollectorInv, UnitsInv, Sourced
      <4> QED
        BY <4>1 DEF Holds, Names
    <3>3. CASE Kind[s[2]] # "text"
      BY <1>3, <2>2, <3>1, <3>3 DEF CollectorInv, UnitsInv, Sourced
    <3> QED
      BY <3>2, <3>3
  <2> QED
    BY <2>1, <2>3 DEF Safe, Handled, StillToCome
<1> QED
  BY <1>1, <1>2, <1>3, CollectorInvariant, PTL DEF Spec
=============================================================================
