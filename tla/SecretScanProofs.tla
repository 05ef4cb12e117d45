-------------------------- MODULE SecretScanProofs --------------------------
(***************************************************************************)
(* Proofs about successive scans: the state keeps its types, the places of *)
(* a content are told apart, a second scan of an unchanged repository says *)
(* the same, and what was reported stays reported.                         *)
(*                                                                         *)
(* The last two rest on lemmas about the ignore policy: in which cases the *)
(* order in which build_history_ignores read the files of rules does not   *)
(* matter, and in which cases history is admitted where the tree is.       *)
(***************************************************************************)
EXTENDS SecretScan, FiniteSetTheorems, TLAPS

\* A nonempty set of naturals under a bound has a greatest element.
LEMMA GreatestExists ==
    ASSUME NEW n \in Nat, NEW S \in SUBSET (0..n), S # {}
    PROVE  \E x \in S : \A y \in S : y <= x
<1> DEFINE Less == {ss \in Nat \X Nat : ss[1] < ss[2]}
           Gap == {n - x : x \in S}
<1>0. IsWellFoundedOn(Less, Nat)
    BY NatLessThanWellFounded, Zenon DEF OpToRel
<1>1. Gap \subseteq Nat /\ Gap # {}
  <2>1. \A x \in S : n - x \in Nat
    OBVIOUS
  <2> QED
    BY <2>1
<1> HIDE DEF Gap
<1>2. PICK g \in Gap : \A h \in Gap : ~(<<h, g>> \in Less)
  <2> HIDE DEF Less
  <2> QED
    BY <1>0, <1>1, WFMin, Zenon
<1>3. \A h \in Gap : ~(h < g)
    BY <1>1, <1>2
<1> USE DEF Gap
<1>4. PICK x \in S : g = n - x
    BY <1>2
<1>5. \A y \in S : y <= x
    BY <1>3, <1>4
<1> QED
    BY <1>5

-----------------------------------------------------------------------------
(***************************************************************************)
(* What rules say.                                                         *)
(***************************************************************************)

IsText(rules) == rules \in Seq(Range(rules))

NoKeep(rules) == \A i \in DOMAIN rules : ~rules[i].keep

Hits(rules, e) == {i \in DOMAIN rules : NameMatches(rules[i].pattern, e)}

\* A list of rules without a negated pattern ignores or says nothing.
LEMMA VerdictWithoutKeep ==
    ASSUME NEW rules, NEW e, IsText(rules), NoKeep(rules)
    PROVE  Verdict(rules, e) \in {"none", "ignore"}
<1> DEFINE hits == Hits(rules, e)
<1>1. CASE hits = {}
    BY <1>1 DEF Verdict, Hits
<1>2. CASE hits # {}
  <2>1. hits \subseteq 0..Len(rules) /\ Len(rules) \in Nat
      BY DEF Hits, IsText
  <2>2. \E x \in hits : \A y \in hits : y <= x
    <3> HIDE DEF hits
    <3> QED
      BY <1>2, <2>1, GreatestExists
  <2>3. Max(hits) \in hits
    <3>1. \E x \in hits : \A y \in hits : x >= y
        BY <2>1, <2>2
    <3> HIDE DEF hits
    <3> QED
      BY <3>1 DEF Max
  <2>4. ~rules[Max(hits)].keep
      BY <2>3 DEF NoKeep, Hits
  <2> QED
      BY <1>2, <2>4 DEF Verdict, Hits
<1> QED
    BY <1>1, <1>2

\* The files of rules that hold any.
Full(texts) == {f \in IgnoreFiles : texts[f] # <<>>}

\* The orders in which a scan may read them.
Orders(texts) == ReadOrders(Full(texts))

LEMMA OrderType ==
    ASSUME NEW texts, NEW o \in Orders(texts)
    PROVE  /\ DOMAIN o = Full(texts)
           /\ Cardinality(Full(texts)) \in Nat
           /\ \A f \in Full(texts) : o[f] \in 1..Cardinality(Full(texts))
<1>1. IsFiniteSet(Full(texts))
    BY IgnoreAssumption, FS_Subset DEF Full
<1>2. Cardinality(Full(texts)) \in Nat
    BY <1>1, FS_CardinalityType
<1>3. o \in [Full(texts) -> 1..Cardinality(Full(texts))]
    BY DEF Orders, ReadOrders
<1> QED
    BY <1>2, <1>3

\* The files that say something of a path.
Heard(texts, files, e) == {f \in files : Verdict(texts[f], e) # "none"}

\* Of the files that say something the last read one is asked.
LEMMA ListAsksOne ==
    ASSUME NEW texts, NEW o \in Orders(texts), NEW e
    PROVE  \/ /\ Heard(texts, DOMAIN o, e) = {}
              /\ ListVerdict(texts, o, e) = "none"
           \/ \E f \in Heard(texts, DOMAIN o, e) :
                 ListVerdict(texts, o, e) = Verdict(texts[f], e)
<1> DEFINE heard == Heard(texts, DOMAIN o, e)
           At == {o[f] : f \in heard}
           n == Cardinality(Full(texts))
<1>1. CASE heard = {}
    BY <1>1 DEF ListVerdict, Heard
<1>2. CASE heard # {}
  <2>1. n \in Nat /\ \A f \in heard : o[f] \in 1..n
      BY OrderType DEF Heard
  <2>2. At \in SUBSET (0..n) /\ At # {}
      BY <1>2, <2>1
  <2>3. PICK x \in At : \A y \in At : y <= x
    <3> HIDE DEF At
    <3> QED
      BY <2>1, <2>2, GreatestExists
  <2>4. \E f \in heard : \A g \in heard : o[g] <= o[f]
      BY <2>3
  <2>5. (CHOOSE f \in heard : \A g \in heard : o[g] <= o[f]) \in heard
    <3> HIDE DEF heard
    <3> QED
      BY <2>4
  <2> QED
      BY <1>2, <2>5 DEF ListVerdict, Heard
<1> QED
    BY <1>1, <1>2

\* A path and the directories on the way to it.
Way(p) == Parents(p) \cup {p}

LEMMA WayLength ==
    ASSUME NEW p \in Paths, NEW e \in Way(p)
    PROVE  Len(p) \in Nat /\ Len(e) \in 1..Len(p)
<1>1. p \in Seq(Range(p)) /\ p # <<>>
    BY IgnoreAssumption
<1>2. Len(p) \in Nat /\ Len(p) # 0
    BY <1>1
<1>3. CASE e = p
    BY <1>2, <1>3
<1>4. CASE e \in Parents(p)
  <2>1. PICK i \in 1..(Len(p) - 1) : e = SubSeq(p, 1, i)
      BY <1>4 DEF Parents
  <2>2. Len(e) = i
      BY <1>1, <1>2, <2>1
  <2> QED
      BY <1>2, <2>1, <2>2
<1> QED
    BY <1>3, <1>4 DEF Way

\* The part of the way that the list of all rules speaks about.
Matched(texts, o, p) == {e \in Way(p) : ListVerdict(texts, o, e) # "none"}

\* Of the path and its directories one is asked.
LEMMA HistoryAsksOne ==
    ASSUME NEW texts, NEW o, NEW p \in Paths
    PROVE  \/ /\ Matched(texts, o, p) = {}
              /\ HistoryVerdict(texts, o, p) = "none"
           \/ \E e \in Matched(texts, o, p) :
                 HistoryVerdict(texts, o, p) = ListVerdict(texts, o, e)
<1> DEFINE heard == Matched(texts, o, p)
           lengths == {Len(e) : e \in heard}
<1>1. CASE heard = {}
    BY <1>1 DEF HistoryVerdict, Matched, Way
<1>2. CASE heard # {}
  <2>1. \A e \in heard : Len(e) \in 1..Len(p)
      BY WayLength DEF Matched
  <2>2. Len(p) \in Nat
      BY WayLength DEF Way
  <2>3. lengths \in SUBSET (0..Len(p)) /\ lengths # {}
    <3>1. \A e \in heard : Len(e) \in 0..Len(p)
        BY <2>1, <2>2
    <3> HIDE DEF heard
    <3> QED
      BY <1>2, <3>1
  <2>4. PICK x \in lengths : \A y \in lengths : y <= x
    <3> HIDE DEF lengths
    <3> QED
      BY <2>2, <2>3, GreatestExists
  <2>5. \E e \in heard : \A d \in heard : Len(d) <= Len(e)
      BY <2>4
  <2>6. (CHOOSE e \in heard : \A d \in heard : Len(d) <= Len(e)) \in heard
    <3> HIDE DEF heard
    <3> QED
      BY <2>5
  <2> QED
      BY <1>2, <2>6 DEF HistoryVerdict, Matched, Way
<1> QED
    BY <1>1, <1>2

-----------------------------------------------------------------------------
(***************************************************************************)
(* When the order in which the files were read does not matter.            *)
(***************************************************************************)

\* The repository's files of rules, as far as the proofs need to know them.
IsTexts(texts) == \A f \in IgnoreFiles : IsText(texts[f])

NoKeeps(texts) == \A f \in IgnoreFiles : NoKeep(texts[f])

\* Some rule speaks about a path.
Spoken(texts, e) == \E f \in Full(texts) : Verdict(texts[f], e) # "none"

LEMMA ListWithoutKeep ==
    ASSUME NEW texts, IsTexts(texts), NoKeeps(texts), NEW o \in Orders(texts), NEW e
    PROVE  ListVerdict(texts, o, e) = IF Spoken(texts, e) THEN "ignore" ELSE "none"
<1>1. DOMAIN o = Full(texts) /\ Full(texts) \subseteq IgnoreFiles
    BY OrderType DEF Full
<1>2. \A f \in Full(texts) : Verdict(texts[f], e) \in {"none", "ignore"}
    BY <1>1, VerdictWithoutKeep DEF IsTexts, NoKeeps
<1>3. Spoken(texts, e) <=> Heard(texts, DOMAIN o, e) # {}
    BY <1>1 DEF Spoken, Heard
<1> QED
    BY <1>1, <1>2, <1>3, ListAsksOne DEF Heard

\* Without a negated pattern every order of reading admits the same.
LEMMA OrderIsImmaterial ==
    ASSUME NEW texts, IsTexts(texts), NoKeeps(texts),
           NEW o \in Orders(texts), NEW q \in Orders(texts),
           NEW allowed, NEW p \in Paths
    PROVE  HistoryAdmits(allowed, texts, o, p) <=> HistoryAdmits(allowed, texts, q, p)
<1>1. \A e : ListVerdict(texts, o, e) = ListVerdict(texts, q, e)
    BY ListWithoutKeep
<1>2. Matched(texts, o, p) = Matched(texts, q, p)
    BY <1>1 DEF Matched
<1>3. \A e \in Matched(texts, o, p) : /\ ListVerdict(texts, o, e) = "ignore"
                                      /\ ListVerdict(texts, q, e) = "ignore"
    BY ListWithoutKeep DEF Matched
<1>4. HistoryVerdict(texts, o, p) = HistoryVerdict(texts, q, p)
    BY <1>2, <1>3, HistoryAsksOne
<1> QED
    BY <1>4 DEF HistoryAdmits

\* No file but g holds rules, and g is at the root.
OnlyAtRoot(texts, g) ==
    /\ g \in IgnoreFiles /\ g.dir = <<>>
    /\ Full(texts) \subseteq {g}

LEMMA EmptySaysNothing ==
    ASSUME NEW e
    PROVE  Verdict(<<>>, e) = "none"
<1>1. {i \in DOMAIN <<>> : NameMatches(<<>>[i].pattern, e)} = {}
    OBVIOUS
<1> QED
    BY <1>1 DEF Verdict

LEMMA RootList ==
    ASSUME NEW texts, NEW g, OnlyAtRoot(texts, g), NEW o \in Orders(texts), NEW e
    PROVE  ListVerdict(texts, o, e) = Verdict(texts[g], e)
<1>1. DOMAIN o = Full(texts)
    BY OrderType
<1>2. CASE Heard(texts, DOMAIN o, e) = {}
  <2>1. ListVerdict(texts, o, e) = "none"
      BY <1>2, ListAsksOne
  <2>2. CASE g \in Full(texts)
      BY <1>1, <1>2, <2>1, <2>2 DEF Heard
  <2>3. CASE texts[g] = <<>>
      BY <2>1, <2>3, EmptySaysNothing
  <2> QED
      BY <2>2, <2>3 DEF Full, OnlyAtRoot
<1>3. CASE Heard(texts, DOMAIN o, e) # {}
    BY <1>1, <1>3, ListAsksOne DEF Heard, OnlyAtRoot
<1> QED
    BY <1>2, <1>3

LEMMA RootTree ==
    ASSUME NEW texts, NEW g, OnlyAtRoot(texts, g), NEW p \in Paths, NEW e \in Way(p)
    PROVE  TreeVerdict(texts, e) = Verdict(texts[g], e)
<1> DEFINE heard == {f \in IgnoreFiles :
                        IsBelow(e, f.dir) /\ Verdict(texts[f], e) # "none"}
<1>1. \A f \in IgnoreFiles : f # g => Verdict(texts[f], e) = "none"
    BY EmptySaysNothing DEF OnlyAtRoot, Full
<1>2. IsBelow(e, g.dir)
  <2>1. Len(e) > 0
      BY WayLength
  <2>2. Len(<<>>) = 0 /\ SubSeq(e, 1, 0) = <<>>
      OBVIOUS
  <2> QED
      BY <2>1, <2>2 DEF IsBelow, OnlyAtRoot
<1>3. CASE Verdict(texts[g], e) = "none"
  <2>1. heard = {}
      BY <1>1, <1>3
  <2> QED
      BY <1>3, <2>1 DEF TreeVerdict
<1>4. CASE Verdict(texts[g], e) # "none"
  <2>1. heard = {g}
      BY <1>1, <1>2, <1>4 DEF OnlyAtRoot
  <2>2. Outranks(g, g)
    <3>1. Len(g.dir) \in Nat
        BY DEF OnlyAtRoot
    <3> QED
      BY <3>1 DEF Outranks
  <2>3. (CHOOSE f \in heard : \A h \in heard : Outranks(f, h)) = g
    <3> HIDE DEF heard
    <3> QED
      BY <2>1, <2>2
  <2> QED
      BY <2>1, <2>3 DEF TreeVerdict
<1> QED
    BY <1>3, <1>4

\* With its rules in one file at the root, history is admitted alike in every
\* order of reading, and whatever the tree admits the history does.
LEMMA RootAdmits ==
    ASSUME NEW texts, NEW g, OnlyAtRoot(texts, g),
           NEW o \in Orders(texts), NEW allowed, NEW p \in Paths
    PROVE  /\ \A q \in Orders(texts) :
                 HistoryAdmits(allowed, texts, q, p) = HistoryAdmits(allowed, texts, o, p)
           /\ TreeAdmits(allowed, texts, p) => HistoryAdmits(allowed, texts, o, p)
<1>1. ASSUME NEW q \in Orders(texts)
      PROVE  HistoryAdmits(allowed, texts, q, p) = HistoryAdmits(allowed, texts, o, p)
  <2>1. \A e : ListVerdict(texts, o, e) = ListVerdict(texts, q, e)
      BY RootList
  <2>2. Matched(texts, o, p) = Matched(texts, q, p)
      BY <2>1 DEF Matched
  <2>3. \A r : HistoryVerdict(texts, r, p) =
                  IF Matched(texts, r, p) = {} THEN "none"
                  ELSE ListVerdict(texts, r, CHOOSE e \in Matched(texts, r, p) :
                          \A d \in Matched(texts, r, p) : Len(d) <= Len(e))
      BY DEF HistoryVerdict, Matched, Way
  <2>4. HistoryVerdict(texts, o, p) = HistoryVerdict(texts, q, p)
      BY <2>1, <2>2, <2>3, Zenon
  <2> QED
      BY <2>4 DEF HistoryAdmits
<1>2. ASSUME TreeAdmits(allowed, texts, p)
      PROVE  HistoryAdmits(allowed, texts, o, p)
  <2>1. CASE ForceAdmits(p)
      BY <2>1 DEF ForceAdmits, HistoryAdmits
  <2>2. CASE PlainAdmits(allowed, texts, p)
    <3>1. /\ p \notin HardSkips
          /\ \A e \in Way(p) : ~ConfigSkipped(allowed, e) /\ TreeVerdict(texts, e) # "ignore"
        BY <2>2 DEF PlainAdmits, Way
    <3>2. \A e \in Matched(texts, o, p) : ListVerdict(texts, o, e) # "ignore"
        BY <3>1, RootList, RootTree DEF Matched
    <3>3. HistoryVerdict(texts, o, p) # "ignore"
        BY <3>2, HistoryAsksOne
    <3> QED
      BY <3>1, <3>3 DEF HistoryAdmits, Way
  <2> QED
      BY <1>2, <2>1, <2>2 DEF TreeAdmits
<1> QED
    BY <1>1, <1>2

-----------------------------------------------------------------------------
(***************************************************************************)
(* Types.                                                                  *)
(***************************************************************************)

Edits ==
    \/ \E p \in Paths, c \in Contents \cup {NoContent} : Write(p, c)
    \/ \E p \in Paths, n \in CommitIds : Commit(p, n)
    \/ \E f \in IgnoreFiles, text \in IgnoreTexts : WriteIgnoreFile(f, text)
    \/ \E n \in Names : AddSkip(n)
    \/ \E k \in history : AllowCommit(k)
    \/ \E r \in CustomRules : AddRule(r)

LEMMA Places ==
    ASSUME NEW c
    PROVE  LocationsOf(c) \subseteq Locations
<1>1. \A p : SourcesOf(c, p) \subseteq Sources
    BY DEF SourcesOf
<1>2. ASSUME NEW p \in Paths, SourcesOf(c, p) # {}
      PROVE  [path |-> p, sources |-> SourcesOf(c, p)] \in Locations
    BY <1>1, <1>2 DEF Locations
<1> QED
    BY <1>2 DEF LocationsOf

LEMMA EditTypes ==
    ASSUME TypeOK, Edits
    PROVE  TypeOK'
<1> USE SecretAssumption
<1>1. ASSUME NEW p \in Paths, NEW c \in Contents \cup {NoContent}, Write(p, c)
      PROVE  TypeOK'
    BY <1>1 DEF TypeOK, Write, Edit
<1>2. ASSUME NEW p \in Paths, NEW n \in CommitIds, Commit(p, n)
      PROVE  TypeOK'
  <2>1. history' \subseteq [id : CommitIds, path : Paths, content : Contents]
      BY <1>2 DEF TypeOK, Commit
  <2> QED
      BY <1>2, <2>1 DEF TypeOK, Commit, Edit
<1>3. ASSUME NEW f \in IgnoreFiles, NEW text \in IgnoreTexts, WriteIgnoreFile(f, text)
      PROVE  TypeOK'
    BY <1>3 DEF TypeOK, WriteIgnoreFile, Edit
<1>4. ASSUME NEW n \in Names, AddSkip(n)
      PROVE  TypeOK'
    BY <1>4 DEF TypeOK, AddSkip, Edit
<1>5. ASSUME NEW k \in history, AllowCommit(k)
      PROVE  TypeOK'
  <2>1. k.id \in CommitIds
      BY DEF TypeOK
  <2>2. ruleset' \in [rules : SUBSET CustomRules, commits : SUBSET CommitIds]
      BY <1>5, <2>1 DEF TypeOK, AllowCommit
  <2>3. /\ UNCHANGED <<tree, history, ignores, skips, stage, pos, units, report>>
        /\ edits' \in 0..MaxEdits
      BY <1>5 DEF TypeOK, AllowCommit, Edit
  <2> QED
      BY <2>3, <2>2 DEF TypeOK
<1>6. ASSUME NEW r \in CustomRules, AddRule(r)
      PROVE  TypeOK'
  <2>1. ruleset' \in [rules : SUBSET CustomRules, commits : SUBSET CommitIds]
      BY <1>6 DEF TypeOK, AddRule
  <2>2. /\ UNCHANGED <<tree, history, ignores, skips, stage, pos, units, report>>
        /\ edits' \in 0..MaxEdits
      BY <1>6 DEF TypeOK, AddRule, Edit
  <2> QED
      BY <2>2, <2>1 DEF TypeOK
<1> QED
    BY <1>1, <1>2, <1>3, <1>4, <1>5, <1>6 DEF Edits

\* A candidate is the finding of a loaded rule on a line, at places of its unit.
LEMMA CandidateFacts ==
    ASSUME NEW u, NEW f \in Candidates(u)
    PROVE  /\ f.rule \in Loaded /\ f.content = u.content /\ f.line \in Lines[u.content]
           /\ Fires(f.rule, f.line)
           /\ f.locations = Retained(f.rule, f.line, u) /\ f.locations # {}
<1>1. PICK m \in Loaded \X Lines[u.content] :
          /\ Fires(m[1], m[2]) /\ Retained(m[1], m[2], u) # {}
          /\ f = [rule |-> m[1], line |-> m[2], content |-> u.content,
                  locations |-> Retained(m[1], m[2], u)]
    BY Zenon DEF Candidates
<1> QED
    BY <1>1

LEMMA NextTypes ==
    ASSUME TypeOK, [Next]_vars
    PROVE  TypeOK'
<1>1. CASE Edits
    BY <1>1, EditTypes
<1>2. CASE BuildPolicy
  <2>1. DOMAIN pos' \subseteq IgnoreFiles
      BY <1>2 DEF BuildPolicy, ReadOrders
  <2> QED
      BY <1>2, <2>1 DEF TypeOK, BuildPolicy, repository
<1>3. CASE Collect
  <2>1. ASSUME NEW c \in Contents, LocationsOf(c) # {}
        PROVE  [content |-> c, locations |-> LocationsOf(c)]
                  \in [content : Contents, locations : (SUBSET Locations) \ {{}}]
      BY <2>1, Places
  <2>2. units' \subseteq [content : Contents, locations : (SUBSET Locations) \ {{}}]
      BY <1>3, <2>1 DEF Collect
  <2> QED
      BY <1>3, <2>2 DEF TypeOK, Collect, repository
<1>4. CASE Detect
  <2>1. ASSUME NEW u \in units, NEW f \in Candidates(u)
        PROVE  /\ f.rule \in Rules /\ f.content \in Contents
               /\ f.line \in Lines[f.content]
               /\ f.locations \in (SUBSET Locations) \ {{}}
      BY CandidateFacts DEF TypeOK, Loaded, Rules, Retained
  <2>2. \A f \in report' :
            /\ f.rule \in Rules /\ f.content \in Contents
            /\ f.line \in Lines[f.content]
            /\ f.locations \in (SUBSET Locations) \ {{}}
      BY <1>4, <2>1 DEF Detect
  <2> QED
      BY <1>4, <2>2 DEF TypeOK, Detect, repository
<1>5. CASE RulesRejected
    BY <1>5 DEF TypeOK, RulesRejected, repository
<1>6. CASE UNCHANGED vars
    BY <1>6 DEF TypeOK, vars, repository
<1> QED
    BY <1>1, <1>2, <1>3, <1>4, <1>5, <1>6 DEF Next, Edits

LEMMA InitTypes ==
    ASSUME Init
    PROVE  TypeOK
<1>1. PICK r \in Repositories :
          tree = r.tree /\ history = r.history /\ ignores = r.ignores
    BY DEF Init
<1>2. DOMAIN pos \subseteq IgnoreFiles
    BY DEF Init
<1> QED
    BY <1>1, <1>2, SecretAssumption DEF Init, TypeOK

\* The state of successive scans keeps its types: a unit is at a place at least,
\* and so is every candidate that a scan reports.
THEOREM SecretTypeSafe == Spec => []TypeOK
<1>1. Init => TypeOK
    BY InitTypes
<1>2. TypeOK /\ [Next]_vars => TypeOK'
    BY NextTypes
<1> QED
    BY <1>1, <1>2, PTL DEF Spec

-----------------------------------------------------------------------------
(***************************************************************************)
(* The places of a content are told apart.                                 *)
(***************************************************************************)

\* A content has one unit, and a path one location in it.
Canonical(us) ==
    /\ \A u, v \in us : u.content = v.content => u = v
    /\ \A u \in us : \A l, m \in u.locations : l.path = m.path => l = m

\* What the detector finds in units.
FoundIn(us) == UNION {Candidates(u) : u \in us}

\* The units of the last scan are still those that its report was made of, or
\* they were dropped with a ruleset that could not be loaded.
PlaceInv ==
    /\ Canonical(units)
    /\ stage = "idle" /\ changed = {} => units = {} \/ report = FoundIn(units)

LEMMA CollectIsCanonical ==
    ASSUME NEW us,
           us = {[content |-> c, locations |-> LocationsOf(c)] :
                    c \in {d \in Contents : LocationsOf(d) # {}}}
    PROVE  Canonical(us)
<1>1. \A c : \A l \in LocationsOf(c) : l = [path |-> l.path, sources |-> SourcesOf(c, l.path)]
    BY DEF LocationsOf
<1>2. \A u \in us : u = [content |-> u.content, locations |-> LocationsOf(u.content)]
    OBVIOUS
<1>3. \A u, v \in us : u.content = v.content => u = v
    BY <1>2
<1>4. \A u \in us : \A l, m \in u.locations : l.path = m.path => l = m
  <2> SUFFICES ASSUME NEW u \in us, NEW l \in u.locations, NEW m \in u.locations,
                      l.path = m.path
               PROVE  l = m
      OBVIOUS
  <2>1. u.locations = LocationsOf(u.content)
      BY <1>2
  <2> QED
      BY <1>1, <2>1
<1> QED
    BY <1>3, <1>4 DEF Canonical

LEMMA NextPlaces ==
    ASSUME PlaceInv, [Next]_vars
    PROVE  PlaceInv'
<1>1. CASE Edits
  <2>1. UNCHANGED units /\ changed' # {}
      BY <1>1 DEF Edits, Write, Commit, WriteIgnoreFile, AddSkip, AllowCommit, AddRule, Edit
  <2> QED
      BY <2>1 DEF PlaceInv, Canonical
<1>2. CASE BuildPolicy
    BY <1>2 DEF PlaceInv, Canonical, BuildPolicy
<1>3. CASE Collect
  <2>1. Canonical(units')
      BY <1>3, CollectIsCanonical DEF Collect
  <2> QED
      BY <1>3, <2>1 DEF PlaceInv, Canonical, Collect
<1>4. CASE Detect
  <2>1. report' = FoundIn(units)'
      BY <1>4 DEF Detect, FoundIn, Candidates, Loaded, Retained, Allowed, repository
  <2> QED
      BY <1>4, <2>1 DEF PlaceInv, Canonical, Detect
<1>5. CASE RulesRejected
    BY <1>5 DEF PlaceInv, Canonical, RulesRejected
<1>6. CASE UNCHANGED vars
  <2>1. FoundIn(units)' = FoundIn(units)
      BY <1>6 DEF FoundIn, Candidates, Loaded, Retained, Allowed, vars, repository
  <2> QED
      BY <1>6, <2>1 DEF PlaceInv, Canonical, vars
<1> QED
    BY <1>1, <1>2, <1>3, <1>4, <1>5, <1>6 DEF Next, Edits

LEMMA MakesCandidate ==
    ASSUME NEW u, NEW r \in Loaded, NEW line \in Lines[u.content],
           Fires(r, line), Retained(r, line, u) # {}
    PROVE  [rule |-> r, line |-> line, content |-> u.content,
            locations |-> Retained(r, line, u)] \in Candidates(u)
<1> DEFINE m == <<r, line>>
<1>1. m \in {n \in Loaded \X Lines[u.content] :
                Fires(n[1], n[2]) /\ Retained(n[1], n[2], u) # {}}
    OBVIOUS
<1>2. m[1] = r /\ m[2] = line
    OBVIOUS
<1>3. [rule |-> m[1], line |-> m[2], content |-> u.content,
       locations |-> Retained(m[1], m[2], u)] \in Candidates(u)
    BY <1>1, Zenon DEF Candidates
<1> QED
    BY <1>2, <1>3

LEMMA PlacesSuffice ==
    ASSUME TypeOK, PlaceInv
    PROVE  PlacesAreIndependent
<1> SUFFICES ASSUME stage = "idle", changed = {},
                    NEW u \in units, NEW l \in u.locations,
                    NEW r \in Loaded, NEW line \in Lines[u.content]
             PROVE  Reports(r, line, u.content, l.path) <=>
                        \E f \in Candidates([u EXCEPT !.locations = {l}]) :
                            f.rule = r /\ f.line = line
    BY DEF PlacesAreIndependent
<1> DEFINE alone == [u EXCEPT !.locations = {l}]
<1>1. report = FoundIn(units)
    BY DEF PlaceInv
<1>2. alone.content = u.content /\ alone.locations = {l}
    BY DEF TypeOK
<1>3. ASSUME Reports(r, line, u.content, l.path)
      PROVE  \E f \in Candidates(alone) : f.rule = r /\ f.line = line
  <2>1. PICK f \in report : /\ f.rule = r /\ f.line = line /\ f.content = u.content
                            /\ \E k \in f.locations : k.path = l.path
      BY <1>3 DEF Reports
  <2>2. PICK v \in units : f \in Candidates(v)
      BY <1>1, <2>1 DEF FoundIn
  <2>3. v = u /\ Fires(r, line) /\ f.locations = Retained(r, line, u)
      BY <2>1, <2>2, CandidateFacts DEF PlaceInv, Canonical
  <2>4. l \in Retained(r, line, u)
      BY <2>1, <2>3 DEF PlaceInv, Canonical, Retained
  <2>5. Retained(r, line, alone) # {}
      BY <1>2, <2>4 DEF Retained
  <2>6. line \in Lines[alone.content]
      BY <1>2
  <2> HIDE DEF alone
  <2>7. [rule |-> r, line |-> line, content |-> alone.content,
         locations |-> Retained(r, line, alone)] \in Candidates(alone)
      BY <2>3, <2>5, <2>6, MakesCandidate
  <2> QED
      BY <2>7
<1>4. ASSUME NEW f \in Candidates(alone), f.rule = r, f.line = line
      PROVE  Reports(r, line, u.content, l.path)
  <2>1. Fires(r, line) /\ f.locations = Retained(r, line, alone) /\ f.locations # {}
      BY <1>4, CandidateFacts
  <2>2. l \in Retained(r, line, u)
      BY <1>2, <2>1 DEF Retained
  <2>3. [rule |-> r, line |-> line, content |-> u.content,
         locations |-> Retained(r, line, u)] \in Candidates(u)
      BY <2>1, <2>2, MakesCandidate
  <2>4. [rule |-> r, line |-> line, content |-> u.content,
         locations |-> Retained(r, line, u)] \in report
      BY <1>1, <2>3 DEF FoundIn
  <2> QED
      BY <2>2, <2>4 DEF Reports
<1> QED
    BY <1>3, <1>4

\* What a place of a content is reported for does not depend on the other
\* places of that content, although the content is scanned once for all of
\* them: CompiledAllowlist::matches takes away the occurrences it matches and
\* no other.
THEOREM PlacesStayIndependent == Spec => []PlacesAreIndependent
<1>1. Init => PlaceInv
    BY DEF Init, PlaceInv, Canonical
<1>2. PlaceInv /\ [Next]_vars => PlaceInv'
    BY NextPlaces
<1>3. TypeOK /\ PlaceInv => PlacesAreIndependent
    BY PlacesSuffice
<1> QED
    BY <1>1, <1>2, <1>3, SecretTypeSafe, PTL DEF Spec

-----------------------------------------------------------------------------
(***************************************************************************)
(* Two scans of an unchanged repository.                                   *)
(***************************************************************************)

\* What a scan collects of the repository if it read the files of rules in the
\* order o.
FoundAt(o, c, p) ==
    {s \in Sources :
        \/ s = WorkingTree /\ tree[p] = c /\ TreeAdmits(skips, ignores, p)
        \/ /\ [id |-> s, path |-> p, content |-> c] \in history
           /\ HistoryAdmits(skips, ignores, o, p)}

PlacesAt(o, c) ==
    {[path |-> p, sources |-> FoundAt(o, c, p)] : p \in {q \in Paths : FoundAt(o, c, q) # {}}}

UnitsAt(o) ==
    {[content |-> c, locations |-> PlacesAt(o, c)] : c \in {d \in Contents : PlacesAt(o, d) # {}}}

\* A scan that is under way collected with the order it found, and nobody
\* changes the repository meanwhile.
OrderInv ==
    /\ stage # "idle" => pos \in Orders(ignores)
    /\ stage = "detect" => units = UnitsAt(pos)

\* The last report is that of the repository as it is, unless it was changed.
RescanInv ==
    changed = {} => \E o \in Orders(ignores) : report = FoundIn(UnitsAt(o))

LEMMA SameUnits ==
    ASSUME UNCHANGED repository, NEW o
    PROVE  UnitsAt(o)' = UnitsAt(o)
<1>1. \A c, p : FoundAt(o, c, p)' = FoundAt(o, c, p)
    BY DEF FoundAt, repository
<1>2. \A c : PlacesAt(o, c)' = PlacesAt(o, c)
    BY <1>1 DEF PlacesAt
<1> QED
    BY <1>2 DEF UnitsAt

LEMMA SameUnitsOfScan ==
    ASSUME UNCHANGED <<repository, pos>>
    PROVE  UnitsAt(pos)' = UnitsAt(pos)
<1>1. \A c, p : FoundAt(pos, c, p)' = FoundAt(pos, c, p)
    BY DEF FoundAt, repository
<1>2. \A c : PlacesAt(pos, c)' = PlacesAt(pos, c)
    BY <1>1 DEF PlacesAt
<1> QED
    BY <1>2 DEF UnitsAt

LEMMA SameFindings ==
    ASSUME UNCHANGED repository, NEW us
    PROVE  FoundIn(us)' = FoundIn(us)
BY DEF FoundIn, Candidates, Loaded, Retained, Allowed, repository

LEMMA NextOrder ==
    ASSUME OrderInv, [Next]_vars
    PROVE  OrderInv'
<1>1. CASE Edits
    BY <1>1 DEF OrderInv, Edits, Write, Commit, WriteIgnoreFile, AddSkip, AllowCommit,
                AddRule, Edit
<1>2. CASE BuildPolicy
    BY <1>2 DEF OrderInv, BuildPolicy, Orders, Full, repository
<1>3. CASE Collect
  <2>1. units' = UnitsAt(pos)
      BY <1>3 DEF Collect, UnitsAt, PlacesAt, FoundAt, LocationsOf, SourcesOf
  <2>2. UnitsAt(pos)' = UnitsAt(pos)
      BY <1>3, SameUnitsOfScan DEF Collect
  <2>3. UNCHANGED <<pos, ignores>> /\ stage # "idle"
      BY <1>3 DEF Collect, repository
  <2> QED
      BY <2>1, <2>2, <2>3 DEF OrderInv
<1>4. CASE Detect
    BY <1>4 DEF OrderInv, Detect
<1>5. CASE RulesRejected
    BY <1>5 DEF OrderInv, RulesRejected
<1>6. CASE UNCHANGED vars
  <2>1. UnitsAt(pos)' = UnitsAt(pos)
      BY <1>6, SameUnitsOfScan DEF vars
  <2>2. UNCHANGED <<stage, pos, units, ignores>>
      BY <1>6 DEF vars, repository
  <2> QED
      BY <2>1, <2>2 DEF OrderInv
<1> QED
    BY <1>1, <1>2, <1>3, <1>4, <1>5, <1>6 DEF Next, Edits

LEMMA NextRescan ==
    ASSUME OrderInv, RescanInv, [Next]_vars
    PROVE  RescanInv'
<1>1. ASSUME UNCHANGED repository, UNCHANGED <<report, changed>>
      PROVE  RescanInv'
  <2> SUFFICES ASSUME changed' = {}
               PROVE  (\E o \in Orders(ignores) : report = FoundIn(UnitsAt(o)))'
      BY DEF RescanInv
  <2>1. PICK o \in Orders(ignores) : report = FoundIn(UnitsAt(o))
      BY <1>1 DEF RescanInv
  <2>2. PICK us : us = UnitsAt(o)
      OBVIOUS
  <2>3. UnitsAt(o)' = us /\ FoundIn(us)' = FoundIn(us)
      BY <1>1, <2>2, SameUnits, SameFindings
  <2>4. report' = FoundIn(UnitsAt(o))'
      BY <1>1, <2>1, <2>2, <2>3 DEF FoundIn
  <2>5. ignores' = ignores
      BY <1>1 DEF repository
  <2> QED
      BY <2>1, <2>4, <2>5
<1>2. CASE Edits
    BY <1>2 DEF RescanInv, Edits, Write, Commit, WriteIgnoreFile, AddSkip, AllowCommit,
                AddRule, Edit
<1>3. CASE BuildPolicy
    BY <1>1, <1>3 DEF BuildPolicy
<1>4. CASE Collect
    BY <1>1, <1>4 DEF Collect
<1>5. CASE Detect
  <2>1. report' = FoundIn(UnitsAt(pos)) /\ pos \in Orders(ignores)
      BY <1>5 DEF Detect, FoundIn, OrderInv
  <2>2. PICK o \in Orders(ignores) : report' = FoundIn(UnitsAt(o))
      BY <2>1
  <2>3. PICK us : us = UnitsAt(o)
      OBVIOUS
  <2>4. UnitsAt(o)' = us /\ FoundIn(us)' = FoundIn(us)
      BY <1>5, <2>3, SameUnits, SameFindings DEF Detect
  <2>5. report' = FoundIn(UnitsAt(o))'
      BY <2>2, <2>3, <2>4 DEF FoundIn
  <2>6. ignores' = ignores
      BY <1>5 DEF Detect, repository
  <2> QED
      BY <2>5, <2>6 DEF RescanInv
<1>6. CASE RulesRejected
    BY <1>1, <1>6 DEF RulesRejected
<1>7. CASE UNCHANGED vars
    BY <1>1, <1>7 DEF vars
<1> QED
    BY <1>2, <1>3, <1>4, <1>5, <1>6, <1>7 DEF Next, Edits

LEMMA TextsOfTypes ==
    ASSUME TypeOK
    PROVE  IsTexts(ignores)
BY SecretAssumption DEF TypeOK, IsTexts, IsText

LEMMA RootOfOrders ==
    ASSUME RootRulesOnly
    PROVE  \E g : OnlyAtRoot(ignores, g)
BY DEF RootRulesOnly, OnlyAtRoot, Full

LEMMA RescanStep ==
    ASSUME TypeOK, OrderInv, RescanInv, [Next]_vars
    PROVE  [stage = "detect" /\ stage' = "idle" /\ changed = {}
                    /\ (NoNegation \/ RootRulesOnly) =>
                report' = report]_vars
<1> SUFFICES ASSUME Next, stage = "detect", stage' = "idle", changed = {},
                    NoNegation \/ RootRulesOnly
             PROVE  report' = report
    OBVIOUS
<1>1. CASE RulesRejected
    BY <1>1 DEF RulesRejected
<1>2. CASE Detect
  <2>1. report' = FoundIn(UnitsAt(pos)) /\ pos \in Orders(ignores)
      BY <1>2 DEF Detect, FoundIn, OrderInv
  <2>2. PICK o \in Orders(ignores) : report = FoundIn(UnitsAt(o))
      BY DEF RescanInv
  <2> SUFFICES \A p \in Paths : HistoryAdmits(skips, ignores, pos, p)
                                   <=> HistoryAdmits(skips, ignores, o, p)
    <3>1. \A c : \A p \in Paths : FoundAt(pos, c, p) = FoundAt(o, c, p)
        BY DEF FoundAt
    <3>2. \A c : PlacesAt(pos, c) = PlacesAt(o, c)
        BY <3>1 DEF PlacesAt
    <3>3. UnitsAt(pos) = UnitsAt(o)
        BY <3>2 DEF UnitsAt
    <3> QED
      BY <2>1, <2>2, <3>3
  <2>3. CASE NoNegation
    <3>1. IsTexts(ignores) /\ NoKeeps(ignores)
        BY <2>3, TextsOfTypes DEF NoNegation, NoKeeps, NoKeep
    <3> QED
      BY <2>1, <2>2, <3>1, OrderIsImmaterial
  <2>4. CASE RootRulesOnly
    <3>1. PICK g : OnlyAtRoot(ignores, g)
        BY <2>4, RootOfOrders
    <3> QED
      BY <2>1, <2>2, <3>1, RootAdmits
  <2> QED
      BY <2>3, <2>4
<1> QED
    BY <1>1, <1>2 DEF Next, Write, Commit, WriteIgnoreFile, AddSkip, AllowCommit, AddRule,
                      Edit, BuildPolicy, Collect

\* Two scans of an unchanged repository report the same whatever order read_dir
\* lists the files of rules in, provided that no pattern is negated or that there
\* is one file of them, at the root.
THEOREM RescansAgree == Spec => RescanAgrees
<1>1. Init => OrderInv /\ RescanInv
    BY DEF Init, OrderInv, RescanInv
<1>2. OrderInv /\ RescanInv /\ [Next]_vars => (OrderInv /\ RescanInv)'
    BY NextOrder, NextRescan
<1>3. TypeOK /\ OrderInv /\ RescanInv /\ [Next]_vars =>
          [stage = "detect" /\ stage' = "idle" /\ changed = {}
                  /\ (NoNegation \/ RootRulesOnly) =>
              report' = report]_vars
    BY RescanStep
<1> QED
    BY <1>1, <1>2, <1>3, SecretTypeSafe, PTL DEF Spec, RescanAgrees

-----------------------------------------------------------------------------
(***************************************************************************)
(* What was reported stays reported.                                       *)
(***************************************************************************)

Committed(k, c, p) == k.path = p /\ k.content = c

\* Why a scan that read the rules in the order o reported a candidate at a
\* path.  Nothing here depends on the tree, and what depends on the history
\* survives a further commit.
Justified(f, p, o) ==
    /\ f.rule \in Loaded /\ f.content \in Contents /\ f.line \in Lines[f.content]
    /\ p \in Paths /\ Fires(f.rule, f.line)
    /\ p \notin RuleSkips[f.rule] /\ f.rule \notin f.line.allowed
    /\ \/ TreeAdmits(skips, ignores, p)
       \/ /\ HistoryAdmits(skips, ignores, o, p)
          /\ \E k \in history : Committed(k, f.content, p)
    /\ HistoryAdmits(skips, ignores, o, p) =>
          \A k \in history : Committed(k, f.content, p) => k.id \notin ruleset.commits

Untouched == changed \cap {"all", "ignores", "allow"} = {}

StayInv ==
    /\ \A n \in ruleset.commits : \E k \in history : k.id = n
    /\ Untouched => \A f \in report : \A l \in f.locations :
                        \E o \in Orders(ignores) : Justified(f, l.path, o)

LEMMA JustifiedStays ==
    ASSUME NEW f, NEW p, NEW o, Justified(f, p, o),
           UNCHANGED <<ignores, skips, ruleset>>,
           history \subseteq history',
           \A k \in history' \ history : k.id \notin ruleset.commits
    PROVE  Justified(f, p, o)'
BY DEF Justified, Loaded

LEMMA StayKept ==
    ASSUME StayInv, UNCHANGED <<ignores, skips, ruleset, report>>,
           Untouched' => Untouched,
           history \subseteq history',
           \A k \in history' \ history : k.id \notin ruleset.commits
    PROVE  StayInv'
<1>1. (\A n \in ruleset.commits : \E k \in history : k.id = n)'
    BY DEF StayInv
<1>2. ASSUME Untouched'
      PROVE  (\A f \in report : \A l \in f.locations :
                  \E o \in Orders(ignores) : Justified(f, l.path, o))'
  <2> SUFFICES ASSUME NEW f \in report, NEW l \in f.locations
               PROVE  \E o \in Orders(ignores) : Justified(f, l.path, o)'
      BY DEF Orders
  <2>1. PICK o \in Orders(ignores) : Justified(f, l.path, o)
      BY <1>2 DEF StayInv
  <2> QED
      BY <2>1, JustifiedStays
<1> QED
    BY <1>1, <1>2 DEF StayInv

\* A place in what a scan collects, and what is reported of it.
LEMMA PlaceFacts ==
    ASSUME NEW o, NEW u \in UnitsAt(o), NEW l \in u.locations
    PROVE  /\ u.content \in Contents /\ u.locations = PlacesAt(o, u.content)
           /\ l.path \in Paths /\ l.sources = FoundAt(o, u.content, l.path)
           /\ l.sources # {}
<1>1. u = [content |-> u.content, locations |-> PlacesAt(o, u.content)]
      /\ u.content \in Contents
    BY DEF UnitsAt
<1>2. u.locations = PlacesAt(o, u.content)
    BY <1>1
<1>3. PICK p \in {q \in Paths : FoundAt(o, u.content, q) # {}} :
          l = [path |-> p, sources |-> FoundAt(o, u.content, p)]
    BY <1>2 DEF PlacesAt
<1> QED
    BY <1>1, <1>2, <1>3

LEMMA DetectJustifies ==
    ASSUME TypeOK, NEW o, NEW u \in UnitsAt(o), NEW f \in Candidates(u), NEW l \in f.locations
    PROVE  Justified(f, l.path, o)
<1>1. /\ f.rule \in Loaded /\ f.content = u.content /\ f.line \in Lines[u.content]
      /\ Fires(f.rule, f.line) /\ f.locations = Retained(f.rule, f.line, u)
    BY CandidateFacts
<1>2. l \in u.locations /\ ~Allowed(f.rule, f.line, l)
    BY <1>1 DEF Retained
<1>3. /\ u.content \in Contents /\ l.path \in Paths
      /\ l.sources = FoundAt(o, u.content, l.path) /\ l.sources # {}
    BY <1>2, PlaceFacts
<1>4. /\ l.path \notin RuleSkips[f.rule] /\ f.rule \notin f.line.allowed
      /\ l.sources \cap ruleset.commits = {}
    BY <1>2 DEF Allowed
<1>5. \/ TreeAdmits(skips, ignores, l.path)
      \/ /\ HistoryAdmits(skips, ignores, o, l.path)
         /\ \E k \in history : Committed(k, f.content, l.path)
  <2>1. PICK s \in Sources :
            \/ TreeAdmits(skips, ignores, l.path)
            \/ /\ [id |-> s, path |-> l.path, content |-> u.content] \in history
               /\ HistoryAdmits(skips, ignores, o, l.path)
      BY <1>3 DEF FoundAt
  <2> QED
      BY <1>1, <2>1 DEF Committed
<1>6. ASSUME HistoryAdmits(skips, ignores, o, l.path),
             NEW k \in history, Committed(k, f.content, l.path)
      PROVE  k.id \notin ruleset.commits
  <2>1. k \in [id : CommitIds, path : Paths, content : Contents]
      BY DEF TypeOK
  <2>2. k.id \in Sources
      BY <2>1 DEF Sources
  <2>3. k = [id |-> k.id, path |-> l.path, content |-> u.content]
      BY <1>1, <1>6, <2>1 DEF Committed
  <2>4. k.id \in l.sources
      BY <1>3, <1>6, <2>2, <2>3 DEF FoundAt
  <2> QED
      BY <1>4, <2>4
<1> QED
    BY <1>1, <1>3, <1>4, <1>5, <1>6 DEF Justified

LEMMA NextStay ==
    ASSUME TypeOK, OrderInv, StayInv, [Next]_vars
    PROVE  StayInv'
<1>1. ASSUME UNCHANGED <<repository, report, changed>>
      PROVE  StayInv'
    BY <1>1, StayKept DEF repository, Untouched
<1>2. ASSUME NEW p \in Paths, NEW c \in Contents \cup {NoContent}, Write(p, c)
      PROVE  StayInv'
    BY <1>2, StayKept DEF Write, Edit, Untouched
<1>3. ASSUME NEW p \in Paths, NEW n \in CommitIds, Commit(p, n)
      PROVE  StayInv'
  <2>1. /\ UNCHANGED <<ignores, skips, ruleset, report>>
        /\ Untouched' => Untouched
        /\ history \subseteq history'
      BY <1>3 DEF Commit, Edit, Untouched
  <2>2. n \notin ruleset.commits
      BY <1>3 DEF StayInv, Commit
  <2>3. \A k \in history' \ history : k.id \notin ruleset.commits
      BY <1>3, <2>2 DEF Commit
  <2> QED
      BY <2>1, <2>3, StayKept
<1>4. ASSUME NEW f \in IgnoreFiles, NEW text \in IgnoreTexts, WriteIgnoreFile(f, text)
      PROVE  StayInv'
    BY <1>4 DEF StayInv, WriteIgnoreFile, Edit, Untouched
<1>5. ASSUME NEW n \in Names, AddSkip(n)
      PROVE  StayInv'
    BY <1>5 DEF StayInv, AddSkip, Edit, Untouched
<1>6. ASSUME NEW k \in history, AllowCommit(k)
      PROVE  StayInv'
  <2>1. ~Untouched'
      BY <1>6 DEF AllowCommit, Edit, Untouched
  <2>2. ruleset'.commits = ruleset.commits \cup {k.id} /\ history' = history
      BY <1>6 DEF AllowCommit, TypeOK
  <2> QED
      BY <2>1, <2>2 DEF StayInv
<1>7. ASSUME NEW r \in CustomRules, AddRule(r)
      PROVE  StayInv'
  <2>1. /\ ruleset'.commits = ruleset.commits /\ ruleset.rules \subseteq ruleset'.rules
        /\ UNCHANGED <<tree, history, ignores, skips>>
      BY <1>7 DEF AddRule, TypeOK
  <2>2. UNCHANGED report /\ (Untouched' => Untouched)
      BY <1>7 DEF AddRule, Edit, Untouched
  <2>3. \A f, p, o : Justified(f, p, o) => Justified(f, p, o)'
      BY <2>1 DEF Justified, Loaded
  <2>4. Orders(ignores)' = Orders(ignores)
      BY <2>1 DEF Orders
  <2> QED
      BY <2>1, <2>2, <2>3, <2>4 DEF StayInv
<1>8. CASE BuildPolicy
    BY <1>1, <1>8 DEF BuildPolicy
<1>9. CASE Collect
    BY <1>1, <1>9 DEF Collect
<1>10. CASE Detect
  <2>1. UNCHANGED <<ignores, skips, ruleset, history>>
      BY <1>10 DEF Detect, repository
  <2>2. ASSUME NEW f \in report', NEW l \in f.locations
        PROVE  \E o \in Orders(ignores) : Justified(f, l.path, o)'
    <3>1. PICK o \in Orders(ignores) : units = UnitsAt(o)
        BY <1>10 DEF Detect, OrderInv
    <3>2. PICK u \in units : f \in Candidates(u)
        BY <1>10 DEF Detect
    <3>3. Justified(f, l.path, o)
        BY <3>1, <3>2, DetectJustifies
    <3> QED
      BY <2>1, <3>3, JustifiedStays
  <2> QED
      BY <2>1, <2>2 DEF StayInv, Orders
<1>11. CASE RulesRejected
    BY <1>1, <1>11 DEF RulesRejected
<1>12. CASE UNCHANGED vars
    BY <1>1, <1>12 DEF vars
<1> QED
    BY <1>2, <1>3, <1>4, <1>5, <1>6, <1>7, <1>8, <1>9, <1>10, <1>11, <1>12 DEF Next

\* With the rules in one file at the root, a justified place that still holds
\* its content is collected, from sources that no allowlist names.
LEMMA CollectedAgain ==
    ASSUME TypeOK, StayInv, RootRulesOnly, NEW o \in Orders(ignores),
           NEW f, NEW p, NEW q \in Orders(ignores), Justified(f, p, q), Held(f.content, p)
    PROVE  /\ FoundAt(o, f.content, p) # {}
           /\ FoundAt(o, f.content, p) \cap ruleset.commits = {}
<1>1. PICK g : OnlyAtRoot(ignores, g)
    BY RootOfOrders
<1>2. /\ p \in Paths /\ f.content \in Contents
      /\ TreeAdmits(skips, ignores, p)
         \/ /\ HistoryAdmits(skips, ignores, q, p)
            /\ \E k \in history : Committed(k, f.content, p)
      /\ HistoryAdmits(skips, ignores, q, p) =>
            \A k \in history : Committed(k, f.content, p) => k.id \notin ruleset.commits
    BY DEF Justified
<1>3. /\ HistoryAdmits(skips, ignores, q, p) = HistoryAdmits(skips, ignores, o, p)
      /\ TreeAdmits(skips, ignores, p) => HistoryAdmits(skips, ignores, o, p)
    BY <1>1, <1>2, RootAdmits
<1>4. HistoryAdmits(skips, ignores, o, p)
    BY <1>2, <1>3
<1>5. \A k \in history : Committed(k, f.content, p) =>
          /\ k = [id |-> k.id, path |-> p, content |-> f.content]
          /\ k.id \in Sources /\ k.id \notin ruleset.commits
    BY <1>2, <1>3, <1>4 DEF TypeOK, Committed, Sources
<1>6. FoundAt(o, f.content, p) # {}
  <2>1. CASE \E k \in history : Committed(k, f.content, p)
      BY <1>4, <1>5, <2>1 DEF FoundAt
  <2>2. CASE tree[p] = f.content /\ TreeAdmits(skips, ignores, p)
    <3>1. WorkingTree \in Sources
        BY DEF Sources
    <3> QED
      BY <2>2, <3>1 DEF FoundAt
  <2> QED
      BY <1>2, <2>1, <2>2 DEF Held, Committed
<1>7. \A s \in FoundAt(o, f.content, p) : s \notin ruleset.commits
  <2> SUFFICES ASSUME NEW s \in FoundAt(o, f.content, p)
               PROVE  s \notin ruleset.commits
      OBVIOUS
  <2>1. CASE s = WorkingTree
      BY <2>1, SecretAssumption DEF TypeOK, WorkingTree
  <2>2. CASE [id |-> s, path |-> p, content |-> f.content] \in history
    <3>1. Committed([id |-> s, path |-> p, content |-> f.content], f.content, p)
        BY DEF Committed
    <3> QED
      BY <1>5, <2>2, <3>1
  <2> QED
      BY <2>1, <2>2 DEF FoundAt
<1> QED
    BY <1>6, <1>7

LEMMA StayStep ==
    ASSUME TypeOK, OrderInv, StayInv, Detect, RootRulesOnly,
           NEW f \in report, NEW l \in f.locations, Stays(f, l)
    PROVE  Reports(f.rule, f.line, f.content, l.path)'
<1>1. PICK q \in Orders(ignores) : Justified(f, l.path, q)
    BY DEF StayInv, Stays, Untouched
<1>2. PICK o \in Orders(ignores) : units = UnitsAt(o)
    BY DEF Detect, OrderInv
<1> DEFINE c == f.content
           p == l.path
           place == [path |-> p, sources |-> FoundAt(o, c, p)]
           u == [content |-> c, locations |-> PlacesAt(o, c)]
           again == [rule |-> f.rule, line |-> f.line, content |-> u.content,
                     locations |-> Retained(f.rule, f.line, u)]
<1>3. FoundAt(o, c, p) # {} /\ FoundAt(o, c, p) \cap ruleset.commits = {}
    BY <1>1, CollectedAgain DEF Stays
<1>4. /\ f.rule \in Loaded /\ c \in Contents /\ f.line \in Lines[c] /\ p \in Paths
      /\ Fires(f.rule, f.line) /\ p \notin RuleSkips[f.rule] /\ f.rule \notin f.line.allowed
    BY <1>1 DEF Justified
<1>5. place \in PlacesAt(o, c)
    BY <1>3, <1>4 DEF PlacesAt
<1>6. u \in units
    BY <1>2, <1>4, <1>5 DEF UnitsAt
<1>7. place \in Retained(f.rule, f.line, u)
    BY <1>3, <1>4, <1>5 DEF Retained, Allowed
<1>8. again \in Candidates(u)
  <2>1. f.line \in Lines[u.content] /\ Retained(f.rule, f.line, u) # {}
      BY <1>4, <1>7
  <2> HIDE DEF u
  <2> QED
      BY <1>4, <2>1, MakesCandidate
<1>9. again \in report'
  <2> HIDE DEF u, again
  <2> QED
      BY <1>6, <1>8 DEF Detect
<1>10. /\ again.rule = f.rule /\ again.line = f.line /\ again.content = c
       /\ place \in again.locations /\ place.path = p
    BY <1>7
<1> QED
  <2> HIDE DEF again, place
  <2> QED
      BY <1>9, <1>10 DEF Reports

\* What one scan reported the next one reports, as long as the content is at
\* its path in the tree or in a commit, no ignore rule and no allowlist was
\* changed, and the rules are in one file at the root: neither a commit, nor a
\* deletion after it, nor another custom rule takes a report away.
THEOREM ReportsStay == Spec => ReportedStaysReported
<1>1. Init => OrderInv /\ StayInv
    BY DEF Init, OrderInv, StayInv
<1>2. TypeOK /\ OrderInv /\ StayInv /\ [Next]_vars => (OrderInv /\ StayInv)'
    BY NextOrder, NextStay
<1>3. TypeOK /\ OrderInv /\ StayInv /\ [Next]_vars =>
          [\A f \in report : \A l \in f.locations :
              stage = "detect" /\ Mergeable /\ RootRulesOnly /\ Stays(f, l) =>
                  Reports(f.rule, f.line, f.content, l.path)']_vars
  <2> SUFFICES ASSUME TypeOK, OrderInv, StayInv, Next,
                      NEW f \in report, NEW l \in f.locations,
                      stage = "detect", Mergeable, RootRulesOnly, Stays(f, l)
               PROVE  Reports(f.rule, f.line, f.content, l.path)'
      OBVIOUS
  <2>1. Detect
      BY DEF Next, Write, Commit, WriteIgnoreFile, AddSkip, AllowCommit, AddRule, Edit,
             BuildPolicy, Collect, RulesRejected
  <2> QED
      BY <2>1, StayStep
<1> QED
    BY <1>1, <1>2, <1>3, SecretTypeSafe, PTL DEF Spec, ReportedStaysReported

=============================================================================
